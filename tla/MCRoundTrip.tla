------------------------------ MODULE MCRoundTrip ------------------------------
(* RoundTrip for one or two layers of every type, every depth AV1 has, both   *)
(* kinds of colour description, and every Exif orientation.                   *)
EXTENDS RoundTrip

MCEncoders == {"aom"}
MCColorPrimaries == {1, 9}
MCWordSize == 65536
MCMinTileSide == 64

LayerOf(type, transparent) ==
    [type |-> type, transparent |-> transparent, width |-> 3, height |-> 2]

Default ==
    [layers |-> <<LayerOf("RGB", FALSE)>>, depth |-> 8,
     minQuantizer |-> 0, maxQuantizer |-> 40, alphaQuantizer |-> 0,
     format |-> "YUV420", codec |-> "auto", duration |-> 5, timescale |-> 25,
     linear |-> FALSE, icc |-> FALSE, metadata |-> FALSE, orientation |-> 1,
     exif |-> FALSE, xmp |-> FALSE]

MCLayers ==
    {<<LayerOf(t, FALSE)>> : t \in {"RGB", "GRAY"}}
    \cup {<<LayerOf(t, TRUE)>> : t \in {"RGBA", "GRAYA"}}
    \cup {<<LayerOf("GRAYA", FALSE), LayerOf("GRAYA", TRUE)>>, <<LayerOf("RGBA", FALSE)>>}

(* Among them coloured drawables a script has written without chroma.         *)
MCRequests ==
    {[Default EXCEPT !.layers = s, !.depth = d, !.linear = l, !.icc = i] :
        s \in MCLayers, d \in {8, 10, 12}, l \in BOOLEAN, i \in BOOLEAN}
    \cup {[Default EXCEPT !.format = "YUV400", !.layers = s, !.depth = 10, !.icc = i] :
        s \in {<<LayerOf("RGB", FALSE)>>, <<LayerOf("RGBA", TRUE)>>}, i \in BOOLEAN}
    \cup {[Default EXCEPT !.metadata = TRUE, !.exif = TRUE, !.xmp = (o = 6), !.orientation = o,
                          !.layers = s] :
            o \in 1..8, s \in {<<LayerOf("RGB", FALSE)>>,
                               <<LayerOf("GRAYA", TRUE), LayerOf("GRAYA", TRUE)>>}}

(* Both ends, a run of neighbours across two 10-bit steps, and samples next   *)
(* to the middle.                                                             *)
MCGraySamples ==
    0..140 \cup {255, 256, 32735, 32736, 32737, 32767, 32768} \cup 65470..65535
==============================================================================
