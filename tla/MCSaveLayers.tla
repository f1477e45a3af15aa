----------------------------- MODULE MCSaveLayers -----------------------------
(* SaveLayers on four slices of requests, each varying what one group of      *)
(* hazards depends on and keeping the rest at the plug-in's defaults:         *)
(*   frames    up to three layers of every type GIMP can mix in one image,    *)
(*             every bit depth the argument allows, present and absent codecs *)
(*   colour    every type, depth, curve and kind of colour description        *)
(*   metadata  every combination of Exif and XMP requests, and orientations   *)
(*   quality   quantizers a script can pass in any order                      *)
EXTENDS SaveLayers

MCEncoders == {"aom"}

(* The three primaries a space can be mapped to when none matches.            *)
MCColorPrimaries == {1, 9, 12}

LayerOf(type, transparent) ==
    [type |-> type, transparent |-> transparent, width |-> 7, height |-> 5]

Default ==
    [layers |-> <<LayerOf("RGBA", TRUE)>>, depth |-> 8,
     minQuantizer |-> 0, maxQuantizer |-> 40, alphaQuantizer |-> 0,
     format |-> "YUV420", codec |-> "auto", duration |-> 5, timescale |-> 25,
     linear |-> FALSE, icc |-> FALSE, metadata |-> TRUE, orientation |-> 1,
     exif |-> FALSE, xmp |-> FALSE]

(* The layers of one image differ in their alpha channels only.               *)
ColourLayers == {LayerOf("RGB", FALSE), LayerOf("RGBA", FALSE), LayerOf("RGBA", TRUE)}
GrayLayers   == {LayerOf("GRAY", FALSE), LayerOf("GRAYA", FALSE), LayerOf("GRAYA", TRUE)}

SeqsUpTo(S, n) == UNION {[1..k -> S] : k \in 0..n}

(* A layer of another size, and layers too wide for a track.                  *)
Resized(layers, w) == [layers EXCEPT ![Len(layers)].width = w]
Widened(layers)    == [i \in DOMAIN layers |-> [layers[i] EXCEPT !.width = 65536]]

LayerStacks ==
    LET stacks == SeqsUpTo(ColourLayers, 3) \cup SeqsUpTo(GrayLayers, 3)
        some   == {s \in SeqsUpTo(ColourLayers, 2) : Len(s) > 0}
    IN  stacks \cup {Resized(s, 8) : s \in some} \cup {Widened(s) : s \in some}

FrameRequests ==
    {[Default EXCEPT !.layers = s, !.depth = d, !.codec = c] :
        s \in LayerStacks, d \in 8..12, c \in {"auto", "aom", "svt"}}

OneOfEach == {<<LayerOf(t, FALSE)>> : t \in ImageTypes}

ColourRequests ==
    {[Default EXCEPT !.layers = s, !.depth = d, !.linear = l, !.icc = i, !.format = f] :
        s \in OneOfEach, d \in 8..12, l \in BOOLEAN, i \in BOOLEAN, f \in {"YUV444", "YUV400"}}

MetadataRequests ==
    {[Default EXCEPT !.metadata = m, !.exif = e, !.xmp = x, !.layers = s,
                     !.orientation = o] :
        o \in {1, 5, 6}, m \in BOOLEAN, e \in BOOLEAN, x \in BOOLEAN,
        s \in {[i \in 1..n |-> LayerOf("RGBA", FALSE)] : n \in 1..2}}

QualityRequests ==
    {[Default EXCEPT !.minQuantizer = lo, !.maxQuantizer = hi, !.alphaQuantizer = a, !.layers = s] :
        lo \in {0, 40, 63}, hi \in {0, 40, 63}, a \in {0, 63},
        s \in {<<LayerOf("RGB", FALSE)>>, <<LayerOf("RGBA", TRUE)>>}}

MCRequests == FrameRequests \cup ColourRequests \cup MetadataRequests \cup QualityRequests
==============================================================================
