------------------------------ MODULE MCLoadImage ------------------------------
(* LoadImage on six slices of files, each varying what one group of hazards   *)
(* depends on and keeping the rest at one default:                            *)
(*   unreadable  what the path may name, damaged and ambiguous files          *)
(*   colour      profiles, colour descriptions, formats, depths, alpha        *)
(*   metadata    good and bad Exif and XMP beside good and bad profiles       *)
(*   grid        tiles that do and do not fit their output                    *)
(*   display     every turn and mirror after a crop                           *)
(*   aperture    the clean aperture's fractions, on four-bit words            *)
EXTENDS LoadImage

MCWordSize == 16
MCMinTileSide == 2
MCKnownPrimaries == {1, 9}

Optional(S) == {<<>>} \cup {<<e>> : e \in S}

PictureOf(width, height, format) ==
    [width |-> width, height |-> height, depth |-> 8, yuvFormat |-> format,
     grid |-> <<>>, mixed |-> FALSE, broken |-> FALSE]

Plain ==
    [colour |-> PictureOf(2, 1, "YUV444"), alpha |-> <<>>, premultiplied |-> FALSE,
     samples |-> TRUE, av1C |-> TRUE, icc |-> <<>>, nclx |-> <<>>, header |-> <<>>,
     clap |-> <<>>, irot |-> <<>>, imir |-> <<>>, exif |-> "none", xmp |-> "none",
     orientation |-> 1]

Still(source) == [kind |-> "avif", major |-> "avif", tracks |-> <<>>, items |-> <<source>>]

Nclx(primaries, transfer, matrix, range) ==
    [primaries |-> primaries, transfer |-> transfer, matrix |-> matrix, range |-> range]

Icc(kind, linear) == [kind |-> kind, linear |-> linear]

------------------------------------------------------------------------------
Damaged ==
    {[Plain EXCEPT !.samples = FALSE], [Plain EXCEPT !.av1C = FALSE],
     [Plain EXCEPT !.icc = <<Icc("RGB", FALSE), Icc("RGB", FALSE)>>],
     [Plain EXCEPT !.nclx = <<Nclx(1, 13, 1, "full"), Nclx(9, 16, 9, "full")>>],
     [Plain EXCEPT !.colour.broken = TRUE],
     [Plain EXCEPT !.alpha = <<[PictureOf(2, 1, "YUV400") EXCEPT !.broken = TRUE]>>],
     [Plain EXCEPT !.alpha = <<PictureOf(1, 1, "YUV400")>>],
     [Plain EXCEPT !.alpha = <<[PictureOf(2, 1, "YUV400") EXCEPT !.depth = 10]>>]}

UnreadableFiles ==
    {[Still(Plain) EXCEPT !.kind = k] : k \in {"missing", "stream", "empty", "other"}}
    \cup {Still(s) : s \in Damaged}
    \cup {[kind |-> "avif", major |-> m, tracks |-> t, items |-> i] :
            m \in {"avif", "avis", "other"},
            t \in Optional({Plain, [Plain EXCEPT !.colour = PictureOf(1, 2, "YUV400")]}),
            i \in Optional({Plain})}

(* Transfer characteristics with and without a curve, primaries known and not, *)
(* matrices libavif converts always, sometimes and never.                     *)
Descriptions ==
    {Nclx(p, t, 1, "full") : p \in {0, 2, 9, 22}, t \in {0, 1, 2, 4, 5, 6, 8, 13, 16, 18}}
    \cup {Nclx(1, 13, m, r) : m \in {0, 2, 3, 8, 9, 10, 11, 12, 13, 14}, r \in {"full", "limited"}}

Alphas == Optional({PictureOf(2, 1, "YUV400")})

ColourFiles ==
    {Still([Plain EXCEPT !.colour.yuvFormat = f, !.nclx = n, !.alpha = a, !.premultiplied = m]) :
        f \in Formats, n \in Optional(Descriptions), a \in Alphas, m \in BOOLEAN}
    \cup {Still([Plain EXCEPT !.colour.yuvFormat = f, !.nclx = n,
                              !.header = <<Nclx(9, 8, 9, "limited")>>]) :
            f \in Formats, n \in Optional({Nclx(1, 13, 1, "full")})}
    \cup {Still([Plain EXCEPT !.colour.yuvFormat = f, !.nclx = <<Nclx(1, t, m, "full")>>,
                              !.icc = <<Icc(k, l)>>, !.alpha = a, !.premultiplied = TRUE]) :
            f \in Formats, t \in {8, 13}, m \in {0, 1}, k \in {"RGB", "GRAY", "other", "broken"},
            l \in BOOLEAN, a \in Alphas}
    \cup {Still([Plain EXCEPT !.colour.yuvFormat = f, !.colour.depth = d]) :
            f \in Formats, d \in {8, 10, 12}}

MetadataFiles ==
    {Still([Plain EXCEPT !.exif = e, !.xmp = x, !.icc = i]) :
        e \in {"none", "good", "bad"}, x \in {"none", "good", "bad"},
        i \in Optional({Icc("RGB", FALSE), Icc("broken", FALSE)})}

------------------------------------------------------------------------------
Grids == [columns : 1..2, rows : 1..2, width : 1..4, height : 2..3]

Tiled(width, height, format, g) == [PictureOf(width, height, format) EXCEPT !.grid = <<g>>]

GridFiles ==
    {Still([Plain EXCEPT !.colour = Tiled(w, h, f, g)]) :
        w \in 3..5, h \in 3..4, f \in Formats, g \in Grids}
    \cup {Still([Plain EXCEPT !.colour = PictureOf(w, h, "YUV444"),
                              !.alpha = <<Tiled(w, h, "YUV400", g)>>]) :
            w \in 3..4, h \in {4}, g \in Grids}
    \cup {Still([Plain EXCEPT !.colour = [Tiled(4, 4, "YUV420", g) EXCEPT !.mixed = TRUE]]) :
            g \in [columns : {2}, rows : {2}, width : {2}, height : {2}]}

AxisOf(n, d, offN, offD) == [n |-> n, d |-> d, offN |-> offN, offD |-> offD]

(* 4 of 5 columns and 3 of 4 rows, off the centre; and a box of no area.      *)
Apertures ==
    {[horizontal |-> AxisOf(4, 1, 1, 2), vertical |-> AxisOf(3, 1, 15, 2)],
     [horizontal |-> AxisOf(4, 1, 1, 0), vertical |-> AxisOf(3, 1, 15, 2)],
     [horizontal |-> AxisOf(1, 3, 0, 1), vertical |-> AxisOf(3, 1, 0, 1)]}

DisplayFiles ==
    {Still([Plain EXCEPT !.colour = PictureOf(5, 4, "YUV444"), !.clap = c, !.irot = r,
                         !.imir = m, !.exif = "good", !.orientation = 6]) :
        c \in Optional(Apertures), r \in Optional(0..3), m \in Optional(0..1)}

(* Every sign, fraction and overflow on one axis, the other one cut in half.  *)
ApertureFiles ==
    {Still([Plain EXCEPT !.colour = PictureOf(w, 2, f),
                         !.clap = <<[horizontal |-> AxisOf(n, d, on, od),
                                     vertical |-> AxisOf(2, 1, 0, 1)]>>]) :
        w \in {4, 5}, f \in {"YUV444", "YUV420"}, n \in {0, 1, 4, 15}, d \in {0, 1, 2},
        on \in {0, 1, 2, 3, 8, 13, 15}, od \in {0, 1, 2, 3, 8}}
    \cup {Still([Plain EXCEPT !.colour = PictureOf(2, h, f),
                              !.clap = <<[vertical |-> AxisOf(n, d, on, od),
                                          horizontal |-> AxisOf(2, 1, 0, 1)]>>]) :
            h \in {4, 5}, f \in {"YUV422", "YUV420"}, n \in {2, 3}, d \in {1, 15},
            on \in {0, 1, 3, 8, 15}, od \in {1, 2, 9}}

MCFiles == UnreadableFiles \cup ColourFiles \cup MetadataFiles \cup GridFiles
           \cup DisplayFiles \cup ApertureFiles
==============================================================================
