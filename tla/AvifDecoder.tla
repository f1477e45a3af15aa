----------------------------- MODULE AvifDecoder -----------------------------
(* libavif's avifDecoder as far as the plug-in drives it: a file in memory is *)
(* parsed and its first image decoded, once, without strict checks, without   *)
(* incremental or progressive decoding.  The calls run on the caller's        *)
(* thread, so each is a function of the file: of what its boxes say.          *)
EXTENDS CleanAperture, Sequences

CONSTANT MinTileSide    \* 64: the smallest tile MIAF allows in a grid

AtMostOne(S) == {s \in Seq(S) : Len(s) <= 1}
Side         == 1..IntMax

(* A picture as its codec decodes it: one tile, or a grid of equal tiles.     *)
Grid    == [columns : Nat \ {0}, rows : Nat \ {0}, width : Side, height : Side]
Formats == {"YUV444", "YUV422", "YUV420", "YUV400"}
Picture == [width : Side, height : Side, depth : {8, 10, 12}, yuvFormat : Formats,
            grid : AtMostOne(Grid),
            mixed : BOOLEAN,            \* the tiles differ from each other
            broken : BOOLEAN]           \* the codec fails on it

(* How an image is described, by a track or by an item.                       *)
Profile == [kind : {"RGB", "GRAY", "other", "broken"}, linear : BOOLEAN]
Colour  == [primaries : Nat, transfer : Nat, matrix : Nat, range : {"full", "limited"}]
Source  == [colour : Picture, alpha : AtMostOne(Picture),
            premultiplied : BOOLEAN,    \* the colour was multiplied by the alpha
            samples : BOOLEAN,          \* every sample has data
            av1C : BOOLEAN,             \* the configuration box is there
            icc : Seq(Profile), nclx : Seq(Colour), \* the colr boxes, by type
            header : AtMostOne(Colour), \* from the AV1 sequence header
            clap : AtMostOne(Box), irot : AtMostOne(0..3), imir : AtMostOne(0..1),
            exif : {"none", "good", "bad"}, xmp : {"none", "good", "bad"},
          orientation : 1..8]       \* the orientation good Exif states

(* A file: what libgimp finds at the path, and in an AVIF file the major      *)
(* brand and what tracks and items describe.                                  *)
File == [kind : {"missing", "stream", "empty", "other", "avif"},
         major : {"avif", "avis", "other"},
         tracks : AtMostOne(Source), items : AtMostOne(Source)]

(* AVIF_DECODER_SOURCE_AUTO: the major brand decides, then the tracks.        *)
SourceOf(f) ==
    IF f.major = "avis" \/ (f.major # "avif" /\ f.tracks # <<>>) THEN f.tracks ELSE f.items

(* avifDecoderParse and avifDecoderReset.                                     *)
Parses(f) ==
    /\ SourceOf(f) # <<>>
    /\ LET source == SourceOf(f)[1]
       IN  /\ source.samples
           /\ Len(source.icc) <= 1 /\ Len(source.nclx) <= 1
           /\ source.av1C

(* The colour description adopted: the box, else the sequence header, else    *)
(* what a new avifImage has.                                                  *)
Unspecified == [primaries |-> 2, transfer |-> 2, matrix |-> 2, range |-> "full"]

CICP(source) ==
    IF source.nclx # <<>> THEN source.nclx[1]
    ELSE IF source.header # <<>> THEN source.header[1]
    ELSE Unspecified

------------------------------------------------------------------------------
(* Subsampling of the chroma planes: the divisors of width and height.        *)
ChromaX(format) == IF format \in {"YUV420", "YUV422"} THEN 2 ELSE 1
ChromaY(format) == IF format = "YUV420" THEN 2 ELSE 1

(* avifAreGridDimensionsValid; alpha tiles have no chroma.                    *)
DimensionsValid_anyParity(p, format) ==
    p.grid[1].width >= MinTileSide /\ p.grid[1].height >= MinTileSide

DimensionsValid(p, format) ==
    /\ p.grid[1].width >= MinTileSide /\ p.grid[1].height >= MinTileSide
    /\ p.width % ChromaX(format) = 0 /\ p.grid[1].width % ChromaX(format) = 0
    /\ p.height % ChromaY(format) = 0 /\ p.grid[1].height % ChromaY(format) = 0

(* avifDecoderDataFillImageGrid: equal tiles that cover the output, the last  *)
(* column and row of which overlap it.                                        *)
GridAccepted(p, format) ==
    LET g == p.grid[1]
    IN  /\ ~p.mixed
        /\ g.width * g.columns >= p.width /\ g.height * g.rows >= p.height
        /\ g.width * (g.columns - 1) < p.width /\ g.height * (g.rows - 1) < p.height
        /\ DimensionsValid(p, format)

PictureDecodes(p, format) == ~p.broken /\ (p.grid # <<>> => GridAccepted(p, format))

SameDimensions(p, q) == p.width = q.width /\ p.height = q.height /\ p.depth = q.depth

(* avifDecoderNextImage, for the first image.                                 *)
Decodes(f) ==
    LET source == SourceOf(f)[1]
    IN  /\ PictureDecodes(source.colour, source.colour.yuvFormat)
        /\ \A i \in DOMAIN source.alpha :
              /\ PictureDecodes(source.alpha[i], "none")
              /\ SameDimensions(source.alpha[i], source.colour)

(* decoder->image afterwards.                                                 *)
DecodedImage(f) ==
    LET source == SourceOf(f)[1]
        cicp   == CICP(source)
    IN  [width |-> source.colour.width, height |-> source.colour.height,
         depth |-> source.colour.depth, yuvFormat |-> source.colour.yuvFormat,
         yuvRange |-> cicp.range, colorPrimaries |-> cicp.primaries,
         transferCharacteristics |-> cicp.transfer, matrixCoefficients |-> cicp.matrix,
         icc |-> source.icc, alphaPlane |-> source.alpha # <<>>,
         alphaPremultiplied |-> source.alpha # <<>> /\ source.premultiplied,
         exif |-> source.exif, xmp |-> source.xmp, orientation |-> source.orientation,
         clap |-> source.clap, irot |-> source.irot, imir |-> source.imir]

------------------------------------------------------------------------------
(* The samples of a plane a picture fills: all of them when its one tile is   *)
(* adopted, else what the copies of the grid's tiles reach.  divX and divY    *)
(* are the plane's subsampling.                                               *)
CopiedSide(tileSide, index, outSide) ==
    LET end == tileSide * (index + 1)
    IN  IF end > outSide THEN tileSide - (end - outSide) ELSE tileSide

PlaneOf(p, divX, divY) ==
    (0..((p.width + divX - 1) \div divX - 1)) \X (0..((p.height + divY - 1) \div divY - 1))

TileSamples(p, divX, divY, column, row) ==
    LET g == p.grid[1]
        x == (column * g.width) \div divX
        y == (row * g.height) \div divY
    IN  (x..(x + CopiedSide(g.width, column, p.width) \div divX - 1))
            \X (y..(y + CopiedSide(g.height, row, p.height) \div divY - 1))

FilledPlane(p, divX, divY) ==
    IF p.grid = <<>> THEN PlaneOf(p, divX, divY)
    ELSE UNION {UNION {TileSamples(p, divX, divY, column, row) : row \in 0..(p.grid[1].rows - 1)} :
                  column \in 0..(p.grid[1].columns - 1)}
==============================================================================
