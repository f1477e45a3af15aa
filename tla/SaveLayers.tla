------------------------------ MODULE SaveLayers ------------------------------
(* save_layers: one export, from the drawables GIMP passes to the file on     *)
(* disk.  One action per phase of the function, in the order of the source;   *)
(* libavif's encoder is module AvifEncoder.                                   *)
(*                                                                            *)
(* The whole call runs on the plug-in's only thread.  What varies is the      *)
(* request (the drawables and the arguments) and which of the calls fail: the *)
(* colour profile's babl space, the metadata filter, the codec, fopen, the    *)
(* writes.  GIMP may also kill the plug-in process at any point.              *)
(*                                                                            *)
(* Pixels are abstracted to the number of the layer they came from; 0 stands  *)
(* for memory nobody has written.                                             *)
EXTENDS AvifEncoder, FiniteSets

CONSTANTS Requests,      \* the exports to consider: what GIMP and the user ask for
          ColorPrimaries \* the CICP codes libavif has chromaticities for

ImageTypes == {"RGB", "RGBA", "GRAY", "GRAYA", "INDEXED"}

(* GIMP has no drawable without pixels.                                       *)
Layer == [type : ImageTypes, transparent : BOOLEAN, width : Nat \ {0}, height : Nat \ {0}]

Request ==
    [layers : Seq(Layer),            \* drawables[]
     depth : 8..12,                  \* save-bit-depth
     minQuantizer : Int, maxQuantizer : Int, alphaQuantizer : Int,
     format : {"YUV444", "YUV422", "YUV420", "YUV400"},
     codec : STRING,                 \* av1-encoder
     duration : Nat, timescale : Nat,
     linear : BOOLEAN,               \* out_linear, from the precision
     icc : BOOLEAN,                  \* save-color-profile
     metadata : BOOLEAN,             \* the image has metadata
     orientation : 1..8,             \* the orientation its Exif data state
     exif : BOOLEAN, xmp : BOOLEAN]  \* save-exif, save-xmp

ASSUME RequestsAssumption == Requests \subseteq Request

(* BT.709 is among them.                                                      *)
ASSUME ColorPrimariesAssumption == ColorPrimaries \subseteq Nat /\ 1 \in ColorPrimaries

VARIABLES req,          \* the request
          pc,           \* the phase of save_layers
          held,         \* what became of each thing save_layers must release
          error,        \* a GError is set
          space,        \* the babl space pixels are fetched in
          avif,         \* the avifImage
          allocated,    \* bytes per pixel g_new'ed for pixels
          file_format,  \* the babl format gegl_buffer_get converts to
          pixels,       \* which layer's data the pixel buffer holds
          frame_index,
          encoder,
          raw,          \* what avifEncoderFinish produced: <<>> or <<file>>
          dest,         \* the destination file
          result        \* "none" until the function returns

job == <<req, space, avif, allocated, file_format, pixels, frame_index, encoder, raw>>
vars == <<req, pc, held, error, space, avif, allocated, file_format, pixels,
          frame_index, encoder, raw, dest, result>>

------------------------------------------------------------------------------
(* Memory.  Each resource is acquired and released by the calls named below.  *)
Resources == {"profile", "avif", "pixels", "filtered_metadata", "encoder", "raw", "outfile"}

Acquire(h, r)  == [h EXCEPT ![r] = IF @ = "live" THEN "lost" ELSE "live"]
Release(h, S)  == [r \in Resources |-> IF r \notin S THEN h[r]
                                       ELSE IF h[r] = "live" THEN "freed" ELSE "corrupt"]

------------------------------------------------------------------------------
(* What the request means to save_layers.                                     *)
n_drawables(r)   == Len(r.layers)
drawable_type(r) == r.layers[1].type
is_gray(r)       == drawable_type(r) \in {"GRAY", "GRAYA"}
save_alpha(r)    == drawable_type(r) \in {"RGBA", "GRAYA"}
SameSize(r)      == \A i \in 1..n_drawables(r) :
                        /\ r.layers[i].width = r.layers[1].width
                        /\ r.layers[i].height = r.layers[1].height
single_always(r) == TRUE
single(r)        == n_drawables(r) = 1
UsesU16(img)     == img.depth > 8

(* Bytes of one pixel: as allocated, ...                                      *)
BytesAllocated_8bit(type, depth) ==
    [RGBA |-> 4, RGB |-> 3, GRAYA |-> 2, GRAY |-> 1][type]
BytesAllocated(type, depth) ==
    IF depth = 8
    THEN [RGBA |-> 4, RGB |-> 3, GRAYA |-> 2, GRAY |-> 1][type]
    ELSE [RGBA |-> 8, RGB |-> 6, GRAYA |-> 4, GRAY |-> 2][type]

(* No babl space at all, and the one babl takes then: sRGB, whose primaries   *)
(* are those of BT.709.                                                       *)
NoSpace      == [kind |-> "none"]
DefaultSpace == [kind |-> "default", primaries |-> 1, linear |-> FALSE]

(* ... as the babl format fetches it, ...                                     *)
FormatFor(type, depth, linear, sp) ==
    [channels |-> [RGBA |-> 4, RGB |-> 3, GRAYA |-> 2, GRAY |-> 1][type],
     bytes    |-> IF depth = 8 THEN 1 ELSE 2,
     linear   |-> linear,
     space    |-> IF type \in {"RGB", "RGBA"} /\ sp # NoSpace THEN sp ELSE DefaultSpace]

(* ... as the gray loops step through it, and as rgb.rowBytes says.           *)
BytesReadGray(r, img)   == (IF UsesU16(img) THEN 2 ELSE 1) * (IF save_alpha(r) THEN 2 ELSE 1)
BytesReadColour(r, img) == IF UsesU16(img) THEN (IF save_alpha(r) THEN 8 ELSE 6)
                                           ELSE (IF save_alpha(r) THEN 4 ELSE 3)
BytesRead(r, img) == IF is_gray(r) THEN BytesReadGray(r, img) ELSE BytesReadColour(r, img)

(* The scale a gray sample is converted to.                                   *)
GrayScale(r, img) == IF ~UsesU16(img) THEN 8 ELSE IF r.depth = 10 THEN 10 ELSE 12

(* The quantizers after clamping to libavif's 0..63.                          *)
Clamp(x, lo, hi)    == IF x < lo THEN lo ELSE IF x > hi THEN hi ELSE x
ClampedMax(r)       == Clamp(r.maxQuantizer, 0, 63)
ClampedMin_63(r)    == Clamp(r.minQuantizer, 0, 63)
ClampedMin(r)       == Clamp(r.minQuantizer, 0, ClampedMax(r))
ClampedAlpha(r)     == Clamp(r.alphaQuantizer, 0, 63)

(* What the three ends of the encoding release.                               *)
FreedWhenAddFails_noEncoder == {"pixels", "avif"}
FreedWhenAddFails   == {"pixels", "avif", "encoder"}
FreedWhenEncoded    == {"pixels", "avif", "encoder"}
FreedWhenOpenFails_all == {"raw", "encoder"}
FreedWhenOpenFails  == {"raw"}

FirstFrame_pastEnd(r) == n_drawables(r)
FirstFrame(r)       == n_drawables(r) - 1

NoImage == <<>>

------------------------------------------------------------------------------
Init ==
    /\ req \in Requests
    /\ pc = "enter"
    /\ held = [r \in Resources |-> "none"]
    /\ error = FALSE
    /\ space = NoSpace /\ avif = NoImage
    /\ allocated = 0 /\ file_format = <<>> /\ pixels = 0 /\ frame_index = 0
    /\ encoder = NewEncoder /\ raw = <<>>
    /\ dest = [state |-> "old", file |-> <<>>]
    /\ result = "none"

Return(value) ==
    /\ pc' = "returned"
    /\ result' = value

Continue(next) ==
    /\ pc' = next
    /\ UNCHANGED result

(* No drawables, or layers of different sizes: nothing is acquired yet.       *)
Refuse ==
    /\ pc = "enter"
    /\ n_drawables(req) < 1 \/ ~SameSize(req)
    /\ Return("FALSE")
    /\ UNCHANGED <<job, held, error, dest>>

(* The effective profile of the image and its babl space; asking for the      *)
(* space may fail with an error.                                              *)
GetSpace ==
    /\ pc = "enter"
    /\ n_drawables(req) >= 1 /\ SameSize(req)
    /\ held' = Acquire(held, "profile")
    /\ error' \in BOOLEAN
    /\ space' = IF error' THEN NoSpace ELSE [kind |-> "profile"]
    /\ Continue("image")
    /\ UNCHANGED <<req, avif, allocated, file_format, pixels, frame_index, encoder, raw, dest>>

(* The failed space is replaced by the drawable's own; the avifImage is made. *)
CreateImage ==
    /\ pc = "image"
    /\ space' = IF error THEN [kind |-> "drawable"] ELSE space
    /\ error' = FALSE
    /\ held' = Acquire(held, "avif")
    /\ avif' = [width |-> req.layers[1].width, height |-> req.layers[1].height,
                depth |-> req.depth,
                yuvFormat |-> IF is_gray(req) THEN "YUV400" ELSE req.format,
                colour |-> [icc |-> "none", primaries |-> 2, transfer |-> 2, matrix |-> 2],
                allocated |-> FALSE, hasAlpha |-> FALSE,
                yuv |-> 0, alpha |-> 0, opaque |-> FALSE, scale |-> 0,
                exif |-> FALSE, xmp |-> FALSE, irot |-> <<>>, imir |-> <<>>]
    /\ Continue("colour")
    /\ UNCHANGED <<req, allocated, file_format, pixels, frame_index, encoder, raw, dest>>

Transfer_sRGB(linear) == 13
Transfer(linear) == IF linear THEN 8 ELSE 13

(* save-color-profile: the ICC profile itself; a gray one is exchanged for a  *)
(* D65 gray profile of the precision's own transfer curve.  GIMP's effective  *)
(* profile is gray exactly when the image, and so its drawables, are.         *)
DescribeICC ==
    /\ pc = "colour" /\ req.icc
    /\ avif' = [avif EXCEPT !.colour =
                  IF is_gray(req)
                  THEN [icc |-> IF req.linear THEN "gray linear" ELSE "gray sRGB",
                        primaries |-> 2, transfer |-> Transfer(req.linear), matrix |-> 1]
                  ELSE [icc |-> "image", primaries |-> 2, transfer |-> 2, matrix |-> 1]]
    /\ held' = IF is_gray(req)
               THEN Release(Acquire(Release(held, {"profile"}), "profile"), {"profile"})
               ELSE Release(held, {"profile"})
    /\ Continue("pixels")
    /\ UNCHANGED <<req, error, space, allocated, file_format, pixels, frame_index, encoder, raw, dest>>

MatrixFor(primaries) == IF primaries = 1 THEN 1 ELSE 12

(* babl_space_from_chromaticities makes the space the primaries stand for,    *)
(* with the curve declared, or answers NULL, which is only warned about.      *)
NclxSpaces(primaries, linear) ==
    {NoSpace, [kind |-> "nclx", primaries |-> primaries, linear |-> linear]}

(* NCLX: gray is BT.709; colour takes the CICP primaries found for the space, *)
(* or the closest ones, and from now on fetches pixels in the space made of   *)
(* those.  (After a failed profile space a babl format is asked for its       *)
(* primaries: any may come out.)                                              *)
DescribeNCLX ==
    /\ pc = "colour" /\ ~req.icc
    /\ \E primaries \in ColorPrimaries :
         /\ is_gray(req) => primaries = 1
         /\ avif' = [avif EXCEPT !.colour =
                       [icc |-> "none", primaries |-> primaries,
                        transfer |-> Transfer(req.linear), matrix |-> MatrixFor(primaries)]]
         /\ space' \in IF is_gray(req) THEN {space} ELSE NclxSpaces(primaries, req.linear)
    /\ held' = Release(held, {"profile"})
    /\ Continue("pixels")
    /\ UNCHANGED <<req, error, allocated, file_format, pixels, frame_index, encoder, raw, dest>>

(* One pixel buffer for all frames, and the format to fetch them in.          *)
AllocatePixels ==
    /\ pc = "pixels"
    /\ drawable_type(req) # "INDEXED"
    /\ held' = Acquire(held, "pixels")
    /\ allocated' = BytesAllocated(drawable_type(req), req.depth)
    /\ file_format' = FormatFor(drawable_type(req), req.depth, req.linear, space)
    /\ Continue(IF req.metadata /\ (req.exif \/ req.xmp) THEN "metadata" ELSE "encoder")
    /\ UNCHANGED <<req, error, space, avif, pixels, frame_index, encoder, raw, dest>>

(* g_assert_not_reached: the process is gone.                                 *)
Abort ==
    /\ pc = "pixels"
    /\ drawable_type(req) = "INDEXED"
    /\ pc' = "aborted"
    /\ UNCHANGED <<job, held, error, dest, result>>

(* The metadata filter succeeds, or fails with an error or without one.       *)
FilterMetadata ==
    /\ pc = "metadata"
    /\ \/ /\ held' = Acquire(held, "filtered_metadata")
          /\ UNCHANGED error
          /\ Continue("exif")
       \/ /\ error' \in BOOLEAN
          /\ UNCHANGED held
          /\ Continue("filter failed")
    /\ UNCHANGED <<job, dest>>

FilterFailed_kept ==
    /\ pc = "filter failed"
    /\ Continue("encoder")
    /\ UNCHANGED <<job, held, error, dest>>

FilterFailed_retry ==
    /\ pc = "filter failed"
    /\ error' = FALSE
    /\ Continue("metadata")
    /\ UNCHANGED <<job, held, dest>>

FilterFailed ==
    /\ pc = "filter failed"
    /\ error' = FALSE
    /\ Continue("encoder")
    /\ UNCHANGED <<job, held, dest>>

(* There may be no Exif, it may be refused with an error, or be attached.     *)
AttachExif ==
    /\ pc = "exif"
    /\ \/ /\ UNCHANGED <<avif, error>>
          /\ Continue("xmp")
       \/ /\ req.exif
          /\ avif' = avifImageSetMetadataExif(avif, req.orientation)
          /\ UNCHANGED error
          /\ Continue("xmp")
       \/ /\ req.exif
          /\ error' \in BOOLEAN
          /\ UNCHANGED avif
          /\ Continue("exif failed")
    /\ UNCHANGED <<req, held, space, allocated, file_format, pixels, frame_index, encoder, raw, dest>>

ExifFailed ==
    /\ pc = "exif failed"
    /\ error' = FALSE
    /\ Continue("xmp")
    /\ UNCHANGED <<job, held, dest>>

AttachXMP ==
    /\ pc = "xmp"
    /\ avif' \in {avif, [avif EXCEPT !.xmp = req.xmp]}
    /\ held' = Release(held, {"filtered_metadata"})
    /\ Continue("encoder")
    /\ UNCHANGED <<req, error, space, allocated, file_format, pixels, frame_index, encoder, raw, dest>>

(* The encoder with its settings, and the planes of the avifImage.  Memory    *)
(* not yet written may look opaque or not.                                    *)
CreateEncoder ==
    /\ pc = "encoder"
    /\ held' = Acquire(held, "encoder")
    /\ encoder' = [NewEncoder EXCEPT
                     !.codec = req.codec,
                     !.minQuantizer = ClampedMin(req),
                     !.maxQuantizer = ClampedMax(req),
                     !.maxQuantizerAlpha = IF save_alpha(req) THEN ClampedAlpha(req) ELSE @,
                     !.timescale = IF n_drawables(req) >= 2 THEN req.timescale ELSE @]
    /\ \E garbage \in IF save_alpha(req) THEN BOOLEAN ELSE {FALSE} :
         avif' = [avif EXCEPT !.allocated = TRUE, !.hasAlpha = save_alpha(req), !.opaque = garbage]
    /\ frame_index' = FirstFrame(req)
    /\ Continue("fetch")
    /\ UNCHANGED <<req, error, space, allocated, file_format, pixels, raw, dest>>

LayerAt_fromTop(index) == n_drawables(req) - index
LayerAt(index) == index + 1

(* The frame loop goes from the last drawable, the bottom layer, to the first. *)
FetchFrame ==
    /\ pc = "fetch" /\ frame_index >= 0
    /\ pixels' = LayerAt(frame_index)
    /\ Continue("convert")
    /\ UNCHANGED <<req, held, error, space, avif, allocated, file_format, frame_index, encoder, raw, dest>>

Filled(img, r, scale) ==
    [img EXCEPT !.yuv = pixels,
                !.alpha = IF img.hasAlpha THEN pixels ELSE 0,
                !.opaque = img.hasAlpha /\ ~r.layers[pixels].transparent,
                !.scale = scale]

(* avifImageRGBToYUV refuses the depths AV1 does not have.                    *)
ConvertsRGB(img) == img.depth \in EncodableDepths

(* Gray samples are copied by save_layers' own loops.                         *)
ConvertGray ==
    /\ pc = "convert" /\ is_gray(req)
    /\ avif' = Filled(avif, req, GrayScale(req, avif))
    /\ Continue("add")
    /\ UNCHANGED <<req, held, error, space, allocated, file_format, pixels, frame_index, encoder, raw, dest>>

(* Colour is converted by libavif; a refusal is reported and then ignored.    *)
ConvertColour ==
    /\ pc = "convert" /\ ~is_gray(req)
    /\ avif' = IF ConvertsRGB(avif) THEN Filled(avif, req, avif.depth) ELSE avif
    /\ Continue("add")
    /\ UNCHANGED <<req, held, error, space, allocated, file_format, pixels, frame_index, encoder, raw, dest>>

duration(r) == IF n_drawables(r) >= 2 THEN r.duration ELSE 1

AddFrame ==
    /\ pc = "add"
    /\ Verdict(encoder, avif, single(req)) = "OK"
    /\ encoder' = WithFrame(encoder, avif, duration(req), single(req))
    /\ frame_index' = frame_index - 1
    /\ Continue("fetch")
    /\ UNCHANGED <<req, held, error, space, avif, allocated, file_format, pixels, raw, dest>>

(* libavif refuses the image, or the codec fails on it.                       *)
AddFails ==
    /\ pc = "add"
    /\ held' = Release(held, FreedWhenAddFails)
    /\ Return("FALSE")
    /\ UNCHANGED <<job, error, dest>>

(* The loop is over: the buffers go, the encoder finishes and goes too.       *)
Finish ==
    /\ pc = "fetch" /\ frame_index < 0
    /\ CanFinish(encoder)
    /\ raw' = <<EncodedFile(encoder)>>
    /\ held' = Acquire(Release(held, FreedWhenEncoded), "raw")
    /\ Continue("open")
    /\ UNCHANGED <<req, error, space, avif, allocated, file_format, pixels, frame_index, encoder, dest>>

(* Nothing to encode, or the codec fails at the end: raw stays empty.         *)
FinishFails_ignored ==
    /\ pc = "fetch" /\ frame_index < 0
    /\ held' = Acquire(Release(held, FreedWhenEncoded), "raw")
    /\ Continue("open")
    /\ UNCHANGED <<job, error, dest>>

FinishFails ==
    /\ pc = "fetch" /\ frame_index < 0
    /\ held' = Release(held, FreedWhenEncoded)
    /\ Return("FALSE")
    /\ UNCHANGED <<job, error, dest>>

(* fopen "wb" empties the destination.                                        *)
Open ==
    /\ pc = "open"
    /\ held' = Acquire(held, "outfile")
    /\ dest' = [state |-> "empty", file |-> <<>>]
    /\ Continue("write")
    /\ UNCHANGED <<job, error>>

OpenFails ==
    /\ pc = "open"
    /\ held' = Release(held, FreedWhenOpenFails)
    /\ Return("FALSE")
    /\ UNCHANGED <<job, error, dest>>

(* fwrite and fclose; neither result is looked at, so a short write looks the *)
(* same as a complete one.                                                    *)
Write ==
    /\ pc = "write"
    /\ dest' \in {[state |-> "complete", file |-> raw], [state |-> "short", file |-> <<>>]}
    /\ held' = Release(held, {"outfile"})
    /\ Continue("written")
    /\ UNCHANGED <<job, error>>

ReturnTrue ==
    /\ pc = "written"
    /\ held' = Release(held, {"raw"})
    /\ Return("TRUE")
    /\ UNCHANGED <<job, error, dest>>

------------------------------------------------------------------------------
Ended == pc \in {"returned", "aborted", "killed"}

(* GIMP ends the plug-in process, as it does when the user cancels.           *)
Kill ==
    /\ ~Ended
    /\ pc' = "killed"
    /\ UNCHANGED <<job, held, error, dest, result>>

Done == Ended /\ UNCHANGED vars

Step ==
    \/ Refuse \/ GetSpace \/ CreateImage \/ DescribeICC \/ DescribeNCLX
    \/ AllocatePixels \/ Abort
    \/ FilterMetadata \/ FilterFailed \/ AttachExif \/ ExifFailed \/ AttachXMP
    \/ CreateEncoder \/ FetchFrame \/ ConvertGray \/ ConvertColour
    \/ AddFrame \/ AddFails \/ Finish \/ FinishFails
    \/ Open \/ OpenFails \/ Write \/ ReturnTrue

Next == Step \/ Kill \/ Done

(* The function runs on one thread and waits for nobody.                      *)
Spec == Init /\ [][Next]_vars /\ WF_vars(Step)

------------------------------------------------------------------------------
Phases == {"enter", "image", "colour", "pixels", "metadata", "filter failed",
           "exif", "exif failed", "xmp", "encoder", "fetch", "convert", "add",
           "open", "write", "written", "returned", "aborted", "killed"}

TypeOK ==
    /\ req \in Request
    /\ pc \in Phases
    /\ held \in [Resources -> {"none", "live", "freed", "lost", "corrupt"}]
    /\ error \in BOOLEAN
    /\ frame_index \in -1..(n_drawables(req) - 1) \cup {0}
    /\ pixels \in 0..n_drawables(req)
    /\ Len(raw) <= 1
    /\ dest.state \in {"old", "empty", "short", "complete"}
    /\ result \in {"none", "TRUE", "FALSE"}

(* What each phase is about to use.                                           *)
Used ==
    CASE pc = "image" -> {"profile"}
      [] pc = "colour" -> {"profile", "avif"}
      [] pc \in {"exif", "exif failed", "xmp"} -> {"filtered_metadata", "avif", "pixels"}
      [] pc \in {"pixels", "metadata", "filter failed"} -> {"avif"}
      [] pc \in {"fetch", "convert", "add"} -> {"pixels", "avif", "encoder"}
      [] pc \in {"open", "written"} -> {"raw"}
      [] pc = "write" -> {"raw", "outfile"}
      [] OTHER -> {}

(* Every exit of save_layers, early or late, releases what it must: no thing  *)
(* is released twice, acquired over a live one, or used after its release.    *)
ResourcesInOrder ==
    /\ \A r \in Resources : held[r] \notin {"lost", "corrupt"}
    /\ \A r \in Used : held[r] = "live"

(* Whichever of the failing calls ended it, a save_layers that returned holds *)
(* nothing any more.  The encoded data needs no release after a failed        *)
(* avifEncoderFinish only because libavif fails before it writes a byte.      *)
NothingLeftBehind == pc = "returned" => \A r \in Resources : held[r] # "live"

(* The one buffer is sized, filled and read by three separate tables (the     *)
(* allocation switch, the babl format, the gray loops or rgb.rowBytes): for   *)
(* every drawable type and bit depth they agree on the bytes of a pixel.      *)
BufferFits ==
    pc \in {"fetch", "convert", "add"} =>
        /\ file_format.channels * file_format.bytes = allocated
        /\ BytesRead(req, avif) = allocated

(* The values fetched are linear in light: a linear format has them so in any *)
(* space, the other one has the curve of its space.                           *)
FetchesLinear(format) == format.linear \/ format.space.linear

(* A reader of the file gets the colours the pixels were fetched in.  With    *)
(* NCLX the declared transfer curve is always that of the fetched pixels, and *)
(* so are the declared primaries with one exception: when babl cannot make a  *)
(* space of them, save_layers only warns, keeps them declared and fetches the *)
(* pixels in babl's default space.  With ICC the embedded profile is the one  *)
(* the pixels are in (or a gray one with their curve), unless its space was   *)
(* unavailable.                                                               *)
DeclaredColourMatchesPixels ==
    pc \in {"fetch", "convert", "add"} =>
        LET declared == avif.colour
        IN  /\ declared.icc = "none" =>
                 /\ (declared.transfer = 8) = FetchesLinear(file_format)
                 /\ space # NoSpace => declared.primaries = file_format.space.primaries
            /\ declared.icc = "image" => file_format.space.kind \in {"profile", "drawable"}
            /\ declared.icc \in {"gray linear", "gray sRGB"} =>
                 /\ (declared.icc = "gray linear") = FetchesLinear(file_format)
                 /\ (declared.transfer = 8) = FetchesLinear(file_format)

(* No call is handed a GError that an earlier call has already set, and an    *)
(* error that was survived does not travel to the caller.                     *)
ErrorsCleared == pc \in {"enter", "metadata", "exif", "returned"} => ~error

(* save_layers keeps to libavif's protocol over all frames: the encoder can   *)
(* refuse a frame for want of a codec, for a depth AV1 lacks, or because a    *)
(* second frame is too large for a track, but never because the plug-in       *)
(* changed a setting, mixed formats, or misused AVIF_ADD_IMAGE_FLAG_SINGLE.   *)
ProtocolKept ==
    pc = "add" =>
        \/ Verdict(encoder, avif, single(req)) \in {"OK", "NO_CODEC_AVAILABLE", "UNSUPPORTED_DEPTH"}
        \/ /\ Verdict(encoder, avif, single(req)) = "INVALID_ARGUMENT"
           /\ avif.width > MaxSequenceSide \/ avif.height > MaxSequenceSide

(* Whatever quantizers a script passes, the encoder sees an ordered pair      *)
(* inside libavif's range, for colour and for alpha.                          *)
QuantizersOrdered ==
    /\ 0 <= encoder.minQuantizer /\ encoder.minQuantizer <= encoder.maxQuantizer
    /\ encoder.maxQuantizer <= 63
    /\ 0 <= encoder.minQuantizerAlpha /\ encoder.minQuantizerAlpha <= encoder.maxQuantizerAlpha
    /\ encoder.maxQuantizerAlpha <= 63

(* The files a request allows, stated without the buffers: every layer once,  *)
(* the bottom one first, each frame made of that layer's own pixels, scaled   *)
(* for the depth of the file; alpha as the first drawable has it, dropped for *)
(* a single opaque image; metadata only where it was asked for, and with Exif *)
(* the transformations that stand for its orientation.                        *)
ColoursFor(r) ==
    LET transfer == IF r.linear THEN 8 ELSE 13
    IN  IF r.icc /\ is_gray(r)
        THEN [icc : {IF r.linear THEN "gray linear" ELSE "gray sRGB"},
              primaries : {2}, transfer : {transfer}, matrix : {1}]
        ELSE IF r.icc
        THEN [icc : {"image"}, primaries : {2}, transfer : {2}, matrix : {1}]
        ELSE {colour \in [icc : {"none"}, primaries : ColorPrimaries,
                          transfer : {transfer}, matrix : {1, 12}] :
                /\ (colour.primaries = 1) = (colour.matrix = 1)
                /\ is_gray(r) => colour.primaries = 1}

AlphaFor(r) == save_alpha(r) /\ (n_drawables(r) = 1 => r.layers[1].transparent)

FrameFor(r, k) ==
    [yuv |-> k, alpha |-> IF AlphaFor(r) THEN k ELSE 0, scale |-> r.depth,
     duration |-> IF n_drawables(r) = 1 THEN 1 ELSE r.duration]

AcceptableFiles(r) ==
    LET n == n_drawables(r)
    IN  IF n = 0 THEN {} ELSE {f \in
        [brand  : {IF n = 1 THEN "avif" ELSE "avis"},
         frames : {[i \in 1..n |-> FrameFor(r, n + 1 - i)]},
         alpha  : {AlphaFor(r)},
         exif   : {FALSE, r.metadata /\ r.exif},
         xmp    : {FALSE, r.metadata /\ r.xmp},
         depth  : {r.depth},
         yuvFormat : {IF is_gray(r) THEN "YUV400" ELSE r.format},
         colour : ColoursFor(r),
         width  : {r.layers[1].width}, height : {r.layers[1].height},
         irot   : {<<>>, irotFor(r.orientation)},
         imir   : {<<>>, imirFor(r.orientation)},
         timescale : {IF n = 1 THEN 1 ELSE r.timescale}] :
            <<f.irot, f.imir>> = IF f.exif THEN <<irotFor(r.orientation), imirFor(r.orientation)>>
                                 ELSE <<<<>>, <<>>>>}

(* Although the pixel buffer and the avifImage are reused for all frames and  *)
(* a refused colour conversion is ignored, no stale or unwritten plane ever   *)
(* reaches the encoded file: it is one the request allows.                    *)
EncodedFileIsTheRequest == raw # <<>> => raw[1] \in AcceptableFiles(req)

Contract == INSTANCE ExportContract WITH
    Acceptable <- AcceptableFiles,
    request    <- req,
    outcome    <- IF pc \in {"aborted", "killed"} THEN "dead"
                  ELSE IF result = "none" THEN "running" ELSE result

(* save_layers implements ExportContract: in particular a failing or killed   *)
(* export leaves the old file as it was unless the new one was complete in    *)
(* memory and the destination already opened.                                 *)
ImplementsContract == Contract!Spec

(* save_layers comes to an end: it returns, or its process does.              *)
Terminates == <>Ended
==============================================================================
