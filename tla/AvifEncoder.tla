----------------------------- MODULE AvifEncoder -----------------------------
(* The life cycle of libavif's avifEncoder as far as the plug-in drives it:   *)
(* created once, given one image per frame, finished once.  libavif does the  *)
(* calls on the caller's thread, so the encoder is a value and every call a   *)
(* function from the encoder before to the encoder after.                     *)
(*                                                                            *)
(* An image handed to the encoder is a record with the fields of avifImage    *)
(* the encoder looks at: width, height, depth, yuvFormat, colour (the CICP    *)
(* triple and ICC), hasAlpha (alphaPlane # NULL), planes allocated or not,    *)
(* yuv and alpha (what the planes hold), opaque, scale (the depth the samples *)
(* were scaled for), exif and xmp, and the transformations irot and imir, in  *)
(* one-element sequences when transformFlags says they are there.             *)
EXTENDS Integers, Sequences

CONSTANT Encoders       \* the AV1 encoders compiled into libavif

(* avifCodecName(choice, AVIF_CODEC_FLAG_CAN_ENCODE) # NULL.                  *)
CanEncode(choice) ==
    IF choice = "auto" THEN Encoders # {} ELSE choice \in Encoders

EncodableDepths == {8, 10, 12}

(* The width and height of a track are 16 bits wide.                          *)
MaxSequenceSide == 65535

NewEncoder ==
    [codec |-> "auto", timescale |-> 1,
     minQuantizer |-> 0, maxQuantizer |-> 0,
     minQuantizerAlpha |-> 0, maxQuantizerAlpha |-> 0,
     items |-> {}, frames |-> <<>>, single |-> FALSE, alphaPresent |-> FALSE,
     locked |-> <<>>,       \* the settings the first frame froze
     metadata |-> <<>>]     \* imageMetadata: the first image without its pixels

(* The settings avifEncoderDetectChanges refuses to see changed; the plug-in  *)
(* sets the other ones (threads, speed, key frames) to one value only.        *)
Frozen(enc) == [codec |-> enc.codec, timescale |-> enc.timescale]

Description(img) ==
    [width |-> img.width, height |-> img.height, depth |-> img.depth,
     yuvFormat |-> img.yuvFormat, colour |-> img.colour,
     irot |-> img.irot, imir |-> img.imir]

(* What must not change from frame to frame.                                  *)
PixelFormat(img) ==
    <<img.depth, img.yuvFormat, img.colour.primaries, img.colour.transfer, img.colour.matrix>>

Compatible(enc, img) ==
    /\ PixelFormat(img) = PixelFormat(enc.metadata[1])
    /\ enc.alphaPresent => img.hasAlpha

(* Exif handed to an image also sets its transformations: the anticlockwise   *)
(* turns and the mirror that stand for the orientation the Exif data state.   *)
irotFor(orientation) ==
    CASE orientation \in {1, 2, 4} -> <<>>
      [] orientation = 3 -> <<2>>
      [] orientation \in {5, 8} -> <<1>>
      [] orientation \in {6, 7} -> <<3>>

imirFor_transposed(orientation) ==
    CASE orientation \in {1, 3, 6, 8} -> <<>>
      [] orientation = 2 -> <<1>>
      [] orientation = 4 -> <<0>>
      [] orientation \in {5, 7} -> <<1>>

imirFor(orientation) ==
    CASE orientation \in {1, 3, 6, 8} -> <<>>
      [] orientation = 2 -> <<1>>
      [] orientation \in {4, 5, 7} -> <<0>>

avifImageSetMetadataExif(img, orientation) ==
    [img EXCEPT !.exif = TRUE, !.irot = irotFor(orientation), !.imir = imirFor(orientation)]

(* The checks of avifEncoderAddImageInternal in the order of its returns.     *)
Verdict(enc, img, single) ==
    IF ~CanEncode(enc.codec) THEN "NO_CODEC_AVAILABLE"
    ELSE IF img.depth \notin EncodableDepths THEN "UNSUPPORTED_DEPTH"
    ELSE IF img.width = 0 \/ img.height = 0 \/ ~img.allocated THEN "NO_CONTENT"
    ELSE IF enc.single THEN "ENCODE_COLOR_FAILED"
    ELSE IF single /\ enc.items # {} THEN "INVALID_ARGUMENT"
    ELSE IF enc.locked \notin {<<>>, <<Frozen(enc)>>} THEN "CANNOT_CHANGE_SETTING"
    ELSE IF enc.items # {} /\ ~Compatible(enc, img) THEN "INCOMPATIBLE_IMAGE"
    ELSE IF /\ Len(enc.frames) = 1
            /\ enc.metadata[1].width > MaxSequenceSide \/ enc.metadata[1].height > MaxSequenceSide
         THEN "INVALID_ARGUMENT"
    ELSE "OK"

(* A single image whose alpha plane is opaque is written without alpha.       *)
KeepsAlpha(img, single) == img.hasAlpha /\ ~(single /\ img.opaque)

WithItems(enc, img, single) ==
    [enc EXCEPT
        !.metadata = <<Description(img)>>,
        !.alphaPresent = KeepsAlpha(img, single),
        !.items = {"Color"} \cup (IF KeepsAlpha(img, single) THEN {"Alpha"} ELSE {})
                    \cup (IF img.exif THEN {"Exif"} ELSE {})
                    \cup (IF img.xmp THEN {"XMP"} ELSE {})]

(* avifEncoderAddImage when the verdict is OK and the codec encodes the image: *)
(* the first image creates the items, every image appends one frame.           *)
WithFrame(enc, img, duration, single) ==
    LET prepared == IF enc.items = {} THEN WithItems(enc, img, single) ELSE enc
        frame    == [yuv |-> img.yuv,
                     alpha |-> IF prepared.alphaPresent THEN img.alpha ELSE 0,
                     scale |-> img.scale, duration |-> duration]
    IN  [prepared EXCEPT !.single = @ \/ single,
                         !.locked = <<Frozen(enc)>>,
                         !.frames = Append(@, frame)]

(* avifEncoderFinish: nothing added is the one refusal besides a failing codec *)
(* and comes, like that one, before the first byte is written.                 *)
CanFinish(enc) == enc.items # {}

EncodedFile(enc) ==
    [brand     |-> IF Len(enc.frames) > 1 THEN "avis" ELSE "avif",
     frames    |-> enc.frames,
     alpha     |-> "Alpha" \in enc.items,
     exif      |-> "Exif" \in enc.items,
     xmp       |-> "XMP" \in enc.items,
     depth     |-> enc.metadata[1].depth,
     yuvFormat |-> enc.metadata[1].yuvFormat,
     colour    |-> enc.metadata[1].colour,
     width     |-> enc.metadata[1].width,
     height    |-> enc.metadata[1].height,
     irot      |-> enc.metadata[1].irot,
     imir      |-> enc.metadata[1].imir,
     timescale |-> enc.timescale]
==============================================================================
