------------------------------ MODULE LoadImage ------------------------------
(* avif_load and load_image: one import, from the file on disk to the GIMP    *)
(* image.  One action per phase of load_image, in the order of the source;    *)
(* libavif's decoder is module AvifDecoder, the clean aperture CleanAperture. *)
(*                                                                            *)
(* The call runs on the plug-in's only thread.  What varies is the file, and  *)
(* which calls fail.  GIMP may kill the process at any point.  A pixel of the *)
(* image is abstracted to the place of the decoded picture it shows.          *)
EXTENDS AvifDecoder

CONSTANTS Files,            \* the files to consider
          KnownPrimaries    \* the CICP codes libavif has chromaticities for

ASSUME FilesAssumption == Files \subseteq File
(* BT.709 is among them, the codes for unknown and unspecified are not.       *)
ASSUME KnownPrimariesAssumption ==
    KnownPrimaries \subseteq Nat \ {0, 2} /\ 1 \in KnownPrimaries

VARIABLES file,         \* what the path names
          pc,           \* the phase of load_image
          held,         \* what became of each thing load_image must release
          error,        \* a GError is set
          avif,         \* decoder->image
          profile,      \* <<>> or the GimpColorProfile
          loadgray, loadlinear,
          pixels,       \* what the pixel buffer holds
          image,        \* the GIMP image: <<>> until it is created
          final_size,   \* final_width and final_height
          metadata,     \* <<>> or the GimpMetadata: orientation and pixel size
          result        \* "none" until avif_load answers

vars == <<file, pc, held, error, avif, profile, loadgray, loadlinear, pixels, image,
          final_size, metadata, result>>
work == <<avif, profile, loadgray, loadlinear, pixels, image, final_size, metadata>>

------------------------------------------------------------------------------
Resources == {"inputFile", "raw", "decoder", "metadata", "profile", "lcms_profile", "pixels"}

(* The metadata object is the one thing load_image never releases.            *)
Released == Resources \ {"metadata"}

Acquire(h, r) == [h EXCEPT ![r] = IF @ = "live" THEN "lost" ELSE "live"]
Release(h, S) == [r \in Resources |-> IF r \notin S THEN h[r]
                                      ELSE IF h[r] = "live" THEN "freed" ELSE "corrupt"]

(* What the exits before the first decoded image release.                     *)
FreedWhenReadFails_twice == {"inputFile", "raw", "decoder"}
FreedWhenReadFails       == {"inputFile", "raw"}
FreedWhenNotDecoded_raw  == {"raw"}
FreedWhenNotDecoded      == {"decoder", "raw"}

------------------------------------------------------------------------------
Init ==
    /\ file = <<>> /\ pc = "idle"
    /\ held = [r \in Resources |-> "none"]
    /\ error = FALSE
    /\ avif = <<>> /\ profile = <<>>
    /\ loadgray = FALSE /\ loadlinear = FALSE
    /\ pixels = "none" /\ image = <<>> /\ final_size = <<>> /\ metadata = <<>>
    /\ result = "none"

Continue(next) ==
    /\ pc' = next
    /\ UNCHANGED <<file, result>>

(* load_image returns an image or NULL, which avif_load turns into its answer. *)
Return(answer) ==
    /\ pc' = "returned"
    /\ result' = answer
    /\ UNCHANGED file

Call(f) ==
    /\ pc = "idle"
    /\ file' = <<f>> /\ pc' = "open"
    /\ UNCHANGED <<held, error, work, result>>

OpenFile ==
    /\ pc = "open" /\ file[1].kind # "missing"
    /\ held' = Acquire(held, "inputFile")
    /\ Continue("measure")
    /\ UNCHANGED <<error, work>>

OpenFails ==
    /\ pc = "open"
    /\ Return("EXECUTION_ERROR")
    /\ UNCHANGED <<held, error, work>>

RefuseEmpty ==
    /\ pc = "measure" /\ file[1].kind = "empty"
    /\ held' = Release(held, {"inputFile"})
    /\ Return("EXECUTION_ERROR")
    /\ UNCHANGED <<error, work>>

Allocate ==
    /\ pc = "measure" /\ file[1].kind \notin {"empty", "stream"}
    /\ held' = Acquire(held, "raw")
    /\ Continue("read")
    /\ UNCHANGED <<error, work>>

(* What cannot be positioned has no size: ftell answers -1, which is taken    *)
(* for SIZE_MAX bytes, and avifAlloc aborts.                                  *)
AllocateFails ==
    /\ pc = "measure" /\ file[1].kind = "stream"
    /\ pc' = "aborted"
    /\ UNCHANGED <<file, held, error, work, result>>

ReadFile ==
    /\ pc = "read"
    /\ held' = Release(held, {"inputFile"})
    /\ Continue("identify")
    /\ UNCHANGED <<error, work>>

ReadFails ==
    /\ pc = "read"
    /\ held' = Release(held, FreedWhenReadFails)
    /\ Return("EXECUTION_ERROR")
    /\ UNCHANGED <<error, work>>

(* avifPeekCompatibleFileType looks for a compatible brand.                   *)
RefuseType ==
    /\ pc = "identify" /\ file[1].kind # "avif"
    /\ held' = Release(held, {"raw"})
    /\ Return("EXECUTION_ERROR")
    /\ UNCHANGED <<error, work>>

(* From here on the decoder reads from raw.                                   *)
CreateDecoder ==
    /\ pc = "identify" /\ file[1].kind = "avif"
    /\ held' = Acquire(held, "decoder")
    /\ Continue("parse")
    /\ UNCHANGED <<error, work>>

Parse ==
    /\ pc = "parse" /\ Parses(file[1])
    /\ Continue("decode")
    /\ UNCHANGED <<held, error, work>>

Decode ==
    /\ pc = "decode" /\ Decodes(file[1])
    /\ avif' = DecodedImage(file[1])
    /\ Continue("metadata")
    /\ UNCHANGED <<held, error, profile, loadgray, loadlinear, pixels, image, final_size, metadata>>

(* avifDecoderParse or avifDecoderNextImage refuses the file.                 *)
DecodeFails ==
    /\ \/ pc = "parse" /\ ~Parses(file[1])
       \/ pc = "decode" /\ ~Decodes(file[1])
    /\ held' = Release(held, FreedWhenNotDecoded)
    /\ Return("EXECUTION_ERROR")
    /\ UNCHANGED <<error, work>>

------------------------------------------------------------------------------
(* Metadata.  Of each kind there may be none, it may be read, or be refused   *)
(* with an error, which is reported and cleared.                              *)
NewMetadata ==
    /\ pc = "metadata"
    /\ held' = IF avif.exif = "none" /\ avif.xmp = "none" THEN held
               ELSE Acquire(held, "metadata")
    /\ metadata' = IF avif.exif = "none" /\ avif.xmp = "none" THEN <<>>
                   ELSE <<[orientation |-> 1, size |-> <<>>]>>
    /\ Continue("exif")
    /\ UNCHANGED <<error, avif, profile, loadgray, loadlinear, pixels, image, final_size>>

ReadExif ==
    /\ pc = "exif"
    /\ error' = (avif.exif = "bad")
    /\ metadata' = IF avif.exif = "good"
                   THEN <<[metadata[1] EXCEPT !.orientation = avif.orientation]>> ELSE metadata
    /\ Continue(IF error' THEN "exif failed" ELSE "xmp")
    /\ UNCHANGED <<held, avif, profile, loadgray, loadlinear, pixels, image, final_size>>

ReadXMP ==
    /\ pc = "xmp"
    /\ error' = (avif.xmp = "bad")
    /\ Continue(IF error' THEN "xmp failed" ELSE "profile")
    /\ UNCHANGED <<held, work>>

AfterFailure ==
    CASE pc = "exif failed" -> "xmp"
      [] pc = "xmp failed"  -> "profile"
      [] pc = "icc failed"  -> "load"
      [] pc = "wrap failed" -> "close"
FailurePhases == {"exif failed", "xmp failed", "icc failed", "wrap failed"}

ReportError_kept ==
    /\ pc \in FailurePhases
    /\ Continue(AfterFailure)
    /\ UNCHANGED <<held, error, work>>

ReportError_again ==
    /\ pc \in FailurePhases
    /\ error' = FALSE
    /\ Continue("exif")
    /\ UNCHANGED <<held, work>>

ReportError ==
    /\ pc \in FailurePhases
    /\ error' = FALSE
    /\ Continue(AfterFailure)
    /\ UNCHANGED <<held, work>>

------------------------------------------------------------------------------
(* The colour profile, and whether the image is gray and linear.              *)
LoadICC ==
    /\ pc = "profile" /\ avif.icc # <<>>
    /\ LET icc == avif.icc[1]
       IN  IF icc.kind = "broken"
           THEN /\ error' = TRUE
                /\ loadgray' = FALSE /\ loadlinear' = FALSE
                /\ Continue("icc failed")
                /\ UNCHANGED <<held, profile>>
           ELSE /\ held' = Acquire(held, "profile")
                /\ profile' = <<[kind |-> icc.kind, linear |-> icc.linear,
                                 primaries |-> 0, transfer |-> 0]>>
                /\ loadlinear' = icc.linear
                /\ loadgray' = (icc.kind = "GRAY" /\ avif.matrixCoefficients # 0)
                /\ Continue("load")
                /\ UNCHANGED error
    /\ UNCHANGED <<avif, pixels, image, final_size, metadata>>

(* A gray image without one gets GIMP's own D65 gray profile.                 *)
LoadGrayProfile ==
    /\ pc = "profile" /\ avif.icc = <<>> /\ avif.yuvFormat = "YUV400"
    /\ loadgray' = TRUE
    /\ loadlinear' = (avif.transferCharacteristics = 8)
    /\ profile' = <<[kind |-> "GRAY", linear |-> loadlinear', primaries |-> 1,
                     transfer |-> IF loadlinear' THEN 8 ELSE 13]>>
    /\ held' = Acquire(held, "profile")
    /\ Continue("load")
    /\ UNCHANGED <<error, avif, pixels, image, final_size, metadata>>

(* The curves _create_lcms_profile_from_NCLX knows.                           *)
Curves == {1, 4, 5, 8, 13, 16, 18}

(* 0 and 2 stand for sRGB; primaries libavif does not know are BT.709's.      *)
trc_to_load(img) ==
    IF img.transferCharacteristics \in {0, 2} THEN 13 ELSE img.transferCharacteristics
primaries_to_load(img) ==
    IF img.colorPrimaries \in KnownPrimaries \ {0, 2} THEN img.colorPrimaries ELSE 1

MakeProfile ==
    /\ pc = "profile" /\ avif.icc = <<>> /\ avif.yuvFormat # "YUV400"
    /\ loadgray' = FALSE
    /\ loadlinear' = (trc_to_load(avif) = 8)
    /\ IF trc_to_load(avif) \in Curves
       THEN /\ held' = Acquire(held, "lcms_profile")
            /\ Continue("wrap")
       ELSE /\ UNCHANGED held
            /\ Continue("load")
    /\ UNCHANGED <<error, avif, profile, pixels, image, final_size, metadata>>

WrapProfile ==
    /\ pc = "wrap"
    /\ \/ /\ held' = Acquire(held, "profile")
          /\ profile' = <<[kind |-> "RGB", linear |-> trc_to_load(avif) = 8,
                           primaries |-> primaries_to_load(avif),
                           transfer |-> trc_to_load(avif)]>>
          /\ Continue("close")
          /\ UNCHANGED error
       \/ /\ error' = TRUE
          /\ Continue("wrap failed")
          /\ UNCHANGED <<held, profile>>
    /\ UNCHANGED <<avif, loadgray, loadlinear, pixels, image, final_size, metadata>>

CloseProfile ==
    /\ pc = "close"
    /\ held' = Release(held, {"lcms_profile"})
    /\ Continue("load")
    /\ UNCHANGED <<error, work>>

------------------------------------------------------------------------------
(* The image and its layer.                                                   *)
NewImage(base) ==
    [base |-> base, bits |-> IF avif.depth > 8 THEN 16 ELSE 8, linear |-> loadlinear,
     profile |-> IF profile # <<>> /\ profile[1].kind = base THEN profile ELSE <<>>,
     alpha |-> avif.alphaPlane, content |-> "none",
     width |-> avif.width, height |-> avif.height,
     at |-> [p \in (0..(avif.width - 1)) \X (0..(avif.height - 1)) |-> p]]

(* load_image's own loops copy gray and alpha as they are.                    *)
LoadGray ==
    /\ pc = "load" /\ loadgray
    /\ image' = <<NewImage("GRAY")>>
    /\ pixels' = IF avif.alphaPremultiplied THEN "premultiplied" ELSE "straight"
    /\ held' = Acquire(held, "pixels")
    /\ Continue("insert")
    /\ UNCHANGED <<error, avif, profile, loadgray, loadlinear, final_size, metadata>>

(* avifPrepareReformatState, for what a decoder can come with.                *)
ConvertsToRGB(img) ==
    /\ img.matrixCoefficients \notin {3, 10, 11, 13} /\ img.matrixCoefficients < 14
    /\ ~(img.matrixCoefficients = 8 /\ img.yuvRange = "limited")
    /\ ~(img.matrixCoefficients = 0 /\ img.yuvFormat # "YUV444")

(* libavif converts colour and divides by the alpha; a refusal is printed,    *)
(* and the buffer keeps what g_malloc_n found in memory.                      *)
LoadColour ==
    /\ pc = "load" /\ ~loadgray
    /\ image' = <<NewImage("RGB")>>
    /\ pixels' = IF ConvertsToRGB(avif) THEN "straight" ELSE "unwritten"
    /\ held' = Acquire(held, "pixels")
    /\ Continue("insert")
    /\ UNCHANGED <<error, avif, profile, loadgray, loadlinear, final_size, metadata>>

(* A gray profile on an image loaded as RGB turns it gray; without a profile  *)
(* of its own, so the result has none either.                                 *)
BaseAfter_RGB(p, base) == base
BaseAfter(p, base) == IF p # <<>> /\ p[1].kind = "GRAY" THEN "GRAY" ELSE base

InsertLayer ==
    /\ pc = "insert"
    /\ image' = <<[image[1] EXCEPT !.content = pixels, !.base = BaseAfter(profile, @)]>>
    /\ held' = Release(held, {"pixels"} \cup (IF profile = <<>> THEN {} ELSE {"profile"}))
    /\ profile' = <<>>
    /\ final_size' = <<avif.width, avif.height>>
    /\ Continue("crop")
    /\ UNCHANGED <<error, avif, loadgray, loadlinear, pixels, metadata>>

------------------------------------------------------------------------------
(* The transformations.  What GIMP makes of an image; a crop that does not    *)
(* lie inside it is refused.                                                  *)
Inside(r, width, height) ==
    /\ 0 <= r.x /\ 0 < r.width /\ r.x + r.width <= width
    /\ 0 <= r.y /\ 0 < r.height /\ r.y + r.height <= height

Cropped(im, r) ==
    IF ~Inside(r, im.width, im.height) THEN im
    ELSE [im EXCEPT !.width = r.width, !.height = r.height,
                    !.at = [p \in (0..(r.width - 1)) \X (0..(r.height - 1))
                              |-> im.at[<<p[1] + r.x, p[2] + r.y>>]]]

QuarterTurn(im) ==      \* clockwise
    [im EXCEPT !.width = im.height, !.height = im.width,
               !.at = [p \in (0..(im.height - 1)) \X (0..(im.width - 1))
                         |-> im.at[<<p[2], im.height - 1 - p[1]>>]]]

Turned(im, turns) ==
    CASE turns = 0 -> im
      [] turns = 1 -> QuarterTurn(im)
      [] turns = 2 -> QuarterTurn(QuarterTurn(im))
      [] turns = 3 -> QuarterTurn(QuarterTurn(QuarterTurn(im)))

Flipped(im, mode) ==
    [im EXCEPT !.at = [p \in DOMAIN im.at |->
        IF mode = 0 THEN im.at[<<p[1], im.height - 1 - p[2]>>]
                    ELSE im.at[<<im.width - 1 - p[1], p[2]>>]]]

Crop ==
    /\ pc = "crop"
    /\ IF avif.clap = <<>> THEN UNCHANGED <<image, final_size>>
       ELSE \E crop \in Crops(avif.clap[1], avif.width, avif.height) :
              IF crop = <<>> THEN UNCHANGED <<image, final_size>>
              ELSE /\ image' = <<Cropped(image[1], crop[1])>>
                   /\ final_size' = <<crop[1].width, crop[1].height>>
    /\ Continue("rotate")
    /\ UNCHANGED <<held, error, avif, profile, loadgray, loadlinear, pixels, metadata>>

(* irot counts anticlockwise, gimp_image_rotate clockwise.                    *)
TurnsFor(angle) == IF angle = 0 THEN 0 ELSE 4 - angle

Rotate ==
    /\ pc = "rotate"
    /\ IF avif.irot = <<>> THEN UNCHANGED <<image, final_size>>
       ELSE /\ image' = <<Turned(image[1], TurnsFor(avif.irot[1]))>>
            /\ final_size' = IF avif.irot[1] \in {1, 3} THEN <<final_size[2], final_size[1]>>
                             ELSE final_size
    /\ Continue("mirror")
    /\ UNCHANGED <<held, error, avif, profile, loadgray, loadlinear, pixels, metadata>>

Mirror ==
    /\ pc = "mirror"
    /\ image' = IF avif.imir = <<>> THEN image ELSE <<Flipped(image[1], avif.imir[1])>>
    /\ Continue("finish")
    /\ UNCHANGED <<held, error, avif, profile, loadgray, loadlinear, pixels, final_size, metadata>>

(* The metadata, which gets the final size and a normal orientation, is       *)
(* attached; decoder and data are released.                                   *)
Normalised_asRead(m) == [m EXCEPT !.size = final_size]
Normalised(m) == [m EXCEPT !.orientation = 1, !.size = final_size]

Finish ==
    /\ pc = "finish"
    /\ metadata' = [i \in DOMAIN metadata |-> Normalised(metadata[i])]
    /\ held' = Release(held, {"decoder", "raw"})
    /\ Return("SUCCESS")
    /\ UNCHANGED <<error, avif, profile, loadgray, loadlinear, pixels, image, final_size>>

------------------------------------------------------------------------------
Ended == pc \in {"returned", "aborted", "killed"}

Kill ==
    /\ ~Ended /\ pc # "idle"
    /\ pc' = "killed"
    /\ UNCHANGED <<file, held, error, work, result>>

Done == Ended /\ UNCHANGED vars

Step ==
    \/ OpenFile \/ OpenFails \/ RefuseEmpty \/ Allocate \/ AllocateFails
    \/ ReadFile \/ ReadFails \/ RefuseType \/ CreateDecoder
    \/ Parse \/ Decode \/ DecodeFails
    \/ NewMetadata \/ ReadExif \/ ReadXMP \/ ReportError
    \/ LoadICC \/ LoadGrayProfile \/ MakeProfile \/ WrapProfile \/ CloseProfile
    \/ LoadGray \/ LoadColour \/ InsertLayer
    \/ Crop \/ Rotate \/ Mirror \/ Finish

Next == (\E f \in Files : Call(f)) \/ Step \/ Kill \/ Done

(* The function runs on one thread and waits for nobody.                      *)
Spec == Init /\ [][Next]_vars /\ WF_vars(Step)

------------------------------------------------------------------------------
Phases == {"idle", "open", "measure", "read", "identify", "parse", "decode", "metadata",
           "exif", "xmp", "profile", "wrap", "close", "load", "insert", "crop", "rotate",
           "mirror", "finish", "returned", "aborted", "killed"} \cup FailurePhases

TypeOK ==
    /\ file \in AtMostOne(File)
    /\ pc \in Phases
    /\ held \in [Resources -> {"none", "live", "freed", "lost", "corrupt"}]
    /\ error \in BOOLEAN /\ loadgray \in BOOLEAN /\ loadlinear \in BOOLEAN
    /\ Len(profile) <= 1 /\ Len(image) <= 1
    /\ pixels \in {"none", "unwritten", "straight", "premultiplied"}
    /\ final_size \in {<<>>} \cup Side \X Side
    /\ metadata \in AtMostOne([orientation : 1..8, size : {<<>>} \cup Side \X Side])
    /\ result \in {"none", "SUCCESS", "EXECUTION_ERROR"}

(* What each phase is about to use: once there is a decoder, every phase      *)
(* reads the decoder's image or, through it, the data of the file.            *)
Decoding == {"parse", "decode", "metadata", "exif", "xmp", "profile", "wrap", "close",
             "load", "insert", "crop", "rotate", "mirror", "finish"} \cup FailurePhases
Used ==
    (IF pc \in Decoding THEN {"decoder", "raw"} ELSE {})
    \cup (IF pc \in {"measure", "read"} THEN {"inputFile"} ELSE {})
    \cup (IF pc \in {"read", "identify"} THEN {"raw"} ELSE {})
    \cup (IF pc = "insert" THEN {"pixels"} ELSE {})
    \cup (IF pc \in {"wrap", "close", "wrap failed"} THEN {"lcms_profile"} ELSE {})
    \cup (IF profile # <<>> THEN {"profile"} ELSE {})

(* No exit of load_image closes or frees a thing twice or one it never had,   *)
(* loses one it still has, and no phase uses one that is gone; the data of    *)
(* the file outlive the decoder that reads from them.                         *)
ResourcesInOrder ==
    /\ \A r \in Resources : held[r] \notin {"lost", "corrupt"}
    /\ \A r \in Used : held[r] = "live"

(* Whichever of the seven exits load_image takes, the file is closed and all  *)
(* but the metadata object is released.                                       *)
NothingLeftBehind == pc = "returned" => \A r \in Released : held[r] # "live"

(* The GError passed to four calls in turn is clear whenever one of them is   *)
(* made, and when avif_load answers: a survived error never makes a           *)
(* delivered image a failure.                                                 *)
ErrorsCleared == pc \in {"exif", "xmp", "profile", "wrap", "returned"} => ~error

(* Every sample load_image or avifImageYUVToRGB is going to read, of the Y,   *)
(* the chroma and the alpha plane, has been written by the decoder: tiles of  *)
(* a grid that libavif accepts leave no gap, whatever the subsampling.        *)
PlanesComplete ==
    pc = "metadata" =>
        LET source  == SourceOf(file[1])[1]
            picture == source.colour
            format  == picture.yuvFormat
        IN  /\ FilledPlane(picture, 1, 1) = PlaneOf(picture, 1, 1)
            /\ format # "YUV400" => FilledPlane(picture, ChromaX(format), ChromaY(format))
                                      = PlaneOf(picture, ChromaX(format), ChromaY(format))
            /\ \A i \in DOMAIN source.alpha :
                  FilledPlane(source.alpha[i], 1, 1) = PlaneOf(picture, 1, 1)

(* Whatever 32-bit fractions a clean aperture box has, and whatever the       *)
(* processor makes of a double that does not fit a gint, the rectangle asked  *)
(* of GIMP lies inside the image.                                             *)
CropInsideImage ==
    pc = "crop" /\ avif.clap # <<>> =>
        \A crop \in Crops(avif.clap[1], avif.width, avif.height) :
            crop # <<>> => Inside(crop[1], avif.width, avif.height)

(* A box that libavif's exact arithmetic accepts is cropped to the very       *)
(* rectangle it stands for: doubles, rounding and clamping change nothing.    *)
CropAsLibavif ==
    pc = "crop" /\ avif.clap # <<>> =>
        \A rect \in avifCropRect(avif.clap[1], avif.width, avif.height, avif.yuvFormat) :
            Crops(avif.clap[1], avif.width, avif.height) = {<<rect>>}

(* Where a pixel of the displayed image lies in the decoded one, from the     *)
(* meaning of the boxes: the clean aperture first, then the anticlockwise     *)
(* turn, then the exchange of top and bottom (0) or left and right (1).       *)
Unmirrored(p, imir, width, height) ==
    IF imir = <<>> THEN p
    ELSE IF imir[1] = 0 THEN <<p[1], height - 1 - p[2]>> ELSE <<width - 1 - p[1], p[2]>>

Unturned(p, irot, width, height) ==
    IF irot = <<>> \/ irot = <<0>> THEN p
    ELSE CASE irot[1] = 1 -> <<width - 1 - p[2], p[1]>>
           [] irot[1] = 2 -> <<width - 1 - p[1], height - 1 - p[2]>>
           [] irot[1] = 3 -> <<p[2], height - 1 - p[1]>>

Displays(im, crop) ==
    LET turned == avif.irot # <<>> /\ avif.irot[1] \in {1, 3}
    IN  /\ <<im.width, im.height>> = IF turned THEN <<crop.height, crop.width>>
                                               ELSE <<crop.width, crop.height>>
        /\ \A p \in (0..(im.width - 1)) \X (0..(im.height - 1)) :
              LET q == Unturned(Unmirrored(p, avif.imir, im.width, im.height),
                                avif.irot, crop.width, crop.height)
              IN  im.at[p] = <<q[1] + crop.x, q[2] + crop.y>>

(* The delivered image shows each pixel where the file's transformations put  *)
(* it: its metadata state its size and do not turn it once more, although     *)
(* Exif data may state the same turn as the boxes.                            *)
DisplayedAsStored ==
    result = "SUCCESS" =>
        LET whole == [x |-> 0, y |-> 0, width |-> avif.width, height |-> avif.height]
            crops == IF avif.clap = <<>> THEN {<<>>}
                     ELSE Crops(avif.clap[1], avif.width, avif.height)
        IN  /\ \A i \in DOMAIN metadata :
                  metadata[i] = [orientation |-> 1, size |-> <<image[1].width, image[1].height>>]
            /\ \E crop \in crops : Displays(image[1], IF crop = <<>> THEN whole ELSE crop[1])

(* The images a file describes.  It is gray if an ICC profile says so or,     *)
(* where there is none, if there is no chroma; linear if the profile is, or   *)
(* the transfer characteristics; its profile, if it has one, is the file's    *)
(* own or the one the colour description stands for.  Colours libavif cannot  *)
(* convert come out as anything; gray is never divided by its alpha.          *)
ProfilesOf(source, cicp) ==
    IF source.icc # <<>>
    THEN {<<>>} \cup {<<[kind |-> source.icc[1].kind, linear |-> source.icc[1].linear,
                         primaries |-> 0, transfer |-> 0]>>}
    ELSE IF source.colour.yuvFormat = "YUV400"
    THEN {<<[kind |-> "GRAY", linear |-> cicp.transfer = 8, primaries |-> 1,
             transfer |-> IF cicp.transfer = 8 THEN 8 ELSE 13]>>}
    ELSE LET curve == IF cicp.transfer \in {0, 2} THEN 13 ELSE cicp.transfer
         IN  {<<>>, <<[kind |-> "RGB", linear |-> curve = 8, transfer |-> curve,
                       primaries |-> IF cicp.primaries \in KnownPrimaries
                                     THEN cicp.primaries ELSE 1]>>}

GrayIn(source) ==
    IF source.icc = <<>> THEN source.colour.yuvFormat = "YUV400"
                         ELSE source.icc[1].kind = "GRAY"

LinearIn(source) ==
    IF source.icc = <<>> THEN CICP(source).transfer = 8
                         ELSE source.icc[1].kind # "broken" /\ source.icc[1].linear

ContentsOf(source, cicp) ==
    LET blended == GrayIn(source) /\ source.alpha # <<>> /\ source.premultiplied
    IN  {"straight"} \cup (IF blended THEN {"premultiplied"} ELSE {})
        \cup (IF cicp.matrix \in {0, 3, 8, 10, 11} \/ cicp.matrix >= 13
              THEN {"unwritten"} ELSE {})

DescribedBy(f) ==
    LET source == SourceOf(f)[1]
    IN  {d \in [base    : {IF GrayIn(source) THEN "GRAY" ELSE "RGB"},
                bits    : {IF source.colour.depth = 8 THEN 8 ELSE 16},
                linear  : {LinearIn(source)},
                profile : ProfilesOf(source, CICP(source)),
                alpha   : {source.alpha # <<>>},
                content : ContentsOf(source, CICP(source))] :
            d.profile # <<>> => d.profile[1].kind = d.base /\ d.profile[1].linear = d.linear}

Contract == INSTANCE ImportContract WITH
    Acceptable <- DescribedBy,
    delivered  <- IF result # "SUCCESS" THEN <<>>
                  ELSE <<[base |-> image[1].base, bits |-> image[1].bits,
                          linear |-> image[1].linear, profile |-> image[1].profile,
                          alpha |-> image[1].alpha, content |-> image[1].content]>>,
    outcome    <- IF pc \in {"aborted", "killed"} THEN "dead"
                  ELSE IF result # "none" THEN result
                  ELSE IF image = <<>> THEN "reading" ELSE "building"

(* avif_load implements ImportContract.                                       *)
ImplementsContract == Contract!Spec

(* An import that was asked for comes to an end.                              *)
Terminates == (pc # "idle") ~> Ended
==============================================================================
