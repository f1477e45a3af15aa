--------------------------- MODULE RoundTripProofs ---------------------------
(* RoundTrip for every set of requests, encoders, primaries and samples.      *)
EXTENDS RoundTrip, SaveLayersContractProofs, SampleDepthProofs

(* The import of RoundTrip once more, with what is proved about it: it makes  *)
(* the steps of one that may be called on any file.                           *)
Reader == INSTANCE LoadImageContractProofs WITH
    Files <- Import!File, KnownPrimaries <- ColorPrimaries,
    file <- import_file, pc <- import_pc, held <- import_held, error <- import_error,
    avif <- import_avif, profile <- import_profile, pixels <- import_pixels,
    result <- import_result

LEMMA SameFiles == Import!File = Reader!File
BY DEF Import!File, Reader!File, Import!AtMostOne, Reader!AtMostOne, Import!Source,
       Reader!Source, Import!Picture, Reader!Picture, Import!Profile,
       Reader!Profile, Import!Colour, Reader!Colour, Import!Box, Reader!Box,
       Import!Side, Reader!Side, Import!Formats, Reader!Formats, Import!Grid,
       Reader!Grid, Import!Axis, Reader!Axis, Import!IntMax, Reader!IntMax,
       Import!Word, Reader!Word

LEMMA ReaderAssumptions ==
    /\ Reader!WordSizeAssumption /\ Reader!FilesAssumption
    /\ Reader!KnownPrimariesAssumption
<1>1. Reader!WordSizeAssumption
  BY SharedAssumption DEF Reader!WordSizeAssumption
<1>2. Reader!FilesAssumption
  BY SameFiles DEF Reader!FilesAssumption
<1>3. Reader!KnownPrimariesAssumption
  BY SharedAssumption, ColorPrimariesAssumption DEF Reader!KnownPrimariesAssumption
<1> QED
  BY <1>1, <1>2, <1>3

LEMMA SameInit == Import!Init => Reader!Init
BY DEF Import!Init, Reader!Init, Import!Resources, Reader!Resources

LEMMA SameCall == \A f : Import!Call(f) => Reader!Call(f)
BY DEF Import!Call, Reader!Call, Import!work, Reader!work

LEMMA SameKill == Import!Kill => Reader!Kill
BY DEF Import!Kill, Reader!Kill, Import!Ended, Reader!Ended, Import!work,
       Reader!work

LEMMA SameStep == Import!Step => Reader!Step
<1>1. /\ Import!OpenFile => Reader!OpenFile
      /\ Import!OpenFails => Reader!OpenFails
      /\ Import!RefuseEmpty => Reader!RefuseEmpty
      /\ Import!Allocate => Reader!Allocate
      /\ Import!AllocateFails => Reader!AllocateFails
  BY DEF Import!OpenFile, Reader!OpenFile, Import!OpenFails, Reader!OpenFails,
         Import!RefuseEmpty, Reader!RefuseEmpty, Import!Allocate, Reader!Allocate,
         Import!AllocateFails, Reader!AllocateFails, Import!Acquire, Reader!Acquire,
         Import!Continue, Reader!Continue, Import!work, Reader!work, Import!Return,
         Reader!Return, Import!Release, Reader!Release, Import!Resources,
         Reader!Resources
<1>2. /\ Import!ReadFile => Reader!ReadFile
      /\ Import!ReadFails => Reader!ReadFails
      /\ Import!RefuseType => Reader!RefuseType
      /\ Import!CreateDecoder => Reader!CreateDecoder
  BY DEF Import!ReadFile, Reader!ReadFile, Import!ReadFails, Reader!ReadFails,
         Import!RefuseType, Reader!RefuseType, Import!CreateDecoder,
         Reader!CreateDecoder, Import!Release, Reader!Release, Import!Continue,
         Reader!Continue, Import!work, Reader!work, Import!FreedWhenReadFails,
         Reader!FreedWhenReadFails, Import!Return, Reader!Return, Import!Acquire,
         Reader!Acquire, Import!Resources, Reader!Resources
<1>3. /\ Import!Parse => Reader!Parse
      /\ Import!Decode => Reader!Decode
      /\ Import!DecodeFails => Reader!DecodeFails
  BY DEF Import!Parse, Reader!Parse, Import!Decode, Reader!Decode,
         Import!DecodeFails, Reader!DecodeFails, Import!Parses, Reader!Parses,
         Import!Continue, Reader!Continue, Import!work, Reader!work, Import!Decodes,
         Reader!Decodes, Import!DecodedImage, Reader!DecodedImage, Import!Release,
         Reader!Release, Import!FreedWhenNotDecoded, Reader!FreedWhenNotDecoded,
         Import!Return, Reader!Return, Import!SourceOf, Reader!SourceOf,
         Import!PictureDecodes, Reader!PictureDecodes, Import!SameDimensions,
         Reader!SameDimensions, Import!CICP, Reader!CICP, Import!Resources,
         Reader!Resources, Import!GridAccepted, Reader!GridAccepted,
         Import!Unspecified, Reader!Unspecified, Import!DimensionsValid,
         Reader!DimensionsValid, Import!ChromaX, Reader!ChromaX, Import!ChromaY,
         Reader!ChromaY
<1>4. /\ Import!NewMetadata => Reader!NewMetadata
      /\ Import!ReadExif => Reader!ReadExif
      /\ Import!ReadXMP => Reader!ReadXMP
      /\ Import!ReportError => Reader!ReportError
  BY DEF Import!NewMetadata, Reader!NewMetadata, Import!ReadExif, Reader!ReadExif,
         Import!ReadXMP, Reader!ReadXMP, Import!ReportError, Reader!ReportError,
         Import!Acquire, Reader!Acquire, Import!Continue, Reader!Continue,
         Import!work, Reader!work, Import!FailurePhases, Reader!FailurePhases,
         Import!AfterFailure, Reader!AfterFailure
<1>5. /\ Import!LoadICC => Reader!LoadICC
      /\ Import!LoadGrayProfile => Reader!LoadGrayProfile
      /\ Import!MakeProfile => Reader!MakeProfile
      /\ Import!WrapProfile => Reader!WrapProfile
      /\ Import!CloseProfile => Reader!CloseProfile
  BY DEF Import!LoadICC, Reader!LoadICC, Import!LoadGrayProfile,
         Reader!LoadGrayProfile, Import!MakeProfile, Reader!MakeProfile,
         Import!WrapProfile, Reader!WrapProfile, Import!CloseProfile,
         Reader!CloseProfile, Import!Continue, Reader!Continue, Import!Acquire,
         Reader!Acquire, Import!trc_to_load, Reader!trc_to_load, Import!Curves,
         Reader!Curves, Import!primaries_to_load, Reader!primaries_to_load,
         Import!Release, Reader!Release, Import!work, Reader!work, Import!Resources,
         Reader!Resources
<1>6. /\ Import!LoadGray => Reader!LoadGray
      /\ Import!LoadColour => Reader!LoadColour
      /\ Import!InsertLayer => Reader!InsertLayer
  BY DEF Import!LoadGray, Reader!LoadGray, Import!LoadColour, Reader!LoadColour,
         Import!InsertLayer, Reader!InsertLayer, Import!NewImage, Reader!NewImage,
         Import!Acquire, Reader!Acquire, Import!Continue, Reader!Continue,
         Import!ConvertsToRGB, Reader!ConvertsToRGB, Import!BaseAfter,
         Reader!BaseAfter, Import!Release, Reader!Release, Import!Resources,
         Reader!Resources
<1>7. Import!Crop => Reader!Crop
  <2>1. \A im, r : Import!Cropped(im, r) = Reader!Cropped(im, r)
    BY DEF Import!Cropped, Reader!Cropped, Import!Inside, Reader!Inside
  <2>2. \A box, width, height :
          Import!Crops(box, width, height) = Reader!Crops(box, width, height)
    BY DEF Import!Crops, Reader!Crops, Import!HasDenominators,
           Reader!HasDenominators, Import!NewOffset, Reader!NewOffset,
           Import!NewSide, Reader!NewSide, Import!Clamped, Reader!Clamped,
           Import!ToInt, Reader!ToInt, Import!Unrounded, Reader!Unrounded,
           Import!Least, Reader!Least, Import!Truncated, Reader!Truncated,
           Import!IntMin, Reader!IntMin, Import!IntMax, Reader!IntMax,
           Import!Signed, Reader!Signed
  <2> QED
    BY <2>1, <2>2 DEF Import!Crop, Reader!Crop, Import!Continue, Reader!Continue
<1>8. /\ Import!Rotate => Reader!Rotate
      /\ Import!Mirror => Reader!Mirror
      /\ Import!Finish => Reader!Finish
  BY DEF Import!Rotate, Reader!Rotate, Import!Mirror, Reader!Mirror, Import!Finish,
         Reader!Finish, Import!Turned, Reader!Turned, Import!TurnsFor,
         Reader!TurnsFor, Import!Continue, Reader!Continue, Import!Flipped,
         Reader!Flipped, Import!Normalised, Reader!Normalised, Import!Release,
         Reader!Release, Import!Return, Reader!Return, Import!QuarterTurn,
         Reader!QuarterTurn, Import!Resources, Reader!Resources
<1> QED
  BY <1>1, <1>2, <1>3, <1>4, <1>5, <1>6, <1>7, <1>8 DEF Import!Step, Reader!Step
------------------------------------------------------------------------------
(* Each side of the composition makes the steps of its module, the import     *)
(* once what is on the disk is a file.                                        *)
LEMMA ExportSide == [RoundTripNext]_<<vars, importVars>> => [Next]_vars
BY DEF RoundTripNext, Export, Reopen, Load, RoundTripDone, Next

LEMMA ImportSide ==
    /\ Ended => FilesAt \subseteq Reader!File
    /\ [RoundTripNext]_<<vars, importVars>>
    => [Reader!Next]_(Reader!vars)
<1> SUFFICES ASSUME Ended => FilesAt \subseteq Reader!File,
                    [RoundTripNext]_<<vars, importVars>>
             PROVE  [Reader!Next]_(Reader!vars)
  OBVIOUS
<1>1. CASE Export \/ RoundTripDone \/ UNCHANGED <<vars, importVars>>
  BY <1>1 DEF Export, RoundTripDone, importVars, Reader!vars
<1>2. CASE Reopen
  <2>1. PICK f \in FilesAt : Import!Call(f)
    BY <1>2 DEF Reopen
  <2>2. f \in Import!File /\ Reader!Call(f)
    BY <1>2, <2>1, SameCall, SameFiles DEF Reopen
  <2> QED
    BY <2>2 DEF Reader!Next
<1>3. CASE Load
  BY <1>3, SameStep, SameKill DEF Load, Reader!Next
<1> QED
  BY <1>1, <1>2, <1>3 DEF RoundTripNext

------------------------------------------------------------------------------
(* What an export leaves behind: a complete file is the one encoded, and none *)
(* is encoded in a depth AV1 does not have.                                   *)
StoredInv ==
    /\ dest.state \in {"old", "empty", "short", "complete"}
    /\ dest.state \in {"short", "complete"} => raw # <<>>
    /\ dest.state = "complete" => dest.file = raw
    /\ encoder.items # {} \/ raw # <<>> => req.depth \in EncodableDepths

LEMMA InitStored == Init => StoredInv
BY DEF Init, StoredInv, NewEncoder

LEMMA NextStored ==
    EncodingInv /\ RawInv /\ OutcomeInv /\ StoredInv /\ [Next]_vars => StoredInv'
<1> SUFFICES ASSUME EncodingInv, RawInv, OutcomeInv, StoredInv, [Next]_vars PROVE StoredInv'
  OBVIOUS
<1> USE DEF Return, Continue
<1>1. req' = req
  BY SameRequest
<1>2. CASE \/ GetSpace \/ CreateImage \/ DescribeICC \/ DescribeNCLX \/ AllocatePixels
           \/ FilterMetadata \/ FilterFailed \/ AttachExif \/ ExifFailed \/ AttachXMP
           \/ FetchFrame \/ ConvertGray \/ ConvertColour
  <2>1. dest' = dest /\ raw' = raw /\ encoder' = encoder
    BY <1>2 DEF GetSpace, CreateImage, DescribeICC, DescribeNCLX, AllocatePixels, FilterMetadata,
                FilterFailed, AttachExif, ExifFailed, AttachXMP, FetchFrame, ConvertGray,
                ConvertColour, job
  <2> QED
    BY <1>1, <2>1 DEF StoredInv
<1>3. CASE CreateEncoder
  <2>1. dest' = dest /\ raw' = raw /\ encoder'.items = {}
    BY <1>3 DEF CreateEncoder, NewEncoder
  <2> QED
    BY <1>1, <2>1 DEF StoredInv
<1>4. CASE AddFrame
  <2>1. avif.depth \in EncodableDepths
    BY <1>4 DEF AddFrame, Verdict
  <2>2. avif.depth = req.depth
    BY <1>4 DEF AddFrame, EncodingInv, BufferInv, WithAvif
  <2>3. dest' = dest /\ raw' = raw
    BY <1>4 DEF AddFrame
  <2> QED
    BY <1>1, <2>1, <2>2, <2>3 DEF StoredInv
<1>5. CASE Finish
  <2>1. encoder.items # {} /\ dest' = dest /\ dest.state = "old"
    BY <1>5 DEF Finish, CanFinish, OutcomeInv
  <2> QED
    BY <1>1, <2>1 DEF StoredInv
<1>6. CASE Refuse \/ Abort \/ AddFails \/ FinishFails \/ OpenFails \/ ReturnTrue \/ Kill
  <2>1. dest' = dest /\ raw' = raw /\ encoder' = encoder
    BY <1>6 DEF Refuse, Abort, AddFails, FinishFails, OpenFails, ReturnTrue, Kill, job
  <2> QED
    BY <1>1, <2>1 DEF StoredInv
<1>7. CASE Open \/ Write
  <2>1. /\ raw' = raw /\ encoder' = encoder /\ raw # <<>>
        /\ \/ dest'.state \in {"empty", "short"}
           \/ dest'.state = "complete" /\ dest'.file = raw
    BY <1>7 DEF Open, Write, job, RawInv
  <2> QED
    BY <1>1, <2>1 DEF StoredInv
<1>8. CASE UNCHANGED vars
  BY <1>8 DEF vars, StoredInv
<1> QED
  BY <1>2, <1>3, <1>4, <1>5, <1>6, <1>7, <1>8 DEF Next, Step, Done

------------------------------------------------------------------------------
(* The colours a request's file may declare.                                  *)
LEMMA ColoursTyped ==
    ASSUME RequestInv, NEW c \in ColoursFor(req)
    PROVE  /\ c.icc = IF ~req.icc THEN "none" ELSE IF ~is_gray(req) THEN "image"
                      ELSE IF req.linear THEN "gray linear" ELSE "gray sRGB"
           /\ ~req.icc => /\ c.primaries \in ColorPrimaries
                          /\ c.transfer = IF req.linear THEN 8 ELSE 13
                          /\ is_gray(req) => c.primaries = 1
           /\ c.primaries \in Nat /\ c.transfer \in {2, 8, 13} /\ c.matrix \in {1, 12}
<1>1. req.icc \in BOOLEAN /\ req.linear \in BOOLEAN /\ is_gray(req) \in BOOLEAN
  BY DEF RequestInv, Request, is_gray
<1>2. CASE req.icc /\ is_gray(req)
  <2>1. c \in [icc : {IF req.linear THEN "gray linear" ELSE "gray sRGB"}, primaries : {2},
               transfer : {IF req.linear THEN 8 ELSE 13}, matrix : {1}]
    BY <1>2 DEF ColoursFor
  <2>2. c.icc = IF req.linear THEN "gray linear" ELSE "gray sRGB"
    BY <2>1, Zenon
  <2>3. c.primaries = 2 /\ c.transfer = (IF req.linear THEN 8 ELSE 13) /\ c.matrix = 1
    BY <2>1, Zenon
  <2>4. c.transfer \in {8, 13}
    BY <2>3
  <2>5. c.icc = IF ~req.icc THEN "none" ELSE IF ~is_gray(req) THEN "image"
                ELSE IF req.linear THEN "gray linear" ELSE "gray sRGB"
    BY <1>2, <2>2, Zenon
  <2>6. c.primaries \in Nat /\ c.transfer \in {2, 8, 13} /\ c.matrix \in {1, 12}
    BY <2>3, <2>4
  <2> QED
    BY <1>2, <2>5, <2>6, Zenon
<1>3. CASE req.icc /\ ~is_gray(req)
  BY <1>1, <1>3 DEF ColoursFor
<1>4. CASE ~req.icc
  BY <1>1, <1>4, ColorPrimariesAssumption DEF ColoursFor
<1> QED
  BY <1>1, <1>2, <1>3, <1>4

(* The turn and the mirror that stand for an orientation.                     *)
LEMMA OrientationTyped ==
    ASSUME NEW o \in 1..8
    PROVE  irotFor(o) \in Reader!AtMostOne(0..3) /\ imirFor(o) \in Reader!AtMostOne(0..1)
<1>1. irotFor(o) \in {<<>>, <<1>>, <<2>>, <<3>>} /\ imirFor(o) \in {<<>>, <<0>>, <<1>>}
  BY DEF irotFor, imirFor
<1>2. /\ <<>> \in Reader!AtMostOne(0..3) /\ <<>> \in Reader!AtMostOne(0..1)
      /\ \A i \in 0..3 : <<i>> \in Reader!AtMostOne(0..3)
      /\ \A i \in 0..1 : <<i>> \in Reader!AtMostOne(0..1)
  BY DEF Reader!AtMostOne
<1> QED
  BY <1>1, <1>2

(* What a request's file says.                                                *)
LEMMA EncodedTyped ==
    ASSUME req \in Requests, RequestInv, NEW f \in AcceptableFiles(req)
    PROVE  /\ n_drawables(req) \in Nat \ {0}
           /\ f.width = req.layers[1].width /\ f.width \in Reader!Side
           /\ f.height = req.layers[1].height /\ f.height \in Reader!Side
           /\ f.depth = req.depth /\ f.brand \in {"avif", "avis"}
           /\ f.yuvFormat = IF is_gray(req) THEN "YUV400" ELSE req.format
           /\ f.colour \in ColoursFor(req)
           /\ f.frames[1] = FrameFor(req, n_drawables(req))
           /\ f.alpha \in BOOLEAN /\ f.exif \in BOOLEAN /\ f.xmp \in BOOLEAN
           /\ f.irot = IF f.exif THEN irotFor(req.orientation) ELSE <<>>
           /\ f.imir = IF f.exif THEN imirFor(req.orientation) ELSE <<>>
<1> DEFINE n == n_drawables(req)
<1>1. n \in Nat /\ n # 0
  BY SizeOfRequest DEF AcceptableFiles
<1>2. /\ f.width = req.layers[1].width /\ f.height = req.layers[1].height
      /\ f.depth = req.depth /\ f.brand \in {"avif", "avis"}
      /\ f.yuvFormat = IF is_gray(req) THEN "YUV400" ELSE req.format
      /\ f.colour \in ColoursFor(req)
      /\ f.frames = [i \in 1..n |-> FrameFor(req, n + 1 - i)]
      /\ f.alpha = AlphaFor(req)
      /\ f.exif \in {FALSE, req.metadata /\ req.exif} /\ f.xmp \in {FALSE, req.metadata /\ req.xmp}
      /\ <<f.irot, f.imir>> = IF f.exif THEN <<irotFor(req.orientation), imirFor(req.orientation)>>
                              ELSE <<<<>>, <<>>>>
  BY <1>1, Zenon DEF AcceptableFiles
<1>3. f.width \in Reader!Side /\ f.height \in Reader!Side
  BY <1>1, <1>2, SharedAssumption DEF Reader!Side, Reader!IntMax
<1>4. f.frames[1] = FrameFor(req, n)
  BY <1>1, <1>2
<1>5. f.alpha \in BOOLEAN /\ f.exif \in BOOLEAN /\ f.xmp \in BOOLEAN
  BY <1>2, Zenon DEF AlphaFor
<1> QED
  BY <1>1, <1>2, <1>3, <1>4, <1>5

(* What it is read as is a source libavif knows.                              *)
LEMMA PictureTyped ==
    ASSUME NEW f, f.width \in Reader!Side, f.height \in Reader!Side,
           f.depth \in {8, 10, 12}, NEW format \in Reader!Formats
    PROVE  PictureOf(f, format) \in Reader!Picture
<1>1. <<>> \in Reader!AtMostOne(Reader!Grid)
  BY DEF Reader!AtMostOne
<1> QED
  BY <1>1 DEF PictureOf, Reader!Picture

(* What libavif finds in it again: ...                                        *)
FoundAgain(f, orientation, icc, exif, xmp) ==
    [colour |-> PictureOf(f, f.yuvFormat),
     alpha |-> IF f.alpha THEN <<PictureOf(f, "YUV400")>> ELSE <<>>,
     premultiplied |-> FALSE, samples |-> TRUE, av1C |-> TRUE, icc |-> icc,
     nclx |-> <<[primaries |-> f.colour.primaries, transfer |-> f.colour.transfer,
                 matrix |-> f.colour.matrix, range |-> "full"]>>,
     header |-> <<>>, clap |-> <<>>, irot |-> f.irot, imir |-> f.imir,
     exif |-> exif, xmp |-> xmp, orientation |-> orientation]

LEMMA SourceFound ==
    ASSUME NEW f, NEW orientation, NEW source \in SourcesOf(f, orientation)
    PROVE  \E icc \in ProfilesIn(f.colour), exif \in ReadBack(f.exif), xmp \in ReadBack(f.xmp) :
              source = FoundAgain(f, orientation, icc, exif, xmp)
BY DEF SourcesOf, FoundAgain

LEMMA SourceTyped ==
    ASSUME req \in Requests, RequestInv, req.depth \in EncodableDepths,
           NEW f \in AcceptableFiles(req), NEW source \in SourcesOf(f, req.orientation)
    PROVE  source \in Reader!Source
<1>1. PICK icc \in ProfilesIn(f.colour), exif \in ReadBack(f.exif), xmp \in ReadBack(f.xmp) :
        source = FoundAgain(f, req.orientation, icc, exif, xmp)
  BY SourceFound
<1>2. /\ f.width \in Reader!Side /\ f.height \in Reader!Side /\ f.depth \in {8, 10, 12}
      /\ f.alpha \in BOOLEAN /\ f.exif \in BOOLEAN /\ f.xmp \in BOOLEAN
      /\ f.colour \in ColoursFor(req)
      /\ f.irot = IF f.exif THEN irotFor(req.orientation) ELSE <<>>
      /\ f.imir = IF f.exif THEN imirFor(req.orientation) ELSE <<>>
      /\ f.yuvFormat = IF is_gray(req) THEN "YUV400" ELSE req.format
  BY EncodedTyped DEF EncodableDepths
<1>3. req.orientation \in 1..8 /\ f.yuvFormat \in Reader!Formats
  BY <1>2 DEF RequestInv, Request, Reader!Formats
<1>4. \A S : <<>> \in Reader!AtMostOne(S) /\ \A s \in S : <<s>> \in Reader!AtMostOne(S)
  BY DEF Reader!AtMostOne
<1>5. /\ PictureOf(f, f.yuvFormat) \in Reader!Picture
      /\ PictureOf(f, "YUV400") \in Reader!Picture
  BY <1>2, <1>3, PictureTyped DEF Reader!Formats
<1>6. f.irot \in Reader!AtMostOne(0..3) /\ f.imir \in Reader!AtMostOne(0..1)
  BY <1>2, <1>3, <1>4, OrientationTyped
<1>7. icc \in Seq(Reader!Profile)
  <2>1. icc = <<>> \/ \E p \in Reader!Profile : icc = <<p>>
    <3>1. CASE f.colour.icc = "none"
      BY <1>1, <3>1 DEF ProfilesIn
    <3>2. CASE f.colour.icc = "image"
      BY <1>1, <3>2 DEF ProfilesIn, Reader!Profile
    <3>3. CASE f.colour.icc # "none" /\ f.colour.icc # "image"
      <4>1. icc = <<[kind |-> "GRAY", linear |-> f.colour.icc = "gray linear"]>>
        BY <1>1, <3>3, Zenon DEF ProfilesIn
      <4>2. [kind |-> "GRAY", linear |-> f.colour.icc = "gray linear"] \in Reader!Profile
        BY DEF Reader!Profile
      <4> QED
        BY <4>1, <4>2
    <3> QED
      BY <3>1, <3>2, <3>3
  <2>2. \A S : <<>> \in Seq(S) /\ \A s \in S : <<s>> \in Seq(S)
    OBVIOUS
  <2> QED
    BY <2>1, <2>2, Zenon
<1>8. exif \in {"none", "good", "bad"} /\ xmp \in {"none", "good", "bad"}
  BY <1>1 DEF ReadBack
<1>9. <<[primaries |-> f.colour.primaries, transfer |-> f.colour.transfer,
         matrix |-> f.colour.matrix, range |-> "full"]>> \in Seq(Reader!Colour)
  <2>1. f.colour.primaries \in Nat /\ f.colour.transfer \in Nat /\ f.colour.matrix \in Nat
    <3>1. f.colour.primaries \in Nat /\ f.colour.transfer \in {2, 8, 13} /\ f.colour.matrix \in {1, 12}
      BY <1>2, ColoursTyped, Zenon
    <3> QED
      BY <3>1
  <2> QED
    BY <2>1 DEF Reader!Colour
<1>10. (IF f.alpha THEN <<PictureOf(f, "YUV400")>> ELSE <<>>) \in Reader!AtMostOne(Reader!Picture)
  BY <1>4, <1>5
<1>11. /\ <<>> \in Reader!AtMostOne(Reader!Colour) /\ <<>> \in Reader!AtMostOne(Reader!Box)
  BY <1>4
<1> QED
  BY <1>1, <1>3, <1>5, <1>6, <1>7, <1>8, <1>9, <1>10, <1>11 DEF FoundAgain, Reader!Source

(* So whatever an export leaves at the path is a file.                        *)
LEMMA FileTyped ==
    ASSUME NEW source \in Reader!Source, NEW brand \in {"avif", "avis"}
    PROVE  FileWith(brand, source) \in Reader!File
<1>1. \A S : <<>> \in Reader!AtMostOne(S) /\ \A s \in S : <<s>> \in Reader!AtMostOne(S)
  BY DEF Reader!AtMostOne
<1>2. /\ <<source>> \in Reader!AtMostOne(Reader!Source)
      /\ (IF brand = "avis" THEN <<source>> ELSE <<>>) \in Reader!AtMostOne(Reader!Source)
  BY <1>1
<1> QED
  BY <1>2 DEF FileWith, Reader!File

LEMMA CutSourceTyped ==
    ASSUME NEW source \in Reader!Source
    PROVE  [source EXCEPT !.samples = FALSE] \in Reader!Source
BY DEF Reader!Source

LEMMA FilesTyped ==
    ASSUME req \in Requests, EncodingInv, RawInv, OutcomeInv, StoredInv, Ended
    PROVE  FilesAt \subseteq Reader!File
<1>0. RequestInv
  BY DEF EncodingInv
<1>1. Missing \in Reader!File /\ \A kind \in {"empty", "other"} :
        [Missing EXCEPT !.kind = kind] \in Reader!File
  <2>1. <<>> \in Reader!AtMostOne(Reader!Source)
    BY DEF Reader!AtMostOne
  <2> QED
    BY <2>1 DEF Missing, Reader!File
<1>2. \A brand \in {"avif", "avis"} :
        [Missing EXCEPT !.kind = "avif", !.major = brand] \in Reader!File
  <2>1. <<>> \in Reader!AtMostOne(Reader!Source)
    BY DEF Reader!AtMostOne
  <2> QED
    BY <2>1 DEF Missing, Reader!File
<1>3. ASSUME raw # <<>>
      PROVE  \A source \in SourcesOf(raw[1], req.orientation) :
               /\ FileWith(raw[1].brand, source) \in Reader!File
               /\ FileWith(raw[1].brand, [source EXCEPT !.samples = FALSE]) \in Reader!File
  <2>1. raw[1] \in AcceptableFiles(req) /\ req.depth \in EncodableDepths
    BY <1>3 DEF RawInv, StoredInv
  <2>2. raw[1].brand \in {"avif", "avis"}
    BY <1>0, <2>1, EncodedTyped
  <2> QED
    BY <1>0, <2>1, <2>2, SourceTyped, CutSourceTyped, FileTyped
<1>4. CASE dest.state = "old"
  BY <1>1, <1>4 DEF FilesAt
<1>5. CASE dest.state = "empty"
  BY <1>1, <1>5 DEF FilesAt
<1>6. CASE dest.state = "short"
  <2>1. FilesAt = ShortFiles
    BY <1>6 DEF FilesAt
  <2>2. raw # <<>>
    BY <1>6 DEF StoredInv
  <2> QED
    BY <1>1, <1>2, <1>3, <2>1, <2>2 DEF ShortFiles
<1>7. CASE dest.state = "complete"
  <2>1. dest.file = raw /\ raw # <<>>
    BY <1>7 DEF StoredInv
  <2>2. FilesAt = {FileWith(raw[1].brand, source) : source \in SourcesOf(raw[1], req.orientation)}
    BY <1>7, <2>1 DEF FilesAt
  <2> QED
    BY <1>3, <2>1, <2>2
<1> QED
  BY <1>4, <1>5, <1>6, <1>7 DEF StoredInv

------------------------------------------------------------------------------
(* The import works on what the export, which has ended, left at the path.    *)
FileInv ==
    import_pc # "idle" => Ended /\ import_file # <<>> /\ import_file[1] \in FilesAt

ExportInv == req \in Requests /\ EncodingInv /\ RawInv /\ OutcomeInv /\ StoredInv

RoundTripInv == ExportInv /\ FileInv /\ Reader!DeliveryInv

LEMMA ImportKeepsFile ==
    Import!Step \/ Import!Kill => import_pc # "idle" /\ import_file' = import_file
<1> SUFFICES ASSUME Import!Step \/ Import!Kill
             PROVE  import_pc # "idle" /\ import_file' = import_file
  OBVIOUS
<1> USE DEF Import!Continue, Import!Return
<1>1. CASE \/ Import!OpenFile \/ Import!OpenFails \/ Import!RefuseEmpty \/ Import!Allocate
           \/ Import!AllocateFails \/ Import!ReadFile \/ Import!ReadFails \/ Import!RefuseType
           \/ Import!CreateDecoder \/ Import!Parse \/ Import!Decode \/ Import!DecodeFails
  BY <1>1 DEF Import!OpenFile, Import!OpenFails, Import!RefuseEmpty, Import!Allocate,
     Import!AllocateFails, Import!ReadFile, Import!ReadFails, Import!RefuseType,
     Import!CreateDecoder, Import!Parse, Import!Decode, Import!DecodeFails
<1>2. CASE \/ Import!NewMetadata \/ Import!ReadExif \/ Import!ReadXMP \/ Import!ReportError
           \/ Import!CloseProfile \/ Import!Kill
  BY <1>2 DEF Import!NewMetadata, Import!ReadExif, Import!ReadXMP, Import!ReportError,
     Import!FailurePhases, Import!CloseProfile, Import!Kill
<1>3. CASE Import!LoadICC \/ Import!LoadGrayProfile \/ Import!MakeProfile \/ Import!WrapProfile
  BY <1>3, Zenon DEF Import!LoadICC, Import!LoadGrayProfile, Import!MakeProfile, Import!WrapProfile
<1>4. CASE \/ Import!LoadGray \/ Import!LoadColour \/ Import!InsertLayer \/ Import!Crop
           \/ Import!Rotate \/ Import!Mirror \/ Import!Finish
  BY <1>4, Zenon DEF Import!LoadGray, Import!LoadColour, Import!InsertLayer, Import!Crop,
     Import!Rotate, Import!Mirror, Import!Finish
<1> QED
  BY <1>1, <1>2, <1>3, <1>4 DEF Import!Step

LEMMA InitRoundTrip == RoundTripInit => RoundTripInv
<1>1. Init => ExportInv
  BY InitEncoding, InitRaw, InitOutcome, InitStored DEF Init, ExportInv
<1>2. Import!Init => FileInv
  BY DEF Import!Init, FileInv
<1>3. Import!Init => Reader!DeliveryInv
  BY SameInit, ReaderAssumptions, Reader!InitDelivery
<1> QED
  BY <1>1, <1>2, <1>3 DEF RoundTripInit, RoundTripInv

LEMMA NextExport == ExportInv /\ [Next]_vars => ExportInv'
<1>1. [Next]_vars => req' = req
  BY SameRequest
<1> QED
  BY <1>1, NextEncoding, NextRaw, NextOutcome, NextStored DEF ExportInv

LEMMA NextFile == FileInv /\ [RoundTripNext]_<<vars, importVars>> => FileInv'
<1> SUFFICES ASSUME FileInv, [RoundTripNext]_<<vars, importVars>> PROVE FileInv'
  OBVIOUS
<1>1. ASSUME UNCHANGED vars
      PROVE  FilesAt' = FilesAt /\ Ended' = Ended
  BY <1>1 DEF vars, FilesAt, ShortFiles, Ended
<1>2. CASE Export
  <2>1. ~Ended
    BY <1>2 DEF Export, Step, Kill, Ended, Refuse, GetSpace, CreateImage, DescribeICC,
       DescribeNCLX, AllocatePixels, Abort, FilterMetadata, FilterFailed, AttachExif, ExifFailed,
       AttachXMP, CreateEncoder, FetchFrame, ConvertGray, ConvertColour, AddFrame, AddFails,
       Finish, FinishFails, Open, OpenFails, Write, ReturnTrue
  <2> QED
    BY <1>2, <2>1 DEF Export, importVars, FileInv
<1>3. CASE Reopen
  <2>1. PICK f \in FilesAt : Import!Call(f)
    BY <1>3 DEF Reopen
  <2> QED
    BY <1>1, <1>3, <2>1 DEF Reopen, Import!Call, FileInv
<1>4. CASE Load
  <2>1. import_pc # "idle" /\ import_file' = import_file /\ UNCHANGED vars
    BY <1>4, ImportKeepsFile DEF Load
  <2> QED
    BY <1>1, <2>1 DEF FileInv
<1>5. CASE RoundTripDone \/ UNCHANGED <<vars, importVars>>
  <2>1. UNCHANGED vars /\ import_pc' = import_pc /\ import_file' = import_file
    BY <1>5 DEF RoundTripDone, importVars
  <2> QED
    BY <1>1, <2>1 DEF FileInv
<1> QED
  BY <1>2, <1>3, <1>4, <1>5 DEF RoundTripNext

LEMMA NextRoundTrip == RoundTripInv /\ [RoundTripNext]_<<vars, importVars>> => RoundTripInv'
<1> SUFFICES ASSUME RoundTripInv, [RoundTripNext]_<<vars, importVars>> PROVE RoundTripInv'
  OBVIOUS
<1>1. ExportInv'
  BY ExportSide, NextExport DEF RoundTripInv
<1>2. FileInv'
  BY NextFile DEF RoundTripInv
<1>3. Reader!DeliveryInv'
  <2>1. [Reader!Next]_(Reader!vars)
    BY ImportSide, FilesTyped DEF RoundTripInv, ExportInv
  <2> QED
    BY <2>1, ReaderAssumptions, Reader!NextDelivery DEF RoundTripInv
<1> QED
  BY <1>1, <1>2, <1>3 DEF RoundTripInv

------------------------------------------------------------------------------
(* What was loaded is a complete file of the request.                         *)
LEMMA LoadedFile ==
    ASSUME RoundTripInv, Loaded
    PROVE  /\ dest.state = "complete" /\ dest.file[1] \in AcceptableFiles(req)
           /\ req.depth \in EncodableDepths
           /\ \E icc \in ProfilesIn(dest.file[1].colour),
                 exif \in ReadBack(dest.file[1].exif), xmp \in ReadBack(dest.file[1].xmp) :
                 Reader!SourceOf(import_file[1])
                   = <<FoundAgain(dest.file[1], req.orientation, icc, exif, xmp)>>
<1>1. Ended /\ import_file[1] \in FilesAt /\ Reader!Parses(import_file[1])
  <2>1. import_pc # "idle" /\ Reader!Parses(import_file[1])
    BY DEF Loaded, RoundTripInv, Reader!DeliveryInv, Reader!DecodedInv
  <2> QED
    BY <2>1 DEF RoundTripInv, FileInv
<1>2. \A f : f.tracks = <<>> /\ f.items = <<>> => ~Reader!Parses(f)
  BY DEF Reader!Parses, Reader!SourceOf
<1>3. ASSUME NEW brand \in {"avif", "avis"}, NEW source
      PROVE  Reader!SourceOf(FileWith(brand, source)) = <<source>>
  BY DEF Reader!SourceOf, FileWith
<1>4. ASSUME raw # <<>>
      PROVE  /\ raw[1] \in AcceptableFiles(req) /\ req.depth \in EncodableDepths
             /\ raw[1].brand \in {"avif", "avis"}
  <2>1. raw[1] \in AcceptableFiles(req) /\ req.depth \in EncodableDepths
    BY <1>4 DEF RoundTripInv, ExportInv, RawInv, StoredInv
  <2> QED
    BY <2>1, EncodedTyped DEF RoundTripInv, ExportInv, EncodingInv
<1>5. dest.state # "old"
  <2>1. dest.state = "old" => import_file[1] = Missing
    BY <1>1 DEF FilesAt
  <2> QED
    BY <1>1, <1>2, <2>1 DEF Missing
<1>6. dest.state # "empty"
  <2>1. dest.state = "empty" => import_file[1] = [Missing EXCEPT !.kind = "empty"]
    BY <1>1 DEF FilesAt
  <2> QED
    BY <1>1, <1>2, <2>1 DEF Missing
<1>7. dest.state # "short"
  <2> SUFFICES ASSUME dest.state = "short" PROVE FALSE
    OBVIOUS
  <2>1. import_file[1] \in ShortFiles /\ raw # <<>>
    BY <1>1 DEF FilesAt, RoundTripInv, ExportInv, StoredInv
  <2>2. ASSUME NEW source \in SourcesOf(raw[1], req.orientation),
               import_file[1] = FileWith(raw[1].brand, [source EXCEPT !.samples = FALSE])
        PROVE  FALSE
    <3>1. PICK icc \in ProfilesIn(raw[1].colour), exif \in ReadBack(raw[1].exif),
               xmp \in ReadBack(raw[1].xmp) :
                 source = FoundAgain(raw[1], req.orientation, icc, exif, xmp)
      BY SourceFound
    <3>2. [source EXCEPT !.samples = FALSE].samples = FALSE
      BY <3>1 DEF FoundAgain
    <3>3. Reader!SourceOf(import_file[1]) = <<[source EXCEPT !.samples = FALSE]>>
      BY <1>3, <1>4, <2>1, <2>2
    <3>4. Reader!SourceOf(import_file[1])[1].samples
      BY <1>1, Zenon DEF Reader!Parses
    <3>5. \A cut : <<cut>>[1] = cut
      OBVIOUS
    <3>6. Reader!SourceOf(import_file[1])[1] = [source EXCEPT !.samples = FALSE]
      BY <3>3, <3>5, Zenon
    <3> QED
      BY <3>2, <3>4, <3>6, Zenon
  <2> QED
    BY <1>1, <1>2, <2>1, <2>2 DEF ShortFiles, Missing
<1>8. dest.state = "complete" /\ dest.file = raw /\ raw # <<>>
  BY <1>5, <1>6, <1>7 DEF RoundTripInv, ExportInv, StoredInv
<1>9. PICK source \in SourcesOf(raw[1], req.orientation) :
        import_file[1] = FileWith(raw[1].brand, source)
  BY <1>1, <1>8 DEF FilesAt
<1>10. PICK icc \in ProfilesIn(raw[1].colour), exif \in ReadBack(raw[1].exif),
            xmp \in ReadBack(raw[1].xmp) :
              source = FoundAgain(raw[1], req.orientation, icc, exif, xmp)
  BY SourceFound
<1>11. Reader!SourceOf(import_file[1]) = <<source>>
  BY <1>3, <1>4, <1>8, <1>9
<1> QED
  BY <1>4, <1>8, <1>10, <1>11

(* The turn and the mirror written for an orientation show the stored picture *)
(* upright.                                                                   *)
ShownUpright(im, o, width, height) ==
    /\ <<im.width, im.height>> = IF o < 5 THEN <<width, height>> ELSE <<height, width>>
    /\ \A x \in 0..(im.width - 1), y \in 0..(im.height - 1) :
          im.at[<<x, y>>] = Upright(o, x, y, width, height)

LEMMA UprightShown ==
    ASSUME NEW o \in 1..8, NEW im, NEW width \in Nat, NEW height \in Nat, NEW rect,
           rect.x = 0, rect.y = 0, rect.width = width, rect.height = height,
           Reader!Shows(im, irotFor(o), imirFor(o), rect)
    PROVE  ShownUpright(im, o, width, height)
<1> DEFINE irot == irotFor(o)
           imir == imirFor(o)
<1>1. /\ IF irot # <<>> /\ irot[1] \in {1, 3}
         THEN im.width = height /\ im.height = width
         ELSE im.width = width /\ im.height = height
      /\ \A p \in Reader!Area(im.width, im.height) :
            LET q == Reader!Unturned(Reader!Unmirrored(p, imir, im.width, im.height),
                                     irot, width, height)
            IN  im.at[p] = <<q[1] + 0, q[2] + 0>>
  BY DEF Reader!Shows
<1>2. /\ irot = CASE o \in {1, 2, 4} -> <<>> [] o = 3 -> <<2>>
                  [] o \in {5, 8} -> <<1>> [] o \in {6, 7} -> <<3>>
      /\ imir = CASE o \in {1, 3, 6, 8} -> <<>> [] o = 2 -> <<1>> [] o \in {4, 5, 7} -> <<0>>
  BY DEF irotFor, imirFor
<1> HIDE DEF irot, imir
<1>3. <<im.width, im.height>> = IF o < 5 THEN <<width, height>> ELSE <<height, width>>
  BY <1>1, <1>2
<1>4. im.width \in Nat /\ im.height \in Nat
  BY <1>1
<1>5. ASSUME NEW x \in 0..(im.width - 1), NEW y \in 0..(im.height - 1)
      PROVE  im.at[<<x, y>>] = Upright(o, x, y, width, height)
  <2> DEFINE p == Reader!Unmirrored(<<x, y>>, imir, im.width, im.height)
             q == Reader!Unturned(p, irot, width, height)
  <2>1. <<x, y>> \in Reader!Area(im.width, im.height)
    BY DEF Reader!Area
  <2>2. im.at[<<x, y>>] = <<q[1] + 0, q[2] + 0>>
    BY <1>1, <2>1
  <2>3. p = IF imir = <<>> THEN <<x, y>>
            ELSE IF imir[1] = 0 THEN <<x, im.height - 1 - y>> ELSE <<im.width - 1 - x, y>>
    BY DEF Reader!Unmirrored
  <2>4. /\ q = Upright(o, x, y, width, height)
        /\ q[1] \in Int /\ q[2] \in Int /\ q = <<q[1], q[2]>>
    <3>1. CASE o = 1
      <4>1. irot = <<>> /\ imir = <<>>
        BY <1>2, <3>1
      <4> QED
        BY <1>1, <1>4, <2>3, <3>1, <4>1 DEF Reader!Unturned, Upright
    <3>2. CASE o = 2
      <4>1. irot = <<>> /\ imir = <<1>>
        BY <1>2, <3>2
      <4> QED
        BY <1>1, <1>4, <2>3, <3>2, <4>1 DEF Reader!Unturned, Upright
    <3>3. CASE o = 3
      <4>1. irot = <<2>> /\ imir = <<>>
        BY <1>2, <3>3
      <4> QED
        BY <1>1, <1>4, <2>3, <3>3, <4>1 DEF Reader!Unturned, Upright
    <3>4. CASE o = 4
      <4>1. irot = <<>> /\ imir = <<0>>
        BY <1>2, <3>4
      <4> QED
        BY <1>1, <1>4, <2>3, <3>4, <4>1 DEF Reader!Unturned, Upright
    <3>5. CASE o = 5
      <4>1. irot = <<1>> /\ imir = <<0>>
        BY <1>2, <3>5
      <4> QED
        BY <1>1, <1>4, <2>3, <3>5, <4>1 DEF Reader!Unturned, Upright
    <3>6. CASE o = 6
      <4>1. irot = <<3>> /\ imir = <<>>
        BY <1>2, <3>6
      <4> QED
        BY <1>1, <1>4, <2>3, <3>6, <4>1 DEF Reader!Unturned, Upright
    <3>7. CASE o = 7
      <4>1. irot = <<3>> /\ imir = <<0>>
        BY <1>2, <3>7
      <4> QED
        BY <1>1, <1>4, <2>3, <3>7, <4>1 DEF Reader!Unturned, Upright
    <3>8. CASE o = 8
      <4>1. irot = <<1>> /\ imir = <<>>
        BY <1>2, <3>8
      <4> QED
        BY <1>1, <1>4, <2>3, <3>8, <4>1 DEF Reader!Unturned, Upright
    <3> QED
      BY <3>1, <3>2, <3>3, <3>4, <3>5, <3>6, <3>7, <3>8
  <2> QED
    BY <2>2, <2>4
<1> QED
  BY <1>3, <1>5 DEF ShownUpright

------------------------------------------------------------------------------
(* What the import makes of the source it finds, ...                          *)
LEMMA LoadedImage ==
    ASSUME RoundTripInv, Loaded,
           NEW icc \in ProfilesIn(dest.file[1].colour), NEW exif, NEW xmp,
           Reader!SourceOf(import_file[1])
             = <<FoundAgain(dest.file[1], req.orientation, icc, exif, xmp)>>
    PROVE  LET f == dest.file[1]
           IN  /\ import_avif.depth = f.depth /\ import_avif.yuvRange = "full"
               /\ import_avif.width = f.width /\ import_avif.height = f.height
               /\ import_avif.clap = <<>>
               /\ import_avif.irot = f.irot /\ import_avif.imir = f.imir
<1> DEFINE found == FoundAgain(dest.file[1], req.orientation, icc, exif, xmp)
<1>1. import_avif = Reader!DecodedImage(import_file[1])
  BY DEF Loaded, RoundTripInv, Reader!DeliveryInv, Reader!DecodedInv
<1>2. Reader!SourceOf(import_file[1])[1] = found
  <2>1. \A z : <<z>>[1] = z
    OBVIOUS
  <2> QED
    BY <2>1, Zenon
<1>3. /\ found.colour.width = dest.file[1].width /\ found.colour.height = dest.file[1].height
      /\ found.colour.depth = dest.file[1].depth /\ found.clap = <<>>
      /\ found.irot = dest.file[1].irot /\ found.imir = dest.file[1].imir
      /\ Reader!CICP(found).range = "full"
  BY DEF FoundAgain, PictureOf, Reader!CICP
<1> HIDE DEF found
<1> QED
  BY <1>1, <1>2, <1>3 DEF Reader!DecodedImage

(* ... in the fields a file describes ...                                     *)
LEMMA ColourComesBack ==
    ASSUME RequestInv, NEW f, f.colour \in ColoursFor(req),
           f.yuvFormat = IF is_gray(req) THEN "YUV400" ELSE req.format,
           NEW icc \in ProfilesIn(f.colour), NEW orientation, NEW exif, NEW xmp
    PROVE  LET found == FoundAgain(f, orientation, icc, exif, xmp)
           IN  /\ Reader!GrayIn(found) = ComesBackGray
               /\ f.colour.icc # "image" => Reader!LinearIn(found) = req.linear
               /\ "premultiplied" \notin Reader!ContentsOf(found, Reader!CICP(found))
               /\ "unwritten" \notin Reader!ContentsOf(found, Reader!CICP(found))
               /\ f.colour.icc = "none" =>
                    \A p \in Reader!ProfilesOf(found, Reader!CICP(found)) : \A i \in DOMAIN p :
                      p[i].primaries = IF ComesBackGray THEN 1 ELSE f.colour.primaries
<1> DEFINE found == FoundAgain(f, orientation, icc, exif, xmp)
           cicp  == Reader!CICP(found)
           c     == f.colour
<1>1. /\ found.icc = icc /\ found.colour.yuvFormat = f.yuvFormat /\ found.premultiplied = FALSE
      /\ cicp.primaries = c.primaries /\ cicp.transfer = c.transfer /\ cicp.matrix = c.matrix
  BY DEF FoundAgain, PictureOf, Reader!CICP
<1>2. /\ c.icc = IF ~req.icc THEN "none" ELSE IF ~is_gray(req) THEN "image"
                 ELSE IF req.linear THEN "gray linear" ELSE "gray sRGB"
      /\ ~req.icc => /\ c.primaries \in ColorPrimaries
                     /\ c.transfer = IF req.linear THEN 8 ELSE 13
                     /\ is_gray(req) => c.primaries = 1
      /\ c.matrix \in {1, 12}
  BY ColoursTyped, Zenon
<1>3. req.icc \in BOOLEAN /\ req.linear \in BOOLEAN /\ is_gray(req) \in BOOLEAN
  BY DEF RequestInv, Request, is_gray
<1> HIDE DEF found, cicp, c
<1>4. Reader!ContentsOf(found, cicp) = {"straight"}
  <2>1. cicp.matrix \in {1, 12}
    BY <1>1, <1>2, Zenon
  <2>2. ~(cicp.matrix \in {0, 3, 8, 10, 11} \/ cicp.matrix >= 13)
    BY <2>1
  <2> QED
    BY <1>1, <2>2 DEF Reader!ContentsOf
<1>5. CASE ~req.icc
  <2>1. icc = <<>> /\ c.icc = "none"
    BY <1>2, <1>5, Zenon DEF ProfilesIn, c
  <2>2. /\ c.transfer = IF req.linear THEN 8 ELSE 13
        /\ c.primaries \in ColorPrimaries /\ (is_gray(req) => c.primaries = 1)
    BY <1>2, <1>5, Zenon
  <2>3. Reader!GrayIn(found) = ComesBackGray
    BY <1>1, <1>3, <1>5, <2>1 DEF Reader!GrayIn, ComesBackGray
  <2>4. Reader!LinearIn(found) = req.linear
    <3>1. (c.transfer = 8) = req.linear
      BY <1>3, <2>2
    <3>2. Reader!LinearIn(found) = (c.transfer = 8)
      BY <1>1, <2>1, Zenon DEF Reader!LinearIn, cicp
    <3> QED
      BY <3>1, <3>2
  <2>5. \A p \in Reader!ProfilesOf(found, cicp) : \A i \in DOMAIN p :
          p[i].primaries = IF ComesBackGray THEN 1 ELSE c.primaries
    <3>1. CASE f.yuvFormat = "YUV400"
      BY <1>1, <1>5, <2>1, <3>1 DEF Reader!ProfilesOf, ComesBackGray
    <3>2. CASE f.yuvFormat # "YUV400"
      BY <1>1, <1>5, <2>1, <2>2, <3>2 DEF Reader!ProfilesOf, ComesBackGray
    <3> QED
      BY <3>1, <3>2
  <2> QED
    BY <1>4, <2>3, <2>4, <2>5 DEF found, cicp, c
<1>6. CASE req.icc /\ ~is_gray(req)
  <2>1. c.icc = "image"
    BY <1>2, <1>6, Zenon
  <2>2. \E l \in BOOLEAN : icc = <<[kind |-> "RGB", linear |-> l]>>
    BY <2>1, Zenon DEF ProfilesIn, c
  <2>3. icc # <<>> /\ icc[1].kind = "RGB"
    BY <2>2
  <2>4. Reader!GrayIn(found) = FALSE /\ ComesBackGray = FALSE
    BY <1>1, <1>6, <2>3 DEF Reader!GrayIn, ComesBackGray
  <2> QED
    BY <1>4, <2>1, <2>4 DEF found, cicp, c
<1>7. CASE req.icc /\ is_gray(req)
  <2>1. c.icc = IF req.linear THEN "gray linear" ELSE "gray sRGB"
    BY <1>2, <1>7, Zenon
  <2>2. c.icc # "none" /\ c.icc # "image" /\ ((c.icc = "gray linear") = req.linear)
    BY <1>3, <2>1
  <2>3. icc = <<[kind |-> "GRAY", linear |-> c.icc = "gray linear"]>>
    BY <2>2, Zenon DEF ProfilesIn, c
  <2>4. icc # <<>> /\ icc[1].kind = "GRAY" /\ icc[1].linear = req.linear
    BY <2>2, <2>3
  <2>5. Reader!GrayIn(found) = TRUE /\ ComesBackGray = TRUE
    BY <1>1, <1>7, <2>4 DEF Reader!GrayIn, ComesBackGray
  <2>6. Reader!LinearIn(found) = req.linear
    BY <1>1, <1>3, <2>4 DEF Reader!LinearIn
  <2> QED
    BY <1>4, <2>2, <2>5, <2>6 DEF found, cicp, c
<1> QED
  BY <1>3, <1>5, <1>6, <1>7

(* ... and upright.                                                           *)
LEMMA ShownAgain ==
    ASSUME RoundTripInv, Loaded, NEW icc \in ProfilesIn(dest.file[1].colour), NEW exif, NEW xmp,
           Reader!SourceOf(import_file[1])
             = <<FoundAgain(dest.file[1], req.orientation, icc, exif, xmp)>>
    PROVE  ShowsExported(image[1], dest.file[1])
<1> DEFINE f == dest.file[1]
           o == IF f.exif THEN req.orientation ELSE 1
           width == req.layers[1].width
           height == req.layers[1].height
<1>1. /\ import_avif.width = f.width /\ import_avif.height = f.height
      /\ import_avif.clap = <<>>
      /\ import_avif.irot = f.irot /\ import_avif.imir = f.imir
  BY LoadedImage
<1>2. /\ f.width = width /\ f.width \in Reader!Side
      /\ f.height = height /\ f.height \in Reader!Side
      /\ f.irot = IF f.exif THEN irotFor(req.orientation) ELSE <<>>
      /\ f.imir = IF f.exif THEN imirFor(req.orientation) ELSE <<>>
  BY LoadedFile, EncodedTyped DEF RoundTripInv, ExportInv, EncodingInv
<1>3. o \in 1..8
  BY DEF RoundTripInv, ExportInv, EncodingInv, RequestInv, Request
<1>4. f.irot = irotFor(o) /\ f.imir = imirFor(o)
  <2>1. irotFor(1) = <<>> /\ imirFor(1) = <<>>
    BY DEF irotFor, imirFor
  <2> QED
    BY <1>2, <2>1
<1>5. width \in Nat /\ height \in Nat
  <2>1. Reader!Side \subseteq Nat
    BY SharedAssumption DEF Reader!Side, Reader!IntMax
  <2> QED
    BY <1>2, <2>1
<1>6. PICK rect \in Reader!Rects : Reader!Shows(image[1], import_avif.irot, import_avif.imir, rect)
  BY DEF Loaded, RoundTripInv, Reader!DeliveryInv, Reader!DisplayInv
<1>7. rect.x = 0 /\ rect.y = 0 /\ rect.width = width /\ rect.height = height
  <2>1. rect = Reader!Whole
    BY <1>1, <1>6 DEF Reader!Rects
  <2> QED
    BY <1>1, <1>2, <2>1 DEF Reader!Whole
<1>8. Reader!Shows(image[1], irotFor(o), imirFor(o), rect)
  BY <1>1, <1>4, <1>6
<1> HIDE DEF o, width, height
<1>9. ShownUpright(image[1], o, width, height)
  BY <1>3, <1>5, <1>7, <1>8, UprightShown
<1>10. \A i \in DOMAIN metadata : metadata[i].orientation = 1
  <2>1. \A i \in DOMAIN metadata :
          metadata[i] = [orientation |-> 1, size |-> <<image[1].width, image[1].height>>]
    BY DEF Loaded, RoundTripInv, Reader!DeliveryInv, Reader!MetadataInv
  <2> QED
    BY <2>1
<1> QED
  BY <1>9, <1>10, Zenon DEF ShownUpright, ShowsExported, o, width, height

(* For every set of requests, encoders and primaries, whatever fails on       *)
(* either way: only a complete file comes back as an image, and it is the     *)
(* exported one: gray or coloured, of the class of its depth, with its alpha, *)
(* its curve, its declared primaries, and upright.                            *)
THEOREM ImportedAlwaysExported == RoundTripSpec => []ImportedIsExported
<1>1. RoundTripInv => ImportedIsExported
  <2> SUFFICES ASSUME RoundTripInv, Loaded PROVE ImportedIsExported
    BY DEF ImportedIsExported
  <2> DEFINE f == dest.file[1]
             im == image[1]
  <2>1. PICK icc \in ProfilesIn(f.colour), exif \in ReadBack(f.exif), xmp \in ReadBack(f.xmp) :
          Reader!SourceOf(import_file[1]) = <<FoundAgain(f, req.orientation, icc, exif, xmp)>>
    BY LoadedFile
  <2> DEFINE found == FoundAgain(f, req.orientation, icc, exif, xmp)
  <2>2. dest.state = "complete" /\ f \in AcceptableFiles(req) /\ req.depth \in {8, 10, 12}
    BY LoadedFile DEF EncodableDepths
  <2>3. RequestInv /\ req \in Requests
    BY DEF RoundTripInv, ExportInv, EncodingInv
  <2>4. /\ f.colour \in ColoursFor(req) /\ f.depth = req.depth /\ f.alpha \in BOOLEAN
        /\ f.yuvFormat = IF is_gray(req) THEN "YUV400" ELSE req.format
    BY <2>2, <2>3, EncodedTyped
  <2>5. /\ Reader!GrayIn(found) = ComesBackGray
        /\ f.colour.icc # "image" => Reader!LinearIn(found) = req.linear
        /\ Reader!ContentsOf(found, Reader!CICP(found)) \cap {"premultiplied", "unwritten"} = {}
        /\ f.colour.icc = "none" =>
             \A p \in Reader!ProfilesOf(found, Reader!CICP(found)) : \A i \in DOMAIN p :
               p[i].primaries = IF ComesBackGray THEN 1 ELSE f.colour.primaries
    BY <2>1, <2>3, <2>4, ColourComesBack
  <2>6. Reader!Delivered(im) \in Reader!DescribedBy(import_file[1])
    BY DEF Loaded, RoundTripInv, Reader!DeliveryInv, Reader!ImageInv, Reader!Delivering
  <2>7. Reader!SourceOf(import_file[1])[1] = found
    <3>1. \A z : <<z>>[1] = z
      OBVIOUS
    <3> QED
      BY <2>1, <3>1, Zenon
  <2>8. found.colour.depth = f.depth /\ (found.alpha # <<>>) = f.alpha
    BY <2>4 DEF FoundAgain, PictureOf
  <2> HIDE DEF found
  <2>9. Reader!Delivered(im) \in
          [base    : {IF Reader!GrayIn(found) THEN "GRAY" ELSE "RGB"},
           bits    : {IF found.colour.depth = 8 THEN 8 ELSE 16},
           linear  : {Reader!LinearIn(found)},
           profile : Reader!ProfilesOf(found, Reader!CICP(found)),
           alpha   : {found.alpha # <<>>},
           content : Reader!ContentsOf(found, Reader!CICP(found))]
    BY <2>6, <2>7, Zenon DEF Reader!DescribedBy
  <2>10. /\ im.base = (IF Reader!GrayIn(found) THEN "GRAY" ELSE "RGB")
         /\ im.bits = (IF found.colour.depth = 8 THEN 8 ELSE 16)
         /\ im.linear = Reader!LinearIn(found)
         /\ im.profile \in Reader!ProfilesOf(found, Reader!CICP(found))
         /\ im.alpha = (found.alpha # <<>>)
         /\ im.content \in Reader!ContentsOf(found, Reader!CICP(found))
    BY <2>9, Zenon DEF Reader!Delivered
  <2>11. ShowsExported(im, f)
    BY <2>1, ShownAgain
  <2>12. im.content = "straight"
    BY <2>5, <2>10 DEF Reader!ContentsOf
  <2>13. im.bits = IF req.depth > 8 THEN 16 ELSE 8
    BY <2>2, <2>4, <2>8, <2>10
  <2> QED
    BY <2>2, <2>5, <2>8, <2>10, <2>11, <2>12, <2>13, Zenon DEF ImportedIsExported
<1> QED
  BY InitRoundTrip, NextRoundTrip, <1>1, PTL DEF RoundTripSpec

(* Of every gray drawable and every layer's alpha: the samples come back      *)
(* within the rounding of the file's depth, black and white exactly, and      *)
(* exporting them again changes nothing.                                      *)
THEOREM SamplesAlwaysSurvive == RoundTripSpec => []SamplesSurvive
<1>1. RoundTripInv => SamplesSurvive
  <2> SUFFICES ASSUME RoundTripInv, Loaded PROVE SamplesSurvive
    BY DEF SamplesSurvive
  <2> DEFINE f == dest.file[1]
  <2>1. PICK icc \in ProfilesIn(f.colour), exif \in ReadBack(f.exif), xmp \in ReadBack(f.xmp) :
          Reader!SourceOf(import_file[1]) = <<FoundAgain(f, req.orientation, icc, exif, xmp)>>
    BY LoadedFile
  <2>2. f \in AcceptableFiles(req) /\ req.depth \in {8, 10, 12}
    BY LoadedFile DEF EncodableDepths
  <2>3. f.depth = req.depth /\ f.frames[1] = FrameFor(req, n_drawables(req))
    BY <2>2, EncodedTyped DEF RoundTripInv, ExportInv, EncodingInv
  <2>4. import_avif.depth = req.depth /\ import_avif.yuvRange = "full"
    BY <2>1, <2>3, LoadedImage
  <2>5. f.frames[1].scale = req.depth
    BY <2>3 DEF FrameFor
  <2>6. (IF req.depth = 8 THEN 8 ELSE 16) = Fetched(req.depth)
    BY DEF Fetched
  <2>7. ASSUME NEW v \in Samples(Fetched(req.depth)), NEW code \in Exported(v, req.depth)
        PROVE  /\ code \in Samples(req.depth)
               /\ \A back \in Imported(code, req.depth, "full") :
                     /\ Distance(v, back) <= Loss(req.depth)
                     /\ v \in {0, White(Fetched(req.depth))} => back = v
                     /\ Exported(back, req.depth) = {code}
    <3>1. code \in Samples(req.depth)
      BY <2>2, ExportedIsSample
    <3> QED
      BY <2>2, <3>1, SamplesComeBack, CodesSurvive
  <2> QED
    BY <2>4, <2>5, <2>6, <2>7 DEF SamplesSurvive
<1> QED
  BY InitRoundTrip, NextRoundTrip, <1>1, PTL DEF RoundTripSpec
==============================================================================
