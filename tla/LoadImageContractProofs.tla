------------------------ MODULE LoadImageContractProofs ------------------------
(* What LoadImage delivers, for every set of files, every word size and every *)
(* set of known primaries: the image is one the file describes, shown as the  *)
(* file's transformations say, and avif_load behaves as ImportContract says.  *)
EXTENDS LoadImageProofs

------------------------------------------------------------------------------
(* What the answers, the image and the phases say of each other.              *)
Transforming == {"crop", "rotate", "mirror", "finish"}

Delivering == pc \in Transforming \/ result = "SUCCESS"

PhaseInv ==
    /\ pc = "idle" => file = <<>>
    /\ pc # "idle" => Len(file) = 1
    /\ result = "none" <=> pc # "returned"
    /\ result \in {"none", "SUCCESS", "EXECUTION_ERROR"}
    /\ pc # "killed" => (image # <<>> <=> pc = "insert" \/ Delivering)

------------------------------------------------------------------------------
(* The colour profile and the two flags, as the file's ICC profile or its     *)
(* colour description demand.                                                 *)
IccProfile(icc) == [kind |-> icc.kind, linear |-> icc.linear, primaries |-> 0, transfer |-> 0]

GrayProfile(linear) ==
    [kind |-> "GRAY", linear |-> linear, primaries |-> 1, transfer |-> IF linear THEN 8 ELSE 13]

MadeProfile(img) ==
    [kind |-> "RGB", linear |-> trc_to_load(img) = 8,
     primaries |-> primaries_to_load(img), transfer |-> trc_to_load(img)]

ColoursLoaded ==
    IF avif.icc = <<>>
    THEN IF avif.yuvFormat = "YUV400"
         THEN /\ loadgray = TRUE
              /\ loadlinear = (avif.transferCharacteristics = 8)
              /\ profile = <<GrayProfile(loadlinear)>>
         ELSE /\ loadgray = FALSE
              /\ loadlinear = (trc_to_load(avif) = 8)
              /\ profile \in {<<>>, <<MadeProfile(avif)>>}
    ELSE IF avif.icc[1].kind = "broken"
         THEN profile = <<>> /\ loadgray = FALSE /\ loadlinear = FALSE
         ELSE /\ profile = <<IccProfile(avif.icc[1])>>
              /\ loadlinear = avif.icc[1].linear
              /\ loadgray = (avif.icc[1].kind = "GRAY" /\ avif.matrixCoefficients # 0)

PixelsLoaded ==
    IF loadgray THEN IF avif.alphaPremultiplied THEN "premultiplied" ELSE "straight"
                ELSE IF ConvertsToRGB(avif) THEN "straight" ELSE "unwritten"

ColourInv ==
    /\ pc \in {"wrap", "wrap failed", "close"} => avif.icc = <<>> /\ avif.yuvFormat # "YUV400"
    /\ pc \in {"icc failed", "wrap", "wrap failed", "close", "load", "insert"} => ColoursLoaded
    /\ pc = "insert" => /\ image = <<NewImage(IF loadgray THEN "GRAY" ELSE "RGB")>>
                        /\ pixels = PixelsLoaded

------------------------------------------------------------------------------
(* The image from the inserted layer on: it is one the file describes, ...    *)
ImageFields ==
    {"base", "bits", "linear", "profile", "alpha", "content", "width", "height", "at"}

Delivered(im) ==
    [base |-> im.base, bits |-> im.bits, linear |-> im.linear, profile |-> im.profile,
     alpha |-> im.alpha, content |-> im.content]

ImageInv ==
    Delivering =>
        /\ DOMAIN image[1] = ImageFields
        /\ Delivered(image[1]) \in DescribedBy(file[1])

(* ... and shows the rectangle of the decoded picture that the clean aperture *)
(* keeps, turned and mirrored as far as the transformations have come.        *)
Whole == [x |-> 0, y |-> 0, width |-> avif.width, height |-> avif.height]

Rects ==
    {IF crop = <<>> THEN Whole ELSE crop[1] :
        crop \in IF avif.clap = <<>> THEN {<<>>} ELSE Crops(avif.clap[1], avif.width, avif.height)}

Area(width, height) == (0..(width - 1)) \X (0..(height - 1))

Shows(im, irot, imir, rect) ==
    /\ IF irot # <<>> /\ irot[1] \in {1, 3}
       THEN im.width = rect.height /\ im.height = rect.width
       ELSE im.width = rect.width /\ im.height = rect.height
    /\ DOMAIN im.at = Area(im.width, im.height)
    /\ \A p \in Area(im.width, im.height) :
          LET q == Unturned(Unmirrored(p, imir, im.width, im.height),
                            irot, rect.width, rect.height)
          IN  im.at[p] = <<q[1] + rect.x, q[2] + rect.y>>

DisplayInv ==
    /\ pc = "crop" => Shows(image[1], <<>>, <<>>, Whole)
    /\ pc = "rotate" => \E rect \in Rects : Shows(image[1], <<>>, <<>>, rect)
    /\ pc = "mirror" => \E rect \in Rects : Shows(image[1], avif.irot, <<>>, rect)
    /\ pc = "finish" \/ result = "SUCCESS" =>
         \E rect \in Rects : Shows(image[1], avif.irot, avif.imir, rect)
    /\ Delivering => /\ final_size = <<image[1].width, image[1].height>>
                     /\ image[1].width \in Side /\ image[1].height \in Side

MetadataInv ==
    /\ metadata \in AtMostOne([orientation : 1..8, size : {<<>>} \cup Side \X Side])
    /\ pc = "exif" /\ avif.exif = "good" => metadata # <<>>
    /\ result = "SUCCESS" => \A i \in DOMAIN metadata :
          metadata[i] = [orientation |-> 1, size |-> <<image[1].width, image[1].height>>]

------------------------------------------------------------------------------
LEMMA InitPhase == Init => PhaseInv
BY DEF Init, PhaseInv, Transforming, Delivering

LEMMA NextPhase == PhaseInv /\ [Next]_vars => PhaseInv'
<1> SUFFICES ASSUME PhaseInv, [Next]_vars PROVE PhaseInv'
  OBVIOUS
<1> USE DEF Return, Continue, work, Delivering, Transforming
<1>1. CASE \E f \in Files : Call(f)
  BY <1>1 DEF Call, PhaseInv
<1>2. CASE \/ OpenFile \/ OpenFails \/ RefuseEmpty \/ Allocate \/ AllocateFails \/ ReadFile
           \/ ReadFails \/ RefuseType \/ CreateDecoder \/ Parse \/ Decode \/ DecodeFails
  BY <1>2 DEF OpenFile, OpenFails, RefuseEmpty, Allocate, AllocateFails, ReadFile,
              ReadFails, RefuseType, CreateDecoder, Parse, Decode, DecodeFails, PhaseInv
<1>3. CASE \/ NewMetadata \/ ReadExif \/ ReadXMP \/ ReportError
  BY <1>3 DEF NewMetadata, ReadExif, ReadXMP, ReportError, AfterFailure, FailurePhases, PhaseInv
<1>4. CASE \/ LoadICC \/ LoadGrayProfile \/ MakeProfile \/ WrapProfile \/ CloseProfile
  <2>1. /\ pc \in {"profile", "wrap", "close"}
        /\ pc' \in {"icc failed", "load", "wrap", "wrap failed", "close"}
        /\ image' = image /\ file' = file /\ result' = result
    BY <1>4 DEF LoadICC, LoadGrayProfile, MakeProfile, WrapProfile, CloseProfile
  <2> QED
    BY <2>1 DEF PhaseInv
<1>5. CASE LoadGray \/ LoadColour
  <2>1. /\ pc = "load" /\ pc' = "insert" /\ image' # <<>>
        /\ file' = file /\ result' = result
    BY <1>5 DEF LoadGray, LoadColour
  <2> QED
    BY <2>1 DEF PhaseInv
<1>6. CASE InsertLayer \/ Crop \/ Rotate \/ Mirror
  <2>1. /\ pc \in {"insert", "crop", "rotate", "mirror"}
        /\ pc' \in {"crop", "rotate", "mirror", "finish"}
        /\ file' = file /\ result' = result
    BY <1>6 DEF InsertLayer, Crop, Rotate, Mirror
  <2>2. image # <<>>
    BY <2>1 DEF PhaseInv
  <2>3. image' = image \/ \E im : image' = <<im>>
    <3>1. CASE InsertLayer
      BY <3>1, Zenon DEF InsertLayer
    <3>2. CASE Crop
      BY <3>2, Zenon DEF Crop
    <3>3. CASE Rotate
      BY <3>3, Zenon DEF Rotate
    <3>4. CASE Mirror
      BY <3>4, Zenon DEF Mirror
    <3> QED
      BY <1>6, <3>1, <3>2, <3>3, <3>4
  <2>4. image' # <<>>
    BY <2>2, <2>3
  <2> QED
    BY <2>1, <2>4 DEF PhaseInv
<1>7. CASE Finish \/ Kill
  <2>1. CASE Finish
    <3>1. /\ pc = "finish" /\ pc' = "returned" /\ result' = "SUCCESS"
          /\ file' = file /\ image' = image
      BY <2>1 DEF Finish
    <3> QED
      BY <3>1 DEF PhaseInv
  <2>2. CASE Kill
    <3>1. /\ pc \notin {"idle", "returned", "aborted", "killed"} /\ pc' = "killed"
          /\ result' = result /\ file' = file /\ image' = image
      BY <2>2 DEF Kill, Ended
    <3> QED
      BY <3>1 DEF PhaseInv
  <2> QED
    BY <1>7, <2>1, <2>2
<1>8. CASE UNCHANGED vars
  BY <1>8 DEF vars, PhaseInv
<1> QED
  BY <1>1, <1>2, <1>3, <1>4, <1>5, <1>6, <1>7, <1>8 DEF Next, Step, Done

(* What the decoder hands over, while it is alive.                            *)
LEMMA DecodedTyped ==
    ASSUME DecodedInv, pc \in Decoded
    PROVE  LET source == SourceOf(file[1])[1]
           IN  /\ source \in Source /\ avif = DecodedImage(file[1])
               /\ avif.width \in Side /\ avif.height \in Side
               /\ avif.depth \in {8, 10, 12}
               /\ avif.icc \in Seq(Profile) /\ avif.orientation \in 1..8
               /\ avif.irot \in AtMostOne(0..3) /\ avif.imir \in AtMostOne(0..1)
<1> DEFINE source == SourceOf(file[1])[1]
<1>1. file[1] \in File /\ Parses(file[1]) /\ avif = DecodedImage(file[1])
  BY DEF DecodedInv, Decoded, Decoding, FailurePhases
<1>2. source \in Source
  BY <1>1, SourceDescribed
<1>3. /\ source.colour \in Picture /\ source.icc \in Seq(Profile)
      /\ source.irot \in AtMostOne(0..3) /\ source.imir \in AtMostOne(0..1)
      /\ source.orientation \in 1..8
  BY <1>2 DEF Source
<1>4. /\ avif.width = source.colour.width /\ avif.height = source.colour.height
      /\ avif.depth = source.colour.depth /\ avif.icc = source.icc
      /\ avif.irot = source.irot /\ avif.imir = source.imir
      /\ avif.orientation = source.orientation
  BY <1>1 DEF DecodedImage
<1>5. source.colour.width \in Side /\ source.colour.height \in Side
      /\ source.colour.depth \in {8, 10, 12}
  BY <1>3 DEF Picture
<1> QED
  BY <1>1, <1>2, <1>3, <1>4, <1>5

------------------------------------------------------------------------------
(* The colour profile.  The steps that do not touch it, ...                   *)
ColourFrame == UNCHANGED <<avif, profile, loadgray, loadlinear>>

LEMMA ColourKept ==
    ASSUME ColourInv, ColourFrame, pc' # "insert",
           \/ pc' \notin {"icc failed", "wrap", "wrap failed", "close", "load", "insert"}
           \/ pc' = "load" /\ pc \in {"icc failed", "close"}
           \/ pc' = "close" /\ pc = "wrap failed"
    PROVE  ColourInv'
BY DEF ColourInv, ColourFrame, ColoursLoaded

LEMMA SingletonNotEmpty == \A x : <<x>> # <<>> /\ <<x>>[1] = x /\ Len(<<x>>) = 1
OBVIOUS

(* ... those that choose it, ...                                              *)
LEMMA ICCLoaded ==
    ASSUME HeldInv, LoadICC
    PROVE  ColourInv'
<1>1. pc = "profile" /\ avif.icc # <<>> /\ avif' = avif
  BY DEF LoadICC
<1>2. profile = <<>>
  BY <1>1 DEF HeldInv
<1>3. CASE avif.icc[1].kind = "broken"
  <2>1. /\ pc' = "icc failed" /\ profile' = profile
        /\ loadgray' = FALSE /\ loadlinear' = FALSE
    BY <1>3, Zenon DEF LoadICC, Continue
  <2>2. ColoursLoaded'
    BY <1>1, <1>2, <1>3, <2>1 DEF ColoursLoaded
  <2> QED
    BY <2>1, <2>2 DEF ColourInv
<1>4. CASE avif.icc[1].kind # "broken"
  <2>1. /\ pc' = "load" /\ profile' = <<IccProfile(avif.icc[1])>>
        /\ loadlinear' = avif.icc[1].linear
        /\ loadgray' = (avif.icc[1].kind = "GRAY" /\ avif.matrixCoefficients # 0)
    BY <1>4, Zenon DEF LoadICC, Continue, IccProfile
  <2>2. ColoursLoaded'
    BY <1>1, <1>4, <2>1, Zenon DEF ColoursLoaded
  <2> QED
    BY <2>1, <2>2 DEF ColourInv
<1> QED
  BY <1>3, <1>4

LEMMA ProfileMade ==
    ASSUME HeldInv, ColourInv, LoadGrayProfile \/ MakeProfile \/ WrapProfile
    PROVE  ColourInv'
<1> USE DEF Continue
<1>1. CASE LoadGrayProfile
  <2>1. /\ pc' = "load" /\ avif' = avif /\ avif.icc = <<>> /\ avif.yuvFormat = "YUV400"
        /\ loadgray' = TRUE /\ loadlinear' = (avif.transferCharacteristics = 8)
        /\ profile' = <<GrayProfile(loadlinear')>>
    BY <1>1, Zenon DEF LoadGrayProfile, GrayProfile
  <2>2. ColoursLoaded'
    BY <2>1, Zenon DEF ColoursLoaded
  <2> QED
    BY <2>1, <2>2 DEF ColourInv
<1>2. CASE MakeProfile
  <2>1. /\ pc = "profile" /\ pc' \in {"wrap", "load"} /\ avif' = avif
        /\ avif.icc = <<>> /\ avif.yuvFormat # "YUV400"
        /\ loadgray' = FALSE /\ loadlinear' = (trc_to_load(avif) = 8) /\ profile' = profile
    BY <1>2 DEF MakeProfile
  <2>2. profile' = <<>>
    BY <2>1 DEF HeldInv
  <2>3. ColoursLoaded'
    BY <2>1, <2>2, Zenon DEF ColoursLoaded, trc_to_load
  <2> QED
    BY <2>1, <2>3 DEF ColourInv
<1>3. CASE WrapProfile
  <2>1. /\ pc = "wrap" /\ UNCHANGED <<avif, loadgray, loadlinear>>
        /\ \/ pc' = "close" /\ profile' = <<MadeProfile(avif)>>
           \/ pc' = "wrap failed" /\ profile' = profile
    BY <1>3, Zenon DEF WrapProfile, MadeProfile
  <2>2. /\ avif.icc = <<>> /\ avif.yuvFormat # "YUV400" /\ ColoursLoaded
    BY <2>1 DEF ColourInv
  <2>3. /\ loadgray = FALSE /\ loadlinear = (trc_to_load(avif) = 8)
        /\ profile \in {<<>>, <<MadeProfile(avif)>>}
    BY <2>2, Zenon DEF ColoursLoaded
  <2>4. avif' = avif /\ loadgray' = loadgray /\ loadlinear' = loadlinear
        /\ profile' \in {<<>>, <<MadeProfile(avif)>>}
    BY <2>1, <2>3, Zenon
  <2>5. /\ MadeProfile(avif)' = MadeProfile(avif) /\ (trc_to_load(avif) = 8)' = (trc_to_load(avif) = 8)
    BY <2>4, Zenon DEF MadeProfile, trc_to_load, primaries_to_load
  <2>6. ColoursLoaded'
    BY <2>2, <2>3, <2>4, <2>5, Zenon DEF ColoursLoaded
  <2> QED
    BY <2>1, <2>2, <2>6 DEF ColourInv
<1> QED
  BY <1>1, <1>2, <1>3

(* ... and the loops that read the pixels by it.                              *)
LEMMA PixelsRead ==
    ASSUME ColourInv, LoadGray \/ LoadColour, loadgray \in BOOLEAN
    PROVE  ColourInv'
<1>1. /\ pc = "load" /\ pc' = "insert" /\ ColourFrame
      /\ image' = <<NewImage(IF loadgray THEN "GRAY" ELSE "RGB")>>
      /\ pixels' = PixelsLoaded
  BY Zenon DEF LoadGray, LoadColour, Continue, ColourFrame, PixelsLoaded
<1>2. ColoursLoaded'
  BY <1>1 DEF ColourInv, ColoursLoaded, ColourFrame
<1>3. /\ (NewImage(IF loadgray THEN "GRAY" ELSE "RGB"))' = NewImage(IF loadgray THEN "GRAY" ELSE "RGB")
      /\ PixelsLoaded' = PixelsLoaded
  BY <1>1, Zenon DEF ColourFrame, NewImage, PixelsLoaded, ConvertsToRGB
<1> QED
  BY <1>1, <1>2, <1>3 DEF ColourInv

LEMMA InitColour == Init => ColourInv
BY DEF Init, ColourInv

(* The flags are Boolean: the profile and the colour description decide.      *)
FlagsInv == loadgray \in BOOLEAN /\ loadlinear \in BOOLEAN /\ error \in BOOLEAN

LEMMA NextColour == HeldInv /\ FlagsInv /\ ColourInv /\ [Next]_vars => ColourInv'
<1> SUFFICES ASSUME HeldInv, FlagsInv, ColourInv, [Next]_vars PROVE ColourInv'
  OBVIOUS
<1> USE DEF Return, Continue, work
<1>1. CASE \E f \in Files : Call(f)
  BY <1>1, ColourKept DEF Call, ColourFrame
<1>2. CASE \/ OpenFile \/ OpenFails \/ RefuseEmpty \/ Allocate \/ AllocateFails \/ ReadFile
           \/ ReadFails \/ RefuseType \/ CreateDecoder \/ Parse \/ DecodeFails
  <2>1. ColourFrame /\ pc' \in {"measure", "returned", "read", "aborted", "identify", "parse", "decode"}
    BY <1>2 DEF OpenFile, OpenFails, RefuseEmpty, Allocate, AllocateFails, ReadFile,
              ReadFails, RefuseType, CreateDecoder, Parse, DecodeFails, ColourFrame
  <2> QED
    BY <2>1, ColourKept
<1>3. CASE Decode
  BY <1>3 DEF Decode, ColourInv
<1>4. CASE NewMetadata \/ ReadExif \/ ReadXMP
  <2>1. ColourFrame /\ pc' \in {"exif", "exif failed", "xmp", "xmp failed", "profile"}
    BY <1>4 DEF NewMetadata, ReadExif, ReadXMP, ColourFrame
  <2> QED
    BY <2>1, ColourKept
<1>5. CASE ReportError
  <2>1. /\ ColourFrame
        /\ \/ pc' \in {"xmp", "profile"}
           \/ pc = "icc failed" /\ pc' = "load"
           \/ pc = "wrap failed" /\ pc' = "close"
    BY <1>5 DEF ReportError, AfterFailure, FailurePhases, ColourFrame
  <2> QED
    BY <2>1, ColourKept
<1>6. CASE LoadICC
  BY <1>6, ICCLoaded
<1>7. CASE LoadGrayProfile \/ MakeProfile \/ WrapProfile
  BY <1>7, ProfileMade
<1>8. CASE CloseProfile
  <2>1. ColourFrame /\ pc = "close" /\ pc' = "load"
    BY <1>8 DEF CloseProfile, ColourFrame
  <2> QED
    BY <2>1, ColourKept
<1>9. CASE LoadGray \/ LoadColour
  BY <1>9, PixelsRead DEF FlagsInv
<1>10. CASE InsertLayer \/ Crop \/ Rotate \/ Mirror \/ Finish \/ Kill
  <2>1. pc' \in {"crop", "rotate", "mirror", "finish", "returned", "killed"}
    BY <1>10 DEF InsertLayer, Crop, Rotate, Mirror, Finish, Kill
  <2> QED
    BY <2>1 DEF ColourInv
<1>11. CASE UNCHANGED vars
  BY <1>11 DEF vars, ColourInv, ColoursLoaded, NewImage, PixelsLoaded, ConvertsToRGB
<1> QED
  BY <1>1, <1>2, <1>3, <1>4, <1>5, <1>6, <1>7, <1>8, <1>9, <1>10, <1>11 DEF Next, Step, Done

LEMMA NextFlags == DecodedInv /\ FlagsInv /\ [Next]_vars => FlagsInv'
<1> SUFFICES ASSUME DecodedInv, FlagsInv, [Next]_vars PROVE FlagsInv'
  OBVIOUS
<1> USE DEF Return, Continue, work, FlagsInv
<1>1. CASE \/ OpenFile \/ OpenFails \/ RefuseEmpty \/ Allocate \/ AllocateFails \/ ReadFile
           \/ ReadFails \/ RefuseType \/ CreateDecoder \/ Parse \/ Decode \/ DecodeFails
  BY <1>1 DEF OpenFile, OpenFails, RefuseEmpty, Allocate, AllocateFails, ReadFile,
              ReadFails, RefuseType, CreateDecoder, Parse, Decode, DecodeFails
<1>2. CASE NewMetadata \/ ReadExif \/ ReadXMP \/ ReportError
  <2>1. loadgray' = loadgray /\ loadlinear' = loadlinear
    BY <1>2 DEF NewMetadata, ReadExif, ReadXMP, ReportError
  <2>2. error' \in BOOLEAN
    BY <1>2 DEF NewMetadata, ReadExif, ReadXMP, ReportError
  <2> QED
    BY <2>1, <2>2
<1>3. CASE LoadICC
  <2>1. avif.icc \in Seq(Profile) /\ avif.icc # <<>>
    BY <1>3, DecodedTyped DEF LoadICC, Decoded, Decoding
  <2>2. avif.icc[1].linear \in BOOLEAN
    <3>1. avif.icc[1] \in Profile
      BY <2>1
    <3> QED
      BY <3>1 DEF Profile
  <2>3. CASE avif.icc[1].kind = "broken"
    <3>1. error' = TRUE /\ loadgray' = FALSE /\ loadlinear' = FALSE
      BY <1>3, <2>3, Zenon DEF LoadICC
    <3> QED
      BY <3>1
  <2>4. CASE avif.icc[1].kind # "broken"
    <3>1. /\ error' = error /\ loadlinear' = avif.icc[1].linear
          /\ loadgray' = (avif.icc[1].kind = "GRAY" /\ avif.matrixCoefficients # 0)
      BY <1>3, <2>4, Zenon DEF LoadICC
    <3> QED
      BY <2>2, <3>1
  <2> QED
    BY <2>3, <2>4
<1>4. CASE LoadGrayProfile
  <2>1. error' = error /\ loadgray' = TRUE /\ loadlinear' = (avif.transferCharacteristics = 8)
    BY <1>4, Zenon DEF LoadGrayProfile
  <2> QED
    BY <2>1
<1>5. CASE MakeProfile
  <2>1. error' = error /\ loadgray' = FALSE /\ loadlinear' = (trc_to_load(avif) = 8)
    BY <1>5, Zenon DEF MakeProfile
  <2> QED
    BY <2>1
<1>6. CASE WrapProfile \/ CloseProfile
  <2>1. loadgray' = loadgray /\ loadlinear' = loadlinear /\ error' \in {error, TRUE}
    BY <1>6, Zenon DEF WrapProfile, CloseProfile
  <2> QED
    BY <2>1
<1>7. CASE LoadGray \/ LoadColour \/ InsertLayer \/ Crop \/ Rotate \/ Mirror \/ Finish
  <2>1. loadgray' = loadgray /\ loadlinear' = loadlinear /\ error' = error
    BY <1>7, Zenon DEF LoadGray, LoadColour, InsertLayer, Crop, Rotate, Mirror, Finish
  <2> QED
    BY <2>1
<1>8. CASE Kill \/ \E f \in Files : Call(f)
  BY <1>8 DEF Kill, Call
<1>9. CASE UNCHANGED vars
  BY <1>9 DEF vars
<1> QED
  BY <1>1, <1>2, <1>3, <1>4, <1>5, <1>6, <1>7, <1>8, <1>9 DEF Next, Step, Done

------------------------------------------------------------------------------
(* The inserted layer is an image the file describes.                         *)
ImageOf(base, bits, linear, prof, alpha, content) ==
    [base |-> base, bits |-> bits, linear |-> linear, profile |-> prof,
     alpha |-> alpha, content |-> content]

LEMMA ImageDescribed ==
    ASSUME NEW f, NEW base, NEW bits, NEW linear, NEW prof, NEW alpha, NEW content,
           base = IF GrayIn(SourceOf(f)[1]) THEN "GRAY" ELSE "RGB",
           bits = IF SourceOf(f)[1].colour.depth = 8 THEN 8 ELSE 16,
           linear = LinearIn(SourceOf(f)[1]),
           prof \in ProfilesOf(SourceOf(f)[1], CICP(SourceOf(f)[1])),
           alpha = (SourceOf(f)[1].alpha # <<>>),
           content \in ContentsOf(SourceOf(f)[1], CICP(SourceOf(f)[1])),
           prof # <<>> => prof[1].kind = base /\ prof[1].linear = linear
    PROVE  ImageOf(base, bits, linear, prof, alpha, content) \in DescribedBy(f)
<1> DEFINE source   == SourceOf(f)[1]
           im       == ImageOf(base, bits, linear, prof, alpha, content)
           bases    == {IF GrayIn(source) THEN "GRAY" ELSE "RGB"}
           depths   == {IF source.colour.depth = 8 THEN 8 ELSE 16}
           linears  == {LinearIn(source)}
           profiles == ProfilesOf(source, CICP(source))
           alphas   == {source.alpha # <<>>}
           contents == ContentsOf(source, CICP(source))
<1>1. im.profile = prof /\ im.base = base /\ im.linear = linear
  BY DEF ImageOf
<1>2. base \in bases /\ bits \in depths
  OBVIOUS
<1>3. linear \in linears /\ alpha \in alphas
  BY Zenon
<1>4. prof \in profiles /\ content \in contents
  OBVIOUS
<1>5. DescribedBy(f) =
        {d \in [base : bases, bits : depths, linear : linears, profile : profiles,
                alpha : alphas, content : contents] :
            d.profile # <<>> => d.profile[1].kind = d.base /\ d.profile[1].linear = d.linear}
  BY Zenon DEF DescribedBy
<1> HIDE DEF bases, depths, linears, profiles, alphas, contents
<1>6. im \in [base : bases, bits : depths, linear : linears, profile : profiles,
              alpha : alphas, content : contents]
  BY <1>2, <1>3, <1>4 DEF ImageOf
<1>7. im.profile # <<>> => im.profile[1].kind = im.base /\ im.profile[1].linear = im.linear
  BY <1>1, Zenon
<1> QED
  BY <1>5, <1>6, <1>7, Zenon

(* What the insertion makes of the loaded image.                              *)
LoadedAs   == IF loadgray THEN "GRAY" ELSE "RGB"
KeptProfile == IF profile # <<>> /\ profile[1].kind = LoadedAs THEN profile ELSE <<>>

LEMMA LayerInserted ==
    ASSUME ColourInv, InsertLayer
    PROVE  /\ DOMAIN image'[1] = ImageFields
           /\ Delivered(image'[1])
                = ImageOf(BaseAfter(profile, LoadedAs), IF avif.depth > 8 THEN 16 ELSE 8,
                          loadlinear, KeptProfile, avif.alphaPlane, PixelsLoaded)
           /\ image'[1].width = avif.width /\ image'[1].height = avif.height
           /\ image'[1].at = [p \in Area(avif.width, avif.height) |-> p]
<1> DEFINE new  == NewImage(LoadedAs)
           done == [new EXCEPT !.content = pixels, !.base = BaseAfter(profile, @)]
           bits == IF avif.depth > 8 THEN 16 ELSE 8
           at   == [p \in Area(avif.width, avif.height) |-> p]
<1>1. image = <<new>> /\ pixels = PixelsLoaded
  BY DEF InsertLayer, ColourInv, LoadedAs
<1>2. image' = <<done>>
  BY <1>1 DEF InsertLayer
<1>3. new = [base |-> LoadedAs, bits |-> bits, linear |-> loadlinear, profile |-> KeptProfile,
             alpha |-> avif.alphaPlane, content |-> "none", width |-> avif.width,
             height |-> avif.height, at |-> at]
  BY Zenon DEF NewImage, KeptProfile, Area
<1> HIDE DEF new, bits, at
<1>4. /\ DOMAIN done = ImageFields
      /\ done.base = BaseAfter(profile, LoadedAs) /\ done.content = pixels
  BY <1>3 DEF ImageFields
<1>5. /\ done.bits = bits /\ done.linear = loadlinear /\ done.profile = KeptProfile
      /\ done.alpha = avif.alphaPlane
      /\ done.width = avif.width /\ done.height = avif.height /\ done.at = at
  BY <1>3
<1> HIDE DEF done
<1>6. image'[1] = done
  BY <1>2
<1> QED
  BY <1>1, <1>4, <1>5, <1>6 DEF Delivered, ImageOf, bits, at

LEMMA ProfileDescribed ==
    ASSUME DecodedInv, ColourInv, pc = "insert", loadgray \in BOOLEAN
    PROVE  LET source == SourceOf(file[1])[1]
           IN  /\ BaseAfter(profile, LoadedAs) = IF GrayIn(source) THEN "GRAY" ELSE "RGB"
               /\ loadlinear = LinearIn(source)
               /\ KeptProfile \in ProfilesOf(source, CICP(source))
               /\ KeptProfile # <<>> => /\ KeptProfile[1].kind = BaseAfter(profile, LoadedAs)
                                        /\ KeptProfile[1].linear = LinearIn(source)
               /\ loadgray => GrayIn(source)
<1> DEFINE source == SourceOf(file[1])[1]
           cicp   == CICP(source)
<1>1. source \in Source /\ avif = DecodedImage(file[1])
  BY DecodedTyped DEF Decoded, Decoding
<1>2. /\ avif.icc = source.icc /\ avif.yuvFormat = source.colour.yuvFormat
      /\ avif.transferCharacteristics = cicp.transfer /\ avif.colorPrimaries = cicp.primaries
      /\ avif.matrixCoefficients = cicp.matrix
  BY <1>1 DEF DecodedImage
<1>3. ColoursLoaded
  BY DEF ColourInv
<1> HIDE DEF source, cicp
<1>4. CASE source.icc = <<>> /\ source.colour.yuvFormat = "YUV400"
  <2>1. /\ loadgray = TRUE /\ loadlinear = (cicp.transfer = 8)
        /\ profile = <<GrayProfile(cicp.transfer = 8)>>
    BY <1>2, <1>3, <1>4, Zenon DEF ColoursLoaded
  <2>2. GrayProfile(cicp.transfer = 8).kind = "GRAY"
        /\ GrayProfile(cicp.transfer = 8).linear = (cicp.transfer = 8)
    BY DEF GrayProfile
  <2>3. LoadedAs = "GRAY" /\ KeptProfile = profile /\ BaseAfter(profile, LoadedAs) = "GRAY"
    BY <2>1, <2>2 DEF LoadedAs, KeptProfile, BaseAfter
  <2>4. GrayIn(source) = TRUE /\ LinearIn(source) = (cicp.transfer = 8)
    BY <1>4, Zenon DEF GrayIn, LinearIn, cicp
  <2>5. profile \in ProfilesOf(source, cicp)
    BY <1>4, <2>1, Zenon DEF ProfilesOf, GrayProfile
  <2> QED
    BY <2>1, <2>2, <2>3, <2>4, <2>5, SingletonNotEmpty, Zenon DEF source, cicp
<1>5. CASE source.icc = <<>> /\ source.colour.yuvFormat # "YUV400"
  <2>1. /\ loadgray = FALSE /\ loadlinear = (trc_to_load(avif) = 8)
        /\ profile \in {<<>>, <<MadeProfile(avif)>>}
    BY <1>2, <1>3, <1>5, Zenon DEF ColoursLoaded
  <2>2. (trc_to_load(avif) = 8) = (cicp.transfer = 8)
    BY <1>2 DEF trc_to_load
  <2>3. MadeProfile(avif).kind = "RGB" /\ MadeProfile(avif).linear = (trc_to_load(avif) = 8)
    BY DEF MadeProfile
  <2>4. LoadedAs = "RGB" /\ KeptProfile = profile /\ BaseAfter(profile, LoadedAs) = "RGB"
    BY <2>1, <2>3 DEF LoadedAs, KeptProfile, BaseAfter
  <2>5. GrayIn(source) = FALSE /\ LinearIn(source) = (cicp.transfer = 8)
    BY <1>5, Zenon DEF GrayIn, LinearIn, cicp
  <2>6. profile \in ProfilesOf(source, cicp)
    <3> DEFINE curve == IF cicp.transfer \in {0, 2} THEN 13 ELSE cicp.transfer
               made  == [kind |-> "RGB", linear |-> curve = 8, transfer |-> curve,
                         primaries |-> IF cicp.primaries \in KnownPrimaries
                                       THEN cicp.primaries ELSE 1]
    <3>1. trc_to_load(avif) = curve
      BY <1>2 DEF trc_to_load
    <3>2. primaries_to_load(avif) = IF cicp.primaries \in KnownPrimaries THEN cicp.primaries ELSE 1
      BY <1>2, KnownPrimariesAssumption DEF primaries_to_load
    <3>3. MadeProfile(avif) = made
      BY <3>1, <3>2 DEF MadeProfile
    <3>4. ProfilesOf(source, cicp) = {<<>>, <<made>>}
      BY <1>5, Zenon DEF ProfilesOf
    <3> QED
      BY <2>1, <3>3, <3>4, Zenon
  <2>7. profile # <<>> => profile[1].kind = "RGB" /\ profile[1].linear = (cicp.transfer = 8)
    BY <2>1, <2>2, <2>3, SingletonNotEmpty, Zenon
  <2> QED
    BY <2>1, <2>2, <2>4, <2>5, <2>6, <2>7, Zenon DEF source, cicp
<1>6. CASE source.icc # <<>> /\ source.icc[1].kind = "broken"
  <2>1. profile = <<>> /\ loadgray = FALSE /\ loadlinear = FALSE
    BY <1>2, <1>3, <1>6, Zenon DEF ColoursLoaded
  <2>2. KeptProfile = <<>> /\ BaseAfter(profile, LoadedAs) = "RGB"
    BY <2>1 DEF LoadedAs, KeptProfile, BaseAfter
  <2>3. GrayIn(source) = FALSE /\ LinearIn(source) = FALSE
    BY <1>6, Zenon DEF GrayIn, LinearIn
  <2>4. <<>> \in ProfilesOf(source, cicp)
    BY <1>6, Zenon DEF ProfilesOf
  <2> QED
    BY <2>1, <2>2, <2>3, <2>4, Zenon DEF source, cicp
<1>7. CASE source.icc # <<>> /\ source.icc[1].kind # "broken"
  <2> DEFINE icc == source.icc[1]
  <2>1. /\ profile = <<IccProfile(icc)>> /\ loadlinear = icc.linear
        /\ loadgray = (icc.kind = "GRAY" /\ avif.matrixCoefficients # 0)
    BY <1>2, <1>3, <1>7, Zenon DEF ColoursLoaded
  <2>2. icc.linear \in BOOLEAN
    <3>1. source.icc \in Seq(Profile)
      BY <1>1 DEF source, Source
    <3>2. icc \in Profile
      BY <1>7, <3>1
    <3> QED
      BY <3>2 DEF Profile
  <2>3. IccProfile(icc).kind = icc.kind /\ IccProfile(icc).linear = icc.linear
    BY DEF IccProfile
  <2>4. profile # <<>> /\ profile[1].kind = icc.kind /\ profile[1].linear = icc.linear
    BY <2>1, <2>3, SingletonNotEmpty, Zenon
  <2>5. BaseAfter(profile, LoadedAs) = IF icc.kind = "GRAY" THEN "GRAY" ELSE "RGB"
    BY <2>1, <2>4 DEF BaseAfter, LoadedAs
  <2>6. KeptProfile # <<>> => KeptProfile = profile /\ profile[1].kind = BaseAfter(profile, LoadedAs)
    BY <2>1, <2>4, <2>5 DEF KeptProfile, LoadedAs
  <2>7. KeptProfile \in {<<>>, profile}
    BY DEF KeptProfile
  <2>8. GrayIn(source) = (icc.kind = "GRAY") /\ LinearIn(source) = icc.linear
    BY <1>7, <2>2, Zenon DEF GrayIn, LinearIn
  <2>9. ProfilesOf(source, cicp) = {<<>>} \cup {<<IccProfile(icc)>>}
    BY <1>7, Zenon DEF ProfilesOf, IccProfile
  <2>10. KeptProfile \in ProfilesOf(source, cicp)
    BY <2>1, <2>7, <2>9, Zenon
  <2>11. loadgray => GrayIn(source)
    BY <2>1, <2>8, Zenon
  <2> QED
    BY <2>1, <2>4, <2>5, <2>6, <2>8, <2>10, <2>11, Zenon DEF source, cicp
<1> QED
  BY <1>4, <1>5, <1>6, <1>7

LEMMA InsertedDescribed ==
    ASSUME DecodedInv, ColourInv, loadgray \in BOOLEAN, InsertLayer
    PROVE  Delivered(image'[1]) \in DescribedBy(file[1])
<1> DEFINE source  == SourceOf(file[1])[1]
           cicp    == CICP(source)
           made    == BaseAfter(profile, LoadedAs)
           bits    == IF avif.depth > 8 THEN 16 ELSE 8
<1>1. pc = "insert"
  BY DEF InsertLayer
<1>2. /\ source \in Source /\ avif = DecodedImage(file[1]) /\ avif.depth \in {8, 10, 12}
  BY <1>1, DecodedTyped DEF Decoded, Decoding
<1>3. /\ avif.yuvFormat = source.colour.yuvFormat /\ avif.depth = source.colour.depth
      /\ avif.matrixCoefficients = cicp.matrix
      /\ avif.alphaPlane = (source.alpha # <<>>)
      /\ avif.alphaPremultiplied = (source.alpha # <<>> /\ source.premultiplied)
  BY <1>2 DEF DecodedImage
<1>4. Delivered(image'[1]) = ImageOf(made, bits, loadlinear, KeptProfile, avif.alphaPlane, PixelsLoaded)
  BY LayerInserted
<1>5. /\ made = IF GrayIn(source) THEN "GRAY" ELSE "RGB"
      /\ loadlinear = LinearIn(source)
      /\ KeptProfile \in ProfilesOf(source, cicp)
      /\ KeptProfile # <<>> => KeptProfile[1].kind = made /\ KeptProfile[1].linear = loadlinear
      /\ loadgray => GrayIn(source)
  BY <1>1, ProfileDescribed
<1>6. bits = IF source.colour.depth = 8 THEN 8 ELSE 16
  BY <1>2, <1>3
<1> HIDE DEF source, cicp, made, bits
<1>7. PixelsLoaded \in ContentsOf(source, cicp)
  <2>1. CASE loadgray
    <3>1. PixelsLoaded = IF avif.alphaPremultiplied THEN "premultiplied" ELSE "straight"
      BY <2>1 DEF PixelsLoaded
    <3> QED
      BY <1>3, <1>5, <2>1, <3>1, Zenon DEF ContentsOf
  <2>2. CASE ~loadgray /\ ConvertsToRGB(avif)
    BY <2>2, Zenon DEF PixelsLoaded, ContentsOf
  <2>3. CASE ~loadgray /\ ~ConvertsToRGB(avif)
    <3>1. cicp.matrix \in Nat
      <4>1. source.nclx \in Seq(Colour) /\ source.header \in AtMostOne(Colour)
        BY <1>2 DEF source, Source
      <4>2. CASE source.nclx # <<>>
        <5>1. source.nclx[1] \in Colour
          BY <4>1, <4>2
        <5> QED
          BY <4>2, <5>1 DEF cicp, CICP, Colour
      <4>3. CASE source.nclx = <<>> /\ source.header # <<>>
        <5>1. source.header[1] \in Colour
          BY <4>1, <4>3, OneElement
        <5> QED
          BY <4>3, <5>1 DEF cicp, CICP, Colour
      <4>4. CASE source.nclx = <<>> /\ source.header = <<>>
        BY <4>4 DEF cicp, CICP, Unspecified
      <4> QED
        BY <4>2, <4>3, <4>4
    <3>2. cicp.matrix \in {0, 3, 8, 10, 11} \/ cicp.matrix >= 13
      BY <1>3, <2>3, <3>1 DEF ConvertsToRGB
    <3>3. PixelsLoaded = "unwritten"
      BY <2>3 DEF PixelsLoaded
    <3> QED
      BY <3>2, <3>3, Zenon DEF ContentsOf
  <2> QED
    BY <2>1, <2>2, <2>3
<1> QED
  BY <1>3, <1>4, <1>5, <1>6, <1>7, ImageDescribed DEF source, cicp

------------------------------------------------------------------------------
(* The transformations change an image's size and its pixels, nothing else.   *)
Resized(im, width, height, at) == [im EXCEPT !.width = width, !.height = height, !.at = at]

LEMMA ResizedFields ==
    ASSUME NEW im, DOMAIN im = ImageFields, NEW width, NEW height, NEW at
    PROVE  LET new == Resized(im, width, height, at)
           IN  /\ DOMAIN new = ImageFields /\ Delivered(new) = Delivered(im)
               /\ new.width = width /\ new.height = height /\ new.at = at
BY DEF Resized, ImageFields, Delivered

LEMMA FlippedFields ==
    ASSUME NEW im, DOMAIN im = ImageFields, NEW mode
    PROVE  LET new == Flipped(im, mode)
           IN  /\ DOMAIN new = ImageFields /\ Delivered(new) = Delivered(im)
               /\ new.width = im.width /\ new.height = im.height
               /\ new.at = [p \in DOMAIN im.at |->
                              IF mode = 0 THEN im.at[<<p[1], im.height - 1 - p[2]>>]
                                          ELSE im.at[<<im.width - 1 - p[1], p[2]>>]]
BY DEF Flipped, ImageFields, Delivered

LEMMA QuarterTurned ==
    ASSUME NEW im, DOMAIN im = ImageFields, NEW w \in Int, NEW h \in Int,
           im.width = w, im.height = h, DOMAIN im.at = Area(w, h)
    PROVE  LET new == QuarterTurn(im)
           IN  /\ DOMAIN new = ImageFields /\ Delivered(new) = Delivered(im)
               /\ new.width = h /\ new.height = w
               /\ DOMAIN new.at = Area(h, w)
               /\ \A p \in Area(h, w) : /\ <<p[2], h - 1 - p[1]>> \in Area(w, h)
                                        /\ new.at[p] = im.at[<<p[2], h - 1 - p[1]>>]
<1> DEFINE at == [p \in Area(h, w) |-> im.at[<<p[2], h - 1 - p[1]>>]]
<1>1. QuarterTurn(im) = Resized(im, h, w, at)
  BY DEF QuarterTurn, Resized, Area
<1>2. \A p \in Area(h, w) : <<p[2], h - 1 - p[1]>> \in Area(w, h)
  BY DEF Area
<1>3. DOMAIN at = Area(h, w) /\ \A p \in Area(h, w) : at[p] = im.at[<<p[2], h - 1 - p[1]>>]
  BY Zenon
<1> HIDE DEF at
<1> QED
  BY <1>1, <1>2, <1>3, ResizedFields

(* A crop shows its rectangle, a turn and a flip what the boxes mean by them. *)
LEMMA CropShows ==
    ASSUME NEW im, DOMAIN im = ImageFields, Shows(im, <<>>, <<>>, Whole),
           NEW r, r.x \in Int, r.y \in Int, r.width \in Int, r.height \in Int,
           Inside(r, avif.width, avif.height), avif.width \in Int, avif.height \in Int
    PROVE  LET new == Cropped(im, r)
           IN  /\ DOMAIN new = ImageFields /\ Delivered(new) = Delivered(im)
               /\ Shows(new, <<>>, <<>>, r)
<1> DEFINE at == [p \in Area(r.width, r.height) |-> im.at[<<p[1] + r.x, p[2] + r.y>>]]
           new == Cropped(im, r)
<1>1. /\ im.width = avif.width /\ im.height = avif.height
      /\ \A p \in Area(avif.width, avif.height) : im.at[p] = <<p[1] + 0, p[2] + 0>>
  BY DEF Shows, Whole, Unmirrored, Unturned
<1>2. new = Resized(im, r.width, r.height, at)
  BY <1>1 DEF Cropped, Resized, Area
<1>3. \A p \in Area(r.width, r.height) :
         /\ <<p[1] + r.x, p[2] + r.y>> \in Area(avif.width, avif.height)
         /\ p[1] \in Int /\ p[2] \in Int
  <2> SUFFICES ASSUME NEW p \in Area(r.width, r.height)
               PROVE  /\ p[1] \in Int /\ p[2] \in Int
                      /\ p[1] + r.x \in 0..(avif.width - 1)
                      /\ p[2] + r.y \in 0..(avif.height - 1)
    BY DEF Area
  <2>1. p[1] \in 0..(r.width - 1) /\ p[2] \in 0..(r.height - 1)
    BY DEF Area
  <2>2. /\ 0 <= r.x /\ r.x + r.width <= avif.width
        /\ 0 <= r.y /\ r.y + r.height <= avif.height
    BY DEF Inside
  <2>3. \A a, x, side, size \in Int : a \in 0..(side - 1) /\ 0 <= x /\ x + side <= size
           => a \in Int /\ a + x \in 0..(size - 1)
    OBVIOUS
  <2>4. p[1] \in Int /\ p[2] \in Int
    BY <2>1
  <2> QED
    BY <2>1, <2>2, <2>3, <2>4
<1>4. \A p \in Area(r.width, r.height) : at[p] = <<p[1] + r.x, p[2] + r.y>>
  BY <1>1, <1>3
<1>5. DOMAIN at = Area(r.width, r.height)
  OBVIOUS
<1> HIDE DEF at, new
<1>6. /\ DOMAIN new = ImageFields /\ Delivered(new) = Delivered(im)
      /\ new.width = r.width /\ new.height = r.height /\ new.at = at
  BY <1>2, ResizedFields
<1>7. Shows(new, <<>>, <<>>, r)
  BY <1>4, <1>5, <1>6 DEF Shows, Unmirrored, Unturned
<1> QED
  BY <1>6, <1>7 DEF new

LEMMA TurnShows ==
    ASSUME NEW im, DOMAIN im = ImageFields, NEW rect, Shows(im, <<>>, <<>>, rect),
           rect.width \in Int, rect.height \in Int, NEW angle \in 0..3
    PROVE  LET new == Turned(im, TurnsFor(angle))
           IN  /\ DOMAIN new = ImageFields /\ Delivered(new) = Delivered(im)
               /\ Shows(new, <<angle>>, <<>>, rect)
<1> DEFINE w    == rect.width
           h    == rect.height
           im1  == QuarterTurn(im)
           im2  == QuarterTurn(im1)
           im3  == QuarterTurn(im2)
<1>1. /\ im.width = w /\ im.height = h /\ DOMAIN im.at = Area(w, h)
      /\ \A p \in Area(w, h) : im.at[p] = <<p[1] + rect.x, p[2] + rect.y>>
  BY DEF Shows, Unmirrored, Unturned
<1> HIDE DEF w, h, im1, im2, im3
<1>2. w \in Int /\ h \in Int
  BY DEF w, h
<1>3. /\ DOMAIN im1 = ImageFields /\ Delivered(im1) = Delivered(im)
      /\ im1.width = h /\ im1.height = w /\ DOMAIN im1.at = Area(h, w)
      /\ \A p \in Area(h, w) : /\ <<p[2], h - 1 - p[1]>> \in Area(w, h)
                               /\ im1.at[p] = im.at[<<p[2], h - 1 - p[1]>>]
  BY <1>1, <1>2, QuarterTurned DEF im1
<1>4. /\ DOMAIN im2 = ImageFields /\ Delivered(im2) = Delivered(im1)
      /\ im2.width = w /\ im2.height = h /\ DOMAIN im2.at = Area(w, h)
      /\ \A p \in Area(w, h) : /\ <<p[2], w - 1 - p[1]>> \in Area(h, w)
                               /\ im2.at[p] = im1.at[<<p[2], w - 1 - p[1]>>]
  BY <1>2, <1>3, QuarterTurned DEF im2
<1>5. /\ DOMAIN im3 = ImageFields /\ Delivered(im3) = Delivered(im2)
      /\ im3.width = h /\ im3.height = w /\ DOMAIN im3.at = Area(h, w)
      /\ \A p \in Area(h, w) : /\ <<p[2], h - 1 - p[1]>> \in Area(w, h)
                               /\ im3.at[p] = im2.at[<<p[2], h - 1 - p[1]>>]
  BY <1>2, <1>4, QuarterTurned DEF im3
<1>6. \A p \in Area(h, w) : im1.at[p] = <<p[2] + rect.x, (h - 1 - p[1]) + rect.y>>
  BY <1>1, <1>3
<1>7. \A p \in Area(w, h) : im2.at[p] = <<(w - 1 - p[1]) + rect.x, (h - 1 - p[2]) + rect.y>>
  BY <1>4, <1>6
<1>8. \A p \in Area(h, w) : im3.at[p] = <<(w - 1 - p[2]) + rect.x, p[1] + rect.y>>
  <2> SUFFICES ASSUME NEW p \in Area(h, w)
               PROVE  im3.at[p] = <<(w - 1 - p[2]) + rect.x, p[1] + rect.y>>
    OBVIOUS
  <2>1. p[1] \in Int /\ h - 1 - (h - 1 - p[1]) = p[1]
    BY <1>2 DEF Area
  <2> QED
    BY <1>5, <1>7, <2>1
<1>9. CASE angle = 0
  <2>1. Turned(im, TurnsFor(angle)) = im
    BY <1>9 DEF Turned, TurnsFor
  <2>2. Shows(im, <<angle>>, <<>>, rect)
    BY <1>1, <1>9 DEF Shows, Unmirrored, Unturned, w, h
  <2> QED
    BY <2>1, <2>2
<1>10. CASE angle = 3
  <2>1. Turned(im, TurnsFor(angle)) = im1
    BY <1>10 DEF Turned, TurnsFor, im1
  <2>2. Shows(im1, <<angle>>, <<>>, rect)
    BY <1>3, <1>6, <1>10 DEF Shows, Unmirrored, Unturned, w, h
  <2> QED
    BY <1>3, <2>1, <2>2
<1>11. CASE angle = 2
  <2>1. Turned(im, TurnsFor(angle)) = im2
    BY <1>11 DEF Turned, TurnsFor, im1, im2
  <2>2. Shows(im2, <<angle>>, <<>>, rect)
    BY <1>4, <1>7, <1>11 DEF Shows, Unmirrored, Unturned, w, h
  <2> QED
    BY <1>3, <1>4, <2>1, <2>2
<1>12. CASE angle = 1
  <2>1. Turned(im, TurnsFor(angle)) = im3
    BY <1>12 DEF Turned, TurnsFor, im1, im2, im3
  <2>2. Shows(im3, <<angle>>, <<>>, rect)
    BY <1>5, <1>8, <1>12 DEF Shows, Unmirrored, Unturned, w, h
  <2> QED
    BY <1>3, <1>4, <1>5, <2>1, <2>2
<1> QED
  BY <1>9, <1>10, <1>11, <1>12

LEMMA FlipShows ==
    ASSUME NEW im, DOMAIN im = ImageFields, NEW rect, NEW irot, Shows(im, irot, <<>>, rect),
           im.width \in Int, im.height \in Int, NEW mode \in 0..1
    PROVE  LET new == Flipped(im, mode)
           IN  /\ DOMAIN new = ImageFields /\ Delivered(new) = Delivered(im)
               /\ Shows(new, irot, <<mode>>, rect)
<1> DEFINE w    == im.width
           h    == im.height
           new  == Flipped(im, mode)
           from(p) == Unmirrored(p, <<mode>>, w, h)
           at   == [p \in DOMAIN im.at |-> IF mode = 0 THEN im.at[<<p[1], h - 1 - p[2]>>]
                                                       ELSE im.at[<<w - 1 - p[1], p[2]>>]]
<1>1. /\ DOMAIN new = ImageFields /\ Delivered(new) = Delivered(im)
      /\ new.width = w /\ new.height = h /\ new.at = at
  BY FlippedFields
<1>2. /\ DOMAIN im.at = Area(w, h)
      /\ \A p \in Area(w, h) :
            LET q == Unturned(p, irot, rect.width, rect.height)
            IN  im.at[p] = <<q[1] + rect.x, q[2] + rect.y>>
  BY DEF Shows, Unmirrored
<1>3. \A p \in Area(w, h) : from(p) \in Area(w, h) /\ at[p] = im.at[from(p)]
  BY <1>2 DEF Area, Unmirrored
<1>4. \A p \in Area(w, h) :
            LET q == Unturned(from(p), irot, rect.width, rect.height)
            IN  at[p] = <<q[1] + rect.x, q[2] + rect.y>>
  BY <1>2, <1>3, Zenon
<1>5. DOMAIN at = Area(w, h)
  BY <1>2
<1> HIDE DEF at, new
<1>6. Shows(new, irot, <<mode>>, rect)
  BY <1>1, <1>4, <1>5 DEF Shows
<1> QED
  BY <1>1, <1>6 DEF new

(* The rectangles a clean aperture may stand for lie inside the image.        *)
RectIn(rect, width, height) ==
    /\ rect.x \in Int /\ rect.y \in Int /\ rect.width \in Side /\ rect.height \in Side
    /\ Inside(rect, width, height)

LEMMA CropTyped ==
    ASSUME NEW box, NEW width \in Side, NEW height \in Side,
           NEW crop \in Crops(box, width, height), crop # <<>>
    PROVE  RectIn(crop[1], width, height)
<1>1. PICK w \in NewSide(box.horizontal, width), h \in NewSide(box.vertical, height) :
        /\ w > 0 /\ h > 0
        /\ \E x \in NewOffset(box.horizontal, width, w), y \in NewOffset(box.vertical, height, h) :
              crop = <<[x |-> x, y |-> y, width |-> w, height |-> h]>>
  BY DEF Crops
<1>2. w \in Int /\ w <= width /\ h \in Int /\ h <= height
  BY <1>1, NewSideFits
<1>3. PICK x \in NewOffset(box.horizontal, width, w), y \in NewOffset(box.vertical, height, h) :
        crop = <<[x |-> x, y |-> y, width |-> w, height |-> h]>>
  BY <1>1
<1>4. /\ x \in Int /\ y \in Int
  BY <1>2, NewOffsetFits
<1>5. w \in Side /\ h \in Side
  BY <1>1, <1>2, WordSizeAssumption DEF Side, IntMax
<1>6. /\ crop[1].x = x /\ crop[1].y = y /\ crop[1].width = w /\ crop[1].height = h
  BY <1>3
<1>7. Inside(crop[1], width, height)
  BY CropsFit
<1> QED
  BY <1>4, <1>5, <1>6, <1>7 DEF RectIn

LEMMA RectsTyped ==
    ASSUME avif.width \in Side, avif.height \in Side, NEW rect \in Rects
    PROVE  RectIn(rect, avif.width, avif.height)
<1>1. CASE rect = Whole
  BY <1>1, WordSizeAssumption DEF RectIn, Whole, Inside, Side, IntMax
<1>2. CASE avif.clap # <<>> /\ \E crop \in Crops(avif.clap[1], avif.width, avif.height) :
                                   crop # <<>> /\ rect = crop[1]
  BY <1>2, CropTyped
<1> QED
  BY <1>1, <1>2 DEF Rects

------------------------------------------------------------------------------
(* The four phases that make and transform the image.                         *)
LEMMA InsertKeeps ==
    ASSUME PhaseInv, DecodedInv, FlagsInv, ColourInv, InsertLayer
    PROVE  ImageInv' /\ DisplayInv'
<1>1. /\ pc = "insert" /\ pc' = "crop" /\ file' = file /\ avif' = avif
      /\ result' = result /\ result = "none"
      /\ final_size' = <<avif.width, avif.height>>
  BY DEF InsertLayer, Continue, PhaseInv
<1>2. avif.width \in Side /\ avif.height \in Side
  BY <1>1, DecodedTyped DEF Decoded, Decoding
<1>3. /\ DOMAIN image'[1] = ImageFields
      /\ image'[1].width = avif.width /\ image'[1].height = avif.height
      /\ image'[1].at = [p \in Area(avif.width, avif.height) |-> p]
  BY LayerInserted
<1>4. Delivered(image'[1]) \in DescribedBy(file[1])
  BY InsertedDescribed DEF FlagsInv
<1>5. Shows(image'[1], <<>>, <<>>, Whole)
  <2>1. \A p \in Area(avif.width, avif.height) : p = <<p[1] + 0, p[2] + 0>>
    BY <1>2 DEF Area, Side
  <2>2. Whole.width = avif.width /\ Whole.height = avif.height /\ Whole.x = 0 /\ Whole.y = 0
    BY DEF Whole
  <2> QED
    BY <1>3, <2>1, <2>2 DEF Shows, Unmirrored, Unturned
<1>6. Shows(image'[1], <<>>, <<>>, Whole') /\ avif'.width \in Side /\ avif'.height \in Side
  BY <1>1, <1>2, <1>5 DEF Whole
<1>7. DescribedBy(file[1])' = DescribedBy(file[1])
  BY <1>1
<1>8. ImageInv'
  BY <1>1, <1>3, <1>4, <1>7 DEF ImageInv
<1>9. DisplayInv'
  BY <1>1, <1>2, <1>3, <1>6 DEF DisplayInv
<1> QED
  BY <1>8, <1>9

(* What a transformation owes the invariants.                                 *)
LEMMA TransformKeeps ==
    ASSUME PhaseInv, ImageInv, DisplayInv, UNCHANGED <<file, avif, result>>,
           pc \in {"crop", "rotate", "mirror"}, pc' \in {"rotate", "mirror", "finish"},
           NEW im, image'[1] = im, DOMAIN im = ImageFields,
           Delivered(im) = Delivered(image[1]),
           im.width \in Side, im.height \in Side, final_size' = <<im.width, im.height>>,
           pc' = "rotate" => \E rect \in Rects : Shows(im, <<>>, <<>>, rect),
           pc' = "mirror" => \E rect \in Rects : Shows(im, avif.irot, <<>>, rect),
           pc' = "finish" => \E rect \in Rects : Shows(im, avif.irot, avif.imir, rect)
    PROVE  ImageInv' /\ DisplayInv'
<1>1. result' = "none" /\ image'[1] = im
  BY DEF PhaseInv
<1>2. Delivered(image[1]) \in DescribedBy(file[1])
  BY DEF ImageInv, Delivering, Transforming
<1>3. DescribedBy(file[1])' = DescribedBy(file[1]) /\ Rects' = Rects
  BY DEF Rects, Whole
<1>4. ImageInv'
  BY <1>1, <1>2, <1>3 DEF ImageInv
<1>5. DisplayInv'
  BY <1>1, <1>3 DEF DisplayInv
<1> QED
  BY <1>4, <1>5

LEMMA CropKeeps ==
    ASSUME PhaseInv, DecodedInv, ImageInv, DisplayInv, Crop
    PROVE  ImageInv' /\ DisplayInv'
<1>1. pc = "crop" /\ pc' = "rotate" /\ UNCHANGED <<file, avif, result>>
  BY DEF Crop, Continue
<1>2. avif.width \in Side /\ avif.height \in Side
  BY <1>1, DecodedTyped DEF Decoded, Decoding
<1>3. /\ DOMAIN image[1] = ImageFields /\ Shows(image[1], <<>>, <<>>, Whole)
      /\ final_size = <<image[1].width, image[1].height>>
      /\ image[1].width \in Side /\ image[1].height \in Side
  BY <1>1 DEF ImageInv, DisplayInv, Delivering, Transforming
<1>4. CASE /\ UNCHANGED <<image, final_size>>
           /\ avif.clap # <<>> => <<>> \in Crops(avif.clap[1], avif.width, avif.height)
  <2>1. Whole \in Rects
    BY <1>4 DEF Rects
  <2> QED
    BY <1>1, <1>3, <1>4, <2>1, TransformKeeps
<1>5. CASE /\ avif.clap # <<>>
           /\ \E crop \in Crops(avif.clap[1], avif.width, avif.height) :
                /\ crop # <<>>
                /\ image' = <<Cropped(image[1], crop[1])>>
                /\ final_size' = <<crop[1].width, crop[1].height>>
  <2>1. PICK crop \in Crops(avif.clap[1], avif.width, avif.height) :
                /\ crop # <<>>
                /\ image' = <<Cropped(image[1], crop[1])>>
                /\ final_size' = <<crop[1].width, crop[1].height>>
    BY <1>5
  <2> DEFINE im == Cropped(image[1], crop[1])
  <2>2. crop[1] \in Rects
    BY <1>5, <2>1 DEF Rects
  <2>3. RectIn(crop[1], avif.width, avif.height)
    BY <1>2, <2>1, CropTyped
  <2>4. /\ DOMAIN im = ImageFields /\ Delivered(im) = Delivered(image[1])
        /\ Shows(im, <<>>, <<>>, crop[1])
    BY <1>2, <1>3, <2>3, CropShows DEF RectIn, Side
  <2>5. im.width = crop[1].width /\ im.height = crop[1].height
    BY <2>4 DEF Shows
  <2> HIDE DEF im
  <2>6. image'[1] = im
    BY <2>1 DEF im
  <2> QED
    BY <1>1, <2>1, <2>2, <2>3, <2>4, <2>5, <2>6, TransformKeeps DEF RectIn
<1> QED
  BY <1>4, <1>5, Zenon DEF Crop

LEMMA RotateKeeps ==
    ASSUME PhaseInv, DecodedInv, ImageInv, DisplayInv, Rotate
    PROVE  ImageInv' /\ DisplayInv'
<1>1. pc = "rotate" /\ pc' = "mirror" /\ UNCHANGED <<file, avif, result>>
  BY DEF Rotate, Continue
<1>2. avif.width \in Side /\ avif.height \in Side /\ avif.irot \in AtMostOne(0..3)
  BY <1>1, DecodedTyped DEF Decoded, Decoding
<1>3. /\ DOMAIN image[1] = ImageFields
      /\ final_size = <<image[1].width, image[1].height>>
      /\ image[1].width \in Side /\ image[1].height \in Side
  BY <1>1 DEF ImageInv, DisplayInv, Delivering, Transforming
<1>4. PICK rect \in Rects : Shows(image[1], <<>>, <<>>, rect)
  BY <1>1 DEF DisplayInv
<1>5. RectIn(rect, avif.width, avif.height)
  BY <1>2, RectsTyped
<1>6. CASE avif.irot = <<>>
  <2>1. UNCHANGED <<image, final_size>>
    BY <1>6 DEF Rotate
  <2> QED
    BY <1>1, <1>3, <1>4, <1>6, <2>1, TransformKeeps
<1>7. CASE avif.irot # <<>>
  <2> DEFINE angle == avif.irot[1]
             im    == Turned(image[1], TurnsFor(angle))
  <2>1. angle \in 0..3 /\ avif.irot = <<angle>>
    BY <1>2, <1>7, OneElement DEF AtMostOne
  <2>2. /\ DOMAIN im = ImageFields /\ Delivered(im) = Delivered(image[1])
        /\ Shows(im, <<angle>>, <<>>, rect)
    BY <1>3, <1>4, <1>5, <2>1, TurnShows DEF RectIn, Side
  <2>3. /\ image'[1] = im
        /\ final_size' = IF angle \in {1, 3} THEN <<final_size[2], final_size[1]>> ELSE final_size
    BY <1>7, SingletonNotEmpty, Zenon DEF Rotate
  <2> HIDE DEF im
  <2>4. image[1].width = rect.width /\ image[1].height = rect.height
    BY <1>4 DEF Shows
  <2>5. final_size' = <<im.width, im.height>>
    BY <1>3, <2>2, <2>3, <2>4 DEF Shows
  <2>6. im.width \in Side /\ im.height \in Side
    BY <1>5, <2>2 DEF Shows, RectIn
  <2> QED
    BY <1>1, <1>3, <2>1, <2>2, <2>3, <2>5, <2>6, TransformKeeps
<1> QED
  BY <1>6, <1>7

LEMMA MirrorKeeps ==
    ASSUME PhaseInv, DecodedInv, ImageInv, DisplayInv, Mirror
    PROVE  ImageInv' /\ DisplayInv'
<1>1. pc = "mirror" /\ pc' = "finish" /\ UNCHANGED <<file, avif, result>> /\ final_size' = final_size
  BY DEF Mirror, Continue
<1>2. avif.imir \in AtMostOne(0..1)
  BY <1>1, DecodedTyped DEF Decoded, Decoding
<1>3. /\ DOMAIN image[1] = ImageFields
      /\ final_size = <<image[1].width, image[1].height>>
      /\ image[1].width \in Side /\ image[1].height \in Side
  BY <1>1 DEF ImageInv, DisplayInv, Delivering, Transforming
<1>4. PICK rect \in Rects : Shows(image[1], avif.irot, <<>>, rect)
  BY <1>1 DEF DisplayInv
<1>5. CASE avif.imir = <<>>
  <2>1. image' = image
    BY <1>5 DEF Mirror
  <2> QED
    BY <1>1, <1>3, <1>4, <1>5, <2>1, TransformKeeps
<1>6. CASE avif.imir # <<>>
  <2> DEFINE mode == avif.imir[1]
             im   == Flipped(image[1], mode)
  <2>1. mode \in 0..1 /\ avif.imir = <<mode>>
    BY <1>2, <1>6, OneElement DEF AtMostOne
  <2>2. /\ DOMAIN im = ImageFields /\ Delivered(im) = Delivered(image[1])
        /\ Shows(im, avif.irot, <<mode>>, rect)
    BY <1>3, <1>4, <2>1, FlipShows DEF Side
  <2>3. im.width = image[1].width /\ im.height = image[1].height
    BY <1>3, FlippedFields
  <2>4. image'[1] = im
    BY <1>6, SingletonNotEmpty, Zenon DEF Mirror
  <2> HIDE DEF im
  <2> QED
    BY <1>1, <1>3, <2>1, <2>2, <2>3, <2>4, TransformKeeps
<1> QED
  BY <1>5, <1>6

LEMMA InitImage == Init => ImageInv /\ DisplayInv
BY DEF Init, ImageInv, DisplayInv, Delivering, Transforming

(* The steps before the layer is inserted: none of them delivers anything.    *)
Before ==
    \/ OpenFile \/ OpenFails \/ RefuseEmpty \/ Allocate \/ AllocateFails
    \/ ReadFile \/ ReadFails \/ RefuseType \/ CreateDecoder
    \/ Parse \/ Decode \/ DecodeFails
    \/ NewMetadata \/ ReadExif \/ ReadXMP \/ ReportError
    \/ LoadICC \/ LoadGrayProfile \/ MakeProfile \/ WrapProfile \/ CloseProfile
    \/ LoadGray \/ LoadColour

LEMMA BeforeStep ==
    ASSUME Before
    PROVE  /\ pc \in BeforeMetadata \cup {"exif", "xmp", "profile", "wrap", "close", "load"} \cup FailurePhases
           /\ pc # "idle" /\ file' = file
           /\ \/ /\ result' = result
                 /\ pc' \notin {"idle", "returned", "killed"} \cup Transforming
              \/ /\ pc \in BeforeMetadata
                 /\ result' = "EXECUTION_ERROR" /\ pc' = "returned" /\ image' = image
<1> USE DEF Return, Continue, BeforeMetadata, FailurePhases, Transforming, work
<1>1. CASE \/ OpenFile \/ OpenFails \/ RefuseEmpty \/ Allocate \/ AllocateFails
  BY <1>1 DEF OpenFile, OpenFails, RefuseEmpty, Allocate, AllocateFails
<1>2. CASE ReadFile \/ ReadFails \/ RefuseType \/ CreateDecoder
  BY <1>2 DEF ReadFile, ReadFails, RefuseType, CreateDecoder
<1>3. CASE Parse \/ Decode \/ DecodeFails
  BY <1>3 DEF Parse, Decode, DecodeFails
<1>4. CASE NewMetadata \/ ReadExif \/ ReadXMP \/ ReportError
  BY <1>4 DEF NewMetadata, ReadExif, ReadXMP, ReportError, AfterFailure
<1>5. CASE LoadICC \/ LoadGrayProfile \/ MakeProfile \/ WrapProfile \/ CloseProfile
  BY <1>5 DEF LoadICC, LoadGrayProfile, MakeProfile, WrapProfile, CloseProfile
<1>6. CASE LoadGray \/ LoadColour
  BY <1>6 DEF LoadGray, LoadColour
<1> QED
  BY <1>1, <1>2, <1>3, <1>4, <1>5, <1>6 DEF Before

LEMMA NextImage ==
    /\ PhaseInv /\ DecodedInv /\ FlagsInv /\ ColourInv /\ ImageInv /\ DisplayInv
    /\ [Next]_vars
    => ImageInv' /\ DisplayInv'
<1> SUFFICES ASSUME PhaseInv, DecodedInv, FlagsInv, ColourInv, ImageInv, DisplayInv, [Next]_vars
             PROVE  ImageInv' /\ DisplayInv'
  OBVIOUS
<1>1. ASSUME pc' \notin Transforming, result' # "SUCCESS"
      PROVE  ImageInv' /\ DisplayInv'
  BY <1>1 DEF ImageInv, DisplayInv, Delivering, Transforming
<1>2. CASE (\E f \in Files : Call(f)) \/ Kill
  <2>1. result # "SUCCESS"
    BY <1>2 DEF Call, Kill, Ended, PhaseInv
  <2>2. result' = result /\ pc' \notin Transforming
    BY <1>2 DEF Call, Kill, Transforming
  <2> QED
    BY <1>1, <2>1, <2>2
<1>3. CASE Before
  <2>1. result # "SUCCESS"
    BY <1>3, BeforeStep DEF PhaseInv, BeforeMetadata, FailurePhases
  <2> QED
    BY <1>1, <1>3, <2>1, BeforeStep DEF Transforming
<1>4. CASE InsertLayer
  BY <1>4, InsertKeeps
<1>5. CASE Crop
  BY <1>5, CropKeeps
<1>6. CASE Rotate
  BY <1>6, RotateKeeps
<1>7. CASE Mirror
  BY <1>7, MirrorKeeps
<1>8. CASE Finish
  <2>1. /\ pc = "finish" /\ pc' = "returned"
        /\ UNCHANGED <<file, avif, image, final_size>>
    BY <1>8 DEF Finish, Return
  <2>2. DescribedBy(file[1])' = DescribedBy(file[1]) /\ Rects' = Rects
    BY <2>1 DEF Rects, Whole
  <2>3. ImageInv'
    BY <2>1, <2>2 DEF ImageInv, Delivering, Transforming
  <2>4. DisplayInv'
    BY <2>1, <2>2 DEF DisplayInv, Delivering, Transforming
  <2> QED
    BY <2>3, <2>4
<1>9. CASE UNCHANGED vars
  <2>1. UNCHANGED <<file, avif, image, final_size, pc, result>>
    BY <1>9 DEF vars
  <2>2. DescribedBy(file[1])' = DescribedBy(file[1]) /\ Rects' = Rects
    BY <2>1 DEF Rects, Whole
  <2>3. Delivering' <=> Delivering
    BY <2>1 DEF Delivering
  <2>4. ImageInv'
    BY <2>1, <2>2, <2>3 DEF ImageInv
  <2>5. DisplayInv'
    BY <2>1, <2>2, <2>3 DEF DisplayInv, Whole
  <2> QED
    BY <2>4, <2>5
<1> QED
  BY <1>2, <1>3, <1>4, <1>5, <1>6, <1>7, <1>8, <1>9 DEF Next, Step, Done, Before

------------------------------------------------------------------------------
(* The metadata: at most one object, there for good Exif data, which states   *)
(* the final size and no turn once the image is delivered.                    *)
Metadatum == [orientation : 1..8, size : {<<>>} \cup Side \X Side]

LEMMA OneOf ==
    ASSUME NEW S, NEW s
    PROVE  s \in AtMostOne(S) <=> (s = <<>> \/ \E x \in S : s = <<x>>)
<1>1. ASSUME s \in AtMostOne(S), s # <<>>
      PROVE  s[1] \in S /\ s = <<s[1]>>
  BY <1>1, OneElement DEF AtMostOne
<1>2. <<>> \in AtMostOne(S) /\ \A x \in S : <<x>> \in AtMostOne(S)
  BY DEF AtMostOne
<1> QED
  BY <1>1, <1>2

LEMMA InitMetadata == Init => MetadataInv
BY OneOf DEF Init, MetadataInv

LEMMA NextMetadata ==
    PhaseInv /\ DecodedInv /\ DisplayInv /\ MetadataInv /\ [Next]_vars => MetadataInv'
<1> SUFFICES ASSUME PhaseInv, DecodedInv, DisplayInv, MetadataInv, [Next]_vars
             PROVE  MetadataInv'
  OBVIOUS
<1> USE DEF Return, Continue, work
<1>0. /\ metadata \in AtMostOne(Metadatum)
      /\ pc = "exif" /\ avif.exif = "good" => metadata # <<>>
  BY DEF MetadataInv, Metadatum
<1>1. ASSUME metadata' \in AtMostOne(Metadatum), result' # "SUCCESS",
             pc' = "exif" /\ avif'.exif = "good" => metadata' # <<>>
      PROVE  MetadataInv'
  BY <1>1 DEF MetadataInv, Metadatum
<1>2. pc # "returned" => result # "SUCCESS"
  BY DEF PhaseInv
<1>3. CASE NewMetadata
  <2> DEFINE new == [orientation |-> 1, size |-> <<>>]
  <2>1. /\ pc = "metadata" /\ result' = result /\ avif' = avif
        /\ metadata' = IF avif.exif = "none" /\ avif.xmp = "none" THEN <<>> ELSE <<new>>
    BY <1>3 DEF NewMetadata
  <2>2. new \in Metadatum
    BY DEF Metadatum
  <2> HIDE DEF new
  <2>3. metadata' \in AtMostOne(Metadatum)
    BY <2>1, <2>2, OneOf
  <2>4. avif'.exif = "good" => metadata' # <<>>
    BY <2>1
  <2> QED
    BY <1>1, <1>2, <2>1, <2>3, <2>4
<1>4. CASE ReadExif
  <2> DEFINE new == [metadata[1] EXCEPT !.orientation = avif.orientation]
  <2>1. /\ pc = "exif" /\ pc' # "exif" /\ result' = result /\ avif' = avif
        /\ metadata' = IF avif.exif = "good" THEN <<new>> ELSE metadata
    BY <1>4, Zenon DEF ReadExif
  <2>2. avif.exif = "good" => new \in Metadatum
    <3> SUFFICES ASSUME avif.exif = "good" PROVE new \in Metadatum
      OBVIOUS
    <3>1. metadata[1] \in Metadatum
      BY <1>0, <2>1, OneElement
    <3>2. avif.orientation \in 1..8
      BY <2>1, DecodedTyped DEF Decoded, Decoding
    <3> QED
      BY <3>1, <3>2 DEF Metadatum
  <2> HIDE DEF new
  <2>3. metadata' \in AtMostOne(Metadatum)
    BY <1>0, <2>1, <2>2, OneOf
  <2> QED
    BY <1>1, <1>2, <2>1, <2>3
<1>5. CASE Before /\ ~NewMetadata /\ ~ReadExif
  <2>1. metadata' = metadata /\ pc' # "exif"
    <3> USE DEF FailurePhases
    <3>1. CASE \/ OpenFile \/ OpenFails \/ RefuseEmpty \/ Allocate \/ AllocateFails
               \/ ReadFile \/ ReadFails \/ RefuseType \/ CreateDecoder
               \/ Parse \/ Decode \/ DecodeFails \/ ReadXMP \/ ReportError
      BY <3>1 DEF OpenFile, OpenFails, RefuseEmpty, Allocate, AllocateFails, ReadFile, ReadFails,
                  RefuseType, CreateDecoder, Parse, Decode, DecodeFails, ReadXMP, ReportError,
                  AfterFailure
    <3>2. CASE \/ LoadICC \/ LoadGrayProfile \/ MakeProfile \/ WrapProfile \/ CloseProfile
               \/ LoadGray \/ LoadColour
      BY <3>2 DEF LoadICC, LoadGrayProfile, MakeProfile, WrapProfile, CloseProfile,
                  LoadGray, LoadColour
    <3> QED
      BY <1>5, <3>1, <3>2 DEF Before
  <2>2. result' # "SUCCESS"
    BY <1>2, <1>5, BeforeStep DEF BeforeMetadata, FailurePhases
  <2> QED
    BY <1>0, <1>1, <2>1, <2>2
<1>6. CASE InsertLayer \/ Crop \/ Rotate \/ Mirror
  <2>1. metadata' = metadata /\ pc' # "exif" /\ pc # "returned" /\ result' = result
    BY <1>6 DEF InsertLayer, Crop, Rotate, Mirror
  <2> QED
    BY <1>0, <1>1, <1>2, <2>1
<1>7. CASE (\E f \in Files : Call(f)) \/ Kill
  <2>1. metadata' = metadata /\ pc' # "exif" /\ pc # "returned" /\ result' = result
    BY <1>7 DEF Call, Kill, Ended
  <2> QED
    BY <1>0, <1>1, <1>2, <2>1
<1>8. CASE Finish
  <2>1. /\ pc = "finish" /\ pc' = "returned" /\ image' = image
        /\ metadata' = [i \in DOMAIN metadata |-> Normalised(metadata[i])]
    BY <1>8 DEF Finish
  <2>2. final_size = <<image[1].width, image[1].height>> /\ final_size \in Side \X Side
    BY <2>1 DEF DisplayInv, Delivering, Transforming
  <2>3. CASE metadata = <<>>
    <3>1. metadata' = <<>>
      BY <2>1, <2>3
    <3> QED
      BY <2>1, <3>1, OneOf DEF MetadataInv
  <2>4. CASE metadata # <<>>
    <3> DEFINE new == Normalised(metadata[1])
    <3>1. metadata[1] \in Metadatum /\ DOMAIN metadata = {1}
      BY <1>0, <2>4, OneElement
    <3>2. new = [orientation |-> 1, size |-> <<image[1].width, image[1].height>>]
      <4>1. ASSUME NEW m \in Metadatum, NEW size
            PROVE  [m EXCEPT !.orientation = 1, !.size = size] = [orientation |-> 1, size |-> size]
        <5> DEFINE after == [m EXCEPT !.orientation = 1, !.size = size]
        <5>1. DOMAIN after = {"orientation", "size"} /\ after.orientation = 1 /\ after.size = size
          BY DEF Metadatum
        <5>2. after = [f \in DOMAIN after |-> after[f]]
          OBVIOUS
        <5> HIDE DEF after
        <5>3. after = [orientation |-> 1, size |-> size]
          BY <5>1, <5>2
        <5> QED
          BY <5>3 DEF after
      <4>2. new = [orientation |-> 1, size |-> final_size]
        BY <3>1, <4>1, Zenon DEF Normalised
      <4> QED
        BY <2>2, <4>2
    <3>3. new \in Metadatum
      BY <2>2, <3>2 DEF Metadatum
    <3> HIDE DEF new
    <3>4. metadata' = <<new>>
      BY <2>1, <3>1 DEF new
    <3>5. metadata' \in AtMostOne(Metadatum)
      BY <3>3, <3>4, OneOf
    <3>6. \A i \in DOMAIN metadata' :
             metadata'[i] = [orientation |-> 1, size |-> <<image'[1].width, image'[1].height>>]
      BY <2>1, <3>2, <3>4
    <3> QED
      BY <2>1, <3>5, <3>6 DEF MetadataInv, Metadatum
  <2> QED
    BY <2>3, <2>4
<1>9. CASE UNCHANGED vars
  BY <1>9 DEF vars, MetadataInv
<1> QED
  BY <1>3, <1>4, <1>5, <1>6, <1>7, <1>8, <1>9 DEF Next, Step, Done, Before

------------------------------------------------------------------------------
(* What holds in every state.                                                 *)
DeliveryInv ==
    HeldInv /\ DecodedInv /\ PhaseInv /\ FlagsInv /\ ColourInv /\ ImageInv /\ DisplayInv /\ MetadataInv

LEMMA InitDelivery == Init => DeliveryInv
<1>1. Init => DecodedInv
  BY DEF Init, DecodedInv, Decoded, Decoding, FailurePhases
<1>2. Init => FlagsInv
  BY DEF Init, FlagsInv
<1> QED
  BY <1>1, <1>2, InitHeld, InitPhase, InitColour, InitImage, InitMetadata DEF DeliveryInv

LEMMA NextDelivery == DeliveryInv /\ [Next]_vars => DeliveryInv'
BY NextHeld, NextDecoded, NextPhase, NextFlags, NextColour, NextImage, NextMetadata
   DEF DeliveryInv

(* The delivered image shows each pixel where the clean aperture, the turn    *)
(* and the mirroring of the file put it, and its metadata state its size and  *)
(* no further turn, for every file and every rounding of a clean aperture.    *)
THEOREM DisplayedAlwaysAsStored == Spec => []DisplayedAsStored
<1>1. DeliveryInv => DisplayedAsStored
  <2> SUFFICES ASSUME DeliveryInv, result = "SUCCESS" PROVE DisplayedAsStored
    BY DEF DisplayedAsStored
  <2>1. PICK rect \in Rects : Shows(image[1], avif.irot, avif.imir, rect)
    BY DEF DeliveryInv, DisplayInv
  <2>2. PICK crop \in IF avif.clap = <<>> THEN {<<>>}
                      ELSE Crops(avif.clap[1], avif.width, avif.height) :
          rect = IF crop = <<>> THEN Whole ELSE crop[1]
    BY <2>1 DEF Rects
  <2>3. Displays(image[1], rect)
    BY <2>1 DEF Shows, Displays, Area
  <2>4. \A i \in DOMAIN metadata :
          metadata[i] = [orientation |-> 1, size |-> <<image[1].width, image[1].height>>]
    BY DEF DeliveryInv, MetadataInv
  <2> QED
    BY <2>2, <2>3, <2>4, Zenon DEF DisplayedAsStored, Whole
<1> QED
  BY InitDelivery, NextDelivery, <1>1, PTL DEF Spec

------------------------------------------------------------------------------
(* Every step of the import is one of the contract's, or shows it nothing.    *)
Answer(p, r, im) ==
    IF p \in {"aborted", "killed"} THEN "dead"
    ELSE IF r # "none" THEN r
    ELSE IF im = <<>> THEN "reading" ELSE "building"

Shown(r, im) == IF r # "SUCCESS" THEN <<>> ELSE <<Delivered(im[1])>>

LEMMA BuildStep ==
    ASSUME Before
    PROVE  \/ image' = image
           \/ image' # <<>> /\ pc = "load" /\ pc' = "insert" /\ result' = result
<1> USE DEF Return, Continue, work
<1>1. CASE \/ OpenFile \/ OpenFails \/ RefuseEmpty \/ Allocate \/ AllocateFails
           \/ ReadFile \/ ReadFails \/ RefuseType \/ CreateDecoder
           \/ Parse \/ Decode \/ DecodeFails
  BY <1>1 DEF OpenFile, OpenFails, RefuseEmpty, Allocate, AllocateFails, ReadFile, ReadFails,
              RefuseType, CreateDecoder, Parse, Decode, DecodeFails
<1>2. CASE NewMetadata \/ ReadExif \/ ReadXMP \/ ReportError
  BY <1>2, Zenon DEF NewMetadata, ReadExif, ReadXMP, ReportError
<1>3. CASE LoadICC \/ LoadGrayProfile \/ MakeProfile \/ WrapProfile \/ CloseProfile
  BY <1>3, Zenon DEF LoadICC, LoadGrayProfile, MakeProfile, WrapProfile, CloseProfile
<1>4. CASE LoadGray \/ LoadColour
  <2>1. \E im : image' = <<im>>
    BY <1>4, Zenon DEF LoadGray, LoadColour
  <2>2. pc = "load" /\ pc' = "insert" /\ result' = result
    BY <1>4 DEF LoadGray, LoadColour
  <2> QED
    BY <2>1, <2>2
<1> QED
  BY <1>1, <1>2, <1>3, <1>4 DEF Before

LEMMA ContractStep ==
    DeliveryInv /\ [Next]_vars => [Contract!Next]_(Contract!contractVars)
<1> SUFFICES ASSUME DeliveryInv, [Next]_vars
             PROVE  [Contract!Next]_(Contract!contractVars)
  OBVIOUS
<1> DEFINE outcome   == Answer(pc, result, image)
           delivered == Shown(result, image)
<1>0. /\ PhaseInv /\ PhaseInv'
  BY NextPhase DEF DeliveryInv
<1>a. pc # "idle" => file # <<>>
  BY <1>0 DEF PhaseInv
<1>1. ASSUME UNCHANGED <<file, delivered, outcome>>
      PROVE  UNCHANGED Contract!contractVars
  BY <1>1 DEF Contract!contractVars, Answer, Shown, Delivered
<1>2. ASSUME file # <<>>, file' = file, delivered' = delivered, outcome = "reading",
             outcome' \in {"reading", "EXECUTION_ERROR", "building", "dead"}
      PROVE  [Contract!Next]_(Contract!contractVars)
  BY <1>1, <1>2 DEF Contract!Next, Contract!Fail, Contract!Build, Contract!Die,
                    Answer, Shown, Delivered
<1>3. CASE \E f \in Files : Call(f)
  <2>1. /\ pc = "idle" /\ pc' = "open" /\ result' = result /\ image' = image
        /\ file = <<>> /\ Len(file') = 1
    BY <1>0, <1>3 DEF Call, work, PhaseInv
  <2> QED
    BY <2>1 DEF Contract!Next, Contract!Call
<1>4. CASE Before
  <2>1. /\ pc \notin {"idle", "insert", "returned", "aborted", "killed"} \cup Transforming
        /\ file' = file
    BY <1>4, BeforeStep DEF BeforeMetadata, FailurePhases, Transforming
  <2>2. result = "none" /\ image = <<>>
    BY <1>0, <2>1 DEF PhaseInv, Delivering
  <2>3. outcome = "reading" /\ delivered = <<>>
    BY <2>1, <2>2 DEF Answer, Shown
  <2>4. outcome' \in {"reading", "EXECUTION_ERROR", "building", "dead"} /\ delivered' = <<>>
    BY <1>4, <2>2, BeforeStep DEF Answer, Shown
  <2> HIDE DEF outcome, delivered
  <2> QED
    BY <1>2, <1>a, <2>1, <2>3, <2>4
<1>5. CASE InsertLayer \/ Crop \/ Rotate \/ Mirror
  <2>1. /\ pc \in {"insert", "crop", "rotate", "mirror"}
        /\ pc' \in {"crop", "rotate", "mirror", "finish"}
        /\ file' = file /\ result' = result
    BY <1>5 DEF InsertLayer, Crop, Rotate, Mirror, Continue
  <2>2. result = "none" /\ image # <<>> /\ image' # <<>>
    BY <1>0, <2>1 DEF PhaseInv, Delivering, Transforming
  <2>3. UNCHANGED <<file, delivered, outcome>>
    BY <2>1, <2>2 DEF Answer, Shown
  <2> QED
    BY <1>1, <2>3
<1>6. CASE Finish
  <2>1. /\ pc = "finish" /\ pc' = "returned" /\ result' = "SUCCESS"
        /\ image' = image /\ file' = file
    BY <1>6 DEF Finish, Return
  <2>2. result = "none" /\ image # <<>>
    BY <1>0, <2>1 DEF PhaseInv, Delivering, Transforming
  <2>3. Delivered(image'[1]) \in DescribedBy(file[1])
    BY <2>1 DEF DeliveryInv, ImageInv, Delivering, Transforming
  <2>4. outcome = "building" /\ outcome' = "SUCCESS" /\ delivered' = <<Delivered(image'[1])>>
    BY <2>1, <2>2 DEF Answer, Shown
  <2>5. Contract!Deliver
    BY <2>1, <2>3, <2>4, Zenon DEF Contract!Deliver, Answer, Shown, Delivered
  <2> QED
    BY <2>5 DEF Contract!Next
<1>7. CASE Kill
  <2>1. /\ pc \notin {"idle", "returned", "aborted", "killed"} /\ pc' = "killed"
        /\ UNCHANGED <<file, result, image>>
    BY <1>7 DEF Kill, Ended, work
  <2>2. result = "none" /\ outcome \in {"reading", "building"} /\ outcome' = "dead"
        /\ delivered' = delivered
    BY <1>0, <2>1 DEF PhaseInv, Answer, Shown
  <2>3. Contract!Die
    BY <1>a, <2>1, <2>2 DEF Contract!Die, Answer, Shown, Delivered
  <2> QED
    BY <2>3 DEF Contract!Next
<1>8. CASE UNCHANGED vars
  BY <1>8 DEF vars, Contract!contractVars
<1> QED
  BY <1>3, <1>4, <1>5, <1>6, <1>7, <1>8 DEF Next, Step, Done, Before

(* avif_load implements ImportContract for every set of files: no image is    *)
(* made in GIMP before the file has turned out readable, once it is made only *)
(* a kill prevents its delivery, and it is one the file describes.            *)
THEOREM ContractImplemented == Spec => ImplementsContract
<1>1. Init => Contract!Init
  BY DEF Init, Contract!Init
<1> QED
  BY InitDelivery, NextDelivery, ContractStep, <1>1, PTL DEF Spec, ImplementsContract, Contract!Spec

------------------------------------------------------------------------------
(* Types: the variables the invariants above say nothing, or not enough of.   *)
RestTyped ==
    /\ file \in AtMostOne(File) /\ pc \in Phases
    /\ Len(profile) <= 1 /\ Len(image) <= 1
    /\ pixels \in {"none", "unwritten", "straight", "premultiplied"}
    /\ final_size \in {<<>>} \cup Side \X Side

LEMMA PhaseStays == pc \in Phases /\ [Next]_vars => pc' \in Phases
<1> SUFFICES ASSUME pc \in Phases, [Next]_vars PROVE pc' \in Phases
  OBVIOUS
<1> USE DEF Return, Continue, Phases, FailurePhases
<1>1. CASE \/ OpenFile \/ OpenFails \/ RefuseEmpty \/ Allocate \/ AllocateFails
           \/ ReadFile \/ ReadFails \/ RefuseType \/ CreateDecoder
           \/ Parse \/ Decode \/ DecodeFails
  BY <1>1 DEF OpenFile, OpenFails, RefuseEmpty, Allocate, AllocateFails, ReadFile, ReadFails,
              RefuseType, CreateDecoder, Parse, Decode, DecodeFails
<1>2. CASE NewMetadata \/ ReadExif \/ ReadXMP \/ ReportError
  BY <1>2 DEF NewMetadata, ReadExif, ReadXMP, ReportError, AfterFailure
<1>3. CASE \/ LoadICC \/ LoadGrayProfile \/ MakeProfile \/ WrapProfile \/ CloseProfile
           \/ LoadGray \/ LoadColour
  BY <1>3 DEF LoadICC, LoadGrayProfile, MakeProfile, WrapProfile, CloseProfile,
              LoadGray, LoadColour
<1>4. CASE InsertLayer \/ Crop \/ Rotate \/ Mirror \/ Finish
  BY <1>4 DEF InsertLayer, Crop, Rotate, Mirror, Finish
<1>5. CASE Kill \/ \E f \in Files : Call(f)
  BY <1>5 DEF Kill, Call
<1>6. CASE UNCHANGED vars
  BY <1>6 DEF vars
<1> QED
  BY <1>1, <1>2, <1>3, <1>4, <1>5, <1>6 DEF Next, Step, Done

LEMMA SizeStays ==
    ASSUME DeliveryInv, final_size \in {<<>>} \cup Side \X Side, [Next]_vars
    PROVE  final_size' \in {<<>>} \cup Side \X Side
<1>1. CASE InsertLayer \/ Crop \/ Rotate \/ Mirror
  <2>1. pc' \in Transforming
    BY <1>1 DEF InsertLayer, Crop, Rotate, Mirror, Continue, Transforming
  <2>2. DisplayInv'
    BY NextDelivery DEF DeliveryInv
  <2> QED
    BY <2>1, <2>2 DEF DisplayInv, Delivering
<1>2. CASE Before \/ Finish \/ Kill \/ \E f \in Files : Call(f)
  BY <1>2, Zenon DEF Before, work, OpenFile, OpenFails, RefuseEmpty, Allocate, AllocateFails,
     ReadFile, ReadFails, RefuseType, CreateDecoder, Parse, Decode, DecodeFails,
     NewMetadata, ReadExif, ReadXMP, ReportError, LoadICC, LoadGrayProfile, MakeProfile,
     WrapProfile, CloseProfile, LoadGray, LoadColour, Finish, Kill, Call
<1>3. CASE UNCHANGED vars
  BY <1>3 DEF vars
<1> QED
  BY <1>1, <1>2, <1>3 DEF Next, Step, Done, Before

LEMMA FieldsStay ==
    ASSUME DeliveryInv, RestTyped, [Next]_vars
    PROVE  /\ file' \in AtMostOne(File)
           /\ Len(profile') <= 1 /\ Len(image') <= 1
           /\ pixels' \in {"none", "unwritten", "straight", "premultiplied"}
<1> USE DEF Return, Continue, work
<1> DEFINE Typed == /\ file \in AtMostOne(File)
                    /\ Len(profile) <= 1 /\ Len(image) <= 1
                    /\ pixels \in {"none", "unwritten", "straight", "premultiplied"}
<1>0. Typed /\ Len(<<>>) <= 1 /\ \A x : Len(<<x>>) <= 1
  BY DEF RestTyped
<1>1. CASE \E f \in Files : Call(f)
  <2>1. PICK f \in Files : file' = <<f>>
    BY <1>1 DEF Call
  <2>2. file' \in AtMostOne(File)
    BY <2>1, OneOf, FilesAssumption
  <2> QED
    BY <1>0, <1>1, <2>2 DEF Call
<1>2. CASE \/ OpenFile \/ OpenFails \/ RefuseEmpty \/ Allocate \/ AllocateFails
           \/ ReadFile \/ ReadFails \/ RefuseType \/ CreateDecoder
           \/ Parse \/ Decode \/ DecodeFails
  BY <1>0, <1>2, Zenon DEF OpenFile, OpenFails, RefuseEmpty, Allocate, AllocateFails, ReadFile,
     ReadFails, RefuseType, CreateDecoder, Parse, Decode, DecodeFails
<1>3. CASE NewMetadata \/ ReadExif \/ ReadXMP \/ ReportError \/ CloseProfile \/ MakeProfile
  BY <1>0, <1>3, Zenon DEF NewMetadata, ReadExif, ReadXMP, ReportError, CloseProfile, MakeProfile
<1>4. CASE LoadICC \/ LoadGrayProfile \/ WrapProfile
  <2>1. /\ UNCHANGED <<file, image, pixels>>
        /\ profile' = profile \/ \E x : profile' = <<x>>
    BY <1>4, Zenon DEF LoadICC, LoadGrayProfile, WrapProfile
  <2> QED
    BY <1>0, <2>1
<1>5. CASE LoadGray \/ LoadColour
  <2>1. /\ UNCHANGED <<file, profile>> /\ \E x : image' = <<x>>
        /\ pixels' \in {"straight", "unwritten", "premultiplied"}
    BY <1>5, Zenon DEF LoadGray, LoadColour
  <2> QED
    BY <1>0, <2>1
<1>6. CASE InsertLayer
  <2>1. /\ UNCHANGED <<file, pixels>> /\ profile' = <<>> /\ \E x : image' = <<x>>
    BY <1>6, Zenon DEF InsertLayer
  <2> QED
    BY <1>0, <2>1
<1>7. CASE Crop \/ Rotate \/ Mirror
  <2>1. /\ UNCHANGED <<file, pixels, profile>>
        /\ image' = image \/ \E x : image' = <<x>>
    <3>1. CASE Crop
      BY <3>1, Zenon DEF Crop
    <3>2. CASE Rotate
      BY <3>2, Zenon DEF Rotate
    <3>3. CASE Mirror
      BY <3>3, Zenon DEF Mirror
    <3> QED
      BY <1>7, <3>1, <3>2, <3>3
  <2> QED
    BY <1>0, <2>1
<1>8. CASE Finish \/ Kill
  BY <1>0, <1>8, Zenon DEF Finish, Kill
<1>9. CASE UNCHANGED vars
  BY <1>0, <1>9 DEF vars
<1> QED
  BY <1>1, <1>2, <1>3, <1>4, <1>5, <1>6, <1>7, <1>8, <1>9 DEF Next, Step, Done

(* Every variable keeps its type, for every set of files.                     *)
THEOREM AlwaysTyped == Spec => []TypeOK
<1>1. Init => RestTyped
  BY OneOf DEF Init, RestTyped, Phases
<1>2. DeliveryInv /\ RestTyped /\ [Next]_vars => RestTyped'
  <2> SUFFICES ASSUME DeliveryInv, RestTyped, [Next]_vars PROVE RestTyped'
    OBVIOUS
  <2>1. pc' \in Phases
    BY PhaseStays DEF RestTyped
  <2>2. final_size' \in {<<>>} \cup Side \X Side
    BY SizeStays DEF RestTyped
  <2> QED
    BY <2>1, <2>2, FieldsStay DEF RestTyped
<1>3. DeliveryInv /\ RestTyped => TypeOK
  <2> SUFFICES ASSUME DeliveryInv, RestTyped PROVE TypeOK
    OBVIOUS
  <2>1. held \in [Resources -> {"none", "live", "freed", "lost", "corrupt"}]
    BY DEF DeliveryInv, HeldInv
  <2>2. result \in {"none", "SUCCESS", "EXECUTION_ERROR"}
    BY DEF DeliveryInv, PhaseInv
  <2>3. metadata \in AtMostOne([orientation : 1..8, size : {<<>>} \cup Side \X Side])
    BY DEF DeliveryInv, MetadataInv
  <2>4. error \in BOOLEAN /\ loadgray \in BOOLEAN /\ loadlinear \in BOOLEAN
    BY DEF DeliveryInv, FlagsInv
  <2> QED
    BY <2>1, <2>2, <2>3, <2>4 DEF RestTyped, TypeOK
<1> QED
  BY InitDelivery, NextDelivery, <1>1, <1>2, <1>3, PTL DEF Spec

------------------------------------------------------------------------------
(* The most steps load_image may still make from a phase.                     *)
StepsAfter(phase) ==
    CASE phase = "returned" \/ phase = "aborted" \/ phase = "killed" -> 0
      [] phase = "finish" -> 1
      [] phase = "mirror" -> 2
      [] phase = "rotate" -> 3
      [] phase = "crop" -> 4
      [] phase = "insert" -> 5
      [] phase = "load" -> 6
      [] phase = "close" \/ phase = "icc failed" -> 7
      [] phase = "wrap failed" -> 8
      [] phase = "wrap" -> 9
      [] phase = "profile" -> 10
      [] phase = "xmp failed" -> 11
      [] phase = "xmp" -> 12
      [] phase = "exif failed" -> 13
      [] phase = "exif" -> 14
      [] phase = "metadata" -> 15
      [] phase = "decode" -> 16
      [] phase = "parse" -> 17
      [] phase = "identify" -> 18
      [] phase = "read" -> 19
      [] phase = "measure" -> 20
      [] phase = "open" -> 21
      [] phase = "idle" -> 22

StepsKnown ==
    /\ StepsAfter("returned") = 0 /\ StepsAfter("aborted") = 0 /\ StepsAfter("killed") = 0
    /\ StepsAfter("finish") = 1 /\ StepsAfter("mirror") = 2 /\ StepsAfter("rotate") = 3
    /\ StepsAfter("crop") = 4 /\ StepsAfter("insert") = 5 /\ StepsAfter("load") = 6
    /\ StepsAfter("close") = 7 /\ StepsAfter("icc failed") = 7
    /\ StepsAfter("wrap failed") = 8 /\ StepsAfter("wrap") = 9
    /\ StepsAfter("profile") = 10 /\ StepsAfter("xmp failed") = 11
    /\ StepsAfter("xmp") = 12 /\ StepsAfter("exif failed") = 13 /\ StepsAfter("exif") = 14
    /\ StepsAfter("metadata") = 15 /\ StepsAfter("decode") = 16 /\ StepsAfter("parse") = 17
    /\ StepsAfter("identify") = 18 /\ StepsAfter("read") = 19 /\ StepsAfter("measure") = 20
    /\ StepsAfter("open") = 21 /\ StepsAfter("idle") = 22

LEMMA StepsNumbered == StepsKnown
BY DEF StepsKnown, StepsAfter

Nearer == StepsAfter(pc) \in Nat /\ StepsAfter(pc') < StepsAfter(pc)

Goes(from, to)  == pc = from /\ pc' = to
Drops(from, to) == StepsAfter(pc) = from /\ StepsAfter(pc') = to

LEMMA DecodingNearer ==
    ASSUME \/ OpenFile \/ OpenFails \/ RefuseEmpty \/ Allocate \/ AllocateFails
           \/ ReadFile \/ ReadFails \/ RefuseType \/ CreateDecoder
           \/ Parse \/ Decode \/ DecodeFails
    PROVE  Nearer
<1>1. \/ Goes("open", "measure") \/ Goes("open", "returned")
      \/ Goes("measure", "returned") \/ Goes("measure", "read") \/ Goes("measure", "aborted")
      \/ Goes("read", "identify") \/ Goes("read", "returned")
      \/ Goes("identify", "returned") \/ Goes("identify", "parse")
      \/ Goes("parse", "decode") \/ Goes("parse", "returned")
      \/ Goes("decode", "metadata") \/ Goes("decode", "returned")
  BY DEF OpenFile, OpenFails, RefuseEmpty, Allocate, AllocateFails, ReadFile, ReadFails,
         RefuseType, CreateDecoder, Parse, Decode, DecodeFails, Return, Continue, Goes
<1>2. \/ Drops(21, 20) \/ Drops(21, 0) \/ Drops(20, 0) \/ Drops(20, 19) \/ Drops(19, 18)
      \/ Drops(19, 0) \/ Drops(18, 0) \/ Drops(18, 17) \/ Drops(17, 16) \/ Drops(17, 0)
      \/ Drops(16, 15) \/ Drops(16, 0)
  BY <1>1, StepsNumbered, Zenon DEF StepsKnown, Goes, Drops
<1> QED
  BY <1>2 DEF Drops, Nearer

LEMMA DescribingNearer ==
    ASSUME \/ NewMetadata \/ ReadExif \/ ReadXMP \/ ReportError
           \/ LoadICC \/ LoadGrayProfile \/ MakeProfile \/ WrapProfile \/ CloseProfile
    PROVE  Nearer
<1>1. CASE NewMetadata \/ ReadExif \/ ReadXMP \/ ReportError
  <2>1. \/ Goes("metadata", "exif")
        \/ Goes("exif", "exif failed") \/ Goes("exif", "xmp") \/ Goes("exif failed", "xmp")
        \/ Goes("xmp", "xmp failed") \/ Goes("xmp", "profile") \/ Goes("xmp failed", "profile")
        \/ Goes("icc failed", "load") \/ Goes("wrap failed", "close")
    BY <1>1 DEF NewMetadata, ReadExif, ReadXMP, ReportError, FailurePhases, AfterFailure,
                Continue, Goes
  <2>2. \/ Drops(15, 14) \/ Drops(14, 13) \/ Drops(14, 12) \/ Drops(13, 12) \/ Drops(12, 11)
        \/ Drops(12, 10) \/ Drops(11, 10) \/ Drops(7, 6) \/ Drops(8, 7)
    BY <2>1, StepsNumbered, Zenon DEF StepsKnown, Goes, Drops
  <2> QED
    BY <2>2 DEF Drops, Nearer
<1>2. CASE LoadICC \/ LoadGrayProfile \/ MakeProfile \/ WrapProfile \/ CloseProfile
  <2>1. \/ Goes("profile", "icc failed") \/ Goes("profile", "load") \/ Goes("profile", "wrap")
        \/ Goes("wrap", "close") \/ Goes("wrap", "wrap failed") \/ Goes("close", "load")
    BY <1>2 DEF LoadICC, LoadGrayProfile, MakeProfile, WrapProfile, CloseProfile,
                Continue, Goes
  <2>2. \/ Drops(10, 7) \/ Drops(10, 6) \/ Drops(10, 9) \/ Drops(9, 7) \/ Drops(9, 8)
        \/ Drops(7, 6)
    BY <2>1, StepsNumbered, Zenon DEF StepsKnown, Goes, Drops
  <2> QED
    BY <2>2 DEF Drops, Nearer
<1> QED
  BY <1>1, <1>2

LEMMA ShowingNearer ==
    ASSUME \/ LoadGray \/ LoadColour \/ InsertLayer \/ Crop \/ Rotate \/ Mirror \/ Finish
    PROVE  Nearer
<1>1. \/ Goes("load", "insert") \/ Goes("insert", "crop") \/ Goes("crop", "rotate")
      \/ Goes("rotate", "mirror") \/ Goes("mirror", "finish") \/ Goes("finish", "returned")
  BY DEF LoadGray, LoadColour, InsertLayer, Crop, Rotate, Mirror, Finish, Return, Continue, Goes
<1>2. \/ Drops(6, 5) \/ Drops(5, 4) \/ Drops(4, 3) \/ Drops(3, 2) \/ Drops(2, 1)
      \/ Drops(1, 0)
  BY <1>1, StepsNumbered, Zenon DEF StepsKnown, Goes, Drops
<1> QED
  BY <1>2 DEF Drops, Nearer

LEMMA KillNearer ==
    ASSUME pc \in Phases, Kill
    PROVE  Nearer
<1>1. pc' = "killed" /\ pc # "idle" /\ pc \notin {"returned", "aborted", "killed"}
  BY DEF Kill, Ended
<1>2. StepsAfter(pc') = 0
  BY <1>1 DEF StepsAfter
<1>3. StepsAfter(pc) \in 1 .. 21
  <2>1. \/ pc = "open" \/ pc = "measure" \/ pc = "read" \/ pc = "identify" \/ pc = "parse"
        \/ pc = "decode" \/ pc = "metadata" \/ pc = "exif" \/ pc = "exif failed"
        \/ pc = "xmp" \/ pc = "xmp failed" \/ pc = "profile" \/ pc = "icc failed"
        \/ pc = "wrap" \/ pc = "wrap failed" \/ pc = "close" \/ pc = "load"
        \/ pc = "insert" \/ pc = "crop" \/ pc = "rotate" \/ pc = "mirror" \/ pc = "finish"
    BY <1>1 DEF Phases, FailurePhases
  <2>2. \/ StepsAfter(pc) = 1 \/ StepsAfter(pc) = 2 \/ StepsAfter(pc) = 3
        \/ StepsAfter(pc) = 4 \/ StepsAfter(pc) = 5 \/ StepsAfter(pc) = 6
        \/ StepsAfter(pc) = 7 \/ StepsAfter(pc) = 8 \/ StepsAfter(pc) = 9
        \/ StepsAfter(pc) = 10 \/ StepsAfter(pc) = 11 \/ StepsAfter(pc) = 12
        \/ StepsAfter(pc) = 13 \/ StepsAfter(pc) = 14 \/ StepsAfter(pc) = 15
        \/ StepsAfter(pc) = 16 \/ StepsAfter(pc) = 17 \/ StepsAfter(pc) = 18
        \/ StepsAfter(pc) = 19 \/ StepsAfter(pc) = 20 \/ StepsAfter(pc) = 21
    BY <2>1, StepsNumbered, Zenon DEF StepsKnown
  <2> QED
    BY <2>2
<1> QED
  BY <1>2, <1>3 DEF Nearer

(* Every step of load_image brings its end nearer: no survived error makes it *)
(* do anything twice, and a call is over after 21 steps, for every file.      *)
THEOREM StepsRunOut == Spec => [][Nearer]_vars
<1>1. pc \in Phases /\ [Next]_vars => [Nearer]_vars
  <2> SUFFICES ASSUME pc \in Phases, Next, vars' # vars PROVE Nearer
    OBVIOUS
  <2>1. CASE \E f \in Files : Call(f)
    <3>1. Goes("idle", "open")
      BY <2>1 DEF Call, Goes
    <3>2. Drops(22, 21)
      BY <3>1, StepsNumbered, Zenon DEF StepsKnown, Goes, Drops
    <3> QED
      BY <3>2 DEF Drops, Nearer
  <2> QED
    BY <2>1, DecodingNearer, DescribingNearer, ShowingNearer, KillNearer DEF Next, Step, Done
<1>2. Init => pc \in Phases
  BY DEF Init, Phases
<1>3. pc \in Phases /\ [Next]_vars => (pc \in Phases)'
  BY PhaseStays
<1> QED
  BY <1>1, <1>2, <1>3, PTL DEF Spec

==============================================================================
