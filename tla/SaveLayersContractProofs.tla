----------------------- MODULE SaveLayersContractProofs -----------------------
(* What SaveLayers writes, for every set of requests, encoders and primaries: *)
(* libavif's protocol is kept, the encoded file is the request's, and the     *)
(* destination is treated as ExportContract says.                             *)
EXTENDS SaveLayersProofs

------------------------------------------------------------------------------
(* The avifImage: what describes it is the request's from the phase that sets *)
(* it on, and stays so while its planes are filled again for every frame.     *)
Coding == {"fetch", "convert", "add"}

ImageFields ==
    {"width", "height", "depth", "yuvFormat", "colour", "allocated", "hasAlpha", "yuv",
     "alpha", "opaque", "scale", "exif", "xmp", "irot", "imir"}

ImageInv ==
    /\ pc \in WithAvif =>
         /\ DOMAIN avif = ImageFields
         /\ avif.width = req.layers[1].width /\ avif.height = req.layers[1].height
         /\ avif.depth = req.depth
         /\ avif.yuvFormat = IF is_gray(req) THEN "YUV400" ELSE req.format
         /\ avif.exif \in {FALSE, req.metadata /\ req.exif}
         /\ avif.xmp \in {FALSE, req.metadata /\ req.xmp}
         /\ avif.irot = IF avif.exif THEN irotFor(req.orientation) ELSE <<>>
         /\ avif.imir = IF avif.exif THEN imirFor(req.orientation) ELSE <<>>
    /\ pc \in WithAvif \ {"colour"} => avif.colour \in ColoursFor(req)
    /\ pc \in {"metadata", "filter failed", "exif", "exif failed", "xmp"} => req.metadata
    /\ pc \in Coding => avif.allocated /\ avif.hasAlpha = save_alpha(req)

LEMMA InitImage == Init => ImageInv
BY DEF Init, ImageInv, WithAvif, Coding

(* The colours described are the request's.                                   *)
LEMMA IccColours ==
    ASSUME NEW r, r.icc
    PROVE  (IF is_gray(r)
            THEN [icc |-> IF r.linear THEN "gray linear" ELSE "gray sRGB",
                  primaries |-> 2, transfer |-> Transfer(r.linear), matrix |-> 1]
            ELSE [icc |-> "image", primaries |-> 2, transfer |-> 2, matrix |-> 1])
             \in ColoursFor(r)
BY DEF ColoursFor, Transfer

LEMMA NclxColours ==
    ASSUME NEW r, ~r.icc, NEW p \in ColorPrimaries, is_gray(r) => p = 1
    PROVE  [icc |-> "none", primaries |-> p,
            transfer |-> Transfer(r.linear), matrix |-> MatrixFor(p)] \in ColoursFor(r)
BY DEF ColoursFor, Transfer, MatrixFor

LEMMA NextImage == RequestInv /\ ImageInv /\ [Next]_vars => ImageInv'
<1> SUFFICES ASSUME RequestInv, ImageInv, [Next]_vars PROVE ImageInv'
  OBVIOUS
<1> USE DEF Return, Continue, WithAvif, Coding
<1>1. req' = req
  BY SameRequest
<1>2. CASE CreateImage
  BY <1>1, <1>2 DEF CreateImage, ImageInv, ImageFields
<1>3. CASE DescribeICC \/ DescribeNCLX
  <2>1. PICK c \in ColoursFor(req) : avif' = [avif EXCEPT !.colour = c]
    BY <1>3, IccColours, NclxColours DEF DescribeICC, DescribeNCLX
  <2>2. pc = "colour" /\ pc' = "pixels"
    BY <1>3 DEF DescribeICC, DescribeNCLX
  <2> QED
    BY <1>1, <2>1, <2>2 DEF ImageInv, ImageFields
<1>4. CASE AllocatePixels
  BY <1>1, <1>4 DEF AllocatePixels, ImageInv
<1>5. CASE AttachExif
  <2>1. CASE avif' = avif
    BY <1>1, <1>5, <2>1 DEF AttachExif, ImageInv
  <2>2. CASE req.exif /\ avif' = avifImageSetMetadataExif(avif, req.orientation) /\ pc' = "xmp"
    <3>1. /\ pc = "exif" /\ req.metadata /\ DOMAIN avif' = ImageFields
          /\ avif'.exif = TRUE
          /\ avif'.irot = irotFor(req.orientation) /\ avif'.imir = imirFor(req.orientation)
          /\ \A f \in ImageFields \ {"exif", "irot", "imir"} : avif'[f] = avif[f]
      BY <1>5, <2>2 DEF AttachExif, ImageInv, ImageFields, avifImageSetMetadataExif
    <3> QED
      BY <1>1, <2>2, <3>1 DEF ImageInv, ImageFields
  <2> QED
    BY <1>5, <2>1, <2>2 DEF AttachExif
<1>6. CASE AttachXMP
  <2>1. CASE avif' = avif
    BY <1>1, <1>6, <2>1 DEF AttachXMP, ImageInv
  <2>2. CASE avif' = [avif EXCEPT !.xmp = req.xmp]
    <3>1. /\ pc = "xmp" /\ pc' = "encoder" /\ req.metadata
          /\ DOMAIN avif' = ImageFields /\ avif'.xmp = req.xmp
          /\ \A f \in ImageFields \ {"xmp"} : avif'[f] = avif[f]
      BY <1>6, <2>2 DEF AttachXMP, ImageInv, ImageFields
    <3>2. req.xmp \in BOOLEAN
      BY DEF RequestInv, Request
    <3>3. avif'.xmp \in {FALSE, req.metadata /\ req.xmp}
      BY <3>1, <3>2
    <3> QED
      BY <1>1, <3>1, <3>3 DEF ImageInv, ImageFields
  <2> QED
    BY <1>6, <2>1, <2>2 DEF AttachXMP
<1>7. CASE CreateEncoder
  <2>1. PICK g \in BOOLEAN :
          avif' = [avif EXCEPT !.allocated = TRUE, !.hasAlpha = save_alpha(req), !.opaque = g]
    BY <1>7 DEF CreateEncoder
  <2>2. pc = "encoder" /\ pc' = "fetch"
    BY <1>7 DEF CreateEncoder
  <2> QED
    BY <1>1, <2>1, <2>2 DEF ImageInv, ImageFields
<1>8. CASE ConvertGray \/ ConvertColour
  <2>1. /\ pc = "convert" /\ pc' = "add"
        /\ \/ avif' = avif
           \/ \E scale : avif' = Filled(avif, req, scale)
    BY <1>8 DEF ConvertGray, ConvertColour
  <2>2. CASE avif' = avif
    BY <1>1, <2>1, <2>2 DEF ImageInv
  <2>3. CASE \E scale : avif' = Filled(avif, req, scale)
    <3>1. /\ DOMAIN avif' = ImageFields
          /\ \A f \in ImageFields \ {"yuv", "alpha", "opaque", "scale"} : avif'[f] = avif[f]
      BY <2>1, <2>3 DEF ImageInv, ImageFields, Filled
    <3> QED
      BY <1>1, <2>1, <3>1 DEF ImageInv, ImageFields
  <2> QED
    BY <2>1, <2>2, <2>3
<1>9. CASE FilterMetadata \/ FilterFailed \/ ExifFailed \/ FetchFrame \/ AddFrame
  BY <1>1, <1>9 DEF FilterMetadata, FilterFailed, ExifFailed, FetchFrame, AddFrame, job, ImageInv
<1>10. CASE \/ Refuse \/ GetSpace \/ Abort \/ AddFails \/ Finish \/ FinishFails
            \/ Open \/ OpenFails \/ Write \/ ReturnTrue \/ Kill
  <2>1. pc' \notin WithAvif
    BY <1>10 DEF Refuse, GetSpace, Abort, AddFails, Finish, FinishFails, Open, OpenFails,
                 Write, ReturnTrue, Kill
  <2> QED
    BY <2>1 DEF ImageInv
<1>11. CASE UNCHANGED vars
  BY <1>11 DEF vars, ImageInv
<1> QED
  BY <1>2, <1>3, <1>4, <1>5, <1>6, <1>7, <1>8, <1>9, <1>10, <1>11 DEF Next, Step, Done

------------------------------------------------------------------------------
(* The frame loop.  Added counts the frames the encoder has accepted; they    *)
(* are the request's, from the bottom layer up to where the loop stands.  The *)
(* first one has frozen what later frames are compared with.                  *)
Added == n_drawables(req) - 1 - frame_index

FramesUpTo(k) == [i \in 1..k |-> FrameFor(req, n_drawables(req) + 1 - i)]

ItemsWith(img, keeps) ==
    {"Color"} \cup (IF keeps THEN {"Alpha"} ELSE {})
              \cup (IF img.exif THEN {"Exif"} ELSE {}) \cup (IF img.xmp THEN {"XMP"} ELSE {})

ItemsFor(img) == ItemsWith(img, AlphaFor(req))

Untouched == encoder.items = {} /\ encoder.locked = <<>> /\ encoder.single = FALSE

Committed ==
    /\ req.depth \in EncodableDepths
    /\ encoder.single = single(req)
    /\ encoder.locked = <<Frozen(encoder)>>
    /\ encoder.metadata = <<Description(avif)>>
    /\ encoder.alphaPresent = AlphaFor(req)
    /\ encoder.items = ItemsFor(avif)

(* The planes are the current layer's, unless the depth is one that libavif   *)
(* is going to refuse.                                                        *)
PlanesFilled ==
    /\ avif.yuv = pixels
    /\ avif.alpha = IF save_alpha(req) THEN pixels ELSE 0
    /\ avif.opaque = (save_alpha(req) /\ ~req.layers[pixels].transparent)
    /\ avif.scale = req.depth

LoopInv ==
    pc \in Coding =>
      /\ encoder.codec = req.codec
      /\ encoder.timescale = IF n_drawables(req) = 1 THEN 1 ELSE req.timescale
      /\ frame_index \in Int /\ -1 <= frame_index /\ frame_index < n_drawables(req)
      /\ pc # "fetch" => frame_index >= 0 /\ pixels = frame_index + 1
      /\ encoder.frames = FramesUpTo(Added)
      /\ IF Added = 0 THEN Untouched ELSE Committed
      /\ pc = "add" /\ req.depth \in EncodableDepths => PlanesFilled

LEMMA SizeOfRequest == RequestInv => n_drawables(req) \in Nat
BY DEF RequestInv, Request, n_drawables

LEMMA EmptyFrames == FramesUpTo(0) = <<>>
BY DEF FramesUpTo

LEMMA OneMoreFrame ==
    ASSUME RequestInv, NEW k \in Nat
    PROVE  Append(FramesUpTo(k), FrameFor(req, n_drawables(req) - k)) = FramesUpTo(k + 1)
<1> DEFINE n == n_drawables(req)
           Frame(i) == FrameFor(req, n + 1 - i)
<1>1. FramesUpTo(k) = [i \in 1..k |-> Frame(i)] /\ FramesUpTo(k + 1) = [i \in 1..(k + 1) |-> Frame(i)]
  BY DEF FramesUpTo
<1>2. Frame(k + 1) = FrameFor(req, n - k)
  <2>1. n + 1 - (k + 1) = n - k
    BY SizeOfRequest
  <2> QED
    BY <2>1
<1> HIDE DEF Frame
<1>3. Append([i \in 1..k |-> Frame(i)], Frame(k + 1)) = [i \in 1..(k + 1) |-> Frame(i)]
  OBVIOUS
<1> QED
  BY <1>1, <1>2, <1>3

(* What avifEncoderAddImage leaves behind: settings as they were and frozen,  *)
(* one more frame.                                                            *)
FrameOf(img, keeps, d) ==
    [yuv |-> img.yuv, alpha |-> IF keeps THEN img.alpha ELSE 0,
     scale |-> img.scale, duration |-> d]

AfterAdding(after, enc, alone, metadata, keeps, items, frame) ==
    /\ after.codec = enc.codec /\ after.timescale = enc.timescale
    /\ after.single = alone
    /\ after.locked = <<Frozen(enc)>>
    /\ after.metadata = metadata
    /\ after.alphaPresent = keeps
    /\ after.items = items
    /\ after.frames = Append(enc.frames, frame)

(* The first image creates the items,                                         *)
LEMMA FirstFrameAdded ==
    ASSUME NEW enc, DOMAIN enc = DOMAIN NewEncoder, enc.items = {}, enc.single = FALSE,
           NEW img, NEW d, NEW alone \in BOOLEAN,
           NEW keeps \in BOOLEAN, KeepsAlpha(img, alone) = keeps,
           NEW after, after = WithFrame(enc, img, d, alone)
    PROVE  AfterAdding(after, enc, alone, <<Description(img)>>, keeps,
                       ItemsWith(img, keeps), FrameOf(img, keeps, d))
<1> DEFINE prepared == WithItems(enc, img, alone)
<1>1. /\ DOMAIN prepared = DOMAIN NewEncoder
      /\ prepared.codec = enc.codec /\ prepared.timescale = enc.timescale
      /\ prepared.single = FALSE /\ prepared.frames = enc.frames
      /\ prepared.metadata = <<Description(img)>>
      /\ prepared.alphaPresent = keeps
      /\ prepared.items = ItemsWith(img, keeps)
  BY DEF WithItems, NewEncoder, ItemsWith
<1>2. after =
        [prepared EXCEPT !.single = @ \/ alone, !.locked = <<Frozen(enc)>>,
                         !.frames = Append(@,
                            [yuv |-> img.yuv,
                             alpha |-> IF prepared.alphaPresent THEN img.alpha ELSE 0,
                             scale |-> img.scale, duration |-> d])]
  BY DEF WithFrame
<1> HIDE DEF prepared
<1> QED
  BY <1>1, <1>2 DEF NewEncoder, FrameOf, AfterAdding

(* later ones leave them alone.                                               *)
LEMMA LaterFrameAdded ==
    ASSUME NEW enc, DOMAIN enc = DOMAIN NewEncoder, enc.items # {}, enc.single = FALSE,
           NEW img, NEW d, NEW after, after = WithFrame(enc, img, d, FALSE)
    PROVE  AfterAdding(after, enc, FALSE, enc.metadata, enc.alphaPresent, enc.items,
                       FrameOf(img, enc.alphaPresent, d))
BY DEF WithFrame, NewEncoder, FrameOf, AfterAdding

(* A step of the loop that adds nothing keeps what has been added.            *)
LEMMA KeepLoop ==
    ASSUME LoopInv, req' = req, pc \in Coding, encoder' = encoder, frame_index' = frame_index,
           {"exif", "xmp"} \subseteq DOMAIN avif,
           Description(avif') = Description(avif), avif'.exif = avif.exif, avif'.xmp = avif.xmp
    PROVE  /\ encoder'.codec = req'.codec
           /\ encoder'.timescale = IF n_drawables(req') = 1 THEN 1 ELSE req'.timescale
           /\ frame_index' \in Int /\ -1 <= frame_index' /\ frame_index' < n_drawables(req')
           /\ encoder'.frames = FramesUpTo(Added)'
           /\ (IF Added = 0 THEN Untouched ELSE Committed)'
<1>1. Added' = Added /\ FramesUpTo(Added)' = FramesUpTo(Added)
  BY DEF Added, FramesUpTo
<1>2. ItemsFor(avif)' = ItemsFor(avif)
  BY DEF ItemsFor, ItemsWith
<1>3. Untouched' = Untouched /\ Committed' = Committed
  BY <1>2 DEF Untouched, Committed
<1> QED
  BY <1>1, <1>3 DEF LoopInv

LEMMA NextLoop ==
    RequestInv /\ BufferInv /\ QuantizerInv /\ ImageInv /\ LoopInv /\ [Next]_vars => LoopInv'
<1> SUFFICES ASSUME RequestInv, BufferInv, QuantizerInv, ImageInv, LoopInv, [Next]_vars
             PROVE  LoopInv'
  OBVIOUS
<1> DEFINE n == n_drawables(req)
<1> USE DEF Return, Continue
<1>1. req' = req
  BY SameRequest
<1>2. n \in Nat
  BY SizeOfRequest
<1>3. CASE CreateEncoder
  <2>1. pc = "encoder" /\ pc' = "fetch" /\ n >= 1 /\ frame_index' = n - 1
    BY <1>3 DEF CreateEncoder, BufferInv, WithAvif, FirstFrame
  <2>2. /\ encoder'.codec = req.codec
        /\ encoder'.timescale = IF n >= 2 THEN req.timescale ELSE 1
        /\ encoder'.frames = <<>> /\ encoder'.items = {} /\ encoder'.locked = <<>>
        /\ encoder'.single = FALSE
    BY <1>3 DEF CreateEncoder, NewEncoder
  <2>3. Added' = 0 /\ FramesUpTo(Added)' = <<>>
    <3>1. Added' = 0
      BY <1>1, <1>2, <2>1 DEF Added
    <3> QED
      BY <3>1, EmptyFrames DEF FramesUpTo
  <2> QED
    BY <1>1, <1>2, <2>1, <2>2, <2>3 DEF LoopInv, Untouched
<1>4. CASE FetchFrame
  <2>1. /\ pc = "fetch" /\ pc' = "convert" /\ frame_index >= 0 /\ frame_index' = frame_index
        /\ pixels' = frame_index + 1 /\ avif' = avif /\ encoder' = encoder
    BY <1>4 DEF FetchFrame, LayerAt
  <2>2. pc \in Coding /\ pc \in WithAvif /\ {"exif", "xmp"} \subseteq DOMAIN avif
    BY <2>1 DEF Coding, WithAvif, ImageInv, ImageFields
  <2> QED
    BY <1>1, <2>1, <2>2, KeepLoop DEF LoopInv
<1>5. CASE ConvertGray \/ ConvertColour
  <2>1. /\ pc = "convert" /\ pc' = "add" /\ frame_index' = frame_index /\ frame_index >= 0
        /\ pixels' = pixels /\ pixels = frame_index + 1 /\ encoder' = encoder
    BY <1>5 DEF ConvertGray, ConvertColour, LoopInv, Coding
  <2>2. pc \in Coding /\ pc \in WithAvif /\ DOMAIN avif = ImageFields
    BY <2>1 DEF Coding, WithAvif, ImageInv
  <2>3. avif' = avif \/ \E scale : avif' = Filled(avif, req, scale)
    BY <1>5 DEF ConvertGray, ConvertColour
  <2>4. \A f \in ImageFields \ {"yuv", "alpha", "opaque", "scale"} : avif'[f] = avif[f]
    BY <2>2, <2>3 DEF ImageFields, Filled
  <2>5. Description(avif') = Description(avif) /\ avif'.exif = avif.exif /\ avif'.xmp = avif.xmp
    BY <2>4 DEF ImageFields, Description
  <2>6. ASSUME req.depth \in EncodableDepths PROVE PlanesFilled'
    <3>1. avif.depth = req.depth /\ avif.hasAlpha = save_alpha(req)
      BY <2>2 DEF ImageInv
    <3>2. avif' = Filled(avif, req, req.depth)
      <4>1. CASE ConvertGray
        BY <2>6, <3>1, <4>1 DEF ConvertGray, GrayScale, UsesU16, EncodableDepths
      <4>2. CASE ConvertColour
        BY <2>6, <3>1, <4>2 DEF ConvertColour, ConvertsRGB
      <4> QED
        BY <1>5, <4>1, <4>2
    <3>3. /\ avif'.yuv = pixels /\ avif'.scale = req.depth
          /\ avif'.alpha = IF avif.hasAlpha THEN pixels ELSE 0
          /\ avif'.opaque = (avif.hasAlpha /\ ~req.layers[pixels].transparent)
      BY <2>2, <3>2 DEF Filled, ImageFields
    <3> QED
      BY <1>1, <2>1, <3>1, <3>3 DEF PlanesFilled
  <2>7. {"exif", "xmp"} \subseteq DOMAIN avif
    BY <2>2 DEF ImageFields
  <2> QED
    BY <1>1, <2>1, <2>2, <2>5, <2>6, <2>7, KeepLoop DEF LoopInv
<1>6. CASE AddFrame
  <2> DEFINE frame == FrameOf(avif, AlphaFor(req), duration(req))
  <2>1. /\ pc = "add" /\ pc' = "fetch" /\ frame_index' = frame_index - 1
        /\ avif' = avif
        /\ Verdict(encoder, avif, single(req)) = "OK"
        /\ encoder' = WithFrame(encoder, avif, duration(req), single(req))
    BY <1>6 DEF AddFrame
  <2>2. /\ pc \in Coding /\ pc \in WithAvif /\ avif.depth = req.depth
        /\ avif.hasAlpha = save_alpha(req)
    BY <2>1 DEF Coding, WithAvif, ImageInv
  <2>3. req.depth \in EncodableDepths /\ ~encoder.single
    BY <2>1, <2>2 DEF Verdict
  <2>4. /\ encoder.codec = req.codec
        /\ encoder.timescale = IF n = 1 THEN 1 ELSE req.timescale
        /\ frame_index \in Int /\ 0 <= frame_index /\ frame_index < n
        /\ pixels = frame_index + 1
        /\ encoder.frames = FramesUpTo(Added)
        /\ IF Added = 0 THEN Untouched ELSE Committed
        /\ PlanesFilled
    BY <2>1, <2>2, <2>3 DEF LoopInv
  <2>5. /\ Added \in Nat /\ Added' = Added + 1
        /\ pixels = n - Added
    BY <1>1, <1>2, <2>1, <2>4 DEF Added
  <2>6. frame = FrameFor(req, n - Added)
    <3>1. n >= 1
      BY <1>2, <2>4
    <3>2. duration(req) = IF n = 1 THEN 1 ELSE req.duration
      BY <1>2, <3>1 DEF duration
    <3>3. AlphaFor(req) => avif.alpha = pixels
      BY <2>4 DEF PlanesFilled, AlphaFor
    <3> QED
      BY <2>4, <2>5, <3>2, <3>3 DEF FrameFor, FrameOf, PlanesFilled
  <2> HIDE DEF frame
  <2>7. DOMAIN encoder = DOMAIN NewEncoder
    BY DEF QuantizerInv
  <2>8. AfterAdding(encoder', encoder, single(req), <<Description(avif)>>, AlphaFor(req),
                    ItemsFor(avif), frame)
    <3>1. CASE Added = 0
      <4>1. encoder.items = {} /\ encoder.single = FALSE
        BY <2>4, <3>1 DEF Untouched
      <4>2. KeepsAlpha(avif, single(req)) = AlphaFor(req)
        <5>1. pixels = n
          BY <1>2, <2>5, <3>1
        <5>2. avif.opaque = (save_alpha(req) /\ ~req.layers[n].transparent)
          BY <2>4, <5>1 DEF PlanesFilled
        <5> QED
          BY <2>2, <5>2 DEF KeepsAlpha, AlphaFor, single
      <4>3. AlphaFor(req) \in BOOLEAN /\ single(req) \in BOOLEAN
        BY DEF AlphaFor, single
      <4> DEFINE keeps == AlphaFor(req)
                 alone == single(req)
      <4> HIDE DEF keeps, alone
      <4>4. keeps \in BOOLEAN /\ alone \in BOOLEAN /\ KeepsAlpha(avif, alone) = keeps
        BY <4>2, <4>3 DEF keeps, alone
      <4>5. encoder' = WithFrame(encoder, avif, duration(req), alone)
        BY <2>1 DEF alone
      <4>6. AfterAdding(encoder', encoder, alone, <<Description(avif)>>, keeps,
                        ItemsWith(avif, keeps), FrameOf(avif, keeps, duration(req)))
        BY <2>7, <4>1, <4>4, <4>5, FirstFrameAdded
      <4> QED
        BY <4>6 DEF ItemsFor, frame, keeps, alone
    <3>2. CASE Added # 0
      <4>1. Committed
        BY <2>4, <3>2
      <4>2. encoder.items # {} /\ encoder.single = FALSE /\ single(req) = FALSE
        BY <2>3, <4>1 DEF Committed, ItemsFor, ItemsWith, single
      <4>3. encoder' = WithFrame(encoder, avif, duration(req), FALSE)
        BY <2>1, <4>2
      <4>4. AfterAdding(encoder', encoder, FALSE, encoder.metadata, encoder.alphaPresent,
                        encoder.items, FrameOf(avif, encoder.alphaPresent, duration(req)))
        BY <2>7, <4>2, <4>3, LaterFrameAdded
      <4>5. /\ encoder.alphaPresent = AlphaFor(req) /\ encoder.items = ItemsFor(avif)
            /\ encoder.metadata = <<Description(avif)>>
        BY <4>1 DEF Committed
      <4> QED
        BY <4>2, <4>4, <4>5 DEF frame
    <3> QED
      BY <3>1, <3>2
  <2>9. encoder'.frames = FramesUpTo(Added)'
    <3>1. encoder'.frames = FramesUpTo(Added + 1)
      BY <2>4, <2>5, <2>6, <2>8, OneMoreFrame DEF AfterAdding
    <3> QED
      BY <1>1, <2>5, <3>1 DEF FramesUpTo
  <2>10. Committed'
    <3>1. Frozen(encoder') = Frozen(encoder)
      BY <2>8 DEF AfterAdding, Frozen
    <3> QED
      BY <1>1, <2>1, <2>3, <2>8, <3>1 DEF AfterAdding, Committed, ItemsFor, Description
  <2> QED
    BY <1>1, <1>2, <2>1, <2>4, <2>5, <2>8, <2>9, <2>10 DEF AfterAdding, LoopInv
<1>7. CASE \/ Refuse \/ GetSpace \/ CreateImage \/ DescribeICC \/ DescribeNCLX \/ AllocatePixels
           \/ Abort \/ FilterMetadata \/ FilterFailed \/ AttachExif \/ ExifFailed \/ AttachXMP
           \/ AddFails \/ Finish \/ FinishFails \/ Open \/ OpenFails \/ Write \/ ReturnTrue \/ Kill
  <2>1. pc' \notin Coding
    BY <1>7 DEF Coding, Refuse, GetSpace, CreateImage, DescribeICC, DescribeNCLX, AllocatePixels,
         Abort, FilterMetadata, FilterFailed, AttachExif, ExifFailed, AttachXMP,
         AddFails, Finish, FinishFails, Open, OpenFails, Write, ReturnTrue, Kill
  <2> QED
    BY <2>1 DEF LoopInv
<1>8. CASE UNCHANGED vars
  <2>1. /\ pc' = pc /\ pixels' = pixels /\ encoder' = encoder /\ avif' = avif
        /\ frame_index' = frame_index
    BY <1>8 DEF vars
  <2>2. pc \in Coding => {"exif", "xmp"} \subseteq DOMAIN avif
    BY DEF Coding, WithAvif, ImageInv, ImageFields
  <2>3. PlanesFilled' = PlanesFilled
    BY <1>1, <2>1 DEF PlanesFilled
  <2> QED
    BY <1>1, <2>1, <2>2, <2>3, KeepLoop DEF LoopInv
<1> QED
  BY <1>3, <1>4, <1>5, <1>6, <1>7, <1>8 DEF Next, Step, Done

LEMMA InitLoop == Init => LoopInv
BY DEF Init, LoopInv, Coding

EncodingInv == RequestInv /\ BufferInv /\ QuantizerInv /\ ImageInv /\ LoopInv

LEMMA InitEncoding == Init => EncodingInv
<1>1. Init => BufferInv
  BY DEF Init, BufferInv, WithAvif, WithPixels
<1>2. Init => QuantizerInv
  BY DEF Init, QuantizerInv, QuantizersOrdered, NewEncoder
<1> QED
  BY <1>1, <1>2, InitRequest, InitImage, InitLoop DEF EncodingInv

LEMMA NextEncoding == EncodingInv /\ [Next]_vars => EncodingInv'
BY NextRequest, NextBuffer, NextQuantizer, NextImage, NextLoop DEF EncodingInv

LEMMA FirstLayerHasPixels ==
    ASSUME RequestInv, n_drawables(req) >= 1
    PROVE  req.layers[1].width # 0 /\ req.layers[1].height # 0
<1>1. req.layers \in Seq(Layer)
  BY DEF RequestInv, Request
<1>2. req.layers[1] \in Layer
  BY <1>1 DEF n_drawables
<1> QED
  BY <1>2 DEF Layer

(* For every list of drawables and every set of encoders, libavif has no      *)
(* reason to refuse a frame but a missing codec, a depth AV1 lacks, or a      *)
(* second frame too large for a track.                                        *)
THEOREM ProtocolAlwaysKept == Spec => []ProtocolKept
<1>1. EncodingInv => ProtocolKept
  <2> SUFFICES ASSUME EncodingInv, pc = "add",
                      CanEncode(encoder.codec), avif.depth \in EncodableDepths
               PROVE  LET verdict == Verdict(encoder, avif, single(req))
                      IN  \/ verdict = "OK"
                          \/ /\ verdict = "INVALID_ARGUMENT"
                             /\ avif.width > MaxSequenceSide \/ avif.height > MaxSequenceSide
    BY DEF ProtocolKept, Verdict
  <2> DEFINE n == n_drawables(req)
  <2>1. n \in Nat /\ n >= 1
    BY SizeOfRequest DEF EncodingInv, BufferInv, WithAvif
  <2>2. /\ avif.width # 0 /\ avif.height # 0 /\ avif.allocated
        /\ avif.hasAlpha = save_alpha(req)
    BY <2>1, FirstLayerHasPixels DEF EncodingInv, ImageInv, WithAvif, Coding
  <2>3. /\ frame_index \in Int /\ 0 <= frame_index /\ frame_index < n
        /\ encoder.frames = FramesUpTo(Added)
        /\ IF Added = 0 THEN Untouched ELSE Committed
    BY DEF EncodingInv, LoopInv, Coding
  <2>4. Added \in Nat /\ (n = 1 => Added = 0)
    BY <2>1, <2>3 DEF Added
  <2>5. Len(encoder.frames) = Added
    BY <2>3, <2>4 DEF FramesUpTo
  <2>6. CASE Added = 0
    <3>1. encoder.items = {} /\ encoder.locked = <<>> /\ encoder.single = FALSE
      BY <2>3, <2>6 DEF Untouched
    <3> QED
      BY <2>2, <2>5, <2>6, <3>1 DEF Verdict
  <2>7. CASE Added # 0
    <3>1. Committed /\ single(req) = FALSE
      BY <2>3, <2>4, <2>7 DEF single
    <3>2. encoder.single = FALSE /\ encoder.locked = <<Frozen(encoder)>>
      BY <3>1 DEF Committed
    <3>3. encoder.metadata[1] = Description(avif)
      BY <3>1 DEF Committed
    <3>4. Compatible(encoder, avif)
      <4>1. encoder.alphaPresent => avif.hasAlpha
        BY <2>2, <3>1, Zenon DEF Committed, AlphaFor
      <4> QED
        BY <3>3, <4>1 DEF Compatible, PixelFormat, Description
    <3>5. encoder.metadata[1].width = avif.width /\ encoder.metadata[1].height = avif.height
      BY <3>3 DEF Description
    <3> QED
      BY <2>2, <3>1, <3>2, <3>4, <3>5 DEF Verdict
  <2> QED
    BY <2>6, <2>7
<1> QED
  BY InitEncoding, NextEncoding, <1>1, PTL DEF Spec

------------------------------------------------------------------------------
(* The encoded data: made once the loop has added every drawable, and kept.   *)
RawInv ==
    /\ raw \in {<<>>} \cup {<<f>> : f \in AcceptableFiles(req)}
    /\ pc \in {"open", "write", "written"} => raw # <<>>

FileFor(r, exif, xmp, colour, irot, imir) ==
    [brand |-> IF n_drawables(r) = 1 THEN "avif" ELSE "avis",
     frames |-> [i \in 1..n_drawables(r) |-> FrameFor(r, n_drawables(r) + 1 - i)],
     alpha |-> AlphaFor(r), exif |-> exif, xmp |-> xmp,
     depth |-> r.depth, yuvFormat |-> IF is_gray(r) THEN "YUV400" ELSE r.format,
     colour |-> colour,
     width |-> r.layers[1].width, height |-> r.layers[1].height,
     irot |-> irot, imir |-> imir,
     timescale |-> IF n_drawables(r) = 1 THEN 1 ELSE r.timescale]

LEMMA FileAccepted ==
    ASSUME NEW r, n_drawables(r) # 0,
           NEW exif \in {FALSE, r.metadata /\ r.exif}, NEW xmp \in {FALSE, r.metadata /\ r.xmp},
           NEW colour \in ColoursFor(r),
           NEW irot, irot = IF exif THEN irotFor(r.orientation) ELSE <<>>,
           NEW imir, imir = IF exif THEN imirFor(r.orientation) ELSE <<>>
    PROVE  FileFor(r, exif, xmp, colour, irot, imir) \in AcceptableFiles(r)
<1> DEFINE file == FileFor(r, exif, xmp, colour, irot, imir)
<1>1. irot \in {<<>>, irotFor(r.orientation)} /\ imir \in {<<>>, imirFor(r.orientation)}
  OBVIOUS
<1>2. <<file.irot, file.imir>> = IF file.exif THEN <<irotFor(r.orientation), imirFor(r.orientation)>>
                                 ELSE <<<<>>, <<>>>>
  BY DEF FileFor
<1>3. file \in
        [brand  : {IF n_drawables(r) = 1 THEN "avif" ELSE "avis"},
         frames : {[i \in 1..n_drawables(r) |-> FrameFor(r, n_drawables(r) + 1 - i)]},
         alpha  : {AlphaFor(r)},
         exif   : {FALSE, r.metadata /\ r.exif},
         xmp    : {FALSE, r.metadata /\ r.xmp},
         depth  : {r.depth},
         yuvFormat : {IF is_gray(r) THEN "YUV400" ELSE r.format},
         colour : ColoursFor(r),
         width  : {r.layers[1].width}, height : {r.layers[1].height},
         irot   : {<<>>, irotFor(r.orientation)},
         imir   : {<<>>, imirFor(r.orientation)},
         timescale : {IF n_drawables(r) = 1 THEN 1 ELSE r.timescale}]
  BY <1>1 DEF FileFor
<1> QED
  BY <1>2, <1>3, Zenon DEF AcceptableFiles

LEMMA FinishedFile ==
    ASSUME EncodingInv, pc = "fetch", frame_index < 0
    PROVE  EncodedFile(encoder) \in AcceptableFiles(req)
<1> DEFINE n == n_drawables(req)
<1>1. n \in Nat /\ n >= 1
  BY SizeOfRequest DEF EncodingInv, BufferInv, WithAvif
<1>2. /\ frame_index = -1
      /\ encoder.timescale = IF n = 1 THEN 1 ELSE req.timescale
      /\ encoder.frames = FramesUpTo(Added)
      /\ IF Added = 0 THEN Untouched ELSE Committed
  BY DEF EncodingInv, LoopInv, Coding
<1>3. Added = n
  BY <1>1, <1>2 DEF Added
<1>4. /\ encoder.metadata[1] = Description(avif) /\ encoder.items = ItemsFor(avif)
      /\ encoder.frames = [i \in 1..n |-> FrameFor(req, n + 1 - i)]
  BY <1>1, <1>2, <1>3 DEF Committed, FramesUpTo
<1>5. /\ avif.width = req.layers[1].width /\ avif.height = req.layers[1].height
      /\ avif.depth = req.depth
      /\ avif.yuvFormat = IF is_gray(req) THEN "YUV400" ELSE req.format
      /\ avif.exif \in {FALSE, req.metadata /\ req.exif}
      /\ avif.xmp \in {FALSE, req.metadata /\ req.xmp}
      /\ avif.irot = IF avif.exif THEN irotFor(req.orientation) ELSE <<>>
      /\ avif.imir = IF avif.exif THEN imirFor(req.orientation) ELSE <<>>
      /\ avif.colour \in ColoursFor(req)
  BY DEF EncodingInv, ImageInv, WithAvif
<1>6. /\ ("Exif" \in encoder.items) = avif.exif
      /\ ("XMP" \in encoder.items) = avif.xmp
      /\ ("Alpha" \in encoder.items) = AlphaFor(req)
  <2>1. avif.exif \in BOOLEAN /\ avif.xmp \in BOOLEAN /\ AlphaFor(req) \in BOOLEAN
    BY <1>5 DEF AlphaFor
  <2>2. /\ "Exif" \in encoder.items <=> avif.exif
        /\ "XMP" \in encoder.items <=> avif.xmp
        /\ "Alpha" \in encoder.items <=> AlphaFor(req)
    BY <1>4 DEF ItemsFor, ItemsWith
  <2> QED
    BY <2>1, <2>2
<1>7. Len(encoder.frames) = n
  BY <1>1, <1>4
<1>8. EncodedFile(encoder) = FileFor(req, avif.exif, avif.xmp, avif.colour, avif.irot, avif.imir)
  BY <1>1, <1>2, <1>4, <1>5, <1>6, <1>7 DEF EncodedFile, FileFor, Description
<1>9. n_drawables(req) # 0
  BY <1>1
<1>10. FileFor(req, avif.exif, avif.xmp, avif.colour, avif.irot, avif.imir) \in AcceptableFiles(req)
  BY <1>5, <1>9, FileAccepted, Zenon
<1> QED
  BY <1>8, <1>10

LEMMA NextRaw == EncodingInv /\ RawInv /\ [Next]_vars => RawInv'
<1> SUFFICES ASSUME EncodingInv, RawInv, [Next]_vars PROVE RawInv'
  OBVIOUS
<1> USE DEF Return, Continue
<1>1. req' = req
  BY SameRequest
<1>2. AcceptableFiles(req)' = AcceptableFiles(req)
  BY <1>1
<1>3. CASE Finish
  <2>1. pc = "fetch" /\ frame_index < 0 /\ raw' = <<EncodedFile(encoder)>>
    BY <1>3 DEF Finish
  <2> QED
    BY <1>2, <2>1, FinishedFile DEF RawInv
<1>4. CASE Open \/ Write
  BY <1>2, <1>4 DEF Open, Write, job, RawInv
<1>5. CASE \/ Refuse \/ GetSpace \/ CreateImage \/ DescribeICC \/ DescribeNCLX \/ AllocatePixels
           \/ Abort \/ FilterMetadata \/ FilterFailed \/ AttachExif \/ ExifFailed \/ AttachXMP
           \/ CreateEncoder \/ FetchFrame \/ ConvertGray \/ ConvertColour \/ AddFrame \/ AddFails
           \/ FinishFails \/ OpenFails \/ ReturnTrue \/ Kill
  <2>1. raw' = raw /\ pc' \notin {"open", "write", "written"}
    BY <1>5 DEF job, Refuse, GetSpace, CreateImage, DescribeICC, DescribeNCLX, AllocatePixels,
         Abort, FilterMetadata, FilterFailed, AttachExif, ExifFailed, AttachXMP, CreateEncoder,
         FetchFrame, ConvertGray, ConvertColour, AddFrame, AddFails, FinishFails, OpenFails,
         ReturnTrue, Kill
  <2> QED
    BY <1>2, <2>1 DEF RawInv
<1>6. CASE UNCHANGED vars
  BY <1>2, <1>6 DEF vars, RawInv
<1> QED
  BY <1>3, <1>4, <1>5, <1>6 DEF Next, Step, Done

LEMMA InitRaw == Init => RawInv
BY DEF Init, RawInv

(* For every request: whatever buffers were reused and whichever conversions  *)
(* were refused, what avifEncoderFinish hands back is a file of the request.  *)
THEOREM EncodedFileAlwaysTheRequest == Spec => []EncodedFileIsTheRequest
<1>1. RawInv => EncodedFileIsTheRequest
  BY DEF RawInv, EncodedFileIsTheRequest
<1> QED
  BY InitEncoding, NextEncoding, InitRaw, NextRaw, <1>1, PTL DEF Spec

------------------------------------------------------------------------------
(* The destination is the old file up to the phase that opens it, and the     *)
(* function has answered exactly when it has returned.                        *)
OutcomeInv ==
    /\ result = "none" <=> pc # "returned"
    /\ pc \notin {"write", "written", "returned", "killed"} =>
         dest = [state |-> "old", file |-> <<>>]
    /\ pc = "write" => dest = [state |-> "empty", file |-> <<>>]
    /\ pc = "written" => dest.state \in {"complete", "short"}

LEMMA InitOutcome == Init => OutcomeInv
BY DEF Init, OutcomeInv

(* The steps that only work in memory; the contract does not see them.        *)
Inner ==
    \/ GetSpace \/ CreateImage \/ DescribeICC \/ DescribeNCLX \/ AllocatePixels
    \/ FilterMetadata \/ FilterFailed \/ AttachExif \/ ExifFailed \/ AttachXMP
    \/ CreateEncoder \/ FetchFrame \/ ConvertGray \/ ConvertColour \/ AddFrame \/ Finish

LEMMA InnerStep ==
    ASSUME Inner
    PROVE  /\ pc \notin {"write", "written", "returned", "aborted", "killed"}
           /\ pc' \notin {"write", "written", "returned", "aborted", "killed"}
           /\ result' = result /\ dest' = dest
BY DEF Inner, Continue, job, GetSpace, CreateImage, DescribeICC, DescribeNCLX, AllocatePixels,
       FilterMetadata, FilterFailed, AttachExif, ExifFailed, AttachXMP, CreateEncoder,
       FetchFrame, ConvertGray, ConvertColour, AddFrame, Finish

LEMMA NextOutcome == OutcomeInv /\ [Next]_vars => OutcomeInv'
<1> SUFFICES ASSUME OutcomeInv, [Next]_vars PROVE OutcomeInv'
  OBVIOUS
<1> USE DEF Return, Continue
<1>1. CASE Inner
  BY <1>1, InnerStep DEF OutcomeInv
<1>2. CASE Refuse \/ AddFails \/ FinishFails \/ OpenFails \/ ReturnTrue
  BY <1>2 DEF Refuse, AddFails, FinishFails, OpenFails, ReturnTrue, OutcomeInv
<1>3. CASE Abort \/ Kill
  BY <1>3 DEF Abort, Kill, Ended, OutcomeInv
<1>4. CASE Open
  BY <1>4 DEF Open, OutcomeInv
<1>5. CASE Write
  BY <1>5 DEF Write, OutcomeInv
<1>6. CASE UNCHANGED vars
  BY <1>6 DEF vars, OutcomeInv
<1> QED
  BY <1>1, <1>2, <1>3, <1>4, <1>5, <1>6 DEF Next, Step, Done, Inner

(* Every step of save_layers is one of the contract's, or shows it nothing.   *)
LEMMA ContractStep ==
    RawInv /\ OutcomeInv /\ [Next]_vars => [Contract!Next]_(Contract!contractVars)
<1> SUFFICES ASSUME RawInv, OutcomeInv, [Next]_vars
             PROVE  [Contract!Next]_(Contract!contractVars)
  OBVIOUS
<1> DEFINE Answer(p, r) == IF p \in {"aborted", "killed"} THEN "dead"
                           ELSE IF r = "none" THEN "running" ELSE r
<1> USE DEF Return, Continue
<1>1. req' = req
  BY SameRequest
<1>2. CASE Inner
  <2>1. Answer(pc, result)' = Answer(pc, result) /\ dest' = dest
    BY <1>2, InnerStep
  <2> QED
    BY <1>1, <2>1 DEF Contract!contractVars
<1>3. CASE Refuse \/ AddFails \/ FinishFails \/ OpenFails
  <2>1. /\ Answer(pc, result) = "running" /\ dest.state = "old"
        /\ Answer(pc, result)' = "FALSE" /\ dest' = dest
    BY <1>3 DEF Refuse, AddFails, FinishFails, OpenFails, OutcomeInv
  <2> QED
    BY <1>1, <2>1 DEF Contract!Next, Contract!Fail
<1>4. CASE Abort \/ Kill
  <2>1. /\ Answer(pc, result) = "running"
        /\ Answer(pc, result)' = "dead" /\ dest' = dest
    BY <1>4 DEF Abort, Kill, Ended, OutcomeInv
  <2> QED
    BY <1>1, <2>1 DEF Contract!Next, Contract!Die
<1>5. CASE Open
  <2>1. /\ Answer(pc, result) = "running" /\ dest.state = "old"
        /\ Answer(pc, result)' = Answer(pc, result)
        /\ dest' = [state |-> "empty", file |-> <<>>]
    BY <1>5 DEF Open, OutcomeInv
  <2> QED
    BY <1>1, <2>1 DEF Contract!Next, Contract!Truncate
<1>6. CASE Write
  <2>1. /\ Answer(pc, result) = "running" /\ dest.state = "empty"
        /\ Answer(pc, result)' = Answer(pc, result)
        /\ dest' \in {[state |-> "complete", file |-> raw], [state |-> "short", file |-> <<>>]}
    BY <1>6 DEF Write, OutcomeInv
  <2>2. \E file \in AcceptableFiles(req) : raw = <<file>>
    BY <1>6 DEF Write, RawInv
  <2> QED
    BY <1>1, <2>1, <2>2 DEF Contract!Next, Contract!Store
<1>7. CASE ReturnTrue
  <2>1. /\ Answer(pc, result) = "running" /\ dest.state \in {"complete", "short"}
        /\ Answer(pc, result)' = "TRUE" /\ dest' = dest
    BY <1>7 DEF ReturnTrue, OutcomeInv
  <2> QED
    BY <1>1, <2>1 DEF Contract!Next, Contract!Succeed
<1>8. CASE UNCHANGED vars
  BY <1>8 DEF vars, Contract!contractVars
<1> QED
  BY <1>2, <1>3, <1>4, <1>5, <1>6, <1>7, <1>8 DEF Next, Step, Done, Inner

(* save_layers implements ExportContract for every set of requests: an export *)
(* that fails leaves the old file, and a complete new one is the request's.   *)
THEOREM ContractImplemented == Spec => ImplementsContract
<1>1. Init => Contract!Init
  BY DEF Init, Contract!Init
<1> QED
  BY InitEncoding, NextEncoding, InitRaw, NextRaw, InitOutcome, NextOutcome, ContractStep,
     <1>1, PTL DEF Spec, ImplementsContract, Contract!Spec

------------------------------------------------------------------------------
(* Types: the frame index and the layer in the pixel buffer stay what the     *)
(* loop left them, inside the request's list of drawables.                    *)
LoopTypes ==
    /\ pc \in Phases /\ error \in BOOLEAN
    /\ frame_index \in Int /\ pixels \in Int
    /\ frame_index = 0 \/ (-1 <= frame_index /\ frame_index <= n_drawables(req) - 1)
    /\ 0 <= pixels /\ pixels <= n_drawables(req)

LEMMA InitLoopTypes == RequestInv /\ Init => LoopTypes
<1> SUFFICES ASSUME RequestInv, Init PROVE LoopTypes
  OBVIOUS
<1>1. pc \in Phases /\ error \in BOOLEAN
  BY DEF Init, Phases
<1>2. frame_index = 0 /\ pixels = 0
  BY DEF Init
<1>3. n_drawables(req) \in Nat
  BY SizeOfRequest
<1> QED
  BY <1>1, <1>2, <1>3 DEF LoopTypes

LEMMA NextLoopTypes == EncodingInv /\ LoopTypes /\ [Next]_vars => LoopTypes'
<1> SUFFICES ASSUME EncodingInv, LoopTypes, [Next]_vars PROVE LoopTypes'
  OBVIOUS
<1> DEFINE n == n_drawables(req)
<1> USE DEF Return, Continue
<1>1. req' = req /\ n \in Nat
  BY SameRequest, SizeOfRequest DEF EncodingInv
<1>2. CASE CreateEncoder
  <2>1. n >= 1 /\ frame_index' = n - 1 /\ pixels' = pixels /\ error' = error /\ pc' \in Phases
    BY <1>2 DEF CreateEncoder, FirstFrame, Phases, EncodingInv, BufferInv, WithAvif
  <2> QED
    BY <1>1, <2>1 DEF LoopTypes
<1>3. CASE FetchFrame
  <2>1. /\ frame_index \in Int /\ -1 <= frame_index /\ frame_index < n /\ frame_index >= 0
        /\ frame_index' = frame_index /\ pixels' = frame_index + 1
        /\ error' = error /\ pc' \in Phases
    BY <1>3 DEF FetchFrame, LayerAt, Phases, EncodingInv, LoopInv, Coding
  <2> QED
    BY <1>1, <2>1 DEF LoopTypes
<1>4. CASE AddFrame
  <2>1. /\ frame_index \in Int /\ frame_index < n /\ frame_index >= 0
        /\ frame_index' = frame_index - 1 /\ pixels' = pixels
        /\ error' = error /\ pc' \in Phases
    BY <1>4 DEF AddFrame, Phases, EncodingInv, LoopInv, Coding
  <2> QED
    BY <1>1, <2>1 DEF LoopTypes
<1>5. CASE \/ Refuse \/ GetSpace \/ CreateImage \/ DescribeICC \/ DescribeNCLX \/ AllocatePixels
           \/ Abort \/ FilterMetadata \/ FilterFailed \/ AttachExif \/ ExifFailed \/ AttachXMP
           \/ ConvertGray \/ ConvertColour \/ AddFails \/ Finish \/ FinishFails
           \/ Open \/ OpenFails \/ Write \/ ReturnTrue \/ Kill
  <2>1. /\ frame_index' = frame_index /\ pixels' = pixels
        /\ error' \in BOOLEAN /\ pc' \in Phases
    BY <1>5 DEF job, LoopTypes, Phases, Refuse, GetSpace, CreateImage, DescribeICC, DescribeNCLX,
         AllocatePixels, Abort, FilterMetadata, FilterFailed, AttachExif, ExifFailed, AttachXMP,
         ConvertGray, ConvertColour, AddFails, Finish, FinishFails, Open, OpenFails, Write,
         ReturnTrue, Kill
  <2> QED
    BY <1>1, <2>1 DEF LoopTypes
<1>6. CASE UNCHANGED vars
  BY <1>1, <1>6 DEF vars, LoopTypes
<1> QED
  BY <1>2, <1>3, <1>4, <1>5, <1>6 DEF Next, Step, Done

(* The destination and the answer come from the steps that write them.        *)
EndTypes ==
    /\ dest.state \in {"old", "empty", "short", "complete"}
    /\ result \in {"none", "TRUE", "FALSE"}

LEMMA NextEndTypes == EndTypes /\ [Next]_vars => EndTypes'
<1> SUFFICES ASSUME EndTypes, [Next]_vars PROVE EndTypes'
  OBVIOUS
<1> USE DEF Return, Continue, EndTypes
<1>1. CASE Inner
  BY <1>1, InnerStep
<1>2. CASE Refuse \/ AddFails \/ FinishFails \/ OpenFails \/ ReturnTrue \/ Abort \/ Kill
  BY <1>2 DEF Refuse, AddFails, FinishFails, OpenFails, ReturnTrue, Abort, Kill
<1>3. CASE Open \/ Write
  BY <1>3 DEF Open, Write
<1>4. CASE UNCHANGED vars
  BY <1>4 DEF vars
<1> QED
  BY <1>1, <1>2, <1>3, <1>4 DEF Next, Step, Done, Inner

(* Every variable keeps its type, for every set of requests.                  *)
THEOREM AlwaysTyped == Spec => []TypeOK
<1>1. Init => LoopTypes /\ EndTypes
  BY InitRequest, InitLoopTypes DEF Init, EndTypes
<1>2. EncodingInv /\ HeldInv /\ RawInv /\ LoopTypes /\ EndTypes => TypeOK
  <2> SUFFICES ASSUME EncodingInv, HeldInv, RawInv, LoopTypes, EndTypes PROVE TypeOK
    OBVIOUS
  <2>1. n_drawables(req) \in Nat /\ req \in Request
    BY SizeOfRequest DEF EncodingInv, RequestInv
  <2>2. held \in [Resources -> {"none", "live", "freed", "lost", "corrupt"}]
    BY DEF HeldInv
  <2>3. Len(raw) <= 1
    BY DEF RawInv
  <2>4. frame_index \in -1..(n_drawables(req) - 1) \cup {0} /\ pixels \in 0..n_drawables(req)
    BY <2>1 DEF LoopTypes
  <2> QED
    BY <2>1, <2>2, <2>3, <2>4 DEF TypeOK, LoopTypes, EndTypes
<1> QED
  BY InitEncoding, NextEncoding, InitHeld, NextHeld, InitRaw, NextRaw, NextLoopTypes,
     NextEndTypes, <1>1, <1>2, PTL DEF Spec

------------------------------------------------------------------------------
(* The most steps save_layers may still make: from a phase, and for frames    *)
(* still to be encoded.                                                       *)
StepsAfter(phase) ==
    CASE phase = "returned" \/ phase = "aborted" \/ phase = "killed" -> 0
      [] phase = "written" -> 1
      [] phase = "write" -> 2
      [] phase = "open" -> 3
      [] phase = "fetch" -> 4
      [] phase = "convert" -> 3
      [] phase = "add" -> 2
      [] phase = "encoder" -> 5
      [] phase = "xmp" \/ phase = "filter failed" -> 6
      [] phase = "exif failed" -> 7
      [] phase = "exif" -> 8
      [] phase = "metadata" -> 9
      [] phase = "pixels" -> 10
      [] phase = "colour" -> 11
      [] phase = "image" -> 12
      [] phase = "enter" -> 13

Preparing == {"enter", "image", "colour", "pixels", "metadata", "filter failed", "exif",
              "exif failed", "xmp", "encoder"}

FramesLeft ==
    IF pc \in Preparing THEN n_drawables(req) ELSE IF pc \in Coding THEN frame_index + 1 ELSE 0

StepsLeft == StepsAfter(pc) + 3 * FramesLeft

StepsKnown ==
    /\ StepsAfter("returned") = 0 /\ StepsAfter("aborted") = 0 /\ StepsAfter("killed") = 0
    /\ StepsAfter("written") = 1 /\ StepsAfter("write") = 2 /\ StepsAfter("open") = 3
    /\ StepsAfter("fetch") = 4 /\ StepsAfter("convert") = 3 /\ StepsAfter("add") = 2
    /\ StepsAfter("encoder") = 5 /\ StepsAfter("xmp") = 6 /\ StepsAfter("filter failed") = 6
    /\ StepsAfter("exif failed") = 7 /\ StepsAfter("exif") = 8
    /\ StepsAfter("metadata") = 9 /\ StepsAfter("pixels") = 10 /\ StepsAfter("colour") = 11
    /\ StepsAfter("image") = 12 /\ StepsAfter("enter") = 13

LEMMA StepsNumbered == StepsKnown
BY DEF StepsKnown, StepsAfter

Nearer == StepsLeft \in Nat /\ StepsLeft' < StepsLeft

Goes(from, to) == pc = from /\ pc' = to

Counts(steps, frames, steps_after, frames_after) ==
    /\ StepsAfter(pc) = steps /\ FramesLeft = frames
    /\ StepsAfter(pc') = steps_after /\ FramesLeft' = frames_after

(* Up to the frame loop.                                                      *)
LEMMA PreparingNearer ==
    ASSUME n_drawables(req) \in Nat,
           \/ GetSpace \/ CreateImage \/ DescribeICC \/ DescribeNCLX \/ AllocatePixels
           \/ FilterMetadata \/ FilterFailed \/ AttachExif \/ ExifFailed \/ AttachXMP
    PROVE  Nearer
<1> DEFINE n == n_drawables(req)
<1>1. pc \in Preparing /\ pc' \in Preparing /\ n_drawables(req)' = n
  BY DEF GetSpace, CreateImage, DescribeICC, DescribeNCLX, AllocatePixels, FilterMetadata,
         FilterFailed, AttachExif, ExifFailed, AttachXMP, Continue, Preparing, n_drawables, job
<1>2. FramesLeft = n /\ FramesLeft' = n
  BY <1>1, Zenon DEF FramesLeft
<1>3. \/ Goes("enter", "image") \/ Goes("image", "colour") \/ Goes("colour", "pixels")
      \/ Goes("pixels", "metadata") \/ Goes("pixels", "encoder")
      \/ Goes("metadata", "exif") \/ Goes("metadata", "filter failed")
      \/ Goes("filter failed", "encoder") \/ Goes("exif", "xmp") \/ Goes("exif", "exif failed")
      \/ Goes("exif failed", "xmp") \/ Goes("xmp", "encoder")
  BY DEF GetSpace, CreateImage, DescribeICC, DescribeNCLX, AllocatePixels, FilterMetadata,
         FilterFailed, AttachExif, ExifFailed, AttachXMP, Continue, Goes
<1>4. \/ Counts(13, n, 12, n) \/ Counts(12, n, 11, n) \/ Counts(11, n, 10, n)
      \/ Counts(10, n, 9, n) \/ Counts(10, n, 5, n)
      \/ Counts(9, n, 8, n) \/ Counts(9, n, 6, n) \/ Counts(6, n, 5, n)
      \/ Counts(8, n, 6, n) \/ Counts(8, n, 7, n) \/ Counts(7, n, 6, n)
  BY <1>2, <1>3, StepsNumbered, Zenon DEF StepsKnown, Goes, Counts
<1> HIDE DEF n
<1>5. n \in Nat
  BY DEF n
<1> QED
  BY <1>4, <1>5 DEF Counts, Nearer, StepsLeft

(* The frame loop, and the way into it and out of it.                         *)
LEMMA CodingNearer ==
    ASSUME RequestInv, LoopInv,
           CreateEncoder \/ FetchFrame \/ ConvertGray \/ ConvertColour \/ AddFrame \/ Finish
    PROVE  Nearer
<1> DEFINE n == n_drawables(req)
<1>1. n \in Nat
  BY SizeOfRequest
<1>2. CASE CreateEncoder
  <2>1. pc = "encoder" /\ pc' = "fetch" /\ frame_index' = n - 1
    BY <1>2 DEF CreateEncoder, Continue, FirstFrame
  <2>2. FramesLeft = n /\ FramesLeft' = frame_index' + 1
    BY <2>1, Zenon DEF FramesLeft, Preparing, Coding
  <2>3. Counts(5, n, 4, frame_index' + 1)
    BY <2>1, <2>2, StepsNumbered, Zenon DEF StepsKnown, Counts
  <2> HIDE DEF n
  <2> QED
    BY <1>1, <2>1, <2>3 DEF Counts, Nearer, StepsLeft
<1>3. CASE FetchFrame \/ ConvertGray \/ ConvertColour \/ AddFrame
  <2>1. pc \in Coding /\ pc' \in Coding
    BY <1>3 DEF FetchFrame, ConvertGray, ConvertColour, AddFrame, Continue, Coding
  <2>2. FramesLeft = frame_index + 1 /\ FramesLeft' = frame_index' + 1
    BY <2>1, Zenon DEF FramesLeft, Preparing, Coding
  <2>3. frame_index \in Int /\ (pc # "fetch" => frame_index >= 0)
    BY <2>1 DEF LoopInv
  <2>4. \/ pc = "fetch" /\ pc' = "convert" /\ frame_index' = frame_index /\ frame_index >= 0
        \/ pc = "convert" /\ pc' = "add" /\ frame_index' = frame_index
        \/ pc = "add" /\ pc' = "fetch" /\ frame_index' = frame_index - 1
    BY <1>3 DEF FetchFrame, ConvertGray, ConvertColour, AddFrame, Continue
  <2>5. frame_index >= 0
    BY <2>3, <2>4
  <2>6. \/ Counts(4, frame_index + 1, 3, frame_index' + 1) /\ frame_index' = frame_index
        \/ Counts(3, frame_index + 1, 2, frame_index' + 1) /\ frame_index' = frame_index
        \/ Counts(2, frame_index + 1, 4, frame_index' + 1) /\ frame_index' = frame_index - 1
    BY <2>2, <2>4, StepsNumbered, Zenon DEF StepsKnown, Counts
  <2> QED
    BY <2>3, <2>5, <2>6 DEF Counts, Nearer, StepsLeft
<1>4. CASE Finish
  <2>1. pc = "fetch" /\ pc' = "open" /\ frame_index = -1
    BY <1>4 DEF Finish, Continue, LoopInv, Coding
  <2>2. FramesLeft = frame_index + 1 /\ FramesLeft' = 0
    BY <2>1, Zenon DEF FramesLeft, Preparing, Coding
  <2>3. Counts(4, frame_index + 1, 3, 0)
    BY <2>1, <2>2, StepsNumbered, Zenon DEF StepsKnown, Counts
  <2> QED
    BY <2>1, <2>3 DEF Counts, Nearer, StepsLeft
<1> QED
  BY <1>2, <1>3, <1>4

(* Writing.                                                                   *)
LEMMA WritingNearer ==
    ASSUME Open \/ Write
    PROVE  Nearer
<1>1. Goes("open", "write") \/ Goes("write", "written")
  BY DEF Open, Write, Continue, Goes
<1>2. pc \notin Preparing \cup Coding /\ pc' \notin Preparing \cup Coding
  BY <1>1 DEF Goes, Preparing, Coding
<1>3. FramesLeft = 0 /\ FramesLeft' = 0
  BY <1>2, Zenon DEF FramesLeft
<1>4. Counts(3, 0, 2, 0) \/ Counts(2, 0, 1, 0)
  BY <1>1, <1>3, StepsNumbered, Zenon DEF StepsKnown, Goes, Counts
<1> QED
  BY <1>4 DEF Counts, Nearer, StepsLeft

(* The ways out, from any phase.                                              *)
LEMMA ExitNearer ==
    ASSUME pc \in Phases, RequestInv, LoopInv,
           \/ Refuse \/ AddFails \/ FinishFails \/ OpenFails \/ ReturnTrue \/ Abort \/ Kill
    PROVE  Nearer
<1>1. /\ pc \notin {"returned", "aborted", "killed"}
      /\ \/ pc' = "returned"
         \/ pc' = "aborted"
         \/ pc' = "killed"
  BY DEF Refuse, AddFails, FinishFails, OpenFails, ReturnTrue, Abort, Kill, Ended, Return
<1>2. StepsAfter(pc') = 0 /\ FramesLeft' = 0
  BY <1>1, StepsNumbered, Zenon DEF StepsKnown, FramesLeft, Preparing, Coding
<1>3. StepsAfter(pc) \in 1 .. 13
  <2>1. \/ pc = "enter" \/ pc = "image" \/ pc = "colour" \/ pc = "pixels" \/ pc = "metadata"
        \/ pc = "filter failed" \/ pc = "exif" \/ pc = "exif failed" \/ pc = "xmp"
        \/ pc = "encoder" \/ pc = "fetch" \/ pc = "convert" \/ pc = "add"
        \/ pc = "open" \/ pc = "write" \/ pc = "written"
    BY <1>1 DEF Phases
  <2>2. \/ StepsAfter(pc) = 1 \/ StepsAfter(pc) = 2 \/ StepsAfter(pc) = 3
        \/ StepsAfter(pc) = 4 \/ StepsAfter(pc) = 5 \/ StepsAfter(pc) = 6
        \/ StepsAfter(pc) = 7 \/ StepsAfter(pc) = 8 \/ StepsAfter(pc) = 9
        \/ StepsAfter(pc) = 10 \/ StepsAfter(pc) = 11 \/ StepsAfter(pc) = 12
        \/ StepsAfter(pc) = 13
    BY <2>1, StepsNumbered, Zenon DEF StepsKnown
  <2> QED
    BY <2>2
<1>4. FramesLeft \in Nat
  <2>1. n_drawables(req) \in Nat
    BY SizeOfRequest
  <2>2. pc \in Coding => frame_index + 1 \in Nat
    BY DEF LoopInv
  <2> QED
    BY <2>1, <2>2, Zenon DEF FramesLeft
<1> QED
  BY <1>2, <1>3, <1>4 DEF Nearer, StepsLeft

LEMMA PhaseStays == pc \in Phases /\ [Next]_vars => (pc \in Phases)'
<1> SUFFICES ASSUME pc \in Phases, [Next]_vars PROVE pc' \in Phases
  OBVIOUS
<1> USE DEF Return, Continue, Phases
<1>1. CASE Inner
  BY <1>1 DEF Inner, GetSpace, CreateImage, DescribeICC, DescribeNCLX, AllocatePixels,
              FilterMetadata, FilterFailed, AttachExif, ExifFailed, AttachXMP, CreateEncoder,
              FetchFrame, ConvertGray, ConvertColour, AddFrame, Finish
<1>2. CASE Refuse \/ AddFails \/ FinishFails \/ OpenFails \/ ReturnTrue \/ Abort \/ Kill
  BY <1>2 DEF Refuse, AddFails, FinishFails, OpenFails, ReturnTrue, Abort, Kill
<1>3. CASE Open \/ Write
  BY <1>3 DEF Open, Write
<1>4. CASE UNCHANGED vars
  BY <1>4 DEF vars
<1> QED
  BY <1>1, <1>2, <1>3, <1>4 DEF Next, Step, Done, Inner

(* Every step of save_layers brings its end nearer: no retry, and the frame   *)
(* loop runs out.  A call with n drawables is over after 13 + 3 n steps, for  *)
(* any n.                                                                     *)
THEOREM StepsRunOut == Spec => [][Nearer]_vars
<1>1. pc \in Phases /\ EncodingInv /\ [Next]_vars => [Nearer]_vars
  <2> SUFFICES ASSUME pc \in Phases, EncodingInv, Next, vars' # vars PROVE Nearer
    OBVIOUS
  <2>1. RequestInv /\ LoopInv /\ n_drawables(req) \in Nat
    BY SizeOfRequest DEF EncodingInv
  <2> QED
    BY <2>1, PreparingNearer, CodingNearer, WritingNearer, ExitNearer DEF Next, Step, Done
<1>2. Init => pc \in Phases
  BY DEF Init, Phases
<1> QED
  BY PhaseStays, InitEncoding, NextEncoding, <1>1, <1>2, PTL DEF Spec

==============================================================================
