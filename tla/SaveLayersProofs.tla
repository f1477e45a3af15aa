--------------------------- MODULE SaveLayersProofs ---------------------------
(* SaveLayers for every set of requests and every set of encoders.            *)
EXTENDS SaveLayers, TLAPS

------------------------------------------------------------------------------
(* Resources: each phase holds exactly the resources listed for it, whatever  *)
(* path led there; that is what makes every exit release the right ones.      *)
LiveAt(phase) ==
    CASE phase = "image" -> {"profile"}
      [] phase = "colour" -> {"profile", "avif"}
      [] phase = "pixels" -> {"avif"}
      [] phase \in {"metadata", "filter failed", "encoder"} -> {"avif", "pixels"}
      [] phase \in {"exif", "exif failed", "xmp"} -> {"avif", "pixels", "filtered_metadata"}
      [] phase \in {"fetch", "convert", "add"} -> {"avif", "pixels", "encoder"}
      [] phase \in {"open", "written"} -> {"raw"}
      [] phase = "write" -> {"raw", "outfile"}
      [] OTHER -> {}

HeldInv ==
    /\ held \in [Resources -> {"none", "live", "freed"}]
    /\ pc \notin {"aborted", "killed"} => \A r \in Resources : held[r] = "live" <=> r \in LiveAt(pc)

LEMMA InitHeld == Init => HeldInv
BY DEF Init, HeldInv, LiveAt, Resources

(* Acquiring what is not live and releasing what is live are the two ways to  *)
(* keep a table of resources free of leaks and double frees.                  *)
LEMMA AcquireKeeps ==
    ASSUME NEW h \in [Resources -> {"none", "live", "freed"}],
           NEW q \in Resources, h[q] # "live"
    PROVE  /\ Acquire(h, q) \in [Resources -> {"none", "live", "freed"}]
           /\ \A r \in Resources : Acquire(h, q)[r] = "live" <=> (r = q \/ h[r] = "live")
BY DEF Acquire

LEMMA ReleaseKeeps ==
    ASSUME NEW h \in [Resources -> {"none", "live", "freed"}],
           NEW S \in SUBSET Resources, \A r \in S : h[r] = "live"
    PROVE  /\ Release(h, S) \in [Resources -> {"none", "live", "freed"}]
           /\ \A r \in Resources : Release(h, S)[r] = "live" <=> (r \notin S /\ h[r] = "live")
BY DEF Release

(* A step that acquires q, or releases S, between two phases that differ by   *)
(* just that.                                                                 *)
LEMMA AcquireStep ==
    ASSUME HeldInv, pc \notin {"aborted", "killed"},
           NEW q \in Resources, q \notin LiveAt(pc),
           held' = Acquire(held, q), LiveAt(pc') = LiveAt(pc) \cup {q}
    PROVE  HeldInv'
<1>1. /\ held' \in [Resources -> {"none", "live", "freed"}]
      /\ \A r \in Resources : held'[r] = "live" <=> (r = q \/ held[r] = "live")
  BY AcquireKeeps DEF HeldInv
<1> QED
  BY <1>1 DEF HeldInv

LEMMA ReleaseStep ==
    ASSUME HeldInv, pc \notin {"aborted", "killed"},
           NEW S \in SUBSET Resources, S \subseteq LiveAt(pc),
           held' = Release(held, S), LiveAt(pc') = LiveAt(pc) \ S
    PROVE  HeldInv'
<1>1. /\ held' \in [Resources -> {"none", "live", "freed"}]
      /\ \A r \in Resources : held'[r] = "live" <=> (r \notin S /\ held[r] = "live")
  BY ReleaseKeeps DEF HeldInv
<1> QED
  BY <1>1 DEF HeldInv

LEMMA KeepStep ==
    ASSUME HeldInv, pc \notin {"aborted", "killed"}, held' = held, LiveAt(pc') = LiveAt(pc)
    PROVE  HeldInv'
BY DEF HeldInv

LEMMA NextHeld == HeldInv /\ [Next]_vars => HeldInv'
<1> SUFFICES ASSUME HeldInv, [Next]_vars PROVE HeldInv'
  OBVIOUS
<1> USE DEF Return, Continue
<1>1. CASE Refuse
  BY <1>1, KeepStep DEF Refuse, LiveAt
<1>2. CASE GetSpace
  BY <1>2, AcquireStep DEF GetSpace, LiveAt, Resources
<1>3. CASE CreateImage
  BY <1>3, AcquireStep DEF CreateImage, LiveAt, Resources
<1>4. CASE DescribeICC
  <2>1. pc = "colour" /\ pc' = "pixels"
    BY <1>4 DEF DescribeICC
  <2>2. CASE is_gray(req)
    <3> DEFINE h1 == Release(held, {"profile"})
               h2 == Acquire(h1, "profile")
    <3>1. held' = Release(h2, {"profile"})
      BY <1>4, <2>2 DEF DescribeICC
    <3>2. /\ h1 \in [Resources -> {"none", "live", "freed"}]
          /\ \A r \in Resources : h1[r] = "live" <=> (r # "profile" /\ held[r] = "live")
      BY <2>1, ReleaseKeeps DEF HeldInv, LiveAt, Resources
    <3> HIDE DEF h1
    <3>3. /\ h2 \in [Resources -> {"none", "live", "freed"}]
          /\ \A r \in Resources : h2[r] = "live" <=> (r = "profile" \/ h1[r] = "live")
      BY <3>2, AcquireKeeps DEF Resources
    <3> HIDE DEF h2
    <3>4. /\ held' \in [Resources -> {"none", "live", "freed"}]
          /\ \A r \in Resources : held'[r] = "live" <=> (r # "profile" /\ h2[r] = "live")
      BY <3>1, <3>3, ReleaseKeeps DEF Resources
    <3> QED
      BY <2>1, <3>2, <3>3, <3>4 DEF HeldInv, LiveAt
  <2>3. CASE ~is_gray(req)
    BY <1>4, <2>1, <2>3, ReleaseStep DEF DescribeICC, LiveAt, Resources
  <2> QED
    BY <2>2, <2>3
<1>5. CASE DescribeNCLX
  BY <1>5, ReleaseStep DEF DescribeNCLX, LiveAt, Resources
<1>6. CASE AllocatePixels
  BY <1>6, AcquireStep DEF AllocatePixels, LiveAt, Resources
<1>7. CASE Abort \/ Kill
  BY <1>7 DEF Abort, Kill, HeldInv
<1>8. CASE FilterMetadata
  <2>1. CASE held' = Acquire(held, "filtered_metadata") /\ pc' = "exif"
    BY <1>8, <2>1, AcquireStep DEF FilterMetadata, LiveAt, Resources
  <2>2. CASE held' = held /\ pc' = "filter failed"
    BY <1>8, <2>2, KeepStep DEF FilterMetadata, LiveAt
  <2> QED
    BY <1>8, <2>1, <2>2 DEF FilterMetadata
<1>9. CASE FilterFailed \/ AttachExif \/ ExifFailed \/ FetchFrame \/ ConvertGray \/ ConvertColour \/ AddFrame
  BY <1>9, KeepStep DEF FilterFailed, AttachExif, ExifFailed, FetchFrame, ConvertGray,
                        ConvertColour, AddFrame, LiveAt
<1>10. CASE AttachXMP
  BY <1>10, ReleaseStep DEF AttachXMP, LiveAt, Resources
<1>11. CASE CreateEncoder
  BY <1>11, AcquireStep DEF CreateEncoder, LiveAt, Resources
<1>12. CASE AddFails
  BY <1>12, ReleaseStep DEF AddFails, FreedWhenAddFails, LiveAt, Resources
<1>13. CASE Finish
  <2> DEFINE h == Release(held, FreedWhenEncoded)
  <2>1. pc = "fetch" /\ pc' = "open" /\ held' = Acquire(h, "raw")
    BY <1>13 DEF Finish
  <2>2. /\ h \in [Resources -> {"none", "live", "freed"}]
        /\ \A r \in Resources : h[r] = "live" <=> (r \notin FreedWhenEncoded /\ held[r] = "live")
    BY <2>1, ReleaseKeeps DEF HeldInv, LiveAt, Resources, FreedWhenEncoded
  <2> HIDE DEF h
  <2>3. h["raw"] # "live"
    BY <2>1, <2>2 DEF HeldInv, LiveAt, Resources
  <2>4. /\ held' \in [Resources -> {"none", "live", "freed"}]
        /\ \A r \in Resources : held'[r] = "live" <=> (r = "raw" \/ h[r] = "live")
    BY <2>1, <2>2, <2>3, AcquireKeeps DEF Resources
  <2> QED
    BY <2>1, <2>2, <2>4 DEF HeldInv, LiveAt, FreedWhenEncoded
<1>14. CASE FinishFails
  BY <1>14, ReleaseStep DEF FinishFails, FreedWhenEncoded, LiveAt, Resources
<1>15. CASE Open
  BY <1>15, AcquireStep DEF Open, LiveAt, Resources
<1>16. CASE OpenFails
  BY <1>16, ReleaseStep DEF OpenFails, FreedWhenOpenFails, LiveAt, Resources
<1>17. CASE Write
  BY <1>17, ReleaseStep DEF Write, LiveAt, Resources
<1>18. CASE ReturnTrue
  BY <1>18, ReleaseStep DEF ReturnTrue, LiveAt, Resources
<1>19. CASE UNCHANGED vars
  BY <1>19 DEF vars, HeldInv
<1> QED
  BY <1>1, <1>2, <1>3, <1>4, <1>5, <1>6, <1>7, <1>8, <1>9, <1>10, <1>11, <1>12, <1>13,
     <1>14, <1>15, <1>16, <1>17, <1>18, <1>19 DEF Next, Step, Done

(* No exit, early or late, frees twice, loses or misses a resource a phase    *)
(* uses.                                                                      *)
THEOREM ResourcesAlwaysInOrder == Spec => []ResourcesInOrder
<1>1. HeldInv => ResourcesInOrder
  BY DEF HeldInv, ResourcesInOrder, Used, LiveAt, Resources
<1> QED
  BY InitHeld, NextHeld, <1>1, PTL DEF Spec

(* However save_layers returns, it holds nothing any more.                    *)
THEOREM NothingEverLeftBehind == Spec => []NothingLeftBehind
<1>1. HeldInv => NothingLeftBehind
  BY DEF HeldInv, NothingLeftBehind, LiveAt
<1> QED
  BY InitHeld, NextHeld, <1>1, PTL DEF Spec

------------------------------------------------------------------------------
(* Errors: only the phases between a failing call and the code that clears    *)
(* its error can see one, and a process that died there.                      *)
ErrorInv == error => pc \in {"image", "filter failed", "exif failed", "killed"}

LEMMA NextError == ErrorInv /\ [Next]_vars => ErrorInv'
<1> SUFFICES ASSUME ErrorInv, [Next]_vars PROVE ErrorInv'
  OBVIOUS
<1> USE DEF ErrorInv, Return, Continue
<1>1. CASE Refuse \/ GetSpace \/ CreateImage \/ DescribeICC \/ DescribeNCLX \/ AllocatePixels \/ Abort
  BY <1>1 DEF Refuse, GetSpace, CreateImage, DescribeICC, DescribeNCLX, AllocatePixels, Abort
<1>2. CASE FilterMetadata \/ FilterFailed \/ AttachExif \/ ExifFailed \/ AttachXMP
  BY <1>2 DEF FilterMetadata, FilterFailed, AttachExif, ExifFailed, AttachXMP
<1>3. CASE CreateEncoder \/ FetchFrame \/ ConvertGray \/ ConvertColour \/ AddFrame \/ AddFails
  BY <1>3 DEF CreateEncoder, FetchFrame, ConvertGray, ConvertColour, AddFrame, AddFails
<1>4. CASE Finish \/ FinishFails \/ Open \/ OpenFails \/ Write \/ ReturnTrue
  BY <1>4 DEF Finish, FinishFails, Open, OpenFails, Write, ReturnTrue
<1>5. CASE Kill
  BY <1>5 DEF Kill
<1>6. CASE UNCHANGED vars
  BY <1>6 DEF vars
<1> QED
  BY <1>1, <1>2, <1>3, <1>4, <1>5, <1>6 DEF Next, Step, Done

(* No call that may set an error is given one that is set already, and none   *)
(* is left behind by a returning save_layers.                                 *)
THEOREM ErrorsAlwaysCleared == Spec => []ErrorsCleared
<1>1. Init => ErrorInv
  BY DEF Init, ErrorInv
<1>2. ErrorInv => ErrorsCleared
  BY DEF ErrorInv, ErrorsCleared
<1> QED
  BY NextError, <1>1, <1>2, PTL DEF Spec

------------------------------------------------------------------------------
(* Requests keep their types and are never exchanged.                         *)
RequestInv == req \in Request

LEMMA InitRequest == Init => RequestInv
BY RequestsAssumption DEF Init, RequestInv

LEMMA SameRequest == [Next]_vars => req' = req
BY DEF Next, Step, Done, vars, job, Kill, Refuse, GetSpace, CreateImage, DescribeICC,
       DescribeNCLX, AllocatePixels, Abort, FilterMetadata, FilterFailed, AttachExif,
       ExifFailed, AttachXMP, CreateEncoder, FetchFrame, ConvertGray, ConvertColour,
       AddFrame, AddFails, Finish, FinishFails, Open, OpenFails, Write, ReturnTrue

LEMMA NextRequest == RequestInv /\ [Next]_vars => RequestInv'
BY SameRequest DEF RequestInv

------------------------------------------------------------------------------
(* Quantizers: the encoder is the new one, or was set up with clamped values  *)
(* that adding frames leaves alone.                                           *)
LEMMA ClampedInOrder ==
    ASSUME NEW r \in Request
    PROVE  /\ ClampedMax(r) \in 0..63 /\ ClampedMin(r) \in 0..63 /\ ClampedAlpha(r) \in 0..63
           /\ ClampedMin(r) <= ClampedMax(r)
<1>1. r.minQuantizer \in Int /\ r.maxQuantizer \in Int /\ r.alphaQuantizer \in Int
  BY DEF Request
<1>2. ClampedMax(r) \in 0..63 /\ ClampedAlpha(r) \in 0..63
  BY <1>1 DEF ClampedMax, ClampedAlpha, Clamp
<1>3. ClampedMin(r) \in 0..ClampedMax(r)
  BY <1>1, <1>2 DEF ClampedMin, Clamp
<1> QED
  BY <1>2, <1>3

QuantizerInv ==
    /\ DOMAIN encoder = DOMAIN NewEncoder
    /\ QuantizersOrdered

(* Adding a frame touches the items, the frames, and what the first frame     *)
(* freezes.                                                                   *)
LEMMA WithFrameKeepsQuantizers ==
    ASSUME NEW enc, NEW img, NEW d, NEW alone,
           DOMAIN enc = DOMAIN NewEncoder
    PROVE  LET after == WithFrame(enc, img, d, alone)
           IN  /\ DOMAIN after = DOMAIN NewEncoder
               /\ \A q \in {"minQuantizer", "maxQuantizer", "minQuantizerAlpha", "maxQuantizerAlpha"} :
                      after[q] = enc[q]
<1> DEFINE prepared == IF enc.items = {} THEN WithItems(enc, img, alone) ELSE enc
<1>1. /\ DOMAIN prepared = DOMAIN NewEncoder
      /\ \A q \in {"minQuantizer", "maxQuantizer", "minQuantizerAlpha", "maxQuantizerAlpha"} :
             prepared[q] = enc[q]
  BY DEF WithItems, NewEncoder
<1> QED
  BY <1>1 DEF WithFrame, NewEncoder

LEMMA NextQuantizer == RequestInv /\ QuantizerInv /\ [Next]_vars => QuantizerInv'
<1> SUFFICES ASSUME RequestInv, QuantizerInv, [Next]_vars PROVE QuantizerInv'
  OBVIOUS
<1>1. CASE CreateEncoder
  <2>1. /\ ClampedMax(req) \in 0..63 /\ ClampedMin(req) \in 0..63 /\ ClampedAlpha(req) \in 0..63
        /\ ClampedMin(req) <= ClampedMax(req)
    BY ClampedInOrder DEF RequestInv
  <2>2. /\ DOMAIN encoder' = DOMAIN NewEncoder
        /\ encoder'.minQuantizer = ClampedMin(req)
        /\ encoder'.maxQuantizer = ClampedMax(req)
        /\ encoder'.minQuantizerAlpha = 0
        /\ encoder'.maxQuantizerAlpha \in {0, ClampedAlpha(req)}
    BY <1>1 DEF CreateEncoder, NewEncoder
  <2> QED
    BY <2>1, <2>2 DEF QuantizerInv, QuantizersOrdered
<1>2. CASE AddFrame
  <2>1. encoder' = WithFrame(encoder, avif, duration(req), single(req))
    BY <1>2 DEF AddFrame
  <2> QED
    BY <2>1, WithFrameKeepsQuantizers DEF QuantizerInv, QuantizersOrdered
<1>3. CASE UNCHANGED encoder
  BY <1>3 DEF QuantizerInv, QuantizersOrdered
<1>4. CreateEncoder \/ AddFrame \/ UNCHANGED encoder
  BY DEF Next, Step, Done, vars, job, Kill, Refuse, GetSpace, CreateImage, DescribeICC,
         DescribeNCLX, AllocatePixels, Abort, FilterMetadata, FilterFailed, AttachExif,
         ExifFailed, AttachXMP, FetchFrame, ConvertGray, ConvertColour, AddFails,
         Finish, FinishFails, Open, OpenFails, Write, ReturnTrue
<1> QED
  BY <1>1, <1>2, <1>3, <1>4

(* Any quantizers an export is asked for, in any order and out of any range,  *)
(* reach libavif as ordered pairs within 0..63.                               *)
THEOREM QuantizersAlwaysOrdered == Spec => []QuantizersOrdered
<1>1. Init => QuantizerInv
  BY DEF Init, QuantizerInv, QuantizersOrdered, NewEncoder
<1>2. QuantizerInv => QuantizersOrdered
  BY DEF QuantizerInv
<1> QED
  BY InitRequest, NextRequest, NextQuantizer, <1>1, <1>2, PTL DEF Spec

------------------------------------------------------------------------------
(* The pixel buffer: once allocated, its size and the babl format are the     *)
(* request's, whose first drawable exists since the call was not refused; and *)
(* the avifImage has the request's bit depth from the moment it exists.       *)
WithAvif    == {"colour", "pixels", "metadata", "filter failed", "exif", "exif failed",
                "xmp", "encoder", "fetch", "convert", "add"}
WithPixels  == WithAvif \ {"colour", "pixels"}

BufferInv ==
    /\ pc \in WithAvif \cup {"image"} => n_drawables(req) >= 1
    /\ pc \in WithAvif =>
         /\ {"depth", "colour"} \subseteq DOMAIN avif
         /\ avif.depth = req.depth
    /\ pc \in WithPixels =>
         /\ drawable_type(req) \in ImageTypes \ {"INDEXED"}
         /\ allocated = BytesAllocated(drawable_type(req), req.depth)
         /\ file_format.channels * file_format.bytes = allocated

(* The allocation switch and the babl formats agree on the bytes of a pixel,  *)
LEMMA FormatMatchesBuffer ==
    ASSUME NEW type \in ImageTypes \ {"INDEXED"}, NEW depth, NEW linear, NEW sp
    PROVE  FormatFor(type, depth, linear, sp).channels * FormatFor(type, depth, linear, sp).bytes
             = BytesAllocated(type, depth)
BY DEF ImageTypes, FormatFor, BytesAllocated

(* and so do the loops that read them, which ask the avifImage for the depth. *)
LEMMA ReadMatchesBuffer ==
    ASSUME NEW r \in Request, NEW img, img.depth = r.depth,
           drawable_type(r) \in ImageTypes \ {"INDEXED"}
    PROVE  BytesRead(r, img) = BytesAllocated(drawable_type(r), r.depth)
<1>1. r.depth \in 8..12
  BY DEF Request
<1>2. UsesU16(img) <=> r.depth # 8
  BY <1>1 DEF UsesU16
<1> QED
  BY <1>2 DEF BytesRead, BytesReadGray, BytesReadColour, BytesAllocated, is_gray, save_alpha, ImageTypes

LEMMA TypeOfRequest ==
    ASSUME RequestInv, n_drawables(req) >= 1
    PROVE  drawable_type(req) \in ImageTypes
<1>1. req.layers \in Seq(Layer)
  BY DEF RequestInv, Request
<1>2. req.layers[1] \in Layer
  BY <1>1 DEF n_drawables
<1> QED
  BY <1>2 DEF Layer, drawable_type

LEMMA NextBuffer == RequestInv /\ BufferInv /\ [Next]_vars => BufferInv'
<1> SUFFICES ASSUME RequestInv, BufferInv, [Next]_vars PROVE BufferInv'
  OBVIOUS
<1> USE DEF Return, Continue, WithAvif, WithPixels
<1>1. req' = req
  BY SameRequest
<1>2. CASE CreateImage
  BY <1>1, <1>2 DEF CreateImage, BufferInv, n_drawables
<1>3. CASE DescribeICC \/ DescribeNCLX
  <2>1. PICK c : avif' = [avif EXCEPT !.colour = c]
    BY <1>3 DEF DescribeICC, DescribeNCLX
  <2>2. pc = "colour" /\ pc' = "pixels"
    BY <1>3 DEF DescribeICC, DescribeNCLX
  <2> QED
    BY <1>1, <2>1, <2>2 DEF BufferInv
<1>4. CASE AllocatePixels
  <2>1. /\ pc = "pixels" /\ avif' = avif
        /\ drawable_type(req) # "INDEXED"
        /\ allocated' = BytesAllocated(drawable_type(req), req.depth)
        /\ file_format' = FormatFor(drawable_type(req), req.depth, req.linear, space)
    BY <1>4 DEF AllocatePixels
  <2>2. drawable_type(req) \in ImageTypes
    BY <2>1, TypeOfRequest DEF BufferInv
  <2> QED
    BY <1>1, <2>1, <2>2, FormatMatchesBuffer DEF BufferInv
<1>5. CASE AttachExif \/ AttachXMP \/ CreateEncoder \/ ConvertGray \/ ConvertColour
  <2>1. /\ pc \in WithPixels
        /\ allocated' = allocated /\ file_format' = file_format
    BY <1>5 DEF AttachExif, AttachXMP, CreateEncoder, ConvertGray, ConvertColour
  <2>2. {"depth", "colour"} \subseteq DOMAIN avif' /\ avif'.depth = avif.depth
    BY <1>5, <2>1 DEF BufferInv, AttachExif, avifImageSetMetadataExif, AttachXMP, CreateEncoder,
              ConvertGray, ConvertColour, Filled
  <2> QED
    BY <1>1, <2>1, <2>2 DEF BufferInv
<1>6. CASE FilterMetadata \/ FilterFailed \/ ExifFailed \/ FetchFrame \/ AddFrame
  BY <1>1, <1>6 DEF FilterMetadata, FilterFailed, ExifFailed, FetchFrame, AddFrame, job, BufferInv
<1>7. CASE GetSpace
  BY <1>1, <1>7 DEF GetSpace, BufferInv, n_drawables
<1>8. CASE \/ Refuse \/ Abort \/ AddFails \/ Finish \/ FinishFails
           \/ Open \/ OpenFails \/ Write \/ ReturnTrue \/ Kill
  <2>1. pc' \notin WithAvif \cup {"image"}
    BY <1>8 DEF Refuse, Abort, AddFails, Finish, FinishFails, Open, OpenFails,
                Write, ReturnTrue, Kill
  <2> QED
    BY <2>1 DEF BufferInv
<1>9. CASE UNCHANGED vars
  BY <1>9 DEF vars, BufferInv
<1> QED
  BY <1>2, <1>3, <1>4, <1>5, <1>6, <1>7, <1>8, <1>9 DEF Next, Step, Done

(* The pixel buffer is never read or written past its end, for any drawable   *)
(* type and bit depth: its three tables of pixel sizes agree.                 *)
THEOREM BufferAlwaysFits == Spec => []BufferFits
<1>1. Init => BufferInv
  BY DEF Init, BufferInv, WithAvif, WithPixels
<1>2. RequestInv /\ BufferInv => BufferFits
  BY ReadMatchesBuffer DEF RequestInv, BufferInv, BufferFits, WithAvif, WithPixels
<1> QED
  BY InitRequest, NextRequest, NextBuffer, <1>1, <1>2, PTL DEF Spec

------------------------------------------------------------------------------
(* Colours: the description fixed in the colour phase fits the space pixels   *)
(* will be fetched in; the format made from that space inherits this.         *)
IsGray == drawable_type(req) \in {"GRAY", "GRAYA"}

Described(colour) ==
    IF colour.icc = "none"
    THEN /\ colour.transfer = Transfer(req.linear)
         /\ IsGray => colour.primaries = 1
    ELSE IF IsGray
    THEN /\ colour.icc = (IF req.linear THEN "gray linear" ELSE "gray sRGB")
         /\ colour.transfer = Transfer(req.linear)
    ELSE colour.icc = "image"

SpaceFits(colour, sp) ==
    IF colour.icc = "none"
    THEN sp.primaries = colour.primaries /\ sp.linear = req.linear
    ELSE sp.kind \in {"profile", "drawable"}

(* The space fits, or babl could not make one for the NCLX description.       *)
SpaceFitsOrFailed(colour, sp) ==
    IF sp = NoSpace THEN colour.icc = "none" ELSE SpaceFits(colour, sp)

ColourInv ==
    /\ pc = "image" /\ ~error => space.kind = "profile"
    /\ pc = "colour" => space.kind \in {"profile", "drawable"}
    /\ pc = "pixels" => /\ Described(avif.colour)
                        /\ ~IsGray => SpaceFitsOrFailed(avif.colour, space)
    /\ pc \in WithPixels =>
         /\ Described(avif.colour)
         /\ file_format.linear = req.linear
         /\ IF IsGray \/ space = NoSpace
            THEN file_format.space = DefaultSpace
            ELSE SpaceFits(avif.colour, file_format.space)
         /\ ~IsGray /\ space = NoSpace => avif.colour.icc = "none"

LEMMA NextColour == RequestInv /\ BufferInv /\ ColourInv /\ [Next]_vars => ColourInv'
<1> SUFFICES ASSUME RequestInv, BufferInv, ColourInv, [Next]_vars PROVE ColourInv'
  OBVIOUS
<1> USE DEF Return, Continue, WithAvif, WithPixels
<1>1. req' = req
  BY SameRequest
<1>2. CASE GetSpace
  BY <1>2 DEF GetSpace, ColourInv
<1>3. CASE CreateImage
  BY <1>3 DEF CreateImage, ColourInv
<1>4. CASE DescribeICC
  <2>1. /\ pc = "colour" /\ pc' = "pixels" /\ space' = space
        /\ avif'.colour = IF is_gray(req)
              THEN [icc |-> IF req.linear THEN "gray linear" ELSE "gray sRGB",
                    primaries |-> 2, transfer |-> Transfer(req.linear), matrix |-> 1]
              ELSE [icc |-> "image", primaries |-> 2, transfer |-> 2, matrix |-> 1]
    BY <1>4 DEF DescribeICC, BufferInv
  <2>2. IsGray' = IsGray /\ IsGray = is_gray(req)
    BY <1>1 DEF IsGray, is_gray, drawable_type
  <2>3. CASE is_gray(req)
    <3>1. /\ avif'.colour.icc = IF req.linear THEN "gray linear" ELSE "gray sRGB"
          /\ avif'.colour.transfer = Transfer(req.linear)
      <4> DEFINE profile == IF req.linear THEN "gray linear" ELSE "gray sRGB"
                 curve   == Transfer(req.linear)
      <4> HIDE DEF profile, curve
      <4>1. avif'.colour = [icc |-> profile, primaries |-> 2, transfer |-> curve, matrix |-> 1]
        BY <2>1, <2>3 DEF profile, curve
      <4>2. avif'.colour.icc = profile /\ avif'.colour.transfer = curve
        BY <4>1
      <4> QED
        BY <4>2 DEF profile, curve
    <3> QED
      BY <1>1, <2>1, <2>2, <2>3, <3>1 DEF ColourInv, Described
  <2>4. CASE ~is_gray(req)
    <3>1. avif'.colour.icc = "image" /\ space' = space /\ space.kind \in {"profile", "drawable"}
      BY <2>1, <2>4 DEF ColourInv
    <3> QED
      BY <1>1, <2>1, <2>2, <2>4, <3>1
         DEF ColourInv, Described, SpaceFits, SpaceFitsOrFailed, NoSpace
  <2> QED
    BY <2>3, <2>4
<1>5. CASE DescribeNCLX
  <2>1. PICK p \in ColorPrimaries :
          /\ is_gray(req) => p = 1
          /\ avif' = [avif EXCEPT !.colour =
                        [icc |-> "none", primaries |-> p,
                         transfer |-> Transfer(req.linear), matrix |-> MatrixFor(p)]]
          /\ space' \in IF is_gray(req) THEN {space} ELSE NclxSpaces(p, req.linear)
    BY <1>5 DEF DescribeNCLX
  <2>2. /\ pc = "colour" /\ pc' = "pixels"
        /\ avif'.colour = [icc |-> "none", primaries |-> p,
                           transfer |-> Transfer(req.linear), matrix |-> MatrixFor(p)]
    BY <1>5, <2>1 DEF DescribeNCLX, BufferInv
  <2>3. Described(avif.colour)'
    BY <1>1, <2>1, <2>2 DEF Described, IsGray, is_gray, drawable_type
  <2>4. (~IsGray => SpaceFitsOrFailed(avif.colour, space))'
    <3>1. CASE space' = NoSpace
      BY <2>2, <3>1 DEF SpaceFitsOrFailed
    <3>2. CASE ~is_gray(req) /\ space' = [kind |-> "nclx", primaries |-> p, linear |-> req.linear]
      BY <1>1, <2>2, <3>2 DEF SpaceFitsOrFailed, SpaceFits
    <3>3. CASE is_gray(req)
      BY <1>1, <3>3 DEF IsGray, is_gray, drawable_type
    <3> QED
      BY <2>1, <3>1, <3>2, <3>3 DEF NclxSpaces
  <2> QED
    BY <1>1, <2>2, <2>3, <2>4 DEF ColourInv, Described, SpaceFits, IsGray, drawable_type
<1>6. CASE AllocatePixels
  <2>1. /\ pc = "pixels" /\ pc' \in WithPixels /\ avif' = avif
        /\ drawable_type(req) # "INDEXED"
        /\ file_format' = FormatFor(drawable_type(req), req.depth, req.linear, space)
    BY <1>6 DEF AllocatePixels
  <2>2. drawable_type(req) \in ImageTypes
    BY <2>1, TypeOfRequest DEF BufferInv
  <2>3. /\ file_format'.linear = req.linear
        /\ file_format'.space = IF IsGray \/ space = NoSpace THEN DefaultSpace ELSE space
    BY <2>1, <2>2 DEF FormatFor, IsGray, ImageTypes
  <2>4. space' = space
    BY <1>6 DEF AllocatePixels
  <2> QED
    BY <1>1, <2>1, <2>3, <2>4
       DEF ColourInv, Described, SpaceFits, SpaceFitsOrFailed, IsGray, drawable_type
<1>7. CASE AttachExif \/ AttachXMP \/ CreateEncoder \/ ConvertGray \/ ConvertColour
  <2>1. /\ pc \in WithPixels /\ pc' \in WithPixels
        /\ file_format' = file_format /\ space' = space
    BY <1>7 DEF AttachExif, AttachXMP, CreateEncoder, ConvertGray, ConvertColour
  <2>2. avif'.colour = avif.colour
    BY <1>7, <2>1 DEF BufferInv, AttachExif, avifImageSetMetadataExif, AttachXMP, CreateEncoder,
              ConvertGray, ConvertColour, Filled
  <2> QED
    BY <1>1, <2>1, <2>2 DEF ColourInv, Described, SpaceFits, IsGray, drawable_type
<1>8. CASE FilterMetadata \/ FilterFailed \/ ExifFailed \/ FetchFrame \/ AddFrame
  <2>1. /\ pc \in WithPixels /\ pc' \in WithPixels
        /\ file_format' = file_format /\ avif' = avif /\ space' = space
    BY <1>8 DEF FilterMetadata, FilterFailed, ExifFailed, FetchFrame, AddFrame, job
  <2> QED
    BY <1>1, <2>1 DEF ColourInv, Described, SpaceFits, IsGray, drawable_type
<1>9. CASE \/ Refuse \/ Abort \/ AddFails \/ Finish \/ FinishFails
           \/ Open \/ OpenFails \/ Write \/ ReturnTrue \/ Kill
  <2>1. pc' \notin WithAvif \cup {"image"}
    BY <1>9 DEF Refuse, Abort, AddFails, Finish, FinishFails, Open, OpenFails,
                Write, ReturnTrue, Kill
  <2> QED
    BY <2>1 DEF ColourInv
<1>10. CASE UNCHANGED vars
  BY <1>10 DEF vars, ColourInv, Described, SpaceFits, SpaceFitsOrFailed, IsGray, drawable_type
<1> QED
  BY <1>2, <1>3, <1>4, <1>5, <1>6, <1>7, <1>8, <1>9, <1>10 DEF Next, Step, Done

(* Although the space pixels are fetched in is replaced after the colours     *)
(* were described, and may not come to be, a file declares the transfer curve *)
(* its pixels have, and other primaries than theirs only if babl made no      *)
(* space: for every drawable type, profile and set of primaries.              *)
THEOREM DeclaredColourAlwaysMatches == Spec => []DeclaredColourMatchesPixels
<1>1. Init => BufferInv /\ ColourInv
  BY DEF Init, BufferInv, ColourInv, WithAvif, WithPixels
<1>2. RequestInv /\ ColourInv => DeclaredColourMatchesPixels
  <2> SUFFICES ASSUME RequestInv, ColourInv, pc \in {"fetch", "convert", "add"}
               PROVE  DeclaredColourMatchesPixels
    BY DEF DeclaredColourMatchesPixels
  <2>1. pc \in WithPixels
    BY DEF WithAvif, WithPixels
  <2>2. req.linear \in BOOLEAN
    BY DEF RequestInv, Request
  <2> DEFINE colour == avif.colour
             sp     == file_format.space
  <2>3. /\ Described(colour)
        /\ file_format.linear = req.linear
        /\ IF IsGray \/ space = NoSpace THEN sp = DefaultSpace ELSE SpaceFits(colour, sp)
        /\ ~IsGray /\ space = NoSpace => colour.icc = "none"
    BY <2>1 DEF ColourInv
  <2> HIDE DEF colour, sp
  <2>4. colour.icc = "none" =>
          /\ (colour.transfer = 8) <=> req.linear
          /\ space # NoSpace => colour.primaries = sp.primaries
          /\ sp.linear = req.linear \/ sp.linear = FALSE
    <3>1. colour.icc = "none" => ((colour.transfer = 8) <=> req.linear)
      BY <2>2, <2>3 DEF Described, Transfer
    <3>2. CASE IsGray \/ space = NoSpace
      BY <2>3, <3>1, <3>2 DEF Described, DefaultSpace
    <3>3. CASE ~IsGray /\ space # NoSpace
      BY <2>3, <3>1, <3>3 DEF SpaceFits
    <3> QED
      BY <3>2, <3>3
  <2>5. colour.icc = "image" => sp.kind \in {"profile", "drawable"}
    <3> SUFFICES ASSUME colour.icc = "image" PROVE sp.kind \in {"profile", "drawable"}
      OBVIOUS
    <3>1. colour.icc # "none" /\ ~IsGray
      <4>1. "image" \notin {"none", "gray linear", "gray sRGB"}
        OBVIOUS
      <4> QED
        BY <2>2, <2>3, <4>1 DEF Described
    <3>2. SpaceFits(colour, sp)
      BY <2>3, <3>1, Zenon
    <3> QED
      BY <3>1, <3>2 DEF SpaceFits
  <2>6. colour.icc \in {"gray linear", "gray sRGB"} => sp.linear = FALSE
    <3> SUFFICES ASSUME colour.icc \in {"gray linear", "gray sRGB"} PROVE sp.linear = FALSE
      OBVIOUS
    <3>1. IsGray
      BY <2>3 DEF Described
    <3>2. sp = DefaultSpace
      BY <2>3, <3>1, Zenon
    <3>3. DefaultSpace.linear = FALSE
      BY DEF DefaultSpace
    <3> QED
      BY <3>2, <3>3, Zenon
  <2>7. colour.icc \in {"gray linear", "gray sRGB"} =>
          /\ (colour.icc = "gray linear") <=> req.linear
          /\ (colour.transfer = 8) <=> req.linear
    <3>1. CASE req.linear
      BY <2>3, <3>1 DEF Described, Transfer
    <3>2. CASE ~req.linear
      <4>1. colour.icc \in {"gray linear", "gray sRGB"} =>
              colour.icc = "gray sRGB" /\ colour.transfer = 13
        BY <2>3, <3>2 DEF Described, Transfer
      <4>2. "gray linear" # "gray sRGB"
        OBVIOUS
      <4>3. 13 # 8
        OBVIOUS
      <4> QED
        BY <3>2, <4>1, <4>2, <4>3, Zenon
    <3> QED
      BY <2>2, <3>1, <3>2
  <2> QED
    BY <2>2, <2>3, <2>4, <2>5, <2>6, <2>7 DEF DeclaredColourMatchesPixels, FetchesLinear, colour, sp
<1> QED
  BY InitRequest, NextRequest, NextBuffer, NextColour, <1>1, <1>2, PTL DEF Spec
==============================================================================
