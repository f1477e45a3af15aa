--------------------------- MODULE LoadImageProofs ---------------------------
(* LoadImage for every set of files, every word size and every set of known   *)
(* primaries.                                                                 *)
EXTENDS LoadImage, SequenceTheorems, WellFoundedInduction, TLAPS

(* A sequence that is not empty has its one element in S.                     *)
LEMMA OneElement ==
    ASSUME NEW S, NEW s \in AtMostOne(S), s # <<>>
    PROVE  s[1] \in S /\ DOMAIN s = {1}
<1>1. s \in Seq(S) /\ Len(s) <= 1
  BY DEF AtMostOne
<1>2. Len(s) \in Nat /\ (Len(s) = 0 => s = <<>>)
  BY <1>1, EmptySeq
<1>3. Len(s) # 0
  BY <1>2
<1>4. Len(s) = 1
  <2> DEFINE n == Len(s)
  <2>1. n \in Nat /\ n <= 1 /\ n # 0
    BY <1>1, <1>2, <1>3
  <2> HIDE DEF n
  <2>2. n = 1
    BY <2>1
  <2> QED
    BY <2>2 DEF n
<1> QED
  BY <1>1, <1>4

------------------------------------------------------------------------------
(* Products of naturals, where the solver needs them spelt out.               *)
LEMMA TimesMonotonic ==
    ASSUME NEW a \in Nat, NEW b \in Nat, NEW n \in Nat, a <= b
    PROVE  n * a <= n * b
<1>1. b - a \in Nat /\ n * (b - a) \in Nat
  OBVIOUS
<1>2. n * b = n * a + n * (b - a)
  OBVIOUS
<1> QED
  BY <1>1, <1>2

(* What part of a plane the tile with this index fills.                       *)
Part(tile, index, out) == (index * tile)..(index * tile + CopiedSide(tile, index, out) - 1)

Parts(tile, count, out) == UNION {Part(tile, index, out) : index \in 0..(count - 1)}

(* One axis of a plane without subsampling: tiles that reach the end, all of  *)
(* them needed, fill it, and nothing outside.                                 *)
LEMMA PartsCover ==
    ASSUME NEW out \in Nat \ {0}, NEW tile \in Nat \ {0}, NEW count \in Nat \ {0},
           tile * count >= out, tile * (count - 1) < out
    PROVE  Parts(tile, count, out) = 0..(out - 1)
<1>1. ASSUME NEW a \in 0..(out - 1)
      PROVE  \E index \in 0..(count - 1) : a \in Part(tile, index, out)
  <2> DEFINE index == a \div tile
  <2>1. /\ index \in Nat
        /\ tile * index <= a /\ a < tile * (index + 1)
    <3>1. a = tile * index + (a % tile) /\ a % tile \in 0..(tile - 1) /\ index \in Int
      OBVIOUS
    <3>2. index >= 0
      OBVIOUS
    <3>3. tile * (index + 1) = tile * index + tile
      BY <3>1
    <3> QED
      BY <3>1, <3>2, <3>3
  <2> HIDE DEF index
  <2>2. index < count
    <3>1. SUFFICES ASSUME count <= index PROVE FALSE
      BY <2>1
    <3>2. tile * count <= tile * index
      BY <2>1, <3>1, TimesMonotonic
    <3> QED
      BY <2>1, <3>2
  <2>3. index * tile = tile * index
    BY <2>1
  <2>4. tile * (index + 1) = tile * index + tile
    BY <2>1
  <2>5. a \in Part(tile, index, out)
    BY <2>1, <2>3, <2>4 DEF Part, CopiedSide
  <2> QED
    BY <2>1, <2>2, <2>5
<1>2. ASSUME NEW index \in 0..(count - 1), NEW a \in Part(tile, index, out)
      PROVE  a \in 0..(out - 1)
  <2>1. index * tile = tile * index /\ tile * index \in Nat
    OBVIOUS
  <2>2. tile * (index + 1) = tile * index + tile
    OBVIOUS
  <2> QED
    BY <2>1, <2>2 DEF Part, CopiedSide
<1> QED
  BY <1>1, <1>2 DEF Parts

(* The same of a subsampled plane, when picture and tiles divide by the       *)
(* subsampling, as avifAreGridDimensionsValid asks.                           *)
SubPart(tile, index, out, divisor) ==
    LET first == (index * tile) \div divisor
    IN  first..(first + CopiedSide(tile, index, out) \div divisor - 1)

SubParts(tile, count, out, divisor) ==
    UNION {SubPart(tile, index, out, divisor) : index \in 0..(count - 1)}

LEMMA SubsampledParts ==
    ASSUME NEW out \in Nat \ {0}, NEW tile \in Nat \ {0}, NEW count \in Nat \ {0},
           NEW divisor \in {1, 2}, out % divisor = 0, tile % divisor = 0,
           tile * count >= out, tile * (count - 1) < out
    PROVE  SubParts(tile, count, out, divisor) = 0..((out + divisor - 1) \div divisor - 1)
<1> DEFINE t == tile \div divisor
           o == out \div divisor
<1>1. t \in Nat \ {0} /\ o \in Nat \ {0} /\ tile = divisor * t /\ out = divisor * o
  OBVIOUS
<1> HIDE DEF t, o
<1>2. tile * count = divisor * (t * count) /\ t * count \in Nat
  BY <1>1
<1>3. tile * (count - 1) = divisor * (t * (count - 1)) /\ t * (count - 1) \in Nat
  BY <1>1
<1>4. t * count >= o /\ t * (count - 1) < o
  BY <1>1, <1>2, <1>3
<1>5. (out + divisor - 1) \div divisor = o
  BY <1>1
<1>6. ASSUME NEW index \in 0..(count - 1)
      PROVE  /\ (index * tile) \div divisor = index * t
             /\ CopiedSide(tile, index, out) \div divisor = CopiedSide(t, index, o)
  <2>1. index * t \in Nat /\ index * tile = divisor * (index * t)
    BY <1>1
  <2>2. (index * tile) \div divisor = index * t
    BY <2>1
  <2>3. t * (index + 1) \in Nat /\ tile * (index + 1) = divisor * (t * (index + 1))
    BY <1>1
  <2>4. CopiedSide(t, index, o) \in Int
    BY <1>1, <2>3 DEF CopiedSide
  <2>5. CopiedSide(tile, index, out) = divisor * CopiedSide(t, index, o)
    BY <1>1, <2>3 DEF CopiedSide
  <2>6. CopiedSide(tile, index, out) \div divisor = CopiedSide(t, index, o)
    BY <2>4, <2>5
  <2> QED
    BY <2>2, <2>6
<1>7. Parts(t, count, o) = 0..(o - 1)
  BY <1>1, <1>4, PartsCover
<1> QED
  BY <1>5, <1>6, <1>7 DEF Part, Parts, SubPart, SubParts

(* The tiles of a grid that libavif accepts leave no gap in a plane and reach *)
(* nothing outside it, whatever the subsampling.                              *)
LEMMA GridFills ==
    ASSUME NEW p \in Picture, p.grid # <<>>, NEW format, GridAccepted(p, format),
           NEW divX \in {1, ChromaX(format)}, NEW divY \in {1, ChromaY(format)}
    PROVE  FilledPlane(p, divX, divY) = PlaneOf(p, divX, divY)
<1> DEFINE g == p.grid[1]
<1>1. /\ p.width \in Nat \ {0} /\ p.height \in Nat \ {0}
      /\ p.grid \in AtMostOne(Grid)
  BY DEF Picture, Side
<1>2. /\ g.columns \in Nat \ {0} /\ g.rows \in Nat \ {0}
      /\ g.width \in Nat \ {0} /\ g.height \in Nat \ {0}
  <2>1. g \in Grid
    BY <1>1, OneElement
  <2>2. Side \subseteq Nat \ {0}
    BY DEF Side
  <2> QED
    BY <2>1, <2>2 DEF Grid
<1>3. /\ g.width * g.columns >= p.width /\ g.width * (g.columns - 1) < p.width
      /\ g.height * g.rows >= p.height /\ g.height * (g.rows - 1) < p.height
  BY DEF GridAccepted
<1>4. /\ divX \in {1, 2} /\ divY \in {1, 2}
      /\ p.width % divX = 0 /\ g.width % divX = 0
      /\ p.height % divY = 0 /\ g.height % divY = 0
  <2>1. DimensionsValid(p, format)
    BY DEF GridAccepted
  <2>2. /\ p.width % ChromaX(format) = 0 /\ g.width % ChromaX(format) = 0
        /\ p.height % ChromaY(format) = 0 /\ g.height % ChromaY(format) = 0
    BY <2>1 DEF DimensionsValid
  <2> HIDE DEF g
  <2>3. p.width % 1 = 0 /\ g.width % 1 = 0 /\ p.height % 1 = 0 /\ g.height % 1 = 0
    BY <1>1, <1>2
  <2> QED
    BY <2>2, <2>3 DEF ChromaX, ChromaY
<1> DEFINE X == SubParts(g.width, g.columns, p.width, divX)
           Y == SubParts(g.height, g.rows, p.height, divY)
<1>5. /\ X = 0..((p.width + divX - 1) \div divX - 1)
      /\ Y = 0..((p.height + divY - 1) \div divY - 1)
  <2> DEFINE w == p.width    h == p.height
             tileW == g.width    tileH == g.height
             columns == g.columns    rows == g.rows
  <2>1. /\ w \in Nat \ {0} /\ tileW \in Nat \ {0} /\ columns \in Nat \ {0}
        /\ w % divX = 0 /\ tileW % divX = 0
        /\ tileW * columns >= w /\ tileW * (columns - 1) < w
    BY <1>1, <1>2, <1>3, <1>4
  <2>2. /\ h \in Nat \ {0} /\ tileH \in Nat \ {0} /\ rows \in Nat \ {0}
        /\ h % divY = 0 /\ tileH % divY = 0
        /\ tileH * rows >= h /\ tileH * (rows - 1) < h
    BY <1>1, <1>2, <1>3, <1>4
  <2>3. divX \in {1, 2} /\ divY \in {1, 2}
    BY <1>4
  <2> HIDE DEF w, h, tileW, tileH, columns, rows
  <2>4. SubParts(tileW, columns, w, divX) = 0..((w + divX - 1) \div divX - 1)
    BY <2>1, <2>3, SubsampledParts
  <2>5. SubParts(tileH, rows, h, divY) = 0..((h + divY - 1) \div divY - 1)
    BY <2>2, <2>3, SubsampledParts
  <2> QED
    BY <2>4, <2>5 DEF w, h, tileW, tileH, columns, rows
<1>6. \A z : z \in FilledPlane(p, divX, divY) <=>
        \E column \in 0..(g.columns - 1), row \in 0..(g.rows - 1) :
           z \in SubPart(g.width, column, p.width, divX) \X SubPart(g.height, row, p.height, divY)
  <2>1. \A column, row : TileSamples(p, divX, divY, column, row)
          = SubPart(g.width, column, p.width, divX) \X SubPart(g.height, row, p.height, divY)
    BY Zenon DEF TileSamples, SubPart
  <2>2. FilledPlane(p, divX, divY)
          = UNION {UNION {TileSamples(p, divX, divY, column, row) : row \in 0..(g.rows - 1)} :
                     column \in 0..(g.columns - 1)}
    BY Zenon DEF FilledPlane
  <2> HIDE DEF g
  <2> QED
    BY <2>1, <2>2
<1>7. ASSUME NEW z \in FilledPlane(p, divX, divY)
      PROVE  z \in X \X Y
  BY <1>6 DEF SubParts
<1>8. ASSUME NEW z \in X \X Y
      PROVE  z \in FilledPlane(p, divX, divY)
  <2>1. PICK a \in X, b \in Y : z = <<a, b>>
    OBVIOUS
  <2>2. PICK column \in 0..(g.columns - 1) : a \in SubPart(g.width, column, p.width, divX)
    BY DEF SubParts
  <2>3. PICK row \in 0..(g.rows - 1) : b \in SubPart(g.height, row, p.height, divY)
    BY DEF SubParts
  <2> QED
    BY <1>6, <2>1, <2>2, <2>3
<1> HIDE DEF X, Y
<1> QED
  BY <1>5, <1>7, <1>8 DEF PlaneOf

(* A picture that decodes fills its planes: chroma for a colour picture, and  *)
(* for the alpha the one plane it has.                                        *)
LEMMA PictureFills ==
    ASSUME NEW p \in Picture, NEW format, PictureDecodes(p, format),
           NEW divX \in {1, ChromaX(format)}, NEW divY \in {1, ChromaY(format)}
    PROVE  FilledPlane(p, divX, divY) = PlaneOf(p, divX, divY)
<1>1. CASE p.grid = <<>>
  BY <1>1 DEF FilledPlane
<1>2. CASE p.grid # <<>>
  BY <1>2, GridFills DEF PictureDecodes
<1> QED
  BY <1>1, <1>2

------------------------------------------------------------------------------
(* Resources: what each phase holds depends on the phase and on whether there *)
(* is a profile, and on nothing else that happened before.                    *)
Live ==
    CASE pc = "measure"  -> {"inputFile"}
      [] pc = "read"     -> {"inputFile", "raw"}
      [] pc = "identify" -> {"raw"}
      [] pc \in Decoding -> {"decoder", "raw"}
                            \cup (IF profile = <<>> THEN {} ELSE {"profile"})
                            \cup (IF pc \in {"wrap", "wrap failed", "close"}
                                  THEN {"lcms_profile"} ELSE {})
                            \cup (IF pc = "insert" THEN {"pixels"} ELSE {})
      [] OTHER -> {}

BeforeMetadata == {"idle", "open", "measure", "read", "identify", "parse", "decode", "metadata"}

HeldInv ==
    /\ held \in [Resources -> {"none", "live", "freed"}]
    /\ pc \notin {"aborted", "killed"} => \A r \in Released : held[r] = "live" <=> r \in Live
    /\ pc \in BeforeMetadata => held["metadata"] # "live"
    /\ profile # <<>> => pc \in {"close", "load", "insert", "killed"}
    /\ pc = "killed" /\ profile # <<>> => held["profile"] = "live"

LEMMA InitHeld == Init => HeldInv
BY DEF Init, HeldInv, Live, Decoding, FailurePhases, Resources, Released

LEMMA AcquireKeeps ==
    ASSUME NEW h \in [Resources -> {"none", "live", "freed"}],
           NEW q \in Resources, h[q] # "live"
    PROVE  /\ Acquire(h, q) \in [Resources -> {"none", "live", "freed"}]
           /\ \A r \in Resources : Acquire(h, q)[r] = "live" <=> (r = q \/ h[r] = "live")
BY DEF Acquire

LEMMA ReleaseKeeps ==
    ASSUME NEW h \in [Resources -> {"none", "live", "freed"}],
           NEW S \in SUBSET Resources, \A r \in S : h[r] = "live"
    PROVE  /\ Release(h, S) \in [Resources -> {"none", "live", "freed"}]
           /\ \A r \in Resources : Release(h, S)[r] = "live" <=> (r \notin S /\ h[r] = "live")
BY DEF Release

(* A step between two phases: it does not go back before the metadata, and    *)
(* leaves a profile only where one may be.                                    *)
Onward ==
    /\ pc \notin {"aborted", "killed"} /\ pc' # "killed"
    /\ pc' \in BeforeMetadata => pc \in BeforeMetadata
    /\ profile' # <<>> => pc' \in {"close", "load", "insert"}

LEMMA AcquireStep ==
    ASSUME HeldInv, Onward, NEW q \in Released, q \notin Live,
           held' = Acquire(held, q), Live' = Live \cup {q}
    PROVE  HeldInv'
<1>1. q \in Resources /\ q # "metadata" /\ held[q] # "live"
  BY DEF HeldInv, Onward, Released
<1>2. /\ held' \in [Resources -> {"none", "live", "freed"}]
      /\ \A r \in Resources : held'[r] = "live" <=> (r = q \/ held[r] = "live")
  BY <1>1, AcquireKeeps DEF HeldInv
<1> QED
  BY <1>1, <1>2 DEF HeldInv, Onward, Released, Resources

LEMMA ReleaseStep ==
    ASSUME HeldInv, Onward, NEW S \in SUBSET Released, S \subseteq Live,
           held' = Release(held, S), Live' = Live \ S
    PROVE  HeldInv'
<1>1. S \in SUBSET Resources /\ \A r \in S : held[r] = "live"
  BY DEF HeldInv, Onward, Released
<1>2. /\ held' \in [Resources -> {"none", "live", "freed"}]
      /\ \A r \in Resources : held'[r] = "live" <=> (r \notin S /\ held[r] = "live")
  BY <1>1, ReleaseKeeps DEF HeldInv
<1> QED
  BY <1>1, <1>2 DEF HeldInv, Onward, Released, Resources

LEMMA KeepStep ==
    ASSUME HeldInv, Onward, held' = held, Live' = Live
    PROVE  HeldInv'
BY DEF HeldInv, Onward

LEMMA NextHeld == HeldInv /\ [Next]_vars => HeldInv'
<1> SUFFICES ASSUME HeldInv, [Next]_vars PROVE HeldInv'
  OBVIOUS
<1> USE DEF Return, Continue, work, Decoding, FailurePhases, BeforeMetadata
<1>0. profile # <<>> => pc \in {"close", "load", "insert", "killed"}
  BY DEF HeldInv
<1>1. CASE \E f \in Files : Call(f)
  BY <1>0, <1>1, KeepStep DEF Call, Onward, Live
<1>2. CASE OpenFile
  BY <1>0, <1>2, AcquireStep DEF OpenFile, Onward, Live, Released, Resources
<1>3. CASE OpenFails
  BY <1>0, <1>3, KeepStep DEF OpenFails, Onward, Live
<1>4. CASE RefuseEmpty
  BY <1>0, <1>4, ReleaseStep DEF RefuseEmpty, Onward, Live, Released, Resources
<1>5. CASE Allocate
  BY <1>0, <1>5, AcquireStep DEF Allocate, Onward, Live, Released, Resources
<1>6. CASE AllocateFails \/ Kill
  <2>1. profile # <<>> => held["profile"] = "live"
    <3>1. CASE pc = "killed"
      BY <3>1 DEF HeldInv
    <3>2. CASE pc \in {"close", "load", "insert"} /\ profile # <<>>
      <4>1. "profile" \in Live
        BY <3>2 DEF Live
      <4> QED
        BY <3>2, <4>1 DEF HeldInv, Released, Resources
    <3> QED
      BY <1>0, <3>1, <3>2
  <2> QED
    BY <1>0, <1>6, <2>1 DEF AllocateFails, Kill, HeldInv
<1>7. CASE ReadFile
  BY <1>0, <1>7, ReleaseStep DEF ReadFile, Onward, Live, Released, Resources
<1>8. CASE ReadFails
  BY <1>0, <1>8, ReleaseStep DEF ReadFails, FreedWhenReadFails, Onward, Live, Released, Resources
<1>9. CASE RefuseType
  BY <1>0, <1>9, ReleaseStep DEF RefuseType, Onward, Live, Released, Resources
<1>10. CASE CreateDecoder
  BY <1>0, <1>10, AcquireStep DEF CreateDecoder, Onward, Live, Released, Resources
<1>11. CASE Parse \/ Decode
  BY <1>0, <1>11, KeepStep DEF Parse, Decode, Onward, Live
<1>12. CASE DecodeFails
  BY <1>0, <1>12, ReleaseStep DEF DecodeFails, FreedWhenNotDecoded, Onward, Live, Released, Resources
<1>13. CASE NewMetadata
  <2>1. pc = "metadata" /\ pc' = "exif" /\ profile' = profile /\ Live' = Live
    BY <1>13 DEF NewMetadata, Live
  <2>2. CASE held' = held
    BY <1>0, <2>1, <2>2, KeepStep DEF Onward
  <2>3. CASE held' = Acquire(held, "metadata")
    <3>1. /\ held' \in [Resources -> {"none", "live", "freed"}]
          /\ \A r \in Resources : held'[r] = "live" <=> (r = "metadata" \/ held[r] = "live")
      BY <2>1, <2>3, AcquireKeeps DEF HeldInv, Resources
    <3> QED
      BY <2>1, <3>1 DEF HeldInv, Released, Resources
  <2> QED
    BY <1>13, <2>2, <2>3 DEF NewMetadata
<1>14. CASE ReadExif \/ ReadXMP \/ ReportError
  BY <1>0, <1>14, KeepStep DEF ReadExif, ReadXMP, ReportError, AfterFailure, Onward, Live
<1>15. CASE LoadICC
  <2>1. CASE avif.icc[1].kind = "broken"
    BY <1>0, <1>15, <2>1, KeepStep DEF LoadICC, Onward, Live
  <2>2. CASE avif.icc[1].kind # "broken"
    <3>1. /\ pc = "profile" /\ pc' = "load" /\ held' = Acquire(held, "profile")
          /\ profile' = <<[kind |-> avif.icc[1].kind, linear |-> avif.icc[1].linear,
                           primaries |-> 0, transfer |-> 0]>>
      BY <1>15, <2>2, Zenon DEF LoadICC
    <3>2. profile' # <<>>
      BY <3>1
    <3> QED
      BY <1>0, <3>1, <3>2, AcquireStep DEF Onward, Live, Released, Resources
  <2> QED
    BY <2>1, <2>2
<1>16. CASE LoadGrayProfile
  <2>1. pc = "profile" /\ pc' = "load" /\ held' = Acquire(held, "profile") /\ profile' # <<>>
    BY <1>16 DEF LoadGrayProfile
  <2> QED
    BY <1>0, <2>1, AcquireStep DEF Onward, Live, Released, Resources
<1>17. CASE MakeProfile
  <2>1. CASE trc_to_load(avif) \in Curves
    BY <1>0, <1>17, <2>1, AcquireStep DEF MakeProfile, Onward, Live, Released, Resources
  <2>2. CASE trc_to_load(avif) \notin Curves
    BY <1>0, <1>17, <2>2, KeepStep DEF MakeProfile, Onward, Live
  <2> QED
    BY <2>1, <2>2
<1>18. CASE WrapProfile
  <2>1. CASE held' = Acquire(held, "profile") /\ pc' = "close" /\ profile' # <<>>
    BY <1>0, <1>18, <2>1, AcquireStep DEF WrapProfile, Onward, Live, Released, Resources
  <2>2. CASE held' = held /\ pc' = "wrap failed" /\ profile' = profile
    BY <1>0, <1>18, <2>2, KeepStep DEF WrapProfile, Onward, Live
  <2> QED
    <3> DEFINE new == [kind |-> "RGB", linear |-> trc_to_load(avif) = 8,
                       primaries |-> primaries_to_load(avif), transfer |-> trc_to_load(avif)]
    <3>1. \/ held' = Acquire(held, "profile") /\ pc' = "close" /\ profile' = <<new>>
          \/ pc' = "wrap failed" /\ UNCHANGED <<held, profile>>
      BY <1>18, Zenon DEF WrapProfile
    <3> HIDE DEF new
    <3>2. <<new>> # <<>>
      OBVIOUS
    <3>3. CASE held' = Acquire(held, "profile") /\ pc' = "close" /\ profile' = <<new>>
      BY <2>1, <3>2, <3>3
    <3>4. CASE pc' = "wrap failed" /\ UNCHANGED <<held, profile>>
      BY <2>2, <3>4
    <3> QED
      BY <3>1, <3>3, <3>4
<1>19. CASE CloseProfile
  BY <1>0, <1>19, ReleaseStep DEF CloseProfile, Onward, Live, Released, Resources
<1>20. CASE LoadGray \/ LoadColour
  <2>1. pc = "load" /\ pc' = "insert" /\ held' = Acquire(held, "pixels") /\ profile' = profile
    BY <1>20 DEF LoadGray, LoadColour
  <2> QED
    BY <1>0, <2>1, AcquireStep DEF Onward, Live, Released, Resources
<1>21. CASE InsertLayer
  <2> DEFINE S == {"pixels"} \cup (IF profile = <<>> THEN {} ELSE {"profile"})
  <2>1. pc = "insert" /\ pc' = "crop" /\ held' = Release(held, S) /\ profile' = <<>>
    BY <1>21 DEF InsertLayer
  <2>2. S \in SUBSET Released /\ S \subseteq Live /\ Live' = Live \ S /\ Onward
    BY <2>1 DEF Onward, Live, Released, Resources
  <2> HIDE DEF S
  <2> QED
    BY <2>1, <2>2, ReleaseStep
<1>22. CASE Crop \/ Rotate \/ Mirror
  <2>1. /\ pc \in {"crop", "rotate", "mirror"} /\ pc' \in {"rotate", "mirror", "finish"}
        /\ held' = held /\ profile' = profile
    BY <1>22 DEF Crop, Rotate, Mirror
  <2> QED
    BY <1>0, <2>1, KeepStep DEF Onward, Live
<1>23. CASE Finish
  <2>1. pc = "finish" /\ pc' = "returned" /\ held' = Release(held, {"decoder", "raw"}) /\ profile' = profile
    BY <1>23 DEF Finish
  <2> QED
    BY <1>0, <2>1, ReleaseStep DEF Onward, Live, Released, Resources
<1>24. CASE UNCHANGED vars
  BY <1>24 DEF vars, HeldInv, Live
<1> QED
  BY <1>1, <1>2, <1>3, <1>4, <1>5, <1>6, <1>7, <1>8, <1>9, <1>10, <1>11, <1>12, <1>13, <1>14,
     <1>15, <1>16, <1>17, <1>18, <1>19, <1>20, <1>21, <1>22, <1>23, <1>24 DEF Next, Step, Done

(* No exit of load_image releases twice or loses anything, no phase uses what *)
(* is gone; the data outlive the decoder that reads from them.                *)
THEOREM ResourcesAlwaysInOrder == Spec => []ResourcesInOrder
<1>1. HeldInv => ResourcesInOrder
  BY DEF HeldInv, ResourcesInOrder, Used, Live, Decoding, FailurePhases, Resources, Released
<1> QED
  BY InitHeld, NextHeld, <1>1, PTL DEF Spec

(* Whichever exit load_image takes, all but the metadata object is released.  *)
THEOREM NothingEverLeftBehind == Spec => []NothingLeftBehind
<1>1. HeldInv => NothingLeftBehind
  BY DEF HeldInv, NothingLeftBehind, Live, Decoding, FailurePhases
<1> QED
  BY InitHeld, NextHeld, <1>1, PTL DEF Spec

------------------------------------------------------------------------------
(* Errors: only the phases that report one see it, or a process killed there. *)
ErrorInv == error => pc \in FailurePhases \cup {"killed"}

LEMMA NextError == ErrorInv /\ [Next]_vars => ErrorInv'
<1> SUFFICES ASSUME ErrorInv, [Next]_vars PROVE ErrorInv'
  OBVIOUS
<1> USE DEF ErrorInv, FailurePhases, Return, Continue
<1>1. CASE OpenFile \/ OpenFails \/ RefuseEmpty \/ Allocate \/ AllocateFails \/ ReadFile \/ ReadFails
  BY <1>1 DEF OpenFile, OpenFails, RefuseEmpty, Allocate, AllocateFails, ReadFile, ReadFails
<1>2. CASE RefuseType \/ CreateDecoder \/ Parse \/ Decode \/ DecodeFails
  BY <1>2 DEF RefuseType, CreateDecoder, Parse, Decode, DecodeFails
<1>3. CASE NewMetadata \/ ReadExif \/ ReadXMP \/ ReportError
  BY <1>3 DEF NewMetadata, ReadExif, ReadXMP, ReportError
<1>4. CASE LoadICC \/ LoadGrayProfile \/ MakeProfile \/ WrapProfile \/ CloseProfile
  BY <1>4 DEF LoadICC, LoadGrayProfile, MakeProfile, WrapProfile, CloseProfile
<1>5. CASE LoadGray \/ LoadColour \/ InsertLayer
  BY <1>5 DEF LoadGray, LoadColour, InsertLayer
<1>6. CASE Crop \/ Rotate \/ Mirror \/ Finish
  BY <1>6 DEF Crop, Rotate, Mirror, Finish
<1>7. CASE Kill \/ \E f \in Files : Call(f)
  BY <1>7 DEF Kill, Call
<1>8. CASE UNCHANGED vars
  BY <1>8 DEF vars
<1> QED
  BY <1>1, <1>2, <1>3, <1>4, <1>5, <1>6, <1>7, <1>8 DEF Next, Step, Done

(* No call that may set an error is given one that is set, and none survives  *)
(* to the answer of avif_load.                                                *)
THEOREM ErrorsAlwaysCleared == Spec => []ErrorsCleared
<1>1. Init => ErrorInv
  BY DEF Init, ErrorInv
<1>2. ErrorInv => ErrorsCleared
  BY DEF ErrorInv, ErrorsCleared, FailurePhases
<1> QED
  BY NextError, <1>1, <1>2, PTL DEF Spec

------------------------------------------------------------------------------
(* The decoded image: from its parsing on, the file is one libavif accepts,   *)
(* and nothing after its decoding changes what was decoded.                   *)
Decoded == (Decoding \ {"parse", "decode"}) \cup {"metadata"}

DecodedInv ==
    /\ pc # "idle" => file # <<>> /\ file[1] \in File
    /\ pc = "idle" => result = "none"
    /\ pc = "decode" => Parses(file[1])
    /\ pc \in Decoded \/ result = "SUCCESS" =>
         /\ Parses(file[1]) /\ Decodes(file[1])
         /\ avif = DecodedImage(file[1])

LEMMA NextDecoded == DecodedInv /\ [Next]_vars => DecodedInv'
<1> SUFFICES ASSUME DecodedInv, [Next]_vars PROVE DecodedInv'
  OBVIOUS
<1> USE DEF DecodedInv, Decoded, Decoding, FailurePhases, Return, Continue, work
<1>1. CASE OpenFile \/ OpenFails \/ RefuseEmpty \/ Allocate \/ AllocateFails \/ ReadFile \/ ReadFails
  BY <1>1 DEF OpenFile, OpenFails, RefuseEmpty, Allocate, AllocateFails, ReadFile, ReadFails
<1>2. CASE RefuseType \/ CreateDecoder \/ Parse \/ DecodeFails
  BY <1>2 DEF RefuseType, CreateDecoder, Parse, DecodeFails
<1>3. CASE Decode
  <2>1. /\ Parses(file[1]) /\ Decodes(file[1]) /\ avif' = DecodedImage(file[1])
        /\ pc = "decode" /\ pc' = "metadata" /\ file' = file
    BY <1>3 DEF Decode
  <2> QED
    BY <2>1
<1>4. CASE NewMetadata \/ ReadExif \/ ReadXMP \/ ReportError
  BY <1>4 DEF NewMetadata, ReadExif, ReadXMP, ReportError, AfterFailure
<1>5. CASE LoadICC \/ LoadGrayProfile \/ MakeProfile \/ WrapProfile \/ CloseProfile
  BY <1>5 DEF LoadICC, LoadGrayProfile, MakeProfile, WrapProfile, CloseProfile
<1>6. CASE LoadGray \/ LoadColour \/ InsertLayer
  BY <1>6 DEF LoadGray, LoadColour, InsertLayer
<1>7. CASE Crop \/ Rotate \/ Mirror \/ Finish
  BY <1>7 DEF Crop, Rotate, Mirror, Finish
<1>8. CASE Kill
  BY <1>8 DEF Kill
<1>9. CASE \E f \in Files : Call(f)
  <2>1. PICK f \in Files : Call(f)
    BY <1>9
  <2>2. /\ pc' = "open" /\ file' = <<f>> /\ result' = result
        /\ pc = "idle" /\ f \in File
    BY <2>1, FilesAssumption DEF Call
  <2> QED
    BY <2>2
<1>10. CASE UNCHANGED vars
  BY <1>10 DEF vars
<1> QED
  BY <1>1, <1>2, <1>3, <1>4, <1>5, <1>6, <1>7, <1>8, <1>9, <1>10 DEF Next, Step, Done

(* What a file that parses is decoded from.                                   *)
LEMMA SourceDescribed ==
    ASSUME NEW f \in File, Parses(f)
    PROVE  SourceOf(f)[1] \in Source
<1>1. SourceOf(f) # <<>> /\ SourceOf(f) \in AtMostOne(Source)
  BY DEF Parses, SourceOf, File
<1> QED
  BY <1>1, OneElement

(* No sample of an accepted picture is read that the decoder did not write:   *)
(* tiles of a grid leave no gap in Y, chroma or alpha.                        *)
THEOREM PlanesAlwaysComplete == Spec => []PlanesComplete
<1>1. Init => DecodedInv
  BY DEF Init, DecodedInv, Decoded, Decoding, FailurePhases
<1>2. DecodedInv => PlanesComplete
  <2> SUFFICES ASSUME DecodedInv, pc = "metadata" PROVE PlanesComplete
    BY DEF PlanesComplete
  <2> DEFINE source  == SourceOf(file[1])[1]
             picture == source.colour
             format  == picture.yuvFormat
  <2>1. file[1] \in File /\ Parses(file[1]) /\ Decodes(file[1])
    BY DEF DecodedInv, Decoded
  <2>2. source \in Source
    BY <2>1, SourceDescribed
  <2>3. picture \in Picture /\ PictureDecodes(picture, format)
    BY <2>1, <2>2 DEF Source, Decodes
  <2>4. /\ FilledPlane(picture, 1, 1) = PlaneOf(picture, 1, 1)
        /\ FilledPlane(picture, ChromaX(format), ChromaY(format))
             = PlaneOf(picture, ChromaX(format), ChromaY(format))
    <3> HIDE DEF picture, format
    <3> QED
      BY <2>3, PictureFills
  <2>5. ASSUME NEW i \in DOMAIN source.alpha
        PROVE  FilledPlane(source.alpha[i], 1, 1) = PlaneOf(picture, 1, 1)
    <3>1. source.alpha \in AtMostOne(Picture)
      BY <2>2 DEF Source
    <3>2. source.alpha # <<>>
      OBVIOUS
    <3>3. source.alpha[i] \in Picture
      BY <3>1, <3>2, OneElement
    <3>4. PictureDecodes(source.alpha[i], "none") /\ SameDimensions(source.alpha[i], picture)
      BY <2>1 DEF Decodes
    <3>5. FilledPlane(source.alpha[i], 1, 1) = PlaneOf(source.alpha[i], 1, 1)
      BY <3>3, <3>4, PictureFills
    <3> QED
      BY <3>4, <3>5 DEF PlaneOf, SameDimensions
  <2> QED
    BY <2>4, <2>5 DEF PlanesComplete
<1> QED
  BY NextDecoded, <1>1, <1>2, PTL DEF Spec

------------------------------------------------------------------------------
(* The clean aperture.  A clamped offset lies in the room there is.           *)
LEMMA NewSideFits ==
    ASSUME NEW axis, NEW size \in Side, NEW side \in NewSide(axis, size)
    PROVE  side \in Int /\ side <= size
BY WordSizeAssumption DEF NewSide, ToInt, Least, Side, IntMin, IntMax

LEMMA NewOffsetFits ==
    ASSUME NEW axis, NEW size \in Side, NEW side \in Int, side <= size,
           NEW off \in NewOffset(axis, size, side)
    PROVE  off \in Int /\ 0 <= off /\ off + side <= size
BY WordSizeAssumption DEF NewOffset, ToInt, Clamped, Side, IntMin, IntMax

LEMMA CropsFit ==
    ASSUME NEW box, NEW width \in Side, NEW height \in Side,
           NEW crop \in Crops(box, width, height), crop # <<>>
    PROVE  Inside(crop[1], width, height)
<1>1. PICK w \in NewSide(box.horizontal, width), h \in NewSide(box.vertical, height) :
        /\ w > 0 /\ h > 0
        /\ \E x \in NewOffset(box.horizontal, width, w), y \in NewOffset(box.vertical, height, h) :
              crop = <<[x |-> x, y |-> y, width |-> w, height |-> h]>>
  BY DEF Crops
<1>2. w \in Int /\ w <= width /\ h \in Int /\ h <= height
  BY <1>1, NewSideFits
<1>3. PICK x \in NewOffset(box.horizontal, width, w), y \in NewOffset(box.vertical, height, h) :
        crop = <<[x |-> x, y |-> y, width |-> w, height |-> h]>>
  BY <1>1
<1>4. /\ x \in Int /\ 0 <= x /\ x + w <= width
      /\ y \in Int /\ 0 <= y /\ y + h <= height
  BY <1>2, NewOffsetFits
<1> QED
  BY <1>1, <1>2, <1>3, <1>4 DEF Inside

(* Whatever the box says, and whatever a processor makes of a double outside  *)
(* the range of gint, GIMP is asked for a rectangle inside the image.         *)
THEOREM CropAlwaysInsideImage == Spec => []CropInsideImage
<1>1. Init => DecodedInv
  BY DEF Init, DecodedInv, Decoded, Decoding, FailurePhases
<1>2. DecodedInv => CropInsideImage
  <2> SUFFICES ASSUME DecodedInv, pc = "crop" PROVE CropInsideImage
    BY DEF CropInsideImage
  <2>1. file[1] \in File /\ Parses(file[1]) /\ avif = DecodedImage(file[1])
    BY DEF DecodedInv, Decoded, Decoding
  <2>2. SourceOf(file[1])[1] \in Source
    BY <2>1, SourceDescribed
  <2>3. SourceOf(file[1])[1].colour \in Picture
    BY <2>2 DEF Source
  <2>4. avif.width \in Side /\ avif.height \in Side
    BY <2>1, <2>3 DEF DecodedImage, Picture
  <2> QED
    BY <2>4, CropsFit DEF CropInsideImage
<1> QED
  BY NextDecoded, <1>1, <1>2, PTL DEF Spec

------------------------------------------------------------------------------
(* libavif's fractions.  A bounded set of naturals has a greatest element, so *)
(* the greatest common divisor exists.                                        *)
LEMMA GreatestExists ==
    ASSUME NEW M \in Nat, NEW S \in SUBSET (0..M), S # {}
    PROVE  \E g \in S : \A k \in S : k <= g
<1> DEFINE T == {n \in Nat : M - n \in S}
<1>1. T \subseteq Nat /\ T # {}
  <2>1. PICK k \in S : k \in 0..M
    OBVIOUS
  <2>2. M - k \in Nat /\ M - (M - k) = k
    BY <2>1
  <2> QED
    BY <2>1, <2>2
<1>2. \E x \in T : \A y \in T : ~ (<<y, x>> \in OpToRel(<, Nat))
  <2> HIDE DEF T
  <2> QED
    BY <1>1, NatLessThanWellFounded, WFMin
<1>3. PICK x \in T : \A y \in T : ~ (y < x)
  BY <1>1, <1>2, Zenon DEF OpToRel
<1>4. ASSUME NEW k \in S PROVE k <= M - x
  <2>1. k \in 0..M /\ M - k \in Nat /\ M - (M - k) = k
    OBVIOUS
  <2>2. M - k \in T
    BY <2>1
  <2>3. ~ (M - k < x) /\ x \in Nat
    <3> HIDE DEF T
    <3> QED
      BY <1>1, <1>3, <2>2
  <2> QED
    BY <2>1, <2>3
<1> QED
  BY <1>3, <1>4

(* A product that is a remainder is zero.                                     *)
LEMMA NoSmallMultiple ==
    ASSUME NEW g \in Nat \ {0}, NEW m \in Int, NEW r \in 0..(g - 1), g * m = r
    PROVE  m = 0 /\ r = 0
<1>1. m >= 1 => g * m >= g
  <2>1. m >= 1 => m - 1 \in Nat /\ g * (m - 1) \in Nat /\ g * m = g * (m - 1) + g
    OBVIOUS
  <2> QED
    BY <2>1
<1>2. m <= -1 => g * m <= -g
  <2>1. m <= -1 => -m - 1 \in Nat /\ g * (-m - 1) \in Nat /\ g * m = -(g * (-m - 1)) - g
    OBVIOUS
  <2> QED
    BY <2>1
<1>3. g * m \in Int
  OBVIOUS
<1>4. m = 0
  BY <1>1, <1>2, <1>3
<1> QED
  BY <1>4

(* Dividing what is a multiple and less than another.                         *)
LEMMA DividesBack ==
    ASSUME NEW g \in Nat \ {0}, NEW k \in Int, NEW r \in 0..(g - 1)
    PROVE  (g * k + r) \div g = k /\ (g * k + r) % g = r
<1> DEFINE a == g * k + r
           q == a \div g
           p == a % g
<1>1. a \in Int /\ q \in Int /\ p \in 0..(g - 1) /\ a = g * q + p
  OBVIOUS
<1>2. g * (k - q) = p - r /\ g * (q - k) = r - p
  <2> HIDE DEF q, p
  <2>1. g * (k - q) = g * k - g * q /\ g * (q - k) = g * q - g * k
    BY <1>1
  <2> QED
    BY <1>1, <2>1 DEF a
<1>3. k - q = 0 /\ p = r
  <2> HIDE DEF q, p
  <2>1. CASE p >= r
    <3>1. p - r \in 0..(g - 1) /\ k - q \in Int
      BY <1>1, <2>1
    <3> QED
      BY <1>1, <1>2, <3>1, NoSmallMultiple
  <2>2. CASE p < r
    <3>1. r - p \in 0..(g - 1) /\ q - k \in Int
      BY <1>1, <2>2
    <3> QED
      BY <1>1, <1>2, <3>1, NoSmallMultiple
  <2> QED
    BY <1>1, <2>1, <2>2
<1> QED
  BY <1>1, <1>3

(* Cancelling a factor, either way of the sign, is exact.                     *)
LEMMA ExactQuotient ==
    ASSUME NEW g \in Nat \ {0}, NEW n \in Int, n % g = 0
    PROVE  Truncated(n, g) \in Int /\ n = g * Truncated(n, g)
<1>1. n = g * (n \div g) /\ n \div g \in Int
  OBVIOUS
<1>2. (-n) = g * (-(n \div g)) + 0
  <2> DEFINE q == n \div g
  <2> HIDE DEF q
  <2>1. g * (-q) = -(g * q)
    BY <1>1 DEF q
  <2> QED
    BY <1>1, <2>1 DEF q
<1>3. (-n) \div g = -(n \div g)
  <2> DEFINE k == -(n \div g)
  <2>1. k \in Int /\ 0 \in 0..(g - 1)
    BY <1>1
  <2> HIDE DEF k
  <2>2. (g * k + 0) \div g = k
    BY <2>1, DividesBack
  <2> QED
    BY <1>2, <2>2 DEF k
<1>4. Truncated(n, g) = n \div g
  <2> DEFINE q == n \div g
             p == (-n) \div g
  <2>1. q \in Int /\ p = -q
    BY <1>1, <1>3
  <2> HIDE DEF q, p
  <2>2. -p = q
    BY <2>1
  <2> QED
    BY <2>2, Zenon DEF Truncated, q, p
<1> QED
  BY <1>1, <1>4

(* The divisor libavif cancels by divides both.                               *)
LEMMA DivisorFound ==
    ASSUME NEW n \in Int, NEW d \in Nat \ {0}
    PROVE  calcGCD(n, d) \in CommonDivisors(n, d)
<1> DEFINE S == CommonDivisors(n, d)
           M == Magnitude(n) + Magnitude(d)
<1>1. M \in Nat \ {0}
  BY DEF Magnitude
<1>2. S \in SUBSET (0..M)
  BY <1>1 DEF CommonDivisors
<1>3. S # {}
  <2>1. n % 1 = 0 /\ d % 1 = 0
    OBVIOUS
  <2>2. 1 \in S
    BY <1>1, <2>1 DEF CommonDivisors
  <2> QED
    BY <2>2
<1>4. \E g \in S : \A k \in S : k <= g
  <2> HIDE DEF S, M
  <2> QED
    BY <1>1, <1>2, <1>3, GreatestExists
<1> QED
  BY <1>4, Zenon DEF calcGCD

(* Simplifying keeps the value.                                               *)
Fraction == [n : Int, d : Nat \ {0}]

Expanded(s, g) == [n |-> g * s.n, d |-> g * s.d]

LEMMA SimplifiedSame ==
    ASSUME NEW f \in Fraction
    PROVE  /\ Simplified(f) \in Fraction
           /\ \E g \in Nat \ {0} : f = Expanded(Simplified(f), g)
<1> DEFINE g == calcGCD(f.n, f.d)
<1>1. f.n \in Int /\ f.d \in Nat \ {0} /\ f = [n |-> f.n, d |-> f.d]
  BY DEF Fraction
<1>2. g \in CommonDivisors(f.n, f.d)
  BY <1>1, DivisorFound
<1>3. g \in Nat \ {0} /\ f.n % g = 0 /\ f.d % g = 0
  <2> HIDE DEF g
  <2> QED
    BY <1>1, <1>2 DEF CommonDivisors, Magnitude
<1>4. Simplified(f) = [n |-> Truncated(f.n, g), d |-> f.d \div g]
  BY DEF Simplified
<1> HIDE DEF g
<1>5. Truncated(f.n, g) \in Int /\ f.n = g * Truncated(f.n, g)
  BY <1>1, <1>3, ExactQuotient
<1>6. f.d \div g \in Nat \ {0} /\ f.d = g * (f.d \div g)
  <2>1. f.d = g * (f.d \div g) /\ f.d \div g \in Int
    BY <1>1, <1>3
  <2>2. f.d \div g >= 0
    BY <1>1, <1>3
  <2>3. f.d \div g # 0
    BY <1>1, <1>3, <2>1
  <2> QED
    BY <2>1, <2>2, <2>3
<1>7. Simplified(f) \in Fraction
  BY <1>4, <1>5, <1>6 DEF Fraction
<1>8. f = Expanded(Simplified(f), g)
  BY <1>1, <1>4, <1>5, <1>6 DEF Expanded
<1> QED
  BY <1>3, <1>7, <1>8

(* Equal multiples of a number other than zero are multiples of equals.       *)
LEMMA Cancelled ==
    ASSUME NEW k \in Nat \ {0}, NEW a \in Int, NEW b \in Int, k * a = k * b
    PROVE  a = b
<1>1. k * (a - b) = 0
  OBVIOUS
<1>2. a - b = 0
  BY <1>1, NoSmallMultiple
<1> QED
  BY <1>2

(* A sum or a difference is exact where it does not overflow.                 *)
LEMMA SumIsExact ==
    ASSUME NEW a \in Fraction, NEW b \in Fraction, NEW sign \in {-1, 1},
           NEW c \in Sum(a, b, sign)
    PROVE  /\ c \in Fraction
           /\ c.n * (a.d * b.d) = (a.n * b.d + sign * (b.n * a.d)) * c.d
<1> DEFINE p == Simplified(a)
           q == Simplified(b)
           d == IF p.d = q.d THEN p.d ELSE p.d * q.d
           n == IF p.d = q.d THEN p.n + sign * q.n ELSE p.n * q.d + sign * (q.n * p.d)
<1>1. PICK g \in Nat \ {0} : a = Expanded(p, g)
  BY SimplifiedSame
<1>2. PICK h \in Nat \ {0} : b = Expanded(q, h)
  BY SimplifiedSame
<1>3. p \in Fraction /\ q \in Fraction
  BY SimplifiedSame
<1>4. c = Simplified([n |-> n, d |-> d])
  BY Zenon DEF Sum
<1> HIDE DEF p, q
<1>5. p.n \in Int /\ p.d \in Nat \ {0} /\ q.n \in Int /\ q.d \in Nat \ {0}
  BY <1>3 DEF Fraction
<1>6. a.n = g * p.n /\ a.d = g * p.d /\ b.n = h * q.n /\ b.d = h * q.d
  BY <1>1, <1>2 DEF Expanded
<1>7. n \in Int /\ d \in Nat \ {0}
  BY <1>5
<1>8. n * (p.d * q.d) = (p.n * q.d + sign * (q.n * p.d)) * d
  <2>1. CASE p.d = q.d
    <3>1. n = p.n + sign * q.n /\ d = p.d
      BY <2>1
    <3>2. (p.n + sign * q.n) * (p.d * p.d) = (p.n * p.d + sign * (q.n * p.d)) * p.d
      BY <1>5
    <3> QED
      BY <2>1, <3>1, <3>2
  <2>2. CASE p.d # q.d
    <3>1. n = p.n * q.d + sign * (q.n * p.d) /\ d = p.d * q.d
      BY <2>2
    <3> QED
      BY <3>1
  <2> QED
    BY <2>1, <2>2
<1> HIDE DEF n, d
<1>9. ASSUME NEW x \in Int, NEW y \in Int
      PROVE  n * ((g * x) * (h * y)) = (g * h) * (n * (x * y))
  BY <1>7
<1>10. ASSUME NEW u \in Int, NEW v \in Int, NEW x \in Int, NEW y \in Int
       PROVE  (g * u) * (h * y) + sign * ((h * v) * (g * x)) = (g * h) * (u * y + sign * (v * x))
  <2> DEFINE r == (h * v) * (g * x)
             t == v * x
             w == (g * u) * (h * y)
             z == u * y
  <2>1. r \in Int /\ t \in Int /\ w \in Int /\ z \in Int
    OBVIOUS
  <2>2. w + r = (g * h) * (z + t) /\ w - r = (g * h) * (z - t)
    OBVIOUS
  <2> HIDE DEF r, t, w, z
  <2>3. CASE sign = 1
    <3>1. sign * r = r /\ sign * t = t
      BY <2>1, <2>3
    <3> QED
      BY <2>2, <3>1 DEF r, t, w, z
  <2>4. CASE sign = -1
    <3>1. w + sign * r = w - r /\ z + sign * t = z - t
      BY <2>1, <2>4
    <3> QED
      BY <2>2, <3>1 DEF r, t, w, z
  <2> QED
    BY <2>3, <2>4
<1>11. \A u, v, w \in Int : u = v * w => (g * h) * u = ((g * h) * v) * w
  OBVIOUS
<1>12. n * (a.d * b.d) = (g * h) * (n * (p.d * q.d))
  BY <1>5, <1>6, <1>7, <1>9
<1>13. a.n * b.d + sign * (b.n * a.d) = (g * h) * (p.n * q.d + sign * (q.n * p.d))
  BY <1>5, <1>6, <1>10
<1>14. n * (a.d * b.d) = (a.n * b.d + sign * (b.n * a.d)) * d
  BY <1>5, <1>7, <1>8, <1>11, <1>12, <1>13
<1>15. [n |-> n, d |-> d] \in Fraction
  BY <1>7 DEF Fraction
<1>16. PICK k \in Nat \ {0} : n = k * c.n /\ d = k * c.d
  BY <1>4, <1>15, SimplifiedSame DEF Expanded
<1>17. c \in Fraction /\ c.n \in Int /\ c.d \in Nat \ {0}
  BY <1>4, <1>15, SimplifiedSame DEF Fraction
<1>18. k * (c.n * (a.d * b.d)) = k * ((a.n * b.d + sign * (b.n * a.d)) * c.d)
  <2> DEFINE r == a.d * b.d
             t == a.n * b.d + sign * (b.n * a.d)
  <2>1. r \in Int /\ t \in Int
    BY <1>5, <1>6
  <2> HIDE DEF r, t
  <2>2. (k * c.n) * r = t * (k * c.d)
    BY <1>14, <1>16 DEF r, t
  <2>3. k * (c.n * r) = k * (t * c.d)
    BY <1>17, <2>1, <2>2
  <2> QED
    BY <2>3 DEF r, t
<1>19. c.n * (a.d * b.d) \in Int /\ (a.n * b.d + sign * (b.n * a.d)) * c.d \in Int
  BY <1>5, <1>6, <1>17
<1> QED
  BY <1>17, <1>18, <1>19, Cancelled

(* One axis of a box libavif accepts: the side is exact, and the offset lies  *)
(* where the box says, twice over and times the denominator.                  *)
LEMMA ConvertedExactly ==
    ASSUME NEW axis \in Axis, NEW size \in Side, NEW part \in Converted(axis, size)
    PROVE  /\ axis.d > 0 /\ axis.offD > 0
           /\ part.side \in Nat /\ axis.n = axis.d * part.side
           /\ part.offset \in Nat
           /\ 2 * Signed(axis.offN) + (size - part.side) * axis.offD
                = (2 * axis.offD) * part.offset
<1> DEFINE n == Signed(axis.n)
           d == Signed(axis.d)
           offN == Signed(axis.offN)
           offD == Signed(axis.offD)
           side == n \div d
           centre == calcCenter(size)
           off == [n |-> offN, d |-> offD]
           half == [n |-> side, d |-> 2]
<1>1. /\ ~ (d <= 0) /\ ~ (offD <= 0) /\ ~ (n < 0) /\ ~ (n % d # 0)
      /\ \E k1 \in Sum(centre, off, 1) : \E k2 \in Sum(k1, half, -1) :
            /\ k2.d = 1 /\ k2.n >= 0
            /\ part = [offset |-> k2.n, side |-> side]
  BY Zenon DEF Converted
<1>2. PICK c1 \in Sum(centre, off, 1) : \E k2 \in Sum(c1, half, -1) :
        /\ k2.d = 1 /\ k2.n >= 0
        /\ part = [offset |-> k2.n, side |-> side]
  BY <1>1
<1>3. PICK c2 \in Sum(c1, half, -1) :
        /\ c2.d = 1 /\ c2.n >= 0
        /\ part = [offset |-> c2.n, side |-> side]
  BY <1>2
<1>4. /\ axis.n \in Word /\ axis.d \in Word /\ axis.offN \in Word /\ axis.offD \in Word
      /\ offN \in Int /\ size \in Nat
  BY WordSizeAssumption DEF Axis, Word, Signed, Side, IntMax
<1>5. n = axis.n /\ d = axis.d /\ offD = axis.offD /\ n \in Nat /\ d \in Nat \ {0}
      /\ offD \in Nat \ {0}
  <2>1. \A w \in Word : Signed(w) >= 0 => Signed(w) = w /\ w \in Nat
    BY WordSizeAssumption DEF Word, Signed, IntMax
  <2>2. n \in Int /\ d \in Int /\ offD \in Int
    BY <1>4, WordSizeAssumption DEF Word, Signed, IntMax
  <2> QED
    BY <1>1, <1>4, <2>1, <2>2
<1> HIDE DEF n, d, offN, offD
<1>6. side \in Nat /\ n = d * side
  <2>1. n = d * side /\ side \in Int
    BY <1>1, <1>5
  <2>2. side >= 0
    BY <1>5
  <2> QED
    BY <2>1, <2>2
<1> HIDE DEF side
<1>7. centre \in Fraction /\ centre.d \in {1, 2} /\ 2 * centre.n = size * centre.d
  <2>1. CASE size % 2 = 0
    <3>1. centre = [n |-> size \div 2, d |-> 1]
      BY <2>1 DEF calcCenter
    <3>2. size \div 2 \in Int /\ 2 * (size \div 2) = size * 1
      BY <1>4, <2>1
    <3> QED
      BY <3>1, <3>2 DEF Fraction
  <2>2. CASE size % 2 # 0
    <3>1. centre = [n |-> size, d |-> 2]
      BY <2>2 DEF calcCenter
    <3> QED
      BY <1>4, <3>1 DEF Fraction
  <2> QED
    BY <2>1, <2>2
<1> HIDE DEF centre
<1>8. off \in Fraction /\ half \in Fraction
  BY <1>4, <1>5, <1>6 DEF Fraction
<1>9. /\ c1 \in Fraction
      /\ c1.n * (centre.d * off.d) = (centre.n * off.d + 1 * (off.n * centre.d)) * c1.d
  <2>1. 1 \in {-1, 1}
    OBVIOUS
  <2> QED
    BY <1>2, <1>7, <1>8, <2>1, SumIsExact
<1>10. /\ c2 \in Fraction
      /\ c2.n * (c1.d * half.d) = (c1.n * half.d + (-1) * (half.n * c1.d)) * c2.d
  <2>1. -1 \in {-1, 1}
    OBVIOUS
  <2> QED
    BY <1>3, <1>8, <1>9, <2>1, SumIsExact
<1>11. /\ c1.n \in Int /\ c1.d \in Nat \ {0} /\ c2.n \in Int
       /\ centre.n \in Int
  BY <1>7, <1>9, <1>10 DEF Fraction
<1>12. c1.n * (centre.d * offD) = (centre.n * offD + offN * centre.d) * c1.d
  BY <1>4, <1>5, <1>7, <1>9, <1>11
<1>13. 2 * (c2.n * c1.d) = 2 * c1.n - side * c1.d
  BY <1>3, <1>6, <1>10, <1>11
<1> DEFINE e == c1.d
           x == c2.n
<1>14. e * ((2 * offD) * x) = e * (2 * offN + (size - side) * offD)
  <2> DEFINE m == c1.n
  <2>1. /\ e \in Nat \ {0} /\ x \in Int /\ m \in Int
        /\ 2 * (x * e) = 2 * m - side * e
    BY <1>11, <1>13
  <2>2. 2 * (m * offD) = (size * offD + 2 * offN) * e
    <3>1. CASE centre.d = 1
      <4>1. m * offD = (centre.n * offD + offN) * e
        BY <1>4, <1>5, <1>11, <1>12, <3>1
      <4>2. size = 2 * centre.n
        BY <1>4, <1>7, <1>11, <3>1
      <4> DEFINE z == centre.n
      <4>3. z \in Int /\ m * offD = (z * offD + offN) * e /\ size = 2 * z
        BY <1>11, <4>1, <4>2
      <4> HIDE DEF z, m, e
      <4>4. 2 * ((z * offD + offN) * e) = ((2 * z) * offD + 2 * offN) * e
        BY <1>4, <1>5, <2>1, <4>3
      <4> QED
        BY <4>3, <4>4
    <3>2. CASE centre.d = 2
      <4> DEFINE z == centre.n
      <4>1. z = size /\ m * (2 * offD) = (z * offD + offN * 2) * e
        BY <1>4, <1>7, <1>11, <1>12, <3>2
      <4> HIDE DEF z, m, e
      <4>2. m * (2 * offD) = 2 * (m * offD)
        BY <1>5, <2>1
      <4> QED
        BY <1>4, <4>1, <4>2
    <3> QED
      BY <1>7, <3>1, <3>2
  <2> HIDE DEF m, e, x
  <2>3. e * ((2 * offD) * x) = (2 * (x * e)) * offD
    BY <1>5, <2>1
  <2>4. (2 * m - side * e) * offD = 2 * (m * offD) - side * (e * offD)
    BY <1>5, <1>6, <2>1
  <2>5. (size * offD + 2 * offN) * e - side * (e * offD) = e * (2 * offN + (size - side) * offD)
    BY <1>4, <1>5, <1>6, <2>1
  <2> QED
    BY <2>1, <2>2, <2>3, <2>4, <2>5
<1>15. (2 * offD) * x = 2 * offN + (size - side) * offD
  <2>1. e \in Nat \ {0} /\ x \in Int
    BY <1>11
  <2> HIDE DEF e, x
  <2>2. (2 * offD) * x \in Int /\ 2 * offN + (size - side) * offD \in Int
    BY <1>4, <1>5, <1>6, <2>1
  <2> QED
    BY <1>14, <2>1, <2>2, Cancelled
<1>16. part.side = side /\ part.offset = x /\ x \in Nat
  BY <1>3, <1>11
<1> QED
  BY <1>5, <1>6, <1>15, <1>16 DEF offN

(* Such an axis is cropped to exactly that part: rounding to the nearest and  *)
(* clamping leave it alone.                                                   *)
CroppedTo(axis, size, part) ==
    /\ axis.d > 0 /\ axis.offD > 0
    /\ NewSide(axis, size) = {part.side}
    /\ NewOffset(axis, size, part.side) = {part.offset}

LEMMA AxisAsConverted ==
    ASSUME NEW axis \in Axis, NEW size \in Side, NEW part \in Converted(axis, size),
           part.side > 0, part.offset + part.side <= size
    PROVE  CroppedTo(axis, size, part)
<1> DEFINE side == part.side
           x == part.offset
           d == axis.d
           offD == axis.offD
           offN == Signed(axis.offN)
<1>1. /\ d > 0 /\ offD > 0 /\ side \in Nat /\ axis.n = d * side /\ x \in Nat
      /\ 2 * offN + (size - side) * offD = (2 * offD) * x
  BY ConvertedExactly
<1>2. d \in Nat \ {0} /\ offD \in Nat \ {0} /\ offN \in Int /\ axis.n \in Nat /\ size \in Nat
      /\ size <= IntMax /\ IntMin <= 0
  BY <1>1, WordSizeAssumption DEF Axis, Word, Signed, Side, IntMax, IntMin
<1>3. side > 0 /\ x + side <= size
  OBVIOUS
<1> HIDE DEF side, x, d, offD, offN
<1>4. Truncated(2 * axis.n + d, 2 * d) = side
  <2>1. 2 * axis.n + d = (2 * d) * side + d /\ (2 * d) * side + d >= 0
    BY <1>1, <1>2
  <2>2. 2 * d \in Nat \ {0} /\ d \in 0..(2 * d - 1)
    BY <1>2
  <2>3. ((2 * d) * side + d) \div (2 * d) = side
    BY <1>1, <2>2, DividesBack
  <2>4. Truncated((2 * d) * side + d, 2 * d) = side
    BY <2>1, <2>3, Zenon DEF Truncated
  <2> QED
    BY <2>1, <2>4, Zenon
<1>5. NewSide(axis, size) = {side}
  <2>1. side \in IntMin..IntMax /\ side <= size
    BY <1>1, <1>2, <1>3, WordSizeAssumption DEF IntMin, IntMax
  <2>2. ToInt(side) = {side}
    BY <2>1 DEF ToInt
  <2>3. Least(side, size) = side
    BY <1>1, <1>2, <2>1 DEF Least
  <2> QED
    BY <1>4, <2>2, <2>3 DEF NewSide, d
<1>6. Unrounded(axis, size, side) = x
  <2>1. /\ 2 * offN + (size - side + 1) * offD = (2 * offD) * x + offD
        /\ (2 * offD) * x + offD >= 0
    BY <1>1, <1>2
  <2>2. 2 * offD \in Nat \ {0} /\ offD \in 0..(2 * offD - 1)
    BY <1>2
  <2>3. ((2 * offD) * x + offD) \div (2 * offD) = x
    BY <1>1, <2>2, DividesBack
  <2>4. Truncated((2 * offD) * x + offD, 2 * offD) = x
    BY <2>1, <2>3, Zenon DEF Truncated
  <2> QED
    BY <2>1, <2>4, Zenon DEF Unrounded, offN, offD
<1>7. NewOffset(axis, size, side) = {x}
  <2>1. x \in IntMin..IntMax /\ ~ (x < 0) /\ ~ (x > size - side)
    BY <1>1, <1>2, <1>3, WordSizeAssumption DEF IntMin, IntMax
  <2>2. ToInt(x) = {x}
    BY <2>1 DEF ToInt
  <2>3. Clamped(x, size - side) = x
    BY <2>1, Zenon DEF Clamped
  <2> QED
    BY <1>6, <2>2, <2>3 DEF NewOffset
<1> QED
  BY <1>1, <1>5, <1>7 DEF CroppedTo, side, x, d, offD

(* Both axes together.                                                        *)
LEMMA CropsAsLibavif ==
    ASSUME NEW box \in Box, NEW width \in Side, NEW height \in Side, NEW format,
           NEW rect \in avifCropRect(box, width, height, format)
    PROVE  Crops(box, width, height) = {<<rect>>}
<1>1. PICK across \in Converted(box.horizontal, width),
             down \in Converted(box.vertical, height) :
        /\ InBounds(across, width, format \in {"YUV420", "YUV422"})
        /\ InBounds(down, height, format = "YUV420")
        /\ rect = [x |-> across.offset, y |-> down.offset, width |-> across.side, height |-> down.side]
  BY DEF avifCropRect
<1>2. box.horizontal \in Axis /\ box.vertical \in Axis
  BY DEF Box
<1>3. /\ across.side > 0 /\ across.offset + across.side <= width
      /\ down.side > 0 /\ down.offset + down.side <= height
  BY <1>1, Zenon DEF InBounds
<1>4. /\ box.horizontal.d > 0 /\ box.horizontal.offD > 0
      /\ NewSide(box.horizontal, width) = {across.side}
      /\ NewOffset(box.horizontal, width, across.side) = {across.offset}
  <2>1. CroppedTo(box.horizontal, width, across)
    BY <1>2, <1>3, AxisAsConverted
  <2> QED
    BY <2>1 DEF CroppedTo
<1>5. /\ box.vertical.d > 0 /\ box.vertical.offD > 0
      /\ NewSide(box.vertical, height) = {down.side}
      /\ NewOffset(box.vertical, height, down.side) = {down.offset}
  <2>1. CroppedTo(box.vertical, height, down)
    BY <1>2, <1>3, AxisAsConverted
  <2> QED
    BY <2>1 DEF CroppedTo
<1>6. HasDenominators(box)
  BY <1>4, <1>5 DEF HasDenominators
<1>7. rect = [x |-> across.offset, y |-> down.offset, width |-> across.side, height |-> down.side]
  BY <1>1
<1> DEFINE Cut(w, h) == IF w > 0 /\ h > 0
                        THEN {<<[x |-> x, y |-> y, width |-> w, height |-> h]>> :
                                x \in NewOffset(box.horizontal, width, w),
                                y \in NewOffset(box.vertical, height, h)}
                        ELSE {<<>>}
<1>8. ASSUME NEW crop
      PROVE  crop \in Crops(box, width, height)
               <=> \E w \in NewSide(box.horizontal, width), h \in NewSide(box.vertical, height) :
                      crop \in Cut(w, h)
  <2>1. Crops(box, width, height)
          = UNION {Cut(w, h) : w \in NewSide(box.horizontal, width),
                               h \in NewSide(box.vertical, height)}
    <3>1. Crops(box, width, height)
            = IF ~HasDenominators(box) THEN {<<>>}
              ELSE UNION {Cut(w, h) : w \in NewSide(box.horizontal, width),
                                      h \in NewSide(box.vertical, height)}
      BY DEF Crops
    <3> HIDE DEF Cut
    <3> QED
      BY <1>6, <3>1
  <2> HIDE DEF Cut
  <2> QED
    BY <2>1
<1>9. ASSUME NEW crop PROVE crop \in Cut(across.side, down.side) <=> crop = <<rect>>
  <2>1. crop \in Cut(across.side, down.side)
          <=> \E x \in NewOffset(box.horizontal, width, across.side),
                 y \in NewOffset(box.vertical, height, down.side) :
                   crop = <<[x |-> x, y |-> y, width |-> across.side, height |-> down.side]>>
    BY <1>3
  <2> HIDE DEF Cut
  <2>2. \A x, y : /\ x \in NewOffset(box.horizontal, width, across.side) <=> x = across.offset
                  /\ y \in NewOffset(box.vertical, height, down.side) <=> y = down.offset
    BY <1>4, <1>5
  <2> QED
    BY <1>7, <2>1, <2>2, Zenon
<1> HIDE DEF Cut
<1>10. ASSUME NEW crop PROVE crop \in Crops(box, width, height) <=> crop = <<rect>>
  BY <1>4, <1>5, <1>8, <1>9
<1> QED
  BY <1>10

(* A box that libavif's exact arithmetic accepts is cropped to the very       *)
(* rectangle it stands for, whatever its fractions and the word size.         *)
THEOREM CropAlwaysAsLibavif == Spec => []CropAsLibavif
<1>1. Init => DecodedInv
  BY DEF Init, DecodedInv, Decoded, Decoding, FailurePhases
<1>2. DecodedInv => CropAsLibavif
  <2> SUFFICES ASSUME DecodedInv, pc = "crop", avif.clap # <<>> PROVE CropAsLibavif
    BY DEF CropAsLibavif
  <2>1. file[1] \in File /\ Parses(file[1]) /\ avif = DecodedImage(file[1])
    BY DEF DecodedInv, Decoded, Decoding
  <2>2. SourceOf(file[1])[1] \in Source
    BY <2>1, SourceDescribed
  <2>3. SourceOf(file[1])[1].colour \in Picture
    BY <2>2 DEF Source
  <2>4. avif.width \in Side /\ avif.height \in Side
    BY <2>1, <2>3 DEF DecodedImage, Picture
  <2>5. avif.clap \in AtMostOne(Box)
    BY <2>1, <2>2 DEF DecodedImage, Source
  <2>6. avif.clap[1] \in Box
    BY <2>5, OneElement
  <2> QED
    BY <2>4, <2>6, CropsAsLibavif DEF CropAsLibavif
<1> QED
  BY NextDecoded, <1>1, <1>2, PTL DEF Spec
==============================================================================
