--------------------------- MODULE TileLayoutProofs ---------------------------
(* TileLayout for every set of frame sizes.                                   *)
EXTENDS TileLayout, FiniteSetTheorems, TLAPS

(* The doubling loop of tile_log2 counts: its result is a natural number.     *)
LEMMA TileLog2Type == \A b, t : tile_log2(b, t) \in Nat
<1> TAKE b, t
<1> DEFINE S == {k \in 1..16 : b * Pow2[k] < t}
<1>1. IsFiniteSet(1..16)
  BY FS_Interval, 1 \in Int, 16 \in Int, ZenonT(20)
<1>2. IsFiniteSet(S)
  BY <1>1, FS_Subset
<1>3. Cardinality(S) \in Nat
  BY <1>2, FS_CardinalityType
<1> QED
  BY <1>3 DEF tile_log2

(* The limits of every frame are natural numbers, and the minimal number of   *)
(* tiles is never below the minimal number of columns.                        *)
LEMMA LimitsType ==
    \A f : /\ minLog2TileCols(f) \in Nat
           /\ maxLog2TileCols(f) \in Nat
           /\ maxLog2TileRows(f) \in Nat
           /\ minLog2Tiles(f) \in Nat
           /\ minLog2TileCols(f) <= minLog2Tiles(f)
<1> TAKE f
<1>1. minLog2TileCols(f) \in Nat
  BY TileLog2Type DEF minLog2TileCols
<1>2. maxLog2TileCols(f) \in Nat /\ maxLog2TileRows(f) \in Nat
  BY TileLog2Type DEF maxLog2TileCols, maxLog2TileRows
<1>3. tile_log2(maxTileAreaSb, Superblocks(f[2]) * Superblocks(f[1])) \in Nat
  BY TileLog2Type
<1> QED
  BY <1>1, <1>2, <1>3 DEF minLog2Tiles, Larger

(* What the recursion preserves: the types, the limits, and the balance of    *)
(* splits made and splits missing.                                            *)
IInv ==
    /\ frame \in FrameSizes
    /\ needed \in Nat
    /\ tileColsLog2 \in Nat /\ tileRowsLog2 \in Nat
    /\ running \in BOOLEAN
    /\ minLog2TileCols(frame) <= tileColsLog2
    /\ TilesWithinLimits
    /\ NoSplitLost

LEMMA InitIInv == Init => IInv
<1> SUFFICES ASSUME Init PROVE IInv
  OBVIOUS
<1>1. /\ minLog2TileCols(frame) \in Nat /\ maxLog2TileCols(frame) \in Nat
      /\ maxLog2TileRows(frame) \in Nat /\ minLog2Tiles(frame) \in Nat
      /\ minLog2TileCols(frame) <= minLog2Tiles(frame)
  BY LimitsType
<1>2. needed \in Nat /\ NoSplitLost
  BY <1>1 DEF Init, SplitsNeeded, NoSplitLost
<1>3. TilesWithinLimits
  BY <1>1 DEF Init, TilesWithinLimits, Larger
<1> QED
  BY <1>1, <1>2, <1>3 DEF Init, IInv

LEMMA NextIInv == IInv /\ [Next]_vars => IInv'
<1> SUFFICES ASSUME IInv, [Next]_vars PROVE IInv'
  OBVIOUS
<1>1. /\ minLog2TileCols(frame) \in Nat /\ maxLog2TileCols(frame) \in Nat
      /\ maxLog2TileRows(frame) \in Nat /\ minLog2Tiles(frame) \in Nat
  BY LimitsType
<1>2. frame' = frame
  BY DEF Next, SplitCols, SplitRows, Return, Done, vars
<1>3. CASE SplitCols
  <2>1. /\ tileColsLog2' = tileColsLog2 + 1
        /\ needed' = needed - 1 /\ needed # 0
        /\ tileRowsLog2' = tileRowsLog2 /\ running' = running
        /\ tileColsLog2 < maxLog2TileCols(frame)
    BY <1>3 DEF SplitCols, ColsLeft
  <2>2. TilesWithinLimits'
    BY <1>1, <1>2, <2>1 DEF IInv, TilesWithinLimits, Larger
  <2>3. NoSplitLost'
    BY <1>1, <1>2, <2>1 DEF IInv, NoSplitLost
  <2> QED
    BY <1>1, <1>2, <2>1, <2>2, <2>3 DEF IInv
<1>4. CASE SplitRows
  <2>1. /\ tileRowsLog2' = tileRowsLog2 + 1
        /\ needed' = needed - 1 /\ needed # 0
        /\ tileColsLog2' = tileColsLog2 /\ running' = running
        /\ tileRowsLog2 < maxLog2TileRows(frame)
    BY <1>4 DEF SplitRows, RowsLeft
  <2>2. TilesWithinLimits'
    BY <1>1, <1>2, <2>1 DEF IInv, TilesWithinLimits
  <2>3. NoSplitLost'
    BY <1>1, <1>2, <2>1 DEF IInv, NoSplitLost
  <2> QED
    BY <1>1, <1>2, <2>1, <2>2, <2>3 DEF IInv
<1>5. CASE Return
  BY <1>2, <1>5 DEF Return, IInv, TilesWithinLimits, NoSplitLost
<1>6. CASE UNCHANGED vars
  BY <1>6 DEF vars, IInv, TilesWithinLimits, NoSplitLost
<1> QED
  BY <1>3, <1>4, <1>5, <1>6 DEF Next, Done

(* set_tiles_recursive never passes a limit, whatever the frame size.         *)
THEOREM LimitsHold == Spec => []TilesWithinLimits
<1>1. IInv => TilesWithinLimits
  BY DEF IInv
<1> QED
  BY InitIInv, NextIInv, <1>1, PTL DEF Spec

(* Whatever the frame size, every split asked for is made exactly once or is  *)
(* still pending when the recursion stops.                                    *)
THEOREM SplitsConserved == Spec => []NoSplitLost
<1>1. IInv => NoSplitLost
  BY DEF IInv
<1> QED
  BY InitIInv, NextIInv, <1>1, PTL DEF Spec
------------------------------------------------------------------------------
(* What the recursion is for.  The loop of tile_log2 ends at the first power  *)
(* of two that reaches the target.                                            *)
LEMMA Pow2Grows ==
    ASSUME NEW k \in 1..16, NEW m \in 1..16, k <= m
    PROVE  Pow2[k] \in Nat /\ Pow2[m] \in Nat /\ Pow2[k] <= Pow2[m]
BY DEF Pow2

LEMMA Pow2First ==
    ASSUME NEW b \in Nat, NEW t \in Nat, NEW n \in 0..15, t <= b * Pow2[n + 1]
    PROVE  \E j \in 0..n : b * Pow2[j + 1] >= t /\ (j = 0 \/ b * Pow2[j] < t)
BY DEF Pow2

LEMMA IntervalSize ==
    ASSUME NEW n \in Nat
    PROVE  Cardinality(1..n) = n
<1>1. Cardinality(1..n) = IF 1 > n THEN 0 ELSE n - 1 + 1
  BY FS_Interval, 1 \in Int, n \in Int
<1> DEFINE C == Cardinality(1..n)
<1>2. C = IF 1 > n THEN 0 ELSE n - 1 + 1
  BY <1>1
<1> HIDE DEF C
<1>3. C = n
  BY <1>2
<1> QED
  BY <1>3 DEF C

LEMMA TileLog2Reaches ==
    ASSUME NEW b \in Nat, NEW t \in Nat, NEW n \in 0..15, t <= b * Pow2[n + 1]
    PROVE  /\ tile_log2(b, t) \in 0..n
           /\ t <= b * Pow2[tile_log2(b, t) + 1]
<1>1. PICK j \in 0..n : b * Pow2[j + 1] >= t /\ (j = 0 \/ b * Pow2[j] < t)
  BY Pow2First
<1>2. ASSUME NEW k \in 1..16 PROVE b * Pow2[k] < t <=> k <= j
  <2>1. CASE k <= j
    <3>1. Pow2[k] \in Nat /\ Pow2[j] \in Nat /\ Pow2[k] <= Pow2[j]
      BY <2>1, Pow2Grows
    <3>2. b * Pow2[k] <= b * Pow2[j]
      BY <3>1
    <3> QED
      BY <1>1, <2>1, <3>1, <3>2
  <2>2. CASE k > j
    <3>1. Pow2[j + 1] \in Nat /\ Pow2[k] \in Nat /\ Pow2[j + 1] <= Pow2[k]
      BY <2>2, Pow2Grows
    <3>2. b * Pow2[j + 1] <= b * Pow2[k]
      BY <3>1
    <3> QED
      BY <1>1, <2>2, <3>1, <3>2
  <2> QED
    BY <2>1, <2>2
<1> DEFINE S == {k \in 1..16 : b * Pow2[k] < t}
<1>3. S = 1..j
  BY <1>2
<1>4. tile_log2(b, t) = Cardinality(S)
  BY DEF tile_log2
<1> HIDE DEF S
<1>5. tile_log2(b, t) = Cardinality(1..j)
  BY <1>3, <1>4
<1>6. Cardinality(1..j) = j
  BY IntervalSize
<1> QED
  BY <1>1, <1>5, <1>6

LEMMA Pow2Adds ==
    ASSUME NEW c \in 0..6, NEW r \in 0..6
    PROVE  Pow2[c + r + 1] = Pow2[c + 1] * Pow2[r + 1]
BY DEF Pow2

(* A frame AV1 can have is at most 512 superblocks wide and high.             *)
LEMMA SuperblocksBound ==
    ASSUME NEW p \in Nat
    PROVE  /\ Superblocks(p) \in Nat
           /\ p <= AV1MaxSide => Superblocks(p) <= 512
BY DEF Superblocks, AV1MaxSide

(* What the limits of such a frame mean for its superblocks.                  *)
LEMMA LimitsMean ==
    ASSUME NEW f \in Nat \X Nat, f[1] <= AV1MaxSide, f[2] <= AV1MaxSide
    PROVE  /\ minLog2TileCols(f) \in 0..4
           /\ Superblocks(f[1]) <= 32 * Pow2[minLog2TileCols(f) + 1]
           /\ maxLog2TileCols(f) \in 0..6
           /\ Smaller(Superblocks(f[1]), 64) <= Pow2[maxLog2TileCols(f) + 1]
           /\ maxLog2TileRows(f) \in 0..6
           /\ Smaller(Superblocks(f[2]), 64) <= Pow2[maxLog2TileRows(f) + 1]
           /\ tile_log2(576, Superblocks(f[2]) * Superblocks(f[1])) \in 0..15
           /\ Superblocks(f[2]) * Superblocks(f[1])
                <= 576 * Pow2[tile_log2(576, Superblocks(f[2]) * Superblocks(f[1])) + 1]
<1> DEFINE W == Superblocks(f[1])
           H == Superblocks(f[2])
<1>1. W \in 0..512 /\ H \in 0..512
  <2>1. f[1] \in Nat /\ f[2] \in Nat
    OBVIOUS
  <2>2. W \in Nat /\ H \in Nat /\ W <= 512 /\ H <= 512
    BY <2>1, SuperblocksBound
  <2> QED
    BY <2>2
<1> HIDE DEF W, H
<1>2. maxTileWidthSb = 32
  BY DEF maxTileWidthSb
<1>3. tile_log2(32, W) \in 0..4 /\ W <= 32 * Pow2[tile_log2(32, W) + 1]
  <2>1. W <= 32 * Pow2[4 + 1]
    BY <1>1 DEF Pow2
  <2>2. W \in Nat /\ 32 \in Nat /\ 4 \in 0..15
    BY <1>1
  <2> QED
    BY <2>1, <2>2, TileLog2Reaches
<1>4. ASSUME NEW s \in 0..512
      PROVE  /\ tile_log2(1, Smaller(s, 64)) \in 0..6
             /\ Smaller(s, 64) <= Pow2[tile_log2(1, Smaller(s, 64)) + 1]
  <2>1. Smaller(s, 64) \in Nat /\ Smaller(s, 64) <= 1 * Pow2[6 + 1]
    BY DEF Smaller, Pow2
  <2>2. /\ tile_log2(1, Smaller(s, 64)) \in 0..6
        /\ Smaller(s, 64) <= 1 * Pow2[tile_log2(1, Smaller(s, 64)) + 1]
    BY <2>1, TileLog2Reaches
  <2>3. Pow2[tile_log2(1, Smaller(s, 64)) + 1] \in Nat
    BY <2>2, Pow2Grows
  <2> QED
    BY <2>2, <2>3
<1>5. tile_log2(576, H * W) \in 0..15 /\ H * W <= 576 * Pow2[tile_log2(576, H * W) + 1]
  <2>1. H * W \in Nat /\ H * W <= 512 * 512
    BY <1>1
  <2>2. H * W <= 576 * Pow2[15 + 1]
    BY <2>1 DEF Pow2
  <2> QED
    BY <2>1, <2>2, TileLog2Reaches
<1> QED
  BY <1>1, <1>2, <1>3, <1>4, <1>5 DEF W, H, minLog2TileCols, maxLog2TileCols, maxLog2TileRows

(* The recursion only stops when it has made all splits or no direction is left. *)
StoppedInv == ~running => needed = 0 \/ Exhausted

LEMMA NextStopped == StoppedInv /\ [Next]_vars => StoppedInv'
BY DEF StoppedInv, Next, SplitCols, SplitRows, Return, Done, vars, Exhausted, ColsLeft, RowsLeft

LEMMA StoppedIsAcceptable == IInv /\ StoppedInv => LayoutAcceptable
<1> SUFFICES ASSUME IInv, StoppedInv, ~running,
                    frame[1] <= AV1MaxSide, frame[2] <= AV1MaxSide
             PROVE  /\ Superblocks(frame[1]) <= 32 * Pow2[tileColsLog2 + 1]
                    /\ Superblocks(frame[1]) * Superblocks(frame[2])
                          <= 576 * Pow2[tileColsLog2 + tileRowsLog2 + 1]
                    /\ tileColsLog2 <= 6 /\ tileRowsLog2 <= 6
  BY DEF LayoutAcceptable
<1> DEFINE W == Superblocks(frame[1])
           H == Superblocks(frame[2])
           A == tile_log2(576, H * W)
           P == Pow2[tileColsLog2 + 1]
           Q == Pow2[tileRowsLog2 + 1]
<1>1. frame \in Nat \X Nat
  BY FrameSizesAssumption DEF IInv
<1>2. W \in Nat /\ H \in Nat /\ W <= 512 /\ H <= 512
  BY <1>1, SuperblocksBound
<1>3. /\ minLog2TileCols(frame) \in 0..4
      /\ W <= 32 * Pow2[minLog2TileCols(frame) + 1]
      /\ maxLog2TileCols(frame) \in 0..6
      /\ Smaller(W, 64) <= Pow2[maxLog2TileCols(frame) + 1]
      /\ maxLog2TileRows(frame) \in 0..6
      /\ Smaller(H, 64) <= Pow2[maxLog2TileRows(frame) + 1]
      /\ A \in 0..15 /\ H * W <= 576 * Pow2[A + 1]
  BY <1>1, LimitsMean
<1>4. tileColsLog2 \in 0..6 /\ tileRowsLog2 \in 0..6
  BY <1>3 DEF IInv, TilesWithinLimits, Larger
<1>5. P \in Nat /\ Q \in Nat /\ Pow2[tileColsLog2 + tileRowsLog2 + 1] = P * Q
  <2>1. tileColsLog2 + 1 \in 1..16 /\ tileRowsLog2 + 1 \in 1..16
    BY <1>4
  <2>2. P \in Nat /\ Q \in Nat
    BY <2>1, Pow2Grows
  <2>3. Pow2[tileColsLog2 + tileRowsLog2 + 1] = P * Q
    BY <1>4, Pow2Adds
  <2> QED
    BY <2>2, <2>3
<1>6. minLog2Tiles(frame) >= A /\ minLog2Tiles(frame) \in Nat
  <2>1. minLog2Tiles(frame) = Larger(minLog2TileCols(frame), A)
    BY DEF minLog2Tiles, maxTileAreaSb
  <2> QED
    BY <1>3, <2>1 DEF Larger
<1> HIDE DEF W, H, A
<1>7. W <= 32 * P
  <2>1. Pow2[minLog2TileCols(frame) + 1] \in Nat /\ Pow2[minLog2TileCols(frame) + 1] <= P
    BY <1>3, <1>4, Pow2Grows DEF IInv
  <2> HIDE DEF P
  <2> QED
    BY <1>2, <1>3, <1>5, <2>1
<1>8. CASE needed = 0
  <2>1. A <= tileColsLog2 + tileRowsLog2
    BY <1>3, <1>4, <1>6, <1>8 DEF IInv, NoSplitLost
  <2>2. /\ Pow2[A + 1] \in Nat /\ Pow2[tileColsLog2 + tileRowsLog2 + 1] \in Nat
        /\ Pow2[A + 1] <= Pow2[tileColsLog2 + tileRowsLog2 + 1]
    BY <1>3, <1>4, <2>1, Pow2Grows
  <2>3. H * W <= 576 * Pow2[tileColsLog2 + tileRowsLog2 + 1]
    BY <1>2, <1>3, <2>2
  <2>4. W * H = H * W
    BY <1>2
  <2> QED
    BY <1>4, <1>7, <2>3, <2>4 DEF W, H
<1>9. CASE Exhausted
  <2>1. maxLog2TileCols(frame) <= tileColsLog2 /\ maxLog2TileRows(frame) <= tileRowsLog2
    BY <1>3, <1>4, <1>9 DEF Exhausted, ColsLeft, RowsLeft
  <2>2. /\ Pow2[maxLog2TileCols(frame) + 1] \in Nat /\ Pow2[maxLog2TileCols(frame) + 1] <= P
        /\ Pow2[maxLog2TileRows(frame) + 1] \in Nat /\ Pow2[maxLog2TileRows(frame) + 1] <= Q
    BY <1>3, <1>4, <2>1, Pow2Grows
  <2> HIDE DEF P, Q
  <2>3. W <= 8 * P /\ H <= 8 * Q
    BY <1>2, <1>3, <1>5, <2>2 DEF Smaller
  <2>4. W * H <= (8 * P) * (8 * Q)
    BY <1>2, <1>5, <2>3
  <2>5. W * H <= 576 * (P * Q)
    BY <1>2, <1>5, <2>4
  <2> QED
    BY <1>4, <1>5, <1>7, <2>5 DEF W, H, P
<1> QED
  BY <1>8, <1>9 DEF StoppedInv

(* For every frame an AV1 encoder takes, the greedy choice of the longer side *)
(* ends with tiles no wider and on average no larger than AV1 allows.         *)
THEOREM LayoutAlwaysAcceptable == Spec => []LayoutAcceptable
<1>1. Init => StoppedInv
  BY DEF Init, StoppedInv
<1> QED
  BY InitIInv, NextIInv, NextStopped, StoppedIsAcceptable, <1>1, PTL DEF Spec

------------------------------------------------------------------------------
(* Types.  The width of a tile stays a number: no frame of GIMP asks for more *)
(* columns than the powers of two at hand.                                    *)
LEMMA ColumnsOfGimpFrame ==
    ASSUME NEW p \in Nat, p <= GimpMaxSide
    PROVE  tile_log2(maxTileWidthSb, Superblocks(p)) \in 0..7
<1>1. Superblocks(p) \in Nat /\ Superblocks(p) <= 4096
  BY SMT DEF Superblocks, GimpMaxSide
<1>2. maxTileWidthSb = 32 /\ Pow2[7 + 1] = 128
  BY DEF maxTileWidthSb, Pow2
<1>3. Superblocks(p) <= 32 * Pow2[7 + 1]
  BY <1>1, <1>2
<1> HIDE DEF Superblocks
<1> QED
  BY <1>1, <1>2, <1>3, TileLog2Reaches

SidesTyped == width \in Nat /\ height \in Nat

LEMMA InitSides == Init => SidesTyped
<1> SUFFICES ASSUME Init PROVE SidesTyped
  OBVIOUS
<1>1. frame \in FrameSizes
  BY DEF Init
<1>2. /\ frame[1] \in Nat /\ frame[1] <= GimpMaxSide /\ frame[2] \in Nat
  BY <1>1, FrameSizesAssumption
<1>3. minLog2TileCols(frame) \in 0..7
  BY <1>2, ColumnsOfGimpFrame DEF minLog2TileCols
<1>4. Pow2[minLog2TileCols(frame) + 1] \in Nat \ {0}
  BY <1>3 DEF Pow2
<1>5. frame[1] \div Pow2[minLog2TileCols(frame) + 1] \in Nat
  BY <1>2, <1>4
<1> QED
  BY <1>2, <1>5 DEF Init, SidesTyped

LEMMA NextSides == SidesTyped /\ [Next]_vars => SidesTyped'
BY SMT DEF SidesTyped, Next, SplitCols, SplitRows, Return, Done, vars

(* Every variable keeps its type, for every set of frames GIMP can have.      *)
THEOREM AlwaysTyped == Spec => []TypeOK
<1>1. IInv /\ SidesTyped => TypeOK
  BY DEF IInv, SidesTyped, TypeOK
<1> QED
  BY InitIInv, NextIInv, InitSides, NextSides, <1>1, PTL DEF Spec

------------------------------------------------------------------------------
(* What is left of the recursion: the splits asked for and its return.        *)
CallsLeft == needed + (IF running THEN 1 ELSE 0)

Nearer == CallsLeft \in Nat /\ CallsLeft' < CallsLeft

(* Every call of set_tiles_recursive brings the end nearer, for every frame   *)
(* size: the recursion is no deeper than the number of splits asked for.      *)
THEOREM CallsRunOut == Spec => [][Nearer]_vars
<1>1. IInv /\ [Next]_vars => [Nearer]_vars
  <2> SUFFICES ASSUME IInv, Next, vars' # vars PROVE Nearer
    OBVIOUS
  <2>1. needed \in Nat /\ running \in BOOLEAN
    BY DEF IInv
  <2>2. \/ running /\ running' = running /\ needed # 0 /\ needed' = needed - 1
        \/ running /\ ~running' /\ needed' = needed
    BY DEF Next, SplitCols, SplitRows, Return, Done
  <2>3. (IF running THEN 1 ELSE 0) = 1
    BY <2>2, Zenon
  <2>4. CASE running' = running /\ needed # 0 /\ needed' = needed - 1
    <3>1. (IF running' THEN 1 ELSE 0) = 1
      BY <2>2, <2>4, Zenon
    <3> QED
      BY <2>1, <2>3, <2>4, <3>1 DEF CallsLeft, Nearer
  <2>5. CASE ~running' /\ needed' = needed
    <3>1. (IF running' THEN 1 ELSE 0) = 0
      BY <2>5, Zenon
    <3> QED
      BY <2>1, <2>3, <2>5, <3>1 DEF CallsLeft, Nearer
  <2> QED
    BY <2>2, <2>4, <2>5
<1> QED
  BY InitIInv, NextIInv, <1>1, PTL DEF Spec

==============================================================================
