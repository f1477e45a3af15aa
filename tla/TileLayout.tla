------------------------------ MODULE TileLayout ------------------------------
(* avifplugin_set_tiles: how many AV1 tiles one frame is cut into.            *)
(*                                                                            *)
(* AV1 wants every tile at most 4096 pixels wide and at most 4096 x 2304      *)
(* pixels large, and allows at most 64 tile columns and 64 tile rows.  The    *)
(* plug-in takes the fewest columns the width asks for and then halves the    *)
(* longer side of the tile, one recursive call at a time, until the area is   *)
(* small enough or both directions are exhausted.  Every call of the          *)
(* recursion is one step; the arguments of the pending call are the state.    *)
EXTENDS Naturals, FiniteSets

CONSTANT FrameSizes     \* the frame sizes to lay out: a set of <<width, height>>

(* GIMP's largest image; the logarithms below are right up to it.             *)
GimpMaxSide == 524288

ASSUME FrameSizesAssumption ==
    /\ FrameSizes \subseteq Nat \X Nat
    /\ \A f \in FrameSizes : f[1] <= GimpMaxSide /\ f[2] <= GimpMaxSide

VARIABLES frame,           \* <<FrameWidth, FrameHeight>>
          width, height,   \* the tile size the pending call was given
          needed,          \* Log2Tiles_needed of the pending call
          tileColsLog2, tileRowsLog2,   \* the encoder's fields
          running          \* FALSE once the recursion has returned

vars == <<frame, width, height, needed, tileColsLog2, tileRowsLog2, running>>

------------------------------------------------------------------------------
(* 2^k for the shifts that occur: the largest target is an area of 4096 x 4096 *)
(* superblocks, GIMP's largest image.                                          *)
Pow2 == <<1, 2, 4, 8, 16, 32, 64, 128, 256, 512, 1024, 2048, 4096, 8192, 16384, 32768>>

(* The number of times the loop doubles blkSize before it reaches target.     *)
tile_log2(blkSize, target) ==
    Cardinality({k \in 1..16 : blkSize * Pow2[k] < target})

Smaller(a, b) == IF a < b THEN a ELSE b
Larger(a, b)  == IF a > b THEN a ELSE b

(* Superblocks of 128 pixels along one side of the frame.                     *)
Superblocks(pixels) == (2 * ((pixels + 7) \div 8) + 31) \div 32

maxTileWidthSb == 4096 \div 128
maxTileAreaSb  == (4096 * 2304) \div (128 * 128)

minLog2TileCols_height(f) == tile_log2(maxTileWidthSb, Superblocks(f[2]))
minLog2TileCols(f) == tile_log2(maxTileWidthSb, Superblocks(f[1]))
maxLog2TileCols(f) == tile_log2(1, Smaller(Superblocks(f[1]), 64))
maxLog2TileRows(f) == tile_log2(1, Smaller(Superblocks(f[2]), 64))
minLog2Tiles(f)    == Larger(minLog2TileCols(f),
                             tile_log2(maxTileAreaSb, Superblocks(f[2]) * Superblocks(f[1])))
SplitsNeeded_all(f) == minLog2Tiles(f)
SplitsNeeded_swapped(f) == minLog2TileCols(f) - minLog2Tiles(f)
SplitsNeeded(f)    == minLog2Tiles(f) - minLog2TileCols(f)

------------------------------------------------------------------------------
TypeOK ==
    /\ frame \in FrameSizes
    /\ width \in Nat /\ height \in Nat
    /\ needed \in Nat
    /\ tileColsLog2 \in Nat /\ tileRowsLog2 \in Nat
    /\ running \in BOOLEAN

(* avifplugin_set_tiles up to the first call of the recursion.                *)
Init ==
    /\ frame \in FrameSizes
    /\ width = frame[1] \div Pow2[minLog2TileCols(frame) + 1]
    /\ height = frame[2]
    /\ needed = SplitsNeeded(frame)
    /\ tileColsLog2 = minLog2TileCols(frame)
    /\ tileRowsLog2 = 0
    /\ running = TRUE

RowsLeft_inclusive == tileRowsLog2 <= maxLog2TileRows(frame)
ColsLeft == tileColsLog2 < maxLog2TileCols(frame)
RowsLeft == tileRowsLog2 < maxLog2TileRows(frame)

(* Twice as many columns: for the longer side, or when the rows are exhausted. *)
SplitCols ==
    /\ running /\ needed # 0
    /\ ColsLeft
    /\ width > height \/ ~RowsLeft
    /\ tileColsLog2' = tileColsLog2 + 1
    /\ width' = width \div 2
    /\ needed' = needed - 1
    /\ UNCHANGED <<frame, height, tileRowsLog2, running>>

SplitRows ==
    /\ running /\ needed # 0
    /\ RowsLeft
    /\ width <= height \/ ~ColsLeft
    /\ tileRowsLog2' = tileRowsLog2 + 1
    /\ height' = height \div 2
    /\ needed' = needed - 1
    /\ UNCHANGED <<frame, width, tileColsLog2, running>>

Exhausted_never == FALSE
Exhausted == ~ColsLeft /\ ~RowsLeft

(* The area is reached, or neither direction can be split: every call returns. *)
Return ==
    /\ running
    /\ needed = 0 \/ Exhausted
    /\ running' = FALSE
    /\ UNCHANGED <<frame, width, height, needed, tileColsLog2, tileRowsLog2>>

Done == ~running /\ UNCHANGED vars

Next == SplitCols \/ SplitRows \/ Return \/ Done

(* The recursion runs on one thread and nothing blocks it.                    *)
Spec == Init /\ [][Next]_vars /\ WF_vars(SplitCols \/ SplitRows \/ Return)

------------------------------------------------------------------------------
(* The largest side of an AV1 frame.                                          *)
AV1MaxSide == 65536

(* No step of set_tiles_recursive goes past the number of columns or rows the *)
(* frame and AV1 allow, unless the width alone already asked for more columns. *)
TilesWithinLimits ==
    /\ tileRowsLog2 <= maxLog2TileRows(frame)
    /\ tileColsLog2 <= Larger(minLog2TileCols(frame), maxLog2TileCols(frame))

(* Every halving of set_tiles_recursive is paid for by one tile split: splits *)
(* made and splits still asked for always add up to the number of tiles the   *)
(* frame needs, so the layout is never finer than it has to be.               *)
NoSplitLost == tileColsLog2 + tileRowsLog2 + needed = minLog2Tiles(frame)

(* For every size an AV1 frame can have, the greedy recursion ends with a     *)
(* layout AV1 accepts: no tile column is wider than 4096 pixels, the tiles are *)
(* on average no larger than 4096 x 2304, and libavif's 0..6 clamp of the two *)
(* logarithms changes nothing.                                                *)
LayoutAcceptable ==
    (~running /\ frame[1] <= AV1MaxSide /\ frame[2] <= AV1MaxSide)
        => /\ Superblocks(frame[1]) <= (4096 \div 128) * Pow2[tileColsLog2 + 1]
           /\ Superblocks(frame[1]) * Superblocks(frame[2])
                 <= ((4096 * 2304) \div (128 * 128)) * Pow2[tileColsLog2 + tileRowsLog2 + 1]
           /\ tileColsLog2 <= 6 /\ tileRowsLog2 <= 6

(* avifplugin_set_tiles returns for every frame size GIMP allows, the ones    *)
(* too large for AV1 included, where it runs out of directions to split.      *)
Terminates == <>(~running)
==============================================================================
