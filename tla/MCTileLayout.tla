----------------------------- MODULE MCTileLayout -----------------------------
(* TileLayout on frame sizes at and beside every boundary of the arithmetic:  *)
(* one superblock, the 4096 pixel tile width, the sides at which one more     *)
(* split is needed, AV1's largest side, the width at which the columns alone  *)
(* pass 64, and GIMP's largest image (524288).                                *)
EXTENDS TileLayout

Sides == {1, 128, 129, 2304, 2305, 4096, 4097, 8192, 8193, 16385, 32768,
          65535, 65536, 131072, 262144, 262145, 524288}

MCFrameSizes == Sides \X Sides

==============================================================================
