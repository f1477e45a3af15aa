------------------------------ MODULE SampleDepth ------------------------------
(* The samples of gray images and of alpha planes between the depths of GIMP  *)
(* (8 and 16 bits) and of AV1 (8, 10 and 12 bits), as the loops of            *)
(* save_layers and load_image convert them: between 8 and 8 bits they copy,   *)
(* else they scale in single precision.                                       *)
EXTENDS Integers

Depths == {8, 10, 12, 16}

(* The largest sample of a depth.                                             *)
White(depth) == CASE depth = 8  -> 255
                  [] depth = 10 -> 1023
                  [] depth = 12 -> 4095
                  [] depth = 16 -> 65535

Samples(depth) == 0..White(depth)

Distance(a, b) == IF a >= b THEN a - b ELSE b - a

(* (int) ((float) v / from * to + 0.5f), clamped to 0..to.  The three         *)
(* roundings of single precision move a value of at most 65536 by less than   *)
(* one fiftieth, whatever precision the compiler keeps in between: anything   *)
(* within 0.52 of the quotient may come out.                                  *)
Scaled(v, from, to) ==
    LET q == (v * to) \div from
    IN  {r \in {q, q + 1} : r <= to /\ 25 * Distance(r * from, v * to) <= 13 * from}

(* save_layers: a fetched sample to one of the file's.                        *)
Exported(v, scale) == IF scale = 8 THEN {v} ELSE Scaled(v, White(16), White(scale))

------------------------------------------------------------------------------
(* avifLimitedToFullY, on what a file with limited range holds.               *)
Toward0(n, d) == IF n >= 0 THEN n \div d ELSE -((-n) \div d)

LimitedBlack(depth) == CASE depth = 8  -> 16
                         [] depth = 10 -> 64
                         [] depth = 12 -> 256
LimitedWhite(depth) == CASE depth = 8  -> 235
                         [] depth = 10 -> 940
                         [] depth = 12 -> 3760

Between(v, low, high) == IF v < low THEN low ELSE IF v > high THEN high ELSE v

LimitedToFullY(depth, v) ==
    LET span == LimitedWhite(depth) - LimitedBlack(depth)
    IN  Between(Toward0((v - LimitedBlack(depth)) * White(depth) + span \div 2, span),
                0, White(depth))

FullY_always(v, depth, range) == LimitedToFullY(depth, v)
FullY(v, depth, range) == IF range = "limited" THEN LimitedToFullY(depth, v) ELSE v

(* load_image: a decoded sample to one of the layer's.                        *)
Imported(v, depth, range) ==
    LET full == FullY(v, depth, range)
    IN  IF depth = 8 THEN {full} ELSE Scaled(full, White(depth), White(16))

(* A sample keeps within half a step of the file's depth and half a 16-bit    *)
(* step, 8-bit ones are kept.                                                 *)
Loss(depth) == CASE depth = 8 -> 0 [] depth = 10 -> 33 [] depth = 12 -> 8

===============================================================================
