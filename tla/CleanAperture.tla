---------------------------- MODULE CleanAperture ----------------------------
(* The clean aperture box ('clap'): which rectangle of the decoded image is   *)
(* shown.  load_image computes it in doubles, libavif has an exact conversion *)
(* of its own that also says which boxes are valid; both are given here, one  *)
(* axis at a time, on unsigned words as the file stores them.                 *)
EXTENDS Integers

CONSTANT WordSize       \* 2^32: the fields of the box are 32 bits wide

ASSUME WordSizeAssumption == WordSize \in Nat \ {0} /\ WordSize % 2 = 0

IntMin == -(WordSize \div 2)
IntMax == WordSize \div 2 - 1

Word == 0..(WordSize - 1)

(* One axis of a box: the side and the offset of its centre.                  *)
Axis == [n : Word, d : Word, offN : Word, offD : Word]
Box  == [horizontal : Axis, vertical : Axis]

(* (int32_t) of an unsigned word.                                             *)
Signed(word) == IF word <= IntMax THEN word ELSE word - WordSize

Least(a, b) == IF a < b THEN a ELSE b

(* n / d in C, towards zero.                                                  *)
Truncated(n, d) == IF n >= 0 THEN n \div d ELSE -((-n) \div d)

(* Converting a double to gint.  Out of gint's range it is undefined: x86     *)
(* gives the smallest int, ARM the nearest one.                               *)
ToInt(t) == IF t \in IntMin..IntMax THEN {t}
            ELSE {IntMin, IF t > 0 THEN IntMax ELSE IntMin}

------------------------------------------------------------------------------
(* load_image.  The quotients of 32-bit words and the halves added to them    *)
(* are far enough from the next integer for the doubles to truncate as the    *)
(* exact fractions do.                                                        *)
NewSide(axis, size) ==
    {Least(t, size) : t \in ToInt(Truncated(2 * axis.n + axis.d, 2 * axis.d))}

Unrounded_unsigned(axis, size, side) ==
    Truncated(2 * axis.offN + (size - side + 1) * axis.offD, 2 * axis.offD)

Unrounded(axis, size, side) ==
    Truncated(2 * Signed(axis.offN) + (size - side + 1) * axis.offD, 2 * axis.offD)

Clamped_leftOnly(off, room) == IF off < 0 THEN 0 ELSE off
Clamped(off, room) == IF off < 0 THEN 0 ELSE IF off > room THEN room ELSE off

NewOffset(axis, size, side) ==
    {Clamped(off, size - side) : off \in ToInt(Unrounded(axis, size, side))}

HasDenominators(box) ==
    /\ box.horizontal.d > 0 /\ box.horizontal.offD > 0
    /\ box.vertical.d > 0 /\ box.vertical.offD > 0

(* What the box makes of a width by height image: the rectangle handed to     *)
(* gimp_image_crop in a one-element sequence, or nothing.                     *)
Crops_unguarded(box, width, height) ==
    IF ~HasDenominators(box) THEN {<<>>}
    ELSE UNION {
           {<<[x |-> x, y |-> y, width |-> w, height |-> h]>> :
              x \in NewOffset(box.horizontal, width, w),
              y \in NewOffset(box.vertical, height, h)} :
           w \in NewSide(box.horizontal, width), h \in NewSide(box.vertical, height)}

Crops(box, width, height) ==
    IF ~HasDenominators(box) THEN {<<>>}
    ELSE UNION {
           IF w > 0 /\ h > 0
           THEN {<<[x |-> x, y |-> y, width |-> w, height |-> h]>> :
                   x \in NewOffset(box.horizontal, width, w),
                   y \in NewOffset(box.vertical, height, h)}
           ELSE {<<>>} :
           w \in NewSide(box.horizontal, width), h \in NewSide(box.vertical, height)}

------------------------------------------------------------------------------
(* libavif's clapFraction: 32-bit numerators and denominators, whose sums and *)
(* products must not overflow.                                                *)
Overflows(n) == n < IntMin \/ n > IntMax

Magnitude(n) == IF n < 0 THEN -n ELSE n

CommonDivisors(a, b) ==
    {g \in 1..(Magnitude(a) + Magnitude(b)) : a % g = 0 /\ b % g = 0}

calcGCD(a, b) == CHOOSE g \in CommonDivisors(a, b) : \A k \in CommonDivisors(a, b) : k <= g

Simplified(f) == LET g == calcGCD(f.n, f.d)
                 IN  [n |-> Truncated(f.n, g), d |-> f.d \div g]

(* clapFractionAdd and clapFractionSub: a + sign * b, or nothing on overflow. *)
Sum(a, b, sign) ==
    LET p    == Simplified(a)
        q    == Simplified(b)
        same == p.d = q.d
        pn   == IF same THEN p.n ELSE p.n * q.d
        qn   == IF same THEN q.n ELSE q.n * p.d
        d    == IF same THEN p.d ELSE p.d * q.d
        n    == pn + sign * qn
    IN  IF Overflows(pn) \/ Overflows(qn) \/ Overflows(d) \/ Overflows(n) THEN {}
        ELSE {Simplified([n |-> n, d |-> d])}

calcCenter(side) == IF side % 2 = 0 THEN [n |-> side \div 2, d |-> 1]
                                    ELSE [n |-> side, d |-> 2]

(* One axis of avifCropRectConvertCleanApertureBox: the offset and the side,  *)
(* or nothing for a box it refuses.                                           *)
Converted(axis, size) ==
    LET n == Signed(axis.n)
        d == Signed(axis.d)
    IN  IF d <= 0 \/ Signed(axis.offD) <= 0 \/ n < 0 THEN {}
        ELSE IF n % d # 0 THEN {}
        ELSE {[offset |-> crop.n, side |-> n \div d] :
                crop \in {c \in UNION {Sum(centre, [n |-> n \div d, d |-> 2], -1) :
                                         centre \in Sum(calcCenter(size),
                                                        [n |-> Signed(axis.offN),
                                                         d |-> Signed(axis.offD)], 1)} :
                            c.d = 1 /\ c.n >= 0}}

(* avifCropRectIsValid, one axis of it.                                       *)
InBounds(part, size, subsampled) ==
    /\ part.side > 0
    /\ part.offset + part.side <= size
    /\ subsampled => part.offset % 2 = 0 /\ part.side % 2 = 0

avifCropRect(box, width, height, format) ==
    {[x |-> h.offset, y |-> v.offset, width |-> h.side, height |-> v.side] :
        h \in {p \in Converted(box.horizontal, width) :
                 InBounds(p, width, format \in {"YUV420", "YUV422"})},
        v \in {p \in Converted(box.vertical, height) :
                 InBounds(p, height, format = "YUV420")}}
==============================================================================
