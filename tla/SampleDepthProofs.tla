--------------------------- MODULE SampleDepthProofs ---------------------------
(* What the conversions of gray and alpha samples do to every sample of every *)
(* depth.                                                                     *)
EXTENDS SampleDepth, TLAPS

LEMMA Whites == White(8) = 255 /\ White(10) = 1023 /\ White(12) = 4095 /\ White(16) = 65535
BY DEF White

LEMMA SampleSets ==
    ASSUME NEW depth \in Depths, NEW v
    PROVE  /\ White(depth) \in Nat \ {0}
           /\ v \in Samples(depth) <=> v \in Nat /\ v <= White(depth)
BY Whites DEF Samples, Depths

(* Scaling stays in the new range, has a result, and is off by little more    *)
(* than a half.                                                               *)
LEMMA ScaledNear ==
    ASSUME NEW from \in Nat \ {0}, NEW to \in Nat \ {0}, NEW v \in 0..from
    PROVE  /\ Scaled(v, from, to) # {}
           /\ \A r \in Scaled(v, from, to) :
                 /\ r \in 0..to
                 /\ 25 * (r * from - v * to) <= 13 * from
                 /\ 25 * (v * to - r * from) <= 13 * from
<1> DEFINE m == v * to
           q == m \div from
           k == q * from
           top == to * from
<1>1. m \in Nat /\ top \in Nat /\ top - m \in Nat
  <2>1. (from - v) * to \in Nat /\ (from - v) * to = top - m
    OBVIOUS
  <2> QED
    BY <2>1
<1>2. q \in Nat /\ k \in Nat /\ k <= m /\ m < k + from
  <2> HIDE DEF m
  <2> QED
    BY <1>1
<1>3. (q + 1) * from = k + from
  BY <1>2
<1>4. Scaled(v, from, to) = {r \in {q, q + 1} : r <= to /\ 25 * Distance(r * from, m) <= 13 * from}
  BY DEF Scaled
<1>5. k <= top => q <= to
  <2>1. q > to => (q - to) * from >= from /\ (q - to) * from = k - top
    BY <1>2
  <2> QED
    BY <1>1, <1>2, <2>1
<1>6. k < top => q + 1 <= to
  <2>1. q >= to => (q - to) * from \in Nat /\ (q - to) * from = k - top
    BY <1>2
  <2> QED
    BY <1>1, <1>2, <2>1
<1> HIDE DEF m, q, k, top
<1>7. Scaled(v, from, to) # {}
  <2>1. CASE 25 * (m - k) <= 13 * from
    <3>1. q <= to /\ 25 * Distance(k, m) <= 13 * from
      BY <1>1, <1>2, <1>5, <2>1 DEF Distance
    <3>2. q \in Scaled(v, from, to)
      BY <1>4, <3>1 DEF k
    <3> QED
      BY <3>2
  <2>2. CASE 25 * (m - k) > 13 * from
    <3>1. q + 1 <= to /\ 25 * Distance(k + from, m) <= 13 * from
      BY <1>1, <1>2, <1>6, <2>2 DEF Distance
    <3>2. q + 1 \in Scaled(v, from, to)
      BY <1>3, <1>4, <3>1
    <3> QED
      BY <3>2
  <2> QED
    BY <1>1, <1>2, <2>1, <2>2
<1>8. ASSUME NEW r \in Scaled(v, from, to)
      PROVE  r \in 0..to /\ 25 * (r * from - m) <= 13 * from /\ 25 * (m - r * from) <= 13 * from
  <2> DEFINE n == r * from
  <2>1. r \in Nat /\ n \in Nat /\ r <= to /\ 25 * Distance(n, m) <= 13 * from
    BY <1>2, <1>4
  <2> HIDE DEF n
  <2>2. 25 * (n - m) <= 13 * from /\ 25 * (m - n) <= 13 * from
    BY <1>1, <2>1 DEF Distance
  <2> QED
    BY <2>1, <2>2 DEF n
<1> QED
  BY <1>7, <1>8 DEF m

(* The same between the depths of GIMP and of the file.                       *)
LEMMA ScaledDown ==
    ASSUME NEW depth \in {10, 12}, NEW v \in Samples(16)
    PROVE  /\ Scaled(v, White(16), White(depth)) # {}
           /\ \A r \in Scaled(v, White(16), White(depth)) :
                 /\ r \in Samples(depth)
                 /\ 25 * (r * White(16) - v * White(depth)) <= 13 * White(16)
                 /\ 25 * (v * White(depth) - r * White(16)) <= 13 * White(16)
<1>1. White(16) \in Nat \ {0} /\ White(depth) \in Nat \ {0}
  BY SampleSets DEF Depths
<1> QED
  BY <1>1, ScaledNear, Zenon DEF Samples

LEMMA ScaledUp ==
    ASSUME NEW depth \in {10, 12}, NEW v \in Samples(depth)
    PROVE  /\ Scaled(v, White(depth), White(16)) # {}
           /\ \A r \in Scaled(v, White(depth), White(16)) :
                 /\ r \in Samples(16)
                 /\ 25 * (r * White(depth) - v * White(16)) <= 13 * White(depth)
                 /\ 25 * (v * White(16) - r * White(depth)) <= 13 * White(depth)
<1>1. White(16) \in Nat \ {0} /\ White(depth) \in Nat \ {0}
  BY SampleSets DEF Depths
<1> QED
  BY <1>1, ScaledNear, Zenon DEF Samples

(* The roundings of both ways together, in numbers: w is the file's white.    *)
LEMMA CodesApart ==
    ASSUME NEW r \in Int, NEW code \in Int, NEW back \in Int, NEW w, w = 1023 \/ w = 4095,
           25 * (r * 65535 - back * w) <= 13 * 65535, 25 * (back * w - r * 65535) <= 13 * 65535,
           25 * (back * w - code * 65535) <= 13 * w, 25 * (code * 65535 - back * w) <= 13 * w
    PROVE  r = code
<1>1. CASE w = 1023
  BY <1>1
<1>2. CASE w = 4095
  BY <1>2
<1> QED
  BY <1>1, <1>2

LEMMA BackNear ==
    ASSUME NEW w, NEW off, (w = 1023 /\ off = 33) \/ (w = 4095 /\ off = 8),
           NEW v \in Nat, NEW code \in Nat, NEW back \in Nat,
           v <= 65535, code <= w, back <= 65535,
           25 * (code * 65535 - v * w) <= 13 * 65535, 25 * (v * w - code * 65535) <= 13 * 65535,
           25 * (back * w - code * 65535) <= 13 * w, 25 * (code * 65535 - back * w) <= 13 * w
    PROVE  /\ back - v <= off /\ v - back <= off
           /\ v = 0 => back = 0
           /\ v = 65535 => back = 65535
<1>1. CASE w = 1023 /\ off = 33
  BY <1>1
<1>2. CASE w = 4095 /\ off = 8
  BY <1>2
<1> QED
  BY <1>1, <1>2

------------------------------------------------------------------------------
(* The sample of a layer that goes with a file's depth.                       *)
Fetched(depth) == IF depth = 8 THEN 8 ELSE 16

(* The loops of save_layers write every fetched sample as a sample the depth  *)
(* of the file has.                                                           *)
THEOREM ExportedIsSample ==
    ASSUME NEW depth \in {8, 10, 12}, NEW v \in Samples(Fetched(depth))
    PROVE  Exported(v, depth) # {} /\ Exported(v, depth) \subseteq Samples(depth)
<1>1. CASE depth = 8
  BY <1>1 DEF Exported, Fetched
<1>2. CASE depth \in {10, 12}
  <2> depth # 8
    BY <1>2
  <2>1. v \in Samples(16) /\ Exported(v, depth) = Scaled(v, White(16), White(depth))
    BY Zenon DEF Exported, Fetched
  <2> QED
    BY <1>2, <2>1, ScaledDown
<1> QED
  BY <1>1, <1>2

(* Limited range: avifLimitedToFullY yields samples of the same depth.        *)
LEMMA FullIsSample ==
    ASSUME NEW depth \in {8, 10, 12}, NEW v \in Samples(depth), NEW range
    PROVE  FullY(v, depth, range) \in Samples(depth)
<1>1. LimitedToFullY(depth, v) \in Samples(depth)
  <2> DEFINE span == LimitedWhite(depth) - LimitedBlack(depth)
             n    == (v - LimitedBlack(depth)) * White(depth) + span \div 2
  <2>1. White(depth) \in Nat /\ v \in Nat /\ LimitedBlack(depth) \in Nat /\ span \in Nat \ {0}
    BY SampleSets DEF Depths, LimitedBlack, LimitedWhite
  <2>2. n \in Int
    BY <2>1
  <2>3. LimitedToFullY(depth, v) = Between(Toward0(n, span), 0, White(depth))
    BY DEF LimitedToFullY
  <2> HIDE DEF n, span
  <2>4. Toward0(n, span) \in Int
    BY <2>1, <2>2 DEF Toward0
  <2> QED
    BY <2>1, <2>3, <2>4 DEF Between, Samples
<1> QED
  BY <1>1 DEF FullY

(* The loops of load_image make a sample of the layer of every decoded one,   *)
(* in whichever range the file holds it.                                      *)
THEOREM ImportedIsSample ==
    ASSUME NEW depth \in {8, 10, 12}, NEW v \in Samples(depth), NEW range
    PROVE  /\ Imported(v, depth, range) # {}
           /\ Imported(v, depth, range) \subseteq Samples(Fetched(depth))
<1>1. FullY(v, depth, range) \in Samples(depth)
  BY FullIsSample
<1>2. CASE depth = 8
  BY <1>1, <1>2 DEF Imported, Fetched
<1>3. CASE depth \in {10, 12}
  <2> depth # 8
    BY <1>3
  <2>1. Imported(v, depth, range) = Scaled(FullY(v, depth, range), White(depth), White(16))
    BY Zenon DEF Imported
  <2>2. Fetched(depth) = 16
    BY <1>3 DEF Fetched
  <2> QED
    BY <1>1, <1>3, <2>1, <2>2, ScaledUp
<1> QED
  BY <1>2, <1>3

(* Exporting what was imported from a full-range file writes the very sample  *)
(* that was read, for every sample, whichever way the roundings go.           *)
THEOREM CodesSurvive ==
    ASSUME NEW depth \in {8, 10, 12}, NEW code \in Samples(depth),
           NEW back \in Imported(code, depth, "full")
    PROVE  Exported(back, depth) = {code}
<1>1. FullY(code, depth, "full") = code
  BY DEF FullY
<1>2. CASE depth = 8
  BY <1>1, <1>2, Zenon DEF Imported, Exported
<1>3. CASE depth \in {10, 12}
  <2> DEFINE w == White(depth)
  <2> depth # 8
    BY <1>3
  <2>1. w = 1023 \/ w = 4095
    BY <1>3, Whites
  <2>2. /\ back \in Scaled(code, w, White(16))
        /\ Exported(back, depth) = Scaled(back, White(16), w)
    BY <1>1, Zenon DEF Imported, Exported
  <2>3. /\ back \in Samples(16)
        /\ 25 * (back * w - code * White(16)) <= 13 * w
        /\ 25 * (code * White(16) - back * w) <= 13 * w
    BY <1>3, <2>2, ScaledUp
  <2>4. code \in Int /\ back \in Int
    BY <2>3, SampleSets DEF Depths
  <2>5. ASSUME NEW r \in Scaled(back, White(16), w)
        PROVE  r = code
    <3>1. /\ r \in Samples(depth)
          /\ 25 * (r * White(16) - back * w) <= 13 * White(16)
          /\ 25 * (back * w - r * White(16)) <= 13 * White(16)
      BY <1>3, <2>3, ScaledDown
    <3>2. r \in Int
      BY <3>1, SampleSets DEF Depths
    <3> HIDE DEF w
    <3> QED
      BY <2>1, <2>3, <2>4, <3>1, <3>2, CodesApart, Whites
  <2>6. Scaled(back, White(16), w) # {}
    BY <1>3, <2>3, ScaledDown
  <2> QED
    BY <2>2, <2>5, <2>6
<1> QED
  BY <1>2, <1>3

(* A sample that is exported and imported again comes back within Loss of     *)
(* what it was; black and white, and so what is transparent or opaque, come   *)
(* back exactly.                                                              *)
THEOREM SamplesComeBack ==
    ASSUME NEW depth \in {8, 10, 12}, NEW v \in Samples(Fetched(depth)),
           NEW code \in Exported(v, depth), NEW back \in Imported(code, depth, "full")
    PROVE  /\ Distance(v, back) <= Loss(depth)
           /\ v \in {0, White(Fetched(depth))} => back = v
<1>1. FullY(code, depth, "full") = code
  BY DEF FullY
<1>2. CASE depth = 8
  <2>1. back = v
    BY <1>1, <1>2, Zenon DEF Exported, Imported
  <2>2. v \in Int /\ Loss(depth) = 0
    BY <1>2, SampleSets DEF Fetched, Depths, Loss
  <2> QED
    BY <2>1, <2>2 DEF Distance
<1>3. CASE depth \in {10, 12}
  <2> DEFINE w   == White(depth)
             off == Loss(depth)
  <2> depth # 8
    BY <1>3
  <2>1. (w = 1023 /\ off = 33) \/ (w = 4095 /\ off = 8)
    BY <1>3, Whites DEF Loss
  <2>2. /\ v \in Samples(16) /\ Fetched(depth) = 16
        /\ code \in Scaled(v, White(16), w) /\ back \in Scaled(code, w, White(16))
    BY <1>1, Zenon DEF Imported, Exported, Fetched
  <2>3. /\ code \in Samples(depth)
        /\ 25 * (code * White(16) - v * w) <= 13 * White(16)
        /\ 25 * (v * w - code * White(16)) <= 13 * White(16)
    BY <1>3, <2>2, ScaledDown
  <2>4. /\ back \in Samples(16)
        /\ 25 * (back * w - code * White(16)) <= 13 * w
        /\ 25 * (code * White(16) - back * w) <= 13 * w
    BY <1>3, <2>2, <2>3, ScaledUp
  <2>5. /\ v \in Nat /\ v <= White(16) /\ code \in Nat /\ code <= w
        /\ back \in Nat /\ back <= White(16)
    BY <2>2, <2>3, <2>4, SampleSets DEF Depths
  <2> HIDE DEF w, off
  <2>6. /\ back - v <= off /\ v - back <= off
        /\ v = 0 => back = 0
        /\ v = 65535 => back = 65535
    BY <2>1, <2>3, <2>4, <2>5, BackNear, Whites
  <2>7. Distance(v, back) <= off
    BY <2>5, <2>6 DEF Distance
  <2> QED
    BY <2>2, <2>6, <2>7, Whites DEF off
<1> QED
  BY <1>2, <1>3
===============================================================================
