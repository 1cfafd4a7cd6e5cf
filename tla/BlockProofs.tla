----------------------------- MODULE BlockProofs -----------------------------
(***************************************************************************)
(* bc4.glsl, bc1.glsl and dither555.glsl, proved for every block.  Of      *)
(* bc4.glsl, no index bit is lost or left over, the indices are optimal    *)
(* and mean what the decoder takes them for.  Of bc1.glsl, the indices     *)
(* stored are nearest to the texels in the palette of the endpoints        *)
(* stored, a block of one colour keeps it, and a refinement solves its     *)
(* equations.  Of dither555.glsl, ETC1 gets colours of five bits, and what *)
(* has only those is not changed.                                          *)
(***************************************************************************)
EXTENDS Bc4Block, Bc1Block, Dither555, TLAPS

-----------------------------------------------------------------------------
(* bc4.glsl.                                                               *)

Passed(t, n) == part[t] > n \/ (part[t] = n /\ arrived[t])

Bc4TypeOK ==
  /\ image \in [Pixel -> 0 .. 255] /\ useSNorm \in BOOLEAN
  /\ minMax \in [Thread -> Int \X Int]
  /\ own \in [Thread -> Int \X Int]
  /\ mask \in SUBSET (0 .. 63)
  /\ pending \in [Thread -> Seq(SUBSET (0 .. 63))]
  /\ part \in [Thread -> 0 .. 2]
  /\ arrived \in [Thread -> BOOLEAN]
  /\ outputBytes \in SUBSET [c0 : Int, c1 : Int, bits : SUBSET (0 .. 63)]

(* A thread is at most one barrier ahead of another, which then waits at   *)
(* that barrier.                                                           *)
Bc4InStep ==
  \A t, u \in Thread : part[t] > part[u] => part[t] = part[u] + 1 /\ arrived[u]

-----------------------------------------------------------------------------
(* The extremes and the bits the threads are to find.                      *)

RowValues(t) == {image[p] : p \in PixelsOf(t)}
Lo == Min({image[p] : p \in Pixel})
Hi == Max({image[p] : p \in Pixel})

BitsOfRow(t) == UNION {bitsOf(p, index(Lo, Hi, image[p])) : p \in PixelsOf(t)}
LowWord(t) == BitsOfRow(t) \cap (0 .. 31)
HighWord(t) == BitsOfRow(t) \ (0 .. 31)

(* What a thread has put into the mask.                                    *)
Merged(t) ==
  CASE part[t] = 0 -> {}
    [] part[t] # 0 /\ Passed(t, 1) -> BitsOfRow(t)
    [] part[t] # 0 /\ ~Passed(t, 1) /\ Len(pending[t]) = 1 -> LowWord(t)
    [] part[t] # 0 /\ ~Passed(t, 1) /\ Len(pending[t]) # 1 -> {}

-----------------------------------------------------------------------------

ExtremesAreShared(t) == Passed(t, 0) => minMax[t] = <<Min(RowValues(t)), Max(RowValues(t))>>

PendingIsUnmerged(t) ==
  \/ pending[t] = <<>>
  \/ part[t] = 1 /\ ~arrived[t] /\ pending[t] \in {<<LowWord(t), HighWord(t)>>, <<HighWord(t)>>}

ExtremesAreKnown(t) == Passed(t, 1) \/ pending[t] # <<>> => own[t] = <<Lo, Hi>>

(* From the barrier after the mask was cleared, it is what was merged.     *)
MaskIsMerged == (\A t \in Thread : Passed(t, 0)) => mask = UNION {Merged(t) : t \in Thread}

OutputIsWhole ==
  /\ \A b \in outputBytes :
       b = [c0 |-> endpoint(Hi), c1 |-> endpoint(Lo), bits |-> UNION {BitsOfRow(t) : t \in Thread}]
  /\ Passed(0, 2) => outputBytes # {}

Bc4Invariant ==
  /\ Bc4TypeOK /\ Bc4InStep
  /\ \A t \in Thread : ExtremesAreShared(t) /\ PendingIsUnmerged(t) /\ ExtremesAreKnown(t)
  /\ MaskIsMerged /\ OutputIsWhole

-----------------------------------------------------------------------------
(* Extremes.                                                               *)

(* An element below all of a set of integers is its minimum.               *)
LEMMA MinIsLeast ==
  ASSUME NEW S \in SUBSET Int, NEW x \in S, \A y \in S : x <= y
  PROVE  Min(S) = x
<1>1. Min(S) \in S /\ \A y \in S : Min(S) <= y
  BY DEF Min
<1>2. Min(S) \in Int /\ x \in Int /\ Min(S) <= x /\ x <= Min(S)
  BY <1>1
<1> QED
  BY <1>2

(* An element above all of a set of integers is its maximum.               *)
LEMMA MaxIsGreatest ==
  ASSUME NEW S \in SUBSET Int, NEW x \in S, \A y \in S : y <= x
  PROVE  Max(S) = x
<1>1. Max(S) \in S /\ \A y \in S : Max(S) >= y
  BY DEF Max
<1>2. Max(S) \in Int /\ x \in Int /\ x <= Max(S) /\ Max(S) <= x
  BY <1>1
<1> QED
  BY <1>2

HasExtremes(S) ==
  /\ Min(S) \in S /\ \A y \in S : Min(S) <= y
  /\ Max(S) \in S /\ \A y \in S : Max(S) >= y

(* Of four integers one is the least and one the greatest.                 *)
LEMMA ExtremesOfFour ==
  ASSUME NEW a \in Int, NEW b \in Int, NEW c \in Int, NEW d \in Int
  PROVE  HasExtremes({a, b, c, d})
<1>1. \E x \in {a, b, c, d} : \A y \in {a, b, c, d} : x <= y
  OBVIOUS
<1>2. \E x \in {a, b, c, d} : \A y \in {a, b, c, d} : x >= y
  OBVIOUS
<1> QED
  BY <1>1, <1>2 DEF Min, Max, HasExtremes

(* Row by row, every pixel is reached once.                                *)
LEMMA PixelsByRow ==
  /\ \A t \in Thread : PixelsOf(t) = {4 * t, 4 * t + 1, 4 * t + 2, 4 * t + 3}
  /\ \A t \in Thread : PixelsOf(t) \subseteq Pixel
  /\ \A p \in Pixel : p \div 4 \in Thread /\ p \in PixelsOf(p \div 4)
<1>1. \A t \in Thread : PixelsOf(t) = {4 * t, 4 * t + 1, 4 * t + 2, 4 * t + 3}
  <2>1. 0 .. 3 = {0, 1, 2, 3}
    OBVIOUS
  <2> QED
    BY <2>1 DEF PixelsOf, Thread
<1>2. ASSUME NEW p \in Pixel
      PROVE  p \div 4 \in Thread /\ p \in PixelsOf(p \div 4)
  <2>1. p \div 4 \in Thread
    BY DEF Pixel, Thread
  <2>2. p = 4 * (p \div 4) + (p % 4) /\ p % 4 \in 0 .. 3
    BY DEF Pixel
  <2> QED
    BY <2>1, <2>2 DEF PixelsOf
<1>3. \A t \in Thread : PixelsOf(t) \subseteq Pixel
  BY <1>1 DEF Thread, Pixel
<1> QED
  BY <1>1, <1>2, <1>3

(* Every row of a block has a least and a greatest value, both of the      *)
(* row.                                                                    *)
LEMMA RowExtremes ==
  ASSUME image \in [Pixel -> 0 .. 255], NEW t \in Thread
  PROVE  /\ Min(RowValues(t)) \in RowValues(t) /\ \A y \in RowValues(t) : Min(RowValues(t)) <= y
         /\ Max(RowValues(t)) \in RowValues(t) /\ \A y \in RowValues(t) : Max(RowValues(t)) >= y
         /\ RowValues(t) \subseteq 0 .. 255
<1>1. /\ 4 * t \in Pixel /\ 4 * t + 1 \in Pixel /\ 4 * t + 2 \in Pixel /\ 4 * t + 3 \in Pixel
  BY DEF Thread, Pixel
<1>2. RowValues(t) = {image[4 * t], image[4 * t + 1], image[4 * t + 2], image[4 * t + 3]}
  BY PixelsByRow DEF RowValues
<1>3. /\ image[4 * t] \in 0 .. 255 /\ image[4 * t + 1] \in 0 .. 255
      /\ image[4 * t + 2] \in 0 .. 255 /\ image[4 * t + 3] \in 0 .. 255
  BY <1>1
<1> DEFINE v(x) == image[4 * t + x]
<1>4. /\ v(0) \in Int /\ v(1) \in Int /\ v(2) \in Int /\ v(3) \in Int
      /\ RowValues(t) = {v(0), v(1), v(2), v(3)} /\ RowValues(t) \subseteq 0 .. 255
  <2>1. 4 * t + 0 = 4 * t
    BY DEF Thread
  <2> QED
    BY <1>2, <1>3, <2>1
<1> HIDE DEF v
<1> DEFINE S == {v(0), v(1), v(2), v(3)}
<1>5. /\ Min(S) \in S /\ \A y \in S : Min(S) <= y
      /\ Max(S) \in S /\ \A y \in S : Max(S) >= y
  <2>1. HasExtremes(S)
    BY <1>4, ExtremesOfFour, Zenon
  <2> QED
    BY <2>1, Zenon DEF HasExtremes
<1>6. RowValues(t) = S
  BY <1>4
<1> HIDE DEF S
<1> QED
  BY <1>4, <1>5, <1>6

(* The extremes of the rows' extremes are the extremes of the block.       *)
LEMMA BlockExtremes ==
  ASSUME image \in [Pixel -> 0 .. 255]
  PROVE  /\ Lo \in 0 .. 255 /\ Hi \in 0 .. 255
         /\ \A p \in Pixel : Lo <= image[p] /\ image[p] <= Hi
         /\ Min({Min(RowValues(u)) : u \in Thread}) = Lo
         /\ Max({Max(RowValues(u)) : u \in Thread}) = Hi
<1> DEFINE least(u) == Min(RowValues(u))
           greatest(u) == Max(RowValues(u))
<1>1. ASSUME NEW u \in Thread
      PROVE  /\ least(u) \in RowValues(u) /\ \A y \in RowValues(u) : least(u) <= y
             /\ greatest(u) \in RowValues(u) /\ \A y \in RowValues(u) : greatest(u) >= y
             /\ least(u) \in 0 .. 255 /\ greatest(u) \in 0 .. 255
  BY RowExtremes
<1>2. \A p \in Pixel : image[p] \in RowValues(p \div 4) /\ p \div 4 \in Thread
  BY PixelsByRow DEF RowValues
<1>3. \A u \in Thread : RowValues(u) \subseteq {image[p] : p \in Pixel}
  BY PixelsByRow DEF RowValues
<1> HIDE DEF least, greatest
<1>4. /\ {least(u) : u \in Thread} = {least(0), least(1), least(2), least(3)}
      /\ {greatest(u) : u \in Thread} = {greatest(0), greatest(1), greatest(2), greatest(3)}
      /\ 0 \in Thread /\ 1 \in Thread /\ 2 \in Thread /\ 3 \in Thread
  BY DEF Thread
<1> DEFINE m == Min({least(u) : u \in Thread})
           n == Max({greatest(u) : u \in Thread})
<1>5. /\ m \in {least(u) : u \in Thread} /\ \A u \in Thread : m <= least(u)
      /\ n \in {greatest(u) : u \in Thread} /\ \A u \in Thread : n >= greatest(u)
  <2>1. \A u \in Thread : least(u) \in Int /\ greatest(u) \in Int
    BY <1>1
  <2>2. /\ least(0) \in Int /\ least(1) \in Int /\ least(2) \in Int /\ least(3) \in Int
        /\ greatest(0) \in Int /\ greatest(1) \in Int /\ greatest(2) \in Int /\ greatest(3) \in Int
    BY <1>4, <2>1
  <2> DEFINE L == {least(0), least(1), least(2), least(3)}
             G == {greatest(0), greatest(1), greatest(2), greatest(3)}
  <2>3. /\ Min(L) \in L /\ \A y \in L : Min(L) <= y
        /\ Max(G) \in G /\ \A y \in G : Max(G) >= y
    <3> HIDE DEF least, greatest
    <3>1. HasExtremes(L) /\ HasExtremes(G)
      BY <2>2, ExtremesOfFour, Zenon
    <3> HIDE DEF L, G
    <3> QED
      BY <3>1, Zenon DEF HasExtremes
  <2>4. L = {least(u) : u \in Thread} /\ G = {greatest(u) : u \in Thread}
    BY <1>4
  <2> HIDE DEF L, G
  <2>5. m = Min(L) /\ n = Max(G)
    BY <2>4
  <2> QED
    BY <2>3, <2>4, <2>5
<1> HIDE DEF m, n
<1>6. /\ m \in {image[p] : p \in Pixel} /\ m \in 0 .. 255
      /\ n \in {image[p] : p \in Pixel} /\ n \in 0 .. 255
  BY <1>1, <1>3, <1>5
<1>7. ASSUME NEW p \in Pixel PROVE m <= image[p] /\ image[p] <= n
  <2>1. p \div 4 \in Thread /\ image[p] \in RowValues(p \div 4) /\ image[p] \in 0 .. 255
    BY <1>2
  <2>2. /\ m <= least(p \div 4) /\ least(p \div 4) <= image[p]
        /\ n >= greatest(p \div 4) /\ greatest(p \div 4) >= image[p]
        /\ least(p \div 4) \in 0 .. 255 /\ greatest(p \div 4) \in 0 .. 255
    BY <1>1, <1>5, <2>1
  <2>3. m \in Int /\ n \in Int /\ image[p] \in Int /\ least(p \div 4) \in Int /\ greatest(p \div 4) \in Int
    BY <1>6, <2>1, <2>2
  <2> QED
    BY <2>2, <2>3
<1>8. {image[p] : p \in Pixel} \in SUBSET Int
  OBVIOUS
<1> DEFINE S == {image[p] : p \in Pixel}
<1>11. m \in S /\ n \in S /\ S \in SUBSET Int /\ \A y \in S : m <= y /\ y <= n
  BY <1>6, <1>7, <1>8
<1>12. Lo = Min(S) /\ Hi = Max(S)
  BY DEF Lo, Hi
<1> HIDE DEF S
<1>9. Lo = m
  BY <1>11, <1>12, MinIsLeast
<1>10. Hi = n
  BY <1>11, <1>12, MaxIsGreatest
<1> QED
  BY <1>6, <1>7, <1>9, <1>10 DEF m, n, least, greatest

-----------------------------------------------------------------------------
(* From a value to an index.                                               *)

(* The scale s of a value x above the minimum, in a range of d: the number  *)
(* of whole ranges in seven times the biased value.                        *)
HasScale(d, x, s) ==
  LET b == IF d < 8 THEN d - 1 ELSE d \div 2 + 2
      a == 7 * x + b
  IN  \/ s = 0 /\ 0 <= a /\ a < d
      \/ s = 1 /\ d <= a /\ a < 2 * d
      \/ s = 2 /\ 2 * d <= a /\ a < 3 * d
      \/ s = 3 /\ 3 * d <= a /\ a < 4 * d
      \/ s = 4 /\ 4 * d <= a /\ a < 5 * d
      \/ s = 5 /\ 5 * d <= a /\ a < 6 * d
      \/ s = 6 /\ 6 * d <= a /\ a < 7 * d
      \/ s = 7 /\ 7 * d <= a /\ a < 8 * d

(* The three comparisons of the shader compute that scale.                 *)
LEMMA ScaleIsQuotient ==
  ASSUME NEW lo \in 0 .. 255, NEW hi \in 0 .. 255, NEW v \in 0 .. 255,
         lo < hi, lo <= v, v <= hi
  PROVE  HasScale(hi - lo, v - lo, scale(lo, hi, v))
<1> DEFINE d == hi - lo
           b == IF d < 8 THEN d - 1 ELSE d \div 2 + 2
           a == 7 * (v - lo) + b
<1>1. d \in 1 .. 255 /\ b \in 0 .. 255 /\ b < d /\ a \in Int /\ 0 <= a /\ a < 8 * d
  <2>1. d \in 1 .. 255
    OBVIOUS
  <2>2. b \in 0 .. 255 /\ b < d
    BY <2>1
  <2> QED
    BY <2>1, <2>2
<1>2. v * 7 + bias(lo, hi) = a
  BY DEF bias
<1> HIDE DEF a, b
<1>3. scale(lo, hi, v) =
        LET i4 == IF a >= 4 * d THEN 4 ELSE 0
            a4 == a - i4 * d
            i2 == IF a4 >= 2 * d THEN 2 ELSE 0
            a2 == a4 - i2 * d
        IN  i4 + i2 + (IF a2 >= d THEN 1 ELSE 0)
  BY <1>2 DEF scale
<1> DEFINE n == scale(lo, hi, v)
<1> HIDE DEF d, n
<1>4. \/ n = 0 /\ 0 <= a /\ a < d
      \/ n = 1 /\ d <= a /\ a < 2 * d
      \/ n = 2 /\ 2 * d <= a /\ a < 3 * d
      \/ n = 3 /\ 3 * d <= a /\ a < 4 * d
      \/ n = 4 /\ 4 * d <= a /\ a < 5 * d
      \/ n = 5 /\ 5 * d <= a /\ a < 6 * d
      \/ n = 6 /\ 6 * d <= a /\ a < 7 * d
      \/ n = 7 /\ 7 * d <= a /\ a < 8 * d
  <2>1. CASE a >= 4 * d
    BY <1>1, <1>3, <2>1 DEF n
  <2>2. CASE a < 4 * d
    BY <1>1, <1>3, <2>2 DEF n
  <2> QED
    BY <1>1, <2>1, <2>2
<1> QED
  BY <1>4 DEF HasScale, a, b, d, n

(* A block of one value has scale 0 everywhere.                            *)
LEMMA ScaleOfOneValue ==
  ASSUME NEW v \in 0 .. 255
  PROVE  scale(v, v, v) = 0
<1>1. v * 7 + bias(v, v) = -1
  BY DEF bias
<1> QED
  BY <1>1 DEF scale

(* The negation and the exchange of 0 and 1 turn a scale into an index.    *)
LEMMA IndexOfScale ==
  ASSUME NEW lo, NEW hi, NEW v, NEW s \in 0 .. 7, scale(lo, hi, v) = s
  PROVE  index(lo, hi, v) = CASE s = 0 -> 1 [] s = 7 -> 0 [] OTHER -> 8 - s
<1> DEFINE ind == (8 - s) % 8
<1>1. /\ s = 0 => ind = 0
      /\ s # 0 => ind = 8 - s
  OBVIOUS
<1>2. index(lo, hi, v) = CASE ind = 0 -> 1 [] ind = 1 -> 0 [] OTHER -> ind
  BY DEF index
<1> HIDE DEF ind
<1>3. CASE s = 0
  BY <1>1, <1>2, <1>3
<1>4. CASE s = 7
  BY <1>1, <1>2, <1>4
<1>5. CASE s \notin {0, 7}
  <2>1. ind \notin {0, 1} /\ ind = 8 - s
    BY <1>1, <1>5
  <2> QED
    BY <1>2, <1>5, <2>1
<1> QED
  BY <1>3, <1>4, <1>5

(* A scale has three bits, in a block of one value too.                    *)
LEMMA ScaleRange ==
  ASSUME NEW lo \in 0 .. 255, NEW hi \in 0 .. 255, NEW v \in 0 .. 255, lo <= v, v <= hi
  PROVE  scale(lo, hi, v) \in 0 .. 7
<1>1. CASE lo = hi
  <2>1. lo = v /\ hi = v
    BY <1>1
  <2> QED
    BY <2>1, ScaleOfOneValue
<1>2. CASE lo < hi
  <2> DEFINE n == scale(lo, hi, v)
  <2>1. n \in {0, 1, 2, 3, 4, 5, 6, 7}
    <3>1. HasScale(hi - lo, v - lo, n)
      BY <1>2, ScaleIsQuotient, Zenon
    <3> HIDE DEF n
    <3> QED
      BY <3>1, Zenon DEF HasScale
  <2> HIDE DEF n
  <2> QED
    BY <2>1 DEF n
<1>3. lo = hi \/ lo < hi
  OBVIOUS
<1> QED
  BY <1>1, <1>2, <1>3

(* So has an index.                                                        *)
LEMMA IndexRange ==
  ASSUME NEW lo \in 0 .. 255, NEW hi \in 0 .. 255, NEW v \in 0 .. 255, lo <= v, v <= hi
  PROVE  index(lo, hi, v) \in 0 .. 7
<1> DEFINE s == scale(lo, hi, v)
<1>1. s \in 0 .. 7
  BY ScaleRange
<1>2. index(lo, hi, v) = CASE s = 0 -> 1 [] s = 7 -> 0 [] OTHER -> 8 - s
  BY <1>1, IndexOfScale
<1> HIDE DEF s
<1> QED
  BY <1>1, <1>2

-----------------------------------------------------------------------------
(* What the decoder makes of an index.                                     *)

(* Above the minimum, the eight values of a range of d.                    *)
Step(d, n) == IF n = 7 THEN d ELSE (n * d) \div 7

(* The scale of a value is a step nearest to it: no step below and none    *)
(* above it is nearer, for each of the eight.                              *)
LEMMA NearestStep ==
  ASSUME NEW d \in 1 .. 255, NEW x \in 0 .. d, NEW s \in 0 .. 7, HasScale(d, x, s), NEW n \in 0 .. 7
  PROVE  Distance(Step(d, s), x) <= Distance(Step(d, n), x)
<1> DEFINE b == IF d < 8 THEN d - 1 ELSE d \div 2 + 2
           a == 7 * x + b
<1>1. /\ Step(d, 0) \in Int /\ 7 * Step(d, 0) <= 0 /\ 0 < 7 * Step(d, 0) + 7
      /\ Step(d, 1) \in Int /\ 7 * Step(d, 1) <= d /\ d < 7 * Step(d, 1) + 7
      /\ Step(d, 2) \in Int /\ 7 * Step(d, 2) <= 2 * d /\ 2 * d < 7 * Step(d, 2) + 7
      /\ Step(d, 3) \in Int /\ 7 * Step(d, 3) <= 3 * d /\ 3 * d < 7 * Step(d, 3) + 7
      /\ Step(d, 4) \in Int /\ 7 * Step(d, 4) <= 4 * d /\ 4 * d < 7 * Step(d, 4) + 7
      /\ Step(d, 5) \in Int /\ 7 * Step(d, 5) <= 5 * d /\ 5 * d < 7 * Step(d, 5) + 7
      /\ Step(d, 6) \in Int /\ 7 * Step(d, 6) <= 6 * d /\ 6 * d < 7 * Step(d, 6) + 7
      /\ Step(d, 7) \in Int /\ 7 * Step(d, 7) <= 7 * d /\ 7 * d < 7 * Step(d, 7) + 7
  BY DEF Step
<1>2. d \in Int /\ x \in Int /\ 1 <= d /\ d <= 255 /\ 0 <= x /\ x <= d /\ a = 7 * x + b /\ b \in Int
  OBVIOUS
<1>3. \/ d < 8 /\ b = d - 1
      \/ d >= 8 /\ d + 3 <= 2 * b /\ 2 * b <= d + 4
  OBVIOUS
<1>4. CASE s = 0
  <2>1. 0 <= a /\ a < d
    BY <1>4 DEF HasScale
  <2> HIDE DEF b, a
  <2>2. /\ Distance(Step(d, 0), x) <= Distance(Step(d, 1), x)
        /\ Distance(Step(d, 0), x) <= Distance(Step(d, 2), x)
        /\ Distance(Step(d, 0), x) <= Distance(Step(d, 3), x)
        /\ Distance(Step(d, 0), x) <= Distance(Step(d, 4), x)
        /\ Distance(Step(d, 0), x) <= Distance(Step(d, 5), x)
        /\ Distance(Step(d, 0), x) <= Distance(Step(d, 6), x)
        /\ Distance(Step(d, 0), x) <= Distance(Step(d, 7), x)
    BY <1>1, <1>2, <1>3, <2>1 DEF Distance
  <2>3. n \in {0, 1, 2, 3, 4, 5, 6, 7}
    OBVIOUS
  <2>4. Distance(Step(d, 0), x) <= Distance(Step(d, 0), x)
    BY <1>1, <1>2 DEF Distance
  <2> QED
    BY <1>4, <2>3, <2>4, <2>2, Zenon
<1>5. CASE s = 1
  <2>1. d <= a /\ a < 2 * d
    BY <1>5 DEF HasScale
  <2> HIDE DEF b, a
  <2>2. Distance(Step(d, 1), x) <= Distance(Step(d, 0), x)
    BY <1>1, <1>2, <1>3, <2>1 DEF Distance
  <2>3. /\ Distance(Step(d, 1), x) <= Distance(Step(d, 2), x)
        /\ Distance(Step(d, 1), x) <= Distance(Step(d, 3), x)
        /\ Distance(Step(d, 1), x) <= Distance(Step(d, 4), x)
        /\ Distance(Step(d, 1), x) <= Distance(Step(d, 5), x)
        /\ Distance(Step(d, 1), x) <= Distance(Step(d, 6), x)
        /\ Distance(Step(d, 1), x) <= Distance(Step(d, 7), x)
    BY <1>1, <1>2, <1>3, <2>1 DEF Distance
  <2>4. n \in {0, 1, 2, 3, 4, 5, 6, 7}
    OBVIOUS
  <2>5. Distance(Step(d, 1), x) <= Distance(Step(d, 1), x)
    BY <1>1, <1>2 DEF Distance
  <2> QED
    BY <1>5, <2>2, <2>4, <2>5, <2>3, Zenon
<1>6. CASE s = 2
  <2>1. 2 * d <= a /\ a < 3 * d
    BY <1>6 DEF HasScale
  <2> HIDE DEF b, a
  <2>2. /\ Distance(Step(d, 2), x) <= Distance(Step(d, 0), x)
        /\ Distance(Step(d, 2), x) <= Distance(Step(d, 1), x)
    BY <1>1, <1>2, <1>3, <2>1 DEF Distance
  <2>3. /\ Distance(Step(d, 2), x) <= Distance(Step(d, 3), x)
        /\ Distance(Step(d, 2), x) <= Distance(Step(d, 4), x)
        /\ Distance(Step(d, 2), x) <= Distance(Step(d, 5), x)
        /\ Distance(Step(d, 2), x) <= Distance(Step(d, 6), x)
        /\ Distance(Step(d, 2), x) <= Distance(Step(d, 7), x)
    BY <1>1, <1>2, <1>3, <2>1 DEF Distance
  <2>4. n \in {0, 1, 2, 3, 4, 5, 6, 7}
    OBVIOUS
  <2>5. Distance(Step(d, 2), x) <= Distance(Step(d, 2), x)
    BY <1>1, <1>2 DEF Distance
  <2> QED
    BY <1>6, <2>2, <2>4, <2>5, <2>3, Zenon
<1>7. CASE s = 3
  <2>1. 3 * d <= a /\ a < 4 * d
    BY <1>7 DEF HasScale
  <2> HIDE DEF b, a
  <2>2. /\ Distance(Step(d, 3), x) <= Distance(Step(d, 0), x)
        /\ Distance(Step(d, 3), x) <= Distance(Step(d, 1), x)
        /\ Distance(Step(d, 3), x) <= Distance(Step(d, 2), x)
    BY <1>1, <1>2, <1>3, <2>1 DEF Distance
  <2>3. /\ Distance(Step(d, 3), x) <= Distance(Step(d, 4), x)
        /\ Distance(Step(d, 3), x) <= Distance(Step(d, 5), x)
        /\ Distance(Step(d, 3), x) <= Distance(Step(d, 6), x)
        /\ Distance(Step(d, 3), x) <= Distance(Step(d, 7), x)
    BY <1>1, <1>2, <1>3, <2>1 DEF Distance
  <2>4. n \in {0, 1, 2, 3, 4, 5, 6, 7}
    OBVIOUS
  <2>5. Distance(Step(d, 3), x) <= Distance(Step(d, 3), x)
    BY <1>1, <1>2 DEF Distance
  <2> QED
    BY <1>7, <2>2, <2>4, <2>5, <2>3, Zenon
<1>8. CASE s = 4
  <2>1. 4 * d <= a /\ a < 5 * d
    BY <1>8 DEF HasScale
  <2> HIDE DEF b, a
  <2>2. /\ Distance(Step(d, 4), x) <= Distance(Step(d, 0), x)
        /\ Distance(Step(d, 4), x) <= Distance(Step(d, 1), x)
        /\ Distance(Step(d, 4), x) <= Distance(Step(d, 2), x)
        /\ Distance(Step(d, 4), x) <= Distance(Step(d, 3), x)
    BY <1>1, <1>2, <1>3, <2>1 DEF Distance
  <2>3. /\ Distance(Step(d, 4), x) <= Distance(Step(d, 5), x)
        /\ Distance(Step(d, 4), x) <= Distance(Step(d, 6), x)
        /\ Distance(Step(d, 4), x) <= Distance(Step(d, 7), x)
    BY <1>1, <1>2, <1>3, <2>1 DEF Distance
  <2>4. n \in {0, 1, 2, 3, 4, 5, 6, 7}
    OBVIOUS
  <2>5. Distance(Step(d, 4), x) <= Distance(Step(d, 4), x)
    BY <1>1, <1>2 DEF Distance
  <2> QED
    BY <1>8, <2>2, <2>4, <2>5, <2>3, Zenon
<1>9. CASE s = 5
  <2>1. 5 * d <= a /\ a < 6 * d
    BY <1>9 DEF HasScale
  <2> HIDE DEF b, a
  <2>2. /\ Distance(Step(d, 5), x) <= Distance(Step(d, 0), x)
        /\ Distance(Step(d, 5), x) <= Distance(Step(d, 1), x)
        /\ Distance(Step(d, 5), x) <= Distance(Step(d, 2), x)
        /\ Distance(Step(d, 5), x) <= Distance(Step(d, 3), x)
        /\ Distance(Step(d, 5), x) <= Distance(Step(d, 4), x)
    BY <1>1, <1>2, <1>3, <2>1 DEF Distance
  <2>3. /\ Distance(Step(d, 5), x) <= Distance(Step(d, 6), x)
        /\ Distance(Step(d, 5), x) <= Distance(Step(d, 7), x)
    BY <1>1, <1>2, <1>3, <2>1 DEF Distance
  <2>4. n \in {0, 1, 2, 3, 4, 5, 6, 7}
    OBVIOUS
  <2>5. Distance(Step(d, 5), x) <= Distance(Step(d, 5), x)
    BY <1>1, <1>2 DEF Distance
  <2> QED
    BY <1>9, <2>2, <2>4, <2>5, <2>3, Zenon
<1>10. CASE s = 6
  <2>1. 6 * d <= a /\ a < 7 * d
    BY <1>10 DEF HasScale
  <2> HIDE DEF b, a
  <2>2. /\ Distance(Step(d, 6), x) <= Distance(Step(d, 0), x)
        /\ Distance(Step(d, 6), x) <= Distance(Step(d, 1), x)
        /\ Distance(Step(d, 6), x) <= Distance(Step(d, 2), x)
        /\ Distance(Step(d, 6), x) <= Distance(Step(d, 3), x)
        /\ Distance(Step(d, 6), x) <= Distance(Step(d, 4), x)
        /\ Distance(Step(d, 6), x) <= Distance(Step(d, 5), x)
    BY <1>1, <1>2, <1>3, <2>1 DEF Distance
  <2>3. Distance(Step(d, 6), x) <= Distance(Step(d, 7), x)
    BY <1>1, <1>2, <1>3, <2>1 DEF Distance
  <2>4. n \in {0, 1, 2, 3, 4, 5, 6, 7}
    OBVIOUS
  <2>5. Distance(Step(d, 6), x) <= Distance(Step(d, 6), x)
    BY <1>1, <1>2 DEF Distance
  <2> QED
    BY <1>10, <2>2, <2>4, <2>5, <2>3, Zenon
<1>11. CASE s = 7
  <2>1. 7 * d <= a /\ a < 8 * d
    BY <1>11 DEF HasScale
  <2> HIDE DEF b, a
  <2>2. /\ Distance(Step(d, 7), x) <= Distance(Step(d, 0), x)
        /\ Distance(Step(d, 7), x) <= Distance(Step(d, 1), x)
        /\ Distance(Step(d, 7), x) <= Distance(Step(d, 2), x)
        /\ Distance(Step(d, 7), x) <= Distance(Step(d, 3), x)
        /\ Distance(Step(d, 7), x) <= Distance(Step(d, 4), x)
        /\ Distance(Step(d, 7), x) <= Distance(Step(d, 5), x)
        /\ Distance(Step(d, 7), x) <= Distance(Step(d, 6), x)
    BY <1>1, <1>2, <1>3, <2>1 DEF Distance
  <2>3. n \in {0, 1, 2, 3, 4, 5, 6, 7}
    OBVIOUS
  <2>4. Distance(Step(d, 7), x) <= Distance(Step(d, 7), x)
    BY <1>1, <1>2 DEF Distance
  <2> QED
    BY <1>11, <2>2, <2>3, <2>4, Zenon
<1> QED
  BY <1>4, <1>5, <1>6, <1>7, <1>8, <1>9, <1>10, <1>11

-----------------------------------------------------------------------------
(* The invariant.                                                          *)

(* The bits of an index lie within the two words of the mask.              *)
LEMMA BitsAreOfTheMask ==
  ASSUME NEW p \in Pixel, NEW ind
  PROVE  bitsOf(p, ind) \subseteq 0 .. 63
  BY DEF bitsOf, Pixel

(* So do those of a row, and its two words together are all of them.       *)
LEMMA RowBitsAreOfTheMask ==
  ASSUME NEW t \in Thread
  PROVE  /\ BitsOfRow(t) \in SUBSET (0 .. 63)
         /\ LowWord(t) \in SUBSET (0 .. 63) /\ HighWord(t) \in SUBSET (0 .. 63)
         /\ BitsOfRow(t) = LowWord(t) \cup HighWord(t)
<1>1. \A p \in PixelsOf(t) : bitsOf(p, index(Lo, Hi, image[p])) \subseteq 0 .. 63
  BY BitsAreOfTheMask, PixelsByRow
<1>2. BitsOfRow(t) \subseteq 0 .. 63
  BY <1>1 DEF BitsOfRow
<1> QED
  BY <1>2 DEF LowWord, HighWord

(* Nothing is claimed of the old contents of shared memory.                *)
LEMMA InitHoldsInvariant == Init => Bc4Invariant
<1> SUFFICES ASSUME Init PROVE Bc4Invariant
  OBVIOUS
<1>1. Bc4TypeOK
  <2>1. image \in [Pixel -> 0 .. 255] /\ useSNorm \in BOOLEAN
    BY Bc4BlockAssumption DEF Init
  <2>2. <<0, 0>> \in Int \X Int /\ <<>> \in Seq(SUBSET (0 .. 63))
    OBVIOUS
  <2> QED
    BY <2>1, <2>2 DEF Init, Bc4TypeOK
<1>2. Bc4InStep
  BY DEF Init, Bc4InStep
<1>3. \A t \in Thread : pending[t] = <<>> /\ \A n \in 0 .. 2 : ~Passed(t, n)
  BY DEF Init, Passed
<1>4. 0 \in Thread /\ outputBytes = {}
  BY DEF Init, Thread
<1> QED
  BY <1>1, <1>2, <1>3, <1>4
     DEF Bc4Invariant, ExtremesAreShared, PendingIsUnmerged, ExtremesAreKnown, MaskIsMerged, OutputIsWhole

(* The image never changes, so nothing computed from it does.              *)
LEMMA ImageIsFixed ==
  ASSUME UNCHANGED <<image, useSNorm>>
  PROVE  /\ Lo' = Lo /\ Hi' = Hi
         /\ \A t \in Thread : /\ RowValues(t)' = RowValues(t) /\ BitsOfRow(t)' = BitsOfRow(t)
                              /\ LowWord(t)' = LowWord(t) /\ HighWord(t)' = HighWord(t)
         /\ endpoint(Lo)' = endpoint(Lo) /\ endpoint(Hi)' = endpoint(Hi)
<1>1. Lo' = Lo /\ Hi' = Hi
  BY DEF Lo, Hi
<1>2. \A t \in Thread : RowValues(t)' = RowValues(t) /\ BitsOfRow(t)' = BitsOfRow(t)
  BY <1>1 DEF RowValues, BitsOfRow
<1> QED
  BY <1>1, <1>2 DEF LowWord, HighWord, endpoint

(* A thread that loads clears the mask, and nobody can have merged into    *)
(* it yet.                                                                 *)
LEMMA LoadKeeps ==
  ASSUME Bc4Invariant, NEW t \in Thread, Load(t)
  PROVE  Bc4Invariant'
<1> USE DEF Bc4Invariant
<1>1. /\ part[t] = 0 /\ arrived[t] = FALSE /\ UNCHANGED <<image, useSNorm, pending, part, outputBytes>>
      /\ own' = [own EXCEPT ![t] = <<Min(RowValues(t)), Max(RowValues(t))>>]
      /\ minMax' = [minMax EXCEPT ![t] = <<Min(RowValues(t)), Max(RowValues(t))>>]
      /\ mask' = {} /\ arrived' = [arrived EXCEPT ![t] = TRUE]
  BY DEF Load, Arrive, RowValues, Bc4TypeOK
<1>2. <<Min(RowValues(t)), Max(RowValues(t))>> \in Int \X Int
  <2>1. /\ Min(RowValues(t)) \in RowValues(t) /\ Max(RowValues(t)) \in RowValues(t)
        /\ RowValues(t) \subseteq 0 .. 255
    <3>1. image \in [Pixel -> 0 .. 255]
      BY DEF Bc4TypeOK
    <3> QED
      BY <3>1, RowExtremes, Zenon
  <2>2. Min(RowValues(t)) \in Int /\ Max(RowValues(t)) \in Int
    BY <2>1
  <2> QED
    BY <2>2
<1>3. Bc4TypeOK'
  BY <1>1, <1>2 DEF Bc4TypeOK
<1>4. ASSUME NEW u \in Thread PROVE part[u] = 0
  <2>1. part[u] \in 0 .. 2 /\ (part[u] > part[t] => arrived[t])
    BY DEF Bc4InStep, Bc4TypeOK
  <2> QED
    BY <1>1, <2>1
<1>5. Bc4InStep'
  BY <1>1, <1>4 DEF Bc4InStep
<1>6. ASSUME NEW u \in Thread
      PROVE  ExtremesAreShared(u)' /\ PendingIsUnmerged(u)' /\ ExtremesAreKnown(u)'
  <2>1. ExtremesAreShared(u)'
    BY <1>1, ImageIsFixed DEF ExtremesAreShared, Passed, Bc4TypeOK
  <2>2. pending'[u] = <<>> /\ ~Passed(u, 1)'
    BY <1>1, <1>4 DEF PendingIsUnmerged, Passed
  <2> QED
    BY <2>1, <2>2 DEF PendingIsUnmerged, ExtremesAreKnown
<1>7. MaskIsMerged'
  <2>1. \A u \in Thread : Merged(u)' = {}
    BY <1>1, <1>4 DEF Merged
  <2> QED
    BY <1>1, <2>1 DEF MaskIsMerged
<1>8. OutputIsWhole'
  <2>1. 0 \in Thread
    BY DEF Thread
  <2>2. ~Passed(0, 2)'
    BY <1>1, <1>4, <2>1 DEF Passed
  <2>3. {BitsOfRow(u) : u \in Thread}' = {BitsOfRow(u) : u \in Thread}
    BY <1>1, ImageIsFixed
  <2> QED
    BY <1>1, <2>2, <2>3, ImageIsFixed DEF OutputIsWhole
<1> QED
  BY <1>3, <1>5, <1>6, <1>7, <1>8

(* A thread in a later part knows that all have loaded.                    *)
LEMMA AllHaveLoaded ==
  ASSUME Bc4TypeOK, Bc4InStep, NEW t \in Thread, part[t] # 0
  PROVE  \A u \in Thread : Passed(u, 0)
<1> SUFFICES ASSUME NEW u \in Thread PROVE Passed(u, 0)
  OBVIOUS
<1>1. part[t] \in 1 .. 2 /\ part[u] \in 0 .. 2 /\ (part[t] > part[u] => arrived[u])
  BY DEF Bc4TypeOK, Bc4InStep
<1> QED
  BY <1>1 DEF Passed

(* Past the second barrier, every thread has merged its bits.              *)
LEMMA AllHaveMerged ==
  ASSUME Bc4TypeOK, Bc4InStep, NEW t \in Thread, part[t] = 2
  PROVE  \A u \in Thread : part[u] # 0 /\ Passed(u, 1)
<1> SUFFICES ASSUME NEW u \in Thread PROVE part[u] # 0 /\ Passed(u, 1)
  OBVIOUS
<1>1. part[u] \in 0 .. 2 /\ (part[t] > part[u] => part[t] = part[u] + 1 /\ arrived[u])
  BY DEF Bc4TypeOK, Bc4InStep
<1> QED
  BY <1>1 DEF Passed

(* A thread that selects reads the extremes of all four rows, which are    *)
(* there since the first barrier.                                          *)
LEMMA SelectKeeps ==
  ASSUME Bc4Invariant, NEW t \in Thread, Select(t)
  PROVE  Bc4Invariant'
<1> USE DEF Bc4Invariant
<1>1. /\ part[t] = 1 /\ arrived[t] = FALSE /\ pending[t] = <<>>
      /\ UNCHANGED <<image, useSNorm, minMax, mask, part, arrived, outputBytes>>
  BY DEF Select, Bc4TypeOK
<1>2. /\ Min({minMax[u][1] : u \in Thread}) = Lo
      /\ Max({minMax[u][2] : u \in Thread}) = Hi
      /\ Lo \in 0 .. 255 /\ Hi \in 0 .. 255
  <2>1. \A u \in Thread : Passed(u, 0)
    BY <1>1, AllHaveLoaded
  <2>2. \A u \in Thread : minMax[u] = <<Min(RowValues(u)), Max(RowValues(u))>>
    BY <2>1 DEF ExtremesAreShared
  <2>3. /\ {minMax[u][1] : u \in Thread} = {Min(RowValues(u)) : u \in Thread}
        /\ {minMax[u][2] : u \in Thread} = {Max(RowValues(u)) : u \in Thread}
    BY <2>2
  <2> QED
    BY <2>3, BlockExtremes DEF Bc4TypeOK
<1>3. /\ own' = [own EXCEPT ![t] = <<Lo, Hi>>]
      /\ pending' = [pending EXCEPT ![t] = <<LowWord(t), HighWord(t)>>]
  <2> DEFINE minVal == Min({minMax[u][1] : u \in Thread})
             maxVal == Max({minMax[u][2] : u \in Thread})
             bits == UNION {bitsOf(p, index(minVal, maxVal, image[p])) : p \in PixelsOf(t)}
  <2>1. /\ own' = [own EXCEPT ![t] = <<minVal, maxVal>>]
        /\ pending' = [pending EXCEPT ![t] = <<bits \cap (0 .. 31), bits \ (0 .. 31)>>]
    BY DEF Select
  <2>2. minVal = Lo /\ maxVal = Hi
    BY <1>2
  <2> HIDE DEF minVal, maxVal
  <2>3. bits = BitsOfRow(t)
    BY <2>2, Zenon DEF BitsOfRow
  <2> HIDE DEF bits
  <2> QED
    BY <2>1, <2>2, <2>3 DEF LowWord, HighWord
<1>4. Bc4TypeOK'
  <2>1. <<LowWord(t), HighWord(t)>> \in Seq(SUBSET (0 .. 63))
    BY RowBitsAreOfTheMask
  <2>2. <<Lo, Hi>> \in Int \X Int
    BY <1>2
  <2> QED
    BY <1>1, <1>3, <2>1, <2>2 DEF Bc4TypeOK
<1>5. Bc4InStep'
  BY <1>1 DEF Bc4InStep
<1>6. ASSUME NEW u \in Thread
      PROVE  ExtremesAreShared(u)' /\ PendingIsUnmerged(u)' /\ ExtremesAreKnown(u)'
  <2>1. ExtremesAreShared(u)'
    BY <1>1, ImageIsFixed DEF ExtremesAreShared, Passed
  <2>2. PendingIsUnmerged(u)'
    BY <1>1, <1>3, ImageIsFixed DEF PendingIsUnmerged, Bc4TypeOK
  <2>3. ExtremesAreKnown(u)'
    BY <1>1, <1>3, ImageIsFixed DEF ExtremesAreKnown, Passed, Bc4TypeOK
  <2> QED
    BY <2>1, <2>2, <2>3
<1>7. MaskIsMerged'
  <2>1. ASSUME NEW u \in Thread PROVE Merged(u)' = Merged(u)
    <3>1. CASE u # t
      <4>1. pending'[u] = pending[u]
        BY <1>3, <3>1 DEF Bc4TypeOK
      <4> QED
        BY <1>1, <4>1, ImageIsFixed DEF Merged, Passed
    <3>2. CASE u = t
      <4>1. Len(pending[t]) # 1 /\ Len(pending'[t]) # 1
        BY <1>1, <1>3 DEF Bc4TypeOK
      <4>2. part[t] # 0 /\ ~Passed(t, 1)
        BY <1>1 DEF Passed
      <4>3. Merged(t) = {}
        BY <4>1, <4>2 DEF Merged
      <4>4. Merged(t)' = {}
        BY <1>1, <4>1, <4>2 DEF Merged, Passed
      <4> QED
        BY <3>2, <4>3, <4>4
    <3> QED
      BY <3>1, <3>2
  <2>2. \A u \in Thread : Passed(u, 0)' = Passed(u, 0)
    BY <1>1 DEF Passed
  <2> QED
    BY <1>1, <2>1, <2>2 DEF MaskIsMerged
<1>8. OutputIsWhole'
  <2>1. {BitsOfRow(u) : u \in Thread}' = {BitsOfRow(u) : u \in Thread}
    BY <1>1, ImageIsFixed
  <2> QED
    BY <1>1, <2>1, ImageIsFixed DEF OutputIsWhole, Passed
<1> QED
  BY <1>4, <1>5, <1>6, <1>7, <1>8

(* A merge moves a word from what is pending to what is merged, and the    *)
(* atomic or adds just that to the mask.                                   *)
LEMMA MergeKeeps ==
  ASSUME Bc4Invariant, NEW t \in Thread, Merge(t)
  PROVE  Bc4Invariant'
<1> USE DEF Bc4Invariant
<1>1. /\ part[t] = 1 /\ arrived[t] = FALSE /\ pending[t] # <<>>
      /\ mask' = mask \cup pending[t][1]
      /\ pending' = [pending EXCEPT ![t] = Tail(pending[t])]
      /\ arrived' = [arrived EXCEPT ![t] = Tail(pending[t]) = <<>>]
      /\ UNCHANGED <<image, useSNorm, minMax, own, part, outputBytes>>
  <2>1. /\ part[t] = 1 /\ arrived[t] = FALSE /\ pending[t] # <<>>
        /\ mask' = mask \cup pending[t][1]
        /\ pending' = [pending EXCEPT ![t] = Tail(pending[t])]
        /\ UNCHANGED <<image, useSNorm, minMax, own, part, outputBytes>>
    BY DEF Merge, Bc4TypeOK
  <2>2. CASE Tail(pending[t]) = <<>>
    BY <2>1, <2>2 DEF Merge, Arrive, Bc4TypeOK
  <2>3. CASE Tail(pending[t]) # <<>>
    <3>1. arrived' = arrived /\ arrived \in [Thread -> BOOLEAN]
      BY <2>3 DEF Merge, Bc4TypeOK
    <3> QED
      BY <2>1, <2>3, <3>1
  <2> QED
    BY <2>2, <2>3
<1>2. \/ /\ pending[t] = <<LowWord(t), HighWord(t)>>
         /\ pending[t][1] = LowWord(t) /\ Tail(pending[t]) = <<HighWord(t)>> /\ Len(pending[t]) = 2
      \/ /\ pending[t] = <<HighWord(t)>>
         /\ pending[t][1] = HighWord(t) /\ Tail(pending[t]) = <<>> /\ Len(pending[t]) = 1
  <2>1. pending[t] \in {<<LowWord(t), HighWord(t)>>, <<HighWord(t)>>}
    BY <1>1 DEF PendingIsUnmerged
  <2> DEFINE low == LowWord(t)
             high == HighWord(t)
  <2> HIDE DEF low, high
  <2>2. /\ <<low, high>>[1] = low /\ Tail(<<low, high>>) = <<high>> /\ Len(<<low, high>>) = 2
        /\ <<high>>[1] = high /\ Tail(<<high>>) = <<>> /\ Len(<<high>>) = 1
    OBVIOUS
  <2>3. pending[t] = <<low, high>> \/ pending[t] = <<high>>
    BY <2>1 DEF low, high
  <2>4. CASE pending[t] = <<low, high>>
    BY <2>2, <2>4 DEF low, high
  <2>5. CASE pending[t] = <<high>>
    BY <2>2, <2>5 DEF low, high
  <2> QED
    BY <2>3, <2>4, <2>5
<1>3. /\ pending[t][1] \in SUBSET (0 .. 63) /\ Tail(pending[t]) \in Seq(SUBSET (0 .. 63))
      /\ Tail(pending[t]) \in {<<>>, <<HighWord(t)>>}
  <2>1. LowWord(t) \in SUBSET (0 .. 63) /\ HighWord(t) \in SUBSET (0 .. 63)
    BY RowBitsAreOfTheMask
  <2>2. <<>> \in Seq(SUBSET (0 .. 63)) /\ <<HighWord(t)>> \in Seq(SUBSET (0 .. 63))
    BY <2>1
  <2> QED
    BY <1>2, <2>1, <2>2
<1>4. Bc4TypeOK'
  BY <1>1, <1>3 DEF Bc4TypeOK
<1>5. Bc4InStep'
  <2>1. \A u \in Thread : arrived[u] => arrived'[u]
    BY <1>1 DEF Bc4TypeOK
  <2> QED
    BY <1>1, <2>1 DEF Bc4InStep
<1>6. ASSUME NEW u \in Thread
      PROVE  ExtremesAreShared(u)' /\ PendingIsUnmerged(u)' /\ ExtremesAreKnown(u)'
  <2>1. CASE u # t
    <3>1. pending'[u] = pending[u] /\ arrived'[u] = arrived[u]
      BY <1>1, <2>1 DEF Bc4TypeOK
    <3> QED
      BY <1>1, <3>1, ImageIsFixed
         DEF ExtremesAreShared, PendingIsUnmerged, ExtremesAreKnown, Passed
  <2>2. CASE u = t
    <3>1. pending'[t] = Tail(pending[t]) /\ arrived'[t] = (Tail(pending[t]) = <<>>)
      BY <1>1 DEF Bc4TypeOK
    <3>2. Passed(t, 0)
      BY <1>1 DEF Passed
    <3>3. minMax[t] = <<Min(RowValues(t)), Max(RowValues(t))>> /\ own[t] = <<Lo, Hi>>
      BY <1>1, <3>2 DEF ExtremesAreShared, ExtremesAreKnown
    <3>4. PendingIsUnmerged(t)'
      BY <1>1, <1>2, <3>1, ImageIsFixed DEF PendingIsUnmerged
    <3> QED
      BY <1>1, <2>2, <3>3, <3>4, ImageIsFixed DEF ExtremesAreShared, ExtremesAreKnown
  <2> QED
    BY <2>1, <2>2
<1>7. MaskIsMerged'
  <2>1. ASSUME NEW u \in Thread, u # t PROVE Merged(u)' = Merged(u)
    <3>1. pending'[u] = pending[u] /\ arrived'[u] = arrived[u]
      BY <1>1, <2>1 DEF Bc4TypeOK
    <3> QED
      BY <1>1, <3>1, ImageIsFixed DEF Merged, Passed
  <2>2. Merged(t)' = Merged(t) \cup pending[t][1]
    <3>1. part[t] # 0 /\ ~Passed(t, 1) /\ part'[t] # 0
      BY <1>1 DEF Passed
    <3>2. CASE Tail(pending[t]) = <<HighWord(t)>>
      <4>1. pending[t][1] = LowWord(t) /\ Len(pending[t]) # 1
        BY <1>2, <3>2, SMTT(30)
      <4>2. ~Passed(t, 1)' /\ Len(pending'[t]) = 1
        <5>1. pending'[t] = <<HighWord(t)>> /\ part'[t] = 1
          BY <1>1, <3>2 DEF Bc4TypeOK
        <5>2. Len(<<HighWord(t)>>) = 1 /\ <<HighWord(t)>> # <<>>
          OBVIOUS
        <5>3. (Tail(pending[t]) = <<>>) = FALSE
          BY <3>2, <5>2
        <5>4. arrived'[t] = FALSE
          BY <1>1, <5>3 DEF Bc4TypeOK
        <5> QED
          BY <5>1, <5>2, <5>4 DEF Passed
      <4>3. Merged(t) = {}
        BY <3>1, <4>1 DEF Merged
      <4>4. Merged(t)' = LowWord(t)'
        BY <3>1, <4>2 DEF Merged
      <4> QED
        BY <1>1, <4>1, <4>3, <4>4, ImageIsFixed
    <3>3. CASE Tail(pending[t]) = <<>>
      <4>1. pending[t][1] = HighWord(t) /\ Len(pending[t]) = 1
        BY <1>2, <3>3
      <4>2. Passed(t, 1)'
        BY <1>1, <3>3 DEF Passed, Bc4TypeOK
      <4>3. Merged(t) = LowWord(t)
        BY <3>1, <4>1 DEF Merged
      <4>4. Merged(t)' = BitsOfRow(t)'
        BY <3>1, <4>2 DEF Merged
      <4> QED
        BY <1>1, <4>1, <4>3, <4>4, ImageIsFixed, RowBitsAreOfTheMask
    <3> QED
      BY <1>3, <3>2, <3>3
  <2>3. mask = UNION {Merged(u) : u \in Thread}
    BY <1>1, AllHaveLoaded DEF MaskIsMerged
  <2>4. mask' = UNION {Merged(u)' : u \in Thread}
    BY <1>1, <2>1, <2>2, <2>3
  <2> QED
    BY <2>4 DEF MaskIsMerged
<1>8. OutputIsWhole'
  <2>1. {BitsOfRow(u) : u \in Thread}' = {BitsOfRow(u) : u \in Thread}
    BY <1>1, ImageIsFixed
  <2>2. 0 \in Thread /\ part[0] \in 0 .. 2
    BY DEF Thread, Bc4TypeOK
  <2>3. Passed(0, 2)' => Passed(0, 2)
    <3>1. 0 # t => arrived'[0] = arrived[0]
      BY <1>1, <2>2 DEF Bc4TypeOK
    <3> QED
      BY <1>1, <2>2, <3>1 DEF Passed
  <2> QED
    BY <1>1, <2>1, <2>3, ImageIsFixed DEF OutputIsWhole
<1> QED
  BY <1>4, <1>5, <1>6, <1>7, <1>8

(* Thread 0 stores when the mask is whole.                                 *)
LEMMA StoreKeeps ==
  ASSUME Bc4Invariant, NEW t \in Thread, Store(t)
  PROVE  Bc4Invariant'
<1> USE DEF Bc4Invariant
<1> DEFINE new == [c0 |-> endpoint(own[t][2]), c1 |-> endpoint(own[t][1]), bits |-> mask]
<1>1. /\ part[t] = 2 /\ arrived[t] = FALSE /\ arrived' = [arrived EXCEPT ![t] = TRUE]
      /\ outputBytes' = IF t = 0 THEN outputBytes \cup {new} ELSE outputBytes
      /\ UNCHANGED <<image, useSNorm, minMax, mask, own, pending, part>>
  BY DEF Store, Arrive, Bc4TypeOK
<1>2. \A u \in Thread : part[u] # 0 /\ Passed(u, 1) /\ Passed(u, 0)
  BY <1>1, AllHaveMerged, AllHaveLoaded
<1>3. own[t] = <<Lo, Hi>> /\ mask = UNION {BitsOfRow(u) : u \in Thread}
  <2>1. \A u \in Thread : Merged(u) = BitsOfRow(u)
    BY <1>2 DEF Merged
  <2>2. mask = UNION {Merged(u) : u \in Thread}
    BY <1>2 DEF MaskIsMerged
  <2>3. {Merged(u) : u \in Thread} = {BitsOfRow(u) : u \in Thread}
    BY <2>1
  <2> QED
    BY <1>2, <2>2, <2>3 DEF ExtremesAreKnown
<1>4. new = [c0 |-> endpoint(Hi), c1 |-> endpoint(Lo), bits |-> UNION {BitsOfRow(u) : u \in Thread}]
  BY <1>3
<1>5. Bc4TypeOK'
  <2>1. endpoint(Hi) \in Int /\ endpoint(Lo) \in Int
    <3>1. Lo \in Int /\ Hi \in Int
      <4>1. Lo \in 0 .. 255 /\ Hi \in 0 .. 255
        BY BlockExtremes DEF Bc4TypeOK
      <4> QED
        BY <4>1
    <3> QED
      BY <3>1 DEF endpoint, packSnorm
  <2>2. new \in [c0 : Int, c1 : Int, bits : SUBSET (0 .. 63)]
    BY <1>3, <2>1 DEF Bc4TypeOK
  <2> HIDE DEF new
  <2> QED
    BY <1>1, <2>2 DEF Bc4TypeOK
<1> HIDE DEF new
<1>6. Bc4InStep'
  <2>1. \A u \in Thread : arrived[u] => arrived'[u]
    BY <1>1 DEF Bc4TypeOK
  <2> QED
    BY <1>1, <2>1 DEF Bc4InStep
<1>7. ASSUME NEW u \in Thread
      PROVE  /\ ExtremesAreShared(u)' /\ PendingIsUnmerged(u)' /\ ExtremesAreKnown(u)'
             /\ Merged(u)' = Merged(u) /\ Passed(u, 0)'
  <2>1. Passed(u, 0)' /\ Passed(u, 1)' /\ part'[u] # 0
    BY <1>1, <1>2 DEF Passed, Bc4TypeOK
  <2>2. PendingIsUnmerged(u)'
    <3>1. u # t => arrived'[u] = arrived[u]
      BY <1>1 DEF Bc4TypeOK
    <3>2. u = t => pending[u] = <<>>
      BY <1>1 DEF PendingIsUnmerged
    <3> QED
      BY <1>1, <3>1, <3>2, ImageIsFixed DEF PendingIsUnmerged
  <2>3. ExtremesAreShared(u)' /\ ExtremesAreKnown(u)'
    BY <1>1, <1>2, <2>1, ImageIsFixed DEF ExtremesAreShared, ExtremesAreKnown
  <2>4. Merged(u)' = Merged(u)
    BY <1>1, <1>2, <2>1, ImageIsFixed DEF Merged
  <2> QED
    BY <2>1, <2>2, <2>3, <2>4
<1>8. MaskIsMerged'
  <2>1. {Merged(u) : u \in Thread}' = {Merged(u) : u \in Thread}
    BY <1>7
  <2> QED
    BY <1>1, <1>2, <2>1 DEF MaskIsMerged
<1>9. OutputIsWhole'
  <2>1. {BitsOfRow(u) : u \in Thread}' = {BitsOfRow(u) : u \in Thread}
    BY <1>1, ImageIsFixed
  <2> DEFINE whole == [c0 |-> endpoint(Hi), c1 |-> endpoint(Lo),
                       bits |-> UNION {BitsOfRow(u) : u \in Thread}]
  <2>2. whole' = whole
    BY <1>1, <2>1, ImageIsFixed
  <2>3. \A b \in outputBytes : b = whole
    BY DEF OutputIsWhole
  <2>4. new = whole
    BY <1>4
  <2> HIDE DEF whole
  <2>5. \A b \in outputBytes' : b = whole'
    BY <1>1, <2>2, <2>3, <2>4
  <2>6. Passed(0, 2)' => outputBytes' # {}
    <3>1. 0 \in Thread /\ part[0] \in 0 .. 2
      BY DEF Thread, Bc4TypeOK
    <3>2. CASE t = 0
      BY <1>1, <3>2
    <3>3. CASE t # 0
      BY <1>1, <3>1, <3>3 DEF Passed, OutputIsWhole, Bc4TypeOK
    <3> QED
      BY <3>2, <3>3
  <2> QED
    BY <2>5, <2>6 DEF OutputIsWhole, whole
<1> QED
  BY <1>5, <1>6, <1>7, <1>8, <1>9

(* Passing a barrier changes nothing but where a thread is.                *)
LEMMA PassBarrierKeeps ==
  ASSUME Bc4Invariant, NEW t \in Thread, PassBarrier(t)
  PROVE  Bc4Invariant'
<1> USE DEF Bc4Invariant
<1>1. /\ arrived[t] /\ part[t] \in {0, 1}
      /\ \A u \in Thread : part[u] > part[t] \/ (part[u] = part[t] /\ arrived[u])
      /\ part' = [part EXCEPT ![t] = part[t] + 1]
      /\ arrived' = [arrived EXCEPT ![t] = FALSE]
      /\ UNCHANGED <<image, useSNorm, minMax, mask, own, pending, outputBytes>>
  <2>1. part[t] \in 0 .. 2 /\ part[t] < 2
    BY DEF PassBarrier, Bc4TypeOK
  <2>2. part[t] \in {0, 1}
    BY <2>1
  <2> QED
    BY <2>2 DEF PassBarrier
<1>2. Bc4TypeOK'
  <2>1. part[t] + 1 \in 0 .. 2
    BY <1>1
  <2> QED
    BY <1>1, <2>1 DEF Bc4TypeOK
<1>3. \A u \in Thread, n \in 0 .. 2 : Passed(u, n)' <=> Passed(u, n)
  <2> SUFFICES ASSUME NEW u \in Thread, NEW n \in 0 .. 2 PROVE Passed(u, n)' <=> Passed(u, n)
    OBVIOUS
  <2>1. CASE u # t
    <3>1. part'[u] = part[u] /\ arrived'[u] = arrived[u]
      BY <1>1, <2>1 DEF Bc4TypeOK
    <3> QED
      BY <3>1 DEF Passed
  <2>2. CASE u = t
    <3>1. part'[t] = part[t] + 1 /\ ~arrived'[t] /\ part[t] \in 0 .. 2
      BY <1>1 DEF Bc4TypeOK
    <3> QED
      BY <1>1, <2>2, <3>1 DEF Passed
  <2> QED
    BY <2>1, <2>2
<1>4. Bc4InStep'
  <2> SUFFICES ASSUME NEW u \in Thread, NEW v \in Thread, part'[u] > part'[v]
               PROVE  part'[u] = part'[v] + 1 /\ arrived'[v]
    BY DEF Bc4InStep
  <2>0. /\ part[u] \in 0 .. 2 /\ part[v] \in 0 .. 2 /\ part[t] \in 0 .. 2
        /\ part[u] > part[v] => part[u] = part[v] + 1 /\ arrived[v]
    BY DEF Bc4InStep, Bc4TypeOK
  <2>1. CASE u # t /\ v # t
    BY <1>1, <2>0, <2>1 DEF Bc4TypeOK
  <2>2. CASE u = t /\ v # t
    <3>1. part'[t] = part[t] + 1 /\ part'[v] = part[v] /\ arrived'[v] = arrived[v]
      BY <1>1, <2>2 DEF Bc4TypeOK
    <3>2. part[v] > part[t] \/ (part[v] = part[t] /\ arrived[v])
      BY <1>1
    <3> QED
      BY <2>0, <2>2, <3>1, <3>2
  <2>3. CASE v = t /\ u # t
    <3>1. part'[t] = part[t] + 1 /\ part'[u] = part[u]
      BY <1>1, <2>3 DEF Bc4TypeOK
    <3> QED
      BY <2>0, <2>3, <3>1
  <2>4. CASE u = t /\ v = t
    <3>1. part'[t] \in 0 .. 2
      BY <1>2 DEF Bc4TypeOK
    <3> QED
      BY <2>4, <3>1
  <2> QED
    BY <2>1, <2>2, <2>3, <2>4
<1>5. pending[t] = <<>>
  BY <1>1 DEF PendingIsUnmerged
<1>6. ASSUME NEW u \in Thread
      PROVE  /\ ExtremesAreShared(u)' /\ PendingIsUnmerged(u)' /\ ExtremesAreKnown(u)'
             /\ Merged(u)' = Merged(u)
  <2>1. (Passed(u, 0)' <=> Passed(u, 0)) /\ (Passed(u, 1)' <=> Passed(u, 1))
    BY <1>3
  <2>2. PendingIsUnmerged(u)'
    <3>1. u # t => part'[u] = part[u] /\ arrived'[u] = arrived[u]
      BY <1>1 DEF Bc4TypeOK
    <3> QED
      BY <1>1, <1>5, <3>1, ImageIsFixed DEF PendingIsUnmerged
  <2>3. ExtremesAreShared(u)' /\ ExtremesAreKnown(u)'
    BY <1>1, <2>1, ImageIsFixed DEF ExtremesAreShared, ExtremesAreKnown
  <2>4. Merged(u)' = Merged(u)
    <3>1. CASE u # t
      <4>1. part'[u] = part[u]
        BY <1>1, <3>1 DEF Bc4TypeOK
      <4> QED
        BY <1>1, <2>1, <4>1, ImageIsFixed DEF Merged
    <3>2. CASE u = t /\ part[t] = 0
      <4>1. part'[t] # 0 /\ ~Passed(t, 1) /\ Len(pending[t]) # 1
        BY <1>1, <1>5, <3>2 DEF Passed, Bc4TypeOK
      <4>2. Merged(t)' = {} /\ Merged(t) = {}
        BY <1>1, <2>1, <3>2, <4>1 DEF Merged
      <4> QED
        BY <3>2, <4>2
    <3>3. CASE u = t /\ part[t] = 1
      <4>1. part'[t] # 0 /\ Passed(t, 1)
        BY <1>1, <3>3 DEF Passed, Bc4TypeOK
      <4>2. Merged(t)' = BitsOfRow(t)' /\ Merged(t) = BitsOfRow(t)
        BY <1>1, <2>1, <3>3, <4>1 DEF Merged
      <4> QED
        BY <1>1, <3>3, <4>2, ImageIsFixed
    <3> QED
      BY <1>1, <3>1, <3>2, <3>3
  <2> QED
    BY <2>2, <2>3, <2>4
<1>7. MaskIsMerged'
  <2>1. {Merged(u) : u \in Thread}' = {Merged(u) : u \in Thread}
    BY <1>6
  <2>2. \A u \in Thread : Passed(u, 0)' <=> Passed(u, 0)
    BY <1>3
  <2> QED
    BY <1>1, <2>1, <2>2 DEF MaskIsMerged
<1>8. OutputIsWhole'
  <2>1. {BitsOfRow(u) : u \in Thread}' = {BitsOfRow(u) : u \in Thread}
    BY <1>1, ImageIsFixed
  <2>2. Passed(0, 2)' <=> Passed(0, 2)
    BY <1>3 DEF Thread
  <2> QED
    BY <1>1, <2>1, <2>2, ImageIsFixed DEF OutputIsWhole
<1> QED
  BY <1>2, <1>4, <1>6, <1>7, <1>8

(* Once all have loaded, the mask of a block is exactly what its threads   *)
(* have merged, and what is stored is all of it (the barriers and the two  *)
(* atomicOr of bc4.glsl).                                                  *)
THEOREM MaskIsOfTheBlock == Spec => []Bc4Invariant
<1>1. ASSUME Bc4Invariant, UNCHANGED vars
      PROVE  Bc4Invariant'
  <2> USE <1>1 DEF vars
  <2>1. \A u \in Thread : /\ ExtremesAreShared(u)' /\ PendingIsUnmerged(u)' /\ ExtremesAreKnown(u)'
                          /\ Merged(u)' = Merged(u) /\ (Passed(u, 0)' <=> Passed(u, 0))
    BY ImageIsFixed
       DEF Bc4Invariant, ExtremesAreShared, PendingIsUnmerged, ExtremesAreKnown, Merged, Passed
  <2>2. {Merged(u) : u \in Thread}' = {Merged(u) : u \in Thread}
    BY <2>1
  <2>3. {BitsOfRow(u) : u \in Thread}' = {BitsOfRow(u) : u \in Thread}
    BY ImageIsFixed
  <2>4. Bc4TypeOK' /\ Bc4InStep'
    BY DEF Bc4Invariant, Bc4TypeOK, Bc4InStep
  <2>5. MaskIsMerged'
    BY <2>1, <2>2 DEF Bc4Invariant, MaskIsMerged
  <2>6. OutputIsWhole'
    BY <2>3, ImageIsFixed DEF Bc4Invariant, OutputIsWhole, Passed
  <2> QED
    BY <2>1, <2>4, <2>5, <2>6 DEF Bc4Invariant
<1>2. ASSUME Bc4Invariant, [Next]_vars
      PROVE  Bc4Invariant'
  BY <1>1, <1>2, LoadKeeps, SelectKeeps, MergeKeeps, StoreKeeps, PassBarrierKeeps
     DEF Next, Terminating
<1> QED
  BY <1>2, InitHoldsInvariant, PTL DEF Spec

-----------------------------------------------------------------------------
(* What the decoder reads back.                                            *)

(* The three bits of a pixel spell its index, whatever else is in the      *)
(* mask, as nothing else has them.                                         *)
LEMMA IndexIsRead ==
  ASSUME image \in [Pixel -> 0 .. 255], NEW b,
         b.bits = UNION {BitsOfRow(u) : u \in Thread}, NEW p \in Pixel
  PROVE  IndexOf(b, p) = index(Lo, Hi, image[p])
<1> DEFINE Ind(q) == index(Lo, Hi, image[q])
<1>1. \A q \in Pixel : Ind(q) \in 0 .. 7
  BY BlockExtremes, IndexRange
<1> HIDE DEF Ind
<1>2. \A n : n \in b.bits <=> \E q \in Pixel : n \in bitsOf(q, Ind(q))
  <2>1. \A n : n \in b.bits <=> \E u \in Thread : \E q \in PixelsOf(u) : n \in bitsOf(q, Ind(q))
    BY DEF BitsOfRow, Ind
  <2> QED
    BY <2>1, PixelsByRow
<1>3. ASSUME NEW i \in 0 .. 2
      PROVE  16 + 3 * p + i \in b.bits <=> (Ind(p) \div weight[i + 1]) % 2 = 1
  <2>1. ASSUME NEW q \in Pixel
        PROVE  16 + 3 * p + i \in bitsOf(q, Ind(q)) <=> q = p /\ (Ind(q) \div weight[i + 1]) % 2 = 1
    <3>1. 16 + 3 * p + i \in bitsOf(q, Ind(q)) <=>
            \E j \in 0 .. 2 : (Ind(q) \div weight[j + 1]) % 2 = 1 /\ 16 + 3 * p + i = 16 + 3 * q + j
      BY DEF bitsOf
    <3>2. \A j \in 0 .. 2 : 16 + 3 * p + i = 16 + 3 * q + j <=> q = p /\ j = i
      BY DEF Pixel
    <3> QED
      BY <3>1, <3>2
  <2> QED
    BY <1>2, <2>1
<1>4. weight[1] = 1 /\ weight[2] = 2 /\ weight[3] = 4
  BY DEF weight
<1>5. IndexOf(b, p) = (Ind(p) % 2) + 2 * ((Ind(p) \div 2) % 2) + 4 * ((Ind(p) \div 4) % 2)
  <2> DEFINE bit(i) == IF 16 + 3 * p + i \in b.bits THEN weight[i + 1] ELSE 0
  <2>1. bit(0) = Ind(p) % 2
    <3>1. 16 + 3 * p + 0 \in b.bits <=> (Ind(p) \div 1) % 2 = 1
      BY <1>3, <1>4
    <3>2. Ind(p) \div 1 = Ind(p) /\ Ind(p) % 2 \in {0, 1}
      BY <1>1
    <3> QED
      BY <1>4, <3>1, <3>2
  <2>2. bit(1) = 2 * ((Ind(p) \div 2) % 2)
    <3>1. 16 + 3 * p + 1 \in b.bits <=> (Ind(p) \div 2) % 2 = 1
      BY <1>3, <1>4
    <3>2. (Ind(p) \div 2) % 2 \in {0, 1}
      BY <1>1
    <3> QED
      BY <1>4, <3>1, <3>2
  <2>3. bit(2) = 4 * ((Ind(p) \div 4) % 2)
    <3>1. 16 + 3 * p + 2 \in b.bits <=> (Ind(p) \div 4) % 2 = 1
      BY <1>3, <1>4
    <3>2. (Ind(p) \div 4) % 2 \in {0, 1}
      BY <1>1
    <3> QED
      BY <1>4, <3>1, <3>2
  <2>4. IndexOf(b, p) = bit(0) + bit(1) + bit(2)
    BY DEF IndexOf
  <2> HIDE DEF bit
  <2> QED
    BY <2>1, <2>2, <2>3, <2>4
<1> QED
  BY <1>1, <1>5 DEF Ind

(* The place of an index between the extremes, from the minimum.           *)
ScaleAt(n) == IF n = 1 THEN 0 ELSE IF n = 0 THEN 7 ELSE 8 - n

MeansScale(n, s) == s \in 0 .. 7 /\ n \in 0 .. 7 /\ ScaleAt(n) = s /\ (s = 0 => n = 1) /\ (s = 7 => n = 0)

(* A decoder finds at an index the palette entry of its scale.             *)
LEMMA IndexMeansScale ==
  ASSUME NEW lo \in 0 .. 255, NEW hi \in 0 .. 255, NEW v \in 0 .. 255, lo <= v, v <= hi
  PROVE  MeansScale(index(lo, hi, v), scale(lo, hi, v))
<1> DEFINE s == scale(lo, hi, v)
           n == index(lo, hi, v)
<1>1. s \in 0 .. 7
  BY ScaleRange
<1>2. n = CASE s = 0 -> 1 [] s = 7 -> 0 [] OTHER -> 8 - s
  BY <1>1, IndexOfScale
<1> HIDE DEF s, n
<1>3. /\ n \in 0 .. 7 /\ ScaleAt(n) = s
      /\ s = 0 => n = 1
      /\ s = 7 => n = 0
  BY <1>1, <1>2 DEF ScaleAt
<1> QED
  BY <1>1, <1>3 DEF MeansScale, s, n

(* The eight values of a range are its steps.                              *)
LEMMA PaletteOfEight ==
  ASSUME NEW lo \in 0 .. 255, NEW hi \in 0 .. 255, lo < hi, NEW n \in 0 .. 7
  PROVE  ScaleAt(n) \in 0 .. 7 /\ Palette(hi, lo)[n] = lo + Step(hi - lo, ScaleAt(n))
<1>1. Palette(hi, lo)[n] =
        CASE n = 0 -> hi
          [] n = 1 -> lo
          [] n > 1 /\ hi > lo -> ((8 - n) * hi + (n - 1) * lo) \div 7
          [] n \in 2 .. 5 /\ hi <= lo -> ((6 - n) * hi + (n - 1) * lo) \div 5
          [] n = 6 /\ hi <= lo -> Lowest
          [] n = 7 /\ hi <= lo -> Highest
  BY DEF Palette
<1>2. CASE n = 0
  <2>1. Palette(hi, lo)[n] = hi
    BY <1>1, <1>2
  <2> QED
    BY <1>2, <2>1 DEF ScaleAt, Step
<1>3. CASE n = 1
  <2>1. Palette(hi, lo)[n] = lo
    BY <1>1, <1>3
  <2> QED
    BY <1>3, <2>1 DEF ScaleAt, Step
<1>4. CASE n > 1
  <2>1. Palette(hi, lo)[n] = ((8 - n) * hi + (n - 1) * lo) \div 7
    <3>1. hi > lo /\ ~(hi <= lo) /\ n # 0 /\ n # 1
      BY <1>4
    <3> QED
      BY <1>1, <1>4, <3>1
  <2>2. ScaleAt(n) = 8 - n /\ Step(hi - lo, 8 - n) = ((8 - n) * (hi - lo)) \div 7
    BY <1>4 DEF ScaleAt, Step
  <2>3. n \in {2, 3, 4, 5, 6, 7}
    BY <1>4
  <2>4. ((8 - n) * hi + (n - 1) * lo) \div 7 = lo + ((8 - n) * (hi - lo)) \div 7
    BY <2>3
  <2> QED
    BY <1>4, <2>1, <2>2, <2>4
<1> QED
  BY <1>2, <1>3, <1>4

(* A block of one value has equal endpoints, and index 1 is the value.     *)
LEMMA PaletteOfOneValue ==
  ASSUME NEW v \in 0 .. 255, NEW n \in 0 .. 7
  PROVE  Palette(v, v)[1] = v /\ Palette(v, v)[n] \in Int
<1>1. n \in {0, 1, 2, 3, 4, 5, 6, 7}
  OBVIOUS
<1>2. Lowest \in Int /\ Highest \in Int
  BY DEF Lowest, Highest
<1>3. Palette(v, v)[0] = v /\ Palette(v, v)[1] = v
  BY DEF Palette
<1>4. CASE n \in {2, 3, 4, 5}
  <2>1. Palette(v, v)[n] = ((6 - n) * v + (n - 1) * v) \div 5
    BY <1>4 DEF Palette
  <2>2. (6 - n) * v + (n - 1) * v \in Int
    BY <1>4
  <2> QED
    BY <1>3, <2>1, <2>2
<1>5. CASE n = 6
  BY <1>2, <1>3, <1>5 DEF Palette
<1>6. CASE n = 7
  BY <1>2, <1>3, <1>6 DEF Palette
<1> QED
  BY <1>1, <1>3, <1>4, <1>5, <1>6

(* What the invariant says of a block that was stored.                     *)
LEMMA StoredBlock ==
  ASSUME Bc4Invariant, NEW b \in outputBytes
  PROVE  /\ b.c0 = endpoint(Hi) /\ b.c1 = endpoint(Lo)
         /\ \A p \in Pixel : IndexOf(b, p) = index(Lo, Hi, image[p])
         /\ image \in [Pixel -> 0 .. 255] /\ Lo \in 0 .. 255 /\ Hi \in 0 .. 255
         /\ \A p \in Pixel : image[p] \in 0 .. 255 /\ Lo <= image[p] /\ image[p] <= Hi
<1>1. image \in [Pixel -> 0 .. 255]
  BY DEF Bc4Invariant, Bc4TypeOK
<1>2. b = [c0 |-> endpoint(Hi), c1 |-> endpoint(Lo), bits |-> UNION {BitsOfRow(u) : u \in Thread}]
  BY DEF Bc4Invariant, OutputIsWhole
<1>3. /\ b.c0 = endpoint(Hi) /\ b.c1 = endpoint(Lo)
      /\ b.bits = UNION {BitsOfRow(u) : u \in Thread}
  BY <1>2
<1> QED
  BY <1>1, <1>3, BlockExtremes, IndexIsRead

(* The block is stored once and holds the index each thread chose for each *)
(* of its pixels, for every block.                                         *)
THEOREM BlockHoldsItsIndices == Spec => []IndicesAreMerged
<1>1. ASSUME Bc4Invariant PROVE IndicesAreMerged
  <2>1. \A b \in outputBytes : \A p \in Pixel : IndexOf(b, p) = index(Lo, Hi, image[p])
    BY <1>1, StoredBlock
  <2>2. Done => \E b \in outputBytes : outputBytes = {b}
    <3>1. Done => Passed(0, 2)
      BY DEF Done, Passed, Thread
    <3>2. \A b, c \in outputBytes : b = c
      BY <1>1 DEF Bc4Invariant, OutputIsWhole
    <3>3. Passed(0, 2) => outputBytes # {}
      BY <1>1 DEF Bc4Invariant, OutputIsWhole
    <3> QED
      BY <3>1, <3>2, <3>3
  <2> QED
    BY <2>1, <2>2 DEF IndicesAreMerged, Lo, Hi
<1> QED
  BY <1>1, MaskIsOfTheBlock, PTL

(* For every block of unsigned values, no other index of a pixel is nearer *)
(* to its value in the palette of the block's extremes.                    *)
THEOREM BlockIsOptimal == Spec => []IndicesAreOptimal
<1>1. ASSUME Bc4Invariant PROVE IndicesAreOptimal
  <2> SUFFICES ASSUME useSNorm = FALSE, NEW b \in outputBytes, NEW p \in Pixel, NEW i \in 0 .. 7
               PROVE  Distance(Palette(b.c0, b.c1)[IndexOf(b, p)], image[p])
                        <= Distance(Palette(b.c0, b.c1)[i], image[p])
    <3>1. useSNorm \in BOOLEAN
      BY <1>1 DEF Bc4Invariant, Bc4TypeOK
    <3> QED
      BY <3>1 DEF IndicesAreOptimal
  <2> DEFINE v == image[p]
             d == Hi - Lo
             x == v - Lo
             s == scale(Lo, Hi, v)
             palette == Palette(b.c0, b.c1)
  <2>1. /\ b.c0 = Hi /\ b.c1 = Lo /\ IndexOf(b, p) = index(Lo, Hi, v)
        /\ Lo \in 0 .. 255 /\ Hi \in 0 .. 255 /\ v \in 0 .. 255 /\ Lo <= v /\ v <= Hi
    BY <1>1, StoredBlock DEF endpoint
  <2> HIDE DEF v
  <2>2. /\ s \in 0 .. 7 /\ IndexOf(b, p) \in 0 .. 7 /\ ScaleAt(IndexOf(b, p)) = s
        /\ s = 0 => IndexOf(b, p) = 1
    <3> DEFINE n == index(Lo, Hi, v)
    <3>4. Lo \in 0 .. 255 /\ Hi \in 0 .. 255 /\ v \in 0 .. 255 /\ Lo <= v /\ v <= Hi
      BY <2>1
    <3>1. MeansScale(n, s)
      BY <3>4, IndexMeansScale, Zenon
    <3>2. IndexOf(b, p) = n
      BY <2>1
    <3> HIDE DEF s, n
    <3> QED
      BY <3>1, <3>2 DEF MeansScale
  <2> HIDE DEF s
  <2>3. CASE Lo = Hi
    <3>1. s = 0 /\ v = Lo
      <4>1. v = Lo
        BY <2>1, <2>3
      <4> QED
        BY <2>1, <2>3, <4>1, ScaleOfOneValue DEF s
    <3>2. palette[IndexOf(b, p)] = v /\ palette[i] \in Int
      BY <2>1, <2>2, <2>3, <3>1, PaletteOfOneValue
    <3> HIDE DEF palette
    <3>3. /\ Distance(palette[IndexOf(b, p)], v) = 0
          /\ Distance(palette[i], v) >= 0 /\ Distance(palette[i], v) \in Int
      BY <2>1, <3>2 DEF Distance
    <3> QED
      BY <3>3 DEF palette, v
  <2>4. CASE Lo < Hi
    <3>1. d \in 1 .. 255 /\ x \in 0 .. d
      BY <2>1, <2>4
    <3>2. HasScale(d, x, s)
      BY <2>1, <2>4, ScaleIsQuotient DEF s
    <3>3. /\ palette[IndexOf(b, p)] = Lo + Step(d, s)
          /\ palette[i] = Lo + Step(d, ScaleAt(i)) /\ ScaleAt(i) \in 0 .. 7
      <4>1. ASSUME NEW n \in 0 .. 7
            PROVE  ScaleAt(n) \in 0 .. 7 /\ Palette(Hi, Lo)[n] = Lo + Step(Hi - Lo, ScaleAt(n))
        <5>1. Lo \in 0 .. 255 /\ Hi \in 0 .. 255 /\ Lo < Hi
          BY <2>1, <2>4
        <5>2. ScaleAt(n) \in 0 .. 7
          BY <5>1, PaletteOfEight, Zenon
        <5>3. Palette(Hi, Lo)[n] = Lo + Step(Hi - Lo, ScaleAt(n))
          BY <5>1, PaletteOfEight, Zenon
        <5> QED
          BY <5>2, <5>3
      <4> QED
        BY <2>1, <2>2, <4>1
    <3> HIDE DEF palette, d, x
    <3>4. Distance(Step(d, s), x) <= Distance(Step(d, ScaleAt(i)), x)
      BY <2>2, <3>1, <3>2, <3>3, NearestStep
    <3>5. Step(d, s) \in Int /\ Step(d, ScaleAt(i)) \in Int
      BY <2>2, <3>1, <3>3 DEF Step
    <3>6. /\ Distance(palette[IndexOf(b, p)], v) = Distance(Step(d, s), x)
          /\ Distance(palette[i], v) = Distance(Step(d, ScaleAt(i)), x)
      BY <2>1, <3>3, <3>5 DEF Distance, x
    <3> QED
      BY <3>4, <3>6 DEF palette, v
  <2>5. Lo = Hi \/ Lo < Hi
    BY <2>1
  <2> QED
    BY <2>3, <2>4, <2>5
<1> QED
  BY <1>1, MaskIsOfTheBlock, PTL

(* For every block, signed or not, the order of the endpoints selects the  *)
(* palette the indices were chosen for.                                    *)
THEOREM BlockHasItsPalette == Spec => []PaletteIsTheRightOne
<1>1. ASSUME Bc4Invariant PROVE PaletteIsTheRightOne
  <2> SUFFICES ASSUME NEW b \in outputBytes, NEW p \in Pixel, ~(b.c0 > b.c1)
               PROVE  IndexOf(b, p) \in {0, 1}
    BY DEF PaletteIsTheRightOne
  <2> DEFINE v == image[p]
             s == scale(Lo, Hi, v)
  <2>1. /\ b.c0 = endpoint(Hi) /\ b.c1 = endpoint(Lo) /\ IndexOf(b, p) = index(Lo, Hi, v)
        /\ Lo \in 0 .. 255 /\ Hi \in 0 .. 255 /\ v \in 0 .. 255 /\ Lo <= v /\ v <= Hi
    BY <1>1, StoredBlock
  <2>2. /\ s \in 0 .. 7
        /\ s = 0 => IndexOf(b, p) = 1
        /\ s = 7 => IndexOf(b, p) = 0
    <3> HIDE DEF v
    <3> DEFINE n == index(Lo, Hi, v)
    <3>1. Lo \in 0 .. 255 /\ Hi \in 0 .. 255 /\ v \in 0 .. 255 /\ Lo <= v /\ v <= Hi /\ IndexOf(b, p) = n
      BY <2>1
    <3>2. MeansScale(n, s)
      BY <3>1, IndexMeansScale, Zenon
    <3> HIDE DEF s, n
    <3> QED
      BY <3>1, <3>2 DEF MeansScale
  <2>3. Hi - Lo <= 1
    BY <2>1 DEF endpoint, packSnorm
  <2> HIDE DEF v
  <2>4. s \in {0, 7}
    <3>1. CASE Lo = Hi
      <4>1. v = Lo
        BY <2>1, <3>1
      <4> QED
        BY <2>1, <3>1, <4>1, ScaleOfOneValue
    <3>2. CASE Lo < Hi
      <4>1. Hi - Lo = 1 /\ v - Lo \in {0, 1}
        BY <2>1, <2>3, <3>2
      <4>2. HasScale(1, v - Lo, s)
        BY <2>1, <3>2, <4>1, ScaleIsQuotient
      <4> HIDE DEF s
      <4> QED
        BY <2>2, <4>1, <4>2 DEF HasScale
    <3> QED
      BY <2>1, <3>1, <3>2
  <2> HIDE DEF s
  <2> QED
    BY <2>2, <2>4
<1> QED
  BY <1>1, MaskIsOfTheBlock, PTL

-----------------------------------------------------------------------------
(* dither555.glsl.                                                         *)

Colour == (0 .. 255) \X (0 .. 255) \X (0 .. 255)

Dither555TypeOK ==
  /\ srcTex \in [0 .. 15 -> Colour]
  /\ errors \in Seq(Int \X Int \X Int) /\ Len(errors) \in 0 .. 16
  /\ dstTexture \in Seq(Int \X Int \X Int)
  /\ equalSoFar \in BOOLEAN /\ finished \in BOOLEAN

SourceIsFiveBit == \A n \in 1 .. 16 : \A i \in 1 .. 3 : srcTex[n - 1][i] \in FiveBit

(* Until the copy at the end, what is stored is dithered.                  *)
Dithering ==
  /\ Len(dstTexture) = Len(errors)
  /\ \A n \in 1 .. Len(errors) : \A i \in 1 .. 3 :
       /\ dstTexture[n][i] \in FiveBit
       /\ SourceIsFiveBit => errors[n][i] = 0 /\ dstTexture[n][i] = srcTex[n - 1][i]

ColoursAreCompared == equalSoFar <=> \A n \in 0 .. Len(errors) - 1 : srcTex[n] = srcTex[0]

Copied == /\ Len(errors) = 16 /\ equalSoFar
          /\ dstTexture = [n \in 1 .. 16 |-> srcTex[n - 1]]

Dither555Invariant ==
  /\ Dither555TypeOK /\ ColoursAreCompared
  /\ finished => Len(errors) = 16
  /\ Dithering \/ (finished /\ Copied)
  /\ finished /\ equalSoFar => Copied

(* A colour of five bits is the one it is rounded to.                      *)
LEMMA QuantIsFiveBit ==
  ASSUME NEW v \in Int
  PROVE  quant555(v) \in FiveBit /\ quant555(v) \in Int /\ (v \in FiveBit => quant555(v) = v)
<1>1. Clamped(v, 255) \in 0 .. 255
  BY DEF Clamped
<1>2. (62 * Clamped(v, 255) + 255) \div 510 \in 0 .. 31
  BY <1>1
<1>3. quant555(v) \in FiveBit /\ quant555(v) \in Int
  BY <1>2 DEF quant555, FiveBit
<1>4. ASSUME v \in FiveBit PROVE quant555(v) = v
  <2>1. PICK w \in 0 .. 31 : v = (w * 33) \div 4
    BY <1>4 DEF FiveBit
  <2>2. v \in 0 .. 255 /\ 4 * v <= 33 * w /\ 33 * w < 4 * v + 4
    BY <2>1
  <2>3. Clamped(v, 255) = v
    BY <2>2 DEF Clamped
  <2>4. (62 * v + 255) \div 510 = w
    BY <2>2
  <2> QED
    BY <2>1, <2>3, <2>4 DEF quant555
<1> QED
  BY <1>3, <1>4

(* Errors are integers, and what none are is carried as none.              *)
LEMMA CarriedError ==
  ASSUME NEW k \in 0 .. 15, NEW e \in [1 .. k -> Int]
  PROVE  /\ Carried(e, k) \in Int /\ Truncated(Carried(e, k), 16) \in Int
         /\ (\A n \in 1 .. k : e[n] = 0) => Truncated(Carried(e, k), 16) = 0
<1> DEFINE left == IF k % 4 > 0 THEN 7 * e[k] ELSE 0
           above == IF k < 4 THEN 0 ELSE 5 * e[k - 3]
           right == IF k < 4 \/ ~(k % 4 < 3) THEN 0 ELSE 3 * e[k - 2]
           corner == IF k < 4 \/ ~(k % 4 > 0) THEN 0 ELSE e[k - 4]
<1>1. left \in Int /\ ((\A n \in 1 .. k : e[n] = 0) => left = 0)
  <2>1. k % 4 > 0 => k \in 1 .. k
    OBVIOUS
  <2> QED
    BY <2>1
<1>2. above \in Int /\ ((\A n \in 1 .. k : e[n] = 0) => above = 0)
  <2>1. ~(k < 4) => k - 3 \in 1 .. k
    OBVIOUS
  <2> QED
    BY <2>1
<1>3. right \in Int /\ ((\A n \in 1 .. k : e[n] = 0) => right = 0)
  <2>1. ~(k < 4) => k - 2 \in 1 .. k
    OBVIOUS
  <2> QED
    BY <2>1
<1>4. corner \in Int /\ ((\A n \in 1 .. k : e[n] = 0) => corner = 0)
  <2>1. ~(k < 4) /\ k % 4 > 0 => k - 4 \in 1 .. k
    OBVIOUS
  <2> QED
    BY <2>1
<1>5. Carried(e, k) = left + (above + right + corner)
  <2>1. CASE k < 4
    BY <1>1, <2>1 DEF Carried
  <2>2. CASE ~(k < 4)
    BY <1>1, <1>2, <1>3, <1>4, <2>2 DEF Carried
  <2> QED
    BY <2>1, <2>2
<1> HIDE DEF left, above, right, corner
<1>6. Carried(e, k) \in Int /\ ((\A n \in 1 .. k : e[n] = 0) => Carried(e, k) = 0)
  BY <1>1, <1>2, <1>3, <1>4, <1>5
<1>7. ASSUME NEW c \in Int PROVE Truncated(c, 16) \in Int
  BY DEF Truncated
<1>8. Truncated(0, 16) = 0
  BY DEF Truncated
<1> QED
  BY <1>6, <1>7, <1>8

(* The components of a colour are integers.                                *)
LEMMA ColoursAreIntegers == Colour \subseteq Int \X Int \X Int
  BY DEF Colour

(* The invariant holds before the first texel.                             *)
LEMMA Dither555Starts == Dither555Init => Dither555Invariant
<1> SUFFICES ASSUME Dither555Init PROVE Dither555Invariant
  OBVIOUS
<1>1. /\ srcTex \in [0 .. 15 -> Colour] /\ errors = <<>> /\ dstTexture = <<>>
      /\ equalSoFar = TRUE /\ finished = FALSE
  BY Dither555Assumption DEF Dither555Init, Colour
<1>2. Len(errors) = 0 /\ Len(dstTexture) = 0 /\ 0 \in 0 .. 16
  BY <1>1
<1>3. Dither555TypeOK
  <2>1. <<>> \in Seq(Int \X Int \X Int)
    OBVIOUS
  <2>2. Len(errors) \in 0 .. 16
    BY <1>2
  <2> QED
    BY <1>1, <2>1, <2>2 DEF Dither555TypeOK
<1> QED
  BY <1>1, <1>2, <1>3 DEF Dither555Invariant, ColoursAreCompared, Dithering

(* Each texel is dithered to five bits with what the others carry to it,   *)
(* and where none had an error it keeps its colour.                        *)
LEMMA DitherTexelKeeps ==
  ASSUME Dither555Invariant, DitherTexel
  PROVE  Dither555Invariant'
<1> USE DEF Dither555Invariant
<1> DEFINE k == Len(errors)
           carried(i) == Truncated(Carried([n \in 1 .. k |-> errors[n][i]], k), 16)
           value(i) == quant555(srcTex[k][i] + carried(i))
           error(i) == srcTex[k][i] - value(i)
           newError == <<error(1), error(2), error(3)>>
           newColour == <<value(1), value(2), value(3)>>
<1>1. /\ k < 16 /\ errors' = Append(errors, newError) /\ dstTexture' = Append(dstTexture, newColour)
      /\ equalSoFar' = (equalSoFar /\ srcTex[k] = srcTex[0])
      /\ UNCHANGED <<srcTex, finished>>
  BY DEF DitherTexel, LoadedColour, StillEqual
<1>2. k \in 0 .. 15 /\ finished = FALSE /\ Dithering
  <2>1. k \in 0 .. 16
    BY DEF Dither555TypeOK
  <2> HIDE DEF k
  <2>2. k \in 0 .. 15 /\ k # 16
    BY <1>1, <2>1
  <2>3. ~finished /\ finished \in BOOLEAN
    BY <2>2 DEF Dither555TypeOK, k
  <2> QED
    BY <2>2, <2>3
<1>3. ASSUME NEW i \in 1 .. 3
      PROVE  /\ value(i) \in FiveBit /\ value(i) \in Int /\ error(i) \in Int
             /\ SourceIsFiveBit => error(i) = 0 /\ value(i) = srcTex[k][i]
  <2> DEFINE e == [n \in 1 .. k |-> errors[n][i]]
  <2>1. e \in [1 .. k -> Int]
    <3>1. \A n \in 1 .. k : errors[n] \in Int \X Int \X Int
      BY DEF Dither555TypeOK
    <3> HIDE DEF k
    <3>2. \A n \in 1 .. k : errors[n][i] \in Int
      BY <3>1
    <3> QED
      BY <3>2
  <2>2. SourceIsFiveBit => \A n \in 1 .. k : e[n] = 0
    BY <1>2 DEF Dithering
  <2>3. srcTex[k][i] \in Int
    <3>1. srcTex[k] \in Colour
      BY <1>2 DEF Dither555TypeOK
    <3>2. \A c \in Colour : c[i] \in Int
      BY DEF Colour
    <3> HIDE DEF k
    <3> QED
      BY <3>1, <3>2
  <2>4. SourceIsFiveBit => srcTex[k][i] \in FiveBit
    <3> HIDE DEF k
    <3>1. k + 1 \in 1 .. 16 /\ (k + 1) - 1 = k
      BY <1>2
    <3> QED
      BY <3>1 DEF SourceIsFiveBit
  <2> DEFINE c == carried(i)
  <2> HIDE DEF e
  <2>5. c \in Int /\ (SourceIsFiveBit => c = 0)
    BY <1>2, <2>1, <2>2, CarriedError DEF e
  <2> HIDE DEF c, carried, k
  <2>6. srcTex[k][i] + c \in Int /\ (SourceIsFiveBit => srcTex[k][i] + c = srcTex[k][i])
    BY <2>3, <2>5
  <2>7. /\ value(i) \in FiveBit /\ value(i) \in Int
        /\ SourceIsFiveBit => value(i) = srcTex[k][i]
    BY <2>4, <2>6, QuantIsFiveBit DEF c
  <2> HIDE DEF value
  <2> QED
    BY <2>3, <2>7
<1> HIDE DEF value, error, carried
<1>4. newError \in Int \X Int \X Int /\ newColour \in Int \X Int \X Int
  BY <1>3
<1>5. \A i \in 1 .. 3 : newError[i] = error(i) /\ newColour[i] = value(i)
  OBVIOUS
<1> HIDE DEF newError, newColour
<1>6. Len(dstTexture) = k
  BY <1>2 DEF Dithering
<1>7. /\ Len(errors') = k + 1 /\ errors'[k + 1] = newError
      /\ \A n \in 1 .. k : errors'[n] = errors[n]
  BY <1>1, <1>4 DEF Dither555TypeOK
<1>8. /\ Len(dstTexture') = k + 1 /\ dstTexture'[k + 1] = newColour
      /\ \A n \in 1 .. k : dstTexture'[n] = dstTexture[n]
  <2>1. dstTexture \in Seq(Int \X Int \X Int)
    BY DEF Dither555TypeOK
  <2> HIDE DEF k
  <2> QED
    BY <1>1, <1>4, <1>6, <2>1
<1> HIDE DEF k
<1>9. Dither555TypeOK'
  <2>1. k + 1 \in 0 .. 16
    BY <1>2
  <2> QED
    BY <1>1, <1>4, <1>7, <2>1 DEF Dither555TypeOK, k
<1>10. SourceIsFiveBit' <=> SourceIsFiveBit
  BY <1>1 DEF SourceIsFiveBit
<1>11. Dithering'
  <2>1. ASSUME NEW n \in 1 .. k + 1, NEW i \in 1 .. 3
        PROVE  /\ dstTexture'[n][i] \in FiveBit
               /\ SourceIsFiveBit => errors'[n][i] = 0 /\ dstTexture'[n][i] = srcTex[n - 1][i]
    <3>1. CASE n \in 1 .. k
      <4>1. errors'[n] = errors[n] /\ dstTexture'[n] = dstTexture[n]
        BY <1>7, <1>8, <3>1
      <4> QED
        BY <1>2, <3>1, <4>1 DEF Dithering, k
    <3>2. CASE n = k + 1
      <4>1. n - 1 = k
        BY <1>2, <3>2
      <4> QED
        BY <1>3, <1>5, <1>7, <1>8, <3>2, <4>1
    <3> QED
      BY <1>2, <3>1, <3>2
  <2> QED
    BY <1>1, <1>7, <1>8, <1>10, <2>1 DEF Dithering
<1>12. ColoursAreCompared'
  <2>1. \A n \in 0 .. (k + 1) - 1 : n \in 0 .. k - 1 \/ n = k
    BY <1>2
  <2>2. k \in 0 .. (k + 1) - 1 /\ 0 .. k - 1 \subseteq 0 .. (k + 1) - 1
    BY <1>2
  <2> QED
    BY <1>1, <1>7, <2>1, <2>2 DEF ColoursAreCompared, Dither555TypeOK, k
<1> QED
  BY <1>1, <1>2, <1>9, <1>11, <1>12

(* The copy at the end is made only if all texels were compared and        *)
(* equal.                                                                  *)
LEMMA CopyKeeps ==
  ASSUME Dither555Invariant, RawCopy \/ KeepDithered
  PROVE  Dither555Invariant'
<1> USE DEF Dither555Invariant
<1>1. ColoursAreCompared'
  BY DEF RawCopy, KeepDithered, ColoursAreCompared
<1>2. CASE RawCopy
  <2>1. /\ Len(errors) = 16 /\ equalSoFar /\ finished' = TRUE
        /\ dstTexture' = [n \in 1 .. 16 |-> srcTex[n - 1]]
        /\ UNCHANGED <<srcTex, errors, equalSoFar>>
    BY <1>2 DEF RawCopy
  <2>2. Copied'
    BY <2>1 DEF Copied
  <2>3. dstTexture' \in Seq(Int \X Int \X Int)
    <3>1. \A n \in 1 .. 16 : srcTex[n - 1] \in Int \X Int \X Int
      <4>1. \A n \in 1 .. 16 : srcTex[n - 1] \in Colour
        BY DEF Dither555TypeOK
      <4> QED
        BY <4>1, ColoursAreIntegers
    <3> QED
      BY <2>1, <3>1
  <2> QED
    BY <1>1, <2>1, <2>2, <2>3 DEF Dither555TypeOK
<1>3. CASE KeepDithered
  <2>1. /\ Len(errors) = 16 /\ ~equalSoFar /\ ~finished /\ finished' = TRUE
        /\ UNCHANGED <<srcTex, dstTexture, errors, equalSoFar>>
    BY <1>3 DEF KeepDithered
  <2>2. SourceIsFiveBit' <=> SourceIsFiveBit
    BY <2>1 DEF SourceIsFiveBit
  <2>3. Dithering'
    BY <2>1, <2>2 DEF Dithering
  <2> QED
    BY <1>1, <2>1, <2>3 DEF Dither555TypeOK
<1> QED
  BY <1>2, <1>3

(* What is stored is dithered texel by texel or, in the end, copied as a   *)
(* whole (main of dither555.glsl).                                         *)
THEOREM DitherIsInvariant == Dither555Spec => []Dither555Invariant
<1>1. ASSUME Dither555Invariant, UNCHANGED dither555Vars
      PROVE  Dither555Invariant'
  BY <1>1
     DEF dither555Vars, Dither555Invariant, Dither555TypeOK, ColoursAreCompared, Dithering, Copied,
         SourceIsFiveBit
<1>2. ASSUME Dither555Invariant, [Dither555Next]_dither555Vars
      PROVE  Dither555Invariant'
  BY <1>1, <1>2, DitherTexelKeeps, CopyKeeps DEF Dither555Next
<1> QED
  BY <1>2, Dither555Starts, PTL DEF Dither555Spec

(* For every block, the ETC1 search gets colours of five bits only, or a   *)
(* block of one colour just as it is.                                      *)
THEOREM SearchGetsFiveBits == Dither555Spec => []FiveBitsOrFlat
<1>1. ASSUME Dither555Invariant PROVE FiveBitsOrFlat
  <2> SUFFICES ASSUME finished PROVE FiveBitsOrFlat!2
    BY DEF FiveBitsOrFlat
  <2>1. Len(errors) = 16
    BY <1>1 DEF Dither555Invariant
  <2>2. equalSoFar <=> \A n \in 0 .. 15 : srcTex[n] = srcTex[0]
    BY <1>1, <2>1 DEF Dither555Invariant, ColoursAreCompared
  <2>3. CASE equalSoFar
    BY <1>1, <2>2, <2>3 DEF Dither555Invariant, Copied
  <2>4. CASE ~equalSoFar
    <3>1. PICK n \in 0 .. 15 : srcTex[n] # srcTex[0]
      BY <2>2, <2>4
    <3>2. n + 1 \in 1 .. 16 /\ (n + 1) - 1 = n
      OBVIOUS
    <3>3. Dithering
      BY <1>1, <2>4 DEF Dither555Invariant, Copied
    <3> QED
      BY <2>1, <3>1, <3>2, <3>3 DEF Dithering
  <2> QED
    BY <2>3, <2>4
<1> QED
  BY <1>1, DitherIsInvariant, PTL

(* For every block of five-bit colours, each texel stored so far is the    *)
(* one that was loaded.                                                    *)
THEOREM NothingToDither == Dither555Spec => []FiveBitIsKept
<1>1. ASSUME Dither555Invariant PROVE FiveBitIsKept
  <2> SUFFICES ASSUME SourceIsFiveBit, NEW n \in 1 .. Len(dstTexture)
               PROVE  dstTexture[n] = srcTex[n - 1]
    BY DEF FiveBitIsKept, SourceIsFiveBit
  <2>1. CASE Copied
    BY <2>1 DEF Copied
  <2>2. CASE Dithering
    <3>0. Dither555TypeOK /\ Len(dstTexture) = Len(errors)
      BY <1>1, <2>2 DEF Dithering, Dither555Invariant
    <3>1. n \in 1 .. Len(errors) /\ n - 1 \in 0 .. 15
      <4> DEFINE k == Len(errors)
      <4>1. k \in 0 .. 16 /\ n \in 1 .. k
        BY <3>0 DEF Dither555TypeOK
      <4> HIDE DEF k
      <4>2. n - 1 \in 0 .. 15
        BY <4>1
      <4> QED
        BY <4>1, <4>2 DEF k
    <3>2. dstTexture[n] \in Int \X Int \X Int
      BY <3>0 DEF Dither555TypeOK
    <3>3. srcTex[n - 1] \in Int \X Int \X Int
      <4>1. srcTex[n - 1] \in Colour
        BY <3>0, <3>1 DEF Dither555TypeOK
      <4> QED
        BY <4>1, ColoursAreIntegers
    <3>4. \A i \in 1 .. 3 : dstTexture[n][i] = srcTex[n - 1][i]
      BY <2>2, <3>1 DEF Dithering
    <3>5. \A a, c \in Int \X Int \X Int : (\A i \in 1 .. 3 : a[i] = c[i]) => a = c
      OBVIOUS
    <3> QED
      BY <3>2, <3>3, <3>4, <3>5
  <2> QED
    BY <1>1, <2>1, <2>2 DEF Dither555Invariant
<1> QED
  BY <1>1, DitherIsInvariant, PTL

-----------------------------------------------------------------------------
(* bc1.glsl.                                                               *)

(* An endpoint.                                                            *)
Endpoint == (0 .. 31) \X (0 .. 63) \X (0 .. 31)

(* Endpoints expand to colours, and colours round to endpoints.            *)
LEMMA ExpandedIsColour ==
  ASSUME NEW c \in Endpoint
  PROVE  rgb565to888(c) \in Colour
<1>1. c[1] \in 0 .. 31 /\ c[2] \in 0 .. 63 /\ c[3] \in 0 .. 31
  BY DEF Endpoint
<1>2. (c[1] * 33) \div 4 \in 0 .. 255 /\ (c[2] * 65) \div 16 \in 0 .. 255 /\ (c[3] * 33) \div 4 \in 0 .. 255
  BY <1>1
<1> QED
  BY <1>2 DEF rgb565to888, Colour

(* Rounding stays in the range of the endpoints.                           *)
LEMMA RoundedIsEndpoint ==
  ASSUME NEW c \in Colour
  PROVE  rgb888to565(c) \in Endpoint
<1>1. c[1] \in 0 .. 255 /\ c[2] \in 0 .. 255 /\ c[3] \in 0 .. 255
  BY DEF Colour
<1>2. To565(1, c[1]) \in 0 .. 31 /\ To565(2, c[2]) \in 0 .. 63 /\ To565(3, c[3]) \in 0 .. 31
  BY <1>1 DEF To565, Levels
<1> QED
  BY <1>2 DEF rgb888to565, Vector, Endpoint

(* Endpoints are told apart by the numbers they are stored as.             *)
LEMMA EndpointsDiffer ==
  ASSUME NEW a \in Endpoint, NEW b \in Endpoint
  PROVE  /\ Packed565(a) \in Nat /\ Packed565(b) \in Nat
         /\ Packed565(a) = Packed565(b) => a = b
<1> DEFINE a1 == a[1]  a2 == a[2]  a3 == a[3]
           b1 == b[1]  b2 == b[2]  b3 == b[3]
<1>1. /\ a = <<a1, a2, a3>> /\ b = <<b1, b2, b3>>
      /\ a1 \in 0 .. 31 /\ a2 \in 0 .. 63 /\ a3 \in 0 .. 31
      /\ b1 \in 0 .. 31 /\ b2 \in 0 .. 63 /\ b3 \in 0 .. 31
  BY DEF Endpoint
<1>2. Packed565(a) = a1 * 2048 + a2 * 32 + a3 /\ Packed565(b) = b1 * 2048 + b2 * 32 + b3
  BY DEF Packed565
<1> HIDE DEF a1, a2, a3, b1, b2, b3
<1>3. Packed565(a) \in Nat /\ Packed565(b) \in Nat
  BY <1>1, <1>2
<1>4. a1 * 2048 + a2 * 32 + a3 = b1 * 2048 + b2 * 32 + b3 => a1 = b1 /\ a2 = b2 /\ a3 = b3
  <2> SUFFICES ASSUME a1 * 2048 + a2 * 32 + a3 = b1 * 2048 + b2 * 32 + b3
               PROVE  a1 = b1 /\ a2 = b2 /\ a3 = b3
    OBVIOUS
  <2>1. a3 - b3 = 32 * ((b2 - a2) + 64 * (b1 - a1))
    BY <1>1
  <2>2. (b2 - a2) + 64 * (b1 - a1) = 0
    BY <1>1, <2>1
  <2> QED
    BY <1>1, <2>1, <2>2
<1> QED
  BY <1>1, <1>2, <1>3, <1>4

(* The tables have endpoints whose colour 2, a third of the way, is the    *)
(* value looked up or next to it.                                          *)
LEMMA Match5 ==
  ASSUME NEW v \in 0 .. 255
  PROVE  LET e == stb__OMatch5[v + 1]
         IN  /\ e \div 100 \in 0 .. 31 /\ e % 100 \in 0 .. 31
             /\ Apart((2 * (((e \div 100) * 33) \div 4) + ((e % 100) * 33) \div 4) \div 3, v) <= 1
BY DEF stb__OMatch5, Apart

(* The same of the green table, of six bits.                               *)
LEMMA Match6 ==
  ASSUME NEW v \in 0 .. 255
  PROVE  LET e == stb__OMatch6[v + 1]
         IN  /\ e \div 100 \in 0 .. 63 /\ e % 100 \in 0 .. 63
             /\ Apart((2 * (((e \div 100) * 65) \div 16) + ((e % 100) * 65) \div 16) \div 3, v) <= 1
BY DEF stb__OMatch6, Apart
(* The endpoints for one colour, and what colour 2 is of them, whichever   *)
(* of the two is first.                                                    *)
LEMMA OneColourIsNear ==
  ASSUME NEW c \in Colour
  PROVE  LET e == OneColour(c)
             swapped == [max |-> e.min, min |-> e.max]
         IN  /\ e.max \in Endpoint /\ e.min \in Endpoint
             /\ \A i \in Rgb : /\ Apart(EvalColors(e)[3][i], c[i]) <= 1
                             /\ Apart(EvalColors(swapped)[4][i], c[i]) <= 1
<1> DEFINE r == stb__OMatch5[c[1] + 1]
           g == stb__OMatch6[c[2] + 1]
           b == stb__OMatch5[c[3] + 1]
           e == OneColour(c)
           swapped == [max |-> e.min, min |-> e.max]
           third == <<(2 * (((r \div 100) * 33) \div 4) + ((r % 100) * 33) \div 4) \div 3,
                      (2 * (((g \div 100) * 65) \div 16) + ((g % 100) * 65) \div 16) \div 3,
                      (2 * (((b \div 100) * 33) \div 4) + ((b % 100) * 33) \div 4) \div 3>>
<1>1. c[1] \in 0 .. 255 /\ c[2] \in 0 .. 255 /\ c[3] \in 0 .. 255
  BY DEF Colour
<1>2. /\ r \div 100 \in 0 .. 31 /\ r % 100 \in 0 .. 31 /\ Apart(third[1], c[1]) <= 1
  BY <1>1, Match5
<1>3. /\ g \div 100 \in 0 .. 63 /\ g % 100 \in 0 .. 63 /\ Apart(third[2], c[2]) <= 1
  BY <1>1, Match6
<1>4. /\ b \div 100 \in 0 .. 31 /\ b % 100 \in 0 .. 31 /\ Apart(third[3], c[3]) <= 1
  BY <1>1, Match5
<1>5. /\ e.max = <<r \div 100, g \div 100, b \div 100>>
      /\ e.min = <<r % 100, g % 100, b % 100>>
  BY DEF OneColour, Vector
<1>6. EvalColors(e)[3] = third /\ EvalColors(swapped)[4] = third
  <2>1. rgb565to888(e.max) = <<((r \div 100) * 33) \div 4, ((g \div 100) * 65) \div 16, ((b \div 100) * 33) \div 4>>
    BY <1>5 DEF rgb565to888
  <2>2. rgb565to888(e.min) = <<((r % 100) * 33) \div 4, ((g % 100) * 65) \div 16, ((b % 100) * 33) \div 4>>
    BY <1>5 DEF rgb565to888
  <2>3. lerp13(rgb565to888(e.max), rgb565to888(e.min)) = third
    BY <2>1, <2>2 DEF lerp13, Vector
  <2> QED
    BY <2>3 DEF EvalColors
<1> HIDE DEF third, r, g, b
<1>7. e.max \in Endpoint /\ e.min \in Endpoint
  BY <1>2, <1>3, <1>4, <1>5 DEF Endpoint
<1> HIDE DEF e, swapped
<1>8. \A i \in Rgb : Apart(third[i], c[i]) <= 1
  BY <1>2, <1>3, <1>4 DEF Rgb
<1> QED
  BY <1>6, <1>7, <1>8 DEF e, swapped

(* Products with one factor are ordered by the other.                      *)
LEMMA ProductsInOrder ==
  ASSUME NEW u \in Int, NEW v \in Int, NEW d \in Int, (d >= 0 /\ u <= v) \/ (d < 0 /\ v <= u)
  PROVE  u * d <= v * d
<1>1. ASSUME NEW p \in Nat, NEW q \in Nat PROVE p * q \in Nat
  OBVIOUS
<1>2. CASE d >= 0 /\ u <= v
  <2>1. (v - u) * d \in Nat
    <3>1. v - u \in Nat /\ d \in Nat
      BY <1>2
    <3> QED
      BY <3>1, <1>1
  <2>2. v * d = u * d + (v - u) * d
    OBVIOUS
  <2> QED
    BY <2>1, <2>2
<1>3. CASE d < 0 /\ v <= u
  <2>1. (u - v) * (0 - d) \in Nat
    <3>1. u - v \in Nat /\ 0 - d \in Nat
      BY <1>3
    <3> QED
      BY <3>1, <1>1
  <2>2. v * d = u * d + (u - v) * (0 - d)
    OBVIOUS
  <2> QED
    BY <2>1, <2>2
<1> QED
  BY <1>2, <1>3

(* One channel of the palette along the channel of the direction.          *)
LEMMA ChannelInOrder ==
  ASSUME NEW a, NEW b, NEW x, NEW y, NEW d, a \in 0 .. 255, b \in 0 .. 255,
         x = (2 * a + b) \div 3, y = (2 * b + a) \div 3, d = a - b
  PROVE  /\ x \in 0 .. 255 /\ y \in 0 .. 255 /\ d \in Int
         /\ a * d \in Int /\ b * d \in Int /\ x * d \in Int /\ y * d \in Int
         /\ b * d <= y * d /\ y * d <= x * d /\ x * d <= a * d
<1>1. x \in 0 .. 255 /\ y \in 0 .. 255 /\ d \in Int
  OBVIOUS
<1>2. /\ d >= 0 => b <= y /\ y <= x /\ x <= a
      /\ d < 0 => a <= x /\ x <= y /\ y <= b
  OBVIOUS
<1>3. a * d \in Int /\ b * d \in Int /\ x * d \in Int /\ y * d \in Int
  BY <1>1
<1>4. /\ (d >= 0 /\ b <= y) \/ (d < 0 /\ y <= b)
      /\ (d >= 0 /\ y <= x) \/ (d < 0 /\ x <= y)
      /\ (d >= 0 /\ x <= a) \/ (d < 0 /\ a <= x)
      /\ a \in Int /\ b \in Int /\ x \in Int /\ y \in Int
  BY <1>1, <1>2
<1>5. b * d <= y * d
  BY <1>1, <1>4, ProductsInOrder, Zenon
<1>6. y * d <= x * d
  BY <1>1, <1>4, ProductsInOrder, Zenon
<1>7. x * d <= a * d
  BY <1>1, <1>4, ProductsInOrder, Zenon
<1> QED
  BY <1>1, <1>3, <1>5, <1>6, <1>7

(* A sum of integer products is one.                                       *)
LEMMA DotIsInteger ==
  ASSUME NEW a, NEW b, a[1] \in Int, a[2] \in Int, a[3] \in Int, b[1] \in Int, b[2] \in Int, b[3] \in Int
  PROVE  Dot(a, b) \in Int
BY DEF Dot

Along(e, c) == Dot(c, Direction(e))
Stop(e, step) == Along(e, EvalColors(e)[step + 1])

(* The palette is in order along its direction.                            *)
LEMMA StopsInOrder ==
  ASSUME NEW e, e.max \in Endpoint, e.min \in Endpoint
  PROVE  /\ \A step \in 0 .. 3 : Stop(e, step) \in Int
         /\ Stop(e, 1) <= Stop(e, 3) /\ Stop(e, 3) <= Stop(e, 2) /\ Stop(e, 2) <= Stop(e, 0)
         /\ \A c \in Colour : Along(e, c) \in Int
<1> DEFINE a == rgb565to888(e.max)
           b == rgb565to888(e.min)
           x == lerp13(a, b)
           y == lerp13(b, a)
           d == Direction(e)
<1>1. a \in Colour /\ b \in Colour
  BY ExpandedIsColour
<1>2. EvalColors(e) = <<a, b, x, y>>
  BY DEF EvalColors
<1>3. d = <<a[1] - b[1], a[2] - b[2], a[3] - b[3]>>
  BY <1>2 DEF Direction, Vector
<1>4. /\ x = <<(2 * a[1] + b[1]) \div 3, (2 * a[2] + b[2]) \div 3, (2 * a[3] + b[3]) \div 3>>
      /\ y = <<(2 * b[1] + a[1]) \div 3, (2 * b[2] + a[2]) \div 3, (2 * b[3] + a[3]) \div 3>>
  BY DEF lerp13, Vector
<1>5. Stop(e, 0) = Dot(a, d) /\ Stop(e, 1) = Dot(b, d) /\ Stop(e, 2) = Dot(x, d) /\ Stop(e, 3) = Dot(y, d)
  BY <1>2 DEF Stop, Along
<1> HIDE DEF a, b, x, y, d
<1>6. \A i \in Rgb :
        /\ a[i] \in 0 .. 255 /\ b[i] \in 0 .. 255 /\ x[i] \in 0 .. 255 /\ y[i] \in 0 .. 255
        /\ d[i] \in Int
        /\ a[i] * d[i] \in Int /\ b[i] * d[i] \in Int /\ x[i] * d[i] \in Int /\ y[i] * d[i] \in Int
        /\ b[i] * d[i] <= y[i] * d[i] /\ y[i] * d[i] <= x[i] * d[i] /\ x[i] * d[i] <= a[i] * d[i]
  <2> TAKE i \in Rgb
  <2>1. a[i] \in 0 .. 255 /\ b[i] \in 0 .. 255
    BY <1>1 DEF Colour, Rgb
  <2>2. x[i] = (2 * a[i] + b[i]) \div 3 /\ y[i] = (2 * b[i] + a[i]) \div 3 /\ d[i] = a[i] - b[i]
    BY <1>3, <1>4 DEF Rgb
  <2> QED
    BY <2>1, <2>2, ChannelInOrder
<1>8. /\ Dot(b, d) <= Dot(y, d) /\ Dot(y, d) <= Dot(x, d) /\ Dot(x, d) <= Dot(a, d)
      /\ Dot(a, d) \in Int /\ Dot(b, d) \in Int /\ Dot(x, d) \in Int /\ Dot(y, d) \in Int
  BY <1>6 DEF Dot, Rgb
<1>9. \A c \in Colour : Along(e, c) \in Int
  <2> TAKE c \in Colour
  <2>1. c[1] \in Int /\ c[2] \in Int /\ c[3] \in Int
    BY DEF Colour
  <2>2. d[1] \in Int /\ d[2] \in Int /\ d[3] \in Int
    BY <1>6 DEF Rgb
  <2>3. Dot(c, d) \in Int
    BY <2>1, <2>2, DotIsInteger
  <2> QED
    BY <2>3 DEF Along, d
<1> QED
  BY <1>5, <1>8, <1>9

(* The stop it picks is nearest, but for a rounding of a threshold.        *)
LEMMA NearestIsNear ==
  ASSUME NEW d \in Int, NEW stop, stop \in [1 .. 4 -> Int],
         stop[2] <= stop[4], stop[4] <= stop[3], stop[3] <= stop[1]
  PROVE  LET chosen == NearestStop(d, 1, stop)
         IN  \A step \in 0 .. 3 : Apart(d, stop[chosen + 1]) <= Apart(d, stop[step + 1]) + 1
<1> DEFINE s0 == stop[1]
           s1 == stop[2]
           s2 == stop[3]
           s3 == stop[4]
           p == Truncated(s3 + s2, 2)
           q == Truncated(s1 + s3, 2)
           r == Truncated(s2 + s0, 2)
           chosen == NearestStop(d, 1, stop)
           s == stop[chosen + 1]
<1>0. /\ s0 \in Int /\ s1 \in Int /\ s2 \in Int /\ s3 \in Int
      /\ s1 <= s3 /\ s3 <= s2 /\ s2 <= s0
  OBVIOUS
<1>1. ASSUME NEW n \in Int
      PROVE  Truncated(n, 2) \in Int /\ 2 * Truncated(n, 2) - n \in -1 .. 1
  BY DEF Truncated
<1>3. chosen = IF d < p * 1 THEN (IF d < q * 1 THEN 1 ELSE 3) ELSE (IF d < r * 1 THEN 2 ELSE 0)
  BY DEF NearestStop
<1> HIDE DEF chosen
<1>c. s = IF chosen = 1 THEN s1 ELSE IF chosen = 3 THEN s3 ELSE IF chosen = 2 THEN s2 ELSE s0
  BY <1>3
<1>t. \A step \in 0 .. 3 : stop[step + 1] = s0 \/ stop[step + 1] = s1 \/ stop[step + 1] = s2 \/ stop[step + 1] = s3
  OBVIOUS
<1> HIDE DEF s0, s1, s2, s3, s
<1>2. /\ p \in Int /\ q \in Int /\ r \in Int
      /\ 2 * p - (s3 + s2) \in -1 .. 1 /\ 2 * q - (s1 + s3) \in -1 .. 1 /\ 2 * r - (s2 + s0) \in -1 .. 1
  BY <1>0, <1>1
<1> HIDE DEF p, q, r
<1>x. /\ Apart(d, s) <= Apart(d, s0) + 1 /\ Apart(d, s) <= Apart(d, s1) + 1
      /\ Apart(d, s) <= Apart(d, s2) + 1 /\ Apart(d, s) <= Apart(d, s3) + 1
  <2>1. CASE d < p /\ d < q
    <3>1. s = s1
      BY <1>2, <1>3, <1>c, <2>1
    <3> QED
      BY <1>0, <1>2, <2>1, <3>1 DEF Apart
  <2>2. CASE d < p /\ ~(d < q)
    <3>1. s = s3
      BY <1>2, <1>3, <1>c, <2>2
    <3> QED
      BY <1>0, <1>2, <2>2, <3>1 DEF Apart
  <2>3. CASE ~(d < p) /\ d < r
    <3>1. s = s2
      BY <1>2, <1>3, <1>c, <2>3
    <3> QED
      BY <1>0, <1>2, <2>3, <3>1 DEF Apart
  <2>4. CASE ~(d < p) /\ ~(d < r)
    <3>1. s = s0
      BY <1>2, <1>3, <1>c, <2>4
    <3> QED
      BY <1>0, <1>2, <2>4, <3>1 DEF Apart
  <2> QED
    BY <2>1, <2>2, <2>3, <2>4
<1>y. \A step \in 0 .. 3 : Apart(d, s) <= Apart(d, stop[step + 1]) + 1
  BY <1>t, <1>x, Zenon
<1> QED
  BY <1>y DEF s, chosen

(* Where the palette colours are along the direction.                      *)
Stops(e) == [i \in 1 .. 4 |-> Dot(EvalColors(e)[i], Direction(e))]

(* They are integers and in order.                                         *)
LEMMA StopsAreOrdered ==
  ASSUME NEW e, e.max \in Endpoint, e.min \in Endpoint
  PROVE  /\ Stops(e) \in [1 .. 4 -> Int]
         /\ Stops(e)[2] <= Stops(e)[4] /\ Stops(e)[4] <= Stops(e)[3] /\ Stops(e)[3] <= Stops(e)[1]
         /\ \A step \in 0 .. 3 : Stops(e)[step + 1] = Stop(e, step)
<1>1. \A step \in 0 .. 3 : Stops(e)[step + 1] = Stop(e, step)
  BY DEF Stops, Stop, Along
<1>2. /\ Stops(e)[1] = Stop(e, 0) /\ Stops(e)[2] = Stop(e, 1)
      /\ Stops(e)[3] = Stop(e, 2) /\ Stops(e)[4] = Stop(e, 3)
  BY DEF Stops, Stop, Along
<1>3. /\ Stop(e, 0) \in Int /\ Stop(e, 1) \in Int /\ Stop(e, 2) \in Int /\ Stop(e, 3) \in Int
      /\ Stop(e, 1) <= Stop(e, 3) /\ Stop(e, 3) <= Stop(e, 2) /\ Stop(e, 2) <= Stop(e, 0)
  BY StopsInOrder
<1>4. Stops(e) \in [1 .. 4 -> Int]
  <2>1. \A i \in 1 .. 4 : Stops(e)[i] \in Int
    BY <1>2, <1>3
  <2>2. Stops(e) = [i \in 1 .. 4 |-> Stops(e)[i]]
    BY DEF Stops
  <2> QED
    BY <2>1, <2>2
<1> QED
  BY <1>1, <1>2, <1>3, <1>4

(* No palette colour is nearer along the line than the one of the index.   *)
IsNearest(block, e, m) ==
  \A k \in Texel : \A step \in 0 .. 3 :
    Apart(Along(e, block[k]), Stop(e, m[k])) <= Apart(Along(e, block[k]), Stop(e, step)) + 1

(* The indices are nearest to the endpoints they were chosen for.          *)
LEMMA MatchIsNearest ==
  ASSUME texels \in [Texel -> Colour], ~dithered, NEW e, e.max \in Endpoint, e.min \in Endpoint
  PROVE  MatchColorsBlock(e) \in [Texel -> 0 .. 3] /\ IsNearest(texels, e, MatchColorsBlock(e))
<1> DEFINE m == [k \in Texel |-> NearestStop(Along(e, texels[k]), 1, Stops(e))]
<1>1. MatchColorsBlock(e) = m
  BY DEF MatchColorsBlock, Stops, Along
<1>2. \A d, stop : NearestStop(d, 1, stop) \in 0 .. 3
  BY DEF NearestStop
<1>3. m \in [Texel -> 0 .. 3]
  BY <1>2
<1>4. ASSUME NEW k \in Texel, NEW step \in 0 .. 3
      PROVE  Apart(Along(e, texels[k]), Stop(e, m[k])) <= Apart(Along(e, texels[k]), Stop(e, step)) + 1
  <2> DEFINE d == Along(e, texels[k])
             stop == Stops(e)
             chosen == NearestStop(d, 1, stop)
  <2>1. d \in Int
    BY StopsInOrder
  <2>2. stop \in [1 .. 4 -> Int] /\ stop[2] <= stop[4] /\ stop[4] <= stop[3] /\ stop[3] <= stop[1]
    BY StopsAreOrdered
  <2>3. m[k] = chosen /\ chosen \in 0 .. 3
    BY <1>2
  <2> HIDE DEF d, stop, m, chosen
  <2>4. Apart(d, stop[chosen + 1]) <= Apart(d, stop[step + 1]) + 1
    BY <2>1, <2>2, NearestIsNear DEF chosen
  <2>5. stop[chosen + 1] = Stop(e, chosen) /\ stop[step + 1] = Stop(e, step)
    BY <2>3, StopsAreOrdered DEF stop
  <2> QED
    BY <2>3, <2>4, <2>5 DEF d
<1> QED
  BY <1>1, <1>3, <1>4 DEF IsNearest

(* Counting to sixteen.                                                    *)
LEMMA UpToSixteen ==
  ASSUME NEW S, 0 \in S, \A n \in 0 .. 15 : n \in S => n + 1 \in S
  PROVE  0 .. 16 \subseteq S
<1>1. 0 \in S /\ 1 \in S /\ 2 \in S /\ 3 \in S /\ 4 \in S
  OBVIOUS
<1>2. 5 \in S /\ 6 \in S /\ 7 \in S /\ 8 \in S
  BY <1>1
<1>3. 9 \in S /\ 10 \in S /\ 11 \in S /\ 12 \in S
  BY <1>2
<1>4. 13 \in S /\ 14 \in S /\ 15 \in S /\ 16 \in S
  BY <1>3
<1> QED
  BY <1>1, <1>2, <1>3, <1>4

(* A run has a value and an integer error for every texel, if Quantize has *)
(* them for whatever is carried.                                           *)
LEMMA DiffuseRuns ==
  ASSUME NEW Value, NEW Quantize,
         \A k \in Texel : \A c \in Int : Quantize[k][c] \in [value : Value, error : Int]
  PROVE  Diffuse(Quantize) \in [1 .. 16 -> [value : Value, error : Int]]
<1> DEFINE Result == [value : Value, error : Int]
           CarriedTo(before, n) == Carried([m \in 1 .. n - 1 |-> before[m].error], n - 1)
           After(before, n) == Append(before, Quantize[n - 1][CarriedTo(before, n)])
           Following(f, n) == IF n = 0 THEN <<>> ELSE After(f[n - 1], n)
           Runs(f, m) == f = [n \in 0 .. m |-> Following(f, n)]
           S == {m \in 0 .. 16 : \E f : Runs(f, m)}
<1>1. 16 \in S
  <2>1. 0 \in S
    <3> DEFINE f == [n \in 0 .. 0 |-> << >>]
    <3> HIDE DEF After
    <3>1. f = [n \in 0 .. 0 |-> Following(f, n)]
      OBVIOUS
    <3> HIDE DEF f
    <3>2. \E h : Runs(h, 0)
      BY <3>1
    <3> QED
      BY <3>2
  <2>2. ASSUME NEW n \in 0 .. 15, n \in S PROVE n + 1 \in S
    <3>1. PICK f : Runs(f, n)
      BY <2>2
    <3> DEFINE g == [m \in 0 .. n + 1 |-> IF m = n + 1 THEN Following(f, m) ELSE f[m]]
    <3> HIDE DEF After
    <3>2. \A m \in 0 .. n + 1 : Following(g, m) = Following(f, m)
      OBVIOUS
    <3>3. \A m \in 0 .. n : f[m] = Following(f, m)
      BY <3>1
    <3>4. \A m \in 0 .. n + 1 : g[m] = Following(f, m)
      BY <3>3
    <3>5. g = [m \in 0 .. n + 1 |-> Following(g, m)]
      BY <3>2, <3>4
    <3> HIDE DEF g, Following
    <3>6. \E h : Runs(h, n + 1)
      BY <3>5
    <3> QED
      BY <3>6
  <2> HIDE DEF S
  <2> QED
    BY <2>1, <2>2, UpToSixteen
<1> DEFINE after == CHOOSE f : Runs(f, 16)
<1>2. Diffuse(Quantize) = after[16]
  BY DEF Diffuse
<1>3. Runs(after, 16)
  BY <1>1
<1> HIDE DEF after, After
<1>4. after[0] = <<>> /\ \A n \in 1 .. 16 : after[n] = After(after[n - 1], n)
  BY <1>3
<1> DEFINE T == {m \in 0 .. 16 : after[m] \in [1 .. m -> Result]}
<1>5. 16 \in T
  <2>1. 0 \in T
    <3>1. << >> \in [1 .. 0 -> Result]
      OBVIOUS
    <3> HIDE DEF Result
    <3>2. after[0] \in [1 .. 0 -> Result]
      BY <1>4, <3>1
    <3> QED
      BY <3>2
  <2>2. ASSUME NEW n \in 0 .. 15, n \in T PROVE n + 1 \in T
    <3> DEFINE before == after[n]
               c == CarriedTo(before, n + 1)
    <3>1. before \in [1 .. n -> Result]
      BY <2>2
    <3>2. [m \in 1 .. n |-> before[m].error] \in [1 .. n -> Int]
      BY <3>1
    <3>3. c \in Int
      <4> DEFINE e == [m \in 1 .. n |-> before[m].error]
      <4> DEFINE k == n + 1
                 i == k - 1
      <4>0. i = n
        OBVIOUS
      <4> HIDE DEF i, before
      <4>2. CarriedTo(before, k) = Carried([m \in 1 .. i |-> before[m].error], i)
        BY DEF i
      <4>1. c = Carried(e, n)
        BY <4>0, <4>2
      <4> HIDE DEF e, c
      <4> QED
        BY <3>2, <4>1, CarriedError DEF e
    <3>4. after[n + 1] = Append(before, Quantize[n][c])
      <4> DEFINE k == n + 1
      <4>0. k \in 1 .. 16 /\ k - 1 = n
        OBVIOUS
      <4> HIDE DEF k, before
      <4>3. after[k] = After(after[n], k)
        BY <1>4, <4>0
      <4>1. after[k] = Append(before, Quantize[k - 1][CarriedTo(before, k)])
        BY <4>3 DEF After, before
      <4> HIDE DEF CarriedTo
      <4>2. after[k] = Append(before, Quantize[n][CarriedTo(before, k)])
        BY <4>0, <4>1
      <4> QED
        BY <4>2 DEF k
    <3> HIDE DEF before, c
    <3>5. Quantize[n][c] \in Result
      BY <3>3 DEF Texel
    <3> HIDE DEF Result
    <3> DEFINE q == Quantize[n][c]
    <3> HIDE DEF q
    <3>6. before \in Seq(Result) /\ Len(before) = n
      BY <3>1
    <3>7. Append(before, q) \in [1 .. n + 1 -> Result]
      <4>1. q \in Result
        BY <3>5 DEF q
      <4>2. Append(before, q) \in Seq(Result) /\ Len(Append(before, q)) = n + 1
        BY <4>1, <3>6
      <4> DEFINE s == Append(before, q)
      <4> HIDE DEF s
      <4>3. s \in Seq(Result) /\ Len(s) = n + 1
        BY <4>2 DEF s
      <4>4. s \in [1 .. n + 1 -> Result]
        BY <4>3
      <4> QED
        BY <4>4 DEF s
    <3>8. after[n + 1] \in [1 .. n + 1 -> Result]
      BY <3>4, <3>7 DEF q
    <3> QED
      BY <3>8
  <2> HIDE DEF T
  <2> QED
    BY <2>1, <2>2, UpToSixteen
<1> QED
  BY <1>2, <1>5

(* A channel is quantized to one of a colour.                              *)
LEMMA QuantIsChannel ==
  ASSUME NEW i \in Rgb, NEW v \in Int
  PROVE  quant(i, v) \in 0 .. 255
<1> DEFINE w == Clamped(v, 255)
           c == <<w, w, w>>
<1>1. w \in 0 .. 255
  BY DEF Clamped
<1> HIDE DEF w
<1>2. c \in Colour
  BY <1>1 DEF Colour
<1>3. rgb565to888(rgb888to565(c)) \in Colour
  BY <1>2, RoundedIsEndpoint, ExpandedIsColour
<1>4. quant(i, v) = rgb565to888(rgb888to565(c))[i]
  BY DEF quant, rgb888to565, Vector, w
<1> DEFINE q == rgb565to888(rgb888to565(c))
<1> HIDE DEF q
<1>5. q[i] \in 0 .. 255
  <2>1. q \in Colour
    BY <1>3 DEF q
  <2> QED
    BY <2>1 DEF Colour, Rgb
<1> QED
  BY <1>4, <1>5 DEF q

(* A dithered block is of colours.                                         *)
LEMMA DitheredIsBlock ==
  ASSUME texels \in [Texel -> Colour]
  PROVE  ditherPixelsBlock \in [Texel -> Colour]
<1>1. ASSUME NEW i \in Rgb PROVE \A k \in Texel : DitherChannel(i)[k] \in 0 .. 255
  <2> DEFINE v(k, carried) == quant(i, texels[k][i] + Truncated(carried, 16))
             Quantize == [k \in Texel |-> [carried \in Int |->
                            [value |-> v(k, carried), error |-> texels[k][i] - v(k, carried)]]]
             run == Diffuse(Quantize)
  <2>1. ASSUME NEW k \in Texel, NEW carried \in Int
        PROVE  Quantize[k][carried] \in [value : 0 .. 255, error : Int]
    <3>1. texels[k][i] \in Int
      BY DEF Colour, Rgb
    <3>2. Truncated(carried, 16) \in Int
      BY DEF Truncated
    <3>3. v(k, carried) \in 0 .. 255
      BY <3>1, <3>2, QuantIsChannel
    <3>4. Quantize[k][carried] = [value |-> v(k, carried), error |-> texels[k][i] - v(k, carried)]
      OBVIOUS
    <3> HIDE DEF v, Quantize
    <3> QED
      BY <3>1, <3>3, <3>4
  <2>2. DitherChannel(i) = [k \in Texel |-> run[k + 1].value]
    BY DEF DitherChannel
  <2> HIDE DEF Quantize
  <2>3. run \in [1 .. 16 -> [value : 0 .. 255, error : Int]]
    BY <2>1, DiffuseRuns
  <2> HIDE DEF run
  <2>4. ASSUME NEW k \in Texel PROVE DitherChannel(i)[k] \in 0 .. 255
    <3>1. k + 1 \in 1 .. 16
      BY DEF Texel
    <3>2. run[k + 1] \in [value : 0 .. 255, error : Int]
      BY <2>3, <3>1
    <3>3. DitherChannel(i)[k] = run[k + 1].value
      BY <2>2
    <3> QED
      BY <3>2, <3>3
  <2> QED
    BY <2>4
<1>2. DitherBlock \in [Texel -> Colour]
  <2> DEFINE channel == <<DitherChannel(1), DitherChannel(2), DitherChannel(3)>>
  <2>1. DitherBlock = [k \in Texel |-> <<channel[1][k], channel[2][k], channel[3][k]>>]
    BY DEF DitherBlock, Vector
  <2>2. \A k \in Texel : channel[1][k] \in 0 .. 255 /\ channel[2][k] \in 0 .. 255 /\ channel[3][k] \in 0 .. 255
    BY <1>1 DEF Rgb
  <2> HIDE DEF channel
  <2>3. \A k \in Texel : <<channel[1][k], channel[2][k], channel[3][k]>> \in Colour
    BY <2>2 DEF Colour
  <2> QED
    BY <2>1, <2>3
<1> QED
  BY <1>2 DEF ditherPixelsBlock

(* What MatchColorsBlock chooses are indices, dithered or not.             *)
LEMMA MatchIsOfIndices ==
  ASSUME texels \in [Texel -> Colour], NEW e, e.max \in Endpoint, e.min \in Endpoint
  PROVE  MatchColorsBlock(e) \in [Texel -> 0 .. 3]
<1> DEFINE dir == Direction(e)
           stop == Stops(e)
<1>1. CASE ~dithered
  BY <1>1, MatchIsNearest
<1>2. CASE dithered
  <2>1. MatchColorsBlock(e) = DitherIndices(dir, stop)
    BY <1>2 DEF MatchColorsBlock, Stops
  <2> DEFINE d(k) == Dot(texels[DitherLoads(k)], dir)
             step(k, carried) == NearestStop(d(k) * 16 + carried, 16, stop)
             Quantize == [k \in Texel |-> [carried \in Int |->
                            [value |-> step(k, carried), error |-> d(k) - stop[step(k, carried) + 1]]]]
             run == Diffuse(Quantize)
  <2>2. DitherIndices(dir, stop) = [k \in Texel |-> run[k + 1].value]
    BY DEF DitherIndices
  <2>3. stop \in [1 .. 4 -> Int]
    BY StopsAreOrdered
  <2>4. ASSUME NEW k \in Texel, NEW carried \in Int
        PROVE  Quantize[k][carried] \in [value : 0 .. 3, error : Int]
    <3>1. DitherLoads(k) \in Texel
      BY DEF DitherLoads, Texel
    <3>2. texels[DitherLoads(k)] \in Colour
      BY <3>1
    <3>3. d(k) \in Int
      BY <3>2, StopsInOrder DEF Along
    <3>4. step(k, carried) \in 0 .. 3
      BY DEF NearestStop
    <3>5. Quantize[k][carried] = [value |-> step(k, carried), error |-> d(k) - stop[step(k, carried) + 1]]
      OBVIOUS
    <3> HIDE DEF d, step, Quantize, stop
    <3> QED
      BY <2>3, <3>3, <3>4, <3>5
  <2> HIDE DEF Quantize
  <2>5. run \in [1 .. 16 -> [value : 0 .. 3, error : Int]]
    BY <2>4, DiffuseRuns
  <2> HIDE DEF run
  <2> QED
    BY <2>1, <2>2, <2>5 DEF Texel
<1> QED
  BY <1>1, <1>2

(* A sum over the texels of a function of them.                            *)
Sum16(x) == x[0] + x[1] + x[2] + x[3] + x[4] + x[5] + x[6] + x[7]
            + x[8] + x[9] + x[10] + x[11] + x[12] + x[13] + x[14] + x[15]

(* Sixteen integers between two bounds make a sum between sixteen times    *)
(* each.                                                                   *)
LEMMA SumIsBounded ==
  ASSUME NEW x, NEW n \in Int, NEW l \in Int, \A k \in Texel : x[k] \in Int /\ l <= x[k] /\ x[k] <= n
  PROVE  Sum16(x) \in Int /\ 16 * l <= Sum16(x) /\ Sum16(x) <= 16 * n
<1> DEFINE q(k) == x[k] + x[k + 1] + x[k + 2] + x[k + 3]
           q0 == q(0) q4 == q(4) q8 == q(8) q12 == q(12)
<1>1. \A k \in {0, 4, 8, 12} : q(k) \in Int /\ 4 * l <= q(k) /\ q(k) <= 4 * n
  <2> TAKE k \in {0, 4, 8, 12}
  <2>1. k \in Texel /\ k + 1 \in Texel /\ k + 2 \in Texel /\ k + 3 \in Texel
    BY DEF Texel
  <2> QED
    BY <2>1
<1>2. /\ q0 \in Int /\ 4 * l <= q0 /\ q0 <= 4 * n
      /\ q4 \in Int /\ 4 * l <= q4 /\ q4 <= 4 * n
      /\ q8 \in Int /\ 4 * l <= q8 /\ q8 <= 4 * n
      /\ q12 \in Int /\ 4 * l <= q12 /\ q12 <= 4 * n
  BY <1>1
<1>3. Sum16(x) = q0 + q4 + q8 + q12
  BY DEF Sum16, Texel
<1> HIDE DEF q0, q4, q8, q12
<1> QED
  BY <1>2, <1>3

(* A sum of multiples of one number, and of sums.                          *)
LEMMA SumOfMultiples ==
  ASSUME NEW x, NEW n \in Int, \A k \in Texel : x[k] \in Int
  PROVE  Sum16([k \in Texel |-> x[k] * n]) = Sum16(x) * n
<1> DEFINE q(k) == x[k] + x[k + 1] + x[k + 2] + x[k + 3]
           r(k) == x[k] * n + x[k + 1] * n + x[k + 2] * n + x[k + 3] * n
           q0 == q(0) q4 == q(4) q8 == q(8) q12 == q(12)
           r0 == r(0) r4 == r(4) r8 == r(8) r12 == r(12)
<1>1. \A k \in {0, 4, 8, 12} : q(k) \in Int /\ r(k) = q(k) * n
  <2> TAKE k \in {0, 4, 8, 12}
  <2>1. k \in Texel /\ k + 1 \in Texel /\ k + 2 \in Texel /\ k + 3 \in Texel
    BY DEF Texel
  <2> QED
    BY <2>1
<1>2. /\ q0 \in Int /\ r0 = q0 * n /\ q4 \in Int /\ r4 = q4 * n
      /\ q8 \in Int /\ r8 = q8 * n /\ q12 \in Int /\ r12 = q12 * n
  BY <1>1
<1>3. Sum16(x) = q0 + q4 + q8 + q12
  BY DEF Sum16, Texel
<1>4. Sum16([k \in Texel |-> x[k] * n]) = r0 + r4 + r8 + r12
  <2> DEFINE y == [k \in Texel |-> x[k] * n]
  <2>1. \A k \in Texel : y[k] = x[k] * n /\ y[k] \in Int
    OBVIOUS
  <2> HIDE DEF y
  <2>2. Sum16(y) = y[0] + y[1] + y[2] + y[3] + y[4] + y[5] + y[6] + y[7]
                   + y[8] + y[9] + y[10] + y[11] + y[12] + y[13] + y[14] + y[15]
    BY DEF Sum16
  <2>3. \A k \in {0, 4, 8, 12} : y[k] + y[k + 1] + y[k + 2] + y[k + 3] = r(k) /\ r(k) \in Int
                                /\ y[k] \in Int /\ y[k + 1] \in Int /\ y[k + 2] \in Int /\ y[k + 3] \in Int
    <3> TAKE k \in {0, 4, 8, 12}
    <3>1. k \in Texel /\ k + 1 \in Texel /\ k + 2 \in Texel /\ k + 3 \in Texel
      BY DEF Texel
    <3> QED
      BY <2>1, <3>1
  <2>4. /\ y[0] + y[1] + y[2] + y[3] = r0 /\ y[4] + y[5] + y[6] + y[7] = r4
        /\ y[8] + y[9] + y[10] + y[11] = r8 /\ y[12] + y[13] + y[14] + y[15] = r12
    BY <2>3
  <2>6. \A k \in 0 .. 15 : y[k] \in Int
    BY <2>1 DEF Texel
  <2> HIDE DEF r0, r4, r8, r12
  <2>5. Sum16(y) = r0 + r4 + r8 + r12
    BY <2>2, <2>4, <2>6
  <2> QED
    BY <2>5 DEF y
<1> HIDE DEF q0, q4, q8, q12, r0, r4, r8, r12
<1> QED
  BY <1>2, <1>3, <1>4

(* A sum of sums is the sum of both.                                       *)
LEMMA SumOfSums ==
  ASSUME NEW x, NEW y, \A k \in Texel : x[k] \in Int /\ y[k] \in Int
  PROVE  Sum16([k \in Texel |-> x[k] + y[k]]) = Sum16(x) + Sum16(y)
<1> DEFINE z == [k \in Texel |-> x[k] + y[k]]
<1>1. \A k \in Texel : z[k] = x[k] + y[k]
  OBVIOUS
<1> HIDE DEF z
<1>2. Sum16(z) = Sum16(x) + Sum16(y)
  BY <1>1 DEF Sum16, Texel
<1> QED
  BY <1>2 DEF z

(* The mean of a block of colours is one.                                  *)
LEMMA AverageIsColour ==
  ASSUME NEW block, block \in [Texel -> Colour]
  PROVE  Average(block) \in Colour
<1> DEFINE x(i) == [k \in Texel |-> block[k][i]]
           mean(i) == (8 + Sum16(x(i))) \div 16
<1>1. ASSUME NEW i \in Rgb
      PROVE  mean(i) \in 0 .. 255
  <2> DEFINE y == x(i)
             sum == Sum16(y)
  <2>1. \A k \in Texel : y[k] \in Int /\ 0 <= y[k] /\ y[k] <= 255
    BY DEF Colour, Rgb
  <2> HIDE DEF y
  <2>2. sum \in Int /\ 0 <= sum /\ sum <= 4080
    <3>1. sum \in Int /\ 16 * 0 <= sum /\ sum <= 16 * 255
      BY <2>1, SumIsBounded
    <3> HIDE DEF sum
    <3> QED
      BY <3>1
  <2> HIDE DEF sum
  <2>3. (8 + sum) \div 16 \in 0 .. 255
    BY <2>2
  <2> QED
    BY <2>3 DEF sum, y
<1>2. ASSUME NEW i PROVE SumOver(LAMBDA k : block[k][i]) = Sum16(x(i))
  BY DEF SumOver, Sum16, Texel
<1>3. Average(block) = <<mean(1), mean(2), mean(3)>>
  <2>1. Average(block) = <<(8 + SumOver(LAMBDA k : block[k][1])) \div 16, (8 + SumOver(LAMBDA k : block[k][2])) \div 16,
                           (8 + SumOver(LAMBDA k : block[k][3])) \div 16>>
    BY DEF Average, Vector
  <2>2. /\ SumOver(LAMBDA k : block[k][1]) = Sum16(x(1))
        /\ SumOver(LAMBDA k : block[k][2]) = Sum16(x(2))
        /\ SumOver(LAMBDA k : block[k][3]) = Sum16(x(3))
    BY <1>2
  <2> HIDE DEF x
  <2> QED
    BY <2>1, <2>2
<1> HIDE DEF mean
<1>4. mean(1) \in 0 .. 255 /\ mean(2) \in 0 .. 255 /\ mean(3) \in 0 .. 255
  BY <1>1 DEF Rgb
<1> QED
  BY <1>3, <1>4 DEF Colour

(* A sum of integers is one.                                               *)
LEMMA SumIsInteger ==
  ASSUME NEW x, \A k \in Texel : x[k] \in Int
  PROVE  Sum16(x) \in Int
BY DEF Sum16, Texel

(* A sum of naturals is positive if one of them is.                        *)
LEMMA SumIsPositive ==
  ASSUME NEW x, \A k \in Texel : x[k] \in Nat, NEW j \in Texel, x[j] > 0
  PROVE  Sum16(x) > 0
<1> DEFINE q(k) == x[k] + x[k + 1] + x[k + 2] + x[k + 3]
           q0 == q(0) q4 == q(4) q8 == q(8) q12 == q(12)
<1>1. \A k \in {0, 4, 8, 12} : q(k) \in Nat /\ (j \in {k, k + 1, k + 2, k + 3} => q(k) > 0)
  <2> TAKE k \in {0, 4, 8, 12}
  <2>1. x[k] \in Nat /\ x[k + 1] \in Nat /\ x[k + 2] \in Nat /\ x[k + 3] \in Nat
    BY DEF Texel
  <2>2. q(k) \in Nat /\ (x[k] > 0 \/ x[k + 1] > 0 \/ x[k + 2] > 0 \/ x[k + 3] > 0 => q(k) > 0)
    BY <2>1
  <2>3. j \in {k, k + 1, k + 2, k + 3} => x[k] > 0 \/ x[k + 1] > 0 \/ x[k + 2] > 0 \/ x[k + 3] > 0
    OBVIOUS
  <2> HIDE DEF q
  <2> QED
    BY <2>2, <2>3
<1>2. q0 \in Nat /\ q4 \in Nat /\ q8 \in Nat /\ q12 \in Nat
  BY <1>1
<1>3. q0 > 0 \/ q4 > 0 \/ q8 > 0 \/ q12 > 0
  <2>1. j \in 0 .. 15
    BY DEF Texel
  <2>2. \E k \in {0, 4, 8, 12} : j \in {k, k + 1, k + 2, k + 3}
    BY <2>1
  <2>3. \E k \in {0, 4, 8, 12} : q(k) > 0
    BY <1>1, <2>2
  <2> HIDE DEF q
  <2> QED
    BY <2>3
<1>4. Sum16(x) = q0 + q4 + q8 + q12
  BY DEF Sum16, Texel
<1> HIDE DEF q0, q4, q8, q12
<1> QED
  BY <1>2, <1>3, <1>4

(* A sum of linear terms.                                                  *)
LEMMA SumOfTerms ==
  ASSUME NEW x, NEW y, NEW z, NEW a \in Int, NEW b \in Int, NEW c \in Int,
         \A k \in Texel : x[k] \in Int /\ y[k] \in Int /\ z[k] = a * x[k] + b * y[k] + c
  PROVE  Sum16(z) = a * Sum16(x) + b * Sum16(y) + 16 * c
<1> DEFINE ax == [k \in Texel |-> x[k] * a]
           by == [k \in Texel |-> y[k] * b]
           t == [k \in Texel |-> ax[k] + by[k]]
           cc == [k \in Texel |-> c]
           u == [k \in Texel |-> t[k] + cc[k]]
<1>1. Sum16(ax) = Sum16(x) * a /\ Sum16(by) = Sum16(y) * b
  BY SumOfMultiples
<1>2. \A k \in Texel : ax[k] \in Int /\ by[k] \in Int /\ t[k] \in Int /\ cc[k] \in Int
  OBVIOUS
<1>3. \A k \in Texel : z[k] = u[k]
  OBVIOUS
<1>4. Sum16(cc) = 16 * c
  BY DEF Sum16, Texel
<1>5. Sum16(z) = Sum16(u)
  <2> HIDE DEF u
  <2> QED
    BY <1>3 DEF Sum16, Texel
<1> HIDE DEF ax, by, cc
<1>6. Sum16(t) = Sum16(ax) + Sum16(by)
  BY <1>2, SumOfSums
<1> HIDE DEF t
<1>7. Sum16(u) = Sum16(t) + Sum16(cc)
  BY <1>2, SumOfSums
<1>8. Sum16(x) \in Int /\ Sum16(y) \in Int
  BY SumIsInteger
<1> QED
  BY <1>1, <1>4, <1>5, <1>6, <1>7, <1>8

(* The sums of the products of the weights.                                *)
SumXX(w) == Sum16([k \in Texel |-> w[k] * w[k]])
SumYY(w) == Sum16([k \in Texel |-> (3 - w[k]) * (3 - w[k])])
SumXY(w) == Sum16([k \in Texel |-> w[k] * (3 - w[k])])

(* They fit their parts of a float, and the system they make is singular   *)
(* only if all weights are equal: its determinant is nine sixteenths of    *)
(* the sum of the squares of sixteen times a weight less all of them.      *)
LEMMA SumsOfWeights ==
  ASSUME NEW w \in [Texel -> 0 .. 3]
  PROVE  /\ SumXX(w) \in Nat /\ SumYY(w) \in Nat /\ SumXY(w) \in Nat
         /\ SumXX(w) + SumXY(w) <= 144 /\ SumYY(w) <= 144 /\ SumXY(w) <= 32
         /\ (\E k \in Texel : w[k] # w[0]) => SumXX(w) * SumYY(w) - SumXY(w) * SumXY(w) > 0
<1> DEFINE x == [k \in Texel |-> w[k] * w[k]]
           y == [k \in Texel |-> (3 - w[k]) * (3 - w[k])]
           z == [k \in Texel |-> w[k] * (3 - w[k])]
           xx == Sum16(x)
           yy == Sum16(y)
           xy == Sum16(z)
           n == Sum16(w)
           v == [k \in Texel |-> w[k] * n]
           p == n * n
           s == [k \in Texel |-> (16 * w[k] - n) * (16 * w[k] - n)]
<1>1. \A k \in Texel : /\ w[k] \in Int /\ 0 <= w[k] /\ w[k] <= 3
                       /\ x[k] \in Int /\ 0 <= x[k] /\ x[k] <= 9
                       /\ y[k] \in Int /\ 0 <= y[k] /\ y[k] <= 9
                       /\ z[k] \in Int /\ 0 <= z[k] /\ z[k] <= 2
                       /\ y[k] = 9 - 6 * w[k] + x[k] /\ z[k] = 3 * w[k] - x[k]
  <2> TAKE k \in Texel
  <2>1. w[k] \in {0, 1, 2, 3}
    OBVIOUS
  <2>2. CASE w[k] = 0
    BY <2>2
  <2>3. CASE w[k] = 1
    BY <2>3
  <2>4. CASE w[k] = 2
    BY <2>4
  <2>5. CASE w[k] = 3
    BY <2>5
  <2> QED
    BY <2>1, <2>2, <2>3, <2>4, <2>5
<1>9. SumXX(w) = xx /\ SumYY(w) = yy /\ SumXY(w) = xy
  BY DEF SumXX, SumYY, SumXY
<1> HIDE DEF x, y, z
<1>2. n \in Int /\ 16 * 0 <= n /\ n <= 16 * 3
  BY <1>1, SumIsBounded
<1>e. /\ \A k \in Texel : x[k] \in Int /\ 0 <= x[k] /\ x[k] <= 9
      /\ \A k \in Texel : y[k] \in Int /\ 0 <= y[k] /\ y[k] <= 9
      /\ \A k \in Texel : z[k] \in Int /\ 0 <= z[k] /\ z[k] <= 2
  BY <1>1
<1>3. xx \in Int /\ 16 * 0 <= xx /\ xx <= 16 * 9
  BY <1>e, SumIsBounded
<1>4. yy \in Int /\ 16 * 0 <= yy /\ yy <= 16 * 9
  BY <1>e, SumIsBounded
<1>5. xy \in Int /\ 16 * 0 <= xy /\ xy <= 16 * 2
  BY <1>e, SumIsBounded
<1>6. yy = 144 - 6 * n + xx /\ xy = 3 * n - xx
  <2>1. \A k \in Texel : /\ w[k] \in Int /\ x[k] \in Int
                         /\ y[k] = (-6) * w[k] + 1 * x[k] + 9 /\ z[k] = 3 * w[k] + (-1) * x[k] + 0
    BY <1>1
  <2>2. yy = (-6) * n + 1 * xx + 16 * 9
    BY <2>1, SumOfTerms
  <2>3. xy = 3 * n + (-1) * xx + 16 * 0
    BY <2>1, SumOfTerms
  <2> HIDE DEF n, xx, xy, yy
  <2> QED
    BY <1>2, <1>3, <2>2, <2>3
<1>7. ASSUME NEW j \in Texel, w[j] # w[0] PROVE xx * yy - xy * xy > 0
  <2>1. v = [k \in Texel |-> w[k] * n] /\ Sum16(v) = p
    BY <1>1, <1>2, SumOfMultiples
  <2>2. \A k \in Texel : s[k] = 256 * x[k] - 32 * v[k] + p /\ v[k] \in Int /\ s[k] \in Nat
    <3> TAKE k \in Texel
    <3> DEFINE u == w[k]
    <3>1. u \in Int /\ x[k] = u * u /\ v[k] = u * n /\ s[k] = (16 * u - n) * (16 * u - n)
      BY <1>1 DEF x
    <3> HIDE DEF u, v, s, n
    <3>2. (16 * u - n) * (16 * u - n) = 256 * (u * u) - 32 * (u * n) + n * n
      BY <1>2, <3>1
    <3>3. \A i \in Int : i * i \in Nat
      OBVIOUS
    <3>4. (16 * u - n) * (16 * u - n) \in Nat
      BY <1>2, <3>1, <3>3
    <3>5. u * n \in Int
      BY <1>2, <3>1
    <3> QED
      BY <3>1, <3>2, <3>4, <3>5
  <2>3. p \in Int
    BY <1>2
  <2>4. \E k \in Texel : 16 * w[k] - n # 0
    <3>1. CASE 16 * w[j] - n # 0
      BY <3>1
    <3>2. CASE 16 * w[0] - n # 0
      BY <3>2 DEF Texel
    <3> HIDE DEF n
    <3>3. CASE 16 * w[j] - n = 0 /\ 16 * w[0] - n = 0
      <4>1. 0 \in Texel
        BY DEF Texel
      <4>2. w[j] \in Int /\ w[0] \in Int
        BY <1>1, <4>1
      <4>3. w[j] = w[0]
        BY <1>2, <3>3, <4>2
      <4> QED
        BY <1>7, <4>3
    <3> QED
      BY <3>1, <3>2, <3>3
  <2>5. \E k \in Texel : s[k] > 0
    <3>1. PICK k \in Texel : 16 * w[k] - n # 0
      BY <2>4
    <3> DEFINE d == 16 * w[k] - n
    <3>2. d \in Int /\ d # 0
      BY <1>1, <1>2, <3>1
    <3>3. s[k] = d * d
      OBVIOUS
    <3> HIDE DEF d, s
    <3>4. d * d > 0
      BY <3>2
    <3> QED
      BY <3>3, <3>4
  <2> HIDE DEF s, v, p, n
  <2>6. Sum16(s) > 0
    BY <2>2, <2>5, SumIsPositive
  <2>7. Sum16(s) = 256 * xx - 32 * p + 16 * p
    <3>1. \A k \in Texel : x[k] \in Int /\ v[k] \in Int /\ s[k] = 256 * x[k] + (-32) * v[k] + p
      BY <1>1, <2>2, <2>3
    <3>2. Sum16(s) = 256 * Sum16(x) + (-32) * Sum16(v) + 16 * p
      BY <2>3, <3>1, SumOfTerms
    <3> HIDE DEF xx
    <3> QED
      BY <1>3, <2>1, <2>3, <3>2 DEF xx
  <2> HIDE DEF xx, yy, xy
  <2>8. 16 * xx - p > 0
    BY <1>3, <2>3, <2>6, <2>7
  <2>9. xx * (144 - 6 * n + xx) - (3 * n - xx) * (3 * n - xx) = 9 * (16 * xx - n * n)
    BY <1>2, <1>3
  <2> QED
    BY <1>2, <1>3, <1>6, <2>3, <2>8, <2>9 DEF p
<1> HIDE DEF xx, yy, xy, n
<1> QED
  BY <1>2, <1>3, <1>4, <1>5, <1>6, <1>7, <1>9

(* A quotient, multiplied again, is at most its divisor off.               *)
LEMMA QuotientIsNear ==
  ASSUME NEW n \in Int, NEW d \in Int, d > 0
  PROVE  n \div d \in Int /\ d * (n \div d) <= n /\ n < d * (n \div d) + d
OBVIOUS

(* A coordinate n / det of a solution, in steps of one l-th, rounded and   *)
(* clamped, and how far off that may be.                                   *)
IsRounded(n, det, l, m) == m = Clamped((6 * l * n + 255 * det) \div (510 * det), l)

IsSmall(r, s) == r <= s /\ -s <= r

IsNear(n, det, l, m) == m # 0 /\ m # l => IsSmall(6 * (l * n) - 510 * (det * m), 255 * det)

(* A coordinate of a solution, rounded and clamped.                        *)
LEMMA RoundedIsNear ==
  ASSUME NEW n \in Int, NEW det \in Int, det > 0, NEW l \in Nat, NEW m,
         IsRounded(n, det, l, m)
  PROVE  m \in 0 .. l /\ IsNear(n, det, l, m)
<1> DEFINE a == 6 * l * n + 255 * det
           d == 510 * det
           t == a \div d
           p == l * n
<1>1. p \in Int /\ a = 6 * p + 255 * det
  OBVIOUS
<1>2. a \in Int /\ d \in Int /\ d > 0
  OBVIOUS
<1>3. m = Clamped(t, l)
  BY DEF IsRounded
<1> HIDE DEF a
<1>4. t \in Int /\ d * t <= a /\ a < d * t + d
  <2> HIDE DEF d
  <2> QED
    BY <1>2, QuotientIsNear
<1> HIDE DEF t
<1>5. m \in 0 .. l /\ (m # 0 /\ m # l => m = t)
  BY <1>3, <1>4 DEF Clamped
<1> DEFINE q == det * t
<1>6. d * t = 510 * q /\ q \in Int
  BY <1>4
<1>7. m = t => det * m = q
  OBVIOUS
<1> HIDE DEF p
<1>8. SUFFICES ASSUME m # 0, m # l
               PROVE  6 * p - 510 * (det * m) <= 255 * det /\ -(255 * det) <= 6 * p - 510 * (det * m)
  BY <1>5 DEF p, IsNear, IsSmall
<1>9. det * m = q
  BY <1>5, <1>7, <1>8
<1> HIDE DEF q
<1>10. 510 * q <= 6 * p + 255 * det /\ 6 * p + 255 * det < 510 * q + 510 * det
  BY <1>1, <1>4, <1>6
<1> QED
  BY <1>1, <1>6, <1>9, <1>10

IsSolution(xx, yy, xy, det, t1, t2, n1, n2) ==
  det = xx * yy - xy * xy /\ n1 = t1 * yy - t2 * xy /\ n2 = t2 * xx - t1 * xy

IsSolved(xx, xy, l, t1, m1, m2) == IsSmall(6 * t1 * l - 510 * (xx * m1 + xy * m2), 255 * (xx + xy))

(* A solution rounded satisfies the equations up to the rounding.          *)
LEMMA RoundingIsSmall ==
  ASSUME NEW xx \in Nat, NEW yy \in Nat, NEW xy \in Nat, NEW det, det > 0,
         NEW l \in Nat, NEW t1 \in Int, NEW t2 \in Int, NEW n1, NEW n2, NEW m1 \in Int, NEW m2 \in Int,
         IsSolution(xx, yy, xy, det, t1, t2, n1, n2),
         m1 # 0, m1 # l, IsNear(n1, det, l, m1), m2 # 0, m2 # l, IsNear(n2, det, l, m2)
  PROVE  IsSolved(xx, xy, l, t1, m1, m2)
<1> DEFINE r == 6 * t1 * l - 510 * (xx * m1 + xy * m2)
           r1 == 6 * (l * n1) - 510 * (det * m1)
           r2 == 6 * (l * n2) - 510 * (det * m2)
           b == 255 * det
           s == 255 * (xx + xy)
<1>0. det = xx * yy - xy * xy /\ n1 = t1 * yy - t2 * xy /\ n2 = t2 * xx - t1 * xy
  BY DEF IsSolution
<1>1. det \in Int /\ n1 \in Int /\ n2 \in Int /\ r \in Int /\ b \in Int /\ s \in Int
  BY <1>0
<1>2. r1 \in Int /\ r2 \in Int /\ r1 <= b /\ -b <= r1 /\ r2 <= b /\ -b <= r2
  BY <1>1 DEF IsNear, IsSmall
<1>3. det * r = xx * r1 + xy * r2
  <2>1. xx * n1 + xy * n2 = t1 * (xx * yy - xy * xy)
    BY <1>0
  <2>2. xx * r1 + xy * r2 = 6 * l * (xx * n1 + xy * n2) - 510 * det * (xx * m1 + xy * m2)
    BY <1>1
  <2>3. det * r = 6 * l * (t1 * det) - 510 * det * (xx * m1 + xy * m2)
    BY <1>1
  <2>4. xx * n1 + xy * n2 = t1 * det
    BY <1>0, <2>1
  <2> QED
    BY <2>2, <2>3, <2>4
<1>4. xx * b + xy * b = det * s
  BY <1>1
<1> HIDE DEF r, r1, r2, b, s
<1>5. xx * r1 <= xx * b /\ xy * r2 <= xy * b /\ xx * (-b) <= xx * r1 /\ xy * (-b) <= xy * r2
  <2>1. ASSUME NEW f \in Nat, NEW g \in Int, NEW h \in Int, g <= h PROVE f * g <= f * h
    <3>1. g * f <= h * f
      <4>1. f >= 0 /\ f \in Int
        OBVIOUS
      <4> QED
        BY <2>1, <4>1, ProductsInOrder
    <3> QED
      BY <3>1
  <2>2. -b \in Int
    BY <1>1
  <2> QED
    BY <1>1, <1>2, <2>1, <2>2
<1>6. det * r <= det * s /\ det * (-s) <= det * r
  <2>1. xx * r1 \in Int /\ xy * r2 \in Int /\ xx * b \in Int /\ xy * b \in Int
    BY <1>1, <1>2
  <2>2. xx * (-b) = -(xx * b) /\ xy * (-b) = -(xy * b) /\ det * (-s) = -(det * s)
    BY <1>1
  <2>3. det * r \in Int /\ det * s \in Int
    BY <1>1
  <2> QED
    BY <1>3, <1>4, <1>5, <2>1, <2>2, <2>3
<1>7. ASSUME NEW g \in Int, NEW h \in Int, det * g <= det * h PROVE g <= h
  <2> SUFFICES ASSUME g > h PROVE FALSE
    OBVIOUS
  <2>1. det * (g - h) > 0
    <3>1. \A p, q \in Int : p > 0 /\ q > 0 => p * q > 0
      OBVIOUS
    <3>2. g - h \in Int /\ g - h > 0
      OBVIOUS
    <3> QED
      BY <1>1, <3>1, <3>2
  <2>2. det * (g - h) = det * g - det * h
    BY <1>1
  <2>3. det * g \in Int /\ det * h \in Int
    BY <1>1
  <2> QED
    BY <1>7, <2>1, <2>2, <2>3
<1>8. r <= s /\ -s <= r
  <2>1. -s \in Int
    BY <1>1
  <2> QED
    BY <1>1, <1>6, <1>7, <2>1
<1> QED
  BY <1>8 DEF r, s, IsSmall, IsSolved

(* The weights of max that go with indices.                                *)
Weights(picks) == [k \in Texel |-> w1Tab[picks[k] + 1]]

(* The weights of indices, and the indices of weights.                     *)
LEMMA WeightsOfIndices ==
  ASSUME NEW picks \in [Texel -> 0 .. 3]
  PROVE  /\ Weights(picks) \in [Texel -> 0 .. 3]
         /\ ~Singular(picks) => \E k \in Texel : Weights(picks)[k] # Weights(picks)[0]
<1>1. \A m \in 0 .. 3 : /\ w1Tab[m + 1] \in 0 .. 3
                        /\ \A n \in 0 .. 3 : w1Tab[m + 1] = w1Tab[n + 1] => m = n
  BY DEF w1Tab
<1>2. 0 \in Texel
  BY DEF Texel
<1>3. Weights(picks) \in [Texel -> 0 .. 3]
  BY <1>1 DEF Weights
<1>4. ASSUME NEW k \in Texel, picks[k] # picks[0] PROVE Weights(picks)[k] # Weights(picks)[0]
  BY <1>1, <1>2, <1>4 DEF Weights
<1> QED
  BY <1>3, <1>4 DEF Singular

(* The sums that share a float come apart.                                 *)
LEMMA SumsComeApart ==
  ASSUME NEW picks \in [Texel -> 0 .. 3]
  PROVE  LET akku == Akku(picks)
             w == Weights(picks)
         IN  /\ akku \div 65535 = SumXX(w)
             /\ (akku % 65535) \div 256 = SumYY(w)
             /\ akku % 256 = SumXY(w)
<1> DEFINE w == Weights(picks)
           x == [k \in Texel |-> w[k] * w[k]]
           y == [k \in Texel |-> (3 - w[k]) * (3 - w[k])]
           z == [k \in Texel |-> w[k] * (3 - w[k])]
           t == [k \in Texel |-> 65536 * x[k] + 256 * y[k]]
           p == [k \in Texel |-> prods[picks[k] + 1]]
           akku == Akku(picks)
           xx == SumXX(w)
           yy == SumYY(w)
           xy == SumXY(w)
<1>1. /\ xx \in Nat /\ yy \in Nat /\ xy \in Nat
      /\ xx + xy <= 144 /\ yy <= 144 /\ xy <= 32
  BY WeightsOfIndices, SumsOfWeights
<1>2. akku = Sum16(p)
  BY DEF Akku, SumOver, Sum16, Texel
<1>3. \A k \in Texel : /\ x[k] \in Int /\ y[k] \in Int /\ z[k] \in Int
                       /\ p[k] = 65536 * x[k] + 256 * y[k] + z[k]
  <2> TAKE k \in Texel
  <2>1. /\ picks[k] = 0 => w[k] = 3 /\ p[k] = 589824
        /\ picks[k] = 1 => w[k] = 0 /\ p[k] = 2304
        /\ picks[k] = 2 => w[k] = 2 /\ p[k] = 262402
        /\ picks[k] = 3 => w[k] = 1 /\ p[k] = 66562
    BY DEF Weights, w1Tab, prods
  <2>2. picks[k] \in {0, 1, 2, 3}
    OBVIOUS
  <2>3. x[k] = w[k] * w[k] /\ y[k] = (3 - w[k]) * (3 - w[k]) /\ z[k] = w[k] * (3 - w[k])
    OBVIOUS
  <2> HIDE DEF x, y, z, p, w
  <2>4. CASE w[k] = 3 /\ p[k] = 589824
    BY <2>3, <2>4
  <2>5. CASE w[k] = 0 /\ p[k] = 2304
    BY <2>3, <2>5
  <2>6. CASE w[k] = 2 /\ p[k] = 262402
    BY <2>3, <2>6
  <2>7. CASE w[k] = 1 /\ p[k] = 66562
    BY <2>3, <2>7
  <2> QED
    BY <2>1, <2>2, <2>4, <2>5, <2>6, <2>7
<1>4. xx = Sum16(x) /\ yy = Sum16(y) /\ xy = Sum16(z)
  BY DEF SumXX, SumYY, SumXY
<1> HIDE DEF x, y, z, p, w, akku, xx, yy, xy
<1>5. Sum16(t) = 65536 * Sum16(x) + 256 * Sum16(y) + 16 * 0
  <2>1. \A k \in Texel : x[k] \in Int /\ y[k] \in Int /\ t[k] = 65536 * x[k] + 256 * y[k] + 0
    BY <1>3
  <2> HIDE DEF t
  <2> QED
    BY <2>1, SumOfTerms
<1>6. Sum16(p) = 1 * Sum16(t) + 1 * Sum16(z) + 16 * 0
  <2>1. \A k \in Texel : t[k] \in Int /\ z[k] \in Int /\ p[k] = 1 * t[k] + 1 * z[k] + 0
    BY <1>3
  <2> HIDE DEF t
  <2> QED
    BY <2>1, SumOfTerms
<1> HIDE DEF t
<1>7. akku = 65536 * xx + 256 * yy + xy
  BY <1>1, <1>2, <1>4, <1>5, <1>6
<1>8. akku \div 65535 = xx /\ akku % 65535 = xx + 256 * yy + xy
  <2> DEFINE r == xx + 256 * yy + xy
  <2>1. akku = 65535 * xx + r /\ akku \in Int /\ xx \in Int /\ r \in Int /\ 0 <= r /\ r <= 65534
    BY <1>1, <1>7
  <2> HIDE DEF r
  <2>2. akku \div 65535 = xx
    BY <2>1
  <2>3. akku % 65535 = r
    BY <2>1
  <2> QED
    BY <2>2, <2>3 DEF r
<1>9. (xx + 256 * yy + xy) \div 256 = yy
  BY <1>1
<1>10. akku % 256 = xy
  BY <1>1, <1>7
<1> QED
  BY <1>8, <1>9, <1>10 DEF akku, xx, yy, xy, w

(* What the system's solution is made of.                                  *)
Weighted(block, w, i) == Sum16([k \in Texel |-> block[k][i] * w[k]])

Residue(block, w, new, i) ==
  6 * Weighted(block, w, i) * Levels[i] - 510 * (SumXX(w) * new.max[i] + SumXY(w) * new.min[i])

(* The new endpoints are endpoints, and solve the system unless clamped.   *)
LEMMA SolvedIsSolution ==
  ASSUME NEW block \in [Texel -> Colour], NEW picks \in [Texel -> 0 .. 3], ~Singular(picks)
  PROVE  LET w == Weights(picks)
             new == Solved(block, picks)
         IN  /\ SumXX(w) * SumYY(w) - SumXY(w) * SumXY(w) > 0
             /\ new = [max |-> new.max, min |-> new.min] /\ new.max \in Endpoint /\ new.min \in Endpoint
             /\ \A i \in Rgb :
                  \/ new.max[i] \in {0, Levels[i]} \/ new.min[i] \in {0, Levels[i]}
                  \/ IsSmall(Residue(block, w, new, i), 255 * (SumXX(w) + SumXY(w)))
<1> DEFINE w == Weights(picks)
           new == Solved(block, picks)
           xx == SumXX(w)
           yy == SumYY(w)
           xy == SumXY(w)
           det == xx * yy - xy * xy
           at1(i) == At1(block, picks, i)
           at2(i) == At2(block, picks, i)
           n1(i) == at1(i) * yy - at2(i) * xy
           n2(i) == at2(i) * xx - at1(i) * xy
           rounded(i, n) == Clamped((6 * Levels[i] * n + 255 * det) \div (510 * det), Levels[i])
<1>1. xx \in Nat /\ yy \in Nat /\ xy \in Nat /\ det \in Int /\ det > 0
  BY WeightsOfIndices, SumsOfWeights
<1>2. /\ new.max = <<rounded(1, n1(1)), rounded(2, n1(2)), rounded(3, n1(3))>>
      /\ new.min = <<rounded(1, n2(1)), rounded(2, n2(2)), rounded(3, n2(3))>>
      /\ new = [max |-> new.max, min |-> new.min]
  <2>1. Akku(picks) \div 65535 = xx /\ (Akku(picks) % 65535) \div 256 = yy /\ Akku(picks) % 256 = xy
    BY SumsComeApart
  <2> HIDE DEF xx, yy, xy
  <2>2. new = [max |-> <<rounded(1, n1(1)), rounded(2, n1(2)), rounded(3, n1(3))>>,
               min |-> <<rounded(1, n2(1)), rounded(2, n2(2)), rounded(3, n2(3))>>]
    BY <2>1 DEF Solved, Vector
  <2> HIDE DEF new, rounded, n1, n2
  <2> QED
    BY <2>2
<1>3. ASSUME NEW i \in Rgb
      PROVE  /\ at1(i) = Weighted(block, w, i) /\ at1(i) \in Int /\ at2(i) \in Int
             /\ new.max[i] = rounded(i, n1(i)) /\ new.min[i] = rounded(i, n2(i))
             /\ Levels[i] \in Nat
  <2> DEFINE v == [k \in Texel |-> block[k][i] * w[k]]
             u == [k \in Texel |-> block[k][i] * 3]
  <2>1. \A k \in Texel : v[k] \in Int /\ u[k] \in Int
    <3> TAKE k \in Texel
    <3>3. block[k] \in Colour
      OBVIOUS
    <3>1. block[k][i] \in Int
      BY <3>3 DEF Colour, Rgb
    <3>2. w[k] \in Int
      BY WeightsOfIndices
    <3> QED
      BY <3>1, <3>2
  <2>2. at1(i) = Sum16(v) /\ at2(i) = Sum16(u) - Sum16(v)
    BY DEF At1, At2, SumOver, Sum16, Texel, Weights
  <2>3. Weighted(block, w, i) = Sum16(v)
    BY DEF Weighted
  <2>6. Levels[i] \in Nat
    BY DEF Levels, Rgb
  <2> HIDE DEF u, v
  <2>4. Sum16(v) \in Int /\ Sum16(u) \in Int
    BY <2>1, SumIsInteger
  <2> HIDE DEF at1, at2, rounded, n1, n2
  <2>5. new.max[i] = rounded(i, n1(i)) /\ new.min[i] = rounded(i, n2(i))
    BY <1>2 DEF Rgb
  <2> QED
    BY <2>2, <2>3, <2>4, <2>5, <2>6
<1> HIDE DEF at1, at2, new
<1>5. ASSUME NEW i \in Rgb
      PROVE  /\ new.max[i] \in 0 .. Levels[i] /\ new.min[i] \in 0 .. Levels[i]
             /\ \/ new.max[i] \in {0, Levels[i]} \/ new.min[i] \in {0, Levels[i]}
                \/ IsSmall(Residue(block, w, new, i), 255 * (xx + xy))
  <2> DEFINE l == Levels[i]
             m1 == new.max[i]
             m2 == new.min[i]
             p1 == n1(i)
             p2 == n2(i)
             t1 == at1(i)
             t2 == at2(i)
  <2>1. m1 = rounded(i, p1) /\ m2 = rounded(i, p2) /\ l \in Nat /\ t1 \in Int /\ t2 \in Int
    BY <1>3
  <2>2. p1 = t1 * yy - t2 * xy /\ p2 = t2 * xx - t1 * xy
    OBVIOUS
  <2>3. p1 \in Int /\ p2 \in Int
    <3> HIDE DEF p1, p2, t1, t2, xx, yy, xy
    <3> QED
      BY <1>1, <2>1, <2>2
  <2>4. IsRounded(p1, det, l, m1) /\ IsRounded(p2, det, l, m2)
    BY <2>1 DEF IsRounded
  <2>5. Residue(block, w, new, i) = 6 * t1 * l - 510 * (xx * m1 + xy * m2)
    BY <1>3 DEF Residue
  <2>6. IsSolution(xx, yy, xy, det, t1, t2, p1, p2)
    BY <2>2 DEF IsSolution
  <2> HIDE DEF xx, yy, xy, det, l, m1, m2, p1, p2, t1, t2
  <2>7. m1 \in 0 .. l /\ IsNear(p1, det, l, m1) /\ m2 \in 0 .. l /\ IsNear(p2, det, l, m2)
    <3>1. det \in Int /\ det > 0 /\ l \in Nat /\ p1 \in Int /\ p2 \in Int
      BY <1>1, <2>1, <2>3
    <3>2. m1 \in 0 .. l /\ IsNear(p1, det, l, m1)
      BY <2>4, <3>1, RoundedIsNear, Zenon
    <3>3. m2 \in 0 .. l /\ IsNear(p2, det, l, m2)
      BY <2>4, <3>1, RoundedIsNear, Zenon
    <3> QED
      BY <3>2, <3>3
  <2>8. m1 \in Int /\ m2 \in Int
    BY <2>1, <2>7
  <2>9. CASE m1 # 0 /\ m1 # l /\ m2 # 0 /\ m2 # l
    <3>1. IsSolved(xx, xy, l, t1, m1, m2)
      <4>1. /\ xx \in Nat /\ yy \in Nat /\ xy \in Nat /\ det > 0 /\ l \in Nat /\ t1 \in Int /\ t2 \in Int
            /\ m1 \in Int /\ m2 \in Int
        BY <1>1, <2>1, <2>8
      <4>2. IsNear(p1, det, l, m1) /\ IsNear(p2, det, l, m2)
        BY <2>7
      <4> QED
        BY <2>6, <2>9, <4>1, <4>2, RoundingIsSmall
    <3> QED
      BY <2>5, <2>7, <3>1 DEF IsSolved, m1, m2, l
  <2> QED
    BY <2>7, <2>9 DEF m1, m2, l
<1>6. new.max \in Endpoint /\ new.min \in Endpoint
  <2>1. /\ new.max[1] \in 0 .. 31 /\ new.max[2] \in 0 .. 63 /\ new.max[3] \in 0 .. 31
        /\ new.min[1] \in 0 .. 31 /\ new.min[2] \in 0 .. 63 /\ new.min[3] \in 0 .. 31
    <3>1. Levels[1] = 31 /\ Levels[2] = 63 /\ Levels[3] = 31
      BY DEF Levels
    <3> QED
      BY <1>5, <3>1 DEF Rgb
  <2> HIDE DEF rounded, n1, n2
  <2>2. new.max = <<new.max[1], new.max[2], new.max[3]>> /\ new.min = <<new.min[1], new.min[2], new.min[3]>>
    BY <1>2
  <2> QED
    BY <2>1, <2>2 DEF Endpoint
<1>7. \A i \in Rgb : \/ new.max[i] \in {0, Levels[i]} \/ new.min[i] \in {0, Levels[i]}
                     \/ IsSmall(Residue(block, w, new, i), 255 * (xx + xy))
  BY <1>5
<1>8. new = [max |-> new.max, min |-> new.min]
  BY <1>2
<1>9. det > 0
  BY <1>1
<1> HIDE DEF rounded, n1, n2
<1> QED
  BY <1>6, <1>7, <1>8, <1>9, Zenon DEF new, det, xx, yy, xy, w

(* The endpoints, and the indices, the other way round.                    *)
Swapped(e) == [max |-> e.min, min |-> e.max]
Exchanged(m) == [k \in Texel |-> IF m[k] % 2 = 0 THEN m[k] + 1 ELSE m[k] - 1]

(* The palette of swapped endpoints is the same with indices exchanged,    *)
(* and so is what is nearest.                                              *)
LEMMA SwapKeepsNearest ==
  ASSUME NEW block \in [Texel -> Colour], NEW e, e.max \in Endpoint, e.min \in Endpoint,
         NEW m \in [Texel -> 0 .. 3], IsNearest(block, e, m)
  PROVE  Exchanged(m) \in [Texel -> 0 .. 3] /\ IsNearest(block, Swapped(e), Exchanged(m))
<1> DEFINE s == Swapped(e)
           x == Exchanged(m)
           other(step) == IF step % 2 = 0 THEN step + 1 ELSE step - 1
<1>1. s.max = e.min /\ s.min = e.max
  BY DEF Swapped
<1>2. \A step \in 0 .. 3 : other(step) \in 0 .. 3 /\ other(other(step)) = step
  OBVIOUS
<1>3. x \in [Texel -> 0 .. 3] /\ \A k \in Texel : x[k] = other(m[k])
  <2>1. \A k \in Texel : m[k] \in 0 .. 3
    OBVIOUS
  <2>2. x = [k \in Texel |-> other(m[k])]
    BY DEF Exchanged
  <2> HIDE DEF x, other
  <2> QED
    BY <1>2, <2>1, <2>2
<1> DEFINE a == rgb565to888(e.max)
           b == rgb565to888(e.min)
<1>4. EvalColors(e) = <<a, b, lerp13(a, b), lerp13(b, a)>> /\ EvalColors(s) = <<b, a, lerp13(b, a), lerp13(a, b)>>
  BY <1>1 DEF EvalColors
<1>5. \A step \in 0 .. 3 : EvalColors(s)[step + 1] = EvalColors(e)[other(step) + 1]
  <2> HIDE DEF a, b
  <2> QED
    BY <1>4
<1> DEFINE d == Direction(e)
           f == Direction(s)
<1>6. d[1] \in Int /\ d[2] \in Int /\ d[3] \in Int /\ f[1] = -d[1] /\ f[2] = -d[2] /\ f[3] = -d[3]
  <2>1. a \in Colour /\ b \in Colour
    BY ExpandedIsColour
  <2>2. /\ d = <<a[1] - b[1], a[2] - b[2], a[3] - b[3]>>
        /\ f = <<b[1] - a[1], b[2] - a[2], b[3] - a[3]>>
    <3> HIDE DEF a, b
    <3> QED
      BY <1>4 DEF Direction, Vector
  <2> HIDE DEF a, b, d, f
  <2>3. /\ a[1] \in Int /\ a[2] \in Int /\ a[3] \in Int
        /\ b[1] \in Int /\ b[2] \in Int /\ b[3] \in Int
    BY <2>1 DEF Colour
  <2> QED
    BY <2>2, <2>3
<1>7. \A c \in Colour : Along(s, c) = -Along(e, c) /\ Along(e, c) \in Int
  <2> TAKE c \in Colour
  <2>1. c[1] \in Int /\ c[2] \in Int /\ c[3] \in Int
    BY DEF Colour
  <2>2. Along(e, c) = c[1] * d[1] + c[2] * d[2] + c[3] * d[3] /\ Along(s, c) = c[1] * f[1] + c[2] * f[2] + c[3] * f[3]
    BY DEF Along, Dot
  <2> HIDE DEF d, f
  <2> QED
    BY <1>6, <2>1, <2>2
<1>8. \A step \in 0 .. 3 : EvalColors(e)[step + 1] \in Colour
  <2>1. a \in Colour /\ b \in Colour
    BY ExpandedIsColour
  <2>2. \A u, v \in Colour : lerp13(u, v) \in Colour
    <3> TAKE u \in Colour, v \in Colour
    <3>1. \A i \in Rgb : u[i] \in 0 .. 255 /\ v[i] \in 0 .. 255
      BY DEF Colour, Rgb
    <3> DEFINE n(i) == (2 * u[i] + v[i]) \div 3
    <3>2. \A i \in Rgb : n(i) \in 0 .. 255
      <4> TAKE i \in Rgb
      <4> DEFINE g == u[i]
                 h == v[i]
      <4>1. g \in 0 .. 255 /\ h \in 0 .. 255
        BY <3>1
      <4> HIDE DEF g, h
      <4>2. (2 * g + h) \div 3 \in 0 .. 255
        BY <4>1
      <4> QED
        BY <4>2 DEF g, h
    <3>4. lerp13(u, v) = <<n(1), n(2), n(3)>>
      BY DEF lerp13, Vector
    <3> HIDE DEF n
    <3>3. n(1) \in 0 .. 255 /\ n(2) \in 0 .. 255 /\ n(3) \in 0 .. 255
      BY <3>2 DEF Rgb
    <3> QED
      BY <3>3, <3>4 DEF Colour
  <2> HIDE DEF a, b
  <2>3. lerp13(a, b) \in Colour /\ lerp13(b, a) \in Colour
    BY <2>1, <2>2
  <2> QED
    BY <1>4, <2>1, <2>3
<1>9. \A step \in 0 .. 3 : Stop(s, step) = -Stop(e, other(step)) /\ Stop(e, other(step)) \in Int
  <2> TAKE step \in 0 .. 3
  <2> DEFINE c == EvalColors(e)[other(step) + 1]
  <2>1. other(step) \in 0 .. 3
    BY <1>2
  <2> HIDE DEF other, s
  <2>2. c \in Colour
    BY <1>8, <2>1
  <2>3. Stop(s, step) = Along(s, c) /\ Stop(e, other(step)) = Along(e, c)
    BY <1>5 DEF Stop
  <2> HIDE DEF c
  <2> QED
    BY <1>7, <2>2, <2>3
<1>10. ASSUME NEW k \in Texel, NEW step \in 0 .. 3
       PROVE  Apart(Along(s, block[k]), Stop(s, x[k])) <= Apart(Along(s, block[k]), Stop(s, step)) + 1
  <2> DEFINE p == Along(e, block[k])
             q == Stop(e, m[k])
             r == Stop(e, other(step))
  <2>1. block[k] \in Colour /\ m[k] \in 0 .. 3
    OBVIOUS
  <2>2. x[k] \in 0 .. 3 /\ other(x[k]) = m[k] /\ other(step) \in 0 .. 3
    BY <1>2, <1>3, <2>1
  <2> HIDE DEF other, s, x
  <2>3. Along(s, block[k]) = -p /\ p \in Int
    BY <1>7, <2>1
  <2>4. Stop(s, x[k]) = -q /\ q \in Int /\ Stop(s, step) = -r /\ r \in Int
    BY <1>9, <2>2
  <2>5. Apart(p, q) <= Apart(p, r) + 1
    BY <2>2 DEF IsNearest
  <2> HIDE DEF p, q, r
  <2>6. Apart(-p, -q) = Apart(p, q) /\ Apart(-p, -r) = Apart(p, r)
    BY <2>3, <2>4 DEF Apart
  <2> QED
    BY <2>3, <2>4, <2>5, <2>6
<1> QED
  BY <1>3, <1>10 DEF IsNearest

(* What an action may leave.  Once there are endpoints the indices are     *)
(* theirs; equal endpoints have no index that means black; a block of one  *)
(* colour has its endpoints from the tables, either way round.             *)
OfTypes ==
  /\ texels \in [Texel -> Colour] /\ dithered \in BOOLEAN
  /\ stage \in {"start", "refine", "order", "stored"}
  /\ indices \in [Texel -> 0 .. 3]
  /\ stage # "start" => ends = [max |-> ends.max, min |-> ends.min] /\ ends.max \in Endpoint /\ ends.min \in Endpoint

NoBlack == stage # "start" /\ ends.max = ends.min => \A k \in Texel : indices[k] # 3

Nearest ==
  stage # "start" /\ ~dithered /\ ends.max # ends.min /\ ~bAllColoursEqual => IsNearest(texels, ends, indices)

OfOneColour ==
  /\ stage = "refine" => ~bAllColoursEqual
  /\ stage = "order" /\ bAllColoursEqual => ends = OneColour(texels[0]) /\ indices = AllIndices(2)
  /\ stage = "stored" /\ bAllColoursEqual =>
       \/ ends = OneColour(texels[0]) /\ indices = AllIndices(2)
       \/ ends = Swapped(OneColour(texels[0])) /\ indices = AllIndices(3)

InOrder == stage = "stored" => Packed565(ends.max) >= Packed565(ends.min)

Bc1Invariant == OfTypes /\ NoBlack /\ Nearest /\ OfOneColour /\ InOrder

(* Indices chosen for endpoints.                                           *)
OfEnds(e, m) ==
  /\ m \in [Texel -> 0 .. 3]
  /\ e.max = e.min => \A k \in Texel : m[k] # 3
  /\ ~dithered /\ e.max # e.min => IsNearest(texels, e, m)

(* A block of one index.                                                   *)
LEMMA AllIndicesAreIndices ==
  ASSUME NEW step \in 0 .. 3
  PROVE  AllIndices(step) \in [Texel -> 0 .. 3] /\ \A k \in Texel : AllIndices(step)[k] = step
BY DEF AllIndices

(* The indices of OptimizeColorsBlock and Refine are of their endpoints.   *)
LEMMA ChosenAreOfEnds ==
  ASSUME texels \in [Texel -> Colour], NEW e, e.max \in Endpoint, e.min \in Endpoint
  PROVE  /\ e.max = e.min => OfEnds(e, AllIndices(0))
         /\ e.max # e.min => OfEnds(e, MatchColorsBlock(e))
<1>1. CASE e.max = e.min
  BY <1>1, AllIndicesAreIndices DEF OfEnds
<1>2. CASE e.max # e.min
  BY <1>2, MatchIsOfIndices, MatchIsNearest DEF OfEnds
<1> QED
  BY <1>1, <1>2

(* It holds when nothing has been chosen,                                  *)
LEMMA Bc1InitIsKept == Bc1Init => Bc1Invariant
<1> SUFFICES ASSUME Bc1Init PROVE Bc1Invariant
  OBVIOUS
<1>1. PICK input \in Bc1Input : texels = input.texels /\ dithered = input.dithered
  BY DEF Bc1Init
<1>2. texels \in [Texel -> Colour] /\ dithered \in BOOLEAN
  BY <1>1, Bc1BlockAssumption DEF Colour
<1>3. stage = "start" /\ indices \in [Texel -> 0 .. 3]
  BY AllIndicesAreIndices DEF Bc1Init
<1> QED
  BY <1>2, <1>3 DEF Bc1Invariant, OfTypes, NoBlack, Nearest, OfOneColour, InOrder

(* with the endpoints of the tables,                                       *)
LEMMA UniformKeeps ==
  ASSUME Bc1Invariant, Uniform
  PROVE  Bc1Invariant'
<1> DEFINE c == texels[0]
<1>1. c \in Colour /\ bAllColoursEqual /\ texels' = texels /\ dithered' = dithered
  BY DEF Bc1Invariant, OfTypes, Uniform, Texel
<1>2. ends' = OneColour(c) /\ indices' = AllIndices(2) /\ stage' = "order"
  BY DEF Uniform
<1>3. OneColour(c).max \in Endpoint /\ OneColour(c).min \in Endpoint
  BY <1>1, OneColourIsNear
<1>4. OneColour(c) = [max |-> OneColour(c).max, min |-> OneColour(c).min]
  BY DEF OneColour
<1> HIDE DEF c
<1>5. OfTypes'
  BY <1>1, <1>2, <1>3, <1>4, AllIndicesAreIndices DEF Bc1Invariant, OfTypes
<1>6. NoBlack'
  BY <1>2, AllIndicesAreIndices DEF NoBlack
<1>7. bAllColoursEqual'
  BY <1>1 DEF bAllColoursEqual
<1> QED
  BY <1>1, <1>2, <1>5, <1>6, <1>7 DEF Bc1Invariant, Nearest, OfOneColour, InOrder, c

(* The step that leaves endpoints and indices of them.                     *)
LEMMA ChoiceKeeps ==
  ASSUME Bc1Invariant, ~bAllColoursEqual, texels' = texels, dithered' = dithered, stage' \in {"refine", "order"},
         NEW max \in Endpoint, NEW min \in Endpoint, ends' = [max |-> max, min |-> min], OfEnds(ends', indices')
  PROVE  Bc1Invariant'
<1>1. ends'.max = max /\ ends'.min = min
  OBVIOUS
<1>2. OfTypes'
  BY <1>1 DEF Bc1Invariant, OfTypes, OfEnds
<1>3. NoBlack'
  BY DEF NoBlack, OfEnds
<1>4. ~bAllColoursEqual'
  BY DEF bAllColoursEqual
<1>5. Nearest'
  BY DEF Nearest, OfEnds
<1> QED
  BY <1>2, <1>3, <1>4, <1>5 DEF Bc1Invariant, OfOneColour, InOrder

(* with the endpoints of two texels,                                       *)
LEMMA OptimizeKeeps ==
  ASSUME Bc1Invariant, OptimizeColorsBlock
  PROVE  Bc1Invariant'
<1>1. texels \in [Texel -> Colour]
  BY DEF Bc1Invariant, OfTypes
<1>2. PICK max \in {rgb888to565(ditherPixelsBlock[k]) : k \in Texel},
           min \in {rgb888to565(ditherPixelsBlock[k]) : k \in Texel} :
        /\ ends' = [max |-> max, min |-> min]
        /\ indices' = IF max = min THEN AllIndices(0) ELSE MatchColorsBlock(ends')
  BY DEF OptimizeColorsBlock
<1>3. max \in Endpoint /\ min \in Endpoint
  BY <1>1, DitheredIsBlock, RoundedIsEndpoint
<1>4. ends'.max = max /\ ends'.min = min
  BY <1>2
<1>5. OfEnds(ends', indices')
  BY <1>1, <1>2, <1>3, <1>4, ChosenAreOfEnds
<1>6. ~bAllColoursEqual /\ texels' = texels /\ dithered' = dithered /\ stage' = "refine"
  BY DEF OptimizeColorsBlock
<1> QED
  BY <1>2, <1>3, <1>5, <1>6, ChoiceKeeps

(* New endpoints of a refinement.                                          *)
LEMMA RefinedIsEnds ==
  ASSUME OfTypes
  PROVE  RefineBlock = [max |-> RefineBlock.max, min |-> RefineBlock.min]
         /\ RefineBlock.max \in Endpoint /\ RefineBlock.min \in Endpoint
<1> DEFINE block == ditherPixelsBlock
<1>1. block \in [Texel -> Colour] /\ indices \in [Texel -> 0 .. 3]
  BY DitheredIsBlock DEF OfTypes
<1> HIDE DEF block
<1>2. CASE Singular(indices)
  <2> DEFINE c == Average(block)
  <2>1. RefineBlock = OneColour(c)
    BY <1>2 DEF RefineBlock, block
  <2>2. c \in Colour
    BY <1>1, AverageIsColour
  <2> HIDE DEF c
  <2>3. OneColour(c).max \in Endpoint /\ OneColour(c).min \in Endpoint
    BY <2>2, OneColourIsNear
  <2>4. OneColour(c) = [max |-> OneColour(c).max, min |-> OneColour(c).min]
    BY DEF OneColour
  <2> QED
    BY <2>1, <2>3, <2>4
<1>3. CASE ~Singular(indices)
  <2>1. RefineBlock = Solved(block, indices)
    BY <1>3 DEF RefineBlock, block
  <2> DEFINE new == Solved(block, indices)
  <2>2. new = [max |-> new.max, min |-> new.min] /\ new.max \in Endpoint /\ new.min \in Endpoint
    BY <1>1, <1>3, SolvedIsSolution
  <2> HIDE DEF new
  <2> QED
    BY <2>1, <2>2 DEF new
<1> QED
  BY <1>2, <1>3

(* with those of a refinement, which may keep indices only with            *)
(* endpoints,                                                              *)
LEMMA RefineKeeps ==
  ASSUME Bc1Invariant, Refine
  PROVE  Bc1Invariant'
<1> DEFINE new == RefineBlock
<1>1. OfTypes /\ texels \in [Texel -> Colour] /\ stage = "refine" /\ ~bAllColoursEqual
  BY DEF Bc1Invariant, OfTypes, OfOneColour, Refine
<1>2. new = [max |-> new.max, min |-> new.min] /\ new.max \in Endpoint /\ new.min \in Endpoint
  BY <1>1, RefinedIsEnds
<1>3. ends' = new /\ indices' = NewIndices(new) /\ texels' = texels /\ dithered' = dithered
  BY DEF Refine
<1>4. stage' \in {"refine", "order"}
  BY DEF Refine
<1> HIDE DEF new
<1>5. OfEnds(new, NewIndices(new))
  <2>1. CASE new = ends
    <3>1. OfEnds(ends, indices)
      BY <1>1 DEF Bc1Invariant, OfTypes, NoBlack, Nearest, OfEnds
    <3> QED
      BY <2>1, <3>1 DEF NewIndices
  <2>2. CASE new # ends /\ new.max # new.min
    BY <1>1, <1>2, <2>2, ChosenAreOfEnds DEF NewIndices
  <2>3. CASE new # ends /\ new.max = new.min
    BY <1>1, <1>2, <2>3, ChosenAreOfEnds DEF NewIndices
  <2> QED
    BY <2>1, <2>2, <2>3
<1>6. OfEnds(ends', indices')
  BY <1>3, <1>5
<1> QED
  BY <1>1, <1>2, <1>3, <1>4, <1>6, ChoiceKeeps

(* and after the swap, which renames the indices of the same palette.      *)
LEMMA OrderKeeps ==
  ASSUME Bc1Invariant, Order
  PROVE  Bc1Invariant'
<1>1. /\ stage = "order" /\ stage' = "stored" /\ texels' = texels /\ dithered' = dithered
      /\ bAllColoursEqual' = bAllColoursEqual
  BY DEF Order, bAllColoursEqual
<1>2. /\ texels \in [Texel -> Colour] /\ dithered \in BOOLEAN /\ indices \in [Texel -> 0 .. 3]
      /\ ends = [max |-> ends.max, min |-> ends.min] /\ ends.max \in Endpoint /\ ends.min \in Endpoint
  BY <1>1 DEF Bc1Invariant, OfTypes
<1>3. Packed565(ends.max) \in Nat /\ Packed565(ends.min) \in Nat
  BY <1>2, EndpointsDiffer
<1>4. CASE ~(Packed565(ends.max) < Packed565(ends.min))
  <2>1. ends' = ends /\ indices' = indices
    BY <1>4 DEF Order
  <2>2. OfTypes' /\ NoBlack' /\ Nearest'
    BY <1>1, <1>2, <2>1 DEF Bc1Invariant, OfTypes, NoBlack, Nearest
  <2>3. OfOneColour'
    BY <1>1, <2>1 DEF Bc1Invariant, OfOneColour
  <2>4. InOrder'
    BY <1>3, <1>4, <2>1 DEF InOrder
  <2> QED
    BY <2>2, <2>3, <2>4 DEF Bc1Invariant
<1>5. CASE Packed565(ends.max) < Packed565(ends.min)
  <2>1. ends' = Swapped(ends) /\ indices' = Exchanged(indices)
    BY <1>5 DEF Order, Swapped, Exchanged
  <2>2. ends'.max = ends.min /\ ends'.min = ends.max /\ ends.max # ends.min
        /\ ends' = [max |-> ends'.max, min |-> ends'.min]
    <3>1. ends.max # ends.min
      BY <1>3, <1>5
    <3> QED
      BY <2>1, <3>1 DEF Swapped
  <2>3. indices' \in [Texel -> 0 .. 3]
    <3>1. \A k \in Texel : indices[k] \in 0 .. 3
      BY <1>2
    <3>2. \A n \in 0 .. 3 : (IF n % 2 = 0 THEN n + 1 ELSE n - 1) \in 0 .. 3
      OBVIOUS
    <3> QED
      BY <2>1, <3>1, <3>2 DEF Exchanged
  <2>4. OfTypes' /\ NoBlack'
    BY <1>1, <1>2, <2>2, <2>3 DEF OfTypes, NoBlack
  <2>5. Nearest'
    <3> SUFFICES ASSUME ~dithered, ~bAllColoursEqual PROVE IsNearest(texels, ends', indices')
      BY <1>1 DEF Nearest
    <3>1. IsNearest(texels, ends, indices)
      BY <1>1, <2>2 DEF Bc1Invariant, Nearest
    <3> QED
      BY <1>2, <2>1, <3>1, SwapKeepsNearest
  <2>6. OfOneColour'
    <3> SUFFICES ASSUME bAllColoursEqual
                 PROVE  ends' = Swapped(OneColour(texels[0])) /\ indices' = AllIndices(3)
      BY <1>1 DEF OfOneColour
    <3>1. ends = OneColour(texels[0]) /\ indices = AllIndices(2)
      BY <1>1 DEF Bc1Invariant, OfOneColour
    <3>2. Exchanged(AllIndices(2)) = AllIndices(3)
      BY DEF Exchanged, AllIndices
    <3> QED
      BY <2>1, <3>1, <3>2
  <2>7. InOrder'
    BY <1>3, <1>5, <2>2 DEF InOrder
  <2> QED
    BY <2>4, <2>5, <2>6, <2>7 DEF Bc1Invariant
<1> QED
  BY <1>4, <1>5

(* The invariant holds of every behaviour.                                 *)
LEMMA Bc1InvariantHolds == Bc1Spec => []Bc1Invariant
<1>1. Bc1Invariant /\ [Bc1Next]_bc1Vars => Bc1Invariant'
  <2> SUFFICES ASSUME Bc1Invariant, [Bc1Next]_bc1Vars PROVE Bc1Invariant'
    OBVIOUS
  <2>1. CASE Uniform
    BY <2>1, UniformKeeps
  <2>2. CASE OptimizeColorsBlock
    BY <2>2, OptimizeKeeps
  <2>3. CASE Refine
    BY <2>3, RefineKeeps
  <2>4. CASE Order
    BY <2>4, OrderKeeps
  <2>5. CASE UNCHANGED bc1Vars
    BY <2>5 DEF bc1Vars, Bc1Invariant, OfTypes, NoBlack, Nearest, OfOneColour, InOrder, bAllColoursEqual
  <2> QED
    BY <2>1, <2>2, <2>3, <2>4, <2>5 DEF Bc1Next
<1> QED
  BY <1>1, Bc1InitIsKept, PTL DEF Bc1Spec

(* What is stored has the palette the indices were chosen for.             *)
LEMMA FourColoursOfInvariant == Bc1Invariant => FourColoursOrNoBlack
<1> SUFFICES ASSUME Bc1Invariant, Stored
             PROVE  \/ Packed565(ends.max) > Packed565(ends.min)
                    \/ ends.max = ends.min /\ \A k \in Texel : indices[k] # 3
  BY DEF FourColoursOrNoBlack
<1>1. /\ ends.max \in Endpoint /\ ends.min \in Endpoint /\ Packed565(ends.max) >= Packed565(ends.min)
      /\ ends.max = ends.min => \A k \in Texel : indices[k] # 3
  BY DEF Bc1Invariant, OfTypes, NoBlack, InOrder, Stored
<1>2. /\ Packed565(ends.max) \in Nat /\ Packed565(ends.min) \in Nat
      /\ Packed565(ends.max) = Packed565(ends.min) => ends.max = ends.min
  BY <1>1, EndpointsDiffer
<1> QED
  BY <1>1, <1>2

(* The indices are nearest.                                                *)
LEMMA IndicesOfInvariant == Bc1Invariant => IndicesAreOfEnds
<1> SUFFICES ASSUME Bc1Invariant, Stored, ~dithered, ends.max # ends.min, ~bAllColoursEqual,
                    NEW k \in Texel, NEW step \in 0 .. 3
             PROVE  Apart(Along(ends, texels[k]), Stop(ends, indices[k]))
                      <= Apart(Along(ends, texels[k]), Stop(ends, step)) + 1
  BY DEF IndicesAreOfEnds, Along, Stop, Direction
<1>1. IsNearest(texels, ends, indices)
  BY DEF Bc1Invariant, Nearest, Stored
<1> QED
  BY <1>1 DEF IsNearest

(* Colour 2 or, swapped, 3 of the tables' endpoints is the texels' colour  *)
(* or next to it.                                                          *)
LEMMA OneColourOfInvariant == Bc1Invariant => OneColourIsKept
<1> SUFFICES ASSUME Bc1Invariant, Stored, bAllColoursEqual, NEW i \in Rgb
             PROVE  Apart(Painted[0][i], texels[0][i]) <= 1
  BY DEF OneColourIsKept
<1> DEFINE c == texels[0]
           e == OneColour(c)
<1>1. c \in Colour
  BY DEF Bc1Invariant, OfTypes, Texel
<1>2. \/ ends = e /\ indices = AllIndices(2)
      \/ ends = Swapped(e) /\ indices = AllIndices(3)
  BY DEF Bc1Invariant, OfOneColour, Stored
<1> HIDE DEF c
<1>3. Apart(EvalColors(e)[3][i], c[i]) <= 1 /\ Apart(EvalColors(Swapped(e))[4][i], c[i]) <= 1
  BY <1>1, OneColourIsNear DEF Swapped
<1> HIDE DEF e
<1>4. Painted[0] = EvalColors(ends)[indices[0] + 1] /\ AllIndices(2)[0] = 2 /\ AllIndices(3)[0] = 3
  BY DEF Painted, AllIndices, Texel
<1>5. Painted[0] = EvalColors(e)[3] \/ Painted[0] = EvalColors(Swapped(e))[4]
  BY <1>2, <1>4
<1> QED
  BY <1>3, <1>5 DEF c

(* The system solved is regular, and its solution is one.                  *)
LEMMA SystemOfInvariant == Bc1Invariant => SystemIsSolved
<1> SUFFICES ASSUME Bc1Invariant, ~Singular(indices) PROVE SystemIsSolved
  BY DEF SystemIsSolved
<1> DEFINE block == ditherPixelsBlock
           w1 == [k \in Texel |-> w1Tab[indices[k] + 1]]
           w == Weights(indices)
           xx == SumOver(LAMBDA k : w1[k] * w1[k])
           yy == SumOver(LAMBDA k : (3 - w1[k]) * (3 - w1[k]))
           xy == SumOver(LAMBDA k : w1[k] * (3 - w1[k]))
           new == Solved(block, indices)
           residue(i) == SumOver(LAMBDA k : 6 * block[k][i] * w1[k]) * Levels[i]
                         - 510 * (xx * new.max[i] + xy * new.min[i])
<1>1. block \in [Texel -> Colour] /\ indices \in [Texel -> 0 .. 3]
  BY DitheredIsBlock DEF Bc1Invariant, OfTypes
<1>2. w1 = w /\ w \in [Texel -> 0 .. 3]
  BY <1>1, WeightsOfIndices DEF Weights
<1> HIDE DEF w, block, w1
<1>3. xx = SumXX(w) /\ yy = SumYY(w) /\ xy = SumXY(w)
  BY <1>2 DEF SumOver, SumXX, SumYY, SumXY, Sum16, Texel
<1> DEFINE wx == SumXX(w)
           wy == SumYY(w)
           wz == SumXY(w)
<1>4. wx * wy - wz * wz > 0
      /\ new.max \in Endpoint /\ new.min \in Endpoint
      /\ \A i \in Rgb :
           \/ new.max[i] \in {0, Levels[i]} \/ new.min[i] \in {0, Levels[i]}
           \/ IsSmall(Residue(block, w, new, i), 255 * (wx + wz))
  BY <1>1, SolvedIsSolution DEF w
<1>5. wx \in Nat /\ wy \in Nat /\ wz \in Nat
  BY <1>2, SumsOfWeights
<1> HIDE DEF new
<1>6. ASSUME NEW i \in Rgb PROVE residue(i) = Residue(block, w, new, i)
  <2> DEFINE x == [k \in Texel |-> block[k][i] * w[k]]
             y == [k \in Texel |-> 6 * block[k][i] * w[k]]
             s == SumOver(LAMBDA k : 6 * block[k][i] * w1[k])
  <2>1. \A k \in Texel : x[k] \in Int /\ x[k] * 6 = y[k]
    <3> TAKE k \in Texel
    <3> DEFINE g == block[k][i]
               h == w[k]
    <3>1. block[k] \in Colour
      BY <1>1
    <3>2. g \in Int /\ h \in Int
      BY <1>2, <3>1 DEF Colour, Rgb
    <3>3. x[k] = g * h /\ y[k] = 6 * g * h
      OBVIOUS
    <3> HIDE DEF g, h, x, y
    <3> QED
      BY <3>2, <3>3
  <2>2. s = Sum16(y)
    BY <1>2 DEF SumOver, Sum16, Texel
  <2>3. Weighted(block, w, i) = Sum16(x)
    BY DEF Weighted
  <2>4. y = [k \in Texel |-> x[k] * 6]
    <3>1. y = [k \in Texel |-> y[k]]
      OBVIOUS
    <3> HIDE DEF x, y
    <3> QED
      BY <2>1, <3>1
  <2>7. residue(i) = s * Levels[i] - 510 * (xx * new.max[i] + xy * new.min[i])
    OBVIOUS
  <2> HIDE DEF x, y, s, residue, xx, xy
  <2>5. s = Sum16(x) * 6 /\ Sum16(x) \in Int
    BY <2>1, <2>2, <2>4, SumOfMultiples, SumIsInteger
  <2>6. s = 6 * Weighted(block, w, i)
    BY <2>3, <2>5
  <2> QED
    BY <1>3, <2>6, <2>7 DEF Residue
<1>7. xx * yy > xy * xy
  <2> HIDE DEF xx, yy, xy, wx, wy, wz
  <2>1. xx = wx /\ yy = wy /\ xy = wz
    BY <1>3 DEF wx, wy, wz
  <2> QED
    BY <1>4, <1>5, <2>1
<1>8. ASSUME NEW i \in Rgb
      PROVE  {new.max[i], new.min[i]} \cap {0, Levels[i]} # {} \/ Apart(residue(i), 0) <= 255 * (xx + xy)
  <2>1. CASE new.max[i] \in {0, Levels[i]} \/ new.min[i] \in {0, Levels[i]}
    BY <2>1
  <2>2. CASE IsSmall(Residue(block, w, new, i), 255 * (wx + wz))
    <3> DEFINE r == residue(i)
               b == wx + wz
    <3>1. IsSmall(r, 255 * b)
      BY <1>6, <2>2
    <3>2. xx + xy = b /\ b \in Int
      <4>1. xx = wx /\ xy = wz
        BY <1>3
      <4> HIDE DEF xx, xy, wx, wz
      <4> QED
        BY <1>5, <4>1
    <3>3. r \in Int
      <4>1. new.max[i] \in Int /\ new.min[i] \in Int /\ Levels[i] \in Int
        BY <1>4 DEF Endpoint, Levels, Rgb
      <4>2. Weighted(block, w, i) \in Int
        <5> DEFINE x == [k \in Texel |-> block[k][i] * w[k]]
        <5>1. \A k \in Texel : x[k] \in Int
          <6> TAKE k \in Texel
          <6>1. block[k] \in Colour /\ w[k] \in Int
            BY <1>1, <1>2
          <6>2. block[k][i] \in Int
            BY <6>1 DEF Colour, Rgb
          <6> QED
            BY <6>1, <6>2
        <5> HIDE DEF x
        <5>2. Sum16(x) \in Int
          BY <5>1, SumIsInteger
        <5> QED
          BY <5>2 DEF Weighted, x
      <4>3. Residue(block, w, new, i) = 6 * Weighted(block, w, i) * Levels[i] - 510 * (wx * new.max[i] + wz * new.min[i])
        BY DEF Residue
      <4> HIDE DEF wx, wz, residue
      <4>4. Residue(block, w, new, i) \in Int
        BY <1>5, <4>1, <4>2, <4>3
      <4> QED
        BY <1>6, <4>4
    <3> HIDE DEF r, b, xx, xy, residue
    <3>4. Apart(r, 0) <= 255 * b
      BY <3>1, <3>2, <3>3 DEF Apart, IsSmall
    <3> QED
      BY <3>2, <3>4 DEF r
  <2> QED
    BY <1>4, <2>1, <2>2
<1> HIDE DEF xx, yy, xy, residue
<1> QED
  BY <1>7, <1>8 DEF SystemIsSolved, xx, yy, xy, residue, new, block, w1

(* Whatever happened to the endpoints since the indices were chosen, the   *)
(* block stored has the palette they were chosen for, or no black index    *)
(* (bc1.glsl: the swap, the reset of the mask).                            *)
THEOREM FourColours == Bc1Spec => []FourColoursOrNoBlack
BY Bc1InvariantHolds, FourColoursOfInvariant, PTL

(* The indices stored are nearest to the texels among the palette of the   *)
(* endpoints stored (MatchColorsBlock after the last RefineBlock).         *)
THEOREM IndicesFitEnds == Bc1Spec => []IndicesAreOfEnds
BY Bc1InvariantHolds, IndicesOfInvariant, PTL

(* A block of one colour is painted with it or a neighbour, whichever of   *)
(* its endpoints is the larger (stb__OMatch5, stb__OMatch6 and the swap).  *)
THEOREM UniformIsKept == Bc1Spec => []OneColourIsKept
BY Bc1InvariantHolds, OneColourOfInvariant, PTL

(* RefineBlock never divides by zero, its packed sums come apart and its   *)
(* endpoints solve the normal equations up to rounding or clamping.        *)
THEOREM RefinementSolves == Bc1Spec => []SystemIsSolved
BY Bc1InvariantHolds, SystemOfInvariant, PTL

=============================================================================
