------------------------------ MODULE LayoutProofs ------------------------------
(***************************************************************************)
(* Proofs about the layouts of EtcBlocks and Bc6hBlock: that a decoder     *)
(* reads from a block the mode, the fields and the indices the shaders     *)
(* meant, for every block the searches can find.                           *)
(***************************************************************************)
EXTENDS EtcBlocks, Bc6hBlock, TLAPS

-----------------------------------------------------------------------------
(* Numbers and their digits.                                               *)

(* The powers that Bit divides by.                                         *)
LEMMA Powers ==
  /\ 2 ^ 0 = 1 /\ 2 ^ 1 = 2 /\ 2 ^ 2 = 4 /\ 2 ^ 3 = 8
  /\ 2 ^ 4 = 16 /\ 2 ^ 5 = 32 /\ 2 ^ 6 = 64 /\ 2 ^ 7 = 128
OBVIOUS

(* Bit as a division by a number.                                          *)
LEMMA BitIs ==
  ASSUME NEW n \in Nat
  PROVE  /\ Bit(n, 0) = n % 2 /\ Bit(n, 1) = (n \div 2) % 2
         /\ Bit(n, 2) = (n \div 4) % 2 /\ Bit(n, 3) = (n \div 8) % 2
         /\ Bit(n, 4) = (n \div 16) % 2 /\ Bit(n, 5) = (n \div 32) % 2
         /\ Bit(n, 6) = (n \div 64) % 2 /\ Bit(n, 7) = (n \div 128) % 2
BY Powers DEF Bit

(* Four bits of a channel of eight.                                        *)
LEMMA NibbleType ==
  ASSUME NEW c \in Colour(255, 255, 255)
  PROVE  /\ rgb888to444(c) = <<To4(c[1]), To4(c[2]), To4(c[3])>>
         /\ \A i \in Channel : rgb888to444(c)[i] \in 0 .. 15
BY DEF Colour, rgb888to444, To4, Channel

(* The tables of modes T, H and planar: bytes, the bits of the argument in *)
(* their places, and the overflow steered as the mode needs it.            *)
LEMMA TableT ==
  ASSUME NEW a \in 0 .. 15
  PROVE  LET e == Entry(kTmodeEncoderR, a)
         IN  /\ e \in 0 .. 255
             /\ ((e \div 8) % 4) * 4 + (e % 4) = a
             /\ (e \div 8) + Signed3(e % 8) \notin 0 .. 31
BY DEF Entry, kTmodeEncoderR, Signed3

(* Mode H: the second and third bytes leave the sum of red in range.        *)
LEMMA TableH ==
  ASSUME NEW a \in 0 .. 127
  PROVE  LET e == Entry(kHmodeEncoderRG, a)
         IN  /\ e \in 0 .. 255
             /\ (e % 128) = a
             /\ (e \div 8) + Signed3(e % 8) \in 0 .. 31
BY SMTT(40) DEF Entry, kHmodeEncoderRG, Signed3

(* Planar mode: the bits of a colour are one place up.                     *)
LEMMA TableP ==
  ASSUME NEW a \in 0 .. 127
  PROVE  LET e == Entry(kPmodeEncoderRG, a)
         IN  /\ e \in 0 .. 255
             /\ (e \div 2) % 64 = a % 64
             /\ e % 2 = a \div 64
             /\ (e \div 8) + Signed3(e % 8) \in 0 .. 31
BY SMTT(40) DEF Entry, kPmodeEncoderRG, Signed3

-----------------------------------------------------------------------------
(* Headers of modes T and H.                                               *)

(* A header of mode T has the overflow of that mode, and its fields.       *)
LEMMA HeaderT ==
  ASSUME NEW c0 \in Colour(255, 255, 255), NEW c1 \in Colour(255, 255, 255), NEW d \in 0 .. 7
  PROVE  LET h == etc2_gen_header_t_mode(c0, c1, d)
         IN  /\ DecodedMode(h) = "T"
             /\ DecodedT(h) = [c0 |-> rgb888to444(c0), c1 |-> rgb888to444(c1), distIdx |-> d]
<1> DEFINE a == rgb888to444(c0)
           b == rgb888to444(c1)
           e == Entry(kTmodeEncoderR, a[1])
           last == b[3] * 16 + (d \div 2) * 4 + 2 + (d % 2)
           h == etc2_gen_header_t_mode(c0, c1, d)
<1>1. /\ a = <<a[1], a[2], a[3]>> /\ a[1] \in 0 .. 15 /\ a[2] \in 0 .. 15 /\ a[3] \in 0 .. 15
      /\ b = <<b[1], b[2], b[3]>> /\ b[1] \in 0 .. 15 /\ b[2] \in 0 .. 15 /\ b[3] \in 0 .. 15
  BY NibbleType DEF Channel
<1>2. /\ e \in 0 .. 255
      /\ ((e \div 8) % 4) * 4 + (e % 4) = a[1]
      /\ (e \div 8) + Signed3(e % 8) \notin 0 .. 31
  BY <1>1, TableT
<1> HIDE DEF a, b, e
<1>3. /\ last \in 0 .. 255 /\ (last \div 2) % 2 = 1
      /\ ((last \div 4) % 4) * 2 + (last % 2) = d /\ last \div 16 = b[3]
  BY <1>1
<1> HIDE DEF last
<1>4. h = <<e, a[2] * 16 + a[3], b[1] * 16 + b[2], last>>
  <2>1. h = PackBytes(<<e, a[2] * 16 + a[3], b[1] * 16 + b[2], last>>)
    BY DEF etc2_gen_header_t_mode, a, b, e, last
  <2> HIDE DEF h
  <2>2. /\ a[2] * 16 + a[3] \in 0 .. 255 /\ b[1] * 16 + b[2] \in 0 .. 255
        /\ e \in 0 .. 255 /\ last \in 0 .. 255
    BY <1>1, <1>2, <1>3
  <2> QED  BY <2>1, <2>2 DEF PackBytes, Pack
<1> HIDE DEF h
<1>5. DecodedMode(h) = "T"
  <2>1. Bit(last, 1) = 1
    BY <1>3, BitIs
  <2> QED  BY <2>1, <1>2, <1>4 DEF DecodedMode, Overflows
<1>6. DecodedT(h) = [c0 |-> <<a[1], a[2], a[3]>>, c1 |-> <<b[1], b[2], b[3]>>, distIdx |-> d]
  BY <1>1, <1>2, <1>3, <1>4 DEF DecodedT
<1> QED  BY <1>1, <1>5, <1>6 DEF a, b, h

(* A header of mode H likewise, but for the lowest bit of the distance.    *)
LEMMA HeaderH ==
  ASSUME NEW c0 \in Colour(255, 255, 255), NEW c1 \in Colour(255, 255, 255), NEW d \in 0 .. 7
  PROVE  LET h == etc2_gen_header_h_mode(c0, c1, d)
             colours == HColours(c0, c1, d)
         IN  /\ DecodedMode(h) = "H"
             /\ <<DecodedH(h).c0, DecodedH(h).c1>>
                  = <<rgb888to444(colours[1]), rgb888to444(colours[2])>>
             /\ DecodedH(h).distIdx \div 2 = d \div 2
<1> DEFINE c == HColours(c0, c1, d)
           a == rgb888to444(c[1])
           b == rgb888to444(c[2])
           e1 == Entry(kHmodeEncoderRG, a[1] * 8 + a[2] \div 2)
           e2 == Entry(kHmodeEncoderGB, (a[2] % 2) * 8 + a[3] \div 2)
           third == (a[3] % 2) * 128 + b[1] * 8 + b[2] \div 2
           last == (b[2] % 2) * 128 + b[3] * 8 + 2 + ((d \div 2) % 2) + (d \div 4) * 4
           h == etc2_gen_header_h_mode(c0, c1, d)
<1>0. c[1] \in Colour(255, 255, 255) /\ c[2] \in Colour(255, 255, 255)
  BY DEF HColours, Larger, Smaller
<1>h. h = PackBytes(<<e1, e2, third, last>>)
  BY DEF etc2_gen_header_h_mode
<1>1. /\ a = <<a[1], a[2], a[3]>> /\ a[1] \in 0 .. 15 /\ a[2] \in 0 .. 15 /\ a[3] \in 0 .. 15
      /\ b = <<b[1], b[2], b[3]>> /\ b[1] \in 0 .. 15 /\ b[2] \in 0 .. 15 /\ b[3] \in 0 .. 15
  <2> HIDE DEF c
  <2> QED  BY <1>0, NibbleType DEF Channel
<1> HIDE DEF a, b
<1>2. /\ e1 \in 0 .. 255 /\ e1 % 128 = a[1] * 8 + a[2] \div 2
      /\ (e1 \div 8) + Signed3(e1 % 8) \in 0 .. 31
  <2> DEFINE x == a[1] * 8 + a[2] \div 2
  <2>1. x \in 0 .. 127
    BY <1>1
  <2> HIDE DEF x
  <2>2. e1 = Entry(kHmodeEncoderRG, x)
    BY DEF x
  <2> HIDE DEF e1
  <2>3. e1 \in 0 .. 255 /\ e1 % 128 = x /\ (e1 \div 8) + Signed3(e1 % 8) \in 0 .. 31
    BY <2>1, <2>2, TableH, Zenon
  <2> QED  BY <2>3 DEF x
<1>3. /\ e2 \in 0 .. 255 /\ ((e2 \div 8) % 4) * 4 + (e2 % 4) = (a[2] % 2) * 8 + a[3] \div 2
      /\ (e2 \div 8) + Signed3(e2 % 8) \notin 0 .. 31
  <2>1. (a[2] % 2) * 8 + a[3] \div 2 \in 0 .. 15
    BY <1>1
  <2> QED  BY <2>1, TableT DEF kHmodeEncoderGB
<1>4. /\ third \in 0 .. 255 /\ third \div 128 = a[3] % 2
      /\ (third \div 8) % 16 = b[1] /\ third % 8 = b[2] \div 2
  BY <1>1
<1>5. /\ last \in 0 .. 255 /\ last \div 128 = b[2] % 2 /\ (last \div 8) % 16 = b[3]
      /\ (last \div 2) % 2 = 1 /\ last % 2 = (d \div 2) % 2 /\ (last \div 4) % 2 = d \div 4
  BY <1>1
<1> HIDE DEF e1, e2, third, last, h, c
<1>r. e1 \in 0 .. 255 /\ e2 \in 0 .. 255 /\ third \in 0 .. 255 /\ last \in 0 .. 255
  BY <1>2, <1>3, <1>4, <1>5
<1>n. e1 \in Nat /\ e2 \in Nat /\ third \in Nat /\ last \in Nat
  BY <1>r
<1>6. h = <<e1, e2, third, last>>
  BY <1>h, <1>r DEF PackBytes, Pack
<1>7. DecodedMode(h) = "H"
  <2>1. Bit(last, 1) = 1
    <3>1. Bit(last, 1) = (last \div 2) % 2
      BY <1>n, BitIs
    <3> QED  BY <3>1, <1>5
  <2> QED  BY <2>1, <1>2, <1>3, <1>6 DEF DecodedMode, Overflows
<1>8. /\ (e1 \div 8) % 16 = a[1] /\ e1 % 8 = a[2] \div 2
      /\ (e2 \div 16) % 2 = a[2] % 2
      /\ ((e2 \div 8) % 2) * 8 + (e2 % 4) * 2 + ((third \div 128) % 2) = a[3]
  <2>1. /\ (e1 \div 8) % 16 = (e1 % 128) \div 8 /\ e1 % 8 = (e1 % 128) % 8
        /\ ((e2 \div 8) % 4) = ((e2 \div 16) % 2) * 2 + ((e2 \div 8) % 2)
    BY <1>2, <1>3
  <2>2. (e1 \div 8) % 16 = a[1] /\ e1 % 8 = a[2] \div 2
    BY <2>1, <1>2, <1>1
  <2> QED  BY <2>1, <2>2, <1>1, <1>3, <1>4
<1>9. /\ DecodedH(h).c0 = <<a[1], a[2], a[3]>>
      /\ DecodedH(h).c1 = <<b[1], b[2], b[3]>>
      /\ DecodedH(h).distIdx \div 2 = d \div 2
  <2>1. /\ Bit(e2, 4) = (e2 \div 16) % 2 /\ Bit(e2, 3) = (e2 \div 8) % 2
        /\ Bit(third, 7) = (third \div 128) % 2 /\ Bit(last, 7) = (last \div 128) % 2
        /\ Bit(last, 2) = (last \div 4) % 2 /\ Bit(last, 0) = last % 2
    <3>1. e2 \in Nat /\ third \in Nat /\ last \in Nat
      BY <1>n
    <3>2. Bit(e2, 4) = (e2 \div 16) % 2 /\ Bit(e2, 3) = (e2 \div 8) % 2
      BY <3>1, BitIs, Zenon
    <3>3. Bit(third, 7) = (third \div 128) % 2
      BY <3>1, BitIs, Zenon
    <3>4. Bit(last, 7) = (last \div 128) % 2 /\ Bit(last, 2) = (last \div 4) % 2 /\ Bit(last, 0) = last % 2
      BY <3>1, BitIs, Zenon
    <3> QED  BY <3>2, <3>3, <3>4
  <2>2. DecodedH(h).c0 = <<((e1 \div 8) % 16), (e1 % 8) * 2 + Bit(e2, 4),
                           Bit(e2, 3) * 8 + (e2 % 4) * 2 + Bit(third, 7)>>
    BY <1>6 DEF DecodedH
  <2>3. DecodedH(h).c1 = <<((third \div 8) % 16), (third % 8) * 2 + Bit(last, 7), ((last \div 8) % 16)>>
    BY <1>6 DEF DecodedH
  <2>4. \E low \in {0, 1} : DecodedH(h).distIdx = Bit(last, 2) * 4 + Bit(last, 0) * 2 + low
    BY <1>6 DEF DecodedH
  <2>5. (e1 % 8) * 2 + Bit(e2, 4) = a[2] /\ (third % 8) * 2 + Bit(last, 7) = b[2]
    BY <2>1, <1>1, <1>4, <1>5, <1>8
  <2>6. DecodedH(h).distIdx \div 2 = d \div 2
    <3>1. PICK low \in {0, 1} : DecodedH(h).distIdx = Bit(last, 2) * 4 + Bit(last, 0) * 2 + low
      BY <2>4
    <3>2. DecodedH(h).distIdx = (d \div 4) * 4 + ((d \div 2) % 2) * 2 + low
      BY <3>1, <2>1, <1>5
    <3> QED  BY <3>2
  <2> QED  BY <2>1, <2>2, <2>3, <2>5, <2>6, <1>4, <1>5, <1>8
<1> QED  BY <1>1, <1>7, <1>9 DEF a, b, h, c

-----------------------------------------------------------------------------
(* Planar blocks.                                                          *)

(* A planar header has the overflow of that mode, the corner O, and the    *)
(* red of corner H.                                                        *)
LEMMA HeaderPlanar ==
  ASSUME NEW cO \in Colour(63, 127, 63), NEW cH \in Colour(63, 127, 63)
  PROVE  LET h == planar_header(cO, cH)
         IN  /\ DecodedMode(h) = "planar"
             /\ DecodedO(h) = cO
             /\ ((h[4] \div 4) % 32) * 2 + (h[4] % 2) = cH[1]
<1> DEFINE r == cO[1]  g == cO[2]  b == cO[3]
           e1 == Entry(kPmodeEncoderRG, r + (IF g >= 64 THEN 64 ELSE 0))
           e2 == Entry(kPmodeEncoderRG, (g % 64) + (IF b >= 32 THEN 64 ELSE 0))
           e3 == Entry(kPmodeEncoderB, ((b \div 2) % 16))
           last == (b % 2) * 128 + (cH[1] \div 2) * 4 + 2 + (cH[1] % 2)
           h == planar_header(cO, cH)
<1>1. /\ cO = <<r, g, b>> /\ r \in 0 .. 63 /\ g \in 0 .. 127 /\ b \in 0 .. 63 /\ cH[1] \in 0 .. 63
  BY DEF Colour
<1>h. h = PackBytes(<<e1, e2, e3, last>>)
  BY DEF planar_header
<1> HIDE DEF r, g, b, h
<1>2. /\ e1 \in 0 .. 255 /\ (e1 \div 2) % 64 = r /\ e1 % 2 = g \div 64
      /\ (e1 \div 8) + Signed3(e1 % 8) \in 0 .. 31
  <2> DEFINE x == r + (IF g >= 64 THEN 64 ELSE 0)
  <2>1. x \in 0 .. 127 /\ x % 64 = r /\ x \div 64 = g \div 64
    BY <1>1
  <2> HIDE DEF x
  <2>2. e1 = Entry(kPmodeEncoderRG, x)
    BY DEF x
  <2> HIDE DEF e1
  <2>3. /\ e1 \in 0 .. 255 /\ (e1 \div 2) % 64 = x % 64 /\ e1 % 2 = x \div 64
        /\ (e1 \div 8) + Signed3(e1 % 8) \in 0 .. 31
    BY <2>1, <2>2, TableP, Zenon
  <2> QED  BY <2>1, <2>3
<1>3. /\ e2 \in 0 .. 255 /\ (e2 \div 2) % 64 = g % 64 /\ e2 % 2 = b \div 32
      /\ (e2 \div 8) + Signed3(e2 % 8) \in 0 .. 31
  <2> DEFINE x == (g % 64) + (IF b >= 32 THEN 64 ELSE 0)
  <2> DEFINE y == g % 64
  <2>y. y \in 0 .. 63
    BY <1>1
  <2> HIDE DEF y
  <2>1. x \in 0 .. 127 /\ x % 64 = y /\ x \div 64 = b \div 32
    <3>1. CASE b >= 32
      <4>1. x = y + 64 /\ b \div 32 = 1
        BY <1>1, <3>1 DEF y
      <4> QED  BY <2>y, <4>1
    <3>2. CASE ~(b >= 32)
      <4>1. x = y /\ b \div 32 = 0
        BY <1>1, <2>y, <3>2 DEF y
      <4> QED  BY <2>y, <4>1
    <3> QED  BY <3>1, <3>2
  <2> HIDE DEF x
  <2>2. e2 = Entry(kPmodeEncoderRG, x)
    BY DEF x
  <2> HIDE DEF e2
  <2>3. /\ e2 \in 0 .. 255 /\ (e2 \div 2) % 64 = x % 64 /\ e2 % 2 = x \div 64
        /\ (e2 \div 8) + Signed3(e2 % 8) \in 0 .. 31
    BY <2>1, <2>2, TableP, Zenon
  <2> QED  BY <2>1, <2>3 DEF y
<1>4. /\ e3 \in 0 .. 255 /\ ((e3 \div 8) % 4) * 4 + (e3 % 4) = (b \div 2) % 16
      /\ (e3 \div 8) + Signed3(e3 % 8) \notin 0 .. 31
  <2>1. (b \div 2) % 16 \in 0 .. 15
    BY <1>1
  <2> QED  BY <2>1, TableT DEF kPmodeEncoderB
<1>5. /\ last \in 0 .. 255 /\ (last \div 128) % 2 = b % 2 /\ (last \div 2) % 2 = 1
      /\ ((last \div 4) % 32) * 2 + (last % 2) = cH[1]
  <2> DEFINE x == b % 2
             y == cH[1] \div 2
             z == cH[1] % 2
  <2>1. x \in {0, 1} /\ y \in 0 .. 31 /\ z \in {0, 1} /\ y * 2 + z = cH[1]
    BY <1>1
  <2>2. last = x * 128 + y * 4 + 2 + z
    OBVIOUS
  <2> HIDE DEF x, y, z, last
  <2>3. /\ last \in 0 .. 255 /\ (last \div 128) % 2 = x /\ (last \div 2) % 2 = 1
        /\ (last \div 4) % 32 = y /\ last % 2 = z
    BY <2>1, <2>2
  <2> QED  BY <2>1, <2>3 DEF x
<1> HIDE DEF e1, e2, e3, last
<1>r. e1 \in 0 .. 255 /\ e2 \in 0 .. 255 /\ e3 \in 0 .. 255 /\ last \in 0 .. 255
  BY <1>2, <1>3, <1>4, <1>5
<1>6. h = <<e1, e2, e3, last>>
  BY <1>h, <1>r DEF PackBytes, Pack
<1>b. last \in Nat
  BY <1>r
<1>c. Bit(last, 1) = 1 /\ Bit(last, 7) = b % 2
  <2>1. Bit(last, 1) = (last \div 2) % 2 /\ Bit(last, 7) = (last \div 128) % 2
    BY <1>b, BitIs
  <2> QED  BY <2>1, <1>5
<1>7. DecodedMode(h) = "planar"
  BY <1>c, <1>2, <1>3, <1>4, <1>6 DEF DecodedMode, Overflows
<1>8. DecodedO(h) = <<r, g, b>>
  <2>1. DecodedO(h) = <<((e1 \div 2) % 64), (e1 % 2) * 64 + ((e2 \div 2) % 64),
                        (e2 % 2) * 32 + ((e3 \div 8) % 4) * 8 + (e3 % 4) * 2 + Bit(last, 7)>>
    BY <1>6 DEF DecodedO
  <2>2. (e1 % 2) * 64 + ((e2 \div 2) % 64) = g
    BY <1>1, <1>2, <1>3
  <2>3. (e2 % 2) * 32 + ((e3 \div 8) % 4) * 8 + (e3 % 4) * 2 + Bit(last, 7) = b
    BY <1>1, <1>3, <1>4, <1>c
  <2> QED  BY <2>1, <2>2, <2>3, <1>2
<1> QED  BY <1>1, <1>5, <1>6, <1>7, <1>8 DEF h

(* Bit n of the low word, counted from its lowest.                         *)
LEMMA LowBitIs ==
  ASSUME NEW b1, NEW b2, NEW b3, NEW b4, NEW b,
         b1 \in 0 .. 255, b2 \in 0 .. 255, b3 \in 0 .. 255, b4 \in 0 .. 255,
         b = BitsOf(<<b1, b2, b3, b4>>)
  PROVE  \A i \in 0 .. 7 :
           /\ LowBit(b, i) = Bit(b4, i) /\ LowBit(b, 8 + i) = Bit(b3, i)
           /\ LowBit(b, 16 + i) = Bit(b2, i) /\ LowBit(b, 24 + i) = Bit(b1, i)
<1> SUFFICES ASSUME NEW i \in 0 .. 7
             PROVE  /\ LowBit(b, i) = Bit(b4, i) /\ LowBit(b, 8 + i) = Bit(b3, i)
                    /\ LowBit(b, 16 + i) = Bit(b2, i) /\ LowBit(b, 24 + i) = Bit(b1, i)
  OBVIOUS
<1> DEFINE bytes == <<b1, b2, b3, b4>>
<1>1. \A n \in Nat : \A j \in 0 .. 7 : Bit(n, j) \in {0, 1}
  <2> SUFFICES ASSUME NEW n \in Nat, NEW j \in 0 .. 7 PROVE Bit(n, j) \in {0, 1}
    OBVIOUS
  <2>1. j = 0 \/ j = 1 \/ j = 2 \/ j = 3 \/ j = 4 \/ j = 5 \/ j = 6 \/ j = 7
    OBVIOUS
  <2>2. /\ Bit(n, 0) \in {0, 1} /\ Bit(n, 1) \in {0, 1} /\ Bit(n, 2) \in {0, 1} /\ Bit(n, 3) \in {0, 1}
        /\ Bit(n, 4) \in {0, 1} /\ Bit(n, 5) \in {0, 1} /\ Bit(n, 6) \in {0, 1} /\ Bit(n, 7) \in {0, 1}
    BY Powers DEF Bit
  <2> QED  BY <2>1, <2>2
<1>2. \A n \in 0 .. 31 : n \in b <=> Bit(bytes[n \div 8 + 1], (n % 8)) = 1
  BY DEF BitsOf
<1>3. \A q \in 0 .. 3 : LowBit(b, 8 * (3 - q) + i) = Bit(bytes[q + 1], i)
  <2> SUFFICES ASSUME NEW q \in 0 .. 3 PROVE LowBit(b, 8 * (3 - q) + i) = Bit(bytes[q + 1], i)
    OBVIOUS
  <2> DEFINE at == 8 * q + i
  <2>1. LowBit(b, 8 * (3 - q) + i) = IF at \in b THEN 1 ELSE 0
    <3>1. /\ (8 * (3 - q) + i) \div 8 = 3 - q /\ (8 * (3 - q) + i) % 8 = i
          /\ (3 - (3 - q)) * 8 + i = at
      OBVIOUS
    <3> QED  BY <3>1 DEF LowBit
  <2>2. at \in 0 .. 31 /\ at \div 8 = q /\ at % 8 = i
    OBVIOUS
  <2>3. at \in b <=> Bit(bytes[q + 1], i) = 1
    BY <2>2, <1>2
  <2>4. bytes[q + 1] \in Nat
    OBVIOUS
  <2>5. Bit(bytes[q + 1], i) \in {0, 1}
    BY <2>4, <1>1
  <2> QED  BY <2>1, <2>3, <2>5
<1>4. /\ LowBit(b, 8 * (3 - 0) + i) = Bit(b1, i) /\ LowBit(b, 8 * (3 - 1) + i) = Bit(b2, i)
      /\ LowBit(b, 8 * (3 - 2) + i) = Bit(b3, i) /\ LowBit(b, 8 * (3 - 3) + i) = Bit(b4, i)
  BY <1>3
<1>5. /\ 8 * (3 - 0) + i = 24 + i /\ 8 * (3 - 1) + i = 16 + i
      /\ 8 * (3 - 2) + i = 8 + i /\ 8 * (3 - 3) + i = i
  OBVIOUS
<1> QED  BY <1>4, <1>5

(* The digits of a number are its bits.                                    *)
LEMMA DigitsAreBits ==
  ASSUME NEW d0 \in {0, 1}, NEW d1 \in {0, 1}, NEW d2 \in {0, 1}, NEW d3 \in {0, 1},
         NEW d4 \in {0, 1}, NEW d5 \in {0, 1}, NEW d6 \in {0, 1}, NEW d7 \in {0, 1}, NEW n,
         n = d0 + 2 * d1 + 4 * d2 + 8 * d3 + 16 * d4 + 32 * d5 + 64 * d6 + 128 * d7
  PROVE  /\ Bit(n, 0) = d0 /\ Bit(n, 1) = d1 /\ Bit(n, 2) = d2 /\ Bit(n, 3) = d3
         /\ Bit(n, 4) = d4 /\ Bit(n, 5) = d5 /\ Bit(n, 6) = d6 /\ Bit(n, 7) = d7
<1>1. n % 2 = d0  OBVIOUS
<1>2. (n \div 2) % 2 = d1  OBVIOUS
<1>3. (n \div 4) % 2 = d2  OBVIOUS
<1>4. (n \div 8) % 2 = d3  OBVIOUS
<1>5. (n \div 16) % 2 = d4  OBVIOUS
<1>6. (n \div 32) % 2 = d5  OBVIOUS
<1>7. (n \div 64) % 2 = d6  OBVIOUS
<1>8. (n \div 128) % 2 = d7  OBVIOUS
<1> QED  BY <1>1, <1>2, <1>3, <1>4, <1>5, <1>6, <1>7, <1>8, Powers DEF Bit

(* The parts of a byte as sums of its bits.                                *)
LEMMA BytePart ==
  ASSUME NEW n \in 0 .. 255
  PROVE  /\ n % 2 = Bit(n, 0)
         /\ n % 8 = Bit(n, 0) + 2 * Bit(n, 1) + 4 * Bit(n, 2)
         /\ n % 32 = Bit(n, 0) + 2 * Bit(n, 1) + 4 * Bit(n, 2) + 8 * Bit(n, 3) + 16 * Bit(n, 4)
         /\ n % 64 = Bit(n, 0) + 2 * Bit(n, 1) + 4 * Bit(n, 2) + 8 * Bit(n, 3) + 16 * Bit(n, 4)
                     + 32 * Bit(n, 5)
         /\ n \div 64 = Bit(n, 6) + 2 * Bit(n, 7)
         /\ n \div 32 = Bit(n, 5) + 2 * Bit(n, 6) + 4 * Bit(n, 7)
         /\ n \div 8 = Bit(n, 3) + 2 * Bit(n, 4) + 4 * Bit(n, 5) + 8 * Bit(n, 6) + 16 * Bit(n, 7)
         /\ n \div 2 = Bit(n, 1) + 2 * Bit(n, 2) + 4 * Bit(n, 3) + 8 * Bit(n, 4) + 16 * Bit(n, 5)
                       + 32 * Bit(n, 6) + 64 * Bit(n, 7)
         /\ \A i \in 0 .. 7 : Bit(n, i) \in {0, 1}
<1>1. /\ Bit(n, 0) = n % 2 /\ Bit(n, 1) = (n \div 2) % 2
      /\ Bit(n, 2) = (n \div 4) % 2 /\ Bit(n, 3) = (n \div 8) % 2
      /\ Bit(n, 4) = (n \div 16) % 2 /\ Bit(n, 5) = (n \div 32) % 2
      /\ Bit(n, 6) = (n \div 64) % 2 /\ Bit(n, 7) = (n \div 128) % 2
  BY Powers DEF Bit
<1>2. ASSUME NEW i \in 0 .. 7 PROVE Bit(n, i) \in {0, 1}
  <2>1. i = 0 \/ i = 1 \/ i = 2 \/ i = 3 \/ i = 4 \/ i = 5 \/ i = 6 \/ i = 7
    OBVIOUS
  <2>2. /\ n % 2 \in {0, 1} /\ (n \div 2) % 2 \in {0, 1} /\ (n \div 4) % 2 \in {0, 1}
        /\ (n \div 8) % 2 \in {0, 1} /\ (n \div 16) % 2 \in {0, 1} /\ (n \div 32) % 2 \in {0, 1}
        /\ (n \div 64) % 2 \in {0, 1} /\ (n \div 128) % 2 \in {0, 1}
    OBVIOUS
  <2> QED  BY <2>1, <2>2, <1>1
<1>3. \E d0, d1, d2, d3, d4, d5, d6, d7 \in {0, 1} :
        n = d0 + 2 * d1 + 4 * d2 + 8 * d3 + 16 * d4 + 32 * d5 + 64 * d6 + 128 * d7
  <2> DEFINE d0 == n % 2  n1 == n \div 2  d1 == n1 % 2  n2 == n1 \div 2  d2 == n2 % 2
             n3 == n2 \div 2  d3 == n3 % 2  n4 == n3 \div 2  d4 == n4 % 2
             n5 == n4 \div 2  d5 == n5 % 2  n6 == n5 \div 2  d6 == n6 % 2
             d7 == n6 \div 2
  <2>1. n = d0 + 2 * n1 /\ d0 \in {0, 1} /\ n1 \in 0 .. 127
    OBVIOUS
  <2> HIDE DEF n1
  <2>2. n1 = d1 + 2 * n2 /\ d1 \in {0, 1} /\ n2 \in 0 .. 63
    BY <2>1
  <2> HIDE DEF n2
  <2>3. n2 = d2 + 2 * n3 /\ d2 \in {0, 1} /\ n3 \in 0 .. 31
    BY <2>2
  <2> HIDE DEF n3
  <2>4. n3 = d3 + 2 * n4 /\ d3 \in {0, 1} /\ n4 \in 0 .. 15
    BY <2>3
  <2> HIDE DEF n4
  <2>5. n4 = d4 + 2 * n5 /\ d4 \in {0, 1} /\ n5 \in 0 .. 7
    BY <2>4
  <2> HIDE DEF n5
  <2>6. n5 = d5 + 2 * n6 /\ d5 \in {0, 1} /\ n6 \in 0 .. 3
    BY <2>5
  <2> HIDE DEF n6
  <2>7. n6 = d6 + 2 * d7 /\ d6 \in {0, 1} /\ d7 \in {0, 1}
    BY <2>6
  <2> HIDE DEF d0, d1, d2, d3, d4, d5, d6, d7
  <2>8. n = d0 + 2 * d1 + 4 * d2 + 8 * d3 + 16 * d4 + 32 * d5 + 64 * d6 + 128 * d7
    BY <2>1, <2>2, <2>3, <2>4, <2>5, <2>6, <2>7
  <2> QED  BY <2>1, <2>2, <2>3, <2>4, <2>5, <2>6, <2>7, <2>8
<1>4. PICK d0, d1, d2, d3, d4, d5, d6, d7 \in {0, 1} :
        n = d0 + 2 * d1 + 4 * d2 + 8 * d3 + 16 * d4 + 32 * d5 + 64 * d6 + 128 * d7
  BY <1>3
<1>5. /\ Bit(n, 0) = d0 /\ Bit(n, 1) = d1 /\ Bit(n, 2) = d2 /\ Bit(n, 3) = d3
      /\ Bit(n, 4) = d4 /\ Bit(n, 5) = d5 /\ Bit(n, 6) = d6 /\ Bit(n, 7) = d7
  BY <1>4, DigitsAreBits
<1>6. /\ n % 2 = d0 /\ n % 8 = d0 + 2 * d1 + 4 * d2
      /\ n % 32 = d0 + 2 * d1 + 4 * d2 + 8 * d3 + 16 * d4
      /\ n % 64 = d0 + 2 * d1 + 4 * d2 + 8 * d3 + 16 * d4 + 32 * d5
  <2>1. n % 2 = d0  BY <1>4
  <2>2. n % 8 = d0 + 2 * d1 + 4 * d2  BY <1>4
  <2>3. n % 32 = d0 + 2 * d1 + 4 * d2 + 8 * d3 + 16 * d4  BY <1>4
  <2>4. n % 64 = d0 + 2 * d1 + 4 * d2 + 8 * d3 + 16 * d4 + 32 * d5  BY <1>4
  <2> QED  BY <2>1, <2>2, <2>3, <2>4
<1>7. /\ n \div 64 = d6 + 2 * d7 /\ n \div 32 = d5 + 2 * d6 + 4 * d7
      /\ n \div 8 = d3 + 2 * d4 + 4 * d5 + 8 * d6 + 16 * d7
      /\ n \div 2 = d1 + 2 * d2 + 4 * d3 + 8 * d4 + 16 * d5 + 32 * d6 + 64 * d7
  BY <1>4
<1> QED  BY <1>2, <1>5, <1>6, <1>7

(* A field is the sum of its bits.                                         *)
LEMMA FieldIs ==
  ASSUME NEW b, NEW n \in Nat
  PROVE  /\ LowField(b, n, 6) =
              LowBit(b, n) + 2 * LowBit(b, n + 1) + 4 * LowBit(b, n + 2) + 8 * LowBit(b, n + 3)
              + 16 * LowBit(b, n + 4) + 32 * LowBit(b, n + 5)
         /\ LowField(b, n, 7) =
              LowBit(b, n) + 2 * LowBit(b, n + 1) + 4 * LowBit(b, n + 2) + 8 * LowBit(b, n + 3)
              + 16 * LowBit(b, n + 4) + 32 * LowBit(b, n + 5) + 64 * LowBit(b, n + 6)
<1>1. \A i \in Nat : LowBit(b, i) \in {0, 1}
  BY DEF LowBit
<1>2. /\ LowBit(b, n) \in {0, 1} /\ LowBit(b, n + 1) \in {0, 1} /\ LowBit(b, n + 2) \in {0, 1}
      /\ LowBit(b, n + 3) \in {0, 1} /\ LowBit(b, n + 4) \in {0, 1}
      /\ LowBit(b, n + 5) \in {0, 1} /\ LowBit(b, n + 6) \in {0, 1}
  BY <1>1
<1>3. n + 0 = n
  OBVIOUS
<1> QED  BY <1>2, <1>3 DEF LowField, Binary

(* The low word of a planar block holds green and blue of H, and V.        *)
LEMMA LowPlanar ==
  ASSUME NEW cH \in Colour(63, 127, 63), NEW cV \in Colour(63, 127, 63)
  PROVE  LET b == BitsOf(planar_low(cH, cV))
         IN  /\ LowField(b, 25, 7) = cH[2] /\ LowField(b, 19, 6) = cH[3]
             /\ LowField(b, 13, 6) = cV[1] /\ LowField(b, 6, 7) = cV[2] /\ LowField(b, 0, 6) = cV[3]
<1> DEFINE u == cH[2]  v == cH[3]  x == cV[1]  y == cV[2]  z == cV[3]
           b1 == u * 2 + v \div 32
           b2 == (v % 32) * 8 + x \div 8
           b3 == (x % 8) * 32 + y \div 4
           b4 == (y % 4) * 64 + z
           b == BitsOf(planar_low(cH, cV))
<1>1. u \in 0 .. 127 /\ v \in 0 .. 63 /\ x \in 0 .. 63 /\ y \in 0 .. 127 /\ z \in 0 .. 63
  BY DEF Colour
<1>p. planar_low(cH, cV) = PackBytes(<<b1, b2, b3, b4>>)
  BY DEF planar_low
<1> HIDE DEF u, v, x, y, z
<1>2. b1 \in 0 .. 255 /\ b1 \div 2 = u /\ b1 % 2 = v \div 32
  BY <1>1
<1>3. b2 \in 0 .. 255 /\ b2 \div 8 = v % 32 /\ b2 % 8 = x \div 8
  BY <1>1
<1>4. b3 \in 0 .. 255 /\ b3 \div 32 = x % 8 /\ b3 % 32 = y \div 4
  BY <1>1
<1>5. b4 \in 0 .. 255 /\ b4 \div 64 = y % 4 /\ b4 % 64 = z
  BY <1>1
<1> HIDE DEF b1, b2, b3, b4
<1>r. b1 \in 0 .. 255 /\ b2 \in 0 .. 255 /\ b3 \in 0 .. 255 /\ b4 \in 0 .. 255
  BY <1>2, <1>3, <1>4, <1>5
<1>6. planar_low(cH, cV) = <<b1, b2, b3, b4>>
  BY <1>p, <1>r DEF PackBytes, Pack
<1>b. b = BitsOf(<<b1, b2, b3, b4>>)
  BY <1>6
<1> HIDE DEF b
<1>7. \A i \in 0 .. 7 :
        /\ LowBit(b, i) = Bit(b4, i) /\ LowBit(b, 8 + i) = Bit(b3, i)
        /\ LowBit(b, 16 + i) = Bit(b2, i) /\ LowBit(b, 24 + i) = Bit(b1, i)
  BY <1>b, <1>r, LowBitIs
<1>8. LowField(b, 0, 6) = z
  <2>1. /\ LowBit(b, 0) = Bit(b4, 0) /\ LowBit(b, 0 + 1) = Bit(b4, 1) /\ LowBit(b, 0 + 2) = Bit(b4, 2)
        /\ LowBit(b, 0 + 3) = Bit(b4, 3) /\ LowBit(b, 0 + 4) = Bit(b4, 4) /\ LowBit(b, 0 + 5) = Bit(b4, 5)
    BY <1>7
  <2>2. LowField(b, 0, 6) =
          LowBit(b, 0) + 2 * LowBit(b, 0 + 1) + 4 * LowBit(b, 0 + 2) + 8 * LowBit(b, 0 + 3)
          + 16 * LowBit(b, 0 + 4) + 32 * LowBit(b, 0 + 5)
    BY FieldIs
  <2>3. LowField(b, 0, 6) = b4 % 64
    BY <2>1, <2>2, <1>r, BytePart
  <2> QED  BY <2>3, <1>5
<1>9. LowField(b, 6, 7) = y
  <2>1. /\ LowBit(b, 6) = Bit(b4, 6) /\ LowBit(b, 6 + 1) = Bit(b4, 7) /\ LowBit(b, 6 + 2) = Bit(b3, 0)
        /\ LowBit(b, 6 + 3) = Bit(b3, 1) /\ LowBit(b, 6 + 4) = Bit(b3, 2)
        /\ LowBit(b, 6 + 5) = Bit(b3, 3) /\ LowBit(b, 6 + 6) = Bit(b3, 4)
    <3>1. 6 + 2 = 8 + 0 /\ 6 + 3 = 8 + 1 /\ 6 + 4 = 8 + 2 /\ 6 + 5 = 8 + 3 /\ 6 + 6 = 8 + 4
      OBVIOUS
    <3> QED  BY <3>1, <1>7
  <2>2. LowField(b, 6, 7) =
          LowBit(b, 6) + 2 * LowBit(b, 6 + 1) + 4 * LowBit(b, 6 + 2) + 8 * LowBit(b, 6 + 3)
          + 16 * LowBit(b, 6 + 4) + 32 * LowBit(b, 6 + 5) + 64 * LowBit(b, 6 + 6)
    BY FieldIs
  <2>3. /\ b4 \div 64 = Bit(b4, 6) + 2 * Bit(b4, 7)
        /\ b3 % 32 = Bit(b3, 0) + 2 * Bit(b3, 1) + 4 * Bit(b3, 2) + 8 * Bit(b3, 3) + 16 * Bit(b3, 4)
        /\ \A i \in 0 .. 7 : Bit(b4, i) \in {0, 1} /\ Bit(b3, i) \in {0, 1}
    BY <1>r, BytePart
  <2>4. LowField(b, 6, 7) = b4 \div 64 + 4 * (b3 % 32)
    BY <2>1, <2>2, <2>3
  <2> QED  BY <2>4, <1>4, <1>5, <1>1
<1>10. LowField(b, 13, 6) = x
  <2>1. /\ LowBit(b, 13) = Bit(b3, 5) /\ LowBit(b, 13 + 1) = Bit(b3, 6) /\ LowBit(b, 13 + 2) = Bit(b3, 7)
        /\ LowBit(b, 13 + 3) = Bit(b2, 0) /\ LowBit(b, 13 + 4) = Bit(b2, 1) /\ LowBit(b, 13 + 5) = Bit(b2, 2)
    <3>1. /\ 13 = 8 + 5 /\ 13 + 1 = 8 + 6 /\ 13 + 2 = 8 + 7
          /\ 13 + 3 = 16 + 0 /\ 13 + 4 = 16 + 1 /\ 13 + 5 = 16 + 2
      OBVIOUS
    <3> QED  BY <3>1, <1>7
  <2>2. LowField(b, 13, 6) =
          LowBit(b, 13) + 2 * LowBit(b, 13 + 1) + 4 * LowBit(b, 13 + 2) + 8 * LowBit(b, 13 + 3)
          + 16 * LowBit(b, 13 + 4) + 32 * LowBit(b, 13 + 5)
    BY FieldIs
  <2>3. /\ b3 \div 32 = Bit(b3, 5) + 2 * Bit(b3, 6) + 4 * Bit(b3, 7)
        /\ b2 % 8 = Bit(b2, 0) + 2 * Bit(b2, 1) + 4 * Bit(b2, 2)
        /\ \A i \in 0 .. 7 : Bit(b2, i) \in {0, 1} /\ Bit(b3, i) \in {0, 1}
    BY <1>r, BytePart
  <2>4. LowField(b, 13, 6) = b3 \div 32 + 8 * (b2 % 8)
    BY <2>1, <2>2, <2>3
  <2> QED  BY <2>4, <1>3, <1>4, <1>1
<1>11. LowField(b, 19, 6) = v
  <2>1. /\ LowBit(b, 19) = Bit(b2, 3) /\ LowBit(b, 19 + 1) = Bit(b2, 4) /\ LowBit(b, 19 + 2) = Bit(b2, 5)
        /\ LowBit(b, 19 + 3) = Bit(b2, 6) /\ LowBit(b, 19 + 4) = Bit(b2, 7) /\ LowBit(b, 19 + 5) = Bit(b1, 0)
    <3>1. /\ 19 = 16 + 3 /\ 19 + 1 = 16 + 4 /\ 19 + 2 = 16 + 5
          /\ 19 + 3 = 16 + 6 /\ 19 + 4 = 16 + 7 /\ 19 + 5 = 24 + 0
      OBVIOUS
    <3> QED  BY <3>1, <1>7
  <2>2. LowField(b, 19, 6) =
          LowBit(b, 19) + 2 * LowBit(b, 19 + 1) + 4 * LowBit(b, 19 + 2) + 8 * LowBit(b, 19 + 3)
          + 16 * LowBit(b, 19 + 4) + 32 * LowBit(b, 19 + 5)
    BY FieldIs
  <2>3. /\ b2 \div 8 = Bit(b2, 3) + 2 * Bit(b2, 4) + 4 * Bit(b2, 5) + 8 * Bit(b2, 6) + 16 * Bit(b2, 7)
        /\ b1 % 2 = Bit(b1, 0)
        /\ \A i \in 0 .. 7 : Bit(b2, i) \in {0, 1} /\ Bit(b1, i) \in {0, 1}
    BY <1>r, BytePart
  <2>4. LowField(b, 19, 6) = b2 \div 8 + 32 * (b1 % 2)
    BY <2>1, <2>2, <2>3
  <2> QED  BY <2>4, <1>2, <1>3, <1>1
<1>12. LowField(b, 25, 7) = u
  <2>1. /\ LowBit(b, 25) = Bit(b1, 1) /\ LowBit(b, 25 + 1) = Bit(b1, 2) /\ LowBit(b, 25 + 2) = Bit(b1, 3)
        /\ LowBit(b, 25 + 3) = Bit(b1, 4) /\ LowBit(b, 25 + 4) = Bit(b1, 5)
        /\ LowBit(b, 25 + 5) = Bit(b1, 6) /\ LowBit(b, 25 + 6) = Bit(b1, 7)
    <3>1. /\ 25 = 24 + 1 /\ 25 + 1 = 24 + 2 /\ 25 + 2 = 24 + 3 /\ 25 + 3 = 24 + 4
          /\ 25 + 4 = 24 + 5 /\ 25 + 5 = 24 + 6 /\ 25 + 6 = 24 + 7
      OBVIOUS
    <3> QED  BY <3>1, <1>7
  <2>2. LowField(b, 25, 7) =
          LowBit(b, 25) + 2 * LowBit(b, 25 + 1) + 4 * LowBit(b, 25 + 2) + 8 * LowBit(b, 25 + 3)
          + 16 * LowBit(b, 25 + 4) + 32 * LowBit(b, 25 + 5) + 64 * LowBit(b, 25 + 6)
    BY FieldIs
  <2>3. /\ b1 \div 2 = Bit(b1, 1) + 2 * Bit(b1, 2) + 4 * Bit(b1, 3) + 8 * Bit(b1, 4) + 16 * Bit(b1, 5)
                       + 32 * Bit(b1, 6) + 64 * Bit(b1, 7)
        /\ \A i \in 0 .. 7 : Bit(b1, i) \in {0, 1}
    BY <1>r, BytePart
  <2>4. LowField(b, 25, 7) = b1 \div 2
    BY <2>1, <2>2, <2>3
  <2> QED  BY <2>4, <1>2
<1> QED  BY <1>8, <1>9, <1>10, <1>11, <1>12 DEF u, v, x, y, z, b

-----------------------------------------------------------------------------
(* Headers of ETC1.                                                        *)

(* A channel of a differential block: five bits and the delta.             *)
LEMMA DeltaIsKept ==
  ASSUME NEW a \in 0 .. 31, NEW b \in 0 .. 31, b - a \in -4 .. 3
  PROVE  LET c == delta(b - a) + a * 8
         IN  c \in 0 .. 255 /\ c \div 8 = a /\ (c \div 8) + Signed3(c % 8) = b
BY DEF delta, Signed3

(* A channel of an individual block: twice four bits.                      *)
LEMMA NibblesAreKept ==
  ASSUME NEW a \in 0 .. 15, NEW b \in 0 .. 15
  PROVE  LET c == b + a * 16
         IN  c \in 0 .. 255 /\ c \div 16 = a /\ c % 16 = b
OBVIOUS

(* What a decoder makes of three channels and the last byte.               *)
LEMMA RgbOfIndividual ==
  ASSUME NEW c1, NEW c2, NEW c3, NEW last, NEW h, NEW a, NEW b,
         last \in 0 .. 255, h = <<c1, c2, c3, last>>,
         a \in Colour(31, 31, 31), b \in Colour(31, 31, 31), (last \div 2) % 2 = 0,
         c1 \div 16 = a[1] /\ c1 % 16 = b[1], c2 \div 16 = a[2] /\ c2 % 16 = b[2],
         c3 \div 16 = a[3] /\ c3 % 16 = b[3]
  PROVE  DecodedMode(h) = "individual" /\ DecodedRgb(h) = <<a, b>>
<1>2. Bit(last, 1) = (last \div 2) % 2
  BY Powers DEF Bit
<1>3. a = [i \in Channel |-> a[i]] /\ b = [i \in Channel |-> b[i]]
  BY DEF Colour, Channel
<1>4. [i \in Channel |-> h[i] \div 16] = a /\ [i \in Channel |-> (h[i] % 16)] = b
  BY <1>3 DEF Channel
<1> QED  BY <1>2, <1>4 DEF DecodedMode, DecodedRgb

(* The header of two subblocks.                                            *)
LEMMA HeaderEtc1 ==
  ASSUME NEW useColor4 \in BOOLEAN, NEW flip \in BOOLEAN,
         NEW rgb \in Colour(31, 31, 31) \X Colour(31, 31, 31), NEW inten \in (0 .. 7) \X (0 .. 7),
         \A i \in Channel : IF useColor4 THEN rgb[1][i] < 16 /\ rgb[2][i] < 16
                                         ELSE rgb[2][i] - rgb[1][i] \in -4 .. 3
  PROVE  LET h == etc1_header(useColor4, flip, rgb, inten)
         IN  /\ DecodedMode(h) = IF useColor4 THEN "individual" ELSE "differential"
             /\ DecodedRgb(h) = rgb
             /\ <<h[4] \div 32, ((h[4] \div 4) % 8)>> = inten
             /\ ((h[4] % 2) = 1) = flip
<1> DEFINE c == [i \in Channel |-> IF useColor4 THEN rgb[2][i] + rgb[1][i] * 16
                                   ELSE delta(rgb[2][i] - rgb[1][i]) + rgb[1][i] * 8]
           m == IF useColor4 THEN 0 ELSE 1
           f == IF flip THEN 1 ELSE 0
           last == inten[2] * 4 + inten[1] * 32 + m * 2 + f
           h == etc1_header(useColor4, flip, rgb, inten)
<1>1. /\ rgb = <<rgb[1], rgb[2]>> /\ rgb[1] \in Colour(31, 31, 31) /\ rgb[2] \in Colour(31, 31, 31)
      /\ inten = <<inten[1], inten[2]>> /\ inten[1] \in 0 .. 7 /\ inten[2] \in 0 .. 7
  OBVIOUS
<1>2. \A i \in Channel : rgb[1][i] \in 0 .. 31 /\ rgb[2][i] \in 0 .. 31
  BY <1>1 DEF Colour, Channel
<1>3. \A i \in Channel :
        /\ c[i] \in 0 .. 255
        /\ useColor4 => c[i] \div 16 = rgb[1][i] /\ c[i] % 16 = rgb[2][i]
        /\ ~useColor4 => c[i] \div 8 = rgb[1][i] /\ (c[i] \div 8) + Signed3(c[i] % 8) = rgb[2][i]
  <2> SUFFICES ASSUME NEW i \in Channel
               PROVE  /\ c[i] \in 0 .. 255
                      /\ useColor4 => c[i] \div 16 = rgb[1][i] /\ c[i] % 16 = rgb[2][i]
                      /\ ~useColor4 =>
                           c[i] \div 8 = rgb[1][i] /\ (c[i] \div 8) + Signed3(c[i] % 8) = rgb[2][i]
    BY Zenon
  <2> DEFINE a == rgb[1][i]  b == rgb[2][i]
  <2>1. a \in 0 .. 31 /\ b \in 0 .. 31
    BY <1>2
  <2>2. CASE useColor4
    <3>1. a \in 0 .. 15 /\ b \in 0 .. 15 /\ c[i] = b + a * 16
      BY <2>1, <2>2
    <3> QED  BY <3>1, <2>2, NibblesAreKept
  <2>3. CASE ~useColor4
    <3> DEFINE v == c[i]
               w == delta(b - a) + a * 8
    <3>1. b - a \in -4 .. 3 /\ v = w
      BY <2>3
    <3> HIDE DEF a, b, v
    <3>2. w \in 0 .. 255 /\ w \div 8 = a /\ (w \div 8) + Signed3(w % 8) = b
      BY <3>1, <2>1, DeltaIsKept
    <3> HIDE DEF w
    <3>3. v \in 0 .. 255 /\ v \div 8 = a /\ (v \div 8) + Signed3(v % 8) = b
      BY <3>1, <3>2
    <3>4. v \in 0 .. 255 /\ v \div 8 = rgb[1][i] /\ (v \div 8) + Signed3(v % 8) = rgb[2][i]
      BY <3>3 DEF a, b
    <3> QED  BY <3>4, <2>3 DEF v
  <2> QED  BY <2>2, <2>3
<1>h. h = PackBytes(<<c[1], c[2], c[3], last>>)
  BY DEF etc1_header, Channel
<1> HIDE DEF c, h
<1>4. c[1] \in 0 .. 255 /\ c[2] \in 0 .. 255 /\ c[3] \in 0 .. 255
  BY <1>3 DEF Channel
<1>5. /\ last \in 0 .. 255 /\ (last \div 2) % 2 = m /\ last \div 32 = inten[1]
      /\ (last \div 4) % 8 = inten[2] /\ last % 2 = f
  <2> DEFINE x == inten[1]  y == inten[2]
  <2>1. x \in 0 .. 7 /\ y \in 0 .. 7 /\ m \in {0, 1} /\ f \in {0, 1}
    BY <1>1
  <2>2. last = y * 4 + x * 32 + m * 2 + f
    OBVIOUS
  <2> HIDE DEF x, y, m, f, last
  <2>3. /\ last \in 0 .. 255 /\ (last \div 2) % 2 = m /\ last \div 32 = x
        /\ (last \div 4) % 8 = y /\ last % 2 = f
    BY <2>1, <2>2
  <2> QED  BY <2>3 DEF x, y
<1> HIDE DEF last
<1>l. last \in 0 .. 255
  BY <1>5
<1>6. h = <<c[1], c[2], c[3], last>>
  BY <1>h, <1>4, <1>l DEF PackBytes, Pack
<1>7. CASE useColor4
  <2>1. (last \div 2) % 2 = 0
    BY <1>5, <1>7
  <2>2. /\ c[1] \div 16 = rgb[1][1] /\ c[1] % 16 = rgb[2][1]
        /\ c[2] \div 16 = rgb[1][2] /\ c[2] % 16 = rgb[2][2]
        /\ c[3] \div 16 = rgb[1][3] /\ c[3] % 16 = rgb[2][3]
    BY <1>3, <1>7 DEF Channel
  <2>3. DecodedMode(h) = "individual" /\ DecodedRgb(h) = <<rgb[1], rgb[2]>>
    BY <2>1, <2>2, <1>1, <1>l, <1>6, RgbOfIndividual
  <2> QED  BY <2>3, <1>1, <1>5, <1>6, <1>7 DEF h
<1>8. CASE ~useColor4
  <2>1. Bit(h[4], 1) = 1
    <3>1. Bit(last, 1) = (last \div 2) % 2
      BY Powers DEF Bit
    <3> QED  BY <3>1, <1>5, <1>6, <1>8
  <2>2. \A i \in Channel : h[i] = c[i]
    BY <1>6 DEF Channel
  <2>3. /\ rgb[1] = [i \in Channel |-> rgb[1][i]] /\ rgb[2] = [i \in Channel |-> rgb[2][i]]
    BY <1>1 DEF Colour, Channel
  <2>4. /\ [i \in Channel |-> h[i] \div 8] = rgb[1]
        /\ [i \in Channel |-> (h[i] \div 8) + Signed3(h[i] % 8)] = rgb[2]
    BY <1>3, <1>8, <2>2, <2>3
  <2>5. \A i \in Channel : ~Overflows(h, i)
    BY <1>2, <1>3, <1>8, <2>2 DEF Overflows
  <2>6. ~Overflows(h, 1) /\ ~Overflows(h, 2) /\ ~Overflows(h, 3)
    BY <2>5 DEF Channel
  <2>7. DecodedMode(h) = "differential" /\ DecodedRgb(h) = <<rgb[1], rgb[2]>>
    BY <2>1, <2>4, <2>6 DEF DecodedMode, DecodedRgb
  <2> QED  BY <2>7, <1>1, <1>5, <1>6, <1>8 DEF h
<1> QED  BY <1>7, <1>8

(* The header of a block of one colour is that of two equal subblocks,     *)
(* whichever channel was looked up.                                        *)
LEMMA SolidIsEtc1 ==
  ASSUME NEW diff \in BOOLEAN, NEW n \in 0 .. 2, NEW colour \in Colour(31, 31, 31), NEW inten \in 0 .. 7
  PROVE  solid_header(diff, n, colour, inten)
           = etc1_header(~diff, FALSE, <<colour, colour>>, <<inten, inten>>)
<1> DEFINE scale(v) == IF diff THEN v * 8 ELSE v + v * 16
           last == (inten + inten * 8) * 4 + (IF diff THEN 2 ELSE 0)
<1>1. colour[1] \in 0 .. 31 /\ colour[2] \in 0 .. 31 /\ colour[3] \in 0 .. 31
  BY DEF Colour
<1>2. solid_header(diff, n, colour, inten)
        = PackBytes(<<scale(colour[1]), scale(colour[2]), scale(colour[3]), last>>)
  <2>1. CASE n = 0
    BY <2>1 DEF solid_header, Channel
  <2>2. CASE n = 1
    BY <2>2 DEF solid_header, Channel
  <2>3. CASE n = 2
    BY <2>3 DEF solid_header, Channel
  <2> QED  BY <2>1, <2>2, <2>3
<1>3. etc1_header(~diff, FALSE, <<colour, colour>>, <<inten, inten>>)
        = PackBytes(<<scale(colour[1]), scale(colour[2]), scale(colour[3]), last>>)
  BY <1>1 DEF etc1_header, delta
<1> QED  BY <1>2, <1>3

-----------------------------------------------------------------------------
(* Indices of a pixel of two bits.                                         *)

(* The two places of a pixel's bits: nothing but the byte swap.            *)
LEMMA IndexPlaces ==
  ASSUME NEW b, NEW k \in Pixel
  PROVE  DecodedIndex(b, k) = (IF Swapped(k) \in b THEN 2 ELSE 0) + (IF 16 + Swapped(k) \in b THEN 1 ELSE 0)
<1>1. /\ (3 - (16 + k) \div 8) * 8 + ((16 + k) % 8) = Swapped(k)
      /\ (3 - k \div 8) * 8 + (k % 8) = 16 + Swapped(k)
  BY DEF Pixel, Swapped
<1> QED  BY <1>1 DEF DecodedIndex, LowBit

(* The swap takes no two pixels to one place, and stays in its half.       *)
LEMMA SwapIsInjective ==
  ASSUME NEW k \in Pixel, NEW j \in Pixel
  PROVE  /\ Swapped(k) \in 0 .. 15
         /\ Swapped(k) = Swapped(j) => k = j
BY DEF Pixel, Swapped

(* The indices of modes T and H come back.                                 *)
LEMMA IndicesTH ==
  ASSUME NEW idx \in [Pixel -> 0 .. 3], NEW k \in Pixel
  PROVE  DecodedIndex(th_indices(idx), k) = idx[k]
<1> DEFINE b == th_indices(idx)
<1>1. \A j \in Pixel : /\ (j % 8) + (IF j < 8 THEN 8 ELSE 0) = Swapped(j)
                       /\ (j % 8) + (IF j < 8 THEN 24 ELSE 16) = 16 + Swapped(j)
  BY DEF Pixel, Swapped
<1>2. b = {Swapped(j) : j \in {j \in Pixel : idx[j] >= 2}}
          \cup {16 + Swapped(j) : j \in {j \in Pixel : (idx[j] % 2) = 1}}
  BY <1>1 DEF th_indices
<1> HIDE DEF b
<1>3. Swapped(k) \in b <=> idx[k] >= 2
  BY <1>2, SwapIsInjective
<1>4. 16 + Swapped(k) \in b <=> (idx[k] % 2) = 1
  BY <1>2, SwapIsInjective
<1>5. idx[k] \in 0 .. 3
  OBVIOUS
<1> QED  BY <1>3, <1>4, <1>5, IndexPlaces DEF b

(* The selectors of ETC1, as modifiers.                                    *)
LEMMA SelectorsAreModifiers ==
  ASSUME NEW s \in 0 .. 3
  PROVE  /\ selector_index_to_etc1(s) \in 0 .. 3
         /\ Modifier(selector_index_to_etc1(s)) = s
BY DEF selector_index_to_etc1, Modifier

(* Where the loops push a pixel is where main loaded it.                   *)
LEMMA PushedAsLoaded ==
  ASSUME NEW flip \in BOOLEAN, NEW k \in Pixel
  PROVE  (CHOOSE j \in Pixel : LoadedAt(flip, j) = PushedFrom(flip, k)) = k
<1>1. LoadedAt(flip, k) = PushedFrom(flip, k)
  BY DEF LoadedAt, PushedFrom
<1>2. \A j \in Pixel : LoadedAt(flip, j) = PushedFrom(flip, k) => j = k
  BY DEF LoadedAt, PushedFrom, Pixel
<1> QED  BY <1>1, <1>2

(* The selectors of both subblocks come back.                              *)
LEMMA IndicesEtc1 ==
  ASSUME NEW flip \in BOOLEAN, NEW selectors \in [Pixel -> 0 .. 3], NEW k \in Pixel
  PROVE  Modifier(DecodedIndex(etc1_indices(flip, selectors), k)) = selectors[k]
<1> DEFINE s(j) == selector_index_to_etc1(selectors[j])
           b == etc1_indices(flip, selectors)
<1>1. b = {Swapped(j) : j \in {j \in Pixel : s(j) >= 2}}
          \cup {16 + Swapped(j) : j \in {j \in Pixel : (s(j) % 2) = 1}}
  BY PushedAsLoaded DEF etc1_indices
<1> HIDE DEF b, s
<1>3. Swapped(k) \in b <=> s(k) >= 2
  BY <1>1, SwapIsInjective
<1>4. 16 + Swapped(k) \in b <=> (s(k) % 2) = 1
  BY <1>1, SwapIsInjective
<1>5. s(k) \in 0 .. 3 /\ Modifier(s(k)) = selectors[k]
  BY SelectorsAreModifiers DEF s
<1>6. DecodedIndex(b, k) = s(k)
  BY <1>3, <1>4, <1>5, IndexPlaces
<1> QED  BY <1>5, <1>6 DEF b

(* The one selector of a block of one colour comes back at every pixel.    *)
LEMMA IndicesSolid ==
  ASSUME NEW selector \in 0 .. 3, NEW k \in Pixel
  PROVE  Modifier(DecodedIndex(solid_indices(selector), k)) = selector
<1> DEFINE s == selector_index_to_etc1(selector)
           b == solid_indices(selector)
<1>1. s \in 0 .. 3 /\ Modifier(s) = selector
  BY SelectorsAreModifiers
<1>2. b = (IF s >= 2 THEN 0 .. 15 ELSE {}) \cup (IF s \in {1, 3} THEN 16 .. 31 ELSE {})
  BY DEF solid_indices
<1> HIDE DEF s, b
<1>3. Swapped(k) \in 0 .. 15
  BY SwapIsInjective
<1>4. (Swapped(k) \in b <=> s >= 2) /\ (16 + Swapped(k) \in b <=> s \in {1, 3})
  BY <1>2, <1>3
<1>5. DecodedIndex(b, k) = s
  BY <1>1, <1>4, IndexPlaces
<1> QED  BY <1>1, <1>5 DEF b

-----------------------------------------------------------------------------
(* EAC.                                                                    *)

(* A bit of a byte put together from a set of bits.                        *)
LEMMA ByteOfIs ==
  ASSUME NEW set, NEW q \in Nat, NEW i \in 0 .. 7
  PROVE  /\ ByteOf(set, q) \in 0 .. 255
         /\ Bit(ByteOf(set, q), i) = IF 8 * q + i \in set THEN 1 ELSE 0
<1> DEFINE d(j) == IF 8 * q + j \in set THEN 1 ELSE 0
           n == ByteOf(set, q)
<1>1. n = d(0) + 2 * d(1) + 4 * d(2) + 8 * d(3) + 16 * d(4) + 32 * d(5) + 64 * d(6) + 128 * d(7)
  BY DEF ByteOf, Binary
<1>2. /\ d(0) \in {0, 1} /\ d(1) \in {0, 1} /\ d(2) \in {0, 1} /\ d(3) \in {0, 1}
      /\ d(4) \in {0, 1} /\ d(5) \in {0, 1} /\ d(6) \in {0, 1} /\ d(7) \in {0, 1}
  OBVIOUS
<1> HIDE DEF d, n
<1>3. n \in 0 .. 255
  BY <1>1, <1>2
<1>4. /\ Bit(n, 0) = d(0) /\ Bit(n, 1) = d(1) /\ Bit(n, 2) = d(2) /\ Bit(n, 3) = d(3)
      /\ Bit(n, 4) = d(4) /\ Bit(n, 5) = d(5) /\ Bit(n, 6) = d(6) /\ Bit(n, 7) = d(7)
  BY <1>1, <1>2, DigitsAreBits
<1>5. i = 0 \/ i = 1 \/ i = 2 \/ i = 3 \/ i = 4 \/ i = 5 \/ i = 6 \/ i = 7
  OBVIOUS
<1>6. Bit(n, i) = d(i)
  BY <1>4, <1>5
<1> QED  BY <1>3, <1>6 DEF d, n

(* Where a decoder looks for bit n of the indices.                         *)
EacPlace(n) == 8 * (7 - n \div 8) + (n % 8)

(* The places of the shader's table are those of the decoder.              *)
LEMMA EacPlaces ==
  ASSUME NEW k \in Pixel, NEW i \in 0 .. 2
  PROVE  EacIndexAt[k + 1][i + 1] = EacPlace(45 - 3 * k + i)
<1>1. i = 0 \/ i = 1 \/ i = 2
  OBVIOUS
<1>2. CASE k \in 0 .. 3
  <2>1. k = 0 \/ k = 1 \/ k = 2 \/ k = 3
    BY <1>2
  <2> QED  BY <1>1, <2>1 DEF EacIndexAt, EacPlace
<1>3. CASE k \in 4 .. 7
  <2>1. k = 4 \/ k = 5 \/ k = 6 \/ k = 7
    BY <1>3
  <2> QED  BY <1>1, <2>1 DEF EacIndexAt, EacPlace
<1>4. CASE k \in 8 .. 11
  <2>1. k = 8 \/ k = 9 \/ k = 10 \/ k = 11
    BY <1>4
  <2> QED  BY <1>1, <2>1 DEF EacIndexAt, EacPlace
<1>5. CASE k \in 12 .. 15
  <2>1. k = 12 \/ k = 13 \/ k = 14 \/ k = 15
    BY <1>5
  <2> QED  BY <1>1, <2>1 DEF EacIndexAt, EacPlace
<1> QED  BY <1>2, <1>3, <1>4, <1>5 DEF Pixel

(* No two bits of the indices share a place, none is in the header.        *)
LEMMA EacPlacesDiffer ==
  ASSUME NEW m \in 0 .. 47, NEW n \in 0 .. 47
  PROVE  /\ EacPlace(m) \in 16 .. 63
         /\ EacPlace(m) = EacPlace(n) => m = n
BY DEF EacPlace

(* A bit of an index is set at its place and nowhere else.                 *)
LEMMA EacBitIsSet ==
  ASSUME NEW idx, NEW k \in Pixel, NEW i \in 0 .. 2
  PROVE  EacPlace(45 - 3 * k + i) \in eac_indices(idx) <=> Bit(idx[k], i) = 1
<1> DEFINE p == EacPlace(45 - 3 * k + i)
<1>1. p \in eac_indices(idx) <=>
        \E j \in Pixel : \E l \in 0 .. 2 : p = EacIndexAt[j + 1][l + 1] /\ Bit(idx[j], l) = 1
  <2> HIDE DEF p
  <2> DEFINE Chosen == {kb \in Pixel \X (0 .. 2) : Bit(idx[kb[1]], kb[2]) = 1}
  <2>1. p \in eac_indices(idx) <=> \E kb \in Chosen : p = EacIndexAt[kb[1] + 1][kb[2] + 1]
    BY DEF eac_indices
  <2>2. ASSUME NEW kb \in Chosen, p = EacIndexAt[kb[1] + 1][kb[2] + 1]
        PROVE  \E j \in Pixel : \E l \in 0 .. 2 : p = EacIndexAt[j + 1][l + 1] /\ Bit(idx[j], l) = 1
    BY <2>2
  <2>3. ASSUME NEW j \in Pixel, NEW l \in 0 .. 2, p = EacIndexAt[j + 1][l + 1], Bit(idx[j], l) = 1
        PROVE  \E kb \in Chosen : p = EacIndexAt[kb[1] + 1][kb[2] + 1]
    <3>1. <<j, l>> \in Chosen
      BY <2>3
    <3> QED  BY <3>1, <2>3
  <2> QED  BY <2>1, <2>2, <2>3
<1>2. \A j \in Pixel : \A l \in 0 .. 2 : p = EacIndexAt[j + 1][l + 1] => j = k /\ l = i
  <2> SUFFICES ASSUME NEW j \in Pixel, NEW l \in 0 .. 2, p = EacIndexAt[j + 1][l + 1]
               PROVE  j = k /\ l = i
    OBVIOUS
  <2>1. 45 - 3 * k + i \in 0 .. 47 /\ 45 - 3 * j + l \in 0 .. 47
    BY DEF Pixel
  <2> DEFINE m == 45 - 3 * k + i
             n == 45 - 3 * j + l
  <2>a. p = EacPlace(m)
    OBVIOUS
  <2>b. p = EacPlace(n)
    BY EacPlaces
  <2> HIDE DEF m, n, p
  <2>c. m = n
    BY <2>1, <2>a, <2>b, EacPlacesDiffer DEF m, n
  <2>2. 45 - 3 * k + i = 45 - 3 * j + l
    BY <2>c DEF m, n
  <2> QED  BY <2>2 DEF Pixel
<1>3. p = EacIndexAt[k + 1][i + 1]
  BY EacPlaces
<1> HIDE DEF p
<1>4. p \in eac_indices(idx) <=> Bit(idx[k], i) = 1
  BY <1>1, <1>2, <1>3
<1> QED  BY <1>4 DEF p

(* A decoder finds the bits of the set in the two words.                   *)
LEMMA EacBitIsRead ==
  ASSUME NEW base, NEW multiplier, NEW table, NEW idx, NEW n \in 0 .. 47
  PROVE  LET packed == eac_pack(base, multiplier, table, idx)
         IN  EacBit(packed.x, packed.y, n) = IF EacPlace(n) \in eac_indices(idx) THEN 1 ELSE 0
<1> DEFINE packed == eac_pack(base, multiplier, table, idx)
           set == eac_indices(idx)
           at == EacPlace(n)
           h == packed.x
           b == packed.y
<1>1. /\ h = <<base, table + 16 * multiplier, ByteOf(set, 2), ByteOf(set, 3)>>
      /\ b = {m - 32 : m \in {m \in set : m >= 32}}
  BY DEF eac_pack
<1>2. at \in 16 .. 63
  BY EacPlacesDiffer
<1>3. EacBit(h, b, n) = IF at >= 32 THEN (IF at - 32 \in b THEN 1 ELSE 0)
                                    ELSE Bit(h[at \div 8 + 1], at % 8)
  BY DEF EacBit, EacPlace
<1>n. set \subseteq Int
  <2>1. \A k \in Pixel : \A i \in 0 .. 2 : EacIndexAt[k + 1][i + 1] \in Int
    <3> SUFFICES ASSUME NEW k \in Pixel, NEW i \in 0 .. 2 PROVE EacIndexAt[k + 1][i + 1] \in Int
      OBVIOUS
    <3>1. 45 - 3 * k + i \in 0 .. 47
      BY DEF Pixel
    <3>2. EacIndexAt[k + 1][i + 1] = EacPlace(45 - 3 * k + i)
      BY EacPlaces
    <3>3. EacPlace(45 - 3 * k + i) \in 16 .. 63
      BY <3>1, EacPlacesDiffer
    <3> QED  BY <3>2, <3>3
  <2> QED  BY <2>1 DEF eac_indices
<1> HIDE DEF packed, set, at, h, b
<1>4. CASE at >= 32
  <2>1. at - 32 \in b <=> at \in set
    BY <1>1, <1>2, <1>4, <1>n
  <2> QED  BY <2>1, <1>3, <1>4 DEF packed, set, at, h, b
<1>5. CASE at < 32
  <2> DEFINE q == at \div 8
             r == at % 8
  <2>1. q \in {2, 3} /\ r \in 0 .. 7 /\ at = 8 * q + r
    BY <1>2, <1>5
  <2>2. h[q + 1] = ByteOf(set, q)
    BY <1>1, <2>1
  <2>3. EacBit(h, b, n) = Bit(h[q + 1], r)
    BY <1>2, <1>3, <1>5
  <2> HIDE DEF q, r
  <2>4. Bit(ByteOf(set, q), r) = IF 8 * q + r \in set THEN 1 ELSE 0
    BY <2>1, ByteOfIs
  <2> QED  BY <2>1, <2>2, <2>3, <2>4 DEF packed, set, at, h, b
<1> QED  BY <1>2, <1>4, <1>5

(* The indices of an EAC block come back.                                  *)
LEMMA IndicesEac ==
  ASSUME NEW base, NEW multiplier, NEW table, NEW idx \in [Pixel -> 0 .. 7], NEW k \in Pixel
  PROVE  LET packed == eac_pack(base, multiplier, table, idx)
         IN  EacDecodedIndex(packed.x, packed.y, k) = idx[k]
<1> DEFINE packed == eac_pack(base, multiplier, table, idx)
           bit(i) == EacBit(packed.x, packed.y, 45 - 3 * k + i)
<1>1. \A i \in 0 .. 2 : bit(i) = IF Bit(idx[k], i) = 1 THEN 1 ELSE 0
  <2> SUFFICES ASSUME NEW i \in 0 .. 2 PROVE bit(i) = IF Bit(idx[k], i) = 1 THEN 1 ELSE 0
    OBVIOUS
  <2> DEFINE n == 45 - 3 * k + i
  <2>1. n \in 0 .. 47
    BY DEF Pixel
  <2>2. EacPlace(n) \in eac_indices(idx) <=> Bit(idx[k], i) = 1
    BY EacBitIsSet
  <2> HIDE DEF n
  <2>3. EacBit(packed.x, packed.y, n) = IF EacPlace(n) \in eac_indices(idx) THEN 1 ELSE 0
    BY <2>1, EacBitIsRead
  <2> QED  BY <2>2, <2>3 DEF n
<1>2. idx[k] \in 0 .. 7
  OBVIOUS
<1>3. /\ Bit(idx[k], 0) = idx[k] % 2 /\ Bit(idx[k], 1) = (idx[k] \div 2) % 2
      /\ Bit(idx[k], 2) = (idx[k] \div 4) % 2
  BY Powers DEF Bit
<1>4. EacDecodedIndex(packed.x, packed.y, k) = bit(0) + 2 * bit(1) + 4 * bit(2)
  <2>1. bit(0) \in {0, 1} /\ bit(1) \in {0, 1} /\ bit(2) \in {0, 1}
    BY <1>1
  <2> QED  BY <2>1 DEF EacDecodedIndex, Binary
<1> HIDE DEF packed, bit
<1>5. bit(0) + 2 * bit(1) + 4 * bit(2) = idx[k]
  <2> DEFINE v == idx[k]
  <2>1. /\ bit(0) = (IF v % 2 = 1 THEN 1 ELSE 0) /\ bit(1) = (IF (v \div 2) % 2 = 1 THEN 1 ELSE 0)
        /\ bit(2) = (IF (v \div 4) % 2 = 1 THEN 1 ELSE 0)
    BY <1>1, <1>3
  <2>2. v \in 0 .. 7
    BY <1>2
  <2> HIDE DEF v
  <2>3. bit(0) + 2 * bit(1) + 4 * bit(2) = v
    BY <2>1, <2>2
  <2> QED  BY <2>3 DEF v
<1> QED  BY <1>4, <1>5 DEF packed

-----------------------------------------------------------------------------
(* Planar colours.                                                         *)

(* The search expands a colour as a decoder does.                          *)
LEMMA ExpandedAsRepeated ==
  ASSUME NEW c \in Colour(63, 127, 63)
  PROVE  /\ rgb676To888(c) = Repeated(c)
         /\ \A i \in Channel : Repeated(c)[i] \in Int
<1>1. c[1] \in 0 .. 63 /\ c[2] \in 0 .. 127 /\ c[3] \in 0 .. 63
  BY DEF Colour
<1>2. \A v \in 0 .. 63 : (v * 65) \div 16 = v * 4 + v \div 16
  OBVIOUS
<1>3. \A v \in 0 .. 127 : (v * 20157) \div 10000 = v * 2 + v \div 64
  OBVIOUS
<1>4. rgb676To888(c) = Repeated(c)
  BY <1>1, <1>2, <1>3 DEF rgb676To888, Repeated
<1>5. \A i \in Channel : Repeated(c)[i] \in Int
  BY <1>1 DEF Repeated, Channel
<1> QED  BY <1>4, <1>5

(* Both interpolate and clamp in the same way.                             *)
LEMMA MeasuredIsPainted ==
  ASSUME NEW O, NEW H, NEW V, NEW i, NEW k \in Pixel, O[i] \in Int, H[i] \in Int, V[i] \in Int
  PROVE  Measured(O, H, V, i, k) = Painted(O, H, V, i, k)
<1> DEFINE x == (k % 4) * (H[i] - O[i])
           y == (k \div 4) * (V[i] - O[i])
           m == (4 * O[i] + x + y + 2) \div 4
           n == (x + y + 4 * O[i] + 2) \div 4
<1>1. x \in Int /\ y \in Int
  <2>1. k % 4 \in Int /\ k \div 4 \in Int /\ H[i] - O[i] \in Int /\ V[i] - O[i] \in Int
    BY DEF Pixel
  <2> QED  BY <2>1
<1>2. Measured(O, H, V, i, k) = Max({0, Min({255, m})})
  BY DEF Measured
<1>3. Painted(O, H, V, i, k) = IF n < 0 THEN 0 ELSE IF n > 255 THEN 255 ELSE n
  BY DEF Painted
<1> HIDE DEF x, y
<1>4. m = n /\ m \in Int
  BY <1>1
<1> HIDE DEF m, n
<1>5. Min({255, m}) = IF m > 255 THEN 255 ELSE m
  <2> DEFINE r == IF m > 255 THEN 255 ELSE m
  <2>1. r \in {255, m} /\ \A z \in {255, m} : r <= z
    BY <1>4
  <2>2. \A w \in {255, m} : (\A z \in {255, m} : w <= z) => w = r
    BY <1>4
  <2> HIDE DEF r
  <2>3. Min({255, m}) = r
    BY <2>1, <2>2 DEF Min
  <2> QED  BY <2>3 DEF r
<1>6. ASSUME NEW v \in Int PROVE Max({0, v}) = IF v < 0 THEN 0 ELSE v
  <2> DEFINE r == IF v < 0 THEN 0 ELSE v
  <2>1. r \in {0, v} /\ \A z \in {0, v} : r >= z
    OBVIOUS
  <2>2. \A w \in {0, v} : (\A z \in {0, v} : w >= z) => w = r
    OBVIOUS
  <2> HIDE DEF r
  <2>3. Max({0, v}) = r
    BY <2>1, <2>2 DEF Max
  <2> QED  BY <2>3 DEF r
<1>7. Min({255, m}) \in Int
  BY <1>4, <1>5
<1> QED  BY <1>2, <1>3, <1>4, <1>5, <1>6, <1>7

-----------------------------------------------------------------------------
(* The machine.                                                            *)

(* Nothing is written yet, or what the shader of the mode writes.          *)
BlockInvariant ==
  /\ block \in Candidate
  /\ \/ header = <<>>
     \/ /\ block.mode = "T"
        /\ header = etc2_gen_header_t_mode(block.c0, block.c1, block.distIdx)
        /\ bits = th_indices(block.idx)
     \/ /\ block.mode = "H"
        /\ header = etc2_gen_header_h_mode(block.c0, block.c1, block.distIdx)
        /\ bits = th_indices(block.idx)
     \/ /\ block.mode = "planar"
        /\ header = planar_header(block.cO, block.cH)
        /\ bits = BitsOf(planar_low(block.cH, block.cV))
     \/ /\ block.mode = "etc1"
        /\ header = etc1_header(block.useColor4, block.flip, block.rgb, block.inten)
        /\ bits = etc1_indices(block.flip, block.selectors)
     \/ /\ block.mode = "solid"
        /\ header = solid_header(block.diff, block.i, block.colour, block.inten)
        /\ bits = solid_indices(block.selector)
     \/ /\ block.mode = "eac"
        /\ header = eac_pack(block.base, block.multiplier, block.table, block.idx).x
        /\ bits = eac_pack(block.base, block.multiplier, block.table, block.idx).y
     \/ /\ block.mode = "eac flat"
        /\ header = <<block.base, 0, 0, 0>>
        /\ bits = {}

(* A block is written once, by the action of its mode.                     *)
LEMMA BlockInvariance == Spec => []BlockInvariant
<1>1. Init => BlockInvariant
  BY DEF Init, BlockInvariant
<1>2. BlockInvariant /\ [Next]_vars => BlockInvariant'
  <2> SUFFICES ASSUME BlockInvariant, [Next]_vars PROVE BlockInvariant'
    OBVIOUS
  <2>1. CASE WriteT
    BY <2>1 DEF WriteT, Write, BlockInvariant
  <2>2. CASE WriteH
    BY <2>2 DEF WriteH, Write, BlockInvariant
  <2>3. CASE WritePlanar
    BY <2>3 DEF WritePlanar, Write, BlockInvariant
  <2>4. CASE WriteEtc1
    BY <2>4 DEF WriteEtc1, Write, BlockInvariant
  <2>5. CASE WriteSolid
    BY <2>5 DEF WriteSolid, Write, BlockInvariant
  <2>6. CASE WriteEac
    BY <2>6 DEF WriteEac, Write, BlockInvariant
  <2>7. CASE WriteEacFlat
    BY <2>7 DEF WriteEacFlat, Write, BlockInvariant
  <2>8. CASE Terminating \/ UNCHANGED vars
    BY <2>8 DEF Terminating, vars, BlockInvariant
  <2> QED  BY <2>1, <2>2, <2>3, <2>4, <2>5, <2>6, <2>7, <2>8 DEF Next
<1> QED  BY <1>1, <1>2, PTL DEF Spec

(* The mode of a candidate tells its kind.                                 *)
LEMMA CandidateKinds ==
  ASSUME NEW c \in Candidate
  PROVE  /\ c.mode \in {"T", "H", "planar", "etc1", "solid", "eac", "eac flat"}
         /\ c.mode \in {"T", "H"} => c \in BlockTH
         /\ c.mode = "planar" => c \in BlockPlanar
         /\ c.mode = "etc1" => c \in BlockEtc1
         /\ c.mode = "solid" => c \in BlockSolid
         /\ c.mode = "eac" => c \in BlockEac
         /\ FitsItsLayout(c)
<1>1. /\ c \in BlockTH \/ c \in BlockPlanar \/ c \in BlockEtc1 \/ c \in BlockSolid \/ c \in BlockEac
         \/ c \in BlockEacFlat
      /\ FitsItsLayout(c)
  BY EtcBlocksAssumption
<1>2. /\ c \in BlockTH => c.mode \in {"T", "H"}
      /\ c \in BlockPlanar => c.mode = "planar"
      /\ c \in BlockEtc1 => c.mode = "etc1"
      /\ c \in BlockSolid => c.mode = "solid"
      /\ c \in BlockEac => c.mode = "eac"
      /\ c \in BlockEacFlat => c.mode = "eac flat"
  BY DEF BlockTH, BlockPlanar, BlockEtc1, BlockSolid, BlockEac, BlockEacFlat
<1> QED  BY <1>1, <1>2

(* A written block, by its mode: what the action of that mode left.        *)
LEMMA WrittenByMode ==
  ASSUME BlockInvariant, Written
  PROVE  /\ block \in Candidate
         /\ block.mode = "T" =>
              /\ header = etc2_gen_header_t_mode(block.c0, block.c1, block.distIdx)
              /\ bits = th_indices(block.idx)
         /\ block.mode = "H" =>
              /\ header = etc2_gen_header_h_mode(block.c0, block.c1, block.distIdx)
              /\ bits = th_indices(block.idx)
         /\ block.mode = "planar" =>
              /\ header = planar_header(block.cO, block.cH)
              /\ bits = BitsOf(planar_low(block.cH, block.cV))
         /\ block.mode = "etc1" =>
              /\ header = etc1_header(block.useColor4, block.flip, block.rgb, block.inten)
              /\ bits = etc1_indices(block.flip, block.selectors)
         /\ block.mode = "solid" =>
              /\ header = solid_header(block.diff, block.i, block.colour, block.inten)
              /\ bits = solid_indices(block.selector)
         /\ block.mode = "eac" =>
              /\ header = eac_pack(block.base, block.multiplier, block.table, block.idx).x
              /\ bits = eac_pack(block.base, block.multiplier, block.table, block.idx).y
         /\ block.mode = "eac flat" => header = <<block.base, 0, 0, 0>>
BY DEF BlockInvariant, Written

(* A block of one colour is read as an ETC1 block of twice that colour.    *)
LEMMA HeaderSolid ==
  ASSUME NEW diff \in BOOLEAN, NEW n \in 0 .. 2, NEW colour \in Colour(31, 31, 31), NEW inten \in 0 .. 7,
         ~diff => \A i \in Channel : colour[i] < 16
  PROVE  LET h == solid_header(diff, n, colour, inten)
         IN  /\ DecodedMode(h) = IF diff THEN "differential" ELSE "individual"
             /\ DecodedRgb(h) = <<colour, colour>>
             /\ <<h[4] \div 32, ((h[4] \div 4) % 8)>> = <<inten, inten>>
<1> DEFINE rgb == <<colour, colour>>
           both == <<inten, inten>>
<1>1. rgb \in Colour(31, 31, 31) \X Colour(31, 31, 31) /\ both \in (0 .. 7) \X (0 .. 7)
  OBVIOUS
<1>2. rgb[1] = colour /\ rgb[2] = colour
  OBVIOUS
<1>3. \A i \in Channel : IF ~diff THEN rgb[1][i] < 16 /\ rgb[2][i] < 16
                                   ELSE rgb[2][i] - rgb[1][i] \in -4 .. 3
  <2>1. \A i \in Channel : colour[i] \in Int
    BY DEF Colour, Channel
  <2> QED  BY <2>1, <1>2
<1> DEFINE u == ~diff
           f == FALSE
<1>4. u \in BOOLEAN /\ f \in BOOLEAN /\ (u <=> ~diff)
  OBVIOUS
<1>5. solid_header(diff, n, colour, inten) = etc1_header(u, f, rgb, both)
  BY SolidIsEtc1
<1> HIDE DEF rgb, both, u, f
<1>6. \A i \in Channel : IF u THEN rgb[1][i] < 16 /\ rgb[2][i] < 16
                              ELSE rgb[2][i] - rgb[1][i] \in -4 .. 3
  BY <1>3, <1>4
<1>7. LET h == etc1_header(u, f, rgb, both)
      IN  /\ DecodedMode(h) = IF u THEN "individual" ELSE "differential"
          /\ DecodedRgb(h) = rgb
          /\ <<h[4] \div 32, ((h[4] \div 4) % 8)>> = both
  BY <1>1, <1>4, <1>6, HeaderEtc1
<1>8. DecodedMode(etc1_header(u, f, rgb, both)) = IF diff THEN "differential" ELSE "individual"
  BY <1>4, <1>7
<1> QED  BY <1>5, <1>7, <1>8 DEF rgb, both

(* What a decoder makes of a written block, by its mode.                   *)
LEMMA ReadT ==
  ASSUME BlockInvariant, Written, block.mode = "T"
  PROVE  /\ DecodedMode(header) = "T"
         /\ DecodedT(header) = [c0 |-> rgb888to444(block.c0), c1 |-> rgb888to444(block.c1),
                                distIdx |-> block.distIdx]
<1> DEFINE c0 == block.c0
           c1 == block.c1
           d == block.distIdx
<1>1. c0 \in Colour(255, 255, 255) /\ c1 \in Colour(255, 255, 255) /\ d \in 0 .. 7
  <2>1. block \in Candidate
    BY WrittenByMode
  <2>2. block \in BlockTH
    BY <2>1, CandidateKinds
  <2> QED  BY <2>2 DEF BlockTH
<1>2. header = etc2_gen_header_t_mode(c0, c1, d)
  BY WrittenByMode
<1> HIDE DEF c0, c1, d
<1>3. DecodedMode(header) = "T" /\ DecodedT(header) = [c0 |-> rgb888to444(c0), c1 |-> rgb888to444(c1), distIdx |-> d]
  BY <1>1, <1>2, HeaderT
<1> QED  BY <1>3 DEF c0, c1, d

(* Mode H: the colours in the order the shader gave them.                  *)
LEMMA ReadH ==
  ASSUME BlockInvariant, Written, block.mode = "H"
  PROVE  /\ DecodedMode(header) = "H"
         /\ <<DecodedH(header).c0, DecodedH(header).c1>>
              = <<rgb888to444(HColours4[1]), rgb888to444(HColours4[2])>>
         /\ DecodedH(header).distIdx \div 2 = block.distIdx \div 2
<1> DEFINE c0 == block.c0
           c1 == block.c1
           d == block.distIdx
<1>1. c0 \in Colour(255, 255, 255) /\ c1 \in Colour(255, 255, 255) /\ d \in 0 .. 7
  <2>1. block \in Candidate
    BY WrittenByMode
  <2>2. block \in BlockTH
    BY <2>1, CandidateKinds
  <2> QED  BY <2>2 DEF BlockTH
<1>2. header = etc2_gen_header_h_mode(c0, c1, d)
  BY WrittenByMode
<1>3. HColours4 = HColours(c0, c1, d)
  BY DEF HColours4
<1> HIDE DEF c0, c1, d
<1>4. /\ DecodedMode(header) = "H"
      /\ <<DecodedH(header).c0, DecodedH(header).c1>>
           = <<rgb888to444(HColours(c0, c1, d)[1]), rgb888to444(HColours(c0, c1, d)[2])>>
      /\ DecodedH(header).distIdx \div 2 = d \div 2
  BY <1>1, <1>2, HeaderH
<1> QED  BY <1>3, <1>4 DEF d

(* Planar mode: three corners of 6, 7 and 6 bits.                          *)
LEMMA ReadPlanar ==
  ASSUME BlockInvariant, Written, block.mode = "planar"
  PROVE  /\ DecodedMode(header) = "planar"
         /\ DecodedO(header) = block.cO
         /\ DecodedHV(header, bits) = <<block.cH, block.cV>>
<1> DEFINE O == block.cO
           H == block.cH
           V == block.cV
<1>1. O \in Colour(63, 127, 63) /\ H \in Colour(63, 127, 63) /\ V \in Colour(63, 127, 63)
  <2>1. block \in Candidate
    BY WrittenByMode
  <2> QED  BY <2>1, CandidateKinds DEF BlockPlanar
<1>2. header = planar_header(O, H) /\ bits = BitsOf(planar_low(H, V))
  BY WrittenByMode
<1> HIDE DEF O, H, V
<1>3. H = <<H[1], H[2], H[3]>> /\ V = <<V[1], V[2], V[3]>>
  BY <1>1 DEF Colour
<1>4. /\ DecodedMode(header) = "planar" /\ DecodedO(header) = O
      /\ ((header[4] \div 4) % 32) * 2 + (header[4] % 2) = H[1]
  BY <1>1, <1>2, HeaderPlanar
<1>5. /\ LowField(bits, 25, 7) = H[2] /\ LowField(bits, 19, 6) = H[3]
      /\ LowField(bits, 13, 6) = V[1] /\ LowField(bits, 6, 7) = V[2] /\ LowField(bits, 0, 6) = V[3]
  BY <1>1, <1>2, LowPlanar
<1>6. DecodedHV(header, bits) = <<<<H[1], H[2], H[3]>>, <<V[1], V[2], V[3]>>>>
  BY <1>4, <1>5 DEF DecodedHV
<1>7. DecodedHV(header, bits) = <<H, V>>
  BY <1>3, <1>6
<1> QED  BY <1>4, <1>7 DEF O, H, V

(* ETC1: two colours, two tables and the flip.                             *)
LEMMA ReadEtc1 ==
  ASSUME BlockInvariant, Written, block.mode = "etc1"
  PROVE  /\ DecodedMode(header) = IF block.useColor4 THEN "individual" ELSE "differential"
         /\ DecodedRgb(header) = block.rgb
         /\ <<header[4] \div 32, ((header[4] \div 4) % 8)>> = block.inten
         /\ ((header[4] % 2) = 1) = block.flip
<1> DEFINE u == block.useColor4
           f == block.flip
           rgb == block.rgb
           inten == block.inten
<1>1. /\ u \in BOOLEAN /\ f \in BOOLEAN
      /\ rgb \in Colour(31, 31, 31) \X Colour(31, 31, 31) /\ inten \in (0 .. 7) \X (0 .. 7)
      /\ \A i \in Channel : IF u THEN rgb[1][i] < 16 /\ rgb[2][i] < 16
                                 ELSE rgb[2][i] - rgb[1][i] \in -4 .. 3
  <2>1. block \in Candidate
    BY WrittenByMode
  <2>2. block \in BlockEtc1 /\ FitsItsLayout(block)
    BY <2>1, CandidateKinds
  <2> QED  BY <2>2 DEF BlockEtc1, FitsItsLayout
<1>2. header = etc1_header(u, f, rgb, inten)
  BY WrittenByMode
<1> HIDE DEF u, f, rgb, inten
<1>3. LET h == etc1_header(u, f, rgb, inten)
      IN  /\ DecodedMode(h) = IF u THEN "individual" ELSE "differential"
          /\ DecodedRgb(h) = rgb
          /\ <<h[4] \div 32, ((h[4] \div 4) % 8)>> = inten
          /\ ((h[4] % 2) = 1) = f
  BY <1>1, HeaderEtc1
<1> QED  BY <1>2, <1>3, Zenon DEF u, f, rgb, inten

(* A block of one colour.                                                  *)
LEMMA ReadSolid ==
  ASSUME BlockInvariant, Written, block.mode = "solid"
  PROVE  /\ DecodedMode(header) = IF block.diff THEN "differential" ELSE "individual"
         /\ DecodedRgb(header) = <<block.colour, block.colour>>
         /\ <<header[4] \div 32, ((header[4] \div 4) % 8)>> = <<block.inten, block.inten>>
<1> DEFINE diff == block.diff
           n == block.i
           colour == block.colour
           inten == block.inten
<1>1. /\ diff \in BOOLEAN /\ n \in 0 .. 2 /\ colour \in Colour(31, 31, 31) /\ inten \in 0 .. 7
      /\ ~diff => \A i \in Channel : colour[i] < 16
  <2>1. block \in Candidate
    BY WrittenByMode
  <2>2. block \in BlockSolid /\ FitsItsLayout(block)
    BY <2>1, CandidateKinds
  <2> QED  BY <2>2 DEF BlockSolid, FitsItsLayout
<1>2. header = solid_header(diff, n, colour, inten)
  BY WrittenByMode
<1> HIDE DEF diff, n, colour, inten
<1>3. LET h == solid_header(diff, n, colour, inten)
      IN  /\ DecodedMode(h) = IF diff THEN "differential" ELSE "individual"
          /\ DecodedRgb(h) = <<colour, colour>>
          /\ <<h[4] \div 32, ((h[4] \div 4) % 8)>> = <<inten, inten>>
  BY <1>1, HeaderSolid
<1> QED  BY <1>2, <1>3, Zenon DEF diff, colour, inten

(* Whatever the colours, a decoder finds the mode the shader meant.        *)
THEOREM ModeIsDecoded == Spec => []ModeIsKept
<1>1. BlockInvariant => ModeIsKept
  <2> SUFFICES ASSUME BlockInvariant, Written, ~IsEac
               PROVE  DecodedMode(header) =
                        CASE block.mode = "etc1" -> IF block.useColor4 THEN "individual" ELSE "differential"
                          [] block.mode = "solid" -> IF block.diff THEN "differential" ELSE "individual"
                          [] OTHER                -> block.mode
    BY DEF ModeIsKept
  <2>1. block.mode \in {"T", "H", "planar", "etc1", "solid"}
    BY WrittenByMode, CandidateKinds DEF IsEac
  <2>2. CASE block.mode = "T"
    <3>1. DecodedMode(header) = "T"
      BY <2>2, ReadT
    <3> QED  BY <2>2, <3>1
  <2>3. CASE block.mode = "H"
    <3>1. DecodedMode(header) = "H"
      BY <2>3, ReadH
    <3> QED  BY <2>3, <3>1
  <2>4. CASE block.mode = "planar"
    <3>1. DecodedMode(header) = "planar"
      BY <2>4, ReadPlanar
    <3> QED  BY <2>4, <3>1
  <2>5. CASE block.mode = "etc1"
    <3>1. DecodedMode(header) = IF block.useColor4 THEN "individual" ELSE "differential"
      BY <2>5, ReadEtc1
    <3> QED  BY <2>5, <3>1
  <2>6. CASE block.mode = "solid"
    <3>1. DecodedMode(header) = IF block.diff THEN "differential" ELSE "individual"
      BY <2>6, ReadSolid
    <3> QED  BY <2>6, <3>1
  <2> QED  BY <2>1, <2>2, <2>3, <2>4, <2>5, <2>6
<1> QED  BY <1>1, BlockInvariance, PTL

(* The colours, distances, intensity tables, codewords and multipliers a   *)
(* decoder reads are the shader's.                                         *)
THEOREM FieldsAreDecoded == Spec => []FieldsAreKept
<1>1. BlockInvariant => FieldsAreKept
  <2> SUFFICES ASSUME BlockInvariant, Written PROVE FieldsAreKept
    BY DEF FieldsAreKept
  <2>1. block.mode \in {"T", "H", "planar", "etc1", "solid", "eac", "eac flat"}
    BY WrittenByMode, CandidateKinds
  <2>2. CASE block.mode = "T"
    <3>1. DecodedT(header) = [c0 |-> rgb888to444(block.c0), c1 |-> rgb888to444(block.c1),
                              distIdx |-> block.distIdx]
      BY <2>2, ReadT
    <3> QED  BY <2>2, <3>1 DEF FieldsAreKept
  <2>3. CASE block.mode = "H"
    <3>1. /\ <<DecodedH(header).c0, DecodedH(header).c1>>
               = <<rgb888to444(HColours4[1]), rgb888to444(HColours4[2])>>
          /\ DecodedH(header).distIdx \div 2 = block.distIdx \div 2
      BY <2>3, ReadH
    <3> QED  BY <2>3, <3>1 DEF FieldsAreKept
  <2>4. CASE block.mode = "planar"
    <3>1. DecodedO(header) = block.cO /\ DecodedHV(header, bits) = <<block.cH, block.cV>>
      BY <2>4, ReadPlanar
    <3> QED  BY <2>4, <3>1 DEF FieldsAreKept
  <2>5. CASE block.mode = "etc1"
    <3>1. /\ DecodedRgb(header) = block.rgb
          /\ <<header[4] \div 32, ((header[4] \div 4) % 8)>> = block.inten
          /\ ((header[4] % 2) = 1) = block.flip
      BY <2>5, ReadEtc1
    <3> QED  BY <2>5, <3>1 DEF FieldsAreKept
  <2>6. CASE block.mode = "solid"
    <3>1. /\ DecodedRgb(header) = <<block.colour, block.colour>>
          /\ <<header[4] \div 32, ((header[4] \div 4) % 8)>> = <<block.inten, block.inten>>
      BY <2>6, ReadSolid
    <3> QED  BY <2>6, <3>1 DEF FieldsAreKept
  <2>7. CASE block.mode = "eac"
    <3> DEFINE m == block.multiplier
               t == block.table
    <3>1. m \in 0 .. 15 /\ t \in 0 .. 15
      BY <2>7, WrittenByMode, CandidateKinds DEF BlockEac
    <3>2. header[1] = block.base /\ header[2] = t + 16 * m
      BY <2>7, WrittenByMode DEF eac_pack
    <3> HIDE DEF m, t
    <3>3. (t + 16 * m) \div 16 = m /\ (t + 16 * m) % 16 = t
      BY <3>1
    <3>4. <<header[1], header[2] \div 16, header[2] % 16>> = <<block.base, block.multiplier, block.table>>
      BY <3>2, <3>3 DEF m, t
    <3> QED  BY <2>7, <3>4 DEF FieldsAreKept
  <2>8. CASE block.mode = "eac flat"
    <3>1. header = <<block.base, 0, 0, 0>>
      BY <2>8, WrittenByMode
    <3>2. <<header[1], header[2] \div 16>> = <<block.base, 0>>
      BY <3>1
    <3> QED  BY <2>8, <3>2 DEF FieldsAreKept
  <2> QED  BY <2>1, <2>2, <2>3, <2>4, <2>5, <2>6, <2>7, <2>8
<1> QED  BY <1>1, BlockInvariance, PTL

(* Every pixel gets back the selector the shader chose for it.             *)
THEOREM IndicesAreDecoded == Spec => []IndicesAreKept
<1>1. BlockInvariant => IndicesAreKept
  <2> SUFFICES ASSUME BlockInvariant, Written, NEW k \in Pixel
               PROVE  CASE block.mode \in {"T", "H"} -> DecodedIndex(bits, k) = block.idx[k]
                        [] block.mode = "etc1"  -> Modifier(DecodedIndex(bits, k)) = block.selectors[k]
                        [] block.mode = "solid" -> Modifier(DecodedIndex(bits, k)) = block.selector
                        [] block.mode = "eac"   -> EacDecodedIndex(header, bits, k) = block.idx[k]
                        [] OTHER -> TRUE
    BY DEF IndicesAreKept
  <2>1. block.mode \in {"T", "H", "planar", "etc1", "solid", "eac", "eac flat"}
    BY WrittenByMode, CandidateKinds
  <2>2. CASE block.mode \in {"T", "H"}
    <3> DEFINE idx == block.idx
    <3>a. block \in BlockTH
      BY <2>2, WrittenByMode, CandidateKinds
    <3>b. idx \in [Pixel -> 0 .. 3]
      BY <3>a DEF BlockTH
    <3>c. bits = th_indices(idx)
      BY <2>2, WrittenByMode
    <3> HIDE DEF idx
    <3>d. DecodedIndex(bits, k) = idx[k]
      BY <3>b, <3>c, IndicesTH
    <3>1. DecodedIndex(bits, k) = block.idx[k]
      BY <3>d DEF idx
    <3> QED  BY <2>2, <3>1
  <2>3. CASE block.mode = "etc1"
    <3> DEFINE f == block.flip
               s == block.selectors
    <3>a. f \in BOOLEAN /\ s \in [Pixel -> 0 .. 3]
      BY <2>3, WrittenByMode, CandidateKinds DEF BlockEtc1
    <3>b. bits = etc1_indices(f, s)
      BY <2>3, WrittenByMode
    <3> HIDE DEF f, s
    <3>c. Modifier(DecodedIndex(bits, k)) = s[k]
      BY <3>a, <3>b, IndicesEtc1
    <3>1. Modifier(DecodedIndex(bits, k)) = block.selectors[k]
      BY <3>c DEF s
    <3> QED  BY <2>3, <3>1
  <2>4. CASE block.mode = "solid"
    <3>1. Modifier(DecodedIndex(bits, k)) = block.selector
      BY <2>4, WrittenByMode, CandidateKinds, IndicesSolid DEF BlockSolid
    <3> QED  BY <2>4, <3>1
  <2>5. CASE block.mode = "eac"
    <3> DEFINE packed == eac_pack(block.base, block.multiplier, block.table, block.idx)
               idx == block.idx
    <3>1. header = packed.x /\ bits = packed.y
      BY <2>5, WrittenByMode
    <3>2. idx \in [Pixel -> 0 .. 7]
      BY <2>5, WrittenByMode, CandidateKinds DEF BlockEac
    <3>3. EacDecodedIndex(packed.x, packed.y, k) = idx[k]
      BY <3>2, IndicesEac
    <3> HIDE DEF packed, idx
    <3>4. EacDecodedIndex(header, bits, k) = block.idx[k]
      BY <3>1, <3>3 DEF idx
    <3> QED  BY <2>5, <3>4
  <2>6. CASE block.mode \in {"planar", "eac flat"}
    BY <2>6
  <2> QED  BY <2>1, <2>2, <2>3, <2>4, <2>5, <2>6
<1> QED  BY <1>1, BlockInvariance, PTL

(* The error that ranks a planar block is of the colours a decoder paints. *)
THEOREM PlanarErrorIsOfDecoded == Spec => []PlanarIsSearchedAsDecoded
<1>1. BlockInvariant /\ FieldsAreKept => PlanarIsSearchedAsDecoded
  <2> SUFFICES ASSUME BlockInvariant, FieldsAreKept, Written, block.mode = "planar"
               PROVE  PlanarIsSearchedAsDecoded
    BY DEF PlanarIsSearchedAsDecoded
  <2> DEFINE O == Repeated(DecodedO(header))
             H == Repeated(DecodedHV(header, bits)[1])
             V == Repeated(DecodedHV(header, bits)[2])
  <2>1. /\ block.cO \in Colour(63, 127, 63) /\ block.cH \in Colour(63, 127, 63)
        /\ block.cV \in Colour(63, 127, 63)
    BY WrittenByMode, CandidateKinds DEF BlockPlanar
  <2>2. DecodedO(header) = block.cO /\ DecodedHV(header, bits) = <<block.cH, block.cV>>
    BY DEF FieldsAreKept
  <2>3. /\ O = Repeated(block.cO) /\ H = Repeated(block.cH) /\ V = Repeated(block.cV)
    BY <2>2
  <2>4. rgb676To888(block.cO) = O /\ rgb676To888(block.cH) = H /\ rgb676To888(block.cV) = V
    BY <2>1, <2>3, ExpandedAsRepeated
  <2>5. \A i \in Channel : O[i] \in Int /\ H[i] \in Int /\ V[i] \in Int
    BY <2>1, <2>3, ExpandedAsRepeated
  <2> HIDE DEF O, H, V
  <2>6. \A i \in Channel : \A k \in Pixel : Measured(O, H, V, i, k) = Painted(O, H, V, i, k)
    BY <2>5, MeasuredIsPainted
  <2> QED  BY <2>4, <2>6 DEF PlanarIsSearchedAsDecoded, O, H, V
<1>2. Spec => []FieldsAreKept
  BY FieldsAreDecoded
<1> QED  BY <1>1, <1>2, BlockInvariance, PTL

-----------------------------------------------------------------------------
(* Numbers and the bits they are made of.                                  *)

(* Bit k of a number is set.                                               *)
BitAt(v, k) == (v \div 2 ^ k) % 2 = 1

(* The bits of a number as divisions by numbers.                           *)
LEMMA BitAtIs ==
  ASSUME NEW v \in Nat
  PROVE  /\ BitAt(v, 0) <=> v % 2 = 1
         /\ BitAt(v, 1) <=> (v \div 2) % 2 = 1
         /\ BitAt(v, 2) <=> (v \div 4) % 2 = 1
         /\ BitAt(v, 3) <=> (v \div 8) % 2 = 1
         /\ BitAt(v, 4) <=> (v \div 16) % 2 = 1
         /\ BitAt(v, 5) <=> (v \div 32) % 2 = 1
         /\ BitAt(v, 6) <=> (v \div 64) % 2 = 1
         /\ BitAt(v, 7) <=> (v \div 128) % 2 = 1
         /\ BitAt(v, 8) <=> (v \div 256) % 2 = 1
         /\ BitAt(v, 9) <=> (v \div 512) % 2 = 1
<1>1. /\ 2 ^ 0 = 1 /\ 2 ^ 1 = 2 /\ 2 ^ 2 = 4 /\ 2 ^ 3 = 8 /\ 2 ^ 4 = 16
      /\ 2 ^ 5 = 32 /\ 2 ^ 6 = 64 /\ 2 ^ 7 = 128 /\ 2 ^ 8 = 256 /\ 2 ^ 9 = 512
  OBVIOUS
<1>2. v \div 1 = v
  OBVIOUS
<1> QED
  BY <1>1, <1>2 DEF BitAt

(* The bits of a block with two regions that hold its header, and its      *)
(* partition with its indices.                                             *)
HasHeader(b, ends) == \A n \in 0 .. 76 : n \in b <=> n \in ends
HasIndices(b, indices) == \A n \in 77 .. 127 : n \in b <=> n \in indices

(* The numbers of a width.                                                 *)
Number(width) == 0 .. 2 ^ width - 1

(* The numbers of every width.                                             *)
LEMMA NumbersAre ==
  /\ Number(1) = 0 .. 1 /\ Number(2) = 0 .. 3 /\ Number(3) = 0 .. 7 /\ Number(4) = 0 .. 15
  /\ Number(5) = 0 .. 31 /\ Number(6) = 0 .. 63 /\ Number(7) = 0 .. 127 /\ Number(8) = 0 .. 255
  /\ Number(9) = 0 .. 511 /\ Number(10) = 0 .. 1023
BY DEF Number

(* All of them are integers.                                               *)
LEMMA NumbersAreIntegers ==
  ASSUME NEW width \in Nat, NEW v \in Number(width)
  PROVE  v \in Int
BY DEF Number

(* What the ten lowest bits of a number make.                              *)
SumOfBits(v) ==
  (v % 2) + 2 * ((v \div 2) % 2) + 4 * ((v \div 4) % 2) + 8 * ((v \div 8) % 2)
  + 16 * ((v \div 16) % 2) + 32 * ((v \div 32) % 2) + 64 * ((v \div 64) % 2)
  + 128 * ((v \div 128) % 2) + 256 * ((v \div 256) % 2) + 512 * ((v \div 512) % 2)

(* A number of ten bits is the sum of its bits.                            *)
LEMMA NumberOfBits ==
  ASSUME NEW v \in 0 .. 1023
  PROVE  v = SumOfBits(v)
<1>1. v = 2 * (v \div 2) + (v % 2) /\ v \div 2 = 2 * (v \div 4) + ((v \div 2) % 2)
  OBVIOUS
<1>2. v \div 4 = 2 * (v \div 8) + ((v \div 4) % 2) /\ v \div 8 = 2 * (v \div 16) + ((v \div 8) % 2)
  OBVIOUS
<1>3. v \div 16 = 2 * (v \div 32) + ((v \div 16) % 2) /\ v \div 32 = 2 * (v \div 64) + ((v \div 32) % 2)
  OBVIOUS
<1>4. v \div 64 = 2 * (v \div 128) + ((v \div 64) % 2) /\ v \div 128 = 2 * (v \div 256) + ((v \div 128) % 2)
  OBVIOUS
<1>5. v \div 256 = 2 * (v \div 512) + ((v \div 256) % 2) /\ v \div 512 = (v \div 512) % 2
  OBVIOUS
<1> DEFINE a == v \div 2  b == v \div 4  c == v \div 8  d == v \div 16  e == v \div 32
           f == v \div 64  g == v \div 128  h == v \div 256  i == v \div 512
           r0 == v % 2  r1 == a % 2  r2 == b % 2  r3 == c % 2  r4 == d % 2
           r5 == e % 2  r6 == f % 2  r7 == g % 2  r8 == h % 2  r9 == i % 2
<1>6. /\ a \in Int /\ b \in Int /\ c \in Int /\ d \in Int /\ e \in Int
      /\ f \in Int /\ g \in Int /\ h \in Int /\ i \in Int
      /\ r0 \in Int /\ r1 \in Int /\ r2 \in Int /\ r3 \in Int /\ r4 \in Int
      /\ r5 \in Int /\ r6 \in Int /\ r7 \in Int /\ r8 \in Int /\ r9 \in Int
  OBVIOUS
<1>7. /\ v = 2 * a + r0 /\ a = 2 * b + r1 /\ b = 2 * c + r2 /\ c = 2 * d + r3 /\ d = 2 * e + r4
      /\ e = 2 * f + r5 /\ f = 2 * g + r6 /\ g = 2 * h + r7 /\ h = 2 * i + r8 /\ i = r9
  BY <1>1, <1>2, <1>3, <1>4, <1>5
<1> HIDE DEF a, b, c, d, e, f, g, h, i, r0, r1, r2, r3, r4, r5, r6, r7, r8, r9
<1>8. v = r0 + 2 * r1 + 4 * r2 + 8 * r3 + 16 * r4 + 32 * r5 + 64 * r6 + 128 * r7 + 256 * r8 + 512 * r9
  BY <1>6, <1>7
<1> QED
  BY <1>8 DEF SumOfBits, a, b, c, d, e, f, g, h, i, r0, r1, r2, r3, r4, r5, r6, r7, r8, r9

(* A small number has no high bits.                                        *)
LEMMA NoHighBits ==
  ASSUME NEW v \in 0 .. 1023
  PROVE  /\ v < 4 => ~BitAt(v, 2)
         /\ v < 8 => ~BitAt(v, 3)
         /\ v < 16 => ~BitAt(v, 4)
         /\ v < 32 => ~BitAt(v, 5)
         /\ v < 64 => ~BitAt(v, 6)
         /\ v < 128 => ~BitAt(v, 7)
         /\ v < 256 => ~BitAt(v, 8)
         /\ v < 512 => ~BitAt(v, 9)
<1>1. v < 4 => ~BitAt(v, 2)
  BY BitAtIs
<1>2. v < 8 => ~BitAt(v, 3)
  BY BitAtIs
<1>3. v < 16 => ~BitAt(v, 4)
  BY BitAtIs
<1>4. v < 32 => ~BitAt(v, 5)
  BY BitAtIs
<1>5. v < 64 => ~BitAt(v, 6)
  BY BitAtIs
<1>6. v < 128 => ~BitAt(v, 7)
  BY BitAtIs
<1>7. v < 256 => ~BitAt(v, 8)
  BY BitAtIs
<1>8. v < 512 => ~BitAt(v, 9)
  BY BitAtIs
<1> QED
  BY <1>1, <1>2, <1>3, <1>4, <1>5, <1>6, <1>7, <1>8

-----------------------------------------------------------------------------
(* Fields of a block.                                                      *)

(* A field holds a number: its bits are those of the number.               *)
Holds(b, field, v) ==
  \A i \in 1 .. 10 : BitAt(v, i - 1) <=> i <= Len(field) /\ field[i] \in b

(* A decoder reads the number that a field holds.                          *)
LEMMA HeldIsRead ==
  ASSUME NEW b, NEW field, NEW v \in Number(10), Holds(b, field, v)
  PROVE  DecodedField(b, field) = v
<1>0. v \in 0 .. 1023
  BY NumbersAre
<1> DEFINE digit(i) == IF i <= Len(field) /\ field[i] \in b THEN 2 ^ (i - 1) ELSE 0
           bit(i) == IF BitAt(v, i - 1) THEN 2 ^ (i - 1) ELSE 0
<1>1. \A i \in 1 .. 10 : digit(i) = bit(i)
  BY DEF Holds
<1>2. bit(1) = v % 2 /\ bit(2) = 2 * ((v \div 2) % 2) /\ bit(3) = 4 * ((v \div 4) % 2)
  <2>1. 2 ^ 0 = 1 /\ 2 ^ 1 = 2 /\ 2 ^ 2 = 4
    OBVIOUS
  <2> QED  BY <1>0, <2>1, BitAtIs
<1>3. bit(4) = 8 * ((v \div 8) % 2) /\ bit(5) = 16 * ((v \div 16) % 2) /\ bit(6) = 32 * ((v \div 32) % 2)
  <2>1. 2 ^ 3 = 8 /\ 2 ^ 4 = 16 /\ 2 ^ 5 = 32
    OBVIOUS
  <2> QED  BY <1>0, <2>1, BitAtIs
<1>4. bit(7) = 64 * ((v \div 64) % 2) /\ bit(8) = 128 * ((v \div 128) % 2)
  <2>1. 2 ^ 6 = 64 /\ 2 ^ 7 = 128
    OBVIOUS
  <2> QED  BY <1>0, <2>1, BitAtIs
<1>5. bit(9) = 256 * ((v \div 256) % 2) /\ bit(10) = 512 * ((v \div 512) % 2)
  <2>1. 2 ^ 8 = 256 /\ 2 ^ 9 = 512
    OBVIOUS
  <2> QED  BY <1>0, <2>1, BitAtIs
<1>6. DecodedField(b, field)
        = digit(1) + digit(2) + digit(3) + digit(4) + digit(5) + digit(6) + digit(7) + digit(8)
          + digit(9) + digit(10)
  BY DEF DecodedField
<1> HIDE DEF digit, bit
<1>7. /\ digit(1) = bit(1) /\ digit(2) = bit(2) /\ digit(3) = bit(3) /\ digit(4) = bit(4)
      /\ digit(5) = bit(5) /\ digit(6) = bit(6) /\ digit(7) = bit(7) /\ digit(8) = bit(8)
      /\ digit(9) = bit(9) /\ digit(10) = bit(10)
  BY <1>1
<1>8. v = bit(1) + bit(2) + bit(3) + bit(4) + bit(5) + bit(6) + bit(7) + bit(8) + bit(9) + bit(10)
  <2> DEFINE r0 == v % 2  r1 == (v \div 2) % 2  r2 == (v \div 4) % 2  r3 == (v \div 8) % 2
             r4 == (v \div 16) % 2  r5 == (v \div 32) % 2  r6 == (v \div 64) % 2
             r7 == (v \div 128) % 2  r8 == (v \div 256) % 2  r9 == (v \div 512) % 2
  <2>0. v = SumOfBits(v)
    BY <1>0, NumberOfBits
  <2>1. v = r0 + 2 * r1 + 4 * r2 + 8 * r3 + 16 * r4 + 32 * r5 + 64 * r6 + 128 * r7 + 256 * r8 + 512 * r9
    BY <2>0 DEF SumOfBits
  <2>2. /\ bit(1) = r0 /\ bit(2) = 2 * r1 /\ bit(3) = 4 * r2 /\ bit(4) = 8 * r3 /\ bit(5) = 16 * r4
        /\ bit(6) = 32 * r5 /\ bit(7) = 64 * r6 /\ bit(8) = 128 * r7 /\ bit(9) = 256 * r8
        /\ bit(10) = 512 * r9
    BY <1>2, <1>3, <1>4, <1>5
  <2> HIDE DEF r0, r1, r2, r3, r4, r5, r6, r7, r8, r9
  <2> QED
    BY <2>1, <2>2
<1> QED
  BY <1>6, <1>7, <1>8

(* What an or of shifted bits sets: bit n of the block.                    *)
Sets(v, low, width, at, n) == at <= n /\ n < at + width /\ n < 128 /\ BitAt(v, low + (n - at))

(* Put sets the bits of the value in their places.                         *)
LEMMA PutSets ==
  ASSUME NEW v, NEW low \in Nat, NEW width \in Nat, NEW at \in Nat, NEW n \in Int
  PROVE  n \in Put(v, low, width, at) <=> Sets(v, low, width, at, n)
<1>1. ASSUME n \in Put(v, low, width, at) PROVE Sets(v, low, width, at, n)
  <2>1. PICK i \in 0 .. width - 1 : (v \div 2 ^ (low + i)) % 2 = 1 /\ at + i < 128 /\ n = at + i
    BY <1>1 DEF Put
  <2>2. low + i = low + (n - at)
    BY <2>1
  <2> QED
    BY <2>1, <2>2 DEF Sets, BitAt
<1>2. ASSUME Sets(v, low, width, at, n) PROVE n \in Put(v, low, width, at)
  <2> DEFINE i == n - at
  <2>1. i \in 0 .. width - 1 /\ at + i < 128 /\ n = at + i
    BY <1>2 DEF Sets
  <2>2. (v \div 2 ^ (low + i)) % 2 = 1
    BY <1>2 DEF Sets, BitAt
  <2> HIDE DEF i
  <2> QED
    BY <2>1, <2>2 DEF Put
<1> QED
  BY <1>1, <1>2

(* The bits that an or of pieces sets.                                     *)
LEMMA PiecesSet ==
  ASSUME NEW pieces, \A p \in pieces : p[2] \in Nat /\ p[3] \in Nat /\ p[4] \in Nat, NEW n \in Int
  PROVE  n \in PutAll(pieces) <=> \E p \in pieces : Sets(p[1], p[2], p[3], p[4], n)
<1>1. n \in PutAll(pieces) <=> \E p \in pieces : n \in Put(p[1], p[2], p[3], p[4])
  BY DEF PutAll
<1> QED
  BY <1>1, PutSets

(* The bits of mode 11.                                                    *)
LEMMA Mode11Sets ==
  ASSUME NEW e, NEW n \in Int
  PROVE  n \in Mode11(e) <=>
           \/ Sets(3, 0, 2, 0, n)
           \/ Sets(e[1][1], 0, 10, 5, n) \/ Sets(e[1][2], 0, 10, 15, n) \/ Sets(e[1][3], 0, 10, 25, n)
           \/ Sets(e[2][1], 0, 10, 35, n) \/ Sets(e[2][2], 0, 10, 45, n) \/ Sets(e[2][3], 0, 10, 55, n)
<1> DEFINE pieces ==
             {<<3, 0, 2, 0>>, <<e[1][1], 0, 10, 5>>, <<e[1][2], 0, 10, 15>>, <<e[1][3], 0, 10, 25>>,
              <<e[2][1], 0, 10, 35>>, <<e[2][2], 0, 10, 45>>, <<e[2][3], 0, 10, 55>>}
<1>1. \A p \in pieces : p[2] \in Nat /\ p[3] \in Nat /\ p[4] \in Nat
  OBVIOUS
<1>2. Mode11(e) = PutAll(pieces)
  BY DEF Mode11
<1>3. (\E p \in pieces : Sets(p[1], p[2], p[3], p[4], n)) <=>
           \/ Sets(3, 0, 2, 0, n)
           \/ Sets(e[1][1], 0, 10, 5, n) \/ Sets(e[1][2], 0, 10, 15, n) \/ Sets(e[1][3], 0, 10, 25, n)
           \/ Sets(e[2][1], 0, 10, 35, n) \/ Sets(e[2][2], 0, 10, 45, n) \/ Sets(e[2][3], 0, 10, 55, n)
  OBVIOUS
<1> HIDE DEF pieces
<1> QED
  BY <1>1, <1>2, <1>3, PiecesSet

(* The bits of mode 7.6.                                                   *)
LEMMA Mode76Sets ==
  ASSUME NEW e, NEW n \in Int
  PROVE  n \in Mode76(e) <=>
           \/ Sets(1, 0, 1, 0, n) \/ Sets(e[3][2], 5, 1, 2, n) \/ Sets(e[4][2], 4, 1, 3, n)
           \/ Sets(e[4][2], 5, 1, 4, n) \/ Sets(e[1][1], 0, 7, 5, n) \/ Sets(e[4][3], 0, 1, 12, n)
           \/ Sets(e[4][3], 1, 1, 13, n) \/ Sets(e[3][3], 4, 1, 14, n) \/ Sets(e[1][2], 0, 7, 15, n)
           \/ Sets(e[3][3], 5, 1, 22, n) \/ Sets(e[4][3], 2, 1, 23, n) \/ Sets(e[3][2], 4, 1, 24, n)
           \/ Sets(e[1][3], 0, 7, 25, n) \/ Sets(e[4][3], 3, 1, 32, n) \/ Sets(e[4][3], 5, 1, 33, n)
           \/ Sets(e[4][3], 4, 1, 34, n) \/ Sets(e[2][1], 0, 6, 35, n) \/ Sets(e[3][2], 0, 4, 41, n)
           \/ Sets(e[2][2], 0, 6, 45, n) \/ Sets(e[4][2], 0, 4, 51, n) \/ Sets(e[2][3], 0, 6, 55, n)
           \/ Sets(e[3][3], 0, 3, 61, n) \/ Sets(e[3][3], 3, 1, 64, n) \/ Sets(e[3][1], 0, 6, 65, n)
           \/ Sets(e[4][1], 0, 6, 71, n)
<1> DEFINE pieces ==
             {<<1, 0, 1, 0>>, <<e[3][2], 5, 1, 2>>, <<e[4][2], 4, 1, 3>>, <<e[4][2], 5, 1, 4>>,
              <<e[1][1], 0, 7, 5>>, <<e[4][3], 0, 1, 12>>, <<e[4][3], 1, 1, 13>>, <<e[3][3], 4, 1, 14>>,
              <<e[1][2], 0, 7, 15>>, <<e[3][3], 5, 1, 22>>, <<e[4][3], 2, 1, 23>>, <<e[3][2], 4, 1, 24>>,
              <<e[1][3], 0, 7, 25>>, <<e[4][3], 3, 1, 32>>, <<e[4][3], 5, 1, 33>>, <<e[4][3], 4, 1, 34>>,
              <<e[2][1], 0, 6, 35>>, <<e[3][2], 0, 4, 41>>, <<e[2][2], 0, 6, 45>>, <<e[4][2], 0, 4, 51>>,
              <<e[2][3], 0, 6, 55>>, <<e[3][3], 0, 3, 61>>, <<e[3][3], 3, 1, 64>>, <<e[3][1], 0, 6, 65>>,
              <<e[4][1], 0, 6, 71>>}
<1>1. \A p \in pieces : p[2] \in Nat /\ p[3] \in Nat /\ p[4] \in Nat
  OBVIOUS
<1>2. Mode76(e) = PutAll(pieces)
  BY DEF Mode76
<1> DEFINE on(p) == Sets(p[1], p[2], p[3], p[4], n)
<1>3. (\E p \in pieces : on(p)) <=>
           \/ on(<<1, 0, 1, 0>>) \/ on(<<e[3][2], 5, 1, 2>>) \/ on(<<e[4][2], 4, 1, 3>>)
           \/ on(<<e[4][2], 5, 1, 4>>) \/ on(<<e[1][1], 0, 7, 5>>) \/ on(<<e[4][3], 0, 1, 12>>)
           \/ on(<<e[4][3], 1, 1, 13>>) \/ on(<<e[3][3], 4, 1, 14>>) \/ on(<<e[1][2], 0, 7, 15>>)
           \/ on(<<e[3][3], 5, 1, 22>>) \/ on(<<e[4][3], 2, 1, 23>>) \/ on(<<e[3][2], 4, 1, 24>>)
           \/ on(<<e[1][3], 0, 7, 25>>) \/ on(<<e[4][3], 3, 1, 32>>) \/ on(<<e[4][3], 5, 1, 33>>)
           \/ on(<<e[4][3], 4, 1, 34>>) \/ on(<<e[2][1], 0, 6, 35>>) \/ on(<<e[3][2], 0, 4, 41>>)
           \/ on(<<e[2][2], 0, 6, 45>>) \/ on(<<e[4][2], 0, 4, 51>>) \/ on(<<e[2][3], 0, 6, 55>>)
           \/ on(<<e[3][3], 0, 3, 61>>) \/ on(<<e[3][3], 3, 1, 64>>) \/ on(<<e[3][1], 0, 6, 65>>)
           \/ on(<<e[4][1], 0, 6, 71>>)
  <2> HIDE DEF on
  <2> QED  OBVIOUS
<1>4. n \in PutAll(pieces) <=> \E p \in pieces : on(p)
  <2> HIDE DEF pieces
  <2> QED  BY <1>1, PiecesSet
<1> HIDE DEF pieces
<1> QED
  BY <1>2, <1>3, <1>4

(* The bits of mode 9.5.                                                   *)
LEMMA Mode95Sets ==
  ASSUME NEW e, NEW n \in Int
  PROVE  n \in Mode95(e) <=>
           \/ Sets(14, 0, 4, 0, n) \/ Sets(e[1][1], 0, 9, 5, n) \/ Sets(e[3][3], 4, 1, 14, n)
           \/ Sets(e[1][2], 0, 9, 15, n) \/ Sets(e[3][2], 4, 1, 24, n) \/ Sets(e[1][3], 0, 9, 25, n)
           \/ Sets(e[4][3], 4, 1, 34, n) \/ Sets(e[2][1], 0, 5, 35, n) \/ Sets(e[4][2], 4, 1, 40, n)
           \/ Sets(e[3][2], 0, 4, 41, n) \/ Sets(e[2][2], 0, 5, 45, n) \/ Sets(e[4][3], 0, 1, 50, n)
           \/ Sets(e[4][2], 0, 4, 51, n) \/ Sets(e[2][3], 0, 5, 55, n) \/ Sets(e[4][3], 1, 1, 60, n)
           \/ Sets(e[3][3], 0, 3, 61, n) \/ Sets(e[3][3], 3, 1, 64, n) \/ Sets(e[3][1], 0, 5, 65, n)
           \/ Sets(e[4][3], 2, 1, 70, n) \/ Sets(e[4][1], 0, 5, 71, n) \/ Sets(e[4][3], 3, 1, 76, n)
<1> DEFINE pieces ==
             {<<14, 0, 4, 0>>, <<e[1][1], 0, 9, 5>>, <<e[3][3], 4, 1, 14>>, <<e[1][2], 0, 9, 15>>,
              <<e[3][2], 4, 1, 24>>, <<e[1][3], 0, 9, 25>>, <<e[4][3], 4, 1, 34>>, <<e[2][1], 0, 5, 35>>,
              <<e[4][2], 4, 1, 40>>, <<e[3][2], 0, 4, 41>>, <<e[2][2], 0, 5, 45>>, <<e[4][3], 0, 1, 50>>,
              <<e[4][2], 0, 4, 51>>, <<e[2][3], 0, 5, 55>>, <<e[4][3], 1, 1, 60>>, <<e[3][3], 0, 3, 61>>,
              <<e[3][3], 3, 1, 64>>, <<e[3][1], 0, 5, 65>>, <<e[4][3], 2, 1, 70>>, <<e[4][1], 0, 5, 71>>,
              <<e[4][3], 3, 1, 76>>}
<1>1. \A p \in pieces : p[2] \in Nat /\ p[3] \in Nat /\ p[4] \in Nat
  OBVIOUS
<1>2. Mode95(e) = PutAll(pieces)
  BY DEF Mode95
<1> DEFINE on(p) == Sets(p[1], p[2], p[3], p[4], n)
<1>3. (\E p \in pieces : on(p)) <=>
           \/ on(<<14, 0, 4, 0>>) \/ on(<<e[1][1], 0, 9, 5>>) \/ on(<<e[3][3], 4, 1, 14>>)
           \/ on(<<e[1][2], 0, 9, 15>>) \/ on(<<e[3][2], 4, 1, 24>>) \/ on(<<e[1][3], 0, 9, 25>>)
           \/ on(<<e[4][3], 4, 1, 34>>) \/ on(<<e[2][1], 0, 5, 35>>) \/ on(<<e[4][2], 4, 1, 40>>)
           \/ on(<<e[3][2], 0, 4, 41>>) \/ on(<<e[2][2], 0, 5, 45>>) \/ on(<<e[4][3], 0, 1, 50>>)
           \/ on(<<e[4][2], 0, 4, 51>>) \/ on(<<e[2][3], 0, 5, 55>>) \/ on(<<e[4][3], 1, 1, 60>>)
           \/ on(<<e[3][3], 0, 3, 61>>) \/ on(<<e[3][3], 3, 1, 64>>) \/ on(<<e[3][1], 0, 5, 65>>)
           \/ on(<<e[4][3], 2, 1, 70>>) \/ on(<<e[4][1], 0, 5, 71>>) \/ on(<<e[4][3], 3, 1, 76>>)
  <2> HIDE DEF on
  <2> QED  OBVIOUS
<1>4. n \in PutAll(pieces) <=> \E p \in pieces : on(p)
  <2> HIDE DEF pieces
  <2> QED  BY <1>1, PiecesSet
<1> HIDE DEF pieces
<1> QED
  BY <1>2, <1>3, <1>4

(* The bits of the indices, of one region and of two.                      *)
LEMMA IndicesP1Set ==
  ASSUME NEW idx, NEW n \in Int
  PROVE  n \in IndicesP1(idx) <=> \E i \in HTexel : Sets(idx[i], 0, 4, IF i = 0 THEN 65 ELSE 64 + 4 * i, n)
<1> DEFINE piece(i) == <<idx[i], 0, 4, IF i = 0 THEN 65 ELSE 64 + 4 * i>>
           pieces == {piece(i) : i \in HTexel}
<1>1. \A p \in pieces : p[2] \in Nat /\ p[3] \in Nat /\ p[4] \in Nat
  BY DEF HTexel
<1>2. IndicesP1(idx) = PutAll(pieces)
  BY DEF IndicesP1
<1> DEFINE on(q) == Sets(q[1], q[2], q[3], q[4], n)
<1>3. \A i \in HTexel : on(piece(i)) <=> Sets(idx[i], 0, 4, IF i = 0 THEN 65 ELSE 64 + 4 * i, n)
  OBVIOUS
<1>4. n \in PutAll(pieces) <=> \E q \in pieces : on(q)
  <2> HIDE DEF pieces
  <2> QED  BY <1>1, PiecesSet
<1> HIDE DEF piece, on
<1>5. (\E q \in pieces : on(q)) <=> \E i \in HTexel : on(piece(i))
  OBVIOUS
<1> HIDE DEF pieces
<1> QED
  BY <1>2, <1>3, <1>4, <1>5

(* Where the index of a texel begins: anchors have one bit less.           *)
Place(anchor, i) == 82 + 3 * i - ((IF 0 < i THEN 1 ELSE 0) + (IF anchor < i THEN 1 ELSE 0))

(* The three layouts of the indices are the decoder's.                     *)
LEMMA IndicesArePlaced ==
  ASSUME NEW anchor \in {2, 8, 15}, NEW i \in HTexel
  PROVE  IndexAt(anchor)[i + 1] = Place(anchor, i)
<1>1. CASE anchor = 15
  BY <1>1 DEF IndexAt, Place, HTexel
<1>2. CASE anchor = 2
  BY <1>2 DEF IndexAt, Place, HTexel
<1>3. CASE anchor = 8
  BY <1>3 DEF IndexAt, Place, HTexel
<1> QED
  BY <1>1, <1>2, <1>3

(* The shader and the decoder agree on the anchors, which are of different *)
(* regions.                                                                *)
LEMMA AnchorsAgree ==
  ASSUME NEW p \in 0 .. 31
  PROVE  /\ PatternFixupID(p) \in {2, 8, 15} /\ PatternFixupID(p) = AnchorOf[p + 1]
         /\ Pattern(p, 0) = 0 /\ Pattern(p, PatternFixupID(p)) = 1
<1>1. PatternFixupID(p) \in {2, 8, 15} /\ PatternFixupID(p) = AnchorOf[p + 1]
  BY DEF PatternFixupID, AnchorOf
<1>2. 2 ^ 0 = 1 /\ 2 ^ 2 = 4 /\ 2 ^ 8 = 256 /\ 2 ^ 15 = 32768
  OBVIOUS
<1>3. Pattern(p, 0) = 0
  BY <1>2 DEF Pattern, PatternHalves
<1>4. Pattern(p, PatternFixupID(p)) = 1
  <2>1. CASE p \in {18, 21, 22, 25, 28, 29}
    BY <1>2, <2>1 DEF Pattern, PatternHalves, PatternFixupID
  <2>2. CASE p \in {17, 19, 20, 24, 26, 27, 30, 31}
    BY <1>2, <2>2 DEF Pattern, PatternHalves, PatternFixupID
  <2>3. CASE p \notin {18, 21, 22, 25, 28, 29} \cup {17, 19, 20, 24, 26, 27, 30, 31}
    BY <1>2, <2>3 DEF Pattern, PatternHalves, PatternFixupID
  <2> QED
    BY <2>1, <2>2, <2>3
<1> QED
  BY <1>1, <1>3, <1>4

(* The bits of the partition and of the indices of two regions.            *)
LEMMA IndicesP2Set ==
  ASSUME NEW p \in 0 .. 31, NEW idx, NEW n \in Int
  PROVE  n \in IndicesP2(p, idx) <=>
           \/ Sets(p, 0, 5, 77, n)
           \/ \E i \in HTexel : Sets(idx[i], 0, 3, Place(AnchorOf[p + 1], i), n)
<1> DEFINE anchor == PatternFixupID(p)
           piece(i) == <<idx[i], 0, 3, IndexAt(anchor)[i + 1]>>
           first == <<p, 0, 5, 77>>
           rest == {piece(i) : i \in HTexel}
           pieces == {first} \cup rest
           on(q) == Sets(q[1], q[2], q[3], q[4], n)
<1>1. anchor \in {2, 8, 15} /\ anchor = AnchorOf[p + 1]
  BY AnchorsAgree
<1>2. IndicesP2(p, idx) = PutAll(pieces)
  BY DEF IndicesP2
<1> HIDE DEF anchor
<1>3. \A i \in HTexel : piece(i) = <<idx[i], 0, 3, Place(anchor, i)>>
  BY <1>1, IndicesArePlaced
<1>4. \A i \in HTexel : Place(anchor, i) \in Nat
  BY <1>1 DEF Place, HTexel
<1>5. \A i \in HTexel : on(piece(i)) <=> Sets(idx[i], 0, 3, Place(anchor, i), n)
  BY <1>3
<1>6. on(first) <=> Sets(p, 0, 5, 77, n)
  OBVIOUS
<1>7. \A q \in pieces : q[2] \in Nat /\ q[3] \in Nat /\ q[4] \in Nat
  BY <1>3, <1>4
<1>8. n \in PutAll(pieces) <=> \E q \in pieces : on(q)
  <2> HIDE DEF pieces
  <2> QED  BY <1>7, PiecesSet
<1> HIDE DEF piece, on, first
<1>9. (\E q \in pieces : on(q)) <=> on(first) \/ \E i \in HTexel : on(piece(i))
  OBVIOUS
<1> HIDE DEF pieces
<1> QED
  BY <1>1, <1>2, <1>5, <1>6, <1>8, <1>9

-----------------------------------------------------------------------------
(* The fields of the layouts.                                              *)

(* Consecutive bits.                                                       *)
LEMMA RunIs ==
  ASSUME NEW at \in Nat, NEW width \in 0 .. 10
  PROVE  Len(Run(at, width)) = width /\ \A i \in 1 .. width : Run(at, width)[i] = at + i - 1
BY DEF Run

(* A number has no bits beyond its width.                                  *)
LEMMA NumberFits ==
  ASSUME NEW width \in 1 .. 10, NEW v \in Number(width)
  PROVE  v \in Number(10) /\ \A i \in width + 1 .. 10 : ~BitAt(v, i - 1)
<1> USE NumbersAre
<1>1. CASE width = 1
  <2>1. v < 2 => ~BitAt(v, 1)
    BY <1>1, BitAtIs
  <2> QED
    BY <1>1, <2>1, NoHighBits
<1>2. CASE width = 2
  BY <1>2, NoHighBits
<1>3. CASE width = 3
  BY <1>3, NoHighBits
<1>4. CASE width = 4
  BY <1>4, NoHighBits
<1>5. CASE width = 5
  BY <1>5, NoHighBits
<1>6. CASE width = 6
  BY <1>6, NoHighBits
<1>7. CASE width = 7
  BY <1>7, NoHighBits
<1>8. CASE width = 8
  BY <1>8, NoHighBits
<1>9. CASE width = 9
  BY <1>9, NoHighBits
<1>10. CASE width = 10
  BY <1>10
<1> QED
  BY <1>1, <1>2, <1>3, <1>4, <1>5, <1>6, <1>7, <1>8, <1>9, <1>10

(* A number is read from the field that its bits were written to.          *)
LEMMA FieldIsRead ==
  ASSUME NEW b, NEW width \in 1 .. 10, NEW v \in Number(width), NEW field, Len(field) = width,
         \A i \in 1 .. width : BitAt(v, i - 1) <=> field[i] \in b
  PROVE  DecodedField(b, field) = v
<1>0. v \in Number(10) /\ \A i \in width + 1 .. 10 : ~BitAt(v, i - 1)
  BY NumberFits
<1>1. ASSUME NEW i \in 1 .. 10 PROVE BitAt(v, i - 1) <=> i <= Len(field) /\ field[i] \in b
  <2>1. CASE i \in 1 .. width
    BY <2>1
  <2>2. CASE i \in width + 1 .. 10
    BY <1>0, <2>2
  <2>3. i \in 1 .. width \/ i \in width + 1 .. 10
    OBVIOUS
  <2> QED
    BY <2>1, <2>2, <2>3
<1>2. Holds(b, field, v)
  BY <1>1 DEF Holds
<1> QED
  BY <1>0, <1>2, HeldIsRead

(* Likewise from consecutive bits.                                         *)
LEMMA RunIsRead ==
  ASSUME NEW b, NEW at \in Nat, NEW width \in 1 .. 10, NEW v \in Number(width),
         \A n \in at .. at + width - 1 : n \in b <=> BitAt(v, n - at)
  PROVE  DecodedField(b, Run(at, width)) = v
<1>1. Len(Run(at, width)) = width /\ \A i \in 1 .. width : Run(at, width)[i] = at + i - 1
  <2>1. width \in 0 .. 10
    OBVIOUS
  <2> QED
    BY <2>1, RunIs
<1>2. ASSUME NEW i \in 1 .. width PROVE BitAt(v, i - 1) <=> Run(at, width)[i] \in b
  <2>1. at + i - 1 \in at .. at + width - 1 /\ (at + i - 1) - at = i - 1
    OBVIOUS
  <2> QED
    BY <1>1, <2>1
<1> QED
  BY <1>1, <1>2, FieldIsRead, Zenon

(* The numbers that a layout has room for, and those that a decoder reads. *)
EndsFit(e, precision, width) ==
  /\ \A i \in Component : e[1][i] \in Number(precision)
  /\ \A k \in 2 .. 4 : \A i \in Component : e[k][i] \in Number(width)

EndsAreRead(b, layout, e) ==
  /\ \A i \in Component : DecodedField(b, layout.w[i]) = e[1][i]
  /\ \A k \in 2 .. 4 : \A i \in Component : DecodedField(b, layout.deltas[k - 1][i]) = e[k][i]

(* The endpoints of mode 7.6, as bits 0 .. 76 of a block hold them.        *)
LEMMA Mode76IsRead ==
  ASSUME NEW e, NEW b, HasHeader(b, Mode76(e)), EndsFit(e, 7, 6)
  PROVE  DecodedLayout(b) = "7.6" /\ EndsAreRead(b, Layout76, e)
<1>1. /\ e[1][1] \in Number(7) /\ e[1][2] \in Number(7) /\ e[1][3] \in Number(7)
      /\ e[2][1] \in Number(6) /\ e[2][2] \in Number(6) /\ e[2][3] \in Number(6)
      /\ e[3][1] \in Number(6) /\ e[3][2] \in Number(6) /\ e[3][3] \in Number(6)
      /\ e[4][1] \in Number(6) /\ e[4][2] \in Number(6) /\ e[4][3] \in Number(6)
  BY DEF Component, EndsFit
<1>2. DecodedField(b, Run(5, 7)) = e[1][1]
  <2>1. ASSUME NEW n \in 5 .. 5 + 7 - 1 PROVE n \in b <=> BitAt(e[1][1], n - 5)
    <3>1. n \in 0 .. 76 /\ n \in Int
      OBVIOUS
    <3>2. n \in Mode76(e) <=> BitAt(e[1][1], n - 5)
      BY Mode76Sets DEF Sets, HasHeader
    <3> QED
      BY <3>1, <3>2 DEF HasHeader
  <2>2. e[1][1] \in Number(7) /\ 5 \in Nat /\ 7 \in 1 .. 10
    BY <1>1
  <2> QED  BY <2>1, <2>2, RunIsRead, Zenon
<1>3. DecodedField(b, Run(15, 7)) = e[1][2]
  <2>1. \A n \in 15 .. 15 + 7 - 1 : n \in b <=> BitAt(e[1][2], n - 15)
    BY Mode76Sets DEF Sets, HasHeader
  <2>2. e[1][2] \in Number(7) /\ 15 \in Nat /\ 7 \in 1 .. 10
    BY <1>1
  <2> QED  BY <2>1, <2>2, RunIsRead, Zenon
<1>4. DecodedField(b, Run(25, 7)) = e[1][3]
  <2>1. \A n \in 25 .. 25 + 7 - 1 : n \in b <=> BitAt(e[1][3], n - 25)
    BY Mode76Sets DEF Sets, HasHeader
  <2>2. e[1][3] \in Number(7) /\ 25 \in Nat /\ 7 \in 1 .. 10
    BY <1>1
  <2> QED  BY <2>1, <2>2, RunIsRead, Zenon
<1>5. DecodedField(b, Run(35, 6)) = e[2][1]
  <2>1. \A n \in 35 .. 35 + 6 - 1 : n \in b <=> BitAt(e[2][1], n - 35)
    BY Mode76Sets DEF Sets, HasHeader
  <2>2. e[2][1] \in Number(6) /\ 35 \in Nat /\ 6 \in 1 .. 10
    BY <1>1
  <2> QED  BY <2>1, <2>2, RunIsRead, Zenon
<1>6. DecodedField(b, Run(45, 6)) = e[2][2]
  <2>1. \A n \in 45 .. 45 + 6 - 1 : n \in b <=> BitAt(e[2][2], n - 45)
    BY Mode76Sets DEF Sets, HasHeader
  <2>2. e[2][2] \in Number(6) /\ 45 \in Nat /\ 6 \in 1 .. 10
    BY <1>1
  <2> QED  BY <2>1, <2>2, RunIsRead, Zenon
<1>7. DecodedField(b, Run(55, 6)) = e[2][3]
  <2>1. \A n \in 55 .. 55 + 6 - 1 : n \in b <=> BitAt(e[2][3], n - 55)
    BY Mode76Sets DEF Sets, HasHeader
  <2>2. e[2][3] \in Number(6) /\ 55 \in Nat /\ 6 \in 1 .. 10
    BY <1>1
  <2> QED  BY <2>1, <2>2, RunIsRead, Zenon
<1>8. DecodedField(b, Run(65, 6)) = e[3][1]
  <2>1. \A n \in 65 .. 65 + 6 - 1 : n \in b <=> BitAt(e[3][1], n - 65)
    BY Mode76Sets DEF Sets, HasHeader
  <2>2. e[3][1] \in Number(6) /\ 65 \in Nat /\ 6 \in 1 .. 10
    BY <1>1
  <2> QED  BY <2>1, <2>2, RunIsRead, Zenon
<1>9. DecodedField(b, Run(71, 6)) = e[4][1]
  <2>1. \A n \in 71 .. 71 + 6 - 1 : n \in b <=> BitAt(e[4][1], n - 71)
    BY Mode76Sets DEF Sets, HasHeader
  <2>2. e[4][1] \in Number(6) /\ 71 \in Nat /\ 6 \in 1 .. 10
    BY <1>1
  <2> QED  BY <2>1, <2>2, RunIsRead, Zenon
<1>10. DecodedField(b, <<41, 42, 43, 44, 24, 2>>) = e[3][2]
  <2> DEFINE field == <<41, 42, 43, 44, 24, 2>>
  <2>1. /\ 41 \in b <=> BitAt(e[3][2], 0)
        /\ 42 \in b <=> BitAt(e[3][2], 1)
        /\ 43 \in b <=> BitAt(e[3][2], 2)
        /\ 44 \in b <=> BitAt(e[3][2], 3)
        /\ 24 \in b <=> BitAt(e[3][2], 4)
        /\ 2 \in b <=> BitAt(e[3][2], 5)
    BY Mode76Sets DEF Sets, HasHeader
  <2>2. e[3][2] \in Number(6) /\ Len(field) = 6 /\ 6 \in 1 .. 10
    BY <1>1
  <2>3. \A i \in 1 .. 6 : i = 1 \/ i = 2 \/ i = 3 \/ i = 4 \/ i = 5 \/ i = 6
    OBVIOUS
  <2>4. \A i \in 1 .. 6 : BitAt(e[3][2], i - 1) <=> field[i] \in b
    BY <2>1, <2>3
  <2> HIDE DEF field
  <2>5. DecodedField(b, field) = e[3][2]
    BY <2>2, <2>4, FieldIsRead, Zenon
  <2> QED  BY <2>5 DEF field
<1>11. DecodedField(b, <<61, 62, 63, 64, 14, 22>>) = e[3][3]
  <2> DEFINE field == <<61, 62, 63, 64, 14, 22>>
  <2>1. /\ 61 \in b <=> BitAt(e[3][3], 0)
        /\ 62 \in b <=> BitAt(e[3][3], 1)
        /\ 63 \in b <=> BitAt(e[3][3], 2)
        /\ 64 \in b <=> BitAt(e[3][3], 3)
        /\ 14 \in b <=> BitAt(e[3][3], 4)
        /\ 22 \in b <=> BitAt(e[3][3], 5)
    BY Mode76Sets DEF Sets, HasHeader
  <2>2. e[3][3] \in Number(6) /\ Len(field) = 6 /\ 6 \in 1 .. 10
    BY <1>1
  <2>3. \A i \in 1 .. 6 : i = 1 \/ i = 2 \/ i = 3 \/ i = 4 \/ i = 5 \/ i = 6
    OBVIOUS
  <2>4. \A i \in 1 .. 6 : BitAt(e[3][3], i - 1) <=> field[i] \in b
    BY <2>1, <2>3
  <2> HIDE DEF field
  <2>5. DecodedField(b, field) = e[3][3]
    BY <2>2, <2>4, FieldIsRead, Zenon
  <2> QED  BY <2>5 DEF field
<1>12. DecodedField(b, <<51, 52, 53, 54, 3, 4>>) = e[4][2]
  <2> DEFINE field == <<51, 52, 53, 54, 3, 4>>
  <2>1. /\ 51 \in b <=> BitAt(e[4][2], 0)
        /\ 52 \in b <=> BitAt(e[4][2], 1)
        /\ 53 \in b <=> BitAt(e[4][2], 2)
        /\ 54 \in b <=> BitAt(e[4][2], 3)
        /\ 3 \in b <=> BitAt(e[4][2], 4)
        /\ 4 \in b <=> BitAt(e[4][2], 5)
    BY Mode76Sets DEF Sets, HasHeader
  <2>2. e[4][2] \in Number(6) /\ Len(field) = 6 /\ 6 \in 1 .. 10
    BY <1>1
  <2>3. \A i \in 1 .. 6 : i = 1 \/ i = 2 \/ i = 3 \/ i = 4 \/ i = 5 \/ i = 6
    OBVIOUS
  <2>4. \A i \in 1 .. 6 : BitAt(e[4][2], i - 1) <=> field[i] \in b
    BY <2>1, <2>3
  <2> HIDE DEF field
  <2>5. DecodedField(b, field) = e[4][2]
    BY <2>2, <2>4, FieldIsRead, Zenon
  <2> QED  BY <2>5 DEF field
<1>13. DecodedField(b, <<12, 13, 23, 32, 34, 33>>) = e[4][3]
  <2> DEFINE field == <<12, 13, 23, 32, 34, 33>>
  <2>1. /\ 12 \in b <=> BitAt(e[4][3], 0)
        /\ 13 \in b <=> BitAt(e[4][3], 1)
        /\ 23 \in b <=> BitAt(e[4][3], 2)
        /\ 32 \in b <=> BitAt(e[4][3], 3)
        /\ 34 \in b <=> BitAt(e[4][3], 4)
        /\ 33 \in b <=> BitAt(e[4][3], 5)
    BY Mode76Sets DEF Sets, HasHeader
  <2>2. e[4][3] \in Number(6) /\ Len(field) = 6 /\ 6 \in 1 .. 10
    BY <1>1
  <2>3. \A i \in 1 .. 6 : i = 1 \/ i = 2 \/ i = 3 \/ i = 4 \/ i = 5 \/ i = 6
    OBVIOUS
  <2>4. \A i \in 1 .. 6 : BitAt(e[4][3], i - 1) <=> field[i] \in b
    BY <2>1, <2>3
  <2> HIDE DEF field
  <2>5. DecodedField(b, field) = e[4][3]
    BY <2>2, <2>4, FieldIsRead, Zenon
  <2> QED  BY <2>5 DEF field
<1>14. DecodedLayout(b) = "7.6"
  <2>1. FieldBits(b, 0, 2) = 1
    <3>1. \A n \in 0 .. 0 + 2 - 1 : n \in b <=> BitAt(1, n - 0)
      BY BitAtIs, Mode76Sets DEF Sets, HasHeader
    <3>2. 1 \in Number(2) /\ 0 \in Nat /\ 2 \in 1 .. 10
      BY NumbersAre
    <3> QED  BY <3>1, <3>2, RunIsRead, Zenon DEF FieldBits
  <2> QED  BY <2>1 DEF DecodedLayout
<1>15. \A i \in Component : DecodedField(b, Layout76.w[i]) = e[1][i]
  BY <1>2, <1>3, <1>4 DEF Layout76, Component
<1>16. \A i \in Component : DecodedField(b, Layout76.deltas[1][i]) = e[2][i]
  BY <1>5, <1>6, <1>7 DEF Layout76, Component
<1>17. \A i \in Component : DecodedField(b, Layout76.deltas[2][i]) = e[3][i]
  BY <1>8, <1>10, <1>11 DEF Layout76, Component
<1>18. \A i \in Component : DecodedField(b, Layout76.deltas[3][i]) = e[4][i]
  BY <1>9, <1>12, <1>13 DEF Layout76, Component
<1>19. \A k \in 2 .. 4 : k - 1 \in 1 .. 3 /\ (k = 2 \/ k = 3 \/ k = 4)
  OBVIOUS
<1>20. \A k \in 2 .. 4 : \A i \in Component : DecodedField(b, Layout76.deltas[k - 1][i]) = e[k][i]
  BY <1>16, <1>17, <1>18, <1>19
<1> QED
  BY <1>14, <1>15, <1>20 DEF EndsAreRead

(* The endpoints of mode 9.5, as bits 0 .. 76 of a block hold them.        *)
LEMMA Mode95IsRead ==
  ASSUME NEW e, NEW b, HasHeader(b, Mode95(e)), EndsFit(e, 9, 5)
  PROVE  DecodedLayout(b) = "9.5" /\ EndsAreRead(b, Layout95, e)
<1>1. /\ e[1][1] \in Number(9) /\ e[1][2] \in Number(9) /\ e[1][3] \in Number(9)
      /\ e[2][1] \in Number(5) /\ e[2][2] \in Number(5) /\ e[2][3] \in Number(5)
      /\ e[3][1] \in Number(5) /\ e[3][2] \in Number(5) /\ e[3][3] \in Number(5)
      /\ e[4][1] \in Number(5) /\ e[4][2] \in Number(5) /\ e[4][3] \in Number(5)
  BY DEF Component, EndsFit
<1>2. DecodedField(b, Run(5, 9)) = e[1][1]
  <2>1. ASSUME NEW n \in 5 .. 5 + 9 - 1 PROVE n \in b <=> BitAt(e[1][1], n - 5)
    <3>1. n \in 0 .. 76 /\ n \in Int
      OBVIOUS
    <3>2. n \in Mode95(e) <=> BitAt(e[1][1], n - 5)
      BY Mode95Sets DEF Sets, HasHeader
    <3> QED
      BY <3>1, <3>2 DEF HasHeader
  <2>2. e[1][1] \in Number(9) /\ 5 \in Nat /\ 9 \in 1 .. 10
    BY <1>1
  <2> QED  BY <2>1, <2>2, RunIsRead, Zenon
<1>3. DecodedField(b, Run(15, 9)) = e[1][2]
  <2>1. \A n \in 15 .. 15 + 9 - 1 : n \in b <=> BitAt(e[1][2], n - 15)
    BY Mode95Sets DEF Sets, HasHeader
  <2>2. e[1][2] \in Number(9) /\ 15 \in Nat /\ 9 \in 1 .. 10
    BY <1>1
  <2> QED  BY <2>1, <2>2, RunIsRead, Zenon
<1>4. DecodedField(b, Run(25, 9)) = e[1][3]
  <2>1. \A n \in 25 .. 25 + 9 - 1 : n \in b <=> BitAt(e[1][3], n - 25)
    BY Mode95Sets DEF Sets, HasHeader
  <2>2. e[1][3] \in Number(9) /\ 25 \in Nat /\ 9 \in 1 .. 10
    BY <1>1
  <2> QED  BY <2>1, <2>2, RunIsRead, Zenon
<1>5. DecodedField(b, Run(35, 5)) = e[2][1]
  <2>1. \A n \in 35 .. 35 + 5 - 1 : n \in b <=> BitAt(e[2][1], n - 35)
    BY Mode95Sets DEF Sets, HasHeader
  <2>2. e[2][1] \in Number(5) /\ 35 \in Nat /\ 5 \in 1 .. 10
    BY <1>1
  <2> QED  BY <2>1, <2>2, RunIsRead, Zenon
<1>6. DecodedField(b, Run(45, 5)) = e[2][2]
  <2>1. \A n \in 45 .. 45 + 5 - 1 : n \in b <=> BitAt(e[2][2], n - 45)
    BY Mode95Sets DEF Sets, HasHeader
  <2>2. e[2][2] \in Number(5) /\ 45 \in Nat /\ 5 \in 1 .. 10
    BY <1>1
  <2> QED  BY <2>1, <2>2, RunIsRead, Zenon
<1>7. DecodedField(b, Run(55, 5)) = e[2][3]
  <2>1. \A n \in 55 .. 55 + 5 - 1 : n \in b <=> BitAt(e[2][3], n - 55)
    BY Mode95Sets DEF Sets, HasHeader
  <2>2. e[2][3] \in Number(5) /\ 55 \in Nat /\ 5 \in 1 .. 10
    BY <1>1
  <2> QED  BY <2>1, <2>2, RunIsRead, Zenon
<1>8. DecodedField(b, Run(65, 5)) = e[3][1]
  <2>1. \A n \in 65 .. 65 + 5 - 1 : n \in b <=> BitAt(e[3][1], n - 65)
    BY Mode95Sets DEF Sets, HasHeader
  <2>2. e[3][1] \in Number(5) /\ 65 \in Nat /\ 5 \in 1 .. 10
    BY <1>1
  <2> QED  BY <2>1, <2>2, RunIsRead, Zenon
<1>9. DecodedField(b, Run(71, 5)) = e[4][1]
  <2>1. \A n \in 71 .. 71 + 5 - 1 : n \in b <=> BitAt(e[4][1], n - 71)
    BY Mode95Sets DEF Sets, HasHeader
  <2>2. e[4][1] \in Number(5) /\ 71 \in Nat /\ 5 \in 1 .. 10
    BY <1>1
  <2> QED  BY <2>1, <2>2, RunIsRead, Zenon
<1>10. DecodedField(b, <<41, 42, 43, 44, 24>>) = e[3][2]
  <2> DEFINE field == <<41, 42, 43, 44, 24>>
  <2>1. /\ 41 \in b <=> BitAt(e[3][2], 0)
        /\ 42 \in b <=> BitAt(e[3][2], 1)
        /\ 43 \in b <=> BitAt(e[3][2], 2)
        /\ 44 \in b <=> BitAt(e[3][2], 3)
        /\ 24 \in b <=> BitAt(e[3][2], 4)
    BY Mode95Sets DEF Sets, HasHeader
  <2>2. e[3][2] \in Number(5) /\ Len(field) = 5 /\ 5 \in 1 .. 10
    BY <1>1
  <2>3. \A i \in 1 .. 5 : i = 1 \/ i = 2 \/ i = 3 \/ i = 4 \/ i = 5
    OBVIOUS
  <2>4. \A i \in 1 .. 5 : BitAt(e[3][2], i - 1) <=> field[i] \in b
    BY <2>1, <2>3
  <2> HIDE DEF field
  <2>5. DecodedField(b, field) = e[3][2]
    BY <2>2, <2>4, FieldIsRead, Zenon
  <2> QED  BY <2>5 DEF field
<1>11. DecodedField(b, <<61, 62, 63, 64, 14>>) = e[3][3]
  <2> DEFINE field == <<61, 62, 63, 64, 14>>
  <2>1. /\ 61 \in b <=> BitAt(e[3][3], 0)
        /\ 62 \in b <=> BitAt(e[3][3], 1)
        /\ 63 \in b <=> BitAt(e[3][3], 2)
        /\ 64 \in b <=> BitAt(e[3][3], 3)
        /\ 14 \in b <=> BitAt(e[3][3], 4)
    BY Mode95Sets DEF Sets, HasHeader
  <2>2. e[3][3] \in Number(5) /\ Len(field) = 5 /\ 5 \in 1 .. 10
    BY <1>1
  <2>3. \A i \in 1 .. 5 : i = 1 \/ i = 2 \/ i = 3 \/ i = 4 \/ i = 5
    OBVIOUS
  <2>4. \A i \in 1 .. 5 : BitAt(e[3][3], i - 1) <=> field[i] \in b
    BY <2>1, <2>3
  <2> HIDE DEF field
  <2>5. DecodedField(b, field) = e[3][3]
    BY <2>2, <2>4, FieldIsRead, Zenon
  <2> QED  BY <2>5 DEF field
<1>12. DecodedField(b, <<51, 52, 53, 54, 40>>) = e[4][2]
  <2> DEFINE field == <<51, 52, 53, 54, 40>>
  <2>1. /\ 51 \in b <=> BitAt(e[4][2], 0)
        /\ 52 \in b <=> BitAt(e[4][2], 1)
        /\ 53 \in b <=> BitAt(e[4][2], 2)
        /\ 54 \in b <=> BitAt(e[4][2], 3)
        /\ 40 \in b <=> BitAt(e[4][2], 4)
    BY Mode95Sets DEF Sets, HasHeader
  <2>2. e[4][2] \in Number(5) /\ Len(field) = 5 /\ 5 \in 1 .. 10
    BY <1>1
  <2>3. \A i \in 1 .. 5 : i = 1 \/ i = 2 \/ i = 3 \/ i = 4 \/ i = 5
    OBVIOUS
  <2>4. \A i \in 1 .. 5 : BitAt(e[4][2], i - 1) <=> field[i] \in b
    BY <2>1, <2>3
  <2> HIDE DEF field
  <2>5. DecodedField(b, field) = e[4][2]
    BY <2>2, <2>4, FieldIsRead, Zenon
  <2> QED  BY <2>5 DEF field
<1>13. DecodedField(b, <<50, 60, 70, 76, 34>>) = e[4][3]
  <2> DEFINE field == <<50, 60, 70, 76, 34>>
  <2>1. /\ 50 \in b <=> BitAt(e[4][3], 0)
        /\ 60 \in b <=> BitAt(e[4][3], 1)
        /\ 70 \in b <=> BitAt(e[4][3], 2)
        /\ 76 \in b <=> BitAt(e[4][3], 3)
        /\ 34 \in b <=> BitAt(e[4][3], 4)
    BY Mode95Sets DEF Sets, HasHeader
  <2>2. e[4][3] \in Number(5) /\ Len(field) = 5 /\ 5 \in 1 .. 10
    BY <1>1
  <2>3. \A i \in 1 .. 5 : i = 1 \/ i = 2 \/ i = 3 \/ i = 4 \/ i = 5
    OBVIOUS
  <2>4. \A i \in 1 .. 5 : BitAt(e[4][3], i - 1) <=> field[i] \in b
    BY <2>1, <2>3
  <2> HIDE DEF field
  <2>5. DecodedField(b, field) = e[4][3]
    BY <2>2, <2>4, FieldIsRead, Zenon
  <2> QED  BY <2>5 DEF field
<1>14. DecodedLayout(b) = "9.5"
  <2>1. FieldBits(b, 0, 2) = 2
    <3>1. \A n \in 0 .. 0 + 2 - 1 : n \in b <=> BitAt(2, n - 0)
      BY BitAtIs, Mode95Sets DEF Sets, HasHeader
    <3>2. 2 \in Number(2) /\ 0 \in Nat /\ 2 \in 1 .. 10
      BY NumbersAre
    <3> QED  BY <3>1, <3>2, RunIsRead, Zenon DEF FieldBits
  <2>2. FieldBits(b, 0, 5) = 14
    <3>1. \A n \in 0 .. 0 + 5 - 1 : n \in b <=> BitAt(14, n - 0)
      BY BitAtIs, Mode95Sets DEF Sets, HasHeader
    <3>2. 14 \in Number(5) /\ 0 \in Nat /\ 5 \in 1 .. 10
      BY NumbersAre
    <3> QED  BY <3>1, <3>2, RunIsRead, Zenon DEF FieldBits
  <2> QED  BY <2>1, <2>2 DEF DecodedLayout
<1>15. \A i \in Component : DecodedField(b, Layout95.w[i]) = e[1][i]
  BY <1>2, <1>3, <1>4 DEF Layout95, Component
<1>16. \A i \in Component : DecodedField(b, Layout95.deltas[1][i]) = e[2][i]
  BY <1>5, <1>6, <1>7 DEF Layout95, Component
<1>17. \A i \in Component : DecodedField(b, Layout95.deltas[2][i]) = e[3][i]
  BY <1>8, <1>10, <1>11 DEF Layout95, Component
<1>18. \A i \in Component : DecodedField(b, Layout95.deltas[3][i]) = e[4][i]
  BY <1>9, <1>12, <1>13 DEF Layout95, Component
<1>19. \A k \in 2 .. 4 : k - 1 \in 1 .. 3 /\ (k = 2 \/ k = 3 \/ k = 4)
  OBVIOUS
<1>20. \A k \in 2 .. 4 : \A i \in Component : DecodedField(b, Layout95.deltas[k - 1][i]) = e[k][i]
  BY <1>16, <1>17, <1>18, <1>19
<1> QED
  BY <1>14, <1>15, <1>20 DEF EndsAreRead

(* The endpoints of mode 11, as bits 0 .. 64 of a block hold them.         *)
LEMMA Mode11IsRead ==
  ASSUME NEW e, NEW b, \A n \in 0 .. 64 : n \in b <=> n \in Mode11(e),
         \A k \in 1 .. 2 : \A i \in Component : e[k][i] \in Number(10)
  PROVE  /\ DecodedLayout(b) = "11"
         /\ \A i \in Component : DecodedField(b, Layout11.w[i]) = e[1][i]
         /\ \A i \in Component : DecodedField(b, Layout11.x[i]) = e[2][i]
<1>1. /\ e[1][1] \in Number(10) /\ e[1][2] \in Number(10) /\ e[1][3] \in Number(10)
      /\ e[2][1] \in Number(10) /\ e[2][2] \in Number(10) /\ e[2][3] \in Number(10)
  BY DEF Component
<1>2. DecodedField(b, Run(5, 10)) = e[1][1]
  <2>1. ASSUME NEW n \in 5 .. 5 + 10 - 1 PROVE n \in b <=> BitAt(e[1][1], n - 5)
    <3>1. n \in 0 .. 64 /\ n \in Int
      OBVIOUS
    <3>2. n \in Mode11(e) <=> BitAt(e[1][1], n - 5)
      BY Mode11Sets DEF Sets
    <3> QED
      BY <3>1, <3>2
  <2>2. e[1][1] \in Number(10) /\ 5 \in Nat /\ 10 \in 1 .. 10
    BY <1>1
  <2> QED  BY <2>1, <2>2, RunIsRead, Zenon
<1>3. DecodedField(b, Run(15, 10)) = e[1][2]
  <2>1. ASSUME NEW n \in 15 .. 15 + 10 - 1 PROVE n \in b <=> BitAt(e[1][2], n - 15)
    <3>1. n \in 0 .. 64 /\ n \in Int
      OBVIOUS
    <3>2. n \in Mode11(e) <=> BitAt(e[1][2], n - 15)
      BY Mode11Sets DEF Sets
    <3> QED
      BY <3>1, <3>2
  <2>2. e[1][2] \in Number(10) /\ 15 \in Nat /\ 10 \in 1 .. 10
    BY <1>1
  <2> QED  BY <2>1, <2>2, RunIsRead, Zenon
<1>4. DecodedField(b, Run(25, 10)) = e[1][3]
  <2>1. ASSUME NEW n \in 25 .. 25 + 10 - 1 PROVE n \in b <=> BitAt(e[1][3], n - 25)
    <3>1. n \in 0 .. 64 /\ n \in Int
      OBVIOUS
    <3>2. n \in Mode11(e) <=> BitAt(e[1][3], n - 25)
      BY Mode11Sets DEF Sets
    <3> QED
      BY <3>1, <3>2
  <2>2. e[1][3] \in Number(10) /\ 25 \in Nat /\ 10 \in 1 .. 10
    BY <1>1
  <2> QED  BY <2>1, <2>2, RunIsRead, Zenon
<1>5. DecodedField(b, Run(35, 10)) = e[2][1]
  <2>1. ASSUME NEW n \in 35 .. 35 + 10 - 1 PROVE n \in b <=> BitAt(e[2][1], n - 35)
    <3>1. n \in 0 .. 64 /\ n \in Int
      OBVIOUS
    <3>2. n \in Mode11(e) <=> BitAt(e[2][1], n - 35)
      BY Mode11Sets DEF Sets
    <3> QED
      BY <3>1, <3>2
  <2>2. e[2][1] \in Number(10) /\ 35 \in Nat /\ 10 \in 1 .. 10
    BY <1>1
  <2> QED  BY <2>1, <2>2, RunIsRead, Zenon
<1>6. DecodedField(b, Run(45, 10)) = e[2][2]
  <2>1. ASSUME NEW n \in 45 .. 45 + 10 - 1 PROVE n \in b <=> BitAt(e[2][2], n - 45)
    <3>1. n \in 0 .. 64 /\ n \in Int
      OBVIOUS
    <3>2. n \in Mode11(e) <=> BitAt(e[2][2], n - 45)
      BY Mode11Sets DEF Sets
    <3> QED
      BY <3>1, <3>2
  <2>2. e[2][2] \in Number(10) /\ 45 \in Nat /\ 10 \in 1 .. 10
    BY <1>1
  <2> QED  BY <2>1, <2>2, RunIsRead, Zenon
<1>7. DecodedField(b, Run(55, 10)) = e[2][3]
  <2>1. ASSUME NEW n \in 55 .. 55 + 10 - 1 PROVE n \in b <=> BitAt(e[2][3], n - 55)
    <3>1. n \in 0 .. 64 /\ n \in Int
      OBVIOUS
    <3>2. n \in Mode11(e) <=> BitAt(e[2][3], n - 55)
      BY Mode11Sets DEF Sets
    <3> QED
      BY <3>1, <3>2
  <2>2. e[2][3] \in Number(10) /\ 55 \in Nat /\ 10 \in 1 .. 10
    BY <1>1
  <2> QED  BY <2>1, <2>2, RunIsRead, Zenon
<1>8. DecodedLayout(b) = "11"
  <2>1. FieldBits(b, 0, 2) = 3
    <3>1. \A n \in 0 .. 0 + 2 - 1 : n \in b <=> BitAt(3, n - 0)
      BY BitAtIs, Mode11Sets DEF Sets
    <3>2. 3 \in Number(2) /\ 0 \in Nat /\ 2 \in 1 .. 10
      BY NumbersAre
    <3> QED  BY <3>1, <3>2, RunIsRead, Zenon DEF FieldBits
  <2>2. FieldBits(b, 0, 5) = 3
    <3>1. \A n \in 0 .. 0 + 5 - 1 : n \in b <=> BitAt(3, n - 0)
      BY BitAtIs, Mode11Sets DEF Sets
    <3>2. 3 \in Number(5) /\ 0 \in Nat /\ 5 \in 1 .. 10
      BY NumbersAre
    <3> QED  BY <3>1, <3>2, RunIsRead, Zenon DEF FieldBits
  <2> QED  BY <2>1, <2>2 DEF DecodedLayout
<1>9. \A i \in Component : DecodedField(b, Layout11.w[i]) = e[1][i]
  BY <1>2, <1>3, <1>4 DEF Layout11, Component
<1>10. \A i \in Component : DecodedField(b, Layout11.x[i]) = e[2][i]
  BY <1>5, <1>6, <1>7 DEF Layout11, Component
<1> QED
  BY <1>8, <1>9, <1>10

-----------------------------------------------------------------------------
(* Indices.                                                                *)

(* Sixteen indices of four bits, if the first has only three.              *)
LEMMA IndicesP1AreRead ==
  ASSUME NEW idx, \A i \in HTexel : idx[i] \in Number(4), idx[0] \in Number(3),
         NEW b, \A n \in 65 .. 127 : n \in b <=> n \in IndicesP1(idx),
         NEW i \in HTexel
  PROVE  DecodedIndexP1(b, i) = idx[i]
<1> DEFINE at(j) == IF j = 0 THEN 65 ELSE 64 + 4 * j
           width == IF i = 0 THEN 3 ELSE 4
<1>1. ASSUME NEW n \in at(i) .. at(i) + width - 1
      PROVE  n \in b <=> BitAt(idx[i], n - at(i))
  <2>1. n \in 65 .. 127
    BY DEF HTexel
  <2>2. ~BitAt(idx[0], 3)
    BY NumberFits
  <2>3. n \in b <=> \E j \in HTexel : Sets(idx[j], 0, 4, at(j), n)
    BY <2>1, IndicesP1Set
  <2>4. ASSUME NEW j \in HTexel, Sets(idx[j], 0, 4, at(j), n) PROVE j = i
    <3>1. CASE j = 0 /\ n = 68
      BY <2>2, <2>4, <3>1 DEF Sets
    <3>2. CASE ~(j = 0 /\ n = 68)
      BY <2>4, <3>2 DEF Sets, HTexel
    <3> QED
      BY <3>1, <3>2
  <2>5. Sets(idx[i], 0, 4, at(i), n) <=> BitAt(idx[i], n - at(i))
    BY <2>1 DEF Sets, HTexel
  <2> HIDE DEF at
  <2> QED
    BY <2>3, <2>4, <2>5
<1>2. idx[i] \in Number(width) /\ at(i) \in Nat /\ width \in 1 .. 10
  BY DEF HTexel
<1>3. DecodedIndexP1(b, i) = DecodedField(b, Run(at(i), width))
  BY DEF DecodedIndexP1, FieldBits
<1> HIDE DEF at, width
<1> QED
  BY <1>1, <1>2, <1>3, RunIsRead, Zenon

(* The partition is read back.                                             *)
LEMMA PatternIsRead ==
  ASSUME NEW p \in 0 .. 31, NEW idx, NEW b, HasIndices(b, IndicesP2(p, idx))
  PROVE  FieldBits(b, 77, 5) = p
<1>1. ASSUME NEW n \in 77 .. 77 + 5 - 1 PROVE n \in b <=> BitAt(p, n - 77)
  <2>1. n \in 77 .. 127
    OBVIOUS
  <2>2. n \in b <=> Sets(p, 0, 5, 77, n) \/ \E i \in HTexel : Sets(idx[i], 0, 3, Place(AnchorOf[p + 1], i), n)
    BY <2>1, IndicesP2Set DEF HasIndices
  <2>3. AnchorOf[p + 1] \in {2, 8, 15}
    BY AnchorsAgree
  <2>4. ~\E i \in HTexel : Sets(idx[i], 0, 3, Place(AnchorOf[p + 1], i), n)
    BY <2>3 DEF Place, Sets, HTexel
  <2>5. Sets(p, 0, 5, 77, n) <=> BitAt(p, n - 77)
    BY DEF Sets
  <2> QED
    BY <2>2, <2>4, <2>5
<1>2. p \in Number(5) /\ 77 \in Nat /\ 5 \in 1 .. 10
  BY NumbersAre
<1> QED
  BY <1>1, <1>2, RunIsRead, Zenon DEF FieldBits

(* The bits of two indices meet only where an anchor's third bit would be. *)
LEMMA PlacesMeet ==
  ASSUME NEW anchor \in {2, 8, 15}, NEW i \in HTexel, NEW j \in HTexel, NEW n \in Int,
         Place(anchor, i) <= n, n < Place(anchor, i) + (IF i \in {0, anchor} THEN 2 ELSE 3),
         Place(anchor, j) <= n, n < Place(anchor, j) + 3
  PROVE  i = j \/ (j \in {0, anchor} /\ n - Place(anchor, j) = 2)
BY DEF Place, HTexel

(* Sixteen indices of three bits, if those of the anchors have only two.   *)
LEMMA IndicesP2AreRead ==
  ASSUME NEW p \in 0 .. 31, NEW idx, \A i \in HTexel : idx[i] \in Number(3),
         idx[0] \in Number(2), idx[AnchorOf[p + 1]] \in Number(2),
         NEW b, HasIndices(b, IndicesP2(p, idx)),
         NEW i \in HTexel
  PROVE  DecodedIndexP2(b, i) = idx[i]
<1> DEFINE anchor == AnchorOf[p + 1]
           at(j) == Place(anchor, j)
           width == IF i \in {0, anchor} THEN 2 ELSE 3
<1>1. anchor \in {2, 8, 15}
  BY AnchorsAgree
<1>2. ~BitAt(idx[0], 2) /\ ~BitAt(idx[anchor], 2)
  BY NumberFits
<1>3. DecodedIndexP2(b, i) = DecodedField(b, Run(at(i), width))
  BY PatternIsRead DEF DecodedIndexP2, FieldBits, Place
<1>4. idx[i] \in Number(width) /\ at(i) \in Nat /\ width \in 1 .. 10
  BY <1>1 DEF HTexel, Place
<1>5. ASSUME NEW n \in 77 .. 127
      PROVE  n \in b <=> Sets(p, 0, 5, 77, n) \/ \E j \in HTexel : Sets(idx[j], 0, 3, at(j), n)
  <2>1. n \in Int /\ (n \in b <=> n \in IndicesP2(p, idx))
    BY DEF HasIndices
  <2>2. n \in IndicesP2(p, idx)
          <=> Sets(p, 0, 5, 77, n) \/ \E j \in HTexel : Sets(idx[j], 0, 3, Place(AnchorOf[p + 1], j), n)
    BY <2>1, IndicesP2Set
  <2> QED
    BY <2>1, <2>2
<1> HIDE DEF anchor
<1>6. ASSUME NEW n \in at(i) .. at(i) + width - 1
      PROVE  n \in b <=> BitAt(idx[i], n - at(i))
  <2>1. n \in 82 .. 127
    BY <1>1 DEF HTexel, Place
  <2>2. ~Sets(p, 0, 5, 77, n)
    BY <2>1 DEF Sets
  <2>3. ASSUME NEW j \in HTexel, Sets(idx[j], 0, 3, at(j), n) PROVE j = i
    <3>1. at(j) <= n /\ n < at(j) + 3 /\ BitAt(idx[j], 0 + (n - at(j)))
      BY <2>3 DEF Sets
    <3>2. at(i) <= n /\ n < at(i) + width /\ at(j) \in Int
      BY <1>1, <1>4 DEF Place, HTexel
    <3>3. i = j \/ (j \in {0, anchor} /\ n - at(j) = 2)
      BY <1>1, <2>1, <3>1, <3>2, PlacesMeet
    <3> HIDE DEF at, width
    <3>4. CASE j \in {0, anchor} /\ n - at(j) = 2
      BY <1>2, <3>1, <3>4
    <3> QED
      BY <3>3, <3>4
  <2>4. Sets(idx[i], 0, 3, at(i), n) <=> BitAt(idx[i], n - at(i))
    BY <1>1, <1>4, <2>1 DEF Sets
  <2>5. n \in 77 .. 127
    BY <2>1
  <2> HIDE DEF at
  <2> QED
    BY <1>5, <2>2, <2>3, <2>4, <2>5
<1> HIDE DEF at, width
<1> QED
  BY <1>3, <1>4, <1>6, RunIsRead, Zenon

-----------------------------------------------------------------------------
(* The header and the indices are in bits of their own.                    *)

(* One region.                                                             *)
LEMMA PartsOfP1 ==
  ASSUME NEW e, NEW idx, NEW n \in Int
  PROVE  (n \in Mode11(e) => n <= 64) /\ (n \in IndicesP1(idx) => n >= 65)
<1>1. n \in Mode11(e) => n <= 64
  BY Mode11Sets DEF Sets
<1>2. n \in IndicesP1(idx) => n >= 65
  BY IndicesP1Set DEF Sets, HTexel
<1> QED
  BY <1>1, <1>2

(* Two regions.                                                            *)
LEMMA PartsOfP2 ==
  ASSUME NEW e, NEW p \in 0 .. 31, NEW idx, NEW n \in Int
  PROVE  /\ (n \in Mode76(e) => n <= 76) /\ (n \in Mode95(e) => n <= 76)
         /\ (n \in IndicesP2(p, idx) => n >= 77)
<1>1. n \in Mode76(e) => n <= 76
  BY Mode76Sets DEF Sets
<1>2. n \in Mode95(e) => n <= 76
  BY Mode95Sets DEF Sets
<1>3. n \in IndicesP2(p, idx) => n >= 77
  <2>1. AnchorOf[p + 1] \in {2, 8, 15}
    BY AnchorsAgree
  <2>2. \A i \in HTexel : Place(AnchorOf[p + 1], i) >= 77
    BY <2>1 DEF Place, HTexel
  <2>3. n \in IndicesP2(p, idx) <=>
           \/ Sets(p, 0, 5, 77, n)
           \/ \E i \in HTexel : Sets(idx[i], 0, 3, Place(AnchorOf[p + 1], i), n)
    BY IndicesP2Set
  <2>4. \A i \in HTexel : Place(AnchorOf[p + 1], i) \in Int
    BY <2>1 DEF Place, HTexel
  <2> QED
    BY <2>2, <2>3, <2>4 DEF Sets
<1> QED
  BY <1>1, <1>2, <1>3

-----------------------------------------------------------------------------
(* Endpoints.                                                              *)

(* A quotient is below a number that makes more.                           *)
LEMMA QuotientBelow ==
  ASSUME NEW a \in Nat, NEW m \in Nat, a < m * 31744
  PROVE  a \div 31744 \in 0 .. m - 1
OBVIOUS

(* A half float in so many levels.                                         *)
LEMMA QuantizeIs ==
  ASSUME NEW c \in HalfColour, NEW i \in Component
  PROVE  /\ Quantize(1024, c)[i] \in Number(10)
         /\ Quantize(128, c)[i] \in Number(7)
         /\ Quantize(512, c)[i] \in Number(9)
<1> DEFINE h == c[i]
<1>1. h \in HalfFloat
  BY DEF HalfColour
<1>2. /\ Quantize(1024, c)[i] = (h * 1024) \div 31744
      /\ Quantize(128, c)[i] = (h * 128) \div 31744
      /\ Quantize(512, c)[i] = (h * 512) \div 31744
  BY DEF Quantize
<1> HIDE DEF h
<1>3. (h * 1024) \div 31744 \in Number(10)
  <2>1. h * 1024 \in Nat /\ h * 1024 < 1024 * 31744 /\ 1024 - 1 = 1023
    BY <1>1 DEF HalfFloat
  <2> QED
    BY <2>1, QuotientBelow, NumbersAre
<1>4. (h * 128) \div 31744 \in Number(7)
  <2>1. h * 128 \in Nat /\ h * 128 < 128 * 31744 /\ 128 - 1 = 127
    BY <1>1 DEF HalfFloat
  <2> QED
    BY <2>1, QuotientBelow, NumbersAre
<1>5. (h * 512) \div 31744 \in Number(9)
  <2>1. h * 512 \in Nat /\ h * 512 < 512 * 31744 /\ 512 - 1 = 511
    BY <1>1 DEF HalfFloat
  <2> QED
    BY <2>1, QuotientBelow, NumbersAre
<1> QED
  BY <1>2, <1>3, <1>4, <1>5

(* A clamped delta survives the sign of its field, and the endpoint it     *)
(* leads to is between the two, so that nothing wraps round.               *)
LEMMA DeltaIsRead76 ==
  ASSUME NEW q \in Number(7), NEW r \in Number(7)
  PROVE  LET d == Clamped(r - q, -31, 31)
         IN  /\ SignExtend(d, 31, 32) \in Number(6)
             /\ (q + SignedField(SignExtend(d, 31, 32), 6)) % 2 ^ 7 = q + d
<1> DEFINE d == Clamped(r - q, -31, 31)
<1>0. q \in Nat /\ q <= 127 /\ r \in Nat /\ r <= 127
  BY NumbersAre
<1>1. d \in -31 .. 31 /\ q + d >= 0 /\ q + d <= 127
  BY <1>0 DEF Clamped
<1> HIDE DEF d
<1>2. SignExtend(d, 31, 32) = IF d < 0 THEN d + 64 ELSE d
  BY <1>1 DEF SignExtend
<1>3. 2 ^ (6 - 1) = 32 /\ 2 ^ 6 = 64 /\ 2 ^ 7 = 128
  OBVIOUS
<1>4. SignedField(SignExtend(d, 31, 32), 6) = d
  BY <1>1, <1>2, <1>3 DEF SignedField
<1>5. (q + d) % 2 ^ 7 = q + d
  BY <1>0, <1>1, <1>3
<1>6. SignExtend(d, 31, 32) \in Number(6)
  BY <1>1, <1>2, NumbersAre
<1> QED
  BY <1>4, <1>5, <1>6 DEF d

(* Likewise in mode 9.5.                                                   *)
LEMMA DeltaIsRead95 ==
  ASSUME NEW q \in Number(9), NEW r \in Number(9)
  PROVE  LET d == Clamped(r - q, -15, 15)
         IN  /\ SignExtend(d, 15, 16) \in Number(5)
             /\ (q + SignedField(SignExtend(d, 15, 16), 5)) % 2 ^ 9 = q + d
<1> DEFINE d == Clamped(r - q, -15, 15)
<1>0. q \in Nat /\ q <= 511 /\ r \in Nat /\ r <= 511
  BY NumbersAre
<1>1. d \in -15 .. 15 /\ q + d >= 0 /\ q + d <= 511
  BY <1>0 DEF Clamped
<1> HIDE DEF d
<1>2. SignExtend(d, 15, 16) = IF d < 0 THEN d + 32 ELSE d
  BY <1>1 DEF SignExtend
<1>3. 2 ^ (5 - 1) = 16 /\ 2 ^ 5 = 32 /\ 2 ^ 9 = 512
  OBVIOUS
<1>4. SignedField(SignExtend(d, 15, 16), 5) = d
  BY <1>1, <1>2, <1>3 DEF SignedField
<1>5. (q + d) % 2 ^ 9 = q + d
  BY <1>0, <1>1, <1>3
<1>6. SignExtend(d, 15, 16) \in Number(5)
  BY <1>1, <1>2, NumbersAre
<1> QED
  BY <1>4, <1>5, <1>6 DEF d

-----------------------------------------------------------------------------
(* Positions and the swap.                                                 *)

(* A quotient compared with a number.                                      *)
LEMMA QuotientAtLeast ==
  ASSUME NEW a \in Int, NEW d \in Int, d > 0, NEW m \in Int
  PROVE  a \div d \in Int /\ (a \div d >= m <=> a >= m * d)
<1> DEFINE k == a \div d
           r == a % d
<1>1. a = k * d + r /\ k \in Int /\ r \in 0 .. d - 1
  OBVIOUS
<1> HIDE DEF k, r
<1>2. ASSUME k >= m PROVE a >= m * d
  <2>1. (k - m) * d >= 0 /\ (k - m) * d = k * d - m * d
    BY <1>1, <1>2
  <2> QED
    BY <1>1, <2>1
<1>3. ASSUME k < m PROVE a < m * d
  <2>1. (m - k - 1) * d >= 0 /\ (m - k - 1) * d = m * d - k * d - d
    BY <1>1, <1>3
  <2> QED
    BY <1>1, <2>1
<1>4. m * d \in Int
  OBVIOUS
<1>5. k >= m <=> a >= m * d
  BY <1>1, <1>2, <1>3, <1>4
<1> QED
  BY <1>1, <1>5 DEF k

(* An index that is too large for its anchor is not after the swap.        *)
LEMMA SwappedIndex4 ==
  ASSUME NEW n \in Int
  PROVE  /\ ComputeIndex4(n) \in 0 .. 15
         /\ ComputeIndex4(n) > 7 => ComputeIndex4(Steps - n) \in 0 .. 7
<1> DEFINE d == Steps * 100000
           a == n * 1493333 + Steps * 53333
           b == (Steps - n) * 1493333 + Steps * 53333
<1>1. Steps \in Int /\ Steps > 0
  BY Bc6hBlockAssumption
<1>2. a \in Int /\ b \in Int /\ d \in Int /\ d > 0
  BY <1>1
<1>3. a >= 8 * d => b < 8 * d
  BY <1>1
<1>4. ComputeIndex4(n) = Clamped(a \div d, 0, 15) /\ ComputeIndex4(Steps - n) = Clamped(b \div d, 0, 15)
  BY DEF ComputeIndex4
<1> HIDE DEF a, b, d
<1>5. a \div d \in Int /\ (a \div d >= 8 <=> a >= 8 * d)
  BY <1>2, QuotientAtLeast
<1>6. b \div d \in Int /\ (b \div d >= 8 <=> b >= 8 * d)
  BY <1>2, QuotientAtLeast
<1> QED
  BY <1>2, <1>3, <1>4, <1>5, <1>6 DEF Clamped

(* Unless, with three bits, it is that of the middle.                      *)
LEMMA SwappedIndex3 ==
  ASSUME NEW n \in Int
  PROVE  /\ ComputeIndex3(n) \in 0 .. 7
         /\ ComputeIndex3(n) > 3 /\ 2 * n # Steps => ComputeIndex3(Steps - n) \in 0 .. 3
<1> DEFINE d == Steps * 100000
           a == n * 698182 + Steps * 50909
           b == (Steps - n) * 698182 + Steps * 50909
<1>1. Steps \in Int /\ Steps > 0
  BY Bc6hBlockAssumption
<1>2. a \in Int /\ b \in Int /\ d \in Int /\ d > 0
  BY <1>1
<1>3. a >= 4 * d /\ 2 * n # Steps => b < 4 * d
  BY <1>1
<1>4. ComputeIndex3(n) = Clamped(a \div d, 0, 7) /\ ComputeIndex3(Steps - n) = Clamped(b \div d, 0, 7)
  BY DEF ComputeIndex3
<1> HIDE DEF a, b, d
<1>5. a \div d \in Int /\ (a \div d >= 4 <=> a >= 4 * d)
  BY <1>2, QuotientAtLeast
<1>6. b \div d \in Int /\ (b \div d >= 4 <=> b >= 4 * d)
  BY <1>2, QuotientAtLeast
<1> QED
  BY <1>2, <1>3, <1>4, <1>5, <1>6 DEF Clamped

(* The endpoints that the error of a block was measured with.              *)
EndsMeant(deltas) ==
  [k \in 1 .. 4 |-> [i \in Component |-> deltas[1][i] + (IF k = 1 THEN 0 ELSE deltas[k][i])]]

(* A decoder of mode 7.6 reads the endpoints that clamped deltas lead to.  *)
LEMMA EndsOf76 ==
  ASSUME NEW q, \A k \in 1 .. 4 : \A i \in Component : q[k][i] \in Number(7),
         NEW b, HasHeader(b, Mode76(Extended(Deltas(q, 31), 31)))
  PROVE  /\ DecodedLayout(b) = "7.6"
         /\ DecodedEnds(b, Layout76, 7, 6) = EndsMeant(Deltas(q, 31))
<1>0. ASSUME NEW i \in Component PROVE q[1][i] \in Int
  <2>1. 1 \in 1 .. 4 /\ 7 \in Nat
    OBVIOUS
  <2>2. q[1][i] \in Number(7)
    BY <2>1
  <2> QED
    BY <2>1, <2>2, NumbersAreIntegers
<1> DEFINE D == Deltas(q, 31)
           e == Extended(D, 31)
           field(k, i) == SignExtend(D[k][i], 31, 32)
<1>1. \A i \in Component : D[1][i] = q[1][i] /\ e[1][i] = q[1][i]
  BY DEF Deltas, Extended
<1>2. \A k \in 2 .. 4 : \A i \in Component : D[k][i] = Clamped(q[k][i] - q[1][i], -31, 31)
  BY DEF Deltas
<1>3. \A k \in 2 .. 4 : \A i \in Component : e[k][i] = field(k, i)
  <2> HIDE DEF D
  <2>1. 31 + 1 = 32
    OBVIOUS
  <2> QED
    BY <2>1 DEF Extended
<1>4. ASSUME NEW k \in 2 .. 4, NEW i \in Component
      PROVE  /\ field(k, i) \in Number(6)
             /\ (q[1][i] + SignedField(field(k, i), 6)) % 2 ^ 7 = q[1][i] + D[k][i]
  <2>1. q[1][i] \in Number(7) /\ q[k][i] \in Number(7)
    OBVIOUS
  <2>2. D[k][i] = Clamped(q[k][i] - q[1][i], -31, 31)
    BY <1>2
  <2> HIDE DEF D
  <2> QED
    BY <2>1, <2>2, DeltaIsRead76
<1> HIDE DEF D, e, field
<1>5. HasHeader(b, Mode76(e))
  BY DEF e, D
<1>6. EndsFit(e, 7, 6)
  <2>1. \A i \in Component : e[1][i] \in Number(7)
    BY <1>1
  <2>2. \A k \in 2 .. 4 : \A i \in Component : e[k][i] \in Number(6)
    BY <1>3, <1>4
  <2> QED
    BY <2>1, <2>2 DEF EndsFit
<1>7. /\ DecodedLayout(b) = "7.6"
      /\ \A i \in Component : DecodedField(b, Layout76.w[i]) = e[1][i]
      /\ \A k \in 2 .. 4 : \A i \in Component : DecodedField(b, Layout76.deltas[k - 1][i]) = e[k][i]
  <2>1. DecodedLayout(b) = "7.6" /\ EndsAreRead(b, Layout76, e)
    BY <1>5, <1>6, Mode76IsRead, Zenon
  <2> QED
    BY <2>1 DEF EndsAreRead
<1> DEFINE base(i) == DecodedField(b, Layout76.w[i])
           difference(k, i) == SignedField(DecodedField(b, Layout76.deltas[k - 1][i]), 6)
           read(k, i) == IF k = 1 THEN base(i) ELSE (base(i) + difference(k, i)) % 2 ^ 7
           meantAt(k, i) == D[1][i] + (IF k = 1 THEN 0 ELSE D[k][i])
<1>8. \A k \in 1 .. 4 : \A i \in Component : read(k, i) = meantAt(k, i)
  <2>1. SUFFICES ASSUME NEW k \in 1 .. 4, NEW i \in Component PROVE read(k, i) = meantAt(k, i)
    OBVIOUS
  <2>2. CASE k = 1
    <3>1. base(i) = q[1][i] /\ D[1][i] = q[1][i]
      BY <1>1, <1>7
    <3>2. q[1][i] \in Int
      BY <1>0
    <3> HIDE DEF base
    <3> QED
      BY <2>2, <3>1, <3>2
  <2>3. CASE k \in 2 .. 4
    <3>1. base(i) = q[1][i] /\ D[1][i] = q[1][i]
      BY <1>1, <1>7
    <3>2. difference(k, i) = SignedField(field(k, i), 6)
      BY <1>3, <1>7, <2>3
    <3>3. (q[1][i] + SignedField(field(k, i), 6)) % 2 ^ 7 = q[1][i] + D[k][i]
      BY <1>4, <2>3
    <3>4. k # 1
      BY <2>3
    <3> HIDE DEF base, difference
    <3>5. read(k, i) = (base(i) + difference(k, i)) % 2 ^ 7 /\ meantAt(k, i) = D[1][i] + D[k][i]
      BY <3>4
    <3> HIDE DEF read, meantAt
    <3> QED
      BY <3>1, <3>2, <3>3, <3>5
  <2> QED
    BY <2>2, <2>3
<1>9. DecodedEnds(b, Layout76, 7, 6) = [k \in 1 .. 4 |-> [i \in Component |-> read(k, i)]]
  BY DEF DecodedEnds
<1>10. EndsMeant(D) = [k \in 1 .. 4 |-> [i \in Component |-> meantAt(k, i)]]
  BY DEF EndsMeant
<1> HIDE DEF read, meantAt
<1>11. DecodedEnds(b, Layout76, 7, 6) = EndsMeant(D)
  BY <1>8, <1>9, <1>10
<1> QED
  BY <1>7, <1>11 DEF D

(* A decoder of mode 9.5 reads the endpoints that clamped deltas lead to.  *)
LEMMA EndsOf95 ==
  ASSUME NEW q, \A k \in 1 .. 4 : \A i \in Component : q[k][i] \in Number(9),
         NEW b, HasHeader(b, Mode95(Extended(Deltas(q, 15), 15)))
  PROVE  /\ DecodedLayout(b) = "9.5"
         /\ DecodedEnds(b, Layout95, 9, 5) = EndsMeant(Deltas(q, 15))
<1>0. ASSUME NEW i \in Component PROVE q[1][i] \in Int
  <2>1. 1 \in 1 .. 4 /\ 9 \in Nat
    OBVIOUS
  <2>2. q[1][i] \in Number(9)
    BY <2>1
  <2> QED
    BY <2>1, <2>2, NumbersAreIntegers
<1> DEFINE D == Deltas(q, 15)
           e == Extended(D, 15)
           field(k, i) == SignExtend(D[k][i], 15, 16)
<1>1. \A i \in Component : D[1][i] = q[1][i] /\ e[1][i] = q[1][i]
  BY DEF Deltas, Extended
<1>2. \A k \in 2 .. 4 : \A i \in Component : D[k][i] = Clamped(q[k][i] - q[1][i], -15, 15)
  BY DEF Deltas
<1>3. \A k \in 2 .. 4 : \A i \in Component : e[k][i] = field(k, i)
  <2> HIDE DEF D
  <2>1. 15 + 1 = 16
    OBVIOUS
  <2> QED
    BY <2>1 DEF Extended
<1>4. ASSUME NEW k \in 2 .. 4, NEW i \in Component
      PROVE  /\ field(k, i) \in Number(5)
             /\ (q[1][i] + SignedField(field(k, i), 5)) % 2 ^ 9 = q[1][i] + D[k][i]
  <2>1. q[1][i] \in Number(9) /\ q[k][i] \in Number(9)
    OBVIOUS
  <2>2. D[k][i] = Clamped(q[k][i] - q[1][i], -15, 15)
    BY <1>2
  <2> HIDE DEF D
  <2> QED
    BY <2>1, <2>2, DeltaIsRead95
<1> HIDE DEF D, e, field
<1>5. HasHeader(b, Mode95(e))
  BY DEF e, D
<1>6. EndsFit(e, 9, 5)
  <2>1. \A i \in Component : e[1][i] \in Number(9)
    BY <1>1
  <2>2. \A k \in 2 .. 4 : \A i \in Component : e[k][i] \in Number(5)
    BY <1>3, <1>4
  <2> QED
    BY <2>1, <2>2 DEF EndsFit
<1>7. /\ DecodedLayout(b) = "9.5"
      /\ \A i \in Component : DecodedField(b, Layout95.w[i]) = e[1][i]
      /\ \A k \in 2 .. 4 : \A i \in Component : DecodedField(b, Layout95.deltas[k - 1][i]) = e[k][i]
  <2>1. DecodedLayout(b) = "9.5" /\ EndsAreRead(b, Layout95, e)
    BY <1>5, <1>6, Mode95IsRead, Zenon
  <2> QED
    BY <2>1 DEF EndsAreRead
<1> DEFINE base(i) == DecodedField(b, Layout95.w[i])
           difference(k, i) == SignedField(DecodedField(b, Layout95.deltas[k - 1][i]), 5)
           read(k, i) == IF k = 1 THEN base(i) ELSE (base(i) + difference(k, i)) % 2 ^ 9
           meantAt(k, i) == D[1][i] + (IF k = 1 THEN 0 ELSE D[k][i])
<1>8. \A k \in 1 .. 4 : \A i \in Component : read(k, i) = meantAt(k, i)
  <2>1. SUFFICES ASSUME NEW k \in 1 .. 4, NEW i \in Component PROVE read(k, i) = meantAt(k, i)
    OBVIOUS
  <2>2. CASE k = 1
    <3>1. base(i) = q[1][i] /\ D[1][i] = q[1][i]
      BY <1>1, <1>7
    <3>2. q[1][i] \in Int
      BY <1>0
    <3> HIDE DEF base
    <3> QED
      BY <2>2, <3>1, <3>2
  <2>3. CASE k \in 2 .. 4
    <3>1. base(i) = q[1][i] /\ D[1][i] = q[1][i]
      BY <1>1, <1>7
    <3>2. difference(k, i) = SignedField(field(k, i), 5)
      BY <1>3, <1>7, <2>3
    <3>3. (q[1][i] + SignedField(field(k, i), 5)) % 2 ^ 9 = q[1][i] + D[k][i]
      BY <1>4, <2>3
    <3>4. k # 1
      BY <2>3
    <3> HIDE DEF base, difference
    <3>5. read(k, i) = (base(i) + difference(k, i)) % 2 ^ 9 /\ meantAt(k, i) = D[1][i] + D[k][i]
      BY <3>4
    <3> HIDE DEF read, meantAt
    <3> QED
      BY <3>1, <3>2, <3>3, <3>5
  <2> QED
    BY <2>2, <2>3
<1>9. DecodedEnds(b, Layout95, 9, 5) = [k \in 1 .. 4 |-> [i \in Component |-> read(k, i)]]
  BY DEF DecodedEnds
<1>10. EndsMeant(D) = [k \in 1 .. 4 |-> [i \in Component |-> meantAt(k, i)]]
  BY DEF EndsMeant
<1> HIDE DEF read, meantAt
<1>11. DecodedEnds(b, Layout95, 9, 5) = EndsMeant(D)
  BY <1>8, <1>9, <1>10
<1> QED
  BY <1>7, <1>11 DEF D

-----------------------------------------------------------------------------
(* What the two functions write.                                           *)

(* A decoder reads from b what it means.                                   *)
FieldsKept(b, m) ==
  /\ m.layout \in {"11", "7.6", "9.5"} /\ DecodedLayout(b) = m.layout
  /\ m.layout = "11" =>
       m.ends = <<[i \in Component |-> DecodedField(b, Layout11.w[i])],
                  [i \in Component |-> DecodedField(b, Layout11.x[i])]>>
  /\ m.layout = "7.6" => m.ends = DecodedEnds(b, Layout76, 7, 6)
  /\ m.layout = "9.5" => m.ends = DecodedEnds(b, Layout95, 9, 5)
  /\ m.layout # "11" => FieldBits(b, 77, 5) = m.pattern

IndicesKept(b, m) ==
  m.exact => \A i \in HTexel :
    m.indices[i] = IF m.layout = "11" THEN DecodedIndexP1(b, i) ELSE DecodedIndexP2(b, i)

(* A block of one region.                                                  *)
WrittenP1(ends, idx, b, m) ==
  /\ \A k \in 1 .. 2 : ends[k] \in [Component -> Number(10)]
  /\ ends = <<ends[1], ends[2]>>
  /\ \A i \in HTexel : idx[i] \in Number(4)
  /\ idx[0] \in Number(3)
  /\ b = Mode11(ends) \cup IndicesP1(idx)
  /\ m.layout = "11" /\ m.ends = ends /\ m.indices = idx

(* It is read as it is meant.                                              *)
LEMMA EncodedP1 ==
  ASSUME NEW ends, NEW idx, NEW b, NEW m, WrittenP1(ends, idx, b, m)
  PROVE  FieldsKept(b, m) /\ IndicesKept(b, m)
<1>0. b = Mode11(ends) \cup IndicesP1(idx)
  BY DEF WrittenP1
<1>1. ASSUME NEW n \in 0 .. 64 PROVE n \in b <=> n \in Mode11(ends)
  <2>1. n \notin IndicesP1(idx)
    <3>1. n \in Int /\ ~(n >= 65)
      OBVIOUS
    <3> QED
      BY <3>1, PartsOfP1
  <2> QED
    BY <1>0, <2>1
<1>2. ASSUME NEW n \in 65 .. 127 PROVE n \in b <=> n \in IndicesP1(idx)
  <2>1. n \notin Mode11(ends)
    <3>1. n \in Int /\ ~(n <= 64)
      OBVIOUS
    <3> QED
      BY <3>1, PartsOfP1
  <2> QED
    BY <1>0, <2>1
<1>3. \A k \in 1 .. 2 : \A i \in Component : ends[k][i] \in Number(10)
  BY DEF WrittenP1
<1>4. /\ DecodedLayout(b) = "11"
      /\ \A i \in Component : DecodedField(b, Layout11.w[i]) = ends[1][i]
      /\ \A i \in Component : DecodedField(b, Layout11.x[i]) = ends[2][i]
  BY <1>1, <1>3, Mode11IsRead, Zenon
<1>5. \A i \in HTexel : DecodedIndexP1(b, i) = idx[i]
  <2>1. (\A i \in HTexel : idx[i] \in Number(4)) /\ idx[0] \in Number(3)
    BY DEF WrittenP1
  <2> QED
    BY <1>2, <2>1, IndicesP1AreRead, Zenon
<1>6. /\ [i \in Component |-> DecodedField(b, Layout11.w[i])] = ends[1]
      /\ [i \in Component |-> DecodedField(b, Layout11.x[i])] = ends[2]
  <2>1. ends[1] \in [Component -> Number(10)] /\ ends[2] \in [Component -> Number(10)]
    BY DEF WrittenP1
  <2> QED
    BY <1>4, <2>1
<1>7. FieldsKept(b, m)
  BY <1>4, <1>6 DEF FieldsKept, WrittenP1
<1>8. IndicesKept(b, m)
  BY <1>5 DEF IndicesKept, WrittenP1
<1> QED
  BY <1>7, <1>8

(* A block of two.                                                         *)
WrittenP2(layout, p, q, deltas, fields, idx, b, m) ==
  /\ \A k \in 1 .. 4 : \A i \in Component : q[k][i] \in Number(IF layout = "7.6" THEN 7 ELSE 9)
  /\ deltas = Deltas(q, IF layout = "7.6" THEN 31 ELSE 15)
  /\ fields = Extended(deltas, IF layout = "7.6" THEN 31 ELSE 15)
  /\ \A i \in HTexel : idx[i] \in Number(3)
  /\ b = {} \cup IndicesP2(p, idx) \cup (IF layout = "7.6" THEN Mode76(fields) ELSE Mode95(fields))
  /\ m.layout = layout /\ m.ends = EndsMeant(deltas) /\ m.indices = idx /\ m.pattern = p
  /\ m.exact => idx[0] \in Number(2) /\ idx[AnchorOf[p + 1]] \in Number(2)

(* It is read as it is meant.                                              *)
LEMMA EncodedP2 ==
  ASSUME NEW layout \in {"7.6", "9.5"}, NEW p \in 0 .. 31, NEW q, NEW deltas, NEW fields, NEW idx,
         NEW b, NEW m, WrittenP2(layout, p, q, deltas, fields, idx, b, m)
  PROVE  FieldsKept(b, m) /\ IndicesKept(b, m)
<1> DEFINE first == IF layout = "7.6" THEN Mode76(fields) ELSE Mode95(fields)
<1>0. b = IndicesP2(p, idx) \cup first
  BY DEF WrittenP2
<1>1. HasHeader(b, first)
  <2>1. ASSUME NEW n \in 0 .. 76 PROVE n \notin IndicesP2(p, idx)
    BY PartsOfP2
  <2> HIDE DEF first
  <2> QED
    BY <1>0, <2>1 DEF HasHeader
<1>2. HasIndices(b, IndicesP2(p, idx))
  <2>1. ASSUME NEW n \in 77 .. 127 PROVE n \notin first
    BY PartsOfP2
  <2> HIDE DEF first
  <2> QED
    BY <1>0, <2>1 DEF HasIndices
<1>3. FieldBits(b, 77, 5) = p
  BY <1>2, PatternIsRead, Zenon
<1>4. ASSUME m.exact, NEW i \in HTexel PROVE DecodedIndexP2(b, i) = idx[i]
  <2>1. idx[0] \in Number(2) /\ idx[AnchorOf[p + 1]] \in Number(2)
    BY <1>4 DEF WrittenP2
  <2>2. \A j \in HTexel : idx[j] \in Number(3)
    BY DEF WrittenP2
  <2> QED
    BY <1>2, <2>1, <2>2, IndicesP2AreRead, Zenon
<1>5. IndicesKept(b, m)
  BY <1>4 DEF IndicesKept, WrittenP2
<1>6. CASE layout = "7.6"
  <2>1. \A k \in 1 .. 4 : \A i \in Component : q[k][i] \in Number(7)
    BY <1>6 DEF WrittenP2
  <2>2. deltas = Deltas(q, 31) /\ fields = Extended(Deltas(q, 31), 31)
    BY <1>6 DEF WrittenP2
  <2>3. HasHeader(b, Mode76(Extended(Deltas(q, 31), 31)))
    BY <1>1, <1>6, <2>2
  <2>4. DecodedLayout(b) = "7.6" /\ DecodedEnds(b, Layout76, 7, 6) = EndsMeant(Deltas(q, 31))
    BY <2>1, <2>3, EndsOf76, Zenon
  <2> QED
    BY <1>3, <1>5, <1>6, <2>2, <2>4 DEF FieldsKept, WrittenP2
<1>7. CASE layout = "9.5"
  <2>1. \A k \in 1 .. 4 : \A i \in Component : q[k][i] \in Number(9)
    BY <1>7 DEF WrittenP2
  <2>2. deltas = Deltas(q, 15) /\ fields = Extended(Deltas(q, 15), 15)
    BY <1>7 DEF WrittenP2
  <2>3. HasHeader(b, Mode95(Extended(Deltas(q, 15), 15)))
    BY <1>1, <1>7, <2>2
  <2>4. DecodedLayout(b) = "9.5" /\ DecodedEnds(b, Layout95, 9, 5) = EndsMeant(Deltas(q, 15))
    BY <2>1, <2>3, EndsOf95, Zenon
  <2> QED
    BY <1>3, <1>5, <1>7, <2>2, <2>4 DEF FieldsKept, WrittenP2
<1> QED
  BY <1>6, <1>7

(* Levels of half floats fit.                                              *)
LEMMA LevelsOfP1 ==
  ASSUME NEW c \in HalfColour
  PROVE  Quantize(1024, c) \in [Component -> Number(10)]
<1>1. ASSUME NEW i \in Component PROVE Quantize(1024, c)[i] \in Number(10)
  BY QuantizeIs
<1>2. Quantize(1024, c) = [i \in Component |-> Quantize(1024, c)[i]]
  BY DEF Quantize
<1> QED
  BY <1>1, <1>2

(* EncodeP1 writes what it means, whichever endpoint comes first.          *)
LEMMA EncodeP1Writes ==
  ASSUME EncodeP1
  PROVE  FieldsKept(hblock', meant') /\ IndicesKept(hblock', meant')
<1>1. PICK s \in P1Input :
       LET swap    == SwapNeeded(ComputeIndex4(s.at[0]), 7)
           ends    == <<Quantize(1024, IF swap THEN s.max ELSE s.min),
                        Quantize(1024, IF swap THEN s.min ELSE s.max)>>
           indices == [i \in HTexel |-> ComputeIndex4(IF swap THEN Steps - s.at[i] ELSE s.at[i])]
       IN  /\ hblock' = Mode11(ends) \cup IndicesP1(indices)
           /\ meant' = [layout |-> "11", ends |-> ends, indices |-> indices, pattern |-> 0,
                        exact |-> TRUE]
           /\ blockMSLE' = s.msle
  BY Zenon DEF EncodeP1
<1> DEFINE swap == SwapNeeded(ComputeIndex4(s.at[0]), 7)
           E == <<Quantize(1024, IF swap THEN s.max ELSE s.min),
                  Quantize(1024, IF swap THEN s.min ELSE s.max)>>
           position(i) == IF swap THEN Steps - s.at[i] ELSE s.at[i]
           I == [i \in HTexel |-> ComputeIndex4(position(i))]
<1>2. s.min \in HalfColour /\ s.max \in HalfColour /\ s.at \in Positions
  BY Bc6hBlockAssumption
<1>3. \A i \in HTexel : s.at[i] \in Int /\ position(i) \in Int
  <2>1. \A i \in HTexel : s.at[i] \in Int
    BY <1>2 DEF Positions
  <2>2. Steps \in Int
    BY Bc6hBlockAssumption
  <2> QED
    BY <2>1, <2>2
<1>4. 0 \in HTexel
  BY DEF HTexel
<1>5. \A i \in HTexel : I[i] \in Number(4)
  <2> HIDE DEF position
  <2>1. \A i \in HTexel : ComputeIndex4(position(i)) \in 0 .. 15
    BY <1>3, SwappedIndex4
  <2> QED
    BY <2>1, NumbersAre
<1>6. I[0] \in Number(3)
  <2>1. I[0] = ComputeIndex4(position(0))
    BY <1>4
  <2>2. s.at[0] \in Int
    BY <1>3, <1>4
  <2>3. ComputeIndex4(s.at[0]) \in 0 .. 15 /\ (ComputeIndex4(s.at[0]) > 7 => ComputeIndex4(Steps - s.at[0]) \in 0 .. 7)
    BY <2>2, SwappedIndex4
  <2>4. CASE ComputeIndex4(s.at[0]) > 7
    <3>1. swap
      BY <2>4 DEF SwapNeeded
    <3> QED
      BY <2>1, <2>3, <2>4, <3>1, NumbersAre
  <2>5. CASE ~(ComputeIndex4(s.at[0]) > 7)
    <3>1. ~swap
      BY <2>5 DEF SwapNeeded
    <3>2. I[0] = ComputeIndex4(s.at[0])
      BY <2>1, <3>1
    <3> QED
      BY <2>3, <2>5, <3>2, NumbersAre
  <2> QED
    BY <2>4, <2>5
<1>7. \A k \in 1 .. 2 : E[k] \in [Component -> Number(10)]
  <2>1. (IF swap THEN s.max ELSE s.min) \in HalfColour /\ (IF swap THEN s.min ELSE s.max) \in HalfColour
    BY <1>2
  <2> HIDE DEF swap
  <2>2. E[1] \in [Component -> Number(10)] /\ E[2] \in [Component -> Number(10)]
    BY <2>1, LevelsOfP1
  <2> HIDE DEF E
  <2> QED
    BY <2>2
<1>8. E = <<E[1], E[2]>>
  OBVIOUS
<1>9. hblock' = Mode11(E) \cup IndicesP1(I) /\ meant'.layout = "11" /\ meant'.ends = E /\ meant'.indices = I
  BY <1>1, Zenon
<1> HIDE DEF E, I
<1>10. WrittenP1(E, I, hblock', meant')
  BY <1>5, <1>6, <1>7, <1>8, <1>9 DEF WrittenP1
<1> QED
  BY <1>10, EncodedP1, Zenon

(* A swap leaves an anchor's index with its highest bit clear, unless the  *)
(* anchor is halfway.                                                      *)
LEMMA AnchorFits ==
  ASSUME NEW n \in Int, 2 * n # Steps, NEW swap \in BOOLEAN,
         swap <=> SwapNeeded(ComputeIndex3(n), 3)
  PROVE  ComputeIndex3(IF swap THEN Steps - n ELSE n) \in Number(2)
<1>1. /\ ComputeIndex3(n) \in 0 .. 7
      /\ ComputeIndex3(n) > 3 => ComputeIndex3(Steps - n) \in 0 .. 3
  BY SwappedIndex3
<1>2. swap <=> ComputeIndex3(n) > 3
  BY DEF SwapNeeded
<1>3. CASE swap
  BY <1>1, <1>2, <1>3, NumbersAre
<1>4. CASE ~swap
  BY <1>1, <1>2, <1>4, NumbersAre
<1> QED
  BY <1>3, <1>4

(* EncodeP2Pattern writes what it means, whichever endpoints come first.   *)
LEMMA EncodeP2Writes ==
  ASSUME EncodeP2Pattern
  PROVE  FieldsKept(hblock', meant') /\ IndicesKept(hblock', meant')
<1>1. PICK s \in {s \in P2Input : s.pattern >= pattern /\ s.msle < blockMSLE} :
       LET p       == s.pattern
           anchor  == <<0, PatternFixupID(p)>>
           swap    == [r \in 1 .. 2 |-> SwapNeeded(ComputeIndex3(s.at[anchor[r]]), 3)]
           order   == <<IF swap[1] THEN 2 ELSE 1, IF swap[1] THEN 1 ELSE 2,
                        IF swap[2] THEN 4 ELSE 3, IF swap[2] THEN 3 ELSE 4>>
           levels  == IF s.layout = "7.6" THEN 128 ELSE 512
           mask    == IF s.layout = "7.6" THEN 31 ELSE 15
           deltas  == Deltas([k \in 1 .. 4 |-> Quantize(levels, s.ends[order[k]])], mask)
           fields  == Extended(deltas, mask)
           indices == [i \in HTexel |->
                         ComputeIndex3(IF swap[Pattern(p, i) + 1] THEN Steps - s.at[i] ELSE s.at[i])]
       IN  /\ hblock' = Cleared \cup IndicesP2(p, indices)
                        \cup (IF s.layout = "7.6" THEN Mode76(fields) ELSE Mode95(fields))
           /\ meant' =
                [layout |-> s.layout, indices |-> indices, pattern |-> p,
                 ends |-> [k \in 1 .. 4 |->
                             [i \in Component |-> deltas[1][i] + (IF k = 1 THEN 0 ELSE deltas[k][i])]],
                 exact |-> \A r \in 1 .. 2 : 2 * s.at[anchor[r]] # Steps]
           /\ blockMSLE' = s.msle
           /\ pattern' = p + 1
  BY Zenon DEF EncodeP2Pattern
<1> DEFINE p == s.pattern
           anchor == <<0, PatternFixupID(p)>>
           swap == [r \in 1 .. 2 |-> SwapNeeded(ComputeIndex3(s.at[anchor[r]]), 3)]
           order == <<IF swap[1] THEN 2 ELSE 1, IF swap[1] THEN 1 ELSE 2,
                      IF swap[2] THEN 4 ELSE 3, IF swap[2] THEN 3 ELSE 4>>
           levels == IF s.layout = "7.6" THEN 128 ELSE 512
           mask == IF s.layout = "7.6" THEN 31 ELSE 15
           Q == [k \in 1 .. 4 |-> Quantize(levels, s.ends[order[k]])]
           D == Deltas(Q, mask)
           F == Extended(D, mask)
           position(i) == IF swap[Pattern(p, i) + 1] THEN Steps - s.at[i] ELSE s.at[i]
           I == [i \in HTexel |-> ComputeIndex3(position(i))]
           exact == \A r \in 1 .. 2 : 2 * s.at[anchor[r]] # Steps
<1>2. /\ hblock' = Cleared \cup IndicesP2(p, I)
                    \cup (IF s.layout = "7.6" THEN Mode76(F) ELSE Mode95(F))
      /\ meant' = [layout |-> s.layout, indices |-> I, pattern |-> p,
                   ends |-> [k \in 1 .. 4 |->
                               [i \in Component |-> D[1][i] + (IF k = 1 THEN 0 ELSE D[k][i])]],
                   exact |-> exact]
  BY <1>1, Zenon
<1>3. /\ s.layout \in {"7.6", "9.5"} /\ p \in 0 .. 31
      /\ s.ends \in [1 .. 4 -> HalfColour] /\ s.at \in Positions
  BY Bc6hBlockAssumption
<1>4. /\ anchor[1] = 0 /\ anchor[2] = PatternFixupID(p) /\ anchor[2] = AnchorOf[p + 1]
      /\ anchor[2] \in HTexel /\ 0 \in HTexel
      /\ Pattern(p, 0) + 1 = 1 /\ Pattern(p, anchor[2]) + 1 = 2
  BY <1>3, AnchorsAgree DEF HTexel
<1>5. \A i \in HTexel : s.at[i] \in Int /\ position(i) \in Int
  <2>1. \A i \in HTexel : s.at[i] \in Int
    BY <1>3 DEF Positions
  <2>2. Steps \in Int
    BY Bc6hBlockAssumption
  <2> HIDE DEF swap
  <2> QED
    BY <2>1, <2>2
<1>6. \A i \in HTexel : I[i] \in Number(3)
  <2> HIDE DEF position
  <2>1. \A i \in HTexel : ComputeIndex3(position(i)) \in 0 .. 7
    BY <1>5, SwappedIndex3
  <2> QED
    BY <2>1, NumbersAre
<1>7. /\ swap[1] = SwapNeeded(ComputeIndex3(s.at[anchor[1]]), 3) /\ swap[1] \in BOOLEAN
      /\ swap[2] = SwapNeeded(ComputeIndex3(s.at[anchor[2]]), 3) /\ swap[2] \in BOOLEAN
  BY DEF SwapNeeded
<1>8. exact => I[0] \in Number(2) /\ I[AnchorOf[p + 1]] \in Number(2)
  <2>1. /\ I[0] = ComputeIndex3(IF swap[1] THEN Steps - s.at[0] ELSE s.at[0])
        /\ I[anchor[2]] = ComputeIndex3(IF swap[2] THEN Steps - s.at[anchor[2]] ELSE s.at[anchor[2]])
    <3> HIDE DEF anchor, swap
    <3> QED
      BY <1>4
  <2>2. exact => 2 * s.at[0] # Steps /\ 2 * s.at[anchor[2]] # Steps
    <3>1. 1 \in 1 .. 2 /\ 2 \in 1 .. 2
      OBVIOUS
    <3> HIDE DEF anchor
    <3> QED
      BY <1>4, <3>1
  <2>3. s.at[0] \in Int /\ s.at[anchor[2]] \in Int
    BY <1>4, <1>5
  <2> HIDE DEF anchor, swap, I, exact
  <2>4. exact => ComputeIndex3(IF swap[1] THEN Steps - s.at[0] ELSE s.at[0]) \in Number(2)
    BY <1>4, <1>7, <2>2, <2>3, AnchorFits
  <2>5. exact => ComputeIndex3(IF swap[2] THEN Steps - s.at[anchor[2]] ELSE s.at[anchor[2]]) \in Number(2)
    BY <1>7, <2>2, <2>3, AnchorFits
  <2> QED
    BY <1>4, <2>1, <2>4, <2>5
<1>9. \A k \in 1 .. 4 : \A i \in Component : Q[k][i] \in Number(IF s.layout = "7.6" THEN 7 ELSE 9)
  <2>1. SUFFICES ASSUME NEW k \in 1 .. 4, NEW i \in Component
                 PROVE  Q[k][i] \in Number(IF s.layout = "7.6" THEN 7 ELSE 9)
    OBVIOUS
  <2>2. order[k] \in 1 .. 4
    <3>1. order[1] \in 1 .. 4 /\ order[2] \in 1 .. 4 /\ order[3] \in 1 .. 4 /\ order[4] \in 1 .. 4
      <4> HIDE DEF swap
      <4> QED  OBVIOUS
    <3> HIDE DEF order
    <3> QED
      BY <3>1
  <2> DEFINE c == s.ends[order[k]]
  <2>3. c \in HalfColour
    <3> HIDE DEF order
    <3> QED  BY <1>3, <2>2
  <2>4. Q[k][i] = Quantize(levels, c)[i]
    OBVIOUS
  <2> HIDE DEF c, Q
  <2>5. /\ Quantize(128, c)[i] \in Number(7)
        /\ Quantize(512, c)[i] \in Number(9)
    BY <2>3, QuantizeIs
  <2> QED
    BY <2>4, <2>5
<1>10. D = Deltas(Q, IF s.layout = "7.6" THEN 31 ELSE 15) /\ F = Extended(D, IF s.layout = "7.6" THEN 31 ELSE 15)
  OBVIOUS
<1> HIDE DEF Q, I, exact
<1>11. hblock' = {} \cup IndicesP2(p, I) \cup (IF s.layout = "7.6" THEN Mode76(F) ELSE Mode95(F))
  BY <1>2 DEF Cleared
<1> HIDE DEF D, F
<1>12. /\ meant'.layout = s.layout /\ meant'.ends = EndsMeant(D) /\ meant'.indices = I
       /\ meant'.pattern = p /\ meant'.exact = exact
  BY <1>2 DEF EndsMeant
<1>13. meant'.exact => I[0] \in Number(2) /\ I[AnchorOf[p + 1]] \in Number(2)
  BY <1>8, <1>12
<1> HIDE DEF p
<1>14. WrittenP2(s.layout, p, Q, D, F, I, hblock', meant')
  BY <1>6, <1>9, <1>10, <1>11, <1>12, <1>13 DEF WrittenP2
<1> QED
  BY <1>3, <1>14, EncodedP2, Zenon

-----------------------------------------------------------------------------
(* What a decoder reads, in every state.                                   *)

(* The part of the two properties that every step keeps.                   *)
BlockIsMeant == meant # <<>> => FieldsKept(hblock, meant) /\ IndicesKept(hblock, meant)

(* The two functions write it, and nothing else touches the block.         *)
LEMMA StepKeepsBlockIsMeant ==
  ASSUME BlockIsMeant, [Bc6hNext]_bc6hVars
  PROVE  BlockIsMeant'
<1>1. CASE EncodeP1
  BY <1>1, EncodeP1Writes DEF BlockIsMeant
<1>2. CASE EncodeP2Pattern
  BY <1>2, EncodeP2Writes DEF BlockIsMeant
<1>3. CASE UNCHANGED <<hblock, meant>>
  BY <1>3 DEF BlockIsMeant
<1>4. EncodeP1 \/ EncodeP2Pattern \/ UNCHANGED <<hblock, meant>>
  BY DEF Bc6hNext, GatherTexels, StoreBlock, bc6hVars
<1> QED
  BY <1>1, <1>2, <1>3, <1>4

(* What the block says is what was meant.                                  *)
LEMMA BlockIsAlwaysMeant == Bc6hSpec => []BlockIsMeant
<1>1. Bc6hInit => BlockIsMeant
  BY DEF Bc6hInit, BlockIsMeant
<1>2. BlockIsMeant /\ [Bc6hNext]_bc6hVars => BlockIsMeant'
  BY StepKeepsBlockIsMeant
<1> QED
  BY <1>1, <1>2, PTL DEF Bc6hSpec

(* bc6h.glsl: whichever layout wins, whatever block it replaces and        *)
(* whatever the picture, a decoder reads the mode, the partition and the   *)
(* endpoints that the error was measured with.                             *)
THEOREM Bc6hFieldsAreDecoded == Bc6hSpec => []BC6HFieldsAreKept
<1>1. BlockIsMeant => BC6HFieldsAreKept
  BY DEF BlockIsMeant, FieldsKept, BC6HFieldsAreKept
<1> QED
  BY <1>1, BlockIsAlwaysMeant, PTL

(* bc6h.glsl: every texel is decoded with the index it was given, anchors  *)
(* included unless one lies exactly halfway between its endpoints.         *)
THEOREM Bc6hIndicesAreDecoded == Bc6hSpec => []BC6HIndicesAreKept
<1>1. BlockIsMeant => BC6HIndicesAreKept
  BY DEF BlockIsMeant, IndicesKept, BC6HIndicesAreKept
<1> QED
  BY <1>1, BlockIsAlwaysMeant, PTL

==============================================================================
