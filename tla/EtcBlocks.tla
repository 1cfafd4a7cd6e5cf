------------------------------ MODULE EtcBlocks ------------------------------
(***************************************************************************)
(* The 64 bits of an ETC1, ETC2 or EAC block: how etc1.glsl, etc2_th.glsl, *)
(* etc2_p.glsl and eac.glsl write them, against how a decoder reads them.  *)
(*                                                                         *)
(* A block has no mode field.  The decoder takes the first of R, G and B   *)
(* whose five bits and signed three-bit delta leave 0 .. 31 for the sign   *)
(* of mode T, H or planar, so each header steers those sums with bits it   *)
(* does not otherwise need, looked up in tables.                           *)
(*                                                                         *)
(* A colour is <<r, g, b>>.  The header is four bytes, the pixel indices   *)
(* the set of the bits set in outputBytes.y.                               *)
(***************************************************************************)
EXTENDS Integers, Sequences, FiniteSetsExt

CONSTANTS Candidate   \* the blocks the shaders are asked to write

VARIABLES block,   \* what the search of a shader found
          header,  \* outputBytes.x, in bytes from the lowest
          bits     \* outputBytes.y

vars == <<block, header, bits>>

Channel == 1 .. 3
Pixel == 0 .. 15   \* 4 * x + y: the blocks are transposed

Colour(r, g, b) == (0 .. r) \X (0 .. g) \X (0 .. b)

(* What the searches hand to the functions that write a block.             *)
BlockTH ==
  [mode : {"T", "H"}, c0 : Colour(255, 255, 255), c1 : Colour(255, 255, 255),
   distIdx : 0 .. 7, idx : [Pixel -> 0 .. 3]]
BlockPlanar ==
  [mode : {"planar"}, cO : Colour(63, 127, 63), cH : Colour(63, 127, 63), cV : Colour(63, 127, 63)]
BlockEtc1 ==
  [mode : {"etc1"}, useColor4 : BOOLEAN, flip : BOOLEAN,
   rgb : Colour(31, 31, 31) \X Colour(31, 31, 31), inten : (0 .. 7) \X (0 .. 7),
   selectors : [Pixel -> 0 .. 3]]
BlockSolid ==
  [mode : {"solid"}, diff : BOOLEAN, i : 0 .. 2, colour : Colour(31, 31, 31), inten : 0 .. 7,
   selector : 0 .. 3]
BlockEac ==
  [mode : {"eac"}, base : 0 .. 255, multiplier : 0 .. 15, table : 0 .. 15, idx : [Pixel -> 0 .. 7]]
BlockEacFlat == [mode : {"eac flat"}, base : 0 .. 255]

(* Colours of 4 bits where no delta is used; and a second colour in reach  *)
(* of the first, to which the searches of etc1.glsl are constrained.       *)
FitsItsLayout(c) ==
  \A i \in Channel :
    /\ c.mode = "etc1" => IF c.useColor4 THEN c.rgb[1][i] < 16 /\ c.rgb[2][i] < 16
                                         ELSE c.rgb[2][i] - c.rgb[1][i] \in -4 .. 3
    /\ c.mode = "solid" /\ ~c.diff => c.colour[i] < 16

ASSUME EtcBlocksAssumption ==
  /\ Candidate \subseteq BlockTH \cup BlockPlanar \cup BlockEtc1 \cup BlockSolid \cup BlockEac \cup BlockEacFlat
  /\ \A c \in Candidate : FitsItsLayout(c)

(* Mutant: the four bits of R where mode T keeps them, and no steering.    *)
kTmodePlain == [i \in 1 .. 16 |-> ((i - 1) \div 4) * 8 + ((i - 1) % 4)]

kTmodeEncoderR ==
  <<4, 5, 6, 7, 12, 13, 14, 235, 20, 21, 242, 243, 28, 249, 250, 251>>

kHmodeEncoderRG ==
  <<0, 1, 2, 3, 132, 133, 134, 135, 8, 9, 10, 11, 140, 141, 142, 15, 16, 17,
    18, 19, 148, 149, 22, 23, 24, 25, 26, 27, 156, 29, 30, 31, 32, 33, 34, 35,
    36, 37, 38, 39, 40, 41, 42, 43, 44, 45, 46, 47, 48, 49, 50, 51, 52, 53, 54,
    55, 56, 57, 58, 59, 60, 61, 62, 63, 64, 65, 66, 67, 68, 69, 70, 71, 72, 73,
    74, 75, 76, 77, 78, 79, 80, 81, 82, 83, 84, 85, 86, 87, 88, 89, 90, 91, 92,
    93, 94, 95, 96, 97, 98, 99, 100, 101, 102, 103, 104, 105, 106, 107, 108,
    109, 110, 111, 112, 113, 114, 115, 116, 117, 118, 119, 120, 121, 122, 123,
    124, 125, 126, 127>>

kHmodeEncoderGB == kTmodeEncoderR  \* the two tables have the same entries

kPmodeEncoderRG ==
  <<0, 2, 132, 134, 8, 10, 140, 142, 16, 18, 148, 22, 24, 26, 156, 30, 32, 34,
    36, 38, 40, 42, 44, 46, 48, 50, 52, 54, 56, 58, 60, 62, 64, 66, 68, 70, 72,
    74, 76, 78, 80, 82, 84, 86, 88, 90, 92, 94, 96, 98, 100, 102, 104, 106,
    108, 110, 112, 114, 116, 118, 120, 122, 124, 126, 1, 3, 133, 135, 9, 11,
    141, 15, 17, 19, 149, 23, 25, 27, 29, 31, 33, 35, 37, 39, 41, 43, 45, 47,
    49, 51, 53, 55, 57, 59, 61, 63, 65, 67, 69, 71, 73, 75, 77, 79, 81, 83, 85,
    87, 89, 91, 93, 95, 97, 99, 101, 103, 105, 107, 109, 111, 113, 115, 117,
    119, 121, 123, 125, 127>>

kPmodeEncoderB == kTmodeEncoderR

Entry(table, i) == table[i + 1]

Bit(n, b) == ((n \div 2 ^ b) % 2)

(* The number of up to eight binary digits, the lowest digit(0).           *)
Binary(digit(_)) ==
  digit(0) + 2 * digit(1) + 4 * digit(2) + 8 * digit(3) + 16 * digit(4) + 32 * digit(5)
  + 64 * digit(6) + 128 * digit(7)

(* packUnorm4x8( bytes / 255 ).                                            *)
Pack(b) == IF b > 255 THEN 255 ELSE b
PackBytes(bytes) == [i \in 1 .. 4 |-> Pack(bytes[i])]

-----------------------------------------------------------------------------
(* Modes T and H: colours of 8 bits a channel, quantized to 4.             *)

(* floor( v * 15 / 255 + 0.5 )                                             *)
To4(v) == (v * 30 + 255) \div 510

(* 19.05 * k, saturated by packUnorm4x8.                                   *)
quant4(v) == Pack((To4(v) * 1905) \div 100)

rgb888to444(c) == [i \in Channel |-> To4(c[i])]

etc2_gen_header_t_mode(c0, c1, distIdx) ==
  LET a == rgb888to444(c0)
      b == rgb888to444(c1)
  IN  PackBytes(<<Entry(kTmodeEncoderR, a[1]), a[2] * 16 + a[3], b[1] * 16 + b[2],
                  b[3] * 16 + (distIdx \div 2) * 4 + 2 + (distIdx % 2)>>)

(* packUnorm4x8 puts r in the lowest byte: the comparison is by b first.   *)
Packed(c) == c[1] + 256 * c[2] + 65536 * c[3]

Larger(a, b) == IF Packed(a) >= Packed(b) THEN a ELSE b
Smaller(a, b) == IF Packed(a) >= Packed(b) THEN b ELSE a

(* The order of the colours carries the low bit of the distance index.     *)
HColours(colour0, colour1, distIdx) ==
  IF (distIdx % 2) = 1 THEN <<Larger(colour0, colour1), Smaller(colour0, colour1)>>
                     ELSE <<Smaller(colour0, colour1), Larger(colour0, colour1)>>

etc2_gen_header_h_mode(colour0, colour1, distIdx) ==
  LET c == HColours(colour0, colour1, distIdx)
      a == rgb888to444(c[1])
      b == rgb888to444(c[2])
  IN  PackBytes(<<Entry(kHmodeEncoderRG, a[1] * 8 + a[2] \div 2),
                  Entry(kHmodeEncoderGB, (a[2] % 2) * 8 + a[3] \div 2),
                  (a[3] % 2) * 128 + b[1] * 8 + b[2] \div 2,
                  (b[2] % 2) * 128 + b[3] * 8 + 2
                    + ((distIdx \div 2) % 2) + (distIdx \div 4) * 4>>)

(* Mutant: the halves of the index bits change places.                     *)
th_indices_Swapped(idx) ==
  {(k % 8) + (IF k < 8 THEN 24 ELSE 16) : k \in {k \in Pixel : idx[k] >= 2}}
  \cup {(k % 8) + (IF k < 8 THEN 8 ELSE 0) : k \in {k \in Pixel : (idx[k] % 2) = 1}}

th_indices(idx) ==
  {(k % 8) + (IF k < 8 THEN 8 ELSE 0) : k \in {k \in Pixel : idx[k] >= 2}}
  \cup {(k % 8) + (IF k < 8 THEN 24 ELSE 16) : k \in {k \in Pixel : (idx[k] % 2) = 1}}

-----------------------------------------------------------------------------
(* Planar mode: colours of 6, 7 and 6 bits.                                *)

planar_header(cO, cH) ==
  PackBytes(<<Entry(kPmodeEncoderRG, cO[1] + (IF cO[2] >= 64 THEN 64 ELSE 0)),
              Entry(kPmodeEncoderRG, (cO[2] % 64) + (IF cO[3] >= 32 THEN 64 ELSE 0)),
              Entry(kPmodeEncoderB, ((cO[3] \div 2) % 16)),
              (cO[3] % 2) * 128 + (cH[1] \div 2) * 4 + 2 + (cH[1] % 2)>>)

planar_low(cH, cV) ==
  PackBytes(<<cH[2] * 2 + cH[3] \div 32, (cH[3] % 32) * 8 + cV[1] \div 8,
              (cV[1] % 8) * 32 + cV[2] \div 4, (cV[2] % 4) * 64 + cV[3]>>)

(* Mutant: green is expanded as red and blue are.                          *)
rgb676To888Green6(c) == <<(c[1] * 65) \div 16, (c[2] * 65) \div 32, (c[3] * 65) \div 16>>

rgb676To888(c) == <<(c[1] * 65) \div 16, (c[2] * 20157) \div 10000, (c[3] * 65) \div 16>>

(* What the search takes for the colour of texel 4 * y + x, given the      *)
(* corners in 8 bits.                                                      *)
Measured(cO, cH, cV, i, k) ==
  LET interpolated == 4 * cO[i] + (k % 4) * (cH[i] - cO[i]) + (k \div 4) * (cV[i] - cO[i])
  IN  Max({0, Min({255, (interpolated + 2) \div 4})})

BitsOf(bytes) ==
  {n \in 0 .. 31 : Bit(bytes[n \div 8 + 1], (n % 8)) = 1}

-----------------------------------------------------------------------------
(* ETC1: two subblocks, individual (4 bits a channel) or differential.     *)

(* Mutant: a negative delta keeps its sign.                                *)
deltaUnwrapped(d) == d

delta(d) == IF d < 0 THEN d + 8 ELSE d

etc1_header(useColor4, flip, rgb, inten) ==
  LET colour(i) == IF useColor4 THEN rgb[2][i] + rgb[1][i] * 16
                                ELSE delta(rgb[2][i] - rgb[1][i]) + rgb[1][i] * 8
  IN  PackBytes(<<colour(1), colour(2), colour(3),
                  inten[2] * 4 + inten[1] * 32 + (IF useColor4 THEN 0 ELSE 2)
                    + (IF flip THEN 1 ELSE 0)>>)

selector_index_to_etc1(s) == IF s < 2 THEN 3 - s ELSE s - 2

(* Where main puts pixel 4 * x + y in g_srcPixelsBlock: 8 per subblock.    *)
LoadedAt(flip, k) == IF flip THEN 4 * (k % 4) + k \div 4 ELSE k

(* The selector that ends up in bit k of selector0 and selector1, by the   *)
(* order in which the two loops push them.                                 *)
PushedFrom(flip, k) == IF flip THEN 4 * (k % 4) + k \div 4 ELSE k

(* Pack of two halves and byte swap of each.                               *)
Swapped(k) == ((k + 8) % 16)

etc1_indices(flip, selectors) ==
  LET at(n) == selectors[CHOOSE k \in Pixel : LoadedAt(flip, k) = n]
      b(k) == selector_index_to_etc1(at(PushedFrom(flip, k)))
  IN  {Swapped(k) : k \in {k \in Pixel : b(k) >= 2}}
      \cup {16 + Swapped(k) : k \in {k \in Pixel : (b(k) % 2) = 1}}

(* A block of one colour: channel i was looked up, the two after it follow.*)
solid_header(diff, i, colour, inten) ==
  LET packed == [n \in Channel |-> colour[((i + n - 1) % 3) + 1]]
      scaled == [n \in Channel |-> IF diff THEN packed[n] * 8 ELSE packed[n] + packed[n] * 16]
      rgb    == CASE i = 0 -> scaled
                  [] i = 1 -> <<scaled[3], scaled[1], scaled[2]>>
                  [] i = 2 -> <<scaled[2], scaled[3], scaled[1]>>
  IN  PackBytes(<<rgb[1], rgb[2], rgb[3], (inten + inten * 8) * 4 + (IF diff THEN 2 ELSE 0)>>)

solid_indices(s) ==
  (IF selector_index_to_etc1(s) >= 2 THEN 0 .. 15 ELSE {})
  \cup (IF selector_index_to_etc1(s) \in {1, 3} THEN 16 .. 31 ELSE {})

-----------------------------------------------------------------------------
(* EAC: an 8-bit codeword, a multiplier, a table of modifiers and 3 bits a *)
(* pixel.  Six of the indices share outputBytes.x with the header.         *)

(* Where the three bits of an index go, lowest first, outputBytes.y being  *)
(* bits 32 .. 63.                                                          *)
EacIndexAt ==
  <<<<21, 22, 23>>, <<18, 19, 20>>, <<31, 16, 17>>, <<28, 29, 30>>,
    <<25, 26, 27>>, <<38, 39, 24>>, <<35, 36, 37>>, <<32, 33, 34>>,
    <<45, 46, 47>>, <<42, 43, 44>>, <<55, 40, 41>>, <<52, 53, 54>>,
    <<49, 50, 51>>, <<62, 63, 48>>, <<59, 60, 61>>, <<56, 57, 58>>>>

eac_indices(idx) ==
  {EacIndexAt[kb[1] + 1][kb[2] + 1] : kb \in {kb \in Pixel \X (0 .. 2) : Bit(idx[kb[1]], kb[2]) = 1}}

ByteOf(set, n) == Binary(LAMBDA i : IF 8 * n + i \in set THEN 1 ELSE 0)

eac_pack(baseCodeword, multiplier, tableIdx, idx) ==
  [x |-> <<baseCodeword, tableIdx + 16 * multiplier, ByteOf(eac_indices(idx), 2),
           ByteOf(eac_indices(idx), 3)>>,
   y |-> {n - 32 : n \in {n \in eac_indices(idx) : n >= 32}}]

-----------------------------------------------------------------------------
(* One dispatch writes one block.                                          *)

Init ==
  /\ block \in Candidate
  /\ header = <<>>
  /\ bits = {}

Write(h, b) ==
  /\ header = <<>>
  /\ header' = h
  /\ bits' = b
  /\ UNCHANGED block

WriteT ==
  /\ block.mode = "T"
  /\ Write(etc2_gen_header_t_mode(block.c0, block.c1, block.distIdx), th_indices(block.idx))

WriteH ==
  /\ block.mode = "H"
  /\ Write(etc2_gen_header_h_mode(block.c0, block.c1, block.distIdx), th_indices(block.idx))

WritePlanar ==
  /\ block.mode = "planar"
  /\ Write(planar_header(block.cO, block.cH), BitsOf(planar_low(block.cH, block.cV)))

WriteEtc1 ==
  /\ block.mode = "etc1"
  /\ Write(etc1_header(block.useColor4, block.flip, block.rgb, block.inten),
           etc1_indices(block.flip, block.selectors))

WriteSolid ==
  /\ block.mode = "solid"
  /\ Write(solid_header(block.diff, block.i, block.colour, block.inten),
           solid_indices(block.selector))

WriteEac ==
  /\ block.mode = "eac"
  /\ LET packed == eac_pack(block.base, block.multiplier, block.table, block.idx)
     IN  Write(packed.x, packed.y)

(* A block of one alpha: the codeword alone.                               *)
WriteEacFlat ==
  /\ block.mode = "eac flat"
  /\ Write(<<block.base, 0, 0, 0>>, {})

Terminating == header # <<>> /\ UNCHANGED vars

Next == WriteT \/ WriteH \/ WritePlanar \/ WriteEtc1 \/ WriteSolid \/ WriteEac \/ WriteEacFlat
        \/ Terminating

Spec == Init /\ [][Next]_vars

-----------------------------------------------------------------------------
(* The decoder.                                                            *)

Signed3(d) == IF d >= 4 THEN d - 8 ELSE d

(* Five bits and delta of a channel, and whether their sum overflows.      *)
Overflows(h, i) == (h[i] \div 8) + Signed3(h[i] % 8) \notin 0 .. 31

DecodedMode(h) ==
  IF Bit(h[4], 1) = 0 THEN "individual"
  ELSE IF Overflows(h, 1) THEN "T"
  ELSE IF Overflows(h, 2) THEN "H"
  ELSE IF Overflows(h, 3) THEN "planar"
  ELSE "differential"

DecodedT(h) ==
  [c0 |-> <<((h[1] \div 8) % 4) * 4 + (h[1] % 4), h[2] \div 16, (h[2] % 16)>>,
   c1 |-> <<h[3] \div 16, (h[3] % 16), h[4] \div 16>>,
   distIdx |-> ((h[4] \div 4) % 4) * 2 + (h[4] % 2)]

(* The base colours of mode H are compared as numbers, r first.            *)
AsNumber(c) == c[1] * 256 + c[2] * 16 + c[3]

DecodedH(h) ==
  LET c0 == <<((h[1] \div 8) % 16), (h[1] % 8) * 2 + Bit(h[2], 4),
              Bit(h[2], 3) * 8 + (h[2] % 4) * 2 + Bit(h[3], 7)>>
      c1 == <<((h[3] \div 8) % 16), (h[3] % 8) * 2 + Bit(h[4], 7), ((h[4] \div 8) % 16)>>
  IN  [c0 |-> c0, c1 |-> c1,
       distIdx |-> Bit(h[4], 2) * 4 + Bit(h[4], 0) * 2
                   + (IF AsNumber(c0) >= AsNumber(c1) THEN 1 ELSE 0)]

DecodedO(h) ==
  <<((h[1] \div 2) % 64), (h[1] % 2) * 64 + ((h[2] \div 2) % 64),
    (h[2] % 2) * 32 + ((h[3] \div 8) % 4) * 8 + (h[3] % 4) * 2 + Bit(h[4], 7)>>

(* Bit n of the low 32 bits of the block, whose bytes are stored highest   *)
(* first.                                                                  *)
LowBit(b, n) == IF (3 - n \div 8) * 8 + (n % 8) \in b THEN 1 ELSE 0
LowField(b, n, width) == Binary(LAMBDA i : IF i < width THEN LowBit(b, n + i) ELSE 0)

DecodedHV(h, b) ==
  <<<<((h[4] \div 4) % 32) * 2 + (h[4] % 2), LowField(b, 25, 7), LowField(b, 19, 6)>>,
    <<LowField(b, 13, 6), LowField(b, 6, 7), LowField(b, 0, 6)>>>>

(* Bits are repeated, from 6 and from 7 of them.                           *)
Repeated(c) == <<c[1] * 4 + c[1] \div 16, c[2] * 2 + c[2] \div 64, c[3] * 4 + c[3] \div 16>>

Painted(O, H, V, i, k) ==
  LET c == ((k % 4) * (H[i] - O[i]) + (k \div 4) * (V[i] - O[i]) + 4 * O[i] + 2) \div 4
  IN  IF c < 0 THEN 0 ELSE IF c > 255 THEN 255 ELSE c

DecodedIndex(b, k) == LowBit(b, 16 + k) * 2 + LowBit(b, k)

(* Colours of the subblocks, 4 bits or 5 bits and delta.                   *)
DecodedRgb(h) ==
  IF Bit(h[4], 1) = 0
  THEN <<[i \in Channel |-> h[i] \div 16], [i \in Channel |-> (h[i] % 16)]>>
  ELSE <<[i \in Channel |-> h[i] \div 8],
         [i \in Channel |-> (h[i] \div 8) + Signed3(h[i] % 8)]>>

(* The modifiers of a table, from -large to +large, by pixel index.        *)
Modifier(index) == CASE index = 3 -> 0 [] index = 2 -> 1 [] index = 0 -> 2 [] index = 1 -> 3

(* The indices of an EAC block are the 48 bits after the header, pixel 0   *)
(* highest, bytes highest first.                                           *)
EacBit(h, b, n) ==
  LET at == 8 * (7 - n \div 8) + (n % 8)
  IN  IF at >= 32 THEN (IF at - 32 \in b THEN 1 ELSE 0) ELSE Bit(h[at \div 8 + 1], at % 8)

EacDecodedIndex(h, b, k) ==
  Binary(LAMBDA i : IF i < 3 THEN EacBit(h, b, 45 - 3 * k + i) ELSE 0)

-----------------------------------------------------------------------------

Written == header # <<>>

IsEac == block.mode \in {"eac", "eac flat"}

(* Whatever the colours, a decoder finds the mode the shader meant: the    *)
(* tables steer every channel's sum the right way, and no differential     *)
(* block overflows (kTmodeEncoderR and its four companions).               *)
ModeIsKept ==
  Written /\ ~IsEac =>
    DecodedMode(header) =
      CASE block.mode = "etc1"  -> IF block.useColor4 THEN "individual" ELSE "differential"
        [] block.mode = "solid" -> IF block.diff THEN "differential" ELSE "individual"
        [] OTHER                -> block.mode

HColours4 == HColours(block.c0, block.c1, block.distIdx)

(* The decoder reads the colours, distances, intensity tables, codewords   *)
(* and multipliers the shader meant, in whichever of the layouts; a flat   *)
(* EAC block has multiplier 0, so that no index disturbs its codeword.     *)
FieldsAreKept ==
  Written =>
    CASE block.mode = "T" ->
           DecodedT(header) = [c0 |-> rgb888to444(block.c0), c1 |-> rgb888to444(block.c1),
                               distIdx |-> block.distIdx]
      [] block.mode = "H" ->
           LET d == DecodedH(header)
           IN  /\ <<d.c0, d.c1>> = <<rgb888to444(HColours4[1]), rgb888to444(HColours4[2])>>
               /\ d.distIdx \div 2 = block.distIdx \div 2
      [] block.mode = "planar" ->
           /\ DecodedO(header) = block.cO
           /\ DecodedHV(header, bits) = <<block.cH, block.cV>>
      [] block.mode = "etc1" ->
           /\ DecodedRgb(header) = block.rgb
           /\ <<header[4] \div 32, ((header[4] \div 4) % 8)>> = block.inten
           /\ ((header[4] % 2) = 1) = block.flip
      [] block.mode = "solid" ->
           /\ DecodedRgb(header) = <<block.colour, block.colour>>
           /\ <<header[4] \div 32, ((header[4] \div 4) % 8)>> = <<block.inten, block.inten>>
      [] block.mode = "eac" ->
           <<header[1], header[2] \div 16, header[2] % 16>>
             = <<block.base, block.multiplier, block.table>>
      [] block.mode = "eac flat" -> <<header[1], header[2] \div 16>> = <<block.base, 0>>

(* Every pixel gets back the selector the shader chose for it: the         *)
(* transposition, the two subblock orders, the push order and the byte     *)
(* swaps cancel.                                                           *)
IndicesAreKept ==
  Written =>
    \A k \in Pixel :
      CASE block.mode \in {"T", "H"} -> DecodedIndex(bits, k) = block.idx[k]
        [] block.mode = "etc1"  -> Modifier(DecodedIndex(bits, k)) = block.selectors[k]
        [] block.mode = "solid" -> Modifier(DecodedIndex(bits, k)) = block.selector
        [] block.mode = "eac"   -> EacDecodedIndex(header, bits, k) = block.idx[k]
        [] OTHER -> TRUE

(* calcErrorPMode: the error that ranks a planar block is of the very      *)
(* colours a decoder interpolates from the stored corners, rounding and    *)
(* clamping included.                                                      *)
PlanarIsSearchedAsDecoded ==
  Written /\ block.mode = "planar" =>
    LET cO == rgb676To888(block.cO)  O == Repeated(DecodedO(header))
        cH == rgb676To888(block.cH)  H == Repeated(DecodedHV(header, bits)[1])
        cV == rgb676To888(block.cV)  V == Repeated(DecodedHV(header, bits)[2])
    IN  \A i \in Channel : \A k \in Pixel : Measured(cO, cH, cV, i, k) = Painted(O, H, V, i, k)

(* etc2_gen_header_h_mode: the low bit of the distance is implicit in the  *)
(* order of the colours.                                                   *)
DistanceIsImplicit ==
  Written /\ block.mode = "H" /\ block.c0 # block.c1
    => DecodedH(header).distIdx = block.distIdx

(* quant4: the colours the search measures with are 4-bit colours expanded *)
(* to 8 bits, the ones a decoder of the block will paint with.             *)
SearchedAsDecoded ==
  Written /\ block.mode = "T" =>
    \A i \in Channel : block.c0[i] = DecodedT(header).c0[i] * 17
=============================================================================
