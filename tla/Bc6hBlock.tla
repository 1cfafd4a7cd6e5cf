------------------------------ MODULE Bc6hBlock ------------------------------
(***************************************************************************)
(* bc6h.glsl: one invocation gathers sixteen texels, encodes them as one   *)
(* region (mode 11) and then tries the 32 partitions into two, each in two *)
(* layouts of the same 128 bits (7.6 and 9.5), keeping the best block.     *)
(*                                                                         *)
(* An endpoint is <<r, g, b>> in half-float bits.  Where the texels lie    *)
(* between the endpoints, and the errors measured, are inputs: a texel is  *)
(* n of Steps from the smaller endpoint.  When the endpoints are equal the *)
(* shader divides by 0, and clamp makes the index of the NaN 0, as on      *)
(* hardware whose max returns the number: position 0.                      *)
(***************************************************************************)
EXTENDS Integers, Sequences

CONSTANTS
  GlobalInvocation,   \* the blocks of the picture, <<x, y>>
  Picture,            \* its width and height in texels
  P1Input,            \* [min, max, at, msle]
  P2Input,            \* [pattern, ends, at, msle, layout]
  Steps

VARIABLES
  invocation,  \* gl_GlobalInvocationID, and <<>> of an idle machine
  gathered,    \* the coordinates of texels[ i ]
  hblock,      \* the bits set in block, 0 .. 127
  blockMSLE,
  meant,       \* what the block was written to say
  pattern      \* the next one to try

bc6hVars == <<invocation, gathered, hblock, blockMSLE, meant, pattern>>

HTexel == 0 .. 15
Component == 1 .. 3

(* Non-negative, finite half floats, and positions anywhere on the line    *)
(* through the endpoints.                                                  *)
HalfFloat == 0 .. 31743
HalfColour == [Component -> HalfFloat]
Positions == [HTexel -> Int]

ASSUME Bc6hBlockAssumption ==
  /\ Steps \in Nat \ {0}
  /\ P1Input \subseteq [min : HalfColour, max : HalfColour, at : Positions, msle : Int]
  /\ P2Input \subseteq [pattern : 0 .. 31, ends : [1 .. 4 -> HalfColour], at : Positions, msle : Int,
                        layout : {"7.6", "9.5"}]

Clamped(v, lo, hi) == IF v < lo THEN lo ELSE IF v > hi THEN hi ELSE v

-----------------------------------------------------------------------------
(* The texels: four gathers of 2 x 2 around a corner of the texel grid,    *)
(* clamped to the edges of the picture.                                    *)

(* The two texels, per axis, that a gather at coordinate uv reads.         *)
Gather(uv, d, size) == Clamped(uv - 1 + d, 0, size - 1)

BlockUV(id) == 4 * id - 1

TexelRead(id, i) ==
  LET x == i % 4   y == i \div 4
  IN  <<Gather(BlockUV(id[1]) + 2 * (x \div 2), x % 2, Picture[1]),
        Gather(BlockUV(id[2]) + 2 * (y \div 2), y % 2, Picture[2])>>

-----------------------------------------------------------------------------
(* Endpoints and indices.                                                  *)

Quantize(levels, c) == [i \in Component |-> (c[i] * levels) \div 31744]

(* floor of r * 6.98182 + 0.50909 and of r * 14.93333 + 0.53333.           *)
ComputeIndex3(n) == Clamped((n * 698182 + Steps * 50909) \div (Steps * 100000), 0, 7)
ComputeIndex4(n) == Clamped((n * 1493333 + Steps * 53333) \div (Steps * 100000), 0, 15)

(* Mutant: the swap is decided one index late.                             *)
SwapNeededLate(fixupIndex, limit) == fixupIndex > limit + 1

(* The highest bit of the anchor's index is not stored, so it must be 0.   *)
SwapNeeded(fixupIndex, limit) == fixupIndex > limit

PatternHalves ==
  <<52428, 34952, 61166, 60616, 51328, 65260, 65224, 60544, 51200, 65516, 65152,
    59392, 65512, 65280, 65520, 61440, 63248, 142, 28928, 2254, 140, 29456, 12544,
    36046, 2188, 12560, 26214, 13932, 6120, 4080, 29070, 14748>>

Pattern(p, i) == (PatternHalves[p + 1] \div 2 ^ i) % 2

PatternFixupID(p) ==
  CASE p \in {18, 21, 22, 25, 28, 29}         -> 8
    [] p \in {17, 19, 20, 24, 26, 27, 30, 31} -> 2
    [] OTHER                                  -> 15

(* Deltas from the first endpoint, clamped to a symmetric range.           *)
Deltas(q, limit) ==
  [k \in 1 .. 4 |-> IF k = 1 THEN q[1]
                    ELSE [i \in Component |-> Clamped(q[k][i] - q[1][i], -limit, limit)]]

SignExtend(v, mask, signFlag) == (v % (mask + 1)) + (IF v < 0 THEN signFlag ELSE 0)

Extended(d, mask) ==
  [k \in 1 .. 4 |-> IF k = 1 THEN d[1]
                    ELSE [i \in Component |-> SignExtend(d[k][i], mask, mask + 1)]]

-----------------------------------------------------------------------------
(* The layouts as the shader writes them: bits low .. low + width - 1 of a *)
(* value go to at.                                                         *)

Put(value, low, width, at) ==
  {at + i : i \in {i \in 0 .. width - 1 : (value \div 2 ^ (low + i)) % 2 = 1 /\ at + i < 128}}

PutAll(pieces) == UNION {Put(p[1], p[2], p[3], p[4]) : p \in pieces}

Mode11(e) ==
  PutAll({<<3, 0, 2, 0>>, <<e[1][1], 0, 10, 5>>, <<e[1][2], 0, 10, 15>>, <<e[1][3], 0, 10, 25>>,
          <<e[2][1], 0, 10, 35>>, <<e[2][2], 0, 10, 45>>, <<e[2][3], 0, 10, 55>>})

Mode76(e) ==
  PutAll({<<1, 0, 1, 0>>, <<e[3][2], 5, 1, 2>>, <<e[4][2], 4, 1, 3>>, <<e[4][2], 5, 1, 4>>,
          <<e[1][1], 0, 7, 5>>, <<e[4][3], 0, 1, 12>>, <<e[4][3], 1, 1, 13>>, <<e[3][3], 4, 1, 14>>,
          <<e[1][2], 0, 7, 15>>, <<e[3][3], 5, 1, 22>>, <<e[4][3], 2, 1, 23>>, <<e[3][2], 4, 1, 24>>,
          <<e[1][3], 0, 7, 25>>, <<e[4][3], 3, 1, 32>>, <<e[4][3], 5, 1, 33>>, <<e[4][3], 4, 1, 34>>,
          <<e[2][1], 0, 6, 35>>, <<e[3][2], 0, 4, 41>>, <<e[2][2], 0, 6, 45>>, <<e[4][2], 0, 4, 51>>,
          <<e[2][3], 0, 6, 55>>, <<e[3][3], 0, 3, 61>>, <<e[3][3], 3, 1, 64>>, <<e[3][1], 0, 6, 65>>,
          <<e[4][1], 0, 6, 71>>})

Mode95(e) ==
  PutAll({<<14, 0, 4, 0>>, <<e[1][1], 0, 9, 5>>, <<e[3][3], 4, 1, 14>>, <<e[1][2], 0, 9, 15>>,
          <<e[3][2], 4, 1, 24>>, <<e[1][3], 0, 9, 25>>, <<e[4][3], 4, 1, 34>>, <<e[2][1], 0, 5, 35>>,
          <<e[4][2], 4, 1, 40>>, <<e[3][2], 0, 4, 41>>, <<e[2][2], 0, 5, 45>>, <<e[4][3], 0, 1, 50>>,
          <<e[4][2], 0, 4, 51>>, <<e[2][3], 0, 5, 55>>, <<e[4][3], 1, 1, 60>>, <<e[3][3], 0, 3, 61>>,
          <<e[3][3], 3, 1, 64>>, <<e[3][1], 0, 5, 65>>, <<e[4][3], 2, 1, 70>>, <<e[4][1], 0, 5, 71>>,
          <<e[4][3], 3, 1, 76>>})

IndicesP1(indices) == PutAll({<<indices[i], 0, 4, IF i = 0 THEN 65 ELSE 64 + 4 * i>> : i \in HTexel})

IndexAt(fixupID) ==
  CASE fixupID = 15 ->
         <<82, 84, 87, 90, 93, 96, 99, 102, 105, 108, 111, 114, 117, 120, 123, 126>>
    [] fixupID = 2 ->
         <<82, 84, 87, 89, 92, 95, 98, 101, 104, 107, 110, 113, 116, 119, 122, 125>>
    [] fixupID = 8 ->
         <<82, 84, 87, 90, 93, 96, 99, 102, 105, 107, 110, 113, 116, 119, 122, 125>>

IndicesP2(p, indices) ==
  PutAll({<<p, 0, 5, 77>>}
         \cup {<<indices[i], 0, 3, IndexAt(PatternFixupID(p))[i + 1]>> : i \in HTexel})

-----------------------------------------------------------------------------

Bc6hInit ==
  /\ invocation \in GlobalInvocation
  /\ gathered = <<>>
  /\ hblock = {}
  /\ blockMSLE = 0
  /\ meant = <<>>
  /\ pattern = 0

GatherTexels ==
  /\ invocation # <<>> /\ gathered = <<>>
  /\ gathered' = [i \in HTexel |-> TexelRead(invocation, i)]
  /\ UNCHANGED <<invocation, hblock, blockMSLE, meant, pattern>>

EncodeP1 ==
  /\ gathered # <<>> /\ meant = <<>>
  /\ \E s \in P1Input :
       LET swap    == SwapNeeded(ComputeIndex4(s.at[0]), 7)
           ends    == <<Quantize(1024, IF swap THEN s.max ELSE s.min),
                        Quantize(1024, IF swap THEN s.min ELSE s.max)>>
           indices == [i \in HTexel |-> ComputeIndex4(IF swap THEN Steps - s.at[i] ELSE s.at[i])]
       IN  /\ hblock' = Mode11(ends) \cup IndicesP1(indices)
           /\ meant' = [layout |-> "11", ends |-> ends, indices |-> indices, pattern |-> 0,
                        exact |-> TRUE]
           /\ blockMSLE' = s.msle
  /\ UNCHANGED <<invocation, gathered, pattern>>

(* Mutant: nothing is reset before the new bits are or-ed in.              *)
NotCleared == hblock

(* What is left of the block that a better one replaces.                   *)
Cleared == {}

(* The patterns passed over do not improve on the block.                   *)
EncodeP2Pattern ==
  /\ meant # <<>>
  /\ \E s \in {s \in P2Input : s.pattern >= pattern /\ s.msle < blockMSLE} :
       LET p       == s.pattern
           anchor  == <<0, PatternFixupID(p)>>
           swap    == [r \in 1 .. 2 |-> SwapNeeded(ComputeIndex3(s.at[anchor[r]]), 3)]
           order   == <<IF swap[1] THEN 2 ELSE 1, IF swap[1] THEN 1 ELSE 2,
                        IF swap[2] THEN 4 ELSE 3, IF swap[2] THEN 3 ELSE 4>>
           levels  == IF s.layout = "7.6" THEN 128 ELSE 512
           mask    == IF s.layout = "7.6" THEN 31 ELSE 15
           deltas  == Deltas([k \in 1 .. 4 |-> Quantize(levels, s.ends[order[k]])], mask)
           fields  == Extended(deltas, mask)
           indices == [i \in HTexel |->
                         ComputeIndex3(IF swap[Pattern(p, i) + 1] THEN Steps - s.at[i] ELSE s.at[i])]
       IN  /\ hblock' = Cleared \cup IndicesP2(p, indices)
                        \cup (IF s.layout = "7.6" THEN Mode76(fields) ELSE Mode95(fields))
           /\ meant' =
                [layout |-> s.layout, indices |-> indices, pattern |-> p,
                 ends |-> [k \in 1 .. 4 |->
                             [i \in Component |-> deltas[1][i] + (IF k = 1 THEN 0 ELSE deltas[k][i])]],
                 exact |-> \A r \in 1 .. 2 : 2 * s.at[anchor[r]] # Steps]
           /\ blockMSLE' = s.msle
           /\ pattern' = p + 1
  /\ UNCHANGED <<invocation, gathered>>

(* imageStore, once no pattern is left that improves.                      *)
StoreBlock == meant # <<>> /\ UNCHANGED bc6hVars

Bc6hNext == GatherTexels \/ EncodeP1 \/ EncodeP2Pattern \/ StoreBlock

Bc6hSpec == Bc6hInit /\ [][Bc6hNext]_bc6hVars

-----------------------------------------------------------------------------
(* The decoder, from the published layouts: the bits of the block that     *)
(* hold a field, its lowest bit first.  Endpoints are named w, x, y and z. *)

Run(at, width) == [i \in 1 .. width |-> at + i - 1]

Layout11 == [w |-> <<Run(5, 10), Run(15, 10), Run(25, 10)>>, x |-> <<Run(35, 10), Run(45, 10), Run(55, 10)>>]

Layout76 ==
  [w |-> <<Run(5, 7), Run(15, 7), Run(25, 7)>>,
   deltas |-> <<<<Run(35, 6), Run(45, 6), Run(55, 6)>>,
                <<Run(65, 6), <<41, 42, 43, 44, 24, 2>>, <<61, 62, 63, 64, 14, 22>>>>,
                <<Run(71, 6), <<51, 52, 53, 54, 3, 4>>, <<12, 13, 23, 32, 34, 33>>>>>>]

Layout95 ==
  [w |-> <<Run(5, 9), Run(15, 9), Run(25, 9)>>,
   deltas |-> <<<<Run(35, 5), Run(45, 5), Run(55, 5)>>,
                <<Run(65, 5), <<41, 42, 43, 44, 24>>, <<61, 62, 63, 64, 14>>>>,
                <<Run(71, 5), <<51, 52, 53, 54, 40>>, <<50, 60, 70, 76, 34>>>>>>]

(* The number in at most ten bits.                                         *)
DecodedField(b, field) ==
  LET digit(i) == IF i <= Len(field) /\ field[i] \in b THEN 2 ^ (i - 1) ELSE 0
  IN  digit(1) + digit(2) + digit(3) + digit(4) + digit(5) + digit(6) + digit(7) + digit(8)
      + digit(9) + digit(10)

FieldBits(b, at, width) == DecodedField(b, Run(at, width))

(* Modes 1 and 2 have two bits, the others five.                           *)
DecodedLayout(b) ==
  IF FieldBits(b, 0, 2) = 1 THEN "7.6"
  ELSE CASE FieldBits(b, 0, 5) = 14 -> "9.5"
         [] FieldBits(b, 0, 5) = 3  -> "11"
         [] OTHER -> "other"

SignedField(v, width) == IF v >= 2 ^ (width - 1) THEN v - 2 ^ width ELSE v

(* Endpoints x, y and z are deltas from w, modulo the precision of w.      *)
DecodedEnds(b, layout, precision, width) ==
  LET base(i) == DecodedField(b, layout.w[i])
      difference(k, i) == SignedField(DecodedField(b, layout.deltas[k - 1][i]), width)
  IN  [k \in 1 .. 4 |->
         [i \in Component |-> IF k = 1 THEN base(i) ELSE (base(i) + difference(k, i)) % 2 ^ precision]]

(* The anchors' indices are one bit shorter.                               *)
DecodedIndexP1(b, i) == IF i = 0 THEN FieldBits(b, 65, 3) ELSE FieldBits(b, 64 + 4 * i, 4)

AnchorOf == <<15, 15, 15, 15, 15, 15, 15, 15, 15, 15, 15, 15, 15, 15, 15, 15,
              15, 2, 8, 2, 2, 8, 8, 15, 2, 8, 2, 2, 8, 8, 2, 2>>

DecodedIndexP2(b, i) ==
  LET anchor == AnchorOf[FieldBits(b, 77, 5) + 1]
      before == (IF 0 < i THEN 1 ELSE 0) + (IF anchor < i THEN 1 ELSE 0)
  IN  FieldBits(b, 82 + 3 * i - before, IF i \in {0, anchor} THEN 2 ELSE 3)

-----------------------------------------------------------------------------

(* Whichever of the three layouts wins, and whatever block it replaces, a  *)
(* decoder reads the mode, the partition and the endpoints the error was   *)
(* measured with: EncodeP1 and EncodeP2Pattern write disjoint bits, clear  *)
(* the earlier block, and clamp the deltas to what their fields hold.      *)
BC6HFieldsAreKept ==
  meant # <<>> =>
    /\ DecodedLayout(hblock) = meant.layout
    /\ CASE meant.layout = "11" ->
              meant.ends = <<[i \in Component |-> DecodedField(hblock, Layout11.w[i])],
                             [i \in Component |-> DecodedField(hblock, Layout11.x[i])]>>
         [] meant.layout = "7.6" -> meant.ends = DecodedEnds(hblock, Layout76, 7, 6)
         [] meant.layout = "9.5" -> meant.ends = DecodedEnds(hblock, Layout95, 9, 5)
    /\ meant.layout # "11" => FieldBits(hblock, 77, 5) = meant.pattern

(* Every texel gets back the index the shader chose: the endpoints are     *)
(* swapped whenever an anchor's index would not fit its shorter field, and *)
(* the three index layouts agree with the partition.  An anchor halfway    *)
(* between its endpoints is left out: ComputeIndex3 gives it 4 before and  *)
(* after the swap, which no swap can bring under 4.                        *)
BC6HIndicesAreKept ==
  meant # <<>> /\ meant.exact =>
    \A i \in HTexel :
      meant.indices[i] = IF meant.layout = "11" THEN DecodedIndexP1(hblock, i)
                                                ELSE DecodedIndexP2(hblock, i)

(* bc6h.glsl, main: "gather texels for current 4x4 block", in the order of *)
(* the comment.  The code gathers those from two to the left and two above *)
(* on: of a block inside of the picture, four of its own and twelve of its *)
(* neighbours; at an edge clamping repeats the block's own texels instead. *)
TexelsAreOfBlock ==
  gathered # <<>> =>
    \A i \in HTexel : gathered[i] = <<4 * invocation[1] + (i % 4), 4 * invocation[2] + (i \div 4)>>
=============================================================================
