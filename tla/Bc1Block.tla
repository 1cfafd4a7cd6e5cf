------------------------------- MODULE Bc1Block -------------------------------
(***************************************************************************)
(* bc1.glsl: one thread compresses a 4x4 block to two endpoints and        *)
(* sixteen indices.  It picks two endpoints, then twice solves for better  *)
(* ones and chooses the indices again, and orders the endpoints last,      *)
(* since their order tells a decoder which palette is meant.               *)
(*                                                                         *)
(* A colour is <<r, g, b>>, of 8 bits or of 5, 6 and 5.  The float         *)
(* arithmetic of the shader is taken as exact.                             *)
(***************************************************************************)
EXTENDS Diffusion, Sequences, Functions

CONSTANT
  Bc1Input   \* the blocks to compress: texels takes texel 4 * y + x to its
             \* colour, dithered is whether BC1_DITHER is defined

Texel == 0 .. 15
Rgb == 1 .. 3
Vector(Of(_)) == <<Of(1), Of(2), Of(3)>>

ASSUME Bc1BlockAssumption ==
  Bc1Input \subseteq [texels : [Texel -> (0 .. 255) \X (0 .. 255) \X (0 .. 255)], dithered : BOOLEAN]

VARIABLES
  texels,       \* srcPixelsBlock
  dithered,
  ends,         \* maxEndp16 and minEndp16
  indices,      \* mask
  refinements,  \* i
  stage

bc1Vars == <<texels, dithered, ends, indices, refinements, stage>>

p_numRefinements == 2

(* Entries of the tables as 100 * max + min.                               *)
stb__OMatch5 ==
  <<0, 0, 1, 1, 100, 100, 100, 101, 101, 200, 200, 4, 201, 201, 201, 300,
    300, 300, 301, 105, 302, 302, 400, 400, 401, 401, 402, 402, 402, 305,
    501, 501, 502, 404, 503, 503, 503, 602, 602, 602, 603, 505, 604, 604,
    408, 703, 703, 703, 704, 704, 704, 705, 509, 706, 706, 804, 804, 805,
    805, 806, 806, 806, 709, 905, 905, 906, 808, 907, 907, 907, 1006, 1006,
    1006, 1007, 909, 1008, 1008, 812, 1107, 1107, 1107, 1108, 1108, 1108,
    1109, 913, 1110, 1110, 1208, 1208, 1209, 1209, 1210, 1210, 1210, 1113,
    1309, 1309, 1310, 1212, 1311, 1311, 1311, 1410, 1410, 1410, 1411, 1313,
    1412, 1412, 1216, 1511, 1511, 1511, 1512, 1512, 1512, 1513, 1317, 1514,
    1514, 1612, 1612, 1613, 1613, 1614, 1614, 1614, 1517, 1713, 1713, 1714,
    1616, 1715, 1715, 1715, 1814, 1814, 1814, 1815, 1717, 1816, 1816, 1620,
    1915, 1915, 1915, 1916, 1916, 1916, 1917, 1721, 1918, 1918, 2016, 2016,
    2017, 2017, 2018, 2018, 2018, 1921, 2117, 2117, 2118, 2020, 2119, 2119,
    2119, 2218, 2218, 2218, 2219, 2121, 2220, 2220, 2024, 2319, 2319, 2319,
    2320, 2320, 2320, 2321, 2125, 2322, 2322, 2420, 2420, 2421, 2421, 2422,
    2422, 2422, 2325, 2521, 2521, 2522, 2424, 2523, 2523, 2523, 2622, 2622,
    2622, 2623, 2525, 2624, 2624, 2428, 2723, 2723, 2723, 2724, 2724, 2724,
    2725, 2529, 2726, 2726, 2824, 2824, 2825, 2825, 2826, 2826, 2826, 2729,
    2925, 2925, 2926, 2828, 2927, 2927, 2927, 3026, 3026, 3026, 3027, 2929,
    3028, 3028, 3028, 3127, 3127, 3127, 3128, 3128, 3128, 3129, 3129, 3130,
    3130, 3130, 3131, 3131>>

stb__OMatch6 ==
  <<0, 1, 100, 100, 101, 200, 201, 300, 300, 301, 400, 400, 401, 500, 501,
    600, 600, 601, 700, 700, 701, 800, 801, 801, 802, 901, 902, 902, 903,
    1002, 1003, 1003, 1004, 1103, 1104, 1104, 1105, 1204, 1205, 1205, 1206,
    1305, 1306, 816, 1307, 1406, 1407, 917, 1408, 1507, 1508, 1116, 1509,
    1510, 1608, 1609, 1610, 1513, 1709, 1710, 1711, 1516, 1810, 1811, 1812,
    1616, 1911, 1912, 1913, 1717, 2012, 2013, 2014, 1916, 2113, 2114, 2115,
    2017, 2214, 2215, 2510, 2216, 2315, 2316, 2611, 2317, 2416, 2417, 2712,
    2418, 2517, 2518, 2813, 2519, 2618, 2619, 2914, 2620, 2719, 2720, 3015,
    2721, 2820, 2821, 2821, 2822, 2921, 2922, 2432, 2923, 3022, 3023, 2533,
    3024, 3123, 3124, 2732, 3125, 3126, 3224, 3225, 3226, 3129, 3325, 3326,
    3327, 3132, 3426, 3427, 3428, 3232, 3527, 3528, 3529, 3333, 3628, 3629,
    3630, 3532, 3729, 3730, 3731, 3633, 3830, 3831, 4126, 3832, 3931, 3932,
    4227, 3933, 4032, 4033, 4328, 4034, 4133, 4134, 4429, 4135, 4234, 4235,
    4530, 4236, 4335, 4336, 4631, 4337, 4436, 4437, 4437, 4438, 4537, 4538,
    4048, 4539, 4638, 4639, 4149, 4640, 4739, 4740, 4348, 4741, 4742, 4840,
    4841, 4842, 4745, 4941, 4942, 4943, 4748, 5042, 5043, 5044, 4848, 5143,
    5144, 5145, 4949, 5244, 5245, 5246, 5148, 5345, 5346, 5347, 5249, 5446,
    5447, 5742, 5448, 5547, 5548, 5843, 5549, 5648, 5649, 5944, 5650, 5749,
    5750, 6045, 5751, 5850, 5851, 6146, 5852, 5951, 5952, 6247, 5953, 6052,
    6053, 6053, 6054, 6153, 6154, 6154, 6155, 6254, 6255, 6255, 6256, 6355,
    6356, 6356, 6357, 6358, 6359, 6359, 6360, 6361, 6362, 6362, 6363>>

-----------------------------------------------------------------------------
(* Colours.                                                                *)

rgb565to888(c) == <<(c[1] * 33) \div 4, (c[2] * 65) \div 16, (c[3] * 33) \div 4>>

Levels == <<31, 63, 31>>

To565(i, v) == (2 * v * Levels[i] + 255) \div 510
rgb888to565(c) == Vector(LAMBDA i : To565(i, c[i]))

(* The endpoint as one number of 16 bits.                                  *)
Packed565(c) == c[1] * 2048 + c[2] * 32 + c[3]

lerp13(a, b) == Vector(LAMBDA i : (2 * a[i] + b[i]) \div 3)

(* The palette, the colour of index 0 first.                               *)
EvalColors(e) ==
  LET c0 == rgb565to888(e.max)
      c1 == rgb565to888(e.min)
  IN  <<c0, c1, lerp13(c0, c1), lerp13(c1, c0)>>

(* Mutant: the two columns of the tables change places.                    *)
OneColourSwapped(c) ==
  LET entry == <<stb__OMatch5[c[1] + 1], stb__OMatch6[c[2] + 1], stb__OMatch5[c[3] + 1]>>
  IN  [max |-> Vector(LAMBDA i : entry[i] % 100), min |-> Vector(LAMBDA i : entry[i] \div 100)]

(* The endpoints whose colour 2 is nearest to a colour.                    *)
OneColour(c) ==
  LET entry == <<stb__OMatch5[c[1] + 1], stb__OMatch6[c[2] + 1], stb__OMatch5[c[3] + 1]>>
  IN  [max |-> Vector(LAMBDA i : entry[i] \div 100), min |-> Vector(LAMBDA i : entry[i] % 100)]

Dot(a, b) == a[1] * b[1] + a[2] * b[2] + a[3] * b[3]

-----------------------------------------------------------------------------
(* Error diffusion.                                                        *)

(* A run over the texels: Quantize takes a texel and what is carried to it *)
(* to the value chosen and the error left.                                 *)
Diffuse(Quantize) ==
  LET after[n \in 0 .. 16] ==
        IF n = 0 THEN <<>>
        ELSE LET before == after[n - 1]
                 carried == Carried([m \in 1 .. n - 1 |-> before[m].error], n - 1)
             IN  Append(before, Quantize[n - 1][carried])
  IN  after[16]

quant(i, v) == rgb565to888(Vector(LAMBDA j : To565(j, Clamped(v, 255))))[i]

DitherChannel(i) ==
  LET run == Diffuse([k \in Texel |-> [carried \in Int |->
                        LET v == quant(i, texels[k][i] + Truncated(carried, 16))
                        IN  [value |-> v, error |-> texels[k][i] - v]]])
  IN  [k \in Texel |-> run[k + 1].value]

DitherBlock ==
  LET channel == Vector(DitherChannel)
  IN  [k \in Texel |-> Vector(LAMBDA i : channel[i][k])]

ditherPixelsBlock == IF dithered THEN DitherBlock ELSE texels

-----------------------------------------------------------------------------
(* Choice of the indices.                                                  *)

(* The texel whose colour texel k is matched by when it is dithered.       *)
DitherLoads(k) == IF k % 4 = 3 THEN k - 1 ELSE k

Direction(e) == Vector(LAMBDA i : EvalColors(e)[1][i] - EvalColors(e)[2][i])

(* The index whose colour's stop along the direction is nearest to d, both *)
(* multiplied by unit; stop[i + 1] is the stop of index i.                 *)
NearestStop(d, unit, stop) ==
  LET c0Point == Truncated(stop[2] + stop[4], 2)
      halfPoint == Truncated(stop[4] + stop[3], 2)
      c3Point == Truncated(stop[3] + stop[1], 2)
  IN  IF d < halfPoint * unit THEN (IF d < c0Point * unit THEN 1 ELSE 3)
                              ELSE (IF d < c3Point * unit THEN 2 ELSE 0)

DitherIndices(dir, stop) ==
  LET run == Diffuse([k \in Texel |-> [carried \in Int |->
                        LET d == Dot(texels[DitherLoads(k)], dir)
                            step == NearestStop(d * 16 + carried, 16, stop)
                        IN  [value |-> step, error |-> d - stop[step + 1]]]])
  IN  [k \in Texel |-> run[k + 1].value]

MatchColorsBlock(e) ==
  LET dir == Direction(e)
      stop == [i \in 1 .. 4 |-> Dot(EvalColors(e)[i], dir)]
  IN  IF dithered THEN DitherIndices(dir, stop)
                  ELSE [k \in Texel |-> NearestStop(Dot(texels[k], dir), 1, stop)]

AllIndices(step) == [k \in Texel |-> step]

-----------------------------------------------------------------------------
(* Least squares: w1 of max and 3 - w1 of min make three times a texel.    *)

w1Tab == <<3, 0, 2, 1>>

(* Mutant: the product of the weights of colour 3 is wrong.                *)
prodsWrong == <<589824, 2304, 262402, 66561>>

(* w1 * w1, w2 * w2 and w1 * w2 in one number.                             *)
prods == <<589824, 2304, 262402, 66562>>

Singular(mask) == \A k \in Texel : mask[k] = mask[0]

SumOver(Of(_)) ==
  Of(0) + Of(1) + Of(2) + Of(3) + Of(4) + Of(5) + Of(6) + Of(7)
  + Of(8) + Of(9) + Of(10) + Of(11) + Of(12) + Of(13) + Of(14) + Of(15)

Average(block) == Vector(LAMBDA i : (8 + SumOver(LAMBDA k : block[k][i])) \div 16)

(* The products of the weights, which share a number.                      *)
Akku(mask) == SumOver(LAMBDA k : prods[mask[k] + 1])

(* Three times the texels' channels, as max and min have part in them.     *)
At1(block, mask, i) == SumOver(LAMBDA k : block[k][i] * w1Tab[mask[k] + 1])
At2(block, mask, i) == SumOver(LAMBDA k : block[k][i] * 3) - At1(block, mask, i)

(* Both new endpoints, rounded and clamped.                                *)
Solved(block, mask) ==
  LET xx == Akku(mask) \div 65535
      yy == (Akku(mask) % 65535) \div 256
      xy == Akku(mask) % 256
      det == xx * yy - xy * xy
      rounded(i, n) == Clamped((6 * Levels[i] * n + 255 * det) \div (510 * det), Levels[i])
  IN  [max |-> Vector(LAMBDA i : rounded(i, At1(block, mask, i) * yy - At2(block, mask, i) * xy)),
       min |-> Vector(LAMBDA i : rounded(i, At2(block, mask, i) * xx - At1(block, mask, i) * xy))]

RefineBlock ==
  LET block == ditherPixelsBlock
  IN  IF Singular(indices) THEN OneColour(Average(block)) ELSE Solved(block, indices)

-----------------------------------------------------------------------------

Bc1Init ==
  /\ \E input \in Bc1Input : texels = input.texels /\ dithered = input.dithered
  /\ ends = <<>>
  /\ indices = AllIndices(0)
  /\ refinements = 0
  /\ stage = "start"

bAllColoursEqual == \A k \in Texel : texels[k] = texels[0]

Uniform ==
  /\ stage = "start" /\ bAllColoursEqual
  /\ ends' = OneColour(texels[0])
  /\ indices' = AllIndices(2)
  /\ stage' = "order"
  /\ UNCHANGED <<texels, dithered, refinements>>

(* Of the principal axis only this is kept: the endpoints are the colours  *)
(* of two texels.                                                          *)
OptimizeColorsBlock ==
  /\ stage = "start" /\ ~bAllColoursEqual
  /\ LET colours == {rgb888to565(ditherPixelsBlock[k]) : k \in Texel}
     IN  \E max \in colours, min \in colours :
           /\ ends' = [max |-> max, min |-> min]
           /\ indices' = IF max = min THEN AllIndices(0) ELSE MatchColorsBlock(ends')
  /\ stage' = "refine"
  /\ UNCHANGED <<texels, dithered, refinements>>

(* Mutant: the indices are those of the endpoints before.                  *)
NewIndicesStale(new) == IF new.max = new.min THEN AllIndices(0) ELSE indices

(* Mutant: the indices of equal endpoints are not reset.                   *)
NewIndicesNotReset(new) ==
  IF new = ends \/ new.max = new.min THEN indices ELSE MatchColorsBlock(new)

NewIndices(new) ==
  CASE new = ends -> indices
    [] new # ends /\ new.max # new.min -> MatchColorsBlock(new)
    [] new # ends /\ new.max = new.min -> AllIndices(0)

Refine ==
  /\ stage = "refine"
  /\ LET new == RefineBlock
     IN  /\ ends' = new
         /\ indices' = NewIndices(new)
         /\ stage' = IF indices' = indices \/ (new # ends /\ new.max = new.min)
                       \/ refinements + 1 = p_numRefinements
                    THEN "order" ELSE "refine"
  /\ refinements' = refinements + 1
  /\ UNCHANGED <<texels, dithered>>

(* The exclusive or with 0x55555555 exchanges 0 and 1, 2 and 3.            *)
Order ==
  /\ stage = "order"
  /\ IF Packed565(ends.max) < Packed565(ends.min)
     THEN /\ ends' = [max |-> ends.min, min |-> ends.max]
          /\ indices' = [k \in Texel |-> IF indices[k] % 2 = 0 THEN indices[k] + 1 ELSE indices[k] - 1]
     ELSE UNCHANGED <<ends, indices>>
  /\ stage' = "stored"
  /\ UNCHANGED <<texels, dithered, refinements>>

Bc1Next == Uniform \/ OptimizeColorsBlock \/ Refine \/ Order

Bc1Spec == Bc1Init /\ [][Bc1Next]_bc1Vars

-----------------------------------------------------------------------------

Stored == stage = "stored"
Painted == [k \in Texel |-> EvalColors(ends)[indices[k] + 1]]
Apart(a, b) == IF a < b THEN b - a ELSE a - b

(* Whatever happened to the endpoints since the indices were chosen, the   *)
(* block a decoder reads has the four-colour palette they were chosen for, *)
(* or uses no index that means black in the other (bc1.glsl's swap, and    *)
(* its reset of the mask when a refinement ends with equal endpoints).     *)
FourColoursOrNoBlack ==
  Stored => Packed565(ends.max) > Packed565(ends.min)
            \/ (ends.max = ends.min /\ \A k \in Texel : indices[k] # 3)

(* The indices stored are those of the endpoints stored, not of earlier    *)
(* ones: along the line between the endpoints no other palette colour is   *)
(* nearer to a texel, but for the rounding of a threshold                  *)
(* (MatchColorsBlock after the last RefineBlock, without dithering).       *)
IndicesAreOfEnds ==
  Stored /\ ~dithered /\ ends.max # ends.min /\ ~bAllColoursEqual =>
    LET colour == EvalColors(ends)
        dir == Vector(LAMBDA i : colour[1][i] - colour[2][i])
        away(k, step) == Apart(Dot(texels[k], dir), Dot(colour[step + 1], dir))
    IN  \A k \in Texel : \A step \in 0 .. 3 : away(k, indices[k]) <= away(k, step) + 1

(* A block of one colour is painted with it, or with a neighbour.          *)
OneColourIsKept ==
  Stored /\ bAllColoursEqual => \A i \in Rgb : Apart(Painted[0][i], texels[0][i]) <= 1

(* Whenever RefineBlock takes the system for solvable it is, the sums      *)
(* packed in one float come apart exactly, and the endpoints satisfy the   *)
(* normal equations up to their rounding, unless they are clamped.         *)
SystemIsSolved ==
  stage = "refine" /\ ~Singular(indices) =>
    LET block == ditherPixelsBlock
        w1 == [k \in Texel |-> w1Tab[indices[k] + 1]]
        xx == SumOver(LAMBDA k : w1[k] * w1[k])
        yy == SumOver(LAMBDA k : (3 - w1[k]) * (3 - w1[k]))
        xy == SumOver(LAMBDA k : w1[k] * (3 - w1[k]))
        new == Solved(block, indices)
        residue(i) == SumOver(LAMBDA k : 6 * block[k][i] * w1[k]) * Levels[i]
                      - 510 * (xx * new.max[i] + xy * new.min[i])
    IN  /\ xx * yy > xy * xy
        /\ \A i \in Rgb :
             {new.max[i], new.min[i]} \cap {0, Levels[i]} # {} \/ Apart(residue(i), 0) <= 255 * (xx + xy)

(* "with floyd-steinberg dithering": where the palette has the colour of   *)
(* every texel there is no error to diffuse, and each keeps its colour.    *)
NothingToDiffuse ==
  Stored /\ dithered /\ (\A k \in Texel : texels[k] \in Range(EvalColors(ends)))
    => Painted = texels
=============================================================================
