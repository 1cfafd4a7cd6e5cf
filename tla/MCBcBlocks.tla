------------------------------ MODULE MCBcBlocks ------------------------------
(***************************************************************************)
(* Blocks for bc4.glsl, bc1.glsl and dither555.glsl.  A behaviour is of    *)
(* one of the shaders, and the others are idle.                            *)
(***************************************************************************)
EXTENDS Bc4Block, Bc1Block, Dither555

CONSTANT Shaders

(* For each pair of extremes, every value between them, fourteen to a      *)
(* block.                                                                  *)
Between(lo, hi, first) ==
  [p \in Pixel |-> CASE p = 0 -> hi [] p = 15 -> lo [] OTHER -> Min({first + p, hi})]

Ramps(minima, distances) ==
  UNION {{Between(r[1], r[1] + r[2], r[1] + 14 * k) : k \in 0 .. r[2] \div 14} :
         r \in {r \in minima \X distances : r[1] + r[2] <= 255}}

Distances == {0, 1, 2, 3, 5, 7, 8, 9, 15, 16, 23, 50, 51, 100, 127, 180, 218, 254, 255}

(* Neighbouring values are the ones that two signed endpoints may merge.   *)
MCInput ==
  [image : Ramps({0, 37, 128}, Distances), useSNorm : {FALSE}]
  \cup [image : Ramps(0 .. 255, 0 .. 2), useSNorm : {TRUE}]

(* Two or three colours, in runs or in columns; neighbouring greys, which  *)
(* endpoints may merge; and gradients in two channels.                     *)
Runs(a, b, c, sizes) == {[k \in Texel |-> CASE k < n -> a [] k \in n .. m - 1 -> b [] k >= m -> c] :
                           n \in sizes, m \in sizes \cup {16}}
Columns(a, b) == {[k \in Texel |-> IF k % 4 \in columns THEN a ELSE b] : columns \in SUBSET (0 .. 3)}
Grey(v) == <<v, v, v>>

Palettes == {<<<<0, 0, 0>>, <<255, 0, 0>>, <<85, 170, 255>>>>, <<Grey(0), Grey(85), Grey(255)>>,
             <<<<16, 190, 8>>, <<24, 186, 16>>, <<20, 180, 12>>>>}

Steps == {<<3, 30>>, <<17, 0>>}

Gradients ==
  {[k \in Texel |-> <<40 + (k % 4) * s[1], 200 - (k \div 4) * s[2], 7 * s[1]>>] : s \in Steps}

Varied ==
  UNION {Runs(p[1], p[2], p[3], 1 .. 15) \cup Columns(p[1], p[2]) : p \in Palettes} \cup Gradients

Narrow ==
  {[k \in Texel |-> Grey(v)] : v \in 0 .. 255}
  \cup UNION {Runs(Grey(v), Grey(v + 1), Grey(v + 3), {1, 13}) : v \in 0 .. 252}

(* Also every grey by itself and next to another, and five-bit colours.    *)
MCDither555Input ==
  Varied \cup Narrow
  \cup UNION {Runs(p[1], p[2], p[3], {1, 4, 7, 14}) \cup Columns(p[1], p[2]) :
              p \in {<<<<8, 66, 255>>, <<0, 247, 132>>, <<255, 57, 16>>>>,
                    <<Grey(49), Grey(57), Grey(66)>>}}

MCBc1Input == [texels : Varied, dithered : BOOLEAN] \cup [texels : Narrow, dithered : {FALSE}]

-----------------------------------------------------------------------------

NoBc4 ==
  /\ image = <<>> /\ useSNorm = FALSE /\ minMax = <<>> /\ mask = {} /\ own = <<>> /\ pending = <<>>
  /\ part = [t \in Thread |-> -1] /\ arrived = [t \in Thread |-> FALSE] /\ outputBytes = {}
NoBc1 == texels = <<>> /\ dithered = FALSE /\ ends = <<>> /\ indices = <<>> /\ refinements = 0 /\ stage = "idle"

NoDither == srcTex = <<>> /\ dstTexture = <<>> /\ errors = <<>> /\ equalSoFar = FALSE /\ finished = FALSE

MCInit ==
  \/ "bc4" \in Shaders /\ Init /\ NoBc1 /\ NoDither
  \/ "bc1" \in Shaders /\ NoBc4 /\ Bc1Init /\ NoDither
  \/ "dither555" \in Shaders /\ NoBc4 /\ NoBc1 /\ Dither555Init

MCNext ==
  \/ Next /\ UNCHANGED <<bc1Vars, dither555Vars>>
  \/ Bc1Next /\ UNCHANGED <<vars, dither555Vars>>
  \/ srcTex # <<>> /\ Dither555Next /\ UNCHANGED <<vars, bc1Vars>>
  \/ (Stored \/ finished) /\ UNCHANGED <<vars, bc1Vars, dither555Vars>>

MCSpec == MCInit /\ [][MCNext]_<<vars, bc1Vars, dither555Vars>>
=============================================================================
