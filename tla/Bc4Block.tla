------------------------------- MODULE Bc4Block -------------------------------
(***************************************************************************)
(* The work group of bc4.glsl: four threads compress one channel of a 4x4  *)
(* block to two endpoints and sixteen 3-bit indices.  They exchange minima *)
(* and maxima through shared memory and merge their index bits there with  *)
(* atomics.  BC4, BC5 and the alpha of BC3 are such blocks.                *)
(*                                                                         *)
(* Blocks share no cell, so one block stands for all.  What a thread does  *)
(* between two barriers is one step, except for the two atomics.           *)
(***************************************************************************)
EXTENDS Integers, Sequences, FiniteSetsExt

CONSTANT
  Input   \* the blocks to compress: image takes pixel 4 * y + x to its 8-bit
          \* value, useSNorm is p_useSNorm

Thread == 0 .. 3
Pixel == 0 .. 15

ASSUME Bc4BlockAssumption ==
  Input \subseteq [image : [Pixel -> 0 .. 255], useSNorm : BOOLEAN]

VARIABLES
  image,      \* the channel of the source texture
  useSNorm,   \* the uniform
  minMax,     \* shared: g_minMaxValues
  mask,       \* shared: g_mask, the set bits of its two words as one of 64
  own,        \* the extremes in each thread's registers
  pending,    \* per thread, the sets of bits it has still to merge, by word
  part,       \* barriers each thread has left
  arrived,    \* whether it has reached the next one
  outputBytes \* what was stored to dstTexture

vars == <<image, useSNorm, minMax, mask, own, pending, part, arrived, outputBytes>>

-----------------------------------------------------------------------------
(* From a value to an index.                                               *)

(* Mutant: the bias of narrow blocks everywhere.                           *)
biasNarrow(minVal, maxVal) == maxVal - minVal - 1 - minVal * 7

(* Mutant: the bias of wide blocks everywhere.                             *)
biasWide(minVal, maxVal) == (maxVal - minVal) \div 2 + 2 - minVal * 7

bias(minVal, maxVal) ==
  LET dist == maxVal - minVal
  IN  (IF dist < 8 THEN dist - 1 ELSE dist \div 2 + 2) - minVal * 7

(* 0 at the minimum to 7 at the maximum, by three comparisons.             *)
scale(minVal, maxVal, v) ==
  LET dist == maxVal - minVal
      a  == v * 7 + bias(minVal, maxVal)
      i4 == IF a >= 4 * dist THEN 4 ELSE 0
      a4 == a - i4 * dist
      i2 == IF a4 >= 2 * dist THEN 2 ELSE 0
      a2 == a4 - i2 * dist
  IN  i4 + i2 + (IF a2 >= dist THEN 1 ELSE 0)

(* -ind & 7, then 0 and 1 change places.                                   *)
index(minVal, maxVal, v) ==
  LET ind == (8 - scale(minVal, maxVal, v)) % 8
  IN  CASE ind = 0 -> 1 [] ind = 1 -> 0 [] OTHER -> ind

(* The bits of the block that hold the index of a pixel.                   *)
weight == <<1, 2, 4>>
bitsOf(p, ind) == {16 + 3 * p + i : i \in {i \in 0 .. 2 : (ind \div weight[i + 1]) % 2 = 1}}

-----------------------------------------------------------------------------

PixelsOf(t) == {4 * t + x : x \in 0 .. 3}

Init ==
  /\ \E i \in Input : image = i.image /\ useSNorm = i.useSNorm
  \* Shared memory is not initialized: the mask may hold any old bits.
  /\ minMax = [t \in Thread |-> <<0, 0>>]
  /\ mask = 0 .. 63
  /\ own = [t \in Thread |-> <<0, 0>>]
  /\ pending = [t \in Thread |-> <<>>]
  /\ part = [t \in Thread |-> 0]
  /\ arrived = [t \in Thread |-> FALSE]
  /\ outputBytes = {}

Arrive(t) == arrived' = [arrived EXCEPT ![t] = TRUE]

(* Every thread clears the whole mask of its block.                        *)
Load(t) ==
  /\ part[t] = 0 /\ ~arrived[t]
  /\ LET values == {image[p] : p \in PixelsOf(t)}
         extremes == <<Min(values), Max(values)>>
     IN  own' = [own EXCEPT ![t] = extremes] /\ minMax' = [minMax EXCEPT ![t] = extremes]
  /\ mask' = {}
  /\ Arrive(t)
  /\ UNCHANGED <<image, useSNorm, pending, part, outputBytes>>

Select(t) ==
  /\ part[t] = 1 /\ ~arrived[t] /\ pending[t] = <<>>
  /\ LET minVal == Min({minMax[u][1] : u \in Thread})
         maxVal == Max({minMax[u][2] : u \in Thread})
         bits == UNION {bitsOf(p, index(minVal, maxVal, image[p])) : p \in PixelsOf(t)}
     IN  /\ own' = [own EXCEPT ![t] = <<minVal, maxVal>>]
         /\ pending' = [pending EXCEPT ![t] = <<bits \cap (0 .. 31), bits \ (0 .. 31)>>]
  /\ UNCHANGED <<image, useSNorm, minMax, mask, part, arrived, outputBytes>>

(* atomicOr of the first word, then of the second.                         *)
Merge(t) ==
  /\ part[t] = 1 /\ ~arrived[t] /\ pending[t] # <<>>
  /\ mask' = mask \cup pending[t][1]
  /\ pending' = [pending EXCEPT ![t] = Tail(@)]
  /\ IF Tail(pending[t]) = <<>> THEN Arrive(t) ELSE UNCHANGED arrived
  /\ UNCHANGED <<image, useSNorm, minMax, own, part, outputBytes>>

(* packSnorm4x8( value / 255 * 2 - 1 ), rounded to nearest: 127 * (2 * v - *)
(* 255) / 255 is never halfway between two integers.                       *)
packSnorm(v) == (254 * (2 * v - 255) + 255) \div 510

endpoint(v) == IF useSNorm THEN packSnorm(v) ELSE v

Store(t) ==
  /\ part[t] = 2 /\ ~arrived[t]
  /\ IF t = 0
     THEN outputBytes' = outputBytes \cup
            {[c0 |-> endpoint(own[t][2]), c1 |-> endpoint(own[t][1]), bits |-> mask]}
     ELSE UNCHANGED outputBytes
  /\ Arrive(t)
  /\ UNCHANGED <<image, useSNorm, minMax, mask, own, pending, part>>

(* Mutant: thread 0 stores without waiting for the others to merge.        *)
PassBarrierEarly(t) ==
  /\ arrived[t] /\ part[t] < 2
  /\ part[t] = 0 => \A u \in Thread : part[u] > part[t] \/ (part[u] = part[t] /\ arrived[u])
  /\ part' = [part EXCEPT ![t] = @ + 1]
  /\ arrived' = [arrived EXCEPT ![t] = FALSE]
  /\ UNCHANGED <<image, useSNorm, minMax, mask, own, pending, outputBytes>>

PassBarrier(t) ==
  /\ arrived[t] /\ part[t] < 2
  /\ \A u \in Thread : part[u] > part[t] \/ (part[u] = part[t] /\ arrived[u])
  /\ part' = [part EXCEPT ![t] = @ + 1]
  /\ arrived' = [arrived EXCEPT ![t] = FALSE]
  /\ UNCHANGED <<image, useSNorm, minMax, mask, own, pending, outputBytes>>

Done == \A t \in Thread : part[t] = 2 /\ arrived[t]
Terminating == Done /\ UNCHANGED vars

Next ==
  \/ \E t \in Thread : Load(t) \/ Select(t) \/ Merge(t) \/ Store(t) \/ PassBarrier(t)
  \/ Terminating

Spec == Init /\ [][Next]_vars

-----------------------------------------------------------------------------
(* The decoder.                                                            *)

IndexOf(b, p) ==
  LET bit(i) == IF 16 + 3 * p + i \in b.bits THEN weight[i + 1] ELSE 0
  IN  bit(0) + bit(1) + bit(2)

(* Eight values from c0 to c1 when c0 > c1; else six, and the two ends of  *)
(* the range.                                                              *)
Lowest == IF useSNorm THEN -127 ELSE 0
Highest == IF useSNorm THEN 127 ELSE 255

Palette(c0, c1) ==
  [i \in 0 .. 7 |->
     CASE i = 0 -> c0
       [] i = 1 -> c1
       [] i > 1 /\ c0 > c1 -> ((8 - i) * c0 + (i - 1) * c1) \div 7
       [] i \in 2 .. 5 /\ c0 <= c1 -> ((6 - i) * c0 + (i - 1) * c1) \div 5
       [] i = 6 /\ c0 <= c1 -> Lowest
       [] i = 7 /\ c0 <= c1 -> Highest]

Distance(a, b) == IF a < b THEN b - a ELSE a - b

-----------------------------------------------------------------------------

(* The block is stored once and holds the index every thread chose for     *)
(* each of its pixels, wherever its three bits fall: none lost in a merge, *)
(* none left over in the uninitialized mask.                               *)
IndicesAreMerged ==
  /\ \A b \in outputBytes : \A p \in Pixel :
       IndexOf(b, p) = index(Min({image[q] : q \in Pixel}), Max({image[q] : q \in Pixel}), image[p])
  /\ Done => \E b \in outputBytes : outputBytes = {b}

(* "given the choice of maxVal/minVal, these indices are optimal": a       *)
(* decoder that computes the palette in integers finds no nearer value for *)
(* any pixel.                                                              *)
IndicesAreOptimal ==
  ~useSNorm =>
    \A b \in outputBytes : \A p \in Pixel :
      LET palette == Palette(b.c0, b.c1)
      IN  \A i \in 0 .. 7 : Distance(palette[IndexOf(b, p)], image[p]) <= Distance(palette[i], image[p])

(* Whatever the rounding of the endpoints, their order selects the eight-  *)
(* value palette the indices were chosen for, or no pixel uses the indices *)
(* the six-value palette means otherwise.                                  *)
PaletteIsTheRightOne ==
  \A b \in outputBytes :
    b.c0 > b.c1 \/ \A p \in Pixel : IndexOf(b, p) \in {0, 1}
=============================================================================
