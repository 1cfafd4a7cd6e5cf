------------------------------ MODULE Etc1Block ------------------------------
(***************************************************************************)
(* The work group of etc1.glsl.  Four threads share a 4x4 block, each with *)
(* its own combination of flip and useColor4; they exchange pixels, flags  *)
(* and errors through shared memory.                                       *)
(*                                                                         *)
(* The shared array g_srcPixelsBlock is used twice.  It first holds two    *)
(* copies of the 16 pixels, 32 cells to a block; later the errors of all   *)
(* the threads, 4 cells to a block, which overwrite pixels of OTHER        *)
(* blocks.                                                                 *)
(*                                                                         *)
(* What a thread does between two barriers is one step.  That loses        *)
(* nothing as long as NoDataRace holds.                                    *)
(***************************************************************************)
EXTENDS Integers, FiniteSets, Etc1Constants

CONSTANTS
  Blocks,    \* blocks in the work group (16 in the shader)
  Quality,   \* p_quality
  Input      \* the images, with what the search will find of each thread

Block == 0 .. Blocks - 1
Thread == Block \X (0 .. 3)   \* the block and blockThreadId

(* image[b][4 * y + x] is a colour, found[t] the error of the two          *)
(* subblocks.  Only the threads of differential mode can come back with    *)
(* nothing: their second subblock is constrained by the first.             *)
ASSUME Etc1BlockAssumption ==
  /\ Blocks \in Nat \ {0} /\ Quality \in 0 .. 2
  /\ \A i \in Input :
       /\ i.image \in [Block -> [0 .. 15 -> Nat]]
       /\ i.found \in [Thread -> 0 .. FLT_MAX]
       /\ \A t \in Thread : t[2] >= 2 => i.found[t] < FLT_MAX

VARIABLES
  input,    \* the source texture and the outcome of each search
  src,      \* shared: g_srcPixelsBlock
  equal,    \* shared: g_allPixelsEqual
  allEqual, \* the register bAllColoursEqual of each thread
  packed,   \* the subblocks each thread gave to pack_etc1_block_solid_color_constrained
  part,     \* which part of main each thread is in: barriers it has left
  arrived,  \* whether it has reached the barrier that ends the part
  stored    \* what was stored to each block of dstTexture

shared == <<src, equal>>
vars == <<input, src, equal, allEqual, packed, part, arrived, stored>>

bFlip(t) == t[2] % 2 = 1
bUseColor4(t) == t[2] >= 2

blockStart(t) == 32 * t[1]
pixelsEqualBlockStart(t) == 4 * t[1]
gl_LocalInvocationIndex(t) == 4 * t[1] + t[2]

subblockStart(t, flip, subblock) ==
  blockStart(t) + (IF flip THEN 16 ELSE 0) + 8 * subblock

Cells(first, count) == first .. first + count - 1

-----------------------------------------------------------------------------
(* The cells of the shared arrays each part of main reads and writes.      *)

(* Where the thread, which loads row blockThreadId, puts its pixel x.      *)
Vertical(t, x) == blockStart(t) + 4 * x + t[2]
Horizontal(t, x) == blockStart(t) + 16 + 4 * t[2] + x

SrcRead(t) ==
  CASE part[t] = 1 /\ t[2] = 0 -> Cells(blockStart(t) + 1, 3)
    [] part[t] = 3 /\ ~allEqual[t] -> Cells(subblockStart(t, t[2] >= 2, t[2] % 2), 8)
    [] part[t] = 4 /\ ~allEqual[t] -> Cells(subblockStart(t, bFlip(t), 0), 16)
    [] part[t] = 6 /\ t[2] = 0 -> Cells(gl_LocalInvocationIndex(t) + 1, 3)
    [] part[t] = 7 -> {pixelsEqualBlockStart(t)}
    [] OTHER -> {}

SrcWritten(t) ==
  CASE part[t] = 0 -> {Vertical(t, x) : x \in 0 .. 3} \cup {Horizontal(t, x) : x \in 0 .. 3}
    [] part[t] = 5 -> {gl_LocalInvocationIndex(t)}
    [] part[t] = 6 /\ t[2] = 0 -> {gl_LocalInvocationIndex(t)}
    [] OTHER -> {}

EqualRead(t) ==
  CASE part[t] = 1 /\ t[2] = 0 -> Cells(pixelsEqualBlockStart(t) + 1, 3)
    [] part[t] = 2 -> {pixelsEqualBlockStart(t)}
    [] part[t] = 4 /\ ~allEqual[t] ->
         Cells(pixelsEqualBlockStart(t) + (IF bFlip(t) THEN 2 ELSE 0), 2)
    [] OTHER -> {}

EqualWritten(t) ==
  CASE part[t] = 0 -> {pixelsEqualBlockStart(t) + t[2]}
    [] part[t] = 1 /\ t[2] = 0 -> {pixelsEqualBlockStart(t)}
    [] part[t] = 3 /\ ~allEqual[t] -> {pixelsEqualBlockStart(t) + t[2]}
    [] OTHER -> {}

-----------------------------------------------------------------------------

Init ==
  /\ input \in Input
  \* Shared memory is not initialized; nothing of it is read before Load.
  /\ src = [n \in Cells(0, 32 * Blocks) |-> 0]
  /\ equal = [n \in Cells(0, 4 * Blocks) |-> FALSE]
  /\ allEqual = [t \in Thread |-> FALSE]
  /\ packed = [t \in Thread |-> {}]
  /\ part = [t \in Thread |-> 0]
  /\ arrived = [t \in Thread |-> FALSE]
  /\ stored = [b \in Block |-> {}]

InPart(t, n) == part[t] = n /\ ~arrived[t] /\ arrived' = [arrived EXCEPT ![t] = TRUE]

pixel(t, x) == input.image[t[1]][4 * t[2] + x]

Load(t) ==
  /\ InPart(t, 0)
  /\ src' = [n \in DOMAIN src |->
               IF \E x \in 0 .. 3 : n \in {Vertical(t, x), Horizontal(t, x)}
               THEN pixel(t, CHOOSE x \in 0 .. 3 : n \in {Vertical(t, x), Horizontal(t, x)})
               ELSE src[n]]
  /\ equal' = [equal EXCEPT ![pixelsEqualBlockStart(t) + t[2]] =
                 \A x \in 1 .. 3 : pixel(t, x) = pixel(t, 0)]
  /\ UNCHANGED <<input, allEqual, packed, part, stored>>

(* Thread 0 finishes checking if all pixels are equal.                     *)
CheckBlock(t) ==
  /\ InPart(t, 1)
  /\ IF t[2] = 0
     THEN equal' = [equal EXCEPT ![pixelsEqualBlockStart(t)] =
            @ /\ \A i \in 1 .. 3 : /\ equal[pixelsEqualBlockStart(t) + i]
                                   /\ src[blockStart(t) + i] = pixel(t, 0)]
     ELSE UNCHANGED equal
  /\ UNCHANGED <<input, src, allEqual, packed, part, stored>>

Store(t, kind) == stored' = [stored EXCEPT ![t[1]] = @ \cup {[by |-> t[2], kind |-> kind]}]

(* pack_etc1_block_solid_color stores the block at once.                   *)
PackSolid(t) ==
  /\ InPart(t, 2)
  /\ allEqual' = [allEqual EXCEPT ![t] = equal[pixelsEqualBlockStart(t)]]
  /\ IF equal[pixelsEqualBlockStart(t)] /\ t[2] = 0 THEN Store(t, "solid") ELSE UNCHANGED stored
  /\ UNCHANGED <<input, src, equal, packed, part>>

(* Mutant: the threads take the subblocks in another order.                *)
CheckSubblockTransposed(t) ==
  /\ InPart(t, 3)
  /\ LET first == subblockStart(t, bFlip(t), t[2] \div 2)
     IN  IF ~allEqual[t]
         THEN equal' = [equal EXCEPT ![pixelsEqualBlockStart(t) + t[2]] =
                \A n \in Cells(first, 8) : src[n] = src[first]]
         ELSE UNCHANGED equal
  /\ UNCHANGED <<input, src, allEqual, packed, part, stored>>

CheckSubblock(t) ==
  /\ InPart(t, 3)
  /\ LET first == subblockStart(t, t[2] >= 2, t[2] % 2)
     IN  IF ~allEqual[t]
         THEN equal' = [equal EXCEPT ![pixelsEqualBlockStart(t) + t[2]] =
                \A n \in Cells(first, 8) : src[n] = src[first]]
         ELSE UNCHANGED equal
  /\ UNCHANGED <<input, src, allEqual, packed, part, stored>>

(* The search itself, a function of the pixels, is Etc1Search.             *)
Search(t) ==
  /\ InPart(t, 4)
  /\ packed' = [packed EXCEPT ![t] =
       {s \in 0 .. 1 : /\ ~allEqual[t] /\ Quality >= cMediumQuality
                       /\ s > 0 \/ bUseColor4(t)
                       /\ equal[pixelsEqualBlockStart(t) + s + (IF bFlip(t) THEN 2 ELSE 0)]}]
  /\ UNCHANGED <<input, src, equal, allEqual, part, stored>>

error(t) == IF allEqual[t] THEN FLT_MAX ELSE input.found[t]

StoreError(t) ==
  /\ InPart(t, 5)
  /\ src' = [src EXCEPT ![gl_LocalInvocationIndex(t)] = error(t)]
  /\ UNCHANGED <<input, equal, allEqual, packed, part, stored>>

(* Mutant: the loop leaves out the last thread.                            *)
ChooseBestOfThree(t) ==
  /\ InPart(t, 6)
  /\ LET other(i) == src[gl_LocalInvocationIndex(t) + i]
     IN  IF t[2] = 0
         THEN \E best \in 0 .. 2 :
                /\ \A i \in 0 .. 2 : other(best) < other(i) \/ (other(best) = other(i) /\ best <= i)
                /\ src' = [src EXCEPT ![gl_LocalInvocationIndex(t)] = best]
         ELSE UNCHANGED src
  /\ UNCHANGED <<input, equal, allEqual, packed, part, stored>>

(* Thread 0 takes the first of least error; its own error never left its   *)
(* registers but equals the cell.                                          *)
ChooseBest(t) ==
  /\ InPart(t, 6)
  /\ LET other(i) == src[gl_LocalInvocationIndex(t) + i]
     IN  IF t[2] = 0
         THEN \E best \in 0 .. 3 :
                /\ \A i \in 0 .. 3 : other(best) < other(i) \/ (other(best) = other(i) /\ best <= i)
                /\ src' = [src EXCEPT ![gl_LocalInvocationIndex(t)] = best]
         ELSE UNCHANGED src
  /\ UNCHANGED <<input, equal, allEqual, packed, part, stored>>

Finish(t) ==
  /\ InPart(t, 7)
  /\ IF src[pixelsEqualBlockStart(t)] = t[2] /\ ~allEqual[t]
     THEN Store(t, "subblocks") ELSE UNCHANGED stored
  /\ UNCHANGED <<input, src, equal, allEqual, packed, part>>

(* Mutant: no barrier after the search, before the pixels are overwritten. *)
PassBarrierAfterSearch(t) ==
  /\ arrived[t] /\ part[t] < 7
  /\ part[t] # 4 => \A u \in Thread : part[u] > part[t] \/ (part[u] = part[t] /\ arrived[u])
  /\ part' = [part EXCEPT ![t] = @ + 1]
  /\ arrived' = [arrived EXCEPT ![t] = FALSE]
  /\ UNCHANGED <<input, src, equal, allEqual, packed, stored>>

(* A thread leaves a barrier once the whole work group has arrived.        *)
PassBarrier(t) ==
  /\ arrived[t] /\ part[t] < 7
  /\ \A u \in Thread : part[u] > part[t] \/ (part[u] = part[t] /\ arrived[u])
  /\ part' = [part EXCEPT ![t] = @ + 1]
  /\ arrived' = [arrived EXCEPT ![t] = FALSE]
  /\ UNCHANGED <<input, src, equal, allEqual, packed, stored>>

Done == \A t \in Thread : part[t] = 7 /\ arrived[t]
Terminating == Done /\ UNCHANGED vars

Next ==
  \/ \E t \in Thread :
       \/ Load(t) \/ CheckBlock(t) \/ PackSolid(t) \/ CheckSubblock(t) \/ Search(t)
       \/ StoreError(t) \/ ChooseBest(t) \/ Finish(t) \/ PassBarrier(t)
  \/ Terminating

Spec == Init /\ [][Next]_vars

-----------------------------------------------------------------------------

(* No two threads of the work group, of the same block or of two, touch a  *)
(* cell of shared memory between the same two barriers unless both only    *)
(* read: the reuse of g_srcPixelsBlock for errors, over the pixels of      *)
(* other blocks, is safe.                                                  *)
NoDataRace ==
  \A t, u \in Thread :
    t # u /\ ~arrived[t] /\ ~arrived[u] =>
      /\ SrcWritten(t) \cap (SrcRead(u) \cup SrcWritten(u)) = {}
      /\ EqualWritten(t) \cap (EqualRead(u) \cup EqualWritten(u)) = {}

Uniform(b) == \A p \in 0 .. 15 : input.image[b][p] = input.image[b][0]

IsBest(t) ==
  /\ input.found[t] < FLT_MAX
  /\ \A i \in 0 .. 3 : input.found[t] <= input.found[<<t[1], i>>]

(* Every block is stored exactly once, whatever its neighbours are: a      *)
(* block of one colour by the solid packer, any other by a thread of least *)
(* error that found something.                                             *)
BlockIsStoredOnce ==
  \A b \in Block :
    /\ Cardinality(stored[b]) <= 1
    /\ Done => stored[b] # {}
    /\ \A s \in stored[b] :
         IF Uniform(b) THEN s.kind = "solid"
                       ELSE s.kind = "subblocks" /\ IsBest(<<b, s.by>>)

(* The pixels of a subblock: rows when flipped, columns when not.          *)
Subblock(flip, s) ==
  {p \in 0 .. 15 : (IF flip THEN p \div 4 ELSE p % 4) \in {2 * s, 2 * s + 1}}

(* The packer for subblocks of one colour gets just those: the flag a      *)
(* thread reads was computed by another thread, for this subblock.         *)
PackedIsUniform ==
  \A t \in Thread : \A s \in 0 .. 1 :
    part[t] >= 5 /\ ~allEqual[t] /\ Quality >= cMediumQuality /\ (s > 0 \/ bUseColor4(t)) =>
      (s \in packed[t] <=>
         \A p, q \in Subblock(bFlip(t), s) : input.image[t[1]][p] = input.image[t[1]][q])
=============================================================================
