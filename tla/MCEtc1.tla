------------------------------- MODULE MCEtc1 -------------------------------
(***************************************************************************)
(* The work group of etc1.glsl, and the search of one of its threads.  A   *)
(* behaviour is of one of the two, and the other is idle.                  *)
(*                                                                         *)
(* For the work group, two blocks whose rows, columns or halves share      *)
(* colours, and errors whose least is any thread's, or that of two         *)
(* threads.                                                                *)
(***************************************************************************)
EXTENDS Etc1Block, Etc1Search

Flat == [p \in 0 .. 15 |-> 7]
Rows == [p \in 0 .. 15 |-> p \div 4]
Columns == [p \in 0 .. 15 |-> p % 4]
TopHalf == [p \in 0 .. 15 |-> IF p < 8 THEN 1 ELSE p]
RightHalf == [p \in 0 .. 15 |-> IF p % 4 >= 2 THEN 1 ELSE p]
LastDiffers == [p \in 0 .. 15 |-> IF p = 15 THEN 2 ELSE 1]

Errors(a, b, c, d) == [i \in 0 .. 3 |-> <<a, b, c, d>>[i + 1]]

Falling == Errors(9, 8, 7, 6)           \* the last thread
Rising == Errors(3, 4, 5, 6)            \* the first
Tie == Errors(8, 5, 5, 8)               \* the two in the middle
OnlyFree == Errors(FLT_MAX, FLT_MAX, 7, 7)  \* differential mode finds nothing
OneLost == Errors(FLT_MAX, 8, 9, 8)

OfBlocks(first, errors1, second, errors2) ==
  [image |-> [b \in Block |-> <<first, second>>[b + 1]],
   found |-> [t \in Thread |-> (<<errors1, errors2>>[t[1] + 1])[t[2]]]]

TwoBlocks ==
  {OfBlocks(Flat, Rising, Rows, Falling), OfBlocks(Rows, OnlyFree, Flat, Tie),
   OfBlocks(TopHalf, Tie, RightHalf, OneLost), OfBlocks(RightHalf, Falling, TopHalf, Rising),
   OfBlocks(LastDiffers, OneLost, Columns, OnlyFree), OfBlocks(Columns, Rising, LastDiffers, Tie),
   OfBlocks(Rows, Falling, Rows, OneLost), OfBlocks(Flat, Falling, Flat, Tie)}

-----------------------------------------------------------------------------
(* For the search, subblocks whose average is in a corner, at an edge or   *)
(* in the middle of the colours, the best colour near, far or at the       *)
(* average.                                                                *)

CONSTANTS Level   \* the values a channel of an input takes, by quality

Corners(q) == {<<l, l, m>> : l \in Level[q], m \in Level[q]}
LevelByQuality == [q \in 0 .. 2 |-> IF q = cHighQuality THEN {0, 7} ELSE {0, 3, 7}]

OfQuality(q) ==
  [avgColourLS : Corners(q), best : Corners(q), bUseColor4 : BOOLEAN, baseColor5 : {<<2, 3, 2>>},
   subblockIdx : 0 .. 1, uniform : {FALSE}, quality : {q}]
  \cup [avgColourLS : {<<2, 2, 3>>}, best : {<<0, 7, 1>>}, bUseColor4 : BOOLEAN,
        baseColor5 : {<<0, 7, 7>>}, subblockIdx : {1}, uniform : {TRUE}, quality : {q}]

MCSubblocks == UNION {OfQuality(q) : q \in 0 .. 2}

MCRefined == {<<2, 3, 2>>, <<4, 4, 4>>, <<0, 7, 0>>}

-----------------------------------------------------------------------------

NoWorkGroup ==
  /\ input = <<>> /\ src = <<>> /\ equal = <<>> /\ allEqual = <<>> /\ packed = <<>> /\ stored = [b \in Block |-> {}]
  /\ part = [t \in Thread |-> -1] /\ arrived = [t \in Thread |-> TRUE]

NoSearch ==
  /\ sought = <<>> /\ pSelectors = Zero /\ applied = <<>> /\ scan = <<>> /\ rgb = Zero /\ trial = 0
  /\ bestSolution = [error |-> FLT_MAX] /\ tried = {} /\ pc = "idle"

MCInit ==
  \/ Init /\ NoSearch
  \/ NoWorkGroup /\ SearchInit

MCNext ==
  \/ pc = "idle" /\ Next /\ UNCHANGED searchVars
  \/ pc # "idle" /\ SearchNext /\ UNCHANGED vars

MCSpec == MCInit /\ [][MCNext]_<<vars, searchVars>>
=============================================================================
