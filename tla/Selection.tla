------------------------------ MODULE Selection ------------------------------
(***************************************************************************)
(* What the search shaders promise of a 4x4 block: of the candidates the   *)
(* threads of its work group found, the images get one with least error,   *)
(* and get it once.                                                        *)
(***************************************************************************)
CONSTANTS Thread,    \* the candidates, one per thread
          LessEq(_, _),
          StoredBy(_, _)  \* what the images hold of a candidate

VARIABLES own,     \* the error of each thread's candidate
          images   \* what was stored

Best(t) == \A u \in Thread : LessEq(own[t], own[u])

Init == images = {}

Select ==
  /\ images = {}
  /\ \E t \in Thread : Best(t) /\ images' = StoredBy(t, own[t])
  /\ UNCHANGED own

Spec == Init /\ [][Select]_<<own, images>> /\ WF_<<own, images>>(Select)
=============================================================================
