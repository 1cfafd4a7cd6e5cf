----------------------------- MODULE MCReduction -----------------------------
(* Values of the constants of Reduction for model checking.                *)
EXTENDS Reduction

MCStride == [i \in 0 .. Iterations |-> 2 ^ i]
=============================================================================
