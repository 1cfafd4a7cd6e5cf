------------------------------ MODULE Reduction ------------------------------
(***************************************************************************)
(* The parallel reduction by which the threads of a work group agree on    *)
(* the best candidate of their block, in the three shaders that have one:  *)
(* eac.glsl, etc2_p.glsl and etc2_th.glsl.                                 *)
(*                                                                         *)
(* The threads run independently between barriers.  Each access to shared  *)
(* memory that another thread could observe is a step of its own.          *)
(***************************************************************************)
EXTENDS Integers

CONSTANTS
  N,           \* threads of the work group (of one block of it, in etc2_p)
  Iterations,  \* rounds of the reduction
  Stride,      \* 1u << i for each round i
  Kernel,      \* which of the shaders
  Error        \* the errors a candidate can have

ASSUME ReductionAssumption ==
  /\ N \in Nat \ {0} /\ Iterations \in Nat
  /\ Stride \in [0 .. Iterations -> Nat \ {0}]
  /\ Stride[0] = 1
  /\ \A i \in 1 .. Iterations : Stride[i] = 2 * Stride[i - 1]
  /\ Kernel \in {"eac", "etc2_p", "etc2_th"}
  /\ Error \subseteq Int
  \* 2^8 for 256, 2^4 for 16, 2^10 for 960: only etc2_th is no power of two.
  /\ N <= Stride[Iterations]
  /\ Kernel # "etc2_th" => \A i \in 0 .. Iterations : N % Stride[i] = 0

Thread == 0 .. N - 1

VARIABLES
  own,       \* the error of the candidate each thread found
  best,      \* eac: the register bestError of each thread
  error,     \* shared: g_bestError, g_bestCandidates[].x
  solution,  \* shared: g_bestSolution, g_bestCandidates[].y, as the thread that found it
  passed,    \* barriers each thread has left
  pc,        \* where each thread is
  images     \* what was stored to the images

vars == <<own, best, error, solution, passed, pc, images>>

Init ==
  /\ own \in [Thread -> Error]
  /\ best = own
  \* Shared memory is not initialized; nothing of it is read before Publish.
  /\ error = own
  /\ solution = [t \in Thread |-> t]
  /\ passed = [t \in Thread |-> 0]
  /\ pc = [t \in Thread |-> "search"]
  /\ images = {}

GoTo(t, label) == pc' = [pc EXCEPT ![t] = label]

(* In the loop a thread has left one barrier more than rounds.             *)
Active(t) == t % Stride[passed[t]] = 0

(* Mutant: no clamp to the last thread.                                    *)
PeerUnclamped(t) == t + Stride[passed[t] - 1]

(* The cell the thread compares its own with.                              *)
Peer(t) ==
  LET next == t + Stride[passed[t] - 1]
  IN  IF Kernel = "etc2_th" /\ next > N - 1 THEN N - 1 ELSE next

(* The thread stores its candidate in its own cell.                        *)
Publish(t) ==
  /\ pc[t] = "search"
  /\ error' = [error EXCEPT ![t] = own[t]]
  /\ solution' = [solution EXCEPT ![t] = t]
  /\ GoTo(t, "barrier")
  /\ UNCHANGED <<own, best, passed, images>>

Arrived(t) ==
  \A u \in Thread :
    passed[u] > passed[t] \/ (passed[u] = passed[t] /\ pc[u] = "barrier")

(* Mutant: the barrier at the end of a round is missing.                   *)
PassBarrierEarly(t) ==
  /\ pc[t] = "barrier"
  /\ passed[t] = 0 => Arrived(t)
  /\ passed' = [passed EXCEPT ![t] = @ + 1]
  /\ GoTo(t, IF passed[t] < Iterations THEN "compare" ELSE "finish")
  /\ UNCHANGED <<own, best, error, solution, images>>

(* Mutant: one round too few.                                              *)
PassBarrierOneRoundLess(t) ==
  /\ pc[t] = "barrier"
  /\ Arrived(t)
  /\ passed' = [passed EXCEPT ![t] = @ + 1]
  /\ GoTo(t, IF passed[t] < Iterations - 1 THEN "compare" ELSE "finish")
  /\ UNCHANGED <<own, best, error, solution, images>>

(* __sharedOnlyBarrier: the thread leaves once all have arrived.           *)
PassBarrier(t) ==
  /\ pc[t] = "barrier"
  /\ Arrived(t)
  /\ passed' = [passed EXCEPT ![t] = @ + 1]
  /\ GoTo(t, IF passed[t] < Iterations THEN "compare" ELSE "finish")
  /\ UNCHANGED <<own, best, error, solution, images>>

(* eac compares with its register, the others with their cell.             *)
Current(t) == IF Kernel = "eac" THEN best[t] ELSE error[t]

Compare(t) ==
  /\ pc[t] = "compare"
  /\ GoTo(t, IF Active(t) /\ error[Peer(t)] < Current(t) THEN "copyError" ELSE "barrier")
  /\ UNCHANGED <<own, best, error, solution, passed, images>>

CopyError(t) ==
  /\ pc[t] = "copyError"
  /\ error' = [error EXCEPT ![t] = error[Peer(t)]]
  /\ best' = [best EXCEPT ![t] = error[Peer(t)]]
  /\ GoTo(t, "copySolution")
  /\ UNCHANGED <<own, solution, passed, images>>

CopySolution(t) ==
  /\ pc[t] = "copySolution"
  /\ solution' = [solution EXCEPT ![t] = solution[Peer(t)]]
  /\ GoTo(t, "barrier")
  /\ UNCHANGED <<own, best, error, passed, images>>

(* eac's thread 0 packs the solution; elsewhere the thread that found it   *)
(* stores its own candidate.                                               *)
Winner(t) == t = IF Kernel = "eac" THEN 0 ELSE solution[0]

Block(t) == [image |-> "dstTexture", block |-> t]
BlockError(e) == [image |-> "dstError", error |-> e]

Stores(t) ==
  CASE Kernel = "eac"     -> {Block(solution[0])}
    [] Kernel = "etc2_p"  -> {Block(t), BlockError(own[t])}
    [] Kernel = "etc2_th" -> {Block(t), BlockError(error[0])}

Finish(t) ==
  /\ pc[t] = "finish"
  /\ images' = images \cup (IF Winner(t) THEN Stores(t) ELSE {})
  /\ GoTo(t, "done")
  /\ UNCHANGED <<own, best, error, solution, passed>>

Step(t) ==
  \/ Publish(t) \/ PassBarrier(t) \/ Compare(t)
  \/ CopyError(t) \/ CopySolution(t) \/ Finish(t)

Terminating == (\A t \in Thread : pc[t] = "done") /\ UNCHANGED vars

Next == (\E t \in Thread : Step(t)) \/ Terminating

(* The GPU keeps running every thread of a work group it has started: the  *)
(* shaders could not use barrier() otherwise.                              *)
Fairness == \A t \in Thread : WF_vars(Step(t))

Spec == Init /\ [][Next]_vars /\ Fairness

-----------------------------------------------------------------------------

Label == {"search", "barrier", "compare", "copyError", "copySolution", "finish", "done"}

(* The types of the shared arrays, registers and images.                   *)
TypeOK ==
  /\ own \in [Thread -> Error]
  /\ best \in [Thread -> Error] /\ error \in [Thread -> Error]
  /\ solution \in [Thread -> Thread]
  /\ passed \in [Thread -> 0 .. Iterations + 1]
  /\ pc \in [Thread -> Label]
  /\ images \subseteq [image : {"dstTexture"}, block : Thread]
                      \cup [image : {"dstError"}, error : Error]

(* The cells of shared memory the thread's next step touches.              *)
Written(t) ==
  CASE pc[t] = "search"       -> {<<"error", t>>, <<"solution", t>>}
    [] pc[t] = "copyError"    -> {<<"error", t>>}
    [] pc[t] = "copySolution" -> {<<"solution", t>>}
    [] OTHER                  -> {}

Read(t) ==
  CASE pc[t] = "compare" /\ Active(t) -> {<<"error", t>>, <<"error", Peer(t)>>}
    [] pc[t] = "copyError"    -> {<<"error", Peer(t)>>}
    [] pc[t] = "copySolution" -> {<<"solution", Peer(t)>>}
    [] pc[t] = "finish"       -> {<<"error", 0>>, <<"solution", 0>>}
    [] OTHER                  -> {}

(* No thread writes a cell of shared memory another may read or write      *)
(* before their next common barrier (the loops have one barrier a round).  *)
NoDataRace ==
  \A t, u \in Thread : t # u => Written(t) \cap (Read(u) \cup Written(u)) = {}

(* The peer of a thread that compares is a cell of the shared array (960   *)
(* threads are no power of two: "nextThreadId can overflow").              *)
PeerExists ==
  \A t \in Thread : pc[t] = "compare" /\ Active(t) => Peer(t) \in Thread

StoredBy(t, e) ==
  {Block(t)} \cup (IF Kernel = "eac" THEN {} ELSE {BlockError(e)})

Abstract == INSTANCE Selection WITH LessEq <- <=

(* The reduction implements the selection: the images get one candidate    *)
(* of least error, with its error, once.                                   *)
SelectsTheBest == Abstract!Spec
=============================================================================
