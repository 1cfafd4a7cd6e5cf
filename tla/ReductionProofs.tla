--------------------------- MODULE ReductionProofs ---------------------------
(***************************************************************************)
(* The parallel reduction is right for every number of threads and every   *)
(* error: no data race, no cell outside the shared array, and one best     *)
(* candidate stored once.                                                  *)
(*                                                                         *)
(* The argument is Covers: a thread whose index is a multiple of 2^l holds *)
(* the least error of the 2^l threads from its own on once it has left     *)
(* round l behind; thread 0 ends up with the least of all.                 *)
(***************************************************************************)
EXTENDS Reduction, TLAPS

-----------------------------------------------------------------------------
(* Multiples of strides.                                                   *)

(* The only multiple of s in 0 .. s - 1 is 0, so a remainder is what the   *)
(* definition of division says.                                            *)
LEMMA Remainder ==
  ASSUME NEW s \in Nat \ {0}, NEW q \in Int, NEW r \in 0 .. s - 1
  PROVE  (s * q + r) % s = r
  BY SMT

(* A multiple is a product.                                                *)
LEMMA Quotient ==
  ASSUME NEW s \in Nat \ {0}, NEW t \in Nat, t % s = 0
  PROVE  \E q \in Nat : t = s * q
<1>1. t = s * (t \div s) + (t % s) /\ t \div s \in Int
  BY SMT
<1>2. t \div s >= 0
  <2>1. SUFFICES ASSUME t \div s <= -1 PROVE FALSE
    BY <1>1
  <2>2. s * (t \div s) <= -s
    BY <1>1, <2>1, SMT
  <2> QED BY <1>1, <2>2
<1> QED BY <1>1, <1>2

(* (t & mask) = 0 in one round: t is a multiple of the round's stride, and *)
(* so is its peer, but the peer is not active in this round.               *)
LEMMA Halving ==
  ASSUME NEW s \in Nat \ {0}, NEW t \in Nat, t % (2 * s) = 0
  PROVE  t % s = 0 /\ (t + s) % s = 0 /\ (t + s) % (2 * s) # 0
<1>1. PICK q \in Nat : t = (2 * s) * q
  BY Quotient
<1>2. t = s * (2 * q) + 0 /\ t + s = s * (2 * q + 1) + 0 /\ t + s = (2 * s) * q + s
  BY <1>1, SMT
<1>3. (s * (2 * q) + 0) % s = 0 /\ (s * (2 * q + 1) + 0) % s = 0
  <2>1. 0 \in 0 .. s - 1 /\ 2 * q \in Int /\ 2 * q + 1 \in Int
    OBVIOUS
  <2> QED BY <2>1, Remainder
<1>4. ((2 * s) * q + s) % (2 * s) = s
  <2>1. s \in 0 .. 2 * s - 1 /\ 2 * s \in Nat \ {0} /\ q \in Int
    OBVIOUS
  <2> QED BY <2>1, Remainder
<1> QED BY <1>2, <1>3, <1>4

(* Below a multiple n of m the next multiple of m is at most n.            *)
LEMMA NextMultiple ==
  ASSUME NEW m \in Nat \ {0}, NEW n \in Nat, NEW t \in Nat,
         n % m = 0, t % m = 0, t < n
  PROVE  t + m <= n
<1>1. PICK p \in Nat : n = m * p
  BY Quotient
<1>2. PICK q \in Nat : t = m * q
  BY Quotient
<1>3. q < p
  <2>1. SUFFICES ASSUME q >= p PROVE FALSE
    OBVIOUS
  <2>2. m * q >= m * p
    BY <2>1, SMT
  <2> QED BY <1>1, <1>2, <2>2
<1>4. m * (q + 1) <= m * p
  BY <1>3, SMT
<1>5. m * (q + 1) = m * q + m
  BY SMT
<1> QED BY <1>1, <1>2, <1>4, <1>5

-----------------------------------------------------------------------------
(* The inductive invariant.                                                *)

InLoop == {"compare", "copyError", "copySolution"}

(* A thread's place in the code agrees with the barriers it has left.      *)
InPlace ==
  \A t \in Thread :
    /\ pc[t] = "search" => passed[t] = 0
    /\ pc[t] \in InLoop => passed[t] \in 1 .. Iterations
    /\ pc[t] = "barrier" => passed[t] \in 0 .. Iterations
    /\ pc[t] \in {"finish", "done"} => passed[t] = Iterations + 1

(* No thread is more than one barrier ahead of another.                    *)
Together ==
  \A t, u \in Thread :
    passed[t] > passed[u] => passed[t] = passed[u] + 1 /\ pc[u] = "barrier"

(* Only an active thread copies, never from itself, and until it has       *)
(* copied the error its peer's is smaller.                                 *)
Copying ==
  \A t \in Thread :
    /\ pc[t] \in {"copyError", "copySolution"} => Active(t) /\ Peer(t) # t
    /\ pc[t] = "copyError" => error[Peer(t)] < error[t]

(* The register of eac is the shared cell.                                 *)
Register == \A t \in Thread : best[t] = error[t]

Unpublished ==
  \A t \in Thread : pc[t] = "search" => error[t] = own[t] /\ solution[t] = t

(* A cell's error is that of the candidate it names.                       *)
ErrorOfSolution ==
  \A t \in Thread :
    error[t] = own[IF pc[t] = "copySolution" THEN solution[Peer(t)] ELSE solution[t]]

(* The round whose work the thread's cell reflects.                        *)
Level(t) == IF pc[t] = "barrier" THEN passed[t] ELSE passed[t] - 1

Covers ==
  \A t, u \in Thread : \A l \in 0 .. Level(t) :
    t % Stride[l] = 0 /\ t <= u /\ u < t + Stride[l] => error[t] <= own[u]

(* The images stay empty until a winner is done.                           *)
StoredOnce ==
  images = {} \/ \E t \in Thread : pc[t] = "done" /\ Winner(t)

Inv ==
  /\ TypeOK /\ InPlace /\ Together /\ Copying
  /\ Register /\ Unpublished /\ ErrorOfSolution /\ Covers /\ StoredOnce

-----------------------------------------------------------------------------
(* What the invariant says of a thread in the loop and of its peer.        *)

(* A round's stride is twice the one before it.                            *)
LEMMA Strides ==
  ASSUME NEW i \in 1 .. Iterations
  PROVE  /\ Stride[i] \in Nat \ {0} /\ Stride[i - 1] \in Nat \ {0}
         /\ Stride[i] = 2 * Stride[i - 1]
<1>1. i \in 0 .. Iterations /\ i - 1 \in 0 .. Iterations
  BY ReductionAssumption
<1> QED BY <1>1, ReductionAssumption

(* Thread indices are naturals, and 0 is one.                              *)
LEMMA Threads ==
  /\ Thread \subseteq Nat /\ 0 \in Thread /\ N - 1 \in Thread /\ N \in Nat \ {0}
  BY ReductionAssumption DEF Thread

(* The peer of an active thread exists, lies within the stride above it,   *)
(* and is not active itself unless it is the thread (the clamped case).    *)
LEMMA PeerOfActive ==
  ASSUME TypeOK, InPlace, NEW t \in Thread, pc[t] \in InLoop, Active(t)
  PROVE  /\ Peer(t) \in Thread
         /\ Peer(t) # t => Peer(t) % Stride[passed[t]] # 0
         /\ Peer(t) = t + Stride[passed[t] - 1] \/ t + Stride[passed[t] - 1] > N - 1
<1> DEFINE i == passed[t]
           s == Stride[i - 1]
<1>1. i \in 1 .. Iterations /\ t \in Nat /\ t < N
  BY ReductionAssumption DEF InPlace, Thread
<1>2. s \in Nat \ {0} /\ Stride[i] = 2 * s /\ Stride[i] \in Nat \ {0}
  BY <1>1, Strides
<1>3. t % (2 * s) = 0
  BY <1>2 DEF Active
<1>4. Peer(t) = IF Kernel = "etc2_th" /\ t + s > N - 1 THEN N - 1 ELSE t + s
  BY DEF Peer
<1> HIDE DEF i, s
<1>5. Kernel # "etc2_th" => t + s <= N - 1
  <2>1. SUFFICES ASSUME Kernel # "etc2_th" PROVE t + s <= N - 1
    OBVIOUS
  <2>2. N % (2 * s) = 0
    BY <1>1, <1>2, <2>1, ReductionAssumption
  <2>3. t + 2 * s <= N
    BY <1>1, <1>2, <1>3, <2>2, Threads, NextMultiple
  <2> QED BY <1>1, <1>2, <2>3, Threads
<1>6. Peer(t) \in 0 .. N - 1
  BY <1>1, <1>2, <1>4, <1>5, Threads, SMT
<1>7. ASSUME Peer(t) # t PROVE Peer(t) % (2 * s) # 0
  <2>1. PICK q \in Nat : t = (2 * s) * q
    <3>1. 2 * s \in Nat \ {0}
      BY <1>2
    <3> QED BY <3>1, <1>1, <1>3, Quotient
  <2> DEFINE r == Peer(t) - t
  <2>2. r \in 1 .. 2 * s - 1
    BY <1>1, <1>2, <1>4, <1>7, Threads, SMT
  <2>3. Peer(t) = (2 * s) * q + r
    BY <1>1, <1>6, <2>1, <2>2, Threads, SMT
  <2>4. 2 * s \in Nat \ {0} /\ q \in Int /\ r \in 0 .. 2 * s - 1 /\ r # 0
    BY <1>2, <2>2
  <2> HIDE DEF r
  <2>5. ((2 * s) * q + r) % (2 * s) = r
    BY <2>4, Remainder
  <2> QED BY <2>3, <2>4, <2>5
<1>8. Peer(t) = t + s \/ t + s > N - 1
  BY <1>4
<1>9. Peer(t) \in Thread
  BY <1>6 DEF Thread
<1> QED BY <1>2, <1>7, <1>8, <1>9 DEF i, s

(* Two threads in the loop are in the same round.                          *)
LEMMA SameRound ==
  ASSUME TypeOK, Together, NEW t \in Thread, NEW u \in Thread,
         pc[t] # "barrier", pc[u] # "barrier"
  PROVE  passed[t] = passed[u]
<1>1. passed[t] \in Int /\ passed[u] \in Int
  BY DEF TypeOK
<1>2. ~(passed[t] > passed[u]) /\ ~(passed[u] > passed[t])
  BY DEF Together
<1> QED BY <1>1, <1>2

(* No other thread has its own cell as the peer of an active thread, or    *)
(* the cell of an active thread as its peer.                               *)
LEMMA PeersDiffer ==
  ASSUME TypeOK, InPlace, Together, NEW t \in Thread, NEW u \in Thread, t # u,
         pc[t] \in InLoop, pc[u] \in InLoop, Active(t), Active(u)
  PROVE  Peer(u) # t
<1>1. passed[t] = passed[u]
  BY SameRound DEF InLoop
<1>2. t % Stride[passed[u]] = 0
  BY <1>1 DEF Active
<1> QED BY <1>2, PeerOfActive

(* After the first barrier every thread has published.                     *)
LEMMA NotBoth ==
  ASSUME TypeOK, InPlace, Together, NEW t \in Thread, NEW u \in Thread,
         pc[t] = "search", pc[u] \notin {"search", "barrier"}
  PROVE  FALSE
<1>1. passed[t] = passed[u] /\ passed[t] = 0
  BY SameRound DEF InPlace
<1>2. pc[u] \in InLoop \/ pc[u] \in {"finish", "done"}
  BY DEF TypeOK, Label, InLoop
<1>3. passed[u] >= 1
  BY <1>2, ReductionAssumption DEF InPlace
<1> QED BY <1>1, <1>3

(* A thread in the loop and one behind it are never there together.        *)
LEMMA NotAhead ==
  ASSUME TypeOK, InPlace, Together, NEW t \in Thread, NEW u \in Thread,
         pc[t] \in InLoop, pc[u] \in {"finish", "done"}
  PROVE  FALSE
<1>1. passed[t] = passed[u]
  BY SameRound DEF InLoop
<1>2. passed[t] \in 1 .. Iterations /\ passed[u] = Iterations + 1
  BY DEF InPlace
<1> QED BY <1>1, <1>2, ReductionAssumption

(* The peer of a thread in the loop has finished the rounds before.        *)
LEMMA PeerLevel ==
  ASSUME TypeOK, InPlace, Together, NEW t \in Thread, NEW p \in Thread,
         pc[t] \in InLoop
  PROVE  passed[t] - 1 \in 0 .. Level(p)
<1>1. passed[t] \in 1 .. Iterations /\ passed[p] \in Int
  BY DEF InPlace, TypeOK
<1>2. CASE pc[p] = "barrier"
  <2>1. passed[t] <= passed[p] + 1
    BY <1>1, <1>2 DEF Together
  <2> QED BY <1>1, <1>2, <2>1 DEF Level
<1>3. CASE pc[p] # "barrier"
  <2>1. passed[t] = passed[p]
    BY <1>3, SameRound DEF InLoop
  <2> QED BY <1>1, <1>3, <2>1 DEF Level
<1> QED BY <1>2, <1>3

(* One round doubles the reach of an active thread: once its error is at   *)
(* most its peer's, it is at most that of every candidate in both halves.  *)
LEMMA CoversBoth ==
  ASSUME TypeOK, InPlace, Together, Covers, NEW t \in Thread, NEW u \in Thread,
         pc[t] \in InLoop, Active(t), error[t] <= error[Peer(t)],
         t <= u, u < t + Stride[passed[t]]
  PROVE  error[t] <= own[u]
<1> DEFINE i == passed[t]
           s == Stride[i - 1]
<1>1. i \in 1 .. Iterations /\ t \in Nat /\ u \in Nat /\ u <= N - 1
  BY Threads DEF InPlace, Thread
<1>2. s \in Nat \ {0} /\ Stride[i] = 2 * s
  BY <1>1, Strides
<1>3. t % s = 0 /\ (t + s) % s = 0
  <2>1. t % (2 * s) = 0
    BY <1>2 DEF Active
  <2> HIDE DEF s
  <2> QED BY <1>1, <1>2, <2>1, Halving
<1>4. CASE u < t + s
  <2>1. i - 1 \in 0 .. Level(t)
    BY PeerLevel
  <2> QED BY <1>1, <1>3, <1>4, <2>1 DEF Covers
<1>5. CASE u >= t + s
  <2>1. Peer(t) = t + s /\ Peer(t) \in Thread
    <3>1. ~(t + s > N - 1)
      BY <1>1, <1>2, <1>5, Threads
    <3> QED BY <3>1, PeerOfActive
  <2>2. i - 1 \in 0 .. Level(Peer(t))
    BY <2>1, PeerLevel
  <2>3. u < Peer(t) + s /\ Peer(t) <= u
    BY <1>1, <1>2, <1>5, <2>1
  <2>4. error[Peer(t)] <= own[u]
    BY <1>3, <2>1, <2>2, <2>3 DEF Covers
  <2>5. error[t] \in Int /\ error[Peer(t)] \in Int /\ own[u] \in Int
    BY <2>1, ReductionAssumption DEF TypeOK
  <2> QED BY <2>4, <2>5
<1> QED BY <1>1, <1>2, <1>4, <1>5

(* Thread 0 covers every candidate once a thread has left the loop, and    *)
(* its cell names the one it covers them with.                             *)
LEMMA Result ==
  ASSUME TypeOK, InPlace, Together, ErrorOfSolution, Covers,
         NEW t \in Thread, pc[t] \in {"finish", "done"}
  PROVE  /\ pc[0] # "copySolution"
         /\ error[0] = own[solution[0]]
         /\ \A u \in Thread : error[0] <= own[u]
<1>1. 0 \in Thread /\ Iterations \in Nat
  BY Threads, ReductionAssumption
<1>2. pc[0] \notin InLoop
  BY <1>1, NotAhead
<1>3. Iterations \in 0 .. Level(0)
  <2>1. passed[t] = Iterations + 1 /\ passed[0] \in Int
    BY <1>1 DEF InPlace, TypeOK
  <2>2. CASE pc[0] = "barrier"
    <3>1. passed[t] <= passed[0] + 1
      BY <1>1, <2>1, <2>2 DEF Together
    <3> QED BY <1>1, <2>1, <2>2, <3>1 DEF Level
  <2>3. CASE pc[0] # "barrier"
    <3>1. passed[0] = passed[t]
      BY <1>1, <2>3, SameRound
    <3> QED BY <1>1, <2>1, <2>3, <3>1 DEF Level
  <2> QED BY <2>2, <2>3
<1>4. \A u \in Thread : error[0] <= own[u]
  <2>1. TAKE u \in Thread
  <2>2. Stride[Iterations] \in Nat \ {0} /\ N <= Stride[Iterations]
    BY <1>1, ReductionAssumption
  <2>3. 0 <= u /\ u < 0 + Stride[Iterations]
    BY <2>2, Threads DEF Thread
  <2>4. 0 % Stride[Iterations] = 0
    BY <2>2, SMT
  <2> QED BY <1>1, <1>3, <2>3, <2>4 DEF Covers
<1> QED BY <1>1, <1>2, <1>4 DEF ErrorOfSolution, InLoop

-----------------------------------------------------------------------------
(* Safety properties as consequences of the invariant.                     *)

(* The peer of an active thread exists.                                    *)
LEMMA InvPeers == Inv => PeerExists
  BY PeerOfActive DEF Inv, PeerExists, InLoop

(* No race: a cell is written by its owner, when no other thread reads it. *)
LEMMA InvRaces == Inv => NoDataRace
<1> SUFFICES ASSUME Inv, NEW t \in Thread, NEW u \in Thread, t # u
             PROVE  Written(t) \cap (Read(u) \cup Written(u)) = {}
  BY DEF NoDataRace
<1> USE DEF Inv
<1>1. Written(t) \cap Written(u) = {}
  BY DEF Written
<1>2. CASE pc[t] = "search"
  <2>1. pc[u] \in {"search", "barrier"}
    BY <1>2, NotBoth
  <2> QED BY <1>1, <1>2, <2>1 DEF Read
<1>3. CASE pc[t] \in {"copyError", "copySolution"}
  <2>1. Written(t) \subseteq {<<"error", t>>, <<"solution", t>>}
    BY <1>3 DEF Written
  <2>2. CASE pc[u] \in InLoop /\ Active(u)
    <3>1. Active(t) /\ pc[t] \in InLoop
      BY <1>3 DEF Copying, InLoop
    <3>2. Peer(u) # t
      BY <2>2, <3>1, PeersDiffer
    <3> QED BY <1>1, <2>1, <2>2, <3>2 DEF Read, InLoop
  <2>3. CASE pc[u] = "finish"
    BY <1>3, <2>3, NotAhead DEF InLoop
  <2>4. CASE ~(pc[u] \in InLoop /\ Active(u)) /\ pc[u] # "finish"
    <3>1. Read(u) = {}
      BY <2>4 DEF Read, InLoop, Copying
    <3> QED BY <1>1, <3>1
  <2> QED BY <2>2, <2>3, <2>4
<1>4. CASE pc[t] \notin {"search", "copyError", "copySolution"}
  BY <1>4 DEF Written
<1> QED BY <1>2, <1>3, <1>4
-----------------------------------------------------------------------------
(* Every step keeps the invariant.                                         *)

(* What a step of thread t leaves alone of another thread u.               *)
LEMMA OthersKeep ==
  ASSUME TypeOK, NEW t \in Thread, Step(t), NEW u \in Thread, u # t
  PROVE  /\ pc'[u] = pc[u] /\ passed'[u] = passed[u] /\ error'[u] = error[u]
         /\ solution'[u] = solution[u] /\ best'[u] = best[u]
         /\ Level(u)' = Level(u) /\ Peer(u)' = Peer(u) /\ Active(u)' = Active(u)
<1>1. /\ pc'[u] = pc[u] /\ passed'[u] = passed[u] /\ error'[u] = error[u]
      /\ solution'[u] = solution[u] /\ best'[u] = best[u]
  BY DEF Step, Publish, PassBarrier, Compare, CopyError, CopySolution, Finish, GoTo, TypeOK
<1> QED BY <1>1 DEF Level, Peer, Active

(* A step of a thread outside the barriers keeps its round.                *)
LEMMA RoundKept ==
  ASSUME TypeOK, NEW t \in Thread, passed' = passed
  PROVE  Peer(t)' = Peer(t) /\ Active(t)' = Active(t)
  BY DEF Peer, Active

(* The types are kept: what a cell gets comes from a cell.                 *)
LEMMA StepType ==
  ASSUME TypeOK, InPlace, Copying, NEW t \in Thread, Step(t)
  PROVE  TypeOK'
<1>1. CASE Publish(t)
  BY <1>1 DEF TypeOK, Publish, GoTo, Label
<1>2. CASE PassBarrier(t)
  <2>1. passed[t] + 1 \in 0 .. Iterations + 1
    BY <1>2, ReductionAssumption DEF PassBarrier, InPlace
  <2>2. passed' \in [Thread -> 0 .. Iterations + 1]
    BY <1>2, <2>1 DEF PassBarrier, TypeOK
  <2> QED BY <1>2, <2>2 DEF TypeOK, PassBarrier, GoTo, Label
<1>3. CASE Compare(t)
  BY <1>3 DEF TypeOK, Compare, GoTo, Label
<1>4. CASE CopyError(t)
  <2>1. Peer(t) \in Thread
    BY <1>4, PeerOfActive DEF CopyError, Copying, InLoop
  <2> QED BY <1>4, <2>1 DEF TypeOK, CopyError, GoTo, Label
<1>5. CASE CopySolution(t)
  <2>1. Peer(t) \in Thread
    BY <1>5, PeerOfActive DEF CopySolution, Copying, InLoop
  <2> QED BY <1>5, <2>1 DEF TypeOK, CopySolution, GoTo, Label
<1>6. CASE Finish(t)
  <2>1. Stores(t) \subseteq [image : {"dstTexture"}, block : Thread]
                            \cup [image : {"dstError"}, error : Error]
    <3>1. solution[0] \in Thread /\ own[t] \in Error /\ error[0] \in Error
      BY Threads DEF TypeOK
    <3>2. Kernel \in {"eac", "etc2_p", "etc2_th"}
      BY ReductionAssumption
    <3> QED BY <3>1, <3>2 DEF Stores, Block, BlockError
  <2> QED BY <1>6, <2>1 DEF TypeOK, Finish, GoTo, Label
<1> QED BY <1>1, <1>2, <1>3, <1>4, <1>5, <1>6 DEF Step

(* Barriers keep the threads together.                                     *)
LEMMA StepTogether ==
  ASSUME TypeOK, InPlace, Together, NEW t \in Thread, Step(t)
  PROVE  InPlace' /\ Together'
<1>1. CASE PassBarrier(t)
  <2>1. passed[t] \in 0 .. Iterations /\ pc[t] = "barrier"
    BY <1>1 DEF PassBarrier, InPlace
  <2>2. passed'[t] = passed[t] + 1
        /\ pc'[t] = IF passed[t] < Iterations THEN "compare" ELSE "finish"
    BY <1>1 DEF PassBarrier, GoTo, TypeOK
  <2>3. InPlace'
    <3>1. SUFFICES ASSUME NEW u \in Thread
          PROVE  /\ pc'[u] = "search" => passed'[u] = 0
                 /\ pc'[u] \in InLoop => passed'[u] \in 1 .. Iterations
                 /\ pc'[u] = "barrier" => passed'[u] \in 0 .. Iterations
                 /\ pc'[u] \in {"finish", "done"} => passed'[u] = Iterations + 1
      BY DEF InPlace
    <3>2. CASE u = t
      <4>1. Iterations \in Nat
        BY ReductionAssumption
      <4>2. CASE passed[t] < Iterations
        BY <2>1, <2>2, <3>2, <4>1, <4>2
      <4>3. CASE passed[t] = Iterations
        BY <2>1, <2>2, <3>2, <4>1, <4>3 DEF InLoop
      <4> QED BY <2>1, <4>1, <4>2, <4>3
    <3>3. CASE u # t
      BY <3>3, OthersKeep DEF InPlace
    <3> QED BY <3>2, <3>3
  <2>4. Together'
    <3>1. SUFFICES ASSUME NEW v \in Thread, NEW u \in Thread, passed'[v] > passed'[u]
          PROVE  passed'[v] = passed'[u] + 1 /\ pc'[u] = "barrier"
      BY DEF Together
    <3>2. CASE v = t
      <4>1. u # t /\ pc'[u] = pc[u] /\ passed'[u] = passed[u]
        BY <3>1, <3>2, OthersKeep, <2>2 DEF TypeOK
      <4>2. passed[u] > passed[t] \/ (passed[u] = passed[t] /\ pc[u] = "barrier")
        BY <1>1 DEF PassBarrier, Arrived
      <4>3. passed[u] \in Int /\ passed[t] \in Int
        BY DEF TypeOK
      <4> QED BY <2>2, <3>1, <3>2, <4>1, <4>2, <4>3
    <3>3. CASE v # t /\ u = t
      <4>1. passed'[v] = passed[v] /\ passed[v] \in Int /\ passed[t] \in Int
        BY <3>3, OthersKeep DEF TypeOK
      <4>2. passed[v] > passed[t] + 1
        BY <2>2, <3>1, <3>3, <4>1
      <4>3. passed[v] = passed[t] + 1
        BY <4>1, <4>2 DEF Together
      <4> QED BY <4>1, <4>2, <4>3
    <3>4. CASE v # t /\ u # t
      BY <3>1, <3>4, OthersKeep DEF Together
    <3> QED BY <3>2, <3>3, <3>4
  <2> QED BY <2>3, <2>4
<1>2. CASE ~PassBarrier(t)
  <2>1. passed' = passed /\ pc[t] # "barrier"
    BY <1>2 DEF Step, Publish, Compare, CopyError, CopySolution, Finish
  <2>2. \/ pc[t] = "search" /\ pc'[t] = "barrier"
        \/ pc[t] \in InLoop /\ pc'[t] \in {"copyError", "copySolution", "barrier"}
        \/ pc[t] = "finish" /\ pc'[t] = "done"
    BY <1>2 DEF Step, Publish, Compare, CopyError, CopySolution, Finish, GoTo, InLoop, TypeOK
  <2>3. InPlace'
    <3>1. SUFFICES ASSUME NEW u \in Thread
          PROVE  /\ pc'[u] = "search" => passed'[u] = 0
                 /\ pc'[u] \in InLoop => passed'[u] \in 1 .. Iterations
                 /\ pc'[u] = "barrier" => passed'[u] \in 0 .. Iterations
                 /\ pc'[u] \in {"finish", "done"} => passed'[u] = Iterations + 1
      BY DEF InPlace
    <3>2. CASE u = t
      <4>1. Iterations \in Nat
        BY ReductionAssumption
      <4> QED BY <2>1, <2>2, <3>2, <4>1 DEF InLoop, InPlace
    <3>3. CASE u # t
      BY <3>3, OthersKeep DEF InPlace
    <3> QED BY <3>2, <3>3
  <2>4. Together'
    <3>1. SUFFICES ASSUME NEW v \in Thread, NEW u \in Thread, passed[v] > passed[u]
          PROVE  passed[v] = passed[u] + 1 /\ pc'[u] = "barrier"
      BY <2>1 DEF Together
    <3>2. passed[v] = passed[u] + 1 /\ pc[u] = "barrier"
      BY <3>1 DEF Together
    <3>3. u # t
      BY <2>1, <3>2
    <3> QED BY <3>2, <3>3, OthersKeep
  <2> QED BY <2>3, <2>4
<1> QED BY <1>1, <1>2

(* No step writes the cell another thread is copying from.                 *)
LEMMA PeerCellKept ==
  ASSUME Inv, NEW t \in Thread, Step(t), NEW u \in Thread, u # t,
         pc[u] \in {"copyError", "copySolution"}
  PROVE  error'[Peer(u)] = error[Peer(u)] /\ solution'[Peer(u)] = solution[Peer(u)]
<1> USE DEF Inv
<1>1. pc[u] \in InLoop /\ Active(u) /\ Peer(u) \in Thread
  BY PeerOfActive DEF Copying, InLoop
<1>2. CASE Publish(t)
  BY <1>2, NotBoth DEF Publish
<1>3. CASE CopyError(t) \/ CopySolution(t)
  <2>1. pc[t] \in InLoop /\ Active(t)
    BY <1>3 DEF CopyError, CopySolution, Copying, InLoop
  <2>2. Peer(u) # t
    BY <1>1, <2>1, PeersDiffer
  <2> QED BY <1>1, <1>3, <2>2 DEF CopyError, CopySolution, TypeOK
<1>4. CASE PassBarrier(t) \/ Compare(t) \/ Finish(t)
  BY <1>4 DEF PassBarrier, Compare, Finish
<1> QED BY <1>2, <1>3, <1>4 DEF Step

(* What a thread copies stays the smaller error until it has copied it.    *)
LEMMA StepCopying ==
  ASSUME Inv, NEW t \in Thread, Step(t)
  PROVE  Copying'
<1> USE DEF Inv
<1>1. SUFFICES ASSUME NEW u \in Thread, pc'[u] \in {"copyError", "copySolution"}
      PROVE  /\ Active(u)' /\ Peer(u)' # u
             /\ pc'[u] = "copyError" => error'[Peer(u)'] < error'[u]
  BY DEF Copying
<1>2. CASE u # t
  <2>1. pc'[u] = pc[u] /\ Peer(u)' = Peer(u) /\ Active(u)' = Active(u) /\ error'[u] = error[u]
    BY <1>2, OthersKeep
  <2> QED BY <1>1, <1>2, <2>1, PeerCellKept DEF Copying
<1>3. CASE u = t /\ Compare(t)
  <2>1. Peer(t)' = Peer(t) /\ Active(t)' = Active(t) /\ error' = error
    BY <1>3, RoundKept DEF Compare
  <2>2. pc'[t] = "copyError" /\ Active(t) /\ error[Peer(t)] < error[t]
    BY <1>1, <1>3 DEF Compare, GoTo, TypeOK, Current, Register
  <2>3. error[t] \in Int
    BY ReductionAssumption DEF TypeOK
  <2>4. Peer(t) # t
    BY <2>2, <2>3
  <2> QED BY <1>3, <2>1, <2>2, <2>4
<1>4. CASE u = t /\ CopyError(t)
  <2>1. Peer(t)' = Peer(t) /\ Active(t)' = Active(t) /\ pc'[t] = "copySolution"
    BY <1>4, RoundKept DEF CopyError, GoTo, TypeOK
  <2> QED BY <1>4, <2>1 DEF Copying, CopyError
<1>5. CASE u = t /\ ~Compare(t) /\ ~CopyError(t)
  BY <1>1, <1>5 DEF Step, Publish, PassBarrier, CopySolution, Finish, GoTo, TypeOK
<1> QED BY <1>2, <1>3, <1>4, <1>5

(* The register follows the cell, and both keep what nobody has stored.    *)
LEMMA StepRegister ==
  ASSUME Inv, NEW t \in Thread, Step(t)
  PROVE  Register' /\ Unpublished' /\ own' = own
<1> USE DEF Inv
<1>1. own' = own
  BY DEF Step, Publish, PassBarrier, Compare, CopyError, CopySolution, Finish
<1>2. ASSUME NEW u \in Thread
      PROVE  /\ best'[u] = error'[u]
             /\ pc'[u] = "search" => error'[u] = own'[u] /\ solution'[u] = u
  <2>1. CASE u # t
    BY <1>1, <2>1, OthersKeep DEF Register, Unpublished
  <2>2. CASE u = t /\ Publish(t)
    BY <2>2 DEF Publish, GoTo, TypeOK, Register, Unpublished
  <2>3. CASE u = t /\ CopyError(t)
    BY <2>3 DEF CopyError, GoTo, TypeOK
  <2>4. CASE u = t /\ (PassBarrier(t) \/ Compare(t) \/ CopySolution(t) \/ Finish(t))
    BY <2>4 DEF PassBarrier, Compare, CopySolution, Finish, GoTo, TypeOK, Register
  <2> QED BY <2>1, <2>2, <2>3, <2>4 DEF Step
<1> QED BY <1>1, <1>2 DEF Register, Unpublished

(* A cell keeps naming a candidate with its error.                         *)
LEMMA StepErrorOfSolution ==
  ASSUME Inv, NEW t \in Thread, Step(t)
  PROVE  ErrorOfSolution'
<1> USE DEF Inv
<1>1. own' = own
  BY StepRegister
<1>2. SUFFICES ASSUME NEW u \in Thread
      PROVE  error'[u] = own[IF pc'[u] = "copySolution" THEN solution'[Peer(u)']
                                                        ELSE solution'[u]]
  BY <1>1 DEF ErrorOfSolution
<1>3. CASE u # t
  <2>1. /\ pc'[u] = pc[u] /\ Peer(u)' = Peer(u)
        /\ error'[u] = error[u] /\ solution'[u] = solution[u]
    BY <1>3, OthersKeep
  <2>2. pc[u] = "copySolution" => solution'[Peer(u)] = solution[Peer(u)]
    BY <1>3, PeerCellKept
  <2> QED BY <2>1, <2>2 DEF ErrorOfSolution
<1>4. CASE u = t /\ Publish(t)
  BY <1>4 DEF Publish, GoTo, TypeOK
<1>5. CASE u = t /\ CopyError(t)
  <2>1. Peer(t)' = Peer(t) /\ pc'[t] = "copySolution" /\ solution' = solution
        /\ error'[t] = error[Peer(t)]
    BY <1>5, RoundKept DEF CopyError, GoTo, TypeOK
  <2>2. Active(t) /\ Peer(t) # t /\ Peer(t) \in Thread /\ pc[t] \in InLoop
    BY <1>5, PeerOfActive DEF CopyError, Copying, InLoop
  <2>3. pc[Peer(t)] # "copySolution"
    <3>1. SUFFICES ASSUME pc[Peer(t)] = "copySolution" PROVE FALSE
      OBVIOUS
    <3>2. Active(Peer(t)) /\ pc[Peer(t)] \in InLoop
      BY <2>2, <3>1 DEF Copying, InLoop
    <3> QED BY <2>2, <3>2, PeersDiffer
  <2>4. error[Peer(t)] = own[solution[Peer(t)]]
    BY <2>2, <2>3 DEF ErrorOfSolution
  <2> QED BY <1>5, <2>1, <2>4
<1>6. CASE u = t /\ CopySolution(t)
  <2>1. pc'[t] = "barrier" /\ error' = error /\ solution'[t] = solution[Peer(t)]
    BY <1>6 DEF CopySolution, GoTo, TypeOK
  <2> QED BY <1>6, <2>1 DEF ErrorOfSolution, CopySolution
<1>7. CASE u = t /\ (PassBarrier(t) \/ Compare(t) \/ Finish(t))
  <2>1. pc[t] # "copySolution" /\ pc'[t] # "copySolution" /\ error' = error /\ solution' = solution
    BY <1>7 DEF PassBarrier, Compare, Finish, GoTo, TypeOK
  <2> QED BY <1>7, <2>1 DEF ErrorOfSolution
<1> QED BY <1>3, <1>4, <1>5, <1>6, <1>7 DEF Step

(* Finishing a round doubles what the cell of an active thread covers, and *)
(* no step gives a cell a larger error.                                    *)
LEMMA StepCovers ==
  ASSUME Inv, NEW t \in Thread, Step(t)
  PROVE  Covers'
<1> USE DEF Inv
<1>1. own' = own
  BY StepRegister
<1>2. SUFFICES ASSUME NEW v \in Thread, NEW u \in Thread, NEW l \in 0 .. Level(v)',
                      v % Stride[l] = 0, v <= u, u < v + Stride[l]
      PROVE  error'[v] <= own[u]
  BY <1>1 DEF Covers
<1>3. CASE v # t
  <2>1. error'[v] = error[v] /\ Level(v)' = Level(v)
    BY <1>3, OthersKeep
  <2> QED BY <1>2, <2>1 DEF Covers
<1>4. /\ own[u] \in Int /\ error[t] \in Int /\ passed[t] \in Int
      /\ Peer(t) \in Thread => error[Peer(t)] \in Int
  <2>1. \A w \in Thread : own[w] \in Error /\ error[w] \in Error
    BY DEF TypeOK
  <2>2. passed[t] \in Int
    BY DEF TypeOK
  <2> QED BY <2>1, <2>2, ReductionAssumption
<1>5. CASE v = t /\ Publish(t)
  <2>1. Level(t)' = 0 /\ error'[t] = own[t]
    BY <1>5 DEF Level, Publish, GoTo, TypeOK, InPlace
  <2>2. l = 0 /\ Stride[l] = 1
    BY <1>2, <1>5, <2>1, ReductionAssumption
  <2>3. u = t
    BY <1>2, <1>5, <2>2, Threads
  <2> QED BY <1>4, <1>5, <2>1, <2>3
<1>6. CASE v = t /\ (PassBarrier(t) \/ Finish(t))
  <2>1. error' = error
    BY <1>6 DEF PassBarrier, Finish
  <2>2. Level(t)' = Level(t)
    BY <1>4, <1>6 DEF Level, PassBarrier, Finish, GoTo, TypeOK
  <2> QED BY <1>2, <1>6, <2>1, <2>2 DEF Covers
<1>7. CASE v = t /\ CopyError(t)
  <2>1. Peer(t) \in Thread
    BY <1>7, PeerOfActive DEF CopyError, Copying, InLoop
  <2>2. error'[t] = error[Peer(t)] /\ error[Peer(t)] < error[t]
    BY <1>7 DEF CopyError, Copying, TypeOK
  <2>3. Level(t)' = Level(t)
    BY <1>7 DEF Level, CopyError, GoTo, TypeOK
  <2>4. error[t] <= own[u]
    BY <1>2, <1>7, <2>3 DEF Covers
  <2> QED BY <1>4, <1>7, <2>1, <2>2, <2>4
<1>8. CASE v = t /\ (Compare(t) \/ CopySolution(t))
  <2>1. error' = error /\ pc[t] \in InLoop /\ Level(t) = passed[t] - 1
    BY <1>8 DEF Compare, CopySolution, InLoop, Level
  <2>2. CASE l \in 0 .. Level(t)
    BY <1>2, <1>8, <2>1, <2>2 DEF Covers
  <2>3. CASE l \notin 0 .. Level(t)
    <3>1. Level(t)' \in {Level(t), passed[t]}
      BY <1>8, <2>1 DEF Level, Compare, CopySolution, GoTo, TypeOK
    <3>2. l = passed[t] /\ Level(t)' # Level(t)
      BY <1>2, <1>4, <1>8, <2>1, <2>3, <3>1
    <3>3. Active(t)
      BY <1>2, <1>8, <3>2 DEF Active
    <3>4. Peer(t) \in Thread
      BY <2>1, <3>3, PeerOfActive
    <3>5. error[t] <= error[Peer(t)]
      <4>1. CASE Compare(t)
        <5>1. ~(error[Peer(t)] < Current(t))
          BY <3>2, <3>3, <4>1, <2>1 DEF Compare, Level, GoTo, TypeOK
        <5>2. Current(t) = error[t]
          BY DEF Current, Register
        <5> QED BY <1>4, <3>4, <5>1, <5>2
      <4>2. CASE CopySolution(t)
        <5>1. pc[Peer(t)] # "copySolution"
          <6>1. SUFFICES ASSUME pc[Peer(t)] = "copySolution" PROVE FALSE
            OBVIOUS
          <6>2. Active(Peer(t)) /\ pc[Peer(t)] \in InLoop /\ Peer(t) # t
            BY <3>4, <4>2, <6>1 DEF Copying, InLoop, CopySolution
          <6> QED BY <2>1, <3>3, <3>4, <6>2, PeersDiffer
        <5>2. error[t] = own[solution[Peer(t)]] /\ error[Peer(t)] = own[solution[Peer(t)]]
          BY <3>4, <4>2, <5>1 DEF ErrorOfSolution, CopySolution
        <5> QED BY <1>4, <3>4, <5>2
      <4> QED BY <1>8, <4>1, <4>2
    <3> QED BY <1>2, <1>8, <2>1, <3>2, <3>3, <3>5, CoversBoth
  <2> QED BY <2>2, <2>3
<1> QED BY <1>3, <1>5, <1>6, <1>7, <1>8 DEF Step

(* A step that stores anything stores the best candidate into empty        *)
(* images; no other thread will pass for the winner afterwards.            *)
LEMMA StepSelects ==
  ASSUME Inv, NEW t \in Thread, Step(t)
  PROVE  StoredOnce' /\ (Abstract!Select \/ UNCHANGED <<own, images>>)
<1> USE DEF Inv
<1>1. own' = own
  BY StepRegister
<1>2. ASSUME NEW w \in Thread, pc[w] = "done", Winner(w)
      PROVE  w # t /\ pc'[w] = "done" /\ Winner(w)'
  <2>1. w # t
    BY <1>2 DEF Step, Publish, PassBarrier, Compare, CopyError, CopySolution, Finish
  <2>2. pc'[w] = "done"
    BY <1>2, <2>1, OthersKeep
  <2>3. pc[0] # "copySolution" /\ pc[0] # "search" /\ 0 \in Thread
    BY <1>2, Result, NotBoth, Threads
  <2>4. solution'[0] = solution[0]
    BY <2>3 DEF Step, Publish, PassBarrier, Compare, CopyError, CopySolution, Finish, TypeOK
  <2> QED BY <1>2, <2>1, <2>2, <2>4 DEF Winner
<1>3. CASE ~Finish(t)
  <2>1. images' = images
    BY <1>3 DEF Step, Publish, PassBarrier, Compare, CopyError, CopySolution
  <2> QED BY <1>1, <1>2, <2>1 DEF StoredOnce
<1>4. CASE Finish(t) /\ ~Winner(t)
  <2>1. images' = images
    BY <1>4 DEF Finish
  <2> QED BY <1>1, <1>2, <2>1 DEF StoredOnce
<1>5. CASE Finish(t) /\ Winner(t)
  <2>1. images = {}
    <3>1. SUFFICES ASSUME NEW w \in Thread, pc[w] = "done", Winner(w) PROVE FALSE
      BY DEF StoredOnce
    <3>2. w = t
      BY <1>5, <3>1 DEF Winner
    <3> QED BY <1>2, <3>1, <3>2
  <2>2. StoredOnce'
    <3>1. pc'[t] = "done" /\ Winner(t)'
      BY <1>5 DEF Finish, GoTo, TypeOK, Winner
    <3> QED BY <3>1 DEF StoredOnce
  <2>3. /\ error[0] = own[solution[0]] /\ solution[0] \in Thread
        /\ \A u \in Thread : own[solution[0]] <= own[u]
    BY <1>5, Result, Threads DEF Finish, TypeOK
  <2>4. images' = StoredBy(solution[0], own[solution[0]])
    <3>1. images' = Stores(t)
      BY <1>5, <2>1 DEF Finish
    <3>2. CASE Kernel = "eac"
      BY <3>1, <3>2 DEF Stores, StoredBy
    <3>3. CASE Kernel \in {"etc2_p", "etc2_th"}
      <4>1. t = solution[0]
        BY <1>5, <3>3 DEF Winner
      <4> QED BY <2>3, <3>1, <3>3, <4>1 DEF Stores, StoredBy
    <3> QED BY <3>2, <3>3, ReductionAssumption
  <2>5. Abstract!Select
    BY <1>1, <2>1, <2>3, <2>4 DEF Abstract!Select, Abstract!Best
  <2> QED BY <2>2, <2>5
<1> QED BY <1>3, <1>4, <1>5

-----------------------------------------------------------------------------
(* The theorems.                                                           *)

(* Nothing has happened in the initial states.                             *)
LEMMA InitInv == Init => Inv
<1> SUFFICES ASSUME Init PROVE Inv
  OBVIOUS
<1> USE DEF Init
<1>1. TypeOK
  BY ReductionAssumption DEF TypeOK, Label
<1>2. InPlace /\ Together /\ Copying /\ Register /\ Unpublished /\ ErrorOfSolution /\ StoredOnce
  BY DEF InPlace, Together, Copying, Register, Unpublished, ErrorOfSolution, StoredOnce, InLoop
<1>3. Covers
  BY DEF Covers, Level
<1> QED BY <1>1, <1>2, <1>3 DEF Inv

(* Every step, and stuttering, keeps the invariant.                        *)
LEMMA NextInv == Inv /\ [Next]_vars => Inv'
<1> SUFFICES ASSUME Inv, [Next]_vars PROVE Inv'
  OBVIOUS
<1>1. ASSUME NEW t \in Thread, Step(t) PROVE Inv'
  <2>1. TypeOK' /\ InPlace' /\ Together'
    BY <1>1, StepType, StepTogether DEF Inv
  <2> QED BY <1>1, <2>1, StepCopying, StepRegister, StepErrorOfSolution, StepCovers,
             StepSelects DEF Inv
<1>2. CASE UNCHANGED vars
  BY <1>2 DEF Inv, vars, TypeOK, InPlace, Together, Copying, Register, Unpublished,
       ErrorOfSolution, Covers, StoredOnce, Active, Peer, Level, Winner
<1> QED BY <1>1, <1>2 DEF Next, Terminating

(* The invariant holds of every behaviour of the shaders.                  *)
THEOREM Invariance == Spec => []Inv
<1>1. Init => Inv
  BY InitInv
<1>2. Inv /\ [Next]_vars => Inv'
  BY NextInv
<1> QED BY <1>1, <1>2, PTL DEF Spec

(* No two threads of a work group race for shared memory: the barriers of  *)
(* the three shaders suffice for any number of threads.                    *)
THEOREM RaceFree == Spec => []NoDataRace
<1>1. Inv => NoDataRace
  BY InvRaces
<1> QED BY <1>1, Invariance, PTL

(* No thread reads past the end of the shared array, power of two or not.  *)
THEOREM InBounds == Spec => []PeerExists
<1>1. Inv => PeerExists
  BY InvPeers
<1> QED BY <1>1, Invariance, PTL

(* Every step of the shaders is the selection of one best candidate, or no *)
(* change of the images.                                                   *)
THEOREM Refinement == Spec => Abstract!Init /\ [][Abstract!Select]_<<own, images>>
<1>1. Init => Abstract!Init
  BY DEF Init, Abstract!Init
<1>2. Inv /\ [Next]_vars => [Abstract!Select]_<<own, images>>
  <2>1. ASSUME Inv, NEW t \in Thread, Step(t) PROVE [Abstract!Select]_<<own, images>>
    BY <2>1, StepSelects
  <2>2. UNCHANGED vars => UNCHANGED <<own, images>>
    BY DEF vars
  <2> QED BY <2>1, <2>2 DEF Next, Terminating
<1> QED BY <1>1, <1>2, Invariance, PTL DEF Spec
=============================================================================
