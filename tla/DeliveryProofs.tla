---------------------------- MODULE DeliveryProofs ----------------------------
(***************************************************************************)
(* The program writes the files it was asked for, for every set of         *)
(* encoders, every request of a codec that can be delivered, every queue   *)
(* bound and every schedule of the GPU.                                    *)
(*                                                                         *)
(* QueueGives(mem, stream, G) says that G is what the memory will hold     *)
(* once the operations in flight have been executed in the order in which  *)
(* they were issued.  The GPU executes them in another order, but one that *)
(* ends with the same G, since it swaps only operations that do not        *)
(* conflict (OrderedIn of HazardProofs).                                   *)
(*                                                                         *)
(* What G holds is followed call by call: Yields(e, r, calls, F, G) says   *)
(* that the calls of encoder e make of the facts F (what its units are     *)
(* bound to, what its objects will hold, which of them nothing uses) the   *)
(* facts G, and reads no variable; Tells ties the facts to the state.  One *)
(* lemma per method says what its calls yield; FactsAt names what is known *)
(* at each stage of main: in the end that the staging buffer holds the     *)
(* blocks of the codec, which glFinish makes those of the memory.          *)
(***************************************************************************)
EXTENDS HazardProofs

(* What the memory will hold once the queue has been executed in order.    *)
IsMemory(m) == m = [o \in GLObject |-> m[o]]

Applied(m, op) == IF op.kind = "barrier" THEN m ELSE AfterOp(m, op)

Steps(H, s) == \A k \in 1 .. Len(s) : H[k] = Applied(H[k - 1], s[k])

QueueGives(m, s, G) ==
  \E H : /\ H[0] = m /\ H[Len(s)] = G
         /\ \A k \in 0 .. Len(s) : IsMemory(H[k])
         /\ Steps(H, s)

(* Two operations none of which writes what the other touches.             *)
Independent(p, q) ==
  /\ Written(p) \cap Touched(q) = {}
  /\ Written(q) \cap Touched(p) = {}

(* The place among its results of what it stores to an object.             *)
ResultFor(op, o) == CHOOSE u \in DOMAIN op.out : op.out[u].name = o

(* What an operation stores depends on what it reads only.                 *)
LEMMA ResultOfReads ==
  ASSUME NEW op, NEW u, NEW m, NEW n,
         \A k \in DOMAIN op.in : m[op.in[k].name] = n[op.in[k].name]
  PROVE  Result(m, op, u) = Result(n, op, u)
<1>1. \A k \in DOMAIN op.in : ValueRead(m, op.in[k]) = ValueRead(n, op.in[k])
  BY DEF ValueRead
<1>2. [k \in DOMAIN op.in |-> ValueRead(m, op.in[k])]
        = [k \in DOMAIN op.in |-> ValueRead(n, op.in[k])]
  BY <1>1
<1> QED
  BY <1>2 DEF Result

(* What an operation leaves alone and what it changes.                     *)
LEMMA AfterOne ==
  ASSUME NEW m, IsMemory(m), NEW op
  PROVE  /\ IsMemory(AfterOp(m, op))
         /\ \A o \in GLObject : o \notin Written(op) => AfterOp(m, op)[o] = m[o]
         /\ \A o \in GLObject :
              o \in Written(op) => AfterOp(m, op)[o] = Result(m, op, ResultFor(op, o))
<1>1. DOMAIN m = GLObject
  BY DEF IsMemory
<1>2. ASSUME NEW o
      PROVE  o \in Written(op) <=> \E u \in DOMAIN op.out : op.out[u].name = o
  BY DEF Written, WritesOf
<1>3. ASSUME NEW o \in GLObject, o \notin Written(op)
      PROVE  AfterOp(m, op)[o] = m[o]
  BY <1>1, <1>2, <1>3 DEF AfterOp
<1>4. ASSUME NEW o \in GLObject, o \in Written(op)
      PROVE  AfterOp(m, op)[o] = Result(m, op, ResultFor(op, o))
  BY <1>1, <1>2, <1>4 DEF AfterOp, ResultFor
<1>5. IsMemory(AfterOp(m, op))
  BY <1>1 DEF IsMemory, AfterOp
<1> QED
  BY <1>3, <1>4, <1>5

(* One operation after another that is independent of it.                  *)
LEMMA AfterIndependent ==
  ASSUME NEW m, IsMemory(m), NEW p, NEW q, Independent(p, q),
         Touched(p) \subseteq GLObject, NEW o \in GLObject, o \in Written(p)
  PROVE  AfterOp(AfterOp(m, q), p)[o] = AfterOp(m, p)[o]
<1> DEFINE n == AfterOp(m, q)
<1>1. /\ IsMemory(n)
      /\ \A x \in GLObject : x \notin Written(q) => n[x] = m[x]
  BY AfterOne
<1> HIDE DEF n
<1>2. \A k \in DOMAIN p.in : p.in[k].name \in Touched(p)
  BY DEF Touched, ReadsOf
<1>3. \A k \in DOMAIN p.in : n[p.in[k].name] = m[p.in[k].name]
  BY <1>1, <1>2 DEF Independent
<1>4. \A u : Result(n, p, u) = Result(m, p, u)
  BY <1>3, ResultOfReads
<1> DEFINE u == ResultFor(p, o)
<1>5. AfterOp(n, p)[o] = Result(n, p, u)
  BY <1>1, AfterOne
<1>6. AfterOp(m, p)[o] = Result(m, p, u)
  BY AfterOne
<1> QED
  BY <1>4, <1>5, <1>6 DEF n

(* The order of two independent operations does not matter.                *)
LEMMA IndependentCommute ==
  ASSUME NEW m, IsMemory(m), NEW p, NEW q, Independent(p, q),
         Touched(p) \subseteq GLObject, Touched(q) \subseteq GLObject
  PROVE  AfterOp(AfterOp(m, p), q) = AfterOp(AfterOp(m, q), p)
<1> DEFINE a == AfterOp(AfterOp(m, p), q)
           b == AfterOp(AfterOp(m, q), p)
<1>1. IsMemory(AfterOp(m, p)) /\ IsMemory(AfterOp(m, q)) /\ IsMemory(a) /\ IsMemory(b)
  BY AfterOne
<1>2. ASSUME NEW o \in GLObject PROVE a[o] = b[o]
  <2>1. CASE o \in Written(p)
    <3>1. o \notin Written(q)
      BY <2>1 DEF Independent, Touched
    <3>2. a[o] = AfterOp(m, p)[o]
      BY <1>1, <3>1, AfterOne
    <3> QED
      BY <2>1, <3>2, AfterIndependent
  <2>2. CASE o \in Written(q)
    <3>1. o \notin Written(p)
      BY <2>2 DEF Independent, Touched
    <3>2. b[o] = AfterOp(m, q)[o]
      BY <1>1, <3>1, AfterOne
    <3>3. Independent(q, p)
      BY DEF Independent
    <3>4. a[o] = AfterOp(m, q)[o]
      BY <2>2, <3>3, AfterIndependent
    <3> QED
      BY <3>2, <3>4
  <2>3. CASE o \notin Written(p) /\ o \notin Written(q)
    BY <1>1, <2>3, AfterOne
  <2> QED
    BY <2>1, <2>2, <2>3
<1> HIDE DEF a, b
<1>3. [o \in GLObject |-> a[o]] = [o \in GLObject |-> b[o]]
  BY <1>2
<1>4. a = b
  BY <1>1, <1>3 DEF IsMemory
<1> QED
  BY <1>4 DEF a, b

(* A queue with nothing in it gives the memory as it is.                   *)
LEMMA EmptyGives ==
  ASSUME NEW m, IsMemory(m)
  PROVE  /\ QueueGives(m, <<>>, m)
         /\ \A G : QueueGives(m, <<>>, G) => G = m
<1>1. Len(<<>>) = 0
  OBVIOUS
<1> DEFINE H == [k \in {0} |-> m]
<1>2. H[0] = m
  OBVIOUS
<1> HIDE DEF H
<1>3. 0 .. 0 = {0} /\ 1 .. 0 = {}
  OBVIOUS
<1> QED
  BY <1>1, <1>2, <1>3 DEF QueueGives, Steps

(* One operation more.                                                     *)
LEMMA AppendGives ==
  ASSUME NEW S, NEW s \in Seq(S), NEW op \in S, NEW m, NEW G, QueueGives(m, s, G)
  PROVE  QueueGives(m, Append(s, op), Applied(G, op)) /\ IsMemory(G)
<1> DEFINE t == Append(s, op)
           n == Len(s)
           E == Applied(G, op)
<1>1. /\ n \in Nat /\ Len(t) = n + 1 /\ t[n + 1] = op
      /\ \A k \in 1 .. n : t[k] = s[k]
  BY AppendPositions
<1>2. PICK H : /\ H[0] = m /\ H[n] = G
               /\ \A k \in 0 .. n : IsMemory(H[k])
               /\ Steps(H, s)
  BY DEF QueueGives
<1> DEFINE K == [k \in 0 .. (n + 1) |-> IF k = n + 1 THEN E ELSE H[k]]
<1>3. K[n + 1] = E /\ \A k \in 0 .. n : K[k] = H[k]
  BY <1>1
<1>4. IsMemory(G) /\ IsMemory(E)
  <2>1. IsMemory(G)
    BY <1>1, <1>2
  <2> QED
    BY <2>1, AfterOne DEF Applied
<1> HIDE DEF K, E, t, n
<1>5. ASSUME NEW k \in 1 .. (n + 1) PROVE K[k] = Applied(K[k - 1], t[k])
  <2>1. CASE k = n + 1
    <3>1. k - 1 = n /\ n \in 0 .. n
      BY <1>1, <2>1
    <3> QED
      BY <1>1, <1>2, <1>3, <2>1, <3>1 DEF E
  <2>2. CASE k # n + 1
    <3>1. k \in 1 .. n /\ k \in 0 .. n /\ k - 1 \in 0 .. n
      BY <1>1, <2>2
    <3> QED
      BY <1>1, <1>2, <1>3, <3>1 DEF Steps, n
  <2> QED
    BY <2>1, <2>2
<1>6. K[0] = m /\ \A k \in 0 .. (n + 1) : IsMemory(K[k])
  <2>1. 0 \in 0 .. n
    BY <1>1
  <2>2. \A k \in 0 .. (n + 1) : k = n + 1 \/ k \in 0 .. n
    BY <1>1
  <2> QED
    BY <1>2, <1>3, <1>4, <2>1, <2>2
<1>7. QueueGives(m, t, E)
  BY <1>1, <1>3, <1>5, <1>6 DEF QueueGives, Steps
<1> QED
  BY <1>4, <1>7 DEF t, E

(* One operation taken out of the order, if those before it are            *)
(* independent of it.                                                      *)
LEMMA RemovedGives ==
  ASSUME NEW s \in Seq(GpuOp), NEW i \in DOMAIN s, NEW t, Removed(s, i, t),
         s[i].kind # "barrier",
         \A j \in GpuOps(s) : Touched(s[j]) \subseteq GLObject,
         \A j \in 1 .. (i - 1) : s[j].kind # "barrier" => Independent(s[j], s[i]),
         NEW m, NEW G, QueueGives(m, s, G)
  PROVE  QueueGives(AfterOp(m, s[i]), t, G)
<1> DEFINE n == Len(s)
           op == s[i]
<1>1. /\ n \in Nat /\ DOMAIN s = 1 .. n /\ i \in 1 .. n /\ Len(t) = n - 1
      /\ \A k \in 1 .. (n - 1) : t[k] = s[Before(i, k)]
  BY LenProperties DEF Removed
<1>2. PICK H : /\ H[0] = m /\ H[n] = G
               /\ \A k \in 0 .. n : IsMemory(H[k])
               /\ Steps(H, s)
  BY DEF QueueGives
<1> DEFINE K == [k \in 0 .. (n - 1) |-> IF k < i THEN AfterOp(H[k], op) ELSE H[k + 1]]
<1>3. /\ \A k \in 0 .. (n - 1) : k < i => K[k] = AfterOp(H[k], op)
      /\ \A k \in 0 .. (n - 1) : k >= i => K[k] = H[k + 1]
  BY <1>1
<1>4. AfterOp(H[i - 1], op) = H[i]
  BY <1>1, <1>2 DEF Steps, Applied
<1> HIDE DEF K, n, op
<1>5. K[0] = AfterOp(m, op)
  <2>1. 0 \in 0 .. (n - 1) /\ 0 < i
    BY <1>1
  <2> QED
    BY <1>2, <1>3, <2>1
<1>6. K[n - 1] = G
  <2>1. CASE i = n
    <3>1. n - 1 \in 0 .. (n - 1) /\ n - 1 < i
      BY <1>1, <2>1
    <3> QED
      BY <1>2, <1>3, <1>4, <2>1, <3>1
  <2>2. CASE i # n
    <3>1. n - 1 \in 0 .. (n - 1) /\ n - 1 >= i /\ (n - 1) + 1 = n
      BY <1>1, <2>2
    <3> QED
      BY <1>2, <1>3, <3>1
  <2> QED
    BY <2>1, <2>2
<1>7. ASSUME NEW k \in 0 .. (n - 1) PROVE IsMemory(K[k])
  <2>1. k \in 0 .. n /\ k + 1 \in 0 .. n /\ (k < i \/ k >= i)
    BY <1>1
  <2> QED
    BY <1>2, <1>3, <2>1, AfterOne
<1>8. ASSUME NEW k \in 1 .. (n - 1) PROVE K[k] = Applied(K[k - 1], t[k])
  <2>1. CASE k < i
    <3>1. k \in 0 .. (n - 1) /\ k - 1 \in 0 .. (n - 1) /\ k - 1 < i /\ k \in 1 .. n
          /\ k \in 1 .. (i - 1) /\ k - 1 \in 0 .. n
      BY <1>1, <2>1
    <3>2. t[k] = s[k]
      BY <1>1, <2>1 DEF Before
    <3>3. H[k] = Applied(H[k - 1], s[k]) /\ IsMemory(H[k - 1])
      BY <1>2, <3>1 DEF Steps, n
    <3>4. K[k] = AfterOp(H[k], op) /\ K[k - 1] = AfterOp(H[k - 1], op)
      BY <1>3, <2>1, <3>1
    <3>5. CASE s[k].kind = "barrier"
      BY <3>2, <3>3, <3>4, <3>5 DEF Applied
    <3>6. CASE s[k].kind # "barrier"
      <4>1. Independent(s[k], op) /\ Touched(s[k]) \subseteq GLObject
            /\ Touched(op) \subseteq GLObject
        BY <1>1, <3>1, <3>6 DEF op, GpuOps, n
      <4>2. AfterOp(AfterOp(H[k - 1], s[k]), op) = AfterOp(AfterOp(H[k - 1], op), s[k])
        BY <3>3, <4>1, IndependentCommute
      <4> QED
        BY <3>2, <3>3, <3>4, <3>6, <4>2 DEF Applied
    <3> QED
      BY <3>5, <3>6
  <2>2. CASE k = i
    <3>1. /\ k \in 0 .. (n - 1) /\ k >= i /\ k - 1 \in 0 .. (n - 1) /\ k - 1 < i
          /\ k + 1 \in 1 .. n /\ (k + 1) - 1 = k
      BY <1>1, <2>2
    <3>2. K[k] = H[k + 1] /\ K[k - 1] = H[k]
      BY <1>3, <1>4, <2>2, <3>1
    <3>3. t[k] = s[k + 1]
      BY <1>1, <2>2 DEF Before
    <3> QED
      BY <1>2, <3>1, <3>2, <3>3 DEF Steps, n
  <2>3. CASE k > i
    <3>1. /\ k \in 0 .. (n - 1) /\ k >= i /\ k - 1 \in 0 .. (n - 1) /\ k - 1 >= i
          /\ k + 1 \in 1 .. n /\ (k + 1) - 1 = k /\ (k - 1) + 1 = k
      BY <1>1, <2>3
    <3>2. K[k] = H[k + 1] /\ K[k - 1] = H[k]
      <4>1. K[k - 1] = H[(k - 1) + 1]
        BY <1>3, <3>1
      <4> QED
        BY <1>3, <3>1, <4>1
    <3>3. t[k] = s[k + 1]
      BY <1>1, <2>3 DEF Before
    <3> QED
      BY <1>2, <3>1, <3>2, <3>3 DEF Steps, n
  <2> QED
    BY <1>1, <2>1, <2>2, <2>3
<1> HIDE DEF op, n
<1>9. QueueGives(AfterOp(m, op), t, G)
  BY <1>1, <1>5, <1>6, <1>7, <1>8 DEF QueueGives, Steps
<1> QED
  BY <1>9 DEF op

(* A barrier at the head of the queue computes nothing.                    *)
LEMMA RetiredGives ==
  ASSUME NEW s \in Seq(GpuOp), s # <<>>, Head(s).kind = "barrier",
         NEW m, NEW G, QueueGives(m, s, G)
  PROVE  QueueGives(m, Tail(s), G)
<1> DEFINE n == Len(s)
           t == Tail(s)
<1>1. n \in Nat \ {0}
  BY EmptySeq, LenProperties
<1>2. /\ Head(s) = s[1] /\ Len(t) = n - 1
      /\ \A k \in 1 .. (n - 1) : t[k] = s[k + 1]
  BY <1>1, HeadTailProperties
<1>3. PICK H : /\ H[0] = m /\ H[n] = G
               /\ \A k \in 0 .. n : IsMemory(H[k])
               /\ Steps(H, s)
  BY DEF QueueGives
<1> DEFINE K == [k \in 0 .. (n - 1) |-> H[k + 1]]
<1>4. \A k \in 0 .. (n - 1) : K[k] = H[k + 1]
  OBVIOUS
<1> HIDE DEF K, t, n
<1>5. H[1] = m
  <2>1. 1 \in 1 .. n /\ 1 - 1 = 0
    BY <1>1
  <2>2. H[1] = Applied(H[0], s[1])
    BY <1>3, <2>1 DEF Steps, n
  <2> QED
    BY <1>2, <1>3, <2>2 DEF Applied
<1>6. K[0] = m /\ K[n - 1] = G
  BY <1>1, <1>3, <1>4, <1>5
<1>7. ASSUME NEW k \in 0 .. (n - 1) PROVE IsMemory(K[k])
  BY <1>1, <1>3, <1>4
<1>8. ASSUME NEW k \in 1 .. (n - 1) PROVE K[k] = Applied(K[k - 1], t[k])
  <2>1. /\ k \in 0 .. (n - 1) /\ k - 1 \in 0 .. (n - 1) /\ (k - 1) + 1 = k
        /\ k + 1 \in 1 .. n /\ (k + 1) - 1 = k
    BY <1>1
  <2>2. K[k] = H[k + 1] /\ K[k - 1] = H[(k - 1) + 1] /\ t[k] = s[k + 1]
    BY <1>2, <1>4, <2>1
  <2> QED
    BY <1>3, <2>1, <2>2 DEF Steps, n
<1>9. QueueGives(m, t, G)
  BY <1>1, <1>2, <1>6, <1>7, <1>8 DEF QueueGives, Steps
<1> QED
  BY <1>9 DEF t

(* An object that no operation in flight stores to, and that none reads    *)
(* but an upload, which looks at the picture and not at what was there.    *)
Unused(s, o) ==
  \A i \in GpuOps(s) : /\ o \notin Written(s[i])
                       /\ o \in Touched(s[i]) => s[i].fn = "upload"

(* Such an object may be created anew.                                     *)
LEMMA CreateGives ==
  ASSUME NEW s \in Seq(GpuOp), NEW o \in GLObject, NEW v, Unused(s, o),
         NEW m, NEW G, QueueGives(m, s, G)
  PROVE  QueueGives([m EXCEPT ![o] = v], s, [G EXCEPT ![o] = v])
<1> DEFINE n == Len(s)
           With(x) == [x EXCEPT ![o] = v]
<1>1. n \in Nat /\ DOMAIN s = 1 .. n
  BY LenProperties
<1>2. PICK H : /\ H[0] = m /\ H[n] = G
               /\ \A k \in 0 .. n : IsMemory(H[k])
               /\ Steps(H, s)
  BY DEF QueueGives
<1> DEFINE K == [k \in 0 .. n |-> With(H[k])]
<1>3. \A k \in 0 .. n : K[k] = With(H[k])
  OBVIOUS
<1>4. ASSUME NEW x, IsMemory(x)
      PROVE  /\ IsMemory(With(x)) /\ With(x)[o] = v
             /\ \A y \in GLObject : y # o => With(x)[y] = x[y]
  BY <1>4 DEF IsMemory
<1>5. ASSUME NEW x, IsMemory(x), NEW k \in 1 .. n, s[k].kind # "barrier"
      PROVE  AfterOp(With(x), s[k]) = With(AfterOp(x, s[k]))
  <2> DEFINE op == s[k]
             a == AfterOp(With(x), op)
             b == AfterOp(x, op)
  <2>1. o \notin Written(op) /\ (o \in Touched(op) => op.fn = "upload")
    BY <1>1, <1>5 DEF Unused, GpuOps
  <2>2. IsMemory(With(x)) /\ IsMemory(a) /\ IsMemory(b) /\ IsMemory(With(b))
    BY <1>4, <1>5, AfterOne
  <2>3. ASSUME NEW u PROVE Result(With(x), op, u) = Result(x, op, u)
    <3>1. CASE op.fn = "upload"
      BY <3>1 DEF Result
    <3>2. CASE o \notin Touched(op)
      <4>1. \A j \in DOMAIN op.in : op.in[j].name # o
        BY <3>2 DEF Touched, ReadsOf
      <4>2. ASSUME NEW j \in DOMAIN op.in
            PROVE  With(x)[op.in[j].name] = x[op.in[j].name]
        BY <1>5, <4>1 DEF IsMemory
      <4> HIDE DEF op
      <4> QED
        BY <4>2, ResultOfReads
    <3> QED
      BY <2>1, <3>1, <3>2
  <2>4. ASSUME NEW y \in GLObject PROVE a[y] = With(b)[y]
    <3>1. CASE y = o
      <4>1. a[o] = With(x)[o]
        <5> HIDE DEF With, op
        <5> QED
          BY <2>1, <2>2, AfterOne
      <4> QED
        BY <1>4, <1>5, <2>2, <3>1, <4>1
    <3>2. CASE y # o /\ y \notin Written(op)
      <4>1. a[y] = With(x)[y] /\ b[y] = x[y]
        <5> HIDE DEF With, op
        <5> QED
          BY <1>5, <2>2, <3>2, AfterOne
      <4> QED
        BY <1>4, <1>5, <2>2, <3>2, <4>1
    <3>3. CASE y # o /\ y \in Written(op)
      <4> DEFINE u == ResultFor(op, y)
      <4>1. a[y] = Result(With(x), op, u)
        <5> HIDE DEF With, op
        <5> QED
          BY <2>2, <3>3, AfterOne
      <4>2. b[y] = Result(x, op, u)
        <5> HIDE DEF With, op
        <5> QED
          BY <1>5, <3>3, AfterOne
      <4> HIDE DEF u
      <4> QED
        BY <1>4, <2>2, <2>3, <3>3, <4>1, <4>2
    <3> QED
      BY <3>1, <3>2, <3>3
  <2> HIDE DEF a, b, With
  <2>5. [y \in GLObject |-> a[y]] = [y \in GLObject |-> With(b)[y]]
    BY <2>4
  <2>6. a = With(b)
    BY <2>2, <2>5 DEF IsMemory
  <2> QED
    BY <2>6 DEF a, b
<1> HIDE DEF K, With, n
<1>6. ASSUME NEW k \in 1 .. n PROVE K[k] = Applied(K[k - 1], s[k])
  <2>1. k \in 0 .. n /\ k - 1 \in 0 .. n
    BY <1>1
  <2>2. K[k] = With(H[k]) /\ K[k - 1] = With(H[k - 1]) /\ IsMemory(H[k - 1])
        /\ H[k] = Applied(H[k - 1], s[k])
    BY <1>2, <1>3, <2>1 DEF Steps, n
  <2> QED
    BY <1>5, <2>2 DEF Applied
<1>7. /\ K[0] = With(m) /\ K[n] = With(G)
      /\ \A k \in 0 .. n : IsMemory(K[k])
  BY <1>1, <1>2, <1>3, <1>4
<1>8. QueueGives(With(m), s, With(G))
  BY <1>6, <1>7 DEF QueueGives, Steps, n
<1> QED
  BY <1>8 DEF With

-----------------------------------------------------------------------------
(* What is known of encoder e at some point of a method: besides the       *)
(* bindings, what an object will hold once the queue has been executed,    *)
(* the uniform of a program, and the objects nothing in flight needs.      *)
Holds(f, v) == <<"holds", f, v>>
Given(f, v) == <<"given", f, v>>
Spare(f) == <<"spare", f, 0>>

(* The buffers, which no shader touches.                                   *)
BufferField == {"stagingTex", "m_downloadStaging"}

(* What the wrappers leave known that may bind units of their own.         *)
Unbound(F) == {x \in F : x[1] # "bound"}

(* What is known once the fields in D have been stored to, of which the    *)
(* pairs in W say what is in them...                                       *)
Stored(F, D, W) ==
  {Holds(p[1], p[2]) : p \in W} \cup {x \in F : x[1] = "holds" => x[2] \notin D}

(* ... once an operation in flight needs the fields in D...                *)
Engages(F, D) == {x \in F : x[1] = "spare" => x[2] \notin D}

(* ... and once a uniform is set.                                          *)
Sets(F, f, v) == {Given(f, v)} \cup {x \in F : x[1] = "given" => x[2] # f}

(* The units a shader reads, in the order of its inputs.                   *)
InputCount(glsl) ==
  LET i == ShaderInterface(glsl) IN Len(i.fetch) + Len(i.load) + Len(i.buffer)

InputUnit(glsl, k) ==
  LET i == ShaderInterface(glsl)
      n == Len(i.fetch)
      m == n + Len(i.load)
  IN  IF k <= n THEN tex(i.fetch[k])
      ELSE IF k <= m THEN uav(i.load[k - n])
      ELSE <<"bindUavBuffer", i.buffer[k - m]>>

ReadsDefined(glsl) == ShaderInterface(glsl).load = <<>> \/ ~ImageAccessIsEnforced

(* A dispatch of the program in field f with uniform v, on the fields of I *)
(* that hold ins, into the fields of O.                                    *)
Outputs(glsl, v, ins, O) ==
  {<<O[u], Output(glsl, v, u, ins)>> : u \in ShaderInterface(glsl).store}

Inputs(F, glsl, I, ins) ==
  /\ ins = [k \in 1 .. InputCount(glsl) |-> ins[k]]
  /\ \A k \in 1 .. InputCount(glsl) :
       /\ I[k] \in Field \ BufferField
       /\ Bound(InputUnit(glsl, k), I[k]) \in F
       /\ Holds(I[k], ins[k]) \in F

Targets(F, glsl, O) ==
  /\ \A u \in ShaderInterface(glsl).store :
       O[u] \in Field \ BufferField /\ Bound(uav(u), O[u]) \in F
  /\ \A u, w \in ShaderInterface(glsl).store : O[u] = O[w] => u = w

TargetFields(glsl, O) == {O[u] : u \in ShaderInterface(glsl).store}

Computes(r, F, f, v, I, ins, O, G) ==
  LET glsl == FileOf(r, f)
  IN  /\ f \in ProgramField /\ Bound(pso, f) \in F /\ Given(f, v) \in F
      /\ ReadsDefined(glsl)
      /\ Inputs(F, glsl, I, ins)
      /\ Targets(F, glsl, O)
      /\ G \subseteq Engages(Stored(F, TargetFields(glsl, O), Outputs(glsl, v, ins, O)),
                             Field \ BufferField)

BindTells(r, F, c, G) ==
  /\ c.op \in BindOps
  /\ c.op = "bindComputePso" => c.name[2] \in ProgramField /\ Links(FileOf(r, c.name[2]))
  /\ G \subseteq Binds(F, UnitOf(c), c.name[2])

CreateTells(F, c, G) ==
  /\ c.op = "create"
  /\ Spare(c.name[2]) \in F
  /\ G \subseteq Unbound(Stored(F, {c.name[2]}, {<<c.name[2], c.value>>}))

DestroyTells(F, c, G) == c.op = "destroy" /\ G \subseteq Unbound(F)

UploadTells(e, F, c, G) ==
  /\ c.op = "upload"
  /\ G \subseteq Unbound(Engages(Stored(F, {c.dst[2]}, {<<c.dst[2], SourceImage(e)>>}),
                                       {c.dst[2]}))

(* What was read may be known or not.                                      *)
DownloadTells(F, c, G) ==
  /\ c.op = "download"
  /\ \E V : /\ \A v \in V : Holds(c.src[2], v) \in F
            /\ G \subseteq
                 Unbound(Engages(
                   Stored(F, {c.dst[2]},
                          {<<c.dst[2], Output("download", <<c.bytes>>, 0, <<v>>)>> : v \in V}),
                   {c.src[2], c.dst[2]}))

CopyTells(F, c, G) ==
  /\ c.op = "copy"
  /\ G \subseteq Unbound(Engages(Stored(F, {c.dst[2]}, {}), {c.src[2], c.dst[2]}))

PlainTells(F, c, G) ==
  \/ c.op = "barrier" /\ G \subseteq F
  \/ c.op = "finish" /\ \A x \in G : x \in F \/ x[1] = "spare"
  \/ /\ c.op = "uniform"
     /\ \E f \in ProgramField : Bound(pso, f) \in F /\ G \subseteq Sets(F, f, c.value)

DispatchTells(r, F, c, G) ==
  c.op = "dispatch" /\ \E f, v, I, ins, O : Computes(r, F, f, v, I, ins, O, G)

CallTells(e, r, F, c, G) ==
  \/ BindTells(r, F, c, G) \/ CreateTells(F, c, G) \/ DestroyTells(F, c, G)
  \/ UploadTells(e, F, c, G) \/ DownloadTells(F, c, G) \/ CopyTells(F, c, G)
  \/ PlainTells(F, c, G) \/ DispatchTells(r, F, c, G)

(* The calls of s make of what is known in F what is known in G.           *)
Linked(e, r, s, T) == \A k \in DOMAIN s : CallTells(e, r, T[k], s[k], T[k + 1])

Yields(e, r, s, F, G) ==
  /\ s \in Seq(OwnCall(e))
  /\ \E T : T[1] \subseteq F /\ G \subseteq T[Len(s) + 1] /\ Linked(e, r, s, T)

(* What that knowledge says of the state, G being what the queue gives.    *)
Tells(e, F, G) ==
  \A x \in F :
    /\ x[1] = "bound" /\ x[2] \in Unit =>
         /\ NameAt(ctx, x[2]) = HeldName(e, x[3])
         /\ x[2] = pso /\ x[3] \in ProgramField
              => mem[Object(e, x[3])].fn = FileOf(request[e], x[3])
    /\ x[1] = "holds" /\ x[2] \in Field => G[Object(e, x[2])] = x[3]
    /\ x[1] = "given" /\ x[2] \in ProgramField => uniform[Object(e, x[2])] = x[3]
    /\ x[1] = "spare" /\ x[2] \in Field => Unused(stream, Object(e, x[2]))

(* What a call tells is a matter of its kind.                              *)
LEMMA TellsOfKind ==
  ASSUME NEW e, NEW r, NEW F, NEW c, NEW G, CallTells(e, r, F, c, G)
  PROVE  /\ c.op \in BindOps => BindTells(r, F, c, G)
         /\ c.op = "create" => CreateTells(F, c, G)
         /\ c.op = "destroy" => DestroyTells(F, c, G)
         /\ c.op = "upload" => UploadTells(e, F, c, G)
         /\ c.op = "download" => DownloadTells(F, c, G)
         /\ c.op = "copy" => CopyTells(F, c, G)
         /\ c.op \in {"barrier", "finish", "uniform"} => PlainTells(F, c, G)
         /\ c.op = "dispatch" => DispatchTells(r, F, c, G)
BY DEF CallTells, BindTells, CreateTells, DestroyTells, UploadTells, DownloadTells,
       CopyTells, PlainTells, DispatchTells, BindOps

(* It also tells less.                                                     *)
LEMMA TellsLess ==
  ASSUME NEW e, NEW r, NEW F, NEW c, NEW G, NEW H, CallTells(e, r, F, c, G), H \subseteq G
  PROVE  CallTells(e, r, F, c, H)
<1>1. /\ BindTells(r, F, c, G) => BindTells(r, F, c, H)
      /\ CreateTells(F, c, G) => CreateTells(F, c, H)
      /\ DestroyTells(F, c, G) => DestroyTells(F, c, H)
  BY DEF BindTells, CreateTells, DestroyTells
<1>2. /\ UploadTells(e, F, c, G) => UploadTells(e, F, c, H)
      /\ CopyTells(F, c, G) => CopyTells(F, c, H)
      /\ PlainTells(F, c, G) => PlainTells(F, c, H)
  BY DEF UploadTells, CopyTells, PlainTells
<1>3. DownloadTells(F, c, G) => DownloadTells(F, c, H)
  <2>1. \A S : G \subseteq S => H \subseteq S
    OBVIOUS
  <2> QED
    BY <2>1, Zenon DEF DownloadTells
<1>4. ASSUME NEW f, NEW v, NEW I, NEW ins, NEW O, Computes(r, F, f, v, I, ins, O, G)
      PROVE  Computes(r, F, f, v, I, ins, O, H)
  <2> DEFINE S == Engages(Stored(F, TargetFields(FileOf(r, f), O),
                                 Outputs(FileOf(r, f), v, ins, O)), Field \ BufferField)
  <2>1. G \subseteq S
    BY <1>4, Zenon DEF Computes
  <2> HIDE DEF S
  <2>2. H \subseteq S
    BY <2>1
  <2> QED
    BY <1>4, <2>2, Zenon DEF Computes, S
<1>5. DispatchTells(r, F, c, G) => DispatchTells(r, F, c, H)
  BY <1>4, Zenon DEF DispatchTells
<1> QED
  BY <1>1, <1>2, <1>3, <1>5 DEF CallTells

(* No calls tell nothing new.                                              *)
LEMMA YieldsNowhere ==
  ASSUME NEW e, NEW r, NEW F, NEW G, G \subseteq F
  PROVE  Yields(e, r, <<>>, F, G)
<1> DEFINE T == <<F>>
<1>1. T[1] = F /\ Len(<<>>) = 0 /\ DOMAIN <<>> = {} /\ <<>> \in Seq(OwnCall(e))
  OBVIOUS
<1> HIDE DEF T
<1>2. Linked(e, r, <<>>, T)
  BY <1>1 DEF Linked
<1>3. T[1] \subseteq F /\ G \subseteq T[Len(<<>>) + 1]
  BY <1>1
<1> QED
  BY <1>1, <1>2, <1>3 DEF Yields

(* One list of calls after another.                                        *)
LEMMA YieldsOn ==
  ASSUME NEW e, NEW r, NEW s, NEW t, NEW F, NEW G, NEW H,
         Yields(e, r, s, F, G), Yields(e, r, t, G, H)
  PROVE  Yields(e, r, s \o t, F, H)
<1>1. s \in Seq(OwnCall(e)) /\ t \in Seq(OwnCall(e))
  BY DEF Yields
<1>2. PICK T : T[1] \subseteq F /\ G \subseteq T[Len(s) + 1] /\ Linked(e, r, s, T)
  BY DEF Yields
<1>3. PICK U : U[1] \subseteq G /\ H \subseteq U[Len(t) + 1] /\ Linked(e, r, t, U)
  BY DEF Yields
<1> DEFINE w == s \o t
           n == Len(s)
           m == Len(t)
<1>4. /\ w \in Seq(OwnCall(e)) /\ Len(w) = n + m /\ n \in Nat /\ m \in Nat
      /\ DOMAIN s = 1 .. n /\ DOMAIN t = 1 .. m /\ DOMAIN w = 1 .. (n + m)
      /\ \A k \in 1 .. n : w[k] = s[k]
      /\ \A k \in 1 .. (n + m) : k \notin 1 .. n => k - n \in 1 .. m /\ w[k] = t[k - n]
  BY <1>1, ConcatPositions
<1> HIDE DEF w, n, m
<1> DEFINE V == [k \in 1 .. (n + m + 1) |-> IF k <= n THEN T[k] ELSE U[k - n]]
<1>5. ASSUME NEW k \in 1 .. (n + m) PROVE CallTells(e, r, V[k], w[k], V[k + 1])
  <2>1. CASE k < n
    <3>1. V[k] = T[k] /\ V[k + 1] = T[k + 1] /\ w[k] = s[k] /\ k \in DOMAIN s
      BY <1>4, <2>1
    <3> HIDE DEF V
    <3> QED
      BY <1>2, <3>1 DEF Linked
  <2>2. CASE k = n
    <3>1. V[k] = T[k] /\ V[k + 1] = U[1] /\ w[k] = s[k] /\ k \in DOMAIN s
      BY <1>4, <2>2
    <3>2. U[1] \subseteq T[k + 1]
      BY <1>2, <1>3, <2>2 DEF n
    <3> HIDE DEF V
    <3> QED
      BY <1>2, <3>1, <3>2, TellsLess DEF Linked
  <2>3. CASE k > n
    <3>1. /\ V[k] = U[k - n] /\ V[k + 1] = U[(k - n) + 1] /\ w[k] = t[k - n]
          /\ k - n \in DOMAIN t
      BY <1>4, <2>3
    <3> HIDE DEF V
    <3> QED
      BY <1>3, <3>1 DEF Linked
  <2> QED
    BY <1>4, <2>1, <2>2, <2>3
<1>6. V[1] \subseteq F
  <2>1. CASE n = 0
    <3>1. V[1] = U[1]
      BY <1>4, <2>1
    <3> HIDE DEF V
    <3> QED
      BY <1>2, <1>3, <2>1, <3>1 DEF n
  <2>2. CASE n # 0
    <3>1. V[1] = T[1]
      BY <1>4, <2>2
    <3> HIDE DEF V
    <3> QED
      BY <1>2, <3>1
  <2> QED
    BY <2>1, <2>2
<1>7. V[n + m + 1] = U[m + 1]
  BY <1>4
<1> HIDE DEF V
<1>8. Linked(e, r, w, V)
  BY <1>4, <1>5 DEF Linked
<1>9. H \subseteq V[Len(w) + 1]
  BY <1>3, <1>4, <1>7 DEF m
<1> QED
  BY <1>4, <1>6, <1>8, <1>9 DEF Yields, w

(* Knowing more before and less after.                                     *)
LEMMA YieldsWeaker ==
  ASSUME NEW e, NEW r, NEW s, NEW F, NEW G, Yields(e, r, s, F, G),
         NEW K, F \subseteq K, NEW H, H \subseteq G
  PROVE  Yields(e, r, s, K, H)
BY DEF Yields

(* Calls made under a condition.                                           *)
LEMMA YieldsWhen ==
  ASSUME NEW e, NEW r, NEW b \in BOOLEAN, NEW s, NEW F, NEW G,
         b => Yields(e, r, s, F, G), ~b => G \subseteq F
  PROVE  Yields(e, r, When(b, s), F, G)
BY YieldsNowhere DEF When

(* Calls of which each leaves what is known as it is.                      *)
LEMMA YieldsSame ==
  ASSUME NEW e, NEW r, NEW S, NEW s \in Seq(S), S \subseteq OwnCall(e), NEW F,
         \A c \in S : CallTells(e, r, F, c, F), NEW G, G \subseteq F
  PROVE  Yields(e, r, s, F, G)
<1>1. Len(s) \in Nat /\ DOMAIN s = 1 .. Len(s) /\ \A k \in DOMAIN s : s[k] \in S
  BY LenProperties, ElementOfSeq
<1> DEFINE T == [k \in 1 .. (Len(s) + 1) |-> F]
<1>2. \A k \in DOMAIN s : T[k] = F /\ T[k + 1] = F
  BY <1>1
<1>3. T[1] = F /\ T[Len(s) + 1] = F
  BY <1>1
<1> HIDE DEF T
<1>4. Linked(e, r, s, T)
  BY <1>1, <1>2 DEF Linked
<1>5. s \in Seq(OwnCall(e))
  OBVIOUS
<1> QED
  BY <1>3, <1>4, <1>5 DEF Yields

(* After the first call the others go on.                                  *)
LEMMA YieldsRest ==
  ASSUME NEW e, NEW r, NEW s, NEW F, NEW G, Yields(e, r, s, F, G), s # <<>>
  PROVE  \E A, B : /\ B \subseteq F /\ CallTells(e, r, B, Head(s), A)
                   /\ Yields(e, r, Tail(s), A, G)
<1>1. s \in Seq(OwnCall(e)) /\ s # <<>>
  BY DEF Yields
<1>2. PICK T : T[1] \subseteq F /\ G \subseteq T[Len(s) + 1] /\ Linked(e, r, s, T)
  BY DEF Yields
<1>3. Len(s) \in Nat \ {0} /\ DOMAIN s = 1 .. Len(s)
  BY <1>1, EmptySeq, LenProperties
<1>4. /\ Tail(s) \in Seq(OwnCall(e)) /\ Len(Tail(s)) = Len(s) - 1 /\ Head(s) = s[1]
      /\ \A i \in 1 .. Len(Tail(s)) : Tail(s)[i] = s[i + 1]
  BY <1>1, HeadTailProperties
<1>5. DOMAIN Tail(s) = 1 .. (Len(s) - 1)
  BY <1>4, LenProperties
<1> DEFINE U == [k \in 1 .. Len(s) |-> T[k + 1]]
           t == Tail(s)
<1>6. /\ U[1] = T[2] /\ U[Len(s)] = T[Len(s) + 1]
      /\ \A k \in 1 .. (Len(s) - 1) : /\ k + 1 \in 1 .. Len(s) /\ U[k] = T[k + 1]
                                       /\ U[k + 1] = T[(k + 1) + 1]
  BY <1>3
<1> HIDE DEF U, t
<1>7. Linked(e, r, t, U)
  BY <1>2, <1>3, <1>4, <1>5, <1>6 DEF Linked, t
<1>8. Len(t) + 1 = Len(s)
  BY <1>3, <1>4 DEF t
<1>9. Yields(e, r, t, U[1], G)
  BY <1>2, <1>4, <1>6, <1>7, <1>8 DEF Yields, t
<1>10. CallTells(e, r, T[1], Head(s), T[1 + 1])
  BY <1>2, <1>3, <1>4 DEF Linked
<1> QED
  BY <1>2, <1>6, <1>9, <1>10 DEF t

(* A list of one call.                                                     *)
LEMMA YieldsOne ==
  ASSUME NEW e, NEW r, NEW F, NEW G,
         NEW a \in OwnCall(e),
         CallTells(e, r, F, a, G)
  PROVE  Yields(e, r, <<a>>, F, G)
<1> DEFINE s == <<a>>
           T == <<F, G>>
<1>1. s \in Seq(OwnCall(e)) /\ Len(s) = 1 /\ DOMAIN s = 1 .. 1
  OBVIOUS
<1>2. T[1] = F /\ T[2] = G
  OBVIOUS
<1>3. Linked(e, r, s, T)
  BY <1>1 DEF Linked
<1> HIDE DEF s, T
<1> QED
  BY <1>1, <1>2, <1>3 DEF Yields, s

(* Lists put together.                                                     *)
LEMMA TwoCalls ==
  ASSUME NEW a, NEW b
  PROVE  <<a, b>> = <<a>> \o <<b>>
<1> DEFINE S == {a, b}
<1>1. /\ <<a>> \in Seq(S) /\ <<b>> \in Seq(S) /\ <<a, b>> \in Seq(S)
      /\ Len(<<a>>) = 1 /\ Len(<<b>>) = 1 /\ Len(<<a, b>>) = 2
  OBVIOUS
<1> HIDE DEF S
<1>2. /\ <<a>> \o <<b>> \in Seq(S) /\ Len(<<a>> \o <<b>>) = 2
      /\ \A i \in 1 .. 2 : (<<a>> \o <<b>>)[i] = IF i <= 1 THEN a ELSE b
  BY <1>1, ConcatProperties
<1>3. \A i \in 1 .. 2 : (<<a>> \o <<b>>)[i] = <<a, b>>[i]
  BY <1>2
<1> QED
  BY <1>1, <1>2, <1>3, SeqEqual

(* Three.                                                                  *)
LEMMA ThreeCalls ==
  ASSUME NEW a, NEW b, NEW c
  PROVE  <<a, b, c>> = <<a>> \o <<b, c>>
OBVIOUS

(* Four.                                                                   *)
LEMMA FourCalls ==
  ASSUME NEW a, NEW b, NEW c, NEW d
  PROVE  <<a, b, c, d>> = <<a, b>> \o <<c, d>>
OBVIOUS

(* Lists of two to four calls.                                             *)
LEMMA YieldsTwo ==
  ASSUME NEW e, NEW r, NEW F, NEW A, NEW G,
         NEW a \in OwnCall(e), NEW b \in OwnCall(e),
         CallTells(e, r, F, a, A), CallTells(e, r, A, b, G)
  PROVE  Yields(e, r, <<a, b>>, F, G)
<1>1. Yields(e, r, <<a>>, F, A) /\ Yields(e, r, <<b>>, A, G)
  BY YieldsOne
<1>2. <<a>> \o <<b>> = <<a, b>>
  BY TwoCalls
<1>3. Yields(e, r, <<a>> \o <<b>>, F, G)
  BY <1>1, YieldsOn
<1> QED
  BY <1>2, <1>3

(* Of three.                                                               *)
LEMMA YieldsThree ==
  ASSUME NEW e, NEW r, NEW F, NEW A, NEW B, NEW G,
         NEW a \in OwnCall(e), NEW b \in OwnCall(e), NEW c \in OwnCall(e),
         CallTells(e, r, F, a, A), CallTells(e, r, A, b, B), CallTells(e, r, B, c, G)
  PROVE  Yields(e, r, <<a, b, c>>, F, G)
<1>1. Yields(e, r, <<a>>, F, A) /\ Yields(e, r, <<b, c>>, A, G)
  BY YieldsOne, YieldsTwo
<1>2. <<a>> \o <<b, c>> = <<a, b, c>>
  BY ThreeCalls
<1>3. Yields(e, r, <<a>> \o <<b, c>>, F, G)
  BY <1>1, YieldsOn
<1> QED
  BY <1>2, <1>3

(* Of four.                                                                *)
LEMMA YieldsFour ==
  ASSUME NEW e, NEW r, NEW F, NEW A, NEW B, NEW C, NEW G,
         NEW a \in OwnCall(e), NEW b \in OwnCall(e), NEW c \in OwnCall(e),
         NEW d \in OwnCall(e),
         CallTells(e, r, F, a, A), CallTells(e, r, A, b, B), CallTells(e, r, B, c, C),
         CallTells(e, r, C, d, G)
  PROVE  Yields(e, r, <<a, b, c, d>>, F, G)
<1>1. Yields(e, r, <<a, b>>, F, B) /\ Yields(e, r, <<c, d>>, B, G)
  BY YieldsTwo
<1> DEFINE s == <<a, b>>
           t == <<c, d>>
<1>2. <<a, b, c, d>> = s \o t
  BY FourCalls
<1>3. Yields(e, r, s, F, B) /\ Yields(e, r, t, B, G)
  BY <1>1
<1> HIDE DEF s, t
<1> QED
  BY <1>2, <1>3, YieldsOn

(* Nothing more is known after no call.                                    *)
LEMMA YieldsNothing ==
  ASSUME NEW e, NEW r, NEW F, NEW G, Yields(e, r, <<>>, F, G)
  PROVE  G \subseteq F
<1>1. PICK T : T[1] \subseteq F /\ G \subseteq T[Len(<<>>) + 1]
  BY DEF Yields
<1>2. Len(<<>>) + 1 = 1
  OBVIOUS
<1> QED
  BY <1>1, <1>2

(* What is told of more is told of less.                                   *)
LEMMA ToldLess ==
  ASSUME NEW e, NEW F, NEW G, Tells(e, F, G), NEW H, H \subseteq F
  PROVE  Tells(e, H, G)
BY DEF Tells

(* What a call of one encoder leaves to the others: what their objects     *)
(* will hold, their uniforms, and what nothing in flight needs.            *)
Spares(d, G, K) ==
  \A e \in Encoder \ {d}, f \in Field :
    /\ K[Object(e, f)] = G[Object(e, f)]
    /\ uniform'[Object(e, f)] = uniform[Object(e, f)]
    /\ Unused(stream, Object(e, f)) => Unused(stream', Object(e, f))

(* What an operation more leaves unused.                                   *)
LEMMA AppendUnused ==
  ASSUME NEW s \in Seq(GpuOp), NEW op \in GpuOp, NEW o, Unused(s, o),
         op.kind = "barrier" \/ (/\ o \notin Written(op)
                                 /\ o \in Touched(op) => op.fn = "upload")
  PROVE  Unused(Append(s, op), o)
<1>1. /\ Len(s) \in Nat /\ DOMAIN s = 1 .. Len(s)
      /\ DOMAIN Append(s, op) = 1 .. (Len(s) + 1)
      /\ \A k \in 1 .. Len(s) : Append(s, op)[k] = s[k]
      /\ Append(s, op)[Len(s) + 1] = op
  BY AppendPositions
<1> DEFINE t == Append(s, op)
<1> HIDE DEF t
<1>2. ASSUME NEW i \in GpuOps(t)
      PROVE  o \notin Written(t[i]) /\ (o \in Touched(t[i]) => t[i].fn = "upload")
  <2>1. CASE i = Len(s) + 1
    <3>1. t[i] = op /\ op.kind # "barrier"
      BY <1>1, <2>1 DEF t, GpuOps
    <3> QED
      BY <3>1
  <2>2. CASE i # Len(s) + 1
    <3>1. i \in 1 .. Len(s)
      BY <1>1, <2>2 DEF t, GpuOps
    <3>2. t[i] = s[i] /\ i \in GpuOps(s)
      BY <1>1, <3>1 DEF t, GpuOps
    <3> QED
      BY <3>2 DEF Unused
  <2> QED
    BY <2>1, <2>2
<1> QED
  BY <1>2 DEF Unused, t

(* An operation of encoder d joins the queue.                              *)
LEMMA OperationGives ==
  ASSUME TypeOK, NEW d \in Encoder, NEW G, QueueGives(mem, stream, G),
         NEW op \in GpuOp, op.kind # "barrier", Owns(d, op), Enqueue(op),
         mem' = mem, uniform' = uniform
  PROVE  /\ QueueGives(mem', stream', AfterOp(G, op)) /\ IsMemory(G)
         /\ \A o \in GLObject \ Written(op) : AfterOp(G, op)[o] = G[o]
         /\ \A o : Unused(stream, o) /\ o \notin Touched(op) => Unused(stream', o)
         /\ Spares(d, G, AfterOp(G, op))
<1>1. stream \in Seq(GpuOp) /\ stream' = Append(stream, op)
  BY DEF TypeOK, Enqueue
<1>2. QueueGives(mem, stream', AfterOp(G, op)) /\ IsMemory(G)
  BY <1>1, AppendGives DEF Applied
<1>3. \A o \in GLObject \ Written(op) : AfterOp(G, op)[o] = G[o]
  BY <1>2, AfterOne
<1>4. ASSUME NEW o, Unused(stream, o), o \notin Touched(op) PROVE Unused(stream', o)
  BY <1>1, <1>4, AppendUnused DEF Touched
<1>5. ASSUME NEW e \in Encoder \ {d}, NEW f \in Field
      PROVE  /\ AfterOp(G, op)[Object(e, f)] = G[Object(e, f)]
             /\ Unused(stream, Object(e, f)) => Unused(stream', Object(e, f))
  <2>1. Object(e, f) \notin Touched(op) /\ Object(e, f) \in GLObject
    BY <1>5 DEF Owns, Object, GLObject
  <2>2. Object(e, f) \notin Written(op)
    BY <2>1 DEF Touched
  <2> QED
    BY <1>3, <1>4, <2>1, <2>2
<1>6. Spares(d, G, AfterOp(G, op))
  BY <1>5 DEF Spares
<1> QED
  BY <1>2, <1>3, <1>4, <1>6

(* The positions of three sequences of n, m and l elements put together.   *)
PartsOf(s, f, g, h, n, m, l) ==
  /\ n \in Nat /\ m \in Nat /\ l \in Nat /\ DOMAIN s = 1 .. (n + m + l)
  /\ \A k \in 1 .. n : s[k] = f[k]
  /\ \A k \in 1 .. (n + m) : k > n => k - n \in 1 .. m /\ s[k] = g[k - n]
  /\ \A k \in 1 .. (n + m + l) :
       k > n + m => k - (n + m) \in 1 .. l /\ s[k] = h[k - (n + m)]

(* They are those of the parts.                                            *)
LEMMA ThreeParts ==
  ASSUME NEW A, NEW f \in Seq(A), NEW g \in Seq(A), NEW h \in Seq(A),
         NEW n, n = Len(f), NEW m, m = Len(g), NEW l, l = Len(h),
         NEW s, s = (f \o g) \o h
  PROVE  PartsOf(s, f, g, h, n, m, l)
<1>1. n \in Nat /\ m \in Nat /\ l \in Nat
  BY LenProperties
<1> DEFINE p == f \o g
           q == Len(p)
<1>2. /\ p \in Seq(A) /\ q = n + m
      /\ \A k \in 1 .. n : p[k] = f[k]
      /\ \A k \in 1 .. (n + m) : k \notin 1 .. n => p[k] = g[k - n]
  BY ConcatPositions
<1>7. s = p \o h
  OBVIOUS
<1> HIDE DEF p
<1>8. p \in Seq(A)
  BY <1>2
<1>3. /\ DOMAIN s = 1 .. (q + l) /\ DOMAIN p = 1 .. q
      /\ \A k \in DOMAIN p : s[k] = p[k]
      /\ \A k \in DOMAIN s : k \notin DOMAIN p => s[k] = h[k - q]
  BY <1>7, <1>8, ConcatPositions
<1> HIDE DEF q
<1>4. \A k \in 1 .. n : s[k] = f[k]
  <2>1. \A k \in 1 .. n : k \in 1 .. (n + m)
    BY <1>1
  <2> QED
    BY <1>2, <1>3, <2>1
<1>5. \A k \in 1 .. (n + m) : k > n => k - n \in 1 .. m /\ s[k] = g[k - n]
  <2>1. \A k \in 1 .. (n + m) : k > n => k \notin 1 .. n /\ k - n \in 1 .. m
    BY <1>1
  <2> QED
    BY <1>2, <1>3, <2>1
<1>6. \A k \in 1 .. (n + m + l) :
        k > n + m => k - (n + m) \in 1 .. l /\ s[k] = h[k - (n + m)]
  <2>1. \A k \in 1 .. (n + m + l) :
          k > n + m => k \notin 1 .. (n + m) /\ k - (n + m) \in 1 .. l
    BY <1>1
  <2> QED
    BY <1>2, <1>3, <2>1
<1> QED
  BY <1>1, <1>2, <1>3, <1>4, <1>5, <1>6 DEF PartsOf

(* An access through unit u of the context c, of which all is read.        *)
Through(c, u, a) == a.name = NameAt(c, u) /\ \A x : ValueRead(x, a) = x[a.name]

(* What the inputs of a dispatch are, one by one.                          *)
LEMMA DispatchReads ==
  ASSUME NEW glsl, NEW uni, NEW c, ReadsDefined(glsl)
  PROVE  /\ DOMAIN DispatchOp(glsl, uni, c).in = 1 .. InputCount(glsl)
         /\ InputCount(glsl) \in Nat
         /\ \A k \in 1 .. InputCount(glsl) :
              Through(c, InputUnit(glsl, k), DispatchOp(glsl, uni, c).in[k])
<1> DEFINE i == ShaderInterface(glsl)
           fetches == [k \in DOMAIN i.fetch |-> Access("fetch", c.tex[i.fetch[k]], TRUE)]
           loads == [k \in DOMAIN i.load |->
                      LET b == c.img[i.load[k]]
                      IN  Access("image", b.name,
                                 ~(ImageAccessIsEnforced /\ b.access = "Write"))]
           buffers == [k \in DOMAIN i.buffer |-> Access("buffer", c.buf[i.buffer[k]], TRUE)]
           n == Len(i.fetch)
           m == Len(i.load)
           l == Len(i.buffer)
           in == (fetches \o loads) \o buffers
<1>1. /\ i.fetch \in Seq(TexUnits) /\ i.load \in Seq(ImageUnits)
      /\ i.buffer \in Seq(BufferSlots)
  BY InterfaceType
<1>2. /\ n \in Nat /\ DOMAIN i.fetch = 1 .. n
      /\ m \in Nat /\ DOMAIN i.load = 1 .. m
      /\ l \in Nat /\ DOMAIN i.buffer = 1 .. l
  BY <1>1, LenProperties
<1>3. DispatchOp(glsl, uni, c).in = in
  BY DEF DispatchOp, DispatchInputs
<1>9. InputCount(glsl) = n + m + l
  BY DEF InputCount
<1>11. /\ \A k : k <= n => InputUnit(glsl, k) = tex(i.fetch[k])
       /\ \A k : ~(k <= n) /\ k <= n + m => InputUnit(glsl, k) = uav(i.load[k - n])
       /\ \A k : ~(k <= n) /\ ~(k <= n + m) =>
               InputUnit(glsl, k) = <<"bindUavBuffer", i.buffer[k - (n + m)]>>
  BY DEF InputUnit
<1>12. m > 0 => ~ImageAccessIsEnforced
  BY EmptySeq DEF ReadsDefined
<1> HIDE DEF in, n, m, l
<1>4. ASSUME NEW k \in 1 .. n
      PROVE  Through(c, tex(i.fetch[k]), fetches[k])
  <2>1. k \in DOMAIN i.fetch
    BY <1>2
  <2>2. fetches[k].name = c.tex[i.fetch[k]] /\ fetches[k].defined = TRUE
    BY <2>1 DEF Access
  <2>3. NameAt(c, tex(i.fetch[k])) = c.tex[i.fetch[k]]
    BY DEF NameAt, tex
  <2> HIDE DEF fetches, loads, buffers, i
  <2> QED
    BY <2>2, <2>3 DEF Through, ValueRead
<1>5. ASSUME NEW k \in 1 .. m
      PROVE  Through(c, uav(i.load[k]), loads[k])
  <2>1. k \in DOMAIN i.load
    BY <1>2
  <2>2. loads[k] = Access("image", c.img[i.load[k]].name,
                          ~(ImageAccessIsEnforced /\ c.img[i.load[k]].access = "Write"))
    BY <2>1
  <2>3. NameAt(c, uav(i.load[k])) = c.img[i.load[k]].name
    BY DEF NameAt, uav
  <2>4. ~ImageAccessIsEnforced
    BY <1>2, <1>12
  <2> DEFINE b == ~(ImageAccessIsEnforced /\ c.img[i.load[k]].access = "Write")
  <2>5. loads[k].name = NameAt(c, uav(i.load[k])) /\ loads[k].defined = b
    BY <2>2, <2>3 DEF Access
  <2>6. b
    BY <2>4
  <2> HIDE DEF fetches, loads, buffers, i, b
  <2> QED
    BY <2>5, <2>6 DEF Through, ValueRead
<1>6. ASSUME NEW k \in 1 .. l
      PROVE  Through(c, <<"bindUavBuffer", i.buffer[k]>>, buffers[k])
  <2>1. k \in DOMAIN i.buffer
    BY <1>2
  <2>2. buffers[k].name = c.buf[i.buffer[k]] /\ buffers[k].defined = TRUE
    BY <2>1 DEF Access
  <2>3. NameAt(c, <<"bindUavBuffer", i.buffer[k]>>) = c.buf[i.buffer[k]]
    BY DEF NameAt, tex
  <2> HIDE DEF fetches, loads, buffers, i
  <2> QED
    BY <2>2, <2>3 DEF Through, ValueRead
<1> DEFINE A == {fetches[k] : k \in 1 .. n} \cup {loads[k] : k \in 1 .. m}
                  \cup {buffers[k] : k \in 1 .. l}
<1>7. /\ fetches \in Seq(A) /\ Len(fetches) = n
      /\ loads \in Seq(A) /\ Len(loads) = m
      /\ buffers \in Seq(A) /\ Len(buffers) = l
  <2>1. /\ fetches \in [1 .. n -> A] /\ loads \in [1 .. m -> A] /\ buffers \in [1 .. l -> A]
    <3>1. DOMAIN fetches = 1 .. n /\ DOMAIN loads = 1 .. m /\ DOMAIN buffers = 1 .. l
      BY <1>2
    <3>2. /\ fetches = [k \in DOMAIN fetches |-> fetches[k]]
          /\ loads = [k \in DOMAIN loads |-> loads[k]]
          /\ buffers = [k \in DOMAIN buffers |-> buffers[k]]
      OBVIOUS
    <3> HIDE DEF fetches, loads, buffers
    <3> QED
      BY <3>1, <3>2
  <2> HIDE DEF fetches, loads, buffers, A, i
  <2> QED
    BY <1>2, <2>1, FunctionIsSeq
<1> HIDE DEF fetches, loads, buffers, A
<1>8. /\ DOMAIN in = 1 .. (n + m + l)
      /\ \A k \in 1 .. n : in[k] = fetches[k]
      /\ \A k \in 1 .. (n + m) : k > n => k - n \in 1 .. m /\ in[k] = loads[k - n]
      /\ \A k \in 1 .. (n + m + l) :
           k > n + m => k - (n + m) \in 1 .. l /\ in[k] = buffers[k - (n + m)]
  <2>1. in = (fetches \o loads) \o buffers
    BY DEF in
  <2>2. /\ fetches \in Seq(A) /\ n = Len(fetches)
        /\ loads \in Seq(A) /\ m = Len(loads)
        /\ buffers \in Seq(A) /\ l = Len(buffers)
    BY <1>7
  <2>3. PartsOf(in, fetches, loads, buffers, n, m, l)
    BY <2>1, <2>2, ThreeParts, Zenon
  <2> QED
    BY <2>3 DEF PartsOf
<1>10. ASSUME NEW k \in 1 .. (n + m + l)
       PROVE  Through(c, InputUnit(glsl, k), in[k])
  <2> HIDE DEF i
  <2>1. CASE k <= n
    <3>1. k \in 1 .. n
      BY <1>2, <2>1
    <3> QED
      BY <1>4, <1>8, <1>11, <2>1, <3>1
  <2>2. CASE k > n /\ k <= n + m
    <3>1. k \in 1 .. (n + m) /\ ~(k <= n)
      BY <1>2, <2>2
    <3> QED
      BY <1>5, <1>8, <1>11, <2>2, <3>1
  <2>3. CASE k > n + m
    <3>1. ~(k <= n) /\ ~(k <= n + m)
      BY <1>2, <2>3
    <3> QED
      BY <1>6, <1>8, <1>11, <2>3, <3>1
  <2>4. k <= n \/ (k > n /\ k <= n + m) \/ k > n + m
    BY <1>2
  <2> QED
    BY <2>1, <2>2, <2>3, <2>4
<1> HIDE DEF i
<1> QED
  BY <1>2, <1>3, <1>8, <1>9, <1>10

(* The units a shader reads are units of the context.                      *)
LEMMA InputUnits ==
  ASSUME NEW glsl, NEW k \in 1 .. InputCount(glsl)
  PROVE  InputUnit(glsl, k) \in Unit
<1> DEFINE i == ShaderInterface(glsl)
           n == Len(i.fetch)
           m == Len(i.load)
           l == Len(i.buffer)
<1>1. /\ n \in Nat /\ DOMAIN i.fetch = 1 .. n
      /\ m \in Nat /\ DOMAIN i.load = 1 .. m
      /\ l \in Nat /\ DOMAIN i.buffer = 1 .. l
  BY InterfaceType, LenProperties
<1>2. InputCount(glsl) = n + m + l
  BY DEF InputCount
<1>3. /\ k <= n => InputUnit(glsl, k) = tex(i.fetch[k])
      /\ ~(k <= n) /\ k <= n + m => InputUnit(glsl, k) = uav(i.load[k - n])
      /\ ~(k <= n) /\ ~(k <= n + m) =>
           InputUnit(glsl, k) = <<"bindUavBuffer", i.buffer[k - (n + m)]>>
  BY DEF InputUnit
<1>4. /\ \A j \in DOMAIN i.fetch : tex(i.fetch[j]) \in ReadUnits(glsl)
      /\ \A j \in DOMAIN i.load : uav(i.load[j]) \in ReadUnits(glsl)
      /\ \A j \in DOMAIN i.buffer : <<"bindUavBuffer", i.buffer[j]>> \in ReadUnits(glsl)
  BY DEF ReadUnits
<1> HIDE DEF i, n, m, l
<1>5. CASE k <= n
  <2>1. k \in 1 .. n
    BY <1>1, <1>2, <1>5
  <2>2. InputUnit(glsl, k) \in ReadUnits(glsl)
    BY <1>1, <1>3, <1>4, <1>5, <2>1
  <2> QED
    BY <2>2, ShaderUnitsAreUnits
<1>6. CASE ~(k <= n) /\ k <= n + m
  <2>1. k - n \in 1 .. m
    BY <1>1, <1>2, <1>6
  <2>2. InputUnit(glsl, k) \in ReadUnits(glsl)
    BY <1>1, <1>3, <1>4, <1>6, <2>1
  <2> QED
    BY <2>2, ShaderUnitsAreUnits
<1>7. CASE ~(k <= n) /\ ~(k <= n + m)
  <2>1. k - (n + m) \in 1 .. l
    BY <1>1, <1>2, <1>7
  <2>2. InputUnit(glsl, k) \in ReadUnits(glsl)
    BY <1>1, <1>3, <1>4, <1>7, <2>1
  <2> QED
    BY <2>2, ShaderUnitsAreUnits
<1> QED
  BY <1>5, <1>6, <1>7

(* What is bound to the program in use.                                    *)
LEMMA ProgramTold ==
  ASSUME NEW d \in Encoder, NEW F, NEW G, Tells(d, F, G), NEW f \in ProgramField,
         Bound(pso, f) \in F
  PROVE  /\ ctx.pso = Object(d, f) /\ ctx.pso # NoObject /\ f \in Field
         /\ mem[Object(d, f)].fn = FileOf(request[d], f)
<1>1. pso \in Unit /\ NameAt(ctx, pso) = ctx.pso
  BY DEF Unit, NameAt, pso
<1>2. /\ Bound(pso, f)[1] = "bound" /\ Bound(pso, f)[2] = pso /\ Bound(pso, f)[3] = f
  BY DEF Bound
<1>3. /\ NameAt(ctx, pso) = HeldName(d, f)
      /\ mem[Object(d, f)].fn = FileOf(request[d], f)
  BY <1>1, <1>2 DEF Tells
<1>4. f # Null /\ f \in Field
  BY DEF ProgramField, Null, Field
<1> QED
  BY <1>1, <1>3, <1>4 DEF HeldName, Object, NoObject

(* What else is bound and held.                                            *)
LEMMA UnitTold ==
  ASSUME NEW d, NEW F, NEW G, Tells(d, F, G), NEW u \in Unit, NEW f \in Field,
         Bound(u, f) \in F
  PROVE  NameAt(ctx, u) = Object(d, f)
<1>1. /\ Bound(u, f)[1] = "bound" /\ Bound(u, f)[2] = u /\ Bound(u, f)[3] = f
  BY DEF Bound
<1>2. NameAt(ctx, u) = HeldName(d, f)
  BY <1>1 DEF Tells
<1>3. f # Null
  BY DEF Null, Field
<1> QED
  BY <1>2, <1>3 DEF HeldName

(* An object of an encoder holds what it was told to.                      *)
LEMMA ContentTold ==
  ASSUME NEW d, NEW F, NEW G, Tells(d, F, G), NEW f \in Field, NEW v
  PROVE  /\ Holds(f, v) \in F => G[Object(d, f)] = v
         /\ Given(f, v) \in F /\ f \in ProgramField => uniform[Object(d, f)] = v
         /\ Spare(f) \in F => Unused(stream, Object(d, f))
<1>1. /\ Holds(f, v)[1] = "holds" /\ Holds(f, v)[2] = f /\ Holds(f, v)[3] = v
      /\ Given(f, v)[1] = "given" /\ Given(f, v)[2] = f /\ Given(f, v)[3] = v
      /\ Spare(f)[1] = "spare" /\ Spare(f)[2] = f
  BY DEF Holds, Given, Spare
<1> QED
  BY <1>1 DEF Tells

(* The shaders are no transfers.                                           *)
LEMMA FilesAreShaders ==
  ASSUME NEW r, NEW f
  PROVE  FileOf(r, f) \in Shader /\ FileOf(r, f) \notin {"copy", "upload", "download"}
BY DEF FileOf, Shader

(* What an operation of encoder d, that makes K of G, stores the values in *)
(* W to the fields in D and needs those in E, does to all of them.         *)
Moves(d, G, K, D, W, E) ==
  /\ \A p \in W : p[1] \in Field => K[Object(d, p[1])] = p[2]
  /\ \A f \in Field \ D : K[Object(d, f)] = G[Object(d, f)]
  /\ uniform' = uniform
  /\ \A f \in Field \ E : Unused(stream, Object(d, f)) => Unused(stream', Object(d, f))

(* What is told after an operation of the encoder joined the queue.        *)
LEMMA ToldAfter ==
  ASSUME NEW d \in Encoder, NEW F, NEW G, Tells(d, F, G), NEW K, NEW D, NEW W, NEW E, NEW C,
         C \subseteq Engages(Stored(F, D, W), E),
         Moves(d, G, K, D, W, E),
         \/ UNCHANGED <<ctx, mem, request>>
         \/ \A x \in C : x[1] # "bound"
  PROVE  Tells(d, C, K)'
<1>a. /\ \A p \in W : p[1] \in Field => K[Object(d, p[1])] = p[2]
      /\ \A f \in Field \ D : K[Object(d, f)] = G[Object(d, f)]
      /\ uniform' = uniform
      /\ \A f \in Field \ E : Unused(stream, Object(d, f)) => Unused(stream', Object(d, f))
  BY DEF Moves
<1>1. ASSUME NEW x \in C
      PROVE  \/ x \in F /\ (x[1] = "holds" => x[2] \notin D)
                        /\ (x[1] = "spare" => x[2] \notin E)
             \/ \E p \in W : x = Holds(p[1], p[2])
  BY DEF Engages, Stored
<1>2. ASSUME NEW x \in C, x[1] = "holds", x[2] \in Field
      PROVE  K[Object(d, x[2])] = x[3]
  <2>1. CASE x \in F /\ x[2] \notin D
    <3>1. G[Object(d, x[2])] = x[3]
      BY <1>2, <2>1 DEF Tells
    <3> QED
      BY <1>a, <1>2, <2>1, <3>1
  <2>2. ASSUME NEW p \in W, x = Holds(p[1], p[2])
        PROVE  K[Object(d, x[2])] = x[3]
    <3>1. x[2] = p[1] /\ x[3] = p[2]
      BY <2>2 DEF Holds
    <3> QED
      BY <1>a, <1>2, <3>1
  <2> QED
    BY <1>1, <1>2, <2>1, <2>2
<1>3. \A x \in C : x[1] # "holds" =>
        x \in F /\ (x[1] = "spare" => x[2] \notin E)
  BY <1>1 DEF Holds
<1>4. ASSUME NEW x \in C, x[1] = "given", x[2] \in ProgramField
      PROVE  uniform'[Object(d, x[2])] = x[3]
  BY <1>a, <1>3, <1>4 DEF Tells
<1>5. ASSUME NEW x \in C, x[1] = "spare", x[2] \in Field
      PROVE  Unused(stream', Object(d, x[2]))
  <2>1. Unused(stream, Object(d, x[2])) /\ x[2] \notin E
    BY <1>3, <1>5 DEF Tells
  <2> QED
    BY <1>a, <1>5, <2>1
<1>6. ASSUME NEW x \in C, x[1] = "bound", x[2] \in Unit
      PROVE  /\ NameAt(ctx', x[2]) = HeldName(d, x[3])
             /\ x[2] = pso /\ x[3] \in ProgramField
                  => mem'[Object(d, x[3])].fn = FileOf(request'[d], x[3])
  <2>1. x \in F /\ UNCHANGED <<ctx, mem, request>>
    BY <1>3, <1>6
  <2> QED
    BY <1>6, <2>1 DEF Tells
<1> QED
  BY <1>2, <1>4, <1>5, <1>6 DEF Tells

(* What a dispatch stores, computed from what its units hold.              *)
LEMMA DispatchStores ==
  ASSUME NEW d \in Encoder, NEW F, NEW G, IsMemory(G), Tells(d, F, G),
         NEW r, NEW f, NEW v, NEW I, NEW ins, NEW O, NEW C,
         Computes(r, F, f, v, I, ins, O, C),
         NEW op, op = DispatchOp(FileOf(r, f), v, ctx)
  PROVE  /\ \A o \in Touched(op) : \E x \in Field \ BufferField : o = Object(d, x)
         /\ \A x \in Field \ TargetFields(FileOf(r, f), O) : Object(d, x) \notin Written(op)
         /\ \A p \in Outputs(FileOf(r, f), v, ins, O) :
              p[1] \in Field => AfterOp(G, op)[Object(d, p[1])] = p[2]
<1> DEFINE glsl == FileOf(r, f)
           S == ShaderInterface(glsl).store
           n == InputCount(glsl)
<1>1. /\ ReadsDefined(glsl) /\ Inputs(F, glsl, I, ins) /\ Targets(F, glsl, O)
  BY Zenon DEF Computes
<1>2. /\ op.fn = glsl /\ op.uni = v
      /\ op.out = [u \in S |-> Access("image", ctx.img[u].name, TRUE)]
  BY DEF DispatchOp
<1>3. /\ DOMAIN op.in = 1 .. n
      /\ \A k \in 1 .. n : Through(ctx, InputUnit(glsl, k), op.in[k])
  BY <1>1, DispatchReads
<1>4. glsl \notin {"copy", "upload", "download"}
  BY FilesAreShaders
<1> HIDE DEF glsl, n
<1>5. ASSUME NEW k \in 1 .. n
      PROVE  /\ I[k] \in Field \ BufferField
             /\ op.in[k].name = Object(d, I[k]) /\ ValueRead(G, op.in[k]) = ins[k]
  <2>1. /\ I[k] \in Field \ BufferField
        /\ Bound(InputUnit(glsl, k), I[k]) \in F /\ Holds(I[k], ins[k]) \in F
    BY <1>1, Zenon DEF Inputs, n
  <2>2. NameAt(ctx, InputUnit(glsl, k)) = Object(d, I[k])
    BY <2>1, InputUnits, UnitTold DEF n
  <2>3. G[Object(d, I[k])] = ins[k]
    BY <2>1, ContentTold
  <2> QED
    BY <1>3, <2>1, <2>2, <2>3 DEF Through
<1>6. ASSUME NEW u \in S
      PROVE  /\ O[u] \in Field \ BufferField
             /\ op.out[u].name = Object(d, O[u])
  <2>1. O[u] \in Field \ BufferField /\ Bound(uav(u), O[u]) \in F
    BY <1>1 DEF Targets
  <2>2. uav(u) \in Unit
    <3>1. uav(u) \in WriteUnits(glsl)
      BY DEF WriteUnits
    <3> QED
      BY <3>1, ShaderUnitsAreUnits
  <2>3. NameAt(ctx, uav(u)) = Object(d, O[u])
    BY <2>1, <2>2, UnitTold
  <2>4. NameAt(ctx, uav(u)) = ctx.img[u].name
    BY DEF NameAt, uav
  <2> QED
    BY <1>2, <2>1, <2>3, <2>4 DEF Access
<1>7. \A u, w \in S : O[u] = O[w] => u = w
  BY <1>1 DEF Targets
<1>8. ins = [k \in 1 .. n |-> ins[k]]
  BY <1>1, Zenon DEF Inputs, n
<1>9. TargetFields(glsl, O) = {O[u] : u \in S}
      /\ Outputs(glsl, v, ins, O) = {<<O[u], Output(glsl, v, u, ins)>> : u \in S}
  BY DEF TargetFields, Outputs
<1>10. DOMAIN op.out = S
  BY <1>2
<1> HIDE DEF S
<1>11. \A o : o \in Written(op) <=> \E u \in S : o = Object(d, O[u])
  BY <1>6, <1>10 DEF Written, WritesOf
<1>12. \A o \in Touched(op) : \E x \in Field \ BufferField : o = Object(d, x)
  <2>1. \A o \in Written(op) : \E x \in Field \ BufferField : o = Object(d, x)
    BY <1>6, <1>11
  <2>2. \A a \in ReadsOf(op) : \E x \in Field \ BufferField : a.name = Object(d, x)
    BY <1>3, <1>5 DEF ReadsOf
  <2> QED
    BY <2>1, <2>2 DEF Touched
<1>13. ASSUME NEW x \in Field \ TargetFields(glsl, O)
       PROVE  Object(d, x) \notin Written(op)
  BY <1>9, <1>11 DEF Object
<1>14. ASSUME NEW u \in S
       PROVE  AfterOp(G, op)[Object(d, O[u])] = Output(glsl, v, u, ins)
  <2> DEFINE o == Object(d, O[u])
  <2>1. o \in Written(op) /\ o \in GLObject
    BY <1>6, <1>11 DEF Object, GLObject
  <2>2. ResultFor(op, o) = u
    <3>1. \A w \in DOMAIN op.out : op.out[w].name = o <=> w = u
      BY <1>6, <1>7, <1>10 DEF Object
    <3> HIDE DEF o
    <3>2. ResultFor(op, o) \in DOMAIN op.out /\ op.out[ResultFor(op, o)].name = o
      BY <1>10, <3>1 DEF ResultFor
    <3> QED
      BY <3>1, <3>2
  <2>3. Result(G, op, u) = Output(glsl, v, u, ins)
    <3>1. [k \in DOMAIN op.in |-> ValueRead(G, op.in[k])] = ins
      <4>1. [k \in DOMAIN op.in |-> ValueRead(G, op.in[k])] = [k \in 1 .. n |-> ins[k]]
        BY <1>3, <1>5
      <4> QED
        BY <1>8, <4>1
    <3> QED
      BY <1>2, <1>4, <3>1 DEF Result
  <2> HIDE DEF o
  <2>4. AfterOp(G, op)[o] = Result(G, op, ResultFor(op, o))
    BY <2>1, AfterOne
  <2> QED
    BY <2>2, <2>3, <2>4 DEF o
<1>15. \A p \in Outputs(glsl, v, ins, O) : AfterOp(G, op)[Object(d, p[1])] = p[2]
  BY <1>9, <1>14
<1> QED
  BY <1>12, <1>13, <1>15 DEF glsl

(* A call gives something to the queue: what is known after it is told of  *)
(* what the queue gives then, and nothing else changes for the others.     *)
CallGives(d, G, C) ==
  \E K : QueueGives(mem', stream', K) /\ Tells(d, C, K)' /\ Spares(d, G, K)

(* A call that leaves the queue and the memory alone.                      *)
LEMMA QuietGives ==
  ASSUME NEW d, NEW G, QueueGives(mem, stream, G),
         UNCHANGED <<mem, stream>>,
         \A e \in Encoder \ {d}, f \in Field :
           uniform'[Object(e, f)] = uniform[Object(e, f)],
         NEW C, Tells(d, C, G)'
  PROVE  CallGives(d, G, C)
<1>1. Spares(d, G, G)
  BY DEF Spares
<1>2. QueueGives(mem', stream', G)
  OBVIOUS
<1> QED
  BY <1>1, <1>2 DEF CallGives

(* A dispatch, of operation op, that makes of G what K is.                 *)
LEMMA DispatchTold ==
  ASSUME TypeOK, NEW d \in Encoder, NEW F, NEW G, Tells(d, F, G),
         QueueGives(mem, stream, G), NEW r, r = request[d],
         NEW f, NEW v, NEW I, NEW ins, NEW O, NEW C,
         Computes(r, F, f, v, I, ins, O, C), IssueDispatch,
         NEW op, op = DispatchOp(FileOf(r, f), v, ctx), NEW K, K = AfterOp(G, op)
  PROVE  CallGives(d, G, C)
<1> DEFINE glsl == FileOf(r, f)
           D == TargetFields(glsl, O)
           W == Outputs(glsl, v, ins, O)
           E == Field \ BufferField
<1>1. /\ f \in ProgramField /\ Bound(pso, f) \in F /\ Given(f, v) \in F
      /\ C \subseteq Engages(Stored(F, D, W), E)
  BY Zenon DEF Computes
<1>2. /\ ctx.pso = Object(d, f) /\ ctx.pso # NoObject /\ f \in Field
      /\ mem[Object(d, f)].fn = glsl
  BY <1>1, ProgramTold
<1>3. uniform[Object(d, f)] = v
  BY <1>1, <1>2, ContentTold
<1>4. Enqueue(op) /\ uniform' = uniform /\ mem' = mem /\ ctx' = ctx /\ request' = request
  <2>1. Enqueue(DispatchOp(mem[ctx.pso].fn, uniform[ctx.pso], ctx))
        /\ UNCHANGED <<ctx, uniform, live, mem, request>>
    BY <1>2 DEF IssueDispatch, Issue, context
  <2> QED
    BY <1>2, <1>3, <2>1
<1>5. op \in GpuOp /\ op.kind # "barrier"
  <2>1. glsl \in Producer
    BY FilesAreShaders DEF Producer
  <2>2. v \in Seq(Int)
    <3>1. Object(d, f) \in GLObject
      BY <1>2 DEF Object, GLObject
    <3> QED
      BY <1>3, <3>1 DEF TypeOK
  <2>3. ctx \in Context
    BY DEF TypeOK, Context
  <2>4. op \in GpuOp
    BY <2>1, <2>2, <2>3, DispatchType
  <2>5. op.kind = "dispatch"
    BY DEF DispatchOp
  <2> QED
    BY <2>4, <2>5
<1>6. IsMemory(G)
  BY <1>5, AppendGives DEF TypeOK
<1>7. /\ \A o \in Touched(op) : \E x \in E : o = Object(d, x)
      /\ \A x \in Field \ D : Object(d, x) \notin Written(op)
      /\ \A p \in W : p[1] \in Field => K[Object(d, p[1])] = p[2]
  BY <1>6, DispatchStores
<1>8. Owns(d, op)
  BY <1>7 DEF Owns, Object
<1> HIDE DEF D, W, glsl
<1>9. /\ QueueGives(mem', stream', K)
      /\ \A o \in GLObject \ Written(op) : K[o] = G[o]
      /\ \A o : Unused(stream, o) /\ o \notin Touched(op) => Unused(stream', o)
      /\ Spares(d, G, K)
  BY <1>4, <1>5, <1>8, OperationGives
<1>10. Tells(d, C, K)'
  <2>1. \A x \in Field \ D : K[Object(d, x)] = G[Object(d, x)]
    BY <1>7, <1>9 DEF Object, GLObject
  <2>2. \A x \in Field \ E : Unused(stream, Object(d, x)) => Unused(stream', Object(d, x))
    BY <1>7, <1>9 DEF Object
  <2>3. UNCHANGED <<ctx, mem, request>>
    BY <1>4
  <2>4. C \subseteq Engages(Stored(F, D, W), E)
    BY <1>1
  <2>5. \A p \in W : p[1] \in Field => K[Object(d, p[1])] = p[2]
    BY <1>7
  <2>6. uniform' = uniform
    BY <1>4
  <2> HIDE DEF E
  <2>7. Moves(d, G, K, D, W, E)
    BY <2>1, <2>2, <2>5, <2>6 DEF Moves
  <2> QED
    BY <2>3, <2>4, <2>7, ToldAfter
<1> QED
  BY <1>9, <1>10, Zenon DEF CallGives

(* A dispatch.                                                             *)
LEMMA DispatchGives ==
  ASSUME TypeOK, NEW d \in Encoder, NEW F, NEW G, Tells(d, F, G),
         QueueGives(mem, stream, G), NEW c, NEW C,
         DispatchTells(request[d], F, c, C), IssueDispatch
  PROVE  CallGives(d, G, C)
<1>1. PICK r : r = request[d]
  OBVIOUS
<1>2. PICK f, v, I, ins, O : Computes(r, F, f, v, I, ins, O, C)
  BY <1>1 DEF DispatchTells
<1>3. PICK op : op = DispatchOp(FileOf(r, f), v, ctx)
  OBVIOUS
<1>4. PICK K : K = AfterOp(G, op)
  OBVIOUS
<1> QED
  BY <1>1, <1>2, <1>3, <1>4, DispatchTold

(* A transfer by the API.                                                  *)
Transfers(op, fn, uni, from, src, to, dst) == op = ApiOp(fn, uni, from, src, to, dst)

(* What a transfer touches.                                                *)
LEMMA TransferTouches ==
  ASSUME NEW fn, NEW uni, NEW from, NEW src, NEW to, NEW dst,
         NEW op, Transfers(op, fn, uni, from, src, to, dst)
  PROVE  /\ op.kind # "barrier" /\ op.fn = fn
         /\ Written(op) = {dst} /\ Touched(op) = {src, dst}
<1> DEFINE a == Access(from, src, TRUE)
           b == Access(to, dst, TRUE)
<1>a. /\ op.kind = "api" /\ op.fn = fn /\ op.uni = uni
      /\ op.in = <<a>> /\ op.out = [u \in {0} |-> b]
  BY DEF ApiOp, Transfers
<1> HIDE DEF a, b
<1>b. DOMAIN <<a>> = {1} /\ <<a>>[1] = a
  OBVIOUS
<1>1. /\ op.kind = "api" /\ op.fn = fn /\ op.uni = uni
      /\ DOMAIN op.in = {1} /\ DOMAIN op.out = {0}
  BY <1>a, <1>b
<1>2. op.in[1] = a /\ op.out[0] = b
  BY <1>a, <1>b
<1>3. a.name = src /\ b.name = dst
  BY DEF Access, a, b
<1>4. Written(op) = {dst} /\ Touched(op) = {src, dst}
  <2>1. WritesOf(op) = {b}
    BY <1>1, <1>2 DEF WritesOf
  <2>2. ReadsOf(op) = {a}
    BY <1>1, <1>2 DEF ReadsOf
  <2> QED
    BY <1>3, <2>1, <2>2 DEF Written, Touched
<1> QED
  BY <1>1, <1>4

(* What it stores is computed from what its source holds.                  *)
LEMMA TransferStores ==
  ASSUME NEW fn, NEW uni, NEW from, NEW src, NEW to, NEW dst,
         NEW op, Transfers(op, fn, uni, from, src, to, dst),
         NEW G, IsMemory(G), dst \in GLObject
  PROVE  AfterOp(G, op)[dst] = Result(G, op, 0)
<1> DEFINE a == Access(from, src, TRUE)
           b == Access(to, dst, TRUE)
<1>a. /\ op.kind = "api" /\ op.fn = fn /\ op.uni = uni
      /\ op.in = <<a>> /\ op.out = [u \in {0} |-> b]
  BY DEF ApiOp, Transfers
<1> HIDE DEF a, b
<1>b. DOMAIN <<a>> = {1} /\ <<a>>[1] = a
  OBVIOUS
<1>1. /\ op.kind = "api" /\ op.fn = fn /\ op.uni = uni
      /\ DOMAIN op.in = {1} /\ DOMAIN op.out = {0}
  BY <1>a, <1>b
<1>2. op.in[1] = a /\ op.out[0] = b
  BY <1>a, <1>b
<1>3. a.name = src /\ b.name = dst
  BY DEF Access, a, b
<1>4. Written(op) = {dst}
  BY TransferTouches
<1>5. AfterOp(G, op)[dst] = Result(G, op, 0)
  <2>1. AfterOp(G, op)[dst] = Result(G, op, ResultFor(op, dst))
    BY <1>4, AfterOne
  <2>2. ResultFor(op, dst) = 0
    BY <1>1, <1>2, <1>3 DEF ResultFor
  <2> QED
    BY <2>1, <2>2
<1> QED
  BY <1>5

(* What it reads.                                                          *)
LEMMA TransferReads ==
  ASSUME NEW fn, NEW uni, NEW from, NEW src, NEW to, NEW dst,
         NEW op, Transfers(op, fn, uni, from, src, to, dst), NEW G
  PROVE  /\ op.fn = fn /\ op.uni = uni
         /\ [k \in DOMAIN op.in |-> ValueRead(G, op.in[k])] = <<G[src]>>
<1> DEFINE a == Access(from, src, TRUE)
           b == Access(to, dst, TRUE)
<1>a. /\ op.kind = "api" /\ op.fn = fn /\ op.uni = uni
      /\ op.in = <<a>> /\ op.out = [u \in {0} |-> b]
  BY DEF ApiOp, Transfers
<1> HIDE DEF a, b
<1>b. DOMAIN <<a>> = {1} /\ <<a>>[1] = a
  OBVIOUS
<1>1. /\ op.kind = "api" /\ op.fn = fn /\ op.uni = uni
      /\ DOMAIN op.in = {1} /\ DOMAIN op.out = {0}
  BY <1>a, <1>b
<1>2. op.in[1] = a /\ op.out[0] = b
  BY <1>a, <1>b
<1>3. a.name = src /\ b.name = dst /\ ValueRead(G, a) = G[src]
  BY DEF Access, ValueRead, a, b
<1>6. [k \in DOMAIN op.in |-> ValueRead(G, op.in[k])] = <<G[src]>>
  <2>1. [k \in DOMAIN op.in |-> ValueRead(G, op.in[k])] = [k \in {1} |-> G[src]]
    BY <1>1, <1>2, <1>3
  <2>2. [k \in {1} |-> G[src]] = <<G[src]>>
    OBVIOUS
  <2> QED
    BY <2>1, <2>2
<1> QED
  BY <1>1, <1>2, <1>3, <1>6

(* An upload stores the picture.                                           *)
LEMMA UploadStores ==
  ASSUME NEW uni, NEW from, NEW src, NEW to, NEW dst,
         NEW op, Transfers(op, "upload", uni, from, src, to, dst),
         NEW G, IsMemory(G), dst \in GLObject
  PROVE  AfterOp(G, op)[dst] = SourceImage(dst[1])
<1>1. AfterOp(G, op)[dst] = Result(G, op, 0)
  BY TransferStores
<1>2. op.fn = "upload" /\ op.out[0].name = dst
  BY DEF Transfers, ApiOp, Access
<1> QED
  BY <1>1, <1>2 DEF Result

(* A download stores what the texture holds, in the size asked for.        *)
LEMMA DownloadStores ==
  ASSUME NEW uni, NEW from, NEW src, NEW to, NEW dst,
         NEW op, Transfers(op, "download", uni, from, src, to, dst),
         NEW G, IsMemory(G), dst \in GLObject
  PROVE  AfterOp(G, op)[dst] = Output("download", uni, 0, <<G[src]>>)
<1>1. AfterOp(G, op)[dst] = Result(G, op, 0)
  BY TransferStores
<1>2. /\ op.fn = "download" /\ op.uni = uni
      /\ [k \in DOMAIN op.in |-> ValueRead(G, op.in[k])] = <<G[src]>>
  BY TransferReads
<1> QED
  BY <1>1, <1>2 DEF Result

(* What a queue gives is a memory.                                         *)
LEMMA GivesMemory ==
  ASSUME NEW s \in Seq(GpuOp), NEW m, NEW G, QueueGives(m, s, G)
  PROVE  IsMemory(G)
<1>1. Len(s) \in 0 .. Len(s)
  OBVIOUS
<1> QED
  BY <1>1 DEF QueueGives

(* A binding.                                                              *)
LEMMA BindCall ==
  ASSUME TypeOK, ProgramsFit, CallsNameLiveObjects, calls # <<>>,
         NEW d \in Encoder, call \in OwnCall(d), NEW F, NEW G, Tells(d, F, G),
         QueueGives(mem, stream, G), NEW C, BindTells(request[d], F, call, C), IssueBind
  PROVE  CallGives(d, G, C)
<1> DEFINE u == UnitOf(call)
           f == call.name[2]
<1>1. call.op \in BindOps /\ UNCHANGED <<request, stream, uniform, mem>>
  BY DEF IssueBind, Issue, BindOps
<1>2. /\ u \in Unit /\ call.name \in {d} \X Field
      /\ \A w \in Unit \ {u} : NameAt(ctx', w) = NameAt(ctx, w)
      /\ call.op # "bindComputePso" \/ Links(mem[call.name].fn)
           => NameAt(ctx', u) = call.name
  BY BindNames
<1>3. call.name \in live /\ call.name = Object(d, f) /\ f # Null
  BY <1>1, <1>2 DEF CallsNameLiveObjects, BindOps, Object, Field, Null
<1>4. f \in ProgramField => mem[Object(d, f)].fn = FileOf(request[d], f)
  BY <1>3 DEF ProgramsFit
<1>5. /\ call.op = "bindComputePso" => f \in ProgramField /\ Links(FileOf(request[d], f))
      /\ C \subseteq Binds(F, u, f)
  BY DEF BindTells
<1>6. NameAt(ctx', u) = HeldName(d, f)
  BY <1>2, <1>3, <1>4, <1>5 DEF HeldName
<1> HIDE DEF u, f
<1>7. \A x \in C : x = Bound(u, f) \/ (x \in F /\ (x[1] = "bound" => x[2] # u))
  BY <1>5 DEF Binds, KeptByBind
<1>8. ASSUME NEW x \in C, x[1] = "bound", x[2] \in Unit
      PROVE  /\ NameAt(ctx', x[2]) = HeldName(d, x[3])
             /\ x[2] = pso /\ x[3] \in ProgramField
                  => mem'[Object(d, x[3])].fn = FileOf(request'[d], x[3])
  <2>1. CASE x = Bound(u, f)
    BY <1>1, <1>4, <1>6, <2>1 DEF Bound
  <2>2. CASE x \in F /\ x[2] # u
    BY <1>1, <1>2, <1>8, <2>2 DEF Tells
  <2> QED
    BY <1>7, <1>8, <2>1, <2>2
<1>9. \A x \in C : x[1] # "bound" => x \in F
  BY <1>7 DEF Bound
<1>10. Tells(d, C, G)'
  BY <1>1, <1>8, <1>9 DEF Tells
<1> QED
  BY <1>1, <1>10, QuietGives

(* The generation of an object nothing in flight needs.                    *)
LEMMA CreateCall ==
  ASSUME TypeOK, calls # <<>>,
         NEW d \in Encoder, call \in OwnCall(d), NEW F, NEW G, Tells(d, F, G),
         QueueGives(mem, stream, G), NEW C, CreateTells(F, call, C), IssueCreate
  PROVE  CallGives(d, G, C)
<1>1. PICK c : c = call
  OBVIOUS
<1>2. /\ c.op = "create" /\ UNCHANGED <<request, stream, uniform>>
      /\ mem' = [mem EXCEPT ![c.name] = c.value]
  BY <1>1 DEF IssueCreate, Issue
<1>3. PICK f : f = c.name[2]
  OBVIOUS
<1>4. c.name = Object(d, f) /\ f \in Field /\ c.name \in GLObject
  <2>1. c \in Call({d} \X Field)
    BY <1>1 DEF OwnCall
  <2>2. c.name \in {d} \X Field
    BY <1>2, <2>1, CallFields
  <2> QED
    BY <1>3, <2>2 DEF Object, GLObject
<1>5. Spare(f) \in F /\ C \subseteq Unbound(Stored(F, {f}, {<<f, c.value>>}))
  BY <1>1, <1>3 DEF CreateTells
<1>6. Unused(stream, c.name)
  BY <1>4, <1>5, ContentTold
<1>7. PICK K : K = [G EXCEPT ![c.name] = c.value]
  OBVIOUS
<1>8. QueueGives(mem', stream', K)
  BY <1>2, <1>4, <1>6, <1>7, CreateGives DEF TypeOK
<1>9. IsMemory(G)
  BY GivesMemory DEF TypeOK
<1>10. K[c.name] = c.value /\ \A o \in GLObject \ {c.name} : K[o] = G[o]
  BY <1>4, <1>7, <1>9 DEF IsMemory
<1>11. Spares(d, G, K)
  BY <1>2, <1>4, <1>10 DEF Spares, Object, GLObject
<1>12. Tells(d, C, K)'
  <2> DEFINE D == {f}
             W == {<<f, c.value>>}
             E == {}
  <2>1. C \subseteq Engages(Stored(F, D, W), E)
    BY <1>5 DEF Engages, Unbound
  <2>2. \A x \in C : x[1] # "bound"
    BY <1>5 DEF Unbound
  <2>3. \A p \in W : p[1] \in Field => K[Object(d, p[1])] = p[2]
    BY <1>4, <1>10
  <2>4. \A x \in Field \ D : K[Object(d, x)] = G[Object(d, x)]
    BY <1>4, <1>10 DEF Object, GLObject
  <2>5. \A x \in Field \ E : Unused(stream, Object(d, x)) => Unused(stream', Object(d, x))
    BY <1>2
  <2>6. uniform' = uniform
    BY <1>2
  <2> HIDE DEF D, W, E
  <2>7. Moves(d, G, K, D, W, E)
    BY <2>3, <2>4, <2>5, <2>6 DEF Moves
  <2> QED
    BY <2>1, <2>2, <2>7, ToldAfter
<1> QED
  BY <1>8, <1>11, <1>12 DEF CallGives

(* A deletion.                                                             *)
LEMMA DestroyCall ==
  ASSUME NEW d \in Encoder, NEW F, NEW G, Tells(d, F, G),
         QueueGives(mem, stream, G), NEW C, DestroyTells(F, call, C), IssueDestroy
  PROVE  CallGives(d, G, C)
<1>1. UNCHANGED <<stream, uniform, mem>>
  BY DEF IssueDestroy
<1>2. \A x \in C : x \in F /\ x[1] # "bound"
  BY DEF DestroyTells, Unbound
<1>3. Tells(d, C, G)'
  BY <1>1, <1>2 DEF Tells
<1> QED
  BY <1>1, <1>3, QuietGives

(* A barrier, the wait for the GPU, a uniform.                             *)
LEMMA PlainCall ==
  ASSUME TypeOK, calls # <<>>,
         NEW d \in Encoder, call \in OwnCall(d), NEW F, NEW G, Tells(d, F, G),
         QueueGives(mem, stream, G), NEW C, PlainTells(F, call, C),
         IssueBarrier \/ IssueFinish \/ IssueUniform
  PROVE  CallGives(d, G, C)
<1>1. CASE IssueBarrier
  <2>1. /\ call.op = "barrier" /\ Enqueue(BarrierOp(call.bits))
        /\ UNCHANGED <<request, mem, ctx, uniform>>
    BY <1>1 DEF IssueBarrier, Issue, context
  <2>2. PICK op : op = BarrierOp(call.bits)
    OBVIOUS
  <2>3. op \in GpuOp /\ op.kind = "barrier" /\ stream' = Append(stream, op)
    <3>1. call.bits \in SUBSET Bit
      BY <2>1, CallFields DEF OwnCall
    <3> QED
      BY <2>1, <2>2, <3>1 DEF BarrierOp, GpuOp, Enqueue
  <2>4. stream \in Seq(GpuOp)
    BY DEF TypeOK
  <2>5. QueueGives(mem', stream', G)
    <3>1. QueueGives(mem, Append(stream, op), Applied(G, op))
      BY <2>3, <2>4, AppendGives
    <3>2. Applied(G, op) = G
      BY <2>3 DEF Applied
    <3> QED
      BY <2>1, <2>3, <3>1, <3>2
  <2>6. \A o : Unused(stream, o) => Unused(stream', o)
    BY <2>3, <2>4, AppendUnused
  <2>7. C \subseteq F
    BY <2>1 DEF PlainTells
  <2>8. Tells(d, C, G)'
    BY <2>1, <2>6, <2>7 DEF Tells
  <2>9. Spares(d, G, G)
    BY <2>1, <2>6 DEF Spares
  <2> QED
    BY <2>5, <2>8, <2>9 DEF CallGives
<1>2. CASE IssueFinish
  <2>1. /\ call.op = "finish" /\ stream = <<>>
        /\ UNCHANGED <<request, mem, ctx, uniform, stream>>
    BY <1>2 DEF IssueFinish, Issue, context
  <2>2. \A x \in C : x \in F \/ x[1] = "spare"
    BY <2>1 DEF PlainTells
  <2>3. \A o : Unused(stream', o)
    BY <2>1 DEF Unused, GpuOps
  <2>4. Tells(d, C, G)'
    BY <2>1, <2>2, <2>3 DEF Tells
  <2> QED
    BY <2>1, <2>4, QuietGives
<1>3. CASE IssueUniform
  <2>1. PICK v : v = call.value
    OBVIOUS
  <2>2. /\ call.op = "uniform" /\ UNCHANGED <<request, mem, ctx, stream>>
        /\ uniform' = IF ctx.pso # NoObject THEN [uniform EXCEPT ![ctx.pso] = v]
                                            ELSE uniform
    BY <1>3, <2>1 DEF IssueUniform, Issue
  <2>3. PICK f \in ProgramField : Bound(pso, f) \in F /\ C \subseteq Sets(F, f, v)
    BY <2>1, <2>2 DEF PlainTells
  <2>4. ctx.pso = Object(d, f) /\ ctx.pso # NoObject /\ f \in Field
    BY <2>3, ProgramTold
  <2>5. /\ uniform'[Object(d, f)] = v
        /\ \A o : o # Object(d, f) => uniform'[o] = uniform[o]
    <3>1. Object(d, f) \in DOMAIN uniform
      BY <2>4 DEF TypeOK, Object, GLObject
    <3> QED
      BY <2>2, <2>4, <3>1
  <2>6. \A x \in C : x = Given(f, v) \/ (x \in F /\ (x[1] = "given" => x[2] # f))
    BY <2>3 DEF Sets
  <2>7. ASSUME NEW x \in C, x[1] = "given", x[2] \in ProgramField
        PROVE  uniform'[Object(d, x[2])] = x[3]
    <3>1. CASE x = Given(f, v)
      BY <2>5, <3>1 DEF Given
    <3>2. CASE x \in F /\ x[2] # f
      <4>1. uniform[Object(d, x[2])] = x[3]
        BY <2>7, <3>2 DEF Tells
      <4>2. Object(d, x[2]) # Object(d, f)
        BY <3>2 DEF Object
      <4> QED
        BY <2>5, <4>1, <4>2
    <3> QED
      BY <2>6, <2>7, <3>1, <3>2
  <2>8. \A x \in C : x[1] # "given" => x \in F
    BY <2>6 DEF Given
  <2>9. Tells(d, C, G)'
    BY <2>2, <2>7, <2>8 DEF Tells
  <2>10. \A e \in Encoder \ {d}, x \in Field :
           uniform'[Object(e, x)] = uniform[Object(e, x)]
    BY <2>5 DEF Object
  <2> QED
    BY <2>2, <2>9, <2>10, QuietGives
<1> QED
  BY <1>1, <1>2, <1>3

(* The fields and values in W are field t of encoder d and what K gives it.*)
Arrives(d, K, t, W) == \A p \in W : p[1] = t /\ p[2] = K[Object(d, t)]

(* The fields a transfer from field s to field t needs; but an upload looks*)
(* at the picture.                                                         *)
Needs(fn, s, t, E) == t \in E /\ (fn = "upload" \/ s \in E)

(* A transfer from field s to field t.                                     *)
LEMMA TransferTold ==
  ASSUME TypeOK, NEW d \in Encoder, NEW F, NEW G, Tells(d, F, G),
         QueueGives(mem, stream, G),
         NEW fn \in {"copy", "upload", "download"}, NEW uni \in Seq(Int),
         NEW from \in Via, NEW to \in Via,
         NEW s \in Field, NEW t \in Field,
         NEW op, Transfers(op, fn, uni, from, Object(d, s), to, Object(d, t)),
         NEW K, K = AfterOp(G, op), Enqueue(op), mem' = mem, uniform' = uniform,
         NEW W, Arrives(d, K, t, W), NEW E, Needs(fn, s, t, E),
         NEW C, C \subseteq Unbound(Engages(Stored(F, {t}, W), E))
  PROVE  CallGives(d, G, C)
<1>1. Object(d, s) \in GLObject /\ Object(d, t) \in GLObject
  BY DEF Object, GLObject
<1>2. op \in GpuOp
  <2>1. fn \in Producer
    BY DEF Producer
  <2> QED
    BY <1>1, <2>1, ApiType DEF Transfers
<1>3. IsMemory(G)
  BY GivesMemory DEF TypeOK
<1>4. /\ op.kind # "barrier" /\ op.fn = fn
      /\ Written(op) = {Object(d, t)} /\ Touched(op) = {Object(d, s), Object(d, t)}
  BY <1>1, <1>3, TransferTouches
<1>5. Owns(d, op)
  BY <1>4 DEF Owns, Object
<1>6. /\ QueueGives(mem', stream', K)
      /\ \A o \in GLObject \ Written(op) : K[o] = G[o]
      /\ \A o : Unused(stream, o) /\ o \notin Touched(op) => Unused(stream', o)
      /\ Spares(d, G, K)
  BY <1>2, <1>4, <1>5, OperationGives
<1>7. \A x \in Field \ {t} : K[Object(d, x)] = G[Object(d, x)]
  BY <1>4, <1>6 DEF Object, GLObject
<1>8. ASSUME NEW x \in Field \ E, Unused(stream, Object(d, x))
      PROVE  Unused(stream', Object(d, x))
  <2>1. stream \in Seq(GpuOp) /\ stream' = Append(stream, op)
    BY DEF TypeOK, Enqueue
  <2>2. Object(d, x) \notin Written(op)
    BY <1>4, <1>8 DEF Object, Needs
  <2>3. Object(d, x) \in Touched(op) => fn = "upload"
    BY <1>4, <1>8 DEF Object, Needs
  <2> QED
    BY <1>2, <1>4, <1>8, <2>1, <2>2, <2>3, AppendUnused
<1>9. C \subseteq Engages(Stored(F, {t}, W), E) /\ \A x \in C : x[1] # "bound"
  BY DEF Unbound
<1>10. \A p \in W : p[1] \in Field => K[Object(d, p[1])] = p[2]
  BY DEF Arrives
<1>11. Tells(d, C, K)'
  <2>1. C \subseteq Engages(Stored(F, {t}, W), E)
    BY <1>9
  <2>2. PICK D : D = {t}
    OBVIOUS
  <2>3. \A x \in Field \ D : K[Object(d, x)] = G[Object(d, x)]
    BY <1>7, <2>2
  <2>4. C \subseteq Engages(Stored(F, D, W), E)
    BY <2>1, <2>2
  <2>5. \A x \in Field \ E : Unused(stream, Object(d, x)) => Unused(stream', Object(d, x))
    BY <1>8
  <2>6. \A x \in C : x[1] # "bound"
    BY <1>9
  <2>7. Moves(d, G, K, D, W, E)
    BY <1>10, <2>3, <2>5 DEF Moves
  <2> QED
    BY <2>4, <2>6, <2>7, ToldAfter
<1> QED
  BY <1>6, <1>11 DEF CallGives

(* An upload, a download and a copy.                                       *)
LEMMA TransferCall ==
  ASSUME TypeOK, calls # <<>>,
         NEW d \in Encoder, call \in OwnCall(d), NEW F, NEW G, Tells(d, F, G),
         QueueGives(mem, stream, G), NEW C,
         \/ IssueUpload /\ UploadTells(d, F, call, C)
         \/ IssueDownload /\ DownloadTells(F, call, C)
         \/ IssueCopy /\ CopyTells(F, call, C)
  PROVE  CallGives(d, G, C)
<1>1. PICK s, t : s = call.src[2] /\ t = call.dst[2]
  OBVIOUS
<1>2. /\ call.op \in {"upload", "download", "copy"} /\ mem' = mem /\ uniform' = uniform
      /\ IssueUpload => call.op = "upload"
      /\ IssueDownload => call.op = "download"
      /\ IssueCopy => call.op = "copy"
  BY DEF IssueUpload, IssueDownload, IssueCopy, Issue, context
<1>3. /\ s \in Field /\ t \in Field
      /\ call.src = Object(d, s) /\ call.dst = Object(d, t) /\ call.dst \in GLObject
      /\ call.op = "download" => call.bytes \in Nat
  <2>1. call \in Call({d} \X Field)
    BY DEF OwnCall
  <2> QED
    BY <1>1, <1>2, <2>1, CallFields DEF Object, GLObject
<1>4. IsMemory(G)
  BY GivesMemory DEF TypeOK
<1>5. Object(d, t)[1] = d
  BY DEF Object
<1>6. CASE IssueUpload /\ UploadTells(d, F, call, C)
  <2>1. PICK op : Transfers(op, "upload", <<>>, "unpack", Object(d, s), "upload", Object(d, t))
    BY DEF Transfers
  <2>2. Enqueue(op)
    BY <1>3, <1>6, <2>1 DEF IssueUpload, Transfers
  <2>3. PICK K : K = AfterOp(G, op)
    OBVIOUS
  <2>4. K[Object(d, t)] = SourceImage(d)
    BY <1>3, <1>4, <1>5, <2>1, <2>3, UploadStores
  <2>5. C \subseteq Unbound(Engages(Stored(F, {t}, {<<t, SourceImage(d)>>}), {t}))
    BY <1>1, <1>6 DEF UploadTells
  <2>6. PICK W : W = {<<t, SourceImage(d)>>}
    OBVIOUS
  <2>7. Arrives(d, K, t, W)
    BY <2>4, <2>6 DEF Arrives
  <2>8. <<>> \in Seq(Int) /\ "unpack" \in Via /\ "upload" \in Via
    BY DEF Via
  <2>9. Needs("upload", s, t, {t}) /\ C \subseteq Unbound(Engages(Stored(F, {t}, W), {t}))
    BY <2>5, <2>6 DEF Needs
  <2>10. "upload" \in {"copy", "upload", "download"}
    OBVIOUS
  <2> QED
    BY <1>2, <1>3, <2>1, <2>2, <2>3, <2>7, <2>8, <2>9, <2>10, TransferTold
<1>7. CASE IssueDownload /\ DownloadTells(F, call, C)
  <2>1. PICK n : n = call.bytes
    OBVIOUS
  <2>2. PICK V : /\ \A v \in V : Holds(s, v) \in F
                 /\ C \subseteq
                      Unbound(Engages(
                        Stored(F, {t}, {<<t, Output("download", <<n>>, 0, <<v>>)>> : v \in V}),
                        {s, t}))
    BY <1>1, <1>7, <2>1 DEF DownloadTells
  <2>3. PICK op : Transfers(op, "download", <<n>>, "download", Object(d, s), "pack", Object(d, t))
    BY DEF Transfers
  <2>4. Enqueue(op)
    BY <1>3, <1>7, <2>1, <2>3 DEF IssueDownload, Transfers
  <2>5. PICK K : K = AfterOp(G, op)
    OBVIOUS
  <2>6. K[Object(d, t)] = Output("download", <<n>>, 0, <<G[Object(d, s)]>>)
    BY <1>3, <1>4, <2>3, <2>5, DownloadStores
  <2>7. PICK W : W = {<<t, Output("download", <<n>>, 0, <<v>>)>> : v \in V}
    OBVIOUS
  <2>8. ASSUME NEW p \in W PROVE p[1] = t /\ p[2] = K[Object(d, t)]
    <3>1. PICK v \in V : p = <<t, Output("download", <<n>>, 0, <<v>>)>>
      BY <2>7
    <3>2. G[Object(d, s)] = v
      BY <1>3, <2>2, ContentTold
    <3> QED
      BY <2>6, <3>1, <3>2
  <2>9. <<n>> \in Seq(Int) /\ "download" \in Via /\ "pack" \in Via
    BY <1>2, <1>3, <1>7, <2>1, SingletonSeq DEF Via
  <2>10. /\ Needs("download", s, t, {s, t})
         /\ C \subseteq Unbound(Engages(Stored(F, {t}, W), {s, t}))
    BY <2>2, <2>7 DEF Needs
  <2>11. Arrives(d, K, t, W)
    BY <2>8 DEF Arrives
  <2>12. "download" \in {"copy", "upload", "download"}
    OBVIOUS
  <2> QED
    BY <1>2, <1>3, <2>3, <2>4, <2>5, <2>9, <2>10, <2>11, <2>12, TransferTold
<1>8. CASE IssueCopy /\ CopyTells(F, call, C)
  <2>1. PICK op : Transfers(op, "copy", <<>>, "copy", Object(d, s), "copy", Object(d, t))
    BY DEF Transfers
  <2>2. Enqueue(op)
    BY <1>3, <1>8, <2>1 DEF IssueCopy, Transfers
  <2>3. PICK K : K = AfterOp(G, op)
    OBVIOUS
  <2>4. /\ Needs("copy", s, t, {s, t})
        /\ C \subseteq Unbound(Engages(Stored(F, {t}, {}), {s, t}))
    BY <1>1, <1>8 DEF CopyTells, Needs
  <2>5. <<>> \in Seq(Int) /\ "copy" \in Via
    BY DEF Via
  <2>6. Arrives(d, K, t, {}) /\ "copy" \in {"copy", "upload", "download"}
    BY DEF Arrives
  <2> QED
    BY <1>2, <1>3, <2>1, <2>2, <2>3, <2>4, <2>5, <2>6, TransferTold
<1> QED
  BY <1>6, <1>7, <1>8

(* Whatever call it is.                                                    *)
LEMMA CallComputes ==
  ASSUME TypeOK, ProgramsFit, CallsNameLiveObjects, calls # <<>>,
         NEW d \in Encoder, call \in OwnCall(d), NEW F, NEW G, Tells(d, F, G),
         QueueGives(mem, stream, G), NEW C, CallTells(d, request[d], F, call, C), IssueCall
  PROVE  CallGives(d, G, C)
<1>1. /\ IssueCreate => call.op = "create"
      /\ IssueDestroy => call.op = "destroy"
      /\ IssueBind => call.op \in BindOps
      /\ IssueUniform => call.op = "uniform"
      /\ IssueDispatch => call.op = "dispatch"
  BY DEF IssueCreate, IssueDestroy, IssueBind, IssueUniform, IssueDispatch, Issue, BindOps
<1>2. /\ IssueUpload => call.op = "upload"
      /\ IssueDownload => call.op = "download"
      /\ IssueCopy => call.op = "copy"
      /\ IssueBarrier => call.op = "barrier"
      /\ IssueFinish => call.op = "finish"
  BY DEF IssueUpload, IssueDownload, IssueCopy, IssueBarrier, IssueFinish, Issue
<1>3. CASE IssueCreate \/ IssueDestroy \/ IssueBind \/ IssueDispatch
  BY <1>1, <1>3, TellsOfKind, CreateCall, DestroyCall, BindCall, DispatchGives
<1>4. CASE IssueUniform \/ IssueBarrier \/ IssueFinish
  BY <1>1, <1>2, <1>4, TellsOfKind, PlainCall
<1>5. CASE IssueUpload \/ IssueDownload \/ IssueCopy
  BY <1>2, <1>5, TellsOfKind, TransferCall
<1> QED
  BY <1>3, <1>4, <1>5 DEF IssueCall

-----------------------------------------------------------------------------
(* What is known within a method: the units bound, the contents that will  *)
(* be there, the uniforms, and that no buffer is needed by what is in      *)
(* flight.                                                                 *)
Facts(B, H, U) ==
  {Bound(p[1], p[2]) : p \in B} \cup {Holds(p[1], p[2]) : p \in H}
    \cup {Given(p[1], p[2]) : p \in U} \cup {Spare(f) : f \in BufferField}

Free(B, u) == \A p \in B : p[1] # u

Goes(e, r, F, c, G) == c \in OwnCall(e) /\ CallTells(e, r, F, c, G)

(* The contents once the fields in D are stored to, W being the new ones.  *)
After(H, D, W) == W \cup {p \in H : p[1] \notin D}

(* What can be looked up there.                                            *)
LEMMA InAfter ==
  ASSUME NEW H, NEW D, NEW W, NEW f, NEW v
  PROVE  /\ <<f, v>> \in W => <<f, v>> \in After(H, D, W)
         /\ <<f, v>> \in H /\ f \notin D => <<f, v>> \in After(H, D, W)
BY DEF After

(* The facts one by one.                                                   *)
LEMMA InFacts ==
  ASSUME NEW B, NEW H, NEW U
  PROVE  /\ \A u, f : <<u, f>> \in B => Bound(u, f) \in Facts(B, H, U)
         /\ \A f, v : <<f, v>> \in H => Holds(f, v) \in Facts(B, H, U)
         /\ \A f, v : <<f, v>> \in U => Given(f, v) \in Facts(B, H, U)
         /\ \A f \in BufferField : Spare(f) \in Facts(B, H, U)
<1>1. ASSUME NEW u, NEW f, <<u, f>> \in B PROVE Bound(u, f) \in Facts(B, H, U)
  <2>1. Bound(u, f) = Bound(<<u, f>>[1], <<u, f>>[2])
    OBVIOUS
  <2> QED
    BY <1>1, <2>1 DEF Facts
<1>2. ASSUME NEW u, NEW f, <<u, f>> \in H PROVE Holds(u, f) \in Facts(B, H, U)
  <2>1. Holds(u, f) = Holds(<<u, f>>[1], <<u, f>>[2])
    OBVIOUS
  <2> QED
    BY <1>2, <2>1 DEF Facts
<1>3. ASSUME NEW u, NEW f, <<u, f>> \in U PROVE Given(u, f) \in Facts(B, H, U)
  <2>1. Given(u, f) = Given(<<u, f>>[1], <<u, f>>[2])
    OBVIOUS
  <2> QED
    BY <1>3, <2>1 DEF Facts
<1>4. \A f \in BufferField : Spare(f) \in Facts(B, H, U)
  BY DEF Facts
<1> QED
  BY <1>1, <1>2, <1>3, <1>4

(* Fewer facts.                                                            *)
LEMMA FewerFacts ==
  ASSUME NEW B, NEW H, NEW U, NEW A \in SUBSET B, NEW K \in SUBSET H, NEW V \in SUBSET U
  PROVE  Facts(A, K, V) \subseteq Facts(B, H, U)
BY DEF Facts

(* A set with each of the facts.                                           *)
LEMMA FactsWithin ==
  ASSUME NEW B, NEW H, NEW U, NEW N,
         \A p \in B : Bound(p[1], p[2]) \in N,
         \A p \in H : Holds(p[1], p[2]) \in N,
         \A p \in U : Given(p[1], p[2]) \in N,
         \A f \in BufferField : Spare(f) \in N
  PROVE  Facts(B, H, U) \subseteq N
BY DEF Facts

(* Units that are free.                                                    *)
LEMMA FreeUnits ==
  /\ \A u : Free({}, u)
  /\ \A B, u, w, f : Free(B, u) /\ u # w => Free(B \cup {<<w, f>>}, u)
  /\ \A u, w, f : u # w => Free({<<w, f>>}, u)
BY DEF Free

(* Binding a unit that is free.                                            *)
LEMMA FactsBind ==
  ASSUME NEW B, NEW H, NEW U, NEW u, NEW f, Free(B, u)
  PROVE  Facts(B \cup {<<u, f>>}, H, U) \subseteq Binds(Facts(B, H, U), u, f)
<1> DEFINE F == Facts(B, H, U)
           N == Binds(F, u, f)
<1>1. Bound(u, f) \in N
  BY DEF Binds
<1>2. ASSUME NEW p \in B PROVE Bound(p[1], p[2]) \in N
  BY DEF Binds, KeptByBind, Facts, Free, Bound
<1>3. ASSUME NEW p \in H PROVE Holds(p[1], p[2]) \in N
  BY DEF Binds, KeptByBind, Facts, Holds
<1>4. ASSUME NEW p \in U PROVE Given(p[1], p[2]) \in N
  BY DEF Binds, KeptByBind, Facts, Given
<1>5. ASSUME NEW g \in BufferField PROVE Spare(g) \in N
  BY DEF Binds, KeptByBind, Facts, Spare
<1>6. \A p \in B \cup {<<u, f>>} : Bound(p[1], p[2]) \in N
  BY <1>1, <1>2
<1> HIDE DEF N
<1>7. Facts(B \cup {<<u, f>>}, H, U) \subseteq N
  BY <1>3, <1>4, <1>5, <1>6, FactsWithin
<1> QED
  BY <1>7 DEF N, F

(* The bindings A are those of B and one more.                             *)
Adds(A, B, u, f) == Free(B, u) /\ A = B \cup {<<u, f>>}

(* A call that binds.                                                      *)
LEMMA BindGoes ==
  ASSUME NEW e \in Encoder, NEW r, NEW H, NEW U, NEW f,
         NEW c \in OwnCall(e), c.op \in BindOps, c.name = Object(e, f),
         c.op = "bindComputePso" => f \in ProgramField /\ Links(FileOf(r, f)),
         NEW A, NEW B, Adds(A, B, UnitOf(c), f)
  PROVE  Goes(e, r, Facts(B, H, U), c, Facts(A, H, U))
<1>1. c.name[2] = f
  BY DEF Object
<1>2. BindTells(r, Facts(B, H, U), c, Facts(A, H, U))
  BY <1>1, FactsBind DEF BindTells, Adds
<1> QED
  BY <1>2 DEF Goes, CallTells

(* A texture.                                                              *)
LEMMA TextureGoes ==
  ASSUME NEW e \in Encoder, NEW r, NEW H, NEW U, NEW f \in Field \ BufferField,
         NEW slot \in TexUnits, NEW A, NEW B, Adds(A, B, tex(slot), f)
  PROVE  Goes(e, r, Facts(B, H, U), bindTexture(slot, Object(e, f)), Facts(A, H, U))
<1> DEFINE c == bindTexture(slot, Object(e, f))
<1>1. c.op = "bindTexture" /\ c.slot = slot /\ c.name = Object(e, f) /\ c \in OwnCall(e)
  BY OwnBind DEF bindTexture
<1> HIDE DEF c
<1>2. UnitOf(c) = tex(slot) /\ c.op \in BindOps
  BY <1>1 DEF UnitOf, tex, BindOps
<1>3. Goes(e, r, Facts(B, H, U), c, Facts(A, H, U))
  BY <1>1, <1>2, BindGoes
<1> QED
  BY <1>3 DEF c

(* An image.                                                               *)
LEMMA ImageGoes ==
  ASSUME NEW e \in Encoder, NEW r, NEW H, NEW U, NEW f \in Field \ BufferField,
         NEW slot \in ImageUnits, NEW access \in {"Write", "ReadWrite"},
         NEW A, NEW B, Adds(A, B, uav(slot), f)
  PROVE  Goes(e, r, Facts(B, H, U), bindUav(slot, Object(e, f), access), Facts(A, H, U))
<1> DEFINE c == bindUav(slot, Object(e, f), access)
<1>1. c.op = "bindUav" /\ c.slot = slot /\ c.name = Object(e, f) /\ c \in OwnCall(e)
  BY OwnBindUav DEF bindUav, BufferField
<1> HIDE DEF c
<1>2. UnitOf(c) = uav(slot) /\ c.op \in BindOps
  BY <1>1 DEF UnitOf, uav, BindOps
<1>3. Goes(e, r, Facts(B, H, U), c, Facts(A, H, U))
  BY <1>1, <1>2, BindGoes
<1> QED
  BY <1>3 DEF c

(* A table.                                                                *)
LEMMA TableGoes ==
  ASSUME NEW e \in Encoder, NEW r, NEW H, NEW U, NEW f \in Field \ BufferField,
         NEW A, NEW B, Adds(A, B, ssbo, f)
  PROVE  Goes(e, r, Facts(B, H, U), bindUavBuffer(1, Object(e, f)), Facts(A, H, U))
<1> DEFINE c == bindUavBuffer(1, Object(e, f))
<1>1. c.op = "bindUavBuffer" /\ c.slot = 1 /\ c.name = Object(e, f) /\ c \in OwnCall(e)
  BY OwnBind DEF bindUavBuffer
<1> HIDE DEF c
<1>2. UnitOf(c) = ssbo /\ c.op \in BindOps
  BY <1>1 DEF UnitOf, ssbo, BindOps
<1>3. Goes(e, r, Facts(B, H, U), c, Facts(A, H, U))
  BY <1>1, <1>2, BindGoes
<1> QED
  BY <1>3 DEF c

(* A program, one that links.                                              *)
LEMMA ProgramGoes ==
  ASSUME NEW e \in Encoder, NEW r, NEW H, NEW U, NEW f \in ProgramField,
         f = "m_eacPso" => ~UsesEAC(r), NEW A, NEW B, Adds(A, B, pso, f)
  PROVE  Goes(e, r, Facts(B, H, U), bindComputePso(Object(e, f)), Facts(A, H, U))
<1> DEFINE c == bindComputePso(Object(e, f))
<1>1. f \in Field /\ Links(FileOf(r, f))
  BY DEF ProgramField, Field, FileOf, Links
<1>2. c.op = "bindComputePso" /\ c.name = Object(e, f) /\ c \in OwnCall(e)
  BY <1>1, OwnBind DEF bindComputePso
<1> HIDE DEF c
<1>3. UnitOf(c) = pso /\ c.op \in BindOps
  BY <1>2 DEF UnitOf, pso, BindOps
<1>4. Goes(e, r, Facts(B, H, U), c, Facts(A, H, U))
  BY <1>1, <1>2, <1>3, BindGoes
<1> QED
  BY <1>4 DEF c

(* The slots in use.                                                       *)
LEMMA Slots ==
  /\ 0 \in TexUnits /\ 1 \in TexUnits /\ 2 \in TexUnits /\ 3 \in TexUnits
  /\ 4 \in TexUnits /\ 5 \in TexUnits /\ 6 \in TexUnits
  /\ 0 \in ImageUnits /\ 1 \in ImageUnits /\ 2 \in ImageUnits
  /\ "Write" \in {"Write", "ReadWrite"} /\ "ReadWrite" \in {"Write", "ReadWrite"}
BY DEF TexUnits, ImageUnits

(* Bindings added one by one.                                              *)
LEMMA AddsUp ==
  /\ \A u, f : Adds({<<u, f>>}, {}, u, f)
  /\ \A B, u, f : Free(B, u) => Adds(B \cup {<<u, f>>}, B, u, f)
BY DEF Adds, Free

(* Barriers.                                                               *)
LEMMA BarrierGoes ==
  ASSUME NEW e \in Encoder, NEW r, NEW F, NEW bits \in SUBSET Bit
  PROVE  Goes(e, r, F, glMemoryBarrier(bits), F)
<1>1. glMemoryBarrier(bits) \in OwnCall(e)
  BY OwnPlain
<1>2. PlainTells(F, glMemoryBarrier(bits), F)
  BY DEF PlainTells, glMemoryBarrier
<1> QED
  BY <1>1, <1>2 DEF Goes, CallTells

(* The uniform of the program in use.                                      *)
LEMMA UniformGoes ==
  ASSUME NEW e \in Encoder, NEW r, NEW B, NEW H, NEW U,
         NEW f \in ProgramField, <<pso, f>> \in B, Free(U, f),
         NEW v, glUniform(v) \in OwnCall(e)
  PROVE  Goes(e, r, Facts(B, H, U), glUniform(v), Facts(B, H, U \cup {<<f, v>>}))
<1> DEFINE F == Facts(B, H, U)
           G == Facts(B, H, U \cup {<<f, v>>})
           N == Sets(F, f, v)
<1>1. G \subseteq N
  <2>1. Given(f, v) \in N
    BY DEF Sets
  <2>2. ASSUME NEW p \in B PROVE Bound(p[1], p[2]) \in N
    BY DEF Sets, Facts, Bound
  <2>3. ASSUME NEW p \in H PROVE Holds(p[1], p[2]) \in N
    BY DEF Sets, Facts, Holds
  <2>4. ASSUME NEW p \in U PROVE Given(p[1], p[2]) \in N
    BY DEF Sets, Facts, Given, Free
  <2>5. ASSUME NEW g \in BufferField PROVE Spare(g) \in N
    BY DEF Sets, Facts, Spare
  <2>6. \A p \in U \cup {<<f, v>>} : Given(p[1], p[2]) \in N
    BY <2>1, <2>4
  <2> HIDE DEF N
  <2> QED
    BY <2>2, <2>3, <2>5, <2>6, FactsWithin
<1>2. Bound(pso, f) \in F
  BY InFacts
<1> HIDE DEF F, G
<1>3. PlainTells(F, glUniform(v), G)
  <2>1. glUniform(v).op = "uniform" /\ glUniform(v).value = v
    BY DEF glUniform
  <2> QED
    BY <1>1, <1>2, <2>1 DEF PlainTells
<1> QED
  BY <1>3 DEF Goes, CallTells, F, G

(* What a shader is fed.                                                   *)
Feeds(B, H, glsl, I, ins) ==
  /\ ins = [k \in 1 .. InputCount(glsl) |-> ins[k]]
  /\ \A k \in 1 .. InputCount(glsl) :
       /\ I[k] \in Field \ BufferField
       /\ <<InputUnit(glsl, k), I[k]>> \in B
       /\ <<I[k], ins[k]>> \in H

(* Where its results go.                                                   *)
Catches(B, glsl, O) ==
  /\ \A u \in ShaderInterface(glsl).store :
       O[u] \in Field \ BufferField /\ <<uav(u), O[u]>> \in B
  /\ \A u, w \in ShaderInterface(glsl).store : O[u] = O[w] => u = w

(* A dispatch.                                                             *)
LEMMA DispatchGoes ==
  ASSUME NEW e \in Encoder, NEW r, NEW B, NEW H, NEW U,
         NEW f \in ProgramField, <<pso, f>> \in B, NEW v, <<f, v>> \in U,
         NEW glsl, glsl = FileOf(r, f), ReadsDefined(glsl),
         NEW I, NEW ins, Feeds(B, H, glsl, I, ins), NEW O, Catches(B, glsl, O)
  PROVE  Goes(e, r, Facts(B, H, U), glDispatchCompute,
              Facts(B, After(H, TargetFields(glsl, O), Outputs(glsl, v, ins, O)), U))
<1> DEFINE F == Facts(B, H, U)
           D == TargetFields(glsl, O)
           W == Outputs(glsl, v, ins, O)
           G == Facts(B, After(H, D, W), U)
<1>1. Bound(pso, f) \in F /\ Given(f, v) \in F
  BY InFacts
<1>2. Inputs(F, glsl, I, ins)
  BY InFacts DEF Inputs, Feeds
<1>3. Targets(F, glsl, O)
  BY InFacts DEF Targets, Catches
<1>4. G \subseteq Engages(Stored(F, D, W), Field \ BufferField)
  <2> HIDE DEF D, W
  <2> DEFINE N == Engages(Stored(F, D, W), Field \ BufferField)
  <2>1. ASSUME NEW p \in B PROVE Bound(p[1], p[2]) \in N
    BY DEF Stored, Engages, Facts, Bound
  <2>2. ASSUME NEW p \in After(H, D, W) PROVE Holds(p[1], p[2]) \in N
    <3>1. CASE p \in W
      BY <3>1 DEF Stored, Engages, Holds
    <3>2. CASE p \in H /\ p[1] \notin D
      BY <3>2 DEF Stored, Engages, Holds, Facts
    <3> QED
      BY <3>1, <3>2 DEF After
  <2>3. ASSUME NEW p \in U PROVE Given(p[1], p[2]) \in N
    BY DEF Stored, Engages, Facts, Given
  <2>4. ASSUME NEW g \in BufferField PROVE Spare(g) \in N
    BY DEF Stored, Engages, Facts, Spare
  <2> HIDE DEF N
  <2>5. G \subseteq N
    BY <2>1, <2>2, <2>3, <2>4, FactsWithin
  <2> QED
    BY <2>5 DEF N
<1> HIDE DEF F, G
<1>5. Computes(r, F, f, v, I, ins, O, G)
  BY <1>1, <1>2, <1>3, <1>4, Zenon DEF Computes, D, W
<1>6. glDispatchCompute.op = "dispatch"
  BY DEF glDispatchCompute
<1>7. DispatchTells(r, F, glDispatchCompute, G)
  BY <1>5, <1>6 DEF DispatchTells
<1> QED
  BY <1>7, OwnPlain DEF Goes, CallTells, F, G, D, W

-----------------------------------------------------------------------------
(* An interface of n textures t, m images l and q buffers b.               *)
Shaped(glsl, t, l, b, S, n, m, q) ==
  /\ ShaderInterface(glsl) = Interface(t, l, b, S)
  /\ n \in Nat /\ n = Len(t) /\ m \in Nat /\ m = Len(l) /\ q \in Nat /\ q = Len(b)

(* The units a shader reads, in the order of its inputs.                   *)
InOrder(glsl, t, l, b, S, n, m, q) ==
  /\ InputCount(glsl) = n + m + q
  /\ ShaderInterface(glsl).store = S /\ ShaderInterface(glsl).load = l
  /\ \A k \in 1 .. n : InputUnit(glsl, k) = tex(t[k])
  /\ \A k \in 1 .. m : InputUnit(glsl, n + k) = uav(l[k])
  /\ \A k \in 1 .. q : InputUnit(glsl, n + m + k) = <<"bindUavBuffer", b[k]>>

(* The one follows from the other.                                         *)
LEMMA UnitsInOrder ==
  ASSUME NEW glsl, NEW t, NEW l, NEW b, NEW S, NEW n, NEW m, NEW q,
         Shaped(glsl, t, l, b, S, n, m, q)
  PROVE  InOrder(glsl, t, l, b, S, n, m, q)
<1> USE DEF Shaped
<1>1. /\ ShaderInterface(glsl).fetch = t /\ ShaderInterface(glsl).load = l
      /\ ShaderInterface(glsl).buffer = b /\ ShaderInterface(glsl).store = S
  BY DEF Interface
<1>2. ASSUME NEW k \in 1 .. n PROVE InputUnit(glsl, k) = tex(t[k])
  BY <1>1, <1>2 DEF InputUnit
<1>3. ASSUME NEW k \in 1 .. m PROVE InputUnit(glsl, n + k) = uav(l[k])
  <2>1. ~(n + k <= n) /\ n + k <= n + m /\ (n + k) - n = k
    OBVIOUS
  <2> QED
    BY <1>1, <2>1 DEF InputUnit
<1>4. ASSUME NEW k \in 1 .. q PROVE InputUnit(glsl, n + m + k) = <<"bindUavBuffer", b[k]>>
  <2>1. ~(n + m + k <= n) /\ ~(n + m + k <= n + m) /\ (n + m + k) - (n + m) = k
    OBVIOUS
  <2> QED
    BY <1>1, <2>1 DEF InputUnit
<1>5. InputCount(glsl) = n + m + q
  BY <1>1 DEF InputCount
<1> QED
  BY <1>1, <1>2, <1>3, <1>4, <1>5 DEF InOrder

(* A texture.                                                               *)
LEMMA InputsOfTexture ==
  ASSUME NEW glsl \in {"dither555.glsl", "eac.glsl", "bc4.glsl",
                     "etc2_th_find_best_c0c1_k_means.glsl"}
  PROVE  /\ InputCount(glsl) = 1 /\ InputUnit(glsl, 1) = tex(0)
         /\ ShaderInterface(glsl).store = {0}
         /\ ReadsDefined(glsl)
<1> DEFINE t == <<0>>
           l == <<>>
           b == <<>>
<1>1. ShaderInterface(glsl) = Interface(t, l, b, {0})
  BY DEF ShaderInterface
<1>2. Len(t) = 1 /\ Len(l) = 0 /\ Len(b) = 0 /\ l = <<>>
  OBVIOUS
<1>3. t[1] = 0
  OBVIOUS
<1> HIDE DEF t, l, b
<1>4. InOrder(glsl, t, l, b, {0}, 1, 0, 0)
  <2>1. Shaped(glsl, t, l, b, {0}, 1, 0, 0)
    BY <1>1, <1>2 DEF Shaped
  <2> QED
    BY <2>1, UnitsInOrder
<1>5. InputCount(glsl) = 1 /\ ShaderInterface(glsl).store = {0} /\ ShaderInterface(glsl).load = l
  BY <1>4 DEF InOrder
<1>6. /\ InputUnit(glsl, 1) = tex(t[1])
  BY <1>4 DEF InOrder
<1> QED
  BY <1>2, <1>3, <1>5, <1>6 DEF ReadsDefined

(* A texture, for two results.                                              *)
LEMMA InputsOfPMode ==
  ASSUME NEW glsl, glsl = "etc2_p.glsl"
  PROVE  /\ InputCount(glsl) = 1 /\ InputUnit(glsl, 1) = tex(0)
         /\ ShaderInterface(glsl).store = {0, 1}
         /\ ReadsDefined(glsl)
<1> DEFINE t == <<0>>
           l == <<>>
           b == <<>>
<1>1. ShaderInterface(glsl) = Interface(t, l, b, {0, 1})
  BY DEF ShaderInterface
<1>2. Len(t) = 1 /\ Len(l) = 0 /\ Len(b) = 0 /\ l = <<>>
  OBVIOUS
<1>3. t[1] = 0
  OBVIOUS
<1> HIDE DEF t, l, b
<1>4. InOrder(glsl, t, l, b, {0, 1}, 1, 0, 0)
  <2>1. Shaped(glsl, t, l, b, {0, 1}, 1, 0, 0)
    BY <1>1, <1>2 DEF Shaped
  <2> QED
    BY <2>1, UnitsInOrder
<1>5. InputCount(glsl) = 1 /\ ShaderInterface(glsl).store = {0, 1} /\ ShaderInterface(glsl).load = l
  BY <1>4 DEF InOrder
<1>6. /\ InputUnit(glsl, 1) = tex(t[1])
  BY <1>4 DEF InOrder
<1> QED
  BY <1>2, <1>3, <1>5, <1>6 DEF ReadsDefined

(* A texture and a table.                                                   *)
LEMMA InputsOfTable ==
  ASSUME NEW glsl \in {"etc1.glsl", "bc1.glsl", "bc1_dither.glsl"}
  PROVE  /\ InputCount(glsl) = 2 /\ InputUnit(glsl, 1) = tex(0)
         /\ InputUnit(glsl, 2) = ssbo
         /\ ShaderInterface(glsl).store = {0}
         /\ ReadsDefined(glsl)
<1> DEFINE t == <<0>>
           l == <<>>
           b == <<1>>
<1>1. ShaderInterface(glsl) = Interface(t, l, b, {0})
  BY DEF ShaderInterface
<1>2. Len(t) = 1 /\ Len(l) = 0 /\ Len(b) = 1 /\ l = <<>>
  OBVIOUS
<1>3. t[1] = 0 /\ b[1] = 1
  OBVIOUS
<1> HIDE DEF t, l, b
<1>4. InOrder(glsl, t, l, b, {0}, 1, 0, 1)
  <2>1. Shaped(glsl, t, l, b, {0}, 1, 0, 1)
    BY <1>1, <1>2 DEF Shaped
  <2> QED
    BY <2>1, UnitsInOrder
<1>5. InputCount(glsl) = 2 /\ ShaderInterface(glsl).store = {0} /\ ShaderInterface(glsl).load = l
  BY <1>4 DEF InOrder
<1>6. /\ InputUnit(glsl, 1) = tex(t[1])
      /\ InputUnit(glsl, 2) = <<"bindUavBuffer", b[1]>>
  BY <1>4 DEF InOrder
<1> QED
  BY <1>2, <1>3, <1>5, <1>6 DEF ReadsDefined, ssbo

(* For two results.                                                         *)
LEMMA InputsOfErrors ==
  ASSUME NEW glsl, glsl = "etc1_with_error.glsl"
  PROVE  /\ InputCount(glsl) = 2 /\ InputUnit(glsl, 1) = tex(0)
         /\ InputUnit(glsl, 2) = ssbo
         /\ ShaderInterface(glsl).store = {0, 2}
         /\ ReadsDefined(glsl)
<1> DEFINE t == <<0>>
           l == <<>>
           b == <<1>>
<1>1. ShaderInterface(glsl) = Interface(t, l, b, {0, 2})
  BY DEF ShaderInterface
<1>2. Len(t) = 1 /\ Len(l) = 0 /\ Len(b) = 1 /\ l = <<>>
  OBVIOUS
<1>3. t[1] = 0 /\ b[1] = 1
  OBVIOUS
<1> HIDE DEF t, l, b
<1>4. InOrder(glsl, t, l, b, {0, 2}, 1, 0, 1)
  <2>1. Shaped(glsl, t, l, b, {0, 2}, 1, 0, 1)
    BY <1>1, <1>2 DEF Shaped
  <2> QED
    BY <2>1, UnitsInOrder
<1>5. InputCount(glsl) = 2 /\ ShaderInterface(glsl).store = {0, 2} /\ ShaderInterface(glsl).load = l
  BY <1>4 DEF InOrder
<1>6. /\ InputUnit(glsl, 1) = tex(t[1])
      /\ InputUnit(glsl, 2) = <<"bindUavBuffer", b[1]>>
  BY <1>4 DEF InOrder
<1> QED
  BY <1>2, <1>3, <1>5, <1>6 DEF ReadsDefined, ssbo

(* A texture and an image.                                                  *)
LEMMA InputsOfTHMode ==
  ASSUME NEW glsl, glsl = "etc2_th.glsl"
  PROVE  /\ InputCount(glsl) = 2 /\ InputUnit(glsl, 1) = tex(0)
         /\ InputUnit(glsl, 2) = uav(2)
         /\ ShaderInterface(glsl).store = {0, 1}
         /\ ~ImageAccessIsEnforced => ReadsDefined(glsl)
<1> DEFINE t == <<0>>
           l == <<2>>
           b == <<>>
<1>1. ShaderInterface(glsl) = Interface(t, l, b, {0, 1})
  BY DEF ShaderInterface
<1>2. Len(t) = 1 /\ Len(l) = 1 /\ Len(b) = 0
  OBVIOUS
<1>3. t[1] = 0 /\ l[1] = 2
  OBVIOUS
<1> HIDE DEF t, l, b
<1>4. InOrder(glsl, t, l, b, {0, 1}, 1, 1, 0)
  <2>1. Shaped(glsl, t, l, b, {0, 1}, 1, 1, 0)
    BY <1>1, <1>2 DEF Shaped
  <2> QED
    BY <2>1, UnitsInOrder
<1>5. InputCount(glsl) = 2 /\ ShaderInterface(glsl).store = {0, 1} /\ ShaderInterface(glsl).load = l
  BY <1>4 DEF InOrder
<1>6. /\ InputUnit(glsl, 1) = tex(t[1])
      /\ InputUnit(glsl, 2) = uav(l[1])
  BY <1>4 DEF InOrder
<1> QED
  BY <1>2, <1>3, <1>5, <1>6 DEF ReadsDefined

(* Two textures.                                                            *)
LEMMA InputsOfStitch ==
  ASSUME NEW glsl, glsl = "etc2_rgba_stitch.glsl"
  PROVE  /\ InputCount(glsl) = 2 /\ InputUnit(glsl, 1) = tex(0)
         /\ InputUnit(glsl, 2) = tex(1)
         /\ ShaderInterface(glsl).store = {0}
         /\ ReadsDefined(glsl)
<1> DEFINE t == <<0, 1>>
           l == <<>>
           b == <<>>
<1>1. ShaderInterface(glsl) = Interface(t, l, b, {0})
  BY DEF ShaderInterface
<1>2. Len(t) = 2 /\ Len(l) = 0 /\ Len(b) = 0 /\ l = <<>>
  OBVIOUS
<1>3. t[1] = 0 /\ t[2] = 1
  OBVIOUS
<1> HIDE DEF t, l, b
<1>4. InOrder(glsl, t, l, b, {0}, 2, 0, 0)
  <2>1. Shaped(glsl, t, l, b, {0}, 2, 0, 0)
    BY <1>1, <1>2 DEF Shaped
  <2> QED
    BY <2>1, UnitsInOrder
<1>5. InputCount(glsl) = 2 /\ ShaderInterface(glsl).store = {0} /\ ShaderInterface(glsl).load = l
  BY <1>4 DEF InOrder
<1>6. /\ InputUnit(glsl, 1) = tex(t[1])
      /\ InputUnit(glsl, 2) = tex(t[2])
  BY <1>4 DEF InOrder
<1> QED
  BY <1>2, <1>3, <1>5, <1>6 DEF ReadsDefined

(* The selector without alpha.                                              *)
LEMMA InputsOfRgbSelector ==
  ASSUME NEW glsl, glsl = "etc2_rgb_selector.glsl"
  PROVE  /\ InputCount(glsl) = 6 /\ InputUnit(glsl, 1) = tex(0)
         /\ InputUnit(glsl, 2) = tex(1) /\ InputUnit(glsl, 3) = tex(2)
         /\ InputUnit(glsl, 4) = tex(3) /\ InputUnit(glsl, 5) = tex(4)
         /\ InputUnit(glsl, 6) = uav(0)
         /\ ShaderInterface(glsl).store = {0}
         /\ ~ImageAccessIsEnforced => ReadsDefined(glsl)
<1> DEFINE t == <<0, 1, 2, 3, 4>>
           l == <<0>>
           b == <<>>
<1>1. ShaderInterface(glsl) = Interface(t, l, b, {0})
  BY DEF ShaderInterface
<1>2. Len(t) = 5 /\ Len(l) = 1 /\ Len(b) = 0
  OBVIOUS
<1>3. t[1] = 0 /\ t[2] = 1 /\ t[3] = 2 /\ t[4] = 3 /\ t[5] = 4 /\ l[1] = 0
  OBVIOUS
<1> HIDE DEF t, l, b
<1>4. InOrder(glsl, t, l, b, {0}, 5, 1, 0)
  <2>1. Shaped(glsl, t, l, b, {0}, 5, 1, 0)
    BY <1>1, <1>2 DEF Shaped
  <2> QED
    BY <2>1, UnitsInOrder
<1>5. InputCount(glsl) = 6 /\ ShaderInterface(glsl).store = {0} /\ ShaderInterface(glsl).load = l
  BY <1>4 DEF InOrder
<1>6. /\ InputUnit(glsl, 1) = tex(t[1])
      /\ InputUnit(glsl, 2) = tex(t[2])
      /\ InputUnit(glsl, 3) = tex(t[3])
      /\ InputUnit(glsl, 4) = tex(t[4])
      /\ InputUnit(glsl, 5) = tex(t[5])
      /\ InputUnit(glsl, 6) = uav(l[1])
  BY <1>4 DEF InOrder
<1> QED
  BY <1>2, <1>3, <1>5, <1>6 DEF ReadsDefined

(* The selector with alpha.                                                 *)
LEMMA InputsOfRgbaSelector ==
  ASSUME NEW glsl, glsl = "etc2_rgba_selector.glsl"
  PROVE  /\ InputCount(glsl) = 7 /\ InputUnit(glsl, 1) = tex(0)
         /\ InputUnit(glsl, 2) = tex(1) /\ InputUnit(glsl, 3) = tex(2)
         /\ InputUnit(glsl, 4) = tex(3) /\ InputUnit(glsl, 5) = tex(4)
         /\ InputUnit(glsl, 6) = tex(5) /\ InputUnit(glsl, 7) = tex(6)
         /\ ShaderInterface(glsl).store = {0}
         /\ ReadsDefined(glsl)
<1> DEFINE t == <<0, 1, 2, 3, 4, 5, 6>>
           l == <<>>
           b == <<>>
<1>1. ShaderInterface(glsl) = Interface(t, l, b, {0})
  BY DEF ShaderInterface
<1>2. Len(t) = 7 /\ Len(l) = 0 /\ Len(b) = 0 /\ l = <<>>
  OBVIOUS
<1>3. t[1] = 0 /\ t[2] = 1 /\ t[3] = 2 /\ t[4] = 3 /\ t[5] = 4 /\ t[6] = 5 /\ t[7] = 6
  OBVIOUS
<1> HIDE DEF t, l, b
<1>4. InOrder(glsl, t, l, b, {0}, 7, 0, 0)
  <2>1. Shaped(glsl, t, l, b, {0}, 7, 0, 0)
    BY <1>1, <1>2 DEF Shaped
  <2> QED
    BY <2>1, UnitsInOrder
<1>5. InputCount(glsl) = 7 /\ ShaderInterface(glsl).store = {0} /\ ShaderInterface(glsl).load = l
  BY <1>4 DEF InOrder
<1>6. /\ InputUnit(glsl, 1) = tex(t[1])
      /\ InputUnit(glsl, 2) = tex(t[2])
      /\ InputUnit(glsl, 3) = tex(t[3])
      /\ InputUnit(glsl, 4) = tex(t[4])
      /\ InputUnit(glsl, 5) = tex(t[5])
      /\ InputUnit(glsl, 6) = tex(t[6])
      /\ InputUnit(glsl, 7) = tex(t[7])
  BY <1>4 DEF InOrder
<1> QED
  BY <1>2, <1>3, <1>5, <1>6 DEF ReadsDefined

(* An input: what a unit holds and what is in it.                          *)
Fed(B, H, u, f, v) == f \in Field \ BufferField /\ <<u, f>> \in B /\ <<f, v>> \in H

(* One input.                                                              *)
LEMMA FeedsOne ==
  ASSUME NEW B, NEW H, NEW glsl, InputCount(glsl) = 1,
         NEW a, NEW x, Fed(B, H, InputUnit(glsl, 1), a, x)
  PROVE  Feeds(B, H, glsl, <<a>>, <<x>>)
<1> DEFINE I == <<a>>
           ins == <<x>>
<1>1. I[1] = a /\ ins[1] = x /\ ins = [k \in 1 .. 1 |-> ins[k]]
  OBVIOUS
<1> HIDE DEF I, ins
<1>2. Feeds(B, H, glsl, I, ins)
  BY <1>1 DEF Feeds, Fed
<1> QED
  BY <1>2 DEF I, ins

(* Two inputs.                                                             *)
LEMMA FeedsTwo ==
  ASSUME NEW B, NEW H, NEW glsl, InputCount(glsl) = 2,
         NEW a, NEW x, Fed(B, H, InputUnit(glsl, 1), a, x),
         NEW b, NEW y, Fed(B, H, InputUnit(glsl, 2), b, y)
  PROVE  Feeds(B, H, glsl, <<a, b>>, <<x, y>>)
<1> DEFINE I == <<a, b>>
           ins == <<x, y>>
<1>1. I[1] = a /\ ins[1] = x /\ I[2] = b /\ ins[2] = y /\ ins = [k \in 1 .. 2 |-> ins[k]]
  OBVIOUS
<1> HIDE DEF I, ins
<1>2. Feeds(B, H, glsl, I, ins)
  BY <1>1 DEF Feeds, Fed
<1> QED
  BY <1>2 DEF I, ins

(* A shader stores to the images of S.                                     *)
StoresTo(glsl, S) == ShaderInterface(glsl).store = S

(* The results are caught, in the fields of D.                             *)
CatchesAll(B, glsl, O, D, v, ins, W) ==
  Catches(B, glsl, O) /\ TargetFields(glsl, O) = D /\ Outputs(glsl, v, ins, O) = W

(* One result.                                                             *)
LEMMA CatchesOne ==
  ASSUME NEW B, NEW glsl, StoresTo(glsl, {0}),
         NEW f \in Field \ BufferField, <<uav(0), f>> \in B, NEW v, NEW ins
  PROVE  CatchesAll(B, glsl, [u \in {0} |-> f], {f}, v, ins,
                    {<<f, Output(glsl, v, 0, ins)>>})
<1> DEFINE O == [u \in {0} |-> f]
<1>1. O[0] = f
  OBVIOUS
<1> HIDE DEF O
<1>2. CatchesAll(B, glsl, O, {f}, v, ins, {<<f, Output(glsl, v, 0, ins)>>})
  BY <1>1 DEF CatchesAll, Catches, TargetFields, Outputs, StoresTo
<1> QED
  BY <1>2 DEF O

(* Two results.                                                            *)
LEMMA CatchesTwo ==
  ASSUME NEW B, NEW glsl, NEW w \in {1, 2}, StoresTo(glsl, {0, w}),
         NEW f \in Field \ BufferField, <<uav(0), f>> \in B,
         NEW g \in Field \ BufferField, <<uav(w), g>> \in B, f # g, NEW v, NEW ins
  PROVE  \E O : CatchesAll(B, glsl, O, {f, g}, v, ins, {<<f, Output(glsl, v, 0, ins)>>,
                                                         <<g, Output(glsl, v, w, ins)>>})
<1> DEFINE O == [u \in {0, w} |-> IF u = 0 THEN f ELSE g]
<1>1. O[0] = f /\ O[w] = g
  OBVIOUS
<1> HIDE DEF O
<1>2. \A u : u \in ShaderInterface(glsl).store <=> u = 0 \/ u = w
  BY DEF StoresTo
<1>3. Catches(B, glsl, O)
  BY <1>1, <1>2 DEF Catches
<1>4. TargetFields(glsl, O) = {f, g}
  BY <1>1, <1>2 DEF TargetFields
<1>5. Outputs(glsl, v, ins, O) = {<<f, Output(glsl, v, 0, ins)>>, <<g, Output(glsl, v, w, ins)>>}
  <2>1. ASSUME NEW p PROVE p \in Outputs(glsl, v, ins, O) <=>
            p = <<f, Output(glsl, v, 0, ins)>> \/ p = <<g, Output(glsl, v, w, ins)>>
    BY <1>1, <1>2 DEF Outputs
  <2> QED
    BY <2>1
<1> QED
  BY <1>3, <1>4, <1>5 DEF CatchesAll

(* A dispatch with one result...                                           *)
LEMMA DispatchInto ==
  ASSUME NEW e \in Encoder, NEW r, NEW B, NEW H, NEW U,
         NEW f \in ProgramField, <<pso, f>> \in B, NEW v, <<f, v>> \in U,
         NEW glsl, glsl = FileOf(r, f), ReadsDefined(glsl),
         NEW I, NEW ins, Feeds(B, H, glsl, I, ins),
         StoresTo(glsl, {0}),
         NEW o \in Field \ BufferField, <<uav(0), o>> \in B
  PROVE  Goes(e, r, Facts(B, H, U), glDispatchCompute,
              Facts(B, After(H, {o}, {<<o, Output(glsl, v, 0, ins)>>}), U))
<1> DEFINE O == [u \in {0} |-> o]
<1>1. CatchesAll(B, glsl, O, {o}, v, ins, {<<o, Output(glsl, v, 0, ins)>>})
  BY CatchesOne
<1> HIDE DEF O
<1>2. Goes(e, r, Facts(B, H, U), glDispatchCompute,
              Facts(B, After(H, TargetFields(glsl, O), Outputs(glsl, v, ins, O)), U))
  BY <1>1, DispatchGoes DEF CatchesAll
<1> QED
  BY <1>1, <1>2 DEF CatchesAll

(* ... and with two.                                                       *)
LEMMA DispatchIntoBoth ==
  ASSUME NEW e \in Encoder, NEW r, NEW B, NEW H, NEW U,
         NEW f \in ProgramField, <<pso, f>> \in B, NEW v, <<f, v>> \in U,
         NEW glsl, glsl = FileOf(r, f), ReadsDefined(glsl),
         NEW I, NEW ins, Feeds(B, H, glsl, I, ins),
         NEW w \in {1, 2}, StoresTo(glsl, {0, w}),
         NEW o \in Field \ BufferField, <<uav(0), o>> \in B,
         NEW q \in Field \ BufferField, <<uav(w), q>> \in B, o # q
  PROVE  Goes(e, r, Facts(B, H, U), glDispatchCompute,
              Facts(B, After(H, {o, q}, {<<o, Output(glsl, v, 0, ins)>>,
                                         <<q, Output(glsl, v, w, ins)>>}), U))
<1>1. PICK O : CatchesAll(B, glsl, O, {o, q}, v, ins, {<<o, Output(glsl, v, 0, ins)>>,
                                                       <<q, Output(glsl, v, w, ins)>>})
  BY CatchesTwo
<1>2. Goes(e, r, Facts(B, H, U), glDispatchCompute,
              Facts(B, After(H, TargetFields(glsl, O), Outputs(glsl, v, ins, O)), U))
  BY <1>1, DispatchGoes DEF CatchesAll
<1> QED
  BY <1>1, <1>2 DEF CatchesAll

-----------------------------------------------------------------------------
(* Lists of up to six calls.                                               *)
LEMMA GoesOne ==
  ASSUME NEW e, NEW r, NEW F, NEW G, NEW a, Goes(e, r, F, a, G)
  PROVE  Yields(e, r, <<a>>, F, G)
BY YieldsOne DEF Goes

(* Two.                                                                    *)
LEMMA GoesTwo ==
  ASSUME NEW e, NEW r, NEW F, NEW A, NEW G, NEW a, NEW b,
         Goes(e, r, F, a, A), Goes(e, r, A, b, G)
  PROVE  Yields(e, r, <<a, b>>, F, G)
BY YieldsTwo DEF Goes

(* Three.                                                                  *)
LEMMA GoesThree ==
  ASSUME NEW e, NEW r, NEW F, NEW A, NEW B, NEW G, NEW a, NEW b, NEW c,
         Goes(e, r, F, a, A), Goes(e, r, A, b, B), Goes(e, r, B, c, G)
  PROVE  Yields(e, r, <<a, b, c>>, F, G)
BY YieldsThree DEF Goes

(* Four.                                                                   *)
LEMMA GoesFour ==
  ASSUME NEW e, NEW r, NEW F, NEW A, NEW B, NEW C, NEW G, NEW a, NEW b, NEW c, NEW d,
         Goes(e, r, F, a, A), Goes(e, r, A, b, B), Goes(e, r, B, c, C), Goes(e, r, C, d, G)
  PROVE  Yields(e, r, <<a, b, c, d>>, F, G)
BY YieldsFour DEF Goes

(* Five.                                                                   *)
LEMMA GoesFive ==
  ASSUME NEW e, NEW r, NEW F, NEW A, NEW B, NEW C, NEW D, NEW G,
         NEW a, NEW b, NEW c, NEW d, NEW f,
         Goes(e, r, F, a, A), Goes(e, r, A, b, B), Goes(e, r, B, c, C), Goes(e, r, C, d, D),
         Goes(e, r, D, f, G)
  PROVE  Yields(e, r, <<a, b, c, d, f>>, F, G)
<1> DEFINE s == <<a, b, c>>
           t == <<d, f>>
<1>1. Yields(e, r, s, F, C) /\ Yields(e, r, t, C, G)
  BY GoesThree, GoesTwo
<1>2. <<a, b, c, d, f>> = s \o t
  OBVIOUS
<1> HIDE DEF s, t
<1> QED
  BY <1>1, <1>2, YieldsOn

(* Six.                                                                    *)
LEMMA GoesSix ==
  ASSUME NEW e, NEW r, NEW F, NEW A, NEW B, NEW C, NEW D, NEW E, NEW G,
         NEW a, NEW b, NEW c, NEW d, NEW f, NEW g,
         Goes(e, r, F, a, A), Goes(e, r, A, b, B), Goes(e, r, B, c, C), Goes(e, r, C, d, D),
         Goes(e, r, D, f, E), Goes(e, r, E, g, G)
  PROVE  Yields(e, r, <<a, b, c, d, f, g>>, F, G)
<1> DEFINE s == <<a, b, c>>
           t == <<d, f, g>>
<1>1. Yields(e, r, s, F, C) /\ Yields(e, r, t, C, G)
  BY GoesThree
<1>2. <<a, b, c, d, f, g>> = s \o t
  OBVIOUS
<1> HIDE DEF s, t
<1> QED
  BY <1>1, <1>2, YieldsOn

(* The fields of objects that shaders touch.                               *)
LEMMA ShaderFields ==
  /\ StoredField \subseteq Field \ BufferField
  /\ "m_srcTexture" \in Field \ BufferField
  /\ "m_etc1TablesSsbo" \in Field \ BufferField /\ "m_bc1TablesSsbo" \in Field \ BufferField
  /\ ProgramField \subseteq Field \ BufferField
  /\ "m_downloadStaging" \in BufferField
BY DEF StoredField, Field, BufferField, ProgramField

(* A shader with one texture and one image: a step of its own.             *)
Pass(e, f, a, o) ==
  <<bindTexture(0, Object(e, a)), bindUav(0, Object(e, o), "Write"),
    bindComputePso(Object(e, f)), glDispatchCompute>>

(* It computes its result.                                                 *)
LEMMA PassYields ==
  ASSUME NEW e \in Encoder, NEW r, NEW f \in ProgramField, f = "m_eacPso" => ~UsesEAC(r),
         NEW glsl, glsl = FileOf(r, f),
         glsl \in {"dither555.glsl", "eac.glsl", "bc4.glsl",
                   "etc2_th_find_best_c0c1_k_means.glsl"},
         NEW a \in StoredField \cup {"m_srcTexture"}, NEW o \in StoredField,
         NEW H, NEW x, <<a, x>> \in H, NEW U, NEW v, <<f, v>> \in U
  PROVE  Yields(e, r, Pass(e, f, a, o), Facts({}, H, U),
                Facts({}, After(H, {o}, {<<o, Output(glsl, v, 0, <<x>>)>>}), U))
<1> DEFINE A == {<<tex(0), a>>}
           B == A \cup {<<uav(0), o>>}
           C == B \cup {<<pso, f>>}
           N == After(H, {o}, {<<o, Output(glsl, v, 0, <<x>>)>>})
<1>1. a \in Field \ BufferField /\ o \in Field \ BufferField
  BY ShaderFields
<1>2. Adds(A, {}, tex(0), a) /\ Adds(B, A, uav(0), o) /\ Adds(C, B, pso, f)
  BY UnitsDiffer DEF Adds, Free
<1>3. <<tex(0), a>> \in C /\ <<uav(0), o>> \in C /\ <<pso, f>> \in C
  OBVIOUS
<1> HIDE DEF A, B, C
<1>4. /\ Goes(e, r, Facts({}, H, U), bindTexture(0, Object(e, a)), Facts(A, H, U))
      /\ Goes(e, r, Facts(A, H, U), bindUav(0, Object(e, o), "Write"), Facts(B, H, U))
      /\ Goes(e, r, Facts(B, H, U), bindComputePso(Object(e, f)), Facts(C, H, U))
  <2>1. Goes(e, r, Facts({}, H, U), bindTexture(0, Object(e, a)), Facts(A, H, U))
    BY <1>1, <1>2, Slots, TextureGoes
  <2>2. Goes(e, r, Facts(A, H, U), bindUav(0, Object(e, o), "Write"), Facts(B, H, U))
    BY <1>1, <1>2, Slots, ImageGoes
  <2>3. Goes(e, r, Facts(B, H, U), bindComputePso(Object(e, f)), Facts(C, H, U))
    BY <1>2, ProgramGoes
  <2> QED
    BY <2>1, <2>2, <2>3
<1>5. /\ InputCount(glsl) = 1 /\ InputUnit(glsl, 1) = tex(0) /\ StoresTo(glsl, {0})
      /\ ReadsDefined(glsl)
  BY InputsOfTexture DEF StoresTo
<1>6. Feeds(C, H, glsl, <<a>>, <<x>>)
  BY <1>1, <1>3, <1>5, FeedsOne DEF Fed
<1>7. Goes(e, r, Facts(C, H, U), glDispatchCompute, Facts(C, N, U))
  BY <1>1, <1>3, <1>5, <1>6, DispatchInto
<1> HIDE DEF N
<1>8. Yields(e, r, Pass(e, f, a, o), Facts({}, H, U), Facts(C, N, U))
  BY <1>4, <1>7, GoesFour DEF Pass
<1>9. Facts({}, N, U) \subseteq Facts(C, N, U)
  BY FewerFacts
<1> QED
  BY <1>8, <1>9, YieldsWeaker DEF N

(* Two results are stitched.                                               *)
LEMMA StitchYields ==
  ASSUME NEW e \in Encoder, NEW r, ~UsesETC2(r),
         NEW a \in StoredField, NEW b \in StoredField,
         NEW H, NEW x, <<a, x>> \in H, NEW y, <<b, y>> \in H,
         NEW U, <<"m_stitchPso", <<>>>> \in U
  PROVE  Yields(e, r, Stitch(e, a, b), Facts({}, H, U),
                Facts({}, After(H, {"m_stitchedTarget"},
                  {<<"m_stitchedTarget",
                     Output("etc2_rgba_stitch.glsl", <<>>, 0, <<x, y>>)>>}), U))
<1> DEFINE f == "m_stitchPso"
           o == "m_stitchedTarget"
           glsl == "etc2_rgba_stitch.glsl"
           A == {<<tex(0), a>>}
           B == A \cup {<<tex(1), b>>}
           C == B \cup {<<uav(0), o>>}
           D == C \cup {<<pso, f>>}
           N == After(H, {o}, {<<o, Output(glsl, <<>>, 0, <<x, y>>)>>})
<1>1. /\ a \in Field \ BufferField /\ b \in Field \ BufferField /\ o \in Field \ BufferField
      /\ f \in ProgramField
  BY ShaderFields DEF StoredField, ProgramField
<1>2. /\ Adds(A, {}, tex(0), a) /\ Adds(B, A, tex(1), b) /\ Adds(C, B, uav(0), o)
      /\ Adds(D, C, pso, f)
  <2>1. tex(1) # tex(0)
    BY UnitsDiffer
  <2> QED
    BY <2>1, UnitsDiffer DEF Adds, Free
<1>3. glsl = FileOf(r, f)
  BY DEF FileOf
<1>4. /\ <<tex(0), a>> \in D /\ <<tex(1), b>> \in D /\ <<uav(0), o>> \in D /\ <<pso, f>> \in D
  OBVIOUS
<1> HIDE DEF A, B, C, D
<1>6. /\ Goes(e, r, Facts({}, H, U), bindTexture(0, Object(e, a)), Facts(A, H, U))
      /\ Goes(e, r, Facts(A, H, U), bindTexture(1, Object(e, b)), Facts(B, H, U))
      /\ Goes(e, r, Facts(B, H, U), bindUav(0, Object(e, o), "Write"), Facts(C, H, U))
      /\ Goes(e, r, Facts(C, H, U), bindComputePso(Object(e, f)), Facts(D, H, U))
  <2>1. Goes(e, r, Facts({}, H, U), bindTexture(0, Object(e, a)), Facts(A, H, U))
    BY <1>1, <1>2, Slots, TextureGoes
  <2>2. Goes(e, r, Facts(A, H, U), bindTexture(1, Object(e, b)), Facts(B, H, U))
    BY <1>1, <1>2, Slots, TextureGoes
  <2>3. Goes(e, r, Facts(B, H, U), bindUav(0, Object(e, o), "Write"), Facts(C, H, U))
    BY <1>1, <1>2, Slots, ImageGoes
  <2>4. Goes(e, r, Facts(C, H, U), bindComputePso(Object(e, f)), Facts(D, H, U))
    BY <1>1, <1>2, ProgramGoes
  <2> QED
    BY <2>1, <2>2, <2>3, <2>4
<1>7. /\ InputCount(glsl) = 2 /\ InputUnit(glsl, 1) = tex(0) /\ InputUnit(glsl, 2) = tex(1)
      /\ StoresTo(glsl, {0}) /\ ReadsDefined(glsl)
  BY InputsOfStitch DEF StoresTo
<1>8. Feeds(D, H, glsl, <<a, b>>, <<x, y>>)
  BY <1>1, <1>4, <1>7, FeedsTwo DEF Fed
<1>9. Goes(e, r, Facts(D, H, U), glDispatchCompute, Facts(D, N, U))
  BY <1>1, <1>3, <1>4, <1>7, <1>8, DispatchInto
<1>10. Goes(e, r, Facts({}, H, U), glMemoryBarrier({"TEXTURE_FETCH"}), Facts({}, H, U))
  BY BarrierGoes DEF Bit
<1> HIDE DEF N
<1>11. Yields(e, r, Stitch(e, a, b), Facts({}, H, U), Facts(D, N, U))
  BY <1>6, <1>9, <1>10, GoesSix DEF Stitch
<1>12. Facts({}, N, U) \subseteq Facts(D, N, U)
  BY FewerFacts
<1> QED
  BY <1>11, <1>12, YieldsWeaker DEF N

-----------------------------------------------------------------------------
(* What the passes of a codec compute, by the names PipelineProps!Blocks   *)
(* gives to the parts.                                                     *)
EtcSrc(e, r) ==
  IF r.dither THEN Dispatched("dither555.glsl", <<>>, <<SourceImage(e)>>) ELSE SourceImage(e)
Etc1Of(e, r, glsl, unit) ==
  Output(glsl, <<r.quality>>, unit, <<EtcSrc(e, r), Leaf("etc1_tables")>>)
AlphaOf(e) == Dispatched("eac.glsl", <<>>, <<SourceImage(e)>>)
ClustersOf(e, r) ==
  Dispatched("etc2_th_find_best_c0c1_k_means.glsl", <<>>, <<EtcSrc(e, r)>>)
THOf(e, r, unit) == Output("etc2_th.glsl", <<>>, unit, <<EtcSrc(e, r), ClustersOf(e, r)>>)
POf(e, r, unit) == Output("etc2_p.glsl", <<>>, unit, <<EtcSrc(e, r)>>)
StitchOf(low, high) == Dispatched("etc2_rgba_stitch.glsl", <<>>, <<high, low>>)
Bc1Of(e, r) ==
  Dispatched(IF r.dither THEN "bc1_dither.glsl" ELSE "bc1.glsl", <<2>>,
             <<SourceImage(e), Leaf("bc1_tables")>>)
Bc4Of(e, channel, snorm) == Dispatched("bc4.glsl", <<channel, snorm>>, <<SourceImage(e)>>)
SNorm(r) == IF r.codec \in {"bc4_snorm", "bc5_snorm"} THEN 1 ELSE 0

(* The programs whose uniform is never set.                                *)
Idles == {<<f, <<>>>> : f \in ProgramField \ {"m_compressPso", "m_bc1Pso", "m_bc4Pso"}}

(* They are the others.                                                    *)
LEMMA IdlePrograms ==
  /\ \A f \in ProgramField \ {"m_compressPso", "m_bc1Pso", "m_bc4Pso"} : <<f, <<>>>> \in Idles
  /\ Free(Idles, "m_compressPso") /\ Free(Idles, "m_bc1Pso") /\ Free(Idles, "m_bc4Pso")
BY DEF Idles, Free

(* The colour blocks of EncoderETC1::execute01.                            *)
Colour(e, r) ==
  <<bindTexture(0, Object(e, ditheredTexture(r))),
    bindUav(0, Object(e, "m_compressTargetRes"), "Write"),
    bindUavBuffer(1, Object(e, "m_etc1TablesSsbo"))>>
  \o When(forEtc2(r), <<bindUav(2, Object(e, "m_etc1Error"), "Write")>>)
  \o <<bindComputePso(Object(e, "m_compressPso")),
       glUniform(<<r.quality>>),
       glDispatchCompute>>

(* The texture read is one of those that shaders touch.                    *)
LEMMA DitheredField ==
  ASSUME NEW r
  PROVE  ditheredTexture(r) \in Field \ BufferField
BY ShaderFields DEF ditheredTexture, StoredField

(* Its first bindings.                                                     *)
LEMMA ColourBinds ==
  ASSUME NEW e \in Encoder, NEW r, NEW H, NEW U, NEW a \in Field \ BufferField,
         NEW B, B = {<<tex(0), a>>, <<uav(0), "m_compressTargetRes">>,
                     <<ssbo, "m_etc1TablesSsbo">>}
  PROVE  Yields(e, r, <<bindTexture(0, Object(e, a)),
                        bindUav(0, Object(e, "m_compressTargetRes"), "Write"),
                        bindUavBuffer(1, Object(e, "m_etc1TablesSsbo"))>>,
                Facts({}, H, U), Facts(B, H, U))
<1> DEFINE o == "m_compressTargetRes"
           t == "m_etc1TablesSsbo"
           C == {<<tex(0), a>>}
           D == {<<tex(0), a>>, <<uav(0), o>>}
<1>1. o \in Field \ BufferField /\ t \in Field \ BufferField
  BY ShaderFields DEF StoredField
<1>2. Adds(C, {}, tex(0), a) /\ Adds(D, C, uav(0), o) /\ Adds(B, D, ssbo, t)
  BY UnitsDiffer DEF Adds, Free
<1> HIDE DEF C, D
<1>3. Goes(e, r, Facts({}, H, U), bindTexture(0, Object(e, a)), Facts(C, H, U))
  BY <1>2, Slots, TextureGoes
<1>4. Goes(e, r, Facts(C, H, U), bindUav(0, Object(e, o), "Write"), Facts(D, H, U))
  BY <1>1, <1>2, Slots, ImageGoes
<1>5. Goes(e, r, Facts(D, H, U), bindUavBuffer(1, Object(e, t)), Facts(B, H, U))
  BY <1>1, <1>2, TableGoes
<1> QED
  BY <1>3, <1>4, <1>5, GoesThree

(* A program with a uniform set and dispatched.                            *)
LEMMA UniformPass ==
  ASSUME NEW e \in Encoder, NEW r, NEW f \in ProgramField, f = "m_eacPso" => ~UsesEAC(r),
         NEW H, NEW U, Free(U, f), NEW v, glUniform(v) \in OwnCall(e),
         NEW A, NEW B, Adds(B, A, pso, f), NEW N,
         Goes(e, r, Facts(B, H, U \cup {<<f, v>>}), glDispatchCompute,
              Facts(B, N, U \cup {<<f, v>>}))
  PROVE  Yields(e, r, <<bindComputePso(Object(e, f)), glUniform(v), glDispatchCompute>>,
                Facts(A, H, U), Facts({}, N, U))
<1>1. Goes(e, r, Facts(A, H, U), bindComputePso(Object(e, f)), Facts(B, H, U))
  BY ProgramGoes
<1>2. <<pso, f>> \in B
  BY DEF Adds
<1>3. Goes(e, r, Facts(B, H, U), glUniform(v), Facts(B, H, U \cup {<<f, v>>}))
  BY <1>2, UniformGoes
<1>4. Yields(e, r, <<bindComputePso(Object(e, f)), glUniform(v), glDispatchCompute>>,
             Facts(A, H, U), Facts(B, N, U \cup {<<f, v>>}))
  BY <1>1, <1>3, GoesThree
<1>5. Facts({}, N, U) \subseteq Facts(B, N, U \cup {<<f, v>>})
  BY FewerFacts
<1> QED
  BY <1>4, <1>5, YieldsWeaker

(* ETC1.                                                                   *)
LEMMA ColourYields ==
  ASSUME NEW e \in Encoder, NEW r \in Request, UsesETC1(r),
         NEW H, <<ditheredTexture(r), EtcSrc(e, r)>> \in H,
         <<"m_etc1TablesSsbo", Leaf("etc1_tables")>> \in H
  PROVE  Yields(e, r, Colour(e, r), Facts({}, H, Idles),
                Facts({}, After(H, {"m_compressTargetRes"},
                      {<<"m_compressTargetRes", Etc1Of(e, r, "etc1.glsl", 0)>>}), Idles))
<1> DEFINE a == ditheredTexture(r)
           o == "m_compressTargetRes"
           t == "m_etc1TablesSsbo"
           f == "m_compressPso"
           v == <<r.quality>>
           glsl == "etc1.glsl"
           x == EtcSrc(e, r)
           y == Leaf("etc1_tables")
           B == {<<tex(0), a>>, <<uav(0), o>>, <<ssbo, t>>}
           C == B \cup {<<pso, f>>}
           U == Idles \cup {<<f, v>>}
           N == After(H, {o}, {<<o, Output(glsl, v, 0, <<x, y>>)>>})
           s1 == <<bindTexture(0, Object(e, a)), bindUav(0, Object(e, o), "Write"),
                   bindUavBuffer(1, Object(e, t))>>
           s2 == <<bindUav(2, Object(e, "m_etc1Error"), "Write")>>
           s3 == <<bindComputePso(Object(e, f)), glUniform(v), glDispatchCompute>>
<1>1. /\ a \in Field \ BufferField /\ o \in Field \ BufferField /\ t \in Field \ BufferField
      /\ f \in ProgramField
  BY DitheredField, ShaderFields DEF StoredField, ProgramField
<1>2. ~forEtc2(r) /\ glsl = FileOf(r, f)
  BY DEF UsesETC1, forEtc2, FileOf, UsesBC6H
<1>3. Adds(C, B, pso, f)
  BY UnitsDiffer DEF Adds, Free
<1>4. <<tex(0), a>> \in C /\ <<uav(0), o>> \in C /\ <<ssbo, t>> \in C /\ <<pso, f>> \in C
  OBVIOUS
<1>5. <<f, v>> \in U
  OBVIOUS
<1>6. glUniform(v) \in OwnCall(e)
  BY RequestFields, OwnPlain
<1>7. B = {<<tex(0), a>>, <<uav(0), o>>, <<ssbo, t>>} /\ U = Idles \cup {<<f, v>>}
  OBVIOUS
<1> HIDE DEF a, B, C, U, x, y, v
<1>8. Yields(e, r, s1, Facts({}, H, Idles), Facts(B, H, Idles))
  BY <1>1, <1>7, ColourBinds
<1>9. /\ InputCount(glsl) = 2 /\ InputUnit(glsl, 1) = tex(0) /\ InputUnit(glsl, 2) = ssbo
      /\ StoresTo(glsl, {0}) /\ ReadsDefined(glsl)
  BY InputsOfTable DEF StoresTo
<1>10. Feeds(C, H, glsl, <<a, t>>, <<x, y>>)
  BY <1>1, <1>4, <1>9, FeedsTwo DEF Fed, a, x, y
<1>11. Goes(e, r, Facts(C, H, U), glDispatchCompute, Facts(C, N, U))
  BY <1>1, <1>2, <1>4, <1>5, <1>9, <1>10, DispatchInto
<1> HIDE DEF N
<1>12. Yields(e, r, s3, Facts(B, H, Idles), Facts({}, N, Idles))
  BY <1>1, <1>3, <1>6, <1>7, <1>11, IdlePrograms, UniformPass
<1>13. Yields(e, r, When(forEtc2(r), s2), Facts(B, H, Idles), Facts(B, H, Idles))
  <2>1. forEtc2(r) \in BOOLEAN
    BY DEF forEtc2
  <2> HIDE DEF s2
  <2> QED
    BY <1>2, <2>1, YieldsWhen
<1> HIDE DEF s1, s2, s3
<1>14. Yields(e, r, s1 \o When(forEtc2(r), s2) \o s3, Facts({}, H, Idles), Facts({}, N, Idles))
  BY <1>8, <1>12, <1>13, YieldsOn
<1>15. Colour(e, r) = s1 \o When(forEtc2(r), s2) \o s3
  BY DEF Colour, s1, s2, s3, a, v
<1> QED
  BY <1>14, <1>15 DEF N, x, y, v, Etc1Of

-----------------------------------------------------------------------------
(* ETC2, which stores the errors too.                                      *)
LEMMA ColourErrorYields ==
  ASSUME NEW e \in Encoder, NEW r \in Request, UsesETC2(r),
         NEW H, <<ditheredTexture(r), EtcSrc(e, r)>> \in H,
         <<"m_etc1TablesSsbo", Leaf("etc1_tables")>> \in H
  PROVE  Yields(e, r, Colour(e, r), Facts({}, H, Idles),
                Facts({}, After(H, {"m_compressTargetRes", "m_etc1Error"},
                      {<<"m_compressTargetRes", Etc1Of(e, r, "etc1_with_error.glsl", 0)>>,
                       <<"m_etc1Error", Etc1Of(e, r, "etc1_with_error.glsl", 2)>>}), Idles))
<1> DEFINE a == ditheredTexture(r)
           o == "m_compressTargetRes"
           q == "m_etc1Error"
           t == "m_etc1TablesSsbo"
           f == "m_compressPso"
           v == <<r.quality>>
           glsl == "etc1_with_error.glsl"
           x == EtcSrc(e, r)
           y == Leaf("etc1_tables")
           A == {<<tex(0), a>>, <<uav(0), o>>, <<ssbo, t>>}
           B == A \cup {<<uav(2), q>>}
           C == B \cup {<<pso, f>>}
           U == Idles \cup {<<f, v>>}
           N == After(H, {o, q}, {<<o, Output(glsl, v, 0, <<x, y>>)>>,
                                  <<q, Output(glsl, v, 2, <<x, y>>)>>})
           s1 == <<bindTexture(0, Object(e, a)), bindUav(0, Object(e, o), "Write"),
                   bindUavBuffer(1, Object(e, t))>>
           s2 == <<bindUav(2, Object(e, q), "Write")>>
           s3 == <<bindComputePso(Object(e, f)), glUniform(v), glDispatchCompute>>
<1>1. /\ a \in Field \ BufferField /\ o \in Field \ BufferField /\ t \in Field \ BufferField
      /\ q \in Field \ BufferField /\ f \in ProgramField
  BY DitheredField, ShaderFields DEF StoredField, ProgramField
<1>2. forEtc2(r) = TRUE /\ glsl = FileOf(r, f)
  BY DEF UsesETC2, forEtc2, FileOf, UsesBC6H
<1>3. Adds(C, B, pso, f) /\ Adds(B, A, uav(2), q)
  <2>1. uav(2) # uav(0)
    BY UnitsDiffer
  <2> QED
    BY <2>1, UnitsDiffer DEF Adds, Free
<1>4. /\ <<tex(0), a>> \in C /\ <<uav(0), o>> \in C /\ <<ssbo, t>> \in C /\ <<pso, f>> \in C
      /\ <<uav(2), q>> \in C
  OBVIOUS
<1>5. <<f, v>> \in U
  OBVIOUS
<1>6. glUniform(v) \in OwnCall(e)
  BY RequestFields, OwnPlain
<1>7. A = {<<tex(0), a>>, <<uav(0), o>>, <<ssbo, t>>} /\ U = Idles \cup {<<f, v>>}
  OBVIOUS
<1> HIDE DEF a, A, B, C, U, x, y, v
<1>8. Yields(e, r, s1, Facts({}, H, Idles), Facts(A, H, Idles))
  BY <1>1, <1>7, ColourBinds
<1>9. /\ InputCount(glsl) = 2 /\ InputUnit(glsl, 1) = tex(0) /\ InputUnit(glsl, 2) = ssbo
      /\ StoresTo(glsl, {0, 2}) /\ ReadsDefined(glsl)
  BY InputsOfErrors DEF StoresTo
<1>10. Feeds(C, H, glsl, <<a, t>>, <<x, y>>)
  BY <1>1, <1>4, <1>9, FeedsTwo DEF Fed, a, x, y
<1>11. Goes(e, r, Facts(C, H, U), glDispatchCompute, Facts(C, N, U))
  <2>1. 2 \in {1, 2} /\ o # q
    OBVIOUS
  <2> QED
    BY <1>1, <1>2, <1>4, <1>5, <1>9, <1>10, <2>1, DispatchIntoBoth
<1> HIDE DEF N
<1>12. Yields(e, r, s3, Facts(B, H, Idles), Facts({}, N, Idles))
  BY <1>1, <1>3, <1>6, <1>7, <1>11, IdlePrograms, UniformPass
<1>13. Yields(e, r, When(forEtc2(r), s2), Facts(A, H, Idles), Facts(B, H, Idles))
  <2>1. Goes(e, r, Facts(A, H, Idles), bindUav(2, Object(e, q), "Write"), Facts(B, H, Idles))
    BY <1>1, <1>3, Slots, ImageGoes
  <2>2. Yields(e, r, s2, Facts(A, H, Idles), Facts(B, H, Idles))
    BY <2>1, GoesOne
  <2>3. forEtc2(r) \in BOOLEAN
    BY DEF forEtc2
  <2> HIDE DEF s2
  <2> QED
    BY <1>2, <2>2, <2>3, YieldsWhen
<1> HIDE DEF s1, s2, s3
<1>14. Yields(e, r, s1 \o When(forEtc2(r), s2) \o s3, Facts({}, H, Idles), Facts({}, N, Idles))
  BY <1>8, <1>12, <1>13, YieldsOn
<1>15. Colour(e, r) = s1 \o When(forEtc2(r), s2) \o s3
  BY DEF Colour, s1, s2, s3, a, v
<1> QED
  BY <1>14, <1>15 DEF N, x, y, v, Etc1Of

(* The alpha blocks.                                                       *)
LEMMA AlphaYields ==
  ASSUME NEW e \in Encoder, NEW r, ~UsesEAC(r), NEW H,
         <<"m_srcTexture", SourceImage(e)>> \in H
  PROVE  Yields(e, r, Pass(e, "m_eacPso", "m_srcTexture", "m_eacTargetRes"),
                Facts({}, H, Idles),
                Facts({}, After(H, {"m_eacTargetRes"},
                                {<<"m_eacTargetRes", AlphaOf(e)>>}), Idles))
<1> DEFINE f == "m_eacPso"
           o == "m_eacTargetRes"
           a == "m_srcTexture"
           glsl == "eac.glsl"
           x == SourceImage(e)
           U == Idles
<1>1. /\ f \in ProgramField /\ glsl = FileOf(r, f)
      /\ a \in StoredField \cup {"m_srcTexture"} /\ o \in StoredField
  BY DEF ProgramField, FileOf, StoredField
<1>2. <<f, <<>>>> \in U
  BY <1>1, IdlePrograms
<1> HIDE DEF x, U
<1>3. Yields(e, r, Pass(e, f, a, o), Facts({}, H, U),
             Facts({}, After(H, {o}, {<<o, Output(glsl, <<>>, 0, <<x>>)>>}), U))
  BY <1>1, <1>2, PassYields DEF x
<1> QED
  BY <1>3 DEF AlphaOf, Dispatched, x, U

(* The dithered picture.                                                   *)
LEMMA DitherYields ==
  ASSUME NEW e \in Encoder, NEW r, r.dither = TRUE, NEW H,
         <<"m_srcTexture", SourceImage(e)>> \in H
  PROVE  Yields(e, r, Pass(e, "m_ditherPso", "m_srcTexture", "m_ditheredTexture"),
                Facts({}, H, Idles),
                Facts({}, After(H, {"m_ditheredTexture"},
                                {<<"m_ditheredTexture", EtcSrc(e, r)>>}), Idles))
<1> DEFINE f == "m_ditherPso"
           o == "m_ditheredTexture"
           a == "m_srcTexture"
           glsl == "dither555.glsl"
           x == SourceImage(e)
           U == Idles
<1>1. /\ f \in ProgramField /\ glsl = FileOf(r, f)
      /\ a \in StoredField \cup {"m_srcTexture"} /\ o \in StoredField
  BY DEF ProgramField, FileOf, StoredField
<1>2. <<f, <<>>>> \in U
  BY <1>1, IdlePrograms
<1> HIDE DEF x, U
<1>3. Yields(e, r, Pass(e, f, a, o), Facts({}, H, U),
             Facts({}, After(H, {o}, {<<o, Output(glsl, <<>>, 0, <<x>>)>>}), U))
  BY <1>1, <1>2, PassYields DEF x
<1> QED
  BY <1>3 DEF EtcSrc, Dispatched, x, U

(* The pairs of clusters.                                                  *)
LEMMA ClustersYield ==
  ASSUME NEW e \in Encoder, NEW r, NEW H,
         <<ditheredTexture(r), EtcSrc(e, r)>> \in H
  PROVE  Yields(e, r, Pass(e, "m_thModesFindBestC0C1", ditheredTexture(r), "m_thModesC0C1"),
                Facts({}, H, Idles),
                Facts({}, After(H, {"m_thModesC0C1"},
                                {<<"m_thModesC0C1", ClustersOf(e, r)>>}), Idles))
<1> DEFINE f == "m_thModesFindBestC0C1"
           o == "m_thModesC0C1"
           a == ditheredTexture(r)
           glsl == "etc2_th_find_best_c0c1_k_means.glsl"
           x == EtcSrc(e, r)
           U == Idles
<1>1. /\ f \in ProgramField /\ glsl = FileOf(r, f)
      /\ a \in StoredField \cup {"m_srcTexture"} /\ o \in StoredField
  BY DEF ProgramField, FileOf, StoredField, ditheredTexture
<1>2. <<f, <<>>>> \in U
  BY <1>1, IdlePrograms
<1> HIDE DEF x, U, a
<1>3. Yields(e, r, Pass(e, f, a, o), Facts({}, H, U),
             Facts({}, After(H, {o}, {<<o, Output(glsl, <<>>, 0, <<x>>)>>}), U))
  BY <1>1, <1>2, PassYields DEF a, x
<1> QED
  BY <1>3 DEF ClustersOf, Dispatched, x, U, a

-----------------------------------------------------------------------------
(* What an encoder's objects hold between its steps: the picture and the   *)
(* table...                                                                *)
Base(e, r) ==
  {<<"m_srcTexture", SourceImage(e)>>}
    \cup (IF Has00(r) THEN {<<"m_etc1TablesSsbo", Leaf("etc1_tables")>>} ELSE {})
    \cup (IF UsesBC1(r) THEN {<<"m_bc1TablesSsbo", Leaf("bc1_tables")>>} ELSE {})

(* ... what the ETC searches start from...                                 *)
Dithered(e, r) == Base(e, r) \cup {<<ditheredTexture(r), EtcSrc(e, r)>>}
Searched(e, r) ==
  Dithered(e, r)
    \cup (IF UsesETC2(r) THEN {<<"m_thModesC0C1", ClustersOf(e, r)>>} ELSE {})

(* ... what is to be put together...                                       *)
AlphaPart(e, r) ==
  IF hasAlpha(r) THEN {<<"m_eacTargetRes", AlphaOf(e)>>} ELSE {}
Etc1Parts(e, r) ==
  {<<"m_compressTargetRes", Etc1Of(e, r, "etc1.glsl", 0)>>} \cup AlphaPart(e, r)
ErrorParts(e, r) ==
  {<<"m_compressTargetRes", Etc1Of(e, r, "etc1_with_error.glsl", 0)>>,
   <<"m_etc1Error", Etc1Of(e, r, "etc1_with_error.glsl", 2)>>} \cup AlphaPart(e, r)
ModeParts(e, r) ==
  {<<"m_thModesTargetRes", THOf(e, r, 0)>>, <<"m_thModesError", THOf(e, r, 1)>>,
   <<"m_pModeTargetRes", POf(e, r, 0)>>, <<"m_pModeError", POf(e, r, 1)>>}
Bc1Parts(e, r) ==
  {<<"m_bc1TargetRes", Bc1Of(e, r)>>}
    \cup (IF useBC3(r) THEN {<<"m_bc4TargetRes", Bc4Of(e, 3, 0)>>} ELSE {})
Bc4Parts(e, r) ==
  {<<"m_bc4TargetRes[0]", Bc4Of(e, 0, SNorm(r))>>}
    \cup (IF redGreen(r) THEN {<<"m_bc4TargetRes[1]", Bc4Of(e, 1, SNorm(r))>>} ELSE {})

(* Fields that are not stored to.                                          *)
Clear(K, D) == \A p \in K : p[1] \notin D

(* Their contents stay.                                                    *)
LEMMA AfterKeeps ==
  ASSUME NEW H, NEW D, NEW W, NEW K \in SUBSET H, Clear(K, D)
  PROVE  W \cup K \subseteq After(H, D, W)
BY DEF After, Clear

(* Less is known than there is.                                            *)
LEMMA YieldsLess ==
  ASSUME NEW e, NEW r, NEW s, NEW F, NEW H, NEW U, Yields(e, r, s, F, Facts({}, H, U)),
         NEW K, K \subseteq H
  PROVE  Yields(e, r, s, F, Facts({}, K, U))
<1>1. Facts({}, K, U) \subseteq Facts({}, H, U)
  BY FewerFacts
<1> QED
  BY <1>1, YieldsWeaker

(* What every step finds.                                                  *)
LEMMA InBase ==
  ASSUME NEW e, NEW r
  PROVE  /\ <<"m_srcTexture", SourceImage(e)>> \in Base(e, r)
         /\ Has00(r) => <<"m_etc1TablesSsbo", Leaf("etc1_tables")>> \in Base(e, r)
         /\ UsesBC1(r) => <<"m_bc1TablesSsbo", Leaf("bc1_tables")>> \in Base(e, r)
         /\ Clear(Base(e, r), StoredField)
<1> DEFINE a == SourceImage(e)
           b == Leaf("etc1_tables")
           c == Leaf("bc1_tables")
<1>1. Base(e, r) = {<<"m_srcTexture", a>>}
        \cup (IF Has00(r) THEN {<<"m_etc1TablesSsbo", b>>} ELSE {})
        \cup (IF UsesBC1(r) THEN {<<"m_bc1TablesSsbo", c>>} ELSE {})
  BY DEF Base
<1> HIDE DEF a, b, c
<1>2. /\ <<"m_srcTexture", a>> \in Base(e, r)
      /\ Has00(r) => <<"m_etc1TablesSsbo", b>> \in Base(e, r)
      /\ UsesBC1(r) => <<"m_bc1TablesSsbo", c>> \in Base(e, r)
  BY <1>1
<1>3. Clear(Base(e, r), StoredField)
  <2>1. \A p \in Base(e, r) : p = <<"m_srcTexture", a>> \/ p = <<"m_etc1TablesSsbo", b>>
                              \/ p = <<"m_bc1TablesSsbo", c>>
    BY <1>1
  <2> QED
    BY <2>1 DEF Clear, StoredField
<1> QED
  BY <1>2, <1>3 DEF a, b, c

(* A barrier after a pass.                                                 *)
LEMMA FourAndOne ==
  ASSUME NEW a, NEW b, NEW c, NEW d, NEW f
  PROVE  <<a, b, c, d>> \o <<f>> = <<a, b, c, d, f>>
<1> DEFINE s == <<a, b, c, d>>
           t == <<f>>
<1>1. <<a, b, c, d, f>> = s \o t
  OBVIOUS
<1> QED
  BY <1>1

(* EncoderETC1::execute00.                                                 *)
LEMMA ETC1_execute00Yields ==
  ASSUME NEW e \in Encoder, NEW r \in Request
  PROVE  Yields(e, r, ETC1_execute00(e, r), Facts({}, Base(e, r), Idles),
                Facts({}, Dithered(e, r), Idles))
<1> DEFINE s == Pass(e, "m_ditherPso", "m_srcTexture", "m_ditheredTexture")
           b == glMemoryBarrier({"TEXTURE_FETCH"})
           H == Base(e, r)
           p == <<ditheredTexture(r), EtcSrc(e, r)>>
           F == Facts({}, H, Idles)
           G == Facts({}, Dithered(e, r), Idles)
           t == s \o <<b>>
<1>1. r.dither \in BOOLEAN
  BY RequestFields
<1>2. ETC1_execute00(e, r) = When(r.dither, t)
  BY FourAndOne DEF ETC1_execute00, Pass
<1>3. CASE r.dither
  <2>1. Dithered(e, r) = {p} \cup H /\ p = <<"m_ditheredTexture", EtcSrc(e, r)>>
    BY <1>3 DEF Dithered, ditheredTexture
  <2>2. Dithered(e, r) \subseteq After(H, {"m_ditheredTexture"}, {p})
    <3>1. Clear(H, {"m_ditheredTexture"})
      BY InBase DEF Clear, StoredField
    <3> QED
      BY <2>1, <3>1, AfterKeeps
  <2>3. Yields(e, r, s, F, Facts({}, After(H, {"m_ditheredTexture"}, {p}), Idles))
    <3>1. r.dither = TRUE
      BY <1>1, <1>3
    <3> HIDE DEF s
    <3> QED
      BY <2>1, <3>1, InBase, DitherYields DEF s
  <2> HIDE DEF s, p, H
  <2>4. Yields(e, r, s, F, G)
    BY <2>2, <2>3, YieldsLess
  <2>5. Goes(e, r, G, b, G)
    BY BarrierGoes DEF Bit
  <2> HIDE DEF F, G, b
  <2>6. Yields(e, r, <<b>>, G, G)
    BY <2>5, GoesOne
  <2>7. Yields(e, r, t, F, G)
    BY <2>4, <2>6, YieldsOn
  <2> HIDE DEF t
  <2>8. Yields(e, r, When(r.dither, t), F, G)
    BY <1>1, <1>3, <2>7, YieldsWhen
  <2> QED
    BY <1>2, <2>8 DEF F, G, H
<1>4. CASE ~r.dither
  <2>1. Dithered(e, r) = H
    <3>1. p = <<"m_srcTexture", SourceImage(e)>>
      BY <1>4 DEF ditheredTexture, EtcSrc
    <3> QED
      BY <3>1, InBase DEF Dithered
  <2> HIDE DEF t
  <2>2. Yields(e, r, When(r.dither, t), F, G)
    BY <1>1, <1>4, <2>1, YieldsWhen
  <2> QED
    BY <1>2, <2>2
<1> QED
  BY <1>3, <1>4

(* The colour and alpha blocks of EncoderETC1.                             *)
LEMMA ETC1_execute01Yields ==
  ASSUME NEW e \in Encoder, NEW r \in Request, UsesETC1(r)
  PROVE  Yields(e, r, ETC1_execute01(e, r), Facts({}, Dithered(e, r), Idles),
                Facts({}, Base(e, r) \cup Etc1Parts(e, r), Idles))
<1> DEFINE s == Colour(e, r)
           t == Pass(e, "m_eacPso", "m_srcTexture", "m_eacTargetRes")
           B == Base(e, r)
           H == Dithered(e, r)
           p == <<"m_compressTargetRes", Etc1Of(e, r, "etc1.glsl", 0)>>
           q == <<"m_eacTargetRes", AlphaOf(e)>>
           K == {p} \cup B
           L == {q} \cup K
           F == Facts({}, H, Idles)
           A == Facts({}, K, Idles)
           G == Facts({}, Base(e, r) \cup Etc1Parts(e, r), Idles)
<1>1. Has00(r) /\ ~UsesEAC(r) /\ hasAlpha(r) \in BOOLEAN
  BY DEF UsesETC1, Has00, UsesEAC, hasAlpha
<1>2. ETC1_execute01(e, r) = s \o When(hasAlpha(r), t)
  BY DEF ETC1_execute01, Colour, Pass
<1>3. /\ <<ditheredTexture(r), EtcSrc(e, r)>> \in H
      /\ <<"m_etc1TablesSsbo", Leaf("etc1_tables")>> \in H
      /\ B \subseteq H
  BY <1>1, InBase DEF Dithered
<1>4. /\ <<"m_srcTexture", SourceImage(e)>> \in B /\ Clear(B, {"m_compressTargetRes"})
      /\ Clear(B, {"m_eacTargetRes"})
  BY InBase DEF Clear, StoredField
<1>5. Clear(K, {"m_eacTargetRes"})
  BY <1>4 DEF Clear
<1>6. Base(e, r) \cup Etc1Parts(e, r) = IF hasAlpha(r) THEN L ELSE K
  BY DEF Etc1Parts, AlphaPart
<1> HIDE DEF s, t, B, H
<1>7. Yields(e, r, s, F, A)
  <2>1. Yields(e, r, s, F, Facts({}, After(H, {"m_compressTargetRes"}, {p}), Idles))
    BY <1>3, ColourYields DEF s
  <2>2. K \subseteq After(H, {"m_compressTargetRes"}, {p})
    BY <1>3, <1>4, AfterKeeps
  <2> HIDE DEF K, p
  <2> QED
    BY <2>1, <2>2, YieldsLess
<1>8. Yields(e, r, t, A, Facts({}, L, Idles))
  <2>1. Yields(e, r, t, A, Facts({}, After(K, {"m_eacTargetRes"}, {q}), Idles))
    BY <1>1, <1>4, AlphaYields DEF t
  <2>2. L \subseteq After(K, {"m_eacTargetRes"}, {q})
    BY <1>5, AfterKeeps
  <2> HIDE DEF K, L, q
  <2> QED
    BY <2>1, <2>2, YieldsLess
<1>9. Yields(e, r, When(hasAlpha(r), t), A, G)
  <2>1. hasAlpha(r) => G = Facts({}, L, Idles)
    BY <1>6
  <2>2. ~hasAlpha(r) => G \subseteq A
    BY <1>6
  <2> HIDE DEF L, K, A, G
  <2> QED
    BY <1>1, <1>8, <2>1, <2>2, YieldsWhen
<1> HIDE DEF K, L, A, F, G
<1>10. Yields(e, r, s \o When(hasAlpha(r), t), F, G)
  BY <1>7, <1>9, YieldsOn
<1> QED
  BY <1>2, <1>10 DEF F, G, H

-----------------------------------------------------------------------------
(* What the selectors of EncoderETC2 put together.                         *)
Modes(e, r) ==
  <<Etc1Of(e, r, "etc1_with_error.glsl", 2), THOf(e, r, 1), POf(e, r, 1)>>
    \o <<Etc1Of(e, r, "etc1_with_error.glsl", 0), THOf(e, r, 0), POf(e, r, 0)>>

(* The blocks of a codec, by the names above.                              *)
LEMMA BlocksOfEtc1 ==
  ASSUME NEW e, NEW r
  PROVE  /\ r.codec = "etc1" => Blocks(e, r) = Etc1Of(e, r, "etc1.glsl", 0)
         /\ r.codec = "etc2_rgba_etc1" =>
              Blocks(e, r) = StitchOf(AlphaOf(e), Etc1Of(e, r, "etc1.glsl", 0))
BY DEF Blocks, StitchOf, AlphaOf, Etc1Of, EtcSrc

(* The others.                                                             *)
LEMMA BlocksOfEtc2 ==
  ASSUME NEW e, NEW r
  PROVE  /\ r.codec = "etc2_rgb" =>
              Blocks(e, r) = Dispatched("etc2_rgb_selector.glsl", <<>>, Modes(e, r))
         /\ r.codec = "etc2_rgba" =>
              Blocks(e, r) = Dispatched("etc2_rgba_selector.glsl", <<>>,
                                        Modes(e, r) \o <<AlphaOf(e)>>)
BY DEF Blocks, Modes, AlphaOf, Etc1Of, EtcSrc, THOf, POf, ClustersOf

(* Those of the BC codecs.                                                 *)
LEMMA BlocksOfBc ==
  ASSUME NEW e, NEW r
  PROVE  /\ r.codec = "bc1" => Blocks(e, r) = Bc1Of(e, r)
         /\ r.codec = "bc3" => Blocks(e, r) = StitchOf(Bc4Of(e, 3, 0), Bc1Of(e, r))
         /\ r.codec \in {"bc4", "bc4_snorm"} => Blocks(e, r) = Bc4Of(e, 0, SNorm(r))
         /\ r.codec \in {"bc5", "bc5_snorm"} =>
              Blocks(e, r) = StitchOf(Bc4Of(e, 0, SNorm(r)), Bc4Of(e, 1, SNorm(r)))
BY DEF Blocks, Bc1Of, Bc4Of, StitchOf, SNorm

(* Where they are.                                                         *)
ResultField(r) ==
  IF UsesETC1(r) THEN IF hasAlpha(r) THEN "m_stitchedTarget" ELSE "m_compressTargetRes"
  ELSE IF UsesETC2(r) THEN ETC2_resultTexture(r)
  ELSE IF UsesBC1(r) THEN BC1_resultTexture(r) ELSE BC4_resultTexture(r)
Outcome(e, r) == {<<ResultField(r), Blocks(e, r)>>} \cup Base(e, r)

(* Two parts put together.                                                 *)
LEMMA PartsStitched ==
  ASSUME NEW e \in Encoder, NEW r \in Request, ~UsesETC2(r),
         NEW a \in StoredField, NEW b \in StoredField, NEW x, NEW y,
         NEW H, <<a, x>> \in H, <<b, y>> \in H, Base(e, r) \subseteq H
  PROVE  Yields(e, r, Stitch(e, a, b), Facts({}, H, Idles),
                Facts({}, {<<"m_stitchedTarget", StitchOf(y, x)>>} \cup Base(e, r), Idles))
<1> DEFINE f == "m_stitchPso"
           o == "m_stitchedTarget"
           p == <<o, StitchOf(y, x)>>
           B == Base(e, r)
<1>1. f \in ProgramField \ {"m_compressPso", "m_bc1Pso", "m_bc4Pso"} /\ o \in StoredField
  BY DEF ProgramField, StoredField
<1>2. <<f, <<>>>> \in Idles
  BY <1>1, IdlePrograms
<1>3. Yields(e, r, Stitch(e, a, b), Facts({}, H, Idles),
             Facts({}, After(H, {o}, {p}), Idles))
  BY <1>2, StitchYields DEF StitchOf, Dispatched
<1>4. Clear(B, {o})
  BY <1>1, InBase DEF Clear
<1> HIDE DEF p, B
<1>5. {p} \cup B \subseteq After(H, {o}, {p})
  BY <1>4, AfterKeeps DEF B
<1>6. Yields(e, r, Stitch(e, a, b), Facts({}, H, Idles), Facts({}, {p} \cup B, Idles))
  BY <1>3, <1>5, YieldsLess
<1> QED
  BY <1>6 DEF p, B

(* EncoderETC1::execute02.                                                 *)
LEMMA ETC1_execute02Yields ==
  ASSUME NEW e \in Encoder, NEW r \in Request, UsesETC1(r)
  PROVE  Yields(e, r, ETC1_execute02(e, r),
                Facts({}, Base(e, r) \cup Etc1Parts(e, r), Idles),
                Facts({}, Outcome(e, r), Idles))
<1> DEFINE a == "m_compressTargetRes"
           b == "m_eacTargetRes"
           x == Etc1Of(e, r, "etc1.glsl", 0)
           y == AlphaOf(e)
           s == Stitch(e, a, b)
           B == Base(e, r)
           H == B \cup Etc1Parts(e, r)
           K == Outcome(e, r)
           F == Facts({}, H, Idles)
           G == Facts({}, K, Idles)
<1>1. ETC1_execute02(e, r) = When(hasAlpha(r), s)
  BY DEF ETC1_execute02, Stitch
<1>2. hasAlpha(r) \in BOOLEAN /\ ~UsesETC2(r) /\ a \in StoredField /\ b \in StoredField
  BY DEF hasAlpha, UsesETC1, UsesETC2, StoredField
<1>3. <<a, x>> \in H /\ (hasAlpha(r) => <<b, y>> \in H) /\ B \subseteq H
  BY DEF Etc1Parts, AlphaPart
<1>4. hasAlpha(r) => K = {<<"m_stitchedTarget", StitchOf(y, x)>>} \cup B
  BY BlocksOfEtc1 DEF Outcome, ResultField, hasAlpha, UsesETC1
<1>5. ~hasAlpha(r) => K = {<<a, x>>} \cup B
  BY BlocksOfEtc1 DEF Outcome, ResultField, hasAlpha, UsesETC1
<1> HIDE DEF x, y, H, K, B, s
<1>6. CASE hasAlpha(r)
  <2>1. Yields(e, r, s, F, G)
    BY <1>2, <1>3, <1>4, <1>6, PartsStitched DEF B, s
  <2> QED
    BY <1>1, <1>2, <1>6, <2>1, YieldsWhen DEF F, G, H, K, B
<1>7. CASE ~hasAlpha(r)
  <2>1. K \subseteq H
    BY <1>3, <1>5, <1>7
  <2>2. G \subseteq F
    BY <2>1, FewerFacts
  <2> QED
    BY <1>1, <1>2, <1>7, <2>2, YieldsWhen DEF F, G, H, K, B
<1> QED
  BY <1>6, <1>7

-----------------------------------------------------------------------------
(* The BC4 blocks of a channel, with the picture and the program bound.    *)
Bc4Bound == {<<tex(0), "m_srcTexture">>, <<pso, "m_bc4Pso">>}
Channel(e, o, v) ==
  <<bindUav(0, Object(e, o), "Write"), glUniform(v), glDispatchCompute>>

(* They are computed.                                                      *)
LEMMA ChannelYields ==
  ASSUME NEW e \in Encoder, NEW r, NEW o \in StoredField, NEW c \in Int, NEW n \in Int,
         NEW H, <<"m_srcTexture", SourceImage(e)>> \in H
  PROVE  Yields(e, r, Channel(e, o, <<c, n>>), Facts(Bc4Bound, H, Idles),
                Facts(Bc4Bound, After(H, {o}, {<<o, Bc4Of(e, c, n)>>}), Idles))
<1> DEFINE f == "m_bc4Pso"
           a == "m_srcTexture"
           v == <<c, n>>
           x == SourceImage(e)
           glsl == "bc4.glsl"
           A == Bc4Bound
           B == A \cup {<<uav(0), o>>}
           U == Idles \cup {<<f, v>>}
           N == After(H, {o}, {<<o, Output(glsl, v, 0, <<x>>)>>})
<1>1. /\ a \in Field \ BufferField /\ o \in Field \ BufferField /\ f \in ProgramField
      /\ glsl = FileOf(r, f)
  BY ShaderFields DEF ProgramField, FileOf
<1>2. Adds(B, A, uav(0), o)
  BY UnitsDiffer DEF Adds, Free, Bc4Bound
<1>3. /\ <<tex(0), a>> \in B /\ <<pso, f>> \in B /\ <<uav(0), o>> \in B
      /\ A \in SUBSET B /\ Idles \in SUBSET U /\ <<f, v>> \in U /\ U = Idles \cup {<<f, v>>}
  BY DEF Bc4Bound
<1>4. glUniform(v) \in OwnCall(e)
  BY OwnPlain
<1> HIDE DEF A, B, U, v, x
<1>5. /\ InputCount(glsl) = 1 /\ InputUnit(glsl, 1) = tex(0) /\ StoresTo(glsl, {0})
      /\ ReadsDefined(glsl)
  BY InputsOfTexture DEF StoresTo
<1>6. Feeds(B, H, glsl, <<a>>, <<x>>)
  BY <1>1, <1>3, <1>5, FeedsOne DEF Fed, x
<1>7. Goes(e, r, Facts(A, H, Idles), bindUav(0, Object(e, o), "Write"), Facts(B, H, Idles))
  BY <1>1, <1>2, Slots, ImageGoes
<1>8. Goes(e, r, Facts(B, H, Idles), glUniform(v), Facts(B, H, U))
  BY <1>1, <1>3, <1>4, IdlePrograms, UniformGoes
<1>9. Goes(e, r, Facts(B, H, U), glDispatchCompute, Facts(B, N, U))
  BY <1>1, <1>3, <1>5, <1>6, DispatchInto
<1> HIDE DEF N
<1>10. Yields(e, r, Channel(e, o, v), Facts(A, H, Idles), Facts(B, N, U))
  BY <1>7, <1>8, <1>9, GoesThree DEF Channel
<1>11. Facts(A, N, Idles) \subseteq Facts(B, N, U)
  BY <1>3, FewerFacts
<1>12. Yields(e, r, Channel(e, o, v), Facts(A, H, Idles), Facts(A, N, Idles))
  BY <1>10, <1>11, YieldsWeaker
<1> QED
  BY <1>12 DEF A, N, v, x, Bc4Of, Dispatched

(* The BC1 blocks.                                                         *)
LEMMA Bc1Yields ==
  ASSUME NEW e \in Encoder, NEW r \in Request, UsesBC1(r),
         NEW H, <<"m_srcTexture", SourceImage(e)>> \in H,
         <<"m_bc1TablesSsbo", Leaf("bc1_tables")>> \in H
  PROVE  Yields(e, r, <<bindTexture(0, Object(e, "m_srcTexture")),
                        bindComputePso(Object(e, "m_bc1Pso")),
                        bindUav(0, Object(e, "m_bc1TargetRes"), "Write"),
                        bindUavBuffer(1, Object(e, "m_bc1TablesSsbo")),
                        glUniform(<<2>>),
                        glDispatchCompute>>,
                Facts({}, H, Idles),
                Facts({<<tex(0), "m_srcTexture">>},
                      After(H, {"m_bc1TargetRes"}, {<<"m_bc1TargetRes", Bc1Of(e, r)>>}),
                      Idles))
<1> DEFINE f == "m_bc1Pso"
           a == "m_srcTexture"
           o == "m_bc1TargetRes"
           t == "m_bc1TablesSsbo"
           v == <<2>>
           x == SourceImage(e)
           y == Leaf("bc1_tables")
           glsl == FileOf(r, f)
           A == {<<tex(0), a>>}
           B == A \cup {<<pso, f>>}
           C == B \cup {<<uav(0), o>>}
           D == C \cup {<<ssbo, t>>}
           U == Idles \cup {<<f, v>>}
           N == After(H, {o}, {<<o, Output(glsl, v, 0, <<x, y>>)>>})
<1>1. /\ a \in Field \ BufferField /\ o \in Field \ BufferField /\ f \in ProgramField
      /\ t \in Field \ BufferField
  BY ShaderFields DEF ProgramField, StoredField
<1>2. /\ Adds(A, {}, tex(0), a) /\ Adds(B, A, pso, f) /\ Adds(C, B, uav(0), o)
      /\ Adds(D, C, ssbo, t)
  BY UnitsDiffer DEF Adds, Free
<1>3. /\ <<tex(0), a>> \in D /\ <<pso, f>> \in D /\ <<uav(0), o>> \in D /\ <<ssbo, t>> \in D
      /\ A \in SUBSET D /\ Idles \in SUBSET U /\ <<f, v>> \in U /\ U = Idles \cup {<<f, v>>}
  OBVIOUS
<1>4. glUniform(v) \in OwnCall(e)
  BY OwnPlain
<1>5. glsl = IF r.dither THEN "bc1_dither.glsl" ELSE "bc1.glsl"
  BY DEF FileOf
<1> HIDE DEF A, B, C, D, U, v, x, y
<1>6. /\ InputCount(glsl) = 2 /\ InputUnit(glsl, 1) = tex(0) /\ InputUnit(glsl, 2) = ssbo
      /\ StoresTo(glsl, {0}) /\ ReadsDefined(glsl)
  BY <1>5, InputsOfTable DEF StoresTo
<1> HIDE DEF glsl
<1>7. Feeds(D, H, glsl, <<a, t>>, <<x, y>>)
  BY <1>1, <1>3, <1>6, FeedsTwo DEF Fed, x, y
<1>8. Goes(e, r, Facts({}, H, Idles), bindTexture(0, Object(e, a)), Facts(A, H, Idles))
  BY <1>1, <1>2, Slots, TextureGoes
<1>9. Goes(e, r, Facts(A, H, Idles), bindComputePso(Object(e, f)), Facts(B, H, Idles))
  BY <1>1, <1>2, ProgramGoes
<1>10. Goes(e, r, Facts(B, H, Idles), bindUav(0, Object(e, o), "Write"), Facts(C, H, Idles))
  BY <1>1, <1>2, Slots, ImageGoes
<1>11. Goes(e, r, Facts(C, H, Idles), bindUavBuffer(1, Object(e, t)), Facts(D, H, Idles))
  BY <1>1, <1>2, TableGoes
<1>12. Goes(e, r, Facts(D, H, Idles), glUniform(v), Facts(D, H, U))
  BY <1>1, <1>3, <1>4, IdlePrograms, UniformGoes
<1>13. Goes(e, r, Facts(D, H, U), glDispatchCompute, Facts(D, N, U))
  BY <1>1, <1>3, <1>6, <1>7, DispatchInto DEF glsl
<1> HIDE DEF N
<1> DEFINE s == <<bindTexture(0, Object(e, a)), bindComputePso(Object(e, f)),
                  bindUav(0, Object(e, o), "Write"), bindUavBuffer(1, Object(e, t)),
                  glUniform(v), glDispatchCompute>>
<1>14. Yields(e, r, s, Facts({}, H, Idles), Facts(D, N, U))
  BY <1>8, <1>9, <1>10, <1>11, <1>12, <1>13, GoesSix
<1>15. Facts(A, N, Idles) \subseteq Facts(D, N, U)
  BY <1>3, FewerFacts
<1> HIDE DEF s
<1>16. Yields(e, r, s, Facts({}, H, Idles), Facts(A, N, Idles))
  BY <1>14, <1>15, YieldsWeaker
<1>17. Output(glsl, v, 0, <<x, y>>) = Bc1Of(e, r)
  BY <1>5 DEF Bc1Of, Dispatched, v, x, y
<1> QED
  BY <1>16, <1>17 DEF A, N, v, s

-----------------------------------------------------------------------------
(* The calls of a channel after that of its program.                       *)
LEMMA OneAndThree ==
  ASSUME NEW a, NEW b, NEW c, NEW d
  PROVE  <<a>> \o <<b, c, d>> = <<a, b, c, d>>
<1> DEFINE s == <<a>>
           t == <<b, c, d>>
<1>1. <<a, b, c, d>> = s \o t
  OBVIOUS
<1> QED
  BY <1>1

(* EncoderBC1::execute01.                                                  *)
LEMMA BC1_execute01Yields ==
  ASSUME NEW e \in Encoder, NEW r \in Request, UsesBC1(r)
  PROVE  Yields(e, r, BC1_execute01(e, r), Facts({}, Base(e, r), Idles),
                Facts({}, Base(e, r) \cup Bc1Parts(e, r), Idles))
<1> DEFINE s == <<bindTexture(0, Object(e, "m_srcTexture")),
                  bindComputePso(Object(e, "m_bc1Pso")),
                  bindUav(0, Object(e, "m_bc1TargetRes"), "Write"),
                  bindUavBuffer(1, Object(e, "m_bc1TablesSsbo")),
                  glUniform(<<2>>),
                  glDispatchCompute>>
           c == bindComputePso(Object(e, "m_bc4Pso"))
           d == Channel(e, "m_bc4TargetRes", <<3, 0>>)
           t == <<c>> \o d
           B == Base(e, r)
           T == {<<tex(0), "m_srcTexture">>}
           p == <<"m_bc1TargetRes", Bc1Of(e, r)>>
           q == <<"m_bc4TargetRes", Bc4Of(e, 3, 0)>>
           K == {p} \cup B
           L == {q} \cup K
           F == Facts({}, B, Idles)
           A == Facts(T, K, Idles)
           C == Facts(Bc4Bound, K, Idles)
           E == Facts(Bc4Bound, L, Idles)
           G == Facts({}, Base(e, r) \cup Bc1Parts(e, r), Idles)
<1>1. useBC3(r) \in BOOLEAN
  BY DEF useBC3
<1>2. BC1_execute01(e, r) = s \o When(useBC3(r), t)
  BY OneAndThree DEF BC1_execute01, Channel
<1>3. /\ <<"m_srcTexture", SourceImage(e)>> \in B
      /\ <<"m_bc1TablesSsbo", Leaf("bc1_tables")>> \in B
      /\ Clear(B, {"m_bc1TargetRes"}) /\ Clear(B, {"m_bc4TargetRes"})
  BY InBase DEF Clear, StoredField
<1>4. Clear(K, {"m_bc4TargetRes"})
  BY <1>3 DEF Clear
<1>5. Base(e, r) \cup Bc1Parts(e, r) = IF useBC3(r) THEN L ELSE K
  BY DEF Bc1Parts
<1>6. Adds(Bc4Bound, T, pso, "m_bc4Pso") /\ {} \in SUBSET T /\ {} \in SUBSET Bc4Bound
  BY UnitsDiffer DEF Adds, Free, Bc4Bound
<1> HIDE DEF s, B, T
<1>7. Yields(e, r, s, F, A)
  <2>1. Yields(e, r, s, F, Facts(T, After(B, {"m_bc1TargetRes"}, {p}), Idles))
    BY <1>3, Bc1Yields DEF s, T
  <2>2. K \subseteq After(B, {"m_bc1TargetRes"}, {p})
    BY <1>3, AfterKeeps
  <2> HIDE DEF K, p
  <2>3. A \subseteq Facts(T, After(B, {"m_bc1TargetRes"}, {p}), Idles)
    BY <2>2, FewerFacts
  <2> QED
    BY <2>1, <2>3, YieldsWeaker
<1>8. Yields(e, r, <<c>>, A, C)
  <2>1. "m_bc4Pso" \in ProgramField
    BY DEF ProgramField
  <2> HIDE DEF K
  <2>2. Goes(e, r, A, c, C)
    BY <1>6, <2>1, ProgramGoes
  <2> HIDE DEF c, A, C
  <2> QED
    BY <2>2, GoesOne
<1>9. Yields(e, r, d, C, E)
  <2>1. "m_bc4TargetRes" \in StoredField /\ 3 \in Int /\ 0 \in Int
    BY DEF StoredField
  <2>2. <<"m_srcTexture", SourceImage(e)>> \in K
    BY <1>3
  <2>3. L \subseteq After(K, {"m_bc4TargetRes"}, {q})
    BY <1>4, AfterKeeps
  <2> HIDE DEF K, L
  <2>4. Yields(e, r, d, C, Facts(Bc4Bound, After(K, {"m_bc4TargetRes"}, {q}), Idles))
    BY <2>1, <2>2, ChannelYields
  <2>5. E \subseteq Facts(Bc4Bound, After(K, {"m_bc4TargetRes"}, {q}), Idles)
    BY <2>3, FewerFacts
  <2> QED
    BY <2>4, <2>5, YieldsWeaker
<1>10. /\ useBC3(r) => G \subseteq E
       /\ ~useBC3(r) => G \subseteq A
  <2>1. useBC3(r) => G \subseteq Facts(Bc4Bound, L, Idles)
    BY <1>5, <1>6, FewerFacts
  <2>2. ~useBC3(r) => G \subseteq Facts(T, K, Idles)
    BY <1>5, <1>6, FewerFacts
  <2> QED
    BY <2>1, <2>2
<1> HIDE DEF c, d, A, C, E, G, F
<1>11. Yields(e, r, t, A, E)
  BY <1>8, <1>9, YieldsOn
<1> HIDE DEF t
<1>12. Yields(e, r, When(useBC3(r), t), A, G)
  <2>1. useBC3(r) => Yields(e, r, t, A, G)
    BY <1>10, <1>11, YieldsWeaker
  <2> QED
    BY <1>1, <1>10, <2>1, YieldsWhen
<1>13. Yields(e, r, s \o When(useBC3(r), t), F, G)
  BY <1>7, <1>12, YieldsOn
<1> QED
  BY <1>2, <1>13 DEF F, G, B

(* EncoderBC1::execute02.                                                  *)
LEMMA BC1_execute02Yields ==
  ASSUME NEW e \in Encoder, NEW r \in Request, UsesBC1(r)
  PROVE  Yields(e, r, BC1_execute02(e, r),
                Facts({}, Base(e, r) \cup Bc1Parts(e, r), Idles),
                Facts({}, Outcome(e, r), Idles))
<1> DEFINE a == "m_bc1TargetRes"
           b == "m_bc4TargetRes"
           x == Bc1Of(e, r)
           y == Bc4Of(e, 3, 0)
           s == Stitch(e, a, b)
           B == Base(e, r)
           H == B \cup Bc1Parts(e, r)
           K == Outcome(e, r)
           F == Facts({}, H, Idles)
           G == Facts({}, K, Idles)
<1>1. BC1_execute02(e, r) = When(useBC3(r), s)
  BY DEF BC1_execute02, Stitch
<1>2. /\ useBC3(r) \in BOOLEAN /\ ~UsesETC2(r) /\ ~UsesETC1(r)
      /\ a \in StoredField /\ b \in StoredField
  BY DEF useBC3, UsesBC1, UsesETC1, UsesETC2, StoredField
<1>3. <<a, x>> \in H /\ (useBC3(r) => <<b, y>> \in H) /\ B \subseteq H
  BY DEF Bc1Parts
<1>4. useBC3(r) => K = {<<"m_stitchedTarget", StitchOf(y, x)>>} \cup B
  BY <1>2, BlocksOfBc DEF Outcome, ResultField, BC1_resultTexture, useBC3, UsesBC1
<1>5. ~useBC3(r) => K = {<<a, x>>} \cup B
  BY <1>2, BlocksOfBc DEF Outcome, ResultField, BC1_resultTexture, useBC3, UsesBC1
<1> HIDE DEF x, y, H, K, B, s
<1>6. CASE useBC3(r)
  <2>1. Yields(e, r, s, F, G)
    BY <1>2, <1>3, <1>4, <1>6, PartsStitched DEF B, s
  <2> QED
    BY <1>1, <1>2, <1>6, <2>1, YieldsWhen DEF F, G, H, K, B
<1>7. CASE ~useBC3(r)
  <2>1. K \subseteq H
    BY <1>3, <1>5, <1>7
  <2>2. G \subseteq F
    BY <2>1, FewerFacts
  <2> QED
    BY <1>1, <1>2, <1>7, <2>2, YieldsWhen DEF F, G, H, K, B
<1> QED
  BY <1>6, <1>7

(* EncoderBC4::execute01.                                                  *)
LEMMA BC4_execute01Yields ==
  ASSUME NEW e \in Encoder, NEW r \in Request, UsesBC4(r)
  PROVE  Yields(e, r, BC4_execute01(e, r), Facts({}, Base(e, r), Idles),
                Facts({}, Base(e, r) \cup Bc4Parts(e, r), Idles))
<1> DEFINE n == SNorm(r)
           s == <<bindTexture(0, Object(e, "m_srcTexture")),
                  bindComputePso(Object(e, "m_bc4Pso"))>>
           d == Channel(e, "m_bc4TargetRes[0]", <<0, n>>)
           t == Channel(e, "m_bc4TargetRes[1]", <<1, n>>)
           B == Base(e, r)
           T == {<<tex(0), "m_srcTexture">>}
           p == <<"m_bc4TargetRes[0]", Bc4Of(e, 0, n)>>
           q == <<"m_bc4TargetRes[1]", Bc4Of(e, 1, n)>>
           K == {p} \cup B
           L == {q} \cup K
           F == Facts({}, B, Idles)
           A == Facts(Bc4Bound, B, Idles)
           C == Facts(Bc4Bound, K, Idles)
           E == Facts(Bc4Bound, L, Idles)
           G == Facts({}, Base(e, r) \cup Bc4Parts(e, r), Idles)
<1>1. redGreen(r) \in BOOLEAN /\ n \in Int
  BY DEF redGreen, SNorm
<1>2. BC4_execute01(e, r) = s \o d \o When(redGreen(r), t)
  BY DEF BC4_execute01, BC4_compressChannel, Channel, SNorm, encodeSNorm
<1>3. /\ <<"m_srcTexture", SourceImage(e)>> \in B
      /\ Clear(B, {"m_bc4TargetRes[0]"}) /\ Clear(B, {"m_bc4TargetRes[1]"})
  BY InBase DEF Clear, StoredField
<1>4. Clear(K, {"m_bc4TargetRes[1]"})
  BY <1>3 DEF Clear
<1>5. Base(e, r) \cup Bc4Parts(e, r) = IF redGreen(r) THEN L ELSE K
  BY DEF Bc4Parts
<1>6. /\ Adds(Bc4Bound, T, pso, "m_bc4Pso") /\ Adds(T, {}, tex(0), "m_srcTexture")
      /\ {} \in SUBSET Bc4Bound
  BY UnitsDiffer DEF Adds, Free, Bc4Bound
<1>7. /\ "m_bc4TargetRes[0]" \in StoredField /\ "m_bc4TargetRes[1]" \in StoredField
      /\ 0 \in Int /\ 1 \in Int /\ "m_bc4Pso" \in ProgramField
      /\ "m_srcTexture" \in Field \ BufferField
  BY ShaderFields DEF StoredField, ProgramField
<1> HIDE DEF B, T, n
<1>8. Yields(e, r, s, F, A)
  <2>1. Goes(e, r, F, bindTexture(0, Object(e, "m_srcTexture")), Facts(T, B, Idles))
    BY <1>6, <1>7, Slots, TextureGoes
  <2>2. Goes(e, r, Facts(T, B, Idles), bindComputePso(Object(e, "m_bc4Pso")), A)
    BY <1>6, <1>7, ProgramGoes
  <2> HIDE DEF F, A
  <2> QED
    BY <2>1, <2>2, GoesTwo
<1>9. Yields(e, r, d, A, C)
  <2>1. K \subseteq After(B, {"m_bc4TargetRes[0]"}, {p})
    BY <1>3, AfterKeeps
  <2> HIDE DEF K
  <2>2. Yields(e, r, d, A, Facts(Bc4Bound, After(B, {"m_bc4TargetRes[0]"}, {p}), Idles))
    BY <1>1, <1>3, <1>7, ChannelYields
  <2>3. C \subseteq Facts(Bc4Bound, After(B, {"m_bc4TargetRes[0]"}, {p}), Idles)
    BY <2>1, FewerFacts
  <2> QED
    BY <2>2, <2>3, YieldsWeaker
<1>10. Yields(e, r, t, C, E)
  <2>1. <<"m_srcTexture", SourceImage(e)>> \in K
    BY <1>3
  <2>2. L \subseteq After(K, {"m_bc4TargetRes[1]"}, {q})
    BY <1>4, AfterKeeps
  <2> HIDE DEF K, L
  <2>3. Yields(e, r, t, C, Facts(Bc4Bound, After(K, {"m_bc4TargetRes[1]"}, {q}), Idles))
    BY <1>1, <1>7, <2>1, ChannelYields
  <2>4. E \subseteq Facts(Bc4Bound, After(K, {"m_bc4TargetRes[1]"}, {q}), Idles)
    BY <2>2, FewerFacts
  <2> QED
    BY <2>3, <2>4, YieldsWeaker
<1>11. /\ redGreen(r) => G \subseteq E
       /\ ~redGreen(r) => G \subseteq C
  <2>1. redGreen(r) => G \subseteq Facts(Bc4Bound, L, Idles)
    BY <1>5, <1>6, FewerFacts
  <2>2. ~redGreen(r) => G \subseteq Facts(Bc4Bound, K, Idles)
    BY <1>5, <1>6, FewerFacts
  <2> QED
    BY <2>1, <2>2
<1> HIDE DEF s, d, t, A, C, E, F, G
<1>12. Yields(e, r, When(redGreen(r), t), C, G)
  <2>1. redGreen(r) => Yields(e, r, t, C, G)
    BY <1>10, <1>11, YieldsWeaker
  <2> QED
    BY <1>1, <1>11, <2>1, YieldsWhen
<1>13. Yields(e, r, s \o d \o When(redGreen(r), t), F, G)
  BY <1>8, <1>9, <1>12, YieldsOn
<1> QED
  BY <1>2, <1>13 DEF F, G, B

(* EncoderBC4::execute02.                                                  *)
LEMMA BC4_execute02Yields ==
  ASSUME NEW e \in Encoder, NEW r \in Request, UsesBC4(r)
  PROVE  Yields(e, r, BC4_execute02(e, r),
                Facts({}, Base(e, r) \cup Bc4Parts(e, r), Idles),
                Facts({}, Outcome(e, r), Idles))
<1> DEFINE a == "m_bc4TargetRes[1]"
           b == "m_bc4TargetRes[0]"
           x == Bc4Of(e, 1, SNorm(r))
           y == Bc4Of(e, 0, SNorm(r))
           s == Stitch(e, a, b)
           B == Base(e, r)
           H == B \cup Bc4Parts(e, r)
           K == Outcome(e, r)
           F == Facts({}, H, Idles)
           G == Facts({}, K, Idles)
<1>1. BC4_execute02(e, r) = When(redGreen(r), s)
  BY DEF BC4_execute02, Stitch
<1>2. /\ redGreen(r) \in BOOLEAN /\ ~UsesETC2(r) /\ ~UsesETC1(r) /\ ~UsesBC1(r)
      /\ a \in StoredField /\ b \in StoredField
  BY DEF redGreen, UsesBC4, UsesBC1, UsesETC1, UsesETC2, StoredField
<1>3. (redGreen(r) => <<a, x>> \in H) /\ <<b, y>> \in H /\ B \subseteq H
  BY DEF Bc4Parts
<1>4. redGreen(r) => K = {<<"m_stitchedTarget", StitchOf(y, x)>>} \cup B
  BY <1>2, BlocksOfBc DEF Outcome, ResultField, BC4_resultTexture, redGreen, UsesBC4
<1>5. ~redGreen(r) => K = {<<b, y>>} \cup B
  BY <1>2, BlocksOfBc DEF Outcome, ResultField, BC4_resultTexture, redGreen, UsesBC4
<1> HIDE DEF x, y, H, K, B, s
<1>6. CASE redGreen(r)
  <2>1. Yields(e, r, s, F, G)
    BY <1>2, <1>3, <1>4, <1>6, PartsStitched DEF B, s
  <2> QED
    BY <1>1, <1>2, <1>6, <2>1, YieldsWhen DEF F, G, H, K, B
<1>7. CASE ~redGreen(r)
  <2>1. K \subseteq H
    BY <1>3, <1>5, <1>7
  <2>2. G \subseteq F
    BY <2>1, FewerFacts
  <2> QED
    BY <1>1, <1>2, <1>7, <2>2, YieldsWhen DEF F, G, H, K, B
<1> QED
  BY <1>6, <1>7

-----------------------------------------------------------------------------
(* EncoderETC2::execute00.                                                 *)
LEMMA ETC2_execute00Yields ==
  ASSUME NEW e \in Encoder, NEW r \in Request, UsesETC2(r)
  PROVE  Yields(e, r, ETC2_execute00(e, r), Facts({}, Base(e, r), Idles),
                Facts({}, Searched(e, r), Idles))
<1> DEFINE s == ETC1_execute00(e, r)
           t == Pass(e, "m_thModesFindBestC0C1", ditheredTexture(r), "m_thModesC0C1")
           b == glMemoryBarrier({"SHADER_IMAGE_ACCESS"})
           H == Dithered(e, r)
           p == <<"m_thModesC0C1", ClustersOf(e, r)>>
           F == Facts({}, Base(e, r), Idles)
           A == Facts({}, H, Idles)
           G == Facts({}, Searched(e, r), Idles)
<1>1. ETC2_execute00(e, r) = s \o (t \o <<b>>)
  BY FourAndOne DEF ETC2_execute00, Pass
<1>2. Searched(e, r) = {p} \cup H
  BY DEF Searched
<1>3. <<ditheredTexture(r), EtcSrc(e, r)>> \in H /\ Clear(H, {"m_thModesC0C1"})
  <2>1. ditheredTexture(r) # "m_thModesC0C1"
    BY DEF ditheredTexture
  <2>2. Clear(Base(e, r), {"m_thModesC0C1"})
    BY InBase DEF Clear, StoredField
  <2> QED
    BY <2>1, <2>2 DEF Dithered, Clear
<1> HIDE DEF s, t, b, H, p
<1>4. Yields(e, r, s, F, A)
  BY ETC1_execute00Yields DEF s, H
<1>5. Yields(e, r, t, A, G)
  <2>1. Yields(e, r, t, A, Facts({}, After(H, {"m_thModesC0C1"}, {p}), Idles))
    BY <1>3, ClustersYield DEF t, p
  <2>2. Searched(e, r) \subseteq After(H, {"m_thModesC0C1"}, {p})
    BY <1>2, <1>3, AfterKeeps
  <2> QED
    BY <2>1, <2>2, YieldsLess
<1>6. Yields(e, r, <<b>>, G, G)
  <2>1. Goes(e, r, G, b, G)
    BY BarrierGoes DEF Bit, b
  <2> HIDE DEF G
  <2> QED
    BY <2>1, GoesOne
<1> HIDE DEF F, A, G
<1>7. Yields(e, r, s \o (t \o <<b>>), F, G)
  BY <1>4, <1>5, <1>6, YieldsOn
<1> QED
  BY <1>1, <1>7 DEF F, G

(* The T and H blocks.                                                     *)
THCalls(e, r) ==
  <<bindTexture(0, Object(e, ditheredTexture(r))),
    bindUav(0, Object(e, "m_thModesTargetRes"), "Write"),
    bindUav(1, Object(e, "m_thModesError"), "Write"),
    bindUav(2, Object(e, "m_thModesC0C1"), "Write"),
    bindComputePso(Object(e, "m_thModesPso")),
    glDispatchCompute>>

(* They and their errors are computed.                                     *)
LEMMA THYields ==
  ASSUME NEW e \in Encoder, NEW r \in Request, ~ImageAccessIsEnforced,
         NEW H, <<ditheredTexture(r), EtcSrc(e, r)>> \in H,
         <<"m_thModesC0C1", ClustersOf(e, r)>> \in H
  PROVE  Yields(e, r, THCalls(e, r), Facts({}, H, Idles),
                Facts({<<tex(0), ditheredTexture(r)>>},
                      After(H, {"m_thModesTargetRes", "m_thModesError"},
                            {<<"m_thModesTargetRes", THOf(e, r, 0)>>,
                             <<"m_thModesError", THOf(e, r, 1)>>}), Idles))
<1> DEFINE f == "m_thModesPso"
           a == ditheredTexture(r)
           o == "m_thModesTargetRes"
           q == "m_thModesError"
           c == "m_thModesC0C1"
           x == EtcSrc(e, r)
           y == ClustersOf(e, r)
           glsl == "etc2_th.glsl"
           A == {<<tex(0), a>>}
           B == A \cup {<<uav(0), o>>}
           C == B \cup {<<uav(1), q>>}
           D == C \cup {<<uav(2), c>>}
           E == D \cup {<<pso, f>>}
           v == <<>>
           U == Idles
           N == After(H, {o, q}, {<<o, Output(glsl, v, 0, <<x, y>>)>>,
                                  <<q, Output(glsl, v, 1, <<x, y>>)>>})
<1>1. /\ a \in Field \ BufferField /\ o \in Field \ BufferField /\ q \in Field \ BufferField
      /\ c \in Field \ BufferField /\ f \in ProgramField
  BY DitheredField, ShaderFields DEF StoredField, ProgramField
<1>2. glsl = FileOf(r, f) /\ <<f, v>> \in U /\ o # q
  <2>1. f \in ProgramField \ {"m_compressPso", "m_bc1Pso", "m_bc4Pso"}
    BY DEF ProgramField
  <2> QED
    BY <2>1, IdlePrograms DEF FileOf
<1>3. /\ Adds(A, {}, tex(0), a) /\ Adds(B, A, uav(0), o) /\ Adds(C, B, uav(1), q)
      /\ Adds(D, C, uav(2), c) /\ Adds(E, D, pso, f)
  <2>1. uav(1) # uav(0) /\ uav(2) # uav(0) /\ uav(2) # uav(1)
    BY UnitsDiffer
  <2> QED
    BY <2>1, UnitsDiffer DEF Adds, Free
<1>4. /\ <<tex(0), a>> \in E /\ <<uav(0), o>> \in E /\ <<uav(1), q>> \in E
      /\ <<uav(2), c>> \in E /\ <<pso, f>> \in E /\ A \in SUBSET E
  OBVIOUS
<1> HIDE DEF a, A, B, C, D, E, v, x, y, U
<1>5. /\ InputCount(glsl) = 2 /\ InputUnit(glsl, 1) = tex(0) /\ InputUnit(glsl, 2) = uav(2)
      /\ StoresTo(glsl, {0, 1}) /\ ReadsDefined(glsl)
  BY InputsOfTHMode DEF StoresTo
<1>6. Feeds(E, H, glsl, <<a, c>>, <<x, y>>)
  BY <1>1, <1>4, <1>5, FeedsTwo DEF Fed, a, x, y
<1>7. Goes(e, r, Facts({}, H, U), bindTexture(0, Object(e, a)), Facts(A, H, U))
  BY <1>1, <1>3, Slots, TextureGoes
<1>8. Goes(e, r, Facts(A, H, U), bindUav(0, Object(e, o), "Write"), Facts(B, H, U))
  BY <1>1, <1>3, Slots, ImageGoes
<1>9. Goes(e, r, Facts(B, H, U), bindUav(1, Object(e, q), "Write"), Facts(C, H, U))
  BY <1>1, <1>3, Slots, ImageGoes
<1>10. Goes(e, r, Facts(C, H, U), bindUav(2, Object(e, c), "Write"), Facts(D, H, U))
  BY <1>1, <1>3, Slots, ImageGoes
<1>11. Goes(e, r, Facts(D, H, U), bindComputePso(Object(e, f)), Facts(E, H, U))
  BY <1>1, <1>3, ProgramGoes
<1>12. Goes(e, r, Facts(E, H, U), glDispatchCompute, Facts(E, N, U))
  <2>1. 1 \in {1, 2}
    OBVIOUS
  <2> QED
    BY <1>1, <1>2, <1>4, <1>5, <1>6, <2>1, DispatchIntoBoth
<1> HIDE DEF N
<1>13. Yields(e, r, THCalls(e, r), Facts({}, H, U), Facts(E, N, U))
  BY <1>7, <1>8, <1>9, <1>10, <1>11, <1>12, GoesSix DEF THCalls, a
<1>14. Facts(A, N, U) \subseteq Facts(E, N, U)
  BY <1>4, FewerFacts
<1>15. Yields(e, r, THCalls(e, r), Facts({}, H, U), Facts(A, N, U))
  BY <1>13, <1>14, YieldsWeaker
<1> QED
  BY <1>15 DEF A, N, a, v, x, y, U, THOf

(* The P blocks, from the same picture.                                    *)
PCalls(e) ==
  <<bindUav(0, Object(e, "m_pModeTargetRes"), "Write"),
    bindUav(1, Object(e, "m_pModeError"), "Write"),
    bindComputePso(Object(e, "m_pModePso")),
    glDispatchCompute>>

(* They and their errors are computed.                                     *)
LEMMA PYields ==
  ASSUME NEW e \in Encoder, NEW r \in Request,
         NEW H, <<ditheredTexture(r), EtcSrc(e, r)>> \in H
  PROVE  Yields(e, r, PCalls(e), Facts({<<tex(0), ditheredTexture(r)>>}, H, Idles),
                Facts({}, After(H, {"m_pModeTargetRes", "m_pModeError"},
                            {<<"m_pModeTargetRes", POf(e, r, 0)>>,
                             <<"m_pModeError", POf(e, r, 1)>>}), Idles))
<1> DEFINE f == "m_pModePso"
           a == ditheredTexture(r)
           o == "m_pModeTargetRes"
           q == "m_pModeError"
           x == EtcSrc(e, r)
           glsl == "etc2_p.glsl"
           A == {<<tex(0), a>>}
           B == A \cup {<<uav(0), o>>}
           C == B \cup {<<uav(1), q>>}
           E == C \cup {<<pso, f>>}
           v == <<>>
           U == Idles
           N == After(H, {o, q}, {<<o, Output(glsl, v, 0, <<x>>)>>,
                                  <<q, Output(glsl, v, 1, <<x>>)>>})
<1>1. /\ a \in Field \ BufferField /\ o \in Field \ BufferField /\ q \in Field \ BufferField
      /\ f \in ProgramField
  BY DitheredField, ShaderFields DEF StoredField, ProgramField
<1>2. glsl = FileOf(r, f) /\ <<f, v>> \in U /\ o # q
  <2>1. f \in ProgramField \ {"m_compressPso", "m_bc1Pso", "m_bc4Pso"}
    BY DEF ProgramField
  <2> QED
    BY <2>1, IdlePrograms DEF FileOf
<1>3. Adds(B, A, uav(0), o) /\ Adds(C, B, uav(1), q) /\ Adds(E, C, pso, f)
  <2>1. uav(1) # uav(0)
    BY UnitsDiffer
  <2> QED
    BY <2>1, UnitsDiffer DEF Adds, Free
<1>4. /\ <<tex(0), a>> \in E /\ <<uav(0), o>> \in E /\ <<uav(1), q>> \in E
      /\ <<pso, f>> \in E
  OBVIOUS
<1> HIDE DEF a, A, B, C, E, v, x, U
<1>5. /\ InputCount(glsl) = 1 /\ InputUnit(glsl, 1) = tex(0)
      /\ StoresTo(glsl, {0, 1}) /\ ReadsDefined(glsl)
  BY InputsOfPMode DEF StoresTo
<1>6. Feeds(E, H, glsl, <<a>>, <<x>>)
  BY <1>1, <1>4, <1>5, FeedsOne DEF Fed, a, x
<1>7. Goes(e, r, Facts(A, H, U), bindUav(0, Object(e, o), "Write"), Facts(B, H, U))
  BY <1>1, <1>3, Slots, ImageGoes
<1>8. Goes(e, r, Facts(B, H, U), bindUav(1, Object(e, q), "Write"), Facts(C, H, U))
  BY <1>1, <1>3, Slots, ImageGoes
<1>9. Goes(e, r, Facts(C, H, U), bindComputePso(Object(e, f)), Facts(E, H, U))
  BY <1>1, <1>3, ProgramGoes
<1>10. Goes(e, r, Facts(E, H, U), glDispatchCompute, Facts(E, N, U))
  <2>1. 1 \in {1, 2}
    OBVIOUS
  <2> QED
    BY <1>1, <1>2, <1>4, <1>5, <1>6, <2>1, DispatchIntoBoth
<1> HIDE DEF N
<1>11. Yields(e, r, PCalls(e), Facts(A, H, U), Facts(E, N, U))
  BY <1>7, <1>8, <1>9, <1>10, GoesFour DEF PCalls
<1>12. Facts({}, N, U) \subseteq Facts(E, N, U)
  BY FewerFacts
<1>13. Yields(e, r, PCalls(e), Facts(A, H, U), Facts({}, N, U))
  BY <1>11, <1>12, YieldsWeaker
<1> QED
  BY <1>13 DEF A, N, a, v, x, U, POf

-----------------------------------------------------------------------------
(* The fields of what the ETC2 searches start from.                        *)
LEMMA SearchedFields ==
  ASSUME NEW e, NEW r
  PROVE  \A p \in Searched(e, r) :
           p[1] \in {"m_srcTexture", "m_etc1TablesSsbo", "m_bc1TablesSsbo",
                     "m_ditheredTexture", "m_thModesC0C1"}
<1>1. \A p \in Base(e, r) : p[1] \in {"m_srcTexture", "m_etc1TablesSsbo", "m_bc1TablesSsbo"}
  BY DEF Base
<1>2. ditheredTexture(r) \in {"m_srcTexture", "m_ditheredTexture"}
  BY DEF ditheredTexture
<1>3. \A p \in Dithered(e, r) : p[1] \in {"m_srcTexture", "m_etc1TablesSsbo",
                                          "m_bc1TablesSsbo", "m_ditheredTexture"}
  BY <1>1, <1>2 DEF Dithered
<1> QED
  BY <1>3 DEF Searched

(* And of what EncoderETC1 makes of it.                                    *)
LEMMA ErrorFields ==
  ASSUME NEW e, NEW r
  PROVE  \A p \in ErrorParts(e, r) :
           p[1] \in {"m_compressTargetRes", "m_etc1Error", "m_eacTargetRes"}
<1>1. \A p \in AlphaPart(e, r) : p[1] = "m_eacTargetRes"
  BY DEF AlphaPart
<1> QED
  BY <1>1 DEF ErrorParts

(* What is read is there.                                                  *)
LEMMA InSearched ==
  ASSUME NEW e, NEW r, UsesETC2(r)
  PROVE  /\ <<ditheredTexture(r), EtcSrc(e, r)>> \in Searched(e, r)
         /\ <<"m_thModesC0C1", ClustersOf(e, r)>> \in Searched(e, r)
         /\ <<"m_srcTexture", SourceImage(e)>> \in Searched(e, r)
         /\ <<"m_etc1TablesSsbo", Leaf("etc1_tables")>> \in Searched(e, r)
         /\ Base(e, r) \subseteq Searched(e, r)
<1>1. Has00(r)
  BY DEF Has00
<1>2. Base(e, r) \subseteq Searched(e, r)
  BY DEF Searched, Dithered
<1>3. <<ditheredTexture(r), EtcSrc(e, r)>> \in Searched(e, r)
  BY DEF Searched, Dithered
<1>4. <<"m_thModesC0C1", ClustersOf(e, r)>> \in Searched(e, r)
  BY DEF Searched
<1> QED
  BY <1>1, <1>2, <1>3, <1>4, InBase

(* EncoderETC1::execute01, called by EncoderETC2.                          *)
LEMMA ErrorsYield ==
  ASSUME NEW e \in Encoder, NEW r \in Request, UsesETC2(r)
  PROVE  Yields(e, r, ETC1_execute01(e, r), Facts({}, Searched(e, r), Idles),
                Facts({}, ErrorParts(e, r) \cup Searched(e, r), Idles))
<1> DEFINE s == Colour(e, r)
           t == Pass(e, "m_eacPso", "m_srcTexture", "m_eacTargetRes")
           H == Searched(e, r)
           D == {"m_compressTargetRes", "m_etc1Error"}
           W == {<<"m_compressTargetRes", Etc1Of(e, r, "etc1_with_error.glsl", 0)>>,
                 <<"m_etc1Error", Etc1Of(e, r, "etc1_with_error.glsl", 2)>>}
           q == <<"m_eacTargetRes", AlphaOf(e)>>
           K == W \cup H
           L == {q} \cup K
           M == ErrorParts(e, r) \cup H
           F == Facts({}, H, Idles)
           A == Facts({}, K, Idles)
           G == Facts({}, M, Idles)
<1>1. ~UsesEAC(r) /\ hasAlpha(r) \in BOOLEAN
  BY DEF UsesETC2, UsesEAC, hasAlpha
<1>2. ETC1_execute01(e, r) = s \o When(hasAlpha(r), t)
  BY DEF ETC1_execute01, Colour, Pass
<1>3. /\ <<ditheredTexture(r), EtcSrc(e, r)>> \in H
      /\ <<"m_etc1TablesSsbo", Leaf("etc1_tables")>> \in H
      /\ <<"m_srcTexture", SourceImage(e)>> \in H
  BY InSearched
<1>4. Clear(H, D)
  BY SearchedFields DEF Clear
<1>5. Clear(K, {"m_eacTargetRes"})
  <2>1. Clear(H, {"m_eacTargetRes"})
    BY SearchedFields DEF Clear
  <2>2. \A p \in W : p[1] # "m_eacTargetRes"
    OBVIOUS
  <2> HIDE DEF W
  <2> QED
    BY <2>1, <2>2 DEF Clear
<1>6. M = IF hasAlpha(r) THEN L ELSE K
  BY DEF ErrorParts, AlphaPart
<1> HIDE DEF s, t, H, D, W, M
<1>7. Yields(e, r, s, F, A)
  <2>1. Yields(e, r, s, F, Facts({}, After(H, D, W), Idles))
    BY <1>3, ColourErrorYields DEF s, D, W
  <2>2. K \subseteq After(H, D, W)
    BY <1>4, AfterKeeps
  <2> HIDE DEF K
  <2> QED
    BY <2>1, <2>2, YieldsLess
<1>8. Yields(e, r, t, A, Facts({}, L, Idles))
  <2>1. Yields(e, r, t, A, Facts({}, After(K, {"m_eacTargetRes"}, {q}), Idles))
    BY <1>1, <1>3, AlphaYields DEF t
  <2>2. L \subseteq After(K, {"m_eacTargetRes"}, {q})
    BY <1>5, AfterKeeps
  <2> HIDE DEF K, L, q
  <2> QED
    BY <2>1, <2>2, YieldsLess
<1>9. Yields(e, r, When(hasAlpha(r), t), A, G)
  <2>1. hasAlpha(r) => G = Facts({}, L, Idles)
    BY <1>6
  <2>2. ~hasAlpha(r) => G \subseteq A
    BY <1>6
  <2> HIDE DEF L, K, A, G
  <2> QED
    BY <1>1, <1>8, <2>1, <2>2, YieldsWhen
<1> HIDE DEF K, L, A, F, G
<1>10. Yields(e, r, s \o When(hasAlpha(r), t), F, G)
  BY <1>7, <1>9, YieldsOn
<1> QED
  BY <1>2, <1>10 DEF F, G, H, M

(* The calls EncoderETC2 adds.                                             *)
LEMMA SixAndFour ==
  ASSUME NEW a, NEW b, NEW c, NEW d, NEW f, NEW g, NEW h, NEW i, NEW j, NEW k
  PROVE  <<a, b, c, d, f, g>> \o <<h, i, j, k>> = <<a, b, c, d, f, g, h, i, j, k>>
<1> DEFINE s == <<a, b, c, d, f, g>>
           t == <<h, i, j, k>>
<1>1. <<a, b, c, d, f, g, h, i, j, k>> = s \o t
  OBVIOUS
<1> QED
  BY <1>1

(* EncoderETC2::execute01.                                                 *)
LEMMA ETC2_execute01Yields ==
  ASSUME NEW e \in Encoder, NEW r \in Request, UsesETC2(r), ~ImageAccessIsEnforced
  PROVE  Yields(e, r, ETC2_execute01(e, r), Facts({}, Searched(e, r), Idles),
                Facts({}, Base(e, r) \cup ErrorParts(e, r) \cup ModeParts(e, r), Idles))
<1> DEFINE s == ETC1_execute01(e, r)
           t == THCalls(e, r)
           u == PCalls(e)
           H == Searched(e, r)
           I == ErrorParts(e, r) \cup H
           D == {"m_thModesTargetRes", "m_thModesError"}
           W == {<<"m_thModesTargetRes", THOf(e, r, 0)>>, <<"m_thModesError", THOf(e, r, 1)>>}
           J == W \cup I
           E == {"m_pModeTargetRes", "m_pModeError"}
           X == {<<"m_pModeTargetRes", POf(e, r, 0)>>, <<"m_pModeError", POf(e, r, 1)>>}
           K == X \cup J
           T == {<<tex(0), ditheredTexture(r)>>}
           M == Base(e, r) \cup ErrorParts(e, r) \cup ModeParts(e, r)
           F == Facts({}, H, Idles)
           A == Facts({}, I, Idles)
           B == Facts(T, J, Idles)
           G == Facts({}, M, Idles)
<1>1. ETC2_execute01(e, r) = s \o (t \o u)
  <2>1. t \o u = <<bindTexture(0, Object(e, ditheredTexture(r))),
                   bindUav(0, Object(e, "m_thModesTargetRes"), "Write"),
                   bindUav(1, Object(e, "m_thModesError"), "Write"),
                   bindUav(2, Object(e, "m_thModesC0C1"), "Write"),
                   bindComputePso(Object(e, "m_thModesPso")),
                   glDispatchCompute,
                   bindUav(0, Object(e, "m_pModeTargetRes"), "Write"),
                   bindUav(1, Object(e, "m_pModeError"), "Write"),
                   bindComputePso(Object(e, "m_pModePso")),
                   glDispatchCompute>>
    BY SixAndFour DEF THCalls, PCalls
  <2> HIDE DEF s, t, u
  <2> QED
    BY <2>1 DEF ETC2_execute01, s
<1>2. /\ <<ditheredTexture(r), EtcSrc(e, r)>> \in I
      /\ <<"m_thModesC0C1", ClustersOf(e, r)>> \in I
      /\ <<ditheredTexture(r), EtcSrc(e, r)>> \in J
  BY InSearched
<1>3. M \subseteq K
  <2>1. ModeParts(e, r) = W \cup X
    BY DEF ModeParts
  <2> HIDE DEF W, X
  <2> QED
    BY <2>1, InSearched
<1>4. Clear(I, D) /\ Clear(J, E)
  <2>1. \A p \in H : p[1] \notin D \cup E
    BY SearchedFields
  <2>2. \A p \in ErrorParts(e, r) : p[1] \notin D \cup E
    BY ErrorFields
  <2>3. \A p \in W : p[1] \notin E
    OBVIOUS
  <2> HIDE DEF W, D, E, H
  <2> QED
    BY <2>1, <2>2, <2>3 DEF Clear
<1> HIDE DEF s, t, u, D, W, E, X, H, T, M
<1>5. Yields(e, r, s, F, A)
  BY ErrorsYield DEF s, H
<1>6. Yields(e, r, t, A, B)
  <2>1. Yields(e, r, t, A, Facts(T, After(I, D, W), Idles))
    <3> HIDE DEF I
    <3> QED
      BY <1>2, THYields DEF t, D, W, T
  <2>2. J \subseteq After(I, D, W)
    BY <1>4, AfterKeeps
  <2> HIDE DEF J, A, I
  <2>3. B \subseteq Facts(T, After(I, D, W), Idles)
    BY <2>2, FewerFacts
  <2> HIDE DEF B
  <2> QED
    BY <2>1, <2>3, YieldsWeaker
<1>7. Yields(e, r, u, B, G)
  <2>1. Yields(e, r, u, B, Facts({}, After(J, E, X), Idles))
    <3> HIDE DEF J
    <3> QED
      BY <1>2, PYields DEF u, E, X, T
  <2>2. K \subseteq After(J, E, X)
    BY <1>4, AfterKeeps
  <2> HIDE DEF J, K, B
  <2> QED
    BY <1>3, <2>1, <2>2, YieldsLess
<1> HIDE DEF F, A, B, G
<1>8. Yields(e, r, s \o (t \o u), F, G)
  BY <1>5, <1>6, <1>7, YieldsOn
<1> QED
  BY <1>1, <1>8 DEF F, G, H, M

-----------------------------------------------------------------------------
(* Six inputs.                                                             *)
LEMMA FeedsSix ==
  ASSUME NEW B, NEW H, NEW glsl, InputCount(glsl) = 6,
         NEW a, NEW x, Fed(B, H, InputUnit(glsl, 1), a, x),
         NEW b, NEW y, Fed(B, H, InputUnit(glsl, 2), b, y),
         NEW c, NEW z, Fed(B, H, InputUnit(glsl, 3), c, z),
         NEW d, NEW v, Fed(B, H, InputUnit(glsl, 4), d, v),
         NEW f, NEW w, Fed(B, H, InputUnit(glsl, 5), f, w),
         NEW g, NEW u, Fed(B, H, InputUnit(glsl, 6), g, u)
  PROVE  Feeds(B, H, glsl, <<a, b, c, d, f, g>>, <<x, y, z, v, w, u>>)
<1> DEFINE I == <<a, b, c, d, f, g>>
           ins == <<x, y, z, v, w, u>>
<1>1. /\ I[1] = a /\ I[2] = b /\ I[3] = c /\ I[4] = d /\ I[5] = f /\ I[6] = g
      /\ ins[1] = x /\ ins[2] = y /\ ins[3] = z /\ ins[4] = v /\ ins[5] = w /\ ins[6] = u
      /\ ins = [k \in 1 .. 6 |-> ins[k]]
  OBVIOUS
<1> HIDE DEF I, ins
<1>2. ASSUME NEW k \in 1 .. 6
      PROVE  Fed(B, H, InputUnit(glsl, k), I[k], ins[k])
  BY <1>1
<1>3. Feeds(B, H, glsl, I, ins)
  BY <1>1, <1>2 DEF Feeds, Fed
<1> QED
  BY <1>3 DEF I, ins

(* Seven.                                                                  *)
LEMMA FeedsSeven ==
  ASSUME NEW B, NEW H, NEW glsl, InputCount(glsl) = 7,
         NEW a, NEW x, Fed(B, H, InputUnit(glsl, 1), a, x),
         NEW b, NEW y, Fed(B, H, InputUnit(glsl, 2), b, y),
         NEW c, NEW z, Fed(B, H, InputUnit(glsl, 3), c, z),
         NEW d, NEW v, Fed(B, H, InputUnit(glsl, 4), d, v),
         NEW f, NEW w, Fed(B, H, InputUnit(glsl, 5), f, w),
         NEW g, NEW u, Fed(B, H, InputUnit(glsl, 6), g, u),
         NEW h, NEW t, Fed(B, H, InputUnit(glsl, 7), h, t)
  PROVE  Feeds(B, H, glsl, <<a, b, c, d, f, g, h>>, <<x, y, z, v, w, u, t>>)
<1> DEFINE I == <<a, b, c, d, f, g, h>>
           ins == <<x, y, z, v, w, u, t>>
<1>1. /\ I[1] = a /\ I[2] = b /\ I[3] = c /\ I[4] = d /\ I[5] = f /\ I[6] = g /\ I[7] = h
      /\ ins[1] = x /\ ins[2] = y /\ ins[3] = z /\ ins[4] = v /\ ins[5] = w /\ ins[6] = u
      /\ ins[7] = t /\ ins = [k \in 1 .. 7 |-> ins[k]]
  OBVIOUS
<1> HIDE DEF I, ins
<1>2. ASSUME NEW k \in 1 .. 7
      PROVE  Fed(B, H, InputUnit(glsl, k), I[k], ins[k])
  BY <1>1
<1>3. Feeds(B, H, glsl, I, ins)
  BY <1>1, <1>2 DEF Feeds, Fed
<1> QED
  BY <1>3 DEF I, ins

(* The lists of inputs.                                                    *)
LEMMA ThreeAndThree ==
  ASSUME NEW a, NEW b, NEW c, NEW d, NEW f, NEW g
  PROVE  <<a, b, c>> \o <<d, f, g>> = <<a, b, c, d, f, g>>
<1> DEFINE s == <<a, b, c>>
           t == <<d, f, g>>
<1>1. <<a, b, c, d, f, g>> = s \o t
  OBVIOUS
<1> QED
  BY <1>1

(* With the alpha blocks.                                                  *)
LEMMA SixAndOne ==
  ASSUME NEW a, NEW b, NEW c, NEW d, NEW f, NEW g, NEW h
  PROVE  <<a, b, c, d, f, g>> \o <<h>> = <<a, b, c, d, f, g, h>>
<1> DEFINE s == <<a, b, c, d, f, g>>
           t == <<h>>
<1>1. <<a, b, c, d, f, g, h>> = s \o t
  OBVIOUS
<1> QED
  BY <1>1

(* The fields of what is put together.                                     *)
LEMMA SelectorFields ==
  /\ "m_etc1Error" \in Field \ BufferField /\ "m_thModesError" \in Field \ BufferField
  /\ "m_pModeError" \in Field \ BufferField
  /\ "m_compressTargetRes" \in Field \ BufferField
  /\ "m_thModesTargetRes" \in Field \ BufferField
  /\ "m_pModeTargetRes" \in Field \ BufferField
  /\ "m_eacTargetRes" \in Field \ BufferField
  /\ "m_stitchedTarget" \in Field \ BufferField
  /\ "m_stitchPso" \in ProgramField
  /\ <<"m_stitchPso", <<>>>> \in Idles
<1>1. "m_stitchPso" \in ProgramField \ {"m_compressPso", "m_bc1Pso", "m_bc4Pso"}
  BY DEF ProgramField
<1> QED
  BY <1>1, IdlePrograms, ShaderFields DEF StoredField

(* The calls both selectors begin with.                                    *)
SelectorBinds(e) ==
  <<glMemoryBarrier({"TEXTURE_UPDATE", "SHADER_IMAGE_ACCESS"}),
    bindTexture(0, Object(e, "m_etc1Error")),
    bindTexture(1, Object(e, "m_thModesError")),
    bindTexture(2, Object(e, "m_pModeError")),
    bindTexture(3, Object(e, "m_compressTargetRes")),
    bindTexture(4, Object(e, "m_thModesTargetRes"))>>

(* They bind their textures.                                               *)
LEMMA SelectorBindsYield ==
  ASSUME NEW e \in Encoder, NEW r, NEW H, NEW U
  PROVE  Yields(e, r, SelectorBinds(e), Facts({}, H, U), Facts(SelectorPairs, H, U))
<1> DEFINE A == {<<tex(0), "m_etc1Error">>}
           B == A \cup {<<tex(1), "m_thModesError">>}
           C == B \cup {<<tex(2), "m_pModeError">>}
           D == C \cup {<<tex(3), "m_compressTargetRes">>}
           E == SelectorPairs
<1>1. /\ Adds(A, {}, tex(0), "m_etc1Error")
      /\ Adds(B, A, tex(1), "m_thModesError")
      /\ Adds(C, B, tex(2), "m_pModeError")
      /\ Adds(D, C, tex(3), "m_compressTargetRes")
      /\ Adds(E, D, tex(4), "m_thModesTargetRes")
  <2>1. /\ tex(1) # tex(0) /\ tex(2) # tex(0) /\ tex(2) # tex(1)
        /\ tex(3) # tex(0) /\ tex(3) # tex(1) /\ tex(3) # tex(2)
        /\ tex(4) # tex(0) /\ tex(4) # tex(1) /\ tex(4) # tex(2) /\ tex(4) # tex(3)
    BY UnitsDiffer
  <2> QED
    BY <2>1 DEF Adds, Free, SelectorPairs
<1> HIDE DEF A, B, C, D, E
<1>2. Goes(e, r, Facts({}, H, U), glMemoryBarrier({"TEXTURE_UPDATE", "SHADER_IMAGE_ACCESS"}),
           Facts({}, H, U))
  BY BarrierGoes DEF Bit
<1>3. Goes(e, r, Facts({}, H, U), bindTexture(0, Object(e, "m_etc1Error")), Facts(A, H, U))
  BY <1>1, SelectorFields, Slots, TextureGoes
<1>4. Goes(e, r, Facts(A, H, U), bindTexture(1, Object(e, "m_thModesError")), Facts(B, H, U))
  BY <1>1, SelectorFields, Slots, TextureGoes
<1>5. Goes(e, r, Facts(B, H, U), bindTexture(2, Object(e, "m_pModeError")), Facts(C, H, U))
  BY <1>1, SelectorFields, Slots, TextureGoes
<1>6. Goes(e, r, Facts(C, H, U), bindTexture(3, Object(e, "m_compressTargetRes")),
           Facts(D, H, U))
  BY <1>1, SelectorFields, Slots, TextureGoes
<1>7. Goes(e, r, Facts(D, H, U), bindTexture(4, Object(e, "m_thModesTargetRes")),
           Facts(E, H, U))
  BY <1>1, SelectorFields, Slots, TextureGoes
<1> QED
  BY <1>2, <1>3, <1>4, <1>5, <1>6, <1>7, GoesSix DEF SelectorBinds, E

(* What the selectors find.                                                *)
SelectorHeld(e, r) ==
  {<<"m_etc1Error", Etc1Of(e, r, "etc1_with_error.glsl", 2)>>,
   <<"m_thModesError", THOf(e, r, 1)>>, <<"m_pModeError", POf(e, r, 1)>>,
   <<"m_compressTargetRes", Etc1Of(e, r, "etc1_with_error.glsl", 0)>>,
   <<"m_thModesTargetRes", THOf(e, r, 0)>>, <<"m_pModeTargetRes", POf(e, r, 0)>>}

(* The selector without alpha.                                             *)
LEMMA RgbSelectorYields ==
  ASSUME NEW e \in Encoder, NEW r, UsesETC2(r), ~hasAlpha(r), ~ImageAccessIsEnforced,
         NEW H, SelectorHeld(e, r) \subseteq H
  PROVE  Yields(e, r, <<bindUav(0, Object(e, "m_pModeTargetRes"), "ReadWrite"),
                        bindComputePso(Object(e, "m_stitchPso")), glDispatchCompute>>,
                Facts(SelectorPairs, H, Idles),
                Facts({}, After(H, {"m_pModeTargetRes"},
                            {<<"m_pModeTargetRes",
                               Output("etc2_rgb_selector.glsl", <<>>, 0, Modes(e, r))>>}),
                      Idles))
<1> DEFINE glsl == "etc2_rgb_selector.glsl"
           f == "m_stitchPso"
           o == "m_pModeTargetRes"
           x == Etc1Of(e, r, "etc1_with_error.glsl", 2)
           y == THOf(e, r, 1)
           z == POf(e, r, 1)
           v == Etc1Of(e, r, "etc1_with_error.glsl", 0)
           w == THOf(e, r, 0)
           u == POf(e, r, 0)
           A == SelectorPairs
           B == A \cup {<<uav(0), o>>}
           C == B \cup {<<pso, f>>}
           I == <<"m_etc1Error", "m_thModesError", "m_pModeError", "m_compressTargetRes",
                  "m_thModesTargetRes", o>>
           ins == <<x, y, z, v, w, u>>
           N == After(H, {o}, {<<o, Output(glsl, <<>>, 0, ins)>>})
<1>1. glsl = FileOf(r, f)
  BY DEF FileOf
<1>2. Adds(B, A, uav(0), o) /\ Adds(C, B, pso, f)
  BY UnitsDiffer DEF Adds, Free, SelectorPairs
<1>3. /\ <<tex(0), "m_etc1Error">> \in C /\ <<tex(1), "m_thModesError">> \in C
      /\ <<tex(2), "m_pModeError">> \in C /\ <<tex(3), "m_compressTargetRes">> \in C
      /\ <<tex(4), "m_thModesTargetRes">> \in C /\ <<uav(0), o>> \in C /\ <<pso, f>> \in C
  BY DEF SelectorPairs
<1>4. /\ <<"m_etc1Error", x>> \in H /\ <<"m_thModesError", y>> \in H
      /\ <<"m_pModeError", z>> \in H /\ <<"m_compressTargetRes", v>> \in H
      /\ <<"m_thModesTargetRes", w>> \in H /\ <<o, u>> \in H
  BY DEF SelectorHeld
<1>5. Modes(e, r) = ins
  BY ThreeAndThree DEF Modes
<1> HIDE DEF A, B, C, x, y, z, v, w, u
<1>6. /\ InputCount(glsl) = 6 /\ InputUnit(glsl, 1) = tex(0)
      /\ InputUnit(glsl, 2) = tex(1) /\ InputUnit(glsl, 3) = tex(2)
      /\ InputUnit(glsl, 4) = tex(3) /\ InputUnit(glsl, 5) = tex(4)
      /\ InputUnit(glsl, 6) = uav(0)
      /\ StoresTo(glsl, {0}) /\ ReadsDefined(glsl)
  BY InputsOfRgbSelector DEF StoresTo
<1>7. /\ Fed(C, H, InputUnit(glsl, 1), "m_etc1Error", x)
      /\ Fed(C, H, InputUnit(glsl, 2), "m_thModesError", y)
      /\ Fed(C, H, InputUnit(glsl, 3), "m_pModeError", z)
      /\ Fed(C, H, InputUnit(glsl, 4), "m_compressTargetRes", v)
      /\ Fed(C, H, InputUnit(glsl, 5), "m_thModesTargetRes", w)
      /\ Fed(C, H, InputUnit(glsl, 6), o, u)
  BY <1>3, <1>4, <1>6, SelectorFields DEF Fed
<1>8. Feeds(C, H, glsl, I, ins)
  BY <1>6, <1>7, FeedsSix
<1> HIDE DEF I, ins
<1>9. Goes(e, r, Facts(A, H, Idles), bindUav(0, Object(e, o), "ReadWrite"),
           Facts(B, H, Idles))
  BY <1>2, SelectorFields, Slots, ImageGoes
<1>10. Goes(e, r, Facts(B, H, Idles), bindComputePso(Object(e, f)), Facts(C, H, Idles))
  BY <1>2, SelectorFields, ProgramGoes
<1>11. Goes(e, r, Facts(C, H, Idles), glDispatchCompute, Facts(C, N, Idles))
  BY <1>1, <1>3, <1>6, <1>8, SelectorFields, DispatchInto
<1> HIDE DEF N
<1> DEFINE s == <<bindUav(0, Object(e, o), "ReadWrite"), bindComputePso(Object(e, f)),
                  glDispatchCompute>>
<1>12. Yields(e, r, s, Facts(A, H, Idles), Facts(C, N, Idles))
  BY <1>9, <1>10, <1>11, GoesThree
<1>13. Facts({}, N, Idles) \subseteq Facts(C, N, Idles)
  BY FewerFacts
<1> HIDE DEF s
<1>14. Yields(e, r, s, Facts(A, H, Idles), Facts({}, N, Idles))
  BY <1>12, <1>13, YieldsWeaker
<1> QED
  BY <1>5, <1>14 DEF A, N, s

(* The selector with alpha.                                                *)
LEMMA RgbaSelectorYields ==
  ASSUME NEW e \in Encoder, NEW r, UsesETC2(r), hasAlpha(r),
         NEW H, SelectorHeld(e, r) \subseteq H, <<"m_eacTargetRes", AlphaOf(e)>> \in H
  PROVE  Yields(e, r, <<bindTexture(5, Object(e, "m_pModeTargetRes")),
                        bindTexture(6, Object(e, "m_eacTargetRes")),
                        bindUav(0, Object(e, "m_stitchedTarget"), "Write"),
                        bindComputePso(Object(e, "m_stitchPso")), glDispatchCompute>>,
                Facts(SelectorPairs, H, Idles),
                Facts({}, After(H, {"m_stitchedTarget"},
                            {<<"m_stitchedTarget",
                               Output("etc2_rgba_selector.glsl", <<>>, 0,
                                      Modes(e, r) \o <<AlphaOf(e)>>)>>}),
                      Idles))
<1> DEFINE glsl == "etc2_rgba_selector.glsl"
           f == "m_stitchPso"
           o == "m_stitchedTarget"
           x == Etc1Of(e, r, "etc1_with_error.glsl", 2)
           y == THOf(e, r, 1)
           z == POf(e, r, 1)
           v == Etc1Of(e, r, "etc1_with_error.glsl", 0)
           w == THOf(e, r, 0)
           u == POf(e, r, 0)
           t == AlphaOf(e)
           A == SelectorPairs
           B == A \cup {<<tex(5), "m_pModeTargetRes">>}
           C == B \cup {<<tex(6), "m_eacTargetRes">>}
           D == C \cup {<<uav(0), o>>}
           E == D \cup {<<pso, f>>}
           I == <<"m_etc1Error", "m_thModesError", "m_pModeError", "m_compressTargetRes",
                  "m_thModesTargetRes", "m_pModeTargetRes", "m_eacTargetRes">>
           ins == <<x, y, z, v, w, u, t>>
           N == After(H, {o}, {<<o, Output(glsl, <<>>, 0, ins)>>})
<1>1. glsl = FileOf(r, f)
  BY DEF FileOf
<1>2. /\ Adds(B, A, tex(5), "m_pModeTargetRes") /\ Adds(C, B, tex(6), "m_eacTargetRes")
      /\ Adds(D, C, uav(0), o) /\ Adds(E, D, pso, f)
  <2>1. /\ tex(5) # tex(0) /\ tex(5) # tex(1) /\ tex(5) # tex(2) /\ tex(5) # tex(3)
        /\ tex(5) # tex(4) /\ tex(6) # tex(0) /\ tex(6) # tex(1) /\ tex(6) # tex(2)
        /\ tex(6) # tex(3) /\ tex(6) # tex(4) /\ tex(6) # tex(5)
    BY UnitsDiffer
  <2> QED
    BY <2>1, UnitsDiffer DEF Adds, Free, SelectorPairs
<1>3. /\ <<tex(0), "m_etc1Error">> \in E /\ <<tex(1), "m_thModesError">> \in E
      /\ <<tex(2), "m_pModeError">> \in E /\ <<tex(3), "m_compressTargetRes">> \in E
      /\ <<tex(4), "m_thModesTargetRes">> \in E /\ <<tex(5), "m_pModeTargetRes">> \in E
      /\ <<tex(6), "m_eacTargetRes">> \in E /\ <<uav(0), o>> \in E /\ <<pso, f>> \in E
  BY DEF SelectorPairs
<1>4. /\ <<"m_etc1Error", x>> \in H /\ <<"m_thModesError", y>> \in H
      /\ <<"m_pModeError", z>> \in H /\ <<"m_compressTargetRes", v>> \in H
      /\ <<"m_thModesTargetRes", w>> \in H /\ <<"m_pModeTargetRes", u>> \in H
      /\ <<"m_eacTargetRes", t>> \in H
  BY DEF SelectorHeld
<1>5. Modes(e, r) \o <<t>> = ins
  <2>1. Modes(e, r) = <<x, y, z, v, w, u>>
    BY ThreeAndThree DEF Modes
  <2> HIDE DEF x, y, z, v, w, u, t
  <2> QED
    BY <2>1, SixAndOne
<1> HIDE DEF A, B, C, D, E, x, y, z, v, w, u, t
<1>6. /\ InputCount(glsl) = 7 /\ InputUnit(glsl, 1) = tex(0)
      /\ InputUnit(glsl, 2) = tex(1) /\ InputUnit(glsl, 3) = tex(2)
      /\ InputUnit(glsl, 4) = tex(3) /\ InputUnit(glsl, 5) = tex(4)
      /\ InputUnit(glsl, 6) = tex(5) /\ InputUnit(glsl, 7) = tex(6)
      /\ StoresTo(glsl, {0}) /\ ReadsDefined(glsl)
  BY InputsOfRgbaSelector DEF StoresTo
<1>7. /\ Fed(E, H, InputUnit(glsl, 1), "m_etc1Error", x)
      /\ Fed(E, H, InputUnit(glsl, 2), "m_thModesError", y)
      /\ Fed(E, H, InputUnit(glsl, 3), "m_pModeError", z)
      /\ Fed(E, H, InputUnit(glsl, 4), "m_compressTargetRes", v)
      /\ Fed(E, H, InputUnit(glsl, 5), "m_thModesTargetRes", w)
      /\ Fed(E, H, InputUnit(glsl, 6), "m_pModeTargetRes", u)
      /\ Fed(E, H, InputUnit(glsl, 7), "m_eacTargetRes", t)
  BY <1>3, <1>4, <1>6, SelectorFields DEF Fed
<1>8. Feeds(E, H, glsl, I, ins)
  BY <1>6, <1>7, FeedsSeven
<1> HIDE DEF I, ins
<1>9. Goes(e, r, Facts(A, H, Idles), bindTexture(5, Object(e, "m_pModeTargetRes")),
           Facts(B, H, Idles))
  BY <1>2, SelectorFields, Slots, TextureGoes
<1>10. Goes(e, r, Facts(B, H, Idles), bindTexture(6, Object(e, "m_eacTargetRes")),
            Facts(C, H, Idles))
  BY <1>2, SelectorFields, Slots, TextureGoes
<1>11. Goes(e, r, Facts(C, H, Idles), bindUav(0, Object(e, o), "Write"),
           Facts(D, H, Idles))
  BY <1>2, SelectorFields, Slots, ImageGoes
<1>12. Goes(e, r, Facts(D, H, Idles), bindComputePso(Object(e, f)), Facts(E, H, Idles))
  BY <1>2, SelectorFields, ProgramGoes
<1>13. Goes(e, r, Facts(E, H, Idles), glDispatchCompute, Facts(E, N, Idles))
  BY <1>1, <1>3, <1>6, <1>8, SelectorFields, DispatchInto
<1> HIDE DEF N
<1> DEFINE s == <<bindTexture(5, Object(e, "m_pModeTargetRes")),
                  bindTexture(6, Object(e, "m_eacTargetRes")),
                  bindUav(0, Object(e, o), "Write"), bindComputePso(Object(e, f)),
                  glDispatchCompute>>
<1>14. Yields(e, r, s, Facts(A, H, Idles), Facts(E, N, Idles))
  BY <1>9, <1>10, <1>11, <1>12, <1>13, GoesFive
<1>15. Facts({}, N, Idles) \subseteq Facts(E, N, Idles)
  BY FewerFacts
<1> HIDE DEF s
<1>16. Yields(e, r, s, Facts(A, H, Idles), Facts({}, N, Idles))
  BY <1>14, <1>15, YieldsWeaker
<1> QED
  BY <1>5, <1>16 DEF A, N, s, t

-----------------------------------------------------------------------------
(* The calls of the two selectors, as EncoderETC2 lists them.              *)
LEMMA YieldsCut ==
  ASSUME NEW e, NEW r, NEW F, NEW G, NEW a, NEW b, NEW c, NEW d, NEW f
  PROVE  /\ Yields(e, r, <<a, b, c, d, f>>, F, G)
              => Yields(e, r, <<a, b, c>> \o <<d, f>>, F, G)
         /\ Yields(e, r, <<a, d, f>>, F, G) => Yields(e, r, <<a>> \o <<d, f>>, F, G)
<1>1. <<a, b, c, d, f>> = <<a, b, c>> \o <<d, f>>
  OBVIOUS
<1>2. <<a, d, f>> = <<a>> \o <<d, f>>
  OBVIOUS
<1> QED
  BY <1>1, <1>2

(* What is held once a selector has stored its result.                     *)
LEMMA SelectorKeeps ==
  ASSUME NEW e, NEW r, NEW o \in StoredField, NEW x,
         NEW H, Base(e, r) \subseteq H, NEW s, NEW F,
         Yields(e, r, s, F, Facts({}, After(H, {o}, {<<o, x>>}), Idles))
  PROVE  Yields(e, r, s, F, Facts({}, {<<o, x>>} \cup Base(e, r), Idles))
<1> DEFINE p == <<o, x>>
           B == Base(e, r)
<1>1. Clear(B, {o})
  BY InBase DEF Clear
<1> HIDE DEF p, B
<1>2. {p} \cup B \subseteq After(H, {o}, {p})
  BY <1>1, AfterKeeps DEF B
<1> QED
  BY <1>2, YieldsLess DEF p, B

(* EncoderETC2::execute02.                                                 *)
LEMMA ETC2_execute02Yields ==
  ASSUME NEW e \in Encoder, NEW r, UsesETC2(r), ~ImageAccessIsEnforced
  PROVE  Yields(e, r, ETC2_execute02(e, r),
                Facts({}, Base(e, r) \cup ErrorParts(e, r) \cup ModeParts(e, r), Idles),
                Facts({}, Outcome(e, r), Idles))
<1> DEFINE H == Base(e, r) \cup ErrorParts(e, r) \cup ModeParts(e, r)
           K == Outcome(e, r)
           s == SelectorBinds(e)
           t == <<bindTexture(5, Object(e, "m_pModeTargetRes")),
                  bindTexture(6, Object(e, "m_eacTargetRes")),
                  bindUav(0, Object(e, "m_stitchedTarget"), "Write")>>
           u == <<bindUav(0, Object(e, "m_pModeTargetRes"), "ReadWrite")>>
           w == <<bindComputePso(Object(e, "m_stitchPso")), glDispatchCompute>>
           F == Facts({}, H, Idles)
           M == Facts(SelectorPairs, H, Idles)
           G == Facts({}, K, Idles)
           x == Output("etc2_rgba_selector.glsl", <<>>, 0, Modes(e, r) \o <<AlphaOf(e)>>)
           y == Output("etc2_rgb_selector.glsl", <<>>, 0, Modes(e, r))
           X == Facts({}, After(H, {"m_stitchedTarget"}, {<<"m_stitchedTarget", x>>}), Idles)
           Y == Facts({}, After(H, {"m_pModeTargetRes"}, {<<"m_pModeTargetRes", y>>}), Idles)
<1>1. Yields(e, r, s, F, M)
  BY SelectorBindsYield
<1>2. /\ SelectorHeld(e, r) \subseteq H /\ Base(e, r) \subseteq H
      /\ hasAlpha(r) => <<"m_eacTargetRes", AlphaOf(e)>> \in H
  BY DEF SelectorHeld, ErrorParts, ModeParts, AlphaPart
<1>3. hasAlpha(r) => K = {<<"m_stitchedTarget", x>>} \cup Base(e, r)
  BY BlocksOfEtc2
     DEF Outcome, ResultField, ETC2_resultTexture, hasAlpha, UsesETC1, UsesETC2, Dispatched
<1>4. ~hasAlpha(r) => K = {<<"m_pModeTargetRes", y>>} \cup Base(e, r)
  BY BlocksOfEtc2
     DEF Outcome, ResultField, ETC2_resultTexture, hasAlpha, UsesETC1, UsesETC2, Dispatched
<1>5. "m_stitchedTarget" \in StoredField /\ "m_pModeTargetRes" \in StoredField
  BY DEF StoredField
<1>6. ETC2_execute02(e, r) = s \o (IF hasAlpha(r) THEN t ELSE u) \o w
  BY DEF ETC2_execute02, SelectorBinds
<1>7. /\ s \in Seq(OwnCall(e)) /\ t \in Seq(OwnCall(e)) /\ u \in Seq(OwnCall(e))
      /\ w \in Seq(OwnCall(e))
  <2>1. s \in Seq(OwnCall(e))
    BY <1>1 DEF Yields
  <2> HIDE DEF s
  <2> QED
    BY <2>1, OwnPlain, OwnBind, OwnBindUav DEF TexUnits, ImageUnits, Field
<1> HIDE DEF H, K
<1>8. CASE hasAlpha(r)
  <2>1. Yields(e, r, t \o w, M, X)
    BY <1>2, <1>8, RgbaSelectorYields, YieldsCut, Zenon
  <2> HIDE DEF s, t, w, x, M
  <2>2. Yields(e, r, t \o w, M, G)
    BY <1>2, <1>3, <1>5, <1>8, <2>1, SelectorKeeps
  <2>3. Yields(e, r, s \o (t \o w), F, G)
    BY <1>1, <2>2, YieldsOn
  <2>4. ETC2_execute02(e, r) = s \o (t \o w)
    BY <1>6, <1>7, <1>8
  <2> QED
    BY <2>3, <2>4 DEF H, K
<1>9. CASE ~hasAlpha(r)
  <2>1. Yields(e, r, u \o w, M, Y)
    BY <1>2, <1>9, RgbSelectorYields, YieldsCut, Zenon
  <2> HIDE DEF s, u, w, y, M
  <2>2. Yields(e, r, u \o w, M, G)
    BY <1>2, <1>4, <1>5, <1>9, <2>1, SelectorKeeps
  <2>3. Yields(e, r, s \o (u \o w), F, G)
    BY <1>1, <2>2, YieldsOn
  <2>4. ETC2_execute02(e, r) = s \o (u \o w)
    BY <1>6, <1>7, <1>9
  <2> QED
    BY <2>3, <2>4 DEF H, K
<1> QED
  BY <1>8, <1>9

-----------------------------------------------------------------------------
(* What holds between two iterations of main's loop.                       *)
Resting(e, r) == Facts({}, Base(e, r), Idles)

(* What execute03 writes to.                                               *)
PeekFields == {"m_dstTexture", "stagingTex"}

(* What is known of the other objects.                                     *)
LEMMA InFactsClear ==
  ASSUME NEW H, Clear(H, PeekFields), NEW U, NEW x \in Facts({}, H, U)
  PROVE  /\ x[1] # "bound" /\ (x[1] = "holds" => x[2] \notin PeekFields)
         /\ (x[1] = "spare" => x[2] \in BufferField)
<1>1. CASE \E p \in H : x = Holds(p[1], p[2])
  BY <1>1 DEF Holds, Clear
<1>2. CASE \E p \in U : x = Given(p[1], p[2])
  BY <1>2 DEF Given
<1>3. CASE \E f \in BufferField : x = Spare(f)
  BY <1>3 DEF Spare
<1> QED
  BY <1>1, <1>2, <1>3 DEF Facts

(* A copy of a texture into m_dstTexture keeps it.                         *)
LEMMA CopyGoes ==
  ASSUME NEW e \in Encoder, NEW r, NEW f \in Field \ BufferField,
         NEW H, Clear(H, PeekFields), NEW U
  PROVE  Goes(e, r, Facts({}, H, U), copyImage(Object(e, f), Object(e, "m_dstTexture")),
              Facts({}, H, U))
<1> DEFINE c == copyImage(Object(e, f), Object(e, "m_dstTexture"))
           F == Facts({}, H, U)
<1>1. "m_dstTexture" \in Field \ BufferField
  BY DEF Field, BufferField
<1>2. c \in OwnCall(e)
  BY <1>1, OwnTransfer
<1>3. c.op = "copy" /\ c.src[2] = f /\ c.dst[2] = "m_dstTexture"
  BY DEF copyImage, Object
<1> HIDE DEF c, F
<1>4. ASSUME NEW x \in F
      PROVE  x \in Unbound(Engages(Stored(F, {c.dst[2]}, {}), {c.src[2], c.dst[2]}))
  <2>1. x[1] # "bound" /\ (x[1] = "holds" => x[2] # "m_dstTexture")
        /\ (x[1] = "spare" => x[2] \in BufferField)
    BY <1>4, InFactsClear DEF F, PeekFields
  <2> QED
    BY <1>1, <1>3, <1>4, <2>1 DEF Unbound, Engages, Stored
<1>5. CopyTells(F, c, F)
  BY <1>3, <1>4 DEF CopyTells
<1> QED
  BY <1>2, <1>5 DEF Goes, CallTells, c, F

(* EncoderBC1::execute03 and EncoderBC4::execute03.                        *)
LEMMA CopyYields ==
  ASSUME NEW e \in Encoder, NEW r, NEW f \in Field \ BufferField,
         NEW H, Clear(H, PeekFields), NEW U
  PROVE  Yields(e, r, <<glMemoryBarrier({"TEXTURE_UPDATE", "SHADER_IMAGE_ACCESS"}),
                        copyImage(Object(e, f), Object(e, "m_dstTexture"))>>,
                Facts({}, H, U), Facts({}, H, U))
<1>1. Goes(e, r, Facts({}, H, U), glMemoryBarrier({"TEXTURE_UPDATE", "SHADER_IMAGE_ACCESS"}),
           Facts({}, H, U))
  BY BarrierGoes DEF Bit
<1> QED
  BY <1>1, CopyGoes, GoesTwo

(* EncoderETC1::execute03 also downloads, into a buffer of its own, and    *)
(* waits for it.                                                           *)
LEMMA PeekYields ==
  ASSUME NEW e \in Encoder, NEW r, NEW f \in Field \ BufferField,
         NEW H, Clear(H, PeekFields), NEW U
  PROVE  Yields(e, r, <<glMemoryBarrier({"TEXTURE_UPDATE", "SHADER_IMAGE_ACCESS"}),
                        copyImage(Object(e, f), Object(e, "m_dstTexture")),
                        createStagingTexture(Object(e, "stagingTex")),
                        downloadStagingTexture(Object(e, f), Object(e, "stagingTex"), 8),
                        glFinish,
                        destroy(Object(e, "stagingTex"))>>,
                Facts({}, H, U), Facts({}, H, U))
<1> DEFINE b == glMemoryBarrier({"TEXTURE_UPDATE", "SHADER_IMAGE_ACCESS"})
           p == copyImage(Object(e, f), Object(e, "m_dstTexture"))
           c == createStagingTexture(Object(e, "stagingTex"))
           d == downloadStagingTexture(Object(e, f), Object(e, "stagingTex"), 8)
           x == destroy(Object(e, "stagingTex"))
           F == Facts({}, H, U)
           M == {y \in F : y[1] = "spare" => y[2] # "stagingTex"}
<1>1. "stagingTex" \in Field /\ "stagingTex" \in BufferField /\ f # "stagingTex"
  BY DEF Field, BufferField
<1>2. c \in OwnCall(e) /\ d \in OwnCall(e) /\ x \in OwnCall(e) /\ glFinish \in OwnCall(e)
  BY <1>1, OwnPlain, OwnTransfer, OwnCreate, OwnBind
<1>3. /\ c.op = "create" /\ c.name[2] = "stagingTex"
      /\ d.op = "download" /\ d.src[2] = f /\ d.dst[2] = "stagingTex"
      /\ x.op = "destroy" /\ glFinish.op = "finish"
  BY DEF createStagingTexture, downloadStagingTexture, destroy, glFinish, Object
<1>4. Goes(e, r, F, b, F)
  BY BarrierGoes DEF Bit
<1>5. Goes(e, r, F, p, F)
  BY CopyGoes
<1>6. Spare("stagingTex") \in F
  BY <1>1, InFacts
<1> HIDE DEF b, p, c, d, x, F
<1>7. \A y \in F : /\ y[1] # "bound" /\ (y[1] = "holds" => y[2] # "stagingTex")
                   /\ (y[1] = "spare" => y[2] \in BufferField)
  BY InFactsClear DEF F, PeekFields
<1>8. Goes(e, r, F, c, F)
  <2>1. F \subseteq Unbound(Stored(F, {c.name[2]}, {<<c.name[2], c.value>>}))
    BY <1>3, <1>7 DEF Unbound, Stored
  <2> QED
    BY <1>2, <1>3, <1>6, <2>1 DEF CreateTells, CallTells, Goes
<1>9. Goes(e, r, F, d, M)
  <2>1. M \subseteq Unbound(Engages(Stored(F, {d.dst[2]},
               {<<d.dst[2], Output("download", <<d.bytes>>, 0, <<v>>)>> : v \in {}}),
               {d.src[2], d.dst[2]}))
    BY <1>3, <1>7 DEF Unbound, Engages, Stored
  <2>2. DownloadTells(F, d, M)
    BY <1>3, <2>1 DEF DownloadTells
  <2> QED
    BY <1>2, <2>2 DEF CallTells, Goes
<1>10. Goes(e, r, M, glFinish, F)
  <2>1. \A y \in F : y \in M \/ y[1] = "spare"
    OBVIOUS
  <2>2. PlainTells(M, glFinish, F)
    BY <1>3, <2>1 DEF PlainTells
  <2> QED
    BY <1>2, <2>2 DEF CallTells, Goes
<1>11. Goes(e, r, F, x, F)
  <2>1. DestroyTells(F, x, F)
    BY <1>3, <1>7 DEF DestroyTells, Unbound
  <2> QED
    BY <1>2, <2>1 DEF CallTells, Goes
<1> HIDE DEF M
<1>12. Yields(e, r, <<b, p, c, d, glFinish, x>>, F, F)
  BY <1>4, <1>5, <1>8, <1>9, <1>10, <1>11, GoesSix
<1> QED
  BY <1>12 DEF b, p, c, d, x, F

-----------------------------------------------------------------------------
(* What the staging buffer is to hold: the blocks, all their bytes.        *)
FileData(e, r) ==
  Output("download", <<BytesPerBlock(FormatOf(r.codec))>>, 0, <<Blocks(e, r)>>)
Delivery(e, r) == {Holds("m_downloadStaging", FileData(e, r))}

(* The download every startDownload ends with.                             *)
LEMMA DownloadYields ==
  ASSUME NEW e \in Encoder, NEW r, NEW L, NEW f \in Field \ BufferField, NEW n \in Nat,
         NEW H, NEW v, <<f, v>> \in H, NEW U
  PROVE  Yields(e, r, downloadResult(e, L, f, n), Facts({}, H, U),
                {Holds("m_downloadStaging", Output("download", <<n>>, 0, <<v>>))})
<1> DEFINE o == "m_downloadStaging"
           b == glMemoryBarrier({"PIXEL_BUFFER"})
           x == destroy(Object(e, o))
           c == createStagingTexture(Object(e, o))
           d == downloadStagingTexture(Object(e, f), Object(e, o), n)
           w == Output("download", <<n>>, 0, <<v>>)
           F == {Holds(f, v), Spare(o)}
           M == {Holds(f, v)}
           G == {Holds(o, w)}
<1>1. o \in Field /\ o \in BufferField /\ f # o
  BY DEF Field, BufferField
<1>2. b \in OwnCall(e) /\ x \in OwnCall(e) /\ c \in OwnCall(e) /\ d \in OwnCall(e)
  BY <1>1, OwnPlain, OwnTransfer, OwnCreate, OwnBind DEF Bit
<1>3. /\ c.op = "create" /\ c.name[2] = o
      /\ d.op = "download" /\ d.src[2] = f /\ d.dst[2] = o /\ d.bytes = n
      /\ x.op = "destroy"
  BY DEF createStagingTexture, downloadStagingTexture, destroy, Object
<1>4. downloadResult(e, L, f, n) = <<b>> \o When(Object(e, o) \in L, <<x>>) \o <<c, d>>
  BY DEF downloadResult, destroyDownloadStaging
<1>5. F \subseteq Facts({}, H, U)
  BY <1>1, InFacts
<1>6. \A y \in F : y = Holds(f, v) \/ y = Spare(o)
  OBVIOUS
<1>7. Goes(e, r, F, b, F)
  BY BarrierGoes DEF Bit
<1> HIDE DEF b, x, c, d, w
<1>8. Goes(e, r, F, x, F)
  <2>1. DestroyTells(F, x, F)
    BY <1>3, <1>6 DEF DestroyTells, Unbound, Holds, Spare
  <2> QED
    BY <1>2, <2>1 DEF CallTells, Goes
<1>9. Goes(e, r, F, c, M)
  <2>1. Holds(f, v)[1] = "holds" /\ Holds(f, v)[2] = f /\ Holds(f, v) \in F
        /\ Spare(o) \in F
    BY DEF Holds
  <2> HIDE DEF F
  <2>2. M \subseteq Unbound(Stored(F, {c.name[2]}, {<<c.name[2], c.value>>}))
    BY <1>1, <1>3, <2>1 DEF Unbound, Stored
  <2> QED
    BY <1>2, <1>3, <2>1, <2>2 DEF CreateTells, CallTells, Goes
<1>10. Goes(e, r, M, d, G)
  <2> DEFINE W == {<<d.dst[2], Output("download", <<d.bytes>>, 0, <<u>>)>> : u \in {v}}
  <2>1. <<o, w>> \in W
    BY <1>3 DEF w
  <2>2. Holds(o, w) = Holds(<<o, w>>[1], <<o, w>>[2]) /\ Holds(o, w)[1] = "holds"
    BY DEF Holds
  <2>3. \A u \in {v} : Holds(d.src[2], u) \in M
    BY <1>3
  <2> HIDE DEF M
  <2>4. G \subseteq Unbound(Engages(Stored(M, {d.dst[2]}, W), {d.src[2], d.dst[2]}))
    <3> HIDE DEF W
    <3> QED
      BY <2>1, <2>2 DEF Unbound, Engages, Stored
  <2> HIDE DEF G
  <2>5. DownloadTells(M, d, G)
    BY <1>3, <2>3, <2>4 DEF DownloadTells
  <2> QED
    BY <1>2, <2>5 DEF CallTells, Goes
<1> HIDE DEF F, M, G
<1>11. Yields(e, r, <<b>>, F, F) /\ Yields(e, r, <<x>>, F, F) /\ Yields(e, r, <<c, d>>, F, G)
  BY <1>7, <1>8, <1>9, <1>10, GoesOne, GoesTwo
<1>12. Yields(e, r, When(Object(e, o) \in L, <<x>>), F, F)
  BY <1>11, YieldsNowhere DEF When
<1>13. Yields(e, r, downloadResult(e, L, f, n), F, G)
  BY <1>4, <1>11, <1>12, YieldsOn
<1> QED
  BY <1>5, <1>13, YieldsWeaker DEF G, w

(* The codecs the file is known of.                                        *)
Known(r) == UsesETC1(r) \/ UsesETC2(r) \/ UsesBC1(r) \/ UsesBC4(r)

(* Every startDownload but EAC's and BC6H's.                               *)
LEMMA StartDownloadYields ==
  ASSUME NEW e \in Encoder, NEW r, Known(r)
  PROVE  Yields(e, r, StartDownloadCalls(e, r), Facts({}, Outcome(e, r), Idles),
                Delivery(e, r))
<1> DEFINE n == BytesPerBlock(FormatOf(r.codec))
           f == ResultField(r)
<1>1. <<f, Blocks(e, r)>> \in Outcome(e, r)
  BY DEF Outcome
<1>2. f \in Field \ BufferField
  BY DEF ResultField, ETC2_resultTexture, BC1_resultTexture, BC4_resultTexture, Field,
         BufferField
<1>3. n \in Nat
  BY DEF BytesPerBlock
<1>4. StartDownloadCalls(e, r) = downloadResult(e, live, f, n)
  <2>1. CASE UsesETC1(r)
    BY <2>1, OneEncoder
       DEF StartDownloadCalls, ETC1_startDownload, ResultField, BytesPerBlock, FormatOf,
           UsesETC1, hasAlpha
  <2>2. CASE UsesETC2(r)
    BY <2>2, OneEncoder
       DEF StartDownloadCalls, ETC2_startDownload, ResultField, BytesPerBlock, FormatOf,
           UsesETC2, hasAlpha
  <2>3. CASE UsesBC1(r)
    BY <2>3, OneEncoder
       DEF StartDownloadCalls, BC1_startDownload, ResultField, BytesPerBlock, FormatOf,
           UsesBC1, useBC3
  <2>4. CASE UsesBC4(r)
    BY <2>4, OneEncoder
       DEF StartDownloadCalls, BC4_startDownload, ResultField, BytesPerBlock, FormatOf,
           UsesBC4, redGreen
  <2> QED
    BY <2>1, <2>2, <2>3, <2>4 DEF Known
<1> HIDE DEF n, f
<1> QED
  BY <1>1, <1>2, <1>3, <1>4, DownloadYields DEF Delivery, FileData, n

(* downloadTo waits.                                                       *)
LEMMA DownloadToYields ==
  ASSUME NEW e \in Encoder, NEW r, NEW F
  PROVE  Yields(e, r, <<glFinish>>, F, F)
<1>1. PlainTells(F, glFinish, F)
  BY DEF PlainTells, glFinish
<1> QED
  BY <1>1, OwnPlain, YieldsOne DEF CallTells

(* Of a list of deletions nothing has to be known.                         *)
LEMMA DeinitYields ==
  ASSUME NEW e \in Encoder, NEW r \in Request, NEW F
  PROVE  Yields(e, r, DeinitResourcesCalls(e, r), F, {})
<1> DEFINE S == {c \in OwnCall(e) : c.op = "destroy"}
<1>1. DeinitResourcesCalls(e, r) \in Seq(S)
  <2>1. ASSUME NEW s, NEW D, Frees(e, s, D)
        PROVE  s \in Seq(S)
    BY <2>1 DEF Frees
  <2> HIDE DEF S
  <2>2. CASE UsesETC1(r)
    BY <2>1, <2>2, OneEncoder, ETC1Frees DEF DeinitResourcesCalls
  <2>3. CASE UsesETC2(r)
    BY <2>1, <2>3, OneEncoder, ETC2Frees DEF DeinitResourcesCalls
  <2>4. CASE UsesEAC(r)
    BY <2>1, <2>4, OneEncoder, EACFrees DEF DeinitResourcesCalls
  <2>5. CASE UsesBC1(r)
    BY <2>1, <2>5, OneEncoder, BC1Frees DEF DeinitResourcesCalls
  <2>6. CASE UsesBC4(r)
    BY <2>1, <2>6, OneEncoder, BC4Frees DEF DeinitResourcesCalls
  <2>7. CASE UsesBC6H(r)
    BY <2>1, <2>7, OneEncoder, BC6HFrees DEF DeinitResourcesCalls
  <2> QED
    BY <2>2, <2>3, <2>4, <2>5, <2>6, <2>7, SomeEncoder
<1>2. \A c \in S : CallTells(e, r, {}, c, {})
  BY DEF CallTells, DestroyTells
<1>3. S \subseteq OwnCall(e)
  OBVIOUS
<1> HIDE DEF S
<1>4. Yields(e, r, DeinitResourcesCalls(e, r), {}, {})
  BY <1>1, <1>2, <1>3, YieldsSame
<1> QED
  BY <1>4, YieldsWeaker

-----------------------------------------------------------------------------
(* What is known while an encoder's objects are generated: the contents in *)
(* H, and that no object but those of the fields in E is in use.           *)
Newly(H, E) ==
  {Holds(p[1], p[2]) : p \in H} \cup {Given(f, <<>>) : f \in ProgramField}
    \cup {Spare(f) : f \in Field \ E}
Other(H, f) == \A p \in H : p[1] # f
Creation(e, f) == {c \in OwnCall(e) : c.op = "create" /\ c.name[2] = f}

(* The facts one by one.                                                   *)
LEMMA InNewly ==
  ASSUME NEW H, NEW E
  PROVE  /\ \A p \in H : Holds(p[1], p[2]) \in Newly(H, E)
         /\ \A f \in Field \ E : Spare(f) \in Newly(H, E)
         /\ \A x \in Newly(H, E) :
              \/ \E p \in H : x = Holds(p[1], p[2]) /\ x[1] = "holds" /\ x[2] = p[1]
              \/ x[1] = "given"
              \/ x[1] = "spare" /\ x[2] \notin E
<1>1. \A p \in H : Holds(p[1], p[2]) \in Newly(H, E)
  BY DEF Newly
<1>2. \A f \in Field \ E : Spare(f) \in Newly(H, E)
  BY DEF Newly
<1>3. ASSUME NEW x \in Newly(H, E)
      PROVE  \/ \E p \in H : x = Holds(p[1], p[2]) /\ x[1] = "holds" /\ x[2] = p[1]
             \/ x[1] = "given"
             \/ x[1] = "spare" /\ x[2] \notin E
  <2>1. CASE \E p \in H : x = Holds(p[1], p[2])
    BY <2>1 DEF Holds
  <2>2. CASE \E f \in ProgramField : x = Given(f, <<>>)
    BY <2>2 DEF Given
  <2>3. CASE \E f \in Field \ E : x = Spare(f)
    BY <2>3 DEF Spare
  <2> QED
    BY <2>1, <2>2, <2>3 DEF Newly
<1> QED
  BY <1>1, <1>2, <1>3

(* A generation changes no other object.                                   *)
LEMMA CreateGoes ==
  ASSUME NEW e \in Encoder, NEW r, NEW H, NEW E, NEW f \in Field \ E, Other(H, f),
         NEW c \in Creation(e, f)
  PROVE  Goes(e, r, Newly(H, E), c, Newly(H, E))
<1> DEFINE F == Newly(H, E)
<1>1. c \in OwnCall(e) /\ c.op = "create" /\ c.name[2] = f
  BY DEF Creation
<1>2. \A x \in F : x[1] # "bound" /\ (x[1] = "holds" => x[2] # f)
  BY InNewly DEF Other
<1>3. Spare(f) \in F
  BY InNewly
<1> HIDE DEF F
<1>4. F \subseteq Unbound(Stored(F, {c.name[2]}, {<<c.name[2], c.value>>}))
  BY <1>1, <1>2 DEF Unbound, Stored
<1> QED
  BY <1>1, <1>3, <1>4 DEF CreateTells, CallTells, Goes, F

(* A table is generated with its contents.                                 *)
LEMMA TableCreated ==
  ASSUME NEW e \in Encoder, NEW r, NEW E, NEW f \in Field \ E,
         NEW c \in Creation(e, f), NEW v, v = c.value
  PROVE  Goes(e, r, Newly({}, E), c, Newly({<<f, v>>}, E))
<1> DEFINE F == Newly({}, E)
           G == Newly({<<f, v>>}, E)
<1>1. c \in OwnCall(e) /\ c.op = "create" /\ c.name[2] = f
  BY DEF Creation
<1>2. \A x \in F : x[1] # "bound" /\ x[1] # "holds"
  BY InNewly
<1>3. Spare(f) \in F
  BY InNewly
<1>4. G \subseteq F \cup {Holds(f, v)}
  BY DEF Newly
<1>5. Holds(f, v)[1] = "holds"
  BY DEF Holds
<1> HIDE DEF F, G
<1>6. G \subseteq Unbound(Stored(F, {c.name[2]}, {<<c.name[2], c.value>>}))
  <2>1. \A x \in F : x \in Unbound(Stored(F, {c.name[2]}, {<<c.name[2], c.value>>}))
    BY <1>2 DEF Unbound, Stored
  <2>2. Holds(f, v) \in Unbound(Stored(F, {c.name[2]}, {<<c.name[2], c.value>>}))
    BY <1>1, <1>5 DEF Unbound, Stored
  <2> QED
    BY <1>4, <2>1, <2>2
<1> QED
  BY <1>1, <1>3, <1>6 DEF CreateTells, CallTells, Goes, F, G

(* Generations in a row, of objects that are neither in use nor known.     *)
Creations(e, H, E) ==
  {c \in OwnCall(e) : c.op = "create" /\ c.name[2] \in Field \ E /\ Other(H, c.name[2])}

(* They keep what is known.                                                *)
LEMMA CreationsYield ==
  ASSUME NEW e \in Encoder, NEW r, NEW H, NEW E, NEW s \in Seq(Creations(e, H, E))
  PROVE  Yields(e, r, s, Newly(H, E), Newly(H, E))
<1> DEFINE S == Creations(e, H, E)
           F == Newly(H, E)
<1>1. ASSUME NEW c \in S
      PROVE  CallTells(e, r, F, c, F)
  <2>1. c \in Creation(e, c.name[2]) /\ c.name[2] \in Field \ E /\ Other(H, c.name[2])
    BY DEF Creations, Creation
  <2> HIDE DEF F, S
  <2>2. Goes(e, r, F, c, F)
    BY <2>1, CreateGoes DEF F
  <2> QED
    BY <2>2 DEF Goes
<1>2. S \subseteq OwnCall(e)
  BY DEF Creations
<1> HIDE DEF S, F
<1> QED
  BY <1>1, <1>2, YieldsSame DEF S, F

(* The wrappers generate.                                                  *)
LEMMA CreationMembers ==
  ASSUME NEW e \in Encoder, NEW f \in Field
  PROVE  /\ createTexture(Object(e, f)) \in Creation(e, f)
         /\ createTextureArray(Object(e, f)) \in Creation(e, f)
         /\ createStagingTexture(Object(e, f)) \in Creation(e, f)
         /\ createUavBuffer(Object(e, f), "etc1_tables") \in Creation(e, f)
         /\ createUavBuffer(Object(e, f), "bc1_tables") \in Creation(e, f)
         /\ \A g \in Shader : createComputePsoFromFile(Object(e, f), g) \in Creation(e, f)
<1>1. \A g \in Shader : createComputePsoFromFile(Object(e, f), g) \in Creation(e, f)
  BY OwnProgram DEF Creation, createComputePsoFromFile, Object
<1> QED
  BY <1>1, OwnCreate, OwnTables
     DEF Creation, createTexture, createTextureArray, createStagingTexture, createUavBuffer,
         Object

(* Generations of objects not known yet.                                   *)
LEMMA InCreations ==
  ASSUME NEW e, NEW H, NEW E, NEW f \in Field \ E, Other(H, f), NEW c \in Creation(e, f)
  PROVE  c \in Creations(e, H, E)
BY DEF Creation, Creations

-----------------------------------------------------------------------------
(* The picture among the contents H.                                       *)
WithPicture(e, H) == {<<"m_srcTexture", SourceImage(e)>>} \cup H

(* The upload.                                                             *)
LEMMA UploadGoes ==
  ASSUME NEW e \in Encoder, NEW r, NEW H, Other(H, "m_srcTexture")
  PROVE  Goes(e, r, Newly(H, {}),
              uploadStagingTexture(Object(e, "stagingTex"), Object(e, "m_srcTexture")),
              Newly(WithPicture(e, H), {"m_srcTexture"}))
<1> DEFINE c == uploadStagingTexture(Object(e, "stagingTex"), Object(e, "m_srcTexture"))
           f == "m_srcTexture"
           v == SourceImage(e)
           F == Newly(H, {})
           G == Newly(WithPicture(e, H), {f})
           S == Stored(F, {f}, {<<f, v>>})
<1>1. c \in OwnCall(e)
  BY OwnTransfer DEF Field
<1>2. c.op = "upload" /\ c.dst[2] = f
  BY DEF uploadStagingTexture, Object
<1>3. \A x \in G : x \in F \/ x = Holds(f, v)
  BY DEF Newly, WithPicture
<1>4. \A x \in G : x[1] # "bound" /\ (x[1] = "spare" => x[2] # f)
  BY InNewly
<1>5. \A x \in F : x[1] = "holds" => x[2] # f
  BY InNewly DEF Other
<1> HIDE DEF c, F, G, v
<1>6. G \subseteq S
  BY <1>3, <1>5 DEF Stored
<1>7. G \subseteq Unbound(Engages(S, {f}))
  <2> HIDE DEF S
  <2> QED
    BY <1>4, <1>6 DEF Unbound, Engages
<1>8. UploadTells(e, F, c, G)
  BY <1>2, <1>7 DEF UploadTells, v
<1> QED
  BY <1>1, <1>8 DEF CallTells, Goes, F, G, c

(* The deletion of an object.                                              *)
LEMMA DestroyGoes ==
  ASSUME NEW e \in Encoder, NEW r, NEW H, NEW E, NEW f \in Field
  PROVE  Goes(e, r, Newly(H, E), destroy(Object(e, f)), Newly(H, E))
<1> DEFINE F == Newly(H, E)
           c == destroy(Object(e, f))
<1>1. \A x \in F : x[1] # "bound"
  BY InNewly
<1>2. c \in OwnCall(e) /\ c.op = "destroy"
  BY OwnBind DEF destroy
<1> HIDE DEF F, c
<1>3. DestroyTells(F, c, F)
  BY <1>1, <1>2 DEF DestroyTells, Unbound
<1> QED
  BY <1>2, <1>3 DEF CallTells, Goes, F, c

(* The end of every initResources.                                         *)
LEMMA UploadYields ==
  ASSUME NEW e \in Encoder, NEW r, NEW H, Other(H, "m_srcTexture"), Other(H, "stagingTex"),
         NEW s, NEW F, Yields(e, r, s, F, Newly(H, {}))
  PROVE  Yields(e, r, s \o uploadSource(e) \o <<destroy(Object(e, "stagingTex"))>>, F,
                Newly(WithPicture(e, H), {"m_srcTexture"}))
<1> DEFINE c == createStagingTexture(Object(e, "stagingTex"))
           u == uploadStagingTexture(Object(e, "stagingTex"), Object(e, "m_srcTexture"))
           x == destroy(Object(e, "stagingTex"))
           M == Newly(H, {})
           G == Newly(WithPicture(e, H), {"m_srcTexture"})
<1>1. "stagingTex" \in Field
  BY DEF Field
<1>2. Goes(e, r, M, c, M)
  BY <1>1, CreationMembers, CreateGoes
<1>3. Goes(e, r, M, u, G)
  BY UploadGoes
<1>4. Goes(e, r, G, x, G)
  BY <1>1, DestroyGoes
<1>5. uploadSource(e) = <<c, u>>
  BY DEF uploadSource
<1> HIDE DEF c, u, x, M, G
<1>6. Yields(e, r, <<c, u>>, M, G) /\ Yields(e, r, <<x>>, G, G)
  BY <1>2, <1>3, <1>4, GoesOne, GoesTwo
<1>7. Yields(e, r, s \o <<c, u>>, F, G)
  BY <1>6, YieldsOn DEF M
<1>8. Yields(e, r, s \o <<c, u>> \o <<x>>, F, G)
  BY <1>6, <1>7, YieldsOn
<1> QED
  BY <1>5, <1>8 DEF x, G

(* What initResources leaves known is what the loop starts from.           *)
LEMMA NewlyRests ==
  ASSUME NEW e, NEW r, NEW H, Base(e, r) \subseteq H
  PROVE  Resting(e, r) \subseteq Newly(H, {"m_srcTexture"})
<1> DEFINE N == Newly(H, {"m_srcTexture"})
<1>1. \A p \in Base(e, r) : Holds(p[1], p[2]) \in N
  BY DEF Newly
<1>2. \A p \in Idles : Given(p[1], p[2]) \in N
  BY DEF Idles, Newly
<1>3. \A f \in BufferField : f \in Field /\ f # "m_srcTexture"
  BY DEF BufferField, Field
<1>4. \A f \in BufferField : Spare(f) \in N
  BY <1>3 DEF Newly
<1>5. \A p \in {} : Bound(p[1], p[2]) \in N
  OBVIOUS
<1> HIDE DEF N
<1>6. Facts({}, Base(e, r), Idles) \subseteq N
  BY <1>1, <1>2, <1>4, <1>5, FactsWithin
<1> QED
  BY <1>6 DEF Resting, N

(* EncoderBC4::initResources.                                              *)
LEMMA BC4_initYields ==
  ASSUME NEW e \in Encoder, NEW r \in Request, UsesBC4(r)
  PROVE  Yields(e, r, BC4_initResources(e, r), Newly({}, {}), Resting(e, r))
<1> DEFINE S == Creations(e, {}, {})
           F == Newly({}, {})
           H == WithPicture(e, {})
           G == Newly(H, {"m_srcTexture"})
           a1 == <<createTexture(Object(e, "m_srcTexture")),
                   createTexture(Object(e, "m_bc4TargetRes[0]"))>>
           a2 == <<createTexture(Object(e, "m_bc4TargetRes[1]"))>>
           a3 == <<createComputePsoFromFile(Object(e, "m_bc4Pso"), "bc4.glsl")>>
           a4 == <<createTexture(Object(e, "m_stitchedTarget")),
                   createComputePsoFromFile(Object(e, "m_stitchPso"),
                                            "etc2_rgba_stitch.glsl")>>
           a5 == <<createTexture(Object(e, "m_dstTexture"))>>
           a6 == <<destroy(Object(e, "stagingTex"))>>
           s == a1 \o When(redGreen(r), a2) \o a3 \o When(redGreen(r), a4) \o a5
<1>1. \A f \in Field : \A c \in Creation(e, f) : c \in S
  BY InCreations DEF Other
<1>2. \A f \in Field : createTexture(Object(e, f)) \in S
  BY <1>1, CreationMembers
<1>3. \A f \in Field, g \in Shader : createComputePsoFromFile(Object(e, f), g) \in S
  BY <1>1, CreationMembers
<1> HIDE DEF S
<1>4. a1 \in Seq(S) /\ a2 \in Seq(S) /\ a5 \in Seq(S)
  BY <1>2 DEF Field
<1>5. a3 \in Seq(S) /\ a4 \in Seq(S)
  <2>1. /\ createComputePsoFromFile(Object(e, "m_bc4Pso"), "bc4.glsl") \in S
        /\ createComputePsoFromFile(Object(e, "m_stitchPso"), "etc2_rgba_stitch.glsl") \in S
        /\ createTexture(Object(e, "m_stitchedTarget")) \in S
    BY <1>2, <1>3 DEF Field, Shader
  <2> QED
    BY <2>1
<1>6. BC4_initResources(e, r) = s \o uploadSource(e) \o a6
  BY DEF BC4_initResources
<1> HIDE DEF a1, a2, a3, a4, a5, a6
<1>7. s \in Seq(S)
  BY <1>4, <1>5, ConcatProperties DEF When
<1> HIDE DEF s
<1>8. Yields(e, r, s, F, F)
  BY <1>7, CreationsYield DEF S
<1>9. Other({}, "m_srcTexture") /\ Other({}, "stagingTex")
  BY DEF Other
<1>10. Yields(e, r, s \o uploadSource(e) \o a6, F, G)
  BY <1>8, <1>9, UploadYields DEF a6
<1>11. Base(e, r) \subseteq H
  BY OneEncoder DEF Base, WithPicture, Has00
<1>12. Resting(e, r) \subseteq G
  <2> HIDE DEF H
  <2> QED
    BY <1>11, NewlyRests
<1> HIDE DEF F, G
<1> QED
  BY <1>6, <1>10, <1>12, YieldsWeaker DEF F

-----------------------------------------------------------------------------
Bc1Table == {<<"m_bc1TablesSsbo", Leaf("bc1_tables")>>}
Etc1Table == {<<"m_etc1TablesSsbo", Leaf("etc1_tables")>>}

(* What is generated besides a table.                                      *)
LEMMA BesideTable ==
  ASSUME NEW e \in Encoder, NEW t, NEW v, NEW f \in Field, f # t
  PROVE  /\ createTexture(Object(e, f)) \in Creations(e, {<<t, v>>}, {})
         /\ \A g \in Shader :
              createComputePsoFromFile(Object(e, f), g) \in Creations(e, {<<t, v>>}, {})
<1>1. Other({<<t, v>>}, f)
  BY DEF Other
<1> QED
  BY <1>1, InCreations, CreationMembers

(* One such generation.                                                    *)
LEMMA BesideTableGoes ==
  ASSUME NEW e \in Encoder, NEW r, NEW t, NEW v, NEW f \in Field, f # t,
         NEW c \in Creation(e, f)
  PROVE  Goes(e, r, Newly({<<t, v>>}, {}), c, Newly({<<t, v>>}, {}))
<1>1. Other({<<t, v>>}, f)
  BY DEF Other
<1> QED
  BY <1>1, CreateGoes

(* Generations at the start.                                               *)
LEMMA AtFirst ==
  ASSUME NEW e \in Encoder, NEW f \in Field
  PROVE  /\ createTexture(Object(e, f)) \in Creations(e, {}, {})
         /\ \A g \in Shader :
              createComputePsoFromFile(Object(e, f), g) \in Creations(e, {}, {})
         /\ \A r : \A c \in Creation(e, f) : Goes(e, r, Newly({}, {}), c, Newly({}, {}))
<1>1. Other({}, f)
  BY DEF Other
<1> QED
  BY <1>1, InCreations, CreationMembers, CreateGoes

(* EncoderBC1::initResources.                                              *)
LEMMA BC1_initYields ==
  ASSUME NEW e \in Encoder, NEW r \in Request, UsesBC1(r)
  PROVE  Yields(e, r, BC1_initResources(e, r), Newly({}, {}), Resting(e, r))
<1> DEFINE F == Newly({}, {})
           T == Bc1Table
           M == Newly(T, {})
           S == Creations(e, T, {})
           H == WithPicture(e, T)
           G == Newly(H, {"m_srcTexture"})
           c1 == createTexture(Object(e, "m_srcTexture"))
           c2 == createTexture(Object(e, "m_bc1TargetRes"))
           c3 == createTexture(Object(e, "m_dstTexture"))
           c4 == createUavBuffer(Object(e, "m_bc1TablesSsbo"), "bc1_tables")
           c5 == createComputePsoFromFile(Object(e, "m_bc1Pso"),
                   IF r.dither THEN "bc1_dither.glsl" ELSE "bc1.glsl")
           a1 == <<c1, c2, c3, c4, c5>>
           a2 == <<createTexture(Object(e, "m_bc4TargetRes")),
                   createTexture(Object(e, "m_stitchedTarget")),
                   createComputePsoFromFile(Object(e, "m_bc4Pso"), "bc4.glsl"),
                   createComputePsoFromFile(Object(e, "m_stitchPso"),
                                            "etc2_rgba_stitch.glsl")>>
           a3 == <<destroy(Object(e, "stagingTex"))>>
           s == a1 \o When(useBC3(r), a2)
<1>1. Goes(e, r, F, c1, F) /\ Goes(e, r, F, c2, F) /\ Goes(e, r, F, c3, F)
  <2>1. /\ "m_srcTexture" \in Field /\ "m_bc1TargetRes" \in Field /\ "m_dstTexture" \in Field
    BY DEF Field
  <2>2. /\ c1 \in Creation(e, "m_srcTexture") /\ c2 \in Creation(e, "m_bc1TargetRes")
        /\ c3 \in Creation(e, "m_dstTexture")
    BY <2>1, CreationMembers
  <2> HIDE DEF c1, c2, c3, F
  <2> QED
    BY <2>1, <2>2, AtFirst DEF F
<1>2. Goes(e, r, F, c4, M)
  <2>1. "m_bc1TablesSsbo" \in Field \ {}
    BY DEF Field
  <2>2. c4 \in Creation(e, "m_bc1TablesSsbo")
    BY <2>1, CreationMembers
  <2>3. c4.value = Leaf("bc1_tables")
    BY DEF createUavBuffer
  <2> HIDE DEF c4
  <2> QED
    BY <2>1, <2>2, <2>3, TableCreated DEF Bc1Table
<1>3. Goes(e, r, M, c5, M)
  <2>1. "m_bc1Pso" \in Field /\ "m_bc1Pso" # "m_bc1TablesSsbo"
    BY DEF Field
  <2>2. (IF r.dither THEN "bc1_dither.glsl" ELSE "bc1.glsl") \in Shader
    BY DEF Shader
  <2>3. c5 \in Creation(e, "m_bc1Pso")
    BY <2>1, <2>2, CreationMembers
  <2> HIDE DEF c5
  <2> QED
    BY <2>1, <2>3, BesideTableGoes DEF Bc1Table
<1>4. a2 \in Seq(S)
  <2>1. /\ createComputePsoFromFile(Object(e, "m_bc4Pso"), "bc4.glsl") \in S
        /\ createComputePsoFromFile(Object(e, "m_stitchPso"), "etc2_rgba_stitch.glsl") \in S
        /\ createTexture(Object(e, "m_bc4TargetRes")) \in S
        /\ createTexture(Object(e, "m_stitchedTarget")) \in S
    BY BesideTable DEF Field, Shader, Bc1Table
  <2> HIDE DEF S
  <2> QED
    BY <2>1
<1>5. BC1_initResources(e, r) = s \o uploadSource(e) \o a3
  BY DEF BC1_initResources
<1>6. Other(T, "m_srcTexture") /\ Other(T, "stagingTex")
  BY DEF Other, Bc1Table
<1>7. Base(e, r) \subseteq H
  BY OneEncoder DEF Base, WithPicture, Has00, Bc1Table
<1>8. useBC3(r) \in BOOLEAN
  BY DEF useBC3
<1> HIDE DEF F, T, M, S, H, c1, c2, c3, c4, c5, a2, a3
<1>9. Yields(e, r, a1, F, M)
  BY <1>1, <1>2, <1>3, GoesFive
<1> HIDE DEF a1
<1>10. Yields(e, r, a2, M, M)
  BY <1>4, CreationsYield DEF S, M
<1>11. Yields(e, r, When(useBC3(r), a2), M, M)
  BY <1>8, <1>10, YieldsWhen
<1>12. Yields(e, r, s, F, M)
  BY <1>9, <1>11, YieldsOn
<1> HIDE DEF s
<1>13. Yields(e, r, s \o uploadSource(e) \o a3, F, G)
  BY <1>6, <1>12, UploadYields DEF M, H, a3
<1>14. Resting(e, r) \subseteq G
  BY <1>7, NewlyRests
<1> HIDE DEF G
<1> QED
  BY <1>5, <1>13, <1>14, YieldsWeaker DEF F

-----------------------------------------------------------------------------
(* What EncoderETC1 generates last, and uploads.                           *)
EtcNewly(e) == Newly(WithPicture(e, Etc1Table), {"m_srcTexture"})

(* The dither textures and the targets of EncoderETC1::initResources.      *)
LEMMA EtcFirst ==
  ASSUME NEW e \in Encoder, NEW r \in Request
  PROVE  Yields(e, r, <<createTexture(Object(e, "m_srcTexture"))>>
                      \o When(r.dither,
                           <<createTexture(Object(e, "m_ditheredTexture")),
                             createComputePsoFromFile(Object(e, "m_ditherPso"),
                                                      "dither555.glsl")>>)
                      \o <<createTexture(Object(e, "m_compressTargetRes"))>>
                      \o When(forEtc2(r), <<createTexture(Object(e, "m_etc1Error"))>>),
                Newly({}, {}), Newly({}, {}))
<1> DEFINE S == Creations(e, {}, {})
           a1 == <<createTexture(Object(e, "m_srcTexture"))>>
           a2 == <<createTexture(Object(e, "m_ditheredTexture")),
                   createComputePsoFromFile(Object(e, "m_ditherPso"), "dither555.glsl")>>
           a3 == <<createTexture(Object(e, "m_compressTargetRes"))>>
           a4 == <<createTexture(Object(e, "m_etc1Error"))>>
<1>1. \A f \in Field : createTexture(Object(e, f)) \in S
  BY AtFirst
<1>2. \A f \in Field, g \in Shader : createComputePsoFromFile(Object(e, f), g) \in S
  BY AtFirst
<1> HIDE DEF S
<1>3. a1 \in Seq(S) /\ a3 \in Seq(S) /\ a4 \in Seq(S)
  BY <1>1 DEF Field
<1>4. a2 \in Seq(S)
  <2>1. /\ createComputePsoFromFile(Object(e, "m_ditherPso"), "dither555.glsl") \in S
        /\ createTexture(Object(e, "m_ditheredTexture")) \in S
    BY <1>1, <1>2 DEF Field, Shader
  <2> QED
    BY <2>1
<1> HIDE DEF a1, a2, a3, a4
<1>5. a1 \o When(r.dither, a2) \o a3 \o When(forEtc2(r), a4) \in Seq(S)
  BY <1>3, <1>4, ConcatProperties DEF When
<1>6. Yields(e, r, a1 \o When(r.dither, a2) \o a3 \o When(forEtc2(r), a4),
             Newly({}, {}), Newly({}, {}))
  <2> DEFINE s == a1 \o When(r.dither, a2) \o a3 \o When(forEtc2(r), a4)
  <2> HIDE DEF s
  <2> QED
    BY <1>5, CreationsYield DEF S, s
<1> QED
  BY <1>6 DEF a1, a2, a3, a4

(* Its table and its program.                                              *)
LEMMA EtcTableYields ==
  ASSUME NEW e \in Encoder, NEW r \in Request
  PROVE  Yields(e, r, <<createTexture(Object(e, "m_dstTexture")),
                        createUavBuffer(Object(e, "m_etc1TablesSsbo"), "etc1_tables"),
                        createComputePsoFromFile(Object(e, "m_compressPso"),
                          IF forEtc2(r) THEN "etc1_with_error.glsl" ELSE "etc1.glsl")>>,
                Newly({}, {}), Newly(Etc1Table, {}))
<1> DEFINE F == Newly({}, {})
           M == Newly(Etc1Table, {})
           c1 == createTexture(Object(e, "m_dstTexture"))
           c2 == createUavBuffer(Object(e, "m_etc1TablesSsbo"), "etc1_tables")
           c3 == createComputePsoFromFile(Object(e, "m_compressPso"),
                   IF forEtc2(r) THEN "etc1_with_error.glsl" ELSE "etc1.glsl")
<1>1. Goes(e, r, F, c1, F)
  <2>1. "m_dstTexture" \in Field
    BY DEF Field
  <2>2. c1 \in Creation(e, "m_dstTexture")
    BY <2>1, CreationMembers
  <2> HIDE DEF c1, F
  <2> QED
    BY <2>1, <2>2, AtFirst DEF F
<1>2. Goes(e, r, F, c2, M)
  <2>1. "m_etc1TablesSsbo" \in Field \ {}
    BY DEF Field
  <2>2. c2 \in Creation(e, "m_etc1TablesSsbo")
    BY <2>1, CreationMembers
  <2>3. c2.value = Leaf("etc1_tables")
    BY DEF createUavBuffer
  <2> HIDE DEF c2
  <2> QED
    BY <2>1, <2>2, <2>3, TableCreated DEF Etc1Table
<1>3. Goes(e, r, M, c3, M)
  <2>1. "m_compressPso" \in Field /\ "m_compressPso" # "m_etc1TablesSsbo"
    BY DEF Field
  <2>2. (IF forEtc2(r) THEN "etc1_with_error.glsl" ELSE "etc1.glsl") \in Shader
    BY DEF Shader
  <2>3. c3 \in Creation(e, "m_compressPso")
    BY <2>1, <2>2, CreationMembers
  <2> HIDE DEF c3
  <2> QED
    BY <2>1, <2>3, BesideTableGoes DEF Etc1Table
<1> HIDE DEF F, M, c1, c2, c3
<1>4. Yields(e, r, <<c1, c2, c3>>, F, M)
  BY <1>1, <1>2, <1>3, GoesThree
<1> QED
  BY <1>4 DEF F, M, c1, c2, c3

(* Its alpha targets.                                                      *)
LEMMA EtcAlphaYields ==
  ASSUME NEW e \in Encoder, NEW r \in Request
  PROVE  Yields(e, r, When(hasAlpha(r),
                        <<createTexture(Object(e, "m_eacTargetRes")),
                          createTexture(Object(e, "m_stitchedTarget")),
                          createComputePsoFromFile(Object(e, "m_eacPso"), "eac.glsl")>>
                        \o When(~forEtc2(r),
                             <<createComputePsoFromFile(Object(e, "m_stitchPso"),
                                                        "etc2_rgba_stitch.glsl")>>)),
                Newly(Etc1Table, {}), Newly(Etc1Table, {}))
<1> DEFINE S == Creations(e, Etc1Table, {})
           a1 == <<createTexture(Object(e, "m_eacTargetRes")),
                   createTexture(Object(e, "m_stitchedTarget")),
                   createComputePsoFromFile(Object(e, "m_eacPso"), "eac.glsl")>>
           a2 == <<createComputePsoFromFile(Object(e, "m_stitchPso"),
                                            "etc2_rgba_stitch.glsl")>>
           s == When(hasAlpha(r), a1 \o When(~forEtc2(r), a2))
<1>1. /\ createTexture(Object(e, "m_eacTargetRes")) \in S
      /\ createTexture(Object(e, "m_stitchedTarget")) \in S
      /\ createComputePsoFromFile(Object(e, "m_eacPso"), "eac.glsl") \in S
      /\ createComputePsoFromFile(Object(e, "m_stitchPso"), "etc2_rgba_stitch.glsl") \in S
  BY BesideTable DEF Field, Shader, Etc1Table
<1> HIDE DEF S
<1>2. a1 \in Seq(S) /\ a2 \in Seq(S)
  BY <1>1
<1> HIDE DEF a1, a2
<1>3. s \in Seq(S)
  BY <1>2, ConcatProperties DEF When
<1> HIDE DEF s
<1>4. Yields(e, r, s, Newly(Etc1Table, {}), Newly(Etc1Table, {}))
  BY <1>3, CreationsYield DEF S
<1> QED
  BY <1>4 DEF s, a1, a2

(* EncoderETC1::initResources.                                             *)
LEMMA EtcBaseYields ==
  ASSUME NEW e \in Encoder, NEW r \in Request
  PROVE  Yields(e, r, ETC1_initResources(e, r), Newly({}, {}), EtcNewly(e))
<1> DEFINE F == Newly({}, {})
           M == Newly(Etc1Table, {})
           s1 == <<createTexture(Object(e, "m_srcTexture"))>>
                 \o When(r.dither,
                      <<createTexture(Object(e, "m_ditheredTexture")),
                        createComputePsoFromFile(Object(e, "m_ditherPso"),
                                                 "dither555.glsl")>>)
                 \o <<createTexture(Object(e, "m_compressTargetRes"))>>
                 \o When(forEtc2(r), <<createTexture(Object(e, "m_etc1Error"))>>)
           s2 == <<createTexture(Object(e, "m_dstTexture")),
                   createUavBuffer(Object(e, "m_etc1TablesSsbo"), "etc1_tables"),
                   createComputePsoFromFile(Object(e, "m_compressPso"),
                     IF forEtc2(r) THEN "etc1_with_error.glsl" ELSE "etc1.glsl")>>
           s3 == When(hasAlpha(r),
                   <<createTexture(Object(e, "m_eacTargetRes")),
                     createTexture(Object(e, "m_stitchedTarget")),
                     createComputePsoFromFile(Object(e, "m_eacPso"), "eac.glsl")>>
                   \o When(~forEtc2(r),
                        <<createComputePsoFromFile(Object(e, "m_stitchPso"),
                                                   "etc2_rgba_stitch.glsl")>>))
           s4 == <<destroy(Object(e, "stagingTex"))>>
           s == s1 \o s2 \o s3
<1>1. ETC1_initResources(e, r) = s \o uploadSource(e) \o s4
  BY DEF ETC1_initResources
<1>2. Yields(e, r, s1, F, F)
  BY EtcFirst
<1>3. Yields(e, r, s2, F, M)
  BY EtcTableYields
<1>4. Yields(e, r, s3, M, M)
  BY EtcAlphaYields
<1> HIDE DEF F, M, s1, s2, s3, s4
<1>5. Yields(e, r, s, F, M)
  BY <1>2, <1>3, <1>4, YieldsOn
<1> HIDE DEF s
<1>6. Other(Etc1Table, "m_srcTexture") /\ Other(Etc1Table, "stagingTex")
  BY DEF Other, Etc1Table
<1>7. Yields(e, r, s \o uploadSource(e) \o s4, F, EtcNewly(e))
  BY <1>5, <1>6, UploadYields DEF M, s4, EtcNewly
<1> QED
  BY <1>1, <1>7 DEF F

(* It leaves what the loop of both encoders starts from.                   *)
LEMMA EtcRests ==
  ASSUME NEW e, NEW r, Has00(r)
  PROVE  Resting(e, r) \subseteq EtcNewly(e)
<1> DEFINE H == WithPicture(e, Etc1Table)
<1>1. ~UsesBC1(r)
  BY OneEncoder DEF Has00
<1>2. Base(e, r) \subseteq H
  BY <1>1 DEF Base, WithPicture, Etc1Table
<1> HIDE DEF H
<1> QED
  BY <1>2, NewlyRests DEF EtcNewly, H

(* EncoderETC2 generates the rest.                                         *)
LEMMA ETC2_initYields ==
  ASSUME NEW e \in Encoder, NEW r \in Request, UsesETC2(r)
  PROVE  Yields(e, r, ETC2_initResources(e, r), Newly({}, {}), Resting(e, r))
<1> DEFINE H == WithPicture(e, Etc1Table)
           S == Creations(e, H, {"m_srcTexture"})
           b1 == <<createTexture(Object(e, "m_thModesTargetRes")),
                   createTexture(Object(e, "m_thModesError")),
                   createTextureArray(Object(e, "m_thModesC0C1")),
                   createTexture(Object(e, "m_pModeTargetRes")),
                   createTexture(Object(e, "m_pModeError")),
                   createComputePsoFromFile(Object(e, "m_thModesPso"), "etc2_th.glsl"),
                   createComputePsoFromFile(Object(e, "m_thModesFindBestC0C1"),
                                            "etc2_th_find_best_c0c1_k_means.glsl"),
                   createComputePsoFromFile(Object(e, "m_pModePso"), "etc2_p.glsl"),
                   createComputePsoFromFile(Object(e, "m_stitchPso"),
                     IF hasAlpha(r) THEN "etc2_rgba_selector.glsl"
                                    ELSE "etc2_rgb_selector.glsl")>>
           D == {"m_srcTexture", "m_etc1TablesSsbo"}
<1>1. \A f \in Field \ D : Other(H, f)
  BY DEF Other, WithPicture, Etc1Table
<1> HIDE DEF H
<1>2. \A f \in Field \ D : \A c \in Creation(e, f) : c \in S
  BY <1>1, InCreations
<1>3. \A f \in Field \ D : /\ createTexture(Object(e, f)) \in S
                           /\ createTextureArray(Object(e, f)) \in S
  BY <1>2, CreationMembers
<1>4. \A f \in Field \ D, g \in Shader : createComputePsoFromFile(Object(e, f), g) \in S
  BY <1>2, CreationMembers
<1> HIDE DEF S
<1>5. /\ createTexture(Object(e, "m_thModesTargetRes")) \in S
      /\ createTexture(Object(e, "m_thModesError")) \in S
      /\ createTextureArray(Object(e, "m_thModesC0C1")) \in S
      /\ createTexture(Object(e, "m_pModeTargetRes")) \in S
      /\ createTexture(Object(e, "m_pModeError")) \in S
  BY <1>3 DEF Field
<1>6. /\ createComputePsoFromFile(Object(e, "m_thModesPso"), "etc2_th.glsl") \in S
      /\ createComputePsoFromFile(Object(e, "m_thModesFindBestC0C1"),
                                  "etc2_th_find_best_c0c1_k_means.glsl") \in S
      /\ createComputePsoFromFile(Object(e, "m_pModePso"), "etc2_p.glsl") \in S
  BY <1>4 DEF Field, Shader
<1>7. createComputePsoFromFile(Object(e, "m_stitchPso"),
        IF hasAlpha(r) THEN "etc2_rgba_selector.glsl" ELSE "etc2_rgb_selector.glsl") \in S
  <2>1. (IF hasAlpha(r) THEN "etc2_rgba_selector.glsl" ELSE "etc2_rgb_selector.glsl")
          \in Shader
    BY DEF Shader
  <2>2. "m_stitchPso" \in Field \ D
    BY DEF Field
  <2> QED
    BY <1>4, <2>1, <2>2
<1>8. b1 \in Seq(S)
  BY <1>5, <1>6, <1>7
<1>9. ETC2_initResources(e, r) = ETC1_initResources(e, r) \o b1
  BY DEF ETC2_initResources
<1> HIDE DEF b1
<1>10. Yields(e, r, b1, EtcNewly(e), EtcNewly(e))
  BY <1>8, CreationsYield DEF S, EtcNewly, H
<1>11. Yields(e, r, ETC1_initResources(e, r) \o b1, Newly({}, {}), EtcNewly(e))
  BY <1>10, EtcBaseYields, YieldsOn
<1>12. Resting(e, r) \subseteq EtcNewly(e)
  BY EtcRests DEF Has00
<1> QED
  BY <1>9, <1>11, <1>12, YieldsWeaker

-----------------------------------------------------------------------------
(* The requests whose file is known: EncoderETC2's selectors need a driver *)
(* that lets them load what they bound for writing.                        *)
Clean(r) == Known(r) /\ Careful(r) /\ (UsesETC2(r) => ~ImageAccessIsEnforced)

(* What an encoder's objects hold when main calls a method.                *)
HeldAt(e, r, s) ==
  CASE s = "execute00" -> Base(e, r)
    [] s = "execute01" -> IF UsesETC1(r) THEN Dithered(e, r)
                          ELSE IF UsesETC2(r) THEN Searched(e, r) ELSE Base(e, r)
    [] s = "execute02" -> IF UsesETC1(r) THEN Base(e, r) \cup Etc1Parts(e, r)
                          ELSE IF UsesETC2(r)
                            THEN Base(e, r) \cup ErrorParts(e, r) \cup ModeParts(e, r)
                          ELSE IF UsesBC1(r) THEN Base(e, r) \cup Bc1Parts(e, r)
                          ELSE Base(e, r) \cup Bc4Parts(e, r)
    [] OTHER -> Outcome(e, r)
FactsAt(e, r, s) ==
  CASE s = "initResources" -> Newly({}, {})
    [] s \in {"downloadTo", "save"} -> Delivery(e, r)
    [] s \in {"deinitResources", "done"} -> {}
    [] OTHER -> Facts({}, HeldAt(e, r, s), Idles)

(* At the stages of the loop.                                              *)
LEMMA FactsAtStages ==
  ASSUME NEW e, NEW r
  PROVE  /\ FactsAt(e, r, "initResources") = Newly({}, {})
         /\ FactsAt(e, r, "execute00") = Resting(e, r)
         /\ FactsAt(e, r, "execute01") = Facts({}, HeldAt(e, r, "execute01"), Idles)
         /\ FactsAt(e, r, "execute02") = Facts({}, HeldAt(e, r, "execute02"), Idles)
         /\ FactsAt(e, r, "execute03") = Facts({}, Outcome(e, r), Idles)
         /\ FactsAt(e, r, "startDownload") = Facts({}, Outcome(e, r), Idles)
         /\ FactsAt(e, r, "downloadTo") = Delivery(e, r)
         /\ FactsAt(e, r, "save") = Delivery(e, r)
         /\ FactsAt(e, r, "deinitResources") = {}
         /\ FactsAt(e, r, "done") = {}
BY DEF FactsAt, HeldAt, Resting

(* What is held by codec.                                                  *)
LEMMA HeldByCodec ==
  ASSUME NEW e, NEW r
  PROVE  /\ UsesETC1(r) =>
              /\ HeldAt(e, r, "execute01") = Dithered(e, r)
              /\ HeldAt(e, r, "execute02") = Base(e, r) \cup Etc1Parts(e, r)
         /\ UsesETC2(r) =>
              /\ HeldAt(e, r, "execute01") = Searched(e, r)
              /\ HeldAt(e, r, "execute02")
                   = Base(e, r) \cup ErrorParts(e, r) \cup ModeParts(e, r)
         /\ UsesBC1(r) =>
              /\ HeldAt(e, r, "execute01") = Base(e, r)
              /\ HeldAt(e, r, "execute02") = Base(e, r) \cup Bc1Parts(e, r)
         /\ UsesBC4(r) =>
              /\ HeldAt(e, r, "execute01") = Base(e, r)
              /\ HeldAt(e, r, "execute02") = Base(e, r) \cup Bc4Parts(e, r)
BY OneEncoder DEF HeldAt

(* The loop starts from what does not change.                              *)
LEMMA LoopStartFacts ==
  ASSUME NEW e, NEW r, Known(r)
  PROVE  FactsAt(e, r, LoopStart(r)) = Resting(e, r)
<1>1. CASE Has00(r)
  BY <1>1, FactsAtStages DEF LoopStart
<1>2. CASE ~Has00(r)
  BY <1>2, FactsAtStages DEF LoopStart, HeldAt, Has00, Resting
<1> QED
  BY <1>1, <1>2

(* initResources.                                                          *)
LEMMA InitYields ==
  ASSUME NEW e \in Encoder, NEW r \in Request, Known(r)
  PROVE  Yields(e, r, InitResourcesCalls(e, r), Newly({}, {}), Resting(e, r))
<1>1. CASE UsesETC1(r)
  <2>1. Resting(e, r) \subseteq EtcNewly(e)
    BY <1>1, EtcRests DEF Has00
  <2>2. Yields(e, r, ETC1_initResources(e, r), Newly({}, {}), Resting(e, r))
    BY <2>1, EtcBaseYields, YieldsWeaker
  <2> QED
    BY <1>1, <2>2, OneEncoder DEF InitResourcesCalls
<1>2. CASE UsesETC2(r)
  BY <1>2, OneEncoder, ETC2_initYields DEF InitResourcesCalls
<1>3. CASE UsesBC1(r)
  BY <1>3, OneEncoder, BC1_initYields DEF InitResourcesCalls
<1>4. CASE UsesBC4(r)
  BY <1>4, OneEncoder, BC4_initYields DEF InitResourcesCalls
<1> QED
  BY <1>1, <1>2, <1>3, <1>4 DEF Known

(* The first step, of the ETC encoders.                                    *)
LEMMA Execute00Yields ==
  ASSUME NEW e \in Encoder, NEW r \in Request, Has00(r)
  PROVE  Yields(e, r, IF UsesETC1(r) THEN ETC1_execute00(e, r) ELSE ETC2_execute00(e, r),
                FactsAt(e, r, "execute00"), FactsAt(e, r, "execute01"))
<1>1. CASE UsesETC1(r)
  BY <1>1, ETC1_execute00Yields, FactsAtStages DEF HeldAt, Resting
<1>2. CASE UsesETC2(r)
  BY <1>2, OneEncoder, ETC2_execute00Yields, FactsAtStages DEF HeldAt, Resting
<1> QED
  BY <1>1, <1>2 DEF Has00

(* The second.                                                             *)
LEMMA Execute01Yields ==
  ASSUME NEW e \in Encoder, NEW r \in Request, Clean(r)
  PROVE  Yields(e, r, Execute01Calls(e, r),
                FactsAt(e, r, "execute01"), FactsAt(e, r, "execute02"))
<1>1. CASE UsesETC1(r)
  <2>1. Execute01Calls(e, r) = ETC1_execute01(e, r)
    BY <1>1, OneEncoder DEF Execute01Calls
  <2> QED
    BY <1>1, <2>1, ETC1_execute01Yields, FactsAtStages, HeldByCodec
<1>2. CASE UsesETC2(r)
  <2>1. Execute01Calls(e, r) = ETC2_execute01(e, r)
    BY <1>2, OneEncoder DEF Execute01Calls
  <2>2. ~ImageAccessIsEnforced
    BY <1>2 DEF Clean
  <2> QED
    BY <1>2, <2>1, <2>2, ETC2_execute01Yields, FactsAtStages, HeldByCodec
<1>3. CASE UsesBC1(r)
  <2>1. Execute01Calls(e, r) = BC1_execute01(e, r)
    BY <1>3, OneEncoder DEF Execute01Calls
  <2> QED
    BY <1>3, <2>1, BC1_execute01Yields, FactsAtStages, HeldByCodec
<1>4. CASE UsesBC4(r)
  <2>1. Execute01Calls(e, r) = BC4_execute01(e, r)
    BY <1>4, OneEncoder DEF Execute01Calls
  <2> QED
    BY <1>4, <2>1, BC4_execute01Yields, FactsAtStages, HeldByCodec
<1> QED
  BY <1>1, <1>2, <1>3, <1>4 DEF Clean, Known

(* The third.                                                              *)
LEMMA Execute02Yields ==
  ASSUME NEW e \in Encoder, NEW r \in Request, Clean(r)
  PROVE  Yields(e, r, Execute02Calls(e, r),
                FactsAt(e, r, "execute02"), Facts({}, Outcome(e, r), Idles))
<1>1. CASE UsesETC1(r)
  <2>1. Execute02Calls(e, r) = ETC1_execute02(e, r)
    BY <1>1, OneEncoder DEF Execute02Calls
  <2> QED
    BY <1>1, <2>1, ETC1_execute02Yields, FactsAtStages, HeldByCodec
<1>2. CASE UsesETC2(r)
  <2>1. Execute02Calls(e, r) = ETC2_execute02(e, r)
    BY <1>2, OneEncoder DEF Execute02Calls
  <2>2. ~ImageAccessIsEnforced
    BY <1>2 DEF Clean
  <2> QED
    BY <1>2, <2>1, <2>2, ETC2_execute02Yields, FactsAtStages, HeldByCodec
<1>3. CASE UsesBC1(r)
  <2>1. Execute02Calls(e, r) = BC1_execute02(e, r)
    BY <1>3, OneEncoder DEF Execute02Calls
  <2> QED
    BY <1>3, <2>1, BC1_execute02Yields, FactsAtStages, HeldByCodec
<1>4. CASE UsesBC4(r)
  <2>1. Execute02Calls(e, r) = BC4_execute02(e, r)
    BY <1>4, OneEncoder DEF Execute02Calls
  <2> QED
    BY <1>4, <2>1, BC4_execute02Yields, FactsAtStages, HeldByCodec
<1> QED
  BY <1>1, <1>2, <1>3, <1>4 DEF Clean, Known

(* The fourth, under RenderDoc: the copy keeps the result.                 *)
LEMMA Execute03Yields ==
  ASSUME NEW e \in Encoder, NEW r \in Request, Clean(r), r.usingRenderDoc
  PROVE  Yields(e, r, Execute03Calls(e, r), Facts({}, Outcome(e, r), Idles),
                Facts({}, Outcome(e, r), Idles))
<1> DEFINE H == Outcome(e, r)
<1>1. Clear(H, PeekFields)
  <2>1. ResultField(r) \notin PeekFields
    BY DEF ResultField, ETC2_resultTexture, BC1_resultTexture, BC4_resultTexture, PeekFields
  <2>2. \A p \in Base(e, r) : p[1] \notin PeekFields
    BY DEF Base, PeekFields
  <2> QED
    BY <2>1, <2>2 DEF Outcome, Clear
<1>2. ~UsesETC2(r)
  BY DEF Clean, Careful
<1> HIDE DEF H
<1>3. CASE UsesETC1(r)
  <2>1. "m_compressTargetRes" \in Field \ BufferField
    BY DEF Field, BufferField
  <2> QED
    BY <1>1, <1>3, <2>1, OneEncoder, PeekYields DEF Execute03Calls, ETC1_execute03, H
<1>4. CASE UsesBC1(r)
  <2>1. BC1_resultTexture(r) \in Field \ BufferField
    BY DEF BC1_resultTexture, Field, BufferField
  <2> QED
    BY <1>1, <1>4, <2>1, OneEncoder, CopyYields DEF Execute03Calls, BC1_execute03, H
<1>5. CASE UsesBC4(r)
  <2>1. BC4_resultTexture(r) \in Field \ BufferField
    BY DEF BC4_resultTexture, Field, BufferField
  <2> QED
    BY <1>1, <1>5, <2>1, OneEncoder, CopyYields DEF Execute03Calls, BC4_execute03, H
<1> QED
  BY <1>2, <1>3, <1>4, <1>5 DEF Clean, Known

-----------------------------------------------------------------------------
(* A method makes of what is known at its stage what is known at the next. *)
LEMMA MethodYields ==
  ASSUME TypeInvariant, NEW d \in Encoder, Method(d), StageFits(d), LoopFits(d),
         Clean(request[d])
  PROVE  Yields(d, request[d], calls', FactsAt(d, request[d], stage[d]),
                FactsAt(d, request[d], stage'[d]))
<1> DEFINE r == request[d]
           here == stage[d]
           there == stage'[d]
           O == Facts({}, Outcome(d, r), Idles)
<1>1. r \in Request /\ stage \in [Encoder -> Stages] /\ repeat \in [Encoder -> 0 .. 2]
  BY DEF TypeInvariant, TypeOK
<1>2. Known(r) /\ Has02(r) /\ Loops(r)
  BY OneEncoder DEF Clean, Known, Has02, Loops
<1>3. \A s : GoTo(d, s) => there = s
  BY <1>1 DEF GoTo
<1>4. Resting(d, r) \subseteq O
  <2>1. Base(d, r) \subseteq Outcome(d, r)
    BY DEF Outcome
  <2> QED
    BY <2>1, FewerFacts DEF Resting
<1>5. ASSUME EndOfIteration(d)
      PROVE  FactsAt(d, r, there) \subseteq O
  <2>1. there = "startDownload" \/ there = LoopStart(r)
    BY <1>3, <1>5 DEF EndOfIteration
  <2>2. CASE there = "startDownload"
    BY <2>2, FactsAtStages
  <2>3. CASE there = LoopStart(r)
    BY <1>2, <1>4, <2>3, LoopStartFacts
  <2> QED
    BY <2>1, <2>2, <2>3
<1> HIDE DEF O
<1>6. CASE InitResources(d)
  <2>1. here = "initResources" /\ calls' = InitResourcesCalls(d, r) /\ GoTo(d, LoopStart(r))
    BY <1>6 DEF InitResources, Enter
  <2>2. FactsAt(d, r, here) = Newly({}, {}) /\ FactsAt(d, r, there) = Resting(d, r)
    BY <1>2, <1>3, <2>1, FactsAtStages, LoopStartFacts
  <2> QED
    BY <1>1, <1>2, <2>1, <2>2, InitYields
<1>7. CASE Execute00(d)
  <2>1. /\ here = "execute00" /\ GoTo(d, "execute01")
        /\ calls' = IF UsesETC1(r) THEN ETC1_execute00(d, r) ELSE ETC2_execute00(d, r)
    BY <1>7 DEF Execute00, Enter
  <2>2. Has00(r) /\ there = "execute01"
    BY <1>3, <2>1 DEF StageFits
  <2> QED
    BY <1>1, <2>1, <2>2, Execute00Yields
<1>8. CASE Execute01(d)
  <2>1. here = "execute01" /\ calls' = Execute01Calls(d, r) /\ GoTo(d, "execute02")
    BY <1>2, <1>8 DEF Execute01, Enter
  <2>2. there = "execute02"
    BY <1>3, <2>1
  <2> QED
    BY <1>1, <2>1, <2>2, Execute01Yields
<1>9. CASE Execute02(d)
  <2>1. here = "execute02" /\ calls' = Execute02Calls(d, r)
    BY <1>9 DEF Execute02, Enter
  <2>2. FactsAt(d, r, there) \subseteq O
    <3>1. CASE r.usingRenderDoc /\ Loops(r)
      <4>1. GoTo(d, "execute03")
        BY <1>9, <3>1 DEF Execute02
      <4> QED
        BY <1>3, <4>1, FactsAtStages DEF O
    <3>2. CASE ~(r.usingRenderDoc /\ Loops(r))
      BY <1>5, <1>9, <3>2 DEF Execute02
    <3> QED
      BY <3>1, <3>2
  <2>3. Yields(d, r, Execute02Calls(d, r), FactsAt(d, r, "execute02"), O)
    BY <1>1, Execute02Yields DEF O
  <2> QED
    BY <2>1, <2>2, <2>3, YieldsWeaker
<1>10. CASE Execute03(d)
  <2>1. here = "execute03" /\ calls' = Execute03Calls(d, r) /\ EndOfIteration(d)
    BY <1>10 DEF Execute03, Enter
  <2>2. r.usingRenderDoc
    BY <1>1, <2>1, RequestFields DEF LoopFits
  <2>3. FactsAt(d, r, there) \subseteq O /\ FactsAt(d, r, here) = O
    BY <1>5, <2>1, FactsAtStages DEF O
  <2>4. Yields(d, r, Execute03Calls(d, r), O, O)
    BY <1>1, <2>2, Execute03Yields DEF O
  <2> QED
    BY <2>1, <2>3, <2>4, YieldsWeaker
<1>11. CASE StartDownload(d)
  <2>1. here = "startDownload" /\ calls' = StartDownloadCalls(d, r) /\ GoTo(d, "downloadTo")
    BY <1>11 DEF StartDownload, Enter
  <2>2. FactsAt(d, r, here) = O /\ FactsAt(d, r, there) = Delivery(d, r)
    BY <1>3, <2>1, FactsAtStages DEF O
  <2> QED
    BY <1>2, <2>1, <2>2, StartDownloadYields DEF O
<1>12. CASE DownloadTo(d)
  <2>1. here = "downloadTo" /\ calls' = <<glFinish>> /\ GoTo(d, "save")
    BY <1>12 DEF DownloadTo, Enter
  <2>2. FactsAt(d, r, here) = FactsAt(d, r, there)
    BY <1>3, <2>1, FactsAtStages
  <2> QED
    BY <2>1, <2>2, DownloadToYields
<1>13. CASE Save(d)
  <2>1. calls' = <<>> /\ GoTo(d, "deinitResources")
    BY <1>13 DEF Save, Enter
  <2>2. FactsAt(d, r, there) = {}
    BY <1>3, <2>1, FactsAtStages
  <2> QED
    BY <2>1, <2>2, YieldsNowhere
<1>14. CASE DeinitResources(d)
  <2>1. calls' = DeinitResourcesCalls(d, r) /\ GoTo(d, "done")
    BY <1>14 DEF DeinitResources, Enter
  <2>2. FactsAt(d, r, there) = {}
    BY <1>3, <2>1, FactsAtStages
  <2> QED
    BY <1>1, <2>1, <2>2, DeinitYields
<1> QED
  BY <1>6, <1>7, <1>8, <1>9, <1>10, <1>11, <1>12, <1>13, <1>14 DEF Method

-----------------------------------------------------------------------------
(* The GPU.                                                                *)

(* An operation the GPU may execute is independent of those before it, if  *)
(* every pair of conflicting operations is ordered.                        *)
LEMMA ExecutedIsIndependent ==
  ASSUME NEW s, NEW q, OrderedIn(s, q), OwnedIn(s), \A e \in Encoder : Careful(q[e]),
         NEW i, CanExecute(s, i), NEW j \in GpuOps(s), j < i
  PROVE  Independent(s[j], s[i])
<1>1. i \in GpuOps(s) /\ ~MustFollow(s, j, i)
  BY DEF CanExecute
<1>2. PICK d \in Encoder : Owns(d, s[i])
  BY <1>1 DEF OwnedIn
<1>3. ASSUME NEW b \in Conflicts(s, j, i) PROVE FALSE
  <2>1. b \in ReadsOf(s[i]) \cup WritesOf(s[i])
    BY DEF Conflicts
  <2>2. b.name[1] = d
    BY <1>2, <2>1 DEF Owns, Touched, Written
  <2>3. OrdersAccess(s, j, i, b)
    BY <1>1, <2>2 DEF OrderedIn
  <2> QED
    BY <1>1, <2>3 DEF MustFollow
<1>4. \A b \in ReadsOf(s[i]) : b.name \notin Written(s[j])
  BY <1>3 DEF Conflicts, Written
<1>5. \A b \in WritesOf(s[i]) : b.name \notin Touched(s[j])
  BY <1>3 DEF Conflicts, Written, Touched
<1>6. Written(s[j]) \cap Touched(s[i]) = {}
  BY <1>4, <1>5 DEF Written, Touched
<1>7. Written(s[i]) \cap Touched(s[j]) = {}
  BY <1>5 DEF Written
<1> QED
  BY <1>6, <1>7 DEF Independent

(* What the operations in flight touch are objects.                        *)
LEMMA TouchedAreObjects ==
  ASSUME NEW s \in Seq(GpuOp), NEW j \in GpuOps(s)
  PROVE  Touched(s[j]) \subseteq GLObject
<1>1. s[j] \in GpuOp /\ s[j].kind # "barrier"
  BY ElementOfSeq, LenProperties DEF GpuOps
<1>2. /\ s[j].in \in Seq(AccessTo(GLObject)) \ {<<>>}
      /\ s[j].out \in Stores({0}) \cup Stores({0, 1}) \cup Stores({0, 2})
  BY <1>1, OperationFields
<1>3. ASSUME NEW a \in ReadsOf(s[j]) PROVE a.name \in GLObject
  <2>1. PICK k \in DOMAIN s[j].in : a = s[j].in[k]
    BY DEF ReadsOf
  <2>2. a \in AccessTo(GLObject)
    BY <1>2, <2>1, ElementOfSeq, LenProperties
  <2> QED
    BY <2>2 DEF AccessTo
<1>4. ASSUME NEW a \in WritesOf(s[j]) PROVE a.name \in GLObject
  <2>1. PICK k \in DOMAIN s[j].out : a = s[j].out[k]
    BY DEF WritesOf
  <2>2. a \in AccessTo(GLObject)
    BY <1>2, <2>1 DEF Stores
  <2> QED
    BY <2>2 DEF AccessTo
<1> QED
  BY <1>3, <1>4 DEF Touched, Written

(* Whatever the GPU executes next, the queue will give what it would have. *)
LEMMA GPUGives ==
  ASSUME TypeOK, QueueFits(stream, request), \A e \in Encoder : Careful(request[e]), GPU,
         NEW G, QueueGives(mem, stream, G)
  PROVE  QueueGives(mem', stream', G)
<1>1. stream \in Seq(GpuOp)
  BY DEF TypeOK
<1>2. CASE RetireBarrier
  BY <1>1, <1>2, RetiredGives DEF RetireBarrier
<1>3. ASSUME NEW i \in DOMAIN stream, Execute(i) PROVE QueueGives(mem', stream', G)
  <2>1. /\ CanExecute(stream, i) /\ mem' = AfterOp(mem, stream[i])
        /\ stream' = Without(stream, i) /\ stream[i].kind # "barrier"
    BY <1>3 DEF Execute, CanExecute, GpuOps
  <2>2. Removed(stream, i, stream')
    <3>1. /\ Len(stream') = Len(stream) - 1 /\ DOMAIN stream' = 1 .. (Len(stream) - 1)
          /\ \A k \in DOMAIN stream' : stream'[k] = stream[Before(i, k)]
      BY <1>1, <2>1, WithoutPositions
    <3> QED
      BY <2>1, <3>1 DEF Removed
  <2>3. \A j \in GpuOps(stream) : Touched(stream[j]) \subseteq GLObject
    BY <1>1, TouchedAreObjects
  <2>4. ASSUME NEW j \in 1 .. (i - 1), stream[j].kind # "barrier"
        PROVE  Independent(stream[j], stream[i])
    <3>1. DOMAIN stream = 1 .. Len(stream) /\ Len(stream) \in Nat
      BY <1>1, LenProperties
    <3>2. j \in GpuOps(stream) /\ j < i
      BY <2>4, <3>1 DEF GpuOps
    <3> QED
      BY <2>1, <3>2, ExecutedIsIndependent DEF QueueFits
  <2> QED
    BY <1>1, <2>1, <2>2, <2>3, <2>4, RemovedGives
<1> QED
  BY <1>2, <1>3 DEF GPU

(* What nothing in flight uses stays unused.                               *)
LEMMA GPUUnused ==
  ASSUME TypeOK, GPU, NEW o, Unused(stream, o)
  PROVE  Unused(stream', o)
<1>1. PICK i \in DOMAIN stream : Removed(stream, i, stream')
  BY GPURemoves
<1>2. stream \in Seq(GpuOp)
  BY DEF TypeOK
<1>3. DOMAIN stream = 1 .. Len(stream) /\ Len(stream) \in Nat
  BY <1>2, LenProperties
<1>4. ASSUME NEW k \in GpuOps(stream')
      PROVE  \E j \in GpuOps(stream) : stream'[k] = stream[j]
  <2>1. /\ k \in 1 .. (Len(stream) - 1) /\ stream'[k] = stream[Before(i, k)]
        /\ stream'[k].kind # "barrier"
    BY <1>1 DEF Removed, GpuOps
  <2>2. Before(i, k) \in DOMAIN stream
    BY <1>3, <2>1 DEF Before
  <2> QED
    BY <2>1, <2>2 DEF GpuOps
<1> QED
  BY <1>4 DEF Unused

(* What is told stays true while the GPU executes.                         *)
LEMMA GPUTells ==
  ASSUME TypeOK, QueueFits(stream, request), GPU,
         NEW e \in Encoder, NEW F, NEW G, Tells(e, F, G)
  PROVE  Tells(e, F, G)'
<1>1. UNCHANGED <<request, ctx, uniform>>
  BY DEF GPU, RetireBarrier, Execute, context
<1>2. ASSUME NEW f \in ProgramField PROVE mem'[Object(e, f)] = mem[Object(e, f)]
  <2>1. CASE RetireBarrier
    BY <2>1 DEF RetireBarrier
  <2>2. ASSUME NEW i \in DOMAIN stream, Execute(i)
        PROVE  mem'[Object(e, f)] = mem[Object(e, f)]
    <3>1. i \in GpuOps(stream) /\ mem' = AfterOp(mem, stream[i])
      BY <2>2 DEF Execute, CanExecute
    <3>2. Object(e, f)[2] = f /\ Object(e, f) \in GLObject
      BY DEF Object, GLObject, ProgramField, Field
    <3>3. Object(e, f) \notin Written(stream[i])
      BY <3>1, <3>2 DEF QueueFits, ProgramsKeptIn
    <3>4. ~\E u \in DOMAIN stream[i].out : stream[i].out[u].name = Object(e, f)
      BY <3>3 DEF Written, WritesOf
    <3>5. Object(e, f) \in DOMAIN mem
      BY <3>2 DEF TypeOK
    <3> QED
      BY <3>1, <3>4, <3>5 DEF AfterOp
  <2> QED
    BY <2>1, <2>2 DEF GPU
<1>3. \A o : Unused(stream, o) => Unused(stream', o)
  BY GPUUnused
<1>4. ASSUME NEW x \in F
      PROVE  /\ x[1] = "bound" /\ x[2] \in Unit =>
                  /\ NameAt(ctx', x[2]) = HeldName(e, x[3])
                  /\ x[2] = pso /\ x[3] \in ProgramField
                       => mem'[Object(e, x[3])].fn = FileOf(request'[e], x[3])
             /\ x[1] = "holds" /\ x[2] \in Field => G[Object(e, x[2])] = x[3]
             /\ x[1] = "given" /\ x[2] \in ProgramField
                  => uniform'[Object(e, x[2])] = x[3]
             /\ x[1] = "spare" /\ x[2] \in Field => Unused(stream', Object(e, x[2]))
  BY <1>1, <1>2, <1>3 DEF Tells
<1> QED
  BY <1>4 DEF Tells

-----------------------------------------------------------------------------
(* What the memory will hold, of every encoder between two of its methods  *)
(* and of the one whose method runs once its calls are issued.             *)
FactsNow(e) == FactsAt(e, request[e], stage[e])
Told(e, G) == Tells(e, FactsNow(e), G)
Telling(d, G) ==
  \E A : Tells(d, A, G) /\ Yields(d, request[d], calls, A, FactsNow(d))
OneTells(G) == \E d \in Encoder : Telling(d, G) /\ \A e \in Encoder \ {d} : Told(e, G)
AllTold(G) == IF calls = <<>> THEN \A e \in Encoder : Told(e, G) ELSE OneTells(G)
Foretold == \E G : QueueGives(mem, stream, G) /\ AllTold(G)

OneIsEnough == \A G : OneTells(G) => AllTold(G)

(* With one method under way the schedule is as wanted.                    *)
LEMMA OneTellsAll == OneIsEnough
<1> SUFFICES ASSUME NEW G, OneTells(G) PROVE AllTold(G)
  BY DEF OneIsEnough
<1>1. PICK d \in Encoder : Telling(d, G) /\ \A e \in Encoder \ {d} : Told(e, G)
  BY DEF OneTells
<1>2. ASSUME calls = <<>> PROVE Told(d, G)
  <2>1. PICK A : Tells(d, A, G) /\ Yields(d, request[d], calls, A, FactsNow(d))
    BY <1>1 DEF Telling
  <2>2. Yields(d, request[d], <<>>, A, FactsNow(d))
    BY <1>2, <2>1
  <2>3. FactsNow(d) \subseteq A
    BY <2>2, YieldsNothing
  <2> QED
    BY <2>1, <2>3, ToldLess DEF Told
<1> QED
  BY <1>1, <1>2 DEF AllTold, OneTells

(* What is told of the others says nothing of the context.                 *)
LEMMA NoBindingsBetween ==
  ASSUME NEW e, NEW r, NEW s, NEW x \in FactsAt(e, r, s)
  PROVE  x[1] # "bound"
<1>1. ASSUME NEW H, NEW U, NEW y \in Facts({}, H, U) PROVE y[1] # "bound"
  BY <1>1 DEF Facts, Holds, Given, Spare
<1>2. ASSUME NEW y \in Newly({}, {}) PROVE y[1] # "bound"
  BY <1>2 DEF Newly, Holds, Given, Spare
<1>3. ASSUME NEW y \in Delivery(e, r) PROVE y[1] # "bound"
  BY <1>3 DEF Delivery, Holds
<1> QED
  BY <1>1, <1>2, <1>3 DEF FactsAt

(* A call of one encoder keeps what is told of another.                    *)
LEMMA OthersTold ==
  ASSUME NEW d, NEW e \in Encoder \ {d}, NEW G, NEW K, Told(e, G), Spares(d, G, K),
         UNCHANGED <<request, stage>>
  PROVE  Told(e, K)'
<1>1. FactsNow(e)' = FactsNow(e)
  BY DEF FactsNow
<1> DEFINE F == FactsNow(e)
<1>2. PICK E : E = F
  OBVIOUS
<1>3. \A x \in E : x[1] # "bound"
  BY <1>2, NoBindingsBetween DEF FactsNow
<1>4. Tells(e, E, G)
  BY <1>2 DEF Told
<1>5. ASSUME NEW x \in E
      PROVE  /\ x[1] = "holds" /\ x[2] \in Field => K[Object(e, x[2])] = x[3]
             /\ x[1] = "given" /\ x[2] \in ProgramField
                  => uniform'[Object(e, x[2])] = x[3]
             /\ x[1] = "spare" /\ x[2] \in Field => Unused(stream', Object(e, x[2]))
  BY <1>4 DEF Tells, Spares, ProgramField, Field
<1>6. Tells(e, E, K)'
  BY <1>3, <1>5 DEF Tells
<1>7. FactsNow(e)' = E
  BY <1>1, <1>2
<1> QED
  BY <1>6, <1>7 DEF Told

(* The program starts with no object stored to, read or given a uniform.   *)
LEMMA InitForetold == Init => Foretold
<1> SUFFICES ASSUME Init PROVE Foretold
  OBVIOUS
<1>1. /\ stream = <<>> /\ calls = <<>> /\ mem = [o \in GLObject |-> Undefined]
      /\ uniform = [o \in GLObject |-> <<>>]
      /\ \A e \in Encoder : stage[e] = "initResources"
  BY DEF Init
<1>2. IsMemory(mem)
  BY <1>1 DEF IsMemory
<1>3. QueueGives(mem, stream, mem)
  BY <1>1, <1>2, EmptyGives
<1>4. \A o : Unused(stream, o)
  BY <1>1 DEF Unused, GpuOps
<1>5. ASSUME NEW e \in Encoder PROVE Told(e, mem)
  <2>1. FactsNow(e) = Newly({}, {})
    BY <1>1, FactsAtStages DEF FactsNow
  <2>2. ASSUME NEW x \in Newly({}, {})
        PROVE  \/ x[1] = "given" /\ x[3] = <<>>
               \/ x[1] = "spare"
    BY DEF Newly, Given, Spare
  <2>3. \A f \in ProgramField : uniform[Object(e, f)] = <<>>
    BY <1>1 DEF Object, GLObject, ProgramField, Field
  <2>4. Tells(e, Newly({}, {}), mem)
    BY <1>4, <2>2, <2>3 DEF Tells
  <2> QED
    BY <2>1, <2>4 DEF Told
<1> QED
  BY <1>1, <1>3, <1>5 DEF Foretold, AllTold

(* A method starts from what is told at its stage.                         *)
LEMMA MethodForetold ==
  ASSUME TypeInvariant, LifetimeInvariant, \A e \in Encoder : LoopFits(e), Foretold,
         NEW d \in Encoder, Method(d), Clean(request[d])
  PROVE  Foretold'
<1>1. /\ calls = <<>> /\ UNCHANGED <<request, ctx, uniform, mem, stream>>
      /\ \A e \in Encoder \ {d} : stage'[e] = stage[e]
  <2>1. stage \in [Encoder -> Stages]
    BY DEF TypeInvariant, TypeOK
  <2> QED
    BY <2>1 DEF Method, Enter, InitResources, Execute00, Execute01, Execute02, GoTo,
       Execute03, StartDownload, DownloadTo, Save, DeinitResources, EndOfIteration
<1>2. PICK G : QueueGives(mem, stream, G) /\ \A e \in Encoder : Told(e, G)
  BY <1>1 DEF Foretold, AllTold
<1>3. \A e, F : Tells(e, F, G) => Tells(e, F, G)'
  BY <1>1 DEF Tells
<1>4. StageFits(d) /\ LoopFits(d)
  BY <1>1 DEF LifetimeInvariant
<1>5. Yields(d, request[d], calls', FactsNow(d), FactsAt(d, request[d], stage'[d]))
  BY <1>4, MethodYields DEF FactsNow
<1>6. PICK A : A = FactsNow(d)
  OBVIOUS
<1>7. Telling(d, G)'
  <2>1. Tells(d, A, G)'
    BY <1>2, <1>3, <1>6 DEF Told
  <2>2. Yields(d, request[d], calls, A, FactsNow(d))'
    BY <1>1, <1>5, <1>6 DEF FactsNow
  <2> QED
    BY <2>1, <2>2 DEF Telling
<1>8. ASSUME NEW e \in Encoder \ {d} PROVE Told(e, G)'
  <2>1. PICK E : E = FactsNow(e)
    OBVIOUS
  <2>2. FactsNow(e)' = E
    BY <1>1, <2>1 DEF FactsNow
  <2>3. Tells(e, E, G)'
    BY <1>2, <1>3, <2>1 DEF Told
  <2> QED
    BY <2>2, <2>3 DEF Told
<1>9. OneTells(G)'
  BY <1>7, <1>8 DEF OneTells
<1>10. AllTold(G)'
  <2>1. OneIsEnough'
    BY OneTellsAll, PTL
  <2> QED
    BY <1>9, <2>1 DEF OneIsEnough
<1>11. QueueGives(mem, stream, G)'
  BY <1>1, <1>2
<1> QED
  BY <1>10, <1>11 DEF Foretold

(* A call leaves what the next one starts from.                            *)
LEMMA IssueForetold ==
  ASSUME TypeInvariant, LifetimeInvariant, ProgramsFit, Foretold, IssueCall
  PROVE  Foretold'
<1>1. /\ calls # <<>> /\ calls' = Tail(calls) /\ UNCHANGED <<request, stage, repeat>>
  BY DEF IssueCall, Issue, IssueCreate, IssueDestroy, IssueBind, IssueUniform,
     IssueDispatch, IssueUpload, IssueDownload, IssueCopy, IssueBarrier, IssueFinish
<1>2. PICK G : QueueGives(mem, stream, G) /\ OneTells(G)
  BY <1>1 DEF Foretold, AllTold
<1>3. PICK d \in Encoder : Telling(d, G) /\ \A e \in Encoder \ {d} : Told(e, G)
  BY <1>2 DEF OneTells
<1>4. PICK A : Tells(d, A, G) /\ Yields(d, request[d], calls, A, FactsNow(d))
  BY <1>3 DEF Telling
<1>5. PICK C, B : /\ B \subseteq A /\ CallTells(d, request[d], B, Head(calls), C)
                  /\ Yields(d, request[d], Tail(calls), C, FactsNow(d))
  BY <1>1, <1>4, YieldsRest
<1>6. call \in OwnCall(d)
  <2>1. calls \in Seq(OwnCall(d))
    BY <1>4 DEF Yields
  <2> QED
    BY <1>1, <2>1, HeadTailProperties DEF call
<1>7. Tells(d, B, G) /\ CallTells(d, request[d], B, call, C)
  BY <1>4, <1>5, ToldLess DEF call
<1>8. CallsNameLiveObjects
  BY NamesAreLive
<1>9. CallGives(d, G, C)
  BY <1>1, <1>2, <1>6, <1>7, <1>8, CallComputes DEF TypeInvariant
<1>10. PICK K : QueueGives(mem', stream', K) /\ Tells(d, C, K)' /\ Spares(d, G, K)
  BY <1>9 DEF CallGives
<1>11. Telling(d, K)'
  <2>1. Yields(d, request[d], calls, C, FactsNow(d))'
    BY <1>1, <1>5 DEF FactsNow
  <2> QED
    BY <1>10, <2>1 DEF Telling
<1>12. \A e \in Encoder \ {d} : Told(e, K)'
  BY <1>1, <1>3, <1>10, OthersTold
<1>13. OneTells(K)'
  BY <1>11, <1>12 DEF OneTells
<1>14. AllTold(K)'
  <2>1. OneIsEnough'
    BY OneTellsAll, PTL
  <2> QED
    BY <1>13, <2>1 DEF OneIsEnough
<1> QED
  BY <1>10, <1>14 DEF Foretold

(* The GPU executes what was told.                                         *)
LEMMA GPUForetold ==
  ASSUME TypeInvariant, QueueFits(stream, request),
         \A e \in Encoder : Careful(request[e]), Foretold, GPU
  PROVE  Foretold'
<1>1. UNCHANGED <<request, stage, repeat, calls, ctx>>
  BY DEF GPU, RetireBarrier, Execute, context
<1>2. PICK G : QueueGives(mem, stream, G) /\ AllTold(G)
  BY DEF Foretold
<1>3. QueueGives(mem', stream', G)
  BY <1>2, GPUGives DEF TypeInvariant
<1>4. \A e \in Encoder : \A F : Tells(e, F, G) => Tells(e, F, G)'
  BY GPUTells DEF TypeInvariant
<1>5. ASSUME NEW e \in Encoder PROVE Told(e, G) => Told(e, G)'
  <2>1. PICK E : E = FactsNow(e)
    OBVIOUS
  <2>2. FactsNow(e)' = E
    BY <1>1, <2>1 DEF FactsNow
  <2> QED
    BY <1>4, <2>1, <2>2 DEF Told
<1>6. ASSUME NEW d \in Encoder, Telling(d, G) PROVE Telling(d, G)'
  <2>1. PICK A : Tells(d, A, G) /\ Yields(d, request[d], calls, A, FactsNow(d))
    BY <1>6 DEF Telling
  <2>2. Tells(d, A, G)'
    BY <1>4, <2>1
  <2>3. Yields(d, request[d], calls, A, FactsNow(d))'
    BY <1>1, <2>1 DEF FactsNow
  <2> QED
    BY <2>2, <2>3 DEF Telling
<1>7. AllTold(G)'
  BY <1>1, <1>2, <1>5, <1>6 DEF AllTold, OneTells
<1> QED
  BY <1>3, <1>7 DEF Foretold

-----------------------------------------------------------------------------
(* The file.  Once glFinish has returned, the buffer that main saves holds *)
(* what the encoder is to deliver, and nothing to come changes it.         *)
Delivered(e) == [format |-> DownloadFormat(request[e]), data |-> FileData(e, request[e])]
Arrived(e) ==
  /\ mem[staging(e)] = FileData(e, request[e])
  /\ NotWritten(staging(e))
  /\ \A k \in DOMAIN calls : ~Generates(calls[k], staging(e))
SaveFits(e) ==
  stage[e] = "save" =>
    /\ outImage[e] = [format |-> DownloadFormat(request[e]), data |-> staging(e)]
    /\ calls = <<glFinish>> \/ Arrived(e)
FileFits(e) ==
  /\ stage[e] \notin {"deinitResources", "done"} => file[e] = NoFile
  /\ file[e] \in {NoFile, Delivered(e)}
DeliveryInvariant == Foretold /\ \A e \in Encoder : SaveFits(e) /\ FileFits(e)

(* An operation that joins the queue writes no object that no image unit   *)
(* holds and no transfer to come is to write.                              *)
LEMMA IssueUnwritten ==
  ASSUME TypeOK, IssueCall, NEW o, NotTargeted(o), NotWritten(o),
         \A u \in ImageUnits : ctx.img[u].name # o
  PROVE  NotWritten(o)'
<1>1. calls # <<>> => call \in Call(Encoder \X Field)
  BY IssuedCall
<1>2. ctx \in Context /\ Encoder \X Field \subseteq GLObject
  BY DEF TypeOK, Context, GLObject
<1>3. CASE UNCHANGED stream
  BY <1>3 DEF NotWritten
<1>4. CASE IssueDispatch /\ ~UNCHANGED stream
  <2> DEFINE op == DispatchOp(mem[ctx.pso].fn, uniform[ctx.pso], ctx)
  <2>1. op \in GpuOp
    BY <1>2, DispatchType DEF TypeOK, Context
  <2>2. \A a \in WritesOf(op) : a.name # o
    BY <1>2, DispatchWrites
  <2>3. Enqueue(op)
    BY <1>4 DEF IssueDispatch
  <2> HIDE DEF op
  <2> QED
    BY <2>1, <2>2, <2>3, EnqueueNotWritten
<1>5. ASSUME NEW op \in {"upload", "download", "copy"}, Issue(op),
             NEW fn \in Producer, NEW uni \in Seq(Int), NEW from \in Via, NEW to \in Via,
             Enqueue(ApiOp(fn, uni, from, call.src, to, call.dst))
      PROVE  NotWritten(o)'
  <2> DEFINE g == ApiOp(fn, uni, from, call.src, to, call.dst)
  <2>1. call.src \in GLObject /\ call.dst \in GLObject
    BY <1>1, <1>2, <1>5, CallFields DEF Issue
  <2>2. g \in GpuOp
    BY <2>1, ApiType
  <2>3. call.dst # o
    BY <1>5, TailFields DEF NotTargeted
  <2>4. \A a \in WritesOf(g) : a.name # o
    BY <2>3, ApiWrites
  <2>5. Enqueue(g)
    BY <1>5
  <2> HIDE DEF g
  <2> QED
    BY <2>2, <2>4, <2>5, EnqueueNotWritten
<1>6. CASE IssueUpload
  <2>1. <<>> \in Seq(Int) /\ "upload" \in Producer /\ {"upload", "unpack"} \subseteq Via
    BY DEF Producer, Via
  <2> QED
    BY <1>5, <1>6, <2>1 DEF IssueUpload
<1>7. CASE IssueDownload
  <2>1. call.bytes \in Nat
    BY <1>1, <1>7, CallFields DEF IssueDownload, Issue
  <2>2. /\ <<call.bytes>> \in Seq(Int) /\ "download" \in Producer
        /\ {"download", "pack"} \subseteq Via
    BY <2>1 DEF Producer, Via
  <2> QED
    BY <1>5, <1>7, <2>2 DEF IssueDownload
<1>8. CASE IssueCopy
  <2>1. <<>> \in Seq(Int) /\ "copy" \in Producer /\ "copy" \in Via
    BY DEF Producer, Via
  <2> QED
    BY <1>5, <1>8, <2>1 DEF IssueCopy
<1>9. CASE IssueBarrier
  <2>1. BarrierOp(call.bits) \in GpuOp /\ BarrierOp(call.bits).kind = "barrier"
    BY <1>1, <1>9, CallFields DEF IssueBarrier, Issue, BarrierOp, GpuOp
  <2> QED
    BY <1>9, <2>1, EnqueueNotWritten DEF IssueBarrier
<1>10. CASE IssueFinish
  BY <1>3, <1>10 DEF IssueFinish
<1>11. CASE IssueCreate \/ IssueDestroy \/ IssueBind \/ IssueUniform
  BY <1>3, <1>11 DEF IssueCreate, IssueDestroy, IssueBind, IssueUniform
<1> QED
  BY <1>3, <1>4, <1>6, <1>7, <1>8, <1>9, <1>10, <1>11 DEF IssueCall

(* The program has saved nothing when it starts.                           *)
LEMMA InitDelivery == Init => DeliveryInvariant
<1>1. Init => \A e \in Encoder : SaveFits(e) /\ FileFits(e)
  BY DEF Init, SaveFits, FileFits
<1> QED
  BY <1>1, InitForetold DEF DeliveryInvariant

(* What a method of an encoder does to its own file.                       *)
LEMMA OwnFile ==
  ASSUME TypeInvariant, NEW d \in Encoder, SaveFits(d), FileFits(d), Method(d)
  PROVE  SaveFits(d)' /\ FileFits(d)'
<1>1. /\ stage \in [Encoder -> Stages] /\ DOMAIN file = Encoder /\ DOMAIN outImage = Encoder
      /\ calls = <<>> /\ request' = request
  BY DEF TypeInvariant, TypeOK, Method, Enter, InitResources, Execute00, Execute01,
     Execute02, Execute03, StartDownload, DownloadTo, Save, DeinitResources
<1>2. \A s : GoTo(d, s) => stage'[d] = s
  BY <1>1 DEF GoTo
<1>3. Delivered(d)' = Delivered(d)
  BY <1>1 DEF Delivered
<1>4. CASE DownloadTo(d)
  <2>1. /\ stage[d] = "downloadTo" /\ stage'[d] = "save" /\ calls' = <<glFinish>>
        /\ file' = file
        /\ outImage'[d] = [format |-> DownloadFormat(request[d]), data |-> staging(d)]
    BY <1>1, <1>2, <1>4 DEF DownloadTo, Enter, staging
  <2> QED
    BY <1>1, <1>3, <2>1 DEF SaveFits, FileFits
<1>5. CASE Save(d)
  <2>1. /\ stage[d] = "save" /\ stage'[d] = "deinitResources"
        /\ file'[d] = [format |-> outImage[d].format, data |-> mem[outImage[d].data]]
    BY <1>1, <1>2, <1>5 DEF Save, Enter
  <2>2. calls # <<glFinish>>
    BY <1>1
  <2>3. /\ outImage[d] = [format |-> DownloadFormat(request[d]), data |-> staging(d)]
        /\ mem[staging(d)] = FileData(d, request[d])
    BY <2>1, <2>2 DEF SaveFits, Arrived
  <2>4. file'[d] = Delivered(d)
    BY <2>1, <2>3 DEF Delivered
  <2> QED
    BY <1>3, <2>1, <2>4 DEF SaveFits, FileFits
<1>6. CASE DeinitResources(d)
  <2>1. stage'[d] = "done" /\ file' = file
    BY <1>2, <1>6 DEF DeinitResources
  <2> QED
    BY <1>3, <2>1 DEF SaveFits, FileFits
<1>7. CASE /\ stage[d] \notin {"deinitResources", "done"} /\ stage'[d] # "save"
           /\ file' = file
  BY <1>3, <1>7 DEF SaveFits, FileFits
<1>8. EndOfIteration(d) => stage'[d] \in {"execute00", "execute01", "startDownload"}
  BY <1>2 DEF EndOfIteration, LoopStart
<1>9. CASE InitResources(d)
  BY <1>2, <1>7, <1>9 DEF InitResources, Enter, LoopStart
<1>10. CASE Execute00(d)
  BY <1>2, <1>7, <1>10 DEF Execute00, Enter
<1>11. CASE Execute01(d)
  BY <1>2, <1>7, <1>8, <1>11 DEF Execute01, Enter
<1>12. CASE Execute02(d)
  BY <1>2, <1>7, <1>8, <1>12 DEF Execute02, Enter
<1>13. CASE Execute03(d)
  BY <1>2, <1>7, <1>8, <1>13 DEF Execute03, Enter
<1>14. CASE StartDownload(d)
  BY <1>2, <1>7, <1>14 DEF StartDownload, Enter
<1> QED
  BY <1>4, <1>5, <1>6, <1>9, <1>10, <1>11, <1>12, <1>13, <1>14 DEF Method

(* A method starts with every file as it should be.                        *)
LEMMA MethodDelivers ==
  ASSUME TypeInvariant, LifetimeInvariant, \A e \in Encoder : LoopFits(e),
         DeliveryInvariant, NEW d \in Encoder, Method(d), Clean(request[d])
  PROVE  DeliveryInvariant'
<1>1. Foretold'
  BY MethodForetold DEF DeliveryInvariant
<1>2. /\ calls = <<>> /\ UNCHANGED <<request, mem, stream>>
      /\ \A e \in Encoder \ {d} : /\ stage'[e] = stage[e] /\ file'[e] = file[e]
                                  /\ outImage'[e] = outImage[e]
  <2>1. /\ stage \in [Encoder -> Stages] /\ DOMAIN file = Encoder
        /\ DOMAIN outImage = Encoder
    BY DEF TypeInvariant, TypeOK
  <2> QED
    BY <2>1 DEF Method, Enter, InitResources, Execute00, Execute01, Execute02, GoTo,
       Execute03, StartDownload, DownloadTo, Save, DeinitResources, EndOfIteration
<1>3. calls' \in Seq(OwnCall(d))
  <2>1. StageFits(d)
    BY <1>2 DEF LifetimeInvariant
  <2> QED
    BY <2>1, MethodYields DEF Yields
<1>4. PICK s \in Seq(OwnCall(d)) : s = calls'
  BY <1>3
<1>5. ASSUME NEW e \in Encoder \ {d} PROVE SaveFits(e)' /\ FileFits(e)'
  <2>1. SaveFits(e) /\ FileFits(e)
    BY DEF DeliveryInvariant
  <2>2. \A k \in DOMAIN s : ~Generates(s[k], staging(e))
    BY OwnListFields
  <2>3. FileFits(e)'
    BY <1>2, <2>1 DEF FileFits, Delivered
  <2>4. calls # <<glFinish>>
    BY <1>2
  <2>5. Arrived(e) => Arrived(e)'
    BY <1>2, <1>4, <2>2 DEF Arrived, NotWritten
  <2> QED
    BY <1>2, <2>1, <2>3, <2>4, <2>5 DEF SaveFits
<1>6. SaveFits(d)' /\ FileFits(d)'
  BY OwnFile DEF DeliveryInvariant
<1> QED
  BY <1>1, <1>5, <1>6 DEF DeliveryInvariant

(* glFinish brings the last of it, and no other call disturbs it.          *)
LEMMA IssueDelivers ==
  ASSUME TypeInvariant, LifetimeInvariant, ProgramsFit, StagingInvariant,
         DeliveryInvariant, IssueCall
  PROVE  DeliveryInvariant'
<1>1. Foretold'
  BY IssueForetold DEF DeliveryInvariant
<1>2. /\ calls # <<>> /\ calls' = Tail(calls)
      /\ UNCHANGED <<request, stage, outImage, file>>
  BY DEF IssueCall, Issue, IssueCreate, IssueDestroy, IssueBind, IssueUniform,
     IssueDispatch, IssueUpload, IssueDownload, IssueCopy, IssueBarrier, IssueFinish
<1>3. PICK op : Issue(op)
  BY DEF IssueCall, IssueCreate, IssueDestroy, IssueBind, IssueUniform,
     IssueDispatch, IssueUpload, IssueDownload, IssueCopy, IssueBarrier, IssueFinish
<1>4. SUFFICES ASSUME NEW e \in Encoder PROVE SaveFits(e)' /\ FileFits(e)'
  BY <1>1 DEF DeliveryInvariant
<1>5. SaveFits(e) /\ FileFits(e)
  BY DEF DeliveryInvariant
<1>6. FileFits(e)'
  BY <1>2, <1>5 DEF FileFits, Delivered
<1>7. ASSUME stage[e] = "save", calls = <<glFinish>> PROVE Arrived(e)'
  <2>1. call = glFinish /\ calls' = <<>>
    BY <1>2, <1>7 DEF call
  <2>2. IssueFinish
    BY <2>1 DEF IssueCall, Issue, IssueCreate, IssueDestroy, IssueBind, IssueUniform,
       IssueDispatch, IssueUpload, IssueDownload, IssueCopy, IssueBarrier, glFinish
  <2>3. stream' = <<>> /\ mem' = mem
    BY <2>2 DEF IssueFinish
  <2>4. PICK G : QueueGives(mem', stream', G) /\ AllTold(G)'
    BY <1>1 DEF Foretold
  <2>5. Told(e, G)'
    BY <2>1, <2>4 DEF AllTold
  <2>6. G = mem'
    <3>1. PICK m : m = mem'
      OBVIOUS
    <3>2. QueueGives(m, <<>>, G)
      BY <2>3, <2>4, <3>1
    <3>3. IsMemory(m)
      BY <3>2, 0 \in 0 .. Len(<<>>) DEF QueueGives
    <3> QED
      BY <3>1, <3>2, <3>3, EmptyGives
  <2>7. FactsNow(e)' = Delivery(e, request[e])
    BY <1>2, <1>7, FactsAtStages DEF FactsNow
  <2>8. PICK F : F = Delivery(e, request[e])
    OBVIOUS
  <2>9. Tells(e, F, G)'
    BY <2>5, <2>7, <2>8 DEF Told
  <2>10. Holds("m_downloadStaging", FileData(e, request[e])) \in F
    BY <2>8 DEF Delivery
  <2>11. G[staging(e)] = FileData(e, request[e])
    BY <2>9, <2>10 DEF Tells, Holds, Field, staging
  <2>12. NotWritten(staging(e))'
    BY <2>3 DEF NotWritten, GpuOps
  <2> QED
    BY <1>2, <2>1, <2>6, <2>11, <2>12 DEF Arrived
<1>8. ASSUME stage[e] = "save", Arrived(e) PROVE Arrived(e)'
  <2>1. /\ NotTargeted(staging(e))
        /\ \A u \in ImageUnits : ctx.img[u].name # staging(e)
    BY <1>8 DEF StagingInvariant, StagingIsKept, NeverAnImage, staging
  <2>2. NotWritten(staging(e))'
    BY <1>8, <2>1, IssueUnwritten DEF Arrived, TypeInvariant
  <2>3. /\ ~Generates(call, staging(e))
        /\ \A k \in DOMAIN calls' : ~Generates(calls'[k], staging(e))
    BY <1>3, <1>8, TailFields DEF Arrived, TypeInvariant
  <2>4. mem'[staging(e)] = mem[staging(e)]
    <3>1. CASE IssueCreate
      <4>1. call.op = "create" /\ mem' = [mem EXCEPT ![call.name] = call.value]
        BY <3>1 DEF IssueCreate, Issue
      <4>2. call.name # staging(e)
        BY <2>3, <4>1 DEF Generates
      <4>3. staging(e) \in DOMAIN mem
        BY DEF TypeInvariant, TypeOK, staging, Object, GLObject, Field
      <4> QED
        BY <4>1, <4>2, <4>3
    <3>2. CASE UNCHANGED mem
      BY <3>2
    <3> QED
      BY <3>1, <3>2 DEF IssueCall, IssueDestroy, IssueBind, IssueUniform, IssueDispatch,
         IssueUpload, IssueDownload, IssueCopy, IssueBarrier, IssueFinish
  <2> QED
    BY <1>2, <1>8, <2>2, <2>3, <2>4 DEF Arrived
<1> QED
  BY <1>2, <1>5, <1>6, <1>7, <1>8 DEF SaveFits

(* The GPU writes no buffer that is being saved.                           *)
LEMMA GPUDelivers ==
  ASSUME TypeInvariant, QueueFits(stream, request),
         \A e \in Encoder : Careful(request[e]), DeliveryInvariant, GPU
  PROVE  DeliveryInvariant'
<1>1. Foretold'
  BY GPUForetold DEF DeliveryInvariant
<1>2. UNCHANGED <<request, stage, calls, outImage, file>>
  BY DEF GPU, RetireBarrier, Execute
<1>3. ASSUME NEW e \in Encoder, Arrived(e) PROVE Arrived(e)'
  <2> DEFINE o == staging(e)
  <2>1. NotWritten(o)'
    <3>1. PICK i \in DOMAIN stream : Removed(stream, i, stream')
      BY GPURemoves DEF TypeInvariant
    <3>2. DOMAIN stream = 1 .. Len(stream) /\ Len(stream) \in Nat
      BY LenProperties DEF TypeInvariant, TypeOK
    <3>3. ASSUME NEW k \in GpuOps(stream')
          PROVE  \E j \in GpuOps(stream) : stream'[k] = stream[j]
      <4>1. /\ k \in 1 .. (Len(stream) - 1) /\ stream'[k] = stream[Before(i, k)]
            /\ stream'[k].kind # "barrier"
        BY <3>1 DEF Removed, GpuOps
      <4>2. Before(i, k) \in DOMAIN stream
        BY <3>2, <4>1 DEF Before
      <4> QED
        BY <4>1, <4>2 DEF GpuOps
    <3> QED
      BY <1>3, <3>3 DEF Arrived, NotWritten
  <2>2. mem'[o] = mem[o]
    <3>1. CASE RetireBarrier
      BY <3>1 DEF RetireBarrier
    <3>2. ASSUME NEW i \in DOMAIN stream, Execute(i) PROVE mem'[o] = mem[o]
      <4>1. i \in GpuOps(stream) /\ mem' = AfterOp(mem, stream[i])
        BY <3>2 DEF Execute, CanExecute
      <4>2. ~\E u \in DOMAIN stream[i].out : stream[i].out[u].name = o
        BY <1>3, <4>1 DEF Arrived, NotWritten, WritesOf
      <4>3. o \in DOMAIN mem
        BY DEF TypeInvariant, TypeOK, staging, Object, GLObject, Field
      <4> QED
        BY <4>1, <4>2, <4>3 DEF AfterOp
    <3> QED
      BY <3>1, <3>2 DEF GPU
  <2> QED
    BY <1>2, <1>3, <2>1, <2>2 DEF Arrived
<1>4. ASSUME NEW e \in Encoder PROVE SaveFits(e)' /\ FileFits(e)'
  <2>1. SaveFits(e) /\ FileFits(e)
    BY DEF DeliveryInvariant
  <2>2. FileFits(e)'
    BY <1>2, <2>1 DEF FileFits, Delivered
  <2> QED
    BY <1>2, <1>3, <2>1, <2>2 DEF SaveFits
<1> QED
  BY <1>1, <1>4 DEF DeliveryInvariant

-----------------------------------------------------------------------------
(* The requests all of which are known.                                    *)
AllClean == \A e \in Encoder : Clean(request[e])

(* What they were asked does not change.                                   *)
LEMMA RequestsStay == [Next]_vars => request' = request
BY DEF Next, Method, Enter, InitResources, Execute00, Execute01, Execute02,
   Execute03, StartDownload, DownloadTo, Save, DeinitResources, IssueCall, Issue,
   IssueCreate, IssueDestroy, IssueBind, IssueUniform, IssueDispatch, IssueUpload,
   IssueDownload, IssueCopy, IssueBarrier, IssueFinish, GPU, RetireBarrier, Execute,
   Terminating, vars

(* None of them is EncoderEAC's, and all are careful.                      *)
LEMMA CleanIsCareful ==
  ASSUME AllClean
  PROVE  EACRunsAlone /\ \A e \in Encoder : Careful(request[e])
<1>1. \A e \in Encoder : Known(request[e]) /\ Careful(request[e])
  BY DEF AllClean, Clean
<1>2. \A r : Known(r) => ~UsesEAC(r)
  BY DEF Known, UsesETC1, UsesETC2, UsesBC1, UsesBC4, UsesEAC
<1> QED
  BY <1>1, <1>2 DEF EACRunsAlone

(* A step that changes nothing disturbs nothing.                           *)
LEMMA StutterDelivers ==
  ASSUME DeliveryInvariant, UNCHANGED vars
  PROVE  DeliveryInvariant'
<1>1. Foretold'
  <2>1. PICK G : QueueGives(mem, stream, G) /\ AllTold(G)
    BY DEF DeliveryInvariant, Foretold
  <2>2. QueueGives(mem', stream', G)
    BY <2>1 DEF vars
  <2>3. \A e : \A F : Tells(e, F, G) => Tells(e, F, G)'
    BY DEF Tells, vars
  <2>4. \A e : FactsNow(e)' = FactsNow(e)
    BY DEF FactsNow, vars
  <2>5. ASSUME NEW e \in Encoder PROVE Told(e, G) => Told(e, G)'
    <3>1. PICK E : E = FactsNow(e)
      OBVIOUS
    <3> QED
      BY <2>3, <2>4, <3>1 DEF Told
  <2>6. ASSUME NEW d \in Encoder, Telling(d, G) PROVE Telling(d, G)'
    <3>1. PICK A : Tells(d, A, G) /\ Yields(d, request[d], calls, A, FactsNow(d))
      BY <2>6 DEF Telling
    <3>2. Tells(d, A, G)'
      BY <2>3, <3>1
    <3>3. Yields(d, request[d], calls, A, FactsNow(d))'
      BY <2>4, <3>1 DEF vars
    <3> QED
      BY <3>2, <3>3 DEF Telling
  <2>7. AllTold(G)'
    BY <2>1, <2>5, <2>6 DEF AllTold, OneTells, vars
  <2> QED
    BY <2>2, <2>7 DEF Foretold
<1>2. ASSUME NEW e \in Encoder PROVE SaveFits(e)' /\ FileFits(e)'
  BY DEF DeliveryInvariant, SaveFits, FileFits, Delivered, Arrived, NotWritten, vars
<1> QED
  BY <1>1, <1>2 DEF DeliveryInvariant

(* Every step keeps the delivery invariant, if every request is known.     *)
LEMMA NextDelivers ==
  TypeInvariant /\ LifetimeInvariant /\ StagingInvariant
    /\ (EACRunsAlone => HazardInvariant) /\ (AllClean => DeliveryInvariant) /\ [Next]_vars
    => (AllClean => DeliveryInvariant)'
<1> SUFFICES ASSUME TypeInvariant, LifetimeInvariant, StagingInvariant,
                    EACRunsAlone => HazardInvariant, AllClean => DeliveryInvariant,
                    [Next]_vars, AllClean'
             PROVE  DeliveryInvariant'
  OBVIOUS
<1>1. AllClean /\ DeliveryInvariant
  BY RequestsStay DEF AllClean
<1>2. HazardInvariant /\ \A e \in Encoder : Careful(request[e])
  BY <1>1, CleanIsCareful
<1>3. /\ ProgramsFit /\ QueueFits(stream, request)
      /\ \A e \in Encoder : LoopFits(e) /\ Clean(request[e])
  BY <1>1, <1>2 DEF HazardInvariant, AllClean
<1>4. ASSUME NEW e \in Encoder, Method(e) PROVE DeliveryInvariant'
  BY <1>1, <1>3, <1>4, MethodDelivers
<1>5. CASE IssueCall
  BY <1>1, <1>3, <1>5, IssueDelivers
<1>6. CASE GPU
  BY <1>1, <1>2, <1>3, <1>6, GPUDelivers
<1>7. CASE UNCHANGED vars
  BY <1>1, <1>7, StutterDelivers
<1> QED
  BY <1>4, <1>5, <1>6, <1>7 DEF Next, Terminating

(* The blocks in every file are those the codec's shaders compute from the *)
(* encoder's own picture, whatever the other encoders do in the meantime   *)
(* and in whatever order the GPU executes: for EncoderETC1, EncoderETC2,   *)
(* EncoderBC1 and EncoderBC4, under the conditions of Clean on the driver. *)
THEOREM BlocksAreThoseAsked == Spec => [](AllClean => BlocksAreRight)
<1>1. DeliveryInvariant => BlocksAreRight
  <2> SUFFICES ASSUME DeliveryInvariant, NEW e \in Encoder, file[e] # NoFile
               PROVE  file[e].data.arg = <<Blocks(e, request[e])>>
    BY DEF BlocksAreRight
  <2>1. file[e].data = FileData(e, request[e])
    BY DEF DeliveryInvariant, FileFits, Delivered
  <2> QED
    BY <2>1 DEF FileData, Output
<1>2. Init => (AllClean => DeliveryInvariant)
  BY InitDelivery
<1> QED
  BY <1>1, <1>2, InitType, NextType, InitLifetimes, NextLifetimes, InitStaging,
     NextStaging, InitHazards, NextHazards, NextDelivers, PTL DEF Spec

-----------------------------------------------------------------------------
(* The codecs whose file says what it holds: EncoderBC4 writes the signed  *)
(* ones as unsigned.                                                       *)
Delivers(r) == Clean(r) /\ r.codec \notin {"bc4_snorm", "bc5_snorm"}
AllDeliver == \A e \in Encoder : Delivers(request[e])

(* The format of the file is the one the codec is known by.                *)
LEMMA FormatIsAsked ==
  ASSUME NEW r, Delivers(r)
  PROVE  DownloadFormat(r) = FormatOf(r.codec)
<1>1. CASE UsesETC1(r)
  BY <1>1, OneEncoder DEF DownloadFormat, ETC1_downloadFormat, FormatOf, UsesETC1, hasAlpha
<1>2. CASE UsesETC2(r)
  BY <1>2, OneEncoder DEF DownloadFormat, ETC2_downloadFormat, ETC1_downloadFormat,
     FormatOf, UsesETC2, hasAlpha
<1>3. CASE UsesBC1(r)
  BY <1>3, OneEncoder DEF DownloadFormat, BC1_downloadFormat, FormatOf, UsesBC1, useBC3
<1>4. CASE UsesBC4(r)
  BY <1>4, OneEncoder DEF DownloadFormat, BC4_downloadFormat, FormatOf, UsesBC4, redGreen,
     Delivers
<1> QED
  BY <1>1, <1>2, <1>3, <1>4 DEF Delivers, Clean, Known

(* A step of the program is a step of the service or none of it.           *)
LEMMA StepDelivers ==
  ASSUME TypeInvariant, DeliveryInvariant, AllDeliver, [Next]_vars
  PROVE  [Service!Next]_(Service!vars)
<1>1. request' = request
  BY RequestsStay
<1>2. ASSUME NEW d \in Encoder, Save(d) PROVE Service!Deliver(d)
  <2>1. /\ stage[d] = "save" /\ calls = <<>>
        /\ file' = [file EXCEPT ![d] = [format |-> outImage[d].format,
                                        data |-> mem[outImage[d].data]]]
    BY <1>2 DEF Save, Enter
  <2>2. SaveFits(d) /\ FileFits(d)
    BY DEF DeliveryInvariant
  <2>3. /\ outImage[d] = [format |-> DownloadFormat(request[d]), data |-> staging(d)]
        /\ mem[staging(d)] = FileData(d, request[d])
    BY <2>1, <2>2 DEF SaveFits, Arrived
  <2>4. file[d] = NoFile
    BY <2>1, <2>2 DEF FileFits
  <2>5. RequestedFile([e |-> d, r |-> request[d]]) = Delivered(d)
    BY FormatIsAsked DEF RequestedFile, Delivered, FileData, AllDeliver
  <2>6. [format |-> outImage[d].format, data |-> mem[outImage[d].data]] = Delivered(d)
    BY <2>3 DEF Delivered
  <2> QED
    BY <1>1, <2>1, <2>4, <2>5, <2>6 DEF Service!Deliver
<1>3. CASE file' = file
  BY <1>1, <1>3 DEF Service!vars
<1>4. ASSUME NEW d \in Encoder, Method(d), ~Save(d) PROVE file' = file
  BY <1>4 DEF Method, InitResources, Execute00, Execute01, Execute02, Execute03,
     StartDownload, DownloadTo, DeinitResources
<1>5. IssueCall \/ GPU \/ UNCHANGED vars => file' = file
  BY DEF IssueCall, Issue, IssueCreate, IssueDestroy, IssueBind, IssueUniform,
     IssueDispatch, IssueUpload, IssueDownload, IssueCopy, IssueBarrier, IssueFinish,
     GPU, RetireBarrier, Execute, vars
<1> QED
  BY <1>2, <1>3, <1>4, <1>5 DEF Next, Terminating, Service!Next

(* The program implements the service, as far as safety goes: a file is    *)
(* written once, and then holds the compression of its own picture, every  *)
(* byte of it, in the format of the requested codec.  That every file is   *)
(* written in the end, the rest of DeliversWhatWasAsked, is left to TLC.   *)
THEOREM OnlyWhatWasAskedIsDelivered ==
  Spec /\ AllDeliver => Service!Init /\ [][Service!Next]_(Service!vars)
<1>1. Init => Service!Init
  BY DEF Init, Service!Init
<1>2. Init => (AllClean => DeliveryInvariant)
  BY InitDelivery
<1>3. AllDeliver /\ [Next]_vars => AllDeliver'
  BY RequestsStay DEF AllDeliver
<1>4. AllDeliver => AllClean
  BY DEF AllDeliver, AllClean, Delivers
<1>5. TypeInvariant /\ DeliveryInvariant /\ AllDeliver /\ [Next]_vars
        => [Service!Next]_(Service!vars)
  BY StepDelivers
<1> QED
  BY <1>1, <1>2, <1>3, <1>4, <1>5, InitType, NextType, InitLifetimes, NextLifetimes,
     InitStaging, NextStaging, InitHazards, NextHazards, NextDelivers, PTL DEF Spec

(* Such a file is in the format of its codec and holds all the bytes that  *)
(* format needs.                                                           *)
THEOREM FilesAreComplete ==
  Spec => [](AllDeliver => FormatMatchesCodec /\ PayloadIsComplete)
<1>1. AllDeliver => AllClean
  BY DEF AllDeliver, AllClean, Delivers
<1>2. DeliveryInvariant /\ AllDeliver => FormatMatchesCodec /\ PayloadIsComplete
  <2> SUFFICES ASSUME DeliveryInvariant, AllDeliver, NEW e \in Encoder, file[e] # NoFile
               PROVE  /\ file[e].format = FormatOf(request[e].codec)
                      /\ file[e].data.uni = <<BytesPerBlock(file[e].format)>>
    BY DEF FormatMatchesCodec, PayloadIsComplete
  <2>1. file[e] = Delivered(e)
    BY DEF DeliveryInvariant, FileFits
  <2>2. DownloadFormat(request[e]) = FormatOf(request[e].codec)
    BY FormatIsAsked DEF AllDeliver
  <2>3. FileData(e, request[e]).uni = <<BytesPerBlock(FormatOf(request[e].codec))>>
    BY DEF FileData, Output
  <2> QED
    BY <2>1, <2>2, <2>3 DEF Delivered
<1>3. Init => (AllClean => DeliveryInvariant)
  BY InitDelivery
<1> QED
  BY <1>1, <1>2, <1>3, InitType, NextType, InitLifetimes, NextLifetimes, InitStaging,
     NextStaging, InitHazards, NextHazards, NextDelivers, PTL DEF Spec
=============================================================================
