----------------------------- MODULE Etc1Proofs -----------------------------
(***************************************************************************)
(* etc1.glsl.  The work group, of any number of blocks, for any images and *)
(* outcomes of the searches: its use of shared memory has no race, each    *)
(* block is stored once, and the packer for subblocks of one colour gets   *)
(* those.  The search of one thread, for any depth of the channels and any *)
(* subblocks: its error is its solution's, it keeps the constraint of      *)
(* differential mode, and its scan misses no colour.                       *)
(***************************************************************************)
EXTENDS Etc1Block, Etc1Search, FiniteSetTheorems, TLAPS

(* Thread t has done what it does in part n.                               *)
Did(t, n) == part[t] > n \/ (part[t] = n /\ arrived[t])

(* The types of the variables.                                             *)
TypeOK ==
  /\ input \in Input
  /\ src \in [Cells(0, 32 * Blocks) -> Nat]
  /\ equal \in [Cells(0, 4 * Blocks) -> BOOLEAN]
  /\ allEqual \in [Thread -> BOOLEAN]
  /\ packed \in [Thread -> SUBSET (0 .. 1)]
  /\ part \in [Thread -> 0 .. 7]
  /\ arrived \in [Thread -> BOOLEAN]
  /\ stored \in [Block -> SUBSET [by : 0 .. 3, kind : {"solid", "subblocks"}]]

(* A thread is at most one barrier ahead of another, which then waits at   *)
(* that barrier.                                                           *)
InStep ==
  \A t, u \in Thread : part[t] > part[u] => part[t] = part[u] + 1 /\ arrived[u]

-----------------------------------------------------------------------------
(* What the shared arrays hold.                                            *)

RowIsUniform(t) == \A x \in 1 .. 3 : pixel(t, x) = pixel(t, 0)

SubblockIsUniform(b, flip, s) ==
  \A p, q \in Subblock(flip, s) : input.image[b][p] = input.image[b][q]

(* The two copies of the pixels, until an error is stored over them.       *)
PixelsAreLoaded(t) ==
  Did(t, 0) /\ (\A u \in Thread : ~Did(u, 5)) =>
    \A x \in 0 .. 3 : /\ src[Vertical(t, x)] = pixel(t, x)
                      /\ src[Horizontal(t, x)] = pixel(t, x)

(* g_allPixelsEqual: the row of each thread, until thread 0 puts the       *)
(* whole block in its cell and each thread then a subblock.                *)
RowIsChecked(t) ==
  Did(t, 0) /\ ~Did(t, 3) /\ (t[2] = 0 => ~Did(t, 1)) =>
    equal[pixelsEqualBlockStart(t) + t[2]] = RowIsUniform(t)

BlockIsChecked(b) ==
  Did(<<b, 0>>, 1) /\ ~Did(<<b, 0>>, 3) => equal[4 * b] = Uniform(b)

ThreadKnows(t) == Did(t, 2) => allEqual[t] = Uniform(t[1])

SubblockIsChecked(t) ==
  Did(t, 3) /\ ~Uniform(t[1]) =>
    equal[pixelsEqualBlockStart(t) + t[2]] = SubblockIsUniform(t[1], t[2] >= 2, t[2] % 2)

SubblocksArePacked(t) ==
  Did(t, 4) =>
    packed[t] = {s \in 0 .. 1 : /\ ~Uniform(t[1]) /\ Quality >= cMediumQuality
                                /\ s > 0 \/ bUseColor4(t)
                                /\ SubblockIsUniform(t[1], bFlip(t), s)}

(* The errors, until thread 0 puts the best thread over its own.           *)
ErrorIsStored(t) ==
  Did(t, 5) /\ (t[2] = 0 => ~Did(t, 6)) => src[gl_LocalInvocationIndex(t)] = error(t)

BestIsChosen(b) ==
  Did(<<b, 0>>, 6) =>
    /\ src[4 * b] \in 0 .. 3
    /\ \A i \in 0 .. 3 : error(<<b, src[4 * b]>>) <= error(<<b, i>>)

(* A block of one colour is stored by thread 0, another by the best thread.*)
SolidIsStored(b) ==
  Uniform(b) =>
    stored[b] = IF Did(<<b, 0>>, 2) THEN {[by |-> 0, kind |-> "solid"]} ELSE {}

BestIsStored(b) ==
  ~Uniform(b) =>
    /\ \A s \in stored[b] : /\ Did(<<b, s.by>>, 7) /\ src[4 * b] = s.by
                            /\ s.kind = "subblocks"
    /\ \A i \in 0 .. 3 : Did(<<b, i>>, 7) /\ src[4 * b] = i =>
         [by |-> i, kind |-> "subblocks"] \in stored[b]

ThreadData(t) ==
  /\ PixelsAreLoaded(t) /\ RowIsChecked(t) /\ ThreadKnows(t)
  /\ SubblockIsChecked(t) /\ SubblocksArePacked(t) /\ ErrorIsStored(t)

BlockData(b) ==
  BlockIsChecked(b) /\ BestIsChosen(b) /\ SolidIsStored(b) /\ BestIsStored(b)

GroupInvariant ==
  /\ TypeOK /\ InStep
  /\ \A t \in Thread : ThreadData(t)
  /\ \A b \in Block : BlockData(b)

-----------------------------------------------------------------------------
(* Threads, barriers and cells.                                            *)

(* A thread is its block and its number in it.                             *)
LEMMA Threads ==
  /\ \A t \in Thread : t[1] \in Block /\ t[2] \in 0 .. 3 /\ t = <<t[1], t[2]>>
  /\ \A b \in Block, i \in 0 .. 3 :
       <<b, i>> \in Thread /\ <<b, i>>[1] = b /\ <<b, i>>[2] = i
  /\ Block \subseteq Nat /\ Blocks \in Nat /\ \A b \in Block : b < Blocks
BY Etc1BlockAssumption DEF Thread, Block

(* The cells of g_srcPixelsBlock: no two pixels, of one thread or of two,  *)
(* share one.                                                              *)
LEMMA PixelCells ==
  ASSUME NEW t \in Thread, NEW u \in Thread, NEW x \in 0 .. 3, NEW y \in 0 .. 3
  PROVE  /\ Vertical(t, x) # Horizontal(u, y)
         /\ Vertical(t, x) = Vertical(u, y) => t = u /\ x = y
         /\ Horizontal(t, x) = Horizontal(u, y) => t = u /\ x = y
         /\ Vertical(t, x) \in Cells(0, 32 * Blocks)
         /\ Horizontal(t, x) \in Cells(0, 32 * Blocks)
<1>1. /\ t[1] \in Nat /\ t[2] \in 0 .. 3 /\ t = <<t[1], t[2]>> /\ t[1] < Blocks
      /\ u[1] \in Nat /\ u[2] \in 0 .. 3 /\ u = <<u[1], u[2]>> /\ Blocks \in Nat
  BY Threads
<1> DEFINE b == t[1]
           i == t[2]
           c == u[1]
           j == u[2]
<1>2. b \in Nat /\ i \in 0 .. 3 /\ c \in Nat /\ j \in 0 .. 3 /\ b < Blocks
  BY <1>1
<1>3. (b = c /\ i = j) => t = u
  BY <1>1
<1>4. /\ Vertical(t, x) = 32 * b + 4 * x + i /\ Vertical(u, y) = 32 * c + 4 * y + j
      /\ Horizontal(t, x) = 32 * b + 16 + 4 * i + x
      /\ Horizontal(u, y) = 32 * c + 16 + 4 * j + y
  BY DEF Vertical, Horizontal, blockStart
<1> HIDE DEF b, i, c, j
<1>5. 32 * b + 4 * x + i # 32 * c + 16 + 4 * j + y
  BY <1>2
<1>6. 32 * b + 4 * x + i = 32 * c + 4 * y + j => b = c /\ i = j /\ x = y
  BY <1>2
<1>7. 32 * b + 16 + 4 * i + x = 32 * c + 16 + 4 * j + y => b = c /\ i = j /\ x = y
  BY <1>2
<1>8. /\ 32 * b + 4 * x + i \in Cells(0, 32 * Blocks)
      /\ 32 * b + 16 + 4 * i + x \in Cells(0, 32 * Blocks)
  BY <1>1, <1>2 DEF Cells
<1> QED
  BY <1>3, <1>4, <1>5, <1>6, <1>7, <1>8

(* The cell of each thread in g_allPixelsEqual, and for its error.         *)
LEMMA OwnCells ==
  ASSUME NEW t \in Thread, NEW u \in Thread
  PROVE  /\ 4 * t[1] + t[2] = 4 * u[1] + u[2] => t = u
         /\ 4 * t[1] + t[2] \in Cells(0, 4 * Blocks)
         /\ 4 * t[1] + t[2] \in Cells(0, 32 * Blocks)
<1>1. /\ t[1] \in Nat /\ t[2] \in 0 .. 3 /\ t = <<t[1], t[2]>> /\ t[1] < Blocks
      /\ u[1] \in Nat /\ u[2] \in 0 .. 3 /\ u = <<u[1], u[2]>> /\ Blocks \in Nat
  BY Threads
<1>2. 4 * t[1] + t[2] = 4 * u[1] + u[2] => t[1] = u[1] /\ t[2] = u[2]
  BY <1>1
<1> QED
  BY <1>1, <1>2 DEF Cells

(* In part n every thread has done the parts before and none a later one.  *)
LEMMA Place ==
  ASSUME TypeOK, InStep, NEW n \in 0 .. 7, NEW t \in Thread, InPart(t, n),
         UNCHANGED part
  PROVE  /\ ~Did(t, n)
         /\ \A u \in Thread, m \in 0 .. 7 :
              /\ Did(u, m)' <=> Did(u, m) \/ (u = t /\ m = n)
              /\ m < n => Did(u, m)
              /\ m > n => ~Did(u, m)
         /\ arrived' \in [Thread -> BOOLEAN]
         /\ InStep'
<1>1. /\ part \in [Thread -> 0 .. 7] /\ arrived \in [Thread -> BOOLEAN]
      /\ part[t] = n /\ ~arrived[t] /\ arrived' = [arrived EXCEPT ![t] = TRUE]
      /\ part' = part
  BY DEF TypeOK, InPart
<1>2. ASSUME NEW u \in Thread
      PROVE  part[u] = n \/ (part[u] = n - 1 /\ arrived[u])
  BY <1>1 DEF InStep
<1>3. arrived' \in [Thread -> BOOLEAN]
  BY <1>1
<1>4. InStep'
  BY <1>1 DEF InStep
<1>5. ~Did(t, n)
  BY <1>1 DEF Did
<1>6. ASSUME NEW u \in Thread, NEW m \in 0 .. 7
      PROVE  /\ Did(u, m)' <=> Did(u, m) \/ (u = t /\ m = n)
             /\ m < n => Did(u, m)
             /\ m > n => ~Did(u, m)
  <2>1. Did(u, m)' <=> part[u] > m \/ (part[u] = m /\ (arrived[u] \/ u = t))
    BY <1>1 DEF Did
  <2>2. Did(u, m) <=> part[u] > m \/ (part[u] = m /\ arrived[u])
    BY DEF Did
  <2> QED
    BY <1>1, <1>2, <2>1, <2>2
<1> QED
  BY <1>3, <1>4, <1>5, <1>6

(* Passing a barrier does nothing.                                         *)
LEMMA Pass ==
  ASSUME TypeOK, InStep, NEW t \in Thread, PassBarrier(t)
  PROVE  /\ \A u \in Thread, m \in 0 .. 7 : Did(u, m)' <=> Did(u, m)
         /\ InStep'
         /\ part' \in [Thread -> 0 .. 7] /\ arrived' \in [Thread -> BOOLEAN]
<1>1. /\ part \in [Thread -> 0 .. 7] /\ arrived \in [Thread -> BOOLEAN]
      /\ arrived[t] /\ part[t] < 7
      /\ \A u \in Thread : part[u] > part[t] \/ (part[u] = part[t] /\ arrived[u])
      /\ part' = [part EXCEPT ![t] = @ + 1] /\ arrived' = [arrived EXCEPT ![t] = FALSE]
  BY DEF TypeOK, PassBarrier
<1>2. part' \in [Thread -> 0 .. 7] /\ arrived' \in [Thread -> BOOLEAN]
  BY <1>1
<1>3. ASSUME NEW u \in Thread, NEW m \in 0 .. 7 PROVE Did(u, m)' <=> Did(u, m)
  BY <1>1 DEF Did
<1>4. ASSUME NEW u \in Thread, NEW v \in Thread, part'[u] > part'[v]
      PROVE  part'[u] = part'[v] + 1 /\ arrived'[v]
  <2>1. CASE u = t
    BY <1>1, <1>4, <2>1 DEF InStep
  <2>2. CASE u # t /\ v = t
    BY <1>1, <1>4, <2>2 DEF InStep
  <2>3. CASE u # t /\ v # t
    BY <1>1, <1>4, <2>3 DEF InStep
  <2> QED
    BY <2>1, <2>2, <2>3
<1>5. InStep'
  BY <1>4 DEF InStep
<1> QED
  BY <1>2, <1>3, <1>5

-----------------------------------------------------------------------------
(* Each part of main keeps the invariant.                                  *)

(* The threads load the pixels, each its row.                              *)
LEMMA LoadKeeps ==
  ASSUME GroupInvariant, NEW t \in Thread, Load(t)
  PROVE  GroupInvariant'
<1> DEFINE in(n) == \E x \in 0 .. 3 : n \in {Vertical(t, x), Horizontal(t, x)}
           pick(n) == CHOOSE x \in 0 .. 3 : n \in {Vertical(t, x), Horizontal(t, x)}
<1>1. /\ TypeOK /\ InStep /\ InPart(t, 0)
      /\ \A u \in Thread : ThreadData(u) /\ \A b \in Block : BlockData(b)
      /\ src' = [n \in DOMAIN src |-> IF in(n) THEN pixel(t, pick(n)) ELSE src[n]]
      /\ equal' = [equal EXCEPT ![4 * t[1] + t[2]] = RowIsUniform(t)]
      /\ UNCHANGED <<input, allEqual, packed, part, stored>>
  BY DEF GroupInvariant, Load, RowIsUniform, pixelsEqualBlockStart
<1>2. /\ \A u \in Thread, m \in 0 .. 7 :
           /\ Did(u, m)' <=> Did(u, m) \/ (u = t /\ m = 0)
           /\ m > 0 => ~Did(u, m)
      /\ arrived' \in [Thread -> BOOLEAN] /\ InStep'
  BY <1>1, Place
<1>3. /\ src \in [Cells(0, 32 * Blocks) -> Nat] /\ equal \in [Cells(0, 4 * Blocks) -> BOOLEAN]
      /\ input \in Input
  BY <1>1 DEF TypeOK
<1>4. \A x \in 0 .. 3 : pixel(t, x) \in Nat
  <2>1. input.image \in [Block -> [0 .. 15 -> Nat]]
    BY <1>3, Etc1BlockAssumption
  <2>2. \A x \in 0 .. 3 : 4 * t[2] + x \in 0 .. 15
    BY Threads
  <2> QED
    BY <2>1, <2>2, Threads DEF pixel
<1>5. ASSUME NEW x \in 0 .. 3
      PROVE  /\ in(Vertical(t, x)) /\ pick(Vertical(t, x)) = x
             /\ in(Horizontal(t, x)) /\ pick(Horizontal(t, x)) = x
  <2>1. \A y \in 0 .. 3 : /\ Vertical(t, x) \in {Vertical(t, y), Horizontal(t, y)} <=> y = x
                          /\ Horizontal(t, x) \in {Vertical(t, y), Horizontal(t, y)} <=> y = x
    BY PixelCells
  <2> QED
    BY <2>1
<1>6. TypeOK'
  <2>1. \A n \in Cells(0, 32 * Blocks) : in(n) => pick(n) \in 0 .. 3
    OBVIOUS
  <2>2. src' \in [Cells(0, 32 * Blocks) -> Nat]
    BY <1>1, <1>3, <1>4, <2>1
  <2>3. equal' \in [Cells(0, 4 * Blocks) -> BOOLEAN]
    BY <1>1, <1>3 DEF RowIsUniform
  <2> QED
    BY <1>1, <1>2, <2>2, <2>3 DEF TypeOK
<1>7. ASSUME NEW u \in Thread PROVE PixelsAreLoaded(u)'
  <2> SUFFICES ASSUME Did(u, 0)', NEW x \in 0 .. 3
               PROVE  /\ src'[Vertical(u, x)] = pixel(u, x)
                      /\ src'[Horizontal(u, x)] = pixel(u, x)
    BY <1>1 DEF PixelsAreLoaded, Vertical, Horizontal, blockStart, pixel
  <2>1. Vertical(u, x) \in DOMAIN src /\ Horizontal(u, x) \in DOMAIN src
    BY <1>3, PixelCells
  <2>2. CASE u = t
    BY <1>1, <1>5, <2>1, <2>2
  <2>3. CASE u # t
    <3>1. ~in(Vertical(u, x)) /\ ~in(Horizontal(u, x))
      BY <2>3, PixelCells
    <3>2. src'[Vertical(u, x)] = src[Vertical(u, x)]
          /\ src'[Horizontal(u, x)] = src[Horizontal(u, x)]
      BY <1>1, <2>1, <3>1
    <3>3. Did(u, 0) /\ \A v \in Thread : ~Did(v, 5)
      BY <1>2, <2>3
    <3> QED
      BY <1>1, <3>2, <3>3 DEF ThreadData, PixelsAreLoaded
  <2> QED
    BY <2>2, <2>3
<1>8. ASSUME NEW u \in Thread PROVE RowIsChecked(u)'
  <2> SUFFICES ASSUME Did(u, 0)'
               PROVE  equal'[4 * u[1] + u[2]] = RowIsUniform(u)
    BY <1>1 DEF RowIsChecked, RowIsUniform, pixel, pixelsEqualBlockStart
  <2>1. CASE u = t
    BY <1>1, <1>3, <2>1, OwnCells
  <2>2. CASE u # t
    <3>1. equal'[4 * u[1] + u[2]] = equal[4 * u[1] + u[2]]
      BY <1>1, <1>3, <2>2, OwnCells
    <3>2. Did(u, 0) /\ ~Did(u, 3) /\ ~Did(u, 1)
      BY <1>2, <2>2
    <3> QED
      BY <1>1, <3>1, <3>2 DEF ThreadData, RowIsChecked, pixelsEqualBlockStart
  <2> QED
    BY <2>1, <2>2
<1>9. \A u \in Thread, m \in 1 .. 7 : ~Did(u, m)'
  BY <1>2
<1>10. \A u \in Thread : ThreadData(u)'
  BY <1>7, <1>8, <1>9
     DEF ThreadData, ThreadKnows, SubblockIsChecked, SubblocksArePacked, ErrorIsStored
<1>11. ASSUME NEW b \in Block PROVE BlockData(b)'
  <2>1. \A i \in 0 .. 3, m \in 1 .. 7 : ~Did(<<b, i>>, m) /\ ~Did(<<b, i>>, m)'
    <3> SUFFICES ASSUME NEW i \in 0 .. 3, NEW m \in 1 .. 7
                 PROVE  ~Did(<<b, i>>, m) /\ ~Did(<<b, i>>, m)'
      OBVIOUS
    <3>1. <<b, i>> \in Thread
      BY DEF Thread
    <3>2. m \in 0 .. 7 /\ m > 0
      OBVIOUS
    <3> QED
      BY <1>2, <1>9, <3>1, <3>2
  <2>2. SolidIsStored(b) /\ BestIsStored(b)
    BY <1>1 DEF BlockData
  <2>3. SolidIsStored(b)'
    BY <1>1, <2>1, <2>2 DEF SolidIsStored, Uniform
  <2>4. BestIsStored(b)'
    <3>1. stored[b] \in SUBSET [by : 0 .. 3, kind : {"solid", "subblocks"}]
      BY <1>1 DEF TypeOK
    <3> QED
      BY <1>1, <2>1, <2>2, <3>1 DEF BestIsStored, Uniform
  <2> QED
    BY <2>1, <2>3, <2>4 DEF BlockData, BlockIsChecked, BestIsChosen
<1> QED
  BY <1>2, <1>6, <1>10, <1>11 DEF GroupInvariant

(* A block is of one colour when its rows are and begin alike.             *)
LEMMA UniformRows ==
  ASSUME NEW b \in Block
  PROVE  Uniform(b) <=> \A i \in 0 .. 3 : /\ RowIsUniform(<<b, i>>)
                                          /\ pixel(<<b, i>>, 0) = pixel(<<b, 0>>, 0)
<1> DEFINE im == input.image[b]
<1>1. /\ \A i \in 0 .. 3, x \in 0 .. 3 : pixel(<<b, i>>, x) = im[4 * i + x]
      /\ Uniform(b) <=> \A p \in 0 .. 15 : im[p] = im[0]
  BY DEF pixel, Uniform
<1> HIDE DEF im
<1>2. ASSUME Uniform(b), NEW i \in 0 .. 3
      PROVE  RowIsUniform(<<b, i>>) /\ pixel(<<b, i>>, 0) = pixel(<<b, 0>>, 0)
  <2>1. ASSUME NEW x \in 0 .. 3 PROVE pixel(<<b, i>>, x) = im[0]
    <3>1. 4 * i + x \in 0 .. 15
      OBVIOUS
    <3> QED
      BY <1>1, <1>2, <3>1
  <2>2. pixel(<<b, 0>>, 0) = im[0]
    BY <1>1
  <2> QED
    BY <2>1, <2>2 DEF RowIsUniform
<1>3. ASSUME \A i \in 0 .. 3 : /\ RowIsUniform(<<b, i>>)
                               /\ pixel(<<b, i>>, 0) = pixel(<<b, 0>>, 0)
      PROVE  Uniform(b)
  <2>1. SUFFICES ASSUME NEW p \in 0 .. 15 PROVE im[p] = im[0]
    BY <1>1
  <2>2. PICK i \in 0 .. 3, x \in 0 .. 3 : p = 4 * i + x
    <3>1. p \div 4 \in 0 .. 3 /\ p % 4 \in 0 .. 3 /\ p = 4 * (p \div 4) + (p % 4)
      OBVIOUS
    <3> QED
      BY <3>1
  <2>3. im[p] = pixel(<<b, i>>, x) /\ pixel(<<b, 0>>, 0) = im[0]
    BY <1>1, <2>2
  <2>4. pixel(<<b, i>>, x) = pixel(<<b, i>>, 0)
    BY <1>3 DEF RowIsUniform
  <2> QED
    BY <1>3, <2>3, <2>4
<1> QED
  BY <1>2, <1>3

(* Thread 0 completes the check of the block.                              *)
LEMMA CheckBlockKeeps ==
  ASSUME GroupInvariant, NEW t \in Thread, CheckBlock(t)
  PROVE  GroupInvariant'
<1>1. /\ TypeOK /\ InStep /\ InPart(t, 1)
      /\ \A u \in Thread : ThreadData(u) /\ \A b \in Block : BlockData(b)
      /\ IF t[2] = 0
         THEN equal' = [equal EXCEPT ![4 * t[1]] =
                          equal[4 * t[1]] /\ \A i \in 1 .. 3 :
                            /\ equal[4 * t[1] + i]
                            /\ src[blockStart(t) + i] = pixel(t, 0)]
         ELSE UNCHANGED equal
      /\ UNCHANGED <<input, src, allEqual, packed, part, stored>>
  BY DEF GroupInvariant, CheckBlock, pixelsEqualBlockStart
<1>2. /\ ~Did(t, 1)
      /\ \A u \in Thread, m \in 0 .. 7 :
           /\ Did(u, m)' <=> Did(u, m) \/ (u = t /\ m = 1)
           /\ m < 1 => Did(u, m)
           /\ m > 1 => ~Did(u, m)
      /\ arrived' \in [Thread -> BOOLEAN] /\ InStep'
  BY <1>1, Place
<1>3. equal \in [Cells(0, 4 * Blocks) -> BOOLEAN]
  BY <1>1 DEF TypeOK
<1>4. TypeOK'
  <2>1. equal' \in [Cells(0, 4 * Blocks) -> BOOLEAN]
    BY <1>1, <1>3
  <2> QED
    BY <1>1, <1>2, <2>1 DEF TypeOK
<1>5. \A u \in Thread : /\ Did(u, 0) /\ Did(u, 0)'
                        /\ \A m \in 2 .. 7 : ~Did(u, m) /\ ~Did(u, m)'
  BY <1>2
<1>6. \A u \in Thread : t[2] = 0 /\ u # t => 4 * u[1] + u[2] # 4 * t[1]
  BY OwnCells, Threads
<1>7. ASSUME NEW u \in Thread PROVE PixelsAreLoaded(u)'
  BY <1>1, <1>5 DEF ThreadData, PixelsAreLoaded, Vertical, Horizontal, blockStart, pixel
<1>8. ASSUME NEW u \in Thread PROVE RowIsChecked(u)'
  <2> SUFFICES ASSUME u[2] = 0 => ~Did(u, 1)'
               PROVE  equal'[4 * u[1] + u[2]] = RowIsUniform(u)
    BY <1>1 DEF RowIsChecked, RowIsUniform, pixel, pixelsEqualBlockStart
  <2>1. u[2] = 0 => u # t /\ ~Did(u, 1)
    BY <1>2
  <2>2. equal[4 * u[1] + u[2]] = RowIsUniform(u)
    BY <1>1, <1>5, <2>1 DEF ThreadData, RowIsChecked, pixelsEqualBlockStart
  <2>3. equal'[4 * u[1] + u[2]] = equal[4 * u[1] + u[2]]
    <3>1. 4 * u[1] + u[2] \in Cells(0, 4 * Blocks)
      BY OwnCells
    <3>2. CASE t[2] = 0
      BY <1>1, <1>3, <1>6, <2>1, <3>1, <3>2
    <3> QED
      BY <1>1, <3>2
  <2> QED
    BY <2>2, <2>3
<1>9. \A u \in Thread : ThreadData(u)'
  BY <1>5, <1>7, <1>8
     DEF ThreadData, ThreadKnows, SubblockIsChecked, SubblocksArePacked, ErrorIsStored
<1>10. ASSUME NEW b \in Block PROVE BlockIsChecked(b)'
  <2> SUFFICES ASSUME Did(<<b, 0>>, 1)' PROVE equal'[4 * b] = Uniform(b)
    BY <1>1 DEF BlockIsChecked, Uniform
  <2>0. <<b, 0>> \in Thread /\ <<b, 0>>[1] = b /\ <<b, 0>>[2] = 0
    BY DEF Thread
  <2>1. 4 * b \in Cells(0, 4 * Blocks)
    BY Threads DEF Cells
  <2>2. CASE <<b, 0>> = t
    <3>1. t[1] = b /\ t[2] = 0
      BY <2>2
    <3>2. ASSUME NEW i \in 0 .. 3
          PROVE  equal[4 * b + i] = RowIsUniform(<<b, i>>)
      <4>1. /\ <<b, i>> \in Thread /\ <<b, i>>[1] = b /\ <<b, i>>[2] = i
        BY Threads
      <4>2. i = 0 => ~Did(<<b, i>>, 1)
        BY <1>2, <2>2
      <4>3. RowIsChecked(<<b, i>>) /\ Did(<<b, i>>, 0) /\ ~Did(<<b, i>>, 3)
        BY <1>1, <1>5, <4>1 DEF ThreadData
      <4> QED
        BY <4>1, <4>2, <4>3 DEF RowIsChecked, pixelsEqualBlockStart
    <3>3. ASSUME NEW i \in 0 .. 3
          PROVE  src[blockStart(t) + i] = pixel(<<b, i>>, 0)
      <4>1. <<b, i>> \in Thread /\ Vertical(<<b, i>>, 0) = blockStart(t) + i
        <5>1. <<b, i>> \in Thread /\ <<b, i>>[1] = b /\ <<b, i>>[2] = i /\ b \in Nat
          BY Threads DEF Thread
        <5> QED
          BY <3>1, <5>1 DEF Vertical, blockStart
      <4>2. PixelsAreLoaded(<<b, i>>) /\ Did(<<b, i>>, 0) /\ \A u \in Thread : ~Did(u, 5)
        BY <1>1, <1>5, <4>1 DEF ThreadData
      <4> QED
        BY <4>1, <4>2 DEF PixelsAreLoaded
    <3>4. equal'[4 * b] = (equal[4 * b] /\ \A i \in 1 .. 3 :
                             equal[4 * b + i] /\ src[blockStart(t) + i] = pixel(t, 0))
      BY <1>1, <1>3, <2>1, <3>1
    <3>5. equal'[4 * b] <=> Uniform(b)
      <4>1. equal[4 * b] = RowIsUniform(<<b, 0>>)
        <5>1. 4 * b + 0 = 4 * b
          BY Threads
        <5> QED
          BY <3>2, <5>1
      <4>2. equal'[4 * b] <=> RowIsUniform(<<b, 0>>) /\ \A i \in 1 .. 3 :
                                RowIsUniform(<<b, i>>) /\ pixel(<<b, i>>, 0) = pixel(<<b, 0>>, 0)
        <5>1. \A i \in 1 .. 3 : /\ equal[4 * b + i] = RowIsUniform(<<b, i>>)
                                /\ src[blockStart(t) + i] = pixel(<<b, i>>, 0)
          BY <3>2, <3>3
        <5> QED
          BY <2>2, <3>4, <4>1, <5>1
      <4>3. Uniform(b) <=> RowIsUniform(<<b, 0>>) /\ \A i \in 1 .. 3 :
                             RowIsUniform(<<b, i>>) /\ pixel(<<b, i>>, 0) = pixel(<<b, 0>>, 0)
        <5>1. \A i \in 0 .. 3 : i = 0 \/ i \in 1 .. 3
          OBVIOUS
        <5>2. 0 \in 0 .. 3 /\ \A i \in 1 .. 3 : i \in 0 .. 3
          OBVIOUS
        <5> QED
          BY <5>1, <5>2, UniformRows, Zenon
      <4> QED
        BY <4>2, <4>3
    <3> QED
      BY <3>4, <3>5 DEF Uniform
  <2>3. CASE <<b, 0>> # t
    <3>1. Did(<<b, 0>>, 1) /\ ~Did(<<b, 0>>, 3)
      BY <1>2, <1>5, <2>0, <2>3
    <3>2. equal[4 * b] = Uniform(b)
      BY <1>1, <3>1 DEF BlockData, BlockIsChecked
    <3>3. t[2] = 0 => 4 * b # 4 * t[1]
      BY <1>6, <2>0, <2>3, Threads
    <3>4. equal'[4 * b] = equal[4 * b]
      BY <1>1, <1>3, <2>1, <3>3
    <3> QED
      BY <3>2, <3>4
  <2> QED
    BY <2>2, <2>3
<1>11. ASSUME NEW b \in Block PROVE BlockData(b)'
  <2>0. <<b, 0>> \in Thread
    BY DEF Thread
  <2>1. ASSUME NEW i \in 0 .. 3 PROVE ~Did(<<b, i>>, 7) /\ ~Did(<<b, i>>, 7)'
    <3>1. <<b, i>> \in Thread
      BY DEF Thread
    <3> QED
      BY <1>5, <3>1
  <2>2. /\ ~Did(<<b, 0>>, 2) /\ ~Did(<<b, 0>>, 2)' /\ ~Did(<<b, 0>>, 6)'
        /\ SolidIsStored(b) /\ BestIsStored(b)
    BY <1>1, <1>5, <2>0 DEF BlockData
  <2>3. SolidIsStored(b)'
    BY <1>1, <2>2 DEF SolidIsStored, Uniform
  <2>4. BestIsStored(b)'
    <3>1. stored[b] \in SUBSET [by : 0 .. 3, kind : {"solid", "subblocks"}]
      BY <1>1 DEF TypeOK
    <3> QED
      BY <1>1, <2>1, <2>2, <3>1 DEF BestIsStored, Uniform
  <2> QED
    BY <1>10, <2>2, <2>3, <2>4 DEF BlockData, BestIsChosen
<1> QED
  BY <1>2, <1>4, <1>9, <1>11 DEF GroupInvariant

(* Every thread learns whether its block is of one colour, and thread 0    *)
(* stores it then.                                                         *)
LEMMA PackSolidKeeps ==
  ASSUME GroupInvariant, NEW t \in Thread, PackSolid(t)
  PROVE  GroupInvariant'
<1> DEFINE solid == [by |-> 0, kind |-> "solid"]
<1>1. /\ TypeOK /\ InStep /\ InPart(t, 2)
      /\ \A u \in Thread : ThreadData(u) /\ \A b \in Block : BlockData(b)
      /\ allEqual' = [allEqual EXCEPT ![t] = equal[4 * t[1]]]
      /\ UNCHANGED <<input, src, equal, packed, part>>
      /\ t[1] \in Block /\ t[2] \in 0 .. 3 /\ t = <<t[1], t[2]>>
  BY Threads DEF GroupInvariant, PackSolid, pixelsEqualBlockStart
<1>2. IF equal[4 * t[1]] /\ t[2] = 0
      THEN stored' = [stored EXCEPT ![t[1]] = @ \cup {solid}]
      ELSE stored' = stored
  <2>1. equal[4 * t[1]] /\ t[2] = 0 =>
          stored' = [stored EXCEPT ![t[1]] = @ \cup {[by |-> t[2], kind |-> "solid"]}]
    BY DEF PackSolid, Store, pixelsEqualBlockStart
  <2>2. ~(equal[4 * t[1]] /\ t[2] = 0) => stored' = stored
    BY DEF PackSolid, pixelsEqualBlockStart
  <2> QED
    BY <2>1, <2>2
<1>3. /\ ~Did(t, 2)
      /\ \A u \in Thread, m \in 0 .. 7 :
           /\ Did(u, m)' <=> Did(u, m) \/ (u = t /\ m = 2)
           /\ m < 2 => Did(u, m)
           /\ m > 2 => ~Did(u, m)
      /\ arrived' \in [Thread -> BOOLEAN] /\ InStep'
  BY <1>1, Place
<1>4. /\ equal \in [Cells(0, 4 * Blocks) -> BOOLEAN]
      /\ allEqual \in [Thread -> BOOLEAN]
      /\ stored \in [Block -> SUBSET [by : 0 .. 3, kind : {"solid", "subblocks"}]]
  BY <1>1 DEF TypeOK
<1> HIDE DEF solid
<1>5. TypeOK'
  <2>1. 4 * t[1] \in Cells(0, 4 * Blocks)
    BY Threads DEF Cells
  <2>2. allEqual' \in [Thread -> BOOLEAN]
    BY <1>1, <1>4, <2>1
  <2>3. solid \in [by : 0 .. 3, kind : {"solid", "subblocks"}]
    BY DEF solid
  <2>4. stored' \in [Block -> SUBSET [by : 0 .. 3, kind : {"solid", "subblocks"}]]
    BY <1>1, <1>2, <1>4, <2>3
  <2> QED
    BY <1>1, <1>3, <2>2, <2>4 DEF TypeOK
<1>6. \A u \in Thread : /\ Did(u, 0) /\ Did(u, 0)' /\ Did(u, 1) /\ Did(u, 1)'
                        /\ \A m \in 3 .. 7 : ~Did(u, m) /\ ~Did(u, m)'
  BY <1>3
<1>7. equal[4 * t[1]] = Uniform(t[1])
  <2>1. <<t[1], 0>> \in Thread
    BY <1>1 DEF Thread
  <2> QED
    BY <1>1, <1>6, <2>1 DEF BlockData, BlockIsChecked
<1>8. ASSUME NEW u \in Thread PROVE ThreadData(u)'
  <2>1. ThreadKnows(u)'
    <3>1. CASE u = t
      BY <1>1, <1>4, <1>7, <3>1 DEF ThreadKnows, Uniform
    <3>2. CASE u # t
      <4>1. Did(u, 2)' <=> Did(u, 2)
        BY <1>3, <3>2
      <4> QED
        BY <1>1, <1>4, <3>2, <4>1 DEF ThreadData, ThreadKnows, Uniform
    <3> QED
      BY <3>1, <3>2
  <2>2. PixelsAreLoaded(u)'
    BY <1>1, <1>6
       DEF ThreadData, PixelsAreLoaded, Vertical, Horizontal, blockStart, pixel
  <2>3. RowIsChecked(u)'
    <3>1. RowIsChecked(u) /\ Did(u, 0) /\ Did(u, 1) /\ ~Did(u, 3) /\ Did(u, 1)'
      BY <1>1, <1>6 DEF ThreadData
    <3> QED
      BY <1>1, <3>1 DEF RowIsChecked, RowIsUniform, pixel, pixelsEqualBlockStart
  <2> QED
    BY <1>6, <2>1, <2>2, <2>3
       DEF ThreadData, SubblockIsChecked, SubblocksArePacked, ErrorIsStored
<1>9. ASSUME NEW b \in Block PROVE BlockData(b)'
  <2>0. <<b, 0>> \in Thread
    BY DEF Thread
  <2>1. ASSUME NEW i \in 0 .. 3 PROVE ~Did(<<b, i>>, 7) /\ ~Did(<<b, i>>, 7)'
    <3>1. <<b, i>> \in Thread
      BY DEF Thread
    <3> QED
      BY <1>6, <3>1
  <2>2. BlockIsChecked(b) /\ SolidIsStored(b) /\ BestIsStored(b)
    BY <1>1 DEF BlockData
  <2>3. BlockIsChecked(b)' /\ BestIsChosen(b)'
    <3>1. Did(<<b, 0>>, 1) /\ ~Did(<<b, 0>>, 3) /\ ~Did(<<b, 0>>, 6)'
      BY <1>6, <2>0
    <3> QED
      BY <1>1, <2>2, <3>1 DEF BlockIsChecked, BestIsChosen, Uniform
  <2>4. SolidIsStored(b)'
    <3> SUFFICES ASSUME Uniform(b)
                 PROVE  stored'[b] = IF Did(<<b, 0>>, 2)' THEN {solid} ELSE {}
      BY <1>1 DEF SolidIsStored, Uniform, solid
    <3>1. stored[b] = IF Did(<<b, 0>>, 2) THEN {solid} ELSE {}
      BY <2>2 DEF SolidIsStored, solid
    <3>2. CASE <<b, 0>> = t
      <4>1. t[1] = b /\ t[2] = 0 /\ Did(<<b, 0>>, 2)' /\ ~Did(<<b, 0>>, 2)
        BY <1>3, <3>2
      <4>2. stored' = [stored EXCEPT ![b] = @ \cup {solid}]
        BY <1>2, <1>7, <4>1
      <4> QED
        BY <1>4, <3>1, <4>1, <4>2
    <3>3. CASE <<b, 0>> # t
      <4>1. Did(<<b, 0>>, 2)' <=> Did(<<b, 0>>, 2)
        BY <1>3, <2>0, <3>3
      <4>2. ~(t[1] = b /\ t[2] = 0)
        BY <1>1, <3>3
      <4>3. stored'[b] = stored[b]
        BY <1>1, <1>2, <1>4, <4>2
      <4> QED
        BY <3>1, <4>1, <4>3
    <3> QED
      BY <3>2, <3>3
  <2>5. BestIsStored(b)'
    <3> SUFFICES ASSUME ~Uniform(b)
                 PROVE  /\ \A s \in stored'[b] :
                             /\ Did(<<b, s.by>>, 7)' /\ src'[4 * b] = s.by
                             /\ s.kind = "subblocks"
                        /\ \A i \in 0 .. 3 : Did(<<b, i>>, 7)' /\ src'[4 * b] = i =>
                             [by |-> i, kind |-> "subblocks"] \in stored'[b]
      BY <1>1 DEF BestIsStored, Uniform
    <3>1. stored'[b] = stored[b]
      BY <1>1, <1>2, <1>4, <1>7
    <3>2. \A s \in stored[b] : s.by \in 0 .. 3
      BY <1>4
    <3> QED
      BY <2>1, <2>2, <3>1, <3>2 DEF BestIsStored
  <2> QED
    BY <2>3, <2>4, <2>5 DEF BlockData
<1> QED
  BY <1>3, <1>5, <1>8, <1>9 DEF GroupInvariant

(* Eight cells or pixels, two by four.                                     *)
LEMMA TwoByFour ==
  ASSUME NEW a \in Nat, NEW s \in 0 .. 1, NEW k \in 0 .. 7, NEW d \in 0 .. 1,
         NEW m \in 0 .. 3, k = 4 * d + m
  PROVE  /\ 32 * a + 16 + 8 * s + k = 32 * a + 16 + 4 * (2 * s + d) + m
         /\ 32 * a + 0 + 8 * s + k = 32 * a + 4 * (2 * s + d) + m
         /\ 8 * s + k = 4 * (2 * s + d) + m
         /\ 4 * m + 2 * s + d = 4 * m + (2 * s + d)
OBVIOUS

(* The eight cells a thread compares are the pixels of its subblock.       *)
LEMMA SubblockCells ==
  ASSUME NEW t \in Thread, NEW flip \in BOOLEAN, NEW s \in 0 .. 1,
         \A i \in 0 .. 3, x \in 0 .. 3 :
           /\ src[32 * t[1] + 4 * x + i] = input.image[t[1]][4 * i + x]
           /\ src[32 * t[1] + 16 + 4 * i + x] = input.image[t[1]][4 * i + x]
  PROVE  (\A n \in Cells(subblockStart(t, flip, s), 8) :
            src[n] = src[subblockStart(t, flip, s)])
           <=> SubblockIsUniform(t[1], flip, s)
<1> DEFINE im == input.image[t[1]]
           first == subblockStart(t, flip, s)
           p(k) == IF flip THEN 8 * s + k ELSE 4 * (k % 4) + 2 * s + (k \div 4)
<1>1. ASSUME NEW k \in 0 .. 7
      PROVE  src[first + k] = im[p(k)] /\ p(k) \in Subblock(flip, s)
  <2>1. /\ k \div 4 \in 0 .. 1 /\ k % 4 \in 0 .. 3 /\ k = 4 * (k \div 4) + (k % 4)
        /\ 2 * s + (k \div 4) \in 0 .. 3 /\ t[1] \in Nat
    BY Threads
  <2>2. CASE flip
    <3>1. /\ first + k = 32 * t[1] + 16 + 4 * (2 * s + (k \div 4)) + (k % 4)
          /\ p(k) = 4 * (2 * s + (k \div 4)) + (k % 4)
      <4>1. first = 32 * t[1] + 16 + 8 * s /\ p(k) = 8 * s + k
        BY <2>2 DEF subblockStart, blockStart
      <4> HIDE DEF first, p
      <4> QED
        BY <2>1, <4>1, TwoByFour
    <3>2. p(k) \in 0 .. 15 /\ p(k) \div 4 \in {2 * s, 2 * s + 1}
      BY <2>1, <2>2
    <3>3. src[first + k] = im[p(k)]
      BY <2>1, <3>1
    <3> QED
      BY <2>2, <3>2, <3>3 DEF Subblock
  <2>3. CASE ~flip
    <3>1. /\ first + k = 32 * t[1] + 4 * (2 * s + (k \div 4)) + (k % 4)
          /\ p(k) = 4 * (k % 4) + (2 * s + (k \div 4))
      <4>1. /\ first = 32 * t[1] + 0 + 8 * s
            /\ p(k) = 4 * (k % 4) + 2 * s + (k \div 4)
        BY <2>3 DEF subblockStart, blockStart
      <4> HIDE DEF first, p
      <4> QED
        BY <2>1, <4>1, TwoByFour
    <3>2. p(k) \in 0 .. 15 /\ p(k) % 4 \in {2 * s, 2 * s + 1}
      BY <2>1, <2>3
    <3>3. src[first + k] = im[p(k)]
      BY <2>1, <3>1
    <3> QED
      BY <2>3, <3>2, <3>3 DEF Subblock
  <2> QED
    BY <2>2, <2>3
<1>2. ASSUME NEW q \in Subblock(flip, s) PROVE \E k \in 0 .. 7 : q = p(k)
  <2>1. /\ q \in 0 .. 15 /\ q \div 4 \in 0 .. 3 /\ q % 4 \in 0 .. 3
        /\ q = 4 * (q \div 4) + (q % 4)
    BY DEF Subblock
  <2>2. CASE flip
    <3>1. q - 8 * s \in 0 .. 7 /\ q = p(q - 8 * s)
      BY <2>1, <2>2 DEF Subblock
    <3> QED
      BY <3>1
  <2>3. CASE ~flip
    <3> DEFINE k == 4 * ((q % 4) - 2 * s) + (q \div 4)
    <3>1. (q % 4) - 2 * s \in 0 .. 1
      BY <2>1, <2>3 DEF Subblock
    <3>2. k \in 0 .. 7 /\ k % 4 = q \div 4 /\ k \div 4 = (q % 4) - 2 * s
      BY <2>1, <3>1
    <3>3. q = p(k)
      BY <2>1, <2>3, <3>2
    <3> QED
      BY <3>2, <3>3
  <2> QED
    BY <2>2, <2>3
<1>3. first \in Nat
  BY Threads DEF subblockStart, blockStart
<1> HIDE DEF p, first, im
<1>4. (\A n \in Cells(first, 8) : src[n] = src[first])
        <=> \A k \in 0 .. 7 : src[first + k] = src[first + 0]
  <2>1. \A k \in 0 .. 7 : first + k \in Cells(first, 8)
    BY <1>3 DEF Cells
  <2>2. \A n \in Cells(first, 8) : n - first \in 0 .. 7 /\ first + (n - first) = n
    BY <1>3 DEF Cells
  <2>3. first + 0 = first
    BY <1>3
  <2> QED
    BY <2>1, <2>2, <2>3
<1>5. (\A k \in 0 .. 7 : src[first + k] = src[first + 0])
        <=> \A k, l \in 0 .. 7 : im[p(k)] = im[p(l)]
  BY <1>1
<1>6. (\A k, l \in 0 .. 7 : im[p(k)] = im[p(l)])
        <=> \A q, r \in Subblock(flip, s) : im[q] = im[r]
  BY <1>1, <1>2
<1> QED
  BY <1>4, <1>5, <1>6 DEF SubblockIsUniform, first, im

(* Every thread checks a subblock, not always one of its own.              *)
LEMMA CheckSubblockKeeps ==
  ASSUME GroupInvariant, NEW t \in Thread, CheckSubblock(t)
  PROVE  GroupInvariant'
<1> DEFINE first == subblockStart(t, t[2] >= 2, t[2] % 2)
           cell == 4 * t[1] + t[2]
<1>1. /\ TypeOK /\ InStep /\ InPart(t, 3)
      /\ \A u \in Thread : ThreadData(u) /\ \A b \in Block : BlockData(b)
      /\ UNCHANGED <<input, src, allEqual, packed, part, stored>>
      /\ t[1] \in Block /\ t[2] \in 0 .. 3 /\ t = <<t[1], t[2]>>
  BY Threads DEF GroupInvariant, CheckSubblock
<1>2. IF ~allEqual[t]
      THEN equal' = [equal EXCEPT ![cell] = \A n \in Cells(first, 8) : src[n] = src[first]]
      ELSE equal' = equal
  BY DEF CheckSubblock, pixelsEqualBlockStart
<1>3. /\ ~Did(t, 3)
      /\ \A u \in Thread, m \in 0 .. 7 :
           /\ Did(u, m)' <=> Did(u, m) \/ (u = t /\ m = 3)
           /\ m < 3 => Did(u, m)
           /\ m > 3 => ~Did(u, m)
      /\ arrived' \in [Thread -> BOOLEAN] /\ InStep'
  BY <1>1, Place
<1>4. equal \in [Cells(0, 4 * Blocks) -> BOOLEAN]
  BY <1>1 DEF TypeOK
<1>5. \A u \in Thread : /\ \A m \in 0 .. 2 : Did(u, m) /\ Did(u, m)'
                        /\ \A m \in 4 .. 7 : ~Did(u, m) /\ ~Did(u, m)'
  BY <1>3
<1>6. allEqual[t] = Uniform(t[1])
  BY <1>1, <1>5 DEF ThreadData, ThreadKnows
<1>7. (\A n \in Cells(first, 8) : src[n] = src[first])
        <=> SubblockIsUniform(t[1], t[2] >= 2, t[2] % 2)
  <2>1. ASSUME NEW i \in 0 .. 3, NEW x \in 0 .. 3
        PROVE  /\ src[32 * t[1] + 4 * x + i] = input.image[t[1]][4 * i + x]
               /\ src[32 * t[1] + 16 + 4 * i + x] = input.image[t[1]][4 * i + x]
    <3>1. <<t[1], i>> \in Thread
      BY <1>1 DEF Thread
    <3>2. PixelsAreLoaded(<<t[1], i>>) /\ Did(<<t[1], i>>, 0) /\ \A u \in Thread : ~Did(u, 5)
      BY <1>1, <1>5, <3>1 DEF ThreadData
    <3> QED
      BY <3>2 DEF PixelsAreLoaded, Vertical, Horizontal, blockStart, pixel
  <2>2. t[2] % 2 \in 0 .. 1 /\ (t[2] >= 2) \in BOOLEAN
    BY <1>1
  <2> QED
    BY <2>1, <2>2, SubblockCells
<1> HIDE DEF first
<1>8. TypeOK'
  <2>1. equal' \in [Cells(0, 4 * Blocks) -> BOOLEAN]
    BY <1>2, <1>4
  <2> QED
    BY <1>1, <1>3, <2>1 DEF TypeOK
<1>9. ASSUME NEW u \in Thread, u # t
      PROVE  equal'[4 * u[1] + u[2]] = equal[4 * u[1] + u[2]]
  BY <1>2, <1>4, <1>9, OwnCells
<1>10. ASSUME NEW u \in Thread PROVE ThreadData(u)'
  <2>1. PixelsAreLoaded(u)'
    BY <1>1, <1>5
       DEF ThreadData, PixelsAreLoaded, Vertical, Horizontal, blockStart, pixel
  <2>2. RowIsChecked(u)'
    <3>1. /\ RowIsChecked(u) /\ Did(u, 0) /\ Did(u, 1) /\ Did(u, 1)'
          /\ Did(u, 3)' <=> Did(u, 3) \/ u = t
      BY <1>1, <1>3, <1>5 DEF ThreadData
    <3> QED
      BY <1>1, <1>9, <3>1 DEF RowIsChecked, RowIsUniform, pixel, pixelsEqualBlockStart
  <2>3. ThreadKnows(u)'
    <3>1. ThreadKnows(u) /\ Did(u, 2)
      BY <1>1, <1>5 DEF ThreadData
    <3> QED
      BY <1>1, <3>1 DEF ThreadKnows, Uniform
  <2>4. SubblockIsChecked(u)'
    <3> SUFFICES ASSUME Did(u, 3)', ~Uniform(u[1])
                 PROVE  equal'[4 * u[1] + u[2]]
                          = SubblockIsUniform(u[1], u[2] >= 2, u[2] % 2)
      BY <1>1
         DEF SubblockIsChecked, Uniform, SubblockIsUniform, pixelsEqualBlockStart
    <3>1. CASE u = t
      <4>1. cell \in Cells(0, 4 * Blocks)
        BY OwnCells
      <4>2. equal'[cell] = \A n \in Cells(first, 8) : src[n] = src[first]
        BY <1>2, <1>4, <1>6, <3>1, <4>1
      <4> QED
        BY <1>7, <3>1, <4>2 DEF SubblockIsUniform
    <3>2. CASE u # t
      <4>1. SubblockIsChecked(u) /\ Did(u, 3)
        BY <1>1, <1>3, <3>2 DEF ThreadData
      <4> QED
        BY <1>9, <3>2, <4>1 DEF SubblockIsChecked, pixelsEqualBlockStart
    <3> QED
      BY <3>1, <3>2
  <2> QED
    BY <1>5, <2>1, <2>2, <2>3, <2>4 DEF ThreadData, SubblocksArePacked, ErrorIsStored
<1>11. ASSUME NEW b \in Block PROVE BlockData(b)'
  <2>0. <<b, 0>> \in Thread /\ <<b, 0>>[1] = b /\ <<b, 0>>[2] = 0 /\ b \in Nat
    BY Threads DEF Thread
  <2>1. ASSUME NEW i \in 0 .. 3 PROVE ~Did(<<b, i>>, 7) /\ ~Did(<<b, i>>, 7)'
    <3>1. <<b, i>> \in Thread
      BY DEF Thread
    <3> QED
      BY <1>5, <3>1
  <2>2. BlockIsChecked(b) /\ SolidIsStored(b) /\ BestIsStored(b)
    BY <1>1 DEF BlockData
  <2>3. /\ Did(<<b, 0>>, 1) /\ Did(<<b, 0>>, 2) /\ Did(<<b, 0>>, 2)' /\ ~Did(<<b, 0>>, 6)'
        /\ Did(<<b, 0>>, 3)' <=> Did(<<b, 0>>, 3) \/ <<b, 0>> = t
    BY <1>3, <1>5, <2>0
  <2>4. BlockIsChecked(b)'
    <3>1. <<b, 0>> # t => equal'[4 * b] = equal[4 * b]
      <4>1. <<b, 0>> # t => equal'[4 * b + 0] = equal[4 * b + 0]
        BY <1>9, <2>0
      <4> QED
        BY <2>0, <4>1
    <3> QED
      BY <1>1, <2>2, <2>3, <3>1 DEF BlockIsChecked, Uniform
  <2>5. SolidIsStored(b)' /\ BestIsChosen(b)'
    BY <1>1, <2>2, <2>3 DEF SolidIsStored, BestIsChosen, Uniform
  <2>6. BestIsStored(b)'
    <3>1. stored[b] \in SUBSET [by : 0 .. 3, kind : {"solid", "subblocks"}]
      BY <1>1 DEF TypeOK
    <3> QED
      BY <1>1, <2>1, <2>2, <3>1 DEF BestIsStored, Uniform
  <2> QED
    BY <2>4, <2>5, <2>6 DEF BlockData
<1> QED
  BY <1>3, <1>8, <1>10, <1>11 DEF GroupInvariant

(* The search packs a subblock of one colour at once; the flag it reads    *)
(* was set by the thread that checked this subblock.                       *)
LEMMA SearchKeeps ==
  ASSUME GroupInvariant, NEW t \in Thread, Search(t)
  PROVE  GroupInvariant'
<1> DEFINE flag(s) == 4 * t[1] + s + (IF bFlip(t) THEN 2 ELSE 0)
           take == {s \in 0 .. 1 : /\ ~allEqual[t] /\ Quality >= cMediumQuality
                                   /\ s > 0 \/ bUseColor4(t)
                                   /\ equal[flag(s)]}
           give == {s \in 0 .. 1 : /\ ~Uniform(t[1]) /\ Quality >= cMediumQuality
                                   /\ s > 0 \/ bUseColor4(t)
                                   /\ SubblockIsUniform(t[1], bFlip(t), s)}
<1>1. /\ TypeOK /\ InStep /\ InPart(t, 4)
      /\ \A u \in Thread : ThreadData(u) /\ \A b \in Block : BlockData(b)
      /\ UNCHANGED <<input, src, equal, allEqual, part, stored>>
      /\ packed' = [packed EXCEPT ![t] = take]
      /\ t[1] \in Block /\ t[2] \in 0 .. 3 /\ t = <<t[1], t[2]>> /\ t[1] \in Nat
  BY Threads DEF GroupInvariant, Search, pixelsEqualBlockStart
<1>2. /\ ~Did(t, 4)
      /\ \A u \in Thread, m \in 0 .. 7 :
           /\ Did(u, m)' <=> Did(u, m) \/ (u = t /\ m = 4)
           /\ m < 4 => Did(u, m)
           /\ m > 4 => ~Did(u, m)
      /\ arrived' \in [Thread -> BOOLEAN] /\ InStep'
  BY <1>1, Place
<1>3. packed \in [Thread -> SUBSET (0 .. 1)]
  BY <1>1 DEF TypeOK
<1>4. \A u \in Thread : /\ \A m \in 0 .. 3 : Did(u, m) /\ Did(u, m)'
                        /\ \A m \in 5 .. 7 : ~Did(u, m) /\ ~Did(u, m)'
  BY <1>2
<1>5. allEqual[t] = Uniform(t[1])
  BY <1>1, <1>4 DEF ThreadData, ThreadKnows
<1>6. ASSUME NEW s \in 0 .. 1, ~Uniform(t[1])
      PROVE  equal[flag(s)] = SubblockIsUniform(t[1], bFlip(t), s)
  <2> DEFINE i == s + (IF bFlip(t) THEN 2 ELSE 0)
  <2>1. i \in 0 .. 3 /\ (i >= 2 <=> bFlip(t)) /\ i % 2 = s
    OBVIOUS
  <2>2. flag(s) = 4 * t[1] + i
    BY <1>1
  <2> HIDE DEF i
  <2>3. <<t[1], i>> \in Thread
    BY <1>1, <2>1 DEF Thread
  <2>4. SubblockIsChecked(<<t[1], i>>) /\ Did(<<t[1], i>>, 3)
    BY <1>1, <1>4, <2>3 DEF ThreadData
  <2>5. equal[4 * t[1] + i] = SubblockIsUniform(t[1], i >= 2, i % 2)
    BY <1>6, <2>4 DEF SubblockIsChecked, pixelsEqualBlockStart
  <2>6. (i >= 2) = bFlip(t)
    BY <2>1 DEF bFlip
  <2> QED
    BY <2>1, <2>2, <2>5, <2>6
<1>7. take = give
  BY <1>5, <1>6
<1> HIDE DEF take
<1>8. ASSUME NEW u \in Thread PROVE ThreadData(u)'
  <2>1. /\ PixelsAreLoaded(u) /\ RowIsChecked(u) /\ ThreadKnows(u) /\ SubblockIsChecked(u)
        /\ SubblocksArePacked(u) /\ Did(u, 0) /\ Did(u, 1) /\ Did(u, 2) /\ Did(u, 3)
        /\ Did(u, 0)' /\ Did(u, 1)' /\ Did(u, 3)'
    BY <1>1, <1>4 DEF ThreadData
  <2>2. PixelsAreLoaded(u)'
    BY <1>1, <1>4, <2>1
       DEF PixelsAreLoaded, Vertical, Horizontal, blockStart, pixel
  <2>3. RowIsChecked(u)' /\ ThreadKnows(u)' /\ SubblockIsChecked(u)'
    BY <1>1, <2>1
       DEF RowIsChecked, ThreadKnows, SubblockIsChecked, Uniform, SubblockIsUniform,
           pixelsEqualBlockStart
  <2>4. SubblocksArePacked(u)'
    <3>1. CASE u = t
      <4>1. packed'[t] = give
        BY <1>1, <1>3, <1>7
      <4> QED
        BY <1>1, <3>1, <4>1 DEF SubblocksArePacked, Uniform, SubblockIsUniform
    <3>2. CASE u # t
      <4>1. packed'[u] = packed[u] /\ (Did(u, 4)' <=> Did(u, 4))
        BY <1>1, <1>2, <1>3, <3>2
      <4> QED
        BY <1>1, <2>1, <4>1 DEF SubblocksArePacked, Uniform, SubblockIsUniform
    <3> QED
      BY <3>1, <3>2
  <2> QED
    BY <1>4, <2>2, <2>3, <2>4 DEF ThreadData, ErrorIsStored
<1>9. ASSUME NEW b \in Block PROVE BlockData(b)'
  <2>0. <<b, 0>> \in Thread
    BY DEF Thread
  <2>1. ASSUME NEW i \in 0 .. 3 PROVE ~Did(<<b, i>>, 7) /\ ~Did(<<b, i>>, 7)'
    <3>1. <<b, i>> \in Thread
      BY DEF Thread
    <3> QED
      BY <1>4, <3>1
  <2>2. /\ SolidIsStored(b) /\ BestIsStored(b)
        /\ Did(<<b, 0>>, 2) /\ Did(<<b, 0>>, 2)' /\ Did(<<b, 0>>, 3)' /\ ~Did(<<b, 0>>, 6)'
    BY <1>1, <1>4, <2>0 DEF BlockData
  <2>3. SolidIsStored(b)' /\ BestIsChosen(b)' /\ BlockIsChecked(b)'
    BY <1>1, <2>2 DEF SolidIsStored, BestIsChosen, BlockIsChecked, Uniform
  <2>4. BestIsStored(b)'
    <3>1. stored[b] \in SUBSET [by : 0 .. 3, kind : {"solid", "subblocks"}]
      BY <1>1 DEF TypeOK
    <3> QED
      BY <1>1, <2>1, <2>2, <3>1 DEF BestIsStored, Uniform
  <2> QED
    BY <2>3, <2>4 DEF BlockData
<1>10. TypeOK'
  <2>1. packed' \in [Thread -> SUBSET (0 .. 1)]
    BY <1>1, <1>3, <1>7
  <2> QED
    BY <1>1, <1>2, <2>1 DEF TypeOK
<1> QED
  BY <1>2, <1>8, <1>9, <1>10 DEF GroupInvariant

(* Every thread stores its error, over pixels nobody reads any more.       *)
LEMMA StoreErrorKeeps ==
  ASSUME GroupInvariant, NEW t \in Thread, StoreError(t)
  PROVE  GroupInvariant'
<1> DEFINE cell(u) == 4 * u[1] + u[2]
<1>1. /\ TypeOK /\ InStep /\ InPart(t, 5)
      /\ \A u \in Thread : ThreadData(u) /\ \A b \in Block : BlockData(b)
      /\ UNCHANGED <<input, equal, allEqual, packed, part, stored>>
      /\ src' = [src EXCEPT ![cell(t)] = error(t)]
  BY DEF GroupInvariant, StoreError, gl_LocalInvocationIndex
<1>2. /\ ~Did(t, 5)
      /\ \A u \in Thread, m \in 0 .. 7 :
           /\ Did(u, m)' <=> Did(u, m) \/ (u = t /\ m = 5)
           /\ m < 5 => Did(u, m)
           /\ m > 5 => ~Did(u, m)
      /\ arrived' \in [Thread -> BOOLEAN] /\ InStep'
  BY <1>1, Place
<1>3. src \in [Cells(0, 32 * Blocks) -> Nat] /\ error(t) \in Nat
  <2>1. input.found \in [Thread -> 0 .. FLT_MAX]
    BY <1>1, Etc1BlockAssumption DEF TypeOK
  <2>2. input.found[t] \in Nat /\ FLT_MAX \in Nat
    <3>1. input.found[t] \in 0 .. FLT_MAX
      BY <2>1
    <3>2. FLT_MAX \in Nat
      BY DEF FLT_MAX
    <3>3. \A n \in 0 .. FLT_MAX : n \in Nat
      OBVIOUS
    <3> QED
      BY <3>1, <3>2, <3>3
  <2> QED
    BY <1>1, <2>2 DEF TypeOK, error
<1>4. \A u \in Thread : /\ \A m \in 0 .. 4 : Did(u, m) /\ Did(u, m)'
                        /\ \A m \in 6 .. 7 : ~Did(u, m) /\ ~Did(u, m)'
  BY <1>2
<1>5. \A u \in Thread : cell(u) \in Cells(0, 32 * Blocks) /\ (cell(u) = cell(t) => u = t)
  BY OwnCells
<1>6. ASSUME NEW u \in Thread PROVE ThreadData(u)'
  <2>1. /\ RowIsChecked(u) /\ ThreadKnows(u) /\ SubblockIsChecked(u)
        /\ SubblocksArePacked(u) /\ ErrorIsStored(u)
        /\ Did(u, 0) /\ Did(u, 1) /\ Did(u, 2) /\ Did(u, 3) /\ Did(u, 4)
        /\ Did(u, 1)' /\ Did(u, 3)' /\ ~Did(u, 6)
    BY <1>1, <1>4 DEF ThreadData
  <2>2. PixelsAreLoaded(u)'
    <3>1. Did(t, 5)'
      BY <1>2
    <3> QED
      BY <3>1 DEF PixelsAreLoaded
  <2>3. RowIsChecked(u)' /\ ThreadKnows(u)' /\ SubblockIsChecked(u)'
    BY <1>1, <2>1
       DEF RowIsChecked, ThreadKnows, SubblockIsChecked, Uniform, SubblockIsUniform,
           pixelsEqualBlockStart
  <2>4. SubblocksArePacked(u)'
    BY <1>1, <2>1 DEF SubblocksArePacked, Uniform, SubblockIsUniform
  <2>5. ErrorIsStored(u)'
    <3>1. error(u)' = error(u) /\ (Did(u, 5)' <=> Did(u, 5) \/ u = t)
      BY <1>1, <1>2 DEF error
    <3>2. src'[cell(u)] = IF u = t THEN error(t) ELSE src[cell(u)]
      BY <1>1, <1>3, <1>5
    <3> QED
      BY <2>1, <3>1, <3>2 DEF ErrorIsStored, gl_LocalInvocationIndex
  <2> QED
    BY <2>2, <2>3, <2>4, <2>5 DEF ThreadData
<1>7. ASSUME NEW b \in Block PROVE BlockData(b)'
  <2>0. <<b, 0>> \in Thread
    BY DEF Thread
  <2>1. ASSUME NEW i \in 0 .. 3 PROVE ~Did(<<b, i>>, 7) /\ ~Did(<<b, i>>, 7)'
    <3>1. <<b, i>> \in Thread
      BY DEF Thread
    <3> QED
      BY <1>4, <3>1
  <2>2. /\ SolidIsStored(b) /\ BestIsStored(b)
        /\ Did(<<b, 0>>, 2) /\ Did(<<b, 0>>, 2)' /\ Did(<<b, 0>>, 3)' /\ ~Did(<<b, 0>>, 6)'
    BY <1>1, <1>4, <2>0 DEF BlockData
  <2>3. SolidIsStored(b)' /\ BestIsChosen(b)' /\ BlockIsChecked(b)'
    BY <1>1, <2>2 DEF SolidIsStored, BestIsChosen, BlockIsChecked, Uniform
  <2>4. BestIsStored(b)'
    <3>1. stored[b] \in SUBSET [by : 0 .. 3, kind : {"solid", "subblocks"}]
      BY <1>1 DEF TypeOK
    <3> QED
      BY <1>1, <2>1, <2>2, <3>1 DEF BestIsStored, Uniform
  <2> QED
    BY <2>3, <2>4 DEF BlockData
<1>8. TypeOK'
  <2>1. src' \in [Cells(0, 32 * Blocks) -> Nat]
    BY <1>1, <1>3
  <2> QED
    BY <1>1, <1>2, <2>1 DEF TypeOK
<1> QED
  BY <1>2, <1>6, <1>7, <1>8 DEF GroupInvariant

(* Thread 0 of each block chooses the first of least error.                *)
LEMMA ChooseBestKeeps ==
  ASSUME GroupInvariant, NEW t \in Thread, ChooseBest(t)
  PROVE  GroupInvariant'
<1> DEFINE cell(u) == 4 * u[1] + u[2]
<1>1. /\ TypeOK /\ InStep /\ InPart(t, 6)
      /\ \A u \in Thread : ThreadData(u) /\ \A b \in Block : BlockData(b)
      /\ UNCHANGED <<input, equal, allEqual, packed, part, stored>>
      /\ t[1] \in Block /\ t[2] \in 0 .. 3 /\ t = <<t[1], t[2]>> /\ t[1] \in Nat
  BY Threads DEF GroupInvariant, ChooseBest
<1>2. /\ ~Did(t, 6)
      /\ \A u \in Thread, m \in 0 .. 7 :
           /\ Did(u, m)' <=> Did(u, m) \/ (u = t /\ m = 6)
           /\ m < 6 => Did(u, m)
           /\ m > 6 => ~Did(u, m)
      /\ arrived' \in [Thread -> BOOLEAN] /\ InStep'
  BY <1>1, Place
<1>3. src \in [Cells(0, 32 * Blocks) -> Nat]
  BY <1>1 DEF TypeOK
<1>4. \A u \in Thread : /\ \A m \in 0 .. 5 : Did(u, m) /\ Did(u, m)'
                        /\ ~Did(u, 7) /\ ~Did(u, 7)'
  BY <1>2
<1>5. \A u \in Thread : cell(u) \in Cells(0, 32 * Blocks) /\ (cell(u) = cell(t) => u = t)
  BY OwnCells
<1>6. ASSUME t[2] = 0
      PROVE  \E best \in 0 .. 3 :
               /\ src' = [src EXCEPT ![4 * t[1]] = best]
               /\ \A i \in 0 .. 3 : error(<<t[1], best>>) <= error(<<t[1], i>>)
  <2>1. PICK best \in 0 .. 3 :
          /\ \A i \in 0 .. 3 : \/ src[4 * t[1] + t[2] + best] < src[4 * t[1] + t[2] + i]
                               \/ /\ src[4 * t[1] + t[2] + best] = src[4 * t[1] + t[2] + i]
                                  /\ best <= i
          /\ src' = [src EXCEPT ![4 * t[1] + t[2]] = best]
    BY <1>6 DEF ChooseBest, gl_LocalInvocationIndex
  <2>2. 4 * t[1] + t[2] = 4 * t[1]
    BY <1>1, <1>6
  <2>3. ASSUME NEW i \in 0 .. 3
        PROVE  src[4 * t[1] + i] = error(<<t[1], i>>) /\ src[4 * t[1] + i] \in Nat
    <3>1. <<t[1], i>> \in Thread /\ cell(<<t[1], i>>) = 4 * t[1] + i
      BY <1>1 DEF Thread
    <3>2. ErrorIsStored(<<t[1], i>>) /\ Did(<<t[1], i>>, 5)
      BY <1>1, <1>4, <3>1 DEF ThreadData
    <3>3. i = 0 => ~Did(<<t[1], i>>, 6)
      BY <1>1, <1>2, <1>6
    <3>4. src[4 * t[1] + i] \in Nat
      BY <1>3, <1>5, <3>1
    <3> QED
      BY <3>1, <3>2, <3>3, <3>4 DEF ErrorIsStored, gl_LocalInvocationIndex
  <2>4. \A i \in 0 .. 3 : src[4 * t[1] + best] <= src[4 * t[1] + i]
    BY <2>1, <2>2, <2>3
  <2> QED
    BY <2>1, <2>2, <2>3, <2>4
<1>7. t[2] # 0 => src' = src
  BY DEF ChooseBest
<1>8. ASSUME NEW u \in Thread, u # t \/ u[2] # 0 PROVE src'[cell(u)] = src[cell(u)]
  <2>1. CASE t[2] = 0
    <3>1. cell(t) = 4 * t[1] /\ u # t
      BY <1>1, <1>8, <2>1
    <3> QED
      BY <1>3, <1>5, <1>6, <2>1, <3>1
  <2> QED
    BY <1>7, <2>1
<1>9. ASSUME NEW u \in Thread PROVE ThreadData(u)'
  <2>1. /\ RowIsChecked(u) /\ ThreadKnows(u) /\ SubblockIsChecked(u)
        /\ SubblocksArePacked(u) /\ ErrorIsStored(u)
        /\ Did(u, 0) /\ Did(u, 1) /\ Did(u, 2) /\ Did(u, 3) /\ Did(u, 4) /\ Did(u, 5)
        /\ Did(u, 1)' /\ Did(u, 3)' /\ Did(u, 5)'
    BY <1>1, <1>4 DEF ThreadData
  <2>2. PixelsAreLoaded(u)'
    BY <2>1 DEF PixelsAreLoaded
  <2>3. RowIsChecked(u)' /\ ThreadKnows(u)' /\ SubblockIsChecked(u)'
    BY <1>1, <2>1
       DEF RowIsChecked, ThreadKnows, SubblockIsChecked, Uniform, SubblockIsUniform,
           pixelsEqualBlockStart
  <2>4. SubblocksArePacked(u)'
    BY <1>1, <2>1 DEF SubblocksArePacked, Uniform, SubblockIsUniform
  <2>5. ErrorIsStored(u)'
    <3>1. error(u)' = error(u) /\ (Did(u, 6)' <=> Did(u, 6) \/ u = t)
      BY <1>1, <1>2 DEF error
    <3> QED
      BY <1>8, <2>1, <3>1 DEF ErrorIsStored, gl_LocalInvocationIndex
  <2> QED
    BY <2>2, <2>3, <2>4, <2>5 DEF ThreadData
<1>10. ASSUME NEW b \in Block PROVE BlockData(b)'
  <2>0. <<b, 0>> \in Thread /\ <<b, 0>>[1] = b /\ <<b, 0>>[2] = 0 /\ b \in Nat
    BY Threads DEF Thread
  <2>1. ASSUME NEW i \in 0 .. 3 PROVE ~Did(<<b, i>>, 7) /\ ~Did(<<b, i>>, 7)'
    <3>1. <<b, i>> \in Thread
      BY DEF Thread
    <3> QED
      BY <1>4, <3>1
  <2>2. /\ SolidIsStored(b) /\ BestIsStored(b) /\ BestIsChosen(b)
        /\ Did(<<b, 0>>, 2) /\ Did(<<b, 0>>, 2)' /\ Did(<<b, 0>>, 3)'
        /\ Did(<<b, 0>>, 6)' <=> Did(<<b, 0>>, 6) \/ <<b, 0>> = t
    BY <1>1, <1>2, <1>4, <2>0 DEF BlockData
  <2>3. SolidIsStored(b)' /\ BlockIsChecked(b)'
    BY <1>1, <2>2 DEF SolidIsStored, BlockIsChecked, Uniform
  <2>4. BestIsStored(b)'
    <3>1. stored[b] \in SUBSET [by : 0 .. 3, kind : {"solid", "subblocks"}]
      BY <1>1 DEF TypeOK
    <3> QED
      BY <1>1, <2>1, <2>2, <3>1 DEF BestIsStored, Uniform
  <2>5. BestIsChosen(b)'
    <3>1. \A u : error(u)' = error(u)
      BY <1>1 DEF error
    <3>2. CASE <<b, 0>> = t
      <4>1. t[1] = b /\ t[2] = 0
        BY <3>2
      <4>2. PICK best \in 0 .. 3 :
               /\ src' = [src EXCEPT ![4 * b] = best]
               /\ \A i \in 0 .. 3 : error(<<b, best>>) <= error(<<b, i>>)
        BY <1>6, <4>1
      <4>3. 4 * b \in Cells(0, 32 * Blocks)
        <5>1. cell(t) = 4 * b
          BY <2>0, <4>1
        <5> QED
          BY <1>5, <5>1
      <4>4. src'[4 * b] = best
        BY <1>3, <4>2, <4>3
      <4> QED
        BY <3>1, <4>2, <4>4 DEF BestIsChosen
    <3>3. CASE <<b, 0>> # t
      <4>1. cell(<<b, 0>>) = 4 * b
        BY <2>0
      <4>2. src'[4 * b] = src[4 * b]
        BY <1>8, <2>0, <3>3, <4>1
      <4> QED
        BY <2>2, <3>1, <3>3, <4>2 DEF BestIsChosen
    <3> QED
      BY <3>2, <3>3
  <2> QED
    BY <2>3, <2>4, <2>5 DEF BlockData
<1>11. TypeOK'
  <2>1. src' \in [Cells(0, 32 * Blocks) -> Nat]
    BY <1>3, <1>6, <1>7
  <2> QED
    BY <1>1, <1>2, <2>1 DEF TypeOK
<1> QED
  BY <1>2, <1>9, <1>10, <1>11 DEF GroupInvariant

(* The thread thread 0 chose stores the block.                             *)
LEMMA FinishKeeps ==
  ASSUME GroupInvariant, NEW t \in Thread, Finish(t)
  PROVE  GroupInvariant'
<1> DEFINE mine == [by |-> t[2], kind |-> "subblocks"]
<1>1. /\ TypeOK /\ InStep /\ InPart(t, 7)
      /\ \A u \in Thread : ThreadData(u) /\ \A b \in Block : BlockData(b)
      /\ UNCHANGED <<input, src, equal, allEqual, packed, part>>
      /\ t[1] \in Block /\ t[2] \in 0 .. 3 /\ t = <<t[1], t[2]>>
  BY Threads DEF GroupInvariant, Finish
<1>2. IF src[4 * t[1]] = t[2] /\ ~allEqual[t]
      THEN stored' = [stored EXCEPT ![t[1]] = @ \cup {mine}]
      ELSE stored' = stored
  BY DEF Finish, Store, pixelsEqualBlockStart
<1>3. /\ ~Did(t, 7)
      /\ \A u \in Thread, m \in 0 .. 7 :
           /\ Did(u, m)' <=> Did(u, m) \/ (u = t /\ m = 7)
           /\ m < 7 => Did(u, m)
      /\ arrived' \in [Thread -> BOOLEAN] /\ InStep'
  BY <1>1, Place
<1>4. stored \in [Block -> SUBSET [by : 0 .. 3, kind : {"solid", "subblocks"}]]
  BY <1>1 DEF TypeOK
<1>5. \A u \in Thread, m \in 0 .. 6 : Did(u, m) /\ Did(u, m)'
  BY <1>3
<1>6. allEqual[t] = Uniform(t[1])
  BY <1>1, <1>5 DEF ThreadData, ThreadKnows
<1>7. mine \in [by : 0 .. 3, kind : {"solid", "subblocks"}]
  BY <1>1
<1> HIDE DEF mine
<1>8. TypeOK'
  <2>1. stored' \in [Block -> SUBSET [by : 0 .. 3, kind : {"solid", "subblocks"}]]
    BY <1>1, <1>2, <1>4, <1>7
  <2> QED
    BY <1>1, <1>3, <2>1 DEF TypeOK
<1>9. ASSUME NEW u \in Thread PROVE ThreadData(u)'
  <2>1. /\ ThreadKnows(u) /\ SubblockIsChecked(u) /\ SubblocksArePacked(u)
        /\ Did(u, 0) /\ Did(u, 2) /\ Did(u, 3) /\ Did(u, 4) /\ Did(u, 5)
        /\ Did(u, 3)' /\ Did(u, 5)'
        /\ ErrorIsStored(u) /\ Did(u, 6) /\ Did(u, 6)'
    BY <1>1, <1>5 DEF ThreadData
  <2>2. PixelsAreLoaded(u)' /\ RowIsChecked(u)'
    BY <2>1 DEF PixelsAreLoaded, RowIsChecked
  <2>3. ThreadKnows(u)' /\ SubblockIsChecked(u)'
    BY <1>1, <2>1
       DEF ThreadKnows, SubblockIsChecked, Uniform, SubblockIsUniform, pixelsEqualBlockStart
  <2>4. SubblocksArePacked(u)'
    BY <1>1, <2>1 DEF SubblocksArePacked, Uniform, SubblockIsUniform
  <2>5. ErrorIsStored(u)'
    BY <1>1, <2>1 DEF ErrorIsStored, gl_LocalInvocationIndex, error
  <2> QED
    BY <2>2, <2>3, <2>4, <2>5 DEF ThreadData
<1>10. ASSUME NEW b \in Block PROVE BlockData(b)'
  <2>0. <<b, 0>> \in Thread
    BY DEF Thread
  <2>1. /\ SolidIsStored(b) /\ BestIsStored(b) /\ BestIsChosen(b)
        /\ Did(<<b, 0>>, 2) /\ Did(<<b, 0>>, 2)' /\ Did(<<b, 0>>, 3)'
        /\ Did(<<b, 0>>, 6) /\ Did(<<b, 0>>, 6)'
    BY <1>1, <1>5, <2>0 DEF BlockData
  <2>2. BlockIsChecked(b)' /\ BestIsChosen(b)'
    BY <1>1, <2>1 DEF BlockIsChecked, BestIsChosen, error
  <2>3. SolidIsStored(b)'
    <3>1. Uniform(b) => stored'[b] = stored[b]
      BY <1>1, <1>2, <1>4, <1>6
    <3> QED
      BY <1>1, <2>1, <3>1 DEF SolidIsStored, Uniform
  <2>4. BestIsStored(b)'
    <3> SUFFICES ASSUME ~Uniform(b)
                 PROVE  /\ \A s \in stored'[b] :
                             /\ Did(<<b, s.by>>, 7)' /\ src[4 * b] = s.by
                             /\ s.kind = "subblocks"
                        /\ \A i \in 0 .. 3 : Did(<<b, i>>, 7)' /\ src[4 * b] = i =>
                             [by |-> i, kind |-> "subblocks"] \in stored'[b]
      BY <1>1 DEF BestIsStored, Uniform
    <3>1. ASSUME NEW i \in 0 .. 3
          PROVE  Did(<<b, i>>, 7)' <=> Did(<<b, i>>, 7) \/ <<b, i>> = t
      <4>1. <<b, i>> \in Thread
        BY DEF Thread
      <4> QED
        BY <1>3, <4>1
    <3>2. ASSUME NEW s \in stored[b]
          PROVE  /\ Did(<<b, s.by>>, 7)' /\ src[4 * b] = s.by /\ s.kind = "subblocks"
      <4>1. s.by \in 0 .. 3 /\ Did(<<b, s.by>>, 7)
        BY <1>4, <2>1 DEF BestIsStored
      <4>2. Did(<<b, s.by>>, 7)'
        BY <3>1, <4>1
      <4> QED
        BY <2>1, <4>2 DEF BestIsStored
    <3>3. CASE t[1] = b /\ src[4 * b] = t[2]
      <4>1. stored' = [stored EXCEPT ![b] = @ \cup {mine}]
        BY <1>2, <1>6, <3>3
      <4>2. stored'[b] = stored[b] \cup {mine}
        BY <1>4, <4>1
      <4>3. mine.by = t[2] /\ mine.kind = "subblocks"
        BY DEF mine
      <4>4. Did(<<b, t[2]>>, 7)'
        BY <1>1, <3>1, <3>3
      <4>5. \A i \in 0 .. 3 : src[4 * b] = i => [by |-> i, kind |-> "subblocks"] = mine
        BY <3>3 DEF mine
      <4>6. \A s \in stored'[b] : /\ Did(<<b, s.by>>, 7)' /\ src[4 * b] = s.by
                                  /\ s.kind = "subblocks"
        BY <3>2, <3>3, <4>2, <4>3, <4>4
      <4> QED
        BY <4>2, <4>5, <4>6
    <3>4. CASE t[1] = b /\ src[4 * b] # t[2]
      <4>1. stored' = stored
        BY <1>2, <3>4
      <4>2. ASSUME NEW i \in 0 .. 3, Did(<<b, i>>, 7)', src[4 * b] = i
            PROVE  [by |-> i, kind |-> "subblocks"] \in stored[b]
        <5>1. <<b, i>> # t
          BY <3>4, <4>2
        <5>2. Did(<<b, i>>, 7)
          BY <3>1, <4>2, <5>1
        <5> QED
          BY <2>1, <4>2, <5>2 DEF BestIsStored
      <4> QED
        BY <3>2, <4>1, <4>2
    <3>5. CASE t[1] # b
      <4>1. stored'[b] = stored[b]
        BY <1>1, <1>2, <1>4, <3>5
      <4>2. ASSUME NEW i \in 0 .. 3, Did(<<b, i>>, 7)', src[4 * b] = i
            PROVE  [by |-> i, kind |-> "subblocks"] \in stored[b]
        <5>1. <<b, i>> # t
          BY <3>5
        <5>2. Did(<<b, i>>, 7)
          BY <3>1, <4>2, <5>1
        <5> QED
          BY <2>1, <4>2, <5>2 DEF BestIsStored
      <4> QED
        BY <3>2, <4>1, <4>2
    <3> QED
      BY <3>3, <3>4, <3>5
  <2> QED
    BY <2>2, <2>3, <2>4 DEF BlockData
<1> QED
  BY <1>3, <1>8, <1>9, <1>10 DEF GroupInvariant

(* The invariant speaks of what threads have done, not of where they wait. *)
LEMMA StillKeeps ==
  ASSUME GroupInvariant, TypeOK', InStep',
         UNCHANGED <<input, src, equal, allEqual, packed, stored>>,
         \A u \in Thread, m \in 0 .. 7 : Did(u, m)' <=> Did(u, m)
  PROVE  GroupInvariant'
<1>1. ASSUME NEW u \in Thread PROVE ThreadData(u)'
  <2>1. ThreadData(u) /\ \A m \in 0 .. 7 : Did(u, m)' <=> Did(u, m)
    BY DEF GroupInvariant
  <2>2. PixelsAreLoaded(u)'
    BY <2>1 DEF ThreadData, PixelsAreLoaded, Vertical, Horizontal, blockStart, pixel
  <2>3. /\ Did(u, 0)' <=> Did(u, 0)
        /\ Did(u, 1)' <=> Did(u, 1)
        /\ Did(u, 2)' <=> Did(u, 2)
        /\ Did(u, 3)' <=> Did(u, 3)
    BY <2>1
  <2>4. RowIsUniform(u)' = RowIsUniform(u)
    BY DEF RowIsUniform, pixel
  <2>6. RowIsChecked(u)'
    <3>1. RowIsChecked(u) /\ equal' = equal
      BY <2>1 DEF ThreadData
    <3> QED
      BY <2>3, <2>4, <3>1 DEF RowIsChecked
  <2>7. ThreadKnows(u)'
    BY <2>1, <2>3 DEF ThreadData, ThreadKnows, Uniform
  <2>8. Uniform(u[1])' <=> Uniform(u[1])
    BY DEF Uniform
  <2>9. SubblockIsUniform(u[1], u[2] >= 2, u[2] % 2)'
           = SubblockIsUniform(u[1], u[2] >= 2, u[2] % 2)
    BY DEF SubblockIsUniform
  <2>10. SubblockIsChecked(u)'
    <3>1. SubblockIsChecked(u) /\ equal' = equal
      BY <2>1 DEF ThreadData
    <3> QED
      BY <2>3, <2>8, <2>9, <3>1 DEF SubblockIsChecked
  <2>5. SubblocksArePacked(u)' /\ ErrorIsStored(u)'
    BY <2>1 DEF ThreadData, SubblocksArePacked, Uniform, SubblockIsUniform, ErrorIsStored,
                gl_LocalInvocationIndex, error
  <2> QED
    BY <2>2, <2>5, <2>6, <2>7, <2>10 DEF ThreadData
<1>2. ASSUME NEW b \in Block PROVE BlockData(b)'
  <2>1. BlockData(b) /\ stored[b] \in SUBSET [by : 0 .. 3, kind : {"solid", "subblocks"}]
    BY DEF GroupInvariant, TypeOK
  <2>2. ASSUME NEW i \in 0 .. 3, NEW m \in 0 .. 7
        PROVE  Did(<<b, i>>, m)' <=> Did(<<b, i>>, m)
    <3>1. <<b, i>> \in Thread
      BY DEF Thread
    <3> QED
      BY <3>1
  <2>3. /\ Did(<<b, 0>>, 1)' <=> Did(<<b, 0>>, 1)
        /\ Did(<<b, 0>>, 2)' <=> Did(<<b, 0>>, 2)
        /\ Did(<<b, 0>>, 3)' <=> Did(<<b, 0>>, 3)
        /\ Did(<<b, 0>>, 6)' <=> Did(<<b, 0>>, 6)
    BY <2>2
  <2>4. BlockIsChecked(b)' /\ BestIsChosen(b)'
    BY <2>1, <2>3 DEF BlockData, BlockIsChecked, BestIsChosen, Uniform, error
  <2>5. SolidIsStored(b)'
    BY <2>1, <2>3 DEF BlockData, SolidIsStored, Uniform
  <2>6. BestIsStored(b)'
    <3>1. /\ \A i \in 0 .. 3 : Did(<<b, i>>, 7)' <=> Did(<<b, i>>, 7)
          /\ \A s \in stored[b] : s.by \in 0 .. 3
      BY <2>1, <2>2
    <3> QED
      BY <2>1, <3>1 DEF BlockData, BestIsStored, Uniform
  <2> QED
    BY <2>4, <2>5, <2>6 DEF BlockData
<1> QED
  BY <1>1, <1>2 DEF GroupInvariant

-----------------------------------------------------------------------------
(* The invariant of the work group.                                        *)

(* It holds when the work group starts...                                  *)
LEMMA InitGroup == Init => GroupInvariant
<1> SUFFICES ASSUME Init PROVE GroupInvariant
  OBVIOUS
<1>1. TypeOK
  BY DEF Init, TypeOK
<1>2. ASSUME NEW t \in Thread, NEW n \in 0 .. 7 PROVE ~Did(t, n)
  BY DEF Init, Did
<1>3. InStep
  BY DEF Init, InStep
<1>4. ASSUME NEW t \in Thread PROVE ThreadData(t)
  BY <1>2 DEF ThreadData, PixelsAreLoaded, RowIsChecked, ThreadKnows, SubblockIsChecked,
              SubblocksArePacked, ErrorIsStored
<1>5. ASSUME NEW b \in Block PROVE BlockData(b)
  <2>1. stored[b] = {}
    BY DEF Init
  <2>2. ASSUME NEW i \in 0 .. 3, NEW n \in 0 .. 7 PROVE ~Did(<<b, i>>, n)
    <3>1. <<b, i>> \in Thread
      BY DEF Thread
    <3> QED
      BY <1>2, <3>1
  <2>3. ~Did(<<b, 0>>, 1) /\ ~Did(<<b, 0>>, 2) /\ ~Did(<<b, 0>>, 6)
    BY <2>2
  <2>4. BestIsStored(b)
    BY <2>1, <2>2 DEF BestIsStored
  <2> QED
    BY <2>1, <2>3, <2>4 DEF BlockData, BlockIsChecked, BestIsChosen, SolidIsStored
<1> QED
  BY <1>1, <1>3, <1>4, <1>5 DEF GroupInvariant

(* ... and every step of a thread keeps it.                                *)
LEMMA NextGroup == GroupInvariant /\ [Next]_vars => GroupInvariant'
<1> SUFFICES ASSUME GroupInvariant, [Next]_vars PROVE GroupInvariant'
  OBVIOUS
<1>1. ASSUME NEW t \in Thread, PassBarrier(t) PROVE GroupInvariant'
  <2>1. TypeOK /\ InStep
    BY DEF GroupInvariant
  <2>2. /\ \A u \in Thread, m \in 0 .. 7 : Did(u, m)' <=> Did(u, m)
        /\ InStep' /\ part' \in [Thread -> 0 .. 7] /\ arrived' \in [Thread -> BOOLEAN]
    BY <1>1, <2>1, Pass
  <2>3. UNCHANGED <<input, src, equal, allEqual, packed, stored>>
    BY <1>1 DEF PassBarrier
  <2>4. TypeOK'
    BY <2>1, <2>2, <2>3 DEF TypeOK
  <2> QED
    BY <2>2, <2>3, <2>4, StillKeeps
<1>2. CASE UNCHANGED vars
  <2>1. /\ TypeOK' /\ InStep' /\ UNCHANGED <<input, src, equal, allEqual, packed, stored>>
        /\ \A u \in Thread, m \in 0 .. 7 : Did(u, m)' <=> Did(u, m)
    BY <1>2 DEF vars, GroupInvariant, TypeOK, InStep, Did
  <2> QED
    BY <2>1, StillKeeps
<1> QED
  BY <1>1, <1>2, LoadKeeps, CheckBlockKeeps, PackSolidKeeps, CheckSubblockKeeps,
     SearchKeeps, StoreErrorKeeps, ChooseBestKeeps, FinishKeeps DEF Next, Terminating

(* The invariant holds throughout.                                         *)
LEMMA GroupIsInvariant == Spec => []GroupInvariant
BY InitGroup, NextGroup, PTL DEF Spec

(* Two threads between the same two barriers touch different cells of      *)
(* shared memory, or only read: with any number of blocks in the work      *)
(* group the errors overwrite pixels nobody reads any more.                *)
THEOREM SharedMemoryHasNoRace == Spec => []NoDataRace
<1>1. GroupInvariant => NoDataRace
  <2> SUFFICES ASSUME TypeOK, InStep, NEW t \in Thread, NEW u \in Thread, t # u,
                      ~arrived[t], ~arrived[u]
               PROVE  /\ SrcWritten(t) \cap (SrcRead(u) \cup SrcWritten(u)) = {}
                      /\ EqualWritten(t) \cap (EqualRead(u) \cup EqualWritten(u)) = {}
    BY DEF GroupInvariant, NoDataRace
  <2>1. part[t] = part[u] /\ part[t] \in 0 .. 7
    BY DEF InStep, TypeOK
  <2>2. /\ t[1] \in Nat /\ t[2] \in 0 .. 3 /\ u[1] \in Nat /\ u[2] \in 0 .. 3
        /\ ~(t[1] = u[1] /\ t[2] = u[2])
    BY Threads
  <2>3. SrcWritten(t) \cap (SrcRead(u) \cup SrcWritten(u)) = {}
    <3>1. CASE part[t] = 0
      <4>1. SrcRead(u) = {}
        BY <2>1, <3>1 DEF SrcRead
      <4>2. /\ SrcWritten(t) = {Vertical(t, x) : x \in 0 .. 3}
                                 \cup {Horizontal(t, x) : x \in 0 .. 3}
            /\ SrcWritten(u) = {Vertical(u, x) : x \in 0 .. 3}
                                 \cup {Horizontal(u, x) : x \in 0 .. 3}
        BY <2>1, <3>1 DEF SrcWritten
      <4>3. \A x, y \in 0 .. 3 : /\ Vertical(t, x) # Vertical(u, y)
                                 /\ Horizontal(t, x) # Horizontal(u, y)
                                 /\ Vertical(t, x) # Horizontal(u, y)
                                 /\ Horizontal(t, x) # Vertical(u, y)
        BY PixelCells
      <4> QED
        BY <4>1, <4>2, <4>3
    <3>2. CASE part[t] = 5
      <4>1. /\ SrcRead(u) = {} /\ SrcWritten(t) = {4 * t[1] + t[2]}
            /\ SrcWritten(u) = {4 * u[1] + u[2]}
        BY <2>1, <3>2 DEF SrcRead, SrcWritten, gl_LocalInvocationIndex
      <4> QED
        BY <4>1, OwnCells
    <3>3. CASE part[t] = 6
      <4>1. /\ SrcWritten(t) = IF t[2] = 0 THEN {4 * t[1] + t[2]} ELSE {}
            /\ SrcWritten(u) = IF u[2] = 0 THEN {4 * u[1] + u[2]} ELSE {}
            /\ SrcRead(u) = IF u[2] = 0 THEN Cells(4 * u[1] + u[2] + 1, 3) ELSE {}
        BY <2>1, <3>3 DEF SrcRead, SrcWritten, gl_LocalInvocationIndex
      <4>2. t[2] = 0 /\ u[2] = 0 =>
              4 * t[1] + t[2] \notin Cells(4 * u[1] + u[2] + 1, 3) \cup {4 * u[1] + u[2]}
        BY <2>2 DEF Cells
      <4> QED
        BY <4>1, <4>2
    <3>4. CASE part[t] \notin {0, 5, 6}
      BY <3>4 DEF SrcWritten
    <3> QED
      BY <3>1, <3>2, <3>3, <3>4
  <2>4. EqualWritten(t) \cap (EqualRead(u) \cup EqualWritten(u)) = {}
    <3>1. CASE part[t] \in {0, 3}
      <4>1. /\ EqualRead(u) = {} /\ EqualWritten(t) \subseteq {4 * t[1] + t[2]}
            /\ EqualWritten(u) \subseteq {4 * u[1] + u[2]}
        BY <2>1, <3>1 DEF EqualRead, EqualWritten, pixelsEqualBlockStart
      <4> QED
        BY <4>1, OwnCells
    <3>2. CASE part[t] = 1
      <4>1. /\ EqualWritten(t) = IF t[2] = 0 THEN {4 * t[1]} ELSE {}
            /\ EqualWritten(u) = IF u[2] = 0 THEN {4 * u[1]} ELSE {}
            /\ EqualRead(u) = IF u[2] = 0 THEN Cells(4 * u[1] + 1, 3) ELSE {}
        BY <2>1, <3>2 DEF EqualRead, EqualWritten, pixelsEqualBlockStart
      <4>2. t[2] = 0 /\ u[2] = 0 =>
              4 * t[1] \notin Cells(4 * u[1] + 1, 3) \cup {4 * u[1]}
        BY <2>2 DEF Cells
      <4> QED
        BY <4>1, <4>2
    <3>3. CASE part[t] \notin {0, 1, 3}
      BY <3>3 DEF EqualWritten
    <3> QED
      BY <3>1, <3>2, <3>3
  <2> QED
    BY <2>3, <2>4
<1> QED
  BY <1>1, GroupIsInvariant, PTL

(* What a thread has done in a part, every thread has in the parts before. *)
LEMMA DoneBefore ==
  ASSUME TypeOK, InStep, NEW t \in Thread, NEW n \in 0 .. 7, Did(t, n),
         NEW u \in Thread, NEW m \in 0 .. 7, m < n
  PROVE  Did(u, m)
<1>1. part[t] \in 0 .. 7 /\ part[u] \in 0 .. 7
  BY DEF TypeOK
<1> QED
  BY <1>1 DEF InStep, Did

(* Each block is stored once, whatever its neighbours in the work group    *)
(* are: a block of one colour by the solid packer, another by a thread of  *)
(* least error that found something.                                       *)
THEOREM EachBlockIsStoredOnce == Spec => []BlockIsStoredOnce
<1>1. GroupInvariant => BlockIsStoredOnce
  <2> SUFFICES ASSUME GroupInvariant, NEW b \in Block
               PROVE  /\ Cardinality(stored[b]) <= 1
                      /\ Done => stored[b] # {}
                      /\ \A s \in stored[b] :
                           IF Uniform(b) THEN s.kind = "solid"
                                         ELSE s.kind = "subblocks" /\ IsBest(<<b, s.by>>)
    BY DEF BlockIsStoredOnce
  <2>1. /\ SolidIsStored(b) /\ BestIsStored(b) /\ BestIsChosen(b) /\ TypeOK /\ InStep
        /\ \A t \in Thread : ThreadKnows(t)
    BY DEF GroupInvariant, BlockData, ThreadData
  <2>2. stored[b] \in SUBSET [by : 0 .. 3, kind : {"solid", "subblocks"}]
    BY <2>1 DEF TypeOK
  <2>3. /\ <<b, 0>> \in Thread /\ <<b, 1>> \in Thread /\ <<b, 2>> \in Thread
        /\ <<b, 3>> \in Thread /\ \A i \in 0 .. 3 : <<b, i>> \in Thread
    BY DEF Thread
  <2>4. Cardinality(stored[b]) <= 1
    <3>1. \E x : stored[b] \subseteq {x}
      <4>1. CASE Uniform(b)
        BY <2>1, <4>1 DEF SolidIsStored
      <4>2. CASE ~Uniform(b)
        <5>1. \A s \in stored[b] : s = [by |-> src[4 * b], kind |-> "subblocks"]
          BY <2>1, <2>2, <4>2 DEF BestIsStored
        <5> QED
          BY <5>1
      <4> QED
        BY <4>1, <4>2
    <3>2. PICK x : stored[b] \subseteq {x}
      BY <3>1
    <3>3. stored[b] = {} \/ stored[b] = {x}
      BY <3>2
    <3>4. Cardinality({}) = 0 /\ Cardinality({x}) = 1
      <4>1. Cardinality({}) = 0
        BY FS_EmptySet
      <4>2. Cardinality({x}) = 1
        BY FS_Singleton
      <4> QED
        BY <4>1, <4>2
    <3> QED
      BY <3>3, <3>4
  <2>5. ASSUME Done PROVE stored[b] # {}
    <3>1. ASSUME NEW i \in 0 .. 3 PROVE Did(<<b, i>>, 7)
      BY <2>3, <2>5 DEF Done, Did
    <3>2. Did(<<b, 0>>, 2) /\ Did(<<b, 0>>, 6)
      BY <2>3, <2>5 DEF Done, Did
    <3> QED
      BY <2>1, <3>1, <3>2 DEF SolidIsStored, BestIsStored, BestIsChosen
  <2>6. ASSUME NEW s \in stored[b], ~Uniform(b) PROVE s.kind = "subblocks" /\ IsBest(<<b, s.by>>)
    <3>1. /\ s.by \in 0 .. 3 /\ Did(<<b, s.by>>, 7) /\ src[4 * b] = s.by
          /\ s.kind = "subblocks"
      BY <2>1, <2>2, <2>6 DEF BestIsStored
    <3>2. <<b, s.by>> \in Thread
      BY <2>3, <3>1
    <3>3. Did(<<b, 0>>, 6)
      BY <2>1, <2>3, <3>1, <3>2, DoneBefore
    <3>4. ASSUME NEW i \in 0 .. 3 PROVE error(<<b, i>>) = input.found[<<b, i>>]
      <4>1. <<b, i>> \in Thread /\ <<b, i>>[1] = b
        BY <2>3
      <4>2. Did(<<b, i>>, 2)
        BY <2>1, <3>1, <3>2, <4>1, DoneBefore
      <4>3. allEqual[<<b, i>>] = FALSE
        BY <2>1, <2>6, <4>1, <4>2 DEF ThreadKnows
      <4> QED
        BY <4>3 DEF error
    <3>5. \A i \in 0 .. 3 : input.found[<<b, s.by>>] <= input.found[<<b, i>>]
      BY <2>1, <3>1, <3>3, <3>4 DEF BestIsChosen
    <3>6. input.found[<<b, s.by>>] < FLT_MAX
      <4>1. /\ input.found \in [Thread -> 0 .. FLT_MAX]
            /\ \A t \in Thread : t[2] >= 2 => input.found[t] < FLT_MAX
        BY <2>1, Etc1BlockAssumption DEF TypeOK
      <4>2. input.found[<<b, 2>>] < FLT_MAX
        BY <2>3, <4>1
      <4>3. input.found[<<b, s.by>>] <= input.found[<<b, 2>>]
        BY <3>5
      <4>4. FLT_MAX \in Int /\ 0 .. FLT_MAX \subseteq Int
        BY DEF FLT_MAX
      <4>5. <<b, 2>> \in Thread
        BY <2>3
      <4>6. input.found[<<b, s.by>>] \in Int
        BY <3>2, <4>1, <4>4
      <4>7. input.found[<<b, 2>>] \in Int
        BY <4>1, <4>4, <4>5
      <4> QED
        BY <4>2, <4>3, <4>4, <4>6, <4>7
    <3>7. <<b, s.by>>[1] = b
      OBVIOUS
    <3> QED
      BY <3>1, <3>5, <3>6, <3>7 DEF IsBest
  <2>7. ASSUME NEW s \in stored[b], Uniform(b) PROVE s.kind = "solid"
    BY <2>1, <2>7 DEF SolidIsStored
  <2> QED
    BY <2>4, <2>5, <2>6, <2>7
<1> QED
  BY <1>1, GroupIsInvariant, PTL

(* The packer for subblocks of one colour gets just those, for every split *)
(* of the block and every quality that asks for it.                        *)
THEOREM PackedSubblocksAreUniform == Spec => []PackedIsUniform
<1>1. GroupInvariant => PackedIsUniform
  <2> SUFFICES ASSUME GroupInvariant, NEW t \in Thread, NEW s \in 0 .. 1,
                      part[t] >= 5, ~allEqual[t], Quality >= cMediumQuality,
                      s > 0 \/ bUseColor4(t)
               PROVE  s \in packed[t] <=> SubblockIsUniform(t[1], bFlip(t), s)
    BY DEF PackedIsUniform, SubblockIsUniform
  <2>1. /\ SubblocksArePacked(t) /\ ThreadKnows(t) /\ part[t] \in 0 .. 7
    BY DEF GroupInvariant, ThreadData, TypeOK
  <2>2. Did(t, 4) /\ Did(t, 2)
    BY <2>1 DEF Did
  <2>3. ~Uniform(t[1])
    BY <2>1, <2>2 DEF ThreadKnows
  <2> QED
    BY <2>1, <2>2, <2>3 DEF SubblocksArePacked
<1> QED
  BY <1>1, GroupIsInvariant, PTL

-----------------------------------------------------------------------------
(* Etc1Search: the scan.                                                   *)

(* The colour of step k of the scan.                                       *)
CandidateAt(k) == [i \in Channel |-> sought.avgColourLS[i] + delta(k)[i]]

(* Step k was looked at, and what was found since is no worse.             *)
LookedAt(k) ==
  /\ CandidateAt(k) \in tried
  /\ CandidateAt(k) \in Colour /\ (constrainAgainstBaseColor5 => WithinDelta(CandidateAt(k)))
       => bestSolution.error <= errorOf(CandidateAt(k))

StepsLookedAt == IF pc = "refine" THEN scan.di + 1 ELSE scan.di

(* The error of a thread never grows, is that of its solution once there   *)
(* is one, and is at most that of every colour scanned so far in the pass. *)
SearchInvariant ==
  /\ sought \in Subblocks
  /\ pc \in {"pack", "scan", "refine", "done"}
  /\ scan = [min |-> scan.min, max |-> scan.max, di |-> scan.di, pass |-> scan.pass]
  /\ <<scan.min, scan.max>> \in {<<0, 0>>, <<0, 1>>, <<0, 4>>, <<2, 3>>, <<5, 8>>, <<5, 5>>}
  /\ scan.di \in Nat
  /\ bestSolution = [error |-> bestSolution.error, rgbIntLS |-> bestSolution.rgbIntLS,
                     selectors |-> bestSolution.selectors, packed |-> bestSolution.packed]
  /\ bestSolution.error \in Int
  /\ pc = "pack" => bestSolution.error = FLT_MAX
  /\ pc \in {"pack", "scan", "refine"} => \A k \in 0 .. StepsLookedAt - 1 : LookedAt(k)
  /\ ErrorIsOfSolution
  /\ ConstraintIsKept

(* getScanDelta gives each delta of at least absMin and at most absMax, on *)
(* either side of 0.                                                       *)
LEMMA EveryDelta ==
  ASSUME NEW lo \in Nat, NEW hi \in Nat, lo <= hi, NEW d \in Int, Abs(d) \in lo .. hi
  PROVE  \E i \in 0 .. (hi - lo) * 2 + (IF lo = 0 THEN 1 ELSE 2) - 1 : getScanDelta(i, lo, hi) = d
<1>1. CASE d <= -lo
  <2>1. d + hi \in 0 .. (hi - lo) * 2 + (IF lo = 0 THEN 1 ELSE 2) - 1
    BY <1>1 DEF Abs
  <2>2. getScanDelta(d + hi, lo, hi) = d
    BY <1>1 DEF getScanDelta
  <2> QED
    BY <2>1, <2>2
<1>2. CASE d > -lo /\ lo = 0
  <2>1. d + hi \in 0 .. (hi - lo) * 2 + (IF lo = 0 THEN 1 ELSE 2) - 1
    BY <1>2 DEF Abs
  <2>2. getScanDelta(d + hi, lo, hi) = d
    BY <1>2 DEF getScanDelta
  <2> QED
    BY <2>1, <2>2
<1>3. CASE d > -lo /\ lo # 0
  <2> DEFINE i == d - lo + (hi - lo + 1)
  <2>1. i \in 0 .. (hi - lo) * 2 + (IF lo = 0 THEN 1 ELSE 2) - 1
    BY <1>3 DEF Abs
  <2>2. getScanDelta(i, lo, hi) = d
    BY <1>3 DEF Abs, getScanDelta
  <2> QED
    BY <2>1, <2>2
<1> QED
  BY <1>1, <1>2, <1>3

(* Every triple of deltas is of one step.                                  *)
LEMMA EveryTriple ==
  ASSUME NEW S \in {1, 2, 3, 4, 8, 9}, NEW i1 \in 0 .. S - 1, NEW i2 \in 0 .. S - 1, NEW i3 \in 0 .. S - 1
  PROVE  \E k \in 0 .. S * S * S - 1 : k % S = i1 /\ (k \div S) % S = i2 /\ k \div (S * S) = i3
<1> DEFINE k == i1 + S * i2 + (S * S) * i3
<1>1. k \in 0 .. S * S * S - 1 /\ k % S = i1 /\ (k \div S) % S = i2 /\ k \div (S * S) = i3
  <2>1. CASE S = 1
    BY <2>1
  <2>2. CASE S = 2
    BY <2>2
  <2>3. CASE S = 3
    BY <2>3
  <2>4. CASE S = 4
    BY <2>4
  <2>5. CASE S = 8
    BY <2>5
  <2>6. CASE S = 9
    BY <2>6
  <2> QED
    BY <2>1, <2>2, <2>3, <2>4, <2>5, <2>6
<1> QED
  BY <1>1

(* A step of the scan changes neither the colour nor the error of another. *)
LEMMA SameCandidates ==
  ASSUME SearchInvariant, sought' = sought, scan'.min = scan.min, scan'.max = scan.max
  PROVE  /\ \A k : CandidateAt(k)' = CandidateAt(k)
         /\ \A c : errorOf(c)' = errorOf(c)
         /\ \A c : WithinDelta(c)' = WithinDelta(c)
         /\ constrainAgainstBaseColor5' = constrainAgainstBaseColor5
         /\ ScanDeltaSize' = ScanDeltaSize
<1>1. ScanDeltaSize' = ScanDeltaSize
  BY DEF ScanDeltaSize
<1>2. \A k : delta(k)' = delta(k)
  BY <1>1 DEF delta
<1>3. \A k : CandidateAt(k)' = CandidateAt(k)
  BY <1>2 DEF CandidateAt
<1> QED
  BY <1>1, <1>3 DEF errorOf, WithinDelta, constrainAgainstBaseColor5

(* What was looked at stays so while the error does not grow.              *)
LEMMA StaysLookedAt ==
  ASSUME SearchInvariant, sought' = sought, scan'.min = scan.min, scan'.max = scan.max,
         tried \subseteq tried', bestSolution'.error \in Int, bestSolution'.error <= bestSolution.error
  PROVE  \A k : LookedAt(k) => LookedAt(k)'
<1> SUFFICES ASSUME NEW k, LookedAt(k) PROVE LookedAt(k)'
  OBVIOUS
<1> DEFINE c == CandidateAt(k)
<1>1. /\ CandidateAt(k)' = c /\ errorOf(c)' = errorOf(c)
      /\ WithinDelta(c)' = WithinDelta(c)
      /\ constrainAgainstBaseColor5' = constrainAgainstBaseColor5
  BY SameCandidates
<1>2. c \in tried'
  BY DEF LookedAt
<1>3. c \in Colour => errorOf(c) \in Int
  BY Etc1SearchAssumption DEF SearchInvariant, errorOf, Abs, Colour, Channel
<1>4. bestSolution.error \in Int
  BY DEF SearchInvariant
<1>5. ASSUME c \in Colour, constrainAgainstBaseColor5 => WithinDelta(c)
      PROVE  bestSolution'.error <= errorOf(c)
  <2>1. bestSolution.error <= errorOf(c)
    BY <1>5 DEF LookedAt
  <2> QED
    BY <1>3, <1>4, <1>5, <2>1
<1> HIDE DEF c
<1> QED
  BY <1>1, <1>2, <1>5 DEF LookedAt, c

(* What a step that finds a better colour leaves is of that colour.        *)
LEMMA SolutionOfColour ==
  ASSUME SearchInvariant, NEW c \in Colour, Accepts(c), bestSolution' = solution(c), sought' = sought
  PROVE  /\ bestSolution'.error \in Int /\ bestSolution'.error < bestSolution.error
         /\ bestSolution'.error = errorOf(c)
         /\ bestSolution' = [error |-> bestSolution'.error, rgbIntLS |-> bestSolution'.rgbIntLS,
                             selectors |-> bestSolution'.selectors, packed |-> bestSolution'.packed]
         /\ ErrorIsOfSolution' /\ ConstraintIsKept'
<1>1. errorOf(c) \in Int
  BY Etc1SearchAssumption DEF SearchInvariant, errorOf, Abs, Colour, Channel
<1>2. bestSolution'.error = errorOf(c) /\ errorOf(c) < bestSolution.error
  BY DEF solution, Accepts
<1>3. /\ bestSolution'.rgbIntLS = c /\ bestSolution'.selectors = c /\ ~bestSolution'.packed
  BY DEF solution
<1>4. bestSolution' = [error |-> bestSolution'.error, rgbIntLS |-> bestSolution'.rgbIntLS,
                       selectors |-> bestSolution'.selectors, packed |-> bestSolution'.packed]
  BY DEF solution
<1>5. errorOf(c)' = errorOf(c)
  BY DEF errorOf
<1>6. ErrorIsOfSolution'
  BY <1>2, <1>3, <1>5 DEF ErrorIsOfSolution
<1>7. ConstraintIsKept'
  BY <1>3 DEF ConstraintIsKept, Accepts, WithinDelta, constrainAgainstBaseColor5
<1> QED
  BY <1>1, <1>2, <1>4, <1>6, <1>7

(* The invariant is there when a pass begins.                              *)
LEMMA SearchStarts == SearchInit => SearchInvariant
<1> SUFFICES ASSUME SearchInit PROVE SearchInvariant
  OBVIOUS
<1>1. ScanDeltaAbsMax \in {0, 1, 4}
  BY Etc1SearchAssumption DEF SearchInit, ScanDeltaAbsMax
<1>2. /\ scan.min = 0 /\ scan.max = ScanDeltaAbsMax /\ scan.di = 0
      /\ scan = [min |-> scan.min, max |-> scan.max, di |-> scan.di, pass |-> scan.pass]
  BY DEF SearchInit
<1>3. /\ bestSolution.error = FLT_MAX /\ FLT_MAX \in Int
      /\ bestSolution = [error |-> bestSolution.error, rgbIntLS |-> bestSolution.rgbIntLS,
                         selectors |-> bestSolution.selectors, packed |-> bestSolution.packed]
  BY DEF SearchInit, FLT_MAX
<1>4. 0 .. StepsLookedAt - 1 = {}
  BY <1>2 DEF SearchInit, StepsLookedAt
<1>5. ErrorIsOfSolution /\ ConstraintIsKept
  BY <1>3 DEF ErrorIsOfSolution, ConstraintIsKept
<1>6. <<scan.min, scan.max>> \in {<<0, 0>>, <<0, 1>>, <<0, 4>>, <<2, 3>>, <<5, 8>>, <<5, 5>>}
  BY <1>1, <1>2
<1>7. sought \in Subblocks /\ pc = "pack"
  BY DEF SearchInit
<1>8. scan.di \in Nat
  BY <1>2
<1> QED
  BY <1>2, <1>3, <1>4, <1>5, <1>6, <1>7, <1>8 DEF SearchInvariant

(* No step of the search breaks the invariant.                             *)
LEMMA SearchSteps == SearchInvariant /\ [SearchNext]_searchVars => SearchInvariant'
<1> SUFFICES ASSUME SearchInvariant, [SearchNext]_searchVars PROVE SearchInvariant'
  OBVIOUS
<1>1. /\ sought \in Subblocks
      /\ scan = [min |-> scan.min, max |-> scan.max, di |-> scan.di, pass |-> scan.pass]
      /\ <<scan.min, scan.max>> \in {<<0, 0>>, <<0, 1>>, <<0, 4>>, <<2, 3>>, <<5, 8>>, <<5, 5>>}
      /\ scan.di \in Nat
      /\ bestSolution = [error |-> bestSolution.error, rgbIntLS |-> bestSolution.rgbIntLS,
                         selectors |-> bestSolution.selectors, packed |-> bestSolution.packed]
      /\ bestSolution.error \in Int
  BY DEF SearchInvariant
<1>2. ASSUME NextStep
      PROVE  /\ scan' = [min |-> scan'.min, max |-> scan'.max, di |-> scan'.di, pass |-> scan'.pass]
             /\ scan'.min = scan.min /\ scan'.max = scan.max /\ scan'.di = scan.di + 1
             /\ scan'.di \in Nat
             /\ <<scan'.min, scan'.max>> \in {<<0, 0>>, <<0, 1>>, <<0, 4>>, <<2, 3>>, <<5, 8>>, <<5, 5>>}
  <2>1. scan' = [min |-> scan.min, max |-> scan.max, di |-> scan.di + 1, pass |-> scan.pass]
    BY <1>1, <1>2 DEF NextStep
  <2> QED
    BY <1>1, <2>1
<1>3. ASSUME UNCHANGED <<sought, bestSolution>>, pc # "pack"
      PROVE  /\ sought' \in Subblocks /\ ErrorIsOfSolution' /\ ConstraintIsKept'
             /\ bestSolution' = [error |-> bestSolution'.error, rgbIntLS |-> bestSolution'.rgbIntLS,
                                 selectors |-> bestSolution'.selectors, packed |-> bestSolution'.packed]
             /\ bestSolution'.error \in Int /\ bestSolution'.error <= bestSolution.error
  <2>1. ErrorIsOfSolution' /\ ConstraintIsKept'
    BY <1>3 DEF SearchInvariant, ErrorIsOfSolution, ConstraintIsKept, errorOf, WithinDelta,
                constrainAgainstBaseColor5
  <2> QED
    BY <1>1, <1>3, <2>1
<1>4. CASE Pack
  <2>1. pc = "pack" /\ pc' = "scan" /\ UNCHANGED <<sought, scan, tried>>
    BY <1>4 DEF Pack
  <2>2. /\ bestSolution' = [error |-> bestSolution'.error, rgbIntLS |-> bestSolution'.rgbIntLS,
                            selectors |-> bestSolution'.selectors, packed |-> bestSolution'.packed]
        /\ bestSolution'.error = bestSolution.error
    <3>1. ASSUME NEW c, NEW p
          PROVE  [bestSolution EXCEPT !.rgbIntLS = c, !.selectors = c, !.packed = p]
                   = [error |-> bestSolution.error, rgbIntLS |-> c, selectors |-> c, packed |-> p]
      <4> DEFINE u == [bestSolution EXCEPT !.rgbIntLS = c]
                 v == [u EXCEPT !.selectors = c]
      <4>1. [bestSolution EXCEPT !.rgbIntLS = c, !.selectors = c, !.packed = p] = [v EXCEPT !.packed = p]
        OBVIOUS
      <4>2. u = [error |-> bestSolution.error, rgbIntLS |-> c,
                 selectors |-> bestSolution.selectors, packed |-> bestSolution.packed]
        BY <1>1
      <4> HIDE DEF u
      <4>3. v = [error |-> bestSolution.error, rgbIntLS |-> c, selectors |-> c,
                 packed |-> bestSolution.packed]
        BY <4>2
      <4> HIDE DEF v
      <4>4. [v EXCEPT !.packed = p]
              = [error |-> bestSolution.error, rgbIntLS |-> c, selectors |-> c, packed |-> p]
        BY <4>3
      <4> QED
        BY <4>1, <4>4
    <3>2. \/ bestSolution' = bestSolution
          \/ \E c : bestSolution' = [bestSolution EXCEPT !.rgbIntLS = c, !.selectors = c, !.packed = TRUE]
      BY <1>4 DEF Pack
    <3>3. CASE bestSolution' = bestSolution
      BY <1>1, <3>3
    <3>4. CASE bestSolution' # bestSolution
      <4>1. PICK c : bestSolution' = [bestSolution EXCEPT !.rgbIntLS = c, !.selectors = c, !.packed = TRUE]
        BY <3>2, <3>4
      <4>2. bestSolution' = [error |-> bestSolution.error, rgbIntLS |-> c, selectors |-> c, packed |-> TRUE]
        BY <3>1, <4>1
      <4> QED
        BY <4>2
    <3> QED
      BY <3>3, <3>4
  <2>3. bestSolution'.error = FLT_MAX
    BY <2>1, <2>2 DEF SearchInvariant
  <2>4. ErrorIsOfSolution' /\ ConstraintIsKept'
    BY <2>3 DEF ErrorIsOfSolution, ConstraintIsKept, FLT_MAX
  <2>5. \A k \in 0 .. StepsLookedAt - 1 : LookedAt(k)'
    <3>1. \A k \in 0 .. StepsLookedAt - 1 : LookedAt(k)
      BY <2>1 DEF SearchInvariant
    <3> QED
      BY <1>1, <2>1, <2>2, <3>1, StaysLookedAt
  <2>6. StepsLookedAt' = StepsLookedAt
    BY <2>1 DEF StepsLookedAt
  <2>7. bestSolution'.error \in Int
    BY <1>1, <2>2
  <2> QED
    BY <1>1, <2>1, <2>2, <2>4, <2>5, <2>6, <2>7 DEF SearchInvariant
<1>5. CASE ScanInVain
  <2>1. /\ pc = "scan" /\ pc' = "scan" /\ UNCHANGED <<sought, bestSolution>> /\ NextStep
        /\ candidate \notin Colour \/ ~Accepts(candidate)
        /\ tried' = tried \cup {candidate}
    BY <1>5 DEF ScanInVain, Scanning
  <2>2. StepsLookedAt = scan.di /\ StepsLookedAt' = scan.di + 1
    BY <1>2, <2>1 DEF StepsLookedAt
  <2>3. \A k \in 0 .. scan.di - 1 : LookedAt(k)'
    <3>1. \A k \in 0 .. scan.di - 1 : LookedAt(k)
      BY <2>1, <2>2 DEF SearchInvariant
    <3>2. tried \subseteq tried' /\ scan'.min = scan.min /\ scan'.max = scan.max
      BY <1>2, <2>1
    <3> QED
      BY <1>3, <2>1, <3>1, <3>2, StaysLookedAt
  <2>4. ASSUME NEW di \in Nat, di = scan.di PROVE LookedAt(di)'
    <3> DEFINE c == CandidateAt(di)
    <3>1. candidate = c
      BY <2>4 DEF candidate, CandidateAt
    <3>2. /\ CandidateAt(di)' = c /\ errorOf(c)' = errorOf(c) /\ WithinDelta(c)' = WithinDelta(c)
          /\ constrainAgainstBaseColor5' = constrainAgainstBaseColor5
      BY <1>2, <2>1, SameCandidates
    <3>3. c \in Colour => errorOf(c) \in Int
      BY Etc1SearchAssumption DEF SearchInvariant, errorOf, Abs, Colour, Channel
    <3> HIDE DEF c
    <3>4. c \in tried'
      BY <2>1, <3>1
    <3>5. ASSUME c \in Colour, constrainAgainstBaseColor5 => WithinDelta(c)
          PROVE  bestSolution'.error <= errorOf(c)
      <4>1. ~(errorOf(c) < bestSolution.error)
        BY <2>1, <3>1, <3>5 DEF Accepts
      <4> QED
        BY <1>1, <2>1, <3>3, <3>5, <4>1
    <3> QED
      BY <3>2, <3>4, <3>5 DEF LookedAt, c
  <2>5. \A k \in 0 .. StepsLookedAt' - 1 : LookedAt(k)'
    <3> SUFFICES ASSUME NEW k \in 0 .. StepsLookedAt' - 1 PROVE LookedAt(k)'
      OBVIOUS
    <3>1. k \in 0 .. scan.di - 1 \/ (k \in Nat /\ k = scan.di)
      BY <1>1, <2>2
    <3> QED
      BY <2>3, <2>4, <3>1
  <2> QED
    BY <1>2, <1>3, <2>1, <2>5 DEF SearchInvariant
<1>6. CASE ScanAndImprove
  <2>1. /\ pc = "scan" /\ pc' = "refine" /\ UNCHANGED <<sought, scan>>
        /\ candidate \in Colour /\ Accepts(candidate)
        /\ bestSolution' = solution(candidate)
        /\ tried' = tried \cup {candidate}
    BY <1>6 DEF ScanAndImprove, Scanning
  <2>2. /\ bestSolution'.error \in Int /\ bestSolution'.error < bestSolution.error
        /\ bestSolution'.error = errorOf(candidate)
        /\ bestSolution' = [error |-> bestSolution'.error, rgbIntLS |-> bestSolution'.rgbIntLS,
                            selectors |-> bestSolution'.selectors, packed |-> bestSolution'.packed]
        /\ ErrorIsOfSolution' /\ ConstraintIsKept'
    <3>1. ASSUME NEW c \in Colour, Accepts(c), bestSolution' = solution(c)
          PROVE  /\ bestSolution'.error \in Int /\ bestSolution'.error < bestSolution.error
                 /\ bestSolution'.error = errorOf(c)
                 /\ bestSolution' = [error |-> bestSolution'.error, rgbIntLS |-> bestSolution'.rgbIntLS,
                                     selectors |-> bestSolution'.selectors, packed |-> bestSolution'.packed]
                 /\ ErrorIsOfSolution' /\ ConstraintIsKept'
      BY <2>1, <3>1, SolutionOfColour
    <3> QED
      BY <2>1, <3>1
  <2>3. StepsLookedAt = scan.di /\ StepsLookedAt' = scan.di + 1
    BY <2>1 DEF StepsLookedAt
  <2>4. \A k \in 0 .. scan.di - 1 : LookedAt(k)'
    <3>1. \A k \in 0 .. scan.di - 1 : LookedAt(k)
      BY <2>1, <2>3 DEF SearchInvariant
    <3>2. tried \subseteq tried' /\ scan'.min = scan.min /\ scan'.max = scan.max
      BY <2>1
    <3>3. bestSolution'.error <= bestSolution.error
      BY <1>1, <2>2
    <3> QED
      BY <2>1, <2>2, <3>1, <3>2, <3>3, StaysLookedAt
  <2>5. ASSUME NEW di \in Nat, di = scan.di PROVE LookedAt(di)'
    <3> DEFINE c == CandidateAt(di)
    <3>1. candidate = c
      BY <2>5 DEF candidate, CandidateAt
    <3>2. CandidateAt(di)' = c /\ errorOf(c)' = errorOf(c)
      BY <2>1, SameCandidates
    <3>3. c \in Colour => errorOf(c) \in Int
      BY Etc1SearchAssumption DEF SearchInvariant, errorOf, Abs, Colour, Channel
    <3> HIDE DEF c
    <3>4. c \in tried' /\ bestSolution'.error <= errorOf(c)
      BY <2>1, <2>2, <3>1, <3>3
    <3> QED
      BY <3>2, <3>4 DEF LookedAt, c
  <2>6. \A k \in 0 .. StepsLookedAt' - 1 : LookedAt(k)'
    <3> SUFFICES ASSUME NEW k \in 0 .. StepsLookedAt' - 1 PROVE LookedAt(k)'
      OBVIOUS
    <3>1. k \in 0 .. scan.di - 1 \/ (k \in Nat /\ k = scan.di)
      BY <1>1, <2>3
    <3> QED
      BY <2>4, <2>5, <3>1
  <2> QED
    BY <1>1, <2>1, <2>2, <2>6 DEF SearchInvariant
<1>7. ASSUME pc = "refine", pc' = "scan", UNCHANGED <<sought, bestSolution, tried>>, NextStep
      PROVE  SearchInvariant'
  <2>1. StepsLookedAt' = StepsLookedAt
    BY <1>2, <1>7 DEF StepsLookedAt
  <2>2. \A k \in 0 .. StepsLookedAt - 1 : LookedAt(k)
    BY <1>7 DEF SearchInvariant
  <2>3. \A k \in 0 .. StepsLookedAt - 1 : LookedAt(k)'
    BY <1>2, <1>3, <1>7, <2>2, StaysLookedAt
  <2> QED
    BY <1>2, <1>3, <1>7, <2>1, <2>3 DEF SearchInvariant
<1>8. CASE SkipRefinement
  BY <1>7, <1>8 DEF SkipRefinement
<1>9. CASE LastRefinement
  BY <1>7, <1>9 DEF LastRefinement
<1>10. CASE Refine
  <2>1. PICK c \in Refined :
          IF Accepts(c)
          THEN bestSolution' = solution(c) /\ UNCHANGED <<pc, scan>>
          ELSE pc' = "scan" /\ NextStep /\ UNCHANGED bestSolution
    BY <1>10 DEF Refine
  <2>2. pc = "refine" /\ UNCHANGED <<sought, tried>>
    BY <1>10 DEF Refine
  <2>3. CASE ~Accepts(c)
    BY <1>7, <2>1, <2>2, <2>3
  <2>4. CASE Accepts(c)
    <3>1. c \in Colour
      BY Etc1SearchAssumption
    <3>2. bestSolution' = solution(c) /\ UNCHANGED <<pc, scan>>
      BY <2>1, <2>4
    <3>3. /\ bestSolution'.error \in Int /\ bestSolution'.error < bestSolution.error
          /\ bestSolution' = [error |-> bestSolution'.error, rgbIntLS |-> bestSolution'.rgbIntLS,
                              selectors |-> bestSolution'.selectors, packed |-> bestSolution'.packed]
          /\ ErrorIsOfSolution' /\ ConstraintIsKept'
      BY <2>2, <2>4, <3>1, <3>2, SolutionOfColour
    <3>4. bestSolution'.error <= bestSolution.error
      BY <1>1, <3>3
    <3>5. \A k \in 0 .. StepsLookedAt - 1 : LookedAt(k)
      BY <2>2 DEF SearchInvariant
    <3>6. \A k \in 0 .. StepsLookedAt - 1 : LookedAt(k)'
      BY <2>2, <3>2, <3>3, <3>4, <3>5, StaysLookedAt
    <3>7. StepsLookedAt' = StepsLookedAt
      BY <3>2 DEF StepsLookedAt
    <3> QED
      BY <1>1, <2>2, <3>2, <3>3, <3>6, <3>7 DEF SearchInvariant
  <2> QED
    BY <2>3, <2>4
<1>11. CASE EndOfPass
  <2>1. pc = "scan" /\ UNCHANGED <<sought, bestSolution>>
    BY <1>11 DEF EndOfPass
  <2>2. CASE pc' = "done" /\ UNCHANGED scan
    BY <1>1, <1>3, <2>1, <2>2 DEF SearchInvariant
  <2>3. CASE pc' = pc /\ scan' = WiderScan
    <3>1. /\ scan' = [min |-> scan'.min, max |-> scan'.max, di |-> scan'.di, pass |-> scan'.pass]
          /\ <<scan'.min, scan'.max>> \in {<<0, 0>>, <<0, 1>>, <<0, 4>>, <<2, 3>>, <<5, 8>>, <<5, 5>>}
          /\ scan'.di = 0
      <4>1. WiderScan \in {[min |-> 2, max |-> 3, di |-> 0, pass |-> 2],
                           [min |-> 5, max |-> 8, di |-> 0, pass |-> 2],
                           [min |-> 5, max |-> 5, di |-> 0, pass |-> 2]}
        BY DEF WiderScan
      <4> QED
        BY <2>3, <4>1
    <3>2. 0 .. StepsLookedAt' - 1 = {}
      BY <2>1, <2>3, <3>1 DEF StepsLookedAt
    <3> QED
      BY <1>3, <2>1, <2>3, <3>1, <3>2 DEF SearchInvariant
  <2> QED
    BY <1>11, <2>2, <2>3 DEF EndOfPass
<1>12. CASE UNCHANGED searchVars
  <2>1. UNCHANGED <<sought, bestSolution, scan, tried, pc>>
    BY <1>12 DEF searchVars
  <2>2. ErrorIsOfSolution' /\ ConstraintIsKept'
    BY <2>1 DEF SearchInvariant, ErrorIsOfSolution, ConstraintIsKept, errorOf, WithinDelta,
                constrainAgainstBaseColor5
  <2>3. StepsLookedAt' = StepsLookedAt
    BY <2>1 DEF StepsLookedAt
  <2>4. \A k \in 0 .. StepsLookedAt - 1 : LookedAt(k) => LookedAt(k)'
    BY <1>1, <2>1, StaysLookedAt
  <2> QED
    BY <1>1, <2>1, <2>2, <2>3, <2>4 DEF SearchInvariant
<1> QED
  BY <1>4, <1>5, <1>6, <1>8, <1>9, <1>10, <1>11, <1>12 DEF SearchNext, SearchEnds

(* The invariant holds in every state.                                     *)
LEMMA SearchIsInvariant == SearchSpec => []SearchInvariant
  BY SearchStarts, SearchSteps, PTL DEF SearchSpec

(* The error by which the threads of a block are compared is that of the   *)
(* colour that will be stored, wherever it came from.                      *)
THEOREM ErrorBelongsToSolution == SearchSpec => []ErrorIsOfSolution
<1>1. SearchInvariant => ErrorIsOfSolution
  BY DEF SearchInvariant
<1> QED
  BY <1>1, SearchIsInvariant, PTL

(* What can win is a colour, and within reach of the base colour when      *)
(* differential mode asks for that.                                        *)
THEOREM WinnerKeepsConstraint == SearchSpec => []ConstraintIsKept
<1>1. SearchInvariant => ConstraintIsKept
  BY DEF SearchInvariant
<1> QED
  BY <1>1, SearchIsInvariant, PTL

(* A pass over the deltas misses no colour around the average, for every   *)
(* depth of the channels, quality and average, corners included.           *)
THEOREM ScanMissesNothing == SearchSpec => []NothingIsMissed
<1>1. SearchInvariant => NothingIsMissed
  <2> SUFFICES ASSUME SearchInvariant, EndsPass, NEW c \in Around
               PROVE  /\ c \in tried
                      /\ (constrainAgainstBaseColor5 => WithinDelta(c)) => bestSolution.error <= errorOf(c)
    BY DEF NothingIsMissed
  <2> DEFINE lo == scan.min
             hi == scan.max
             S == ScanDeltaSize
             average == sought.avgColourLS
             d(i) == c[i] - average[i]
  <2>1. /\ lo \in Nat /\ hi \in Nat /\ lo <= hi /\ scan.di \in Nat
        /\ S = (hi - lo) * 2 + (IF lo = 0 THEN 1 ELSE 2)
        /\ S \in {1, 2, 3, 4, 8, 9}
    <3>1. <<lo, hi>> \in {<<0, 0>>, <<0, 1>>, <<0, 4>>, <<2, 3>>, <<5, 8>>, <<5, 5>>}
      BY DEF SearchInvariant
    <3>2. S = (hi - lo) * 2 + (IF lo = 0 THEN 1 ELSE 2)
      BY DEF ScanDeltaSize
    <3>3. scan.di \in Nat
      BY DEF SearchInvariant
    <3> HIDE DEF lo, hi, S
    <3>4. lo \in Nat /\ hi \in Nat /\ lo <= hi
      BY <3>1
    <3>5. S \in {1, 2, 3, 4, 8, 9}
      BY <3>1, <3>2
    <3> QED
      BY <3>2, <3>3, <3>4, <3>5
  <2>2. c \in [1 .. 3 -> 0 .. limit] /\ average \in [1 .. 3 -> 0 .. limit] /\ limit \in Nat
    BY Etc1SearchAssumption DEF Around, SearchInvariant, Colour, Channel
  <2>3. \A i \in 1 .. 3 : d(i) \in Int /\ Abs(d(i)) \in lo .. hi
    BY <2>2 DEF Around, Channel
  <2> HIDE DEF lo, hi, S, average
  <2>5. \A i \in 1 .. 3 : \E n \in 0 .. S - 1 : getScanDelta(n, lo, hi) = d(i)
    BY <2>1, <2>3, EveryDelta
  <2>6. PICK n1 \in 0 .. S - 1 : getScanDelta(n1, lo, hi) = d(1)
    BY <2>5
  <2>7. PICK n2 \in 0 .. S - 1 : getScanDelta(n2, lo, hi) = d(2)
    BY <2>5
  <2>8. PICK n3 \in 0 .. S - 1 : getScanDelta(n3, lo, hi) = d(3)
    BY <2>5
  <2>9. PICK k \in 0 .. S * S * S - 1 : k % S = n1 /\ (k \div S) % S = n2 /\ k \div (S * S) = n3
    <3>1. \A n \in {1, 2, 3, 4, 8, 9} : \A i1, i2, i3 \in 0 .. n - 1 :
            \E k \in 0 .. n * n * n - 1 : k % n = i1 /\ (k \div n) % n = i2 /\ k \div (n * n) = i3
      BY EveryTriple
    <3>2. S \in {1, 2, 3, 4, 8, 9}
      BY <2>1
    <3> QED
      BY <3>1, <3>2
  <2>10. delta(k) = <<d(1), d(2), d(3)>>
    <3>1. delta(k) = <<getScanDelta(k % S, lo, hi), getScanDelta((k \div S) % S, lo, hi),
                       getScanDelta(k \div (S * S), lo, hi)>>
      BY DEF delta, S, lo, hi
    <3> QED
      BY <2>6, <2>7, <2>8, <2>9, <3>1
  <2>11. CandidateAt(k) = c
    <3>1. delta(k)[1] = d(1) /\ delta(k)[2] = d(2) /\ delta(k)[3] = d(3)
      BY <2>10
    <3>2. \A i \in 1 .. 3 : average[i] + delta(k)[i] = c[i]
      <4>1. \A i \in 1 .. 3 : i = 1 \/ i = 2 \/ i = 3
        OBVIOUS
      <4>2. \A i \in 1 .. 3 : average[i] + d(i) = c[i]
        BY <2>2
      <4> QED
        BY <3>1, <4>1, <4>2
    <3>3. CandidateAt(k) = [i \in 1 .. 3 |-> average[i] + delta(k)[i]]
      BY DEF CandidateAt, Channel, average
    <3> QED
      BY <2>2, <3>2, <3>3
  <2>12. k \in 0 .. StepsLookedAt - 1
    <3>1. pc = "scan" /\ ~(scan.di < S * S * S)
      BY DEF EndsPass, Scanning, S
    <3>2. S * S * S \in Int
      BY <2>1
    <3> QED
      BY <2>1, <2>9, <3>1, <3>2 DEF StepsLookedAt
  <2>13. LookedAt(k)
    BY <2>12 DEF SearchInvariant, EndsPass
  <2> QED
    BY <2>11, <2>13 DEF LookedAt, Around
<1> QED
  BY <1>1, SearchIsInvariant, PTL
=============================================================================
