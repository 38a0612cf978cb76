--------------------------- MODULE FindSpaceProofs ---------------------------
(***************************************************************************)
(* The search of module FindSpace and the check of module Rack agree in    *)
(* every reachable state, for every rack, whatever it holds.               *)
(*                                                                         *)
(* The scan is a fold over the units of the frame, that is a recursive     *)
(* function on the sets of units.  That it exists, and what it has found   *)
(* after k units, are proved by the least k at which they fail.            *)
(***************************************************************************)
EXTENDS RackProofs, FindSpace, WellFoundedInduction

----------------------------------------------------------------------------
(* Least and greatest elements.                                            *)

\* A set of naturals that holds a number holds a least one.
LEMMA LeastOf ==
  ASSUME NEW S \in SUBSET Nat, S # {}
  PROVE  \E n \in S : \A k \in S : n <= k
<1>1. PICK n \in S : \A k \in S : ~(<<k, n>> \in OpToRel(<, Nat))
  BY WFMin, NatLessThanWellFounded
<1>2. ASSUME NEW k \in S PROVE n <= k
  <2>1. k \in Nat /\ n \in Nat /\ ~(k < n) BY <1>1 DEF OpToRel
  <2> QED BY <2>1
<1> QED BY <1>2

\* Some of the first n units have a top one.
LEMMA MaxOf ==
  ASSUME NEW n \in Nat, NEW s \in SUBSET (1 .. n), s # {}
  PROVE  Max(s) \in s /\ \A k \in s : k <= Max(s)
<1> DEFINE D == {n - k : k \in s}
<1>1. D \in SUBSET Nat /\ D # {}
  <2>1. \A k \in s : n - k \in Nat
    OBVIOUS
  <2> QED BY <2>1
<1>2. PICK d \in D : \A e \in D : d <= e
  <2> HIDE DEF D
  <2> QED BY <1>1, LeastOf
<1>3. PICK m \in s : d = n - m
  OBVIOUS
<1>4. ASSUME NEW k \in s PROVE m >= k
  <2>1. n - k \in D OBVIOUS
  <2>2. d <= n - k BY <1>2, <2>1
  <2> QED BY <1>3, <2>2
<1> QED BY <1>4 DEF Max

----------------------------------------------------------------------------
(* The fold of ScanBlocks, unfolded.                                       *)

ScanBase == [runStart |-> NoRun, blocks |-> <<>>]

\* f is the scan's fold over the sets of the first n units.
IsScan(free, topU, n, f) ==
  f = [s \in SUBSET (1 .. n) |->
         IF s = {} THEN ScanBase
         ELSE ScanStep(free, topU, f[s \ {Max(s)}], Max(s))]

Scans(free, topU, n) == \E f : IsScan(free, topU, n, f)

\* A scan of n units is extended to one of n + 1.
LEMMA ScansGrow ==
  ASSUME NEW free, NEW topU, NEW n \in Nat, Scans(free, topU, n)
  PROVE  Scans(free, topU, n + 1)
<1>1. PICK f : IsScan(free, topU, n, f)
  BY DEF Scans
<1> DEFINE step(acc, m) == ScanStep(free, topU, acc, m)
           g == [s \in SUBSET (1 .. n + 1) |->
                   IF n + 1 \in s THEN step(f[s \ {n + 1}], n + 1) ELSE f[s]]
<1> HIDE DEF step
<1>2. \A s \in SUBSET (1 .. n) :
        f[s] = IF s = {} THEN ScanBase ELSE step(f[s \ {Max(s)}], Max(s))
  BY <1>1 DEF IsScan, step
<1>3. ASSUME NEW s \in SUBSET (1 .. n + 1)
      PROVE  g[s] = IF s = {} THEN ScanBase ELSE step(g[s \ {Max(s)}], Max(s))
  <2>1. CASE s = {}
    BY <2>1, <1>2
  <2>2. CASE n + 1 \in s
    <3>1. n + 1 \in Nat /\ s # {}
      BY <2>2
    <3>2. Max(s) = n + 1
      <4>1. Max(s) \in s /\ \A k \in s : k <= Max(s)
        BY <3>1, MaxOf
      <4>2. Max(s) \in 1 .. n + 1 /\ n + 1 <= Max(s)
        BY <2>2, <4>1
      <4> QED BY <4>2
    <3>3. s \ {n + 1} \in SUBSET (1 .. n) /\ s \ {n + 1} \in SUBSET (1 .. n + 1)
      OBVIOUS
    <3>4. g[s \ {n + 1}] = f[s \ {n + 1}]
      BY <3>3
    <3>5. g[s] = step(f[s \ {n + 1}], n + 1) /\ s # {}
      BY <2>2
    <3> HIDE DEF g
    <3> QED BY <3>2, <3>4, <3>5
  <2>3. CASE s # {} /\ n + 1 \notin s
    <3>1. s \in SUBSET (1 .. n)
      BY <2>3
    <3>2. Max(s) \in s
      BY <2>3, <3>1, MaxOf
    <3>3. s \ {Max(s)} \in SUBSET (1 .. n + 1) /\ n + 1 \notin s \ {Max(s)}
      BY <2>3
    <3>4. g[s \ {Max(s)}] = f[s \ {Max(s)}]
      BY <3>3
    <3>5. g[s] = f[s]
      BY <2>3
    <3> HIDE DEF g
    <3> QED BY <1>2, <2>3, <3>1, <3>4, <3>5
  <2> QED BY <2>1, <2>2, <2>3
<1>4. g = [s \in SUBSET (1 .. n + 1) |-> g[s]]
  OBVIOUS
<1>5. IsScan(free, topU, n + 1, g)
  <2> HIDE DEF g
  <2> QED BY <1>3, <1>4 DEF IsScan, step
<1> HIDE DEF g
<1> QED BY <1>5 DEF Scans

\* The recursive function in the definition of the fold exists.
LEMMA ScansExist ==
  ASSUME NEW free, NEW topU, NEW n \in Nat
  PROVE  Scans(free, topU, n)
<1> DEFINE S == {k \in Nat : ~Scans(free, topU, k)}
<1>1. Scans(free, topU, 0)
  <2> DEFINE f == [s \in SUBSET (1 .. 0) |-> ScanBase]
  <2>1. IsScan(free, topU, 0, f)
    BY DEF IsScan
  <2> HIDE DEF f
  <2> QED BY <2>1 DEF Scans
<1>2. SUFFICES ASSUME S # {} PROVE FALSE
  OBVIOUS
<1>3. PICK m \in S : \A k \in S : m <= k
  <2>1. S \in SUBSET Nat OBVIOUS
  <2> HIDE DEF S
  <2> QED BY <2>1, <1>2, LeastOf
<1>4. m \in Nat \ {0} /\ ~Scans(free, topU, m)
  BY <1>1
<1>5. m - 1 \in Nat /\ m - 1 \notin S
  BY <1>3, <1>4
<1>6. Scans(free, topU, m - 1)
  BY <1>5
<1>7. Scans(free, topU, (m - 1) + 1)
  BY <1>5, <1>6, ScansGrow
<1> QED BY <1>4, <1>7

----------------------------------------------------------------------------
(* What the scan has found after k units.                                  *)

FreeRun(free, a, b) == a .. b \subseteq free

\* Some block reaches from unit a to unit b.
Covered(blocks, a, b) ==
  \E i \in DOMAIN blocks : blocks[i].start <= a /\ b < blocks[i].start + blocks[i].size

Block == [start : Int, size : Int]

\* After k units: the blocks are runs of free units, the register is the start of the
\* run that ends at k, if one does, and every run is within a block or the register's.
BlocksFree(free, blocks, k) ==
  /\ blocks \in Seq(Block)
  /\ \A i \in DOMAIN blocks :
        /\ 1 <= blocks[i].start /\ blocks[i].start + blocks[i].size <= k + 1
        /\ FreeRun(free, blocks[i].start, blocks[i].start + blocks[i].size - 1)

RunOpen(free, topU, start, k) ==
  IF start = NoRun
    THEN k # topU => k \notin free
    ELSE /\ start \in 1 .. k /\ k # topU
         /\ FreeRun(free, start, k) /\ start - 1 \notin free

RunsFound(free, acc, k) ==
  \A a \in 1 .. k, b \in 1 .. k :
    a <= b /\ FreeRun(free, a, b) =>
      \/ acc.runStart # NoRun /\ acc.runStart <= a
      \/ Covered(acc.blocks, a, b)

ScanOK(free, topU, acc, k) ==
  /\ acc = [runStart |-> acc.runStart, blocks |-> acc.blocks] /\ acc.runStart \in Int
  /\ BlocksFree(free, acc.blocks, k)
  /\ RunOpen(free, topU, acc.runStart, k)
  /\ RunsFound(free, acc, k)

\* A block appended covers what it reaches, and those before it what they did.
LEMMA AppendCovers ==
  ASSUME NEW blocks \in Seq(Block), NEW block \in Block
  PROVE  /\ Append(blocks, block) \in Seq(Block)
         /\ \A a, b \in Int :
              \/ Covered(blocks, a, b)
              \/ (block.start <= a /\ b < block.start + block.size)
              => Covered(Append(blocks, block), a, b)
<1> DEFINE more == Append(blocks, block)
<1>1. /\ more \in Seq(Block) /\ DOMAIN more = 1 .. Len(blocks) + 1 /\ Len(blocks) \in Nat
      /\ DOMAIN blocks = 1 .. Len(blocks)
      /\ \A i \in DOMAIN blocks : more[i] = blocks[i]
      /\ more[Len(blocks) + 1] = block
  OBVIOUS
<1> HIDE DEF more
<1>2. DOMAIN blocks \subseteq DOMAIN more /\ Len(blocks) + 1 \in DOMAIN more
  BY <1>1
<1>3. ASSUME NEW a \in Int, NEW b \in Int, Covered(blocks, a, b)
      PROVE  Covered(more, a, b)
  <2>1. PICK i \in DOMAIN blocks : blocks[i].start <= a /\ b < blocks[i].start + blocks[i].size
    BY <1>3 DEF Covered
  <2>2. i \in DOMAIN more /\ more[i] = blocks[i]
    BY <1>1, <1>2
  <2> QED BY <2>1, <2>2 DEF Covered
<1>4. ASSUME NEW a \in Int, NEW b \in Int, block.start <= a, b < block.start + block.size
      PROVE  Covered(more, a, b)
  BY <1>1, <1>2, <1>4 DEF Covered
<1> QED BY <1>1, <1>3, <1>4 DEF more

\* A run of free units that ends the frame or stops short of unit k is emitted.
LEMMA EmitFree ==
  ASSUME NEW free, NEW blocks, NEW k \in Nat, NEW j \in Nat, k <= j,
         BlocksFree(free, blocks, k),
         NEW start \in 1 .. j, NEW end \in 1 .. j, start <= end, FreeRun(free, start, end)
  PROVE  BlocksFree(free, Append(blocks, [start |-> start, size |-> end - start + 1]), j)
<1> DEFINE block == [start |-> start, size |-> end - start + 1]
           more == Append(blocks, block)
<1>1. block \in Block /\ blocks \in Seq(Block)
  BY DEF Block, BlocksFree
<1>2. more \in Seq(Block)
  <2> HIDE DEF block
  <2> QED BY <1>1, AppendCovers
<1>3. ASSUME NEW i \in DOMAIN more
      PROVE  more[i] = block \/ (i \in DOMAIN blocks /\ more[i] = blocks[i])
  <2> HIDE DEF block
  <2>1. /\ DOMAIN more = 1 .. Len(blocks) + 1 /\ DOMAIN blocks = 1 .. Len(blocks)
        /\ Len(blocks) \in Nat /\ more[Len(blocks) + 1] = block
        /\ \A m \in DOMAIN blocks : more[m] = blocks[m]
    BY <1>1
  <2> HIDE DEF more
  <2>2. CASE i \in 1 .. Len(blocks)
    BY <2>1, <2>2
  <2>3. CASE i = Len(blocks) + 1
    BY <2>1, <2>3
  <2> QED BY <2>1, <2>2, <2>3
<1>4. block.start = start /\ block.size = end - start + 1 /\ block.start + block.size = end + 1
  OBVIOUS
<1> HIDE DEF block, more
<1>5. ASSUME NEW i \in DOMAIN more
      PROVE  /\ 1 <= more[i].start /\ more[i].start + more[i].size <= j + 1
             /\ FreeRun(free, more[i].start, more[i].start + more[i].size - 1)
  <2>1. CASE more[i] = block
    <3>1. block.start + block.size - 1 = end
      BY <1>4
    <3> QED BY <1>4, <2>1, <3>1
  <2>2. CASE i \in DOMAIN blocks /\ more[i] = blocks[i]
    <3>1. blocks[i] \in Block
      BY <1>1, <2>2
    <3>2. blocks[i].start \in Int /\ blocks[i].size \in Int
      BY <3>1 DEF Block
    <3> QED BY <2>2, <3>2 DEF BlocksFree
  <2> QED BY <1>3, <2>1, <2>2
<1>6. BlocksFree(free, more, j)
  BY <1>2, <1>5 DEF BlocksFree
<1> QED BY <1>6 DEF more, block

\* The start of the run that unit n belongs to, and the block that a run becomes.
First(start, n) == IF start < 0 THEN n ELSE start

Emit(acc, first, end) ==
  [runStart |-> NoRun, blocks |-> Append(acc.blocks, [start |-> first, size |-> end - first + 1])]

\* What one iteration does, by whether the unit is free and a run is open.
LEMMA ScanStepCases ==
  ASSUME NEW free, NEW topU \in Int, NEW n \in Int, NEW acc,
         acc = [runStart |-> acc.runStart, blocks |-> acc.blocks], acc.runStart \in Int,
         NEW first, first = First(acc.runStart, n), first >= 0,
         NEW next, next = ScanStep(free, topU, acc, n)
  PROVE  /\ n \notin free /\ acc.runStart < 0 => next = acc
         /\ n \notin free /\ acc.runStart >= 0 => next = Emit(acc, first, n - 1)
         /\ n \in free /\ n # topU => next = [runStart |-> first, blocks |-> acc.blocks]
         /\ n \in free /\ n = topU => next = Emit(acc, first, n)
<1>1. ASSUME n \notin free, acc.runStart < 0 PROVE next = acc
  BY <1>1 DEF ScanStep
<1>2. ASSUME n \notin free, acc.runStart >= 0 PROVE next = Emit(acc, first, n - 1)
  <2>1. ~(acc.runStart < 0) /\ first = acc.runStart
    BY <1>2 DEF First
  <2> QED BY <1>2, <2>1 DEF ScanStep, Emit
<1>3. ASSUME n \in free, n # topU PROVE next = [runStart |-> first, blocks |-> acc.blocks]
  BY <1>3 DEF ScanStep, First
<1>4. ASSUME n \in free, n = topU PROVE next = Emit(acc, first, n)
  BY <1>4 DEF ScanStep, Emit, First
<1> QED BY <1>1, <1>2, <1>3, <1>4

\* The loop's invariant: an iteration keeps what has been found.
LEMMA ScanStepOK ==
  ASSUME NEW topU \in Nat, NEW free \in SUBSET (1 .. topU), NEW k \in Nat, k < topU,
         NEW acc, ScanOK(free, topU, acc, k),
         NEW next, next = ScanStep(free, topU, acc, k + 1)
  PROVE  ScanOK(free, topU, next, k + 1)
<1>0. PICK n, start, blocks, first :
        n = k + 1 /\ start = acc.runStart /\ blocks = acc.blocks /\ first = First(start, n)
  OBVIOUS
<1> SUFFICES ScanOK(free, topU, next, n)
  BY <1>0
<1>1. /\ acc = [runStart |-> start, blocks |-> blocks] /\ start \in Int
      /\ BlocksFree(free, blocks, k) /\ RunOpen(free, topU, start, k)
      /\ RunsFound(free, acc, k) /\ blocks \in Seq(Block) /\ n \in 1 .. topU
  BY <1>0 DEF ScanOK, BlocksFree
<1>2. /\ start < 0 => start = NoRun
      /\ start >= 0 => start \in 1 .. k /\ FreeRun(free, start, k) /\ start - 1 \notin free
      /\ start < 0 => k \notin free
  BY <1>1 DEF RunOpen, NoRun
<1>3. BlocksFree(free, blocks, n)
  <2>1. \A i \in DOMAIN blocks : blocks[i] \in Block
    BY <1>1
  <2> QED BY <1>0, <1>1, <2>1 DEF BlocksFree, Block
<1>4. /\ first \in 1 .. n
      /\ n \in free => FreeRun(free, first, n) /\ first - 1 \notin free
  <2>1. CASE start < 0
    BY <1>0, <1>1, <1>2, <2>1 DEF FreeRun, First
  <2>2. CASE start >= 0
    <3>1. first = start /\ first \in 1 .. k
      BY <1>0, <1>1, <1>2, <2>2 DEF First
    <3> QED BY <1>0, <1>2, <2>2, <3>1 DEF FreeRun
  <2> QED BY <1>1, <2>1, <2>2
\* a run that reaches n begins in the open run
<1>5. ASSUME n \in free, NEW a \in 1 .. n, FreeRun(free, a, n)
      PROVE  first <= a
  <2>1. CASE a < first
    <3>1. first - 1 \in a .. n
      BY <1>4, <1>5, <2>1
    <3> QED BY <1>4, <1>5, <3>1 DEF FreeRun
  <2> QED BY <1>1, <1>4, <2>1
<1>6. ASSUME NEW a \in 1 .. n, NEW b \in 1 .. n, a <= b, FreeRun(free, a, b), b # n
      PROVE  (start >= 0 /\ start <= a) \/ Covered(blocks, a, b)
  <2>1. a \in 1 .. k /\ b \in 1 .. k
    BY <1>0, <1>1, <1>6
  <2> QED BY <1>0, <1>1, <1>2, <1>6, <2>1 DEF RunsFound, NoRun
<1>7. ASSUME NEW a \in 1 .. n, FreeRun(free, a, n) PROVE n \in free
  BY <1>1, <1>7 DEF FreeRun
<1>8. /\ n \notin free /\ start < 0 => next = acc
      /\ n \notin free /\ start >= 0 => next = Emit(acc, first, k)
      /\ n \in free /\ n # topU => next = [runStart |-> first, blocks |-> blocks]
      /\ n \in free /\ n = topU => next = Emit(acc, first, n)
  <2>1. first >= 0 /\ n \in Int /\ topU \in Int /\ n - 1 = k
    BY <1>0, <1>1, <1>4
  <2> QED BY <1>0, <1>1, <2>1, ScanStepCases
\* a run that is emitted
<1>9. ASSUME NEW end \in {k, n}, next = Emit(acc, first, end), first <= end,
             FreeRun(free, first, end),
             n \notin free \/ n = topU,
             \A a \in 1 .. n, b \in 1 .. n :
               a <= b /\ FreeRun(free, a, b) => Covered(blocks, a, b) \/ (first <= a /\ b <= end)
      PROVE  ScanOK(free, topU, next, n)
  <2> DEFINE block == [start |-> first, size |-> end - first + 1]
             more == Append(blocks, block)
  <2>1. next = [runStart |-> NoRun, blocks |-> more]
    BY <1>0, <1>9 DEF Emit
  <2>2. end \in 1 .. n /\ k \in Nat /\ n \in Nat /\ k <= n
    BY <1>0, <1>1, <1>4, <1>9
  <2>3. BlocksFree(free, more, n)
    BY <1>1, <1>4, <1>9, <2>2, EmitFree
  <2>4. RunOpen(free, topU, NoRun, n)
    BY <1>9 DEF RunOpen
  <2>5. block \in Block /\ block.start = first /\ block.start + block.size = end + 1
    BY <1>4, <2>2 DEF Block
  <2> HIDE DEF block
  <2>6. ASSUME NEW a \in 1 .. n, NEW b \in 1 .. n, a <= b, FreeRun(free, a, b)
        PROVE  Covered(more, a, b)
    <3>1. Covered(blocks, a, b) \/ (block.start <= a /\ b < block.start + block.size)
      BY <1>9, <2>2, <2>5, <2>6
    <3>2. a \in Int /\ b \in Int
      BY <2>2
    <3> QED BY <1>1, <2>5, <3>1, <3>2, AppendCovers
  <2> HIDE DEF more
  <2>7. RunsFound(free, next, n)
    BY <2>1, <2>6 DEF RunsFound
  <2> QED BY <2>1, <2>3, <2>4, <2>7 DEF ScanOK, NoRun
<1>10. CASE n \notin free /\ start < 0
  <2>1. next = acc
    BY <1>8, <1>10
  <2>2. RunOpen(free, topU, start, n)
    BY <1>2, <1>10 DEF RunOpen
  <2>3. RunsFound(free, acc, n)
    BY <1>0, <1>1, <1>6, <1>7, <1>10 DEF RunsFound
  <2> QED BY <1>0, <1>1, <1>3, <2>1, <2>2, <2>3 DEF ScanOK
<1>11. CASE n \notin free /\ start >= 0
  <2>1. next = Emit(acc, first, k) /\ first = start
    BY <1>0, <1>1, <1>8, <1>11 DEF First
  <2>2. FreeRun(free, first, k) /\ first <= k
    BY <1>2, <1>11, <2>1
  <2>3. ASSUME NEW a \in 1 .. n, NEW b \in 1 .. n, a <= b, FreeRun(free, a, b)
        PROVE  Covered(blocks, a, b) \/ (first <= a /\ b <= k)
    <3>1. b # n
      BY <1>7, <1>11, <2>3
    <3>2. b <= k
      BY <1>0, <3>1
    <3> QED BY <1>6, <2>1, <2>3, <3>1, <3>2
  <2>4. k \in {k, n} /\ (n \notin free \/ n = topU)
    BY <1>11
  <2> QED BY <1>9, <2>1, <2>2, <2>3, <2>4
<1>12. CASE n \in free /\ n # topU
  <2>1. next = [runStart |-> first, blocks |-> blocks]
    BY <1>8, <1>12
  <2>2. RunOpen(free, topU, first, n)
    BY <1>4, <1>12 DEF RunOpen, NoRun
  <2>3. ASSUME NEW a \in 1 .. n, NEW b \in 1 .. n, a <= b, FreeRun(free, a, b)
        PROVE  first <= a \/ Covered(blocks, a, b)
    <3>1. CASE b = n
      BY <1>5, <1>12, <2>3, <3>1
    <3>2. CASE b # n
      <4>1. start >= 0 => first = start
        BY <1>0, <1>1 DEF First
      <4> QED BY <1>6, <2>3, <3>2, <4>1
    <3> QED BY <3>1, <3>2
  <2>4. first # NoRun /\ first \in Int
    BY <1>4 DEF NoRun
  <2>5. RunsFound(free, next, n)
    BY <2>1, <2>3, <2>4 DEF RunsFound
  <2>6. next.runStart = first /\ next.blocks = blocks
    BY <2>1
  <2> QED BY <1>3, <2>1, <2>2, <2>4, <2>5, <2>6 DEF ScanOK
<1>13. CASE n \in free /\ n = topU
  <2>1. next = Emit(acc, first, n) /\ FreeRun(free, first, n) /\ first <= n
    BY <1>4, <1>8, <1>13
  <2>2. ASSUME NEW a \in 1 .. n, NEW b \in 1 .. n, a <= b, FreeRun(free, a, b)
        PROVE  Covered(blocks, a, b) \/ (first <= a /\ b <= n)
    <3>1. CASE b = n
      BY <1>5, <1>13, <2>2, <3>1
    <3>2. CASE b # n
      <4>1. start >= 0 => first = start
        BY <1>0, <1>1 DEF First
      <4> QED BY <1>6, <2>2, <3>2, <4>1
    <3> QED BY <3>1, <3>2
  <2>3. n \in {k, n} /\ (n \notin free \/ n = topU)
    BY <1>13
  <2> QED BY <1>9, <2>1, <2>2, <2>3
<1> QED BY <1>0, <1>1, <1>10, <1>11, <1>12, <1>13

\* The loop starts with nothing found.
LEMMA ScanStartsOK ==
  ASSUME NEW topU \in Nat, NEW free \in SUBSET (1 .. topU)
  PROVE  ScanOK(free, topU, ScanBase, 0)
<1>1. ScanBase.runStart = NoRun /\ ScanBase.blocks = <<>> /\ NoRun \in Int
  BY DEF ScanBase, NoRun
<1>2. ScanBase = [runStart |-> ScanBase.runStart, blocks |-> ScanBase.blocks]
  BY DEF ScanBase
<1>3. BlocksFree(free, <<>>, 0)
  BY DEF BlocksFree
<1>4. RunOpen(free, topU, NoRun, 0)
  BY DEF RunOpen
<1>5. RunsFound(free, ScanBase, 0)
  BY DEF RunsFound
<1> QED BY <1>1, <1>2, <1>3, <1>4, <1>5 DEF ScanOK

\* After the top unit everything has been found.
LEMMA ScanOfUnits ==
  ASSUME NEW topU \in Nat, NEW free \in SUBSET (1 .. topU), NEW f,
         IsScan(free, topU, topU, f)
  PROVE  ScanOK(free, topU, f[1 .. topU], topU)
<1> DEFINE OK(k) == ScanOK(free, topU, f[1 .. k], k)
           S == {k \in 0 .. topU : ~OK(k)}
<1>1. \A s \in SUBSET (1 .. topU) :
        f[s] = IF s = {} THEN ScanBase
               ELSE ScanStep(free, topU, f[s \ {Max(s)}], Max(s))
  BY DEF IsScan
<1>2. OK(0)
  <2>1. {} \in SUBSET (1 .. topU) /\ 1 .. 0 = {}
    OBVIOUS
  <2>2. f[1 .. 0] = ScanBase
    BY <1>1, <2>1
  <2> QED BY <2>2, ScanStartsOK
<1>3. ASSUME NEW k \in Nat, k < topU, OK(k) PROVE OK(k + 1)
  <2>1. PICK units : units = 1 .. k + 1
    OBVIOUS
  <2>2. k + 1 \in Nat /\ units \in SUBSET (1 .. k + 1) /\ units # {} /\ k + 1 \in units
    BY <2>1
  <2>3. Max(units) = k + 1
    <3>1. Max(units) \in units /\ k + 1 <= Max(units)
      BY <2>2, MaxOf
    <3>2. Max(units) \in 1 .. k + 1
      BY <2>1, <3>1
    <3> QED BY <3>1, <3>2
  <2>4. units \in SUBSET (1 .. topU) /\ units \ {k + 1} = 1 .. k
    BY <1>3, <2>1
  <2>5. f[units] = ScanStep(free, topU, f[1 .. k], k + 1)
    BY <1>1, <2>2, <2>3, <2>4
  <2>6. ScanOK(free, topU, f[units], k + 1)
    BY <1>3, <2>5, ScanStepOK
  <2> QED BY <2>1, <2>6
<1> HIDE DEF OK
<1>4. SUFFICES ASSUME S # {} PROVE FALSE
  <2>1. topU \notin S
    BY <1>4
  <2> QED BY <2>1 DEF OK
<1>5. PICK m \in S : \A k \in S : m <= k
  <2>1. S \in SUBSET Nat OBVIOUS
  <2> HIDE DEF S
  <2> QED BY <2>1, <1>4, LeastOf
<1>6. m \in Nat \ {0} /\ m <= topU /\ ~OK(m)
  BY <1>2
<1>7. m - 1 \in Nat /\ m - 1 < topU /\ m - 1 \notin S /\ (m - 1) + 1 = m
  BY <1>5, <1>6
<1>8. OK(m - 1)
  BY <1>7
<1> QED BY <1>3, <1>6, <1>7, <1>8

\* The blocks that the scan emits are runs of free units, and every run is in one.
LEMMA BlocksScanned ==
  ASSUME NEW size \in Nat, NEW occupied
  PROVE  LET free == (1 .. size) \ occupied
         IN  \E acc : /\ ScanOK(free, size, acc, size)
                     /\ ScanBlocks(occupied, size) = acc.blocks
<1> DEFINE free == (1 .. size) \ occupied
           topU == StartingUnit + size - 1
           frame == (StartingUnit .. topU) \ occupied
           seq == [i \in 1 .. (topU - StartingUnit + 1) |-> StartingUnit + i - 1]
           Folds(f) == f = [s \in SUBSET (DOMAIN seq) |->
                              IF s = {} THEN [runStart |-> NoRun, blocks |-> <<>>]
                              ELSE ScanStep(frame, topU, f[s \ {Max(s)}], seq[Max(s)])]
           chosen == CHOOSE f : Folds(f)
<1>1. topU = size /\ frame = free /\ seq = [i \in 1 .. size |-> i] /\ DOMAIN seq = 1 .. size
  BY DEF StartingUnit
<1>2. \A s \in SUBSET (1 .. size) : s # {} => Max(s) \in s /\ seq[Max(s)] = Max(s)
  BY <1>1, MaxOf
<1>3. \A f : Folds(f) <=> IsScan(free, size, size, f)
  <2> HIDE DEF seq, topU, frame, free
  <2> QED BY <1>1, <1>2 DEF IsScan, ScanBase
<1>4. Folds(chosen)
  <2>1. \E f : Folds(f)
    <3> HIDE DEF Folds
    <3> QED BY <1>3, ScansExist DEF Scans
  <2> HIDE DEF Folds
  <2> QED BY <2>1
<1>5. IsScan(free, size, size, chosen)
  <2> HIDE DEF Folds, chosen, free
  <2> QED BY <1>3, <1>4
<1>6. ScanOK(free, size, chosen[1 .. size], size)
  <2> HIDE DEF chosen
  <2> QED BY <1>5, ScanOfUnits
<1>7. ScanBlocks(occupied, size) = chosen[DOMAIN seq].blocks
  BY DEF ScanBlocks, FoldLeft, MapThenFoldSet
<1>8. chosen[DOMAIN seq] = chosen[1 .. size]
  BY <1>1
<1>9. \E acc : ScanOK(free, size, acc, size) /\ ScanBlocks(occupied, size) = acc.blocks
  <2> HIDE DEF chosen, seq, free
  <2> QED BY <1>6, <1>7, <1>8
<1> QED BY <1>9

\* A device fits in a block just when it stays in the frame and all its units are free.
LEMMA FitsWhereFree ==
  ASSUME NEW size \in Nat, NEW occupied, NEW n \in 1 .. size, NEW h \in Nat \ {0}
  PROVE  FitsInBlock(ScanBlocks(occupied, size), n, h) <=>
           n + h - 1 <= size /\ (n .. n + h - 1) \cap occupied = {}
<1> DEFINE free == (1 .. size) \ occupied
           top == n + h - 1
<1>1. PICK acc : ScanOK(free, size, acc, size) /\ ScanBlocks(occupied, size) = acc.blocks
  BY BlocksScanned
<1>2. PICK blocks : blocks = acc.blocks
  OBVIOUS
<1>3. /\ BlocksFree(free, blocks, size) /\ RunsFound(free, acc, size)
      /\ acc.runStart = NoRun
  BY <1>1, <1>2 DEF ScanOK, RunOpen
<1>4. \A i \in DOMAIN blocks : blocks[i].start \in Int /\ blocks[i].size \in Int
  <2>1. blocks \in Seq(Block)
    BY <1>3 DEF BlocksFree
  <2>2. \A i \in DOMAIN blocks : blocks[i] \in Block
    BY <2>1
  <2> QED BY <2>2 DEF Block
<1>5. FitsInBlock(blocks, n, h) <=> Covered(blocks, n, top)
  BY <1>4 DEF FitsInBlock, Covered
<1>6. ASSUME Covered(blocks, n, top)
      PROVE  top <= size /\ n .. top \subseteq free
  <2>1. PICK i \in DOMAIN blocks : blocks[i].start <= n /\ top < blocks[i].start + blocks[i].size
    BY <1>6 DEF Covered
  <2>2. PICK a \in Int, b \in Int : a = blocks[i].start /\ b = blocks[i].start + blocks[i].size - 1
    BY <1>4
  <2>3. a <= n /\ top <= b /\ b <= size /\ a .. b \subseteq free
    BY <1>3, <1>4, <2>1, <2>2 DEF BlocksFree, FreeRun
  <2> HIDE DEF free
  <2> QED BY <2>3
<1>7. ASSUME top <= size, n .. top \subseteq free
      PROVE  Covered(blocks, n, top)
  <2>1. top \in 1 .. size /\ n <= top
    BY <1>7
  <2> HIDE DEF free, top
  <2> QED BY <1>2, <1>3, <1>7, <2>1 DEF RunsFound, FreeRun
<1>8. top <= size => (n .. top \subseteq free <=> (n .. top) \cap occupied = {})
  OBVIOUS
<1> HIDE DEF free
<1> QED BY <1>1, <1>2, <1>5, <1>6, <1>7, <1>8

----------------------------------------------------------------------------
(* The search and the check.                                               *)

\* A hold has a position, and keeps one.
HoldsPositioned ==
  /\ \A r \in Reservations : Stored(res[r]) => res[r].u \in Int
  /\ \A s \in Sessions : sess[s].op \in ResOps /\ Stored(sess[s].row) => sess[s].row.u \in Int

\* Two ranges intersect just when they have a unit in common.
LEMMA IntersectIsSharedUnit ==
  ASSUME NEW p, NEW q, p.u \in Int, q.u \in Int,
         p.h \in Int \cup {Null}, q.h \in Int \cup {Null}
  PROVE  IntervalsIntersect(p, q) <=> (p.u .. Top(p)) \cap Units(q) # {}
<1>1. Top(p) \in Int /\ Top(q) \in Int /\ p.u <= Top(p) /\ q.u <= Top(q)
  BY NullAssumption DEF Top, Height
<1>2. PICK a \in Int, b \in Int, c \in Int, d \in Int :
        a = p.u /\ b = Top(p) /\ c = q.u /\ d = Top(q)
  BY <1>1
<1>3. a <= d /\ c <= b <=> (a .. b) \cap (c .. d) # {}
  <2>1. ASSUME a <= d, c <= b PROVE (a .. b) \cap (c .. d) # {}
    <3>1. CASE a <= c
      <4>1. c \in a .. b /\ c \in c .. d
        BY <1>1, <1>2, <2>1, <3>1
      <4> QED BY <4>1
    <3>2. CASE c <= a
      <4>1. a \in a .. b /\ a \in c .. d
        BY <1>1, <1>2, <2>1, <3>2
      <4> QED BY <4>1
    <3> QED BY <3>1, <3>2
  <2>2. ASSUME NEW m \in (a .. b) \cap (c .. d) PROVE a <= d /\ c <= b
    OBVIOUS
  <2> QED BY <2>1, <2>2
<1> QED BY <1>2, <1>3 DEF IntervalsIntersect, Units

\* The units that the search regards as occupied, one by one.
LEMMA UnitsOccupied ==
  ASSUME NEW cab, NEW m
  PROVE  m \in PhysicallyOccupied(cab) <=>
           \/ \E a \in Assets : Occupies(asset[a], cab) /\ m \in Units(asset[a])
           \/ \E r \in Reservations :
                Active(res[r]) /\ res[r].cab = cab /\ m \in Units(res[r])
BY DEF PhysicallyOccupied

\* In one state: a full-depth device clashes with whatever it shares a unit with, so
\* the check accepts it just where the scan has found room.
LEMMA SearchMeetsCheck ==
  ASSUME TypeOK, HoldsPositioned
  PROVE  SuggestionsMatchCheck
<1> SUFFICES ASSUME NEW cab \in Cabinets, totalU[cab] # Null, NEW uSize \in 1 .. totalU[cab] + 1
             PROVE  Suggested(cab, uSize) =
                      {n \in 0 .. totalU[cab] + 1 :
                         USlotAvailable([u |-> n, h |-> uSize, side |-> "FRONT", depth |-> "full"],
                                        cab, Null, Null)}
  BY DEF SuggestionsMatchCheck
<1> DEFINE device(n) == [u |-> n, h |-> uSize, side |-> "FRONT", depth |-> "full"]
<1>1. PICK size : size = totalU[cab]
  OBVIOUS
<1>2. size \in Nat /\ uSize \in Nat \ {0}
  <2>1. size \in Int
    BY <1>1 DEF TypeOK
  <2> QED BY <1>1, <2>1
<1>3. PICK occupied : occupied = PhysicallyOccupied(cab)
  OBVIOUS
<1>4. ASSUME NEW n \in 0 .. size + 1
      PROVE  /\ device(n).u = n /\ device(n).h = uSize /\ Top(device(n)) = n + uSize - 1
             /\ OutOfBounds(device(n), size) <=> n < 1 \/ n + uSize - 1 > size
  <2>1. Top(device(n)) = n + uSize - 1
    BY <1>2, NullAssumption DEF Top, Height
  <2>2. size # Null
    BY <1>2, NullAssumption
  <2> QED BY <1>2, <2>1, <2>2 DEF OutOfBounds, StartingUnit
<1>5. ASSUME NEW n \in 0 .. size + 1, NEW q, q.u \in Int, q.h \in Int \cup {Null}
      PROVE  Conflict(device(n), q) <=> (n .. n + uSize - 1) \cap Units(q) # {}
  <2>1. FacesClash(device(n), q)
    BY DEF FacesClash
  <2> HIDE DEF device
  <2> QED BY <1>2, <1>4, <1>5, <2>1, IntersectIsSharedUnit DEF Conflict
<1> HIDE DEF device
<1>6. ASSUME NEW n \in 0 .. size + 1
      PROVE  FreeOfAssets(device(n), cab, Null) <=>
               \A a \in Assets : Occupies(asset[a], cab) =>
                 (n .. n + uSize - 1) \cap Units(asset[a]) = {}
  <2>1. Assets \ {Null} = Assets
    BY RackAssumption
  <2>2. \A a \in Assets : Occupies(asset[a], cab) =>
          asset[a].u \in Int /\ asset[a].h \in Int \cup {Null}
    BY DEF TypeOK, AssetRow, Occupies
  <2> QED BY <1>5, <2>1, <2>2 DEF FreeOfAssets
<1>7. ASSUME NEW n \in 0 .. size + 1
      PROVE  FreeOfReservations(device(n), cab, Null) <=>
               \A r \in Reservations : Active(res[r]) /\ res[r].cab = cab =>
                 (n .. n + uSize - 1) \cap Units(res[r]) = {}
  <2>1. Reservations \ {Null} = Reservations
    BY RackAssumption
  <2>2. ASSUME NEW r \in Reservations, Active(res[r])
        PROVE  Conflict(device(n), AsPlacement(res[r])) <=>
                 (n .. n + uSize - 1) \cap Units(res[r]) # {}
    <3>1. res[r].u \in Int /\ res[r].h \in Int
      BY <2>2 DEF TypeOK, ResRow, Active, HoldsPositioned
    <3>2. /\ AsPlacement(res[r]).u = res[r].u /\ AsPlacement(res[r]).h = res[r].h
          /\ Units(AsPlacement(res[r])) = Units(res[r])
      BY DEF AsPlacement, Units, Top
    <3> QED BY <1>5, <3>1, <3>2
  <2> QED BY <2>1, <2>2 DEF FreeOfReservations
<1>8. ASSUME NEW n \in 0 .. size + 1
      PROVE  (n .. n + uSize - 1) \cap occupied = {} <=>
               FreeOfAssets(device(n), cab, Null) /\ FreeOfReservations(device(n), cab, Null)
  <2>1. \A m : m \in occupied <=>
          \/ \E a \in Assets : Occupies(asset[a], cab) /\ m \in Units(asset[a])
          \/ \E r \in Reservations :
               Active(res[r]) /\ res[r].cab = cab /\ m \in Units(res[r])
    BY <1>3, UnitsOccupied
  <2>2. (n .. n + uSize - 1) \cap occupied = {} <=>
          /\ \A a \in Assets : Occupies(asset[a], cab) =>
                (n .. n + uSize - 1) \cap Units(asset[a]) = {}
          /\ \A r \in Reservations : Active(res[r]) /\ res[r].cab = cab =>
                (n .. n + uSize - 1) \cap Units(res[r]) = {}
    BY <2>1
  <2> QED BY <1>6, <1>7, <2>2
<1>9. ASSUME NEW n \in 0 .. size + 1
      PROVE  USlotAvailable(device(n), cab, Null, Null) <=>
               n >= 1 /\ n + uSize - 1 <= size /\ (n .. n + uSize - 1) \cap occupied = {}
  BY <1>1, <1>2, <1>4, <1>8 DEF USlotAvailable
<1>10. ASSUME NEW n \in 1 .. size
       PROVE  FitsInBlock(PlaceableBlocks(cab), n, uSize) <=>
                n + uSize - 1 <= size /\ (n .. n + uSize - 1) \cap occupied = {}
  BY <1>1, <1>2, <1>3, FitsWhereFree DEF PlaceableBlocks
<1>11. Suggested(cab, uSize) = {n \in 1 .. size : FitsInBlock(PlaceableBlocks(cab), n, uSize)}
  BY <1>1 DEF Suggested, StartingUnit
<1>12. {n \in 1 .. size : FitsInBlock(PlaceableBlocks(cab), n, uSize)} =
         {n \in 0 .. size + 1 : USlotAvailable(device(n), cab, Null, Null)}
  <2>1. ASSUME NEW n \in 1 .. size, FitsInBlock(PlaceableBlocks(cab), n, uSize)
        PROVE  n \in 0 .. size + 1 /\ USlotAvailable(device(n), cab, Null, Null)
    BY <1>2, <1>9, <1>10, <2>1
  <2>2. ASSUME NEW n \in 0 .. size + 1, USlotAvailable(device(n), cab, Null, Null)
        PROVE  n \in 1 .. size /\ FitsInBlock(PlaceableBlocks(cab), n, uSize)
    <3>1. n \in 1 .. size
      BY <1>2, <1>9, <2>2
    <3> QED BY <1>9, <1>10, <2>2, <3>1
  <2> QED BY <2>1, <2>2
<1> QED BY <1>1, <1>11, <1>12 DEF device

----------------------------------------------------------------------------
(* Every hold that is stored has a position.                               *)

\* A session's request is replaced and no hold is written.
LEMMA AskPositioned ==
  ASSUME TypeOK, HoldsPositioned, NEW s \in Sessions, NEW q, sess' = [sess EXCEPT ![s] = q],
         UNCHANGED res, q.op \in ResOps /\ Stored(q.row) => q.row.u \in Int
  PROVE  HoldsPositioned'
<1>1. \A t \in Sessions : sess'[t] = IF t = s THEN q ELSE sess[t]
  BY DEF TypeOK
<1>2. ASSUME NEW t \in Sessions, sess'[t].op \in ResOps, Stored(sess'[t].row)
      PROVE  sess'[t].row.u \in Int
  <2>1. CASE t = s
    BY <1>1, <1>2, <2>1
  <2>2. CASE t # s
    BY <1>1, <1>2, <2>2 DEF HoldsPositioned
  <2> QED BY <2>1, <2>2
<1>3. \A r \in Reservations : Stored(res'[r]) => res'[r].u \in Int
  BY DEF HoldsPositioned
<1>4. \A t \in Sessions : sess'[t].op \in ResOps /\ Stored(sess'[t].row) => sess'[t].row.u \in Int
  BY <1>2
<1> QED BY <1>3, <1>4 DEF HoldsPositioned, Stored

\* What an asset endpoint does is to put an asset request in flight.
LEMMA AskedAsset ==
  ASSUME NEW s \in Sessions, AssetRequest(s)
  PROVE  \E q : q.op \in AssetOps /\ sess' = [sess EXCEPT ![s] = q] /\ UNCHANGED res
<1>1. ASSUME NEW op \in AssetOps, NEW a, NEW row, NEW but, AskAsset(s, op, a, row, but)
      PROVE  \E q : q.op \in AssetOps /\ sess' = [sess EXCEPT ![s] = q] /\ UNCHANGED res
  <2> DEFINE q == [op |-> op, id |-> a, row |-> row, override |-> but]
  <2>1. q.op \in AssetOps
    OBVIOUS
  <2>2. sess' = [sess EXCEPT ![s] = q] /\ UNCHANGED res
    BY <1>1 DEF AskAsset
  <2> HIDE DEF q
  <2> QED BY <2>1, <2>2
<1>2. /\ "create" \in AssetOps /\ "update" \in AssetOps /\ "retire" \in AssetOps
      /\ "remove" \in AssetOps /\ "delete" \in AssetOps /\ "import" \in AssetOps
      /\ "stage" \in AssetOps /\ "move" \in AssetOps /\ "clear" \in AssetOps
  BY DEF AssetOps
<1>3. CASE Create(s)
  BY <1>1, <1>2, <1>3, Zenon DEF Create
<1>4. CASE UpdateForClient(s)
  BY <1>1, <1>2, <1>4, Zenon DEF UpdateForClient
<1>5. CASE RemoveForClient(s)
  BY <1>1, <1>2, <1>5, Zenon DEF RemoveForClient
<1>6. CASE Retire(s)
  BY <1>1, <1>2, <1>6, Zenon DEF Retire
<1>7. CASE PullFromRack(s)
  BY <1>1, <1>2, <1>7, Zenon DEF PullFromRack
<1>8. CASE ImportExisting(s) \/ ImportNew(s)
  BY <1>1, <1>2, <1>8, Zenon DEF ImportExisting, ImportNew
<1>9. CASE RaiseMove(s) \/ ApplyMove(s) \/ DropMove(s)
  BY <1>1, <1>2, <1>9, Zenon DEF RaiseMove, ApplyMove, DropMove
<1> QED BY <1>3, <1>4, <1>5, <1>6, <1>7, <1>8, <1>9 DEF AssetRequest

\* A reservation request takes its position from the form or from the stored row.
LEMMA ReservationRequestPositioned ==
  ASSUME TypeOK, HoldsPositioned, NEW s \in Sessions, ReservationRequest(s)
  PROVE  HoldsPositioned'
<1>1. ASSUME NEW op, NEW r, NEW row, AskReservation(s, op, r, row), Stored(row) => row.u \in Int
      PROVE  HoldsPositioned'
  <2> DEFINE q == [op |-> op, id |-> r, row |-> row]
  <2>1. q.row = row
    OBVIOUS
  <2>2. sess' = [sess EXCEPT ![s] = q] /\ UNCHANGED res
    BY <1>1 DEF AskReservation
  <2> HIDE DEF q
  <2> QED BY <1>1, <2>1, <2>2, AskPositioned
<1>2. CASE CreateReservation(s)
  <2>1. PICK r \in Reservations, range \in Ranges, term \in Terms :
          AskReservation(s, "reserve", r,
            [db |-> "stored", cab |-> range.cab, u |-> range.u, h |-> range.h,
             side |-> range.side, expires |-> term])
    BY <1>2 DEF CreateReservation
  <2>2. range.u \in Int
    BY RackAssumption DEF HoldRange
  <2> QED BY <1>1, <2>1, <2>2
<1>3. CASE UpdateReservation(s)
  <2>1. PICK r \in Reservations :
          /\ Stored(res[r])
          /\ \E range \in Ranges \cup {[cab |-> res[r].cab, u |-> res[r].u,
                                        h |-> res[r].h, side |-> res[r].side]},
                term \in Terms \cup {res[r].expires} :
               AskReservation(s, "rereserve", r,
                 [res[r] EXCEPT !.u = range.u, !.h = range.h, !.side = range.side,
                                !.expires = term])
    BY <1>3 DEF UpdateReservation
  <2>2. PICK range \in Ranges \cup {[cab |-> res[r].cab, u |-> res[r].u,
                                     h |-> res[r].h, side |-> res[r].side]},
             term \in Terms \cup {res[r].expires} :
          AskReservation(s, "rereserve", r,
            [res[r] EXCEPT !.u = range.u, !.h = range.h, !.side = range.side,
                           !.expires = term])
    BY <2>1
  <2>3. range.u \in Int
    BY <2>1, RackAssumption DEF HoldRange, HoldsPositioned
  <2>4. res[r] \in ResRow
    BY DEF TypeOK
  <2>5. [res[r] EXCEPT !.u = range.u, !.h = range.h, !.side = range.side, !.expires = term].u = range.u
    BY <2>4 DEF ResRow
  <2> QED BY <1>1, <2>2, <2>3, <2>5
<1>4. CASE RemoveReservation(s)
  <2>1. ~Stored([NoReservation EXCEPT !.db = "deleted"])
    BY DEF NoReservation, Stored
  <2> QED BY <1>1, <1>4, <2>1 DEF RemoveReservation
<1> QED BY <1>2, <1>3, <1>4 DEF ReservationRequest

\* Every step keeps positions.
LEMMA HoldsStayPositioned ==
  ASSUME TypeOK, HoldsPositioned, [Next]_vars
  PROVE  HoldsPositioned'
<1>1. Idle.op = "idle" /\ "idle" \notin ResOps /\ AssetOps \cap ResOps = {}
  BY DEF Idle, ResOps, AssetOps
<1>2. ASSUME NEW s \in Sessions, AssetRequest(s)
      PROVE  HoldsPositioned'
  BY <1>1, <1>2, AskedAsset, AskPositioned
<1>3. ASSUME NEW s \in Sessions, CommitAsset(s)
      PROVE  HoldsPositioned'
  <2>1. sess' = [sess EXCEPT ![s] = Idle] /\ UNCHANGED res
    BY <1>3 DEF CommitAsset
  <2> QED BY <1>1, <2>1, AskPositioned
<1>4. ASSUME NEW s \in Sessions, CommitReservation(s)
      PROVE  HoldsPositioned'
  <2>1. /\ sess' = [sess EXCEPT ![s] = Idle] /\ sess[s].op \in ResOps
        /\ res' = res \/ res' = [res EXCEPT ![sess[s].id] = sess[s].row]
    BY <1>4 DEF CommitReservation
  <2>2. CASE res' = res
    BY <1>1, <2>1, <2>2, AskPositioned
  <2>3. CASE res' = [res EXCEPT ![sess[s].id] = sess[s].row]
    <3>1. ASSUME NEW r \in Reservations, Stored(res'[r]) PROVE res'[r].u \in Int
      <4>1. res'[r] = res[r] \/ res'[r] = sess[s].row
        BY <2>3 DEF TypeOK
      <4> QED BY <2>1, <3>1, <4>1 DEF HoldsPositioned
    <3>2. ASSUME NEW t \in Sessions, sess'[t].op \in ResOps, Stored(sess'[t].row)
          PROVE  sess'[t].row.u \in Int
      <4>1. t # s /\ sess'[t] = sess[t]
        BY <1>1, <2>1, <3>2 DEF TypeOK
      <4> QED BY <3>2, <4>1 DEF HoldsPositioned
    <3> QED BY <3>1, <3>2 DEF HoldsPositioned, Stored
  <2> QED BY <2>1, <2>2, <2>3
<1>5. CASE ResizeCabinet \/ BackfillRackSide \/ Tick \/ UNCHANGED vars
  <2>1. UNCHANGED <<res, sess>>
    BY <1>5 DEF ResizeCabinet, BackfillRackSide, Tick, vars
  <2> QED BY <2>1 DEF HoldsPositioned, Stored
<1> QED BY <1>2, <1>3, <1>4, <1>5, ReservationRequestPositioned DEF Next

\* Find-space offers a position for full-depth kit exactly when assertUSlotAvailable
\* accepts it, in every reachable state, with any number of requests in flight, any
\* mix of kit and holds and any size the frame was given (SuggestionsMatchCheck).
THEOREM SearchAgreesWithCheck == Spec => []SuggestionsMatchCheck
<1>1. Init => HoldsPositioned
  BY DEF Init, HoldsPositioned, NoReservation, Stored, Idle, ResOps
<1>2. TypeOK /\ HoldsPositioned /\ [Next]_vars => TypeOK' /\ HoldsPositioned'
  BY NextTyped, HoldsStayPositioned
<1>3. TypeOK /\ HoldsPositioned => SuggestionsMatchCheck
  BY SearchMeetsCheck
<1> QED BY InitTyped, <1>1, <1>2, <1>3, PTL DEF Spec
=============================================================================
