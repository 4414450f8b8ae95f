--------------------------- MODULE Planner_proofs ---------------------------
(***************************************************************************)
(* Proofs about the planner, for a ring of any size, any feed rates,       *)
(* junction speeds and lengths.                                            *)
(*                                                                         *)
(* The two passes of planner_recalculate are functions on a stretch of the *)
(* ring.  Replan is the ring they leave, and the lemmas about it compare   *)
(* it with any other plan G for the same blocks: if G can be braked from,  *)
(* the reverse pass is no slower than G and can be braked from itself,     *)
(* although it skips the blocks that are at their maximum (ReverseBrakes); *)
(* if acceleration also reaches G, the whole plan is no slower than G      *)
(* (ReplanImproves).                                                       *)
(*                                                                         *)
(* The invariants are stated on slots instead of places in the queue.      *)
(*   TypeInv   types, and a planned pointer that stays in the queue;       *)
(*   TightInv  no speed is wasted, and no block behind the planned pointer *)
(*             could make the block it points to faster: this is what      *)
(*             makes it sound to plan from there on only;                  *)
(*   StopsInv  every block is entered no faster than it can be braked      *)
(*             from; G is the plan before the step;                        *)
(*   SpeedInv  the speed of the machine against the plan.  Its last part,  *)
(*             BrakeInv, says that some speeds exist along which the       *)
(*             machine can brake to the end of the queue.  They are those  *)
(*             of the plan, except after an override lowered the feed rate *)
(*             under a moving machine: then the plan asks for less than it *)
(*             can do, and they are those of a plan before.                *)
(***************************************************************************)
EXTENDS Planner, TLAPS, WellFoundedInduction

-----------------------------------------------------------------------------
(* Induction over an interval, for sets instead of predicates.             *)

\* A set of natural numbers that is not empty has a least element.
LEMMA LeastNatural ==
    ASSUME NEW T, T \subseteq Nat, T # {}
    PROVE  \E m \in T : \A n \in T : m <= n
<1>1. \E x \in T : \A y \in T : <<y, x>> \notin OpToRel(<, Nat)
  BY NatLessThanWellFounded, WFMin
<1>2. PICK x \in T : \A y \in T : <<y, x>> \notin OpToRel(<, Nat)
  BY <1>1
<1>3. \A y \in T : ~ (y < x)
  BY <1>2 DEF OpToRel
<1> QED
  BY <1>3

\* A set that holds 0 and with every number the next one holds 0 .. n.
LEMMA UpTo ==
    ASSUME NEW n \in Nat, NEW S, 0 \in S, \A k \in 1 .. n : k - 1 \in S => k \in S
    PROVE  \A k \in 0 .. n : k \in S
<1> DEFINE T == {k \in 0 .. n : k \notin S}
<1> SUFFICES ASSUME T # {} PROVE FALSE
  OBVIOUS
<1>1. T \subseteq Nat
  OBVIOUS
<1>2. PICK m \in T : \A k \in T : m <= k
  BY <1>1, LeastNatural
<1>3. m \in 1 .. n /\ m - 1 \in 0 .. n /\ m \notin S
  BY <1>2
<1>4. m - 1 \in S
  BY <1>2, <1>3
<1> QED
  BY <1>3, <1>4

\* A set of numbers from 1 .. n that is not empty has a greatest element.
LEMMA Greatest ==
    ASSUME NEW n \in Nat, NEW S, S \subseteq 1 .. n, S # {}
    PROVE  \E k \in S : \A j \in S : j <= k
<1> DEFINE T == {k \in Nat : \E i \in S : k = n - i}
<1>1. T \subseteq Nat
  OBVIOUS
<1>2. \A i \in S : n - i \in T
  OBVIOUS
<1>3. T # {}
  BY <1>2
<1>4. PICK m \in T : \A k \in T : m <= k
  BY <1>1, <1>3, LeastNatural
<1>5. PICK x \in S : m = n - x
  BY <1>4
<1>6. \A j \in S : j <= x
  BY <1>2, <1>4, <1>5
<1> QED
  BY <1>6

\* A function on 0 .. n whose values are determined one by one exists.
LEMMA PassExists ==
    ASSUME NEW n \in Nat, NEW a \in Nat, NEW D \in [1 .. n -> [Nat -> Nat]]
    PROVE  \E g \in [0 .. n -> Nat] :
             g[0] = a /\ \A k \in 1 .. n : g[k] = D[k][g[k - 1]]
<1> DEFINE S == {m \in 0 .. n : \E g \in [0 .. m -> Nat] :
                                  g[0] = a /\ \A k \in 1 .. m : g[k] = D[k][g[k - 1]]}
<1>1. 0 \in S
  <2> DEFINE g == [k \in 0 .. 0 |-> a]
  <2>1. g \in [0 .. 0 -> Nat] /\ g[0] = a /\ \A k \in 1 .. 0 : g[k] = D[k][g[k - 1]]
    OBVIOUS
  <2> HIDE DEF g
  <2>2. \E f \in [0 .. 0 -> Nat] : f[0] = a /\ \A k \in 1 .. 0 : f[k] = D[k][f[k - 1]]
    BY <2>1
  <2> QED
    BY <2>2
<1>2. ASSUME NEW m \in 1 .. n, m - 1 \in S PROVE m \in S
  <2>1. PICK g \in [0 .. m - 1 -> Nat] :
          g[0] = a /\ \A k \in 1 .. m - 1 : g[k] = D[k][g[k - 1]]
    BY <1>2
  <2>0. m \in Nat /\ m - 1 \in 0 .. m - 1 /\ D[m] \in [Nat -> Nat]
    OBVIOUS
  <2> DEFINE h == [k \in 0 .. m |-> IF k = m THEN D[m][g[m - 1]] ELSE g[k]]
  <2>2. g[m - 1] \in Nat /\ D[m][g[m - 1]] \in Nat
    BY <2>0
  <2>3. h \in [0 .. m -> Nat]
    <3>1. ASSUME NEW k \in 0 .. m PROVE (IF k = m THEN D[m][g[m - 1]] ELSE g[k]) \in Nat
      <4>1. CASE k = m
        BY <4>1, <2>2
      <4>2. CASE k # m
        <5>1. k \in 0 .. m - 1
          BY <4>2, <2>0
        <5> QED
          BY <4>2, <5>1
      <4> QED
        BY <4>1, <4>2
    <3> QED
      BY <3>1
  <2>4. h[0] = a
    BY <2>1
  <2>5. ASSUME NEW k \in 1 .. m PROVE h[k] = D[k][h[k - 1]]
    <3>1. k \in 0 .. m /\ k - 1 \in 0 .. m /\ k - 1 # m
      BY <2>0
    <3>2. h[k - 1] = g[k - 1]
      BY <3>1
    <3>3. CASE k = m
      BY <3>1, <3>2, <3>3
    <3>4. CASE k # m
      <4>1. k \in 1 .. m - 1
        BY <3>4, <2>0
      <4> QED
        BY <4>1, <3>1, <3>2, <3>4, <2>1
    <3> QED
      BY <3>3, <3>4
  <2> HIDE DEF h
  <2>6. \E f \in [0 .. m -> Nat] : f[0] = a /\ \A k \in 1 .. m : f[k] = D[k][f[k - 1]]
    BY <2>3, <2>4, <2>5
  <2>7. m \in 0 .. n
    OBVIOUS
  <2> QED
    BY <2>6, <2>7, Zenon
<1>3. n \in S
  <2> HIDE DEF S
  <2>1. \A k \in 1 .. n : k - 1 \in S => k \in S
    BY <1>2
  <2>2. \A k \in 0 .. n : k \in S
    BY <1>1, <2>1, UpTo
  <2> QED
    BY <2>2
<1> QED
  BY <1>3

-----------------------------------------------------------------------------
(* The ring of slots.                                                      *)

\* Remainders of numbers less than one turn away.
LEMMA OneTurn ==
    ASSUME NEW n \in Nat \ {0}, NEW a \in Int, -n < a, a < 2 * n
    PROVE  a % n = IF a < 0 THEN a + n ELSE IF a < n THEN a ELSE a - n
  BY SMTT(30)

\* Steps, Forth and Back without remainders.
LEMMA RingArithmetic ==
    \A i, k \in Slots :
      /\ Steps(i, k) = IF i <= k THEN k - i ELSE k - i + BLOCK_BUFFER_SIZE
      /\ Forth(i, k) = IF i + k < BLOCK_BUFFER_SIZE THEN i + k ELSE i + k - BLOCK_BUFFER_SIZE
      /\ Back(i, k) = IF k <= i THEN i - k ELSE i - k + BLOCK_BUFFER_SIZE
<1> SUFFICES ASSUME NEW i \in Slots, NEW k \in Slots
             PROVE  /\ Steps(i, k) = IF i <= k THEN k - i ELSE k - i + BLOCK_BUFFER_SIZE
                    /\ Forth(i, k) = IF i + k < BLOCK_BUFFER_SIZE THEN i + k
                                     ELSE i + k - BLOCK_BUFFER_SIZE
                    /\ Back(i, k) = IF k <= i THEN i - k ELSE i - k + BLOCK_BUFFER_SIZE
  OBVIOUS
<1> DEFINE n == BLOCK_BUFFER_SIZE
<1>1. n \in Nat \ {0} /\ i \in Nat /\ k \in Nat /\ i < n /\ k < n
  BY SizeAssumption DEF Slots
<1> HIDE DEF n
<1>2. (k - i) % n = IF i <= k THEN k - i ELSE k - i + n
  <2> DEFINE a == k - i
  <2>1. a \in Int /\ -n < a /\ a < 2 * n
    BY <1>1
  <2>2. a % n = IF a < 0 THEN a + n ELSE IF a < n THEN a ELSE a - n
    <3> HIDE DEF a
    <3> QED
      BY <1>1, <2>1, OneTurn
  <2>3. (IF a < 0 THEN a + n ELSE IF a < n THEN a ELSE a - n) = IF i <= k THEN k - i ELSE k - i + n
    BY <1>1
  <2> QED
    BY <2>2, <2>3, Zenon
<1>3. (i + k) % n = IF i + k < n THEN i + k ELSE i + k - n
  <2> DEFINE a == i + k
  <2>1. a \in Int /\ -n < a /\ a < 2 * n
    BY <1>1
  <2>2. a % n = IF a < 0 THEN a + n ELSE IF a < n THEN a ELSE a - n
    <3> HIDE DEF a
    <3> QED
      BY <1>1, <2>1, OneTurn
  <2>3. (IF a < 0 THEN a + n ELSE IF a < n THEN a ELSE a - n) = IF i + k < n THEN i + k ELSE i + k - n
    BY <1>1
  <2> QED
    BY <2>2, <2>3, Zenon
<1>4. (i - k) % n = IF k <= i THEN i - k ELSE i - k + n
  <2> DEFINE a == i - k
  <2>1. a \in Int /\ -n < a /\ a < 2 * n
    BY <1>1
  <2>2. a % n = IF a < 0 THEN a + n ELSE IF a < n THEN a ELSE a - n
    <3> HIDE DEF a
    <3> QED
      BY <1>1, <2>1, OneTurn
  <2>3. (IF a < 0 THEN a + n ELSE IF a < n THEN a ELSE a - n) = IF k <= i THEN i - k ELSE i - k + n
    BY <1>1
  <2> QED
    BY <2>2, <2>3, Zenon
<1> QED
  BY <1>2, <1>3, <1>4 DEF Steps, Forth, Back, n

\* The slots at 0, 1, ... steps from i are i, the next one, ...
LEMMA RingSteps ==
    \A i, j \in Slots :
      /\ NextSlot(j) \in Slots /\ PrevSlot(j) \in Slots
      /\ NextSlot(PrevSlot(j)) = j /\ PrevSlot(NextSlot(j)) = j
      /\ Steps(i, j) \in Slots
      /\ Steps(i, j) = 0 <=> i = j
      /\ Forth(i, Steps(i, j)) = j
      /\ Steps(i, NextSlot(j)) = IF NextSlot(j) = i THEN 0 ELSE Steps(i, j) + 1
      /\ Steps(i, PrevSlot(j)) = IF j = i THEN BLOCK_BUFFER_SIZE - 1 ELSE Steps(i, j) - 1
<1> SUFFICES ASSUME NEW i \in Slots, NEW j \in Slots
             PROVE  /\ NextSlot(j) \in Slots /\ PrevSlot(j) \in Slots
                    /\ NextSlot(PrevSlot(j)) = j /\ PrevSlot(NextSlot(j)) = j
                    /\ Steps(i, j) \in Slots
                    /\ Steps(i, j) = 0 <=> i = j
                    /\ Forth(i, Steps(i, j)) = j
                    /\ Steps(i, NextSlot(j)) = IF NextSlot(j) = i THEN 0 ELSE Steps(i, j) + 1
                    /\ Steps(i, PrevSlot(j)) = IF j = i THEN BLOCK_BUFFER_SIZE - 1
                                               ELSE Steps(i, j) - 1
  OBVIOUS
<1>0. BLOCK_BUFFER_SIZE \in Nat /\ BLOCK_BUFFER_SIZE > 2
  BY SizeAssumption
<1>1. NextSlot(j) \in Slots /\ PrevSlot(j) \in Slots
  BY <1>0 DEF Slots, NextSlot, PrevSlot
<1>2. NextSlot(PrevSlot(j)) = j /\ PrevSlot(NextSlot(j)) = j
  BY <1>0 DEF Slots, NextSlot, PrevSlot
<1>3. Steps(i, j) = IF i <= j THEN j - i ELSE j - i + BLOCK_BUFFER_SIZE
  BY RingArithmetic
<1>4. Steps(i, j) \in Slots /\ (Steps(i, j) = 0 <=> i = j)
  BY <1>0, <1>3 DEF Slots
<1>5. Forth(i, Steps(i, j)) = j
  <2>1. Forth(i, Steps(i, j)) = IF i + Steps(i, j) < BLOCK_BUFFER_SIZE THEN i + Steps(i, j)
                                ELSE i + Steps(i, j) - BLOCK_BUFFER_SIZE
    BY <1>4, RingArithmetic
  <2> QED
    BY <1>0, <1>3, <2>1 DEF Slots
<1>6. Steps(i, NextSlot(j)) = IF NextSlot(j) = i THEN 0 ELSE Steps(i, j) + 1
  <2>1. Steps(i, NextSlot(j)) = IF i <= NextSlot(j) THEN NextSlot(j) - i
                                ELSE NextSlot(j) - i + BLOCK_BUFFER_SIZE
    BY <1>1, RingArithmetic
  <2> QED
    BY <1>0, <1>3, <2>1 DEF Slots, NextSlot
<1>7. Steps(i, PrevSlot(j)) = IF j = i THEN BLOCK_BUFFER_SIZE - 1 ELSE Steps(i, j) - 1
  <2>1. Steps(i, PrevSlot(j)) = IF i <= PrevSlot(j) THEN PrevSlot(j) - i
                                ELSE PrevSlot(j) - i + BLOCK_BUFFER_SIZE
    BY <1>1, RingArithmetic
  <2> QED
    BY <1>0, <1>3, <2>1 DEF Slots, PrevSlot
<1> QED
  BY <1>1, <1>2, <1>4, <1>5, <1>6, <1>7

\* Slots are as far from i as they are counted from it.
LEMMA RingForth ==
    \A i, k \in Slots :
      /\ Forth(i, k) \in Slots
      /\ Steps(i, Forth(i, k)) = k
      /\ Back(i, k) \in Slots
      /\ \A p \in Slots : k <= Steps(p, i) => Steps(p, Back(i, k)) = Steps(p, i) - k
<1> SUFFICES ASSUME NEW i \in Slots, NEW k \in Slots
             PROVE  /\ Forth(i, k) \in Slots
                    /\ Steps(i, Forth(i, k)) = k
                    /\ Back(i, k) \in Slots
                    /\ \A p \in Slots : k <= Steps(p, i) => Steps(p, Back(i, k)) = Steps(p, i) - k
  OBVIOUS
<1>0. BLOCK_BUFFER_SIZE \in Nat /\ BLOCK_BUFFER_SIZE > 2
  BY SizeAssumption
<1>1. Forth(i, k) = IF i + k < BLOCK_BUFFER_SIZE THEN i + k ELSE i + k - BLOCK_BUFFER_SIZE
  BY RingArithmetic
<1>2. Back(i, k) = IF k <= i THEN i - k ELSE i - k + BLOCK_BUFFER_SIZE
  BY RingArithmetic
<1>3. Forth(i, k) \in Slots /\ Back(i, k) \in Slots
  BY <1>0, <1>1, <1>2 DEF Slots
<1>4. Steps(i, Forth(i, k)) = k
  <2>1. Steps(i, Forth(i, k)) = IF i <= Forth(i, k) THEN Forth(i, k) - i
                                ELSE Forth(i, k) - i + BLOCK_BUFFER_SIZE
    BY <1>3, RingArithmetic
  <2> QED
    BY <1>0, <1>1, <2>1 DEF Slots
<1>5. ASSUME NEW p \in Slots, k <= Steps(p, i) PROVE Steps(p, Back(i, k)) = Steps(p, i) - k
  <2>1. Steps(p, Back(i, k)) = IF p <= Back(i, k) THEN Back(i, k) - p
                               ELSE Back(i, k) - p + BLOCK_BUFFER_SIZE
    BY <1>3, RingArithmetic
  <2>2. Steps(p, i) = IF p <= i THEN i - p ELSE i - p + BLOCK_BUFFER_SIZE
    BY RingArithmetic
  <2> QED
    BY <1>0, <1>2, <1>5, <2>1, <2>2 DEF Slots
<1> QED
  BY <1>3, <1>4, <1>5

-----------------------------------------------------------------------------
(* The two passes of planner_recalculate.                                  *)

\* Blocks, and rings of them.
BlockType == [nominal : Nat, junction : Nat, max : Nat, entry : Nat, length : Nat]
Plans     == [Slots -> BlockType]

\* The newest block is a slot, and fewer are planned than there are slots.
LEMMA NumberOfPlannable ==
    \A head, planned \in Slots :
      /\ PrevSlot(head) \in Slots
      /\ Plannable(head, planned) \in Slots
      /\ Plannable(head, planned) \in Nat
      /\ Plannable(head, planned) < BLOCK_BUFFER_SIZE
  BY RingSteps, SizeAssumption DEF Plannable, Slots

\* The smaller of two numbers.
LEMMA MinNat == \A a, b \in Nat : min(a, b) \in Nat /\ min(a, b) <= a /\ min(a, b) <= b
  BY DEF min

\* r holds the speeds of the reverse pass, k blocks before the newest.
IsReverse(r, buf, head, planned) ==
    /\ r \in [0 .. Plannable(head, planned) - 1 -> Nat]
    /\ \A k \in 0 .. Plannable(head, planned) - 1 :
         LET b == buf[Back(PrevSlot(head), k)]
         IN r[k] = IF k = 0 THEN min(b.max, b.length)
                   ELSE IF b.entry = b.max THEN b.max
                   ELSE min(b.max, r[k - 1] + b.length)

\* The reverse pass is well defined.
LEMMA ReversePass ==
    \A buf \in Plans, head, planned \in Slots :
      IsReverse(Reverse(buf, head, planned), buf, head, planned)
<1> SUFFICES ASSUME NEW buf \in Plans, NEW head \in Slots, NEW planned \in Slots
             PROVE  IsReverse(Reverse(buf, head, planned), buf, head, planned)
  OBVIOUS
<1> DEFINE n == Plannable(head, planned)
           b(k) == buf[Back(PrevSlot(head), k)]
           F(g, k) == IF k = 0 THEN min(b(k).max, b(k).length)
                      ELSE IF b(k).entry = b(k).max THEN b(k).max
                      ELSE min(b(k).max, g[k - 1] + b(k).length)
<1>1. n \in Nat /\ n < BLOCK_BUFFER_SIZE
  BY NumberOfPlannable
<1>2. \A k \in 0 .. n - 1 : b(k) \in BlockType
  <2> SUFFICES ASSUME NEW k \in 0 .. n - 1 PROVE b(k) \in BlockType
    OBVIOUS
  <2>1. k \in Slots
    BY <1>1, SizeAssumption DEF Slots
  <2>2. Back(PrevSlot(head), k) \in Slots
    BY <2>1, NumberOfPlannable, RingForth
  <2> QED
    BY <2>2 DEF Plans
<1>3. \E g \in [0 .. n - 1 -> Nat] : \A k \in 0 .. n - 1 : g[k] = F(g, k)
  <2>1. CASE n = 0
    <3> DEFINE g == [k \in 0 .. n - 1 |-> 0]
    <3>1. g \in [0 .. n - 1 -> Nat] /\ ~ \E k \in 0 .. n - 1 : TRUE
      BY <2>1
    <3> QED
      BY <3>1
  <2>2. CASE n # 0
    <3> DEFINE m == n - 1
               D == [k \in 1 .. m |-> [v \in Nat |-> IF b(k).entry = b(k).max THEN b(k).max
                                                     ELSE min(b(k).max, v + b(k).length)]]
               a == min(b(0).max, b(0).length)
    <3>1. m \in Nat /\ 0 \in 0 .. n - 1
      BY <1>1, <2>2
    <3>2. \A k \in 0 .. m : b(k).max \in Nat /\ b(k).length \in Nat
      <4> HIDE DEF b
      <4> QED
        BY <1>2 DEF BlockType
    <3> HIDE DEF b
    <3>3. a \in Nat
      BY <3>1, <3>2, MinNat
    <3>4. D \in [1 .. m -> [Nat -> Nat]]
      <4> SUFFICES ASSUME NEW k \in 1 .. m, NEW v \in Nat
                   PROVE  (IF b(k).entry = b(k).max THEN b(k).max
                           ELSE min(b(k).max, v + b(k).length)) \in Nat
        OBVIOUS
      <4>1. b(k).max \in Nat /\ b(k).length \in Nat
        BY <3>1, <3>2
      <4>2. v + b(k).length \in Nat
        BY <4>1
      <4> QED
        BY <4>1, <4>2, MinNat
    <3>5. PICK g \in [0 .. m -> Nat] : g[0] = a /\ \A k \in 1 .. m : g[k] = D[k][g[k - 1]]
      <4> HIDE DEF a, D, m
      <4> QED
        BY <3>1, <3>3, <3>4, PassExists, ZenonT(30)
    <3>6. ASSUME NEW k \in 0 .. m PROVE g[k] = F(g, k)
      <4>1. CASE k = 0
        BY <3>5, <4>1
      <4>2. CASE k # 0
        <5>1. k \in 1 .. m /\ g[k - 1] \in Nat
          BY <3>1, <4>2
        <5> QED
          BY <3>5, <4>2, <5>1
      <4> QED
        BY <4>1, <4>2
    <3> HIDE DEF F
    <3> QED
      BY <3>6
  <2> QED
    BY <2>1, <2>2
<1>4. PICK g \in [0 .. n - 1 -> Nat] : \A k \in 0 .. n - 1 : g[k] = F(g, k)
  BY <1>3
<1>5. g = [k \in 0 .. n - 1 |-> F(g, k)]
  <2> HIDE DEF F
  <2> QED
    BY <1>4
<1> DEFINE r == Reverse(buf, head, planned)
<1>6. r = CHOOSE q : q = [k \in 0 .. n - 1 |-> F(q, k)]
  BY DEF Reverse
<1>7. r = [k \in 0 .. n - 1 |-> F(r, k)]
  <2> HIDE DEF r, F, n
  <2> QED
    BY <1>5, <1>6
<1>8. ASSUME NEW k \in 0 .. n - 1 PROVE r[k] = F(r, k)
  <2> HIDE DEF r, F, n
  <2> QED
    BY <1>7
<1>9. \A k \in 0 .. n - 1 : r[k] \in Nat
  <2> SUFFICES ASSUME n # 0 PROVE \A k \in 0 .. n - 1 : r[k] \in Nat
    BY <1>1
  <2> DEFINE S == {k \in 0 .. n - 1 : r[k] \in Nat}
  <2>1. n - 1 \in Nat /\ 0 \in 0 .. n - 1
    BY <1>1
  <2>2. \A k \in 0 .. n - 1 : b(k).max \in Nat /\ b(k).length \in Nat
    <3> HIDE DEF b
    <3> QED
      BY <1>2 DEF BlockType
  <2> HIDE DEF b, r, n
  <2>3. 0 \in S
    BY <1>8, <2>1, <2>2, MinNat
  <2>4. ASSUME NEW k \in 1 .. n - 1, k - 1 \in S PROVE k \in S
    <3>1. k \in 0 .. n - 1 /\ k # 0 /\ r[k - 1] \in Nat
      BY <2>1, <2>4
    <3>2. r[k] = IF b(k).entry = b(k).max THEN b(k).max ELSE min(b(k).max, r[k - 1] + b(k).length)
      BY <1>8, <3>1
    <3>3. b(k).max \in Nat /\ b(k).length \in Nat /\ r[k - 1] + b(k).length \in Nat
      BY <2>2, <3>1
    <3>4. r[k] \in Nat
      BY <3>2, <3>3, MinNat
    <3> QED
      BY <3>1, <3>4
  <2>5. \A k \in 0 .. n - 1 : k \in S
    <3> HIDE DEF S
    <3> QED
      BY <2>1, <2>3, <2>4, UpTo
  <2> QED
    BY <2>5
<1>10. r \in [0 .. n - 1 -> Nat]
  <2> HIDE DEF r, F, n
  <2> QED
    BY <1>7, <1>9
<1> QED
  BY <1>8, <1>10 DEF IsReverse

\* f holds the speeds of the forward pass, k blocks after the planned one.
IsForward(f, buf, head, planned) ==
    LET n == Plannable(head, planned)
        r == Reverse(buf, head, planned)
    IN /\ f \in [0 .. n -> Nat]
       /\ f[0] = buf[planned].entry
       /\ \A k \in 1 .. n : f[k] = min(r[n - k], f[k - 1] + buf[Forth(planned, k - 1)].length)

\* The forward pass is well defined.
LEMMA ForwardPass ==
    \A buf \in Plans, head, planned \in Slots :
      IsForward(Forward(buf, head, planned), buf, head, planned)
<1> SUFFICES ASSUME NEW buf \in Plans, NEW head \in Slots, NEW planned \in Slots
             PROVE  IsForward(Forward(buf, head, planned), buf, head, planned)
  OBVIOUS
<1> DEFINE n == Plannable(head, planned)
           r == Reverse(buf, head, planned)
           l(k) == buf[Forth(planned, k - 1)].length
           a == buf[planned].entry
           F(g, k) == IF k = 0 THEN a ELSE min(r[n - k], g[k - 1] + l(k))
<1>1. n \in Nat /\ n < BLOCK_BUFFER_SIZE
  BY NumberOfPlannable
<1>2. \A k \in 1 .. n : r[n - k] \in Nat /\ l(k) \in Nat
  <2> SUFFICES ASSUME NEW k \in 1 .. n PROVE r[n - k] \in Nat /\ l(k) \in Nat
    OBVIOUS
  <2>1. k - 1 \in Slots /\ n - k \in 0 .. n - 1
    BY <1>1, SizeAssumption DEF Slots
  <2>2. Forth(planned, k - 1) \in Slots
    BY <2>1, RingForth
  <2>3. l(k) \in Nat
    BY <2>2 DEF Plans, BlockType
  <2>4. r[n - k] \in Nat
    <3>1. IsReverse(r, buf, head, planned)
      BY ReversePass
    <3>2. r \in [0 .. n - 1 -> Nat]
      BY <3>1 DEF IsReverse
    <3> HIDE DEF r
    <3> QED
      BY <2>1, <3>2
  <2> QED
    BY <2>3, <2>4
<1>3. a \in Nat
  BY DEF Plans, BlockType
<1>4. PICK g \in [0 .. n -> Nat] : g[0] = a /\ \A k \in 1 .. n : g[k] = min(r[n - k], g[k - 1] + l(k))
  <2> DEFINE D == [k \in 1 .. n |-> [v \in Nat |-> min(r[n - k], v + l(k))]]
  <2> HIDE DEF n, r, l, a
  <2>1. D \in [1 .. n -> [Nat -> Nat]]
    <3> SUFFICES ASSUME NEW k \in 1 .. n, NEW v \in Nat
                 PROVE  min(r[n - k], v + l(k)) \in Nat
      OBVIOUS
    <3>1. r[n - k] \in Nat /\ v + l(k) \in Nat
      BY <1>2
    <3> QED
      BY <3>1, MinNat
  <2>2. PICK g \in [0 .. n -> Nat] : g[0] = a /\ \A k \in 1 .. n : g[k] = D[k][g[k - 1]]
    <3> HIDE DEF D
    <3> QED
      BY <1>1, <1>3, <2>1, PassExists, ZenonT(30)
  <2>3. ASSUME NEW k \in 1 .. n PROVE g[k] = min(r[n - k], g[k - 1] + l(k))
    <3>1. g[k - 1] \in Nat
      BY <1>1
    <3> QED
      BY <2>2, <3>1
  <2> QED
    BY <2>2, <2>3
<1>5. g = [k \in 0 .. n |-> F(g, k)]
  <2>1. ASSUME NEW k \in 0 .. n PROVE g[k] = F(g, k)
    <3> HIDE DEF n, r, l, a
    <3> QED
      BY <1>1, <1>4
  <2> HIDE DEF F, n
  <2> QED
    BY <2>1
<1> DEFINE f == Forward(buf, head, planned)
<1>6. f = CHOOSE q : q = [k \in 0 .. n |-> F(q, k)]
  BY DEF Forward
<1>7. f = [k \in 0 .. n |-> F(f, k)]
  <2> HIDE DEF f, F, n
  <2> QED
    BY <1>5, <1>6
<1>8. ASSUME NEW k \in 0 .. n PROVE f[k] = F(f, k)
  <2> HIDE DEF f, F, n
  <2> QED
    BY <1>7
<1>9. f[0] = a /\ \A k \in 1 .. n : f[k] = min(r[n - k], f[k - 1] + l(k))
  <2> HIDE DEF f, n, r, l, a
  <2> QED
    BY <1>1, <1>8
<1>10. \A k \in 0 .. n : f[k] \in Nat
  <2> DEFINE S == {k \in 0 .. n : f[k] \in Nat}
  <2> HIDE DEF n, r, l, a, f
  <2>1. 0 \in S
    BY <1>1, <1>3, <1>9
  <2>2. ASSUME NEW k \in 1 .. n, k - 1 \in S PROVE k \in S
    <3>1. f[k - 1] + l(k) \in Nat /\ r[n - k] \in Nat
      BY <1>2, <2>2
    <3>2. f[k] \in Nat
      BY <1>9, <3>1, MinNat
    <3> QED
      BY <1>1, <3>2
  <2>3. \A k \in 0 .. n : k \in S
    <3> HIDE DEF S
    <3> QED
      BY <1>1, <2>1, <2>2, UpTo
  <2> QED
    BY <2>3
<1>11. f \in [0 .. n -> Nat]
  <2> HIDE DEF f, F, n
  <2> QED
    BY <1>7, <1>10
<1> QED
  BY <1>9, <1>11 DEF IsForward

-----------------------------------------------------------------------------
(* What a recalculation does to the slots.                                 *)

\* The slots that a recalculation plans.
Behind(head, planned, i) == Steps(planned, i) \in 1 .. Plannable(head, planned)

\* The plan and the planned pointer it leaves.
Replan(buf, head, planned) ==
    LET f == Forward(buf, head, planned)
    IN [i \in Slots |-> IF Behind(head, planned, i)
                          THEN [buf[i] EXCEPT !.entry = f[Steps(planned, i)]] ELSE buf[i]]

Pointer(buf, head, planned) ==
    LET best == Optimal(buf, head, planned)
    IN IF best = {} THEN planned
       ELSE Forth(planned, CHOOSE k \in best : \A j \in best : j <= k)

\* The speed of the reverse pass at a slot.
Rev(buf, head, planned, i) ==
    Reverse(buf, head, planned)[Plannable(head, planned) - Steps(planned, i)]

\* Where a slot that is planned stands between the planned and the newest one.
LEMMA BehindSteps ==
    \A head, planned, i \in Slots : Behind(head, planned, i) =>
      LET n == Plannable(head, planned)
          d == Steps(planned, i)
          newest == PrevSlot(head)
      IN /\ n \in Nat /\ d \in 1 .. n /\ n < BLOCK_BUFFER_SIZE
         /\ i # planned /\ newest \in Slots
         /\ Steps(planned, PrevSlot(i)) = d - 1
         /\ Forth(planned, d - 1) = PrevSlot(i) /\ Forth(planned, d) = i
         /\ Back(newest, n - d) = i
         /\ d = n <=> i = newest
         /\ Steps(planned, newest) = n
         /\ d < n => Steps(planned, NextSlot(i)) = d + 1
         /\ d = 1 <=> PrevSlot(i) = planned
<1> SUFFICES ASSUME NEW head \in Slots, NEW planned \in Slots, NEW i \in Slots,
                    Behind(head, planned, i)
             PROVE  LET n == Plannable(head, planned)
                        d == Steps(planned, i)
                        newest == PrevSlot(head)
                    IN /\ n \in Nat /\ d \in 1 .. n /\ n < BLOCK_BUFFER_SIZE
                       /\ i # planned /\ newest \in Slots
                       /\ Steps(planned, PrevSlot(i)) = d - 1
                       /\ Forth(planned, d - 1) = PrevSlot(i) /\ Forth(planned, d) = i
                       /\ Back(newest, n - d) = i
                       /\ d = n <=> i = newest
                       /\ Steps(planned, newest) = n
                       /\ d < n => Steps(planned, NextSlot(i)) = d + 1
                       /\ d = 1 <=> PrevSlot(i) = planned
  OBVIOUS
<1> DEFINE n == Plannable(head, planned)
           d == Steps(planned, i)
           newest == PrevSlot(head)
<1>1. n \in Nat /\ n < BLOCK_BUFFER_SIZE /\ newest \in Slots
  BY NumberOfPlannable
<1>2. d \in 1 .. n
  BY DEF Behind
<1>3. i # planned
  BY <1>2, RingSteps
<1>4. Steps(planned, PrevSlot(i)) = d - 1 /\ PrevSlot(i) \in Slots
  BY <1>3, RingSteps
<1>5. Forth(planned, d - 1) = PrevSlot(i) /\ Forth(planned, d) = i
  BY <1>4, RingSteps
<1>6. Steps(planned, newest) = n
  BY DEF Plannable
<1>7. Back(newest, n - d) = i
  <2>1. n - d \in Slots /\ n - d <= Steps(planned, newest)
    BY <1>1, <1>2, <1>6, SizeAssumption DEF Slots
  <2>2. Back(newest, n - d) \in Slots /\ Steps(planned, Back(newest, n - d)) = n - (n - d)
    BY <1>1, <1>6, <2>1, RingForth
  <2>3. n - (n - d) = d
    BY <1>1, <1>2
  <2>4. Steps(planned, Back(newest, n - d)) = d
    BY <2>2, <2>3
  <2> QED
    BY <2>2, <2>4, RingSteps
<1>8. d = n <=> i = newest
  <2>1. d = n => i = newest
    BY <1>1, <1>6, RingSteps
  <2> QED
    BY <1>6, <2>1
<1>9. ASSUME d < n PROVE Steps(planned, NextSlot(i)) = d + 1
  <2>1. CASE NextSlot(i) = planned
    <3>1. Steps(planned, PrevSlot(planned)) = BLOCK_BUFFER_SIZE - 1 /\ PrevSlot(planned) = i
      BY <2>1, RingSteps
    <3> QED
      BY <1>1, <1>2, <1>9, <3>1, SizeAssumption
  <2>2. CASE NextSlot(i) # planned
    BY <2>2, RingSteps
  <2> QED
    BY <2>1, <2>2
<1>10. d = 1 <=> PrevSlot(i) = planned
  <2>1. Steps(planned, PrevSlot(i)) = 0 <=> PrevSlot(i) = planned
    BY <1>4, RingSteps
  <2> HIDE DEF d, n
  <2> QED
    BY <1>1, <1>2, <1>4, <2>1
<1> QED
  BY <1>1, <1>2, <1>3, <1>4, <1>5, <1>6, <1>7, <1>8, <1>9, <1>10

\* What the two passes compute, slot by slot.
LEMMA ReplanSlots ==
    \A buf \in Plans, head, planned, i \in Slots :
      LET B == Replan(buf, head, planned)
      IN /\ B[i] \in BlockType
         /\ B[i].nominal = buf[i].nominal /\ B[i].junction = buf[i].junction
         /\ B[i].max = buf[i].max /\ B[i].length = buf[i].length
         /\ ~ Behind(head, planned, i) => B[i] = buf[i]
         /\ Behind(head, planned, i) =>
              B[i].entry = Forward(buf, head, planned)[Steps(planned, i)]
<1> SUFFICES ASSUME NEW buf \in Plans, NEW head \in Slots, NEW planned \in Slots, NEW i \in Slots
             PROVE  LET B == Replan(buf, head, planned)
                    IN /\ B[i] \in BlockType
                       /\ B[i].nominal = buf[i].nominal /\ B[i].junction = buf[i].junction
                       /\ B[i].max = buf[i].max /\ B[i].length = buf[i].length
                       /\ ~ Behind(head, planned, i) => B[i] = buf[i]
                       /\ Behind(head, planned, i) =>
                            B[i].entry = Forward(buf, head, planned)[Steps(planned, i)]
  OBVIOUS
<1> DEFINE B == Replan(buf, head, planned)
           f == Forward(buf, head, planned)
<1>1. buf[i] \in BlockType
  BY DEF Plans
<1>2. CASE ~ Behind(head, planned, i)
  <2>1. B[i] = buf[i]
    BY <1>2 DEF Replan
  <2> QED
    BY <1>1, <1>2, <2>1
<1>3. CASE Behind(head, planned, i)
  <2>1. B[i] = [buf[i] EXCEPT !.entry = f[Steps(planned, i)]]
    BY <1>3 DEF Replan
  <2>2. f[Steps(planned, i)] \in Nat
    <3>1. IsForward(f, buf, head, planned)
      BY ForwardPass
    <3>2. Steps(planned, i) \in 0 .. Plannable(head, planned)
      BY <1>3, NumberOfPlannable DEF Behind
    <3> QED
      BY <3>1, <3>2 DEF IsForward
  <2> QED
    BY <1>1, <1>3, <2>1, <2>2 DEF BlockType
<1> QED
  BY <1>2, <1>3

\* A recalculated ring is a ring of blocks.
LEMMA ReplanType ==
    \A buf \in Plans, head, planned \in Slots : Replan(buf, head, planned) \in Plans
<1> SUFFICES ASSUME NEW buf \in Plans, NEW head \in Slots, NEW planned \in Slots
             PROVE  Replan(buf, head, planned) \in Plans
  OBVIOUS
<1>1. \A i \in Slots : Replan(buf, head, planned)[i] \in BlockType
  BY ReplanSlots
<1> QED
  BY <1>1 DEF Plans, Replan

\* The forward pass, slot by slot.
LEMMA ReplanForward ==
    \A buf \in Plans, head, planned, i \in Slots : Behind(head, planned, i) =>
      LET B == Replan(buf, head, planned)
      IN /\ Rev(buf, head, planned, i) \in Nat
         /\ B[i].entry = min(Rev(buf, head, planned, i),
                             B[PrevSlot(i)].entry + B[PrevSlot(i)].length)
<1> SUFFICES ASSUME NEW buf \in Plans, NEW head \in Slots, NEW planned \in Slots,
                    NEW i \in Slots, Behind(head, planned, i)
             PROVE  LET B == Replan(buf, head, planned)
                    IN /\ Rev(buf, head, planned, i) \in Nat
                       /\ B[i].entry = min(Rev(buf, head, planned, i),
                                           B[PrevSlot(i)].entry + B[PrevSlot(i)].length)
  OBVIOUS
<1> DEFINE B == Replan(buf, head, planned)
           f == Forward(buf, head, planned)
           r == Reverse(buf, head, planned)
           n == Plannable(head, planned)
           d == Steps(planned, i)
           p == PrevSlot(i)
<1>0. p \in Slots
  BY RingSteps
<1>1. /\ n \in Nat /\ d \in 1 .. n /\ p \in Slots
      /\ Steps(planned, p) = d - 1 /\ Forth(planned, d - 1) = p
      /\ d = 1 <=> p = planned
  BY <1>0, BehindSteps, SMTT(30)
<1>2. f[0] = buf[planned].entry /\ f[d] = min(r[n - d], f[d - 1] + buf[p].length)
  BY <1>1, ForwardPass DEF IsForward
<1>3. f[d - 1] = B[p].entry
  <2>1. CASE d = 1
    <3>1. p = planned /\ ~ Behind(head, planned, p)
      BY <1>1, <2>1 DEF Behind
    <3>2. B[p] = buf[p]
      BY <1>1, <3>1, ReplanSlots
    <3>3. d - 1 = 0
      BY <2>1
    <3> QED
      BY <1>2, <3>1, <3>2, <3>3
  <2>2. CASE d # 1
    <3>1. d - 1 \in 1 .. n
      BY <1>1, <2>2
    <3>2. Behind(head, planned, p)
      BY <1>1, <3>1 DEF Behind
    <3> QED
      BY <1>1, <3>2, ReplanSlots
  <2> QED
    BY <2>1, <2>2
<1>4. B[p].length = buf[p].length
  BY <1>1, ReplanSlots
<1>5. r[n - d] \in Nat
  <2>1. n - d \in 0 .. n - 1
    BY <1>1
  <2> QED
    <3>1. IsReverse(r, buf, head, planned)
      BY ReversePass
    <3>2. r \in [0 .. n - 1 -> Nat]
      BY <3>1 DEF IsReverse
    <3> HIDE DEF r, n, d
    <3> QED
      BY <2>1, <3>2
<1>6. B[i].entry = f[d]
  BY ReplanSlots
<1> QED
  BY <1>2, <1>3, <1>4, <1>5, <1>6 DEF Rev

\* The reverse pass, slot by slot.
LEMMA ReplanReverse ==
    \A buf \in Plans, head, planned, i \in Slots : Behind(head, planned, i) =>
      LET newest == PrevSlot(head)
          b == buf[i]
      IN /\ i # newest => Behind(head, planned, NextSlot(i))
         /\ Rev(buf, head, planned, i) =
              IF i = newest THEN min(b.max, b.length)
              ELSE IF b.entry = b.max THEN b.max
              ELSE min(b.max, Rev(buf, head, planned, NextSlot(i)) + b.length)
<1> SUFFICES ASSUME NEW buf \in Plans, NEW head \in Slots, NEW planned \in Slots,
                    NEW i \in Slots, Behind(head, planned, i)
             PROVE  LET newest == PrevSlot(head)
                        b == buf[i]
                    IN /\ i # newest => Behind(head, planned, NextSlot(i))
                       /\ Rev(buf, head, planned, i) =
                            IF i = newest THEN min(b.max, b.length)
                            ELSE IF b.entry = b.max THEN b.max
                            ELSE min(b.max, Rev(buf, head, planned, NextSlot(i)) + b.length)
  OBVIOUS
<1> DEFINE r == Reverse(buf, head, planned)
           n == Plannable(head, planned)
           d == Steps(planned, i)
           newest == PrevSlot(head)
           b == buf[i]
<1>1. /\ n \in Nat /\ d \in 1 .. n
      /\ Back(newest, n - d) = i
      /\ d = n <=> i = newest
      /\ d < n => Steps(planned, NextSlot(i)) = d + 1
  BY BehindSteps
<1>2. n - d \in 0 .. n - 1
  BY <1>1
<1>3. r[n - d] = IF n - d = 0 THEN min(b.max, b.length)
                 ELSE IF b.entry = b.max THEN b.max
                 ELSE min(b.max, r[n - d - 1] + b.length)
  BY <1>1, <1>2, ReversePass DEF IsReverse
<1>4. CASE i = newest
  <2>1. n - d = 0
    BY <1>1, <1>4
  <2> QED
    BY <1>3, <1>4, <2>1 DEF Rev
<1>5. CASE i # newest
  <2>1. d < n /\ n - d # 0 /\ d + 1 \in 1 .. n
    BY <1>1, <1>5
  <2>2. Behind(head, planned, NextSlot(i)) /\ Steps(planned, NextSlot(i)) = d + 1
    BY <1>1, <2>1 DEF Behind
  <2>3. n - d - 1 = n - Steps(planned, NextSlot(i))
    BY <1>1, <2>1, <2>2
  <2>4. r[n - d - 1] = Rev(buf, head, planned, NextSlot(i))
    BY <2>3, Zenon DEF Rev
  <2> QED
    BY <1>3, <1>5, <2>1, <2>2, <2>4 DEF Rev
<1> QED
  BY <1>4, <1>5

\* Slots in the ring between the planned and the newest one are counted down from the
\* newest: a set that holds the newest and with every slot the one before holds them all.
LEMMA BackFromNewest ==
    ASSUME NEW head \in Slots, NEW planned \in Slots, NEW S,
           \A i \in Slots : Behind(head, planned, i) /\ i = PrevSlot(head) => i \in S,
           \A i \in Slots : /\ Behind(head, planned, i) /\ i # PrevSlot(head)
                            /\ NextSlot(i) \in S
                            => i \in S
    PROVE  \A i \in Slots : Behind(head, planned, i) => i \in S
<1> DEFINE n == Plannable(head, planned)
           newest == PrevSlot(head)
           T == {k \in 0 .. n - 1 : \A i \in Slots :
                   Behind(head, planned, i) /\ n - Steps(planned, i) = k => i \in S}
<1> SUFFICES ASSUME NEW i \in Slots, Behind(head, planned, i) PROVE i \in S
  OBVIOUS
<1>1. \A j \in Slots : Behind(head, planned, j) =>
        /\ n \in Nat /\ Steps(planned, j) \in 1 .. n
        /\ Steps(planned, j) = n <=> j = newest
        /\ Steps(planned, j) < n => Steps(planned, NextSlot(j)) = Steps(planned, j) + 1
  BY BehindSteps
<1>2. n \in Nat /\ n - 1 \in Nat
  BY <1>1
<1>3. 0 \in T
  <2>1. ASSUME NEW j \in Slots, Behind(head, planned, j), n - Steps(planned, j) = 0
        PROVE  j \in S
    <3>1. j = newest
      <4>1. n \in Nat /\ Steps(planned, j) \in 1 .. n /\ (Steps(planned, j) = n <=> j = newest)
        BY <1>1, <2>1
      <4> QED
        BY <2>1, <4>1
    <3> QED
      BY <2>1, <3>1
  <2> QED
    BY <1>2, <2>1
<1>4. ASSUME NEW k \in 1 .. n - 1, k - 1 \in T PROVE k \in T
  <2>1. ASSUME NEW j \in Slots, Behind(head, planned, j), n - Steps(planned, j) = k
        PROVE  j \in S
    <3>1. /\ n \in Nat /\ Steps(planned, j) \in 1 .. n
          /\ Steps(planned, j) = n <=> j = newest
          /\ Steps(planned, j) < n => Steps(planned, NextSlot(j)) = Steps(planned, j) + 1
      BY <1>1, <2>1
    <3>2. /\ Steps(planned, j) < n /\ j # newest
          /\ Steps(planned, NextSlot(j)) = Steps(planned, j) + 1
      BY <2>1, <3>1
    <3>3. /\ NextSlot(j) \in Slots
          /\ Steps(planned, NextSlot(j)) \in 1 .. n /\ n - Steps(planned, NextSlot(j)) = k - 1
      <4>1. NextSlot(j) \in Slots
        BY RingSteps
      <4>2. Steps(planned, NextSlot(j)) \in 1 .. n /\ n - Steps(planned, NextSlot(j)) = k - 1
        BY <2>1, <3>1, <3>2
      <4> QED
        BY <4>1, <4>2
    <3>4. Behind(head, planned, NextSlot(j))
      BY <3>3 DEF Behind
    <3>5. NextSlot(j) \in S
      BY <1>4, <3>3, <3>4
    <3> QED
      BY <2>1, <3>2, <3>5
  <2>2. k \in 0 .. n - 1
    BY <1>2
  <2> QED
    BY <2>1, <2>2
<1>5. \A k \in 0 .. n - 1 : k \in T
  <2> HIDE DEF T, n
  <2> QED
    BY <1>2, <1>3, <1>4, UpTo
<1>6. n - Steps(planned, i) \in 0 .. n - 1
  BY <1>1
<1> QED
  BY <1>5, <1>6

-----------------------------------------------------------------------------
(* What the plan is worth.                                                 *)

\* The exit speed a plan gives to the slot i, the last slot before the head being left
\* at rest.
Exit(B, head, i) == IF i = PrevSlot(head) THEN 0 ELSE B[NextSlot(i)].entry

\* Speeds G that can be braked from slot by slot: a plan within the limits of buf.
Brakeable(G, buf, head, planned) ==
    \A i \in Slots : Behind(head, planned, i) =>
      /\ G[i] <= buf[i].max
      /\ G[i] <= (IF i = PrevSlot(head) THEN 0 ELSE G[NextSlot(i)]) + buf[i].length
      /\ buf[i].entry = buf[i].max => G[i] = buf[i].max

\* The reverse pass finds no slower speeds than any brakeable ones, and its own are
\* brakeable, although it skips blocks that are at their maximum.
LEMMA ReverseBrakes ==
    \A buf \in Plans, head, planned \in Slots, G \in [Slots -> Nat] :
      Brakeable(G, buf, head, planned) =>
        \A i \in Slots : Behind(head, planned, i) =>
          /\ G[i] <= Rev(buf, head, planned, i)
          /\ Rev(buf, head, planned, i) <= buf[i].max
          /\ Rev(buf, head, planned, i)
               <= (IF i = PrevSlot(head) THEN 0 ELSE Rev(buf, head, planned, NextSlot(i)))
                  + buf[i].length
<1> SUFFICES ASSUME NEW buf \in Plans, NEW head \in Slots, NEW planned \in Slots,
                    NEW G \in [Slots -> Nat], Brakeable(G, buf, head, planned)
             PROVE  \A i \in Slots : Behind(head, planned, i) =>
                      /\ G[i] <= Rev(buf, head, planned, i)
                      /\ Rev(buf, head, planned, i) <= buf[i].max
                      /\ Rev(buf, head, planned, i)
                           <= (IF i = PrevSlot(head) THEN 0
                               ELSE Rev(buf, head, planned, NextSlot(i))) + buf[i].length
  OBVIOUS
<1> DEFINE R(i) == Rev(buf, head, planned, i)
           newest == PrevSlot(head)
           S == {i \in Slots : G[i] <= R(i)}
<1>1. ASSUME NEW i \in Slots, Behind(head, planned, i)
      PROVE  /\ R(i) \in Nat /\ G[i] \in Nat /\ NextSlot(i) \in Slots
             /\ buf[i].max \in Nat /\ buf[i].length \in Nat /\ buf[i].entry \in Nat
             /\ i # newest => /\ Behind(head, planned, NextSlot(i))
                              /\ R(NextSlot(i)) \in Nat /\ G[NextSlot(i)] \in Nat
             /\ R(i) = IF i = newest THEN min(buf[i].max, buf[i].length)
                       ELSE IF buf[i].entry = buf[i].max THEN buf[i].max
                       ELSE min(buf[i].max, R(NextSlot(i)) + buf[i].length)
             /\ G[i] <= buf[i].max
             /\ G[i] <= (IF i = newest THEN 0 ELSE G[NextSlot(i)]) + buf[i].length
             /\ buf[i].entry = buf[i].max => G[i] = buf[i].max
  <2>1. R(i) \in Nat
    BY <1>1, ReplanForward
  <2>2. NextSlot(i) \in Slots
    BY RingSteps
  <2>3. buf[i].max \in Nat /\ buf[i].length \in Nat /\ buf[i].entry \in Nat
    BY DEF Plans, BlockType
  <2>4. /\ i # newest => Behind(head, planned, NextSlot(i))
        /\ R(i) = IF i = newest THEN min(buf[i].max, buf[i].length)
                  ELSE IF buf[i].entry = buf[i].max THEN buf[i].max
                  ELSE min(buf[i].max, R(NextSlot(i)) + buf[i].length)
    BY <1>1, ReplanReverse
  <2>5. i # newest => R(NextSlot(i)) \in Nat /\ G[NextSlot(i)] \in Nat
    BY <2>2, <2>4, ReplanForward
  <2>6. /\ G[i] <= buf[i].max
        /\ G[i] <= (IF i = newest THEN 0 ELSE G[NextSlot(i)]) + buf[i].length
        /\ buf[i].entry = buf[i].max => G[i] = buf[i].max
    BY <1>1 DEF Brakeable
  <2> HIDE DEF R, newest
  <2> QED
    BY <2>1, <2>2, <2>3, <2>4, <2>5, <2>6
<1>2. ASSUME NEW i \in Slots, Behind(head, planned, i), i = newest PROVE i \in S
  <2> HIDE DEF R, newest
  <2>1. G[i] <= R(i)
    BY <1>1, <1>2 DEF min
  <2> QED
    BY <2>1
<1>3. ASSUME NEW i \in Slots, Behind(head, planned, i), i # newest, NextSlot(i) \in S
      PROVE  i \in S
  <2> HIDE DEF R, newest
  <2>1. G[NextSlot(i)] <= R(NextSlot(i))
    BY <1>3
  <2>2. G[i] <= R(i)
    BY <1>1, <1>3, <2>1 DEF min
  <2> QED
    BY <2>2
<1>4. \A i \in Slots : Behind(head, planned, i) => i \in S
  <2> HIDE DEF S
  <2> QED
    BY <1>2, <1>3, BackFromNewest
<1>5. ASSUME NEW i \in Slots, Behind(head, planned, i)
      PROVE  /\ G[i] <= R(i)
             /\ R(i) <= buf[i].max
             /\ R(i) <= (IF i = newest THEN 0 ELSE R(NextSlot(i))) + buf[i].length
  <2>1. G[i] <= R(i)
    BY <1>4, <1>5
  <2>2. i # newest => G[NextSlot(i)] <= R(NextSlot(i))
    BY <1>1, <1>4, <1>5
  <2> HIDE DEF R, newest
  <2>3. CASE i = newest
    BY <1>1, <1>5, <2>1, <2>3 DEF min
  <2>4. CASE i # newest
    BY <1>1, <1>5, <2>1, <2>2, <2>4 DEF min
  <2> QED
    BY <2>3, <2>4
<1> QED
  BY <1>5

\* After a recalculation every planned slot is entered within its limit and no faster
\* than it can be braked from, and so is the slot at the pointer if it was.
LEMMA ReplanStops ==
    \A buf \in Plans, head, planned \in Slots, G \in [Slots -> Nat] :
      Brakeable(G, buf, head, planned) =>
        LET B == Replan(buf, head, planned)
        IN /\ \A i \in Slots : Behind(head, planned, i) =>
                B[i].entry <= B[i].max /\ B[i].entry <= Exit(B, head, i) + B[i].length
           /\ Behind(head, planned, NextSlot(planned)) =>
                (buf[planned].entry <= G[NextSlot(planned)] + buf[planned].length =>
                   B[planned].entry <= B[NextSlot(planned)].entry + B[planned].length)
<1> SUFFICES ASSUME NEW buf \in Plans, NEW head \in Slots, NEW planned \in Slots,
                    NEW G \in [Slots -> Nat], Brakeable(G, buf, head, planned)
             PROVE  LET B == Replan(buf, head, planned)
                    IN /\ \A i \in Slots : Behind(head, planned, i) =>
                            /\ B[i].entry <= B[i].max
                            /\ B[i].entry <= Exit(B, head, i) + B[i].length
                       /\ Behind(head, planned, NextSlot(planned)) =>
                            (buf[planned].entry
                               <= G[NextSlot(planned)] + buf[planned].length =>
                             B[planned].entry
                               <= B[NextSlot(planned)].entry + B[planned].length)
  OBVIOUS
<1> DEFINE B == Replan(buf, head, planned)
           R(i) == Rev(buf, head, planned, i)
           newest == PrevSlot(head)
<1>1. ASSUME NEW i \in Slots
      PROVE  /\ B[i].max \in Nat /\ B[i].length \in Nat /\ B[i].entry \in Nat
             /\ B[i].max = buf[i].max /\ B[i].length = buf[i].length
             /\ NextSlot(i) \in Slots /\ PrevSlot(i) \in Slots
             /\ PrevSlot(NextSlot(i)) = i
  <2>1. B[i] \in BlockType /\ B[i].max = buf[i].max /\ B[i].length = buf[i].length
    BY ReplanSlots
  <2>2. B[i].max \in Nat /\ B[i].length \in Nat /\ B[i].entry \in Nat
    BY <2>1 DEF BlockType
  <2> QED
    BY <2>1, <2>2, RingSteps
<1>2. ASSUME NEW i \in Slots, Behind(head, planned, i)
      PROVE  /\ R(i) \in Nat /\ G[i] \in Nat
             /\ B[i].entry = min(R(i), B[PrevSlot(i)].entry + B[PrevSlot(i)].length)
             /\ G[i] <= R(i) /\ R(i) <= buf[i].max
             /\ R(i) <= (IF i = newest THEN 0 ELSE R(NextSlot(i))) + buf[i].length
             /\ i # newest => Behind(head, planned, NextSlot(i))
  <2>1. R(i) \in Nat
        /\ B[i].entry = min(R(i), B[PrevSlot(i)].entry + B[PrevSlot(i)].length)
    BY <1>2, ReplanForward
  <2>2. /\ G[i] <= R(i) /\ R(i) <= buf[i].max
        /\ R(i) <= (IF i = newest THEN 0 ELSE R(NextSlot(i))) + buf[i].length
    BY <1>2, ReverseBrakes
  <2>3. i # newest => Behind(head, planned, NextSlot(i))
    BY <1>2, ReplanReverse
  <2> QED
    BY <2>1, <2>2, <2>3
<1>3. ASSUME NEW i \in Slots, Behind(head, planned, i)
      PROVE  B[i].entry <= B[i].max /\ B[i].entry <= Exit(B, head, i) + B[i].length
  <2> HIDE DEF B, R, newest
  <2>1. B[i].entry <= R(i) /\ R(i) \in Nat
    <3>1. B[PrevSlot(i)].entry + B[PrevSlot(i)].length \in Nat
      BY <1>1
    <3> QED
      BY <1>2, <1>3, <3>1, MinNat
  <2>2. B[i].entry <= B[i].max
    BY <1>1, <1>2, <1>3, <2>1
  <2>3. CASE i = newest
    <3>1. Exit(B, head, i) = 0
      BY <2>3 DEF Exit, newest
    <3> QED
      BY <1>1, <1>2, <1>3, <2>1, <2>2, <2>3, <3>1
  <2>4. CASE i # newest
    <3> DEFINE x == NextSlot(i)
    <3>1. Exit(B, head, i) = B[x].entry
      BY <2>4 DEF Exit, newest
    <3>2. /\ Behind(head, planned, x) /\ x \in Slots /\ PrevSlot(x) = i
          /\ R(i) <= R(x) + buf[i].length
      BY <1>1, <1>2, <1>3, <2>4
    <3>3. R(x) \in Nat /\ B[x].entry = min(R(x), B[i].entry + B[i].length)
      BY <1>2, <3>2
    <3> HIDE DEF x
    <3>4. B[i].entry <= B[x].entry + B[i].length
      BY <1>1, <2>1, <3>2, <3>3 DEF min
    <3> QED
      BY <2>2, <3>1, <3>4
  <2> QED
    BY <2>3, <2>4
<1>4. ASSUME Behind(head, planned, NextSlot(planned)),
             buf[planned].entry <= G[NextSlot(planned)] + buf[planned].length
      PROVE  B[planned].entry <= B[NextSlot(planned)].entry + B[planned].length
  <2> DEFINE x == NextSlot(planned)
  <2>1. B[planned] = buf[planned]
    <3>1. ~ Behind(head, planned, planned)
      BY RingSteps DEF Behind
    <3> QED
      BY <3>1, ReplanSlots
  <2>2. /\ x \in Slots /\ PrevSlot(x) = planned
        /\ R(x) \in Nat /\ G[x] \in Nat /\ G[x] <= R(x)
        /\ B[x].entry = min(R(x), B[planned].entry + B[planned].length)
    BY <1>1, <1>2, <1>4
  <2>3. B[planned].entry \in Nat /\ B[planned].length \in Nat
    BY <1>1
  <2>4. B[planned].entry <= G[x] + B[planned].length
    BY <1>4, <2>1
  <2> HIDE DEF B, R, x
  <2>5. B[planned].entry <= B[x].entry + B[planned].length
    BY <2>2, <2>3, <2>4 DEF min
  <2> QED
    BY <2>5 DEF x
<1> QED
  BY <1>3, <1>4

\* No planned slot could be entered faster: it is at its limit, or held back by the
\* braking distance behind it, or by the acceleration before it.
LEMMA ReplanTight ==
    \A buf \in Plans, head, planned, i \in Slots : Behind(head, planned, i) =>
      LET B == Replan(buf, head, planned)
      IN \/ B[i].entry = B[i].max
         \/ B[i].entry = Exit(B, head, i) + B[i].length
         \/ B[i].entry = B[PrevSlot(i)].entry + B[PrevSlot(i)].length
<1> SUFFICES ASSUME NEW buf \in Plans, NEW head \in Slots, NEW planned \in Slots,
                    NEW i \in Slots, Behind(head, planned, i)
             PROVE  LET B == Replan(buf, head, planned)
                    IN \/ B[i].entry = B[i].max
                       \/ B[i].entry = Exit(B, head, i) + B[i].length
                       \/ B[i].entry = B[PrevSlot(i)].entry + B[PrevSlot(i)].length
  OBVIOUS
<1> DEFINE B == Replan(buf, head, planned)
           R(j) == Rev(buf, head, planned, j)
           newest == PrevSlot(head)
           x == NextSlot(i)
<1>1. /\ x \in Slots /\ PrevSlot(x) = i /\ PrevSlot(i) \in Slots
  BY RingSteps
<1>2. B[i] \in BlockType /\ B[i].max = buf[i].max /\ B[i].length = buf[i].length
  BY ReplanSlots
<1>3. B[i].max \in Nat /\ B[i].length \in Nat /\ B[i].entry \in Nat
  BY <1>2 DEF BlockType
<1>10. B[PrevSlot(i)].entry + B[PrevSlot(i)].length \in Nat
  <2>1. B[PrevSlot(i)] \in BlockType
    BY <1>1, ReplanSlots
  <2> QED
    BY <2>1 DEF BlockType
<1>4. /\ R(i) \in Nat
      /\ B[i].entry = min(R(i), B[PrevSlot(i)].entry + B[PrevSlot(i)].length)
  BY ReplanForward
<1>5. /\ i # newest => Behind(head, planned, x)
      /\ R(i) = IF i = newest THEN min(buf[i].max, buf[i].length)
                ELSE IF buf[i].entry = buf[i].max THEN buf[i].max
                ELSE min(buf[i].max, R(x) + buf[i].length)
  BY ReplanReverse
<1>6. i # newest => R(x) \in Nat /\ B[x].entry = min(R(x), B[i].entry + B[i].length)
  BY <1>1, <1>5, ReplanForward
<1>7. Exit(B, head, i) = IF i = newest THEN 0 ELSE B[x].entry
  BY DEF Exit
<1> HIDE DEF B, R, newest, x
<1>8. ASSUME i = newest
      PROVE  \/ B[i].entry = B[i].max
             \/ B[i].entry = Exit(B, head, i) + B[i].length
             \/ B[i].entry = B[PrevSlot(i)].entry + B[PrevSlot(i)].length
  BY <1>2, <1>3, <1>4, <1>5, <1>7, <1>8, <1>10 DEF min
<1>9. ASSUME i # newest
      PROVE  \/ B[i].entry = B[i].max
             \/ B[i].entry = Exit(B, head, i) + B[i].length
             \/ B[i].entry = B[PrevSlot(i)].entry + B[PrevSlot(i)].length
  BY <1>2, <1>3, <1>4, <1>5, <1>6, <1>7, <1>9, <1>10 DEF min
<1> QED
  BY <1>8, <1>9 DEF B

\* Where the planned pointer ends: at the slot it was at, or at one that is entered at its
\* limit or at full acceleration; at the newest slot if that one is at its limit.
LEMMA PointerFirm ==
    \A buf \in Plans, head, planned \in Slots :
      LET B == Replan(buf, head, planned)
          P == Pointer(buf, head, planned)
      IN /\ P \in Slots
         /\ P # planned => /\ Behind(head, planned, P)
                           /\ \/ B[P].entry = B[P].max
                              \/ B[P].entry = B[PrevSlot(P)].entry + B[PrevSlot(P)].length
         /\ /\ Behind(head, planned, PrevSlot(head))
            /\ B[PrevSlot(head)].entry = B[PrevSlot(head)].max
            => P = PrevSlot(head)
<1> SUFFICES ASSUME NEW buf \in Plans, NEW head \in Slots, NEW planned \in Slots
             PROVE  LET B == Replan(buf, head, planned)
                        P == Pointer(buf, head, planned)
                    IN /\ P \in Slots
                       /\ P # planned =>
                            /\ Behind(head, planned, P)
                            /\ \/ B[P].entry = B[P].max
                               \/ B[P].entry = B[PrevSlot(P)].entry + B[PrevSlot(P)].length
                       /\ /\ Behind(head, planned, PrevSlot(head))
                          /\ B[PrevSlot(head)].entry = B[PrevSlot(head)].max
                          => P = PrevSlot(head)
  OBVIOUS
<1> DEFINE B == Replan(buf, head, planned)
           P == Pointer(buf, head, planned)
           f == Forward(buf, head, planned)
           r == Reverse(buf, head, planned)
           n == Plannable(head, planned)
           newest == PrevSlot(head)
           best == Optimal(buf, head, planned)
           Last(k) == k \in best /\ \A j \in best : j <= k
<1>1. n \in Nat /\ n < BLOCK_BUFFER_SIZE
  BY NumberOfPlannable
<1>2. best = {k \in 1 .. n : f[k] < r[n - k] \/ f[k] = buf[Forth(planned, k)].max}
  BY DEF Optimal
<1>3. best \subseteq 1 .. n
  BY <1>2
<1>4. ASSUME NEW k \in 1 .. n
      PROVE  /\ Forth(planned, k) \in Slots /\ Steps(planned, Forth(planned, k)) = k
             /\ Behind(head, planned, Forth(planned, k))
             /\ B[Forth(planned, k)].entry = f[k]
             /\ Rev(buf, head, planned, Forth(planned, k)) = r[n - k]
  <2>1. k \in Slots
    BY <1>1, SizeAssumption DEF Slots
  <2>2. Forth(planned, k) \in Slots /\ Steps(planned, Forth(planned, k)) = k
    BY <2>1, RingForth
  <2>3. Behind(head, planned, Forth(planned, k))
    BY <2>2 DEF Behind
  <2>4. B[Forth(planned, k)].entry = f[k]
    BY <2>2, <2>3, ReplanSlots
  <2>5. Rev(buf, head, planned, Forth(planned, k)) = r[n - k]
    BY <2>2, Zenon DEF Rev
  <2> QED
    BY <2>2, <2>3, <2>4, <2>5
<1>5. best # {} => \E k \in best : Last(k) /\ P = Forth(planned, k)
  <2> SUFFICES ASSUME best # {} PROVE \E k \in best : Last(k) /\ P = Forth(planned, k)
    OBVIOUS
  <2>1. P = Forth(planned, CHOOSE k \in best : \A j \in best : j <= k)
    BY DEF Pointer
  <2>2. \E k \in best : \A j \in best : j <= k
    <3> HIDE DEF best, n
    <3> QED
      BY <1>1, <1>3, Greatest
  <2> QED
    BY <2>1, <2>2
<1>6. best = {} => P = planned
  BY DEF Pointer
<1>7. P \in Slots
  BY <1>3, <1>4, <1>5, <1>6
<1>8. ASSUME P # planned
      PROVE  /\ Behind(head, planned, P)
             /\ \/ B[P].entry = B[P].max
                \/ B[P].entry = B[PrevSlot(P)].entry + B[PrevSlot(P)].length
  <2>1. PICK k \in best : P = Forth(planned, k)
    BY <1>5, <1>6, <1>8
  <2>2. k \in 1 .. n
    BY <1>3
  <2>3. Behind(head, planned, P) /\ B[P].entry = f[k]
    BY <1>4, <2>1, <2>2
  <2>4. B[P].max = buf[P].max
    BY <1>7, ReplanSlots
  <2>5. CASE f[k] = buf[P].max
    BY <2>3, <2>4, <2>5
  <2>6. CASE f[k] < r[n - k]
    <3> DEFINE R == Rev(buf, head, planned, P)
               y == B[PrevSlot(P)].entry + B[PrevSlot(P)].length
    <3>1. R = r[n - k]
      BY <1>4, <2>1, <2>2
    <3>2. R \in Nat /\ B[P].entry = min(R, y)
      BY <1>7, <2>3, ReplanForward
    <3>3. y \in Nat
      <4>1. B[PrevSlot(P)] \in BlockType
        BY <1>7, RingSteps, ReplanSlots
      <4> QED
        BY <4>1 DEF BlockType
    <3>4. B[P].entry < R
      BY <2>3, <2>6, <3>1
    <3> HIDE DEF R, y, B
    <3>5. B[P].entry = y
      BY <3>2, <3>3, <3>4 DEF min
    <3> QED
      BY <2>3, <3>5 DEF y
  <2> QED
    BY <1>2, <2>1, <2>5, <2>6
<1>9. ASSUME Behind(head, planned, newest), B[newest].entry = B[newest].max
      PROVE  P = newest
  <2>1. newest \in Slots /\ Steps(planned, newest) = n /\ n \in 1 .. n
    BY <1>1, <1>9, NumberOfPlannable DEF Plannable, Behind
  <2>2. Forth(planned, n) = newest
    BY <2>1, RingSteps
  <2>3. f[n] = buf[newest].max
    <3>1. B[newest].max = buf[newest].max
      BY <2>1, ReplanSlots
    <3>2. B[newest].entry = f[n]
      BY <1>4, <2>1, <2>2
    <3> QED
      BY <1>9, <3>1, <3>2
  <2>4. n \in best
    BY <1>2, <2>1, <2>2, <2>3
  <2>5. PICK k \in best : Last(k) /\ P = Forth(planned, k)
    BY <1>5, <2>4
  <2>6. k = n
    BY <1>1, <1>3, <2>4, <2>5
  <2> QED
    BY <2>2, <2>5, <2>6
<1> QED
  BY <1>7, <1>8, <1>9

-----------------------------------------------------------------------------
(* The queue: the slots from the tail t to the one before the head h.      *)

\* The slot i is in the queue.
InQueue(t, h, i) == Steps(t, i) < Steps(t, h)

\* Neighbours in the queue.
LEMMA QueueNeighbours ==
    \A t, h, i \in Slots : InQueue(t, h, i) =>
      /\ i # h /\ t # h
      /\ i # t => InQueue(t, h, PrevSlot(i)) /\ PrevSlot(i) # h
      /\ i # PrevSlot(h) => InQueue(t, h, NextSlot(i))
      /\ NextSlot(i) # t
      /\ i = PrevSlot(h) <=> NextSlot(i) = h
<1> SUFFICES ASSUME NEW t \in Slots, NEW h \in Slots, NEW i \in Slots, InQueue(t, h, i)
             PROVE  /\ i # h /\ t # h
                    /\ i # t => InQueue(t, h, PrevSlot(i)) /\ PrevSlot(i) # h
                    /\ i # PrevSlot(h) => InQueue(t, h, NextSlot(i))
                    /\ NextSlot(i) # t
                    /\ i = PrevSlot(h) <=> NextSlot(i) = h
  OBVIOUS
<1>1. /\ NextSlot(i) \in Slots /\ PrevSlot(i) \in Slots /\ PrevSlot(h) \in Slots
      /\ Steps(t, i) \in Slots /\ Steps(t, h) \in Slots
      /\ NextSlot(PrevSlot(h)) = h /\ PrevSlot(NextSlot(i)) = i
      /\ Steps(t, h) = 0 <=> t = h
      /\ Steps(t, NextSlot(i)) = IF NextSlot(i) = t THEN 0 ELSE Steps(t, i) + 1
      /\ Steps(t, PrevSlot(i)) = IF i = t THEN BLOCK_BUFFER_SIZE - 1 ELSE Steps(t, i) - 1
      /\ Forth(t, Steps(t, i)) = i /\ Forth(t, Steps(t, h)) = h
  BY RingSteps
<1>2. Steps(t, i) \in Nat /\ Steps(t, h) \in Nat /\ Steps(t, h) < BLOCK_BUFFER_SIZE
      /\ BLOCK_BUFFER_SIZE \in Nat
  BY <1>1, SizeAssumption DEF Slots
<1>3. Steps(t, i) < Steps(t, h)
  BY DEF InQueue
<1>4. i # h /\ t # h
  BY <1>1, <1>2, <1>3
<1>5. i # t => Steps(t, PrevSlot(i)) < Steps(t, h) /\ PrevSlot(i) # h
  BY <1>1, <1>2, <1>3
<1>6. i = PrevSlot(h) <=> NextSlot(i) = h
  BY <1>1
<1>7. NextSlot(i) # t
  <2> SUFFICES ASSUME NextSlot(i) = t PROVE FALSE
    OBVIOUS
  <2>1. Steps(t, PrevSlot(t)) = BLOCK_BUFFER_SIZE - 1 /\ PrevSlot(t) = i
    BY <1>1, RingSteps
  <2> QED
    BY <1>2, <1>3, <2>1
<1>8. i # PrevSlot(h) => Steps(t, NextSlot(i)) < Steps(t, h)
  <2> SUFFICES ASSUME NextSlot(i) # h PROVE Steps(t, NextSlot(i)) < Steps(t, h)
    BY <1>6
  <2>1. Steps(t, NextSlot(i)) = Steps(t, i) + 1
    BY <1>1, <1>7
  <2>2. Steps(t, NextSlot(i)) # Steps(t, h)
    <3>1. Forth(t, Steps(t, NextSlot(i))) = NextSlot(i)
      BY <1>1, RingSteps
    <3> QED
      BY <1>1, <3>1
  <2> QED
    BY <1>2, <1>3, <2>1, <2>2
<1> QED
  BY <1>4, <1>5, <1>6, <1>7, <1>8 DEF InQueue

\* The newest block, and the tail.
LEMMA QueueEnds ==
    \A t, h \in Slots :
      /\ t # h => /\ InQueue(t, h, t) /\ InQueue(t, h, PrevSlot(h))
                  /\ Steps(t, PrevSlot(h)) = Steps(t, h) - 1
      /\ \A i \in Slots : t = h => ~ InQueue(t, h, i)
<1> SUFFICES ASSUME NEW t \in Slots, NEW h \in Slots
             PROVE  /\ t # h => /\ InQueue(t, h, t) /\ InQueue(t, h, PrevSlot(h))
                                /\ Steps(t, PrevSlot(h)) = Steps(t, h) - 1
                    /\ \A i \in Slots : t = h => ~ InQueue(t, h, i)
  OBVIOUS
<1>1. /\ Steps(t, h) \in Slots /\ (Steps(t, h) = 0 <=> t = h)
      /\ Steps(t, PrevSlot(h)) = IF h = t THEN BLOCK_BUFFER_SIZE - 1 ELSE Steps(t, h) - 1
      /\ Steps(t, t) = 0
      /\ \A i \in Slots : Steps(t, i) \in Slots
  BY RingSteps
<1>2. \A k \in Slots : k \in Nat
  BY SizeAssumption DEF Slots
<1> QED
  BY <1>1, <1>2 DEF InQueue

\* The slots a recalculation from a pointer in the queue plans are the ones behind it.
LEMMA QueueBehind ==
    \A t, h, p, i \in Slots : InQueue(t, h, p) =>
      /\ Behind(h, p, i) => InQueue(t, h, i) /\ i # t /\ i # p
      /\ InQueue(t, h, i) =>
           (Behind(h, p, i) <=> Steps(t, i) > Steps(t, p))
<1> SUFFICES ASSUME NEW t \in Slots, NEW h \in Slots, NEW p \in Slots, NEW i \in Slots,
                    InQueue(t, h, p)
             PROVE  /\ Behind(h, p, i) => InQueue(t, h, i) /\ i # t /\ i # p
                    /\ InQueue(t, h, i) => (Behind(h, p, i) <=> Steps(t, i) > Steps(t, p))
  OBVIOUS
<1> DEFINE o == PrevSlot(h)
<1>1. o \in Slots /\ Steps(t, o) = Steps(t, h) - 1
  BY QueueNeighbours, QueueEnds, RingSteps
<1>2. Plannable(h, p) = Steps(p, o)
  BY DEF Plannable
<1> HIDE DEF o
<1>3. /\ Steps(p, o) = IF p <= o THEN o - p ELSE o - p + BLOCK_BUFFER_SIZE
      /\ Steps(t, o) = IF t <= o THEN o - t ELSE o - t + BLOCK_BUFFER_SIZE
      /\ Steps(t, p) = IF t <= p THEN p - t ELSE p - t + BLOCK_BUFFER_SIZE
      /\ Steps(p, i) = IF p <= i THEN i - p ELSE i - p + BLOCK_BUFFER_SIZE
      /\ Steps(t, i) = IF t <= i THEN i - t ELSE i - t + BLOCK_BUFFER_SIZE
  BY <1>1, RingArithmetic
<1>4. /\ t \in Nat /\ o \in Nat /\ p \in Nat /\ i \in Nat /\ BLOCK_BUFFER_SIZE \in Nat
      /\ t < BLOCK_BUFFER_SIZE /\ o < BLOCK_BUFFER_SIZE
      /\ p < BLOCK_BUFFER_SIZE /\ i < BLOCK_BUFFER_SIZE
  BY <1>1, SizeAssumption DEF Slots
<1>5. Steps(t, p) < Steps(t, o) + 1
  <2>1. Steps(t, h) \in Int
    BY RingSteps, SizeAssumption DEF Slots
  <2> QED
    BY <1>1, <2>1 DEF InQueue
<1>6. ASSUME Steps(p, i) \in 1 .. Steps(p, o)
      PROVE  Steps(t, i) < Steps(t, o) + 1 /\ i # t /\ i # p
  BY <1>3, <1>4, <1>5, <1>6
<1>7. ASSUME Steps(t, i) < Steps(t, o) + 1
      PROVE  Steps(p, i) \in 1 .. Steps(p, o) <=> Steps(t, i) > Steps(t, p)
  BY <1>3, <1>4, <1>5, <1>7
<1>8. Steps(t, o) + 1 = Steps(t, h)
  <2>1. Steps(t, h) \in Int
    BY RingSteps, SizeAssumption DEF Slots
  <2> QED
    BY <1>1, <2>1
<1> QED
  BY <1>2, <1>6, <1>7, <1>8 DEF InQueue, Behind

\* A block more, and a block less.
LEMMA QueueMoves ==
    \A t, h \in Slots :
      /\ NextSlot(h) # t =>
           /\ Steps(t, NextSlot(h)) = Steps(t, h) + 1
           /\ \A i \in Slots : InQueue(t, NextSlot(h), i) <=> InQueue(t, h, i) \/ i = h
      /\ t # h =>
           \A i \in Slots :
             /\ InQueue(NextSlot(t), h, i) <=> InQueue(t, h, i) /\ i # t
             /\ i # t => Steps(NextSlot(t), i) = Steps(t, i) - 1
<1> SUFFICES ASSUME NEW t \in Slots, NEW h \in Slots
             PROVE  /\ NextSlot(h) # t =>
                         /\ Steps(t, NextSlot(h)) = Steps(t, h) + 1
                         /\ \A i \in Slots : InQueue(t, NextSlot(h), i)
                                               <=> InQueue(t, h, i) \/ i = h
                    /\ t # h =>
                         \A i \in Slots :
                           /\ InQueue(NextSlot(t), h, i) <=> InQueue(t, h, i) /\ i # t
                           /\ i # t => Steps(NextSlot(t), i) = Steps(t, i) - 1
  OBVIOUS
<1>0. BLOCK_BUFFER_SIZE \in Nat /\ BLOCK_BUFFER_SIZE > 2
  BY SizeAssumption
<1>1. ASSUME NextSlot(h) # t
      PROVE  /\ Steps(t, NextSlot(h)) = Steps(t, h) + 1
             /\ \A i \in Slots : InQueue(t, NextSlot(h), i) <=> InQueue(t, h, i) \/ i = h
  <2>1. Steps(t, NextSlot(h)) = Steps(t, h) + 1
    BY <1>1, RingSteps
  <2>2. ASSUME NEW i \in Slots
        PROVE  InQueue(t, NextSlot(h), i) <=> InQueue(t, h, i) \/ i = h
    <3>1. /\ Steps(t, i) \in Slots /\ Steps(t, h) \in Slots
          /\ Forth(t, Steps(t, i)) = i /\ Forth(t, Steps(t, h)) = h
      BY RingSteps
    <3>2. Steps(t, i) = Steps(t, h) <=> i = h
      BY <3>1
    <3>3. Steps(t, i) \in Int /\ Steps(t, h) \in Int
      BY <1>0, <3>1 DEF Slots
    <3> QED
      BY <2>1, <3>2, <3>3 DEF InQueue
  <2> QED
    BY <2>1, <2>2
<1>2. ASSUME t # h, NEW i \in Slots
      PROVE  /\ InQueue(NextSlot(t), h, i) <=> InQueue(t, h, i) /\ i # t
             /\ i # t => Steps(NextSlot(t), i) = Steps(t, i) - 1
  <2> DEFINE x == NextSlot(t)
  <2>1. x \in Slots
    BY RingSteps
  <2>2. x = IF t + 1 = BLOCK_BUFFER_SIZE THEN 0 ELSE t + 1
    BY DEF NextSlot
  <2> HIDE DEF x
  <2>3. /\ Steps(x, h) = IF x <= h THEN h - x ELSE h - x + BLOCK_BUFFER_SIZE
        /\ Steps(t, h) = IF t <= h THEN h - t ELSE h - t + BLOCK_BUFFER_SIZE
        /\ Steps(x, i) = IF x <= i THEN i - x ELSE i - x + BLOCK_BUFFER_SIZE
        /\ Steps(t, i) = IF t <= i THEN i - t ELSE i - t + BLOCK_BUFFER_SIZE
    BY <2>1, RingArithmetic
  <2>4. i # t => Steps(x, i) = Steps(t, i) - 1
    BY <1>0, <2>2, <2>3 DEF Slots
  <2>5. Steps(x, i) < Steps(x, h) <=> Steps(t, i) < Steps(t, h) /\ i # t
    BY <1>0, <1>2, <2>2, <2>3 DEF Slots
  <2> QED
    BY <2>4, <2>5 DEF InQueue, x
<1> QED
  BY <1>1, <1>2

-----------------------------------------------------------------------------
(* Types.                                                                  *)

\* The slot i holds a block.
Queued(i) == InQueue(block_buffer_tail, block_buffer_head, i)

\* TypeOK with what makes it inductive: the blocks in the queue have a length, there is one
\* at the tail while it is executed, and its profile is not computed twice.
TypeInv ==
    /\ block_buffer_tail \in Slots /\ block_buffer_head \in Slots
    /\ next_buffer_head = NextSlot(block_buffer_head)
    /\ block_buffer_planned \in Slots
    /\ ~Empty => Queued(block_buffer_planned)
    /\ block_buffer \in Plans
    /\ \A i \in Slots : Queued(i) => block_buffer[i].length > 0
    /\ previous_nominal \in Nat /\ half \in BOOLEAN
    /\ pl_block \in BOOLEAN /\ recalculate \in BOOLEAN /\ decel_override \in BOOLEAN
    /\ pl_block => ~Empty /\ ~recalculate
    /\ current_speed \in Nat /\ exit_speed \in Nat
    /\ hold \in {"none", "execute", "end", "rest"}

\* TypeInv is at least TypeOK.
LEMMA TypeInvImplies == TypeInv => TypeOK
<1> SUFFICES ASSUME TypeInv PROVE TypeOK
  OBVIOUS
<1>1. ~Empty => Steps(block_buffer_tail, block_buffer_planned) < Count
  BY DEF TypeInv, Queued, InQueue, Count
<1>2. \A i \in Slots : \A field \in DOMAIN NoBlock : block_buffer[i][field] \in Nat
  <2> SUFFICES ASSUME NEW i \in Slots, NEW field \in DOMAIN NoBlock
               PROVE  block_buffer[i][field] \in Nat
    OBVIOUS
  <2>1. block_buffer[i] \in BlockType
    BY DEF TypeInv, Plans
  <2>2. field \in {"nominal", "junction", "max", "entry", "length"}
    BY DEF NoBlock
  <2> QED
    BY <2>1, <2>2 DEF BlockType
<1> QED
  BY <1>1, <1>2 DEF TypeInv, TypeOK

\* The block that plan_discard_current_block leaves.
LEMMA NoBlockType == NoBlock \in BlockType
  BY DEF NoBlock, BlockType

\* The types hold initially.
LEMMA InitType == Init => TypeInv
<1> SUFFICES ASSUME Init PROVE TypeInv
  OBVIOUS
<1>1. 0 \in Slots /\ NextSlot(0) = 1
  BY SizeAssumption DEF Slots, NextSlot
<1>2. block_buffer \in Plans
  BY NoBlockType DEF Init, Plans
<1>3. Empty /\ \A i \in Slots : ~ Queued(i)
  BY <1>1, QueueEnds DEF Init, Empty, Queued
<1> QED
  BY <1>1, <1>2, <1>3 DEF Init, TypeInv

\* The pointer stays in the queue.
LEMMA PointerInQueue ==
    \A buf \in Plans, t, h, p \in Slots :
      InQueue(t, h, p) => InQueue(t, h, Pointer(buf, h, p))
<1> SUFFICES ASSUME NEW buf \in Plans, NEW t \in Slots, NEW h \in Slots, NEW p \in Slots,
                    InQueue(t, h, p)
             PROVE  InQueue(t, h, Pointer(buf, h, p))
  OBVIOUS
<1> DEFINE P == Pointer(buf, h, p)
<1>1. P \in Slots /\ (P # p => Behind(h, p, P))
  BY PointerFirm
<1> QED
  BY <1>1, QueueBehind

\* The first block of a queue gets the pointer wherever it was: it is entered at rest, its
\* limit.
LEMMA PointerToFirst ==
    \A buf \in Plans, h, p \in Slots :
      buf[h].max = 0 => Pointer(buf, NextSlot(h), p) = h
<1> SUFFICES ASSUME NEW buf \in Plans, NEW h \in Slots, NEW p \in Slots, buf[h].max = 0
             PROVE  Pointer(buf, NextSlot(h), p) = h
  OBVIOUS
<1> DEFINE x == NextSlot(h)
           B == Replan(buf, x, p)
<1>1. x \in Slots /\ PrevSlot(x) = h
  BY RingSteps
<1>2. Plannable(x, p) = Steps(p, h) /\ Plannable(x, p) \in Nat
  BY <1>1, NumberOfPlannable DEF Plannable
<1> HIDE DEF x
<1>3. CASE p = h
  <2>1. \A i \in Slots : ~ Behind(x, p, i)
    <3>1. Plannable(x, p) = 0
      BY <1>2, <1>3, RingSteps
    <3> QED
      BY <3>1 DEF Behind
  <2>2. Pointer(buf, x, p) \in Slots /\
        (Pointer(buf, x, p) # p => Behind(x, p, Pointer(buf, x, p)))
    BY <1>1, PointerFirm
  <2> QED
    BY <1>3, <2>1, <2>2 DEF x
<1>4. CASE p # h
  <2>1. Behind(x, p, h)
    <3>1. Steps(p, h) # 0
      BY <1>4, RingSteps
    <3> QED
      BY <1>2, <3>1 DEF Behind
  <2>2. B[h] \in BlockType /\ B[h].max = 0 /\ buf[h] \in BlockType
    BY <1>1, ReplanSlots DEF Plans
  <2>3. Rev(buf, x, p, h) = min(0, buf[h].length)
    BY <1>1, <2>1, ReplanReverse
  <2>4. Rev(buf, x, p, h) = 0
    BY <2>2, <2>3 DEF min, BlockType
  <2>5. B[h].entry = min(0, B[PrevSlot(h)].entry + B[PrevSlot(h)].length)
    BY <1>1, <2>1, <2>4, ReplanForward
  <2>6. B[PrevSlot(h)].entry + B[PrevSlot(h)].length \in Nat
    <3>1. B[PrevSlot(h)] \in BlockType
      BY <1>1, RingSteps, ReplanSlots
    <3> QED
      BY <3>1 DEF BlockType
  <2>7. B[h].entry = 0
    <3> HIDE DEF B
    <3> QED
      BY <2>5, <2>6 DEF min
  <2>8. B[PrevSlot(x)].entry = B[PrevSlot(x)].max /\ Behind(x, p, PrevSlot(x))
    BY <1>1, <2>1, <2>2, <2>7
  <2>9. Pointer(buf, x, p) = PrevSlot(x)
    BY <1>1, <2>8, PointerFirm
  <2> QED
    BY <1>1, <2>9 DEF x
<1> QED
  BY <1>3, <1>4

-----------------------------------------------------------------------------
(* The three recalculations.                                               *)

\* Nominal speeds and limits are numbers; no limit exceeds what it is made from.
LEMMA LimitsNat ==
    /\ \A b \in BlockType, h \in BOOLEAN : Nominal(b, h) \in Nat
    /\ \A n, p, j \in Nat :
         /\ MaxEntry(n, p, j) \in Nat
         /\ MaxEntry(n, p, j) <= n /\ MaxEntry(n, p, j) <= p /\ MaxEntry(n, p, j) <= j
         /\ MaxEntry(n, p, j) = n \/ MaxEntry(n, p, j) = p \/ MaxEntry(n, p, j) = j
<1>1. ASSUME NEW b \in BlockType, NEW h \in BOOLEAN PROVE Nominal(b, h) \in Nat
  <2>1. b.nominal \in Nat /\ b.nominal \div 4 \in Nat
    BY DEF BlockType
  <2> QED
    BY <2>1 DEF Nominal
<1>2. ASSUME NEW n \in Nat, NEW p \in Nat, NEW j \in Nat
      PROVE  /\ MaxEntry(n, p, j) \in Nat
             /\ MaxEntry(n, p, j) <= n /\ MaxEntry(n, p, j) <= p /\ MaxEntry(n, p, j) <= j
             /\ MaxEntry(n, p, j) = n \/ MaxEntry(n, p, j) = p \/ MaxEntry(n, p, j) = j
  BY DEF MaxEntry, min
<1> QED
  BY <1>1, <1>2

\* Two blocks that differ in their entry speed at most.
SameBlock(a, b) ==
    /\ a.nominal = b.nominal /\ a.junction = b.junction
    /\ a.max = b.max /\ a.length = b.length

\* The block at the tail is given an entry speed.
LEMMA SetEntry ==
    \A buf \in Plans, t \in Slots, v \in Nat :
      LET B == [buf EXCEPT ![t].entry = v]
      IN /\ B \in Plans
         /\ B[t].entry = v
         /\ \A i \in Slots : SameBlock(B[i], buf[i]) /\ (i # t => B[i] = buf[i])
<1> SUFFICES ASSUME NEW buf \in Plans, NEW t \in Slots, NEW v \in Nat
             PROVE  LET B == [buf EXCEPT ![t].entry = v]
                    IN /\ B \in Plans
                       /\ B[t].entry = v
                       /\ \A i \in Slots : SameBlock(B[i], buf[i]) /\ (i # t => B[i] = buf[i])
  OBVIOUS
<1> DEFINE B == [buf EXCEPT ![t].entry = v]
<1>1. buf[t] \in BlockType
  BY DEF Plans
<1>2. B[t] = [buf[t] EXCEPT !.entry = v] /\ \A i \in Slots : i # t => B[i] = buf[i]
  BY DEF Plans
<1>3. B[t] \in BlockType /\ B[t].entry = v /\ SameBlock(B[t], buf[t])
  BY <1>1, <1>2 DEF BlockType, SameBlock
<1>4. B \in Plans
  BY <1>3 DEF Plans
<1> QED
  BY <1>2, <1>3, <1>4 DEF SameBlock

\* The plan that BufferLine recalculates.
Buffered(buf) ==
    /\ buf \in Plans
    /\ \A i \in Slots : i # block_buffer_head => SameBlock(buf[i], block_buffer[i])
    /\ \A i \in Slots : i # block_buffer_head /\ i # block_buffer_tail =>
                          buf[i] = block_buffer[i]
    /\ ~Empty => buf[block_buffer_tail].entry =
                   IF pl_block /\ block_buffer_planned = block_buffer_tail
                     THEN current_speed ELSE block_buffer[block_buffer_tail].entry
    /\ LET b == buf[block_buffer_head]
       IN /\ b.nominal \in Nominals /\ b.length > 0 /\ b.entry = 0
          /\ b.max <= b.junction /\ b.max <= Nominal(b, half) /\ b.max <= previous_nominal
          /\ Empty => b.max = 0
          /\ previous_nominal' = Nominal(b, half)
    /\ block_buffer' = Replan(buf, next_buffer_head, block_buffer_planned)
    /\ block_buffer_planned' = Pointer(buf, next_buffer_head, block_buffer_planned)
    /\ pl_block' = (pl_block /\ block_buffer_planned # block_buffer_tail)
    /\ recalculate' = (recalculate \/ (pl_block /\ ~ pl_block'))

\* BufferLine recalculates such a plan.
LEMMA BufferLineShape ==
    TypeInv /\ BufferLine => \E buf \in Plans : Buffered(buf)
<1> SUFFICES ASSUME TypeInv, BufferLine PROVE \E buf \in Plans : Buffered(buf)
  OBVIOUS
<1> DEFINE h == block_buffer_head
           t == block_buffer_tail
           p == block_buffer_planned
           x == next_buffer_head
<1>0. /\ t \in Slots /\ h \in Slots /\ p \in Slots /\ x = NextSlot(h) /\ x \in Slots
      /\ PrevSlot(x) = h /\ x # t
      /\ half \in BOOLEAN /\ pl_block \in BOOLEAN /\ previous_nominal \in Nat
      /\ current_speed \in Nat /\ block_buffer \in Plans
      /\ ~Empty => Queued(p)
      /\ pl_block => ~Empty
  <2>1. t \in Slots /\ h \in Slots /\ p \in Slots /\ x = NextSlot(h)
    BY DEF TypeInv
  <2>2. x # t
    BY DEF BufferLine, Full
  <2> QED
    BY <2>1, <2>2, RingSteps DEF TypeInv
<1> DEFINE J(j) == IF Empty THEN 0 ELSE j
           b(n, j, l) == [nominal |-> n, junction |-> J(j), entry |-> 0, length |-> l, max |-> 0]
           m(n, j, l) == MaxEntry(Nominal(b(n, j, l), half), previous_nominal, J(j))
           A(n, j, l) == [block_buffer EXCEPT ![h] = [b(n, j, l) EXCEPT !.max = m(n, j, l)]]
<1>1. PICK n \in Nominals, j \in Junctions, l \in Lengths :
        /\ previous_nominal' = Nominal(b(n, j, l), half)
        /\ Recalculate(A(n, j, l), x, p, pl_block)
  BY DEF BufferLine
<1> DEFINE new == [b(n, j, l) EXCEPT !.max = m(n, j, l)]
           buf0 == A(n, j, l)
           notify == Plannable(x, p) > 0 /\ p = t
           buf1 == IF notify /\ pl_block THEN [buf0 EXCEPT ![t].entry = current_speed] ELSE buf0
<1>2. /\ block_buffer' = Replan(buf1, x, p)
      /\ IF x = t THEN p' \in Slots ELSE p' = Pointer(buf1, x, p)
      /\ pl_block' = (pl_block /\ ~ notify)
      /\ recalculate' = (recalculate \/ (pl_block /\ ~ pl_block'))
  <2> HIDE DEF b, m, A
  <2> QED
    BY <1>1 DEF Recalculate, Replan, Pointer, Behind
<1>3. n \in Nat /\ J(j) \in Nat /\ l \in Nat /\ l > 0 /\ (Empty => J(j) = 0)
  BY SpeedsAssumption
<1>4. b(n, j, l) \in BlockType
  BY <1>3 DEF BlockType
<1>5. /\ m(n, j, l) \in Nat /\ m(n, j, l) <= Nominal(b(n, j, l), half)
      /\ m(n, j, l) <= previous_nominal /\ m(n, j, l) <= J(j)
      /\ Nominal(b(n, j, l), half) \in Nat
  <2> HIDE DEF b, J
  <2>1. Nominal(b(n, j, l), half) \in Nat
    BY <1>0, <1>4, LimitsNat
  <2> QED
    BY <1>0, <1>3, <2>1, LimitsNat
<1>6. /\ new \in BlockType /\ new.nominal = n /\ new.length = l /\ new.entry = 0
      /\ new.max = m(n, j, l) /\ new.junction = J(j)
      /\ Nominal(new, half) = Nominal(b(n, j, l), half)
  <2>1. m(n, j, l) \in Nat
    BY <1>5
  <2>2. J(j) \in Nat
    BY <1>3
  <2> HIDE DEF m, J
  <2>3. new = [nominal |-> n, junction |-> J(j), entry |-> 0, length |-> l, max |-> m(n, j, l)]
    OBVIOUS
  <2> HIDE DEF new
  <2>4. new \in BlockType
    BY <1>3, <2>1, <2>2, <2>3 DEF BlockType
  <2>5. Nominal(new, half) = Nominal(b(n, j, l), half)
    BY <2>3 DEF Nominal
  <2> QED
    BY <2>3, <2>4, <2>5
<1> HIDE DEF b, m, J, new
<1>7. /\ buf0 \in Plans /\ buf0[h] = new
      /\ \A i \in Slots : i # h => buf0[i] = block_buffer[i]
  <2>1. A(n, j, l) = [block_buffer EXCEPT ![h] = new]
    BY DEF new
  <2> HIDE DEF A
  <2> QED
    BY <1>0, <1>6, <2>1 DEF Plans
<1>8. ~Empty => (notify <=> p = t)
  <2> SUFFICES ASSUME ~Empty PROVE Plannable(x, p) > 0
    OBVIOUS
  <2>1. p # h
    BY <1>0, QueueNeighbours DEF Queued
  <2>2. Steps(p, h) \in Nat /\ Steps(p, h) # 0
    BY <1>0, <2>1, RingSteps, SizeAssumption DEF Slots
  <2> QED
    BY <1>0, <2>2 DEF Plannable
<1>9. pl_block /\ notify <=> pl_block /\ p = t
  BY <1>0, <1>8
<1> HIDE DEF A
<1>10. /\ buf1 \in Plans
       /\ \A i \in Slots : SameBlock(buf1[i], buf0[i]) /\ (i # t => buf1[i] = buf0[i])
       /\ buf1[t].entry = IF pl_block /\ p = t THEN current_speed ELSE buf0[t].entry
  <2> HIDE DEF notify, buf0
  <2>1. CASE notify /\ pl_block
    BY <1>0, <1>7, <1>9, <2>1, SetEntry
  <2>2. CASE ~ (notify /\ pl_block)
    BY <1>7, <1>9, <2>2 DEF SameBlock
  <2> QED
    BY <2>1, <2>2
<1> HIDE DEF notify, buf1, buf0
<1>11. ~Empty => h # t
  BY DEF Empty
<1>12. Empty => ~ (pl_block /\ p = t)
  BY <1>0
<1>13. buf1[h] = new
  <2>1. CASE h # t
    BY <1>0, <1>7, <1>10, <2>1
  <2>2. CASE h = t
    <3>1. ~ (pl_block /\ notify)
      BY <1>0, <1>9, <2>2 DEF Empty
    <3> QED
      BY <1>7, <3>1 DEF buf1
  <2> QED
    BY <2>1, <2>2
<1>14. LET c == buf1[h]
       IN /\ c.nominal \in Nominals /\ c.length > 0 /\ c.entry = 0
          /\ c.max <= c.junction /\ c.max <= Nominal(c, half) /\ c.max <= previous_nominal
          /\ Empty => c.max = 0
          /\ previous_nominal' = Nominal(c, half)
  BY <1>1, <1>3, <1>5, <1>6, <1>13
<1>15. /\ \A i \in Slots : i # h => SameBlock(buf1[i], block_buffer[i])
       /\ \A i \in Slots : i # h /\ i # t => buf1[i] = block_buffer[i]
       /\ ~Empty => buf1[t].entry = IF pl_block /\ p = t THEN current_speed
                                    ELSE block_buffer[t].entry
  BY <1>0, <1>7, <1>10, <1>11
<1>16. /\ p' = Pointer(buf1, x, p)
       /\ pl_block' = (pl_block /\ p # t)
  BY <1>0, <1>2, <1>9
<1> QED
  BY <1>2, <1>10, <1>14, <1>15, <1>16 DEF Buffered

\* The plan that a reinitialization recalculates from buf.
Restarted(buf) ==
    /\ buf \in Plans
    /\ \A i \in Slots : /\ buf[i].nominal = block_buffer[i].nominal
                        /\ buf[i].junction = block_buffer[i].junction
                        /\ buf[i].length = block_buffer[i].length
                        /\ i # block_buffer_tail => buf[i].entry = block_buffer[i].entry
    /\ buf[block_buffer_tail].entry = IF pl_block THEN current_speed
                                      ELSE block_buffer[block_buffer_tail].entry
    /\ block_buffer' = Replan(buf, block_buffer_head, block_buffer_tail)
    /\ IF Empty THEN block_buffer_planned' \in Slots
       ELSE block_buffer_planned' = Pointer(buf, block_buffer_head, block_buffer_tail)
    /\ pl_block' = FALSE
    /\ recalculate' = (recalculate \/ pl_block)

\* plan_cycle_reinitialize does, and changes no limit.
LEMMA ReinitializeShape ==
    \A buf \in Plans :
      /\ TypeInv /\ Reinitialize(buf)
      /\ \A i \in Slots : /\ buf[i].nominal = block_buffer[i].nominal
                          /\ buf[i].junction = block_buffer[i].junction
                          /\ buf[i].length = block_buffer[i].length
                          /\ buf[i].entry = block_buffer[i].entry
      => \E new \in Plans : Restarted(new) /\ \A i \in Slots : new[i].max = buf[i].max
<1> SUFFICES ASSUME NEW buf \in Plans, TypeInv, Reinitialize(buf),
                    \A i \in Slots : /\ buf[i].nominal = block_buffer[i].nominal
                                     /\ buf[i].junction = block_buffer[i].junction
                                     /\ buf[i].length = block_buffer[i].length
                                     /\ buf[i].entry = block_buffer[i].entry
             PROVE  \E new \in Plans : /\ Restarted(new)
                                       /\ \A i \in Slots : new[i].max = buf[i].max
  OBVIOUS
<1> DEFINE h == block_buffer_head
           t == block_buffer_tail
           new == Updated(buf)
<1>1. /\ t \in Slots /\ current_speed \in Nat /\ pl_block \in BOOLEAN
  BY DEF TypeInv
<1>2. /\ new \in Plans
      /\ \A i \in Slots : SameBlock(new[i], buf[i]) /\ (i # t => new[i] = buf[i])
      /\ new[t].entry = IF pl_block THEN current_speed ELSE buf[t].entry
  <2>1. CASE pl_block
    <3>1. new = [buf EXCEPT ![t].entry = current_speed]
      BY <2>1 DEF Updated
    <3> DEFINE B == [buf EXCEPT ![t].entry = current_speed]
    <3>2. /\ B \in Plans
          /\ B[t].entry = current_speed
          /\ \A i \in Slots : SameBlock(B[i], buf[i]) /\ (i # t => B[i] = buf[i])
      BY <1>1, SetEntry
    <3>3. new = B
      BY <3>1
    <3> HIDE DEF new, B
    <3> QED
      BY <2>1, <3>2, <3>3
  <2>2. CASE ~ pl_block
    BY <2>2 DEF Updated, SameBlock
  <2> QED
    BY <2>1, <2>2
<1>3. Recalculate(new, h, t, FALSE)
  BY DEF Reinitialize
<1> HIDE DEF new
<1>4. /\ block_buffer' = Replan(new, h, t)
      /\ IF h = t THEN block_buffer_planned' \in Slots
         ELSE block_buffer_planned' = Pointer(new, h, t)
      /\ pl_block' = FALSE
      /\ recalculate' = (recalculate \/ (pl_block /\ ~ pl_block'))
  BY <1>3 DEF Recalculate, Replan, Pointer, Behind
<1>5. \A i \in Slots : /\ new[i].nominal = block_buffer[i].nominal
                       /\ new[i].junction = block_buffer[i].junction
                       /\ new[i].length = block_buffer[i].length
                       /\ new[i].max = buf[i].max
                       /\ i # t => new[i].entry = block_buffer[i].entry
  BY <1>2 DEF SameBlock
<1>6. new[t].entry = IF pl_block THEN current_speed ELSE block_buffer[t].entry
  BY <1>1, <1>2
<1>7. recalculate' = (recalculate \/ pl_block)
  BY <1>4
<1>8. Restarted(new)
  BY <1>2, <1>4, <1>5, <1>6, <1>7 DEF Restarted, Empty
<1> QED
  BY <1>2, <1>5, <1>8

\* At the end of a hold the limits are those of before.
LEMMA CycleStopShape ==
    TypeInv /\ CycleStop =>
      \E new \in Plans : Restarted(new) /\ \A i \in Slots : new[i].max = block_buffer[i].max
<1> SUFFICES ASSUME TypeInv, CycleStop
             PROVE  \E new \in Plans : /\ Restarted(new)
                                       /\ \A i \in Slots : new[i].max = block_buffer[i].max
  OBVIOUS
<1>1. block_buffer \in Plans /\ Reinitialize(block_buffer)
  BY DEF TypeInv, CycleStop
<1> QED
  BY <1>1, ReinitializeShape

\* The limits under the new override.
LEMMA LimitsShape ==
    \A h \in BOOLEAN :
      TypeInv =>
        /\ Limits(h) \in Plans
        /\ \A i \in Slots :
             /\ Limits(h)[i].nominal = block_buffer[i].nominal
             /\ Limits(h)[i].junction = block_buffer[i].junction
             /\ Limits(h)[i].length = block_buffer[i].length
             /\ Limits(h)[i].entry = block_buffer[i].entry
             /\ Queued(i) /\ i # block_buffer_tail =>
                  Limits(h)[i].max = MaxEntry(Nominal(block_buffer[i], h),
                                              Nominal(block_buffer[PrevSlot(i)], h),
                                              block_buffer[i].junction)
<1> SUFFICES ASSUME NEW h \in BOOLEAN, TypeInv
             PROVE  /\ Limits(h) \in Plans
                    /\ \A i \in Slots :
                         /\ Limits(h)[i].nominal = block_buffer[i].nominal
                         /\ Limits(h)[i].junction = block_buffer[i].junction
                         /\ Limits(h)[i].length = block_buffer[i].length
                         /\ Limits(h)[i].entry = block_buffer[i].entry
                         /\ Queued(i) /\ i # block_buffer_tail =>
                              Limits(h)[i].max = MaxEntry(Nominal(block_buffer[i], h),
                                                          Nominal(block_buffer[PrevSlot(i)], h),
                                                          block_buffer[i].junction)
  OBVIOUS
<1> DEFINE t == block_buffer_tail
           prev(i) == IF i = t THEN SOME_LARGE_VALUE ELSE Nominal(block_buffer[PrevSlot(i)], h)
           max(i) == MaxEntry(Nominal(block_buffer[i], h), prev(i), block_buffer[i].junction)
           L(i) == IF Queued(i) THEN [block_buffer[i] EXCEPT !.max = max(i)] ELSE block_buffer[i]
<1>1. Limits(h) = [i \in Slots |-> L(i)]
  BY DEF Limits, Queued, InQueue
<1>2. ASSUME NEW i \in Slots
      PROVE  block_buffer[i] \in BlockType /\ max(i) \in Nat
  <2>1. block_buffer[i] \in BlockType /\ block_buffer[PrevSlot(i)] \in BlockType
    BY RingSteps DEF TypeInv, Plans
  <2>2. prev(i) \in Nat /\ Nominal(block_buffer[i], h) \in Nat /\ block_buffer[i].junction \in Nat
    BY <2>1, LimitsNat DEF SOME_LARGE_VALUE, BlockType
  <2> HIDE DEF prev
  <2> QED
    BY <2>1, <2>2, LimitsNat
<1>3. ASSUME NEW i \in Slots
      PROVE  /\ L(i) \in BlockType
             /\ L(i).nominal = block_buffer[i].nominal
             /\ L(i).junction = block_buffer[i].junction
             /\ L(i).length = block_buffer[i].length
             /\ L(i).entry = block_buffer[i].entry
             /\ Queued(i) => L(i).max = max(i)
  <2> HIDE DEF max
  <2> QED
    BY <1>2 DEF BlockType
<1>4. ASSUME NEW i \in Slots, i # t
      PROVE  max(i) = MaxEntry(Nominal(block_buffer[i], h),
                               Nominal(block_buffer[PrevSlot(i)], h), block_buffer[i].junction)
  BY <1>4
<1> HIDE DEF L, max
<1>5. Limits(h) \in Plans
  BY <1>1, <1>3 DEF Plans
<1>6. \A i \in Slots : Limits(h)[i] = L(i)
  BY <1>1
<1> QED
  BY <1>3, <1>4, <1>5, <1>6

\* After an override they are the new ones.
LEMMA OverrideShape ==
    TypeInv /\ Override =>
      \E new \in Plans : Restarted(new) /\ \A i \in Slots : new[i].max = Limits(~half)[i].max
<1> SUFFICES ASSUME TypeInv, Override
             PROVE  \E new \in Plans : /\ Restarted(new)
                                       /\ \A i \in Slots : new[i].max = Limits(~half)[i].max
  OBVIOUS
<1>1. (~half) \in BOOLEAN
  BY DEF TypeInv
<1>2. /\ Limits(~half) \in Plans
      /\ \A i \in Slots :
           /\ Limits(~half)[i].nominal = block_buffer[i].nominal
           /\ Limits(~half)[i].junction = block_buffer[i].junction
           /\ Limits(~half)[i].length = block_buffer[i].length
           /\ Limits(~half)[i].entry = block_buffer[i].entry
  BY <1>1, LimitsShape
<1>3. Reinitialize(Limits(~half))
  BY DEF Override
<1> QED
  BY <1>2, <1>3, ReinitializeShape

-----------------------------------------------------------------------------
(* The types are kept.                                                     *)

\* BufferLine keeps the types.
LEMMA BufferLineType == TypeInv /\ BufferLine => TypeInv'
<1> SUFFICES ASSUME TypeInv, BufferLine PROVE TypeInv'
  OBVIOUS
<1> DEFINE h == block_buffer_head
           t == block_buffer_tail
           p == block_buffer_planned
           x == next_buffer_head
<1>1. PICK buf \in Plans : Buffered(buf)
  BY BufferLineShape
<1>2. /\ t \in Slots /\ h \in Slots /\ p \in Slots /\ x = NextSlot(h) /\ x \in Slots
      /\ x # t /\ NextSlot(x) \in Slots
      /\ t' = t /\ h' = x /\ next_buffer_head' = NextSlot(x)
  <2>1. t \in Slots /\ h \in Slots /\ p \in Slots /\ x = NextSlot(h)
    BY DEF TypeInv
  <2>2. x # t /\ t' = t /\ h' = x /\ next_buffer_head' = NextSlot(x)
    BY DEF BufferLine, Full
  <2> QED
    BY <2>1, <2>2, RingSteps
<1>3. block_buffer' = Replan(buf, x, p) /\ p' = Pointer(buf, x, p)
  BY <1>1 DEF Buffered
<1>4. block_buffer' \in Plans /\ p' \in Slots
  BY <1>2, <1>3, ReplanType, PointerFirm
<1>5. \A i \in Slots : Queued(i)' <=> Queued(i) \/ i = h
  BY <1>2, QueueMoves DEF Queued
<1>6. Queued(p)'
  <2>1. CASE Empty
    <3>1. buf[h].max = 0
      BY <1>1, <2>1 DEF Buffered
    <3>2. Pointer(buf, x, p) = h
      BY <1>2, <3>1, PointerToFirst
    <3> QED
      BY <1>2, <1>3, <1>5, <3>2
  <2>2. CASE ~Empty
    <3>1. InQueue(t, x, p)
      BY <1>2, <2>2, QueueMoves DEF TypeInv, Queued
    <3>2. InQueue(t, x, Pointer(buf, x, p))
      BY <1>2, <3>1, PointerInQueue
    <3> QED
      BY <1>2, <1>3, <3>2 DEF Queued
  <2> QED
    BY <2>1, <2>2
<1>7. ASSUME NEW i \in Slots, Queued(i)' PROVE block_buffer'[i].length > 0
  <2>1. block_buffer'[i].length = buf[i].length
    BY <1>2, <1>3, ReplanSlots
  <2>2. buf[i].length > 0
    <3>1. CASE i = h
      BY <1>1, <3>1 DEF Buffered
    <3>2. CASE i # h
      <4>1. buf[i].length = block_buffer[i].length
        BY <1>1, <3>2 DEF Buffered, SameBlock
      <4>2. Queued(i)
        BY <1>5, <1>7, <3>2
      <4> QED
        BY <4>1, <4>2 DEF TypeInv
    <3> QED
      BY <3>1, <3>2
  <2> QED
    BY <2>1, <2>2
<1>8. previous_nominal' \in Nat
  <2>1. buf[h] \in BlockType /\ half \in BOOLEAN
    BY <1>2 DEF Plans, TypeInv
  <2>2. previous_nominal' = Nominal(buf[h], half)
    BY <1>1 DEF Buffered
  <2> QED
    BY <2>1, <2>2, LimitsNat
<1>9. ~Empty'
  BY <1>2 DEF Empty
<1>10. /\ pl_block' = (pl_block /\ p # t)
       /\ recalculate' = (recalculate \/ (pl_block /\ ~ pl_block'))
  BY <1>1 DEF Buffered
<1>11. /\ pl_block \in BOOLEAN /\ recalculate \in BOOLEAN /\ (pl_block => ~recalculate)
  BY DEF TypeInv
<1>12. pl_block' \in BOOLEAN /\ recalculate' \in BOOLEAN /\ (pl_block' => ~recalculate')
  BY <1>10, <1>11
<1>13. /\ half' \in BOOLEAN /\ decel_override' \in BOOLEAN /\ current_speed' \in Nat
       /\ exit_speed' \in Nat /\ hold' \in {"none", "execute", "end", "rest"}
  BY DEF TypeInv, BufferLine
<1>14. /\ t' \in Slots /\ h' \in Slots /\ next_buffer_head' = NextSlot(h')
  BY <1>2
<1> QED
  BY <1>4, <1>6, <1>7, <1>8, <1>9, <1>12, <1>13, <1>14 DEF TypeInv

\* What a reinitialization leaves of the types.
LEMMA RestartedType ==
    ASSUME TypeInv, UNCHANGED << ring, current_speed, exit_speed, decel_override >>,
           previous_nominal' \in Nat, half' \in BOOLEAN,
           hold' \in {"none", "execute", "end", "rest"},
           NEW buf \in Plans, Restarted(buf)
    PROVE  TypeInv'
<1> DEFINE h == block_buffer_head
           t == block_buffer_tail
           p == block_buffer_planned
<1>1. /\ t \in Slots /\ h \in Slots /\ next_buffer_head = NextSlot(h)
      /\ t' = t /\ h' = h /\ next_buffer_head' = next_buffer_head
  BY DEF TypeInv, ring
<1>2. block_buffer' = Replan(buf, h, t)
  BY DEF Restarted
<1>3. block_buffer' \in Plans
  BY <1>1, <1>2, ReplanType
<1>4. Empty' = Empty /\ \A i \in Slots : Queued(i)' = Queued(i)
  BY <1>1 DEF Empty, Queued
<1>5. p' \in Slots /\ (~Empty => Queued(p)')
  <2>1. CASE Empty
    BY <2>1 DEF Restarted
  <2>2. CASE ~Empty
    <3>1. p' = Pointer(buf, h, t)
      BY <2>2 DEF Restarted
    <3>2. InQueue(t, h, t)
      BY <1>1, <2>2, QueueEnds DEF Empty
    <3>3. InQueue(t, h, Pointer(buf, h, t)) /\ Pointer(buf, h, t) \in Slots
      BY <1>1, <3>2, PointerInQueue, PointerFirm
    <3> QED
      BY <1>1, <3>1, <3>3 DEF Queued
  <2> QED
    BY <2>1, <2>2
<1>6. ASSUME NEW i \in Slots, Queued(i)' PROVE block_buffer'[i].length > 0
  <2>1. block_buffer'[i].length = buf[i].length
    BY <1>1, <1>2, ReplanSlots
  <2>2. buf[i].length = block_buffer[i].length
    BY DEF Restarted
  <2> QED
    BY <1>4, <1>6, <2>1, <2>2 DEF TypeInv
<1>7. pl_block' = FALSE /\ recalculate' \in BOOLEAN
  BY DEF Restarted, TypeInv
<1>8. decel_override' \in BOOLEAN /\ current_speed' \in Nat /\ exit_speed' \in Nat
  BY DEF TypeInv
<1> QED
  BY <1>1, <1>3, <1>4, <1>5, <1>6, <1>7, <1>8 DEF TypeInv

\* An override keeps the types.
LEMMA OverrideType == TypeInv /\ Override => TypeInv'
<1> SUFFICES ASSUME TypeInv, Override PROVE TypeInv'
  OBVIOUS
<1>1. PICK buf \in Plans : Restarted(buf)
  BY OverrideShape
<1>2. half' \in BOOLEAN /\ hold' \in {"none", "execute", "end", "rest"}
      /\ UNCHANGED << ring, current_speed, exit_speed, decel_override >>
  BY DEF Override, TypeInv
<1>3. previous_nominal' \in Nat
  <2>1. /\ previous_nominal' = IF Empty THEN SOME_LARGE_VALUE
                             ELSE Nominal(block_buffer[PrevSlot(block_buffer_head)], ~half)
    BY DEF Override
  <2>2. block_buffer[PrevSlot(block_buffer_head)] \in BlockType /\ (~half) \in BOOLEAN
    BY RingSteps DEF TypeInv, Plans
  <2>3. Nominal(block_buffer[PrevSlot(block_buffer_head)], ~half) \in Nat
    BY <2>2, LimitsNat
  <2> QED
    BY <2>1, <2>3 DEF SOME_LARGE_VALUE
<1> QED
  BY <1>1, <1>2, <1>3, RestartedType

\* The end of a hold keeps the types.
LEMMA CycleStopType == TypeInv /\ CycleStop => TypeInv'
<1> SUFFICES ASSUME TypeInv, CycleStop PROVE TypeInv'
  OBVIOUS
<1>1. PICK buf \in Plans : Restarted(buf)
  BY CycleStopShape
<1>2. /\ UNCHANGED << ring, current_speed, exit_speed, decel_override >>
      /\ previous_nominal' \in Nat /\ half' \in BOOLEAN
      /\ hold' \in {"none", "execute", "end", "rest"}
  BY DEF CycleStop, TypeInv
<1> QED
  BY <1>1, <1>2, RestartedType

\* A reset keeps the types.
LEMMA ResetType == TypeInv /\ Reset => TypeInv'
<1> SUFFICES ASSUME TypeInv, Reset PROVE TypeInv'
  OBVIOUS
<1>1. 0 \in Slots /\ NextSlot(0) = 1
  BY SizeAssumption DEF Slots, NextSlot
<1>2. block_buffer' \in Plans
  BY NoBlockType DEF Reset, Plans
<1>3. Empty' /\ \A i \in Slots : ~ Queued(i)'
  BY <1>1, QueueEnds DEF Reset, Empty, Queued
<1>4. half' \in BOOLEAN
  BY DEF Reset, TypeInv
<1> QED
  BY <1>1, <1>2, <1>3, <1>4 DEF Reset, TypeInv

\* A step that leaves the ring alone and gives the block at the tail another entry speed
\* or, as long as something is left, another length.
LEMMA TailType ==
    ASSUME TypeInv, UNCHANGED << ring, block_buffer_planned, previous_nominal, half >>,
           \/ block_buffer' = block_buffer
           \/ \E v \in Nat : block_buffer' = [block_buffer EXCEPT ![block_buffer_tail].entry = v]
           \/ \E l \in Nat \ {0} :
                block_buffer' = [block_buffer EXCEPT ![block_buffer_tail] = [Tail EXCEPT !.length = l]]
    PROVE  /\ block_buffer' \in Plans
           /\ \A i \in Slots : i # block_buffer_tail => block_buffer'[i] = block_buffer[i]
           /\ \A i \in Slots : Queued(i)' => block_buffer'[i].length > 0
           /\ Empty' = Empty /\ \A i \in Slots : Queued(i)' = Queued(i)
           /\ block_buffer_tail' \in Slots /\ block_buffer_head' \in Slots
           /\ next_buffer_head' = NextSlot(block_buffer_head')
           /\ block_buffer_planned' \in Slots
           /\ ~Empty' => Queued(block_buffer_planned)'
           /\ previous_nominal' \in Nat /\ half' \in BOOLEAN
<1> DEFINE t == block_buffer_tail
<1>1. /\ t \in Slots /\ block_buffer \in Plans /\ block_buffer[t] \in BlockType
      /\ block_buffer_tail' = t /\ block_buffer_head' = block_buffer_head
      /\ next_buffer_head' = next_buffer_head
      /\ block_buffer_planned' = block_buffer_planned
  BY DEF TypeInv, ring, Plans
<1>2. Empty' = Empty /\ \A i \in Slots : Queued(i)' = Queued(i)
  BY <1>1 DEF Empty, Queued
<1>3. /\ block_buffer' \in Plans
      /\ \A i \in Slots : i # t => block_buffer'[i] = block_buffer[i]
      /\ block_buffer'[t].length = block_buffer[t].length \/ block_buffer'[t].length > 0
  <2>1. CASE block_buffer' = block_buffer
    BY <1>1, <2>1
  <2>2. CASE \E v \in Nat : block_buffer' = [block_buffer EXCEPT ![t].entry = v]
    <3>1. PICK v \in Nat : block_buffer' = [block_buffer EXCEPT ![t].entry = v]
      BY <2>2
    <3> DEFINE B == [block_buffer EXCEPT ![t].entry = v]
    <3>2. /\ B \in Plans
          /\ \A i \in Slots : SameBlock(B[i], block_buffer[i]) /\ (i # t => B[i] = block_buffer[i])
      BY <1>1, SetEntry
    <3>3. block_buffer' = B
      BY <3>1
    <3> HIDE DEF B
    <3> QED
      BY <1>1, <3>2, <3>3 DEF SameBlock
  <2>3. CASE \E l \in Nat \ {0} :
               block_buffer' = [block_buffer EXCEPT ![t] = [Tail EXCEPT !.length = l]]
    <3>1. PICK l \in Nat \ {0} :
               block_buffer' = [block_buffer EXCEPT ![t] = [Tail EXCEPT !.length = l]]
      BY <2>3
    <3> DEFINE c == [Tail EXCEPT !.length = l]
    <3>2. c \in BlockType /\ c.length = l
      BY <1>1 DEF Tail, BlockType
    <3>3. block_buffer' = [block_buffer EXCEPT ![t] = c]
      BY <3>1
    <3> HIDE DEF c
    <3>4. block_buffer' \in Plans /\ block_buffer'[t] = c
          /\ \A i \in Slots : i # t => block_buffer'[i] = block_buffer[i]
      BY <1>1, <3>2, <3>3 DEF Plans
    <3>5. l > 0
      OBVIOUS
    <3> QED
      BY <3>2, <3>4, <3>5
  <2> QED
    BY <2>1, <2>2, <2>3
<1>4. ASSUME NEW i \in Slots, Queued(i)' PROVE block_buffer'[i].length > 0
  <2>1. block_buffer[i].length > 0
    BY <1>2, <1>4 DEF TypeInv
  <2> QED
    BY <1>3, <2>1
<1>5. ~Empty' => Queued(block_buffer_planned)'
  BY <1>1, <1>2 DEF TypeInv
<1> QED
  BY <1>1, <1>2, <1>3, <1>4, <1>5 DEF TypeInv

\* BeginHold keeps the types.
LEMMA BeginHoldType == TypeInv /\ BeginHold => TypeInv'
<1> SUFFICES ASSUME TypeInv, BeginHold PROVE TypeInv'
  OBVIOUS
<1>1. \/ block_buffer' = block_buffer
      \/ \E v \in Nat : block_buffer' = [block_buffer EXCEPT ![block_buffer_tail].entry = v]
  BY DEF BeginHold, Updated, TypeInv
<1>2. UNCHANGED << ring, block_buffer_planned, previous_nominal, half, decel_override,
                   current_speed, exit_speed >>
  BY DEF BeginHold
<1>3. pl_block' = FALSE /\ recalculate' \in BOOLEAN /\ hold' = "execute"
  BY DEF BeginHold, TypeInv
<1>4. decel_override' \in BOOLEAN /\ current_speed' \in Nat /\ exit_speed' \in Nat
  BY <1>2 DEF TypeInv
<1> QED
  BY <1>1, <1>2, <1>3, <1>4, TailType DEF TypeInv

\* CycleStart keeps the types.
LEMMA CycleStartType == TypeInv /\ CycleStart => TypeInv'
<1> SUFFICES ASSUME TypeInv, CycleStart PROVE TypeInv'
  OBVIOUS
<1>1. UNCHANGED << ring, plan, previous_nominal, half, prep >> /\ hold' = "none"
  BY DEF CycleStart
<1>2. UNCHANGED << ring, block_buffer_planned, previous_nominal, half >>
      /\ block_buffer' = block_buffer
  BY <1>1 DEF plan
<1> QED
  BY <1>1, <1>2, TailType DEF TypeInv, prep

\* EndMotion keeps the types.
LEMMA EndMotionType == TypeInv /\ EndMotion => TypeInv'
<1> SUFFICES ASSUME TypeInv, EndMotion PROVE TypeInv'
  OBVIOUS
<1>1. UNCHANGED << ring, plan, previous_nominal, half, prep >> /\ hold' = "end"
  BY DEF EndMotion
<1>2. UNCHANGED << ring, block_buffer_planned, previous_nominal, half >>
      /\ block_buffer' = block_buffer
  BY <1>1 DEF plan
<1> QED
  BY <1>1, <1>2, TailType DEF TypeInv, prep

\* The profile ends with some speed.
LEMMA ProfileType ==
    ASSUME TypeInv, ~Empty, NEW e \in Nat, Profile(e)
    PROVE  exit_speed' \in Nat /\ decel_override' \in BOOLEAN
<1>1. Tail.length \in Nat /\ Tail \in BlockType
  BY DEF Tail, TypeInv, Plans, BlockType
<1>2. Nominal(Tail, half) \in Nat
  BY <1>1, LimitsNat DEF TypeInv
<1>3. ExecExit \in Nat
  <2>1. NextSlot(block_buffer_tail) \in Slots
    BY RingSteps DEF TypeInv
  <2>2. block_buffer[NextSlot(block_buffer_tail)].entry \in Nat
    BY <2>1 DEF TypeInv, Plans, BlockType
  <2> QED
    BY <2>2 DEF ExecExit
<1> DEFINE n == Nominal(Tail, half)
           l == Tail.length
           x == ExecExit
           overrun == hold # "execute" /\ e > n /\ e - n >= l
<1>4. /\ exit_speed' = IF hold = "execute" /\ e <= l THEN 0
                       ELSE IF hold = "execute" \/ overrun THEN e - l ELSE x
      /\ decel_override' = overrun
  BY DEF Profile
<1>5. n \in Nat /\ l \in Nat /\ x \in Nat
  BY <1>1, <1>2, <1>3
<1> HIDE DEF n, l, x
<1> QED
  BY <1>4, <1>5

\* Load keeps the types.
LEMMA LoadType == TypeInv /\ Load => TypeInv'
<1> SUFFICES ASSUME TypeInv, Load PROVE TypeInv'
  OBVIOUS
<1>1. PICK e \in Nat : /\ current_speed' = e
                       /\ block_buffer' = [block_buffer EXCEPT ![block_buffer_tail].entry = e]
                       /\ Profile(e)
  <2> DEFINE e == IF hold = "execute" \/ decel_override THEN exit_speed ELSE Tail.entry
  <2>1. /\ current_speed' = e
        /\ block_buffer' = [block_buffer EXCEPT ![block_buffer_tail].entry = e]
        /\ Profile(e)
    BY DEF Load
  <2>2. e \in Nat
    BY DEF TypeInv, Tail, Plans, BlockType
  <2> HIDE DEF e
  <2> QED
    BY <2>1, <2>2
<1>2. /\ pl_block' = TRUE /\ ~Empty /\ ~recalculate
      /\ UNCHANGED << ring, block_buffer_planned, previous_nominal, half, recalculate, hold >>
  BY DEF Load
<1>3. exit_speed' \in Nat /\ decel_override' \in BOOLEAN
  BY <1>1, <1>2, ProfileType
<1>4. Empty' = Empty
  BY <1>2 DEF Empty, ring
<1> QED
  BY <1>1, <1>2, <1>3, <1>4, TailType DEF TypeInv

\* Reload keeps the types.
LEMMA ReloadType == TypeInv /\ Reload => TypeInv'
<1> SUFFICES ASSUME TypeInv, Reload PROVE TypeInv'
  OBVIOUS
<1>1. /\ pl_block' = TRUE /\ recalculate' = FALSE /\ ~Empty /\ Profile(Tail.entry)
      /\ UNCHANGED << ring, plan, previous_nominal, half, current_speed, hold >>
  BY DEF Reload
<1>2. Tail.entry \in Nat
  BY DEF TypeInv, Tail, Plans, BlockType
<1>3. exit_speed' \in Nat /\ decel_override' \in BOOLEAN
  BY <1>1, <1>2, ProfileType
<1>4. UNCHANGED << ring, block_buffer_planned, previous_nominal, half >>
      /\ block_buffer' = block_buffer /\ Empty' = Empty
  BY <1>1 DEF plan, ring, Empty
<1> QED
  BY <1>1, <1>3, <1>4, TailType DEF TypeInv

\* One unit on the speed is still a speed.
LEMMA CruiseType ==
    ASSUME TypeInv, NEW left \in Nat
    PROVE  Cruise(left) \in Nat
<1> DEFINE n == Nominal(Tail, half)
           v == min(min(current_speed + 1, n), exit_speed + left)
<1>1. n \in Nat
  BY LimitsNat DEF TypeInv, Tail, Plans
<1>2. current_speed \in Nat /\ exit_speed + left \in Nat /\ current_speed + 1 \in Nat
  BY DEF TypeInv
<1>3. v \in Nat
  <2> HIDE DEF n
  <2> QED
    BY <1>1, <1>2, MinNat
<1>4. Cruise(left) = IF current_speed > n \/ v < current_speed - 1 THEN current_speed - 1 ELSE v
  BY DEF Cruise
<1> HIDE DEF n, v
<1> QED
  BY <1>1, <1>2, <1>3, <1>4

\* The block at the tail is gone.
LEMMA DiscardType ==
    ASSUME TypeInv, ~Empty,
           block_buffer' = [block_buffer EXCEPT ![block_buffer_tail] = NoBlock],
           block_buffer_tail' = NextSlot(block_buffer_tail),
           block_buffer_planned' = PushedPlanned,
           UNCHANGED << block_buffer_head, next_buffer_head >>
    PROVE  /\ block_buffer' \in Plans
           /\ block_buffer_tail' \in Slots /\ block_buffer_head' \in Slots
           /\ next_buffer_head' = NextSlot(block_buffer_head')
           /\ block_buffer_planned' \in Slots
           /\ ~Empty' => Queued(block_buffer_planned)'
           /\ \A i \in Slots : Queued(i)' <=> Queued(i) /\ i # block_buffer_tail
           /\ \A i \in Slots : Queued(i)' => block_buffer'[i].length > 0
           /\ \A i \in Slots : i # block_buffer_tail => block_buffer'[i] = block_buffer[i]
<1> DEFINE t == block_buffer_tail
           h == block_buffer_head
           p == block_buffer_planned
<1>1. /\ t \in Slots /\ h \in Slots /\ p \in Slots /\ t # h
      /\ NextSlot(t) \in Slots /\ block_buffer \in Plans
      /\ next_buffer_head = NextSlot(h) /\ Queued(p)
  BY RingSteps DEF TypeInv, Empty
<1>2. /\ block_buffer' \in Plans
      /\ \A i \in Slots : i # t => block_buffer'[i] = block_buffer[i]
  BY <1>1, NoBlockType DEF Plans
<1>3. \A i \in Slots : Queued(i)' <=> Queued(i) /\ i # t
  BY <1>1, QueueMoves DEF Queued
<1>4. p' \in Slots /\ (~Empty' => Queued(p)')
  <2>1. CASE p = t
    <3>1. p' = NextSlot(t)
      BY <2>1 DEF PushedPlanned
    <3>2. ~Empty' => InQueue(t', h', t')
      BY <1>1, QueueEnds DEF Empty
    <3> QED
      BY <1>1, <3>1, <3>2 DEF Queued
  <2>2. CASE p # t
    <3>1. p' = p
      BY <2>2 DEF PushedPlanned
    <3>2. InQueue(NextSlot(t), h, p)
      BY <1>1, <2>2, QueueMoves DEF Queued
    <3> QED
      BY <1>1, <3>1, <3>2 DEF Queued
  <2> QED
    BY <2>1, <2>2
<1>5. \A i \in Slots : Queued(i)' => block_buffer'[i].length > 0
  BY <1>2, <1>3 DEF TypeInv
<1> QED
  BY <1>1, <1>2, <1>3, <1>4, <1>5

\* Advance keeps the types.
LEMMA AdvanceType == TypeInv /\ Advance => TypeInv'
<1> SUFFICES ASSUME TypeInv, Advance PROVE TypeInv'
  OBVIOUS
<1> DEFINE t == block_buffer_tail
           left == Tail.length - 1
<1>1. pl_block /\ ~Empty /\ ~recalculate
  BY DEF Advance, TypeInv
<1>2. Tail.length \in Nat /\ Tail.length > 0
  <2>1. Queued(t)
    BY <1>1, QueueEnds DEF TypeInv, Queued, Empty
  <2>2. block_buffer[t] \in BlockType /\ block_buffer[t].length > 0
    BY <2>1 DEF TypeInv, Plans
  <2> QED
    BY <2>2 DEF Tail, BlockType
<1>3. left \in Nat
  BY <1>2
<1>4. /\ current_speed' = IF left = 0 THEN exit_speed
                         ELSE IF hold = "execute" THEN current_speed - 1 ELSE Cruise(left)
      /\ hold = "execute" => current_speed > 0
      /\ UNCHANGED << block_buffer_head, next_buffer_head, previous_nominal, half,
                      recalculate, decel_override, exit_speed, hold >>
  BY DEF Advance
<1>5. current_speed' \in Nat
  <2>1. Cruise(left) \in Nat
    <3> HIDE DEF left
    <3> QED
      BY <1>3, CruiseType
  <2>2. current_speed \in Nat /\ exit_speed \in Nat
    BY DEF TypeInv
  <2> HIDE DEF left
  <2> QED
    BY <1>4, <2>1, <2>2
<1>6. /\ previous_nominal' \in Nat /\ half' \in BOOLEAN
      /\ recalculate' \in BOOLEAN /\ decel_override' \in BOOLEAN
      /\ ~recalculate' /\ exit_speed' \in Nat
      /\ hold' \in {"none", "execute", "end", "rest"}
  BY <1>1, <1>4 DEF TypeInv
<1>7. CASE left = 0
  <2>1. /\ block_buffer' = [block_buffer EXCEPT ![t] = NoBlock]
        /\ pl_block' = FALSE /\ t' = NextSlot(t) /\ block_buffer_planned' = PushedPlanned
    BY <1>7 DEF Advance
  <2>2. /\ block_buffer' \in Plans
        /\ block_buffer_tail' \in Slots /\ block_buffer_head' \in Slots
        /\ next_buffer_head' = NextSlot(block_buffer_head')
        /\ block_buffer_planned' \in Slots
        /\ ~Empty' => Queued(block_buffer_planned)'
        /\ \A i \in Slots : Queued(i)' => block_buffer'[i].length > 0
    BY <1>1, <1>4, <2>1, DiscardType
  <2> QED
    BY <1>5, <1>6, <2>1, <2>2 DEF TypeInv
<1>8. CASE left # 0
  <2>1. /\ block_buffer' = [block_buffer EXCEPT ![t] = [Tail EXCEPT !.length = left]]
        /\ UNCHANGED << pl_block, block_buffer_tail, block_buffer_planned >>
    BY <1>8 DEF Advance
  <2>2. left \in Nat \ {0}
    BY <1>3, <1>8
  <2>3. \E l \in Nat \ {0} : block_buffer' = [block_buffer EXCEPT ![t] = [Tail EXCEPT !.length = l]]
    BY <2>1, <2>2
  <2>4. UNCHANGED << ring, block_buffer_planned, previous_nominal, half >>
    BY <1>4, <2>1 DEF ring
  <2>5. /\ block_buffer' \in Plans
        /\ block_buffer_tail' \in Slots /\ block_buffer_head' \in Slots
        /\ next_buffer_head' = NextSlot(block_buffer_head')
        /\ block_buffer_planned' \in Slots
        /\ ~Empty' => Queued(block_buffer_planned)'
        /\ \A i \in Slots : Queued(i)' => block_buffer'[i].length > 0
        /\ Empty' = Empty
    BY <2>3, <2>4, TailType
  <2>6. pl_block' \in BOOLEAN
    BY <2>1 DEF TypeInv
  <2> QED
    BY <1>1, <1>5, <1>6, <2>5, <2>6 DEF TypeInv
<1> QED
  BY <1>7, <1>8

\* So does no step at all.
LEMMA StutterType == TypeInv /\ UNCHANGED vars => TypeInv'
<1> SUFFICES ASSUME TypeInv, UNCHANGED vars PROVE TypeInv'
  OBVIOUS
<1>1. UNCHANGED << ring, block_buffer_planned, previous_nominal, half >>
      /\ block_buffer' = block_buffer
  BY DEF vars, plan
<1> QED
  BY <1>1, TailType DEF TypeInv, vars, prep

\* No step leaves the types.
LEMMA NextType == TypeInv /\ [Next]_vars => TypeInv'
  BY BufferLineType, OverrideType, BeginHoldType, CycleStopType, CycleStartType, ResetType,
     LoadType, ReloadType, AdvanceType, EndMotionType, StutterType DEF Next

\* The pointers of the ring stay in it, the planned pointer in the queue, and no speed or
\* length becomes negative, whatever is planned, overridden, held or executed.
THEOREM PlannerTypes == Spec => []TypeOK
<1>1. Spec => []TypeInv
  BY InitType, NextType, PTL DEF Spec
<1> QED
  BY <1>1, TypeInvImplies, PTL

-----------------------------------------------------------------------------
(* No speed is wasted.                                                     *)

\* The junction behind the block in execution is another matter until the plan has been
\* made anew: the block left from a speed the plan did not know.
Executed(i) == i = NextSlot(block_buffer_tail) /\ (pl_block \/ recalculate)

\* The block i is entered as fast as the blocks before it allow.
Firm(i) ==
    LET before == block_buffer[PrevSlot(i)]
    IN \/ Executed(i)
       \/ block_buffer[i].entry = block_buffer[i].max
       \/ block_buffer[i].entry = before.entry + before.length

\* The block i is entered as fast as the blocks on either side allow.
Tight(i) ==
    \/ Firm(i)
    \/ block_buffer[i].entry = Exit(block_buffer, block_buffer_head, i) + block_buffer[i].length

\* NoSpeedWasted on slots, with what it rests on: no block behind could make the planned one
\* faster.  In a hold the machine leaves the plan, which is made anew when it ends.
TightInv ==
    hold \in {"none", "rest"} =>
      /\ \A i \in Slots : Queued(i) /\ i # block_buffer_tail => Tight(i)
      /\ ~Empty /\ block_buffer_planned # block_buffer_tail => Firm(block_buffer_planned)

\* The junctions of two blocks neither of which changed are judged as before.
LEMMA SameJunction ==
    ASSUME NEW i \in Slots,
           block_buffer'[i].entry = block_buffer[i].entry,
           block_buffer'[i].max = block_buffer[i].max,
           block_buffer'[i].length = block_buffer[i].length,
           block_buffer'[PrevSlot(i)].entry = block_buffer[PrevSlot(i)].entry,
           block_buffer'[PrevSlot(i)].length = block_buffer[PrevSlot(i)].length,
           Executed(i) => Executed(i)'
    PROVE  /\ Firm(i) => Firm(i)'
           /\ Tight(i) /\ Exit(block_buffer', block_buffer_head', i)
                            = Exit(block_buffer, block_buffer_head, i) => Tight(i)'
<1>1. Firm(i) => Firm(i)'
  BY DEF Firm
<1> QED
  BY <1>1 DEF Tight

\* A block more wastes no speed: planner_recalculate looks at what changed.
LEMMA BufferLineTight == TypeInv /\ TightInv /\ BufferLine => TightInv'
<1> SUFFICES ASSUME TypeInv, TightInv, BufferLine, hold' \in {"none", "rest"}
             PROVE  /\ \A i \in Slots : Queued(i)' /\ i # block_buffer_tail' => Tight(i)'
                    /\ ~Empty' /\ block_buffer_planned' # block_buffer_tail' =>
                         Firm(block_buffer_planned)'
  BY DEF TightInv
<1> DEFINE h == block_buffer_head
           t == block_buffer_tail
           p == block_buffer_planned
           x == next_buffer_head
<1>1. PICK buf \in Plans : Buffered(buf)
  BY BufferLineShape
<1>2. /\ t \in Slots /\ h \in Slots /\ p \in Slots /\ x = NextSlot(h) /\ x \in Slots
      /\ x # t /\ PrevSlot(x) = h
      /\ t' = t /\ h' = x /\ hold' = hold
  <2>1. t \in Slots /\ h \in Slots /\ p \in Slots /\ x = NextSlot(h)
    BY DEF TypeInv
  <2>2. x # t /\ t' = t /\ h' = x /\ hold' = hold
    BY DEF BufferLine, Full
  <2> QED
    BY <2>1, <2>2, RingSteps
<1>3. /\ block_buffer' = Replan(buf, x, p) /\ p' = Pointer(buf, x, p)
      /\ pl_block' = (pl_block /\ p # t)
      /\ recalculate' = (recalculate \/ (pl_block /\ ~ pl_block'))
      /\ \A i \in Slots : i # h => SameBlock(buf[i], block_buffer[i])
      /\ \A i \in Slots : i # h /\ i # t => buf[i] = block_buffer[i]
  BY <1>1 DEF Buffered
<1>4. \A i \in Slots : Queued(i)' <=> Queued(i) \/ i = h
  BY <1>2, QueueMoves DEF Queued
<1>5. CASE Empty
  <2>1. h = t /\ \A i \in Slots : ~ Queued(i)
    BY <1>2, <1>5, QueueEnds DEF Empty, Queued
  <2>2. buf[h].max = 0
    BY <1>1, <1>5 DEF Buffered
  <2>3. p' = h
    BY <1>2, <1>3, <2>2, PointerToFirst
  <2> QED
    BY <1>2, <1>4, <2>1, <2>3
<1>6. CASE ~Empty
  <2>1. InQueue(t, h, p) /\ InQueue(t, x, p) /\ t # h /\ p # h
    BY <1>2, <1>6, QueueMoves, QueueNeighbours DEF TypeInv, Queued, Empty
  <2>2. ASSUME NEW i \in Slots, Behind(x, p, i) PROVE Tight(i)'
    <3> DEFINE B == Replan(buf, x, p)
    <3>1. \/ B[i].entry = B[i].max
          \/ B[i].entry = Exit(B, x, i) + B[i].length
          \/ B[i].entry = B[PrevSlot(i)].entry + B[PrevSlot(i)].length
      BY <1>2, <2>2, ReplanTight
    <3>2. block_buffer' = B /\ h' = x
      BY <1>2, <1>3
    <3> HIDE DEF B
    <3> QED
      BY <3>1, <3>2 DEF Tight, Firm
  <2>3. ASSUME NEW i \in Slots, InQueue(t, h, i), ~ Behind(x, p, i)
        PROVE  /\ block_buffer'[i].entry = IF i = t THEN buf[t].entry ELSE block_buffer[i].entry
               /\ block_buffer'[i].max = block_buffer[i].max
               /\ block_buffer'[i].length = block_buffer[i].length
    <3>1. i # h
      BY <1>2, <2>3, QueueNeighbours
    <3>2. block_buffer'[i] = buf[i]
      BY <1>2, <1>3, <2>3, ReplanSlots
    <3>3. SameBlock(buf[i], block_buffer[i]) /\ (i # t => buf[i] = block_buffer[i])
      BY <1>3, <3>1
    <3> QED
      BY <3>2, <3>3 DEF SameBlock
  <2>4. p # t => buf[t].entry = block_buffer[t].entry
    BY <1>1, <1>6 DEF Buffered
  \* Up to the planned one the blocks stay as they are.
  <2>5. ASSUME NEW i \in Slots, InQueue(t, h, i), i # t, ~ Behind(x, p, i)
        PROVE  /\ Firm(i) => Firm(i)'
               /\ i # p => (Tight(i) => Tight(i)')
    <3>1. /\ InQueue(t, x, i) /\ InQueue(t, h, PrevSlot(i)) /\ PrevSlot(i) \in Slots
          /\ InQueue(t, x, PrevSlot(i))
          /\ Steps(t, PrevSlot(i)) = Steps(t, i) - 1
          /\ Steps(t, i) \in Int /\ Steps(t, p) \in Int
      <4>1. PrevSlot(i) \in Slots /\ Steps(t, PrevSlot(i)) = Steps(t, i) - 1
            /\ Steps(t, i) \in Slots /\ Steps(t, p) \in Slots
        BY <1>2, <2>5, RingSteps
      <4>2. Steps(t, i) \in Int /\ Steps(t, p) \in Int
        BY <4>1, SizeAssumption DEF Slots
      <4>3. InQueue(t, h, PrevSlot(i))
        BY <1>2, <2>5, QueueNeighbours
      <4> QED
        BY <1>2, <2>5, <4>1, <4>2, <4>3, QueueMoves
    <3>2. Steps(t, i) <= Steps(t, p)
      <4>1. ~ (Steps(t, i) > Steps(t, p))
        BY <1>2, <2>1, <2>5, <3>1, QueueBehind
      <4> QED
        BY <3>1, <4>1
    <3>3. ~ Behind(x, p, PrevSlot(i))
      <4>1. ~ (Steps(t, PrevSlot(i)) > Steps(t, p))
        BY <3>1, <3>2
      <4> QED
        BY <1>2, <2>1, <3>1, <4>1, QueueBehind
    <3>4. p # t
      <4>1. p = t => Steps(t, p) = 0
        BY <1>2, RingSteps
      <4>2. Steps(t, i) # 0 /\ Steps(t, i) \in Slots
        BY <1>2, <2>5, RingSteps
      <4> QED
        BY <3>1, <3>2, <4>1, <4>2, SizeAssumption DEF Slots
    <3>5. pl_block' = pl_block /\ recalculate' = recalculate
      <4>1. pl_block \in BOOLEAN /\ recalculate \in BOOLEAN
        BY DEF TypeInv
      <4> QED
        BY <1>3, <3>4, <4>1
    <3>6. Executed(i) => Executed(i)'
      BY <1>2, <3>5 DEF Executed
    <3>7. /\ block_buffer'[i].entry = block_buffer[i].entry
          /\ block_buffer'[i].max = block_buffer[i].max
          /\ block_buffer'[i].length = block_buffer[i].length
          /\ block_buffer'[PrevSlot(i)].entry = block_buffer[PrevSlot(i)].entry
          /\ block_buffer'[PrevSlot(i)].length = block_buffer[PrevSlot(i)].length
      BY <2>3, <2>4, <2>5, <3>1, <3>3, <3>4
    <3>8. ASSUME i # p
          PROVE  Exit(block_buffer', h', i) = Exit(block_buffer, h, i)
      <4> DEFINE y == NextSlot(i)
      <4>1. Steps(t, i) # Steps(t, p)
        <5>1. Forth(t, Steps(t, i)) = i /\ Forth(t, Steps(t, p)) = p
          BY <1>2, RingSteps
        <5> QED
          BY <3>8, <5>1
      <4>2. Steps(t, i) < Steps(t, p)
        BY <3>1, <3>2, <4>1
      <4>3. i # PrevSlot(h) /\ i # h
        <5>1. Steps(t, PrevSlot(h)) = Steps(t, h) - 1 /\ Steps(t, h) \in Slots
          BY <1>2, <2>1, QueueEnds, RingSteps
        <5>2. Steps(t, p) < Steps(t, h)
          BY <2>1 DEF InQueue
        <5>3. Steps(t, h) \in Int
          BY <5>1, SizeAssumption DEF Slots
        <5>4. Steps(t, i) # Steps(t, PrevSlot(h)) /\ Steps(t, i) # Steps(t, h)
          BY <3>1, <4>2, <5>1, <5>2, <5>3
        <5> QED
          BY <5>4
      <4>4. y \in Slots /\ InQueue(t, h, y) /\ y # t
        BY <1>2, <2>5, <4>3, QueueNeighbours, RingSteps
      <4>5. ~ Behind(x, p, y)
        <5>1. Steps(t, y) = Steps(t, i) + 1
          BY <1>2, <4>4, RingSteps
        <5>2. ~ (Steps(t, y) > Steps(t, p))
          BY <3>1, <4>2, <5>1
        <5>3. InQueue(t, x, y)
          BY <1>2, <4>4, QueueMoves
        <5> QED
          BY <1>2, <2>1, <4>4, <5>2, <5>3, QueueBehind
      <4>6. block_buffer'[y].entry = block_buffer[y].entry
        BY <2>3, <4>4, <4>5
      <4> QED
        BY <1>2, <4>3, <4>6 DEF Exit
    <3> QED
      BY <3>6, <3>7, <3>8, SameJunction
  <2>6. ASSUME NEW i \in Slots, Queued(i)', i # t' PROVE Tight(i)'
    <3>1. CASE Behind(x, p, i)
      BY <2>2, <3>1
    <3>2. CASE ~ Behind(x, p, i)
      <4>1. i # h
        <5>1. InQueue(t, x, h) /\ Steps(t, p) < Steps(t, h)
          BY <1>2, <2>1, QueueMoves DEF InQueue
        <5>2. Behind(x, p, h)
          <6>1. Steps(t, h) > Steps(t, p)
            <7>1. Steps(t, h) \in Slots /\ Steps(t, p) \in Slots
              BY <1>2, RingSteps
            <7> QED
              BY <5>1, <7>1, SizeAssumption DEF Slots
          <6> QED
            BY <1>2, <2>1, <5>1, <6>1, QueueBehind
        <5> QED
          BY <3>2, <5>2
      <4>2. InQueue(t, h, i) /\ Queued(i) /\ i # t
        BY <1>2, <1>4, <2>6, <4>1 DEF Queued
      <4>3. Tight(i) /\ (i = p => Firm(i))
        BY <1>2, <1>6, <4>2 DEF TightInv
      <4>4. i = p => Firm(i)'
        BY <2>5, <3>2, <4>2, <4>3
      <4>5. i # p => Tight(i)'
        BY <2>5, <3>2, <4>2, <4>3
      <4> QED
        BY <4>4, <4>5 DEF Tight
    <3> QED
      BY <3>1, <3>2
  <2>7. ASSUME p' # t' PROVE Firm(p)'
    <3>1. p' \in Slots
          /\ (p' # p => \/ block_buffer'[p'].entry = block_buffer'[p'].max
                        \/ block_buffer'[p'].entry = block_buffer'[PrevSlot(p')].entry
                                                       + block_buffer'[PrevSlot(p')].length)
      <4> DEFINE B == Replan(buf, x, p)
                 P == Pointer(buf, x, p)
      <4>1. /\ P \in Slots
            /\ P # p => \/ B[P].entry = B[P].max
                        \/ B[P].entry = B[PrevSlot(P)].entry + B[PrevSlot(P)].length
        BY <1>2, PointerFirm
      <4>2. block_buffer' = B /\ p' = P
        BY <1>3
      <4> HIDE DEF B, P
      <4> QED
        BY <4>1, <4>2
    <3>2. CASE p' # p
      BY <3>1, <3>2 DEF Firm
    <3>3. CASE p' = p
      <4>1. Firm(p) /\ p # t
        BY <1>2, <1>6, <2>7, <3>3 DEF TightInv
      <4>2. ~ Behind(x, p, p)
        BY <1>2, RingSteps DEF Behind
      <4>3. \A i \in Slots : i = p => Firm(i)'
        BY <2>1, <2>5, <4>1, <4>2
      <4>4. \A i \in Slots : i = p' => Firm(i)'
        BY <3>3, <4>3
      <4> QED
        BY <3>1, <4>4 DEF Firm, Executed
    <3> QED
      BY <3>2, <3>3
  <2> QED
    BY <2>6, <2>7
<1> QED
  BY <1>5, <1>6

\* A plan made anew from the tail wastes nothing.
LEMMA RestartedTight ==
    ASSUME TypeInv, UNCHANGED ring, NEW buf \in Plans, Restarted(buf)
    PROVE  TightInv'
<1> DEFINE h == block_buffer_head
           t == block_buffer_tail
           B == Replan(buf, h, t)
           P == Pointer(buf, h, t)
<1>1. t \in Slots /\ h \in Slots /\ t' = t /\ h' = h
  BY DEF TypeInv, ring
<1>2. block_buffer' = B /\ (~Empty => block_buffer_planned' = P)
  BY DEF Restarted
<1>3. ASSUME NEW i \in Slots, Queued(i)', i # t' PROVE Tight(i)'
  <2>1. InQueue(t, h, i) /\ InQueue(t, h, t)
    BY <1>1, <1>3, QueueNeighbours, QueueEnds DEF Queued
  <2>2. Behind(h, t, i)
    <3>1. Steps(t, i) \in Slots /\ Steps(t, i) # 0 /\ Steps(t, t) = 0
      BY <1>1, <1>3, RingSteps
    <3>2. Steps(t, i) > Steps(t, t)
      BY <3>1, SizeAssumption DEF Slots
    <3> QED
      BY <1>1, <2>1, <3>2, QueueBehind
  <2>3. \/ B[i].entry = B[i].max
        \/ B[i].entry = Exit(B, h, i) + B[i].length
        \/ B[i].entry = B[PrevSlot(i)].entry + B[PrevSlot(i)].length
    BY <1>1, <2>2, ReplanTight
  <2> HIDE DEF B
  <2> QED
    BY <1>1, <1>2, <2>3 DEF Tight, Firm
<1>4. ASSUME ~Empty', block_buffer_planned' # t'
      PROVE  Firm(block_buffer_planned)'
  <2>1. block_buffer_planned' = P
    BY <1>1, <1>2, <1>4 DEF Empty
  <2>2. P # t => \/ B[P].entry = B[P].max
                 \/ B[P].entry = B[PrevSlot(P)].entry + B[PrevSlot(P)].length
    BY <1>1, PointerFirm
  <2> HIDE DEF B, P
  <2> QED
    BY <1>1, <1>2, <1>4, <2>1, <2>2 DEF Firm
<1> QED
  BY <1>3, <1>4 DEF TightInv

\* Changes at the tail alone concern no junction but the next, which is not judged while
\* the block at the tail is executed.
LEMMA TailTight ==
    ASSUME TypeInv, TightInv, UNCHANGED << ring, block_buffer_planned >>,
           hold' \in {"none", "rest"} => hold \in {"none", "rest"},
           \A i \in Slots : i # block_buffer_tail => block_buffer'[i] = block_buffer[i],
           \/ block_buffer' = block_buffer /\ (pl_block \/ recalculate => pl_block' \/ recalculate')
           \/ pl_block' \/ recalculate'
    PROVE  TightInv'
<1> SUFFICES ASSUME hold \in {"none", "rest"}
             PROVE  /\ \A i \in Slots : Queued(i)' /\ i # block_buffer_tail' => Tight(i)'
                    /\ ~Empty' /\ block_buffer_planned' # block_buffer_tail' =>
                         Firm(block_buffer_planned)'
  BY DEF TightInv
<1> DEFINE h == block_buffer_head
           t == block_buffer_tail
           p == block_buffer_planned
<1>1. t \in Slots /\ h \in Slots /\ p \in Slots /\ t' = t /\ h' = h /\ p' = p
  BY DEF TypeInv, ring
<1>2. ASSUME NEW i \in Slots, InQueue(t, h, i), i # t
      PROVE  (Firm(i) => Firm(i)') /\ (Tight(i) => Tight(i)')
  <2>1. /\ PrevSlot(i) \in Slots /\ NextSlot(i) \in Slots /\ NextSlot(i) # t
        /\ NextSlot(PrevSlot(i)) = i
    BY <1>1, <1>2, RingSteps, QueueNeighbours
  <2>2. Exit(block_buffer', h', i) = Exit(block_buffer, h, i)
    BY <1>1, <2>1 DEF Exit
  <2>3. CASE Executed(i)'
    BY <2>3 DEF Tight, Firm
  <2>4. CASE ~ Executed(i)'
    <3>1. Executed(i) => Executed(i)'
      BY <1>1, <2>4 DEF Executed
    <3>2. block_buffer' = block_buffer \/ PrevSlot(i) # t
      BY <1>1, <2>1, <2>4 DEF Executed
    <3>3. /\ block_buffer'[i] = block_buffer[i]
          /\ block_buffer'[PrevSlot(i)] = block_buffer[PrevSlot(i)]
      BY <1>2, <2>1, <3>2
    <3> QED
      BY <2>2, <3>1, <3>3, SameJunction
  <2> QED
    BY <2>3, <2>4
<1>3. ASSUME NEW i \in Slots, Queued(i)', i # t' PROVE Tight(i)'
  <2>1. Queued(i) /\ InQueue(t, h, i) /\ i # t
    BY <1>1, <1>3 DEF Queued
  <2> QED
    BY <1>2, <2>1 DEF TightInv
<1>4. ASSUME ~Empty', p' # t' PROVE Firm(p)'
  <2>1. ~Empty /\ InQueue(t, h, p) /\ p # t
    BY <1>1, <1>4 DEF TypeInv, Empty, Queued
  <2>2. Firm(p)
    BY <2>1 DEF TightInv
  <2>3. \A i \in Slots : i = p => Firm(i)'
    BY <1>2, <2>1, <2>2
  <2>4. \A i \in Slots : i = p' => Firm(i)'
    BY <1>1, <2>3
  <2> QED
    BY <1>1, <2>4 DEF Firm, Executed
<1> QED
  BY <1>3, <1>4

\* The block at the tail is discarded: the junction behind it is the tail's own now.
LEMMA DiscardTight ==
    ASSUME TypeInv, TightInv, ~Empty, hold' = hold,
           block_buffer' = [block_buffer EXCEPT ![block_buffer_tail] = NoBlock],
           block_buffer_tail' = NextSlot(block_buffer_tail),
           block_buffer_planned' = PushedPlanned,
           UNCHANGED << block_buffer_head, next_buffer_head >>
    PROVE  TightInv'
<1> SUFFICES ASSUME hold \in {"none", "rest"}
             PROVE  /\ \A i \in Slots : Queued(i)' /\ i # block_buffer_tail' => Tight(i)'
                    /\ ~Empty' /\ block_buffer_planned' # block_buffer_tail' =>
                         Firm(block_buffer_planned)'
  BY DEF TightInv
<1> DEFINE h == block_buffer_head
           t == block_buffer_tail
           p == block_buffer_planned
<1>1. /\ t \in Slots /\ h \in Slots /\ p \in Slots /\ Queued(p)
      /\ t' = NextSlot(t) /\ h' = h
  BY DEF TypeInv
<1>2. /\ \A i \in Slots : Queued(i)' <=> Queued(i) /\ i # t
      /\ \A i \in Slots : i # t => block_buffer'[i] = block_buffer[i]
      /\ p' \in Slots
  BY DiscardType
<1>3. ASSUME NEW i \in Slots, InQueue(t, h, i), i # t, i # t'
      PROVE  (Firm(i) => Firm(i)') /\ (Tight(i) => Tight(i)')
  <2>1. /\ PrevSlot(i) \in Slots /\ NextSlot(i) \in Slots /\ NextSlot(i) # t
        /\ NextSlot(PrevSlot(i)) = i
    BY <1>1, <1>3, RingSteps, QueueNeighbours
  <2>2. PrevSlot(i) # t
    BY <1>1, <1>3, <2>1
  <2>3. Exit(block_buffer', h', i) = Exit(block_buffer, h, i)
    BY <1>1, <1>2, <2>1 DEF Exit
  <2>4. ~ Executed(i)
    BY <1>1, <1>3 DEF Executed
  <2>5. /\ block_buffer'[i] = block_buffer[i]
        /\ block_buffer'[PrevSlot(i)] = block_buffer[PrevSlot(i)]
    BY <1>2, <1>3, <2>1, <2>2
  <2> QED
    BY <2>3, <2>4, <2>5, SameJunction
<1>4. ASSUME NEW i \in Slots, Queued(i)', i # t' PROVE Tight(i)'
  <2>1. Queued(i) /\ InQueue(t, h, i) /\ i # t
    BY <1>2, <1>4 DEF Queued
  <2> QED
    BY <1>3, <1>4, <2>1 DEF TightInv
<1>5. ASSUME p' # t' PROVE Firm(p)'
  <2>1. p' = p /\ p # t
    BY <1>1, <1>5 DEF PushedPlanned
  <2>2. Firm(p) /\ InQueue(t, h, p)
    BY <1>1, <2>1 DEF TightInv, Queued
  <2>3. \A i \in Slots : i = p => Firm(i)'
    BY <1>1, <1>3, <1>5, <2>1, <2>2
  <2>4. \A i \in Slots : i = p' => Firm(i)'
    BY <2>1, <2>3
  <2> QED
    BY <1>2, <2>4 DEF Firm, Executed
<1> QED
  BY <1>4, <1>5

\* Execution wastes no speed.
LEMMA AdvanceTight == TypeInv /\ TightInv /\ Advance => TightInv'
<1> SUFFICES ASSUME TypeInv, TightInv, Advance PROVE TightInv'
  OBVIOUS
<1> DEFINE left == Tail.length - 1
           t == block_buffer_tail
<1>1. /\ pl_block /\ ~Empty /\ hold' = hold
      /\ UNCHANGED << block_buffer_head, next_buffer_head >>
  BY DEF Advance, TypeInv
<1>2. CASE left = 0
  <2>1. /\ block_buffer' = [block_buffer EXCEPT ![t] = NoBlock]
        /\ t' = NextSlot(t) /\ block_buffer_planned' = PushedPlanned
    BY <1>2 DEF Advance
  <2> QED
    BY <1>1, <2>1, DiscardTight
<1>3. CASE left # 0
  <2>1. /\ block_buffer' = [block_buffer EXCEPT ![t] = [Tail EXCEPT !.length = left]]
        /\ UNCHANGED << pl_block, block_buffer_tail, block_buffer_planned >>
    BY <1>3 DEF Advance
  <2>2. \A i \in Slots : i # t => block_buffer'[i] = block_buffer[i]
    BY <2>1 DEF TypeInv, Plans
  <2>3. UNCHANGED << ring, block_buffer_planned >> /\ pl_block'
    BY <1>1, <2>1 DEF ring
  <2> QED
    BY <1>1, <2>2, <2>3, TailTight
<1> QED
  BY <1>2, <1>3

\* The steps but those of the interrupt.
LEMMA OthersTight ==
    ASSUME TypeInv, TightInv,
           \/ Override \/ BeginHold \/ CycleStop \/ CycleStart \/ Reset
           \/ Load \/ Reload \/ EndMotion \/ UNCHANGED vars
    PROVE  TightInv'
<1>1. CASE Override
  <2>1. PICK buf \in Plans : Restarted(buf)
    BY <1>1, OverrideShape
  <2>2. UNCHANGED ring
    BY <1>1 DEF Override
  <2> QED
    BY <2>1, <2>2, RestartedTight
<1>2. CASE CycleStop
  <2>1. PICK buf \in Plans : Restarted(buf)
    BY <1>2, CycleStopShape
  <2>2. UNCHANGED ring
    BY <1>2 DEF CycleStop
  <2> QED
    BY <2>1, <2>2, RestartedTight
<1>3. CASE BeginHold \/ EndMotion
  BY <1>3 DEF BeginHold, EndMotion, TightInv
<1>4. CASE Reset
  <2>1. Empty' /\ 0 \in Slots /\ block_buffer_tail' = 0 /\ block_buffer_head' = 0
    BY <1>4, SizeAssumption DEF Reset, Empty, Slots
  <2>2. \A i \in Slots : ~ Queued(i)'
    BY <2>1, QueueEnds DEF Queued
  <2> QED
    BY <2>1, <2>2 DEF TightInv
<1>5. CASE CycleStart \/ UNCHANGED vars
  <2>1. /\ UNCHANGED << ring, block_buffer_planned >>
        /\ block_buffer' = block_buffer /\ pl_block' = pl_block /\ recalculate' = recalculate
    BY <1>5 DEF CycleStart, vars, plan, prep
  <2>2. hold' \in {"none", "rest"} => hold \in {"none", "rest"}
    BY <1>5 DEF CycleStart, vars
  <2> QED
    BY <2>1, <2>2, TailTight
<1>6. CASE Load
  <2>1. /\ UNCHANGED << ring, block_buffer_planned >> /\ hold' = hold /\ pl_block'
    BY <1>6 DEF Load
  <2>2. \A i \in Slots : i # block_buffer_tail => block_buffer'[i] = block_buffer[i]
    BY <1>6 DEF Load, TypeInv, Plans
  <2> QED
    BY <2>1, <2>2, TailTight
<1>7. CASE Reload
  <2>1. /\ UNCHANGED << ring, block_buffer_planned >> /\ hold' = hold /\ pl_block'
        /\ block_buffer' = block_buffer
    BY <1>7 DEF Reload, plan
  <2> QED
    BY <2>1, TailTight
<1> QED
  BY <1>1, <1>2, <1>3, <1>4, <1>5, <1>6, <1>7

\* No step wastes speed.
LEMMA NextTight == TypeInv /\ TightInv /\ [Next]_vars => TightInv'
  BY BufferLineTight, AdvanceTight, OthersTight DEF Next

\* An empty queue wastes none.
LEMMA InitTight == Init => TightInv
<1> SUFFICES ASSUME Init PROVE TightInv
  OBVIOUS
<1>1. Empty /\ 0 \in Slots
  BY SizeAssumption DEF Init, Empty, Slots
<1>2. \A i \in Slots : ~ Queued(i)
  BY <1>1, QueueEnds DEF Queued, Init
<1> QED
  BY <1>1, <1>2 DEF TightInv

\* The k-th block of the queue and its slot.
LEMMA QueuedBlock ==
    ASSUME TypeInv, NEW k \in 1 .. Count - 1
    PROVE  LET i == Forth(block_buffer_tail, k)
           IN /\ i \in Slots /\ Queued(i) /\ i # block_buffer_tail
              /\ Block(k) = block_buffer[i]
              /\ Block(k - 1) = block_buffer[PrevSlot(i)]
              /\ ExitOf(k) = Exit(block_buffer, block_buffer_head, i)
              /\ k = 1 <=> i = NextSlot(block_buffer_tail)
<1> DEFINE t == block_buffer_tail
           h == block_buffer_head
           i == Forth(t, k)
<1>1. t \in Slots /\ h \in Slots /\ PrevSlot(h) \in Slots
  BY RingSteps DEF TypeInv
<1>2. Count \in Slots /\ k \in Slots /\ k \in 1 .. Count - 1
  <2>1. Count \in Slots
    BY <1>1, RingSteps DEF Count
  <2> QED
    BY <2>1, SizeAssumption DEF Slots
<1>3. i \in Slots /\ Steps(t, i) = k
  BY <1>1, <1>2, RingForth
<1> HIDE DEF i
<1>4. Queued(i) /\ i # t
  <2>1. k < Count /\ k # 0
    BY <1>2, SizeAssumption DEF Slots
  <2>2. Steps(t, t) = 0
    BY <1>1, RingSteps
  <2> QED
    BY <1>3, <2>1, <2>2 DEF Queued, InQueue, Count
<1>5. /\ PrevSlot(i) \in Slots /\ NextSlot(i) \in Slots
      /\ Steps(t, PrevSlot(i)) = k - 1 /\ Forth(t, k - 1) = PrevSlot(i)
  <2>1. /\ PrevSlot(i) \in Slots /\ NextSlot(i) \in Slots
        /\ Steps(t, PrevSlot(i)) = k - 1
    BY <1>1, <1>3, <1>4, RingSteps
  <2>2. Forth(t, Steps(t, PrevSlot(i))) = PrevSlot(i)
    BY <1>1, <2>1, RingSteps
  <2> QED
    BY <2>1, <2>2
<1>6. ExitOf(k) = Exit(block_buffer, h, i)
  <2>1. k + 1 = Count <=> i = PrevSlot(h)
    <3>1. Steps(t, PrevSlot(h)) = Count - 1
      BY <1>1, <1>3, <1>4, QueueNeighbours, QueueEnds DEF Count, Queued
    <3>2. Steps(t, i) = Steps(t, PrevSlot(h)) <=> i = PrevSlot(h)
      <4>1. Forth(t, Steps(t, i)) = i /\ Forth(t, Steps(t, PrevSlot(h))) = PrevSlot(h)
        BY <1>1, <1>3, RingSteps
      <4> QED
        BY <4>1
    <3>3. k \in Int /\ Count \in Int
      BY <1>2, SizeAssumption DEF Slots
    <3> QED
      BY <1>3, <3>1, <3>2, <3>3
  <2>2. Forth(t, k + 1) = NextSlot(i)
    <3>1. Steps(t, NextSlot(i)) = k + 1
      BY <1>1, <1>3, <1>4, RingSteps, QueueNeighbours DEF Queued
    <3>2. Forth(t, Steps(t, NextSlot(i))) = NextSlot(i)
      BY <1>1, <1>5, RingSteps
    <3> QED
      BY <3>1, <3>2
  <2> QED
    BY <2>1, <2>2 DEF ExitOf, Exit, Block
<1>7. k = 1 <=> i = NextSlot(t)
  <2>1. k - 1 = 0 <=> t = PrevSlot(i)
    <3>1. Steps(t, PrevSlot(i)) = 0 <=> t = PrevSlot(i)
      BY <1>1, <1>5, RingSteps
    <3> QED
      BY <1>5, <3>1
  <2>2. t = PrevSlot(i) <=> i = NextSlot(t)
    BY <1>1, <1>3, RingSteps
  <2> QED
    BY <1>2, <2>1, <2>2
<1>8. Block(k) = block_buffer[i] /\ Block(k - 1) = block_buffer[PrevSlot(i)]
  BY <1>5 DEF Block, i
<1> QED
  BY <1>3, <1>4, <1>6, <1>7, <1>8 DEF i

\* Whatever is queued, overridden, held and executed in whatever order, the part of the plan
\* that planner_recalculate skips is as fast as it could be made.
THEOREM PlanIsOptimal == Spec => []NoSpeedWasted
<1>1. ASSUME TypeInv, TightInv PROVE NoSpeedWasted
  <2> SUFFICES ASSUME hold = "none", NEW k \in 1 .. Count - 1
               PROVE  \/ k = 1 /\ (pl_block \/ recalculate)
                      \/ Block(k).entry = Block(k).max
                      \/ Block(k).entry = ExitOf(k) + Block(k).length
                      \/ Block(k).entry = Block(k - 1).entry + Block(k - 1).length
    BY DEF NoSpeedWasted
  <2> DEFINE i == Forth(block_buffer_tail, k)
  <2>1. /\ i \in Slots /\ Queued(i) /\ i # block_buffer_tail
        /\ Block(k) = block_buffer[i]
        /\ Block(k - 1) = block_buffer[PrevSlot(i)]
        /\ ExitOf(k) = Exit(block_buffer, block_buffer_head, i)
        /\ k = 1 <=> i = NextSlot(block_buffer_tail)
    BY <1>1, QueuedBlock
  <2> HIDE DEF i
  <2>2. Tight(i)
    BY <1>1, <2>1 DEF TightInv
  <2> QED
    BY <2>1, <2>2 DEF Tight, Firm, Executed
<1>2. Spec => [](TypeInv /\ TightInv)
  <2>1. Init => TypeInv /\ TightInv
    BY InitType, InitTight
  <2>2. (TypeInv /\ TightInv) /\ [Next]_vars => (TypeInv /\ TightInv)'
    BY NextType, NextTight
  <2> QED
    BY <2>1, <2>2, PTL DEF Spec
<1> QED
  BY <1>1, <1>2, PTL

-----------------------------------------------------------------------------
(* The plan stops in time.                                                 *)

\* The block i is entered within its limits and no faster than it can be braked from.
Safe(i) ==
    /\ block_buffer[i].entry <= block_buffer[i].max
    /\ block_buffer[i].entry <= Exit(block_buffer, block_buffer_head, i) + block_buffer[i].length
    /\ block_buffer[i].max <= block_buffer[i].junction

\* PlanStopsInTime on slots; the limit of a block is within that of its junction.
StopsInv == \A i \in Slots : Queued(i) /\ i # block_buffer_tail => Safe(i)

\* The entry speeds of a plan.
Entries(buf) == [i \in Slots |-> buf[i].entry]

\* Entry speeds are numbers.
LEMMA EntriesType == \A buf \in Plans : Entries(buf) \in [Slots -> Nat]
<1> SUFFICES ASSUME NEW buf \in Plans PROVE Entries(buf) \in [Slots -> Nat]
  OBVIOUS
<1>1. \A i \in Slots : buf[i].entry \in Nat
  BY DEF Plans, BlockType
<1> QED
  BY <1>1 DEF Entries

\* The blocks between the tail and the pointer, the newest of which is not the newest of all.
LEMMA BeforePointer ==
    \A t, h, p, i \in Slots :
      InQueue(t, h, p) /\ InQueue(t, h, i) /\ ~ Behind(h, p, i) /\ i # p =>
        /\ i # PrevSlot(h) /\ p # t
        /\ InQueue(t, h, NextSlot(i)) /\ ~ Behind(h, p, NextSlot(i)) /\ NextSlot(i) # t
<1> SUFFICES ASSUME NEW t \in Slots, NEW h \in Slots, NEW p \in Slots, NEW i \in Slots,
                    InQueue(t, h, p), InQueue(t, h, i), ~ Behind(h, p, i), i # p
             PROVE  /\ i # PrevSlot(h) /\ p # t
                    /\ InQueue(t, h, NextSlot(i)) /\ ~ Behind(h, p, NextSlot(i))
                    /\ NextSlot(i) # t
  OBVIOUS
<1> DEFINE y == NextSlot(i)
           o == PrevSlot(h)
<1>1. /\ Steps(t, i) \in Slots /\ Steps(t, p) \in Slots /\ Steps(t, h) \in Slots
      /\ Forth(t, Steps(t, i)) = i /\ Forth(t, Steps(t, p)) = p
      /\ y \in Slots /\ o \in Slots
  BY RingSteps
<1>2. \A k \in Slots : k \in Nat
  BY SizeAssumption DEF Slots
<1>3. Steps(t, i) # Steps(t, p) /\ ~ (Steps(t, i) > Steps(t, p))
  BY <1>1, QueueBehind
<1>4. Steps(t, i) < Steps(t, p)
  BY <1>1, <1>2, <1>3
<1>5. p # t
  <2>1. Steps(t, p) # 0
    BY <1>1, <1>2, <1>4
  <2> QED
    BY <2>1, RingSteps
<1>6. i # o
  <2>1. t # h
    BY QueueNeighbours
  <2>2. Steps(t, o) = Steps(t, h) - 1
    BY <2>1, QueueEnds
  <2>3. Steps(t, p) < Steps(t, h)
    BY DEF InQueue
  <2>4. Steps(t, i) # Steps(t, o)
    BY <1>1, <1>2, <1>4, <2>2, <2>3
  <2> QED
    BY <2>4
<1>7. InQueue(t, h, y) /\ y # t
  BY <1>6, QueueNeighbours
<1>8. ~ Behind(h, p, y)
  <2>1. Steps(t, y) = Steps(t, i) + 1
    BY <1>7, RingSteps
  <2>2. ~ (Steps(t, y) > Steps(t, p))
    BY <1>1, <1>2, <1>4, <2>1
  <2> QED
    BY <1>1, <1>7, <2>2, QueueBehind
<1> QED
  BY <1>5, <1>6, <1>7, <1>8

\* The new block brakes to rest, and the ones before it as they did.
BufferedSpeeds == [Entries(block_buffer) EXCEPT ![block_buffer_head] = 0]

\* These speeds can be braked from.
LEMMA BufferedBrakes ==
    ASSUME TypeInv, StopsInv, ~Empty, ~Full, NEW buf \in Plans, Buffered(buf)
    PROVE  /\ BufferedSpeeds \in [Slots -> Nat]
           /\ BufferedSpeeds[block_buffer_head] = 0
           /\ \A i \in Slots : i # block_buffer_head =>
                                 BufferedSpeeds[i] = block_buffer[i].entry
           /\ Brakeable(BufferedSpeeds, buf, next_buffer_head, block_buffer_planned)
<1> DEFINE h == block_buffer_head
           t == block_buffer_tail
           p == block_buffer_planned
           x == next_buffer_head
           G == BufferedSpeeds
<1>1. /\ t \in Slots /\ h \in Slots /\ p \in Slots /\ x = NextSlot(h) /\ x \in Slots
      /\ x # t /\ PrevSlot(x) = h /\ InQueue(t, h, p) /\ InQueue(t, x, p) /\ t # h
  <2>1. /\ t \in Slots /\ h \in Slots /\ p \in Slots /\ x = NextSlot(h) /\ x # t
        /\ InQueue(t, h, p) /\ t # h
    BY DEF TypeInv, Full, Queued, Empty
  <2> QED
    BY <2>1, RingSteps, QueueMoves
<1>2. G \in [Slots -> Nat] /\ G[h] = 0 /\ \A i \in Slots : i # h => G[i] = block_buffer[i].entry
  <2>1. Entries(block_buffer) \in [Slots -> Nat]
    BY EntriesType DEF TypeInv
  <2>2. \A i \in Slots : Entries(block_buffer)[i] = block_buffer[i].entry
    BY DEF Entries
  <2> QED
    BY <1>1, <2>1, <2>2 DEF BufferedSpeeds
<1> HIDE DEF G
<1>3. ASSUME NEW i \in Slots, Behind(x, p, i)
      PROVE  /\ G[i] <= buf[i].max
             /\ G[i] <= (IF i = PrevSlot(x) THEN 0 ELSE G[NextSlot(i)]) + buf[i].length
             /\ buf[i].entry = buf[i].max => G[i] = buf[i].max
  <2>0. buf[i].max \in Nat /\ buf[i].length \in Nat
    BY DEF Plans, BlockType
  <2>1. CASE i = h
    <3>1. buf[h].entry = 0
      BY <1>1 DEF Buffered
    <3> QED
      BY <1>1, <1>2, <2>0, <2>1, <3>1
  <2>2. CASE i # h
    <3>1. InQueue(t, h, i) /\ i # t
      <4>1. InQueue(t, x, i) /\ i # t
        BY <1>1, <1>3, QueueBehind
      <4> QED
        BY <1>1, <2>2, <4>1, QueueMoves
    <3>2. Safe(i)
      BY <3>1 DEF StopsInv, Queued
    <3>3. buf[i] = block_buffer[i]
      BY <2>2, <3>1 DEF Buffered
    <3>4. Exit(block_buffer, h, i) = G[NextSlot(i)]
      <4>1. NextSlot(i) \in Slots /\ (i = PrevSlot(h) <=> NextSlot(i) = h)
        BY <1>1, <3>1, QueueNeighbours, RingSteps
      <4> QED
        BY <1>2, <4>1 DEF Exit
    <3> QED
      BY <1>1, <1>2, <2>2, <3>2, <3>3, <3>4 DEF Safe
  <2> QED
    BY <2>1, <2>2
<1> QED
  BY <1>2, <1>3 DEF Brakeable, G

\* A block more leaves a plan that stops in time.
LEMMA BufferLineStops == TypeInv /\ StopsInv /\ BufferLine => StopsInv'
<1> SUFFICES ASSUME TypeInv, StopsInv, BufferLine,
                    NEW i \in Slots, Queued(i)', i # block_buffer_tail'
             PROVE  Safe(i)'
  BY DEF StopsInv
<1> DEFINE h == block_buffer_head
           t == block_buffer_tail
           p == block_buffer_planned
           x == next_buffer_head
<1>1. PICK buf \in Plans : Buffered(buf)
  BY BufferLineShape
<1>2. /\ t \in Slots /\ h \in Slots /\ p \in Slots /\ x = NextSlot(h) /\ x \in Slots
      /\ x # t /\ PrevSlot(x) = h /\ ~Full /\ t' = t /\ h' = x
  <2>1. /\ t \in Slots /\ h \in Slots /\ p \in Slots /\ x = NextSlot(h) /\ x # t
        /\ ~Full /\ t' = t /\ h' = x
    BY DEF TypeInv, BufferLine, Full
  <2> QED
    BY <2>1, RingSteps
<1>3. (InQueue(t, h, i) \/ i = h) /\ i # t /\ InQueue(t, x, i)
  BY <1>2, QueueMoves DEF Queued
<1>4. ~Empty /\ InQueue(t, h, p) /\ InQueue(t, x, p)
  <2>1. ~Empty
    BY <1>2, <1>3, QueueEnds DEF Empty
  <2> QED
    BY <1>2, <2>1, QueueMoves DEF TypeInv, Queued
<1> DEFINE B == Replan(buf, x, p)
           G == BufferedSpeeds
<1>5. block_buffer' = B
  BY <1>1 DEF Buffered
<1>6. /\ G \in [Slots -> Nat] /\ G[h] = 0 /\ (\A j \in Slots : j # h => G[j] = block_buffer[j].entry)
      /\ Brakeable(G, buf, x, p)
  BY <1>1, <1>2, <1>4, BufferedBrakes
<1>7. /\ \A j \in Slots : Behind(x, p, j) =>
           B[j].entry <= B[j].max /\ B[j].entry <= Exit(B, x, j) + B[j].length
      /\ Behind(x, p, NextSlot(p)) =>
           (buf[p].entry <= G[NextSlot(p)] + buf[p].length =>
              B[p].entry <= B[NextSlot(p)].entry + B[p].length)
  BY <1>2, <1>6, ReplanStops
<1>8. \A j \in Slots :
        /\ B[j].max = buf[j].max /\ B[j].junction = buf[j].junction /\ B[j].length = buf[j].length
        /\ ~ Behind(x, p, j) => B[j] = buf[j]
        /\ B[j].entry \in Nat /\ B[j].max \in Nat /\ B[j].length \in Nat
  BY <1>2, ReplanSlots DEF BlockType
<1>9. B[i].max <= B[i].junction
  <2>1. CASE i = h
    BY <1>1, <1>2, <1>8, <2>1 DEF Buffered
  <2>2. CASE i # h
    <3>1. Safe(i)
      BY <1>3, <2>2 DEF StopsInv, Queued
    <3> QED
      BY <1>1, <1>8, <2>2, <3>1 DEF Safe, Buffered, SameBlock
  <2> QED
    BY <2>1, <2>2
<1> HIDE DEF B, G
<1>10. CASE Behind(x, p, i)
  BY <1>2, <1>5, <1>7, <1>9, <1>10 DEF Safe
<1>11. CASE ~ Behind(x, p, i)
  <2>1. Behind(x, p, h)
    <3>1. InQueue(t, x, h) /\ Steps(t, p) < Steps(t, h)
      BY <1>2, <1>4, QueueMoves DEF InQueue
    <3>2. Steps(t, h) > Steps(t, p)
      <4>1. Steps(t, h) \in Slots /\ Steps(t, p) \in Slots
        BY <1>2, RingSteps
      <4> QED
        BY <3>1, <4>1, SizeAssumption DEF Slots
    <3> QED
      BY <1>2, <1>4, <3>1, <3>2, QueueBehind
  <2>2. i # h /\ Queued(i)
    BY <1>3, <1>11, <2>1 DEF Queued
  <2>3. Safe(i) /\ buf[i] = block_buffer[i] /\ B[i] = buf[i]
    BY <1>1, <1>3, <1>8, <1>11, <2>2 DEF StopsInv, Buffered
  <2> DEFINE y == NextSlot(i)
  <2>4. y \in Slots /\ y # t /\ (i = PrevSlot(h) <=> y = h) /\ i # PrevSlot(x)
    BY <1>2, <1>3, <2>2, QueueNeighbours, RingSteps DEF Queued
  <2> HIDE DEF y
  <2>5. B[i].entry <= B[y].entry + B[i].length
    <3>1. CASE i = p
      <4>1. Behind(x, p, y)
        <5>1. InQueue(t, x, y) /\ Steps(t, y) = Steps(t, p) + 1
          BY <1>2, <1>3, <2>4, <3>1, QueueNeighbours, RingSteps DEF y
        <5>2. Steps(t, y) > Steps(t, p)
          <6>1. Steps(t, p) \in Slots
            BY <1>2, RingSteps
          <6> QED
            BY <5>1, <6>1, SizeAssumption DEF Slots
        <5> QED
          BY <1>2, <1>4, <2>4, <5>1, <5>2, QueueBehind
      <4>2. Exit(block_buffer, h, i) = G[y]
        BY <1>6, <2>4 DEF Exit, y
      <4>3. buf[p].entry <= G[NextSlot(p)] + buf[p].length
        BY <2>3, <3>1, <4>2 DEF Safe, y
      <4> QED
        BY <1>7, <3>1, <4>1, <4>3 DEF y
    <3>2. CASE i # p
      <4>1. i # PrevSlot(x) /\ ~ Behind(x, p, y) /\ InQueue(t, x, y)
        BY <1>2, <1>3, <1>4, <1>11, <3>2, BeforePointer DEF y
      <4>2. y # h
        BY <2>1, <4>1
      <4>3. B[y] = block_buffer[y]
        BY <1>1, <1>8, <2>4, <4>1, <4>2 DEF Buffered
      <4>4. Exit(block_buffer, h, i) = block_buffer[y].entry
        BY <2>4, <4>2 DEF Exit, y
      <4> QED
        BY <2>3, <4>3, <4>4 DEF Safe
    <3> QED
      BY <3>1, <3>2
  <2>6. Exit(B, x, i) = B[y].entry
    BY <2>4 DEF Exit, y
  <2> QED
    BY <1>2, <1>5, <1>9, <2>3, <2>5, <2>6 DEF Safe
<1> QED
  BY <1>10, <1>11

\* Slots behind the tail.
LEMMA BehindTail ==
    \A t, h, i \in Slots : t # h => (Behind(h, t, i) <=> InQueue(t, h, i) /\ i # t)
<1> SUFFICES ASSUME NEW t \in Slots, NEW h \in Slots, NEW i \in Slots, t # h
             PROVE  Behind(h, t, i) <=> InQueue(t, h, i) /\ i # t
  OBVIOUS
<1>1. InQueue(t, h, t)
  BY QueueEnds
<1>2. Steps(t, t) = 0 /\ Steps(t, i) \in Slots /\ (Steps(t, i) = 0 <=> i = t)
  <2>1. \A j \in Slots : Steps(j, j) = 0
    BY RingSteps
  <2>2. Steps(t, i) \in Slots /\ (Steps(t, i) = 0 <=> t = i)
    BY RingSteps
  <2> QED
    BY <2>1, <2>2
<1>3. Steps(t, i) > Steps(t, t) <=> i # t
  BY <1>2, SizeAssumption DEF Slots
<1> QED
  BY <1>1, <1>3, QueueBehind

\* So does a plan made anew, if there are speeds that can be braked from.
LEMMA RestartedStops ==
    ASSUME TypeInv, UNCHANGED ring, NEW buf \in Plans, Restarted(buf),
           NEW G \in [Slots -> Nat],
           Brakeable(G, buf, block_buffer_head, block_buffer_tail),
           \A i \in Slots : Queued(i) /\ i # block_buffer_tail => buf[i].max <= buf[i].junction
    PROVE  StopsInv'
<1> DEFINE h == block_buffer_head
           t == block_buffer_tail
           B == Replan(buf, h, t)
<1>1. t \in Slots /\ h \in Slots /\ t' = t /\ h' = h /\ block_buffer' = B
  BY DEF TypeInv, ring, Restarted
<1> SUFFICES ASSUME NEW i \in Slots, Queued(i)', i # t' PROVE Safe(i)'
  BY DEF StopsInv
<1>2. InQueue(t, h, i) /\ Queued(i) /\ i # t /\ t # h
  BY <1>1, QueueNeighbours DEF Queued
<1>3. Behind(h, t, i)
  BY <1>1, <1>2, BehindTail
<1>4. B[i].entry <= B[i].max /\ B[i].entry <= Exit(B, h, i) + B[i].length
  BY <1>1, <1>3, ReplanStops
<1>5. B[i].max <= B[i].junction
  BY <1>1, <1>2, ReplanSlots
<1> HIDE DEF B
<1> QED
  BY <1>1, <1>4, <1>5 DEF Safe

\* At the end of a hold there are: those of the plan before.
LEMMA CycleStopStops == TypeInv /\ StopsInv /\ CycleStop => StopsInv'
<1> SUFFICES ASSUME TypeInv, StopsInv, CycleStop PROVE StopsInv'
  OBVIOUS
<1> DEFINE h == block_buffer_head
           t == block_buffer_tail
           G == Entries(block_buffer)
<1>1. PICK buf \in Plans : Restarted(buf) /\ \A i \in Slots : buf[i].max = block_buffer[i].max
  BY CycleStopShape
<1>2. UNCHANGED ring /\ t \in Slots /\ h \in Slots
  BY DEF CycleStop, TypeInv
<1>3. G \in [Slots -> Nat] /\ \A i \in Slots : G[i] = block_buffer[i].entry
  BY EntriesType DEF TypeInv, Entries
<1> HIDE DEF G
<1>4. CASE Empty
  <2>1. \A i \in Slots : ~ Queued(i)'
    BY <1>2, <1>4, QueueEnds DEF Queued, Empty, ring
  <2> QED
    BY <2>1 DEF StopsInv
<1>5. CASE ~Empty
  <2>1. ASSUME NEW i \in Slots, Behind(h, t, i)
        PROVE  /\ G[i] <= buf[i].max
               /\ G[i] <= (IF i = PrevSlot(h) THEN 0 ELSE G[NextSlot(i)]) + buf[i].length
               /\ buf[i].entry = buf[i].max => G[i] = buf[i].max
    <3>1. Queued(i) /\ i # t
      BY <1>2, <1>5, <2>1, BehindTail DEF Queued, Empty
    <3>2. Safe(i)
      BY <3>1 DEF StopsInv
    <3>3. buf[i].length = block_buffer[i].length /\ buf[i].entry = block_buffer[i].entry
      BY <1>1, <3>1 DEF Restarted
    <3>4. Exit(block_buffer, h, i) = IF i = PrevSlot(h) THEN 0 ELSE G[NextSlot(i)]
      BY <1>3, RingSteps DEF Exit
    <3> QED
      BY <1>1, <1>3, <3>2, <3>3, <3>4 DEF Safe
  <2>2. Brakeable(G, buf, h, t)
    BY <2>1 DEF Brakeable
  <2>3. \A i \in Slots : Queued(i) /\ i # t => buf[i].max <= buf[i].junction
    BY <1>1 DEF StopsInv, Safe, Restarted
  <2> QED
    BY <1>1, <1>2, <1>3, <2>2, <2>3, RestartedStops
<1> QED
  BY <1>4, <1>5

\* One feed rate n in the queue: after the override it bounds every entry speed that was
\* bounded by the feed rate before.
Slowed(n) == [i \in Slots |-> min(block_buffer[i].entry, n)]

\* These can be braked from, if there is one feed rate.
LEMMA CalmBrakes ==
    ASSUME TypeInv, StopsInv, ~Empty, OneSpeedQueued, NEW buf \in Plans, Restarted(buf),
           \A i \in Slots : buf[i].max = Limits(~half)[i].max
    PROVE  LET n == Nominal(Tail, ~half)
           IN /\ n \in Nat
              /\ Slowed(n) \in [Slots -> Nat]
              /\ Brakeable(Slowed(n), buf, block_buffer_head, block_buffer_tail)
              /\ \A i \in Slots : Queued(i) /\ i # block_buffer_tail =>
                   /\ buf[i].max = min(n, buf[i].junction)
                   /\ Nominal(block_buffer[i], ~half) = n
                   /\ Nominal(block_buffer[PrevSlot(i)], ~half) = n
<1> DEFINE h == block_buffer_head
           t == block_buffer_tail
           n == Nominal(Tail, ~half)
           G == Slowed(n)
<1>1. t \in Slots /\ h \in Slots /\ t # h /\ (~half) \in BOOLEAN /\ block_buffer \in Plans
  BY DEF TypeInv, Empty
<1>2. n \in Nat
  <2>1. Tail \in BlockType
    BY <1>1 DEF Tail, Plans
  <2> QED
    BY <1>1, <2>1, LimitsNat
<1>3. \A i \in Slots : /\ block_buffer[i].entry \in Nat /\ block_buffer[i].length \in Nat
                       /\ block_buffer[i].junction \in Nat /\ block_buffer[i].max \in Nat
  BY <1>1 DEF Plans, BlockType
<1>4. \A i \in Slots : Queued(i) => Nominal(block_buffer[i], ~half) = n
  <2>1. \A i \in Slots : Queued(i) => block_buffer[i].nominal = Tail.nominal
    BY DEF OneSpeedQueued, Queued, InQueue, Count
  <2> QED
    BY <2>1 DEF Nominal
<1>5. /\ G \in [Slots -> Nat]
      /\ \A i \in Slots : G[i] \in Nat /\ G[i] = min(block_buffer[i].entry, n)
  <2> HIDE DEF n
  <2>1. \A i \in Slots : min(block_buffer[i].entry, n) \in Nat
    BY <1>2, <1>3 DEF min
  <2> QED
    BY <2>1 DEF Slowed
<1>6. ASSUME NEW i \in Slots, Queued(i), i # t
      PROVE  /\ buf[i].max = min(n, buf[i].junction)
             /\ Nominal(block_buffer[i], ~half) = n
             /\ Nominal(block_buffer[PrevSlot(i)], ~half) = n
  <2>1. Queued(PrevSlot(i)) /\ PrevSlot(i) \in Slots
    BY <1>1, <1>6, QueueNeighbours, RingSteps DEF Queued
  <2>2. Nominal(block_buffer[i], ~half) = n /\ Nominal(block_buffer[PrevSlot(i)], ~half) = n
    BY <1>4, <1>6, <2>1
  <2>3. Limits(~half)[i].max = MaxEntry(Nominal(block_buffer[i], ~half),
                                        Nominal(block_buffer[PrevSlot(i)], ~half),
                                        block_buffer[i].junction)
    BY <1>1, <1>6, LimitsShape
  <2>4. buf[i].max = MaxEntry(n, n, buf[i].junction)
    BY <1>6, <2>2, <2>3 DEF Restarted
  <2>5. MaxEntry(n, n, buf[i].junction) = min(n, buf[i].junction)
    <3> HIDE DEF n
    <3> QED
      BY <1>2 DEF MaxEntry, min
  <2> QED
    BY <2>2, <2>4, <2>5
<1>7. ASSUME NEW i \in Slots, Behind(h, t, i)
      PROVE  /\ G[i] <= buf[i].max
             /\ G[i] <= (IF i = PrevSlot(h) THEN 0 ELSE G[NextSlot(i)]) + buf[i].length
             /\ buf[i].entry = buf[i].max => G[i] = buf[i].max
  <2>1. Queued(i) /\ i # t /\ NextSlot(i) \in Slots
    BY <1>1, <1>7, BehindTail, RingSteps DEF Queued
  <2>2. Safe(i)
    BY <2>1 DEF StopsInv
  <2>3. /\ buf[i].length = block_buffer[i].length /\ buf[i].entry = block_buffer[i].entry
        /\ buf[i].junction = block_buffer[i].junction
    BY <2>1 DEF Restarted
  <2>4. buf[i].max = min(n, block_buffer[i].junction)
    BY <1>6, <2>1, <2>3
  <2>5. G[i] = min(block_buffer[i].entry, n)
        /\ G[NextSlot(i)] = min(block_buffer[NextSlot(i)].entry, n)
    BY <1>5, <2>1
  <2> HIDE DEF n, G
  <2>6. block_buffer[i].entry <= block_buffer[i].junction
    BY <1>3, <2>2 DEF Safe
  <2>7. G[i] <= buf[i].max /\ (buf[i].entry = buf[i].max => G[i] = buf[i].max)
    BY <1>2, <1>3, <2>3, <2>4, <2>5, <2>6 DEF min
  <2>8. G[i] <= (IF i = PrevSlot(h) THEN 0 ELSE G[NextSlot(i)]) + buf[i].length
    <3>1. CASE i = PrevSlot(h)
      <4>1. Exit(block_buffer, h, i) = 0
        BY <3>1 DEF Exit
      <4>2. block_buffer[i].entry <= block_buffer[i].length
        BY <1>3, <2>2, <4>1 DEF Safe
      <4> QED
        BY <1>2, <1>3, <2>3, <2>5, <3>1, <4>2 DEF min
    <3>2. CASE i # PrevSlot(h)
      <4>1. Exit(block_buffer, h, i) = block_buffer[NextSlot(i)].entry
        BY <3>2 DEF Exit
      <4>2. block_buffer[i].entry <= block_buffer[NextSlot(i)].entry + block_buffer[i].length
        BY <2>2, <4>1 DEF Safe
      <4>3. /\ block_buffer[i].entry \in Nat /\ block_buffer[NextSlot(i)].entry \in Nat
            /\ block_buffer[i].length \in Nat
        BY <1>3, <2>1
      <4> QED
        BY <1>2, <2>3, <2>5, <3>2, <4>2, <4>3 DEF min
    <3> QED
      BY <3>1, <3>2
  <2> QED
    BY <2>7, <2>8
<1>8. Brakeable(G, buf, h, t)
  BY <1>7 DEF Brakeable
<1> QED
  BY <1>2, <1>5, <1>6, <1>8

\* An override leaves a plan that stops in time.
LEMMA OverrideStops == TypeInv /\ StopsInv /\ Override /\ OneSpeedQueued => StopsInv'
<1> SUFFICES ASSUME TypeInv, StopsInv, Override, OneSpeedQueued PROVE StopsInv'
  OBVIOUS
<1> DEFINE h == block_buffer_head
           t == block_buffer_tail
           n == Nominal(Tail, ~half)
<1>1. PICK buf \in Plans : Restarted(buf) /\ \A i \in Slots : buf[i].max = Limits(~half)[i].max
  BY OverrideShape
<1>2. UNCHANGED ring /\ t \in Slots /\ h \in Slots
  BY DEF Override, TypeInv
<1>3. CASE Empty
  <2>1. \A i \in Slots : ~ Queued(i)'
    BY <1>2, <1>3, QueueEnds DEF Queued, Empty, ring
  <2> QED
    BY <2>1 DEF StopsInv
<1>4. CASE ~Empty
  <2>1. /\ n \in Nat
        /\ Slowed(n) \in [Slots -> Nat]
        /\ Brakeable(Slowed(n), buf, h, t)
        /\ \A i \in Slots : Queued(i) /\ i # t => buf[i].max = min(n, buf[i].junction)
    BY <1>1, <1>4, CalmBrakes
  <2> DEFINE G == Slowed(n)
  <2>2. G \in [Slots -> Nat] /\ Brakeable(G, buf, h, t)
    BY <2>1
  <2>3. \A i \in Slots : Queued(i) /\ i # t => buf[i].max <= buf[i].junction
    <3> HIDE DEF n
    <3>1. \A i \in Slots : buf[i].junction \in Nat
      BY DEF Plans, BlockType
    <3> QED
      BY <2>1, <3>1 DEF min
  <2> HIDE DEF G
  <2> QED
    BY <1>1, <1>2, <2>2, <2>3, RestartedStops
<1> QED
  BY <1>3, <1>4

\* Changes at the tail, and its discard, leave the entry speeds behind it alone.
LEMMA TailStops ==
    ASSUME TypeInv, StopsInv, block_buffer_tail' \in Slots, block_buffer_head' = block_buffer_head,
           \A i \in Slots : Queued(i)' /\ i # block_buffer_tail' => Queued(i) /\ i # block_buffer_tail,
           \A i \in Slots : i # block_buffer_tail => block_buffer'[i] = block_buffer[i]
    PROVE  StopsInv'
<1> DEFINE h == block_buffer_head
           t == block_buffer_tail
<1> SUFFICES ASSUME NEW i \in Slots, Queued(i)', i # t' PROVE Safe(i)'
  BY DEF StopsInv
<1>1. Queued(i) /\ i # t /\ Safe(i) /\ t \in Slots /\ h \in Slots
  BY DEF StopsInv, TypeInv
<1>2. NextSlot(i) \in Slots /\ NextSlot(i) # t
  BY <1>1, QueueNeighbours, RingSteps DEF Queued
<1>3. Exit(block_buffer', h', i) = Exit(block_buffer, h, i)
  BY <1>2 DEF Exit
<1> QED
  BY <1>1, <1>3 DEF Safe

\* Execution does.
LEMMA AdvanceStops == TypeInv /\ StopsInv /\ Advance => StopsInv'
<1> SUFFICES ASSUME TypeInv, StopsInv, Advance PROVE StopsInv'
  OBVIOUS
<1> DEFINE left == Tail.length - 1
           t == block_buffer_tail
           h == block_buffer_head
<1>1. /\ pl_block /\ ~Empty /\ h' = h /\ t \in Slots /\ h \in Slots
      /\ UNCHANGED << block_buffer_head, next_buffer_head >>
  BY DEF Advance, TypeInv
<1>2. CASE left = 0
  <2>1. /\ block_buffer' = [block_buffer EXCEPT ![t] = NoBlock]
        /\ t' = NextSlot(t) /\ block_buffer_planned' = PushedPlanned
    BY <1>2 DEF Advance
  <2>2. /\ t' \in Slots
        /\ \A i \in Slots : Queued(i)' <=> Queued(i) /\ i # t
        /\ \A i \in Slots : i # t => block_buffer'[i] = block_buffer[i]
    BY <1>1, <2>1, DiscardType
  <2> QED
    BY <1>1, <2>2, TailStops
<1>3. CASE left # 0
  <2>1. /\ block_buffer' = [block_buffer EXCEPT ![t] = [Tail EXCEPT !.length = left]]
        /\ UNCHANGED << pl_block, block_buffer_tail, block_buffer_planned >>
    BY <1>3 DEF Advance
  <2>2. \A i \in Slots : i # t => block_buffer'[i] = block_buffer[i]
    BY <2>1 DEF TypeInv, Plans
  <2>3. \A i \in Slots : Queued(i)' = Queued(i)
    BY <1>1, <2>1 DEF Queued
  <2> QED
    BY <1>1, <2>1, <2>2, <2>3, TailStops
<1> QED
  BY <1>2, <1>3

\* The other steps do.
LEMMA OthersStop ==
    ASSUME TypeInv, StopsInv,
           \/ BeginHold \/ CycleStart \/ Reset \/ Load \/ Reload \/ EndMotion \/ UNCHANGED vars
    PROVE  StopsInv'
<1>1. CASE Reset
  <2>1. Empty' /\ 0 \in Slots /\ block_buffer_tail' = 0 /\ block_buffer_head' = 0
    BY <1>1, SizeAssumption DEF Reset, Empty, Slots
  <2>2. \A i \in Slots : ~ Queued(i)'
    BY <2>1, QueueEnds DEF Queued
  <2> QED
    BY <2>2 DEF StopsInv
<1>2. CASE BeginHold \/ CycleStart \/ Load \/ Reload \/ EndMotion \/ UNCHANGED vars
  <2>1. UNCHANGED ring /\ \A i \in Slots : i # block_buffer_tail => block_buffer'[i] = block_buffer[i]
    <3>1. CASE BeginHold
      BY <3>1 DEF BeginHold, Updated, TypeInv, Plans
    <3>2. CASE Load
      BY <3>2 DEF Load, TypeInv, Plans
    <3>3. CASE CycleStart \/ Reload \/ EndMotion \/ UNCHANGED vars
      BY <3>3 DEF CycleStart, Reload, EndMotion, vars, plan
    <3> QED
      BY <1>2, <3>1, <3>2, <3>3
  <2>2. /\ block_buffer_tail' = block_buffer_tail /\ block_buffer_head' = block_buffer_head
        /\ block_buffer_tail \in Slots
    BY <2>1 DEF ring, TypeInv
  <2>3. \A i \in Slots : Queued(i)' = Queued(i)
    BY <2>2 DEF Queued
  <2> QED
    BY <2>1, <2>2, <2>3, TailStops
<1> QED
  BY <1>1, <1>2

\* The plan goes on stopping in time.
LEMMA NextStops ==
    TypeInv /\ StopsInv /\ [Next /\ (Override => OneSpeedQueued)]_vars => StopsInv'
  BY BufferLineStops, OverrideStops, CycleStopStops, AdvanceStops, OthersStop DEF Next

\* Nothing is queued initially.
LEMMA InitStops == Init => StopsInv
<1> SUFFICES ASSUME Init PROVE StopsInv
  OBVIOUS
<1>1. Empty /\ 0 \in Slots
  BY SizeAssumption DEF Init, Empty, Slots
<1>2. \A i \in Slots : ~ Queued(i)
  BY <1>1, QueueEnds DEF Queued, Init
<1> QED
  BY <1>2 DEF StopsInv

\* StopsInv is PlanStopsInTime.
LEMMA StopsInvImplies == TypeInv /\ StopsInv => PlanStopsInTime
<1> SUFFICES ASSUME TypeInv, StopsInv, NEW k \in 1 .. Count - 1
             PROVE  /\ Block(k).entry <= Block(k).max
                    /\ Block(k).entry <= ExitOf(k) + Block(k).length
  BY DEF PlanStopsInTime
<1> DEFINE i == Forth(block_buffer_tail, k)
<1>1. /\ i \in Slots /\ Queued(i) /\ i # block_buffer_tail
      /\ Block(k) = block_buffer[i]
      /\ ExitOf(k) = Exit(block_buffer, block_buffer_head, i)
  BY QueuedBlock
<1> HIDE DEF i
<1>2. Safe(i)
  BY <1>1 DEF StopsInv
<1> QED
  BY <1>1, <1>2 DEF Safe

\* As long as the override is changed only while one feed rate is queued, the machine can
\* always stop at the end of the queue: no junction is planned faster than its limit, nor
\* faster than the rest of the queue brakes.
THEOREM PlanStops ==
    Init /\ [][Next /\ (Override => OneSpeedQueued)]_vars => []PlanStopsInTime
<1>1. Init => TypeInv /\ StopsInv
  BY InitType, InitStops
<1>2. /\ TypeInv /\ StopsInv
      /\ [Next /\ (Override => OneSpeedQueued)]_vars
      => (TypeInv /\ StopsInv)'
  BY NextType, NextStops
<1> QED
  BY <1>1, <1>2, StopsInvImplies, PTL

\* What is queued was programmed.
FeedInv == \A i \in Slots : Queued(i) => block_buffer[i].nominal \in Nominals

\* No step changes the programmed speed of a block.
LEMMA NextFeed == TypeInv /\ FeedInv /\ [Next]_vars => FeedInv'
<1> SUFFICES ASSUME TypeInv, FeedInv, [Next]_vars PROVE FeedInv'
  OBVIOUS
<1> DEFINE h == block_buffer_head
           t == block_buffer_tail
<1>1. t \in Slots /\ h \in Slots /\ block_buffer \in Plans
  BY DEF TypeInv
<1>2. ASSUME UNCHANGED ring,
             \A i \in Slots : block_buffer'[i].nominal = block_buffer[i].nominal
      PROVE  FeedInv'
  BY <1>2 DEF FeedInv, Queued, ring
<1>3. ASSUME UNCHANGED ring, NEW buf \in Plans, Restarted(buf) PROVE FeedInv'
  <2>1. \A i \in Slots : Replan(buf, h, t)[i].nominal = buf[i].nominal
    BY <1>1, ReplanSlots
  <2>2. \A i \in Slots : block_buffer'[i].nominal = block_buffer[i].nominal
    BY <1>3, <2>1 DEF Restarted
  <2> QED
    BY <1>2, <1>3, <2>2
<1>4. CASE BufferLine
  <2> DEFINE p == block_buffer_planned
             x == next_buffer_head
  <2>1. PICK buf \in Plans : Buffered(buf)
    BY <1>4, BufferLineShape
  <2>2. /\ x = NextSlot(h) /\ x \in Slots /\ p \in Slots /\ x # t /\ t' = t /\ h' = x
    BY <1>1, <1>4, RingSteps DEF TypeInv, BufferLine, Full
  <2>3. \A i \in Slots : block_buffer'[i].nominal = buf[i].nominal
    BY <2>1, <2>2, ReplanSlots DEF Buffered
  <2>4. \A i \in Slots : Queued(i)' => Queued(i) \/ i = h
    BY <1>1, <2>2, QueueMoves DEF Queued
  <2>5. buf[h].nominal \in Nominals
        /\ \A i \in Slots : i # h => buf[i].nominal = block_buffer[i].nominal
    BY <2>1 DEF Buffered, SameBlock
  <2> QED
    BY <2>3, <2>4, <2>5 DEF FeedInv
<1>5. CASE Override
  <2>1. \E buf \in Plans : Restarted(buf)
    BY <1>5, OverrideShape
  <2> QED
    BY <1>3, <1>5, <2>1 DEF Override
<1>6. CASE CycleStop
  <2>1. \E buf \in Plans : Restarted(buf)
    BY <1>6, CycleStopShape
  <2> QED
    BY <1>3, <1>6, <2>1 DEF CycleStop
<1>7. CASE Reset
  <2>1. 0 \in Slots /\ t' = 0 /\ h' = 0
    BY <1>7, SizeAssumption DEF Reset, Slots
  <2>2. \A i \in Slots : ~ Queued(i)'
    BY <2>1, QueueEnds DEF Queued
  <2> QED
    BY <2>2 DEF FeedInv
<1>8. CASE Advance
  <2>1. ~Empty /\ h' = h
    BY <1>8 DEF Advance, TypeInv
  <2>2. CASE Tail.length - 1 = 0
    <3>1. \A i \in Slots : /\ Queued(i)' => Queued(i) /\ i # t
                           /\ i # t => block_buffer'[i] = block_buffer[i]
      BY <1>8, <2>1, <2>2, DiscardType DEF Advance
    <3> QED
      BY <3>1 DEF FeedInv
  <2>3. CASE Tail.length - 1 # 0
    <3> DEFINE b == [Tail EXCEPT !.length = Tail.length - 1]
    <3>1. UNCHANGED ring /\ block_buffer' = [block_buffer EXCEPT ![t] = b]
      BY <1>8, <2>3 DEF Advance, ring
    <3>2. b.nominal = block_buffer[t].nominal
      BY <1>1 DEF Tail, Plans, BlockType
    <3> HIDE DEF b
    <3>3. \A i \in Slots : block_buffer'[i].nominal = block_buffer[i].nominal
      BY <1>1, <3>1, <3>2 DEF Plans
    <3> QED
      BY <1>2, <3>1, <3>3
  <2> QED
    BY <2>2, <2>3
\* Steps that give the block at the tail another entry speed at most.
<1>9. CASE BeginHold \/ Load \/ CycleStart \/ Reload \/ EndMotion \/ UNCHANGED vars
  <2>1. UNCHANGED ring
        /\ \/ block_buffer' = block_buffer
           \/ \E v \in Nat : block_buffer' = [block_buffer EXCEPT ![t].entry = v]
    <3>1. CASE BeginHold
      BY <3>1 DEF BeginHold, Updated, TypeInv
    <3>2. CASE Load
      <4> DEFINE e == IF hold = "execute" \/ decel_override THEN exit_speed ELSE Tail.entry
      <4>1. e \in Nat
        BY <1>1 DEF TypeInv, Tail, Plans, BlockType
      <4>2. UNCHANGED ring /\ block_buffer' = [block_buffer EXCEPT ![t].entry = e]
        BY <3>2 DEF Load
      <4> HIDE DEF e
      <4> QED
        BY <4>1, <4>2
    <3>3. CASE CycleStart \/ Reload \/ EndMotion \/ UNCHANGED vars
      BY <3>3 DEF CycleStart, Reload, EndMotion, vars, plan
    <3> QED
      BY <1>9, <3>1, <3>2, <3>3
  <2>2. ASSUME NEW v \in Nat, block_buffer' = [block_buffer EXCEPT ![t].entry = v], NEW i \in Slots
        PROVE  block_buffer'[i].nominal = block_buffer[i].nominal
    BY <1>1, <2>2, SetEntry DEF SameBlock
  <2>3. \A i \in Slots : block_buffer'[i].nominal = block_buffer[i].nominal
    BY <2>1, <2>2
  <2> QED
    BY <1>2, <2>1, <2>3
<1> QED
  BY <1>4, <1>5, <1>6, <1>7, <1>8, <1>9 DEF Next

\* With one programmed feed rate the override may change at any time.
THEOREM OneFeedRateStops ==
    ASSUME \A m, n \in Nominals : m = n
    PROVE  Spec => []PlanStopsInTime
<1>1. Init => TypeInv /\ StopsInv /\ FeedInv
  <2>1. Init => FeedInv
    <3> SUFFICES ASSUME Init PROVE FeedInv
      OBVIOUS
    <3>1. Empty /\ 0 \in Slots
      BY SizeAssumption DEF Init, Empty, Slots
    <3>2. \A i \in Slots : ~ Queued(i)
      BY <3>1, QueueEnds DEF Queued, Init
    <3> QED
      BY <3>2 DEF FeedInv
  <2> QED
    BY <2>1, InitType, InitStops
<1>2. TypeInv /\ FeedInv => OneSpeedQueued
  <2> SUFFICES ASSUME TypeInv, FeedInv, NEW i \in Slots,
                      Steps(block_buffer_tail, i) < Count
               PROVE  block_buffer[i].nominal = Tail.nominal
    BY DEF OneSpeedQueued
  <2>1. Queued(i)
    BY DEF Queued, InQueue, Count
  <2>2. block_buffer_tail \in Slots /\ block_buffer_head \in Slots
        /\ block_buffer_tail # block_buffer_head
    BY <2>1, QueueNeighbours DEF TypeInv, Queued
  <2>3. Queued(block_buffer_tail)
    BY <2>2, QueueEnds DEF Queued
  <2> QED
    BY <2>1, <2>2, <2>3 DEF FeedInv, Tail
<1>3. TypeInv /\ StopsInv /\ FeedInv /\ [Next]_vars => (TypeInv /\ StopsInv /\ FeedInv)'
  BY <1>2, NextType, NextStops, NextFeed
<1> QED
  BY <1>1, <1>3, StopsInvImplies, PTL DEF Spec

-----------------------------------------------------------------------------
(* A replanned queue is no slower than any plan that keeps to the limits.  *)

\* Slots behind the planned one are counted from it: a set that holds the first of them and
\* with every slot the next one holds them all.
LEMMA OnFromPlanned ==
    ASSUME NEW head \in Slots, NEW planned \in Slots, NEW S,
           \A i \in Slots : Behind(head, planned, i) /\ PrevSlot(i) = planned => i \in S,
           \A i \in Slots : /\ Behind(head, planned, i) /\ PrevSlot(i) # planned
                            /\ Behind(head, planned, PrevSlot(i)) /\ PrevSlot(i) \in S
                            => i \in S
    PROVE  \A i \in Slots : Behind(head, planned, i) => i \in S
<1> DEFINE n == Plannable(head, planned)
           T == {k \in 0 .. n : \A i \in Slots :
                   Behind(head, planned, i) /\ Steps(planned, i) = k => i \in S}
<1> SUFFICES ASSUME NEW i \in Slots, Behind(head, planned, i) PROVE i \in S
  OBVIOUS
<1>1. \A j \in Slots : Behind(head, planned, j) =>
        /\ n \in Nat /\ Steps(planned, j) \in 1 .. n
        /\ Steps(planned, PrevSlot(j)) = Steps(planned, j) - 1
        /\ Steps(planned, j) = 1 <=> PrevSlot(j) = planned
  BY BehindSteps
<1>2. n \in Nat /\ Steps(planned, i) \in 1 .. n
  BY <1>1
<1>3. 0 \in T
  <2>1. \A j \in Slots : Behind(head, planned, j) /\ Steps(planned, j) = 0 => j \in S
    BY <1>1
  <2> QED
    BY <1>2, <2>1
<1>4. ASSUME NEW k \in 1 .. n, k - 1 \in T PROVE k \in T
  <2>1. ASSUME NEW j \in Slots, Behind(head, planned, j), Steps(planned, j) = k
        PROVE  j \in S
    <3>1. /\ n \in Nat /\ Steps(planned, j) \in 1 .. n
          /\ Steps(planned, PrevSlot(j)) = Steps(planned, j) - 1
          /\ Steps(planned, j) = 1 <=> PrevSlot(j) = planned
      BY <1>1, <2>1
    <3>2. PrevSlot(j) \in Slots
      BY RingSteps
    <3>3. CASE PrevSlot(j) = planned
      BY <2>1, <3>3
    <3>4. CASE PrevSlot(j) # planned
      <4>1. Steps(planned, PrevSlot(j)) = k - 1 /\ k - 1 \in 1 .. n
        BY <2>1, <3>1, <3>4
      <4>2. Behind(head, planned, PrevSlot(j))
        BY <4>1 DEF Behind
      <4>3. PrevSlot(j) \in S
        BY <1>4, <3>2, <4>1, <4>2
      <4> QED
        BY <2>1, <3>4, <4>2, <4>3
    <3> QED
      BY <3>3, <3>4
  <2>2. k \in 0 .. n
    BY <1>2
  <2> QED
    BY <2>1, <2>2
<1>5. \A k \in 0 .. n : k \in T
  <2> HIDE DEF T, n
  <2> QED
    BY <1>2, <1>3, <1>4, UpTo
<1>6. Steps(planned, i) \in 0 .. n
  BY <1>2
<1> QED
  BY <1>5, <1>6

\* Speeds G that acceleration reaches slot by slot.
Reachable(G, buf, head, planned) ==
    \A i \in Slots : Behind(head, planned, i) =>
      G[i] <= (IF PrevSlot(i) = planned THEN buf[planned].entry ELSE G[PrevSlot(i)])
              + buf[PrevSlot(i)].length

\* Speeds that can be both reached and braked from are not faster than the plan.
LEMMA ReplanImproves ==
    \A buf \in Plans, head, planned \in Slots, G \in [Slots -> Nat] :
      Brakeable(G, buf, head, planned) /\ Reachable(G, buf, head, planned) =>
        \A i \in Slots : Behind(head, planned, i) =>
          G[i] <= Replan(buf, head, planned)[i].entry
<1> SUFFICES ASSUME NEW buf \in Plans, NEW head \in Slots, NEW planned \in Slots,
                    NEW G \in [Slots -> Nat],
                    Brakeable(G, buf, head, planned), Reachable(G, buf, head, planned)
             PROVE  \A i \in Slots : Behind(head, planned, i) =>
                      G[i] <= Replan(buf, head, planned)[i].entry
  OBVIOUS
<1> DEFINE B == Replan(buf, head, planned)
           R(i) == Rev(buf, head, planned, i)
           S == {i \in Slots : G[i] <= B[i].entry}
<1>1. ASSUME NEW i \in Slots, Behind(head, planned, i)
      PROVE  /\ R(i) \in Nat /\ G[i] \in Nat /\ G[i] <= R(i) /\ PrevSlot(i) \in Slots
             /\ B[i].entry = min(R(i), B[PrevSlot(i)].entry + B[PrevSlot(i)].length)
             /\ B[PrevSlot(i)].entry \in Nat /\ B[PrevSlot(i)].length \in Nat
             /\ B[PrevSlot(i)].length = buf[PrevSlot(i)].length
             /\ G[PrevSlot(i)] \in Nat
  <2>1. R(i) \in Nat
        /\ B[i].entry = min(R(i), B[PrevSlot(i)].entry + B[PrevSlot(i)].length)
    BY <1>1, ReplanForward
  <2>2. G[i] <= R(i)
    BY <1>1, ReverseBrakes
  <2>3. PrevSlot(i) \in Slots
    BY RingSteps
  <2>4. B[PrevSlot(i)] \in BlockType /\ B[PrevSlot(i)].length = buf[PrevSlot(i)].length
    BY <2>3, ReplanSlots
  <2>5. B[PrevSlot(i)].entry \in Nat /\ B[PrevSlot(i)].length \in Nat
    BY <2>4 DEF BlockType
  <2> QED
    BY <2>1, <2>2, <2>3, <2>4, <2>5
<1>2. ASSUME NEW i \in Slots, Behind(head, planned, i), PrevSlot(i) = planned
      PROVE  i \in S
  <2>1. G[i] <= buf[planned].entry + buf[PrevSlot(i)].length
    BY <1>2 DEF Reachable
  <2>2. B[PrevSlot(i)].entry = buf[planned].entry
    <3>1. ~ Behind(head, planned, planned)
      BY RingSteps DEF Behind
    <3>2. B[planned] = buf[planned]
      BY <3>1, ReplanSlots
    <3> QED
      BY <1>2, <3>2
  <2>3. /\ R(i) \in Nat /\ G[i] \in Nat /\ G[i] <= R(i)
        /\ B[i].entry = min(R(i), B[PrevSlot(i)].entry + B[PrevSlot(i)].length)
        /\ B[PrevSlot(i)].entry \in Nat /\ B[PrevSlot(i)].length \in Nat
        /\ B[PrevSlot(i)].length = buf[PrevSlot(i)].length
    BY <1>1, <1>2
  <2> HIDE DEF B, R
  <2>4. G[i] <= B[i].entry
    BY <2>1, <2>2, <2>3 DEF min
  <2> QED
    BY <2>4
<1>3. ASSUME NEW i \in Slots, Behind(head, planned, i), PrevSlot(i) # planned,
             PrevSlot(i) \in S
      PROVE  i \in S
  <2>1. G[i] <= G[PrevSlot(i)] + buf[PrevSlot(i)].length
    BY <1>3 DEF Reachable
  <2>2. G[PrevSlot(i)] <= B[PrevSlot(i)].entry
    BY <1>3
  <2>3. /\ R(i) \in Nat /\ G[i] \in Nat /\ G[i] <= R(i)
        /\ B[i].entry = min(R(i), B[PrevSlot(i)].entry + B[PrevSlot(i)].length)
        /\ B[PrevSlot(i)].entry \in Nat /\ B[PrevSlot(i)].length \in Nat
        /\ B[PrevSlot(i)].length = buf[PrevSlot(i)].length
        /\ G[PrevSlot(i)] \in Nat
    BY <1>1, <1>3
  <2> HIDE DEF B, R
  <2>4. G[i] <= B[i].entry
    BY <2>1, <2>2, <2>3 DEF min
  <2> QED
    BY <2>4
<1>4. \A i \in Slots : Behind(head, planned, i) => i \in S
  <2> HIDE DEF S
  <2> QED
    BY <1>2, <1>3, OnFromPlanned
<1> QED
  BY <1>4

\* After a recalculation no planned slot is left faster than acceleration allows, nor is the
\* one at the pointer.
LEMMA ReplanReaches ==
    \A buf \in Plans, head, planned, i \in Slots :
      Behind(head, planned, NextSlot(i)) \/ i = PrevSlot(head) =>
        LET B == Replan(buf, head, planned)
        IN Exit(B, head, i) <= B[i].entry + B[i].length
<1> SUFFICES ASSUME NEW buf \in Plans, NEW head \in Slots, NEW planned \in Slots, NEW i \in Slots,
                    Behind(head, planned, NextSlot(i)) \/ i = PrevSlot(head)
             PROVE  LET B == Replan(buf, head, planned)
                    IN Exit(B, head, i) <= B[i].entry + B[i].length
  OBVIOUS
<1> DEFINE B == Replan(buf, head, planned)
           y == NextSlot(i)
           r == Rev(buf, head, planned, y)
<1>1. B[i].entry \in Nat /\ B[i].length \in Nat
  BY ReplanSlots DEF BlockType
<1>2. ASSUME i = PrevSlot(head)
      PROVE  Exit(B, head, i) <= B[i].entry + B[i].length
  <2>1. Exit(B, head, i) = 0
    BY <1>2 DEF Exit
  <2> HIDE DEF B
  <2> QED
    BY <1>1, <2>1
<1>3. ASSUME i # PrevSlot(head)
      PROVE  Exit(B, head, i) <= B[i].entry + B[i].length
  <2>1. Behind(head, planned, y) /\ y \in Slots /\ PrevSlot(y) = i
    BY <1>3, RingSteps
  <2>2. r \in Nat /\ B[y].entry = min(r, B[PrevSlot(y)].entry + B[PrevSlot(y)].length)
    BY <2>1, ReplanForward
  <2>3. r \in Nat /\ B[y].entry = min(r, B[i].entry + B[i].length)
    BY <2>1, <2>2
  <2>4. Exit(B, head, i) = B[y].entry
    BY <1>3 DEF Exit
  <2> HIDE DEF B, y, r
  <2> QED
    BY <1>1, <2>3, <2>4 DEF min
<1> HIDE DEF B
<1> QED
  BY <1>2, <1>3 DEF B

-----------------------------------------------------------------------------
(* The speed of the machine.                                               *)

\* The machine runs after the plan, or will when the hold ends.
Planned == hold \in {"none", "rest"}

\* Limits come from the feed rates on either side; no block accelerates beyond what its
\* length allows.
PlanInv ==
    /\ \A i \in Slots : Queued(i) /\ i # block_buffer_tail =>
         /\ block_buffer[i].max <= Nominal(block_buffer[PrevSlot(i)], half)
         /\ Exit(block_buffer, block_buffer_head, i)
              <= block_buffer[i].entry + block_buffer[i].length
    /\ ~Empty => previous_nominal = Nominal(block_buffer[PrevSlot(block_buffer_head)], half)

\* At rest nothing moves; a hold rests within a block.
RestInv ==
    /\ Empty => current_speed = 0 /\ ~recalculate
    /\ hold \in {"end", "rest"} => current_speed = 0 /\ (pl_block \/ recalculate)
    /\ hold = "rest" => ~pl_block

\* Between two blocks: the entry speed of the next is the speed of the machine, but for a
\* machine that is still coming down to a lowered feed rate or to a hold.
EntryInv ==
    /\ ~pl_block /\ ~recalculate => exit_speed = current_speed
    /\ ~Empty /\ ~pl_block /\ (recalculate \/ Planned) =>
         /\ Tail.entry <= current_speed
         /\ recalculate \/ ~decel_override => Tail.entry = current_speed
    /\ ~Empty /\ ~pl_block /\ Planned =>
         Exit(block_buffer, block_buffer_head, block_buffer_tail) <= Tail.entry + Tail.length

\* Within a block: what is left of it is enough to come to its exit speed.
ProfileInv ==
    /\ pl_block /\ hold = "none" =>
         /\ current_speed <= exit_speed + Tail.length
         /\ exit_speed <= current_speed + Tail.length
         /\ decel_override => /\ current_speed = exit_speed + Tail.length
                              /\ Nominal(Tail, half) <= exit_speed
         /\ ~decel_override =>
              exit_speed = Exit(block_buffer, block_buffer_head, block_buffer_tail)
    /\ pl_block /\ hold = "execute" =>
         \/ current_speed = exit_speed + Tail.length
         \/ exit_speed = 0 /\ current_speed <= Tail.length

\* The speed at which the slot i is left when slots are entered at the speeds G.
Leave(G, i) == IF i = PrevSlot(block_buffer_head) THEN 0 ELSE G[NextSlot(i)]

\* Speeds G for the blocks that queue: at most those of the plan, unless the plan takes the
\* junction at the lowered feed rate.
Passable(G, i) ==
    /\ G[i] <= Leave(G, i) + block_buffer[i].length
    /\ Leave(G, i) <= G[i] + block_buffer[i].length
    /\ G[i] <= block_buffer[i].junction
    /\ Planned => \/ G[i] <= block_buffer[i].entry
                  \/ Nominal(block_buffer[PrevSlot(i)], half) <= block_buffer[i].entry

\* The machine can brake along the speeds G.
Brakes(G) ==
    /\ \A i \in Slots : Queued(i) /\ i # block_buffer_tail => Passable(G, i)
    /\ ~Empty => current_speed <= Leave(G, block_buffer_tail) + Tail.length

\* The machine can brake to a stop within the queue, though perhaps not as slowly as planned.
BrakeInv == \E G \in [Slots -> Nat] : Brakes(G)

\* The parts together.
SpeedInv == PlanInv /\ RestInv /\ EntryInv /\ ProfileInv /\ BrakeInv

\* The numbers that the arguments below compare.
LEMMA SpeedTypes ==
    TypeInv =>
      /\ current_speed \in Nat /\ exit_speed \in Nat
      /\ Tail \in BlockType /\ Tail.entry \in Nat /\ Tail.length \in Nat
      /\ Nominal(Tail, half) \in Nat
      /\ \A i \in Slots :
           /\ block_buffer[i] \in BlockType
           /\ block_buffer[i].entry \in Nat /\ block_buffer[i].length \in Nat
           /\ block_buffer[i].max \in Nat /\ block_buffer[i].junction \in Nat
           /\ Nominal(block_buffer[i], half) \in Nat
           /\ Exit(block_buffer, block_buffer_head, i) \in Nat
           /\ \A G \in [Slots -> Nat] : Leave(G, i) \in Nat
<1> SUFFICES ASSUME TypeInv
             PROVE  /\ current_speed \in Nat /\ exit_speed \in Nat
                    /\ Tail \in BlockType /\ Tail.entry \in Nat /\ Tail.length \in Nat
                    /\ Nominal(Tail, half) \in Nat
                    /\ \A i \in Slots :
                         /\ block_buffer[i] \in BlockType
                         /\ block_buffer[i].entry \in Nat /\ block_buffer[i].length \in Nat
                         /\ block_buffer[i].max \in Nat /\ block_buffer[i].junction \in Nat
                         /\ Nominal(block_buffer[i], half) \in Nat
                         /\ Exit(block_buffer, block_buffer_head, i) \in Nat
                         /\ \A G \in [Slots -> Nat] : Leave(G, i) \in Nat
  OBVIOUS
<1>1. ASSUME NEW i \in Slots
      PROVE  /\ block_buffer[i] \in BlockType
             /\ block_buffer[i].entry \in Nat /\ block_buffer[i].length \in Nat
             /\ block_buffer[i].max \in Nat /\ block_buffer[i].junction \in Nat
             /\ Nominal(block_buffer[i], half) \in Nat
  BY LimitsNat DEF TypeInv, Plans, BlockType
<1>2. ASSUME NEW i \in Slots
      PROVE  /\ Exit(block_buffer, block_buffer_head, i) \in Nat
             /\ \A G \in [Slots -> Nat] : Leave(G, i) \in Nat
  <2>1. NextSlot(i) \in Slots
    BY RingSteps
  <2> QED
    BY <1>1, <2>1 DEF Exit, Leave
<1>3. block_buffer_tail \in Slots /\ current_speed \in Nat /\ exit_speed \in Nat
  BY DEF TypeInv
<1> QED
  BY <1>1, <1>2, <1>3 DEF Tail

\* A machine that can come to the planned speed of the next block brakes after the plan.
LEMMA PlanBrakes ==
    /\ TypeInv /\ StopsInv /\ PlanInv
    /\ ~Empty => current_speed <= Exit(block_buffer, block_buffer_head, block_buffer_tail)
                                  + Tail.length
    => BrakeInv
<1> SUFFICES ASSUME TypeInv, StopsInv, PlanInv,
                    ~Empty => current_speed
                                <= Exit(block_buffer, block_buffer_head, block_buffer_tail)
                                   + Tail.length
             PROVE  BrakeInv
  OBVIOUS
<1> DEFINE G == Entries(block_buffer)
<1>1. G \in [Slots -> Nat] /\ \A i \in Slots : G[i] = block_buffer[i].entry
  BY EntriesType DEF TypeInv, Entries
<1> HIDE DEF G
<1>2. \A i \in Slots : Leave(G, i) = Exit(block_buffer, block_buffer_head, i)
  BY <1>1, RingSteps DEF Leave, Exit
<1>3. ASSUME NEW i \in Slots, Queued(i), i # block_buffer_tail PROVE Passable(G, i)
  <2>1. Safe(i)
    BY <1>3 DEF StopsInv
  <2>2. Exit(block_buffer, block_buffer_head, i) <= block_buffer[i].entry + block_buffer[i].length
    BY <1>3 DEF PlanInv
  <2>3. block_buffer[i].entry \in Nat /\ block_buffer[i].max \in Nat
        /\ block_buffer[i].junction \in Nat
    BY SpeedTypes
  <2>4. block_buffer[i].entry <= block_buffer[i].junction
    BY <2>1, <2>3 DEF Safe
  <2> QED
    BY <1>1, <1>2, <2>1, <2>2, <2>3, <2>4 DEF Passable, Safe
<1>4. block_buffer_tail \in Slots
  BY DEF TypeInv
<1>5. Brakes(G)
  BY <1>2, <1>3, <1>4 DEF Brakes
<1> QED
  BY <1>1, <1>5 DEF BrakeInv

\* A step that changes the block at the tail alone, and not its feed rate.
TailStep ==
    /\ UNCHANGED << ring, previous_nominal, half >>
    /\ \A i \in Slots : i # block_buffer_tail => block_buffer'[i] = block_buffer[i]
    /\ Tail'.nominal = Tail.nominal

\* What it leaves alone.
LEMMA TailStepKeeps ==
    ASSUME TypeInv, TailStep
    PROVE  /\ block_buffer_tail' = block_buffer_tail /\ block_buffer_head' = block_buffer_head
           /\ block_buffer_tail \in Slots /\ block_buffer_head \in Slots
           /\ Empty' = Empty
           /\ half' = half /\ previous_nominal' = previous_nominal
           /\ \A i \in Slots :
                /\ Queued(i)' = Queued(i)
                /\ Nominal(block_buffer[i], half)' = Nominal(block_buffer[i], half)
                /\ \A G : Leave(G, i)' = Leave(G, i)
                /\ Queued(i) =>
                     Exit(block_buffer, block_buffer_head, i)'
                       = Exit(block_buffer, block_buffer_head, i)
<1> DEFINE t == block_buffer_tail
           h == block_buffer_head
<1>1. t' = t /\ h' = h /\ half' = half /\ previous_nominal' = previous_nominal
      /\ t \in Slots /\ h \in Slots
  BY DEF TailStep, ring, TypeInv
<1>2. Empty' = Empty /\ \A i \in Slots : Queued(i)' = Queued(i)
  BY <1>1 DEF Empty, Queued
<1>3. ASSUME NEW i \in Slots
      PROVE  /\ Nominal(block_buffer[i], half)' = Nominal(block_buffer[i], half)
             /\ \A G : Leave(G, i)' = Leave(G, i)
             /\ Queued(i) => Exit(block_buffer, h, i)' = Exit(block_buffer, h, i)
  <2>1. block_buffer'[i].nominal = block_buffer[i].nominal
    <3>1. CASE i = t
      BY <1>1, <3>1 DEF TailStep, Tail
    <3>2. CASE i # t
      BY <3>2 DEF TailStep
    <3> QED
      BY <3>1, <3>2
  <2>2. Nominal(block_buffer[i], half)' = Nominal(block_buffer[i], half)
    BY <1>1, <2>1 DEF Nominal
  <2>3. \A G : Leave(G, i)' = Leave(G, i)
    BY <1>1 DEF Leave
  <2>4. ASSUME Queued(i) PROVE Exit(block_buffer, h, i)' = Exit(block_buffer, h, i)
    <3>1. NextSlot(i) \in Slots /\ NextSlot(i) # t
      BY <1>1, <2>4, QueueNeighbours, RingSteps DEF Queued
    <3> QED
      BY <1>1, <3>1 DEF Exit, TailStep
  <2> QED
    BY <2>2, <2>3, <2>4
<1> QED
  BY <1>1, <1>2, <1>3

\* PlanInv is not about the tail.
LEMMA TailPlan ==
    ASSUME TypeInv, PlanInv, TailStep
    PROVE  PlanInv'
<1> DEFINE t == block_buffer_tail
           h == block_buffer_head
<1>1. /\ t' = t /\ h' = h /\ Empty' = Empty /\ half' = half /\ t \in Slots /\ h \in Slots
      /\ previous_nominal' = previous_nominal
      /\ \A i \in Slots : /\ Queued(i)' = Queued(i)
                          /\ Nominal(block_buffer[i], half)' = Nominal(block_buffer[i], half)
                          /\ Queued(i) => Exit(block_buffer, h, i)' = Exit(block_buffer, h, i)
  BY TailStepKeeps
<1>2. ASSUME NEW i \in Slots, Queued(i)', i # t'
      PROVE  /\ block_buffer'[i].max <= Nominal(block_buffer[PrevSlot(i)], half)'
             /\ Exit(block_buffer, h, i)' <= block_buffer'[i].entry + block_buffer'[i].length
  <2>1. Queued(i) /\ i # t /\ PrevSlot(i) \in Slots /\ block_buffer'[i] = block_buffer[i]
    BY <1>1, <1>2, RingSteps DEF TailStep
  <2> QED
    BY <1>1, <2>1 DEF PlanInv
<1>3. ~Empty' => previous_nominal' = Nominal(block_buffer[PrevSlot(h)], half)'
  <2>1. PrevSlot(h) \in Slots
    BY <1>1, RingSteps
  <2> QED
    BY <1>1, <2>1 DEF PlanInv
<1> QED
  BY <1>1, <1>2, <1>3 DEF PlanInv

\* Speeds that could be braked from behind the tail still can.
LEMMA TailBrakes ==
    ASSUME TypeInv, TailStep, Planned' => Planned,
           NEW G \in [Slots -> Nat], Brakes(G),
           ~Empty => current_speed' <= Leave(G, block_buffer_tail) + Tail'.length
    PROVE  BrakeInv'
<1> DEFINE t == block_buffer_tail
           h == block_buffer_head
<1>1. /\ t' = t /\ h' = h /\ Empty' = Empty /\ half' = half /\ t \in Slots /\ h \in Slots
      /\ \A i \in Slots : /\ Queued(i)' = Queued(i)
                          /\ Nominal(block_buffer[i], half)' = Nominal(block_buffer[i], half)
                          /\ Leave(G, i)' = Leave(G, i)
  BY TailStepKeeps
<1>2. ASSUME NEW i \in Slots, Queued(i)', i # t' PROVE Passable(G, i)'
  <2>1. Queued(i) /\ i # t /\ PrevSlot(i) \in Slots /\ block_buffer'[i] = block_buffer[i]
    BY <1>1, <1>2, RingSteps DEF TailStep
  <2>2. Passable(G, i)
    BY <2>1 DEF Brakes
  <2> QED
    BY <1>1, <2>1, <2>2 DEF Passable
<1>3. ~Empty' => current_speed' <= Leave(G, t)' + Tail'.length
  BY <1>1
<1>4. Brakes(G)'
  BY <1>1, <1>2, <1>3 DEF Brakes
<1> QED
  BY <1>4 DEF BrakeInv

\* The discard of the block at the tail, in the same terms.
Discarded ==
    /\ ~Empty /\ half' = half /\ previous_nominal' = previous_nominal
    /\ block_buffer' = [block_buffer EXCEPT ![block_buffer_tail] = NoBlock]
    /\ block_buffer_tail' = NextSlot(block_buffer_tail)
    /\ block_buffer_planned' = PushedPlanned
    /\ UNCHANGED << block_buffer_head, next_buffer_head >>

\* What it leaves alone.
LEMMA DiscardedKeeps ==
    ASSUME TypeInv, Discarded
    PROVE  /\ block_buffer_tail' = NextSlot(block_buffer_tail)
           /\ block_buffer_head' = block_buffer_head
           /\ block_buffer_tail \in Slots /\ block_buffer_head \in Slots
           /\ block_buffer_tail' \in Slots /\ PrevSlot(block_buffer_tail') = block_buffer_tail
           /\ ~Empty' => /\ Queued(block_buffer_tail') /\ block_buffer_tail' # block_buffer_tail
                         /\ block_buffer_tail # PrevSlot(block_buffer_head)
           /\ Empty' => block_buffer_tail = PrevSlot(block_buffer_head)
           /\ \A i \in Slots :
                /\ i # block_buffer_tail => block_buffer'[i] = block_buffer[i]
                /\ Queued(i)' => Queued(i) /\ i # block_buffer_tail
                /\ Queued(i)' /\ i # block_buffer_tail' => PrevSlot(i) # block_buffer_tail
                /\ \A G : Leave(G, i)' = Leave(G, i)
                /\ Queued(i) => Exit(block_buffer, block_buffer_head, i)'
                                  = Exit(block_buffer, block_buffer_head, i)
<1> DEFINE t == block_buffer_tail
           h == block_buffer_head
<1>1. t' = NextSlot(t) /\ h' = h /\ t \in Slots /\ h \in Slots /\ t' \in Slots
      /\ PrevSlot(t') = t /\ t # h
  BY RingSteps DEF Discarded, TypeInv, Empty
<1>2. /\ \A i \in Slots : Queued(i)' <=> Queued(i) /\ i # t
      /\ \A i \in Slots : i # t => block_buffer'[i] = block_buffer[i]
  BY DiscardType DEF Discarded
<1>3. InQueue(t, h, t)
  BY <1>1, QueueEnds
<1>4. t = PrevSlot(h) <=> NextSlot(t) = h
  BY <1>1, <1>3, QueueNeighbours
<1>5. Empty' <=> t = PrevSlot(h)
  BY <1>1, <1>4 DEF Empty
<1>6. t # PrevSlot(h) => Queued(t') /\ t' # t
  BY <1>1, <1>3, QueueNeighbours DEF Queued
<1>7. ASSUME NEW i \in Slots
      PROVE  /\ Queued(i)' /\ i # t' => PrevSlot(i) # t
             /\ \A G : Leave(G, i)' = Leave(G, i)
             /\ Queued(i) => Exit(block_buffer, h, i)' = Exit(block_buffer, h, i)
  <2>1. NextSlot(PrevSlot(i)) = i /\ NextSlot(i) \in Slots
    BY RingSteps
  <2>2. i # t' => PrevSlot(i) # t
    BY <1>1, <2>1
  <2>3. \A G : Leave(G, i)' = Leave(G, i)
    BY <1>1 DEF Leave
  <2>4. ASSUME Queued(i) PROVE Exit(block_buffer, h, i)' = Exit(block_buffer, h, i)
    <3>1. NextSlot(i) # t
      BY <1>1, <2>4, QueueNeighbours DEF Queued
    <3> QED
      BY <1>1, <1>2, <2>1, <3>1 DEF Exit
  <2> QED
    BY <2>2, <2>3, <2>4
<1> QED
  BY <1>1, <1>2, <1>5, <1>6, <1>7

\* PlanInv survives it.
LEMMA DiscardPlan ==
    ASSUME TypeInv, PlanInv, Discarded
    PROVE  PlanInv'
<1> DEFINE t == block_buffer_tail
           h == block_buffer_head
<1>1. /\ t' = NextSlot(t) /\ h' = h /\ t \in Slots /\ h \in Slots
      /\ ~Empty' => t # PrevSlot(h)
      /\ \A i \in Slots :
                /\ i # t => block_buffer'[i] = block_buffer[i]
                /\ Queued(i)' => Queued(i) /\ i # t
                /\ Queued(i)' /\ i # t' => PrevSlot(i) # t
                /\ Queued(i) => Exit(block_buffer, h, i)' = Exit(block_buffer, h, i)
  BY DiscardedKeeps
<1>2. half' = half /\ previous_nominal' = previous_nominal /\ ~Empty
  BY DEF Discarded
<1>3. ASSUME NEW i \in Slots, Queued(i)', i # t'
      PROVE  /\ block_buffer'[i].max <= Nominal(block_buffer[PrevSlot(i)], half)'
             /\ Exit(block_buffer, h, i)' <= block_buffer'[i].entry + block_buffer'[i].length
  <2>1. Queued(i) /\ i # t /\ PrevSlot(i) \in Slots /\ PrevSlot(i) # t
    BY <1>1, <1>3, RingSteps
  <2>2. block_buffer'[i] = block_buffer[i] /\ block_buffer'[PrevSlot(i)] = block_buffer[PrevSlot(i)]
        /\ Exit(block_buffer, h, i)' = Exit(block_buffer, h, i)
    BY <1>1, <2>1
  <2> QED
    BY <1>2, <2>1, <2>2 DEF PlanInv
<1>4. ~Empty' => previous_nominal' = Nominal(block_buffer[PrevSlot(h)], half)'
  <2> SUFFICES ASSUME ~Empty' PROVE previous_nominal' = Nominal(block_buffer[PrevSlot(h)], half)'
    OBVIOUS
  <2>1. PrevSlot(h) \in Slots /\ t # PrevSlot(h)
    BY <1>1, RingSteps
  <2>2. block_buffer'[PrevSlot(h)] = block_buffer[PrevSlot(h)]
    BY <1>1, <2>1
  <2> QED
    BY <1>1, <1>2, <2>2 DEF PlanInv
<1> QED
  BY <1>1, <1>3, <1>4 DEF PlanInv

\* So do speeds to brake along, if the machine has come down to that of the next block.
LEMMA DiscardBrakes ==
    ASSUME TypeInv, TypeInv', Discarded, hold' = hold,
           NEW G \in [Slots -> Nat], Brakes(G),
           ~Empty' => current_speed' <= G[block_buffer_tail']
    PROVE  BrakeInv'
<1> DEFINE t == block_buffer_tail
           h == block_buffer_head
<1>1. /\ t' = NextSlot(t) /\ h' = h /\ t \in Slots /\ h \in Slots /\ t' \in Slots
      /\ ~Empty' => Queued(t') /\ t' # t
      /\ \A i \in Slots :
                /\ i # t => block_buffer'[i] = block_buffer[i]
                /\ Queued(i)' => Queued(i) /\ i # t
                /\ Queued(i)' /\ i # t' => PrevSlot(i) # t
                /\ Leave(G, i)' = Leave(G, i)
  BY DiscardedKeeps
<1>2. half' = half
  BY DEF Discarded
<1>3. ASSUME NEW i \in Slots, Queued(i)', i # t' PROVE Passable(G, i)'
  <2>1. Queued(i) /\ i # t /\ PrevSlot(i) \in Slots /\ PrevSlot(i) # t
    BY <1>1, <1>3, RingSteps
  <2>2. Passable(G, i) /\ block_buffer'[i] = block_buffer[i]
        /\ block_buffer'[PrevSlot(i)] = block_buffer[PrevSlot(i)]
        /\ Leave(G, i)' = Leave(G, i)
    BY <1>1, <2>1 DEF Brakes
  <2> QED
    BY <1>2, <2>2 DEF Passable, Planned
<1>4. ASSUME ~Empty' PROVE current_speed' <= Leave(G, t)' + Tail'.length
  <2>1. Queued(t') /\ t' # t
    BY <1>1, <1>4
  <2>2. Passable(G, t')
    BY <1>1, <2>1 DEF Brakes, Passable
  <2>3. G[t'] <= Leave(G, t') + block_buffer[t'].length
    BY <2>2 DEF Passable
  <2>4. Leave(G, t)' = Leave(G, t')
    BY <1>1 DEF Leave
  <2>5. Tail'.length = block_buffer[t'].length
    BY <1>1, <2>1 DEF Tail
  <2>6. /\ G[t'] \in Nat /\ Leave(G, t') \in Nat /\ block_buffer[t'].length \in Nat
        /\ current_speed' \in Nat /\ current_speed' <= G[t']
    BY <1>1, <1>4, SpeedTypes DEF TypeInv
  <2> QED
    BY <2>3, <2>4, <2>5, <2>6
<1>5. Brakes(G)'
  BY <1>1, <1>3, <1>4 DEF Brakes
<1> QED
  BY <1>5 DEF BrakeInv

\* The machine can come to the planned speed of the next block.
PlanFits ==
    ~Empty => current_speed <= Exit(block_buffer, block_buffer_head, block_buffer_tail)
                               + Tail.length

\* PlanBrakes in the next state.
LEMMA PlanBrakesNext ==
    TypeInv' /\ StopsInv' /\ PlanInv' /\ PlanFits' => BrakeInv'
<1>1. TypeInv /\ StopsInv /\ PlanInv /\ PlanFits => BrakeInv
  BY PlanBrakes DEF PlanFits
<1> QED
  BY <1>1, PTL

-----------------------------------------------------------------------------
(* The steps of the segment generator.                                     *)

\* The speed a block is left with is that of the next one's entry.
LEMMA ExecExitIs ==
    TypeInv => ExecExit = Exit(block_buffer, block_buffer_head, block_buffer_tail)
<1> SUFFICES ASSUME TypeInv
             PROVE  ExecExit = Exit(block_buffer, block_buffer_head, block_buffer_tail)
  OBVIOUS
<1>1. NextSlot(block_buffer_tail) = block_buffer_head
        <=> block_buffer_tail = PrevSlot(block_buffer_head)
  BY RingSteps DEF TypeInv
<1> QED
  BY <1>1 DEF ExecExit, Exit

\* A profile from the speed of the machine comes to its exit speed within the block.
LEMMA ProfileFits ==
    ASSUME TypeInv, PlanInv, BrakeInv, ~Empty, hold \in {"none", "execute"},
           Profile(current_speed),
           hold = "none" => Exit(block_buffer, block_buffer_head, block_buffer_tail)
                              <= current_speed + Tail.length
    PROVE  /\ hold = "none" =>
                /\ current_speed <= exit_speed' + Tail.length
                /\ exit_speed' <= current_speed + Tail.length
                /\ decel_override' => /\ current_speed = exit_speed' + Tail.length
                                      /\ Nominal(Tail, half) <= exit_speed'
                /\ ~decel_override' =>
                     exit_speed' = Exit(block_buffer, block_buffer_head, block_buffer_tail)
           /\ hold = "execute" =>
                \/ current_speed = exit_speed' + Tail.length
                \/ exit_speed' = 0 /\ current_speed <= Tail.length
<1> DEFINE h == block_buffer_head
           t == block_buffer_tail
           n == Nominal(Tail, half)
           l == Tail.length
           x == Exit(block_buffer, h, t)
           e == current_speed
           overrun == hold # "execute" /\ e > n /\ e - n >= l
<1>1. /\ exit_speed' = IF hold = "execute" /\ e <= l THEN 0
                       ELSE IF hold = "execute" \/ overrun THEN e - l ELSE x
      /\ decel_override' = overrun
  BY ExecExitIs DEF Profile
<1>2. n \in Nat /\ l \in Nat /\ x \in Nat /\ e \in Nat
  BY SpeedTypes DEF TypeInv
<1>3. ASSUME hold = "none", ~ overrun PROVE e <= x + l
  <2>1. PICK G \in [Slots -> Nat] : Brakes(G)
    BY DEF BrakeInv
  <2>2. e <= Leave(G, t) + Tail.length
    BY <2>1 DEF Brakes
  <2>3. CASE t = PrevSlot(h)
    BY <2>2, <2>3 DEF Leave, Exit
  <2>4. CASE t # PrevSlot(h)
    <3> DEFINE y == NextSlot(t)
    <3>1. /\ t \in Slots /\ h \in Slots /\ t # h /\ y \in Slots /\ PrevSlot(y) = t
      BY RingSteps DEF TypeInv, Empty
    <3>2. Queued(y) /\ y # t
      BY <2>4, <3>1, QueueEnds, QueueNeighbours DEF Queued
    <3>3. G[y] <= block_buffer[y].entry \/ n <= block_buffer[y].entry
      <4>1. Passable(G, y)
        BY <2>1, <3>1, <3>2 DEF Brakes
      <4> QED
        BY <1>3, <3>1, <4>1 DEF Passable, Planned, Tail
    <3>4. Leave(G, t) = G[y] /\ x = block_buffer[y].entry /\ G[y] \in Nat
      BY <2>4, <3>1 DEF Leave, Exit
    <3> HIDE DEF n, x, y
    <3> QED
      BY <1>2, <1>3, <2>2, <3>3, <3>4
  <2> QED
    BY <2>3, <2>4
<1>4. hold = "none" => x <= e + l
  OBVIOUS
<1> HIDE DEF n, l, x, e
<1>5. ASSUME hold = "none"
      PROVE  /\ e <= exit_speed' + l
             /\ exit_speed' <= e + l
             /\ decel_override' => e = exit_speed' + l /\ n <= exit_speed'
             /\ ~decel_override' => exit_speed' = x
  <2>1. CASE overrun
    <3>1. e > n /\ e - n >= l
      BY <2>1
    <3>2. exit_speed' = e - l /\ decel_override'
      BY <1>1, <1>5, <2>1
    <3>3. /\ e = exit_speed' + l /\ n <= exit_speed' /\ exit_speed' <= e + l
          /\ e <= exit_speed' + l
      BY <1>2, <3>1, <3>2
    <3> QED
      BY <3>2, <3>3
  <2>2. CASE ~ overrun
    <3>1. exit_speed' = x /\ ~decel_override'
      BY <1>1, <1>5, <2>2
    <3> QED
      BY <1>3, <1>4, <1>5, <2>2, <3>1
  <2> QED
    BY <2>1, <2>2
<1>6. ASSUME hold = "execute"
      PROVE  e = exit_speed' + l \/ (exit_speed' = 0 /\ e <= l)
  <2>1. CASE e <= l
    <3>1. exit_speed' = 0
      BY <1>1, <1>6, <2>1
    <3> QED
      BY <2>1, <3>1
  <2>2. CASE ~ (e <= l)
    <3>1. exit_speed' = e - l
      BY <1>1, <1>6, <2>2
    <3>2. e = exit_speed' + l
      BY <1>2, <3>1
    <3> QED
      BY <3>2
  <2> QED
    BY <2>1, <2>2
<1> QED
  BY <1>5, <1>6 DEF n, l, x, e

\* A block loaded anew or again: the generator takes up the speed of the machine.
LEMMA LoadedSpeed ==
    ASSUME TypeInv, SpeedInv, ~Empty, ~pl_block, hold \in {"none", "execute"},
           hold' = hold, current_speed' = current_speed, pl_block', ~recalculate',
           Profile(current_speed), TailStep, Tail'.length = Tail.length
    PROVE  SpeedInv'
<1> DEFINE h == block_buffer_head
           t == block_buffer_tail
<1>1. /\ t' = t /\ h' = h /\ Empty' = Empty /\ half' = half /\ t \in Slots
      /\ \A i \in Slots : /\ Nominal(block_buffer[i], half)' = Nominal(block_buffer[i], half)
                          /\ Queued(i) => Exit(block_buffer, h, i)' = Exit(block_buffer, h, i)
  BY TailStepKeeps
<1>2. Queued(t)
  BY QueueEnds DEF Queued, TypeInv, Empty
<1>3. Exit(block_buffer, h, t)' = Exit(block_buffer, h, t)
      /\ Nominal(Tail, half)' = Nominal(Tail, half)
  BY <1>1, <1>2 DEF Tail, TailStep, Nominal
<1>4. hold = "none" => Exit(block_buffer, h, t) <= current_speed + Tail.length
  <2> SUFFICES ASSUME hold = "none"
               PROVE  Exit(block_buffer, h, t) <= current_speed + Tail.length
    OBVIOUS
  <2>1. Exit(block_buffer, h, t) <= Tail.entry + Tail.length /\ Tail.entry <= current_speed
    BY DEF SpeedInv, EntryInv, Planned
  <2>2. Exit(block_buffer, h, t) \in Nat /\ Tail.entry \in Nat /\ Tail.length \in Nat
        /\ current_speed \in Nat
    BY <1>1, SpeedTypes
  <2> QED
    BY <2>1, <2>2
<1>5. ProfileInv'
  <2>1. /\ hold = "none" =>
                /\ current_speed <= exit_speed' + Tail.length
                /\ exit_speed' <= current_speed + Tail.length
                /\ decel_override' => /\ current_speed = exit_speed' + Tail.length
                                      /\ Nominal(Tail, half) <= exit_speed'
                /\ ~decel_override' => exit_speed' = Exit(block_buffer, h, t)
        /\ hold = "execute" => \/ current_speed = exit_speed' + Tail.length
                               \/ exit_speed' = 0 /\ current_speed <= Tail.length
    BY <1>4, ProfileFits DEF SpeedInv
  <2> QED
    BY <1>1, <1>3, <2>1 DEF ProfileInv
<1>6. PlanInv'
  BY TailPlan DEF SpeedInv
<1>7. RestInv'
  BY <1>1 DEF RestInv, SpeedInv
<1>8. EntryInv'
  BY DEF EntryInv
<1>9. BrakeInv'
  <2>1. PICK G \in [Slots -> Nat] : Brakes(G)
    BY DEF SpeedInv, BrakeInv
  <2>2. current_speed' <= Leave(G, t) + Tail'.length
    BY <2>1 DEF Brakes
  <2> QED
    BY <2>1, <2>2, TailBrakes DEF Planned
<1> QED
  BY <1>5, <1>6, <1>7, <1>8, <1>9 DEF SpeedInv

\* A block is loaded at the speed of the machine.
LEMMA LoadSpeed ==
    ASSUME TypeInv, SpeedInv, Load
    PROVE  SpeedInv' /\ current_speed' = current_speed
<1> DEFINE t == block_buffer_tail
           e == IF hold = "execute" \/ decel_override THEN exit_speed ELSE Tail.entry
<1>1. /\ ~pl_block /\ ~recalculate /\ ~Empty /\ hold \in {"none", "execute"}
      /\ pl_block' = TRUE /\ current_speed' = e
      /\ block_buffer' = [block_buffer EXCEPT ![t].entry = e]
      /\ Profile(e)
      /\ UNCHANGED << ring, block_buffer_planned, previous_nominal, half, recalculate, hold >>
  BY DEF Load
<1>2. e = current_speed
  BY <1>1 DEF SpeedInv, EntryInv, Planned
<1> HIDE DEF e
<1>3. TailStep /\ Tail'.length = Tail.length
  <2> DEFINE B == [block_buffer EXCEPT ![t].entry = e]
  <2>1. e \in Nat /\ t \in Slots /\ block_buffer \in Plans
    BY <1>2 DEF TypeInv
  <2>2. /\ B \in Plans /\ B[t].entry = e
        /\ \A i \in Slots : SameBlock(B[i], block_buffer[i]) /\ (i # t => B[i] = block_buffer[i])
    BY <2>1, SetEntry
  <2>3. block_buffer' = B /\ t' = t
    BY <1>1 DEF ring
  <2> HIDE DEF B
  <2>4. Tail' = B[t]
    BY <2>3 DEF Tail
  <2>5. Tail'.nominal = Tail.nominal /\ Tail'.length = Tail.length
    BY <2>1, <2>2, <2>4 DEF SameBlock, Tail
  <2> QED
    BY <1>1, <2>2, <2>3, <2>5 DEF TailStep
<1>4. Profile(current_speed) /\ current_speed' = current_speed /\ pl_block' /\ ~recalculate'
      /\ hold' = hold
  BY <1>1, <1>2
<1> QED
  BY <1>1, <1>3, <1>4, LoadedSpeed

\* So is a block whose profile is computed anew.
LEMMA ReloadSpeed ==
    ASSUME TypeInv, SpeedInv, Reload
    PROVE  SpeedInv'
<1>1. /\ ~pl_block /\ recalculate /\ ~Empty /\ hold \in {"none", "execute"}
      /\ pl_block' /\ ~recalculate' /\ Profile(Tail.entry)
      /\ UNCHANGED << ring, plan, previous_nominal, half, current_speed, hold >>
  BY DEF Reload
<1>2. Tail.entry = current_speed
  BY <1>1 DEF SpeedInv, EntryInv
<1>3. TailStep /\ Tail'.length = Tail.length
  BY <1>1 DEF TailStep, Tail, plan, ring
<1>4. Profile(current_speed)
  BY <1>1, <1>2
<1> QED
  BY <1>1, <1>3, <1>4, LoadedSpeed

\* The speed c one unit on, where v is the most that the profile allows.
OneOn(c, n, v) == IF c > n \/ v < c - 1 THEN c - 1 ELSE v

\* That most: acceleration, the nominal speed n, and what is left to brake in to the exit
\* speed x.
Most(c, n, x, left) == min(min(c + 1, n), x + left)

\* A profile ends below the nominal speed, or comes down towards it over the whole block.
Comes(c, n, x, left) == x <= n \/ (c = x + left + 1 /\ n <= x)

\* The new speed is one off at most, and the exit speed still in reach.
OnCourse(c, n, x, left, new) ==
  /\ new - c \in -1 .. 1
  /\ new <= x + left /\ x <= new + left
  /\ c = x + left + 1 /\ n <= x => new = x + left

\* Cruise keeps the profile.
LEMMA CruiseFits ==
    \A n, c, x \in Nat : \A left \in Nat \ {0} : 
      c <= x + left + 1 /\ x <= c + left + 1 /\ Comes(c, n, x, left)
      => OnCourse(c, n, x, left, OneOn(c, n, Most(c, n, x, left)))
<1> SUFFICES ASSUME NEW n \in Nat, NEW c \in Nat, NEW x \in Nat, NEW left \in Nat \ {0},
                    c <= x + left + 1, x <= c + left + 1,
                    Comes(c, n, x, left)
             PROVE  OnCourse(c, n, x, left, OneOn(c, n, Most(c, n, x, left)))
  OBVIOUS
<1> DEFINE v == Most(c, n, x, left)
           new == OneOn(c, n, v)
<1>1. v <= c + 1 /\ v <= n /\ v <= x + left /\ v \in Nat
      /\ (v = c + 1 \/ v = n \/ v = x + left)
  BY DEF min, Most
<1> HIDE DEF v
<1>2. CASE c > n \/ v < c - 1
  <2>1. new = c - 1
    BY <1>2 DEF OneOn
  <2> HIDE DEF new
  <2>2. OnCourse(c, n, x, left, new)
    BY <1>1, <1>2, <2>1 DEF OnCourse, Comes
  <2> QED
    BY <2>2 DEF new, v
<1>3. CASE ~ (c > n \/ v < c - 1)
  <2>1. new = v
    BY <1>3 DEF OneOn
  <2> HIDE DEF new
  <2>2. OnCourse(c, n, x, left, new)
    BY <1>1, <1>3, <2>1 DEF OnCourse, Comes
  <2> QED
    BY <2>2 DEF new, v
<1> QED
  BY <1>2, <1>3

\* One unit on within a block.
LEMMA WithinBlock ==
    ASSUME TypeInv, TypeInv', StopsInv', StopsInv, SpeedInv, Advance, Tail.length - 1 # 0
    PROVE  SpeedInv' /\ current_speed' - current_speed \in -1 .. 1
<1> DEFINE h == block_buffer_head
           t == block_buffer_tail
           left == Tail.length - 1
           n == Nominal(Tail, half)
           c == current_speed
           x == exit_speed
           y == Exit(block_buffer, h, t)
<1>1. /\ pl_block /\ pl_block' /\ ~Empty /\ ~recalculate /\ ~recalculate'
      /\ hold \in {"none", "execute"}
      /\ hold = "execute" => c > 0
      /\ block_buffer' = [block_buffer EXCEPT ![t] = [Tail EXCEPT !.length = left]]
      /\ c' = IF hold = "execute" THEN c - 1 ELSE Cruise(left)
      /\ UNCHANGED << ring, block_buffer_planned, previous_nominal, half, decel_override,
                      exit_speed, hold >>
  BY DEF Advance, TypeInv, ring
<1>2. t \in Slots /\ Queued(t) /\ t # h
  BY <1>1, QueueEnds DEF TypeInv, Queued, Empty
<1>3. /\ c \in Nat /\ x \in Nat /\ n \in Nat /\ y \in Nat /\ left \in Nat \ {0}
      /\ Tail.length = left + 1
  <2>1. Tail.length > 0 /\ Tail.length \in Nat
    BY <1>2, SpeedTypes DEF TypeInv, Tail
  <2> QED
    BY <1>2, <2>1, SpeedTypes
<1>4. TailStep /\ Tail'.length = left
  <2> DEFINE b == [Tail EXCEPT !.length = left]
  <2>1. b.nominal = Tail.nominal /\ b.length = left
    BY SpeedTypes DEF BlockType
  <2>2. block_buffer' = [block_buffer EXCEPT ![t] = b] /\ t' = t
    BY <1>1 DEF ring
  <2> HIDE DEF b
  <2>3. Tail' = b /\ \A i \in Slots : i # t => block_buffer'[i] = block_buffer[i]
    BY <1>2, <2>2 DEF Tail, TypeInv, Plans
  <2> QED
    BY <1>1, <2>1, <2>3 DEF TailStep
<1>5. /\ t' = t /\ h' = h /\ Empty' = Empty /\ half' = half
      /\ Exit(block_buffer, h, t)' = y /\ Nominal(Tail, half)' = n
  <2>1. /\ t' = t /\ h' = h /\ Empty' = Empty /\ half' = half
        /\ Exit(block_buffer, h, t)' = y
    BY <1>2, <1>4, TailStepKeeps
  <2> QED
    BY <1>4, <2>1 DEF TailStep, Nominal
<1>6. PlanInv'
  BY <1>4, TailPlan DEF SpeedInv
<1>7. RestInv' /\ EntryInv'
  BY <1>1, <1>5 DEF RestInv, EntryInv
<1>8. ASSUME hold = "none"
      PROVE  /\ c' - c \in -1 .. 1 /\ c' <= x + left /\ x <= c' + left
             /\ decel_override => c' = x + left /\ n <= x
             /\ ~decel_override => x = y
  <2>1. /\ c <= x + (left + 1) /\ x <= c + (left + 1)
        /\ decel_override => c = x + (left + 1) /\ n <= x
        /\ ~decel_override => x = y
    BY <1>1, <1>3, <1>8 DEF SpeedInv, ProfileInv
  <2>2. ~decel_override => x <= n
    <3> SUFFICES ASSUME ~decel_override PROVE y <= n
      BY <2>1
    <3>1. CASE t = PrevSlot(h)
      BY <1>3, <3>1 DEF Exit
    <3>2. CASE t # PrevSlot(h)
      <4> DEFINE z == NextSlot(t)
      <4>1. z \in Slots /\ Queued(z) /\ z # t /\ PrevSlot(z) = t
        BY <1>2, <3>2, QueueNeighbours, RingSteps DEF Queued, TypeInv
      <4>2. Safe(z) /\ block_buffer[z].max <= Nominal(block_buffer[PrevSlot(z)], half)
        BY <4>1 DEF StopsInv, SpeedInv, PlanInv
      <4>3. y = block_buffer[z].entry /\ n = Nominal(block_buffer[PrevSlot(z)], half)
        BY <3>2, <4>1 DEF Exit, Tail
      <4>4. block_buffer[z].entry \in Nat /\ block_buffer[z].max \in Nat
        BY <4>1, SpeedTypes
      <4> HIDE DEF z, y, n
      <4> QED
        BY <1>3, <4>2, <4>3, <4>4 DEF Safe
    <3> QED
      BY <3>1, <3>2
  <2>3. c' = OneOn(c, n, Most(c, n, x, left))
    BY <1>1, <1>8 DEF Cruise, OneOn, Most
  <2> HIDE DEF n, c, x, left, y
  <2>4. Comes(c, n, x, left)
    BY <1>3, <2>1, <2>2 DEF Comes
  <2>5. c <= x + left + 1 /\ x <= c + left + 1
    BY <1>3, <2>1
  <2>6. OnCourse(c, n, x, left, OneOn(c, n, Most(c, n, x, left)))
    BY <1>3, <2>4, <2>5, CruiseFits
  <2>7. decel_override => c = x + left + 1 /\ n <= x
    BY <1>3, <2>1
  <2> QED
    BY <2>1, <2>3, <2>6, <2>7 DEF c, OnCourse
<1>9. ASSUME hold = "execute"
      PROVE  /\ c' - c \in -1 .. 1
             /\ c' = x + left \/ (x = 0 /\ c' <= left)
             /\ c' = c - 1
  <2>1. c = x + (left + 1) \/ (x = 0 /\ c <= left + 1)
    BY <1>1, <1>3, <1>9 DEF SpeedInv, ProfileInv
  <2>2. c' = c - 1
    BY <1>1, <1>9
  <2>3. c' - c \in -1 .. 1
    BY <1>3, <2>2
  <2>4. c' = x + left \/ (x = 0 /\ c' <= left)
    <3> HIDE DEF c, x, left
    <3> DEFINE w == c'
    <3>1. w = c - 1
      BY <2>2
    <3> HIDE DEF w
    <3>2. w = x + left \/ (x = 0 /\ w <= left)
      BY <1>3, <2>1, <3>1
    <3> QED
      BY <3>2 DEF w
  <2> QED
    BY <2>2, <2>3, <2>4
<1>10. ProfileInv'
  BY <1>1, <1>4, <1>5, <1>8, <1>9 DEF ProfileInv
<1>11. BrakeInv'
  <2>1. CASE hold = "none" /\ ~decel_override
    <3>1. c' <= y + left
      BY <1>8, <2>1
    <3>2. PlanFits'
      BY <1>4, <1>5, <3>1 DEF PlanFits
    <3> QED
      BY <1>6, <3>2, PlanBrakesNext
  <2>2. CASE hold = "execute" \/ decel_override
    <3>1. PICK G \in [Slots -> Nat] : Brakes(G)
      BY DEF SpeedInv, BrakeInv
    <3>2. c <= Leave(G, t) + (left + 1)
      BY <1>1, <1>3, <3>1 DEF Brakes
    <3>3. c' = c - 1
      <4>1. CASE hold = "execute"
        BY <1>9, <4>1
      <4>2. CASE hold = "none"
        <5>1. c' = x + left /\ c = x + (left + 1)
          BY <1>1, <1>3, <1>8, <2>2, <4>2 DEF SpeedInv, ProfileInv
        <5> QED
          BY <1>3, <5>1
      <4> QED
        BY <1>1, <4>1, <4>2
    <3>4. c' <= Leave(G, t) + left
      <4>1. Leave(G, t) \in Nat
        BY <1>2, SpeedTypes
      <4> QED
        BY <1>3, <3>2, <3>3, <4>1
    <3> QED
      BY <1>1, <1>4, <3>1, <3>4, TailBrakes DEF Planned
  <2> QED
    BY <1>1, <2>1, <2>2
<1> QED
  BY <1>1, <1>6, <1>7, <1>8, <1>9, <1>10, <1>11 DEF SpeedInv

\* The last unit of a block.
LEMMA EndOfBlock ==
    ASSUME TypeInv, TypeInv', StopsInv', StopsInv, SpeedInv, Advance, Tail.length - 1 = 0
    PROVE  SpeedInv' /\ current_speed' - current_speed \in -1 .. 1
<1> DEFINE h == block_buffer_head
           t == block_buffer_tail
           n == Nominal(Tail, half)
           c == current_speed
           x == exit_speed
           y == Exit(block_buffer, h, t)
<1>1. /\ pl_block /\ ~pl_block' /\ ~Empty /\ ~recalculate /\ ~recalculate'
      /\ hold \in {"none", "execute"}
      /\ hold = "execute" => c > 0
      /\ c' = x
      /\ UNCHANGED << previous_nominal, half, decel_override, exit_speed, hold >>
      /\ Discarded
  BY DEF Advance, TypeInv, Discarded
<1>2. t \in Slots /\ Queued(t) /\ t # h
  BY <1>1, QueueEnds DEF TypeInv, Queued, Empty
<1>3. /\ c \in Nat /\ x \in Nat /\ n \in Nat /\ y \in Nat /\ Tail.length = 1
  BY <1>2, SpeedTypes
<1>4. /\ t' = NextSlot(t) /\ h' = h /\ t' \in Slots /\ PrevSlot(t') = t
      /\ ~Empty' => Queued(t') /\ t' # t /\ t # PrevSlot(h)
      /\ Empty' => t = PrevSlot(h)
      /\ \A i \in Slots : i # t => block_buffer'[i] = block_buffer[i]
      /\ \A i \in Slots : Queued(i) => Exit(block_buffer, h, i)' = Exit(block_buffer, h, i)
  BY <1>1, DiscardedKeeps
<1>5. PlanInv'
  BY <1>1, DiscardPlan DEF SpeedInv
<1>6. /\ hold = "none" => /\ c <= x + 1 /\ x <= c + 1
                          /\ decel_override => c = x + 1 /\ n <= x
                          /\ ~decel_override => x = y
      /\ hold = "execute" => c = x + 1 \/ (x = 0 /\ c <= 1)
  BY <1>1, <1>3 DEF SpeedInv, ProfileInv
<1>7. c' - c \in -1 .. 1
  <2>1. x - c \in -1 .. 1
    <3> HIDE DEF c, x, n, y
    <3> QED
      BY <1>1, <1>3, <1>6
  <2> QED
    BY <1>1, <2>1
<1>8. PICK G \in [Slots -> Nat] : Brakes(G)
  BY DEF SpeedInv, BrakeInv
<1>9. /\ c <= Leave(G, t) + 1 /\ Leave(G, t) \in Nat
      /\ Leave(G, t) = IF t = PrevSlot(h) THEN 0 ELSE G[t']
      /\ y = IF t = PrevSlot(h) THEN 0 ELSE block_buffer[t'].entry
  <2>1. Leave(G, t) \in Nat
    BY <1>2, SpeedTypes
  <2>2. c <= Leave(G, t) + 1
    BY <1>1, <1>3, <1>8 DEF Brakes
  <2> QED
    BY <1>4, <2>1, <2>2 DEF Leave, Exit
\* A machine that does not follow the plan comes down by the whole length of the block.
<1>10. hold = "execute" \/ decel_override => x <= Leave(G, t)
  <2> HIDE DEF c, x, n, y
  <2> DEFINE z == Leave(G, t)
  <2>1. c <= z + 1 /\ z \in Nat
    BY <1>9
  <2> HIDE DEF z
  <2>2. hold = "execute" => x <= z
    BY <1>1, <1>3, <1>6, <2>1
  <2>3. hold = "none" /\ decel_override => x <= z
    <3>1. hold = "none" /\ decel_override => c = x + 1
      BY <1>6
    <3> QED
      BY <1>3, <2>1, <3>1
  <2> QED
    BY <1>1, <2>2, <2>3 DEF z
<1>11. hold = "none" /\ ~decel_override => x = y
  BY <1>6
<1>12. RestInv'
  <2>1. ASSUME Empty' PROVE c' = 0
    <3>1. Leave(G, t) = 0 /\ y = 0
      BY <1>4, <1>9, <2>1
    <3>2. x <= 0 \/ x = 0
      BY <1>1, <1>10, <1>11, <3>1
    <3> QED
      BY <1>1, <1>3, <3>2
  <2> QED
    BY <1>1, <2>1 DEF RestInv
<1>13. EntryInv'
  <2> SUFFICES ASSUME ~Empty', Planned'
               PROVE  /\ Tail'.entry <= c'
                      /\ recalculate' \/ ~decel_override' => Tail'.entry = c'
                      /\ Exit(block_buffer, h, t)' <= Tail'.entry + Tail'.length
    BY <1>1 DEF EntryInv
  <2>1. hold = "none" /\ Queued(t') /\ t' # t /\ t # PrevSlot(h)
    BY <1>1, <1>4 DEF Planned
  <2>2. Tail' = block_buffer[t'] /\ y = block_buffer[t'].entry
    BY <1>4, <1>9, <2>1 DEF Tail
  <2>3. y <= x /\ (~decel_override => y = x)
    <3>1. CASE ~decel_override
      BY <1>3, <1>11, <2>1, <3>1
    <3>2. CASE decel_override
      <4>1. Safe(t') /\ block_buffer[t'].max <= n
        BY <1>4, <2>1 DEF StopsInv, SpeedInv, PlanInv, Tail
      <4>2. block_buffer[t'].entry \in Nat /\ block_buffer[t'].max \in Nat
        BY <1>4, SpeedTypes
      <4>3. n <= x
        BY <1>6, <2>1, <3>2
      <4> HIDE DEF n, x, y
      <4> QED
        BY <1>3, <2>2, <3>2, <4>1, <4>2, <4>3 DEF Safe
    <3> QED
      BY <3>1, <3>2
  <2>4. Exit(block_buffer, h, t)' <= Tail'.entry + Tail'.length
    <3>1. Exit(block_buffer, h, t') <= block_buffer[t'].entry + block_buffer[t'].length
      BY <1>4, <2>1 DEF SpeedInv, PlanInv
    <3>2. \A i \in Slots : i = t' /\ Queued(i) => Exit(block_buffer', h', i) = Exit(block_buffer, h, i)
      BY <1>4
    <3>3. Exit(block_buffer', h', t') = Exit(block_buffer, h, t')
      BY <1>4, <2>1, <3>2
    <3> QED
      BY <2>2, <3>1, <3>3
  <2> QED
    BY <1>1, <2>2, <2>3, <2>4
<1>14. ProfileInv'
  BY <1>1 DEF ProfileInv
<1>15. BrakeInv'
  <2>1. CASE hold = "none" /\ ~decel_override
    <3>1. PlanFits'
      <4> SUFFICES ASSUME ~Empty' PROVE c' <= Exit(block_buffer, h, t)' + Tail'.length
        BY DEF PlanFits
      <4>1. Queued(t') /\ t' # t /\ t # PrevSlot(h)
        BY <1>4
      <4>2. Safe(t')
        BY <1>4, <4>1 DEF StopsInv
      <4>3. c' = block_buffer[t'].entry
        BY <1>1, <1>9, <1>11, <2>1, <4>1
      <4>4. \A i \in Slots : i = t' /\ Queued(i) => Exit(block_buffer', h', i) = Exit(block_buffer, h, i)
        BY <1>4
      <4>5. Exit(block_buffer', h', t') = Exit(block_buffer, h, t')
        BY <1>4, <4>1, <4>4
      <4>6. Tail' = block_buffer[t']
        BY <1>4, <4>1 DEF Tail
      <4> QED
        BY <4>2, <4>3, <4>5, <4>6 DEF Safe
    <3> QED
      BY <1>5, <3>1, PlanBrakesNext
  <2>2. CASE hold = "execute" \/ decel_override
    <3>1. ~Empty' => c' <= G[t']
      BY <1>1, <1>4, <1>9, <1>10, <2>2
    <3> QED
      BY <1>1, <1>8, <3>1, DiscardBrakes
  <2> QED
    BY <1>1, <2>1, <2>2
<1> QED
  BY <1>5, <1>7, <1>12, <1>13, <1>14, <1>15 DEF SpeedInv

-----------------------------------------------------------------------------
(* The steps of the main loop that leave the queue alone.                  *)

\* The hold takes the machine off the plan at its current speed.
LEMMA BeginHoldSpeed ==
    ASSUME TypeInv, SpeedInv, BeginHold
    PROVE  SpeedInv'
<1> DEFINE t == block_buffer_tail
           B == [block_buffer EXCEPT ![t].entry = current_speed]
<1>1. /\ hold = "none" /\ hold' = "execute" /\ ~pl_block' /\ recalculate' = (recalculate \/ pl_block)
      /\ block_buffer' = IF pl_block THEN B ELSE block_buffer
      /\ UNCHANGED << ring, previous_nominal, half >>
      /\ current_speed' = current_speed /\ exit_speed' = exit_speed
      /\ decel_override' = decel_override /\ t' = t
  BY DEF BeginHold, Updated, ring
<1>2. /\ t \in Slots /\ B[t].entry = current_speed
      /\ \A i \in Slots : SameBlock(B[i], block_buffer[i]) /\ (i # t => B[i] = block_buffer[i])
  <2>1. t \in Slots /\ current_speed \in Nat /\ block_buffer \in Plans
    BY DEF TypeInv
  <2>2. /\ B \in Plans /\ B[t].entry = current_speed
        /\ \A i \in Slots : SameBlock(B[i], block_buffer[i]) /\ (i # t => B[i] = block_buffer[i])
    BY <2>1, SetEntry
  <2> QED
    BY <2>1, <2>2
<1> HIDE DEF B
<1>3. /\ TailStep /\ Tail'.length = Tail.length
      /\ Tail'.entry = IF pl_block THEN current_speed ELSE Tail.entry
  BY <1>1, <1>2 DEF TailStep, Tail, SameBlock
<1>4. Empty' = Empty
  BY <1>3, TailStepKeeps
<1>5. PlanInv'
  BY <1>3, TailPlan DEF SpeedInv
<1>6. RestInv'
  <2>1. RestInv /\ (pl_block => ~Empty)
    BY DEF SpeedInv, TypeInv
  <2> QED
    BY <1>1, <1>4, <2>1 DEF RestInv
<1>7. EntryInv'
  <2>1. EntryInv /\ pl_block \in BOOLEAN /\ recalculate \in BOOLEAN /\ current_speed \in Nat
    BY DEF SpeedInv, TypeInv
  <2>2. ~recalculate' => exit_speed' = current_speed'
    BY <1>1, <2>1 DEF EntryInv
  <2>3. ~Empty' /\ recalculate' => Tail'.entry = current_speed'
    BY <1>1, <1>3, <1>4, <2>1 DEF EntryInv
  <2>4. ~ Planned'
    BY <1>1 DEF Planned
  <2>5. Tail'.entry = current_speed' => Tail'.entry <= current_speed'
    BY <1>1, <2>1
  <2> QED
    BY <2>2, <2>3, <2>4, <2>5 DEF EntryInv
<1>8. ProfileInv'
  BY <1>1 DEF ProfileInv
<1>9. BrakeInv'
  <2>1. PICK G \in [Slots -> Nat] : Brakes(G)
    BY DEF SpeedInv, BrakeInv
  <2>2. ~Empty => current_speed' <= Leave(G, t) + Tail'.length
    BY <1>1, <1>3, <2>1 DEF Brakes
  <2> QED
    BY <1>1, <1>3, <2>1, <2>2, TailBrakes DEF Planned
<1> QED
  BY <1>5, <1>6, <1>7, <1>8, <1>9 DEF SpeedInv

\* The hold comes to rest, and ends.
LEMMA HoldSpeed ==
    ASSUME TypeInv, SpeedInv, EndMotion \/ CycleStart
    PROVE  SpeedInv'
<1> DEFINE t == block_buffer_tail
<1>1. /\ UNCHANGED << ring, plan, previous_nominal, half, prep >>
      /\ \/ hold = "execute" /\ hold' = "end" /\ pl_block /\ current_speed = 0
         \/ hold = "rest" /\ hold' = "none"
  BY DEF EndMotion, CycleStart
<1>2. /\ block_buffer' = block_buffer /\ Tail' = Tail /\ t' = t
      /\ block_buffer_head' = block_buffer_head
      /\ current_speed' = current_speed /\ exit_speed' = exit_speed /\ pl_block' = pl_block
      /\ recalculate' = recalculate /\ decel_override' = decel_override
  BY <1>1 DEF plan, ring, prep, Tail
<1>3. TailStep
  BY <1>1, <1>2 DEF TailStep
<1>4. Empty' = Empty /\ (Planned' => Planned)
  BY <1>1, <1>3, TailStepKeeps DEF Planned
<1>5. PlanInv'
  BY <1>3, TailPlan DEF SpeedInv
<1>6. RestInv'
  BY <1>1, <1>2, <1>4 DEF RestInv, SpeedInv
<1>7. EntryInv'
  <2>1. EntryInv
    BY DEF SpeedInv
  <2> QED
    BY <1>2, <1>4, <2>1 DEF EntryInv
<1>8. ProfileInv'
  BY <1>1, <1>2 DEF ProfileInv, RestInv, SpeedInv
<1>9. BrakeInv'
  <2>1. PICK G \in [Slots -> Nat] : Brakes(G)
    BY DEF SpeedInv, BrakeInv
  <2>2. ~Empty => current_speed' <= Leave(G, t) + Tail'.length
    BY <1>2, <2>1 DEF Brakes
  <2> QED
    BY <1>3, <1>4, <2>1, <2>2, TailBrakes
<1> QED
  BY <1>5, <1>6, <1>7, <1>8, <1>9 DEF SpeedInv

\* An empty queue at rest needs no speeds to brake along.
LEMMA AtRestSpeed ==
    ASSUME TypeInv, Empty, current_speed = 0, ~pl_block, ~recalculate, exit_speed = 0,
           hold \in {"none", "execute"}
    PROVE  SpeedInv
<1>1. \A i \in Slots : ~ Queued(i)
  BY QueueEnds DEF Queued, Empty, TypeInv
<1>2. [i \in Slots |-> 0] \in [Slots -> Nat]
  OBVIOUS
<1>3. Brakes([i \in Slots |-> 0])
  BY <1>1 DEF Brakes
<1>4. BrakeInv
  BY <1>2, <1>3 DEF BrakeInv
<1>5. PlanInv
  BY <1>1 DEF PlanInv
<1>6. RestInv
  BY DEF RestInv
<1>7. EntryInv
  BY DEF EntryInv
<1>8. ProfileInv
  BY DEF ProfileInv
<1> QED
  BY <1>4, <1>5, <1>6, <1>7, <1>8 DEF SpeedInv

\* The same in the next state.
AtRest ==
    /\ Empty /\ current_speed = 0 /\ ~pl_block /\ ~recalculate /\ exit_speed = 0
    /\ hold \in {"none", "execute"}

\* AtRestSpeed in the next state.
LEMMA AtRestNext == TypeInv' /\ AtRest' => SpeedInv'
<1>1. TypeInv /\ AtRest => SpeedInv
  BY AtRestSpeed DEF AtRest
<1> QED
  BY <1>1, PTL

\* The machine is at rest initially.
LEMMA InitSpeed == Init => SpeedInv
<1> SUFFICES ASSUME Init PROVE SpeedInv
  OBVIOUS
<1>1. TypeInv
  BY InitType
<1> QED
  BY <1>1, AtRestSpeed DEF Init, Empty

\* A reset leaves it at rest.
LEMMA ResetSpeed == TypeInv' /\ Reset => SpeedInv'
<1> SUFFICES ASSUME TypeInv', Reset PROVE SpeedInv'
  OBVIOUS
<1>1. AtRest'
  BY DEF Reset, AtRest, Empty
<1> QED
  BY <1>1, AtRestNext

\* No step changes nothing.
LEMMA StutterSpeed ==
    ASSUME TypeInv, SpeedInv, UNCHANGED vars
    PROVE  SpeedInv'
<1> DEFINE t == block_buffer_tail
<1>1. /\ block_buffer' = block_buffer /\ Tail' = Tail /\ t' = t /\ hold' = hold
      /\ block_buffer_head' = block_buffer_head /\ half' = half
      /\ previous_nominal' = previous_nominal /\ ring' = ring
      /\ current_speed' = current_speed /\ exit_speed' = exit_speed /\ pl_block' = pl_block
      /\ recalculate' = recalculate /\ decel_override' = decel_override
  BY DEF vars, plan, ring, prep, Tail
<1>2. TailStep
  BY <1>1 DEF TailStep
<1>3. Empty' = Empty /\ Planned' = Planned
  BY <1>1 DEF Empty, Planned
<1>4. PlanInv'
  BY <1>2, TailPlan DEF SpeedInv
<1>5. RestInv' /\ EntryInv' /\ ProfileInv'
  <2>1. RestInv /\ EntryInv /\ ProfileInv
    BY DEF SpeedInv
  <2>2. RestInv'
    BY <1>1, <1>3, <2>1 DEF RestInv
  <2>3. EntryInv'
    BY <1>1, <1>3, <2>1 DEF EntryInv
  <2>4. ProfileInv'
    BY <1>1, <2>1 DEF ProfileInv
  <2> QED
    BY <2>2, <2>3, <2>4
<1>6. BrakeInv'
  <2>1. PICK G \in [Slots -> Nat] : Brakes(G)
    BY DEF SpeedInv, BrakeInv
  <2>2. ~Empty => current_speed' <= Leave(G, t) + Tail'.length
    BY <1>1, <2>1 DEF Brakes
  <2> QED
    BY <1>2, <1>3, <2>1, <2>2, TailBrakes
<1> QED
  BY <1>4, <1>5, <1>6 DEF SpeedInv

-----------------------------------------------------------------------------
(* The steps that plan everything anew.                                    *)

\* An empty queue stays at rest.
LEMMA RestartedAtRest ==
    ASSUME TypeInv, TypeInv', SpeedInv, Empty, UNCHANGED << ring, current_speed, exit_speed >>,
           NEW buf \in Plans, Restarted(buf), hold' = hold \/ hold' = "none"
    PROVE  SpeedInv'
<1>1. /\ ~pl_block /\ hold \in {"none", "execute", "end", "rest"}
      /\ RestInv /\ EntryInv /\ pl_block \in BOOLEAN /\ recalculate \in BOOLEAN
  BY DEF TypeInv, SpeedInv
<1>2. current_speed = 0 /\ ~recalculate /\ exit_speed = 0 /\ hold \in {"none", "execute"}
  BY <1>1 DEF RestInv, EntryInv
<1>3. ~pl_block' /\ ~recalculate' /\ Empty'
  BY <1>1, <1>2 DEF Restarted, Empty, ring
<1>4. AtRest'
  BY <1>2, <1>3 DEF AtRest
<1> QED
  BY <1>4, AtRestNext

\* What they have in common.
LEMMA RestartedPlan ==
    ASSUME TypeInv, ~Empty, UNCHANGED ring, NEW buf \in Plans, Restarted(buf)
    PROVE  /\ block_buffer_tail' = block_buffer_tail /\ block_buffer_head' = block_buffer_head
           /\ block_buffer_tail \in Slots /\ block_buffer_head \in Slots
           /\ Queued(block_buffer_tail) /\ ~Empty'
           /\ ~pl_block' /\ recalculate' = (recalculate \/ pl_block)
           /\ Tail'.entry = IF pl_block THEN current_speed ELSE Tail.entry
           /\ Tail'.entry = buf[block_buffer_tail].entry
           /\ Tail'.length = Tail.length
           /\ \A i \in Slots :
                /\ block_buffer'[i].nominal = block_buffer[i].nominal
                /\ block_buffer'[i].junction = block_buffer[i].junction
                /\ block_buffer'[i].length = block_buffer[i].length
                /\ block_buffer'[i].max = buf[i].max
                /\ Queued(i)' = Queued(i)
                /\ Queued(i) /\ i # block_buffer_tail =>
                     Behind(block_buffer_head, block_buffer_tail, i)
                /\ Behind(block_buffer_head, block_buffer_tail, i) =>
                     Queued(i) /\ i # block_buffer_tail
                /\ \A G : Leave(G, i)' = Leave(G, i)
                /\ Queued(i) => Exit(block_buffer, block_buffer_head, i)'
                                  <= block_buffer'[i].entry + block_buffer'[i].length
<1> DEFINE h == block_buffer_head
           t == block_buffer_tail
           B == Replan(buf, h, t)
<1>1. /\ t \in Slots /\ h \in Slots /\ t # h /\ t' = t /\ h' = h /\ block_buffer' = B
      /\ pl_block' = FALSE /\ recalculate' = (recalculate \/ pl_block)
      /\ buf[t].entry = IF pl_block THEN current_speed ELSE Tail.entry
  BY DEF TypeInv, Empty, ring, Restarted, Tail
<1>2. Queued(t) /\ ~Empty'
  BY <1>1, QueueEnds DEF Queued, Empty
<1>3. ~ Behind(h, t, t)
  BY <1>1, BehindTail
<1>4. \A i \in Slots : /\ B[i].nominal = buf[i].nominal /\ B[i].junction = buf[i].junction
                       /\ B[i].max = buf[i].max /\ B[i].length = buf[i].length
                       /\ ~ Behind(h, t, i) => B[i] = buf[i]
  BY <1>1, ReplanSlots
<1>5. Tail'.entry = buf[t].entry /\ Tail'.length = Tail.length
  BY <1>1, <1>3, <1>4 DEF Tail, Restarted
<1>6. ASSUME NEW i \in Slots
      PROVE  /\ B[i].nominal = block_buffer[i].nominal
             /\ B[i].junction = block_buffer[i].junction
             /\ B[i].length = block_buffer[i].length
             /\ Queued(i)' = Queued(i)
             /\ Queued(i) /\ i # t <=> Behind(h, t, i)
             /\ \A G : Leave(G, i)' = Leave(G, i)
  BY <1>1, <1>4, BehindTail DEF Restarted, Queued, Leave
<1>7. ASSUME NEW i \in Slots, Queued(i)
      PROVE  Exit(B, h, i) <= B[i].entry + B[i].length
  <2>1. NextSlot(i) \in Slots
    BY RingSteps
  <2>2. Behind(h, t, NextSlot(i)) \/ i = PrevSlot(h)
    BY <1>1, <1>7, <2>1, QueueNeighbours, BehindTail DEF Queued
  <2> QED
    BY <1>1, <2>2, ReplanReaches
<1>8. \A i \in Slots : Exit(block_buffer, h, i)' = Exit(B, h, i)
  BY <1>1
<1> HIDE DEF B
<1> QED
  BY <1>1, <1>2, <1>4, <1>5, <1>6, <1>7, <1>8

\* The speeds at which blocks are left, and their lengths.
Exits ==
    \A i \in Slots :
      Exit(block_buffer, block_buffer_head, i) \in Nat /\ block_buffer[i].length \in Nat

\* They are numbers.
LEMMA ExitsNext == TypeInv' => Exits'
<1>1. TypeInv => Exits
  BY SpeedTypes DEF Exits
<1> QED
  BY <1>1, PTL

\* A hold that has come to rest.
LEMMA CycleStopSpeed ==
    TypeInv /\ TypeInv' /\ StopsInv' /\ SpeedInv /\ CycleStop => SpeedInv'
<1> SUFFICES ASSUME TypeInv, TypeInv', StopsInv', SpeedInv, CycleStop PROVE SpeedInv'
  OBVIOUS
<1> DEFINE h == block_buffer_head
           t == block_buffer_tail
<1>1. PICK buf \in Plans : Restarted(buf) /\ \A i \in Slots : buf[i].max = block_buffer[i].max
  BY CycleStopShape
<1>2. /\ UNCHANGED << ring, previous_nominal, half, decel_override, current_speed, exit_speed >>
      /\ \/ hold = "end" /\ hold' = "rest"
         \/ hold = "execute" /\ Empty /\ hold' = "none"
  BY DEF CycleStop
<1>3. CASE Empty
  <2>1. hold' = "none"
    <3>1. hold # "end"
      BY <1>3 DEF SpeedInv, RestInv, TypeInv
    <3> QED
      BY <1>2, <3>1
  <2> QED
    BY <1>1, <1>2, <1>3, <2>1, RestartedAtRest
<1>4. CASE ~Empty
  <2>1. hold' = "rest" /\ current_speed = 0 /\ (pl_block \/ recalculate)
    BY <1>2, <1>4 DEF SpeedInv, RestInv
  <2>2. /\ t' = t /\ h' = h /\ t \in Slots /\ h \in Slots /\ Queued(t) /\ ~Empty'
        /\ ~pl_block' /\ recalculate' = (recalculate \/ pl_block)
        /\ Tail'.entry = IF pl_block THEN current_speed ELSE Tail.entry
        /\ \A i \in Slots :
             /\ block_buffer'[i].nominal = block_buffer[i].nominal
             /\ block_buffer'[i].max = block_buffer[i].max
             /\ Queued(i)' = Queued(i)
             /\ Queued(i) => Exit(block_buffer, h, i)'
                               <= block_buffer'[i].entry + block_buffer'[i].length
    BY <1>1, <1>2, <1>4, RestartedPlan
  <2>3. recalculate' /\ Tail'.entry = current_speed'
    <3>1. ~pl_block => Tail.entry = current_speed
      BY <1>4, <2>1 DEF SpeedInv, EntryInv
    <3> QED
      BY <1>2, <2>1, <2>2, <3>1
  <2>4. PlanInv'
    <3>1. \A i \in Slots : Nominal(block_buffer[i], half)' = Nominal(block_buffer[i], half)
      BY <1>2, <2>2 DEF Nominal
    <3>2. ASSUME NEW i \in Slots, Queued(i)', i # t'
          PROVE  /\ block_buffer'[i].max <= Nominal(block_buffer[PrevSlot(i)], half)'
                 /\ Exit(block_buffer, h, i)' <= block_buffer'[i].entry + block_buffer'[i].length
      <4>1. PrevSlot(i) \in Slots
        BY RingSteps
      <4> QED
        BY <2>2, <3>1, <3>2, <4>1 DEF SpeedInv, PlanInv
    <3>3. previous_nominal' = Nominal(block_buffer[PrevSlot(h)], half)'
      <4>1. PrevSlot(h) \in Slots
        BY <2>2, RingSteps
      <4> QED
        BY <1>2, <1>4, <2>2, <3>1, <4>1 DEF SpeedInv, PlanInv
    <3> QED
      BY <2>2, <3>2, <3>3 DEF PlanInv
  <2>5. RestInv'
    BY <1>2, <2>1, <2>2, <2>3 DEF RestInv
  <2>6. EntryInv'
    <3>1. Exit(block_buffer, h, t)' <= Tail'.entry + Tail'.length
      BY <2>2 DEF Tail
    <3>2. Tail'.entry <= current_speed'
      BY <1>2, <2>1, <2>3
    <3> QED
      BY <2>2, <2>3, <3>1, <3>2 DEF EntryInv
  <2>7. ProfileInv'
    BY <2>2 DEF ProfileInv
  <2>8. BrakeInv'
    <3>1. Exits'
      BY ExitsNext
    <3>2. PlanFits'
      <4>1. Exit(block_buffer, h, t)' \in Nat /\ Tail'.length \in Nat
        BY <2>2, <3>1 DEF Exits, Tail
      <4> QED
        BY <1>2, <2>1, <4>1 DEF PlanFits
    <3> QED
      BY <2>4, <3>2, PlanBrakesNext
  <2> QED
    BY <2>4, <2>5, <2>6, <2>7, <2>8 DEF SpeedInv
<1> QED
  BY <1>3, <1>4

\* The faster of the speeds G and those of the plan, under the nominal speed n.
Higher(G, n) ==
    [i \in Slots |-> min(n, IF G[i] < block_buffer[i].entry THEN block_buffer[i].entry ELSE G[i])]

\* What the minimum and the maximum are.
LEMMA HigherIs ==
    ASSUME TypeInv, NEW n \in Nat, NEW G \in [Slots -> Nat]
    PROVE  /\ Higher(G, n) \in [Slots -> Nat]
           /\ \A i \in Slots :
                /\ Higher(G, n)[i] \in Nat /\ Higher(G, n)[i] <= n
                /\ \A a \in Nat : a <= n /\ (a <= G[i] \/ a <= block_buffer[i].entry)
                                    => a <= Higher(G, n)[i]
                /\ \A a \in Nat : G[i] <= a /\ block_buffer[i].entry <= a
                                    => Higher(G, n)[i] <= a
                /\ \/ Higher(G, n)[i] = n \/ Higher(G, n)[i] = G[i]
                   \/ Higher(G, n)[i] = block_buffer[i].entry
<1>1. \A i \in Slots : block_buffer[i].entry \in Nat /\ G[i] \in Nat
  BY SpeedTypes
<1>2. ASSUME NEW i \in Slots
      PROVE  LET e == block_buffer[i].entry
                 m == min(n, IF G[i] < e THEN e ELSE G[i])
             IN /\ m \in Nat /\ m <= n
                /\ \A a \in Nat : a <= n /\ (a <= G[i] \/ a <= e) => a <= m
                /\ \A a \in Nat : G[i] <= a /\ e <= a => m <= a
                /\ m = n \/ m = G[i] \/ m = e
  BY <1>1 DEF min
<1>3. \A i \in Slots :
        Higher(G, n)[i] = min(n, IF G[i] < block_buffer[i].entry THEN block_buffer[i].entry ELSE G[i])
  BY DEF Higher
<1>4. Higher(G, n) \in [Slots -> Nat]
  BY <1>2 DEF Higher
<1> QED
  BY <1>2, <1>3, <1>4

\* They can be braked from under the changed override; and if the machine has to come down to
\* that first, they can be reached.
LEMMA HigherBrakes ==
    ASSUME TypeInv, StopsInv, PlanInv, ~Empty, OneSpeedQueued, NEW buf \in Plans, Restarted(buf),
           \A i \in Slots : buf[i].max = Limits(~half)[i].max,
           NEW G \in [Slots -> Nat], Brakes(G),
           NEW n, n = Nominal(Tail, ~half)
    PROVE  /\ n \in Nat
           /\ Brakeable(Higher(G, n), buf, block_buffer_head, block_buffer_tail)
           /\ n <= buf[block_buffer_tail].entry =>
                Reachable(Higher(G, n), buf, block_buffer_head, block_buffer_tail)
<1> DEFINE h == block_buffer_head
           t == block_buffer_tail
           H == Higher(G, n)
<1>1. t \in Slots /\ h \in Slots /\ t # h
  BY DEF TypeInv, Empty
<1>2. /\ n \in Nat
      /\ \A i \in Slots : Queued(i) /\ i # t => buf[i].max = min(n, buf[i].junction)
  BY CalmBrakes
<1>3. /\ H \in [Slots -> Nat]
      /\ \A i \in Slots :
           /\ H[i] \in Nat /\ H[i] <= n
           /\ \A a \in Nat : a <= n /\ (a <= G[i] \/ a <= block_buffer[i].entry) => a <= H[i]
           /\ \A a \in Nat : G[i] <= a /\ block_buffer[i].entry <= a => H[i] <= a
           /\ H[i] = n \/ H[i] = G[i] \/ H[i] = block_buffer[i].entry
  BY <1>2, HigherIs
<1>4. \A i \in Slots : /\ block_buffer[i].entry \in Nat /\ block_buffer[i].length \in Nat
                       /\ block_buffer[i].junction \in Nat /\ block_buffer[i].max \in Nat
                       /\ G[i] \in Nat
                       /\ buf[i].entry \in Nat
  BY SpeedTypes DEF Plans, BlockType
<1>5. \A i \in Slots : /\ buf[i].length = block_buffer[i].length
                       /\ buf[i].junction = block_buffer[i].junction
                       /\ i # t => buf[i].entry = block_buffer[i].entry
  BY DEF Restarted
<1> HIDE DEF H
<1>6. ASSUME NEW i \in Slots, Behind(h, t, i)
      PROVE  /\ H[i] <= buf[i].max
             /\ H[i] <= (IF i = PrevSlot(h) THEN 0 ELSE H[NextSlot(i)]) + buf[i].length
             /\ buf[i].entry = buf[i].max => H[i] = buf[i].max
  <2> DEFINE y == NextSlot(i)
             e == block_buffer[i].entry
             j == block_buffer[i].junction
             l == block_buffer[i].length
  <2>1. Queued(i) /\ i # t /\ y \in Slots
    BY <1>1, <1>6, BehindTail, RingSteps DEF Queued
  <2>2. Safe(i) /\ Passable(G, i)
    BY <2>1 DEF StopsInv, Brakes
  <2>3. buf[i].length = l /\ buf[i].entry = e /\ buf[i].max = min(n, j)
    BY <1>2, <1>5, <2>1
  <2>4. e <= j /\ G[i] <= j /\ e \in Nat /\ j \in Nat /\ l \in Nat
    BY <1>4, <2>2 DEF Safe, Passable
  <2>5. H[i] <= j /\ H[i] <= n
    BY <1>3, <2>4
  <2>6. H[i] <= buf[i].max
    BY <2>3, <2>5 DEF min
  <2>7. ASSUME buf[i].entry = buf[i].max PROVE H[i] = buf[i].max
    <3>1. e = min(n, j)
      BY <2>3, <2>7
    <3>2. e <= n
      BY <1>2, <2>4, <3>1 DEF min
    <3>3. e <= H[i]
      BY <1>3, <2>4, <3>2
    <3> HIDE DEF e, j, l
    <3> QED
      BY <1>3, <2>3, <2>4, <2>6, <2>7, <3>3
  <2>8. CASE i = PrevSlot(h)
    <3>1. e <= l /\ G[i] <= l
      BY <1>4, <2>2, <2>8 DEF Safe, Passable, Exit, Leave
    <3>2. H[i] <= l
      BY <1>3, <2>4, <3>1
    <3> QED
      BY <2>3, <2>4, <2>6, <2>7, <2>8, <3>2
  <2>9. CASE i # PrevSlot(h)
    <3> DEFINE f == block_buffer[y].entry
    <3>1. e <= f + l /\ G[i] <= G[y] + l
      BY <2>2, <2>9 DEF Safe, Passable, Exit, Leave
    <3>2. H[y] \in Nat /\ f \in Nat /\ G[y] \in Nat /\ G[i] \in Nat
      BY <1>3, <1>4, <2>1
    <3>3. \A a \in Nat : a <= n /\ (a <= G[y] \/ a <= f) => a <= H[y]
      BY <1>3, <2>1
    <3>4. H[y] = n \/ (G[y] <= H[y] /\ f <= H[y])
      <4>1. n <= G[y] \/ n <= f => n <= H[y]
        BY <1>2, <3>3
      <4>2. H[y] <= n
        BY <1>3, <2>1
      <4>3. CASE n <= G[y] \/ n <= f
        BY <1>2, <3>2, <4>1, <4>2, <4>3
      <4>4. CASE ~ (n <= G[y] \/ n <= f)
        <5>1. G[y] <= n /\ f <= n /\ G[y] <= G[y] /\ f <= f
          BY <1>2, <3>2, <4>4
        <5> QED
          BY <3>2, <3>3, <5>1
      <4> QED
        BY <4>3, <4>4
    <3>5. H[i] <= H[y] + l
      <4>1. CASE H[y] = n
        BY <1>2, <2>4, <2>5, <3>2, <4>1, <1>3
      <4>2. CASE G[y] <= H[y] /\ f <= H[y]
        <5> DEFINE a == H[y] + l
        <5>1. a \in Nat /\ G[i] <= a /\ e <= a
          <6> HIDE DEF e, f, l, y
          <6> QED
            BY <2>4, <3>1, <3>2, <4>2
        <5> HIDE DEF a
        <5>2. H[i] <= a
          BY <1>3, <5>1
        <5> QED
          BY <5>2 DEF a
      <4> QED
        BY <3>4, <4>1, <4>2
    <3> QED
      BY <2>3, <2>6, <2>7, <2>9, <3>5
  <2> QED
    BY <2>8, <2>9
<1>7. ASSUME n <= buf[t].entry, NEW i \in Slots, Behind(h, t, i)
      PROVE  H[i] <= (IF PrevSlot(i) = t THEN buf[t].entry ELSE H[PrevSlot(i)])
                     + buf[PrevSlot(i)].length
  <2> DEFINE q == PrevSlot(i)
             l == block_buffer[q].length
  <2>1. Queued(i) /\ i # t /\ q \in Slots /\ NextSlot(q) = i /\ Queued(q) /\ q # PrevSlot(h)
    <3>1. Queued(i) /\ i # t /\ q \in Slots /\ NextSlot(q) = i
      BY <1>1, <1>7, BehindTail, RingSteps DEF Queued
    <3>2. Queued(q) /\ q # h /\ i # h
      BY <1>1, <3>1, QueueNeighbours DEF Queued
    <3>3. q # PrevSlot(h)
      BY <1>1, <3>1, <3>2, RingSteps
    <3> QED
      BY <3>1, <3>2, <3>3
  <2>2. buf[q].length = l /\ l \in Nat
    BY <1>4, <1>5, <2>1
  <2>3. CASE q = t
    <3>1. H[i] <= n /\ H[i] \in Nat /\ buf[t].entry \in Nat
      BY <1>1, <1>3, <1>4
    <3>2. H[i] <= buf[t].entry + l
      BY <1>2, <1>7, <2>2, <3>1
    <3> QED
      BY <2>2, <2>3, <3>2
  <2>4. CASE q # t
    <3>1. Passable(G, q)
      BY <2>1, <2>4 DEF Brakes
    <3>2. G[i] <= G[q] + l
      BY <2>1, <3>1 DEF Passable, Leave
    <3>3. block_buffer[i].entry <= block_buffer[q].entry + l
      BY <2>1, <2>4 DEF PlanInv, Exit
    <3> DEFINE e == block_buffer[i].entry
               f == block_buffer[q].entry
    <3>4. /\ H[q] \in Nat /\ H[i] \in Nat /\ f \in Nat /\ e \in Nat /\ G[q] \in Nat /\ G[i] \in Nat
          /\ H[i] <= n /\ H[q] <= n
          /\ \A a \in Nat : a <= n /\ (a <= G[q] \/ a <= f) => a <= H[q]
          /\ \A a \in Nat : G[i] <= a /\ e <= a => H[i] <= a
      BY <1>3, <1>4, <2>1
    <3>5. H[i] <= H[q] + l
      <4> HIDE DEF e, f, q, l
      <4>1. CASE n <= G[q] \/ n <= f
        <5>1. n <= H[q]
          BY <1>2, <3>4, <4>1
        <5> QED
          BY <1>2, <2>2, <3>4, <5>1
      <4>2. CASE ~ (n <= G[q] \/ n <= f)
        <5>1. G[q] <= n /\ f <= n /\ G[q] <= G[q] /\ f <= f
          BY <1>2, <3>4, <4>2
        <5>2. G[q] <= H[q] /\ f <= H[q]
          BY <3>4, <5>1
        <5> DEFINE a == H[q] + l
        <5>3. a \in Nat /\ G[i] <= a /\ e <= a
          BY <2>2, <3>2, <3>3, <3>4, <5>2 DEF e, f, q, l
        <5> HIDE DEF a
        <5>4. H[i] <= a
          BY <3>4, <5>3
        <5> QED
          BY <5>4 DEF a
      <4> QED
        BY <4>1, <4>2
    <3> QED
      BY <2>2, <2>4, <3>5
  <2> QED
    BY <2>3, <2>4
<1>8. Brakeable(H, buf, h, t)
  BY <1>6 DEF Brakeable
<1>9. n <= buf[t].entry => Reachable(H, buf, h, t)
  BY <1>7 DEF Reachable
<1> QED
  BY <1>2, <1>8, <1>9 DEF H

\* A machine on its plan can brake after an override: if it is not above the new nominal
\* speed, to the speed planned for the next block, and otherwise along the speeds it could
\* brake along before.
LEMMA OverrideBrakes ==
    ASSUME TypeInv, TypeInv', StopsInv, StopsInv', SpeedInv, PlanInv', ~Empty, Override, Calm,
           NEW buf \in Plans, Restarted(buf),
           \A i \in Slots : buf[i].max = Limits(~half)[i].max
    PROVE  BrakeInv'
<1> DEFINE h == block_buffer_head
           t == block_buffer_tail
           n == Nominal(Tail, ~half)
           c == current_speed
           B == Replan(buf, h, t)
<1>1. /\ UNCHANGED << ring, decel_override, current_speed, exit_speed, hold >>
      /\ half' = (~half)
      /\ OneSpeedQueued /\ ~ (decel_override /\ ~pl_block)
  BY DEF Override, Calm
<1>2. /\ t' = t /\ h' = h /\ t \in Slots /\ h \in Slots /\ Queued(t) /\ ~Empty'
      /\ Tail'.entry = IF pl_block THEN c ELSE Tail.entry
      /\ Tail'.entry = buf[t].entry
      /\ Tail'.length = Tail.length
      /\ \A i \in Slots :
           /\ block_buffer'[i].nominal = block_buffer[i].nominal
           /\ block_buffer'[i].junction = block_buffer[i].junction
           /\ block_buffer'[i].length = block_buffer[i].length
           /\ Queued(i)' = Queued(i)
           /\ Queued(i) /\ i # t => Behind(h, t, i)
           /\ \A G : Leave(G, i)' = Leave(G, i)
  BY <1>1, RestartedPlan
<1>3. PICK G \in [Slots -> Nat] : Brakes(G)
  BY DEF SpeedInv, BrakeInv
<1>4. c <= Leave(G, t) + Tail.length
  BY <1>3 DEF Brakes
<1> DEFINE H == Higher(G, n)
<1>5. /\ n \in Nat
      /\ Brakeable(H, buf, h, t)
      /\ n <= buf[t].entry => Reachable(H, buf, h, t)
  BY <1>1, <1>3, HigherBrakes DEF SpeedInv
<1>6. /\ H \in [Slots -> Nat]
      /\ \A i \in Slots :
           /\ H[i] \in Nat
           /\ \A a \in Nat : a <= n /\ (a <= G[i] \/ a <= block_buffer[i].entry) => a <= H[i]
  BY <1>5, HigherIs
<1>7. block_buffer' = B
  BY DEF Restarted
<1>8. /\ c \in Nat /\ Tail.length \in Nat /\ Leave(G, t) \in Nat
      /\ \A i \in Slots : G[i] \in Nat /\ block_buffer[i].length \in Nat
                          /\ block_buffer[i].entry \in Nat
  BY <1>2, SpeedTypes
<1> HIDE DEF H
\* The speeds G are kept, if the plan under the lower nominal speed is no faster.
<1>9. ASSUME Planned => \A i \in Slots : Queued(i) /\ i # t =>
                          \/ G[i] <= block_buffer'[i].entry
                          \/ Nominal(block_buffer[PrevSlot(i)], half)' <= block_buffer'[i].entry
      PROVE  BrakeInv'
  <2>1. ASSUME NEW i \in Slots, Queued(i)', i # t' PROVE Passable(G, i)'
    <3>1. Queued(i) /\ i # t /\ Passable(G, i) /\ Leave(G, i)' = Leave(G, i)
          /\ block_buffer'[i].length = block_buffer[i].length
          /\ block_buffer'[i].junction = block_buffer[i].junction
      BY <1>2, <1>3, <2>1 DEF Brakes
    <3>2. Planned' = Planned
      BY <1>1 DEF Planned
    <3> QED
      BY <1>9, <3>1, <3>2 DEF Passable
  <2>2. ~Empty' => c' <= Leave(G, t)' + Tail'.length
    BY <1>1, <1>2, <1>4
  <2>3. Brakes(G)'
    BY <1>2, <2>1, <2>2 DEF Brakes
  <2> QED
    BY <2>3 DEF BrakeInv
<1>10. CASE ~ Planned
  BY <1>9, <1>10
<1>11. CASE Planned
  <2>1. buf[t].entry = c
    <3>1. ~pl_block => Tail.entry = c
      BY <1>1, <1>11 DEF SpeedInv, EntryInv, TypeInv
    <3> QED
      BY <1>2, <3>1
  <2>2. ASSUME c <= n PROVE BrakeInv'
    <3>1. PlanFits'
      <4>1. CASE t = PrevSlot(h)
        <5>1. c <= Tail.length
          BY <1>4, <1>8, <4>1 DEF Leave
        <5>2. Exit(block_buffer', h', t') = 0
          BY <1>2, <4>1 DEF Exit
        <5> QED
          BY <1>1, <1>2, <1>8, <5>1, <5>2 DEF PlanFits
      <4>2. CASE t # PrevSlot(h)
        <5> DEFINE y == NextSlot(t)
        <5>1. y \in Slots /\ Queued(y) /\ y # t /\ Behind(h, t, y)
          BY <1>2, <4>2, QueueNeighbours, RingSteps DEF Queued
        <5>2. c <= G[y] + Tail.length
          BY <1>4, <4>2 DEF Leave
        <5>3. buf[t].length = Tail.length
          BY <1>2 DEF Restarted, Tail
        <5>4. c <= H[y] + buf[t].length
          <6>1. G[y] \in Nat /\ H[y] \in Nat
            BY <1>6, <1>8, <5>1
          <6>2. G[y] <= n => G[y] <= H[y]
            BY <1>6, <5>1, <6>1
          <6>3. n <= G[y] => n <= H[y]
            <7>1. n <= n
              BY <1>5
            <7> QED
              BY <1>5, <1>6, <5>1, <7>1
          <6> HIDE DEF n, c, y
          <6>4. CASE G[y] <= n
            BY <1>8, <5>2, <5>3, <6>1, <6>2, <6>4
          <6>5. CASE n <= G[y]
            BY <1>5, <1>8, <2>2, <5>3, <6>1, <6>3, <6>5
          <6> QED
            BY <1>5, <6>1, <6>4, <6>5
        <5>5. B[t].entry <= B[y].entry + B[t].length
          BY <1>2, <1>5, <1>6, <2>1, <5>1, <5>4, ReplanStops
        <5>6. Exit(B, h, t) = B[y].entry
          BY <4>2 DEF Exit
        <5>7. Tail' = B[t] /\ Exit(block_buffer', h', t') = Exit(B, h, t)
          BY <1>2, <1>7 DEF Tail
        <5> HIDE DEF B, y
        <5>8. c <= Exit(block_buffer', h', t') + Tail'.length
          BY <1>2, <2>1, <5>5, <5>6, <5>7
        <5> QED
          BY <1>1, <1>2, <5>8 DEF PlanFits
      <4> QED
        BY <4>1, <4>2
    <3> QED
      BY <3>1, PlanBrakesNext
  <2>3. ASSUME n < c PROVE BrakeInv'
    <3>1. Reachable(H, buf, h, t)
      <4>1. n <= buf[t].entry
        <5> HIDE DEF n
        <5> QED
          BY <1>5, <1>8, <2>1, <2>3
      <4> QED
        BY <1>5, <4>1
    <3>2. \A i \in Slots : Behind(h, t, i) => H[i] <= B[i].entry
      BY <1>2, <1>5, <1>6, <3>1, ReplanImproves
    <3>3. ASSUME NEW i \in Slots, Queued(i), i # t
          PROVE  \/ G[i] <= block_buffer'[i].entry
                 \/ Nominal(block_buffer[PrevSlot(i)], half)' <= block_buffer'[i].entry
      <4>1. H[i] <= B[i].entry
        BY <1>2, <3>2, <3>3
      <4>2. Nominal(block_buffer[PrevSlot(i)], half)' = n
        <5>1. PrevSlot(i) \in Slots
          BY RingSteps
        <5>2. Nominal(block_buffer[PrevSlot(i)], ~half) = n
          BY <1>1, <3>3, CalmBrakes
        <5> QED
          BY <1>1, <1>2, <5>1, <5>2 DEF Nominal
      <4>3. B[i].entry \in Nat
        BY <1>2, ReplanSlots DEF BlockType
      <4>4. G[i] \in Nat /\ H[i] \in Nat
        BY <1>6, <1>8
      <4>5. G[i] <= n => G[i] <= H[i]
        BY <1>6, <4>4
      <4>6. n <= G[i] => n <= H[i]
        <5>1. n <= n
          BY <1>5
        <5> QED
          BY <1>5, <1>6, <5>1
      <4> HIDE DEF n, B
      <4>7. G[i] <= B[i].entry \/ n <= B[i].entry
        BY <1>5, <4>1, <4>3, <4>4, <4>5, <4>6
      <4> QED
        BY <1>7, <4>2, <4>7
    <3> QED
      BY <1>9, <3>3
  <2>4. c <= n \/ n < c
    <3> HIDE DEF n
    <3> QED
      BY <1>5, <1>8
  <2> QED
    BY <2>2, <2>3, <2>4
<1> QED
  BY <1>10, <1>11

\* An override keeps the invariant.
LEMMA OverrideSpeed ==
    TypeInv /\ TypeInv' /\ StopsInv /\ StopsInv' /\ SpeedInv /\ Override /\ Calm => SpeedInv'
<1> SUFFICES ASSUME TypeInv, TypeInv', StopsInv, StopsInv', SpeedInv, Override, Calm
             PROVE  SpeedInv'
  OBVIOUS
<1> DEFINE h == block_buffer_head
           t == block_buffer_tail
<1>1. PICK buf \in Plans : Restarted(buf) /\ \A i \in Slots : buf[i].max = Limits(~half)[i].max
  BY OverrideShape
<1>2. /\ UNCHANGED << ring, decel_override, current_speed, exit_speed, hold >>
      /\ half' = (~half)
      /\ previous_nominal' = IF Empty THEN SOME_LARGE_VALUE
                             ELSE Nominal(block_buffer[PrevSlot(h)], ~half)
  BY DEF Override
<1>3. CASE Empty
  BY <1>1, <1>2, <1>3, RestartedAtRest
<1>4. CASE ~Empty
  <2>1. /\ t' = t /\ h' = h /\ t \in Slots /\ h \in Slots /\ Queued(t) /\ ~Empty'
        /\ ~pl_block' /\ recalculate' = (recalculate \/ pl_block)
        /\ Tail'.entry = IF pl_block THEN current_speed ELSE Tail.entry
        /\ \A i \in Slots :
             /\ block_buffer'[i].nominal = block_buffer[i].nominal
             /\ block_buffer'[i].max = buf[i].max
             /\ Queued(i)' = Queued(i)
             /\ Queued(i) => Exit(block_buffer, h, i)'
                               <= block_buffer'[i].entry + block_buffer'[i].length
    BY <1>1, <1>2, <1>4, RestartedPlan
  <2>2. PlanInv'
    <3>1. \A i \in Slots : Nominal(block_buffer[i], half)' = Nominal(block_buffer[i], ~half)
      BY <1>2, <2>1 DEF Nominal
    <3>2. ASSUME NEW i \in Slots, Queued(i)', i # t'
          PROVE  block_buffer'[i].max <= Nominal(block_buffer[PrevSlot(i)], half)'
      <4> DEFINE n == Nominal(Tail, ~half)
      <4>1. PrevSlot(i) \in Slots /\ Queued(i) /\ i # t
        BY <2>1, <3>2, RingSteps
      <4>2. /\ n \in Nat /\ buf[i].max = min(n, buf[i].junction)
            /\ Nominal(block_buffer[PrevSlot(i)], ~half) = n
        BY <1>1, <1>4, <4>1, CalmBrakes DEF Calm
      <4>3. buf[i].junction \in Nat
        BY DEF Plans, BlockType
      <4>4. Nominal(block_buffer[PrevSlot(i)], half)' = n
        BY <3>1, <4>1, <4>2
      <4> HIDE DEF n
      <4>5. buf[i].max <= n
        BY <4>2, <4>3 DEF min
      <4> QED
        BY <2>1, <4>4, <4>5
    <3>3. previous_nominal' = Nominal(block_buffer[PrevSlot(h)], half)'
      <4>1. PrevSlot(h) \in Slots
        BY <2>1, RingSteps
      <4> QED
        BY <1>2, <1>4, <2>1, <3>1, <4>1
    <3> QED
      BY <2>1, <3>2, <3>3 DEF PlanInv
  <2>3. RestInv'
    <3>1. RestInv /\ pl_block \in BOOLEAN /\ recalculate \in BOOLEAN
      BY DEF SpeedInv, TypeInv
    <3> QED
      BY <1>2, <2>1, <3>1 DEF RestInv
  <2>4. EntryInv'
    <3>1. EntryInv /\ pl_block \in BOOLEAN /\ recalculate \in BOOLEAN /\ current_speed \in Nat
      BY DEF SpeedInv, TypeInv
    <3>2. Exit(block_buffer, h, t)' <= Tail'.entry + Tail'.length
      BY <2>1 DEF Tail
    <3>3. ~recalculate' => exit_speed' = current_speed'
      BY <1>2, <2>1, <3>1 DEF EntryInv
    <3>4. current_speed <= current_speed
      BY <3>1
    <3>5. recalculate' \/ Planned' =>
            /\ Tail'.entry <= current_speed'
            /\ recalculate' \/ ~decel_override' => Tail'.entry = current_speed'
      <4>1. CASE pl_block
        BY <1>2, <2>1, <3>4, <4>1
      <4>2. CASE ~pl_block
        <5>1. recalculate' = recalculate /\ Planned' = Planned /\ Tail'.entry = Tail.entry
              /\ current_speed' = current_speed /\ decel_override' = decel_override
          BY <1>2, <2>1, <3>1, <4>2 DEF Planned
        <5> QED
          BY <1>4, <3>1, <4>2, <5>1 DEF EntryInv
      <4> QED
        BY <4>1, <4>2
    <3> QED
      BY <2>1, <3>2, <3>3, <3>5 DEF EntryInv
  <2>5. ProfileInv'
    BY <2>1 DEF ProfileInv
  <2>6. BrakeInv'
    BY <1>1, <1>4, <2>2, OverrideBrakes
  <2> QED
    BY <2>2, <2>3, <2>4, <2>5, <2>6 DEF SpeedInv
<1> QED
  BY <1>3, <1>4

-----------------------------------------------------------------------------
(* The step that queues a block.                                           *)

\* The ring, and what becomes of the slots.
LEMMA BufferedRing ==
    ASSUME TypeInv, ~Empty, BufferLine, NEW buf \in Plans, Buffered(buf)
    PROVE  LET h == block_buffer_head
               t == block_buffer_tail
               p == block_buffer_planned
               x == next_buffer_head
           IN /\ t' = t /\ h' = x /\ PrevSlot(x) = h /\ NextSlot(h) = x /\ t # h /\ ~Full /\ ~Empty'
              /\ t \in Slots /\ h \in Slots /\ p \in Slots /\ x \in Slots
              /\ Queued(t) /\ Behind(x, p, h) /\ ~ Behind(x, p, t)
              /\ p = t => Behind(x, p, NextSlot(t))
              /\ p # t => ~ Behind(x, p, NextSlot(t))
              /\ \A i \in Slots :
                   /\ Queued(i)' <=> Queued(i) \/ i = h
                   /\ Queued(i) => i # h
                   /\ Queued(i) => (i = PrevSlot(h) <=> NextSlot(i) = h)
                   /\ Behind(x, p, i) => (Queued(i) \/ i = h) /\ i # t /\ i # p
                   /\ Queued(i) /\ ~ Behind(x, p, NextSlot(i)) => ~ Behind(x, p, i)
<1> DEFINE h == block_buffer_head
           t == block_buffer_tail
           p == block_buffer_planned
           x == next_buffer_head
<1>1. /\ t \in Slots /\ h \in Slots /\ p \in Slots /\ x = NextSlot(h) /\ x \in Slots
      /\ x # t /\ PrevSlot(x) = h /\ ~Full /\ t' = t /\ h' = x /\ t # h
  <2>1. /\ t \in Slots /\ h \in Slots /\ p \in Slots /\ x = NextSlot(h) /\ x # t
        /\ ~Full /\ t' = t /\ h' = x /\ t # h
    BY DEF TypeInv, BufferLine, Full, Empty
  <2> QED
    BY <2>1, RingSteps
<1>2. /\ InQueue(t, h, p) /\ InQueue(t, h, t)
      /\ \A i \in Slots : InQueue(t, x, i) <=> InQueue(t, h, i) \/ i = h
  BY <1>1, QueueEnds, QueueMoves DEF TypeInv, Queued
<1>3. InQueue(t, x, p) /\ InQueue(t, x, t) /\ InQueue(t, x, h)
  BY <1>1, <1>2
<1>4. ~Empty'
  BY <1>1 DEF Empty
<1>5. \A i \in Slots : Steps(t, i) \in Nat
  BY <1>1, RingSteps, SizeAssumption DEF Slots
<1>6. Steps(t, t) = 0 /\ (p # t => Steps(t, p) # 0)
  <2>1. t \in Slots /\ p \in Slots
    BY <1>1
  <2>2. \A i \in Slots : Steps(i, i) = 0
    BY RingSteps
  <2>3. Steps(t, p) = 0 => t = p
    BY <2>1, RingSteps
  <2> QED
    BY <2>1, <2>2, <2>3
<1>7. \A i \in Slots : InQueue(t, x, i) => (Behind(x, p, i) <=> Steps(t, i) > Steps(t, p))
  BY <1>1, <1>3, QueueBehind
<1>8. Behind(x, p, h)
  BY <1>1, <1>2, <1>3, <1>5, <1>7 DEF InQueue
<1>9. ~ Behind(x, p, t)
  BY <1>1, <1>3, <1>5, <1>6, <1>7
<1>10. ASSUME NEW i \in Slots, InQueue(t, h, i)
       PROVE  /\ NextSlot(i) \in Slots /\ InQueue(t, x, NextSlot(i))
              /\ Steps(t, NextSlot(i)) = Steps(t, i) + 1
              /\ i # h /\ (i = PrevSlot(h) <=> NextSlot(i) = h)
  <2>1. /\ NextSlot(i) \in Slots /\ NextSlot(i) # t
        /\ i # h /\ (i = PrevSlot(h) <=> NextSlot(i) = h)
        /\ (i # PrevSlot(h) => InQueue(t, h, NextSlot(i)))
    BY <1>1, <1>10, QueueNeighbours, RingSteps
  <2>2. Steps(t, NextSlot(i)) = Steps(t, i) + 1
    BY <1>1, <2>1, RingSteps
  <2> QED
    BY <1>2, <2>1, <2>2
<1>11. p = t => Behind(x, p, NextSlot(t))
  BY <1>1, <1>2, <1>5, <1>7, <1>10
<1>12. p # t => ~ Behind(x, p, NextSlot(t))
  <2>1. NextSlot(t) \in Slots /\ InQueue(t, x, NextSlot(t)) /\ Steps(t, NextSlot(t)) = 1
    BY <1>1, <1>2, <1>6, <1>10
  <2>2. p # t => ~ (1 > Steps(t, p))
    BY <1>1, <1>5, <1>6
  <2> QED
    BY <1>7, <2>1, <2>2
<1>13. ASSUME NEW i \in Slots
       PROVE  /\ Behind(x, p, i) => (InQueue(t, h, i) \/ i = h) /\ i # t /\ i # p
              /\ InQueue(t, h, i) /\ ~ Behind(x, p, NextSlot(i)) => ~ Behind(x, p, i)
  <2>1. Behind(x, p, i) => (InQueue(t, h, i) \/ i = h) /\ i # t /\ i # p
    BY <1>1, <1>2, <1>3, QueueBehind
  <2>2. ASSUME InQueue(t, h, i), ~ Behind(x, p, NextSlot(i)) PROVE ~ Behind(x, p, i)
    <3>1. /\ NextSlot(i) \in Slots /\ InQueue(t, x, NextSlot(i)) /\ InQueue(t, x, i)
          /\ Steps(t, NextSlot(i)) = Steps(t, i) + 1
      BY <1>2, <1>10, <2>2
    <3>2. ~ (Steps(t, i) + 1 > Steps(t, p))
      BY <1>7, <2>2, <3>1
    <3>3. ~ (Steps(t, i) > Steps(t, p))
      BY <1>1, <1>5, <3>2
    <3> QED
      BY <1>7, <3>1, <3>3
  <2> QED
    BY <2>1, <2>2
<1>14. \A i \in Slots : Queued(i)' <=> Queued(i) \/ i = h
  BY <1>1, <1>2 DEF Queued
<1> QED
  BY <1>1, <1>2, <1>4, <1>8, <1>9, <1>10, <1>11, <1>12, <1>13, <1>14 DEF Queued

\* The slots it leaves alone, and the speeds at which they are left.
LEMMA BufferedSlots ==
    ASSUME TypeInv, ~Empty, BufferLine, NEW buf \in Plans, Buffered(buf)
    PROVE  /\ Tail'.entry = IF pl_block /\ block_buffer_planned = block_buffer_tail
                              THEN current_speed ELSE Tail.entry
           /\ Tail'.entry = buf[block_buffer_tail].entry
           /\ Tail'.length = Tail.length /\ Tail'.nominal = Tail.nominal
           /\ \A i \in Slots :
                /\ i # block_buffer_head =>
                     /\ block_buffer'[i].nominal = block_buffer[i].nominal
                     /\ block_buffer'[i].junction = block_buffer[i].junction
                     /\ block_buffer'[i].length = block_buffer[i].length
                     /\ block_buffer'[i].max = block_buffer[i].max
                /\ Queued(i) /\ i # block_buffer_tail
                     /\ ~ Behind(next_buffer_head, block_buffer_planned, i) =>
                     block_buffer'[i] = block_buffer[i]
                /\ Queued(i) /\ ~ Behind(next_buffer_head, block_buffer_planned, NextSlot(i)) =>
                     Exit(block_buffer', block_buffer_head', i)
                       = Exit(block_buffer, block_buffer_head, i)
                /\ Behind(next_buffer_head, block_buffer_planned, NextSlot(i))
                     \/ i = block_buffer_head =>
                     Exit(block_buffer', block_buffer_head', i)
                       <= block_buffer'[i].entry + block_buffer'[i].length
<1> DEFINE h == block_buffer_head
           t == block_buffer_tail
           p == block_buffer_planned
           x == next_buffer_head
           B == Replan(buf, x, p)
<1>1. /\ t' = t /\ h' = x /\ PrevSlot(x) = h /\ NextSlot(h) = x /\ t # h
      /\ t \in Slots /\ h \in Slots /\ p \in Slots /\ x \in Slots
      /\ Behind(x, p, h) /\ ~ Behind(x, p, t)
      /\ \A i \in Slots :
           /\ Queued(i) => i # h
           /\ Queued(i) => (i = PrevSlot(h) <=> NextSlot(i) = h)
           /\ Queued(i) /\ ~ Behind(x, p, NextSlot(i)) => ~ Behind(x, p, i)
  BY BufferedRing
<1>2. /\ block_buffer' = B
      /\ \A i \in Slots : i # h => SameBlock(buf[i], block_buffer[i])
      /\ \A i \in Slots : i # h /\ i # t => buf[i] = block_buffer[i]
      /\ buf[t].entry = IF pl_block /\ p = t THEN current_speed ELSE Tail.entry
  BY DEF Buffered, Tail
<1>3. \A i \in Slots : /\ B[i].nominal = buf[i].nominal /\ B[i].junction = buf[i].junction
                       /\ B[i].max = buf[i].max /\ B[i].length = buf[i].length
                       /\ ~ Behind(x, p, i) => B[i] = buf[i]
  BY <1>1, ReplanSlots
<1>4. Tail'.entry = buf[t].entry /\ Tail'.length = Tail.length /\ Tail'.nominal = Tail.nominal
  BY <1>1, <1>2, <1>3 DEF Tail, SameBlock
<1>5. ASSUME NEW i \in Slots, Behind(x, p, NextSlot(i)) \/ i = h
      PROVE  Exit(B, x, i) <= B[i].entry + B[i].length
  BY <1>1, <1>5, ReplanReaches
<1>6. ASSUME NEW i \in Slots, Queued(i), ~ Behind(x, p, NextSlot(i))
      PROVE  Exit(B, x, i) = Exit(block_buffer, h, i)
  <2> DEFINE y == NextSlot(i)
  <2>1. i # h /\ y # h /\ i # PrevSlot(h) /\ y \in Slots
    BY <1>1, <1>6, RingSteps
  <2>2. y # t
    BY <1>1, <1>6, QueueNeighbours DEF Queued
  <2>3. B[y] = block_buffer[y]
    BY <1>2, <1>3, <1>6, <2>1, <2>2
  <2> HIDE DEF B
  <2> QED
    BY <1>1, <2>1, <2>3 DEF Exit
<1>7. ASSUME NEW i \in Slots, Queued(i), i # t, ~ Behind(x, p, i)
      PROVE  B[i] = block_buffer[i]
  BY <1>1, <1>2, <1>3, <1>7
<1>8. \A i \in Slots : i # h =>
        /\ B[i].nominal = block_buffer[i].nominal /\ B[i].junction = block_buffer[i].junction
        /\ B[i].length = block_buffer[i].length /\ B[i].max = block_buffer[i].max
  BY <1>2, <1>3 DEF SameBlock
<1> HIDE DEF B
<1> QED
  BY <1>1, <1>2, <1>4, <1>5, <1>6, <1>7, <1>8

\* The first block of a queue is entered at rest.
LEMMA FirstBlock ==
    ASSUME TypeInv, Empty, BufferLine, NEW buf \in Plans, Buffered(buf)
    PROVE  /\ block_buffer_tail' = block_buffer_tail
           /\ block_buffer_head' = NextSlot(block_buffer_tail)
           /\ block_buffer_tail \in Slots /\ block_buffer_tail = PrevSlot(block_buffer_head')
           /\ ~Empty' /\ ~pl_block' /\ recalculate' = recalculate
           /\ \A i \in Slots : Queued(i)' <=> i = block_buffer_tail
           /\ Tail'.entry = 0 /\ previous_nominal' = Nominal(Tail, half)'
<1> DEFINE h == block_buffer_head
           t == block_buffer_tail
           p == block_buffer_planned
           x == next_buffer_head
           B == Replan(buf, x, p)
<1>1. /\ t \in Slots /\ h = t /\ p \in Slots /\ x = NextSlot(h) /\ x \in Slots
      /\ x # t /\ PrevSlot(x) = h /\ t' = t /\ h' = x /\ half' = half
  <2>1. /\ t \in Slots /\ h = t /\ p \in Slots /\ x = NextSlot(h) /\ x # t /\ t' = t /\ h' = x
        /\ half' = half
    BY DEF TypeInv, BufferLine, Full, Empty
  <2> QED
    BY <2>1, RingSteps
<1>2. /\ ~pl_block /\ pl_block' = (pl_block /\ p # t)
      /\ recalculate' = (recalculate \/ (pl_block /\ ~ pl_block'))
      /\ block_buffer' = B /\ buf[h].entry = 0 /\ buf[h].max = 0
      /\ previous_nominal' = Nominal(buf[h], half)
  BY DEF TypeInv, Buffered
<1>3. ~pl_block' /\ recalculate' = recalculate
  BY <1>2 DEF TypeInv
<1>4. \A i \in Slots : Queued(i)' <=> i = t
  BY <1>1, QueueEnds, QueueMoves DEF Queued
<1>5. B[h].entry = 0 /\ B[h].nominal = buf[h].nominal
  <2>1. B[h].nominal = buf[h].nominal /\ (~ Behind(x, p, h) => B[h] = buf[h])
    BY <1>1, ReplanSlots
  <2>2. ASSUME Behind(x, p, h) PROVE B[h].entry = 0
    <3> DEFINE r == Rev(buf, x, p, h)
               b == B[PrevSlot(h)]
    <3>1. r = min(buf[h].max, buf[h].length)
      BY <1>1, <2>2, ReplanReverse
    <3>2. buf[h].max = 0 /\ buf[h].length \in Nat
      BY <1>1, <1>2 DEF Plans, BlockType
    <3>3. r = 0
      BY <3>1, <3>2 DEF min
    <3>4. B[h].entry = min(r, b.entry + b.length)
      BY <1>1, <2>2, ReplanForward
    <3>5. b.entry \in Nat /\ b.length \in Nat
      <4>1. PrevSlot(h) \in Slots
        BY <1>1, RingSteps
      <4>2. b \in BlockType
        BY <1>1, <4>1, ReplanSlots
      <4> QED
        BY <4>2 DEF BlockType
    <3> HIDE DEF r, b
    <3> QED
      BY <3>3, <3>4, <3>5 DEF min
  <2> QED
    BY <1>1, <1>2, <2>1, <2>2
<1>6. Tail' = B[h]
  BY <1>1, <1>2 DEF Tail
<1>7. previous_nominal' = Nominal(Tail, half)'
  BY <1>1, <1>2, <1>5, <1>6 DEF Nominal
<1>8. ~Empty'
  BY <1>1 DEF Empty
<1> QED
  BY <1>1, <1>3, <1>4, <1>5, <1>6, <1>7, <1>8

\* A block more never slows the machine down at a junction ahead.
LEMMA BufferedImproves ==
    ASSUME TypeInv, StopsInv, SpeedInv, ~Empty, Planned, BufferLine,
           NEW buf \in Plans, Buffered(buf),
           NEW i \in Slots, Queued(i), i # block_buffer_tail
    PROVE  block_buffer[i].entry <= block_buffer'[i].entry
<1> DEFINE h == block_buffer_head
           t == block_buffer_tail
           p == block_buffer_planned
           x == next_buffer_head
           B == Replan(buf, x, p)
           S == BufferedSpeeds
<1>1. /\ PrevSlot(x) = h /\ t # h /\ ~Full
      /\ t \in Slots /\ h \in Slots /\ p \in Slots /\ x \in Slots
      /\ Behind(x, p, h)
      /\ \A j \in Slots :
           /\ Queued(j) => j # h
           /\ Queued(j) => (j = PrevSlot(h) <=> NextSlot(j) = h)
           /\ Behind(x, p, j) => (Queued(j) \/ j = h) /\ j # t /\ j # p
  BY BufferedRing
<1>2. /\ block_buffer' = B
      /\ \A j \in Slots : j # h => SameBlock(buf[j], block_buffer[j])
      /\ \A j \in Slots : j # h /\ j # t => buf[j] = block_buffer[j]
      /\ buf[t].entry = IF pl_block /\ p = t THEN current_speed ELSE Tail.entry
  BY DEF Buffered, Tail
<1>3. /\ S \in [Slots -> Nat] /\ S[h] = 0
      /\ \A j \in Slots : j # h => S[j] = block_buffer[j].entry
      /\ Brakeable(S, buf, x, p)
  BY <1>1, BufferedBrakes
<1>4. \A j \in Slots : /\ block_buffer[j].entry \in Nat /\ block_buffer[j].length \in Nat
                       /\ block_buffer[j].max \in Nat
                       /\ buf[j].entry \in Nat /\ buf[j].length \in Nat
  BY SpeedTypes DEF Plans, BlockType
<1> HIDE DEF S
<1>5. ASSUME NEW j \in Slots, Behind(x, p, j)
      PROVE  S[j] <= (IF PrevSlot(j) = p THEN buf[p].entry ELSE S[PrevSlot(j)])
                     + buf[PrevSlot(j)].length
  <2> DEFINE q == PrevSlot(j)
             l == block_buffer[q].length
  <2>1. q \in Slots /\ NextSlot(q) = j
    BY RingSteps
  <2>2. CASE j = h
    <3>1. buf[p].entry \in Nat /\ S[q] \in Nat /\ buf[q].length \in Nat
      BY <1>1, <1>3, <1>4, <2>1
    <3> QED
      BY <1>3, <2>2, <3>1
  <2>3. CASE j # h
    <3>1. Queued(j) /\ j # t
      BY <1>1, <1>5, <2>3
    <3>2. Queued(q)
      BY <1>1, <3>1, QueueNeighbours DEF Queued
    <3>3. q # h /\ q # PrevSlot(h) /\ buf[q].length = l
      BY <1>1, <1>2, <2>1, <2>3, <3>2 DEF SameBlock
    <3>4. S[j] = Exit(block_buffer, h, q) /\ S[j] = block_buffer[j].entry
      BY <1>3, <2>1, <2>3, <3>3 DEF Exit
    <3>5. q # t => Exit(block_buffer, h, q) <= block_buffer[q].entry + l
      BY <2>1, <3>2 DEF SpeedInv, PlanInv
    <3>6. CASE q # t
      <4>1. S[q] = block_buffer[q].entry /\ buf[q] = block_buffer[q]
        BY <1>2, <1>3, <2>1, <3>3, <3>6
      <4> QED
        BY <3>3, <3>4, <3>5, <3>6, <4>1
    <3>7. CASE q = t
      <4>1. q = p
        <5>1. q # p => Behind(x, p, q)
          <6>1. /\ Plannable(x, p) \in Nat /\ Steps(p, j) \in 1 .. Plannable(x, p)
                /\ Steps(p, q) = Steps(p, j) - 1
                /\ Steps(p, j) = 1 <=> q = p
            BY <1>1, <1>5, BehindSteps
          <6> QED
            BY <6>1 DEF Behind
        <5> QED
          BY <1>1, <2>1, <3>7, <5>1
      <4>2. /\ current_speed \in Nat /\ exit_speed \in Nat /\ Nominal(Tail, half) \in Nat
            /\ Tail.length = l /\ l \in Nat /\ S[j] \in Nat
        BY <1>3, <1>4, <2>1, <3>7, SpeedTypes DEF Tail
      <4>3. CASE pl_block
        <5>1. hold = "none"
          BY <4>3 DEF Planned, SpeedInv, RestInv
        <5>2. buf[p].entry = current_speed
          BY <1>2, <3>7, <4>1, <4>3
        <5>3. /\ exit_speed <= current_speed + l
              /\ decel_override => /\ current_speed = exit_speed + l
                                   /\ Nominal(Tail, half) <= exit_speed
              /\ ~decel_override => exit_speed = S[j]
          BY <3>4, <3>7, <4>2, <4>3, <5>1 DEF SpeedInv, ProfileInv
        <5>4. S[j] <= Nominal(Tail, half)
          <6>1. Safe(j) /\ block_buffer[j].max <= Nominal(Tail, half)
            BY <3>1, <3>7 DEF StopsInv, SpeedInv, PlanInv, Tail
          <6>2. block_buffer[j].entry <= block_buffer[j].max
            BY <6>1 DEF Safe
          <6> QED
            BY <1>4, <3>4, <4>2, <6>1, <6>2
        <5>5. S[j] <= current_speed + l
          <6>1. CASE decel_override
            BY <4>2, <5>3, <5>4, <6>1
          <6>2. CASE ~decel_override
            BY <5>3, <6>2
          <6> QED
            BY <6>1, <6>2
        <5> QED
          BY <3>3, <4>1, <5>2, <5>5
      <4>4. CASE ~pl_block
        <5>1. buf[p].entry = Tail.entry
          BY <1>2, <3>7, <4>1, <4>4
        <5>2. Exit(block_buffer, h, t) <= Tail.entry + Tail.length
          BY <4>4 DEF SpeedInv, EntryInv
        <5> QED
          BY <3>3, <3>4, <3>7, <4>1, <4>2, <5>1, <5>2
      <4> QED
        BY <4>3, <4>4 DEF TypeInv
    <3> QED
      BY <3>6, <3>7
  <2> QED
    BY <2>2, <2>3
<1>6. Reachable(S, buf, x, p)
  BY <1>5 DEF Reachable
<1>7. CASE Behind(x, p, i)
  <2>1. S[i] <= B[i].entry
    BY <1>1, <1>3, <1>6, <1>7, ReplanImproves
  <2>2. S[i] = block_buffer[i].entry
    BY <1>1, <1>3
  <2> QED
    BY <1>2, <2>1, <2>2
<1>8. CASE ~ Behind(x, p, i)
  <2>1. block_buffer'[i] = block_buffer[i]
    BY <1>8, BufferedSlots
  <2> QED
    BY <1>4, <2>1
<1> QED
  BY <1>7, <1>8

\* The speeds that the machine could brake along still serve, and the new block ends at rest.
LEMMA BufferedBrakesOn ==
    ASSUME TypeInv, StopsInv, SpeedInv, ~Empty, BufferLine, TypeInv',
           NEW buf \in Plans, Buffered(buf)
    PROVE  BrakeInv'
<1> DEFINE h == block_buffer_head
           t == block_buffer_tail
           x == next_buffer_head
<1>1. /\ t' = t /\ h' = x /\ PrevSlot(x) = h /\ t # h
      /\ t \in Slots /\ h \in Slots /\ x \in Slots /\ Queued(t)
      /\ \A i \in Slots :
           /\ Queued(i)' <=> Queued(i) \/ i = h
           /\ Queued(i) => i # h
           /\ Queued(i) => (i = PrevSlot(h) <=> NextSlot(i) = h)
  BY BufferedRing
<1>2. UNCHANGED << half, current_speed, hold >> /\ Tail'.length = Tail.length
      /\ \A i \in Slots : i # h =>
           /\ block_buffer'[i].nominal = block_buffer[i].nominal
           /\ block_buffer'[i].junction = block_buffer[i].junction
           /\ block_buffer'[i].length = block_buffer[i].length
  BY BufferedSlots DEF BufferLine
<1>3. PICK G \in [Slots -> Nat] : Brakes(G)
  BY DEF SpeedInv, BrakeInv
<1>4. PICK F \in [Slots -> Nat] : F[h] = 0 /\ \A i \in Slots : i # h => F[i] = G[i]
  <2> DEFINE f == [G EXCEPT ![h] = 0]
  <2>1. f \in [Slots -> Nat] /\ f[h] = 0 /\ \A i \in Slots : i # h => f[i] = G[i]
    BY <1>1
  <2> HIDE DEF f
  <2> QED
    BY <2>1
<1>5. ASSUME NEW i \in Slots, Queued(i)
      PROVE  Leave(F, i)' = Leave(G, i)
  <2>1. i # h /\ NextSlot(i) \in Slots
    BY <1>1, <1>5, RingSteps
  <2>2. Leave(F, i)' = F[NextSlot(i)]
    BY <1>1, <2>1 DEF Leave
  <2>3. CASE i = PrevSlot(h)
    BY <1>1, <1>4, <1>5, <2>2, <2>3 DEF Leave
  <2>4. CASE i # PrevSlot(h)
    BY <1>1, <1>4, <1>5, <2>1, <2>2, <2>4 DEF Leave
  <2> QED
    BY <2>3, <2>4
<1>6. (\A i \in Slots : /\ block_buffer[i].entry \in Nat /\ block_buffer[i].length \in Nat
                        /\ block_buffer[i].junction \in Nat)'
  BY DEF TypeInv, Plans, BlockType
<1>7. ASSUME NEW i \in Slots, Queued(i)', i # t' PROVE Passable(F, i)'
  <2>1. CASE i = h
    <3>1. Leave(F, i)' = 0
      BY <1>1, <2>1 DEF Leave
    <3>2. F[i] = 0
      BY <1>4, <2>1
    <3>3. /\ block_buffer'[i].entry \in Nat /\ block_buffer'[i].length \in Nat
          /\ block_buffer'[i].junction \in Nat
      BY <1>6
    <3> QED
      BY <3>1, <3>2, <3>3 DEF Passable
  <2>2. CASE i # h
    <3>1. Queued(i) /\ i # t /\ Passable(G, i) /\ PrevSlot(i) \in Slots
      BY <1>1, <1>3, <1>7, <2>2, RingSteps DEF Brakes
    <3>2. PrevSlot(i) # h
      BY <1>1, <3>1, QueueNeighbours DEF Queued
    <3>3. /\ F[i] = G[i] /\ Leave(F, i)' = Leave(G, i)
          /\ block_buffer'[i].length = block_buffer[i].length
          /\ block_buffer'[i].junction = block_buffer[i].junction
          /\ Nominal(block_buffer[PrevSlot(i)], half)' = Nominal(block_buffer[PrevSlot(i)], half)
          /\ Planned' = Planned
      BY <1>2, <1>4, <1>5, <2>2, <3>1, <3>2 DEF Nominal, Planned
    <3>4. Planned => \/ F[i] <= block_buffer'[i].entry
                     \/ Nominal(block_buffer[PrevSlot(i)], half) <= block_buffer'[i].entry
      <4> SUFFICES ASSUME Planned
                   PROVE  \/ F[i] <= block_buffer'[i].entry
                          \/ Nominal(block_buffer[PrevSlot(i)], half) <= block_buffer'[i].entry
        OBVIOUS
      <4> DEFINE e == block_buffer[i].entry
                 f == block_buffer'[i].entry
                 n == Nominal(block_buffer[PrevSlot(i)], half)
      <4>1. e <= f
        BY <3>1, BufferedImproves
      <4>2. F[i] <= e \/ n <= e
        BY <3>1, <3>3 DEF Passable
      <4>3. e \in Nat /\ f \in Nat /\ n \in Nat /\ F[i] \in Nat
        BY <1>4, <1>6, <3>1, SpeedTypes
      <4> HIDE DEF e, f, n
      <4>4. F[i] <= f \/ n <= f
        BY <4>1, <4>2, <4>3
      <4> QED
        BY <4>4 DEF f, n
    <3> QED
      BY <3>1, <3>3, <3>4 DEF Passable
  <2> QED
    BY <2>1, <2>2
<1>8. ~Empty' => current_speed' <= Leave(F, t)' + Tail'.length
  BY <1>1, <1>2, <1>3, <1>5 DEF Brakes
<1>9. Brakes(F)'
  BY <1>1, <1>7, <1>8 DEF Brakes
<1> QED
  BY <1>4, <1>9 DEF BrakeInv

\* A block more keeps the invariant.
LEMMA BufferLineSpeed ==
    TypeInv /\ TypeInv' /\ StopsInv /\ StopsInv' /\ SpeedInv /\ BufferLine => SpeedInv'
<1> SUFFICES ASSUME TypeInv, TypeInv', StopsInv, StopsInv', SpeedInv, BufferLine
             PROVE  SpeedInv'
  OBVIOUS
<1> DEFINE h == block_buffer_head
           t == block_buffer_tail
           p == block_buffer_planned
           x == next_buffer_head
<1>1. PICK buf \in Plans : Buffered(buf)
  BY BufferLineShape
<1>2. UNCHANGED << half, decel_override, current_speed, exit_speed, hold >>
  BY DEF BufferLine
<1>3. /\ PlanInv /\ RestInv /\ EntryInv /\ ProfileInv
      /\ pl_block \in BOOLEAN /\ recalculate \in BOOLEAN /\ current_speed \in Nat
  BY DEF SpeedInv, TypeInv
<1>4. CASE Empty
  <2>1. /\ t' = t /\ h' = NextSlot(t) /\ t \in Slots /\ t = PrevSlot(h')
        /\ ~Empty' /\ ~pl_block' /\ recalculate' = recalculate
        /\ \A i \in Slots : Queued(i)' <=> i = t
        /\ Tail'.entry = 0 /\ previous_nominal' = Nominal(Tail, half)'
    BY <1>1, <1>4, FirstBlock
  <2>2. current_speed = 0 /\ ~recalculate /\ exit_speed = 0 /\ hold \in {"none", "execute"}
    BY <1>3, <1>4 DEF RestInv, EntryInv, TypeInv
  <2>3. Exits'
    BY ExitsNext
  <2>4. Exit(block_buffer', h', t') = 0 /\ Tail'.length \in Nat
    BY <2>1, <2>3 DEF Exits, Exit, Tail
  <2>5. PlanInv'
    BY <2>1 DEF PlanInv, Tail
  <2>6. RestInv'
    BY <1>2, <2>1, <2>2 DEF RestInv
  <2>7. EntryInv'
    BY <1>2, <2>1, <2>2, <2>4 DEF EntryInv
  <2>8. ProfileInv'
    BY <2>1 DEF ProfileInv
  <2>9. PlanFits'
    BY <1>2, <2>2, <2>4 DEF PlanFits
  <2>10. BrakeInv'
    BY <2>5, <2>9, PlanBrakesNext
  <2> QED
    BY <2>5, <2>6, <2>7, <2>8, <2>10 DEF SpeedInv
<1>5. CASE ~Empty
  <2>1. /\ t' = t /\ h' = x /\ PrevSlot(x) = h /\ t # h /\ ~Empty'
        /\ t \in Slots /\ h \in Slots /\ x \in Slots /\ Queued(t)
        /\ p = t => Behind(x, p, NextSlot(t))
        /\ p # t => ~ Behind(x, p, NextSlot(t))
        /\ \A i \in Slots :
             /\ Queued(i)' <=> Queued(i) \/ i = h
             /\ Queued(i) => i # h
             /\ Queued(i) /\ ~ Behind(x, p, NextSlot(i)) => ~ Behind(x, p, i)
    BY <1>1, <1>5, BufferedRing
  <2>2. /\ Tail'.entry = IF pl_block /\ p = t THEN current_speed ELSE Tail.entry
        /\ Tail'.length = Tail.length /\ Tail'.nominal = Tail.nominal
        /\ \A i \in Slots :
             /\ i # h => /\ block_buffer'[i].nominal = block_buffer[i].nominal
                         /\ block_buffer'[i].max = block_buffer[i].max
             /\ Queued(i) /\ i # t /\ ~ Behind(x, p, i) => block_buffer'[i] = block_buffer[i]
             /\ Queued(i) /\ ~ Behind(x, p, NextSlot(i)) =>
                  Exit(block_buffer', h', i) = Exit(block_buffer, h, i)
             /\ Behind(x, p, NextSlot(i)) \/ i = h =>
                  Exit(block_buffer', h', i) <= block_buffer'[i].entry + block_buffer'[i].length
    BY <1>1, <1>5, BufferedSlots
  <2>3. pl_block' = (pl_block /\ p # t) /\ recalculate' = (recalculate \/ (pl_block /\ ~ pl_block'))
    BY <1>1 DEF Buffered
  <2>4. PlanInv'
    <3>1. ASSUME NEW i \in Slots, Queued(i)', i # t'
          PROVE  block_buffer'[i].max <= Nominal(block_buffer[PrevSlot(i)], half)'
      <4>1. PrevSlot(i) \in Slots
        BY RingSteps
      <4>2. CASE i # h
        <5>1. Queued(i) /\ i # t /\ PrevSlot(i) # h
          BY <2>1, <3>1, <4>2, QueueNeighbours DEF Queued
        <5> QED
          BY <1>2, <1>3, <2>2, <4>1, <4>2, <5>1 DEF PlanInv, Nominal
      <4>3. CASE i = h
        <5>1. buf[h].max <= Nominal(block_buffer[PrevSlot(h)], half)
          BY <1>1, <1>3, <1>5 DEF Buffered, PlanInv
        <5>2. block_buffer'[h].max = buf[h].max
          BY <1>1, <2>1, ReplanSlots DEF Buffered, TypeInv
        <5>3. PrevSlot(h) # h
          BY <2>1, <4>1, <4>3, QueueEnds, QueueNeighbours
        <5>4. Nominal(block_buffer[PrevSlot(h)], half)' = Nominal(block_buffer[PrevSlot(h)], half)'
          OBVIOUS
        <5>5. block_buffer'[PrevSlot(h)].nominal = block_buffer[PrevSlot(h)].nominal
          BY <2>2, <4>1, <4>3, <5>3
        <5> QED
          BY <1>2, <4>3, <5>1, <5>2, <5>5 DEF Nominal
      <4> QED
        BY <4>2, <4>3
    <3>2. ASSUME NEW i \in Slots, Queued(i)', i # t'
          PROVE  Exit(block_buffer', h', i) <= block_buffer'[i].entry + block_buffer'[i].length
      <4>1. CASE Behind(x, p, NextSlot(i)) \/ i = h
        BY <2>2, <4>1
      <4>2. CASE ~ (Behind(x, p, NextSlot(i)) \/ i = h)
        <5>1. Queued(i) /\ i # t /\ ~ Behind(x, p, NextSlot(i)) /\ ~ Behind(x, p, i)
          BY <2>1, <3>2, <4>2
        <5>2. Exit(block_buffer', h', i) = Exit(block_buffer, h, i)
              /\ block_buffer'[i] = block_buffer[i]
          BY <2>2, <5>1
        <5> QED
          BY <1>3, <5>1, <5>2 DEF PlanInv
      <4> QED
        BY <4>1, <4>2
    <3>3. previous_nominal' = Nominal(block_buffer[PrevSlot(block_buffer_head)], half)'
      <4>1. previous_nominal' = Nominal(buf[h], half)
        BY <1>1 DEF Buffered
      <4>2. block_buffer'[h].nominal = buf[h].nominal
        BY <1>1, <2>1, ReplanSlots DEF Buffered, TypeInv
      <4> QED
        BY <1>2, <2>1, <4>1, <4>2 DEF Nominal
    <3> QED
      BY <3>1, <3>2, <3>3 DEF PlanInv
  <2>5. RestInv'
    BY <1>2, <1>3, <2>1, <2>3 DEF RestInv
  <2>6. EntryInv'
    <3>1. ~pl_block' /\ ~recalculate' => exit_speed' = current_speed'
      BY <1>2, <1>3, <2>3 DEF EntryInv
    <3>2. ~pl_block' /\ (recalculate' \/ Planned') =>
            /\ Tail'.entry <= current_speed'
            /\ recalculate' \/ ~decel_override' => Tail'.entry = current_speed'
      <4>1. CASE pl_block /\ p = t
        <5>1. Tail'.entry = current_speed' /\ current_speed <= current_speed
          BY <1>2, <1>3, <2>2, <4>1
        <5> QED
          BY <1>2, <5>1
      <4>2. CASE pl_block /\ p # t
        BY <2>3, <4>2
      <4>3. CASE ~pl_block
        <5>1. recalculate' = recalculate /\ Tail'.entry = Tail.entry /\ Planned' = Planned
          BY <1>2, <1>3, <2>2, <2>3, <4>3 DEF Planned
        <5> QED
          BY <1>2, <1>3, <1>5, <4>3, <5>1 DEF EntryInv
      <4> QED
        BY <1>3, <4>1, <4>2, <4>3
    <3>3. ~pl_block' /\ Planned' =>
            Exit(block_buffer', h', t') <= Tail'.entry + Tail'.length
      <4>1. CASE p = t
        BY <2>1, <2>2, <4>1 DEF Tail
      <4>2. CASE p # t
        <5> SUFFICES ASSUME ~pl_block', Planned'
                     PROVE  Exit(block_buffer', h', t') <= Tail'.entry + Tail'.length
          OBVIOUS
        <5>1. ~pl_block /\ Planned
          BY <1>2, <1>3, <2>3, <4>2 DEF Planned
        <5>2. Exit(block_buffer', h', t') = Exit(block_buffer, h, t)
          BY <2>1, <2>2, <4>2
        <5>3. Tail'.entry = Tail.entry
          BY <2>2, <5>1
        <5> QED
          BY <1>3, <1>5, <2>2, <5>1, <5>2, <5>3 DEF EntryInv
      <4> QED
        BY <4>1, <4>2
    <3> QED
      BY <3>1, <3>2, <3>3 DEF EntryInv
  <2>7. ProfileInv'
    <3> SUFFICES ASSUME pl_block' PROVE ProfileInv'
      BY DEF ProfileInv
    <3>1. pl_block /\ p # t
      BY <2>3
    <3>2. Exit(block_buffer', h', t') = Exit(block_buffer, h, t)
      BY <2>1, <2>2, <3>1
    <3>3. Nominal(Tail, half)' = Nominal(Tail, half)
      BY <1>2, <2>2 DEF Nominal
    <3> QED
      BY <1>2, <1>3, <2>2, <3>1, <3>2, <3>3 DEF ProfileInv
  <2>8. BrakeInv'
    BY <1>1, <1>5, BufferedBrakesOn
  <2> QED
    BY <2>4, <2>5, <2>6, <2>7, <2>8 DEF SpeedInv
<1> QED
  BY <1>4, <1>5

-----------------------------------------------------------------------------
(* All steps.                                                              *)

\* A step that asks no more of the machine than its acceleration.
SpeedStep ==
    \/ Reset
    \/ Advance /\ current_speed' - current_speed \in -1 .. 1
    \/ current_speed' = current_speed

\* Every step keeps the invariant and is such a step.
LEMMA NextSpeed ==
    /\ TypeInv /\ TypeInv' /\ StopsInv /\ StopsInv' /\ SpeedInv
    /\ [Next /\ (Override => Calm)]_vars
    => SpeedInv' /\ [SpeedStep]_vars
<1> SUFFICES ASSUME TypeInv, TypeInv', StopsInv, StopsInv', SpeedInv,
                    [Next /\ (Override => Calm)]_vars
             PROVE  SpeedInv' /\ SpeedStep
  OBVIOUS
<1>1. CASE BufferLine
  BY <1>1, BufferLineSpeed DEF BufferLine, SpeedStep
<1>2. CASE Override /\ Calm
  BY <1>2, OverrideSpeed DEF Override, SpeedStep
<1>3. CASE BeginHold
  BY <1>3, BeginHoldSpeed DEF BeginHold, SpeedStep
<1>4. CASE CycleStop
  BY <1>4, CycleStopSpeed DEF CycleStop, SpeedStep
<1>5. CASE CycleStart \/ EndMotion
  BY <1>5, HoldSpeed DEF CycleStart, EndMotion, prep, SpeedStep
<1>6. CASE Reset
  BY <1>6, ResetSpeed DEF SpeedStep
<1>7. CASE Load
  BY <1>7, LoadSpeed DEF SpeedStep
<1>8. CASE Reload
  BY <1>8, ReloadSpeed DEF Reload, SpeedStep
<1>9. CASE Advance
  BY <1>9, WithinBlock, EndOfBlock DEF SpeedStep
<1>10. CASE UNCHANGED vars
  BY <1>10, StutterSpeed DEF vars, prep, SpeedStep
<1> QED
  BY <1>1, <1>2, <1>3, <1>4, <1>5, <1>6, <1>7, <1>8, <1>9, <1>10 DEF Next

\* As long as the override changes only while one feed rate is queued, and not between two
\* blocks that are still coming down to it, no plan made anew under a moving block, no hold
\* and no block that queues or ends asks more of the machine than its acceleration.
THEOREM MachineFollows == CalmSpec => AccelerationRespected
<1> DEFINE I == TypeInv /\ StopsInv /\ SpeedInv
<1>1. Init => I
  BY InitType, InitStops, InitSpeed
<1>2. I /\ [Next /\ (Override => Calm)]_vars => I' /\ [SpeedStep]_vars
  <2>1. I /\ [Next /\ (Override => Calm)]_vars => TypeInv' /\ StopsInv'
    BY NextType, NextStops DEF Calm
  <2> QED
    BY <2>1, NextSpeed
<1>3. CalmSpec => [][SpeedStep]_vars
  <2> HIDE DEF I
  <2> QED
    BY <1>1, <1>2, PTL DEF CalmSpec
<1> QED
  BY <1>3 DEF AccelerationRespected, SpeedStep
=============================================================================
