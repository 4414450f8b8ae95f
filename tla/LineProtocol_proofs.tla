------------------------- MODULE LineProtocol_proofs -------------------------
(***************************************************************************)
(* Proofs about the line protocol, for every size of the ring and of the   *)
(* line buffer, every set of lines and any number of lines and resets:     *)
(* the types, that the ring keeps every character of a host that counts    *)
(* them, and that every step is one of the stream of commands of           *)
(* CommandStream, with its late and its missing answers.  The last two are *)
(* about lines a host can count on (Proper): they close their comments,    *)
(* fit the line buffer and are none of the "$C" lines.                     *)
(***************************************************************************)
EXTENDS LineProtocol, SequenceTheorems, WellFoundedInduction, TLAPS

-----------------------------------------------------------------------------
(* Induction over an interval, for sets instead of predicates.             *)

\* A set of natural numbers that is not empty has a least element.
LEMMA LeastNatural ==
    ASSUME NEW T, T \subseteq Nat, T # {}
    PROVE  \E m \in T : \A n \in T : m <= n
<1>1. \E x \in T : \A y \in T : <<y, x>> \notin OpToRel(<, Nat)
  BY NatLessThanWellFounded, WFMin
<1>2. PICK x \in T : \A y \in T : <<y, x>> \notin OpToRel(<, Nat)
  BY <1>1
<1>3. \A y \in T : ~ (y < x)
  BY <1>2 DEF OpToRel
<1> QED
  BY <1>3

\* A set that holds 0 and with every number the next one holds 0 .. n.
LEMMA UpTo ==
    ASSUME NEW n \in Nat, NEW S, 0 \in S, \A k \in 1 .. n : k - 1 \in S => k \in S
    PROVE  \A k \in 0 .. n : k \in S
<1> DEFINE T == {k \in 0 .. n : k \notin S}
<1> SUFFICES ASSUME T # {} PROVE FALSE
  OBVIOUS
<1>1. T \subseteq Nat
  OBVIOUS
<1>2. PICK m \in T : \A k \in T : m <= k
  BY <1>1, LeastNatural
<1>3. m \in 1 .. n /\ m - 1 \in 0 .. n /\ m \notin S
  BY <1>2
<1>4. m - 1 \in S
  BY <1>2, <1>3
<1> QED
  BY <1>3, <1>4

-----------------------------------------------------------------------------
(* FlattenSeq of the community modules, for sequences over any set.        *)

\* s followed by t, as an operator of its own for the provers.
Cat(s, t) == s \o t

\* Its type, its length and its neutral element.
LEMMA CatType ==
    ASSUME NEW C, NEW s \in Seq(C), NEW t \in Seq(C)
    PROVE  /\ Cat(s, t) \in Seq(C)
           /\ Len(Cat(s, t)) = Len(s) + Len(t)
           /\ Cat(s, << >>) = s /\ Cat(<< >>, s) = s
  BY ConcatProperties, ConcatEmptySeq DEF Cat

\* It is associative.
LEMMA CatAssociative ==
    ASSUME NEW C, NEW s \in Seq(C), NEW t \in Seq(C), NEW u \in Seq(C)
    PROVE  Cat(Cat(s, t), u) = Cat(s, Cat(t, u))
  BY ConcatAssociative DEF Cat

\* f is what the first n sequences of s make, for every n.
Joins(s, f) == /\ f[0] = << >>
               /\ \A k \in 1 .. Len(s) : f[k] = Cat(f[k - 1], s[k])

\* There is such a function.
LEMMA JoinsExist ==
    ASSUME NEW C, NEW s \in Seq(Seq(C))
    PROVE  \E f \in [0 .. Len(s) -> Seq(C)] : Joins(s, f)
<1> DEFINE n == Len(s)
           S == {m \in 0 .. n : \E f \in [0 .. m -> Seq(C)] :
                   f[0] = << >> /\ \A k \in 1 .. m : f[k] = Cat(f[k - 1], s[k])}
<1>1. n \in Nat /\ \A k \in 1 .. n : s[k] \in Seq(C)
  OBVIOUS
<1>2. 0 \in S
  <2> DEFINE f == [k \in 0 .. 0 |-> << >>]
  <2>1. f \in [0 .. 0 -> Seq(C)] /\ f[0] = << >>
    BY EmptySeq
  <2>2. \A k \in 1 .. 0 : f[k] = Cat(f[k - 1], s[k])
    OBVIOUS
  <2> HIDE DEF f
  <2> QED
    BY <1>1, <2>1, <2>2
<1>3. ASSUME NEW m \in 1 .. n, m - 1 \in S PROVE m \in S
  <2>1. PICK f \in [0 .. m - 1 -> Seq(C)] :
          f[0] = << >> /\ \A k \in 1 .. m - 1 : f[k] = Cat(f[k - 1], s[k])
    BY <1>3
  <2> DEFINE x == Cat(f[m - 1], s[m])
             g == [k \in 0 .. m |-> IF k = m THEN x ELSE f[k]]
  <2>2. x \in Seq(C)
    <3>1. f[m - 1] \in Seq(C) /\ s[m] \in Seq(C)
      BY <1>1, <1>3, <2>1
    <3> QED
      BY <3>1, CatType
  <2> HIDE DEF x
  <2>3. g \in [0 .. m -> Seq(C)]
    BY <1>1, <1>3, <2>2
  <2>4. g[0] = << >>
    BY <1>1, <1>3, <2>1
  <2>5. \A k \in 1 .. m : g[k] = Cat(g[k - 1], s[k])
    <3> SUFFICES ASSUME NEW k \in 1 .. m PROVE g[k] = Cat(g[k - 1], s[k])
      OBVIOUS
    <3>1. g[k - 1] = f[k - 1]
      BY <1>1, <1>3
    <3>2. CASE k = m
      BY <3>1, <3>2 DEF x
    <3>3. CASE k # m
      <4>1. k \in 1 .. m - 1 /\ g[k] = f[k]
        BY <1>1, <1>3, <3>3
      <4> QED
        BY <2>1, <3>1, <4>1
    <3> QED
      BY <3>2, <3>3
  <2> HIDE DEF g
  <2>6. \E h \in [0 .. m -> Seq(C)] :
          h[0] = << >> /\ \A k \in 1 .. m : h[k] = Cat(h[k - 1], s[k])
    BY <2>3, <2>4, <2>5
  <2>7. m \in 0 .. n
    BY <1>1, <1>3
  <2> QED
    BY <2>6, <2>7
<1> HIDE DEF S
<1>4. \A k \in 0 .. n : k \in S
  BY <1>1, <1>2, <1>3, UpTo
<1>5. n \in S
  BY <1>1, <1>4
<1> QED
  BY <1>5 DEF S, Joins

\* There is one only.
LEMMA JoinsOnce ==
    ASSUME NEW s, Len(s) \in Nat, NEW f, Joins(s, f), NEW g, Joins(s, g)
    PROVE  \A k \in 0 .. Len(s) : f[k] = g[k]
<1> DEFINE S == {k \in 0 .. Len(s) : f[k] = g[k]}
<1>1. 0 \in S
  BY DEF Joins
<1>2. ASSUME NEW k \in 1 .. Len(s), k - 1 \in S PROVE k \in S
  BY <1>2 DEF Joins
<1> HIDE DEF S
<1>3. \A k \in 0 .. Len(s) : k \in S
  BY <1>1, <1>2, UpTo
<1> QED
  BY <1>3 DEF S

\* FlattenSeq is its last value.
LEMMA FlattenIs ==
    ASSUME NEW C, NEW s \in Seq(Seq(C)), NEW f, Joins(s, f)
    PROVE  FlattenSeq(s) = f[Len(s)]
<1> DEFINE n == Len(s)
<1>0. n \in Nat
  OBVIOUS
<1>1. CASE n = 0
  <2>1. s = << >> /\ FlattenSeq(s) = s
    BY <1>1, EmptySeq DEF FlattenSeq
  <2> QED
    BY <1>1, <2>1 DEF Joins
<1>2. CASE n # 0
  <2> DEFINE Is(h) == h = [i \in 1 .. n |-> IF i = 1 THEN s[i] ELSE Cat(h[i - 1], s[i])]
             g == CHOOSE h : Is(h)
  <2>1. FlattenSeq(s) = g[n]
    BY <1>2 DEF FlattenSeq, Cat
  <2>2. PICK j \in [0 .. n -> Seq(C)] : Joins(s, j)
    BY JoinsExist
  <2> DEFINE h == [k \in 1 .. n |-> j[k]]
  <2>3. Is(h)
    <3>1. ASSUME NEW i \in 1 .. n
          PROVE  j[i] = IF i = 1 THEN s[i] ELSE Cat(h[i - 1], s[i])
      <4>1. j[i] = Cat(j[i - 1], s[i])
        BY <2>2 DEF Joins
      <4>2. CASE i = 1
        <5>1. j[i] = Cat(<< >>, s[i]) /\ s[i] \in Seq(C)
          BY <2>2, <4>1, <4>2 DEF Joins
        <5> QED
          BY <4>2, <5>1, CatType
      <4>3. CASE i # 1
        BY <1>0, <4>1, <4>3
      <4> QED
        BY <4>2, <4>3
    <3> QED
      BY <3>1
  <2>4. Is(g)
    <3> HIDE DEF Is, h
    <3> QED
      BY <2>3
  <2> DEFINE e == [k \in 0 .. n |-> IF k = 0 THEN << >> ELSE g[k]]
  <2> HIDE DEF g
  <2>5. Joins(s, e)
    <3>1. ASSUME NEW k \in 1 .. n PROVE e[k] = Cat(e[k - 1], s[k])
      <4>1. e[k] = IF k = 1 THEN s[k] ELSE Cat(g[k - 1], s[k])
        <5>1. g[k] = IF k = 1 THEN s[k] ELSE Cat(g[k - 1], s[k])
          BY <2>4
        <5> QED
          BY <1>0, <5>1
      <4>2. CASE k = 1
        <5>1. s[k] \in Seq(C) /\ e[k - 1] = << >>
          BY <1>0, <4>2
        <5> QED
          BY <4>1, <4>2, <5>1, CatType
      <4>3. CASE k # 1
        BY <1>0, <4>1, <4>3
      <4> QED
        BY <4>2, <4>3
    <3>2. e[0] = << >>
      BY <1>0
    <3> QED
      BY <3>1, <3>2 DEF Joins
  <2>6. e[n] = f[n]
    <3> HIDE DEF e
    <3> QED
      BY <1>0, <2>5, JoinsOnce
  <2>7. e[n] = g[n]
    BY <1>0, <1>2
  <2> QED
    BY <2>1, <2>6, <2>7
<1> QED
  BY <1>1, <1>2

\* It is a sequence of the same elements.
LEMMA FlattenType ==
    ASSUME NEW C, NEW s \in Seq(Seq(C))
    PROVE  FlattenSeq(s) \in Seq(C) /\ FlattenSeq(<< >>) = << >>
<1>1. PICK f \in [0 .. Len(s) -> Seq(C)] : Joins(s, f)
  BY JoinsExist
<1>2. FlattenSeq(s) = f[Len(s)] /\ Len(s) \in 0 .. Len(s)
  BY <1>1, FlattenIs
<1>3. FlattenSeq(<< >>) = << >>
  BY EmptySeq DEF FlattenSeq
<1> QED
  BY <1>1, <1>2, <1>3

\* A sequence behind the others is joined behind them.
LEMMA FlattenAppend ==
    ASSUME NEW C, NEW s \in Seq(Seq(C)), NEW l \in Seq(C)
    PROVE  FlattenSeq(Append(s, l)) = Cat(FlattenSeq(s), l)
<1> DEFINE t == Append(s, l)
<1>1. /\ t \in Seq(Seq(C)) /\ Len(t) = Len(s) + 1 /\ Len(s) \in Nat
      /\ t[Len(t)] = l /\ \A i \in 1 .. Len(s) : t[i] = s[i]
  BY AppendProperties
<1> HIDE DEF t
<1>2. PICK f \in [0 .. Len(t) -> Seq(C)] : Joins(t, f)
  BY <1>1, JoinsExist
<1>3. Joins(s, f)
  <2> DEFINE n == Len(s)
  <2>1. n \in Nat /\ Len(t) = n + 1 /\ \A i \in 1 .. n : t[i] = s[i]
    BY <1>1
  <2>2. f[0] = << >> /\ \A k \in 1 .. Len(t) : f[k] = Cat(f[k - 1], t[k])
    BY <1>2 DEF Joins
  <2> HIDE DEF n
  <2>3. ASSUME NEW k \in 1 .. n PROVE f[k] = Cat(f[k - 1], s[k])
    <3>1. k \in 1 .. Len(t) /\ t[k] = s[k]
      BY <2>1
    <3> QED
      BY <2>2, <3>1
  <2> QED
    BY <2>2, <2>3 DEF Joins, n
<1>4. FlattenSeq(t) = f[Len(t)] /\ FlattenSeq(s) = f[Len(s)]
  <2>1. FlattenSeq(t) = f[Len(t)]
    BY <1>1, <1>2, FlattenIs
  <2>2. FlattenSeq(s) = f[Len(s)]
    BY <1>3, FlattenIs
  <2> QED
    BY <2>1, <2>2
<1>5. f[Len(t)] = Cat(f[Len(s)], l)
  BY <1>1, <1>2 DEF Joins
<1> QED
  BY <1>4, <1>5 DEF t

\* The first sequence is joined in front of the others.
LEMMA FlattenHead ==
    ASSUME NEW C, NEW s \in Seq(Seq(C)), s # << >>
    PROVE  FlattenSeq(s) = Cat(Head(s), FlattenSeq(Tail(s)))
<1> DEFINE t == Tail(s)
           l == Head(s)
           n == Len(t)
<1>1. /\ t \in Seq(Seq(C)) /\ l \in Seq(C) /\ n \in Nat /\ Len(s) = n + 1
      /\ l = s[1] /\ \A i \in 1 .. n : t[i] = s[i + 1] /\ t[i] \in Seq(C)
  <2>1. Tail(s) \in Seq(Seq(C)) /\ Len(Tail(s)) = Len(s) - 1 /\ Head(s) \in Seq(C)
        /\ \A i \in 1 .. Len(Tail(s)) : Tail(s)[i] = s[i + 1]
    BY HeadTailProperties
  <2>2. Len(s) \in Nat /\ Len(Tail(s)) \in Nat /\ Head(s) = s[1]
    BY <2>1
  <2>3. \A i \in 1 .. Len(Tail(s)) : Tail(s)[i] \in Seq(C)
    BY <2>1
  <2> QED
    BY <2>1, <2>2, <2>3
<1> HIDE DEF t, l
<1>2. PICK f \in [0 .. Len(s) -> Seq(C)] : Joins(s, f)
  BY JoinsExist
<1>3. PICK g \in [0 .. n -> Seq(C)] : Joins(t, g)
  BY <1>1, JoinsExist
<1> DEFINE S == {k \in 0 .. n : f[k + 1] = Cat(l, g[k])}
<1>4. 0 \in S
  <2>1. f[1] = Cat(<< >>, l) /\ g[0] = << >>
    BY <1>1, <1>2, <1>3 DEF Joins
  <2>2. f[1] = Cat(l, g[0])
    BY <1>1, <2>1, CatType
  <2> QED
    BY <1>1, <2>2
<1>5. ASSUME NEW k \in 1 .. n, k - 1 \in S PROVE k \in S
  <2>1. f[k] = Cat(l, g[k - 1])
    BY <1>1, <1>5
  <2>2. f[k + 1] = Cat(f[k], s[k + 1])
    <3>1. k + 1 \in 1 .. Len(s) /\ (k + 1) - 1 = k
      BY <1>1
    <3> QED
      BY <1>2, <3>1 DEF Joins
  <2>3. g[k] = Cat(g[k - 1], t[k]) /\ t[k] = s[k + 1]
    BY <1>1, <1>3 DEF Joins
  <2>4. g[k - 1] \in Seq(C) /\ t[k] \in Seq(C)
    <3>1. k - 1 \in 0 .. n
      BY <1>1
    <3> QED
      BY <1>1, <1>3, <3>1
  <2>5. Cat(Cat(l, g[k - 1]), t[k]) = Cat(l, Cat(g[k - 1], t[k]))
    BY <1>1, <2>4, CatAssociative
  <2> QED
    BY <2>1, <2>2, <2>3, <2>5
<1> HIDE DEF S
<1>6. \A k \in 0 .. n : k \in S
  BY <1>1, <1>4, <1>5, UpTo
<1>7. f[n + 1] = Cat(l, g[n])
  BY <1>1, <1>6 DEF S
<1>8. FlattenSeq(s) = f[n + 1] /\ FlattenSeq(t) = g[n]
  BY <1>1, <1>2, <1>3, FlattenIs
<1> QED
  BY <1>7, <1>8 DEF l, t

-----------------------------------------------------------------------------
(* Picked: some characters of a sequence.                                  *)

\* What is joined for it.
Singles(s, P) == [i \in DOMAIN s |-> IF i \in P THEN << s[i] >> ELSE << >>]

\* One sequence for every character.
LEMMA SinglesType ==
    ASSUME NEW C, NEW s \in Seq(C), NEW P
    PROVE  /\ Singles(s, P) \in Seq(Seq(C)) /\ Len(Singles(s, P)) = Len(s)
           /\ \A i \in 1 .. Len(s) :
                Singles(s, P)[i] = IF i \in P THEN << s[i] >> ELSE << >>
           /\ Picked(s, P) = FlattenSeq(Singles(s, P))
<1> DEFINE n == Len(s)
           f == Singles(s, P)
<1>1. n \in Nat /\ DOMAIN s = 1 .. n /\ \A i \in 1 .. n : s[i] \in C
  BY LenProperties
<1>2. \A x \in C : << x >> \in Seq(C) /\ << >> \in Seq(C)
  BY EmptySeq
<1>3. << >> \in Seq(C)
  BY EmptySeq
<1>4. f \in [1 .. n -> Seq(C)]
  BY <1>1, <1>2, <1>3 DEF Singles
<1>5. \A i \in 1 .. n : f[i] = IF i \in P THEN << s[i] >> ELSE << >>
  BY <1>1 DEF Singles
<1>6. Picked(s, P) = FlattenSeq(f)
  BY DEF Picked, Singles
<1> HIDE DEF f
<1>7. f \in Seq(Seq(C)) /\ Len(f) = n
  BY <1>1, <1>4, SeqDef
<1> QED
  BY <1>5, <1>6, <1>7 DEF f

\* They are a sequence of the same elements.
LEMMA PickedType ==
    ASSUME NEW C, NEW s \in Seq(C), NEW P
    PROVE  Picked(s, P) \in Seq(C)
  BY SinglesType, FlattenType

\* Nothing is picked from nothing.
LEMMA PickedEmpty == \A P : Picked(<< >>, P) = << >>
<1> SUFFICES ASSUME NEW P PROVE Picked(<< >>, P) = << >>
  OBVIOUS
<1>1. << >> \in Seq({}) /\ Len(<< >>) = 0
  BY EmptySeq
<1>2. /\ Singles(<< >>, P) \in Seq(Seq({})) /\ Len(Singles(<< >>, P)) = 0
      /\ Picked(<< >>, P) = FlattenSeq(Singles(<< >>, P))
  BY <1>1, SinglesType
<1>3. Singles(<< >>, P) = << >>
  BY <1>2, EmptySeq
<1> QED
  BY <1>2, <1>3, FlattenType

\* The places of the sequence alone matter.
LEMMA PickedPlaces ==
    ASSUME NEW C, NEW s \in Seq(C), NEW P, NEW Q,
           \A i \in 1 .. Len(s) : i \in P <=> i \in Q
    PROVE  Picked(s, P) = Picked(s, Q)
<1>1. Singles(s, P) = Singles(s, Q)
  BY LenProperties DEF Singles
<1> QED
  BY <1>1, SinglesType

\* One character more.
LEMMA PickedAppend ==
    ASSUME NEW C, NEW s \in Seq(C), NEW x \in C, NEW P
    PROVE  Picked(Append(s, x), P)
             = IF Len(s) + 1 \in P THEN Append(Picked(s, P), x) ELSE Picked(s, P)
<1> DEFINE t == Append(s, x)
           n == Len(s)
           e == IF n + 1 \in P THEN << x >> ELSE << >>
<1>1. /\ t \in Seq(C) /\ n \in Nat /\ Len(t) = n + 1 /\ t[n + 1] = x
      /\ \A i \in 1 .. n : t[i] = s[i]
  BY AppendProperties
<1> HIDE DEF t
<1>2. << x >> \in Seq(C) /\ << >> \in Seq(C)
  BY EmptySeq
<1>3. e \in Seq(C)
  BY <1>2
<1>4. /\ Singles(s, P) \in Seq(Seq(C)) /\ Len(Singles(s, P)) = n
      /\ \A i \in 1 .. n : Singles(s, P)[i] = IF i \in P THEN << s[i] >> ELSE << >>
      /\ Picked(s, P) = FlattenSeq(Singles(s, P))
  BY SinglesType
<1>5. /\ Singles(t, P) \in Seq(Seq(C)) /\ Len(Singles(t, P)) = n + 1
      /\ \A i \in 1 .. n + 1 : Singles(t, P)[i] = IF i \in P THEN << t[i] >> ELSE << >>
      /\ Picked(t, P) = FlattenSeq(Singles(t, P))
  BY <1>1, SinglesType
<1> DEFINE a == Append(Singles(s, P), e)
<1> HIDE DEF e
<1>6. /\ a \in Seq(Seq(C)) /\ Len(a) = n + 1 /\ a[n + 1] = e
      /\ \A i \in 1 .. n : a[i] = Singles(s, P)[i]
  BY <1>3, <1>4, AppendProperties
<1> HIDE DEF a
<1>7. \A i \in 1 .. n + 1 : Singles(t, P)[i] = a[i]
  <2> SUFFICES ASSUME NEW i \in 1 .. n + 1 PROVE Singles(t, P)[i] = a[i]
    OBVIOUS
  <2>1. CASE i = n + 1
    BY <1>1, <1>5, <1>6, <2>1 DEF e
  <2>2. CASE i # n + 1
    <3>1. i \in 1 .. n
      BY <1>1, <2>2
    <3> QED
      BY <1>1, <1>4, <1>5, <1>6, <3>1
  <2> QED
    BY <2>1, <2>2
<1>8. Singles(t, P) = a
  BY <1>5, <1>6, <1>7, SeqEqual
<1>9. Picked(t, P) = Cat(Picked(s, P), e)
  <2>1. FlattenSeq(Append(Singles(s, P), e)) = Cat(FlattenSeq(Singles(s, P)), e)
    BY <1>3, <1>4, FlattenAppend
  <2> QED
    BY <1>4, <1>5, <1>8, <2>1 DEF a
<1>10. Picked(s, P) \in Seq(C)
  BY PickedType
<1>11. CASE n + 1 \in P
  <2>1. Append(Picked(s, P), x) = Picked(s, P) \o << x >>
    BY <1>10, AppendIsConcat
  <2> QED
    BY <1>9, <1>11, <2>1 DEF Cat, e, t
<1>12. CASE n + 1 \notin P
  <2>1. Picked(t, P) = Cat(Picked(s, P), << >>)
    BY <1>9, <1>12 DEF e
  <2>2. Cat(Picked(s, P), << >>) = Picked(s, P)
    BY <1>10, CatType
  <2> QED
    BY <1>12, <2>1, <2>2 DEF t
<1> QED
  BY <1>11, <1>12

\* The characters up to a place, and one more.
LEMMA PickedPrefix ==
    ASSUME NEW C, NEW s \in Seq(C), NEW P, NEW k \in 1 .. Len(s)
    PROVE  Picked(SubSeq(s, 1, k), P)
             = IF k \in P THEN Append(Picked(SubSeq(s, 1, k - 1), P), s[k])
               ELSE Picked(SubSeq(s, 1, k - 1), P)
<1> DEFINE t == SubSeq(s, 1, k - 1)
<1>1. Len(s) \in Nat /\ k \in Nat /\ \A i \in 1 .. Len(s) : s[i] \in C
  BY LenProperties
<1>2. t \in Seq(C) /\ Len(t) = k - 1
  <2>1. \A i \in 1 .. k - 1 : s[i] \in C
    BY <1>1
  <2>2. /\ t \in Seq(C)
        /\ Len(t) = IF 1 <= k - 1 THEN (k - 1) - 1 + 1 ELSE 0
    BY <1>1, <2>1, SubSeqProperties
  <2> QED
    BY <1>1, <2>2
<1>3. SubSeq(s, 1, k) = Append(t, s[k])
  <2>1. SubSeq(s, 1, k) = t \o << s[k] >>
    <3>1. 1 \in 1 .. Len(s) /\ k \in 1 .. Len(s)
      BY <1>1
    <3> QED
      BY <3>1, SubSeqRecursiveSecond
  <2>2. Append(t, s[k]) = t \o << s[k] >>
    BY <1>1, <1>2, AppendIsConcat
  <2> QED
    BY <2>1, <2>2
<1> HIDE DEF t
<1>4. Picked(Append(t, s[k]), P)
        = IF Len(t) + 1 \in P THEN Append(Picked(t, P), s[k]) ELSE Picked(t, P)
  <2>1. s[k] \in C /\ t \in Seq(C)
    BY <1>1, <1>2
  <2>2. \A x \in C : Picked(Append(t, x), P)
                       = IF Len(t) + 1 \in P THEN Append(Picked(t, P), x) ELSE Picked(t, P)
    BY <2>1, PickedAppend
  <2> QED
    BY <2>1, <2>2
<1>5. Len(t) + 1 = k
  BY <1>1, <1>2
<1> QED
  BY <1>3, <1>4, <1>5 DEF t

\* A longer part has no fewer of them.
LEMMA PickedGrows ==
    ASSUME NEW C, NEW s \in Seq(C), NEW P, NEW k \in 0 .. Len(s)
    PROVE  Len(Picked(SubSeq(s, 1, k), P)) <= Len(Picked(s, P))
<1> DEFINE L(j) == Len(Picked(SubSeq(s, 1, j), P))
           S == {j \in 0 .. Len(s) - k : L(k) <= L(k + j)}
<1>1. Len(s) \in Nat /\ k \in Nat /\ Len(s) - k \in Nat
  BY LenProperties
<1>2. ASSUME NEW j \in 0 .. Len(s)
      PROVE  Picked(SubSeq(s, 1, j), P) \in Seq(C) /\ L(j) \in Nat
  <2>1. \A i \in 1 .. j : s[i] \in C
    BY <1>1, LenProperties
  <2>2. SubSeq(s, 1, j) \in Seq(C)
    BY <1>1, <2>1, SubSeqProperties
  <2>3. Picked(SubSeq(s, 1, j), P) \in Seq(C)
    BY <2>2, PickedType
  <2> QED
    BY <2>3, LenProperties
<1>3. ASSUME NEW j \in 1 .. Len(s) PROVE L(j - 1) <= L(j)
  <2>1. Picked(SubSeq(s, 1, j), P)
          = IF j \in P THEN Append(Picked(SubSeq(s, 1, j - 1), P), s[j])
            ELSE Picked(SubSeq(s, 1, j - 1), P)
    BY PickedPrefix
  <2>2. s[j] \in C /\ j - 1 \in 0 .. Len(s)
    BY <1>1, LenProperties
  <2>3. Picked(SubSeq(s, 1, j - 1), P) \in Seq(C) /\ L(j - 1) \in Nat
    BY <1>2, <2>2
  <2>4. Len(Append(Picked(SubSeq(s, 1, j - 1), P), s[j])) = L(j - 1) + 1
    BY <2>2, <2>3, AppendProperties
  <2>5. CASE j \in P
    <3>1. L(j) = Len(Append(Picked(SubSeq(s, 1, j - 1), P), s[j]))
      BY <2>1, <2>5
    <3> QED
      BY <2>3, <2>4, <3>1
  <2>6. CASE j \notin P
    <3>1. L(j) = L(j - 1)
      BY <2>1, <2>6
    <3> QED
      BY <2>3, <3>1
  <2> QED
    BY <2>5, <2>6
<1> HIDE DEF L
<1>4. 0 \in S
  BY <1>1, <1>2
<1>5. ASSUME NEW j \in 1 .. Len(s) - k, j - 1 \in S PROVE j \in S
  <2>1. k + j \in 1 .. Len(s) /\ (k + j) - 1 = k + (j - 1) /\ j \in 0 .. Len(s) - k
        /\ k + j \in 0 .. Len(s) /\ k + (j - 1) \in 0 .. Len(s)
    BY <1>1
  <2>2. L(k + (j - 1)) <= L(k + j)
    BY <1>3, <2>1
  <2>3. L(k) <= L(k + (j - 1))
    BY <1>5
  <2> QED
    BY <1>2, <2>1, <2>2, <2>3
<1> HIDE DEF S
<1>6. \A j \in 0 .. Len(s) - k : j \in S
  BY <1>1, <1>4, <1>5, UpTo
<1>7. L(k) <= L(k + (Len(s) - k)) /\ k + (Len(s) - k) = Len(s)
  <2>1. Len(s) - k \in S /\ k + (Len(s) - k) = Len(s)
    BY <1>1, <1>6
  <2> QED
    BY <2>1 DEF S
<1>8. SubSeq(s, 1, Len(s)) = s
  BY SubSeqFull
<1> QED
  BY <1>7, <1>8 DEF L

\* The characters on their way that will enter the ring.
Kept(w) == Picked(w, Lined(w))

\* They are characters.
LEMMA KeptType == \A w \in Seq(Characters) : Kept(w) \in Seq(Characters)
  BY PickedType DEF Kept

\* Nothing is on its way on an empty wire.
LEMMA KeptEmpty == Kept(<< >>) = << >>
  BY PickedEmpty DEF Kept

\* One more character is sent.
LEMMA KeptAppend ==
    ASSUME NEW w \in Seq(Characters), NEW x \in Characters
    PROVE  Kept(Append(w, x)) = IF x \in Realtime THEN Kept(w) ELSE Append(Kept(w), x)
<1> DEFINE t == Append(w, x)
           n == Len(w)
<1>1. /\ t \in Seq(Characters) /\ n \in Nat /\ Len(t) = n + 1 /\ t[n + 1] = x
      /\ \A i \in 1 .. n : t[i] = w[i]
      /\ DOMAIN t = 1 .. n + 1 /\ DOMAIN w = 1 .. n
  <2>1. /\ t \in Seq(Characters) /\ n \in Nat /\ Len(t) = n + 1 /\ t[n + 1] = x
        /\ \A i \in 1 .. n : t[i] = w[i]
    BY AppendProperties
  <2> HIDE DEF t
  <2> QED
    BY <2>1, LenProperties
<1> HIDE DEF t
<1>2. \A i \in 1 .. n : i \in Lined(t) <=> i \in Lined(w)
  BY <1>1 DEF Lined
<1>3. n + 1 \in Lined(t) <=> x \notin Realtime
  BY <1>1 DEF Lined
<1>4. Picked(w, Lined(t)) = Kept(w)
  BY <1>2, PickedPlaces DEF Kept
<1>5. Picked(Append(w, x), Lined(t))
        = IF Len(w) + 1 \in Lined(t) THEN Append(Picked(w, Lined(t)), x) ELSE Picked(w, Lined(t))
  BY PickedAppend
<1> QED
  BY <1>3, <1>4, <1>5 DEF Kept, t

\* One character is read.
LEMMA KeptHead ==
    ASSUME NEW w \in Seq(Characters), w # << >>
    PROVE  Kept(w) = IF Head(w) \in Realtime THEN Kept(Tail(w))
                     ELSE Cat(<< Head(w) >>, Kept(Tail(w)))
<1> DEFINE t == Tail(w)
           n == Len(t)
           f == Singles(w, Lined(w))
           g == Singles(t, Lined(t))
           C == Characters
<1>1. /\ t \in Seq(C) /\ n \in Nat /\ Len(w) = n + 1 /\ Head(w) = w[1] /\ Head(w) \in C
      /\ \A i \in 1 .. n : t[i] = w[i + 1]
      /\ DOMAIN t = 1 .. n /\ DOMAIN w = 1 .. n + 1
  <2>1. /\ t \in Seq(C) /\ Len(t) = Len(w) - 1 /\ Head(w) \in C /\ Len(w) \in Nat
        /\ \A i \in 1 .. Len(t) : t[i] = w[i + 1]
    BY HeadTailProperties
  <2>2. Head(w) = w[1]
    OBVIOUS
  <2> HIDE DEF t
  <2>3. n \in Nat /\ Len(w) = n + 1
    BY <2>1
  <2> QED
    BY <2>1, <2>2, <2>3, LenProperties
<1> HIDE DEF t
<1>2. /\ f \in Seq(Seq(C)) /\ Len(f) = n + 1
      /\ \A i \in 1 .. n + 1 : f[i] = IF i \in Lined(w) THEN << w[i] >> ELSE << >>
      /\ Kept(w) = FlattenSeq(f)
  BY <1>1, SinglesType DEF Kept
<1>3. /\ g \in Seq(Seq(C)) /\ Len(g) = n
      /\ \A i \in 1 .. n : g[i] = IF i \in Lined(t) THEN << t[i] >> ELSE << >>
      /\ Kept(t) = FlattenSeq(g)
  BY <1>1, SinglesType DEF Kept
<1> HIDE DEF f, g
<1>4. f # << >> /\ Head(f) = f[1]
  BY <1>1, <1>2, EmptySeq
<1>5. Tail(f) \in Seq(Seq(C)) /\ Len(Tail(f)) = n /\ \A i \in 1 .. n : Tail(f)[i] = f[i + 1]
  <2>1. Tail(f) \in Seq(Seq(C)) /\ Len(Tail(f)) = Len(f) - 1
        /\ \A i \in 1 .. Len(Tail(f)) : Tail(f)[i] = f[i + 1]
    BY <1>2, <1>4, HeadTailProperties
  <2> QED
    BY <1>1, <1>2, <2>1
<1>6. \A i \in 1 .. n : Tail(f)[i] = g[i]
  <2> SUFFICES ASSUME NEW i \in 1 .. n PROVE Tail(f)[i] = g[i]
    OBVIOUS
  <2>1. i + 1 \in 1 .. n + 1 /\ t[i] = w[i + 1] /\ Tail(f)[i] = f[i + 1]
    BY <1>1, <1>5
  <2>2. i \in Lined(t) <=> i + 1 \in Lined(w)
    BY <1>1, <2>1 DEF Lined
  <2> QED
    BY <1>2, <1>3, <2>1, <2>2
<1>7. Tail(f) = g
  BY <1>3, <1>5, <1>6, SeqEqual
<1>8. FlattenSeq(f) = Cat(f[1], FlattenSeq(g))
  <2>1. FlattenSeq(f) = Cat(Head(f), FlattenSeq(Tail(f)))
    BY <1>2, <1>4, FlattenHead
  <2> QED
    BY <1>4, <1>7, <2>1
<1>9. f[1] = IF Head(w) \in Realtime THEN << >> ELSE << Head(w) >>
  <2>1. 1 \in 1 .. n + 1 /\ (1 \in Lined(w) <=> Head(w) \notin Realtime)
    BY <1>1 DEF Lined
  <2> QED
    BY <1>1, <1>2, <2>1
<1>10. Kept(w) = Cat(f[1], Kept(t))
  BY <1>2, <1>3, <1>8
<1>11. Kept(t) \in Seq(C) /\ Cat(<< >>, Kept(t)) = Kept(t)
  BY <1>1, KeptType, CatType
<1> QED
  BY <1>9, <1>10, <1>11 DEF t

\* A line is sent.
LEMMA KeptConcat ==
    ASSUME NEW w \in Seq(Characters), NEW l \in Seq(Characters),
           \A i \in DOMAIN l : l[i] \notin Realtime
    PROVE  Kept(Cat(w, l)) = Cat(Kept(w), l)
<1> DEFINE C == Characters
           n == Len(l)
           P(k) == SubSeq(l, 1, k)
           S == {k \in 0 .. n : Kept(Cat(w, P(k))) = Cat(Kept(w), P(k))}
<1>1. n \in Nat /\ \A k \in 1 .. n : l[k] \in C /\ l[k] \notin Realtime
  BY LenProperties
<1>2. Kept(w) \in Seq(C)
  BY KeptType
<1>3. \A k \in 0 .. n : P(k) \in Seq(C)
  <2> SUFFICES ASSUME NEW k \in 0 .. n PROVE P(k) \in Seq(C)
    OBVIOUS
  <2>1. \A i \in 1 .. k : l[i] \in C
    BY <1>1
  <2> QED
    BY <1>1, <2>1, SubSeqProperties
<1>4. P(0) = << >> /\ P(n) = l
  BY SubSeqEmpty, SubSeqFull
<1>5. \A k \in 1 .. n : P(k) = Cat(P(k - 1), << l[k] >>)
  <2> SUFFICES ASSUME NEW k \in 1 .. n PROVE P(k) = Cat(P(k - 1), << l[k] >>)
    OBVIOUS
  <2>1. 1 \in 1 .. n /\ k \in 1 .. n
    BY <1>1
  <2> QED
    BY <2>1, SubSeqRecursiveSecond DEF Cat
<1> HIDE DEF P
<1>6. 0 \in S
  BY <1>1, <1>2, <1>4, CatType
<1>7. ASSUME NEW k \in 1 .. n, k - 1 \in S PROVE k \in S
  <2> DEFINE p == P(k - 1)
             x == l[k]
             y == << x >>
  <2>1. p \in Seq(C) /\ x \in C /\ x \notin Realtime /\ y \in Seq(C)
    BY <1>1, <1>3
  <2>2. P(k) = Cat(p, y)
    BY <1>5
  <2>3. Kept(Cat(w, p)) = Cat(Kept(w), p)
    BY <1>7
  <2> DEFINE b == Cat(w, p)
  <2> HIDE DEF p, y
  <2>4. b \in Seq(C) /\ Kept(b) \in Seq(C)
    <3>1. b \in Seq(C)
      BY <2>1, CatType
    <3> QED
      BY <3>1, KeptType
  <2>5. Cat(w, P(k)) = Cat(b, y)
    <3>1. Cat(Cat(w, p), y) = Cat(w, Cat(p, y))
      BY <2>1, CatAssociative
    <3> QED
      BY <2>2, <3>1
  <2>6. Cat(Kept(w), P(k)) = Cat(Kept(b), y)
    <3>1. Cat(Cat(Kept(w), p), y) = Cat(Kept(w), Cat(p, y))
      BY <1>2, <2>1, CatAssociative
    <3> QED
      BY <2>2, <2>3, <3>1
  <2> HIDE DEF b, x
  <2>7. Cat(b, y) = Append(b, x) /\ Cat(Kept(b), y) = Append(Kept(b), x)
    BY <2>1, <2>4, AppendIsConcat DEF Cat, y
  <2>9. Kept(Append(b, x)) = Append(Kept(b), x)
    BY <2>1, <2>4, KeptAppend
  <2>8. k \in 0 .. n
    BY <1>1
  <2> QED
    BY <2>5, <2>6, <2>7, <2>8, <2>9
<1> HIDE DEF S
<1>8. \A k \in 0 .. n : k \in S
  BY <1>1, <1>6, <1>7, UpTo
<1>9. n \in S
  BY <1>1, <1>8
<1> QED
  BY <1>4, <1>9 DEF S

-----------------------------------------------------------------------------
(* The ring of received characters.                                        *)

RX == GRBL_RX_LEN_PROTOCOL

\* The pointers stay in the ring; it is empty when they meet.
LEMMA RingPointers ==
    \A r, w \in Slots :
      /\ 0 \in Slots /\ Following(r) \in Slots
      /\ Fillness(r, w) \in 0 .. RX - 1
      /\ Fillness(r, w) = 0 <=> r = w
      /\ Fillness(r, Following(w)) = IF Fillness(r, w) = RX - 1 THEN 0 ELSE Fillness(r, w) + 1
      /\ r # w => Fillness(Following(r), w) = Fillness(r, w) - 1
  BY SizeAssumption DEF Slots, Following, Fillness, RX

\* Remainders of numbers less than one turn too large.
LEMMA OneTurn ==
    ASSUME NEW n \in Nat \ {0}, NEW a \in Nat, a < 2 * n
    PROVE  a % n = IF a < n THEN a ELSE a - n
  BY SMTT(30)

\* The slot of the k-th character.
Place(r, k) == (r + k - 1) % RX

\* It wraps at the end of the ring.
LEMMA Places ==
    ASSUME NEW r \in Slots, NEW k \in 1 .. RX
    PROVE  Place(r, k) = IF r + k - 1 < RX THEN r + k - 1 ELSE r + k - 1 - RX
<1> DEFINE n == RX
           a == r + k - 1
<1>0. r \in Int /\ k \in Int /\ RX \in Int
  BY SizeAssumption DEF Slots, RX
<1>1. n \in Nat \ {0} /\ a \in Nat /\ a < 2 * n
  BY SizeAssumption DEF Slots, RX
<1> HIDE DEF n, a
<1>2. a % n = IF a < n THEN a ELSE a - n
  BY <1>1, OneTurn
<1>3. Place(r, k) = a % n
  BY DEF Place, a, n
<1>4. Place(r, k) = IF a < n THEN a ELSE a - n
  BY <1>2, <1>3
<1>5. CASE a < n
  <2>1. Place(r, k) = a
    BY <1>4, <1>5
  <2> QED
    BY <1>0, <1>5, <2>1 DEF a, n
<1>6. CASE ~ (a < n)
  <2>1. Place(r, k) = a - n
    BY <1>4, <1>6
  <2> QED
    BY <1>0, <1>6, <2>1 DEF a, n
<1> QED
  BY <1>5, <1>6

\* What a slot holds, and a ring.
Cells == Characters \cup {Nul}
IsRing(b) == b \in [Slots -> Cells]

\* The contents are a sequence of what the slots hold.
LEMMA ContentsType ==
    ASSUME NEW b, IsRing(b), NEW r \in Slots, NEW w \in Slots
    PROVE  /\ Contents(b, r, w) \in Seq(Cells)
           /\ Len(Contents(b, r, w)) = Fillness(r, w)
           /\ \A k \in 1 .. Fillness(r, w) :
                Place(r, k) \in Slots /\ Contents(b, r, w)[k] = b[Place(r, k)]
<1> DEFINE n == Fillness(r, w)
           c == Contents(b, r, w)
<1>1. n \in Nat /\ n < RX /\ RX \in Nat /\ r \in Nat /\ r < RX
  <2>1. n \in 0 .. RX - 1
    BY RingPointers
  <2>2. RX \in Nat /\ Slots = 0 .. RX - 1
    BY SizeAssumption DEF RX, Slots
  <2> HIDE DEF n
  <2> QED
    BY <2>1, <2>2
<1>2. c = [k \in 1 .. n |-> b[Place(r, k)]]
  BY DEF Contents, Place, RX
<1> HIDE DEF n, c
<1>3. ASSUME NEW k \in 1 .. n PROVE Place(r, k) \in Slots
  <2>1. k \in 1 .. RX
    BY <1>1
  <2>2. Place(r, k) = IF r + k - 1 < RX THEN r + k - 1 ELSE r + k - 1 - RX
    BY <2>1, Places
  <2> QED
    BY <1>1, <2>2 DEF Slots, RX
<1>4. c \in [1 .. n -> Cells]
  BY <1>2, <1>3 DEF IsRing
<1>5. c \in Seq(Cells) /\ Len(c) = n
  BY <1>1, <1>4, SeqDef
<1> QED
  BY <1>2, <1>3, <1>5 DEF c, n

\* The same, to be instantiated.
LEMMA ContentsTypes ==
    \A b, m : \A r, w \in Slots :
      IsRing(b) /\ m = Fillness(r, w) =>
        /\ Contents(b, r, w) \in Seq(Cells) /\ Len(Contents(b, r, w)) = m
        /\ \A k \in 1 .. m : Contents(b, r, w)[k] = b[Place(r, k)] /\ Place(r, k) \in Slots
  BY ContentsType

\* ringBuffer_addItem, if there is room.
LEMMA ContentsAdd ==
    ASSUME NEW b, IsRing(b), NEW r \in Slots, NEW w \in Slots, NEW x \in Cells,
           Fillness(r, w) < RX - 1
    PROVE  Contents([b EXCEPT ![w] = x], r, Following(w)) = Append(Contents(b, r, w), x)
<1> DEFINE n == Fillness(r, w)
           d == [b EXCEPT ![w] = x]
           v == Following(w)
<1>1. /\ n \in Nat /\ n < RX - 1 /\ RX \in Nat /\ r \in Nat /\ r < RX /\ w \in Nat /\ w < RX
      /\ v \in Slots /\ Fillness(r, v) = n + 1
  <2>1. n \in 0 .. RX - 1 /\ v \in Slots /\ Fillness(r, v) = IF n = RX - 1 THEN 0 ELSE n + 1
    BY RingPointers
  <2>2. RX \in Nat /\ Slots = 0 .. RX - 1
    BY SizeAssumption DEF RX, Slots
  <2>3. n < RX - 1
    OBVIOUS
  <2> HIDE DEF n, v
  <2> QED
    BY <2>1, <2>2, <2>3
<1>2. IsRing(d) /\ d[w] = x /\ \A i \in Slots : i # w => d[i] = b[i]
  BY DEF IsRing
<1>3. n = IF r > w THEN RX - (r - w) ELSE w - r
  BY DEF Fillness, RX
<1> HIDE DEF n, d, v
<1>4. \A k \in 1 .. n : Place(r, k) # w /\ Place(r, k) \in Slots
  <2> SUFFICES ASSUME NEW k \in 1 .. n PROVE Place(r, k) # w /\ Place(r, k) \in Slots
    OBVIOUS
  <2>1. k \in 1 .. RX
    BY <1>1
  <2>2. Place(r, k) = IF r + k - 1 < RX THEN r + k - 1 ELSE r + k - 1 - RX
    BY <2>1, Places
  <2> QED
    BY <1>1, <1>3, <2>2 DEF Slots, RX
<1>5. Place(r, n + 1) = w
  <2>1. n + 1 \in 1 .. RX
    BY <1>1
  <2>2. Place(r, n + 1) = IF r + n < RX THEN r + n ELSE r + n - RX
    BY <1>1, <2>1, Places
  <2> QED
    BY <1>1, <1>3, <2>2
<1> DEFINE p == Contents(b, r, w)
           q == Contents(d, r, v)
<1>6. p \in Seq(Cells) /\ Len(p) = n /\ \A k \in 1 .. n : p[k] = b[Place(r, k)]
  BY <1>1, ContentsTypes DEF n
<1>7. q \in Seq(Cells) /\ Len(q) = n + 1 /\ \A k \in 1 .. n + 1 : q[k] = d[Place(r, k)]
  <2> DEFINE m == n + 1
  <2>1. m = Fillness(r, v) /\ v \in Slots /\ IsRing(d)
    BY <1>1, <1>2
  <2> HIDE DEF m
  <2>2. /\ q \in Seq(Cells) /\ Len(q) = m
        /\ \A k \in 1 .. m : q[k] = d[Place(r, k)] /\ Place(r, k) \in Slots
    BY <2>1, ContentsTypes
  <2> QED
    BY <2>2 DEF m
<1> HIDE DEF p, q
<1> DEFINE a == Append(p, x)
<1>8. a \in Seq(Cells) /\ Len(a) = n + 1 /\ a[n + 1] = x /\ \A k \in 1 .. n : a[k] = p[k]
  BY <1>6, AppendProperties
<1> HIDE DEF a
<1>9. \A k \in 1 .. n + 1 : q[k] = a[k]
  <2> SUFFICES ASSUME NEW k \in 1 .. n + 1 PROVE q[k] = a[k]
    OBVIOUS
  <2>1. CASE k = n + 1
    BY <1>2, <1>5, <1>7, <1>8, <2>1
  <2>2. CASE k # n + 1
    <3>1. k \in 1 .. n
      BY <1>1, <2>2
    <3> QED
      BY <1>2, <1>4, <1>6, <1>7, <1>8, <3>1
  <2> QED
    BY <2>1, <2>2
<1>10. q = a
  BY <1>7, <1>8, <1>9, SeqEqual
<1> QED
  BY <1>10 DEF q, a, p, d, v

\* ringBuffer_getItem, if there is something.
LEMMA ContentsTake ==
    ASSUME NEW b, IsRing(b), NEW r \in Slots, NEW w \in Slots, r # w,
           NEW x \in Cells
    PROVE  Contents(b, r, w)
             = Cat(<< b[r] >>, Contents([b EXCEPT ![r] = x], Following(r), w))
<1> DEFINE n == Fillness(r, w)
           d == [b EXCEPT ![r] = x]
           v == Following(r)
<1>1. /\ n \in Nat /\ n > 0 /\ n < RX /\ RX \in Nat /\ r \in Nat /\ r < RX /\ w \in Nat /\ w < RX
      /\ v \in Slots /\ Fillness(v, w) = n - 1
  <2>1. n \in 0 .. RX - 1 /\ v \in Slots /\ Fillness(v, w) = n - 1 /\ n # 0
    BY RingPointers
  <2>2. RX \in Nat /\ Slots = 0 .. RX - 1
    BY SizeAssumption DEF RX, Slots
  <2> HIDE DEF n, v
  <2> QED
    BY <2>1, <2>2
<1>2. IsRing(d) /\ \A i \in Slots : i # r => d[i] = b[i]
  BY DEF IsRing
<1>3. v = IF r + 1 = RX THEN 0 ELSE r + 1
  BY DEF Following, RX
<1> HIDE DEF n, d, v
<1>4. \A k \in 1 .. n - 1 : Place(v, k) = Place(r, k + 1) /\ Place(v, k) # r
  <2> SUFFICES ASSUME NEW k \in 1 .. n - 1
               PROVE  Place(v, k) = Place(r, k + 1) /\ Place(v, k) # r
    OBVIOUS
  <2>1. k \in 1 .. RX /\ k + 1 \in 1 .. RX
    BY <1>1
  <2>2. /\ Place(r, k + 1) = IF r + k < RX THEN r + k ELSE r + k - RX
        /\ Place(v, k) = IF v + k - 1 < RX THEN v + k - 1 ELSE v + k - 1 - RX
    <3>1. Place(r, k + 1) = IF r + (k + 1) - 1 < RX THEN r + (k + 1) - 1 ELSE r + (k + 1) - 1 - RX
      BY <2>1, Places
    <3>2. Place(v, k) = IF v + k - 1 < RX THEN v + k - 1 ELSE v + k - 1 - RX
      BY <1>1, <2>1, Places
    <3> QED
      BY <1>1, <3>1, <3>2
  <2> QED
    BY <1>1, <1>3, <2>2
<1>5. Place(r, 1) = r
  <2>1. 1 \in 1 .. RX
    BY <1>1
  <2>2. Place(r, 1) = IF r + 1 - 1 < RX THEN r + 1 - 1 ELSE r + 1 - 1 - RX
    BY <2>1, Places
  <2> QED
    BY <1>1, <2>2
<1> DEFINE p == Contents(b, r, w)
           q == Contents(d, v, w)
<1>6. p \in Seq(Cells) /\ Len(p) = n /\ \A k \in 1 .. n : p[k] = b[Place(r, k)]
  BY <1>1, ContentsTypes DEF n
<1>7. q \in Seq(Cells) /\ Len(q) = n - 1
      /\ \A k \in 1 .. n - 1 : q[k] = d[Place(v, k)] /\ Place(v, k) \in Slots
  <2> DEFINE m == n - 1
  <2>1. m = Fillness(v, w) /\ v \in Slots /\ IsRing(d)
    BY <1>1, <1>2
  <2> HIDE DEF m
  <2> DEFINE j == Fillness(v, w)
  <2>2. /\ q \in Seq(Cells) /\ Len(q) = j
        /\ \A k \in 1 .. j : Place(v, k) \in Slots /\ q[k] = d[Place(v, k)]
    BY <2>1, ContentsType
  <2> HIDE DEF q, j
  <2> QED
    BY <2>1, <2>2 DEF m, j
<1> HIDE DEF p, q
<1>8. << b[r] >> \in Seq(Cells) /\ Len(<< b[r] >>) = 1 /\ << b[r] >>[1] = b[r]
  <2>1. b[r] \in Cells
    BY DEF IsRing
  <2> QED
    BY <2>1
<1> DEFINE a == << b[r] >> \o q
<1>9. a \in Seq(Cells) /\ Len(a) = n /\ \A k \in 1 .. n : a[k] = IF k = 1 THEN b[r] ELSE q[k - 1]
  <2>1. /\ a \in Seq(Cells) /\ Len(a) = 1 + Len(q)
        /\ \A k \in 1 .. 1 + Len(q) : a[k] = IF k <= 1 THEN << b[r] >>[k] ELSE q[k - 1]
    BY <1>7, <1>8, ConcatProperties
  <2> HIDE DEF a
  <2>2. 1 + Len(q) = n
    BY <1>1, <1>7
  <2>3. \A k \in 1 .. n : k <= 1 => k = 1
    BY <1>1
  <2> QED
    BY <2>1, <2>2, <2>3, <1>8
<1> HIDE DEF a
<1>10. \A k \in 1 .. n : p[k] = a[k]
  <2> SUFFICES ASSUME NEW k \in 1 .. n PROVE p[k] = a[k]
    OBVIOUS
  <2>1. CASE k = 1
    BY <1>5, <1>6, <1>9, <2>1
  <2>2. CASE k # 1
    <3>1. k - 1 \in 1 .. n - 1 /\ (k - 1) + 1 = k
      BY <1>1, <2>2
    <3>2. Place(v, k - 1) = Place(r, k) /\ Place(v, k - 1) # r
      BY <1>4, <3>1
    <3> QED
      BY <1>2, <1>6, <1>7, <1>9, <2>2, <3>1, <3>2
  <2> QED
    BY <2>1, <2>2
<1>11. p = a
  BY <1>6, <1>9, <1>10, SeqEqual
<1> QED
  BY <1>11 DEF p, a, q, d, v, Cat

-----------------------------------------------------------------------------
(* A line: its comments and its text.                                      *)

\* Every line is a sequence of characters with its end of line at the end.
LEMMA LinesAreSequences ==
    ASSUME NEW l \in Lines
    PROVE  /\ l \in Seq(Characters) /\ Len(l) \in Nat \ {0} /\ Len(l) <= RX
           /\ DOMAIN l = 1 .. Len(l)
           /\ \A i \in 1 .. Len(l) : l[i] \in Characters /\ (l[i] = EOL <=> i = Len(l))
<1>1. /\ l \in Seq(Characters) /\ Len(l) \in 1 .. RX
      /\ \A i \in DOMAIN l : l[i] = EOL <=> i = Len(l)
  BY LineAssumption DEF RX
<1>2. DOMAIN l = 1 .. Len(l) /\ \A i \in 1 .. Len(l) : l[i] \in Characters
  BY <1>1, LenProperties
<1>3. Len(l) \in Nat \ {0} /\ Len(l) <= RX
  BY <1>1, SizeAssumption DEF RX
<1> QED
  BY <1>1, <1>2, <1>3

\* No comment is open in front of the first character.
LEMMA CommentsBegin == \A l : ~InParentheses(l, 1) /\ ~AfterSemicolon(l, 1)
  BY DEF InParentheses, AfterSemicolon

\* What one character does to the comments.
LEMMA CommentsGoOn ==
    ASSUME NEW l, NEW i \in Nat \ {0}
    PROVE  /\ InParentheses(l, i + 1) <=> l[i] = "(" \/ (InParentheses(l, i) /\ l[i] # ")")
           /\ AfterSemicolon(l, i + 1) <=> \/ AfterSemicolon(l, i)
                                           \/ l[i] = ";" /\ ~InParentheses(l, i)
<1>1. InParentheses(l, i + 1) => l[i] = "(" \/ (InParentheses(l, i) /\ l[i] # ")")
  <2> SUFFICES ASSUME InParentheses(l, i + 1), l[i] # "("
               PROVE  InParentheses(l, i) /\ l[i] # ")"
    OBVIOUS
  <2>1. PICK j \in 1 .. i : l[j] = "(" /\ \A k \in j + 1 .. i : l[k] # ")"
    BY DEF InParentheses
  <2>2. j \in 1 .. i - 1 /\ i \in j + 1 .. i /\ \A k \in j + 1 .. i - 1 : k \in j + 1 .. i
    BY <2>1
  <2> QED
    BY <2>1, <2>2 DEF InParentheses
<1>2. l[i] = "(" => InParentheses(l, i + 1)
  BY DEF InParentheses
<1>3. ASSUME InParentheses(l, i), l[i] # ")" PROVE InParentheses(l, i + 1)
  <2>1. PICK j \in 1 .. i - 1 : l[j] = "(" /\ \A k \in j + 1 .. i - 1 : l[k] # ")"
    BY <1>3 DEF InParentheses
  <2>2. j \in 1 .. (i + 1) - 1 /\ \A k \in j + 1 .. (i + 1) - 1 : k = i \/ k \in j + 1 .. i - 1
    OBVIOUS
  <2>3. \A k \in j + 1 .. (i + 1) - 1 : l[k] # ")"
    BY <1>3, <2>1, <2>2
  <2> QED
    BY <2>1, <2>2, <2>3 DEF InParentheses
<1>4. (i + 1) - 1 = i /\ 1 .. i = (1 .. i - 1) \cup {i}
  OBVIOUS
<1>5. AfterSemicolon(l, i + 1) <=> \/ AfterSemicolon(l, i)
                                   \/ l[i] = ";" /\ ~InParentheses(l, i)
  BY <1>4 DEF AfterSemicolon
<1>6. InParentheses(l, i + 1) <=> l[i] = "(" \/ (InParentheses(l, i) /\ l[i] # ")")
  BY <1>1, <1>2, <1>3
<1> QED
  BY <1>5, <1>6

\* The text of the first p characters.
Prefix(l, p) == Picked(SubSeq(l, 1, p), Said(l))

\* It grows by the characters said; before the end of the line it is the text.
LEMMA TextGrows ==
    ASSUME NEW l \in Lines
    PROVE  /\ Text(l) \in Seq(Characters)
           /\ Prefix(l, 0) = << >>
           /\ \A p \in 1 .. Len(l) :
                /\ Prefix(l, p - 1) \in Seq(Characters)
                /\ Prefix(l, p) = IF p \in Said(l) THEN Append(Prefix(l, p - 1), l[p])
                                  ELSE Prefix(l, p - 1)
           /\ Text(l) = Prefix(l, Len(l) - 1)
           /\ \A p \in 0 .. Len(l) : Len(Prefix(l, p)) <= Len(Text(l))
<1> DEFINE n == Len(l)
<1>0. n \in Nat \ {0} /\ n = Len(l) /\ n \in 1 .. n /\ n \in 0 .. n
  <2>1. n \in Nat \ {0}
    BY LinesAreSequences
  <2> HIDE DEF n
  <2>2. n \in 1 .. n /\ n \in 0 .. n
    BY <2>1
  <2> QED
    BY <2>1, <2>2 DEF n
<1>1. /\ l \in Seq(Characters) /\ DOMAIN l = 1 .. n
      /\ \A i \in 1 .. n : l[i] \in Characters
  BY LinesAreSequences
<1>e. l[n] = EOL
  BY <1>0, LinesAreSequences
<1> HIDE DEF n
<1>2. Text(l) \in Seq(Characters)
  BY <1>1, PickedType DEF Text
<1>3. Prefix(l, 0) = << >>
  <2>1. SubSeq(l, 1, 0) = << >>
    BY SubSeqEmpty
  <2> QED
    BY <2>1, PickedEmpty DEF Prefix
<1>4. ASSUME NEW p \in 1 .. n
      PROVE  /\ Prefix(l, p - 1) \in Seq(Characters)
             /\ Prefix(l, p) = IF p \in Said(l) THEN Append(Prefix(l, p - 1), l[p])
                               ELSE Prefix(l, p - 1)
  <2>1. (\A i \in 1 .. p - 1 : l[i] \in Characters) /\ p - 1 \in Int /\ 1 \in Int
    BY <1>0, <1>1
  <2>2. SubSeq(l, 1, p - 1) \in Seq(Characters)
    BY <1>0, <2>1, SubSeqProperties
  <2>3. Prefix(l, p - 1) \in Seq(Characters)
    BY <2>2, PickedType DEF Prefix
  <2>4. Prefix(l, p) = IF p \in Said(l) THEN Append(Prefix(l, p - 1), l[p])
                       ELSE Prefix(l, p - 1)
    <3>1. p \in 1 .. Len(l)
      BY <1>0
    <3> QED
      BY <1>1, <3>1, PickedPrefix DEF Prefix
  <2> QED
    BY <2>3, <2>4
<1>5. Prefix(l, n) = Text(l)
  BY <1>0, <1>1, SubSeqFull DEF Prefix, Text
<1>6. n \notin Said(l)
  BY <1>e DEF Said, Letters, EOL
<1>7. Text(l) = Prefix(l, n - 1)
  BY <1>0, <1>4, <1>5, <1>6
<1>8. \A p \in 0 .. n : Len(Prefix(l, p)) <= Len(Text(l))
  BY <1>0, <1>1, PickedGrows DEF Prefix, Text
<1> QED
  BY <1>0, <1>2, <1>3, <1>4, <1>7, <1>8

\* A line that says something is longer than its end.
LEMMA TextNeedsCharacters ==
    ASSUME NEW l \in Lines, Text(l) # << >>
    PROVE  Len(l) >= 2
<1> DEFINE n == Len(l)
<1>1. Text(l) = Prefix(l, n - 1) /\ Prefix(l, 0) = << >>
  BY TextGrows
<1>2. n \in Nat \ {0}
  BY LinesAreSequences
<1> HIDE DEF n
<1>3. n # 1
  BY <1>1
<1>4. n >= 2
  BY <1>2, <1>3
<1> QED
  BY <1>4 DEF n

-----------------------------------------------------------------------------
(* The types.                                                              *)

\* What line_buffer[] holds.
Words == Seq(Letters \cup {")"})

\* Its characters are characters of the wire.
LEMMA WordsAreCharacters == Words \subseteq Seq(Characters)
<1>1. Letters \cup {")"} \subseteq Characters
  BY DEF Characters
<1> QED
  BY <1>1, SeqMonotonic DEF Words

\* What is answered: texts and reports.
Entries == Seq(Characters \cup Reports)

AssemblyTypes ==
    /\ line \in Words /\ Len(line) <= GRBL_LINE_BUFFER_SIZE
    /\ command \in Words /\ Len(command) < GRBL_LINE_BUFFER_SIZE
    /\ line_flags \subseteq {"parentheses", "semicolon", "overflow"}
    /\ lineStateMachine \in States
    /\ answered \in Seq(Entries) /\ handled \in Nat
    /\ underway \subseteq Reports /\ owed \subseteq underway

\* The text fits the line buffer with its zero; a shorter line is the text.
LEMMA TerminatedFits ==
    ASSUME AssemblyTypes
    PROVE  /\ Terminated \in Words /\ Len(Terminated) < GRBL_LINE_BUFFER_SIZE
           /\ Len(line) < GRBL_LINE_BUFFER_SIZE => Terminated = line
<1> DEFINE n == Len(line)
           m == GRBL_LINE_BUFFER_SIZE
           k == IF n >= m THEN m - 1 ELSE n
           C == Letters \cup {")"}
<1>1. n \in Nat /\ (\A i \in 1 .. n : line[i] \in C) /\ m \in Nat \ {0} /\ n <= m
      /\ line \in Seq(C)
  BY LenProperties, SizeAssumption DEF AssemblyTypes, Words
<1>2. Terminated = SubSeq(line, 1, k)
  BY DEF Terminated
<1>3. n < m => SubSeq(line, 1, n) = line
  BY <1>1, SubSeqFull
<1> HIDE DEF n, m, C
<1>4. k \in 0 .. n /\ k < m /\ (n < m => k = n)
  BY <1>1
<1> HIDE DEF k
<1>5. \A i \in 1 .. k : line[i] \in C
  BY <1>1, <1>4
<1>6. SubSeq(line, 1, k) \in Seq(C) /\ Len(SubSeq(line, 1, k)) = IF 1 <= k THEN k - 1 + 1 ELSE 0
  BY <1>1, <1>4, <1>5, SubSeqProperties
<1>7. Len(Terminated) = k
  BY <1>1, <1>2, <1>4, <1>6
<1>8. n < m => Terminated = line
  BY <1>2, <1>3, <1>4
<1> QED
  BY <1>2, <1>4, <1>6, <1>7, <1>8 DEF Words, C, n, m

\* Texts and reports can be answered.
LEMMA EntriesAre == /\ Seq(Characters) \subseteq Entries
                    /\ \A k \in Reports : << k >> \in Entries
<1>1. Seq(Characters) \subseteq Entries
  BY SeqMonotonic DEF Entries
<1> QED
  BY <1>1 DEF Entries

ReplyTypes ==
    /\ answered \in Seq(Entries) /\ handled \in Nat
    /\ underway \subseteq Reports /\ owed \subseteq underway

\* The texts ask for one report or for none.
LEMMA AskedOnce ==
    ASSUME NEW text
    PROVE  /\ Asked(text) \in {{}} \cup {{k} : k \in Reports}
           /\ Asked(text) \subseteq Reports
  BY DEF Asked, Reports, Logs, Crypto

\* A line handled: answered, or deferred.
Handles(text) == IF Asynchronous(text) THEN Defers(text) ELSE Answers(text)

\* An answer is one text more; a line handled is one more.
LEMMA HandlesTypes ==
    ASSUME ReplyTypes, NEW text \in Seq(Characters),
           Answers(text) \/ Defers(text) \/ UNCHANGED replies
    PROVE  ReplyTypes'
<1>1. CASE Answers(text)
  <2>1. text \in Entries /\ answered' = Append(answered, text) /\ handled' = handled + 1
        /\ underway' = underway /\ owed' = owed
    BY <1>1, EntriesAre DEF Answers, reports
  <2> QED
    BY <2>1, AppendProperties DEF ReplyTypes
<1>2. CASE Defers(text)
  BY <1>2, AskedOnce DEF Defers, ReplyTypes
<1>3. CASE UNCHANGED replies
  BY <1>3 DEF replies, reports, ReplyTypes
<1> QED
  BY <1>1, <1>2, <1>3

\* process_multi_char_command(), any character.
LEMMA AssembleTypes ==
    ASSUME AssemblyTypes, NEW ch, Assemble(ch)
    PROVE  AssemblyTypes'
<1>1. ASSUME NEW flags, flags \subseteq {"parentheses", "semicolon", "overflow"}, Skipped(flags)
      PROVE  AssemblyTypes'
  BY <1>1 DEF Skipped, AssemblyTypes, replies, reports
<1>2. ASSUME EndOfLine PROVE AssemblyTypes'
  <2> DEFINE text == Terminated
  <2>1. text \in Words /\ Len(text) < GRBL_LINE_BUFFER_SIZE /\ text \in Seq(Characters)
    BY TerminatedFits, WordsAreCharacters
  <2>2. line' = << >> /\ command' = text /\ line_flags' = {}
    BY <1>2 DEF EndOfLine
  <2>3. \/ Answers(text) /\ UNCHANGED lineStateMachine
        \/ Proceeds("jog_wait_for_processed") \/ Proceeds("pre_sync_check")
    BY <1>2 DEF EndOfLine
  <2> HIDE DEF text
  <2>4. lineStateMachine' \in States
    BY <2>3 DEF Proceeds, AssemblyTypes, States
  <2>5. ReplyTypes'
    <3>1. ReplyTypes
      BY DEF AssemblyTypes, ReplyTypes
    <3>2. Answers(text) \/ UNCHANGED replies
      BY <2>3 DEF Proceeds
    <3> QED
      BY <2>1, <3>1, <3>2, HandlesTypes
  <2>6. << >> \in Words /\ Len(<< >>) = 0 /\ 0 <= GRBL_LINE_BUFFER_SIZE
    BY EmptySeq, SizeAssumption DEF Words
  <2> QED
    BY <2>1, <2>2, <2>4, <2>5, <2>6 DEF AssemblyTypes, ReplyTypes
<1>3. ASSUME OfLine(ch) PROVE AssemblyTypes'
  <2>1. line_flags' \subseteq {"parentheses", "semicolon", "overflow"}
    BY <1>3 DEF OfLine, Raised, AssemblyTypes
  <2>2. line' \in Words /\ Len(line') <= GRBL_LINE_BUFFER_SIZE
    <3>1. CASE Stored(ch) /\ Raised(ch) = {}
      <4>1. ~(Len(line) >= GRBL_LINE_BUFFER_SIZE) /\ ch \in Letters \cup {")"}
        BY <3>1 DEF Stored, Raised, Letters
      <4>2. line \in Seq(Letters \cup {")"}) /\ Len(line) \in Nat /\ Len(line) <= GRBL_LINE_BUFFER_SIZE
            /\ GRBL_LINE_BUFFER_SIZE \in Nat
        BY LenProperties, SizeAssumption DEF AssemblyTypes, Words
      <4>3. line' = Append(line, ch)
        BY <1>3, <3>1 DEF OfLine
      <4>4. line' \in Seq(Letters \cup {")"}) /\ Len(line') = Len(line) + 1
        BY <4>1, <4>2, <4>3, AppendProperties
      <4> QED
        BY <4>1, <4>2, <4>4 DEF Words
    <3>2. CASE ~(Stored(ch) /\ Raised(ch) = {})
      BY <1>3, <3>2 DEF OfLine, AssemblyTypes
    <3> QED
      BY <3>1, <3>2
  <2> QED
    BY <1>3, <2>1, <2>2 DEF OfLine, AssemblyTypes, replies, reports
<1>4. CASE "parentheses" \in line_flags
  <2>1. PICK flags : flags \in {line_flags, line_flags \ {"parentheses"}} /\ Skipped(flags)
    BY <1>4 DEF Assemble
  <2> QED
    BY <1>1, <2>1 DEF AssemblyTypes
<1>5. CASE "parentheses" \notin line_flags /\ FlagsBefore(ch) # {}
  BY <1>1, <1>5 DEF Assemble, FlagsBefore, AssemblyTypes
<1>6. CASE "parentheses" \notin line_flags /\ FlagsBefore(ch) = {}
  BY <1>2, <1>3, <1>6 DEF Assemble
<1> QED
  BY <1>4, <1>5, <1>6

\* One pass over the state machine, with the ring it finds.
LEMMA LineStepTypes ==
    ASSUME AssemblyTypes, machine \subseteq Waits, locked \in BOOLEAN, bufferRead \in Slots,
           NEW r \in Slots, NEW w \in Slots, NEW b, IsRing(b), bufferRead = r, LineStep(r, w, b)
    PROVE  /\ AssemblyTypes' /\ machine' \subseteq Waits /\ locked' \in BOOLEAN
           /\ bufferRead' \in Slots /\ IsRing(buffer')
<1>1. CASE lineStateMachine = "processing_chars"
  <2>1. CASE r = w
    BY <1>1, <2>1 DEF LineStep, CharactersStep, AssemblyTypes, assembly, replies, reports
  <2>2. CASE r # w
    <3>1. buffer' = Taken(b, r) /\ bufferRead' = Following(r) /\ Assemble(b[r])
          /\ UNCHANGED << machine, locked >>
      BY <1>1, <2>2 DEF LineStep, CharactersStep
    <3>2. Following(r) \in Slots
      BY RingPointers
    <3>3. IsRing(Taken(b, r))
      BY DEF IsRing, Taken, Cells
    <3>4. AssemblyTypes'
      BY <3>1, AssembleTypes
    <3> QED
      BY <3>1, <3>2, <3>3, <3>4
  <2> QED
    BY <2>1, <2>2
<1>2. CASE lineStateMachine # "processing_chars"
  <2>1. buffer' = b /\ UNCHANGED << bufferRead, assembly >>
    BY <1>2 DEF LineStep
  <2>2. PreSyncCheck \/ WaitPreSync \/ WaitForProcessed \/ JogWaitForProcessed \/ WaitHomeEnd
        \/ AfterCommand \/ SynchMotion
    BY <1>2 DEF LineStep, AssemblyTypes, States
  <2>3. command \in Seq(Characters)
    BY WordsAreCharacters DEF AssemblyTypes
  <2>4. machine' \subseteq Waits /\ locked' \in BOOLEAN /\ lineStateMachine' \in States
        /\ (Answers(command) \/ Defers(command) \/ UNCHANGED replies)
    <3>1. CASE PreSyncCheck
      BY <3>1 DEF PreSyncCheck, States
    <3>2. CASE WaitPreSync
      BY <3>2 DEF WaitPreSync, States, AssemblyTypes
    <3>3. CASE WaitForProcessed
      BY <3>3 DEF WaitForProcessed, Execute, Proceeds, States, AssemblyTypes
    <3>4. CASE JogWaitForProcessed
      BY <3>4 DEF JogWaitForProcessed, Proceeds, States, AssemblyTypes, Waits
    <3>5. CASE WaitHomeEnd
      BY <3>5 DEF WaitHomeEnd, States, AssemblyTypes
    <3>6. CASE AfterCommand
      BY <3>6 DEF AfterCommand, Proceeds, States, AssemblyTypes
    <3>7. CASE SynchMotion
      BY <3>7 DEF SynchMotion, States, AssemblyTypes
    <3> QED
      BY <2>2, <3>1, <3>2, <3>3, <3>4, <3>5, <3>6, <3>7
  <2>5. ReplyTypes'
    <3>1. ReplyTypes
      BY DEF AssemblyTypes, ReplyTypes
    <3> QED
      BY <2>3, <2>4, <3>1, HandlesTypes
  <2>6. AssemblyTypes'
    BY <2>1, <2>4, <2>5 DEF AssemblyTypes, ReplyTypes, assembly
  <2> QED
    BY <2>1, <2>4, <2>6
<1> QED
  BY <1>1, <1>2

OtherTypes ==
    /\ wire \in Seq(Characters)
    /\ IsRing(buffer) /\ bufferRead \in Slots /\ bufferWrite \in Slots
    /\ reset_requested \in BOOLEAN /\ locked \in BOOLEAN
    /\ machine \subseteq Waits
    /\ resets \in 0 .. MaxResets
    /\ sent \in Seq(Lines)

\* Both parts are the type invariant.
LEMMA TypesAre == TypeOK <=> AssemblyTypes /\ OtherTypes
  BY DEF TypeOK, AssemblyTypes, OtherTypes, Words, Entries, IsRing, Cells

\* The initial state has the types.
LEMMA InitTypes == Init => AssemblyTypes /\ OtherTypes
<1> SUFFICES ASSUME Init PROVE AssemblyTypes /\ OtherTypes
  OBVIOUS
<1>1. \A S : << >> \in Seq(S) /\ Len(<< >>) = 0
  BY EmptySeq
<1>2. << >> \in Words /\ Len(<< >>) = 0
  BY <1>1 DEF Words
<1>3. 0 < GRBL_LINE_BUFFER_SIZE /\ 0 \in Slots /\ 0 \in 0 .. MaxResets
  BY SizeAssumption, BoundsAssumption DEF Slots
<1>4. AssemblyTypes
  BY <1>1, <1>2, <1>3 DEF Init, AssemblyTypes, States
<1>5. IsRing(buffer)
  BY DEF Init, IsRing, Cells
<1> QED
  BY <1>1, <1>3, <1>4, <1>5 DEF Init, OtherTypes

\* The line step of a pass; what else a pass that reads a character does.
LEMMA PassTypes ==
    ASSUME AssemblyTypes, OtherTypes, PassWithoutCharacter \/ PassWithCharacter
    PROVE  AssemblyTypes' /\ OtherTypes'
<1>1. CASE PassWithoutCharacter
  <2>1. LineStep(bufferRead, bufferWrite, buffer)
        /\ UNCHANGED << wire, bufferWrite, reset_requested, resets, sent >>
    BY <1>1 DEF PassWithoutCharacter
  <2>2. /\ AssemblyTypes' /\ machine' \subseteq Waits /\ locked' \in BOOLEAN
        /\ bufferRead' \in Slots /\ IsRing(buffer')
    BY <2>1, LineStepTypes DEF OtherTypes
  <2> QED
    BY <2>1, <2>2 DEF OtherTypes
<1>2. CASE PassWithCharacter
  <2>1. PICK v, b :
          /\ v \in Slots /\ IsRing(b) /\ LineStep(bufferRead, v, b) /\ bufferWrite' = v
    <3>1. Head(wire) \in Characters
      BY <1>2, HeadTailProperties DEF PassWithCharacter, OtherTypes
    <3>2. CASE Head(wire) \in Realtime
      BY <1>2, <3>2 DEF PassWithCharacter, OtherTypes
    <3>3. CASE Head(wire) \notin Realtime
      <4>1. Following(bufferWrite) \in Slots
        BY RingPointers DEF OtherTypes
      <4>2. IsRing(AddItem(Head(wire)))
        BY <3>1 DEF IsRing, AddItem, Cells, OtherTypes
      <4> QED
        BY <1>2, <3>3, <4>1, <4>2 DEF PassWithCharacter
    <3> QED
      BY <3>2, <3>3
  <2>2. /\ AssemblyTypes' /\ machine' \subseteq Waits /\ locked' \in BOOLEAN
        /\ bufferRead' \in Slots /\ IsRing(buffer')
    BY <2>1, LineStepTypes DEF OtherTypes
  <2>3. wire' \in Seq(Characters)
    BY <1>2, HeadTailProperties DEF PassWithCharacter, OtherTypes
  <2>4. reset_requested' \in BOOLEAN /\ UNCHANGED << resets, sent >>
    BY <1>2 DEF PassWithCharacter
  <2> QED
    BY <2>1, <2>2, <2>3, <2>4 DEF OtherTypes
<1> QED
  BY <1>1, <1>2

\* Every step keeps the types.
LEMMA StepTypes ==
    ASSUME AssemblyTypes, OtherTypes, [Next]_vars
    PROVE  AssemblyTypes' /\ OtherTypes'
<1> USE DEF vars, ring, assembly, replies, reports
<1>1. CASE PassWithoutCharacter \/ PassWithCharacter
  BY <1>1, PassTypes
<1>2. CASE SoftReset
  <2>1. /\ << >> \in Words /\ Len(<< >>) = 0
        /\ << >> \in Seq(Entries) /\ << >> \in Seq(Lines)
    BY EmptySeq DEF Words
  <2>2. 0 < GRBL_LINE_BUFFER_SIZE /\ 0 \in Slots
    BY SizeAssumption DEF Slots
  <2>3. AssemblyTypes'
    <3>1. line' = << >> /\ line_flags' = {} /\ lineStateMachine' = "processing_chars"
          /\ answered' = << >> /\ command' = command /\ handled' = 0
          /\ underway' = underway \cap Crypto /\ owed' = owed \cap Crypto
      BY <1>2 DEF SoftReset, DropReports
    <3>2. GRBL_LINE_BUFFER_SIZE \in Nat
      BY SizeAssumption
    <3>3. line' \in Words /\ Len(line') <= GRBL_LINE_BUFFER_SIZE
      BY <2>1, <2>2, <3>1, <3>2
    <3>4. command' \in Words /\ Len(command') < GRBL_LINE_BUFFER_SIZE
      BY <3>1 DEF AssemblyTypes
    <3>5. lineStateMachine' \in States /\ answered' \in Seq(Entries) /\ handled' \in Nat
          /\ underway' \subseteq Reports /\ owed' \subseteq underway'
      BY <2>1, <3>1 DEF States, AssemblyTypes
    <3> QED
      BY <3>1, <3>3, <3>4, <3>5 DEF AssemblyTypes
  <2>4. IsRing(buffer')
    BY <1>2 DEF SoftReset, IsRing, Cells
  <2> QED
    BY <1>2, <2>1, <2>2, <2>3, <2>4 DEF SoftReset, OtherTypes
<1>3. CASE MachineProceeds
  BY <1>3 DEF MachineProceeds, AssemblyTypes, OtherTypes
<1>4. CASE LockChanges
  BY <1>4 DEF LockChanges, AssemblyTypes, OtherTypes
<1>5. CASE HostSends
  <2>1. AssemblyTypes'
    BY <1>5 DEF HostSends, AssemblyTypes
  <2>2. PICK l \in Lines : wire' = wire \o l /\ sent' = Append(sent, l)
    BY <1>5 DEF HostSends
  <2>3. wire' \in Seq(Characters)
    BY <2>2, LineAssumption, ConcatProperties DEF OtherTypes
  <2>4. sent' \in Seq(Lines)
    BY <2>2, AppendProperties DEF OtherTypes
  <2> QED
    BY <1>5, <2>1, <2>3, <2>4 DEF HostSends, OtherTypes
<1>6. CASE HostAsks
  <2>1. wire' \in Seq(Characters)
    BY <1>6, AppendProperties DEF HostAsks, OtherTypes, Characters
  <2> QED
    BY <1>6, <2>1 DEF HostAsks, AssemblyTypes, OtherTypes
<1>7. CASE HostResets
  <2>1. wire' \in Seq(Characters)
    BY <1>7, AppendProperties DEF HostResets, OtherTypes, Characters
  <2>2. resets' \in 0 .. MaxResets
    BY <1>7, BoundsAssumption DEF HostResets, OtherTypes
  <2> QED
    BY <1>7, <2>1, <2>2 DEF HostResets, AssemblyTypes, OtherTypes
<1>8. CASE UNCHANGED vars
  BY <1>8 DEF AssemblyTypes, OtherTypes
<1>9. ASSUME NEW k \in Reports, ReportProceeds(k) PROVE AssemblyTypes' /\ OtherTypes'
  <2>1. answered' \in Seq(Entries)
    <3>1. answered' = answered \/ answered' = Append(answered, << k >>)
      BY <1>9 DEF ReportProceeds
    <3>2. << k >> \in Entries
      BY EntriesAre
    <3> QED
      BY <3>1, <3>2, AppendProperties DEF AssemblyTypes
  <2>2. underway' \subseteq Reports /\ owed' \subseteq underway'
    BY <1>9 DEF ReportProceeds, AssemblyTypes
  <2> QED
    BY <1>9, <2>1, <2>2 DEF ReportProceeds, AssemblyTypes, OtherTypes
<1> QED
  BY <1>1, <1>2, <1>3, <1>4, <1>5, <1>6, <1>7, <1>8, <1>9 DEF Next

\* The variables have their types, for every size of the ring and the line buffer
\* and for every set of lines.
THEOREM LineTypes == Spec => []TypeOK
<1>1. Init => TypeOK
  BY InitTypes, TypesAre
<1>2. TypeOK /\ [Next]_vars => TypeOK'
  <2> SUFFICES ASSUME TypeOK, [Next]_vars PROVE TypeOK'
    OBVIOUS
  <2>1. AssemblyTypes /\ OtherTypes
    BY TypesAre
  <2>2. AssemblyTypes' /\ OtherTypes'
    BY <2>1, StepTypes
  <2> QED
    BY <2>2 DEF TypeOK, AssemblyTypes, OtherTypes, Words, Entries, IsRing, Cells
<1> QED
  BY <1>1, <1>2, PTL DEF Spec

-----------------------------------------------------------------------------
(* One character of a line.                                                *)

\* The comment flags in front of the i-th character of a line.
CommentAt(l, i) == IF AfterSemicolon(l, i) THEN {"semicolon"}
                   ELSE IF InParentheses(l, i) THEN {"parentheses"} ELSE {}

\* The characters of a line behind the first p.
Rest(l, p) == SubSeq(l, p + 1, Len(l))

\* Every character but the last moves the assembly one place on.
LEMMA OneCharacter ==
    ASSUME AssemblyTypes, NEW l \in Lines, Proper(l), NEW i \in Nat \ {0}, i < Len(l),
           line = Prefix(l, i - 1), line_flags = CommentAt(l, i), Assemble(l[i])
    PROVE  /\ line' = Prefix(l, i) /\ line_flags' = CommentAt(l, i + 1)
           /\ UNCHANGED << command, lineStateMachine, replies >>
<1> DEFINE x == l[i]
<1>1. /\ i \in 1 .. Len(l) /\ i \in DOMAIN l /\ i - 1 \in 0 .. Len(l)
      /\ x \in Characters /\ x # EOL
  <2> DEFINE n == Len(l)
  <2>1. n \in Nat /\ DOMAIN l = 1 .. n /\ i < n
    BY LinesAreSequences
  <2>2. \A k \in 1 .. n : l[k] \in Characters /\ (l[k] = EOL <=> k = n)
    BY LinesAreSequences
  <2> HIDE DEF n
  <2>3. i \in 1 .. n /\ i # n /\ i - 1 \in 0 .. n
    BY <2>1
  <2> QED
    BY <2>1, <2>2, <2>3 DEF n
<1>2. /\ x \notin Realtime
      /\ x = ")" => InParentheses(l, i) \/ AfterSemicolon(l, i)
  BY <1>1 DEF Proper
<1>3. /\ InParentheses(l, i + 1) <=> x = "(" \/ (InParentheses(l, i) /\ x # ")")
      /\ AfterSemicolon(l, i + 1) <=> AfterSemicolon(l, i) \/ (x = ";" /\ ~InParentheses(l, i))
  BY CommentsGoOn
<1>4. i \in Said(l) <=> x \in Letters /\ ~InParentheses(l, i) /\ ~AfterSemicolon(l, i)
  BY <1>1 DEF Said
<1>5. Prefix(l, i) = IF i \in Said(l) THEN Append(Prefix(l, i - 1), x) ELSE Prefix(l, i - 1)
  BY <1>1, TextGrows
<1>6. Len(line) < GRBL_LINE_BUFFER_SIZE
  <2>1. Len(Prefix(l, i - 1)) <= Len(Text(l)) /\ Len(Text(l)) < GRBL_LINE_BUFFER_SIZE
    BY <1>1, TextGrows DEF Proper
  <2>2. Prefix(l, i - 1) \in Seq(Characters) /\ Text(l) \in Seq(Characters)
    BY <1>1, TextGrows
  <2>3. Len(Prefix(l, i - 1)) \in Nat /\ Len(Text(l)) \in Nat
    BY <2>2, LenProperties
  <2> QED
    BY <2>1, <2>3, SizeAssumption
<1> HIDE DEF x
<1>7. Assemble(x)
  BY DEF x
<1>8. CASE AfterSemicolon(l, i)
  <2>1. line_flags = {"semicolon"} /\ FlagsBefore(x) = {"semicolon"}
    BY <1>1, <1>8 DEF CommentAt, FlagsBefore
  <2>2. Skipped({"semicolon"})
    BY <1>7, <2>1 DEF Assemble
  <2>3. CommentAt(l, i + 1) = {"semicolon"} /\ i \notin Said(l)
    BY <1>3, <1>4, <1>8 DEF CommentAt
  <2> QED
    BY <1>5, <2>2, <2>3 DEF Skipped
<1>9. CASE ~AfterSemicolon(l, i) /\ InParentheses(l, i)
  <2>1. line_flags = {"parentheses"}
    BY <1>9 DEF CommentAt
  <2>2. Skipped(IF x = ")" THEN {} ELSE {"parentheses"})
    <3>1. CASE x = ")"
      BY <1>7, <2>1, <3>1 DEF Assemble
    <3>2. CASE x # ")"
      BY <1>7, <2>1, <3>2 DEF Assemble
    <3> QED
      BY <3>1, <3>2
  <2>3. CommentAt(l, i + 1) = (IF x = ")" THEN {} ELSE {"parentheses"}) /\ i \notin Said(l)
    BY <1>3, <1>4, <1>9 DEF CommentAt
  <2> QED
    BY <1>5, <2>2, <2>3 DEF Skipped
<1>10. CASE ~AfterSemicolon(l, i) /\ ~InParentheses(l, i)
  <2>1. line_flags = {} /\ FlagsBefore(x) = {}
    BY <1>10 DEF CommentAt, FlagsBefore
  <2>2. OfLine(x)
    BY <1>1, <1>7, <2>1 DEF Assemble
  <2>3. Stored(x) <=> x \in Letters
    BY <1>2, <1>10 DEF Stored
  <2>4. ~(Len(line) >= GRBL_LINE_BUFFER_SIZE)
    <3>1. Len(line) \in Nat
      BY LenProperties DEF AssemblyTypes, Words
    <3> QED
      BY <1>6, <3>1, SizeAssumption
  <2>5. Raised(x) = IF x = "(" THEN {"parentheses"} ELSE IF x = ";" THEN {"semicolon"} ELSE {}
    BY <2>4 DEF Raised
  <2>6. CommentAt(l, i + 1) = Raised(x)
    BY <1>3, <1>10, <2>5 DEF CommentAt
  <2>7. line_flags' = Raised(x)
    BY <2>1, <2>2 DEF OfLine
  <2>8. Stored(x) /\ Raised(x) = {} <=> i \in Said(l)
    BY <1>4, <1>10, <2>3, <2>5 DEF Letters
  <2>9. line' = Prefix(l, i)
    BY <1>5, <2>2, <2>8 DEF OfLine
  <2> QED
    BY <2>2, <2>6, <2>7, <2>9 DEF OfLine
<1> QED
  BY <1>8, <1>9, <1>10

\* The end of the line: what was assembled is its text.
LEMMA LastCharacter ==
    ASSUME AssemblyTypes, NEW l \in Lines, Proper(l),
           line = Prefix(l, Len(l) - 1), line_flags = CommentAt(l, Len(l)), Assemble(l[Len(l)])
    PROVE  /\ line' = << >> /\ line_flags' = {} /\ command' = Text(l)
           /\ \/ Handles(Text(l)) /\ UNCHANGED lineStateMachine
              \/ /\ Text(l) # << >> /\ UNCHANGED replies
                 /\ lineStateMachine' \in {"jog_wait_for_processed", "pre_sync_check"}
<1>1. Len(l) \in 1 .. Len(l) /\ l[Len(l)] = EOL
  <2> DEFINE n == Len(l)
  <2>1. n \in Nat \ {0}
    BY LinesAreSequences
  <2> HIDE DEF n
  <2>2. n \in 1 .. n
    BY <2>1
  <2> QED
    BY <2>2, LinesAreSequences DEF n
<1>2. line = Text(l)
  BY TextGrows
<1>3. Len(line) < GRBL_LINE_BUFFER_SIZE
  BY <1>2 DEF Proper
<1>4. Terminated = Text(l)
  BY <1>2, <1>3, TerminatedFits
<1>5. "parentheses" \notin line_flags /\ FlagsBefore(EOL) = {}
  BY DEF CommentAt, Proper, FlagsBefore
<1>6. EndOfLine
  BY <1>1, <1>5 DEF Assemble
<1>7. Head(Terminated) # "$" \/ Terminated = << >> => ~Asynchronous(Terminated)
  BY EmptySeq DEF Asynchronous
<1> QED
  BY <1>4, <1>6, <1>7 DEF EndOfLine, Proceeds, Handles

-----------------------------------------------------------------------------
(* Where the characters that are pending stand in the lines unhandled.     *)

\* The line at hand is being assembled: t is the text, f the flags of what was
\* read of it, P the characters pending.
Between(P, U, t, f) ==
    \/ U = << >> /\ P = << >> /\ t = << >> /\ f = {}
    \/ /\ U # << >>
       /\ \E p \in 0 .. Len(Head(U)) - 1 :
             /\ P = Cat(Rest(Head(U), p), FlattenSeq(Tail(U)))
             /\ t = Prefix(Head(U), p) /\ f = CommentAt(Head(U), p + 1)

\* The line at hand is complete and held.
Held(P, U, t, f, c) ==
    /\ U # << >> /\ P = FlattenSeq(Tail(U)) /\ Len(Head(U)) >= 2
    /\ c = Text(Head(U)) /\ t = << >> /\ f = {}

At(P, U, t, f, c, s) ==
    IF s = "processing_chars" THEN Between(P, U, t, f) ELSE Held(P, U, t, f, c)

\* Two sequences with a first character.
LEMMA FirstCharacter ==
    ASSUME NEW C, NEW x \in C, NEW y \in C, NEW s \in Seq(C), NEW t \in Seq(C)
    PROVE  /\ Cat(<< x >>, s) # << >>
           /\ Len(Cat(<< x >>, s)) = Len(s) + 1
           /\ Cat(<< x >>, s) = Cat(<< y >>, t) => x = y /\ s = t
<1> DEFINE a == << x >>
           b == << y >>
<1>1. a \in Seq(C) /\ b \in Seq(C) /\ Len(a) = 1 /\ Len(b) = 1 /\ a[1] = x /\ b[1] = y
  OBVIOUS
<1> HIDE DEF a, b
<1>2. Len(s) \in Nat /\ Len(t) \in Nat /\ Len(<< >>) = 0
  BY LenProperties, EmptySeq
<1>3. ASSUME NEW c \in Seq(C), NEW u \in Seq(C), Len(c) = 1
      PROVE  /\ Len(c \o u) = Len(u) + 1 /\ (c \o u)[1] = c[1]
             /\ \A k \in 1 .. Len(u) : (c \o u)[k + 1] = u[k]
  <2>1. Len(u) \in Nat
    BY LenProperties
  <2>2. /\ Len(c \o u) = Len(c) + Len(u)
        /\ \A i \in 1 .. Len(c) + Len(u) : (c \o u)[i] = IF i <= Len(c) THEN c[i] ELSE u[i - Len(c)]
    BY ConcatProperties
  <2> QED
    BY <1>3, <2>1, <2>2
<1>4. /\ Len(a \o s) = Len(s) + 1 /\ (a \o s)[1] = x
      /\ Len(b \o t) = Len(t) + 1 /\ (b \o t)[1] = y
      /\ \A k \in 1 .. Len(s) : (a \o s)[k + 1] = s[k]
      /\ \A k \in 1 .. Len(t) : (b \o t)[k + 1] = t[k]
  BY <1>1, <1>3
<1>5. a \o s # << >>
  BY <1>2, <1>4
<1>6. a \o s = b \o t => x = y
  BY <1>4
<1>7. ASSUME a \o s = b \o t PROVE s = t
  <2> DEFINE m == Len(s)
             n == Len(t)
  <2>1. m \in Nat /\ n \in Nat /\ m + 1 = n + 1
    BY <1>2, <1>4, <1>7
  <2> HIDE DEF m, n
  <2>2. m = n
    BY <2>1
  <2>3. ASSUME NEW k \in 1 .. m PROVE s[k] = t[k]
    BY <1>4, <1>7, <2>2, <2>3 DEF m, n
  <2> QED
    BY <2>2, <2>3, SeqEqual DEF m, n
<1> QED
  BY <1>4, <1>5, <1>6, <1>7 DEF Cat, a, b

\* Lines and their characters, as cells of the ring.
LEMMA LinesOfCells ==
    /\ Seq(Characters) \subseteq Seq(Cells)
    /\ \A l \in Lines : l \in Seq(Cells)
    /\ \A U \in Seq(Lines) : U \in Seq(Seq(Cells)) /\ FlattenSeq(U) \in Seq(Cells)
<1>1. Seq(Characters) \subseteq Seq(Cells)
  BY SeqMonotonic DEF Cells
<1>2. \A l \in Lines : l \in Seq(Cells)
  BY <1>1, LinesAreSequences
<1>3. \A U \in Seq(Lines) : U \in Seq(Seq(Cells))
  BY <1>2, SeqMonotonic
<1> QED
  BY <1>1, <1>2, <1>3, FlattenType

\* What is left of a line.
LEMMA RestOfLine ==
    ASSUME NEW l \in Lines
    PROVE  /\ Rest(l, 0) = l /\ Rest(l, Len(l)) = << >>
           /\ \A i \in 1 .. Len(l) :
                /\ Rest(l, i) \in Seq(Cells)
                /\ Rest(l, i - 1) = Cat(<< l[i] >>, Rest(l, i))
<1> DEFINE n == Len(l)
<1>1. l \in Seq(Characters) /\ l \in Seq(Cells) /\ n \in Nat \ {0}
      /\ \A k \in 1 .. n : l[k] \in Cells
  BY LinesAreSequences, LinesOfCells DEF Cells
<1>2. Rest(l, 0) = l
  BY <1>1, SubSeqFull DEF Rest
<1>3. Rest(l, n) = << >>
  BY <1>1, SubSeqEmpty DEF Rest
<1>4. ASSUME NEW i \in 1 .. n
      PROVE  Rest(l, i) \in Seq(Cells) /\ Rest(l, i - 1) = Cat(<< l[i] >>, Rest(l, i))
  <2> HIDE DEF n
  <2>1. i \in Int /\ n \in Int /\ i + 1 \in Int /\ n \in i .. n /\ (i - 1) + 1 = i
    BY <1>1
  <2>2. \A k \in i + 1 .. n : l[k] \in Cells
    BY <1>1
  <2>3. SubSeq(l, i + 1, n) \in Seq(Cells)
    BY <2>1, <2>2, SubSeqProperties
  <2>4. SubSeq(l, i, n) = << l[i] >> \o SubSeq(l, i + 1, n)
    BY <1>1, <2>1, SubSeqRecursiveFirst DEF n
  <2>5. Rest(l, i) = SubSeq(l, i + 1, n) /\ Rest(l, i - 1) = SubSeq(l, i, n)
    BY <2>1 DEF Rest, n
  <2> QED
    BY <2>3, <2>4, <2>5 DEF Cat
<1> QED
  BY <1>2, <1>3, <1>4

\* At the beginning of a line.
LEMMA AtTheBeginning ==
    ASSUME NEW U \in Seq(Lines)
    PROVE  Between(FlattenSeq(U), U, << >>, {})
<1>1. CASE U = << >>
  <2>1. FlattenSeq(U) = << >>
    BY <1>1, EmptySeq, FlattenType
  <2> QED
    BY <1>1, <2>1 DEF Between
<1>2. CASE U # << >>
  <2> DEFINE l == Head(U)
  <2>1. l \in Lines /\ U \in Seq(Seq(Cells))
    BY <1>2, HeadTailProperties, LinesOfCells
  <2>2. FlattenSeq(U) = Cat(l, FlattenSeq(Tail(U)))
    BY <1>2, <2>1, FlattenHead
  <2> HIDE DEF l
  <2>3. Rest(l, 0) = l /\ Prefix(l, 0) = << >>
    BY <2>1, RestOfLine, TextGrows
  <2>4. CommentAt(l, 0 + 1) = {}
    BY CommentsBegin DEF CommentAt
  <2>5. 0 \in 0 .. Len(l) - 1
    <3> DEFINE n == Len(l)
    <3>1. n \in Nat \ {0}
      BY <2>1, LinesAreSequences
    <3> HIDE DEF n
    <3>2. 0 \in 0 .. n - 1
      BY <3>1
    <3> QED
      BY <3>2 DEF n
  <2> QED
    BY <1>2, <2>2, <2>3, <2>4, <2>5 DEF Between, l
<1> QED
  BY <1>1, <1>2

\* The line step with a character of the ring: the place moves on by one.
LEMMA CharacterTaken ==
    ASSUME AssemblyTypes, \A l \in Lines : Proper(l), NEW U \in Seq(Lines),
           NEW x \in Cells, NEW Q \in Seq(Cells), lineStateMachine = "processing_chars",
           Between(Cat(<< x >>, Q), U, line, line_flags), Assemble(x)
    PROVE  \/ UNCHANGED replies /\ At(Q, U, line', line_flags', command', lineStateMachine')
           \/ /\ U # << >> /\ Handles(Text(Head(U)))
              /\ At(Q, Tail(U), line', line_flags', command', lineStateMachine')
<1>1. Cat(<< x >>, Q) # << >>
  BY FirstCharacter
<1>2. U # << >>
  BY <1>1 DEF Between
<1> DEFINE l == Head(U)
           F == FlattenSeq(Tail(U))
<1>3. l \in Lines /\ Tail(U) \in Seq(Lines) /\ F \in Seq(Cells) /\ Proper(l)
  <2>1. l \in Lines /\ Tail(U) \in Seq(Lines)
    BY <1>2, HeadTailProperties
  <2> QED
    BY <2>1, LinesOfCells
<1>4. PICK p \in 0 .. Len(l) - 1 :
         Cat(<< x >>, Q) = Cat(Rest(l, p), F) /\ line = Prefix(l, p) /\ line_flags = CommentAt(l, p + 1)
  BY <1>2 DEF Between
<1> DEFINE n == Len(l)
           i == p + 1
<1>5. n \in Nat \ {0} /\ i \in 1 .. n /\ i - 1 = p /\ i \in Nat \ {0}
  <2>1. n \in Nat \ {0} /\ p \in 0 .. n - 1
    BY <1>3, LinesAreSequences
  <2> HIDE DEF n
  <2> QED
    BY <2>1
<1> HIDE DEF l, F
<1>6. l[i] \in Cells /\ Rest(l, i) \in Seq(Cells) /\ Rest(l, p) = Cat(<< l[i] >>, Rest(l, i))
  BY <1>3, <1>5, RestOfLine, LinesAreSequences DEF Cells
<1> HIDE DEF n, i
<1>7. x = l[i] /\ Q = Cat(Rest(l, i), F)
  <2> DEFINE y == l[i]
             a == << y >>
  <2>1. a \in Seq(Cells) /\ y \in Cells
    BY <1>6
  <2>2. Rest(l, p) = Cat(a, Rest(l, i))
    BY <1>6
  <2> HIDE DEF a
  <2>3. Cat(Rest(l, p), F) = Cat(a, Cat(Rest(l, i), F)) /\ Cat(Rest(l, i), F) \in Seq(Cells)
    BY <1>3, <1>6, <2>1, <2>2, CatAssociative, CatType
  <2> HIDE DEF y
  <2>4. Cat(<< x >>, Q) = Cat(<< y >>, Cat(Rest(l, i), F))
    BY <1>4, <2>3 DEF a
  <2>5. x = y /\ Q = Cat(Rest(l, i), F)
    BY <2>1, <2>3, <2>4, FirstCharacter
  <2> QED
    BY <2>5 DEF y
<1>8. line = Prefix(l, i - 1) /\ line_flags = CommentAt(l, i) /\ Assemble(l[i])
  BY <1>4, <1>5, <1>7 DEF i
<1>9. CASE i < n
  <2>1. line' = Prefix(l, i) /\ line_flags' = CommentAt(l, i + 1)
        /\ UNCHANGED << command, lineStateMachine, replies >>
    BY <1>3, <1>5, <1>8, <1>9, OneCharacter DEF n
  <2>2. i \in 0 .. n - 1
    BY <1>5, <1>9
  <2>3. Between(Q, U, line', line_flags')
    BY <1>2, <1>7, <2>1, <2>2 DEF Between, l, F, n
  <2> QED
    BY <2>1, <2>3 DEF At
<1>10. CASE i = n
  <2>1. /\ line' = << >> /\ line_flags' = {} /\ command' = Text(l)
        /\ \/ Handles(Text(l)) /\ UNCHANGED lineStateMachine
           \/ /\ Text(l) # << >> /\ UNCHANGED replies
              /\ lineStateMachine' \in {"jog_wait_for_processed", "pre_sync_check"}
    BY <1>3, <1>8, <1>10, LastCharacter DEF n
  <2>2. Q = F
    BY <1>3, <1>7, <1>10, RestOfLine, CatType DEF n
  <2>3. CASE Handles(Text(l)) /\ UNCHANGED lineStateMachine
    <3>1. Between(Q, Tail(U), line', line_flags')
      BY <1>3, <2>1, <2>2, AtTheBeginning DEF F
    <3> QED
      BY <1>2, <2>3, <3>1 DEF At, l
  <2>4. CASE Text(l) # << >> /\ UNCHANGED replies
             /\ lineStateMachine' \in {"jog_wait_for_processed", "pre_sync_check"}
    <3>1. Len(l) >= 2
      BY <1>3, <2>4, TextNeedsCharacters
    <3>2. Held(Q, U, line', line_flags', command')
      BY <1>2, <2>1, <2>2, <3>1 DEF Held, l, F
    <3> QED
      BY <2>4, <3>2 DEF At
  <2> QED
    BY <2>1, <2>3, <2>4
<1> QED
  BY <1>5, <1>9, <1>10

-----------------------------------------------------------------------------
(* One pass.                                                               *)

\* The pending characters are Q afterwards: the lines U are still to be handled,
\* or the first of them has been.
Onward(Q, U) ==
    \/ UNCHANGED replies /\ At(Q, U, line', line_flags', command', lineStateMachine')
    \/ /\ U # << >> /\ Handles(Text(Head(U)))
       /\ At(Q, Tail(U), line', line_flags', command', lineStateMachine')

\* The lines answered late or never are held by the main loop until they are
\* executed, and no longer.
Synchronous ==
    lineStateMachine \notin {"processing_chars", "jog_wait_for_processed"}
        => ~Asynchronous(command)

\* It stays so.
LEMMA StaysSynchronous ==
    ASSUME AssemblyTypes, Synchronous, NEW r, NEW w, NEW b, LineStep(r, w, b)
    PROVE  Synchronous'
<1>1. CASE lineStateMachine = "processing_chars"
  <2>1. CASE lineStateMachine' = "processing_chars"
    BY <2>1 DEF Synchronous
  <2>2. CASE lineStateMachine' # "processing_chars"
    <3>1. EndOfLine
      BY <1>1, <2>2 DEF LineStep, CharactersStep, Assemble, Skipped, OfLine
    <3>2. Head(Terminated) # "$" => ~Asynchronous(Terminated)
      BY DEF Asynchronous
    <3> QED
      BY <1>1, <2>2, <3>1, <3>2 DEF EndOfLine, Proceeds, Synchronous
  <2> QED
    BY <2>1, <2>2
<1>2. CASE lineStateMachine # "processing_chars"
  <2>1. command' = command
    BY <1>2 DEF LineStep, assembly
  <2>2. PreSyncCheck \/ WaitPreSync \/ WaitForProcessed \/ JogWaitForProcessed \/ WaitHomeEnd
        \/ AfterCommand \/ SynchMotion
    BY <1>2 DEF LineStep, AssemblyTypes, States
  <2>3. CASE lineStateMachine = "jog_wait_for_processed"
    <3>1. JogWaitForProcessed
      BY <2>3 DEF LineStep
    <3>2. \/ lineStateMachine' \in {"processing_chars", "jog_wait_for_processed"}
          \/ ~Asynchronous(command)
      BY <2>3, <3>1 DEF JogWaitForProcessed
    <3> QED
      BY <2>1, <3>2 DEF Synchronous
  <2>4. CASE lineStateMachine # "jog_wait_for_processed"
    BY <1>2, <2>1, <2>4 DEF Synchronous
  <2> QED
    BY <2>3, <2>4
<1> QED
  BY <1>1, <1>2

\* A line that is held stays, or is handled with its text.
LEMMA HeldOrAnswered ==
    ASSUME AssemblyTypes, Synchronous, lineStateMachine # "processing_chars",
           NEW r, NEW w, NEW b, LineStep(r, w, b)
    PROVE  \/ UNCHANGED replies /\ lineStateMachine' # "processing_chars"
           \/ Handles(command) /\ lineStateMachine' = "processing_chars"
<1>1. PreSyncCheck \/ WaitPreSync \/ WaitForProcessed \/ JogWaitForProcessed \/ WaitHomeEnd
      \/ AfterCommand \/ SynchMotion
  BY DEF LineStep, AssemblyTypes, States
<1>2. CASE PreSyncCheck
  BY <1>2 DEF PreSyncCheck
<1>3. CASE WaitPreSync
  BY <1>3 DEF WaitPreSync
<1>4. CASE WaitForProcessed
  BY <1>4 DEF WaitForProcessed, Proceeds
<1>5. CASE JogWaitForProcessed
  BY <1>5 DEF JogWaitForProcessed, Proceeds, Handles
<1>6. CASE lineStateMachine # "jog_wait_for_processed" /\ WaitHomeEnd
  <2>1. ~Asynchronous(command)
    BY <1>6 DEF Synchronous
  <2> QED
    BY <1>6, <2>1 DEF WaitHomeEnd, Handles
<1>7. CASE lineStateMachine # "jog_wait_for_processed" /\ AfterCommand
  <2>1. ~Asynchronous(command)
    BY <1>7 DEF Synchronous
  <2> QED
    BY <1>7, <2>1 DEF AfterCommand, Proceeds, Handles
<1>8. CASE SynchMotion
  BY <1>8 DEF SynchMotion
<1>9. lineStateMachine = "jog_wait_for_processed" => JogWaitForProcessed
  BY DEF LineStep
<1> QED
  BY <1>1, <1>2, <1>3, <1>4, <1>5, <1>6, <1>7, <1>8, <1>9

\* The line step takes the next pending character, or holds the line.
LEMMA LineStepOnward ==
    ASSUME AssemblyTypes, Synchronous, \A l \in Lines : Proper(l), NEW U \in Seq(Lines),
           NEW r \in Slots, NEW w \in Slots, NEW b, IsRing(b), NEW K \in Seq(Cells),
           bufferRead = r, LineStep(r, w, b),
           At(Cat(Contents(b, r, w), K), U, line, line_flags, command, lineStateMachine)
    PROVE  /\ Onward(Cat(Contents(buffer', bufferRead', w), K), U)
           /\ IF lineStateMachine = "processing_chars" /\ Fillness(r, w) # 0
              THEN Fillness(bufferRead', w) = Fillness(r, w) - 1
              ELSE Fillness(bufferRead', w) = Fillness(r, w)
<1> DEFINE c == Contents(b, r, w)
<1>1. c \in Seq(Cells)
  BY ContentsType
<1>2. CASE lineStateMachine = "processing_chars" /\ r = w
  <2>1. buffer' = b /\ bufferRead' = r /\ Fillness(r, w) = 0
    BY <1>2, RingPointers DEF LineStep, CharactersStep
  <2>2. UNCHANGED << line, line_flags, command, lineStateMachine, replies >>
    BY <1>2 DEF LineStep, CharactersStep, assembly
  <2> QED
    BY <2>1, <2>2 DEF Onward
<1>3. CASE lineStateMachine = "processing_chars" /\ r # w
  <2> DEFINE d == Taken(b, r)
             v == Following(r)
             e == Contents(d, v, w)
             x == b[r]
             Q == Cat(e, K)
  <2>1. buffer' = d /\ bufferRead' = v /\ Assemble(x)
    BY <1>3 DEF LineStep, CharactersStep
  <2>2. v \in Slots /\ x \in Cells /\ IsRing(d) /\ Fillness(r, w) # 0
        /\ Fillness(v, w) = Fillness(r, w) - 1
    <3>1. x \in Cells
      BY DEF IsRing
    <3>2. IsRing(d)
      BY DEF IsRing, Taken, Cells
    <3>3. v \in Slots /\ Fillness(r, w) # 0 /\ Fillness(v, w) = Fillness(r, w) - 1
      BY <1>3, RingPointers
    <3> QED
      BY <3>1, <3>2, <3>3
  <2>3. c = Cat(<< x >>, e)
    <3>1. Nul \in Cells
      BY DEF Cells
    <3>2. Contents(b, r, w) = Cat(<< b[r] >>, Contents([b EXCEPT ![r] = Nul], Following(r), w))
      BY <1>3, <3>1, ContentsTake
    <3> QED
      BY <3>2 DEF Taken
  <2> HIDE DEF c, d, v, x
  <2>4. e \in Seq(Cells)
    BY <2>2, ContentsType
  <2> HIDE DEF e
  <2>5. Q \in Seq(Cells) /\ Cat(c, K) = Cat(<< x >>, Q)
    <3> DEFINE a == << x >>
    <3>1. a \in Seq(Cells)
      BY <2>2
    <3> HIDE DEF a
    <3>2. Cat(Cat(a, e), K) = Cat(a, Cat(e, K)) /\ Cat(e, K) \in Seq(Cells)
      BY <2>4, <3>1, CatAssociative, CatType
    <3> QED
      BY <2>3, <3>2 DEF a
  <2>6. Between(Cat(<< x >>, Q), U, line, line_flags)
    BY <1>3, <2>5 DEF At, c
  <2> HIDE DEF Q
  <2>7. \/ UNCHANGED replies /\ At(Q, U, line', line_flags', command', lineStateMachine')
        \/ /\ U # << >> /\ Handles(Text(Head(U)))
           /\ At(Q, Tail(U), line', line_flags', command', lineStateMachine')
    BY <1>3, <2>1, <2>2, <2>5, <2>6, CharacterTaken
  <2>8. Onward(Q, U)
    BY <2>7 DEF Onward
  <2>9. Q = Cat(Contents(buffer', bufferRead', w), K)
    BY <2>1 DEF Q, e
  <2> QED
    BY <1>3, <2>1, <2>2, <2>8, <2>9
<1>4. CASE lineStateMachine # "processing_chars"
  <2> DEFINE Q == Cat(c, K)
  <2>1. buffer' = b /\ bufferRead' = r
        /\ line' = line /\ line_flags' = line_flags /\ command' = command
    BY <1>4 DEF LineStep, assembly
  <2>2. Held(Q, U, line, line_flags, command)
    BY <1>4 DEF At
  <2> HIDE DEF Q
  <2>3. \/ UNCHANGED replies /\ lineStateMachine' # "processing_chars"
        \/ Handles(command) /\ lineStateMachine' = "processing_chars"
    BY <1>4, HeldOrAnswered
  <2>4. Held(Q, U, line', line_flags', command')
    BY <2>1, <2>2
  <2>5. ASSUME UNCHANGED replies, lineStateMachine' # "processing_chars" PROVE Onward(Q, U)
    <3>1. At(Q, U, line', line_flags', command', lineStateMachine')
      BY <2>4, <2>5 DEF At
    <3> QED
      BY <2>5, <3>1 DEF Onward
  <2>7. ASSUME Handles(command), lineStateMachine' = "processing_chars" PROVE Onward(Q, U)
    <3>1. U # << >> /\ Q = FlattenSeq(Tail(U)) /\ command = Text(Head(U))
          /\ line = << >> /\ line_flags = {}
      BY <2>2 DEF Held
    <3>2. Tail(U) \in Seq(Lines)
      BY <3>1, HeadTailProperties
    <3>3. Between(Q, Tail(U), << >>, {})
      BY <3>1, <3>2, AtTheBeginning
    <3>4. Between(Q, Tail(U), line', line_flags')
      BY <2>1, <3>1, <3>3
    <3>5. At(Q, Tail(U), line', line_flags', command', lineStateMachine')
      BY <2>7, <3>4 DEF At
    <3>6. Handles(Text(Head(U)))
      BY <2>7, <3>1
    <3> QED
      BY <3>1, <3>5, <3>6 DEF Onward
  <2>6. Onward(Q, U)
    BY <2>3, <2>5, <2>7
  <2> QED
    BY <1>4, <2>1, <2>6 DEF Q
<1> QED
  BY <1>2, <1>3, <1>4

-----------------------------------------------------------------------------
(* The inductive invariant.                                                *)

\* The lines sent and not handled.
Unhandled == SubSeq(sent, handled + 1, Len(sent))

\* What is handled was sent, and what is not handled fits the ring.
Counted == handled <= Len(sent) /\ Len(FlattenSeq(Unhandled)) <= RX

\* Report k is owed: one answer more.
OwedFor(k) == IF k \in owed THEN 1 ELSE 0

\* No answer without a line handled: the host has at most as many answers as lines
\* were handled, those to come included.
Owing == /\ underway \subseteq Logs
         /\ Len(answered) + OwedFor("sys_log_0") + OwedFor("sys_log_1") <= handled

\* Between two passes the ring has room for one character, and is not full then.
Room == Fillness(bufferRead, bufferWrite) <= RX - 2

\* The pending characters are those of the lines unhandled, from the place at hand.
InOrder == At(Pending, Unhandled, line, line_flags, command, lineStateMachine)

\* Nothing is sent behind the character of a reset.
ResetLast == /\ \A i \in DOMAIN wire : wire[i] = Reset => i = Len(wire)
             /\ reset_requested => wire = << >>

LineInv == /\ AssemblyTypes /\ OtherTypes /\ Synchronous /\ Owing
           /\ Counted /\ Room /\ InOrder /\ ResetLast

\* The lines behind the first k.
LEMMA UnhandledLines ==
    ASSUME NEW s \in Seq(Lines), NEW k \in Nat, k <= Len(s)
    PROVE  /\ SubSeq(s, k + 1, Len(s)) \in Seq(Lines)
           /\ SubSeq(s, k + 1, Len(s)) = << >> <=> k = Len(s)
           /\ k # Len(s) => /\ Head(SubSeq(s, k + 1, Len(s))) = s[k + 1]
                            /\ Tail(SubSeq(s, k + 1, Len(s))) = SubSeq(s, k + 2, Len(s))
           /\ \A l \in Lines : SubSeq(Append(s, l), k + 1, Len(Append(s, l)))
                                 = Append(SubSeq(s, k + 1, Len(s)), l)
<1> DEFINE n == Len(s)
           U == SubSeq(s, k + 1, n)
<1>1. n \in Nat /\ k <= n /\ (\A i \in k + 1 .. n : s[i] \in Lines)
  <2>1. n \in Nat /\ \A i \in 1 .. n : s[i] \in Lines
    BY LenProperties
  <2>2. k <= n
    OBVIOUS
  <2> HIDE DEF n
  <2> QED
    BY <2>1, <2>2
<1>2. U \in Seq(Lines) /\ Len(U) = (IF k + 1 <= n THEN n - (k + 1) + 1 ELSE 0)
      /\ \A i \in 1 .. n - (k + 1) + 1 : U[i] = s[(k + 1) + i - 1]
  <2> HIDE DEF n
  <2>1. k + 1 \in Int /\ n \in Int
    BY <1>1
  <2> QED
    BY <1>1, <2>1, SubSeqProperties
<1>3. U = << >> <=> k = n
  <2> HIDE DEF n
  <2>1. k = n => U = << >>
    <3>1. k + 1 \in Int /\ n \in Int
      BY <1>1
    <3> QED
      BY <3>1, SubSeqEmpty
  <2>2. k # n => Len(U) # 0
    BY <1>1, <1>2
  <2>3. Len(<< >>) = 0
    BY EmptySeq
  <2> QED
    BY <2>1, <2>2, <2>3
<1>4. k # n => Head(U) = s[k + 1] /\ Tail(U) = SubSeq(s, k + 2, n)
  <2> HIDE DEF n, U
  <2> SUFFICES ASSUME k # n PROVE Head(U) = s[k + 1] /\ Tail(U) = SubSeq(s, k + 2, n)
    OBVIOUS
  <2>1. k + 1 \in 1 .. n /\ n \in k + 1 .. n /\ (k + 1) + 1 = k + 2
    BY <1>1
  <2> QED
    BY <2>1, HeadTailOfSubSeq DEF n, U
<1>5. ASSUME NEW l \in Lines
      PROVE  SubSeq(Append(s, l), k + 1, Len(Append(s, l))) = Append(U, l)
  <2> DEFINE t == Append(s, l)
             V == SubSeq(t, k + 1, n + 1)
  <2>1. Len(t) = n + 1 /\ (\A i \in 1 .. n : t[i] = s[i]) /\ t[n + 1] = l
    BY AppendProperties
  <2> HIDE DEF n, t, U
  <2>2. k + 1 \in Int /\ n + 1 \in Int /\ \A i \in k + 1 .. n + 1 : t[i] \in Lines
    BY <1>1, <2>1
  <2>3. V \in Seq(Lines) /\ Len(V) = (IF k + 1 <= n + 1 THEN (n + 1) - (k + 1) + 1 ELSE 0)
        /\ \A i \in 1 .. (n + 1) - (k + 1) + 1 : V[i] = t[(k + 1) + i - 1]
    BY <2>2, SubSeqProperties
  <2> HIDE DEF V
  <2> DEFINE m == n - k
  <2>4. m \in Nat /\ Len(U) = m /\ Len(V) = m + 1
        /\ (\A i \in 1 .. m : U[i] = s[k + i]) /\ (\A i \in 1 .. m + 1 : V[i] = t[k + i])
    BY <1>1, <1>2, <2>3
  <2>5. \A i \in 1 .. m : k + i \in 1 .. n
    BY <1>1
  <2>6. k + (m + 1) = n + 1
    BY <1>1
  <2> HIDE DEF m
  <2> DEFINE A == Append(U, l)
  <2>7. A \in Seq(Lines) /\ Len(A) = m + 1 /\ A[m + 1] = l /\ \A i \in 1 .. m : A[i] = U[i]
    BY <1>2, <2>4, AppendProperties
  <2> HIDE DEF A
  <2>8. ASSUME NEW i \in 1 .. m + 1 PROVE V[i] = A[i]
    <3>1. CASE i = m + 1
      BY <2>1, <2>4, <2>6, <2>7, <3>1
    <3>2. CASE i # m + 1
      <4>1. i \in 1 .. m
        BY <2>4, <3>2
      <4> QED
        BY <2>1, <2>4, <2>5, <2>7, <4>1
    <3> QED
      BY <3>1, <3>2
  <2>9. V = A
    BY <2>3, <2>4, <2>7, <2>8, SeqEqual
  <2> QED
    BY <2>1, <2>9 DEF V, A, t
<1> QED
  BY <1>2, <1>3, <1>4, <1>5

\* The characters of the lines behind the first.
LEMMA LinesBehind ==
    ASSUME NEW U \in Seq(Lines), U # << >>
    PROVE  /\ Head(U) \in Lines /\ Tail(U) \in Seq(Lines)
           /\ FlattenSeq(U) = Cat(Head(U), FlattenSeq(Tail(U)))
           /\ Len(FlattenSeq(U)) \in Nat /\ Len(FlattenSeq(Tail(U))) \in Nat
           /\ Len(FlattenSeq(U)) = Len(Head(U)) + Len(FlattenSeq(Tail(U)))
<1>1. Head(U) \in Lines /\ Tail(U) \in Seq(Lines)
  BY HeadTailProperties
<1>2. Head(U) \in Seq(Cells) /\ FlattenSeq(Tail(U)) \in Seq(Cells) /\ FlattenSeq(U) \in Seq(Cells)
      /\ U \in Seq(Seq(Cells))
  BY <1>1, LinesOfCells
<1>3. FlattenSeq(U) = Cat(Head(U), FlattenSeq(Tail(U)))
  BY <1>2, FlattenHead
<1>4. Len(Cat(Head(U), FlattenSeq(Tail(U)))) = Len(Head(U)) + Len(FlattenSeq(Tail(U)))
  BY <1>2, CatType
<1>5. Len(FlattenSeq(U)) \in Nat /\ Len(FlattenSeq(Tail(U))) \in Nat
  BY <1>2, LenProperties
<1> QED
  BY <1>1, <1>3, <1>4, <1>5

\* The next line is handled, or none.
HandlesNext == \/ UNCHANGED replies
               \/ handled < Len(sent) /\ Handles(Text(sent[handled + 1]))

\* A line handled is one more, and owes one answer at most.
LEMMA HandlesOwing ==
    ASSUME ReplyTypes, Owing, NEW text \in Seq(Characters), Handles(text),
           Asynchronous(text) => Asked(text) \subseteq Logs
    PROVE  handled' = handled + 1 /\ Owing'
<1>1. /\ handled \in Nat /\ Len(answered) \in Nat /\ answered \in Seq(Entries)
      /\ underway \subseteq Logs /\ "sys_log_0" # "sys_log_1"
      /\ Len(answered) + OwedFor("sys_log_0") + OwedFor("sys_log_1") <= handled
  BY LenProperties DEF ReplyTypes, Owing
<1>2. CASE Answers(text)
  <2>1. answered' = Append(answered, text) /\ handled' = handled + 1
        /\ underway' = underway /\ owed' = owed
    BY <1>2 DEF Answers, reports
  <2>2. Len(answered') = Len(answered) + 1
    BY <1>1, <2>1, EntriesAre, AppendProperties
  <2> QED
    <3>1. OwedFor("sys_log_0")' = OwedFor("sys_log_0") /\ OwedFor("sys_log_1")' = OwedFor("sys_log_1")
      BY <2>1 DEF OwedFor
    <3>2. OwedFor("sys_log_0") \in Nat /\ OwedFor("sys_log_1") \in Nat
      BY DEF OwedFor
    <3> HIDE DEF OwedFor
    <3> QED
      BY <1>1, <2>1, <2>2, <3>1, <3>2 DEF Owing
<1>3. CASE Asynchronous(text) /\ Defers(text)
  <2>1. answered' = answered /\ handled' = handled + 1 /\ underway' \subseteq Logs
        /\ owed' = owed \cup (Asked(text) \ underway)
    BY <1>1, <1>3 DEF Defers
  <2>2. Len(answered') = Len(answered)
    BY <2>1
  <2>3. CASE Asked(text) = {}
    <3>1. owed' = owed
      BY <2>1, <2>3
    <3> QED
      <4>1. OwedFor("sys_log_0")' = OwedFor("sys_log_0")
            /\ OwedFor("sys_log_1")' = OwedFor("sys_log_1")
        BY <3>1 DEF OwedFor
      <4>2. OwedFor("sys_log_0") \in Nat /\ OwedFor("sys_log_1") \in Nat
        BY DEF OwedFor
      <4> QED
        BY <1>1, <2>1, <2>2, <4>1, <4>2 DEF Owing
  <2>4. CASE \E k \in Reports : Asked(text) = {k}
    <3>1. PICK k \in Reports : Asked(text) = {k}
      BY <2>4
    <3>2. "sys_log_0" \in owed' /\ "sys_log_1" \in owed'
          => "sys_log_0" \in owed \/ "sys_log_1" \in owed
      BY <1>1, <2>1, <3>1
    <3>3. OwedFor("sys_log_0") + OwedFor("sys_log_1") + 1
          >= OwedFor("sys_log_0")' + OwedFor("sys_log_1")'
      <4>1. owed \subseteq owed'
        BY <2>1
      <4> QED
        BY <3>2, <4>1 DEF OwedFor
    <3>4. /\ OwedFor("sys_log_0") \in Nat /\ OwedFor("sys_log_1") \in Nat
          /\ OwedFor("sys_log_0")' \in Nat /\ OwedFor("sys_log_1")' \in Nat
      BY DEF OwedFor
    <3> QED
      BY <1>1, <2>1, <2>2, <3>3, <3>4 DEF Owing
  <2> QED
    BY <2>3, <2>4, AskedOnce
<1> QED
  BY <1>2, <1>3 DEF Handles

\* A pass with the ring it finds, after the character it may have put in: v and b
\* are the ring then, K the characters kept that are still on their way.
LEMMA PassInOrder ==
    ASSUME LineInv, \A l \in Lines : Proper(l), sent' = sent, bufferWrite' \in Slots,
           NEW b, IsRing(b), NEW K \in Seq(Cells), LineStep(bufferRead, bufferWrite', b),
           Kept(wire') = K, Cat(Contents(b, bufferRead, bufferWrite'), K) = Pending,
           Fillness(bufferRead, bufferWrite') <= RX - 1
    PROVE  /\ Counted' /\ Room' /\ InOrder' /\ Synchronous' /\ Owing'
           /\ HandlesNext
<1> DEFINE U == Unhandled
           r == bufferRead
           v == bufferWrite'
           m == handled
           n == Len(sent)
           Q == Cat(Contents(buffer', bufferRead', v), K)
<1>1. /\ AssemblyTypes /\ OtherTypes /\ Synchronous /\ Owing /\ Room /\ InOrder
      /\ sent \in Seq(Lines) /\ m \in Nat /\ n \in Nat /\ m <= n
      /\ Len(FlattenSeq(U)) <= RX /\ r \in Slots /\ v \in Slots
      /\ bufferRead' \in Slots
  <2>1. AssemblyTypes /\ OtherTypes /\ Synchronous /\ Owing /\ Room /\ InOrder /\ Counted
    BY DEF LineInv
  <2>2. sent \in Seq(Lines) /\ handled \in Nat /\ r \in Slots
        /\ machine \subseteq Waits /\ locked \in BOOLEAN
    BY <2>1 DEF AssemblyTypes, OtherTypes
  <2>3. m \in Nat /\ n \in Nat
    BY <2>2, LenProperties
  <2>4. bufferRead' \in Slots
    BY <2>1, <2>2, LineStepTypes
  <2> QED
    BY <2>1, <2>2, <2>3, <2>4 DEF Counted, RX
<1>2. /\ U \in Seq(Lines) /\ U = SubSeq(sent, m + 1, n)
      /\ U = << >> <=> m = n
      /\ m # n => Head(U) = sent[m + 1] /\ Tail(U) = SubSeq(sent, m + 2, n)
  BY <1>1, UnhandledLines DEF Unhandled
<1>3. Onward(Q, U)
      /\ IF lineStateMachine = "processing_chars" /\ Fillness(r, v) # 0
         THEN Fillness(bufferRead', v) = Fillness(r, v) - 1
         ELSE Fillness(bufferRead', v) = Fillness(r, v)
  <2>1. At(Cat(Contents(b, r, v), K), U, line, line_flags, command, lineStateMachine)
    BY <1>1 DEF InOrder
  <2> QED
    BY <1>1, <1>2, <2>1, LineStepOnward
<1>4. Pending' = Q
  BY DEF Pending, Unread, Kept, Cat
<1>5. Fillness(r, v) \in 0 .. RX - 1 /\ Fillness(bufferRead', v) \in 0 .. RX - 1 /\ RX \in Nat \ {0, 1}
  BY <1>1, RingPointers, SizeAssumption DEF RX
<1>6. Room'
  <2>1. CASE lineStateMachine = "processing_chars"
    <3>1. Fillness(bufferRead', v) <= RX - 2
      BY <1>3, <1>5, <2>1
    <3> QED
      BY <3>1 DEF Room, RX
  <2>2. CASE lineStateMachine # "processing_chars"
    <3>1. U # << >> /\ Pending = FlattenSeq(Tail(U)) /\ Len(Head(U)) >= 2
      BY <1>1, <2>2 DEF InOrder, At, Held
    <3>2. Head(U) \in Lines /\ Len(FlattenSeq(U)) = Len(Head(U)) + Len(FlattenSeq(Tail(U)))
          /\ Len(FlattenSeq(U)) \in Nat /\ Len(FlattenSeq(Tail(U))) \in Nat
      BY <1>2, <3>1, LinesBehind
    <3>3. Len(Head(U)) \in Nat
      BY <3>2, LinesAreSequences
    <3>4. Len(Pending) <= RX - 2 /\ Len(Pending) \in Nat
      BY <1>1, <1>5, <3>1, <3>2, <3>3
    <3>5. Len(Pending) = Fillness(r, v) + Len(K) /\ Len(K) \in Nat
      <4>1. Contents(b, r, v) \in Seq(Cells) /\ Len(Contents(b, r, v)) = Fillness(r, v)
        BY <1>1, ContentsType
      <4>2. Len(Cat(Contents(b, r, v), K)) = Len(Contents(b, r, v)) + Len(K)
        BY <4>1, CatType
      <4>3. Len(K) \in Nat
        BY LenProperties
      <4> QED
        BY <4>1, <4>2, <4>3
    <3>6. Fillness(r, v) <= RX - 2
      BY <1>5, <3>4, <3>5
    <3>7. Fillness(bufferRead', v) = Fillness(r, v)
      BY <1>3, <2>2
    <3>8. Fillness(bufferRead', v) <= RX - 2
      BY <3>6, <3>7
    <3> QED
      BY <3>8 DEF Room, RX
  <2> QED
    BY <2>1, <2>2
<1>9. Synchronous'
  BY <1>1, StaysSynchronous
<1>7. CASE UNCHANGED replies /\ At(Q, U, line', line_flags', command', lineStateMachine')
  <2>0. handled' = handled /\ Owing'
    BY <1>1, <1>7 DEF replies, reports, Owing, OwedFor
  <2>1. Unhandled' = U
    BY <2>0 DEF Unhandled
  <2>2. InOrder'
    BY <1>4, <1>7, <2>1 DEF InOrder
  <2>3. Counted'
    BY <1>1, <2>0, <2>1 DEF Counted
  <2> QED
    BY <1>6, <1>7, <1>9, <2>0, <2>2, <2>3 DEF HandlesNext
<1>8. CASE /\ U # << >> /\ Handles(Text(Head(U)))
           /\ At(Q, Tail(U), line', line_flags', command', lineStateMachine')
  <2>1. m # n /\ m < n /\ m + 1 <= n
    BY <1>1, <1>2, <1>8
  <2>2. Handles(Text(sent[m + 1]))
    BY <1>2, <1>8, <2>1
  <2>3. handled' = m + 1 /\ Owing'
    <3>1. Head(U) \in Lines
      BY <1>2, <1>8, LinesBehind
    <3>2. Text(Head(U)) \in Seq(Characters)
      BY <3>1, TextGrows
    <3>3. Asynchronous(Text(Head(U))) => Asked(Text(Head(U))) \subseteq Logs
      BY <3>1 DEF Proper
    <3>4. ReplyTypes
      BY <1>1 DEF AssemblyTypes, ReplyTypes
    <3> QED
      BY <1>1, <1>8, <3>2, <3>3, <3>4, HandlesOwing
  <2>4. Unhandled' = Tail(U)
    <3>1. Unhandled' = SubSeq(sent, (m + 1) + 1, n)
      BY <2>3 DEF Unhandled
    <3>2. (m + 1) + 1 = m + 2
      BY <1>1
    <3> QED
      BY <1>2, <2>1, <3>1, <3>2
  <2>5. InOrder'
    BY <1>4, <1>8, <2>4 DEF InOrder
  <2>6. Len(FlattenSeq(Tail(U))) <= RX
    <3>1. /\ Len(FlattenSeq(U)) = Len(Head(U)) + Len(FlattenSeq(Tail(U))) /\ Head(U) \in Lines
          /\ Len(FlattenSeq(U)) \in Nat /\ Len(FlattenSeq(Tail(U))) \in Nat
      BY <1>2, <1>8, LinesBehind
    <3>2. Len(Head(U)) \in Nat
      BY <3>1, LinesAreSequences
    <3> QED
      BY <1>1, <1>5, <3>1, <3>2
  <2>7. Counted'
    BY <2>1, <2>3, <2>4, <2>6 DEF Counted, RX
  <2> QED
    BY <1>6, <1>9, <2>1, <2>2, <2>3, <2>5, <2>7 DEF HandlesNext
<1> QED
  BY <1>3, <1>7, <1>8 DEF Onward

\* Both passes: a character read goes behind those in the ring.
LEMMA PassesInOrder ==
    ASSUME LineInv, \A l \in Lines : Proper(l), PassWithoutCharacter \/ PassWithCharacter
    PROVE  /\ LineInv' /\ sent' = sent
           /\ HandlesNext
<1> DEFINE r == bufferRead
           w == bufferWrite
           c == Contents(buffer, r, w)
<1>1. /\ AssemblyTypes /\ OtherTypes /\ IsRing(buffer) /\ r \in Slots /\ w \in Slots
      /\ wire \in Seq(Characters) /\ ResetLast
  BY DEF LineInv, OtherTypes
<1>2. AssemblyTypes' /\ OtherTypes'
  BY <1>1, PassTypes
<1>3. Pending = Cat(c, Kept(wire)) /\ c \in Seq(Cells) /\ Kept(wire) \in Seq(Cells)
  BY <1>1, ContentsType, KeptType, LinesOfCells DEF Pending, Unread, Kept, Cat
<1>4. Fillness(r, w) <= RX - 2 /\ Fillness(r, w) \in 0 .. RX - 1 /\ RX \in Nat \ {0, 1}
  BY <1>1, RingPointers, SizeAssumption DEF LineInv, Room, RX
<1>5. Fillness(r, w) <= RX - 1 /\ Fillness(r, w) < RX - 1
  BY <1>4
<1>6. CASE PassWithoutCharacter
  <2>1. /\ LineStep(r, w, buffer) /\ wire' = wire /\ bufferWrite' = w /\ sent' = sent
        /\ reset_requested' = reset_requested
    BY <1>6 DEF PassWithoutCharacter
  <2>2. Counted' /\ Room' /\ InOrder' /\ Synchronous' /\ Owing' /\ HandlesNext
    BY <1>1, <1>3, <1>5, <2>1, PassInOrder
  <2>3. ResetLast'
    BY <1>1, <2>1 DEF ResetLast
  <2> QED
    BY <1>2, <2>1, <2>2, <2>3 DEF LineInv
<1>7. CASE PassWithCharacter
  <2> DEFINE x == Head(wire)
             K == Kept(Tail(wire))
  <2>1. /\ wire # << >> /\ wire' = Tail(wire) /\ sent' = sent /\ reset_requested' = (x = Reset)
    BY <1>7 DEF PassWithCharacter
  <2>2. Tail(wire) \in Seq(Characters) /\ x \in Characters /\ Len(Tail(wire)) = Len(wire) - 1
        /\ x = wire[1] /\ \A i \in 1 .. Len(Tail(wire)) : Tail(wire)[i] = wire[i + 1]
    BY <1>1, <2>1, HeadTailProperties
  <2>3. K \in Seq(Cells) /\ Kept(wire') = K
    BY <2>1, <2>2, KeptType, LinesOfCells
  <2>4. Kept(wire) = IF x \in Realtime THEN K ELSE Cat(<< x >>, K)
    BY <1>1, <2>1, KeptHead
  <2>5. Counted' /\ Room' /\ InOrder' /\ Synchronous' /\ Owing' /\ HandlesNext
    <3> HIDE DEF x, K
    <3>1. CASE x \in Realtime
      <4>1. LineStep(r, w, buffer) /\ bufferWrite' = w
        BY <1>7, <3>1 DEF PassWithCharacter, x
      <4>2. Cat(Contents(buffer, r, w), K) = Pending
        BY <1>3, <2>4, <3>1
      <4> QED
        BY <1>1, <1>5, <2>1, <2>3, <4>1, <4>2, PassInOrder
    <3>2. CASE x \notin Realtime
      <4> DEFINE b == AddItem(x)
                 v == Following(w)
                 d == Contents(b, r, v)
      <4>1. LineStep(r, v, b) /\ bufferWrite' = v
        BY <1>7, <3>2 DEF PassWithCharacter, x
      <4>2. x \in Cells
        BY <2>2 DEF Cells, x
      <4>3. v \in Slots /\ IsRing(b) /\ Fillness(r, v) <= RX - 1
        <5>1. IsRing(b)
          BY <1>1, <4>2 DEF IsRing, AddItem
        <5>2. v \in Slots /\ Fillness(r, v) \in 0 .. RX - 1
          BY <1>1, RingPointers
        <5> QED
          BY <1>4, <5>1, <5>2
      <4>4. d = Append(c, x)
        BY <1>1, <1>5, <4>2, ContentsAdd DEF AddItem
      <4> HIDE DEF b, v, d, c
      <4>5. Cat(d, K) = Pending
        <5> DEFINE a == << x >>
        <5>1. a \in Seq(Cells) /\ d = Cat(c, a)
          <6>1. Append(c, x) = c \o << x >>
            BY <1>3, <4>2, AppendIsConcat
          <6> QED
            BY <4>2, <4>4, <6>1 DEF Cat
        <5> HIDE DEF a
        <5>2. Cat(Cat(c, a), K) = Cat(c, Cat(a, K))
          BY <1>3, <2>3, <5>1, CatAssociative
        <5>3. Kept(wire) = Cat(a, K)
          BY <2>4, <3>2 DEF a
        <5> QED
          BY <1>3, <5>1, <5>2, <5>3
      <4> QED
        BY <2>1, <2>3, <4>1, <4>3, <4>5, PassInOrder DEF d
    <3> QED
      BY <3>1, <3>2
  <2>6. ResetLast'
    <3> DEFINE n == Len(Tail(wire))
               y == wire'
    <3>1. n \in Nat /\ Len(wire) = n + 1 /\ DOMAIN wire = 1 .. n + 1 /\ y = Tail(wire)
          /\ DOMAIN y = 1 .. n /\ Len(y) = n
      <4>1. n \in Nat /\ DOMAIN Tail(wire) = 1 .. n /\ Len(wire) \in Nat
            /\ DOMAIN wire = 1 .. Len(wire)
        BY <1>1, <2>2, LenProperties
      <4> QED
        BY <2>1, <2>2, <4>1
    <3>2. \A i \in 1 .. n : y[i] = wire[i + 1]
      BY <2>2, <3>1
    <3> HIDE DEF n, y
    <3>3. \A i \in 1 .. n + 1 : wire[i] = Reset => i = n + 1
      BY <1>1, <3>1 DEF ResetLast
    <3>4. \A i \in 1 .. n : y[i] = Reset => i = n
      BY <3>1, <3>2, <3>3
    <3>5. ASSUME wire[1] = Reset PROVE wire' = << >>
      <4>1. 1 \in 1 .. n + 1
        BY <3>1
      <4>2. n = 0
        BY <3>1, <3>3, <3>5, <4>1
      <4> QED
        BY <2>1, <2>2, <3>1, <4>2, EmptySeq DEF y
    <3>6. reset_requested' => wire' = << >>
      BY <2>1, <2>2, <3>5
    <3> QED
      BY <3>1, <3>4, <3>6 DEF ResetLast, y
  <2> QED
    BY <1>2, <2>1, <2>5, <2>6 DEF LineInv
<1> QED
  BY <1>6, <1>7

\* An empty ring and an empty wire, as after a start or a reset.
Fresh == /\ IsRing(buffer) /\ bufferRead = 0 /\ bufferWrite = 0 /\ wire = << >>
         /\ sent = << >> /\ answered = << >> /\ handled = 0 /\ owed = {} /\ underway = {}
         /\ line = << >> /\ line_flags = {}
         /\ lineStateMachine = "processing_chars" /\ reset_requested \in BOOLEAN

\* Nothing is pending then, and nothing unhandled.
LEMMA NothingPending ==
    Fresh => Synchronous /\ Owing /\ Counted /\ Room /\ InOrder /\ ResetLast
<1> SUFFICES ASSUME Fresh PROVE Synchronous /\ Owing /\ Counted /\ Room /\ InOrder /\ ResetLast
  OBVIOUS
<1> USE DEF Fresh
<1>1. 0 \in Slots /\ Fillness(0, 0) = 0 /\ RX \in Nat \ {0, 1}
  BY RingPointers, SizeAssumption DEF Slots, Fillness, RX
<1>2. Unread = << >>
  <2>1. Unread \in Seq(Cells) /\ Len(Unread) = 0
    BY <1>1, ContentsType DEF Unread
  <2> QED
    BY <2>1, EmptySeq
<1>3. Picked(wire, Lined(wire)) = << >>
  BY PickedEmpty
<1>4. Pending = << >>
  <2>1. << >> \in Seq(Cells)
    BY EmptySeq
  <2>2. Cat(<< >>, << >>) = << >>
    BY <2>1, CatType
  <2> QED
    BY <1>2, <1>3, <2>2 DEF Pending, Cat
<1>5. Unhandled = << >> /\ Len(<< >>) = 0 /\ FlattenSeq(<< >>) = << >>
  <2>1. Len(<< >>) = 0 /\ << >> \in Seq(Seq(Cells))
    BY EmptySeq
  <2>2. SubSeq(<< >>, 0 + 1, 0) = << >>
    BY SubSeqEmpty
  <2>3. FlattenSeq(<< >>) = << >>
    BY <2>1, FlattenType
  <2> QED
    BY <2>1, <2>2, <2>3 DEF Unhandled
<1>6. Counted /\ Owing /\ Synchronous
  BY <1>1, <1>5 DEF Counted, Owing, OwedFor, Synchronous
<1>7. Room
  BY <1>1 DEF Room
<1>8. InOrder
  BY <1>4, <1>5 DEF InOrder, At, Between
<1>9. ResetLast
  BY DEF ResetLast
<1> QED
  BY <1>6, <1>7, <1>8, <1>9

\* The same after a step.
LEMMA NothingPendingThen ==
    Fresh' => Synchronous' /\ Owing' /\ Counted' /\ Room' /\ InOrder' /\ ResetLast'
  BY NothingPending, PTL

\* A line more is sent.
LEMMA SendsInOrder ==
    ASSUME NEW U \in Seq(Lines), NEW l \in Lines, NEW P \in Seq(Cells), NEW t, NEW f, NEW c, NEW s,
           At(P, U, t, f, c, s)
    PROVE  At(Cat(P, l), Append(U, l), t, f, c, s)
<1> DEFINE V == Append(U, l)
           H == Head(U)
           F == FlattenSeq(Tail(U))
           G == FlattenSeq(Tail(V))
<1>1. V \in Seq(Lines) /\ V # << >> /\ l \in Seq(Cells) /\ U \in Seq(Seq(Cells))
  BY AppendProperties, LinesOfCells
<1>2. CASE U = << >>
  <2>1. P = << >> /\ t = << >> /\ f = {} /\ s = "processing_chars"
    BY <1>2 DEF At, Between, Held
  <2>2. FlattenSeq(V) = Cat(FlattenSeq(U), l) /\ FlattenSeq(U) = << >>
    BY <1>1, <1>2, FlattenAppend, FlattenType
  <2>3. Cat(P, l) = FlattenSeq(V)
    BY <2>1, <2>2
  <2>4. Between(Cat(P, l), V, << >>, {})
    BY <1>1, <2>3, AtTheBeginning
  <2> QED
    BY <2>1, <2>4 DEF At
<1>3. CASE U # << >>
  <2>1. Head(V) = H /\ Tail(V) = Append(Tail(U), l) /\ H \in Lines /\ Tail(U) \in Seq(Lines)
    BY <1>3, HeadTailAppend, HeadTailProperties
  <2>2. G = Cat(F, l) /\ F \in Seq(Cells)
    <3>1. Tail(U) \in Seq(Seq(Cells)) /\ F \in Seq(Cells)
      BY <2>1, LinesOfCells
    <3>2. FlattenSeq(Append(Tail(U), l)) = Cat(FlattenSeq(Tail(U)), l)
      BY <1>1, <3>1, FlattenAppend
    <3> QED
      BY <2>1, <3>1, <3>2
  <2> HIDE DEF V, H, F, G
  <2>3. ASSUME s = "processing_chars" PROVE At(Cat(P, l), V, t, f, c, s)
    <3>1. PICK p \in 0 .. Len(H) - 1 :
            P = Cat(Rest(H, p), F) /\ t = Prefix(H, p) /\ f = CommentAt(H, p + 1)
      BY <1>3, <2>3 DEF At, Between, H, F
    <3>2. Rest(H, p) \in Seq(Cells)
      <4>1. CASE p = 0
        BY <2>1, <4>1, RestOfLine, LinesOfCells
      <4>2. CASE p # 0
        <5> DEFINE n == Len(H)
        <5>1. n \in Nat \ {0} /\ p \in 0 .. n - 1
          BY <2>1, LinesAreSequences
        <5> HIDE DEF n
        <5>2. p \in 1 .. n
          BY <4>2, <5>1
        <5> QED
          BY <2>1, <5>2, RestOfLine DEF n
      <4> QED
        BY <4>1, <4>2
    <3>3. Cat(P, l) = Cat(Rest(H, p), G)
      BY <1>1, <2>2, <3>1, <3>2, CatAssociative
    <3> QED
      BY <1>1, <2>1, <2>3, <3>1, <3>3 DEF At, Between, G
  <2>4. ASSUME s # "processing_chars" PROVE At(Cat(P, l), V, t, f, c, s)
    <3>1. P = F /\ Len(H) >= 2 /\ c = Text(H) /\ t = << >> /\ f = {}
      BY <2>4 DEF At, Held, H, F
    <3>2. Cat(P, l) = G
      BY <2>2, <3>1
    <3> QED
      BY <1>1, <2>1, <2>4, <3>1, <3>2 DEF At, Held, G
  <2> QED
    BY <2>3, <2>4 DEF V
<1> QED
  BY <1>2, <1>3

\* The lines behind the first a are at least as long as those behind the first h.
LEMMA LongerSuffix ==
    ASSUME NEW s \in Seq(Lines), NEW a \in Nat, NEW h \in Nat, a <= h, h <= Len(s)
    PROVE  /\ Len(FlattenSeq(SubSeq(s, h + 1, Len(s)))) <= Len(FlattenSeq(SubSeq(s, a + 1, Len(s))))
           /\ Len(FlattenSeq(SubSeq(s, h + 1, Len(s)))) \in Nat
           /\ Len(FlattenSeq(SubSeq(s, a + 1, Len(s)))) \in Nat
<1> DEFINE n == Len(s)
           U(k) == SubSeq(s, k + 1, n)
           F(k) == Len(FlattenSeq(U(k)))
           S == {d \in 0 .. h : F(h) <= F(h - d)}
<1>1. n \in Nat /\ h <= n
  BY LenProperties
<1>2. ASSUME NEW k \in 0 .. h PROVE F(k) \in Nat
  <2>1. k \in Nat /\ k <= n
    BY <1>1
  <2>2. U(k) \in Seq(Lines)
    BY <2>1, UnhandledLines
  <2> HIDE DEF U
  <2>3. FlattenSeq(U(k)) \in Seq(Cells)
    BY <2>2, LinesOfCells
  <2> QED
    BY <2>3, LenProperties
<1>3. ASSUME NEW k \in 0 .. h, k # h PROVE F(k + 1) <= F(k)
  <2>1. k \in Nat /\ k <= n /\ k # n /\ (k + 1) + 1 = k + 2 /\ k + 1 \in 0 .. h
    BY <1>1, <1>3
  <2>2. U(k) \in Seq(Lines) /\ U(k) # << >> /\ Tail(U(k)) = U(k + 1)
    BY <2>1, UnhandledLines
  <2> HIDE DEF U
  <2>3. Head(U(k)) \in Lines /\ Len(FlattenSeq(U(k))) = Len(Head(U(k))) + Len(FlattenSeq(Tail(U(k))))
    BY <2>2, LinesBehind
  <2>4. Len(Head(U(k))) \in Nat
    BY <2>3, LinesAreSequences
  <2>5. F(k) = Len(Head(U(k))) + F(k + 1)
    BY <2>2, <2>3
  <2>6. F(k) \in Nat /\ F(k + 1) \in Nat
    BY <1>2, <2>1
  <2> HIDE DEF F
  <2> QED
    BY <2>4, <2>5, <2>6
<1> HIDE DEF F, U, n
<1>4. 0 \in S
  <2>1. h - 0 = h /\ h \in 0 .. h /\ 0 \in 0 .. h
    OBVIOUS
  <2>2. F(h) \in Nat
    BY <1>2, <2>1
  <2>3. F(h) <= F(h)
    BY <2>2
  <2> QED
    BY <2>1, <2>3
<1>5. ASSUME NEW d \in 1 .. h, d - 1 \in S PROVE d \in S
  <2>1. h - d \in 0 .. h /\ h - d # h /\ (h - d) + 1 = h - (d - 1) /\ d \in 0 .. h
        /\ h \in 0 .. h /\ (h - d) + 1 \in 0 .. h
    OBVIOUS
  <2>2. F((h - d) + 1) <= F(h - d)
    BY <1>3, <2>1
  <2>3. F(h) <= F(h - (d - 1))
    BY <1>5
  <2>4. F(h) \in Nat /\ F(h - d) \in Nat /\ F((h - d) + 1) \in Nat
    BY <1>2, <2>1
  <2>5. F(h) <= F((h - d) + 1)
    BY <2>1, <2>3
  <2>6. F(h) <= F(h - d)
    BY <2>2, <2>4, <2>5
  <2> QED
    BY <2>1, <2>6
<1> HIDE DEF S
<1>6. h - a \in S
  <2>1. h - a \in 0 .. h
    OBVIOUS
  <2>2. \A d \in 0 .. h : d \in S
    BY <1>4, <1>5, UpTo
  <2> QED
    BY <2>1, <2>2
<1>7. h - (h - a) = a /\ a \in 0 .. h /\ h \in 0 .. h
  OBVIOUS
<1>8. F(h) <= F(a)
  BY <1>6, <1>7 DEF S
<1>9. F(h) \in Nat /\ F(a) \in Nat
  BY <1>2, <1>7
<1> QED
  BY <1>8, <1>9 DEF F, U, n

\* The host sends a line: its characters are pending behind the others.
LEMMA HostSendsInOrder ==
    ASSUME LineInv, \A l \in Lines : Proper(l), HostSends
    PROVE  Counted' /\ Room' /\ InOrder' /\ ResetLast'
<1> USE DEF ring, assembly
<1>1. PICK l \in Lines : /\ Outstanding + Len(l) <= RX
                         /\ wire' = wire \o l /\ sent' = Append(sent, l)
  BY DEF HostSends, RX
<1>2. /\ handled' = handled /\ UNCHANGED << buffer, bufferRead, bufferWrite >>
      /\ UNCHANGED << line, line_flags, command, lineStateMachine, reset_requested >>
      /\ ~reset_requested /\ \A i \in DOMAIN wire : wire[i] # Reset
  BY DEF HostSends, AwaitsWelcome, replies
<1> DEFINE U == Unhandled
           m == handled
           n == Len(sent)
<1>3. /\ sent \in Seq(Lines) /\ m \in Nat /\ n \in Nat /\ m <= n /\ wire \in Seq(Characters)
      /\ InOrder /\ Room /\ Len(FlattenSeq(U)) + Len(l) <= RX
      /\ IsRing(buffer) /\ bufferRead \in Slots /\ bufferWrite \in Slots
  <2>1. sent \in Seq(Lines) /\ answered \in Seq(Entries) /\ handled \in Nat
        /\ Len(l) \in Nat /\ Counted /\ Owing
    BY LinesAreSequences DEF LineInv, AssemblyTypes, OtherTypes
  <2>2. m \in Nat /\ n \in Nat /\ m <= n
    BY <2>1, LenProperties DEF Counted
  <2>3. Len(FlattenSeq(U)) <= Outstanding /\ Len(FlattenSeq(U)) \in Nat /\ Outstanding \in Nat
    <3> DEFINE a == Len(answered)
    <3>1. a \in Nat /\ a <= m
      <4>1. OwedFor("sys_log_0") \in Nat /\ OwedFor("sys_log_1") \in Nat /\ a \in Nat
        BY <2>1, LenProperties DEF OwedFor
      <4> QED
        BY <2>1, <2>2, <4>1 DEF Owing
    <3> HIDE DEF a, m, n
    <3>2. /\ Len(FlattenSeq(SubSeq(sent, m + 1, n))) <= Len(FlattenSeq(SubSeq(sent, a + 1, n)))
          /\ Len(FlattenSeq(SubSeq(sent, m + 1, n))) \in Nat
          /\ Len(FlattenSeq(SubSeq(sent, a + 1, n))) \in Nat
      BY <2>1, <2>2, <3>1, LongerSuffix DEF n
    <3> QED
      BY <3>2 DEF a, m, n, Unhandled, Outstanding, Unanswered
  <2>4. Len(FlattenSeq(U)) + Len(l) <= RX
    <3>1. RX \in Nat
      BY SizeAssumption DEF RX
    <3> QED
      BY <1>1, <2>1, <2>3, <3>1
  <2> QED
    BY <2>1, <2>2, <2>4 DEF LineInv, OtherTypes
<1>4. U \in Seq(Lines) /\ Unhandled' = Append(U, l)
  <2>1. U \in Seq(Lines) /\ U = SubSeq(sent, m + 1, n)
    BY <1>3, UnhandledLines DEF Unhandled
  <2>2. SubSeq(Append(sent, l), m + 1, Len(Append(sent, l))) = Append(SubSeq(sent, m + 1, n), l)
    BY <1>3, UnhandledLines
  <2> QED
    BY <1>1, <1>2, <2>1, <2>2 DEF Unhandled
<1>5. l \in Seq(Characters) /\ l \in Seq(Cells) /\ \A i \in DOMAIN l : l[i] \notin Realtime
  BY LinesAreSequences, LinesOfCells DEF Proper
<1>6. Pending \in Seq(Cells) /\ Pending' = Cat(Pending, l)
  <2> DEFINE c == Unread
  <2>1. c \in Seq(Cells) /\ Unread' = c
    BY <1>2, <1>3, ContentsType DEF Unread
  <2>2. Kept(wire') = Cat(Kept(wire), l)
    BY <1>1, <1>3, <1>5, KeptConcat DEF Cat
  <2>3. Kept(wire) \in Seq(Cells)
    BY <1>3, KeptType, LinesOfCells
  <2>4. Pending = Cat(c, Kept(wire)) /\ Pending' = Cat(Unread', Kept(wire'))
    BY DEF Pending, Kept, Cat
  <2> HIDE DEF c
  <2>5. Cat(c, Kept(wire)) \in Seq(Cells)
        /\ Cat(Cat(c, Kept(wire)), l) = Cat(c, Cat(Kept(wire), l))
    BY <1>5, <2>1, <2>3, CatType, CatAssociative
  <2> QED
    BY <2>1, <2>2, <2>4, <2>5
<1>7. InOrder'
  <2>1. At(Cat(Pending, l), Append(U, l), line, line_flags, command, lineStateMachine)
    BY <1>3, <1>4, <1>6, SendsInOrder DEF InOrder
  <2> QED
    BY <1>2, <1>4, <1>6, <2>1 DEF InOrder
<1>8. Counted'
  <2>1. Len(sent') = n + 1
    BY <1>1, <1>3, AppendProperties
  <2>2. Len(FlattenSeq(Append(U, l))) = Len(FlattenSeq(U)) + Len(l)
    <3>1. U \in Seq(Seq(Cells)) /\ FlattenSeq(U) \in Seq(Cells)
      BY <1>4, LinesOfCells
    <3>2. FlattenSeq(Append(U, l)) = Cat(FlattenSeq(U), l)
      BY <1>5, <3>1, FlattenAppend
    <3> QED
      BY <1>5, <3>1, <3>2, CatType
  <2>3. Len(FlattenSeq(Unhandled')) <= RX
    BY <1>3, <1>4, <2>2
  <2>4. m <= n + 1
    BY <1>3
  <2> QED
    BY <1>2, <2>1, <2>3, <2>4 DEF Counted, RX
<1>9. Room'
  BY <1>2, <1>3 DEF Room, RX
<1>10. ResetLast'
  <2> DEFINE k == Len(wire)
             j == Len(l)
             y == wire \o l
  <2>1. k \in Nat /\ j \in Nat /\ DOMAIN wire = 1 .. k /\ DOMAIN l = 1 .. j
    BY <1>3, <1>5, LenProperties
  <2>2. y \in Seq(Characters) /\ Len(y) = k + j
        /\ \A i \in 1 .. k + j : y[i] = IF i <= k THEN wire[i] ELSE l[i - k]
    BY <1>3, <1>5, ConcatProperties
  <2>3. DOMAIN y = 1 .. k + j
    BY <2>2, LenProperties
  <2> HIDE DEF k, j, y
  <2>4. ASSUME NEW i \in 1 .. k + j PROVE y[i] # Reset
    <3>1. CASE i <= k
      BY <1>2, <2>1, <2>2, <3>1
    <3>2. CASE ~(i <= k)
      <4>1. i - k \in 1 .. j
        BY <2>1, <3>2
      <4> QED
        BY <1>5, <2>1, <2>2, <3>2, <4>1 DEF Realtime
    <3> QED
      BY <3>1, <3>2
  <2>5. wire' = y /\ ~reset_requested'
    BY <1>1, <1>2 DEF y
  <2> QED
    BY <2>3, <2>4, <2>5 DEF ResetLast
<1> QED
  BY <1>7, <1>8, <1>9, <1>10

\* A realtime command more is sent.
LEMMA RealtimeSent ==
    ASSUME LineInv, NEW x \in Realtime, wire' = Append(wire, x),
           ~reset_requested, ~reset_requested', \A i \in DOMAIN wire : wire[i] # Reset,
           UNCHANGED << buffer, bufferRead, bufferWrite >>, sent' = sent, handled' = handled,
           UNCHANGED << line, line_flags, command, lineStateMachine >>
    PROVE  Counted' /\ Room' /\ InOrder' /\ ResetLast'
<1>1. wire \in Seq(Characters) /\ x \in Characters /\ Counted /\ Room /\ InOrder
  BY DEF LineInv, OtherTypes, Realtime, Characters
<1>2. Kept(wire') = Kept(wire)
  BY <1>1, KeptAppend
<1>3. Pending' = Pending
  BY <1>2 DEF Pending, Unread, Kept
<1>4. InOrder'
  BY <1>1, <1>3 DEF InOrder, Unhandled
<1>5. Counted' /\ Room'
  BY <1>1 DEF Counted, Room, Unhandled, RX
<1>6. ResetLast'
  <2> DEFINE k == Len(wire)
             y == Append(wire, x)
  <2>1. k \in Nat /\ DOMAIN wire = 1 .. k
    BY <1>1, LenProperties
  <2>2. y \in Seq(Characters) /\ Len(y) = k + 1 /\ \A i \in 1 .. k : y[i] = wire[i]
    BY <1>1, AppendProperties
  <2>3. DOMAIN y = 1 .. k + 1
    BY <2>2, LenProperties
  <2>4. wire' = y
    OBVIOUS
  <2> HIDE DEF k, y
  <2>5. ASSUME NEW i \in 1 .. k + 1, y[i] = Reset PROVE i = k + 1
    BY <2>1, <2>2, <2>5
  <2> QED
    BY <2>2, <2>3, <2>4, <2>5 DEF ResetLast
<1> QED
  BY <1>4, <1>5, <1>6

\* The initial state has the invariant.
LEMMA InitInv == Init => LineInv
<1> SUFFICES ASSUME Init PROVE LineInv
  OBVIOUS
<1>1. AssemblyTypes /\ OtherTypes
  BY InitTypes
<1>2. Synchronous /\ Owing /\ Counted /\ Room /\ InOrder /\ ResetLast
  BY <1>1, NothingPending DEF Init, OtherTypes, Fresh
<1> QED
  BY <1>1, <1>2 DEF LineInv

\* A line handled is one of the stream of commands.
LEMMA HandlesIsHandle ==
    ASSUME HandlesNext, sent' = sent
    PROVE  [Stream!Next]_(Stream!vars)
<1>1. CASE UNCHANGED replies
  BY <1>1 DEF replies, reports, Stream!vars
<1>2. CASE handled < Len(sent) /\ Handles(Text(sent[handled + 1]))
  <2> DEFINE text == Text(sent[handled + 1])
  <2>1. handled' = handled + 1 /\ (Stream!Answer(text) \/ Stream!Defer(text))
    <3> HIDE DEF text
    <3>1. Handles(text)
      BY <1>2 DEF text
    <3> QED
      BY <3>1 DEF Handles, Answers, Defers, reports, Stream!Answer, Stream!Defer
  <2>2. Stream!Handle
    BY <1>2, <2>1 DEF Stream!Handle
  <2> QED
    BY <2>2 DEF Stream!Next
<1> QED
  BY <1>1, <1>2 DEF HandlesNext

\* Every step keeps the invariant, and is one of the stream of commands.
LEMMA StepInv ==
    ASSUME LineInv, \A l \in Lines : Proper(l), [Next]_vars
    PROVE  LineInv' /\ [Stream!Next]_(Stream!vars)
<1> USE DEF vars, ring, assembly, replies, reports
<1>1. AssemblyTypes' /\ OtherTypes'
  BY StepTypes DEF LineInv
<1>2. CASE PassWithoutCharacter \/ PassWithCharacter
  <2>1. LineInv' /\ sent' = sent /\ HandlesNext
    BY <1>2, PassesInOrder
  <2> QED
    BY <2>1, HandlesIsHandle
<1>3. CASE SoftReset
  <2>1. wire = << >> /\ underway \subseteq Logs /\ owed \subseteq Logs
    BY <1>3 DEF SoftReset, LineInv, ResetLast, Owing, AssemblyTypes
  <2>2. wire' = << >> /\ bufferRead' = 0 /\ bufferWrite' = 0 /\ sent' = << >> /\ answered' = << >>
        /\ line' = << >> /\ line_flags' = {} /\ lineStateMachine' = "processing_chars"
        /\ handled' = 0
    BY <1>3, <2>1 DEF SoftReset
  <2>3. underway' = {} /\ owed' = {}
    BY <1>3, <2>1 DEF SoftReset, DropReports, Logs, Crypto
  <2>4. Synchronous' /\ Owing' /\ Counted' /\ Room' /\ InOrder' /\ ResetLast'
    <3>1. IsRing(buffer') /\ reset_requested' \in BOOLEAN
      BY <1>1 DEF OtherTypes
    <3> QED
      BY <2>2, <2>3, <3>1, NothingPendingThen DEF Fresh
  <2>5. Stream!Reset
    BY <2>2, <2>3 DEF Stream!Reset
  <2> QED
    BY <1>1, <2>4, <2>5 DEF LineInv, Stream!Next
<1>4. CASE MachineProceeds \/ LockChanges \/ UNCHANGED vars
  <2>1. UNCHANGED << wire, buffer, bufferRead, bufferWrite, line, command, line_flags >>
        /\ UNCHANGED << lineStateMachine, reset_requested, sent, handled, answered, underway, owed >>
    BY <1>4 DEF MachineProceeds, LockChanges
  <2>2. Counted' /\ Room' /\ InOrder' /\ ResetLast'
    BY <2>1 DEF LineInv, Counted, Unhandled, Room, RX, InOrder, Pending, Unread, ResetLast
  <2>3. Synchronous' /\ Owing'
    BY <2>1 DEF LineInv, Synchronous, Owing, OwedFor
  <2> QED
    BY <1>1, <2>1, <2>2, <2>3 DEF LineInv, Stream!vars
<1>7. ASSUME NEW k \in Reports, ReportProceeds(k) PROVE LineInv' /\ [Stream!Next]_(Stream!vars)
  <2>1. UNCHANGED << wire, buffer, bufferRead, bufferWrite, line, command, line_flags >>
        /\ UNCHANGED << lineStateMachine, reset_requested, sent, handled >>
    BY <1>7 DEF ReportProceeds
  <2>2. Counted' /\ Room' /\ InOrder' /\ ResetLast' /\ Synchronous'
    BY <2>1 DEF LineInv, Counted, Unhandled, Room, RX, InOrder, Pending, Unread, ResetLast,
                Synchronous
  <2>3. /\ underway \subseteq Logs /\ owed \subseteq underway /\ answered \in Seq(Entries)
        /\ Len(answered) \in Nat /\ handled \in Nat /\ "sys_log_0" # "sys_log_1"
        /\ Len(answered) + OwedFor("sys_log_0") + OwedFor("sys_log_1") <= handled
    BY LenProperties DEF LineInv, Owing, AssemblyTypes
  <2>4. k \in Logs /\ k \in underway
    BY <1>7, <2>3 DEF ReportProceeds
  <2>5. CASE k \in owed
    <3>1. answered' = Append(answered, << k >>) /\ owed' = owed \ {k} /\ underway' = underway
      BY <1>7, <2>4, <2>5 DEF ReportProceeds
    <3>2. Len(answered') = Len(answered) + 1
      BY <2>3, <3>1, EntriesAre, AppendProperties
    <3>3. Owing'
      <4>1. \/ OwedFor("sys_log_0")' + 1 = OwedFor("sys_log_0")
               /\ OwedFor("sys_log_1")' = OwedFor("sys_log_1")
            \/ OwedFor("sys_log_1")' + 1 = OwedFor("sys_log_1")
               /\ OwedFor("sys_log_0")' = OwedFor("sys_log_0")
        BY <2>3, <2>4, <2>5, <3>1 DEF OwedFor, Logs
      <4>2. /\ OwedFor("sys_log_0") \in Nat /\ OwedFor("sys_log_1") \in Nat
            /\ OwedFor("sys_log_0")' \in Nat /\ OwedFor("sys_log_1")' \in Nat
        BY DEF OwedFor
      <4>3. handled' = handled /\ underway' \subseteq Logs
        BY <2>1, <2>3, <3>1
      <4> QED
        BY <2>3, <3>2, <4>1, <4>2, <4>3 DEF Owing
    <3>4. Stream!AnswerLate(k)
      BY <2>1, <2>5, <3>1 DEF Stream!AnswerLate
    <3> QED
      BY <1>1, <2>2, <2>4, <3>3, <3>4 DEF LineInv, Stream!Next
  <2>6. CASE k \notin owed
    <3>1. answered' = answered /\ owed' = owed /\ underway' = underway \ {k}
      BY <1>7, <2>6 DEF ReportProceeds
    <3>2. Owing'
      BY <2>1, <2>3, <3>1 DEF Owing, OwedFor
    <3>3. Stream!End(k)
      BY <2>1, <2>4, <2>6, <3>1 DEF Stream!End
    <3> QED
      BY <1>1, <2>2, <2>4, <3>2, <3>3 DEF LineInv, Stream!Next
  <2> QED
    BY <2>5, <2>6
<1>5. CASE HostSends
  <2>1. Counted' /\ Room' /\ InOrder' /\ ResetLast'
    BY <1>5, HostSendsInOrder
  <2>2. UNCHANGED << lineStateMachine, command, handled, answered, underway, owed >>
    BY <1>5 DEF HostSends
  <2>3. Synchronous' /\ Owing'
    BY <2>2 DEF LineInv, Synchronous, Owing, OwedFor
  <2>4. Stream!Send
    BY <1>5, <2>2 DEF HostSends, Stream!Send
  <2> QED
    BY <1>1, <2>1, <2>3, <2>4 DEF LineInv, Stream!Next
<1>6. CASE HostAsks \/ HostResets
  <2>1. PICK x \in Realtime : wire' = Append(wire, x)
    BY <1>6 DEF HostAsks, HostResets, Realtime
  <2>2. ~reset_requested /\ ~reset_requested' /\ \A i \in DOMAIN wire : wire[i] # Reset
    BY <1>6 DEF HostAsks, HostResets, AwaitsWelcome
  <2>3. UNCHANGED << buffer, bufferRead, bufferWrite >> /\ sent' = sent /\ handled' = handled
        /\ UNCHANGED << answered, underway, owed >>
        /\ UNCHANGED << line, line_flags, command, lineStateMachine >>
    BY <1>6 DEF HostAsks, HostResets
  <2>4. Counted' /\ Room' /\ InOrder' /\ ResetLast'
    BY <2>1, <2>2, <2>3, RealtimeSent
  <2>5. Synchronous' /\ Owing'
    BY <2>3 DEF LineInv, Synchronous, Owing, OwedFor
  <2> QED
    BY <1>1, <2>3, <2>4, <2>5 DEF LineInv, Stream!vars
<1> QED
  BY <1>2, <1>3, <1>4, <1>5, <1>6, <1>7 DEF Next

-----------------------------------------------------------------------------
(* What the host relies on.                                                *)

\* The second part of a sequence is a suffix of it.
LEMMA SecondPart ==
    ASSUME NEW C, NEW x \in Seq(C), NEW p \in Seq(C)
    PROVE  IsSuffix(p, Cat(x, p))
<1> DEFINE t == Cat(x, p)
           k == Len(x)
           n == Len(p)
           a == Reverse(p)
           b == Reverse(t)
<1>1. k \in Nat /\ n \in Nat /\ t \in Seq(C) /\ Len(t) = k + n
      /\ \A i \in 1 .. k + n : t[i] = IF i <= k THEN x[i] ELSE p[i - k]
  BY LenProperties, ConcatProperties DEF Cat
<1>2. (\A i \in 1 .. n : p[i] \in C) /\ \A i \in 1 .. k + n : t[i] \in C
  <2>1. \A i \in 1 .. Len(t) : t[i] \in C
    BY <1>1, LenProperties
  <2> HIDE DEF t
  <2> QED
    BY <1>1, <2>1, LenProperties
<1> HIDE DEF t, k
<1>3. a = [i \in 1 .. n |-> p[(n - i) + 1]] /\ b = [i \in 1 .. k + n |-> t[((k + n) - i) + 1]]
  BY <1>1 DEF Reverse
<1> HIDE DEF n, a, b
<1>4. /\ \A i \in 1 .. n : (n - i) + 1 \in 1 .. n
      /\ \A i \in 1 .. k + n : ((k + n) - i) + 1 \in 1 .. k + n
      /\ k + n \in Nat /\ \A i \in 1 .. n : i \in 1 .. k + n
  BY <1>1
<1>5. a \in [1 .. n -> C] /\ b \in [1 .. k + n -> C]
  BY <1>2, <1>3, <1>4
<1>6. a \in Seq(C) /\ b \in Seq(C) /\ Len(a) = n /\ Len(b) = k + n
  BY <1>1, <1>4, <1>5, SeqDef
<1>7. ASSUME NEW i \in 1 .. n PROVE a[i] = b[i] /\ b[i] \in C
  <2>1. a[i] = p[(n - i) + 1] /\ b[i] = t[((k + n) - i) + 1] /\ ((k + n) - i) + 1 \in 1 .. k + n
    BY <1>3, <1>4
  <2>2. ~(((k + n) - i) + 1 <= k) /\ (((k + n) - i) + 1) - k = (n - i) + 1
    BY <1>1
  <2>3. b[i] = p[(n - i) + 1] /\ (n - i) + 1 \in 1 .. n
    BY <1>1, <1>4, <2>1, <2>2
  <2> QED
    BY <1>2, <2>1, <2>3
<1> DEFINE u == SubSeq(a, 1, n)
           v == SubSeq(b, 1, n)
<1>8. u = a
  BY <1>6, SubSeqFull
<1>9. v \in Seq(C) /\ Len(v) = n /\ \A i \in 1 .. n : v[i] = b[i]
  <2>1. \A i \in 1 .. n : b[i] \in C
    BY <1>7
  <2>2. /\ v \in Seq(C) /\ Len(v) = IF 1 <= n THEN n - 1 + 1 ELSE 0
        /\ \A i \in 1 .. n - 1 + 1 : v[i] = b[1 + i - 1]
    BY <1>1, <2>1, SubSeqProperties
  <2> HIDE DEF v
  <2>3. n - 1 + 1 = n /\ \A i \in 1 .. n : 1 + i - 1 = i
    BY <1>1
  <2>4. Len(v) = n
    BY <1>1, <2>2
  <2> QED
    BY <2>2, <2>3, <2>4
<1> HIDE DEF u, v
<1>10. v = a
  BY <1>6, <1>7, <1>9, SeqEqual
<1>11. Len(a) <= Len(b)
  BY <1>1, <1>6
<1>12. IsPrefix(a, b)
  BY <1>6, <1>8, <1>10, <1>11 DEF IsPrefix, u, v
<1> QED
  BY <1>12 DEF IsSuffix, a, b, t

\* The pending characters are a suffix of those of the lines behind.
LEMMA InvKeepsAll ==
    ASSUME LineInv
    PROVE  NothingOverwritten
<1> DEFINE U == Unhandled
           m == handled
           n == Len(sent)
           P == Pending
<1>1. /\ sent \in Seq(Lines) /\ m \in Nat /\ n \in Nat /\ m <= n /\ InOrder
  <2>1. sent \in Seq(Lines) /\ handled \in Nat
    BY DEF LineInv, AssemblyTypes, OtherTypes
  <2> QED
    BY <2>1, LenProperties DEF LineInv, Counted
<1>2. /\ U \in Seq(Lines) /\ U = SubSeq(sent, m + 1, n)
      /\ U = << >> <=> m = n
      /\ m # n => Tail(U) = SubSeq(sent, m + 2, n)
  BY <1>1, UnhandledLines DEF Unhandled
<1> HIDE DEF U, P, m, n
<1>3. CASE lineStateMachine # "processing_chars"
  <2>1. U # << >> /\ P = FlattenSeq(Tail(U))
    BY <1>1, <1>3 DEF InOrder, At, Held, U, P
  <2>2. Behind = Tail(U)
    BY <1>2, <1>3, <2>1 DEF Behind, m, n
  <2>3. P \in Seq(Cells)
    BY <1>2, <2>1, LinesBehind, LinesOfCells
  <2>4. IsSuffix(P, Cat(<< >>, P)) /\ Cat(<< >>, P) = P
    BY <2>3, SecondPart, CatType, EmptySeq
  <2> QED
    BY <2>1, <2>2, <2>4 DEF NothingOverwritten, P
<1>4. CASE lineStateMachine = "processing_chars"
  <2>1. Behind = U
    BY <1>2, <1>4 DEF Behind, m, n
  <2>2. Between(P, U, line, line_flags)
    BY <1>1, <1>4 DEF InOrder, At, U, P
  <2>3. PICK x \in Seq(Cells) : P \in Seq(Cells) /\ FlattenSeq(U) = Cat(x, P)
    <3>1. CASE U = << >>
      <4>1. P = << >> /\ FlattenSeq(U) = << >> /\ << >> \in Seq(Cells)
        BY <2>2, <3>1, EmptySeq, FlattenType DEF Between
      <4>2. Cat(<< >>, << >>) = << >>
        BY <4>1, CatType
      <4> QED
        BY <4>1, <4>2
    <3>2. CASE U # << >>
      <4> DEFINE l == Head(U)
                 F == FlattenSeq(Tail(U))
                 k == Len(l)
      <4>1. l \in Lines /\ F \in Seq(Cells) /\ FlattenSeq(U) = Cat(l, F)
        BY <1>2, <3>2, LinesBehind, LinesOfCells
      <4>2. PICK p \in 0 .. k - 1 : P = Cat(Rest(l, p), F)
        BY <2>2, <3>2 DEF Between
      <4> HIDE DEF l, F
      <4>3. k \in Nat \ {0} /\ l \in Seq(Cells) /\ l \in Seq(Characters)
        BY <4>1, LinesAreSequences, LinesOfCells
      <4> DEFINE y == SubSeq(l, 1, p)
      <4>4. l = Cat(y, Rest(l, p))
        <5> HIDE DEF k
        <5>1. 1 \in 1 .. k + 1 /\ p \in 1 - 1 .. k /\ k \in p .. k
          BY <4>3
        <5>2. SubSeq(l, 1, p) \o SubSeq(l, p + 1, k) = SubSeq(l, 1, k)
          BY <4>3, <5>1, ConcatAdjacentSubSeq DEF k
        <5>3. SubSeq(l, 1, k) = l
          BY <4>3, SubSeqFull DEF k
        <5> QED
          BY <5>2, <5>3 DEF Cat, Rest, k
      <4>5. y \in Seq(Cells) /\ Rest(l, p) \in Seq(Cells)
        <5> HIDE DEF k
        <5>1. \A i \in 1 .. k : l[i] \in Cells
          BY <4>1, LinesAreSequences DEF Cells, k
        <5>2. (\A i \in 1 .. p : l[i] \in Cells) /\ (\A i \in p + 1 .. k : l[i] \in Cells)
              /\ p \in Int /\ p + 1 \in Int /\ k \in Int
          BY <4>3, <5>1
        <5> QED
          BY <5>2, SubSeqProperties DEF Rest, k
      <4> HIDE DEF y, k
      <4>6. Cat(Cat(y, Rest(l, p)), F) = Cat(y, Cat(Rest(l, p), F)) /\ P \in Seq(Cells)
        BY <4>1, <4>2, <4>5, CatAssociative, CatType
      <4>7. FlattenSeq(U) = Cat(y, P)
        BY <4>1, <4>2, <4>4, <4>6
      <4> QED
        BY <4>5, <4>6, <4>7
    <3> QED
      BY <3>1, <3>2
  <2>4. IsSuffix(P, FlattenSeq(U))
    BY <2>3, SecondPart
  <2> QED
    BY <1>4, <2>1, <2>4 DEF NothingOverwritten, P
<1> QED
  BY <1>3, <1>4

\* A host that sends proper lines and counts their characters never loses one.
THEOREM RingKeepsAll ==
    ASSUME \A l \in Lines : Proper(l)
    PROVE  Spec => []NothingOverwritten
<1>1. LineInv /\ [Next]_vars => LineInv'
  BY StepInv
<1>2. LineInv => NothingOverwritten
  BY InvKeepsAll
<1> QED
  BY <1>1, <1>2, InitInv, PTL DEF Spec

\* Every step of the protocol is one of the stream of commands, or none: the lines
\* are handled in the order they were sent, each once, and answered then with their
\* own text, but for the "$D" lines, answered when their report ends, and the "$W"
\* lines, not answered (JogWaitForProcessed, do_grbl_report()).
THEOREM AnswersInOrder ==
    ASSUME \A l \in Lines : Proper(l)
    PROVE  Spec => Stream!Init /\ [][Stream!Next]_(Stream!vars)
<1>1. LineInv /\ [Next]_vars => LineInv' /\ [Stream!Next]_(Stream!vars)
  BY StepInv
<1>2. Init => Stream!Init
  BY DEF Init, Stream!Init
<1> QED
  BY <1>1, <1>2, InitInv, PTL DEF Spec
=============================================================================
