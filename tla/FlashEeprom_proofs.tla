------------------------- MODULE FlashEeprom_proofs -------------------------
(***************************************************************************)
(* Proofs about the flash emulated EEPROM: with any number of addresses,   *)
(* any page size and any number of resets the three pages keep to the few  *)
(* shapes the driver can go on from, as long as nothing fatal happened     *)
(* (a reset in the wrong moment, an overrun), and the driver implements    *)
(* DurableWords.                                                           *)
(*                                                                         *)
(* The invariant has four parts.  TypeInv types the pages and the flash    *)
(* operations to come.  FitInv says that no page gets more elements than   *)
(* it holds.  PageInv lists the shapes: for every stretch of the driver's  *)
(* work which pages are in use, which one is found, how full they are and  *)
(* what is left of the function in progress.  It is the part that makes    *)
(* the properties inductive: a reset leaves the flash as it is, so that    *)
(* every shape must say what init_dee will make of it, and a page cannot   *)
(* be trusted to have room, to be blank or to be the only one found unless *)
(* the shape before it said so.                                            *)
(*                                                                         *)
(* DataInv adds to each shape what its pages say: whose word is being      *)
(* written, how far the copy is, and that a page about to be erased says   *)
(* nothing the copy does not say.  The refinement rests on it.             *)
(***************************************************************************)
EXTENDS FlashEeprom, TLAPS, SequenceTheorems, FiniteSetTheorems, WellFoundedInduction

-----------------------------------------------------------------------------
(* Pages: three, in a ring.                                                *)

\* Page c, the next one q and the previous one b.
Ring(c, q, b) == c \in Pages /\ q = GetNextPage(c) /\ b = GetPreviousPage(c)

\* GetNextPage and GetPreviousPage go around the three pages.
LEMMA PagesAround ==
    ASSUME NEW c \in Pages, NEW q, NEW b, Ring(c, q, b)
    PROVE  /\ q \in Pages /\ b \in Pages /\ q # c /\ b # c /\ q # b
           /\ Pages = {c, q, b}
           /\ GetNextPage(q) = b /\ GetNextPage(b) = c
           /\ GetPreviousPage(q) = c /\ GetPreviousPage(b) = q
           /\ c # NoPage /\ q # NoPage /\ b # NoPage
<1>1. Pages = {0, 1, 2} /\ NoPage = 255 /\ DEE_PAGE_CNT = 3
  BY DEF Pages, DEE_PAGE_CNT, NoPage
<1>2. c \in {0, 1, 2} /\ NoPage \notin Pages
  BY <1>1
<1> QED
  BY <1>1, <1>2 DEF Ring, GetNextPage, GetPreviousPage

\* A set of natural numbers that is not empty has a least element.
LEMMA LeastNatural ==
    ASSUME NEW T, T \subseteq Nat, T # {}
    PROVE  \E m \in T : \A n \in T : m <= n
<1>1. \E x \in T : \A y \in T : <<y, x>> \notin OpToRel(<, Nat)
  BY NatLessThanWellFounded, WFMin
<1>2. PICK x \in T : \A y \in T : <<y, x>> \notin OpToRel(<, Nat)
  BY <1>1
<1>3. \A y \in T : ~ (y < x)
  BY <1>2 DEF OpToRel
<1> QED
  BY <1>3

\* Max of a set of indices is one of them.
LEMMA LargestIndex ==
    ASSUME NEW n \in Nat, NEW S, S \subseteq 1 .. n, S # {}
    PROVE  Max(S) \in S /\ \A i \in S : i <= Max(S)
<1> DEFINE T == {k \in Nat : \E i \in S : k = n - i}
<1>1. T \subseteq Nat
  OBVIOUS
<1>2. \A i \in S : n - i \in T /\ i \in Int
  OBVIOUS
<1>3. T # {}
  BY <1>2
<1>4. PICK m \in T : \A k \in T : m <= k
  BY <1>1, <1>3, LeastNatural
<1>5. PICK x \in S : m = n - x
  BY <1>4
<1>6. \A i \in S : x >= i
  <2> TAKE i \in S
  <2>1. m <= n - i
    BY <1>2, <1>4
  <2> QED
    BY <1>2, <1>5, <2>1
<1>7. Max(S) \in S /\ \A i \in S : Max(S) >= i
  BY <1>6 DEF Max
<1> QED
  BY <1>2, <1>7

-----------------------------------------------------------------------------
(* The invariant.  The first two parts hold always, the third one while    *)
(* the store is intact.                                                    *)

OpType ==
    [op : {"addr"}, page : Pages, value : Addr]
    \cup [op : {"data", "crc"}, page : Pages, value : Val]
    \cup [op : {"activate", "close", "expire", "count", "erase_first", "erase_second"},
          page : Pages, value : {Blank}]

\* What is to come is a flash operation, and a pack under way knows its pages.
TypeInv ==
    /\ TypeOK
    /\ nvm \in Seq(OpType)
    /\ pack.state \notin {"Start", "Stop"} => pack.current \in Pages /\ pack.next \in Pages

Appends(k) == k \in DOMAIN nvm /\ nvm[k].op = "addr"

\* No page gets more elements than it holds: a function appends one at most,
\* and where it does there is room.
FitInv ==
    /\ \A p \in Pages : Len(flash[p].element) <= ELEMENTS
    /\ \A k \in DOMAIN nvm : Appends(k) => Len(flash[nvm[k].page].element) < ELEMENTS
    /\ \A k, l \in DOMAIN nvm : Appends(k) /\ Appends(l) => k = l

\* Page c is the one GetActiveCurrentPage returns.
Found(c) ==
    /\ flash[c].active /\ flash[c].current
    /\ \A p \in Pages : flash[p].active /\ flash[p].current => p <= c

Available(p) == ~flash[p].active /\ flash[p].current
BlankPage(p) == Available(p) /\ flash[p].element = <<>>
AllCounted   == \A p \in Pages : flash[p].counted
ClosedIsFull == \A p \in Pages : flash[p].active /\ ~flash[p].current
                                     => Len(flash[p].element) = ELEMENTS

\* One, two and three pages in use.  The second one is the page before, as
\* Dee_CloseCurrentPage leaves it, or the page after, when a pack is cut short.
One(c) == Found(c) /\ AllCounted /\ BlankPage(GetNextPage(c)) /\ BlankPage(GetPreviousPage(c))

Two(c) ==
    /\ Found(c) /\ AllCounted /\ ClosedIsFull
    /\ \/ flash[GetPreviousPage(c)].active /\ Available(GetNextPage(c))
       \/ flash[GetNextPage(c)].active /\ BlankPage(GetPreviousPage(c))

Three(c) == Found(c) /\ AllCounted /\ ClosedIsFull /\ \A p \in Pages : flash[p].active

\* Elements being appended.
Appending == IF nvm # <<>> /\ Head(nvm).op = "addr" THEN 1 ELSE 0

\* A word being appended to page p, with the flash operations `rest' to follow.
Writing(p, rest) == \E a \in Addr, v \in Val :
    \/ nvm = << Op("addr", p, a), Op("data", p, v), Op("crc", p, v) >> \o rest
    \/ nvm = << Op("data", p, v), Op("crc", p, v) >> \o rest
    \/ nvm = << Op("crc", p, v) >> \o rest

Resting == pack = NoPack /\ ~running

\* The first start.
Fresh ==
    /\ Resting /\ ~triggered
    /\ \A p \in Pages : BlankPage(p)
    /\ \E k \in 1 .. 13 : /\ nvm = SubSeq(FreshPages, k, 13)
                          /\ \A p \in Pages : k > 4 * p + 4 => flash[p].counted

\* One page in use, and the page that is closed.
Filling(c) ==
    /\ Resting /\ ~triggered /\ One(c)
    /\ nvm = <<>> \/ Writing(c, <<>>)
    /\ Len(flash[c].element) + Appending = ELEMENTS => resets > 0

LastWrite(c) ==
    /\ Resting /\ ~triggered /\ One(c)
    /\ Len(flash[c].element) + Appending = ELEMENTS
    /\ \/ Writing(c, Dee_CloseCurrentPage(c, GetNextPage(c)))
       \/ nvm = Dee_CloseCurrentPage(c, GetNextPage(c))

LateClose(c) ==
    /\ Resting /\ ~triggered /\ One(c) /\ resets > 0
    /\ Len(flash[c].element) = ELEMENTS
    /\ \E a \in Addr, v \in Val :
           nvm = Dee_CloseCurrentPage(c, GetNextPage(c)) \o WriteElement(GetNextPage(c), a, v)

Closed(c) ==
    /\ Resting /\ ~triggered /\ AllCounted
    /\ flash[c].active /\ ~flash[c].current /\ Len(flash[c].element) = ELEMENTS
    /\ BlankPage(GetNextPage(c)) /\ BlankPage(GetPreviousPage(c))
    /\ \/ nvm = << Status("activate", GetNextPage(c)) >>
       \/ /\ resets > 0
          /\ \E a \in Addr, v \in Val :
                 nvm = << Status("activate", GetNextPage(c)) >> \o WriteElement(GetNextPage(c), a, v)

\* Two pages in use, and the third one erased at start-up.
Using(c) == Resting /\ Two(c) /\ (nvm = <<>> \/ Writing(c, <<>>))

EraseOps(p) == << Status("erase_first", p), Status("erase_second", p), Status("count", p) >>

\* Page p after the first half of its erasure, or after the second one.
Erased(p, rest) ==
    \/ Available(p) /\ nvm = << Status("erase_second", p), Status("count", p) >> \o rest
    \/ BlankPage(p) /\ nvm = << Status("count", p) >> \o rest

BootErase(c) ==
    /\ Resting /\ Found(c) /\ ClosedIsFull
    /\ flash[GetPreviousPage(c)].active
    /\ \A p \in Pages \ {GetNextPage(c)} : flash[p].counted
    /\ LET q == GetNextPage(c)
       IN  \/ flash[q].active /\ flash[q].counted /\ nvm = EraseOps(q)
           \/ Erased(q, <<>>)

\* The pack.
Packing(c) == running /\ triggered /\ pack.current = c /\ pack.next = GetNextPage(c)

Copying(c) ==
    /\ Packing(c) /\ Two(c)
    /\ \/ pack.state \in {"ForCycle", "FinalCheck"} /\ nvm = <<>>
       \/ pack.state = "ForCycle" /\ Writing(GetNextPage(c), <<>>)

Activating(c) ==
    /\ Packing(c) /\ Two(c)
    /\ LET q == GetNextPage(c)
       IN  \/ /\ pack.state = "Erase_1a" /\ nvm = << Status("activate", q) >>
              /\ Len(flash[q].element) # ELEMENTS
           \/ /\ pack.state = "Erase_2a" /\ nvm = << Status("close", q) >>
              /\ Len(flash[q].element) = ELEMENTS

\* The copy is in use: as the current page, or closed if it is full.
Copied(q) ==
    /\ flash[q].active /\ flash[q].counted
    /\ \/ pack.state \in {"Erase_1a", "Erase_1b"} /\ flash[q].current
          /\ Len(flash[q].element) # ELEMENTS
       \/ pack.state \in {"Erase_2a", "Erase_2b"} /\ ~flash[q].current

BothInUse(c) ==
    /\ Packing(c) /\ AllCounted /\ ClosedIsFull
    /\ flash[c].active /\ flash[c].current /\ Copied(GetNextPage(c))
    /\ \/ flash[GetPreviousPage(c)].active
          /\ (flash[GetPreviousPage(c)].current => GetPreviousPage(c) < c)
       \/ BlankPage(GetPreviousPage(c)) /\ (flash[GetNextPage(c)].current => GetNextPage(c) < c)
    /\ \/ pack.state \in {"Erase_1a", "Erase_2a"} /\ nvm = <<>>
       \/ pack.state \in {"Erase_1b", "Erase_2b"}
          /\ nvm = EraseOps(c)

PreviousInUse(c) ==
    /\ Packing(c) /\ pack.state \in {"Erase_1b", "Erase_2b"} /\ ClosedIsFull
    /\ Copied(GetNextPage(c)) /\ flash[GetPreviousPage(c)].counted
    /\ flash[GetPreviousPage(c)].active \/ BlankPage(GetPreviousPage(c))
    /\ \/ Erased(c, <<>>)
       \/ BlankPage(c) /\ nvm = <<>> /\ flash[c].counted

\* What follows the second erasure.
Reopening(c) ==
    IF flash[GetNextPage(c)].current THEN <<>> ELSE << Status("activate", GetPreviousPage(c)) >>

CopyInUse(c) ==
    /\ Packing(c) /\ pack.state = "After_Erase" /\ ClosedIsFull
    /\ flash[GetNextPage(c)].active /\ flash[GetNextPage(c)].counted
    /\ flash[GetNextPage(c)].current => Len(flash[GetNextPage(c)].element) # ELEMENTS
    /\ BlankPage(c) /\ flash[c].counted
    /\ LET b == GetPreviousPage(c)
       IN  \/ /\ flash[b].counted /\ (flash[b].active \/ BlankPage(b))
              /\ nvm = EraseOps(b) \o Reopening(c)
           \/ Erased(b, Reopening(c))
           \/ BlankPage(b) /\ flash[b].counted /\ nvm = Reopening(c) /\ nvm # <<>>

Packed(c) ==
    /\ Packing(c) /\ pack.state \in {"After_Erase", "Stop"} /\ nvm = <<>>
    /\ flash[c].element = <<>> /\ flash[GetPreviousPage(c)].element = <<>>
    /\ \/ One(GetNextPage(c)) /\ Len(flash[GetNextPage(c)].element) # ELEMENTS
       \/ Two(GetPreviousPage(c))

Shape(c) ==
    \/ Filling(c) \/ LastWrite(c) \/ LateClose(c) \/ Closed(c) \/ Using(c) \/ BootErase(c)
    \/ Copying(c) \/ Activating(c) \/ BothInUse(c) \/ PreviousInUse(c) \/ CopyInUse(c)
    \/ Packed(c)

PageInv == Fresh \/ \E c \in Pages : Shape(c)

IInv == TypeInv /\ FitInv /\ (~wounded => PageInv)

-----------------------------------------------------------------------------
(* The steps, apart from what they do to the buffer.                       *)

\* A byte written, at once or out of the buffer, makes a word.
StoresWord(a, v) == Idle /\ ~running /\ WriteWord(a, v)

\* A byte put into the buffer changes nothing else.
BufferOnly == UNCHANGED << flash, nvm, ram, pending, wounded, resets >>

-----------------------------------------------------------------------------
(* What the functions read.                                                *)

\* The page GetActiveCurrentPage finds is the highest one active and current.
LEMMA FoundIsCurrent ==
    ASSUME NEW c \in Pages, Found(c)
    PROVE  GetActiveCurrentPage = c
<1> DEFINE found == {p \in ActivePages : flash[p].current}
<1>1. c \in found /\ \A p \in found : c >= p
  BY DEF Found, ActivePages, Pages, DEE_PAGE_CNT
<1>2. found \subseteq Nat
  BY DEF ActivePages, Pages, DEE_PAGE_CNT
<1>3. Max(found) = c
  BY <1>1, <1>2 DEF Max
<1> QED
  BY <1>1, <1>3 DEF GetActiveCurrentPage

\* Without an active page marked as current no page is found.
LEMMA NothingFound ==
    ASSUME \A p \in Pages : ~(flash[p].active /\ flash[p].current)
    PROVE  GetActiveCurrentPage = NoPage
  BY DEF GetActiveCurrentPage, ActivePages

\* GetActiveCurrentPage returns a page that is found, or none.
LEMMA CurrentIsFound ==
    \/ GetActiveCurrentPage = NoPage
    \/ GetActiveCurrentPage \in Pages /\ Found(GetActiveCurrentPage)
<1>1. CASE \E c \in Pages : Found(c)
  BY <1>1, FoundIsCurrent
<1>2. CASE \A c \in Pages : ~Found(c)
  <2>1. Pages = {0, 1, 2}
    BY DEF Pages, DEE_PAGE_CNT
  <2>2. ~(flash[2].active /\ flash[2].current)
    BY <1>2, <2>1 DEF Found
  <2>3. ~(flash[1].active /\ flash[1].current)
    BY <1>2, <2>1, <2>2 DEF Found
  <2>4. ~(flash[0].active /\ flash[0].current)
    BY <1>2, <2>1, <2>2, <2>3 DEF Found
  <2> QED
    BY <2>1, <2>2, <2>3, <2>4, NothingFound
<1> QED
  BY <1>1, <1>2

\* The number of active pages, page by page.
ActiveIs(p) == IF flash[p].active THEN 1 ELSE 0

PairAndTripleOf(x, y, z) ==
    Cardinality({x}) = 1 /\ Cardinality({x, y}) = 2 /\ Cardinality({x, y, z}) = 3

\* Sizes of sets of one, two and three different pages.
LEMMA PairAndTriple == \A x, y, z : x # y /\ x # z /\ y # z => PairAndTripleOf(x, y, z)
<1> SUFFICES ASSUME NEW x, NEW y, NEW z, x # y /\ x # z /\ y # z
             PROVE  Cardinality({x}) = 1 /\ Cardinality({x, y}) = 2 /\ Cardinality({x, y, z}) = 3
  BY DEF PairAndTripleOf
<1>1. IsFiniteSet({x}) /\ Cardinality({x}) = 1
  BY FS_Singleton
<1>2. /\ IsFiniteSet({x} \cup {y})
      /\ Cardinality({x} \cup {y}) = IF y \in {x} THEN Cardinality({x}) ELSE Cardinality({x}) + 1
  BY <1>1, FS_AddElement
<1>3. {x} \cup {y} = {x, y} /\ {x, y} \cup {z} = {x, y, z}
  OBVIOUS
<1>4. Cardinality({x, y} \cup {z}) = IF z \in {x, y} THEN Cardinality({x, y}) ELSE Cardinality({x, y}) + 1
  BY <1>2, <1>3, FS_AddElement
<1> QED
  BY <1>1, <1>2, <1>3, <1>4

\* GetActiveCurrentPageCount, page by page.
LEMMA PageCount ==
    ASSUME NEW c \in Pages, NEW q, NEW b, Ring(c, q, b)
    PROVE  GetActiveCurrentPageCount = ActiveIs(c) + ActiveIs(q) + ActiveIs(b)
<1>1. Pages = {c, q, b} /\ c # q /\ c # b /\ q # b
  BY PagesAround
<1>2. Cardinality({}) = 0
  BY FS_EmptySet
<1>3. PairAndTripleOf(c, q, b) /\ PairAndTripleOf(q, b, c) /\ PairAndTripleOf(b, c, q)
  BY <1>1, PairAndTriple
<1>4. /\ Cardinality({c}) = 1 /\ Cardinality({q}) = 1 /\ Cardinality({b}) = 1
      /\ Cardinality({c, q}) = 2 /\ Cardinality({q, b}) = 2 /\ Cardinality({b, c}) = 2
      /\ Cardinality({c, q, b}) = 3
  BY <1>3 DEF PairAndTripleOf
<1>5. ActivePages = {p \in {c, q, b} : flash[p].active}
  BY <1>1 DEF ActivePages
<1>6. \/ ActivePages = {} /\ ~flash[c].active /\ ~flash[q].active /\ ~flash[b].active
      \/ ActivePages = {c} /\ flash[c].active /\ ~flash[q].active /\ ~flash[b].active
      \/ ActivePages = {q} /\ ~flash[c].active /\ flash[q].active /\ ~flash[b].active
      \/ ActivePages = {b} /\ ~flash[c].active /\ ~flash[q].active /\ flash[b].active
      \/ ActivePages = {c, q} /\ flash[c].active /\ flash[q].active /\ ~flash[b].active
      \/ ActivePages = {q, b} /\ ~flash[c].active /\ flash[q].active /\ flash[b].active
      \/ ActivePages = {b, c} /\ flash[c].active /\ ~flash[q].active /\ flash[b].active
      \/ ActivePages = {c, q, b} /\ flash[c].active /\ flash[q].active /\ flash[b].active
  BY <1>5, Zenon
<1> QED
  BY <1>2, <1>4, <1>6 DEF GetActiveCurrentPageCount, ActiveIs

\* DataEERead returns a value, or nothing; the latter when no page is found.
LEMMA NewestType ==
    ASSUME TypeOK, NEW p \in Pages, NEW a
    PROVE  Newest(p, a) \in Val \cup {Blank}
<1>1. flash[p].element \in Seq(Element)
  BY DEF TypeOK, Page
<1> DEFINE n == Len(flash[p].element)
<1>2. n \in Nat /\ DOMAIN flash[p].element = 1 .. n
  BY <1>1
<1>3. Good(p, a) \subseteq 1 .. n
  BY <1>2 DEF Good, Hits
<1>4. CASE Good(p, a) # {}
  <2>1. Max(Good(p, a)) \in 1 .. n
    BY <1>2, <1>3, <1>4, LargestIndex
  <2>2. flash[p].element[Max(Good(p, a))] \in Element
    BY <1>1, <2>1
  <2> QED
    BY <1>4, <2>2 DEF Newest, Element
<1> QED
  BY <1>4 DEF Newest

\* What a read makes of the page it starts from.
LEMMA ReadFromIs == \A cur, n, a :
    ReadFrom(cur, n, a) = IF cur = NoPage THEN Blank
                          ELSE IF Newest(cur, a) # Blank THEN Newest(cur, a)
                          ELSE IF n > 1 THEN Newest(GetPreviousPage(cur), a) ELSE Blank
<1> TAKE cur, n, a
<1> DEFINE R(p) == CASE p = NoPage -> Blank
                     [] p # NoPage /\ Newest(p, a) # Blank -> Newest(p, a)
                     [] OTHER -> IF n > 1 THEN Newest(GetPreviousPage(p), a) ELSE Blank
<1>1. R(cur) = IF cur = NoPage THEN Blank
               ELSE IF Newest(cur, a) # Blank THEN Newest(cur, a)
               ELSE IF n > 1 THEN Newest(GetPreviousPage(cur), a) ELSE Blank
  OBVIOUS
<1>2. ReadFrom(cur, n, a) = CHOOSE w \in {R(p) : p \in {cur}} : TRUE
  BY DEF ReadFrom
<1> HIDE DEF R
<1>3. {R(p) : p \in {cur}} = {R(cur)}
  OBVIOUS
<1>4. (CHOOSE w \in {R(cur)} : TRUE) = R(cur)
  OBVIOUS
<1> QED
  BY <1>1, <1>2, <1>3, <1>4

\* A read yields a value or nothing, and nothing if no page is found.
LEMMA ReadType ==
    ASSUME TypeOK, NEW a
    PROVE  /\ DataEERead(a) \in Val \cup {Blank}
           /\ GetActiveCurrentPage = NoPage => DataEERead(a) = Blank
<1> DEFINE c == GetActiveCurrentPage
<1>1. CASE c = NoPage
  BY <1>1, ReadFromIs DEF DataEERead
<1>2. CASE c \in Pages
  <2>1. c # NoPage /\ GetPreviousPage(c) \in Pages
    BY <1>2, PagesAround DEF Ring
  <2>2. Newest(c, a) \in Val \cup {Blank} /\ Newest(GetPreviousPage(c), a) \in Val \cup {Blank}
    BY <1>2, <2>1, NewestType
  <2> QED
    BY <2>1, <2>2, ReadFromIs DEF DataEERead
<1> QED
  BY <1>1, <1>2, CurrentIsFound

-----------------------------------------------------------------------------
(* What a flash operation does to its page.                                *)

\* The first half of an erasure clears the status words and keeps the number of
\* elements.
LEMMA FirstHalfType ==
    ASSUME NEW page \in Page
    PROVE  LET new == FirstHalfErased(page)
           IN  /\ new \in Page /\ ~new.active /\ new.current /\ ~new.counted
               /\ Len(new.element) = Len(page.element)
               /\ page.element = <<>> => new.element = <<>>
<1>1. page.element \in Seq(Element) /\ Len(page.element) \in Nat
      /\ DOMAIN page.element = 1 .. Len(page.element)
  BY DEF Page
<1> DEFINE e(i) == [addr |-> page.element[i].addr, data |-> Blank,
                    crc |-> IF 2 * i <= ELEMENTS THEN Blank ELSE page.element[i].crc]
           s == [i \in DOMAIN page.element |-> e(i)]
<1>2. s = [i \in 1 .. Len(page.element) |-> e(i)]
  BY <1>1
<1>3. \A i \in 1 .. Len(page.element) : e(i) \in Element
  <2> TAKE i \in 1 .. Len(page.element)
  <2>1. page.element[i] \in Element
    BY <1>1
  <2> QED
    BY <2>1 DEF Element
<1> HIDE DEF e
<1>4. s \in Seq(Element) /\ Len(s) = Len(page.element)
  BY <1>1, <1>2, <1>3, IsASeq
<1>5. FirstHalfErased(page) = [active |-> FALSE, current |-> TRUE, expired |-> FALSE,
                               counted |-> FALSE, element |-> s]
  BY DEF FirstHalfErased, e
<1>6. page.element = <<>> => s = <<>>
  BY <1>1, <1>4, EmptySeq
<1> HIDE DEF s
<1> QED
  BY <1>4, <1>5, <1>6 DEF Page

\* New elements in place of those of the page, and the rest as it was.
LEMMA ElementsType ==
    ASSUME NEW page \in Page, NEW s \in Seq(Element)
    PROVE  LET new == [page EXCEPT !.element = s]
           IN  /\ new \in Page /\ new.element = s
               /\ new.active = page.active /\ new.current = page.current
               /\ new.counted = page.counted /\ new.expired = page.expired
  BY DEF Page

\* An element that is there gets another data or CRC word.
WithData(s, n, v) == [s EXCEPT ![n].data = v]
WithCrc(s, n, v)  == [s EXCEPT ![n].crc = v]

\* Programming a data or CRC word leaves a sequence of elements of the same length.
LEMMA WordType ==
    ASSUME NEW s \in Seq(Element), NEW n \in Nat, NEW v \in Val \cup {Blank}
    PROVE  /\ WithData(s, n, v) \in Seq(Element) /\ Len(WithData(s, n, v)) = Len(s)
           /\ WithCrc(s, n, v) \in Seq(Element)  /\ Len(WithCrc(s, n, v)) = Len(s)
<1>1. Len(s) \in Nat /\ \A i \in 1 .. Len(s) : s[i] \in Element
  OBVIOUS
<1>2. \A e \in Element : [e EXCEPT !.data = v] \in Element /\ [e EXCEPT !.crc = v] \in Element
  BY DEF Element
<1>3. CASE n \in 1 .. Len(s)
  <2>1. [s[n] EXCEPT !.data = v] \in Element /\ [s[n] EXCEPT !.crc = v] \in Element
    BY <1>1, <1>2, <1>3
  <2>2. /\ [s EXCEPT ![n] = [s[n] EXCEPT !.data = v]] \in Seq(Element)
        /\ [s EXCEPT ![n] = [s[n] EXCEPT !.crc = v]] \in Seq(Element)
        /\ Len([s EXCEPT ![n] = [s[n] EXCEPT !.data = v]]) = Len(s)
        /\ Len([s EXCEPT ![n] = [s[n] EXCEPT !.crc = v]]) = Len(s)
    BY <1>3, <2>1, ExceptSeq
  <2> QED
    BY <2>2 DEF WithData, WithCrc
<1>4. CASE n \notin 1 .. Len(s)
  <2>1. [s EXCEPT ![n].data = v] = s /\ [s EXCEPT ![n].crc = v] = s
    BY <1>1, <1>4
  <2> QED
    BY <2>1 DEF WithData, WithCrc
<1> QED
  BY <1>3, <1>4

\* The words of an element leave the status of the page alone; the address word
\* adds the element.
LEMMA WriteType ==
    ASSUME NEW page \in Page, NEW o \in OpType, o.op \in {"addr", "data", "crc"}
    PROVE  LET new == Done(page, o)
           IN  /\ new \in Page
               /\ new.active = page.active /\ new.current = page.current
               /\ new.counted = page.counted
               /\ Len(new.element) = Len(page.element) + (IF o.op = "addr" THEN 1 ELSE 0)
<1> DEFINE n == Len(page.element)
<1>1. page.element \in Seq(Element) /\ n \in Nat
  BY DEF Page
<1>2. CASE o.op = "addr"
  <2> DEFINE x == [addr |-> o.value, data |-> Blank, crc |-> Blank]
             s == Append(page.element, x)
  <2>1. x \in Element
    BY <1>2 DEF Element, OpType
  <2>2. s \in Seq(Element) /\ Len(s) = n + 1
    BY <1>1, <2>1, AppendProperties
  <2>3. Done(page, o) = [page EXCEPT !.element = s]
    BY <1>2 DEF Done
  <2> HIDE DEF s
  <2> QED
    BY <1>2, <2>2, <2>3, ElementsType
<1>3. CASE o.op = "data"
  <2> DEFINE s == WithData(page.element, n, o.value)
  <2>1. o.value \in Val \cup {Blank}
    BY <1>3 DEF OpType
  <2>2. s \in Seq(Element) /\ Len(s) = n
    BY <1>1, <2>1, WordType
  <2>3. Done(page, o) = [page EXCEPT !.element = s]
    BY <1>3 DEF Done, WithData
  <2> HIDE DEF s
  <2> QED
    BY <1>1, <1>3, <2>2, <2>3, ElementsType
<1>4. CASE o.op = "crc"
  <2> DEFINE s == WithCrc(page.element, n, o.value)
  <2>1. o.value \in Val \cup {Blank}
    BY <1>4 DEF OpType
  <2>2. s \in Seq(Element) /\ Len(s) = n
    BY <1>1, <2>1, WordType
  <2>3. Done(page, o) = [page EXCEPT !.element = s]
    BY <1>4 DEF Done, WithCrc
  <2> HIDE DEF s
  <2> QED
    BY <1>1, <1>4, <2>2, <2>3, ElementsType
<1> QED
  BY <1>2, <1>3, <1>4

\* The status operations, field by field.
LEMMA StatusType ==
    ASSUME NEW page \in Page, NEW o
    PROVE  LET new == Done(page, o)
           IN  /\ o.op = "activate" => /\ new \in Page /\ new.active /\ new.current = page.current
                                       /\ new.counted = page.counted /\ new.element = page.element
               /\ o.op = "close"    => /\ new \in Page /\ new.active /\ ~new.current
                                       /\ new.counted = page.counted /\ new.element = page.element
               /\ o.op = "expire"   => new \in Page /\ new.element = page.element
               /\ o.op = "count"    => /\ new \in Page /\ new.active = page.active /\ new.counted
                                       /\ new.current = page.current /\ new.element = page.element
<1>1. CASE o.op = "activate"
  <2>1. Done(page, o) = [page EXCEPT !.active = TRUE]
    BY <1>1 DEF Done
  <2>2. /\ Done(page, o) \in Page /\ Done(page, o).active /\ Done(page, o).current = page.current
        /\ Done(page, o).counted = page.counted /\ Done(page, o).element = page.element
    BY <2>1 DEF Page
  <2> QED
    BY <1>1, <2>2
<1>2. CASE o.op = "close"
  <2>1. Done(page, o) = [page EXCEPT !.active = TRUE, !.current = FALSE]
    BY <1>2 DEF Done
  <2>2. /\ Done(page, o) \in Page /\ Done(page, o).active /\ ~Done(page, o).current
        /\ Done(page, o).counted = page.counted /\ Done(page, o).element = page.element
    BY <2>1 DEF Page
  <2> QED
    BY <1>2, <2>2
<1>3. CASE o.op = "expire"
  <2>1. Done(page, o) = [page EXCEPT !.expired = TRUE]
    BY <1>3 DEF Done
  <2>2. Done(page, o) \in Page /\ Done(page, o).element = page.element
    BY <2>1 DEF Page
  <2> QED
    BY <1>3, <2>2
<1>4. CASE o.op = "count"
  <2>1. Done(page, o) = [page EXCEPT !.counted = TRUE]
    BY <1>4 DEF Done
  <2>2. /\ Done(page, o) \in Page /\ Done(page, o).active = page.active /\ Done(page, o).counted
        /\ Done(page, o).current = page.current /\ Done(page, o).element = page.element
    BY <2>1 DEF Page
  <2> QED
    BY <1>4, <2>2
<1> QED
  BY <1>1, <1>2, <1>3, <1>4

\* The two halves of an erasure.
LEMMA EraseType ==
    ASSUME NEW page \in Page, NEW o
    PROVE  LET new == Done(page, o)
           IN  /\ o.op = "erase_first"  => /\ new \in Page /\ ~new.active /\ new.current /\ ~new.counted
                                           /\ Len(new.element) = Len(page.element)
                                           /\ page.element = <<>> => new.element = <<>>
               /\ o.op = "erase_second" => /\ new \in Page /\ new.active = page.active
                                           /\ new.current = page.current /\ new.counted = page.counted
                                           /\ new.element = <<>>
<1>1. CASE o.op = "erase_first"
  <2>1. Done(page, o) = FirstHalfErased(page)
    BY <1>1 DEF Done
  <2> QED
    BY <1>1, <2>1, FirstHalfType
<1>2. CASE o.op = "erase_second"
  <2>1. Done(page, o) = [page EXCEPT !.element = <<>>]
    BY <1>2 DEF Done
  <2> DEFINE s == <<>>
  <2>2. s \in Seq(Element) /\ Done(page, o) = [page EXCEPT !.element = s]
    BY <2>1
  <2> HIDE DEF s
  <2>3. LET new == Done(page, o)
        IN  /\ new \in Page /\ new.element = s
            /\ new.active = page.active /\ new.current = page.current /\ new.counted = page.counted
    BY <2>2, ElementsType
  <2> QED
    BY <1>2, <2>3 DEF s
<1> QED
  BY <1>1, <1>2

\* Any flash operation leaves a page, longer by at most the element whose address
\* it programs.
LEMMA DoneType ==
    ASSUME NEW page \in Page, NEW o \in OpType
    PROVE  /\ Done(page, o) \in Page
           /\ Len(Done(page, o).element) <= Len(page.element) + (IF o.op = "addr" THEN 1 ELSE 0)
<1>1. page.element \in Seq(Element) /\ Len(page.element) \in Nat
  BY DEF Page
<1>2. CASE o.op \in {"addr", "data", "crc"}
  <2>1. /\ Done(page, o) \in Page
        /\ Len(Done(page, o).element) = Len(page.element) + (IF o.op = "addr" THEN 1 ELSE 0)
    BY <1>2, WriteType
  <2> QED
    BY <1>1, <2>1
<1>3. CASE o.op \in {"activate", "close", "expire", "count"}
  <2>1. Done(page, o) \in Page /\ Done(page, o).element = page.element /\ o.op # "addr"
    BY <1>3, StatusType
  <2> QED
    BY <1>1, <2>1
<1>4. CASE o.op \in {"erase_first", "erase_second"}
  <2>1. /\ Done(page, o) \in Page /\ o.op # "addr"
        /\ Len(Done(page, o).element) = Len(page.element) \/ Done(page, o).element = <<>>
    BY <1>4, EraseType
  <2>2. Len(<<>>) = 0
    OBVIOUS
  <2> QED
    BY <1>1, <2>1, <2>2
<1>5. o.op \in {"addr", "data", "crc", "activate", "close", "expire", "count",
                "erase_first", "erase_second"}
  BY DEF OpType
<1> QED
  BY <1>2, <1>3, <1>4, <1>5

-----------------------------------------------------------------------------
(* What the functions put into nvm.                                        *)

StatusOps == {"activate", "close", "expire", "count", "erase_first", "erase_second"}

\* What the functions put into nvm are flash operations.
LEMMA OpsTyped ==
    ASSUME NEW p \in Pages, NEW q \in Pages
    PROVE  /\ \A op \in StatusOps : Status(op, p) \in OpType
           /\ \A a \in Addr, v \in Val : WriteElement(p, a, v) \in Seq(OpType)
           /\ Dee_CloseCurrentPage(p, q) \in Seq(OpType)
           /\ ErasePage(p) \in Seq(OpType)
           /\ FreshPage(p) \in Seq(OpType)
           /\ << Status("activate", p) >> \in Seq(OpType) /\ << Status("close", p) >> \in Seq(OpType)
           /\ <<>> \in Seq(OpType)
<1>1. \A r \in Pages, op \in StatusOps : Status(op, r) \in OpType
  BY DEF OpType, Status, Op, StatusOps
<1>2. \A a \in Addr, v \in Val : WriteElement(p, a, v) \in Seq(OpType)
  BY DEF OpType, WriteElement, Op
<1>3. /\ Status("activate", p) \in OpType /\ Status("close", p) \in OpType
      /\ Status("activate", q) \in OpType /\ Status("count", p) \in OpType
      /\ Status("expire", p) \in OpType
      /\ Status("erase_first", p) \in OpType /\ Status("erase_second", p) \in OpType
  BY DEF OpType, Status, Op
<1>4. Dee_CloseCurrentPage(p, q) \in Seq(OpType)
  BY <1>3 DEF Dee_CloseCurrentPage
<1>5. ErasePage(p) \in Seq(OpType) /\ FreshPage(p) \in Seq(OpType)
  BY <1>3 DEF ErasePage, FreshPage
<1>6. << Status("activate", p) >> \in Seq(OpType) /\ << Status("close", p) >> \in Seq(OpType)
  BY <1>3
<1> QED
  BY <1>1, <1>2, <1>4, <1>5, <1>6

\* The operations of init_dee on a new controller: four for every page.
LEMMA FreshPagesAre ==
    /\ FreshPages \in Seq(OpType) /\ Len(FreshPages) = 13
    /\ \A p \in Pages, j \in 1 .. 4 : FreshPages[4 * p + j] = FreshPage(p)[j]
    /\ FreshPages[13] = Status("activate", 0)
<1>1. 0 \in Pages /\ 1 \in Pages /\ 2 \in Pages /\ Pages = {0, 1, 2}
  BY DEF Pages, DEE_PAGE_CNT
<1>2. \A p \in Pages : FreshPage(p) \in Seq(OpType) /\ Len(FreshPage(p)) = 4
  BY OpsTyped DEF FreshPage
<1> DEFINE s0 == FreshPage(0)
           s1 == FreshPage(1)
           s2 == FreshPage(2)
           s3 == << Status("activate", 0) >>
           t1 == s0 \o s1
           t2 == t1 \o s2
           t3 == t2 \o s3
<1>3. s3 \in Seq(OpType) /\ Len(s3) = 1 /\ s3[1] = Status("activate", 0)
  BY <1>1, OpsTyped
<1>4. /\ s0 \in Seq(OpType) /\ s1 \in Seq(OpType) /\ s2 \in Seq(OpType)
      /\ Len(s0) = 4 /\ Len(s1) = 4 /\ Len(s2) = 4
  BY <1>1, <1>2
<1> HIDE DEF s0, s1, s2, s3
<1>5. /\ t1 \in Seq(OpType) /\ Len(t1) = 8
      /\ \A i \in 1 .. 8 : t1[i] = IF i <= 4 THEN s0[i] ELSE s1[i - 4]
  <2>1. /\ t1 \in Seq(OpType) /\ Len(t1) = Len(s0) + Len(s1)
        /\ \A i \in 1 .. Len(s0) + Len(s1) :
              t1[i] = IF i <= Len(s0) THEN s0[i] ELSE s1[i - Len(s0)]
    BY <1>4, ConcatProperties
  <2> HIDE DEF t1
  <2> QED
    BY <1>4, <2>1
<1> HIDE DEF t1
<1>6. /\ t2 \in Seq(OpType) /\ Len(t2) = 12
      /\ \A i \in 1 .. 12 : t2[i] = IF i <= 8 THEN t1[i] ELSE s2[i - 8]
  <2>1. /\ t2 \in Seq(OpType) /\ Len(t2) = Len(t1) + Len(s2)
        /\ \A i \in 1 .. Len(t1) + Len(s2) :
              t2[i] = IF i <= Len(t1) THEN t1[i] ELSE s2[i - Len(t1)]
    BY <1>4, <1>5, ConcatProperties
  <2>2. Len(t1) = 8 /\ Len(s2) = 4
    BY <1>4, <1>5
  <2> HIDE DEF t2
  <2> QED
    BY <2>1, <2>2
<1> HIDE DEF t2
<1>7. /\ t3 \in Seq(OpType) /\ Len(t3) = 13
      /\ \A i \in 1 .. 13 : t3[i] = IF i <= 12 THEN t2[i] ELSE s3[i - 12]
  <2>1. /\ t3 \in Seq(OpType) /\ Len(t3) = Len(t2) + Len(s3)
        /\ \A i \in 1 .. Len(t2) + Len(s3) :
              t3[i] = IF i <= Len(t2) THEN t2[i] ELSE s3[i - Len(t2)]
    BY <1>3, <1>6, ConcatProperties
  <2>2. Len(t2) = 12 /\ Len(s3) = 1
    BY <1>3, <1>6
  <2> HIDE DEF t3
  <2> QED
    BY <2>1, <2>2
<1>8. FreshPages = t3
  BY DEF FreshPages, t3, t2, t1, s0, s1, s2, s3
<1> HIDE DEF t3
<1>9. \A j \in 1 .. 4 : t3[4 * 0 + j] = s0[j] /\ t3[4 * 1 + j] = s1[j] /\ t3[4 * 2 + j] = s2[j]
  BY <1>5, <1>6, <1>7
<1>10. t3[13] = Status("activate", 0)
  BY <1>3, <1>7
<1>11. \A p \in Pages, j \in 1 .. 4 : FreshPages[4 * p + j] = FreshPage(p)[j]
  BY <1>1, <1>8, <1>9 DEF s0, s1, s2
<1> QED
  BY <1>7, <1>8, <1>10, <1>11

\* A function that appends an element appends one.
Storing(before, p, a, v, after) == before \o (WriteElement(p, a, v) \o after)

\* s appends at most one element, and that to page p.
AppendsOne(s, p) ==
    /\ \A k \in 1 .. Len(s) : s[k].op = "addr" => s[k].page = p
    /\ \A k, l \in 1 .. Len(s) : s[k].op = "addr" /\ s[l].op = "addr" => k = l

\* A list of operations with one element written among status words adds one
\* element.
LEMMA OneAppend ==
    ASSUME NEW before \in Seq(OpType), NEW after \in Seq(OpType),
           \A k \in 1 .. Len(before) : before[k].op # "addr",
           \A k \in 1 .. Len(after) : after[k].op # "addr",
           NEW p \in Pages, NEW a \in Addr, NEW v \in Val
    PROVE  /\ Storing(before, p, a, v, after) \in Seq(OpType)
           /\ AppendsOne(Storing(before, p, a, v, after), p)
<1> DEFINE s == Storing(before, p, a, v, after)
           w == WriteElement(p, a, v)
           t == w \o after
<1>1. /\ w \in Seq(OpType) /\ Len(w) = 3
      /\ \A k \in 1 .. 3 : w[k].op = "addr" => k = 1 /\ w[k].page = p
  <2>1. w \in Seq(OpType)
    BY OpsTyped
  <2>2. w = << Op("addr", p, a), Op("data", p, v), Op("crc", p, v) >>
    BY DEF WriteElement
  <2>3. w[1].page = p /\ w[2].op # "addr" /\ w[3].op # "addr" /\ Len(w) = 3
    BY <2>2 DEF Op
  <2> QED
    BY <2>1, <2>3
<1> HIDE DEF w
<1>2. /\ t \in Seq(OpType) /\ Len(t) = 3 + Len(after)
      /\ \A i \in 1 .. 3 + Len(after) : t[i] = IF i <= 3 THEN w[i] ELSE after[i - 3]
  <2>1. /\ t \in Seq(OpType) /\ Len(t) = Len(w) + Len(after)
        /\ \A i \in 1 .. Len(w) + Len(after) :
              t[i] = IF i <= Len(w) THEN w[i] ELSE after[i - Len(w)]
    BY <1>1, ConcatProperties
  <2> QED
    BY <1>1, <2>1
<1>3. \A i \in 1 .. Len(t) : t[i].op = "addr" => i = 1 /\ t[i].page = p
  BY <1>1, <1>2
<1> HIDE DEF t
<1>4. /\ s \in Seq(OpType) /\ Len(s) = Len(before) + Len(t)
      /\ \A i \in 1 .. Len(before) + Len(t) :
            s[i] = IF i <= Len(before) THEN before[i] ELSE t[i - Len(before)]
  BY <1>2, ConcatProperties DEF t, w, Storing
<1> HIDE DEF s
<1>5. Len(before) \in Nat /\ Len(t) \in Nat
  BY <1>2
<1>6. \A k \in 1 .. Len(s) : s[k].op = "addr" => k = Len(before) + 1 /\ s[k].page = p
  <2> TAKE k \in 1 .. Len(s)
  <2> HAVE s[k].op = "addr"
  <2>1. ~(k <= Len(before))
    BY <1>4, <1>5
  <2>2. s[k] = t[k - Len(before)] /\ k - Len(before) \in 1 .. Len(t)
    BY <1>4, <1>5, <2>1
  <2>3. k - Len(before) = 1 /\ s[k].page = p
    BY <1>3, <2>2
  <2> QED
    BY <1>5, <2>3
<1> QED
  BY <1>4, <1>6 DEF AppendsOne, s

\* What a store of a word leaves in nvm: c is the current page, q the next one.
StoreForm(a, v, c, q) ==
    LET n == GetActiveCurrentPageCount
        full == Len(flash[c].element) = ELEMENTS
        p == IF full THEN q ELSE c
        i == Len(flash[p].element)
        closed == i = ELEMENTS - 1 /\ n < DEE_PAGE_CNT - 1
        before == IF full THEN Dee_CloseCurrentPage(c, q) ELSE <<>>
        after  == IF closed THEN Dee_CloseCurrentPage(c, q) ELSE <<>>
    IN  /\ i = ELEMENTS => nvm' = before \o <<>> /\ triggered' = triggered
        /\ i # ELEMENTS => /\ i < ELEMENTS
                           /\ nvm' = before \o (WriteElement(p, a, v) \o after)
                           /\ triggered' = (triggered \/ (~closed /\ i >= PackAt /\ n = DEE_PAGE_CNT - 1))

\* What a store does with the page found, by the pages in use and the room left.
LEMMA StoreForms ==
    ASSUME TypeInv, FitInv, NEW a \in Addr, NEW v \in Val, Store(a, v),
           NEW c, NEW q, NEW b, Ring(c, q, b), c = GetActiveCurrentPage
    PROVE  StoreForm(a, v, c, q)
<1> USE DEF StoreForm
<1>1. q \in Pages /\ c \in Pages /\ q # NoPage /\ c # NoPage
  BY PagesAround DEF Ring
<1>2. \A p \in Pages : /\ Len(flash[p].element) \in Nat /\ Len(flash[p].element) <= ELEMENTS
                       /\ p # NoPage
  <2> TAKE p \in Pages
  <2>1. flash[p].element \in Seq(Element)
    BY DEF TypeInv, TypeOK, Page
  <2> QED
    BY <2>1 DEF FitInv, Pages, DEE_PAGE_CNT, NoPage
<1>3. ELEMENTS \in Nat
  BY ElementsAssumption
<1>4. \A p \in Pages : GetIndexOfEmptyDataElement(p) =
          IF Len(flash[p].element) = ELEMENTS THEN NoElement ELSE Len(flash[p].element)
  BY <1>2 DEF GetIndexOfEmptyDataElement
<1>5. \A p \in Pages : /\ Len(flash[p].element) # NoElement
                       /\ Len(flash[p].element) # ELEMENTS => Len(flash[p].element) < ELEMENTS
  BY <1>2, <1>3 DEF NoElement
<1>6. q = GetNextPage(c)
  BY DEF Ring
<1> DEFINE full == Len(flash[c].element) = ELEMENTS
           p == IF full THEN q ELSE c
<1>7. p \in Pages
  BY <1>1
<1> HIDE DEF p
<1>8. (GetIndexOfEmptyDataElement(c) = NoElement) <=> full
  BY <1>1, <1>4, <1>5
<1>9. p = IF GetIndexOfEmptyDataElement(c) = NoElement THEN q ELSE c
  BY <1>8 DEF p
<1>10. CASE Len(flash[p].element) = ELEMENTS
  <2>1. GetIndexOfEmptyDataElement(p) = NoElement
    BY <1>4, <1>7, <1>10
  <2>2. /\ nvm' = (IF full THEN Dee_CloseCurrentPage(c, q) ELSE <<>>) \o <<>>
        /\ triggered' = (triggered \/ FALSE)
    BY <1>6, <1>8, <1>9, <2>1 DEF Store
  <2>3. triggered \in BOOLEAN
    BY DEF TypeInv, TypeOK
  <2> QED
    BY <1>10, <2>2, <2>3 DEF p
<1>11. CASE Len(flash[p].element) # ELEMENTS
  <2> DEFINE i == Len(flash[p].element)
             n == GetActiveCurrentPageCount
             closed == i = ELEMENTS - 1 /\ n < DEE_PAGE_CNT - 1
  <2>1. GetIndexOfEmptyDataElement(p) = i /\ i # NoElement
    BY <1>4, <1>5, <1>7, <1>11
  <2>2. /\ nvm' = (IF full THEN Dee_CloseCurrentPage(c, q) ELSE <<>>) \o
                  (WriteElement(p, a, v) \o (IF closed THEN Dee_CloseCurrentPage(c, q) ELSE <<>>))
        /\ triggered' = (triggered \/ (~closed /\ i >= PackAt /\ n = DEE_PAGE_CNT - 1))
    BY <1>6, <1>8, <1>9, <2>1 DEF Store
  <2> QED
    BY <1>5, <1>7, <1>11, <2>2 DEF p
<1> QED
  BY <1>10, <1>11

-----------------------------------------------------------------------------
(* The first two parts of the invariant.                                   *)

\* A flash operation carries out the head of nvm on its page alone.
LEMMA OpEffect ==
    ASSUME TypeInv, FlashOperation
    PROVE  LET o == Head(nvm)
           IN  /\ o \in OpType /\ o.page \in Pages
               /\ flash' \in [Pages -> Page]
               /\ flash'[o.page] = Done(flash[o.page], o)
               /\ \A r \in Pages \ {o.page} : flash'[r] = flash[r]
               /\ nvm' = Tail(nvm) /\ nvm' \in Seq(OpType)
<1> DEFINE o == Head(nvm)
<1>1. nvm \in Seq(OpType) /\ nvm # <<>> /\ flash \in [Pages -> Page]
  BY DEF TypeInv, TypeOK, FlashOperation
<1>2. o \in OpType /\ nvm' = Tail(nvm) /\ Tail(nvm) \in Seq(OpType)
  BY <1>1 DEF FlashOperation
<1>3. o.page \in Pages
  BY <1>2 DEF OpType
<1>4. flash' = [flash EXCEPT ![o.page] = Done(flash[o.page], o)]
  BY DEF FlashOperation
<1>5. Done(flash[o.page], o) \in Page
  BY <1>1, <1>2, <1>3, DoneType
<1> HIDE DEF o
<1>6. /\ flash' \in [Pages -> Page] /\ flash'[o.page] = Done(flash[o.page], o)
      /\ \A r \in Pages \ {o.page} : flash'[r] = flash[r]
  BY <1>1, <1>3, <1>4, <1>5
<1> QED
  BY <1>2, <1>3, <1>6 DEF o

\* The types hold at the start.
LEMMA TypeInit == Init => TypeInv
<1> SUFFICES ASSUME Init PROVE TypeInv
  OBVIOUS
<1>1. nvm \in Seq(OpType)
  BY FreshPagesAre DEF Init
<1>2. flash \in [Pages -> Page]
  <2>1. [active |-> FALSE, current |-> TRUE, expired |-> FALSE, counted |-> FALSE,
         element |-> <<>>] \in Page
    BY DEF Page
  <2> QED
    BY <2>1 DEF Init
<1>3. pack = NoPack /\ NoPack.state = "Start"
  BY DEF Init, NoPack
<1>4. NoPack \in [state : PackStates, current : Pages \cup {NoPage}, next : Pages \cup {NoPage},
                  addr : 0 .. SIZE, failed : BOOLEAN]
  BY SizeAssumption DEF NoPack, PackStates
<1>5. MaxResets \in Nat
  BY MaxResetsAssumption
<1>6. /\ triggered \in BOOLEAN /\ running \in BOOLEAN /\ bad \in BOOLEAN /\ wounded \in BOOLEAN
      /\ resets \in 0 .. MaxResets
  <2>1. resets = 0
    BY DEF Init
  <2>2. triggered = FALSE /\ running = FALSE /\ bad = FALSE /\ wounded = FALSE
    BY DEF Init
  <2>3. resets \in 0 .. MaxResets
    BY <1>5, <2>1
  <2> QED
    BY <2>2, <2>3
<1>7. BufferOK
  BY BufferAssumption DEF Init, BufferOK
<1> QED
  BY <1>1, <1>2, <1>3, <1>4, <1>6, <1>7 DEF TypeInv, TypeOK

\* Formatting a fresh flash writes no elements.
LEMMA FreshAppendsNothing == \A k \in 1 .. 13 : FreshPages[k].op # "addr"
<1>1. Pages = {0, 1, 2}
  BY DEF Pages, DEE_PAGE_CNT
<1>2. \A p \in Pages, j \in 1 .. 4 : FreshPage(p)[j].op # "addr"
  <2> TAKE p \in Pages, j \in 1 .. 4
  <2>1. j = 1 \/ j = 2 \/ j = 3 \/ j = 4
    OBVIOUS
  <2> QED
    BY <2>1 DEF FreshPage, Status, Op
<1>3. FreshPages[13].op # "addr"
  BY FreshPagesAre DEF Status, Op
<1> TAKE k \in 1 .. 13
<1>4. \/ k = 13
      \/ \E j \in 1 .. 4 : k = 4 * 0 + j \/ k = 4 * 1 + j \/ k = 4 * 2 + j
  <2>1. CASE k <= 4
    BY <2>1
  <2>2. CASE k > 4 /\ k <= 8
    <3>1. k - 4 \in 1 .. 4 /\ k = 4 * 1 + (k - 4)
      BY <2>2
    <3> QED
      BY <3>1
  <2>3. CASE k > 8 /\ k <= 12
    <3>1. k - 8 \in 1 .. 4 /\ k = 4 * 2 + (k - 8)
      BY <2>3
    <3> QED
      BY <3>1
  <2> QED
    BY <2>1, <2>2, <2>3
<1>5. CASE \E j \in 1 .. 4 : k = 4 * 0 + j \/ k = 4 * 1 + j \/ k = 4 * 2 + j
  <2>1. PICK p \in Pages, j \in 1 .. 4 : k = 4 * p + j
    BY <1>1, <1>5
  <2>2. FreshPages[k] = FreshPage(p)[j]
    BY <2>1, FreshPagesAre
  <2> QED
    BY <1>2, <2>2
<1> QED
  BY <1>3, <1>4, <1>5

\* Blank pages fit.
LEMMA FitInit == Init => FitInv
<1> SUFFICES ASSUME Init PROVE FitInv
  OBVIOUS
<1>1. \A p \in Pages : Len(flash[p].element) = 0
  BY DEF Init
<1>2. DOMAIN nvm = 1 .. 13 /\ nvm = FreshPages
  BY FreshPagesAre DEF Init
<1> QED
  BY <1>1, <1>2, FreshAppendsNothing, ElementsAssumption DEF FitInv, Appends

\* Functions that change neither the pages nor add to nvm.
LEMMA FitWithoutAppend ==
    ASSUME FitInv, UNCHANGED flash, nvm' \in Seq(OpType), \A k \in 1 .. Len(nvm') : nvm'[k].op # "addr"
    PROVE  FitInv'
  BY DEF FitInv, Appends

\* One element more fits a page that is not full.
LEMMA FitWithAppend ==
    ASSUME FitInv, UNCHANGED flash, nvm' \in Seq(OpType), NEW p \in Pages, AppendsOne(nvm', p),
           Len(flash[p].element) < ELEMENTS
    PROVE  FitInv'
<1>1. DOMAIN nvm' = 1 .. Len(nvm')
  OBVIOUS
<1> QED
  BY <1>1 DEF FitInv, Appends, AppendsOne

\* None of the functions that leave elements alone appends one.
LEMMA NoAppends ==
    ASSUME NEW p \in Pages, NEW q \in Pages
    PROVE  /\ \A k \in 1 .. Len(Dee_CloseCurrentPage(p, q)) : Dee_CloseCurrentPage(p, q)[k].op # "addr"
           /\ \A k \in 1 .. Len(ErasePage(p)) : ErasePage(p)[k].op # "addr"
<1>1. \A k \in 1 .. Len(Dee_CloseCurrentPage(p, q)) : Dee_CloseCurrentPage(p, q)[k].op # "addr"
  <2> TAKE k \in 1 .. Len(Dee_CloseCurrentPage(p, q))
  <2>1. k = 1 \/ k = 2
    BY DEF Dee_CloseCurrentPage
  <2> QED
    BY <2>1 DEF Dee_CloseCurrentPage, Status, Op
<1>2. \A k \in 1 .. Len(ErasePage(p)) : ErasePage(p)[k].op # "addr"
  <2> TAKE k \in 1 .. Len(ErasePage(p))
  <2>1. CASE flash[p].counted
    <3>1. ErasePage(p) = << Status("erase_first", p), Status("erase_second", p), Status("count", p) >>
      BY <2>1 DEF ErasePage
    <3>2. k = 1 \/ k = 2 \/ k = 3
      BY <3>1
    <3> QED
      BY <3>1, <3>2 DEF Status, Op
  <2>2. CASE ~flash[p].counted
    <3>1. ErasePage(p) = << Status("expire", p) >>
      BY <2>2 DEF ErasePage
    <3>2. k = 1
      BY <3>1
    <3> QED
      BY <3>1, <3>2 DEF Status, Op
  <2> QED
    BY <2>1, <2>2
<1> QED
  BY <1>1, <1>2

\* A byte in its place makes a word, whatever was read.
LEMMA WordMade ==
    ASSUME TypeOK, NEW a, NEW b \in Byte
    PROVE  Merged(DataEERead(a), b) \in Val
  BY ReadType, MergedAssumption

\* The first byte of the buffer, and the buffer without it.
LEMMA BufferHead ==
    ASSUME BufferOK, deferred # <<>>
    PROVE  /\ Head(deferred).addr \in Used /\ Head(deferred).byte \in Byte
           /\ Tail(deferred) \in Seq([addr : Used, byte : Byte])
           /\ Len(Tail(deferred)) = Len(deferred) - 1 /\ Len(deferred) \in Nat \ {0}
<1> DEFINE R == [addr : Used, byte : Byte]
<1>1. deferred \in Seq(R)
  BY DEF BufferOK
<1>2. /\ Head(deferred) \in R /\ Tail(deferred) \in Seq(R)
      /\ Len(Tail(deferred)) = Len(deferred) - 1
  <2> HIDE DEF R
  <2> QED
    BY <1>1, HeadTailProperties
<1>3. Len(deferred) \in Nat \ {0}
  <2> HIDE DEF R
  <2> QED
    BY <1>1, EmptySeq
<1> QED
  BY <1>2, <1>3

\* Every step keeps to the end of the buffer.
LEMMA BufferStep == BufferOK /\ [Next]_vars => BufferOK'
<1> SUFFICES ASSUME BufferOK, [Next]_vars PROVE BufferOK'
  OBVIOUS
<1>1. UNCHANGED buffer => BufferOK'
  BY DEF buffer, BufferOK
<1>2. ASSUME NEW a \in Used, NEW b \in Byte, Defer(a, b) PROVE BufferOK'
  <2>1. /\ deferred' = Append(deferred, [addr |-> a, byte |-> b]) /\ taken' = taken
        /\ taken + Len(deferred) < EEPROM_WRITE_BUFFER
    BY <1>2 DEF Defer
  <2>2. deferred \in Seq([addr : Used, byte : Byte]) /\ taken \in Nat
    BY DEF BufferOK
  <2>3. /\ deferred' \in Seq([addr : Used, byte : Byte]) /\ Len(deferred') = Len(deferred) + 1
        /\ Len(deferred) \in Nat
    BY <2>1, <2>2
  <2> QED
    BY <2>1, <2>2, <2>3, BufferAssumption DEF BufferOK
<1>3. CASE WriteDeferred
  <2>1. /\ deferred # <<>> /\ deferred' = Tail(deferred)
        /\ taken' = IF Len(deferred) = 1 THEN 0 ELSE taken + 1
    BY <1>3 DEF WriteDeferred
  <2>2. /\ deferred' \in Seq([addr : Used, byte : Byte]) /\ Len(deferred') = Len(deferred) - 1
        /\ Len(deferred) \in Nat \ {0}
    BY <2>1, BufferHead
  <2> QED
    BY <2>1, <2>2, BufferAssumption DEF BufferOK
<1>4. Reset => BufferOK'
  BY BufferAssumption DEF Reset, BufferOK
<1>5. PackStep => UNCHANGED buffer
  BY DEF PackStep, Pack, PackStart, PackForCycle, PackCopied, PackFinalCheck, PackErase,
         PackErase1a, PackErase1b, PackErase2a, PackErase2b, PackAfterErase, PackStop
<1>6. /\ FlashOperation => UNCHANGED buffer
      /\ \A a \in Used, b \in Byte : Write(a, b) => UNCHANGED buffer
      /\ \A a \in Used : Read(a) => UNCHANGED buffer
      /\ UNCHANGED vars => UNCHANGED buffer
  BY DEF FlashOperation, Write, Read, vars
<1> QED
  BY <1>1, <1>2, <1>3, <1>4, <1>5, <1>6 DEF Next

\* The steps, apart from what they do to the buffer.
LEMMA Steps ==
    ASSUME TypeOK, [Next]_vars
    PROVE  \/ FlashOperation \/ PackStep \/ Reset \/ BufferOnly
           \/ \E a \in Used, v \in Val : StoresWord(a, v)
           \/ \E a \in Used : Read(a)
<1>1. ASSUME NEW a \in Used, NEW b \in Byte, Write(a, b)
      PROVE  \E v \in Val : StoresWord(a, v)
  BY <1>1, WordMade DEF Write, StoresWord, is_eeprom_write_protected
<1>2. ASSUME NEW a \in Used, NEW b \in Byte, Defer(a, b) PROVE BufferOnly
  BY <1>2 DEF Defer, BufferOnly
<1>3. CASE WriteDeferred
  <2> DEFINE d == Head(deferred)
  <2>1. d.addr \in Used /\ d.byte \in Byte
    BY <1>3, BufferHead DEF TypeOK, WriteDeferred
  <2>2. Merged(DataEERead(d.addr), d.byte) \in Val
    BY <2>1, WordMade
  <2>3. StoresWord(d.addr, Merged(DataEERead(d.addr), d.byte))
    BY <1>3 DEF WriteDeferred, StoresWord, is_eeprom_write_protected
  <2> QED
    BY <2>1, <2>2, <2>3
<1>4. UNCHANGED vars => BufferOnly
  BY DEF vars, BufferOnly
<1> QED
  BY <1>1, <1>2, <1>3, <1>4 DEF Next

\* Every step keeps the types.
LEMMA TypeStep == TypeInv /\ FitInv /\ [Next]_vars => TypeInv'
<1> SUFFICES ASSUME TypeInv, FitInv, [Next]_vars PROVE TypeInv'
  OBVIOUS
<1> USE DEF TypeInv
<1>h. BufferOK'
  BY BufferStep DEF TypeOK
<1>a. /\ flash \in [Pages -> Page] /\ triggered \in BOOLEAN /\ running \in BOOLEAN
      /\ bad \in BOOLEAN /\ wounded \in BOOLEAN
      /\ resets \in 0 .. MaxResets /\ nvm \in Seq(OpType) /\ BufferOK'
  BY <1>h DEF TypeOK
<1>b. /\ pack \in [state : PackStates, current : Pages \cup {NoPage}, next : Pages \cup {NoPage},
                   addr : 0 .. SIZE, failed : BOOLEAN]
      /\ pack.state \notin {"Start", "Stop"} => pack.current \in Pages /\ pack.next \in Pages
  BY DEF TypeOK
<1>c. MaxResets \in Nat /\ SIZE \in Nat
  BY MaxResetsAssumption, SizeAssumption
<1>d. \A p \in Pages : GetNextPage(p) \in Pages /\ GetPreviousPage(p) \in Pages
  BY PagesAround DEF Ring
<1>e. GetActiveCurrentPage \in Pages \cup {NoPage}
  BY CurrentIsFound
<1>f. <<>> \in Seq(OpType)
  OBVIOUS
<1>g. /\ NoPack \in [state : PackStates, current : Pages \cup {NoPage}, next : Pages \cup {NoPage},
                     addr : 0 .. SIZE, failed : BOOLEAN]
      /\ NoPack.state = "Start"
  BY SizeAssumption DEF NoPack, PackStates
<1>1. CASE FlashOperation
  <2>1. flash' \in [Pages -> Page] /\ nvm' \in Seq(OpType)
    BY <1>1, OpEffect
  <2>2. UNCHANGED << triggered, running, pack, bad, wounded, resets >>
    BY <1>1 DEF FlashOperation, ram
  <2> QED
    BY <1>a, <1>b, <2>1, <2>2 DEF TypeOK
<1>2. ASSUME NEW a \in Used, NEW v \in Val, StoresWord(a, v) PROVE TypeInv'
  <2>1. UNCHANGED << flash, running, pack, resets >>
    BY <1>2 DEF StoresWord, WriteWord
  <2> DEFINE c == GetActiveCurrentPage
  <2>3. CASE c = NoPage \/ DataEERead(a) = v \/ (DataEERead(a) = Blank /\ (bad \/ MeetsTornElement(a)))
    <3>1. /\ bad' = (c # NoPage /\ (bad \/ MeetsTornElement(a)))
          /\ wounded' = (wounded \/ DataEERead(a) # v)
          /\ nvm' = nvm /\ triggered' = triggered
      BY <1>2, <2>3 DEF StoresWord, WriteWord
    <3>2. bad' \in BOOLEAN /\ wounded' \in BOOLEAN
      BY <3>1
    <3> QED
      BY <1>a, <1>b, <2>1, <3>1, <3>2 DEF TypeOK
  <2>4. CASE ~(c = NoPage \/ DataEERead(a) = v \/ (DataEERead(a) = Blank /\ (bad \/ MeetsTornElement(a))))
    <3>1. Store(a, v) /\ wounded' = (wounded \/ Overrun)
      BY <1>2, <2>4 DEF StoresWord, WriteWord
    <3>2. bad' \in BOOLEAN /\ triggered' \in BOOLEAN /\ wounded' \in BOOLEAN
      BY <3>1 DEF Store
    <3>3. nvm' \in Seq(OpType)
      <4>1. c \in Pages /\ a \in Addr
        BY <1>e, <2>4, SizeAssumption
      <4> DEFINE q == GetNextPage(c)
                 b == GetPreviousPage(c)
                 cl == Dee_CloseCurrentPage(c, q)
      <4>2. Ring(c, q, b) /\ q \in Pages
        BY <4>1, <1>d DEF Ring
      <4>3. cl \in Seq(OpType) /\ WriteElement(c, a, v) \in Seq(OpType) /\ WriteElement(q, a, v) \in Seq(OpType)
        BY <4>1, <4>2, OpsTyped
      <4>4. \A s \in Seq(OpType), t \in Seq(OpType) : s \o t \in Seq(OpType)
        OBVIOUS
      <4>5. \/ nvm' = cl \o <<>> \/ nvm' = <<>> \o <<>>
            \/ \E s \in {<<>>, cl}, t \in {<<>>, cl}, w \in {WriteElement(c, a, v), WriteElement(q, a, v)} :
                  nvm' = s \o (w \o t)
        BY <3>1, <4>1, <4>2, StoreForms, ZenonT(60) DEF StoreForm
      <4> QED
        BY <1>f, <4>3, <4>4, <4>5
    <3> QED
      BY <1>a, <1>b, <2>1, <3>1, <3>2, <3>3 DEF TypeOK
  <2> QED
    BY <2>3, <2>4
<1>3. ASSUME NEW a \in Used, Read(a) PROVE TypeInv'
  BY <1>3, <1>a, <1>b DEF Read, TypeOK
<1>4. CASE Reset
  <2>1. flash' = flash /\ running' = FALSE /\ pack' = NoPack
    BY <1>4 DEF Reset
  <2>2. resets' \in 0 .. MaxResets
    BY <1>4, <1>a, <1>c DEF Reset
  <2>3. wounded' \in BOOLEAN
    BY <1>4, <1>a DEF Reset
  <2>4. bad' \in BOOLEAN /\ triggered' \in BOOLEAN
    BY <1>4 DEF Reset, Boot
  <2>5. nvm' \in Seq(OpType)
    <3>1. nvm' = FreshPages \/ nvm' = <<>> \/
          (GetActiveCurrentPage # NoPage /\ nvm' = ErasePage(GetNextPage(GetActiveCurrentPage)))
      BY <1>4 DEF Reset, Boot
    <3>2. GetActiveCurrentPage # NoPage => ErasePage(GetNextPage(GetActiveCurrentPage)) \in Seq(OpType)
      BY <1>d, <1>e, OpsTyped
    <3> QED
      BY <3>1, <3>2, FreshPagesAre, <1>f
  <2> QED
    BY <1>a, <1>c, <1>g, <2>1, <2>2, <2>3, <2>4, <2>5 DEF TypeOK
<1>5. CASE PackStep
  <2>1. flash' = flash /\ resets' = resets
    BY <1>5 DEF PackStep, Pack, PackStart, PackForCycle, PackCopied, PackFinalCheck, PackErase,
           PackErase1a, PackErase1b, PackErase2a, PackErase2b, PackAfterErase, PackStop
  <2> SUFFICES /\ triggered' \in BOOLEAN /\ running' \in BOOLEAN /\ bad' \in BOOLEAN
               /\ wounded' \in BOOLEAN /\ nvm' \in Seq(OpType)
               /\ pack' \in [state : PackStates, current : Pages \cup {NoPage}, next : Pages \cup {NoPage},
                             addr : 0 .. SIZE, failed : BOOLEAN]
               /\ pack'.state \notin {"Start", "Stop"} => pack'.current \in Pages /\ pack'.next \in Pages
    BY <1>a, <2>1 DEF TypeOK
  <2>2. CASE PackStart
    <3>1. /\ running' = TRUE /\ nvm' = nvm /\ triggered' = triggered /\ wounded' = wounded
      BY <2>2 DEF PackStart
    <3>2. bad' \in BOOLEAN
      BY <2>2, <1>a DEF PackStart
    <3> DEFINE c == GetActiveCurrentPage
               ok == c # NoPage /\ GetActiveCurrentPageCount = DEE_PAGE_CNT - 1
    <3>3. pack' = [state |-> IF ok THEN "ForCycle" ELSE "Stop",
                   current |-> c, next |-> GetNextPage(c), addr |-> 0, failed |-> c = NoPage]
      BY <2>2 DEF PackStart
    <3>4. GetNextPage(c) \in Pages \cup {NoPage} /\ (c # NoPage => c \in Pages /\ GetNextPage(c) \in Pages)
      BY <1>d, <1>e DEF GetNextPage
    <3> HIDE DEF c
    <3> QED
      BY <1>a, <1>c, <1>e, <3>1, <3>2, <3>3, <3>4 DEF PackStates
  <2>3. CASE PackForCycle
    <3> DEFINE a == pack.addr
               found == DataEERead(a)
               next == GetNextPage(GetActiveCurrentPage)
               fits == found = Blank \/ GetIndexOfEmptyDataElement(next) # NoElement
               isBad == bad \/ MeetsTornElement(a) \/ ~fits
               stops == ~fits \/ (found = Blank /\ isBad)
    <3>1. triggered' = triggered /\ running' = running
      BY <2>3 DEF PackForCycle
    <3>2. bad' = isBad /\ wounded' = (wounded \/ stops)
      BY <2>3 DEF PackForCycle
    <3>3. pack' = [pack EXCEPT !.addr = a + 1, !.failed = @ \/ stops,
                               !.state = IF stops THEN "Stop" ELSE @]
      BY <2>3 DEF PackForCycle
    <3>4. a < SIZE /\ pack.state = "ForCycle" /\ a \in 0 .. SIZE
      BY <2>3, <1>b DEF PackForCycle, Pack
    <3>5. \/ nvm' = <<>>
          \/ found # Blank /\ (nvm' = Dee_CloseCurrentPage(next, next) \/ nvm' = WriteElement(next, a, found))
      BY <2>3 DEF PackForCycle
    <3>6. found # Blank => found \in Val /\ next \in Pages
      BY ReadType, <1>d, <1>e
    <3>7. a \in Addr
      BY <3>4, <1>c DEF Addr
    <3>8. nvm' \in Seq(OpType)
      BY <1>f, <3>5, <3>6, <3>7, OpsTyped
    <3>9. bad' \in BOOLEAN /\ wounded' \in BOOLEAN
      BY <3>2
    <3>10. a + 1 \in 0 .. SIZE
      BY <3>4, <1>c
    <3> HIDE DEF stops, a
    <3>11. pack' \in [state : PackStates, current : Pages \cup {NoPage}, next : Pages \cup {NoPage},
                      addr : 0 .. SIZE, failed : BOOLEAN]
      BY <1>b, <3>3, <3>10 DEF PackStates, stops
    <3>12. pack'.current = pack.current /\ pack'.next = pack.next
      BY <1>b, <3>3
    <3> QED
      BY <1>a, <1>b, <3>1, <3>4, <3>8, <3>9, <3>11, <3>12
  <2>4. CASE PackCopied
    BY <2>4, <1>a, <1>b DEF PackCopied, Pack, PackStates
  <2>5. CASE PackFinalCheck
    <3>1. pack.next \in Pages /\ pack.current \in Pages /\ pack.state = "FinalCheck"
      BY <2>5, <1>b DEF PackFinalCheck, Pack
    <3>2. << Status("close", pack.next) >> \in Seq(OpType) /\ << Status("activate", pack.next) >> \in Seq(OpType)
      BY <3>1, OpsTyped
    <3> QED
      BY <2>5, <1>a, <1>b, <3>1, <3>2 DEF PackFinalCheck, PackStates
  <2>6. ASSUME NEW from \in {"Erase_1a", "Erase_1b", "Erase_2a", "Erase_2b"},
               NEW to \in {"Erase_1b", "Erase_2b", "After_Erase"}, NEW p \in Pages,
               NEW after \in Seq(OpType), PackErase(from, to, p, after)
        PROVE  /\ triggered' \in BOOLEAN /\ running' \in BOOLEAN /\ bad' \in BOOLEAN
               /\ wounded' \in BOOLEAN /\ nvm' \in Seq(OpType)
               /\ pack' \in [state : PackStates, current : Pages \cup {NoPage}, next : Pages \cup {NoPage},
                             addr : 0 .. SIZE, failed : BOOLEAN]
               /\ pack'.state \notin {"Start", "Stop"} => pack'.current \in Pages /\ pack'.next \in Pages
    <3>1. ErasePage(p) \in Seq(OpType)
      BY OpsTyped
    <3>2. nvm' \in Seq(OpType)
      BY <3>1, <2>6 DEF PackErase
    <3>3. /\ pack' = [pack EXCEPT !.state = to] /\ pack.state = from
          /\ UNCHANGED << triggered, running, bad, wounded >>
      BY <2>6 DEF PackErase, Pack
    <3> QED
      BY <1>a, <1>b, <3>2, <3>3 DEF PackStates
  <2>7. CASE PackErase1a
    <3>1. pack.current \in Pages
      BY <2>7, <1>b DEF PackErase1a, PackErase, Pack
    <3> QED
      BY <1>f, <2>6, <2>7, <3>1 DEF PackErase1a
  <2>8. CASE PackErase1b
    <3>1. pack.current \in Pages
      BY <2>8, <1>b DEF PackErase1b, PackErase, Pack
    <3> QED
      BY <1>d, <1>f, <2>6, <2>8, <3>1 DEF PackErase1b
  <2>9. CASE PackErase2a
    <3>1. pack.current \in Pages
      BY <2>9, <1>b DEF PackErase2a, PackErase, Pack
    <3> QED
      BY <1>f, <2>6, <2>9, <3>1 DEF PackErase2a
  <2>10. CASE PackErase2b
    <3>1. pack.current \in Pages /\ pack.next \in Pages
      BY <2>10, <1>b DEF PackErase2b, PackErase, Pack
    <3>2. << Status("activate", GetNextPage(pack.next)) >> \in Seq(OpType)
      BY <3>1, <1>d, OpsTyped
    <3> QED
      BY <1>d, <2>6, <2>10, <3>1, <3>2 DEF PackErase2b
  <2>11. CASE PackAfterErase
    BY <2>11, <1>a, <1>b DEF PackAfterErase, Pack, PackStates
  <2>12. CASE PackStop
    BY <2>12, <1>a, <1>g DEF PackStop, Pack
  <2> QED
    BY <1>5, <2>2, <2>3, <2>4, <2>5, <2>7, <2>8, <2>9, <2>10, <2>11, <2>12 DEF PackStep
<1>6. CASE BufferOnly
  BY <1>6, <1>a, <1>b DEF BufferOnly, ram, TypeOK
<1> QED
  BY <1>1, <1>2, <1>3, <1>4, <1>5, <1>6, Steps

\* No step lets a page get more elements than it holds.
LEMMA FitStep == TypeInv /\ FitInv /\ [Next]_vars => FitInv'
<1> SUFFICES ASSUME TypeInv, FitInv, [Next]_vars PROVE FitInv'
  OBVIOUS
<1>a. /\ flash \in [Pages -> Page] /\ nvm \in Seq(OpType) /\ ELEMENTS \in Nat
      /\ \A p \in Pages : Len(flash[p].element) \in Nat
  BY ElementsAssumption DEF TypeInv, TypeOK, Page
<1>d. \A p \in Pages : GetNextPage(p) \in Pages /\ GetPreviousPage(p) \in Pages /\ p # NoPage
  BY PagesAround DEF Ring
<1>e. GetActiveCurrentPage \in Pages \cup {NoPage}
  BY CurrentIsFound
<1>f. <<>> \in Seq(OpType) /\ Len(<<>>) = 0 /\ \A k \in 1 .. Len(<<>>) : <<>>[k].op # "addr"
  OBVIOUS
<1>g. (flash' = flash /\ nvm' = nvm) => FitInv'
  BY DEF FitInv, Appends
<1>1. CASE FlashOperation
  <2> DEFINE o == Head(nvm)
  <2>1. /\ o \in OpType /\ o.page \in Pages /\ flash' \in [Pages -> Page]
        /\ flash'[o.page] = Done(flash[o.page], o)
        /\ \A r \in Pages \ {o.page} : flash'[r] = flash[r]
        /\ nvm' = Tail(nvm) /\ nvm' \in Seq(OpType) /\ nvm # <<>>
    BY <1>1, OpEffect DEF FlashOperation
  <2>2. /\ o = nvm[1] /\ Len(nvm) \in Nat /\ Len(nvm) >= 1 /\ Len(nvm') = Len(nvm) - 1
        /\ \A k \in 1 .. Len(nvm') : nvm'[k] = nvm[k + 1]
    BY <1>a, <2>1, HeadTailProperties
  <2>3. Len(flash'[o.page].element) <= Len(flash[o.page].element) + (IF o.op = "addr" THEN 1 ELSE 0)
    BY <1>a, <2>1, DoneType
  <2>4. \A p \in Pages : Len(flash'[p].element) \in Nat
    BY <2>1 DEF Page
  <2> HIDE DEF o
  <2>5. CASE o.op = "addr"
    <3>1. Appends(1) /\ nvm[1].page = o.page
      BY <1>a, <2>2, <2>5 DEF Appends
    <3>2. Len(flash[o.page].element) < ELEMENTS
      BY <3>1 DEF FitInv, Appends
    <3>3. \A k \in 1 .. Len(nvm') : nvm'[k].op # "addr"
      <4> TAKE k \in 1 .. Len(nvm')
      <4>1. k + 1 \in DOMAIN nvm /\ k + 1 # 1 /\ nvm'[k] = nvm[k + 1]
        BY <1>a, <2>2
      <4>2. ~Appends(k + 1)
        BY <3>1, <4>1 DEF FitInv, Appends
      <4> QED
        BY <4>1, <4>2 DEF Appends
    <3>4. \A p \in Pages : Len(flash'[p].element) <= ELEMENTS
      <4> TAKE p \in Pages
      <4>1. CASE p = o.page
        BY <1>a, <2>1, <2>3, <2>4, <2>5, <3>2, <4>1
      <4>2. CASE p # o.page
        BY <2>1, <4>2 DEF FitInv
      <4> QED
        BY <4>1, <4>2
    <3>5. DOMAIN nvm' = 1 .. Len(nvm')
      BY <2>1
    <3> QED
      BY <3>3, <3>4, <3>5 DEF FitInv, Appends
  <2>6. CASE o.op # "addr"
    <3>1. \A p \in Pages : Len(flash'[p].element) <= Len(flash[p].element)
      <4> TAKE p \in Pages
      <4>1. CASE p = o.page
        BY <1>a, <2>1, <2>3, <2>4, <2>6, <4>1
      <4>2. CASE p # o.page
        BY <1>a, <2>1, <4>2
      <4> QED
        BY <4>1, <4>2
    <3>2. DOMAIN nvm' = 1 .. Len(nvm') /\ DOMAIN nvm = 1 .. Len(nvm)
      BY <1>a, <2>1
    <3>3. \A k \in DOMAIN nvm' : k + 1 \in DOMAIN nvm /\ nvm'[k] = nvm[k + 1] /\ k \in Nat
      BY <2>2, <3>2
    <3>4. \A k \in DOMAIN nvm' : nvm'[k].page \in Pages
      <4> TAKE k \in DOMAIN nvm'
      <4>1. nvm'[k] \in OpType
        BY <2>1
      <4> QED
        BY <4>1 DEF OpType
    <3>5. \A p \in Pages : Len(flash'[p].element) <= ELEMENTS
      BY <1>a, <2>4, <3>1 DEF FitInv
    <3>6. \A k \in DOMAIN nvm' : nvm'[k].op = "addr" => Len(flash'[nvm'[k].page].element) < ELEMENTS
      <4> TAKE k \in DOMAIN nvm'
      <4> HAVE nvm'[k].op = "addr"
      <4>1. Len(flash[nvm'[k].page].element) < ELEMENTS
        BY <3>3 DEF FitInv, Appends
      <4> QED
        BY <1>a, <2>4, <3>1, <3>4, <4>1
    <3>7. \A k, l \in DOMAIN nvm' : nvm'[k].op = "addr" /\ nvm'[l].op = "addr" => k = l
      <4> TAKE k, l \in DOMAIN nvm'
      <4> HAVE nvm'[k].op = "addr" /\ nvm'[l].op = "addr"
      <4>1. k + 1 = l + 1
        BY <3>3 DEF FitInv, Appends
      <4> QED
        BY <3>3, <4>1
    <3> QED
      BY <3>5, <3>6, <3>7 DEF FitInv, Appends
  <2> QED
    BY <2>5, <2>6
<1>2. ASSUME NEW a \in Used, NEW v \in Val, StoresWord(a, v) PROVE FitInv'
  <2>1. flash' = flash
    BY <1>2 DEF StoresWord, WriteWord
  <2> DEFINE c == GetActiveCurrentPage
  <2>3. CASE c = NoPage \/ DataEERead(a) = v \/ (DataEERead(a) = Blank /\ (bad \/ MeetsTornElement(a)))
    <3>1. nvm' = nvm
      BY <1>2, <2>3 DEF StoresWord, WriteWord
    <3> QED
      BY <1>g, <2>1, <3>1
  <2>4. CASE ~(c = NoPage \/ DataEERead(a) = v \/ (DataEERead(a) = Blank /\ (bad \/ MeetsTornElement(a))))
    <3> DEFINE q == GetNextPage(c)
               b == GetPreviousPage(c)
               cl == Dee_CloseCurrentPage(c, q)
    <3>1. Store(a, v) /\ c \in Pages /\ a \in Addr
      BY <1>2, <1>e, <2>4, SizeAssumption DEF StoresWord, WriteWord
    <3>2. Ring(c, q, b) /\ q \in Pages
      BY <3>1, <1>d DEF Ring
    <3>3. cl \in Seq(OpType) /\ \A k \in 1 .. Len(cl) : cl[k].op # "addr"
      BY <3>1, <3>2, OpsTyped, NoAppends
    <3>4. \/ \E s \in {<<>>, cl} : nvm' = s \o <<>>
          \/ \E s \in {<<>>, cl}, t \in {<<>>, cl}, p \in Pages :
                 Len(flash[p].element) < ELEMENTS /\ nvm' = s \o (WriteElement(p, a, v) \o t)
      BY <3>1, <3>2, StoreForms, ZenonT(60) DEF StoreForm
    <3>7. \A s \in {<<>>, cl} : s \in Seq(OpType) /\ \A k \in 1 .. Len(s) : s[k].op # "addr"
      <4> TAKE s \in {<<>>, cl}
      <4>1. CASE s = <<>>
        BY <1>f, <4>1
      <4>2. CASE s = cl
        BY <3>3, <4>2
      <4> QED
        BY <4>1, <4>2
    <3> HIDE DEF cl
    <3>5. ASSUME NEW s \in {<<>>, cl}, nvm' = s \o <<>> PROVE FitInv'
      <4>1. s \in Seq(OpType) /\ \A k \in 1 .. Len(s) : s[k].op # "addr"
        BY <3>7
      <4>2. s \o <<>> = s
        BY <4>1, ConcatEmptySeq
      <4> QED
        BY <2>1, <3>5, <4>1, <4>2, FitWithoutAppend
    <3>6. ASSUME NEW s \in {<<>>, cl}, NEW t \in {<<>>, cl}, NEW p \in Pages,
                 Len(flash[p].element) < ELEMENTS, nvm' = s \o (WriteElement(p, a, v) \o t)
          PROVE FitInv'
      <4>1. /\ s \in Seq(OpType) /\ \A k \in 1 .. Len(s) : s[k].op # "addr"
            /\ t \in Seq(OpType) /\ \A k \in 1 .. Len(t) : t[k].op # "addr"
        BY <3>7
      <4>2. nvm' = Storing(s, p, a, v, t)
        BY <3>6 DEF Storing
      <4>3. nvm' \in Seq(OpType) /\ AppendsOne(nvm', p)
        BY <3>1, <4>1, <4>2, OneAppend
      <4> QED
        BY <2>1, <3>6, <4>3, FitWithAppend
    <3> QED
      BY <3>4, <3>5, <3>6
  <2> QED
    BY <2>3, <2>4
<1>3. ASSUME NEW a \in Used, Read(a) PROVE FitInv'
  BY <1>3, <1>g DEF Read
<1>4. CASE Reset
  <2>1. flash' = flash
    BY <1>4 DEF Reset
  <2>2. nvm' = FreshPages \/ nvm' = <<>> \/
        (GetActiveCurrentPage # NoPage /\ nvm' = ErasePage(GetNextPage(GetActiveCurrentPage)))
    BY <1>4 DEF Reset, Boot
  <2>3. CASE nvm' = FreshPages
    BY <2>1, <2>3, FreshPagesAre, FreshAppendsNothing, FitWithoutAppend
  <2>4. CASE nvm' = <<>>
    BY <1>f, <2>1, <2>4, FitWithoutAppend
  <2>5. CASE GetActiveCurrentPage # NoPage /\ nvm' = ErasePage(GetNextPage(GetActiveCurrentPage))
    <3>1. GetNextPage(GetActiveCurrentPage) \in Pages
      BY <1>d, <1>e, <2>5
    <3> QED
      BY <2>1, <2>5, <3>1, OpsTyped, NoAppends, FitWithoutAppend
  <2> QED
    BY <2>2, <2>3, <2>4, <2>5
<1>5. CASE PackStep
  <2>1. flash' = flash
    BY <1>5 DEF PackStep, Pack, PackStart, PackForCycle, PackCopied, PackFinalCheck, PackErase,
           PackErase1a, PackErase1b, PackErase2a, PackErase2b, PackAfterErase, PackStop
  <2>2. CASE PackStart \/ PackCopied \/ PackAfterErase \/ PackStop
    BY <1>g, <2>1, <2>2 DEF PackStart, PackCopied, PackAfterErase, PackStop
  <2>3. CASE PackForCycle
    <3> DEFINE a == pack.addr
               found == DataEERead(a)
               next == GetNextPage(GetActiveCurrentPage)
               fits == found = Blank \/ GetIndexOfEmptyDataElement(next) # NoElement
    <3>1. \/ nvm' = <<>>
          \/ found # Blank /\ ~fits /\ nvm' = Dee_CloseCurrentPage(next, next)
          \/ found # Blank /\ fits /\ nvm' = WriteElement(next, a, found)
      BY <2>3 DEF PackForCycle
    <3>2. found # Blank => found \in Val /\ next \in Pages
      BY ReadType, <1>d, <1>e DEF TypeInv
    <3>3. a \in Addr
      BY <2>3, SizeAssumption DEF PackForCycle, Addr, TypeInv, TypeOK
    <3>4. CASE nvm' = <<>>
      BY <1>f, <2>1, <3>4, FitWithoutAppend
    <3>5. CASE found # Blank /\ ~fits /\ nvm' = Dee_CloseCurrentPage(next, next)
      BY <2>1, <3>2, <3>5, OpsTyped, NoAppends, FitWithoutAppend
    <3>6. CASE found # Blank /\ fits /\ nvm' = WriteElement(next, a, found)
      <4>1. next \in Pages /\ found \in Val /\ next # NoPage
        BY <1>d, <3>2, <3>6
      <4>2. Len(flash[next].element) < ELEMENTS
        <5>1. Len(flash[next].element) # ELEMENTS
          BY <3>6, <4>1 DEF GetIndexOfEmptyDataElement
        <5> QED
          BY <1>a, <4>1, <5>1 DEF FitInv
      <4> HIDE DEF next, found, a
      <4>3. nvm' = Storing(<<>>, next, a, found, <<>>)
        <5>1. WriteElement(next, a, found) \in Seq(OpType)
          BY <3>3, <4>1, OpsTyped
        <5> QED
          BY <3>6, <5>1, ConcatEmptySeq DEF Storing
      <4>4. nvm' \in Seq(OpType) /\ AppendsOne(nvm', next)
        BY <1>f, <3>3, <3>6, <4>1, <4>3, OneAppend
      <4> QED
        BY <2>1, <4>1, <4>2, <4>4, FitWithAppend
    <3> QED
      BY <3>1, <3>4, <3>5, <3>6
  <2>4. CASE PackFinalCheck
    <3>1. pack.next \in Pages
      BY <2>4 DEF PackFinalCheck, Pack, TypeInv
    <3>2. nvm' = << Status("activate", pack.next) >> \/ nvm' = << Status("close", pack.next) >>
      BY <2>4 DEF PackFinalCheck
    <3>3. nvm' \in Seq(OpType) /\ \A k \in 1 .. Len(nvm') : nvm'[k].op # "addr"
      <4>1. nvm' \in Seq(OpType)
        BY <3>1, <3>2, OpsTyped
      <4>2. Len(nvm') = 1 /\ nvm'[1].op # "addr"
        BY <3>2 DEF Status, Op
      <4> QED
        BY <4>1, <4>2
    <3> QED
      BY <2>1, <3>3, FitWithoutAppend
  <2>5. ASSUME NEW from, NEW to, NEW p \in Pages, NEW after \in Seq(OpType),
               \A k \in 1 .. Len(after) : after[k].op # "addr", PackErase(from, to, p, after)
        PROVE  FitInv'
    <3> DEFINE e == ErasePage(p)
    <3>1. e \in Seq(OpType) /\ \A k \in 1 .. Len(e) : e[k].op # "addr"
      BY OpsTyped, NoAppends
    <3>2. nvm' = e \o after
      BY <2>5 DEF PackErase
    <3> HIDE DEF e
    <3>3. /\ nvm' \in Seq(OpType) /\ Len(nvm') = Len(e) + Len(after)
          /\ \A k \in 1 .. Len(e) + Len(after) : nvm'[k] = IF k <= Len(e) THEN e[k] ELSE after[k - Len(e)]
      BY <3>1, <3>2, ConcatProperties
    <3>4. Len(e) \in Nat /\ Len(after) \in Nat
      BY <3>1
    <3>5. \A k \in 1 .. Len(nvm') : nvm'[k].op # "addr"
      <4> TAKE k \in 1 .. Len(nvm')
      <4>1. CASE k <= Len(e)
        BY <3>1, <3>3, <3>4, <4>1
      <4>2. CASE ~(k <= Len(e))
        <5>1. nvm'[k] = after[k - Len(e)] /\ k - Len(e) \in 1 .. Len(after)
          BY <3>3, <3>4, <4>2
        <5> QED
          BY <2>5, <5>1
      <4> QED
        BY <4>1, <4>2
    <3> QED
      BY <2>1, <3>3, <3>5, FitWithoutAppend
  <2>6. CASE PackErase1a \/ PackErase1b \/ PackErase2a
    <3>1. pack.current \in Pages
      BY <2>6 DEF PackErase1a, PackErase1b, PackErase2a, PackErase, Pack, TypeInv
    <3>2. GetPreviousPage(pack.current) \in Pages
      BY <1>d, <3>1
    <3>3. \E from, to : \E p \in Pages : PackErase(from, to, p, <<>>)
      BY <2>6, <3>1, <3>2 DEF PackErase1a, PackErase1b, PackErase2a
    <3> QED
      BY <1>f, <2>5, <3>3
  <2>7. CASE PackErase2b
    <3>1. pack.current \in Pages /\ pack.next \in Pages
      BY <2>7 DEF PackErase2b, PackErase, Pack, TypeInv
    <3> DEFINE after == << Status("activate", GetNextPage(pack.next)) >>
    <3>2. after \in Seq(OpType)
      BY <3>1, <1>d, OpsTyped
    <3>3. \A k \in 1 .. Len(after) : after[k].op # "addr"
      BY DEF Status, Op
    <3> QED
      BY <1>d, <2>5, <2>7, <3>1, <3>2, <3>3 DEF PackErase2b
  <2> QED
    BY <1>5, <2>2, <2>3, <2>4, <2>6, <2>7 DEF PackStep
<1>6. CASE BufferOnly
  BY <1>6, <1>g DEF BufferOnly
<1> QED
  BY <1>1, <1>2, <1>3, <1>4, <1>5, <1>6, Steps DEF TypeInv

-----------------------------------------------------------------------------
(* The flash operations of a function, one after the other.                *)

\* Head and tail of a concatenation are those of its first part.
LEMMA ConcatHeadTail ==
    ASSUME NEW S, NEW s \in Seq(S), s # <<>>, NEW t \in Seq(S)
    PROVE  s \o t # <<>> /\ Head(s \o t) = Head(s) /\ Tail(s \o t) = Tail(s) \o t
<1> DEFINE u == s \o t
<1>1. /\ u \in Seq(S) /\ Len(u) = Len(s) + Len(t)
      /\ \A i \in 1 .. Len(s) + Len(t) : u[i] = IF i <= Len(s) THEN s[i] ELSE t[i - Len(s)]
  BY ConcatProperties
<1>2. Len(s) \in Nat /\ Len(t) \in Nat /\ Len(s) >= 1
  OBVIOUS
<1>3. /\ Head(s) = s[1] /\ Tail(s) \in Seq(S) /\ Len(Tail(s)) = Len(s) - 1
      /\ \A i \in 1 .. Len(s) - 1 : Tail(s)[i] = s[i + 1]
  BY HeadTailProperties
<1> HIDE DEF u
<1>4. u # <<>> /\ Len(u) >= 1
  BY <1>1, <1>2
<1>5. /\ Head(u) = u[1] /\ Tail(u) \in Seq(S) /\ Len(Tail(u)) = Len(u) - 1
      /\ \A i \in 1 .. Len(u) - 1 : Tail(u)[i] = u[i + 1]
  BY <1>1, <1>4, HeadTailProperties
<1>6. Head(u) = Head(s)
  BY <1>1, <1>2, <1>3, <1>5
<1> DEFINE w == Tail(s) \o t
<1>7. /\ w \in Seq(S) /\ Len(w) = Len(s) - 1 + Len(t)
      /\ \A i \in 1 .. Len(s) - 1 + Len(t) :
            w[i] = IF i <= Len(s) - 1 THEN Tail(s)[i] ELSE t[i - (Len(s) - 1)]
  BY <1>2, <1>3, ConcatProperties
<1> HIDE DEF w
<1>8. \A i \in 1 .. Len(w) : Tail(u)[i] = w[i]
  <2> TAKE i \in 1 .. Len(w)
  <2>1. Tail(u)[i] = u[i + 1] /\ i + 1 \in 1 .. Len(s) + Len(t)
    BY <1>1, <1>2, <1>5, <1>7
  <2>2. CASE i <= Len(s) - 1
    BY <1>1, <1>2, <1>3, <1>7, <2>1, <2>2
  <2>3. CASE ~(i <= Len(s) - 1)
    <3>1. u[i + 1] = t[i + 1 - Len(s)] /\ w[i] = t[i - (Len(s) - 1)]
      BY <1>1, <1>2, <1>7, <2>1, <2>3
    <3>2. i + 1 - Len(s) = i - (Len(s) - 1)
      BY <1>2
    <3> QED
      BY <2>1, <3>1, <3>2
  <2> QED
    BY <2>2, <2>3
<1>9. Len(Tail(u)) = Len(w)
  BY <1>1, <1>2, <1>5, <1>7
<1>10. Tail(u) = w
  BY <1>5, <1>7, <1>8, <1>9, SeqEqual
<1> QED
  BY <1>4, <1>6, <1>10 DEF u, w

SameStatus ==
    \A r \in Pages : /\ flash'[r].active = flash[r].active /\ flash'[r].current = flash[r].current
                     /\ flash'[r].counted = flash[r].counted

SameBut(p) == \A r \in Pages \ {p} : flash'[r] = flash[r]

SameElements == \A r \in Pages : flash'[r].element = flash[r].element

\* A word of an element changes the elements of one page, and no status.
LEMMA WordEffect ==
    ASSUME TypeInv, FlashOperation, Head(nvm).op \in {"addr", "data", "crc"}, NEW p, p = Head(nvm).page
    PROVE  /\ SameStatus /\ SameBut(p)
           /\ Len(flash'[p].element) = Len(flash[p].element) + Appending
<1> DEFINE o == Head(nvm)
<1>1. /\ o \in OpType /\ p \in Pages /\ flash'[p] = Done(flash[p], o) /\ flash[p] \in Page
      /\ \A r \in Pages \ {p} : flash'[r] = flash[r]
  BY OpEffect DEF TypeInv, TypeOK
<1>2. nvm # <<>> /\ o.op \in {"addr", "data", "crc"}
  BY DEF FlashOperation
<1> HIDE DEF o
<1>3. LET new == flash'[p] old == flash[p]
      IN  /\ new.active = old.active /\ new.current = old.current /\ new.counted = old.counted
          /\ Len(new.element) = Len(old.element) + (IF o.op = "addr" THEN 1 ELSE 0)
  <2>1. LET new == Done(flash[p], o) old == flash[p]
        IN  /\ new.active = old.active /\ new.current = old.current /\ new.counted = old.counted
            /\ Len(new.element) = Len(old.element) + (IF o.op = "addr" THEN 1 ELSE 0)
    BY <1>1, <1>2, WriteType
  <2> QED
    BY <1>1, <2>1
<1>4. Appending = IF o.op = "addr" THEN 1 ELSE 0
  BY <1>2 DEF Appending, o
<1> QED
  BY <1>1, <1>3, <1>4 DEF SameStatus, SameBut

\* What each status word and each half of an erasure does to its page.
LEMMA StatusEffect ==
    ASSUME TypeInv, FlashOperation, NEW op, NEW p \in Pages, Head(nvm) = Status(op, p)
    PROVE  /\ SameBut(p)
           /\ op = "activate" => /\ flash'[p].active /\ flash'[p].current = flash[p].current
                                 /\ flash'[p].counted = flash[p].counted
                                 /\ flash'[p].element = flash[p].element
           /\ op = "close"    => /\ flash'[p].active /\ ~flash'[p].current
                                 /\ flash'[p].counted = flash[p].counted
                                 /\ flash'[p].element = flash[p].element
           /\ op = "count"    => /\ flash'[p].counted
                                 /\ Available(p) => Available(p)'
                                 /\ flash'[p].element = flash[p].element
           /\ op = "erase_first"  => /\ Available(p)'
                                     /\ flash[p].element = <<>> => flash'[p].element = <<>>
           /\ op = "erase_second" => /\ Available(p) => Available(p)'
                                     /\ flash'[p].element = <<>>
<1> DEFINE o == Head(nvm)
<1>1. o.op = op /\ o.page = p
  BY DEF Status, Op
<1>2. /\ flash'[p] = Done(flash[p], o) /\ flash[p] \in Page
      /\ \A r \in Pages \ {p} : flash'[r] = flash[r]
  BY <1>1, OpEffect DEF TypeInv, TypeOK
<1> HIDE DEF o
<1>3. SameBut(p)
  BY <1>2 DEF SameBut
<1>4. CASE op \in {"activate", "close", "count"}
  BY <1>1, <1>2, <1>3, <1>4, StatusType DEF Available
<1>5. CASE op \in {"erase_first", "erase_second"}
  BY <1>1, <1>2, <1>3, <1>5, EraseType DEF Available
<1> QED
  BY <1>3, <1>4, <1>5

\* A word of an element leaves the element to be finished, or what follows it.
LEMMA WritingStep ==
    ASSUME TypeInv, FlashOperation, NEW p \in Pages, NEW rest \in Seq(OpType), Writing(p, rest)
    PROVE  /\ SameStatus /\ SameBut(p)
           /\ Len(flash'[p].element) = Len(flash[p].element) + Appending
           /\ nvm' = rest \/ (Writing(p, rest)' /\ Appending' = 0)
<1>1. PICK a \in Addr, v \in Val :
          \/ nvm = << Op("addr", p, a), Op("data", p, v), Op("crc", p, v) >> \o rest
          \/ nvm = << Op("data", p, v), Op("crc", p, v) >> \o rest
          \/ nvm = << Op("crc", p, v) >> \o rest
  BY DEF Writing
<1> DEFINE A == Op("addr", p, a)
           D == Op("data", p, v)
           C == Op("crc", p, v)
<1>2. /\ A \in OpType /\ D \in OpType /\ C \in OpType
      /\ A.page = p /\ D.page = p /\ C.page = p /\ A.op = "addr" /\ D.op = "data" /\ C.op = "crc"
  BY DEF OpType, Op
<1>3. nvm' = Tail(nvm)
  BY DEF FlashOperation
<1>4. nvm = <<A, D, C>> \o rest \/ nvm = <<D, C>> \o rest \/ nvm = <<C>> \o rest
  BY <1>1
<1>w. nvm' = <<D, C>> \o rest \/ nvm' = <<C>> \o rest => Writing(p, rest)'
  BY DEF Writing
<1> HIDE DEF A, D, C
<1>5. CASE nvm = <<A, D, C>> \o rest
  <2>1. <<A, D, C>> \in Seq(OpType) /\ <<A, D, C>> # <<>> /\ <<D, C>> \in Seq(OpType) /\ <<D, C>> # <<>>
    BY <1>2
  <2>2. Head(<<A, D, C>>) = A /\ Tail(<<A, D, C>>) = <<D, C>> /\ Head(<<D, C>>) = D
    OBVIOUS
  <2>3. Head(nvm) = A /\ nvm' = <<D, C>> \o rest
    BY <1>3, <1>5, <2>1, <2>2, ConcatHeadTail
  <2>4. Head(nvm') = D
    BY <2>1, <2>2, <2>3, ConcatHeadTail
  <2> QED
    BY <1>2, <1>w, <2>3, <2>4, WordEffect DEF Appending
<1>6. CASE nvm = <<D, C>> \o rest
  <2>1. <<D, C>> \in Seq(OpType) /\ <<D, C>> # <<>> /\ <<C>> \in Seq(OpType) /\ <<C>> # <<>>
    BY <1>2
  <2>2. Head(<<D, C>>) = D /\ Tail(<<D, C>>) = <<C>> /\ Head(<<C>>) = C
    OBVIOUS
  <2>3. Head(nvm) = D /\ nvm' = <<C>> \o rest
    BY <1>3, <1>6, <2>1, <2>2, ConcatHeadTail
  <2>4. Head(nvm') = C
    BY <2>1, <2>2, <2>3, ConcatHeadTail
  <2> QED
    BY <1>2, <1>w, <2>3, <2>4, WordEffect DEF Appending
<1>7. CASE nvm = <<C>> \o rest
  <2>1. <<C>> \in Seq(OpType) /\ <<C>> # <<>>
    BY <1>2
  <2>2. Head(<<C>>) = C /\ Tail(<<C>>) = <<>>
    OBVIOUS
  <2>3. Head(nvm) = C /\ nvm' = <<>> \o rest
    BY <1>3, <1>7, <2>1, <2>2, ConcatHeadTail
  <2>4. <<>> \o rest = rest
    BY ConcatEmptySeq
  <2> QED
    BY <1>2, <2>3, <2>4, WordEffect
<1> QED
  BY <1>4, <1>5, <1>6, <1>7

\* The first half of an erasure.
LEMMA EraseStarts ==
    ASSUME TypeInv, FlashOperation, NEW p \in Pages, NEW rest \in Seq(OpType),
           nvm = EraseOps(p) \o rest
    PROVE  SameBut(p) /\ Erased(p, rest)'
<1> DEFINE F == Status("erase_first", p)
           E == Status("erase_second", p)
           C == Status("count", p)
<1>1. F \in OpType /\ E \in OpType /\ C \in OpType
  BY OpsTyped DEF StatusOps
<1>2. EraseOps(p) = <<F, E, C>>
  BY DEF EraseOps
<1> HIDE DEF F, E, C
<1>3. <<F, E, C>> \in Seq(OpType) /\ <<F, E, C>> # <<>> /\ Head(<<F, E, C>>) = F /\ Tail(<<F, E, C>>) = <<E, C>>
  BY <1>1
<1>4. Head(nvm) = F /\ nvm' = <<E, C>> \o rest
  BY <1>2, <1>3, ConcatHeadTail DEF FlashOperation
<1>5. SameBut(p) /\ Available(p)'
  BY <1>4, StatusEffect DEF F
<1> QED
  BY <1>4, <1>5 DEF Erased, E, C

\* The erasure goes on, or the page is blank.
LEMMA ErasedStep ==
    ASSUME TypeInv, FlashOperation, NEW p \in Pages, NEW rest \in Seq(OpType), Erased(p, rest)
    PROVE  /\ SameBut(p)
           /\ Erased(p, rest)' \/ (BlankPage(p)' /\ flash'[p].counted /\ nvm' = rest)
<1> DEFINE E == Status("erase_second", p)
           C == Status("count", p)
<1>1. E \in OpType /\ C \in OpType
  BY OpsTyped DEF StatusOps
<1>2. \/ Available(p) /\ nvm = <<E, C>> \o rest
      \/ BlankPage(p) /\ nvm = <<C>> \o rest
  BY DEF Erased
<1> HIDE DEF E, C
<1>3. CASE Available(p) /\ nvm = <<E, C>> \o rest
  <2>1. <<E, C>> \in Seq(OpType) /\ <<E, C>> # <<>> /\ Head(<<E, C>>) = E /\ Tail(<<E, C>>) = <<C>>
    BY <1>1
  <2>2. Head(nvm) = E /\ nvm' = <<C>> \o rest
    BY <1>3, <2>1, ConcatHeadTail DEF FlashOperation
  <2>3. SameBut(p) /\ Available(p)' /\ flash'[p].element = <<>>
    BY <1>3, <2>2, StatusEffect DEF E
  <2> QED
    BY <2>2, <2>3 DEF Erased, BlankPage, C
<1>4. CASE BlankPage(p) /\ nvm = <<C>> \o rest
  <2>1. <<C>> \in Seq(OpType) /\ <<C>> # <<>> /\ Head(<<C>>) = C /\ Tail(<<C>>) = <<>>
    BY <1>1
  <2>2. Head(nvm) = C /\ nvm' = <<>> \o rest
    BY <1>4, <2>1, ConcatHeadTail DEF FlashOperation
  <2>3. nvm' = rest
    BY <2>2, ConcatEmptySeq
  <2>4. SameBut(p) /\ Available(p)' /\ flash'[p].element = <<>> /\ flash'[p].counted
    BY <1>4, <2>2, StatusEffect DEF C, BlankPage
  <2> QED
    BY <2>3, <2>4 DEF BlankPage
<1> QED
  BY <1>2, <1>3, <1>4

-----------------------------------------------------------------------------
(* The third part, under the flash operations.                             *)

\* A flash operation leaves the pack, the counters and wounded as they are.
LEMMA FlashFrame ==
    ASSUME FlashOperation
    PROVE  /\ nvm # <<>>
           /\ triggered' = triggered /\ running' = running /\ pack' = pack
           /\ resets' = resets /\ wounded' = wounded
           /\ Resting' = Resting /\ \A c \in Pages : Packing(c)' = Packing(c)
  BY DEF FlashOperation, ram, Resting, Packing

\* The types of the numbers the shapes speak of.
LEMMA LenType ==
    ASSUME TypeInv
    PROVE  /\ \A p \in Pages : Len(flash[p].element) \in Nat /\ flash[p].element \in Seq(Element)
           /\ Appending \in {0, 1} /\ nvm \in Seq(OpType)
           /\ resets \in 0 .. MaxResets
  BY DEF TypeInv, TypeOK, Page, Appending

\* What may follow an element in nvm is a list of operations.
LEMMA NoFollowers ==
    <<>> \in Seq(OpType) /\ \A c, q \in Pages : Dee_CloseCurrentPage(c, q) \in Seq(OpType)
  BY OpsTyped

\* Words appended change no status, so that the pages in use stay in use.
LEMMA OneKept ==
    ASSUME NEW c \in Pages, One(c), SameStatus, SameBut(c)
    PROVE  One(c)'
<1> DEFINE q == GetNextPage(c)
           b == GetPreviousPage(c)
<1>1. q \in Pages /\ b \in Pages /\ q # c /\ b # c
  BY PagesAround DEF Ring
<1> QED
  BY <1>1 DEF One, Found, AllCounted, BlankPage, Available, SameStatus, SameBut

\* An element written to one of two pages in use keeps the bounds on both.
LEMMA TwoKept ==
    ASSUME TypeInv, TypeInv', FitInv, FitInv', NEW c \in Pages, Two(c), SameStatus,
           NEW p \in {c, GetNextPage(c)}, SameBut(p),
           Len(flash'[p].element) = Len(flash[p].element) + Appending
    PROVE  Two(c)'
<1> DEFINE q == GetNextPage(c)
           b == GetPreviousPage(c)
<1>1. q \in Pages /\ b \in Pages /\ q # c /\ b # c /\ b # q /\ p \in Pages /\ p # b
  BY PagesAround DEF Ring
<1>2. Found(c)' /\ AllCounted'
  BY DEF Two, Found, AllCounted, SameStatus
<1>3. ClosedIsFull'
  <2> SUFFICES ASSUME NEW r \in Pages, flash'[r].active, ~flash'[r].current
               PROVE  Len(flash'[r].element) = ELEMENTS
    BY DEF ClosedIsFull
  <2>1. Len(flash[r].element) = ELEMENTS
    BY DEF Two, ClosedIsFull, SameStatus
  <2>2. CASE r = p
    <3>1. /\ Len(flash'[p].element) = Len(flash[p].element) + Appending /\ Appending \in {0, 1}
          /\ Len(flash'[p].element) <= ELEMENTS /\ Len(flash[p].element) = ELEMENTS
          /\ Len(flash[p].element) \in Nat
      BY <1>1, <2>1, <2>2, LenType DEF FitInv
    <3> QED
      BY <2>2, <3>1
  <2>3. CASE r # p
    BY <2>1, <2>3 DEF SameBut
  <2> QED
    BY <2>2, <2>3
<1>4. \/ flash'[b].active /\ Available(q)'
      \/ flash'[q].active /\ BlankPage(b)'
  BY <1>1 DEF Two, Available, BlankPage, SameStatus, SameBut
<1> QED
  BY <1>2, <1>3, <1>4 DEF Two

\* An element written to the only page in use.
LEMMA FillingStep ==
    ASSUME TypeInv, FlashOperation, NEW c \in Pages, Filling(c)
    PROVE  Filling(c)'
<1>1. Writing(c, <<>>)
  BY FlashFrame DEF Filling
<1>2. /\ SameStatus /\ SameBut(c)
      /\ Len(flash'[c].element) = Len(flash[c].element) + Appending
      /\ nvm' = <<>> \/ (Writing(c, <<>>)' /\ Appending' = 0)
  BY <1>1, NoFollowers, WritingStep
<1>3. One(c)' /\ Resting' /\ ~triggered' /\ resets' = resets
  BY <1>2, OneKept, FlashFrame DEF Filling
<1>4. Appending' = 0
  BY <1>2 DEF Appending
<1>5. Len(flash'[c].element) + Appending' = Len(flash[c].element) + Appending
  BY <1>2, <1>4, LenType
<1> QED
  BY <1>2, <1>3, <1>5 DEF Filling

\* The last word of a page, and the page closed behind it.
LEMMA LastWordStep ==
    ASSUME TypeInv, FlashOperation, NEW c \in Pages, LastWrite(c),
           Writing(c, Dee_CloseCurrentPage(c, GetNextPage(c)))
    PROVE  LastWrite(c)'
<1> DEFINE q == GetNextPage(c)
           rest == Dee_CloseCurrentPage(c, q)
<1>1. q \in Pages
  BY PagesAround DEF Ring
<1>2. rest \in Seq(OpType) /\ rest = << Status("close", c), Status("activate", q) >>
  BY <1>1, NoFollowers DEF Dee_CloseCurrentPage
<1>3. One(c) /\ Resting' /\ ~triggered' /\ resets' = resets
      /\ Len(flash[c].element) + Appending = ELEMENTS
  BY FlashFrame DEF LastWrite
<1>4. /\ SameStatus /\ SameBut(c)
      /\ Len(flash'[c].element) = Len(flash[c].element) + Appending
      /\ nvm' = rest \/ (Writing(c, rest)' /\ Appending' = 0)
  BY <1>2, WritingStep
<1>5. One(c)'
  BY <1>3, <1>4, OneKept
<1>6. Appending' = 0
  <2>1. nvm' = rest => Head(nvm') = Status("close", c)
    BY <1>2
  <2> QED
    BY <1>4, <2>1 DEF Appending, Status, Op
<1>7. Len(flash'[c].element) + Appending' = ELEMENTS
  BY <1>3, <1>4, <1>6, LenType
<1> QED
  BY <1>3, <1>4, <1>5, <1>7 DEF LastWrite

\* The page is closed behind its last element.
LEMMA LastCloseStep ==
    ASSUME TypeInv, FlashOperation, NEW c \in Pages, LastWrite(c),
           nvm = Dee_CloseCurrentPage(c, GetNextPage(c))
    PROVE  Closed(c)' /\ SameElements /\ nvm' = << Status("activate", GetNextPage(c)) >>
<1> DEFINE q == GetNextPage(c)
           b == GetPreviousPage(c)
<1>1. q \in Pages /\ b \in Pages /\ q # c /\ b # c /\ b # q
  BY PagesAround DEF Ring
<1>2. One(c) /\ Resting' /\ ~triggered' /\ resets' = resets
      /\ Len(flash[c].element) + Appending = ELEMENTS
  BY FlashFrame DEF LastWrite
<1>3. Head(nvm) = Status("close", c) /\ nvm' = << Status("activate", q) >>
  BY DEF FlashOperation, Dee_CloseCurrentPage
<1>4. /\ SameBut(c) /\ flash'[c].active /\ ~flash'[c].current
      /\ flash'[c].counted = flash[c].counted /\ flash'[c].element = flash[c].element
  BY <1>3, StatusEffect
<1>5. Appending = 0
  BY <1>3 DEF Appending, Status, Op
<1>6. Len(flash'[c].element) = ELEMENTS
  BY <1>2, <1>4, <1>5, LenType
<1>7. AllCounted' /\ BlankPage(q)' /\ BlankPage(b)' /\ SameElements
  BY <1>1, <1>2, <1>4 DEF One, AllCounted, BlankPage, Available, SameBut, SameElements
<1> QED
  BY <1>2, <1>3, <1>4, <1>6, <1>7 DEF Closed

\* A page found full is closed before the element is written to the next one.
LEMMA LateCloseStep ==
    ASSUME TypeInv, FlashOperation, NEW c \in Pages, LateClose(c)
    PROVE  /\ Closed(c)' /\ SameElements
           /\ \A a \in Addr, v \in Val :
                 nvm = Dee_CloseCurrentPage(c, GetNextPage(c)) \o WriteElement(GetNextPage(c), a, v)
                 => nvm' = << Status("activate", GetNextPage(c)) >> \o WriteElement(GetNextPage(c), a, v)
<1> DEFINE q == GetNextPage(c)
           b == GetPreviousPage(c)
<1>1. q \in Pages /\ b \in Pages /\ q # c /\ b # c /\ b # q
  BY PagesAround DEF Ring
<1>2. \E a \in Addr, v \in Val : nvm = Dee_CloseCurrentPage(c, q) \o WriteElement(q, a, v)
  BY DEF LateClose
<1> DEFINE K == Status("close", c)
           A == Status("activate", q)
<1>3. K \in OpType /\ A \in OpType /\ Dee_CloseCurrentPage(c, q) = <<K, A>>
      /\ \A a \in Addr, v \in Val : WriteElement(q, a, v) \in Seq(OpType)
  BY <1>1, OpsTyped DEF Dee_CloseCurrentPage, StatusOps
<1> HIDE DEF K, A
<1>4. <<K, A>> \in Seq(OpType) /\ <<K, A>> # <<>> /\ Head(<<K, A>>) = K /\ Tail(<<K, A>>) = <<A>>
  BY <1>3
<1>5. \A a \in Addr, v \in Val :
          nvm = Dee_CloseCurrentPage(c, q) \o WriteElement(q, a, v)
          => Head(nvm) = K /\ nvm' = <<A>> \o WriteElement(q, a, v)
  BY <1>3, <1>4, ConcatHeadTail DEF FlashOperation
<1>6. /\ SameBut(c) /\ flash'[c].active /\ ~flash'[c].current
      /\ flash'[c].counted = flash[c].counted /\ flash'[c].element = flash[c].element
  BY <1>2, <1>5, StatusEffect DEF K
<1>7. AllCounted' /\ BlankPage(q)' /\ BlankPage(b)' /\ SameElements
  BY <1>1, <1>6 DEF LateClose, One, AllCounted, BlankPage, Available, SameBut, SameElements
<1>8. Resting' /\ ~triggered' /\ resets' > 0 /\ Len(flash'[c].element) = ELEMENTS
  BY <1>6, FlashFrame DEF LateClose
<1>9. Closed(c)'
  BY <1>2, <1>5, <1>6, <1>7, <1>8 DEF Closed, A
<1> QED
  BY <1>5, <1>7, <1>9 DEF A

\* The next page is activated.
LEMMA ClosedStep ==
    ASSUME TypeInv, FlashOperation, NEW c \in Pages, Closed(c)
    PROVE  /\ Using(GetNextPage(c))' /\ SameElements
           /\ nvm = << Status("activate", GetNextPage(c)) >> => nvm' = <<>>
           /\ \A a \in Addr, v \in Val :
                 nvm = << Status("activate", GetNextPage(c)) >> \o WriteElement(GetNextPage(c), a, v)
                 => nvm' = WriteElement(GetNextPage(c), a, v)
<1> DEFINE q == GetNextPage(c)
           b == GetPreviousPage(c)
           A == Status("activate", q)
<1>1. /\ q \in Pages /\ b \in Pages /\ q # c /\ b # c /\ b # q /\ Pages = {c, q, b}
      /\ GetNextPage(q) = b /\ GetPreviousPage(q) = c
  BY PagesAround DEF Ring
<1>2. nvm = <<A>> => Head(nvm) = A /\ nvm' = <<>>
  BY DEF FlashOperation
<1>9. \A a \in Addr, v \in Val : nvm = <<A>> \o WriteElement(q, a, v)
          => Head(nvm) = A /\ nvm' = WriteElement(q, a, v) /\ Writing(q, <<>>)'
  <2> SUFFICES ASSUME NEW a \in Addr, NEW v \in Val, nvm = <<A>> \o WriteElement(q, a, v)
               PROVE  Head(nvm) = A /\ nvm' = WriteElement(q, a, v) /\ Writing(q, <<>>)'
    OBVIOUS
  <2> DEFINE w == WriteElement(q, a, v)
  <2>1. w \in Seq(OpType) /\ A \in OpType
    BY <1>1, OpsTyped DEF StatusOps
  <2>2. w = << Op("addr", q, a), Op("data", q, v), Op("crc", q, v) >>
    BY DEF WriteElement
  <2> HIDE DEF w, A
  <2>3. <<A>> \in Seq(OpType) /\ <<A>> # <<>> /\ Head(<<A>>) = A /\ Tail(<<A>>) = <<>>
    BY <2>1
  <2>4. Head(nvm) = A /\ nvm' = <<>> \o w
    BY <2>1, <2>3, ConcatHeadTail DEF w, FlashOperation
  <2>5. w \o <<>> = w /\ <<>> \o w = w
    BY <2>1, ConcatEmptySeq
  <2>6. nvm' = << Op("addr", q, a), Op("data", q, v), Op("crc", q, v) >> \o <<>>
    BY <2>2, <2>4, <2>5
  <2>7. Writing(q, <<>>)'
    BY <2>6 DEF Writing
  <2> QED
    BY <2>4, <2>5, <2>7 DEF w
<1>10. Head(nvm) = A /\ (nvm' = <<>> \/ (resets > 0 /\ Writing(q, <<>>)'))
  BY <1>2, <1>9 DEF Closed
<1>3. /\ SameBut(q) /\ flash'[q].active /\ flash'[q].current = flash[q].current
      /\ flash'[q].counted = flash[q].counted /\ flash'[q].element = flash[q].element
  BY <1>1, <1>10, StatusEffect
<1>4. flash'[c] = flash[c] /\ flash'[b] = flash[b]
  BY <1>1, <1>3 DEF SameBut
<1>5. /\ flash[c].active /\ ~flash[c].current /\ Len(flash[c].element) = ELEMENTS
      /\ ~flash[b].active /\ flash[b].current /\ ~flash[q].active /\ flash[q].current
      /\ flash[q].element = <<>> /\ AllCounted
  BY DEF Closed, BlankPage, Available
<1>6. Two(q)'
  <2>1. Found(q)'
    <3>1. q <= q
      BY <1>1 DEF Pages, DEE_PAGE_CNT
    <3> QED
      BY <1>1, <1>3, <1>4, <1>5, <3>1 DEF Found
  <2>2. AllCounted' /\ ClosedIsFull'
    BY <1>1, <1>3, <1>4, <1>5 DEF AllCounted, ClosedIsFull
  <2>3. flash'[c].active /\ Available(b)'
    BY <1>4, <1>5 DEF Available
  <2> QED
    BY <1>1, <2>1, <2>2, <2>3 DEF Two
<1>8. Resting'
  BY FlashFrame DEF Closed
<1>11. Using(q)' /\ SameElements
  BY <1>1, <1>3, <1>4, <1>6, <1>8, <1>10 DEF Using, SameElements
<1> QED
  BY <1>2, <1>9, <1>11

\* An element written while two pages are in use.
LEMMA UsingStep ==
    ASSUME TypeInv, TypeInv', FitInv, FitInv', FlashOperation, NEW c \in Pages, Using(c)
    PROVE  Using(c)'
<1>1. Writing(c, <<>>)
  BY FlashFrame DEF Using
<1>2. /\ SameStatus /\ SameBut(c)
      /\ Len(flash'[c].element) = Len(flash[c].element) + Appending
      /\ nvm' = <<>> \/ (Writing(c, <<>>)' /\ Appending' = 0)
  BY <1>1, NoFollowers, WritingStep
<1>3. Two(c)'
  BY <1>2, TwoKept DEF Using
<1>4. Resting'
  BY FlashFrame DEF Using
<1> QED
  BY <1>2, <1>3, <1>4 DEF Using

\* The third page is erased at start-up.
LEMMA BootEraseStep ==
    ASSUME TypeInv, FlashOperation, NEW c \in Pages, BootErase(c)
    PROVE  /\ SameBut(GetNextPage(c))
           /\ \/ BootErase(c)'
              \/ Using(c)' /\ nvm' = <<>> /\ flash'[GetNextPage(c)].element = <<>>
<1> DEFINE q == GetNextPage(c)
           b == GetPreviousPage(c)
<1>1. /\ q \in Pages /\ b \in Pages /\ q # c /\ b # c /\ b # q /\ Pages = {c, q, b}
  BY PagesAround DEF Ring
<1>2. SameBut(q) /\ (Erased(q, <<>>)' \/ (BlankPage(q)' /\ flash'[q].counted /\ nvm' = <<>>))
  <2>1. CASE nvm = EraseOps(q)
    <3>1. EraseOps(q) \in Seq(OpType)
      BY <1>1, OpsTyped DEF EraseOps, StatusOps
    <3>2. nvm = EraseOps(q) \o <<>>
      BY <2>1, <3>1, ConcatEmptySeq
    <3> QED
      BY <1>1, <3>2, NoFollowers, EraseStarts
  <2>2. CASE Erased(q, <<>>)
    BY <1>1, <2>2, NoFollowers, ErasedStep
  <2> QED
    BY <2>1, <2>2 DEF BootErase
<1>3. flash'[c] = flash[c] /\ flash'[b] = flash[b] /\ ~flash'[q].active /\ flash'[q].current
  BY <1>1, <1>2 DEF SameBut, Erased, BlankPage, Available
<1>4. Found(c)' /\ ClosedIsFull' /\ flash'[b].active
  BY <1>1, <1>3 DEF BootErase, Found, ClosedIsFull
<1>5. flash'[c].counted /\ flash'[b].counted
  BY <1>1, <1>3 DEF BootErase
<1>7. Resting'
  BY FlashFrame DEF BootErase
<1>8. CASE Erased(q, <<>>)'
  BY <1>1, <1>2, <1>4, <1>5, <1>7, <1>8 DEF BootErase
<1>9. CASE BlankPage(q)' /\ flash'[q].counted /\ nvm' = <<>>
  <2>1. Two(c)'
    BY <1>1, <1>4, <1>5, <1>9 DEF Two, AllCounted, BlankPage
  <2> QED
    BY <1>2, <1>7, <1>9, <2>1 DEF Using, BlankPage
<1> QED
  BY <1>2, <1>8, <1>9

\* An element copied by the pack.
LEMMA CopyingStep ==
    ASSUME TypeInv, TypeInv', FitInv, FitInv', FlashOperation, NEW c \in Pages, Copying(c)
    PROVE  Copying(c)'
<1> DEFINE q == GetNextPage(c)
<1>1. q \in Pages /\ q # c
  BY PagesAround DEF Ring
<1>2. Writing(q, <<>>) /\ pack.state = "ForCycle"
  BY FlashFrame DEF Copying
<1>3. /\ SameStatus /\ SameBut(q)
      /\ Len(flash'[q].element) = Len(flash[q].element) + Appending
      /\ nvm' = <<>> \/ Writing(q, <<>>)'
  BY <1>1, <1>2, NoFollowers, WritingStep
<1>4. Two(c)'
  BY <1>3, TwoKept DEF Copying
<1>5. Packing(c)' /\ pack' = pack
  BY FlashFrame DEF Copying
<1> QED
  BY <1>2, <1>3, <1>4, <1>5 DEF Copying

\* The copy is activated.
LEMMA ActivatingStep ==
    ASSUME TypeInv, FlashOperation, NEW c \in Pages, Activating(c)
    PROVE  BothInUse(c)' /\ SameElements /\ nvm' = <<>>
<1> DEFINE q == GetNextPage(c)
           b == GetPreviousPage(c)
<1>1. /\ q \in Pages /\ b \in Pages /\ q # c /\ b # c /\ b # q /\ Pages = {c, q, b}
      /\ \A p \in Pages : p \in Nat
  BY PagesAround DEF Ring, Pages, DEE_PAGE_CNT
<1>2. /\ Packing(c) /\ Two(c)
      /\ \/ /\ pack.state = "Erase_1a" /\ nvm = << Status("activate", q) >>
            /\ Len(flash[q].element) # ELEMENTS
         \/ /\ pack.state = "Erase_2a" /\ nvm = << Status("close", q) >>
            /\ Len(flash[q].element) = ELEMENTS
  BY DEF Activating
<1>3. /\ SameBut(q) /\ nvm' = <<>>
      /\ flash'[q].active /\ flash'[q].counted = flash[q].counted /\ flash'[q].element = flash[q].element
      /\ pack.state = "Erase_1a" => flash'[q].current = flash[q].current
      /\ pack.state = "Erase_2a" => ~flash'[q].current
  <2>1. CASE pack.state = "Erase_1a" /\ nvm = << Status("activate", q) >>
    <3>1. Head(nvm) = Status("activate", q) /\ nvm' = <<>>
      BY <2>1 DEF FlashOperation
    <3> QED
      BY <1>1, <2>1, <3>1, StatusEffect
  <2>2. CASE pack.state = "Erase_2a" /\ nvm = << Status("close", q) >>
    <3>1. Head(nvm) = Status("close", q) /\ nvm' = <<>>
      BY <2>2 DEF FlashOperation
    <3> QED
      BY <1>1, <2>2, <3>1, StatusEffect
  <2> QED
    BY <1>2, <2>1, <2>2
<1>4. flash'[c] = flash[c] /\ flash'[b] = flash[b] /\ pack' = pack /\ Packing(c)' /\ resets' = resets
  BY <1>1, <1>2, <1>3, FlashFrame DEF SameBut
<1>5. AllCounted' /\ flash'[c].active /\ flash'[c].current
  BY <1>1, <1>2, <1>3, <1>4 DEF Two, Found, AllCounted
<1>6. Copied(q)'
  <2>1. pack.state = "Erase_1a" => flash[q].current
    BY <1>1, <1>2 DEF Two, ClosedIsFull, Available
  <2> QED
    BY <1>1, <1>2, <1>3, <1>4, <1>5, <2>1 DEF Copied, AllCounted
<1>7. ClosedIsFull'
  <2> SUFFICES ASSUME NEW r \in Pages, flash'[r].active, ~flash'[r].current
               PROVE  Len(flash'[r].element) = ELEMENTS
    BY DEF ClosedIsFull
  <2>1. CASE r = q
    <3>1. pack.state # "Erase_1a"
      BY <1>6, <1>4, <2>1, <1>2 DEF Copied
    <3> QED
      BY <1>2, <1>3, <2>1, <3>1
  <2>2. CASE r # q
    BY <1>1, <1>2, <1>4, <1>5, <2>2 DEF Two, ClosedIsFull
  <2> QED
    BY <2>1, <2>2
<1>8. \/ flash'[b].active /\ (flash'[b].current => b < c)
      \/ BlankPage(b)' /\ (flash'[q].current => q < c)
  <2>1. CASE flash[b].active
    <3>1. flash[b].current => b <= c
      BY <1>1, <1>2, <2>1 DEF Two, Found
    <3> QED
      BY <1>1, <1>4, <2>1, <3>1
  <2>2. CASE ~flash[b].active
    <3>1. flash[q].active /\ BlankPage(b)
      BY <1>2, <2>2 DEF Two
    <3>2. flash[q].current => q <= c
      BY <1>1, <1>2, <3>1 DEF Two, Found
    <3>3. flash'[q].current => flash[q].current
      BY <1>2, <1>3
    <3> QED
      BY <1>1, <1>4, <3>1, <3>2, <3>3 DEF BlankPage, Available
  <2> QED
    BY <2>1, <2>2
<1>9. SameElements
  BY <1>1, <1>3, <1>4 DEF SameElements
<1> QED
  BY <1>2, <1>3, <1>4, <1>5, <1>6, <1>7, <1>8, <1>9 DEF BothInUse

\* The erasure of the newer packed page begins.
LEMMA BothInUseStep ==
    ASSUME TypeInv, FlashOperation, NEW c \in Pages, BothInUse(c)
    PROVE  PreviousInUse(c)' /\ SameBut(c)
<1> DEFINE q == GetNextPage(c)
           b == GetPreviousPage(c)
<1>1. /\ q \in Pages /\ b \in Pages /\ q # c /\ b # c /\ b # q /\ Pages = {c, q, b}
  BY PagesAround DEF Ring
<1>2. nvm = EraseOps(c) /\ pack.state \in {"Erase_1b", "Erase_2b"}
  BY FlashFrame DEF BothInUse
<1>3. SameBut(c) /\ Erased(c, <<>>)'
  <2>1. EraseOps(c) \in Seq(OpType)
    BY OpsTyped DEF EraseOps, StatusOps
  <2>2. nvm = EraseOps(c) \o <<>>
    BY <1>2, <2>1, ConcatEmptySeq
  <2> QED
    BY <2>2, NoFollowers, EraseStarts
<1>4. flash'[q] = flash[q] /\ flash'[b] = flash[b] /\ pack' = pack /\ Packing(c)'
  BY <1>1, <1>3, FlashFrame DEF SameBut, BothInUse
<1>5. ClosedIsFull'
  BY <1>1, <1>3, <1>4 DEF BothInUse, ClosedIsFull, Erased, Available, BlankPage
<1>6. Copied(q)' /\ flash'[b].counted /\ (flash'[b].active \/ BlankPage(b)')
  BY <1>1, <1>4 DEF BothInUse, Copied, AllCounted, BlankPage, Available
<1> QED
  BY <1>2, <1>3, <1>4, <1>5, <1>6 DEF PreviousInUse

\* The erasure of the newer packed page goes on.
LEMMA PreviousInUseStep ==
    ASSUME TypeInv, FlashOperation, NEW c \in Pages, PreviousInUse(c)
    PROVE  PreviousInUse(c)' /\ SameBut(c)
<1> DEFINE q == GetNextPage(c)
           b == GetPreviousPage(c)
<1>1. /\ q \in Pages /\ b \in Pages /\ q # c /\ b # c /\ b # q /\ Pages = {c, q, b}
  BY PagesAround DEF Ring
<1>2. Erased(c, <<>>)
  BY FlashFrame DEF PreviousInUse
<1>3. SameBut(c) /\ (Erased(c, <<>>)' \/ (BlankPage(c)' /\ flash'[c].counted /\ nvm' = <<>>))
  BY <1>2, NoFollowers, ErasedStep
<1>4. flash'[q] = flash[q] /\ flash'[b] = flash[b] /\ pack' = pack /\ Packing(c)'
  BY <1>1, <1>3, FlashFrame DEF SameBut, PreviousInUse
<1>5. ClosedIsFull'
  BY <1>1, <1>3, <1>4 DEF PreviousInUse, ClosedIsFull, Erased, Available, BlankPage
<1>6. Copied(q)' /\ flash'[b].counted /\ (flash'[b].active \/ BlankPage(b)')
  BY <1>1, <1>4 DEF PreviousInUse, Copied, BlankPage, Available
<1> QED
  BY <1>3, <1>4, <1>5, <1>6 DEF PreviousInUse

\* The erasure of the older packed page, and what follows it if the copy is full.
LEMMA CopyInUseStep ==
    ASSUME TypeInv, FlashOperation, NEW c \in Pages, CopyInUse(c)
    PROVE  (CopyInUse(c)' \/ Packed(c)') /\ SameBut(GetPreviousPage(c))
<1> DEFINE q == GetNextPage(c)
           b == GetPreviousPage(c)
<1>1. /\ q \in Pages /\ b \in Pages /\ q # c /\ b # c /\ b # q /\ Pages = {c, q, b}
      /\ GetNextPage(q) = b /\ GetPreviousPage(q) = c /\ GetNextPage(b) = c /\ GetPreviousPage(b) = q
      /\ \A p \in Pages : p \in Nat
  BY PagesAround DEF Ring, Pages, DEE_PAGE_CNT
<1>2. PICK rest : rest = Reopening(c)
  OBVIOUS
<1>3. rest \in Seq(OpType) /\ rest = IF flash[q].current THEN <<>> ELSE << Status("activate", b) >>
  BY <1>1, <1>2, OpsTyped DEF Reopening
<1>4. /\ Packing(c) /\ pack.state = "After_Erase" /\ ClosedIsFull
      /\ flash[q].active /\ flash[q].counted /\ (flash[q].current => Len(flash[q].element) # ELEMENTS)
      /\ BlankPage(c) /\ flash[c].counted
      /\ \/ nvm = EraseOps(b) \o rest
         \/ Erased(b, rest)
         \/ BlankPage(b) /\ flash[b].counted /\ nvm = rest /\ nvm # <<>>
  BY <1>2 DEF CopyInUse
<1>5. CASE nvm = EraseOps(b) \o rest \/ Erased(b, rest)
  <2>1. SameBut(b) /\ (Erased(b, rest)' \/ (BlankPage(b)' /\ flash'[b].counted /\ nvm' = rest))
    BY <1>1, <1>3, <1>5, EraseStarts, ErasedStep
  <2>2. flash'[q] = flash[q] /\ flash'[c] = flash[c] /\ pack' = pack /\ Packing(c)'
    BY <1>1, <1>4, <2>1, FlashFrame DEF SameBut
  <2>3. rest = Reopening(c)'
    BY <1>3, <2>2 DEF Reopening
  <2>4. ~flash'[b].active /\ flash'[b].current
    BY <2>1 DEF Erased, BlankPage, Available
  <2>5. ClosedIsFull' /\ BlankPage(c)'
    BY <1>1, <1>4, <2>2, <2>4 DEF ClosedIsFull, BlankPage, Available
  <2>6. CASE Erased(b, rest)' \/ nvm' # <<>>
    <3>1. Erased(b, Reopening(c))' \/ (BlankPage(b)' /\ flash'[b].counted /\ nvm' = Reopening(c)' /\ nvm' # <<>>)
      BY <2>1, <2>3, <2>6 DEF Erased
    <3> QED
      BY <1>4, <2>1, <2>2, <2>5, <3>1 DEF CopyInUse
  <2>7. CASE BlankPage(b)' /\ flash'[b].counted /\ nvm' = rest /\ nvm' = <<>>
    <3>1. flash[q].current
      BY <1>3, <2>7
    <3>2. One(q)'
      BY <1>1, <1>4, <2>2, <2>4, <2>5, <2>7, <3>1 DEF One, Found, AllCounted, BlankPage, Available
    <3> QED
      BY <1>4, <2>1, <2>2, <2>5, <2>7, <3>1, <3>2 DEF Packed, BlankPage
  <2> QED
    BY <2>1, <2>6, <2>7
<1>6. CASE BlankPage(b) /\ flash[b].counted /\ nvm = rest /\ nvm # <<>>
  <2>1. ~flash[q].current /\ Head(nvm) = Status("activate", b) /\ nvm' = <<>>
    BY <1>3, <1>6 DEF FlashOperation
  <2>2. /\ SameBut(b) /\ flash'[b].active /\ flash'[b].current = flash[b].current
        /\ flash'[b].counted = flash[b].counted /\ flash'[b].element = flash[b].element
    BY <1>1, <2>1, StatusEffect
  <2>3. flash'[q] = flash[q] /\ flash'[c] = flash[c] /\ pack' = pack /\ Packing(c)'
    BY <1>1, <1>4, <2>2, FlashFrame DEF SameBut
  <2>4. Found(b)' /\ AllCounted'
    <3>1. flash'[b].active /\ flash'[b].current /\ flash'[b].counted
      BY <1>6, <2>2 DEF BlankPage, Available
    <3>2. flash'[q].counted /\ ~flash'[q].current /\ flash'[c].counted /\ ~flash'[c].active
      BY <1>4, <2>1, <2>3 DEF BlankPage, Available
    <3>3. \A p \in Pages : flash'[p].active /\ flash'[p].current => p = b
      BY <1>1, <3>2
    <3>4. Found(b)'
      BY <1>1, <3>1, <3>3 DEF Found
    <3> QED
      BY <1>1, <3>1, <3>2, <3>4 DEF AllCounted
  <2>5. ClosedIsFull'
    BY <1>1, <1>4, <1>6, <2>2, <2>3 DEF ClosedIsFull, BlankPage, Available
  <2>6. Two(b)'
    BY <1>1, <1>4, <2>3, <2>4, <2>5 DEF Two, BlankPage, Available
  <2> QED
    BY <1>4, <1>6, <2>1, <2>2, <2>3, <2>6 DEF Packed, BlankPage
<1> QED
  BY <1>4, <1>5, <1>6

\* The formatting of a fresh flash goes on, until its first page is in use.
LEMMA FreshStep ==
    ASSUME TypeInv, FlashOperation, Fresh
    PROVE  \/ Fresh'
           \/ Filling(0)' /\ nvm' = <<>> /\ \A p \in Pages : flash'[p].element = <<>>
<1>1. Pages = {0, 1, 2} /\ 0 \in Pages
  BY DEF Pages, DEE_PAGE_CNT
<1>2. PICK k \in 1 .. 13 : /\ nvm = SubSeq(FreshPages, k, 13)
                           /\ \A p \in Pages : k > 4 * p + 4 => flash[p].counted
  BY DEF Fresh
<1>3. FreshPages \in Seq(OpType) /\ Len(FreshPages) = 13
  BY FreshPagesAre
<1>4. Head(nvm) = FreshPages[k] /\ nvm' = SubSeq(FreshPages, k + 1, 13)
  <2>1. k \in 1 .. Len(FreshPages) /\ 13 \in k .. Len(FreshPages)
    BY <1>3
  <2> QED
    BY <1>2, <1>3, <2>1, HeadTailOfSubSeq DEF FlashOperation
<1>5. Resting' /\ ~triggered' /\ resets' = resets
  BY FlashFrame DEF Fresh
<1>6. CASE k = 13
  <2>1. Head(nvm) = Status("activate", 0) /\ nvm' = <<>>
    <3>1. 13 + 1 \in Int /\ 13 \in Int /\ 13 < 13 + 1
      OBVIOUS
    <3>2. SubSeq(FreshPages, 13 + 1, 13) = <<>>
      BY <3>1, SubSeqEmpty
    <3> QED
      BY <1>4, <1>6, <3>2, FreshPagesAre
  <2>2. /\ SameBut(0) /\ flash'[0].active /\ flash'[0].current = flash[0].current
        /\ flash'[0].counted = flash[0].counted /\ flash'[0].element = flash[0].element
    BY <1>1, <2>1, StatusEffect
  <2>3. GetNextPage(0) = 1 /\ GetPreviousPage(0) = 2
    BY DEF GetNextPage, GetPreviousPage, NoPage, DEE_PAGE_CNT
  <2>4. flash'[1] = flash[1] /\ flash'[2] = flash[2]
    BY <1>1, <2>2 DEF SameBut
  <2>5. \A p \in Pages : BlankPage(p) /\ flash[p].counted
    BY <1>1, <1>2, <1>6 DEF Fresh
  <2>6. BlankPage(1)' /\ BlankPage(2)' /\ flash'[1].counted /\ flash'[2].counted
    BY <1>1, <2>4, <2>5 DEF BlankPage, Available
  <2>7. flash'[0].active /\ flash'[0].current /\ flash'[0].counted /\ flash'[0].element = <<>>
    BY <1>1, <2>2, <2>5 DEF BlankPage, Available
  <2>8. Found(0)'
    BY <1>1, <2>6, <2>7 DEF Found, BlankPage, Available
  <2>9. One(0)'
    BY <1>1, <2>3, <2>6, <2>7, <2>8 DEF One, AllCounted
  <2>10. Len(flash'[0].element) + Appending' # ELEMENTS
    BY <2>1, <2>7, ElementsAssumption DEF Appending
  <2>11. \A p \in Pages : flash'[p].element = <<>>
    BY <1>1, <2>6, <2>7 DEF BlankPage
  <2> QED
    BY <1>5, <2>1, <2>9, <2>10, <2>11 DEF Filling
<1>7. CASE k # 13
  <2>1. k \in 1 .. 12 /\ k + 1 \in 1 .. 13
    BY <1>7
  <2>2. PICK p \in Pages, j \in 1 .. 4 : k = 4 * p + j
    <3>1. CASE k \in 1 .. 4
      <4>1. k = 4 * 0 + k
        BY <2>1
      <4> QED
        BY <1>1, <3>1, <4>1
    <3>2. CASE k \in 5 .. 8
      <4>1. k = 4 * 1 + (k - 4) /\ k - 4 \in 1 .. 4
        BY <3>2
      <4> QED
        BY <1>1, <4>1
    <3>3. CASE k \in 9 .. 12
      <4>1. k = 4 * 2 + (k - 8) /\ k - 8 \in 1 .. 4
        BY <3>3
      <4> QED
        BY <1>1, <4>1
    <3> QED
      BY <2>1, <3>1, <3>2, <3>3
  <2>3. Head(nvm) = FreshPage(p)[j]
    BY <1>4, <2>2, FreshPagesAre
  <2>4. \/ j = 1 /\ Head(nvm) = Status("count", p)
        \/ j = 2 /\ Head(nvm) = Status("erase_first", p)
        \/ j = 3 /\ Head(nvm) = Status("erase_second", p)
        \/ j = 4 /\ Head(nvm) = Status("count", p)
    <3>1. j = 1 \/ j = 2 \/ j = 3 \/ j = 4
      OBVIOUS
    <3> QED
      BY <2>3, <3>1 DEF FreshPage
  <2>5. BlankPage(p)
    BY DEF Fresh
  <2>6. SameBut(p) /\ BlankPage(p)' /\ (j = 4 => flash'[p].counted)
    BY <2>4, <2>5, StatusEffect DEF BlankPage
  <2>7. \A r \in Pages : BlankPage(r)'
    <3> TAKE r \in Pages
    <3>1. BlankPage(r)
      BY DEF Fresh
    <3> QED
      BY <2>6, <3>1 DEF SameBut, BlankPage, Available
  <2>8. \A r \in Pages : k + 1 > 4 * r + 4 => flash'[r].counted
    <3> SUFFICES ASSUME NEW r \in Pages, k + 1 > 4 * r + 4 PROVE flash'[r].counted
      OBVIOUS
    <3>0. r \in Int /\ p \in Int
      BY <1>1
    <3>1. CASE r = p
      <4>1. j = 4
        BY <2>2, <3>0, <3>1
      <4> QED
        BY <2>6, <3>1, <4>1
    <3>2. CASE r # p
      <4>1. k > 4 * r + 4
        BY <1>1, <2>2, <3>0, <3>2
      <4> QED
        BY <1>2, <2>6, <3>2, <4>1 DEF SameBut
    <3> QED
      BY <3>1, <3>2
  <2> QED
    BY <1>4, <1>5, <2>1, <2>7, <2>8 DEF Fresh
<1> QED
  BY <1>6, <1>7

\* Every flash operation leads from a shape to a shape.
LEMMA FlashStep ==
    ASSUME TypeInv, TypeInv', FitInv, FitInv', PageInv, FlashOperation
    PROVE  PageInv'
<1>1. CASE Fresh
  <2>1. 0 \in Pages
    BY DEF Pages, DEE_PAGE_CNT
  <2> QED
    BY <1>1, <2>1, FreshStep DEF PageInv, Shape
<1>2. ASSUME NEW c \in Pages, Shape(c) PROVE PageInv'
  <2>1. GetNextPage(c) \in Pages
    BY PagesAround DEF Ring
  <2>2. ~Packed(c)
    BY FlashFrame DEF Packed
  <2>3. CASE Filling(c)
    BY <2>3, FillingStep DEF PageInv, Shape
  <2>4. CASE LastWrite(c)
    BY <2>4, LastWordStep, LastCloseStep DEF LastWrite, PageInv, Shape
  <2>5. CASE LateClose(c)
    BY <2>5, LateCloseStep DEF PageInv, Shape
  <2>6. CASE Closed(c)
    BY <2>1, <2>6, ClosedStep DEF PageInv, Shape
  <2>7. CASE Using(c)
    BY <2>7, UsingStep DEF PageInv, Shape
  <2>8. CASE BootErase(c)
    BY <2>8, BootEraseStep DEF PageInv, Shape
  <2>9. CASE Copying(c)
    BY <2>9, CopyingStep DEF PageInv, Shape
  <2>10. CASE Activating(c)
    BY <2>10, ActivatingStep DEF PageInv, Shape
  <2>11. CASE BothInUse(c)
    BY <2>11, BothInUseStep DEF PageInv, Shape
  <2>12. CASE PreviousInUse(c)
    BY <2>12, PreviousInUseStep DEF PageInv, Shape
  <2>13. CASE CopyInUse(c)
    BY <2>13, CopyInUseStep DEF PageInv, Shape
  <2> QED
    BY <1>2, <2>2, <2>3, <2>4, <2>5, <2>6, <2>7, <2>8, <2>9, <2>10, <2>11, <2>12, <2>13
       DEF Shape
<1> QED
  BY <1>1, <1>2 DEF PageInv

-----------------------------------------------------------------------------
(* The third part, under the functions.                                    *)

\* One or two pages in use: the page found and the number of active ones.
LEMMA PagesInUse ==
    ASSUME NEW c \in Pages
    PROVE  /\ One(c) => GetActiveCurrentPage = c /\ GetActiveCurrentPageCount = 1
           /\ Two(c) => GetActiveCurrentPage = c /\ GetActiveCurrentPageCount = 2
<1> DEFINE q == GetNextPage(c)
           b == GetPreviousPage(c)
<1>1. Ring(c, q, b) /\ q \in Pages /\ b \in Pages
  BY PagesAround DEF Ring
<1>2. GetActiveCurrentPageCount = ActiveIs(c) + ActiveIs(q) + ActiveIs(b)
  BY <1>1, PageCount
<1>3. CASE One(c)
  <2>1. Found(c) /\ flash[c].active /\ ~flash[q].active /\ ~flash[b].active
    BY <1>3 DEF One, Found, BlankPage, Available
  <2>2. ActiveIs(c) = 1 /\ ActiveIs(q) = 0 /\ ActiveIs(b) = 0
    BY <2>1 DEF ActiveIs
  <2>3. ~Two(c)
    BY <2>1 DEF Two
  <2> QED
    BY <1>2, <2>1, <2>2, <2>3, FoundIsCurrent
<1>4. CASE Two(c)
  <2>1. Found(c) /\ flash[c].active
    BY <1>4 DEF Two, Found
  <2>2. \/ flash[b].active /\ ~flash[q].active
        \/ flash[q].active /\ ~flash[b].active
    BY <1>4 DEF Two, BlankPage, Available
  <2>3. ActiveIs(c) = 1 /\ ActiveIs(q) + ActiveIs(b) = 1
    BY <2>1, <2>2 DEF ActiveIs
  <2>4. ActiveIs(q) \in {0, 1} /\ ActiveIs(b) \in {0, 1}
    BY DEF ActiveIs
  <2>5. ~One(c)
    BY <2>2 DEF One, BlankPage, Available
  <2> QED
    BY <1>2, <2>1, <2>3, <2>4, <2>5, FoundIsCurrent
<1> QED
  BY <1>3, <1>4

\* Where a function has flash operations left, nvm is not empty.
LEMMA NotIdle ==
    ASSUME NEW p \in Pages, NEW q \in Pages, NEW rest \in Seq(OpType)
    PROVE  /\ Writing(p, rest) => nvm # <<>>
           /\ Erased(p, rest) => nvm # <<>>
           /\ nvm = EraseOps(p) \o rest => nvm # <<>>
           /\ nvm = Dee_CloseCurrentPage(p, q) \o rest => nvm # <<>>
<1>1. \A s \in Seq(OpType) : s # <<>> /\ nvm = s \o rest => nvm # <<>>
  BY ConcatHeadTail
<1>2. \A x \in OpType : << x >> \in Seq(OpType) /\ << x >> # <<>>
  OBVIOUS
<1>3. \A x, y \in OpType : << x, y >> \in Seq(OpType) /\ << x, y >> # <<>>
  OBVIOUS
<1>4. \A x, y, z \in OpType : << x, y, z >> \in Seq(OpType) /\ << x, y, z >> # <<>>
  OBVIOUS
<1>5. \A op \in StatusOps, r \in Pages : Status(op, r) \in OpType
  BY OpsTyped
<1>6. \A a \in Addr : Op("addr", p, a) \in OpType
  BY DEF Op, OpType
<1>7. \A v \in Val : Op("data", p, v) \in OpType /\ Op("crc", p, v) \in OpType
  BY DEF Op, OpType
<1>8. Writing(p, rest) => nvm # <<>>
  <2> SUFFICES ASSUME NEW a \in Addr, NEW v \in Val,
                      \/ nvm = << Op("addr", p, a), Op("data", p, v), Op("crc", p, v) >> \o rest
                      \/ nvm = << Op("data", p, v), Op("crc", p, v) >> \o rest
                      \/ nvm = << Op("crc", p, v) >> \o rest
               PROVE  nvm # <<>>
    BY DEF Writing
  <2>1. Op("addr", p, a) \in OpType /\ Op("data", p, v) \in OpType /\ Op("crc", p, v) \in OpType
    BY <1>6, <1>7
  <2> QED
    BY <1>1, <1>2, <1>3, <1>4, <2>1
<1>9. Status("erase_first", p) \in OpType /\ Status("erase_second", p) \in OpType
      /\ Status("count", p) \in OpType
  BY <1>5 DEF StatusOps
<1>10. Erased(p, rest) => nvm # <<>>
  BY <1>1, <1>2, <1>3, <1>9 DEF Erased
<1>11. nvm = EraseOps(p) \o rest => nvm # <<>>
  BY <1>1, <1>4, <1>9 DEF EraseOps
<1>12. Status("close", p) \in OpType /\ Status("activate", q) \in OpType
  BY <1>5 DEF StatusOps
<1>13. nvm = Dee_CloseCurrentPage(p, q) \o rest => nvm # <<>>
  BY <1>1, <1>3, <1>12 DEF Dee_CloseCurrentPage
<1> QED
  BY <1>8, <1>10, <1>11, <1>13

\* Before the first start is through, nvm is not empty.
LEMMA FreshIsBusy == nvm = <<>> => ~Fresh
<1> SUFFICES ASSUME nvm = <<>> PROVE ~Fresh
  OBVIOUS
<1>1. ~Fresh
  <2> SUFFICES ASSUME NEW k \in 1 .. 13, nvm = SubSeq(FreshPages, k, 13) PROVE FALSE
    BY DEF Fresh
  <2>1. \A i \in k .. 13 : FreshPages[i] \in OpType
    <3>1. FreshPages \in Seq(OpType) /\ Len(FreshPages) = 13
      BY FreshPagesAre
    <3> HIDE DEF FreshPages
    <3> QED
      BY <3>1
  <2>2. Len(SubSeq(FreshPages, k, 13)) = 13 - k + 1
    <3>1. k \in Int /\ 13 \in Int /\ k <= 13
      OBVIOUS
    <3> QED
      BY <2>1, <3>1, SubSeqProperties
  <2>3. Len(<<>>) = 0 /\ 13 - k + 1 # 0
    OBVIOUS
  <2> QED
    BY <2>2, <2>3
<1> QED
  BY <1>1

\* The shapes of the pages between two functions.
LEMMA IdleShape ==
    ASSUME TypeInv, NEW c \in Pages, nvm = <<>>
    PROVE  /\ ~LastWrite(c) /\ ~LateClose(c) /\ ~Closed(c) /\ ~BootErase(c)
           /\ ~Activating(c) /\ ~CopyInUse(c)
           /\ BothInUse(c) => pack.state \in {"Erase_1a", "Erase_2a"}
           /\ PreviousInUse(c) => BlankPage(c) /\ flash[c].counted
<1> DEFINE q == GetNextPage(c)
           b == GetPreviousPage(c)
<1>3. q \in Pages /\ b \in Pages
  BY PagesAround DEF Ring
<1>4. /\ <<>> \in Seq(OpType) /\ Dee_CloseCurrentPage(c, q) \in Seq(OpType)
      /\ \A p \in Pages, a \in Addr, v \in Val : WriteElement(p, a, v) \in Seq(OpType)
  BY <1>3, OpsTyped
<1>5. ~LastWrite(c)
  BY <1>3, <1>4, NotIdle DEF LastWrite, Dee_CloseCurrentPage
<1>6. ~LateClose(c)
  BY <1>3, <1>4, NotIdle DEF LateClose
<1>7. ~Closed(c)
  <2>1. << Status("activate", q) >> \in Seq(OpType) /\ << Status("activate", q) >> # <<>>
    BY <1>3, OpsTyped
  <2> QED
    BY <1>3, <1>4, <2>1, ConcatHeadTail DEF Closed
<1>8. ~BootErase(c)
  BY <1>3, <1>4, NotIdle DEF BootErase, EraseOps
<1>9. ~Activating(c)
  BY DEF Activating
<1>10. ~CopyInUse(c)
  <2>1. PICK rest : rest = Reopening(c)
    OBVIOUS
  <2>2. rest \in Seq(OpType)
    BY <1>3, <2>1, OpsTyped DEF Reopening
  <2>3. CopyInUse(c) => \/ nvm = EraseOps(b) \o rest
                        \/ Erased(b, rest)
                        \/ nvm # <<>>
    BY <2>1 DEF CopyInUse
  <2> QED
    BY <1>3, <2>2, <2>3, NotIdle
<1>11. BothInUse(c) => pack.state \in {"Erase_1a", "Erase_2a"}
  BY DEF BothInUse, EraseOps
<1>12. PreviousInUse(c) => BlankPage(c) /\ flash[c].counted
  BY <1>4, NotIdle DEF PreviousInUse
<1> QED
  BY <1>5, <1>6, <1>7, <1>8, <1>9, <1>10, <1>11, <1>12

\* Between two functions only these shapes are left.
LEMMA IdleShapes ==
    ASSUME TypeInv, PageInv, nvm = <<>>
    PROVE  \E c \in Pages :
              \/ Filling(c) \/ Using(c) \/ Copying(c) \/ Packed(c)
              \/ BothInUse(c) /\ pack.state \in {"Erase_1a", "Erase_2a"}
              \/ PreviousInUse(c) /\ BlankPage(c) /\ flash[c].counted
<1>1. PICK c \in Pages : Shape(c)
  BY FreshIsBusy DEF PageInv
<1> QED
  BY <1>1, IdleShape DEF Shape

\* A store that begins with an element is Writing.
LEMMA WriteStarts ==
    ASSUME NEW p \in Pages, NEW a \in Addr, NEW v \in Val, NEW rest \in Seq(OpType),
           nvm' = <<>> \o (WriteElement(p, a, v) \o rest)
    PROVE  Writing(p, rest)' /\ Appending' = 1 /\ nvm' = WriteElement(p, a, v) \o rest
<1>1. WriteElement(p, a, v) \in Seq(OpType)
  BY OpsTyped
<1>2. WriteElement(p, a, v) \o rest \in Seq(OpType)
  BY <1>1
<1>3. nvm' = WriteElement(p, a, v) \o rest
  BY <1>2, ConcatEmptySeq
<1>4. Writing(p, rest)'
  BY <1>3 DEF Writing, WriteElement
<1>5. WriteElement(p, a, v) # <<>> /\ Head(WriteElement(p, a, v)) = Op("addr", p, a)
  BY DEF WriteElement
<1>6. nvm' # <<>> /\ Head(nvm') = Op("addr", p, a)
  BY <1>1, <1>3, <1>5, ConcatHeadTail
<1> QED
  BY <1>3, <1>4, <1>6 DEF Appending, Op

\* A store to the next page, and to the current one.
LEMMA StoreOnNext ==
    ASSUME TypeInv, FitInv, NEW a \in Addr, NEW v \in Val, Store(a, v),
           NEW c, NEW q, NEW b, Ring(c, q, b), c = GetActiveCurrentPage,
           Len(flash[c].element) = ELEMENTS, Len(flash[q].element) = 0,
           GetActiveCurrentPageCount = 1
    PROVE  /\ nvm' = Dee_CloseCurrentPage(c, q) \o (WriteElement(q, a, v) \o <<>>)
           /\ triggered' = triggered
<1> DEFINE n == GetActiveCurrentPageCount
           i == Len(flash[q].element)
           closed == i = ELEMENTS - 1 /\ n < DEE_PAGE_CNT - 1
<1>1. /\ i # ELEMENTS
      /\ ~closed
      /\ n # DEE_PAGE_CNT - 1
  BY ElementsAssumption DEF DEE_PAGE_CNT
<1>2. i # ELEMENTS =>
         /\ i < ELEMENTS
         /\ nvm' = Dee_CloseCurrentPage(c, q) \o
                      (WriteElement(q, a, v) \o (IF closed THEN Dee_CloseCurrentPage(c, q) ELSE <<>>))
         /\ triggered' = (triggered \/ (~closed /\ i >= PackAt /\ n = DEE_PAGE_CNT - 1))
  <2>1. StoreForm(a, v, c, q)
    BY StoreForms
  <2> QED
    BY <2>1 DEF StoreForm
<1>3. triggered \in BOOLEAN
  BY DEF TypeInv, TypeOK
<1> HIDE DEF n, i, closed
<1> QED
  BY <1>1, <1>2, <1>3

\* What a store does while the page found is not full.
LEMMA StoreOnCurrent ==
    ASSUME TypeInv, FitInv, NEW a \in Addr, NEW v \in Val, Store(a, v),
           NEW c, NEW q, NEW b, Ring(c, q, b), c = GetActiveCurrentPage,
           NEW len, len = Len(flash[c].element), len # ELEMENTS,
           NEW count \in {1, 2}, count = GetActiveCurrentPageCount
    PROVE  /\ count = 1 /\ len = ELEMENTS - 1 =>
                  nvm' = <<>> \o (WriteElement(c, a, v) \o Dee_CloseCurrentPage(c, q))
           /\ ~(count = 1 /\ len = ELEMENTS - 1) => nvm' = <<>> \o (WriteElement(c, a, v) \o <<>>)
           /\ count = 1 => triggered' = triggered
           /\ count = 2 => triggered' = (triggered \/ len >= PackAt)
<1> DEFINE n == GetActiveCurrentPageCount
           full == Len(flash[c].element) = ELEMENTS
           p == IF full THEN q ELSE c
           i == Len(flash[p].element)
           closed == i = ELEMENTS - 1 /\ n < DEE_PAGE_CNT - 1
           before == IF full THEN Dee_CloseCurrentPage(c, q) ELSE <<>>
           after  == IF closed THEN Dee_CloseCurrentPage(c, q) ELSE <<>>
<1>1. /\ i = ELEMENTS => nvm' = before \o <<>> /\ triggered' = triggered
      /\ i # ELEMENTS => /\ i < ELEMENTS
                         /\ nvm' = before \o (WriteElement(p, a, v) \o after)
                         /\ triggered' = (triggered \/ (~closed /\ i >= PackAt /\ n = DEE_PAGE_CNT - 1))
  <2>1. StoreForm(a, v, c, q)
    BY StoreForms
  <2> QED
    BY <2>1 DEF StoreForm
<1>2. ~full /\ p = c /\ i = len
  OBVIOUS
<1>3. (closed <=> (count = 1 /\ len = ELEMENTS - 1)) /\ (n = DEE_PAGE_CNT - 1 <=> count = 2) /\ 1 # 2
  BY <1>2 DEF DEE_PAGE_CNT
<1>4. triggered \in BOOLEAN
  BY DEF TypeInv, TypeOK
<1>5. before = <<>> /\ after = IF count = 1 /\ len = ELEMENTS - 1 THEN Dee_CloseCurrentPage(c, q) ELSE <<>>
  BY <1>2, <1>3
<1> HIDE DEF closed, full, p, i, n, before, after
<1> QED
  BY <1>1, <1>2, <1>3, <1>4, <1>5

\* A store with one page in use.
LEMMA StoreWhenFilling ==
    ASSUME TypeInv, FitInv, NEW a \in Addr, NEW v \in Val, Store(a, v), nvm = <<>>,
           NEW c \in Pages, Filling(c), UNCHANGED << flash, running, pack, resets >>
    PROVE  LET q == GetNextPage(c)
           IN  \/ Filling(c)' /\ nvm' = WriteElement(c, a, v) \o <<>>
               \/ LastWrite(c)' /\ nvm' = WriteElement(c, a, v) \o Dee_CloseCurrentPage(c, q)
               \/ LateClose(c)' /\ nvm' = Dee_CloseCurrentPage(c, q) \o WriteElement(q, a, v)
<1> DEFINE q == GetNextPage(c)
           b == GetPreviousPage(c)
           len == Len(flash[c].element)
<1>1. Ring(c, q, b) /\ q \in Pages
  BY PagesAround DEF Ring
<1>2. c = GetActiveCurrentPage /\ GetActiveCurrentPageCount = 1 /\ ~triggered
  BY PagesInUse DEF Filling
<1>3. len \in Nat /\ len <= ELEMENTS /\ ELEMENTS \in Nat /\ ELEMENTS > 1 /\ Appending = 0
  BY ElementsAssumption, LenType DEF FitInv, Appending
<1>4. Len(flash[q].element) = 0
  BY DEF Filling, One, BlankPage
<1>5. One(c)' /\ Resting'
  BY DEF Filling, One, Resting, Found, AllCounted, BlankPage, Available
<1>6. CASE len = ELEMENTS
  <2>1. nvm' = Dee_CloseCurrentPage(c, q) \o (WriteElement(q, a, v) \o <<>>) /\ ~triggered'
    BY <1>1, <1>2, <1>4, <1>6, StoreOnNext
  <2>2. WriteElement(q, a, v) \o <<>> = WriteElement(q, a, v)
    BY <1>1, OpsTyped, ConcatEmptySeq
  <2>3. resets' > 0 /\ Len(flash'[c].element) = ELEMENTS
    BY <1>3, <1>6 DEF Filling
  <2> QED
    BY <1>5, <2>1, <2>2, <2>3 DEF LateClose
<1>7. CASE len # ELEMENTS
  <2>1. ~triggered'
    BY <1>1, <1>2, <1>3, <1>7, StoreOnCurrent, SMTT(30)
  <2>2. CASE len = ELEMENTS - 1
    <3>1. nvm' = <<>> \o (WriteElement(c, a, v) \o Dee_CloseCurrentPage(c, q))
      BY <1>1, <1>2, <1>7, <2>2, StoreOnCurrent, SMTT(30)
    <3>2. /\ Writing(c, Dee_CloseCurrentPage(c, q))' /\ Appending' = 1
          /\ nvm' = WriteElement(c, a, v) \o Dee_CloseCurrentPage(c, q)
      BY <1>1, <3>1, NoFollowers, WriteStarts
    <3>3. Len(flash'[c].element) + Appending' = ELEMENTS
      BY <1>3, <2>2, <3>2
    <3>4. Writing(c, Dee_CloseCurrentPage(c, GetNextPage(c)))'
      BY <3>2
    <3> QED
      BY <1>5, <2>1, <3>2, <3>3, <3>4 DEF LastWrite
  <2>3. CASE len # ELEMENTS - 1
    <3>1. nvm' = <<>> \o (WriteElement(c, a, v) \o <<>>)
      BY <1>1, <1>2, <1>3, <1>7, <2>3, StoreOnCurrent, SMTT(30)
    <3>2. Writing(c, <<>>)' /\ Appending' = 1 /\ nvm' = WriteElement(c, a, v) \o <<>>
      BY <3>1, NoFollowers, WriteStarts
    <3>3. Len(flash'[c].element) + Appending' # ELEMENTS
      BY <1>3, <2>3, <3>2
    <3> QED
      BY <1>5, <2>1, <3>2, <3>3 DEF Filling
  <2> QED
    BY <2>2, <2>3
<1> QED
  BY <1>6, <1>7

\* A store with two pages in use, while the second one is not full.
LEMMA StoreWhenUsing ==
    ASSUME TypeInv, FitInv, NEW a \in Addr, NEW v \in Val, Store(a, v), nvm = <<>>,
           NEW c \in Pages, Using(c), UNCHANGED << flash, running, pack, resets >>, ~Overrun
    PROVE  Using(c)' /\ nvm' = WriteElement(c, a, v) \o <<>>
<1> DEFINE q == GetNextPage(c)
           b == GetPreviousPage(c)
           len == Len(flash[c].element)
<1>1. Ring(c, q, b) /\ q \in Pages
  BY PagesAround DEF Ring
<1>2. c = GetActiveCurrentPage /\ GetActiveCurrentPageCount = 2
  BY PagesInUse DEF Using
<1>3. len # ELEMENTS
  BY <1>2 DEF Overrun, GetIndexOfEmptyDataElement
<1>4. nvm' = <<>> \o (WriteElement(c, a, v) \o <<>>)
  <2>1. 2 \in {1, 2} /\ 2 # 1
    OBVIOUS
  <2> QED
    BY <1>1, <1>2, <1>3, <2>1, StoreOnCurrent
<1>5. Writing(c, <<>>)' /\ nvm' = WriteElement(c, a, v) \o <<>>
  BY <1>4, NoFollowers, WriteStarts
<1>6. Two(c)' /\ Resting'
  BY DEF Using, Two, Resting, Found, AllCounted, ClosedIsFull, BlankPage, Available
<1> QED
  BY <1>5, <1>6 DEF Using

\* A write of the word that is stored already, or one that is refused.
LEMMA NothingStored ==
    ASSUME nvm = <<>>, NEW c \in Pages, UNCHANGED << flash, nvm, triggered, running, pack, resets >>
    PROVE  (Filling(c) => Filling(c)') /\ (Using(c) => Using(c)')
<1>1. Filling(c) => Filling(c)'
  BY DEF Filling, One, Resting, Found, AllCounted, BlankPage, Available, Appending
<1>2. ASSUME Using(c) PROVE Using(c)'
  BY <1>2 DEF Using, Two, Resting, Found, AllCounted, ClosedIsFull, BlankPage, Available
<1> QED
  BY <1>1, <1>2

\* Every write that is not an overrun leads from a shape to a shape.
LEMMA WriteStep ==
    ASSUME TypeInv, FitInv, PageInv, NEW a \in Used, NEW v \in Val, StoresWord(a, v), ~wounded'
    PROVE  PageInv'
<1>1. nvm = <<>> /\ ~running /\ UNCHANGED << flash, running, pack, resets >>
  BY DEF StoresWord, WriteWord, Idle
<1>2. PICK c \in Pages : Filling(c) \/ Using(c)
  BY <1>1, IdleShapes DEF Copying, Packed, BothInUse, PreviousInUse, Packing
<1>3. a \in Addr
  BY SizeAssumption
<1>4. CASE Store(a, v) /\ ~Overrun
  BY <1>1, <1>2, <1>3, <1>4, StoreWhenFilling, StoreWhenUsing DEF PageInv, Shape
<1>5. CASE UNCHANGED << nvm, triggered >>
  BY <1>1, <1>2, <1>5, NothingStored DEF PageInv, Shape
<1> QED
  BY <1>4, <1>5 DEF StoresWord, WriteWord

\* What is said of the flash alone stays true while no operation is carried out.
LEMMA PagesKept ==
    ASSUME UNCHANGED flash
    PROVE  /\ AllCounted => AllCounted'
           /\ ClosedIsFull => ClosedIsFull'
           /\ \A c \in Pages : /\ Found(c) => Found(c)'
                               /\ One(c) => One(c)'
                               /\ Two(c) => Two(c)'
                               /\ BlankPage(c) => BlankPage(c)'
<1>1. /\ AllCounted => AllCounted'
      /\ ClosedIsFull => ClosedIsFull'
      /\ \A c \in Pages : Found(c) => Found(c)'
  BY DEF AllCounted, ClosedIsFull, Found
<1>2. \A c : (BlankPage(c) => BlankPage(c)') /\ (Available(c) => Available(c)')
  BY DEF BlankPage, Available
<1> QED
  BY <1>1, <1>2 DEF One, Two

\* The pack starts at the first address.
LEMMA PackStartStep ==
    ASSUME TypeInv, FitInv, NEW c \in Pages, Using(c), PackStart
    PROVE  Copying(c)' /\ pack'.addr = 0 /\ nvm' = <<>>
<1>1. /\ nvm = <<>> /\ triggered /\ pack.state = "Start"
      /\ UNCHANGED << flash, nvm, triggered, resets >> /\ running'
  BY DEF PackStart, Pack, Idle
<1> DEFINE q == GetNextPage(c)
<1>3. c = GetActiveCurrentPage /\ GetActiveCurrentPageCount = DEE_PAGE_CNT - 1 /\ c # NoPage
  BY PagesInUse, PagesAround DEF Using, DEE_PAGE_CNT, Ring
<1>4. pack' = [state |-> "ForCycle", current |-> c, next |-> q, addr |-> 0, failed |-> c = NoPage]
  BY <1>3 DEF PackStart
<1>5. Packing(c)' /\ pack'.state = "ForCycle"
  BY <1>1, <1>4 DEF Packing
<1>9. Two(c)'
  BY <1>1, PagesKept DEF Using
<1> QED
  BY <1>1, <1>4, <1>5, <1>9 DEF Copying

\* The pack copies the word at its cursor, if there is one.
LEMMA PackForCycleStep ==
    ASSUME TypeInv, FitInv, NEW c \in Pages, Copying(c), PackForCycle, ~wounded'
    PROVE  LET found == DataEERead(pack.addr)
           IN  /\ Copying(c)' /\ pack'.addr = pack.addr + 1 /\ pack.addr \in Addr
               /\ pack'.state = "ForCycle"
               /\ \/ found = Blank /\ nvm' = <<>>
                  \/ found \in Val /\ nvm' = WriteElement(GetNextPage(c), pack.addr, found)
<1> DEFINE a == pack.addr
           found == DataEERead(a)
           next == GetNextPage(GetActiveCurrentPage)
           fits == found = Blank \/ GetIndexOfEmptyDataElement(next) # NoElement
           isBad == bad \/ MeetsTornElement(a) \/ ~fits
           stops == ~fits \/ (found = Blank /\ isBad)
<1>1. /\ nvm = <<>> /\ triggered /\ pack.state = "ForCycle" /\ a < SIZE
      /\ UNCHANGED << flash, triggered, running, resets >>
  BY DEF PackForCycle, Pack, Idle
<1>2. wounded' = (wounded \/ stops)
  BY DEF PackForCycle
<1>3. ~stops /\ fits
  BY <1>2
<1> DEFINE q == GetNextPage(c)
<1>5. c = GetActiveCurrentPage /\ next = q /\ q \in Pages
  BY PagesInUse, PagesAround DEF Copying, Ring
<1>6. (found = Blank /\ nvm' = <<>>) \/ (found # Blank /\ nvm' = WriteElement(q, a, found))
  BY <1>3, <1>5 DEF PackForCycle
<1>7. /\ a \in Addr
      /\ found # Blank => found \in Val
  BY <1>1, ReadType, SizeAssumption DEF TypeInv, TypeOK, Addr
<1>8. pack' = [pack EXCEPT !.addr = a + 1, !.failed = @ \/ stops, !.state = IF stops THEN "Stop" ELSE @]
  BY DEF PackForCycle
<1> HIDE DEF stops, a, found
<1>9. /\ pack'.state = pack.state /\ pack'.current = pack.current /\ pack'.next = pack.next
      /\ pack'.addr = a + 1
  BY <1>3, <1>8 DEF TypeInv, TypeOK
<1>10. nvm' = <<>> \/ Writing(q, <<>>)'
  <2> SUFFICES ASSUME found # Blank, nvm' = WriteElement(q, a, found) PROVE Writing(q, <<>>)'
    BY <1>6
  <2>1. WriteElement(q, a, found) \in Seq(OpType) /\ found \in Val
    BY <1>5, <1>7, OpsTyped
  <2>2. nvm' = WriteElement(q, a, found) \o <<>>
    BY <2>1, ConcatEmptySeq
  <2> QED
    BY <1>7, <2>1, <2>2 DEF Writing, WriteElement
<1>11. Packing(c)' /\ Two(c)'
  BY <1>1, <1>9, PagesKept DEF Copying, Packing
<1>12. Copying(c)'
  BY <1>1, <1>9, <1>10, <1>11 DEF Copying
<1>13. /\ a \in Addr /\ pack'.addr = a + 1 /\ pack'.state = "ForCycle"
       /\ \/ found = Blank /\ nvm' = <<>>
          \/ found \in Val /\ nvm' = WriteElement(q, a, found)
  BY <1>1, <1>6, <1>7, <1>9
<1> QED
  BY <1>12, <1>13 DEF a, found

\* The pack has passed the last address.
LEMMA PackCopiedStep ==
    ASSUME TypeInv, FitInv, NEW c \in Pages, Copying(c), PackCopied
    PROVE  Copying(c)' /\ pack.addr = SIZE /\ pack'.addr = SIZE
<1>1. /\ nvm = <<>> /\ triggered /\ pack.state = "ForCycle"
      /\ UNCHANGED << flash, nvm, triggered, running, resets >>
      /\ pack' = [pack EXCEPT !.state = "FinalCheck"]
  BY DEF PackCopied, Pack, Idle
<1>3. /\ pack'.state = "FinalCheck" /\ pack'.current = pack.current /\ pack'.next = pack.next
      /\ pack'.addr = pack.addr
  BY <1>1 DEF TypeInv, TypeOK
<1>4. Packing(c)' /\ Two(c)'
  BY <1>1, <1>3, PagesKept DEF Copying, Packing
<1>5. pack.addr = SIZE
  BY SizeAssumption DEF PackCopied, TypeInv, TypeOK
<1> QED
  BY <1>1, <1>3, <1>4, <1>5 DEF Copying

\* The pack has checked the copy and activates it.
LEMMA PackFinalCheckStep ==
    ASSUME TypeInv, FitInv, NEW c \in Pages, Copying(c), PackFinalCheck
    PROVE  Activating(c)'
<1>1. /\ nvm = <<>> /\ triggered /\ pack.state = "FinalCheck"
      /\ UNCHANGED << flash, triggered, running, resets >>
  BY DEF PackFinalCheck, Pack, Idle
<1> DEFINE q == GetNextPage(c)
<1>3. pack.next = q /\ q # NoPage
  BY PagesAround DEF Copying, Packing, Ring
<1>4. Len(flash[q].element) \in Nat /\ q \in Pages
  BY LenType, PagesAround DEF Ring
<1>5. \/ /\ Len(flash[q].element) # ELEMENTS /\ nvm' = << Status("activate", q) >>
         /\ pack' = [pack EXCEPT !.state = "Erase_1a"]
      \/ /\ Len(flash[q].element) = ELEMENTS /\ nvm' = << Status("close", q) >>
         /\ pack' = [pack EXCEPT !.state = "Erase_2a"]
  <2>1. GetIndexOfEmptyDataElement(q) = NoElement <=> Len(flash[q].element) = ELEMENTS
    BY <1>3, <1>4 DEF GetIndexOfEmptyDataElement, NoElement
  <2> QED
    BY <1>3, <2>1 DEF PackFinalCheck
<1>6. /\ pack'.current = pack.current /\ pack'.next = pack.next
      /\ \/ /\ Len(flash[q].element) # ELEMENTS /\ nvm' = << Status("activate", q) >>
            /\ pack'.state = "Erase_1a"
         \/ /\ Len(flash[q].element) = ELEMENTS /\ nvm' = << Status("close", q) >>
            /\ pack'.state = "Erase_2a"
  BY <1>5 DEF TypeInv, TypeOK
<1>7. Packing(c)' /\ Two(c)'
  BY <1>1, <1>6, PagesKept DEF Copying, Packing
<1>8. Activating(c)'
  BY <1>1, <1>6, <1>7 DEF Activating
<1> QED
  BY <1>8

\* The pack goes on to the newer packed page.
LEMMA PackEraseCurrentStep ==
    ASSUME TypeInv, FitInv, NEW c \in Pages, BothInUse(c), PackErase1a \/ PackErase2a
    PROVE  BothInUse(c)'
<1>1. /\ nvm = <<>> /\ UNCHANGED << flash, triggered, running, resets >>
      /\ nvm' = ErasePage(pack.current) \o <<>>
      /\ \/ pack.state = "Erase_1a" /\ pack' = [pack EXCEPT !.state = "Erase_1b"]
         \/ pack.state = "Erase_2a" /\ pack' = [pack EXCEPT !.state = "Erase_2b"]
  BY DEF PackErase1a, PackErase2a, PackErase, Pack, Idle
<1> DEFINE q == GetNextPage(c)
           b == GetPreviousPage(c)
<1>3. q \in Pages /\ b \in Pages
  BY PagesAround DEF Ring
<1>4. nvm' = EraseOps(c)
  <2>1. pack.current = c /\ flash[c].counted
    BY DEF BothInUse, Packing, AllCounted
  <2>2. ErasePage(c) = EraseOps(c) /\ ErasePage(c) \in Seq(OpType)
    BY <2>1, OpsTyped DEF ErasePage, EraseOps
  <2> QED
    BY <1>1, <2>1, <2>2, ConcatEmptySeq
<1>5. /\ pack'.current = pack.current /\ pack'.next = pack.next
      /\ \/ pack.state = "Erase_1a" /\ pack'.state = "Erase_1b"
         \/ pack.state = "Erase_2a" /\ pack'.state = "Erase_2b"
  BY <1>1 DEF TypeInv, TypeOK
<1>6. Packing(c)' /\ AllCounted' /\ ClosedIsFull'
  BY <1>1, <1>5, PagesKept DEF BothInUse, Packing
<1>7. flash'[c].active /\ flash'[c].current /\ Copied(q)'
  BY <1>1, <1>5 DEF BothInUse, Copied
<1>8. \/ flash'[b].active /\ (flash'[b].current => b < c)
      \/ BlankPage(b)' /\ (flash'[q].current => q < c)
  BY <1>1, <1>3, PagesKept DEF BothInUse
<1> QED
  BY <1>4, <1>5, <1>6, <1>7, <1>8 DEF BothInUse

\* The pack goes on to the older packed page.
LEMMA PackErasePreviousStep ==
    ASSUME TypeInv, FitInv, NEW c \in Pages, PreviousInUse(c), PackErase1b \/ PackErase2b
    PROVE  CopyInUse(c)'
<1>1. /\ nvm = <<>> /\ UNCHANGED << flash, triggered, running, resets >>
      /\ pack' = [pack EXCEPT !.state = "After_Erase"]
      /\ \/ /\ pack.state = "Erase_1b" /\ nvm' = ErasePage(GetPreviousPage(pack.current)) \o <<>>
         \/ /\ pack.state = "Erase_2b"
            /\ nvm' = ErasePage(GetPreviousPage(pack.current)) \o << Status("activate", GetNextPage(pack.next)) >>
  BY DEF PackErase1b, PackErase2b, PackErase, Pack, Idle
<1>2. PreviousInUse(c) /\ BlankPage(c) /\ flash[c].counted
  BY <1>1, IdleShape
<1> DEFINE q == GetNextPage(c)
           b == GetPreviousPage(c)
<1>3. q \in Pages /\ b \in Pages /\ GetNextPage(q) = b
  BY PagesAround DEF Ring
<1>4. pack.current = c /\ pack.next = q /\ flash[b].counted /\ (flash[b].active \/ BlankPage(b))
      /\ Copied(q) /\ ClosedIsFull /\ Packing(c)
  BY <1>2 DEF PreviousInUse, Packing
<1>5. ErasePage(b) = EraseOps(b)
  BY <1>4 DEF ErasePage, EraseOps
<1>6. /\ flash[q].active /\ flash[q].counted
      /\ pack.state = "Erase_1b" => flash[q].current /\ Len(flash[q].element) # ELEMENTS
      /\ pack.state = "Erase_2b" => ~flash[q].current
  BY <1>4 DEF Copied
<1>7. nvm' = EraseOps(b) \o Reopening(c)'
  BY <1>1, <1>3, <1>4, <1>5, <1>6 DEF Reopening
<1>8. pack'.current = pack.current /\ pack'.next = pack.next /\ pack'.state = "After_Erase"
  BY <1>1 DEF TypeInv, TypeOK
<1>9. flash'[q].active /\ flash'[q].counted /\ (flash'[q].current => Len(flash'[q].element) # ELEMENTS)
  BY <1>1, <1>6
<1>10. /\ Packing(c)' /\ ClosedIsFull' /\ BlankPage(c)' /\ flash'[c].counted
       /\ flash'[b].counted /\ (flash'[b].active \/ BlankPage(b)')
  BY <1>1, <1>2, <1>3, <1>4, <1>8, PagesKept DEF Packing
<1> QED
  BY <1>7, <1>8, <1>9, <1>10 DEF CopyInUse

\* The pack has erased both pages.
LEMMA PackAfterEraseStep ==
    ASSUME TypeInv, FitInv, NEW c \in Pages, Packed(c), PackAfterErase
    PROVE  Packed(c)'
<1>1. /\ nvm = <<>> /\ pack.state = "After_Erase" /\ pack' = [pack EXCEPT !.state = "Stop"]
      /\ UNCHANGED << flash, nvm, triggered, running, resets >>
  BY DEF PackAfterErase, Pack, Idle
<1>3. GetNextPage(c) \in Pages /\ GetPreviousPage(c) \in Pages
  BY PagesAround DEF Ring
<1>4. pack'.current = pack.current /\ pack'.next = pack.next /\ pack'.state = "Stop"
  BY <1>1 DEF TypeInv, TypeOK
<1>5. Packing(c)'
  BY <1>1, <1>4 DEF Packed, Packing
<1>6. \/ One(GetNextPage(c))' /\ Len(flash'[GetNextPage(c)].element) # ELEMENTS
      \/ Two(GetPreviousPage(c))'
  BY <1>1, <1>3, PagesKept DEF Packed
<1> QED
  BY <1>1, <1>4, <1>5, <1>6 DEF Packed

\* The pack ends with the copy in use, alone or, if it is full, behind a blank page.
LEMMA PackStopStep ==
    ASSUME TypeInv, FitInv, NEW c \in Pages, Packed(c), PackStop
    PROVE  \/ Filling(GetNextPage(c))' /\ nvm' = <<>>
           \/ Using(GetPreviousPage(c))' /\ nvm' = <<>>
<1>1. /\ nvm = <<>> /\ nvm' = <<>> /\ pack.state = "Stop"
      /\ UNCHANGED << flash, resets >> /\ Resting' /\ ~triggered'
  BY DEF PackStop, Pack, Idle, Resting
<1> DEFINE q == GetNextPage(c)
           b == GetPreviousPage(c)
<1>3. q \in Pages /\ b \in Pages
  BY PagesAround DEF Ring
<1>4. Appending' = 0
  BY <1>1 DEF Appending
<1>5. CASE One(q) /\ Len(flash[q].element) # ELEMENTS
  <2>1. One(q)'
    BY <1>1, <1>3, <1>5, PagesKept
  <2>2. Len(flash'[q].element) + Appending' # ELEMENTS
    BY <1>1, <1>3, <1>4, <1>5, LenType
  <2> QED
    BY <1>1, <1>3, <2>1, <2>2 DEF Filling
<1>6. CASE Two(b)
  <2>1. Two(b)'
    BY <1>1, <1>3, <1>6, PagesKept
  <2> QED
    BY <1>1, <1>3, <2>1 DEF Using
<1> QED
  BY <1>5, <1>6 DEF Packed

\* The shape a step of the pack goes on from.
LEMMA PackShape ==
    ASSUME TypeInv, NEW c \in Pages, Shape(c), PackStep
    PROVE  \/ PackStart /\ Using(c)
           \/ (PackForCycle \/ PackCopied \/ PackFinalCheck) /\ Copying(c)
           \/ (PackErase1a \/ PackErase2a) /\ BothInUse(c)
           \/ (PackErase1b \/ PackErase2b) /\ PreviousInUse(c)
           \/ (PackAfterErase \/ PackStop) /\ Packed(c)
<1>1. /\ nvm = <<>> /\ triggered
      /\ PackStart => pack.state = "Start"
      /\ PackForCycle => pack.state = "ForCycle"
      /\ PackCopied => pack.state = "ForCycle"
      /\ PackFinalCheck => pack.state = "FinalCheck"
      /\ PackErase1a => pack.state = "Erase_1a"
      /\ PackErase2a => pack.state = "Erase_2a"
      /\ PackErase1b => pack.state = "Erase_1b"
      /\ PackErase2b => pack.state = "Erase_2b"
      /\ PackAfterErase => pack.state = "After_Erase"
      /\ PackStop => pack.state = "Stop"
  BY DEF PackStep, PackStart, PackForCycle, PackCopied, PackFinalCheck, PackErase1a, PackErase2a,
         PackErase1b, PackErase2b, PackErase, PackAfterErase, PackStop, Pack, Idle
<1>2. Using(c) \/ Copying(c) \/ Packed(c) \/ BothInUse(c) \/ PreviousInUse(c)
  BY <1>1, IdleShape DEF Shape, Filling
<1>3. BothInUse(c) => pack.state \in {"Erase_1a", "Erase_2a"}
  BY <1>1, IdleShape
<1>4. /\ Using(c) => pack.state = "Start"
      /\ Copying(c) => pack.state \in {"ForCycle", "FinalCheck"}
      /\ PreviousInUse(c) => pack.state \in {"Erase_1b", "Erase_2b"}
      /\ Packed(c) => pack.state \in {"After_Erase", "Stop"}
  BY DEF Using, Resting, NoPack, Copying, PreviousInUse, Packed
<1> QED
  BY <1>1, <1>2, <1>3, <1>4 DEF PackStep

\* Every step of the pack leads from a shape to a shape.
LEMMA PackSteps ==
    ASSUME TypeInv, FitInv, PageInv, PackStep, ~wounded'
    PROVE  PageInv'
<1>1. nvm = <<>>
  BY DEF PackStep, PackStart, PackForCycle, PackCopied, PackFinalCheck, PackErase1a, PackErase2a,
         PackErase1b, PackErase2b, PackErase, PackAfterErase, PackStop, Pack, Idle
<1>2. PICK c \in Pages : Shape(c)
  BY <1>1, FreshIsBusy DEF PageInv
<1>3. GetNextPage(c) \in Pages /\ GetPreviousPage(c) \in Pages
  BY PagesAround DEF Ring
<1>4. \E x \in Pages : Shape(x)'
  <2>1. CASE PackStart /\ Using(c)
    BY <2>1, PackStartStep DEF Shape
  <2>2. CASE PackForCycle /\ Copying(c)
    BY <2>2, PackForCycleStep DEF Shape
  <2>3. CASE PackCopied /\ Copying(c)
    BY <2>3, PackCopiedStep DEF Shape
  <2>4. CASE PackFinalCheck /\ Copying(c)
    BY <2>4, PackFinalCheckStep DEF Shape
  <2>5. CASE (PackErase1a \/ PackErase2a) /\ BothInUse(c)
    BY <2>5, PackEraseCurrentStep DEF Shape
  <2>6. CASE (PackErase1b \/ PackErase2b) /\ PreviousInUse(c)
    BY <2>6, PackErasePreviousStep DEF Shape
  <2>7. CASE PackAfterErase /\ Packed(c)
    BY <2>7, PackAfterEraseStep DEF Shape
  <2>8. CASE PackStop /\ Packed(c)
    BY <1>3, <2>8, PackStopStep DEF Shape
  <2> QED
    BY <1>2, <2>1, <2>2, <2>3, <2>4, <2>5, <2>6, <2>7, <2>8, PackShape
<1> QED
  BY <1>4 DEF PageInv

\* Reads and steps that change nothing keep the shape.
LEMMA ShapeStays ==
    ASSUME NEW c \in Pages, UNCHANGED << flash, nvm, triggered, running, pack, resets >>
    PROVE  /\ Filling(c) => Filling(c)'
           /\ LastWrite(c) => LastWrite(c)'
           /\ LateClose(c) => LateClose(c)'
           /\ Closed(c) => Closed(c)'
           /\ Using(c) => Using(c)'
           /\ BootErase(c) => BootErase(c)'
           /\ Copying(c) => Copying(c)'
           /\ Activating(c) => Activating(c)'
           /\ BothInUse(c) => BothInUse(c)'
           /\ PreviousInUse(c) => PreviousInUse(c)'
           /\ CopyInUse(c) => CopyInUse(c)'
           /\ Packed(c) => Packed(c)'
<1>1. GetNextPage(c) \in Pages /\ GetPreviousPage(c) \in Pages
  BY PagesAround DEF Ring
<1>2. /\ Resting => Resting'
      /\ Packing(c) => Packing(c)'
      /\ \A p, rest : Writing(p, rest) => Writing(p, rest)'
      /\ \A p, rest : Erased(p, rest) => Erased(p, rest)'
      /\ \A p : BlankPage(p) => BlankPage(p)'
      /\ Appending' = Appending
      /\ \A p : Copied(p) => Copied(p)'
      /\ Reopening(c)' = Reopening(c)
  BY DEF Resting, Packing, Writing, Erased, BlankPage, Available, Appending, Copied,
         Reopening
<1>3. Filling(c) => Filling(c)'
  BY <1>2, PagesKept DEF Filling
<1>4. LastWrite(c) => LastWrite(c)'
  BY <1>2, PagesKept DEF LastWrite
<1>5. LateClose(c) => LateClose(c)'
  BY <1>2, PagesKept DEF LateClose
<1>6. Closed(c) => Closed(c)'
  BY <1>2, PagesKept DEF Closed
<1>7. Using(c) => Using(c)'
  BY <1>2, PagesKept DEF Using
<1>8. BootErase(c) => BootErase(c)'
  BY <1>2, PagesKept DEF BootErase
<1>9. Copying(c) => Copying(c)'
  BY <1>2, PagesKept DEF Copying
<1>10. Activating(c) => Activating(c)'
  BY <1>2, PagesKept DEF Activating
<1>11. BothInUse(c) => BothInUse(c)'
  BY <1>2, PagesKept DEF BothInUse
<1>12. PreviousInUse(c) => PreviousInUse(c)'
  BY <1>2, PagesKept DEF PreviousInUse
<1>13. CopyInUse(c) => CopyInUse(c)'
  BY <1>2, PagesKept DEF CopyInUse
<1>14. Packed(c) => Packed(c)'
  BY <1>1, <1>2, PagesKept DEF Packed
<1> QED
  BY <1>3, <1>4, <1>5, <1>6, <1>7, <1>8, <1>9, <1>10, <1>11, <1>12, <1>13, <1>14

\* A fresh flash stays fresh while nothing happens.
LEMMA FreshStays ==
    ASSUME Fresh, UNCHANGED << flash, nvm, triggered, running, pack >>
    PROVE  Fresh'
  BY DEF Fresh, Resting, BlankPage, Available

\* The shape stays while nothing happens.
LEMMA NothingHappens ==
    ASSUME PageInv, UNCHANGED << flash, nvm, triggered, running, pack, resets >>
    PROVE  PageInv'
<1>1. CASE Fresh
  BY <1>1, FreshStays DEF PageInv
<1>2. ASSUME NEW c \in Pages, Shape(c) PROVE Shape(c)'
  BY <1>2, ShapeStays DEF Shape
<1> QED
  BY <1>1, <1>2 DEF PageInv

-----------------------------------------------------------------------------
(* The third part, under a reset.                                          *)

\* If there is an active page marked as current, some page is found.
LEMMA SomethingFound ==
    ASSUME NEW c \in Pages, flash[c].active, flash[c].current
    PROVE  \E x \in Pages : Found(x)
<1> SUFFICES ASSUME \A x \in Pages : ~Found(x) PROVE FALSE
  OBVIOUS
<1>1. Pages = {0, 1, 2}
  BY DEF Pages, DEE_PAGE_CNT
<1>2. ~(flash[2].active /\ flash[2].current)
  BY <1>1 DEF Found
<1>3. ~(flash[1].active /\ flash[1].current)
  BY <1>1, <1>2 DEF Found
<1>4. ~(flash[0].active /\ flash[0].current)
  BY <1>1, <1>2, <1>3 DEF Found
<1> QED
  BY <1>1, <1>2, <1>3, <1>4

\* The states init_dee finds the pages in, as long as a reset was survived.
Survived(c) == One(c) \/ Two(c) \/ Three(c)

\* What is left of an erasure that has begun.
LEMMA ErasedCutShort ==
    ASSUME NEW p \in Pages, NEW rest \in Seq(OpType), Erased(p, rest)
    PROVE  nvm # <<>> /\ Head(nvm).op \in {"erase_second", "count"}
<1> DEFINE E == Status("erase_second", p)
           C == Status("count", p)
<1>1. E \in OpType /\ C \in OpType /\ E.op = "erase_second" /\ C.op = "count"
  BY OpsTyped DEF StatusOps, Status, Op
<1>2. nvm = <<E, C>> \o rest \/ nvm = <<C>> \o rest
  BY DEF Erased
<1> HIDE DEF E, C
<1>3. /\ <<E, C>> \in Seq(OpType) /\ <<E, C>> # <<>> /\ Head(<<E, C>>) = E
      /\ <<C>> \in Seq(OpType) /\ <<C>> # <<>> /\ Head(<<C>>) = C
  BY <1>1
<1>4. nvm # <<>> /\ (Head(nvm) = E \/ Head(nvm) = C)
  BY <1>2, <1>3, ConcatHeadTail
<1> QED
  BY <1>1, <1>4

\* While one of the packed pages is erased and the copy is the page found, the
\* page before is in use as well or it is blank.
LEMMA CopySurvives ==
    ASSUME TypeInv, NEW c \in Pages, NEW q, NEW b, Ring(c, q, b), pack.current = c, pack.next = q,
           GetActiveCurrentPage = q, ClosedIsFull, AllCounted,
           BlankPage(c), flash[b].active \/ BlankPage(b)
    PROVE  Survived(q)
<1>1. /\ q \in Pages /\ b \in Pages /\ q # NoPage
      /\ GetNextPage(q) = b /\ GetPreviousPage(q) = c
  BY PagesAround
<1>2. Found(q)
  BY <1>1, CurrentIsFound
<1>3. CASE flash[b].active
  BY <1>1, <1>2, <1>3 DEF Survived, Two
<1>4. CASE BlankPage(b)
  BY <1>1, <1>2, <1>4 DEF Survived, One
<1> QED
  BY <1>3, <1>4

\* What is left of the shapes where a reset may cut a function short.
LEMMA SurvivedShape ==
    ASSUME TypeInv, NEW c \in Pages, ~CutsShort
    PROVE  /\ ~Closed(c)
           /\ BootErase(c) => Three(c)
           /\ PreviousInUse(c) \/ CopyInUse(c) =>
                 /\ GetActiveCurrentPage = GetNextPage(c)
                 /\ pack.current = c /\ pack.next = GetNextPage(c)
                 /\ AllCounted /\ ClosedIsFull /\ BlankPage(c)
                 /\ flash[GetPreviousPage(c)].active \/ BlankPage(GetPreviousPage(c))
<1> DEFINE q == GetNextPage(c)
           b == GetPreviousPage(c)
<1>1. /\ Ring(c, q, b) /\ q \in Pages /\ b \in Pages /\ q # c /\ b # c /\ b # q
      /\ Pages = {c, q, b}
  BY PagesAround DEF Ring
<1>3. /\ <<>> \in Seq(OpType)
      /\ \A p \in Pages : << Status("activate", p) >> \in Seq(OpType) /\ << Status("activate", p) >> # <<>>
      /\ \A p \in Pages, a \in Addr, v \in Val : WriteElement(p, a, v) \in Seq(OpType)
  BY OpsTyped
<1>4. \A p \in Pages : flash[p].active => ActivePages # {}
  BY DEF ActivePages
<1>5. BootErase(c) => ~Erased(q, <<>>)
  <2> SUFFICES ASSUME BootErase(c), Erased(q, <<>>) PROVE FALSE
    OBVIOUS
  <2>1. nvm # <<>> /\ Head(nvm).op \in {"erase_second", "count"}
    BY <1>1, <1>3, ErasedCutShort
  <2>2. ActivePages # {} /\ pack.state # "Erase_1a"
    BY <1>4 DEF BootErase, Found, Resting, NoPack
  <2> QED
    BY <2>1, <2>2 DEF CutsShort
<1>9. BootErase(c) => Three(c)
  BY <1>1, <1>5 DEF BootErase, Three, AllCounted, Found
<1>6. ~Closed(c)
  <2> SUFFICES ASSUME Closed(c) PROVE FALSE
    OBVIOUS
  <2>1. \E rest \in Seq(OpType) : nvm = << Status("activate", q) >> \o rest
    <3>1. << Status("activate", q) >> \o <<>> = << Status("activate", q) >>
      BY <1>1, <1>3, ConcatEmptySeq
    <3> QED
      BY <1>1, <1>3, <3>1 DEF Closed
  <2>2. nvm # <<>> /\ Head(nvm) = Status("activate", q)
    <3>1. Head(<< Status("activate", q) >>) = Status("activate", q)
      OBVIOUS
    <3> QED
      BY <1>1, <1>3, <2>1, <3>1, ConcatHeadTail
  <2>3. ActivePages # {} /\ pack.state # "Erase_1a" /\ Head(nvm).op = "activate"
    BY <1>4, <2>2 DEF Closed, Resting, NoPack, Status, Op
  <2> QED
    BY <2>2, <2>3 DEF CutsShort
<1>7. ASSUME PreviousInUse(c)
      PROVE  GetActiveCurrentPage = q /\ pack.current = c /\ pack.next = q
             /\ AllCounted /\ ClosedIsFull /\ BlankPage(c) /\ (flash[b].active \/ BlankPage(b))
  <2>1. /\ pack.current = c /\ pack.next = q /\ pack.state \in {"Erase_1b", "Erase_2b"}
        /\ ClosedIsFull /\ flash[q].active /\ flash[q].counted /\ flash[b].counted
        /\ flash[b].active \/ BlankPage(b)
    BY <1>7 DEF PreviousInUse, Packing, Copied
  <2>2. ~Erased(c, <<>>)
    <3> SUFFICES ASSUME Erased(c, <<>>) PROVE FALSE
      OBVIOUS
    <3>1. nvm # <<>> /\ Head(nvm).op \in {"erase_second", "count"}
      BY <1>3, ErasedCutShort
    <3> QED
      BY <1>1, <1>4, <2>1, <3>1 DEF CutsShort
  <2>3. BlankPage(c) /\ nvm = <<>> /\ flash[c].counted
    BY <1>7, <2>2 DEF PreviousInUse
  <2>4. HalfErased
    BY <2>1, <2>3 DEF HalfErased, BlankPage, Available, Idle
  <2>5. GetActiveCurrentPage = q
    BY <2>1, <2>4 DEF CutsShort
  <2>6. AllCounted
    BY <1>1, <2>1, <2>3 DEF AllCounted
  <2> QED
    BY <2>1, <2>3, <2>5, <2>6
<1>8. ASSUME CopyInUse(c)
      PROVE  GetActiveCurrentPage = q /\ pack.current = c /\ pack.next = q
             /\ AllCounted /\ ClosedIsFull /\ BlankPage(c) /\ (flash[b].active \/ BlankPage(b))
  <2>1. PICK rest : rest = Reopening(c)
    OBVIOUS
  <2>2. rest \in Seq(OpType) /\ (rest # <<>> => rest = << Status("activate", b) >>)
    BY <1>1, <1>3, <2>1 DEF Reopening
  <2>3. /\ pack.current = c /\ pack.next = q /\ pack.state = "After_Erase"
        /\ ClosedIsFull /\ flash[q].active /\ flash[q].counted /\ BlankPage(c) /\ flash[c].counted
        /\ \/ /\ flash[b].counted /\ (flash[b].active \/ BlankPage(b))
              /\ nvm = EraseOps(b) \o rest
           \/ Erased(b, rest)
           \/ nvm = rest /\ nvm # <<>>
    BY <1>8, <2>1 DEF CopyInUse, Packing
  <2>4. ~Erased(b, rest)
    <3> SUFFICES ASSUME Erased(b, rest) PROVE FALSE
      OBVIOUS
    <3>1. nvm # <<>> /\ Head(nvm).op \in {"erase_second", "count"}
      BY <1>1, <2>2, ErasedCutShort
    <3> QED
      BY <1>1, <1>4, <2>3, <3>1 DEF CutsShort
  <2>5. ~(nvm = rest /\ nvm # <<>>)
    <3> SUFFICES ASSUME nvm = rest, nvm # <<>> PROVE FALSE
      OBVIOUS
    <3>1. Head(nvm) = Status("activate", b)
      BY <2>2
    <3>2. Head(nvm).op = "activate"
      BY <3>1 DEF Status, Op
    <3> QED
      BY <1>1, <1>4, <2>3, <3>2 DEF CutsShort
  <2>6. flash[b].counted /\ (flash[b].active \/ BlankPage(b)) /\ nvm = EraseOps(b) \o rest
    BY <2>3, <2>4, <2>5
  <2>7. nvm # <<>>
    BY <1>1, <2>2, <2>6, NotIdle
  <2>8. HalfErased
    BY <2>3, <2>7 DEF HalfErased, BlankPage, Available, Idle
  <2>9. GetActiveCurrentPage = q
    BY <2>3, <2>8 DEF CutsShort
  <2>10. AllCounted
    BY <1>1, <2>3, <2>6 DEF AllCounted
  <2> QED
    BY <2>3, <2>6, <2>9, <2>10
<1> QED
  BY <1>6, <1>7, <1>8, <1>9

\* The page the pages are found with, shape by shape.
LEMMA SurvivedWhere ==
    ASSUME TypeInv, FitInv, NEW c \in Pages, ~CutsShort
    PROVE  LET q == GetNextPage(c)
               b == GetPreviousPage(c)
           IN  /\ Filling(c) \/ LastWrite(c) \/ LateClose(c) \/ Using(c) => Survived(c)
               /\ BootErase(c) \/ Copying(c) \/ Activating(c) => Survived(c)
               /\ BothInUse(c) => Survived(c) \/ Survived(q)
               /\ PreviousInUse(c) \/ CopyInUse(c) => Survived(q)
               /\ Packed(c) => (One(q) /\ Survived(q)) \/ (Two(b) /\ Survived(b))
<1> DEFINE q == GetNextPage(c)
           b == GetPreviousPage(c)
<1>1. /\ Ring(c, q, b) /\ q \in Pages /\ b \in Pages /\ q # c /\ b # c /\ b # q
      /\ Pages = {c, q, b} /\ q # NoPage /\ \A p \in Pages : p \in Int
  BY PagesAround DEF Ring, Pages, DEE_PAGE_CNT
<1>3. /\ <<>> \in Seq(OpType)
      /\ \A p \in Pages : << Status("activate", p) >> \in Seq(OpType) /\ << Status("activate", p) >> # <<>>
      /\ \A p \in Pages, a \in Addr, v \in Val : WriteElement(p, a, v) \in Seq(OpType)
  BY OpsTyped
<1>4. \A p \in Pages : flash[p].active => ActivePages # {}
  BY DEF ActivePages
<1>5. Filling(c) \/ LastWrite(c) \/ LateClose(c) => Survived(c)
  BY DEF Filling, LastWrite, LateClose, Survived
<1>7. Using(c) => Survived(c)
  BY DEF Using, Survived
<1>8. BootErase(c) => Survived(c)
  BY SurvivedShape DEF Survived
<1>9. Copying(c) \/ Activating(c) => Survived(c)
  BY DEF Copying, Activating, Survived
<1>10. ASSUME BothInUse(c) PROVE Survived(c) \/ Survived(q)
  <2>1. /\ flash[c].active /\ flash[c].current /\ flash[q].active /\ AllCounted /\ ClosedIsFull
        /\ \/ flash[b].active /\ (flash[b].current => b < c)
           \/ BlankPage(b) /\ (flash[q].current => q < c)
    BY <1>10 DEF BothInUse, Copied
  <2>2. PICK x \in Pages : Found(x)
    BY <2>1, SomethingFound
  <2>3. c <= x /\ flash[x].active /\ flash[x].current
    BY <2>1, <2>2 DEF Found
  <2>4. CASE flash[b].active
    <3>1. \A p \in Pages : flash[p].active
      BY <1>1, <2>1, <2>4
    <3>2. Three(x)
      BY <2>1, <2>2, <3>1 DEF Three
    <3>3. x # b
      BY <1>1, <2>1, <2>3, <2>4 DEF BlankPage, Available
    <3> QED
      BY <1>1, <3>2, <3>3 DEF Survived
  <2>5. CASE ~flash[b].active
    <3>1. BlankPage(b) /\ (flash[q].current => q < c)
      BY <2>1, <2>5
    <3>2. x # b /\ x # q
      BY <1>1, <2>3, <2>5, <3>1
    <3>3. Found(c)
      BY <1>1, <2>2, <3>2
    <3>4. Two(c)
      BY <2>1, <3>1, <3>3 DEF Two
    <3> QED
      BY <2>1, <3>4 DEF Survived
  <2> QED
    BY <2>4, <2>5
<1>11. PreviousInUse(c) \/ CopyInUse(c) => Survived(q)
  BY <1>1, SurvivedShape, CopySurvives
<1>13. Packed(c) => (One(q) /\ Survived(q)) \/ (Two(b) /\ Survived(b))
  BY DEF Packed, Survived
<1> QED
  BY <1>5, <1>7, <1>8, <1>9, <1>10, <1>11, <1>13

\* A reset that is not one of the fatal ones finds a blank flash or pages to go on
\* from.
LEMMA SurvivedReset ==
    ASSUME TypeInv, FitInv, PageInv, ~CutsShort
    PROVE  (\A p \in Pages : BlankPage(p)) \/ (\E x \in Pages : Survived(x))
<1>1. CASE Fresh
  BY <1>1 DEF Fresh
<1>2. ASSUME NEW c \in Pages, Shape(c)
      PROVE  \E x \in Pages : Survived(x)
  <2>1. GetNextPage(c) \in Pages /\ GetPreviousPage(c) \in Pages
    BY PagesAround DEF Ring
  <2>2. ~Closed(c)
    BY SurvivedShape
  <2> QED
    BY <1>2, <2>1, <2>2, SurvivedWhere DEF Shape
<1> QED
  BY <1>1, <1>2 DEF PageInv

\* init_dee goes by the number of active pages and the page found.
LEMMA BootReads ==
    ASSUME TypeInv, Reset
    PROVE  /\ UNCHANGED flash /\ Resting' /\ resets' = resets + 1 /\ resets \in 0 .. MaxResets
           /\ resets' > 0
           /\ nvm' = CASE GetActiveCurrentPageCount = 0 -> FreshPages
                       [] GetActiveCurrentPageCount = DEE_PAGE_CNT /\ GetActiveCurrentPage # NoPage ->
                             ErasePage(GetNextPage(GetActiveCurrentPage))
                       [] OTHER -> <<>>
           /\ triggered' = (GetActiveCurrentPageCount = DEE_PAGE_CNT
                              /\ GetIndexOfEmptyDataElement(GetActiveCurrentPage) = NoElement)
<1>1. /\ UNCHANGED flash /\ Resting' /\ resets' = resets + 1 /\ resets \in 0 .. MaxResets
      /\ resets' > 0
  BY DEF Reset, Resting, TypeInv, TypeOK
<1>2. /\ nvm' = CASE GetActiveCurrentPageCount = 0 -> FreshPages
                  [] GetActiveCurrentPageCount = DEE_PAGE_CNT /\ GetActiveCurrentPage # NoPage ->
                        ErasePage(GetNextPage(GetActiveCurrentPage))
                  [] OTHER -> <<>>
      /\ triggered' = (GetActiveCurrentPageCount = DEE_PAGE_CNT
                         /\ GetIndexOfEmptyDataElement(GetActiveCurrentPage) = NoElement)
  BY DEF Reset, Boot
<1> QED
  BY <1>1, <1>2

\* init_dee finds no page in use, or the pages of a survivor.
LEMMA BlankReset ==
    ASSUME TypeInv, Reset, \A p \in Pages : BlankPage(p)
    PROVE  Fresh'
<1>1. 0 \in Pages /\ Pages = {0, 1, 2}
  BY DEF Pages, DEE_PAGE_CNT
<1>2. GetActiveCurrentPageCount = ActiveIs(0) + ActiveIs(GetNextPage(0)) + ActiveIs(GetPreviousPage(0))
  BY <1>1, PageCount DEF Ring
<1>3. GetNextPage(0) \in Pages /\ GetPreviousPage(0) \in Pages
  BY <1>1, PagesAround DEF Ring
<1>4. GetActiveCurrentPageCount = 0
  BY <1>1, <1>2, <1>3 DEF ActiveIs, BlankPage, Available
<1>5. nvm' = FreshPages /\ ~triggered'
  <2>1. GetActiveCurrentPageCount # DEE_PAGE_CNT
    BY <1>4 DEF DEE_PAGE_CNT
  <2>2. ~triggered'
    BY <2>1, BootReads
  <2>3. nvm' = FreshPages
    BY <1>4, <2>1, BootReads, Zenon
  <2> QED
    BY <2>2, <2>3
<1>6. nvm' = SubSeq(FreshPages, 1, 13)
  BY <1>5, FreshPagesAre, SubSeqFull
<1>7. \A p \in Pages : BlankPage(p)' /\ ~(1 > 4 * p + 4)
  BY <1>1, PagesKept, BootReads
<1>8. 1 \in 1 .. 13
  OBVIOUS
<1>9. Fresh'
  BY <1>5, <1>6, <1>7, <1>8, BootReads DEF Fresh
<1> QED
  BY <1>9

\* The shape init_dee makes of the pages it finds.
LEMMA SurvivorReset ==
    ASSUME TypeInv, Reset, NEW x \in Pages, Survived(x)
    PROVE  \/ One(x) /\ Filling(x)' /\ nvm' = <<>>
           \/ Two(x) /\ Using(x)' /\ nvm' = <<>>
           \/ BootErase(x)'
<1> DEFINE q == GetNextPage(x)
           b == GetPreviousPage(x)
<1>1. Ring(x, q, b) /\ q \in Pages /\ b \in Pages /\ x # NoPage /\ Pages = {x, q, b}
  BY PagesAround DEF Ring
<1>3. CASE One(x)
  <2>0. GetActiveCurrentPageCount # 0 /\ GetActiveCurrentPageCount # DEE_PAGE_CNT
    BY <1>3, PagesInUse DEF DEE_PAGE_CNT
  <2>1. nvm' = <<>> /\ ~triggered'
    BY <2>0, BootReads
  <2>2. One(x)'
    BY <1>3, PagesKept, BootReads
  <2> QED
    BY <1>3, <2>1, <2>2, BootReads DEF Filling
<1>4. CASE Two(x)
  <2>0. GetActiveCurrentPageCount # 0 /\ GetActiveCurrentPageCount # DEE_PAGE_CNT
    BY <1>4, PagesInUse DEF DEE_PAGE_CNT
  <2>1. nvm' = <<>>
    BY <2>0, BootReads
  <2>2. Two(x)'
    BY <1>4, PagesKept, BootReads
  <2> QED
    BY <1>4, <2>1, <2>2, BootReads DEF Using
<1>5. CASE Three(x)
  <2>1. /\ Found(x) /\ AllCounted /\ ClosedIsFull /\ flash[x].active /\ flash[q].active /\ flash[b].active
        /\ flash[q].counted
    BY <1>1, <1>5 DEF Three, AllCounted
  <2>2. GetActiveCurrentPage = x /\ GetActiveCurrentPageCount = DEE_PAGE_CNT
    <3>1. GetActiveCurrentPageCount = ActiveIs(x) + ActiveIs(q) + ActiveIs(b)
      BY <1>1, PageCount
    <3> QED
      BY <2>1, <3>1, FoundIsCurrent DEF ActiveIs, DEE_PAGE_CNT
  <2>3. nvm' = EraseOps(q)
    BY <1>1, <2>1, <2>2, BootReads DEF ErasePage, EraseOps, DEE_PAGE_CNT
  <2>9. Found(x)' /\ ClosedIsFull' /\ AllCounted'
    BY <2>1, PagesKept, BootReads
  <2>10. BootErase(x)'
    BY <1>1, <2>1, <2>3, <2>9, BootReads DEF BootErase, AllCounted
  <2> QED
    BY <2>10
<1> QED
  BY <1>3, <1>4, <1>5 DEF Survived

\* Every survived reset leads from a shape to a shape.
LEMMA ResetStep ==
    ASSUME TypeInv, FitInv, PageInv, Reset, ~CutsShort
    PROVE  PageInv'
  BY SurvivedReset, BlankReset, SurvivorReset DEF PageInv, Shape

-----------------------------------------------------------------------------
(* The theorems.                                                           *)

\* What is fatal stays fatal.
LEMMA WoundsStay == [Next]_vars /\ wounded => wounded'
<1> SUFFICES ASSUME [Next]_vars, wounded PROVE wounded'
  OBVIOUS
<1>1. CASE FlashOperation
  BY <1>1 DEF FlashOperation
<1>2. (\E a, v : WriteWord(a, v)) => wounded'
  BY DEF WriteWord
<1>7. /\ WriteDeferred => wounded'
      /\ \A a \in Used, b \in Byte : Write(a, b) \/ Defer(a, b) => wounded'
  BY <1>2 DEF Write, Defer, WriteDeferred
<1>3. ASSUME NEW a \in Used, Read(a) PROVE wounded'
  BY <1>3 DEF Read
<1>4. CASE PackStep
  BY <1>4 DEF PackStep, PackStart, PackForCycle, PackCopied, PackFinalCheck, PackErase,
         PackErase1a, PackErase1b, PackErase2a, PackErase2b, PackAfterErase, PackStop
<1>5. CASE Reset
  BY <1>5 DEF Reset
<1>6. CASE UNCHANGED vars
  BY <1>6 DEF vars
<1> QED
  BY <1>1, <1>3, <1>4, <1>5, <1>6, <1>7 DEF Next

\* The program starts with a fresh flash.
LEMMA InitIsFresh == Init => Fresh
<1> SUFFICES ASSUME Init PROVE Fresh
  OBVIOUS
<1>1. Pages = {0, 1, 2}
  BY DEF Pages, DEE_PAGE_CNT
<1>2. Resting /\ ~triggered /\ \A p \in Pages : BlankPage(p)
  BY DEF Init, Resting, BlankPage, Available
<1>3. nvm = SubSeq(FreshPages, 1, 13)
  BY FreshPagesAre, SubSeqFull DEF Init
<1>4. 1 \in 1 .. 13 /\ \A p \in Pages : ~(1 > 4 * p + 4)
  BY <1>1
<1> QED
  BY <1>2, <1>3, <1>4 DEF Fresh

\* The invariant holds at the start.
LEMMA IInvInit == Init => IInv
  BY TypeInit, FitInit, InitIsFresh DEF IInv, PageInv

\* Every step keeps the invariant.
LEMMA IInvNext == IInv /\ [Next]_vars => IInv'
<1> SUFFICES ASSUME IInv, [Next]_vars PROVE IInv'
  OBVIOUS
<1>1. TypeInv /\ FitInv /\ TypeInv' /\ FitInv'
  BY TypeStep, FitStep DEF IInv
<1>2. ASSUME ~wounded' PROVE PageInv'
  <2>1. PageInv
    BY <1>2, WoundsStay DEF IInv
  <2>2. CASE FlashOperation
    BY <1>1, <2>1, <2>2, FlashStep
  <2>3. ASSUME NEW a \in Used, NEW v \in Val, StoresWord(a, v) PROVE PageInv'
    BY <1>1, <1>2, <2>1, <2>3, WriteStep
  <2>4. ASSUME NEW a \in Used, Read(a) PROVE PageInv'
    BY <2>1, <2>4, NothingHappens DEF Read
  <2>5. CASE PackStep
    BY <1>1, <1>2, <2>1, <2>5, PackSteps
  <2>6. CASE Reset
    <3>1. ~CutsShort
      BY <1>2, <2>6 DEF Reset
    <3> QED
      BY <1>1, <2>1, <2>6, <3>1, ResetStep
  <2>7. CASE BufferOnly
    BY <2>1, <2>7, NothingHappens DEF BufferOnly, ram
  <2> QED
    BY <1>1, <2>2, <2>3, <2>4, <2>5, <2>6, <2>7, Steps DEF TypeInv
<1> QED
  BY <1>1, <1>2 DEF IInv

\* In every reachable state the pages, what is to come of the function in
\* progress and the state of the pack are one of the thirteen shapes of PageInv,
\* unless something fatal happened, and no page overflows even then.
THEOREM PageInvariant == Spec => []IInv
  BY IInvInit, IInvNext, PTL DEF Spec

\* The variables of the driver keep their types.
THEOREM TypeCorrect == Spec => []TypeOK
<1>1. IInv => TypeOK
  BY DEF IInv, TypeInv
<1> QED
  BY <1>1, PageInvariant, PTL

\* While the store is intact, dee_read_eeprom and dee_write_eeprom find a page
\* whenever no function is running, except between the erasures of a full copy.
THEOREM CurrentPageExists == Spec => []HasCurrentPage
<1>1. IInv => HasCurrentPage
  <2> SUFFICES ASSUME IInv, ~wounded, nvm = <<>>, GetActiveCurrentPage = NoPage
               PROVE  pack.state = "Erase_2b"
    BY DEF HasCurrentPage, Idle
  <2>1. PICK c \in Pages :
            \/ Filling(c) \/ Using(c) \/ Copying(c) \/ Packed(c)
            \/ BothInUse(c)
            \/ PreviousInUse(c)
    BY IdleShapes DEF IInv
  <2> DEFINE q == GetNextPage(c)
             b == GetPreviousPage(c)
  <2>2. q \in Pages /\ b \in Pages /\ \A p \in Pages : p # NoPage
    BY PagesAround DEF Ring
  <2>3. \A p \in Pages : ~One(p) /\ ~Two(p)
    BY <2>2, PagesInUse
  <2>4. \A p \in Pages : ~(flash[p].active /\ flash[p].current)
    <3> SUFFICES ASSUME NEW p \in Pages, flash[p].active, flash[p].current PROVE FALSE
      OBVIOUS
    <3>1. PICK x \in Pages : Found(x)
      BY SomethingFound
    <3> QED
      BY <2>2, <3>1, FoundIsCurrent
  <2>5. ~Filling(c) /\ ~Using(c) /\ ~Copying(c) /\ ~Packed(c)
    BY <2>2, <2>3 DEF Filling, Using, Copying, Packed
  <2>6. ~BothInUse(c)
    BY <2>4 DEF BothInUse
  <2>7. PreviousInUse(c) => pack.state = "Erase_2b"
    BY <2>2, <2>4 DEF PreviousInUse, Copied
  <2> QED
    BY <2>1, <2>5, <2>6, <2>7
<1> QED
  BY <1>1, PageInvariant, PTL

\* Until a write overruns the second page, or another fatal event, PackEE_async
\* never starts with one or with three active pages, the cases in which it gives
\* up and leaves dee_pack_triggered to the next write; whatever resets preceded.
THEOREM PackFindsTwoPages == Spec => []TriggeredPackCanRun
<1>1. IInv => TriggeredPackCanRun
  <2> SUFFICES ASSUME IInv, ~wounded, nvm = <<>>, triggered, pack.state = "Start"
               PROVE  GetActiveCurrentPage # NoPage /\ GetActiveCurrentPageCount = DEE_PAGE_CNT - 1
    BY DEF TriggeredPackCanRun, Idle
  <2>1. PICK c \in Pages : Using(c)
    BY IdleShapes DEF IInv, Filling, Copying, Packed, BothInUse, PreviousInUse
  <2>2. GetActiveCurrentPage = c /\ GetActiveCurrentPageCount = 2 /\ c # NoPage
    BY <2>1, PagesInUse, PagesAround DEF Using, Ring
  <2> QED
    BY <2>2 DEF DEE_PAGE_CNT
<1> QED
  BY <1>1, PageInvariant, PTL

\* The step that ends a pack finds both packed pages erased: the erasures were
\* carried out, and nothing was written to the pages since.
THEOREM PackedPagesAreBlank == Spec => PackLeavesBlankPages
<1> DEFINE P == running /\ ~running' /\ ~wounded' /\ resets' = resets
                => \A p \in Pages \cap {pack.current, GetPreviousPage(pack.current)} :
                       flash'[p].element = <<>>
<1>1. IInv /\ [Next]_vars => P
  <2> SUFFICES ASSUME IInv, [Next]_vars, running, ~running', ~wounded', resets' = resets
               PROVE  \A p \in Pages \cap {pack.current, GetPreviousPage(pack.current)} :
                          flash'[p].element = <<>>
    OBVIOUS
  <2>1. PackStop
    <3>1. ~FlashOperation /\ ~BufferOnly
      BY DEF FlashOperation, ram, BufferOnly
    <3>2. (\A a \in Used, v \in Val : ~StoresWord(a, v)) /\ (\A a \in Used : ~Read(a))
      BY DEF StoresWord, WriteWord, Read
    <3>3. ~Reset
      <4>1. resets \in Int
        BY MaxResetsAssumption DEF IInv, TypeInv, TypeOK
      <4> QED
        BY <4>1 DEF Reset
    <3>4. ~(\/ PackStart \/ PackForCycle \/ PackCopied \/ PackFinalCheck
            \/ PackErase1a \/ PackErase1b \/ PackErase2a \/ PackErase2b \/ PackAfterErase)
      BY DEF PackStart, PackForCycle, PackCopied, PackFinalCheck, PackErase,
             PackErase1a, PackErase1b, PackErase2a, PackErase2b, PackAfterErase
    <3> QED
      BY <3>1, <3>2, <3>3, <3>4, Steps DEF PackStep, IInv, TypeInv
  <2>2. nvm = <<>> /\ pack.state = "Stop" /\ flash' = flash
    BY <2>1 DEF PackStop, Pack, Idle
  <2>3. PICK c \in Pages : Packed(c)
    <3>1. TypeInv /\ PageInv
      BY WoundsStay DEF IInv
    <3> QED
      BY <2>2, <3>1, IdleShapes DEF Filling, Using, Resting, NoPack, Copying, BothInUse, PreviousInUse
  <2> QED
    BY <2>2, <2>3 DEF Packed, Packing
<1>2. []IInv /\ [][Next]_vars => [][P]_vars
  BY <1>1, PTL
<1> QED
  BY <1>2, PageInvariant, PTL DEF Spec, PackLeavesBlankPages

-----------------------------------------------------------------------------
(* What the pages say.  The shapes above go without the data; the data     *)
(* follow them, shape by shape.                                            *)

\* What a read finds with page c as the current one, and with the page before
\* in use as well or blank.
Stored(c, a) == IF Newest(c, a) # Blank THEN Newest(c, a) ELSE Newest(GetPreviousPage(c), a)

IsPending(a, v) == pending = {[addr |-> a, val |-> v]}

\* The last element of page p is one of address a whose CRC is still to come.
Torn(p, a, d) ==
    LET s == flash[p].element
    IN  s # <<>> /\ s[Len(s)] = [addr |-> a, data |-> d, crc |-> Blank]

\* Writing, for a word and with what is already programmed of it.
Word(p, a, v, rest) ==
    \/ nvm = << Op("addr", p, a), Op("data", p, v), Op("crc", p, v) >> \o rest
    \/ nvm = << Op("data", p, v), Op("crc", p, v) >> \o rest /\ Torn(p, a, Blank)
    \/ nvm = << Op("crc", p, v) >> \o rest /\ Torn(p, a, v)

\* The word being written is the one the caller asked for; or nothing is written.
Own(p, rest) == \E a \in Used, v \in Val : Word(p, a, v, rest) /\ IsPending(a, v)
AtRest == nvm = <<>> /\ pending = {}

\* The caller's word is stored, though the function has not returned yet.
Held(c) == pending = {} \/ \E a \in Used, v \in Val : IsPending(a, v) /\ Stored(c, a) = v

\* The next page holds no address that is not stored in the two in use: what is
\* left there of a pack that was cut short cannot come back.
Known(c) == \A a \in Addr : Newest(GetNextPage(c), a) # Blank => Stored(c, a) # Blank

\* The addresses below n are copied.
CopiedBelow(c, n) == \A a \in Addr : a < n => Newest(GetNextPage(c), a) = Stored(c, a)
Complete(c) == \A a \in Addr : Newest(GetNextPage(c), a) = Stored(c, a)

\* The older one of the packed pages says nothing the copy does not say.
Superseded(c) ==
    \A a \in Addr : Newest(GetPreviousPage(c), a) # Blank => Newest(GetNextPage(c), a) # Blank

FillingData(c) == Filling(c) /\ (AtRest \/ Own(c, <<>>))

LastWriteData(c) ==
    /\ LastWrite(c)
    /\ \/ Own(c, Dee_CloseCurrentPage(c, GetNextPage(c)))
       \/ nvm = Dee_CloseCurrentPage(c, GetNextPage(c)) /\ Held(c)

LateCloseData(c) ==
    /\ LateClose(c)
    /\ \E a \in Used, v \in Val :
          /\ nvm = Dee_CloseCurrentPage(c, GetNextPage(c)) \o WriteElement(GetNextPage(c), a, v)
          /\ IsPending(a, v)

ClosedData(c) ==
    /\ Closed(c)
    /\ \/ nvm = << Status("activate", GetNextPage(c)) >> /\ Held(GetNextPage(c))
       \/ \E a \in Used, v \in Val :
             /\ nvm = << Status("activate", GetNextPage(c)) >> \o WriteElement(GetNextPage(c), a, v)
             /\ IsPending(a, v)

UsingData(c) == Using(c) /\ Known(c) /\ (AtRest \/ Own(c, <<>>))

CopyingData(c) ==
    /\ Copying(c) /\ Known(c) /\ pending = {}
    /\ pack.state = "FinalCheck" => pack.addr = SIZE
    /\ \/ nvm = <<>> /\ CopiedBelow(c, pack.addr)
       \/ \E a \in Addr, v \in Val :
             /\ Word(GetNextPage(c), a, v, <<>>)
             /\ pack.addr = a + 1 /\ v = Stored(c, a) /\ CopiedBelow(c, a)

DataShape(c) ==
    \/ FillingData(c) \/ LastWriteData(c) \/ LateCloseData(c) \/ ClosedData(c)
    \/ UsingData(c) \/ CopyingData(c)
    \/ /\ pending = {}
       /\ \/ BootErase(c) \/ Packed(c)
          \/ (Activating(c) \/ BothInUse(c)) /\ Complete(c)
          \/ (PreviousInUse(c) \/ CopyInUse(c)) /\ Superseded(c)

DataInv == (Fresh /\ pending = {}) \/ \E c \in Pages : DataShape(c)

-----------------------------------------------------------------------------
(* What a page says of an address, as a sequence of elements.              *)

IsGood(e, a) == e.addr = a /\ e.data # Blank /\ e.data = e.crc
GoodIn(s, a) == {i \in DOMAIN s : IsGood(s[i], a)}
NewestIn(s, a) == IF GoodIn(s, a) = {} THEN Blank ELSE s[Max(GoodIn(s, a))].data

\* The newest good element of an address, as a matter of the sequence alone.
LEMMA NewestOf == \A p \in Pages : \A a : Newest(p, a) = NewestIn(flash[p].element, a)
<1> SUFFICES ASSUME NEW p \in Pages, NEW a PROVE Newest(p, a) = NewestIn(flash[p].element, a)
  OBVIOUS
<1>1. Good(p, a) = GoodIn(flash[p].element, a)
  BY DEF Good, Hits, GoodIn, IsGood
<1> QED
  BY <1>1 DEF Newest, NewestIn

\* The same in the next state.
LEMMA NewestOfNext == \A p \in Pages : \A a : Newest(p, a)' = NewestIn(flash'[p].element, a)
<1> SUFFICES ASSUME NEW p \in Pages, NEW a PROVE Newest(p, a)' = NewestIn(flash'[p].element, a)
  OBVIOUS
<1>1. Good(p, a)' = GoodIn(flash'[p].element, a)
  BY DEF Good, Hits, GoodIn, IsGood
<1> QED
  BY <1>1 DEF Newest, NewestIn

\* A sequence without elements says nothing of any address.
LEMMA NothingSaid == \A a : NewestIn(<<>>, a) = Blank
  BY DEF NewestIn, GoodIn

\* The same good elements say the same.
LEMMA SameGood ==
    ASSUME NEW s \in Seq(Element), NEW t \in Seq(Element), NEW a, GoodIn(t, a) = GoodIn(s, a),
           \A i \in GoodIn(s, a) : t[i].data = s[i].data
    PROVE  NewestIn(t, a) = NewestIn(s, a)
<1>1. CASE GoodIn(s, a) = {}
  BY <1>1 DEF NewestIn
<1>2. CASE GoodIn(s, a) # {}
  <2>1. GoodIn(s, a) \subseteq 1 .. Len(s) /\ Len(s) \in Nat
    BY DEF GoodIn
  <2>2. Max(GoodIn(s, a)) \in GoodIn(s, a)
    BY <1>2, <2>1, LargestIndex
  <2> QED
    BY <1>2, <2>2 DEF NewestIn
<1> QED
  BY <1>1, <1>2

\* The address of an element without a CRC word changes nothing.
LEMMA AddressSays ==
    ASSUME NEW s \in Seq(Element), NEW a \in Addr, NEW x
    PROVE  NewestIn(Append(s, [addr |-> a, data |-> Blank, crc |-> Blank]), x) = NewestIn(s, x)
<1> DEFINE e == [addr |-> a, data |-> Blank, crc |-> Blank]
           t == Append(s, e)
           n == Len(s)
<1>1. e \in Element /\ ~IsGood(e, x)
  BY DEF Element, IsGood
<1> HIDE DEF e
<1>2. /\ t \in Seq(Element) /\ Len(t) = n + 1 /\ n \in Nat
      /\ \A i \in 1 .. n : t[i] = s[i]
      /\ t[n + 1] = e
  BY <1>1, AppendProperties
<1> HIDE DEF t
<1>3. DOMAIN t = 1 .. n + 1 /\ DOMAIN s = 1 .. n
  BY <1>2
<1>4. GoodIn(t, x) = GoodIn(s, x)
  <2>1. \A i \in GoodIn(t, x) : i \in GoodIn(s, x)
    <3> TAKE i \in GoodIn(t, x)
    <3>1. i \in 1 .. n + 1 /\ IsGood(t[i], x)
      BY <1>3 DEF GoodIn
    <3>2. i # n + 1
      BY <1>1, <1>2, <3>1
    <3>3. i \in 1 .. n
      BY <1>2, <3>1, <3>2
    <3> QED
      BY <1>2, <1>3, <3>1, <3>3 DEF GoodIn
  <2>2. \A i \in GoodIn(s, x) : i \in GoodIn(t, x)
    BY <1>2, <1>3 DEF GoodIn
  <2> QED
    BY <2>1, <2>2
<1>5. \A i \in GoodIn(s, x) : t[i] = s[i]
  BY <1>2, <1>3 DEF GoodIn
<1> QED
  BY <1>2, <1>4, <1>5, SameGood DEF t, e

\* Nor does the data word before its CRC.
LEMMA DataSays ==
    ASSUME NEW s \in Seq(Element), s # <<>>, NEW v \in Val, s[Len(s)].crc = Blank, NEW x
    PROVE  NewestIn(WithData(s, Len(s), v), x) = NewestIn(s, x)
<1> DEFINE n == Len(s)
           e == [s[n] EXCEPT !.data = v]
           t == WithData(s, n, v)
<1>1. n \in 1 .. Len(s) /\ s[n] \in Element /\ n \in Nat /\ v # Blank /\ DOMAIN s = 1 .. n
  BY ValAssumption
<1>2. e.addr = s[n].addr /\ e.data = v /\ e.crc = Blank /\ e \in Element
  BY <1>1 DEF Element
<1>3. t = [s EXCEPT ![n] = e]
  BY DEF WithData
<1> HIDE DEF e, t
<1>4. /\ t \in Seq(Element) /\ DOMAIN t = 1 .. n /\ t[n] = e
      /\ \A i \in 1 .. n : i # n => t[i] = s[i]
  <2>1. [s EXCEPT ![n] = e] \in Seq(Element)
    BY <1>1, <1>2, ExceptSeq
  <2>2. /\ DOMAIN [s EXCEPT ![n] = e] = 1 .. n /\ [s EXCEPT ![n] = e][n] = e
        /\ \A i \in 1 .. n : i # n => [s EXCEPT ![n] = e][i] = s[i]
    BY <1>1
  <2> QED
    BY <1>3, <2>1, <2>2
<1>5. ~IsGood(e, x) /\ ~IsGood(s[n], x)
  BY <1>1, <1>2 DEF IsGood
<1>6. GoodIn(t, x) = GoodIn(s, x) /\ \A i \in GoodIn(s, x) : t[i] = s[i]
  BY <1>1, <1>4, <1>5 DEF GoodIn
<1> QED
  BY <1>4, <1>6, SameGood DEF t

\* The CRC word makes the element the newest of its address.
LEMMA CrcSays ==
    ASSUME NEW s \in Seq(Element), s # <<>>, NEW v \in Val, NEW a \in Addr,
           s[Len(s)] = [addr |-> a, data |-> v, crc |-> Blank], NEW x
    PROVE  NewestIn(WithCrc(s, Len(s), v), x) = IF x = a THEN v ELSE NewestIn(s, x)
<1> DEFINE n == Len(s)
           e == [s[n] EXCEPT !.crc = v]
           t == WithCrc(s, n, v)
<1>1. n \in 1 .. Len(s) /\ n \in Nat /\ v # Blank /\ DOMAIN s = 1 .. n
  BY ValAssumption
<1>2. e = [addr |-> a, data |-> v, crc |-> v] /\ e \in Element
  BY <1>1 DEF Element
<1>3. t = [s EXCEPT ![n] = e]
  BY DEF WithCrc
<1> HIDE DEF e, t
<1>4. /\ t \in Seq(Element) /\ DOMAIN t = 1 .. n /\ t[n] = e
      /\ \A i \in 1 .. n : i # n => t[i] = s[i]
  <2>1. [s EXCEPT ![n] = e] \in Seq(Element)
    BY <1>1, <1>2, ExceptSeq
  <2>2. /\ DOMAIN [s EXCEPT ![n] = e] = 1 .. n /\ [s EXCEPT ![n] = e][n] = e
        /\ \A i \in 1 .. n : i # n => [s EXCEPT ![n] = e][i] = s[i]
    BY <1>1
  <2> QED
    BY <1>3, <2>1, <2>2
<1>5. CASE x = a
  <2>0. IsGood(e, x)
    BY <1>1, <1>2, <1>5 DEF IsGood
  <2>1. n \in GoodIn(t, x) /\ GoodIn(t, x) \subseteq 1 .. n
    BY <1>1, <1>4, <2>0 DEF GoodIn
  <2>2. Max(GoodIn(t, x)) \in 1 .. n /\ n <= Max(GoodIn(t, x))
    BY <1>1, <2>1, LargestIndex
  <2>3. Max(GoodIn(t, x)) = n
    BY <1>1, <2>2
  <2>4. NewestIn(t, x) = v
    BY <1>2, <1>4, <2>1, <2>3 DEF NewestIn
  <2> QED
    BY <1>5, <2>4 DEF t
<1>6. CASE x # a
  <2>1. ~IsGood(e, x) /\ ~IsGood(s[n], x)
    BY <1>2, <1>6 DEF IsGood
  <2>2. GoodIn(t, x) = GoodIn(s, x) /\ \A i \in GoodIn(s, x) : t[i] = s[i]
    BY <1>1, <1>4, <2>1 DEF GoodIn
  <2> QED
    BY <1>4, <1>6, <2>2, SameGood DEF t
<1> QED
  BY <1>5, <1>6

\* The first half of an erasure leaves no good element.
LEMMA ErasedSays ==
    ASSUME NEW page \in Page, NEW x
    PROVE  NewestIn(FirstHalfErased(page).element, x) = Blank
<1> DEFINE s == FirstHalfErased(page).element
<1>1. \A i \in DOMAIN s : s[i].data = Blank
  BY DEF FirstHalfErased
<1> HIDE DEF s
<1>2. GoodIn(s, x) = {}
  BY <1>1 DEF GoodIn, IsGood
<1> QED
  BY <1>2 DEF NewestIn, s

-----------------------------------------------------------------------------
(* What the pages say, under the flash operations.                         *)

\* A page says the same while its elements stay.
LEMMA NewestKept ==
    ASSUME NEW p \in Pages, flash'[p].element = flash[p].element
    PROVE  \A x : Newest(p, x)' = Newest(p, x)
  BY NewestOf, NewestOfNext

\* A page not programmed, and a page whose status words change, say the same.
LEMMA AllNewestKept ==
    /\ SameElements => \A p \in Pages : \A x : Newest(p, x)' = Newest(p, x)
    /\ \A r \in Pages : SameBut(r) => \A p \in Pages \ {r} : \A x : Newest(p, x)' = Newest(p, x)
    /\ UNCHANGED flash => \A p \in Pages : \A x : Newest(p, x)' = Newest(p, x)
<1>1. SameElements => \A p \in Pages : \A x : Newest(p, x)' = Newest(p, x)
  BY NewestKept DEF SameElements
<1>2. \A r \in Pages : SameBut(r) => \A p \in Pages \ {r} : \A x : Newest(p, x)' = Newest(p, x)
  BY NewestKept DEF SameBut
<1>3. UNCHANGED flash => \A p \in Pages : \A x : Newest(p, x)' = Newest(p, x)
  BY NewestKept
<1> QED
  BY <1>1, <1>2, <1>3

\* A blank page says nothing.
LEMMA BlankSays ==
    ASSUME NEW p \in Pages
    PROVE  /\ flash[p].element = <<>> => \A x : Newest(p, x) = Blank
           /\ flash'[p].element = <<>> => \A x : Newest(p, x)' = Blank
  BY NewestOf, NewestOfNext, NothingSaid

\* The write is over with the last operation of the function.
LEMMA PendingStep ==
    ASSUME TypeInv, FlashOperation
    PROVE  pending' = IF nvm' = <<>> THEN {} ELSE pending
<1>1. nvm \in Seq(OpType) /\ nvm # <<>>
  BY DEF TypeInv, FlashOperation
<1>2. Tail(nvm) = <<>> <=> Len(nvm) = 1
  <2>1. Tail(nvm) \in Seq(OpType) /\ Len(Tail(nvm)) = Len(nvm) - 1 /\ Len(nvm) \in Nat
    BY <1>1, HeadTailProperties
  <2>2. Tail(nvm) = <<>> <=> Len(Tail(nvm)) = 0
    BY <2>1, EmptySeq
  <2> QED
    BY <2>1, <2>2
<1> QED
  BY <1>2 DEF FlashOperation

\* The element of a word, operation by operation.
LEMMA ElementEffect ==
    ASSUME TypeInv, FlashOperation, NEW p \in Pages, NEW op, NEW w, Head(nvm) = Op(op, p, w)
    PROVE  LET s == flash[p].element
               t == flash'[p].element
           IN  /\ op = "addr" => t = Append(s, [addr |-> w, data |-> Blank, crc |-> Blank])
               /\ op = "data" => t = WithData(s, Len(s), w)
               /\ op = "crc"  => t = WithCrc(s, Len(s), w)
<1> DEFINE o == Head(nvm)
           s == flash[p].element
           e == [addr |-> w, data |-> Blank, crc |-> Blank]
<1>1. o.op = op /\ o.page = p /\ o.value = w
  BY DEF Op
<1>2. flash'[p] = Done(flash[p], o) /\ flash[p] \in Page
  BY <1>1, OpEffect DEF TypeInv, TypeOK
<1> HIDE DEF o
<1>3. ASSUME op = "addr" PROVE flash'[p].element = Append(s, e)
  <2>1. flash'[p] = [flash[p] EXCEPT !.element = Append(s, e)]
    BY <1>1, <1>2, <1>3 DEF Done
  <2> HIDE DEF e
  <2> QED
    BY <1>2, <2>1 DEF Page
<1>4. ASSUME op = "data" PROVE flash'[p].element = WithData(s, Len(s), w)
  <2>1. flash'[p] = [flash[p] EXCEPT !.element = WithData(s, Len(s), w)]
    BY <1>1, <1>2, <1>4 DEF Done, WithData
  <2> QED
    BY <1>2, <2>1 DEF Page
<1>5. ASSUME op = "crc" PROVE flash'[p].element = WithCrc(s, Len(s), w)
  <2>1. flash'[p] = [flash[p] EXCEPT !.element = WithCrc(s, Len(s), w)]
    BY <1>1, <1>2, <1>5 DEF Done, WithCrc
  <2> QED
    BY <1>2, <2>1 DEF Page
<1> QED
  BY <1>3, <1>4, <1>5

\* The last element, once its address, its data or its CRC word is programmed.
LEMMA LastElement ==
    ASSUME NEW s \in Seq(Element), NEW a \in Addr, NEW v \in Val
    PROVE  LET blank == [addr |-> a, data |-> Blank, crc |-> Blank]
               t == Append(s, blank)
               u == WithData(s, Len(s), v)
           IN  /\ t # <<>> /\ t[Len(t)] = blank
               /\ s # <<>> /\ s[Len(s)] = blank =>
                     u # <<>> /\ u[Len(u)] = [addr |-> a, data |-> v, crc |-> Blank]
<1> DEFINE blank == [addr |-> a, data |-> Blank, crc |-> Blank]
           t == Append(s, blank)
           u == WithData(s, Len(s), v)
           e == [addr |-> a, data |-> v, crc |-> Blank]
<1>1. blank \in Element
  BY DEF Element
<1>2. t # <<>> /\ t[Len(t)] = blank
  <2> HIDE DEF blank
  <2> QED
    BY <1>1, AppendProperties
<1>3. ASSUME s # <<>>, s[Len(s)] = blank PROVE u # <<>> /\ u[Len(u)] = e
  <2>1. [s[Len(s)] EXCEPT !.data = v] = e
    BY <1>3
  <2>2. u = [s EXCEPT ![Len(s)] = e]
    BY <2>1 DEF WithData
  <2>3. u \in Seq(Element) /\ Len(u) = Len(s)
    BY WordType
  <2>4. Len(s) \in 1 .. Len(s)
    BY <1>3
  <2> HIDE DEF e
  <2>5. u[Len(s)] = e
    BY <2>2, <2>4
  <2> HIDE DEF u
  <2> QED
    BY <2>3, <2>4, <2>5
<1> QED
  BY <1>2, <1>3

\* The word being written counts with its last operation, and changes nothing
\* before that.
LEMMA WordStep ==
    ASSUME TypeInv, FlashOperation, NEW p \in Pages, NEW a \in Addr, NEW v \in Val,
           NEW rest \in Seq(OpType), Word(p, a, v, rest)
    PROVE  /\ SameBut(p) /\ Writing(p, rest)
           /\ \/ /\ Word(p, a, v, rest)' /\ Writing(p, rest)' /\ nvm' # <<>>
                 /\ \A x : Newest(p, x)' = Newest(p, x)
              \/ nvm' = rest /\ \A x : Newest(p, x)' = IF x = a THEN v ELSE Newest(p, x)
<1> DEFINE A == Op("addr", p, a)
           D == Op("data", p, v)
           C == Op("crc", p, v)
           s == flash[p].element
           t == flash'[p].element
<1>1. Writing(p, rest)
  BY DEF Word, Writing
<1>2. SameBut(p)
  BY <1>1, WritingStep
<1>3. A \in OpType /\ D \in OpType /\ C \in OpType /\ s \in Seq(Element)
  BY LenType DEF OpType, Op
<1>4. /\ nvm = <<A, D, C>> \o rest
            => Head(nvm) = A /\ nvm' = <<D, C>> \o rest /\ nvm' # <<>>
      /\ nvm = <<D, C>> \o rest
            => Head(nvm) = D /\ nvm' = <<C>> \o rest /\ nvm' # <<>>
      /\ nvm = <<C>> \o rest => Head(nvm) = C /\ nvm' = rest
  <2> HIDE DEF A, D, C
  <2>1. /\ <<A, D, C>> \in Seq(OpType) /\ <<A, D, C>> # <<>>
        /\ <<D, C>> \in Seq(OpType) /\ <<D, C>> # <<>>
        /\ <<C>> \in Seq(OpType) /\ <<C>> # <<>>
        /\ Head(<<A, D, C>>) = A /\ Tail(<<A, D, C>>) = <<D, C>>
        /\ Head(<<D, C>>) = D /\ Tail(<<D, C>>) = <<C>>
        /\ Head(<<C>>) = C /\ Tail(<<C>>) = <<>>
    BY <1>3
  <2>2. <<>> \o rest = rest
    BY ConcatEmptySeq
  <2>3. nvm' = Tail(nvm)
    BY DEF FlashOperation
  <2>n. <<D, C>> \o rest # <<>> /\ <<C>> \o rest # <<>>
    BY <2>1, ConcatHeadTail
  <2>4. ASSUME nvm = <<A, D, C>> \o rest
        PROVE  Head(nvm) = A /\ nvm' = <<D, C>> \o rest /\ nvm' # <<>>
    <3>1. Head(<<A, D, C>> \o rest) = A /\ Tail(<<A, D, C>> \o rest) = <<D, C>> \o rest
      BY <2>1, ConcatHeadTail
    <3> QED
      BY <2>n, <2>3, <2>4, <3>1
  <2>5. ASSUME nvm = <<D, C>> \o rest
        PROVE  Head(nvm) = D /\ nvm' = <<C>> \o rest /\ nvm' # <<>>
    <3>1. Head(<<D, C>> \o rest) = D /\ Tail(<<D, C>> \o rest) = <<C>> \o rest
      BY <2>1, ConcatHeadTail
    <3> QED
      BY <2>n, <2>3, <2>5, <3>1
  <2>6. nvm = <<C>> \o rest => Head(nvm) = C /\ nvm' = rest
    BY <2>1, <2>2, <2>3, ConcatHeadTail
  <2> QED
    BY <2>4, <2>5, <2>6
<1>5. CASE nvm = <<A, D, C>> \o rest
  <2>1. t = Append(s, [addr |-> a, data |-> Blank, crc |-> Blank])
    BY <1>4, <1>5, ElementEffect
  <2>2. t # <<>> /\ t[Len(t)] = [addr |-> a, data |-> Blank, crc |-> Blank]
    BY <1>3, <2>1, LastElement
  <2>3. Torn(p, a, Blank)'
    BY <2>2 DEF Torn
  <2>4. \A x : Newest(p, x)' = Newest(p, x)
    <3> TAKE x
    <3>1. NewestIn(t, x) = NewestIn(s, x)
      BY <1>3, <2>1, AddressSays
    <3> QED
      BY <3>1, NewestOf, NewestOfNext
  <2>5. Word(p, a, v, rest)' /\ Writing(p, rest)'
    BY <1>4, <1>5, <2>3 DEF Word, Writing
  <2> QED
    BY <1>1, <1>2, <1>4, <1>5, <2>4, <2>5
<1>6. CASE nvm = <<D, C>> \o rest /\ Torn(p, a, Blank)
  <2>1. t = WithData(s, Len(s), v)
    BY <1>4, <1>6, ElementEffect
  <2>2. s # <<>> /\ s[Len(s)] = [addr |-> a, data |-> Blank, crc |-> Blank]
    BY <1>6 DEF Torn
  <2>3. t # <<>> /\ t[Len(t)] = [addr |-> a, data |-> v, crc |-> Blank]
    BY <1>3, <2>1, <2>2, LastElement
  <2>4. Torn(p, a, v)'
    BY <2>3 DEF Torn
  <2>5. s[Len(s)].crc = Blank
    BY <2>2
  <2>6. \A x : Newest(p, x)' = Newest(p, x)
    BY <1>3, <2>1, <2>2, <2>5, DataSays, NewestOf, NewestOfNext
  <2>7. Word(p, a, v, rest)' /\ Writing(p, rest)'
    BY <1>4, <1>6, <2>4 DEF Word, Writing
  <2> QED
    BY <1>1, <1>2, <1>4, <1>6, <2>6, <2>7
<1>7. CASE nvm = <<C>> \o rest /\ Torn(p, a, v)
  <2>1. t = WithCrc(s, Len(s), v)
    BY <1>4, <1>7, ElementEffect
  <2>2. s # <<>> /\ s[Len(s)] = [addr |-> a, data |-> v, crc |-> Blank]
    BY <1>7 DEF Torn
  <2>3. \A x : Newest(p, x)' = IF x = a THEN v ELSE Newest(p, x)
    BY <1>3, <2>1, <2>2, CrcSays, NewestOf, NewestOfNext
  <2> QED
    BY <1>1, <1>2, <1>4, <1>7, <2>3
<1> QED
  BY <1>5, <1>6, <1>7 DEF Word

\* Status words and erasures make no page say anything new.
LEMMA StatusSays ==
    ASSUME TypeInv, FlashOperation, Head(nvm).op \in StatusOps, NEW p \in Pages, NEW x
    PROVE  Newest(p, x)' \in {Newest(p, x), Blank}
<1> DEFINE o == Head(nvm)
<1>1. /\ o.page \in Pages /\ flash'[o.page] = Done(flash[o.page], o) /\ flash[o.page] \in Page
      /\ \A r \in Pages \ {o.page} : flash'[r] = flash[r]
  BY OpEffect DEF TypeInv, TypeOK
<1>2. o.op \in StatusOps
  OBVIOUS
<1> HIDE DEF o
<1>3. CASE p # o.page
  BY <1>1, <1>3, NewestKept
<1>4. CASE p = o.page /\ o.op = "erase_first"
  <2>1. flash'[p] = FirstHalfErased(flash[p])
    BY <1>1, <1>4 DEF Done
  <2> QED
    BY <1>1, <1>4, <2>1, ErasedSays, NewestOfNext
<1>5. CASE p = o.page /\ o.op = "erase_second"
  <2>1. flash'[p].element = <<>>
    BY <1>1, <1>5, EraseType
  <2> QED
    BY <2>1, BlankSays
<1>6. CASE p = o.page /\ o.op \notin {"erase_first", "erase_second"}
  <2>1. flash'[p].element = flash[p].element
    BY <1>1, <1>2, <1>6, StatusType DEF StatusOps
  <2> QED
    BY <2>1, NewestKept
<1> QED
  BY <1>3, <1>4, <1>5, <1>6

-----------------------------------------------------------------------------
(* What a read finds, shape by shape.                                      *)

\* The page found and the one before it, if that is in use or blank.
LEMMA FoundReads ==
    ASSUME NEW c \in Pages, Found(c),
           flash[GetPreviousPage(c)].active \/ flash[GetPreviousPage(c)].element = <<>>
    PROVE  GetActiveCurrentPage = c /\ \A a : DataEERead(a) = Stored(c, a)
<1> DEFINE q == GetNextPage(c)
           b == GetPreviousPage(c)
           n == GetActiveCurrentPageCount
<1>1. Ring(c, q, b) /\ q \in Pages /\ b \in Pages /\ c # NoPage
  BY PagesAround DEF Ring
<1>2. GetActiveCurrentPage = c
  BY FoundIsCurrent
<1>3. n = ActiveIs(c) + ActiveIs(q) + ActiveIs(b)
  BY <1>1, PageCount
<1>4. \A a : DataEERead(a) = IF Newest(c, a) # Blank THEN Newest(c, a)
                             ELSE IF n > 1 THEN Newest(b, a) ELSE Blank
  BY <1>1, <1>2, ReadFromIs DEF DataEERead
<1>5. CASE flash[b].active
  <2>1. n > 1
    BY <1>3, <1>5 DEF ActiveIs, Found
  <2> QED
    BY <1>2, <1>4, <2>1 DEF Stored
<1>6. CASE flash[b].element = <<>>
  <2>1. \A a : Newest(b, a) = Blank
    BY <1>1, <1>6, BlankSays
  <2> QED
    BY <1>2, <1>4, <2>1 DEF Stored
<1> QED
  BY <1>5, <1>6

\* What is stored in two pages of which one is blank.
LEMMA StoredInOne ==
    ASSUME NEW c \in Pages
    PROVE  /\ flash[GetPreviousPage(c)].element = <<>> => \A a : Stored(c, a) = Newest(c, a)
           /\ flash[c].element = <<>> => \A a : Stored(c, a) = Newest(GetPreviousPage(c), a)
<1>1. GetPreviousPage(c) \in Pages
  BY PagesAround DEF Ring
<1>2. ASSUME flash[GetPreviousPage(c)].element = <<>> PROVE \A a : Stored(c, a) = Newest(c, a)
  <2>1. \A a : Newest(GetPreviousPage(c), a) = Blank
    BY <1>1, <1>2, BlankSays
  <2> QED
    BY <2>1 DEF Stored
<1>3. ASSUME flash[c].element = <<>> PROVE \A a : Stored(c, a) = Newest(GetPreviousPage(c), a)
  <2>1. \A a : Newest(c, a) = Blank
    BY <1>3, BlankSays
  <2> QED
    BY <2>1 DEF Stored
<1> QED
  BY <1>2, <1>3

\* The shapes with the page found and the one before it to read from.
FoundShape(c) == Filling(c) \/ LastWrite(c) \/ LateClose(c) \/ Using(c)
                 \/ BootErase(c) \/ Copying(c) \/ Activating(c)

\* The shapes with everything in the copy.
CopiedShape(c) == (BothInUse(c) /\ Complete(c)) \/ PreviousInUse(c) \/ CopyInUse(c) \/ Packed(c)

\* In what the shapes of page c read.
ReadsOf(c) ==
    /\ FoundShape(c) => \A a : Finds(a) = Stored(c, a)
    /\ Closed(c) => \A a : Finds(a) = Stored(GetNextPage(c), a)
    /\ CopiedShape(c) => \A a \in Addr : Finds(a) = Newest(GetNextPage(c), a)

Reads ==
    TypeInv => /\ \A c \in Pages : ReadsOf(c)
               /\ Fresh => \A a : Finds(a) = Blank

\* In the shapes where page c is found, a read finds what is stored in it and the
\* page before it.
LEMMA FoundShapeReads ==
    ASSUME TypeInv, NEW c \in Pages, FoundShape(c)
    PROVE  \A a : Finds(a) = Stored(c, a)
<1> DEFINE q == GetNextPage(c)
           b == GetPreviousPage(c)
<1>1. q \in Pages /\ b \in Pages /\ c # NoPage
  BY PagesAround DEF Ring
<1>2. ~PackedPagesGo
  BY DEF FoundShape, Filling, LastWrite, LateClose, Using, BootErase, Copying, Activating,
         Resting, PackedPagesGo
<1>3. One(c) \/ Two(c) \/ BootErase(c)
  BY DEF FoundShape, Filling, LastWrite, LateClose, Using, Copying, Activating
<1>4. Found(c) /\ (flash[b].active \/ flash[b].element = <<>>)
  BY <1>3 DEF One, Two, BootErase, BlankPage
<1>5. GetActiveCurrentPage = c /\ \A a : DataEERead(a) = Stored(c, a)
  BY <1>4, FoundReads
<1> QED
  BY <1>1, <1>2, <1>5 DEF Finds

\* Once page c is closed, the page after it takes its place.
LEMMA ClosedReads ==
    ASSUME TypeInv, NEW c \in Pages, Closed(c)
    PROVE  \A a : Finds(a) = Stored(GetNextPage(c), a)
<1> DEFINE q == GetNextPage(c)
           b == GetPreviousPage(c)
           A == Status("activate", q)
<1>1. /\ Ring(c, q, b) /\ q \in Pages /\ b \in Pages /\ q # NoPage /\ GetPreviousPage(q) = c
      /\ Pages = {c, q, b}
  BY PagesAround DEF Ring
<1>2. ~PackedPagesGo
  BY DEF Closed, Resting, PackedPagesGo
<1>3. ~(flash[c].active /\ flash[c].current) /\ ~flash[q].active /\ ~flash[b].active /\ flash[c].active
  BY DEF Closed, BlankPage, Available
<1>4. GetActiveCurrentPage = NoPage
  BY <1>1, <1>3, NothingFound
<1>5. GetActiveCurrentPageCount = 1
  BY <1>1, <1>3, PageCount DEF ActiveIs
<1>6. nvm # <<>> /\ Head(nvm) = A
  <2>1. A \in OpType /\ \A a \in Addr, v \in Val : WriteElement(q, a, v) \in Seq(OpType)
    BY <1>1, OpsTyped DEF StatusOps
  <2> HIDE DEF A
  <2>2. << A >> \in Seq(OpType) /\ << A >> # <<>> /\ Head(<< A >>) = A
    BY <2>1
  <2>3. nvm = << A >> \/ \E a \in Addr, v \in Val : nvm = << A >> \o WriteElement(q, a, v)
    BY DEF Closed, A
  <2> QED
    BY <2>1, <2>2, <2>3, ConcatHeadTail
<1>7. Head(nvm).op = "activate" /\ Head(nvm).page = q
  BY <1>6 DEF Status, Op
<1>8. \A a : Finds(a) = ReadFrom(q, 2, a)
  BY <1>2, <1>4, <1>5, <1>6, <1>7 DEF Finds
<1> QED
  BY <1>1, <1>8, ReadFromIs DEF Stored

\* Once the copy is activated, a read of any address finds what the copy says.
LEMMA CopiedShapeReads ==
    ASSUME TypeInv, NEW c \in Pages, CopiedShape(c), NEW a \in Addr
    PROVE  Finds(a) = Newest(GetNextPage(c), a)
<1> DEFINE q == GetNextPage(c)
           b == GetPreviousPage(c)
<1>1. /\ Ring(c, q, b) /\ q \in Pages /\ b \in Pages /\ c # NoPage /\ q # NoPage
      /\ GetPreviousPage(q) = c /\ GetPreviousPage(b) = q /\ Pages = {c, q, b}
      /\ q # c /\ b # c /\ b # q /\ b # NoPage /\ \A p \in Pages : p \in Int
  BY PagesAround DEF Ring, Pages, DEE_PAGE_CNT
<1>2. running /\ pack.next = q
  BY DEF CopiedShape, BothInUse, PreviousInUse, CopyInUse, Packed, Packing
<1>3. CASE PackedPagesGo
  BY <1>2, <1>3 DEF Finds
<1>4. CASE ~PackedPagesGo /\ BothInUse(c) /\ Complete(c)
  <2>1. /\ flash[c].active /\ flash[c].current
        /\ \/ flash[b].active /\ (flash[b].current => b < c)
           \/ BlankPage(b) /\ (flash[q].current => q < c)
        /\ flash[q].active
    BY <1>4 DEF BothInUse, Copied
  <2>2. PICK x \in Pages : Found(x)
    BY <2>1, SomethingFound
  <2>3. c <= x /\ flash[x].active /\ flash[x].current
    BY <2>1, <2>2 DEF Found
  <2>4. x # b
    BY <1>1, <2>1, <2>3 DEF BlankPage, Available
  <2>5. Newest(q, a) = Stored(c, a)
    BY <1>4 DEF Complete
  <2>6. flash[b].active \/ flash[b].element = <<>>
    BY <2>1 DEF BlankPage
  <2>7. CASE x = c
    BY <1>1, <1>4, <2>2, <2>5, <2>6, <2>7, FoundReads DEF Finds
  <2>8. CASE x = q
    <3>1. GetActiveCurrentPage = q /\ DataEERead(a) = Stored(q, a)
      BY <1>1, <2>1, <2>2, <2>8, FoundReads
    <3>2. Stored(q, a) = IF Newest(q, a) # Blank THEN Newest(q, a) ELSE Newest(c, a)
      BY <1>1 DEF Stored
    <3>3. Newest(q, a) = Blank => Newest(c, a) = Blank
      BY <2>5 DEF Stored
    <3> QED
      BY <1>1, <1>4, <3>1, <3>2, <3>3 DEF Finds
  <2> QED
    BY <1>1, <2>4, <2>7, <2>8
<1>5. CASE ~PackedPagesGo /\ Packed(c)
  <2>1. flash[c].element = <<>> /\ flash[b].element = <<>> /\ (One(q) \/ Two(b))
    BY <1>5 DEF Packed
  <2>2. CASE One(q)
    <3>1. Found(q)
      BY <2>2 DEF One
    <3>2. GetActiveCurrentPage = q /\ DataEERead(a) = Stored(q, a)
      BY <1>1, <2>1, <3>1, FoundReads
    <3>3. Stored(q, a) = Newest(q, a)
      BY <1>1, <2>1, StoredInOne
    <3> QED
      BY <1>1, <1>5, <3>2, <3>3 DEF Finds
  <2>3. CASE Two(b)
    <3>1. Found(b) /\ (flash[q].active \/ flash[q].element = <<>>)
      BY <1>1, <2>3 DEF Two, BlankPage
    <3>2. GetActiveCurrentPage = b /\ DataEERead(a) = Stored(b, a)
      BY <1>1, <3>1, FoundReads
    <3>3. Stored(b, a) = Newest(q, a)
      BY <1>1, <2>1, StoredInOne
    <3> QED
      BY <1>1, <1>5, <3>2, <3>3 DEF Finds
  <2> QED
    BY <2>1, <2>2, <2>3
<1>6. PreviousInUse(c) \/ CopyInUse(c) => PackedPagesGo
  BY DEF PreviousInUse, CopyInUse, Packing, PackedPagesGo
<1> QED
  BY <1>3, <1>4, <1>5, <1>6 DEF CopiedShape

\* On a fresh flash every read finds nothing.
LEMMA FreshReads ==
    ASSUME TypeInv, Fresh
    PROVE  \A a : Finds(a) = Blank
<1>1. \A p \in Pages : ~flash[p].active /\ \A a : Newest(p, a) = Blank
  BY BlankSays DEF Fresh, BlankPage, Available
<1>2. GetActiveCurrentPage = NoPage /\ ~PackedPagesGo
  BY <1>1, NothingFound DEF Fresh, Resting, PackedPagesGo
<1>3. nvm # <<>> => Head(nvm).page \in Pages
  <2>1. nvm \in Seq(OpType)
    BY DEF TypeInv
  <2>2. nvm # <<>> => Head(nvm) \in OpType
    BY <2>1
  <2> QED
    BY <2>2 DEF OpType
<1>4. \A p \in Pages : \A n, a : ReadFrom(p, n, a) = Blank
  <2>1. \A p \in Pages : GetPreviousPage(p) \in Pages /\ p # NoPage
    BY PagesAround DEF Ring
  <2> QED
    BY <1>1, <2>1, ReadFromIs
<1> QED
  BY <1>2, <1>3, <1>4 DEF Finds

\* What a read finds, in every shape.
LEMMA ReadsNow == Reads
  BY FoundShapeReads, ClosedReads, CopiedShapeReads, FreshReads DEF Reads, ReadsOf

\* The same in the next state.
LEMMA ReadsThen == Reads'
  BY ReadsNow, PTL

-----------------------------------------------------------------------------
(* The data, under the flash operations.                                   *)

\* What becomes of the words: all stay, or the one of the write in progress is
\* stored, or that write ends with its word stored.
Keeps == \A x \in Addr : Finds(x)' = Finds(x)

Commits == \E a \in Used, v \in Val :
    /\ IsPending(a, v) /\ pending' \in {pending, {}}
    /\ Finds(a)' = v /\ \A x \in Addr \ {a} : Finds(x)' = Finds(x)

Ends == \E a \in Used, v \in Val : IsPending(a, v) /\ Finds(a) = v /\ Keeps /\ pending' = {}

Goes == (Keeps /\ pending' = pending) \/ Commits \/ Ends

\* What is read of two pages is a value or nothing.
LEMMA StoredType ==
    ASSUME TypeInv, NEW c \in Pages, NEW x
    PROVE  Stored(c, x) \in Val \cup {Blank}
<1>1. GetPreviousPage(c) \in Pages
  BY PagesAround DEF Ring
<1> QED
  BY <1>1, NewestType DEF Stored, TypeInv

\* The elements stay, and with them what is stored.
LEMMA StoredKept ==
    /\ SameElements => \A c \in Pages : \A x : Stored(c, x)' = Stored(c, x)
    /\ UNCHANGED flash => \A c \in Pages : \A x : Stored(c, x)' = Stored(c, x)
    /\ \A c \in Pages : SameBut(GetNextPage(c)) => \A x : Stored(c, x)' = Stored(c, x)
<1>1. \A c \in Pages : /\ GetPreviousPage(c) \in Pages /\ GetNextPage(c) \in Pages
                       /\ GetNextPage(c) # c /\ GetNextPage(c) # GetPreviousPage(c)
  BY PagesAround DEF Ring
<1> QED
  BY <1>1, AllNewestKept DEF Stored

\* A flash operation carries the caller's word on, or programs its last word.
LEMMA OwnStep ==
    ASSUME TypeInv, FlashOperation, NEW p \in Pages, NEW rest \in Seq(OpType), Own(p, rest)
    PROVE  /\ SameBut(p) /\ Writing(p, rest)
           /\ \/ /\ Own(p, rest)' /\ pending' = pending /\ Writing(p, rest)'
                 /\ \A x : Stored(p, x)' = Stored(p, x)
              \/ /\ nvm' = rest
                 /\ \E a \in Used, v \in Val :
                       /\ IsPending(a, v) /\ pending' = IF rest = <<>> THEN {} ELSE pending
                       /\ Stored(p, a)' = v /\ \A x : x # a => Stored(p, x)' = Stored(p, x)
<1> DEFINE b == GetPreviousPage(p)
<1>1. PICK a \in Used, v \in Val : Word(p, a, v, rest) /\ IsPending(a, v)
  BY DEF Own
<1>2. a \in Addr /\ v # Blank
  BY SizeAssumption, ValAssumption
<1>3. /\ SameBut(p) /\ Writing(p, rest)
      /\ \/ /\ Word(p, a, v, rest)' /\ Writing(p, rest)' /\ nvm' # <<>>
            /\ \A x : Newest(p, x)' = Newest(p, x)
         \/ nvm' = rest /\ \A x : Newest(p, x)' = IF x = a THEN v ELSE Newest(p, x)
  BY <1>1, <1>2, WordStep
<1>4. b \in Pages /\ b # p
  BY PagesAround DEF Ring
<1>5. \A x : Newest(b, x)' = Newest(b, x)
  BY <1>3, <1>4, AllNewestKept
<1>6. pending' = IF nvm' = <<>> THEN {} ELSE pending
  BY PendingStep
<1>7. CASE Word(p, a, v, rest)' /\ Writing(p, rest)' /\ nvm' # <<>> /\ \A x : Newest(p, x)' = Newest(p, x)
  <2>1. pending' = pending
    BY <1>6, <1>7
  <2>2. Own(p, rest)'
    BY <1>1, <1>7, <2>1 DEF Own, IsPending
  <2>3. \A x : Stored(p, x)' = Stored(p, x)
    BY <1>5, <1>7 DEF Stored
  <2> QED
    BY <1>3, <1>7, <2>1, <2>2, <2>3
<1>8. CASE nvm' = rest /\ \A x : Newest(p, x)' = IF x = a THEN v ELSE Newest(p, x)
  <2>1. Stored(p, a)' = v
    BY <1>2, <1>8 DEF Stored
  <2>2. \A x : x # a => Stored(p, x)' = Stored(p, x)
    BY <1>5, <1>8 DEF Stored
  <2> QED
    BY <1>1, <1>3, <1>6, <1>8, <2>1, <2>2
<1> QED
  BY <1>3, <1>7, <1>8

\* The word of the caller, written to the page found.
LEMMA OwnGoes ==
    ASSUME TypeInv, TypeInv', FlashOperation, NEW c \in Pages, NEW rest \in Seq(OpType),
           Own(c, rest), FoundShape(c), FoundShape(c)'
    PROVE  /\ Goes /\ SameBut(c)
           /\ \A x : Stored(c, x) # Blank => Stored(c, x)' # Blank
           /\ Own(c, rest)' \/ (nvm' = rest /\ Held(c)' /\ (rest = <<>> => pending' = {}))
<1>1. \A x : Finds(x) = Stored(c, x)
  BY ReadsNow DEF Reads, ReadsOf
<1>2. \A x : Finds(x)' = Stored(c, x)'
  BY ReadsThen DEF Reads, ReadsOf
<1>3. SameBut(c)
  BY OwnStep
<1>4. CASE /\ Own(c, rest)' /\ pending' = pending /\ Writing(c, rest)'
           /\ \A x : Stored(c, x)' = Stored(c, x)
  BY <1>1, <1>2, <1>3, <1>4 DEF Goes, Keeps
<1>5. ASSUME nvm' = rest, NEW a \in Used, NEW v \in Val,
             IsPending(a, v), pending' = IF rest = <<>> THEN {} ELSE pending,
             Stored(c, a)' = v, \A x : x # a => Stored(c, x)' = Stored(c, x)
      PROVE  /\ Goes /\ \A x : Stored(c, x) # Blank => Stored(c, x)' # Blank
             /\ nvm' = rest /\ Held(c)' /\ (rest = <<>> => pending' = {})
  <2>1. v # Blank /\ pending' \in {pending, {}}
    BY <1>5, ValAssumption
  <2>2. Commits
    BY <1>1, <1>2, <1>5, <2>1 DEF Commits
  <2>3. Held(c)'
    BY <1>5 DEF Held, IsPending
  <2>4. \A x : Stored(c, x) # Blank => Stored(c, x)' # Blank
    BY <1>5, <2>1
  <2> QED
    BY <1>5, <2>2, <2>3, <2>4 DEF Goes
<1> QED
  BY <1>3, <1>4, <1>5, OwnStep

\* While a word is being written the operations to come are those of Writing.
LEMMA OwnIsBusy ==
    ASSUME NEW p \in Pages, NEW rest \in Seq(OpType)
    PROVE  /\ Own(p, rest) => nvm # <<>> /\ Writing(p, rest)
           /\ \A a \in Addr, v \in Val : Word(p, a, v, rest) => nvm # <<>> /\ Writing(p, rest)
<1>1. \A a \in Addr, v \in Val : Word(p, a, v, rest) => Writing(p, rest)
  BY DEF Word, Writing
<1> QED
  BY <1>1, NotIdle, SizeAssumption DEF Own

\* A word written to the only page in use.
LEMMA FillingDataStep ==
    ASSUME TypeInv, TypeInv', FlashOperation, NEW c \in Pages, FillingData(c)
    PROVE  FillingData(c)' /\ Goes
<1>1. Filling(c) /\ Own(c, <<>>) /\ Filling(c)'
  BY FillingStep DEF FillingData, AtRest, FlashOperation
<1>2. Goes /\ (Own(c, <<>>)' \/ (nvm' = <<>> /\ pending' = {}))
  BY <1>1, NoFollowers, OwnGoes DEF FoundShape
<1> QED
  BY <1>1, <1>2 DEF FillingData, AtRest

\* A word written to the page found, with the page before it in use or blank.
LEMMA UsingDataStep ==
    ASSUME TypeInv, TypeInv', FitInv, FitInv', FlashOperation, NEW c \in Pages, UsingData(c)
    PROVE  UsingData(c)' /\ Goes
<1> DEFINE q == GetNextPage(c)
<1>1. Using(c) /\ Own(c, <<>>) /\ Using(c)' /\ Known(c)
  BY UsingStep DEF UsingData, AtRest, FlashOperation
<1>2. /\ Goes /\ SameBut(c) /\ \A x : Stored(c, x) # Blank => Stored(c, x)' # Blank
      /\ Own(c, <<>>)' \/ (nvm' = <<>> /\ pending' = {})
  BY <1>1, NoFollowers, OwnGoes DEF FoundShape
<1>3. q \in Pages /\ q # c
  BY PagesAround DEF Ring
<1>4. \A x : Newest(q, x)' = Newest(q, x)
  BY <1>2, <1>3, AllNewestKept
<1>5. Known(c)'
  BY <1>1, <1>2, <1>4 DEF Known
<1> QED
  BY <1>1, <1>2, <1>5 DEF UsingData, AtRest

\* Closing a page moves no word: the next one is blank, and so is the previous.
LEMMA CloseKeeps ==
    ASSUME TypeInv, TypeInv', NEW c \in Pages, One(c), LastWrite(c) \/ LateClose(c),
           Closed(c)', SameElements
    PROVE  Keeps /\ \A x : Stored(GetNextPage(c), x)' = Stored(c, x)
<1> DEFINE q == GetNextPage(c)
           b == GetPreviousPage(c)
<1>1. q \in Pages /\ b \in Pages /\ GetPreviousPage(q) = c
  BY PagesAround DEF Ring
<1>2. flash[q].element = <<>> /\ flash[b].element = <<>>
  BY DEF One, BlankPage
<1>3. \A x : Stored(c, x) = Newest(c, x) /\ Stored(q, x) = Newest(c, x)
  BY <1>1, <1>2, StoredInOne
<1>4. \A x : Stored(q, x)' = Stored(q, x)
  BY <1>1, StoredKept
<1>5. \A x : Finds(x) = Stored(c, x) /\ Finds(x)' = Stored(q, x)'
  BY ReadsNow, ReadsThen DEF Reads, ReadsOf, FoundShape
<1> QED
  BY <1>3, <1>4, <1>5 DEF Keeps

\* The last word a page takes, and its closing.
LEMMA LastWriteDataStep ==
    ASSUME TypeInv, TypeInv', FlashOperation, NEW c \in Pages, LastWriteData(c)
    PROVE  (LastWriteData(c)' \/ ClosedData(c)') /\ Goes
<1> DEFINE q == GetNextPage(c)
           rest == Dee_CloseCurrentPage(c, q)
<1>1. q \in Pages /\ rest \in Seq(OpType) /\ rest # <<>>
  BY PagesAround, NoFollowers DEF Ring, Dee_CloseCurrentPage
<1>2. LastWrite(c) /\ (Own(c, rest) \/ (nvm = rest /\ Held(c)))
  BY DEF LastWriteData
<1>3. CASE Own(c, rest)
  <2>1. LastWrite(c)'
    BY <1>1, <1>2, <1>3, OwnStep, LastWordStep
  <2>2. Goes /\ (Own(c, rest)' \/ (nvm' = rest /\ Held(c)'))
    BY <1>1, <1>2, <1>3, <2>1, OwnGoes DEF FoundShape
  <2> QED
    BY <2>1, <2>2 DEF LastWriteData
<1>4. CASE nvm = rest /\ Held(c)
  <2>1. Closed(c)' /\ SameElements /\ nvm' = << Status("activate", q) >>
    BY <1>2, <1>4, LastCloseStep
  <2>2. Keeps /\ \A x : Stored(q, x)' = Stored(c, x)
    BY <1>2, <2>1, CloseKeeps DEF LastWrite
  <2>3. pending' = pending
    BY <2>1, PendingStep
  <2>4. Held(q)'
    BY <1>4, <2>2, <2>3 DEF Held, IsPending
  <2> QED
    BY <2>1, <2>2, <2>3, <2>4 DEF ClosedData, Goes
<1> QED
  BY <1>2, <1>3, <1>4

\* The closing of a page that was full when the write came.
LEMMA LateCloseDataStep ==
    ASSUME TypeInv, TypeInv', FlashOperation, NEW c \in Pages, LateCloseData(c)
    PROVE  ClosedData(c)' /\ Goes
<1> DEFINE q == GetNextPage(c)
           A == Status("activate", q)
<1>1. PICK a \in Used, v \in Val :
          nvm = Dee_CloseCurrentPage(c, q) \o WriteElement(q, a, v) /\ IsPending(a, v)
  BY DEF LateCloseData
<1>2. q \in Pages /\ a \in Addr
  BY PagesAround, SizeAssumption DEF Ring
<1>3. LateClose(c) /\ Closed(c)' /\ SameElements /\ nvm' = << A >> \o WriteElement(q, a, v)
  BY <1>1, <1>2, LateCloseStep DEF LateCloseData
<1>4. Keeps
  BY <1>3, CloseKeeps DEF LateClose
<1>5. nvm' # <<>>
  <2>1. A \in OpType /\ WriteElement(q, a, v) \in Seq(OpType)
    BY <1>2, OpsTyped DEF StatusOps
  <2> HIDE DEF A
  <2>2. << A >> \in Seq(OpType) /\ << A >> # <<>>
    BY <2>1
  <2> QED
    BY <1>3, <2>1, <2>2, ConcatHeadTail
<1>6. pending' = pending
  BY <1>5, PendingStep
<1>7. IsPending(a, v)'
  BY <1>1, <1>6 DEF IsPending
<1> QED
  BY <1>3, <1>4, <1>6, <1>7 DEF ClosedData, Goes

\* The activation of the next page, with or without a word to write to it.
LEMMA ClosedDataStep ==
    ASSUME TypeInv, TypeInv', FlashOperation, NEW c \in Pages, ClosedData(c)
    PROVE  UsingData(GetNextPage(c))' /\ Goes
<1> DEFINE q == GetNextPage(c)
           b == GetPreviousPage(c)
           A == Status("activate", q)
<1>1. q \in Pages /\ b \in Pages /\ GetNextPage(q) = b
  BY PagesAround DEF Ring
<1>2. Closed(c) /\ Using(q)' /\ SameElements
  BY ClosedStep DEF ClosedData
<1>3. \A x : Stored(q, x)' = Stored(q, x)
  BY <1>1, <1>2, StoredKept
<1>4. \A x : Finds(x) = Stored(q, x) /\ Finds(x)' = Stored(q, x)'
  BY <1>1, <1>2, ReadsNow, ReadsThen DEF Reads, ReadsOf, FoundShape
<1>5. Keeps
  BY <1>3, <1>4 DEF Keeps
<1>6. Known(q)'
  <2>1. flash'[b].element = <<>>
    BY <1>1, <1>2 DEF Closed, BlankPage, SameElements
  <2> QED
    BY <1>1, <2>1, BlankSays DEF Known
<1>7. CASE nvm = << A >> /\ Held(q)
  <2>1. nvm' = <<>> /\ pending' = {}
    BY <1>2, <1>7, ClosedStep, PendingStep
  <2>2. (Keeps /\ pending' = pending) \/ Ends
    BY <1>4, <1>5, <1>7, <2>1 DEF Held, Ends
  <2> QED
    BY <1>2, <1>6, <2>1, <2>2 DEF UsingData, AtRest, Goes
<1>8. ASSUME NEW a \in Used, NEW v \in Val, IsPending(a, v),
             nvm = << A >> \o WriteElement(q, a, v)
      PROVE  UsingData(q)' /\ Goes
  <2>1. a \in Addr
    BY SizeAssumption
  <2>2. nvm' = WriteElement(q, a, v)
    BY <1>2, <1>8, <2>1, ClosedStep
  <2>3. WriteElement(q, a, v) \in Seq(OpType) /\ WriteElement(q, a, v) # <<>>
    BY <1>1, <2>1, OpsTyped DEF WriteElement
  <2>4. nvm' = WriteElement(q, a, v) \o <<>> /\ nvm' # <<>>
    BY <2>2, <2>3, ConcatEmptySeq
  <2>5. pending' = pending
    BY <2>4, PendingStep
  <2>6. Own(q, <<>>)'
    BY <1>8, <2>4, <2>5 DEF Own, Word, WriteElement, IsPending
  <2> QED
    BY <1>2, <1>5, <1>6, <2>5, <2>6 DEF UsingData, Goes
<1> QED
  BY <1>7, <1>8 DEF ClosedData

\* The copy of a word says what is stored, and the pages copied stay as they are.
LEMMA CopyingDataStep ==
    ASSUME TypeInv, TypeInv', FitInv, FitInv', FlashOperation, NEW c \in Pages, CopyingData(c)
    PROVE  CopyingData(c)' /\ Goes
<1> DEFINE q == GetNextPage(c)
<1>1. /\ Copying(c) /\ Known(c) /\ pending = {} /\ Copying(c)' /\ pack' = pack
      /\ pack.state = "FinalCheck" => pack.addr = SIZE
  BY CopyingStep, FlashFrame DEF CopyingData
<1>2. nvm # <<>>
  BY DEF FlashOperation
<1>3. PICK a \in Addr, v \in Val :
          /\ Word(q, a, v, <<>>)
          /\ pack.addr = a + 1 /\ v = Stored(c, a) /\ CopiedBelow(c, a)
  BY <1>2 DEF CopyingData
<1>4. q \in Pages /\ v # Blank
  BY PagesAround, ValAssumption DEF Ring
<1>5. /\ SameBut(q)
      /\ \/ Word(q, a, v, <<>>)' /\ nvm' # <<>> /\ \A x : Newest(q, x)' = Newest(q, x)
         \/ nvm' = <<>> /\ \A x : Newest(q, x)' = IF x = a THEN v ELSE Newest(q, x)
  BY <1>3, <1>4, NoFollowers, WordStep
<1>6. \A x : Stored(c, x)' = Stored(c, x)
  BY <1>5, StoredKept
<1>7. pending' = {}
  BY <1>1, PendingStep
<1>8. Keeps
  <2>1. \A x : Finds(x) = Stored(c, x) /\ Finds(x)' = Stored(c, x)'
    BY <1>1, ReadsNow, ReadsThen DEF Reads, ReadsOf, FoundShape
  <2> QED
    BY <1>6, <2>1 DEF Keeps
<1>9. Known(c)'
  <2>1. Stored(c, a) # Blank
    BY <1>3, <1>4
  <2>2. \A x \in Addr : Newest(q, x) # Blank => Stored(c, x) # Blank
    BY <1>1 DEF Known
  <2>3. \A x \in Addr : Newest(q, x)' # Blank => Stored(c, x)' # Blank
    BY <1>5, <1>6, <2>1, <2>2
  <2> QED
    BY <2>3 DEF Known
<1>10. CASE Word(q, a, v, <<>>)' /\ nvm' # <<>> /\ \A x : Newest(q, x)' = Newest(q, x)
  <2>1. CopiedBelow(c, a)'
    BY <1>3, <1>6, <1>10 DEF CopiedBelow
  <2>2. v = Stored(c, a)'
    BY <1>3, <1>6
  <2> QED
    BY <1>1, <1>3, <1>7, <1>8, <1>9, <1>10, <2>1, <2>2 DEF CopyingData, Goes
<1>11. CASE nvm' = <<>> /\ \A x : Newest(q, x)' = IF x = a THEN v ELSE Newest(q, x)
  <2>1. \A x \in Addr : x < a + 1 => x = a \/ x < a
    BY <1>3 DEF Addr
  <2>2. CopiedBelow(c, pack.addr)'
    BY <1>1, <1>3, <1>6, <1>11, <2>1 DEF CopiedBelow
  <2> QED
    BY <1>1, <1>7, <1>8, <1>9, <1>11, <2>2 DEF CopyingData, Goes
<1> QED
  BY <1>5, <1>10, <1>11

\* The copy init_dee erases at start-up was not to be read.
LEMMA BootEraseDataStep ==
    ASSUME TypeInv, TypeInv', FlashOperation, NEW c \in Pages, BootErase(c), pending = {}
    PROVE  ((BootErase(c)' /\ pending' = {}) \/ UsingData(c)') /\ Goes
<1> DEFINE q == GetNextPage(c)
<1>1. /\ SameBut(q)
      /\ BootErase(c)' \/ (Using(c)' /\ nvm' = <<>> /\ flash'[q].element = <<>>)
  BY BootEraseStep
<1>2. pending' = {}
  BY PendingStep
<1>3. \A x : Finds(x) = Stored(c, x) /\ Finds(x)' = Stored(c, x)'
  BY <1>1, ReadsNow, ReadsThen DEF Reads, ReadsOf, FoundShape
<1>4. Keeps
  BY <1>1, <1>3, StoredKept DEF Keeps
<1>5. q \in Pages
  BY PagesAround DEF Ring
<1>6. flash'[q].element = <<>> => Known(c)'
  BY <1>5, BlankSays DEF Known
<1> QED
  BY <1>1, <1>2, <1>4, <1>6 DEF UsingData, AtRest, Goes

\* The copy is activated, and the packed pages go.
LEMMA ActivatingDataStep ==
    ASSUME TypeInv, TypeInv', FlashOperation, NEW c \in Pages, Activating(c), Complete(c)
    PROVE  BothInUse(c)' /\ Complete(c)' /\ Keeps
<1> DEFINE q == GetNextPage(c)
<1>1. q \in Pages
  BY PagesAround DEF Ring
<1>2. BothInUse(c)' /\ SameElements
  BY ActivatingStep
<1>3. (\A x : Stored(c, x)' = Stored(c, x)) /\ (\A x : Newest(q, x)' = Newest(q, x))
  BY <1>1, <1>2, StoredKept, AllNewestKept
<1>4. Complete(c)'
  BY <1>3 DEF Complete
<1>5. \A x \in Addr : Finds(x) = Stored(c, x) /\ Finds(x)' = Newest(q, x)'
  BY <1>2, <1>4, ReadsNow, ReadsThen DEF Reads, ReadsOf, FoundShape, CopiedShape
<1> QED
  BY <1>2, <1>3, <1>4, <1>5 DEF Complete, Keeps

\* What the copy says stays while the other pages are erased.
LEMMA CopyKeeps ==
    ASSUME TypeInv, TypeInv', NEW c \in Pages, CopiedShape(c), CopiedShape(c)',
           NEW p \in Pages, p # GetNextPage(c), SameBut(p) \/ UNCHANGED flash
    PROVE  Keeps
<1>1. GetNextPage(c) \in Pages
  BY PagesAround DEF Ring
<1>2. \A x : Newest(GetNextPage(c), x)' = Newest(GetNextPage(c), x)
  BY <1>1, AllNewestKept
<1>3. \A x \in Addr : /\ Finds(x) = Newest(GetNextPage(c), x)
                      /\ Finds(x)' = Newest(GetNextPage(c), x)'
  BY ReadsNow, ReadsThen DEF Reads, ReadsOf
<1> QED
  BY <1>2, <1>3 DEF Keeps

\* The first erasure after the copy: the newer packed page.
LEMMA BothInUseDataStep ==
    ASSUME TypeInv, TypeInv', FlashOperation, NEW c \in Pages, BothInUse(c), Complete(c)
    PROVE  PreviousInUse(c)' /\ Superseded(c)' /\ Keeps
<1> DEFINE q == GetNextPage(c)
           b == GetPreviousPage(c)
<1>1. q \in Pages /\ b \in Pages /\ q # c /\ b # c
  BY PagesAround DEF Ring
<1>2. PreviousInUse(c)' /\ SameBut(c)
  BY BothInUseStep
<1>3. \A x : Newest(q, x)' = Newest(q, x) /\ Newest(b, x)' = Newest(b, x)
  BY <1>1, <1>2, AllNewestKept
<1>4. Superseded(c)'
  <2>1. \A x \in Addr : Newest(b, x) # Blank => Newest(q, x) # Blank
    BY DEF Complete, Stored
  <2> QED
    BY <1>3, <2>1 DEF Superseded
<1>5. Keeps
  BY <1>1, <1>2, CopyKeeps DEF CopiedShape
<1> QED
  BY <1>2, <1>4, <1>5

\* The erasure of the newer packed page goes on: nothing the older one says is
\* missing in the copy.
LEMMA PreviousInUseDataStep ==
    ASSUME TypeInv, TypeInv', FlashOperation, NEW c \in Pages, PreviousInUse(c), Superseded(c)
    PROVE  PreviousInUse(c)' /\ Superseded(c)' /\ Keeps
<1> DEFINE q == GetNextPage(c)
           b == GetPreviousPage(c)
<1>1. q \in Pages /\ b \in Pages /\ q # c /\ b # c
  BY PagesAround DEF Ring
<1>2. PreviousInUse(c)' /\ SameBut(c)
  BY PreviousInUseStep
<1>3. \A x : Newest(q, x)' = Newest(q, x) /\ Newest(b, x)' = Newest(b, x)
  BY <1>1, <1>2, AllNewestKept
<1>4. Superseded(c)'
  BY <1>3 DEF Superseded
<1>5. Keeps
  BY <1>1, <1>2, CopyKeeps DEF CopiedShape
<1> QED
  BY <1>2, <1>4, <1>5

\* The erasure of the older packed page, and what follows it, programs no words.
LEMMA CopyInUseErases ==
    ASSUME TypeInv, NEW c \in Pages, CopyInUse(c)
    PROVE  nvm # <<>> => Head(nvm).op \in StatusOps
<1> DEFINE b == GetPreviousPage(c)
<1>1. b \in Pages
  BY PagesAround DEF Ring
<1>2. PICK rest : rest = Reopening(c)
  OBVIOUS
<1>3. rest \in Seq(OpType) /\ (rest # <<>> => rest = << Status("activate", b) >>)
  BY <1>1, <1>2, OpsTyped DEF Reopening
<1>4. \A op \in StatusOps : Status(op, b) \in OpType /\ Status(op, b).op \in StatusOps
  BY <1>1, OpsTyped DEF Status, Op
<1> DEFINE F == Status("erase_first", b)
           E == Status("erase_second", b)
           C == Status("count", b)
           A == Status("activate", b)
<1>5. /\ F \in OpType /\ E \in OpType /\ C \in OpType /\ A \in OpType
      /\ F.op \in StatusOps /\ E.op \in StatusOps /\ C.op \in StatusOps /\ A.op \in StatusOps
  BY <1>4 DEF StatusOps
<1>6. /\ nvm = <<F, E, C>> \o rest \/ nvm = <<E, C>> \o rest \/ nvm = <<C>> \o rest \/ nvm = rest
      /\ rest # <<>> => rest = <<A>>
  BY <1>2, <1>3 DEF CopyInUse, Erased, EraseOps
<1> HIDE DEF F, E, C, A
<1>7. /\ <<F, E, C>> \in Seq(OpType) /\ <<F, E, C>> # <<>> /\ Head(<<F, E, C>>) = F
      /\ <<E, C>> \in Seq(OpType) /\ <<E, C>> # <<>> /\ Head(<<E, C>>) = E
      /\ <<C>> \in Seq(OpType) /\ <<C>> # <<>> /\ Head(<<C>>) = C
      /\ Head(<<A>>) = A
  BY <1>5
<1>8. nvm # <<>> => Head(nvm) \in {F, E, C, A}
  <2>1. nvm = <<F, E, C>> \o rest => Head(nvm) = F
    BY <1>3, <1>7, ConcatHeadTail
  <2>2. nvm = <<E, C>> \o rest => Head(nvm) = E
    BY <1>3, <1>7, ConcatHeadTail
  <2>3. nvm = <<C>> \o rest => Head(nvm) = C
    BY <1>3, <1>7, ConcatHeadTail
  <2>4. nvm = rest /\ nvm # <<>> => Head(nvm) = A
    BY <1>6, <1>7
  <2> QED
    BY <1>6, <2>1, <2>2, <2>3, <2>4
<1> QED
  BY <1>5, <1>8

\* The erasure of the older packed page, until only the copy is in use.
LEMMA CopyInUseDataStep ==
    ASSUME TypeInv, TypeInv', FlashOperation, NEW c \in Pages, CopyInUse(c), Superseded(c)
    PROVE  ((CopyInUse(c)' /\ Superseded(c)') \/ Packed(c)') /\ Keeps
<1> DEFINE q == GetNextPage(c)
           b == GetPreviousPage(c)
<1>1. q \in Pages /\ b \in Pages /\ q # b
  BY PagesAround DEF Ring
<1>2. (CopyInUse(c)' \/ Packed(c)') /\ SameBut(b)
  BY CopyInUseStep
<1>3. Head(nvm).op \in StatusOps
  BY CopyInUseErases DEF FlashOperation
<1>4. \A x : Newest(q, x)' = Newest(q, x) /\ Newest(b, x)' \in {Newest(b, x), Blank}
  BY <1>1, <1>2, <1>3, AllNewestKept, StatusSays
<1>5. Superseded(c)'
  BY <1>4 DEF Superseded
<1>6. Keeps
  BY <1>1, <1>2, CopyKeeps DEF CopiedShape
<1> QED
  BY <1>2, <1>5, <1>6

\* The formatting of a fresh flash.
LEMMA FreshDataStep ==
    ASSUME TypeInv, TypeInv', FlashOperation, Fresh, pending = {}
    PROVE  ((Fresh' /\ pending' = {}) \/ FillingData(0)') /\ Goes
<1>1. Fresh' \/ (Filling(0)' /\ nvm' = <<>> /\ \A p \in Pages : flash'[p].element = <<>>)
  BY FreshStep
<1>2. pending' = {}
  BY PendingStep
<1>3. \A x : Finds(x) = Blank
  BY ReadsNow DEF Reads
<1>4. \A x : Finds(x)' = Blank
  <2>1. CASE Fresh'
    BY <2>1, ReadsThen DEF Reads
  <2>2. CASE Filling(0)' /\ nvm' = <<>> /\ \A p \in Pages : flash'[p].element = <<>>
    <3>1. 0 \in Pages /\ GetPreviousPage(0) \in Pages
      BY PagesAround DEF Ring, Pages, DEE_PAGE_CNT
    <3>2. \A x : Newest(0, x)' = Blank /\ Newest(GetPreviousPage(0), x)' = Blank
      BY <2>2, <3>1, BlankSays
    <3>3. \A x : Finds(x)' = Stored(0, x)'
      BY <2>2, <3>1, ReadsThen DEF Reads, ReadsOf, FoundShape
    <3> QED
      BY <3>2, <3>3 DEF Stored
  <2> QED
    BY <1>1, <2>1, <2>2
<1> QED
  BY <1>1, <1>2, <1>3, <1>4 DEF FillingData, AtRest, Goes, Keeps

\* Every flash operation keeps the words or carries the write out.
LEMMA FlashDataStep ==
    ASSUME TypeInv, TypeInv', FitInv, FitInv', DataInv, FlashOperation
    PROVE  DataInv' /\ Goes
<1>1. CASE Fresh /\ pending = {}
  <2>1. 0 \in Pages
    BY DEF Pages, DEE_PAGE_CNT
  <2> QED
    BY <1>1, <2>1, FreshDataStep DEF DataInv, DataShape
<1>2. ASSUME NEW c \in Pages, DataShape(c) PROVE DataInv' /\ Goes
  <2> DEFINE q == GetNextPage(c)
  <2>1. q \in Pages
    BY PagesAround DEF Ring
  <2>2. \A x \in Pages : DataShape(x)' => DataInv'
    BY DEF DataInv
  <2>3. CASE FillingData(c)
    BY <2>2, <2>3, FillingDataStep DEF DataShape
  <2>4. CASE LastWriteData(c)
    BY <2>2, <2>4, LastWriteDataStep DEF DataShape
  <2>5. CASE LateCloseData(c)
    BY <2>2, <2>5, LateCloseDataStep DEF DataShape
  <2>6. CASE ClosedData(c)
    BY <2>1, <2>2, <2>6, ClosedDataStep DEF DataShape
  <2>7. CASE UsingData(c)
    BY <2>2, <2>7, UsingDataStep DEF DataShape
  <2>8. CASE CopyingData(c)
    BY <2>2, <2>8, CopyingDataStep DEF DataShape
  <2>9. CASE pending = {}
    <3>1. pending' = pending
      BY <2>9, PendingStep
    <3>2. CASE BootErase(c)
      BY <2>2, <2>9, <3>2, BootEraseDataStep DEF DataShape
    <3>3. ~Packed(c)
      BY DEF Packed, FlashOperation
    <3>4. CASE Activating(c) /\ Complete(c)
      BY <2>2, <2>9, <3>1, <3>4, ActivatingDataStep DEF DataShape, Goes
    <3>5. CASE BothInUse(c) /\ Complete(c)
      BY <2>2, <2>9, <3>1, <3>5, BothInUseDataStep DEF DataShape, Goes
    <3>6. CASE PreviousInUse(c) /\ Superseded(c)
      BY <2>2, <2>9, <3>1, <3>6, PreviousInUseDataStep DEF DataShape, Goes
    <3>7. CASE CopyInUse(c) /\ Superseded(c)
      BY <2>2, <2>9, <3>1, <3>7, CopyInUseDataStep DEF DataShape, Goes
    <3>8. CASE FillingData(c) \/ LastWriteData(c) \/ LateCloseData(c) \/ ClosedData(c)
               \/ UsingData(c) \/ CopyingData(c)
      BY <2>3, <2>4, <2>5, <2>6, <2>7, <2>8, <3>8
    <3> QED
      BY <1>2, <3>2, <3>3, <3>4, <3>5, <3>6, <3>7, <3>8 DEF DataShape
  <2> QED
    BY <1>2, <2>3, <2>4, <2>5, <2>6, <2>7, <2>8, <2>9 DEF DataShape
<1> QED
  BY <1>1, <1>2 DEF DataInv

-----------------------------------------------------------------------------
(* The data, under the functions.                                          *)

\* The flash is as it was and the page found the same: so are the words.
LEMMA FoundKeeps ==
    ASSUME TypeInv, TypeInv', UNCHANGED flash, NEW c \in Pages, FoundShape(c), FoundShape(c)'
    PROVE  Keeps /\ \A x : Stored(c, x)' = Stored(c, x)
<1>1. \A x : Stored(c, x)' = Stored(c, x)
  BY StoredKept
<1>2. \A x : Finds(x) = Stored(c, x) /\ Finds(x)' = Stored(c, x)'
  BY ReadsNow, ReadsThen DEF Reads, ReadsOf
<1> QED
  BY <1>1, <1>2 DEF Keeps

\* What the pages say of each other stays while the flash stays.
LEMMA KnownStays ==
    ASSUME UNCHANGED flash, NEW c \in Pages
    PROVE  /\ Known(c) => Known(c)'
           /\ Complete(c) => Complete(c)'
           /\ Superseded(c) => Superseded(c)'
           /\ \A n : CopiedBelow(c, n) => CopiedBelow(c, n)'
<1>1. GetNextPage(c) \in Pages /\ GetPreviousPage(c) \in Pages
  BY PagesAround DEF Ring
<1>2. \A x : Stored(c, x)' = Stored(c, x)
  BY StoredKept
<1>3. \A x : /\ Newest(GetNextPage(c), x)' = Newest(GetNextPage(c), x)
             /\ Newest(GetPreviousPage(c), x)' = Newest(GetPreviousPage(c), x)
  BY <1>1, AllNewestKept
<1> QED
  BY <1>2, <1>3 DEF Known, Complete, Superseded, CopiedBelow

\* Between two functions no write is in progress.
LEMMA IdleData ==
    ASSUME TypeInv, NEW c \in Pages, DataShape(c), nvm = <<>>
    PROVE  /\ pending = {}
           /\ \/ Filling(c)
              \/ Using(c) /\ Known(c)
              \/ CopyingData(c) /\ Copying(c) /\ Known(c) /\ CopiedBelow(c, pack.addr)
              \/ BothInUse(c) /\ Complete(c)
              \/ PreviousInUse(c) /\ Superseded(c)
              \/ Packed(c)
<1>1. /\ ~LastWrite(c) /\ ~LateClose(c) /\ ~Closed(c) /\ ~BootErase(c)
      /\ ~Activating(c) /\ ~CopyInUse(c)
  BY IdleShape
<1>2. GetNextPage(c) \in Pages
  BY PagesAround DEF Ring
<1>3. /\ ~Own(c, <<>>)
      /\ \A a \in Addr, v \in Val : ~Word(GetNextPage(c), a, v, <<>>)
  BY <1>2, NoFollowers, OwnIsBusy
<1>4. CASE FillingData(c)
  BY <1>3, <1>4 DEF FillingData, AtRest
<1>5. CASE UsingData(c)
  BY <1>3, <1>5 DEF UsingData, AtRest
<1>6. CASE CopyingData(c)
  BY <1>3, <1>6 DEF CopyingData
<1>7. ~LastWriteData(c) /\ ~LateCloseData(c) /\ ~ClosedData(c)
  BY <1>1 DEF LastWriteData, LateCloseData, ClosedData
<1> QED
  BY <1>1, <1>4, <1>5, <1>6, <1>7 DEF DataShape

\* The functions that change nothing.
LEMMA DataStays ==
    ASSUME TypeInv, TypeInv', DataInv,
           UNCHANGED << flash, nvm, triggered, running, pack, resets, pending >>
    PROVE  DataInv' /\ Keeps
<1>1. CASE Fresh /\ pending = {}
  <2>1. Fresh'
    BY <1>1, FreshStays
  <2>2. Keeps
    BY <1>1, <2>1, ReadsNow, ReadsThen DEF Reads, Keeps
  <2> QED
    BY <1>1, <2>1, <2>2 DEF DataInv
<1>2. ASSUME NEW c \in Pages, DataShape(c) PROVE DataInv' /\ Keeps
  <2> DEFINE q == GetNextPage(c)
  <2>1. q \in Pages
    BY PagesAround DEF Ring
  <2>2. \A x : Stored(c, x)' = Stored(c, x) /\ Stored(q, x)' = Stored(q, x)
    BY <2>1, StoredKept
  <2>3. /\ \A p, rest : Own(p, rest) => Own(p, rest)'
        /\ AtRest => AtRest'
        /\ Held(c) => Held(c)'
        /\ Held(q) => Held(q)'
        /\ \A p, a, v, rest : Word(p, a, v, rest) => Word(p, a, v, rest)'
        /\ \A a, v : IsPending(a, v) => IsPending(a, v)'
    <3>1. \A p, a, v, rest : Word(p, a, v, rest) => Word(p, a, v, rest)'
      BY DEF Word, Torn
    <3>2. \A a, v : IsPending(a, v) => IsPending(a, v)'
      BY DEF IsPending
    <3>3. \A p, rest : Own(p, rest) => Own(p, rest)'
      BY <3>1, <3>2 DEF Own
    <3>4. AtRest => AtRest'
      BY DEF AtRest
    <3>5. (Held(c) => Held(c)') /\ (Held(q) => Held(q)')
      BY <2>2, <3>2 DEF Held
    <3> QED
      BY <3>1, <3>2, <3>3, <3>4, <3>5
  <2>4. DataShape(c)'
    <3>1. FillingData(c) => FillingData(c)'
      BY <2>3, ShapeStays DEF FillingData
    <3>0. nvm' = nvm
      OBVIOUS
    <3>2. LastWriteData(c) => LastWriteData(c)'
      <4> SUFFICES ASSUME LastWriteData(c) PROVE LastWriteData(c)'
        OBVIOUS
      <4>1. LastWrite(c)'
        BY ShapeStays DEF LastWriteData
      <4>2. CASE Own(c, Dee_CloseCurrentPage(c, q))
        <5>1. Own(c, Dee_CloseCurrentPage(c, q))'
          BY <2>3, <4>2
        <5> QED
          BY <4>1, <5>1 DEF LastWriteData
      <4>3. CASE nvm = Dee_CloseCurrentPage(c, q) /\ Held(c)
        <5>1. nvm' = Dee_CloseCurrentPage(c, q) /\ Held(c)'
          BY <2>3, <3>0, <4>3
        <5> QED
          BY <4>1, <5>1 DEF LastWriteData
      <4> QED
        BY <4>2, <4>3 DEF LastWriteData
    <3>3. LateCloseData(c) => LateCloseData(c)'
      BY <2>3, ShapeStays DEF LateCloseData
    <3>4. ClosedData(c) => ClosedData(c)'
      <4> SUFFICES ASSUME ClosedData(c) PROVE ClosedData(c)'
        OBVIOUS
      <4>1. Closed(c)'
        BY ShapeStays DEF ClosedData
      <4>2. CASE nvm = << Status("activate", q) >> /\ Held(q)
        <5>1. Held(q)' /\ nvm' = << Status("activate", q) >>
          BY <2>3, <3>0, <4>2
        <5> QED
          BY <4>1, <5>1 DEF ClosedData
      <4>3. ASSUME NEW a \in Used, NEW v \in Val, IsPending(a, v),
                   nvm = << Status("activate", q) >> \o WriteElement(q, a, v)
            PROVE  ClosedData(c)'
        BY <2>3, <3>0, <4>1, <4>3 DEF ClosedData
      <4> QED
        BY <4>2, <4>3 DEF ClosedData
    <3>5. UsingData(c) => UsingData(c)'
      BY <2>3, ShapeStays, KnownStays DEF UsingData
    <3>6. CopyingData(c) => CopyingData(c)'
      <4> SUFFICES ASSUME CopyingData(c) PROVE CopyingData(c)'
        OBVIOUS
      <4>1. Copying(c)' /\ Known(c)' /\ pending' = {} /\ (pack'.state = "FinalCheck" => pack'.addr = SIZE)
        BY ShapeStays, KnownStays DEF CopyingData
      <4>2. CASE nvm = <<>> /\ CopiedBelow(c, pack.addr)
        BY <4>1, <4>2, KnownStays DEF CopyingData
      <4>3. ASSUME NEW a \in Addr, NEW v \in Val, Word(q, a, v, <<>>),
                   pack.addr = a + 1, v = Stored(c, a), CopiedBelow(c, a)
            PROVE  CopyingData(c)'
        <5>1. Word(q, a, v, <<>>)' /\ pack'.addr = a + 1 /\ v = Stored(c, a)' /\ CopiedBelow(c, a)'
          BY <2>2, <2>3, <4>3, KnownStays
        <5> QED
          BY <4>1, <5>1 DEF CopyingData
      <4> QED
        BY <4>2, <4>3 DEF CopyingData
    <3>7. pending = {} => pending' = {}
      OBVIOUS
    <3> QED
      BY <1>2, <3>1, <3>2, <3>3, <3>4, <3>5, <3>6, <3>7, ShapeStays, KnownStays DEF DataShape
  <2>5. \A x \in Addr : Finds(x)' = Finds(x)
    <3>1. /\ FoundShape(c) => FoundShape(c)'
          /\ Closed(c) => Closed(c)'
          /\ CopiedShape(c) => CopiedShape(c)'
      BY ShapeStays, KnownStays DEF FoundShape, CopiedShape
    <3>2. \A x : Newest(q, x)' = Newest(q, x)
      BY <2>1, AllNewestKept
    <3>3. FoundShape(c) \/ Closed(c) \/ CopiedShape(c)
      BY <1>2 DEF DataShape, FillingData, LastWriteData, LateCloseData, ClosedData, UsingData,
                  CopyingData, FoundShape, CopiedShape
    <3>4. ReadsOf(c) /\ ReadsOf(c)'
      BY ReadsNow, ReadsThen DEF Reads
    <3> QED
      BY <2>2, <3>1, <3>2, <3>3, <3>4 DEF ReadsOf
  <2> QED
    BY <2>4, <2>5 DEF DataInv, Keeps
<1> QED
  BY <1>1, <1>2 DEF DataInv

\* The word a store is about is the one the caller asked for.
LEMMA WriteOwns ==
    ASSUME TypeInv, TypeInv', NEW c \in Pages, NEW a \in Used, NEW v \in Val,
           pending' = {[addr |-> a, val |-> v]}, NEW rest \in Seq(OpType),
           nvm' = WriteElement(c, a, v) \o rest
    PROVE  Own(c, rest)'
  BY DEF Own, Word, WriteElement, IsPending

\* The operations of a store belong to the word the caller asked for.
LEMMA StoreData ==
    ASSUME TypeInv, TypeInv', FitInv, DataInv, NEW a \in Used, NEW v \in Val, Store(a, v),
           nvm = <<>>, ~running, ~Overrun,
           UNCHANGED << flash, running, pack, resets >>,
           pending' = {[addr |-> a, val |-> v]}
    PROVE  DataInv' /\ Keeps /\ pending = {}
<1>1. PICK c \in Pages : DataShape(c)
  BY FreshIsBusy DEF DataInv
<1>2. pending = {} /\ (Filling(c) \/ (Using(c) /\ Known(c)))
  BY <1>1, IdleData DEF Copying, Packed, BothInUse, PreviousInUse, Packing
<1>3. a \in Addr /\ GetNextPage(c) \in Pages
  BY SizeAssumption, PagesAround DEF Ring
<1>4. \A x \in Pages : DataShape(x)' => DataInv'
  BY DEF DataInv
<1>5. CASE Filling(c)
  <2> DEFINE q == GetNextPage(c)
  <2>1. \/ Filling(c)' /\ nvm' = WriteElement(c, a, v) \o <<>>
        \/ LastWrite(c)' /\ nvm' = WriteElement(c, a, v) \o Dee_CloseCurrentPage(c, q)
        \/ LateClose(c)' /\ nvm' = Dee_CloseCurrentPage(c, q) \o WriteElement(q, a, v)
    BY <1>3, <1>5, StoreWhenFilling
  <2>2. Keeps
    BY <1>5, <2>1, FoundKeeps DEF FoundShape
  <2>3. CASE Filling(c)' /\ nvm' = WriteElement(c, a, v) \o <<>>
    <3>1. Own(c, <<>>)'
      BY <2>3, NoFollowers, WriteOwns
    <3> QED
      BY <1>2, <1>4, <2>2, <2>3, <3>1 DEF FillingData, DataShape
  <2>4. CASE LastWrite(c)' /\ nvm' = WriteElement(c, a, v) \o Dee_CloseCurrentPage(c, q)
    <3>1. Own(c, Dee_CloseCurrentPage(c, q))'
      BY <1>3, <2>4, NoFollowers, WriteOwns
    <3> QED
      BY <1>2, <1>4, <2>2, <2>4, <3>1 DEF LastWriteData, DataShape
  <2>5. CASE LateClose(c)' /\ nvm' = Dee_CloseCurrentPage(c, q) \o WriteElement(q, a, v)
    <3>1. LateCloseData(c)'
      BY <2>5 DEF LateCloseData, IsPending
    <3> QED
      BY <1>2, <1>4, <2>2, <3>1 DEF DataShape
  <2> QED
    BY <2>1, <2>3, <2>4, <2>5
<1>6. CASE Using(c) /\ Known(c)
  <2>1. Using(c)' /\ nvm' = WriteElement(c, a, v) \o <<>>
    BY <1>3, <1>6, StoreWhenUsing
  <2>2. Keeps /\ Known(c)'
    BY <1>6, <2>1, FoundKeeps, KnownStays DEF FoundShape
  <2>3. Own(c, <<>>)'
    BY <2>1, NoFollowers, WriteOwns
  <2> QED
    BY <1>2, <1>4, <2>1, <2>2, <2>3 DEF UsingData, DataShape
<1> QED
  BY <1>2, <1>5, <1>6

\* A write changes no word before its flash operations; it remembers its request,
\* or finds the word stored already.
LEMMA WriteDataStep ==
    ASSUME TypeInv, TypeInv', FitInv, DataInv, NEW a \in Used, NEW v \in Val, StoresWord(a, v),
           ~wounded'
    PROVE  /\ DataInv' /\ Keeps /\ resets' = resets
           /\ pending = {} /\ \A x : Finds(x) = DataEERead(x)
           /\ \/ pending' = {} /\ DataEERead(a) = v
              \/ pending' = {[addr |-> a, val |-> v]}
<1>1. nvm = <<>> /\ ~running /\ UNCHANGED << flash, running, pack, resets >>
  BY DEF StoresWord, WriteWord, Idle
<1>2. PICK c \in Pages : DataShape(c)
  BY <1>1, FreshIsBusy DEF DataInv
<1>3. pending = {} /\ (Filling(c) \/ (Using(c) /\ Known(c)))
  BY <1>1, <1>2, IdleData DEF Copying, Packed, BothInUse, PreviousInUse, Packing
<1>4. \A x : Finds(x) = DataEERead(x)
  <2>1. GetActiveCurrentPage = c /\ c # NoPage
    BY <1>3, PagesInUse, PagesAround DEF Filling, Using, Ring
  <2> QED
    BY <1>1, <2>1 DEF Finds, PackedPagesGo
<1>5. CASE Store(a, v) /\ pending' = {[addr |-> a, val |-> v]} /\ ~Overrun
  BY <1>1, <1>4, <1>5, StoreData
<1>6. CASE UNCHANGED << nvm, triggered, pending >> /\ DataEERead(a) = v
  <2>1. (Filling(c) /\ Filling(c)') \/ (Using(c) /\ Using(c)' /\ Known(c)')
    BY <1>1, <1>3, <1>6, NothingStored, KnownStays
  <2>2. Keeps
    BY <1>1, <2>1, FoundKeeps DEF FoundShape
  <2>3. AtRest'
    BY <1>1, <1>3, <1>6 DEF AtRest
  <2>4. DataInv'
    BY <2>1, <2>3 DEF DataInv, DataShape, FillingData, UsingData
  <2> QED
    BY <1>1, <1>3, <1>4, <1>6, <2>2, <2>4
<1> QED
  BY <1>5, <1>6 DEF StoresWord, WriteWord

\* The step of the pack that a shape goes on with.
LEMMA PackGoesOn ==
    ASSUME TypeInv, NEW c \in Pages, PackStep
    PROVE  /\ nvm = <<>> /\ UNCHANGED << flash, pending >>
           /\ ~Filling(c)
           /\ Using(c) => PackStart
           /\ Copying(c) => PackForCycle \/ PackCopied \/ PackFinalCheck
           /\ BothInUse(c) => PackErase1a \/ PackErase2a
           /\ PreviousInUse(c) => PackErase1b \/ PackErase2b
           /\ Packed(c) => PackAfterErase \/ PackStop
<1>1. /\ nvm = <<>> /\ triggered
      /\ PackStart => pack.state = "Start"
      /\ PackForCycle => pack.state = "ForCycle"
      /\ PackCopied => pack.state = "ForCycle"
      /\ PackFinalCheck => pack.state = "FinalCheck"
      /\ PackErase1a => pack.state = "Erase_1a"
      /\ PackErase2a => pack.state = "Erase_2a"
      /\ PackErase1b => pack.state = "Erase_1b"
      /\ PackErase2b => pack.state = "Erase_2b"
      /\ PackAfterErase => pack.state = "After_Erase"
      /\ PackStop => pack.state = "Stop"
  BY DEF PackStep, PackStart, PackForCycle, PackCopied, PackFinalCheck, PackErase1a, PackErase2a,
         PackErase1b, PackErase2b, PackErase, PackAfterErase, PackStop, Pack, Idle
<1>2. UNCHANGED << flash, pending >>
  BY DEF PackStep, PackStart, PackForCycle, PackCopied, PackFinalCheck, PackErase1a, PackErase2a,
         PackErase1b, PackErase2b, PackErase, PackAfterErase, PackStop, Pack
<1>3. BothInUse(c) => pack.state \in {"Erase_1a", "Erase_2a"}
  BY <1>1, IdleShape
<1>4. /\ ~Filling(c)
      /\ Using(c) => pack.state = "Start"
      /\ Copying(c) => pack.state \in {"ForCycle", "FinalCheck"}
      /\ PreviousInUse(c) => pack.state \in {"Erase_1b", "Erase_2b"}
      /\ Packed(c) => pack.state \in {"After_Erase", "Stop"}
  BY <1>1 DEF Filling, Using, Resting, NoPack, Copying, PreviousInUse, Packed
<1> QED
  BY <1>1, <1>2, <1>3, <1>4 DEF PackStep

\* The pack starts with nothing copied.
LEMMA PackStartData ==
    ASSUME TypeInv, TypeInv', FitInv, NEW c \in Pages, Using(c), Known(c), pending = {},
           PackStart, UNCHANGED << flash, pending >>
    PROVE  CopyingData(c)' /\ Keeps
<1>1. Copying(c)' /\ pack'.addr = 0 /\ nvm' = <<>>
  BY PackStartStep
<1>2. pack'.state # "FinalCheck"
  BY DEF PackStart
<1>3. CopiedBelow(c, 0)'
  BY DEF CopiedBelow, Addr
<1>4. Known(c)' /\ Keeps
  BY <1>1, KnownStays, FoundKeeps DEF FoundShape
<1> QED
  BY <1>1, <1>2, <1>3, <1>4 DEF CopyingData

\* An address that is stored nowhere is not in the copy either, so that every
\* address the cycle has passed is copied.
LEMMA PackForCycleData ==
    ASSUME TypeInv, TypeInv', FitInv, NEW c \in Pages, Copying(c), Known(c),
           CopiedBelow(c, pack.addr), pending = {}, PackForCycle, ~wounded',
           UNCHANGED << flash, pending >>
    PROVE  CopyingData(c)' /\ Keeps
<1> DEFINE q == GetNextPage(c)
<1>n. PICK n, found : n = pack.addr /\ found = DataEERead(n)
  OBVIOUS
<1>1. /\ Copying(c)' /\ pack'.addr = n + 1 /\ n \in Addr /\ pack'.state = "ForCycle"
      /\ \/ found = Blank /\ nvm' = <<>>
         \/ found \in Val /\ nvm' = WriteElement(q, n, found)
  BY <1>n, PackForCycleStep
<1>2. found = Stored(c, n)
  <2>1. Found(c) /\ (flash[GetPreviousPage(c)].active \/ flash[GetPreviousPage(c)].element = <<>>)
    BY DEF Copying, Two, BlankPage
  <2> QED
    BY <1>n, <2>1, FoundReads
<1>3. Known(c)' /\ Keeps /\ CopiedBelow(c, n)'
  BY <1>1, <1>n, KnownStays, FoundKeeps DEF FoundShape
<1>4. q \in Pages
  BY PagesAround DEF Ring
<1>5. CASE found = Blank /\ nvm' = <<>>
  <2>1. Newest(q, n) = Stored(c, n)
    BY <1>1, <1>2, <1>5 DEF Known
  <2>2. Newest(q, n)' = Stored(c, n)'
    BY <1>4, <2>1, AllNewestKept, StoredKept
  <2>3. \A x \in Addr : x < n + 1 => x = n \/ x < n
    BY <1>1 DEF Addr
  <2>4. CopiedBelow(c, pack.addr)'
    BY <1>1, <1>3, <2>2, <2>3 DEF CopiedBelow
  <2> QED
    BY <1>1, <1>3, <1>5, <2>4 DEF CopyingData
<1>6. CASE found \in Val /\ nvm' = WriteElement(q, n, found)
  <2>1. WriteElement(q, n, found) \in Seq(OpType)
    BY <1>1, <1>4, <1>6, OpsTyped
  <2>2. nvm' = WriteElement(q, n, found) \o <<>>
    BY <1>6, <2>1, ConcatEmptySeq
  <2>3. Word(q, n, found, <<>>)'
    BY <2>2 DEF Word, WriteElement
  <2>4. found = Stored(c, n)'
    BY <1>2, StoredKept
  <2> QED
    BY <1>1, <1>3, <1>6, <2>3, <2>4 DEF CopyingData
<1> QED
  BY <1>1, <1>5, <1>6

\* A copied word is checked before the next one.
LEMMA PackCopiedData ==
    ASSUME TypeInv, TypeInv', FitInv, NEW c \in Pages, Copying(c), Known(c),
           CopiedBelow(c, pack.addr), pending = {}, PackCopied,
           UNCHANGED << flash, pending >>
    PROVE  CopyingData(c)' /\ Keeps
<1>1. Copying(c)' /\ pack.addr = SIZE /\ pack'.addr = SIZE
  BY PackCopiedStep
<1>2. nvm' = <<>>
  BY DEF PackCopied, Pack, Idle
<1>3. Known(c)' /\ Keeps /\ CopiedBelow(c, SIZE)'
  BY <1>1, KnownStays, FoundKeeps DEF FoundShape
<1> QED
  BY <1>1, <1>2, <1>3 DEF CopyingData

\* The final check comes when every address is copied.
LEMMA PackFinalCheckData ==
    ASSUME TypeInv, TypeInv', FitInv, NEW c \in Pages, CopyingData(c),
           CopiedBelow(c, pack.addr), PackFinalCheck, UNCHANGED << flash, pending >>
    PROVE  Activating(c)' /\ Complete(c)' /\ Keeps
<1>1. Copying(c) /\ pack.addr = SIZE
  BY DEF CopyingData, PackFinalCheck, Pack
<1>2. Activating(c)'
  BY <1>1, PackFinalCheckStep
<1>3. Complete(c)
  BY <1>1, SizeAssumption DEF CopiedBelow, Complete, Addr
<1> QED
  BY <1>1, <1>2, <1>3, KnownStays, FoundKeeps DEF FoundShape

\* The last step of the pack: the copy is in use, alone or behind a blank page.
LEMMA PackStopData ==
    ASSUME TypeInv, TypeInv', FitInv, NEW c \in Pages, Packed(c), PackStop, pending = {},
           UNCHANGED << flash, pending >>
    PROVE  (\E x \in Pages : DataShape(x)') /\ Keeps
<1> DEFINE q == GetNextPage(c)
           b == GetPreviousPage(c)
<1>1. /\ q \in Pages /\ b \in Pages /\ GetPreviousPage(q) = c /\ GetPreviousPage(b) = q
      /\ GetNextPage(b) = c
  BY PagesAround DEF Ring
<1>2. (Filling(q)' /\ nvm' = <<>>) \/ (Using(b)' /\ nvm' = <<>>)
  BY PackStopStep
<1>3. flash[c].element = <<>> /\ flash[b].element = <<>>
  BY DEF Packed
<1>4. \A x \in Addr : Finds(x) = Newest(q, x)
  BY ReadsNow DEF Reads, ReadsOf, CopiedShape
<1>5. \A x : Stored(q, x)' = Newest(q, x) /\ Stored(b, x)' = Newest(q, x)
  BY <1>1, <1>3, StoredInOne, StoredKept
<1>6. CASE Filling(q)' /\ nvm' = <<>>
  <2>1. Keeps
    BY <1>1, <1>4, <1>5, <1>6, ReadsThen DEF Reads, ReadsOf, FoundShape, Keeps
  <2> QED
    BY <1>1, <1>6, <2>1 DEF DataShape, FillingData, AtRest
<1>7. CASE Using(b)' /\ nvm' = <<>>
  <2>1. Keeps
    BY <1>1, <1>4, <1>5, <1>7, ReadsThen DEF Reads, ReadsOf, FoundShape, Keeps
  <2>2. Known(b)'
    BY <1>1, <1>3, BlankSays DEF Known
  <2> QED
    BY <1>1, <1>7, <2>1, <2>2 DEF DataShape, UsingData, AtRest
<1> QED
  BY <1>2, <1>6, <1>7

\* No step of the pack changes a word.
LEMMA PackDataStep ==
    ASSUME TypeInv, TypeInv', FitInv, DataInv, PackStep, ~wounded'
    PROVE  DataInv' /\ Keeps /\ pending' = pending
<1>1. nvm = <<>> /\ UNCHANGED << flash, pending >>
  BY PackGoesOn, PagesAround DEF PackStep, PackStart, PackForCycle, PackCopied, PackFinalCheck,
         PackErase1a, PackErase2a, PackErase1b, PackErase2b, PackErase, PackAfterErase, PackStop,
         Pack, Idle
<1>2. PICK c \in Pages : DataShape(c)
  BY <1>1, FreshIsBusy DEF DataInv
<1>3. pending = {} /\ pending' = {}
  BY <1>1, <1>2, IdleData
<1>4. \A x \in Pages : DataShape(x)' => DataInv'
  BY DEF DataInv
<1>5. GetNextPage(c) \in Pages /\ c # GetNextPage(c)
  BY PagesAround DEF Ring
<1>6. CASE Using(c) /\ Known(c)
  BY <1>1, <1>3, <1>4, <1>6, PackGoesOn, PackStartData DEF DataShape
<1>7. CASE CopyingData(c) /\ Copying(c) /\ Known(c) /\ CopiedBelow(c, pack.addr)
  <2>1. CASE PackForCycle
    BY <1>1, <1>3, <1>4, <1>7, <2>1, PackForCycleData DEF DataShape
  <2>2. CASE PackCopied
    BY <1>1, <1>3, <1>4, <1>7, <2>2, PackCopiedData DEF DataShape
  <2>3. CASE PackFinalCheck
    BY <1>1, <1>3, <1>4, <1>7, <2>3, PackFinalCheckData DEF DataShape
  <2> QED
    BY <1>7, <2>1, <2>2, <2>3, PackGoesOn
<1>8. CASE BothInUse(c) /\ Complete(c)
  <2>1. BothInUse(c)' /\ Complete(c)'
    BY <1>1, <1>8, PackGoesOn, PackEraseCurrentStep, KnownStays
  <2>2. Keeps
    BY <1>1, <1>5, <1>8, <2>1, CopyKeeps DEF CopiedShape
  <2> QED
    BY <1>3, <1>4, <2>1, <2>2 DEF DataShape
<1>9. CASE PreviousInUse(c) /\ Superseded(c)
  <2>1. CopyInUse(c)' /\ Superseded(c)'
    BY <1>1, <1>9, PackGoesOn, PackErasePreviousStep, KnownStays
  <2>2. Keeps
    BY <1>1, <1>5, <1>9, <2>1, CopyKeeps DEF CopiedShape
  <2> QED
    BY <1>3, <1>4, <2>1, <2>2 DEF DataShape
<1>10. CASE Packed(c)
  <2>1. CASE PackAfterErase
    <3>1. Packed(c)'
      BY <1>10, <2>1, PackAfterEraseStep
    <3>2. Keeps
      BY <1>1, <1>5, <1>10, <3>1, CopyKeeps DEF CopiedShape
    <3> QED
      BY <1>3, <1>4, <3>1, <3>2 DEF DataShape
  <2>2. CASE PackStop
    BY <1>1, <1>3, <1>4, <1>10, <2>2, PackStopData
  <2> QED
    BY <1>10, <2>1, <2>2, PackGoesOn
<1> QED
  BY <1>1, <1>2, <1>6, <1>7, <1>8, <1>9, <1>10, IdleData, PackGoesOn

-----------------------------------------------------------------------------
(* The data, under a reset.                                                *)

\* The pages a survived reset finds say what was read before it.
LEMMA SurvivorData ==
    ASSUME TypeInv, FitInv, NEW c \in Pages, DataShape(c), ~CutsShort
    PROVE  \E x \in Pages : /\ Survived(x) /\ (Two(x) => Known(x))
                            /\ \A a \in Addr : Finds(a) = Stored(x, a)
<1> DEFINE q == GetNextPage(c)
           b == GetPreviousPage(c)
<1>1. /\ q \in Pages /\ b \in Pages /\ GetNextPage(q) = b /\ GetPreviousPage(q) = c
      /\ GetNextPage(b) = c /\ GetPreviousPage(b) = q
  BY PagesAround DEF Ring
<1>2. /\ FoundShape(c) => \A a : Finds(a) = Stored(c, a)
      /\ CopiedShape(c) => \A a \in Addr : Finds(a) = Newest(q, a)
  BY ReadsNow DEF Reads, ReadsOf
<1>3. ASSUME FoundShape(c), Two(c) => Known(c)
      PROVE  /\ Survived(c) /\ (Two(c) => Known(c))
             /\ \A a \in Addr : Finds(a) = Stored(c, a)
  BY <1>2, <1>3, SurvivedWhere DEF FoundShape
<1>4. CASE Filling(c) \/ LastWrite(c) \/ LateClose(c)
  <2>1. One(c)
    BY <1>4 DEF Filling, LastWrite, LateClose
  <2>2. ~Two(c)
    BY <2>1 DEF One, Two, BlankPage, Available
  <2> QED
    BY <1>3, <1>4, <2>2 DEF FoundShape
<1>5. CASE (Using(c) \/ Copying(c)) /\ Known(c)
  BY <1>3, <1>5 DEF FoundShape
<1>6. CASE BootErase(c)
  <2>1. Three(c)
    BY <1>6, SurvivedShape
  <2>2. ~Two(c)
    BY <1>1, <2>1 DEF Three, Two, BlankPage, Available
  <2> QED
    BY <1>3, <1>6, <2>2 DEF FoundShape
<1>7. Complete(c) => Known(c)
  BY DEF Complete, Known
<1>8. CASE Activating(c) /\ Complete(c)
  BY <1>3, <1>7, <1>8 DEF FoundShape
<1>9. CASE BothInUse(c) /\ Complete(c)
  <2>1. Survived(c) \/ Survived(q)
    BY <1>9, SurvivedWhere
  <2>2. \A a \in Addr : Finds(a) = Newest(q, a) /\ Newest(q, a) = Stored(c, a)
    BY <1>2, <1>9 DEF CopiedShape, Complete
  <2>3. \A a \in Addr : Stored(q, a) = Newest(q, a)
    BY <1>1, <2>2 DEF Stored
  <2>4. Known(q)
    <3>1. \A a \in Addr : Newest(b, a) # Blank => Stored(c, a) # Blank
      BY DEF Stored
    <3> QED
      BY <1>1, <2>2, <2>3, <3>1 DEF Known
  <2> QED
    BY <1>1, <1>7, <1>9, <2>1, <2>2, <2>3, <2>4
<1>10. CASE (PreviousInUse(c) \/ CopyInUse(c)) /\ Superseded(c)
  <2>1. Survived(q)
    BY <1>10, SurvivedWhere
  <2>2. flash[c].element = <<>>
    BY <1>10, SurvivedShape DEF BlankPage
  <2>3. \A a : Stored(q, a) = Newest(q, a)
    BY <1>1, <2>2, StoredInOne
  <2>4. Known(q)
    BY <1>1, <1>10, <2>3 DEF Known, Superseded
  <2> QED
    BY <1>1, <1>2, <1>10, <2>1, <2>3, <2>4 DEF CopiedShape
<1>11. CASE Packed(c)
  <2>1. flash[c].element = <<>> /\ flash[b].element = <<>>
    BY <1>11 DEF Packed
  <2>2. (\A a : Stored(q, a) = Newest(q, a)) /\ (\A a : Stored(b, a) = Newest(q, a))
    BY <1>1, <2>1, StoredInOne
  <2>3. (One(q) /\ Survived(q)) \/ (Two(b) /\ Survived(b))
    BY <1>11, SurvivedWhere
  <2>4. One(q) => ~Two(q)
    BY DEF One, Two, BlankPage, Available
  <2>5. Known(b)
    BY <1>1, <2>1, BlankSays DEF Known
  <2> QED
    BY <1>1, <1>2, <1>11, <2>2, <2>3, <2>4, <2>5 DEF CopiedShape
<1>12. ~ClosedData(c)
  BY SurvivedShape DEF ClosedData
<1> QED
  BY <1>4, <1>5, <1>6, <1>8, <1>9, <1>10, <1>11, <1>12
     DEF DataShape, FillingData, LastWriteData, LateCloseData, UsingData, CopyingData

\* A survived reset gives up the write in progress and changes no word.
LEMMA ResetDataStep ==
    ASSUME TypeInv, TypeInv', FitInv, DataInv, Reset, ~CutsShort
    PROVE  DataInv' /\ Keeps
<1>1. pending' = {} /\ UNCHANGED flash
  BY DEF Reset
<1>2. CASE Fresh
  <2>1. Fresh'
    BY <1>2, BlankReset DEF Fresh
  <2> QED
    BY <1>1, <1>2, <2>1, ReadsNow, ReadsThen DEF Reads, Keeps, DataInv
<1>3. ASSUME NEW c \in Pages, DataShape(c) PROVE DataInv' /\ Keeps
  <2>1. PICK x \in Pages : /\ Survived(x) /\ (Two(x) => Known(x))
                           /\ \A a \in Addr : Finds(a) = Stored(x, a)
    BY <1>3, SurvivorData
  <2>2. \/ One(x) /\ Filling(x)' /\ nvm' = <<>>
        \/ Two(x) /\ Using(x)' /\ nvm' = <<>>
        \/ BootErase(x)'
    BY <2>1, SurvivorReset
  <2>3. \A a \in Addr : Finds(a)' = Stored(x, a)'
    BY <2>2, ReadsThen DEF Reads, ReadsOf, FoundShape
  <2>4. Keeps
    BY <1>1, <2>1, <2>3, StoredKept DEF Keeps
  <2>5. Known(x) => Known(x)'
    BY <1>1, KnownStays
  <2>6. DataShape(x)'
    BY <1>1, <2>1, <2>2, <2>5 DEF DataShape, FillingData, UsingData, AtRest
  <2> QED
    BY <2>4, <2>6 DEF DataInv
<1> QED
  BY <1>2, <1>3 DEF DataInv

-----------------------------------------------------------------------------
(* The words.                                                              *)

WordsInv == ~wounded => DataInv

\* A step of the driver is a step of DurableWords, or changes nothing it speaks of.
DurableStep == [Durable!Next]_(Durable!vars)

\* Nothing read changes, no write begins or ends.
LEMMA WordsStay ==
    ASSUME Keeps, pending' = pending, ~wounded, ~wounded', resets' = resets, deferred' = deferred
    PROVE  DurableStep
<1>1. [a \in Used |-> Finds(a)]' = [a \in Used |-> Finds(a)]
  BY SizeAssumption DEF Keeps
<1>2. (~wounded)' = ~wounded
  OBVIOUS
<1>3. UNCHANGED << [a \in Used |-> Finds(a)], pending, deferred, ~wounded, resets >>
  BY <1>1, <1>2
<1>4. UNCHANGED Durable!vars
  BY <1>3 DEF Durable!vars
<1> QED
  BY <1>4 DEF DurableStep

\* A flash operation stores the caller's word, returns from the write, or does
\* neither.
LEMMA WordsGo ==
    ASSUME Goes, ~wounded, ~wounded', resets' = resets, deferred' = deferred
    PROVE  DurableStep
<1> DEFINE mem == [a \in Used |-> Finds(a)]
<1>1. CASE Keeps /\ pending' = pending
  BY <1>1, WordsStay
<1>2. CASE Commits
  <2>1. PICK a \in Used, v \in Val :
            /\ IsPending(a, v) /\ pending' \in {pending, {}}
            /\ Finds(a)' = v /\ \A x \in Addr \ {a} : Finds(x)' = Finds(x)
    BY <1>2 DEF Commits
  <2>2. mem' = [mem EXCEPT ![a] = v]
    BY <2>1, SizeAssumption
  <2>3. \E r \in pending : mem' = [mem EXCEPT ![r.addr] = r.val]
    BY <2>1, <2>2 DEF IsPending
  <2>4. Durable!Commit
    BY <2>1, <2>3 DEF Durable!Commit
  <2> QED
    BY <2>4 DEF DurableStep, Durable!Next
<1>3. CASE Ends
  <2>1. PICK a \in Used, v \in Val : IsPending(a, v) /\ Finds(a) = v /\ Keeps /\ pending' = {}
    BY <1>3 DEF Ends
  <2>2. mem' = mem
    BY <2>1, SizeAssumption DEF Keeps
  <2>3. \E r \in pending : mem[r.addr] = r.val
    BY <2>1 DEF IsPending
  <2>4. Durable!End
    BY <2>1, <2>2, <2>3 DEF Durable!End
  <2> QED
    BY <2>4 DEF DurableStep, Durable!Next
<1> QED
  BY <1>1, <1>2, <1>3 DEF Goes

\* The word a caller asks for is made of the one a read finds.
LEMMA RequestIs ==
    \A a \in Used : \A b : Durable!Request(a, b) = [addr |-> a, val |-> Merged(Finds(a), b)]
<1> TAKE a \in Used
<1> TAKE b
<1>1. [x \in Used |-> Finds(x)][a] = Finds(a)
  OBVIOUS
<1> QED
  BY <1>1 DEF Durable!Request

\* A write that does not return at once begins.
LEMMA WordsBegin ==
    ASSUME Keeps, NEW a \in Used, NEW b \in Byte, pending = {},
           pending' = {[addr |-> a, val |-> Merged(Finds(a), b)]},
           ~wounded, ~wounded', resets' = resets, deferred' = deferred
    PROVE  DurableStep
<1>1. [x \in Used |-> Finds(x)]' = [x \in Used |-> Finds(x)]
  BY SizeAssumption DEF Keeps
<1>2. pending' = {Durable!Request(a, b)}
  BY RequestIs
<1>3. Durable!Begin
  BY <1>1, <1>2 DEF Durable!Begin
<1> QED
  BY <1>3 DEF DurableStep, Durable!Next

\* A byte put into the buffer is a write deferred.
LEMMA WordsDefer ==
    ASSUME Keeps, pending' = pending, NEW a \in Used, NEW b \in Byte,
           deferred' = Append(deferred, [addr |-> a, byte |-> b]),
           ~wounded, ~wounded', resets' = resets
    PROVE  DurableStep
<1>1. [x \in Used |-> Finds(x)]' = [x \in Used |-> Finds(x)]
  BY SizeAssumption DEF Keeps
<1>2. Durable!Defer
  BY <1>1 DEF Durable!Defer
<1> QED
  BY <1>2 DEF DurableStep, Durable!Next

\* A byte taken out of the buffer is a deferred write that begins, or finds the
\* word stored already.
LEMMA WordsBeginDeferred ==
    ASSUME Keeps, pending = {}, deferred # <<>>, deferred' = Tail(deferred),
           NEW a \in Used, a = Head(deferred).addr, NEW b, b = Head(deferred).byte,
           \/ pending' = {} /\ Finds(a) = Merged(Finds(a), b)
           \/ pending' = {[addr |-> a, val |-> Merged(Finds(a), b)]},
           ~wounded, ~wounded', resets' = resets
    PROVE  DurableStep
<1>1. [x \in Used |-> Finds(x)]' = [x \in Used |-> Finds(x)]
  BY SizeAssumption DEF Keeps
<1> DEFINE r == [addr |-> a, val |-> Merged(Finds(a), b)]
<1>2. Durable!Request(Head(deferred).addr, Head(deferred).byte) = r
  BY RequestIs
<1>3. [x \in Used |-> Finds(x)][r.addr] = Finds(a) /\ r.val = Merged(Finds(a), b)
  OBVIOUS
<1> HIDE DEF r
<1>4. \/ pending' = {r}
      \/ [x \in Used |-> Finds(x)][r.addr] = r.val /\ pending' = {}
  BY <1>3 DEF r
<1>5. Durable!BeginDeferred
  BY <1>1, <1>2, <1>4 DEF Durable!BeginDeferred
<1> QED
  BY <1>5 DEF DurableStep, Durable!Next

\* A survived reset is a reset of DurableWords.
LEMMA WordsReset ==
    ASSUME Keeps, pending' = {}, ~wounded, ~wounded', resets' = resets + 1, deferred' = <<>>
    PROVE  DurableStep
<1>1. [x \in Used |-> Finds(x)]' = [x \in Used |-> Finds(x)]
  BY SizeAssumption DEF Keeps
<1>2. Durable!Reset
  BY <1>1 DEF Durable!Reset
<1> QED
  BY <1>2 DEF DurableStep, Durable!Next

\* Every step of the driver keeps WordsInv and is a step of DurableWords, damage
\* included.
LEMMA WordsNext == IInv /\ IInv' /\ WordsInv /\ [Next]_vars => WordsInv' /\ DurableStep
<1> SUFFICES ASSUME IInv, IInv', WordsInv, [Next]_vars PROVE WordsInv' /\ DurableStep
  OBVIOUS
<1>1. TypeInv /\ TypeInv' /\ FitInv /\ FitInv'
  BY DEF IInv
<1>2. CASE wounded'
  <2>1. Durable!Damage
    BY <1>2 DEF Durable!Damage
  <2>2. Durable!Next
    BY <2>1 DEF Durable!Next
  <2> QED
    BY <1>2, <2>2 DEF DurableStep, WordsInv
<1>3. CASE ~wounded'
  <2>1. ~wounded /\ DataInv
    BY <1>3, WoundsStay DEF WordsInv
  <2>2. CASE FlashOperation
    <3>1. DataInv' /\ Goes
      BY <1>1, <2>1, <2>2, FlashDataStep
    <3>2. deferred' = deferred
      BY <2>2 DEF FlashOperation, buffer
    <3> QED
      BY <1>3, <2>1, <2>2, <3>1, <3>2, WordsGo, FlashFrame DEF WordsInv
  <2>3. ASSUME NEW a \in Used, NEW b \in Byte, Write(a, b) PROVE WordsInv' /\ DurableStep
    <3> DEFINE v == Merged(DataEERead(a), b)
    <3>1. v \in Val /\ StoresWord(a, v) /\ deferred' = deferred
      BY <1>1, <2>3, WordMade DEF Write, StoresWord, is_eeprom_write_protected, buffer, TypeInv
    <3>2. /\ DataInv' /\ Keeps /\ resets' = resets
          /\ pending = {} /\ Finds(a) = DataEERead(a)
          /\ pending' = {} \/ pending' = {[addr |-> a, val |-> v]}
      BY <1>1, <1>3, <2>1, <3>1, WriteDataStep
    <3>3. DurableStep
      BY <1>3, <2>1, <3>1, <3>2, WordsStay, WordsBegin
    <3> QED
      BY <3>2, <3>3 DEF WordsInv
  <2>8. ASSUME NEW a \in Used, NEW b \in Byte, Defer(a, b) PROVE WordsInv' /\ DurableStep
    <3>1. /\ UNCHANGED << flash, nvm, triggered, running, pack, pending, wounded, resets >>
          /\ deferred' = Append(deferred, [addr |-> a, byte |-> b])
      BY <2>8 DEF Defer, ram
    <3>2. DataInv' /\ Keeps
      BY <1>1, <2>1, <3>1, DataStays
    <3>3. DurableStep
      BY <1>3, <2>1, <3>1, <3>2, WordsDefer
    <3> QED
      BY <3>2, <3>3 DEF WordsInv
  <2>9. CASE WriteDeferred
    <3>1. PICK a, b : a = Head(deferred).addr /\ b = Head(deferred).byte
      OBVIOUS
    <3> DEFINE v == Merged(DataEERead(a), b)
    <3>2. a \in Used /\ b \in Byte /\ deferred # <<>> /\ deferred' = Tail(deferred)
      BY <1>1, <2>9, <3>1, BufferHead DEF WriteDeferred, TypeInv, TypeOK
    <3>3. v \in Val
      BY <1>1, <3>2, WordMade DEF TypeInv
    <3>4. StoresWord(a, v)
      BY <2>9, <3>1 DEF WriteDeferred, StoresWord, is_eeprom_write_protected
    <3>5. /\ DataInv' /\ Keeps /\ resets' = resets
          /\ pending = {} /\ Finds(a) = DataEERead(a)
          /\ \/ pending' = {} /\ DataEERead(a) = v
             \/ pending' = {[addr |-> a, val |-> v]}
      BY <1>1, <1>3, <2>1, <3>2, <3>3, <3>4, WriteDataStep
    <3>6. DurableStep
      BY <1>3, <2>1, <3>1, <3>2, <3>5, WordsBeginDeferred
    <3> QED
      BY <3>5, <3>6 DEF WordsInv
  <2>4. ASSUME NEW a \in Used, Read(a) PROVE WordsInv' /\ DurableStep
    <3>1. UNCHANGED << flash, nvm, triggered, running, pack, pending, wounded, resets, deferred >>
      BY <2>4 DEF Read, buffer
    <3>2. DataInv' /\ Keeps
      BY <1>1, <2>1, <3>1, DataStays
    <3>3. DurableStep
      BY <1>3, <2>1, <3>1, <3>2, WordsStay
    <3> QED
      BY <3>2, <3>3 DEF WordsInv
  <2>5. CASE PackStep
    <3>1. DataInv' /\ Keeps /\ pending' = pending
      BY <1>1, <1>3, <2>1, <2>5, PackDataStep
    <3>2. resets' = resets /\ deferred' = deferred
      BY <2>5 DEF PackStep, buffer, PackStart, PackForCycle, PackCopied, PackFinalCheck, PackErase1a,
         PackErase2a, PackErase1b, PackErase2b, PackErase, PackAfterErase, PackStop, Pack
    <3> QED
      BY <1>3, <2>1, <3>1, <3>2, WordsStay DEF WordsInv
  <2>6. CASE Reset
    <3>1. ~CutsShort /\ pending' = {} /\ resets' = resets + 1 /\ deferred' = <<>>
      BY <1>3, <2>6 DEF Reset
    <3>2. DataInv' /\ Keeps
      BY <1>1, <2>1, <2>6, <3>1, ResetDataStep
    <3> QED
      BY <1>3, <2>1, <3>1, <3>2, WordsReset DEF WordsInv
  <2>7. CASE UNCHANGED vars
    <3>1. UNCHANGED << flash, nvm, triggered, running, pack, pending, wounded, resets, deferred >>
      BY <2>7 DEF vars, ram, buffer
    <3>2. DataInv' /\ Keeps
      BY <1>1, <2>1, <3>1, DataStays
    <3>3. DurableStep
      BY <1>3, <2>1, <3>1, <3>2, WordsStay
    <3> QED
      BY <3>2, <3>3 DEF WordsInv
  <2> QED
    BY <2>2, <2>3, <2>4, <2>5, <2>6, <2>7, <2>8, <2>9 DEF Next
<1> QED
  BY <1>2, <1>3

\* Until one of the events the driver does not survive, an overrun of the second
\* page among them, the flash emulated EEPROM keeps what DurableWords promises:
\* whatever is reset when, a write carried out outside a pack is what every later
\* read finds, until a later write or one deferred replaces the byte; a write cut
\* short leaves the old word or the new one; closing, packing and erasing pages
\* change no word.  Of a byte written during a pack it says only that it may be
\* carried out later, in its turn.
THEOREM WordsSurvive == Spec => WordsAreDurable
<1>1. Init => WordsInv /\ Durable!Init
  <2> SUFFICES ASSUME Init PROVE WordsInv /\ Durable!Init
    OBVIOUS
  <2>1. TypeInv /\ Fresh /\ pending = {} /\ ~wounded /\ resets = 0 /\ deferred = <<>>
    BY InitIsFresh, TypeInit DEF Init
  <2>2. [a \in Used |-> Finds(a)] = [a \in Used |-> Blank]
    BY <2>1, FreshReads
  <2>3. WordsInv
    BY <2>1 DEF WordsInv, DataInv
  <2> QED
    BY <2>1, <2>2, <2>3 DEF Durable!Init
<1> QED
  BY <1>1, PageInvariant, WordsNext, PTL DEF Spec, DurableStep, WordsAreDurable, Durable!Spec

=============================================================================
