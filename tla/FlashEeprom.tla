---------------------------- MODULE FlashEeprom -----------------------------
(***************************************************************************)
(* The flash emulated EEPROM: eeprom/dee.c, dee_page.c, dee_page_helper.c. *)
(*                                                                         *)
(* Words are stored by appending (address, data, ~data) elements to the    *)
(* current one of three pages.  A full page is closed and stays active     *)
(* behind the next one; when the second page is nearly full too, the pack  *)
(* copies the newest element of every address to the third page, makes it  *)
(* current and erases the other two, one step per millisecond.             *)
(*                                                                         *)
(* The controller may be reset between any two flash operations, a word    *)
(* programmed or a flash page erased.  A C function is therefore the       *)
(* sequence of flash operations it carries out: `nvm' holds those still to *)
(* come of the function in progress, and nothing else runs until it is     *)
(* empty.  What a function decides it decides from what the flash held     *)
(* when it was called; what it leaves in RAM is lost in a reset anyway.    *)
(*                                                                         *)
(* The callers read and write bytes (eeprom/eeprom.c): a word is read, its *)
(* byte replaced (Merged) and the word written.  While a pack is running   *)
(* write_eeprom_char() puts the byte into a buffer in RAM instead, and     *)
(* drops it silently when the buffer is full; do_eeprom() carries it out   *)
(* after the pack, one each millisecond.  A byte in the buffer is not      *)
(* read, is lost in a reset and may undo a later write of the same byte.   *)
(*                                                                         *)
(* Some things the code does not survive set `wounded', and the properties *)
(* speak of the time before: a reset in the wrong moment (CutsShort names  *)
(* them), a pack that gives up, a write that comes when both active pages  *)
(* are full (Overrun), and a write refused because a torn element was met  *)
(* since start-up.                                                         *)
(*                                                                         *)
(* Not modelled: the one-word cache of dee_read_eeprom, write and          *)
(* low-voltage errors of the flash controller, a word half programmed,     *)
(* more than 1000 erasures of a page, and the mass erasure of the all-zero *)
(* image of the hex file.                                                  *)
(***************************************************************************)
EXTENDS Integers, Sequences, FiniteSetsExt

CONSTANTS
    SIZE,       \* DEE_EEPROM_SIZE: addresses are 0..SIZE-1
    Used,       \* the addresses the firmware stores words at
    Val,        \* values of a word
    Byte,       \* bytes written: a value and its place in the word
    Merged(_, _),   \* a word, or none, with a byte replaced
    Blank,      \* an erased flash word
    ELEMENTS,   \* DEE_NUMBER_OF_DATA_ELEMENTS: elements in a page
    PackAt,     \* ELEMENTS * 80 / 100: index that triggers the pack
    EEPROM_WRITE_BUFFER,    \* 128: bytes the buffer takes until it is empty again
    MaxResets   \* bound: resets in one behaviour

DEE_PAGE_CNT == 3
Pages   == 0 .. DEE_PAGE_CNT - 1
Addr    == 0 .. SIZE - 1
Element == [addr : Addr \cup {Blank}, data : Val \cup {Blank}, crc : Val \cup {Blank}]
Page    == [active : BOOLEAN, current : BOOLEAN, expired : BOOLEAN,
            counted : BOOLEAN, element : Seq(Element)]

ASSUME SizeAssumption     == SIZE \in Nat \ {0} /\ Used \subseteq Addr
ASSUME ValAssumption      == Blank \notin Val /\ Blank \notin Addr
ASSUME ElementsAssumption == ELEMENTS \in Nat \ {0, 1} /\ PackAt \in 0 .. ELEMENTS - 1
ASSUME BufferAssumption   == EEPROM_WRITE_BUFFER \in Nat
ASSUME MergedAssumption   == \A w \in Val \cup {Blank}, b \in Byte : Merged(w, b) \in Val
ASSUME MaxResetsAssumption == MaxResets \in Nat

PackStates == { "Start", "ForCycle", "FinalCheck", "Erase_1a", "Erase_1b",
                "Erase_2a", "Erase_2b", "After_Erase", "Stop" }

VARIABLES
    flash,          \* flash[p]: status word and elements of page p
    nvm,            \* flash operations to come of the running function
    triggered,      \* dee_pack_triggered
    running,        \* dee_pack_running: the EEPROM is write protected
    pack,           \* static variables of PackEE_async
    bad,            \* dataEEFlags.val > 1
    deferred,       \* eeprom_write_buffer from read_cnt to write_cnt
    taken,          \* eeprom_write_buffer_read_cnt
    pending,        \* history: the write in progress
    wounded,        \* history: something the code does not survive happened
    resets          \* number of resets so far

ram    == << triggered, running, pack, bad >>
buffer == << deferred, taken >>
vars   == << flash, nvm, ram, buffer, pending, wounded, resets >>

NoPage == 255                       \* 0xFF
NoElement == -1

-----------------------------------------------------------------------------
(* Flash operations.  PAGE_ACTIVE is programmed to 0, PAGE_NOT_CURRENT to  *)
(* 0, and an erased status word reads as not active, current, not expired, *)
(* with an erase counter of all ones.                                      *)

Op(op, p, v)  == [op |-> op, page |-> p, value |-> v]
Status(op, p) == Op(op, p, Blank)

\* The flash page that holds the status, the data and half of the CRC words.
FirstHalfErased(page) ==
    [active |-> FALSE, current |-> TRUE, expired |-> FALSE, counted |-> FALSE,
     element |-> [i \in DOMAIN page.element |->
        [addr |-> page.element[i].addr, data |-> Blank,
         crc |-> IF 2 * i <= ELEMENTS THEN Blank ELSE page.element[i].crc]]]

\* What one flash operation makes of its page.
Done(page, o) ==
    LET n == Len(page.element)
    IN  CASE o.op = "addr"     -> [page EXCEPT !.element = Append(@,
                                      [addr |-> o.value, data |-> Blank, crc |-> Blank])]
          [] o.op = "data"     -> [page EXCEPT !.element[n].data = o.value]
          [] o.op = "crc"      -> [page EXCEPT !.element[n].crc = o.value]
          [] o.op = "activate" -> [page EXCEPT !.active = TRUE]
          [] o.op = "close"    -> [page EXCEPT !.active = TRUE, !.current = FALSE]
          [] o.op = "expire"   -> [page EXCEPT !.expired = TRUE]
          [] o.op = "count"    -> [page EXCEPT !.counted = TRUE]
          [] o.op = "erase_first"  -> FirstHalfErased(page)
          [] o.op = "erase_second" -> [page EXCEPT !.element = <<>>]

WriteElement(p, a, v) == << Op("addr", p, a), Op("data", p, v), Op("crc", p, v) >>

\* A page whose erase counter was never written looks worn out.
ErasePage(p) ==
    IF flash[p].counted
    THEN << Status("erase_first", p), Status("erase_second", p), Status("count", p) >>
    ELSE << Status("expire", p) >>

\* Mutant of Dee_CloseCurrentPage: the next page is not activated.
CloseWithoutSuccessor(p, q) == << Status("close", p) >>

Dee_CloseCurrentPage(p, q) == << Status("close", p), Status("activate", q) >>

-----------------------------------------------------------------------------
(* What the functions read from the flash.                                 *)

ActivePages == {p \in Pages : flash[p].active}

GetActiveCurrentPage ==
    LET found == {p \in ActivePages : flash[p].current}
    IN  IF found = {} THEN NoPage ELSE Max(found)

GetActiveCurrentPageCount == Cardinality(ActivePages)

GetNextPage(p)     == IF p = NoPage THEN NoPage ELSE (p + 1) % DEE_PAGE_CNT
GetPreviousPage(p) == IF p = NoPage THEN NoPage ELSE (p + DEE_PAGE_CNT - 1) % DEE_PAGE_CNT

GetIndexOfEmptyDataElement(p) ==
    IF p = NoPage \/ Len(flash[p].element) = ELEMENTS THEN NoElement ELSE Len(flash[p].element)

\* Elements of page p for address a, those with a good CRC among them.
Hits(p, a) == {i \in DOMAIN flash[p].element : flash[p].element[i].addr = a}
Good(p, a) == {i \in Hits(p, a) : /\ flash[p].element[i].data # Blank
                                  /\ flash[p].element[i].data = flash[p].element[i].crc}

\* DataEERead: the newest good element of the current page, else that of the
\* previous page when more than one page is active.
Newest(p, a) == IF Good(p, a) = {} THEN Blank ELSE flash[p].element[Max(Good(p, a))].data

\* (The page is taken from a set so that TLC evaluates it once only.)
ReadFrom(cur, n, a) ==
    CHOOSE w \in {CASE p = NoPage -> Blank
                    [] p # NoPage /\ Newest(p, a) # Blank -> Newest(p, a)
                    [] OTHER -> IF n > 1 THEN Newest(GetPreviousPage(p), a) ELSE Blank
                  : p \in {cur}} : TRUE

DataEERead(a) == ReadFrom(GetActiveCurrentPage, GetActiveCurrentPageCount, a)

\* A torn element met on the way sets the pageCorrupt flag.
MeetsTornElement(a) ==
    LET cur == GetActiveCurrentPage
    IN  /\ cur # NoPage
        /\ \E i \in Hits(cur, a) \ Good(cur, a) : \A j \in Good(cur, a) : j < i

\* What a read finds, or will find once a page that is being closed has its
\* successor and the pages that were packed are both erased.
PackedPagesGo == running /\ pack.state \in { "Erase_1b", "Erase_2b", "After_Erase" }
Finds(a) ==
    CASE PackedPagesGo -> Newest(pack.next, a)
      [] ~PackedPagesGo /\ GetActiveCurrentPage # NoPage -> DataEERead(a)
      [] OTHER -> IF nvm # <<>> /\ Head(nvm).op = "activate"
                  THEN ReadFrom(Head(nvm).page, GetActiveCurrentPageCount + 1, a)
                  ELSE Blank

-----------------------------------------------------------------------------
NoPack == [state |-> "Start", current |-> NoPage, next |-> NoPage, addr |-> 0, failed |-> FALSE]

\* init_dee when no page is active.
FreshPage(p) == << Status("count", p), Status("erase_first", p),
                   Status("erase_second", p), Status("count", p) >>
FreshPages == FreshPage(0) \o FreshPage(1) \o FreshPage(2) \o << Status("activate", 0) >>

Init ==
    /\ flash = [p \in Pages |-> [active |-> FALSE, current |-> TRUE, expired |-> FALSE,
                                 counted |-> FALSE, element |-> <<>>]]
    /\ nvm = FreshPages
    /\ triggered = FALSE /\ running = FALSE /\ pack = NoPack
    /\ bad = FALSE /\ deferred = <<>> /\ taken = 0
    /\ pending = {} /\ wounded = FALSE /\ resets = 0

Idle == nvm = <<>>

\* NVMWriteWord and NVMErasePage: the next flash operation is carried out.
FlashOperation ==
    /\ nvm # <<>>
    /\ flash' = [flash EXCEPT ![Head(nvm).page] = Done(@, Head(nvm))]
    /\ nvm' = Tail(nvm)
    /\ pending' = IF Len(nvm) = 1 THEN {} ELSE pending
    /\ UNCHANGED << ram, buffer, wounded, resets >>

\* DataEEWrite of a word that differs from the one stored: to the current
\* page, or to the next one once that is closed.
Store(a, v) ==
    LET cur  == GetActiveCurrentPage
        next == GetNextPage(cur)
        n    == GetActiveCurrentPageCount
        full == GetIndexOfEmptyDataElement(cur) = NoElement
        p    == IF full THEN next ELSE cur
        i    == GetIndexOfEmptyDataElement(p)
        closing  == IF full THEN Dee_CloseCurrentPage(cur, next) ELSE <<>>
        isLast   == i = ELEMENTS - 1
        closed   == isLast /\ n < DEE_PAGE_CNT - 1
        packs    == ~closed /\ i >= PackAt /\ n = DEE_PAGE_CNT - 1
    IN  /\ nvm' = closing \o
                  (IF i = NoElement THEN <<>>
                   ELSE WriteElement(p, a, v) \o
                        (IF closed THEN Dee_CloseCurrentPage(cur, next) ELSE <<>>))
        /\ bad' = (bad \/ MeetsTornElement(a) \/ i = NoElement)
        /\ triggered' = (triggered \/ (i # NoElement /\ packs))

\* The second page in use is full before the pack has begun: DataEEWrite takes
\* the third one, and the pack gives up.
Overrun ==
    /\ GetActiveCurrentPageCount > 1
    /\ GetIndexOfEmptyDataElement(GetActiveCurrentPage) = NoElement

\* dee_write_eeprom.
WriteWord(a, v) ==
    LET cur   == GetActiveCurrentPage
        found == DataEERead(a)
        isBad == bad \/ MeetsTornElement(a)
    IN  /\ IF cur = NoPage \/ found = v \/ (found = Blank /\ isBad)
           THEN /\ bad' = (cur # NoPage /\ isBad)
                /\ wounded' = (wounded \/ found # v)
                /\ UNCHANGED << nvm, triggered, pending >>
           ELSE /\ Store(a, v)
                /\ pending' = {[addr |-> a, val |-> v]}
                /\ wounded' = (wounded \/ Overrun)
        /\ UNCHANGED << flash, running, pack, resets >>

\* Mutant of is_eeprom_write_protected: a pack does not protect.
NeverProtected == FALSE

is_eeprom_write_protected == running

\* write_eeprom_char, when the word may be written, and when a pack is running:
\* write_cnt, which is taken + Len(deferred), ends at the size of the buffer.
Write(a, b) ==
    /\ Idle /\ ~is_eeprom_write_protected
    /\ WriteWord(a, Merged(DataEERead(a), b))
    /\ UNCHANGED buffer

\* Mutant of Defer: one byte too many is taken.
DeferBeyondEnd(a, b) ==
    /\ Idle /\ is_eeprom_write_protected
    /\ taken + Len(deferred) <= EEPROM_WRITE_BUFFER
    /\ deferred' = Append(deferred, [addr |-> a, byte |-> b])
    /\ UNCHANGED << flash, nvm, ram, taken, pending, wounded, resets >>

Defer(a, b) ==
    /\ Idle /\ is_eeprom_write_protected
    /\ taken + Len(deferred) < EEPROM_WRITE_BUFFER
    /\ deferred' = Append(deferred, [addr |-> a, byte |-> b])
    /\ UNCHANGED << flash, nvm, ram, taken, pending, wounded, resets >>

\* do_eeprom: the first byte of the buffer is written.
WriteDeferred ==
    LET d == Head(deferred)
    IN  /\ Idle /\ ~is_eeprom_write_protected
        /\ deferred # <<>>
        /\ WriteWord(d.addr, Merged(DataEERead(d.addr), d.byte))
        /\ deferred' = Tail(deferred)
        /\ taken' = IF Len(deferred) = 1 THEN 0 ELSE taken + 1

\* DataEERead from dee_read_eeprom: only the flag it may set is kept.
Read(a) ==
    /\ Idle /\ MeetsTornElement(a)
    /\ bad' = TRUE
    /\ UNCHANGED << flash, nvm, triggered, running, pack, buffer, pending, wounded, resets >>

-----------------------------------------------------------------------------
(* PackEE_async, one call per millisecond once triggered.                  *)

Pack(state) ==
    /\ Idle /\ triggered /\ pack.state = state
    /\ UNCHANGED << buffer, pending, resets >>

PackStart ==
    LET cur == GetActiveCurrentPage
        n   == GetActiveCurrentPageCount
        ok  == cur # NoPage /\ n = DEE_PAGE_CNT - 1
    IN  /\ Pack("Start")
        /\ running' = TRUE
        /\ pack' = [state   |-> IF ok THEN "ForCycle" ELSE "Stop",
                    current |-> cur, next |-> GetNextPage(cur), addr |-> 0,
                    failed  |-> cur = NoPage]
        /\ bad' = (bad \/ cur = NoPage \/ n = DEE_PAGE_CNT)
        /\ UNCHANGED << flash, nvm, triggered, wounded >>

PackForCycle ==
    LET a     == pack.addr
        found == DataEERead(a)
        next  == GetNextPage(GetActiveCurrentPage)
        i     == GetIndexOfEmptyDataElement(next)
        fits  == found = Blank \/ i # NoElement
        isBad == bad \/ MeetsTornElement(a) \/ ~fits
        stops == ~fits \/ (found = Blank /\ isBad)
    IN  /\ Pack("ForCycle") /\ a < SIZE
        /\ nvm' = CASE found = Blank -> <<>>
                    [] found # Blank /\ ~fits -> Dee_CloseCurrentPage(next, next)
                    [] OTHER -> WriteElement(next, a, found)
        /\ bad' = isBad
        /\ pack' = [pack EXCEPT !.addr = a + 1, !.failed = @ \/ stops,
                                !.state = IF stops THEN "Stop" ELSE @]
        /\ wounded' = (wounded \/ stops)
        /\ UNCHANGED << flash, triggered, running >>

PackCopied ==
    /\ Pack("ForCycle") /\ pack.addr >= SIZE
    /\ pack' = [pack EXCEPT !.state = "FinalCheck"]
    /\ UNCHANGED << flash, nvm, triggered, running, bad, wounded >>

PackFinalCheck ==
    /\ Pack("FinalCheck")
    /\ IF GetIndexOfEmptyDataElement(pack.next) # NoElement
       THEN /\ nvm' = << Status("activate", pack.next) >>
            /\ pack' = [pack EXCEPT !.state = "Erase_1a"]
       ELSE /\ nvm' = << Status("close", pack.next) >>
            /\ pack' = [pack EXCEPT !.state = "Erase_2a"]
    /\ UNCHANGED << flash, triggered, running, bad, wounded >>

PackErase(from, to, p, after) ==
    /\ Pack(from)
    /\ nvm' = ErasePage(p) \o after
    /\ pack' = [pack EXCEPT !.state = to]
    /\ UNCHANGED << flash, triggered, running, bad, wounded >>

PackErase1a == PackErase("Erase_1a", "Erase_1b", pack.current, <<>>)

\* Mutant of PackErase1b: only the newer of the packed pages is erased.
PackSparesPreviousPage ==
    /\ Pack("Erase_1b")
    /\ pack' = [pack EXCEPT !.state = "After_Erase"]
    /\ UNCHANGED << flash, nvm, triggered, running, bad, wounded >>

PackErase1b == PackErase("Erase_1b", "After_Erase", GetPreviousPage(pack.current), <<>>)
PackErase2a == PackErase("Erase_2a", "Erase_2b", pack.current, <<>>)
PackErase2b == PackErase("Erase_2b", "After_Erase", GetPreviousPage(pack.current),
                         << Status("activate", GetNextPage(pack.next)) >>)

PackAfterErase ==
    /\ Pack("After_Erase")
    /\ pack' = [pack EXCEPT !.state = "Stop"]
    /\ UNCHANGED << flash, nvm, triggered, running, bad, wounded >>

PackStop ==
    /\ Pack("Stop")
    /\ pack' = NoPack
    /\ triggered' = FALSE /\ running' = FALSE
    /\ UNCHANGED << flash, nvm, bad, wounded >>

PackStep ==
    \/ PackStart \/ PackForCycle \/ PackCopied \/ PackFinalCheck
    \/ PackErase1a \/ PackErase1b \/ PackErase2a \/ PackErase2b
    \/ PackAfterErase \/ PackStop

-----------------------------------------------------------------------------
\* Mutant of Boot: three active pages are packed instead of the third erased.
BootKeepingThirdPage ==
    /\ nvm' = IF GetActiveCurrentPageCount = 0 THEN FreshPages ELSE <<>>
    /\ triggered' = (GetActiveCurrentPageCount = DEE_PAGE_CNT)
    /\ bad' = \E p \in Pages : flash[p].expired

\* init_dee: what it does about the pages it finds.
Boot ==
    LET cur == GetActiveCurrentPage
        n   == GetActiveCurrentPageCount
    IN  /\ nvm' = CASE n = 0 -> FreshPages
                    [] n = DEE_PAGE_CNT /\ cur # NoPage -> ErasePage(GetNextPage(cur))
                    [] OTHER -> <<>>
        /\ triggered' = (n = DEE_PAGE_CNT /\ GetIndexOfEmptyDataElement(cur) = NoElement)
        /\ bad' = ((\E p \in Pages : flash[p].expired) \/ (n = DEE_PAGE_CNT /\ cur = NoPage))

\* One of the two packed pages is erased, the other one not yet.
HalfErased ==
    /\ pack.current \in Pages /\ ~flash[pack.current].active
    /\ \/ Idle /\ pack.state \in { "Erase_1b", "Erase_2b" }
       \/ ~Idle /\ pack.state = "After_Erase"

\* A reset the code does not survive: between the two status words of a page
\* that is closed; in an erasure that leaves no erase counter; or with one of the
\* packed pages erased when the copy is not the page found, since it is full or
\* an earlier reset left the other one current.
CutsShort ==
    \/ /\ ActivePages # {} /\ pack.state # "Erase_1a"
       /\ nvm # <<>> /\ Head(nvm).op \in {"activate", "erase_second", "count"}
    \/ HalfErased /\ GetActiveCurrentPage # pack.next

Reset ==
    /\ resets < MaxResets
    /\ resets' = resets + 1
    /\ Boot
    /\ running' = FALSE /\ pack' = NoPack
    /\ deferred' = <<>> /\ taken' = 0
    /\ pending' = {}
    /\ wounded' = (wounded \/ CutsShort)
    /\ UNCHANGED flash

Next ==
    \/ FlashOperation
    \/ \E a \in Used, b \in Byte : Write(a, b) \/ Defer(a, b)
    \/ WriteDeferred
    \/ \E a \in Used : Read(a)
    \/ PackStep
    \/ Reset

Spec == Init /\ [][Next]_vars

-----------------------------------------------------------------------------
BufferOK ==
    /\ deferred \in Seq([addr : Used, byte : Byte]) /\ taken \in Nat
    /\ taken + Len(deferred) <= EEPROM_WRITE_BUFFER

\* The types of the pages and of the driver's variables, and the end of the buffer.
TypeOK ==
    /\ flash \in [Pages -> Page]
    /\ triggered \in BOOLEAN /\ running \in BOOLEAN /\ bad \in BOOLEAN /\ wounded \in BOOLEAN
    /\ pack \in [state : PackStates, current : Pages \cup {NoPage}, next : Pages \cup {NoPage},
                 addr : 0 .. SIZE, failed : BOOLEAN]
    /\ BufferOK
    /\ resets \in 0 .. MaxResets

\* What write_eeprom_char and read_eeprom_char promise, with the flash read by
\* DataEERead as the memory: a byte written while no pack is running survives
\* every reset that is not one of the fatal ones, a write cut short leaves the
\* old word or the new one, and neither closing a page nor packing changes any
\* word.  A byte written during a pack is not promised: it is stored later, in
\* the order of the buffer, over what was written meanwhile, or not at all.
Durable == INSTANCE DurableWords WITH
    mem <- [a \in Used |-> Finds(a)], Addr <- Used, NoWord <- Blank,
    inflight <- pending, intact <- ~wounded, resets <- resets

WordsAreDurable == Durable!Spec

\* While the store is intact there is a page to read from and write to, also
\* after a reset: without one init_dee does nothing and every access fails.
\* The exception is a pack that filled its page to the last element: between
\* its two erasures no page is current.
HasCurrentPage ==
    ~wounded /\ Idle /\ GetActiveCurrentPage = NoPage => pack.state = "Erase_2b"

\* A pack that was triggered, by a write or by init_dee, finds the two active
\* pages it needs: PackEE_async gives up silently with one or three.
TriggeredPackCanRun ==
    ~wounded /\ Idle /\ triggered /\ pack.state = "Start"
        => GetActiveCurrentPage # NoPage /\ GetActiveCurrentPageCount = DEE_PAGE_CNT - 1

\* When a pack ends both pages it packed are blank, whether one of them is in
\* use again by then or not, so that the next page can be closed onto one of
\* them; nothing erases a page later.
PackLeavesBlankPages ==
    [][running /\ ~running' /\ ~wounded' /\ resets' = resets
        => \A p \in Pages \cap {pack.current, GetPreviousPage(pack.current)} :
               flash'[p].element = <<>>]_vars

=============================================================================
