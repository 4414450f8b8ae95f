--------------------------- MODULE NoInitPosition ---------------------------
(***************************************************************************)
(* The machine position across resets (software/src/grbl/grbl_eeprom.c,    *)
(* stepper.c, grbl_homing.c).                                              *)
(*                                                                         *)
(* Every stepper interrupt ends with grbl_eeprom_storePositionToNoInit(),  *)
(* which copies sys_position word by word into three records that survive  *)
(* a reset of the controller; homing calls it when it has set the position *)
(* of an axis.  A reset may strike between any two words.  Start-up loads  *)
(* the position last saved in the EEPROM and then lets                     *)
(* grbl_eeprom_restorePositionFromNoInit() replace it by what two equal    *)
(* neighbouring records agree on.  Start-up does not rewrite the records.  *)
(*                                                                         *)
(* The interrupt puts out the step bits computed by the interrupt before   *)
(* it, so sys_position runs ahead of the motors by the bits in outbits.    *)
(***************************************************************************)
EXTENDS Integers, FiniteSets

CONSTANTS
    N_AXIS,     \* number of axes; words 0..N_AXIS-1 of a record hold them
    Moves,      \* step vectors the Bresenham step of one interrupt can take
    MaxPos,     \* bound: positions explored stay in -MaxPos..MaxPos
    MaxResets   \* bound: resets explored in one behaviour

Axes   == 0 .. N_AXIS - 1
Marker == N_AXIS                    \* index of the 0xDEADBEAF word
Copies == 1 .. 3

Position == [Axes -> Int]
Still    == [a \in Axes |-> 0]

ASSUME NAxisAssumption     == N_AXIS \in Nat \ {0}
ASSUME MovesAssumption     == Moves \subseteq [Axes -> {-1, 0, 1}]
ASSUME MaxPosAssumption    == MaxPos \in Nat
ASSUME MaxResetsAssumption == MaxResets \in Nat

VARIABLES
    sys_position,   \* RAM: the position in steps
    outbits,        \* step bits the next interrupt puts out (signed)
    machine,        \* where the motors physically are, in steps
    pos,            \* pos[c]: axis words of persistent record c
    marked,         \* marked[c]: record c carries the 0xDEADBEAF marker
    eeprom,         \* position last saved by the EEPROM manager
    copy,           \* record being written, 0 when no store is running
    word,           \* next word of that record
    before,         \* history: sys_position before the store began
    settled,        \* history: the records agreed when the store began
    stepping,       \* history: the store belongs to a stepper interrupt
    torn,           \* history: a reset cut a store short, none completed since
    resets          \* number of resets so far

ram     == << sys_position, outbits >>
records == << pos, marked >>
store   == << copy, word >>
history == << before, settled, stepping >>
vars    == << ram, machine, records, eeprom, store, history, torn, resets >>

Plus(p, d) == [a \in Axes |-> p[a] + d[a]]

-----------------------------------------------------------------------------
(* The records and what a restore makes of them.                           *)

AllMarked   == \A c \in Copies : marked[c]
Agree(c, d) == pos[c] = pos[d]

\* The mutant of Usable: the second pair is not looked at.
UsableFirstPair == AllMarked /\ Agree(1, 2)

Usable == AllMarked /\ (Agree(1, 2) \/ Agree(2, 3))

\* The mutant of Restored: records 1 and 3 are compared in place of 2 and 3.
RestoredComparingOneAndThree ==
    IF AllMarked /\ Agree(1, 2) THEN pos[1]
    ELSE IF AllMarked /\ Agree(1, 3) THEN pos[2]
    ELSE eeprom

\* grbl_eeprom_restorePositionFromNoInit: the position start-up ends with.
Restored ==
    IF AllMarked /\ Agree(1, 2) THEN pos[1]
    ELSE IF AllMarked /\ Agree(2, 3) THEN pos[2]
    ELSE eeprom

-----------------------------------------------------------------------------
Init ==
    /\ sys_position = Still
    /\ outbits = Still
    /\ machine = Still
    /\ pos = [c \in Copies |-> Still]
    /\ marked = [c \in Copies |-> TRUE]
    /\ eeprom = Still
    /\ copy = 0
    /\ word = 0
    /\ before = Still
    /\ settled = TRUE
    /\ stepping = FALSE
    /\ torn = FALSE
    /\ resets = 0

\* grbl_eeprom_storePositionToNoInit is called.
BeginStore(isStep) ==
    /\ copy' = 1
    /\ word' = 0
    /\ before' = sys_position
    /\ settled' = (Agree(1, 2) /\ Agree(2, 3))
    /\ stepping' = isStep

\* TIMER1_COMPA_vect: put out the pending step bits, take one Bresenham step.
StepInterrupt ==
    /\ copy = 0
    /\ \E d \in Moves :
         /\ \A a \in Axes : sys_position[a] + d[a] \in -MaxPos .. MaxPos
         /\ sys_position' = Plus(sys_position, d)
         /\ outbits' = d
    /\ machine' = Plus(machine, outbits)
    /\ BeginStore(TRUE)
    /\ UNCHANGED << records, eeprom, torn, resets >>

\* The interrupt that finds the segment buffer empty puts out the pending bits
\* and goes idle without a Bresenham step or a store; st_wake_up clears the
\* bits before the next one.
StopInterrupt ==
    /\ copy = 0
    /\ machine' = Plus(machine, outbits)
    /\ outbits' = Still
    /\ UNCHANGED << sys_position, records, eeprom, store, history, torn, resets >>

\* The mutant of HomeAxis: the position it sets is not stored.
HomeAxisUnstored ==
    /\ copy = 0
    /\ outbits = Still
    /\ \E a \in Axes, p \in -MaxPos .. MaxPos :
         /\ sys_position' = [sys_position EXCEPT ![a] = p]
         /\ machine' = [machine EXCEPT ![a] = machine[a] + p - sys_position[a]]
    /\ UNCHANGED << outbits, records, eeprom, store, history, torn, resets >>

\* limits_go_home on the standing machine: axis a is given position p, which
\* moves the origin the motors' position is counted from.
HomeAxis ==
    /\ copy = 0
    /\ outbits = Still
    /\ \E a \in Axes, p \in -MaxPos .. MaxPos :
         /\ sys_position' = [sys_position EXCEPT ![a] = p]
         /\ machine' = [machine EXCEPT ![a] = machine[a] + p - sys_position[a]]
    /\ BeginStore(FALSE)
    /\ UNCHANGED << outbits, records, eeprom, torn, resets >>

\* The mutant of StoreAxis: record 2 is filled while record 1 still is.
StoreAxisInTwoRecords ==
    /\ copy \in Copies
    /\ word # Marker
    /\ pos' = [c \in Copies |-> IF c \in {copy, copy + 1}
                                  THEN [pos[c] EXCEPT ![word] = sys_position[word]]
                                  ELSE pos[c]]
    /\ word' = word + 1
    /\ UNCHANGED << ram, machine, marked, eeprom, copy, history, torn, resets >>

\* grbl_eeprom_storePositionToNoInit, one axis word of one record.
StoreAxis ==
    /\ copy \in Copies
    /\ word # Marker
    /\ pos' = [pos EXCEPT ![copy] = [pos[copy] EXCEPT ![word] = sys_position[word]]]
    /\ word' = word + 1
    /\ UNCHANGED << ram, machine, marked, eeprom, copy, history, torn, resets >>

\* The marker word completes a record; after the third the store returns.
StoreMarker ==
    /\ copy \in Copies
    /\ word = Marker
    /\ marked' = [marked EXCEPT ![copy] = TRUE]
    /\ copy' = IF copy = 3 THEN 0 ELSE copy + 1
    /\ word' = 0
    /\ torn' = (torn /\ copy # 3)
    /\ UNCHANGED << ram, machine, pos, eeprom, history, resets >>

\* do_grbl_eeprom: nothing runs (grbl_eeprom_checkIs), item GRBL_5 goes out.
SaveToEeprom ==
    /\ copy = 0
    /\ outbits = Still
    /\ eeprom' = sys_position
    /\ UNCHANGED << ram, machine, records, store, history, torn, resets >>

\* An unexpected reset (watchdog, exception, brown-out): the step generator
\* stops at once, RAM is loaded from the EEPROM, then from the records.
UnexpectedReset ==
    /\ resets < MaxResets
    /\ resets' = resets + 1
    /\ sys_position' = Restored
    /\ outbits' = Still
    /\ copy' = 0
    /\ word' = 0
    /\ torn' = (torn \/ copy # 0)
    /\ UNCHANGED << machine, records, eeprom, history >>

Next ==
    \/ StepInterrupt
    \/ StopInterrupt
    \/ HomeAxis
    \/ StoreAxis
    \/ StoreMarker
    \/ SaveToEeprom
    \/ UnexpectedReset

Spec == Init /\ [][Next]_vars

-----------------------------------------------------------------------------
TypeOK ==
    /\ sys_position \in Position
    /\ machine \in Position
    /\ eeprom \in Position
    /\ before \in Position
    /\ outbits \in [Axes -> {-1, 0, 1}]
    /\ pos \in [Copies -> Position]
    /\ marked \in [Copies -> BOOLEAN]
    /\ copy \in 0 .. 3
    /\ word \in 0 .. N_AXIS
    /\ settled \in BOOLEAN
    /\ stepping \in BOOLEAN
    /\ torn \in BOOLEAN
    /\ resets \in 0 .. MaxResets

\* Between two stores a reset is harmless: it restores exactly the position in
\* RAM, whatever earlier resets left in the records (restorePositionFromNoInit
\* and the order in which storePositionToNoInit fills the records).
IdleResetIsExact == copy = 0 => Restored = sys_position

\* If the records agreed when the store began, a restore that uses them yields
\* the position before or the position after the interrupted step, never a
\* mixture of the two, whatever word the reset interrupts.
RestoreNeverMixed ==
    (settled /\ Usable) => Restored \in {sys_position, before}

\* The records let the controller down (and the last EEPROM save is used) in two
\* windows of the store only: between two axis words of the second record; and,
\* when an earlier reset cut a store short and none has completed since (start-up
\* does not rewrite the records), anywhere in the first record, up to the first
\* word of the second.
FallbackWindow ==
    (copy # 0 /\ ~Usable) =>
        \/ copy = 2 /\ word \in 1 .. N_AXIS - 1
        \/ torn /\ (copy = 1 \/ (copy = 2 /\ word = 0))

\* How far the position in RAM is off, the pending step bits accounted for.
Error(a) == sys_position[a] - outbits[a] - machine[a]

\* One reset adds at most one step of error on each axis.
ResetCostsAtMostOneStep ==
    \A a \in Axes : (Error(a)' - Error(a)) \in -1 .. 1

\* README.md:25, "Unexpected resets now does not lost machine position to an
\* accuracy of +-1 Step": a reset costs at most one step per axis, if the records
\* agreed when the store it interrupts began, and it is not between two axis words
\* of the second record (there the position last saved in the EEPROM comes back).
SettledResetsKeepPosition ==
    [][(/\ UnexpectedReset
        /\ copy # 0 => (stepping /\ settled /\ ~(copy = 2 /\ word \in 1 .. N_AXIS - 1)))
       => ResetCostsAtMostOneStep]_vars

=============================================================================
