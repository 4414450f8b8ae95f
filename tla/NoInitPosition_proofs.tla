------------------------ MODULE NoInitPosition_proofs ------------------------
(***************************************************************************)
(* Proofs about NoInitPosition, for any number of axes, any set of step    *)
(* vectors and any number of resets.                                       *)
(***************************************************************************)
EXTENDS NoInitPosition, TLAPS

\* What the running store has written so far.
Filled ==
    copy # 0 =>
        /\ \A c \in Copies : c < copy => pos[c] = sys_position
        /\ \A a \in Axes : a < word => pos[copy][a] = sys_position[a]

\* What it has not reached yet, if the records agreed when it began.
Untouched ==
    (copy # 0 /\ settled) =>
        /\ \A c \in Copies : c > copy => pos[c] = before
        /\ \A a \in Axes : a >= word => pos[copy][a] = before[a]

\* The store of a stepper interrupt: position and pending bits moved together.
StepPending ==
    (copy # 0 /\ stepping) =>
        \A a \in Axes : sys_position[a] = before[a] + outbits[a]

\* Unless a reset cut a store short, the records agree before a store and
\* agreed when the running one began.
Whole ==
    ~torn => IF copy = 0 THEN \A c \in Copies : pos[c] = pos[1] ELSE settled

\* The inductive invariant.
IInv == TypeOK /\ AllMarked /\ IdleResetIsExact /\ Filled /\ Untouched /\ StepPending
            /\ Whole

USE NAxisAssumption, MovesAssumption, MaxPosAssumption, MaxResetsAssumption

\* A restore yields a position (the type of Restored).
LEMMA RestoredType == TypeOK => Restored \in Position
BY DEF TypeOK, Restored, Agree, AllMarked, Copies

\* Two positions that agree on every axis are equal.
LEMMA Extensional ==
    ASSUME NEW p \in Position, NEW q \in Position, \A a \in Axes : p[a] = q[a]
    PROVE  p = q
BY DEF Position

\* Stepping a position yields a position.
LEMMA PlusType ==
    ASSUME NEW p \in Position, NEW d \in [Axes -> {-1, 0, 1}]
    PROVE  Plus(p, d) \in Position
<1>1. \A a \in Axes : p[a] + d[a] \in Int
    <2> SUFFICES ASSUME NEW a \in Axes PROVE p[a] + d[a] \in Int
        OBVIOUS
    <2>1. p[a] \in Int /\ d[a] \in Int
        BY DEF Position
    <2> QED
        BY <2>1
<1> QED
    BY <1>1 DEF Plus, Position

\* What BeginStore notes about the records.
LEMMA BeginStoreHistory ==
    ASSUME NEW s \in BOOLEAN, BeginStore(s)
    PROVE  /\ settled' \in BOOLEAN
           /\ stepping' \in BOOLEAN
           /\ settled' => (Agree(1, 2) /\ Agree(2, 3))
           /\ (Agree(1, 2) /\ Agree(2, 3)) => settled'
BY Zenon DEF BeginStore

\* The initial state satisfies the inductive invariant.
LEMMA InitIInv == Init => IInv
<1> SUFFICES ASSUME Init PROVE IInv
    OBVIOUS
<1>1. Still \in Position /\ Still \in [Axes -> {-1, 0, 1}]
    BY DEF Still, Position
<1>2. pos \in [Copies -> Position] /\ marked \in [Copies -> BOOLEAN]
    BY <1>1 DEF Init
<1>3. settled \in BOOLEAN /\ stepping \in BOOLEAN /\ torn \in BOOLEAN
    BY Zenon DEF Init
<1>4. TypeOK
    BY <1>1, <1>2, <1>3 DEF Init, TypeOK
<1>5. AllMarked
    BY DEF Init, AllMarked
<1>6. IdleResetIsExact /\ Filled /\ Untouched /\ StepPending
    BY <1>5 DEF Init, IdleResetIsExact, Filled, Untouched, StepPending, Restored, Agree, Copies
<1>7. Whole
    BY DEF Init, Whole, Copies
<1> QED
    BY <1>4, <1>5, <1>6, <1>7 DEF IInv

\* Every step preserves the types.
LEMMA TypeStep == TypeOK /\ [Next]_vars => TypeOK'
<1> SUFFICES ASSUME TypeOK, [Next]_vars PROVE TypeOK'
    OBVIOUS
<1>1. CASE StepInterrupt
    <2>1. PICK d \in Moves : sys_position' = Plus(sys_position, d) /\ outbits' = d
        BY <1>1 DEF StepInterrupt
    <2>2. d \in [Axes -> {-1, 0, 1}]
        BY <2>1
    <2>3. sys_position' \in Position
        BY <2>1, <2>2, PlusType DEF TypeOK
    <2>4. machine' \in Position
        BY <1>1, PlusType DEF StepInterrupt, TypeOK
    <2>5. settled' \in BOOLEAN /\ stepping' \in BOOLEAN
        BY <1>1, BeginStoreHistory DEF StepInterrupt
    <2> QED
        BY <1>1, <2>1, <2>2, <2>3, <2>4, <2>5 DEF StepInterrupt, BeginStore, TypeOK, records
<1>2. CASE StopInterrupt
    <2>1. machine' \in Position /\ outbits' \in [Axes -> {-1, 0, 1}]
        BY <1>2 DEF StopInterrupt, TypeOK, Position, Plus, Still
    <2> QED
        BY <1>2, <2>1 DEF StopInterrupt, TypeOK, records, store, history
<1>3. CASE HomeAxis
    <2>1. PICK a \in Axes, p \in -MaxPos .. MaxPos :
              /\ sys_position' = [sys_position EXCEPT ![a] = p]
              /\ machine' = [machine EXCEPT ![a] = machine[a] + p - sys_position[a]]
        BY <1>3 DEF HomeAxis
    <2>2. sys_position' \in Position /\ machine' \in Position
        BY <2>1 DEF TypeOK, Position
    <2>3. settled' \in BOOLEAN /\ stepping' \in BOOLEAN
        BY <1>3, BeginStoreHistory DEF HomeAxis
    <2> QED
        BY <1>3, <2>2, <2>3 DEF HomeAxis, BeginStore, TypeOK, records
<1>4. CASE StoreAxis
    <2>1. word \in Axes
        BY <1>4 DEF StoreAxis, TypeOK, Axes, Marker
    <2>2. pos' \in [Copies -> Position]
        BY <1>4, <2>1 DEF StoreAxis, TypeOK, Position
    <2>3. word' \in 0 .. N_AXIS
        BY <1>4, <2>1 DEF StoreAxis, Axes
    <2> QED
        BY <1>4, <2>2, <2>3 DEF StoreAxis, TypeOK, ram, history
<1>5. CASE StoreMarker
    <2>1. torn' \in BOOLEAN
        BY <1>5, Zenon DEF StoreMarker
    <2> QED
        BY <1>5, <2>1 DEF StoreMarker, TypeOK, ram, history, Copies
<1>6. CASE SaveToEeprom
    BY <1>6 DEF SaveToEeprom, TypeOK, ram, records, store, history
<1>7. CASE UnexpectedReset
    <2>1. outbits' \in [Axes -> {-1, 0, 1}] /\ resets' \in 0 .. MaxResets
        BY <1>7 DEF UnexpectedReset, TypeOK, Still
    <2>2. torn' \in BOOLEAN
        BY <1>7, Zenon DEF UnexpectedReset
    <2> QED
        BY <1>7, <2>1, <2>2, RestoredType DEF UnexpectedReset, TypeOK, records, history
<1>8. CASE UNCHANGED vars
    BY <1>8 DEF vars, TypeOK, ram, records, store, history
<1> QED
    BY <1>1, <1>2, <1>3, <1>4, <1>5, <1>6, <1>7, <1>8 DEF Next

\* A store that begins finds the records as IdleResetIsExact describes them.
LEMMA BeginStoreStep ==
    ASSUME TypeOK, AllMarked, IdleResetIsExact, Whole, copy = 0, NEW s \in BOOLEAN,
           BeginStore(s), UNCHANGED << records, torn >>
    PROVE  (Filled /\ Untouched /\ AllMarked /\ IdleResetIsExact /\ Whole)'
<1>1. settled' => \A c \in Copies : pos[c] = sys_position
    BY BeginStoreHistory DEF IdleResetIsExact, Restored, Agree, Copies
<1>2. (AllMarked /\ IdleResetIsExact)'
    BY DEF BeginStore, records, AllMarked, IdleResetIsExact
<1>3. Filled'
    BY DEF Filled, BeginStore, Copies, Axes
<1>4. Untouched'
    BY <1>1 DEF Untouched, BeginStore, records, Copies, Axes
<1>5. Whole'
    BY BeginStoreHistory DEF Whole, BeginStore, Agree, Copies
<1> QED
    BY <1>2, <1>3, <1>4, <1>5

\* Writing one axis word keeps what is filled apart from what is untouched.
LEMMA StoreAxisStep ==
    ASSUME IInv, StoreAxis
    PROVE  (Filled /\ Untouched /\ AllMarked /\ IdleResetIsExact /\ StepPending /\ Whole)'
<1> USE DEF IInv
<1>1. word \in Axes /\ copy \in Copies
    BY DEF StoreAxis, TypeOK, Axes, Marker
<1>2. \A c \in Copies : c # copy => pos'[c] = pos[c]
    BY <1>1 DEF StoreAxis, TypeOK
<1>3. /\ pos'[copy][word] = sys_position[word]
      /\ \A a \in Axes : a # word => pos'[copy][a] = pos[copy][a]
    BY <1>1 DEF StoreAxis, TypeOK, Position
<1>4. Filled'
    BY <1>1, <1>2, <1>3 DEF Filled, StoreAxis, ram, TypeOK, Copies, Axes
<1>5. Untouched'
    BY <1>1, <1>2, <1>3 DEF Untouched, StoreAxis, history, TypeOK, Copies, Axes
<1>6. (AllMarked /\ IdleResetIsExact /\ StepPending /\ Whole)'
    BY <1>1 DEF AllMarked, IdleResetIsExact, StepPending, Whole, StoreAxis, ram, history, Copies
<1> QED
    BY <1>4, <1>5, <1>6

\* Completing a record: the next one is untouched, and after the third one all
\* records hold the position in RAM.
LEMMA StoreMarkerStep ==
    ASSUME IInv, StoreMarker
    PROVE  (Filled /\ Untouched /\ AllMarked /\ IdleResetIsExact /\ StepPending /\ Whole)'
<1> USE DEF IInv
<1>1. pos[copy] = sys_position
    <2>1. \A a \in Axes : pos[copy][a] = sys_position[a]
        BY DEF Filled, StoreMarker, Marker, Axes, Copies
    <2>2. pos[copy] \in Position /\ sys_position \in Position
        BY DEF StoreMarker, TypeOK
    <2> QED
        BY <2>1, <2>2, Extensional
<1>2. \A c \in Copies : c <= copy => pos[c] = sys_position
    BY <1>1 DEF Filled, StoreMarker, Copies
<1>3. AllMarked'
    BY DEF AllMarked, StoreMarker, TypeOK
<1>4. Filled'
    BY <1>2 DEF Filled, StoreMarker, ram, Copies, Axes
<1>5. Untouched'
    BY DEF Untouched, StoreMarker, history, Copies, Axes
<1>6. IdleResetIsExact'
    BY <1>2, <1>3 DEF IdleResetIsExact, StoreMarker, Restored, Agree, ram, Copies
<1>7. StepPending'
    BY DEF StepPending, StoreMarker, ram, history, Copies
<1>8. Whole'
    <2>1. CASE copy = 3
        BY <1>2, <2>1 DEF Whole, StoreMarker, Copies
    <2>2. CASE copy # 3
        <3>1. copy' # 0
            BY <2>2 DEF StoreMarker, Copies
        <3>2. settled' = settled /\ (torn => torn')
            BY <2>2, Zenon DEF StoreMarker, history
        <3>3. ~torn => settled
            BY DEF Whole, StoreMarker, Copies
        <3> QED
            BY <3>1, <3>2, <3>3 DEF Whole
    <2> QED
        BY <2>1, <2>2
<1> QED
    BY <1>3, <1>4, <1>5, <1>6, <1>7, <1>8

\* Every step preserves the inductive invariant.
LEMMA NextIInv == IInv /\ [Next]_vars => IInv'
<1> SUFFICES ASSUME IInv, [Next]_vars PROVE IInv'
    OBVIOUS
<1> USE DEF IInv
<1>0. TypeOK'
    BY TypeStep
<1>1. CASE StepInterrupt
    <2>1. (Filled /\ Untouched /\ AllMarked /\ IdleResetIsExact /\ Whole)'
        BY <1>1, BeginStoreStep DEF StepInterrupt
    <2>2. PICK d \in Moves : sys_position' = Plus(sys_position, d) /\ outbits' = d
        BY <1>1 DEF StepInterrupt
    <2>3. StepPending'
        BY <1>1, <2>2 DEF StepPending, StepInterrupt, BeginStore, Plus
    <2> QED
        BY <1>0, <2>1, <2>3
<1>2. CASE StopInterrupt
    BY <1>0, <1>2 DEF StopInterrupt, AllMarked, Whole, IdleResetIsExact, Filled, Untouched,
                      StepPending, Restored, Agree, records, store, history
<1>3. CASE HomeAxis
    <2>1. (Filled /\ Untouched /\ AllMarked /\ IdleResetIsExact /\ Whole)'
        BY <1>3, BeginStoreStep DEF HomeAxis
    <2>2. StepPending'
        BY <1>3 DEF StepPending, HomeAxis, BeginStore
    <2> QED
        BY <1>0, <2>1, <2>2
<1>4. CASE StoreAxis
    BY <1>0, <1>4, StoreAxisStep
<1>5. CASE StoreMarker
    BY <1>0, <1>5, StoreMarkerStep
<1>6. CASE SaveToEeprom
    BY <1>0, <1>6 DEF SaveToEeprom, AllMarked, Whole, IdleResetIsExact, Filled, Untouched,
                      StepPending, Restored, Agree, ram, records, store, history
<1>7. CASE UnexpectedReset
    BY <1>0, <1>7 DEF UnexpectedReset, AllMarked, Whole, IdleResetIsExact, Filled, Untouched,
                      StepPending, Restored, Agree, records, history
<1>8. CASE UNCHANGED vars
    BY <1>0, <1>8 DEF vars, AllMarked, Whole, IdleResetIsExact, Filled, Untouched,
                      StepPending, Restored, Agree, ram, records, store, history
<1> QED
    BY <1>1, <1>2, <1>3, <1>4, <1>5, <1>6, <1>7, <1>8 DEF Next

\* The inductive invariant holds in every reachable state.
THEOREM IInvHolds == Spec => []IInv
BY InitIInv, NextIInv, PTL DEF Spec

\* Type correctness of the position records, for every number of axes.
THEOREM TypeCorrect == Spec => []TypeOK
BY IInvHolds, PTL DEF IInv

\* A reset between two stores restores exactly the position in RAM.
THEOREM IdleResets == Spec => []IdleResetIsExact
BY IInvHolds, PTL DEF IInv

\* The window that is left if the records agreed when the store began.
SettledWindow ==
    (copy # 0 /\ settled /\ ~Usable) => (copy = 2 /\ word \in 1 .. N_AXIS - 1)

\* Which record holds what decides what a restore can find.
LEMMA RestoredCases ==
    IInv => /\ RestoreNeverMixed
            /\ SettledWindow
            /\ FallbackWindow
<1> SUFFICES ASSUME IInv PROVE RestoreNeverMixed /\ SettledWindow /\ FallbackWindow
    OBVIOUS
<1> USE DEF SettledWindow
<1> USE DEF IInv
<1>0. copy # 0 => (torn \/ settled)
    BY DEF Whole
<1>1. CASE copy = 0
    BY <1>1 DEF RestoreNeverMixed, FallbackWindow, IdleResetIsExact
<1>2. CASE copy = 1
    <2>1. settled => pos[2] = before /\ pos[3] = before
        BY <1>2 DEF Untouched, Copies
    <2> QED
        BY <1>0, <1>2, <2>1 DEF RestoreNeverMixed, FallbackWindow, Restored, Usable, Agree
<1>3. CASE copy = 2
    <2>1. pos[1] = sys_position
        BY <1>3 DEF Filled, Copies
    <2>2. settled => pos[3] = before
        BY <1>3 DEF Untouched, Copies
    <2>3. pos[2] \in Position /\ sys_position \in Position /\ before \in Position
        BY DEF TypeOK, Copies
    <2>4. (settled /\ word = 0) => pos[2] = before
        BY <1>3, <2>3, Extensional DEF Untouched, Axes
    <2>5. word = N_AXIS => pos[2] = sys_position
        BY <1>3, <2>3, Extensional DEF Filled, Axes
    <2>6. word \in 0 .. N_AXIS
        BY DEF TypeOK
    <2>7. RestoreNeverMixed
        BY <2>1, <2>2 DEF RestoreNeverMixed, Restored, Usable, Agree
    <2>8. SettledWindow /\ FallbackWindow
        BY <1>0, <1>3, <2>1, <2>2, <2>4, <2>5, <2>6 DEF FallbackWindow, Usable, Agree
    <2> QED
        BY <2>7, <2>8
<1>4. CASE copy = 3
    <2>1. pos[1] = sys_position /\ pos[2] = sys_position
        BY <1>4 DEF Filled, Copies
    <2> QED
        BY <1>4, <2>1 DEF RestoreNeverMixed, FallbackWindow, Restored, Usable, Agree
<1> QED
    BY <1>1, <1>2, <1>3, <1>4 DEF TypeOK

\* No reset makes the records yield a mixture of two positions, provided they
\* agreed when the interrupted store began.
THEOREM NeverMixed == Spec => []RestoreNeverMixed
BY IInvHolds, RestoredCases, PTL

\* The two windows of the store in which the records are of no use, whatever
\* resets came before.
THEOREM WindowOnly == Spec => []FallbackWindow
BY IInvHolds, RestoredCases, PTL

\* Outside that window a reset costs at most one step per axis.
LEMMA ResetStep ==
    ASSUME IInv, UnexpectedReset,
           copy # 0 => (stepping /\ settled /\ ~(copy = 2 /\ word \in 1 .. N_AXIS - 1))
    PROVE  ResetCostsAtMostOneStep
<1> USE DEF IInv
<1>1. Restored \in {sys_position, before}
    BY RestoredCases DEF RestoreNeverMixed, SettledWindow, IdleResetIsExact
<1>2. Restored = sys_position \/ (Restored = before /\ copy # 0)
    BY <1>1 DEF IdleResetIsExact
<1> SUFFICES ASSUME NEW a \in Axes PROVE (Error(a)' - Error(a)) \in -1 .. 1
    BY DEF ResetCostsAtMostOneStep
<1>3. /\ sys_position[a] \in Int /\ machine[a] \in Int /\ before[a] \in Int
      /\ outbits[a] \in {-1, 0, 1}
    BY DEF TypeOK, Position
<1>4. /\ sys_position'[a] = Restored[a]
      /\ outbits'[a] = 0
      /\ machine'[a] = machine[a]
    BY DEF UnexpectedReset, Still
<1>5. CASE Restored = sys_position
    BY <1>3, <1>4, <1>5 DEF Error
<1>6. CASE Restored = before /\ copy # 0
    <2>1. sys_position[a] = before[a] + outbits[a]
        BY <1>6 DEF StepPending
    <2> QED
        BY <1>3, <1>4, <1>6, <2>1 DEF Error
<1> QED
    BY <1>2, <1>5, <1>6

\* README.md:25 in the form the code keeps: +-1 step per reset.
THEOREM ResetAccuracy == Spec => SettledResetsKeepPosition
<1>1. IInv => ((/\ UnexpectedReset
                /\ copy # 0 => (stepping /\ settled
                                /\ ~(copy = 2 /\ word \in 1 .. N_AXIS - 1)))
               => ResetCostsAtMostOneStep)
    BY ResetStep
<1> QED
    BY <1>1, IInvHolds, PTL DEF SettledResetsKeepPosition

=============================================================================
