------------------------ MODULE SystemControl_proofs ------------------------
(***************************************************************************)
(* Proofs about the real-time core, for every choice of the host's          *)
(* commands and lines, of the machine's events and of the sizes of the two  *)
(* buffers: the types, and what the core promises of holds, doors, alarms   *)
(* and motion.                                                              *)
(*                                                                          *)
(* None of the promises holds of every behaviour: an emergency stop, an     *)
(* alarm or a soft reset leaves bits of sys.suspend behind that belong to   *)
(* the motion before.  Each of their theorems names, as a hypothesis about  *)
(* the behaviour, the one disturbance it has to be free of, and the         *)
(* corollaries name inputs that never cause it.                             *)
(***************************************************************************)
EXTENDS SystemControl, TLAPS

\* The inductive invariant: the types alone are not inductive, because taking
\* a block out of the planner needs one to be there, and it is the prepared
\* block that says so.
IInv == TypeOK /\ PreparedIsQueued

\* The flags of the word, folded everywhere else.
LEMMA Flags ==
    /\ HoldFlags \subseteq ExecFlags
    /\ {"MOTION_CANCEL", "FEED_HOLD", "SAFETY_DOOR", "CYCLE_START", "PROBE_START",
        "CYCLE_STOP", "ABORT", "CLEAR_ALARM"} \subseteq ExecFlags
BY DEF ExecFlags, HoldFlags

\* The initial state has the invariant.
LEMMA InitIInv == Init => IInv
<1> SUFFICES ASSUME Init PROVE IInv
  OBVIOUS
<1>1. spindle \in BOOLEAN
  BY SpindleAssumption, Zenon DEF Init
<1>2. /\ blocks \in 0 .. BLOCK_BUFFER /\ left \in 0 .. BlockSegments
      /\ segments \in 0 .. SEGMENT_BUFFER /\ arc \in 0 .. ArcLines
  BY BuffersAssumption DEF Init
<1>3. QED
  BY <1>1, <1>2 DEF Init, IInv, TypeOK, PreparedIsQueued, States, Machines, Phases, LineStates

-----------------------------------------------------------------------------
(* Every step keeps the types.                                              *)

\* The interrupt and the environment keep the types.
LEMMA InterruptTypes ==
    ASSUME TypeOK, Interrupt \/ Environment \/ DelayEnds PROVE TypeOK'
<1> USE SpindleAssumption, BuffersAssumption
    DEF TypeOK, flags, sys, machine, motion, stepgen, probe, outputs, pins, host, loop, prepSub
<1>1. CASE InterruptSegment
  <2>1. spindle' \in BOOLEAN
    BY <1>1, Zenon DEF InterruptSegment
  <2>2. exec' \subseteq ExecFlags
    BY <1>1, Flags DEF InterruptSegment
  <2>3. segments' \in 0 .. SEGMENT_BUFFER
    BY <1>1 DEF InterruptSegment
  <2>4. monitor' \in BOOLEAN /\ touched' \in BOOLEAN
    BY <1>1 DEF InterruptSegment
  <2>5. QED
    BY <1>1, <2>1, <2>2, <2>3, <2>4 DEF InterruptSegment
<1>2. CASE InterruptEmpty
  <2>1. exec' \subseteq ExecFlags
    BY <1>2, Flags DEF InterruptEmpty
  <2>2. running' \in BOOLEAN
    BY <1>2, Zenon DEF InterruptEmpty
  <2>3. QED
    BY <1>2, <2>1, <2>2 DEF InterruptEmpty
<1>3. CASE DoorMoves
  BY <1>3 DEF DoorMoves
<1>4. CASE AbortPinMoves
  BY <1>4 DEF AbortPinMoves
<1>5. CASE LimitMoves
  BY <1>5 DEF LimitMoves
<1>6. CASE DelayEnds
  <2>1. delay' \in BOOLEAN
    BY <1>6, Zenon DEF DelayEnds
  <2>2. QED
    BY <1>6, <2>1 DEF DelayEnds
<1>7. QED
  BY <1>1, <1>2, <1>3, <1>4, <1>5, <1>6 DEF Interrupt, Environment

\* The protocol and the reset keep the types.
LEMMA ProtocolTypes ==
    ASSUME TypeOK, ResetBegin \/ ResetEnd \/ Protocol \/ ArcGenerator PROVE TypeOK'
<1> USE InputsAssumption, BuffersAssumption, SpindleAssumption
    DEF TypeOK, flags, sys, machine, motion, stepgen, probe, outputs, pins, host, loop, prepSub,
        Phases
<1>1. CASE Serial
  <2>1. exec' \subseteq ExecFlags
    BY <1>1, Flags DEF Serial, CommandFlag
  <2>2. stopOvr' \in BOOLEAN /\ resetting' \in BOOLEAN
    BY <1>1, Zenon DEF Serial
  <2>3. QED
    BY <1>1, <2>1, <2>2 DEF Serial
<1>2. CASE LineArrives
  BY <1>2 DEF LineArrives, LineStates
<1>3. CASE LineProceeds
  BY <1>3 DEF LineProceeds, LineStates
<1>4. CASE LineMotion
  BY <1>4 DEF LineMotion, Executes, QueueLine, LineStates
<1>5. CASE LineJog
  <2>1. state' \in States
    BY <1>5 DEF LineJog, States
  <2>2. blocks' \in 0 .. BLOCK_BUFFER
    BY <1>5 DEF LineJog, Executes, QueueLine
  <2>3. phase' \in Phases /\ after' \in Phases /\ wake' \in BOOLEAN
    BY <1>5 DEF LineJog
  <2>4. QED
    BY <1>5, <2>1, <2>2, <2>3 DEF LineJog, Executes, LineStates
<1>6. CASE LineUnlock
  <2>1. exec' \subseteq ExecFlags
    BY <1>6, Flags DEF LineUnlock
  <2>2. QED
    BY <1>6, <2>1 DEF LineUnlock, Executes, LineStates
<1>7. CASE LineProbe
  <2>1. exec' \subseteq ExecFlags
    BY <1>7, Flags DEF LineProbe
  <2>2. blocks' \in 0 .. BLOCK_BUFFER
    BY <1>7 DEF LineProbe, Executes, QueueLine
  <2>3. alarm' \in BOOLEAN /\ probing' \in BOOLEAN /\ monitor' \in BOOLEAN /\ touched' \in BOOLEAN
    BY <1>7 DEF LineProbe
  <2>4. QED
    BY <1>7, <2>1, <2>2, <2>3 DEF LineProbe, Executes, LineStates
<1>8. CASE LineWaits
  BY <1>8 DEF LineWaits
<1>9. CASE ResetBegin
  <2>1. /\ alarm' \in BOOLEAN /\ stopOvr' \in BOOLEAN /\ lastState' \in BOOLEAN
        /\ delay' \in BOOLEAN /\ prepped' \in BOOLEAN /\ recalculate' \in BOOLEAN
        /\ probing' \in BOOLEAN /\ monitor' \in BOOLEAN /\ touched' \in BOOLEAN
        /\ spindle' \in BOOLEAN /\ estop' \in BOOLEAN /\ doorLast' \in BOOLEAN
        /\ abortLast' \in BOOLEAN
    BY <1>9, Zenon DEF ResetBegin
  <2>2. QED
    BY <1>9, <2>1 DEF ResetBegin, Machines, LineStates
<1>10. CASE ResetEnd
  <2>1. running' \in BOOLEAN /\ resetting' \in BOOLEAN
    BY <1>10, Zenon DEF ResetEnd
  <2>2. QED
    BY <1>10, <2>1 DEF ResetEnd
<1>11. CASE LineArc
  <2>1. blocks' \in 0 .. BLOCK_BUFFER /\ arc' \in 0 .. ArcLines
    BY <1>11 DEF LineArc, Executes, QueueLine
  <2>2. QED
    BY <1>11, <2>1 DEF LineArc, Executes, LineStates
<1>12. CASE ArcGenerator
  <2>1. blocks' \in 0 .. BLOCK_BUFFER /\ arc' \in 0 .. ArcLines
    BY <1>12 DEF ArcGenerator, ArcRoom, QueueLine
  <2>2. QED
    BY <1>12, <2>1 DEF ArcGenerator
<1>13. QED
  BY <1>1, <1>2, <1>3, <1>4, <1>5, <1>6, <1>7, <1>8, <1>9, <1>10, <1>11, <1>12 DEF Protocol

\* The step generator keeps the types: a block leaves the planner only if one
\* is there.
LEMMA PrepTypes ==
    ASSUME IInv, PrepSegment \/ PrepEndOfBlock \/ PrepRest \/ PrepDone PROVE TypeOK'
<1> USE BuffersAssumption
    DEF TypeOK, flags, sys, machine, motion, stepgen, probe, outputs, pins, host, loop, prepSub
<1>0. TypeOK /\ (prepped => blocks > 0)
  BY DEF IInv, PreparedIsQueued
<1>1. CASE PrepSegment
  <2>1. prepped' \in BOOLEAN /\ recalculate' \in BOOLEAN
    BY <1>1, Zenon DEF PrepSegment, PrepTurn
  <2>2. left' \in 0 .. BlockSegments /\ segments' \in 0 .. SEGMENT_BUFFER
    BY <1>0, <1>1 DEF PrepSegment, PrepTurn, SegmentRoom
  <2>3. QED
    BY <1>0, <1>1, <2>1, <2>2 DEF PrepSegment, PrepTurn
<1>2. CASE PrepEndOfBlock
  <2>1. prepped' \in BOOLEAN /\ recalculate' \in BOOLEAN
    BY <1>2, Zenon DEF PrepEndOfBlock, PrepTurn
  <2>2. /\ left' \in 0 .. BlockSegments /\ segments' \in 0 .. SEGMENT_BUFFER
        /\ blocks' \in 0 .. BLOCK_BUFFER
    BY <1>0, <1>2 DEF PrepEndOfBlock, PrepTurn, SegmentRoom
  <2>3. QED
    BY <1>0, <1>2, <2>1, <2>2 DEF PrepEndOfBlock, PrepTurn
<1>3. CASE PrepRest
  <2>1. step_control' \subseteq StepFlags
    BY <1>0, <1>3 DEF PrepRest, StepFlags
  <2>2. left' \in 0 .. BlockSegments /\ segments' \in 0 .. SEGMENT_BUFFER
    BY <1>0, <1>3 DEF PrepRest, PrepTurn, SegmentRoom
  <2>3. prepped' \in BOOLEAN /\ recalculate' \in BOOLEAN
    BY <1>3, Zenon DEF PrepRest, PrepTurn
  <2>4. QED
    BY <1>0, <1>3, <2>1, <2>2, <2>3 DEF PrepRest, PrepTurn
<1>4. CASE PrepDone
  <2>1. running' \in BOOLEAN /\ wake' \in BOOLEAN
    BY <1>0, <1>4, Zenon DEF PrepDone
  <2>2. QED
    BY <1>0, <1>4, <2>1 DEF PrepDone
<1>5. QED
  BY <1>1, <1>2, <1>3, <1>4

\* What planner and step generator hold, as one type.
MotionType ==
    /\ blocks \in 0 .. BLOCK_BUFFER
    /\ prepped \in BOOLEAN /\ recalculate \in BOOLEAN
    /\ left \in 0 .. BlockSegments /\ segments \in 0 .. SEGMENT_BUFFER
    /\ running \in BOOLEAN

\* Emptying, recomputing and leaving alone keep it.
LEMMA MotionTypes ==
    ASSUME MotionType, ResetMotion \/ UpdatePlanBlock \/ UNCHANGED motion
    PROVE  MotionType'
<1>1. CASE ResetMotion
  <2>1. prepped' \in BOOLEAN /\ recalculate' \in BOOLEAN /\ running' \in BOOLEAN
    BY <1>1, Zenon DEF ResetMotion
  <2>2. QED
    BY <1>1, <2>1, BuffersAssumption DEF ResetMotion, MotionType
<1>2. CASE UpdatePlanBlock
  <2>1. prepped' \in BOOLEAN /\ recalculate' \in BOOLEAN
    BY <1>2, Zenon DEF UpdatePlanBlock
  <2>2. QED
    BY <1>2, <2>1 DEF UpdatePlanBlock, MotionType
<1>3. CASE UNCHANGED motion
  BY <1>3 DEF MotionType, motion, stepgen
<1>4. QED
  BY <1>1, <1>2, <1>3

-----------------------------------------------------------------------------
\* The handlers of the flags keep the types.
LEMMA FlagTypes ==
    ASSUME TypeOK,
           \/ Limits \/ ExecAlarm \/ Hold \/ CycleStart \/ ProbeStart \/ CycleStop
           \/ Abort \/ ClearAlarm \/ Override \/ MainPrep
    PROVE  TypeOK'
<1> USE DEF flags, sys, machine, probe, outputs, pins, host, loop, prepSub, Phases
<1>0. MotionType
  BY DEF TypeOK, MotionType
<1>1. CASE Limits
  <2>1. MotionType'
    BY <1>0, <1>1, MotionTypes DEF Limits
  <2>2. exec' \subseteq ExecFlags
    BY <1>1, Flags DEF Limits, TypeOK
  <2>3. limit' \in BOOLEAN /\ alarm' \in BOOLEAN /\ spindle' \in BOOLEAN
    BY <1>1, Zenon DEF Limits, TypeOK
  <2>4. QED
    BY <1>1, <2>1, <2>2, <2>3 DEF Limits, MotionType, TypeOK
<1>2. CASE ExecAlarm
  <2>1. alarm' \in BOOLEAN
    BY <1>2, Zenon DEF ExecAlarm
  <2>2. state' \in States
    BY <1>2 DEF ExecAlarm, TypeOK, States
  <2>3. QED
    BY <1>2, <2>1, <2>2 DEF ExecAlarm, TypeOK, motion, stepgen
<1>3. CASE Hold
  <2>1. MotionType'
    BY <1>0, <1>3, MotionTypes DEF Hold
  <2>2. exec' \subseteq ExecFlags
    BY <1>3 DEF Hold, Clear, TypeOK
  <2>3. state' \in States
    BY <1>3 DEF Hold, TypeOK, States
  <2>4. suspend' \subseteq SuspendFlags
    BY <1>3 DEF Hold, TypeOK, SuspendFlags
  <2>5. step_control' \subseteq StepFlags
    BY <1>3 DEF Hold, TypeOK, StepFlags
  <2>6. QED
    BY <1>3, <2>1, <2>2, <2>3, <2>4, <2>5 DEF Hold, MotionType, TypeOK
<1>4. CASE CycleStart
  <2>1. exec' \subseteq ExecFlags
    BY <1>4 DEF CycleStart, Clear, TypeOK
  <2>2. state' \in States
    BY <1>4 DEF CycleStart, BeginCycle, TypeOK, States
  <2>3. suspend' \subseteq SuspendFlags /\ step_control' \subseteq StepFlags
    BY <1>4 DEF CycleStart, BeginCycle, SuspendBroken, TypeOK, SuspendFlags
  <2>4. spindle_stop' \subseteq StopOvrFlags
    BY <1>4 DEF CycleStart, BeginCycle, TypeOK, StopOvrFlags
  <2>5. wake' \in BOOLEAN
    BY <1>4, Zenon DEF CycleStart, BeginCycle, TypeOK
  <2>6. phase' \in Phases /\ after' \in Phases
    BY <1>4 DEF CycleStart, BeginCycle, TypeOK
  <2>7. QED
    BY <1>4, <2>1, <2>2, <2>3, <2>4, <2>5, <2>6 DEF CycleStart, TypeOK, motion, stepgen
<1>5. CASE ProbeStart
  <2>1. exec' \subseteq ExecFlags
    BY <1>5 DEF ProbeStart, Clear, TypeOK
  <2>2. state' \in States
    BY <1>5 DEF ProbeStart, BeginCycle, TypeOK, States
  <2>3. /\ suspend' \subseteq SuspendFlags /\ step_control' \subseteq StepFlags
        /\ spindle_stop' \subseteq StopOvrFlags
    BY <1>5 DEF ProbeStart, BeginCycle, SuspendBroken, TypeOK
  <2>4. wake' \in BOOLEAN
    BY <1>5, Zenon DEF ProbeStart, BeginCycle, TypeOK
  <2>5. phase' \in Phases /\ after' \in Phases
    BY <1>5 DEF ProbeStart, BeginCycle, TypeOK
  <2>6. QED
    BY <1>5, <2>1, <2>2, <2>3, <2>4, <2>5 DEF ProbeStart, TypeOK, motion, stepgen
<1>6. CASE CycleStop
  <2>1. MotionType'
    BY <1>0, <1>6, MotionTypes DEF CycleStop
  <2>2. exec' \subseteq ExecFlags
    BY <1>6 DEF CycleStop, Clear, TypeOK
  <2>3. state' \in States
    BY <1>6 DEF CycleStop, StoppedState, TypeOK, States
  <2>4. suspend' \subseteq SuspendFlags
    BY <1>6 DEF CycleStop, TypeOK, SuspendFlags
  <2>5. step_control' \subseteq StepFlags
    BY <1>6 DEF CycleStop, TypeOK
  <2>6. QED
    BY <1>6, <2>1, <2>2, <2>3, <2>4, <2>5 DEF CycleStop, MotionType, TypeOK
<1>7. CASE Abort
  <2>1. MotionType'
    BY <1>0, <1>7, MotionTypes DEF Abort
  <2>2. exec' \subseteq ExecFlags
    BY <1>7 DEF Abort, Clear, TypeOK
  <2>3. estop' \in BOOLEAN /\ spindle' \in BOOLEAN /\ alarm' \in BOOLEAN
    <3>1. CASE "ABORT" \in rt
      BY <1>7, <3>1, Zenon DEF Abort
    <3>2. CASE "ABORT" \notin rt
      BY <1>7, <3>2 DEF Abort, TypeOK
    <3>3. QED
      BY <3>1, <3>2
  <2>4. QED
    BY <1>7, <2>1, <2>2, <2>3 DEF Abort, MotionType, TypeOK
<1>8. CASE ClearAlarm
  <2>1. exec' \subseteq ExecFlags
    BY <1>8 DEF ClearAlarm, Clear, TypeOK
  <2>2. state' \in States
    BY <1>8 DEF ClearAlarm, TypeOK, States
  <2>3. estop' \in BOOLEAN
    BY <1>8, Zenon DEF ClearAlarm, TypeOK
  <2>4. QED
    BY <1>8, <2>1, <2>2, <2>3 DEF ClearAlarm, TypeOK, motion, stepgen
<1>9. CASE Override
  <2>1. stopOvr' \in BOOLEAN
    BY <1>9, Zenon DEF Override
  <2>2. spindle_stop' \subseteq StopOvrFlags
    BY <1>9 DEF Override, TypeOK, StopOvrFlags
  <2>3. QED
    BY <1>9, <2>1, <2>2 DEF Override, TypeOK, motion, stepgen
<1>10. CASE MainPrep
  <2>1. wake' \in BOOLEAN
    BY <1>10, Zenon DEF MainPrep, TypeOK
  <2>2. QED
    BY <1>10, <2>1 DEF MainPrep, TypeOK, motion, stepgen
<1>11. QED
  BY <1>1, <1>2, <1>3, <1>4, <1>5, <1>6, <1>7, <1>8, <1>9, <1>10

\* The suspend state machine and the polled inputs keep the types.
LEMMA MachineTypes ==
    ASSUME TypeOK, Machine \/ StepperEnable \/ ControlPins \/ Probe PROVE TypeOK'
<1> USE SpindleAssumption
    DEF flags, sys, machine, probe, outputs, pins, host, loop, prepSub, Phases
<1>0. MotionType
  BY DEF TypeOK, MotionType
<1>1. CASE Machine
  <2> USE <1>1 DEF Machine
  <2>1. CASE MachineInit
    <3>1. exec' \subseteq ExecFlags
      BY <2>1, Flags DEF MachineInit, TypeOK
    <3>2. state' \in States /\ sm' \in Machines
      BY <2>1 DEF MachineInit, TypeOK, States, Machines
    <3>3. QED
      BY <2>1, <3>1, <3>2 DEF MachineInit, TypeOK, motion, stepgen
  <2>2. CASE MachineIdle
    <3>1. exec' \subseteq ExecFlags
      BY <2>2, Flags DEF MachineIdle, TypeOK
    <3>2. lastState' \in BOOLEAN
      <4>1. (blocks > 0) \in BOOLEAN
        BY SMT DEF TypeOK
      <4>2. QED
        BY <2>2, <4>1, Zenon DEF MachineIdle
    <3>3. sm' \in Machines
      BY <2>2 DEF MachineIdle, TypeOK, Machines
    <3>4. QED
      BY <2>2, <3>1, <3>2, <3>3 DEF MachineIdle, TypeOK, motion, stepgen
  <2>3. CASE MachineSuspend
    <3>1. /\ exec' \subseteq ExecFlags /\ suspend' \subseteq SuspendFlags
          /\ spindle_stop' \subseteq StopOvrFlags
          /\ spindle' \in BOOLEAN /\ delay' \in BOOLEAN
      <4>1. CASE ~Has("HOLD_COMPLETE")
        BY <2>3, <4>1 DEF MachineSuspend, TypeOK
      <4>2. CASE SuspendDoor
        <5>1. exec' \subseteq ExecFlags
          BY <4>2, Flags DEF SuspendDoor, TypeOK
        <5>2. suspend' \subseteq SuspendFlags
          BY <4>2 DEF SuspendDoor, TypeOK, SuspendFlags
        <5>3. spindle_stop' \subseteq StopOvrFlags
          BY <4>2 DEF SuspendDoor, TypeOK
        <5>4. spindle' \in BOOLEAN
          BY <4>2, Zenon DEF SuspendDoor, Retracted, TypeOK
        <5>5. delay' \in BOOLEAN
          BY <4>2, Zenon DEF SuspendDoor
        <5>6. QED
          BY <5>1, <5>2, <5>3, <5>4, <5>5
      <4>3. CASE SuspendHold
        <5>1. exec' \subseteq ExecFlags
          BY <4>3, Flags DEF SuspendHold, TypeOK
        <5>2. spindle_stop' \subseteq StopOvrFlags
          BY <4>3 DEF SuspendHold, TypeOK, StopOvrFlags
        <5>3. spindle' \in BOOLEAN
          BY <4>3, Zenon DEF SuspendHold, TypeOK
        <5>4. QED
          BY <4>3, <5>1, <5>2, <5>3 DEF SuspendHold, TypeOK
      <4>4. QED
        BY <2>3, <4>1, <4>2, <4>3 DEF MachineSuspend
    <3>2. sm' \in Machines
      BY <2>3 DEF MachineSuspend, TypeOK, Machines
    <3>3. QED
      BY <2>3, <3>1, <3>2 DEF MachineSuspend, TypeOK, motion, stepgen
  <2>4. CASE MachineDelay
    <3>1. sm' \in Machines
      BY <2>4 DEF MachineDelay, TypeOK, Machines
    <3>2. QED
      BY <2>4, <3>1 DEF MachineDelay, TypeOK, motion, stepgen
  <2>5. QED
    BY <2>1, <2>2, <2>3, <2>4
<1>2. CASE StepperEnable
  <2>1. estop' \in BOOLEAN
    BY <1>2, Zenon DEF StepperEnable, TypeOK
  <2>2. QED
    BY <1>2, <2>1 DEF StepperEnable, TypeOK, motion, stepgen
<1>3. CASE ControlPins
  <2>1. exec' \subseteq ExecFlags
    BY <1>3, Flags DEF ControlPins, TypeOK
  <2>2. abortLast' \in BOOLEAN /\ doorLast' \in BOOLEAN
    BY <1>3, Zenon DEF ControlPins, TypeOK
  <2>3. QED
    BY <1>3, <2>1, <2>2 DEF ControlPins, TypeOK, motion, stepgen
<1>4. CASE Probe
  <2>1. MotionType'
    BY <1>0, <1>4, MotionTypes DEF Probe
  <2>2. alarm' \in BOOLEAN
    BY <1>4 DEF Probe, TypeOK
  <2>3. probing' \in BOOLEAN /\ monitor' \in BOOLEAN /\ touched' \in BOOLEAN
    <3>1. CASE ProbeCycleEnds
      BY <1>4, <3>1, Zenon DEF Probe
    <3>2. CASE ~ProbeCycleEnds
      BY <1>4, <3>2 DEF Probe, TypeOK
    <3>3. QED
      BY <3>1, <3>2
  <2>4. QED
    BY <1>4, <2>1, <2>2, <2>3 DEF Probe, MotionType, TypeOK
<1>5. QED
  BY <1>1, <1>2, <1>3, <1>4

\* Every step keeps the types.
LEMMA TypeStep == ASSUME IInv, [Next]_vars PROVE TypeOK'
<1>0. TypeOK
  BY DEF IInv
<1>1. CASE UNCHANGED vars
  BY <1>0, <1>1 DEF TypeOK, vars, flags, sys, machine, motion, stepgen, probe, outputs, pins,
     host, loop, prepSub
<1>2. CASE Next
  BY <1>0, <1>2, InterruptTypes, ProtocolTypes, PrepTypes, FlagTypes, MachineTypes
     DEF Next, MainLoop
<1>3. QED
  BY <1>1, <1>2

-----------------------------------------------------------------------------
(* Every step keeps what is prepared in the queue.                          *)

\* Steps that leave the step generator alone and take nothing out of the planner.
LEMMA PreparedKept ==
    ASSUME IInv, blocks' \in Nat, blocks' >= blocks, UNCHANGED << prepped, recalculate, left >>
    PROVE  PreparedIsQueued'
<1>1. (prepped' \/ recalculate') => (prepped \/ recalculate)
  BY Zenon
<1>2. (prepped \/ recalculate) => (blocks > 0 /\ left > 0)
  BY DEF IInv, PreparedIsQueued
<1>3. blocks \in Nat /\ (blocks > 0 => blocks' > 0) /\ left' = left
  BY DEF IInv, TypeOK
<1>4. QED
  BY <1>1, <1>2, <1>3 DEF PreparedIsQueued

\* Emptying everything, and having the block in preparation recomputed.
LEMMA PreparedReset ==
    ASSUME IInv, ResetMotion \/ UpdatePlanBlock \/ UNCHANGED motion PROVE PreparedIsQueued'
<1>1. CASE ResetMotion
  BY <1>1, Zenon DEF ResetMotion, PreparedIsQueued
<1>2. CASE UpdatePlanBlock
  <2>1. (prepped' \/ recalculate') => (prepped \/ recalculate)
    BY <1>2, Zenon DEF UpdatePlanBlock
  <2>2. QED
    BY <1>2, <2>1 DEF UpdatePlanBlock, IInv, PreparedIsQueued
<1>3. CASE UNCHANGED motion
  BY <1>3, PreparedKept DEF motion, stepgen, IInv, TypeOK
<1>4. QED
  BY <1>1, <1>2, <1>3

\* The turns of the step generator.
LEMMA PreparedPrep ==
    ASSUME IInv, PrepSegment \/ PrepEndOfBlock \/ PrepRest PROVE PreparedIsQueued'
<1>0. TypeOK /\ (prepped => blocks > 0)
  BY DEF IInv, PreparedIsQueued
<1>1. CASE PrepSegment
  <2>1. blocks' > 0
    BY <1>0, <1>1 DEF PrepSegment, PrepTurn, TypeOK
  <2>2. left' > 0
    BY <1>1 DEF PrepSegment
  <2>3. QED
    BY <2>1, <2>2 DEF PreparedIsQueued
<1>2. CASE PrepEndOfBlock
  BY <1>2, Zenon DEF PrepEndOfBlock, PrepTurn, PreparedIsQueued
<1>3. CASE PrepRest
  <2>1. blocks' > 0
    BY <1>0, <1>3 DEF PrepRest, PrepTurn, TypeOK
  <2>2. left' > 0
    BY <1>3 DEF PrepRest
  <2>3. QED
    BY <2>1, <2>2 DEF PreparedIsQueued
<1>4. QED
  BY <1>1, <1>2, <1>3

\* Every step keeps it.
LEMMA PreparedStep == ASSUME IInv, [Next]_vars PROVE PreparedIsQueued'
<1>0. TypeOK /\ blocks \in Nat
  BY DEF IInv, TypeOK
<1> USE DEF motion, stepgen
<1>1. CASE UNCHANGED vars
  BY <1>0, <1>1, PreparedKept DEF vars
<1>2. CASE Interrupt
  BY <1>0, <1>2, PreparedKept DEF Interrupt, InterruptSegment, InterruptEmpty
<1>3. CASE Environment \/ DelayEnds
  BY <1>0, <1>3, PreparedKept
     DEF Environment, DoorMoves, AbortPinMoves, LimitMoves, DelayEnds
<1>4. CASE ResetBegin
  BY <1>4, Zenon DEF ResetBegin, PreparedIsQueued
<1>5. CASE ResetEnd
  BY <1>0, <1>5, PreparedKept DEF ResetEnd
<1>6. CASE Protocol
  <2>1. CASE Serial \/ LineArrives \/ LineProceeds \/ LineUnlock \/ LineWaits
    BY <1>0, <2>1, PreparedKept DEF Serial, LineArrives, LineProceeds, LineUnlock, LineWaits
  <2>2. CASE LineMotion \/ LineArc
    BY <1>0, <2>2, PreparedKept DEF LineMotion, LineArc, QueueLine
  <2>3. CASE LineJog
    BY <1>0, <2>3, PreparedKept DEF LineJog, QueueLine
  <2>4. CASE LineProbe
    BY <1>0, <2>4, PreparedKept DEF LineProbe, QueueLine
  <2>5. QED
    BY <1>6, <2>1, <2>2, <2>3, <2>4 DEF Protocol
<1>7. CASE Limits
  BY <1>7, PreparedReset DEF Limits
<1>8. CASE Hold
  BY <1>8, PreparedReset DEF Hold
<1>9. CASE CycleStop
  BY <1>9, PreparedReset DEF CycleStop
<1>10. CASE Abort
  BY <1>10, PreparedReset DEF Abort
<1>11. CASE Probe
  BY <1>11, PreparedReset DEF Probe
<1>12. CASE PrepSegment \/ PrepEndOfBlock \/ PrepRest
  BY <1>12, PreparedPrep
<1>13. CASE PrepDone
  BY <1>0, <1>13, PreparedKept DEF PrepDone
<1>14. CASE ExecAlarm \/ CycleStart \/ ProbeStart \/ ClearAlarm \/ Override \/ MainPrep
  BY <1>14, PreparedReset DEF ExecAlarm, CycleStart, ProbeStart, ClearAlarm, Override, MainPrep
<1>15. CASE Machine \/ StepperEnable \/ ControlPins
  BY <1>15, PreparedReset DEF Machine, StepperEnable, ControlPins
<1>16. CASE ArcGenerator
  BY <1>0, <1>16, PreparedKept DEF ArcGenerator, QueueLine
<1>17. QED
  BY <1>1, <1>2, <1>3, <1>4, <1>5, <1>6, <1>7, <1>8, <1>9, <1>10, <1>11, <1>12, <1>13,
     <1>14, <1>15, <1>16 DEF Next, MainLoop

-----------------------------------------------------------------------------
\* The types and what is prepared, together, in every reachable state.
THEOREM IInvHolds == Spec => []IInv
<1>1. IInv /\ [Next]_vars => IInv'
  BY TypeStep, PreparedStep DEF IInv
<1>2. QED
  BY InitIInv, <1>1, PTL DEF Spec

\* No flag word ever holds an unknown flag and neither buffer overruns or
\* underruns its room, for every size of the buffers.
THEOREM TypeCorrect == Spec => []TypeOK
BY IInvHolds, PTL DEF IInv

\* The step generator never holds on to a block the planner has dropped.
THEOREM PreparedBlockIsQueued == Spec => []PreparedIsQueued
BY IInvHolds, PTL DEF IInv


-----------------------------------------------------------------------------
(* Holds and doors, while no alarm is raised and no reset asked for.        *)

\* No alarm is pending, no soft reset is asked for or under way.
Undisturbed == ~alarm /\ ~resetting /\ phase \notin {"reset", "reset_end"}

\* The steps of a pass that execute the flags of its snapshot.
Handling == {"hold", "start", "probe_start", "stop"}

\* The same, with the preparation of a motion they start.
InHandling == phase \in Handling \/ (phase = "prep" /\ after \in Handling)

\* Without an alarm there is none to be cleared, and no restart to be done.
NotLocked == state # "ALARM" /\ sm # "init" /\ "CLEAR_ALARM" \notin exec \cup rt

\* In IDLE nothing moves, nothing is suspended and no stop or cancel is pending.
IdleIsQuiet ==
    state = "IDLE" =>
        /\ ~running /\ suspend = {}
        /\ "MOTION_CANCEL" \notin exec /\ "CYCLE_STOP" \notin exec

\* A stop that is pending is that of a stepper still at rest.
StopIsOfRest == "CYCLE_STOP" \in exec => ~running

\* A completed hold is a state of rest, in which nothing is left to be stopped.
HoldIsOver ==
    "HOLD_COMPLETE" \in suspend =>
        /\ state \in {"HOLD", "SAFETY_DOOR"} /\ ~running
        /\ "JOG_CANCEL" \notin suspend
        /\ "MOTION_CANCEL" \notin exec /\ "CYCLE_STOP" \notin exec

\* The stepper is about to be woken: it rests, and no old bit is left.
StartIsClean ==
    wake =>
        /\ phase = "prep" /\ state \in {"CYCLE", "JOG"} /\ suspend = {}
        /\ ~running /\ "CYCLE_STOP" \notin exec

\* What the pass read is still pending until its handler has cleared it; after
\* the hold handler a stop that was read leaves no cancel behind.
SnapshotHolds ==
    /\ after # "hold"
    /\ phase = "hold" => rt \cap HoldFlags # {} /\ rt \cap HoldFlags \subseteq exec
    /\ InHandling /\ "CYCLE_STOP" \in rt =>
         "CYCLE_STOP" \in exec /\ (phase # "hold" => "MOTION_CANCEL" \notin exec)

\* The door procedure belongs to a completed stop in SAFETY_DOOR; the spindle is
\* turned on again only once the door is no longer ajar.
DoorProcedure ==
    /\ (\/ "RETRACT_COMPLETE" \in suspend
        \/ "INITIATE_RESTORE" \in suspend
        \/ "RESTORE_COMPLETE" \in suspend)
         => state = "SAFETY_DOOR" /\ "HOLD_COMPLETE" \in suspend
    /\ "INITIATE_RESTORE" \in suspend => "SAFETY_DOOR_AJAR" \notin suspend
    /\ "RETRACT_COMPLETE" \in suspend => "INITIATE_RESTORE" \in suspend \/ ~spindle

\* The invariant of an undisturbed machine.
HoldInv ==
    /\ NotLocked /\ IdleIsQuiet /\ StopIsOfRest /\ HoldIsOver
    /\ StartIsClean /\ SnapshotHolds /\ DoorProcedure

\* HoldInv holds at the start.
LEMMA InitHoldInv == Init => HoldInv
BY DEF Init, HoldInv, NotLocked, IdleIsQuiet, StopIsOfRest, HoldIsOver, StartIsClean,
   SnapshotHolds, DoorProcedure, InHandling, Handling

\* The environment and the steps that only move on.
LEMMA PassiveKeepsHold ==
    ASSUME TypeOK, HoldInv, Undisturbed',
           \/ Environment \/ DelayEnds \/ LineArrives \/ LineProceeds \/ LineWaits
           \/ LineMotion \/ LineArc \/ ArcGenerator \/ StepperEnable \/ Override
    PROVE  HoldInv'
<1> USE DEF HoldInv, NotLocked, IdleIsQuiet, StopIsOfRest, HoldIsOver, StartIsClean,
            SnapshotHolds, DoorProcedure, InHandling, Handling, Has,
            flags, sys, machine, motion, stepgen, probe, outputs, pins, host, loop, prepSub
<1>1. CASE Environment \/ DelayEnds
  BY <1>1 DEF Environment, DoorMoves, AbortPinMoves, LimitMoves, DelayEnds
<1>2. CASE LineArrives \/ LineProceeds \/ LineWaits
  BY <1>2 DEF LineArrives, LineProceeds, LineWaits
<1>3. CASE LineMotion \/ LineArc \/ ArcGenerator
  BY <1>3 DEF LineMotion, LineArc, ArcGenerator, Executes
<1>4. CASE StepperEnable
  BY <1>4 DEF StepperEnable
<1>5. CASE Override
  BY <1>5 DEF Override
<1>6. QED
  BY <1>1, <1>2, <1>3, <1>4, <1>5

\* The interrupt, the host's characters and the lines that ask for something.
LEMMA AsksKeepHold ==
    ASSUME TypeOK, HoldInv, Undisturbed, Undisturbed',
           \/ Interrupt \/ Serial \/ LineJog \/ LineUnlock \/ LineProbe \/ ControlPins
           \/ ResetBegin \/ ResetEnd
    PROVE  HoldInv'
<1> USE DEF HoldInv, NotLocked, IdleIsQuiet, StopIsOfRest, HoldIsOver, StartIsClean,
            SnapshotHolds, DoorProcedure, InHandling, Handling, Has,
            flags, sys, machine, motion, stepgen, probe, outputs, pins, host, loop, prepSub
<1>1. CASE InterruptSegment
  BY <1>1 DEF InterruptSegment, TypeOK
<1>2. CASE InterruptEmpty
  BY <1>2 DEF InterruptEmpty, TypeOK
<1>3. CASE Serial
  BY <1>3 DEF Serial, CommandFlag
<1>4. CASE LineJog
  BY <1>4 DEF LineJog, Executes, TypeOK
<1>5. CASE LineUnlock
  BY <1>5 DEF LineUnlock, Executes
<1>6. CASE LineProbe
  BY <1>6 DEF LineProbe, Executes
<1>7. CASE ControlPins
  BY <1>7 DEF ControlPins
<1>8. CASE ResetBegin \/ ResetEnd
  BY <1>8 DEF ResetBegin, ResetEnd, Undisturbed
<1>9. QED
  BY <1>1, <1>2, <1>3, <1>4, <1>5, <1>6, <1>7, <1>8 DEF Interrupt

\* The snapshot and the handlers of its flags.
LEMMA HandlersKeepHold ==
    ASSUME TypeOK, HoldInv, Undisturbed, Undisturbed',
           \/ Limits \/ ExecAlarm \/ Hold \/ CycleStart \/ ProbeStart \/ CycleStop
           \/ Abort \/ ClearAlarm
    PROVE  HoldInv'
<1> USE DEF HoldInv, NotLocked, IdleIsQuiet, StopIsOfRest, HoldIsOver, StartIsClean,
            SnapshotHolds, DoorProcedure, InHandling, Handling, Has,
            flags, sys, machine, motion, stepgen, probe, outputs, pins, host, loop, prepSub
<1>1. CASE Limits
  BY <1>1 DEF Limits, Undisturbed
<1>2. CASE ExecAlarm
  BY <1>2 DEF ExecAlarm, Undisturbed, HoldFlags
<1>3. CASE Hold
  BY <1>3 DEF Hold, Clear, MustDecelerate, HoldsAtOnce, UpdatePlanBlock, HoldFlags, TypeOK, States
<1>4. CASE CycleStart
  BY <1>4 DEF CycleStart, Clear, CanStart, DoorClosed, BeginCycle, SuspendBroken
<1>5. CASE ProbeStart
  BY <1>5 DEF ProbeStart, Clear, BeginCycle, SuspendBroken, TypeOK
<1>6. CASE CycleStop
  BY <1>6 DEF CycleStop, Clear, StopCompletesHold, StoppedState, UpdatePlanBlock, ResetMotion
<1>7. CASE Abort
  BY <1>7 DEF Abort, Undisturbed, Clear
<1>8. CASE ClearAlarm
  BY <1>8 DEF ClearAlarm, Clear
<1>9. QED
  BY <1>1, <1>2, <1>3, <1>4, <1>5, <1>6, <1>7, <1>8

\* The step generator, the suspend state machine and the end of a probing cycle.
LEMMA MachineKeepsHold ==
    ASSUME TypeOK, HoldInv, Undisturbed, Undisturbed',
           \/ PrepSegment \/ PrepEndOfBlock \/ PrepRest \/ PrepDone \/ MainPrep \/ Machine
           \/ Probe
    PROVE  HoldInv'
<1> USE DEF HoldInv, NotLocked, IdleIsQuiet, StopIsOfRest, HoldIsOver, StartIsClean,
            SnapshotHolds, DoorProcedure, InHandling, Handling, Has,
            flags, sys, machine, motion, stepgen, probe, outputs, pins, host, loop, prepSub
<1>1. CASE PrepSegment \/ PrepEndOfBlock \/ PrepRest
  BY <1>1 DEF PrepSegment, PrepEndOfBlock, PrepRest, PrepTurn
<1>2. CASE PrepDone
  BY <1>2 DEF PrepDone
<1>3. CASE MainPrep
  BY <1>3 DEF MainPrep
<1>4. CASE Machine /\ ~MachineSuspend
  BY <1>4 DEF Machine, MachineInit, MachineIdle, MachineDelay
<1>5. CASE Machine /\ MachineSuspend
  <2>1. CASE ~Has("HOLD_COMPLETE")
    BY <1>5, <2>1 DEF Machine, MachineSuspend
  <2>2. CASE Has("HOLD_COMPLETE") /\ state = "SAFETY_DOOR"
    <3>1. /\ phase = "machine" /\ phase' = "enable" /\ state' = state /\ running' = running
          /\ rt' = rt /\ after' = after /\ wake' = wake /\ sm' # "init"
          /\ exec' \in {exec, exec \cup {"CYCLE_START"}}
      BY <1>5, <2>2 DEF Machine, MachineSuspend, SuspendDoor
    <3>2. /\ "HOLD_COMPLETE" \in suspend'
          /\ "JOG_CANCEL" \notin suspend'
          /\ "INITIATE_RESTORE" \in suspend' => "SAFETY_DOOR_AJAR" \notin suspend'
      BY <1>5, <2>2 DEF MachineSuspend, SuspendDoor
    <3>3. "RETRACT_COMPLETE" \in suspend' => "INITIATE_RESTORE" \in suspend' \/ ~spindle'
      BY <1>5, <2>2 DEF MachineSuspend, SuspendDoor, DoorCloses, Retracted
    <3>4. QED
      BY <2>2, <3>1, <3>2, <3>3
  <2>3. CASE Has("HOLD_COMPLETE") /\ state # "SAFETY_DOOR"
    BY <1>5, <2>3 DEF Machine, MachineSuspend, SuspendHold
  <2>4. QED
    BY <2>1, <2>2, <2>3
<1>6. CASE Probe
  BY <1>6 DEF Probe, ResetMotion, Undisturbed
<1>7. QED
  BY <1>1, <1>2, <1>3, <1>4, <1>5, <1>6

\* Every step that leaves the machine undisturbed keeps the invariant.
LEMMA HoldStep ==
    ASSUME IInv, HoldInv, Undisturbed, Undisturbed', [Next]_vars PROVE HoldInv'
<1>0. TypeOK
  BY DEF IInv
<1>1. CASE UNCHANGED vars
  BY <1>1 DEF vars, flags, sys, machine, motion, stepgen, probe, outputs, pins, host, loop,
     prepSub, HoldInv, NotLocked, IdleIsQuiet, StopIsOfRest, HoldIsOver, StartIsClean,
     SnapshotHolds, DoorProcedure, InHandling
<1>2. CASE Next
  BY <1>0, <1>2, PassiveKeepsHold, AsksKeepHold, HandlersKeepHold, MachineKeepsHold
     DEF Next, MainLoop, Protocol
<1>3. QED
  BY <1>1, <1>2

\* What the invariant says of the properties.
LEMMA HoldInvImplies ==
    ASSUME TypeOK, HoldInv PROVE HoldIsAtRest /\ OpenDoorIsSecured /\ MotionHasAState
BY DEF HoldInv, NotLocked, IdleIsQuiet, HoldIsOver, DoorProcedure, Has, TypeOK, States,
   HoldIsAtRest, OpenDoorIsSecured, MotionHasAState

\* The steppers are started by the end of a preparation alone.
LEMMA StartStep ==
    ASSUME HoldInv, Undisturbed, [Next]_vars, ~running, running'
    PROVE  state' \in {"CYCLE", "JOG"} /\ suspend' = {}
<1>1. PrepDone
  BY DEF Next, MainLoop, Protocol, Interrupt, Environment, vars, motion, stepgen,
     InterruptSegment, InterruptEmpty, DoorMoves, AbortPinMoves, LimitMoves, DelayEnds,
     ResetBegin, ResetEnd, Serial, LineArrives, LineProceeds, LineMotion, LineArc, LineJog,
     LineUnlock, LineProbe, LineWaits, ArcGenerator, Limits, ExecAlarm, Hold, CycleStart,
     ProbeStart, PrepSegment, PrepEndOfBlock, PrepRest, PrepTurn, CycleStop, Abort, ClearAlarm,
     Override, MainPrep, Machine, StepperEnable, ControlPins, Probe, UpdatePlanBlock,
     ResetMotion
<1>2. QED
  BY <1>1 DEF PrepDone, HoldInv, StartIsClean, sys

\* The invariant in every undisturbed behaviour.
LEMMA UndisturbedHoldInv == Spec /\ []Undisturbed => []HoldInv
<1>1. IInv /\ HoldInv /\ Undisturbed /\ Undisturbed' /\ [Next]_vars => HoldInv'
  BY HoldStep
<1>2. QED
  BY InitHoldInv, IInvHolds, <1>1, PTL DEF Spec

\* In a behaviour without alarm and soft reset, a hold that says it is complete
\* is at rest (system.c:492-499).
THEOREM HoldRests == Spec /\ []Undisturbed => []HoldIsAtRest
<1>1. IInv /\ HoldInv => HoldIsAtRest
  BY HoldInvImplies DEF IInv
<1>2. QED
  BY UndisturbedHoldInv, IInvHolds, <1>1, PTL

\* In such a behaviour neither steppers nor spindle turn behind an open door
\* once the machine is secured (system.c:640-700).
THEOREM DoorSecures == Spec /\ []Undisturbed => []OpenDoorIsSecured
<1>1. IInv /\ HoldInv => OpenDoorIsSecured
  BY HoldInvImplies DEF IInv
<1>2. QED
  BY UndisturbedHoldInv, IInvHolds, <1>1, PTL

\* In such a behaviour every motion starts as a cycle or a jog, free of the
\* suspend flags of the motion before (system.c:428-440, jog.c:40-44).
THEOREM MotionsStartClean == Spec /\ []Undisturbed => MotionStartsClean
<1>1. HoldInv /\ Undisturbed /\ [Next]_vars
        => [~running /\ running' => state' \in {"CYCLE", "JOG"} /\ suspend' = {}]_vars
  BY StartStep
<1>2. QED
  BY UndisturbedHoldInv, <1>1, PTL DEF Spec, MotionStartsClean

\* Inputs that raise no alarm and ask for no reset: the door, holds, jogs, motions.
QuietInputs ==
    "reset" \notin Commands /\ "probe" \notin Lines /\ Events \subseteq {"door"}

\* Nothing that could raise an alarm is pending or pressed.
QuietInv ==
    /\ Undisturbed
    /\ "ABORT" \notin exec /\ "ABORT" \notin rt
    /\ ~abortPin /\ ~abortLast /\ ~limit /\ ~probing
    /\ line # "probe" /\ after \notin {"reset", "reset_end"}

\* With quiet inputs no step disturbs.
LEMMA QuietStep == ASSUME QuietInputs, TypeOK, QuietInv, [Next]_vars PROVE QuietInv'
<1> USE DEF QuietInv, Undisturbed, QuietInputs, TypeOK, flags, sys, machine, motion, stepgen,
            probe, outputs, pins, host, loop, prepSub
<1>1. CASE UNCHANGED vars
  BY <1>1 DEF vars
<1>2. CASE Interrupt \/ Environment \/ DelayEnds
  BY <1>2 DEF Interrupt, InterruptSegment, InterruptEmpty, Environment, DoorMoves,
              AbortPinMoves, LimitMoves, DelayEnds
<1>3. CASE ResetBegin \/ ResetEnd \/ Serial
  BY <1>3 DEF ResetBegin, ResetEnd, Serial, CommandFlag
<1>4. CASE LineArrives \/ LineProceeds \/ LineWaits \/ LineUnlock
  BY <1>4 DEF LineArrives, LineProceeds, LineWaits, LineUnlock, Executes
<1>5. CASE LineMotion \/ LineArc \/ LineJog \/ LineProbe \/ ArcGenerator
  BY <1>5 DEF LineMotion, LineArc, LineJog, LineProbe, ArcGenerator, Executes
<1>6. CASE Limits \/ ExecAlarm \/ Hold \/ CycleStart \/ ProbeStart
  BY <1>6 DEF Limits, ExecAlarm, Hold, CycleStart, ProbeStart, BeginCycle, Clear
<1>7. CASE PrepSegment \/ PrepEndOfBlock \/ PrepRest
  BY <1>7 DEF PrepSegment, PrepEndOfBlock, PrepRest, PrepTurn
<1>8. CASE CycleStop \/ Abort \/ ClearAlarm \/ Override \/ MainPrep
  BY <1>8 DEF CycleStop, Abort, ClearAlarm, Override, MainPrep, Clear
<1>9. CASE Machine
  BY <1>9 DEF Machine, MachineInit, MachineIdle, MachineSuspend, MachineDelay, SuspendDoor,
              SuspendHold
<1>10. CASE StepperEnable \/ ControlPins \/ Probe \/ PrepDone
  BY <1>10 DEF StepperEnable, ControlPins, Probe, ProbeCycleEnds, AbortEdge, PrepDone
<1>11. QED
  BY <1>1, <1>2, <1>3, <1>4, <1>5, <1>6, <1>7, <1>8, <1>9, <1>10
     DEF Next, MainLoop, Protocol

\* With such inputs the machine is never disturbed, so that the three theorems
\* above hold of all its behaviours.
THEOREM QuietInputsDoNotDisturb ==
    ASSUME QuietInputs
    PROVE  Spec => []HoldIsAtRest /\ []OpenDoorIsSecured /\ MotionStartsClean
<1>1. Init => QuietInv
  BY DEF Init, QuietInv, Undisturbed
<1>2. IInv /\ QuietInv /\ [Next]_vars => QuietInv'
  BY QuietStep DEF IInv
<1>3. QuietInv => Undisturbed
  BY DEF QuietInv
<1>4. Spec => []Undisturbed
  BY IInvHolds, <1>1, <1>2, <1>3, PTL DEF Spec
<1>5. QED
  BY <1>4, HoldRests, DoorSecures, MotionsStartClean, PTL

-----------------------------------------------------------------------------
(* The emergency stop and the alarm, while no door flag is raised.          *)

\* The safety door is not reported, by its pin or by the host.
DoorUnused == "SAFETY_DOOR" \notin exec

\* Then no state of the door is entered, and a stop does not look for one.
DoorFree ==
    /\ "SAFETY_DOOR" \notin exec /\ "SAFETY_DOOR" \notin rt
    /\ state # "SAFETY_DOOR" /\ "SAFETY_DOOR_AJAR" \notin suspend

\* The invariant: the lock of the emergency stop, and the door out of play.
LockInv == DoorFree /\ EmergencyStopLocks

\* Every step that raises no door flag keeps the lock, and leaves ALARM only
\* where $X is executed.
LEMMA LockStep ==
    ASSUME TypeOK, LockInv, DoorUnused', [Next]_vars
    PROVE  /\ LockInv'
           /\ state = "ALARM" /\ state' # "ALARM" => phase = "unlock"
<1> USE DEF LockInv, DoorFree, DoorUnused, EmergencyStopLocks, Has, TypeOK,
            flags, sys, machine, motion, stepgen, probe, outputs, pins, host, loop, prepSub
<1>1. CASE UNCHANGED vars
  BY <1>1 DEF vars
<1>2. CASE Interrupt \/ Environment \/ DelayEnds
  BY <1>2 DEF Interrupt, InterruptSegment, InterruptEmpty, Environment, DoorMoves,
              AbortPinMoves, LimitMoves, DelayEnds
<1>3. CASE ResetBegin \/ ResetEnd \/ Serial
  BY <1>3 DEF ResetBegin, ResetEnd, Serial, CommandFlag
<1>4. CASE LineArrives \/ LineProceeds \/ LineWaits \/ LineUnlock
  BY <1>4 DEF LineArrives, LineProceeds, LineWaits, LineUnlock
<1>5. CASE LineMotion \/ LineArc \/ LineJog \/ LineProbe \/ ArcGenerator
  BY <1>5 DEF LineMotion, LineArc, LineJog, LineProbe, ArcGenerator, JogAllowed
<1>6. CASE Limits \/ ExecAlarm
  BY <1>6 DEF Limits, ExecAlarm
<1>7. CASE Hold
  BY <1>7 DEF Hold, MustDecelerate, HoldsAtOnce, Clear, HoldFlags
<1>8. CASE CycleStart \/ ProbeStart
  BY <1>8 DEF CycleStart, ProbeStart, CanStart, DoorClosed, BeginCycle, SuspendBroken, Clear
<1>9. CASE PrepSegment \/ PrepEndOfBlock \/ PrepRest \/ PrepDone
  BY <1>9 DEF PrepSegment, PrepEndOfBlock, PrepRest, PrepTurn, PrepDone
<1>10. CASE CycleStop
  BY <1>10 DEF CycleStop, StopCompletesHold, StoppedState, Clear
<1>11. CASE Abort \/ ClearAlarm \/ Override \/ MainPrep
  BY <1>11 DEF Abort, ClearAlarm, Override, MainPrep, Clear
<1>12. CASE Machine
  <2>1. CASE MachineInit \/ MachineIdle \/ MachineDelay
    BY <1>12, <2>1 DEF Machine, MachineInit, MachineIdle, MachineDelay
  <2>2. CASE MachineSuspend
    BY <1>12, <2>2 DEF Machine, MachineSuspend, SuspendDoor, SuspendHold
  <2>3. QED
    BY <1>12, <2>1, <2>2 DEF Machine
<1>13. CASE StepperEnable \/ ControlPins \/ Probe
  <2>1. CASE StepperEnable \/ Probe
    <3>1. estop' => estop \/ abortLast
      BY <2>1, Zenon DEF StepperEnable, Probe, outputs
    <3>2. alarm' \/ ~alarm
      BY <2>1, Zenon DEF StepperEnable, Probe, flags
    <3>3. DoorFree' /\ exec' = exec /\ state' = state /\ abortLast' = abortLast
      BY <2>1 DEF StepperEnable, Probe
    <3>4. QED
      BY <3>1, <3>2, <3>3
  <2>2. CASE ControlPins
    <3>1. abortLast /\ ~abortLast' => "ABORT" \in exec'
      BY <2>2, Zenon DEF ControlPins, AbortEdge
    <3>2. exec \subseteq exec' /\ DoorFree'
      BY <2>2 DEF ControlPins
    <3>3. state' = state /\ estop' = estop /\ alarm' = alarm
      BY <2>2 DEF ControlPins
    <3>4. QED
      BY <3>1, <3>2, <3>3
  <2>3. QED
    BY <1>13, <2>1, <2>2
<1>14. QED
  BY <1>1, <1>2, <1>3, <1>4, <1>5, <1>6, <1>7, <1>8, <1>9, <1>10, <1>11, <1>12, <1>13
     DEF Next, MainLoop, Protocol

\* The invariant in every behaviour without a door flag.
LEMMA DoorUnusedLockInv == Spec /\ []DoorUnused => []LockInv
<1>1. Init => LockInv
  BY DEF Init, LockInv, DoorFree, EmergencyStopLocks
<1>2. IInv /\ LockInv /\ DoorUnused' /\ [Next]_vars => LockInv'
  BY LockStep DEF IInv
<1>3. QED
  BY IInvHolds, <1>1, <1>2, PTL DEF Spec

\* Unless the safety door is reported, a latched emergency stop keeps the machine
\* locked: no handler returns it to a state of motion before $X.
THEOREM StopLocks == Spec /\ []DoorUnused => []EmergencyStopLocks
<1>1. LockInv => EmergencyStopLocks
  BY DEF LockInv
<1>2. QED
  BY DoorUnusedLockInv, <1>1, PTL

\* Unless the safety door is reported, ALARM is left by $X alone (system.c:93-94),
\* whatever stops, limits, probes and resets come in between.
THEOREM AlarmStays == Spec /\ []DoorUnused => AlarmIsKilledByUnlockOnly
<1>1. IInv /\ LockInv /\ DoorUnused' /\ [Next]_vars
        => [state = "ALARM" /\ state' # "ALARM" => phase = "unlock"]_vars
  BY LockStep DEF IInv
<1>2. QED
  BY IInvHolds, DoorUnusedLockInv, <1>1, PTL DEF Spec, AlarmIsKilledByUnlockOnly

\* A machine without a safety door, or one whose door stays closed.
NoDoor == "safety_door" \notin Commands /\ "door" \notin Events

\* Its pin is never polled open, so that its flag is never raised.
DoorShut == ~door /\ DoorUnused

\* Without door inputs no step reports a door.
LEMMA DoorShutStep == ASSUME NoDoor, TypeOK, DoorShut, [Next]_vars PROVE DoorShut'
<1> USE DEF NoDoor, DoorShut, DoorUnused, flags, sys, machine, motion, stepgen, probe, outputs,
            pins, host, loop, prepSub
<1>1. CASE UNCHANGED vars
  BY <1>1 DEF vars
<1>2. CASE Interrupt \/ Environment \/ DelayEnds
  BY <1>2 DEF Interrupt, InterruptSegment, InterruptEmpty, Environment, DoorMoves,
              AbortPinMoves, LimitMoves, DelayEnds
<1>3. CASE ResetBegin \/ ResetEnd \/ Serial
  BY <1>3, InputsAssumption DEF ResetBegin, ResetEnd, Serial, CommandFlag, AllCommands
<1>4. CASE Protocol /\ ~Serial
  BY <1>4 DEF Protocol, LineArrives, LineProceeds, LineWaits, LineUnlock, LineMotion, LineArc,
              LineJog, LineProbe
<1>5. CASE ArcGenerator \/ Limits \/ ExecAlarm \/ Hold \/ CycleStart \/ ProbeStart
  BY <1>5 DEF ArcGenerator, Limits, ExecAlarm, Hold, CycleStart, ProbeStart, Clear
<1>6. CASE PrepSegment \/ PrepEndOfBlock \/ PrepRest \/ PrepDone
  BY <1>6 DEF PrepSegment, PrepEndOfBlock, PrepRest, PrepTurn, PrepDone
<1>7. CASE CycleStop \/ Abort \/ ClearAlarm \/ Override \/ MainPrep
  BY <1>7 DEF CycleStop, Abort, ClearAlarm, Override, MainPrep, Clear
<1>8. CASE Machine
  BY <1>8 DEF Machine, MachineInit, MachineIdle, MachineSuspend, MachineDelay, SuspendDoor,
              SuspendHold
<1>9. CASE StepperEnable \/ ControlPins \/ Probe
  <2>1. CASE StepperEnable \/ Probe
    <3>1. door' = door /\ exec' = exec
      BY <2>1, Zenon DEF StepperEnable, Probe
    <3>2. QED
      BY <3>1
  <2>2. CASE ControlPins
    BY <2>2 DEF ControlPins
  <2>3. QED
    BY <1>9, <2>1, <2>2
<1>10. QED
  BY <1>1, <1>2, <1>3, <1>4, <1>5, <1>6, <1>7, <1>8, <1>9 DEF Next, MainLoop

\* Without a door the two theorems above hold of all behaviours of the machine.
THEOREM NoDoorStopLocks ==
    ASSUME NoDoor PROVE Spec => []EmergencyStopLocks /\ AlarmIsKilledByUnlockOnly
<1>1. Init => DoorShut
  BY DEF Init, DoorShut, DoorUnused
<1>2. IInv /\ DoorShut /\ [Next]_vars => DoorShut'
  BY DoorShutStep DEF IInv
<1>3. DoorShut => DoorUnused
  BY DEF DoorShut
<1>4. Spec => []DoorUnused
  BY IInvHolds, <1>1, <1>2, <1>3, PTL DEF Spec
<1>5. QED
  BY <1>4, StopLocks, AlarmStays, PTL

-----------------------------------------------------------------------------
(* Motion and its state, while no jog is executed behind a pending alarm.   *)

\* The states that move the steppers.
Moving == {"CYCLE", "JOG", "HOLD", "SAFETY_DOOR"}

\* The steppers move, or are about to, in these states and with no alarm pending.
MovesInState == running \/ wake => state \in Moving /\ ~alarm

\* A stop that is pending is that of a stepper that rests, and is about to rest on.
StopAtRest == "CYCLE_STOP" \in exec => ~running /\ ~wake

\* Only a stepper at rest is woken, for a cycle or a jog.
WakesAtRest == wake => phase = "prep" /\ ~running /\ state \in {"CYCLE", "JOG"}

\* In IDLE the motion before is over: no cancel and, but for an alarm, no stop of
\* it is pending.
IdleIsOver ==
    state = "IDLE" =>
        /\ "MOTION_CANCEL" \notin exec /\ "MOTION_CANCEL" \notin suspend
        /\ alarm \/ "CYCLE_STOP" \notin exec

\* In a hold the stepper runs only to decelerate, and rests once it is complete.
HoldStops ==
    state \in {"HOLD", "SAFETY_DOOR"} =>
        /\ "HOLD_COMPLETE" \in suspend =>
             /\ ~running /\ "MOTION_CANCEL" \notin exec
             /\ alarm \/ "CYCLE_STOP" \notin exec
        /\ running /\ phase # "reset_end" => "EXECUTE_HOLD" \in step_control

\* Only a complete hold is restored.
RestoredIsHeld == "RESTORE_COMPLETE" \in suspend => "HOLD_COMPLETE" \in suspend

\* A cycle is suspended by a motion cancel alone, and then decelerates.
CycleIsClean ==
    state = "CYCLE" =>
        /\ suspend \subseteq {"MOTION_CANCEL"}
        /\ "MOTION_CANCEL" \in suspend => "EXECUTE_HOLD" \in step_control

\* A motion is cancelled for a probing cycle only, and never a jog.
CancelIsOfProbe == "MOTION_CANCEL" \in suspend => probing /\ state \notin {"IDLE", "JOG"}

\* While a probing cycle or an arc goes on no other line is executed; a line of
\* g-code is not received in a jog, and a jog not behind it.
LinesExclude ==
    /\ probing \/ arc > 0 => lineSm = "after_command_executer"
    /\ monitor => probing
    /\ lineSm \in {"pre_sync_check", "wait_pre_sync", "g_wait", "after_command_executer"}
         => state # "JOG"
    /\ lineSm = "g_wait" /\ line = "probe" => ~running /\ ~wake /\ blocks = 0

\* A cancel that is pending is that of a probe, or of a jog in the same pass.
CancelIsRead ==
    "MOTION_CANCEL" \in exec =>
        \/ probing
        \/ phase \in {"line", "arc", "limits", "exec", "hold"} /\ state \in {"JOG", "ALARM"}

\* The state leaves no room for motion: ALARM, or IDLE to come after a reset.
Locked ==
    \/ state = "ALARM"
    \/ sm = "init" /\ phase \notin {"reset_end", "serial", "line", "arc", "limits", "exec"}

\* What a pass has read is pending until it is handled, and in a locked machine
\* nothing else is.
PassReads ==
    /\ after \in {"serial", "arc", "probe_start", "stop", "machine"}
    /\ phase = "hold" => rt \cap HoldFlags # {} /\ rt \cap HoldFlags \subseteq exec
    /\ InHandling =>
         /\ ~alarm
         /\ "CYCLE_STOP" \in rt =>
              "CYCLE_STOP" \in exec /\ (phase # "hold" => "MOTION_CANCEL" \notin exec)
    /\ Locked =>
         /\ "MOTION_CANCEL" \in exec => phase = "hold"
         /\ "CYCLE_STOP" \in exec => InHandling /\ "CYCLE_STOP" \in rt

\* $X is asked for in ALARM and executed in the same pass.
UnlockIsRead ==
    /\ "CLEAR_ALARM" \in exec =>
         /\ ~probing
         /\ \/ phase \in {"arc", "limits", "exec"}
            \/ phase \in {"abort", "unlock"} \cup Handling /\ "CLEAR_ALARM" \in rt
         /\ \/ state = "ALARM"
            \/ phase \in {"abort", "unlock"} /\ state = "SAFETY_DOOR"
               /\ "HOLD_COMPLETE" \in suspend
    /\ "CLEAR_ALARM" \in rt /\ (InHandling \/ phase \in {"abort", "unlock"})
         => "CLEAR_ALARM" \in exec

\* Between a reset and the first look at the machine nothing is queued or moves.
ResetIsAtRest ==
    sm = "init" =>
        /\ phase \notin {"reset", "enable", "pins", "probe"}
        /\ phase # "reset_end" => ~running
        /\ ~wake /\ blocks = 0 /\ arc = 0 /\ ~probing
        /\ phase \in {"reset_end", "serial", "line"} => lineSm = "processing_chars"
        /\ phase = "prep" => after = "machine"

MotionInv ==
    /\ MovesInState /\ StopAtRest /\ WakesAtRest /\ IdleIsOver /\ HoldStops
    /\ RestoredIsHeld /\ CycleIsClean /\ CancelIsOfProbe /\ LinesExclude /\ CancelIsRead
    /\ PassReads /\ UnlockIsRead /\ ResetIsAtRest

\* MotionInv holds at the start.
LEMMA InitMotionInv == Init => MotionInv
BY DEF Init, MotionInv, MovesInState, StopAtRest, WakesAtRest, IdleIsOver, HoldStops,
   RestoredIsHeld, CycleIsClean, CancelIsOfProbe, LinesExclude, CancelIsRead, PassReads,
   UnlockIsRead, ResetIsAtRest, Locked, InHandling, Handling, Moving

\* The interrupt, the environment and the characters of the host.
LEMMA AsksKeepMotion ==
    ASSUME TypeOK, MotionInv, Interrupt \/ Environment \/ DelayEnds \/ Serial PROVE MotionInv'
<1> USE DEF MotionInv, MovesInState, StopAtRest, WakesAtRest, IdleIsOver, HoldStops,
            RestoredIsHeld, CycleIsClean, CancelIsOfProbe, LinesExclude, CancelIsRead, PassReads,
            UnlockIsRead, ResetIsAtRest, Locked, InHandling, Handling, Moving, Has, TypeOK,
            flags, sys, machine, motion, stepgen, probe, outputs, pins, host, loop, prepSub
<1>1. CASE InterruptSegment
  BY <1>1 DEF InterruptSegment
<1>2. CASE InterruptEmpty
  BY <1>2 DEF InterruptEmpty
<1>3. CASE Environment \/ DelayEnds
  BY <1>3 DEF Environment, DoorMoves, AbortPinMoves, LimitMoves, DelayEnds
<1>4. CASE Serial
  BY <1>4 DEF Serial, CommandFlag
<1>5. QED
  BY <1>1, <1>2, <1>3, <1>4 DEF Interrupt

\* The reset and the lines.
LEMMA LinesKeepMotion ==
    ASSUME TypeOK, MotionInv, LineJog => ~alarm,
           \/ ResetBegin \/ ResetEnd \/ LineArrives \/ LineProceeds \/ LineMotion \/ LineArc
           \/ LineJog \/ LineUnlock \/ LineProbe \/ LineWaits \/ ArcGenerator
    PROVE  MotionInv'
<1> USE DEF MotionInv, MovesInState, StopAtRest, WakesAtRest, IdleIsOver, HoldStops,
            RestoredIsHeld, CycleIsClean, CancelIsOfProbe, LinesExclude, CancelIsRead, PassReads,
            UnlockIsRead, ResetIsAtRest, Locked, InHandling, Handling, Moving, Has, TypeOK,
            flags, sys, machine, motion, stepgen, probe, outputs, pins, host, loop, prepSub
<1>1. CASE ResetBegin
  BY <1>1 DEF ResetBegin
<1>2. CASE ResetEnd
  BY <1>2 DEF ResetEnd
<1>3. CASE LineArrives
  BY <1>3 DEF LineArrives, Gcode
<1>4. CASE LineProceeds \/ LineWaits
  BY <1>4 DEF LineProceeds, LineWaits, CommandEnds
<1>5. CASE LineMotion
  BY <1>5 DEF LineMotion, Executes, QueueLine
<1>6. CASE LineArc
  BY <1>6 DEF LineArc, Executes, QueueLine
<1>7. CASE LineJog
  BY <1>7 DEF LineJog, JogAllowed, Executes, QueueLine
<1>8. CASE LineUnlock
  BY <1>8 DEF LineUnlock, Executes
<1>9. CASE LineProbe
  BY <1>9 DEF LineProbe, Executes, QueueLine
<1>10. CASE ArcGenerator
  BY <1>10 DEF ArcGenerator, QueueLine
<1>11. QED
  BY <1>1, <1>2, <1>3, <1>4, <1>5, <1>6, <1>7, <1>8, <1>9, <1>10

\* The snapshot, the handlers of its flags and of the limit switches.
LEMMA HandlersKeepMotion ==
    ASSUME TypeOK, MotionInv,
           \/ Limits \/ ExecAlarm \/ Hold \/ CycleStart \/ ProbeStart \/ CycleStop
           \/ Abort \/ ClearAlarm \/ Override
    PROVE  MotionInv'
<1> USE DEF MotionInv, MovesInState, StopAtRest, WakesAtRest, IdleIsOver, HoldStops,
            RestoredIsHeld, CycleIsClean, CancelIsOfProbe, LinesExclude, CancelIsRead, PassReads,
            UnlockIsRead, ResetIsAtRest, Locked, InHandling, Handling, Moving, Has, TypeOK,
            flags, sys, machine, motion, stepgen, probe, outputs, pins, host, loop, prepSub
<1>1. CASE Limits
  BY <1>1 DEF Limits, MustStop, ResetMotion
<1>2. CASE ExecAlarm
  BY <1>2 DEF ExecAlarm, HoldFlags
<1>3. CASE Hold
  BY <1>3 DEF Hold, Clear, MustDecelerate, HoldsAtOnce, UpdatePlanBlock, HoldFlags, States
<1>4. CASE CycleStart
  BY <1>4 DEF CycleStart, Clear, CanStart, DoorClosed, BeginCycle, SuspendBroken
<1>5. CASE ProbeStart
  BY <1>5 DEF ProbeStart, Clear, BeginCycle, SuspendBroken
<1>6. CASE CycleStop
  BY <1>6 DEF CycleStop, Clear, StopCompletesHold, StoppedState, UpdatePlanBlock, ResetMotion
<1>7. CASE Abort
  BY <1>7 DEF Abort, Clear, ResetMotion
<1>8. CASE ClearAlarm
  BY <1>8 DEF ClearAlarm, Clear
<1>9. CASE Override
  BY <1>9 DEF Override
<1>10. QED
  BY <1>1, <1>2, <1>3, <1>4, <1>5, <1>6, <1>7, <1>8, <1>9

\* The step generator, the suspend state machine and the end of the pass.
LEMMA MachineKeepsMotion ==
    ASSUME IInv, MotionInv,
           \/ PrepSegment \/ PrepEndOfBlock \/ PrepRest \/ PrepDone \/ MainPrep \/ Machine
           \/ StepperEnable \/ ControlPins \/ Probe
    PROVE  MotionInv'
<1> USE DEF MotionInv, MovesInState, StopAtRest, WakesAtRest, IdleIsOver, HoldStops,
            RestoredIsHeld, CycleIsClean, CancelIsOfProbe, LinesExclude, CancelIsRead, PassReads,
            UnlockIsRead, ResetIsAtRest, Locked, InHandling, Handling, Moving, Has, TypeOK,
            flags, sys, machine, motion, stepgen, probe, outputs, pins, host, loop, prepSub
<1>0. TypeOK /\ PreparedIsQueued
  BY DEF IInv
<1>1. CASE PrepSegment \/ PrepEndOfBlock \/ PrepRest
  BY <1>0, <1>1 DEF PrepSegment, PrepEndOfBlock, PrepRest, PrepTurn, PreparedIsQueued
<1>2. CASE PrepDone
  BY <1>0, <1>2 DEF PrepDone
<1>3. CASE MainPrep
  BY <1>0, <1>3 DEF MainPrep
<1>4. CASE Machine /\ ~MachineSuspend
  BY <1>0, <1>4 DEF Machine, MachineInit, MachineIdle, MachineDelay
<1>5. CASE Machine /\ MachineSuspend
  <2>1. CASE ~Has("HOLD_COMPLETE")
    BY <1>0, <1>5, <2>1 DEF Machine, MachineSuspend
  <2>2. CASE Has("HOLD_COMPLETE") /\ state = "SAFETY_DOOR"
    BY <1>0, <1>5, <2>2 DEF Machine, MachineSuspend, SuspendDoor
  <2>3. CASE Has("HOLD_COMPLETE") /\ state # "SAFETY_DOOR"
    BY <1>0, <1>5, <2>3 DEF Machine, MachineSuspend, SuspendHold
  <2>4. QED
    BY <2>1, <2>2, <2>3
<1>6. CASE StepperEnable \/ ControlPins
  BY <1>0, <1>6 DEF StepperEnable, ControlPins, AbortEdge
<1>7. CASE Probe
  <2>1. CASE ProbeCycleEnds
    BY <1>0, <1>7, <2>1 DEF Probe, ProbeCycleEnds, ResetMotion
  <2>2. CASE ~ProbeCycleEnds
    BY <1>0, <1>7, <2>2 DEF Probe
  <2>3. QED
    BY <2>1, <2>2
<1>8. QED
  BY <1>1, <1>2, <1>3, <1>4, <1>5, <1>6, <1>7

\* Every step keeps the invariant, if it executes no jog behind an alarm.
LEMMA MotionStep ==
    ASSUME IInv, MotionInv, [Next]_vars, [LineJog => ~alarm]_vars PROVE MotionInv'
<1>0. TypeOK
  BY DEF IInv
<1>1. CASE UNCHANGED vars
  BY <1>1 DEF vars, flags, sys, machine, motion, stepgen, probe, outputs, pins, host, loop,
     prepSub, MotionInv, MovesInState, StopAtRest, WakesAtRest, IdleIsOver, HoldStops,
     RestoredIsHeld, CycleIsClean, CancelIsOfProbe, LinesExclude, CancelIsRead, PassReads,
     UnlockIsRead, ResetIsAtRest, Locked, InHandling
<1>2. CASE Next /\ ~UNCHANGED vars
  BY <1>0, <1>2, AsksKeepMotion, LinesKeepMotion, HandlersKeepMotion, MachineKeepsMotion
     DEF Next, MainLoop, Protocol
<1>3. QED
  BY <1>1, <1>2

\* No jog is executed while an alarm is pending, that is between EXEC_ABORT and the
\* pass that sets ALARM, where jog_execute() does not look for it (jog.c:44).
NoJogBehindAlarm == [][LineJog => ~alarm]_vars

\* But for that, the steppers move in a state of motion only: not in IDLE, not in
\* ALARM, whatever emergency stops, limits, probes, doors, holds, jogs and soft
\* resets come together.
THEOREM MotionIsStated == Spec /\ NoJogBehindAlarm => []MotionHasAState
<1>1. IInv /\ MotionInv /\ [Next]_vars /\ [LineJog => ~alarm]_vars => MotionInv'
  BY MotionStep
<1>2. MotionInv => MotionHasAState
  BY DEF MotionInv, MovesInState, Moving, MotionHasAState
<1>3. QED
  BY IInvHolds, InitMotionInv, <1>1, <1>2, PTL DEF Spec, NoJogBehindAlarm

\* Without jogs the hypothesis is void, and the theorem holds of all behaviours.
THEOREM NoJogMotionIsStated == ASSUME "jog" \notin Lines PROVE Spec => []MotionHasAState
<1> DEFINE NoJogLine == line # "jog"
<1>1. Init => NoJogLine
  BY DEF Init
<1>2. NoJogLine /\ [Next]_vars => NoJogLine'
  BY DEF Next, MainLoop, Protocol, Interrupt, Environment, vars, host, pins, prepSub, loop,
     InterruptSegment, InterruptEmpty, DoorMoves, AbortPinMoves, LimitMoves, DelayEnds,
     ResetBegin, ResetEnd, Serial, LineArrives, LineProceeds, LineMotion, LineArc, LineJog,
     LineUnlock, LineProbe, LineWaits, Executes, ArcGenerator, Limits, ExecAlarm, Hold,
     CycleStart, ProbeStart, PrepSegment, PrepEndOfBlock, PrepRest, PrepTurn, PrepDone,
     CycleStop, Abort, ClearAlarm, Override, MainPrep, Machine, StepperEnable, ControlPins, Probe
<1>3. NoJogLine => [LineJog => ~alarm]_vars
  BY DEF LineJog, Executes
<1>4. QED
  BY <1>1, <1>2, <1>3, MotionIsStated, PTL DEF Spec, NoJogBehindAlarm

-----------------------------------------------------------------------------
(* The touch of a probe, while neither hold nor door are asked for.         *)

\* No feed hold and no door flag is raised.
NoHoldAsked == "FEED_HOLD" \notin exec /\ "SAFETY_DOOR" \notin exec

\* Then no hold is entered, and a stop does not look for a door.
NeverHeld ==
    /\ NoHoldAsked /\ "FEED_HOLD" \notin rt /\ "SAFETY_DOOR" \notin rt
    /\ state \notin {"HOLD", "SAFETY_DOOR"} /\ "SAFETY_DOOR_AJAR" \notin suspend

\* A G38 is received, has waited for the stepper and is executed next.
ProbeLine == lineSm = "g_wait" /\ line = "probe"

\* A probing cycle goes on, or is about to begin.
Probes == probing \/ ProbeLine

\* The steps of a pass before its snapshot, once a line has been executed.
BeforeSnapshot == {"arc", "limits", "exec"}

\* In a probing cycle the steppers move in a cycle only, a stop is that of a
\* stepper at rest, and it has been executed before the cycle can be started.
ProbeMoves ==
    Probes =>
        /\ running \/ wake => state = "CYCLE" /\ ~alarm
        /\ wake => ~running
        /\ "CYCLE_STOP" \in exec => ~running /\ ~wake
        /\ sm # "init" /\ "CLEAR_ALARM" \notin exec
        /\ state = "IDLE" => "MOTION_CANCEL" \notin exec
        /\ state = "IDLE" /\ "CYCLE_STOP" \in exec =>
             \/ alarm
             \/ ProbeLine /\ phase \in BeforeSnapshot
             \/ ProbeLine /\ InHandling /\ "CYCLE_STOP" \in rt

\* What a pass has read is pending until it is handled; a stop that was read in
\* a probing cycle leaves no cancel behind the hold handler.
ProbePass ==
    /\ phase = "prep" => after \in {"arc", "probe_start", "stop", "machine"}
    /\ wake => phase = "prep"
    /\ phase = "hold" => "MOTION_CANCEL" \in rt /\ "MOTION_CANCEL" \in exec
    /\ InHandling =>
         /\ ~alarm
         /\ "CYCLE_STOP" \in rt => "CYCLE_STOP" \in exec
         /\ "CYCLE_STOP" \in rt /\ probing /\ phase # "hold" => "MOTION_CANCEL" \notin exec
    /\ "CLEAR_ALARM" \in exec =>
         /\ lineSm = "processing_chars"
         /\ \/ phase \in BeforeSnapshot
            \/ (InHandling \/ phase \in {"abort", "unlock"}) /\ "CLEAR_ALARM" \in rt
    /\ "CLEAR_ALARM" \in rt /\ (InHandling \/ phase \in {"abort", "unlock"})
         => "CLEAR_ALARM" \in exec

\* The start of the probing motion is executed in the pass that asked for it.
ProbeStarts ==
    "PROBE_START" \in exec =>
        \/ phase \in BeforeSnapshot /\ "MOTION_CANCEL" \notin exec /\ ~running
        \/ "PROBE_START" \in rt
           /\ (phase \in {"start", "probe_start"} \/ (phase = "prep" /\ after = "probe_start"))

\* Which lines go together with a probing cycle, an arc, a jog and a reset.
ProbeExcludes ==
    /\ probing \/ arc > 0 => lineSm = "after_command_executer"
    /\ monitor \/ touched => probing
    /\ ProbeLine => ~running /\ ~wake /\ blocks = 0
    /\ lineSm \in {"pre_sync_check", "wait_pre_sync", "g_wait", "after_command_executer"}
         => state # "JOG"
    /\ "MOTION_CANCEL" \in exec =>
         \/ probing
         \/ phase \in {"line"} \cup BeforeSnapshot /\ state = "JOG"
         \/ phase = "hold" /\ state \in {"JOG", "ALARM"}
    /\ sm = "init" =>
         /\ phase \notin {"reset", "enable", "pins", "probe"} /\ ~probing
         /\ lineSm \in {"processing_chars", "pre_sync_check", "jog_wait"}
         /\ phase \in {"reset_end", "serial", "line"} => lineSm = "processing_chars"

\* The touch is pending or in force while the motion goes on, and no start comes
\* between the end of the motion and the end of the probing cycle.
TouchPending ==
    touched =>
        /\ running \/ wake => "MOTION_CANCEL" \in exec \/ "MOTION_CANCEL" \in suspend
        /\ state = "IDLE" =>
             /\ "PROBE_START" \notin exec
             /\ phase \in {"abort", "unlock", "override", "main_prep", "machine", "enable",
                           "pins", "probe"}

TouchInv ==
    /\ NeverHeld /\ ProbeMoves /\ ProbePass /\ ProbeStarts /\ ProbeExcludes /\ TouchPending

\* The interrupt, the environment and the characters of the host.
LEMMA AsksKeepTouch ==
    ASSUME TypeOK, TouchInv, NoHoldAsked', Interrupt \/ Environment \/ DelayEnds \/ Serial
    PROVE  TouchInv'
<1> USE DEF TouchInv, NeverHeld, NoHoldAsked, ProbeLine, Probes, BeforeSnapshot, ProbeMoves,
            ProbePass, ProbeStarts, ProbeExcludes, TouchPending, InHandling, Handling, Has, TypeOK,
            flags, sys, machine, motion, stepgen, probe, outputs, pins, host, loop, prepSub
<1>1. CASE InterruptSegment
  BY <1>1 DEF InterruptSegment
<1>2. CASE InterruptEmpty
  BY <1>2 DEF InterruptEmpty
<1>3. CASE Environment \/ DelayEnds
  BY <1>3 DEF Environment, DoorMoves, AbortPinMoves, LimitMoves, DelayEnds
<1>4. CASE Serial
  BY <1>4 DEF Serial, CommandFlag
<1>5. QED
  BY <1>1, <1>2, <1>3, <1>4 DEF Interrupt

\* The reset and the lines.
LEMMA LinesKeepTouch ==
    ASSUME TypeOK, TouchInv, NoHoldAsked',
           \/ ResetBegin \/ ResetEnd \/ LineArrives \/ LineProceeds \/ LineMotion \/ LineArc
           \/ LineJog \/ LineUnlock \/ LineProbe \/ LineWaits \/ ArcGenerator
    PROVE  TouchInv'
<1> USE DEF TouchInv, NeverHeld, NoHoldAsked, ProbeLine, Probes, BeforeSnapshot, ProbeMoves,
            ProbePass, ProbeStarts, ProbeExcludes, TouchPending, InHandling, Handling, Has, TypeOK,
            flags, sys, machine, motion, stepgen, probe, outputs, pins, host, loop, prepSub
<1>1. CASE ResetBegin
  BY <1>1 DEF ResetBegin
<1>2. CASE ResetEnd
  BY <1>2 DEF ResetEnd
<1>3. CASE LineArrives
  BY <1>3 DEF LineArrives, Gcode
<1>4. CASE LineProceeds \/ LineWaits
  BY <1>4 DEF LineProceeds, LineWaits, CommandEnds
<1>5. CASE LineMotion
  BY <1>5 DEF LineMotion, Executes, QueueLine
<1>6. CASE LineArc
  BY <1>6 DEF LineArc, Executes, QueueLine
<1>7. CASE LineJog
  BY <1>7 DEF LineJog, JogAllowed, Executes, QueueLine
<1>8. CASE LineUnlock
  BY <1>8 DEF LineUnlock, Executes
<1>9. CASE LineProbe
  BY <1>9 DEF LineProbe, Executes, QueueLine
<1>10. CASE ArcGenerator
  BY <1>10 DEF ArcGenerator, QueueLine
<1>11. QED
  BY <1>1, <1>2, <1>3, <1>4, <1>5, <1>6, <1>7, <1>8, <1>9, <1>10

\* The snapshot, the handlers of its flags and of the limit switches.
LEMMA HandlersKeepTouch ==
    ASSUME TypeOK, TouchInv, NoHoldAsked',
           \/ Limits \/ ExecAlarm \/ Hold \/ CycleStart \/ ProbeStart \/ CycleStop
           \/ Abort \/ ClearAlarm \/ Override
    PROVE  TouchInv'
<1> USE DEF TouchInv, NeverHeld, NoHoldAsked, ProbeLine, Probes, BeforeSnapshot, ProbeMoves,
            ProbePass, ProbeStarts, ProbeExcludes, TouchPending, InHandling, Handling, Has, TypeOK,
            flags, sys, machine, motion, stepgen, probe, outputs, pins, host, loop, prepSub
<1>1. CASE Limits
  BY <1>1 DEF Limits, MustStop, ResetMotion
<1>2. CASE ExecAlarm
  BY <1>2 DEF ExecAlarm, HoldFlags
<1>3. CASE Hold
  BY <1>3 DEF Hold, Clear, MustDecelerate, HoldsAtOnce, UpdatePlanBlock, HoldFlags, States
<1>4. CASE CycleStart
  BY <1>4 DEF CycleStart, Clear, CanStart, DoorClosed, BeginCycle, SuspendBroken
<1>5. CASE ProbeStart
  BY <1>5 DEF ProbeStart, Clear, BeginCycle, SuspendBroken
<1>6. CASE CycleStop
  BY <1>6 DEF CycleStop, Clear, StopCompletesHold, StoppedState, UpdatePlanBlock, ResetMotion
<1>7. CASE Abort
  BY <1>7 DEF Abort, Clear, ResetMotion
<1>8. CASE ClearAlarm
  BY <1>8 DEF ClearAlarm, Clear
<1>9. CASE Override
  BY <1>9 DEF Override
<1>10. QED
  BY <1>1, <1>2, <1>3, <1>4, <1>5, <1>6, <1>7, <1>8, <1>9

\* The step generator, the suspend state machine and the end of the pass.
LEMMA MachineKeepsTouch ==
    ASSUME IInv, TouchInv, NoHoldAsked',
           \/ PrepSegment \/ PrepEndOfBlock \/ PrepRest \/ PrepDone \/ MainPrep \/ Machine
           \/ StepperEnable \/ ControlPins \/ Probe
    PROVE  TouchInv'
<1> USE DEF TouchInv, NeverHeld, NoHoldAsked, ProbeLine, Probes, BeforeSnapshot, ProbeMoves,
            ProbePass, ProbeStarts, ProbeExcludes, TouchPending, InHandling, Handling, Has, TypeOK,
            flags, sys, machine, motion, stepgen, probe, outputs, pins, host, loop, prepSub
<1>0. TypeOK /\ PreparedIsQueued
  BY DEF IInv
<1>1. CASE PrepSegment \/ PrepEndOfBlock \/ PrepRest
  BY <1>0, <1>1 DEF PrepSegment, PrepEndOfBlock, PrepRest, PrepTurn, PreparedIsQueued
<1>2. CASE PrepDone
  BY <1>0, <1>2 DEF PrepDone
<1>3. CASE MainPrep
  BY <1>0, <1>3 DEF MainPrep
<1>4. CASE Machine /\ ~MachineSuspend
  BY <1>0, <1>4 DEF Machine, MachineInit, MachineIdle, MachineDelay
<1>5. CASE Machine /\ MachineSuspend
  <2>1. CASE ~Has("HOLD_COMPLETE")
    BY <1>0, <1>5, <2>1 DEF Machine, MachineSuspend
  <2>2. CASE Has("HOLD_COMPLETE")
    BY <1>0, <1>5, <2>2 DEF Machine, MachineSuspend, SuspendHold
  <2>3. QED
    BY <2>1, <2>2
<1>6. CASE StepperEnable \/ ControlPins
  BY <1>0, <1>6 DEF StepperEnable, ControlPins, AbortEdge
<1>7. CASE Probe
  <2>1. CASE ProbeCycleEnds
    BY <1>0, <1>7, <2>1 DEF Probe, ProbeCycleEnds, ResetMotion
  <2>2. CASE ~ProbeCycleEnds
    BY <1>0, <1>7, <2>2 DEF Probe, ProbeCycleEnds
  <2>3. QED
    BY <2>1, <2>2
<1>8. QED
  BY <1>1, <1>2, <1>3, <1>4, <1>5, <1>6, <1>7

\* Every step that asks for no hold keeps the invariant.
LEMMA TouchStep == ASSUME IInv, TouchInv, NoHoldAsked', [Next]_vars PROVE TouchInv'
<1>0. TypeOK
  BY DEF IInv
<1>1. CASE UNCHANGED vars
  BY <1>1 DEF vars, flags, sys, machine, motion, stepgen, probe, outputs, pins, host, loop,
     prepSub, TouchInv, NeverHeld, NoHoldAsked, ProbeLine, Probes, ProbeMoves, ProbePass,
     ProbeStarts, ProbeExcludes, TouchPending, InHandling
<1>2. CASE Next
  BY <1>0, <1>2, AsksKeepTouch, LinesKeepTouch, HandlersKeepTouch, MachineKeepsTouch
     DEF Next, MainLoop, Protocol
<1>3. QED
  BY <1>1, <1>2

\* While neither a feed hold nor the door is asked for, the touch of a probe that
\* still moves stays pending or in force, whatever stops, limits, jogs and resets
\* come in between (system.c:385-408).
THEOREM TouchStays == Spec /\ []NoHoldAsked => []TouchCancelsMotion
<1>1. Init => TouchInv
  BY DEF Init, TouchInv, NeverHeld, NoHoldAsked, ProbeLine, Probes, ProbeMoves, ProbePass,
     ProbeStarts, ProbeExcludes, TouchPending, InHandling, Handling
<1>2. IInv /\ TouchInv /\ NoHoldAsked' /\ [Next]_vars => TouchInv'
  BY TouchStep
<1>3. TouchInv => TouchCancelsMotion
  BY DEF TouchInv, TouchPending, TouchCancelsMotion, Has
<1>4. QED
  BY IInvHolds, <1>1, <1>2, <1>3, PTL DEF Spec

=============================================================================
