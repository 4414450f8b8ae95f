------------------------------- MODULE Homing -------------------------------
(***************************************************************************)
(* The homing cycle (software/src/grbl/grbl_homing.c) with what it rests   *)
(* on: the $H command and its wait in grbl_protocol.c, mc_stop(), the      *)
(* limit filter of grbl_limits.c, the alarm, CYCLE_STOP and ABORT handlers *)
(* of system.c, the step generator and the stepper interrupt.              *)
(*                                                                         *)
(* do_homing() homes one axis after the other: it drives the axis to its   *)
(* switch, pulls off, approaches again slowly and pulls off.  The switch   *)
(* is seen through a filter that is sampled every millisecond, while the   *)
(* interrupt goes on stepping.  A motion is a number of segments of one    *)
(* step each; an axis' switch is engaged at positions up to 0.             *)
(*                                                                         *)
(* Axis 1 is homed first (Z), then 2 (Y), then 3 (X).  Real-time commands  *)
(* other than the soft reset, and the door, are left out.                  *)
(***************************************************************************)
EXTENDS Integers, Sequences, FiniteSets

CONSTANTS
    N_AXIS,         \* axes homed one after the other
    Inputs,         \* what disturbs the machine: "abort", "reset"
    FILTER,         \* GRBL_LIMITS_FILTER_ELEMENTS
    SEGMENT_BUFFER, \* segments the segment buffer holds
    DEBOUNCE,       \* settings.homing_debounce_delay, in passes
    TRAVEL,         \* steps from the switch to the far end of an axis
    FAULTS,         \* bound: switches out of order
    STOP,           \* bound: steps an axis can be driven beyond its switching point
    SEEK,           \* steps of the first approach
    PULLOFF,        \* steps of a pull-off
    LOCATE          \* steps of the second approach

N_HOMING_LOCATE_CYCLE == 1

Axes == 1 .. N_AXIS

ASSUME SizesAssumption ==
    /\ {N_AXIS, FILTER, SEGMENT_BUFFER, TRAVEL, SEEK, PULLOFF, LOCATE} \subseteq Nat \ {0}
    /\ {DEBOUNCE, FAULTS, STOP} \subseteq Nat
    /\ SEEK > TRAVEL /\ LOCATE > PULLOFF
ASSUME InputsAssumption == Inputs \subseteq {"abort", "reset"}

\* The steps of one pass of do_grbl(), in their order; "state" and "prep" are do_system().
Phases == {"line", "homing", "axis", "limits", "state", "prep"}

VARIABLES
    state,          \* sys.state
    exec,           \* sys_rt_exec_state: EXEC_CYCLE_STOP, EXEC_ABORT
    alarm,          \* sys_rt_exec_alarm is set
    sysMotion,      \* sys.step_control has STEP_CONTROL_EXECUTE_SYS_MOTION
    endMotion,      \* sys.step_control has STEP_CONTROL_END_MOTION
    estop,          \* stepper_enable_emergency_stop_active = MACHINE_STOP
    waits,          \* lineStateMachine = sm_line_wait_home_end
    homing,         \* do_mc_homing_cycle
    mc,             \* mc_homing_state_machine
    goHome,         \* do_grbl_homing_go_home
    sm,             \* grbl_homing_go_home_state
    axis,           \* cycle_mask_asynch: the axis of grbl_homing_go_home
    approach, n_cycle,
    axislock,       \* the axis may move
    stopped,        \* grbl_homing_flag_for_homing_EXEC_CYCLE_STOP
    delay,          \* grbl_homing_delay_home
    block,          \* axis and direction of the system motion block
    mm,             \* pl_block->millimeters: its steps not yet in segments
    loaded,         \* pl_block # NULL
    st,             \* st_prep_block: axis and direction the segments step
    segments,       \* segment_buffer
    running,        \* the stepper interrupt is enabled
    pos,            \* where the axes really are, seen from their switches
    fault,          \* the switch of an axis: "none", stuck "open" or "closed"
    samples,        \* engaged samples in a row, up to FILTER
    filtered,       \* limits_get_state_filtered()
    limitsLast,     \* limits_get_state_last
    limitsDisabled, \* limits_disabled
    phase,          \* the step of do_grbl() that comes next
    undisturbed     \* history: no abort and no failure since $H

sys     == << state, exec, alarm, sysMotion, endMotion, estop >>
cycle   == << homing, mc, waits >>
home    == << goHome, sm, axis, approach, n_cycle, axislock, stopped, delay >>
stepgen == << block, mm, loaded, st, segments, running >>
machine == << pos, fault >>
limits  == << samples, filtered, limitsLast, limitsDisabled >>
vars    == << sys, cycle, home, stepgen, machine, limits, phase, undisturbed >>

NoStep == [axis |-> 1, dir |-> 1]

Init ==
    /\ state = "ALARM" /\ exec = {} /\ alarm = FALSE
    /\ sysMotion = FALSE /\ endMotion = FALSE /\ estop = FALSE
    /\ homing = FALSE /\ mc = "IDLE" /\ waits = FALSE
    /\ goHome = FALSE /\ sm = "INIT" /\ axis = 1 /\ approach = FALSE /\ n_cycle = 0
    /\ axislock = FALSE /\ stopped = FALSE /\ delay = 0
    /\ block = NoStep /\ mm = 0 /\ loaded = FALSE /\ st = NoStep
    /\ segments = << >> /\ running = FALSE
    /\ pos \in [Axes -> {0, TRAVEL}]
    /\ fault \in [Axes -> {"none", "open", "closed"}]
    /\ Cardinality({a \in Axes : fault[a] # "none"}) <= FAULTS
    /\ samples = [a \in Axes |-> 0] /\ filtered = {} /\ limitsLast = {}
    /\ limitsDisabled = FALSE
    /\ phase = "line" /\ undisturbed = FALSE

-----------------------------------------------------------------------------
(* Motions.                                                                *)

Engaged == {a \in Axes : \/ fault[a] = "closed"
                         \/ fault[a] = "none" /\ pos[a] <= 0}

\* Mutant of ResetMotion: the step generator keeps its block.
ResetMotionKeepsBlock ==
    /\ mm' = 0 /\ segments' = << >> /\ running' = FALSE /\ block' = NoStep
    /\ UNCHANGED << loaded, st >>

\* plan_reset(); st_reset()
ResetMotion ==
    /\ mm' = 0 /\ segments' = << >> /\ running' = FALSE
    /\ loaded' = FALSE /\ block' = NoStep /\ st' = NoStep

\* mc_stop() but for the spindle: motions end at once, with an alarm unless the state
\* is HOMING; or with one in any case (EXEC_ALARM_HARD_LIMIT).
McStop(hardLimit) ==
    /\ alarm' = (alarm \/ hardLimit \/ (sysMotion /\ state # "HOMING"))
    /\ IF state = "HOMING" \/ sysMotion
       THEN exec' = exec \cup {"CYCLE_STOP"} /\ ResetMotion
       ELSE UNCHANGED << exec, stepgen >>

\* Mutant of SegmentRoom: one segment too many.
SegmentRoomOffByOne == SEGMENT_BUFFER + 1 - Len(segments)

SegmentRoom == SEGMENT_BUFFER - Len(segments)

\* st_prep_buffer() for a system motion of m steps: a block is loaded only when
\* none is in preparation; the last segment ends the motion but keeps the block.
\* After an abort nothing is left of the block, and what is made of it never runs.
Prep(b, m, end) ==
    LET s == IF loaded THEN st ELSE b
        n == IF m < SegmentRoom THEN m ELSE SegmentRoom
    IN IF end \/ m = 0 \/ n = 0
       THEN mm' = m /\ endMotion' = end /\ UNCHANGED << loaded, st, segments >>
       ELSE /\ segments' = segments \o [i \in 1 .. n |-> s]
            /\ mm' = m - n
            /\ loaded' = TRUE
            /\ st' = s
            /\ endMotion' = (m = n)

-----------------------------------------------------------------------------
(* The stepper interrupt.                                                  *)

Towards(p, d) == IF p + d > TRAVEL THEN TRAVEL ELSE IF p + d < -STOP THEN -STOP ELSE p + d

\* The axis lock holds the axis only in the HOMING state, and no driver follows
\* while the emergency stop is active.
Moves(a) == ~estop /\ (state # "HOMING" \/ (a = axis /\ axislock))

InterruptStep ==
    /\ segments # << >>
    /\ LET s == Head(segments) IN
         pos' = [pos EXCEPT ![s.axis] = IF Moves(s.axis) THEN Towards(@, s.dir) ELSE @]
    /\ segments' = Tail(segments)
    /\ UNCHANGED << exec, running >>

\* Mutant of InterruptEmpty: the main loop is not told.
InterruptEmptySilent ==
    segments = << >> /\ running' = FALSE /\ UNCHANGED << exec, segments, pos >>

\* The segment buffer has run dry: st_go_idle() and EXEC_CYCLE_STOP.
InterruptEmpty ==
    /\ segments = << >>
    /\ running' = FALSE
    /\ exec' = exec \cup {"CYCLE_STOP"}
    /\ UNCHANGED << segments, pos >>

Interrupt ==
    /\ running
    /\ InterruptStep \/ InterruptEmpty
    /\ UNCHANGED << state, alarm, sysMotion, endMotion, estop, cycle, home, block, mm,
                    loaded, st, fault, limits, phase, undisturbed >>

-----------------------------------------------------------------------------
(* One pass of the main loop: the host and the line protocol.              *)

\* The emergency stop button (bound: once until a reset).
EmergencyStop ==
    /\ phase = "line" /\ "abort" \in Inputs /\ ~estop
    /\ exec' = exec \cup {"ABORT"}
    /\ undisturbed' = FALSE
    /\ UNCHANGED << state, alarm, sysMotion, endMotion, estop, cycle, home, stepgen,
                    machine, limits, phase >>

\* The soft reset.  It keeps the state; the first pass of do_system() makes IDLE of
\* HOMING, or ALARM when the filter, loaded with the pins, still shows a switch.
SoftReset ==
    /\ phase = "line" /\ "reset" \in Inputs
    /\ state' \in (IF state = "ALARM" THEN {"ALARM"} ELSE {"IDLE"})
                  \cup (IF Engaged # {} THEN {"ALARM"} ELSE {})
    /\ exec' = {} /\ alarm' = FALSE /\ sysMotion' = FALSE /\ endMotion' = FALSE
    /\ estop' = FALSE
    /\ homing' = FALSE /\ mc' = "IDLE" /\ waits' = FALSE
    /\ goHome' = FALSE /\ sm' = "INIT" /\ axis' = 1 /\ approach' = FALSE /\ n_cycle' = 0
    /\ axislock' = FALSE /\ stopped' = FALSE /\ delay' = 0
    /\ ResetMotion
    /\ samples' = [a \in Axes |-> 0] /\ filtered' = Engaged /\ limitsLast' = Engaged
    /\ limitsDisabled' = FALSE
    /\ undisturbed' = FALSE
    /\ UNCHANGED << machine, phase >>

\* $H, in IDLE and ALARM.
HomeCommand ==
    /\ phase = "line" /\ phase' = "homing"
    /\ ~waits /\ state \in {"IDLE", "ALARM"} /\ ~estop
    /\ state' = "HOMING" /\ homing' = TRUE /\ waits' = TRUE
    /\ undisturbed' = ("ABORT" \notin exec /\ ~alarm /\ ~running /\ ~loaded)
    /\ UNCHANGED << exec, alarm, sysMotion, endMotion, estop, mc, home, stepgen, machine,
                    limits >>

\* sm_line_wait_home_end, or no line.
LineWaits ==
    /\ phase = "line" /\ phase' = "homing"
    /\ waits => homing
    /\ UNCHANGED << sys, cycle, home, stepgen, machine, limits, undisturbed >>

\* The cycle is over: the host gets its answer and the state is IDLE.
LineHomeEnd ==
    /\ phase = "line" /\ phase' = "homing"
    /\ waits /\ ~homing
    /\ waits' = FALSE /\ state' = "IDLE" /\ running' = FALSE
    /\ UNCHANGED << exec, alarm, sysMotion, endMotion, estop, homing, mc, home, block, mm,
                    loaded, st, segments, machine, limits, undisturbed >>

-----------------------------------------------------------------------------
(* do_homing(): one axis after the other.                                  *)

\* Mutant of LastAxis: an axis is left out.
LastAxisOffByOne == axis = N_AXIS - 1

LastAxis == axis = N_AXIS

Homing ==
    /\ phase = "homing" /\ phase' = "axis"
    /\ \/ /\ mc = "IDLE"
          /\ mc' = IF homing THEN "TRIGGERED" ELSE "IDLE"
          /\ UNCHANGED << homing, goHome, axis, limitsDisabled >>
       \/ /\ mc = "TRIGGERED"
          /\ mc' = "WAIT" /\ axis' = 1 /\ goHome' = TRUE /\ limitsDisabled' = TRUE
          /\ UNCHANGED homing
       \/ /\ mc = "WAIT" /\ goHome
          /\ UNCHANGED << mc, homing, goHome, axis, limitsDisabled >>
       \/ /\ mc = "WAIT" /\ ~goHome /\ ~LastAxis
          /\ axis' = axis + 1 /\ goHome' = TRUE
          /\ UNCHANGED << mc, homing, limitsDisabled >>
       \/ /\ mc = "WAIT" /\ ~goHome /\ LastAxis
          /\ mc' = "IDLE" /\ homing' = FALSE /\ limitsDisabled' = FALSE
          /\ UNCHANGED << goHome, axis >>
    /\ UNCHANGED << sys, waits, sm, approach, n_cycle, axislock, stopped, delay, stepgen,
                    machine, samples, filtered, limitsLast, undisturbed >>

-----------------------------------------------------------------------------
(* do_homing_single_axis_sm(): one axis.                                   *)

GoHomeInit ==
    /\ sm = "INIT" /\ sm' = "HOME_1"
    /\ n_cycle' = 2 * N_HOMING_LOCATE_CYCLE + 1
    /\ approach' = TRUE /\ axislock' = FALSE
    /\ UNCHANGED << sys, goHome, axis, stopped, delay, stepgen, undisturbed >>

\* max_travel: the search, the locating approach, the pull-off.
MaxTravel ==
    IF ~approach THEN PULLOFF
    ELSE IF n_cycle = 2 * N_HOMING_LOCATE_CYCLE + 1 THEN SEEK ELSE LOCATE

\* A motion is planned and started.  If the step generator still holds a block, the
\* new one is written over it: the old steps go on for a length that nothing defines.
GoHome1 ==
    LET b == [axis |-> axis, dir |-> IF approach THEN -1 ELSE 1]
    IN /\ sm = "HOME_1" /\ sm' = "HOME_2"
       /\ axislock' = TRUE /\ stopped' = FALSE
       /\ sysMotion' = TRUE
       /\ block' = b
       /\ \E m \in (IF loaded THEN 1 .. SEEK ELSE {MaxTravel}) : Prep(b, m, FALSE)
       /\ running' = TRUE
       /\ UNCHANGED << state, exec, alarm, estop, goHome, axis, approach, n_cycle, delay,
                       undisturbed >>

\* Mutant of Found: the end of the motion is taken for the switch.
FoundAtTheEnd == approach /\ (stopped \/ axis \in filtered)

\* The switch of the axis is engaged: the axis is locked.
Found == approach /\ axis \in filtered

\* The motion is over and the switch was not found, or did not let go.
Fails == /\ stopped
         /\ IF approach THEN axislock /\ ~Found ELSE axis \in filtered

\* The motion has done what it should.
Arrives == IF approach THEN Found ELSE stopped

\* The motion goes on: st_prep_buffer() keeps the buffer filled.
GoHome2Goes ==
    /\ sm = "HOME_2" /\ ~Fails /\ ~Arrives
    /\ Prep(block, mm, endMotion)
    /\ UNCHANGED << state, exec, alarm, sysMotion, estop, home, block, running, undisturbed >>

\* The axis gives up, with an alarm; what it had prepared stays.
GoHome2Fails ==
    /\ sm = "HOME_2" /\ Fails
    /\ Prep(block, mm, endMotion)
    /\ stopped' = FALSE /\ alarm' = TRUE /\ sm' = "INIT" /\ goHome' = FALSE
    /\ undisturbed' = FALSE
    /\ UNCHANGED << state, exec, sysMotion, estop, axis, approach, n_cycle, axislock, delay,
                    block, running >>

\* mc_stop() and a while of rest.
GoHome2Arrives ==
    /\ sm = "HOME_2" /\ ~Fails /\ Arrives
    /\ McStop(FALSE)
    /\ axislock' = ~approach
    /\ stopped' = (stopped /\ approach)
    /\ sm' = "DELAY" /\ delay' = DEBOUNCE
    /\ UNCHANGED << state, sysMotion, endMotion, estop, goHome, axis, approach, n_cycle,
                    undisturbed >>

LastMotion == n_cycle = 0

GoHomeDelay ==
    /\ sm = "DELAY"
    /\ IF delay # 0
       THEN delay' = delay - 1 /\ UNCHANGED << sm, approach, n_cycle >>
       ELSE /\ sm' = IF LastMotion THEN "FINISHED" ELSE "HOME_1"
            /\ approach' = ~approach
            /\ n_cycle' = (n_cycle - 1) % 256
            /\ UNCHANGED delay
    /\ UNCHANGED << sys, goHome, axis, axislock, stopped, stepgen, undisturbed >>

\* The position of the axis is set (module NoInitPosition has that store).
GoHomeFinished ==
    /\ sm = "FINISHED" /\ sm' = "INIT"
    /\ sysMotion' = FALSE /\ endMotion' = FALSE /\ goHome' = FALSE
    /\ UNCHANGED << state, exec, alarm, estop, axis, approach, n_cycle, axislock, stopped,
                    delay, stepgen, undisturbed >>

Axis ==
    /\ phase = "axis" /\ phase' = "limits"
    /\ IF goHome
       THEN \/ GoHomeInit \/ GoHome1 \/ GoHomeDelay \/ GoHomeFinished
            \/ GoHome2Goes \/ GoHome2Fails \/ GoHome2Arrives
       ELSE UNCHANGED << sys, home, stepgen, undisturbed >>
    /\ UNCHANGED << cycle, machine, limits >>

-----------------------------------------------------------------------------
(* do_limits() and do_system().                                            *)

\* limits_get_state_current > limits_get_state_last, the words being numbers: the
\* highest bit in which they differ (axis 1 has the highest) is a switch that closed.
Closed(now, last) == \E a \in now \ last : \A b \in last \ now : a < b

\* A millisecond is over, and the pins are sampled; unless the limits are disabled
\* a switch that has closed stops the machine.
LimitsTick ==
    /\ phase = "limits" /\ phase' = "state"
    /\ samples' = [a \in Axes |-> IF a \notin Engaged THEN 0
                                  ELSE IF samples[a] < FILTER THEN samples[a] + 1 ELSE FILTER]
    /\ filtered' = {a \in Axes : samples'[a] = FILTER}
    /\ IF limitsDisabled \/ state = "ALARM" \/ alarm
       THEN UNCHANGED << limitsLast, sys, stepgen >>
       ELSE /\ limitsLast' = filtered'
            /\ IF Closed(filtered', limitsLast)
               THEN McStop(~homing) /\ UNCHANGED << state, sysMotion, endMotion, estop >>
               ELSE UNCHANGED << sys, stepgen >>
    /\ UNCHANGED << cycle, home, machine, limitsDisabled, undisturbed >>

LimitsPass ==
    /\ phase = "limits" /\ phase' = "state"
    /\ UNCHANGED << sys, cycle, home, stepgen, machine, limits, undisturbed >>

\* system_exec_rt_system_alarm, then EXEC_CYCLE_STOP: the homing of an axis takes
\* notice, and the state is IDLE unless it is ALARM.
ExecState ==
    /\ phase = "state" /\ phase' = "prep"
    /\ alarm' = FALSE
    /\ LET alarmed == IF alarm THEN "ALARM" ELSE state IN
       IF "CYCLE_STOP" \in exec
       THEN /\ stopped' = (stopped \/ goHome)
            /\ state' = IF alarmed = "ALARM" THEN "ALARM" ELSE "IDLE"
            /\ exec' = exec \ {"CYCLE_STOP"}
       ELSE state' = alarmed /\ UNCHANGED << stopped, exec >>
    /\ UNCHANGED << sysMotion, endMotion, estop, cycle, goHome, sm, axis, approach, n_cycle,
                    axislock, delay, stepgen, machine, limits, undisturbed >>

\* EXEC_ABORT: the emergency stop.  The homing state machines are not told.
Abort ==
    /\ phase = "prep" /\ phase' = "line"
    /\ "ABORT" \in exec /\ exec' = exec \ {"ABORT"}
    /\ estop' = TRUE /\ alarm' = TRUE
    /\ ResetMotion
    /\ UNCHANGED << state, sysMotion, endMotion, cycle, home, machine, limits, undisturbed >>

\* st_prep_buffer(), in HOMING.
SystemPrep ==
    /\ phase = "prep" /\ phase' = "line"
    /\ "ABORT" \notin exec
    /\ IF state = "HOMING" /\ sysMotion
       THEN Prep(block, mm, endMotion) /\ UNCHANGED << block, running >>
       ELSE UNCHANGED << endMotion, stepgen >>
    /\ UNCHANGED << state, exec, alarm, sysMotion, estop, cycle, home, machine, limits,
                    undisturbed >>

-----------------------------------------------------------------------------
Pass ==
    \/ HomeCommand \/ LineWaits \/ LineHomeEnd
    \/ Homing \/ Axis
    \/ LimitsTick \/ LimitsPass
    \/ ExecState \/ Abort \/ SystemPrep

Next == Pass \/ EmergencyStop \/ SoftReset \/ Interrupt

Spec == Init /\ [][Next]_vars

\* The main loop goes on, and the interrupt strikes while it is enabled.
FairSpec == Spec /\ WF_vars(Pass) /\ WF_vars(Interrupt)

-----------------------------------------------------------------------------
(* What homing promises.                                                   *)

TypeOK ==
    /\ state \in {"IDLE", "ALARM", "HOMING"}
    /\ exec \subseteq {"CYCLE_STOP", "ABORT"}
    /\ {alarm, sysMotion, endMotion, estop, waits, homing, goHome, approach, axislock,
        stopped, loaded, running, limitsDisabled, undisturbed} \subseteq BOOLEAN
    /\ mc \in {"IDLE", "TRIGGERED", "WAIT"}
    /\ sm \in {"INIT", "HOME_1", "HOME_2", "DELAY", "FINISHED"}
    /\ axis \in Axes /\ n_cycle \in 0 .. 255 /\ delay \in 0 .. DEBOUNCE
    /\ {block, st} \subseteq [axis : Axes, dir : {-1, 1}]
    /\ mm \in Nat
    /\ segments \in Seq([axis : Axes, dir : {-1, 1}]) /\ Len(segments) <= SEGMENT_BUFFER
    /\ pos \in [Axes -> -STOP .. TRAVEL]
    /\ fault \in [Axes -> {"none", "open", "closed"}]
    /\ samples \in [Axes -> 0 .. FILTER]
    /\ filtered \subseteq Axes /\ limitsLast \subseteq Axes
    /\ phase \in Phases

\* Where the position of an axis is set (grbl_homing.c, GO_HOME_FINISHED) the axis is
\* at rest, off its switch and no farther from it than a pull-off, whatever the switch
\* and the step generator did on the way; nothing but its own homing has moved it.
ZeroIsAtTheSwitch ==
    undisturbed /\ goHome /\ sm = "FINISHED"
        => fault[axis] = "none" /\ pos[axis] \in 1 .. PULLOFF /\ ~running

\* A homing motion is planned for a machine at rest, with no step left of the motion
\* before (grbl_homing.c, "Planner buffer should be empty, as required to initiate").
MotionsStartFresh ==
    undisturbed /\ goHome /\ sm = "HOME_1" => ~running /\ ~loaded /\ segments = << >>

\* The host is told that the cycle is over, or the next axis is begun, only with the
\* axes before it homed and still where their homing left them.
AnswerMeansHomed ==
    undisturbed /\ waits =>
        \A a \in (IF mc = "WAIT" THEN 1 .. axis - 1 ELSE IF homing THEN {} ELSE Axes) :
            fault[a] = "none" /\ pos[a] \in 1 .. PULLOFF

\* Homing comes to an end, with good, stuck or missing switches, and the host gets
\* its answer, unless the emergency stop comes in between.
HomingEnds == waits ~> ~waits \/ estop

\* grbl_homing.c:396, "Only the abort realtime command can interrupt this process."
AbortInterruptsHoming == homing /\ estop ~> ~homing

=============================================================================
