---------------------------- MODULE SystemControl ----------------------------
(***************************************************************************)
(* The real-time core (software/src/grbl/system.c with the parts of        *)
(* stepper.c, planner.c, grbl_probe.c, jog.c, motion_control.c,            *)
(* grbl_protocol.c, system_control.c and stepper_enable.c it drives).      *)
(*                                                                         *)
(* do_grbl() runs the handlers of the main loop one after the other.  The  *)
(* stepper interrupt consumes the segments st_prep_buffer() makes, watches *)
(* the probe and reports an empty buffer.  Both talk through the flag word *)
(* sys_rt_exec_state, which the main loop reads once per pass and whose    *)
(* flags it clears as it goes.  Every main-loop handler is one action; the *)
(* interrupt can strike between any two of them, and between any two       *)
(* segments st_prep_buffer() makes.                                        *)
(*                                                                         *)
(* Data is reduced to what the control flow tells apart: the planner to    *)
(* the number of its blocks, a block to the number of segments left in it, *)
(* the segment buffer to the number of its segments.                       *)
(***************************************************************************)
EXTENDS Integers, FiniteSets

CONSTANTS
    Commands,       \* real-time characters the host sends
    Lines,          \* kinds of line the host sends
    Events,         \* what happens to the machine's inputs
    BLOCK_BUFFER,   \* blocks the planner holds
    SEGMENT_BUFFER, \* segments the segment buffer holds
    BlockSegments,  \* bound: segments a block is cut into
    ArcLines,       \* bound: lines an arc is approximated by
    Spindle         \* gc_state.modal.spindle: the program runs the spindle

States == {"IDLE", "ALARM", "CYCLE", "HOLD", "JOG", "SAFETY_DOOR"}

HoldFlags == {"MOTION_CANCEL", "FEED_HOLD", "SAFETY_DOOR"}
ExecFlags == HoldFlags \cup {"CYCLE_START", "PROBE_START", "CYCLE_STOP", "ABORT",
                             "CLEAR_ALARM"}

SuspendFlags == {"HOLD_COMPLETE", "RESTART_RETRACT", "RETRACT_COMPLETE",
                 "INITIATE_RESTORE", "RESTORE_COMPLETE", "SAFETY_DOOR_AJAR",
                 "MOTION_CANCEL", "JOG_CANCEL"}

StepFlags == {"END_MOTION", "EXECUTE_HOLD"}

StopOvrFlags == {"ENABLED", "INITIATE", "RESTORE", "RESTORE_CYCLE"}

Machines == {"init", "idle", "suspend", "delay"}

\* The steps of one pass of do_grbl(), in their order, and the ends of a reset.
Phases == {"reset", "reset_end", "serial", "line", "arc", "limits", "exec", "hold", "start",
           "prep", "probe_start", "stop", "abort", "unlock", "override", "main_prep",
           "machine", "enable", "pins", "probe"}

LineStates == {"processing_chars", "pre_sync_check", "wait_pre_sync", "g_wait", "jog_wait",
               "after_command_executer"}

AllCommands == {"reset", "feed_hold", "cycle_start", "safety_door", "jog_cancel",
                "spindle_stop"}
AllLines    == {"motion", "arc", "jog", "probe", "unlock"}
AllEvents   == {"door", "abort", "limit"}
Gcode       == {"motion", "arc", "probe"}

ASSUME InputsAssumption ==
    /\ Commands \subseteq AllCommands
    /\ Lines \subseteq AllLines
    /\ Events \subseteq AllEvents
ASSUME BuffersAssumption ==
    /\ BLOCK_BUFFER \in Nat \ {0}
    /\ SEGMENT_BUFFER \in Nat \ {0}
    /\ BlockSegments \in Nat \ {0}
    /\ ArcLines \in Nat \ {0}
ASSUME SpindleAssumption == Spindle \in BOOLEAN

VARIABLES
    exec,           \* sys_rt_exec_state
    alarm,          \* sys_rt_exec_alarm is set
    stopOvr,        \* sys_rt_exec_accessory_override has EXEC_SPINDLE_OVR_STOP
    state,          \* sys.state
    suspend,        \* sys.suspend
    step_control,   \* sys.step_control
    spindle_stop,   \* sys.spindle_stop_ovr
    sm,             \* grbl_system_sm
    lastState,      \* system_lastState: the queued blocks have been noticed
    delay,          \* system_suspendTime is running
    blocks,         \* blocks in the planner buffer
    prepped,        \* pl_block # NULL
    recalculate,    \* prep.recalculate_flag
    left,           \* segments left in the block being prepped
    segments,       \* segments in the segment buffer
    running,        \* the stepper interrupt is enabled (isStepperRunning)
    probing,        \* do_mc_probe_cycle
    monitor,        \* sys_probe_state = PROBE_ACTIVE
    touched,        \* history: the probe has touched in this probing cycle
    spindle,        \* the spindle output is energised
    estop,          \* stepper_enable_emergency_stop_active = MACHINE_STOP
    line,           \* the received line that waits for its execution
    lineSm,         \* lineStateMachine
    arc,            \* lines the arc generator still has to queue
    door, doorLast,     \* safety door pin (TRUE: open), as last polled
    abortPin, abortLast,\* emergency stop pin, as last polled
    limit,          \* a limit switch is engaged that was not when last looked at
    resetting,      \* grbl_reset_asyn_execute
    phase,          \* the step of do_grbl() that comes next
    rt,             \* rt_exec: the flags this pass of do_system() saw
    after,          \* the phase st_prep_buffer() returns to
    wake            \* st_wake_up() follows st_prep_buffer()

flags   == << exec, alarm, stopOvr >>
sys     == << state, suspend, step_control, spindle_stop >>
machine == << sm, lastState, delay >>
stepgen == << prepped, recalculate, left, segments >>
motion  == << blocks, stepgen, running >>
probe   == << probing, monitor, touched >>
outputs == << spindle, estop >>
pins    == << door, doorLast, abortPin, abortLast, limit >>
host    == << line, lineSm, arc, resetting >>
prepSub == << after, wake >>
loop    == << phase, rt, prepSub >>
vars    == << flags, sys, machine, motion, probe, outputs, pins, host, loop >>

Init ==
    /\ exec = {} /\ alarm = FALSE /\ stopOvr = FALSE
    /\ state = "IDLE" /\ suspend = {} /\ step_control = {} /\ spindle_stop = {}
    /\ sm = "idle" /\ lastState = FALSE /\ delay = FALSE
    /\ blocks = 0 /\ prepped = FALSE /\ recalculate = FALSE /\ left = 0
    /\ segments = 0 /\ running = FALSE
    /\ probing = FALSE /\ monitor = FALSE /\ touched = FALSE
    /\ spindle = Spindle /\ estop = FALSE
    /\ line = "none" /\ lineSm = "processing_chars" /\ arc = 0 /\ resetting = FALSE
    /\ door = FALSE /\ doorLast = FALSE /\ abortPin = FALSE /\ abortLast = FALSE
    /\ limit = FALSE
    /\ phase = "serial" /\ rt = {} /\ after = "serial" /\ wake = FALSE

-----------------------------------------------------------------------------
(* What the handlers share.                                                *)

Has(f) == f \in suspend

\* Mutant of Clear: the flags that were set since the snapshot go with it.
ClearAll(fs) == exec' = {}

\* system_clear_exec_state_flag, by mask and with the interrupts disabled.
Clear(fs) == exec' = exec \ fs

\* st_update_plan_block_parameters: the block in preparation is recomputed.
UpdatePlanBlock ==
    /\ prepped' = FALSE
    /\ recalculate' = (recalculate \/ prepped)
    /\ UNCHANGED << blocks, left, segments, running >>

\* Mutant of ResetMotion: the step generator is not emptied.
ResetPlannerOnly ==
    /\ blocks' = 0 /\ segments' = 0 /\ running' = FALSE
    /\ UNCHANGED << prepped, recalculate, left >>

\* plan_reset and st_reset: planner and step generator are emptied and stopped.
ResetMotion ==
    /\ blocks' = 0
    /\ prepped' = FALSE /\ recalculate' = FALSE /\ left' = 0
    /\ segments' = 0
    /\ running' = FALSE

-----------------------------------------------------------------------------
(* TIMER1_COMPA_vect, the stepper interrupt.                               *)

\* A segment is executed; the spindle follows it; the probe may touch.
InterruptSegment ==
    /\ running /\ segments > 0
    /\ segments' = segments - 1
    /\ spindle' = Spindle
    /\ \/ UNCHANGED << exec, monitor, touched >>
       \/ /\ monitor
          /\ monitor' = FALSE
          /\ touched' = TRUE
          /\ exec' = exec \cup {"MOTION_CANCEL"}
    /\ UNCHANGED << alarm, stopOvr, sys, machine, blocks, prepped, recalculate, left,
                    running, probing, estop, pins, host, loop >>

\* The segment buffer is empty: the stepper goes idle and says so.
InterruptEmpty ==
    /\ running /\ segments = 0
    /\ running' = FALSE
    /\ exec' = exec \cup {"CYCLE_STOP"}
    /\ UNCHANGED << alarm, stopOvr, sys, machine, blocks, stepgen, probe, outputs, pins,
                    host, loop >>

-----------------------------------------------------------------------------
(* The machine's inputs.                                                   *)

DoorMoves ==
    /\ "door" \in Events
    /\ door' = ~door
    /\ UNCHANGED << flags, sys, machine, motion, probe, outputs, doorLast, abortPin,
                    abortLast, limit, host, loop >>

AbortPinMoves ==
    /\ "abort" \in Events
    /\ abortPin' = ~abortPin
    /\ UNCHANGED << flags, sys, machine, motion, probe, outputs, door, doorLast,
                    abortLast, limit, host, loop >>

LimitMoves ==
    /\ "limit" \in Events
    /\ limit' = ~limit
    /\ UNCHANGED << flags, sys, machine, motion, probe, outputs, door, doorLast,
                    abortPin, abortLast, host, loop >>

-----------------------------------------------------------------------------
(* do_grbl: the soft reset.                                                *)

\* Everything up to plan_reset(); the stepper interrupt is still enabled.
ResetBegin ==
    /\ phase = "reset"
    /\ exec' = {} /\ alarm' = FALSE /\ stopOvr' = FALSE
    /\ suspend' = {} /\ step_control' = {} /\ spindle_stop' = {}
    /\ sm' = "init" /\ lastState' = FALSE /\ delay' = FALSE
    /\ blocks' = 0 /\ prepped' = FALSE /\ recalculate' = FALSE /\ left' = 0
    /\ segments' = 0
    /\ probing' = FALSE /\ monitor' = FALSE /\ touched' = FALSE
    /\ spindle' = FALSE /\ estop' = FALSE
    /\ doorLast' = FALSE /\ abortLast' = FALSE
    /\ line' = "none" /\ lineSm' = "processing_chars" /\ arc' = 0
    /\ phase' = "reset_end"
    /\ UNCHANGED << state, running, door, abortPin, limit, resetting, rt,
                    prepSub >>

\* st_reset() and what follows it.
ResetEnd ==
    /\ phase = "reset_end"
    /\ running' = FALSE
    /\ resetting' = FALSE
    /\ phase' = "serial"
    /\ UNCHANGED << flags, sys, machine, blocks, stepgen, probe, outputs, pins, line,
                    lineSm, arc, rt, prepSub >>

-----------------------------------------------------------------------------
(* do_protocol_main_loop: one real-time character and one line per pass.   *)

\* The flag a real-time character sets; a jog cancel counts in JOG only.
CommandFlag(c) ==
    CASE c = "feed_hold"   -> {"FEED_HOLD"}
      [] c = "cycle_start" -> {"CYCLE_START"}
      [] c = "safety_door" -> {"SAFETY_DOOR"}
      [] c = "jog_cancel"  -> IF state = "JOG" THEN {"MOTION_CANCEL"} ELSE {}
      [] OTHER             -> {}

\* No character, or process_single_char_command.
Serial ==
    /\ phase = "serial"
    /\ phase' = "line"
    /\ \/ UNCHANGED << exec, stopOvr, resetting >>
       \/ \E c \in Commands :
            /\ exec' = exec \cup CommandFlag(c)
            /\ stopOvr' = (stopOvr \/ c = "spindle_stop")
            /\ resetting' = (resetting \/ c = "reset")
    /\ UNCHANGED << alarm, sys, machine, motion, probe, outputs, pins, line,
                    lineSm, arc, rt, prepSub >>

\* The end of a line is received; g-code is refused in ALARM and JOG.
LineArrives ==
    /\ phase = "line" /\ lineSm = "processing_chars"
    /\ \E kind \in Lines :
         /\ kind \in Gcode => state \notin {"ALARM", "JOG"}
         /\ line' = kind
         /\ lineSm' = IF kind \in Gcode THEN "pre_sync_check" ELSE "jog_wait"
    /\ phase' = "arc"
    /\ UNCHANGED << flags, sys, machine, motion, probe, outputs, pins, arc, resetting, rt,
                    prepSub >>

\* The effects of a line of g-code are over: the next line may be received.
CommandEnds == ~probing /\ arc = 0

\* G38 waits until the planner is empty and the stepper has stopped; the other
\* g-code and, at the end of any g-code line, the next line wait one pass.
LineProceeds ==
    /\ phase = "line"
    /\ \/ lineSm = "pre_sync_check"
          /\ lineSm' = IF line = "probe" THEN "wait_pre_sync" ELSE "g_wait"
       \/ lineSm = "wait_pre_sync" /\ blocks = 0 /\ ~running
          /\ lineSm' = "g_wait"
       \/ lineSm = "after_command_executer" /\ CommandEnds
          /\ lineSm' = "processing_chars"
    /\ phase' = "arc"
    /\ UNCHANGED << flags, sys, machine, motion, probe, outputs, pins, line, arc, resetting,
                    rt, prepSub >>

\* The line received is executed as soon as the planner has room for a block.
Executes(kind, wait) ==
    /\ phase = "line" /\ lineSm = wait /\ line = kind
    /\ blocks < BLOCK_BUFFER
    /\ lineSm' = IF wait = "g_wait" THEN "after_command_executer" ELSE "processing_chars"
    /\ line' = "none"

\* mc_line queues a block, or none if the motion has no steps.
QueueLine == blocks' \in {blocks, blocks + 1}

\* A motion command.
LineMotion ==
    /\ Executes("motion", "g_wait")
    /\ QueueLine
    /\ phase' = "arc"
    /\ UNCHANGED << flags, sys, machine, stepgen, running, probe, outputs, pins,
                    arc, resetting, rt, prepSub >>

\* G2 and G3: mc_arc sets the generator up; an arc too short for two lines is
\* queued at once, and once more by the generator.
LineArc ==
    /\ Executes("arc", "g_wait")
    /\ \/ arc' \in 1 .. ArcLines /\ UNCHANGED blocks
       \/ arc' = 1 /\ QueueLine
    /\ phase' = "arc"
    /\ UNCHANGED << flags, sys, machine, stepgen, running, probe, outputs, pins,
                    resetting, rt, prepSub >>

\* $J is refused but in IDLE and JOG.
JogAllowed == state \in {"IDLE", "JOG"}

\* $J: jog_execute queues the block and, in IDLE, starts the stepper at once.
LineJog ==
    /\ Executes("jog", "jog_wait")
    /\ \/ /\ ~JogAllowed
          /\ phase' = "arc"
          /\ UNCHANGED << state, blocks, prepSub >>
       \/ /\ JogAllowed
          /\ QueueLine
          /\ IF state = "IDLE" /\ blocks' > 0
               THEN /\ state' = "JOG"
                    /\ phase' = "prep"
                    /\ after' = "arc" /\ wake' = TRUE
               ELSE phase' = "arc" /\ UNCHANGED << state, prepSub >>
    /\ UNCHANGED << flags, suspend, step_control, spindle_stop, machine, stepgen,
                    running, probe, outputs, pins, arc, resetting, rt >>

\* $X: asks do_system() to clear the alarm, unless the door is open.
LineUnlock ==
    /\ Executes("unlock", "jog_wait")
    /\ exec' = IF state = "ALARM" /\ ~door THEN exec \cup {"CLEAR_ALARM"} ELSE exec
    /\ phase' = "arc"
    /\ UNCHANGED << alarm, stopOvr, sys, machine, motion, probe, outputs, pins,
                    arc, resetting, rt, prepSub >>

\* G38: mc_probe_cycle queues the motion and arms the monitor.
LineProbe ==
    /\ Executes("probe", "g_wait")
    /\ \/ /\ QueueLine
          /\ probing' = TRUE /\ monitor' = TRUE /\ touched' = FALSE
          /\ exec' = exec \cup {"PROBE_START"}
          /\ UNCHANGED alarm
       \/ /\ alarm' = TRUE          \* the probe is triggered already
          /\ UNCHANGED << exec, blocks, probe >>
    /\ phase' = "arc"
    /\ UNCHANGED << stopOvr, sys, machine, stepgen, running, outputs, pins,
                    arc, resetting, rt, prepSub >>

\* No line is complete, or the one received has to wait.
LineWaits ==
    /\ phase = "line"
    /\ \/ lineSm = "processing_chars"
       \/ lineSm \in {"g_wait", "jog_wait"} /\ blocks = BLOCK_BUFFER
       \/ lineSm = "wait_pre_sync" /\ (blocks > 0 \/ running)
       \/ lineSm = "after_command_executer" /\ ~CommandEnds
    /\ phase' = "arc"
    /\ UNCHANGED << flags, sys, machine, motion, probe, outputs, pins, host, rt,
                    prepSub >>

\* Mutant of ArcRoom: it waits for room for two blocks.
ArcRoomShort == blocks < BLOCK_BUFFER - 1

\* The arc generator goes on while the planner is not full.
ArcRoom == blocks < BLOCK_BUFFER

\* do_motion_control: the arc generator queues one line.
ArcGenerator ==
    /\ phase = "arc"
    /\ IF arc > 0 /\ ArcRoom
         THEN arc' = arc - 1 /\ QueueLine
         ELSE UNCHANGED << arc, blocks >>
    /\ phase' = "limits"
    /\ UNCHANGED << flags, sys, machine, stepgen, running, probe, outputs, pins, line,
                    lineSm, resetting, rt, prepSub >>

\* Mutant of MustStop: the moving states are forgotten.
MustStopInHold == "EXECUTE_HOLD" \in step_control

\* mc_stop kills the steppers in any state that moves them.
MustStop == state \in {"CYCLE", "JOG"} \/ "EXECUTE_HOLD" \in step_control

\* do_limits and mc_stop: an engaged limit switch stops everything.
Limits ==
    /\ phase = "limits"
    /\ phase' = "exec"
    /\ \/ UNCHANGED << limit, alarm, spindle, motion, exec >>
       \/ /\ limit /\ state # "ALARM" /\ ~alarm
          /\ limit' = FALSE
          /\ alarm' = TRUE
          /\ spindle' = FALSE
          /\ IF MustStop THEN ResetMotion /\ exec' = exec \cup {"CYCLE_STOP"}
                         ELSE UNCHANGED << motion, exec >>
    /\ UNCHANGED << stopOvr, sys, machine, probe, estop, door, doorLast, abortPin,
                    abortLast, host, rt, prepSub >>

-----------------------------------------------------------------------------
(* do_system: alarm, the flags, the overrides, the segment generator.      *)

\* system_exec_rt_system_alarm, then the one read of the flags of this pass.
ExecAlarm ==
    /\ phase = "exec"
    /\ state' = IF alarm THEN "ALARM" ELSE state
    /\ alarm' = FALSE
    /\ rt' = exec
    /\ phase' = IF exec = {} THEN "override"
                ELSE IF exec \cap HoldFlags # {} THEN "hold" ELSE "start"
    /\ UNCHANGED << exec, stopOvr, suspend, step_control, spindle_stop, machine, motion,
                    probe, outputs, pins, host, prepSub >>

\* Mutant of MustDecelerate: a cycle is not slowed down.
MustDecelerateInJog == state = "JOG" /\ ~Has("MOTION_CANCEL") /\ ~Has("JOG_CANCEL")

\* The hold is not under way yet: the motion has to be decelerated.
MustDecelerate ==
    state \in {"CYCLE", "JOG"} /\ ~Has("MOTION_CANCEL") /\ ~Has("JOG_CANCEL")

\* Mutant of HoldsAtOnce: a cycle is taken for rest.
HoldsAtOnceInCycle == state \in {"IDLE", "CYCLE"}

\* Nothing moves: the hold is complete as it begins.
HoldsAtOnce == state = "IDLE"

\* Feed hold, motion cancel and safety door.
Hold ==
    LET decelerate == MustDecelerate
        suspend1 == IF decelerate /\ state = "JOG" THEN suspend \cup {"JOG_CANCEL"}
                    ELSE IF HoldsAtOnce THEN {"HOLD_COMPLETE"}
                    ELSE suspend
        suspend2 == IF "MOTION_CANCEL" \in rt /\ state # "JOG"
                      THEN suspend1 \cup {"MOTION_CANCEL"} ELSE suspend1
        state1   == IF "FEED_HOLD" \in rt /\ state \notin {"SAFETY_DOOR", "JOG"}
                      THEN "HOLD" ELSE state
        opens    == "SAFETY_DOOR" \in rt /\ "JOG_CANCEL" \notin suspend2
        suspend3 == IF opens /\ state1 = "SAFETY_DOOR" /\ "INITIATE_RESTORE" \in suspend2
                      THEN (suspend2 \ {"RETRACT_COMPLETE", "INITIATE_RESTORE",
                                        "RESTORE_COMPLETE"}) \cup {"RESTART_RETRACT"}
                      ELSE suspend2
    IN /\ phase = "hold"
       /\ IF state = "ALARM"
            THEN UNCHANGED << state, suspend, step_control, motion >>
            ELSE /\ IF decelerate
                      THEN UpdatePlanBlock /\ step_control' = {"EXECUTE_HOLD"}
                      ELSE UNCHANGED << motion, step_control >>
                 /\ state' = IF opens THEN "SAFETY_DOOR" ELSE state1
                 /\ suspend' = IF "SAFETY_DOOR" \in rt
                                 THEN suspend3 \cup {"SAFETY_DOOR_AJAR"} ELSE suspend3
       /\ Clear(HoldFlags)
       /\ phase' = "stop"
       /\ UNCHANGED << alarm, stopOvr, spindle_stop, machine, probe, outputs, pins, host,
                       rt, prepSub >>

\* Mutant of SuspendBroken: only the completed hold is forgotten.
HoldBroken == suspend \ {"HOLD_COMPLETE"}

\* A start breaks the suspend state.
SuspendBroken == {}

\* What CYCLE_START and PROBE_START do once they may start a cycle.
BeginCycle(next) ==
    /\ step_control' = {}
    /\ suspend' = SuspendBroken
    /\ IF blocks > 0 /\ ~Has("MOTION_CANCEL")
         THEN /\ state' = "CYCLE"
              /\ phase' = "prep" /\ after' = next /\ wake' = TRUE
         ELSE /\ state' = "IDLE"
              /\ phase' = next
              /\ UNCHANGED prepSub
    /\ UNCHANGED spindle_stop

\* The door was found closed again after the machine had been secured.
DoorClosed == state = "SAFETY_DOOR" /\ ~Has("SAFETY_DOOR_AJAR")

\* Nothing is held, a closed door has been restored, or the hold is complete.
CanStart ==
    \/ state = "IDLE"
    \/ DoorClosed /\ Has("RESTORE_COMPLETE")
    \/ state = "HOLD" /\ Has("HOLD_COMPLETE")

\* Cycle start: resume a closed door, resume a completed hold, or start.
CycleStart ==
    LET closed   == DoorClosed
        canStart == CanStart
    IN /\ phase = "start"
       /\ IF "CYCLE_START" \in rt
            THEN /\ Clear({"CYCLE_START"})
                 /\ \/ /\ ~canStart
                       /\ suspend' = IF closed /\ Has("RETRACT_COMPLETE")
                                       THEN suspend \cup {"INITIATE_RESTORE"} ELSE suspend
                       /\ phase' = "probe_start"
                       /\ UNCHANGED << state, step_control, spindle_stop, prepSub >>
                    \/ /\ canStart /\ state = "HOLD" /\ spindle_stop # {}
                       /\ spindle_stop' = spindle_stop \cup {"RESTORE_CYCLE"}
                       /\ phase' = "probe_start"
                       /\ UNCHANGED << state, suspend, step_control, prepSub >>
                    \/ /\ canStart /\ ~(state = "HOLD" /\ spindle_stop # {})
                       /\ BeginCycle("probe_start")
            ELSE /\ phase' = "probe_start"
                 /\ UNCHANGED << exec, sys, prepSub >>
       /\ UNCHANGED << alarm, stopOvr, machine, motion, probe, outputs, pins, host, rt >>

ProbeStart ==
    /\ phase = "probe_start"
    /\ IF "PROBE_START" \in rt
         THEN /\ Clear({"PROBE_START"})
              /\ IF state = "IDLE" THEN BeginCycle("stop")
                 ELSE phase' = "stop" /\ UNCHANGED << sys, prepSub >>
         ELSE phase' = "stop" /\ UNCHANGED << exec, sys, prepSub >>
    /\ UNCHANGED << alarm, stopOvr, machine, motion, probe, outputs, pins, host, rt >>

SegmentRoom == segments < SEGMENT_BUFFER

\* st_prep_buffer, one turn of its loop: room for a segment, a block to cut.
\* A block that is loaded has 1..BlockSegments segments, one that is recomputed
\* after a hold or a replan those it had left.
PrepTurn(n) ==
    /\ phase = "prep"
    /\ "END_MOTION" \notin step_control
    /\ SegmentRoom
    /\ prepped \/ blocks > 0
    /\ n \in IF prepped \/ recalculate THEN {left} ELSE 1 .. BlockSegments
    /\ recalculate' = FALSE
    /\ UNCHANGED << flags, state, suspend, spindle_stop, machine, running, probe, outputs,
                    pins, host, loop >>

\* A segment is made and the block goes on.
PrepSegment ==
    \E n \in 2 .. BlockSegments :
        /\ PrepTurn(n)
        /\ segments' = segments + 1
        /\ left' = n - 1
        /\ prepped' = TRUE
        /\ UNCHANGED << step_control, blocks >>

\* The last segment of the block is made and the block discarded.
PrepEndOfBlock ==
    /\ PrepTurn(1)
    /\ segments' = segments + 1
    /\ left' = 0
    /\ prepped' = FALSE
    /\ blocks' = blocks - 1
    /\ UNCHANGED step_control

\* A hold comes to rest inside the block, with or without a last step.
PrepRest ==
    \E n \in 1 .. BlockSegments :
        /\ PrepTurn(n)
        /\ "EXECUTE_HOLD" \in step_control
        /\ step_control' = step_control \cup {"END_MOTION"}
        /\ \/ n > 1 /\ left' = n - 1 /\ segments' = segments + 1
           \/ left' = n /\ segments' = segments
        /\ prepped' = TRUE
        /\ UNCHANGED blocks

\* It returns, and st_wake_up() follows where a motion is being started.
PrepDone ==
    /\ phase = "prep"
    /\ \/ "END_MOTION" \in step_control
       \/ ~SegmentRoom
       \/ ~prepped /\ blocks = 0
    /\ running' = (running \/ wake)
    /\ wake' = FALSE
    /\ phase' = after
    /\ UNCHANGED << flags, sys, machine, blocks, stepgen, probe, outputs, pins, host, rt,
                    after >>

\* The stop completes a hold; otherwise a motion, a jog cancel or a motion cancel.
StopCompletesHold == state \in {"HOLD", "SAFETY_DOOR"} /\ ~Has("JOG_CANCEL")

\* Mutant of StoppedState: the alarm is forgotten.
StoppedIdle == "IDLE"

\* A stop leaves the state at IDLE, an alarm at ALARM.
StoppedState == IF state = "ALARM" THEN state ELSE "IDLE"

\* Cycle stop: the stepper has run dry.
CycleStop ==
    LET holds == StopCompletesHold
    IN /\ phase = "stop"
       /\ IF "CYCLE_STOP" \in rt
            THEN /\ Clear({"CYCLE_STOP"})
                 /\ \/ \* Hold complete, ready to resume.
                       /\ holds
                       /\ UpdatePlanBlock
                       /\ suspend' = IF "EXECUTE_HOLD" \in step_control
                                       THEN suspend \cup {"HOLD_COMPLETE"} ELSE suspend
                       /\ step_control' = step_control \ {"EXECUTE_HOLD"}
                       /\ UNCHANGED state
                    \/ \* Motion complete, jog or motion cancelled.
                       /\ ~holds
                       /\ IF Has("JOG_CANCEL") THEN ResetMotion /\ step_control' = {}
                                               ELSE UNCHANGED << motion, step_control >>
                       /\ IF Has("SAFETY_DOOR_AJAR")
                            THEN /\ suspend' = (suspend \ {"JOG_CANCEL"}) \cup {"HOLD_COMPLETE"}
                                 /\ state' = "SAFETY_DOOR"
                            ELSE /\ suspend' = {}
                                 /\ state' = StoppedState
            ELSE UNCHANGED << exec, motion, state, suspend, step_control >>
       /\ phase' = "abort"
       /\ UNCHANGED << alarm, stopOvr, spindle_stop, machine, probe, outputs, pins, host, rt,
                       prepSub >>

\* Emergency stop: drivers off, spindle off, everything emptied, alarm.
Abort ==
    /\ phase = "abort"
    /\ IF "ABORT" \in rt
         THEN /\ Clear({"ABORT"})
              /\ estop' = TRUE /\ spindle' = FALSE
              /\ alarm' = TRUE
              /\ ResetMotion
         ELSE UNCHANGED << exec, outputs, alarm, motion >>
    /\ phase' = "unlock"
    /\ UNCHANGED << stopOvr, sys, machine, probe, pins, host, rt, prepSub >>

\* The alarm lock is killed, unless the emergency stop is still pressed.
ClearAlarm ==
    /\ phase = "unlock"
    /\ IF "CLEAR_ALARM" \in rt
         THEN /\ Clear({"CLEAR_ALARM"})
              /\ estop' = (estop /\ abortPin)
              /\ state' = IF abortPin THEN state ELSE "IDLE"
         ELSE UNCHANGED << exec, estop, state >>
    /\ phase' = "override"
    /\ UNCHANGED << alarm, stopOvr, suspend, step_control, spindle_stop, machine, motion,
                    probe, spindle, pins, host, rt, prepSub >>

\* system_exec_rt_system_override: the spindle stop override, in HOLD only.
Override ==
    /\ phase = "override"
    /\ stopOvr' = FALSE
    /\ spindle_stop' = IF ~stopOvr \/ state # "HOLD" THEN spindle_stop
                       ELSE IF spindle_stop = {} THEN {"INITIATE"}
                       ELSE IF "ENABLED" \in spindle_stop THEN spindle_stop \cup {"RESTORE"}
                       ELSE spindle_stop
    /\ rt' = {}
    /\ phase' = "main_prep"
    /\ UNCHANGED << exec, alarm, state, suspend, step_control, machine, motion, probe,
                    outputs, pins, host, prepSub >>

\* Reload the segment buffer while there may be something to execute.
MainPrep ==
    /\ phase = "main_prep"
    /\ IF state \in {"CYCLE", "HOLD", "SAFETY_DOOR", "JOG"}
         THEN phase' = "prep" /\ after' = "machine" /\ wake' = FALSE
         ELSE phase' = "machine" /\ UNCHANGED prepSub
    /\ UNCHANGED << flags, sys, machine, motion, probe, outputs, pins, host, rt >>

-----------------------------------------------------------------------------
(* do_system: the suspend state machine.                                   *)

\* Mutant of Retracted: the spindle is left on.
SpindleLeftOn(output) == output

\* The output of the spindle once the machine is secured.
Retracted(output) == FALSE

\* Mutant of DoorCloses: the edge is awaited and not the level.
DoorClosesOnEdge == Has("RETRACT_COMPLETE") /\ doorLast /\ ~door

\* The machine is secured and the door is found closed.
DoorCloses == Has("RETRACT_COMPLETE") /\ ~door

\* protocol_exec_rt_suspend_async with the door open or just closed.
SuspendDoor ==
    LET closes   == DoorCloses
        restores == Has("RETRACT_COMPLETE") /\ ~Has("RESTART_RETRACT")
                    /\ (closes \/ Has("INITIATE_RESTORE"))
    IN /\ spindle_stop' = IF Has("RETRACT_COMPLETE") THEN spindle_stop ELSE {}
       /\ suspend' = IF ~Has("RETRACT_COMPLETE")
                       THEN (suspend \ {"RESTART_RETRACT"}) \cup {"RETRACT_COMPLETE"}
                       ELSE (IF closes THEN (suspend \ {"SAFETY_DOOR_AJAR"})
                                            \cup {"INITIATE_RESTORE"} ELSE suspend)
                            \cup (IF restores THEN {"RESTORE_COMPLETE"} ELSE {})
       /\ spindle' = IF ~Has("RETRACT_COMPLETE") THEN Retracted(spindle)
                     ELSE spindle \/ (restores /\ Spindle)
       /\ delay' = (delay \/ (restores /\ Spindle))
       /\ exec' = IF closes \/ restores THEN exec \cup {"CYCLE_START"} ELSE exec

\* The same in the other states: the spindle stop override.
SuspendHold ==
    /\ \/ /\ spindle_stop = {}
          /\ UNCHANGED << spindle, spindle_stop, exec >>
       \/ /\ "INITIATE" \in spindle_stop
          /\ spindle' = (spindle /\ ~Spindle)
          /\ spindle_stop' = IF Spindle THEN {"ENABLED"} ELSE {}
          /\ UNCHANGED exec
       \/ /\ "INITIATE" \notin spindle_stop
          /\ spindle_stop \cap {"RESTORE", "RESTORE_CYCLE"} # {}
          /\ spindle' = (spindle \/ Spindle)
          /\ spindle_stop' = {}
          /\ exec' = IF "RESTORE_CYCLE" \in spindle_stop
                       THEN exec \cup {"CYCLE_START"} ELSE exec
       \/ /\ spindle_stop = {"ENABLED"}
          /\ UNCHANGED << spindle, spindle_stop, exec >>
    /\ UNCHANGED << suspend, delay >>

\* sm_init
MachineInit ==
    /\ sm = "init"
    /\ \/ /\ state' = IF state = "ALARM" THEN state ELSE "IDLE"
          /\ exec' = IF state # "ALARM" /\ door THEN exec \cup {"SAFETY_DOOR"} ELSE exec
       \/ /\ "limit" \in Events      \* a hard limit is engaged at start-up
          /\ state' = "ALARM"
          /\ UNCHANGED exec
    /\ sm' = "idle"
    /\ UNCHANGED << suspend, spindle_stop, lastState, delay, spindle >>

\* sm_idle: queued blocks are started once, when they appear.
MachineIdle ==
    /\ sm = "idle"
    /\ lastState' = (blocks > 0)
    /\ exec' = IF ~lastState /\ blocks > 0 THEN exec \cup {"CYCLE_START"} ELSE exec
    /\ sm' = IF suspend = {} THEN sm ELSE "suspend"
    /\ UNCHANGED << state, suspend, spindle_stop, delay, spindle >>

\* sm_suspend
MachineSuspend ==
    /\ sm = "suspend"
    /\ IF ~Has("HOLD_COMPLETE")
         THEN UNCHANGED << suspend, spindle_stop, delay, spindle, exec >>
         ELSE IF state = "SAFETY_DOOR" THEN SuspendDoor ELSE SuspendHold
    /\ sm' = IF suspend' = {} THEN "idle" ELSE IF delay' THEN "delay" ELSE sm
    /\ UNCHANGED << state, lastState >>

\* sm_suspend_delay
MachineDelay ==
    /\ sm = "delay"
    /\ sm' = IF delay THEN sm ELSE "suspend"
    /\ UNCHANGED << state, suspend, spindle_stop, lastState, delay, spindle, exec >>

Machine ==
    /\ phase = "machine"
    /\ MachineInit \/ MachineIdle \/ MachineSuspend \/ MachineDelay
    /\ phase' = "enable"
    /\ UNCHANGED << alarm, stopOvr, step_control, motion, probe, estop, pins, host, rt,
                    prepSub >>

\* The timer of the spindle and coolant delay runs out.
DelayEnds ==
    /\ delay
    /\ delay' = FALSE
    /\ UNCHANGED << flags, sys, sm, lastState, motion, probe, outputs, pins, host, loop >>

\* do_stepper_enable: a stop that is pressed for several of its samples, and so
\* was polled by system_control_pins() too, disables the drivers by itself.
StepperEnable ==
    /\ phase = "enable"
    /\ estop' \in {estop, estop \/ (abortPin /\ abortLast)}
    /\ phase' = "pins"
    /\ UNCHANGED << flags, sys, machine, motion, probe, spindle, pins, host, rt, prepSub >>

\* The stop is polled for both edges: pressing it and letting it go.
AbortEdge == abortPin # abortLast

\* system_control_pins, which polls once a millisecond.
ControlPins ==
    /\ phase = "pins"
    /\ \/ UNCHANGED << exec, abortLast, doorLast >>
       \/ /\ exec' = exec \cup (IF AbortEdge THEN {"ABORT"} ELSE {})
                          \cup (IF door /\ ~doorLast THEN {"SAFETY_DOOR"} ELSE {})
          /\ abortLast' = abortPin
          /\ doorLast' = door
    /\ phase' = "probe"
    /\ UNCHANGED << alarm, stopOvr, sys, machine, motion, probe, outputs, door, abortPin,
                    limit, host, rt, prepSub >>

\* Mutant of ProbeCycleEnds: the touch is awaited.
ProbeCycleEndsOnTouch ==
    probing /\ ~monitor /\ "PROBE_START" \notin exec /\ state = "IDLE"

\* The probing motion was started and is over.
ProbeCycleEnds == probing /\ "PROBE_START" \notin exec /\ state = "IDLE"

\* do_probe and mc_probe_cycle_async: the probing cycle ends in IDLE.
Probe ==
    /\ phase = "probe"
    /\ IF ProbeCycleEnds
         THEN /\ alarm' \in IF monitor THEN {alarm, TRUE} ELSE {alarm}
              /\ probing' = FALSE /\ monitor' = FALSE /\ touched' = FALSE
              /\ ResetMotion
         ELSE UNCHANGED << alarm, probe, motion >>
    /\ phase' = IF resetting THEN "reset" ELSE "serial"
    /\ UNCHANGED << exec, stopOvr, sys, machine, outputs, pins, host, rt, prepSub >>

-----------------------------------------------------------------------------
Interrupt == InterruptSegment \/ InterruptEmpty

Environment == DoorMoves \/ AbortPinMoves \/ LimitMoves

Protocol ==
    \/ Serial \/ LineArrives \/ LineProceeds \/ LineMotion \/ LineArc \/ LineJog
    \/ LineUnlock \/ LineProbe \/ LineWaits

MainLoop ==
    \/ ResetBegin \/ ResetEnd
    \/ Protocol \/ ArcGenerator
    \/ Limits
    \/ ExecAlarm \/ Hold \/ CycleStart \/ ProbeStart
    \/ PrepSegment \/ PrepEndOfBlock \/ PrepRest \/ PrepDone
    \/ CycleStop \/ Abort \/ ClearAlarm \/ Override \/ MainPrep \/ Machine
    \/ StepperEnable \/ ControlPins \/ Probe

Next == Interrupt \/ MainLoop \/ DelayEnds \/ Environment

Spec == Init /\ [][Next]_vars

\* The main loop goes round for ever, the enabled stepper timer keeps firing,
\* a running timer runs out, and a deceleration comes to rest: the velocity of a
\* hold falls by a fixed amount per segment.
Fairness ==
    /\ WF_vars(MainLoop)
    /\ WF_vars(Interrupt)
    /\ WF_vars(DelayEnds)
    /\ SF_vars(PrepRest)

FairSpec == Spec /\ Fairness

-----------------------------------------------------------------------------
(* What must hold of every state.                                          *)

\* Every variable has its type: the flag words hold known flags only, and the
\* two buffers never hold more than their room.
TypeOK ==
    /\ exec \subseteq ExecFlags /\ alarm \in BOOLEAN /\ stopOvr \in BOOLEAN
    /\ state \in States /\ suspend \subseteq SuspendFlags
    /\ step_control \subseteq StepFlags /\ spindle_stop \subseteq StopOvrFlags
    /\ sm \in Machines /\ lastState \in BOOLEAN /\ delay \in BOOLEAN
    /\ blocks \in 0 .. BLOCK_BUFFER
    /\ prepped \in BOOLEAN /\ recalculate \in BOOLEAN
    /\ left \in 0 .. BlockSegments /\ segments \in 0 .. SEGMENT_BUFFER
    /\ running \in BOOLEAN
    /\ probing \in BOOLEAN /\ monitor \in BOOLEAN /\ touched \in BOOLEAN
    /\ spindle \in BOOLEAN /\ estop \in BOOLEAN
    /\ door \in BOOLEAN /\ doorLast \in BOOLEAN
    /\ abortPin \in BOOLEAN /\ abortLast \in BOOLEAN /\ limit \in BOOLEAN
    /\ line \in AllLines \cup {"none"} /\ lineSm \in LineStates
    /\ arc \in 0 .. ArcLines /\ resetting \in BOOLEAN
    /\ phase \in Phases /\ rt \subseteq ExecFlags
    /\ after \in Phases /\ wake \in BOOLEAN

\* The step generator prepares, or is due to recompute, only a block that the
\* planner still holds: whatever empties the planner (jog cancel, emergency
\* stop, limit, probe, reset) empties the step generator with it.
PreparedIsQueued == prepped \/ recalculate => blocks > 0 /\ left > 0

\* A hold that says it is complete is complete: the stepper is at rest, so the
\* spindle may be stopped and the door opened.
HoldIsAtRest == Has("HOLD_COMPLETE") => ~running

\* Once the machine is secured behind an open door neither the steppers nor the
\* spindle turn, whatever characters and lines the host sends.
OpenDoorIsSecured ==
    state = "SAFETY_DOOR" /\ {"RETRACT_COMPLETE", "SAFETY_DOOR_AJAR"} \subseteq suspend
        => ~running /\ ~spindle

\* The steppers move in a state of motion only: never in IDLE, where the next
\* line would be planned from a position the machine has not reached, and
\* never once the main loop comes round in ALARM.
MotionHasAState ==
    running => state \in {"CYCLE", "JOG", "HOLD", "SAFETY_DOOR"}

\* A latched emergency stop locks the machine: it is in ALARM, or will be once
\* the pending flags have been executed or the button, still pressed, is let go.
EmergencyStopLocks ==
    estop => state = "ALARM" \/ alarm \/ "ABORT" \in exec \/ abortLast

-----------------------------------------------------------------------------
(* What no step may do.                                                    *)

\* The steppers are only ever started as a cycle or a jog, and with no suspend
\* flag left over from an earlier hold.
MotionStartsClean ==
    [][~running /\ running' => state' \in {"CYCLE", "JOG"} /\ suspend' = {}]_vars

\* ALARM is left by $X alone (system.c:93-94).
AlarmIsKilledByUnlockOnly ==
    [][state = "ALARM" /\ state' # "ALARM" => phase = "unlock"]_vars

\* The touch of a probe that still moves is not forgotten: the motion cancel it
\* asked for is pending or in force until the motion is over.
TouchCancelsMotion ==
    touched /\ running /\ phase = "serial"
        => "MOTION_CANCEL" \in exec \/ Has("MOTION_CANCEL")

-----------------------------------------------------------------------------
(* What must come to pass.                                                 *)

\* A feed hold comes to rest and says so, unless something else ends it; and a
\* cancelled jog comes to an end.
HoldCompletes ==
    /\ state = "HOLD" ~> Has("HOLD_COMPLETE") \/ state # "HOLD"
    /\ Has("JOG_CANCEL") ~> ~Has("JOG_CANCEL")

\* A door that stays closed does not keep the machine suspended for ever, unless
\* the host keeps sending feed holds, each of which defers the cycle start.
ClosedDoorResumes ==
    <>[](~door /\ "FEED_HOLD" \notin exec) => []<>(state # "SAFETY_DOOR")

\* A probing cycle ends, with or without a touch, so that the host, whose next
\* line waits for it, is not blocked for ever; the emergency stop, if it is used
\* at all, is let go in the end.  An ALARM in between does block the host: probing
\* waits for IDLE, and the $X that would lead there waits for probing.
ProbingEnds == <>[](~abortPin) => (probing ~> ~probing \/ state = "ALARM")

\* The arc generator never stalls of itself, so that the host gets its answer
\* (grbl_protocol.c:189, "wait until arc generator is finished"): an arc comes to
\* its end unless the machine is left in IDLE, or in ALARM, with the planner full.
ArcEndsIfStarted ==
    []<>~(state \in {"IDLE", "ALARM"} /\ blocks = BLOCK_BUFFER) => (arc > 0 ~> arc = 0)

\* Motions queued in IDLE are started (system.c:157-159).
QueuedMotionStarts == blocks > 0 /\ state = "IDLE" ~> blocks = 0 \/ state # "IDLE"

=============================================================================
