---------------------------- MODULE Homing_proofs ----------------------------
(***************************************************************************)
(* Proofs about Homing, for every number of axes, every length of the      *)
(* filter, the segment buffer, the debounce delay and the motions, and     *)
(* every distance an axis can run beyond its switch.                       *)
(*                                                                         *)
(* The argument.  As long as nothing disturbs the cycle a motion starts    *)
(* with an empty step generator (RestsBetween), so all its steps are of    *)
(* the axis and the direction it was planned for (OneMotion), and no other *)
(* axis moves (OthersHomed).  The filter may show the past when a cycle    *)
(* begins: after a reset it is loaded without samples, and an axis may     *)
(* have moved since the last one.  The first approach and pull-off prove   *)
(* nothing, therefore, but that pull-off ends only with the switch not     *)
(* seen.  From there on a switch is seen only when it was sampled FILTER   *)
(* times in a row, and is still engaged as the axis only moves towards it  *)
(* (SwitchIsSeen); and it is lost from sight only when it has been sampled *)
(* open, and is still open as the axis only moves away (SwitchIsLeft).     *)
(***************************************************************************)
EXTENDS Homing, TLAPS, SequenceTheorems

Steps == [axis : Axes, dir : {-1, 1}]

Motion == [axis |-> axis, dir |-> IF approach THEN -1 ELSE 1]

Moving == goHome /\ sm = "HOME_2"

AtRest == ~running /\ ~loaded /\ mm = 0 /\ segments = << >>

Homed(a) == fault[a] = "none" /\ pos[a] \in 1 .. PULLOFF

\* The state machines of the command, of the axes and of one axis are nested.
Nested ==
    /\ goHome => mc = "WAIT"
    /\ mc # "IDLE" => homing
    /\ homing => waits
    /\ limitsDisabled <=> mc = "WAIT"
    /\ ~goHome => sm = "INIT"

\* Approaches and pull-offs alternate.
Counted ==
    sm \in {"HOME_1", "HOME_2", "DELAY"} =>
        n_cycle \in 0 .. 3 /\ (approach <=> n_cycle \in {1, 3})

NotAborted == undisturbed => "ABORT" \notin exec /\ ~estop

\* A step generator without a block has no steps.
NoBlockNoSteps == ~loaded => mm = 0 /\ segments = << >>

RestsBetween == undisturbed /\ waits /\ ~Moving => AtRest

OneMotion ==
    undisturbed /\ Moving =>
        /\ sysMotion /\ loaded
        /\ block = Motion /\ st = Motion
        /\ \A i \in 1 .. Len(segments) : segments[i] = Motion

\* From the end of the first pull-off to the end of the second approach.
SwitchIsSeen ==
    undisturbed /\ goHome =>
        /\ (\/ n_cycle = 2 /\ sm = "DELAY"
            \/ n_cycle = 1 /\ sm \in {"HOME_1", "HOME_2", "DELAY"})
             => (axis \in filtered => samples[axis] = FILTER /\ axis \in Engaged)
        /\ n_cycle = 1 /\ sm = "DELAY" => axis \in filtered

\* The second pull-off.
SwitchIsLeft ==
    undisturbed /\ goHome /\ n_cycle = 0 /\ sm \in {"HOME_1", "HOME_2"} =>
        /\ fault[axis] # "open"
        /\ IF axis \in filtered THEN samples[axis] = FILTER
           ELSE fault[axis] = "none" /\ pos[axis] > 0
        /\ fault[axis] = "none" =>
             IF sm = "HOME_1" THEN pos[axis] <= 0
             ELSE pos[axis] + (mm + Len(segments)) <= PULLOFF

\* The axis is where it belongs as soon as its last motion is over.
ThisHomed ==
    undisturbed /\ waits =>
        /\ goHome /\ (sm = "FINISHED" \/ (n_cycle = 0 /\ sm = "DELAY")) => Homed(axis)
        /\ mc = "WAIT" /\ ~goHome => Homed(axis)

OthersHomed ==
    undisturbed /\ waits =>
        /\ mc = "WAIT" => \A a \in 1 .. axis - 1 : Homed(a)
        /\ ~homing => \A a \in Axes : Homed(a)

\* What holds of a cycle that nothing has disturbed.
Cycle ==
    /\ RestsBetween
    /\ OneMotion
    /\ SwitchIsSeen
    /\ SwitchIsLeft
    /\ ThisHomed
    /\ OthersHomed

HInv ==
    /\ TypeOK
    /\ Nested
    /\ Counted
    /\ NotAborted
    /\ NoBlockNoSteps
    /\ Cycle

-----------------------------------------------------------------------------
(* The operators.                                                          *)

\* Segments made of a motion are its steps: none is lost, none is added, and they
\* are of the block in preparation or, when there is none, of the motion itself.
LEMMA PrepMakesSteps ==
    ASSUME segments \in Seq(Steps), Len(segments) <= SEGMENT_BUFFER, st \in Steps,
           loaded \in BOOLEAN,
           NEW b \in Steps, NEW m \in Nat, NEW end \in BOOLEAN, Prep(b, m, end)
    PROVE  /\ segments' \in Seq(Steps) /\ Len(segments') <= SEGMENT_BUFFER
           /\ st' \in Steps /\ loaded' \in BOOLEAN /\ mm' \in Nat /\ endMotion' \in BOOLEAN
           /\ mm' + Len(segments') = m + Len(segments)
           /\ loaded => loaded' /\ st' = st
           /\ ~loaded /\ m = 0 => ~loaded' /\ mm' = 0 /\ segments' = segments
           /\ ~loaded /\ m > 0 /\ ~end /\ segments = << >> => loaded' /\ st' = b
           /\ \A s \in Steps :
                /\ loaded => st = s
                /\ ~loaded => b = s
                /\ \A i \in 1 .. Len(segments) : segments[i] = s
                => \A i \in 1 .. Len(segments') : segments'[i] = s
<1> DEFINE s0 == IF loaded THEN st ELSE b
           n == IF m < SegmentRoom THEN m ELSE SegmentRoom
           new == [i \in 1 .. n |-> s0]
<1>1. Len(segments) \in Nat /\ SEGMENT_BUFFER \in Nat /\ SEGMENT_BUFFER > 0
  BY LenProperties, SizesAssumption
<1>2. n \in Nat /\ n <= m /\ n <= SEGMENT_BUFFER - Len(segments) /\ s0 \in Steps
      /\ (m > 0 /\ segments = << >> => n > 0)
  BY <1>1, EmptySeq DEF SegmentRoom
<1>3. CASE end \/ m = 0 \/ n = 0
  <2>1. mm' = m /\ endMotion' = end /\ UNCHANGED << loaded, st, segments >>
    BY <1>3 DEF Prep
  <2>2. ~(m > 0 /\ ~end /\ segments = << >>)
    BY <1>2, <1>3
  <2> QED
    BY <2>1, <2>2
<1>4. CASE ~(end \/ m = 0 \/ n = 0)
  <2>1. /\ segments' = segments \o new
        /\ mm' = m - n /\ loaded' = TRUE /\ st' = s0 /\ endMotion' = (m = n)
    BY <1>4 DEF Prep
  <2>2. new \in Seq(Steps) /\ Len(new) = n /\ \A i \in 1 .. n : new[i] = s0
    <3>1. new \in [1 .. n -> Steps]
      BY <1>2
    <3>2. new \in Seq(Steps)
      BY <1>2, <3>1, SeqDef
    <3> QED
      BY <1>2, <3>1, <3>2, LenProperties
  <2> HIDE DEF new, n, s0
  <2>3. /\ segments' \in Seq(Steps) /\ Len(segments') = Len(segments) + n
        /\ \A i \in 1 .. Len(segments) + n :
             segments'[i] = IF i <= Len(segments) THEN segments[i]
                            ELSE new[i - Len(segments)]
    BY <2>1, <2>2, ConcatProperties
  <2>4. \A s \in Steps : s0 = s /\ (\A i \in 1 .. Len(segments) : segments[i] = s)
            => \A i \in 1 .. Len(segments') : segments'[i] = s
    <3> SUFFICES ASSUME NEW s \in Steps, s0 = s,
                        \A i \in 1 .. Len(segments) : segments[i] = s,
                        NEW i \in 1 .. Len(segments')
                 PROVE  segments'[i] = s
      BY Zenon
    <3>1. i \in 1 .. Len(segments) + n /\ n \in Nat
      BY <1>2, <2>3
    <3>2. CASE i <= Len(segments)
      BY <1>1, <2>3, <3>1, <3>2
    <3>3. CASE i > Len(segments)
      <4>1. i - Len(segments) \in 1 .. n
        BY <1>1, <3>1, <3>3
      <4> QED
        BY <1>1, <2>2, <2>3, <3>1, <3>3, <4>1
    <3> QED
      BY <1>1, <3>1, <3>2, <3>3
  <2>5. /\ loaded => s0 = st
        /\ ~loaded => s0 = b
    BY DEF s0
  <2>6. endMotion' \in BOOLEAN
    BY <2>1, Zenon
  <2> QED
    BY <1>1, <1>2, <1>4, <2>1, <2>3, <2>4, <2>5, <2>6
<1> QED
  BY <1>3, <1>4

\* An axis never leaves its range, and goes no farther than the step.
LEMMA TowardsInRange ==
    ASSUME NEW p \in -STOP .. TRAVEL, NEW d \in {-1, 1}
    PROVE  /\ Towards(p, d) \in -STOP .. TRAVEL
           /\ d = 1 => p <= Towards(p, d) /\ Towards(p, d) <= p + 1
           /\ d = -1 => Towards(p, d) <= p
  BY SizesAssumption DEF Towards

\* TypeOK, one variable at a time.
LEMMA Types ==
    TypeOK <=>
      /\ state \in {"IDLE", "ALARM", "HOMING"} /\ exec \subseteq {"CYCLE_STOP", "ABORT"}
      /\ alarm \in BOOLEAN /\ sysMotion \in BOOLEAN /\ endMotion \in BOOLEAN
      /\ estop \in BOOLEAN /\ waits \in BOOLEAN /\ homing \in BOOLEAN /\ goHome \in BOOLEAN
      /\ approach \in BOOLEAN /\ axislock \in BOOLEAN /\ stopped \in BOOLEAN
      /\ loaded \in BOOLEAN /\ running \in BOOLEAN /\ limitsDisabled \in BOOLEAN
      /\ undisturbed \in BOOLEAN
      /\ mc \in {"IDLE", "TRIGGERED", "WAIT"}
      /\ sm \in {"INIT", "HOME_1", "HOME_2", "DELAY", "FINISHED"}
      /\ axis \in Axes /\ n_cycle \in 0 .. 255 /\ delay \in 0 .. DEBOUNCE
      /\ block \in Steps /\ st \in Steps /\ mm \in Nat
      /\ segments \in Seq(Steps) /\ Len(segments) <= SEGMENT_BUFFER
      /\ pos \in [Axes -> -STOP .. TRAVEL]
      /\ fault \in [Axes -> {"none", "open", "closed"}]
      /\ samples \in [Axes -> 0 .. FILTER]
      /\ filtered \subseteq Axes /\ limitsLast \subseteq Axes
      /\ phase \in Phases
  BY DEF TypeOK, Steps

\* What a step does to the step generator: nothing, the end of all motion, more
\* segments, or one segment executed.
LEMMA StepgenSteps ==
    ASSUME TypeOK, [Next]_vars
    PROVE  \/ UNCHANGED << block, mm, loaded, st, segments >>
           \/ ResetMotion
           \/ /\ block' \in Steps
              /\ \E b \in Steps, m \in Nat, end \in BOOLEAN :
                   Prep(b, m, end) /\ (~loaded => m = mm \/ (m > 0 /\ ~end))
           \/ /\ segments # << >> /\ segments' = Tail(segments)
              /\ UNCHANGED << block, mm, loaded, st >>
<1>1. block \in Steps /\ mm \in Nat /\ endMotion \in BOOLEAN /\ axis \in Axes
  BY Types
<1>2. CASE Axis /\ GoHome1
  <2> DEFINE b == [axis |-> axis, dir |-> IF approach THEN -1 ELSE 1]
  <2>1. b \in Steps
    BY <1>1 DEF Steps
  <2>2. (IF loaded THEN 1 .. SEEK ELSE {MaxTravel}) \subseteq Nat \ {0}
    BY SizesAssumption DEF MaxTravel
  <2> HIDE DEF b
  <2>3. block' = b /\ \E m \in (IF loaded THEN 1 .. SEEK ELSE {MaxTravel}) : Prep(b, m, FALSE)
    BY <1>2 DEF GoHome1, b
  <2>4. PICK m \in Nat \ {0} : Prep(b, m, FALSE)
    BY <2>2, <2>3
  <2>5. m \in Nat /\ m > 0
    BY <2>4
  <2> QED
    BY <2>1, <2>3, <2>4, <2>5
<1>3. CASE (Axis /\ (GoHome2Goes \/ GoHome2Fails)) \/ SystemPrep
  BY <1>1, <1>3 DEF GoHome2Goes, GoHome2Fails, SystemPrep, stepgen
<1>4. CASE Interrupt
  BY <1>4 DEF Interrupt, InterruptStep, InterruptEmpty
<1>5. CASE Axis /\ ~(GoHome1 \/ GoHome2Goes \/ GoHome2Fails)
  BY <1>5 DEF Axis, GoHomeInit, GoHome2Arrives, GoHomeDelay, GoHomeFinished, McStop, stepgen
<1>6. CASE LimitsTick \/ Abort \/ SoftReset
  BY <1>6 DEF LimitsTick, Abort, SoftReset, McStop, stepgen
<1>7. CASE \/ EmergencyStop \/ HomeCommand \/ LineWaits \/ LineHomeEnd \/ Homing
           \/ LimitsPass \/ ExecState \/ UNCHANGED vars
  BY <1>7 DEF EmergencyStop, HomeCommand, LineWaits, LineHomeEnd, Homing, LimitsPass,
     ExecState, vars, stepgen
<1> QED
  BY <1>2, <1>3, <1>4, <1>5, <1>6, <1>7, Zenon DEF Next, Pass

\* Every step keeps the variables in their types.
LEMMA TypePreserved == TypeOK /\ [Next]_vars => TypeOK'
<1> SUFFICES ASSUME TypeOK, [Next]_vars PROVE TypeOK'
  OBVIOUS
<1>0. /\ state \in {"IDLE", "ALARM", "HOMING"} /\ exec \subseteq {"CYCLE_STOP", "ABORT"}
      /\ alarm \in BOOLEAN /\ sysMotion \in BOOLEAN /\ endMotion \in BOOLEAN
      /\ estop \in BOOLEAN /\ waits \in BOOLEAN /\ homing \in BOOLEAN /\ goHome \in BOOLEAN
      /\ approach \in BOOLEAN /\ axislock \in BOOLEAN /\ stopped \in BOOLEAN
      /\ loaded \in BOOLEAN /\ running \in BOOLEAN /\ limitsDisabled \in BOOLEAN
      /\ undisturbed \in BOOLEAN
  BY Types
<1>1. 1 \in Axes /\ NoStep \in Steps /\ SEGMENT_BUFFER \in Nat /\ DEBOUNCE \in Nat
      /\ FILTER \in Nat /\ TRAVEL \in Nat /\ STOP \in Nat
  BY SizesAssumption DEF Axes, NoStep, Steps
<1>2. /\ block' \in Steps /\ st' \in Steps /\ mm' \in Nat
      /\ segments' \in Seq(Steps) /\ Len(segments') <= SEGMENT_BUFFER
      /\ loaded' \in BOOLEAN
  <2>0. /\ block \in Steps /\ st \in Steps /\ mm \in Nat /\ loaded \in BOOLEAN
        /\ segments \in Seq(Steps) /\ Len(segments) <= SEGMENT_BUFFER
    BY Types
  <2>1. CASE UNCHANGED << block, mm, loaded, st, segments >>
    BY <2>0, <2>1
  <2>2. CASE ResetMotion
    <3>1. << >> \in Seq(Steps) /\ Len(<< >>) = 0
      BY EmptySeq
    <3>2. block' \in Steps /\ st' \in Steps /\ mm' \in Nat /\ loaded' \in BOOLEAN
      BY <1>1, <2>2 DEF ResetMotion
    <3>3. segments' \in Seq(Steps) /\ Len(segments') <= SEGMENT_BUFFER
      BY <1>1, <2>2, <3>1 DEF ResetMotion
    <3> QED
      BY <3>2, <3>3
  <2>3. CASE block' \in Steps /\ \E b \in Steps, m \in Nat, end \in BOOLEAN : Prep(b, m, end)
    BY <2>0, <2>3, PrepMakesSteps
  <2>4. CASE /\ segments # << >> /\ segments' = Tail(segments)
             /\ UNCHANGED << block, mm, loaded, st >>
    <3>1. /\ segments' \in Seq(Steps) /\ Len(segments') = Len(segments) - 1
          /\ Len(segments) \in Nat
      BY <2>0, <2>4, HeadTailProperties, LenProperties
    <3> QED
      BY <1>1, <2>0, <2>4, <3>1
  <2> QED
    BY <2>1, <2>2, <2>3, <2>4, StepgenSteps
<1>3. /\ state' \in {"IDLE", "ALARM", "HOMING"} /\ exec' \subseteq {"CYCLE_STOP", "ABORT"}
  BY <1>0 DEF Next, Pass, HomeCommand, LineWaits, LineHomeEnd, Homing, Axis, GoHomeInit,
     GoHome1, GoHomeDelay, GoHomeFinished, GoHome2Goes, GoHome2Fails, GoHome2Arrives,
     LimitsTick, LimitsPass, ExecState, Abort, SystemPrep, EmergencyStop, SoftReset,
     Interrupt, sys, McStop, InterruptStep, InterruptEmpty, vars
<1>4. /\ alarm' \in BOOLEAN /\ sysMotion' \in BOOLEAN /\ estop' \in BOOLEAN
      /\ waits' \in BOOLEAN /\ homing' \in BOOLEAN /\ goHome' \in BOOLEAN
  BY <1>0, Zenon DEF Next, Pass, HomeCommand, LineWaits, LineHomeEnd, Homing, Axis,
     GoHomeInit, GoHome1, GoHomeDelay, GoHomeFinished, GoHome2Goes, GoHome2Fails,
     GoHome2Arrives, LimitsTick, LimitsPass, ExecState, Abort, SystemPrep, EmergencyStop,
     SoftReset, Interrupt, sys, cycle, home, McStop, InterruptStep, InterruptEmpty, vars
<1>5. /\ approach' \in BOOLEAN /\ axislock' \in BOOLEAN /\ stopped' \in BOOLEAN
      /\ running' \in BOOLEAN /\ limitsDisabled' \in BOOLEAN /\ undisturbed' \in BOOLEAN
  <2>1. approach' \in BOOLEAN /\ axislock' \in BOOLEAN
    BY <1>0, Zenon DEF Next, Pass, HomeCommand, LineWaits, LineHomeEnd, Homing, Axis,
       GoHomeInit, GoHome1,
     GoHomeDelay, GoHomeFinished, GoHome2Goes, GoHome2Fails, GoHome2Arrives, LimitsTick,
     LimitsPass, ExecState, Abort, SystemPrep, EmergencyStop, SoftReset, Interrupt, home,
     stepgen, limits, McStop, ResetMotion, Prep, InterruptStep, InterruptEmpty, vars
  <2>2. stopped' \in BOOLEAN
    BY <1>0, Zenon DEF Next, Pass, HomeCommand, LineWaits, LineHomeEnd, Homing, Axis,
       GoHomeInit, GoHome1,
     GoHomeDelay, GoHomeFinished, GoHome2Goes, GoHome2Fails, GoHome2Arrives, LimitsTick,
     LimitsPass, ExecState, Abort, SystemPrep, EmergencyStop, SoftReset, Interrupt, home,
     stepgen, limits, McStop, ResetMotion, Prep, InterruptStep, InterruptEmpty, vars
  <2>3. running' \in BOOLEAN
    BY <1>0, Zenon DEF Next, Pass, HomeCommand, LineWaits, LineHomeEnd, Homing, Axis,
       GoHomeInit, GoHome1,
     GoHomeDelay, GoHomeFinished, GoHome2Goes, GoHome2Fails, GoHome2Arrives, LimitsTick,
     LimitsPass, ExecState, Abort, SystemPrep, EmergencyStop, SoftReset, Interrupt, home,
     stepgen, limits, McStop, ResetMotion, Prep, InterruptStep, InterruptEmpty, vars
  <2>4. limitsDisabled' \in BOOLEAN
    BY <1>0, Zenon DEF Next, Pass, HomeCommand, LineWaits, LineHomeEnd, Homing, Axis,
       GoHomeInit, GoHome1,
     GoHomeDelay, GoHomeFinished, GoHome2Goes, GoHome2Fails, GoHome2Arrives, LimitsTick,
     LimitsPass, ExecState, Abort, SystemPrep, EmergencyStop, SoftReset, Interrupt, home,
     stepgen, limits, McStop, ResetMotion, Prep, InterruptStep, InterruptEmpty, vars
  <2>5. undisturbed' \in BOOLEAN
    BY <1>0, Zenon DEF Next, Pass, HomeCommand, LineWaits, LineHomeEnd, Homing, Axis,
       GoHomeInit, GoHome1,
     GoHomeDelay, GoHomeFinished, GoHome2Goes, GoHome2Fails, GoHome2Arrives, LimitsTick,
     LimitsPass, ExecState, Abort, SystemPrep, EmergencyStop, SoftReset, Interrupt, home,
     stepgen, limits, McStop, ResetMotion, Prep, InterruptStep, InterruptEmpty, vars
  <2> QED
    BY <2>1, <2>2, <2>3, <2>4, <2>5
<1>6. endMotion' \in BOOLEAN
  BY <1>0, Zenon DEF Next, Pass, HomeCommand, LineWaits, LineHomeEnd, Homing, Axis,
     GoHomeInit, GoHome1, GoHomeDelay, GoHomeFinished, GoHome2Goes, GoHome2Fails,
     GoHome2Arrives, LimitsTick, LimitsPass, ExecState, Abort, SystemPrep, EmergencyStop,
     SoftReset, Interrupt, sys, Prep, McStop, InterruptStep, InterruptEmpty, vars
<1>7. /\ mc' \in {"IDLE", "TRIGGERED", "WAIT"}
      /\ sm' \in {"INIT", "HOME_1", "HOME_2", "DELAY", "FINISHED"}
      /\ phase' \in Phases
  <2>1. mc \in {"IDLE", "TRIGGERED", "WAIT"} /\ phase \in Phases
        /\ sm \in {"INIT", "HOME_1", "HOME_2", "DELAY", "FINISHED"}
    BY Types
  <2> QED
    BY <2>1 DEF Next, Pass, HomeCommand, LineWaits, LineHomeEnd, Homing, Axis, GoHomeInit,
       GoHome1,
     GoHomeDelay, GoHomeFinished, GoHome2Goes, GoHome2Fails, GoHome2Arrives, LimitsTick,
     LimitsPass, ExecState, Abort, SystemPrep, EmergencyStop, SoftReset, Interrupt, home,
     cycle, Phases, InterruptStep, InterruptEmpty, vars
<1>8. axis' \in Axes /\ n_cycle' \in 0 .. 255 /\ delay' \in 0 .. DEBOUNCE
  <2>1. axis \in Axes /\ n_cycle \in 0 .. 255 /\ delay \in 0 .. DEBOUNCE
    BY Types
  <2>2. axis' \in Axes
    <3>1. \/ axis' = axis \/ axis' = 1
          \/ axis # N_AXIS /\ axis' = axis + 1
      BY Zenon DEF Next, Pass, HomeCommand, LineWaits, LineHomeEnd, Homing, Axis,
         GoHomeInit, GoHome1,
     GoHomeDelay, GoHomeFinished, GoHome2Goes, GoHome2Fails, GoHome2Arrives, LimitsTick,
     LimitsPass, ExecState, Abort, SystemPrep, EmergencyStop, SoftReset, Interrupt, home,
     LastAxis, InterruptStep, InterruptEmpty, vars
    <3> QED
      BY <1>1, <2>1, <3>1, SizesAssumption DEF Axes
  <2>3. n_cycle' \in 0 .. 255
    <3>1. \/ n_cycle' = n_cycle \/ n_cycle' = 0
          \/ n_cycle' = 2 * N_HOMING_LOCATE_CYCLE + 1
          \/ n_cycle' = (n_cycle - 1) % 256
      BY Zenon DEF Next, Pass, HomeCommand, LineWaits, LineHomeEnd, Homing, Axis,
         GoHomeInit, GoHome1,
     GoHomeDelay, GoHomeFinished, GoHome2Goes, GoHome2Fails, GoHome2Arrives, LimitsTick,
     LimitsPass, ExecState, Abort, SystemPrep, EmergencyStop, SoftReset, Interrupt, home,
     InterruptStep, InterruptEmpty, vars
    <3> QED
      BY <2>1, <3>1 DEF N_HOMING_LOCATE_CYCLE
  <2>4. delay' \in 0 .. DEBOUNCE
    <3>1. \/ delay' \in {delay, 0, DEBOUNCE}
          \/ delay # 0 /\ delay' = delay - 1
      BY DEF Next, Pass, HomeCommand, LineWaits, LineHomeEnd, Homing, Axis, GoHomeInit,
         GoHome1,
     GoHomeDelay, GoHomeFinished, GoHome2Goes, GoHome2Fails, GoHome2Arrives, LimitsTick,
     LimitsPass, ExecState, Abort, SystemPrep, EmergencyStop, SoftReset, Interrupt, home,
     LastAxis, InterruptStep, InterruptEmpty, vars
    <3> QED
      BY <1>1, <2>1, <3>1
  <2> QED
    BY <2>2, <2>3, <2>4
<1>9. pos' \in [Axes -> -STOP .. TRAVEL]
  <2>1. CASE Interrupt /\ segments # << >>
    <3>1. Head(segments) \in Steps
      BY <2>1, Types, HeadTailProperties
    <3>2. PICK s \in Steps : pos' = [pos EXCEPT ![s.axis] =
                                       IF Moves(s.axis) THEN Towards(@, s.dir) ELSE @]
      BY <2>1, <3>1 DEF Interrupt, InterruptStep, InterruptEmpty
    <3>3. s.axis \in Axes /\ s.dir \in {-1, 1} /\ pos[s.axis] \in -STOP .. TRAVEL
      BY Types DEF Steps
    <3>4. (IF Moves(s.axis) THEN Towards(pos[s.axis], s.dir) ELSE pos[s.axis])
             \in -STOP .. TRAVEL
      BY <3>3, TowardsInRange
    <3> QED
      BY <3>2, <3>3, <3>4, Types
  <2>2. CASE ~(Interrupt /\ segments # << >>)
    BY <2>2, Types DEF Next, Pass, HomeCommand, LineWaits, LineHomeEnd, Homing, Axis,
       GoHomeInit, GoHome1,
     GoHomeDelay, GoHomeFinished, GoHome2Goes, GoHome2Fails, GoHome2Arrives, LimitsTick,
     LimitsPass, ExecState, Abort, SystemPrep, EmergencyStop, SoftReset, Interrupt, machine,
     InterruptStep, InterruptEmpty, vars
  <2> QED
    BY <2>1, <2>2
<1>10. fault' \in [Axes -> {"none", "open", "closed"}]
  BY Types DEF Next, Pass, HomeCommand, LineWaits, LineHomeEnd, Homing, Axis, GoHomeInit,
     GoHome1, GoHomeDelay, GoHomeFinished, GoHome2Goes, GoHome2Fails, GoHome2Arrives,
     LimitsTick, LimitsPass, ExecState, Abort, SystemPrep, EmergencyStop, SoftReset,
     Interrupt, machine, vars
<1>11. samples' \in [Axes -> 0 .. FILTER]
  <2>1. samples \in [Axes -> 0 .. FILTER]
    BY Types
  <2>2. CASE LimitsTick
    BY <1>1, <2>1, <2>2 DEF LimitsTick
  <2>3. CASE SoftReset
    BY <1>1, <2>3 DEF SoftReset
  <2>4. CASE ~LimitsTick /\ ~SoftReset
    BY <2>1, <2>4 DEF Next, Pass, HomeCommand, LineWaits, LineHomeEnd, Homing, Axis,
       GoHomeInit, GoHome1,
     GoHomeDelay, GoHomeFinished, GoHome2Goes, GoHome2Fails, GoHome2Arrives, LimitsTick,
     LimitsPass, ExecState, Abort, SystemPrep, EmergencyStop, SoftReset, Interrupt, limits,
     vars
  <2> QED
    BY <2>2, <2>3, <2>4
<1>12. filtered' \subseteq Axes /\ limitsLast' \subseteq Axes
  BY Types DEF Next, Pass, HomeCommand, LineWaits, LineHomeEnd, Homing, Axis, GoHomeInit,
     GoHome1, GoHomeDelay, GoHomeFinished, GoHome2Goes, GoHome2Fails, GoHome2Arrives,
     LimitsTick, LimitsPass, ExecState, Abort, SystemPrep, EmergencyStop, SoftReset,
     Interrupt, limits, Engaged, vars
<1>13. {alarm', sysMotion', endMotion', estop', waits', homing', goHome', approach', axislock',
        stopped', loaded', running', limitsDisabled', undisturbed'} \subseteq BOOLEAN
  BY <1>2, <1>4, <1>5, <1>6
<1>14. {block', st'} \subseteq Steps
  BY <1>2
<1> QED
  BY <1>2, <1>3, <1>13, <1>14, <1>7, <1>8, <1>9, <1>10, <1>11, <1>12
     DEF TypeOK, Steps

-----------------------------------------------------------------------------
(* The state machines and the step generator by themselves.                *)

\* The state machines stay nested and count their motions; an abort disturbs the
\* cycle before it takes effect.
LEMMA MachinesPreserved ==
    HInv /\ [Next]_vars => Nested' /\ Counted' /\ NotAborted'
<1> SUFFICES ASSUME HInv, [Next]_vars PROVE Nested' /\ Counted' /\ NotAborted'
  OBVIOUS
<1> USE DEF HInv
<1>1. Nested'
  <2>1. mc' = mc \/ Homing \/ SoftReset
    BY Zenon DEF Next, Pass, HomeCommand, LineWaits, LineHomeEnd, Homing, Axis,
       GoHomeInit, GoHome1,
     GoHomeDelay, GoHomeFinished, GoHome2Goes, GoHome2Fails, GoHome2Arrives, LimitsTick,
     LimitsPass, ExecState, Abort, SystemPrep, EmergencyStop, SoftReset, Interrupt, cycle,
     InterruptStep, InterruptEmpty, vars
  <2>2. CASE Homing
    BY <2>2, Types DEF Homing, Nested
  <2>3. CASE SoftReset
    BY <2>3, Zenon DEF SoftReset, Nested
  <2>4. CASE ~Homing /\ ~SoftReset
    <3>1. UNCHANGED << mc, limitsDisabled >>
      BY <2>4, Zenon DEF Next, Pass, HomeCommand, LineWaits, LineHomeEnd, Homing, Axis,
         GoHomeInit, GoHome1,
     GoHomeDelay, GoHomeFinished, GoHome2Goes, GoHome2Fails, GoHome2Arrives, LimitsTick,
     LimitsPass, ExecState, Abort, SystemPrep, EmergencyStop, SoftReset, Interrupt, cycle,
     home, limits, InterruptStep, InterruptEmpty, vars
    <3>2. goHome' => goHome
      BY <2>4, Zenon DEF Next, Pass, HomeCommand, LineWaits, LineHomeEnd, Homing, Axis,
         GoHomeInit, GoHome1,
     GoHomeDelay, GoHomeFinished, GoHome2Goes, GoHome2Fails, GoHome2Arrives, LimitsTick,
     LimitsPass, ExecState, Abort, SystemPrep, EmergencyStop, SoftReset, Interrupt, cycle,
     home, limits, InterruptStep, InterruptEmpty, vars
    <3>3. ~goHome' => sm' = "INIT" \/ (~goHome /\ sm' = sm)
      <4>1. CASE Axis
        <5>1. CASE goHome
          BY <4>1, <5>1, Zenon DEF Axis, GoHomeInit, GoHome1, GoHomeDelay, GoHomeFinished,
             GoHome2Goes, GoHome2Fails, GoHome2Arrives, home
        <5>2. CASE ~goHome
          BY <4>1, <5>2, Zenon DEF Axis, home
        <5> QED
          BY <5>1, <5>2
      <4>2. CASE ~Axis
        BY <2>4, <4>2, Zenon DEF Next, Pass, HomeCommand, LineWaits, LineHomeEnd, Homing,
           Axis, GoHomeInit, GoHome1,
     GoHomeDelay, GoHomeFinished, GoHome2Goes, GoHome2Fails, GoHome2Arrives, LimitsTick,
     LimitsPass, ExecState, Abort, SystemPrep, EmergencyStop, SoftReset, Interrupt, cycle,
     home, limits, InterruptStep, InterruptEmpty, vars
      <4> QED
        BY <4>1, <4>2
    <3>4. homing' => waits'
      <4>1. CASE HomeCommand
        BY <4>1, Zenon DEF HomeCommand
      <4>2. CASE LineHomeEnd
        BY <4>2, Zenon DEF LineHomeEnd
      <4>3. CASE ~HomeCommand /\ ~LineHomeEnd
        BY <2>4, <4>3, Zenon DEF Next, Pass, HomeCommand, LineWaits, LineHomeEnd, Homing,
           Axis, GoHomeInit, GoHome1,
     GoHomeDelay, GoHomeFinished, GoHome2Goes, GoHome2Fails, GoHome2Arrives, LimitsTick,
     LimitsPass, ExecState, Abort, SystemPrep, EmergencyStop, SoftReset, Interrupt, cycle,
     Nested, InterruptStep, InterruptEmpty, vars
      <4> QED
        BY <4>1, <4>2, <4>3
    <3>5. homing => homing'
      BY <2>4, Zenon DEF Next, Pass, HomeCommand, LineWaits, LineHomeEnd, Homing, Axis,
         GoHomeInit, GoHome1,
     GoHomeDelay, GoHomeFinished, GoHome2Goes, GoHome2Fails, GoHome2Arrives, LimitsTick,
     LimitsPass, ExecState, Abort, SystemPrep, EmergencyStop, SoftReset, Interrupt, cycle,
     home, limits, InterruptStep, InterruptEmpty, vars
    <3>6. Nested
      BY DEF HInv
    <3>7. mc' = mc /\ limitsDisabled' = limitsDisabled
      BY <3>1
    <3> QED
      BY <3>2, <3>3, <3>4, <3>5, <3>6, <3>7, Zenon DEF Nested
  <2> QED
    BY <2>2, <2>3, <2>4
<1>2. Counted'
  <2>1. CASE Axis /\ GoHomeDelay
    <3>1. CASE delay # 0
      BY <2>1, <3>1 DEF Axis, GoHomeDelay, Counted
    <3>2. CASE delay = 0
      <4>1. /\ sm' = IF n_cycle = 0 THEN "FINISHED" ELSE "HOME_1"
            /\ approach' = ~approach /\ n_cycle' = (n_cycle - 1) % 256
            /\ n_cycle \in 0 .. 3 /\ (approach <=> n_cycle \in {1, 3})
        BY <2>1, <3>2 DEF Axis, GoHomeDelay, LastMotion, Counted
      <4>2. n_cycle # 0 => (n_cycle - 1) % 256 = n_cycle - 1
        BY <4>1
      <4>3. CASE n_cycle = 0
        BY <4>1, <4>3 DEF Counted
      <4>4. CASE n_cycle # 0
        <5>1. n_cycle' = n_cycle - 1 /\ n_cycle' \in 0 .. 3 /\ n_cycle \in 1 .. 3
          BY <4>1, <4>2, <4>4
        <5>2. approach' <=> ~approach
          BY <4>1, Zenon
        <5> QED
          BY <4>1, <5>1, <5>2 DEF Counted
      <4> QED
        BY <4>3, <4>4
    <3> QED
      BY <3>1, <3>2
  <2>2. CASE Axis /\ GoHomeInit
    BY <2>2 DEF Axis, GoHomeInit, N_HOMING_LOCATE_CYCLE, Counted
  <2>3. CASE ~(Axis /\ (GoHomeDelay \/ GoHomeInit))
    <3>1. /\ sm' \in {"HOME_1", "HOME_2", "DELAY"} => sm \in {"HOME_1", "HOME_2", "DELAY"}
          /\ sm' \in {"HOME_1", "HOME_2", "DELAY"} => n_cycle' = n_cycle /\ approach' = approach
      BY <2>3 DEF Next, Pass, HomeCommand, LineWaits, LineHomeEnd, Homing, Axis,
         GoHomeInit, GoHome1,
     GoHomeDelay, GoHomeFinished, GoHome2Goes, GoHome2Fails, GoHome2Arrives, LimitsTick,
     LimitsPass, ExecState, Abort, SystemPrep, EmergencyStop, SoftReset, Interrupt, home,
     InterruptStep, InterruptEmpty, vars
    <3> QED
      BY <3>1 DEF Counted
  <2> QED
    BY <2>1, <2>2, <2>3
<1>3. NotAborted'
  <2>1. CASE undisturbed
    <3>1. undisturbed' => exec' \subseteq exec \cup {"CYCLE_STOP"}
      BY <2>1 DEF Next, Pass, HomeCommand, LineWaits, LineHomeEnd, Homing, Axis,
         GoHomeInit, GoHome1,
     GoHomeDelay, GoHomeFinished, GoHome2Goes, GoHome2Fails, GoHome2Arrives, LimitsTick,
     LimitsPass, ExecState, Abort, SystemPrep, EmergencyStop, SoftReset, Interrupt, sys,
     McStop, InterruptStep, InterruptEmpty, vars
    <3>2. estop' => estop \/ "ABORT" \in exec
      BY <2>1, Zenon DEF Next, Pass, HomeCommand, LineWaits, LineHomeEnd, Homing, Axis,
         GoHomeInit, GoHome1,
     GoHomeDelay, GoHomeFinished, GoHome2Goes, GoHome2Fails, GoHome2Arrives, LimitsTick,
     LimitsPass, ExecState, Abort, SystemPrep, EmergencyStop, SoftReset, Interrupt, sys,
     McStop, InterruptStep, InterruptEmpty, vars
    <3> QED
      BY <2>1, <3>1, <3>2 DEF NotAborted
  <2>2. CASE ~undisturbed
    <3>1. undisturbed' => HomeCommand
      BY <2>2, Zenon DEF Next, Pass, HomeCommand, LineWaits, LineHomeEnd, Homing, Axis,
         GoHomeInit, GoHome1,
     GoHomeDelay, GoHomeFinished, GoHome2Goes, GoHome2Fails, GoHome2Arrives, LimitsTick,
     LimitsPass, ExecState, Abort, SystemPrep, EmergencyStop, SoftReset, Interrupt, sys,
     McStop, InterruptStep, InterruptEmpty, vars
    <3> QED
      BY <3>1 DEF HomeCommand, NotAborted
  <2> QED
    BY <2>1, <2>2
<1> QED
  BY <1>1, <1>2, <1>3

\* A step generator without a block gets no steps.
LEMMA NoStepsPreserved == HInv /\ [Next]_vars => NoBlockNoSteps'
<1> SUFFICES ASSUME HInv, [Next]_vars PROVE NoBlockNoSteps'
  OBVIOUS
<1>1. /\ segments \in Seq(Steps) /\ Len(segments) <= SEGMENT_BUFFER /\ st \in Steps
      /\ loaded \in BOOLEAN /\ mm \in Nat
  BY Types DEF HInv
<1>2. NoBlockNoSteps
  BY DEF HInv
<1>3. CASE \E b \in Steps, m \in Nat, end \in BOOLEAN :
             Prep(b, m, end) /\ (~loaded => m = mm \/ (m > 0 /\ ~end))
  <2>1. PICK b \in Steps, m \in Nat, end \in BOOLEAN :
          Prep(b, m, end) /\ (~loaded => m = mm \/ (m > 0 /\ ~end))
    BY <1>3
  <2> QED
    BY <1>1, <1>2, <2>1, PrepMakesSteps DEF NoBlockNoSteps
<1>4. CASE ResetMotion
  BY <1>4 DEF ResetMotion, NoBlockNoSteps
<1>5. CASE segments # << >> /\ UNCHANGED << block, mm, loaded, st >>
  BY <1>2, <1>5 DEF NoBlockNoSteps
<1>6. CASE UNCHANGED << block, mm, loaded, st, segments >>
  BY <1>2, <1>6 DEF NoBlockNoSteps
<1> QED
  BY <1>3, <1>4, <1>5, <1>6, StepgenSteps DEF HInv

-----------------------------------------------------------------------------
(* The cycle, one action after the other.                                  *)

\* A cycle that has been disturbed promises nothing.
LEMMA DisturbedPromisesNothing == ~undisturbed' => Cycle'
  BY DEF Cycle, RestsBetween, OneMotion, SwitchIsSeen, SwitchIsLeft, ThisHomed, OthersHomed

\* The command, its wait and the handlers that do not touch the axes.
LEMMA QuietKeepsCycle ==
    HInv /\ (\/ LineWaits \/ LimitsPass \/ ExecState \/ EmergencyStop \/ Abort
             \/ UNCHANGED vars)
      => Cycle'
<1> SUFFICES ASSUME HInv,
                    \/ LineWaits \/ LimitsPass \/ ExecState \/ EmergencyStop \/ Abort
                    \/ UNCHANGED vars
             PROVE  Cycle'
  OBVIOUS
<1>1. CASE EmergencyStop \/ Abort
  BY <1>1, DisturbedPromisesNothing DEF EmergencyStop, Abort, HInv, NotAborted
<1>2. CASE \/ LineWaits \/ LimitsPass \/ ExecState \/ UNCHANGED vars
  <2>1. /\ UNCHANGED << goHome, sm, axis, approach, n_cycle, stepgen, machine, samples, filtered >>
        /\ UNCHANGED << cycle, sysMotion, undisturbed >>
    BY <1>2 DEF LineWaits, LimitsPass, ExecState, vars, sys, home, limits
  <2>2. Engaged' = Engaged /\ Motion' = Motion
    BY <2>1 DEF Engaged, Motion, machine
  <2> QED
    BY <2>1, <2>2 DEF HInv, Cycle, RestsBetween, OneMotion, SwitchIsSeen, SwitchIsLeft,
       ThisHomed, OthersHomed, Moving, AtRest, Homed, stepgen, machine, cycle
<1> QED
  BY <1>1, <1>2

\* A cycle begins with the machine at rest, and ends with nothing to promise.
LEMMA CommandKeepsCycle ==
    HInv /\ (HomeCommand \/ LineHomeEnd \/ SoftReset) => Cycle'
<1> SUFFICES ASSUME HInv, HomeCommand \/ LineHomeEnd \/ SoftReset PROVE Cycle'
  OBVIOUS
<1>1. CASE SoftReset
  BY <1>1, DisturbedPromisesNothing DEF SoftReset
<1>2. CASE HomeCommand
  <2>1. ~goHome /\ mc = "IDLE" /\ goHome' = goHome /\ mc' = mc /\ homing'
    BY <1>2 DEF HomeCommand, HInv, Nested, home
  <2>2. undisturbed' => AtRest'
    BY <1>2 DEF HomeCommand, HInv, NoBlockNoSteps, AtRest, stepgen
  <2> QED
    BY <2>1, <2>2 DEF Cycle, RestsBetween, OneMotion, SwitchIsSeen, SwitchIsLeft,
       ThisHomed, OthersHomed, Moving
<1>3. CASE LineHomeEnd
  <2>1. ~goHome' /\ ~waits'
    BY <1>3 DEF LineHomeEnd, HInv, Nested, home
  <2> QED
    BY <2>1 DEF Cycle, RestsBetween, OneMotion, SwitchIsSeen, SwitchIsLeft,
       ThisHomed, OthersHomed, Moving
<1> QED
  BY <1>1, <1>2, <1>3

\* An axis is begun only with the axes before it homed, the cycle ended only with
\* all of them.
LEMMA HomingKeepsCycle == HInv /\ Homing => Cycle'
<1> SUFFICES ASSUME HInv, Homing PROVE Cycle'
  OBVIOUS
<1>1. /\ UNCHANGED << sm, approach, n_cycle, stepgen, machine, samples, filtered >>
      /\ UNCHANGED << waits, sysMotion, undisturbed >>
      /\ Engaged' = Engaged /\ (\A a : Homed(a)' <=> Homed(a)) /\ AtRest' = AtRest
  BY DEF Homing, sys, Engaged, Homed, AtRest, stepgen, machine
<1>2. Nested /\ axis \in Axes
  BY Types DEF HInv
<1>3. CASE mc = "WAIT" /\ goHome
  <2>1. UNCHANGED << mc, homing, goHome, axis >>
    BY <1>3 DEF Homing
  <2>2. Motion' = Motion
    BY <1>1, <2>1 DEF Motion
  <2> QED
    BY <1>1, <2>1, <2>2 DEF HInv, Cycle, RestsBetween, OneMotion, SwitchIsSeen, SwitchIsLeft,
       ThisHomed, OthersHomed, Moving, stepgen, machine
<1>4. CASE ~(mc = "WAIT" /\ goHome)
  <2>1. ~goHome /\ sm = "INIT" /\ sm' = "INIT"
    BY <1>1, <1>2, <1>4 DEF Nested
  <2>2. RestsBetween' /\ OneMotion' /\ SwitchIsSeen' /\ SwitchIsLeft'
    BY <1>1, <2>1 DEF HInv, Cycle, RestsBetween, OneMotion, SwitchIsSeen, SwitchIsLeft, Moving
  <2>3. CASE mc = "WAIT" /\ ~LastAxis
    <3>1. mc' = mc /\ homing' = homing /\ goHome' /\ axis' = axis + 1
      BY <2>1, <2>3 DEF Homing
    <3>2. undisturbed /\ waits => \A a \in 1 .. axis' - 1 : Homed(a)
      <4>1. 1 .. axis' - 1 = (1 .. axis - 1) \cup {axis}
        BY <1>2, <3>1 DEF Axes
      <4>2. undisturbed /\ waits => Homed(axis) /\ \A a \in 1 .. axis - 1 : Homed(a)
        BY <2>1, <2>3 DEF HInv, Cycle, ThisHomed, OthersHomed
      <4> QED
        BY <4>1, <4>2
    <3>3. homing'
      BY <1>2, <2>3, <3>1 DEF Nested
    <3> QED
      BY <1>1, <2>1, <2>2, <3>1, <3>2, <3>3 DEF Cycle, ThisHomed, OthersHomed
  <2>4. CASE mc = "WAIT" /\ LastAxis
    <3>1. mc' = "IDLE" /\ goHome' = goHome
      BY <2>1, <2>4 DEF Homing
    <3>2. undisturbed /\ waits => \A a \in Axes : Homed(a)
      <4>1. Axes = (1 .. axis - 1) \cup {axis}
        BY <1>2, <2>4 DEF Axes, LastAxis
      <4>2. undisturbed /\ waits => Homed(axis) /\ \A a \in 1 .. axis - 1 : Homed(a)
        BY <2>1, <2>4 DEF HInv, Cycle, ThisHomed, OthersHomed
      <4> QED
        BY <4>1, <4>2
    <3> QED
      BY <1>1, <2>1, <2>2, <3>1, <3>2 DEF Cycle, ThisHomed, OthersHomed
  <2>5. CASE mc = "TRIGGERED"
    <3>1. mc' = "WAIT" /\ homing' = homing /\ goHome' /\ axis' = 1
      BY <2>1, <2>5 DEF Homing
    <3>2. homing'
      BY <1>2, <2>5, <3>1 DEF Nested
    <3> QED
      BY <2>1, <1>1, <2>2, <3>1, <3>2 DEF Cycle, ThisHomed, OthersHomed
  <2>6. CASE mc = "IDLE"
    <3>1. mc' \in {"IDLE", "TRIGGERED"} /\ homing' = homing /\ goHome' = goHome
      BY <2>1, <2>6 DEF Homing
    <3> QED
      BY <1>1, <2>1, <2>2, <3>1 DEF HInv, Cycle, ThisHomed, OthersHomed
  <2>7. mc \in {"IDLE", "TRIGGERED", "WAIT"}
    BY Types DEF HInv
  <2> QED
    BY <2>3, <2>4, <2>5, <2>6, <2>7
<1> QED
  BY <1>3, <1>4

\* While a motion goes on, more of it is made, or nothing.
LEMMA PrepKeepsMotion ==
    ASSUME HInv, undisturbed, Moving, Prep(block, mm, endMotion)
    PROVE  /\ loaded' /\ st' = Motion
           /\ \A i \in 1 .. Len(segments') : segments'[i] = Motion
           /\ mm' + Len(segments') = mm + Len(segments)
<1>1. /\ segments \in Seq(Steps) /\ Len(segments) <= SEGMENT_BUFFER /\ st \in Steps
      /\ loaded \in BOOLEAN /\ block \in Steps /\ mm \in Nat /\ endMotion \in BOOLEAN
  BY Types DEF HInv
<1>2. /\ loaded /\ st = Motion
      /\ \A i \in 1 .. Len(segments) : segments[i] = Motion
  BY DEF HInv, Cycle, OneMotion
<1> QED
  BY <1>1, <1>2, PrepMakesSteps

\* st_prep_buffer() between the motions makes nothing, within one only its steps.
LEMMA PrepKeepsCycle ==
    ASSUME HInv,
           \/ Prep(block, mm, endMotion)
           \/ UNCHANGED << mm, loaded, st, segments >>,
           UNCHANGED << goHome, sm, axis, approach, n_cycle, block, running, machine >>,
           UNCHANGED << samples, filtered, cycle, sysMotion, undisturbed >>
    PROVE  Cycle'
<1>1. /\ UNCHANGED << goHome, sm, axis, approach, n_cycle, block, running, machine >>
      /\ UNCHANGED << samples, filtered, cycle, sysMotion, undisturbed >>
  OBVIOUS
<1>2. Engaged' = Engaged /\ Motion' = Motion /\ (Moving' <=> Moving)
  BY <1>1 DEF Engaged, Motion, machine, Moving
<1> SUFFICES ASSUME undisturbed PROVE Cycle'
  BY <1>1, DisturbedPromisesNothing
<1>3. CASE UNCHANGED << mm, loaded, st, segments >>
  BY <1>1, <1>2, <1>3 DEF HInv, Cycle, RestsBetween, OneMotion, SwitchIsSeen, SwitchIsLeft,
     ThisHomed, OthersHomed, Moving, AtRest, Homed, machine, cycle
<1>4. CASE Prep(block, mm, endMotion)
  <2>1. SwitchIsSeen' /\ ThisHomed' /\ OthersHomed'
    BY <1>1, <1>2 DEF HInv, Cycle, SwitchIsSeen, ThisHomed, OthersHomed, Homed, machine, cycle
  <2>2. RestsBetween'
    <3> SUFFICES ASSUME waits, ~Moving PROVE AtRest'
      BY <1>1, <1>2 DEF RestsBetween, cycle
    <3>1. AtRest
      BY DEF HInv, Cycle, RestsBetween
    <3>2. /\ segments \in Seq(Steps) /\ Len(segments) <= SEGMENT_BUFFER /\ st \in Steps
          /\ loaded \in BOOLEAN /\ block \in Steps /\ mm \in Nat /\ endMotion \in BOOLEAN
      BY Types DEF HInv
    <3> QED
      BY <1>1, <1>4, <3>1, <3>2, PrepMakesSteps DEF AtRest
  <2>3. OneMotion'
    BY <1>1, <1>2, <1>4, PrepKeepsMotion DEF HInv, Cycle, OneMotion
  <2>4. SwitchIsLeft'
    <3>1. CASE Moving
      <4>1. mm' + Len(segments') = mm + Len(segments)
        BY <1>4, <3>1, PrepKeepsMotion
      <4> QED
        BY <1>1, <3>1, <4>1 DEF HInv, Cycle, SwitchIsLeft, Moving, machine
    <3>2. CASE ~Moving
      BY <1>1, <3>2 DEF HInv, Cycle, SwitchIsLeft, Moving, machine
    <3> QED
      BY <3>1, <3>2
  <2> QED
    BY <2>1, <2>2, <2>3, <2>4 DEF Cycle
<1> QED
  BY <1>3, <1>4

\* The preparation of the motion system keeps Cycle.
LEMMA SystemPrepKeepsCycle == HInv /\ SystemPrep => Cycle'
  BY PrepKeepsCycle DEF SystemPrep, home, limits, stepgen

\* A motion is planned with an empty step generator: all its steps are its own.
LEMMA PlanKeepsCycle == HInv /\ Axis /\ GoHome1 /\ goHome => Cycle'
<1>0. GoHome1 => undisturbed' = undisturbed
  BY Zenon DEF GoHome1
<1> SUFFICES ASSUME HInv, Axis, GoHome1, goHome, undisturbed PROVE Cycle'
  BY <1>0, DisturbedPromisesNothing
<1>1. /\ UNCHANGED << goHome, axis, approach, n_cycle, machine, samples, filtered, cycle >>
      /\ UNCHANGED undisturbed
      /\ sm = "HOME_1" /\ sm' = "HOME_2" /\ sysMotion' /\ block' = Motion
  BY DEF Axis, GoHome1, limits, Motion
<1>2. waits /\ AtRest
  BY <1>1 DEF HInv, Nested, Cycle, RestsBetween, Moving
<1>3. Motion \in Steps /\ Motion' = Motion
  BY <1>1, Types DEF HInv, Motion, Steps
<1>4. MaxTravel \in Nat /\ MaxTravel > 0
  BY SizesAssumption DEF MaxTravel
<1>5. Prep(Motion, MaxTravel, FALSE)
  BY <1>2 DEF GoHome1, AtRest, Motion
<1>6. /\ loaded' /\ st' = Motion
      /\ \A i \in 1 .. Len(segments') : segments'[i] = Motion
      /\ mm' + Len(segments') = MaxTravel
  <2>1. /\ segments \in Seq(Steps) /\ Len(segments) <= SEGMENT_BUFFER /\ st \in Steps
        /\ loaded \in BOOLEAN
    BY Types DEF HInv
  <2>2. Len(segments) = 0 /\ ~loaded /\ segments = << >>
    BY <1>2 DEF AtRest
  <2>3. /\ loaded' /\ st' = Motion
        /\ mm' + Len(segments') = MaxTravel + Len(segments)
        /\ (\A i \in 1 .. Len(segments) : segments[i] = Motion)
             => \A i \in 1 .. Len(segments') : segments'[i] = Motion
    BY <1>3, <1>4, <1>5, <2>1, <2>2, PrepMakesSteps
  <2> QED
    BY <1>4, <2>2, <2>3
<1>7. RestsBetween' /\ OneMotion' /\ ThisHomed' /\ OthersHomed'
  BY <1>1, <1>3, <1>6
     DEF HInv, Cycle, RestsBetween, OneMotion, ThisHomed, OthersHomed, Homed, Moving, machine, cycle
<1>8. Engaged' = Engaged /\ SwitchIsSeen'
  BY <1>1 DEF HInv, Cycle, SwitchIsSeen, Engaged, machine
<1>9. SwitchIsLeft'
  <2> SUFFICES ASSUME n_cycle = 0 PROVE SwitchIsLeft'
    BY <1>1 DEF SwitchIsLeft
  <2>1. MaxTravel = PULLOFF
    BY <1>1 DEF HInv, Counted, MaxTravel
  <2>2. pos[axis] \in Int /\ PULLOFF \in Int
    BY Types, SizesAssumption DEF HInv
  <2>3. fault[axis] = "none" => pos[axis] + (mm' + Len(segments')) <= PULLOFF
    BY <1>1, <1>6, <2>1, <2>2 DEF HInv, Cycle, SwitchIsLeft
  <2> QED
    BY <1>1, <2>3 DEF HInv, Cycle, SwitchIsLeft, machine
<1> QED
  BY <1>7, <1>8, <1>9 DEF Cycle

\* A motion ends with nothing left of it, an approach with the switch seen and a
\* pull-off with the switch not seen.
LEMMA ArrivalKeepsCycle == HInv /\ Axis /\ GoHome2Arrives /\ goHome => Cycle'
<1> SUFFICES ASSUME HInv, Axis, GoHome2Arrives, goHome, undisturbed PROVE Cycle'
  BY DisturbedPromisesNothing DEF GoHome2Arrives
<1>1. /\ UNCHANGED << goHome, axis, approach, n_cycle, machine, samples, filtered, cycle >>
      /\ UNCHANGED undisturbed
      /\ sm = "HOME_2" /\ sm' = "DELAY"
  BY DEF Axis, GoHome2Arrives, limits
<1>2. AtRest'
  BY <1>1 DEF HInv, Cycle, OneMotion, Moving, GoHome2Arrives, McStop, ResetMotion, AtRest
<1>3. IF approach THEN axis \in filtered ELSE axis \notin filtered
  BY DEF GoHome2Arrives, Arrives, Fails, Found
<1>4. n_cycle \in 0 .. 3 /\ (approach <=> n_cycle \in {1, 3})
  BY <1>1 DEF HInv, Counted
<1>5. RestsBetween' /\ OneMotion' /\ SwitchIsLeft' /\ OthersHomed'
  BY <1>1, <1>2 DEF HInv, Cycle, RestsBetween, OneMotion, SwitchIsLeft, OthersHomed,
     Moving, Homed, machine, cycle
<1>6. SwitchIsSeen'
  <2>1. Engaged' = Engaged
    BY <1>1 DEF Engaged, machine
  <2> QED
    BY <1>1, <1>3, <1>4, <2>1 DEF HInv, Cycle, SwitchIsSeen
<1>7. ThisHomed'
  <2>1. n_cycle = 0 => Homed(axis)
    <3> SUFFICES ASSUME n_cycle = 0 PROVE Homed(axis)
      OBVIOUS
    <3>1. pos[axis] \in Int /\ mm \in Nat /\ segments \in Seq(Steps)
      BY Types DEF HInv
    <3>2. Len(segments) \in Nat
      BY <3>1, LenProperties
    <3>3. /\ fault[axis] = "none" /\ pos[axis] > 0
          /\ pos[axis] + (mm + Len(segments)) <= PULLOFF
      BY <1>1, <1>3, <1>4 DEF HInv, Cycle, SwitchIsLeft
    <3> QED
      BY <3>1, <3>2, <3>3, SizesAssumption DEF Homed
  <2> QED
    BY <1>1, <2>1 DEF ThisHomed, Homed, machine
<1> QED
  BY <1>5, <1>6, <1>7 DEF Cycle

\* After the delay the next motion, or the end.
LEMMA DelayKeepsCycle == HInv /\ Axis /\ GoHomeDelay /\ goHome => Cycle'
<1> SUFFICES ASSUME HInv, Axis, GoHomeDelay, goHome, undisturbed PROVE Cycle'
  BY DisturbedPromisesNothing DEF GoHomeDelay
<1>1. /\ UNCHANGED << goHome, axis, stepgen, machine, samples, filtered, cycle, sysMotion >>
      /\ UNCHANGED undisturbed
      /\ sm = "DELAY" /\ waits
  BY DEF Axis, GoHomeDelay, limits, sys, HInv, Nested
<1>2. /\ Engaged' = Engaged /\ (AtRest' <=> AtRest) /\ (\A a : Homed(a)' <=> Homed(a))
  BY <1>1 DEF Engaged, AtRest, Homed, machine, stepgen
<1>3. n_cycle \in 0 .. 3 /\ (approach <=> n_cycle \in {1, 3})
  BY <1>1 DEF HInv, Counted
<1>4. sm' \in {"DELAY", "HOME_1", "FINISHED"}
  BY <1>1 DEF GoHomeDelay
<1>5. RestsBetween' /\ OneMotion' /\ OthersHomed'
  BY <1>1, <1>2, <1>4
     DEF HInv, Cycle, RestsBetween, OneMotion, OthersHomed, Moving, cycle
<1>6. CASE delay # 0
  <2>1. UNCHANGED << sm, approach, n_cycle >>
    BY <1>6 DEF GoHomeDelay
  <2> QED
    BY <1>1, <1>2, <1>5, <2>1
       DEF HInv, Cycle, SwitchIsSeen, SwitchIsLeft, ThisHomed, cycle
<1>7. CASE delay = 0 /\ n_cycle = 0
  <2>1. sm' = "FINISHED"
    BY <1>7, Zenon DEF GoHomeDelay, LastMotion
  <2> QED
    BY <1>1, <1>2, <1>5, <1>7, <2>1
       DEF HInv, Cycle, SwitchIsSeen, SwitchIsLeft, ThisHomed, cycle
<1>8. CASE delay = 0 /\ n_cycle # 0
  <2>1. sm' = "HOME_1" /\ n_cycle' = n_cycle - 1
    <3>1. sm' = "HOME_1" /\ n_cycle' = (n_cycle - 1) % 256
      BY <1>8 DEF GoHomeDelay, LastMotion
    <3>2. (n_cycle - 1) % 256 = n_cycle - 1
      BY <1>3, <1>8
    <3> QED
      BY <3>1, <3>2
  <2>2. SwitchIsSeen'
    BY <1>1, <1>2, <1>3, <2>1 DEF HInv, Cycle, SwitchIsSeen
  <2>3. SwitchIsLeft'
    <3> SUFFICES ASSUME n_cycle = 1 PROVE SwitchIsLeft'
      BY <1>3, <2>1 DEF SwitchIsLeft
    <3>1. axis \in filtered /\ samples[axis] = FILTER /\ axis \in Engaged
      BY <1>1 DEF HInv, Cycle, SwitchIsSeen
    <3> QED
      BY <1>1, <2>1, <3>1 DEF SwitchIsLeft, Engaged, machine
  <2>4. ThisHomed'
    BY <1>1, <2>1 DEF ThisHomed
  <2> QED
    BY <1>5, <2>2, <2>3, <2>4 DEF Cycle
<1> QED
  BY <1>3, <1>6, <1>7, <1>8, Types DEF HInv

\* One pass of do_homing_single_axis_sm().
LEMMA AxisKeepsCycle == HInv /\ Axis => Cycle'
<1> SUFFICES ASSUME HInv, Axis PROVE Cycle'
  OBVIOUS
<1>1. UNCHANGED << cycle, machine, limits >>
  BY DEF Axis
<1>2. CASE ~goHome
  <2>1. UNCHANGED << sys, home, stepgen, undisturbed >>
    BY <1>2 DEF Axis
  <2> QED
    BY <1>1, <2>1, PrepKeepsCycle DEF sys, home, stepgen, limits
<1>3. CASE goHome /\ GoHomeInit
  <2>1. /\ UNCHANGED << goHome, axis, stepgen, machine, cycle, undisturbed >>
        /\ sm = "INIT" /\ sm' = "HOME_1" /\ n_cycle' = 3
    BY <1>1, <1>3 DEF GoHomeInit, N_HOMING_LOCATE_CYCLE
  <2> QED
    BY <1>3, <2>1 DEF HInv, Cycle, RestsBetween, OneMotion, SwitchIsSeen, SwitchIsLeft,
       ThisHomed, OthersHomed, Moving, AtRest, Homed, stepgen, machine, cycle
<1>4. CASE goHome /\ GoHome1
  BY <1>4, PlanKeepsCycle
<1>5. CASE goHome /\ GoHomeDelay
  BY <1>5, DelayKeepsCycle
<1>6. CASE goHome /\ GoHomeFinished
  <2>1. /\ UNCHANGED << axis, stepgen, machine, cycle, undisturbed >>
        /\ sm = "FINISHED" /\ ~goHome'
    BY <1>1, <1>6 DEF GoHomeFinished
  <2> QED
    BY <1>6, <2>1 DEF HInv, Cycle, RestsBetween, OneMotion, SwitchIsSeen, SwitchIsLeft,
       ThisHomed, OthersHomed, Moving, AtRest, Homed, stepgen, machine, cycle
<1>7. CASE goHome /\ GoHome2Goes
  BY <1>1, <1>7, PrepKeepsCycle DEF GoHome2Goes, home, limits
<1>8. CASE goHome /\ GoHome2Fails
  BY <1>8, DisturbedPromisesNothing DEF GoHome2Fails
<1>9. CASE goHome /\ GoHome2Arrives
  BY <1>9, ArrivalKeepsCycle
<1> QED
  BY <1>2, <1>3, <1>4, <1>5, <1>6, <1>7, <1>8, <1>9 DEF Axis

\* The filter follows the switches, and nothing else stops a homing motion.
LEMMA LimitsKeepCycle == HInv /\ LimitsTick => Cycle'
<1> SUFFICES ASSUME HInv, LimitsTick, undisturbed PROVE Cycle'
  BY DisturbedPromisesNothing DEF LimitsTick
<1>1. UNCHANGED << cycle, home, machine, undisturbed >> /\ sysMotion' = sysMotion
  BY DEF LimitsTick, sys
<1>2. /\ Engaged' = Engaged /\ Motion' = Motion /\ (Moving' <=> Moving)
      /\ \A a : Homed(a)' <=> Homed(a)
  BY <1>1 DEF Engaged, Motion, Moving, Homed, home, machine
<1>3. Moving => UNCHANGED stepgen
  BY DEF LimitsTick, HInv, Nested, Moving
<1>4. waits /\ ~Moving => AtRest'
  <2>1. UNCHANGED stepgen \/ ResetMotion
    BY DEF LimitsTick, McStop
  <2> QED
    BY <2>1 DEF HInv, Cycle, RestsBetween, AtRest, ResetMotion, stepgen
<1>5. RestsBetween' /\ OneMotion' /\ ThisHomed' /\ OthersHomed'
  BY <1>1, <1>2, <1>3, <1>4 DEF HInv, Cycle, RestsBetween, OneMotion, ThisHomed, OthersHomed,
     stepgen, cycle, home
<1>6. axis \in Axes /\ samples[axis] \in 0 .. FILTER /\ FILTER \in Nat /\ FILTER > 0
  BY Types, SizesAssumption DEF HInv
<1>7. /\ samples'[axis] = IF axis \notin Engaged THEN 0
                          ELSE IF samples[axis] < FILTER THEN samples[axis] + 1 ELSE FILTER
      /\ axis \in filtered' <=> samples'[axis] = FILTER
  BY <1>6 DEF LimitsTick
<1>8. /\ axis \in filtered' => axis \in Engaged
      /\ axis \in Engaged /\ samples[axis] = FILTER => axis \in filtered'
  BY <1>6, <1>7
<1>9. SwitchIsSeen'
  BY <1>1, <1>2, <1>7, <1>8 DEF HInv, Cycle, SwitchIsSeen, home
<1>10. SwitchIsLeft'
  <2> SUFFICES ASSUME goHome, n_cycle = 0, sm \in {"HOME_1", "HOME_2"}
               PROVE  SwitchIsLeft'
    BY <1>1 DEF SwitchIsLeft, home
  <2>1. /\ fault[axis] # "open"
        /\ IF axis \in filtered THEN samples[axis] = FILTER
           ELSE fault[axis] = "none" /\ pos[axis] > 0
        /\ fault[axis] = "none" =>
             IF sm = "HOME_1" THEN pos[axis] <= 0
             ELSE pos[axis] + (mm + Len(segments)) <= PULLOFF
    BY DEF HInv, Cycle, SwitchIsLeft
  <2>2. axis \notin filtered' => fault[axis] = "none" /\ pos[axis] > 0
    <3>1. CASE axis \in Engaged
      <4>1. axis \notin filtered'=> samples[axis] # FILTER
        BY <1>8, <3>1
      <4> QED
        BY <2>1, <4>1
    <3>2. CASE axis \notin Engaged
      <4>1. fault[axis] \in {"none", "open", "closed"} /\ pos[axis] \in Int
        BY Types DEF HInv
      <4> QED
        BY <1>6, <2>1, <3>2, <4>1 DEF Engaged
    <3> QED
      BY <3>1, <3>2
  <2>3. sm = "HOME_2" => UNCHANGED << mm, segments >>
    BY <1>3 DEF Moving, stepgen
  <2> QED
    BY <1>1, <1>7, <2>1, <2>2, <2>3 DEF SwitchIsLeft, home, machine
<1> QED
  BY <1>5, <1>9, <1>10 DEF Cycle

\* The interrupt steps the axis being homed and no other, towards the switch on an
\* approach and away from it on a pull-off.
LEMMA InterruptKeepsCycle == HInv /\ Interrupt => Cycle'
<1> SUFFICES ASSUME HInv, Interrupt, undisturbed PROVE Cycle'
  BY DisturbedPromisesNothing DEF Interrupt
<1>1. /\ UNCHANGED << cycle, home, block, mm, loaded, st, fault, limits, undisturbed, sysMotion >>
      /\ running
  BY DEF Interrupt
<1>2. CASE ~waits
  BY <1>1, <1>2 DEF HInv, Nested, Cycle, RestsBetween, OneMotion, SwitchIsSeen, SwitchIsLeft,
     ThisHomed, OthersHomed, Moving, cycle, home
<1>3. CASE waits
  <2>1. Moving /\ goHome /\ sm = "HOME_2" /\ mc = "WAIT" /\ homing
    BY <1>1, <1>3 DEF HInv, Nested, Cycle, RestsBetween, AtRest, Moving
  <2>2. Moving' /\ Motion' = Motion /\ waits' /\ mc' = "WAIT" /\ homing' /\ goHome' /\ sm' = sm
    BY <1>1, <1>3, <2>1 DEF Moving, Motion, cycle, home
  <2>3. RestsBetween' /\ ThisHomed'
    BY <2>1, <2>2 DEF RestsBetween, ThisHomed
  <2>4. /\ segments \in Seq(Steps) /\ axis \in Axes /\ pos \in [Axes -> -STOP .. TRAVEL]
        /\ n_cycle \in 0 .. 3 /\ (approach <=> n_cycle \in {1, 3})
    BY <2>1, Types DEF HInv, Counted
  <2>5. CASE InterruptEmpty
    <3>1. UNCHANGED << segments, pos >>
      BY <2>5 DEF InterruptEmpty
    <3>2. Engaged' = Engaged
      BY <1>1, <3>1 DEF Engaged
    <3>3. OneMotion' /\ OthersHomed'
      BY <1>1, <2>1, <2>2, <3>1 DEF HInv, Cycle, OneMotion, OthersHomed, Homed, home, cycle
    <3>4. SwitchIsSeen'
      BY <1>1, <2>1, <2>2, <3>2 DEF HInv, Cycle, SwitchIsSeen, home, limits
    <3>5. SwitchIsLeft'
      BY <1>1, <2>1, <2>2, <3>1 DEF HInv, Cycle, SwitchIsLeft, home, limits
    <3> QED
      BY <2>3, <3>3, <3>4, <3>5 DEF Cycle
  <2>6. CASE InterruptStep
    <3>1. segments # << >> /\ segments' = Tail(segments)
      BY <2>6 DEF InterruptStep
    <3>2. /\ Len(segments) \in Nat /\ Len(segments') = Len(segments) - 1
          /\ \A i \in 1 .. Len(segments') : segments'[i] = segments[i + 1]
      BY <2>4, <3>1, HeadTailProperties, LenProperties
    <3>3. /\ Head(segments) = Motion
          /\ \A i \in 1 .. Len(segments') : segments'[i] = Motion
      <4>1. \A i \in 1 .. Len(segments) : segments[i] = Motion
        BY <2>1 DEF HInv, Cycle, OneMotion
      <4>2. Len(segments) >= 1
        BY <2>4, <3>1, <3>2, EmptySeq
      <4>3. Head(segments) = segments[1]
        BY <2>4, <3>1
      <4>4. \A i \in 1 .. Len(segments') : i + 1 \in 1 .. Len(segments)
        BY <3>2
      <4> QED
        BY <3>2, <4>1, <4>2, <4>3, <4>4
    <3>4. /\ \A a \in Axes \ {axis} : pos'[a] = pos[a]
          /\ pos'[axis] = IF Moves(axis) THEN Towards(pos[axis], Motion.dir) ELSE pos[axis]
      <4>1. pos' = [pos EXCEPT ![Motion.axis] =
                      IF Moves(Motion.axis) THEN Towards(@, Motion.dir) ELSE @]
        BY <2>6, <3>3, Zenon DEF InterruptStep
      <4>2. Motion.axis = axis
        BY DEF Motion
      <4> QED
        BY <2>4, <4>1, <4>2
    <3>5. /\ pos[axis] \in Int /\ pos'[axis] \in Int
          /\ approach => pos'[axis] <= pos[axis]
          /\ ~approach => pos[axis] <= pos'[axis] /\ pos'[axis] <= pos[axis] + 1
      <4>1. pos[axis] \in -STOP .. TRAVEL /\ STOP \in Nat /\ TRAVEL \in Nat
        BY <2>4, SizesAssumption
      <4>2. Motion.dir = IF approach THEN -1 ELSE 1
        BY DEF Motion
      <4> QED
        BY <3>4, <4>1, <4>2, TowardsInRange
    <3>6. OneMotion'
      BY <1>1, <2>1, <2>2, <3>3 DEF HInv, Cycle, OneMotion
    <3>7. OthersHomed'
      <4>1. \A a \in 1 .. axis - 1 : a \in Axes \ {axis}
        BY <2>4, SizesAssumption DEF Axes
      <4> QED
        BY <1>1, <1>3, <2>1, <2>2, <3>4, <4>1 DEF HInv, Cycle, OthersHomed, Homed, home
    <3>8. SwitchIsSeen'
      <4> SUFFICES ASSUME n_cycle = 1, axis \in filtered PROVE axis \in Engaged'
        BY <1>1, <2>1, <2>2 DEF HInv, Cycle, SwitchIsSeen, home, limits
      <4>1. axis \in Engaged /\ approach
        BY <2>1, <2>4 DEF HInv, Cycle, SwitchIsSeen
      <4> QED
        BY <1>1, <2>4, <3>5, <4>1 DEF Engaged
    <3>9. SwitchIsLeft'
      <4> SUFFICES ASSUME n_cycle = 0 PROVE SwitchIsLeft'
        BY <1>1 DEF SwitchIsLeft, home
      <4>1. ~approach
        BY <2>4
      <4>2. /\ fault[axis] # "open"
            /\ IF axis \in filtered THEN samples[axis] = FILTER
               ELSE fault[axis] = "none" /\ pos[axis] > 0
            /\ fault[axis] = "none" => pos[axis] + (mm + Len(segments)) <= PULLOFF
        BY <2>1 DEF HInv, Cycle, SwitchIsLeft
      <4>3. mm \in Nat /\ PULLOFF \in Nat
        BY Types, SizesAssumption DEF HInv
      <4>4. /\ fault[axis] = "none" => pos'[axis] + (mm + Len(segments')) <= PULLOFF
            /\ pos[axis] > 0 => pos'[axis] > 0
        BY <3>2, <3>5, <4>1, <4>2, <4>3
      <4> QED
        BY <1>1, <2>1, <2>2, <4>2, <4>4 DEF SwitchIsLeft, home, limits
    <3> QED
      BY <2>3, <3>6, <3>7, <3>8, <3>9 DEF Cycle
  <2> QED
    BY <2>5, <2>6 DEF Interrupt
<1> QED
  BY <1>2, <1>3

-----------------------------------------------------------------------------
(* The theorems.                                                           *)

\* The invariant holds of every reachable state.
LEMMA HInvHolds == Spec => []HInv
<1>1. Init => HInv
  <2> SUFFICES ASSUME Init PROVE HInv
    OBVIOUS
  <2>1. TypeOK
    <3>1. 1 \in Axes /\ NoStep \in Steps /\ 0 \in 0 .. DEBOUNCE /\ 0 \in 0 .. FILTER
          /\ {0, TRAVEL} \subseteq -STOP .. TRAVEL /\ SEGMENT_BUFFER \in Nat
      BY SizesAssumption DEF Axes, NoStep, Steps
    <3>2. << >> \in Seq(Steps) /\ Len(<< >>) = 0
      BY EmptySeq
    <3>3. pos \in [Axes -> -STOP .. TRAVEL]
      BY <3>1 DEF Init
    <3>4. segments \in Seq(Steps) /\ Len(segments) <= SEGMENT_BUFFER
      BY <3>1, <3>2 DEF Init
    <3>5. /\ state \in {"IDLE", "ALARM", "HOMING"} /\ exec \subseteq {"CYCLE_STOP", "ABORT"}
          /\ mc \in {"IDLE", "TRIGGERED", "WAIT"} /\ phase \in Phases
          /\ sm \in {"INIT", "HOME_1", "HOME_2", "DELAY", "FINISHED"}
          /\ filtered \subseteq Axes /\ limitsLast \subseteq Axes
      BY DEF Init, Phases
    <3>6. /\ axis \in Axes /\ n_cycle \in 0 .. 255 /\ delay \in 0 .. DEBOUNCE
          /\ block \in Steps /\ st \in Steps /\ mm \in Nat
          /\ samples \in [Axes -> 0 .. FILTER]
          /\ fault \in [Axes -> {"none", "open", "closed"}]
      BY <3>1 DEF Init
    <3>7. {alarm, sysMotion, endMotion, estop, waits, homing, goHome, approach, axislock,
           stopped, loaded, running, limitsDisabled, undisturbed} \subseteq BOOLEAN
      BY DEF Init
    <3>8. {block, st} \subseteq Steps
      BY <3>6
    <3> QED
      BY <3>3, <3>4, <3>5, <3>6, <3>7, <3>8 DEF TypeOK, Steps
  <2>2. Nested /\ Counted /\ NotAborted /\ NoBlockNoSteps
    BY DEF Init, Nested, Counted, NotAborted, NoBlockNoSteps
  <2>3. Cycle
    BY DEF Init, Cycle, RestsBetween, OneMotion, SwitchIsSeen, SwitchIsLeft, ThisHomed,
       OthersHomed
  <2> QED
    BY <2>1, <2>2, <2>3 DEF HInv
<1>2. HInv /\ [Next]_vars => HInv'
  <2> SUFFICES ASSUME HInv, [Next]_vars PROVE HInv'
    OBVIOUS
  <2>1. TypeOK'
    BY TypePreserved DEF HInv
  <2>2. Nested' /\ Counted' /\ NotAborted' /\ NoBlockNoSteps'
    BY MachinesPreserved, NoStepsPreserved
  <2>3. Cycle'
    BY QuietKeepsCycle, CommandKeepsCycle, HomingKeepsCycle, AxisKeepsCycle,
       LimitsKeepCycle, SystemPrepKeepsCycle, InterruptKeepsCycle DEF Next, Pass
  <2> QED
    BY <2>1, <2>2, <2>3 DEF HInv
<1> QED
  BY <1>1, <1>2, PTL DEF Spec

\* Every variable keeps its type: no axis beyond the last one, no segment beyond the
\* buffer, no motion count beyond its byte.
THEOREM TypeCorrect == Spec => []TypeOK
  BY HInvHolds, PTL DEF HInv

\* Every homing motion is planned for an empty planner and an empty step generator.
THEOREM StartsFresh == Spec => []MotionsStartFresh
<1>1. HInv => MotionsStartFresh
  BY DEF HInv, Nested, Cycle, RestsBetween, Moving, AtRest, MotionsStartFresh
<1> QED
  BY <1>1, HInvHolds, PTL

\* Where the position of an axis is set to zero the axis has left a working switch
\* by no more than a pull-off, whatever the filter showed when the cycle began.
THEOREM ZeroIsRight == Spec => []ZeroIsAtTheSwitch
<1>1. HInv => ZeroIsAtTheSwitch
  BY DEF HInv, Nested, Cycle, RestsBetween, ThisHomed, Moving, AtRest, Homed, ZeroIsAtTheSwitch
<1> QED
  BY <1>1, HInvHolds, PTL

\* No answer and no next axis before the axes so far are homed and have stayed there.
THEOREM AnswerIsTrue == Spec => []AnswerMeansHomed
<1>1. HInv => AnswerMeansHomed
  BY DEF HInv, Nested, Cycle, OthersHomed, Homed, AnswerMeansHomed
<1> QED
  BY <1>1, HInvHolds, PTL
=============================================================================
