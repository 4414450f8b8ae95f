------------------------------- MODULE Planner -------------------------------
(***************************************************************************)
(* The planner (software/src/grbl/planner.c) with the velocity profile of  *)
(* the segment generator (stepper.c) that executes its plan.               *)
(*                                                                         *)
(* The planner chooses the speed at every junction of two queued blocks so *)
(* that the machine can always stop at the end of the queue.  It does not  *)
(* recompute the whole queue for every new block: block_buffer_planned     *)
(* points behind the part it believes optimal.  Meanwhile the generator    *)
(* executes the first block towards the exit speed it read when it loaded  *)
(* the block, so it must be told (st_update_plan_block_parameters) whenever *)
(* the plan changes under it.                                              *)
(*                                                                         *)
(* As in the code all speeds are squares.  A length is counted as twice    *)
(* the acceleration times the millimetres, so that over a length d a       *)
(* square changes by at most d; one unit is executed per step.             *)
(***************************************************************************)
EXTENDS Integers

CONSTANTS
    BLOCK_BUFFER_SIZE,  \* slots of the ring; one of them is always unused
    Nominals,           \* squared programmed speeds
    Junctions,          \* squared speed limits of the corner between two blocks
    Lengths             \* lengths of blocks

ASSUME SizeAssumption == BLOCK_BUFFER_SIZE \in Nat /\ BLOCK_BUFFER_SIZE > 2
ASSUME SpeedsAssumption ==
    Nominals \subseteq Nat \ {0} /\ Junctions \subseteq Nat /\ Lengths \subseteq Nat \ {0}

VARIABLES
    block_buffer,           \* slot -> programmed, junction, max, entry speed; length left
    block_buffer_tail,
    block_buffer_head,
    next_buffer_head,
    block_buffer_planned,
    previous_nominal,       \* pl.previous_nominal_speed
    half,                   \* sys.f_override is 50 and not 100
    pl_block,               \* pl_block # NULL: the block at the tail is executed
    recalculate,            \* PREP_FLAG_RECALCULATE
    decel_override,         \* PREP_FLAG_DECEL_OVERRIDE
    current_speed,          \* prep.current_speed
    exit_speed,             \* prep.exit_speed
    hold                    \* sys.step_control: "none", "execute", "end" of motion, at "rest"

ring == << block_buffer_tail, block_buffer_head, next_buffer_head >>
plan == << block_buffer, block_buffer_planned >>
prep == << pl_block, recalculate, decel_override, current_speed, exit_speed >>
vars == << ring, plan, previous_nominal, half, prep, hold >>

Slots == 0 .. BLOCK_BUFFER_SIZE - 1

SOME_LARGE_VALUE == 1000

min(a, b) == IF a < b THEN a ELSE b

NoBlock == [nominal |-> 0, junction |-> 0, max |-> 0, entry |-> 0, length |-> 0]

\* plan_next_block_index, plan_prev_block_index and, by repetition, k slots on.
NextSlot(i) == IF i + 1 = BLOCK_BUFFER_SIZE THEN 0 ELSE i + 1
PrevSlot(i) == IF i = 0 THEN BLOCK_BUFFER_SIZE - 1 ELSE i - 1
Forth(i, k) == (i + k) % BLOCK_BUFFER_SIZE
Back(i, k)  == (i - k) % BLOCK_BUFFER_SIZE
Steps(i, j) == (j - i) % BLOCK_BUFFER_SIZE

Empty == block_buffer_head = block_buffer_tail
Full  == block_buffer_tail = next_buffer_head

\* plan_compute_profile_nominal_speed: the programmed speed under the override.
Nominal(b, h) == IF h THEN b.nominal \div 4 ELSE b.nominal

\* plan_compute_profile_parameters
MaxEntry(nominal, previous, junction) == min(min(nominal, previous), junction)

Init ==
    /\ block_buffer = [i \in Slots |-> NoBlock]
    /\ block_buffer_tail = 0 /\ block_buffer_head = 0 /\ next_buffer_head = 1
    /\ block_buffer_planned = 0
    /\ previous_nominal = 0 /\ half = FALSE
    /\ pl_block = FALSE /\ recalculate = FALSE /\ decel_override = FALSE
    /\ current_speed = 0 /\ exit_speed = 0
    /\ hold = "none"

-----------------------------------------------------------------------------
(* planner_recalculate, on a ring buf with the given head and pointer.     *)

\* The number of blocks behind the planned one.
Plannable(head, planned) == Steps(planned, PrevSlot(head))

\* Mutant: the newest block is not planned to end at rest.
ReverseRunsOn(buf, head, planned) ==
    LET newest == PrevSlot(head)
        r[k \in 0 .. Plannable(head, planned) - 1] ==
          LET b == buf[Back(newest, k)]
          IN IF k = 0 \/ b.entry = b.max THEN b.max
             ELSE min(b.max, r[k - 1] + b.length)
    IN r

\* Entry speeds of the reverse pass, k blocks before the newest; a block at its
\* maximum is not recomputed.
Reverse(buf, head, planned) ==
    LET newest == PrevSlot(head)
        r[k \in 0 .. Plannable(head, planned) - 1] ==
          LET b == buf[Back(newest, k)]
          IN IF k = 0 THEN min(b.max, b.length)
             ELSE IF b.entry = b.max THEN b.max
             ELSE min(b.max, r[k - 1] + b.length)
    IN r

\* Entry speeds of the forward pass, k blocks after the planned one.
Forward(buf, head, planned) ==
    LET n == Plannable(head, planned)
        r == Reverse(buf, head, planned)
        f[k \in 0 .. n] ==
          IF k = 0 THEN buf[planned].entry
          ELSE min(r[n - k], f[k - 1] + buf[Forth(planned, k - 1)].length)
    IN f

\* Mutant: any acceleration, full or not, counts as optimal.
OptimalAtOnce(buf, head, planned) ==
    LET f == Forward(buf, head, planned)
    IN {k \in 1 .. Plannable(head, planned) :
          f[k] > f[k - 1] \/ f[k] = buf[Forth(planned, k)].max}

\* The blocks that end a part of the plan no new block can improve: entered at
\* full acceleration or at their maximum speed.
Optimal(buf, head, planned) ==
    LET n == Plannable(head, planned)
        r == Reverse(buf, head, planned)
        f == Forward(buf, head, planned)
    IN {k \in 1 .. n : f[k] < r[n - k] \/ f[k] = buf[Forth(planned, k)].max}

\* The stepper is notified if the reverse pass goes back to the tail, which it
\* then executes from its current speed; one block alone is not planned.  In an empty
\* buffer the passes walk over what is left of old blocks, and the planned pointer
\* may end anywhere: slots behind the tail are cleared here.
Recalculate(buf, head, planned, executing) ==
    LET n == Plannable(head, planned)
        notify == n > 0 /\ planned = block_buffer_tail
        buf1 == IF notify /\ executing
                  THEN [buf EXCEPT ![block_buffer_tail].entry = current_speed] ELSE buf
        f    == Forward(buf1, head, planned)
        best == Optimal(buf1, head, planned)
    IN /\ block_buffer' = [i \in Slots |->
                             IF Steps(planned, i) \in 1 .. n
                               THEN [buf1[i] EXCEPT !.entry = f[Steps(planned, i)]]
                               ELSE buf1[i]]
       /\ IF head = block_buffer_tail THEN block_buffer_planned' \in Slots
          ELSE block_buffer_planned' =
                 IF best = {} THEN planned
                 ELSE Forth(planned, CHOOSE k \in best : \A j \in best : j <= k)
       /\ pl_block' = (executing /\ ~notify)
       /\ recalculate' = (recalculate \/ (pl_block /\ ~pl_block'))

-----------------------------------------------------------------------------
(* The main loop.                                                          *)

\* st_update_plan_block_parameters: a block in execution restarts from its current
\* speed.
NotUpdated(buf) == buf  \* mutant: it keeps the speed it was entered with
Updated(buf) ==
    IF pl_block THEN [buf EXCEPT ![block_buffer_tail].entry = current_speed] ELSE buf

\* plan_buffer_line: a block is planned at the head of the queue.
BufferLine ==
    /\ ~Full
    /\ \E n \in Nominals, j \in Junctions, l \in Lengths :
         LET junction == IF Empty THEN 0 ELSE j
             b == [nominal |-> n, junction |-> junction, entry |-> 0, length |-> l, max |-> 0]
             max == MaxEntry(Nominal(b, half), previous_nominal, junction)
         IN /\ previous_nominal' = Nominal(b, half)
            /\ Recalculate([block_buffer EXCEPT ![block_buffer_head] = [b EXCEPT !.max = max]],
                           next_buffer_head, block_buffer_planned, pl_block)
    /\ block_buffer_head' = next_buffer_head
    /\ next_buffer_head' = NextSlot(next_buffer_head)
    /\ UNCHANGED << block_buffer_tail, half, decel_override, current_speed, exit_speed, hold >>

\* plan_cycle_reinitialize: everything is planned anew from the tail.
Reinitialize(buf) ==
    Recalculate(Updated(buf), block_buffer_head, block_buffer_tail, FALSE)

\* plan_update_velocity_profile_parameters under the override h.
Limits(h) ==
    [i \in Slots |->
       IF Steps(block_buffer_tail, i) < Steps(block_buffer_tail, block_buffer_head)
         THEN LET b == block_buffer[i]
                  previous == IF i = block_buffer_tail THEN SOME_LARGE_VALUE
                              ELSE Nominal(block_buffer[PrevSlot(i)], h)
              IN [b EXCEPT !.max = MaxEntry(Nominal(b, h), previous, b.junction)]
         ELSE block_buffer[i]]

\* The operator changes the feed override.
Override ==
    /\ half' = ~half
    /\ previous_nominal' = IF Empty THEN SOME_LARGE_VALUE
                           ELSE Nominal(block_buffer[PrevSlot(block_buffer_head)], ~half)
    /\ Reinitialize(Limits(~half))
    /\ UNCHANGED << ring, decel_override, current_speed, exit_speed, hold >>

\* A feed hold begins.
BeginHold ==
    /\ hold = "none"
    /\ hold' = "execute"
    /\ block_buffer' = Updated(block_buffer)
    /\ pl_block' = FALSE /\ recalculate' = (recalculate \/ pl_block)
    /\ UNCHANGED << ring, block_buffer_planned, previous_nominal, half, decel_override,
                    current_speed, exit_speed >>

\* EXEC_CYCLE_STOP in a hold: rest is reached, or the blocks ran out before.
CycleStop ==
    /\ \/ hold = "end" /\ hold' = "rest"
       \/ hold = "execute" /\ Empty /\ hold' = "none"
    /\ Reinitialize(block_buffer)
    /\ UNCHANGED << ring, previous_nominal, half, decel_override, current_speed, exit_speed >>

\* EXEC_CYCLE_START ends the hold.
CycleStart ==
    /\ hold = "rest"
    /\ hold' = "none"
    /\ UNCHANGED << ring, plan, previous_nominal, half, prep >>

\* plan_reset and st_reset: jog cancel, limit, emergency stop, probe; a soft reset
\* also resets the override.
Reset ==
    /\ block_buffer' = [i \in Slots |-> NoBlock]
    /\ block_buffer_tail' = 0 /\ block_buffer_head' = 0 /\ next_buffer_head' = 1
    /\ block_buffer_planned' = 0
    /\ previous_nominal' = 0
    /\ pl_block' = FALSE /\ recalculate' = FALSE /\ decel_override' = FALSE
    /\ current_speed' = 0 /\ exit_speed' = 0
    /\ hold' = "none"
    /\ half' \in {half, FALSE}

-----------------------------------------------------------------------------
(* st_prep_buffer                                                          *)

Tail == block_buffer[block_buffer_tail]

\* plan_get_exec_block_exit_speed_sqr
ExecExit == IF NextSlot(block_buffer_tail) = block_buffer_head THEN 0
            ELSE block_buffer[NextSlot(block_buffer_tail)].entry

\* The velocity profile of the block at the tail, entered at speed e: in a hold,
\* and if the block is too short to come down to a lowered nominal speed, it is
\* decelerated to its end; otherwise it ends with the entry speed of the next.
Profile(e) ==
    LET n == Nominal(Tail, half)
        overrun == hold # "execute" /\ e > n /\ e - n >= Tail.length
    IN /\ exit_speed' = IF hold = "execute" /\ e <= Tail.length THEN 0
                        ELSE IF hold = "execute" \/ overrun THEN e - Tail.length
                        ELSE ExecExit
       /\ decel_override' = overrun

\* A new block is loaded; after a deceleration it starts with what is left.
Load ==
    LET e == IF hold = "execute" \/ decel_override THEN exit_speed ELSE Tail.entry
    IN /\ ~pl_block /\ ~recalculate /\ ~Empty /\ hold \in {"none", "execute"}
       /\ pl_block' = TRUE
       /\ current_speed' = e
       /\ block_buffer' = [block_buffer EXCEPT ![block_buffer_tail].entry = e]
       /\ Profile(e)
       /\ UNCHANGED << ring, block_buffer_planned, previous_nominal, half, recalculate, hold >>

\* The profile of a block in execution is computed anew.
Reload ==
    /\ ~pl_block /\ recalculate /\ ~Empty /\ hold \in {"none", "execute"}
    /\ pl_block' = TRUE /\ recalculate' = FALSE
    /\ Profile(Tail.entry)
    /\ UNCHANGED << ring, plan, previous_nominal, half, current_speed, hold >>

\* The speed one unit on: down to a lowered nominal speed, otherwise as fast as
\* acceleration, nominal speed and the braking distance to the exit allow.
Cruise(left) ==
    LET n == Nominal(Tail, half)
        v == min(min(current_speed + 1, n), exit_speed + left)
    IN IF current_speed > n \/ v < current_speed - 1 THEN current_speed - 1 ELSE v

\* plan_discard_current_block pushes the planned pointer along with the tail.
PlannedStays == block_buffer_planned  \* mutant: it does not
PushedPlanned ==
    IF block_buffer_planned = block_buffer_tail THEN NextSlot(block_buffer_tail)
    ELSE block_buffer_planned

\* One unit of the block is cut into segments; at its end it is discarded, with
\* the speed the profile was to end with.
Advance ==
    LET left == Tail.length - 1
    IN /\ pl_block /\ hold \in {"none", "execute"}
       /\ hold = "execute" => current_speed > 0
       /\ block_buffer' = [block_buffer EXCEPT ![block_buffer_tail] =
                             IF left = 0 THEN NoBlock ELSE [Tail EXCEPT !.length = left]]
       /\ current_speed' = IF left = 0 THEN exit_speed
                           ELSE IF hold = "execute" THEN current_speed - 1
                           ELSE Cruise(left)
       /\ IF left = 0
            THEN /\ pl_block' = FALSE
                 /\ block_buffer_tail' = NextSlot(block_buffer_tail)
                 /\ block_buffer_planned' = PushedPlanned
            ELSE UNCHANGED << pl_block, block_buffer_tail, block_buffer_planned >>
       /\ UNCHANGED << block_buffer_head, next_buffer_head, previous_nominal, half,
                       recalculate, decel_override, exit_speed, hold >>

\* A hold comes to rest within a block.
EndMotion ==
    /\ pl_block /\ hold = "execute" /\ current_speed = 0
    /\ hold' = "end"
    /\ UNCHANGED << ring, plan, previous_nominal, half, prep >>

-----------------------------------------------------------------------------
Next ==
    \/ BufferLine \/ Override \/ BeginHold \/ CycleStop \/ CycleStart \/ Reset
    \/ Load \/ Reload \/ Advance \/ EndMotion

Spec == Init /\ [][Next]_vars

-----------------------------------------------------------------------------
Count == Steps(block_buffer_tail, block_buffer_head)

\* Block k of the queue, 0 being the one at the tail.
Block(k) == block_buffer[Forth(block_buffer_tail, k)]

TypeOK ==
    /\ block_buffer_tail \in Slots /\ block_buffer_head \in Slots
    /\ next_buffer_head = NextSlot(block_buffer_head)
    /\ block_buffer_planned \in Slots
    /\ ~Empty => Steps(block_buffer_tail, block_buffer_planned) < Count
    /\ \A i \in Slots : \A field \in DOMAIN NoBlock : block_buffer[i][field] \in Nat
    /\ previous_nominal \in Nat /\ half \in BOOLEAN
    /\ pl_block \in BOOLEAN /\ recalculate \in BOOLEAN /\ decel_override \in BOOLEAN
    /\ current_speed \in Nat /\ exit_speed \in Nat
    /\ hold \in {"none", "execute", "end", "rest"}

\* The changes of the override that the plan allows for: those that find one feed rate
\* in the queue, and not the machine between two blocks still coming down to a feed
\* rate lowered before.
OneSpeedQueued ==
    \A i \in Slots : Steps(block_buffer_tail, i) < Count =>
                       block_buffer[i].nominal = Tail.nominal
Calm == OneSpeedQueued /\ ~(decel_override /\ ~pl_block)

CalmSpec == Init /\ [][Next /\ (Override => Calm)]_vars

\* The speed a block leaves with: that at which the next one is entered.
ExitOf(k) == IF k + 1 = Count THEN 0 ELSE Block(k + 1).entry

\* planner.c: no junction is entered faster than its limit, and none faster than
\* the machine can brake from over the rest of the queue.
PlanStopsInTime ==
    \A k \in 1 .. Count - 1 : /\ Block(k).entry <= Block(k).max
                              /\ Block(k).entry <= ExitOf(k) + Block(k).length

\* planner.c: every junction ahead of the block in execution is taken as fast as
\* possible: its speed is bounded by its limit, by the braking distance behind it,
\* or by full acceleration since the junction before.  So the part of the plan
\* that block_buffer_planned skips is optimal indeed.
NoSpeedWasted ==
    hold = "none" =>
    \A k \in 1 .. Count - 1 :
        \/ k = 1 /\ (pl_block \/ recalculate)
        \/ Block(k).entry = Block(k).max
        \/ Block(k).entry = ExitOf(k) + Block(k).length
        \/ Block(k).entry = Block(k - 1).entry + Block(k - 1).length

\* The machine never accelerates or brakes harder than it may: from one unit to
\* the next its squared speed changes by one at most, and where one block ends
\* and the next begins, or the plan is changed under a moving block, not at all.
AccelerationRespected ==
    [][\/ Reset
       \/ Advance /\ current_speed' - current_speed \in -1 .. 1
       \/ current_speed' = current_speed]_vars
=============================================================================
