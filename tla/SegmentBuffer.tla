---------------------------- MODULE SegmentBuffer ----------------------------
(***************************************************************************)
(* The segment buffer (software/src/grbl/stepper.c): st_prep_buffer() in   *)
(* the main loop cuts the blocks of the planner into segments, the stepper *)
(* interrupt executes them.                                                *)
(*                                                                         *)
(* Two rings without a lock.  segment_buffer[] holds the segments between  *)
(* segment_buffer_tail, which the interrupt moves, and                     *)
(* segment_buffer_head, which the main loop moves; the slot at the head is *)
(* under construction.  st_block_buffer[], one entry shorter, holds the    *)
(* Bresenham data of the blocks the segments are cut from; it has no tail: *)
(* an entry is taken to be free because so many segments fit before it.    *)
(* The interrupt learns that a new block begins from the change of         *)
(* st_block_index between two segments and from nothing else.              *)
(*                                                                         *)
(* Every statement of st_prep_buffer() that the interrupt can observe is   *)
(* an action; one interrupt is one action, since it cannot be interrupted  *)
(* by the main loop.  The statements take effect in their order.  What the *)
(* planner holds, and the velocity profile, are left open: there is a      *)
(* block or not, a segment has 1..MaxSteps steps and may be the last of    *)
(* its block.                                                              *)
(***************************************************************************)
EXTENDS Integers, Sequences

CONSTANTS
    SEGMENT_BUFFER_SIZE,    \* slots of the segment ring
    Blocks,                 \* Bresenham data of planner blocks
    NoBlock,                \* the zeroes st_reset() leaves
    MaxSteps                \* bound: steps of a segment

\* With two slots the block ring had one entry and no new block was ever seen.
ASSUME SizeAssumption  == SEGMENT_BUFFER_SIZE \in Nat /\ SEGMENT_BUFFER_SIZE > 2
ASSUME BlockAssumption == NoBlock \notin Blocks
ASSUME StepsAssumption == MaxSteps \in Nat \ {0}

Slots        == 0 .. SEGMENT_BUFFER_SIZE - 1
BlockIndices == 0 .. SEGMENT_BUFFER_SIZE - 2

VARIABLES
    segment_buffer_tail,
    segment_buffer_head,
    segment_next_head,
    segment_buffer,     \* slot -> st_block_index and n_step
    st_block_buffer,    \* block index -> Bresenham data
    st_block_index,     \* prep.st_block_index
    pl_block,           \* pl_block # NULL
    recalculate_flag,   \* prep.recalculate_flag
    step_control,       \* sys.step_control
    pc,                 \* the statement st_prep_buffer() is at
    exec_segment,       \* stepper_st.exec_segment # NULL
    exec_block_index,   \* stepper_st.exec_block_index
    exec_block,         \* stepper_st.exec_block # NULL
    step_count,         \* stepper_st.step_count
    running,            \* the stepper interrupt is enabled
    made,               \* history: slot -> its block's data, and whether it begins it
    fresh,              \* history: the block loaded last has no segment yet
    out                 \* history: the block data used by the last step, and
                        \* whether the counters were started anew

ring  == << segment_buffer_tail, segment_buffer_head, segment_next_head, segment_buffer >>
prep  == << st_block_buffer, st_block_index, pl_block, recalculate_flag >>
isr   == << exec_segment, exec_block_index, exec_block, step_count >>
hist  == << made, fresh, out >>
vars  == << ring, prep, step_control, pc, isr, running, hist >>

Control == {"EXECUTE_HOLD", "END_MOTION"}
Statements == {"out", "while", "copy", "segment", "head", "next_head", "exit"}

-----------------------------------------------------------------------------
\* Mutant of NextBlockIndex: the block ring is one entry shorter.
NextBlockIndexShort(i) == IF i + 1 >= SEGMENT_BUFFER_SIZE - 2 THEN 0 ELSE i + 1

\* st_next_block_index
NextBlockIndex(i) == IF i + 1 = SEGMENT_BUFFER_SIZE - 1 THEN 0 ELSE i + 1

\* The wrap of segment_next_head and of segment_buffer_tail.
NextSlot(i) == IF i + 1 = SEGMENT_BUFFER_SIZE THEN 0 ELSE i + 1

Empty == [st_block_index |-> 0, n_step |-> 0]
Nothing == [block |-> NoBlock, restart |-> FALSE]

Init ==
    /\ segment_buffer_tail = 0 /\ segment_buffer_head = 0 /\ segment_next_head = 1
    /\ segment_buffer = [i \in Slots |-> Empty]
    /\ st_block_buffer = [b \in BlockIndices |-> NoBlock]
    /\ st_block_index = 0 /\ pl_block = FALSE /\ recalculate_flag = FALSE
    /\ step_control = {} /\ pc = "out"
    /\ exec_segment = FALSE /\ exec_block_index = 0 /\ exec_block = FALSE
    /\ step_count = 0 /\ running = FALSE
    /\ made = [i \in Slots |-> [block |-> NoBlock, first |-> FALSE]]
    /\ fresh = FALSE /\ out = Nothing

-----------------------------------------------------------------------------
(* st_prep_buffer                                                          *)

\* It is called; nothing is prepared once the motion has been ended.
PrepCall ==
    /\ pc = "out" /\ "END_MOTION" \notin step_control
    /\ pc' = "while"
    /\ UNCHANGED << ring, prep, step_control, isr, running, hist >>

\* The loop condition: the slot after the one under construction is free.
Room == segment_buffer_tail # segment_next_head

\* No room, or no block in the planner.
PrepReturn ==
    /\ pc = "while"
    /\ ~Room \/ ~pl_block
    /\ pc' = "out"
    /\ UNCHANGED << ring, prep, step_control, isr, running, hist >>

\* Go on with the block in preparation.
PrepContinue ==
    /\ pc = "while" /\ Room /\ pl_block
    /\ pc' = "segment"
    /\ UNCHANGED << ring, prep, step_control, isr, running, hist >>

\* The block's velocity profile is recomputed; its Bresenham data stay.
PrepRecalculate ==
    /\ pc = "while" /\ Room /\ ~pl_block /\ recalculate_flag
    /\ pl_block' = TRUE /\ recalculate_flag' = FALSE
    /\ pc' = "segment"
    /\ UNCHANGED << ring, st_block_buffer, st_block_index, step_control, isr, running, hist >>

\* A new block: the next entry of the block ring is taken,
PrepLoad ==
    /\ pc = "while" /\ Room /\ ~pl_block /\ ~recalculate_flag
    /\ pl_block' = TRUE
    /\ st_block_index' = NextBlockIndex(st_block_index)
    /\ pc' = "copy"
    /\ UNCHANGED << ring, st_block_buffer, recalculate_flag, step_control, isr, running, hist >>

\* and filled.
PrepCopy ==
    /\ pc = "copy"
    /\ \E b \in Blocks : st_block_buffer' = [st_block_buffer EXCEPT ![st_block_index] = b]
    /\ fresh' = TRUE
    /\ pc' = "segment"
    /\ UNCHANGED << ring, st_block_index, pl_block, recalculate_flag, step_control, isr,
                    running, made, out >>

Write(n) ==
    segment_buffer' = [segment_buffer EXCEPT ![segment_buffer_head] =
                           [st_block_index |-> st_block_index, n_step |-> n]]

\* The segment is computed into the slot at the head.
PrepSegment ==
    /\ pc = "segment"
    /\ \E n \in 1 .. MaxSteps : Write(n)
    /\ made' = [made EXCEPT ![segment_buffer_head] =
                    [block |-> st_block_buffer[st_block_index], first |-> fresh]]
    /\ pc' = "head"
    /\ UNCHANGED << segment_buffer_tail, segment_buffer_head, segment_next_head, prep,
                    step_control, isr, running, fresh, out >>

\* At the end of a hold there may be no step left to make.
PrepBail ==
    /\ pc = "segment" /\ "EXECUTE_HOLD" \in step_control
    /\ Write(0)
    /\ step_control' = step_control \cup {"END_MOTION"}
    /\ pc' = "out"
    /\ UNCHANGED << segment_buffer_tail, segment_buffer_head, segment_next_head, prep, isr,
                    running, hist >>

\* The segment is handed to the interrupt,
PrepHead ==
    /\ pc = "head"
    /\ segment_buffer_head' = segment_next_head
    /\ fresh' = FALSE
    /\ pc' = "next_head"
    /\ UNCHANGED << segment_buffer_tail, segment_next_head, segment_buffer, prep,
                    step_control, isr, running, made, out >>

\* and only then the next slot is reserved.
PrepNextHead ==
    /\ pc = "next_head"
    /\ segment_next_head' = NextSlot(segment_next_head)
    /\ pc' = "exit"
    /\ UNCHANGED << segment_buffer_tail, segment_buffer_head, segment_buffer, prep,
                    step_control, isr, running, hist >>

\* More of the block to come, its end, or the end of a hold.
PrepExit ==
    /\ pc = "exit"
    /\ \/ pc' = "while" /\ UNCHANGED << pl_block, step_control >>
       \/ pc' = "while" /\ pl_block' = FALSE /\ UNCHANGED step_control
       \/ /\ "EXECUTE_HOLD" \in step_control
          /\ step_control' = step_control \cup {"END_MOTION"}
          /\ pc' = "out"
          /\ UNCHANGED pl_block
    /\ UNCHANGED << ring, st_block_buffer, st_block_index, recalculate_flag, isr, running,
                    hist >>

-----------------------------------------------------------------------------
(* The main loop between two calls.                                        *)

\* st_update_plan_block_parameters
UpdatePlanBlock ==
    /\ pl_block' = FALSE
    /\ recalculate_flag' = (recalculate_flag \/ pl_block)

\* planner_recalculate and plan_update_velocity_profile_parameters.
Replan ==
    /\ pc = "out"
    /\ UpdatePlanBlock
    /\ UNCHANGED << ring, st_block_buffer, st_block_index, step_control, pc, isr, running,
                    hist >>

\* A feed hold, motion cancel or door begins its deceleration.
BeginHold ==
    /\ pc = "out"
    /\ UpdatePlanBlock
    /\ step_control' = {"EXECUTE_HOLD"}
    /\ UNCHANGED << ring, st_block_buffer, st_block_index, pc, isr, running, hist >>

\* The hold has come to rest; a cycle start ends it.
EndHold ==
    /\ pc = "out" /\ ~running
    /\ step_control' = {}
    /\ UpdatePlanBlock
    /\ UNCHANGED << ring, st_block_buffer, st_block_index, pc, isr, running, hist >>

\* st_wake_up
WakeUp ==
    /\ pc = "out"
    /\ running' = TRUE
    /\ UNCHANGED << ring, prep, step_control, pc, isr, hist >>

\* Mutant of Reset: the preparation data are not cleared.
ResetKeepsPrep ==
    /\ pc = "out"
    /\ running' = FALSE
    /\ segment_buffer_tail' = 0 /\ segment_buffer_head' = 0 /\ segment_next_head' = 1
    /\ segment_buffer' = [i \in Slots |-> Empty]
    /\ st_block_buffer' = [b \in BlockIndices |-> NoBlock]
    /\ pl_block' = FALSE /\ recalculate_flag' = FALSE
    /\ exec_segment' = FALSE /\ exec_block_index' = 0 /\ exec_block' = FALSE
    /\ step_count' = 0
    /\ fresh' = FALSE /\ out' = Nothing
    /\ UNCHANGED << st_block_index, step_control, pc, made >>

\* st_reset: the interrupt is disabled first.
Reset ==
    /\ pc = "out"
    /\ running' = FALSE
    /\ segment_buffer_tail' = 0 /\ segment_buffer_head' = 0 /\ segment_next_head' = 1
    /\ segment_buffer' = [i \in Slots |-> Empty]
    /\ st_block_buffer' = [b \in BlockIndices |-> NoBlock]
    /\ st_block_index' = 0 /\ pl_block' = FALSE /\ recalculate_flag' = FALSE
    /\ exec_segment' = FALSE /\ exec_block_index' = 0 /\ exec_block' = FALSE
    /\ step_count' = 0
    /\ fresh' = FALSE /\ out' = Nothing
    /\ UNCHANGED << step_control, pc, made >>

-----------------------------------------------------------------------------
(* TIMER1_COMPA_vect                                                       *)

Loaded == segment_buffer[segment_buffer_tail]

\* Mutant of Restarts: every segment starts the counters anew.
RestartsEverySegment == ~exec_segment

\* The segment at the tail is loaded: a change of its block index is a new block.
Restarts == ~exec_segment /\ exec_block_index # Loaded.st_block_index

\* One step; the segment's slot is given back with its last one.
InterruptStep ==
    LET index == IF exec_segment THEN exec_block_index ELSE Loaded.st_block_index
        left  == (IF exec_segment THEN step_count ELSE Loaded.n_step) - 1
    IN /\ running
       /\ exec_segment \/ segment_buffer_head # segment_buffer_tail
       /\ exec_block_index' = index
       /\ exec_block' = (exec_block \/ Restarts)
       /\ step_count' = left
       /\ exec_segment' = (left # 0)
       /\ segment_buffer_tail' = IF left = 0 THEN NextSlot(segment_buffer_tail)
                                 ELSE segment_buffer_tail
       /\ out' = [block   |-> IF exec_block' THEN st_block_buffer[index] ELSE NoBlock,
                  restart |-> Restarts]
       /\ UNCHANGED << segment_buffer_head, segment_next_head, segment_buffer, prep,
                       step_control, pc, running, made, fresh >>

\* Nothing to execute: the interrupt disables itself.
InterruptEmpty ==
    /\ running
    /\ ~exec_segment /\ segment_buffer_head = segment_buffer_tail
    /\ running' = FALSE
    /\ UNCHANGED << ring, prep, step_control, pc, isr, hist >>

-----------------------------------------------------------------------------
Prep ==
    \/ PrepCall \/ PrepReturn \/ PrepContinue \/ PrepRecalculate \/ PrepLoad \/ PrepCopy
    \/ PrepSegment \/ PrepBail \/ PrepHead \/ PrepNextHead \/ PrepExit

Next ==
    \/ Prep
    \/ Replan \/ BeginHold \/ EndHold \/ WakeUp \/ Reset
    \/ InterruptStep \/ InterruptEmpty

Spec == Init /\ [][Next]_vars

-----------------------------------------------------------------------------
\* How many slots lie between two positions of the ring.
Distance(i, j) == IF i <= j THEN j - i ELSE j - i + SEGMENT_BUFFER_SIZE

\* The slots handed to the interrupt and not given back.
Published == {i \in Slots : Distance(segment_buffer_tail, i)
                              < Distance(segment_buffer_tail, segment_buffer_head)}

TypeOK ==
    /\ segment_buffer_tail \in Slots
    /\ segment_buffer_head \in Slots /\ segment_next_head \in Slots
    /\ segment_buffer \in [Slots -> [st_block_index: BlockIndices, n_step: 0 .. MaxSteps]]
    /\ st_block_buffer \in [BlockIndices -> Blocks \cup {NoBlock}]
    /\ st_block_index \in BlockIndices
    /\ pl_block \in BOOLEAN /\ recalculate_flag \in BOOLEAN
    /\ step_control \subseteq Control /\ pc \in Statements
    /\ exec_segment \in BOOLEAN /\ exec_block_index \in BlockIndices
    /\ exec_block \in BOOLEAN /\ step_count \in 0 .. MaxSteps
    /\ running \in BOOLEAN
    /\ made \in [Slots -> [block: Blocks \cup {NoBlock}, first: BOOLEAN]]
    /\ fresh \in BOOLEAN
    /\ out \in [block: Blocks \cup {NoBlock}, restart: BOOLEAN]

\* A segment the interrupt may still execute finds the Bresenham data of the
\* block it was cut from: st_prep_buffer never fills an entry of the block ring
\* that is in use, although nothing but the size of the rings keeps it from it.
BlockDataIntact ==
    \A i \in Published :
        st_block_buffer[segment_buffer[i].st_block_index] = made[i].block

\* The interrupt starts its Bresenham counters anew exactly with the first
\* segment of a block, though it sees only whether the index has changed: no
\* two blocks in a row share an index, whatever holds and replans came between.
NewBlockIsNoticed ==
    (segment_buffer_head # segment_buffer_tail /\ ~exec_segment)
        => (Restarts <=> made[segment_buffer_tail].first)

-----------------------------------------------------------------------------
(* The refinement.                                                         *)

\* The segment in slot i as the stream holds it.
Abstract(i) ==
    IF i = segment_buffer_tail /\ exec_segment
      THEN [block |-> made[i].block, first |-> FALSE, steps |-> step_count]
      ELSE [block |-> made[i].block, first |-> made[i].first,
            steps |-> segment_buffer[i].n_step]

SlotAt(k) == IF segment_buffer_tail + k < SEGMENT_BUFFER_SIZE
               THEN segment_buffer_tail + k
               ELSE segment_buffer_tail + k - SEGMENT_BUFFER_SIZE

Queue == [k \in 1 .. Distance(segment_buffer_tail, segment_buffer_head)
              |-> Abstract(SlotAt(k - 1))]

Stream == INSTANCE StepStream WITH
    queue <- Queue, Capacity <- SEGMENT_BUFFER_SIZE - 1

\* The two rings implement the stream: no step is lost, repeated, put out of
\* order or put out with another block's data.
StreamSpec == Stream!Spec
=============================================================================
