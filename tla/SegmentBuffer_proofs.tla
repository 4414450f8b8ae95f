------------------------ MODULE SegmentBuffer_proofs ------------------------
(***************************************************************************)
(* Proofs about SegmentBuffer, for rings of every size, every set of       *)
(* blocks and every length of a segment.                                   *)
(*                                                                         *)
(* The argument.  The block ring has no tail, so nothing in the code says  *)
(* why an entry is free when it is filled.  It is free because the block   *)
(* indices in use trail the segments in use: the index of a published      *)
(* segment lies no further behind the index in preparation than its slot   *)
(* lies behind the head (BlocksFit).  Room in the segment ring therefore   *)
(* leaves room in the block ring, though that is one entry shorter.  Two   *)
(* neighbouring segments have different indices exactly if the second one  *)
(* begins a block (Chain), because every block loaded gets a segment       *)
(* before the next one is loaded (Preparing).                              *)
(*                                                                         *)
(* The second part maps the rings onto StepStream: the published slots in  *)
(* their order are its queue, handing a segment over is Put, an interrupt  *)
(* is Step, st_reset() is Cut and everything else leaves the stream alone. *)
(* For that every step must come from a loaded block (BlocksLoaded) and    *)
(* the first one after a reset must be recognised as one (Started).        *)
(***************************************************************************)
EXTENDS SegmentBuffer, TLAPS, SequenceTheorems

BlockDistance(a, b) == IF a <= b THEN b - a ELSE b - a + SEGMENT_BUFFER_SIZE - 1

PrevSlot(i) == IF i = 0 THEN SEGMENT_BUFFER_SIZE - 1 ELSE i - 1

\* A block is loaded that has no segment yet.
Pending == pc = "copy" \/ fresh

\* The block index of the segment handed over last.
LastIndex ==
    IF segment_buffer_head = segment_buffer_tail THEN exec_block_index
    ELSE segment_buffer[PrevSlot(segment_buffer_head)].st_block_index

Building == pc \in {"copy", "segment", "head"}

Indices ==
    /\ segment_next_head = IF pc = "next_head" THEN segment_buffer_head
                           ELSE NextSlot(segment_buffer_head)
    /\ Building => segment_buffer_tail # NextSlot(segment_buffer_head)

Executing ==
    /\ exec_segment => /\ segment_buffer_tail # segment_buffer_head
                       /\ exec_block_index = Loaded.st_block_index
                       /\ step_count > 0
    /\ \A i \in Published : segment_buffer[i].n_step > 0

Preparing ==
    /\ Building => pl_block
    /\ fresh => /\ pl_block \/ recalculate_flag
                /\ pc \notin {"copy", "next_head", "exit"}
    /\ pc = "head" =>
         /\ segment_buffer[segment_buffer_head].st_block_index = st_block_index
         /\ segment_buffer[segment_buffer_head].n_step > 0
         /\ made[segment_buffer_head] =
              [block |-> st_block_buffer[st_block_index], first |-> fresh]

BlocksFit ==
    /\ \A i \in Published :
         BlockDistance(segment_buffer[i].st_block_index, st_block_index)
           < Distance(i, segment_buffer_head) + IF Pending THEN 1 ELSE 0
    /\ pc = "copy" =>
         \A i \in Published : segment_buffer[i].st_block_index # st_block_index

Chain ==
    /\ st_block_index = IF Pending THEN NextBlockIndex(LastIndex) ELSE LastIndex
    /\ \A i \in Published \ {segment_buffer_tail} :
         made[i].first <=>
           segment_buffer[PrevSlot(i)].st_block_index # segment_buffer[i].st_block_index
    /\ NewBlockIsNoticed

IInv ==
    /\ TypeOK
    /\ Indices
    /\ Executing
    /\ Preparing
    /\ BlocksFit
    /\ Chain
    /\ BlockDataIntact

-----------------------------------------------------------------------------
(* Arithmetic of the two rings.                                            *)

\* Moving on and back by one slot or entry stays in the ring.
LEMMA RingIndices ==
    /\ \A i \in Slots : /\ NextSlot(i) \in Slots /\ PrevSlot(i) \in Slots
                        /\ NextSlot(i) # i /\ PrevSlot(i) # i
                        /\ PrevSlot(NextSlot(i)) = i /\ NextSlot(PrevSlot(i)) = i
    /\ \A b \in BlockIndices : NextBlockIndex(b) \in BlockIndices /\ NextBlockIndex(b) # b
    /\ 0 \in Slots /\ 1 \in Slots /\ NextSlot(0) = 1 /\ 0 \in BlockIndices
  BY SizeAssumption DEF Slots, BlockIndices, NextSlot, PrevSlot, NextBlockIndex

\* The slot under construction is not published, the one at the tail is unless
\* the ring is empty, and a published slot lies behind the head.
LEMMA PublishedSlots ==
    ASSUME segment_buffer_tail \in Slots, segment_buffer_head \in Slots
    PROVE  /\ Published \subseteq Slots
           /\ segment_buffer_head \notin Published
           /\ segment_buffer_tail # segment_buffer_head => segment_buffer_tail \in Published
           /\ segment_buffer_tail = segment_buffer_head => Published = {}
           /\ \A i \in Published :
                 /\ Distance(i, segment_buffer_head) \in 1 .. SEGMENT_BUFFER_SIZE - 1
                 /\ Distance(i, segment_buffer_head)
                      <= Distance(segment_buffer_tail, segment_buffer_head)
                 /\ i # segment_buffer_tail => PrevSlot(i) \in Published
  BY SizeAssumption DEF Published, Slots, Distance, PrevSlot

\* With the slot after the head free, the published slots are two fewer than
\* the ring has.
LEMMA RoomBehindHead ==
    ASSUME segment_buffer_tail \in Slots, segment_buffer_head \in Slots,
           segment_buffer_tail # NextSlot(segment_buffer_head)
    PROVE  Distance(segment_buffer_tail, segment_buffer_head) <= SEGMENT_BUFFER_SIZE - 2
  BY SizeAssumption DEF Slots, Distance, NextSlot

\* Handing a segment over publishes its slot and no other.
LEMMA HeadMoves ==
    ASSUME segment_buffer_tail \in Slots, segment_buffer_head \in Slots,
           segment_buffer_tail # NextSlot(segment_buffer_head),
           segment_buffer_tail' = segment_buffer_tail,
           segment_buffer_head' = NextSlot(segment_buffer_head)
    PROVE  /\ Published' = Published \cup {segment_buffer_head}
           /\ \A i \in Published : Distance(i, segment_buffer_head')
                                     = Distance(i, segment_buffer_head) + 1
           /\ Distance(segment_buffer_head, segment_buffer_head') = 1
           /\ segment_buffer_tail' # segment_buffer_head'
  BY SizeAssumption DEF Slots, Published, Distance, NextSlot

\* Giving a segment back withdraws its slot and no other.
LEMMA TailMoves ==
    ASSUME segment_buffer_tail \in Slots, segment_buffer_head \in Slots,
           segment_buffer_tail # segment_buffer_head,
           segment_buffer_head' = segment_buffer_head,
           segment_buffer_tail' = NextSlot(segment_buffer_tail)
    PROVE  /\ Published' = Published \ {segment_buffer_tail}
           /\ segment_buffer_tail' # NextSlot(segment_buffer_head)
  BY SizeAssumption DEF Slots, Published, Distance, NextSlot

\* A slot that lies behind a head with room keeps its block off the entry that
\* is loaded next.
LEMMA LoadFits ==
    ASSUME NEW b \in BlockIndices, NEW c \in BlockIndices, NEW d \in Nat,
           d <= SEGMENT_BUFFER_SIZE - 2,
           BlockDistance(b, c) < d
    PROVE  /\ BlockDistance(b, NextBlockIndex(c)) < d + 1
           /\ b # NextBlockIndex(c)
  BY SizeAssumption DEF BlockIndices, BlockDistance, NextBlockIndex

-----------------------------------------------------------------------------
(* The invariant is inductive.                                             *)

\* Both rings start empty, with the index of a block that was never loaded.
LEMMA InitEstablishes == Init => IInv
<1> SUFFICES ASSUME Init PROVE IInv
  OBVIOUS
<1>1. TypeOK
  <2>1. /\ segment_buffer_tail \in Slots
        /\ segment_buffer_head \in Slots /\ segment_next_head \in Slots
        /\ st_block_index \in BlockIndices /\ exec_block_index \in BlockIndices
    BY RingIndices DEF Init
  <2>2. /\ segment_buffer \in [Slots -> [st_block_index: BlockIndices, n_step: 0 .. MaxSteps]]
        /\ step_count \in 0 .. MaxSteps
    BY RingIndices, StepsAssumption DEF Init, Empty
  <2>3. /\ st_block_buffer \in [BlockIndices -> Blocks \cup {NoBlock}]
        /\ made \in [Slots -> [block: Blocks \cup {NoBlock}, first: BOOLEAN]]
        /\ out \in [block: Blocks \cup {NoBlock}, restart: BOOLEAN]
    BY DEF Init, Nothing
  <2>4. /\ pl_block \in BOOLEAN /\ recalculate_flag \in BOOLEAN
        /\ exec_segment \in BOOLEAN /\ exec_block \in BOOLEAN
        /\ running \in BOOLEAN /\ fresh \in BOOLEAN
        /\ step_control \subseteq Control /\ pc \in Statements
    BY Zenon DEF Init, Statements
  <2> QED
    BY <2>1, <2>2, <2>3, <2>4 DEF TypeOK
<1>2. Published = {}
  BY RingIndices, PublishedSlots DEF Init
<1>3. Indices /\ Executing /\ Preparing
  BY <1>2, RingIndices DEF Init, Indices, Executing, Preparing, Building
<1>4. BlocksFit /\ Chain /\ BlockDataIntact
  BY <1>2 DEF Init, BlocksFit, Chain, Pending, LastIndex, NewBlockIsNoticed, BlockDataIntact
<1> QED
  BY <1>1, <1>3, <1>4 DEF IInv

\* The statements that only move st_prep_buffer on, or change the flags, leave
\* what relates the two rings alone.
LEMMA Undisturbed ==
    ASSUME IInv, pc = "copy" <=> pc' = "copy", fresh' = fresh,
           UNCHANGED << segment_buffer_tail, segment_buffer_head, segment_buffer,
                        st_block_buffer, st_block_index, isr, made >>
    PROVE  Executing' /\ BlocksFit' /\ Chain' /\ BlockDataIntact'
<1>1. Published' = Published /\ Loaded' = Loaded /\ Restarts' = Restarts
  BY DEF Published, Distance, Loaded, Restarts, isr
<1>2. LastIndex' = LastIndex /\ Pending' = Pending
  BY DEF LastIndex, PrevSlot, Pending, isr
<1>3. Executing'
  BY <1>1 DEF IInv, Executing, isr
<1>4. BlocksFit'
  BY <1>1, <1>2 DEF IInv, BlocksFit, Distance, BlockDistance
<1>5. Chain'
  BY <1>1, <1>2 DEF IInv, Chain, NewBlockIsNoticed, NextBlockIndex, PrevSlot, isr
<1>6. BlockDataIntact'
  BY <1>1 DEF IInv, BlockDataIntact
<1> QED
  BY <1>3, <1>4, <1>5, <1>6

\* Every step keeps the variables in their types; that a segment never counts
\* below its last step needs the rest of the invariant.
LEMMA TypePreserved == IInv /\ [Next]_vars => TypeOK'
<1> SUFFICES ASSUME IInv, [Next]_vars PROVE TypeOK'
  OBVIOUS
<1> USE DEF IInv, TypeOK
<1>1. /\ segment_buffer_tail' \in Slots
      /\ segment_buffer_head' \in Slots /\ segment_next_head' \in Slots
      /\ st_block_index' \in BlockIndices
  BY RingIndices DEF Next, Prep, PrepCall, PrepReturn, PrepContinue, PrepRecalculate, PrepLoad,
     PrepCopy, PrepSegment, PrepBail, PrepHead, PrepNextHead, PrepExit, Replan, BeginHold,
     EndHold, WakeUp, Reset, InterruptStep, InterruptEmpty, UpdatePlanBlock, ring, prep, vars
<1>2. segment_buffer' \in [Slots -> [st_block_index: BlockIndices, n_step: 0 .. MaxSteps]]
  <2>1. \A n \in 0 .. MaxSteps :
          [segment_buffer EXCEPT ![segment_buffer_head] =
             [st_block_index |-> st_block_index, n_step |-> n]]
            \in [Slots -> [st_block_index: BlockIndices, n_step: 0 .. MaxSteps]]
    OBVIOUS
  <2>2. [i \in Slots |-> Empty]
           \in [Slots -> [st_block_index: BlockIndices, n_step: 0 .. MaxSteps]]
    BY RingIndices, StepsAssumption DEF Empty
  <2> QED
    BY <2>1, <2>2, StepsAssumption
       DEF Next, Prep, PrepCall, PrepReturn, PrepContinue, PrepRecalculate, PrepLoad,
       PrepCopy, PrepSegment, PrepBail, Write, PrepHead, PrepNextHead, PrepExit, Replan,
       BeginHold, EndHold, WakeUp, Reset, InterruptStep, InterruptEmpty, ring, vars
<1>3. st_block_buffer' \in [BlockIndices -> Blocks \cup {NoBlock}]
  BY DEF Next, Prep, PrepCall, PrepReturn, PrepContinue, PrepRecalculate, PrepLoad,
     PrepCopy, PrepSegment, PrepBail, PrepHead, PrepNextHead, PrepExit, Replan, BeginHold,
     EndHold, WakeUp, Reset, InterruptStep, InterruptEmpty, prep, vars
<1>4. /\ pl_block' \in BOOLEAN /\ recalculate_flag' \in BOOLEAN /\ running' \in BOOLEAN
      /\ fresh' \in BOOLEAN
  BY Zenon DEF Next, Prep, PrepCall, PrepReturn, PrepContinue, PrepRecalculate, PrepLoad,
     PrepCopy, PrepSegment, PrepBail, PrepHead, PrepNextHead, PrepExit, Replan, BeginHold,
     EndHold, WakeUp, Reset, InterruptStep, InterruptEmpty, UpdatePlanBlock, prep, hist, vars
<1>5. step_control' \subseteq Control /\ pc' \in Statements
  BY DEF Next, Prep, PrepCall, PrepReturn, PrepContinue, PrepRecalculate, PrepLoad,
     PrepCopy, PrepSegment, PrepBail, PrepHead, PrepNextHead, PrepExit, Replan, BeginHold,
     EndHold, WakeUp, Reset, InterruptStep, InterruptEmpty, vars, Control, Statements
<1>6. exec_block_index' \in BlockIndices /\ step_count' \in 0 .. MaxSteps
  <2>1. CASE InterruptStep
    <3>1. exec_block_index' \in BlockIndices
      <4>1. Loaded.st_block_index \in BlockIndices
        BY DEF Loaded
      <4> QED
        BY <2>1, <4>1 DEF InterruptStep
    <3>2. (IF exec_segment THEN step_count ELSE Loaded.n_step) \in 1 .. MaxSteps
      BY <2>1, PublishedSlots DEF InterruptStep, Loaded, Executing
    <3>3. step_count' = (IF exec_segment THEN step_count ELSE Loaded.n_step) - 1
      BY <2>1, Zenon DEF InterruptStep
    <3>4. \A n \in 1 .. MaxSteps : n - 1 \in 0 .. MaxSteps
      BY StepsAssumption
    <3> QED
      BY <3>1, <3>2, <3>3, <3>4
  <2>2. CASE ~InterruptStep
    BY <2>2, RingIndices, StepsAssumption
       DEF Next, Prep, PrepCall, PrepReturn, PrepContinue, PrepRecalculate, PrepLoad,
       PrepCopy, PrepSegment, PrepBail, PrepHead, PrepNextHead, PrepExit, Replan, BeginHold,
       EndHold, WakeUp, Reset, InterruptEmpty, isr, vars
  <2> QED
    BY <2>1, <2>2
<1>7. exec_segment' \in BOOLEAN /\ exec_block' \in BOOLEAN
  BY Zenon DEF Next, Prep, PrepCall, PrepReturn, PrepContinue, PrepRecalculate, PrepLoad,
     PrepCopy, PrepSegment, PrepBail, PrepHead, PrepNextHead, PrepExit, Replan, BeginHold,
     EndHold, WakeUp, Reset, InterruptStep, InterruptEmpty, isr, vars, Restarts
<1>8. made' \in [Slots -> [block: Blocks \cup {NoBlock}, first: BOOLEAN]]
  BY DEF Next, Prep, PrepCall, PrepReturn, PrepContinue, PrepRecalculate, PrepLoad,
     PrepCopy, PrepSegment, PrepBail, PrepHead, PrepNextHead, PrepExit, Replan, BeginHold,
     EndHold, WakeUp, Reset, InterruptStep, InterruptEmpty, hist, vars
<1>9. out' \in [block: Blocks \cup {NoBlock}, restart: BOOLEAN]
  <2>1. CASE InterruptStep
    <3>1. Restarts \in BOOLEAN
      BY Zenon DEF Restarts
    <3>2. (IF exec_segment THEN exec_block_index ELSE Loaded.st_block_index) \in BlockIndices
      BY DEF Loaded
    <3>3. \E b \in Blocks \cup {NoBlock}, r \in BOOLEAN : out' = [block |-> b, restart |-> r]
      BY <2>1, <3>1, <3>2, Zenon DEF InterruptStep
    <3> QED
      BY <3>3
  <2>2. CASE ~InterruptStep
    <3>1. out' \in {out, Nothing}
      BY <2>2 DEF Next, Prep, PrepCall, PrepReturn, PrepContinue, PrepRecalculate, PrepLoad,
         PrepCopy, PrepSegment, PrepBail, PrepHead, PrepNextHead, PrepExit, Replan, BeginHold,
         EndHold, WakeUp, Reset, InterruptEmpty, hist, vars
    <3>2. Nothing \in [block: Blocks \cup {NoBlock}, restart: BOOLEAN]
      BY DEF Nothing
    <3> QED
      BY <3>1, <3>2
  <2> QED
    BY <2>1, <2>2
<1> QED
  BY <1>1, <1>2, <1>3, <1>4, <1>5, <1>6, <1>7, <1>8, <1>9

\* The entry of the block ring that is filled is in use by no segment.
LEMMA LoadPreserves == IInv /\ TypeOK' /\ (PrepLoad \/ PrepCopy) => IInv'
<1> SUFFICES ASSUME IInv, TypeOK', PrepLoad \/ PrepCopy PROVE IInv'
  OBVIOUS
<1>1. /\ segment_buffer_tail \in Slots /\ segment_buffer_head \in Slots
      /\ st_block_index \in BlockIndices
      /\ \A i \in Slots : segment_buffer[i].st_block_index \in BlockIndices
  BY DEF IInv, TypeOK
<1>2. /\ Published' = Published /\ Loaded' = Loaded /\ Restarts' = Restarts
      /\ LastIndex' = LastIndex
      /\ segment_buffer' = segment_buffer /\ segment_buffer_head' = segment_buffer_head
      /\ segment_buffer_tail' = segment_buffer_tail /\ made' = made
  BY DEF PrepLoad, PrepCopy, Published, Distance, Loaded, Restarts, LastIndex, PrevSlot, ring,
     isr, hist
<1>3. CASE PrepLoad
  <2>1. ~Pending /\ Pending'
    BY <1>3 DEF PrepLoad, Pending, IInv, Preparing, TypeOK
  <2>2. segment_buffer_tail # NextSlot(segment_buffer_head)
    BY <1>3 DEF PrepLoad, Room, IInv, Indices
  <2>3. \A i \in Published :
          /\ BlockDistance(segment_buffer[i].st_block_index, st_block_index')
               < Distance(i, segment_buffer_head) + 1
          /\ segment_buffer[i].st_block_index # st_block_index'
    <3> TAKE i \in Published
    <3>1. /\ segment_buffer[i].st_block_index \in BlockIndices
          /\ Distance(i, segment_buffer_head) \in Nat
          /\ Distance(i, segment_buffer_head) <= SEGMENT_BUFFER_SIZE - 2
      BY <1>1, <2>2, PublishedSlots, RoomBehindHead, SizeAssumption DEF Distance, Slots
    <3>2. BlockDistance(segment_buffer[i].st_block_index, st_block_index)
            < Distance(i, segment_buffer_head)
      BY <2>1, <3>1 DEF IInv, BlocksFit
    <3> QED
      BY <1>1, <1>3, <3>1, <3>2, LoadFits DEF PrepLoad
  <2>4. Indices' /\ Executing' /\ Preparing'
    BY <1>2, <1>3, <2>2
       DEF PrepLoad, IInv, Indices, Executing, Preparing, Building, ring, isr, hist, NextSlot
  <2>5. BlocksFit'
    BY <1>2, <2>1, <2>3 DEF BlocksFit
  <2>6. Chain'
    BY <1>2, <1>3, <2>1
       DEF PrepLoad, IInv, Chain, NewBlockIsNoticed, PrevSlot, NextBlockIndex, isr
  <2>7. BlockDataIntact'
    BY <1>2, <1>3 DEF PrepLoad, IInv, BlockDataIntact
  <2> QED
    BY <2>4, <2>5, <2>6, <2>7 DEF IInv
<1>4. CASE PrepCopy
  <2>1. Pending /\ Pending' /\ st_block_index' = st_block_index
    BY <1>4 DEF PrepCopy, Pending
  <2>2. Indices' /\ Executing' /\ Preparing'
    BY <1>2, <1>4
       DEF PrepCopy, IInv, Indices, Executing, Preparing, Building, ring, isr, NextSlot
  <2>3. BlocksFit'
    BY <1>2, <1>4, <2>1 DEF PrepCopy, IInv, BlocksFit
  <2>4. Chain'
    BY <1>2, <1>4, <2>1 DEF PrepCopy, IInv, Chain, NewBlockIsNoticed, PrevSlot, NextBlockIndex, isr
  <2>5. BlockDataIntact'
    BY <1>1, <1>2, <1>4, PublishedSlots
       DEF PrepCopy, IInv, TypeOK, BlocksFit, BlockDataIntact
  <2> QED
    BY <2>2, <2>3, <2>4, <2>5 DEF IInv
<1> QED
  BY <1>3, <1>4

\* The slot under construction is not published, so that writing it disturbs
\* no segment the interrupt may execute.
LEMMA WritePreserves == IInv /\ TypeOK' /\ (PrepSegment \/ PrepBail) => IInv'
<1> SUFFICES ASSUME IInv, TypeOK', PrepSegment \/ PrepBail PROVE IInv'
  OBVIOUS
<1>1. segment_buffer_tail \in Slots /\ segment_buffer_head \in Slots
  BY DEF IInv, TypeOK
<1>2. /\ Published' = Published
      /\ segment_buffer_head' = segment_buffer_head /\ segment_buffer_tail' = segment_buffer_tail
      /\ st_block_index' = st_block_index /\ st_block_buffer' = st_block_buffer
      /\ Pending' = Pending
  BY DEF PrepSegment, PrepBail, Published, Distance, Pending, prep, hist
<1>3. \A i \in Slots \ {segment_buffer_head} :
        segment_buffer'[i] = segment_buffer[i] /\ made'[i] = made[i]
  BY DEF PrepSegment, PrepBail, Write, IInv, TypeOK, hist
<1>4. segment_buffer_tail # segment_buffer_head => Loaded' = Loaded /\ Restarts' = Restarts
  BY <1>1, <1>2, <1>3 DEF PrepSegment, PrepBail, Loaded, Restarts, isr
<1>5. LastIndex' = LastIndex
  BY <1>1, <1>2, <1>3, RingIndices DEF PrepSegment, PrepBail, LastIndex, isr
<1>6. Indices'
  BY <1>2 DEF PrepSegment, PrepBail, IInv, Indices, Building, NextSlot
<1>7. Executing'
  BY <1>1, <1>2, <1>3, <1>4, PublishedSlots DEF PrepSegment, PrepBail, IInv, Executing, isr
<1>8. Preparing'
  <2>1. CASE PrepSegment
    <3>1. /\ segment_buffer'[segment_buffer_head].st_block_index = st_block_index
          /\ segment_buffer'[segment_buffer_head].n_step > 0
      BY <1>1, <2>1, StepsAssumption DEF PrepSegment, Write, IInv, TypeOK
    <3>2. made'[segment_buffer_head] =
            [block |-> st_block_buffer[st_block_index], first |-> fresh]
      BY <1>1, <2>1 DEF PrepSegment, IInv, TypeOK
    <3> QED
      BY <1>2, <2>1, <3>1, <3>2 DEF PrepSegment, IInv, Preparing, Building, prep
  <2>2. CASE PrepBail
    BY <2>2 DEF PrepBail, IInv, Preparing, Building, prep, hist
  <2> QED
    BY <2>1, <2>2
<1>9. BlocksFit'
  BY <1>1, <1>2, <1>3, PublishedSlots DEF PrepSegment, PrepBail, IInv, BlocksFit
<1>10. Chain'
  <2>1. \A i \in Published \ {segment_buffer_tail} :
          /\ made'[i] = made[i] /\ segment_buffer'[i] = segment_buffer[i]
          /\ segment_buffer'[PrevSlot(i)] = segment_buffer[PrevSlot(i)]
    BY <1>1, <1>3, PublishedSlots
  <2>2. NewBlockIsNoticed'
    BY <1>1, <1>2, <1>3, <1>4 DEF PrepSegment, PrepBail, IInv, Chain, NewBlockIsNoticed, isr
  <2> QED
    BY <1>2, <1>5, <2>1, <2>2 DEF IInv, Chain, NextBlockIndex, PrevSlot
<1>11. BlockDataIntact'
  BY <1>1, <1>2, <1>3, PublishedSlots DEF IInv, BlockDataIntact
<1> QED
  BY <1>6, <1>7, <1>8, <1>9, <1>10, <1>11 DEF IInv

\* A segment handed over is complete, carries the data of its block, and begins
\* it exactly if its index differs from that of the segment before it.
LEMMA HandOverPreserves == IInv /\ TypeOK' /\ PrepHead => IInv'
<1> SUFFICES ASSUME IInv, TypeOK', PrepHead PROVE IInv'
  OBVIOUS
<1> DEFINE h == segment_buffer_head
           t == segment_buffer_tail
<1>1. /\ t \in Slots /\ h \in Slots
      /\ st_block_index \in BlockIndices /\ exec_block_index \in BlockIndices
      /\ \A i \in Slots : segment_buffer[i].st_block_index \in BlockIndices
  BY DEF IInv, TypeOK
<1>2. /\ t # NextSlot(h) /\ segment_buffer_head' = NextSlot(h) /\ segment_buffer_tail' = t
      /\ segment_next_head' = segment_buffer_head'
  BY DEF PrepHead, IInv, Indices, Building
<1>3. /\ Published' = Published \cup {h} /\ h \notin Published
      /\ \A i \in Published : Distance(i, segment_buffer_head') = Distance(i, h) + 1
      /\ Distance(h, segment_buffer_head') = 1
      /\ t # segment_buffer_head'
  BY <1>1, <1>2, HeadMoves, PublishedSlots
<1>4. /\ segment_buffer' = segment_buffer /\ made' = made
      /\ st_block_index' = st_block_index /\ st_block_buffer' = st_block_buffer
      /\ ~Pending' /\ (Pending <=> fresh) /\ pc' = "next_head" /\ ~fresh'
      /\ Loaded' = Loaded /\ Restarts' = Restarts
  BY <1>2 DEF PrepHead, Pending, Loaded, Restarts, prep, isr
<1>5. /\ segment_buffer[h].st_block_index = st_block_index /\ segment_buffer[h].n_step > 0
      /\ made[h] = [block |-> st_block_buffer[st_block_index], first |-> fresh]
  BY DEF PrepHead, IInv, Preparing
<1>6. Indices'
  BY <1>2, <1>4 DEF Indices, Building
<1>7. Executing'
  BY <1>2, <1>3, <1>4, <1>5 DEF PrepHead, IInv, Executing, isr
<1>8. Preparing'
  BY <1>4 DEF Preparing, Building
<1>9. BlocksFit'
  <2>1. BlockDistance(segment_buffer[h].st_block_index, st_block_index) < 1
    BY <1>1, <1>5 DEF BlockDistance, BlockIndices
  <2>2. \A i \in Published :
          BlockDistance(segment_buffer[i].st_block_index, st_block_index)
            < Distance(i, segment_buffer_head') + 0
    <3> TAKE i \in Published
    <3>1. BlockDistance(segment_buffer[i].st_block_index, st_block_index)
            < Distance(i, h) + IF Pending THEN 1 ELSE 0
      BY DEF IInv, BlocksFit
    <3>2. /\ Distance(i, h) \in Int
          /\ BlockDistance(segment_buffer[i].st_block_index, st_block_index) \in Int
      BY <1>1, PublishedSlots, SizeAssumption DEF Distance, BlockDistance, Slots, BlockIndices
    <3> QED
      BY <1>3, <3>1, <3>2
  <2>3. \A i \in Published' :
          BlockDistance(segment_buffer[i].st_block_index, st_block_index)
            < Distance(i, segment_buffer_head') + 0
    BY <1>3, <1>5, <2>1, <2>2
  <2> QED
    BY <1>4, <2>3 DEF BlocksFit, Distance, BlockDistance
<1>10. Chain'
  <2>1. LastIndex' = st_block_index
    BY <1>1, <1>2, <1>3, <1>4, <1>5, RingIndices DEF LastIndex
  <2>2. fresh <=> LastIndex # st_block_index
    <3>1. LastIndex \in BlockIndices
      BY <1>1, RingIndices DEF LastIndex
    <3> QED
      BY <1>4, <3>1, RingIndices DEF IInv, Chain
  <2>3. made[h].first <=> fresh
    BY <1>5
  <2>4. \A i \in Published' \ {t} :
          made[i].first <=>
            segment_buffer[PrevSlot(i)].st_block_index # segment_buffer[i].st_block_index
    <3> TAKE i \in Published' \ {t}
    <3>1. CASE i = h
      BY <1>5, <2>2, <2>3, <3>1 DEF LastIndex
    <3>2. CASE i # h
      BY <1>3, <3>2 DEF IInv, Chain
    <3> QED
      BY <3>1, <3>2
  <2>5. NewBlockIsNoticed'
    <3>1. CASE h = t
      <4>1. ~exec_segment
        BY <3>1 DEF IInv, Executing
      <4>2. Restarts <=> LastIndex # st_block_index
        BY <1>5, <3>1, <4>1 DEF Restarts, Loaded, LastIndex
      <4> QED
        BY <1>2, <1>4, <2>2, <2>3, <3>1, <4>2 DEF NewBlockIsNoticed
    <3>2. CASE h # t
      BY <1>2, <1>4, <3>2 DEF PrepHead, IInv, Chain, NewBlockIsNoticed, isr
    <3> QED
      BY <3>1, <3>2
  <2> QED
    BY <1>2, <1>4, <2>1, <2>4, <2>5 DEF Chain, PrevSlot
<1>11. BlockDataIntact'
  BY <1>3, <1>4, <1>5 DEF IInv, BlockDataIntact
<1> QED
  BY <1>6, <1>7, <1>8, <1>9, <1>10, <1>11 DEF IInv

\* The interrupt only moves the tail, to the slot next to execute, and it takes
\* the block index of the segment it loads.
LEMMA InterruptPreserves == IInv /\ TypeOK' /\ InterruptStep => IInv'
<1> SUFFICES ASSUME IInv, TypeOK', InterruptStep PROVE IInv'
  OBVIOUS
<1> DEFINE h == segment_buffer_head
           t == segment_buffer_tail
<1>1. /\ t \in Slots /\ h \in Slots /\ t # h
  BY DEF IInv, TypeOK, InterruptStep, Executing
<1>2. /\ segment_buffer_head' = h /\ segment_buffer' = segment_buffer /\ made' = made
      /\ st_block_index' = st_block_index /\ st_block_buffer' = st_block_buffer
      /\ pc' = pc /\ fresh' = fresh /\ (Pending' <=> Pending)
      /\ segment_next_head' = segment_next_head
  BY DEF InterruptStep, Pending, prep
<1>3. exec_block_index' = Loaded.st_block_index
  BY Zenon DEF InterruptStep, IInv, Executing
<1>4. /\ exec_segment' <=> step_count' # 0
      /\ segment_buffer_tail' = IF step_count' = 0 THEN NextSlot(t) ELSE t
  BY Zenon DEF InterruptStep
<1>5. CASE step_count' = 0
  <2>1. segment_buffer_tail' = NextSlot(t) /\ ~exec_segment'
    BY <1>4, <1>5
  <2>2. Published' = Published \ {t} /\ segment_buffer_tail' # NextSlot(h)
    BY <1>1, <1>2, <2>1, TailMoves
  <2>3. Indices'
    BY <1>2, <2>2 DEF IInv, Indices, Building, NextSlot
  <2>4. Executing'
    BY <1>2, <2>1, <2>2 DEF IInv, Executing
  <2>5. Preparing'
    BY <1>2 DEF InterruptStep, IInv, Preparing, Building, prep
  <2>6. BlocksFit' /\ BlockDataIntact'
    BY <1>2, <2>2 DEF IInv, BlocksFit, BlockDataIntact, Distance, BlockDistance
  <2>7. LastIndex' = LastIndex
    <3>1. CASE NextSlot(t) = h
      BY <1>1, <1>2, <1>3, <2>1, <3>1, RingIndices DEF LastIndex, Loaded
    <3>2. CASE NextSlot(t) # h
      BY <1>1, <1>2, <2>1, <3>2 DEF LastIndex, PrevSlot
    <3> QED
      BY <3>1, <3>2
  <2>8. NewBlockIsNoticed'
    <3> SUFFICES ASSUME NextSlot(t) # h
                 PROVE  Restarts' <=> made[NextSlot(t)].first
      BY <1>2, <2>1 DEF NewBlockIsNoticed
    <3>1. NextSlot(t) \in Published \ {t}
      BY <1>1, SizeAssumption DEF Published, Slots, Distance, NextSlot
    <3>2. made[NextSlot(t)].first <=>
            segment_buffer[t].st_block_index # segment_buffer[NextSlot(t)].st_block_index
      BY <1>1, <3>1, RingIndices DEF IInv, Chain
    <3> QED
      BY <1>2, <1>3, <2>1, <3>2 DEF Restarts, Loaded
  <2>9. Chain'
    BY <1>2, <2>2, <2>7, <2>8 DEF IInv, Chain, NextBlockIndex, PrevSlot
  <2> QED
    BY <2>3, <2>4, <2>5, <2>6, <2>9 DEF IInv
<1>6. CASE step_count' # 0
  <2>1. segment_buffer_tail' = t /\ exec_segment'
    BY <1>4, <1>6
  <2>2. Published' = Published
    BY <1>2, <2>1 DEF Published, Distance
  <2>3. Indices'
    BY <1>2, <2>1 DEF IInv, Indices, Building, NextSlot
  <2>4. Executing'
    BY <1>1, <1>2, <1>3, <1>6, <2>1, <2>2 DEF IInv, TypeOK, Executing, Loaded
  <2>5. Preparing'
    BY <1>2 DEF InterruptStep, IInv, Preparing, Building, prep
  <2>6. BlocksFit' /\ BlockDataIntact'
    BY <1>2, <2>2 DEF IInv, BlocksFit, BlockDataIntact, Distance, BlockDistance
  <2>7. LastIndex' = LastIndex
    BY <1>1, <1>2, <2>1 DEF LastIndex, PrevSlot
  <2>8. NewBlockIsNoticed'
    BY <2>1 DEF NewBlockIsNoticed
  <2>9. Chain'
    BY <1>2, <2>1, <2>2, <2>7, <2>8 DEF IInv, Chain, NextBlockIndex, PrevSlot
  <2> QED
    BY <2>3, <2>4, <2>5, <2>6, <2>9 DEF IInv
<1> QED
  BY <1>5, <1>6

\* A reset empties both rings and takes the indices back together.
LEMMA ResetPreserves == IInv /\ TypeOK' /\ Reset => IInv'
<1> SUFFICES ASSUME IInv, TypeOK', Reset PROVE IInv'
  OBVIOUS
<1>1. Published' = {}
  BY SizeAssumption DEF Reset, Published, Slots, Distance
<1>2. ~Pending' /\ LastIndex' = 0
  BY DEF Reset, Pending, LastIndex
<1>3. Indices' /\ Executing' /\ Preparing'
  BY <1>1, RingIndices DEF Reset, Indices, Executing, Preparing, Building
<1>4. BlocksFit' /\ Chain' /\ BlockDataIntact'
  BY <1>1, <1>2 DEF Reset, BlocksFit, Chain, NewBlockIsNoticed, BlockDataIntact
<1> QED
  BY <1>3, <1>4 DEF IInv

\* The other statements of st_prep_buffer, and the main loop between its calls.
LEMMA QuietPreserves ==
    IInv /\ TypeOK' /\ (\/ PrepCall \/ PrepReturn \/ PrepContinue \/ PrepRecalculate
                        \/ PrepNextHead \/ PrepExit
                        \/ Replan \/ BeginHold \/ EndHold \/ WakeUp
                        \/ InterruptEmpty \/ UNCHANGED vars)
      => IInv'
<1> SUFFICES ASSUME IInv, TypeOK',
                    \/ PrepCall \/ PrepReturn \/ PrepContinue \/ PrepRecalculate
                    \/ PrepNextHead \/ PrepExit
                    \/ Replan \/ BeginHold \/ EndHold \/ WakeUp
                    \/ InterruptEmpty \/ UNCHANGED vars
             PROVE  IInv'
  OBVIOUS
<1>1. /\ pc = "copy" <=> pc' = "copy"
      /\ fresh' = fresh
      /\ UNCHANGED << segment_buffer_tail, segment_buffer_head, segment_buffer,
                      st_block_buffer, st_block_index, isr, made >>
  BY DEF PrepCall, PrepReturn, PrepContinue, PrepRecalculate, PrepNextHead, PrepExit,
     Replan, BeginHold, EndHold, WakeUp, InterruptEmpty, ring, prep, hist, vars
<1>2. Executing' /\ BlocksFit' /\ Chain' /\ BlockDataIntact'
  BY <1>1, Undisturbed
<1>3. Indices'
  BY <1>1 DEF PrepCall, PrepReturn, PrepContinue, PrepRecalculate, PrepNextHead, PrepExit,
     Replan, BeginHold, EndHold, WakeUp, InterruptEmpty, ring, prep, hist, vars, IInv, Indices, Building,
     Room, NextSlot
<1>4. Preparing'
  BY <1>1 DEF PrepCall, PrepReturn, PrepContinue, PrepRecalculate, PrepNextHead, PrepExit,
     Replan, BeginHold, EndHold, WakeUp, InterruptEmpty, ring, prep, hist, vars, IInv, Preparing, Building,
     UpdatePlanBlock
<1> QED
  BY <1>2, <1>3, <1>4 DEF IInv

-----------------------------------------------------------------------------
(* The theorems.                                                           *)

\* The invariant holds of every reachable state.
THEOREM IInvHolds == Spec => []IInv
<1>1. IInv /\ [Next]_vars => IInv'
  <2> SUFFICES ASSUME IInv, [Next]_vars PROVE IInv'
    OBVIOUS
  <2>1. TypeOK'
    BY TypePreserved
  <2> QED
    BY <2>1, LoadPreserves, WritePreserves, HandOverPreserves, InterruptPreserves,
       ResetPreserves, QuietPreserves DEF Next, Prep
<1> QED
  BY <1>1, InitEstablishes, PTL DEF Spec

\* Every variable keeps its type; in particular no index leaves its ring.
THEOREM TypeCorrect == Spec => []TypeOK
  BY IInvHolds, PTL DEF IInv

\* A segment the interrupt may execute always finds the data of its own block:
\* st_prep_buffer never fills an entry of the block ring that is in use.
THEOREM BlockDataSafe == Spec => []BlockDataIntact
  BY IInvHolds, PTL DEF IInv

\* The interrupt starts its Bresenham counters anew exactly at the first segment
\* of every block.
THEOREM EveryNewBlockNoticed == Spec => []NewBlockIsNoticed
<1>1. IInv => NewBlockIsNoticed
  BY DEF IInv, Chain
<1> QED
  BY <1>1, IInvHolds, PTL

-----------------------------------------------------------------------------
(* The refinement.                                                         *)

\* What the interrupt is given are blocks, never the zeroes of st_reset().
BlocksLoaded ==
    /\ \A i \in Published : made[i].block \in Blocks
    /\ (pl_block \/ recalculate_flag) /\ pc # "copy"
         => st_block_buffer[st_block_index] \in Blocks

\* Until the interrupt has met a first block, the segment it loads next begins
\* one: an index that happens to be 0 does not hide the first block after a reset.
Started ==
    ~exec_block =>
        /\ ~exec_segment
        /\ IF segment_buffer_tail = segment_buffer_head
             THEN (pl_block \/ recalculate_flag) => Pending
             ELSE made[segment_buffer_tail].first

RInv ==
    /\ IInv
    /\ BlocksLoaded
    /\ Started

\* A step from a segment makes the interrupt's block known.
LEMMA StartedWithTheFirst == RInv /\ InterruptStep => exec_block'
<1> SUFFICES ASSUME RInv, InterruptStep PROVE exec_block'
  OBVIOUS
<1>1. exec_block' <=> exec_block \/ Restarts
  BY Zenon DEF InterruptStep
<1>2. ~exec_block => Restarts
  BY DEF RInv, Started, IInv, Chain, NewBlockIsNoticed, Executing, InterruptStep
<1> QED
  BY <1>1, <1>2

\* The two additions hold with the invariant above.
LEMMA RInvPreserved == RInv /\ IInv' /\ [Next]_vars => RInv'
<1> SUFFICES ASSUME RInv, IInv', [Next]_vars PROVE BlocksLoaded' /\ Started'
  BY DEF RInv
<1> USE DEF RInv
<1>1. /\ segment_buffer_tail \in Slots /\ segment_buffer_head \in Slots
      /\ st_block_index \in BlockIndices
      /\ st_block_buffer \in [BlockIndices -> Blocks \cup {NoBlock}]
  BY DEF IInv, TypeOK
<1>2. CASE PrepLoad \/ PrepCopy
  <2>1. Published' = Published
    BY <1>2 DEF PrepLoad, PrepCopy, Published, Distance, ring
  <2>2. Pending'
    BY <1>2 DEF PrepLoad, PrepCopy, Pending
  <2>3. BlocksLoaded'
    BY <1>1, <1>2, <2>1 DEF PrepLoad, PrepCopy, BlocksLoaded, hist
  <2>4. Started'
    BY <1>2, <2>2 DEF PrepLoad, PrepCopy, Started, ring, isr, hist
  <2> QED
    BY <2>3, <2>4
<1>3. CASE PrepSegment \/ PrepBail
  <2>1. /\ Published' = Published /\ Pending' = Pending
        /\ segment_buffer_tail' = segment_buffer_tail
        /\ segment_buffer_head' = segment_buffer_head
    BY <1>3 DEF PrepSegment, PrepBail, Published, Distance, Pending, hist
  <2>2. \A i \in Slots \ {segment_buffer_head} : made'[i] = made[i]
    BY <1>3 DEF PrepSegment, PrepBail, IInv, TypeOK, hist
  <2>3. BlocksLoaded'
    BY <1>1, <1>3, <2>1, <2>2, PublishedSlots DEF PrepSegment, PrepBail, BlocksLoaded, prep
  <2>4. Started'
    BY <1>1, <1>3, <2>1, <2>2 DEF PrepSegment, PrepBail, Started, prep, isr
  <2> QED
    BY <2>3, <2>4
<1>4. CASE PrepHead
  <2>1. /\ Published' = Published \cup {segment_buffer_head}
        /\ segment_buffer_tail' # segment_buffer_head'
    BY <1>1, <1>4, HeadMoves DEF PrepHead, IInv, Indices, Building
  <2>2. /\ made[segment_buffer_head].block = st_block_buffer[st_block_index]
        /\ made[segment_buffer_head].first = fresh
        /\ st_block_buffer[st_block_index] \in Blocks
    BY <1>4 DEF PrepHead, IInv, Preparing, Building, BlocksLoaded
  <2>3. BlocksLoaded'
    BY <1>4, <2>1, <2>2 DEF PrepHead, BlocksLoaded, prep
  <2>4. Started'
    BY <1>4, <2>1, <2>2
       DEF PrepHead, Started, IInv, Preparing, Building, Pending, prep, isr
  <2> QED
    BY <2>3, <2>4
<1>5. CASE InterruptStep
  <2>1. exec_block'
    BY <1>5, StartedWithTheFirst
  <2>2. Published' \subseteq Published
    <3>1. CASE step_count' = 0
      <4>1. segment_buffer_tail' = NextSlot(segment_buffer_tail)
        BY <1>5, <3>1 DEF InterruptStep
      <4>2. segment_buffer_tail # segment_buffer_head
        BY <1>5 DEF InterruptStep, IInv, Executing
      <4> QED
        BY <1>1, <1>5, <4>1, <4>2, TailMoves DEF InterruptStep
    <3>2. CASE step_count' # 0
      BY <1>5, <3>2 DEF InterruptStep, Published, Distance
    <3> QED
      BY <3>1, <3>2
  <2> QED
    BY <1>5, <2>1, <2>2 DEF InterruptStep, BlocksLoaded, Started, prep
<1>6. CASE Reset
  <2>1. Published' = {}
    BY <1>6, SizeAssumption DEF Reset, Published, Slots, Distance
  <2> QED
    BY <1>6, <2>1 DEF Reset, BlocksLoaded, Started
<1>7. CASE \/ PrepCall \/ PrepReturn \/ PrepContinue \/ PrepRecalculate
           \/ PrepNextHead \/ PrepExit
           \/ Replan \/ BeginHold \/ EndHold \/ WakeUp
           \/ InterruptEmpty \/ UNCHANGED vars
  <2>1. /\ pc' = "copy" <=> pc = "copy"
        /\ fresh' = fresh
        /\ UNCHANGED << segment_buffer_tail, segment_buffer_head, st_block_buffer,
                        st_block_index, isr, made >>
    BY <1>7 DEF PrepCall, PrepReturn, PrepContinue, PrepRecalculate, PrepNextHead, PrepExit,
       Replan, BeginHold, EndHold, WakeUp, InterruptEmpty, ring, prep, hist, vars
  <2>2. (pl_block' \/ recalculate_flag') => (pl_block \/ recalculate_flag)
    BY <1>7, Zenon DEF PrepCall, PrepReturn, PrepContinue, PrepRecalculate, PrepNextHead,
       PrepExit, Replan, BeginHold, EndHold, WakeUp, InterruptEmpty, prep, vars,
       UpdatePlanBlock
  <2>3. Published' = Published
    BY <2>1 DEF Published, Distance
  <2>4. BlocksLoaded'
    BY <2>1, <2>2, <2>3 DEF BlocksLoaded
  <2>5. Started'
    BY <2>1, <2>2 DEF Started, Pending, isr
  <2> QED
    BY <2>4, <2>5
<1> QED
  BY <1>2, <1>3, <1>4, <1>5, <1>6, <1>7 DEF Next, Prep

\* The invariant that the refinement needs holds of every reachable state.
LEMMA RInvHolds == Spec => []RInv
<1>1. Init => BlocksLoaded /\ Started
  <2> SUFFICES ASSUME Init PROVE BlocksLoaded /\ Started
    OBVIOUS
  <2>1. Published = {}
    BY RingIndices, PublishedSlots DEF Init
  <2> QED
    BY <2>1 DEF Init, BlocksLoaded, Started
<1>2. BlocksLoaded /\ Started /\ IInv /\ IInv' /\ [Next]_vars
        => BlocksLoaded' /\ Started'
  BY RInvPreserved DEF RInv
<1> QED
  BY <1>1, <1>2, IInvHolds, PTL DEF Spec, RInv

Length == Distance(segment_buffer_tail, segment_buffer_head)

\* The places of the queue are the published slots, from the tail on.
LEMMA SlotsInOrder ==
    ASSUME segment_buffer_tail \in Slots, segment_buffer_head \in Slots
    PROVE  /\ Length \in 0 .. SEGMENT_BUFFER_SIZE - 1
           /\ Length = 0 <=> segment_buffer_tail = segment_buffer_head
           /\ \A k \in 1 .. Length :
                 /\ SlotAt(k - 1) \in Published
                 /\ SlotAt(k - 1) = segment_buffer_tail <=> k = 1
           /\ SlotAt(Length) = segment_buffer_head
  BY SizeAssumption DEF Length, SlotAt, Slots, Published, Distance

\* A published segment is a segment of the stream.
LEMMA SegmentsAreAbstract ==
    ASSUME RInv, NEW i \in Published PROVE Abstract(i) \in Stream!Segment
<1>1. /\ i \in Slots /\ made[i].block \in Blocks /\ made[i].first \in BOOLEAN
  BY PublishedSlots DEF RInv, BlocksLoaded, IInv, TypeOK
<1>2. segment_buffer[i].n_step \in 1 .. MaxSteps
  BY <1>1, StepsAssumption DEF RInv, IInv, TypeOK, Executing
<1>3. exec_segment => step_count \in 1 .. MaxSteps
  BY StepsAssumption DEF RInv, IInv, TypeOK, Executing
<1> QED
  BY <1>1, <1>2, <1>3 DEF Abstract, Stream!Segment

\* The queue is a sequence of such segments, as long as the ring is full.
LEMMA QueueIsASequence ==
    ASSUME RInv
    PROVE  /\ Queue \in Seq(Stream!Segment) /\ Len(Queue) = Length
           /\ \A k \in 1 .. Length : Queue[k] = Abstract(SlotAt(k - 1))
<1>1. segment_buffer_tail \in Slots /\ segment_buffer_head \in Slots
  BY DEF RInv, IInv, TypeOK
<1>2. Length \in Nat /\ \A k \in 1 .. Length : SlotAt(k - 1) \in Published
  BY <1>1, SlotsInOrder
<1>3. Queue = [k \in 1 .. Length |-> Abstract(SlotAt(k - 1))]
  BY DEF Queue, Length
<1>4. Queue \in [1 .. Length -> Stream!Segment]
  BY <1>2, <1>3, SegmentsAreAbstract
<1>5. Queue \in Seq(Stream!Segment)
  BY <1>2, <1>4, SeqDef
<1>6. Len(Queue) = Length
  BY <1>2, <1>4, <1>5, LenProperties
<1> QED
  BY <1>3, <1>5, <1>6

\* Neither the slot under construction nor what the main loop keeps for itself
\* is part of the queue.
LEMMA QueueUnchanged ==
    ASSUME RInv,
           UNCHANGED << segment_buffer_tail, segment_buffer_head, isr >>,
           \A i \in Published :
              segment_buffer'[i] = segment_buffer[i] /\ made'[i] = made[i]
    PROVE  Queue' = Queue
<1>1. segment_buffer_tail \in Slots /\ segment_buffer_head \in Slots
  BY DEF RInv, IInv, TypeOK
<1>2. Length' = Length /\ \A k \in 1 .. Length : SlotAt(k - 1)' = SlotAt(k - 1)
  BY DEF Length, Distance, SlotAt
<1>3. \A i \in Published : Abstract(i)' = Abstract(i)
  BY DEF Abstract, isr
<1>4. \A k \in 1 .. Length : Abstract(SlotAt(k - 1))' = Abstract(SlotAt(k - 1))
  BY <1>1, <1>2, <1>3, SlotsInOrder DEF Abstract, isr
<1> QED
  BY <1>2, <1>4 DEF Queue, Length

\* Handing a segment over puts it at the end of the stream.
LEMMA HandOverIsPut == RInv /\ RInv' /\ PrepHead => Stream!Put
<1> SUFFICES ASSUME RInv, RInv', PrepHead PROVE Stream!Put
  OBVIOUS
<1> DEFINE h == segment_buffer_head
           t == segment_buffer_tail
<1>1. t \in Slots /\ h \in Slots /\ segment_buffer_head' \in Slots
  BY DEF RInv, IInv, TypeOK
<1>2. t # NextSlot(h) /\ segment_buffer_head' = NextSlot(h) /\ segment_buffer_tail' = t
  BY DEF PrepHead, RInv, IInv, Indices, Building
<1>3. Length' = Length + 1 /\ Length <= SEGMENT_BUFFER_SIZE - 2 /\ Length \in Nat
  BY <1>1, <1>2, SizeAssumption DEF Length, Distance, Slots, NextSlot
<1> DEFINE s == [block |-> made[h].block, first |-> made[h].first,
                  steps |-> segment_buffer[h].n_step]
<1>4. s \in Stream!Segment
  <2>1. /\ made[h].block \in Blocks /\ made[h].first \in BOOLEAN
        /\ segment_buffer[h].n_step > 0 /\ segment_buffer[h].n_step \in 0 .. MaxSteps
    BY <1>1 DEF PrepHead, RInv, BlocksLoaded, IInv, TypeOK, Preparing, Building
  <2>2. segment_buffer[h].n_step \in 1 .. MaxSteps
    BY <2>1, StepsAssumption
  <2> QED
    BY <2>1, <2>2 DEF Stream!Segment
<1>5. \A k \in 1 .. Length : Abstract(SlotAt(k - 1))' = Abstract(SlotAt(k - 1))
  BY <1>2 DEF PrepHead, SlotAt, Abstract, isr
<1>6. \A k \in 1 .. Length + 1 : k = Length + 1 => Abstract(SlotAt(k - 1))' = s
  <2> SUFFICES ASSUME NEW k \in 1 .. Length + 1, k = Length + 1
               PROVE  Abstract(SlotAt(k - 1))' = s
    OBVIOUS
  <2>1. SlotAt(k - 1) = h
    <3>1. k - 1 = Length
      BY <1>3
    <3> QED
      BY <1>1, <3>1, SlotsInOrder
  <2>2. ~(h = t /\ exec_segment)
    BY DEF RInv, IInv, Executing
  <2> QED
    BY <1>2, <2>1, <2>2 DEF PrepHead, SlotAt, Abstract, isr
<1>7. Queue' = Append(Queue, s)
  <2>1. /\ Queue \in Seq(Stream!Segment) /\ Len(Queue) = Length
        /\ \A k \in 1 .. Length : Queue[k] = Abstract(SlotAt(k - 1))
    BY QueueIsASequence
  <2>2. Queue' = [k \in 1 .. Length + 1 |-> Abstract(SlotAt(k - 1))']
    BY <1>3 DEF Queue, Length
  <2>3. Queue' = [k \in 1 .. Length + 1 |-> IF k = Length + 1 THEN s ELSE Queue[k]]
    BY <1>3, <1>5, <1>6, <2>1, <2>2
  <2> QED
    BY <1>3, <1>4, <2>1, <2>3
<1>8. Len(Queue) < SEGMENT_BUFFER_SIZE - 1
  <2>1. Len(Queue) = Length
    BY QueueIsASequence
  <2> QED
    BY <1>3, <2>1, SizeAssumption
<1>9. UNCHANGED out
  BY DEF PrepHead
<1>10. \E segment \in Stream!Segment : Queue' = Append(Queue, segment)
  <2> HIDE DEF s
  <2> QED
    BY <1>4, <1>7, Zenon
<1> QED
  BY <1>8, <1>9, <1>10, Zenon DEF Stream!Put

\* One interrupt puts out one step of the first segment.
LEMMA InterruptIsStep == RInv /\ InterruptStep => Stream!Step
<1> SUFFICES ASSUME RInv, InterruptStep PROVE Stream!Step
  OBVIOUS
<1> DEFINE h == segment_buffer_head
           t == segment_buffer_tail
           f == Head(Queue)
<1>1. /\ t \in Slots /\ h \in Slots /\ t # h /\ h \in Int
      /\ segment_buffer_head' = h /\ segment_buffer' = segment_buffer /\ made' = made
  BY SizeAssumption DEF RInv, IInv, TypeOK, Executing, InterruptStep, Slots
<1>2. /\ Queue \in Seq(Stream!Segment) /\ Len(Queue) = Length
      /\ \A k \in 1 .. Length : Queue[k] = Abstract(SlotAt(k - 1))
      /\ Queue # << >> /\ Length \in Nat /\ Length >= 1
  <2>1. Length \in Nat /\ Length >= 1
    BY <1>1, SlotsInOrder
  <2> QED
    BY <2>1, QueueIsASequence
<1>3. f = Abstract(t) /\ f \in Stream!Segment
  <2>1. f = Queue[1]
    BY <1>2
  <2>2. f \in Stream!Segment
    BY <1>2, HeadTailProperties
  <2>3. 1 \in 1 .. Length /\ SlotAt(1 - 1) = t
    BY <1>1, <1>2, SlotsInOrder
  <2> QED
    BY <1>2, <2>1, <2>2, <2>3
<1> HIDE DEF f
<1>4. /\ f.block = made[t].block
      /\ f.first = IF exec_segment THEN FALSE ELSE made[t].first
      /\ f.steps = IF exec_segment THEN step_count ELSE Loaded.n_step
      /\ f.steps \in 1 .. MaxSteps
  BY <1>3 DEF Abstract, Loaded, Stream!Segment
<1>5. /\ step_count' = f.steps - 1
      /\ exec_segment' <=> step_count' # 0
      /\ segment_buffer_tail' = IF step_count' = 0 THEN NextSlot(t) ELSE t
  BY <1>4, Zenon DEF InterruptStep
<1>6. out' = [block |-> f.block, restart |-> f.first]
  <2>1. exec_block'
    BY StartedWithTheFirst
  <2>2. (IF exec_segment THEN exec_block_index ELSE Loaded.st_block_index)
          = segment_buffer[t].st_block_index
    BY DEF RInv, IInv, Executing, Loaded
  <2>3. out'.block = f.block
    <3>1. st_block_buffer[segment_buffer[t].st_block_index] = made[t].block
      BY <1>1, PublishedSlots DEF RInv, IInv, BlockDataIntact
    <3>2. out' = [block |-> st_block_buffer[segment_buffer[t].st_block_index],
                  restart |-> Restarts]
      BY <2>1, <2>2, Zenon DEF InterruptStep
    <3> QED
      BY <1>4, <3>1, <3>2
  <2>4. Restarts = f.first
    <3>1. made[t].first \in BOOLEAN
      BY <1>1 DEF RInv, IInv, TypeOK
    <3>2. exec_segment => ~Restarts
      BY DEF Restarts
    <3>3. ~exec_segment => (Restarts <=> made[t].first)
      BY <1>1 DEF RInv, IInv, Chain, NewBlockIsNoticed
    <3>4. Restarts \in BOOLEAN
      BY Zenon DEF Restarts
    <3> QED
      BY <1>4, <3>1, <3>2, <3>3, <3>4, Zenon
  <2>5. out' = [block |-> out'.block, restart |-> Restarts]
    BY Zenon DEF InterruptStep
  <2> QED
    BY <2>3, <2>4, <2>5, Zenon
<1>7. /\ Tail(Queue) \in Seq(Stream!Segment) /\ Len(Tail(Queue)) = Length - 1
      /\ \A k \in 1 .. Length - 1 : Tail(Queue)[k] = Queue[k + 1]
  BY <1>2, HeadTailProperties
<1>8. CASE f.steps = 1
  <2>1. segment_buffer_tail' = NextSlot(t) /\ ~exec_segment'
    BY <1>5, <1>8
  <2>2. Length' = Length - 1
    BY <1>1, <2>1, SizeAssumption DEF Length, Distance, Slots, NextSlot
  <2>3. \A k \in 1 .. Length - 1 : Abstract(SlotAt(k - 1))' = Queue[k + 1]
    <3> SUFFICES ASSUME NEW k \in 1 .. Length - 1
                 PROVE  Abstract(SlotAt(k - 1))' = Queue[k + 1]
      OBVIOUS
    <3>1. SlotAt(k - 1)' = SlotAt(k)
      BY <1>1, <1>2, <2>1, SizeAssumption DEF SlotAt, Slots, NextSlot, Length, Distance
    <3>2. k + 1 \in 1 .. Length /\ (k + 1) - 1 = k /\ k + 1 # 1
      BY <1>2
    <3>3. SlotAt(k) # t /\ Queue[k + 1] = Abstract(SlotAt(k))
      BY <1>1, <1>2, <3>2, SlotsInOrder
    <3> QED
      BY <1>1, <2>1, <3>1, <3>3 DEF Abstract
  <2>4. Queue' = [k \in 1 .. Length - 1 |-> Queue[k + 1]]
    BY <2>2, <2>3 DEF Queue, Length
  <2>5. Tail(Queue) = [k \in 1 .. Length - 1 |-> Queue[k + 1]]
    <3>1. Tail(Queue) \in [1 .. Length - 1 -> Stream!Segment]
      BY <1>7, LenProperties
    <3> QED
      BY <1>7, <3>1
  <2>6. Queue' = IF f.steps = 1 THEN Tail(Queue) ELSE << Stream!Rest(f) >> \o Tail(Queue)
    BY <1>8, <2>4, <2>5
  <2> QED
    BY <1>2, <1>6, <2>6, Zenon DEF Stream!Step, f
<1>9. CASE f.steps # 1
  <2>1. segment_buffer_tail' = t /\ exec_segment' /\ step_count' \in 1 .. MaxSteps
    BY <1>4, <1>5, <1>9, StepsAssumption
  <2>2. Length' = Length
    BY <1>1, <2>1 DEF Length, Distance
  <2>3. Stream!Rest(f) \in Stream!Segment
        /\ Stream!Rest(f) = [block |-> made[t].block, first |-> FALSE, steps |-> step_count']
    <3>1. f \in [block: Blocks, first: BOOLEAN, steps: 1 .. MaxSteps]
      BY <1>3 DEF Stream!Segment
    <3>2. Stream!Rest(f) = [f EXCEPT !.first = FALSE, !.steps = f.steps - 1]
      BY Zenon DEF Stream!Rest
    <3>3. Stream!Rest(f) = [block |-> f.block, first |-> FALSE, steps |-> step_count']
      BY <1>5, <3>1, <3>2
    <3> QED
      BY <1>4, <2>1, <3>1, <3>3 DEF Stream!Segment
  <2>4. \A k \in 1 .. Length :
          Abstract(SlotAt(k - 1))' = IF k = 1 THEN Stream!Rest(f) ELSE Queue[k]
    <3> SUFFICES ASSUME NEW k \in 1 .. Length
                 PROVE  Abstract(SlotAt(k - 1))' =
                          IF k = 1 THEN Stream!Rest(f) ELSE Queue[k]
      OBVIOUS
    <3>1. SlotAt(k - 1)' = SlotAt(k - 1) /\ (SlotAt(k - 1) = t <=> k = 1)
      BY <1>1, <2>1, SlotsInOrder DEF SlotAt
    <3>2. CASE k = 1
      BY <1>1, <2>1, <2>3, <3>1, <3>2 DEF Abstract
    <3>3. CASE k # 1
      BY <1>1, <1>2, <2>1, <3>1, <3>3 DEF Abstract
    <3> QED
      BY <3>2, <3>3
  <2>5. Queue' = [k \in 1 .. Length |-> IF k = 1 THEN Stream!Rest(f) ELSE Queue[k]]
    BY <2>2, <2>4 DEF Queue, Length
  <2>6. << Stream!Rest(f) >> \o Tail(Queue)
          = [k \in 1 .. Length |-> IF k = 1 THEN Stream!Rest(f) ELSE Queue[k]]
    <3> DEFINE r == Stream!Rest(f)
               s == << r >> \o Tail(Queue)
    <3>1. /\ << r >> \in Seq(Stream!Segment) /\ Len(<< r >>) = 1 /\ << r >>[1] = r
      BY <2>3
    <3>2. /\ s \in Seq(Stream!Segment) /\ Len(s) = 1 + (Length - 1)
          /\ \A k \in 1 .. 1 + (Length - 1) :
                s[k] = IF k <= 1 THEN << r >>[k] ELSE Tail(Queue)[k - 1]
      BY <1>7, <3>1, ConcatProperties
    <3> HIDE DEF s, r
    <3>3. s \in [1 .. Length -> Stream!Segment]
      BY <1>2, <3>2, LenProperties
    <3>4. \A k \in 1 .. Length : s[k] = IF k = 1 THEN r ELSE Queue[k]
      BY <1>2, <1>7, <3>1, <3>2
    <3>5. s = [k \in 1 .. Length |-> IF k = 1 THEN r ELSE Queue[k]]
      BY <3>3, <3>4
    <3> QED
      BY <3>5 DEF s, r
  <2>7. Queue' = IF f.steps = 1 THEN Tail(Queue) ELSE << Stream!Rest(f) >> \o Tail(Queue)
    BY <1>9, <2>5, <2>6
  <2> QED
    BY <1>2, <1>6, <2>7, Zenon DEF Stream!Step, f
<1> QED
  BY <1>8, <1>9

\* Every step of the two rings is a step of the stream or leaves it alone.
LEMMA NextIsStream ==
    RInv /\ RInv' /\ [Next]_vars => [Stream!Next]_<< Queue, out >>
<1> SUFFICES ASSUME RInv, RInv', [Next]_vars
             PROVE  \/ Stream!Put \/ Stream!Step \/ Stream!Cut
                    \/ Queue' = Queue /\ out' = out
  BY DEF Stream!Next
<1>1. CASE PrepHead
  BY <1>1, HandOverIsPut
<1>2. CASE InterruptStep
  BY <1>2, InterruptIsStep
<1>3. CASE Reset
  <2>1. Distance(segment_buffer_tail, segment_buffer_head)' = 0
    BY <1>3 DEF Reset, Distance
  <2>2. Queue' \in [1 .. 0 -> Stream!Segment]
    BY <2>1 DEF Queue
  <2>3. Queue' \in Seq(Stream!Segment) /\ Len(Queue') = 0
    BY <2>2, SeqDef, LenProperties
  <2>4. Queue' = << >>
    BY <2>3, EmptySeq
  <2> QED
    BY <1>3, <2>4 DEF Reset, Stream!Cut, Stream!Nothing, Nothing
<1>4. CASE PrepSegment \/ PrepBail
  <2>1. segment_buffer_tail \in Slots /\ segment_buffer_head \in Slots
    BY DEF RInv, IInv, TypeOK
  <2>2. \A i \in Published :
          segment_buffer'[i] = segment_buffer[i] /\ made'[i] = made[i]
    BY <1>4, <2>1, PublishedSlots DEF PrepSegment, PrepBail, Write, RInv, IInv, TypeOK, hist
  <2> QED
    BY <1>4, <2>2, QueueUnchanged DEF PrepSegment, PrepBail, hist
<1>5. CASE \/ PrepCall \/ PrepReturn \/ PrepContinue \/ PrepRecalculate \/ PrepLoad \/ PrepCopy
           \/ PrepNextHead \/ PrepExit
           \/ Replan \/ BeginHold \/ EndHold \/ WakeUp
           \/ InterruptEmpty \/ UNCHANGED vars
  <2>1. UNCHANGED << segment_buffer_tail, segment_buffer_head, segment_buffer, isr, made, out >>
    BY <1>5 DEF PrepCall, PrepReturn, PrepContinue, PrepRecalculate, PrepLoad, PrepCopy,
       PrepNextHead, PrepExit, Replan, BeginHold, EndHold, WakeUp, InterruptEmpty,
       ring, hist, vars
  <2> QED
    BY <2>1, QueueUnchanged
<1> QED
  BY <1>1, <1>2, <1>3, <1>4, <1>5 DEF Next, Prep

\* The two rings implement the stream of StepStream: the steps put out are the
\* steps of the segments prepared, none lost, repeated or out of order, each with
\* the data of its own block, and the counters start anew with every block and
\* nowhere else.
THEOREM StreamImplemented == Spec => StreamSpec
<1>1. Init => Stream!Init
  <2> SUFFICES ASSUME Init PROVE Queue = << >> /\ out = Nothing
    BY DEF Stream!Init, Stream!Nothing, Nothing
  <2>1. Distance(segment_buffer_tail, segment_buffer_head) = 0
    BY DEF Init, Distance
  <2>2. Queue \in [1 .. 0 -> Stream!Segment]
    BY <2>1 DEF Queue
  <2>3. Queue \in Seq(Stream!Segment) /\ Len(Queue) = 0
    BY <2>2, SeqDef, LenProperties
  <2> QED
    BY <2>3, EmptySeq DEF Init
<1> QED
  BY <1>1, NextIsStream, RInvHolds, PTL DEF Spec, StreamSpec, Stream!Spec
=============================================================================
