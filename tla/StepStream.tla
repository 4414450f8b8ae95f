----------------------------- MODULE StepStream -----------------------------
(***************************************************************************)
(* What the segment buffer promises: a bounded first-in first-out stream   *)
(* of segments.  The steps put out are the steps of the segments put in,   *)
(* in their order and each with the data of its own block, and the         *)
(* Bresenham counters are started anew at the first step of every block    *)
(* and nowhere else.  The producer and the consumer take turns in any way; *)
(* the stream can be cut at any time.                                      *)
(***************************************************************************)
EXTENDS Integers, Sequences

CONSTANTS
    Blocks,     \* Bresenham data of a block
    NoBlock,    \* the data before the first step
    MaxSteps,   \* steps of a segment
    Capacity    \* segments the stream holds

VARIABLES
    queue,      \* segments not yet put out; of the first one, what is left of it
    out         \* the step put out last: its block's data, and whether it began it

Segment == [block: Blocks, first: BOOLEAN, steps: 1 .. MaxSteps]
Nothing == [block |-> NoBlock, restart |-> FALSE]

Init == queue = << >> /\ out = Nothing

\* A segment of at least one step enters the stream.
Put ==
    /\ Len(queue) < Capacity
    /\ \E s \in Segment : queue' = Append(queue, s)
    /\ UNCHANGED out

\* What is left of a segment after one step.
Rest(s) == [s EXCEPT !.first = FALSE, !.steps = @ - 1]

\* One step of the first segment is put out.
Step ==
    /\ queue # << >>
    /\ LET s == Head(queue)
       IN /\ out' = [block |-> s.block, restart |-> s.first]
          /\ queue' = IF s.steps = 1 THEN Tail(queue)
                      ELSE << Rest(s) >> \o Tail(queue)

\* The stream is cut: limit, emergency stop, jog cancel, probe or soft reset.
Cut == queue' = << >> /\ out' = Nothing

Next == Put \/ Step \/ Cut

Spec == Init /\ [][Next]_<< queue, out >>
=============================================================================
