---------------------------- MODULE CommandStream ----------------------------
(***************************************************************************)
(* What the line protocol promises to the host: the lines are handled in   *)
(* the order they were sent, each once.  When a line is handled it is      *)
(* answered with its own text, without comments and blanks, and nothing of *)
(* another line; but a line that asks for a report is answered when the    *)
(* report ends, after later lines perhaps, one answer for all that asked   *)
(* while it was under way, and some lines are not answered at all.  A soft *)
(* reset forgets the lines sent so far and the reports under way.          *)
(***************************************************************************)
EXTENDS Integers, Sequences

CONSTANTS
    Lines,              \* the lines a host may send
    Text(_),            \* what a line says
    Asynchronous(_),    \* the texts that are not answered when they are handled
    Asked(_),           \* the reports such a text asks for: one or none
    Reports,            \* the reports there are
    MaxLines            \* bound: lines sent from one reset to the next

VARIABLES
    sent,       \* the lines sent since the last reset
    handled,    \* how many of them were handled
    owed,       \* the reports whose answer is still to come
    underway,   \* the reports asked for that have not ended
    answered    \* the texts and the reports answered since the last reset

vars == << sent, handled, owed, underway, answered >>

Init == /\ sent = << >> /\ handled = 0 /\ answered = << >>
        /\ owed = {} /\ underway = {}

Send ==
    /\ Len(sent) < MaxLines
    /\ \E l \in Lines : sent' = Append(sent, l)
    /\ UNCHANGED << handled, owed, underway, answered >>

Answer(text) ==
    /\ ~Asynchronous(text)
    /\ answered' = Append(answered, text)
    /\ UNCHANGED << owed, underway >>

Defer(text) ==
    /\ Asynchronous(text)
    /\ owed' = owed \cup (Asked(text) \ underway)
    /\ underway' = underway \cup Asked(text)
    /\ UNCHANGED answered

\* The next line is handled.
Handle ==
    /\ handled < Len(sent)
    /\ handled' = handled + 1
    /\ \E text \in {Text(sent[handled + 1])} : Answer(text) \/ Defer(text)
    /\ UNCHANGED sent

AnswerLate(k) ==
    /\ k \in owed
    /\ owed' = owed \ {k}
    /\ answered' = Append(answered, << k >>)
    /\ UNCHANGED << sent, handled, underway >>

End(k) ==
    /\ k \in underway \ owed
    /\ underway' = underway \ {k}
    /\ UNCHANGED << sent, handled, owed, answered >>

Reset == /\ sent' = << >> /\ handled' = 0 /\ answered' = << >>
         /\ owed' = {} /\ underway' = {}

Next == Send \/ Handle \/ (\E k \in Reports : AnswerLate(k) \/ End(k)) \/ Reset

\* The host need not send and need not reset; lines and reports do not wait for ever.
Fairness == /\ WF_vars(Handle)
            /\ \A k \in Reports : WF_vars(AnswerLate(k)) /\ WF_vars(End(k))

Spec == Init /\ [][Next]_vars /\ Fairness
=============================================================================
