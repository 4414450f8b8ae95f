-------------------------- MODULE MC_LineProtocol --------------------------
(***************************************************************************)
(* The line protocol with a ring of six characters and a line buffer of    *)
(* four: three characters of text fit, the longest line nearly fills the   *)
(* ring, and three short lines fill it.                                    *)
(***************************************************************************)
EXTENDS LineProtocol

\* Lines that fit the line buffer and close their comments.
ProperLines == {
    << "$", "A", EOL >>,              \* a system command
    << "A", ";", "B", "(", EOL >>,    \* a comment to the end of the line
    << "(", "A", ")", "B", EOL >>,    \* a comment in front
    << ";", EOL >>,                   \* an empty line
    << "$", "D", EOL >>,              \* a report of one turn,
    << "$", "D", "2", EOL >>,         \* of many turns
    << "$", "W", "2", EOL >> }        \* a line that is never answered

\* What the theorems of LineProtocol_proofs assume of the lines.
ASSUME ProperAssumption == \A l \in Lines : Proper(l)
=============================================================================
