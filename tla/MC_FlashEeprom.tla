-------------------------- MODULE MC_FlashEeprom ---------------------------
(***************************************************************************)
(* TLC instance of FlashEeprom: three pages of three elements, two words in *)
(* use and one address that is never written, one reset, and a buffer of   *)
(* two bytes, used to its end before the reset and for the first word      *)
(* only.  A word stands for the one byte of it that is written.  The       *)
(* values are interchangeable.  Exploration ends with the first event the  *)
(* code does not survive, since no property speaks of what follows.        *)
(***************************************************************************)
EXTENDS FlashEeprom, TLC

CONSTANTS v1, v2

Values   == Permutations(Val)
Explored ==
    /\ ~wounded                         \* and bounds on a full buffer:
    /\ taken + Len(deferred) > 1 => resets = 0 /\ \A i \in DOMAIN deferred : deferred[i].addr = 0

\* The word is the byte.
Replaced(w, b) == b
=============================================================================
