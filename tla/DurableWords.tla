---------------------------- MODULE DurableWords ----------------------------
(***************************************************************************)
(* What the emulated EEPROM promises the layers above it.  A write that is *)
(* carried out at once replaces one byte of a word, and when it ends every *)
(* later read finds the word it stored, resets included; a reset during    *)
(* the write leaves the old word or the new one, and no write ever changes *)
(* a word other than its own.                                              *)
(*                                                                         *)
(* A write that is deferred promises less: it is carried out some time     *)
(* later, behind the writes deferred before it but perhaps after others    *)
(* begun meanwhile, which it then overwrites; until then a read finds the  *)
(* old byte; and a reset forgets it.  A write may also be dropped without  *)
(* a trace.                                                                *)
(*                                                                         *)
(* All this is for as long as the store is intact: the events that end it  *)
(* are those the implementation does not survive.                          *)
(***************************************************************************)
EXTENDS Naturals, Sequences

CONSTANTS
    Addr,       \* addresses of the words
    Val,        \* values a word can hold
    NoWord,     \* the word was never written
    Byte,       \* the bytes that are written
    Merged(_, _)    \* a word with a byte replaced

VARIABLES
    mem,        \* mem[a]: the word a read of address a finds
    inflight,   \* the write being carried out, {} or {[addr, val]}
    deferred,   \* the writes to be carried out later, in order
    intact,     \* the promise holds
    resets      \* number of resets so far

vars == << mem, inflight, deferred, intact, resets >>

Request(a, b) == [addr |-> a, val |-> Merged(mem[a], b)]

Init == /\ mem = [a \in Addr |-> NoWord]
        /\ inflight = {}
        /\ deferred = << >>
        /\ intact = TRUE
        /\ resets = 0

Begin == /\ inflight = {}
         /\ \E a \in Addr, b \in Byte : inflight' = {Request(a, b)}
         /\ UNCHANGED << mem, deferred, intact, resets >>

Commit == /\ \E r \in inflight : mem' = [mem EXCEPT ![r.addr] = r.val]
          /\ inflight' \in {inflight, {}}
          /\ UNCHANGED << deferred, intact, resets >>

\* A write returns only once its word is stored.
End == /\ \E r \in inflight : mem[r.addr] = r.val
       /\ inflight' = {}
       /\ UNCHANGED << mem, deferred, intact, resets >>

Defer == /\ \E a \in Addr, b \in Byte :
               deferred' = Append(deferred, [addr |-> a, byte |-> b])
         /\ UNCHANGED << mem, inflight, intact, resets >>

\* The first deferred write begins, or changes nothing.
BeginDeferred ==
    /\ inflight = {} /\ deferred # << >>
    /\ \E r \in {Request(Head(deferred).addr, Head(deferred).byte)} :
          \/ inflight' = {r}
          \/ mem[r.addr] = r.val /\ inflight' = {}
    /\ deferred' = Tail(deferred)
    /\ UNCHANGED << mem, intact, resets >>

\* Only a reset ends a write before that.
Reset == /\ inflight' = {} /\ deferred' = << >> /\ resets' = resets + 1
         /\ UNCHANGED << mem, intact >>

Damage == intact' = FALSE

Next == \/ intact /\ (Begin \/ Commit \/ End \/ Defer \/ BeginDeferred \/ Reset \/ Damage)
        \/ ~intact /\ Damage

Spec == Init /\ [][Next]_vars
=============================================================================
