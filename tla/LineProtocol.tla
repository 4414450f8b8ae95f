---------------------------- MODULE LineProtocol ----------------------------
(***************************************************************************)
(* From characters to answered lines: do_protocol_main_loop() and          *)
(* process_multi_char_command() (software/src/grbl/grbl_protocol.c) over   *)
(* the ring of received characters (software/src/buffer/ringBuffer.c).     *)
(*                                                                         *)
(* A host streams lines without waiting for their answers: it counts the   *)
(* characters of the lines not yet answered and sends a line when they all *)
(* fit into the buffer size the build report gives (grbl_report.c:1059).   *)
(* The ring does not know when it is full: a character too many makes it   *)
(* look empty.  One pass of the main loop puts at most one character into  *)
(* the ring and takes at most one out, and takes none while a line waits   *)
(* for the planner, for the motion before it or for what it started.       *)
(*                                                                         *)
(* A character is one of the letters, a blank, the three comment           *)
(* characters, the end of line, "?" for the realtime commands (taken out   *)
(* before the ring), or Reset.  "$" in front makes a system command.       *)
(* What a line does to the machine is left open: how long the planner is   *)
(* full, the machine moves and the line is being waited for.  Left out:    *)
(* the change to upper case, and the service commands (SETEEPROM:, MAC:,   *)
(* DUMPEEPROM ...) that process_multi_char_command() handles like a line.  *)
(*                                                                         *)
(* Some system commands return STATUS_ASYNCH_OK and are not answered by    *)
(* the main loop: "$D..." and "$C..." ask do_grbl_report() (grbl_report.c) *)
(* for a report, which ends with the answer, after the answers of later    *)
(* lines perhaps; "$W..." is never answered.                               *)
(***************************************************************************)
EXTENDS Integers, Sequences, FiniteSets, SequencesExt

CONSTANTS
    GRBL_LINE_BUFFER_SIZE,  \* 128
    GRBL_RX_LEN_PROTOCOL,   \* 256
    Lines,                  \* the lines the host sends
    MaxLines,               \* bound: lines sent from one reset to the next
    MaxResets               \* bound: soft resets

EOL   == "\n"
Reset == "reset"
Nul   == "nul"      \* what the ring is cleared with
Letters == {"A", "B", "$", "C", "D", "W", "1", "2"}
Characters == Letters \cup {" ", "(", ")", ";", EOL, "?", Reset}

\* A ring of one character would always look empty.
ASSUME SizeAssumption ==
    /\ GRBL_LINE_BUFFER_SIZE \in Nat \ {0}
    /\ GRBL_RX_LEN_PROTOCOL \in Nat \ {0, 1}
ASSUME BoundsAssumption == MaxLines \in Nat /\ MaxResets \in Nat
\* A host ends every line with one EOL and sends none that does not fit the ring.
ASSUME LineAssumption ==
    \A l \in Lines :
        /\ l \in Seq(Characters) /\ Len(l) \in 1 .. GRBL_RX_LEN_PROTOCOL
        /\ \A i \in DOMAIN l : l[i] = EOL <=> i = Len(l)

\* The flags grbl_report_sys_log_0 .. 4 of do_grbl_report(): a "$D" line raises
\* one of the first two, a "$C" line (USE_P256_M) one of the others.
Logs    == {"sys_log_0", "sys_log_1"}
Crypto  == {"sys_log_2", "sys_log_3", "sys_log_4"}
Reports == Logs \cup Crypto

VARIABLES
    wire,               \* characters sent and not read: USB or TCP, in order
    buffer,             \* grbl_protocol_rx[]
    bufferRead,         \* the pointers of the ring, as indices
    bufferWrite,
    line,               \* line_buffer[] up to grbl_protocol_char_counter
    command,            \* line_buffer[], the complete line
    line_flags,         \* grbl_protocol_line_flags
    lineStateMachine,
    reset_requested,    \* grbl_reset_asyn_execute
    locked,             \* sys.state is ALARM or JOG
    machine,            \* what the line waits for: subset of Waits
    resets,             \* number of soft resets
    underway,           \* the reports whose flag is up
    owed,               \* those of them not printed to the end and answered
    sent,               \* the host: the lines sent since the last welcome message
    answered,           \* the texts and reports answered since then
    handled             \* history: the number of lines handled since then

ring     == << buffer, bufferRead, bufferWrite >>
assembly == << line, command, line_flags >>
reports  == << underway, owed >>
replies  == << answered, handled, reports >>
vars     == << wire, ring, assembly, lineStateMachine, reset_requested, locked,
               machine, resets, sent, replies >>

\* "full": plan_check_full_buffer(); "moving": a block is planned or the steppers
\* run; "synch": requestSynchMotion; "started": dwell, arc, homing, stepper delay,
\* probing or tool change of the line executed last.
Waits == {"full", "moving", "synch", "started"}

States == {"processing_chars", "pre_sync_check", "wait_for_processed",
           "wait_pre_sync", "jog_wait_for_processed", "wait_home_end",
           "after_command_executer", "synch_motion"}

----------------------------------------------------------------------------
(* The ring (ringBuffer.c).                                                *)

Slots == 0 .. GRBL_RX_LEN_PROTOCOL - 1

\* Mutant of Following: the pointer wraps one slot late.
FollowingRunsOn(i) == IF i = GRBL_RX_LEN_PROTOCOL THEN 0 ELSE i + 1

Following(i) == IF i + 1 = GRBL_RX_LEN_PROTOCOL THEN 0 ELSE i + 1

\* ringBuffer_getFillness: also what ringBuffer_getItem can return one by one.
Fillness(r, w) == IF r > w THEN GRBL_RX_LEN_PROTOCOL - (r - w) ELSE w - r

\* ringBuffer_addItem never refuses; ringBuffer_getItem clears what it takes.
AddItem(ch)   == [buffer EXCEPT ![bufferWrite] = ch]
Taken(b, r)   == [b EXCEPT ![r] = Nul]

----------------------------------------------------------------------------
(* Line assembly: process_multi_char_command().                            *)

\* Mutant of FlagsBefore: a ';' comment does not end with its line.
FlagsBeforeKept(ch) == line_flags

\* The end of line ends a ';' comment before it is handled itself.
FlagsBefore(ch) == IF ch = EOL THEN line_flags \ {"semicolon"} ELSE line_flags

\* The terminating zero needs a place in the line buffer.
Terminated == SubSeq(line, 1, IF Len(line) >= GRBL_LINE_BUFFER_SIZE
                              THEN GRBL_LINE_BUFFER_SIZE - 1 ELSE Len(line))

\* report_status_message(): the host takes it for the answer to its next line.
Answers(text) ==
    /\ answered' = Append(answered, text)
    /\ handled' = handled + 1
    /\ UNCHANGED reports

Proceeds(state) == lineStateMachine' = state /\ UNCHANGED replies

\* The end of a line: it is answered at once when it is empty or locked out.
EndOfLine ==
    LET text == Terminated
    IN  /\ line' = << >>
        /\ command' = text
        /\ line_flags' = {}
        /\ CASE text = << >> -> Answers(text) /\ UNCHANGED lineStateMachine
             [] text # << >> /\ Head(text) = "$" -> Proceeds("jog_wait_for_processed")
             [] text # << >> /\ Head(text) # "$" /\ locked ->
                    Answers(text) /\ UNCHANGED lineStateMachine
             [] OTHER -> Proceeds("pre_sync_check")

Stored(ch) == ch \in Letters \cup {")"}

\* The flag raised by a character outside comments.
Raised(ch) ==
    CASE ch = "(" -> {"parentheses"}
      [] ch = ";" -> {"semicolon"}
      [] Stored(ch) /\ Len(line) >= GRBL_LINE_BUFFER_SIZE -> {"overflow"}
      [] OTHER -> {}

\* Any other character of a line, outside comments.
OfLine(ch) ==
    /\ line_flags' = line_flags \cup Raised(ch)
    /\ line' = IF Stored(ch) /\ Raised(ch) = {} THEN Append(line, ch) ELSE line
    /\ UNCHANGED << command, lineStateMachine, replies >>

\* A character of a comment, or after an overflow: the flags are all it changes.
Skipped(flags) ==
    /\ line_flags' = flags
    /\ UNCHANGED << line, command, lineStateMachine, replies >>

Assemble(ch) ==
    IF "parentheses" \in line_flags
    THEN Skipped(IF ch = ")" THEN line_flags \ {"parentheses"} ELSE line_flags)
    ELSE IF FlagsBefore(ch) # {} THEN Skipped(FlagsBefore(ch))
    ELSE IF ch = EOL THEN EndOfLine ELSE OfLine(ch)

----------------------------------------------------------------------------
(* The state machine: do_protocol_main_loop() after the serial part.       *)

\* gc_execute_line() may queue motion, ask for synchronisation and start
\* something the line is then held for.
Execute ==
    \E w \in SUBSET Waits :
        /\ "full" \in w => "moving" \in w \cup machine
        /\ machine' = machine \cup w

CharactersStep(r, w, b) ==
    IF r = w
    THEN /\ buffer' = b
         /\ UNCHANGED << bufferRead, assembly, lineStateMachine, replies, machine, locked >>
    ELSE /\ buffer' = Taken(b, r)
         /\ bufferRead' = Following(r)
         /\ Assemble(b[r])
         /\ UNCHANGED << machine, locked >>

PreSyncCheck ==
    /\ \/ lineStateMachine' = "wait_pre_sync"        \* gc_check_for_sync_needed()
       \/ lineStateMachine' = "wait_for_processed"
    /\ UNCHANGED << replies, machine, locked >>

WaitPreSync ==
    /\ lineStateMachine' = IF "moving" \in machine THEN lineStateMachine
                           ELSE "wait_for_processed"
    /\ UNCHANGED << replies, machine, locked >>

WaitForProcessed ==
    IF "full" \in machine
    THEN UNCHANGED << lineStateMachine, replies, machine, locked >>
    ELSE Execute /\ Proceeds("after_command_executer") /\ UNCHANGED locked

\* The lines for which protocol_execute_line() returns STATUS_ASYNCH_OK, and the
\* report they ask for.
Asynchronous(text) ==
    /\ Len(text) > 1 /\ text[1] = "$"
    /\ text[2] = "D" \/ (text[2] \in {"C", "W"} /\ Len(text) > 2)

Asked(text) ==
    LET which == IF Len(text) = 2 THEN "1" ELSE text[3]
    IN  CASE text[2] = "D" /\ which = "1" -> {"sys_log_1"}
          [] text[2] = "D" /\ which # "1" -> {"sys_log_0"}
          [] text[2] = "C" /\ which = "1" -> {"sys_log_3"}
          [] text[2] = "C" /\ which = "2" -> {"sys_log_4"}
          [] text[2] = "C" /\ which \notin {"1", "2"} -> {"sys_log_2"}
          [] OTHER -> {}

\* Mutant of Defers: the answer is given at once as well.
DefersAndAnswers(text) ==
    /\ underway' = underway \cup Asked(text)
    /\ owed' = owed \cup (Asked(text) \ underway)
    /\ handled' = handled + 1
    /\ answered' = Append(answered, text)

\* The flag is raised and the line is not answered; a flag that is up already
\* changes nothing.
Defers(text) ==
    /\ underway' = underway \cup Asked(text)
    /\ owed' = owed \cup (Asked(text) \ underway)
    /\ handled' = handled + 1
    /\ UNCHANGED answered

\* protocol_execute_line(): $H starts homing, $X may end the lock, $J queues.
JogWaitForProcessed ==
    IF "full" \in machine
    THEN UNCHANGED << lineStateMachine, replies, machine, locked >>
    ELSE \/ /\ Asynchronous(command)
            /\ Defers(command)
            /\ lineStateMachine' = "processing_chars"
            /\ UNCHANGED << machine, locked >>
         \/ /\ ~Asynchronous(command)
            /\ machine' = machine \cup {"started"}
            /\ Proceeds("wait_home_end")
            /\ UNCHANGED locked
         \/ /\ ~Asynchronous(command)
            /\ \E w \in SUBSET {"full", "moving"} :
                  /\ "full" \in w => "moving" \in w \cup machine
                  /\ machine' = machine \cup w
            /\ locked' \in BOOLEAN
            /\ Answers(command)
            /\ lineStateMachine' = "processing_chars"

WaitHomeEnd ==
    IF "started" \in machine
    THEN UNCHANGED << lineStateMachine, replies, machine, locked >>
    ELSE /\ Answers(command)
         /\ lineStateMachine' = "processing_chars"
         /\ locked' = FALSE
         /\ UNCHANGED machine

AfterCommand ==
    /\ UNCHANGED locked
    /\ CASE "synch" \in machine ->
              machine' = machine \ {"synch"} /\ Proceeds("synch_motion")
         [] "synch" \notin machine /\ "started" \in machine ->
              UNCHANGED << lineStateMachine, replies, machine >>
         [] OTHER ->
              /\ Answers(command)
              /\ lineStateMachine' = "processing_chars"
              /\ UNCHANGED machine

SynchMotion ==
    /\ lineStateMachine' = IF "moving" \in machine THEN lineStateMachine
                           ELSE "after_command_executer"
    /\ UNCHANGED << replies, machine, locked >>

LineStep(r, w, b) ==
    IF lineStateMachine = "processing_chars" THEN CharactersStep(r, w, b)
    ELSE /\ buffer' = b
         /\ UNCHANGED << bufferRead, assembly >>
         /\ CASE lineStateMachine = "pre_sync_check"           -> PreSyncCheck
              [] lineStateMachine = "wait_pre_sync"            -> WaitPreSync
              [] lineStateMachine = "wait_for_processed"       -> WaitForProcessed
              [] lineStateMachine = "jog_wait_for_processed"   -> JogWaitForProcessed
              [] lineStateMachine = "wait_home_end"            -> WaitHomeEnd
              [] lineStateMachine = "after_command_executer"   -> AfterCommand
              [] lineStateMachine = "synch_motion"             -> SynchMotion

----------------------------------------------------------------------------
(* The actions.                                                            *)

Init ==
    /\ wire = << >>
    /\ buffer = [i \in Slots |-> Nul] /\ bufferRead = 0 /\ bufferWrite = 0
    /\ line = << >> /\ command = << >> /\ line_flags = {}
    /\ lineStateMachine = "processing_chars"
    /\ reset_requested = FALSE
    /\ locked \in BOOLEAN
    /\ machine = {}
    /\ resets = 0
    /\ sent = << >>
    /\ answered = << >> /\ handled = 0 /\ underway = {} /\ owed = {}

\* A pass in which getChar_grbl() has nothing to give.
PassWithoutCharacter ==
    /\ ~reset_requested
    /\ LineStep(bufferRead, bufferWrite, buffer)
    /\ UNCHANGED << wire, bufferWrite, reset_requested, resets, sent >>

\* A pass that reads a character: realtime characters do not enter the ring.
Realtime == {"?", Reset}

PassWithCharacter ==
    /\ ~reset_requested
    /\ wire # << >>
    /\ wire' = Tail(wire)
    /\ reset_requested' = (Head(wire) = Reset)
    /\ IF Head(wire) \in Realtime
       THEN /\ LineStep(bufferRead, bufferWrite, buffer)
            /\ UNCHANGED bufferWrite
       ELSE /\ LineStep(bufferRead, Following(bufferWrite), AddItem(Head(wire)))
            /\ bufferWrite' = Following(bufferWrite)
    /\ UNCHANGED << resets, sent >>

\* init_grbl_report() drops the reports under way, not those of "$C" lines.
DropReports == underway' = underway \cap Crypto /\ owed' = owed \cap Crypto

\* Mutant of SoftReset: the ring outlives it.
SoftResetKeepsRing ==
    /\ reset_requested
    /\ reset_requested' = FALSE
    /\ line' = << >> /\ line_flags' = {}
    /\ lineStateMachine' = "processing_chars"
    /\ machine' = {}
    /\ locked' \in BOOLEAN
    /\ DropReports
    /\ sent' = << >> /\ answered' = << >> /\ handled' = 0
    /\ UNCHANGED << wire, ring, command, resets >>

\* do_grbl(): the soft reset; the host forgets the lines it waits for when the
\* welcome message comes.
SoftReset ==
    /\ reset_requested
    /\ reset_requested' = FALSE
    /\ buffer' = [i \in Slots |-> Nul] /\ bufferRead' = 0 /\ bufferWrite' = 0
    /\ line' = << >> /\ line_flags' = {}
    /\ lineStateMachine' = "processing_chars"
    /\ machine' = {}
    /\ locked' \in BOOLEAN
    /\ DropReports
    /\ sent' = << >> /\ answered' = << >> /\ handled' = 0
    /\ UNCHANGED << wire, command, resets >>

\* do_grbl_report(), every 50 ms: the turn of one flag.  Report 0 is printed over
\* twenty turns, report 1 and those of "$C" lines in one; the turn after the answer
\* of report 0 or 1 takes the flag down, and a request made before it is forgotten.
ReportProceeds(k) ==
    /\ \/ /\ k \in owed
          /\ answered' = Append(answered, << k >>)
          /\ owed' = owed \ {k}
          /\ underway' = IF k \in Logs THEN underway ELSE underway \ {k}
       \/ /\ k \in underway \ owed
          /\ underway' = underway \ {k}
          /\ UNCHANGED << answered, owed >>
    /\ UNCHANGED << wire, ring, assembly, lineStateMachine, reset_requested, locked,
                    machine, resets, sent, handled >>

\* What a line waits for ends; the planner has room before the motion ends.
MachineProceeds ==
    /\ \E w \in {"full", "moving", "started"} \cap machine :
           /\ w = "moving" => "full" \notin machine
           /\ machine' = machine \ {w}
    /\ UNCHANGED << wire, ring, assembly, lineStateMachine, reset_requested,
                    locked, resets, sent, replies >>

\* ALARM or JOG begins or ends.
LockChanges ==
    /\ locked' = ~locked
    /\ UNCHANGED << wire, ring, assembly, lineStateMachine, reset_requested,
                    machine, resets, sent, replies >>

\* The host.  It takes every answer for that of the first line it has none for;
\* the lines left, and the number of their characters:
Unanswered  == SubSeq(sent, Len(answered) + 1, Len(sent))
Outstanding == Len(FlattenSeq(Unanswered))

\* After the character of a reset it is silent until the welcome message.
AwaitsWelcome == reset_requested \/ \E i \in DOMAIN wire : wire[i] = Reset

HostSends ==
    /\ ~AwaitsWelcome
    /\ Len(sent) < MaxLines
    /\ \E l \in Lines :
          /\ Outstanding + Len(l) <= GRBL_RX_LEN_PROTOCOL
          /\ wire' = wire \o l
          /\ sent' = Append(sent, l)
    /\ UNCHANGED << ring, assembly, lineStateMachine, reset_requested, locked,
                    machine, resets, replies >>

HostAsks ==
    /\ ~AwaitsWelcome
    /\ \A i \in DOMAIN wire : wire[i] # "?"
    /\ wire' = Append(wire, "?")
    /\ UNCHANGED << ring, assembly, lineStateMachine, reset_requested, locked,
                    machine, resets, sent, replies >>

HostResets ==
    /\ ~AwaitsWelcome
    /\ resets < MaxResets
    /\ resets' = resets + 1
    /\ wire' = Append(wire, Reset)
    /\ UNCHANGED << ring, assembly, lineStateMachine, reset_requested, locked,
                    machine, sent, replies >>

Next == \/ PassWithoutCharacter \/ PassWithCharacter \/ SoftReset
        \/ (\E k \in Reports : ReportProceeds(k)) \/ MachineProceeds \/ LockChanges
        \/ HostSends \/ HostAsks \/ HostResets

\* The main loop runs for ever, what has arrived is read, and what the machine
\* was told to do ends.  No fairness for the host.
Fairness == /\ WF_vars(PassWithoutCharacter) /\ WF_vars(PassWithCharacter)
            /\ WF_vars(SoftReset) /\ WF_vars(MachineProceeds)
            /\ \A k \in Logs : WF_vars(ReportProceeds(k))

Spec == Init /\ [][Next]_vars /\ Fairness

----------------------------------------------------------------------------
(* What the host relies on.                                                *)

\* The characters of s at the places P, in order.
Picked(s, P) == FlattenSeq([i \in DOMAIN s |-> IF i \in P THEN << s[i] >> ELSE << >>])

\* What a line says: neither comments nor blanks.  A '(' comment ends at its ')',
\* a ';' comment at the end of the line; neither begins inside the other.
InParentheses(l, i) ==
    \E j \in 1 .. i - 1 : l[j] = "(" /\ \A k \in j + 1 .. i - 1 : l[k] # ")"
AfterSemicolon(l, i) ==
    \E j \in 1 .. i - 1 : l[j] = ";" /\ ~InParentheses(l, j)
Said(l) == {i \in DOMAIN l :
               l[i] \in Letters /\ ~InParentheses(l, i) /\ ~AfterSemicolon(l, i)}
Text(l) == Picked(l, Said(l))

\* A line the host can count on: its comments are closed, a ")" closes one, no
\* realtime command is inside it, its text fits the line buffer, and it is none of
\* the "$C" lines, whose answer may outlive a soft reset.
Proper(l) ==
    /\ InParentheses(l, Len(l)) => AfterSemicolon(l, Len(l))
    /\ \A i \in DOMAIN l :
          /\ l[i] \notin Realtime
          /\ l[i] = ")" => InParentheses(l, i) \/ AfterSemicolon(l, i)
    /\ Len(Text(l)) < GRBL_LINE_BUFFER_SIZE
    /\ Asynchronous(Text(l)) => Asked(Text(l)) \subseteq Logs

\* The characters sent that no line has been made of, oldest first.
Contents(b, r, w) ==
    [n \in 1 .. Fillness(r, w) |-> b[(r + n - 1) % GRBL_RX_LEN_PROTOCOL]]
Unread  == Contents(buffer, bufferRead, bufferWrite)
Lined(s) == {i \in DOMAIN s : s[i] \notin Realtime}
Pending == Unread \o Picked(wire, Lined(wire))

TypeOK ==
    /\ wire \in Seq(Characters)
    /\ buffer \in [Slots -> Characters \cup {Nul}]
    /\ bufferRead \in Slots /\ bufferWrite \in Slots
    /\ line \in Seq(Letters \cup {")"}) /\ Len(line) <= GRBL_LINE_BUFFER_SIZE
    /\ command \in Seq(Letters \cup {")"}) /\ Len(command) < GRBL_LINE_BUFFER_SIZE
    /\ line_flags \subseteq {"parentheses", "semicolon", "overflow"}
    /\ lineStateMachine \in States
    /\ reset_requested \in BOOLEAN /\ locked \in BOOLEAN
    /\ machine \subseteq Waits
    /\ resets \in 0 .. MaxResets
    /\ sent \in Seq(Lines) /\ handled \in Nat
    /\ answered \in Seq(Seq(Characters \cup Reports))
    /\ underway \subseteq Reports /\ owed \subseteq underway

\* The lines the host sent behind the one at hand.
Behind == SubSeq(sent, handled + (IF lineStateMachine = "processing_chars"
                                  THEN 1 ELSE 2), Len(sent))

\* However long a line is held, the ring keeps every character of the lines behind
\* it, in order, although ringBuffer_addItem() would write over them: a host that
\* counts with the size in the build report never fills the ring, although answers
\* come late or not at all and are taken for those of other lines.
NothingOverwritten ==
    /\ IsSuffix(Pending, FlattenSeq(Behind))
    /\ lineStateMachine # "processing_chars" => Pending = FlattenSeq(Behind)

\* The protocol is the stream of commands of CommandStream: every line is handled in
\* order and answered with its own text when it is handled, except that a "$D" line
\* is answered when its report ends and "$W" lines are not; no line and no report
\* waits for ever.
Stream == INSTANCE CommandStream WITH Reports <- Logs
CommandSpec == Stream!Spec
=============================================================================
