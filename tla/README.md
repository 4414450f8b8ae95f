# Verification of the GRBL port

TLA+ models of the control software of this repository, a port of GRBL to a PIC32
(`software/src/grbl/`), and of the storage below it (`software/src/eeprom/`,
`software/src/eeprom_manager/`). TLC checks them on small instances, TLAPS proves the
central invariants for every value of the constants. Paths below are relative
to `src/software/src/` unless they start with `src/`.

- [1. The system](#1-the-system)
- [2. Modules and how they correspond to the code](#2-modules-and-how-they-correspond-to-the-code)
- [3. What the runs check and show](#3-what-the-runs-check-and-show)
- [4. Fairness](#4-fairness)
- [5. Proofs](#5-proofs)
- [6. Behaviour the passing runs keep apart](#6-behaviour-the-passing-runs-keep-apart)
- [7. What is not modelled](#7-what-is-not-modelled)
- [8. Plan](#8-plan)

## 1. The system

One processor, no operating system. `do_grbl()` (`grbl/grbl.c:101-175`) calls
the handlers of all parts one after the other, for ever. Nothing in it blocks:
every wait of the original GRBL ("block until the planner has room", "wait for
the probe") became a state machine that is polled once a pass. One interrupt
matters, the stepper timer `TIMER1_COMPA_vect` (`grbl/stepper.c`). It strikes
between any two instructions of the main loop and cannot be interrupted by it.

| Component | State | Operations | Talks to |
|---|---|---|---|
| Real-time core (`system.c`, `system_exec.c`, `system_alarm.c`) | `sys.state`, `sys.suspend`, `sys.step_control`, `sys.spindle_stop_ovr`, the flag words `sys_rt_exec_*`, the state machine `grbl_system_sm` | execute alarm, flags and overrides; suspend, secure and restore the machine; start queued blocks | everybody sets flags; it calls planner, stepper and spindle |
| Stepper (`stepper.c`) | segment ring, block ring, `prep`, `pl_block`, `stepper_st` | `st_prep_buffer`, `st_wake_up`, `st_reset`, the interrupt | reads the planner, writes `sys_position`, sets `CYCLE_STOP` and, at a touch, `MOTION_CANCEL` |
| Planner (`planner.c`) | ring of blocks, planned pointer, speeds | queue a block, replan, discard, override, reset | fed by the motion commands, drained by the stepper |
| Line protocol (`grbl_protocol.c`) | `lineStateMachine`, the line received | real-time characters, lines, waiting for the planner | sets flags, calls the parser and the `$` commands |
| Motion commands (`motion_control.c`, `jog.c`) | the arc generator | line, arc, jog, stop | planner, core |
| Probing (`grbl_probe.c`) | `do_mc_probe_cycle`, `sys_probe_state` | probing cycle, monitor in the interrupt | planner, core, line protocol |
| Limits (`grbl_limits.c`), control pins (`system_control.c`), emergency stop (`stepper_enable.c`) | filtered pin words, edges, latched stop | poll, stop, alarm | core |
| Position records (`grbl_eeprom.c`) | three records that survive a reset | store word by word in the interrupt, restore at start-up | stepper, homing, EEPROM manager |
| Homing (`grbl_homing.c`) | its state machine | seek, locate, pull off, set the position | limits, stepper, position records |
| Spindle, coolant, external power, tool change, dwell | outputs, delays | switch, wait | core, line protocol |
| EEPROM manager and emulated EEPROM (`eeprom_manager/`, `eeprom/`) | write triggers, CRC, backup copies, flash pages | asynchronous writes, page switch, recovery | settings, positions |
| Settings, reports, G-code parser | values | formatting, parsing | host |
| Scheduler, timers, application, network, USB, bootloader | | call the tasks, move bytes | |

### What is hard

- **Flags.** The interrupt and the pollers set bits in `sys_rt_exec_state`; the
  core reads the word once a pass and clears bits by mask as it goes, so a bit
  set in between may be cleared unseen, or executed one pass late, after a
  state change it was not meant for.
- **Suspend bits.** A hold, a jog cancel, a motion cancel, an open door and a
  spindle stop overlap; what a stop means is decided from bits that any of them
  left behind.
- **Two lock-free rings.** A segment refers to a block entry that has no tail
  pointer; the interrupt recognises a new block by a changed index only.
- **A plan that changes while it is executed.** The generator works with the
  exit speed it read when it loaded the block.
- **Polled waits on each other.** The arc waits for the planner, the planner for
  a start, the host for the arc; probing waits for IDLE, `$X` for the line
  protocol, the line protocol for probing.
- **Resets at any instruction**: between two words of a position record, between
  two bytes of a saved variable and its CRC, between two flash operations of a
  page that is closed or packed.
- **A host that streams.** Lines arrive while earlier ones wait for the machine;
  the ring that holds them does not know when it is full, and a flag left behind
  by one line swallows the next.
- **Homing by polling.** The axis goes on stepping while a filter looks at its
  switch; a failure, an arrival and a stop clear the same flags.

### What makes it correct

Core: a hold that says it is complete is at rest; a moving hold comes to rest; a
door secures the machine; an alarm is left by `$X` only; commands, holds and
suspensions end. Stepper: no step is lost, repeated or made with another
block's data. Planner: the machine can always stop in time, no speed is given
away, acceleration is respected. Position records: a reset restores one
consistent position, at most one step off. Storage: a word once stored is
read back after any reset the format survives, one copy of a variable can always be
read, nothing requested is forgotten. Line protocol: every line is handled once, in
order, and answered with its own text, or when its report ends. Homing: zero is at the switch, and the host's answer
means that every axis was homed. Each of these is a property below;
the hazards they guard are listed with their lines in `PROJECT.json`.

## 2. Modules and how they correspond to the code

| Module | Models | Lines of code |
|---|---|---|
| `SystemControl` | the core, with the parts of the line protocol, arcs, jogs, probing, limits, pins, planner and stepper that drive it | `system.c`, `grbl.c`, parts of ten files |
| `SystemControl_proofs` | its types, that a prepared block is queued, and its other safety properties, each with the hypothesis it needs | |
| `SegmentBuffer` | `st_prep_buffer()` against the interrupt, statement by statement | `stepper.c` 446-578, 668-1203 |
| `StepStream` | what the segment buffer promises: a FIFO of segments | |
| `SegmentBuffer_proofs` | its invariant, and that it implements `StepStream` | |
| `Planner` | the ring of blocks, both passes, overrides and hold, and the profile that executes the plan | `planner.c`, `stepper.c` 791-1203 |
| `Planner_proofs` | what the two passes compute, and the four properties of the plan | |
| `NoInitPosition` | the position records across resets | `grbl_eeprom.c`, parts of `stepper.c`, `grbl_homing.c` |
| `NoInitPosition_proofs` | its invariant and one action property | |
| `MC_NoInitPosition` | the set of step vectors of the instance | |
| `FlashEeprom` | the emulated EEPROM: three pages, the pack, start-up | `eeprom/dee.c`, `dee_page.c`, `dee_page_helper.c`, `eeprom.c` |
| `DurableWords` | what it promises: words that survive resets | |
| `MC_FlashEeprom` | symmetry, constraint and `Merged` of the instance | |
| `FlashEeprom_proofs` | the shapes of its pages and what they say, its properties, and that it implements `DurableWords` | |
| `EepManager` | triggers, asynchronous writer, CRC and backup; who asks it to save | `eep_manager.c`, `c_eep_manager.c`, parts of `grbl_eeprom.c`, `settings.c`, `grbl.c` |
| `EepManager_proofs` | its invariant | |
| `LineProtocol` | characters, ring, line assembly, line states, answers at once and late, the host | `grbl_protocol.c` 73-596, `buffer/ringBuffer.c`, the reports of `grbl_report.c` |
| `CommandStream` | what it promises the host: lines handled in order, answers at once or late | |
| `MC_LineProtocol` | the lines of the instance | |
| `LineProtocol_proofs` | its types, that the ring keeps every character, and that its steps are those of `CommandStream` | |
| `Homing` | the homing cycle with limits, stop, step generator and interrupt | `grbl_homing.c`, `grbl_limits.c` 99-198, parts of six files |
| `Homing_proofs` | its invariant | |

The map in `PROJECT.json` names the lines of every definition.

### SystemControl

`phase` is the step of `do_grbl()` that comes next; each handler is one action
and hands over to the next in the code's order. `InterruptSegment` and
`InterruptEmpty` are enabled in every phase, and `st_prep_buffer()` takes one
action per segment, so the interrupt strikes between any two handlers and any
two segments. `rt` is the snapshot `rt_exec` of the flag word; `Clear` removes
the mask from the current word, as the code does. The inputs (`Commands`,
`Lines`, `Events`) are constants: a run chooses which characters, lines and pins
exist. The planner is a count of blocks, a block a count of segments, the
segment buffer a count; the geometry of moves, speeds and texts are left out. A
motion may have no steps, and then queues nothing (`QueueLine`). A deceleration
may come to rest in any block, with or without a last step (`PrepRest`).
`stepper_enable.c` counts samples before it acts on the stop button; that is one
nondeterministic choice once the pin was seen pressed. The FEED_HOLD and
CYCLE_START pins set the same flags as the characters and are not separate
inputs.

### SegmentBuffer and StepStream

`pc` is the statement of `st_prep_buffer()`. The head, the next head, the block
index, the copied block data and the discard are separate actions, in program
order; an interrupt is one action. `made` (per slot, the data and whether the
segment begins its block), `fresh` and `out` are history variables: what the
interrupt should use and what it did use. `Replan`, `BeginHold`, `EndHold` and
`Reset` are what the main loop does between two calls. The refinement maps the
slots between tail and head to a queue and the slot in execution to its rest;
`StreamSpec` says that every step is a stream step, a put, a cut or a stutter.

Assumption: the compiler keeps the stores of `st_prep_buffer()` in program
order. Only `segment_buffer_tail` is declared `volatile` (`stepper.c:129`), so for
the head this is an assumption about the build and not about the source. A segment has at least
one step outside a hold (`REQ_MM_INCREMENT_SCALAR` above 1).

### Planner

Speeds are squared in the code too, so integers lose nothing of the control: a
length counts as twice the acceleration times the millimetres, and over a length
d a squared speed changes by at most d. The reverse and the forward pass are
recursive functions over the distance from the newest and from the planned
block; `Optimal` is the set of places the forward pass moves
`block_buffer_planned` to. The override is either 100 % or 50 %, which quarters
a squared speed. `Profile`, `Cruise` and `Advance` are the profile of
`st_prep_buffer()`, one unit of length per step instead of one segment.

Two quirks of the code are in the model. An override in an empty planner walks
over stale slots and leaves the planned pointer anywhere
(`planner_recalculate` with head = tail); the next block puts it right, since
its maximum entry speed is zero. A block that is entered with what a
deceleration left (`PREP_FLAG_DECEL_OVERRIDE`) was planned from another speed,
so the junction behind a block in execution may be slower than necessary after
two quick overrides; `NoSpeedWasted` excludes that one junction.

`Spec` changes the override at any time. Two of the properties do not survive
that (section 6), and `CalmSpec` is `Spec` without exactly those changes: an
override finds one feed rate in the queue (`OneSpeedQueued`) and not the moment
between two blocks of a machine that still comes down to a lowered feed rate.

### NoInitPosition

The interrupt stores three copies of `sys_position`, word by word; every word
is an action, a reset may follow any of them. `machine` is where the motors
are, `before` the position before the step that is being stored.

### FlashEeprom, DurableWords and EepManager

Three layers. `FlashEeprom` appends elements to flash pages; a C function is
the list of flash operations it carries out (`nvm`), so that `Reset` may strike
between any two. What it decides it decides from the flash at the call; nothing
it leaves in RAM survives the reset. The callers read and write bytes:
`Write(a, b)` replaces byte `b` (a value and its place) of the word at `a`, and
`Merged`, a parameter, says what that makes of the word. While a pack is running the
same call is `Defer(a, b)`: the byte goes into a buffer in RAM, and it is dropped
silently once `EEPROM_WRITE_BUFFER` bytes were taken since the buffer was last empty
(no action, since nothing changes). `WriteDeferred` is `do_eeprom()`, which carries
out one such byte each millisecond after the pack. `Finds(a)` is what a read of address `a`
yields, and `DurableWords` the promise that layer makes: the refinement maps the
memory to `Finds`, the write in progress to `pending` and the buffer to itself. A
write that is carried out ends with its word stored, or in a reset; a deferred one is
promised no more than that it is carried out after those deferred before it, if no
reset comes first, and then overwrites whatever was written meanwhile; `DurableWords` counts the resets so that no other
step can give a write up. `EepManager` stands on
it: a byte it writes is there or not, never half. It has three of the seventeen
items of the table, one of each kind: without backup (settings), the backup of
another item, and with a backup of its own (coordinates). Values are numbered in
the order they were made, so that "older" can be said; the CRC is the value it
was computed of (collisions are left out).

Both formats do not survive everything. The events they do not survive set
`wounded` and `spoilt`, each named in its module's header and in section 6; the
properties speak of the time before.

### LineProtocol and CommandStream

One pass of `do_protocol_main_loop()` is one action: it reads at most one
character and takes at most one from the ring (`PassWithCharacter`,
`PassWithoutCharacter`). The states of the line machine are the code's. What the
machine does is left open: `machine` says what a line may have to wait for, and
any of it may begin with a line and end at any time. The host is external: it
streams lines and counts characters against the buffer size that the build
report prints (`grbl_report.c:1059`), may ask for the status or reset at any
time, and forgets its lines when the welcome message comes.

Not every line is answered by the main loop (`grbl_protocol.c:163`). `$D`, `$D0`,
`$D1` (and `$C...`, with `USE_P256_M`) only raise a flag, and `do_grbl_report()`
answers when the report has been printed, a second or more later for `$D0`, while the main
loop handles the next lines; `$W...` is never answered. `Asynchronous` and `Asked`
say which lines these are; `underway` holds the flags that are up, `owed` those whose
answer is still to come (`ReportProceeds`). A request that finds the flag up adds no
answer: not while the report is printed, and not between its answer and the turn
that takes the flag down. `init_grbl_report()` drops what is under way in a soft
reset (`DropReports`), except the flags of the `$C` lines, which it forgets.

`CommandStream` says it without characters, ring and line states: lines are handled
in order, each once (`handled`), and answered then or late. Besides `Text`,
what a line says, the refinement needs no mapping. It is about lines a host can
count on (`Proper`): they close their comments, hold no realtime command, fit the
line buffer and are no `$C` lines. The instance's lines are.

### Homing

`phase` is the step of `do_grbl()` that comes next, as in `SystemControl`; the
two state machines of `grbl_homing.c` are one disjunction each (`Homing`,
`Axis`). A motion is a number of segments of one step, the switch of an axis is
engaged at positions up to zero, and it may be good, stuck open or stuck closed.
`Prep` has the rule that matters: a block is loaded only when none is in
preparation, so the steps of an interrupted motion live on in `st`.
`Z_WAIT`, `Y_WAIT` and `X_WAIT` are one state, `WAIT`, with the axis at hand.

## 3. What the runs check and show

| Run | Instance | Question and answer |
|---|---|---|
| `position` | 2 axes, every step vector, positions -1..1, 2 resets | A restore never mixes two positions, is exact between two stores, and costs at most one step per axis if the records agreed when the interrupted store began. The records are of no use in two windows: between two axis words of record 2, and, in the first store after a reset that cut one short, from record 1 to the first word of record 2. Two resets reach the second one. |
| `hold` | 2 blocks, 1 segment, feed hold, resume, jog cancel, door | Holds that say they are complete are at rest, a prepared block is a queued one, an open door is secured, a motion never starts with old suspend bits. |
| `stops` | 1 block, 2 segments, emergency stop, hard limit, `$X`, soft reset, spindle stop, arcs of 2 lines, probing | A latched stop locks the machine, nothing moves in IDLE or ALARM, ALARM is left by `$X` only; a touch is never forgotten, every probing cycle ends, every arc that is started again and again is finished. |
| `suspend` | 1 block, 1 segment, door, feed hold, jog | Holds and jog cancels come to rest, a door that stays closed lets the machine go on. |
| `segment` | 3 segment slots (so 2 block entries), 2 blocks, 2 steps | The rings implement `StepStream`; block data is intact while needed; a new block is noticed. |
| `planner` | 3 queued blocks of lengths 1 and 3, corners 1 and 3, two feed rates, calm overrides (section 6), holds, resets | Every junction can be braked for, none is slower than necessary, speed never jumps. |
| `flash` | 3 pages of 3 elements, 2 words in use, buffer of 2, 1 reset | The pages implement `DurableWords`, bytes deferred during a pack included; there is always a current page; a pack that was triggered can run and leaves the pages it packed blank. |
| `eeprom` | variables of 2 bytes, 3 changes, 2 resets or power failures | One copy can always be read, nothing older than what was kept comes back, once quiet everything is saved, and every change is saved or reverted in the end. |
| `line` | ring of 6, line buffer of 4, seven kinds of line (two with a late answer, one with none), 3 lines, 1 reset | The protocol implements `CommandStream`; no character is overwritten, late and missing answers or not; no comment swallows a later line. |
| `homing` | 2 axes, 1 switch out of order, emergency stop, soft reset | Zero is set at rest just off a good switch, motions start with no step left of the one before, the answer means that all axes were homed, and homing ends. |
| `autostart` (violated) | 1 block | See below. |
| `homing_abort` (violated) | 2 axes, emergency stop | See below. |

`TypeOK` of `SystemControl`, `NoInitPosition`, `SegmentBuffer` and `EepManager` is
proved (section 5) and not run; the other modules run it.

Bounds. One or two blocks and segments reach every case of the core, whose
control distinguishes an empty, a partly filled and a full buffer, and a block
begun or not. Three slots are the smallest segment ring that works and make both
rings wrap after two segments; the proofs cover larger ones. Four slots in the
planner's ring hold three blocks: one in execution, one at and one behind the
planned pointer; the proofs cover longer queues. With lengths of 1 and 3 against
corner limits of 1 and 3, and feed rates that an override takes from 4 and 9 to 1
and 2, each of the bounds (corner, feed rate, braking, acceleration) decides some
junction. Two axes are enough for a torn record, two resets for a reset that
finds what another one left. Three elements per page reach every branch of a page:
empty, partly filled, at the trigger of the pack (the second element, where the code
has four fifths of the page), full, and a pack that starts late. The buffer of two
fills up, is drained and refuses a byte; its second place is used before the reset
and for the first word only, and what follows a fatal event is not explored (the
constraint of the cfg). A word of the instance is the one byte of it that is
written; the proofs have any `Merged`. One reset meets every flash operation of a write and
of the pack, but not a reset during the start-up that repairs an earlier one, which
needs a second and a longer run. Two bytes have one
position in the middle of a block and one at its end. A ring of six takes three
short lines or one that nearly fills it, and wraps in every run. In `homing` a
segment buffer of 2 against a filter of 2 samples lets the axis overrun its switch
while the main loop is late, SEEK and LOCATE are longer than the way, so that a
missing switch is missed, and one axis may fail while the other is good; the
numbers are otherwise the smallest that have each case.

Disagreements met while modelling, each a run that TLC finds violated:

- `autostart`, `system.c:157-160`: the automatic start is an edge (blocks appear
  in an empty planner). A block queued while the steppers run dry is there
  before the stop returns the state to IDLE, no edge follows and the machine
  waits in IDLE with queued blocks. `src/software/doc/TODO` reports the symptom.
- `homing_abort`, `system.c:513`: the emergency stop empties planner and stepper
  but does not tell the homing state machines. An axis that waits for the end of
  its motion waits for ever, `do_mc_homing_cycle` stays set, and the line protocol
  waits for it: neither `$X` nor `$H` can be read, only the soft reset helps.
  `grbl_homing.c:396` says that the abort command interrupts homing;
  `src/software/doc/TODO:257` reports a homing that could not be stopped.

Section 6 lists further disagreements, as observations without a run.

## 4. Fairness

`FairSpec` of `SystemControl`: `WF(MainLoop)`, since `do_grbl()` runs for ever and
no handler blocks; `WF(Interrupt)`, since the timer keeps firing while it is
enabled; `WF(DelayEnds)`, since timers count down; `SF(PrepRest)`, since the
velocity of a hold falls by a fixed amount per segment, so a deceleration that
is prepared again and again comes to rest in the end. Nothing is assumed of the
host or of the pins, except what a property states itself: `ClosedDoorResumes`
of a door that stays closed and a host that stops sending holds, `ProbingEnds`
of a stop button let go in the end, `ArcEndsIfStarted` of a machine not left in
IDLE with a full planner (the auto start loses starts, see above).

`EepManager`: weak fairness of the writer, which is called every millisecond, and
of the two requests of `do_grbl_eeprom()`, since a machine that rests stays at
rest long enough at some time; none of resets, changes and power failures.
`LineProtocol`: the main loop runs, a character that has arrived is read, a
requested soft reset is carried out, what a line started ends, and a report under
way goes on (`do_grbl_report()` has a turn every 50 ms); the host owes nothing. `Homing`: `WF(Pass)` and `WF(Interrupt)`, as in `SystemControl`; within a
pass the order of the handlers is fixed, so weak fairness of the pass is enough.
That the millisecond of the limit filter comes (`LimitsTick`) is not assumed:
`HomingEnds` holds without it, because a motion ends whether or not its switch is
seen. The other modules have safety properties only.

## 5. Proofs

All are checked by TLAPS, with no step left out, for every value of the
constants that satisfies the ASSUMEs of the modules.

- **`NoInitPosition_proofs`**: `TypeCorrect`, `IdleResets`, `NeverMixed`,
  `WindowOnly` and `ResetAccuracy`, for any number of axes, any moves, any number of
  resets. The properties are not inductive: what a restore yields in the middle
  of a store depends on which words are already new. `IInv` adds `Filled` (words
  behind the cursor hold the new position), `Untouched` (those before it hold
  what they held when the store began), `StepPending` (position and motors
  differ by the pending step bits) and `Whole` (only a reset that cut a store short
  can leave records that differ). `WindowOnly` assumes nothing of the resets before
  the one in question; it names both windows. `ResetAccuracy` is the action property,
  from the same invariant.
- **`SegmentBuffer_proofs`**: `TypeCorrect`, `BlockDataSafe` and
  `EveryNewBlockNoticed`, for any ring of more than two slots. The reason a block
  entry may be reused is counting: there is one block entry less than slots, the
  published segments and the one in preparation use consecutive block indices,
  and one slot is always free. `IInv` says so: `Chain` (neighbouring segments
  have the same or consecutive indices, and which depends on whether the second
  begins a block), `BlocksFit` (from the oldest segment in use to the
  preparation fewer block indices than entries are used), `Preparing` and
  `Executing` (where the two sides stand), `Indices`. `StreamImplemented` is the
  refinement `Spec => StreamSpec`, action by action: publishing the head is a put,
  an interrupt is a take or a step, a hold that ends a segment early is a cut, and
  every other statement of `st_prep_buffer()` is a stutter. It needs `RInv` on top:
  the slots between tail and head are pairwise different (so that the queue read
  off them is the one the abstract put and take work on), and an interrupt without
  a block has not begun a segment.
- **`Homing_proofs`**: `TypeCorrect`, `StartsFresh`, `ZeroIsRight` and
  `AnswerIsTrue`, for any number of axes, any filter, buffer, delay and lengths, and
  any combination of faults. While nothing disturbs the cycle a motion starts with
  an empty generator (`RestsBetween`), so all its steps are its own
  (`OneMotion`) and no other axis moves (`OthersHomed`). The filter is not to be
  trusted when a cycle begins: a soft reset loads it without samples, and an axis
  may have moved since the last one. So the first approach and the first pull-off
  prove nothing but that the pull-off ends with the switch unseen; from there on
  what is seen was sampled `FILTER` times during a motion in one direction, and is
  still so (`SwitchIsSeen`, `SwitchIsLeft`). The second pass of the code
  (`n_cycle`) is therefore not a matter of precision only.
- **`EepManager_proofs`**: `TypeCorrect`, `OneCopy`, `NeverOlder` and
  `NothingLost`, for variables of any size and any number of changes, resets and
  power failures. None is inductive alone. `IInv` follows the writer:
  `WriterShape` (which phase goes with which item), `WriterProgress` (the bytes
  behind the cursor are those of the value its CRC was computed of),
  `SettingsSafe` and `CoordSafe` (the copy that is not being written is good, and
  what is being copied is at least as new), `Formatting` (before the version byte
  is written, all is default) and the part that makes `NothingLost` go through:
  what a reset would not load is still pending, as a request or as a trigger.
- **`FlashEeprom_proofs`**: `TypeCorrect`, `PageInvariant`, `CurrentPageExists`,
  `PackFindsTwoPages`, `PackedPagesAreBlank` and the refinement `WordsSurvive`
  (`Spec => WordsAreDurable`), for any number of addresses, any
  page size and buffer, any words and bytes and any number of writes and resets,
  until one of the fatal events of section 6. A reset
  leaves the flash as it is and `init_dee` goes by the status words alone, so the
  invariant must say of every moment what a reset there would be taken for.
  `PageInv` lists the shapes: the first start; one page in use (`Filling`,
  `LastWrite`, `LateClose`, `Closed`); two (`Using`); a third one erased at start-up
  (`BootErase`); and the pack (`Copying`, `Activating`, `BothInUse`, `PreviousInUse`,
  `CopyInUse`, `Packed`). Each says which pages are in use, which one is found, how
  full they are and which flash operations are to come. Three facts carry it. A
  page is found by its number, not by its age, so a shape with two current pages
  must say which of them is higher. A closed page is full. And a write that comes
  when the second page is full too is the one write that takes a third page: it is
  an `Overrun` and fatal, so that in all other shapes a page is left to close onto.
  `StoresWord` is what a direct and a deferred write have in common, and `Steps`
  splits every step into those that store a word and those that touch the buffer only
  (`BufferOnly`), so that each shape meets a write once. `FitInv` (no page gets more
  elements than it holds) holds of every behaviour, `PageInv` until something fatal
  happened. `CutsShort` is where the attempt to prove it corrected the model: see
  section 6.

  The refinement needs what the pages say as well. `DataInv` follows the shapes:

  | Shapes | Say | Needed because |
  |---|---|---|
  | all that write a word | the word being programmed is the one the caller asked for (`Own`), or, in the pack, the one stored at its address | the CRC word is what makes an element count; only then may a read change, and only to that word |
  | `LastWrite`, `Closed` | the word is stored, though the function has the page still to close (`Held`) | the write takes effect before it returns, and a reset in between keeps it |
  | `Using`, `Copying` | the third page holds no address that is not stored in the two in use (`Known`) | what is left of a pack that was cut short must not come back when the next copy is activated |
  | `Copying` | every address below the cursor is copied as it is read (`CopiedBelow`) | callers go on between two steps of the pack |
  | `Activating`, `BothInUse` | every address is copied (`Complete`) | from the activation on, the copy is what is read |
  | `PreviousInUse`, `CopyInUse` | the older packed page says nothing of an address the copy does not have (`Superseded`) | until it is erased a read may still find it |

  What a read finds is then a matter of the shape: page and page before
  (`FoundShapeReads`), the next page (`ClosedReads`), the copy (`CopiedShapeReads`),
  nothing (`FreshReads`). So each flash operation either leaves every word as it is,
  is a `Commit`, or is the `End` of the write (`FlashDataStep`); a write begins
  (`WriteDataStep`); the pack changes no word (`PackDataStep`), and neither does a
  reset, whatever shape it strikes (`ResetDataStep`).
- **`SystemControl_proofs`**: `TypeCorrect` and `PreparedBlockIsQueued`, for any
  buffer sizes and any set of inputs. The two are inductive together: that
  neither buffer overflows and the block count does not become negative needs
  that a prepared block is queued, and that the generator is emptied whenever
  the planner is.

- **`Planner_proofs`**: `PlannerTypes` and `PlanIsOptimal` of every behaviour of
  `Spec`, `PlanStops` of those in which the override changes only while one feed
  rate is queued, `OneFeedRateStops` of every behaviour with one programmed feed
  rate, and `MachineFollows` of those of `CalmSpec`; for any ring of more than two
  slots and any feed rates, corner speeds and lengths.

  The passes of `planner_recalculate` are recursive functions, and what they compute
  is proved by induction over a set of places (`LeastNatural`, `UpTo`): the library
  offers well-founded induction on relations, which needs no operator as parameter.
  `Replan` is the plan they leave, as a ring. Two comparisons carry the rest. Let
  `G` be any speeds for the queued blocks. If `G` keeps the limits and can be braked
  from, the reverse pass is no slower than `G` and can be braked from itself, though
  it skips every block at its maximum (`ReverseBrakes`); if acceleration from the
  block in execution reaches `G` as well, the plan is no slower than `G`
  (`ReplanImproves`). So a step that makes the plan anew is safe as soon as there is
  one such `G`, and finding it is the proof of each action: the plan before, the
  plan before with the feed rate as a ceiling, or the plan before with a stop at the
  new block.

  | Invariant | Says | Needed because |
  |---|---|---|
  | `TypeInv` | the planned pointer is in the queue, or the queue is empty | after an override in an empty planner the pointer is anywhere (section 2) |
  | `TightInv` | no speed is wasted, and the block at the planned pointer is entered as fast as its limit and the blocks before it allow | `NoSpeedWasted` alone does not say that it is sound to plan from the pointer on only |
  | `StopsInv` | `PlanStopsInTime`, with maximum entry speeds within the corner limits | an override computes the maximum speeds anew from the corner limits |
  | `SpeedInv` | the profile in execution against the plan: exit speed of the machine and entry of the next block, distance left, the speed a block is loaded with | a replan changes the plan under a block whose profile was made for the old one |

  The last part of `SpeedInv`, `BrakeInv`, is why `MachineFollows` is much the longest
  proof. After an override that lowers the feed rate under a moving machine the plan
  asks for less than the machine can do: it is too fast for its own plan until it has
  come down. `BrakeInv` therefore says that there are *some* speeds along which the
  machine can brake from where it is to the end of the queue, those of a plan before;
  the next plan made from there is at least as fast as they are, by `ReplanImproves`,
  and the machine meets it without a jump.

- **`SystemControl_proofs`**, second part: the other safety properties. None
  of them holds of every behaviour (section 6), so each theorem has one hypothesis
  about the behaviour, the disturbance that breaks it and nothing else, and a
  corollary names inputs that never cause it. The runs `hold`, `stops` and `suspend`
  are instances of these inputs.

  | Theorem | States | Hypothesis | Corollary |
  |---|---|---|---|
  | `HoldRests`, `DoorSecures`, `MotionsStartClean` | `HoldIsAtRest`, `OpenDoorIsSecured`, `MotionStartsClean` | no alarm and no soft reset, `[]Undisturbed` | `QuietInputsDoNotDisturb`: door, holds, jogs, motions and arcs are such inputs |
  | `StopLocks`, `AlarmStays` | `EmergencyStopLocks`, `AlarmIsKilledByUnlockOnly` | the safety door is never reported, `[]DoorUnused` | `NoDoorStopLocks`: without door inputs, whatever else happens |
  | `MotionIsStated` | `MotionHasAState` | no jog is executed while an alarm is raised, `NoJogBehindAlarm` | `NoJogMotionIsStated`: without `$J`, whatever else happens |
  | `TouchStays` | `TouchCancelsMotion` | neither hold nor door is asked for, `[]NoHoldAsked` | |

  Each has its own invariant, and what makes it inductive is mostly the snapshot
  `rt_exec`: which of its bits is still set in the word when a handler executes it
  (`SnapshotHolds`, `CancelIsRead`, `PassReads`, `ProbePass`). `HoldInv` adds what
  IDLE, a completed hold and the door procedure leave set, `LockInv` keeps the door
  out of play, `MotionInv` says in which states the stepper may still be moving
  and in which a stop can be pending, `TouchInv` which handlers may run while a
  probe moves.

- **`LineProtocol_proofs`**: `LineTypes` of every set of lines (inductive as it
  stands), `RingKeepsAll` and `AnswersInOrder` of every set of `Proper` lines, for any
  size of the ring and of the line buffer and any number of lines and resets.
  `AnswersInOrder` is the part of `CommandSpec` without its fairness: the
  initial states are those of `CommandStream`, and every step is one of its steps or
  leaves its variables alone.

  The invariant is `LineInv`, with six parts besides the types.

  | Part | Says | Needed because |
  |---|---|---|
  | `Counted` | what is sent and not handled is no more than the host believes the ring to hold | it is the host's promise, and all there is against an overflow |
  | `Owing` | there are no more answers, those owed by reports included, than lines handled | the host counts answers, which late and missing ones make too few, never too many: it believes more outstanding than is |
  | `Synchronous` | a line that waits for what it started is one that is answered | only `JogWaitForProcessed` leaves the answer to others |
  | `Room` | between two passes the ring can take a character and not look empty | full and empty look the same; and the host counts one character more than fits |
  | `InOrder` | what the ring and the wire hold is the rest of the line at hand, from some place on, and the lines behind it; the text, the flags and the command are those of the characters before that place | the refinement needs the text of an answer, which no variable remembers |
  | `ResetLast` | nothing is sent behind a soft reset before it is read | the reset forgets the lines and empties the ring, but not what is still on the wire |

  `Room` is where the counting is close. The host may have as many characters
  outstanding as the ring is long, one more than it can hold. While a line is
  assembled every pass takes a character as well as adding one; while one is held
  the ring has only the lines behind it, and the line held has an end of line and
  at least one more character, which leaves the place. Ring and wire are read as one
  sequence (`Pending`), which a pass takes from in front and the host appends to;
  `ContentsAdd` and `ContentsTake` are the two facts about the ring itself. The lines
  not handled are joined by `FlattenSeq`, a fold; what it does on an appended and on
  a removed line is proved by induction over a set of places, as in the planner.

Only model-checked: everything temporal under fairness, which is out of reach of
the prover, and with it the part of `CommandSpec` that an answer comes.

## 6. Behaviour the passing runs keep apart

**Core.** Some properties of `SystemControl` fail when certain inputs come
together. The passing runs leave out exactly these combinations; each was
reproduced with TLC by adding the inputs named to an instance of one block.

- `HoldIsAtRest` with feed hold, emergency stop, `$X` and motions: an emergency
  stop in a completed hold leaves `HOLD_COMPLETE` in `sys.suspend`, `$X` only
  sets IDLE (`system.c:528-541`), and the next motion runs with the hold marked
  complete. A soft reset does the same: a feed hold executed in the pass after it,
  before `sm_init` runs, sets the bit that `sm_init` does not clear.
- `OpenDoorIsSecured` and `EmergencyStopLocks` with the door, the emergency stop,
  `$X` and motions: stale bits as above, and an ALARM that the stop turns into
  SAFETY_DOOR (below).
- `MotionHasAState` with jogs and the emergency stop: a `$J` executed between
  `EXEC_ABORT` and the pass that sets ALARM starts the steppers
  (`jog.c:44`), and the jog runs in ALARM.
- `TouchCancelsMotion` with feed hold: a touch flagged after the snapshot of the
  pass that executes the hold is cleared with it (`system.c:408`).
- `AlarmIsKilledByUnlockOnly` with the door and a limit: the stop that follows the
  alarm puts the state to SAFETY_DOOR without looking for ALARM (`system.c:500`),
  and the door procedure leaves it for IDLE without `$X`, against
  `system.c:93-94`.
- `ProbingEnds` with the emergency stop or a limit and without a soft reset:
  probing waits for IDLE, `$X` cannot be received before probing has ended
  (`grbl_probe.c:234`).
- A door closed with the spindle on: `EXEC_CYCLE_START` is set together with the
  spin-up delay (`system.c:723`), and the next pass executes it whatever the
  delay, against `system.c:692` ("delay to power-up, then resume cycle").
- Arcs: without further starts an arc that fills a planner left in IDLE blocks
  the host for ever (the lost auto start), hence the premise of
  `ArcEndsIfStarted`. An arc also goes on queueing blocks behind an alarm, against
  `grbl_limits.c:174-176`; if it fills the planner in ALARM, `$X` is not read.
- A door closed for less than a poll is taken for closed (`system.c:679` reads
  the pin, `system_control.c` polls its edge): the cycle then starts behind an
  open door. `OpenDoorIsSecured` therefore speaks of a door still marked ajar.

**Planner.** Two overrides are not calm. Both were reproduced with TLC by checking
`Spec` instead of `CalmSpec`.

- `PlanStopsInTime` when the override changes with two feed rates in the queue: the
  reverse pass skips a block whose entry is at its maximum (`planner.c:175`). When an
  override lowers its exit but not its own (corner-limited) maximum, it stays faster
  than it can brake, against `planner.c:87-88`; the generator then drops the speed at
  the end of the block at once. With one feed rate all maxima move together and the
  case does not arise. (`Nominals = {4, 16}`, `Junctions = {3}`, `Lengths = {1, 3}`, a
  ring of 4.)
- `AccelerationRespected` when the feed rate was lowered under a moving block, the
  machine reaches the end of the block still faster than the plan
  (`PREP_FLAG_DECEL_OVERRIDE`), and the override is raised again before the next
  block is loaded: `plan_cycle_reinitialize()` then plans from the low entry speed
  that the lowered plan left in the block at the tail, although the machine is about
  to enter it faster (`stepper.c` corrects that speed only when it loads the block),
  so the next junction may ask for more braking than the block has room for.
  (`Nominals = {7}`, `Junctions = {2, 5}`, `Lengths = {1, 2, 5}`, a ring of 4.) The
  attempt to prove `MachineFollows` of `Spec` brought it to light; smaller instances
  do not show it.

**Position.** A reset between two axis words of record 2 leaves three different
records, and the restore falls back to the position last saved in the EEPROM,
any number of steps away (`grbl_eeprom.c:272`), against `src/README.md:25`.
There is a second window, which takes two resets: a reset inside record 3 leaves
records that differ, start-up does not rewrite them, and if the next store is cut
short anywhere from record 1 to the first word of record 2 no two neighbouring
records agree either. `FallbackWindow` names these two windows and says, whatever
resets came before, that there is no third. `SettledResetsKeepPosition` is about a
reset outside the first window, of a store that began with records that agreed; of a
reset that cuts short a store begun with records that differ only `FallbackWindow` speaks.

**Emulated EEPROM.** Set `wounded`, by a reset (`CutsShort`):

- between the two status words of `Dee_CloseCurrentPage`: no page is current, and
  start-up does nothing about it;
- inside an erasure that leaves no erase counter: the page looks worn out and is
  never used again;
- between the two erasures of a pack that filled its page to the last element: no
  page is current;
- between the two erasures of a pack whose older page is still current, which a
  reset during an earlier pack can leave behind: `GetActiveCurrentPage` takes the
  highest-numbered current page, so that the older page may be found in the place
  of the copy, and the stale words in it;

The last one came to light when the inductive invariant of the pages was looked
for; it takes two resets.

Besides, `wounded` is set by a pack that meets a torn element and gives up, by
a write refused because a torn element was met since start-up, and by an overrun
(`Overrun`): a write that comes when both active pages are full. `DataEEWrite` then
activates the third page (`dee.c:534`), the pack gives up silently with three active
pages, and since a read looks at two pages only, the words that are on the oldest one
alone are lost. Nothing in `dee.c` prevents it. The pack is triggered at four fifths
of the second page and has its first step within a millisecond, but the format
(`eep_manager.c:221-240`) writes every variable without a turn of `do_dee()`, and
`init_dee()` does not trigger a pack for two active pages: a reset after the trigger
leaves it to the next write to trigger again, and when the page is full by then that
write is the overrun itself. So it is after a reset with a packed page still active
and a copy that nearly fills its page. Neither the run nor the proofs bound the writes
or the resets: they say that nothing else goes wrong before the overrun.

A byte written during a pack is not durable, although its writer is told nothing:
`write_eeprom_char()` puts it into the buffer (`eeprom.c:73-80`). It is not read
until `do_eeprom()` has stored it, it is lost in a reset, it is dropped when 128 bytes
were taken since the buffer was last empty, and it undoes a byte written directly to
the same address between the end of the pack and its turn. `do_eep_manager()` waits
for the pack (`eep_manager.c:85`); SETEEPROM does not (`grbl_eeprom.c:320`) and is
answered `ok`, so that the host may read back the old byte.

**EEPROM manager.** Set `spoilt`: a variable that changes while its block is
being written gets the CRC computed at the start; a power failure while a backup
is written leaves it torn, which start-up does not repair, so that a second
failure, in the block, loses both. Not excluded, but worth knowing: a `$x=`
followed by a soft reset within 1000 ms is reverted, and `settings_init()`
(`grbl.c:124`) copies the stored settings before `init_grbl_eeprom()`
(`grbl.c:130`) puts the backup in the place of a broken master, so that the
machine works with default settings although `grbl_eeprom.c:69-75` loads the
backup. The variable `settings` has this; no property is about it.

**Line protocol.** Which answer belongs to which line a host cannot tell from their
order alone: the answer of a `$D` line comes after those of later lines, one for all
requests made while its report is under way, none for a request made in the 50 ms
between that answer and the end of the report, and a `$W` line is never answered,
although `grbl_report.c:739` says "For every incoming line, this method responds with
an 'ok'". The model has all of this, and `CommandStream` says it. A host that counts
characters then believes more outstanding than is, for ever after a `$W` line; it never
overruns the ring (`NothingOverwritten`), but it may stop sending. The lines `$C...`
(`USE_P256_M`) are excluded: `init_grbl_report()` does not clear the flags of their
reports (`grbl_report.c:147`), so that an answer can come after the welcome message,
and the host then believes less outstanding than is.

The lines of the instance close their parentheses and fit the line buffer. A parenthesis that is never closed swallows all lines behind it,
without an answer, though `grbl_protocol.c:475` says "until ')' or EOL". A line of
exactly 128 characters is executed without its last (`402-405`); one character
more sets the overflow flag, which nothing clears: from then on nothing is
answered until a soft reset. BOOTLOADER, RESET1701 and DUMPEEPROM are answered
otherwise than by `ok`, and a host that ends its lines with CR LF gets two answers.

**Homing.** `undisturbed` ends with the emergency stop, the soft reset and a
failed axis.

- After a failed approach or pull-off (`grbl_homing.c:273-289`) the generator
  still holds the block (`pl_block`): the next axis' motion goes on with the failed
  axis' steps, for a length that nothing defines (`GoHome1` has the choice). When
  the last axis fails, the next motion of the operator starts from that block.
- A failed homing looks like a successful one: the next axes are homed, and
  `grbl_protocol.c:175-176` answers `ok` and sets IDLE over the ALARM.
- The first stop of a motion sets IDLE during the cycle (`system.c:503-506`), so
  the axis lock no longer applies and `mc_stop()` raises an alarm in every
  homing (`src/software/doc/TODO:253` asks not to send these).
- One switch that opens in the sample in which another one closes hides it:
  `grbl_limits.c:182-184` compares the words as numbers.
- Left out, because the step data is undefined after them: `~` in the IDLE of a
  homing clears the system motion, so that `mc_stop()` no longer stops the axis at
  its switch; `!` leaves the block with reversed direction; the safety door ends the
  cycle of the axis but not its motion.

## 7. What is not modelled

- In `SystemControl`: check mode, dwell, tool change, coolant, laser mode, soft
  limits, the external-power alarm, sleep. Homing is in its own module.
- Floating-point arithmetic: junction geometry, Bresenham and AMASS, segment
  times. `Planner` keeps the inequalities the plan is about.
- G-code parser, settings, reports: long functions on text and numbers without
  concurrency; what they store and which lines they make wait is modelled.
- In `FlashEeprom`: the cache of the last word read (so also that `DataEEWrite`
  compares a word never written with 0, `dee.c:523-529`, which the byte interface does
  not reach: it reads such a word as all ones), errors reported by the flash
  controller, a word half programmed, the expiry of a page after 1000 erasures, the
  mass erasure at the first start.
- In `EepManager`: 14 items like those modelled, the update from an older
  version, CRC collisions, the pause of the writer during a pack.
- In `LineProtocol`: the service commands, upper case, the error reports of the
  parser (every answer is the text of its line).
- External power, the sample counters of the emergency stop, tool change,
  scheduler and timers, connection multiplexer, bootloader hand-over: small, in
  the plan or without a property worth stating.
- Vendored and generated code: network stack, USB, FAT file systems, cryptography,
  MQTT, device headers and peripheral drivers, and three bootloaders that carry
  their own copies of them. It is by far the larger part of the repository: the
  control software (`grbl/`, `eeprom/`, `eeprom_manager/`, `buffer/`) is some 14 000
  of its 370 000 lines of C and headers, most of them tables, reports and parsing.
  The models cover the part of it in which things happen concurrently or can be
  interrupted; a share of the whole repository that is not small cannot be
  reached by modelling this program's own logic.

## 8. Plan

Done, in this order: `NoInitPosition`, `SystemControl`, `SegmentBuffer` with
`StepStream`, `Planner`, `FlashEeprom` with `DurableWords`, `EepManager`,
`LineProtocol` with `CommandStream`, `Homing`; the proofs of section 5.

Next, in this order:

1. `SafetyInputs`: the sample counters of `stepper_enable.c` and
   `system_external_power.c` and the poll of `system_control.c` against the level
   they stand for; a soft reset unlatches the stop until the fourth sample, where
   the comment (`stepper_enable.c:66`) says three.
2. The soft reset in motion in `NoInitPosition`; the override arithmetic with its
   width; Bresenham against the ideal line.
3. Dwell and tool change as waits of the line state machine; hold, cycle start
   and door in `Homing`.
4. `MotionProtocol`: what the core promises the host (idle, moving, holding,
   held, locked), refined by `SystemControl`.
