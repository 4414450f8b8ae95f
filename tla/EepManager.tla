----------------------------- MODULE EepManager -----------------------------
(***************************************************************************)
(* The EEPROM manager (eeprom_manager/eep_manager.c) and the two modules   *)
(* that ask it to save: grbl/grbl_eeprom.c and grbl/settings.c.            *)
(*                                                                         *)
(* Every item of the table is a variable in RAM and a block in the EEPROM, *)
(* its bytes followed by a CRC.  A triggered item is written one byte per  *)
(* millisecond, so that the variable may change, the machine be reset by   *)
(* the operator or the power fail between any two bytes.  The settings are *)
(* two items, the second a backup copied from the first; the coordinate    *)
(* data, like every other item, has its backup in its own block.           *)
(*                                                                         *)
(* A value is the number of the change that made it, and each of its bytes *)
(* differs from the same byte of any other value; the CRC is the value it  *)
(* was computed of.  A written byte is whole or not there: that is what    *)
(* FlashEeprom!WordsAreDurable says of the layer below.                    *)
(*                                                                         *)
(* `spoilt' marks what the format does not survive: a variable that        *)
(* changes while its block is being written, under a CRC computed before,  *)
(* and a power failure while a backup is written, which start-up does not  *)
(* repair.  The properties speak of the time before.                       *)
(*                                                                         *)
(* Not modelled: the 14 other items, items without a variable, the update  *)
(* from an older EEPROM_VERSION, CRC collisions, and the pause of the      *)
(* writer while the flash is packed, a delay.                              *)
(***************************************************************************)
EXTENDS Integers, FiniteSets

CONSTANTS
    SIZE,           \* bytes of a variable
    MaxChanges,     \* bound: changes of a variable
    MaxResets       \* bound: soft resets and power failures

ASSUME SizeAssumption  == SIZE \in Nat \ {0}
ASSUME BoundAssumption == MaxChanges \in Nat /\ MaxResets \in Nat

Items  == { "Settings", "Backup", "Coord" }      \* in the order of the table
Copies == Items \cup { "Coord2" }
Saved  == { "Settings", "Coord" }                \* what the operator changes
Byte   == 0 .. SIZE - 1
Blank   == -1                                    \* an erased EEPROM byte
Default == 0
Value  == 0 .. MaxChanges
NoItem == "none"

VARIABLES
    ram,            \* eep_settings, eep_settings_backup, eep_coord_data
    settings,       \* settings: the ones the machine works with
    eep,            \* the blocks in the EEPROM
    formatted,      \* version and table signature in the EEPROM are good
    triggers,       \* eep_manager_write_trigger
    writer,         \* static variables of eepManagerWriteVar_Asynch
    writeAll,       \* grbl_eeprom_triggerWriteAll
    writeSettings,  \* grbl_eeprom_triggerWriteSettings
    changes,        \* number of changes so far
    resets,         \* number of resets so far
    kept,           \* history: newest value written to block and backup
    spoilt          \* history: something the format does not survive

requests == << triggers, writeAll, writeSettings >>
vars == << ram, settings, eep, formatted, requests, writer, changes, resets, kept, spoilt >>

Block  == [data : [Byte -> Value \cup {Blank}], crc : Value \cup {Blank}]
Phases == { "idle", "data", "crc", "data2", "crc2" }     \* 0, 3, 4, 45, 46
Idle   == [item |-> NoItem, phase |-> "idle", i |-> 0, crc |-> Default]

-----------------------------------------------------------------------------
(* Reading: eepManagerReadVar, eepManagerReadVarBackup.                    *)

Valid(c) == /\ eep[c].crc # Blank
            /\ \A b \in Byte : eep[c].data[b] = eep[c].crc

ReadVar(item) ==
    CASE Valid(item) -> eep[item].crc
      [] ~Valid(item) /\ item = "Coord" /\ Valid("Coord2") -> eep["Coord2"].crc
      [] OTHER -> Default

\* Mutant of LoadSettings: the backup of the settings is never looked at.
LoadMasterOnly == ReadVar("Settings")

\* init_grbl_eeprom: a master that could not be read is taken from its backup.
LoadSettings == IF Valid("Settings") THEN ReadVar("Settings") ELSE ReadVar("Backup")

\* What a reset would load.
Loaded(item) == IF item = "Settings" THEN LoadSettings ELSE ReadVar(item)

ReadAll == [item \in Items |-> Loaded(item)]

-----------------------------------------------------------------------------
Init ==
    /\ ram = [item \in Items |-> Default] /\ settings = Default
    /\ eep = [c \in Copies |-> [data |-> [b \in Byte |-> Blank], crc |-> Blank]]
    /\ formatted = FALSE
    /\ triggers = Items                 \* eepManagerEmpty: all of them, blocking
    /\ writer = Idle
    /\ writeAll = FALSE /\ writeSettings = FALSE
    /\ changes = 0 /\ resets = 0
    /\ kept = [item \in Saved |-> Default] /\ spoilt = FALSE

\* A variable leaves the value whose CRC the writer already computed.
Overtaken(r) == writer.item \in Items /\ r[writer.item] # writer.crc

-----------------------------------------------------------------------------
(* The operator and the g-code parser change variables.                    *)

\* $x=: settings_store_global_setting and write_global_settings.
SetSetting ==
    /\ formatted /\ changes < MaxChanges
    /\ changes' = changes + 1
    /\ settings' = changes'
    /\ ram' = [ram EXCEPT !["Settings"] = changes']
    /\ writeSettings' = TRUE
    /\ spoilt' = (spoilt \/ Overtaken(ram'))
    /\ UNCHANGED << eep, formatted, triggers, writer, writeAll, resets, kept >>

\* G10, G28.1, G30.1: settings_write_coord_data.
SetCoord ==
    /\ formatted /\ changes < MaxChanges
    /\ changes' = changes + 1
    /\ ram' = [ram EXCEPT !["Coord"] = changes']
    /\ writeAll' = TRUE
    /\ spoilt' = (spoilt \/ Overtaken(ram'))
    /\ UNCHANGED << settings, eep, formatted, triggers, writer, writeSettings, resets, kept >>

(* do_grbl_eeprom: the requests become triggers once the machine has been  *)
(* at rest for long enough, 100 ms and 1000 ms.                            *)

\* Mutant of SaveAll: the last item of the table is not triggered.
SaveAllButLast ==
    /\ formatted /\ writeAll
    /\ writeAll' = FALSE
    /\ triggers' = triggers \cup (Items \ {"Coord"})
    /\ UNCHANGED << ram, settings, eep, formatted, writer, writeSettings, changes, resets, kept, spoilt >>

SaveAll ==
    /\ formatted /\ writeAll
    /\ writeAll' = FALSE
    /\ triggers' = Items
    /\ UNCHANGED << ram, settings, eep, formatted, writer, writeSettings, changes, resets, kept, spoilt >>

SettingsItems == { "Settings", "Backup" }
SaveSettings ==
    /\ formatted /\ writeSettings
    /\ writeSettings' = FALSE
    /\ ram' = [ram EXCEPT !["Backup"] = ram["Settings"]]
    /\ triggers' = triggers \cup SettingsItems
    /\ spoilt' = (spoilt \/ Overtaken(ram'))
    /\ UNCHANGED << settings, eep, formatted, writer, writeAll, changes, resets, kept >>

-----------------------------------------------------------------------------
(* do_eep_manager and eepManagerWriteVar_Asynch, one call per millisecond. *)

\* The lowest item in the table that is triggered.
NextItem ==
    CASE "Settings" \in triggers -> "Settings"
      [] "Settings" \notin triggers /\ "Backup" \in triggers -> "Backup"
      [] OTHER -> "Coord"

\* Mutant of WriteStart: the search of a triggered item stops before the last one.
WriteStartSkipsLast ==
    /\ writer.phase = "idle" /\ triggers # {} /\ (formatted => triggers # {"Coord"})
    /\ writer' = [item |-> NextItem, phase |-> "data", i |-> 0, crc |-> ram[NextItem]]
    /\ UNCHANGED << ram, settings, eep, formatted, requests, changes, resets, kept, spoilt >>

WriteStart ==
    /\ writer.phase = "idle" /\ triggers # {}
    /\ writer' = [item |-> NextItem, phase |-> "data", i |-> 0, crc |-> ram[NextItem]]
    /\ UNCHANGED << ram, settings, eep, formatted, requests, changes, resets, kept, spoilt >>

WriteByte(phase, c, next) ==
    /\ writer.phase = phase
    /\ eep' = [eep EXCEPT ![c].data[writer.i] = ram[writer.item]]
    /\ writer' = [writer EXCEPT !.i = @ + 1,
                                !.phase = IF writer.i + 1 >= SIZE THEN next ELSE @]
    /\ UNCHANGED << ram, settings, formatted, requests, changes, resets, kept, spoilt >>

WriteCrc(c) == eep' = [eep EXCEPT ![c].crc = writer.crc]

\* Mutant of BeginBackup: the CRC of the block is left to the end.
BeginBackupWithoutCrc ==
    /\ writer.phase = "crc" /\ writer.item = "Coord"
    /\ writer' = [writer EXCEPT !.i = 0, !.phase = "data2"]
    /\ UNCHANGED << ram, settings, eep, formatted, requests, changes, resets, kept, spoilt >>

\* After the CRC of a block with a backup the same bytes are written again.
BeginBackup ==
    /\ writer.phase = "crc" /\ writer.item = "Coord"
    /\ WriteCrc("Coord")
    /\ writer' = [writer EXCEPT !.i = 0, !.phase = "data2"]
    /\ UNCHANGED << ram, settings, formatted, requests, changes, resets, kept, spoilt >>

Finish(c) ==
    /\ WriteCrc(c)
    /\ writer' = Idle
    /\ triggers' = triggers \ {writer.item}
    /\ kept' = CASE c = "Backup" -> [kept EXCEPT !["Settings"] = writer.crc]
                 [] c = "Coord2" -> [kept EXCEPT !["Coord"] = writer.crc]
                 [] OTHER -> kept
    /\ UNCHANGED << ram, settings, formatted, writeAll, writeSettings, changes, resets, spoilt >>

WriterStep ==
    \/ WriteStart
    \/ WriteByte("data", writer.item, "crc")
    \/ BeginBackup
    \/ WriteByte("data2", "Coord2", "crc2")
    \/ writer.phase = "crc" /\ writer.item # "Coord" /\ Finish(writer.item)
    \/ writer.phase = "crc2" /\ Finish("Coord2")

\* eepManagerEmpty has written every block and now the version and signature.
FormatEnd ==
    /\ ~formatted /\ triggers = {} /\ writer.phase = "idle"
    /\ formatted' = TRUE
    /\ UNCHANGED << ram, settings, eep, requests, writer, changes, resets, kept, spoilt >>

-----------------------------------------------------------------------------
(* do_grbl: ReadAll, then settings_init, then init_grbl_eeprom.            *)

SoftReset ==
    /\ formatted /\ resets < MaxResets
    /\ resets' = resets + 1
    /\ ram' = ReadAll
    /\ settings' = ReadVar("Settings")
    /\ writeAll' = FALSE /\ writeSettings' = FALSE
    /\ spoilt' = (spoilt \/ Overtaken(ram'))
    /\ UNCHANGED << eep, formatted, triggers, writer, changes, kept >>

WritingBackup == writer.item = "Backup" \/ writer.phase \in { "data2", "crc2" }

\* The power fails and returns: init_eep_manager, then as above.
PowerFails ==
    /\ resets < MaxResets
    /\ resets' = resets + 1
    /\ ram' = IF formatted THEN ReadAll ELSE [item \in Items |-> Default]
    /\ settings' = IF formatted THEN ReadVar("Settings") ELSE Default
    /\ triggers' = IF formatted THEN {} ELSE Items
    /\ writer' = Idle
    /\ writeAll' = FALSE /\ writeSettings' = FALSE
    /\ spoilt' = (spoilt \/ (formatted /\ WritingBackup))
    /\ UNCHANGED << eep, formatted, changes, kept >>

Next ==
    \/ SetSetting \/ SetCoord
    \/ SaveAll \/ SaveSettings
    \/ WriterStep \/ FormatEnd
    \/ SoftReset \/ PowerFails

\* The main loop keeps calling the manager and the machine comes to rest.
Fairness == WF_vars(WriterStep \/ FormatEnd) /\ WF_vars(SaveAll) /\ WF_vars(SaveSettings)

Spec == Init /\ [][Next]_vars /\ Fairness

-----------------------------------------------------------------------------
\* The types of the variables, their blocks and the writer's static state.
TypeOK ==
    /\ ram \in [Items -> Value] /\ settings \in Value
    /\ eep \in [Copies -> Block]
    /\ triggers \in SUBSET Items
    /\ writer \in [item : Items \cup {NoItem}, phase : Phases, i : 0 .. SIZE, crc : Value]
    /\ formatted \in BOOLEAN /\ writeAll \in BOOLEAN /\ writeSettings \in BOOLEAN /\ spoilt \in BOOLEAN
    /\ changes \in 0 .. MaxChanges /\ resets \in 0 .. MaxResets
    /\ kept \in [Saved -> Value]

Intact == formatted /\ ~spoilt

\* Whatever byte of whatever block is the last one written before the power
\* fails, one copy of the settings and one of the coordinates can be read: no
\* variable falls back to its default.
OneCopyIntact ==
    Intact => /\ Valid("Settings") \/ Valid("Backup")
              /\ Valid("Coord") \/ Valid("Coord2")

\* A reset never brings back a value older than the newest one that was
\* written to both the block and its backup.
NeverOlderThanKept == Intact => \A item \in Saved : Loaded(item) >= kept[item]

Quiet == ~writeAll /\ ~writeSettings /\ triggers = {}

\* Once nothing is pending in do_grbl_eeprom and do_eep_manager a reset loads
\* exactly what RAM holds: no request is lost among the two triggers, the
\* resets that drop requests and those that keep them.
QuietIsSaved == Intact /\ Quiet => \A item \in Saved : Loaded(item) = ram[item]

\* A changed variable is saved in the end, or reverted by a reset.
EventuallySaved ==
    \A item \in Saved : ram[item] # Loaded(item) ~> (ram[item] = Loaded(item) \/ spoilt)

=============================================================================
