-------------------------- MODULE EepManager_proofs -------------------------
(***************************************************************************)
(* Proofs about EepManager for every size of a variable and every number   *)
(* of changes and resets.  The inductive invariant follows the writer: the *)
(* bytes behind it are those of the value its CRC was computed of, the     *)
(* copy it is not writing is good, what a reset would not load is still    *)
(* pending, and values are numbered in the order they were made.           *)
(***************************************************************************)
EXTENDS EepManager, TLAPS

\* The writer's state says which block it is in, and how far.
WriterShape ==
    /\ writer.phase = "idle" <=> writer.item = NoItem
    /\ writer.phase \in {"data2", "crc2"} => writer.item = "Coord"
    /\ writer.phase \in {"data", "data2"} => writer.i < SIZE
    /\ writer.item # NoItem => writer.item \in triggers

Written(c) == \A b \in Byte : eep[c].data[b] = writer.crc

\* Until the format is spoilt the writer's variable keeps its CRC, and the
\* bytes written so far are those of that value.
WriterProgress ==
    ~spoilt =>
        /\ writer.item # NoItem => ram[writer.item] = writer.crc
        /\ writer.phase = "data" =>
             \A b \in Byte : b < writer.i => eep[writer.item].data[b] = writer.crc
        /\ writer.phase = "crc" => Written(writer.item)
        /\ writer.phase \in {"data2", "crc2"} => Valid("Coord") /\ eep["Coord"].crc = writer.crc
        /\ writer.phase = "data2" =>
             \A b \in Byte : b < writer.i => eep["Coord2"].data[b] = writer.crc
        /\ writer.phase = "crc2" => Written("Coord2")

\* Before the version is written: what is no longer triggered holds defaults.
Formatting ==
    ~formatted =>
        /\ ~spoilt /\ ~writeAll /\ ~writeSettings
        /\ \A item \in Items : ram[item] = Default
        /\ \A item \in Saved : kept[item] = Default
        /\ \A item \in Items : item \notin triggers => Valid(item) /\ eep[item].crc = Default
        /\ "Coord" \notin triggers => Valid("Coord2") /\ eep["Coord2"].crc = Default

\* The settings: the backup is good unless it is being written, and then the
\* block it copies is good and at least as new.
SettingsSafe ==
    Intact =>
        /\ writer.item # "Backup" => Valid("Backup") /\ eep["Backup"].crc = kept["Settings"]
        /\ writer.item = "Backup" \/ ("Backup" \in triggers /\ "Settings" \notin triggers)
             => Valid("Settings") /\ eep["Settings"].crc >= ram["Backup"]
        /\ eep["Settings"].crc >= kept["Settings"]
        /\ kept["Settings"] <= ram["Backup"]
        /\ ram["Backup"] <= ram["Settings"]

\* The coordinates: likewise within one block.
CoordSafe ==
    Intact =>
        /\ writer.phase \notin {"data2", "crc2"} => Valid("Coord2") /\ eep["Coord2"].crc = kept["Coord"]
        /\ eep["Coord"].crc >= kept["Coord"]
        /\ kept["Coord"] <= ram["Coord"]

\* Whatever a reset would change is still pending.
Pending ==
    Intact =>
        /\ ram["Settings"] # Loaded("Settings") => writeSettings \/ "Settings" \in triggers
        /\ ram["Coord"] # Loaded("Coord") => writeAll \/ "Coord" \in triggers

\* No value is newer than the last change.
Counted ==
    /\ \A item \in Items : ram[item] <= changes
    /\ \A item \in Saved : kept[item] <= changes
    /\ \A c \in Copies : eep[c].crc <= changes
    /\ writer.crc <= changes

IInv == /\ TypeOK /\ WriterShape /\ WriterProgress /\ Formatting
        /\ SettingsSafe /\ CoordSafe /\ Pending /\ Counted
-----------------------------------------------------------------------------
\* What can be loaded is a value.
LEMMA LoadedType ==
    ASSUME TypeOK
    PROVE  /\ \A c \in Copies : Valid(c) => eep[c].crc \in Value
           /\ \A item \in Items : ReadVar(item) \in Value /\ Loaded(item) \in Value
           /\ ReadAll \in [Items -> Value]
<1>1. \A c \in Copies : Valid(c) => eep[c].crc \in Value
  BY DEF TypeOK, Valid, Block
<1>2. Default \in Value
  BY BoundAssumption DEF Default, Value
<1>3. \A item \in Items : item \in Copies
  BY DEF Copies
<1>4. \A item \in Items : ReadVar(item) \in Value
  BY <1>1, <1>2, <1>3 DEF ReadVar, Copies
<1>5. \A item \in Items : Loaded(item) \in Value
  BY <1>4 DEF Loaded, LoadSettings, Items
<1> QED
  BY <1>1, <1>4, <1>5 DEF ReadAll

\* The flags stay Boolean.
LEMMA BooleansStep ==
    ASSUME TypeOK, [Next]_vars
    PROVE  formatted' \in BOOLEAN /\ writeAll' \in BOOLEAN /\ writeSettings' \in BOOLEAN /\ spoilt' \in BOOLEAN
BY Zenon DEF TypeOK, Next, vars, requests, SetSetting, SetCoord, SaveAll, SaveSettings, WriterStep,
   WriteStart, WriteByte, BeginBackup, Finish, FormatEnd, SoftReset, PowerFails


\* The types, step by step.
LEMMA TypeStep ==
    ASSUME TypeOK, WriterShape, [Next]_vars
    PROVE  TypeOK'
<1> USE SizeAssumption, BoundAssumption
<1>b. formatted' \in BOOLEAN /\ writeAll' \in BOOLEAN /\ writeSettings' \in BOOLEAN /\ spoilt' \in BOOLEAN
  BY BooleansStep
<1>l. ReadAll \in [Items -> Value] /\ ReadVar("Settings") \in Value
  BY LoadedType DEF Items
<1>t. TypeOK
  OBVIOUS
<1> HIDE <1>t
<1>1. CASE SetSetting
  BY <1>1, <1>b, <1>t DEF SetSetting, TypeOK, Value, Items
<1>2. CASE SetCoord
  BY <1>2, <1>b, <1>t DEF SetCoord, TypeOK, Value, Items
<1>3. CASE SaveAll
  BY <1>3, <1>b, <1>t DEF SaveAll, TypeOK
<1>4. CASE SaveSettings
  BY <1>4, <1>b, <1>t DEF SaveSettings, TypeOK, Items, SettingsItems
<1>5. CASE WriteStart
  <2>1. NextItem \in Items /\ NextItem \in triggers
    BY <1>5, <1>t DEF WriteStart, NextItem, TypeOK, Items
  <2>2. ram[NextItem] \in Value
    BY <2>1, <1>t DEF TypeOK
  <2>3. 0 \in 0 .. SIZE
    OBVIOUS
  <2>4. writer' \in [item : Items \cup {NoItem}, phase : Phases, i : 0 .. SIZE, crc : Value]
    BY <1>5, <2>1, <2>2, <2>3 DEF WriteStart, Phases
  <2> QED
    BY <1>5, <2>4, <1>b, <1>t DEF WriteStart, TypeOK, requests
<1>6. ASSUME NEW phase \in {"data", "data2"}, NEW c \in Copies, NEW next \in Phases,
             WriteByte(phase, c, next)
      PROVE  TypeOK'
  <2>1. writer.i \in Byte /\ writer.item \in Items
    BY <1>6, <1>t DEF WriteByte, WriterShape, TypeOK, Byte
  <2>2. ram[writer.item] \in Value
    BY <2>1, <1>t DEF TypeOK
  <2>3. eep' \in [Copies -> Block]
    BY <1>6, <2>1, <2>2, <1>t DEF WriteByte, TypeOK, Block
  <2>4. writer.i + 1 \in 0 .. SIZE
    BY <2>1 DEF Byte
  <2>5. writer' \in [item : Items \cup {NoItem}, phase : Phases, i : 0 .. SIZE, crc : Value]
    BY <1>6, <2>4, <1>t DEF WriteByte, TypeOK
  <2> QED
    BY <1>6, <2>3, <2>5, <1>b, <1>t DEF WriteByte, TypeOK, requests
<1>7. ASSUME NEW c \in Copies, WriteCrc(c)
      PROVE  eep' \in [Copies -> Block]
  <2>1. writer.crc \in Value
    BY <1>t DEF TypeOK
  <2> QED
    BY <1>7, <2>1, <1>t DEF WriteCrc, TypeOK, Block
<1>8. CASE BeginBackup
  <2>1. eep' \in [Copies -> Block]
    BY <1>8, <1>7 DEF BeginBackup, Copies, Items
  <2>0. writer \in [item : Items \cup {NoItem}, phase : Phases, i : 0 .. SIZE, crc : Value]
    BY <1>t DEF TypeOK
  <2>2. writer' \in [item : Items \cup {NoItem}, phase : Phases, i : 0 .. SIZE, crc : Value]
    <3>1. writer' = [writer EXCEPT !.i = 0, !.phase = "data2"]
      BY <1>8 DEF BeginBackup
    <3>2. 0 \in 0 .. SIZE /\ "data2" \in Phases
      BY DEF Phases
    <3> HIDE DEF Phases, Value
    <3> QED
      BY <2>0, <3>1, <3>2
  <2> QED
    BY <1>8, <2>1, <2>2, <1>b, <1>t DEF BeginBackup, TypeOK, requests
<1>9. ASSUME NEW c \in Copies, Finish(c)
      PROVE  TypeOK'
  <2>1. eep' \in [Copies -> Block]
    BY <1>9, <1>7 DEF Finish
  <2>2. Default \in Value /\ writer.crc \in Value
    BY <1>t DEF Default, Value, TypeOK
  <2>3. writer' \in [item : Items \cup {NoItem}, phase : Phases, i : 0 .. SIZE, crc : Value]
    BY <1>9, <2>2 DEF Finish, Idle, Phases
  <2>4. kept' \in [Saved -> Value]
    BY <1>9, <2>2, <1>t DEF Finish, TypeOK, Saved
  <2>5. triggers' \in SUBSET Items
    BY <1>9, <1>t DEF Finish, TypeOK
  <2> QED
    BY <1>9, <2>1, <2>3, <2>4, <2>5, <1>b, <1>t DEF Finish, TypeOK
<1>10. CASE WriterStep
  <2>1. "Coord2" \in Copies
    BY DEF Copies
  <2>2. writer.phase \in {"data", "crc"} => writer.item \in Copies
    BY <1>t DEF WriterShape, TypeOK, Copies
  <2>3. CASE WriteByte("data", writer.item, "crc")
    BY <1>6, <2>2, <2>3 DEF WriteByte, Phases
  <2>4. CASE WriteByte("data2", "Coord2", "crc2")
    BY <1>6, <2>1, <2>4 DEF Phases
  <2>5. CASE writer.phase = "crc" /\ writer.item # "Coord" /\ Finish(writer.item)
    BY <1>9, <2>2, <2>5
  <2>6. CASE writer.phase = "crc2" /\ Finish("Coord2")
    BY <1>9, <2>1, <2>6
  <2> QED
    BY <1>5, <1>8, <1>10, <2>3, <2>4, <2>5, <2>6 DEF WriterStep
<1>11. CASE FormatEnd
  BY <1>11, <1>b, <1>t DEF FormatEnd, TypeOK, requests
<1>12. CASE SoftReset
  BY <1>12, <1>b, <1>l, <1>t DEF SoftReset, TypeOK
<1>13. CASE PowerFails
  <2>1. Default \in Value
    BY DEF Default, Value
  <2>2. writer' \in [item : Items \cup {NoItem}, phase : Phases, i : 0 .. SIZE, crc : Value]
    BY <1>13, <2>1 DEF PowerFails, Idle, Phases
  <2>3. ram' \in [Items -> Value] /\ settings' \in Value
    BY <1>13, <1>l, <2>1 DEF PowerFails
  <2> QED
    BY <1>13, <2>2, <2>3, <1>b, <1>t DEF PowerFails, TypeOK
<1>14. CASE UNCHANGED vars
  BY <1>14, <1>b, <1>t DEF vars, requests, TypeOK
<1> QED
  BY <1>1, <1>2, <1>3, <1>4, <1>10, <1>11, <1>12, <1>13, <1>14 DEF Next

\* The shape of the writer's state, step by step.
LEMMA ShapeStep ==
    ASSUME TypeOK, WriterShape, [Next]_vars
    PROVE  WriterShape'
<1> USE SizeAssumption DEF WriterShape
<1>1. CASE SetSetting \/ SetCoord \/ FormatEnd \/ SoftReset \/ UNCHANGED vars
  BY <1>1 DEF SetSetting, SetCoord, FormatEnd, SoftReset, vars, requests
<1>2. CASE SaveAll
  BY <1>2 DEF SaveAll, TypeOK
<1>3. CASE SaveSettings
  BY <1>3 DEF SaveSettings
<1>4. CASE WriteStart
  BY <1>4 DEF WriteStart, NextItem, TypeOK, Items, NoItem, requests
<1>5. CASE WriteByte("data", writer.item, "crc")
  BY <1>5 DEF WriteByte, TypeOK, requests
<1>6. CASE WriteByte("data2", "Coord2", "crc2")
  BY <1>6 DEF WriteByte, TypeOK, requests
<1>7. CASE BeginBackup
  BY <1>7 DEF BeginBackup, TypeOK, requests, NoItem
<1>8. CASE \E c \in Copies : Finish(c)
  BY <1>8 DEF Finish, Idle, NoItem
<1>9. CASE PowerFails
  BY <1>9 DEF PowerFails, Idle, NoItem
<1>10. (writer.phase = "crc" => writer.item \in Copies) /\ "Coord2" \in Copies
  BY DEF TypeOK, Copies
<1> QED
  BY <1>1, <1>2, <1>3, <1>4, <1>5, <1>6, <1>7, <1>8, <1>9, <1>10 DEF Next, WriterStep

\* A step that writes no byte changes nothing that a reset would load.
LEMMA SameBlocks ==
    ASSUME eep' = eep
    PROVE  /\ \A c : Valid(c)' <=> Valid(c)
           /\ \A item : ReadVar(item)' = ReadVar(item) /\ Loaded(item)' = Loaded(item)
BY DEF Valid, ReadVar, Loaded, LoadSettings

\* The writer's progress, step by step.
LEMMA ProgressStep ==
    ASSUME TypeOK, WriterShape, WriterProgress, [Next]_vars
    PROVE  WriterProgress'
<1> USE SizeAssumption
<1>1. ASSUME UNCHANGED << eep, writer >>, ~spoilt' => ~spoilt /\ ~Overtaken(ram')
      PROVE  WriterProgress'
  <2>1. writer.item # NoItem => writer.item \in Items
    BY DEF TypeOK
  <2>2. \A c : Valid(c)' <=> Valid(c)
    BY <1>1, SameBlocks
  <2> QED
    BY <1>1, <2>1, <2>2 DEF WriterProgress, Overtaken, Written
<1>2. CASE SetSetting \/ SetCoord \/ SaveSettings \/ SoftReset
  BY <1>1, <1>2 DEF SetSetting, SetCoord, SaveSettings, SoftReset
<1>3. CASE SaveAll \/ FormatEnd \/ UNCHANGED vars
  <2>1. UNCHANGED << ram, eep, writer, spoilt >>
    BY <1>3 DEF SaveAll, FormatEnd, vars
  <2>2. ~spoilt => ~Overtaken(ram)
    BY DEF WriterProgress, Overtaken, Items, NoItem
  <2> QED
    BY <1>1, <2>1, <2>2 DEF Overtaken
<1>4. CASE WriteStart
  <2>1. NextItem \in Items
    BY DEF NextItem, Items
  <2>2. /\ writer' = [item |-> NextItem, phase |-> "data", i |-> 0, crc |-> ram[NextItem]]
        /\ ram' = ram
    BY <1>4 DEF WriteStart
  <2> QED
    BY <2>1, <2>2 DEF WriterProgress, Byte
<1>5. CASE WriteByte("data", writer.item, "crc")
  <2>1. writer.item \in Items /\ writer.item \in Copies /\ writer.i \in Byte
    BY <1>5 DEF WriteByte, WriterShape, TypeOK, Copies, Byte
  <2>2. /\ eep' = [eep EXCEPT ![writer.item].data[writer.i] = ram[writer.item]]
        /\ writer' = [writer EXCEPT !.i = @ + 1, !.phase = IF writer.i + 1 >= SIZE THEN "crc" ELSE @]
        /\ writer.phase = "data" /\ UNCHANGED << ram, spoilt >>
    BY <1>5 DEF WriteByte
  <2>3. ~spoilt => \A b \in Byte : b < writer.i + 1 => eep'[writer.item].data[b] = writer.crc
    BY <2>1, <2>2 DEF WriterProgress, TypeOK, Block, Byte, NoItem, Items
  <2>4. writer'.item = writer.item /\ writer'.crc = writer.crc /\ writer'.i = writer.i + 1
    BY <2>2 DEF TypeOK
  <2>5. writer'.phase = IF writer.i + 1 >= SIZE THEN "crc" ELSE "data"
    BY <2>2 DEF TypeOK
  <2> QED
    BY <2>1, <2>2, <2>3, <2>4, <2>5 DEF WriterProgress, Written, Byte
<1>6. CASE BeginBackup
  <2>1. writer.crc # Blank
    BY DEF TypeOK, Value, Blank
  <2>2. /\ writer.phase = "crc" /\ writer.item = "Coord"
        /\ eep' = [eep EXCEPT !["Coord"].crc = writer.crc]
        /\ writer' = [writer EXCEPT !.i = 0, !.phase = "data2"]
        /\ UNCHANGED << ram, spoilt >>
    BY <1>6 DEF BeginBackup, WriteCrc
  <2>3. writer'.item = writer.item /\ writer'.crc = writer.crc /\ writer'.i = 0 /\ writer'.phase = "data2"
    BY <2>2 DEF TypeOK
  <2>4. eep'["Coord"].crc = writer.crc /\ eep'["Coord"].data = eep["Coord"].data
    BY <2>2 DEF TypeOK, Copies, Items, Block
  <2>5. ~spoilt => Valid("Coord")'
    BY <2>1, <2>2, <2>4 DEF WriterProgress, Written, Valid
  <2> QED
    BY <2>2, <2>3, <2>4, <2>5 DEF WriterProgress, Byte
<1>7. CASE WriteByte("data2", "Coord2", "crc2")
  <2>1. writer.item = "Coord" /\ "Coord2" \in Copies /\ writer.i \in Byte
    BY <1>7 DEF WriteByte, WriterShape, TypeOK, Copies, Byte
  <2>2. /\ eep' = [eep EXCEPT !["Coord2"].data[writer.i] = ram[writer.item]]
        /\ writer' = [writer EXCEPT !.i = @ + 1, !.phase = IF writer.i + 1 >= SIZE THEN "crc2" ELSE @]
        /\ writer.phase = "data2" /\ UNCHANGED << ram, spoilt >>
    BY <1>7 DEF WriteByte
  <2>3. ~spoilt => \A b \in Byte : b < writer.i + 1 => eep'["Coord2"].data[b] = writer.crc
    BY <2>1, <2>2 DEF WriterProgress, TypeOK, Block, Byte, NoItem
  <2>4. writer'.item = writer.item /\ writer'.crc = writer.crc /\ writer'.i = writer.i + 1
    BY <2>2 DEF TypeOK
  <2>5. writer'.phase = IF writer.i + 1 >= SIZE THEN "crc2" ELSE "data2"
    BY <2>2 DEF TypeOK
  <2>6. eep'["Coord"] = eep["Coord"]
    BY <2>2 DEF TypeOK, Copies, Items
  <2>7. Valid("Coord")' <=> Valid("Coord")
    BY <2>6 DEF Valid
  <2> QED
    BY <2>1, <2>2, <2>3, <2>4, <2>5, <2>6, <2>7 DEF WriterProgress, Written, Byte
<1>8. CASE (\E c \in Copies : Finish(c)) \/ PowerFails
  <2>1. writer' = Idle
    BY <1>8 DEF Finish, PowerFails
  <2> QED
    BY <2>1 DEF Idle, WriterProgress
<1>9. (writer.phase = "crc" /\ writer.item # "Coord" => writer.item \in Copies) /\ "Coord2" \in Copies
  BY DEF TypeOK, WriterShape, Copies
<1> QED
  BY <1>2, <1>3, <1>4, <1>5, <1>6, <1>7, <1>8, <1>9 DEF Next, WriterStep

\* What each writer step does to the blocks, the triggers and the records.
LEMMA WriterEffects ==
    ASSUME TypeOK, WriterShape, WriterProgress
    PROVE  /\ WriteStart => /\ NextItem \in triggers
                            /\ NextItem = "Backup" => "Settings" \notin triggers
                            /\ writer'.item = NextItem /\ writer'.phase = "data"
                            /\ writer'.crc = ram[NextItem] /\ writer.item = NoItem
           /\ WriteByte("data", writer.item, "crc") =>
                /\ writer.item \in triggers /\ writer'.item = writer.item
                /\ writer'.crc = writer.crc /\ writer'.phase \in {"data", "crc"}
                /\ \A c \in Copies : /\ eep'[c].crc = eep[c].crc
                                     /\ c # writer.item => (Valid(c)' <=> Valid(c))
           /\ BeginBackup =>
                /\ writer.item = "Coord" /\ writer'.item = "Coord" /\ writer'.crc = writer.crc
                /\ writer.phase = "crc" /\ writer'.phase = "data2"
                /\ eep'["Coord"].crc = writer.crc
                /\ \A c \in Copies \ {"Coord"} : eep'[c].crc = eep[c].crc /\ (Valid(c)' <=> Valid(c))
                /\ ~spoilt => Valid("Coord")'
           /\ WriteByte("data2", "Coord2", "crc2") =>
                /\ writer.item = "Coord" /\ writer'.item = "Coord" /\ writer'.crc = writer.crc
                /\ writer'.phase \in {"data2", "crc2"}
                /\ \A c \in Copies : /\ eep'[c].crc = eep[c].crc
                                     /\ c # "Coord2" => (Valid(c)' <=> Valid(c))
           /\ \A c \in Copies : Finish(c) =>
                /\ eep'[c].crc = writer.crc
                /\ \A d \in Copies \ {c} : eep'[d].crc = eep[d].crc /\ (Valid(d)' <=> Valid(d))
                /\ Written(c) => Valid(c)'
<1>1. WriteStart => /\ NextItem \in triggers
                    /\ NextItem = "Backup" => "Settings" \notin triggers
                    /\ writer'.item = NextItem /\ writer'.phase = "data"
                    /\ writer'.crc = ram[NextItem] /\ writer.item = NoItem
  BY DEF WriteStart, NextItem, TypeOK, Items, WriterShape
<1>2. ASSUME NEW p \in {"data", "data2"}, NEW c \in Copies, NEW n \in Phases, WriteByte(p, c, n)
      PROVE  /\ writer'.item = writer.item /\ writer'.crc = writer.crc /\ writer'.phase \in {p, n}
             /\ \A d \in Copies : eep'[d].crc = eep[d].crc /\ (d # c => eep'[d] = eep[d])
  <2>1. /\ eep' = [eep EXCEPT ![c].data[writer.i] = ram[writer.item]]
        /\ writer' = [writer EXCEPT !.i = @ + 1, !.phase = IF writer.i + 1 >= SIZE THEN n ELSE @]
        /\ writer.phase = p
    BY <1>2 DEF WriteByte
  <2> QED
    BY <2>1 DEF TypeOK, Block
<1>3. ASSUME NEW c \in Copies, WriteCrc(c)
      PROVE  /\ eep'[c].crc = writer.crc /\ eep'[c].data = eep[c].data
             /\ \A d \in Copies \ {c} : eep'[d] = eep[d]
  BY <1>3 DEF WriteCrc, TypeOK, Block
<1>4. ASSUME NEW c \in Copies, eep'[c] = eep[c]
      PROVE  Valid(c)' <=> Valid(c)
  BY <1>4 DEF Valid
<1>5. writer.crc # Blank
  BY DEF TypeOK, Value, Blank
<1>6. ASSUME NEW c \in Copies, WriteCrc(c), Written(c)
      PROVE  Valid(c)'
  BY <1>3, <1>5, <1>6 DEF Valid, Written
<1>7. ASSUME WriteByte("data", writer.item, "crc")
      PROVE  /\ writer.item \in triggers /\ writer'.item = writer.item
             /\ writer'.crc = writer.crc /\ writer'.phase \in {"data", "crc"}
             /\ \A c \in Copies : /\ eep'[c].crc = eep[c].crc
                                  /\ c # writer.item => (Valid(c)' <=> Valid(c))
  <2>1. writer.item \in Copies /\ writer.item \in triggers
    BY <1>7 DEF WriteByte, WriterShape, TypeOK, Copies
  <2> QED
    BY <1>2, <1>4, <1>7, <2>1 DEF Phases
<1>8. ASSUME BeginBackup
      PROVE  /\ writer.item = "Coord" /\ writer'.item = "Coord" /\ writer'.crc = writer.crc
             /\ writer.phase = "crc" /\ writer'.phase = "data2"
             /\ eep'["Coord"].crc = writer.crc
             /\ \A c \in Copies \ {"Coord"} : eep'[c].crc = eep[c].crc /\ (Valid(c)' <=> Valid(c))
             /\ ~spoilt => Valid("Coord")'
  <2>1. "Coord" \in Copies
    BY DEF Copies, Items
  <2>2. writer.phase = "crc" /\ writer.item = "Coord" /\ WriteCrc("Coord")
        /\ writer' = [writer EXCEPT !.i = 0, !.phase = "data2"]
    BY <1>8 DEF BeginBackup
  <2>3. writer'.item = "Coord" /\ writer'.crc = writer.crc /\ writer'.phase = "data2"
    BY <2>2 DEF TypeOK
  <2>4. ~spoilt => Written("Coord")
    BY <2>2 DEF WriterProgress
  <2> QED
    BY <1>3, <1>4, <1>6, <2>1, <2>2, <2>3, <2>4
<1>9. ASSUME WriteByte("data2", "Coord2", "crc2")
      PROVE  /\ writer.item = "Coord" /\ writer'.item = "Coord" /\ writer'.crc = writer.crc
             /\ writer'.phase \in {"data2", "crc2"}
             /\ \A c \in Copies : /\ eep'[c].crc = eep[c].crc
                                  /\ c # "Coord2" => (Valid(c)' <=> Valid(c))
  <2>1. writer.item = "Coord"
    BY <1>9 DEF WriteByte, WriterShape
  <2> QED
    BY <1>2, <1>4, <1>9, <2>1 DEF Phases, Copies
<1>10. ASSUME NEW c \in Copies, Finish(c)
       PROVE  /\ eep'[c].crc = writer.crc
              /\ \A d \in Copies \ {c} : eep'[d].crc = eep[d].crc /\ (Valid(d)' <=> Valid(d))
              /\ Written(c) => Valid(c)'
  BY <1>3, <1>4, <1>6, <1>10 DEF Finish
<1> QED
  BY <1>1, <1>7, <1>8, <1>9, <1>10

\* Formatting, step by step.
LEMMA FormattingStep ==
    ASSUME IInv, [Next]_vars
    PROVE  Formatting'
<1> USE DEF Formatting
<1>0. TypeOK /\ WriterShape /\ WriterProgress /\ Formatting
  BY DEF IInv
<1>1. CASE formatted
  <2>1. formatted'
    BY <1>1 DEF Next, vars, requests, SetSetting, SetCoord, SaveAll, SaveSettings, WriterStep,
       WriteStart, WriteByte, BeginBackup, Finish, FormatEnd, SoftReset, PowerFails
  <2> QED
    BY <2>1
<1>2. CASE ~formatted
  <2> USE <1>2
  <2>1. CASE WriteStart \/ UNCHANGED vars
    BY <1>0, <2>1, SameBlocks DEF WriteStart, vars, requests
  <2>2. CASE WriteByte("data", writer.item, "crc")
    <3>1. UNCHANGED << ram, formatted, requests, kept, spoilt >>
      BY <2>2 DEF WriteByte
    <3>2. \A item \in Items : item \notin triggers => item # writer.item
      BY <1>0, <2>2, WriterEffects
    <3>3. "Coord" \notin triggers => "Coord2" # writer.item
      BY <1>0 DEF TypeOK, Items, NoItem
    <3> QED
      BY <1>0, <2>2, <3>1, <3>2, <3>3, WriterEffects DEF Copies, requests
  <2>3. CASE BeginBackup
    <3>1. UNCHANGED << ram, formatted, requests, kept, spoilt >>
      BY <2>3 DEF BeginBackup
    <3>2. "Coord" \in triggers
      BY <1>0, <2>3 DEF BeginBackup, WriterShape, NoItem
    <3> QED
      BY <1>0, <2>3, <3>1, <3>2, WriterEffects DEF Copies, requests
  <2>4. CASE WriteByte("data2", "Coord2", "crc2")
    <3>1. UNCHANGED << ram, formatted, requests, kept, spoilt >>
      BY <2>4 DEF WriteByte
    <3>2. "Coord" \in triggers
      BY <1>0, <2>4, WriterEffects DEF WriterShape, NoItem
    <3> QED
      BY <1>0, <2>4, <3>1, <3>2, WriterEffects DEF Copies, Items, requests
  <2>5. CASE writer.phase = "crc" /\ writer.item # "Coord" /\ Finish(writer.item)
    <3>1. /\ UNCHANGED << ram, formatted, writeAll, writeSettings, spoilt >>
          /\ triggers' = triggers \ {writer.item}
      BY <2>5 DEF Finish
    <3>2. writer.item \in {"Settings", "Backup"} /\ writer.item \in triggers
      BY <1>0, <2>5 DEF TypeOK, WriterShape, Items
    <3>3. writer.crc = Default /\ Written(writer.item)
      BY <1>0, <2>5, <3>2 DEF WriterProgress, Items, NoItem
    <3>4. \A item \in Saved : kept'[item] = Default
      BY <1>0, <2>5, <3>3 DEF Finish, Saved, TypeOK
    <3> QED
      BY <1>0, <2>5, <3>1, <3>2, <3>3, <3>4, WriterEffects DEF Copies, Items
  <2>6. CASE writer.phase = "crc2" /\ Finish("Coord2")
    <3>1. /\ UNCHANGED << ram, formatted, writeAll, writeSettings, spoilt >>
          /\ triggers' = triggers \ {writer.item}
      BY <2>6 DEF Finish
    <3>2. writer.item = "Coord" /\ "Coord" \in triggers
      BY <1>0, <2>6 DEF WriterShape, NoItem
    <3>3. writer.crc = Default /\ Written("Coord2") /\ Valid("Coord") /\ eep["Coord"].crc = Default
      BY <1>0, <2>6, <3>2 DEF WriterProgress, Items, NoItem
    <3>4. \A item \in Saved : kept'[item] = Default
      BY <1>0, <2>6, <3>3 DEF Finish, Saved, TypeOK
    <3> QED
      BY <1>0, <2>6, <3>1, <3>2, <3>3, <3>4, WriterEffects DEF Copies, Items
  <2>7. CASE FormatEnd
    BY <2>7 DEF FormatEnd
  <2>8. CASE PowerFails
    BY <1>0, <2>8 DEF PowerFails, Items
  <2> QED
    BY <2>1, <2>2, <2>3, <2>4, <2>5, <2>6, <2>7, <2>8
    DEF Next, WriterStep, SetSetting, SetCoord, SaveAll, SaveSettings, SoftReset
<1> QED
  BY <1>1, <1>2

\* The two copies of the settings, step by step.
LEMMA SettingsStep ==
    ASSUME IInv, [Next]_vars
    PROVE  SettingsSafe'
<1>0. TypeOK /\ WriterShape /\ WriterProgress /\ Formatting /\ SettingsSafe /\ Counted
  BY DEF IInv
<1>n. /\ \A item \in Items : ram[item] \in Nat
      /\ kept["Settings"] \in Nat /\ writer.crc \in Nat
      /\ \A c \in Copies : eep[c].crc \in Int
      /\ {"Settings", "Backup"} \subseteq Items \cap Copies
      /\ changes \in Nat
  BY <1>0, BoundAssumption DEF TypeOK, Value, Saved, Block, Blank, Copies, Items
<1> USE DEF SettingsSafe, Intact
<1>1. CASE SetSetting
  <2>1. ram'["Settings"] = changes + 1 /\ ram'["Backup"] = ram["Backup"]
    BY <1>0, <1>1, <1>n DEF SetSetting, TypeOK
  <2>2. ram["Backup"] <= changes
    BY <1>0, <1>n DEF Counted
  <2>3. ~spoilt' => ~spoilt
    BY <1>1 DEF SetSetting
  <2> QED
    BY <1>0, <1>1, <1>n, <2>1, <2>2, <2>3, SameBlocks DEF SetSetting
<1>2. CASE SetCoord
  <2>1. ram'["Settings"] = ram["Settings"] /\ ram'["Backup"] = ram["Backup"]
    BY <1>0, <1>2 DEF SetCoord, TypeOK, Items
  <2> QED
    BY <1>0, <1>2, <2>1, SameBlocks DEF SetCoord
<1>3. CASE SaveAll
  <2>1. "Settings" \in Items
    BY DEF Items
  <2> QED
    BY <1>0, <1>3, <2>1, SameBlocks DEF SaveAll
<1>4. CASE SaveSettings
  <2>1. ram'["Settings"] = ram["Settings"] /\ ram'["Backup"] = ram["Settings"]
    BY <1>0, <1>4, <1>n DEF SaveSettings, TypeOK
  <2>2. "Settings" \in triggers'
    BY <1>4 DEF SaveSettings, SettingsItems
  <2>3. ~spoilt' /\ writer.item = "Backup" => ram'["Backup"] = ram["Backup"]
    BY <1>0, <1>4, <1>n DEF SaveSettings, Overtaken, WriterProgress, NoItem
  <2>4. ~spoilt' => ~spoilt
    BY <1>4 DEF SaveSettings
  <2> QED
    BY <1>0, <1>4, <1>n, <2>1, <2>2, <2>3, <2>4, SameBlocks DEF SaveSettings
<1>5. CASE WriteStart
  <2>1. UNCHANGED << ram, eep, formatted, triggers, kept, spoilt >>
    BY <1>5 DEF WriteStart, requests
  <2>2. /\ NextItem \in triggers /\ writer'.item = NextItem /\ writer.item # "Backup"
        /\ NextItem = "Backup" => "Settings" \notin triggers
    BY <1>0, <1>5, WriterEffects DEF NoItem
  <2> QED
    BY <1>0, <2>1, <2>2, SameBlocks
<1>6. CASE WriteByte("data", writer.item, "crc")
  <2>1. UNCHANGED << ram, formatted, triggers, kept, spoilt >>
    BY <1>6 DEF WriteByte, requests
  <2> QED
    BY <1>0, <1>6, <1>n, <2>1, WriterEffects
<1>7. CASE BeginBackup \/ WriteByte("data2", "Coord2", "crc2")
  <2>1. UNCHANGED << ram, formatted, triggers, kept, spoilt >>
    BY <1>7 DEF WriteByte, BeginBackup, requests
  <2> QED
    BY <1>0, <1>7, <1>n, <2>1, WriterEffects
<1>8. CASE writer.phase = "crc" /\ writer.item # "Coord" /\ Finish(writer.item)
  <2>1. /\ UNCHANGED << ram, formatted, spoilt >>
        /\ triggers' = triggers \ {writer.item} /\ writer'.item = NoItem
    BY <1>8 DEF Finish, Idle
  <2>2. writer.item \in {"Settings", "Backup"} /\ writer.item \in triggers
    BY <1>0, <1>8 DEF TypeOK, WriterShape, Items
  <2>3. ~spoilt => writer.crc = ram[writer.item] /\ Written(writer.item)
    BY <1>0, <1>8, <2>2 DEF WriterProgress, Items, NoItem
  <2>4. CASE writer.item = "Settings"
    <3>1. kept' = kept
      BY <1>8, <2>4 DEF Finish
    <3> QED
      BY <1>0, <1>8, <1>n, <2>1, <2>3, <2>4, <3>1, WriterEffects DEF NoItem
  <2>5. CASE writer.item = "Backup"
    <3>1. kept'["Settings"] = writer.crc
      BY <1>0, <1>8, <2>5 DEF Finish, TypeOK, Saved
    <3> QED
      BY <1>0, <1>8, <1>n, <2>1, <2>3, <2>5, <3>1, WriterEffects DEF NoItem
  <2> QED
    BY <2>2, <2>4, <2>5
<1>9. CASE writer.phase = "crc2" /\ Finish("Coord2")
  <2>1. /\ UNCHANGED << ram, formatted, spoilt >>
        /\ triggers' = triggers \ {"Coord"} /\ writer'.item = NoItem /\ writer.item = "Coord"
    BY <1>0, <1>9 DEF Finish, Idle, WriterShape
  <2>2. kept'["Settings"] = kept["Settings"]
    BY <1>0, <1>9 DEF Finish, TypeOK, Saved
  <2> QED
    BY <1>0, <1>9, <1>n, <2>1, <2>2, WriterEffects DEF Copies, NoItem
<1>10. CASE FormatEnd
  <2>1. UNCHANGED << ram, eep, triggers, writer, kept, spoilt >> /\ ~formatted /\ triggers = {}
    BY <1>10 DEF FormatEnd, requests
  <2>2. writer.item # "Backup"
    BY <1>0, <2>1 DEF WriterShape, NoItem
  <2> QED
    BY <1>0, <2>1, <2>2, SameBlocks DEF Formatting, Items, Saved, Default
<1>11. ASSUME ~spoilt, formatted
       PROVE  /\ Loaded("Settings") \in Nat /\ Loaded("Settings") >= kept["Settings"]
              /\ writer.item # "Backup" => Loaded("Backup") = kept["Settings"]
              /\ writer.item = "Backup" => Loaded("Settings") = eep["Settings"].crc
  BY <1>0, <1>11, <1>n DEF Loaded, LoadSettings, ReadVar
<1>12. CASE SoftReset
  <2>1. ram'["Settings"] = Loaded("Settings") /\ ram'["Backup"] = Loaded("Backup")
    BY <1>12 DEF SoftReset, ReadAll, Items
  <2>2. ~spoilt' /\ writer.item = "Backup" => ram'["Backup"] = ram["Backup"]
    BY <1>0, <1>12, <1>n DEF SoftReset, Overtaken, WriterProgress, NoItem
  <2>3. ~spoilt' => ~spoilt
    BY <1>12 DEF SoftReset
  <2> QED
    BY <1>0, <1>11, <1>12, <1>n, <2>1, <2>2, <2>3, SameBlocks DEF SoftReset
<1>13. CASE PowerFails
  <2>1. formatted => ram'["Settings"] = Loaded("Settings") /\ ram'["Backup"] = Loaded("Backup")
    BY <1>13 DEF PowerFails, ReadAll, Items
  <2>2. ~spoilt' /\ formatted => writer.item # "Backup" /\ ~spoilt
    BY <1>13 DEF PowerFails, WritingBackup
  <2>3. writer'.item = NoItem /\ (formatted => triggers' = {})
    BY <1>13 DEF PowerFails, Idle
  <2> QED
    BY <1>0, <1>11, <1>13, <1>n, <2>1, <2>2, <2>3, SameBlocks DEF PowerFails, NoItem
<1>14. CASE UNCHANGED vars
  BY <1>0, <1>14, SameBlocks DEF vars, requests
<1> QED
  BY <1>1, <1>2, <1>3, <1>4, <1>5, <1>6, <1>7, <1>8, <1>9, <1>10, <1>12, <1>13, <1>14 DEF Next, WriterStep

\* The two copies of the coordinates, step by step.
LEMMA CoordStep ==
    ASSUME IInv, [Next]_vars
    PROVE  CoordSafe'
<1>0. TypeOK /\ WriterShape /\ WriterProgress /\ Formatting /\ CoordSafe /\ Counted
  BY DEF IInv
<1>n. /\ ram["Coord"] \in Nat /\ kept["Coord"] \in Nat /\ writer.crc \in Nat /\ changes \in Nat
      /\ \A c \in Copies : eep[c].crc \in Int
      /\ "Coord" \in Items \cap Copies /\ "Coord2" \in Copies
  BY <1>0, BoundAssumption DEF TypeOK, Value, Saved, Block, Blank, Copies, Items
<1> USE DEF CoordSafe, Intact
<1>1. CASE SetSetting \/ SaveAll \/ SaveSettings
  <2>1. ram'["Coord"] = ram["Coord"] /\ UNCHANGED << eep, writer, formatted, kept >>
    BY <1>0, <1>1 DEF SetSetting, SaveAll, SaveSettings, TypeOK, Items
  <2>2. ~spoilt' => ~spoilt
    BY <1>1 DEF SetSetting, SaveAll, SaveSettings
  <2> QED
    BY <1>0, <2>1, <2>2, SameBlocks
<1>2. CASE SetCoord
  <2>1. ram'["Coord"] = changes + 1
    BY <1>0, <1>2, <1>n DEF SetCoord, TypeOK
  <2>2. kept["Coord"] <= changes
    BY <1>0 DEF Counted, Saved
  <2>3. ~spoilt' => ~spoilt
    BY <1>2 DEF SetCoord
  <2> QED
    BY <1>0, <1>2, <1>n, <2>1, <2>2, <2>3, SameBlocks DEF SetCoord
<1>3. CASE WriteStart
  <2>1. UNCHANGED << ram, eep, formatted, kept, spoilt >> /\ writer.phase \notin {"data2", "crc2"}
    BY <1>3 DEF WriteStart
  <2> QED
    BY <1>0, <2>1, SameBlocks
<1>4. CASE WriteByte("data", writer.item, "crc")
  <2>1. /\ UNCHANGED << ram, formatted, kept, spoilt >> /\ writer.phase = "data"
        /\ writer.item # "Coord2"
    BY <1>0, <1>4 DEF WriteByte, TypeOK, Items, NoItem
  <2> QED
    BY <1>0, <1>4, <1>n, <2>1, WriterEffects
<1>5. CASE BeginBackup
  <2>1. UNCHANGED << ram, formatted, kept, spoilt >>
    BY <1>5 DEF BeginBackup
  <2>2. ~spoilt => writer.crc = ram["Coord"]
    BY <1>0, <1>5 DEF BeginBackup, WriterProgress, NoItem
  <2> QED
    BY <1>0, <1>5, <1>n, <2>1, <2>2, WriterEffects
<1>6. CASE WriteByte("data2", "Coord2", "crc2")
  <2>1. UNCHANGED << ram, formatted, kept, spoilt >>
    BY <1>6 DEF WriteByte
  <2> QED
    BY <1>0, <1>6, <1>n, <2>1, WriterEffects
<1>7. CASE writer.phase = "crc" /\ writer.item # "Coord" /\ Finish(writer.item)
  <2>1. UNCHANGED << ram, formatted, spoilt >>
    BY <1>7 DEF Finish
  <2>2. writer.item \in Copies \ {"Coord", "Coord2"} /\ writer.phase \notin {"data2", "crc2"}
    BY <1>0, <1>7 DEF TypeOK, WriterShape, Items, Copies
  <2>3. kept'["Coord"] = kept["Coord"]
    BY <1>0, <1>7, <2>2 DEF Finish, TypeOK, Saved
  <2> QED
    BY <1>0, <1>7, <1>n, <2>1, <2>2, <2>3, WriterEffects
<1>8. CASE writer.phase = "crc2" /\ Finish("Coord2")
  <2>1. UNCHANGED << ram, formatted, spoilt >> /\ writer.item = "Coord"
    BY <1>0, <1>8 DEF Finish, WriterShape
  <2>2. kept'["Coord"] = writer.crc
    BY <1>0, <1>8 DEF Finish, TypeOK, Saved
  <2>3. ~spoilt => writer.crc = ram["Coord"] /\ eep["Coord"].crc = writer.crc /\ Written("Coord2")
    BY <1>0, <1>8, <2>1 DEF WriterProgress, NoItem
  <2> QED
    BY <1>0, <1>8, <1>n, <2>1, <2>2, <2>3, WriterEffects
<1>9. CASE FormatEnd
  <2>1. UNCHANGED << ram, eep, triggers, writer, kept, spoilt >> /\ ~formatted /\ triggers = {}
    BY <1>9 DEF FormatEnd, requests
  <2> QED
    BY <1>0, <2>1, SameBlocks DEF Formatting, Items, Saved, Default
<1>10. ASSUME ~spoilt, formatted
       PROVE  Loaded("Coord") >= kept["Coord"]
  <2>1. writer.phase \in {"data2", "crc2"} => Valid("Coord")
    BY <1>0, <1>10 DEF WriterProgress
  <2> QED
    BY <1>0, <1>10, <1>n, <2>1 DEF Loaded, ReadVar
<1>11. CASE SoftReset
  <2>1. ram'["Coord"] = Loaded("Coord")
    BY <1>11 DEF SoftReset, ReadAll, Items
  <2> QED
    BY <1>0, <1>10, <1>11, <2>1, SameBlocks DEF SoftReset
<1>12. CASE PowerFails
  <2>1. formatted => ram'["Coord"] = Loaded("Coord")
    BY <1>12 DEF PowerFails, ReadAll, Items
  <2>2. ~spoilt' /\ formatted => writer.phase \notin {"data2", "crc2"} /\ ~spoilt
    BY <1>12 DEF PowerFails, WritingBackup
  <2> QED
    BY <1>0, <1>10, <1>12, <2>1, <2>2, SameBlocks DEF PowerFails
<1>13. CASE UNCHANGED vars
  BY <1>0, <1>13, SameBlocks DEF vars
<1> QED
  BY <1>1, <1>2, <1>3, <1>4, <1>5, <1>6, <1>7, <1>8, <1>9, <1>11, <1>12, <1>13 DEF Next, WriterStep

\* No request is lost, step by step.
LEMMA PendingStep ==
    ASSUME IInv, [Next]_vars
    PROVE  Pending'
<1>0. TypeOK /\ WriterShape /\ WriterProgress /\ Formatting /\ SettingsSafe /\ CoordSafe /\ Pending
  BY DEF IInv
<1>n. {"Settings", "Backup", "Coord"} \subseteq Items \cap Copies /\ "Coord2" \in Copies
  BY DEF Copies, Items
<1> USE DEF Pending, Intact
<1>1. CASE SetSetting
  <2>1. ram'["Coord"] = ram["Coord"]
    BY <1>0, <1>1 DEF SetSetting, TypeOK, Items
  <2>2. ~spoilt' => ~spoilt
    BY <1>1 DEF SetSetting
  <2> QED
    BY <1>0, <1>1, <2>1, <2>2, SameBlocks, <1>n DEF SetSetting
<1>2. CASE SetCoord
  <2>1. ram'["Settings"] = ram["Settings"]
    BY <1>0, <1>2 DEF SetCoord, TypeOK, Items
  <2>2. ~spoilt' => ~spoilt
    BY <1>2 DEF SetCoord
  <2> QED
    BY <1>0, <1>2, <2>1, <2>2, SameBlocks, <1>n DEF SetCoord
<1>3. CASE SaveAll
  BY <1>0, <1>3, <1>n, SameBlocks DEF SaveAll
<1>4. CASE SaveSettings
  <2>1. "Settings" \in triggers' /\ ("Coord" \in triggers => "Coord" \in triggers')
    BY <1>4 DEF SaveSettings, SettingsItems
  <2>2. ~spoilt' => ~spoilt
    BY <1>4 DEF SaveSettings
  <2>3. ram'["Coord"] = ram["Coord"]
    BY <1>0, <1>4 DEF SaveSettings, TypeOK, Items
  <2> QED
    BY <1>0, <1>4, <2>1, <2>2, <2>3, SameBlocks, <1>n DEF SaveSettings
<1>5. CASE WriteStart \/ UNCHANGED vars
  BY <1>0, <1>5, <1>n, SameBlocks DEF WriteStart, vars, requests
<1>6. CASE WriteByte("data", writer.item, "crc")
  <2>1. UNCHANGED << ram, formatted, requests, kept, spoilt >> /\ writer.item # NoItem
    BY <1>0, <1>6 DEF WriteByte, WriterShape
  <2>2. writer.item \in {"Settings", "Backup", "Coord"} /\ writer.item \in triggers
    BY <1>0, <2>1 DEF TypeOK, WriterShape, Items
  <2>3. CASE writer.item = "Settings"
    <3>1. Loaded("Coord")' = Loaded("Coord")
      BY <1>0, <1>6, <1>n, <2>3, WriterEffects DEF Loaded, ReadVar
    <3> QED
      BY <1>0, <2>1, <2>2, <2>3, <3>1 DEF requests
  <2>4. CASE writer.item = "Backup"
    <3>1. Loaded("Coord")' = Loaded("Coord")
      BY <1>0, <1>6, <1>n, <2>4, WriterEffects DEF Loaded, ReadVar
    <3>2. Intact => Loaded("Settings")' = Loaded("Settings")
      BY <1>0, <1>6, <1>n, <2>4, WriterEffects DEF Loaded, LoadSettings, ReadVar, SettingsSafe
    <3> QED
      BY <1>0, <2>1, <3>1, <3>2 DEF requests
  <2>5. CASE writer.item = "Coord"
    <3>1. Loaded("Settings")' = Loaded("Settings")
      BY <1>0, <1>6, <1>n, <2>5, WriterEffects DEF Loaded, LoadSettings, ReadVar
    <3> QED
      BY <1>0, <2>1, <2>2, <2>5, <3>1 DEF requests
  <2> QED
    BY <2>2, <2>3, <2>4, <2>5
<1>7. CASE BeginBackup \/ WriteByte("data2", "Coord2", "crc2")
  <2>1. UNCHANGED << ram, formatted, requests, kept, spoilt >> /\ "Coord" \in triggers
    BY <1>0, <1>7, WriterEffects DEF WriteByte, BeginBackup, WriterShape, NoItem
  <2>2. Loaded("Settings")' = Loaded("Settings")
    BY <1>0, <1>7, <1>n, WriterEffects DEF Loaded, LoadSettings, ReadVar
  <2> QED
    BY <1>0, <2>1, <2>2 DEF requests
<1>8. CASE writer.phase = "crc" /\ writer.item # "Coord" /\ Finish(writer.item)
  <2>1. /\ UNCHANGED << ram, formatted, writeAll, writeSettings, spoilt >>
        /\ triggers' = triggers \ {writer.item}
    BY <1>8 DEF Finish
  <2>2. writer.item \in {"Settings", "Backup"}
    BY <1>0, <1>8 DEF TypeOK, WriterShape, Items
  <2>3. ~spoilt => writer.crc = ram[writer.item] /\ Written(writer.item)
    BY <1>0, <1>8, <2>2 DEF WriterProgress, Items, NoItem
  <2>4. Loaded("Coord")' = Loaded("Coord")
    BY <1>0, <1>8, <1>n, <2>2, WriterEffects DEF Loaded, ReadVar
  <2>5. CASE writer.item = "Settings"
    <3>1. Intact => Loaded("Settings")' = ram["Settings"]
      BY <1>0, <1>8, <1>n, <2>3, <2>5, WriterEffects DEF Loaded, LoadSettings, ReadVar
    <3> QED
      BY <1>0, <2>1, <2>4, <2>5, <3>1
  <2>6. CASE writer.item = "Backup"
    <3>1. Intact => Loaded("Settings")' = Loaded("Settings")
      BY <1>0, <1>8, <1>n, <2>6, WriterEffects DEF Loaded, LoadSettings, ReadVar, SettingsSafe
    <3> QED
      BY <1>0, <2>1, <2>4, <2>6, <3>1
  <2> QED
    BY <2>2, <2>5, <2>6
<1>9. CASE writer.phase = "crc2" /\ Finish("Coord2")
  <2>1. /\ UNCHANGED << ram, formatted, writeAll, writeSettings, spoilt >>
        /\ triggers' = triggers \ {"Coord"} /\ writer.item = "Coord"
    BY <1>0, <1>9 DEF Finish, WriterShape
  <2>2. Loaded("Settings")' = Loaded("Settings")
    BY <1>0, <1>9, <1>n, WriterEffects DEF Loaded, LoadSettings, ReadVar
  <2>3. ~spoilt => writer.crc = ram["Coord"] /\ Valid("Coord") /\ eep["Coord"].crc = writer.crc
    BY <1>0, <1>9, <2>1 DEF WriterProgress, NoItem
  <2>4. ~spoilt => Loaded("Coord")' = ram["Coord"]
    BY <1>0, <1>9, <1>n, <2>3, WriterEffects DEF Loaded, ReadVar
  <2> QED
    BY <1>0, <2>1, <2>2, <2>4
<1>10. CASE FormatEnd
  <2>1. UNCHANGED << ram, eep, triggers, spoilt >> /\ ~formatted /\ triggers = {}
    BY <1>10 DEF FormatEnd, requests
  <2>2. ram["Settings"] = Default /\ ram["Coord"] = Default
    BY <1>0, <2>1 DEF Formatting, Items
  <2>3. Loaded("Settings")' = Default /\ Loaded("Coord")' = Default
    BY <1>0, <1>n, <2>1, SameBlocks DEF Formatting, Loaded, LoadSettings, ReadVar
  <2> QED
    BY <2>1, <2>2, <2>3
<1>11. CASE SoftReset
  <2>1. ram'["Settings"] = Loaded("Settings")' /\ ram'["Coord"] = Loaded("Coord")'
    BY <1>11, <1>n, SameBlocks DEF SoftReset, ReadAll
  <2> QED
    BY <2>1
<1>12. CASE PowerFails
  <2>1. formatted' => ram'["Settings"] = Loaded("Settings")' /\ ram'["Coord"] = Loaded("Coord")'
    BY <1>12, <1>n, SameBlocks DEF PowerFails, ReadAll
  <2> QED
    BY <2>1
<1> QED
  BY <1>1, <1>2, <1>3, <1>4, <1>5, <1>6, <1>7, <1>8, <1>9, <1>10, <1>11, <1>12 DEF Next, WriterStep

\* The order of the values, step by step.
LEMMA CountedStep ==
    ASSUME IInv, [Next]_vars
    PROVE  Counted'
<1>0. TypeOK /\ WriterShape /\ WriterProgress /\ Counted
  BY DEF IInv
<1>n. /\ \A item \in Items : ram[item] \in Nat
      /\ \A c \in Copies : eep[c].crc \in Int
      /\ changes \in Nat /\ \A item \in Saved : kept[item] \in Nat
      /\ writer.crc \in Nat
  BY <1>0, BoundAssumption DEF TypeOK, Value, Block, Blank
<1>l. \A item \in Items : Loaded(item) <= changes
  BY <1>0, <1>n DEF Counted, Loaded, LoadSettings, ReadVar, Copies, Items, Default
<1> USE DEF Counted
<1>1. CASE SetSetting \/ SetCoord
  <2>1. changes' = changes + 1 /\ UNCHANGED << eep, writer, kept >>
    BY <1>1 DEF SetSetting, SetCoord
  <2>2. \A item \in Items : ram'[item] = ram[item] \/ ram'[item] = changes + 1
    BY <1>0, <1>1 DEF SetSetting, SetCoord, TypeOK
  <2>3. \A k \in Int : k <= changes => k <= changes + 1
    BY <1>n
  <2>4. \A item \in Items : ram'[item] <= changes'
    BY <1>0, <1>n, <2>1, <2>2
  <2>5. \A item \in Saved : kept'[item] <= changes'
    BY <1>0, <1>n, <2>1
  <2>6. (\A c \in Copies : eep'[c].crc <= changes') /\ writer'.crc <= changes'
    BY <1>0, <1>n, <2>1
  <2> QED
    BY <2>4, <2>5, <2>6
<1>2. CASE SaveAll \/ FormatEnd \/ UNCHANGED vars
  BY <1>0, <1>2 DEF SaveAll, FormatEnd, vars
<1>3. CASE SaveSettings
  <2>1. \A item \in Items : ram'[item] = ram[item] \/ ram'[item] = ram["Settings"]
    BY <1>0, <1>3 DEF SaveSettings, TypeOK
  <2> QED
    BY <1>0, <1>3, <2>1 DEF SaveSettings, Items
<1>4. CASE WriteStart
  <2>1. NextItem \in Items /\ writer'.crc = ram[NextItem]
    BY <1>0, <1>4, WriterEffects DEF NextItem, Items
  <2> QED
    BY <1>0, <1>4, <2>1 DEF WriteStart
<1>5. CASE WriteByte("data", writer.item, "crc") \/ WriteByte("data2", "Coord2", "crc2")
  <2>1. UNCHANGED << ram, changes, kept >>
    BY <1>5 DEF WriteByte
  <2> QED
    BY <1>0, <1>5, <2>1, WriterEffects
<1>6. CASE BeginBackup
  <2>1. UNCHANGED << ram, changes, kept >>
    BY <1>6 DEF BeginBackup
  <2> QED
    BY <1>0, <1>6, <2>1, WriterEffects
<1>7. ASSUME NEW c \in Copies, Finish(c)
      PROVE  Counted'
  <2>1. UNCHANGED << ram, changes >> /\ writer'.crc = Default
    BY <1>7 DEF Finish, Idle
  <2>2. \A item \in Saved : kept'[item] = kept[item] \/ kept'[item] = writer.crc
    BY <1>0, <1>7 DEF Finish, TypeOK
  <2>3. \A d \in Copies : eep'[d].crc = eep[d].crc \/ eep'[d].crc = writer.crc
    BY <1>0, <1>7, WriterEffects
  <2> QED
    BY <1>0, <1>n, <2>1, <2>2, <2>3 DEF Default
<1>8. CASE writer.phase = "crc" /\ writer.item # "Coord" /\ Finish(writer.item)
  <2>1. writer.item \in Copies
    BY <1>0, <1>8 DEF TypeOK, WriterShape, Copies
  <2> QED
    BY <1>7, <1>8, <2>1
<1>9. CASE writer.phase = "crc2" /\ Finish("Coord2")
  BY <1>7, <1>9 DEF Copies
<1>10. CASE SoftReset \/ PowerFails
  <2>1. UNCHANGED << eep, changes, kept >> /\ (writer' = writer \/ writer' = Idle)
    BY <1>10 DEF SoftReset, PowerFails
  <2>2. \A item \in Items : ram'[item] = Loaded(item) \/ ram'[item] = Default
    BY <1>10 DEF SoftReset, PowerFails, ReadAll
  <2> QED
    BY <1>0, <1>l, <1>n, <2>1, <2>2 DEF Default, Idle
<1> QED
  BY <1>1, <1>2, <1>3, <1>4, <1>5, <1>6, <1>8, <1>9, <1>10 DEF Next, WriterStep

-----------------------------------------------------------------------------
\* The inductive invariant holds at the start and is preserved.
LEMMA InductiveInit == Init => IInv
<1> SUFFICES ASSUME Init PROVE IInv
  OBVIOUS
<1> USE SizeAssumption, BoundAssumption DEF Init
<1>1. TypeOK
  <2>1. Default \in Value /\ 0 \in 0 .. SIZE
    BY DEF Default, Value
  <2>2. writer \in [item : Items \cup {NoItem}, phase : Phases, i : 0 .. SIZE, crc : Value]
    BY <2>1 DEF Idle, Phases
  <2>3. eep \in [Copies -> Block]
    BY DEF Block
  <2>4. changes \in 0 .. MaxChanges /\ resets \in 0 .. MaxResets /\ kept \in [Saved -> Value] /\ ram \in [Items -> Value]
    BY <2>1
  <2> QED
    BY <2>1, <2>2, <2>3, <2>4 DEF TypeOK
<1>2. WriterShape /\ WriterProgress
  BY DEF WriterShape, WriterProgress, Idle
<1>3. Formatting /\ SettingsSafe /\ CoordSafe /\ Pending
  BY DEF Formatting, SettingsSafe, CoordSafe, Pending, Intact, Items
<1>4. Counted
  BY DEF Counted, Idle, Default, Blank
<1> QED
  BY <1>1, <1>2, <1>3, <1>4 DEF IInv

\* Every step keeps the invariant.
LEMMA InductiveStep == IInv /\ [Next]_vars => IInv'
<1> SUFFICES ASSUME IInv, [Next]_vars PROVE IInv'
  OBVIOUS
<1>1. TypeOK /\ WriterShape /\ WriterProgress
  BY DEF IInv
<1> QED
  BY <1>1, TypeStep, ShapeStep, ProgressStep, FormattingStep, SettingsStep, CoordStep, PendingStep, CountedStep
  DEF IInv

\* The invariant holds of every behaviour.
LEMMA Inductive == Spec => []IInv
BY InductiveInit, InductiveStep, PTL DEF Spec

\* For every size of a variable and any number of changes, soft resets and
\* power failures: the variables keep their types.
THEOREM TypeCorrect == Spec => []TypeOK
<1>1. IInv => TypeOK
  BY DEF IInv
<1> QED
  BY <1>1, Inductive, PTL

\* At whatever byte the power fails, one copy can be read.
THEOREM OneCopy == Spec => []OneCopyIntact
<1>1. IInv => OneCopyIntact
  BY DEF IInv, OneCopyIntact, SettingsSafe, CoordSafe, WriterProgress, Intact
<1> QED
  BY <1>1, Inductive, PTL

\* A reset never brings back what is older than the newest complete save.
THEOREM NeverOlder == Spec => []NeverOlderThanKept
<1>1. ASSUME IInv, Intact
      PROVE  Loaded("Settings") >= kept["Settings"] /\ Loaded("Coord") >= kept["Coord"]
  <2>1. TypeOK /\ WriterProgress /\ SettingsSafe /\ CoordSafe
    BY <1>1 DEF IInv
  <2>2. kept["Settings"] \in Nat /\ kept["Coord"] \in Nat
    BY <2>1, BoundAssumption DEF TypeOK, Saved, Value
  <2> QED
    BY <1>1, <2>1, <2>2 DEF Intact, WriterProgress, SettingsSafe, CoordSafe, Loaded, LoadSettings, ReadVar
<1>2. IInv => NeverOlderThanKept
  BY <1>1 DEF NeverOlderThanKept, Saved
<1> QED
  BY <1>2, Inductive, PTL

\* Once nothing is pending a reset loads what RAM holds.
THEOREM NothingLost == Spec => []QuietIsSaved
<1>1. IInv => QuietIsSaved
  BY DEF IInv, QuietIsSaved, Pending, Quiet, Saved
<1> QED
  BY <1>1, Inductive, PTL
=============================================================================
