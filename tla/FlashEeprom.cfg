SPECIFICATION Spec
CONSTANTS
    SIZE = 3
    Used = {0, 2}
    v1 = v1
    v2 = v2
    Val = {v1, v2}
    Blank = Blank
    ELEMENTS = 3
    PackAt = 1
    Byte = {v1, v2}
    Merged <- Replaced
    EEPROM_WRITE_BUFFER = 2
    MaxResets = 1
SYMMETRY Values
CONSTRAINT Explored
\* After the event that wounds the store nothing more is explored.
CHECK_DEADLOCK FALSE
INVARIANTS TypeOK HasCurrentPage TriggeredPackCanRun
PROPERTIES WordsAreDurable PackLeavesBlankPages
