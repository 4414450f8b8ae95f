SPECIFICATION Spec
CONSTANTS
    GRBL_LINE_BUFFER_SIZE = 4
    GRBL_RX_LEN_PROTOCOL = 6
    Lines <- ProperLines
    MaxLines = 3
    MaxResets = 1
INVARIANTS TypeOK NothingOverwritten
PROPERTY CommandSpec
