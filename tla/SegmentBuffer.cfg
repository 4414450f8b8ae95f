SPECIFICATION Spec
CONSTANTS
    SEGMENT_BUFFER_SIZE = 3
    Blocks = {b1, b2}
    NoBlock = NoBlock
    MaxSteps = 2
INVARIANTS BlockDataIntact NewBlockIsNoticed
PROPERTY StreamSpec
