SPECIFICATION CalmSpec
CONSTANTS
    BLOCK_BUFFER_SIZE = 4
    Nominals = {4, 9}
    Junctions = {1, 3}
    Lengths = {1, 3}
INVARIANTS TypeOK PlanStopsInTime NoSpeedWasted
PROPERTY AccelerationRespected
