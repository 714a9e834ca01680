SPECIFICATION MCSpec
CONSTANTS
    Patient = {main}
    Hasty = {shell}
    QueueLen = 2
    MaxCalls = 4
    Slots = {0}
    Files = {a0, lng}
    LongNames = {lng}
    Audio0 = a0
    None = None
    MaxLen = 1
INVARIANTS
    OwnRequestServed
    TableHonest
PROPERTIES
    CallsReturn
    LoadedTableIsAVersion
