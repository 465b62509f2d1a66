CONSTANTS
    Mutators = {m1}
    Inspectors = {i1}
    Names = {n1, n2}
    Plain = {p1}
    NoOne = NoOne
    TheCloser = TheCloser
    NoName = NoName
    Batch = 2
    MaxScanned = 2
    MaxItems = 1
    MaxGeneration = 4
SPECIFICATION FairSpec
INVARIANTS
    CompleteIsSnapshot
PROPERTIES
    CloseCompletes
CHECK_DEADLOCK FALSE
