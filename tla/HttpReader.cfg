\* Messages and text that is no message, cut into buffers in every way.
SPECIFICATION Spec
CONSTANTS
    Inputs <- AllInputs
    HTTP_MAX_HEADER_SIZE = 60
    ULLONG_MAX = 31
    NULL = NULL
    ReadSizes = {1, 3}
INVARIANTS
    ParsedAsSent
    MethodExact
    ClosedIsLast
    HeaderBounded
    AssertsHold
    RequestWhole
PROPERTY
    ExecuteReturns
CHECK_DEADLOCK FALSE
