\* Every kind of request, while files come and go.
SPECIFICATION Spec
CONSTANTS
    NULL = NULL
    Requests <- AllRequests
    Configs <- AllConfigs
    Trees <- AllTrees
    Canonical <- Names
    MimeList <- Types
    PageLen = 3
    WIDTH = 8
    MaxChanges = 1
INVARIANTS
    StatusRight
    HandlesOwned
    Framed
    
    HeadComplete
    DefinedUnless
CHECK_DEADLOCK FALSE
