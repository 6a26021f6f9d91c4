\* A URL that a read cuts in two.
SPECIFICATION Spec
CONSTANTS
    Inputs <- Messages
    HTTP_MAX_HEADER_SIZE = 60
    ULLONG_MAX = 31
    NULL = NULL
    ReadSizes = {1, 3}
INVARIANT UrlWhole
CHECK_DEADLOCK FALSE
