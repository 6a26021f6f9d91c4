SPECIFICATION Spec
CONSTANTS
  Name = {a, b}
  Port = {8081, 65536}
  None = None
  MaxHosts = 3
SYMMETRY NameSymmetry
INVARIANTS TypeOK OneDefault
PROPERTY HiddenOnlyLast
CHECK_DEADLOCK FALSE
