\* A unique container and one with equal keys.
CONSTANTS
  LINEAR = 16
  MIDPOINT = 1
  OUTPOINT = 2
  RESTRUCT = 2
  NODE_LEVEL = 2
  RSTRUCT_THRESH = 0
  HEAD = HEAD
  TAIL = TAIL
  OK = OK
  NONE = NONE
  Scripts <- StringScripts
  Values = {1, 2, 3}
  Heavy = {FALSE}
SPECIFICATION Spec
CHECK_DEADLOCK FALSE
INVARIANTS
  ContentsExact
  CursorAlive
PROPERTY OthersUntouched
