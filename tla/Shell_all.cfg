\* Nodes after two links and levels after two nodes.
CONSTANTS
  LINEAR = 16
  MIDPOINT = 1
  OUTPOINT = 2
  RESTRUCT = 2
  NODE_LEVEL = 2
  RSTRUCT_THRESH = 0
  SUFFIXES = 2
  HEAD = HEAD
  TAIL = TAIL
  OK = OK
  NONE = NONE
  Shapes <- AllShells
SPECIFICATION ShellSpec
CHECK_DEADLOCK FALSE
INVARIANTS
  LinksInOrder
  NodesLeadOn
  SearchesExact
  HashExact
