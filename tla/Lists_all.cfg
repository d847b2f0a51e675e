\* Two lists or shells, four links: LINEAR = 1 reaches findSortedInsert, and
\* shells have nodes after two links and levels after two nodes.
CONSTANTS
  LINEAR = 1
  MIDPOINT = 1
  OUTPOINT = 2
  RESTRUCT = 2
  NODE_LEVEL = 2
  RSTRUCT_THRESH = 0
  SUFFIXES = 2
  HEAD = HEAD
  TAIL = TAIL
  OK = OK
  NONE = NONE
  Handles = {h1, h2}
  Programs <- AllPrograms
  MaxLinks = 4
SYMMETRY Symmetry
SPECIFICATION Spec
CHECK_DEADLOCK FALSE
INVARIANTS
  NoLinkLost
  SortedListsSorted
