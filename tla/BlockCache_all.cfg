\* Items are file offsets: none is a block number.  Up to four pairs of two kinds
\* fill three blocks, so that blocks at either end and in the middle are split and
\* emptied.  Deadlock is not checked: a file that openIndex refuses, after a
\* crash, is the end of the matter.
CONSTANTS
  BLOCK_CACHE_SIZE = 3
  numMaxItems = 2
  MaxBlocks = 3
  MaxPairs <- ThreeAndOne
  KeyItem <- OffsetItems
SPECIFICATION Spec
INVARIANTS
  CacheIsInvisible
  TypeOK
  PoolPartition
  NoTwin
  ControlBlockNotParsed
  ChainLinked
  BlocksFit
PROPERTY IsItemList
CHECK_DEADLOCK FALSE
