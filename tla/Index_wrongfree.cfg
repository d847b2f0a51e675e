\* Items that are block numbers, as record numbers are.
CONSTANTS
  BLOCK_CACHE_SIZE = 3
  numMaxItems = 2
  SUFFIXES = 10
  KeyItem <- NearPairs
  Uses <- NearUses
  MaxBlocks = 3
  MaxPairs = 4
SPECIFICATION Spec
INVARIANT NumItemsExact
