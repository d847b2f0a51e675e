\* A unique index that is updated and read, and one with duplicates that is
\* loaded and scanned; four pairs fill three blocks.
CONSTANTS
  BLOCK_CACHE_SIZE = 3
  numMaxItems = 2
  SUFFIXES = 10
  KeyItem <- AllPairs
  Uses <- AllUses
  MaxBlocks = 3
  MaxPairs = 4
SPECIFICATION Spec
INVARIANTS
  NumItemsExact
  ShellNamesFirstKeys
  
 
