\* A table with three indexes, one of them unique, of up to three records: one
\* program edits it, another packs and reindexes it and crashes.
CONSTANTS
  Fields <- TheFields
  Indexes <- DupUniqueMulti
  TABLE_FLUSH = 2
  TABLE_BUFFER_SIZE = 2
  Programs <- EditAndRebuild
  MaxRecords = 3
SPECIFICATION Spec
INVARIANTS
  EveryRecordListed
  UniqueRecords
  HeaderFollows
  CursorAgrees
PROPERTIES
  RejectedAddLeavesNoTrace
  MassAddSplits
  UpdateSucceeds
  PackKeepsTheLive
