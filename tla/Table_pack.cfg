\* A table without a unique index is packed: the last record may be there twice.
CONSTANTS
  Fields <- TheFields
  Indexes <- DupAndMulti
  TABLE_FLUSH = 2
  TABLE_BUFFER_SIZE = 2
  Programs <- OnlyPack
  MaxRecords = 3
SPECIFICATION Spec
PROPERTY
  PackKeepsTheLive
