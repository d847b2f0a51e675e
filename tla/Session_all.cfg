\* Two processes and two tables in one workspace, with kills and restarts.
CONSTANTS
  a = a
  b = b
  scripts = scripts
  admin = admin
  Proc = {scripts, admin}
  Tables = {a, b}
  Workspace <- Both
  Calls <- Work
  TABLE_FLUSH = 2
  MaxRecords <- TwoOfA
  MaxSequence <- OnlyA
SPECIFICATION FairSpec
INVARIANTS
  TypeOK
  SharedOnlyByRace
  SequenceExact
  IndexesComplete
PROPERTY ExitUnlocks
