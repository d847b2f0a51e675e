\* Two definition files, each possibly damaged in one place.
CONSTANTS
  Letters <- AllLetters
  Digits <- Numbers
  Syllables <- AllSyllables
  MAXIDSIZE = 8
  MAXTOKENSIZE = 12
  MAX_MIDX = 1
  MaxFiles = 2
  Programs <- AllPrograms
  Betweens <- Remarks
SPECIFICATION Spec
CHECK_DEADLOCK FALSE
INVARIANTS
  DefinedAsWritten
  FailureIsLocal
