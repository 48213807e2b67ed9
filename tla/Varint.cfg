CONSTANTS
  Words32 <- MCWords32
  Words64 <- MCWords64

SPECIFICATION Spec

INVARIANTS
  ReadsBack
  SkipsWhatItReads
