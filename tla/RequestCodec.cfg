CONSTANTS
  Messages <- MCMessages
  Nesting <- MCNesting
  Scratch = 256
  MayFail = TRUE
  Plain = {0, 93, 94, 95, 128}
  Full = {0, 26, 27, 28, 128}

SPECIFICATION CodecSpec

INVARIANTS
  BothWaysAgree
  NoBlockLeaks
  ServerReadsIt
