SPECIFICATION Spec
CONSTANTS
  Base = 4
  Utf8BufLen = 4
  Byte32Len = 2
  Uint64Len = 3
  SeqLen <- MCSeqLen
  Legal <- MCLegal
  Defs <- MixedDefs
  Inputs <- MixedInputs
INVARIANTS
  AcceptsValid
