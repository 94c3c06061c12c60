SPECIFICATION FairSpec
CONSTANTS
  Base = 256
  Utf8BufLen = 4
  Bech32mBufLen = 6
  SeqLen <- SequenceLength
  Legal <- LegalSequence
  Inputs <- MCInputs
INVARIANTS
  StreamsTypeOK
  NeverOverflows
  AddressReadsBack
  ChecksUnicode
PROPERTIES
  Delivers
  Returns
CHECK_DEADLOCK FALSE
