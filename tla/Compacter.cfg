SPECIFICATION FairSpec
CONSTANTS
  Base = 8
  Code <- CheckedInCode
  Text <- MCText
  Names <- MCNames
  More <- MCMore
  Builtins <- MCBuiltins
  Rank <- MCRank
  Inputs <- MCInputs
  MaxDepth = 4
INVARIANTS CompacterTypeOK PackedClosed BuiltinsKept GoodFilesMerge PackedReadsBack
PROPERTIES Implements Finishes
CHECK_DEADLOCK FALSE
