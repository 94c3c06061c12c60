SPECIFICATION SrcFairSpec
CONSTANTS
  Blocks <- FewBlocks
  BufLens <- MCBufLens
  Own = {data}
  Static = static
  Handles = {h1}
  MaxCache = 2
  WordMod = 7
  MaxSize = 3
  CmpBuf = 3
INVARIANTS SrcTypeOK Coherent CheckedStaysInside
PROPERTIES Transparent ComparisonsEnd
