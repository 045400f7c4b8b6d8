CONSTANTS
  NoExpr = NoExpr
  Panic = Panic
  NoPlatform = NoPlatform
  Norm <- MCNorm
  PlatformTokens <- MCPlatformTokens
  Vocab <- MCVocab
  Corpora <- MCCorpora
SPECIFICATION Spec
INVARIANT ValidFilesRegistered
\* init() returns after loading; nothing follows in this package.
CHECK_DEADLOCK FALSE
