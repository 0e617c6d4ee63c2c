SPECIFICATION Spec
CONSTANTS
  N = 2
  a = a
  b = b
  c = c
  f = f
  g = g
  None = None
  Client = {a, c}
  File = {f}
  HashOf <- MCHashOf
  Alias <- NoAlias
  NameRank <- MCRank
  Job <- PutGet
  After <- AllAtOnce
  LocalSize <- Big
  MaxStamp = 1
  SameMicrosecond = FALSE
  MaxSlow = 1
  MaxCrash = 2
  MaxRestart = 1
  MaxKill = 0
INVARIANTS
  NoTornRead
  InStep
  AckedIsStored
  IncompleteOnlyIfCut
  AnswersMatch
CHECK_DEADLOCK FALSE
PROPERTIES
  IsChunkStore
