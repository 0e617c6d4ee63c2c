SPECIFICATION Spec
CONSTANTS
  N = 3
  a = a
  b = b
  c = c
  f = f
  g = g
  None = None
  Client = {a, b, c}
  File = {f}
  HashOf <- MCHashOf
  Alias <- NoAlias
  NameRank <- MCRank
  Job <- PutPutGet
  After <- InTurn
  LocalSize <- Big
  MaxStamp = 2
  SameMicrosecond = FALSE
  MaxSlow = 0
  MaxCrash = 1
  MaxRestart = 1
  MaxKill = 0
INVARIANTS
  AckedIsStored
  NoStaleChunk
  IncompleteOnlyIfCut
CHECK_DEADLOCK FALSE
