SPECIFICATION FairSpec
CONSTANTS
  N = 2
  a = a
  b = b
  c = c
  f = f
  g = g
  None = None
  Client = {a, b, c}
  File = {f}
  HashOf <- MCHashOf
  Alias <- NoAlias
  NameRank <- MCRank
  Job <- PutPutGet
  After <- AllAtOnce
  LocalSize <- Big
  MaxStamp = 2
  SameMicrosecond = FALSE
  MaxSlow = 0
  MaxCrash = 0
  MaxRestart = 0
  MaxKill = 0
INVARIANTS
  TypeOK
  MutualExclusion
  FileInOrder
PROPERTIES
  IsChunkStore
  AllEnd
  MutexReleased
CHECK_DEADLOCK FALSE
