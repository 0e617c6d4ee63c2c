SPECIFICATION Spec
CONSTANTS
  N = 4
  a = a
  b = b
  c = c
  f = f
  g = g
  None = None
  Client = {a, b, c}
  File = {f}
  HashOf <- MCHashOf
  Alias <- NoAlias
  NameRank <- MCRank
  Job <- PutPutGet
  After <- InTurn
  LocalSize <- Big
  MaxStamp = 2
  SameMicrosecond = FALSE
  MaxSlow = 1
  MaxCrash = 0
  MaxRestart = 0
  MaxKill = 0
INVARIANTS
  OneVersion
CHECK_DEADLOCK FALSE
