SPECIFICATION FairSpec
CONSTANTS
  N = 2
  a = a
  b = b
  c = c
  f = f
  g = g
  None = None
  Client = {a, b, c}
  File = {f, g}
  HashOf <- MCHashOf
  Alias <- NoAlias
  NameRank <- MCRank
  Job <- PutPutList
  After <- FirstAlone
  LocalSize <- NoG
  MaxStamp = 2
  SameMicrosecond = FALSE
  MaxSlow = 0
  MaxCrash = 0
  MaxRestart = 0
  MaxKill = 1
INVARIANTS
  ListShowsStored
  ListIsHonest
PROPERTIES
  PutsAndListsEnd
CHECK_DEADLOCK FALSE
