SPECIFICATION MCSpec
CONSTANTS
  c1 = c1
  c2 = c2
  f = f
  g = g
  NoOne = NoOne
  Client = {c1}
  File = {f}
  Buf = 2
  Unit = {"a1", "a2", "a3", "b1", "b2", "b3"}
  Text = "text"
  Junk = "junk"
  Cmds = {"get", "put", "delete", "ls", "exit"}
  MaxCmd = 2
  FaultKinds = {"lose", "delay", "reorder", "duplicate"}
  MaxFault = 2
INVARIANTS
  TypeOK
  PutIsStored
  GetIsPrefix
  AnswerIsTrue
  NothingLeftOver
PROPERTIES
  CommandsEnd
  PutsEnd
CHECK_DEADLOCK FALSE
