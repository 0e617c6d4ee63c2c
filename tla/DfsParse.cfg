SPECIFICATION Spec
CONSTANTS
  t1 = t1
  t2 = t2
  Thread = {t1, t2}
  Header <- TwoPuts
  Junk = Junk
  Null = Null
INVARIANTS
  FiledAsNamed
CHECK_DEADLOCK FALSE
