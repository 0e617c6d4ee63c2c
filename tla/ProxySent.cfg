SPECIFICATION MCSpec
CONSTANTS
  p1 = p1
  p2 = p2
  h1 = h1
  h2 = h2
  NoOne = NoOne
  Proc = {p1, p2}
  Host = {h1, h2}
  MaxPage = 2
  PageSize <- Shrinks
INVARIANTS
  SentIsAPage
CHECK_DEADLOCK FALSE
