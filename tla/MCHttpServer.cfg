SPECIFICATION MCSpec
CONSTANTS
  p1 = p1
  p2 = p2
  Conn = {p1, p2}
  Page <- SiteNames
  Kind <- SmallSite
  Pieces <- Sizes
  Malformed = Malformed
  NoRequest = NoRequest
  MaxFiles = 3
INVARIANTS
  TypeOK
  SentIsThePage
  FirstPagesAreFound
  OnePageAfterSigint
PROPERTIES
  CloseIsLast
  GracefulEnd
CHECK_DEADLOCK FALSE
