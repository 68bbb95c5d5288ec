SPECIFICATION FairSpec
CONSTANTS
  data = data
  link = link
  other = other
  f = f
  g = g
  p1 = p1
  p2 = p2
  Process = {p1, p2}
  File = {f, g}
  Name = {data, other}
  FileOf <- MCFileOf
  Nobody = Nobody
  NoRequest = NoRequest
  Timeouts <- MCTimeouts
  MaxScopes <- MCMaxScopes
  LockTwice = FALSE
INVARIANTS
  LockedIsOwned
  OwnedIsLocked
PROPERTIES
  TimeoutReturns
