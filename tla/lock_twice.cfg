SPECIFICATION Spec
CONSTANTS
  data = data
  link = link
  other = other
  f = f
  g = g
  p1 = p1
  p2 = p2
  Process = {p1, p2}
  File = {f}
  Name = {data, link}
  FileOf <- LinkFileOf
  Nobody = Nobody
  NoRequest = NoRequest
  Timeouts <- MCTimeouts
  MaxScopes <- MCMaxScopes
  LockTwice = TRUE
INVARIANTS
  Exclusive
