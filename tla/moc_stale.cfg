SPECIFICATION Spec
CONSTANTS
  listed = listed
  found = found
  main = main
  meta = meta
  Header = {listed, found}
  Source = {main}
  Listed = {listed}
  Dep = {meta}
  Contents <- MCContents
  NoEntry = NoEntry
  ThreadCount = 2
  MaxTime = 6
  CanOutputDependencies = TRUE
  DepFile = FALSE
INVARIANTS
  UpToDate
