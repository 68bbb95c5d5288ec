SPECIFICATION FairSpec
CONSTANTS
  listed = listed
  found = found
  main = main
  meta = meta
  Header = {listed, found}
  Source = {main}
  Listed = {listed}
  Dep = {meta}
  Contents <- MCContents
  NoEntry = NoEntry
  ThreadCount = 2
  MaxTime = 6
  CanOutputDependencies = FALSE
  DepFile = TRUE
INVARIANTS
  UpToDate
  CompilationExact
  StagesKeptApart
PROPERTIES
  RunsEnd
