SPECIFICATION Spec
CONSTANTS
  Test = {1, 2, 3, 4, 5, 6}
  Depends <- SuiteDepends
  RequireSuccess <- SuiteRequires
  Rank <- SuiteRank
  Processors <- SuiteProcessors
  RunSerial = {5}
  Lock = {"db", "port"}
  Locks <- SuiteLocks
  WantAffinity = {}
  Disabled = {6}
  Unreliable = {1, 2}
  Unit = {}
  UnitType <- NoUnits
  Total <- NoUnits
  Requires <- NoResources
  MaxSlots = 3
  Cpu = {}
  ParallelLevel = 3
  TestLoad = 3
  LoadAverage = {0, 2, 4}
  RepeatMode = "UntilPass"
  RepeatCount = 2
  HasStopTime = TRUE
  StopOnFailure = FALSE
  Failover = FALSE
INVARIANTS
  TypeOK
  SlotsExact
  LocksExact
  SetupsSucceeded
PROPERTIES
  ImplementsSuite
  NothingStartsLate
