SPECIFICATION ResumeSpec
CONSTANTS
  Test = {1, 2, 3, 4}
  Depends <- Independent
  RequireSuccess <- Independent
  Rank <- InOrder
  Processors <- OneEach
  RunSerial = {4}
  Lock = {}
  Locks <- Independent
  WantAffinity = {}
  Disabled = {}
  Unreliable = {2}
  Unit = {}
  UnitType <- NoUnits
  Total <- NoUnits
  Requires <- NoResources
  MaxSlots = 3
  Cpu = {}
  ParallelLevel = 2
  TestLoad = 2
  LoadAverage = {0, 1, 3}
  RepeatMode = "Never"
  RepeatCount = 1
  HasStopTime = FALSE
  StopOnFailure = FALSE
  Failover = TRUE
  MaxCrashes = 2
INVARIANTS
  AllTestsCompleted
  CheckpointExact
PROPERTIES
  FinishedNotRepeated
