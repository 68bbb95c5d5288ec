SPECIFICATION FairSpec
CONSTANTS
  Test = {1, 2, 3, 4, 5, 6, 7}
  Depends <- GpuDepends
  RequireSuccess <- GpuSetups
  Rank <- InOrder
  Processors <- GpuProcessors
  RunSerial = {}
  Lock = {}
  Locks <- Independent
  WantAffinity = {3, 4}
  Disabled = {7}
  Unreliable = {}
  Unit = {"gpu0", "gpu1", "key"}
  UnitType <- GpuUnits
  Total <- GpuTotal
  Requires <- GpuRequires
  MaxSlots = 3
  Cpu = {0, 1, 2}
  ParallelLevel = 5
  TestLoad = 0
  LoadAverage = {0}
  RepeatMode = "UntilFail"
  RepeatCount = 2
  HasStopTime = FALSE
  StopOnFailure = FALSE
  Failover = FALSE
INVARIANTS
  ResourcesExact
  HeldOnlyByRunning
  AffinityExact
  ResultsExact
PROPERTIES
  EventuallyAllFinished
