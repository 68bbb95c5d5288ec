SPECIFICATION FairSpec
CONSTANTS
  probeMoc = probeMoc
  probeUic = probeUic
  badProbe = badProbe
  probeFinish = probeFinish
  compileMoc = compileMoc
  compileUic = compileUic
  finish = finish
  w1 = w1
  w2 = w2
  w3 = w3
  Worker = {w1, w2, w3}
  Job <- MCJob
  FenceJob = {probeFinish, finish}
  Script <- MCScript
  InitialQueue <- MCInitialQueue
  Free = Free
  NoJob = NoJob
INVARIANTS
  CountersExact
  LoopServesWorkers
PROPERTIES
  ImplementsQueue
  JobsAreTaken
  AbortReturns
