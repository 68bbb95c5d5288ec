SPECIFICATION Spec
CONSTANTS
  Test = {1, 2, 3, 4}
  Fixture = {"foo", "bar"}
  Suites <- MCSuites
INVARIANTS
  CyclesFound
  DependenciesBefore
  FixturesComplete
  FixturesOrdered
