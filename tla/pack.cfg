SPECIFICATION Spec
CONSTANTS
  Unit = {1, 2, 3, 4}
  Total <- MixedTotal
  Test <- MixedTests
  Needs <- MixedNeeds
  Strategies = {"RoundRobin", "Block"}
  MaxGrants = 3
INVARIANTS
  FindsPacking
  NeverRefused
