SPECIFICATION Spec
CONSTANTS
  Target = {1, 2, 3, 4}
  Projects <- MCProjects
INVARIANTS
  ComponentsExact
  BuildOrderSafe
  CyclesRejected
  SideEffectsKept
