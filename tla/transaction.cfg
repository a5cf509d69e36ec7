\* Every request on three units with a few dependency lines.
SPECIFICATION Spec
CONSTANTS
  a = a
  b = b
  c = c
  None = None
  Names <- ThreeNames
  Kinds = {"Wants", "Requires", "Requisite", "BindsTo", "PartOf", "Conflicts", "PropagatesReloadTo", "PropagatesStopTo", "After", "WantedBy"}
  DeepKinds = {"Wants", "Requires", "Requisite", "BindsTo", "PropagatesStopTo"}
  IsolateKinds = {"Upholds", "PartOf", "Conflicts", "Before", "UpheldBy", "Unit", "PropagatesReloadTo"}
  Cases <- SmallCases
INVARIANTS
  RecursionBounded
  JobsAreClosure
  FailsOnlyForHard
  IsolateStops
PROPERTIES
  RestartStays
CHECK_DEADLOCK FALSE
