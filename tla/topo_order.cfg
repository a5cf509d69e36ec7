SPECIFICATION Spec
CONSTANTS
  Unit = {a, b, c}
  Inputs <- SmallInputs
  MaxEdges = 4
INVARIANT CountsExact
INVARIANT ErrIsStuck
PROPERTY KeepsPromise
CHECK_DEADLOCK FALSE
