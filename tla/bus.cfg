SPECIFICATION FairSpec
CONSTANTS
  Services = {"s"}
  Others = {"t"}
  Installed = {"s", "t"}
  Clients = {"c1", "c2"}
  Commands <- SomeCommands
  Capacity = 3
  MaxCommands = 2
INVARIANT JobsPaired
INVARIANT EventsTellStatus
PROPERTY IsActiveTruthful
PROPERTY HearsTheEnd
PROPERTY CommandsEnd
CHECK_DEADLOCK FALSE
