SPECIFICATION FairSpec
CONSTANTS
  c1 = c1
  rust = rust
  Node = {c1, rust}
  FirstAlive <- First
  NextAlive <- Interval
  Wake <- PollTime
  Timeout = 4
  PollMax = 1
  MaxReenter = 1
INVARIANTS TypeOK NamedIsRecent DroppedOnlyIfSilent
PROPERTIES FoundsAlone GoneIsForgotten
CHECK_DEADLOCK FALSE
