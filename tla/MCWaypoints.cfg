\* Every player and NPC of MCWaypoints, ticking through their waypoints.
SPECIFICATION WalkSpec
CONSTANTS
  PlayerLists <- MCPlayerLists
  NpcLists <- MCNpcLists
  TickMs = 1
  DurationMs = 10
  LookAhead = 2
  StoppedSpeed = 1
  Noise = 1
INVARIANTS
  PredictionComesTrue
  TurnsOnlyWhenTold
\* The ticks end with the scenario.
CHECK_DEADLOCK FALSE
