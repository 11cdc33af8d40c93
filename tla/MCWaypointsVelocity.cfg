\* Velocity at the first waypoint: expected to be violated.
SPECIFICATION WalkSpec
CONSTANTS
  PlayerLists <- MCBackwardPlayer
  NpcLists <- MCBackwardNpc
  TickMs = 1
  DurationMs = 10
  LookAhead = 2
  StoppedSpeed = 1
  Noise = 1
INVARIANT
  VelocityAroundNow
\* The ticks end with the scenario.
CHECK_DEADLOCK FALSE
