\* One NPC moves freely between nine distances for five ticks.
SPECIFICATION HistorySpec
CONSTANTS
  Npc = {7}
  Distance <- MCDistance
  MaxDistance <- MCMaxDistance
  HysteresisPct = 20
  TickUs = 16667
  DurationUs = 83335
INVARIANTS
  TypeOK
  AskedOnce
PROPERTIES
  NoThrash
\* A run ends when every event has been run.
CHECK_DEADLOCK FALSE
