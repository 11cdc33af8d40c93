\* Every run of MCRuns from its start to the end of its last event.
SPECIFICATION Spec
CONSTANTS
  Txn <- MCTxn
  Tx <- MCTx
  Cfg <- MCCfg
  BurstUs = 4
  Npcs <- MCNpcs
  Quest = {1}
  Interactions <- MCInteractions
  Snapshot <- MCSnapshot
  Band <- MCBand
  Cores = 1
  KeySpan = 256
  Size <- MCSize
  Capacity = 10
  Word = 4096
  Distance = {10, 30, 37}
  MaxDistance <- MCMaxDistance
  HysteresisPct = 20
  TickUs = 3
  DurationMs = 5
  UsPerMs = 2
  MaxTime = 40
  Runs <- MCRuns
INVARIANTS
  AgendaSound
  TrafficOnTime
PROPERTIES
  RunEnds
  ImplementsBus
  ImplementsPredictor
\* A run ends when every event has been run.
CHECK_DEADLOCK FALSE
