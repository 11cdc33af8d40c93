\* Pins against the interactions they belong to: expected to be violated.
SPECIFICATION Spec
CONSTANTS
  n1 = n1
  n2 = n2
  Npc <- MCNpc
  Rank <- MCRank
  Quest = {n1}
  Interactions <- MCInteractions
  Snapshot <- MCSnapshot
  Band <- MCBand
  Cores = 1
  TickUs = 2
  DurationMs = 8
  UsPerMs = 1
  KeySpan = 4
  MaxTime = 8
  Key <- MCKey
  Size <- MCSize
  Capacity = 6
  Word = 4096
INVARIANT
  PinsEndWithTheInteraction
CHECK_DEADLOCK FALSE
