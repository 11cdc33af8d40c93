\* Every order of up to four schedule() calls, cancellations, pops and peeks.
SPECIFICATION Spec
CONSTANTS
  e1 = e1
  e2 = e2
  e3 = e3
  e4 = e4
  Event <- MCEvent
  MaxTime = 1
INVARIANTS
  TypeOK
  SeqIdentifiesEntries
PROPERTIES
  ImplementsTimeline
\* A run ends when the heap is empty and nothing more is scheduled.
CHECK_DEADLOCK FALSE
