\* Four transactions issued at any time up to MaxTime, in any order.
SPECIFICATION Spec
CONSTANTS
  a1 = a1
  a2 = a2
  x1 = x1
  w1 = w1
  Txn <- MCTxn
  Tx <- MCTx
  Cfg <- MCCfg
  MaxTime = 4
INVARIANTS
  TypeOK
  OneTransferAtATime
  NothingLost
  WorkConserving
  TraceWellFormed
  DeadlinesHonoured
  KpiMatchesTrace
PROPERTIES
  NeverOvertaken
  EveryTransactionEnds
  ImplementsBusContract
\* A run ends when every event has been run.
CHECK_DEADLOCK FALSE
