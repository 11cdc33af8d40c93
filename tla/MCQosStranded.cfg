\* The bus falls idle with an audio packet in the critical queue, and nothing wakes it.
SPECIFICATION Spec
CONSTANTS
  a1 = a1
  a2 = a2
  x1 = x1
  w1 = w1
  Txn <- MCTxn
  Tx <- MCTx
  Cfg <- MCCfg
  BurstUs = 5
  MaxTime = 5
PROPERTY
  CriticalWaitsForRefill
CHECK_DEADLOCK FALSE
