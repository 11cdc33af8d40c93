\* Every sequence of records and merges with up to four samples.
SPECIFICATION HistSpec
CONSTANTS
  h1 = h1
  h2 = h2
  Histogram <- MCHistogram
  BucketCount = 8
  Latency <- MCLatency
  Permille <- MCPermille
  MaxSamples = 4
INVARIANTS
  PercentileRoundsUp
  MergeLosesNothing
\* The bound on samples stops the model, not the program.
CHECK_DEADLOCK FALSE
