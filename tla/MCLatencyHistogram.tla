------------------------- MODULE MCLatencyHistogram -------------------------
(***************************************************************************)
(* Two histograms of 8 buckets, up to 16 microseconds, and up to four      *)
(* samples: around 0, on and next to bucket bounds, and beyond the last.   *)
(***************************************************************************)
EXTENDS LatencyHistogram

CONSTANTS h1, h2

MCHistogram == {h1, h2}
MCLatency   == {-1, 0, 1, 2, 3, 4, 5, 6, 11, 12, 16, 40}
MCPermille  == {-1, 0, 500, 501, 990, 1000, 1001}
=============================================================================
