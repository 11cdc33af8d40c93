----------------------------- MODULE MCNpuCache -----------------------------
(***************************************************************************)
(* Four weights of three sizes in a cache of five bytes: room for two or   *)
(* three of them.                                                          *)
(***************************************************************************)
EXTENDS CacheClient

CONSTANTS k1, k2, k3, k4

MCKey  == {k1, k2, k3, k4}
MCSize == [k \in MCKey |-> CASE k = k1 -> 4 [] k = k2 -> 2 [] k = k3 -> 2 [] k = k4 -> 1]
=============================================================================
