------------------------- MODULE MCIntentPredictor -------------------------
(***************************************************************************)
(* A quest NPC and another one on a single core, four ticks, and a cache   *)
(* that holds one LOD0 and one LOD1, or less.  The interactions of n2      *)
(* overlap and the later one is listed first.                              *)
(***************************************************************************)
EXTENDS IntentPredictor

CONSTANTS n1, n2

MCNpc  == {n1, n2}
MCRank == [n \in MCNpc |-> IF n = n1 THEN 1 ELSE 2]
MCKey  == [npc : MCNpc, lod : 0..2]
MCSize == [k \in MCKey |-> CASE k.lod = 0 -> 4 [] k.lod = 1 -> 2 [] k.lod = 2 -> 1]

MCInteractions ==
  << [npc |-> n2, at_ms |-> 4, duration_ms |-> 2],
     [npc |-> n2, at_ms |-> 2, duration_ms |-> 3],
     [npc |-> n1, at_ms |-> 4, duration_ms |-> 2] >>

MCBand == [stopped_dist_m |-> 1, close_m |-> 2, near_m |-> 4, visible_m |-> 5]

MCSnapshot ==
  { [distance_m |-> 2, in_frustum |-> TRUE,  approaching |-> FALSE],
    [distance_m |-> 4, in_frustum |-> TRUE,  approaching |-> FALSE],
    [distance_m |-> 6, in_frustum |-> FALSE, approaching |-> FALSE] }
=============================================================================
