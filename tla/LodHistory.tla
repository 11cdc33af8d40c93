----------------------------- MODULE LodHistory -----------------------------
(***************************************************************************)
(* LodPredictor with the history its properties speak of: what each NPC    *)
(* was asked for, and where it was when it gave up a LOD.                  *)
(***************************************************************************)
EXTENDS LodPredictor

VARIABLES
  asked,   \* per weight, how often it was asked for
  seen,    \* per NPC, its distance at the latest tick
  left     \* per NPC and LOD, its distance when it last left it outwards

historyVars == <<asked, seen, left>>

Nowhere == -1

HistoryInit ==
  /\ Init
  /\ asked = [k \in Key |-> 0]
  /\ seen = [n \in Npc |-> Nowhere]
  /\ left = [n \in Npc |-> [l \in Lods |-> Nowhere]]

\* An NPC leaves its LOD for a coarser one or for none.
LeavesOutwards(n, want) == want[n] > last_lod[n] \/ want[n] = Off

LeftAfter(want, dist) ==
  [n \in Npc |-> [l \in Lods |->
     IF l = last_lod[n] /\ LeavesOutwards(n, want) THEN dist[n] ELSE left[n][l]]]

HistoryTick ==
  \E dist \in [Npc -> Distance] :
    /\ TickSeeing(dist)
    /\ asked' = MoreOf(asked, Missing(Wanted(dist)))
    /\ seen' = dist
    /\ left' = LeftAfter(Wanted(dist), dist)

HistoryComplete(k) == Complete(k) /\ UNCHANGED historyVars

HistoryNext == HistoryTick \/ \E k \in Key : HistoryComplete(k)

HistorySpec == HistoryInit /\ [][HistoryNext]_<<vars, historyVars>>
-----------------------------------------------------------------------------
(***************************************************************************)
(* Every weight an NPC ever needed is asked for exactly once in a run, and *)
(* it is either on its way or there: the sets in_flight_ and resident_,    *)
(* written by the tick and by the completion callback, together suppress   *)
(* every duplicate, and neither forgets a weight.                          *)
(***************************************************************************)
AskedOnce ==
  /\ \A k \in Key : asked[k] = IF k \in in_flight \cup resident THEN 1 ELSE 0
  /\ \A k \in Key : fetches[k] = IF k \in in_flight THEN 1 ELSE 0
  /\ in_flight \cap resident = {}
  /\ \A n \in Npc : last_lod[n] \in Lods =>
       [npc |-> n, lod |-> last_lod[n]] \in in_flight \cup resident

(***************************************************************************)
(* No thrashing at a boundary: an NPC that has left a LOD outwards gets it *)
(* back, by whatever detour, only after it has come closer by the whole    *)
(* deadband.  (Design_Detail.md: without it the swap traffic of one NPC at *)
(* a boundary takes more than the bus has.)                                *)
(***************************************************************************)
NoThrash ==
  [][\A n \in Npc : \A l \in Lods :
       /\ last_lod'[n] = l
       /\ last_lod[n] # l
       /\ left[n][l] # Nowhere
       => 100 * (left[n][l] - seen'[n]) > HysteresisPct * MaxDistance[l]]_<<vars, historyVars>>
=============================================================================
