-------------------------- MODULE IntentPredictor --------------------------
(***************************************************************************)
(* IntentPredictor: at every tick it decides which weight (LOD) each NPC   *)
(* should have, serves the interactions that begin from the cache, on one  *)
(* of the NPU cores, and asks the bus for the weights that are missing.    *)
(* A weight that has come over the bus is admitted to the cache.           *)
(*                                                                         *)
(* The motion of the player and of the NPCs is abstracted: each tick sees  *)
(* any combination of the snapshots the scenario can produce.  The bus is  *)
(* external here (Scheduler models it): it completes what was asked for at *)
(* any later time, in any order, and reports the LOD it was asked for,     *)
(* which it reads off the size.  Simulation closes the loop.               *)
(***************************************************************************)
EXTENDS NpuCache, Sequences

CONSTANTS
  Npc,            \* the NPCs of the scenario
  Rank,           \* their order in scenario_.npcs
  Quest,          \* those of priority "quest"
  Interactions,   \* scenario_.interactions: a sequence of [npc, at_ms, duration_ms]
  Snapshot,       \* what a tick may see of an NPC: [distance_m, in_frustum, approaching]
  Band,           \* [stopped_dist_m, close_m, near_m, visible_m]
  Cores,          \* npu_cores_
  TickUs,         \* tick_us_
  DurationMs,     \* scenario_.duration_ms
  UsPerMs,        \* microseconds in a millisecond of a scenario: 1000
  KeySpan,        \* values that the bits of at_ms kept in an interaction's key can take: 256
  MaxTime         \* bound: the bus completes nothing later

Lods == 0..2
NoLod == -1
NoTick == -1

ASSUME KeyAssumption == Key = [npc : Npc, lod : Lods]
ASSUME NpcAssumption == IsFiniteSet(Npc) /\ \A s \in Snapshot : s.distance_m \in Nat
ASSUME RankAssumption == Rank \in [Npc -> Nat] /\ \A m, n \in Npc : Rank[m] = Rank[n] => m = n
ASSUME CoresAssumption ==
  /\ Cores \in Nat /\ DurationMs \in Nat
  /\ TickUs \in Nat \ {0} /\ KeySpan \in Nat \ {0} /\ UsPerMs \in Nat \ {0}
ASSUME InteractionsAssumption ==
  Interactions \in Seq([npc : Npc, at_ms : Nat, duration_ms : Nat])

VARIABLES
  now,         \* the time of the latest event, in microseconds
  next_tick,   \* the time of the tick in the event queue
  slots,       \* slots_, by the NPC that occupies one: [lod, ends_at_ms]
  in_flight,   \* in_flight_
  handled,     \* interact_handled_
  fetches,     \* external: per weight, its transactions on their way over the bus
  kpi          \* PredictorKpi; degradations is always cache_misses
\* last_lod_ is written and never read, so it is left out.

vars == <<entries, bytes_used, now, next_tick, slots, in_flight, handled, fetches, kpi>>

Counters == {"cache_hits", "cache_misses", "degradations_no_weight",
             "core_saturation_events", "evictions", "admission_refusals"}

Init ==
  /\ CacheInit
  /\ now = 0
  /\ next_tick = 0
  /\ slots = [n \in {} |-> 0]
  /\ in_flight = {}
  /\ handled = {}
  /\ fetches = [k \in Key |-> 0]
  /\ kpi = [c \in Counters |-> 0]

-----------------------------------------------------------------------------
\* select_lod(): the cascade of rules, finest model first.
SelectLod(s, quest, interacting, stopped) ==
  IF \/ quest
     \/ interacting
     \/ stopped /\ s.in_frustum /\ s.distance_m <= Band.stopped_dist_m
  THEN 0
  ELSE IF s.in_frustum /\ \/ s.distance_m <= Band.close_m
                          \/ s.distance_m <= Band.near_m /\ s.approaching
  THEN 1
  ELSE IF \/ s.distance_m <= Band.visible_m
          \/ s.in_frustum /\ s.distance_m <= Band.near_m
  THEN 2
  ELSE NoLod

Ms(t) == t \div UsPerMs

\* The interactions of n that are under way at time t, by their places in the scenario.
Active(n, t) ==
  {i \in DOMAIN Interactions :
     /\ Interactions[i].npc = n
     /\ Ms(t) >= Interactions[i].at_ms
     /\ Ms(t) < Interactions[i].at_ms + Interactions[i].duration_ms}

ActiveIx(n, t) == Interactions[Min(Active(n, t))]

Desired(see, stopped, t) ==
  [n \in Npc |-> SelectLod(see[n], n \in Quest, Active(n, t) # {}, stopped)]

WeightOf(n, lod) == [npc |-> n, lod |-> lod]

\* best_resident_lod(): the LODs it may fall back on, the best is the smallest.
Usable(n, lod) == {l \in lod..2 : WeightOf(n, l) \in Resident}

\* Mutant: one bit of at_ms less.
InteractionKeyOneBitLess(n, t) == <<n, ActiveIx(n, t).at_ms % (KeySpan \div 2)>>

\* The key of interact_handled_ has 8 bits of at_ms.
InteractionKey(n, t) == <<n, ActiveIx(n, t).at_ms % KeySpan>>

\* Interactions that begin, as the predictor sees it, at time t.
Called(want, t) ==
  {n \in Npc : want[n] # NoLod /\ Active(n, t) # {} /\ InteractionKey(n, t) \notin handled}

\* release_expired_slots()
Expired(t) == {n \in DOMAIN slots : Ms(t) >= slots[n].ends_at_ms}

FreeCores(t) == Cores - Cardinality(DOMAIN slots \ Expired(t))

(***************************************************************************)
(* acquire_slot() for the NPCs that need a new slot, in the order of the   *)
(* scenario: the first ones get what is free.                              *)
(***************************************************************************)
Winners(newcomers, free, winners) ==
  /\ winners \subseteq newcomers
  /\ Cardinality(winners) = Min({free, Cardinality(newcomers)})
  /\ \A w \in winners, l \in newcomers \ winners : Rank[w] < Rank[l]

\* A slot that the NPC holds already is taken over and kept for the longer time.
SlotAfter(n, lod, t) ==
  LET ends == ActiveIx(n, t).at_ms + ActiveIx(n, t).duration_ms
      held == n \in DOMAIN slots /\ n \notin Expired(t)
  IN [lod |-> lod, ends_at_ms |-> IF held THEN Max({slots[n].ends_at_ms, ends}) ELSE ends]

\* Mutant: the weight of a slot that is taken over is not pinned.
EntryAfterUnpinnedReuse(k, want, see, served, t) ==
  LET freed == IF k.npc \in Expired(t) /\ slots[k.npc].lod = k.lod
               THEN UnpinnedOnce(entries[k]) ELSE entries[k]
      used  == k.npc \in served /\ k.lod = Min(Usable(k.npc, want[k.npc]))
  IN IF used /\ k.npc \notin DOMAIN slots \ Expired(t) THEN PinnedOnce(freed) ELSE freed

(***************************************************************************)
(* What a tick does to a resident weight: unpinned with the slot it leaves, *)
(* touched if it is the desired one, pinned and touched if it is put into  *)
(* a slot.                                                                 *)
(***************************************************************************)
EntryAfter(k, want, see, served, t) ==
  LET freed   == IF k.npc \in Expired(t) /\ slots[k.npc].lod = k.lod
                 THEN UnpinnedOnce(entries[k]) ELSE entries[k]
      used    == k.npc \in served /\ k.lod = Min(Usable(k.npc, want[k.npc]))
      pinned  == IF used THEN PinnedOnce(freed) ELSE freed
  IN IF used \/ k.lod = want[k.npc] THEN Touched(pinned, t, see[k.npc].distance_m) ELSE pinned

\* Mutant: in_flight_ is not looked at.
MissingAgain(want) == {k \in Key : k.lod = want[k.npc] /\ k \notin Resident}

\* The weights a tick asks the bus for.
Missing(want) == {k \in Key : k.lod = want[k.npc] /\ k \notin in_flight /\ k \notin Resident}

Count(c, n) == [kpi EXCEPT ![c] = @ + n]

KpiAfter(hits, partial, total, saturated) ==
  [kpi EXCEPT !["cache_hits"] = @ + Cardinality(hits),
              !["cache_misses"] = @ + Cardinality(partial) + Cardinality(total),
              !["degradations_no_weight"] = @ + Cardinality(total),
              !["core_saturation_events"] = @ + Cardinality(saturated)]

(***************************************************************************)
(* tick(), for what it sees of the NPCs.                                   *)
(***************************************************************************)
TickSeeing(see, want, t) ==
  LET called    == Called(want, t)
      total     == {n \in called : Usable(n, want[n]) = {}}
      hits      == {n \in called : WeightOf(n, want[n]) \in Resident}
      takers    == called \ total
      kept      == DOMAIN slots \ Expired(t)
      newcomers == takers \ kept
  IN \E winners \in SUBSET newcomers :
       /\ Winners(newcomers, FreeCores(t), winners)
       /\ LET served == winners \cup (takers \cap kept)
          IN /\ slots' = [n \in kept \cup winners |->
                            IF n \in served THEN SlotAfter(n, Min(Usable(n, want[n])), t)
                            ELSE slots[n]]
             /\ entries' = [k \in Resident |-> EntryAfter(k, want, see, served, t)]
       /\ kpi' = KpiAfter(hits, takers \ hits, total, newcomers \ winners)
       /\ handled' = handled \cup {InteractionKey(n, t) : n \in called}

\* The whole decision of a tick: nothing of it is on the bus yet.
Decide(see, want, t) ==
  /\ TickSeeing(see, want, t)
  /\ in_flight' = in_flight \cup Missing(want)
  /\ bytes_used' = bytes_used

Rearmed(t) == IF t + TickUs < DurationMs * UsPerMs THEN t + TickUs ELSE NoTick

\* The weights of K go to the bus.
Fetch(K) == fetches' = [k \in Key |-> fetches[k] + IF k \in K THEN 1 ELSE 0]

Tick ==
  /\ next_tick # NoTick
  /\ now' = next_tick
  /\ next_tick' = Rearmed(next_tick)
  /\ \E see \in [Npc -> Snapshot], stopped \in BOOLEAN :
       \E want \in {Desired(see, stopped, next_tick)} :
         Decide(see, want, next_tick) /\ Fetch(Missing(want))

InFlightAfter(k) == in_flight \ {k}

\* on_complete(), called by the scheduler's observer.
OnComplete(k, at, d) ==
  /\ Admit(k, at, d)
  /\ in_flight' = InFlightAfter(k)
  /\ kpi' = [kpi EXCEPT
               !["evictions"] = @ + Cardinality(Resident \ Resident'),
               !["admission_refusals"] = @ + (IF k \in Resident' THEN 0 ELSE 1)]
  /\ UNCHANGED <<slots, handled>>

\* The last byte of k is over, not later than the next tick.
Complete(k, at, d) ==
  /\ fetches[k] > 0
  /\ next_tick # NoTick => at <= next_tick
  /\ now' = at
  /\ next_tick' = next_tick
  /\ fetches' = [fetches EXCEPT ![k] = @ - 1]
  /\ OnComplete(k, at, d)

Distances == {s.distance_m : s \in Snapshot}

Next == Tick \/ \E k \in Key, at \in now..MaxTime, d \in Distances : Complete(k, at, d)

Spec == Init /\ [][Next]_vars
-----------------------------------------------------------------------------
TypeOK ==
  /\ CacheTypeOK
  /\ now \in Nat
  /\ next_tick \in Nat \cup {NoTick}
  /\ DOMAIN slots \subseteq Npc
  /\ slots \in [DOMAIN slots -> [lod : Lods, ends_at_ms : Nat]]
  /\ in_flight \subseteq Key
  /\ handled \subseteq Npc \X Nat
  /\ fetches \in [Key -> Nat]
  /\ kpi \in [Counters -> Nat]

(***************************************************************************)
(* A core never runs a weight that is not there: every occupied slot names *)
(* a resident, pinned weight, through slot take-overs, evictions and       *)
(* releases, and there are no more slots in use than cores.                *)
(***************************************************************************)
SlotsHoldPinnedWeights ==
  /\ Cardinality(DOMAIN slots) <= Cores
  /\ \A n \in DOMAIN slots :
       /\ WeightOf(n, slots[n].lod) \in Resident
       /\ entries[WeightOf(n, slots[n].lod)].pin_count > 0

(***************************************************************************)
(* in_flight_ says exactly what is on the bus, each weight once, and never *)
(* a resident one: no weight is fetched twice or waited for in vain.       *)
(***************************************************************************)
InFlightIsOnTheBus ==
  /\ \A k \in Key : fetches[k] = IF k \in in_flight THEN 1 ELSE 0
  /\ in_flight \cap Resident = {}

\* The ticks there have been, and the interactions one of them has seen.
Ticked == {t \in 0..now : t % TickUs = 0 /\ t < Max({1, DurationMs * UsPerMs})
                          /\ (next_tick = NoTick \/ t < next_tick)}

Begun ==
  {<<p[1], ActiveIx(p[1], p[2])>> : p \in {q \in Npc \X Ticked : Active(q[1], q[2]) # {}}}

(***************************************************************************)
(* Every interaction that a tick has seen was attempted once, on its first *)
(* tick, and counts as a hit or as a miss, those that found no core or no  *)
(* weight at all among them.  (predictor.cpp, tick(): "on the first tick   *)
(* of an interaction, attempt to satisfy it from the cache".)  True only   *)
(* while the interactions of an NPC differ in the 8 bits of at_ms that     *)
(* interact_handled_ keeps.                                                *)
(***************************************************************************)
InteractionsCounted ==
  /\ Cardinality(Begun) = kpi["cache_hits"] + kpi["cache_misses"]
  /\ kpi["degradations_no_weight"] <= kpi["cache_misses"]
  /\ kpi["core_saturation_events"] + kpi["degradations_no_weight"] <= Cardinality(Begun)

-----------------------------------------------------------------------------
(***************************************************************************)
(* Statements of the documentation that the code does not keep.            *)
(***************************************************************************)

(***************************************************************************)
(* Design_Detail.md, Phase 8: "When the interaction ends, refcount         *)
(* decrements."  Once an NPC has no slot any more, its interactions over   *)
(* and released by a tick, no reference to its weights is left.            *)
(***************************************************************************)
PinsEndWithTheInteraction ==
  \A k \in Resident : k.npc \notin DOMAIN slots => entries[k].pin_count = 0
=============================================================================
