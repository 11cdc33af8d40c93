---------------------------- MODULE LodPredictor ----------------------------
(***************************************************************************)
(* LodPredictor: at every tick each NPC gets the weight (LOD) that its     *)
(* distance to the player calls for, with a deadband that keeps an NPC at  *)
(* a boundary from swapping weights back and forth; a weight that is not   *)
(* there is asked for over the bus.  LodHistory adds the history that the  *)
(* properties speak of.                                                    *)
(*                                                                         *)
(* The motion of the player and of the NPCs is abstracted: each tick sees  *)
(* any distance of Distance, in metres.  The bus is external here: it      *)
(* completes what was asked for in any order.  Simulation puts the bus of  *)
(* Scheduler in its place.                                                 *)
(* on_evict() is called by nobody in src/, so no weight ever leaves.       *)
(***************************************************************************)
EXTENDS Integers, FiniteSetsExt

CONSTANTS
  Npc,            \* the NPCs of the scenario
  Distance,       \* what a tick may see, in metres
  MaxDistance,    \* lm_.bands: LOD -> max_distance_m
  HysteresisPct,  \* lm_.hysteresis_pct
  TickUs,         \* lm_.tick_us
  DurationUs      \* scenario_.duration_ms, in microseconds

Lods     == DOMAIN MaxDistance
Off      == -1   \* beyond all bands
Cold     == -2   \* no decision yet
NoTick   == -1

ASSUME DistanceAssumption == IsFiniteSet(Distance) /\ Distance \subseteq Nat
\* schedule_prefetch() throws if it is asked for any other LOD.
ASSUME BandsAssumption ==
  /\ Lods \subseteq 0..2
  /\ MaxDistance \in [Lods -> Nat]
  /\ \A l, m \in Lods : l < m => MaxDistance[l] < MaxDistance[m]
ASSUME HysteresisAssumption == HysteresisPct \in Nat
ASSUME TickAssumption == TickUs \in Nat \ {0} /\ DurationUs \in Nat

VARIABLES
  next_tick,  \* the time of the tick in the event queue
  last_lod,   \* last_lod_
  in_flight,  \* in_flight_
  resident,   \* resident_
  fetches     \* external: per weight, its transactions on their way over the bus

vars == <<next_tick, last_lod, in_flight, resident, fetches>>

Key == [npc : Npc, lod : Lods]

Init ==
  /\ next_tick = 0
  /\ last_lod = [n \in Npc |-> Cold]
  /\ in_flight = {}
  /\ resident = {}
  /\ fetches = [k \in Key |-> 0]

-----------------------------------------------------------------------------
\* The bands whose normal, undelayed threshold contains distance d.
Containing(d) == {l \in Lods : d <= MaxDistance[l]}

\* Mutant: an LOD is left as soon as its band is.
WithinBand(d, l) == d <= MaxDistance[l]

WithinDeadband(d, l) == 100 * d <= MaxDistance[l] * (100 + HysteresisPct)

\* The NPC has no LOD yet, or comes back from beyond all bands: the coarsest one.
Enter(d) == IF Containing(d) = {} THEN Off ELSE Max(Containing(d))

\* It stays inside the deadband of l: only a finer LOD can replace it.
ComeCloser(d, l) == Min({l} \cup {m \in Containing(d) : m < l})

\* It has crossed the deadband of l: the tightest band outwards that contains it.
MoveOut(d, l) ==
  LET farther == {m \in Containing(d) : m > l}
  IN IF farther = {} THEN Off
     ELSE CHOOSE m \in farther : \A o \in farther : MaxDistance[m] <= MaxDistance[o]

\* select_lod()
SelectLod(d, last) ==
  IF last \notin Lods THEN Enter(d)
  ELSE IF WithinDeadband(d, last) THEN ComeCloser(d, last) ELSE MoveOut(d, last)

\* Mutant: the weights on their way are asked for again.
MissingAgain(want) == {k \in Key : k.lod = want[k.npc] /\ k \notin resident}

\* What a tick asks the bus for.
Missing(want) == {k \in Key : k.lod = want[k.npc] /\ k \notin in_flight /\ k \notin resident}

MoreOf(counts, K) == [k \in Key |-> counts[k] + IF k \in K THEN 1 ELSE 0]

\* Mutant: one more tick, at the end of the scenario.
RearmedAtEnd(t) == IF t + TickUs <= DurationUs THEN t + TickUs ELSE NoTick

Rearmed(t) == IF t + TickUs < DurationUs THEN t + TickUs ELSE NoTick

\* The LOD that tick() wants for each NPC, for the distances it sees.
Wanted(dist) == [n \in Npc |-> SelectLod(dist[n], last_lod[n])]

\* What tick() writes down, whether or not a weight is asked for.
Decide(want) ==
  /\ last_lod' = want
  /\ in_flight' = in_flight \cup Missing(want)
  /\ UNCHANGED resident

\* tick(): the weights that are missing go to the bus.
TickSeeing(dist) ==
  /\ next_tick # NoTick
  /\ next_tick' = Rearmed(next_tick)
  /\ \E want \in {Wanted(dist)} : Decide(want) /\ fetches' = MoreOf(fetches, Missing(want))

Tick == \E dist \in [Npc -> Distance] : TickSeeing(dist)

\* on_complete(), called by the scheduler's observer.
OnComplete(k) ==
  /\ in_flight' = in_flight \ {k}
  /\ resident' = resident \cup {k}
  /\ UNCHANGED last_lod

\* The last byte of k is over.
Complete(k) ==
  /\ fetches[k] > 0
  /\ fetches' = [fetches EXCEPT ![k] = @ - 1]
  /\ OnComplete(k)
  /\ UNCHANGED next_tick

Next == Tick \/ \E k \in Key : Complete(k)

Spec == Init /\ [][Next]_vars
-----------------------------------------------------------------------------
TypeOK ==
  /\ next_tick \in 0..(DurationUs - 1) \cup {0, NoTick}  \* no tick at or after the end
  /\ last_lod \in [Npc -> Lods \cup {Off, Cold}]
  /\ in_flight \subseteq Key
  /\ resident \subseteq Key
  /\ fetches \in [Key -> Nat]
=============================================================================
