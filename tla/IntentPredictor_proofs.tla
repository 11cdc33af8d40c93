----------------------- MODULE IntentPredictor_proofs -----------------------
(***************************************************************************)
(* Theorems about IntentPredictor, for any set of NPCs and scenario, any   *)
(* number of cores, and any capacity and sizes of weights: what slots and  *)
(* in_flight_ say of the cache and of the bus.                             *)
(***************************************************************************)
EXTENDS IntentPredictor, FiniteSums, TLAPS

\* The part of the types that pins and fetches depend on.
CoreTypeOK ==
  /\ Resident \subseteq Key
  /\ entries \in [Resident -> Entry]
  /\ now \in Nat
  /\ next_tick \in Nat \cup {NoTick}
  /\ DOMAIN slots \subseteq Npc
  /\ \A n \in DOMAIN slots : slots[n].lod \in Lods
  /\ in_flight \subseteq Key
  /\ fetches \in [Key -> Nat]

IInv == CoreTypeOK /\ SlotsHoldPinnedWeights /\ InFlightIsOnTheBus

-----------------------------------------------------------------------------
LEMMA WeightOfType ==
  ASSUME NEW n \in Npc, NEW lod \in Lods
  PROVE  WeightOf(n, lod) \in Key /\ WeightOf(n, lod).npc = n /\ WeightOf(n, lod).lod = lod
BY KeyAssumption DEF WeightOf

\* best_resident_lod() returns one of the LODs it may fall back on.
LEMMA BestUsable ==
  ASSUME NEW n, NEW lod \in Lods, Usable(n, lod) # {}
  PROVE  Min(Usable(n, lod)) \in Usable(n, lod)
<1> DEFINE U == Usable(n, lod)
<1>1. U \subseteq {0, 1, 2} /\ U # {}
  BY DEF Usable, Lods
<1> HIDE DEF U
<1>2. \E x \in U : \A y \in U : x <= y
  <2>1. CASE 0 \in U
    BY <1>1, <2>1
  <2>2. CASE 0 \notin U /\ 1 \in U
    <3>1. \A y \in U : y = 1 \/ y = 2
      BY <1>1, <2>2
    <3>2. \A y \in U : 1 <= y
      BY <3>1
    <3> QED
      BY <2>2, <3>2
  <2>3. CASE 0 \notin U /\ 1 \notin U
    <3>1. \A y \in U : y = 2
      BY <1>1, <2>3
    <3>2. \A x, y \in U : x <= y
      BY <3>1
    <3> QED
      BY <1>1, <3>2
  <2> QED
    BY <2>1, <2>2, <2>3
<1>3. Min(U) \in U
  BY <1>2 DEF Min
<1> QED
  BY <1>3 DEF U

LEMMA UsableType ==
  ASSUME NEW n \in Npc, NEW lod \in Lods, NEW l \in Usable(n, lod)
  PROVE  l \in Lods /\ WeightOf(n, l) \in Resident
BY DEF Usable, Lods

\* select_lod() names a LOD or none.
LEMMA DesiredType ==
  ASSUME NEW see, NEW stopped, NEW t
  PROVE  Desired(see, stopped, t) \in [Npc -> Lods \cup {NoLod}]
BY DEF Desired, SelectLod, Lods

-----------------------------------------------------------------------------
\* What the handlers do to an entry keeps its shape; only unpin() lowers its count.
LEMMA EntryOps ==
  ASSUME NEW e \in Entry, NEW at \in Nat, NEW d \in Nat
  PROVE  /\ Touched(e, at, d) \in Entry /\ Touched(e, at, d).pin_count = e.pin_count
         /\ PinnedOnce(e) \in Entry /\ PinnedOnce(e).pin_count = e.pin_count + 1
         /\ UnpinnedOnce(e) \in Entry
         /\ NewEntry(at, d) \in Entry
<1>1. e.pin_count \in Nat /\ e.last_access \in Nat /\ e.distance \in Nat
  BY DEF Entry
<1>2. Touched(e, at, d) \in Entry /\ Touched(e, at, d).pin_count = e.pin_count
  BY DEF Touched, Entry
<1>3. PinnedOnce(e) \in Entry /\ PinnedOnce(e).pin_count = e.pin_count + 1
  BY <1>1 DEF PinnedOnce, Entry
<1>4. UnpinnedOnce(e) \in Entry
  <2>1. (IF e.pin_count = 0 THEN 0 ELSE e.pin_count - 1) \in Nat
    BY <1>1
  <2> QED
    BY <2>1 DEF UnpinnedOnce, Entry
<1>5. NewEntry(at, d) \in Entry
  BY DEF NewEntry, Entry
<1> QED
  BY <1>2, <1>3, <1>4, <1>5

\* A tick pins what it puts into a slot, and unpins only what leaves one.
LEMMA EntryAfterType ==
  ASSUME CoreTypeOK, NEW k \in Resident, NEW want, NEW served, NEW t \in Nat,
         NEW see \in [Npc -> Snapshot]
  PROVE  /\ EntryAfter(k, want, see, served, t) \in Entry
         /\ k.npc \in served /\ k.lod = Min(Usable(k.npc, want[k.npc]))
              => EntryAfter(k, want, see, served, t).pin_count > 0
         /\ k.npc \notin served /\ k.npc \notin Expired(t)
              => EntryAfter(k, want, see, served, t).pin_count = entries[k].pin_count
<1> DEFINE leaves == k.npc \in Expired(t) /\ slots[k.npc].lod = k.lod
<1> DEFINE used == k.npc \in served /\ k.lod = Min(Usable(k.npc, want[k.npc]))
<1> DEFINE d == see[k.npc].distance_m
<1> DEFINE freed == IF leaves THEN UnpinnedOnce(entries[k]) ELSE entries[k]
<1> DEFINE pinned == IF used THEN PinnedOnce(freed) ELSE freed
<1> DEFINE touched == used \/ k.lod = want[k.npc]
<1>1. k.npc \in Npc /\ entries[k] \in Entry
  BY KeyAssumption DEF CoreTypeOK
<1>2. d \in Nat
  BY <1>1, NpcAssumption
<1>3. EntryAfter(k, want, see, served, t) = IF touched THEN Touched(pinned, t, d) ELSE pinned
  BY DEF EntryAfter
<1>4. freed \in Entry /\ (~leaves => freed = entries[k])
  BY <1>1, EntryOps
<1> HIDE DEF d, freed, leaves
<1>5. /\ pinned \in Entry
      /\ used => pinned.pin_count > 0
      /\ ~used => pinned = freed
  <2>1. CASE used
    <3>1. freed.pin_count \in Nat
      BY <1>4 DEF Entry
    <3>2. PinnedOnce(freed) \in Entry /\ PinnedOnce(freed).pin_count = freed.pin_count + 1
      BY <1>2, <1>4, EntryOps
    <3> QED
      BY <2>1, <3>1, <3>2
  <2>2. CASE ~used
    BY <1>4, <2>2
  <2> QED
    BY <2>1, <2>2
<1> HIDE DEF pinned
<1>6. /\ EntryAfter(k, want, see, served, t) \in Entry
      /\ EntryAfter(k, want, see, served, t).pin_count = pinned.pin_count
  <2>1. Touched(pinned, t, d) \in Entry /\ Touched(pinned, t, d).pin_count = pinned.pin_count
    BY <1>2, <1>5, EntryOps
  <2> QED
    BY <1>3, <1>5, <2>1
<1>7. k.npc \notin Expired(t) => ~leaves
  BY DEF leaves
<1> QED
  BY <1>4, <1>5, <1>6, <1>7

-----------------------------------------------------------------------------
\* The victims are among the candidates of the first round.
LEMMA GoneUnpinned ==
  ASSUME NEW rounds \in Nat, NEW order \in [1..rounds -> Unpinned]
  PROVE  Gone(order, rounds) \in SUBSET Unpinned
BY DEF Gone

\* What the rounds of the loop come to, in whatever order they took the victims.
Outcome(k, gone) ==
  /\ \A v \in gone, u \in Unpinned \ gone : ~GoesFirst(u, v)
  /\ gone # {} => \E last \in gone : ~Fits(k, gone \ {last})
  /\ Fits(k, gone) \/ gone = Unpinned

LEMMA LoopOutcome ==
  ASSUME NEW k, NEW rounds \in Nat, NEW order \in [1..rounds -> Unpinned],
         EvictionLoop(k, order, rounds)
  PROVE  Outcome(k, Gone(order, rounds))
<1> DEFINE gone == Gone(order, rounds)
<1>1. gone \subseteq Unpinned
  BY GoneUnpinned
\* Whoever stays was a candidate in the round of every victim.
<1>2. ASSUME NEW v \in gone, NEW u \in Unpinned \ gone
      PROVE  ~GoesFirst(u, v)
  <2>1. PICK i \in 1..rounds : v = order[i]
    BY DEF Gone
  <2>2. u \in Unpinned \ Gone(order, i - 1)
    <3>1. \A j \in 1..(i - 1) : j \in 1..rounds
      OBVIOUS
    <3> QED
      BY <3>1 DEF Gone
  <2>3. order[i] \in PickVictim(Unpinned \ Gone(order, i - 1))
    BY DEF EvictionLoop
  <2> QED
    BY <2>1, <2>2, <2>3 DEF PickVictim
\* Before the last round the newcomer did not fit.
<1>3. ASSUME gone # {}
      PROVE  \E last \in gone : ~Fits(k, gone \ {last})
  <2>1. rounds \in 1..rounds
    BY <1>3 DEF Gone
  <2>2. /\ ~Fits(k, Gone(order, rounds - 1))
        /\ order[rounds] \in PickVictim(Unpinned \ Gone(order, rounds - 1))
    BY <2>1 DEF EvictionLoop
  <2>3. order[rounds] \notin Gone(order, rounds - 1)
    BY <2>2 DEF PickVictim
  <2>4. gone = Gone(order, rounds - 1) \cup {order[rounds]}
    <3>1. 1..rounds = 1..(rounds - 1) \cup {rounds}
      BY <2>1
    <3> QED
      BY <3>1 DEF Gone
  <2>5. gone \ {order[rounds]} = Gone(order, rounds - 1)
    BY <2>3, <2>4
  <2> QED
    BY <2>2, <2>4, <2>5
<1>4. Fits(k, gone) \/ gone = Unpinned
  BY <1>1 DEF EvictionLoop
<1> HIDE DEF gone
<1>5. Outcome(k, gone)
  BY <1>2, <1>3, <1>4 DEF Outcome
<1> QED
  BY <1>5 DEF gone

LEMMA InsertOutcome ==
  ASSUME NEW k, NEW at, NEW d, Insert(k, at, d)
  PROVE  \E gone \in SUBSET Unpinned :
           /\ Outcome(k, gone)
           /\ \/ /\ Fits(k, gone)
                 /\ entries' = [j \in (Resident \ gone) \cup {k} |->
                                  IF j = k THEN NewEntry(at, d) ELSE entries[j]]
                 /\ bytes_used' = BytesAfter(k, gone)
              \/ /\ ~Fits(k, gone)
                 /\ entries' = [j \in Resident \ gone |-> entries[j]]
                 /\ bytes_used' = bytes_used - Total(gone)
<1> DEFINE Left(gone) ==
             \/ /\ Fits(k, gone)
                /\ entries' = [j \in (Resident \ gone) \cup {k} |->
                                 IF j = k THEN NewEntry(at, d) ELSE entries[j]]
                /\ bytes_used' = BytesAfter(k, gone)
             \/ /\ ~Fits(k, gone)
                /\ entries' = [j \in Resident \ gone |-> entries[j]]
                /\ bytes_used' = bytes_used - Total(gone)
<1>1. \E rounds \in 0..Cardinality(Unpinned) : \E order \in [1..rounds -> Unpinned] :
        /\ EvictionLoop(k, order, rounds)
        /\ \E gone \in {Gone(order, rounds)} : Left(gone)
  BY Zenon DEF Insert
<1> HIDE DEF Left
<1>2. PICK rounds \in 0..Cardinality(Unpinned) : \E order \in [1..rounds -> Unpinned] :
        /\ EvictionLoop(k, order, rounds)
        /\ \E gone \in {Gone(order, rounds)} : Left(gone)
  BY <1>1, Zenon
<1>3. PICK order \in [1..rounds -> Unpinned] :
        EvictionLoop(k, order, rounds) /\ Left(Gone(order, rounds))
  BY <1>2
<1>4. Gone(order, rounds) \in SUBSET Unpinned /\ Outcome(k, Gone(order, rounds))
  <2>1. rounds \in Nat
    OBVIOUS
  <2> QED
    BY <1>3, <2>1, GoneUnpinned, LoopOutcome
<1>5. \E gone \in SUBSET Unpinned : Outcome(k, gone) /\ Left(gone)
  BY <1>3, <1>4, Zenon
<1> QED
  BY <1>5, Zenon DEF Left

\* admit() evicts unpinned weights only, and keeps the pins of the others.
LEMMA AdmitKeepsPins ==
  ASSUME CoreTypeOK, NEW k \in Key, NEW at \in Nat, NEW d \in Nat, Admit(k, at, d)
  PROVE  /\ Resident' \subseteq Resident \cup {k}
         /\ entries' \in [Resident' -> Entry]
         /\ \A j \in Resident : entries[j].pin_count > 0 =>
              j \in Resident' /\ entries'[j].pin_count = entries[j].pin_count
<1>1. entries \in [Resident -> Entry]
  BY DEF CoreTypeOK
<1>2. CASE k \in Resident /\ Refresh(k, at, d)
  <2>1. Touched(entries[k], at, d) \in Entry
        /\ Touched(entries[k], at, d).pin_count = entries[k].pin_count
    BY <1>1, <1>2, EntryOps
  <2>2. entries' = [entries EXCEPT ![k] = Touched(entries[k], at, d)]
    BY <1>2 DEF Refresh
  <2> QED
    BY <1>1, <2>1, <2>2 DEF Resident
<1>3. CASE UNCHANGED <<entries, bytes_used>>
  BY <1>1, <1>3 DEF Resident
<1>4. CASE k \notin Resident /\ Insert(k, at, d)
  <2>1. PICK gone \in SUBSET Unpinned :
          \/ entries' = [j \in (Resident \ gone) \cup {k} |->
                           IF j = k THEN NewEntry(at, d) ELSE entries[j]]
          \/ entries' = [j \in Resident \ gone |-> entries[j]]
    BY <1>4, InsertOutcome
  <2>2. \A j \in Resident : entries[j].pin_count > 0 => j \notin gone /\ j # k
    BY <1>4 DEF Unpinned
  <2>3. NewEntry(at, d) \in Entry
    BY DEF NewEntry, Entry
  <2>4. CASE entries' = [j \in (Resident \ gone) \cup {k} |->
                           IF j = k THEN NewEntry(at, d) ELSE entries[j]]
    <3>1. Resident' = (Resident \ gone) \cup {k}
      BY <2>4 DEF Resident
    <3> QED
      BY <1>1, <2>2, <2>3, <2>4, <3>1
  <2>5. CASE entries' = [j \in Resident \ gone |-> entries[j]]
    <3>1. Resident' = Resident \ gone
      BY <2>5 DEF Resident
    <3> QED
      BY <1>1, <2>2, <2>5, <3>1
  <2> QED
    BY <2>1, <2>4, <2>5
<1> QED
  BY <1>2, <1>3, <1>4 DEF Admit

LEMMA CompleteInv ==
  ASSUME IInv, NEW k \in Key, NEW at \in now..MaxTime, NEW d \in Distances,
         Complete(k, at, d)
  PROVE  IInv'
<1>1. CoreTypeOK /\ at \in Nat /\ d \in Nat
  <2>1. now \in Nat
    BY DEF IInv, CoreTypeOK
  <2>2. d \in Nat
    BY NpcAssumption DEF Distances
  <2> QED
    BY <2>1, <2>2 DEF IInv
<1>2. /\ fetches[k] > 0
      /\ now' = at
      /\ next_tick' = next_tick
      /\ fetches' = [fetches EXCEPT ![k] = @ - 1]
      /\ Admit(k, at, d)
      /\ in_flight' = in_flight \ {k}
      /\ UNCHANGED <<slots, handled>>
  BY DEF Complete, OnComplete, InFlightAfter
<1>3. /\ Resident' \subseteq Resident \cup {k}
      /\ entries' \in [Resident' -> Entry]
      /\ \A j \in Resident : entries[j].pin_count > 0 =>
           j \in Resident' /\ entries'[j].pin_count = entries[j].pin_count
  BY <1>1, <1>2, AdmitKeepsPins
<1>4. fetches[k] - 1 \in Nat
  BY <1>1, <1>2 DEF CoreTypeOK
<1>5. CoreTypeOK'
  BY <1>1, <1>2, <1>3, <1>4 DEF CoreTypeOK, Resident
<1>6. SlotsHoldPinnedWeights'
  BY <1>2, <1>3 DEF IInv, SlotsHoldPinnedWeights
<1>7. InFlightIsOnTheBus'
  <2>1. \A j \in Key : fetches[j] = IF j \in in_flight THEN 1 ELSE 0
    BY DEF IInv, InFlightIsOnTheBus
  <2>2. \A j \in Key : fetches'[j] = IF j \in in_flight' THEN 1 ELSE 0
    <3>1. fetches[k] = 1
      BY <1>2, <2>1
    <3>2. \A j \in Key : fetches'[j] = IF j = k THEN fetches[k] - 1 ELSE fetches[j]
      BY <1>1, <1>2 DEF CoreTypeOK
    <3> QED
      BY <1>2, <2>1, <3>1, <3>2
  <2>3. in_flight' \cap Resident' = {}
    BY <1>2, <1>3 DEF IInv, InFlightIsOnTheBus
  <2> QED
    BY <2>2, <2>3 DEF InFlightIsOnTheBus
<1> QED
  BY <1>5, <1>6, <1>7 DEF IInv

\* The winners take no more cores than are free.
LEMMA CoresSuffice ==
  ASSUME CoreTypeOK, Cardinality(DOMAIN slots) <= Cores, NEW t,
         NEW newcomers \in SUBSET Npc, NEW winners, Winners(newcomers, FreeCores(t), winners)
  PROVE  Cardinality((DOMAIN slots \ Expired(t)) \cup winners) <= Cores
<1> DEFINE kept == DOMAIN slots \ Expired(t)
<1>1. IsFiniteSet(DOMAIN slots) /\ IsFiniteSet(newcomers) /\ winners \in SUBSET newcomers
  BY NpcAssumption, FS_Subset DEF CoreTypeOK, Winners
<1>2. IsFiniteSet(kept) /\ IsFiniteSet(winners)
  BY <1>1, FS_Subset
<1>3. Cardinality(winners) = Min({FreeCores(t), Cardinality(newcomers)})
  BY DEF Winners
<1>4. FreeCores(t) = Cores - Cardinality(kept)
  BY DEF FreeCores
<1> HIDE DEF kept
<1>5. Cardinality(kept) \in Nat /\ Cardinality(winners) \in Nat
      /\ Cardinality(newcomers) \in Nat /\ Cores \in Nat
  BY <1>1, <1>2, FS_CardinalityType, CoresAssumption
<1>6. Cardinality(winners) <= FreeCores(t)
  <2>1. FreeCores(t) \in Int
    BY <1>4, <1>5
  <2> QED
    BY <1>3, <1>5, <2>1, MinOfTwo
<1>7. Cardinality(kept \cup winners)
        = Cardinality(kept) + Cardinality(winners) - Cardinality(kept \cap winners)
  BY <1>2, FS_Union
<1>8. Cardinality(kept \cap winners) \in Nat
  BY <1>2, FS_Subset, FS_CardinalityType
<1>9. Cardinality(kept \cup winners) <= Cores
  BY <1>4, <1>5, <1>6, <1>7, <1>8
<1> QED
  BY <1>9 DEF kept

LEMMA TickInv ==
  ASSUME IInv, Tick
  PROVE  IInv'
<1> DEFINE t == next_tick
<1>1. PICK see \in [Npc -> Snapshot], stopped \in BOOLEAN :
        LET want == Desired(see, stopped, t) IN Decide(see, want, t) /\ Fetch(Missing(want))
  BY DEF Tick
<1> DEFINE want == Desired(see, stopped, t)
<1>2. /\ t \in Nat /\ now' = t /\ next_tick' = Rearmed(t)
      /\ TickSeeing(see, want, t)
      /\ in_flight' = in_flight \cup Missing(want)
      /\ fetches' = [k \in Key |-> fetches[k] + IF k \in Missing(want) THEN 1 ELSE 0]
  BY <1>1 DEF Tick, Decide, Fetch, IInv, CoreTypeOK
<1>3. CoreTypeOK /\ SlotsHoldPinnedWeights /\ InFlightIsOnTheBus
  BY DEF IInv
<1>4. want \in [Npc -> Lods \cup {NoLod}]
  BY DesiredType
<1> HIDE DEF want
<1> DEFINE called == Called(want, t)
<1> DEFINE takers == called \ {n \in called : Usable(n, want[n]) = {}}
<1> DEFINE kept == DOMAIN slots \ Expired(t)
<1> DEFINE newcomers == takers \ kept
<1>5. PICK winners \in SUBSET newcomers :
        /\ Winners(newcomers, FreeCores(t), winners)
        /\ slots' = [n \in kept \cup winners |->
                       IF n \in winners \cup (takers \cap kept)
                       THEN SlotAfter(n, Min(Usable(n, want[n])), t) ELSE slots[n]]
        /\ entries' = [k \in Resident |->
                         EntryAfter(k, want, see, winners \cup (takers \cap kept), t)]
  BY <1>2 DEF TickSeeing
<1> DEFINE served == winners \cup (takers \cap kept)
<1> DEFINE best(n) == Min(Usable(n, want[n]))
\* Whoever is served gets a weight that is there.
<1>6. ASSUME NEW n \in served
      PROVE  n \in Npc /\ best(n) \in Lods /\ WeightOf(n, best(n)) \in Resident
  <2>1. n \in Npc /\ want[n] # NoLod /\ Usable(n, want[n]) # {}
    BY <1>5, <1>6 DEF Called
  <2>2. want[n] \in Lods
    BY <1>4, <2>1
  <2>3. best(n) \in Usable(n, want[n])
    BY <2>1, <2>2, BestUsable
  <2> QED
    BY <2>1, <2>2, <2>3, UsableType
<1>7. Resident' = Resident
  BY <1>5 DEF Resident
<1>8. newcomers \in SUBSET Npc /\ kept \subseteq Npc /\ served \subseteq kept \cup winners
  BY <1>3, <1>5 DEF Called, CoreTypeOK
<1>9. /\ DOMAIN slots' = kept \cup winners
      /\ \A n \in served : slots'[n].lod = best(n)
      /\ \A n \in kept \ served : slots'[n] = slots[n]
      /\ winners \subseteq served
  BY <1>5, <1>8 DEF SlotAfter
<1>10. \A k \in Resident : /\ entries'[k] = EntryAfter(k, want, see, served, t)
                           /\ EntryAfter(k, want, see, served, t) \in Entry
  BY <1>2, <1>3, <1>5, EntryAfterType
<1>11. entries' \in [Resident' -> Entry]
  <2>1. entries' \in [Resident -> Entry]
    BY <1>5, <1>10
  <2> QED
    BY <1>7, <2>1
<1>12. kept \subseteq DOMAIN slots /\ \A n \in kept : n \notin Expired(t)
  OBVIOUS
<1>13. winners \subseteq newcomers /\ Winners(newcomers, FreeCores(t), winners)
  BY <1>5
<1>14. Cardinality(DOMAIN slots') <= Cores
  BY <1>3, <1>8, <1>9, <1>13, CoresSuffice DEF SlotsHoldPinnedWeights
<1> HIDE DEF served, best, kept, takers, newcomers, called
<1>15. ASSUME NEW n \in DOMAIN slots'
       PROVE  /\ n \in Npc
              /\ slots'[n].lod \in Lods
              /\ WeightOf(n, slots'[n].lod) \in Resident'
              /\ entries'[WeightOf(n, slots'[n].lod)].pin_count > 0
  <2>1. CASE n \in served
    <3> DEFINE k == WeightOf(n, best(n))
    <3>1. n \in Npc /\ best(n) \in Lods /\ k \in Resident
      BY <1>6, <2>1
    <3>2. k.npc \in served /\ k.lod = Min(Usable(k.npc, want[k.npc]))
      BY <2>1, <3>1, WeightOfType DEF best
    <3> HIDE DEF k
    <3>3. EntryAfter(k, want, see, served, t).pin_count > 0
      BY <1>2, <1>3, <3>1, <3>2, EntryAfterType
    <3>4. entries'[k].pin_count > 0
      BY <1>10, <3>1, <3>3
    <3>5. slots'[n].lod = best(n)
      BY <1>9, <2>1
    <3> QED
      BY <1>7, <3>1, <3>4, <3>5 DEF k
  <2>2. CASE n \notin served
    <3> DEFINE k == WeightOf(n, slots[n].lod)
    <3>1. n \in kept
      BY <1>9, <1>15, <2>2
    <3>2. n \in DOMAIN slots /\ n \in Npc /\ slots[n].lod \in Lods /\ n \notin Expired(t)
      BY <1>3, <1>8, <1>12, <3>1 DEF CoreTypeOK
    <3>3. k \in Resident /\ entries[k].pin_count > 0 /\ k.npc = n
      BY <1>3, <3>2, WeightOfType DEF SlotsHoldPinnedWeights
    <3> HIDE DEF k
    <3>4. EntryAfter(k, want, see, served, t).pin_count = entries[k].pin_count
      BY <1>2, <1>3, <2>2, <3>2, <3>3, EntryAfterType
    <3>5. entries'[k].pin_count > 0
      BY <1>10, <3>3, <3>4
    <3>6. slots'[n] = slots[n]
      BY <1>9, <2>2, <3>1
    <3> QED
      BY <1>7, <3>2, <3>3, <3>5, <3>6 DEF k
  <2> QED
    BY <2>1, <2>2
<1>16. SlotsHoldPinnedWeights'
  BY <1>14, <1>15 DEF SlotsHoldPinnedWeights
<1>17. /\ Missing(want) \subseteq Key
       /\ Missing(want) \cap in_flight = {} /\ Missing(want) \cap Resident = {}
  BY DEF Missing
<1>18. InFlightIsOnTheBus'
  BY <1>2, <1>3, <1>7, <1>17 DEF InFlightIsOnTheBus
<1>19. next_tick' \in Nat \cup {NoTick}
  BY <1>2, CoresAssumption DEF Rearmed
<1>20. fetches' \in [Key -> Nat]
  BY <1>2, <1>3 DEF CoreTypeOK
<1>21. CoreTypeOK'
  BY <1>2, <1>3, <1>7, <1>11, <1>15, <1>17, <1>19, <1>20 DEF CoreTypeOK
<1> QED
  BY <1>16, <1>18, <1>21 DEF IInv

LEMMA InitInv == Init => IInv
<1> SUFFICES ASSUME Init
             PROVE  IInv
  OBVIOUS
<1>1. /\ Resident = {} /\ entries \in [Resident -> Entry]
      /\ DOMAIN slots = {} /\ in_flight = {} /\ fetches = [k \in Key |-> 0]
      /\ now = 0 /\ next_tick = 0
  BY DEF Init, CacheInit, Resident
<1>2. CoreTypeOK
  BY <1>1 DEF CoreTypeOK
<1>3. SlotsHoldPinnedWeights
  BY <1>1, FS_EmptySet, CoresAssumption DEF SlotsHoldPinnedWeights
<1>4. InFlightIsOnTheBus
  BY <1>1 DEF InFlightIsOnTheBus
<1> QED
  BY <1>2, <1>3, <1>4 DEF IInv

LEMMA NextInv == IInv /\ [Next]_vars => IInv'
<1> SUFFICES ASSUME IInv, [Next]_vars
             PROVE  IInv'
  OBVIOUS
<1>1. CASE Tick
  BY <1>1, TickInv
<1>2. ASSUME NEW k \in Key, NEW at \in now..MaxTime, NEW d \in Distances, Complete(k, at, d)
      PROVE  IInv'
  BY <1>2, CompleteInv
<1>3. CASE UNCHANGED vars
  BY <1>3 DEF vars, IInv, CoreTypeOK, SlotsHoldPinnedWeights, InFlightIsOnTheBus, Resident
<1> QED
  BY <1>1, <1>2, <1>3 DEF Next

(***************************************************************************)
(* The inductive invariant holds in every reachable state.                 *)
(***************************************************************************)
THEOREM Invariance == Spec => []IInv
<1> QED
  BY InitInv, NextInv, PTL DEF Spec

(***************************************************************************)
(* A core never runs a weight that is not there, and no more slots are in  *)
(* use than there are cores, however interactions, evictions and           *)
(* completions interleave.                                                 *)
(***************************************************************************)
THEOREM SlotsAreSafe == Spec => []SlotsHoldPinnedWeights
<1>1. IInv => SlotsHoldPinnedWeights
  BY DEF IInv
<1> QED
  BY <1>1, Invariance, PTL

(***************************************************************************)
(* in_flight_ is exactly what is on the bus: no weight is fetched twice,   *)
(* fetched while it is resident, or waited for in vain.                    *)
(***************************************************************************)
THEOREM FetchedOnce == Spec => []InFlightIsOnTheBus
<1>1. IInv => InFlightIsOnTheBus
  BY DEF IInv
<1> QED
  BY <1>1, Invariance, PTL

-----------------------------------------------------------------------------
(***************************************************************************)
(* The accounts of the cache.  The sum of two byte counts is a uint32_t:   *)
(* what follows is true where a full cache and one more weight that fits   *)
(* into it do not make it wrap.                                            *)
(***************************************************************************)
NoWrap == \A k \in Key : Size[k] <= Capacity => Capacity + Size[k] < Word

CacheInv ==
  /\ Resident \subseteq Key
  /\ IsFiniteSet(Resident)
  /\ entries \in [Resident -> Entry]
  /\ BytesAccounted
  /\ bytes_used <= Capacity

\* The parts of the cache have natural sizes, that add up.
LEMMA PartsOfCache ==
  ASSUME CacheInv, NEW gone \in SUBSET Resident
  PROVE  /\ IsFiniteSet(gone) /\ IsFiniteSet(Resident \ gone)
         /\ Total(gone) \in Nat /\ Total(Resident \ gone) \in Nat
         /\ bytes_used = Total(gone) + Total(Resident \ gone)
         /\ \A v \in gone : Total(gone) = Size[v] + Total(gone \ {v}) /\ Total(gone \ {v}) \in Nat
<1>1. IsFiniteSet(Resident) /\ bytes_used = Total(Resident)
  BY DEF CacheInv, BytesAccounted
<1>2. \A S \in SUBSET Resident : \A x \in S : Size[x] \in Nat /\ Size[x] \in Int
  BY SizeAssumption DEF CacheInv
<1>3. ASSUME NEW S \in SUBSET Resident
      PROVE  IsFiniteSet(S) /\ Total(S) \in Nat
  <2>1. IsFiniteSet(S)
    BY <1>1, FS_Subset
  <2> QED
    BY <1>2, <2>1, SumNat DEF Total
<1>4. Total(Resident) = Total(gone) + Total(Resident \ gone)
  BY <1>1, <1>2, SumSplit DEF Total
<1>5. \A v \in gone : Total(gone) = Size[v] + Total(gone \ {v})
  BY <1>2, <1>3, SumRemove DEF Total
<1>6. \A v \in gone : gone \ {v} \in SUBSET Resident
  OBVIOUS
<1> QED
  BY <1>1, <1>3, <1>4, <1>5, <1>6

\* So the condition of the loop of admit() is one on what would be resident.
LEMMA FitsIs ==
  ASSUME CacheInv, NoWrap, NEW k \in Key, Size[k] <= Capacity, NEW gone \in SUBSET Resident
  PROVE  /\ Fits(k, gone) <=> Total(Resident \ gone) + Size[k] <= Capacity
         /\ BytesAfter(k, gone) = Total(Resident \ gone) + Size[k]
         /\ bytes_used - Total(gone) = Total(Resident \ gone)
<1> DEFINE rest == Total(Resident \ gone)
<1>1. /\ Total(gone) \in Nat /\ rest \in Nat /\ bytes_used = Total(gone) + rest
  BY PartsOfCache
<1>2. Size[k] \in Nat /\ Capacity \in Nat /\ Word \in Nat /\ bytes_used <= Capacity
  BY SizeAssumption, CapacityAssumption DEF CacheInv
<1>3. Capacity + Size[k] < Word
  BY DEF NoWrap
<1> HIDE DEF rest
<1>4. bytes_used - Total(gone) + Size[k] = rest + Size[k]
  BY <1>1, <1>2
<1>5. rest + Size[k] \in 0..(Word - 1)
  BY <1>1, <1>2, <1>3
<1>6. (rest + Size[k]) % Word = rest + Size[k]
  BY <1>2, <1>5
<1> QED
  BY <1>1, <1>4, <1>6 DEF Fits, BytesAfter, rest

\* What Insert leaves, when the newcomer is in and when it is refused.
LEMMA InsertIs ==
  ASSUME CacheInv, NoWrap, NEW k \in Key, k \notin Resident, Size[k] <= Capacity,
         NEW at \in Nat, NEW d \in Nat, Insert(k, at, d)
  PROVE  \E gone \in SUBSET Unpinned :
           /\ Outcome(k, gone)
           /\ \/ /\ Fits(k, gone)
                 /\ Resident' = (Resident \ gone) \cup {k}
                 /\ bytes_used' = Total(Resident \ gone) + Size[k]
              \/ /\ ~Fits(k, gone)
                 /\ Resident' = Resident \ gone
                 /\ bytes_used' = Total(Resident \ gone)
           /\ entries' \in [Resident' -> Entry]
<1>1. PICK gone \in SUBSET Unpinned :
        /\ Outcome(k, gone)
        /\ \/ /\ Fits(k, gone)
              /\ entries' = [j \in (Resident \ gone) \cup {k} |->
                               IF j = k THEN NewEntry(at, d) ELSE entries[j]]
              /\ bytes_used' = BytesAfter(k, gone)
           \/ /\ ~Fits(k, gone)
              /\ entries' = [j \in Resident \ gone |-> entries[j]]
              /\ bytes_used' = bytes_used - Total(gone)
  BY InsertOutcome
<1>2. gone \in SUBSET Resident
  BY DEF Unpinned
<1>3. /\ BytesAfter(k, gone) = Total(Resident \ gone) + Size[k]
      /\ bytes_used - Total(gone) = Total(Resident \ gone)
  BY <1>2, FitsIs
<1>4. NewEntry(at, d) \in Entry /\ \A j \in Resident : entries[j] \in Entry
  BY DEF NewEntry, Entry, CacheInv
<1>5. CASE Fits(k, gone)
  <2>1. entries' = [j \in (Resident \ gone) \cup {k} |->
                               IF j = k THEN NewEntry(at, d) ELSE entries[j]]
    BY <1>1, <1>5
  <2>2. Resident' = (Resident \ gone) \cup {k}
    BY <2>1 DEF Resident
  <2>3. entries' \in [Resident' -> Entry]
    BY <1>4, <2>1, <2>2
  <2> QED
    BY <1>1, <1>3, <1>5, <2>2, <2>3
<1>6. CASE ~Fits(k, gone)
  <2>1. entries' = [j \in Resident \ gone |-> entries[j]]
    BY <1>1, <1>6
  <2>2. Resident' = Resident \ gone
    BY <2>1 DEF Resident
  <2>3. entries' \in [Resident' -> Entry]
    BY <1>4, <2>1, <2>2
  <2> QED
    BY <1>1, <1>3, <1>6, <2>2, <2>3
<1> QED
  BY <1>5, <1>6

\* admit() keeps the accounts, when it evicts, inserts and refuses half way through.
LEMMA AdmitAccounts ==
  ASSUME CacheInv, NoWrap, NEW k \in Key, NEW at \in Nat, NEW d \in Nat, Admit(k, at, d)
  PROVE  CacheInv'
<1>1. CASE k \in Resident /\ Refresh(k, at, d)
  <2>1. entries \in [Resident -> Entry]
    BY DEF CacheInv
  <2>2. Touched(entries[k], at, d) \in Entry
    BY <1>1, <2>1, EntryOps
  <2>3. entries' = [entries EXCEPT ![k] = Touched(entries[k], at, d)] /\ bytes_used' = bytes_used
    BY <1>1 DEF Refresh
  <2>4. Resident' = Resident /\ entries' \in [Resident -> Entry]
    BY <2>1, <2>2, <2>3 DEF Resident
  <2> QED
    BY <2>3, <2>4 DEF CacheInv, BytesAccounted, Total
<1>2. CASE UNCHANGED <<entries, bytes_used>>
  BY <1>2 DEF CacheInv, BytesAccounted, Resident, Total
<1>3. CASE k \notin Resident /\ Size[k] <= Capacity /\ Insert(k, at, d)
  <2>1. PICK gone \in SUBSET Unpinned :
           /\ \/ /\ Fits(k, gone)
                 /\ Resident' = (Resident \ gone) \cup {k}
                 /\ bytes_used' = Total(Resident \ gone) + Size[k]
              \/ /\ ~Fits(k, gone)
                 /\ Resident' = Resident \ gone
                 /\ bytes_used' = Total(Resident \ gone)
           /\ entries' \in [Resident' -> Entry]
    BY <1>3, InsertIs
  <2>2. gone \in SUBSET Resident /\ Resident \subseteq Key
    BY DEF Unpinned, CacheInv
  <2>3. /\ IsFiniteSet(Resident \ gone) /\ Total(Resident \ gone) \in Nat
        /\ Total(gone) \in Nat /\ bytes_used = Total(gone) + Total(Resident \ gone)
    BY <2>2, PartsOfCache
  <2>4. Fits(k, gone) <=> Total(Resident \ gone) + Size[k] <= Capacity
    BY <1>3, <2>2, FitsIs
  <2>5. CASE Fits(k, gone) /\ Resident' = (Resident \ gone) \cup {k}
             /\ bytes_used' = Total(Resident \ gone) + Size[k]
    <3>1. \A y \in (Resident \ gone) \cup {k} : Size[y] \in Int
      BY <2>2, SizeAssumption
    <3>2. Total((Resident \ gone) \cup {k}) = Total(Resident \ gone) + Size[k]
      BY <1>3, <2>3, <3>1, SumAdd DEF Total
    <3>3. IsFiniteSet(Resident') /\ Resident' \subseteq Key
      BY <2>2, <2>3, <2>5, FS_AddElement
    <3>4. BytesAccounted' /\ bytes_used' <= Capacity
      BY <2>4, <2>5, <3>2 DEF BytesAccounted, Total
    <3> QED
      BY <2>1, <3>3, <3>4 DEF CacheInv
  <2>6. CASE Resident' = Resident \ gone /\ bytes_used' = Total(Resident \ gone)
    <3>1. IsFiniteSet(Resident') /\ Resident' \subseteq Key
      BY <2>2, <2>3, <2>6
    <3>2. bytes_used' <= Capacity
      BY <2>3, <2>6, CapacityAssumption DEF CacheInv
    <3>3. BytesAccounted'
      BY <2>6 DEF BytesAccounted, Total
    <3> QED
      BY <2>1, <3>1, <3>2, <3>3 DEF CacheInv
  <2> QED
    BY <2>1, <2>5, <2>6
<1> QED
  BY <1>1, <1>2, <1>3 DEF Admit

\* A tick moves no bytes.
LEMMA TickKeepsResidents ==
  ASSUME Tick
  PROVE  Resident' = Resident /\ bytes_used' = bytes_used
<1>1. PICK see \in [Npc -> Snapshot], stopped \in BOOLEAN :
        LET want == Desired(see, stopped, next_tick) IN Decide(see, want, next_tick)
  BY DEF Tick
<1>2. bytes_used' = bytes_used /\ TickSeeing(see, Desired(see, stopped, next_tick), next_tick)
  BY <1>1 DEF Decide
<1>3. \E served : entries' = [k \in Resident |->
                     EntryAfter(k, Desired(see, stopped, next_tick), see, served, next_tick)]
  BY <1>2 DEF TickSeeing
<1>4. Resident' = Resident
  BY <1>3 DEF Resident
<1> QED
  BY <1>2, <1>4

LEMMA InitCache == Init => CacheInv
<1> SUFFICES ASSUME Init
             PROVE  CacheInv
  OBVIOUS
<1>1. Resident = {} /\ entries \in [Resident -> Entry] /\ bytes_used = 0
  BY DEF Init, CacheInit, Resident
<1>2. IsFiniteSet({}) /\ SumFunctionOnSet(Size, {}) = 0
  BY FS_EmptySet, SumEmpty
<1> QED
  BY <1>1, <1>2, CapacityAssumption DEF CacheInv, BytesAccounted, Total

LEMMA NextCache ==
  ASSUME NoWrap, IInv, IInv', CacheInv, [Next]_vars
  PROVE  CacheInv'
<1>1. CASE Tick
  <2>1. Resident' = Resident /\ bytes_used' = bytes_used
    BY <1>1, TickKeepsResidents
  <2>2. entries' \in [Resident' -> Entry]
    BY DEF IInv, CoreTypeOK
  <2> QED
    BY <2>1, <2>2 DEF CacheInv, BytesAccounted, Total
<1>2. ASSUME NEW k \in Key, NEW at \in now..MaxTime, NEW d \in Distances, Complete(k, at, d)
      PROVE  CacheInv'
  <2>1. at \in Nat /\ d \in Nat
    BY NpcAssumption DEF Distances, IInv, CoreTypeOK
  <2>2. Admit(k, at, d)
    BY <1>2 DEF Complete, OnComplete
  <2> QED
    BY <2>1, <2>2, AdmitAccounts
<1>3. CASE UNCHANGED vars
  BY <1>3 DEF vars, CacheInv, BytesAccounted, Total, Resident
<1> QED
  BY <1>1, <1>2, <1>3 DEF Next

LEMMA CacheHolds ==
  ASSUME NoWrap
  PROVE  Spec => [](IInv /\ CacheInv)
<1>1. Init => IInv /\ CacheInv
  BY InitInv, InitCache
<1>2. IInv /\ CacheInv /\ [Next]_vars => IInv' /\ CacheInv'
  BY NextInv, NextCache
<1> QED
  BY <1>1, <1>2, PTL DEF Spec

(***************************************************************************)
(* bytes_used_, kept incrementally over admissions, evictions and refusals *)
(* half way through, is the size of what is resident -- for any sizes and  *)
(* any capacity that a full cache and one more weight do not wrap.         *)
(***************************************************************************)
THEOREM BytesAreTrue ==
  ASSUME NoWrap
  PROVE  Spec => []BytesAccounted
<1>1. IInv /\ CacheInv => BytesAccounted
  BY DEF CacheInv
<1> QED
  BY <1>1, CacheHolds, PTL

(***************************************************************************)
(* The cache never holds more than its capacity.                           *)
(***************************************************************************)
THEOREM WithinCapacity ==
  ASSUME NoWrap
  PROVE  Spec => []CacheTypeOK
<1>1. ASSUME IInv, CacheInv
      PROVE  CacheTypeOK
  <2>1. bytes_used \in Nat
    <3>1. bytes_used = Total(Resident) /\ Resident \in SUBSET Resident
      BY <1>1 DEF CacheInv, BytesAccounted
    <3>2. Total(Resident) \in Nat
      BY <1>1, <3>1, PartsOfCache
    <3> QED
      BY <3>1, <3>2
  <2> QED
    BY <1>1, <2>1, CapacityAssumption DEF CacheTypeOK, CacheInv
<1> QED
  BY <1>1, CacheHolds, PTL

-----------------------------------------------------------------------------
\* What admit() evicts, and when it stops.
LEMMA AdmitEvicts ==
  ASSUME CacheInv, NoWrap, NEW k \in Key, NEW at \in Nat, NEW d \in Nat, Admit(k, at, d)
  PROVE  /\ FarthestFirst(Resident \ Resident')
         /\ IF Resident' \subseteq Resident THEN InVain(Resident \ Resident')
            ELSE NoneTooMany(Resident \ Resident', Resident')
<1>1. CASE Resident' = Resident
  BY <1>1 DEF FarthestFirst, InVain
<1>2. CASE k \notin Resident /\ Size[k] <= Capacity /\ Insert(k, at, d)
  <2>1. PICK gone \in SUBSET Unpinned :
           /\ Outcome(k, gone)
           /\ \/ /\ Fits(k, gone)
                 /\ Resident' = (Resident \ gone) \cup {k}
              \/ /\ ~Fits(k, gone)
                 /\ Resident' = Resident \ gone
    BY <1>2, InsertIs
  <2>2. Resident \ Resident' = gone /\ gone \in SUBSET Resident
    BY <1>2, <2>1 DEF Unpinned
  <2>3. FarthestFirst(gone)
    <3>1. ASSUME NEW v \in gone, NEW u \in Unpinned \ gone
          PROVE  \/ entries[v].distance > entries[u].distance
                 \/ entries[v].distance = entries[u].distance
                    /\ entries[v].last_access <= entries[u].last_access
      <4>1. ~GoesFirst(u, v)
        BY <2>1, <3>1 DEF Outcome
      <4>2. entries[u] \in Entry /\ entries[v] \in Entry
        BY <2>1 DEF Unpinned, CacheInv
      <4> QED
        BY <4>1, <4>2 DEF GoesFirst, Entry
    <3> QED
      BY <2>1, <3>1 DEF FarthestFirst
  <2>4. ASSUME ~(Resident' \subseteq Resident), gone # {}
        PROVE  NoneTooMany(gone, Resident')
    <3>1. Fits(k, gone) /\ Resident' = (Resident \ gone) \cup {k}
      BY <2>1, <2>4
    <3>2. PICK last \in gone : ~Fits(k, gone \ {last})
      BY <2>1, <2>4, <3>1 DEF Outcome
    <3>3. /\ IsFiniteSet(Resident \ gone) /\ Total(Resident \ gone) \in Nat
          /\ bytes_used = Total(gone) + Total(Resident \ gone)
          /\ Total(gone) = Size[last] + Total(gone \ {last}) /\ Total(gone \ {last}) \in Nat
      BY <2>2, PartsOfCache
    <3>4. gone \ {last} \in SUBSET Resident
      BY <2>2
    <3>5. /\ ~(Total(Resident \ (gone \ {last})) + Size[k] <= Capacity)
          /\ bytes_used = Total(gone \ {last}) + Total(Resident \ (gone \ {last}))
          /\ Total(Resident \ (gone \ {last})) \in Nat
      <4>1. ~(Total(Resident \ (gone \ {last})) + Size[k] <= Capacity)
        BY <1>2, <3>2, <3>4, FitsIs
      <4> QED
        BY <3>4, <4>1, PartsOfCache
    <3>6. Size[k] \in Nat /\ Size[last] \in Nat /\ Capacity \in Nat
          /\ \A y \in (Resident \ gone) \cup {k} : Size[y] \in Int
      BY <2>2, SizeAssumption, CapacityAssumption DEF CacheInv
    <3>7. Total(Resident') = Total(Resident \ gone) + Size[k]
      BY <1>2, <3>1, <3>3, <3>6, SumAdd DEF Total
    <3>8. Total(Resident') + Size[last] > Capacity
      <4> DEFINE rest == Total(Resident \ gone)
      <4> DEFINE more == Total(Resident \ (gone \ {last}))
      <4> HIDE DEF rest, more
      <4>1. more = rest + Size[last]
        <5> DEFINE less == Total(gone \ {last})
        <5>1. Total(gone) + rest = less + more /\ Total(gone) = Size[last] + less
          BY <3>3, <3>5 DEF rest, more
        <5>2. less \in Nat /\ rest \in Nat /\ more \in Nat
          BY <3>3, <3>5 DEF rest, more
        <5> QED
          BY <5>1, <5>2, <3>6
      <4>2. rest \in Nat /\ more \in Nat /\ ~(more + Size[k] <= Capacity)
        BY <3>3, <3>5 DEF rest, more
      <4>3. Total(Resident') = rest + Size[k]
        BY <3>7 DEF rest
      <4> QED
        BY <3>6, <4>1, <4>2, <4>3
    <3> QED
      BY <3>8 DEF NoneTooMany
  <2>5. ASSUME Resident' \subseteq Resident
        PROVE  InVain(gone)
    <3>1. ~Fits(k, gone)
      BY <1>2, <2>1, <2>5
    <3> QED
      BY <2>1, <3>1 DEF Outcome, InVain
  <2> QED
    BY <2>2, <2>3, <2>4, <2>5 DEF NoneTooMany
<1>3. k \in Resident /\ Refresh(k, at, d) => Resident' = Resident
  BY DEF Refresh, Resident, CacheInv
<1>4. UNCHANGED <<entries, bytes_used>> => Resident' = Resident
  BY DEF Resident
<1> QED
  BY <1>1, <1>2, <1>3, <1>4 DEF Admit

(***************************************************************************)
(* Whatever the rounds of an admission were, what they evicted is unpinned *)
(* and goes first by distance and staleness, the newcomer needed the last  *)
(* of it, and an admission that evicts in vain leaves nothing unpinned.    *)
(***************************************************************************)
THEOREM EvictionsInOrder ==
  ASSUME NoWrap
  PROVE  Spec => EvictsInOrder
<1> DEFINE InOrder ==
             /\ FarthestFirst(Resident \ Resident')
             /\ IF Resident' \subseteq Resident THEN InVain(Resident \ Resident')
                ELSE NoneTooMany(Resident \ Resident', Resident')
<1>1. ASSUME IInv, CacheInv, [Next]_vars
      PROVE  [InOrder]_cacheVars
  <2>1. CASE Resident' = Resident
    BY <2>1 DEF FarthestFirst, InVain
  <2>2. ASSUME NEW k \in Key, NEW at \in now..MaxTime, NEW d \in Distances, Complete(k, at, d)
        PROVE  InOrder
    <3>1. at \in Nat /\ d \in Nat
      BY <1>1, NpcAssumption DEF Distances, IInv, CoreTypeOK
    <3>2. Admit(k, at, d)
      BY <2>2 DEF Complete, OnComplete
    <3> QED
      BY <1>1, <3>1, <3>2, AdmitEvicts
  <2>3. Tick => Resident' = Resident
    BY TickKeepsResidents
  <2>4. UNCHANGED vars => Resident' = Resident
    BY DEF vars, Resident
  <2> QED
    BY <1>1, <2>1, <2>2, <2>3, <2>4 DEF Next
<1>2. IInv /\ CacheInv /\ [Next]_vars => [InOrder]_cacheVars
  BY <1>1
<1>3. Spec => [](IInv /\ CacheInv)
  BY CacheHolds
<1> HIDE DEF InOrder
<1>4. Spec => [][InOrder]_cacheVars
  BY <1>2, <1>3, PTL DEF Spec
<1> QED
  BY <1>4 DEF EvictsInOrder, InOrder

-----------------------------------------------------------------------------
(***************************************************************************)
(* Interactions and the clock.                                             *)
(***************************************************************************)
\* The first interaction of n that is under way is one of n.
LEMMA ActiveIs ==
  ASSUME NEW n \in Npc, NEW t, Active(n, t) # {}
  PROVE  /\ \E i \in DOMAIN Interactions : ActiveIx(n, t) = Interactions[i]
         /\ ActiveIx(n, t) \in [npc : Npc, at_ms : Nat, duration_ms : Nat]
         /\ ActiveIx(n, t).npc = n
<1> DEFINE S == Active(n, t)
<1> DEFINE f == [i \in S |-> -i]
<1>1. S \subseteq 1..Len(Interactions) /\ Len(Interactions) \in Nat
  BY InteractionsAssumption DEF Active
<1>2. IsFiniteSet(S) /\ \A i \in S : i \in Int /\ f[i] \in Int
  <2>1. IsFiniteSet(1..Len(Interactions))
    BY <1>1, FS_Interval
  <2>2. IsFiniteSet(S)
    BY <1>1, <2>1, FS_Subset
  <2>3. \A i \in S : i \in Int
    BY <1>1
  <2> QED
    BY <2>2, <2>3
<1>3. PICK i \in S : \A j \in S : f[i] >= f[j]
  <2> HIDE DEF f, S
  <2> QED
    BY <1>2, LargestExists DEF S
<1>4. \A j \in S : i <= j
  BY <1>2, <1>3
<1>5. Min(S) \in S
  <2> HIDE DEF S
  <2> QED
    BY <1>3, <1>4 DEF Min
<1>6. ActiveIx(n, t) = Interactions[Min(S)]
  BY DEF ActiveIx
<1>7. Min(S) \in DOMAIN Interactions /\ Interactions[Min(S)].npc = n
  BY <1>5 DEF Active
<1> HIDE DEF S
<1>8. Interactions[Min(S)] \in [npc : Npc, at_ms : Nat, duration_ms : Nat]
  <2> DEFINE R == [npc : Npc, at_ms : Nat, duration_ms : Nat]
  <2>1. Interactions \in Seq(R)
    BY InteractionsAssumption
  <2> HIDE DEF R
  <2>2. \A j \in DOMAIN Interactions : Interactions[j] \in R
    BY <2>1
  <2> QED
    BY <1>7, <2>2 DEF R
<1> QED
  BY <1>6, <1>7, <1>8

\* A part of a finite set and the rest of it.
LEMMA CardSplit ==
  ASSUME NEW S, IsFiniteSet(S), NEW R \in SUBSET S
  PROVE  /\ IsFiniteSet(R) /\ IsFiniteSet(S \ R)
         /\ Cardinality(R) \in Nat /\ Cardinality(S \ R) \in Nat /\ Cardinality(S) \in Nat
         /\ Cardinality(S) = Cardinality(R) + Cardinality(S \ R)
<1>1. S \cap R = R /\ IsFiniteSet(R) /\ IsFiniteSet(S \ R)
  BY FS_Subset
<1>2. Cardinality(S \ R) = Cardinality(S) - Cardinality(R)
  BY <1>1, FS_Difference
<1>3. Cardinality(R) \in Nat /\ Cardinality(S) \in Nat /\ Cardinality(S \ R) \in Nat
  BY <1>1, FS_CardinalityType
<1> QED
  BY <1>1, <1>2, <1>3

\* The counters after a tick.
LEMMA KpiAfterIs ==
  ASSUME kpi \in [Counters -> Nat],
         NEW hits, NEW partial, NEW total, NEW saturated,
         IsFiniteSet(hits), IsFiniteSet(partial), IsFiniteSet(total), IsFiniteSet(saturated),
         kpi' = KpiAfter(hits, partial, total, saturated)
  PROVE  /\ kpi' \in [Counters -> Nat]
         /\ kpi'["cache_hits"] = kpi["cache_hits"] + Cardinality(hits)
         /\ kpi'["cache_misses"]
              = kpi["cache_misses"] + Cardinality(partial) + Cardinality(total)
         /\ kpi'["degradations_no_weight"]
              = kpi["degradations_no_weight"] + Cardinality(total)
         /\ kpi'["core_saturation_events"]
              = kpi["core_saturation_events"] + Cardinality(saturated)
<1> DEFINE h == Cardinality(hits)
<1> DEFINE p == Cardinality(partial)
<1> DEFINE m == Cardinality(total)
<1> DEFINE s == Cardinality(saturated)
<1>1. h \in Nat /\ p \in Nat /\ m \in Nat /\ s \in Nat
  BY FS_CardinalityType
<1>2. kpi' = [kpi EXCEPT !["cache_hits"] = @ + h,
                         !["cache_misses"] = @ + p + m,
                         !["degradations_no_weight"] = @ + m,
                         !["core_saturation_events"] = @ + s]
  BY DEF KpiAfter
<1> HIDE DEF h, p, m, s
<1>3. /\ kpi' \in [Counters -> Nat]
      /\ kpi'["cache_hits"] = kpi["cache_hits"] + h
      /\ kpi'["cache_misses"] = kpi["cache_misses"] + p + m
      /\ kpi'["degradations_no_weight"] = kpi["degradations_no_weight"] + m
      /\ kpi'["core_saturation_events"] = kpi["core_saturation_events"] + s
  BY <1>1, <1>2 DEF Counters
<1> QED
  BY <1>3 DEF h, p, m, s

-----------------------------------------------------------------------------
\* The types that the counts of interactions depend on.
TallyTypeOK ==
  /\ slots \in [DOMAIN slots -> [lod : Lods, ends_at_ms : Nat]]
  /\ handled \subseteq Npc \X Nat
  /\ kpi \in [Counters -> Nat]

\* What a tick decides of the interactions that begin, one by one.
TickTallies(want, t) ==
  LET called == Called(want, t)
      total  == {n \in called : Usable(n, want[n]) = {}}
      hits   == {n \in called : WeightOf(n, want[n]) \in Resident}
  IN /\ handled' = handled \cup {InteractionKey(n, t) : n \in called}
     /\ \E saturated \in SUBSET (called \ total) :
          kpi' = KpiAfter(hits, (called \ total) \ hits, total, saturated)
     /\ \E winners \in SUBSET (called \ total), served \in SUBSET (called \ total) :
          LET kept == DOMAIN slots \ Expired(t)
          IN slots' = [n \in kept \cup winners |->
                         IF n \in served THEN SlotAfter(n, Min(Usable(n, want[n])), t)
                         ELSE slots[n]]
             /\ winners \subseteq served

LEMMA TickIs ==
  ASSUME Tick
  PROVE  /\ next_tick # NoTick /\ now' = next_tick /\ next_tick' = Rearmed(next_tick)
         /\ \E see, stopped : TickTallies(Desired(see, stopped, next_tick), next_tick)
<1>1. PICK see \in [Npc -> Snapshot], stopped \in BOOLEAN :
        LET want == Desired(see, stopped, next_tick) IN Decide(see, want, next_tick)
  BY DEF Tick
<1> DEFINE t == next_tick
<1> DEFINE want == Desired(see, stopped, t)
<1> DEFINE called == Called(want, t)
<1> DEFINE total == {n \in called : Usable(n, want[n]) = {}}
<1> DEFINE hits == {n \in called : WeightOf(n, want[n]) \in Resident}
<1> DEFINE kept == DOMAIN slots \ Expired(t)
<1>2. TickSeeing(see, want, t)
  BY <1>1 DEF Decide
<1> HIDE DEF want, t
<1>3. PICK winners \in SUBSET ((called \ total) \ kept) :
        /\ slots' = [n \in kept \cup winners |->
                       IF n \in winners \cup ((called \ total) \cap kept)
                       THEN SlotAfter(n, Min(Usable(n, want[n])), t) ELSE slots[n]]
        /\ kpi' = KpiAfter(hits, (called \ total) \ hits, total,
                           ((called \ total) \ kept) \ winners)
        /\ handled' = handled \cup {InteractionKey(n, t) : n \in called}
  BY <1>2 DEF TickSeeing
<1>4. TickTallies(want, t)
  <2> DEFINE served == winners \cup ((called \ total) \cap kept)
  <2> DEFINE saturated == ((called \ total) \ kept) \ winners
  <2>1. /\ saturated \in SUBSET (called \ total)
        /\ winners \in SUBSET (called \ total) /\ served \in SUBSET (called \ total)
        /\ winners \subseteq served
    OBVIOUS
  <2>2. /\ slots' = [n \in kept \cup winners |->
                       IF n \in served THEN SlotAfter(n, Min(Usable(n, want[n])), t)
                       ELSE slots[n]]
        /\ kpi' = KpiAfter(hits, (called \ total) \ hits, total, saturated)
        /\ handled' = handled \cup {InteractionKey(n, t) : n \in called}
    BY <1>3
  <2> HIDE DEF served, saturated
  <2> QED
    BY <2>1, <2>2 DEF TickTallies
<1> QED
  BY <1>4 DEF Tick, want, t

LEMMA SlotAfterType ==
  ASSUME slots \in [DOMAIN slots -> [lod : Lods, ends_at_ms : Nat]],
         NEW n \in Npc, NEW lod \in Lods, NEW t, Active(n, t) # {}
  PROVE  SlotAfter(n, lod, t) \in [lod : Lods, ends_at_ms : Nat]
<1> DEFINE ends == ActiveIx(n, t).at_ms + ActiveIx(n, t).duration_ms
<1>1. ends \in Nat
  BY ActiveIs
<1> HIDE DEF ends
<1>2. n \in DOMAIN slots => Max({slots[n].ends_at_ms, ends}) \in Nat
  <2>1. ASSUME NEW a \in Nat, NEW b \in Nat
        PROVE  Max({a, b}) \in Nat
    <3>1. \E x \in {a, b} : \A y \in {a, b} : x >= y
      OBVIOUS
    <3> QED
      BY <3>1 DEF Max
  <2> QED
    BY <1>1, <2>1
<1>3. SlotAfter(n, lod, t) =
        [lod |-> lod, ends_at_ms |-> IF n \in DOMAIN slots /\ n \notin Expired(t)
                                     THEN Max({slots[n].ends_at_ms, ends}) ELSE ends]
  BY DEF SlotAfter, ends
<1> QED
  BY <1>1, <1>2, <1>3

\* Whom a tick serves: interactions that are under way, with a LOD to fall back on.
LEMMA CalledIs ==
  ASSUME NEW see, NEW stopped, NEW t, NEW n \in Called(Desired(see, stopped, t), t)
  PROVE  /\ n \in Npc /\ Active(n, t) # {} /\ InteractionKey(n, t) \notin handled
         /\ Desired(see, stopped, t)[n] \in Lods
<1>1. Desired(see, stopped, t) \in [Npc -> Lods \cup {NoLod}]
  BY DesiredType
<1> QED
  BY <1>1 DEF Called

LEMMA TallyTick ==
  ASSUME TallyTypeOK, Tick
  PROVE  TallyTypeOK'
<1>1. PICK see, stopped : TickTallies(Desired(see, stopped, next_tick), next_tick)
  BY TickIs
<1> DEFINE t == next_tick
<1> DEFINE want == Desired(see, stopped, t)
<1> DEFINE called == Called(want, t)
<1> DEFINE total == {n \in called : Usable(n, want[n]) = {}}
<1> DEFINE hits == {n \in called : WeightOf(n, want[n]) \in Resident}
<1> DEFINE kept == DOMAIN slots \ Expired(t)
<1>2. \A n \in called : /\ n \in Npc /\ Active(n, t) # {} /\ want[n] \in Lods
  BY CalledIs
<1>3. IsFiniteSet(called) /\ called \subseteq Npc
  BY <1>2, NpcAssumption, FS_Subset
<1>4. /\ handled' = handled \cup {InteractionKey(n, t) : n \in called}
      /\ \E saturated \in SUBSET (called \ total) :
           kpi' = KpiAfter(hits, (called \ total) \ hits, total, saturated)
      /\ \E winners \in SUBSET (called \ total), served \in SUBSET (called \ total) :
           /\ slots' = [n \in kept \cup winners |->
                          IF n \in served THEN SlotAfter(n, Min(Usable(n, want[n])), t)
                          ELSE slots[n]]
           /\ winners \subseteq served
  BY <1>1 DEF TickTallies
<1> HIDE DEF called, want, kept
<1>5. kpi' \in [Counters -> Nat]
  <2>1. PICK saturated \in SUBSET (called \ total) :
           kpi' = KpiAfter(hits, (called \ total) \ hits, total, saturated)
    BY <1>4
  <2>2. /\ IsFiniteSet(hits) /\ IsFiniteSet(total) /\ IsFiniteSet(saturated)
        /\ IsFiniteSet((called \ total) \ hits)
    BY <1>3, FS_Subset
  <2> HIDE DEF hits, total
  <2> QED
    BY <2>1, <2>2, KpiAfterIs DEF TallyTypeOK
<1>6. handled' \subseteq Npc \X Nat
  <2>1. ASSUME NEW n \in called
        PROVE  InteractionKey(n, t) \in Npc \X Nat
    <3>1. n \in Npc /\ ActiveIx(n, t).at_ms \in Nat
      BY <1>2, ActiveIs
    <3>2. ActiveIx(n, t).at_ms % KeySpan \in Nat
      BY <3>1, CoresAssumption
    <3> QED
      BY <3>1, <3>2 DEF InteractionKey
  <2> QED
    BY <1>4, <2>1 DEF TallyTypeOK
<1>7. slots' \in [DOMAIN slots' -> [lod : Lods, ends_at_ms : Nat]]
  <2>1. PICK winners \in SUBSET (called \ total), served \in SUBSET (called \ total) :
           /\ slots' = [n \in kept \cup winners |->
                          IF n \in served THEN SlotAfter(n, Min(Usable(n, want[n])), t)
                          ELSE slots[n]]
           /\ winners \subseteq served
    BY <1>4
  <2>2. DOMAIN slots' = kept \cup winners
    BY <2>1
  <2>3. ASSUME NEW n \in kept \cup winners
        PROVE  slots'[n] \in [lod : Lods, ends_at_ms : Nat]
    <3>1. CASE n \in served
      <4>1. n \in Npc /\ Active(n, t) # {} /\ want[n] \in Lods /\ Usable(n, want[n]) # {}
        BY <1>2, <2>1, <3>1
      <4>2. Min(Usable(n, want[n])) \in Lods
        BY <4>1, BestUsable, UsableType
      <4>3. SlotAfter(n, Min(Usable(n, want[n])), t) \in [lod : Lods, ends_at_ms : Nat]
        BY <4>1, <4>2, SlotAfterType DEF TallyTypeOK
      <4> QED
        BY <2>1, <3>1, <4>3
    <3>2. CASE n \notin served
      <4>1. slots'[n] = slots[n] /\ n \in DOMAIN slots
        BY <2>1, <2>3, <3>2 DEF kept
      <4> QED
        BY <4>1 DEF TallyTypeOK
    <3> QED
      BY <3>1, <3>2
  <2> QED
    BY <2>1, <2>2, <2>3
<1> QED
  BY <1>5, <1>6, <1>7 DEF TallyTypeOK

\* A completion changes two counters, and no interaction.
LEMMA CompleteIs ==
  ASSUME NEW k \in Key, NEW at, NEW d, Complete(k, at, d), kpi \in [Counters -> Nat],
         IsFiniteSet(Resident)
  PROVE  /\ slots' = slots /\ handled' = handled /\ next_tick' = next_tick /\ now' = at
         /\ next_tick # NoTick => at <= next_tick
         /\ kpi' \in [Counters -> Nat]
         /\ \A c \in {"cache_hits", "cache_misses", "degradations_no_weight",
                      "core_saturation_events"} : kpi'[c] = kpi[c]
<1> DEFINE out == Cardinality(Resident \ Resident')
<1> DEFINE refused == IF k \in Resident' THEN 0 ELSE 1
<1>1. out \in Nat /\ refused \in Nat
  BY FS_Subset, FS_CardinalityType
<1>2. /\ slots' = slots /\ handled' = handled /\ next_tick' = next_tick /\ now' = at
      /\ next_tick # NoTick => at <= next_tick
      /\ kpi' = [kpi EXCEPT !["evictions"] = @ + out, !["admission_refusals"] = @ + refused]
  BY DEF Complete, OnComplete
<1> HIDE DEF out, refused
<1>3. kpi' = [c \in Counters |-> IF c = "evictions" THEN kpi[c] + out
                                 ELSE IF c = "admission_refusals" THEN kpi[c] + refused
                                 ELSE kpi[c]]
  BY <1>2 DEF Counters
<1>4. kpi' \in [Counters -> Nat]
  BY <1>1, <1>3
<1>5. \A c \in {"cache_hits", "cache_misses", "degradations_no_weight",
                "core_saturation_events"} : kpi'[c] = kpi[c]
  BY <1>3 DEF Counters
<1> QED
  BY <1>2, <1>4, <1>5

\* There are finitely many weights.
LEMMA FinitelyMany ==
  ASSUME CoreTypeOK
  PROVE  IsFiniteSet(Resident)
<1> DEFINE P == Npc \X Lods
<1> DEFINE f == [p \in P |-> WeightOf(p[1], p[2])]
<1>1. IsFiniteSet(P)
  <2>1. IsFiniteSet(Lods)
    <3>1. 0 \in Int /\ 2 \in Int
      OBVIOUS
    <3> HIDE DEF P, f
    <3>2. IsFiniteSet(0..2)
      BY <3>1, FS_Interval
    <3> QED
      BY <3>2 DEF Lods
  <2> QED
    BY <2>1, NpcAssumption, FS_Product
<1>2. f \in [P -> Key]
  BY WeightOfType
<1>3. ASSUME NEW k \in Key
      PROVE  \E p \in P : f[p] = k
  <2>1. k.npc \in Npc /\ k.lod \in Lods /\ k = [npc |-> k.npc, lod |-> k.lod]
    BY KeyAssumption
  <2> DEFINE p == <<k.npc, k.lod>>
  <2>2. p \in P /\ p[1] = k.npc /\ p[2] = k.lod
    BY <2>1
  <2> HIDE DEF p, P
  <2>3. f[p] = k
    BY <2>1, <2>2 DEF WeightOf
  <2> QED
    BY <2>2, <2>3
<1> HIDE DEF f, P
<1>4. f \in Surjection(P, Key)
  BY <1>2, <1>3 DEF Surjection
<1>5. IsFiniteSet(Key)
  BY <1>1, <1>4, FS_Surjection
<1> QED
  BY <1>5, FS_Subset DEF CoreTypeOK

LEMMA TallyHolds == Spec => []TallyTypeOK
<1>1. Init => TallyTypeOK
  BY DEF Init, TallyTypeOK
<1>2. ASSUME IInv, TallyTypeOK, [Next]_vars
      PROVE  TallyTypeOK'
  <2>1. ASSUME NEW k \in Key, NEW at \in now..MaxTime, NEW d \in Distances, Complete(k, at, d)
        PROVE  TallyTypeOK'
    <3>1. kpi \in [Counters -> Nat] /\ IsFiniteSet(Resident)
      BY <1>2, FinitelyMany DEF TallyTypeOK, IInv
    <3>2. slots' = slots /\ handled' = handled /\ kpi' \in [Counters -> Nat]
      BY <2>1, <3>1, CompleteIs
    <3> QED
      BY <1>2, <3>2 DEF TallyTypeOK
  <2>2. CASE UNCHANGED vars
    BY <1>2, <2>2 DEF vars, TallyTypeOK
  <2> QED
    BY <1>2, <2>1, <2>2, TallyTick DEF Next
<1>3. IInv /\ TallyTypeOK /\ [Next]_vars => TallyTypeOK'
  BY <1>2
<1> QED
  BY <1>1, <1>3, Invariance, PTL DEF Spec

(***************************************************************************)
(* The types of all the variables, bytes_used_ within the capacity among   *)
(* them.                                                                   *)
(***************************************************************************)
THEOREM TypeCorrect ==
  ASSUME NoWrap
  PROVE  Spec => []TypeOK
<1>1. IInv /\ CacheTypeOK /\ TallyTypeOK => TypeOK
  BY DEF IInv, CoreTypeOK, TallyTypeOK, TypeOK
<1> QED
  BY <1>1, Invariance, WithinCapacity, TallyHolds, PTL

-----------------------------------------------------------------------------
(***************************************************************************)
(* The count of interactions.  interact_handled_ keeps 8 bits of at_ms:    *)
(* what follows is true where they tell the interactions of an NPC apart.  *)
(***************************************************************************)
KeysDiffer ==
  \A i, j \in DOMAIN Interactions :
    /\ Interactions[i].npc = Interactions[j].npc
    /\ Interactions[i].at_ms % KeySpan = Interactions[j].at_ms % KeySpan
    => Interactions[i] = Interactions[j]

LastTick == Max({1, DurationMs * UsPerMs})

\* Every tick up to now has run, and the next one is not late.
ClockInv ==
  /\ \A m \in Nat :
       m % TickUs = 0 /\ m < LastTick /\ (next_tick = NoTick \/ m < next_tick) => m <= now
  /\ next_tick # NoTick =>
       next_tick % TickUs = 0 /\ next_tick < LastTick /\ now <= next_tick

KeyOf(b) == <<b[1], b[2].at_ms % KeySpan>>

\* handled says, key by key, which interactions have begun.
TallyInv ==
  /\ ClockInv
  /\ IsFiniteSet(Begun)
  /\ handled = {KeyOf(b) : b \in Begun}
  /\ InteractionsCounted

LEMMA LastTickIs ==
  LastTick \in Nat /\ LastTick >= 1 /\ LastTick >= DurationMs * UsPerMs
    /\ (LastTick = 1 \/ LastTick = DurationMs * UsPerMs) /\ DurationMs * UsPerMs \in Nat
<1> DEFINE d == DurationMs * UsPerMs
<1>1. d \in Nat
  BY CoresAssumption
<1> HIDE DEF d
<1>2. \E x \in {1, d} : \A y \in {1, d} : x >= y
  BY <1>1
<1>3. Max({1, d}) \in {1, d} /\ \A y \in {1, d} : Max({1, d}) >= y
  BY <1>2 DEF Max
<1> QED
  BY <1>1, <1>3 DEF LastTick, d

\* Multiples of the tick: none between one and the next.
LEMMA TickMultiples ==
  ASSUME NEW m \in Nat, NEW t \in Nat, m % TickUs = 0, t % TickUs = 0
  PROVE  /\ m < t + TickUs => m <= t
         /\ (t + TickUs) % TickUs = 0
<1>0. TickUs \in Nat \ {0}
  BY CoresAssumption
<1>1. ASSUME NEW x \in Nat
      PROVE  x = TickUs * (x \div TickUs) + (x % TickUs) /\ x \div TickUs \in Nat
  BY <1>0
<1> DEFINE p == m \div TickUs
<1> DEFINE q == t \div TickUs
<1>2. m = TickUs * p /\ t = TickUs * q /\ p \in Nat /\ q \in Nat
  BY <1>0, <1>1
<1> HIDE DEF p, q
<1>3. t + TickUs = TickUs * (q + 1) /\ (TickUs * (q + 1)) % TickUs = 0
  BY <1>0, <1>2
<1>4. q + 1 <= p => TickUs * (q + 1) <= TickUs * p
  BY <1>0, <1>2
<1>5. m < t + TickUs => p <= q
  <2>1. TickUs * (q + 1) \in Nat /\ TickUs * p \in Nat
    BY <1>0, <1>2
  <2> QED
    BY <1>2, <1>3, <1>4, <2>1
<1>6. p <= q => TickUs * p <= TickUs * q
  BY <1>0, <1>2
<1> QED
  BY <1>2, <1>3, <1>5, <1>6

LEMMA ClockTick ==
  ASSUME IInv, ClockInv, next_tick # NoTick, now' = next_tick, next_tick' = Rearmed(next_tick)
  PROVE  ClockInv' /\ Ticked' = Ticked \cup {next_tick}
<1> DEFINE t == next_tick
<1> DEFINE multiple(m) == m % TickUs = 0
<1>1. /\ t \in Nat /\ now \in Nat /\ TickUs \in Nat \ {0}
      /\ t % TickUs = 0 /\ t < LastTick /\ now <= t
      /\ LastTick' = LastTick
  BY CoresAssumption DEF IInv, CoreTypeOK, ClockInv, LastTick
<1>2. \A m \in Nat : m % TickUs = 0 /\ m < t => m <= now
  <2>1. \A m \in Nat : m < t => m < LastTick
    BY <1>1, LastTickIs
  <2> QED
    BY <2>1 DEF ClockInv
<1>3. \A m \in Nat : m % TickUs = 0 /\ m < t + TickUs => m <= t
  BY <1>1, TickMultiples
<1>4. /\ (t + TickUs) % TickUs = 0
      /\ next_tick' = NoTick \/ (next_tick' = t + TickUs /\ t + TickUs < LastTick)
      /\ next_tick' = NoTick => LastTick <= t + TickUs
  <2>1. (t + TickUs) % TickUs = 0
    BY <1>1, TickMultiples
  <2> DEFINE d == DurationMs * UsPerMs
  <2>2. next_tick' = IF t + TickUs < d THEN t + TickUs ELSE NoTick
    BY DEF Rearmed
  <2>3. d \in Nat /\ LastTick \in Nat /\ LastTick >= d /\ (LastTick = 1 \/ LastTick = d)
    BY LastTickIs
  <2> HIDE DEF d
  <2>4. t + TickUs >= 1 /\ t + TickUs \in Nat
    BY <1>1
  <2>5. CASE t + TickUs < d
    BY <2>1, <2>2, <2>3, <2>4, <2>5 DEF NoTick
  <2>6. CASE ~(t + TickUs < d)
    BY <2>1, <2>2, <2>3, <2>4, <2>6
  <2> QED
    BY <2>5, <2>6
<1>5. \A m \in Nat : m < LastTick /\ (next_tick' = NoTick \/ m < next_tick') => m < t + TickUs
  BY <1>1, <1>4, LastTickIs
<1>6. ClockInv'
  <2>1. \A m \in Nat : m % TickUs = 0 /\ m < LastTick /\ (next_tick' = NoTick \/ m < next_tick')
                         => m <= now'
    BY <1>3, <1>5
  <2>2. next_tick' # NoTick =>
          next_tick' % TickUs = 0 /\ next_tick' < LastTick /\ now' <= next_tick'
    BY <1>1, <1>4
  <2> QED
    BY <1>1, <2>1, <2>2 DEF ClockInv
<1>7. Ticked = {m \in 0..now : m % TickUs = 0 /\ m < LastTick /\ m < t}
  BY DEF Ticked, LastTick
<1>8. Ticked' = {m \in 0..t : m % TickUs = 0 /\ m < LastTick
                               /\ (next_tick' = NoTick \/ m < next_tick')}
  BY DEF Ticked, LastTick
<1>9. \A m : m \in Ticked <=> m \in Nat /\ m % TickUs = 0 /\ m < t
  <2>1. \A m \in 0..now : m \in Nat /\ m <= now
    BY <1>1
  <2>2. \A m \in Nat : m <= now => m \in 0..now
    BY <1>1
  <2>3. \A m \in Nat : m < t => m < LastTick
    BY <1>1, LastTickIs
  <2> QED
    BY <1>2, <1>7, <2>1, <2>2, <2>3
<1>10. \A m : m \in Ticked' <=> m \in Nat /\ m % TickUs = 0 /\ m <= t
  <2>1. \A m : m \in 0..t <=> m \in Nat /\ m <= t
    BY <1>1
  <2>2. \A m \in Nat : m <= t => m < LastTick /\ (next_tick' = NoTick \/ m < next_tick')
    BY <1>1, <1>4, LastTickIs
  <2> QED
    BY <1>8, <2>1, <2>2
<1>11. \A m : m \in Nat /\ m <= t <=> (m \in Nat /\ m < t) \/ m = t
  BY <1>1
<1>12. \A m : m \in Ticked' <=> m \in Ticked \/ m = t
  BY <1>1, <1>9, <1>10, <1>11
<1> QED
  BY <1>6, <1>12

\* Between ticks nothing begins.
LEMMA ClockComplete ==
  ASSUME IInv, ClockInv, now' \in Nat, now <= now', next_tick' = next_tick,
         next_tick # NoTick => now' <= next_tick
  PROVE  ClockInv' /\ Ticked' = Ticked
<1>1. now \in Nat /\ LastTick' = LastTick /\ LastTick \in Nat
  BY LastTickIs DEF IInv, CoreTypeOK, LastTick
<1>2. \A m \in Nat :
        m % TickUs = 0 /\ m < LastTick /\ (next_tick = NoTick \/ m < next_tick) => m <= now
  BY DEF ClockInv
<1>3. ClockInv'
  <2>1. \A m \in Nat : m <= now => m <= now'
    BY <1>1
  <2>2. \A m \in Nat : m % TickUs = 0 /\ m < LastTick /\ (next_tick' = NoTick \/ m < next_tick')
                         => m <= now'
    BY <1>2, <2>1
  <2> QED
    BY <1>1, <2>2 DEF ClockInv
<1>4. \A m : m \in 0..now' <=> m \in Nat /\ m <= now'
  OBVIOUS
<1>5. \A m : m \in 0..now <=> m \in Nat /\ m <= now
  BY <1>1
<1>6. \A m \in Nat : m <= now => m <= now'
  BY <1>1
<1>7. Ticked = {m \in 0..now : m % TickUs = 0 /\ m < LastTick
                               /\ (next_tick = NoTick \/ m < next_tick)}
  BY DEF Ticked, LastTick
<1>8. Ticked' = {m \in 0..now' : m % TickUs = 0 /\ m < LastTick
                               /\ (next_tick = NoTick \/ m < next_tick)}
  BY DEF Ticked, LastTick
<1>9. \A m : m \in Ticked' <=> m \in Ticked
  BY <1>2, <1>4, <1>5, <1>6, <1>7, <1>8
<1> QED
  BY <1>3, <1>9

\* Interactions that some time of T has seen.
LEMMA SeenAt ==
  ASSUME NEW T
  PROVE  \A b : b \in {<<p[1], ActiveIx(p[1], p[2])>> :
                         p \in {q \in Npc \X T : Active(q[1], q[2]) # {}}}
           <=> \E n \in Npc, t \in T : Active(n, t) # {} /\ b = <<n, ActiveIx(n, t)>>
<1> DEFINE Q == {q \in Npc \X T : Active(q[1], q[2]) # {}}
<1> DEFINE B == {<<p[1], ActiveIx(p[1], p[2])>> : p \in Q}
<1>2. \A n \in Npc, t \in T :
        Active(n, t) # {} => <<n, t>> \in Q /\ <<n, t>>[1] = n /\ <<n, t>>[2] = t
  OBVIOUS
<1>3. \A p \in Q : p[1] \in Npc /\ p[2] \in T /\ Active(p[1], p[2]) # {}
  OBVIOUS
<1> HIDE DEF Q
<1>4. ASSUME NEW n \in Npc, NEW t \in T, Active(n, t) # {}
      PROVE  <<n, ActiveIx(n, t)>> \in B
  <2> DEFINE p == <<n, t>>
  <2>1. p \in Q /\ p[1] = n /\ p[2] = t
    BY <1>2, <1>4
  <2> HIDE DEF p
  <2> QED
    BY <2>1
<1>5. \A b : b \in B <=> \E n \in Npc, t \in T : Active(n, t) # {} /\ b = <<n, ActiveIx(n, t)>>
  BY <1>3, <1>4
<1> QED
  BY <1>5 DEF Q

LEMMA BegunIs ==
  /\ \A b : b \in Begun <=>
       \E n \in Npc, t \in Ticked : Active(n, t) # {} /\ b = <<n, ActiveIx(n, t)>>
  /\ \A b : b \in Begun' <=>
       \E n \in Npc, t \in Ticked' : Active(n, t) # {} /\ b = <<n, ActiveIx(n, t)>>
<1>1. \A b : b \in Begun <=>
        \E n \in Npc, t \in Ticked : Active(n, t) # {} /\ b = <<n, ActiveIx(n, t)>>
  BY SeenAt DEF Begun
<1>2. \A b : b \in Begun' <=>
        \E n \in Npc, t \in Ticked' : Active(n, t) # {} /\ b = <<n, ActiveIx(n, t)>>
  <2> DEFINE T == Ticked'
  <2>1. Begun' = {<<p[1], ActiveIx(p[1], p[2])>> :
                    p \in {q \in Npc \X T : Active(q[1], q[2]) # {}}}
    BY DEF Begun, Active, ActiveIx
  <2> HIDE DEF T
  <2>2. \A b : b \in {<<p[1], ActiveIx(p[1], p[2])>> :
                         p \in {q \in Npc \X T : Active(q[1], q[2]) # {}}}
           <=> \E n \in Npc, t \in T : Active(n, t) # {} /\ b = <<n, ActiveIx(n, t)>>
    BY SeenAt
  <2> QED
    BY <2>1, <2>2 DEF T
<1> QED
  BY <1>1, <1>2

\* An interaction that has begun is one of the scenario, and its key tells which.
LEMMA KeyTells ==
  ASSUME KeysDiffer, NEW b \in Begun, NEW n \in Npc, NEW t, Active(n, t) # {},
         KeyOf(b) = InteractionKey(n, t)
  PROVE  b = <<n, ActiveIx(n, t)>>
<1>1. PICK m \in Npc, s \in Ticked : Active(m, s) # {} /\ b = <<m, ActiveIx(m, s)>>
  BY BegunIs
<1>2. m = n /\ ActiveIx(m, s).at_ms % KeySpan = ActiveIx(n, t).at_ms % KeySpan
  <2> DEFINE x == ActiveIx(m, s).at_ms % KeySpan
  <2> DEFINE y == ActiveIx(n, t).at_ms % KeySpan
  <2>1. KeyOf(b) = <<m, x>>
    BY <1>1 DEF KeyOf
  <2>2. InteractionKey(n, t) = <<n, y>>
    BY DEF InteractionKey
  <2>3. <<m, x>> = <<n, y>>
    BY <2>1, <2>2
  <2> HIDE DEF x, y
  <2>4. m = n /\ x = y
    BY <2>3
  <2> QED
    BY <2>4 DEF x, y
<1>3. PICK i \in DOMAIN Interactions : ActiveIx(m, s) = Interactions[i]
  BY <1>1, ActiveIs
<1>4. PICK j \in DOMAIN Interactions : ActiveIx(n, t) = Interactions[j]
  BY ActiveIs
<1>5. Interactions[i].npc = m /\ Interactions[j].npc = n
  BY <1>1, <1>3, <1>4, ActiveIs
<1>6. Interactions[i] = Interactions[j]
  BY <1>2, <1>3, <1>4, <1>5 DEF KeysDiffer
<1> QED
  BY <1>1, <1>2, <1>3, <1>4, <1>6

\* Interactions of different NPCs are different: as many begin as NPCs call.
LEMMA NewcomersCount ==
  ASSUME NEW called, IsFiniteSet(called), NEW t
  PROVE  LET new == {<<n, ActiveIx(n, t)>> : n \in called}
         IN IsFiniteSet(new) /\ Cardinality(new) = Cardinality(called)
<1> DEFINE new == {<<n, ActiveIx(n, t)>> : n \in called}
<1> DEFINE f == [n \in called |-> <<n, ActiveIx(n, t)>>]
<1>1. f \in [called -> new] /\ \A b \in new : \E n \in called : f[n] = b
  OBVIOUS
<1>2. ASSUME NEW m \in called, NEW n \in called, f[m] = f[n]
      PROVE  m = n
  <2>1. <<m, ActiveIx(m, t)>> = <<n, ActiveIx(n, t)>>
    BY <1>2
  <2> QED
    BY <2>1
<1> HIDE DEF f, new
<1>3. f \in Bijection(called, new)
  BY <1>1, <1>2 DEF Bijection, Injection, Surjection, IsInjective
<1>4. ExistsBijection(called, new)
  BY <1>3 DEF ExistsBijection
<1>5. IsFiniteSet(new) /\ Cardinality(new) = Cardinality(called)
  BY <1>4, FS_Bijection
<1> QED
  BY <1>5 DEF new

\* What a tick counts: everybody who calls, once, as a hit or as a miss.
LEMMA TickCounts ==
  ASSUME TallyTypeOK, NEW see, NEW stopped, NEW t,
         TickTallies(Desired(see, stopped, t), t)
  PROVE  LET c == Cardinality(Called(Desired(see, stopped, t), t))
         IN /\ c \in Nat /\ kpi' \in [Counters -> Nat]
            /\ kpi'["cache_hits"] + kpi'["cache_misses"]
                 = kpi["cache_hits"] + kpi["cache_misses"] + c
            /\ kpi["degradations_no_weight"] <= kpi["cache_misses"]
                 => kpi'["degradations_no_weight"] <= kpi'["cache_misses"]
            /\ kpi'["core_saturation_events"] + kpi'["degradations_no_weight"]
                 <= kpi["core_saturation_events"] + kpi["degradations_no_weight"] + c
<1> DEFINE want == Desired(see, stopped, t)
<1> DEFINE called == Called(want, t)
<1> DEFINE total == {n \in called : Usable(n, want[n]) = {}}
<1> DEFINE hits == {n \in called : WeightOf(n, want[n]) \in Resident}
<1> DEFINE takers == called \ total
<1>1. \A n \in called : /\ n \in Npc /\ want[n] \in Lods
  BY CalledIs
<1>2. PICK saturated \in SUBSET takers :
        kpi' = KpiAfter(hits, takers \ hits, total, saturated)
  BY DEF TickTallies
<1>3. IsFiniteSet(called)
  BY <1>1, NpcAssumption, FS_Subset
<1>4. hits \subseteq takers
  <2>1. ASSUME NEW n \in hits
        PROVE  n \notin total
    <3>1. want[n] \in want[n]..2
      BY <1>1 DEF Lods
    <3>2. want[n] \in Usable(n, want[n])
      BY <3>1 DEF Usable
    <3> QED
      BY <3>2
  <2> QED
    BY <2>1
<1>5. total \in SUBSET called /\ takers = called \ total
  OBVIOUS
<1> HIDE DEF called, total, hits, takers
<1>6. /\ IsFiniteSet(total) /\ IsFiniteSet(takers)
      /\ Cardinality(total) \in Nat /\ Cardinality(called) \in Nat
      /\ Cardinality(takers) \in Nat
      /\ Cardinality(called) = Cardinality(total) + Cardinality(takers)
  BY <1>3, <1>5, CardSplit
<1>7. /\ IsFiniteSet(hits) /\ IsFiniteSet(takers \ hits)
      /\ Cardinality(hits) \in Nat /\ Cardinality(takers \ hits) \in Nat
      /\ Cardinality(takers) = Cardinality(hits) + Cardinality(takers \ hits)
  BY <1>4, <1>6, CardSplit
<1>8. /\ IsFiniteSet(saturated) /\ Cardinality(saturated) \in Nat
      /\ Cardinality(saturated) <= Cardinality(takers)
  BY <1>2, <1>6, FS_Subset, FS_CardinalityType
<1>9. /\ kpi' \in [Counters -> Nat]
      /\ kpi'["cache_hits"] = kpi["cache_hits"] + Cardinality(hits)
      /\ kpi'["cache_misses"]
           = kpi["cache_misses"] + Cardinality(takers \ hits) + Cardinality(total)
      /\ kpi'["degradations_no_weight"]
           = kpi["degradations_no_weight"] + Cardinality(total)
      /\ kpi'["core_saturation_events"]
           = kpi["core_saturation_events"] + Cardinality(saturated)
  <2>1. kpi \in [Counters -> Nat]
    BY DEF TallyTypeOK
  <2> DEFINE partial == takers \ hits
  <2>2. kpi' = KpiAfter(hits, partial, total, saturated)
    BY <1>2
  <2>3. IsFiniteSet(hits) /\ IsFiniteSet(partial) /\ IsFiniteSet(total) /\ IsFiniteSet(saturated)
    BY <1>6, <1>7, <1>8
  <2> HIDE DEF partial
  <2>4. /\ kpi' \in [Counters -> Nat]
        /\ kpi'["cache_hits"] = kpi["cache_hits"] + Cardinality(hits)
        /\ kpi'["cache_misses"]
             = kpi["cache_misses"] + Cardinality(partial) + Cardinality(total)
        /\ kpi'["degradations_no_weight"]
             = kpi["degradations_no_weight"] + Cardinality(total)
        /\ kpi'["core_saturation_events"]
             = kpi["core_saturation_events"] + Cardinality(saturated)
    BY <2>1, <2>2, <2>3, KpiAfterIs
  <2> QED
    BY <2>4 DEF partial
<1>10. /\ kpi["cache_hits"] \in Nat /\ kpi["cache_misses"] \in Nat
       /\ kpi["degradations_no_weight"] \in Nat /\ kpi["core_saturation_events"] \in Nat
  BY DEF TallyTypeOK, Counters
<1> QED
  BY <1>6, <1>7, <1>8, <1>9, <1>10 DEF called

LEMMA TallyTickInv ==
  ASSUME KeysDiffer, IInv, TallyTypeOK, TallyInv, Tick
  PROVE  TallyInv'
<1>1. PICK see, stopped :
        /\ next_tick # NoTick /\ now' = next_tick /\ next_tick' = Rearmed(next_tick)
        /\ TickTallies(Desired(see, stopped, next_tick), next_tick)
  BY TickIs
<1> DEFINE t == next_tick
<1> DEFINE want == Desired(see, stopped, t)
<1> DEFINE called == Called(want, t)
<1> DEFINE new == {<<n, ActiveIx(n, t)>> : n \in called}
<1>2. ClockInv' /\ Ticked' = Ticked \cup {t}
  BY <1>1, ClockTick DEF TallyInv
<1>3. \A n : n \in called <=>
        n \in Npc /\ Active(n, t) # {} /\ InteractionKey(n, t) \notin handled
  <2>1. ASSUME NEW n \in Npc, Active(n, t) # {}
        PROVE  want[n] # NoLod
    BY <2>1 DEF Desired, SelectLod, NoLod
  <2> QED
    BY <2>1 DEF Called
<1>4. IsFiniteSet(called)
  BY <1>3, NpcAssumption, FS_Subset
<1>5. handled' = handled \cup {InteractionKey(n, t) : n \in called}
  BY <1>1 DEF TickTallies
<1> HIDE DEF called
<1>6. IsFiniteSet(new) /\ Cardinality(new) = Cardinality(called)
  BY <1>4, NewcomersCount
<1>7. ASSUME NEW n \in Npc, Active(n, t) # {}
      PROVE  InteractionKey(n, t) = KeyOf(<<n, ActiveIx(n, t)>>)
  BY DEF InteractionKey, KeyOf
<1>8. handled = {KeyOf(b) : b \in Begun}
  BY DEF TallyInv
\* Handled is who has begun before.
<1>9. ASSUME NEW n \in Npc, Active(n, t) # {}
      PROVE  n \in called <=> <<n, ActiveIx(n, t)>> \notin Begun
  <2>1. ASSUME <<n, ActiveIx(n, t)>> \in Begun
        PROVE  InteractionKey(n, t) \in handled
    BY <1>7, <1>8, <1>9, <2>1
  <2>2. ASSUME InteractionKey(n, t) \in handled
        PROVE  <<n, ActiveIx(n, t)>> \in Begun
    <3>1. PICK b \in Begun : InteractionKey(n, t) = KeyOf(b)
      BY <1>8, <2>2
    <3> QED
      BY <1>9, <3>1, KeyTells
  <2> QED
    BY <1>3, <1>9, <2>1, <2>2
<1>10. Begun' = Begun \cup new
  <2>1. ASSUME NEW b, b \in Begun'
        PROVE  b \in Begun \cup new
    <3>1. PICK n \in Npc, s \in Ticked' : Active(n, s) # {} /\ b = <<n, ActiveIx(n, s)>>
      BY <2>1, BegunIs
    <3>2. CASE s \in Ticked
      BY <3>1, <3>2, BegunIs
    <3>3. CASE s = t
      BY <1>9, <3>1, <3>3
    <3> QED
      BY <1>2, <3>1, <3>2, <3>3
  <2>2. ASSUME NEW b \in Begun
        PROVE  b \in Begun'
    BY <1>2, BegunIs
  <2>3. ASSUME NEW b \in new
        PROVE  b \in Begun'
    <3>1. PICK n \in called : b = <<n, ActiveIx(n, t)>>
      OBVIOUS
    <3>2. n \in Npc /\ Active(n, t) # {} /\ t \in Ticked'
      BY <1>2, <1>3
    <3> QED
      BY <3>1, <3>2, BegunIs
  <2> QED
    BY <2>1, <2>2, <2>3
<1>11. Begun \cap new = {}
  BY <1>3, <1>9
<1>12. handled' = {KeyOf(b) : b \in Begun'}
  <2>1. {KeyOf(b) : b \in Begun'} = {KeyOf(b) : b \in Begun} \cup {KeyOf(b) : b \in new}
    BY <1>10
  <2>2. {KeyOf(b) : b \in new} = {InteractionKey(n, t) : n \in called}
    <3>1. \A n \in called : InteractionKey(n, t) = KeyOf(<<n, ActiveIx(n, t)>>)
      BY <1>3, <1>7
    <3> QED
      BY <3>1
  <2> QED
    BY <1>5, <1>8, <2>1, <2>2
<1> HIDE DEF new
<1>13. /\ IsFiniteSet(Begun') /\ Cardinality(Begun') = Cardinality(Begun) + Cardinality(called)
       /\ Cardinality(Begun) \in Nat
  <2>1. IsFiniteSet(Begun)
    BY DEF TallyInv
  <2>2. Cardinality(Begun) \in Nat /\ Cardinality(called) \in Nat
    BY <1>4, <2>1, FS_CardinalityType
  <2>3. Cardinality(Begun \cap new) = 0
    BY <1>11, FS_EmptySet
  <2>4. Cardinality(Begun \cup new) = Cardinality(Begun) + Cardinality(new) - Cardinality(Begun \cap new)
    BY <1>6, <2>1, FS_Union
  <2>5. IsFiniteSet(Begun \cup new)
    BY <1>6, <2>1, FS_Union
  <2> QED
    BY <1>6, <1>10, <2>2, <2>3, <2>4, <2>5
<1>14. InteractionsCounted'
  <2> DEFINE c == Cardinality(called)
  <2>1. /\ c \in Nat /\ kpi' \in [Counters -> Nat]
        /\ kpi'["cache_hits"] + kpi'["cache_misses"]
             = kpi["cache_hits"] + kpi["cache_misses"] + c
        /\ kpi["degradations_no_weight"] <= kpi["cache_misses"]
             => kpi'["degradations_no_weight"] <= kpi'["cache_misses"]
        /\ kpi'["core_saturation_events"] + kpi'["degradations_no_weight"]
             <= kpi["core_saturation_events"] + kpi["degradations_no_weight"] + c
    BY <1>1, TickCounts DEF called
  <2>2. InteractionsCounted
    BY DEF TallyInv
  <2>3. /\ \A f \in {"cache_hits", "cache_misses", "degradations_no_weight",
                     "core_saturation_events"} : kpi[f] \in Nat /\ kpi'[f] \in Nat
    BY <2>1 DEF TallyTypeOK, Counters
  <2>4. Cardinality(Begun') = Cardinality(Begun) + c /\ Cardinality(Begun) \in Nat
    BY <1>13
  <2> HIDE DEF c
  <2>5. Cardinality(Begun') = kpi'["cache_hits"] + kpi'["cache_misses"]
    BY <2>1, <2>2, <2>3, <2>4 DEF InteractionsCounted
  <2>6. kpi'["degradations_no_weight"] <= kpi'["cache_misses"]
    BY <2>1, <2>2 DEF InteractionsCounted
  <2>7. kpi'["core_saturation_events"] + kpi'["degradations_no_weight"] <= Cardinality(Begun')
    BY <2>1, <2>2, <2>3, <2>4 DEF InteractionsCounted
  <2> QED
    BY <2>5, <2>6, <2>7 DEF InteractionsCounted
<1> QED
  BY <1>2, <1>12, <1>13, <1>14 DEF TallyInv

\* Between ticks nothing is counted.
LEMMA TallyKept ==
  ASSUME IInv, TallyTypeOK, TallyInv, Ticked' = Ticked, ClockInv', handled' = handled,
         \A c \in {"cache_hits", "cache_misses", "degradations_no_weight",
                   "core_saturation_events"} : kpi'[c] = kpi[c]
  PROVE  TallyInv'
<1>1. Begun' = Begun
  <2>1. \A b : b \in Begun' <=> b \in Begun
    BY BegunIs
  <2> QED
    BY <2>1
<1>2. InteractionsCounted'
  BY <1>1 DEF TallyInv, InteractionsCounted
<1>3. handled' = {KeyOf(b) : b \in Begun'}
  BY <1>1 DEF TallyInv
<1> QED
  BY <1>1, <1>2, <1>3 DEF TallyInv

LEMMA InitTally == Init => TallyInv
<1> SUFFICES ASSUME Init
             PROVE  TallyInv
  OBVIOUS
<1>1. now = 0 /\ next_tick = 0 /\ handled = {} /\ kpi = [c \in Counters |-> 0]
  BY DEF Init
<1>2. ClockInv
  BY <1>1, CoresAssumption, LastTickIs DEF ClockInv, NoTick
<1>3. Ticked = {}
  BY <1>1 DEF Ticked, NoTick
<1>4. Begun = {}
  <2>1. \A b : b \notin Begun
    BY <1>3, BegunIs
  <2> QED
    BY <2>1
<1>5. InteractionsCounted
  BY <1>1, <1>4, FS_EmptySet DEF InteractionsCounted, Counters
<1> QED
  BY <1>1, <1>2, <1>4, <1>5, FS_EmptySet DEF TallyInv

(***************************************************************************)
(* Every interaction that a tick has seen was attempted once and counts as *)
(* a hit or as a miss, for any scenario whose interactions differ in the   *)
(* bits of at_ms that interact_handled_ keeps.                             *)
(***************************************************************************)
THEOREM InteractionsAreCounted ==
  ASSUME KeysDiffer
  PROVE  Spec => []InteractionsCounted
<1>1. ASSUME IInv, TallyTypeOK, TallyInv, [Next]_vars
      PROVE  TallyInv'
  <2>1. ASSUME NEW k \in Key, NEW at \in now..MaxTime, NEW d \in Distances, Complete(k, at, d)
        PROVE  TallyInv'
    <3>1. kpi \in [Counters -> Nat] /\ IsFiniteSet(Resident) /\ now \in Nat
      BY <1>1, FinitelyMany DEF TallyTypeOK, IInv, CoreTypeOK
    <3>2. /\ handled' = handled /\ next_tick' = next_tick /\ now' = at
          /\ next_tick # NoTick => at <= next_tick
          /\ \A c \in {"cache_hits", "cache_misses", "degradations_no_weight",
                       "core_saturation_events"} : kpi'[c] = kpi[c]
      BY <2>1, <3>1, CompleteIs
    <3>3. ClockInv' /\ Ticked' = Ticked
      <4>1. now' \in Nat /\ now <= now' /\ next_tick # NoTick => now' <= next_tick
        BY <3>1, <3>2
      <4> QED
        BY <1>1, <3>1, <3>2, <4>1, ClockComplete DEF TallyInv
    <3> QED
      BY <1>1, <3>2, <3>3, TallyKept
  <2>2. CASE UNCHANGED vars
    <3>1. now' = now /\ next_tick' = next_tick /\ handled' = handled /\ kpi' = kpi /\ now \in Nat
      BY <1>1, <2>2 DEF vars, IInv, CoreTypeOK
    <3>2. now <= now' /\ (next_tick # NoTick => now' <= next_tick)
      BY <1>1, <3>1 DEF TallyInv, ClockInv
    <3>3. ClockInv' /\ Ticked' = Ticked
      BY <1>1, <3>1, <3>2, ClockComplete DEF TallyInv
    <3> QED
      BY <1>1, <3>1, <3>3, TallyKept
  <2> QED
    BY <1>1, <2>1, <2>2, TallyTickInv DEF Next
<1>2. IInv /\ TallyTypeOK /\ TallyInv /\ [Next]_vars => TallyInv'
  BY <1>1
<1>3. TallyInv => InteractionsCounted
  BY DEF TallyInv
<1>4. Spec => []TallyInv
  BY <1>2, InitTally, Invariance, TallyHolds, PTL DEF Spec
<1> QED
  BY <1>3, <1>4, PTL
=============================================================================
