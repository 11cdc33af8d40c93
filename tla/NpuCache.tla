------------------------------ MODULE NpuCache ------------------------------
(***************************************************************************)
(* NpuCache: the bounded cache of weights shared by the NPU cores.  A      *)
(* weight that has been loaded is admitted, which may evict others, the    *)
(* farthest from the player first and the stalest among equals; weights in *)
(* use are pinned and stay.  Among full ties the victim depends on the     *)
(* iteration order of an unordered_map: any of them.                       *)
(*                                                                         *)
(* Sizes and the capacity are uint32_t: sums are taken modulo Word (2^32). *)
(***************************************************************************)
EXTENDS Integers, FiniteSetsExt

CONSTANTS
  Key,        \* CacheKey: the weights, one per NPC and LOD
  Size,       \* Key -> bytes
  Capacity,   \* capacity_
  Word        \* 2^32

ASSUME CapacityAssumption == Capacity \in Nat /\ Word \in Nat /\ Capacity < Word
ASSUME SizeAssumption == Size \in [Key -> Nat \ {0}]

VARIABLES
  entries,      \* entries_: a function on the resident keys
  bytes_used    \* bytes_used_

cacheVars == <<entries, bytes_used>>

Entry == [last_access : Nat, distance : Nat, pin_count : Nat]

Resident == DOMAIN entries
Unpinned == {k \in Resident : entries[k].pin_count = 0}

CacheInit == entries = [k \in {} |-> 0] /\ bytes_used = 0

\* What touch(), pin() and unpin() do to an entry.
Touched(e, at, d) == [e EXCEPT !.last_access = at, !.distance = d]
PinnedOnce(e)     == [e EXCEPT !.pin_count = @ + 1]

\* Mutant: unpin() does not look at the count.
UnpinnedBelowZero(e) == [e EXCEPT !.pin_count = @ - 1]

UnpinnedOnce(e) == [e EXCEPT !.pin_count = IF @ = 0 THEN 0 ELSE @ - 1]

Total(S) == SumFunctionOnSet(Size, S)

\* Mutant: the victim is the nearest one.
GoesFirstNearest(j, k) ==
  \/ entries[j].distance < entries[k].distance
  \/ entries[j].distance = entries[k].distance /\ entries[j].last_access < entries[k].last_access

\* pick_victim() prefers j to k.
GoesFirst(j, k) ==
  \/ entries[j].distance > entries[k].distance
  \/ entries[j].distance = entries[k].distance /\ entries[j].last_access < entries[k].last_access

\* The loop condition of admit(), once the keys in `gone` are evicted.
Fits(k, gone) == (bytes_used - Total(gone) + Size[k]) % Word <= Capacity

\* pick_victim(): any of those that no other candidate goes before.
PickVictim(candidates) == {v \in candidates : \A u \in candidates : ~GoesFirst(u, v)}

\* The victims of the first i rounds of the loop of admit().
Gone(order, i) == {order[j] : j \in 1..i}

(***************************************************************************)
(* The loop of admit(k), which evicts order[i] in its round i: candidates  *)
(* are collected anew every round, and it ends when k fits or when there   *)
(* is no candidate.                                                        *)
(***************************************************************************)
EvictionLoop(k, order, rounds) ==
  /\ \A i \in 1..rounds :
       /\ ~Fits(k, Gone(order, i - 1))
       /\ order[i] \in PickVictim(Unpinned \ Gone(order, i - 1))
  /\ \/ Fits(k, Gone(order, rounds))
     \/ Unpinned \ Gone(order, rounds) = {}

\* Mutant: the bytes of the victims are not given back.
BytesAfterLeak(k, gone) == (bytes_used + Size[k]) % Word

BytesAfter(k, gone) == (bytes_used - Total(gone) + Size[k]) % Word

NewEntry(at, d) == [last_access |-> at, distance |-> d, pin_count |-> 0]

Refresh(k, at, d) ==
  /\ entries' = [entries EXCEPT ![k] = Touched(@, at, d)]
  /\ bytes_used' = bytes_used

\* Victims are gone even when the newcomer is refused after all.
Insert(k, at, d) ==
  \E rounds \in 0..Cardinality(Unpinned) : \E order \in [1..rounds -> Unpinned] :
    /\ EvictionLoop(k, order, rounds)
    /\ \E gone \in {Gone(order, rounds)} :
         \/ /\ Fits(k, gone)
            /\ entries' = [j \in (Resident \ gone) \cup {k} |->
                             IF j = k THEN NewEntry(at, d) ELSE entries[j]]
            /\ bytes_used' = BytesAfter(k, gone)
         \/ /\ ~Fits(k, gone)
            /\ entries' = [j \in Resident \ gone |-> entries[j]]
            /\ bytes_used' = bytes_used - Total(gone)

\* admit()
Admit(k, at, d) ==
  \/ k \in Resident /\ Refresh(k, at, d)
  \/ k \notin Resident /\ Size[k] > Capacity /\ UNCHANGED <<entries, bytes_used>>
  \/ k \notin Resident /\ Size[k] <= Capacity /\ Insert(k, at, d)

Touch(k, at, d) == k \in Resident /\ Refresh(k, at, d)

Pin(k) ==
  /\ k \in Resident
  /\ entries' = [entries EXCEPT ![k] = PinnedOnce(@)]
  /\ bytes_used' = bytes_used

Unpin(k) ==
  /\ k \in Resident
  /\ entries' = [entries EXCEPT ![k] = UnpinnedOnce(@)]
  /\ bytes_used' = bytes_used

-----------------------------------------------------------------------------
CacheTypeOK ==
  /\ Resident \subseteq Key
  /\ entries \in [Resident -> Entry]
  /\ bytes_used \in 0..Capacity

(***************************************************************************)
(* bytes_used_, kept incrementally over admissions, evictions and refusals *)
(* half way through, is the size of what is resident.                      *)
(***************************************************************************)
BytesAccounted == bytes_used = Total(Resident)

(***************************************************************************)
(* What the rounds of an admission come to.  Nothing pinned goes, and      *)
(* nothing while a farther (or equally far and staler) unpinned weight     *)
(* stays, whatever order the rounds took.  If the newcomer is in, one of   *)
(* the victims, the last, had to go: with it, it would not have fitted.    *)
(* If all of it was in vain, everything unpinned is gone.                  *)
(***************************************************************************)
FarthestFirst(victims) ==
  \A v \in victims :
    /\ v \in Unpinned
    /\ \A u \in Unpinned \ victims :
         \/ entries[v].distance > entries[u].distance
         \/ entries[v].distance = entries[u].distance
            /\ entries[v].last_access <= entries[u].last_access

NoneTooMany(victims, kept) ==
  victims # {} => \E v \in victims : Total(kept) + Size[v] > Capacity

InVain(victims) == victims # {} => victims = Unpinned

EvictsInOrder ==
  [][/\ FarthestFirst(Resident \ Resident')
     /\ IF Resident' \subseteq Resident THEN InVain(Resident \ Resident')
        ELSE NoneTooMany(Resident \ Resident', Resident')]_cacheVars
=============================================================================
