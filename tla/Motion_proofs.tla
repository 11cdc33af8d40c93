---------------------------- MODULE Motion_proofs ----------------------------
(***************************************************************************)
(* Theorems about what the predictors make of the motion of NPCs.          *)
(*                                                                         *)
(* LodPredictor, for all bands, any deadband, any number of NPCs and every *)
(* course they take: no weight is asked for twice, and the deadband keeps  *)
(* NPCs from thrashing.                                                    *)
(*                                                                         *)
(* Waypoints, for all lists with exact legs: a predicted distance is the   *)
(* one that comes, and the player looks where the waypoints say.           *)
(***************************************************************************)
EXTENDS LodHistory, Waypoints, FiniteSums, TLAPS

\* A LOD was left outwards only from beyond its deadband.
LeftBeyondDeadband ==
  \A n \in Npc : \A l \in Lods :
    left[n][l] # Nowhere => left[n][l] \in Nat /\ ~WithinDeadband(left[n][l], l)

HistoryTypeOK ==
  /\ TypeOK
  /\ asked \in [Key -> Nat]
  /\ seen \in [Npc -> Distance \cup {Nowhere}]
  /\ left \in [Npc -> [Lods -> Distance \cup {Nowhere}]]

IInv == HistoryTypeOK /\ AskedOnce /\ LeftBeyondDeadband

-----------------------------------------------------------------------------
\* At most three LODs: the finest and the coarsest of some of them exist.
LEMMA FinestAndCoarsest ==
  ASSUME NEW S \in SUBSET (0..2), S # {}
  PROVE  /\ Max(S) \in S
         /\ Min(S) \in S /\ \A m \in S : Min(S) <= m
<1>0. S \subseteq {0, 1, 2}
  OBVIOUS
<1>1. \E x \in S : \A y \in S : x >= y
  <2>1. CASE 2 \in S
    BY <1>0, <2>1
  <2>2. CASE 2 \notin S /\ 1 \in S
    BY <1>0, <2>2
  <2>3. CASE 2 \notin S /\ 1 \notin S
    <3>1. S = {0}
      BY <1>0, <2>3
    <3> QED
      BY <3>1
  <2> QED
    BY <2>1, <2>2, <2>3
<1>2. \E x \in S : \A y \in S : x =< y
  <2>1. CASE 0 \in S
    BY <1>0, <2>1
  <2>2. CASE 0 \notin S /\ 1 \in S
    BY <1>0, <2>2
  <2>3. CASE 0 \notin S /\ 1 \notin S
    <3>1. S = {2}
      BY <1>0, <2>3
    <3> QED
      BY <3>1
  <2> QED
    BY <2>1, <2>2, <2>3
<1> QED
  BY <1>1, <1>2 DEF Max, Min

\* Enter: the LOD it finds contains the NPC.
LEMMA EnterSound ==
  ASSUME NEW d \in Nat
  PROVE  Enter(d) \in Containing(d) \cup {Off}
<1>1. Containing(d) \in SUBSET (0..2)
  BY BandsAssumption DEF Containing
<1> QED
  BY <1>1, FinestAndCoarsest DEF Enter

\* ComeCloser: the LOD stays, or a finer one contains the NPC.
LEMMA ComeCloserSound ==
  ASSUME NEW d \in Nat, NEW l \in Lods
  PROVE  /\ ComeCloser(d, l) \in Containing(d) \cup {l}
         /\ ComeCloser(d, l) \in Lods
         /\ ComeCloser(d, l) <= l
<1> DEFINE S == {l} \cup {m \in Containing(d) : m < l}
<1>1. S \in SUBSET (0..2) /\ S # {} /\ l \in S
  BY BandsAssumption DEF Containing
<1>2. Min(S) \in S /\ Min(S) <= l
  BY <1>1, FinestAndCoarsest
<1> QED
  BY <1>2 DEF ComeCloser, Containing

\* MoveOut: a farther LOD that contains the NPC, or none.
LEMMA MoveOutSound ==
  ASSUME NEW d \in Nat, NEW l \in Lods
  PROVE  MoveOut(d, l) \in Containing(d) \cup {Off}
<1> DEFINE farther == {m \in Containing(d) : m > l}
<1>1. CASE farther = {}
  BY <1>1 DEF MoveOut
<1>2. CASE farther # {}
  <2>1. farther \in SUBSET (0..2)
    BY BandsAssumption DEF Containing
  <2>2. Min(farther) \in farther /\ \A o \in farther : Min(farther) <= o
    BY <1>2, <2>1, FinestAndCoarsest
  <2>3. \A o \in farther : o \in Lods
    BY DEF Containing
  <2>4. \A o \in farther : MaxDistance[Min(farther)] <= MaxDistance[o]
    <3> SUFFICES ASSUME NEW o \in farther
                 PROVE  MaxDistance[Min(farther)] <= MaxDistance[o]
      OBVIOUS
    <3> DEFINE m == Min(farther)
    <3>1. m \in Lods /\ o \in Lods /\ m <= o
      BY <2>2, <2>3
    <3> HIDE DEF m, farther
    <3>2. m \in Int /\ o \in Int /\ MaxDistance[m] \in Nat /\ MaxDistance[o] \in Nat
      BY <3>1, BandsAssumption
    <3>3. m < o => MaxDistance[m] < MaxDistance[o]
      BY <3>1, BandsAssumption
    <3>4. m = o \/ m < o
      BY <3>1, <3>2
    <3>5. MaxDistance[m] <= MaxDistance[o]
      BY <3>2, <3>3, <3>4
    <3> QED
      BY <3>5 DEF m
  <2>5. MoveOut(d, l) \in farther
    BY <1>2, <2>2, <2>4 DEF MoveOut
  <2> QED
    BY <2>5
<1> QED
  BY <1>1, <1>2

(***************************************************************************)
(* select_lod(): a new LOD contains the NPC, and one that is left outwards *)
(* has its whole deadband between it and the NPC.                          *)
(***************************************************************************)
LEMMA SelectLodSound ==
  ASSUME NEW d \in Nat, NEW last \in Lods \cup {Off, Cold}
  PROVE  LET want == SelectLod(d, last)
         IN /\ want \in Lods \cup {Off}
            /\ want \in Lods /\ want # last => d <= MaxDistance[want]
            /\ last \in Lods /\ (want > last \/ want = Off) => ~WithinDeadband(d, last)
<1>1. Containing(d) \subseteq Lods /\ \A l \in Containing(d) : d <= MaxDistance[l]
  BY DEF Containing
<1>2. Off \notin Lods /\ Cold \notin Lods
  BY BandsAssumption DEF Off, Cold
<1>3. CASE last \notin Lods
  BY <1>1, <1>2, <1>3, EnterSound DEF SelectLod
<1>4. CASE last \in Lods /\ WithinDeadband(d, last)
  <2>1. SelectLod(d, last) = ComeCloser(d, last)
    BY <1>4 DEF SelectLod
  <2>2. /\ ComeCloser(d, last) \in Containing(d) \cup {last}
        /\ ComeCloser(d, last) \in Lods
        /\ ComeCloser(d, last) <= last
    BY <1>4, ComeCloserSound
  <2>3. ComeCloser(d, last) \in 0..2 /\ last \in 0..2
    BY <1>4, <2>2, BandsAssumption
  <2> QED
    BY <1>1, <1>2, <2>1, <2>2, <2>3
<1>5. CASE last \in Lods /\ ~WithinDeadband(d, last)
  BY <1>1, <1>2, <1>5, MoveOutSound DEF SelectLod
<1> QED
  BY <1>3, <1>4, <1>5

LEMMA WantedSound ==
  ASSUME TypeOK, NEW dist \in [Npc -> Distance], NEW n \in Npc
  PROVE  /\ dist[n] \in Nat
         /\ last_lod[n] \in Lods \cup {Off, Cold}
         /\ Wanted(dist)[n] = SelectLod(dist[n], last_lod[n])
BY DistanceAssumption DEF TypeOK, Wanted

-----------------------------------------------------------------------------
LEMMA InitInv == HistoryInit => IInv
<1> SUFFICES ASSUME HistoryInit
             PROVE  IInv
  OBVIOUS
<1>1. HistoryTypeOK
  BY TickAssumption DEF HistoryInit, Init, HistoryTypeOK, TypeOK
<1>2. AskedOnce
  BY BandsAssumption DEF HistoryInit, Init, AskedOnce, Cold
<1>3. LeftBeyondDeadband
  BY DEF HistoryInit, LeftBeyondDeadband
<1> QED
  BY <1>1, <1>2, <1>3 DEF IInv

LEMMA TickInv == IInv /\ HistoryTick => IInv'
<1> SUFFICES ASSUME IInv, HistoryTick
             PROVE  IInv'
  OBVIOUS
<1>1. PICK dist \in [Npc -> Distance] :
        /\ TickSeeing(dist)
        /\ asked' = MoreOf(asked, Missing(Wanted(dist)))
        /\ seen' = dist
        /\ left' = LeftAfter(Wanted(dist), dist)
  BY DEF HistoryTick
<1> DEFINE want == Wanted(dist)
<1> DEFINE K == Missing(want)
<1>2. TypeOK /\ HistoryTypeOK /\ AskedOnce /\ LeftBeyondDeadband
  BY DEF IInv, HistoryTypeOK
<1>3. /\ next_tick # NoTick
      /\ next_tick' = Rearmed(next_tick)
      /\ last_lod' = want
      /\ in_flight' = in_flight \cup K
      /\ resident' = resident
      /\ fetches' = MoreOf(fetches, K)
  BY <1>1 DEF TickSeeing, Decide
<1>4. want \in [Npc -> Lods \cup {Off}]
  <2>1. \A n \in Npc : want[n] \in Lods \cup {Off}
    BY <1>2, WantedSound, SelectLodSound
  <2> QED
    BY <2>1 DEF Wanted
<1>5. K \subseteq Key /\ \A k \in Key : k \in K <=> /\ k.lod = want[k.npc]
                                                     /\ k \notin in_flight
                                                     /\ k \notin resident
  BY DEF Missing
<1>6. /\ asked' = [k \in Key |-> asked[k] + IF k \in K THEN 1 ELSE 0]
      /\ fetches' = [k \in Key |-> fetches[k] + IF k \in K THEN 1 ELSE 0]
  BY <1>1, <1>3 DEF MoreOf
<1>7. /\ asked \in [Key -> Nat] /\ fetches \in [Key -> Nat]
      /\ in_flight \subseteq Key /\ resident \subseteq Key
  BY <1>2 DEF HistoryTypeOK, TypeOK
<1>8. HistoryTypeOK'
  <2>1. (next_tick \in 0..(DurationUs - 1) \cup {0, NoTick})'
    BY <1>2, <1>3, TickAssumption DEF TypeOK, Rearmed, NoTick
  <2>2. (asked \in [Key -> Nat] /\ fetches \in [Key -> Nat])'
    BY <1>6, <1>7
  <2>3. (left \in [Npc -> [Lods -> Distance \cup {Nowhere}]])'
    BY <1>1, <1>2 DEF LeftAfter, HistoryTypeOK
  <2>4. (seen \in [Npc -> Distance \cup {Nowhere}])'
    BY <1>1
  <2>5. (in_flight \subseteq Key /\ resident \subseteq Key)'
    BY <1>3, <1>5, <1>7
  <2>6. (last_lod \in [Npc -> Lods \cup {Off, Cold}])'
    BY <1>3, <1>4
  <2>7. TypeOK'
    BY <2>1, <2>2, <2>5, <2>6 DEF TypeOK
  <2> QED
    BY <2>2, <2>3, <2>4, <2>7 DEF HistoryTypeOK
<1> HIDE DEF want, K
<1>9. AskedOnce'
  <2>1. \A k \in Key : /\ asked[k] = IF k \in in_flight \cup resident THEN 1 ELSE 0
                       /\ fetches[k] = IF k \in in_flight THEN 1 ELSE 0
    BY <1>2 DEF AskedOnce
  <2>2. in_flight \cap resident = {}
    BY <1>2 DEF AskedOnce
  <2>3. \A k \in Key : asked'[k] = IF k \in in_flight' \cup resident' THEN 1 ELSE 0
    BY <1>3, <1>5, <1>6, <2>1
  <2>4. \A k \in Key : fetches'[k] = IF k \in in_flight' THEN 1 ELSE 0
    BY <1>3, <1>5, <1>6, <2>1
  <2>5. in_flight' \cap resident' = {}
    BY <1>3, <1>5, <1>7, <2>2
  <2>6. ASSUME NEW n \in Npc, want[n] \in Lods
        PROVE  [npc |-> n, lod |-> want[n]] \in in_flight' \cup resident'
    <3> DEFINE k == [npc |-> n, lod |-> want[n]]
    <3>1. k \in Key /\ k.lod = want[k.npc]
      BY <2>6 DEF Key
    <3> HIDE DEF k
    <3>2. k \in in_flight' \cup resident'
      BY <1>3, <1>5, <3>1
    <3> QED
      BY <3>2 DEF k
  <2> QED
    BY <1>3, <2>3, <2>4, <2>5, <2>6 DEF AskedOnce
<1>10. LeftBeyondDeadband'
  <2> SUFFICES ASSUME NEW n \in Npc, NEW l \in Lods, left'[n][l] # Nowhere
               PROVE  left'[n][l] \in Nat /\ ~WithinDeadband(left'[n][l], l)
    BY DEF LeftBeyondDeadband, WithinDeadband
  <2>1. left'[n][l] = IF l = last_lod[n] /\ LeavesOutwards(n, want) THEN dist[n] ELSE left[n][l]
    BY <1>1 DEF LeftAfter, want
  <2>2. CASE l = last_lod[n] /\ LeavesOutwards(n, want)
    BY <1>2, <2>1, <2>2, WantedSound, SelectLodSound DEF LeavesOutwards, want
  <2>3. CASE ~(l = last_lod[n] /\ LeavesOutwards(n, want))
    BY <1>2, <2>1, <2>3 DEF LeftBeyondDeadband
  <2> QED
    BY <2>2, <2>3
<1> QED
  BY <1>8, <1>9, <1>10 DEF IInv

LEMMA CompleteInv ==
  ASSUME IInv, NEW k \in Key, HistoryComplete(k)
  PROVE  IInv'
<1>1. TypeOK /\ HistoryTypeOK /\ AskedOnce /\ LeftBeyondDeadband
  BY DEF IInv, HistoryTypeOK
<1>2. /\ fetches[k] > 0
      /\ fetches' = [fetches EXCEPT ![k] = @ - 1]
      /\ in_flight' = in_flight \ {k}
      /\ resident' = resident \cup {k}
      /\ UNCHANGED <<last_lod, next_tick, asked, seen, left>>
  BY DEF HistoryComplete, Complete, OnComplete, historyVars
<1>3. fetches \in [Key -> Nat] /\ in_flight \subseteq Key /\ resident \subseteq Key
  BY <1>1 DEF TypeOK
<1>4. k \in in_flight
  BY <1>1, <1>2 DEF AskedOnce
<1>5. HistoryTypeOK'
  <2>1. (fetches \in [Key -> Nat])'
    BY <1>2, <1>3
  <2> QED
    BY <1>1, <1>2, <1>3, <2>1 DEF HistoryTypeOK, TypeOK
<1>6. AskedOnce'
  <2>1. in_flight' \cup resident' = in_flight \cup resident
    BY <1>2, <1>4
  <2>2. \A j \in Key : fetches'[j] = IF j \in in_flight' THEN 1 ELSE 0
    BY <1>1, <1>2, <1>3, <1>4 DEF AskedOnce
  <2>3. in_flight' \cap resident' = {}
    BY <1>1, <1>2 DEF AskedOnce
  <2> QED
    BY <1>1, <1>2, <2>1, <2>2, <2>3 DEF AskedOnce
<1>7. LeftBeyondDeadband'
  BY <1>1, <1>2 DEF LeftBeyondDeadband, WithinDeadband
<1> QED
  BY <1>5, <1>6, <1>7 DEF IInv

LEMMA NextInv == IInv /\ [HistoryNext]_<<vars, historyVars>> => IInv'
<1> SUFFICES ASSUME IInv, [HistoryNext]_<<vars, historyVars>>
             PROVE  IInv'
  OBVIOUS
<1>1. CASE HistoryTick
  BY <1>1, TickInv
<1>2. CASE \E k \in Key : HistoryComplete(k)
  BY <1>2, CompleteInv
<1>3. CASE UNCHANGED <<vars, historyVars>>
  BY <1>3 DEF vars, historyVars, IInv, HistoryTypeOK, TypeOK, AskedOnce, LeftBeyondDeadband,
              WithinDeadband
<1> QED
  BY <1>1, <1>2, <1>3 DEF HistoryNext

-----------------------------------------------------------------------------
THEOREM Invariance == HistorySpec => []IInv
<1> QED
  BY InitInv, NextInv, PTL DEF HistorySpec

(***************************************************************************)
(* No weight is asked for twice, and none that is needed is forgotten: the *)
(* tick and the completion callback agree on in_flight_ and resident_.     *)
(***************************************************************************)
THEOREM NothingAskedTwice == HistorySpec => []AskedOnce
<1>1. IInv => AskedOnce
  BY DEF IInv
<1> QED
  BY <1>1, Invariance, PTL

(***************************************************************************)
(* Types: no tick is scheduled at or after the end of the scenario, and no *)
(* LOD is chosen that the configuration does not have.                     *)
(***************************************************************************)
THEOREM TypeCorrect == HistorySpec => []TypeOK
<1>1. IInv => TypeOK
  BY DEF IInv, HistoryTypeOK
<1> QED
  BY <1>1, Invariance, PTL

\* A step of NoThrash.
NoThrashStep ==
  \A n \in Npc : \A l \in Lods :
    /\ last_lod'[n] = l
    /\ last_lod[n] # l
    /\ left[n][l] # Nowhere
    => 100 * (left[n][l] - seen'[n]) > HysteresisPct * MaxDistance[l]

LEMMA DeadbandCrossed == IInv /\ [HistoryNext]_<<vars, historyVars>> => NoThrashStep
<1> SUFFICES ASSUME IInv, [HistoryNext]_<<vars, historyVars>>,
                    NEW n \in Npc, NEW l \in Lods,
                    last_lod'[n] = l, last_lod[n] # l, left[n][l] # Nowhere
             PROVE  100 * (left[n][l] - seen'[n]) > HysteresisPct * MaxDistance[l]
  BY DEF NoThrashStep
<1>1. last_lod' # last_lod
  OBVIOUS
<1>2. HistoryTick
  BY <1>1 DEF HistoryNext, HistoryComplete, Complete, OnComplete, vars
<1>3. PICK dist \in [Npc -> Distance] : TickSeeing(dist) /\ seen' = dist
  BY <1>2 DEF HistoryTick
<1>4. TypeOK
  BY DEF IInv, HistoryTypeOK
<1>5. l = SelectLod(dist[n], last_lod[n]) /\ dist[n] \in Nat
      /\ last_lod[n] \in Lods \cup {Off, Cold}
  BY <1>3, <1>4, WantedSound DEF TickSeeing, Decide
<1>6. dist[n] <= MaxDistance[l]
  BY <1>5, SelectLodSound
<1> DEFINE far == left[n][l]
<1> DEFINE m == MaxDistance[l]
<1>7. far \in Nat /\ ~(100 * far <= m * (100 + HysteresisPct))
  BY DEF IInv, LeftBeyondDeadband, WithinDeadband
<1>8. m \in Nat /\ HysteresisPct \in Nat
  BY BandsAssumption, HysteresisAssumption
<1>9. m * (100 + HysteresisPct) = 100 * m + HysteresisPct * m
  <2> HIDE DEF m
  <2> QED
    BY <1>8
<1>10. HysteresisPct * m \in Nat
  <2> HIDE DEF m
  <2> QED
    BY <1>8
<1>11. seen'[n] \in Nat /\ seen'[n] <= m
  BY <1>3, <1>5, <1>6
<1> HIDE DEF far, m
<1>12. 100 * (far - seen'[n]) > HysteresisPct * m
  BY <1>7, <1>8, <1>9, <1>10, <1>11
<1> QED
  BY <1>12 DEF far, m

(***************************************************************************)
(* The deadband works: no NPC, on whatever course, gets a LOD back that it *)
(* has left outwards before having come closer by the whole deadband.      *)
(***************************************************************************)
THEOREM NoThrashing == HistorySpec => NoThrash
<1>1. IInv /\ [HistoryNext]_<<vars, historyVars>> => [NoThrashStep]_<<vars, historyVars>>
  BY DeadbandCrossed
<1> QED
  BY <1>1, Invariance, PTL DEF HistorySpec, NoThrash, NoThrashStep

-----------------------------------------------------------------------------
(***************************************************************************)
(* Waypoints, for every list whose legs are exact.                         *)
(***************************************************************************)
Waypoint == [at : Int, pos : Int, facing : Nat \cup {NoFacing}]

InTime(wps) == \A i, j \in 1..Len(wps) : i <= j => wps[i].at <= wps[j].at

\* Between two waypoints, the speed is a whole number.
ExactPath(wps) ==
  \A i, j \in 1..Len(wps) : wps[i].at < wps[j].at =>
    (wps[j].pos - wps[i].pos) % (wps[j].at - wps[i].at) = 0

\* What parse_waypoint_list() makes of a list.
Path(wps) ==
  wps \in Seq(Waypoint) /\ Len(wps) \in Nat \ {0} /\ InTime(wps) /\ ExactPath(wps)

LEMMA LoadedIsPath ==
  ASSUME NEW raw \in Lists, NEW wps \in Loaded(raw)
  PROVE  Path(wps)
<1>1. raw # <<>> /\ raw \in Seq(Waypoint)
  BY ListsAssumption DEF Waypoint
<1> DEFINE n == Len(raw)
<1>2. n \in Nat \ {0} /\ DOMAIN raw = 1..n /\ \A i \in 1..n : raw[i] \in Waypoint
  BY <1>1
<1>3. PICK p \in [DOMAIN raw -> DOMAIN raw] : wps = [i \in DOMAIN raw |-> raw[p[i]]]
  BY DEF Loaded, SortedFrom
<1>4. \A i, j \in DOMAIN wps : i < j => wps[i].at <= wps[j].at
  BY DEF Loaded, SortedFrom
<1>5. \A i \in 1..n : p[i] \in 1..n /\ wps[i] = raw[p[i]] /\ wps[i] \in Waypoint
  BY <1>2, <1>3
<1>6. wps \in Seq(Waypoint) /\ DOMAIN wps = 1..n
  <2>1. wps = [i \in 1..n |-> wps[i]]
    BY <1>2, <1>3
  <2>2. wps \in [1..n -> Waypoint]
    BY <1>5, <2>1
  <2> QED
    BY <1>2, <2>2
<1>7. Len(wps) = n
  BY <1>2, <1>6
<1>8. InTime(wps)
  <2>1. \A i, j \in 1..n : i <= j => i < j \/ i = j
    BY <1>2
  <2>2. \A i \in 1..n : wps[i].at <= wps[i].at
    BY <1>5 DEF Waypoint
  <2> QED
    BY <1>4, <1>6, <1>7, <2>1, <2>2 DEF InTime
<1>9. ExactPath(wps)
  <2>1. \A i, j \in 1..n : raw[i].at < raw[j].at =>
          (raw[j].pos - raw[i].pos) % (raw[j].at - raw[i].at) = 0
    BY <1>2, ExactAssumption
  <2> QED
    BY <1>5, <1>7, <2>1 DEF ExactPath
<1> QED
  BY <1>2, <1>6, <1>7, <1>8, <1>9 DEF Path

-----------------------------------------------------------------------------
\* Division, for positions that grow or shrink.
LEMMA IntDivIs ==
  ASSUME NEW a \in Int, NEW b \in Nat \ {0}
  PROVE  a \div b \in Int /\ b * (a \div b) <= a /\ a < b * (a \div b) + b
OBVIOUS

LEMMA ExactDiv ==
  ASSUME NEW a \in Int, NEW b \in Nat \ {0}, a % b = 0
  PROVE  a \div b \in Int /\ a = b * (a \div b)
OBVIOUS

LEMMA ProductDiv ==
  ASSUME NEW z \in Int, NEW b \in Nat \ {0}
  PROVE  (b * z) \div b = z
OBVIOUS

LEMMA IntTimesMonotone ==
  ASSUME NEW b \in Nat \ {0}, NEW x \in Int, NEW y \in Int, x <= y
  PROVE  b * x <= b * y
OBVIOUS

\* A share s of d of the way from x to y lies between them.
LEMMA ShareLiesBetween ==
  ASSUME NEW x \in Int, NEW y \in Int, NEW d \in Nat \ {0}, NEW s \in 0..d
  PROVE  LET z == x + ((y - x) * s) \div d
         IN /\ z \in Int
            /\ x <= y => x <= z /\ z <= y
            /\ y <= x => y <= z /\ z <= x
            /\ s = d => z = y
<1> DEFINE w == y - x
<1> DEFINE q == (w * s) \div d
<1>1. w \in Int /\ w * s \in Int
  OBVIOUS
<1>2. q \in Int /\ d * q <= w * s /\ w * s < d * q + d
  BY <1>1, IntDivIs
<1> HIDE DEF q
<1>3. 0 <= w => 0 <= w * s /\ w * s <= d * w
  OBVIOUS
<1>4. w <= 0 => w * s <= 0 /\ d * w <= w * s
  OBVIOUS
<1> HIDE DEF w
<1>5. \A u \in Int : u < q => d * u + d <= w * s
  <2> SUFFICES ASSUME NEW u \in Int, u < q PROVE d * u + d <= w * s
    OBVIOUS
  <2>1. d * (u + 1) <= d * q
    BY <1>2, IntTimesMonotone
  <2>2. d * (u + 1) = d * u + d /\ d * u \in Int /\ d * q \in Int
    BY <1>2
  <2> QED
    BY <1>1, <1>2, <2>1, <2>2
<1>6. \A u \in Int : q < u => w * s < d * u
  <2> SUFFICES ASSUME NEW u \in Int, q < u PROVE w * s < d * u
    OBVIOUS
  <2>1. d * (q + 1) <= d * u
    BY <1>2, IntTimesMonotone
  <2>2. d * (q + 1) = d * q + d /\ d * u \in Int /\ d * q \in Int
    BY <1>2
  <2> QED
    BY <1>1, <1>2, <2>1, <2>2
<1>7. d * w \in Int /\ d * 0 = 0
  BY <1>1
<1>8. 0 <= w => 0 <= q /\ q <= w
  BY <1>1, <1>2, <1>3, <1>5, <1>6, <1>7
<1>9. w <= 0 => w <= q /\ q <= 0
  BY <1>1, <1>2, <1>4, <1>5, <1>6, <1>7
<1>10. s = d => q = w
  BY <1>1, ProductDiv DEF q, w
<1> QED
  BY <1>1, <1>2, <1>8, <1>9, <1>10 DEF q, w

-----------------------------------------------------------------------------
(***************************************************************************)
(* Which leg a time lies on.                                               *)
(***************************************************************************)
LEMMA PathIs ==
  ASSUME NEW wps, Path(wps)
  PROVE  /\ Len(wps) \in Nat \ {0} /\ DOMAIN wps = 1..Len(wps)
         /\ \A i \in 1..Len(wps) :
              /\ wps[i].at \in Int /\ wps[i].pos \in Int
              /\ wps[i].facing \in Nat \/ wps[i].facing = NoFacing
         /\ \A i, j \in 1..Len(wps) : i <= j => wps[i].at <= wps[j].at
<1>1. wps \in Seq(Waypoint) /\ Len(wps) \in Nat \ {0} /\ InTime(wps)
  BY DEF Path
<1>2. DOMAIN wps = 1..Len(wps) /\ \A i \in 1..Len(wps) : wps[i] \in Waypoint
  BY <1>1
<1> QED
  BY <1>1, <1>2 DEF Waypoint, InTime

\* A time after waypoint i - 1 and up to waypoint i is on leg i.
LEMMA LegIsUnique ==
  ASSUME NEW wps, Path(wps), NEW i \in 2..Len(wps), NEW x \in Int,
         wps[i - 1].at < x, x <= wps[i].at
  PROVE  LegTo(wps, x) = i
<1> DEFINE n == Len(wps)
<1> DEFINE S == {j \in DOMAIN wps : x <= wps[j].at}
<1>1. n \in Nat \ {0} /\ DOMAIN wps = 1..n /\ i \in 1..n /\ i - 1 \in 1..n
  BY PathIs
<1>2. S \in SUBSET Int /\ IsFiniteSet(S) /\ i \in S
  <2>1. S \subseteq 1..n
    BY <1>1
  <2>2. IsFiniteSet(1..n)
    BY <1>1, FS_Interval
  <2>3. IsFiniteSet(S)
    BY <2>1, <2>2, FS_Subset
  <2> QED
    BY <1>1, <2>1, <2>3
<1>3. ASSUME NEW j \in S
      PROVE  i <= j
  <2>1. j \in 1..n /\ x <= wps[j].at
    BY <1>1
  <2>2. ~(j <= i - 1)
    <3>1. j <= i - 1 => wps[j].at <= wps[i - 1].at
      BY <1>1, <2>1, PathIs
    <3>2. wps[j].at \in Int /\ wps[i - 1].at \in Int
      BY <1>1, <2>1, PathIs
    <3> QED
      BY <2>1, <3>1, <3>2
  <2> QED
    BY <1>1, <2>1, <2>2
<1> HIDE DEF S
<1>4. i = Min(S)
  BY <1>2, <1>3, MinIs
<1> QED
  BY <1>4 DEF LegTo, S

\* Every time between the first and the last waypoint is on one.
LEMMA LegExists ==
  ASSUME NEW wps, Path(wps), NEW x \in Int, ~OffThePath(wps, x)
  PROVE  /\ LegTo(wps, x) \in 2..Len(wps)
         /\ wps[LegTo(wps, x) - 1].at < x
         /\ x <= wps[LegTo(wps, x)].at
<1> DEFINE n == Len(wps)
<1> DEFINE S == {j \in DOMAIN wps : x <= wps[j].at}
<1> DEFINE i == LegTo(wps, x)
<1>1. n \in Nat \ {0} /\ DOMAIN wps = 1..n /\ \A j \in 1..n : wps[j].at \in Int
  BY PathIs
<1>2. ~(x <= wps[1].at) /\ ~(x >= wps[n].at)
  BY DEF OffThePath, First, Final
<1>3. S \in SUBSET Int /\ IsFiniteSet(S) /\ n \in S
  <2>1. S \subseteq 1..n
    BY <1>1
  <2>2. IsFiniteSet(1..n)
    BY <1>1, FS_Interval
  <2>3. IsFiniteSet(S)
    BY <2>1, <2>2, FS_Subset
  <2>4. n \in S
    BY <1>1, <1>2
  <2> QED
    BY <1>1, <2>1, <2>3, <2>4
<1>4. i = Min(S)
  BY DEF LegTo
<1>5. i \in S /\ \A j \in S : i <= j
  <2> HIDE DEF S, i
  <2> QED
    BY <1>3, <1>4, MinIs
<1>6. i \in 1..n /\ x <= wps[i].at
  <2> HIDE DEF i
  <2> QED
    BY <1>1, <1>5
<1>7. i # 1
  <2> HIDE DEF i
  <2> QED
    BY <1>2, <1>6
<1>8. i - 1 \in 1..n /\ i \in 2..n
  <2> HIDE DEF i
  <2> QED
    BY <1>1, <1>6, <1>7
<1>9. wps[i - 1].at < x
  <2> HIDE DEF i
  <2>1. i - 1 \notin S
    BY <1>5, <1>8
  <2>2. ~(x <= wps[i - 1].at)
    BY <1>1, <1>8, <2>1
  <2> QED
    BY <1>1, <1>8, <2>2
<1> QED
  BY <1>6, <1>8, <1>9

-----------------------------------------------------------------------------
(***************************************************************************)
(* On a leg, a position is that of the leg's beginning and as many slopes  *)
(* as time has passed since; only at a waypoint that has a double does     *)
(* position_at() depend on which one it finds.                             *)
(***************************************************************************)
LEMMA LegIs ==
  ASSUME NEW wps, Path(wps), NEW i \in 2..Len(wps), wps[i - 1].at < wps[i].at
  PROVE  LET a == wps[i - 1]
             b == wps[i]
         IN /\ b.at - a.at \in Nat \ {0}
            /\ Slope(a, b) \in Int
            /\ b.pos - a.pos = (b.at - a.at) * Slope(a, b)
<1> DEFINE dt == wps[i].at - wps[i - 1].at
<1> DEFINE way == wps[i].pos - wps[i - 1].pos
<1>1. i \in 1..Len(wps) /\ i - 1 \in 1..Len(wps)
  BY PathIs
<1>2. /\ wps[i].at \in Int /\ wps[i - 1].at \in Int
      /\ wps[i].pos \in Int /\ wps[i - 1].pos \in Int
  BY <1>1, PathIs
<1>3. dt \in Nat \ {0} /\ way \in Int
  BY <1>2
<1>4. way % dt = 0
  BY <1>1 DEF Path, ExactPath
<1>5. Slope(wps[i - 1], wps[i]) = way \div dt
  BY <1>2 DEF Slope
<1> HIDE DEF dt, way
<1>6. way \div dt \in Int /\ way = dt * (way \div dt)
  BY <1>3, <1>4, ExactDiv
<1> QED
  BY <1>3, <1>5, <1>6 DEF dt, way

LEMMA PositionOnLeg ==
  ASSUME NEW wps, Path(wps), NEW i \in 2..Len(wps), NEW x \in Int,
         wps[i - 1].at < x, x <= wps[i].at,
         x < wps[i].at \/ ~JumpsAt(wps, x)
  PROVE  PositionAt(wps, x) =
           wps[i - 1].pos + (x - wps[i - 1].at) * Slope(wps[i - 1], wps[i])
<1> DEFINE n == Len(wps)
<1> DEFINE k == Slope(wps[i - 1], wps[i])
<1> DEFINE dt == wps[i].at - wps[i - 1].at
<1> DEFINE s == x - wps[i - 1].at
<1>1. n \in Nat \ {0} /\ i \in 1..n /\ i - 1 \in 1..n /\ 1 \in 1..n /\ n \in 1..n
  <2>1. n \in Nat \ {0}
    BY PathIs
  <2> QED
    BY <2>1
<1>2. /\ wps[i].at \in Int /\ wps[i - 1].at \in Int /\ wps[1].at \in Int /\ wps[n].at \in Int
      /\ wps[i].pos \in Int /\ wps[i - 1].pos \in Int
      /\ wps[1].at <= wps[i - 1].at /\ wps[i].at <= wps[n].at
  BY <1>1, PathIs
<1>3. dt \in Nat \ {0} /\ k \in Int /\ wps[i].pos - wps[i - 1].pos = dt * k
  <2>1. wps[i - 1].at < wps[i].at
    BY <1>2
  <2> QED
    BY <2>1, LegIs
<1>4. CASE OffThePath(wps, x)
  <2>1. ~(x <= wps[1].at) /\ x >= wps[n].at
    BY <1>2, <1>4 DEF OffThePath, First, Final
  <2>2. x = wps[i].at /\ x = wps[n].at
    BY <1>2, <2>1
  <2>3. wps[n].pos = wps[i].pos
    <3>1. DOMAIN wps = 1..n
      BY PathIs
    <3>2. ~JumpsAt(wps, x)
      BY <2>2
    <3>3. \A l, m \in 1..n : wps[l].at = x /\ wps[m].at = x => wps[l].pos = wps[m].pos
      BY <3>1, <3>2 DEF JumpsAt
    <3>4. wps[i].at = x /\ wps[n].at = x
      BY <2>2
    <3> HIDE DEF n
    <3> QED
      BY <1>1, <3>3, <3>4
  <2>4. PositionAt(wps, x) = wps[n].pos
    BY <1>4, <2>1 DEF PositionAt, EndPoint, First, Final
  <2>5. s = dt
    BY <2>2
  <2>6. wps[i].pos = wps[i - 1].pos + s * k
    <3> HIDE DEF s, dt, k
    <3>1. dt * k \in Int
      BY <1>3
    <3> QED
      BY <1>2, <1>3, <2>5, <3>1
  <2> QED
    BY <2>3, <2>4, <2>6
<1>5. CASE ~OffThePath(wps, x)
  <2>1. LegTo(wps, x) = i
    BY LegIsUnique
  <2>2. PositionAt(wps, x) =
          Between(wps[i - 1].pos, wps[i].pos, wps[i - 1], wps[i], x)
    BY <1>5, <2>1 DEF PositionAt
  <2>3. PositionAt(wps, x) =
          wps[i - 1].pos + ((wps[i].pos - wps[i - 1].pos) * s) \div dt
    BY <1>2, <2>2 DEF Between
  <2>4. ((wps[i].pos - wps[i - 1].pos) * s) \div dt = s * k
    <3> DEFINE way == wps[i].pos - wps[i - 1].pos
    <3>1. way = dt * k /\ s \in Int
      BY <1>2, <1>3
    <3> HIDE DEF s, dt, k, way
    <3>2. way * s = dt * (s * k) /\ s * k \in Int
      BY <1>3, <3>1
    <3>3. (dt * (s * k)) \div dt = s * k
      BY <1>3, <3>2, ProductDiv
    <3>4. (way * s) \div dt = s * k
      BY <3>2, <3>3
    <3> QED
      BY <3>4 DEF way
  <2> QED
    BY <2>3, <2>4
<1> QED
  BY <1>4, <1>5

(***************************************************************************)
(* The straight line that make_snapshot() draws from velocity_at() meets   *)
(* the path again at the end of the look-ahead.                            *)
(***************************************************************************)
LEMMA AheadIsThere ==
  ASSUME NEW wps, Path(wps), t \in Int, LookAhead \in Nat, OnOneLeg(wps)
  PROVE  Ahead(wps, t) = PositionAt(wps, t + LookAhead)
<1> DEFINE n == Len(wps)
<1>1. n \in Nat \ {0} /\ \A i \in 1..n : wps[i].at \in Int /\ wps[i].pos \in Int
  BY PathIs
<1>2. CASE n = 1
  <2>1. \A x \in Int : OffThePath(wps, x)
    BY <1>1, <1>2 DEF OffThePath, First, Final
  <2>2. \A x \in Int : PositionAt(wps, x) = wps[1].pos
    BY <1>2, <2>1 DEF PositionAt, EndPoint, First, Final
  <2>3. VelocityAt(wps, t) = 0
    BY <1>2 DEF VelocityAt
  <2>4. wps[1].pos \in Int /\ t + LookAhead \in Int
    BY <1>1, <1>2
  <2>5. wps[1].pos + 0 * LookAhead = wps[1].pos
    BY <2>4
  <2> QED
    BY <2>2, <2>3, <2>4, <2>5 DEF Ahead
<1>3. CASE n # 1
  <2>1. PICK i \in 2..n : wps[i - 1].at < t /\ t + LookAhead <= wps[i].at
    BY <1>3 DEF OnOneLeg
  <2>2. ~JumpsAt(wps, t + LookAhead)
    BY <1>3 DEF OnOneLeg
  <2> DEFINE k == Slope(wps[i - 1], wps[i])
  <2>3. i \in 1..n /\ i - 1 \in 1..n
    BY <1>1
  <2>4. /\ wps[i].at \in Int /\ wps[i - 1].at \in Int /\ wps[i - 1].at < wps[i].at
        /\ wps[i - 1].pos \in Int
    BY <1>1, <2>1, <2>3
  <2>5. k \in Int
    BY <2>4, LegIs
  <2> DEFINE x == t + LookAhead
  <2>6. PositionAt(wps, x) = wps[i - 1].pos + (x - wps[i - 1].at) * k
    <3>1. x \in Int /\ wps[i - 1].at < x /\ x <= wps[i].at /\ ~JumpsAt(wps, x)
      BY <2>1, <2>2, <2>4
    <3> HIDE DEF x
    <3> QED
      BY <3>1, PositionOnLeg
  <2>7. CASE LookAhead = 0
    <3>1. PositionAt(wps, t) \in Int /\ x = t
      <4>1. x = t
        BY <2>7
      <4> HIDE DEF k, x
      <4>2. wps[i - 1].pos + (x - wps[i - 1].at) * k \in Int
        BY <2>4, <2>5, <4>1
      <4> QED
        BY <2>6, <4>1, <4>2
    <3>2. VelocityAt(wps, t) \in Int
      <4>1. CASE OffThePath(wps, t)
        <5>1. n - 1 \in 1..n /\ n \in 2..n /\ n \in 1..n
          BY <1>1, <1>3
        <5>2. wps[n].at \in Int /\ wps[n - 1].at \in Int /\ wps[n - 1].at <= wps[n].at
          BY <1>1, <5>1, PathIs
        <5>3. VelocityAt(wps, t) = Slope(wps[n - 1], wps[n])
          BY <1>1, <1>3, <4>1 DEF VelocityAt, Final
        <5>4. CASE wps[n - 1].at < wps[n].at
          BY <5>1, <5>3, <5>4, LegIs
        <5>5. CASE wps[n - 1].at = wps[n].at
          BY <5>3, <5>5 DEF Slope
        <5> QED
          BY <5>2, <5>4, <5>5
      <4>2. CASE ~OffThePath(wps, t)
        <5>1. wps[i - 1].at < t /\ t <= wps[i].at
          BY <2>1, <2>4, <2>7
        <5>2. LegTo(wps, t) = i
          BY <5>1, LegIsUnique
        <5> QED
          BY <1>1, <1>3, <2>5, <4>2, <5>2 DEF VelocityAt
      <4> QED
        BY <4>1, <4>2
    <3> QED
      BY <2>7, <3>1, <3>2 DEF Ahead
  <2>8. CASE LookAhead # 0
    <3>1. wps[i - 1].at < t /\ t <= wps[i].at /\ t < wps[i].at
      BY <2>1, <2>4, <2>8
    <3>2. PositionAt(wps, t) = wps[i - 1].pos + (t - wps[i - 1].at) * k
      BY <3>1, PositionOnLeg
    <3>3. ~OffThePath(wps, t)
      <4>1. wps[1].at <= wps[i - 1].at /\ wps[i].at <= wps[n].at
        BY <1>1, <2>3, PathIs
      <4>2. wps[1].at \in Int /\ wps[n].at \in Int
        BY <1>1
      <4> QED
        BY <2>1, <2>4, <3>1, <4>1, <4>2 DEF OffThePath, First, Final
    <3>4. LegTo(wps, t) = i
      BY <3>1, LegIsUnique
    <3>5. VelocityAt(wps, t) = k
      BY <1>1, <1>3, <3>3, <3>4 DEF VelocityAt
    <3> HIDE DEF k
    <3>6. wps[i - 1].pos + (t - wps[i - 1].at) * k + k * LookAhead
            = wps[i - 1].pos + (x - wps[i - 1].at) * k
      BY <2>4, <2>5
    <3> QED
      BY <2>6, <3>2, <3>5, <3>6 DEF Ahead
  <2> QED
    BY <2>7, <2>8
<1> QED
  BY <1>2, <1>3

-----------------------------------------------------------------------------
(***************************************************************************)
(* The facing: what the waypoints up to the i-th say.                      *)
(***************************************************************************)
LEMMA LatestFacing ==
  ASSUME NEW wps, Path(wps), NEW S \in SUBSET (1..Len(wps)), S # {},
         \A j \in S : wps[j].facing # NoFacing
  PROVE  /\ Max(S) \in S /\ \A j \in S : j <= Max(S)
         /\ wps[Max(S)].facing \in Nat
<1>1. Len(wps) \in Nat
  BY PathIs
<1>2. S \in SUBSET Int /\ IsFiniteSet(S)
  <2> DEFINE n == Len(wps)
  <2>1. IsFiniteSet(1..n) /\ S \in SUBSET (1..n)
    BY <1>1, FS_Interval
  <2>2. S \in SUBSET Int
    BY <1>1
  <2> HIDE DEF n
  <2> QED
    BY <2>1, <2>2, FS_Subset
<1>3. Max(S) \in S /\ \A j \in S : j <= Max(S)
  BY <1>2, MaxIs
<1> QED
  BY <1>3, PathIs

LEMMA FacingUpToIs ==
  ASSUME NEW wps, Path(wps), NEW i \in 1..Len(wps)
  PROVE  /\ FacingUpTo(wps, i) \in Nat
         /\ wps[i].facing # NoFacing => FacingUpTo(wps, i) = wps[i].facing
         /\ wps[i].facing = NoFacing =>
              FacingUpTo(wps, i) = IF i = 1 THEN 0 ELSE FacingUpTo(wps, i - 1)
<1> DEFINE n == Len(wps)
<1> DEFINE Given(k) == {j \in 1..k : wps[j].facing # NoFacing}
<1>1. n \in Nat \ {0} /\ i \in Nat \ {0} /\ i <= n
  BY PathIs
<1>2. Given(i) \in SUBSET (1..n) /\ \A j \in Given(i) : wps[j].facing # NoFacing
  BY <1>1
<1>3. \A k : FacingUpTo(wps, k) = IF Given(k) = {} THEN 0 ELSE wps[Max(Given(k))].facing
  BY DEF FacingUpTo
<1>4. Given(i) # {} => /\ Max(Given(i)) \in Given(i)
                       /\ \A j \in Given(i) : j <= Max(Given(i))
                       /\ wps[Max(Given(i))].facing \in Nat
  <2> HIDE DEF Given
  <2> QED
    BY <1>2, LatestFacing
<1>5. FacingUpTo(wps, i) \in Nat
  <2> HIDE DEF Given
  <2> QED
    BY <1>3, <1>4
<1>6. ASSUME wps[i].facing # NoFacing
      PROVE  FacingUpTo(wps, i) = wps[i].facing
  <2>1. i \in Given(i) /\ \A j \in Given(i) : j \in Nat /\ j <= i
    BY <1>1, <1>6
  <2>2. Max(Given(i)) = i
    <3> HIDE DEF Given
    <3>1. Max(Given(i)) \in Nat /\ Max(Given(i)) <= i /\ i <= Max(Given(i))
      BY <1>4, <2>1
    <3> QED
      BY <1>1, <3>1
  <2> HIDE DEF Given
  <2> QED
    BY <1>3, <2>1, <2>2
<1>7. ASSUME wps[i].facing = NoFacing
      PROVE  FacingUpTo(wps, i) = IF i = 1 THEN 0 ELSE FacingUpTo(wps, i - 1)
  <2>1. Given(i) = Given(i - 1)
    BY <1>1, <1>7
  <2>2. i = 1 => Given(i) = {}
    BY <1>7
  <2> HIDE DEF Given
  <2> QED
    BY <1>3, <2>1, <2>2
<1> QED
  BY <1>5, <1>6, <1>7

\* If S holds the waypoints up to the i-th that give a facing, and later ones
\* only if they give what the i-th does, then its latest one decides like i.
LEMMA FromIs ==
  ASSUME NEW wps, Path(wps), NEW i \in 1..Len(wps), NEW S \in SUBSET (1..Len(wps)),
         \A j \in S : wps[j].facing # NoFacing,
         \A j \in 1..i : wps[j].facing # NoFacing => j \in S,
         \A j \in S : i < j => wps[j].facing = wps[i].facing
  PROVE  (IF S = {} THEN 0 ELSE wps[Max(S)].facing) = FacingUpTo(wps, i)
<1> DEFINE n == Len(wps)
<1> DEFINE Given == {j \in 1..i : wps[j].facing # NoFacing}
<1>1. n \in Nat \ {0} /\ i \in Nat \ {0} /\ i <= n
  BY PathIs
<1>2. FacingUpTo(wps, i) = IF Given = {} THEN 0 ELSE wps[Max(Given)].facing
  BY DEF FacingUpTo
<1>3. Given \subseteq S /\ \A j \in S : j \in Nat /\ (j <= i => j \in Given)
  BY <1>1
<1>4. CASE S \subseteq Given
  <2>1. S = Given
    BY <1>3, <1>4
  <2> HIDE DEF Given
  <2> QED
    BY <1>2, <2>1
<1>5. CASE ~(S \subseteq Given)
  <2>1. PICK j \in S : i < j
    BY <1>1, <1>3, <1>5
  <2>2. wps[i].facing # NoFacing
    BY <2>1
  <2>3. Max(S) \in S /\ j <= Max(S)
    BY <2>1, LatestFacing
  <2>4. i < Max(S)
    <3> DEFINE m == Max(S)
    <3> HIDE DEF m
    <3>1. m \in Nat /\ j \in Nat /\ j <= m
      BY <1>3, <2>1, <2>3 DEF m
    <3>2. i < m
      BY <1>1, <2>1, <3>1
    <3> QED
      BY <3>2 DEF m
  <2>5. wps[Max(S)].facing = wps[i].facing
    BY <2>3, <2>4
  <2>6. FacingUpTo(wps, i) = wps[i].facing
    BY <2>2, FacingUpToIs
  <2> QED
    BY <2>1, <2>5, <2>6
<1> QED
  BY <1>4, <1>5

LEMMA WithinTwo ==
  ASSUME NEW x \in Int, NEW y \in Int, NEW z \in Int,
         (x <= z /\ z <= y) \/ (y <= z /\ z <= x)
  PROVE  z \in Min({x, y})..Max({x, y})
<1>1. /\ Min({x, y}) \in Int /\ Min({x, y}) <= x /\ Min({x, y}) <= y
      /\ Max({x, y}) \in Int /\ x <= Max({x, y}) /\ y <= Max({x, y})
  BY MinOfTwo, MaxOfTwo
<1> QED
  BY <1>1

LEMMA LooksWhereTold ==
  ASSUME Path(player), t \in Int, snap.facing = FacingAt(player, t)
  PROVE  TurnsOnlyWhenTold
<1> DEFINE n == Len(player)
<1> DEFINE F(i) == FacingUpTo(player, i)
<1> DEFINE passed == {i \in DOMAIN player :
                        player[i].at <= t /\ player[i].facing # NoFacing}
<1> DEFINE from == IF passed = {} THEN 0 ELSE player[Max(passed)].facing
<1> DEFINE next == {i \in DOMAIN player : player[i].at > t}
<1> DEFINE to == IF next = {} \/ t < First(player).at THEN from
                 ELSE IF player[Min(next)].facing = NoFacing THEN from
                 ELSE player[Min(next)].facing
<1> DEFINE early == t < First(player).at /\ First(player).facing # NoFacing
<1>1. SUFFICES /\ early => FacingAt(player, t) = player[1].facing
               /\ ~early /\ ~FacingUnclear =>
                    FacingAt(player, t) \in Min({from, to})..Max({from, to})
  BY DEF TurnsOnlyWhenTold, First
<1>2. /\ n \in Nat \ {0} /\ DOMAIN player = 1..n /\ 1 \in 1..n /\ n \in 1..n
      /\ \A i \in 1..n : player[i].at \in Int
      /\ \A i \in 1..n : player[i].facing \in Nat \/ player[i].facing = NoFacing
      /\ \A i, j \in 1..n : i <= j => player[i].at <= player[j].at
  <2>1. n \in Nat \ {0}
    BY PathIs
  <2>2. 1 \in 1..n /\ n \in 1..n
    BY <2>1
  <2> QED
    BY <2>1, <2>2, PathIs
<1>3. passed \in SUBSET (1..n) /\ \A j \in passed : player[j].facing # NoFacing
  BY <1>2
<1>4. /\ \A i \in 1..n : F(i) \in Nat
      /\ \A i \in 1..n : player[i].facing # NoFacing => F(i) = player[i].facing
      /\ \A i \in 2..n : player[i].facing = NoFacing => F(i) = F(i - 1)
      /\ player[1].facing = NoFacing => F(1) = 0
  BY <1>2, FacingUpToIs
<1>5. from \in Nat
  BY <1>2, <1>3, LatestFacing
<1>6. next # {} => /\ Min(next) \in next /\ next \subseteq 1..n
                    /\ \A m \in next : (\A j \in next : m <= j) => m = Min(next)
  <2>1. next \subseteq 1..n
    BY <1>2
  <2>2. IsFiniteSet(1..n) /\ 1..n \subseteq Int
    <3>1. n \in Int
      BY <1>2
    <3> HIDE DEF n
    <3>2. IsFiniteSet(1..n)
      BY <3>1, FS_Interval
    <3>3. 1..n \subseteq Int
      BY <3>1
    <3> QED
      BY <3>2, <3>3
  <2> HIDE DEF next
  <2>3. next \in SUBSET Int /\ IsFiniteSet(next)
    BY <2>1, <2>2, FS_Subset
  <2> QED
    BY <2>1, <2>3, MinIs
<1>7. to \in Nat
  <2>1. next # {} => Min(next) \in 1..n
    <3> HIDE DEF next
    <3> QED
      BY <1>6
  <2> HIDE DEF next, from
  <2> QED
    BY <1>2, <1>5, <2>1
\* It is enough to look where the latest facing passed says.
<1>8. ASSUME NEW i \in 1..n, FacingAt(player, t) = F(i),
             \A j \in 1..i : player[j].facing # NoFacing => player[j].at <= t,
             \A j \in 1..n : i < j /\ player[j].at <= t =>
                               player[j].facing = player[i].facing
      PROVE  FacingAt(player, t) \in Min({from, to})..Max({from, to})
  <2>1. \A j \in 1..i : player[j].facing # NoFacing => j \in passed
    BY <1>2, <1>8
  <2>2. \A j \in passed : i < j => player[j].facing = player[i].facing
    BY <1>2, <1>8
  <2>3. from = F(i)
    <3> HIDE DEF passed
    <3> QED
      BY <1>3, <2>1, <2>2, FromIs
  <2> HIDE DEF from, to, F
  <2> QED
    BY <1>5, <1>7, <1>8, <2>3, WithinTwo
<1>9. CASE t <= player[1].at
  <2>1. FacingAt(player, t) = F(1)
    BY <1>9 DEF FacingAt, First
  <2>2. early => FacingAt(player, t) = player[1].facing
    BY <1>2, <1>4, <2>1 DEF First
  <2>3. ASSUME ~early, ~FacingUnclear
        PROVE  FacingAt(player, t) \in Min({from, to})..Max({from, to})
    <3>1. player[1].facing # NoFacing => player[1].at <= t
      BY <1>2, <2>3 DEF First
    <3>2. \A j \in 1..n : player[j].at <= t => player[j].at = t /\ player[1].at = t
      BY <1>2, <1>9
    <3>3. \A j \in 1..n : player[j].at <= t => player[j].facing = player[1].facing
      BY <1>2, <2>3, <3>2 DEF FacingUnclear
    <3>4. \A j \in 1..1 : j = 1
      OBVIOUS
    <3> HIDE DEF F, from, to, early
    <3> QED
      BY <1>2, <1>8, <2>1, <3>1, <3>3, <3>4
  <2> QED
    BY <2>2, <2>3
<1>10. CASE ~(t <= player[1].at)
  <2>1. ~early
    BY <1>2, <1>10 DEF First
  <2>2. CASE t >= player[n].at
    <3>1. FacingAt(player, t) = F(n)
      BY <1>10, <2>2 DEF FacingAt, First, Final
    <3>2. \A j \in 1..n : player[j].at <= t /\ ~(n < j)
      BY <1>2, <2>2
    <3> HIDE DEF F, from, to
    <3> QED
      BY <1>2, <1>8, <2>1, <3>1, <3>2
  <2>3. CASE ~(t >= player[n].at)
    <3> DEFINE i == LegTo(player, t)
    <3> DEFINE a == player[i - 1]
    <3> DEFINE b == player[i]
    <3>1. ~OffThePath(player, t)
      BY <1>10, <2>3 DEF OffThePath, First, Final
    <3>2. i \in 2..n /\ a.at < t /\ t <= b.at
      BY <3>1, LegExists
    <3>3. FacingAt(player, t) = Between(F(i - 1), F(i), a, b, t)
      BY <1>10, <2>3 DEF FacingAt, First, Final
    <3> HIDE DEF i
    <3>4. i \in 1..n /\ i - 1 \in 1..n /\ i \in Nat
      BY <1>2, <3>2
    <3> DEFINE d == b.at - a.at
    <3> DEFINE s == t - a.at
    <3>5. d \in Nat \ {0} /\ s \in 0..d /\ a.at \in Int /\ b.at \in Int
      BY <1>2, <3>2, <3>4
    <3>6. FacingAt(player, t) = F(i - 1) + ((F(i) - F(i - 1)) * s) \div d
      <4> HIDE DEF F
      <4> QED
        BY <3>3, <3>5 DEF Between
    <3> DEFINE x == F(i - 1)
    <3> DEFINE y == F(i)
    <3> DEFINE z == FacingAt(player, t)
    <3>7. /\ x \in Int /\ y \in Int /\ z \in Int /\ (s = d => z = y)
          /\ (x <= z /\ z <= y) \/ (y <= z /\ z <= x)
      <4>1. x \in Int /\ y \in Int
        BY <1>4, <3>4
      <4> HIDE DEF F, s, d, x, y
      <4>2. z = x + ((y - x) * s) \div d
        BY <3>6 DEF x, y
      <4> HIDE DEF z
      <4> QED
        BY <3>5, <4>1, <4>2, ShareLiesBetween
    <3>8. CASE t = b.at
      <4>1. z = F(i)
        BY <3>7, <3>8
      <4>2. \A j \in 1..i : player[j].at <= t
        BY <1>2, <3>4, <3>8
      <4>3. ASSUME ~FacingUnclear, NEW j \in 1..n, i < j, player[j].at <= t
            PROVE  player[j].facing = player[i].facing
        <5>1. player[j].at = t
          BY <1>2, <3>4, <3>8, <4>3
        <5> QED
          BY <1>2, <3>4, <3>8, <4>3, <5>1 DEF FacingUnclear
      <4> HIDE DEF F, from, to, early
      <4> QED
        BY <1>8, <2>1, <3>4, <4>1, <4>2, <4>3
    <3>9. CASE t # b.at
      <4>1. t < b.at
        BY <3>2, <3>5, <3>9
      <4>2. \A j \in 1..n : player[j].at <= t <=> j <= i - 1
        <5>1. \A j \in 1..n : j <= i - 1 => player[j].at <= t
          <6>1. \A j \in 1..n : j <= i - 1 => player[j].at <= a.at
            BY <1>2, <3>4
          <6> QED
            BY <1>2, <3>2, <3>5, <6>1
        <5>2. \A j \in 1..n : i <= j => ~(player[j].at <= t)
          <6>1. \A j \in 1..n : i <= j => b.at <= player[j].at
            BY <1>2, <3>4
          <6> QED
            BY <1>2, <3>5, <4>1, <6>1
        <5> QED
          BY <1>2, <3>4, <5>1, <5>2
      <4>3. from = F(i - 1)
        <5>1. \A j \in 1..(i - 1) : player[j].facing # NoFacing => j \in passed
          BY <1>2, <3>4, <4>2
        <5>2. \A j \in passed : ~(i - 1 < j)
          BY <1>2, <3>4, <4>2
        <5> HIDE DEF passed
        <5> QED
          BY <1>3, <3>4, <5>1, <5>2, FromIs
      <4>4. to = IF b.facing = NoFacing THEN from ELSE b.facing
        <5>1. i \in next /\ \A j \in next : i <= j
          BY <1>2, <3>4, <4>1, <4>2
        <5>2. Min(next) = i
          <6> HIDE DEF next
          <6> QED
            BY <1>6, <5>1
        <5>3. ~(t < First(player).at)
          BY <1>2, <1>10 DEF First
        <5> HIDE DEF next, from
        <5> QED
          BY <5>1, <5>2, <5>3
      <4>5. to = F(i)
        <5>1. b.facing # NoFacing => F(i) = b.facing
          BY <1>4, <3>4
        <5>2. b.facing = NoFacing => F(i) = F(i - 1)
          BY <1>4, <3>2
        <5> HIDE DEF from, to, F
        <5> QED
          BY <4>3, <4>4, <5>1, <5>2
      <4>6. z \in Min({x, y})..Max({x, y})
        <5> HIDE DEF x, y, z
        <5> QED
          BY <3>7, WithinTwo
      <4> HIDE DEF from, to, F, early
      <4> QED
        BY <2>1, <4>3, <4>5, <4>6
    <3> QED
      BY <3>8, <3>9
  <2> QED
    BY <2>2, <2>3
<1> QED
  BY <1>9, <1>10

-----------------------------------------------------------------------------
(***************************************************************************)
(* The invariant: both lists are as they were loaded, and the snapshot is  *)
(* that of the tick.                                                       *)
(***************************************************************************)
WalkInv ==
  /\ Path(player)
  /\ Path(npc)
  /\ t \in Nat
  /\ snap = Snapshot(player, npc, t)

LEMMA InitWalk == WalkInit => WalkInv
<1> SUFFICES ASSUME WalkInit PROVE WalkInv
  OBVIOUS
<1>1. PICK raw \in PlayerLists : player \in Loaded(raw)
  BY DEF WalkInit
<1>2. PICK given \in NpcLists : npc \in Loaded(given)
  BY DEF WalkInit
<1>3. raw \in Lists /\ given \in Lists
  BY DEF Lists
<1>4. Path(player) /\ Path(npc)
  BY <1>1, <1>2, <1>3, LoadedIsPath
<1> QED
  BY <1>4 DEF WalkInv, WalkInit

LEMMA TickWalk == WalkInv /\ [WalkTick]_walkVars => WalkInv'
<1> SUFFICES ASSUME WalkInv, [WalkTick]_walkVars PROVE WalkInv'
  OBVIOUS
<1>1. CASE WalkTick
  <2>1. player' = player /\ npc' = npc /\ t' = t + TickMs
    BY <1>1 DEF WalkTick
  <2>2. t' \in Nat
    BY <2>1, DurationAssumption DEF WalkInv
  <2>3. snap' = Snapshot(player', npc', t')
    BY <1>1, <2>1 DEF WalkTick
  <2>4. Path(player)' /\ Path(npc)'
    BY <2>1 DEF WalkInv, Path, InTime, ExactPath
  <2> QED
    BY <2>2, <2>3, <2>4 DEF WalkInv
<1>2. CASE UNCHANGED walkVars
  BY <1>2 DEF WalkInv, walkVars, Path, InTime, ExactPath
<1> QED
  BY <1>1, <1>2

(***************************************************************************)
(* The distance the predictor works with is the one that the NPC will      *)
(* have, and "approaching" what will have happened, for all lists of       *)
(* waypoints with exact legs, any tick and any look-ahead.                 *)
(***************************************************************************)
THEOREM PredictionsComeTrue == WalkSpec => []PredictionComesTrue
<1>1. WalkInv => PredictionComesTrue
  <2> DEFINE now   == Apart(PositionAt(player, t), PositionAt(npc, t))
  <2> DEFINE later == Apart(PositionAt(player, t + LookAhead), PositionAt(npc, t + LookAhead))
  <2> SUFFICES ASSUME WalkInv, OnOneLeg(player), OnOneLeg(npc)
               PROVE  /\ snap.distance = Min({now, later})
                      /\ snap.approaching <=> later < now - Noise
    BY DEF PredictionComesTrue
  <2>1. t \in Int /\ LookAhead \in Nat
    BY DurationAssumption DEF WalkInv
  <2>2. /\ Ahead(player, t) = PositionAt(player, t + LookAhead)
        /\ Ahead(npc, t) = PositionAt(npc, t + LookAhead)
    BY <2>1, AheadIsThere DEF WalkInv
  <2> QED
    BY <2>2 DEF WalkInv, Snapshot
<1> QED
  BY <1>1, InitWalk, TickWalk, PTL DEF WalkSpec

(***************************************************************************)
(* The player looks where the latest facing passed says, or between that   *)
(* one and the next, through any waypoints that give none.                 *)
(***************************************************************************)
THEOREM TurnsAreTold == WalkSpec => []TurnsOnlyWhenTold
<1>1. WalkInv => TurnsOnlyWhenTold
  <2> SUFFICES ASSUME WalkInv PROVE TurnsOnlyWhenTold
    OBVIOUS
  <2>1. Path(player) /\ t \in Int /\ snap.facing = FacingAt(player, t)
    BY DEF WalkInv, Snapshot
  <2> QED
    BY <2>1, LooksWhereTold
<1> QED
  BY <1>1, InitWalk, TickWalk, PTL DEF WalkSpec
==============================================================================
