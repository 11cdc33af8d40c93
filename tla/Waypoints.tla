----------------------------- MODULE Waypoints -----------------------------
(***************************************************************************)
(* Motion along the waypoints of a scenario (scenario.cpp), and what the   *)
(* intent predictor makes of it at each tick: where the player and an NPC  *)
(* are, how fast they move, where the player looks, how far apart they     *)
(* are and will be.                                                        *)
(*                                                                         *)
(* Everything moves on a line.  Positions and facings are integers whose   *)
(* differences every leg's duration divides, so the interpolation, made    *)
(* with doubles in the code, is exact.                                     *)
(***************************************************************************)
EXTENDS Integers, Sequences, FiniteSetsExt

CONSTANTS
  PlayerLists,   \* the waypoint lists a player may have, as the YAML file gives them
  NpcLists,      \* those of the NPC: sequences of [at, pos, facing]
  TickMs,        \* tick_us_, in milliseconds
  DurationMs,    \* scenario_.duration_ms
  LookAhead,     \* look_ahead_ms_
  StoppedSpeed,  \* ip_.stopped_speed_m_s
  Noise          \* the 0.1 m by which an approach has to come closer

NoFacing == -1   \* a waypoint without facing_deg

Lists == PlayerLists \cup NpcLists

\* parse_waypoint_list() refuses an empty list.
ASSUME ListsAssumption ==
  \A wps \in Lists :
    wps # <<>> /\ wps \in Seq([at : Int, pos : Int, facing : Nat \cup {NoFacing}])
ASSUME ExactAssumption ==
  \A wps \in Lists : \A i, j \in DOMAIN wps : wps[i].at < wps[j].at =>
    LET dt == wps[j].at - wps[i].at
    IN /\ (wps[j].pos - wps[i].pos) % dt = 0
       /\ wps[i].facing # NoFacing => wps[i].facing % dt = 0
       /\ wps[j].facing # NoFacing => wps[j].facing % dt = 0
ASSUME DurationAssumption ==
  TickMs \in Nat \ {0} /\ DurationMs \in Nat /\ LookAhead \in Nat /\ Noise \in Nat

VARIABLES
  player,  \* scenario_.player.waypoints
  npc,     \* the waypoints of the NPC
  t,       \* the time of the tick
  snap     \* what the tick saw: NpcSnapshot, and the player's own motion

walkVars == <<player, npc, t, snap>>

First(wps) == wps[1]
Final(wps) == wps[Len(wps)]

\* parse_waypoint_list() sorts by time; std::sort may swap equal times.
SortedFrom(wps, raw) ==
  /\ \A i, j \in DOMAIN wps : i < j => wps[i].at <= wps[j].at
  /\ \E p \in [DOMAIN raw -> DOMAIN raw] :
       /\ \A i, j \in DOMAIN raw : i # j => p[i] # p[j]
       /\ wps = [i \in DOMAIN raw |-> raw[p[i]]]

Loaded(raw) ==
  {wps \in [DOMAIN raw -> {raw[i] : i \in DOMAIN raw}] : SortedFrom(wps, raw)}

-----------------------------------------------------------------------------
\* The end of the leg that surround_at() finds: the first waypoint not yet passed.
LegTo(wps, at) == Min({i \in DOMAIN wps : at <= wps[i].at})

\* surround_at() finds no leg, and returns the first or the last waypoint twice.
OffThePath(wps, at) == at <= First(wps).at \/ at >= Final(wps).at

EndPoint(wps, at) == IF at <= First(wps).at THEN First(wps) ELSE Final(wps)

Slope(a, b) == IF b.at = a.at THEN 0 ELSE (b.pos - a.pos) \div (b.at - a.at)

\* The share of the way from x to y that is covered at time `at` between a and b.
Between(x, y, a, b, at) ==
  IF b.at = a.at THEN x ELSE x + ((y - x) * (at - a.at)) \div (b.at - a.at)

\* position_at()
PositionAt(wps, at) ==
  IF OffThePath(wps, at) THEN EndPoint(wps, at).pos
  ELSE LET b == wps[LegTo(wps, at)]
           a == wps[LegTo(wps, at) - 1]
       IN Between(a.pos, b.pos, a, b, at)

\* Mutant: the slope of the last leg, wherever the walker is.
VelocityOfLastLeg(wps, at) ==
  IF Len(wps) < 2 THEN 0 ELSE Slope(wps[Len(wps) - 1], Final(wps))

\* velocity_at(): off the path, on either side, the slope of the last leg.
VelocityAt(wps, at) ==
  IF Len(wps) < 2 THEN 0
  ELSE IF OffThePath(wps, at) THEN Slope(wps[Len(wps) - 1], Final(wps))
  ELSE Slope(wps[LegTo(wps, at) - 1], wps[LegTo(wps, at)])

\* Mutant: a waypoint without facing_deg looks to 0.
FacingOrZero(wps, i) == IF wps[i].facing = NoFacing THEN 0 ELSE wps[i].facing

\* The latest facing that waypoints 1..i specify, 0 if none does.
FacingUpTo(wps, i) ==
  LET given == {j \in 1..i : wps[j].facing # NoFacing}
  IN IF given = {} THEN 0 ELSE wps[Max(given)].facing

\* facing_at()
FacingAt(wps, at) ==
  IF at <= First(wps).at THEN FacingUpTo(wps, 1)
  ELSE IF at >= Final(wps).at THEN FacingUpTo(wps, Len(wps))
  ELSE LET i == LegTo(wps, at)
       IN Between(FacingUpTo(wps, i - 1), FacingUpTo(wps, i), wps[i - 1], wps[i], at)

Apart(x, y) == IF x < y THEN y - x ELSE x - y

Ahead(wps, at) == PositionAt(wps, at) + VelocityAt(wps, at) * LookAhead

\* make_snapshot(): the NPC as close as it is or is going to be.
Snapshot(p, n, at) ==
  LET current == Apart(PositionAt(p, at), PositionAt(n, at))
      future  == Apart(Ahead(p, at), Ahead(n, at))
  IN [distance    |-> Min({current, future}),
      approaching |-> future < current - Noise,
      stopped     |-> Apart(VelocityAt(p, at), 0) < StoppedSpeed,
      facing      |-> FacingAt(p, at)]

WalkInit ==
  /\ player \in UNION {Loaded(raw) : raw \in PlayerLists}
  /\ npc \in UNION {Loaded(raw) : raw \in NpcLists}
  /\ t = 0
  /\ snap = Snapshot(player, npc, 0)

\* tick(), re-armed as long as the scenario lasts.
WalkTick ==
  /\ t + TickMs < DurationMs
  /\ t' = t + TickMs
  /\ snap' = Snapshot(player, npc, t')
  /\ UNCHANGED <<player, npc>>

WalkSpec == WalkInit /\ [][WalkTick]_walkVars
-----------------------------------------------------------------------------
\* Two waypoints of one time at different places.
JumpsAt(wps, at) ==
  \E i, j \in DOMAIN wps : wps[i].at = at /\ wps[j].at = at /\ wps[i].pos # wps[j].pos

\* The whole look-ahead from now lies within one leg, or there is no leg at all.
OnOneLeg(wps) ==
  \/ Len(wps) = 1
  \/ /\ \E i \in 2..Len(wps) : wps[i - 1].at < t /\ t + LookAhead <= wps[i].at
     /\ ~JumpsAt(wps, t + LookAhead)

(***************************************************************************)
(* The prediction comes true: as long as neither of the two reaches a      *)
(* waypoint within the look-ahead, the distance the predictor works with   *)
(* is the smaller one of where they are and where they will really be, and *)
(* "approaching" is what will have happened.  It ties velocity_at() to     *)
(* position_at(), two functions that walk the waypoints separately.        *)
(***************************************************************************)
PredictionComesTrue ==
  OnOneLeg(player) /\ OnOneLeg(npc) =>
    LET now   == Apart(PositionAt(player, t), PositionAt(npc, t))
        later == Apart(PositionAt(player, t + LookAhead), PositionAt(npc, t + LookAhead))
    IN /\ snap.distance = Min({now, later})
       /\ snap.approaching <=> later < now - Noise

(***************************************************************************)
(* scenario.hpp: "Waypoints without facing inherit the most recent         *)
(* specified value."  The player looks where the latest facing_deg passed  *)
(* says, and turns only on a leg at whose end another one is given, never  *)
(* past that one.  (Of two waypoints of one time that differ, the player   *)
(* looks at that time as the first one says.)                              *)
(***************************************************************************)
FacingUnclear ==
  \E i, j \in DOMAIN player :
    player[i].at = t /\ player[j].at = t /\ player[i].facing # player[j].facing

TurnsOnlyWhenTold ==
  LET passed == {i \in DOMAIN player : player[i].at <= t /\ player[i].facing # NoFacing}
      from   == IF passed = {} THEN 0 ELSE player[Max(passed)].facing
      next   == {i \in DOMAIN player : player[i].at > t}
      to     == IF next = {} \/ t < First(player).at THEN from
                ELSE IF player[Min(next)].facing = NoFacing THEN from
                ELSE player[Min(next)].facing
      early  == t < First(player).at /\ First(player).facing # NoFacing
  IN IF early THEN snap.facing = First(player).facing
     ELSE ~FacingUnclear => snap.facing \in Min({from, to})..Max({from, to})

-----------------------------------------------------------------------------
(***************************************************************************)
(* A statement of a comment that the code does not keep.  scenario.hpp:    *)
(* velocity_at() is the "waypoint slope around t_ms".  At the time of the  *)
(* first waypoint, where every run begins, that is the slope of the first  *)
(* leg, or 0 for one who still waits there.                                *)
(***************************************************************************)
VelocityAroundNow ==
  \A wps \in {player, npc} :
    Len(wps) > 1 /\ t <= First(wps).at =>
      VelocityAt(wps, t) \in {0, Slope(wps[1], wps[2])}
=============================================================================
