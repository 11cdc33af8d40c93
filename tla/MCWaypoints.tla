---------------------------- MODULE MCWaypoints ----------------------------
(***************************************************************************)
(* Every player of three waypoints, listed in order, out of order or with  *)
(* two at one time, with and without facings, and the reversal of          *)
(* scenarios/backward.yaml; four NPCs that stand, come, leave or appear.   *)
(***************************************************************************)
EXTENDS Waypoints

At(at, pos, facing) == [at |-> at, pos |-> pos, facing |-> facing]

MCBackward == <<At(0, 0, 0), At(2, 12, 0), At(3, 12, 180), At(6, 0, 180)>>

MCPlayerLists ==
  {MCBackward, <<At(3, 12, 36)>>} \cup
  {[i \in 1..3 |-> At(times[i], where[i], look[i])] :
     times \in {<<0, 2, 6>>, <<7, 1, 4>>, <<2, 5, 5>>, <<3, 3, 7>>},
     where \in [1..3 -> {0, 12}], look \in [1..3 -> {NoFacing, 0, 60}]}

\* The scenario backward: one player who turns round, one NPC who stands.
MCBackwardPlayer == {MCBackward}
MCBackwardNpc    == {<<At(0, 11, NoFacing)>>}

MCNpcLists ==
  { <<At(0, 36, NoFacing)>>,
    <<At(0, 60, NoFacing), At(6, 24, NoFacing)>>,
    <<At(2, 0, NoFacing), At(8, 48, NoFacing)>>,
    <<At(3, 24, NoFacing), At(3, 0, NoFacing), At(7, 12, NoFacing)>> }
=============================================================================
