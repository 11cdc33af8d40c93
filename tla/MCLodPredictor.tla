--------------------------- MODULE MCLodPredictor ---------------------------
(***************************************************************************)
(* The bands and the deadband of config.yaml, one NPC, five ticks, and the *)
(* distances on both sides of every threshold: 10/12, 30/36 and 100/120 m. *)
(***************************************************************************)
EXTENDS LodHistory

MCMaxDistance == [l \in 0..2 |-> CASE l = 0 -> 10 [] l = 1 -> 30 [] l = 2 -> 100]
MCDistance    == {10, 12, 13, 30, 36, 37, 100, 120, 121}
=============================================================================
