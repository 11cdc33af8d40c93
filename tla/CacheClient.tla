---------------------------- MODULE CacheClient ----------------------------
(***************************************************************************)
(* NpuCache in the hands of a client that calls it in any order, at times  *)
(* that do not go back, as the handlers of the event queue do.             *)
(***************************************************************************)
EXTENDS NpuCache

CONSTANTS
  Distance,   \* distances of NPCs to the player
  MaxTime,    \* bound: the last time of a call
  MaxPins     \* bound: pins of one weight at a time

ASSUME ClientAssumption == Distance \subseteq Nat /\ MaxTime \in Nat /\ MaxPins \in Nat

VARIABLE clock   \* the time of the latest call

vars == <<entries, bytes_used, clock>>

Init == CacheInit /\ clock = 0

AdmitNow(k, at, d) == clock' = at /\ Admit(k, at, d)
TouchNow(k, at, d) == clock' = at /\ Touch(k, at, d)
PinNow(k, at)      == clock' = at /\ Pin(k) /\ entries[k].pin_count < MaxPins
UnpinNow(k, at)    == clock' = at /\ Unpin(k)

Next ==
  \E k \in Key, at \in clock..MaxTime :
    \/ \E d \in Distance : AdmitNow(k, at, d) \/ TouchNow(k, at, d)
    \/ PinNow(k, at)
    \/ UnpinNow(k, at)

Spec == Init /\ [][Next]_vars
=============================================================================
