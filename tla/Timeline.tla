------------------------------ MODULE Timeline ------------------------------
(***************************************************************************)
(* What the simulation relies on from its event queue: an agenda of events *)
(* in the order they were put on it.  The next one to run is the one due   *)
(* first, among equals the one put on the agenda first, and simulated time *)
(* moves to its due time.  An event taken off the agenda is simply gone.   *)
(***************************************************************************)
EXTENDS Integers, Sequences, SequencesExt

CONSTANTS Event, Times

VARIABLES
  now,      \* simulated time
  agenda,   \* the events to come, [ev, when], in the order they were added
  ran,      \* the events run so far, [ev, at]
  failed    \* an event was due before the present: the simulation is over

vars == <<now, agenda, ran, failed>>

Init == now = 0 /\ agenda = <<>> /\ ran = <<>> /\ failed = FALSE

IsFirst(i) ==
  \A j \in DOMAIN agenda \ {i} :
    \/ agenda[i].when < agenda[j].when
    \/ agenda[i].when = agenda[j].when /\ i < j

Add(e, when) ==
  /\ ~failed
  /\ agenda' = Append(agenda, [ev |-> e, when |-> when])
  /\ UNCHANGED <<now, ran, failed>>

Withdraw(i) ==
  /\ ~failed
  /\ agenda' = RemoveAt(agenda, i)
  /\ UNCHANGED <<now, ran, failed>>

RunFirst(i) ==
  /\ ~failed
  /\ IsFirst(i)
  /\ agenda' = RemoveAt(agenda, i)
  /\ IF agenda[i].when >= now
     THEN /\ now' = agenda[i].when
          /\ ran' = Append(ran, [ev |-> agenda[i].ev, at |-> agenda[i].when])
          /\ failed' = FALSE
     ELSE failed' = TRUE /\ UNCHANGED <<now, ran>>

Next ==
  \/ \E e \in Event, when \in Times : Add(e, when)
  \/ \E i \in DOMAIN agenda : Withdraw(i) \/ RunFirst(i)

Spec == Init /\ [][Next]_vars /\ WF_vars(\E i \in DOMAIN agenda : RunFirst(i))
=============================================================================
