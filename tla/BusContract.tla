---------------------------- MODULE BusContract ----------------------------
(***************************************************************************)
(* What every scheduling policy promises the traffic generators, whatever  *)
(* its queues look like: a transaction handed in waits, is served, may     *)
(* wait again and ends in exactly one way; the bus serves one transaction  *)
(* at a time and takes it back only at a quantum end; nothing is given up  *)
(* before its deadline.  FifoScheduler and QosScheduler implement it.      *)
(***************************************************************************)
EXTENDS Integers, FiniteSets

CONSTANTS Txn, Deadline(_, _)   \* Deadline(t, issued): absolute, 0 for none

VARIABLES
  now,     \* simulated time
  phase,   \* per transaction, where it is in its life
  due      \* per transaction, its deadline once it is issued

vars == <<now, phase, due>>

Phases == {"new", "waiting", "serving", "completed", "dropped"}

In(ph, p) == {t \in Txn : ph[t] = p}

Expired(d, t, at) == d[t] > 0 /\ at >= d[t]

Init ==
  /\ now = 0
  /\ phase = [t \in Txn |-> "new"]
  /\ due = [t \in Txn |-> 0]

(***************************************************************************)
(* The bus is free: some of the waiting transactions whose deadline has    *)
(* passed are given up, and at most one of the others is put on the bus.   *)
(***************************************************************************)
Arbitrate(ph, d, at) ==
  /\ phase' \in [Txn -> Phases]
  /\ \A t \in Txn : phase'[t] # ph[t] =>
       /\ ph[t] = "waiting"
       /\ phase'[t] \in {"serving", "dropped"}
       /\ phase'[t] = "dropped" => Expired(d, t, at)
  /\ \A t, u \in Txn : phase'[t] = "serving" /\ phase'[u] = "serving" => t = u

Issue(t) ==
  LET ph == [phase EXCEPT ![t] = "waiting"]
      d  == [due EXCEPT ![t] = Deadline(t, now')]
  IN /\ phase[t] = "new"
     /\ due' = d
     /\ IF In(phase, "serving") = {} THEN Arbitrate(ph, d, now') ELSE phase' = ph

\* The transaction on the bus is done, is given up, or has to wait again.
QuantumEnd(t) ==
  /\ phase[t] = "serving"
  /\ due' = due
  /\ \E outcome \in {"completed", "dropped", "waiting"} :
       /\ outcome = "dropped" => Expired(due, t, now')
       /\ Arbitrate([phase EXCEPT ![t] = outcome], due, now')

Next ==
  /\ now' \in Nat /\ now' >= now
  /\ \E t \in Txn : Issue(t) \/ QuantumEnd(t)

Spec == Init /\ [][Next]_vars
=============================================================================
