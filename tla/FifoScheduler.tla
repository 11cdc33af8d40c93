--------------------------- MODULE FifoScheduler ---------------------------
(***************************************************************************)
(* FIFOScheduler: one queue for all classes, served from the front.  A     *)
(* transaction whose quantum ends before its bytes do goes to the back.    *)
(***************************************************************************)
EXTENDS Scheduler

VARIABLE queue   \* FIFOScheduler::queue_

vars == <<now, bus_idle, ends, log, kpi, loaded, served, queue>>

Init == BusInit /\ queue = <<>>

\* Mutant: a transaction that needs another slice goes back to the front.
OnArriveAtFront(q, arriving) == arriving \o q

\* on_arrive()
OnArrive(q, arriving) == q \o arriving

\* Mutant: pick_next() returns nothing when it has dropped something.
NobodyLeftOrDropped(q, n) == n = Len(q) \/ n > 0

NobodyLeft(q, n) == n = Len(q)

\* Mutant: the head is returned and stays in the queue.
QueueWithPicked(q, n) == SubSeq(q, n + 1, Len(q))

QueueAfterPick(q, n) == SubSeq(q, n + 2, Len(q))

\* pick_next(): drop the stale transactions at the front, then take the head.
PickNext(h, q) ==
  \E n \in 0..Len(q) :
    LET dropped == TxnsOf(SubSeq(q, 1, n))
    IN /\ StalePrefix(q, n, h.at)
       /\ \/ /\ NobodyLeft(q, n)
             /\ queue' = SubSeq(q, n + 1, Len(q))
             /\ Rest(h, dropped)
          \/ /\ ~NobodyLeft(q, n)
             /\ queue' = QueueAfterPick(q, n)
             /\ Serve(h, dropped, q[n + 1])

\* accept(), called by a traffic generator's event at time `at`.
Accept(t, at) ==
  \E h \in {Accepted(t, at)} :
    /\ Keep(h)
    /\ \E q \in {OnArrive(queue, h.arriving)} :
         \/ bus_idle /\ PickNext(h, q)
         \/ ~bus_idle /\ KeepServing(h) /\ queue' = q

\* on_quantum_end(), run by the event queue when the slice is over.
QuantumEnd ==
  \E e \in ends : \E h \in {Ended(e)} :
    /\ IsNextEvent(e)
    /\ Keep(h)
    /\ \E q \in {OnArrive(queue, h.arriving)} : PickNext(h, q)

\* The generators issue each transaction once, at any time.
Arrival(t, at) == MayArrive(t, at) /\ Accept(t, at)

Next == (\E t \in Txn, at \in 0..MaxTime : Arrival(t, at)) \/ QuantumEnd

\* The main loop runs every scheduled event; nobody has to issue anything.
Spec == Init /\ [][Next]_vars /\ WF_vars(QuantumEnd)
-----------------------------------------------------------------------------
TypeOK == BusTypeOK /\ queue \in Seq(Pending)

(***************************************************************************)
(* Every transaction issued and not finished is in exactly one place, the  *)
(* queue or the bus, once, and agrees there with its trace; a finished one *)
(* is nowhere.  PendingTxn objects change hands as raw pointers inside     *)
(* event closures (schedule_quantum_end): none is lost, none comes back.   *)
(***************************************************************************)
NothingLost ==
  /\ \A t \in Txn :
       Cardinality(OnBusAs(t)) + Cardinality(PlacesOf(t, queue))
         = IF Outstanding(t) THEN 1 ELSE 0
  /\ \A i \in DOMAIN queue : AgreesWithTrace(queue[i])
  /\ \A e \in ends : AgreesWithTrace(e.pending)

(***************************************************************************)
(* The bus is never idle while a transaction waits: the only wake-up of a  *)
(* waiting transaction is the end of another one's quantum.                *)
(***************************************************************************)
WorkConserving == bus_idle => queue = <<>>

(***************************************************************************)
(* While a transaction waits its place in the queue never moves back: each *)
(* quantum brings it closer to the bus, so n transactions ahead of it cost *)
(* it at most n quanta.                                                    *)
(***************************************************************************)
NeverOvertaken ==
  [][\A i \in DOMAIN queue : \A j \in DOMAIN queue' :
       queue[i].tx = queue'[j].tx => j <= i - (IF bus_idle' \/ ends' = ends THEN 0 ELSE 1)]_vars

(***************************************************************************)
(* Whatever was issued is completed or dropped in the end: again and again *)
(* there comes a moment when no transaction is outstanding.                *)
(***************************************************************************)
EveryTransactionEnds == []<>(\A t \in Txn : ~Outstanding(t))
=============================================================================
