------------------------ MODULE FifoScheduler_proofs ------------------------
(***************************************************************************)
(* Theorems about FifoScheduler, for every configuration and every set of  *)
(* transactions the assumptions admit.                                     *)
(***************************************************************************)
EXTENDS FifoScheduler, SchedulerLemmas

\* A FIFO queue drops late transactions of every class: it keeps all deadlines.
Exempt == {}

\* Stronger than what is claimed: the trace knows every waiting transaction.
IInv ==
  /\ BusInv(Exempt)
  /\ queue \in Seq(Pending)
  /\ AllKnown(queue, log, now)
  /\ WorkConserving

\* pick_next() and what start_service_if_idle() does with its result.
LEMMA PickNextInv ==
  ASSUME BusInv(Exempt), NEW h, HalfInv(h, Exempt), h.ends = {}, Keep(h),
         NEW q \in Seq(Pending), AllKnown(q, h.log, h.at),
         PickNext(h, q)
  PROVE  IInv'
<1>1. /\ h.at \in Nat /\ h.log \in Logs /\ now' = h.at
  BY DEF HalfInv, HalfStep, Keep
<1>2. PICK n \in 0..Len(q) :
        /\ StalePrefix(q, n, h.at)
        /\ \/ /\ NobodyLeft(q, n)
              /\ queue' = SubSeq(q, n + 1, Len(q))
              /\ Rest(h, TxnsOf(SubSeq(q, 1, n)))
           \/ /\ ~NobodyLeft(q, n)
              /\ queue' = QueueAfterPick(q, n)
              /\ Serve(h, TxnsOf(SubSeq(q, 1, n)), q[n + 1])
  BY DEF PickNext
<1> DEFINE dropped == TxnsOf(SubSeq(q, 1, n))
<1>3. dropped \in SUBSET Txn /\ MayDrop(dropped, h.log, h.at, Exempt)
  BY <1>1, <1>2, PrefixMayDrop
<1>4. Len(q) \in Nat /\ n \in Nat /\ DOMAIN q = 1..Len(q) /\ \A i \in DOMAIN q : q[i] \in Pending
  BY <1>2, LenProperties
<1> HIDE DEF dropped
<1>5. CASE /\ NobodyLeft(q, n)
           /\ queue' = SubSeq(q, n + 1, Len(q))
           /\ Rest(h, dropped)
  <2>1. queue' = <<>>
    <3>1. n + 1 \in Int /\ Len(q) \in Int /\ Len(q) < n + 1
      BY <1>4, <1>5 DEF NobodyLeft
    <3> QED
      BY <1>5, <3>1, SubSeqEmpty
  <2>2. BusInv(Exempt)'
    BY <1>3, <1>5, RestBusInv
  <2>3. (queue \in Seq(Pending))' /\ DOMAIN queue' = {}
    BY <2>1, EmptySeq
  <2> QED
    BY <2>1, <2>2, <2>3 DEF IInv, AllKnown, WorkConserving
<1>6. CASE /\ ~NobodyLeft(q, n)
           /\ queue' = QueueAfterPick(q, n)
           /\ Serve(h, dropped, q[n + 1])
  <2>1. n + 1 \in DOMAIN q /\ n < Len(q)
    <3>1. n # Len(q)
      BY <1>6 DEF NobodyLeft
    <3> QED
      BY <3>1, NextIndex
  <2>2. /\ q[n + 1] \in Pending
        /\ Known(q[n + 1], h.log, h.at)
        /\ ~Stale(q[n + 1], h.at)
    BY <1>2, <1>4, <2>1 DEF AllKnown, StalePrefix
  <2>3. BusInv(Exempt)' /\ Continues(h.log, log')
    BY <1>3, <1>6, <2>2, ServeBusInv
  <2>4. queue' \in Seq(Pending) /\ AllKnown(queue', h.log, h.at)
    <3>1. n + 2 \in Nat \ {0}
      BY <1>4
    <3> QED
      BY <1>6, <3>1, SuffixKnown DEF QueueAfterPick
  <2>5. log' \in Logs
    BY <2>3 DEF BusInv, BusTypeOK, Logs
  <2>6. AllKnown(queue', log', h.at)
    BY <1>1, <2>3, <2>4, <2>5, AllKnownContinues
  <2>7. bus_idle' = FALSE
    BY <1>6 DEF Serve
  <2> QED
    BY <1>1, <2>3, <2>4, <2>6, <2>7 DEF IInv, AllKnown, WorkConserving
<1> QED
  BY <1>2, <1>5, <1>6 DEF dropped

LEMMA InitInv == Init => IInv
<1> SUFFICES ASSUME Init
             PROVE  IInv
  OBVIOUS
<1>1. BusInit /\ queue = <<>>
  BY DEF Init
<1>2. queue \in Seq(Pending) /\ DOMAIN queue = {}
  BY <1>1, EmptySeq
<1>3. log \in [Txn -> Seq(Record)]
  BY <1>1, EmptySeq DEF BusInit
<1>4. kpi \in Kpi
  BY <1>1 DEF BusInit, ZeroKpi, Kpi
<1>5. BusTypeOK
  BY <1>1, <1>3, <1>4 DEF BusInit, BusTypeOK
<1>6. Honours(log, Exempt)
  <2>1. \A t \in Txn : DOMAIN log[t] = {}
    BY <1>1 DEF BusInit
  <2> QED
    BY <2>1 DEF Honours
<1>7. BusInv(Exempt)
  BY <1>1, <1>5, <1>6 DEF BusInit, BusInv, OneTransferAtATime
<1> QED
  BY <1>1, <1>2, <1>7 DEF IInv, AllKnown, WorkConserving

LEMMA ArrivalInv ==
  ASSUME IInv, NEW t \in Txn, NEW at \in 0..MaxTime, Arrival(t, at)
  PROVE  IInv'
<1> DEFINE h == Accepted(t, at)
<1> DEFINE q == OnArrive(queue, h.arriving)
<1>1. /\ BusInv(Exempt) /\ log[t] = <<>> /\ at >= now /\ at \in Nat
      /\ \A e \in ends : at <= e.at
  BY TimeAssumption DEF IInv, Arrival, Accept, MayArrive
<1>2. HalfInv(h, Exempt) /\ h.ends = ends /\ h.at = at
  BY <1>1, AcceptedHalf DEF Accepted, Half
<1>3. Keep(h) /\ \/ bus_idle /\ PickNext(h, q)
                 \/ ~bus_idle /\ KeepServing(h) /\ queue' = q
  BY DEF Arrival, Accept
<1> HIDE DEF h
<1>4. /\ h.arriving \in Seq(Pending) /\ AllKnown(h.arriving, h.log, h.at)
      /\ h.log \in Logs /\ Continues(log, h.log)
  BY <1>2 DEF HalfInv, HalfStep
<1>5. queue \in Seq(Pending) /\ AllKnown(queue, log, now) /\ log \in Logs /\ now \in Nat
  BY <1>1 DEF IInv, BusInv, BusTypeOK, Logs
<1>6. AllKnown(queue, h.log, h.at)
  BY <1>1, <1>2, <1>4, <1>5, AllKnownContinues
<1>7. q \in Seq(Pending) /\ AllKnown(q, h.log, h.at)
  BY <1>4, <1>5, <1>6, ConcatKnown DEF OnArrive
<1> HIDE DEF q
<1>8. CASE bus_idle /\ PickNext(h, q)
  <2>1. h.ends = {}
    BY <1>1, <1>2, <1>8 DEF BusInv, OneTransferAtATime
  <2> QED
    BY <1>1, <1>2, <1>3, <1>7, <1>8, <2>1, PickNextInv
<1>9. CASE ~bus_idle /\ KeepServing(h) /\ queue' = q
  <2>1. BusInv(Exempt)'
    BY <1>1, <1>2, <1>3, <1>9, KeepServingBusInv
  <2>2. log' = h.log /\ now' = h.at /\ bus_idle' = FALSE
    BY <1>3, <1>9 DEF Keep, KeepServing
  <2> QED
    BY <1>7, <1>9, <2>1, <2>2 DEF IInv, AllKnown, WorkConserving
<1> QED
  BY <1>3, <1>8, <1>9

LEMMA QuantumEndInv ==
  ASSUME IInv, QuantumEnd
  PROVE  IInv'
<1>1. PICK e \in ends : /\ Keep(Ended(e))
                        /\ PickNext(Ended(e), OnArrive(queue, Ended(e).arriving))
  BY DEF QuantumEnd
<1> DEFINE h == Ended(e)
<1> DEFINE q == OnArrive(queue, h.arriving)
<1>2. BusInv(Exempt) /\ HalfInv(h, Exempt) /\ h.ends = {}
  BY EndedHalf DEF IInv
<1>3. Keep(h) /\ PickNext(h, q)
  BY <1>1
<1> HIDE DEF h
<1>4. /\ h.arriving \in Seq(Pending) /\ AllKnown(h.arriving, h.log, h.at)
      /\ h.log \in Logs /\ Continues(log, h.log) /\ h.at \in Nat /\ now <= h.at
  BY <1>2 DEF HalfInv, HalfStep, BusInv, BusTypeOK
<1>5. queue \in Seq(Pending) /\ AllKnown(queue, log, now) /\ log \in Logs /\ now \in Nat
  BY <1>2 DEF IInv, BusInv, BusTypeOK, Logs
<1>6. AllKnown(queue, h.log, h.at)
  BY <1>4, <1>5, AllKnownContinues
<1>7. q \in Seq(Pending) /\ AllKnown(q, h.log, h.at)
  BY <1>4, <1>5, <1>6, ConcatKnown DEF OnArrive
<1> HIDE DEF q
<1> QED
  BY <1>2, <1>3, <1>7, PickNextInv

LEMMA NextInv == IInv /\ [Next]_vars => IInv'
<1> SUFFICES ASSUME IInv, [Next]_vars
             PROVE  IInv'
  OBVIOUS
<1>1. CASE \E t \in Txn, at \in 0..MaxTime : Arrival(t, at)
  BY <1>1, ArrivalInv
<1>2. CASE QuantumEnd
  BY <1>2, QuantumEndInv
<1>3. CASE UNCHANGED vars
  BY <1>3 DEF vars, IInv, BusInv, BusTypeOK, OneTransferAtATime, AllKnown, Known, Honours,
              RecordHonours, WorkConserving
<1> QED
  BY <1>1, <1>2, <1>3 DEF Next

(***************************************************************************)
(* The inductive invariant holds in every reachable state.                 *)
(***************************************************************************)
THEOREM Invariance == Spec => []IInv
<1> QED
  BY InitInv, NextInv, PTL DEF Spec

(***************************************************************************)
(* Types: in particular bytes_remaining never wraps below 0, the counters  *)
(* count, and no transaction outlives its slice.                           *)
(***************************************************************************)
THEOREM TypeCorrect == Spec => []TypeOK
<1>1. IInv => TypeOK
  BY DEF IInv, BusInv, TypeOK
<1> QED
  BY <1>1, Invariance, PTL

(***************************************************************************)
(* The bus serves one transaction at a time, and bus_idle_ says so.        *)
(***************************************************************************)
THEOREM OneAtATime == Spec => []OneTransferAtATime
<1>1. IInv => OneTransferAtATime
  BY DEF IInv, BusInv
<1> QED
  BY <1>1, Invariance, PTL

(***************************************************************************)
(* A FIFO bus never rests while a transaction waits.                       *)
(***************************************************************************)
THEOREM NeverIdleWithWork == Spec => []WorkConserving
<1>1. IInv => WorkConserving
  BY DEF IInv
<1> QED
  BY <1>1, Invariance, PTL

(***************************************************************************)
(* Nothing starts at or after its deadline; nothing is given up before it. *)
(***************************************************************************)
THEOREM DeadlinesKept == Spec => []DeadlinesHonoured
<1>1. IInv => DeadlinesHonoured
  BY HonoursDeadlines DEF IInv, BusInv, BusTypeOK, Logs, Exempt
<1> QED
  BY <1>1, Invariance, PTL
-----------------------------------------------------------------------------
(***************************************************************************)
(* FifoScheduler implements BusContract: every step of the queue, the      *)
(* event queue and the trace is a step of the contract, or none.           *)
(***************************************************************************)

\* The refinement needs to know that no transaction is in two places, and that the
\* objects in the places there are agree with the trace.
RInv ==
  /\ IInv
  /\ WaitsOnce(queue, log, Served)
  /\ \A e \in ends : Alive(log, e.pending.tx)
  /\ Held(Objects(queue), ends, log, served)

PickNextRefines(h, q) ==
  /\ \E D \in SUBSET Txn : GoesOn(h, D)
  /\ WaitsOnce(queue', log', Served')
  /\ Moves(h, Objects(q), Objects(queue'))

LEMMA PickNextContract ==
  ASSUME NEW h, HalfInv(h, Exempt), h.ends = {},
         NEW q \in Seq(Pending), AllKnown(q, h.log, h.at), WaitsOnce(q, h.log, {}),
         PickNext(h, q)
  PROVE  PickNextRefines(h, q)
<1>1. h.at \in Nat /\ h.log \in Logs
  BY DEF HalfInv, HalfStep
<1>2. PICK n \in 0..Len(q) :
        /\ StalePrefix(q, n, h.at)
        /\ \/ /\ NobodyLeft(q, n)
              /\ queue' = SubSeq(q, n + 1, Len(q))
              /\ Rest(h, TxnsOf(SubSeq(q, 1, n)))
           \/ /\ ~NobodyLeft(q, n)
              /\ queue' = QueueAfterPick(q, n)
              /\ Serve(h, TxnsOf(SubSeq(q, 1, n)), q[n + 1])
  BY DEF PickNext
<1> DEFINE D == TxnsOf(SubSeq(q, 1, n))
<1>3. D \in SUBSET Txn /\ \A t \in D : Alive(h.log, t) /\ Late(h.log, t, h.at)
  BY <1>1, <1>2, PrefixLate
<1>4. D = {q[i].tx : i \in 1..n} /\ \A i \in 1..n : i \in DOMAIN q
  BY <1>2, PrefixTxns
<1>5. n \in Nat /\ Len(q) \in Nat
  BY <1>2, LenProperties
<1> HIDE DEF D
<1>6. CASE /\ NobodyLeft(q, n)
           /\ queue' = SubSeq(q, n + 1, Len(q))
           /\ Rest(h, D)
  <2>1. queue' = <<>>
    <3>1. n + 1 \in Int /\ Len(q) \in Int /\ Len(q) < n + 1
      BY <1>5, <1>6 DEF NobodyLeft
    <3> QED
      BY <1>6, <3>1, SubSeqEmpty
  <2>2. GoesOn(h, D)
    BY <1>1, <1>3, <1>6, RestGoesOn
  <2>3. \A r \in Objects(q) : r.tx \in D
    <3>1. DOMAIN q = 1..n
      BY <1>6, LenProperties DEF NobodyLeft
    <3> QED
      BY <1>4, <3>1 DEF Objects
  <2>4. Objects(queue') \in SUBSET Objects(q)
    BY <2>1, EmptyObjects
  <2>5. Moves(h, Objects(q), Objects(queue'))
    BY <1>3, <1>6, <2>2, <2>3, <2>4, RestMoves
  <2>6. WaitsOnce(queue', log', Served')
    BY <2>1 DEF WaitsOnce
  <2> QED
    BY <1>3, <2>2, <2>5, <2>6 DEF PickNextRefines
<1>7. CASE /\ ~NobodyLeft(q, n)
           /\ queue' = QueueAfterPick(q, n)
           /\ Serve(h, D, q[n + 1])
  <2> DEFINE p == q[n + 1]
  <2>1. n + 1 \in DOMAIN q
    <3>1. n # Len(q)
      BY <1>7 DEF NobodyLeft
    <3> QED
      BY <1>2, <3>1, NextIndex
  <2>2. p \in Pending /\ Alive(h.log, p.tx)
    BY <2>1, LenProperties DEF WaitsOnce
  <2>3. p.tx \notin D
    <3>1. \A i \in 1..n : i # n + 1
      BY <1>5
    <3> QED
      BY <1>4, <2>1, <3>1 DEF WaitsOnce
  <2>4. GoesOn(h, D) /\ Served' = {p.tx}
    BY <1>1, <1>3, <1>7, <2>2, <2>3, ServeGoesOn
  <2>5. n + 2 \in Nat \ {0}
    BY <1>5
  <2>6. WaitsOnce(queue', h.log, {})
    BY <1>7, <2>5, WaitsOnceSuffix DEF QueueAfterPick
  <2>7. \A i \in DOMAIN queue' : queue'[i].tx \notin D /\ queue'[i].tx # p.tx
    <3>1. ASSUME NEW i \in DOMAIN queue'
          PROVE  \E j \in DOMAIN q : j \in Nat /\ j >= n + 2 /\ queue'[i] = q[j]
      <4>1. i \in Nat /\ n + 2 + i - 1 \in DOMAIN q /\ n + 2 + i - 1 >= n + 2
            /\ queue'[i] = q[n + 2 + i - 1]
        BY <1>7, <2>5, SuffixPlaces DEF QueueAfterPick
      <4> QED
        BY <1>5, <4>1
    <3>2. \A j \in Nat : j >= n + 2 => j # n + 1 /\ j \notin 1..n
      BY <1>5
    <3> QED
      BY <1>4, <2>1, <3>1, <3>2 DEF WaitsOnce
  <2> HIDE DEF p
  <2>8. WaitsOnce(queue', log', Served')
    BY <2>4, <2>6, <2>7, GoesOnWaits
  <2>9. Objects(queue') \in SUBSET Objects(q)
    <3>1. \A i \in DOMAIN queue' : n + 2 + i - 1 \in DOMAIN q /\ queue'[i] = q[n + 2 + i - 1]
      BY <1>7, <2>5, SuffixPlaces DEF QueueAfterPick
    <3> QED
      BY <3>1 DEF Objects
  <2>10. ASSUME NEW i \in DOMAIN q
         PROVE  q[i] \in Objects(queue') \/ q[i].tx \in D \/ q[i] = p
    <3>1. i \in Nat
      BY LenProperties
    <3>2. CASE i <= n
      BY <1>4, <1>5, <3>1, <3>2, LenProperties
    <3>3. CASE i = n + 1
      BY <3>3 DEF p
    <3>4. CASE i >= n + 2
      <4> DEFINE m == n + 2
      <4> DEFINE s == SubSeq(q, m, Len(q))
      <4>1. m \in Nat \ {0} /\ i >= m /\ queue' = s
        BY <1>7, <2>5, <3>4 DEF QueueAfterPick
      <4> HIDE DEF m
      <4>2. i - m + 1 \in DOMAIN s /\ s[i - m + 1] = q[i]
        BY <4>1, SuffixHolds
      <4> QED
        BY <4>1, <4>2 DEF Objects
    <3> QED
      BY <1>5, <3>1, <3>2, <3>3, <3>4
  <2>11. p \in Objects(q)
    BY <2>1 DEF Objects, p
  <2>12. \A r \in Objects(q) : r \in Objects(queue') \/ r.tx \in D \/ r = p
    BY <2>10 DEF Objects
  <2>13. Serve(h, D, p)
    BY <1>7 DEF p
  <2>14. Moves(h, Objects(q), Objects(queue'))
    BY <1>1, <1>3, <2>2, <2>3, <2>4, <2>9, <2>11, <2>12, <2>13, ServeMoves
  <2> QED
    BY <1>3, <2>4, <2>8, <2>14 DEF PickNextRefines
<1> QED
  BY <1>2, <1>6, <1>7 DEF D

LEMMA PickedHeld ==
  ASSUME NEW h, HalfInv(h, Exempt), Keep(h), NEW q, WaitsOnce(q, h.log, {}),
         PickNextRefines(h, q), Held(Objects(q), {}, h.log, h.served)
  PROVE  Held(Objects(queue'), ends', log', served')
<1>1. h.at \in Nat /\ h.log \in Logs /\ served' = h.served
  BY DEF HalfInv, HalfStep, Keep
<1>2. PICK D \in SUBSET Txn : GoesOn(h, D)
  BY DEF PickNextRefines
<1>3. \A p \in Objects(q) : p.tx \in Txn
  BY DEF WaitsOnce, Objects
<1>4. \A p \in Objects(queue') : Alive(log', p.tx) /\ p.tx \notin Served'
  BY DEF PickNextRefines, WaitsOnce, Objects
<1> QED
  BY <1>1, <1>2, <1>3, <1>4, MovesHeld DEF PickNextRefines

\* A bus that was free goes on as start_service_if_idle() left it.
LEMMA PickedWent ==
  ASSUME NEW h, Keep(h), NEW q, WaitsOnce(q, h.log, {}), PickNextRefines(h, q),
         Held(Objects(q), {}, h.log, h.served)
  PROVE  Went(h)
<1>1. \A p \in Objects(q) : Alive(h.log, p.tx)
  BY DEF WaitsOnce, Objects
<1>2. Launches(h)
  BY <1>1, MovesLaunch DEF PickNextRefines
<1> QED
  BY <1>2 DEF Went, PickNextRefines

LEMMA InitRefines == Init => RInv /\ Contract!Init
<1> SUFFICES ASSUME Init
             PROVE  RInv /\ Contract!Init
  OBVIOUS
<1>1. IInv /\ Contract!Init
  BY InitInv, InitContract DEF Init
<1>2. queue = <<>> /\ ends = {} /\ \A t \in Txn : log[t] = <<>> /\ served[t] = 0
  BY DEF Init, BusInit
<1>3. WaitsOnce(queue, log, Served)
  BY <1>2 DEF WaitsOnce
<1>4. Held(Objects(queue), ends, log, served)
  <2>1. Objects(queue) = {}
    BY <1>2, EmptyObjects
  <2> QED
    BY <1>2, <2>1 DEF Held, Untouched, Alive
<1> QED
  BY <1>1, <1>2, <1>3, <1>4 DEF RInv

LEMMA ArrivalRefines ==
  ASSUME RInv, NEW t \in Txn, NEW at \in 0..MaxTime, Arrival(t, at)
  PROVE  RInv' /\ Contract!Next /\ StepIs /\ Went(Accepted(t, at))
<1> DEFINE h == Accepted(t, at)
<1> DEFINE q == OnArrive(queue, h.arriving)
<1>1. /\ BusInv(Exempt) /\ log[t] = <<>> /\ at >= now /\ at \in Nat
      /\ queue \in Seq(Pending) /\ AllKnown(queue, log, now)
      /\ log \in Logs /\ served \in [Txn -> Nat] /\ now \in Nat /\ OneTransferAtATime
  BY TimeAssumption DEF RInv, IInv, BusInv, BusTypeOK, Logs, Arrival, Accept, MayArrive
<1>2. IInv'
  BY ArrivalInv DEF RInv
<1>3. HalfInv(h, Exempt) /\ h.ends = ends /\ h.at = at
  BY <1>1, AcceptedHalf DEF Accepted, Half
<1> DEFINE p == NewPending(t, at)
<1>4. h.log = Emit(log, {t}, "Arrive", at) /\ h.arriving = <<p>>
  BY DEF Accepted, Half
<1>5. Keep(h) /\ \/ bus_idle /\ PickNext(h, q)
                 \/ ~bus_idle /\ KeepServing(h) /\ queue' = q
  BY DEF Arrival, Accept
<1>6. p \in Pending /\ p.tx = t
  BY <1>1, NewPendingType
<1>7. Held(Objects(queue) \cup {p}, ends, h.log, h.served)
  <2> DEFINE Q == Objects(queue)
  <2>1. Held(Q, ends, log, served)
    BY DEF RInv
  <2>2. \A r \in Q : r.tx \in Txn /\ Alive(log, r.tx)
    BY DEF RInv, WaitsOnce, Objects
  <2>3. \A e \in ends : e.pending.tx \in Txn /\ Alive(log, e.pending.tx)
    BY <1>1 DEF RInv, BusInv, BusTypeOK, QuantumEvent, Pending
  <2>4. StartsWaiting(log, h.log, Served, t, at)
    BY <1>1, <1>4, AcceptedPhases DEF RInv, Alive, Served
  <2> HIDE DEF Q, h
  <2>5. h = Accepted(t, at)
    BY DEF h
  <2> QED
    BY <1>1, <2>1, <2>2, <2>3, <2>4, <2>5, AcceptedHeld DEF Q
<1> HIDE DEF h, p
<1>8. now' = at /\ now' \in Nat /\ now' >= now
  BY <1>1, <1>3, <1>5 DEF Keep
<1>9. h.log \in Logs /\ AllKnown(h.arriving, h.log, h.at) /\ h.arriving \in Seq(Pending)
      /\ Continues(log, h.log)
  BY <1>3 DEF HalfInv, HalfStep
<1>10. t \notin Served
  BY <1>1 DEF RInv, Alive, Served
<1>11. StartsWaiting(log, h.log, Served, t, at)
  BY <1>1, <1>4, <1>10, AcceptedPhases
<1>12. \A i \in DOMAIN queue : queue[i].tx \in Txn \ {t} /\ queue[i].tx \notin Served
  BY <1>1 DEF RInv, WaitsOnce, Alive
<1>13. WaitsOnce(queue, h.log, Served)
  BY <1>11, <1>12, WaitsOnceStays DEF RInv, StartsWaiting
<1>14. WaitsOnce(q, h.log, Served)
  <2>1. \A i \in DOMAIN queue : queue[i].tx # p.tx
    BY <1>6, <1>12
  <2>2. WaitsOnce(queue \o <<p>>, h.log, Served)
    BY <1>1, <1>6, <1>10, <1>11, <1>13, <2>1, WaitsOnceAppend DEF StartsWaiting
  <2> QED
    BY <1>4, <2>2 DEF OnArrive
<1>15. q \in Seq(Pending) /\ AllKnown(q, h.log, h.at)
  <2>1. AllKnown(queue, h.log, h.at)
    BY <1>1, <1>3, <1>9, AllKnownContinues
  <2> QED
    BY <1>1, <1>9, <2>1, ConcatKnown DEF OnArrive
<1>16. Held(Objects(q), ends, h.log, h.served)
  <2>1. Objects(q) = Objects(queue) \cup Objects(h.arriving)
    BY <1>1, <1>9, ConcatObjects DEF OnArrive
  <2>2. Objects(h.arriving) = {p}
    BY <1>4, <1>6, SingletonObjects
  <2> QED
    BY <1>7, <2>1, <2>2
<1> HIDE DEF q
<1>17. Went(h) => StepIs /\ Went(Accepted(t, at))
  BY <1>1 DEF h, StepIs
<1>18. CASE bus_idle /\ PickNext(h, q)
  <2>1. ends = {} /\ Served = {}
    BY <1>1, <1>18 DEF OneTransferAtATime, Served
  <2>2. PickNextRefines(h, q)
    BY <1>3, <1>14, <1>15, <1>18, <2>1, PickNextContract
  <2>3. Held(Objects(queue'), ends', log', served')
    <3>1. WaitsOnce(q, h.log, {}) /\ Held(Objects(q), {}, h.log, h.served)
      BY <1>16, <1>14, <2>1
    <3> QED
      BY <1>3, <1>5, <2>2, <3>1, PickedHeld
  <2>4. RInv'
    BY <1>2, <2>2, <2>3 DEF RInv, PickNextRefines, GoesOn
  <2>5. Went(h)
    <3>1. WaitsOnce(q, h.log, {}) /\ Held(Objects(q), {}, h.log, h.served)
      BY <1>16, <1>14, <2>1
    <3> QED
      BY <1>5, <2>2, <3>1, PickedWent
  <2>6. Contract!Next
    BY <1>3, <1>8, <1>11, <2>1, <2>2, IdleIssue DEF PickNextRefines
  <2> QED
    BY <1>17, <2>4, <2>5, <2>6
<1>19. CASE ~bus_idle /\ KeepServing(h) /\ queue' = q
  <2>1. log' = h.log /\ ends' = ends /\ Served' = Served /\ served' = h.served
    BY <1>3, <1>5, <1>19 DEF Keep, KeepServing, Served
  <2>2. ASSUME NEW e \in ends
        PROVE  /\ e.pending.tx \in Txn \ {t} /\ e.pending.tx \in Served
               /\ Alive(log, e.pending.tx) /\ Alive(h.log, e.pending.tx)
    <3>1. e.pending.tx \in Txn
      BY <1>1 DEF BusInv, BusTypeOK, QuantumEvent, Pending
    <3>2. e.pending.tx \in Txn \ {t} /\ e.pending.tx \in Served /\ Alive(log, e.pending.tx)
      BY <1>10, <3>1 DEF RInv, Served
    <3> QED
      BY <1>11, <3>2 DEF StartsWaiting, Alive, LastOf
  <2>3. RInv'
    BY <1>2, <1>14, <1>19, <1>16, <2>1, <2>2 DEF RInv
  <2>4. PICK e \in ends : TRUE
    BY <1>1, <1>19 DEF OneTransferAtATime
  <2>5. Contract!Next
    BY <1>8, <1>11, <2>1, <2>2, <2>4, BusyIssue
  <2>6. Went(h)
    BY <1>3, <1>5, <1>19 DEF Went
  <2> QED
    BY <1>17, <2>3, <2>5, <2>6
<1> QED
  BY <1>5, <1>18, <1>19

\* on_arrive() after a slice: what is handed back waits nowhere else.
LEMMA QuantumEndWaits ==
  ASSUME RInv, NEW e \in ends, NEW h, h = Ended(e), NEW q, q = OnArrive(queue, h.arriving)
  PROVE  /\ HalfInv(h, Exempt) /\ h.ends = {}
         /\ q \in Seq(Pending) /\ AllKnown(q, h.log, h.at) /\ WaitsOnce(q, h.log, {})
         /\ e.pending.tx \in Txn /\ Served = {e.pending.tx} /\ EndsQuantum(h, e.pending.tx)
         /\ Held(Objects(q), {}, h.log, h.served)
<1> DEFINE t == e.pending.tx
<1>1. /\ BusInv(Exempt) /\ HalfInv(h, Exempt) /\ h.ends = {} /\ OneTransferAtATime
      /\ queue \in Seq(Pending) /\ AllKnown(queue, log, now) /\ log \in Logs /\ now \in Nat
  BY EndedHalf DEF RInv, IInv, BusInv, BusTypeOK, Logs
<1>2. Alive(log, t) /\ Served = {t}
  BY <1>1 DEF RInv, OneTransferAtATime, Served
<1>3. t \in Txn /\ h.at = e.at /\ EndsQuantum(h, t)
  BY <1>1, <1>2, EndedPhases
<1> HIDE DEF t
<1>4. /\ h.arriving \in Seq(Pending) /\ AllKnown(h.arriving, h.log, h.at)
      /\ h.log \in Logs /\ Continues(log, h.log) /\ h.at \in Nat /\ now <= h.at
  BY <1>1 DEF HalfInv, HalfStep, BusInv, BusTypeOK
<1>5. WaitsOnce(queue, h.log, {}) /\ \A i \in DOMAIN queue : queue[i].tx # t
  <2>1. \A i \in DOMAIN queue : queue[i].tx \in Txn \ {t}
    BY <1>2 DEF RInv, WaitsOnce
  <2>2. \A i \in DOMAIN queue : h.log[queue[i].tx] = log[queue[i].tx] /\ queue[i].tx \notin {}
    BY <1>3, <2>1 DEF EndsQuantum, LeavesBus
  <2> QED
    BY <2>1, <2>2, WaitsOnceStays DEF RInv
<1>6. WaitsOnce(q, h.log, {})
  <2>1. CASE h.arriving = <<>>
    <3>1. q = queue
      BY <1>1, <2>1, ConcatEmptySeq DEF OnArrive
    <3> QED
      BY <1>5, <3>1
  <2>2. CASE Alive(h.log, t) /\ \E p \in Pending : p.tx = t /\ h.arriving = <<p>>
    <3>1. PICK p \in Pending : p.tx = t /\ h.arriving = <<p>>
      BY <2>2
    <3>2. WaitsOnce(queue \o <<p>>, h.log, {})
      BY <1>1, <1>5, <2>2, <3>1, WaitsOnceAppend
    <3> QED
      BY <3>1, <3>2 DEF OnArrive
  <2> QED
    BY <1>3, <2>1, <2>2 DEF EndsQuantum
<1>7. q \in Seq(Pending) /\ AllKnown(q, h.log, h.at)
  <2>1. AllKnown(queue, h.log, h.at)
    BY <1>1, <1>4, AllKnownContinues
  <2> QED
    BY <1>1, <1>4, <2>1, ConcatKnown DEF OnArrive
<1>8. Held(Objects(q), {}, h.log, h.served)
  <2> DEFINE Q == Objects(queue)
  <2> DEFINE R == Objects(h.arriving)
  <2>1. Objects(q) = Q \cup R
    BY <1>1, <1>4, ConcatObjects DEF OnArrive
  <2>2. Held(Q, ends, log, served) /\ t = e.pending.tx
    BY DEF RInv, t
  <2>3. \A p \in Q : p.tx \in Txn \ {t}
    BY <1>2 DEF RInv, WaitsOnce, Objects
  <2>4. HandsOver(h, R)
    BY EmptyObjects, SingletonObjects DEF HandsOver
  <2> HIDE DEF Q, R
  <2> QED
    BY <1>1, <1>3, <2>1, <2>2, <2>3, <2>4, EndedHeld
<1> QED
  BY <1>1, <1>2, <1>3, <1>6, <1>7, <1>8 DEF t

LEMMA QuantumEndRefines ==
  ASSUME RInv, QuantumEnd
  PROVE  RInv' /\ Contract!Next /\ StepIs /\ \E f \in ends : Went(Ended(f))
<1>1. PICK e \in ends : /\ Keep(Ended(e))
                        /\ PickNext(Ended(e), OnArrive(queue, Ended(e).arriving))
  BY DEF QuantumEnd
<1> DEFINE h == Ended(e)
<1> DEFINE q == OnArrive(queue, h.arriving)
<1> DEFINE t == e.pending.tx
<1>2. /\ HalfInv(h, Exempt) /\ h.ends = {}
      /\ q \in Seq(Pending) /\ AllKnown(q, h.log, h.at) /\ WaitsOnce(q, h.log, {})
      /\ t \in Txn /\ Served = {t} /\ EndsQuantum(h, t)
      /\ Held(Objects(q), {}, h.log, h.served)
  BY QuantumEndWaits
<1>3. Keep(h) /\ PickNext(h, q)
  BY <1>1
<1>4. IInv'
  BY QuantumEndInv DEF RInv
<1> HIDE DEF h, q, t
<1>5. PickNextRefines(h, q)
  BY <1>2, <1>3, PickNextContract
<1>6. Held(Objects(queue'), ends', log', served')
  BY <1>2, <1>3, <1>5, PickedHeld
<1>7. RInv'
  BY <1>4, <1>5, <1>6 DEF RInv, PickNextRefines, GoesOn
<1>8. now' = h.at /\ now' \in Nat /\ now' >= now
  BY <1>2, <1>3 DEF Keep, HalfInv, HalfStep
<1>9. Contract!Next
  BY <1>2, <1>5, <1>8, EndStep DEF PickNextRefines
<1>10. Went(h)
  BY <1>2, <1>3, <1>5, PickedWent
<1>11. StepIs /\ \E f \in ends : Went(Ended(f))
  BY <1>10 DEF StepIs, h
<1> QED
  BY <1>7, <1>9, <1>11

LEMMA StepRefines == RInv /\ [Next]_vars => RInv' /\ [Contract!Next]_(Contract!vars)
<1> SUFFICES ASSUME RInv, [Next]_vars
             PROVE  RInv' /\ [Contract!Next]_(Contract!vars)
  OBVIOUS
<1>1. CASE \E t \in Txn, at \in 0..MaxTime : Arrival(t, at)
  BY <1>1, ArrivalRefines
<1>2. CASE QuantumEnd
  BY <1>2, QuantumEndRefines
<1>3. CASE UNCHANGED vars
  <2>1. IInv'
    BY NextInv DEF RInv
  <2>2. now' = now /\ queue' = queue /\ log' = log /\ ends' = ends /\ served' = served
    BY <1>3 DEF vars
  <2>3. UNCHANGED Contract!vars /\ Served' = Served
    BY <2>2, StutterContract
  <2> QED
    BY <2>1, <2>2, <2>3 DEF RInv
<1> QED
  BY <1>1, <1>2, <1>3 DEF Next

(***************************************************************************)
(* What a traffic generator may rely on, whatever the configuration and    *)
(* the transactions: a transaction handed to accept() is in one place, is  *)
(* served alone, ends once, and is given up only when it is late.          *)
(***************************************************************************)
THEOREM KeepsContract == Spec => ImplementsBusContract
<1> QED
  BY InitRefines, StepRefines, PTL DEF Spec, ImplementsBusContract, Contract!Spec
-----------------------------------------------------------------------------
\* pick_next() brings everything it leaves in the queue at least one place forward.
LEMMA PickNextAdvances ==
  ASSUME NEW h, NEW q \in Seq(Pending), NEW lg, NEW B, WaitsOnce(q, lg, B), PickNext(h, q),
         NEW i \in DOMAIN q, NEW j \in DOMAIN queue', q[i].tx = queue'[j].tx
  PROVE  j <= i - 1
<1>1. PICK n \in 0..Len(q) :
        \/ NobodyLeft(q, n) /\ queue' = SubSeq(q, n + 1, Len(q))
        \/ queue' = QueueAfterPick(q, n)
  BY DEF PickNext
<1> DEFINE len == Len(q)
<1>2. len \in Nat /\ n \in 0..len /\ DOMAIN q = 1..len
  BY <1>1, LenProperties
<1>3. queue' # <<>>
  OBVIOUS
<1>4. queue' = SubSeq(q, n + 2, Len(q))
  <2>1. CASE NobodyLeft(q, n) /\ queue' = SubSeq(q, n + 1, Len(q))
    <3>1. n + 1 \in Int /\ Len(q) \in Int /\ Len(q) < n + 1
      BY <1>2, <2>1 DEF NobodyLeft
    <3>2. queue' = <<>>
      BY <2>1, <3>1, SubSeqEmpty
    <3> QED
      BY <1>3, <3>2
  <2> QED
    BY <1>1, <2>1 DEF QueueAfterPick
<1> HIDE DEF len
<1>5. n + 2 \in Nat \ {0} /\ n \in Nat /\ i \in Nat
  BY <1>2
<1> DEFINE m == n + 2
<1>6. m \in Nat \ {0} /\ queue' = SubSeq(q, m, Len(q))
  BY <1>4, <1>5
<1> HIDE DEF m
<1>7. j \in Nat /\ m + j - 1 \in DOMAIN q /\ queue'[j] = q[m + j - 1]
  BY <1>6, SuffixPlaces
<1>8. m + j - 1 = i
  BY <1>7 DEF WaitsOnce
<1> QED
  BY <1>5, <1>7, <1>8 DEF m

(***************************************************************************)
(* No slice of another transaction and no arrival puts a waiting           *)
(* transaction back, however many there are: n ahead of it cost it at most *)
(* n quanta.                                                               *)
(***************************************************************************)
THEOREM PlacesOnlyAdvance == Spec => NeverOvertaken
<1> DEFINE Step(i, j) == j <= i - (IF bus_idle' \/ ends' = ends THEN 0 ELSE 1)
<1>1. ASSUME RInv, [Next]_vars, NEW i \in DOMAIN queue, NEW j \in DOMAIN queue',
             queue[i].tx = queue'[j].tx
      PROVE  vars' = vars \/ Step(i, j)
  <2> DEFINE len == Len(queue)
  <2>1. queue \in Seq(Pending) /\ len \in Nat /\ DOMAIN queue = 1..len
    BY <1>1, LenProperties DEF RInv, IInv
  <2>2. i \in 1..len /\ i \in Nat
    BY <1>1, <2>1
  <2>3. ASSUME NEW r \in Seq(Pending), NEW q, q = queue \o r
        PROVE  q \in Seq(Pending) /\ i \in DOMAIN q /\ q[i] = queue[i]
    <3>1. /\ q \in Seq(Pending)
          /\ Len(q) = Len(queue) + Len(r)
          /\ \A k \in 1..(Len(queue) + Len(r)) :
               q[k] = IF k <= Len(queue) THEN queue[k] ELSE r[k - Len(queue)]
      BY <2>1, <2>3, ConcatProperties
    <3>2. Len(r) \in Nat /\ DOMAIN q = 1..Len(q)
      BY <2>3, <3>1, LenProperties
    <3>3. i \in 1..(Len(queue) + Len(r)) /\ i <= Len(queue)
      BY <2>1, <2>2, <3>2
    <3> QED
      BY <3>1, <3>2, <3>3
  <2> HIDE DEF len
  <2>4. CASE \E t \in Txn, at \in 0..MaxTime : Arrival(t, at)
    <3>1. PICK t \in Txn, at \in 0..MaxTime : Arrival(t, at)
      BY <2>4
    <3>2. queue # <<>>
      BY <1>1
    <3>3. ~bus_idle /\ queue' = OnArrive(queue, Accepted(t, at).arriving) /\ ends' = ends
      <4>1. ~bus_idle
        BY <1>1, <3>2 DEF RInv, IInv, WorkConserving
      <4>2. Accepted(t, at).ends = ends
        BY DEF Accepted, Half
      <4> QED
        BY <3>1, <4>1, <4>2 DEF Arrival, Accept, KeepServing
    <3>4. RInv'
      BY <1>1, <3>1, ArrivalRefines
    <3> DEFINE r == Accepted(t, at).arriving
    <3>5. r \in Seq(Pending)
      <4>1. at \in Nat
        BY TimeAssumption
      <4> QED
        BY <4>1, NewPendingType, SingletonSeq DEF Accepted, Half
    <3> HIDE DEF r
    <3>6. i \in DOMAIN queue' /\ queue'[i] = queue[i]
      BY <2>3, <3>3, <3>5 DEF OnArrive, r
    <3>7. i = j
      BY <1>1, <3>6, <3>4 DEF RInv, WaitsOnce
    <3> QED
      BY <2>2, <3>3, <3>7
  <2>5. CASE QuantumEnd
    <3>1. PICK e \in ends : PickNext(Ended(e), OnArrive(queue, Ended(e).arriving))
      BY <2>5 DEF QuantumEnd
    <3>2. RInv /\ QuantumEnd
      BY <1>1, <2>5
    <3> DEFINE r == Ended(e).arriving
    <3> DEFINE q == OnArrive(queue, r)
    <3>3. r \in Seq(Pending)
      BY <1>1, EndedHalf DEF RInv, IInv, HalfInv, HalfStep
    <3>4. WaitsOnce(q, Ended(e).log, {})
      BY <1>1, QuantumEndWaits
    <3>5. q \in Seq(Pending) /\ i \in DOMAIN q /\ q[i] = queue[i]
      BY <2>3, <3>3 DEF OnArrive
    <3> HIDE DEF q
    <3>6. j <= i - 1
      BY <1>1, <3>1, <3>4, <3>5, PickNextAdvances DEF q
    <3>7. j \in Int
      BY <1>1, <3>2, QuantumEndRefines, LenProperties DEF RInv, IInv
    <3> QED
      BY <2>2, <3>6, <3>7
  <2> QED
    BY <1>1, <2>4, <2>5 DEF Next
<1>2. RInv /\ [Next]_vars =>
        [\A i \in DOMAIN queue : \A j \in DOMAIN queue' :
           queue[i].tx = queue'[j].tx => Step(i, j)]_vars
  BY <1>1
<1> QED
  BY <1>2, InitRefines, StepRefines, PTL DEF Spec, NeverOvertaken
-----------------------------------------------------------------------------
LEMMA HeldOnce == RInv => NothingLost
<1> SUFFICES ASSUME RInv
             PROVE  NothingLost
  OBVIOUS
<1>1. /\ Held(Objects(queue), ends, log, served) /\ WaitsOnce(queue, log, Served)
      /\ queue \in Seq(Pending) /\ AllKnown(queue, log, now) /\ BusInv(Exempt)
  BY DEF RInv, IInv
<1>2. /\ \A e, f \in ends : e = f
      /\ \A e \in ends : e.pending \in Pending /\ Known(e.pending, log, now)
  BY <1>1 DEF BusInv, BusTypeOK, OneTransferAtATime, QuantumEvent
<1>3. \A i \in DOMAIN queue : AgreesWithTrace(queue[i])
  <2>1. ASSUME NEW i \in DOMAIN queue
        PROVE  AgreesWithTrace(queue[i])
    <3>1. queue[i] \in Pending /\ Known(queue[i], log, now) /\ Agrees(queue[i], log, served)
      BY <1>1, LenProperties DEF AllKnown, Held, Objects
    <3> QED
      BY <3>1, AgreesIs
  <2> QED
    BY <2>1
<1>4. \A e \in ends : AgreesWithTrace(e.pending)
  BY <1>1, <1>2, AgreesIs DEF Held
<1>5. ASSUME NEW t \in Txn
      PROVE  Cardinality(OnBusAs(t)) + Cardinality(PlacesOf(t, queue))
               = IF Outstanding(t) THEN 1 ELSE 0
  <2> DEFINE onBus == OnBusAs(t)
  <2> DEFINE places == PlacesOf(t, queue)
  <2>1. Outstanding(t) <=> Alive(log, t)
    BY DEF Outstanding, Last, Alive, LastOf
  <2>2. \A p, r \in onBus : p = r
    BY <1>2 DEF OnBusAs
  <2>3. \A i, j \in places : i = j
    BY <1>1 DEF PlacesOf, WaitsOnce
  <2>4. onBus # {} <=> \E e \in ends : e.pending.tx = t
    BY DEF OnBusAs
  <2>5. places # {} <=> \E i \in DOMAIN queue : queue[i].tx = t
    BY DEF PlacesOf
  <2>6. onBus # {} => places = {}
    BY <1>1, <2>4, <2>5 DEF WaitsOnce, Served
  <2>7. Alive(log, t) <=> onBus # {} \/ places # {}
    <3>1. Alive(log, t) => onBus # {} \/ places # {}
      BY <1>1, <2>4, <2>5 DEF Held, Objects
    <3>2. places # {} => Alive(log, t)
      BY <1>1, <2>5 DEF WaitsOnce
    <3>3. onBus # {} => Alive(log, t)
      BY <2>4 DEF RInv
    <3> QED
      BY <3>1, <3>2, <3>3
  <2> HIDE DEF onBus, places
  <2>8. /\ Cardinality(onBus) = IF onBus = {} THEN 0 ELSE 1
        /\ Cardinality(places) = IF places = {} THEN 0 ELSE 1
    BY <2>2, <2>3, OnePlace
  <2> QED
    BY <2>1, <2>6, <2>7, <2>8 DEF onBus, places
<1> QED
  BY <1>3, <1>4, <1>5 DEF NothingLost

(***************************************************************************)
(* No PendingTxn is lost or duplicated on its way between the queue and    *)
(* the closures of quantum-end events, and the object in hand always says  *)
(* what the trace and the bytes moved say.                                 *)
(***************************************************************************)
THEOREM NoneLost == Spec => []NothingLost
<1>1. Spec => []RInv
  BY InitRefines, StepRefines, PTL DEF Spec
<1> QED
  BY <1>1, HeldOnce, PTL

-----------------------------------------------------------------------------
\* The invariant that carries the trace: RInv says what is waiting and on the bus.
LInv == RInv /\ TraceInv

LEMMA InitTrace == Init => LInv
BY InitRefines, TraceInit DEF LInv, Init

LEMMA NextTrace == LInv /\ [Next]_vars => LInv'
<1> SUFFICES ASSUME RInv, TraceInv, [Next]_vars
             PROVE  RInv' /\ TraceInv'
  BY DEF LInv
<1>1. RInv'
  BY StepRefines
<1>2. BusInv(Exempt) /\ BusHeld
  BY DEF RInv, IInv, Held, BusHeld
<1>3. CASE \E t \in Txn, at \in 0..MaxTime : Arrival(t, at)
  <2>1. StepIs
    BY <1>3, ArrivalRefines
  <2> QED
    BY <1>1, <1>2, <2>1, TraceStep
<1>4. CASE QuantumEnd
  <2>1. StepIs
    BY <1>4, QuantumEndRefines
  <2> QED
    BY <1>1, <1>2, <2>1, TraceStep
<1>5. CASE UNCHANGED vars
  <2>1. UNCHANGED busVars
    BY <1>5 DEF vars, busVars
  <2> QED
    BY <1>1, <2>1, TraceStutter
<1> QED
  BY <1>3, <1>4, <1>5 DEF Next

LEMMA TraceHolds == LInv => TraceWellFormed /\ KpiMatchesTrace
<1> SUFFICES ASSUME LInv
             PROVE  TraceWellFormed /\ KpiMatchesTrace
  OBVIOUS
<1>1. BusTypeOK /\ TraceInv
  BY DEF LInv, RInv, IInv, BusInv
<1> QED
  BY <1>1, TraceIs

\* However often a transaction went round the queue, the slices it got add up to its
\* size, none was shorter than the bytes it moved, and its records are those of one
\* life, in the order of their dates.
THEOREM TraceRight == Spec => []TraceWellFormed
<1>1. Spec => []LInv
  BY InitTrace, NextTrace, PTL DEF Spec
<1> QED
  BY <1>1, TraceHolds, PTL

\* Under the FIFO policy every counter of the final report, the sums and maxima of
\* latencies and the costs of completed transfers included, can be recomputed from the trace.
THEOREM CountersTrue == Spec => []KpiMatchesTrace
<1>1. Spec => []LInv
  BY InitTrace, NextTrace, PTL DEF Spec
<1> QED
  BY <1>1, TraceHolds, PTL
-----------------------------------------------------------------------------
(***************************************************************************)
(* What the proofs about Simulation take from here.                        *)
(***************************************************************************)
LEMMA InitHolds == Init => RInv
BY InitRefines

LEMMA BusFacts ==
  RInv => /\ now \in Nat
          /\ \A q \in ends : q.at \in Nat /\ q.at >= now
          /\ \A q, r \in ends : q = r
BY DEF RInv, IInv, BusInv, BusTypeOK, OneTransferAtATime, QuantumEvent

\* accept() writes the first record of its transaction and of no other.
LEMMA AcceptIssues ==
  ASSUME RInv, NEW t \in Txn, NEW at \in 0..MaxTime, Arrival(t, at)
  PROVE  /\ RInv'
         /\ now' = at
         /\ log'[t] # <<>> /\ log'[t][1].at = at
         /\ \A u \in Txn \ {t} : /\ (log'[u] # <<>> <=> log[u] # <<>>)
                                /\ (log[u] # <<>> => log'[u][1] = log[u][1])
<1>1. RInv' /\ Went(Accepted(t, at))
  BY ArrivalRefines
<1>2. BusInv(Exempt) /\ at \in Nat /\ log[t] = <<>> /\ at >= now
  BY TimeAssumption DEF RInv, IInv, Arrival, MayArrive
<1> QED
  BY <1>1, <1>2, IssueWrites

LEMMA QuantumEndIssues ==
  ASSUME RInv, QuantumEnd
  PROVE  /\ RInv'
         /\ \E e \in ends : now' = e.at
         /\ \A u \in Txn : /\ (log'[u] # <<>> <=> log[u] # <<>>)
                          /\ (log[u] # <<>> => log'[u][1] = log[u][1])
<1>1. RInv' /\ \E f \in ends : Went(Ended(f))
  BY QuantumEndRefines
<1>2. BusInv(Exempt)
  BY DEF RInv, IInv
<1> QED
  BY <1>1, <1>2, EndWrites

\* Time may pass at other events, as long as no quantum end is due.
LEMMA TimePasses ==
  ASSUME RInv, now' \in Nat, now' >= now, \A e \in ends : e.at >= now',
         UNCHANGED <<bus_idle, ends, log, kpi, loaded, served, queue>>
  PROVE  RInv'
<1>1. BusInv(Exempt) /\ log \in Logs /\ now \in Nat
  BY DEF RInv, IInv, BusInv, BusTypeOK, Logs
<1>2. \A e \in ends : e.pending \in Pending
  BY <1>1 DEF BusInv, BusTypeOK, QuantumEvent
<1>3. \A e \in ends : Known(e.pending, log, now')
  BY <1>1, <1>2, KnownContinues DEF BusInv, Continues
<1>4. BusInv(Exempt)'
  <2>1. BusTypeOK'
    BY <1>1 DEF BusInv, BusTypeOK
  <2>2. OneTransferAtATime'
    BY <1>1 DEF BusInv, OneTransferAtATime
  <2>3. Honours(log', Exempt)
    BY <1>1 DEF BusInv
  <2> QED
    BY <1>3, <2>1, <2>2, <2>3 DEF BusInv
<1>5. AllKnown(queue, log, now')
  BY <1>1, AllKnownContinues DEF RInv, IInv, Continues
<1>6. IInv'
  BY <1>4, <1>5 DEF RInv, IInv, WorkConserving
<1> QED
  BY <1>6 DEF RInv, Served
=============================================================================
