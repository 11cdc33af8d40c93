------------------------- MODULE QosScheduler_proofs -------------------------
(***************************************************************************)
(* Theorems about QosScheduler, for every configuration and every set of   *)
(* transactions the assumptions admit.                                     *)
(***************************************************************************)
EXTENDS QosScheduler, SchedulerLemmas

\* pick_next() looks for late transactions in the critical queue only, and only audio
\* packets have deadlines: nobody keeps the deadline of an audio packet sent as bulk.
Exempt == {t \in Txn : ClassOf(t) \in BulkTags /\ IsAudio(t)}

\* What may wait in the queue of class c when the trace is lg and the time is `at`.
Waiting(c, lg, at) == {p \in Pending : Known(p, lg, at) /\ ClassOf(p.tx) = c}

QueuesInv(q, lg, at) ==
  /\ DOMAIN q = QosTags
  /\ q = [c \in QosTags |-> q[c]]
  /\ \A c \in QosTags : q[c] \in Seq(Waiting(c, lg, at))

AccountsInv ==
  /\ tokens \in 0..TokenCapacity
  /\ last_refill \in Nat
  /\ vfin \in [BulkTags -> Nat]

\* Stronger than what is claimed: every queue holds what the trace knows, by class.
IInv ==
  /\ BusInv(Exempt)
  /\ QueuesInv(queue, log, now)
  /\ AccountsInv
  /\ IdleOnlyWhenThrottled

-----------------------------------------------------------------------------
\* The accounts.
LEMMA SliceType ==
  ASSUME NEW p \in Pending
  PROVE  SliceBytes(p) \in Nat /\ TokenCost(p) \in Nat
<1>1. p.bytes_remaining \in Nat /\ Cfg.bus_bw * Cfg.quantum_us \in Nat
  BY QosAssumption DEF Pending
<1>2. SliceBytes(p) \in Nat
  BY <1>1 DEF SliceBytes, Smaller
<1> QED
  BY <1>2 DEF TokenCost

LEMMA ProductNat ==
  ASSUME NEW a \in Nat, NEW b \in Nat
  PROVE  a * b \in Nat
OBVIOUS

LEMMA VirtualCostType ==
  ASSUME NEW p \in Pending, NEW c \in BulkTags
  PROVE  VirtualCost(p, c) \in Nat
<1> DEFINE other == CHOOSE d \in BulkTags : d # c
<1>1. \E d \in BulkTags : d # c
  BY DEF BulkTags
<1>2. other \in BulkTags
  BY <1>1
<1> HIDE DEF other
<1>3. Weight(other) \in Nat /\ SliceBytes(p) \in Nat
  BY <1>2, SliceType, QosAssumption
<1>4. SliceBytes(p) * Weight(other) \in Nat
  BY <1>3, ProductNat
<1> QED
  BY <1>4 DEF VirtualCost, other

\* The bucket never holds less than nothing, nor more than its capacity.
LEMMA RefilledType ==
  ASSUME AccountsInv, NEW at \in Nat
  PROVE  Refilled(at) \in 0..TokenCapacity
<1>1. /\ TokenCapacity \in Nat /\ TokenRefill \in Nat
      /\ tokens \in 0..TokenCapacity /\ last_refill \in Nat
  BY QosAssumption DEF AccountsInv
<1>2. CASE at > last_refill
  <2>1. at - last_refill \in Nat
    BY <1>1, <1>2
  <2>2. (at - last_refill) * TokenRefill \in Nat
    BY <1>1, <2>1, ProductNat
  <2>3. tokens + (at - last_refill) * TokenRefill \in Nat
    BY <1>1, <2>2
  <2> QED
    BY <1>1, <1>2, <2>3 DEF Refilled, Smaller
<1>3. CASE ~(at > last_refill)
  BY <1>1, <1>3 DEF Refilled
<1> QED
  BY <1>2, <1>3

LEMMA SpendType ==
  ASSUME NEW p \in Pending, NEW tok \in 0..TokenCapacity, tok >= TokenCost(p)
  PROVE  Spend(tok, p) \in 0..TokenCapacity
<1>1. TokenCost(p) \in Nat /\ TokenCapacity \in Nat
  BY SliceType, QosAssumption
<1> QED
  BY <1>1 DEF Spend

-----------------------------------------------------------------------------
\* The queues.
LEMMA QueuesContinue ==
  ASSUME NEW q, NEW l1 \in Logs, NEW l2 \in Logs, NEW a1 \in Nat, NEW a2 \in Nat,
         QueuesInv(q, l1, a1), Continues(l1, l2), a1 <= a2
  PROVE  QueuesInv(q, l2, a2)
<1>1. ASSUME NEW c \in QosTags
      PROVE  q[c] \in Seq(Waiting(c, l2, a2))
  <2>1. Waiting(c, l1, a1) \subseteq Waiting(c, l2, a2)
    BY KnownContinues DEF Waiting
  <2>2. q[c] \in Seq(Waiting(c, l1, a1))
    BY DEF QueuesInv
  <2> QED
    BY <2>1, <2>2, SeqMonotonic
<1> QED
  BY <1>1 DEF QueuesInv

\* One queue of all is replaced by another that may wait there.
LEMMA QueuesExcept ==
  ASSUME NEW q, NEW lg, NEW at, QueuesInv(q, lg, at),
         NEW c \in QosTags, NEW s \in Seq(Waiting(c, lg, at))
  PROVE  QueuesInv([q EXCEPT ![c] = s], lg, at)
BY DEF QueuesInv

LEMMA WaitingIsPending ==
  ASSUME NEW c, NEW lg, NEW at, NEW s \in Seq(Waiting(c, lg, at))
  PROVE  s \in Seq(Pending) /\ AllKnown(s, lg, at)
<1>1. Waiting(c, lg, at) \subseteq Pending
  BY DEF Waiting
<1>2. s \in Seq(Pending)
  BY <1>1, SeqMonotonic
<1>3. \A i \in DOMAIN s : s[i] \in Waiting(c, lg, at)
  BY LenProperties, ElementOfSeq
<1>4. AllKnown(s, lg, at)
  BY <1>3 DEF AllKnown, Waiting
<1> QED
  BY <1>2, <1>4

\* on_arrive() puts a transaction behind those of its class.
LEMMA OnArriveInv ==
  ASSUME NEW q, NEW lg, NEW at, QueuesInv(q, lg, at),
         NEW arriving \in Seq(Pending), Len(arriving) <= 1, AllKnown(arriving, lg, at)
  PROVE  QueuesInv(OnArrive(q, arriving), lg, at)
<1>1. CASE arriving = <<>>
  BY <1>1 DEF OnArrive
<1>2. CASE arriving # <<>>
  <2> DEFINE p == arriving[1]
  <2> DEFINE c == ClassOf(p.tx)
  <2>1. Len(arriving) = 1 /\ DOMAIN arriving = 1..1
    <3> DEFINE len == Len(arriving)
    <3>1. len \in Nat \ {0} /\ len <= 1 /\ DOMAIN arriving = 1..len
      BY <1>2, EmptySeq, LenProperties
    <3> HIDE DEF len
    <3>2. len = 1
      BY <3>1
    <3> QED
      BY <3>1, <3>2 DEF len
  <2>2. p \in Pending /\ Known(p, lg, at)
    BY <2>1, LenProperties DEF AllKnown
  <2>3. c \in QosTags
    BY <2>2, TxnAssumption DEF ClassOf, Pending
  <2>4. p \in Waiting(c, lg, at)
    BY <2>2 DEF Waiting
  <2>5. arriving \in Seq(Waiting(c, lg, at))
    <3>1. \A i \in 1..1 : arriving[i] \in Waiting(c, lg, at)
      BY <2>4
    <3>2. SubSeq(arriving, 1, 1) \in Seq(Waiting(c, lg, at))
      BY <3>1, SubSeqProperties
    <3> QED
      BY <2>1, <3>2, SubSeqFull
  <2>6. q[c] \in Seq(Waiting(c, lg, at))
    BY <2>3 DEF QueuesInv
  <2>7. q[c] \o arriving \in Seq(Waiting(c, lg, at))
    BY <2>5, <2>6, ConcatProperties
  <2> DEFINE s == q[c] \o arriving
  <2>8. OnArrive(q, arriving) = [q EXCEPT ![c] = s]
    BY <1>2 DEF OnArrive
  <2>9. s \in Seq(Waiting(c, lg, at))
    BY <2>7
  <2> HIDE DEF c, s
  <2>10. QueuesInv([q EXCEPT ![c] = s], lg, at)
    BY <2>3, <2>9, QueuesExcept
  <2> QED
    BY <2>8, <2>10
<1> QED
  BY <1>1, <1>2

LEMMA PopFrontInv ==
  ASSUME NEW q, NEW lg, NEW at, QueuesInv(q, lg, at), NEW c \in QosTags, q[c] # <<>>
  PROVE  Head(q[c]) \in Waiting(c, lg, at) /\ QueuesInv(PopFront(q, c), lg, at)
<1>1. q[c] \in Seq(Waiting(c, lg, at))
  BY DEF QueuesInv
<1>2. Head(q[c]) \in Waiting(c, lg, at) /\ Tail(q[c]) \in Seq(Waiting(c, lg, at))
  BY <1>1, HeadTailProperties
<1> DEFINE s == Tail(q[c])
<1>3. PopFront(q, c) = [q EXCEPT ![c] = s] /\ s \in Seq(Waiting(c, lg, at))
  BY <1>2 DEF PopFront
<1> HIDE DEF s
<1>4. QueuesInv([q EXCEPT ![c] = s], lg, at)
  BY <1>3, QueuesExcept
<1> QED
  BY <1>2, <1>3, <1>4

\* What remains behind the stale prefix of the critical queue.
LEMMA RestOfCritical ==
  ASSUME NEW q, NEW lg, NEW at, QueuesInv(q, lg, at),
         NEW n, n \in 0..Len(q["critical"]), StalePrefix(q["critical"], n, at),
         NEW rest, rest = SubSeq(q["critical"], n + 1, Len(q["critical"]))
  PROVE  /\ QueuesInv([q EXCEPT !["critical"] = rest], lg, at)
         /\ rest # <<>> => ~Stale(Head(rest), at)
<1> DEFINE s == q["critical"]
<1> DEFINE len == Len(s)
<1> DEFINE S == Waiting("critical", lg, at)
<1>1. "critical" \in QosTags
  BY DEF QosTags
<1>2. s \in Seq(S)
  BY <1>1 DEF QueuesInv
<1>3. len \in Nat /\ \A i \in 1..len : s[i] \in S
  BY <1>2, LenProperties
<1>4. n \in 0..len /\ StalePrefix(s, n, at) /\ rest = SubSeq(s, n + 1, len)
  OBVIOUS
<1>5. n < len => ~Stale(s[n + 1], at)
  BY <1>4 DEF StalePrefix
<1> HIDE DEF s, S, len
<1>6. n \in Nat /\ n + 1 \in Int /\ len \in Int /\ \A i \in (n + 1)..len : s[i] \in S
  BY <1>3, <1>4
<1>7. rest \in Seq(S)
  BY <1>4, <1>6, SubSeqProperties
<1>8. QueuesInv([q EXCEPT !["critical"] = rest], lg, at)
  BY <1>1, <1>7, QueuesExcept DEF S
<1>9. ASSUME rest # <<>>
      PROVE  ~Stale(Head(rest), at)
  <2>1. ~(len < n + 1)
    BY <1>4, <1>6, <1>9, SubSeqEmpty
  <2>2. n < len /\ n + 1 \in 1..len /\ len \in (n + 1)..len
    BY <1>3, <1>6, <2>1
  <2>3. Head(rest) = s[n + 1]
    BY <1>2, <1>4, <2>2, HeadTailOfSubSeq DEF len
  <2> QED
    BY <1>5, <2>2, <2>3
<1> QED
  BY <1>8, <1>9

\* A bulk transaction is not late, or nobody keeps its deadline.
LEMMA BulkNotStale ==
  ASSUME NEW c \in BulkTags, NEW lg, NEW at, NEW p \in Waiting(c, lg, at)
  PROVE  p.tx \in Exempt \/ ~Stale(p, at)
<1>1. p.tx \in Txn /\ ClassOf(p.tx) = c /\ p.deadline = DeadlineOf(p.tx, lg[p.tx][1].at)
  BY DEF Waiting, Known, Pending
<1>2. CASE IsAudio(p.tx)
  BY <1>1, <1>2 DEF Exempt
<1>3. CASE ~IsAudio(p.tx)
  <2>1. p.deadline = 0
    BY <1>1, <1>3 DEF DeadlineOf, IsAudio
  <2> QED
    BY <2>1 DEF Stale, PastDeadline
<1> QED
  BY <1>2, <1>3

-----------------------------------------------------------------------------
\* pick_next() and what start_service_if_idle() does with its result.
LEMMA PickNextInv ==
  ASSUME BusInv(Exempt), AccountsInv, NEW h, HalfInv(h, Exempt), h.ends = {}, Keep(h),
         NEW q, QueuesInv(q, h.log, h.at), PickNext(h, q)
  PROVE  IInv'
<1>1. h.at \in Nat /\ h.log \in Logs /\ now' = h.at
  BY DEF HalfInv, HalfStep, Keep
<1> DEFINE critical == q["critical"]
<1>2. PICK n \in 0..Len(critical) :
        LET dropped == TxnsOf(SubSeq(critical, 1, n))
            rest    == SubSeq(critical, n + 1, Len(critical))
            q1      == [q EXCEPT !["critical"] = rest]
            tok     == Refilled(h.at)
        IN /\ StalePrefix(critical, n, h.at)
           /\ last_refill' = Larger(last_refill, h.at)
           /\ \/ Affordable(rest, tok) /\ TakeCritical(h, q1, dropped, tok)
              \/ /\ ~Affordable(rest, tok)
                 /\ \E c \in PreferredBulk(q1) : TakeBulk(h, q1, dropped, tok, c)
              \/ /\ ~Affordable(rest, tok)
                 /\ PreferredBulk(q1) = {}
                 /\ TakeNone(h, q1, dropped, tok)
  BY DEF PickNext
<1> DEFINE dropped == TxnsOf(SubSeq(critical, 1, n))
<1> DEFINE rest == SubSeq(critical, n + 1, Len(critical))
<1> DEFINE q1 == [q EXCEPT !["critical"] = rest]
<1> DEFINE tok == Refilled(h.at)
<1>3. StalePrefix(critical, n, h.at) /\ last_refill' = Larger(last_refill, h.at)
  BY <1>2
<1>4. dropped \in SUBSET Txn /\ MayDrop(dropped, h.log, h.at, Exempt)
  <2>1. critical \in Seq(Waiting("critical", h.log, h.at))
    BY DEF QueuesInv, QosTags
  <2>2. critical \in Seq(Pending) /\ AllKnown(critical, h.log, h.at)
    BY <2>1, WaitingIsPending
  <2> HIDE DEF critical
  <2> QED
    BY <1>1, <1>3, <2>2, PrefixMayDrop
<1>5. QueuesInv(q1, h.log, h.at) /\ (rest # <<>> => ~Stale(Head(rest), h.at))
  BY <1>3, RestOfCritical
<1>6. q1["critical"] = rest
  BY DEF QueuesInv, QosTags
<1>7. tok \in 0..TokenCapacity
  BY <1>1, RefilledType
<1>8. last_refill' \in Nat
  BY <1>1, <1>3 DEF AccountsInv, Larger
<1>9. \/ Affordable(rest, tok) /\ TakeCritical(h, q1, dropped, tok)
      \/ \E c \in PreferredBulk(q1) : TakeBulk(h, q1, dropped, tok, c)
      \/ /\ ~Affordable(rest, tok)
         /\ PreferredBulk(q1) = {}
         /\ TakeNone(h, q1, dropped, tok)
  BY <1>2
<1>10. vfin \in [BulkTags -> Nat]
  BY DEF AccountsInv
<1> HIDE DEF critical, dropped, rest, q1, tok
\* A queue is popped and its head goes on the bus.
<1>11. ASSUME NEW c \in QosTags, q1[c] # <<>>, queue' = PopFront(q1, c),
              Serve(h, dropped, Head(q1[c])),
              Head(q1[c]).tx \in Exempt \/ ~Stale(Head(q1[c]), h.at),
              tokens' \in 0..TokenCapacity, vfin' \in [BulkTags -> Nat]
       PROVE  IInv'
  <2> DEFINE p == Head(q1[c])
  <2>1. p \in Waiting(c, h.log, h.at) /\ QueuesInv(queue', h.log, h.at)
    BY <1>5, <1>11, PopFrontInv
  <2>2. p \in Pending /\ Known(p, h.log, h.at) /\ (p.tx \in Exempt \/ ~Stale(p, h.at))
    BY <1>11, <2>1 DEF Waiting
  <2>3. Serve(h, dropped, p)
    BY <1>11
  <2> HIDE DEF p
  <2>4. BusInv(Exempt)' /\ Continues(h.log, log')
    BY <1>4, <2>2, <2>3, ServeBusInv
  <2>5. log' \in Logs /\ bus_idle' = FALSE
    BY <2>3, <2>4 DEF BusInv, BusTypeOK, Logs, Serve
  <2>6. QueuesInv(queue', log', now')
    BY <1>1, <2>1, <2>4, <2>5, QueuesContinue
  <2>7. AccountsInv'
    BY <1>8, <1>11 DEF AccountsInv
  <2>8. IdleOnlyWhenThrottled'
    BY <2>5 DEF IdleOnlyWhenThrottled
  <2> QED
    BY <2>4, <2>6, <2>7, <2>8 DEF IInv
<1>12. CASE Affordable(rest, tok) /\ TakeCritical(h, q1, dropped, tok)
  <2> DEFINE p == Head(q1["critical"])
  <2>1. /\ q1["critical"] # <<>>
        /\ ~Stale(p, h.at)
        /\ tok >= TokenCost(p)
    BY <1>5, <1>6, <1>12 DEF Affordable
  <2>2. "critical" \in QosTags
    BY DEF QosTags
  <2>3. p \in Pending
    BY <1>5, <2>1, <2>2, PopFrontInv DEF Waiting
  <2>4. Spend(tok, p) \in 0..TokenCapacity
    BY <1>7, <2>1, <2>3, SpendType
  <2>5. /\ queue' = PopFront(q1, "critical")
        /\ tokens' = Spend(tok, p)
        /\ vfin' = vfin
        /\ Serve(h, dropped, p)
    BY <1>12 DEF TakeCritical
  <2> QED
    BY <1>10, <1>11, <2>1, <2>2, <2>4, <2>5
<1>13. CASE \E c \in PreferredBulk(q1) : TakeBulk(h, q1, dropped, tok, c)
  <2>1. PICK c \in PreferredBulk(q1) : TakeBulk(h, q1, dropped, tok, c)
    BY <1>13
  <2> DEFINE p == Head(q1[c])
  <2>2. c \in BulkTags /\ c \in QosTags /\ q1[c] # <<>>
    BY <2>1 DEF PreferredBulk, BulkTags, QosTags
  <2>3. p \in Waiting(c, h.log, h.at)
    BY <1>5, <2>2, PopFrontInv
  <2>4. p \in Pending /\ (p.tx \in Exempt \/ ~Stale(p, h.at))
    BY <2>2, <2>3, BulkNotStale DEF Waiting
  <2>5. /\ queue' = PopFront(q1, c)
        /\ tokens' = tok
        /\ vfin' = [vfin EXCEPT ![c] = @ + VirtualCost(p, c)]
        /\ Serve(h, dropped, p)
    BY <2>1 DEF TakeBulk
  <2>6. vfin' \in [BulkTags -> Nat]
    <3>1. VirtualCost(p, c) \in Nat /\ vfin[c] \in Nat
      BY <1>10, <2>2, <2>4, VirtualCostType
    <3>2. vfin[c] + VirtualCost(p, c) \in Nat
      BY <3>1
    <3> QED
      BY <1>10, <2>5, <3>2
  <2> QED
    BY <1>7, <1>11, <2>2, <2>4, <2>5, <2>6
<1>14. CASE /\ ~Affordable(rest, tok)
            /\ PreferredBulk(q1) = {}
            /\ TakeNone(h, q1, dropped, tok)
  <2>1. queue' = q1 /\ tokens' = tok /\ vfin' = vfin /\ Rest(h, dropped)
    BY <1>14 DEF TakeNone
  <2>2. BusInv(Exempt)' /\ Continues(h.log, log')
    BY <1>4, <2>1, RestBusInv
  <2>3. log' \in Logs
    BY <2>2 DEF BusInv, BusTypeOK, Logs
  <2>4. QueuesInv(queue', log', now')
    BY <1>1, <1>5, <2>1, <2>2, <2>3, QueuesContinue
  <2>5. AccountsInv'
    BY <1>7, <1>8, <1>10, <2>1 DEF AccountsInv
  <2>6. \A c \in BulkTags : q1[c] = <<>>
    BY <1>14 DEF PreferredBulk, BulkTags
  <2>7. IdleOnlyWhenThrottled'
    BY <1>6, <1>14, <2>1, <2>6 DEF IdleOnlyWhenThrottled, Affordable
  <2> QED
    BY <2>2, <2>4, <2>5, <2>7 DEF IInv
<1> QED
  BY <1>9, <1>12, <1>13, <1>14

-----------------------------------------------------------------------------
LEMMA InitInv == Init => IInv
<1> SUFFICES ASSUME Init
             PROVE  IInv
  OBVIOUS
<1>1. /\ BusInit /\ queue = [c \in QosTags |-> <<>>] /\ tokens = TokenCapacity
      /\ last_refill = 0 /\ vfin = [c \in BulkTags |-> 0]
  BY DEF Init
<1>2. log \in [Txn -> Seq(Record)]
  BY <1>1, EmptySeq DEF BusInit
<1>3. kpi \in Kpi
  BY <1>1 DEF BusInit, ZeroKpi, Kpi
<1>4. BusTypeOK
  BY <1>1, <1>2, <1>3 DEF BusInit, BusTypeOK
<1>5. Honours(log, Exempt)
  <2>1. \A t \in Txn : DOMAIN log[t] = {}
    BY <1>1 DEF BusInit
  <2> QED
    BY <2>1 DEF Honours
<1>6. BusInv(Exempt)
  BY <1>1, <1>4, <1>5 DEF BusInit, BusInv, OneTransferAtATime
<1>7. QueuesInv(queue, log, now)
  BY <1>1, EmptySeq DEF QueuesInv
<1>8. AccountsInv
  BY <1>1, QosAssumption DEF AccountsInv
<1>9. IdleOnlyWhenThrottled
  BY <1>1 DEF IdleOnlyWhenThrottled, Affordable, BulkTags, QosTags
<1> QED
  BY <1>6, <1>7, <1>8, <1>9 DEF IInv

LEMMA ArrivalInv ==
  ASSUME IInv, NEW t \in Txn, NEW at \in 0..MaxTime, Arrival(t, at)
  PROVE  IInv'
<1> DEFINE h == Accepted(t, at)
<1> DEFINE q == OnArrive(queue, h.arriving)
<1>1. /\ BusInv(Exempt) /\ AccountsInv
      /\ log[t] = <<>> /\ at >= now /\ at \in Nat
      /\ \A e \in ends : at <= e.at
  BY TimeAssumption DEF IInv, Arrival, Accept, MayArrive
<1>2. HalfInv(h, Exempt) /\ h.ends = ends /\ h.at = at
  BY <1>1, AcceptedHalf DEF Accepted, Half
<1>3. Keep(h) /\ \/ bus_idle /\ PickNext(h, q)
                 \/ /\ ~bus_idle
                    /\ KeepServing(h)
                    /\ queue' = q
                    /\ UNCHANGED <<tokens, last_refill, vfin>>
  BY DEF Arrival, Accept
<1> HIDE DEF h
<1>4. /\ h.arriving \in Seq(Pending) /\ AllKnown(h.arriving, h.log, h.at)
      /\ Len(h.arriving) <= 1
      /\ h.log \in Logs /\ Continues(log, h.log)
  BY <1>2 DEF HalfInv, HalfStep
<1>5. QueuesInv(queue, log, now) /\ log \in Logs /\ now \in Nat
  BY <1>1 DEF IInv, BusInv, BusTypeOK, Logs
<1>6. QueuesInv(queue, h.log, h.at)
  BY <1>1, <1>2, <1>4, <1>5, QueuesContinue
<1>7. QueuesInv(q, h.log, h.at)
  BY <1>4, <1>6, OnArriveInv
<1> HIDE DEF q
<1>8. CASE bus_idle /\ PickNext(h, q)
  <2>1. h.ends = {}
    BY <1>1, <1>2, <1>8 DEF BusInv, OneTransferAtATime
  <2> QED
    BY <1>1, <1>2, <1>3, <1>7, <1>8, <2>1, PickNextInv
<1>9. CASE /\ ~bus_idle
           /\ KeepServing(h)
           /\ queue' = q
           /\ UNCHANGED <<tokens, last_refill, vfin>>
  <2>1. BusInv(Exempt)'
    BY <1>1, <1>2, <1>3, <1>9, KeepServingBusInv
  <2>2. log' = h.log /\ now' = h.at /\ bus_idle' = FALSE
    BY <1>3, <1>9 DEF Keep, KeepServing
  <2>3. QueuesInv(queue', log', now')
    BY <1>7, <1>9, <2>2
  <2>4. AccountsInv'
    BY <1>1, <1>9 DEF AccountsInv
  <2>5. IdleOnlyWhenThrottled'
    BY <2>2 DEF IdleOnlyWhenThrottled
  <2> QED
    BY <2>1, <2>3, <2>4, <2>5 DEF IInv
<1> QED
  BY <1>3, <1>8, <1>9

LEMMA QuantumEndInv ==
  ASSUME IInv, QuantumEnd
  PROVE  IInv'
<1>1. PICK e \in ends : /\ Keep(Ended(e))
                        /\ PickNext(Ended(e), OnArrive(queue, Ended(e).arriving))
  BY DEF QuantumEnd
<1> DEFINE h == Ended(e)
<1> DEFINE q == OnArrive(queue, h.arriving)
<1>2. BusInv(Exempt) /\ HalfInv(h, Exempt) /\ h.ends = {} /\ AccountsInv
  BY EndedHalf DEF IInv
<1>3. Keep(h) /\ PickNext(h, q)
  BY <1>1
<1> HIDE DEF h
<1>4. /\ h.arriving \in Seq(Pending) /\ AllKnown(h.arriving, h.log, h.at)
      /\ Len(h.arriving) <= 1
      /\ h.log \in Logs /\ Continues(log, h.log) /\ h.at \in Nat /\ now <= h.at
  BY <1>2 DEF HalfInv, HalfStep, BusInv, BusTypeOK
<1>5. QueuesInv(queue, log, now) /\ log \in Logs /\ now \in Nat
  BY <1>2 DEF IInv, BusInv, BusTypeOK, Logs
<1>6. QueuesInv(queue, h.log, h.at)
  BY <1>4, <1>5, QueuesContinue
<1>7. QueuesInv(q, h.log, h.at)
  BY <1>4, <1>6, OnArriveInv
<1> HIDE DEF q
<1> QED
  BY <1>2, <1>3, <1>7, PickNextInv

LEMMA NextInv == IInv /\ [Next]_vars => IInv'
<1> SUFFICES ASSUME IInv, [Next]_vars
             PROVE  IInv'
  OBVIOUS
<1>1. CASE \E t \in Txn, at \in 0..MaxTime : Arrival(t, at)
  BY <1>1, ArrivalInv
<1>2. CASE QuantumEnd
  BY <1>2, QuantumEndInv
<1>3. CASE UNCHANGED vars
  <2>1. BusInv(Exempt)'
    BY <1>3 DEF vars, IInv, BusInv, BusTypeOK, OneTransferAtATime, Known, Honours,
                RecordHonours
  <2>2. QueuesInv(queue', log', now') /\ AccountsInv'
    BY <1>3 DEF vars, IInv, AccountsInv
  <2>3. IdleOnlyWhenThrottled'
    BY <1>3 DEF vars, IInv, IdleOnlyWhenThrottled, Affordable
  <2> QED
    BY <2>1, <2>2, <2>3 DEF IInv
<1> QED
  BY <1>1, <1>2, <1>3 DEF Next

(***************************************************************************)
(* The inductive invariant holds in every reachable state.                 *)
(***************************************************************************)
THEOREM Invariance == Spec => []IInv
<1> QED
  BY InitInv, NextInv, PTL DEF Spec

(***************************************************************************)
(* Types: in particular the token bucket neither runs into debt nor over   *)
(* its capacity, whatever is refilled and spent, and no byte counter goes  *)
(* below 0.                                                                *)
(***************************************************************************)
THEOREM TypeCorrect == Spec => []TypeOK
<1>1. IInv => TypeOK
  <2> SUFFICES ASSUME IInv
               PROVE  TypeOK
    OBVIOUS
  <2>1. \A c \in QosTags : queue[c] \in Seq(Pending)
    BY WaitingIsPending DEF IInv, QueuesInv
  <2>2. queue \in [QosTags -> Seq(Pending)]
    BY <2>1 DEF IInv, QueuesInv
  <2> QED
    BY <2>2 DEF IInv, BusInv, AccountsInv, TypeOK
<1> QED
  BY <1>1, Invariance, PTL

(***************************************************************************)
(* The bus serves one transaction at a time, and bus_idle_ says so.        *)
(***************************************************************************)
THEOREM OneAtATime == Spec => []OneTransferAtATime
<1>1. IInv => OneTransferAtATime
  BY DEF IInv, BusInv
<1> QED
  BY <1>1, Invariance, PTL

(***************************************************************************)
(* The bus rests only when no bulk transaction waits and the bucket cannot *)
(* pay for the head of the critical queue.                                 *)
(***************************************************************************)
THEOREM IdleWhenThrottled == Spec => []IdleOnlyWhenThrottled
<1>1. IInv => IdleOnlyWhenThrottled
  BY DEF IInv
<1> QED
  BY <1>1, Invariance, PTL

(***************************************************************************)
(* With audio configured critical, as config.yaml has it (line 23),        *)
(* nothing starts at or after its deadline and nothing is given up before  *)
(* it: looking for late transactions in the critical queue is enough.      *)
(***************************************************************************)
THEOREM DeadlinesKept ==
  ASSUME \A t \in Txn : IsAudio(t) => ClassOf(t) = "critical"
  PROVE  Spec => []DeadlinesHonoured
<1>1. Exempt = {}
  BY DEF Exempt, BulkTags
<1>2. IInv => DeadlinesHonoured
  BY <1>1, HonoursDeadlines DEF IInv, BusInv, BusTypeOK, Logs
<1> QED
  BY <1>2, Invariance, PTL
-----------------------------------------------------------------------------
(***************************************************************************)
(* QosScheduler implements BusContract: every step of the three queues,    *)
(* the event queue and the trace is a step of the contract, or none.       *)
(***************************************************************************)
AllWait(q, lg, B) == \A c \in QosTags : WaitsOnce(q[c], lg, B)

AllObjects(q) == UNION {Objects(q[c]) : c \in QosTags}

\* The queues q hold what is in Q but for the transactions of D.
Sheds(Q, q, D) ==
  /\ AllObjects(q) \subseteq Q
  /\ \A r \in Q : r \in AllObjects(q) \/ r.tx \in D

NoneOf(q, T) == \A c \in QosTags : \A i \in DOMAIN q[c] : q[c][i].tx \notin T

\* The refinement needs to know that no transaction is in two places; that it is not in
\* two queues follows from its class.
RInv ==
  /\ IInv
  /\ AllWait(queue, log, Served)
  /\ \A e \in ends : Alive(log, e.pending.tx)
  /\ Held(AllObjects(queue), ends, log, served)

PickNextRefines(h, Q) ==
  /\ \E D \in SUBSET Txn : GoesOn(h, D)
  /\ AllWait(queue', log', Served')
  /\ Moves(h, Q, AllObjects(queue'))

LEMMA PlaceInClass ==
  ASSUME NEW q, NEW lg, NEW at, QueuesInv(q, lg, at), NEW c \in QosTags, NEW i \in DOMAIN q[c]
  PROVE  q[c][i] \in Pending /\ q[c][i].tx \in Txn /\ ClassOf(q[c][i].tx) = c
<1>1. q[c] \in Seq(Waiting(c, lg, at))
  BY DEF QueuesInv
<1>2. q[c][i] \in Waiting(c, lg, at)
  BY <1>1, LenProperties, ElementOfSeq
<1> QED
  BY <1>2 DEF Waiting, Pending

\* The stale prefix of the critical queue may be given up, and is in no queue any more.
LEMMA PrefixGone ==
  ASSUME NEW q, NEW lg, NEW at, QueuesInv(q, lg, at), AllWait(q, lg, {}),
         NEW n, n \in 0..Len(q["critical"]), StalePrefix(q["critical"], n, at),
         NEW q1, q1 = [q EXCEPT !["critical"] = SubSeq(q["critical"], n + 1, Len(q["critical"]))],
         NEW D, D = TxnsOf(SubSeq(q["critical"], 1, n))
  PROVE  /\ D \in SUBSET Txn /\ \A t \in D : Alive(lg, t) /\ Late(lg, t, at)
         /\ AllWait(q1, lg, {})
         /\ NoneOf(q1, D)
         /\ Sheds(AllObjects(q), q1, D)
<1> DEFINE s == q["critical"]
<1> DEFINE rest == SubSeq(s, n + 1, Len(s))
<1>1. "critical" \in QosTags
  BY DEF QosTags
<1>2. s \in Seq(Waiting("critical", lg, at))
  BY <1>1 DEF QueuesInv
<1>3. /\ s \in Seq(Pending) /\ AllKnown(s, lg, at) /\ WaitsOnce(s, lg, {})
      /\ n \in 0..Len(s) /\ StalePrefix(s, n, at) /\ D = TxnsOf(SubSeq(s, 1, n))
  BY <1>1, <1>2, WaitingIsPending DEF AllWait
<1>4. /\ q1["critical"] = rest
      /\ \A c \in QosTags \ {"critical"} : q1[c] = q[c]
  BY <1>1 DEF QueuesInv
<1>5. \A i \in DOMAIN s : ClassOf(s[i].tx) = "critical"
  BY <1>1, PlaceInClass
<1> HIDE DEF s
<1>6. D \in SUBSET Txn /\ \A t \in D : Alive(lg, t) /\ Late(lg, t, at)
  BY <1>3, PrefixLate
<1>7. D = {s[i].tx : i \in 1..n} /\ \A i \in 1..n : i \in DOMAIN s
  BY <1>3, PrefixTxns
<1>8. n \in Nat
  BY <1>3, LenProperties
<1>9. n + 1 \in Nat \ {0}
  BY <1>8
<1>10. WaitsOnce(rest, lg, {})
  BY <1>3, <1>9, WaitsOnceSuffix
<1>11. \A i \in DOMAIN rest : rest[i].tx \notin D
  <2>1. ASSUME NEW i \in DOMAIN rest
        PROVE  \E j \in DOMAIN s : j \in Nat /\ j >= n + 1 /\ rest[i] = s[j]
    <3>1. i \in Nat /\ n + 1 + i - 1 \in DOMAIN s /\ n + 1 + i - 1 >= n + 1
          /\ rest[i] = s[n + 1 + i - 1]
      BY <1>3, <1>9, SuffixPlaces
    <3> QED
      BY <1>8, <3>1
  <2>2. \A j \in Nat : j >= n + 1 => j \notin 1..n
    BY <1>8
  <2> HIDE DEF rest
  <2> QED
    BY <1>3, <1>7, <2>1, <2>2 DEF WaitsOnce
<1>12. \A i \in DOMAIN rest : \E j \in DOMAIN s : rest[i] = s[j]
  <2> DEFINE m == n + 1
  <2>1. m \in Nat \ {0} /\ rest = SubSeq(s, m, Len(s)) /\ s \in Seq(Pending)
    BY <1>3, <1>9
  <2> HIDE DEF m, rest
  <2> QED
    BY <2>1, SuffixFrom
<1>13. ASSUME NEW i \in DOMAIN s
       PROVE  s[i].tx \in D \/ \E j \in DOMAIN rest : rest[j] = s[i]
  <2>1. i \in Nat
    BY <1>3, LenProperties
  <2>2. CASE i <= n
    BY <1>7, <1>8, <1>3, <2>1, <2>2, LenProperties
  <2>3. CASE i >= n + 1
    <3> DEFINE m == n + 1
    <3>1. m \in Nat \ {0} /\ i >= m /\ rest = SubSeq(s, m, Len(s))
      BY <1>9, <2>3
    <3> HIDE DEF m, rest
    <3>2. i - m + 1 \in DOMAIN rest /\ rest[i - m + 1] = s[i]
      BY <1>3, <3>1, SuffixHolds
    <3> QED
      BY <3>2
  <2> QED
    BY <1>8, <2>1, <2>2, <2>3
<1> HIDE DEF rest
<1>14. AllWait(q1, lg, {})
  BY <1>4, <1>10 DEF AllWait
<1>15. NoneOf(q1, D)
  <2>1. ASSUME NEW c \in QosTags \ {"critical"}, NEW i \in DOMAIN q1[c]
        PROVE  q1[c][i].tx \notin D
    <3>1. ClassOf(q1[c][i].tx) = c
      BY <1>4, <2>1, PlaceInClass
    <3> QED
      BY <1>5, <1>7, <2>1, <3>1
  <2> QED
    BY <1>4, <1>11, <2>1 DEF NoneOf
<1>16. s = q["critical"]
  BY DEF s
<1>17. AllObjects(q1) \subseteq AllObjects(q)
  <2>1. ASSUME NEW c \in QosTags, NEW i \in DOMAIN q1[c]
        PROVE  \E d \in QosTags : \E j \in DOMAIN q[d] : q1[c][i] = q[d][j]
    BY <1>1, <1>4, <1>12, <1>16, <2>1
  <2> QED
    BY <2>1 DEF AllObjects, Objects
<1>18. ASSUME NEW r \in AllObjects(q)
       PROVE  r \in AllObjects(q1) \/ r.tx \in D
  <2>1. PICK c \in QosTags : \E i \in DOMAIN q[c] : r = q[c][i]
    BY <1>18 DEF AllObjects, Objects
  <2>2. r.tx \in D \/ \E d \in QosTags : \E j \in DOMAIN q1[d] : r = q1[d][j]
    <3>1. CASE c = "critical"
      <4>1. r.tx \in D \/ \E j \in DOMAIN rest : r = rest[j]
        BY <1>13, <1>16, <2>1, <3>1
      <4> QED
        BY <1>1, <1>4, <4>1
    <3>2. CASE c # "critical"
      BY <1>4, <2>1, <3>2
    <3> QED
      BY <3>1, <3>2
  <2> QED
    BY <2>2 DEF AllObjects, Objects
<1> QED
  BY <1>6, <1>14, <1>15, <1>17, <1>18 DEF Sheds

\* A queue is popped and its head goes on the bus.
LEMMA TakeContract ==
  ASSUME NEW h, h.log \in Logs, h.at \in Nat, h.ends = {}, NEW D \in SUBSET Txn,
         \A t \in D : Alive(h.log, t) /\ Late(h.log, t, h.at),
         NEW q, QueuesInv(q, h.log, h.at), AllWait(q, h.log, {}), NoneOf(q, D),
         NEW c \in QosTags, q[c] # <<>>,
         queue' = PopFront(q, c), Serve(h, D, Head(q[c])),
         NEW Q, Sheds(Q, q, D)
  PROVE  PickNextRefines(h, Q)
<1> DEFINE s == q[c]
<1> DEFINE rest == SubSeq(s, 2, Len(s))
<1>1. s \in Seq(Pending) /\ s # <<>> /\ WaitsOnce(s, h.log, {})
  BY WaitingIsPending DEF QueuesInv, AllWait
<1>2. 1 \in DOMAIN s /\ Head(s) = s[1]
  BY <1>1, EmptySeq, LenProperties
<1>3. Tail(s) = rest
  BY <1>1, TailIsSubSeq
<1>4. queue'[c] = rest /\ \A d \in QosTags \ {c} : queue'[d] = q[d]
  BY <1>3 DEF PopFront, QueuesInv
<1> DEFINE p == s[1]
<1>5. /\ p \in Pending /\ Alive(h.log, p.tx) /\ p.tx \notin D
      /\ ClassOf(p.tx) = c
  BY <1>1, <1>2, PlaceInClass DEF WaitsOnce, NoneOf
<1>6. GoesOn(h, D) /\ Served' = {p.tx}
  <2>1. Serve(h, D, p)
    BY <1>2
  <2> HIDE DEF p
  <2> QED
    BY <1>5, <2>1, ServeGoesOn
<1>7. 2 \in Nat \ {0}
  OBVIOUS
<1>8. WaitsOnce(rest, h.log, {})
  <2> HIDE DEF s
  <2> QED
    BY <1>1, <1>7, WaitsOnceSuffix
<1>9. \A i \in DOMAIN rest : rest[i].tx \notin D /\ rest[i].tx # p.tx
  <2>1. ASSUME NEW i \in DOMAIN rest
        PROVE  \E j \in DOMAIN s : j # 1 /\ rest[i] = s[j]
    <3> HIDE DEF s
    <3>1. i \in Nat /\ 2 + i - 1 \in DOMAIN s /\ 2 + i - 1 >= 2 /\ rest[i] = s[2 + i - 1]
      BY <1>1, <1>7, SuffixPlaces
    <3> QED
      BY <3>1
  <2> HIDE DEF rest
  <2> QED
    BY <1>1, <1>2, <2>1 DEF WaitsOnce, NoneOf
<1>10. /\ \A i \in DOMAIN rest : \E j \in DOMAIN s : rest[i] = s[j]
       /\ \A i \in DOMAIN s : s[i] = p \/ \E j \in DOMAIN rest : rest[j] = s[i]
  <2>1. \A i \in DOMAIN rest : \E j \in DOMAIN s : rest[i] = s[j]
    <3> HIDE DEF s
    <3> QED
      BY <1>1, <1>7, SuffixFrom
  <2>2. ASSUME NEW i \in DOMAIN s
        PROVE  i = 1 \/ \E j \in DOMAIN rest : rest[j] = s[i]
    <3>1. i \in Nat /\ i >= 1
      BY <1>1, LenProperties
    <3>2. CASE i >= 2
      <4> HIDE DEF s
      <4>1. i - 2 + 1 \in DOMAIN rest /\ rest[i - 2 + 1] = s[i]
        BY <1>1, <1>7, <3>2, SuffixHolds
      <4> QED
        BY <4>1
    <3> QED
      BY <3>1, <3>2
  <2> QED
    BY <2>1, <2>2
<1>11. s = q[c] /\ p \in AllObjects(q)
  BY <1>2 DEF AllObjects, Objects
<1>12. Serve(h, D, p)
  BY <1>2
<1> HIDE DEF rest, p, s
<1>13. AllObjects(queue') \subseteq AllObjects(q)
  <2>1. ASSUME NEW d \in QosTags, NEW i \in DOMAIN queue'[d]
        PROVE  \E f \in QosTags : \E j \in DOMAIN q[f] : queue'[d][i] = q[f][j]
    BY <1>4, <1>10, <1>11, <2>1
  <2> QED
    BY <2>1 DEF AllObjects, Objects
<1>14. ASSUME NEW r \in AllObjects(q)
       PROVE  r \in AllObjects(queue') \/ r = p
  <2>1. PICK d \in QosTags : \E i \in DOMAIN q[d] : r = q[d][i]
    BY <1>14 DEF AllObjects, Objects
  <2>2. r = p \/ \E f \in QosTags : \E j \in DOMAIN queue'[f] : r = queue'[f][j]
    BY <1>4, <1>10, <1>11, <2>1
  <2> QED
    BY <2>2 DEF AllObjects, Objects
<1>15. AllObjects(queue') \in SUBSET Q /\ p \in Q
       /\ \A r \in Q : r \in AllObjects(queue') \/ r.tx \in D \/ r = p
  BY <1>11, <1>13, <1>14 DEF Sheds
<1>16. Moves(h, Q, AllObjects(queue'))
  BY <1>5, <1>6, <1>12, <1>15, ServeMoves
<1>17. ASSUME NEW d \in QosTags
      PROVE  WaitsOnce(queue'[d], log', Served')
  <2>1. WaitsOnce(queue'[d], h.log, {})
    BY <1>4, <1>8 DEF AllWait
  <2>2. \A i \in DOMAIN queue'[d] : queue'[d][i].tx \notin D /\ queue'[d][i].tx # p.tx
    <3>1. CASE d = c
      BY <1>4, <1>9, <3>1
    <3>2. CASE d # c
      <4>1. queue'[d] = q[d]
        BY <1>4, <3>2
      <4>2. \A i \in DOMAIN q[d] : ClassOf(q[d][i].tx) = d
        BY PlaceInClass
      <4> QED
        BY <1>5, <3>2, <4>1, <4>2 DEF NoneOf
    <3> QED
      BY <3>1, <3>2
  <2> QED
    BY <1>6, <2>1, <2>2, GoesOnWaits
<1> QED
  BY <1>6, <1>17, <1>16 DEF PickNextRefines, AllWait

LEMMA PickNextContract ==
  ASSUME NEW h, HalfInv(h, Exempt), h.ends = {},
         NEW q, QueuesInv(q, h.log, h.at), AllWait(q, h.log, {}), PickNext(h, q)
  PROVE  PickNextRefines(h, AllObjects(q))
<1>1. h.at \in Nat /\ h.log \in Logs
  BY DEF HalfInv, HalfStep
<1> DEFINE critical == q["critical"]
<1>2. PICK n \in 0..Len(critical) :
        LET dropped == TxnsOf(SubSeq(critical, 1, n))
            rest    == SubSeq(critical, n + 1, Len(critical))
            q1      == [q EXCEPT !["critical"] = rest]
            tok     == Refilled(h.at)
        IN /\ StalePrefix(critical, n, h.at)
           /\ \/ Affordable(rest, tok) /\ TakeCritical(h, q1, dropped, tok)
              \/ \E c \in PreferredBulk(q1) : TakeBulk(h, q1, dropped, tok, c)
              \/ TakeNone(h, q1, dropped, tok)
  BY DEF PickNext
<1> DEFINE D == TxnsOf(SubSeq(critical, 1, n))
<1> DEFINE rest == SubSeq(critical, n + 1, Len(critical))
<1> DEFINE q1 == [q EXCEPT !["critical"] = rest]
<1> DEFINE tok == Refilled(h.at)
<1>3. /\ D \in SUBSET Txn /\ \A t \in D : Alive(h.log, t) /\ Late(h.log, t, h.at)
      /\ AllWait(q1, h.log, {})
      /\ NoneOf(q1, D)
      /\ Sheds(AllObjects(q), q1, D)
  BY <1>2, PrefixGone
<1>4. QueuesInv(q1, h.log, h.at) /\ q1["critical"] = rest
  BY <1>2, RestOfCritical DEF QueuesInv, QosTags
<1>5. \/ Affordable(rest, tok) /\ TakeCritical(h, q1, D, tok)
      \/ \E c \in PreferredBulk(q1) : TakeBulk(h, q1, D, tok, c)
      \/ TakeNone(h, q1, D, tok)
  BY <1>2
<1> HIDE DEF critical, D, rest, q1, tok
<1>6. CASE Affordable(rest, tok) /\ TakeCritical(h, q1, D, tok)
  <2>1. "critical" \in QosTags
    BY DEF QosTags
  <2>2. /\ q1["critical"] # <<>> /\ queue' = PopFront(q1, "critical")
        /\ Serve(h, D, Head(q1["critical"]))
    BY <1>4, <1>6 DEF Affordable, TakeCritical
  <2> QED
    BY <1>1, <1>3, <1>4, <2>1, <2>2, TakeContract
<1>7. CASE \E c \in PreferredBulk(q1) : TakeBulk(h, q1, D, tok, c)
  <2>1. PICK c \in PreferredBulk(q1) : TakeBulk(h, q1, D, tok, c)
    BY <1>7
  <2>2. c \in QosTags /\ q1[c] # <<>>
    BY <2>1 DEF PreferredBulk, QosTags
  <2>3. queue' = PopFront(q1, c) /\ Serve(h, D, Head(q1[c]))
    BY <2>1 DEF TakeBulk
  <2> QED
    BY <1>1, <1>3, <1>4, <2>2, <2>3, TakeContract
<1>8. CASE TakeNone(h, q1, D, tok)
  <2>1. queue' = q1 /\ Rest(h, D)
    BY <1>8 DEF TakeNone
  <2>2. GoesOn(h, D) /\ Served' = {}
    BY <1>1, <1>3, <2>1, RestGoesOn
  <2>3. ASSUME NEW c \in QosTags
        PROVE  WaitsOnce(q1[c], log', Served')
    <3>1. WaitsOnce(q1[c], h.log, {}) /\ \A i \in DOMAIN q1[c] : q1[c][i].tx \notin D
      BY <1>3 DEF AllWait, NoneOf
    <3>2. \A i \in DOMAIN q1[c] : q1[c][i].tx \in Txn \ (D \cup Served')
                                  /\ q1[c][i].tx \notin Served'
      BY <2>2, <3>1 DEF WaitsOnce
    <3>3. \A i \in DOMAIN q1[c] : log'[q1[c][i].tx] = h.log[q1[c][i].tx]
      BY <2>2, <3>2 DEF GoesOn, Arbitrates
    <3> QED
      BY <3>1, <3>2, <3>3, WaitsOnceStays
  <2> QED
    <3> DEFINE Q == AllObjects(q)
    <3> DEFINE Q2 == AllObjects(q1)
    <3>1. Q2 \in SUBSET Q /\ \A r \in Q : r \in Q2 \/ r.tx \in D
      BY <1>3 DEF Sheds
    <3> HIDE DEF Q, Q2
    <3>2. Moves(h, Q, Q2)
      BY <1>3, <2>1, <2>2, <3>1, RestMoves
    <3> QED
      BY <1>3, <2>1, <2>2, <2>3, <3>2 DEF PickNextRefines, AllWait, Q, Q2
<1> QED
  BY <1>5, <1>6, <1>7, <1>8

\* on_arrive() of a transaction that waits nowhere.
LEMMA OnArriveWaits ==
  ASSUME NEW q, NEW lg, NEW at, QueuesInv(q, lg, at), NEW B, AllWait(q, lg, B),
         NEW p \in Pending, Alive(lg, p.tx), p.tx \notin B, NoneOf(q, {p.tx})
  PROVE  AllWait(OnArrive(q, <<p>>), lg, B)
<1> DEFINE c == ClassOf(p.tx)
<1> DEFINE arriving == <<p>>
<1>1. c \in QosTags /\ arriving # <<>> /\ arriving[1] = p
  BY TxnAssumption DEF ClassOf, Pending
<1>2. OnArrive(q, arriving) = [q EXCEPT ![c] = @ \o <<p>>]
  BY <1>1 DEF OnArrive
<1>3. WaitsOnce(q[c] \o <<p>>, lg, B)
  <2>1. q[c] \in Seq(Waiting(c, lg, at)) /\ WaitsOnce(q[c], lg, B)
    BY <1>1 DEF QueuesInv, AllWait
  <2>2. q[c] \in Seq(Pending)
    BY <2>1, WaitingIsPending
  <2>3. \A i \in DOMAIN q[c] : q[c][i].tx # p.tx
    BY <1>1 DEF NoneOf
  <2> HIDE DEF c
  <2> QED
    BY <2>1, <2>2, <2>3, WaitsOnceAppend
<1> HIDE DEF c
<1>4. ASSUME NEW d \in QosTags
      PROVE  WaitsOnce([q EXCEPT ![c] = @ \o <<p>>][d], lg, B)
  <2>1. [q EXCEPT ![c] = @ \o <<p>>][d] = IF d = c THEN q[c] \o <<p>> ELSE q[d]
    BY <1>1 DEF QueuesInv
  <2> QED
    BY <1>3, <2>1 DEF AllWait
<1> QED
  BY <1>2, <1>4 DEF AllWait

\* What waits on while the trace of t is written and t leaves the bus.
LEMMA AllWaitStays ==
  ASSUME NEW q, NEW lg, NEW B, AllWait(q, lg, B), NEW t, NoneOf(q, {t}),
         NEW lg2, \A u \in Txn \ {t} : lg2[u] = lg[u], NEW B2 \in SUBSET B
  PROVE  AllWait(q, lg2, B2)
<1>1. ASSUME NEW c \in QosTags
      PROVE  WaitsOnce(q[c], lg2, B2)
  <2>1. WaitsOnce(q[c], lg, B) /\ \A i \in DOMAIN q[c] : q[c][i].tx # t
    BY DEF AllWait, NoneOf
  <2>2. \A i \in DOMAIN q[c] : q[c][i].tx \in Txn \ {t} /\ q[c][i].tx \notin B2
    BY <2>1 DEF WaitsOnce
  <2>3. \A i \in DOMAIN q[c] : lg2[q[c][i].tx] = lg[q[c][i].tx] /\ q[c][i].tx \notin B2
    BY <2>2
  <2> QED
    BY <2>1, <2>3, WaitsOnceStays
<1> QED
  BY <1>1 DEF AllWait

LEMMA OnArriveObjects ==
  ASSUME NEW q, NEW lg, NEW at, QueuesInv(q, lg, at),
         NEW arriving \in Seq(Pending), Len(arriving) <= 1
  PROVE  AllObjects(OnArrive(q, arriving)) = AllObjects(q) \cup Objects(arriving)
<1>1. CASE arriving = <<>>
  BY <1>1, EmptyObjects DEF OnArrive
<1>2. CASE arriving # <<>>
  <2> DEFINE c == ClassOf(arriving[1].tx)
  <2>1. arriving[1] \in Pending
    BY <1>2, EmptySeq, LenProperties
  <2>2. c \in QosTags
    BY <2>1, TxnAssumption DEF ClassOf, Pending
  <2> HIDE DEF c
  <2>3. OnArrive(q, arriving) = [q EXCEPT ![c] = @ \o arriving]
    BY <1>2 DEF OnArrive, c
  <2> DEFINE q2 == OnArrive(q, arriving)
  <2>4. q2[c] = q[c] \o arriving /\ \A d \in QosTags \ {c} : q2[d] = q[d]
    BY <2>2, <2>3 DEF QueuesInv
  <2>5. q[c] \in Seq(Pending)
    <3>1. q[c] \in Seq(Waiting(c, lg, at))
      BY <2>2 DEF QueuesInv
    <3> QED
      BY <3>1, WaitingIsPending
  <2>6. Objects(q2[c]) = Objects(q[c]) \cup Objects(arriving)
    BY <2>4, <2>5, ConcatObjects
  <2>7. \A d \in QosTags : Objects(q2[d]) = IF d = c THEN Objects(q[c]) \cup Objects(arriving)
                                                     ELSE Objects(q[d])
    BY <2>4, <2>6
  <2> HIDE DEF q2
  <2>8. AllObjects(q2) = AllObjects(q) \cup Objects(arriving)
    BY <2>2, <2>7 DEF AllObjects
  <2> QED
    BY <2>8 DEF q2
<1> QED
  BY <1>1, <1>2

LEMMA AllObjectsWait ==
  ASSUME NEW q, NEW lg, NEW B, AllWait(q, lg, B)
  PROVE  \A r \in AllObjects(q) : r.tx \in Txn /\ Alive(lg, r.tx) /\ r.tx \notin B
BY DEF AllWait, WaitsOnce, AllObjects, Objects

LEMMA PickedHeld ==
  ASSUME NEW h, HalfInv(h, Exempt), Keep(h), NEW q, AllWait(q, h.log, {}),
         PickNextRefines(h, AllObjects(q)), Held(AllObjects(q), {}, h.log, h.served)
  PROVE  Held(AllObjects(queue'), ends', log', served')
<1>1. h.at \in Nat /\ h.log \in Logs /\ served' = h.served
  BY DEF HalfInv, HalfStep, Keep
<1>2. PICK D \in SUBSET Txn : GoesOn(h, D)
  BY DEF PickNextRefines
<1>3. \A p \in AllObjects(q) : p.tx \in Txn
  BY AllObjectsWait
<1>4. \A p \in AllObjects(queue') : Alive(log', p.tx) /\ p.tx \notin Served'
  BY AllObjectsWait DEF PickNextRefines
<1> QED
  BY <1>1, <1>2, <1>3, <1>4, MovesHeld DEF PickNextRefines

\* A bus that was free goes on as start_service_if_idle() left it.
LEMMA PickedWent ==
  ASSUME NEW h, Keep(h), NEW q, AllWait(q, h.log, {}), PickNextRefines(h, AllObjects(q)),
         Held(AllObjects(q), {}, h.log, h.served)
  PROVE  Went(h)
<1>1. \A p \in AllObjects(q) : Alive(h.log, p.tx)
  BY AllObjectsWait
<1>2. Launches(h)
  BY <1>1, MovesLaunch DEF PickNextRefines
<1> QED
  BY <1>2 DEF Went, PickNextRefines

LEMMA InitRefines == Init => RInv /\ Contract!Init
<1> SUFFICES ASSUME Init
             PROVE  RInv /\ Contract!Init
  OBVIOUS
<1>1. IInv /\ Contract!Init
  BY InitInv, InitContract DEF Init
<1>2. /\ ends = {} /\ \A c \in QosTags : queue[c] = <<>>
      /\ \A t \in Txn : log[t] = <<>> /\ served[t] = 0
  BY DEF Init, BusInit
<1>3. AllWait(queue, log, Served)
  BY <1>2 DEF AllWait, WaitsOnce
<1>4. Held(AllObjects(queue), ends, log, served)
  <2>1. AllObjects(queue) = {}
    BY <1>2, EmptyObjects DEF AllObjects
  <2> QED
    BY <1>2, <2>1 DEF Held, Untouched, Alive
<1> QED
  BY <1>1, <1>2, <1>3, <1>4 DEF RInv

LEMMA ArrivalRefines ==
  ASSUME RInv, NEW t \in Txn, NEW at \in 0..MaxTime, Arrival(t, at)
  PROVE  RInv' /\ Contract!Next /\ StepIs /\ Went(Accepted(t, at))
<1> DEFINE h == Accepted(t, at)
<1> DEFINE q == OnArrive(queue, h.arriving)
<1>1. /\ BusInv(Exempt) /\ log[t] = <<>> /\ at >= now /\ at \in Nat
      /\ QueuesInv(queue, log, now) /\ log \in Logs /\ served \in [Txn -> Nat]
      /\ now \in Nat /\ OneTransferAtATime
  BY TimeAssumption DEF RInv, IInv, BusInv, BusTypeOK, Logs, Arrival, Accept, MayArrive
<1>2. IInv'
  BY ArrivalInv DEF RInv
<1>3. HalfInv(h, Exempt) /\ h.ends = ends /\ h.at = at
  BY <1>1, AcceptedHalf DEF Accepted, Half
<1> DEFINE p == NewPending(t, at)
<1>4. h.log = Emit(log, {t}, "Arrive", at) /\ h.arriving = <<p>>
  BY DEF Accepted, Half
<1>5. Keep(h) /\ \/ bus_idle /\ PickNext(h, q)
                 \/ ~bus_idle /\ KeepServing(h) /\ queue' = q
  BY DEF Arrival, Accept
<1>6. p \in Pending /\ p.tx = t
  BY <1>1, NewPendingType
<1>7. Held(AllObjects(queue) \cup {p}, ends, h.log, h.served)
  <2> DEFINE Q == AllObjects(queue)
  <2>1. Held(Q, ends, log, served)
    BY DEF RInv
  <2>2. \A r \in Q : r.tx \in Txn /\ Alive(log, r.tx)
    BY AllObjectsWait DEF RInv
  <2>3. \A e \in ends : e.pending.tx \in Txn /\ Alive(log, e.pending.tx)
    BY <1>1 DEF RInv, BusInv, BusTypeOK, QuantumEvent, Pending
  <2>4. StartsWaiting(log, h.log, Served, t, at)
    BY <1>1, <1>4, AcceptedPhases DEF RInv, Alive, Served
  <2> HIDE DEF Q, h
  <2>5. h = Accepted(t, at)
    BY DEF h
  <2> QED
    BY <1>1, <2>1, <2>2, <2>3, <2>4, <2>5, AcceptedHeld DEF Q
<1> HIDE DEF h, p
<1>8. now' = at /\ now' \in Nat /\ now' >= now
  BY <1>1, <1>3, <1>5 DEF Keep
<1>9. /\ h.log \in Logs /\ AllKnown(h.arriving, h.log, h.at) /\ h.arriving \in Seq(Pending)
      /\ Len(h.arriving) <= 1 /\ Continues(log, h.log)
  BY <1>3 DEF HalfInv, HalfStep
<1>10. t \notin Served
  BY <1>1 DEF RInv, Alive, Served
<1>11. StartsWaiting(log, h.log, Served, t, at)
  BY <1>1, <1>4, <1>10, AcceptedPhases
<1>12. NoneOf(queue, {t})
  BY <1>1 DEF RInv, AllWait, NoneOf, WaitsOnce, Alive
<1>13. AllWait(queue, h.log, Served)
  <2>1. \A u \in Txn \ {t} : h.log[u] = log[u]
    BY <1>11 DEF StartsWaiting
  <2>2. AllWait(queue, log, Served) /\ Served \in SUBSET Served
    BY DEF RInv
  <2> QED
    BY <1>12, <2>1, <2>2, AllWaitStays
<1>14. QueuesInv(queue, h.log, h.at)
  BY <1>1, <1>3, <1>9, QueuesContinue
<1>15. AllWait(q, h.log, Served)
  <2>1. Alive(h.log, t)
    BY <1>11 DEF StartsWaiting
  <2>2. AllWait(OnArrive(queue, <<p>>), h.log, Served)
    BY <1>6, <1>10, <1>12, <1>13, <1>14, <2>1, OnArriveWaits
  <2> QED
    BY <1>4, <2>2
<1>16. QueuesInv(q, h.log, h.at)
  BY <1>9, <1>14, OnArriveInv
<1>17. Held(AllObjects(q), ends, h.log, h.served)
  <2>1. AllObjects(q) = AllObjects(queue) \cup Objects(h.arriving)
    BY <1>1, <1>9, OnArriveObjects
  <2>2. Objects(h.arriving) = {p}
    BY <1>4, <1>6, SingletonObjects
  <2> QED
    BY <1>7, <2>1, <2>2
<1> HIDE DEF q
<1>18. Went(h) => StepIs /\ Went(Accepted(t, at))
  BY <1>1 DEF h, StepIs
<1>19. CASE bus_idle /\ PickNext(h, q)
  <2>1. ends = {} /\ Served = {}
    BY <1>1, <1>19 DEF OneTransferAtATime, Served
  <2>2. PickNextRefines(h, AllObjects(q))
    BY <1>3, <1>15, <1>16, <1>19, <2>1, PickNextContract
  <2>3. Held(AllObjects(queue'), ends', log', served')
    <3>1. AllWait(q, h.log, {}) /\ Held(AllObjects(q), {}, h.log, h.served)
      BY <1>17, <1>15, <2>1
    <3> QED
      BY <1>3, <1>5, <2>2, <3>1, PickedHeld
  <2>4. RInv'
    BY <1>2, <2>2, <2>3 DEF RInv, PickNextRefines, GoesOn
  <2>5. Went(h)
    <3>1. AllWait(q, h.log, {}) /\ Held(AllObjects(q), {}, h.log, h.served)
      BY <1>17, <1>15, <2>1
    <3> QED
      BY <1>5, <2>2, <3>1, PickedWent
  <2>6. Contract!Next
    BY <1>3, <1>8, <1>11, <2>1, <2>2, IdleIssue DEF PickNextRefines
  <2> QED
    BY <1>18, <2>4, <2>5, <2>6
<1>20. CASE ~bus_idle /\ KeepServing(h) /\ queue' = q
  <2>1. log' = h.log /\ ends' = ends /\ Served' = Served /\ served' = h.served
    BY <1>3, <1>5, <1>20 DEF Keep, KeepServing, Served
  <2>2. ASSUME NEW e \in ends
        PROVE  /\ e.pending.tx \in Txn \ {t} /\ e.pending.tx \in Served
               /\ Alive(log, e.pending.tx) /\ Alive(h.log, e.pending.tx)
    <3>1. e.pending.tx \in Txn
      BY <1>1 DEF BusInv, BusTypeOK, QuantumEvent, Pending
    <3>2. e.pending.tx \in Txn \ {t} /\ e.pending.tx \in Served /\ Alive(log, e.pending.tx)
      BY <1>10, <3>1 DEF RInv, Served
    <3> QED
      BY <1>11, <3>2 DEF StartsWaiting, Alive, LastOf
  <2>3. RInv'
    BY <1>2, <1>15, <1>20, <1>17, <2>1, <2>2 DEF RInv
  <2>4. PICK e \in ends : TRUE
    BY <1>1, <1>20 DEF OneTransferAtATime
  <2>5. Contract!Next
    BY <1>8, <1>11, <2>1, <2>2, <2>4, BusyIssue
  <2>6. Went(h)
    BY <1>3, <1>5, <1>20 DEF Went
  <2> QED
    BY <1>18, <2>3, <2>5, <2>6
<1> QED
  BY <1>5, <1>19, <1>20

LEMMA QuantumEndRefines ==
  ASSUME RInv, QuantumEnd
  PROVE  RInv' /\ Contract!Next /\ StepIs /\ \E f \in ends : Went(Ended(f))
<1>1. PICK e \in ends : /\ Keep(Ended(e))
                        /\ PickNext(Ended(e), OnArrive(queue, Ended(e).arriving))
  BY DEF QuantumEnd
<1> DEFINE h == Ended(e)
<1> DEFINE q == OnArrive(queue, h.arriving)
<1> DEFINE t == e.pending.tx
<1>2. /\ BusInv(Exempt) /\ HalfInv(h, Exempt) /\ h.ends = {} /\ OneTransferAtATime
      /\ QueuesInv(queue, log, now) /\ log \in Logs /\ now \in Nat
  BY EndedHalf DEF RInv, IInv, BusInv, BusTypeOK, Logs
<1>3. Keep(h) /\ PickNext(h, q)
  BY <1>1
<1>4. IInv'
  BY QuantumEndInv DEF RInv
<1>5. Alive(log, t) /\ Served = {t}
  BY <1>2 DEF RInv, OneTransferAtATime, Served
<1>6. t \in Txn /\ h.at = e.at /\ EndsQuantum(h, t)
  BY <1>2, <1>5, EndedPhases
<1> HIDE DEF h, t
<1>7. /\ h.arriving \in Seq(Pending) /\ AllKnown(h.arriving, h.log, h.at)
      /\ Len(h.arriving) <= 1
      /\ h.log \in Logs /\ Continues(log, h.log) /\ h.at \in Nat /\ now <= h.at
  BY <1>2 DEF HalfInv, HalfStep, BusInv, BusTypeOK
<1>8. NoneOf(queue, {t})
  BY <1>5 DEF RInv, AllWait, NoneOf, WaitsOnce
<1>9. AllWait(queue, h.log, {})
  <2>1. \A u \in Txn \ {t} : h.log[u] = log[u]
    BY <1>6 DEF EndsQuantum, LeavesBus
  <2>2. AllWait(queue, log, Served) /\ {} \in SUBSET Served
    BY DEF RInv
  <2> QED
    BY <1>8, <2>1, <2>2, AllWaitStays
<1>10. QueuesInv(queue, h.log, h.at)
  BY <1>2, <1>7, QueuesContinue
<1>11. AllWait(q, h.log, {})
  <2>1. CASE h.arriving = <<>>
    BY <1>9, <2>1 DEF OnArrive
  <2>2. CASE Alive(h.log, t) /\ \E p \in Pending : p.tx = t /\ h.arriving = <<p>>
    <3>1. PICK p \in Pending : p.tx = t /\ h.arriving = <<p>>
      BY <2>2
    <3>2. AllWait(OnArrive(queue, <<p>>), h.log, {})
      BY <1>8, <1>9, <1>10, <2>2, <3>1, OnArriveWaits
    <3> QED
      BY <3>1, <3>2
  <2> QED
    BY <1>6, <2>1, <2>2 DEF EndsQuantum
<1>12. QueuesInv(q, h.log, h.at)
  BY <1>7, <1>10, OnArriveInv
<1>13. Held(AllObjects(q), {}, h.log, h.served)
  <2> DEFINE Q == AllObjects(queue)
  <2> DEFINE R == Objects(h.arriving)
  <2>1. AllObjects(q) = Q \cup R
    BY <1>2, <1>7, OnArriveObjects
  <2>2. Held(Q, ends, log, served) /\ t = e.pending.tx /\ h = Ended(e)
    BY DEF RInv, t, h
  <2>3. \A p \in Q : p.tx \in Txn \ {t}
    BY <1>5, AllObjectsWait DEF RInv
  <2>4. HandsOver(h, R)
    BY EmptyObjects, SingletonObjects DEF HandsOver
  <2> HIDE DEF Q, R, q
  <2> QED
    BY <1>2, <1>6, <2>1, <2>2, <2>3, <2>4, EndedHeld
<1> HIDE DEF q
<1>14. PickNextRefines(h, AllObjects(q))
  BY <1>2, <1>3, <1>11, <1>12, PickNextContract
<1>15. Held(AllObjects(queue'), ends', log', served')
  BY <1>2, <1>3, <1>11, <1>13, <1>14, PickedHeld
<1>16. RInv'
  BY <1>4, <1>14, <1>15 DEF RInv, PickNextRefines, GoesOn
<1>17. now' = h.at /\ now' \in Nat /\ now' >= now
  BY <1>3, <1>7 DEF Keep
<1>18. Contract!Next
  BY <1>5, <1>6, <1>14, <1>17, EndStep DEF PickNextRefines
<1>19. Went(h)
  BY <1>3, <1>11, <1>13, <1>14, PickedWent
<1>20. StepIs /\ \E f \in ends : Went(Ended(f))
  BY <1>19 DEF StepIs, h
<1> QED
  BY <1>16, <1>18, <1>20

LEMMA StepRefines == RInv /\ [Next]_vars => RInv' /\ [Contract!Next]_(Contract!vars)
<1> SUFFICES ASSUME RInv, [Next]_vars
             PROVE  RInv' /\ [Contract!Next]_(Contract!vars)
  OBVIOUS
<1>1. CASE \E t \in Txn, at \in 0..MaxTime : Arrival(t, at)
  BY <1>1, ArrivalRefines
<1>2. CASE QuantumEnd
  BY <1>2, QuantumEndRefines
<1>3. CASE UNCHANGED vars
  <2>1. IInv'
    BY NextInv DEF RInv
  <2>2. now' = now /\ queue' = queue /\ log' = log /\ ends' = ends /\ served' = served
    BY <1>3 DEF vars
  <2>3. UNCHANGED Contract!vars /\ Served' = Served
    BY <2>2, StutterContract
  <2> QED
    BY <2>1, <2>2, <2>3 DEF RInv
<1> QED
  BY <1>1, <1>2, <1>3 DEF Next

(***************************************************************************)
(* The promises of the bus hold under the QoS policy as well, whatever the *)
(* weights, the rate limit and the classes: three queues and a token       *)
(* bucket never serve two transactions at once, serve one that has ended,  *)
(* or give up one that is not late.                                        *)
(***************************************************************************)
THEOREM KeepsContract == Spec => ImplementsBusContract
<1> QED
  BY InitRefines, StepRefines, PTL DEF Spec, ImplementsBusContract, Contract!Spec
-----------------------------------------------------------------------------
LEMMA HeldOnce == RInv => NothingLost
<1> SUFFICES ASSUME RInv
             PROVE  NothingLost
  OBVIOUS
<1>1. /\ Held(AllObjects(queue), ends, log, served) /\ AllWait(queue, log, Served)
      /\ QueuesInv(queue, log, now) /\ BusInv(Exempt)
  BY DEF RInv, IInv
<1>2. /\ \A e, f \in ends : e = f
      /\ \A e \in ends : e.pending \in Pending /\ Known(e.pending, log, now)
  BY <1>1 DEF BusInv, BusTypeOK, OneTransferAtATime, QuantumEvent
<1>3. ASSUME NEW c \in QosTags, NEW i \in DOMAIN queue[c]
      PROVE  AgreesWithTrace(queue[c][i])
  <2>1. queue[c] \in Seq(Waiting(c, log, now))
    BY <1>1 DEF QueuesInv
  <2>2. queue[c][i] \in Waiting(c, log, now)
    BY <2>1, LenProperties
  <2>3. queue[c][i] \in Pending /\ Known(queue[c][i], log, now)
    BY <2>2 DEF Waiting
  <2>4. Agrees(queue[c][i], log, served)
    BY <1>1 DEF Held, AllObjects, Objects
  <2> QED
    BY <2>3, <2>4, AgreesIs
<1>4. \A e \in ends : AgreesWithTrace(e.pending)
  BY <1>1, <1>2, AgreesIs DEF Held
<1>5. \A c \in QosTags : \A i \in DOMAIN queue[c] : ClassOf(queue[c][i].tx) = c
  BY <1>1, PlaceInClass
<1>6. ASSUME NEW t \in Txn
      PROVE  Cardinality(OnBusAs(t)) + Cardinality(PlacesOf(t, queue[ClassOf(t)]))
               = IF Outstanding(t) THEN 1 ELSE 0
  <2> DEFINE c == ClassOf(t)
  <2> DEFINE onBus == OnBusAs(t)
  <2> DEFINE places == PlacesOf(t, queue[c])
  <2>1. Outstanding(t) <=> Alive(log, t)
    BY DEF Outstanding, Last, Alive, LastOf
  <2>2. \A p, r \in onBus : p = r
    BY <1>2 DEF OnBusAs
  <2>3. c \in QosTags
    BY TxnAssumption DEF ClassOf
  <2>4. \A i, j \in places : i = j
    BY <1>1, <2>3 DEF PlacesOf, WaitsOnce, AllWait
  <2>5. onBus # {} <=> \E e \in ends : e.pending.tx = t
    BY DEF OnBusAs
  <2>6. places # {} <=> \E i \in DOMAIN queue[c] : queue[c][i].tx = t
    BY DEF PlacesOf
  <2>7. onBus # {} => places = {}
    BY <1>1, <2>3, <2>5, <2>6 DEF WaitsOnce, AllWait, Served
  <2>8. Alive(log, t) => onBus # {} \/ places # {}
    <3>1. Alive(log, t) => onBus # {} \/ \E r \in AllObjects(queue) : r.tx = t
      BY <1>1, <2>5 DEF Held
    <3>2. ASSUME NEW r \in AllObjects(queue), r.tx = t
          PROVE  places # {}
      <4>1. PICK d \in QosTags : \E i \in DOMAIN queue[d] : r = queue[d][i]
        BY DEF AllObjects, Objects
      <4>2. d = c
        BY <1>5, <3>2, <4>1
      <4> QED
        BY <2>6, <3>2, <4>1, <4>2
    <3> QED
      BY <3>1, <3>2
  <2>9. places # {} => Alive(log, t)
    BY <1>1, <2>3, <2>6 DEF WaitsOnce, AllWait
  <2>10. onBus # {} => Alive(log, t)
    BY <2>5 DEF RInv
  <2> HIDE DEF onBus, places
  <2>11. /\ Cardinality(onBus) = IF onBus = {} THEN 0 ELSE 1
         /\ Cardinality(places) = IF places = {} THEN 0 ELSE 1
    BY <2>2, <2>4, OnePlace
  <2> QED
    BY <2>1, <2>7, <2>8, <2>9, <2>10, <2>11 DEF onBus, places
<1>7. \A t \in Txn : \A c \in QosTags \ {ClassOf(t)} : PlacesOf(t, queue[c]) = {}
  BY <1>5 DEF PlacesOf
<1> QED
  BY <1>3, <1>4, <1>6, <1>7 DEF NothingLost

(***************************************************************************)
(* With three queues and a critical transaction that waits for tokens      *)
(* there are more ways to lose a PendingTxn: none is lost, none is in two  *)
(* queues, and the one in hand says what the trace and the bytes say.      *)
(***************************************************************************)
THEOREM NoneLost == Spec => []NothingLost
<1>1. Spec => []RInv
  BY InitRefines, StepRefines, PTL DEF Spec
<1> QED
  BY <1>1, HeldOnce, PTL
-----------------------------------------------------------------------------
GapBounded == Gap' <= Larger(Gap, MaxVirtualCost)

LEMMA ProductMonotonic ==
  ASSUME NEW a \in Nat, NEW b \in Nat, NEW c \in Nat, NEW d \in Nat, a <= c, b <= d
  PROVE  a * b <= c * d
<1>1. a * b <= a * d
  OBVIOUS
<1>2. a * d <= c * d
  OBVIOUS
<1>3. a * b \in Int /\ a * d \in Int /\ c * d \in Int
  OBVIOUS
<1> QED
  BY <1>1, <1>2, <1>3

\* No slice is charged more than the bound of the property.
LEMMA ChargeBounded ==
  ASSUME NEW p \in Pending, NEW c \in BulkTags
  PROVE  VirtualCost(p, c) \in Nat /\ MaxVirtualCost \in Nat /\ VirtualCost(p, c) <= MaxVirtualCost
<1> DEFINE other == CHOOSE d \in BulkTags : d # c
<1> DEFINE slice == Cfg.bus_bw * Cfg.quantum_us
<1> DEFINE weight == Larger(Weight("high"), Weight("normal"))
<1>1. \E d \in BulkTags : d # c
  BY DEF BulkTags
<1>2. other \in BulkTags
  BY <1>1
<1> HIDE DEF other
<1>3. slice \in Nat /\ SliceBytes(p) \in Nat /\ SliceBytes(p) <= slice
  <2>1. p.bytes_remaining \in Nat /\ slice \in Nat
    BY QosAssumption DEF Pending
  <2> HIDE DEF slice
  <2>2. Smaller(p.bytes_remaining, slice) \in Nat /\ Smaller(p.bytes_remaining, slice) <= slice
    BY <2>1 DEF Smaller
  <2> QED
    BY <2>1, <2>2 DEF SliceBytes, slice
<1>4. weight \in Nat /\ Weight(other) \in Nat /\ Weight(other) <= weight
  <2>1. \A d \in BulkTags : Weight(d) \in Nat
    BY QosAssumption
  <2>2. Weight("high") \in Nat /\ Weight("normal") \in Nat
    BY <2>1 DEF BulkTags
  <2>3. Weight(other) = Weight("high") \/ Weight(other) = Weight("normal")
    BY <1>2 DEF BulkTags
  <2> QED
    BY <2>2, <2>3 DEF Larger
<1> HIDE DEF slice, weight
<1>5. SliceBytes(p) * Weight(other) <= slice * weight
  BY <1>3, <1>4, ProductMonotonic
<1>6. slice * weight \in Nat /\ SliceBytes(p) * Weight(other) \in Nat
  BY <1>3, <1>4, ProductNat
<1> QED
  BY <1>5, <1>6 DEF VirtualCost, MaxVirtualCost, other, slice, weight

\* The class that is behind, or level, is charged for a slice.
LEMMA ChargeKeepsGap ==
  ASSUME AccountsInv, NEW p \in Pending, NEW c \in BulkTags, NEW d \in BulkTags, c # d,
         vfin[c] <= vfin[d], vfin' = [vfin EXCEPT ![c] = @ + VirtualCost(p, c)]
  PROVE  GapBounded
<1> DEFINE cost == VirtualCost(p, c)
<1>1. vfin[c] \in Nat /\ vfin[d] \in Nat /\ vfin'[c] = vfin[c] + cost /\ vfin'[d] = vfin[d]
  BY DEF AccountsInv
<1>2. cost \in Nat /\ MaxVirtualCost \in Nat /\ cost <= MaxVirtualCost
  BY ChargeBounded
<1> HIDE DEF cost
<1>3. \/ c = "high" /\ d = "normal"
      \/ c = "normal" /\ d = "high"
  BY DEF BulkTags
<1>4. Gap = vfin[d] - vfin[c]
  BY <1>1, <1>3 DEF Gap, Larger
<1>5. Gap' = Larger(vfin'[c] - vfin'[d], vfin'[d] - vfin'[c])
  <2> DEFINE x == vfin'[c]
  <2> DEFINE y == vfin'[d]
  <2>1. x \in Nat /\ y \in Nat
    BY <1>1, <1>2
  <2>2. \/ Gap' = Larger(x - y, -(x - y))
        \/ Gap' = Larger(y - x, -(y - x))
    BY <1>3 DEF Gap
  <2> HIDE DEF x, y
  <2>3. Gap' = Larger(x - y, y - x)
    BY <2>1, <2>2 DEF Larger
  <2> QED
    BY <2>3 DEF x, y
<1> QED
  BY <1>1, <1>2, <1>4, <1>5 DEF GapBounded, Larger

LEMMA SameGap ==
  ASSUME AccountsInv, vfin' = vfin
  PROVE  GapBounded
<1>1. vfin["high"] \in Nat /\ vfin["normal"] \in Nat
  BY DEF AccountsInv, BulkTags
<1>2. Gap \in Nat /\ Gap' = Gap
  BY <1>1 DEF Gap, Larger
<1>3. Weight("high") \in Nat /\ Weight("normal") \in Nat /\ Cfg.bus_bw * Cfg.quantum_us \in Nat
  BY QosAssumption DEF BulkTags
<1>4. MaxVirtualCost \in Nat
  <2>1. Larger(Weight("high"), Weight("normal")) \in Nat
    BY <1>3 DEF Larger
  <2> QED
    BY <1>3, <2>1, ProductNat DEF MaxVirtualCost
<1> QED
  BY <1>2, <1>4 DEF GapBounded, Larger

\* pick_next() on a free bus, when both classes have work before and after.
LEMMA PickNextGap ==
  ASSUME AccountsInv, NEW h, h.ends = {}, h.log \in Logs, h.at \in Nat,
         NEW q, QueuesInv(q, h.log, h.at), PickNext(h, q), BothActive'
  PROVE  GapBounded
<1> DEFINE critical == q["critical"]
<1>1. PICK n \in 0..Len(critical) :
        LET dropped == TxnsOf(SubSeq(critical, 1, n))
            rest    == SubSeq(critical, n + 1, Len(critical))
            q1      == [q EXCEPT !["critical"] = rest]
            tok     == Refilled(h.at)
        IN /\ StalePrefix(critical, n, h.at)
           /\ \/ TakeCritical(h, q1, dropped, tok)
              \/ \E c \in PreferredBulk(q1) : TakeBulk(h, q1, dropped, tok, c)
              \/ TakeNone(h, q1, dropped, tok)
  BY DEF PickNext
<1> DEFINE dropped == TxnsOf(SubSeq(critical, 1, n))
<1> DEFINE rest == SubSeq(critical, n + 1, Len(critical))
<1> DEFINE q1 == [q EXCEPT !["critical"] = rest]
<1> DEFINE tok == Refilled(h.at)
<1>2. QueuesInv(q1, h.log, h.at)
  BY <1>1, RestOfCritical
<1>3. \/ vfin' = vfin
      \/ \E c \in PreferredBulk(q1) : TakeBulk(h, q1, dropped, tok, c)
  BY <1>1 DEF TakeCritical, TakeNone
<1> HIDE DEF critical, dropped, rest, q1, tok
<1>4. CASE vfin' = vfin
  BY <1>4, SameGap
<1>5. CASE \E c \in PreferredBulk(q1) : TakeBulk(h, q1, dropped, tok, c)
  <2>1. PICK c \in PreferredBulk(q1) : TakeBulk(h, q1, dropped, tok, c)
    BY <1>5
  <2>2. c \in BulkTags /\ c \in QosTags /\ q1[c] # <<>>
    BY <2>1 DEF PreferredBulk, BulkTags, QosTags
  <2>3. PICK d \in BulkTags : d # c
    BY DEF BulkTags
  <2> DEFINE p == Head(q1[c])
  <2>4. p \in Pending /\ p.tx \in Txn /\ ClassOf(p.tx) = c
    <3>1. q1[c] \in Seq(Waiting(c, h.log, h.at))
      BY <1>2, <2>2 DEF QueuesInv
    <3>2. p \in Waiting(c, h.log, h.at)
      BY <2>2, <3>1, HeadTailProperties
    <3> QED
      BY <3>2 DEF Waiting, Pending
  <2> HIDE DEF p
  <2>5. /\ queue' = PopFront(q1, c) /\ Serve(h, dropped, p)
        /\ vfin' = [vfin EXCEPT ![c] = @ + VirtualCost(p, c)]
    BY <2>1 DEF TakeBulk, p
  <2>6. \A e \in ends' : ClassOf(e.pending.tx) = c
    BY <2>4, <2>5, MarkedType DEF Serve
  <2>7. q1[d] # <<>>
    <3>1. queue'[d] # <<>>
      BY <2>3, <2>6 DEF BothActive, Active
    <3>2. queue'[d] = q1[d]
      BY <1>2, <2>3, <2>5 DEF PopFront, QueuesInv, QosTags, BulkTags
    <3> QED
      BY <3>1, <3>2
  <2>8. vfin[c] <= vfin[d]
    <3>1. vfin["high"] \in Nat /\ vfin["normal"] \in Nat
      BY DEF AccountsInv, BulkTags
    <3> QED
      BY <2>1, <2>2, <2>3, <2>7, <3>1 DEF PreferredBulk, BulkTags
  <2> QED
    BY <2>2, <2>3, <2>4, <2>5, <2>8, ChargeKeepsGap
<1> QED
  BY <1>3, <1>4, <1>5

\* Every action makes a half-step and then picks, or leaves the bus to whom it serves.
LEMMA StepPicks ==
  ASSUME IInv, Next
  PROVE  \E h : /\ HalfInv(h, Exempt) /\ Keep(h)
                /\ \/ \E t \in Txn, at \in Nat : log[t] = <<>> /\ h = Accepted(t, at)
                   \/ \E e \in ends : h = Ended(e)
                /\ \/ h.ends = {} /\ \E q : QueuesInv(q, h.log, h.at) /\ PickNext(h, q)
                   \/ /\ ends' = h.ends /\ h.ends = ends /\ log' = h.log
                      /\ tokens' = tokens /\ last_refill' = last_refill /\ vfin' = vfin
<1>1. /\ AccountsInv /\ BusInv(Exempt) /\ QueuesInv(queue, log, now) /\ log \in Logs /\ now \in Nat
      /\ bus_idle => ends = {}
  BY DEF IInv, BusInv, BusTypeOK, OneTransferAtATime, Logs
<1>2. ASSUME NEW h, HalfInv(h, Exempt)
      PROVE  QueuesInv(OnArrive(queue, h.arriving), h.log, h.at)
  <2>1. /\ h.arriving \in Seq(Pending) /\ AllKnown(h.arriving, h.log, h.at)
        /\ Len(h.arriving) <= 1 /\ h.log \in Logs /\ Continues(log, h.log)
        /\ h.at \in Nat /\ now <= h.at
    BY <1>1, <1>2 DEF HalfInv, HalfStep
  <2>2. QueuesInv(queue, h.log, h.at)
    BY <1>1, <2>1, QueuesContinue
  <2> QED
    BY <2>1, <2>2, OnArriveInv
<1>3. CASE \E t \in Txn, at \in 0..MaxTime : Arrival(t, at)
  <2>1. PICK t \in Txn, at \in 0..MaxTime : Arrival(t, at)
    BY <1>3
  <2> DEFINE h == Accepted(t, at)
  <2> DEFINE q == OnArrive(queue, h.arriving)
  <2>2. at \in Nat /\ HalfInv(h, Exempt) /\ h.ends = ends
    BY <1>1, <2>1, TimeAssumption, AcceptedHalf DEF Arrival, MayArrive
  <2>3. QueuesInv(q, h.log, h.at)
    BY <1>2, <2>2
  <2>4. /\ Keep(h)
        /\ \/ bus_idle /\ PickNext(h, q)
           \/ /\ ends' = h.ends /\ log' = h.log
              /\ tokens' = tokens /\ last_refill' = last_refill /\ vfin' = vfin
    BY <2>1 DEF Arrival, Accept, KeepServing
  <2>5. \E u \in Txn, a \in Nat : log[u] = <<>> /\ h = Accepted(u, a)
    BY <2>1, <2>2 DEF Arrival, MayArrive
  <2> HIDE DEF h, q
  <2> QED
    BY <1>1, <2>2, <2>3, <2>4, <2>5
<1>4. CASE QuantumEnd
  <2>1. PICK e \in ends : /\ Keep(Ended(e))
                          /\ PickNext(Ended(e), OnArrive(queue, Ended(e).arriving))
    BY <1>4 DEF QuantumEnd
  <2>2. HalfInv(Ended(e), Exempt) /\ Ended(e).ends = {}
    BY <1>1, EndedHalf
  <2> QED
    BY <1>2, <2>1, <2>2
<1> QED
  BY <1>3, <1>4 DEF Next

(***************************************************************************)
(* Weighted fairness, for all weights and quanta: while both bulk classes  *)
(* have work, choosing the smaller virtual finish time keeps them within   *)
(* the charge of one slice of each other, or brings them closer.           *)
(***************************************************************************)
THEOREM FairWithinASlice == Spec => GapNeverWidens
<1>1. ASSUME IInv, [Next]_vars, BothActive'
      PROVE  GapBounded
  <2>1. AccountsInv
    BY <1>1 DEF IInv
  <2>2. CASE Next
    <3>1. PICK h : /\ HalfInv(h, Exempt)
                   /\ \/ h.ends = {} /\ \E q : QueuesInv(q, h.log, h.at) /\ PickNext(h, q)
                      \/ vfin' = vfin
      BY <1>1, <2>2, StepPicks
    <3>2. h.log \in Logs /\ h.at \in Nat
      BY <3>1 DEF HalfInv, HalfStep
    <3> QED
      BY <1>1, <2>1, <3>1, <3>2, PickNextGap, SameGap
  <2>3. CASE UNCHANGED vars
    BY <2>1, <2>3, SameGap DEF vars
  <2> QED
    BY <1>1, <2>2, <2>3
<1>2. IInv /\ [Next]_vars => [BothActive /\ BothActive' => Gap' <= Larger(Gap, MaxVirtualCost)]_vars
  BY <1>1 DEF GapBounded
<1> QED
  BY <1>2, Invariance, PTL DEF Spec, GapNeverWidens

-----------------------------------------------------------------------------
\* The invariant that carries the trace: RInv says what is waiting and on the bus.
LInv == RInv /\ TraceInv

LEMMA InitTrace == Init => LInv
BY InitRefines, TraceInit DEF LInv, Init

LEMMA NextTrace == LInv /\ [Next]_vars => LInv'
<1> SUFFICES ASSUME RInv, TraceInv, [Next]_vars
             PROVE  RInv' /\ TraceInv'
  BY DEF LInv
<1>1. RInv'
  BY StepRefines
<1>2. BusInv(Exempt) /\ BusHeld
  BY DEF RInv, IInv, Held, BusHeld
<1>3. CASE \E t \in Txn, at \in 0..MaxTime : Arrival(t, at)
  <2>1. StepIs
    BY <1>3, ArrivalRefines
  <2> QED
    BY <1>1, <1>2, <2>1, TraceStep
<1>4. CASE QuantumEnd
  <2>1. StepIs
    BY <1>4, QuantumEndRefines
  <2> QED
    BY <1>1, <1>2, <2>1, TraceStep
<1>5. CASE UNCHANGED vars
  <2>1. UNCHANGED busVars
    BY <1>5 DEF vars, busVars
  <2> QED
    BY <1>1, <2>1, TraceStutter
<1> QED
  BY <1>3, <1>4, <1>5 DEF Next

LEMMA TraceHolds == LInv => TraceWellFormed /\ KpiMatchesTrace
<1> SUFFICES ASSUME LInv
             PROVE  TraceWellFormed /\ KpiMatchesTrace
  OBVIOUS
<1>1. BusTypeOK /\ TraceInv
  BY DEF LInv, RInv, IInv, BusInv
<1> QED
  BY <1>1, TraceIs

\* Whichever queues a transaction overtook or let pass, the slices it got add up
\* to its size, none was shorter than the bytes it moved, and its records are those of one
\* life, in the order of their dates.
THEOREM TraceRight == Spec => []TraceWellFormed
<1>1. Spec => []LInv
  BY InitTrace, NextTrace, PTL DEF Spec
<1> QED
  BY <1>1, TraceHolds, PTL

\* Under the QoS policy every counter of the final report, the sums and maxima of
\* latencies and the costs of completed transfers included, can be recomputed from the trace.
THEOREM CountersTrue == Spec => []KpiMatchesTrace
<1>1. Spec => []LInv
  BY InitTrace, NextTrace, PTL DEF Spec
<1> QED
  BY <1>1, TraceHolds, PTL
-----------------------------------------------------------------------------
\* The critical class, what it is made of at a trace lg, and what slices have moved of it.
Critical == {t \in Txn : ClassOf(t) = "critical"}

BegunIn(lg, t) == Len(lg[t]) >= 2 /\ lg[t][2].ev = "ServiceStart"

\* Those that were not on the bus before `from`, the ones to come included.
Since(from, lg) == {t \in Critical : ~(BegunIn(lg, t) /\ lg[t][2].at < from)}

Spent(sv, S) == 100 * SumFunctionOnSet(sv, S)

\* What a slice is charged covers what it moves: so it is for a critical class of
\* uncompressed transfers, like audio, and not for SGL entries larger than a bus quantum.
SlicesFit == \A t \in Critical : QuantumBytes(t) <= Cfg.bus_bw * Cfg.quantum_us

\* What a bucket, full at `from`, has had up to its last refill.
Income(from) == TokenCapacity + TokenRefill * (last_refill - from)

\* First services are picks, which refill: none is later than the last refill.
Dated(lg, at) == \A t \in Txn : BegunIn(lg, t) => lg[t][2].at <= at

\* The books of the bucket since `from`, once it was refilled then or later: a slice on
\* the bus is paid for before its bytes are counted.
Balanced(from) ==
  LET S == Since(from, log)
  IN /\ Spent(served, S) + tokens <= Income(from)
     /\ \A e \in ends : e.pending.tx \in S =>
          Spent(served, S) + TokenCost(e.pending) + tokens <= Income(from)

BudgetInv(from) ==
  /\ last_refill <= now
  /\ Dated(log, last_refill)
  /\ \A t \in Critical : ~BegunIn(log, t) => served[t] = 0
  /\ last_refill >= from => Balanced(from)

\* What a step writes is appended, and dated with its time.
Extends(lg, lg2, at) ==
  \A t \in Txn : /\ Len(lg[t]) <= Len(lg2[t])
                 /\ \A i \in 1..Len(lg[t]) : lg2[t][i] = lg[t][i]
                 /\ \A i \in 1..Len(lg2[t]) : i > Len(lg[t]) => lg2[t][i].at = at

LEMMA EmitExtends ==
  ASSUME NEW lg \in Logs, NEW T, NEW ev \in Milestones, NEW at \in Nat
  PROVE  Emit(lg, T, ev, at) \in Logs /\ Extends(lg, Emit(lg, T, ev, at), at)
<1> DEFINE r == [ev |-> ev, at |-> at]
<1> DEFINE lg2 == Emit(lg, T, ev, at)
<1>1. ASSUME NEW t \in Txn
      PROVE  /\ Len(lg[t]) <= Len(lg2[t])
             /\ \A i \in 1..Len(lg[t]) : lg2[t][i] = lg[t][i]
             /\ \A i \in 1..Len(lg2[t]) : i > Len(lg[t]) => lg2[t][i].at = at
  <2> DEFINE s == lg[t]
  <2>1. s \in Seq(Record) /\ r \in Record /\ r.at = at
    BY DEF Logs, Record
  <2>2. lg2[t] = Append(s, r) \/ lg2[t] = s
    BY DEF Emit
  <2> HIDE DEF s, r, lg2
  <2>3. /\ Len(s) <= Len(lg2[t])
        /\ \A i \in 1..Len(s) : lg2[t][i] = s[i]
        /\ \A i \in 1..Len(lg2[t]) : i > Len(s) => lg2[t][i].at = at
    BY <2>1, <2>2
  <2> QED
    BY <2>3 DEF s
<1>2. lg2 \in Logs
  BY EmitType
<1> QED
  BY <1>1, <1>2 DEF Extends

LEMMA ExtendsTwice ==
  ASSUME NEW lg \in Logs, NEW lg1 \in Logs, NEW lg2 \in Logs, NEW at,
         Extends(lg, lg1, at), Extends(lg1, lg2, at)
  PROVE  Extends(lg, lg2, at)
<1> SUFFICES ASSUME NEW t \in Txn
             PROVE  /\ Len(lg[t]) <= Len(lg2[t])
                    /\ \A i \in 1..Len(lg[t]) : lg2[t][i] = lg[t][i]
                    /\ \A i \in 1..Len(lg2[t]) : i > Len(lg[t]) => lg2[t][i].at = at
  BY DEF Extends
<1> DEFINE m == Len(lg[t])
<1> DEFINE n == Len(lg1[t])
<1> DEFINE k == Len(lg2[t])
<1>1. m \in Nat /\ n \in Nat /\ k \in Nat
  BY DEF Logs
<1>2. /\ m <= n /\ \A i \in 1..m : lg1[t][i] = lg[t][i]
      /\ \A i \in 1..n : i > m => lg1[t][i].at = at
  BY DEF Extends
<1>3. /\ n <= k /\ \A i \in 1..n : lg2[t][i] = lg1[t][i]
      /\ \A i \in 1..k : i > n => lg2[t][i].at = at
  BY DEF Extends
<1> HIDE DEF m, n, k
<1>4. \A i \in 1..m : i \in 1..n
  BY <1>1, <1>2
<1>5. \A i \in 1..m : lg2[t][i] = lg[t][i]
  BY <1>2, <1>3, <1>4
<1>6. ASSUME NEW i \in 1..k, i > m
      PROVE  lg2[t][i].at = at
  <2>1. i > n \/ i \in 1..n
    BY <1>1
  <2> QED
    BY <1>2, <1>3, <1>6, <2>1
<1>7. m <= k
  BY <1>1, <1>2, <1>3
<1> QED
  BY <1>5, <1>6, <1>7 DEF m, k

\* A transaction that has begun has always begun when it did.
LEMMA BegunStays ==
  ASSUME NEW lg \in Logs, NEW lg2 \in Logs, NEW at, Extends(lg, lg2, at), NEW t \in Txn
  PROVE  /\ BegunIn(lg, t) => BegunIn(lg2, t) /\ lg2[t][2] = lg[t][2]
         /\ BegunIn(lg2, t) => \/ BegunIn(lg, t) /\ lg2[t][2] = lg[t][2]
                               \/ lg2[t][2].at = at
<1> DEFINE m == Len(lg[t])
<1> DEFINE k == Len(lg2[t])
<1>1. m \in Nat /\ k \in Nat /\ m <= k
  BY DEF Logs, Extends
<1>2. /\ \A i \in 1..m : lg2[t][i] = lg[t][i]
      /\ \A i \in 1..k : i > m => lg2[t][i].at = at
  BY DEF Extends
<1>3. CASE m >= 2
  <2>1. 2 \in 1..m /\ k >= 2
    BY <1>1, <1>3
  <2>2. lg2[t][2] = lg[t][2]
    BY <1>2, <2>1
  <2> QED
    BY <1>3, <2>1, <2>2 DEF BegunIn
<1>4. CASE ~(m >= 2)
  <2>1. ~BegunIn(lg, t)
    BY <1>4 DEF BegunIn
  <2>2. ASSUME BegunIn(lg2, t)
        PROVE  lg2[t][2].at = at
    <3>1. 2 \in 1..k /\ 2 > m
      BY <1>1, <1>4, <2>2 DEF BegunIn
    <3> QED
      BY <1>2, <3>1
  <2> QED
    BY <2>1, <2>2
<1> QED
  BY <1>3, <1>4

LEMMA SinceShrinks ==
  ASSUME NEW lg \in Logs, NEW lg2 \in Logs, NEW at, Extends(lg, lg2, at), NEW from
  PROVE  Since(from, lg2) \in SUBSET Since(from, lg)
<1> SUFFICES ASSUME NEW t \in Since(from, lg2)
             PROVE  t \in Since(from, lg)
  OBVIOUS
<1>1. t \in Txn /\ t \in Critical
  BY DEF Since, Critical
<1> QED
  BY <1>1, BegunStays DEF Since

LEMMA DatesStay ==
  ASSUME NEW lg \in Logs, NEW lg2 \in Logs, NEW at \in Nat, Extends(lg, lg2, at),
         NEW last \in Nat, last <= at, Dated(lg, last)
  PROVE  Dated(lg2, at)
<1> SUFFICES ASSUME NEW t \in Txn, BegunIn(lg2, t)
             PROVE  lg2[t][2].at <= at
  BY DEF Dated
<1>1. CASE lg2[t][2].at = at
  BY <1>1
<1>2. CASE BegunIn(lg, t) /\ lg2[t][2] = lg[t][2]
  <2>1. lg[t][2].at <= last
    BY <1>2 DEF Dated
  <2>2. lg[t][2].at \in Nat
    <3>1. lg[t] \in Seq(Record) /\ 2 \in 1..Len(lg[t])
      BY <1>2 DEF Logs, BegunIn
    <3>2. lg[t][2] \in Record
      BY <3>1
    <3> QED
      BY <3>2 DEF Record
  <2> QED
    BY <1>2, <2>1, <2>2
<1> QED
  BY <1>1, <1>2, BegunStays

\* It is so in config.yaml, where the critical class is audio.
LEMMA AudioSlicesFit ==
  ASSUME \A t \in Critical : IsAudio(t)
  PROVE  SlicesFit
<1>1. ASSUME NEW t \in Critical
      PROVE  QuantumBytes(t) <= Cfg.bus_bw * Cfg.quantum_us
  <2>1. ~IsNeuroDma(t) /\ ~IsBounce(t) /\ ~IsCompressed(t)
    BY DEF IsAudio, IsNeuroDma, IsBounce, IsCompressed
  <2>2. Bandwidth(t) = Cfg.bus_bw /\ QuantumUs(t) = Cfg.quantum_us
    BY <2>1 DEF Bandwidth, PathBandwidth, QuantumUs
  <2> DEFINE slice == Cfg.bus_bw * Cfg.quantum_us
  <2>3. QuantumBytes(t) = slice /\ slice \in Nat
    BY <2>2, QosAssumption DEF QuantumBytes
  <2> HIDE DEF slice
  <2>4. QuantumBytes(t) <= slice
    BY <2>3
  <2> QED
    BY <2>4 DEF slice
<1> QED
  BY <1>1 DEF SlicesFit

LEMMA SpentType ==
  ASSUME NEW sv \in [Txn -> Nat], NEW S \in SUBSET Critical
  PROVE  /\ IsFiniteSet(S) /\ \A t \in S : t \in Txn /\ sv[t] \in Nat
         /\ SumFunctionOnSet(sv, S) \in Nat /\ Spent(sv, S) \in Nat
<1>1. IsFiniteSet(S) /\ \A t \in S : t \in Txn /\ sv[t] \in Nat
  <2>1. S \in SUBSET Txn
    BY DEF Critical
  <2> QED
    BY <2>1, TxnAssumption, FS_Subset
<1>2. SumFunctionOnSet(sv, S) \in Nat
  BY <1>1, SumNat
<1> QED
  BY <1>1, <1>2 DEF Spent

LEMMA FewerSpent ==
  ASSUME NEW sv \in [Txn -> Nat], NEW S \in SUBSET Critical, NEW R \in SUBSET S
  PROVE  Spent(sv, R) <= Spent(sv, S) /\ Spent(sv, R) \in Nat
<1>1. IsFiniteSet(S) /\ \A t \in S : sv[t] \in Nat
  BY SpentType
<1>2. SumFunctionOnSet(sv, R) <= SumFunctionOnSet(sv, S)
  BY <1>1, SumMonotonic
<1>3. R \in SUBSET Critical
  OBVIOUS
<1>4. /\ SumFunctionOnSet(sv, R) \in Nat /\ SumFunctionOnSet(sv, S) \in Nat
      /\ Spent(sv, R) \in Nat
  BY <1>3, SpentType
<1> QED
  BY <1>2, <1>4 DEF Spent

LEMMA IncomeType ==
  ASSUME AccountsInv, NEW from \in Nat, last_refill >= from
  PROVE  Income(from) \in Nat /\ tokens \in Nat
<1>1. TokenCapacity \in Nat /\ TokenRefill \in Nat /\ last_refill \in Nat /\ tokens \in Nat
  BY QosAssumption DEF AccountsInv
<1>2. last_refill - from \in Nat
  BY <1>1
<1>3. TokenRefill * (last_refill - from) \in Nat
  BY <1>1, <1>2, ProductNat
<1> QED
  BY <1>1, <1>3 DEF Income

\* The bytes of a slice of the critical class cost no more than it was charged.
LEMMA SliceSpends ==
  ASSUME SlicesFit, BusTypeOK, NEW p \in Pending, NEW S \in SUBSET Critical
  PROVE  /\ Moved(p) \in [Txn -> Nat]
         /\ \A u \in Txn : u # p.tx => Moved(p)[u] = served[u]
         /\ p.tx \in S => Spent(Moved(p), S) <= Spent(served, S) + TokenCost(p)
         /\ p.tx \notin S => Spent(Moved(p), S) = Spent(served, S)
<1> DEFINE t == p.tx
<1> DEFINE sv == Moved(p)
<1> DEFINE rest == p.bytes_remaining
<1> DEFINE b == QuantumBytes(t)
<1>1. t \in Txn /\ rest \in Nat /\ b \in Nat /\ served \in [Txn -> Nat] /\ sv \in [Txn -> Nat]
  BY QuantaType, MovedType DEF Pending, BusTypeOK
<1>2. /\ \A u \in Txn : u # t => sv[u] = served[u]
      /\ sv[t] = served[t] + rest - (rest - Smaller(rest, b))
  BY <1>1 DEF Moved, ServedOnce, Pending
<1> DEFINE others == S \ {t}
<1>3. IsFiniteSet(S) /\ IsFiniteSet(others) /\ \A u \in others : sv[u] = served[u]
  <2>1. S \in SUBSET Txn
    BY DEF Critical
  <2>2. IsFiniteSet(S) /\ IsFiniteSet(others)
    BY <2>1, TxnAssumption, FS_Subset
  <2> QED
    BY <1>2, <2>1, <2>2
<1>4. SumFunctionOnSet(sv, others) = SumFunctionOnSet(served, others)
  BY <1>3, SumSame
<1>5. \A u \in S : sv[u] \in Nat /\ served[u] \in Nat
  BY <1>1 DEF Critical
<1>6. CASE t \in S
  <2> DEFINE slice == Cfg.bus_bw * Cfg.quantum_us
  <2>1. b <= slice /\ slice \in Nat
    BY <1>6, QosAssumption DEF SlicesFit
  <2>2. TokenCost(p) = 100 * Smaller(rest, slice)
    BY DEF TokenCost, SliceBytes
  <2>3. /\ SumFunctionOnSet(sv, S) = sv[t] + SumFunctionOnSet(sv, others)
        /\ SumFunctionOnSet(served, S) = served[t] + SumFunctionOnSet(served, others)
    BY <1>3, <1>5, <1>6, SumRemove
  <2>4. SumFunctionOnSet(served, others) \in Nat
    BY <1>3, <1>5, SumNat
  <2>5. served[t] \in Nat /\ sv[t] = served[t] + Smaller(rest, b)
    BY <1>1, <1>2 DEF Smaller
  <2> HIDE DEF t, sv, rest, b, others, slice
  <2>6. Smaller(rest, b) <= Smaller(rest, slice) /\ Smaller(rest, b) \in Nat /\ Smaller(rest, slice) \in Nat
    BY <1>1, <2>1 DEF Smaller
  <2>7. 100 * SumFunctionOnSet(sv, S) <=
          100 * SumFunctionOnSet(served, S) + 100 * Smaller(rest, slice)
    BY <1>4, <2>3, <2>4, <2>5, <2>6
  <2> QED
    BY <1>1, <1>2, <1>6, <2>2, <2>7 DEF Spent, t, sv
<1>7. CASE t \notin S
  <2>1. others = S
    BY <1>7
  <2> QED
    BY <1>1, <1>2, <1>4, <1>7, <2>1 DEF Spent
<1> QED
  BY <1>1, <1>6, <1>7

\* Nothing that has begun after the last refill has moved a byte: nothing has.
LEMMA NothingSince ==
  ASSUME BusTypeOK, AccountsInv, NEW from \in Nat, BudgetInv(from), last_refill < from,
         NEW t \in Since(from, log)
  PROVE  ~BegunIn(log, t) /\ served[t] = 0
<1>1. t \in Critical /\ t \in Txn
  BY DEF Since, Critical
<1>2. ~BegunIn(log, t)
  <2> SUFFICES ASSUME BegunIn(log, t)
               PROVE  FALSE
    OBVIOUS
  <2>1. log[t][2].at <= last_refill /\ ~(log[t][2].at < from)
    BY <1>1 DEF BudgetInv, Dated, Since
  <2>2. log[t][2].at \in Nat
    <3>1. log[t] \in Seq(Record) /\ 2 \in 1..Len(log[t])
      BY <1>1 DEF BusTypeOK, BegunIn
    <3>2. log[t][2] \in Record
      BY <3>1
    <3> QED
      BY <3>2 DEF Record
  <2> QED
    BY <2>1, <2>2 DEF AccountsInv
<1> QED
  BY <1>1, <1>2 DEF BudgetInv

\* The books before the pick: what the slice that ended moved was paid.
LEMMA HalfBudget ==
  ASSUME SlicesFit, RInv, NEW from \in Nat, BudgetInv(from), NEW h, HalfInv(h, Exempt),
         \/ \E t \in Txn, at \in Nat : log[t] = <<>> /\ h = Accepted(t, at)
         \/ \E e \in ends : h = Ended(e)
  PROVE  /\ h.served \in [Txn -> Nat]
         /\ \A t \in Critical : ~BegunIn(log, t) => h.served[t] = 0
         /\ last_refill >= from => Spent(h.served, Since(from, log)) + tokens <= Income(from)
         /\ last_refill < from => Spent(h.served, Since(from, log)) = 0
         /\ h.ends = ends => h.served = served
<1> DEFINE S == Since(from, log)
<1>1. /\ BusTypeOK /\ AccountsInv /\ \A e \in ends : e.pending \in Pending
      /\ \A e \in ends : BegunIn(log, e.pending.tx)
  BY DEF RInv, IInv, BusInv, BusTypeOK, QuantumEvent, Held, Agrees, BegunIn
<1>2. h.served \in [Txn -> Nat] /\ S \in SUBSET Critical
  BY DEF HalfInv, HalfStep, Since
<1>3. ASSUME \A t \in Critical : ~BegunIn(log, t) => h.served[t] = 0, last_refill < from
      PROVE  Spent(h.served, S) = 0
  <2>1. IsFiniteSet(S)
    BY <1>2, SpentType
  <2>2. \A t \in S : t \in Critical /\ ~BegunIn(log, t)
    BY <1>1, <1>3, NothingSince DEF Since
  <2>3. \A t \in S : h.served[t] = 0
    BY <1>3, <2>2
  <2>4. SumFunctionOnSet(h.served, S) = 0
    BY <2>1, <2>3, SumZero
  <2> QED
    BY <2>4 DEF Spent
<1>4. CASE \E t \in Txn, at \in Nat : h = Accepted(t, at)
  <2>1. h.served = served
    BY <1>4 DEF Accepted, Half
  <2> QED
    BY <1>2, <1>3, <2>1 DEF BudgetInv, Balanced
<1>5. CASE \E e \in ends : h = Ended(e)
  <2>1. PICK e \in ends : h = Ended(e)
    BY <1>5
  <2> DEFINE p == e.pending
  <2>2. h.served = Moved(p) /\ h.ends = ends \ {e}
    BY <2>1 DEF Ended, Half
  <2>3. /\ p \in Pending /\ Moved(p) \in [Txn -> Nat]
        /\ \A u \in Txn : u # p.tx => Moved(p)[u] = served[u]
        /\ p.tx \in S => Spent(Moved(p), S) <= Spent(served, S) + TokenCost(p)
        /\ p.tx \notin S => Spent(Moved(p), S) = Spent(served, S)
    BY <1>1, <1>2, SliceSpends
  <2>4. \A t \in Critical : ~BegunIn(log, t) => h.served[t] = 0
    BY <1>1, <2>2, <2>3 DEF BudgetInv, Critical
  <2>5. ASSUME last_refill >= from
        PROVE  Spent(h.served, S) + tokens <= Income(from)
    <3>1. /\ Spent(served, S) \in Nat /\ Spent(Moved(p), S) \in Nat /\ TokenCost(p) \in Nat
          /\ tokens \in Nat /\ Income(from) \in Nat
      BY <1>1, <1>2, <2>3, <2>5, SpentType, SliceType, IncomeType DEF BusTypeOK
    <3>2. /\ Spent(served, S) + tokens <= Income(from)
          /\ p.tx \in S => Spent(served, S) + TokenCost(p) + tokens <= Income(from)
      BY <2>5 DEF BudgetInv, Balanced
    <3> HIDE DEF p, S
    <3>3. Spent(Moved(p), S) + tokens <= Income(from)
      BY <2>3, <3>1, <3>2
    <3> QED
      BY <2>2, <3>3
  <2>6. h.ends # ends
    BY <2>1, <2>2
  <2> QED
    BY <1>2, <1>3, <2>4, <2>5, <2>6
<1> QED
  BY <1>4, <1>5

\* refill_tokens() adds no more than the time since the last refill is worth, and leaves
\* no more than a full bucket.
LEMMA RefillBudget ==
  ASSUME AccountsInv, NEW at \in Nat, NEW from \in Nat, last_refill <= at, from <= at,
         NEW spent \in Nat, last_refill >= from => spent + tokens <= Income(from),
         last_refill < from => spent = 0
  PROVE  spent + Refilled(at) <= TokenCapacity + TokenRefill * (at - from)
<1>1. /\ TokenCapacity \in Nat /\ TokenRefill \in Nat /\ last_refill \in Nat /\ tokens \in Nat
      /\ Refilled(at) \in 0..TokenCapacity
  BY QosAssumption, RefilledType DEF AccountsInv
<1>2. CASE last_refill < from
  <2>1. at - from \in Nat
    OBVIOUS
  <2>2. TokenRefill * (at - from) \in Nat
    BY <1>1, <2>1, ProductNat
  <2> QED
    BY <1>1, <1>2, <2>2
<1>3. CASE last_refill >= from
  <2> DEFINE c == last_refill - from
  <2> DEFINE d == at - last_refill
  <2>1. c \in Nat /\ d \in Nat /\ at - from = c + d
    BY <1>1, <1>3
  <2>2. spent + tokens <= TokenCapacity + TokenRefill * c
    BY <1>3 DEF Income
  <2>3. Refilled(at) = IF at > last_refill THEN Smaller(TokenCapacity, tokens + d * TokenRefill)
                       ELSE tokens
    BY DEF Refilled
  <2> HIDE DEF c, d
  <2>4. d * TokenRefill \in Nat /\ TokenRefill * c \in Nat
    BY <1>1, <2>1, ProductNat
  <2>5. TokenRefill * (c + d) = TokenRefill * c + d * TokenRefill
    BY <1>1, <2>1
  <2>6. Refilled(at) <= tokens + d * TokenRefill
    BY <1>1, <2>3, <2>4 DEF Smaller
  <2>7. spent + Refilled(at) <= TokenCapacity + TokenRefill * (c + d)
    BY <1>1, <2>2, <2>4, <2>5, <2>6
  <2> QED
    BY <2>1, <2>7
<1> QED
  BY <1>1, <1>2, <1>3

LEMMA HalfExtends ==
  ASSUME BusTypeOK, NEW h, HalfInv(h, Exempt),
         \/ \E t \in Txn, at \in Nat : log[t] = <<>> /\ h = Accepted(t, at)
         \/ \E e \in ends : h = Ended(e)
  PROVE  log \in Logs /\ h.log \in Logs /\ Extends(log, h.log, h.at)
<1>1. log \in Logs /\ h.log \in Logs /\ h.at \in Nat
  BY DEF BusTypeOK, Logs, HalfInv, HalfStep
<1>2. \A T : \A ev \in Milestones : Extends(log, Emit(log, T, ev, h.at), h.at)
  BY <1>1, EmitExtends
<1>3. Extends(log, log, h.at)
  <2>1. \A t \in Txn : Len(log[t]) \in Nat
    BY <1>1 DEF Logs
  <2> QED
    BY <2>1 DEF Extends
<1>4. CASE \E t \in Txn, at \in Nat : h = Accepted(t, at)
  <2>1. PICK t \in Txn, at \in Nat : h = Accepted(t, at)
    BY <1>4
  <2>2. h.at = at /\ h.log = Emit(log, {t}, "Arrive", at)
    BY <2>1 DEF Accepted, Half
  <2> QED
    BY <1>1, <1>2, <2>2 DEF Milestones
<1>5. CASE \E e \in ends : h = Ended(e)
  <2>1. PICK e \in ends : h = Ended(e)
    BY <1>5
  <2> DEFINE t == ServedOnce(e.pending).tx
  <2>2. /\ h.at = e.at
        /\ \/ h.log = Emit(log, {t}, "Complete", e.at)
           \/ h.log = Emit(log, {t}, "Drop", e.at)
           \/ h.log = log
    BY <2>1 DEF Ended, Half
  <2> HIDE DEF t
  <2> QED
    BY <1>1, <1>2, <1>3, <2>2 DEF Milestones
<1> QED
  BY <1>1, <1>4, <1>5

LEMMA PickExtends ==
  ASSUME NEW lg \in Logs, lg = log, NEW h, h.log \in Logs, h.at \in Nat,
         Extends(lg, h.log, h.at), NEW dropped,
         Rest(h, dropped) \/ \E p : Serve(h, dropped, p)
  PROVE  log' \in Logs /\ Extends(lg, log', h.at)
<1> DEFINE lg1 == Emit(h.log, dropped, "Drop", h.at)
<1>1. lg1 \in Logs /\ Extends(h.log, lg1, h.at)
  BY EmitExtends DEF Milestones
<1>2. Extends(lg, lg1, h.at)
  BY <1>1, ExtendsTwice
<1>3. CASE log' = lg1
  BY <1>1, <1>2, <1>3
<1>4. CASE \E p : log' = Emit(lg1, {p.tx}, "ServiceStart", h.at)
  <2>1. PICK p : log' = Emit(lg1, {p.tx}, "ServiceStart", h.at)
    BY <1>4
  <2> HIDE DEF lg1
  <2>2. log' \in Logs /\ Extends(lg1, log', h.at)
    BY <1>1, <2>1, EmitExtends DEF Milestones
  <2> QED
    BY <1>1, <1>2, <2>2, ExtendsTwice
<1>5. log' = lg1 \/ \E p : log' = Emit(lg1, {p.tx}, "ServiceStart", h.at)
  BY DEF Rest, Serve
<1> QED
  BY <1>3, <1>4, <1>5

\* What a pick does to the books: it pays for the slice if that is of the critical class.
LEMMA PickPays ==
  ASSUME AccountsInv, NEW h, h.ends = {}, h.log \in Logs, h.at \in Nat, last_refill <= h.at,
         NEW q, QueuesInv(q, h.log, h.at), PickNext(h, q)
  PROVE  /\ last_refill' = h.at
         /\ \E dropped : Rest(h, dropped) \/ \E p : Serve(h, dropped, p)
         /\ tokens' \in Nat /\ tokens' <= Refilled(h.at)
         /\ \A e \in ends' : e.pending.tx \in Critical =>
              TokenCost(e.pending) \in Nat /\ TokenCost(e.pending) + tokens' <= Refilled(h.at)
<1> DEFINE critical == q["critical"]
<1>1. PICK n \in 0..Len(critical) :
        LET dropped == TxnsOf(SubSeq(critical, 1, n))
            rest    == SubSeq(critical, n + 1, Len(critical))
            q1      == [q EXCEPT !["critical"] = rest]
            tok     == Refilled(h.at)
        IN /\ StalePrefix(critical, n, h.at)
           /\ last_refill' = Larger(last_refill, h.at)
           /\ \/ Affordable(rest, tok) /\ TakeCritical(h, q1, dropped, tok)
              \/ \E c \in PreferredBulk(q1) : TakeBulk(h, q1, dropped, tok, c)
              \/ TakeNone(h, q1, dropped, tok)
  BY DEF PickNext
<1> DEFINE dropped == TxnsOf(SubSeq(critical, 1, n))
<1> DEFINE rest == SubSeq(critical, n + 1, Len(critical))
<1> DEFINE q1 == [q EXCEPT !["critical"] = rest]
<1> DEFINE tok == Refilled(h.at)
<1>2. QueuesInv(q1, h.log, h.at) /\ q1["critical"] = rest
  <2>1. QueuesInv(q1, h.log, h.at)
    BY <1>1, RestOfCritical
  <2> QED
    BY <2>1 DEF QueuesInv, QosTags
<1>3. tok \in Nat
  <2>1. TokenCapacity \in Nat
    BY QosAssumption
  <2>2. Refilled(h.at) \in 0..TokenCapacity
    BY RefilledType
  <2> QED
    BY <2>1, <2>2
<1>4. last_refill' = h.at
  BY <1>1 DEF AccountsInv, Larger
<1>5. \/ Affordable(rest, tok) /\ TakeCritical(h, q1, dropped, tok)
      \/ \E c \in PreferredBulk(q1) : TakeBulk(h, q1, dropped, tok, c)
      \/ TakeNone(h, q1, dropped, tok)
  BY <1>1
<1> HIDE DEF critical, dropped, rest, q1, tok
<1>6. CASE Affordable(rest, tok) /\ TakeCritical(h, q1, dropped, tok)
  <2> DEFINE p == Head(q1["critical"])
  <2>1. p \in Pending
    BY <1>2, <1>6, PopFrontInv DEF Affordable, Waiting, QosTags
  <2>2. tok >= TokenCost(p) /\ TokenCost(p) \in Nat
    BY <1>2, <1>6, <2>1, SliceType DEF Affordable
  <2>3. tokens' = tok - TokenCost(p) /\ Serve(h, dropped, p)
    BY <1>6 DEF TakeCritical, Spend
  <2> HIDE DEF p
  <2>4. \A e \in ends' : TokenCost(e.pending) = TokenCost(p)
    BY <2>1, <2>3 DEF Serve, Marked, Pending, TokenCost, SliceBytes
  <2>5. /\ tokens' \in Nat /\ tokens' <= tok
        /\ \A e \in ends' : TokenCost(e.pending) \in Nat /\ TokenCost(e.pending) + tokens' <= tok
    BY <1>3, <2>2, <2>3, <2>4
  <2> QED
    BY <1>4, <2>3, <2>5 DEF tok
<1>7. ASSUME tokens' = tok, \A e \in ends' : e.pending.tx \notin Critical,
             Rest(h, dropped) \/ \E p : Serve(h, dropped, p)
      PROVE  /\ \E D : Rest(h, D) \/ \E p : Serve(h, D, p)
             /\ tokens' \in Nat /\ tokens' <= Refilled(h.at)
             /\ \A e \in ends' : e.pending.tx \notin Critical
  <2>1. \E D : Rest(h, D) \/ \E p : Serve(h, D, p)
    BY <1>7, Zenon
  <2>2. tokens' \in Nat /\ tokens' <= tok
    BY <1>3, <1>7
  <2> QED
    BY <1>7, <2>1, <2>2 DEF tok
<1>8. CASE \E c \in PreferredBulk(q1) : TakeBulk(h, q1, dropped, tok, c)
  <2>1. PICK c \in PreferredBulk(q1) : TakeBulk(h, q1, dropped, tok, c)
    BY <1>8
  <2>2. c \in BulkTags /\ c \in QosTags /\ q1[c] # <<>> /\ c # "critical"
    BY <2>1 DEF PreferredBulk, BulkTags, QosTags
  <2> DEFINE p == Head(q1[c])
  <2>3. p \in Pending /\ ClassOf(p.tx) = c
    BY <1>2, <2>2, PopFrontInv DEF Waiting
  <2>4. tokens' = tok /\ Serve(h, dropped, p)
    BY <2>1 DEF TakeBulk
  <2> HIDE DEF p
  <2>5. \A e \in ends' : e.pending.tx = p.tx
    BY <2>3, <2>4, MarkedType DEF Serve
  <2>6. \A e \in ends' : e.pending.tx \notin Critical
    BY <2>2, <2>3, <2>5 DEF Critical
  <2> QED
    BY <1>4, <1>7, <2>4, <2>6
<1>9. CASE TakeNone(h, q1, dropped, tok)
  <2>1. tokens' = tok /\ Rest(h, dropped)
    BY <1>9 DEF TakeNone
  <2>2. ends' = {}
    BY <2>1 DEF Rest
  <2> QED
    BY <1>4, <1>7, <2>1, <2>2
<1> QED
  BY <1>5, <1>6, <1>8, <1>9

LEMMA StillWithin ==
  ASSUME NEW a \in Nat, NEW b \in Nat, NEW c \in Nat, NEW d \in Nat, NEW limit \in Nat,
         a <= c, b <= d, c + d <= limit
  PROVE  a + b <= limit
OBVIOUS

LEMMA PickNextBudget ==
  ASSUME BusTypeOK, AccountsInv, NEW from \in Nat, BudgetInv(from),
         NEW h, h.ends = {}, h.log \in Logs, h.at \in Nat, Keep(h), Extends(log, h.log, h.at),
         last_refill <= h.at, h.served \in [Txn -> Nat],
         \A t \in Critical : ~BegunIn(log, t) => h.served[t] = 0,
         last_refill >= from => Spent(h.served, Since(from, log)) + tokens <= Income(from),
         last_refill < from => Spent(h.served, Since(from, log)) = 0,
         NEW q, QueuesInv(q, h.log, h.at), PickNext(h, q)
  PROVE  BudgetInv(from)'
<1> DEFINE S == Since(from, log)
<1> DEFINE lg2 == log'
<1> DEFINE spent == Spent(h.served, S)
<1>1. /\ last_refill' = h.at
      /\ \E dropped : Rest(h, dropped) \/ \E p : Serve(h, dropped, p)
      /\ tokens' \in Nat /\ tokens' <= Refilled(h.at)
      /\ \A e \in ends' : e.pending.tx \in Critical =>
           TokenCost(e.pending) \in Nat /\ TokenCost(e.pending) + tokens' <= Refilled(h.at)
  BY PickPays
<1>2. log \in Logs /\ lg2 \in Logs /\ Extends(log, lg2, h.at)
  <2>1. log \in Logs
    BY DEF BusTypeOK, Logs
  <2> QED
    BY <1>1, <2>1, PickExtends
<1>3. now' = h.at /\ served' = h.served
  BY DEF Keep
<1>4. Dated(lg2, h.at)
  BY <1>2, DatesStay DEF BudgetInv, AccountsInv
<1>5. \A t \in Critical : ~BegunIn(lg2, t) => h.served[t] = 0
  BY <1>2, BegunStays DEF Critical
<1>6. S \in SUBSET Critical /\ Since(from, lg2) \in SUBSET S
  BY <1>2, SinceShrinks DEF Since
<1>7. Spent(h.served, Since(from, lg2)) <= spent
      /\ Spent(h.served, Since(from, lg2)) \in Nat /\ spent \in Nat
  BY <1>6, FewerSpent, SpentType
<1>8. ASSUME h.at >= from
      PROVE  Balanced(from)'
  <2> DEFINE income == TokenCapacity + TokenRefill * (h.at - from)
  <2> DEFINE tok == Refilled(h.at)
  <2> DEFINE less == Spent(h.served, Since(from, lg2))
  <2>1. spent + tok <= income
    BY <1>7, <1>8, RefillBudget
  <2>2. tok \in Nat /\ income \in Nat
    <3>1. TokenCapacity \in Nat /\ TokenRefill \in Nat /\ h.at - from \in Nat
      BY <1>8, QosAssumption
    <3> QED
      BY <3>1, RefilledType, ProductNat
  <2>3. /\ Income(from)' = income
        /\ Spent(served, Since(from, log))' = less
        /\ Since(from, log)' = Since(from, lg2)
    BY <1>1, <1>3 DEF Income, Spent, Since, BegunIn
  <2>4. Since(from, lg2) \subseteq Critical
    BY DEF Since
  <2> HIDE DEF income, tok, less, spent, S, lg2
  <2>5. less <= spent /\ less \in Nat /\ spent \in Nat
    BY <1>7 DEF less
  <2>6. tokens' \in Nat /\ tokens' <= tok
    BY <1>1 DEF tok
  <2>7. less + tokens' <= income
    BY <2>1, <2>2, <2>5, <2>6, StillWithin
  <2>8. ASSUME NEW e \in ends', e.pending.tx \in Since(from, lg2)
        PROVE  less + TokenCost(e.pending) + tokens' <= income
    <3>1. TokenCost(e.pending) \in Nat /\ TokenCost(e.pending) + tokens' <= tok
      BY <1>1, <2>4, <2>8 DEF tok
    <3>2. TokenCost(e.pending) + tokens' \in Nat
      BY <2>6, <3>1
    <3>3. less + (TokenCost(e.pending) + tokens') <= income
      BY <2>1, <2>2, <2>5, <3>1, <3>2, StillWithin
    <3> QED
      BY <2>5, <2>6, <3>1, <3>3
  <2> QED
    BY <2>3, <2>7, <2>8 DEF Balanced
<1>9. last_refill' <= now'
  BY <1>1, <1>3
<1>10. Dated(log, last_refill)'
  BY <1>1, <1>4 DEF Dated, BegunIn
<1>11. \A t \in Critical : ~BegunIn(log', t) => served'[t] = 0
  BY <1>3, <1>5
<1>12. last_refill' >= from => Balanced(from)'
  BY <1>1, <1>8
<1> QED
  BY <1>9, <1>10, <1>11, <1>12 DEF BudgetInv, Critical, BegunIn

\* An arrival at a busy bus leaves the books as they are.
LEMMA ArrivalBudget ==
  ASSUME BusTypeOK, NEW from \in Nat, BudgetInv(from), NEW t \in Txn, NEW at \in Nat,
         log[t] = <<>>, log' = Emit(log, {t}, "Arrive", at), now' \in Nat, now' >= now,
         last_refill \in Nat, UNCHANGED <<ends, served, tokens, last_refill>>
  PROVE  BudgetInv(from)'
<1>1. ASSUME NEW u \in Txn
      PROVE  /\ BegunIn(log', u) <=> BegunIn(log, u)
             /\ BegunIn(log', u) => log'[u] = log[u]
  <2>1. CASE u = t
    <3> DEFINE r == [ev |-> "Arrive", at |-> at]
    <3>1. log'[u] = Append(<<>>, r)
      BY <2>1 DEF Emit
    <3> HIDE DEF r
    <3>2. <<>> \in Seq({r}) /\ Len(<<>>) = 0
      OBVIOUS
    <3>3. Len(Append(<<>>, r)) = 1
      BY <3>2, AppendProperties
    <3>4. Len(log'[u]) = 1 /\ Len(log[u]) = 0
      BY <2>1, <3>1, <3>2, <3>3
    <3> QED
      BY <3>4 DEF BegunIn
  <2>2. CASE u # t
    <3>1. log'[u] = log[u]
      BY <2>2 DEF Emit
    <3> QED
      BY <3>1 DEF BegunIn
  <2> QED
    BY <2>1, <2>2
<1>2. Since(from, log)' = Since(from, log)
  <2>1. ASSUME NEW u \in Critical
        PROVE  (BegunIn(log', u) /\ log'[u][2].at < from) <=> (BegunIn(log, u) /\ log[u][2].at < from)
    BY <1>1 DEF Critical
  <2>2. Since(from, log)' = {u \in Critical : ~(BegunIn(log', u) /\ log'[u][2].at < from)}
    BY DEF Since, Critical, BegunIn
  <2> QED
    BY <2>1, <2>2 DEF Since
<1>3. last_refill >= from => Balanced(from)'
  BY <1>2 DEF BudgetInv, Balanced, Spent, Income
<1>4. Dated(log, last_refill)'
  <2>1. \A u \in Txn : BegunIn(log', u) => log'[u][2].at <= last_refill
    BY <1>1 DEF BudgetInv, Dated
  <2> QED
    BY <2>1 DEF Dated, BegunIn
<1>5. last_refill' <= now'
  <2>1. last_refill <= now /\ now \in Nat
    BY DEF BudgetInv, BusTypeOK
  <2> QED
    BY <2>1
<1>6. \A u \in Critical : ~BegunIn(log', u) => served'[u] = 0
  BY <1>1 DEF BudgetInv, Critical
<1> QED
  BY <1>3, <1>4, <1>5, <1>6 DEF BudgetInv, Critical, BegunIn

LEMMA NextBudget ==
  ASSUME SlicesFit, RInv, NEW from \in Nat, BudgetInv(from), [Next]_vars
  PROVE  BudgetInv(from)'
<1>1. IInv /\ BusTypeOK /\ AccountsInv /\ last_refill <= now /\ last_refill \in Nat /\ now \in Nat
  BY DEF RInv, IInv, AccountsInv, BudgetInv, BusInv, BusTypeOK
<1>2. CASE Next
  <2>1. PICK h : /\ HalfInv(h, Exempt) /\ Keep(h)
                 /\ \/ \E t \in Txn, at \in Nat : log[t] = <<>> /\ h = Accepted(t, at)
                    \/ \E e \in ends : h = Ended(e)
                 /\ \/ h.ends = {} /\ \E q : QueuesInv(q, h.log, h.at) /\ PickNext(h, q)
                    \/ /\ ends' = h.ends /\ h.ends = ends /\ log' = h.log
                       /\ tokens' = tokens /\ last_refill' = last_refill
    BY <1>1, <1>2, StepPicks
  <2>2. /\ h.log \in Logs /\ h.at \in Nat /\ h.at >= now /\ last_refill <= h.at
        /\ now' = h.at /\ served' = h.served
    BY <1>1, <2>1 DEF HalfInv, HalfStep, Keep
  <2>3. /\ h.served \in [Txn -> Nat]
        /\ \A t \in Critical : ~BegunIn(log, t) => h.served[t] = 0
        /\ last_refill >= from => Spent(h.served, Since(from, log)) + tokens <= Income(from)
        /\ last_refill < from => Spent(h.served, Since(from, log)) = 0
        /\ h.ends = ends => h.served = served
    BY <2>1, HalfBudget
  <2>4. CASE h.ends = {} /\ \E q : QueuesInv(q, h.log, h.at) /\ PickNext(h, q)
    <3>1. Extends(log, h.log, h.at)
      BY <1>1, <2>1, HalfExtends
    <3>2. PICK q : QueuesInv(q, h.log, h.at) /\ PickNext(h, q)
      BY <2>4
    <3> QED
      BY <1>1, <2>1, <2>2, <2>3, <2>4, <3>1, <3>2, PickNextBudget
  <2>5. CASE /\ ends' = h.ends /\ h.ends = ends /\ log' = h.log
             /\ tokens' = tokens /\ last_refill' = last_refill
    <3>1. ASSUME NEW e \in ends
          PROVE  h # Ended(e)
      <4>1. Ended(e).ends = ends \ {e}
        BY DEF Ended, Half
      <4> QED
        BY <2>5, <4>1
    <3>2. PICK t \in Txn, at \in Nat : log[t] = <<>> /\ h = Accepted(t, at)
      BY <2>1, <3>1
    <3>3. log' = Emit(log, {t}, "Arrive", at)
      BY <2>5, <3>2 DEF Accepted, Half
    <3>4. UNCHANGED <<ends, served, tokens, last_refill>> /\ now' \in Nat /\ now' >= now
      BY <2>2, <2>3, <2>5
    <3> QED
      BY <1>1, <3>2, <3>3, <3>4, ArrivalBudget
  <2> QED
    BY <2>1, <2>4, <2>5
<1>3. CASE UNCHANGED vars
  BY <1>3 DEF vars, BudgetInv, Balanced, Spent, Income, Since, Dated, BegunIn, Critical
<1> QED
  BY <1>2, <1>3

\* The books since every moment.
Books == \A from \in Nat : BudgetInv(from)

LEMMA InitBooks == Init => Books
<1> SUFFICES ASSUME Init, NEW from \in Nat
             PROVE  BudgetInv(from)
  BY DEF Books
<1>1. /\ now = 0 /\ last_refill = 0 /\ tokens = TokenCapacity /\ ends = {}
      /\ \A t \in Txn : served[t] = 0 /\ log[t] = <<>>
  BY DEF Init, BusInit
<1>2. \A t \in Txn : ~BegunIn(log, t)
  BY <1>1 DEF BegunIn
<1>3. \A t \in Critical : served[t] = 0
  BY <1>1 DEF Critical
<1>4. SumFunctionOnSet(served, Since(from, log)) = 0
  <2>1. Since(from, log) \in SUBSET Txn /\ \A t \in Since(from, log) : served[t] = 0
    BY <1>3 DEF Since, Critical
  <2>2. IsFiniteSet(Since(from, log))
    BY <2>1, TxnAssumption, FS_Subset
  <2> QED
    BY <2>1, <2>2, SumZero
<1>5. last_refill >= from => Balanced(from)
  <2> SUFFICES ASSUME last_refill >= from
               PROVE  Balanced(from)
    OBVIOUS
  <2>1. from = 0 /\ TokenRefill \in Nat /\ TokenCapacity \in Nat
    BY <1>1, QosAssumption
  <2>2. TokenRefill * (last_refill - from) = 0
    BY <1>1, <2>1
  <2> QED
    BY <1>1, <1>4, <2>1, <2>2 DEF Balanced, Spent, Income
<1> QED
  BY <1>1, <1>2, <1>3, <1>5 DEF BudgetInv, Dated

(***************************************************************************)
(* The rate limit, over every stretch of time and for every configuration  *)
(* in which a critical slice moves no more than it is charged: the time    *)
(* since a refill is paid once however the refills fall, no more than a    *)
(* bucket is left of an earlier time, a slice is paid before it is served, *)
(* and what the partial slices leave over is not spent.                    *)
(***************************************************************************)
THEOREM WithinBudget ==
  ASSUME SlicesFit
  PROVE  Spec => []CriticalWithinBudget
<1>1. RInv /\ Books /\ [Next]_vars => RInv' /\ Books'
  <2> SUFFICES ASSUME RInv, Books, [Next]_vars
               PROVE  RInv' /\ Books'
    OBVIOUS
  <2>1. RInv'
    BY StepRefines
  <2>2. ASSUME NEW from \in Nat
        PROVE  BudgetInv(from)'
    BY NextBudget DEF Books
  <2>3. Books'
    BY <2>2 DEF Books
  <2> QED
    BY <2>1, <2>3
<1>2. RInv /\ Books => CriticalWithinBudget
  <2> SUFFICES ASSUME RInv, Books, NEW from \in 0..now
               PROVE  WithinBudgetSince(from)
    BY DEF CriticalWithinBudget
  <2>1. /\ last_refill <= now /\ last_refill \in Nat /\ now \in Nat /\ from \in Nat /\ from <= now
        /\ TokenRefill \in Nat /\ TokenCapacity \in Nat /\ BusTypeOK /\ AccountsInv
        /\ served \in [Txn -> Nat]
    <3>1. now \in Nat /\ BusTypeOK /\ AccountsInv
      BY DEF RInv, IInv, BusInv, BusTypeOK
    <3>2. from \in Nat
      BY <3>1
    <3>3. BudgetInv(from)
      BY <3>2 DEF Books
    <3> QED
      BY <3>1, <3>2, <3>3, QosAssumption DEF BudgetInv, AccountsInv, BusTypeOK
  <2>2. BudgetInv(from)
    BY <2>1 DEF Books
  <2> DEFINE S == Since(from, log)
  <2> DEFINE some == Spent(served, CriticalSince(from))
  <2> DEFINE all == Spent(served, S)
  <2>3. S \in SUBSET Critical /\ CriticalSince(from) \in SUBSET S
    <3>1. S \in SUBSET Critical
      BY DEF Since
    <3>2. ASSUME NEW t \in CriticalSince(from)
          PROVE  t \in S
      <4>1. t \in Txn /\ t \in Critical /\ BegunIn(log, t) /\ log[t][2].at >= from
        BY DEF CriticalSince, Critical, BegunIn, Started
      <4>2. log[t][2].at \in Nat
        <5>1. log[t] \in Seq(Record) /\ 2 \in 1..Len(log[t])
          BY <2>1, <4>1 DEF BusTypeOK, BegunIn
        <5>2. log[t][2] \in Record
          BY <5>1
        <5> QED
          BY <5>2 DEF Record
      <4> QED
        BY <2>1, <4>1, <4>2 DEF Since
    <3> QED
      BY <3>1, <3>2
  <2>4. some <= all /\ some \in Nat /\ all \in Nat
    BY <2>1, <2>3, FewerSpent, SpentType
  <2>5. TokenRefill * (now - from) \in Nat
    <3>1. now - from \in Nat
      BY <2>1
    <3> QED
      BY <2>1, <3>1, ProductNat
  <2>6. CASE last_refill < from
    <3>1. \A t \in S : served[t] = 0
      BY <2>1, <2>2, <2>6, NothingSince
    <3>2. IsFiniteSet(S)
      BY <2>1, <2>3, SpentType
    <3>3. all = 0
      BY <3>1, <3>2, SumZero DEF Spent
    <3>4. some <= TokenCapacity + TokenRefill * (now - from)
      BY <2>1, <2>4, <2>5, <3>3
    <3> QED
      BY <3>4 DEF WithinBudgetSince, Spent
  <2>7. CASE last_refill >= from
    <3>1. all + tokens <= Income(from) /\ tokens \in Nat
      BY <2>1, <2>2, <2>7, IncomeType DEF BudgetInv, Balanced
    <3> DEFINE c == last_refill - from
    <3> DEFINE d == now - from
    <3>2. c \in Nat /\ d \in Nat /\ c <= d
      BY <2>1, <2>7
    <3>3. Income(from) = TokenCapacity + TokenRefill * c
      BY DEF Income
    <3> HIDE DEF c, d, some, all
    <3>4. TokenRefill * c <= TokenRefill * d /\ TokenRefill * c \in Nat /\ TokenRefill * d \in Nat
      BY <2>1, <3>2, ProductMonotonic, ProductNat
    <3>5. some <= TokenCapacity + TokenRefill * d
      BY <2>1, <2>4, <3>1, <3>3, <3>4
    <3> QED
      BY <3>5 DEF WithinBudgetSince, Spent, d, some
  <2> QED
    BY <2>1, <2>6, <2>7
<1>3. Init => RInv /\ Books
  BY InitRefines, InitBooks
<1> QED
  BY <1>1, <1>2, <1>3, PTL DEF Spec
-----------------------------------------------------------------------------
(***************************************************************************)
(* What the proofs about Simulation take from here.                        *)
(***************************************************************************)
LEMMA InitHolds == Init => RInv
BY InitRefines

LEMMA BusFacts ==
  RInv => /\ now \in Nat
          /\ \A q \in ends : q.at \in Nat /\ q.at >= now
          /\ \A q, r \in ends : q = r
BY DEF RInv, IInv, BusInv, BusTypeOK, OneTransferAtATime, QuantumEvent

\* accept() writes the first record of its transaction and of no other.
LEMMA AcceptIssues ==
  ASSUME RInv, NEW t \in Txn, NEW at \in 0..MaxTime, Arrival(t, at)
  PROVE  /\ RInv'
         /\ now' = at
         /\ log'[t] # <<>> /\ log'[t][1].at = at
         /\ \A u \in Txn \ {t} : /\ (log'[u] # <<>> <=> log[u] # <<>>)
                                /\ (log[u] # <<>> => log'[u][1] = log[u][1])
<1>1. RInv' /\ Went(Accepted(t, at))
  BY ArrivalRefines
<1>2. BusInv(Exempt) /\ at \in Nat /\ log[t] = <<>> /\ at >= now
  BY TimeAssumption DEF RInv, IInv, Arrival, MayArrive
<1> QED
  BY <1>1, <1>2, IssueWrites

LEMMA QuantumEndIssues ==
  ASSUME RInv, QuantumEnd
  PROVE  /\ RInv'
         /\ \E e \in ends : now' = e.at
         /\ \A u \in Txn : /\ (log'[u] # <<>> <=> log[u] # <<>>)
                          /\ (log[u] # <<>> => log'[u][1] = log[u][1])
<1>1. RInv' /\ \E f \in ends : Went(Ended(f))
  BY QuantumEndRefines
<1>2. BusInv(Exempt)
  BY DEF RInv, IInv
<1> QED
  BY <1>1, <1>2, EndWrites

\* Time may pass at other events, as long as no quantum end is due.
LEMMA TimePasses ==
  ASSUME RInv, now' \in Nat, now' >= now, \A e \in ends : e.at >= now',
         UNCHANGED <<bus_idle, ends, log, kpi, loaded, served, queue>>,
         UNCHANGED <<tokens, last_refill, vfin>>
  PROVE  RInv'
<1>1. BusInv(Exempt) /\ log \in Logs /\ now \in Nat
  BY DEF RInv, IInv, BusInv, BusTypeOK, Logs
<1>2. \A e \in ends : e.pending \in Pending
  BY <1>1 DEF BusInv, BusTypeOK, QuantumEvent
<1>3. \A e \in ends : Known(e.pending, log, now')
  BY <1>1, <1>2, KnownContinues DEF BusInv, Continues
<1>4. BusInv(Exempt)'
  <2>1. BusTypeOK'
    BY <1>1 DEF BusInv, BusTypeOK
  <2>2. OneTransferAtATime'
    BY <1>1 DEF BusInv, OneTransferAtATime
  <2>3. Honours(log', Exempt)
    BY <1>1 DEF BusInv
  <2> QED
    BY <1>3, <2>1, <2>2, <2>3 DEF BusInv
<1>5. QueuesInv(queue, log, now')
  BY <1>1, QueuesContinue DEF RInv, IInv, Continues
<1>6. IInv'
  BY <1>4, <1>5 DEF RInv, IInv, AccountsInv, IdleOnlyWhenThrottled, Affordable
<1> QED
  BY <1>6 DEF RInv, Served
=============================================================================
