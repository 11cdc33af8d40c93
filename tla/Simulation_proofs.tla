-------------------------- MODULE Simulation_proofs --------------------------
(***************************************************************************)
(* Theorems about Simulation, for any runs (policies, predictors, bursts), *)
(* any NPCs, any configuration with positive bandwidths, quanta and rates, *)
(* and any transactions: the agenda stays sound, what the program does on  *)
(* the bus is what FifoScheduler and QosScheduler allow, and the traffic   *)
(* keeps its schedule.                                                     *)
(*                                                                         *)
(* FP and QP are the two schedulers with their proofs.  Each definition of *)
(* theirs is that of the same name in Fifo or Qos, but has to be shown to  *)
(* be, from the bottom up: FifoSteps and QosSteps are what comes of it.    *)
(***************************************************************************)
EXTENDS Simulation, FiniteSetTheorems, TLAPS

FP == INSTANCE FifoScheduler_proofs
QP == INSTANCE QosScheduler_proofs

-----------------------------------------------------------------------------
(***************************************************************************)
(* Fifo is FP.                                                             *)
(***************************************************************************)
LEMMA FifoInit == Fifo!Init => FP!Init
BY DEF
     Fifo!Init, FP!Init, Fifo!BusInit, FP!BusInit, Fifo!NoLod, FP!NoLod, Fifo!ZeroKpi,
     FP!ZeroKpi, Fifo!Counters, FP!Counters

LEMMA FifoNumbers ==
  \A t : /\ Fifo!Bandwidth(t) = FP!Bandwidth(t)
         /\ Fifo!QuantumUs(t) = FP!QuantumUs(t)
         /\ Fifo!QuantumBytes(t) = FP!QuantumBytes(t)
         /\ \A at : Fifo!DeadlineOf(t, at) = FP!DeadlineOf(t, at)
BY DEF
     Fifo!QuantumBytes, FP!QuantumBytes, Fifo!Bandwidth, FP!Bandwidth, Fifo!QuantumUs,
     FP!QuantumUs, Fifo!IsNeuroDma, FP!IsNeuroDma, Fifo!IsBounce, FP!IsBounce,
     Fifo!IsCompressed, FP!IsCompressed, Fifo!PathBandwidth, FP!PathBandwidth, Fifo!Boosted,
     FP!Boosted, Fifo!Smaller, FP!Smaller, Fifo!Larger, FP!Larger, Fifo!CeilDiv, FP!CeilDiv,
     Fifo!DeadlineOf, FP!DeadlineOf

LEMMA FifoCosts ==
  \A t : /\ Fifo!CpuCycles(t) = FP!CpuCycles(t)
         /\ Fifo!DecompressCycles(t) = FP!DecompressCycles(t)
         /\ Fifo!SglEntries(t) = FP!SglEntries(t)
BY DEF
     Fifo!CpuCycles, FP!CpuCycles, Fifo!DecompressCycles, FP!DecompressCycles, Fifo!SglEntries,
     FP!SglEntries, Fifo!IsNeuroDma, FP!IsNeuroDma, Fifo!IsBounce, FP!IsBounce,
     Fifo!IsCompressed, FP!IsCompressed, Fifo!CeilDiv, FP!CeilDiv

LEMMA FifoService ==
  \A p : /\ Fifo!ServiceUs(p) = FP!ServiceUs(p)
         /\ Fifo!ServedOnce(p) = FP!ServedOnce(p)
         /\ Fifo!Marked(p) = FP!Marked(p)
         /\ Fifo!Moved(p) = FP!Moved(p)
<1>1. \A p : Fifo!ServiceUs(p) = FP!ServiceUs(p)
  BY FifoNumbers DEF Fifo!ServiceUs, FP!ServiceUs, Fifo!Larger, FP!Larger
<1>2. \A p : Fifo!ServedOnce(p) = FP!ServedOnce(p)
  BY FifoNumbers DEF Fifo!ServedOnce, FP!ServedOnce, Fifo!Smaller, FP!Smaller
<1>3. \A p : Fifo!Marked(p) = FP!Marked(p)
  BY DEF Fifo!Marked, FP!Marked
<1>4. \A p : Fifo!Moved(p) = FP!Moved(p)
  BY <1>2 DEF Fifo!Moved, FP!Moved
<1> QED
  BY <1>1, <1>2, <1>3, <1>4

LEMMA FifoWriting ==
  /\ \A lg, T, ev, at : Fifo!Emit(lg, T, ev, at) = FP!Emit(lg, T, ev, at)
  /\ \A k, T : Fifo!CountDrops(k, T) = FP!CountDrops(k, T)
  /\ \A t : Fifo!IsAudio(t) = FP!IsAudio(t)
  /\ \A k, c, n : Fifo!Bump(k, c, n) = FP!Bump(k, c, n) /\ Fifo!Raise(k, c, n) = FP!Raise(k, c, n)
<1>1. \A lg, T, ev, at : Fifo!Emit(lg, T, ev, at) = FP!Emit(lg, T, ev, at)
  BY DEF Fifo!Emit, FP!Emit
<1>2. \A k, c, n : Fifo!Bump(k, c, n) = FP!Bump(k, c, n) /\ Fifo!Raise(k, c, n) = FP!Raise(k, c, n)
  BY DEF Fifo!Bump, FP!Bump, Fifo!Raise, FP!Raise, Fifo!Larger, FP!Larger
<1>3. \A k, T : Fifo!CountDrops(k, T) = FP!CountDrops(k, T)
  BY DEF
       Fifo!CountDrops, FP!CountDrops, Fifo!CountAudioDrops, FP!CountAudioDrops, Fifo!IsAudio,
       FP!IsAudio, Fifo!Bump, FP!Bump, Fifo!Cardinality, FP!Cardinality
<1>4. \A t : Fifo!IsAudio(t) = FP!IsAudio(t)
  BY DEF Fifo!IsAudio, FP!IsAudio
<1> QED
  BY <1>1, <1>2, <1>3, <1>4

LEMMA FifoCompletion ==
  \A k, t, n : Fifo!CountCompletion(k, t, n) = FP!CountCompletion(k, t, n)
<1>1. \A k, t : Fifo!CountCosts(k, t) = FP!CountCosts(k, t)
  BY FifoCosts, FifoWriting DEF Fifo!CountCosts, FP!CountCosts
<1>2. \A k, t, n : Fifo!CountLatency(k, t, n) = FP!CountLatency(k, t, n)
  BY FifoWriting DEF Fifo!CountLatency, FP!CountLatency
<1> QED
  BY <1>1, <1>2 DEF Fifo!CountCompletion, FP!CountCompletion

LEMMA FifoHalfSteps ==
  /\ \A t, at : Fifo!Accepted(t, at) = FP!Accepted(t, at)
  /\ \A e : Fifo!Ended(e) = FP!Ended(e)
  /\ \A h : Fifo!Keep(h) <=> FP!Keep(h)
<1>1. \A t, at : Fifo!Accepted(t, at) = FP!Accepted(t, at)
  BY FifoNumbers, FifoWriting DEF
       Fifo!Accepted, FP!Accepted, Fifo!Half, FP!Half, Fifo!NewPending, FP!NewPending
<1>2. \A t : Fifo!ToldObserver(t) = FP!ToldObserver(t)
  BY DEF Fifo!ToldObserver, FP!ToldObserver, Fifo!LodOfSize, FP!LodOfSize
<1>3. \A t : Fifo!IssuedAt(t) = FP!IssuedAt(t)
  BY DEF Fifo!IssuedAt, FP!IssuedAt
<1>4. \A p, at : Fifo!PastDeadline(p, at) = FP!PastDeadline(p, at)
  BY DEF Fifo!PastDeadline, FP!PastDeadline
<1>5. \A e : Fifo!Ended(e) = FP!Ended(e)
  BY <1>2, <1>3, <1>4, FifoService, FifoWriting, FifoCompletion DEF
       Fifo!Ended, FP!Ended, Fifo!Half, FP!Half
<1>6. \A h : Fifo!Keep(h) <=> FP!Keep(h)
  BY DEF Fifo!Keep, FP!Keep
<1> QED
  BY <1>1, <1>5, <1>6

LEMMA FifoBus ==
  /\ \A h, D, p : Fifo!Serve(h, D, p) <=> FP!Serve(h, D, p)
  /\ \A h, D : Fifo!Rest(h, D) <=> FP!Rest(h, D)
  /\ \A h : Fifo!KeepServing(h) <=> FP!KeepServing(h)
  /\ \A q, n, at : Fifo!StalePrefix(q, n, at) <=> FP!StalePrefix(q, n, at)
  /\ \A q : Fifo!TxnsOf(q) = FP!TxnsOf(q)
  /\ \A e : Fifo!IsNextEvent(e) <=> FP!IsNextEvent(e)
<1>1. \A h, D, p : Fifo!Serve(h, D, p) <=> FP!Serve(h, D, p)
  BY FifoService, FifoWriting DEF Fifo!Serve, FP!Serve
<1>2. \A h, D : Fifo!Rest(h, D) <=> FP!Rest(h, D)
  BY FifoWriting DEF Fifo!Rest, FP!Rest
<1>3. \A h : Fifo!KeepServing(h) <=> FP!KeepServing(h)
  BY DEF Fifo!KeepServing, FP!KeepServing
<1>4. \A q, n, at : Fifo!StalePrefix(q, n, at) <=> FP!StalePrefix(q, n, at)
  BY DEF Fifo!StalePrefix, FP!StalePrefix, Fifo!Stale, FP!Stale, Fifo!PastDeadline, FP!PastDeadline
<1>5. \A q : Fifo!TxnsOf(q) = FP!TxnsOf(q)
  BY DEF Fifo!TxnsOf, FP!TxnsOf
<1>6. \A e : Fifo!IsNextEvent(e) <=> FP!IsNextEvent(e)
  BY DEF Fifo!IsNextEvent, FP!IsNextEvent
<1> QED
  BY <1>1, <1>2, <1>3, <1>4, <1>5, <1>6

LEMMA FifoSteps ==
  /\ \A t, at : Fifo!Accept(t, at) => FP!Accept(t, at)
  /\ Fifo!QuantumEnd => FP!QuantumEnd
<1>1. \A h, q : Fifo!PickNext(h, q) => FP!PickNext(h, q)
  BY FifoBus DEF
       Fifo!PickNext, FP!PickNext, Fifo!NobodyLeft, FP!NobodyLeft, Fifo!QueueAfterPick,
       FP!QueueAfterPick
<1>2. \A q, a : Fifo!OnArrive(q, a) = FP!OnArrive(q, a)
  BY DEF Fifo!OnArrive, FP!OnArrive
<1>3. \A t, at : Fifo!Accept(t, at) => FP!Accept(t, at)
  BY <1>1, <1>2, FifoHalfSteps, FifoBus DEF Fifo!Accept, FP!Accept
<1>4. Fifo!QuantumEnd => FP!QuantumEnd
  BY <1>1, <1>2, FifoHalfSteps, FifoBus DEF Fifo!QuantumEnd, FP!QuantumEnd
<1> QED
  BY <1>3, <1>4

-----------------------------------------------------------------------------
(***************************************************************************)
(* Qos is QP.                                                              *)
(***************************************************************************)
LEMMA QosInit == Qos!Init => QP!Init
BY DEF
     Qos!QosTags, QP!QosTags, Qos!BulkTags, QP!BulkTags, Qos!TokenCapacity, QP!TokenCapacity,
     Qos!TokenRefill, QP!TokenRefill, Qos!Init, QP!Init, Qos!BusInit, QP!BusInit, Qos!NoLod,
     QP!NoLod, Qos!ZeroKpi, QP!ZeroKpi, Qos!Counters, QP!Counters

LEMMA QosNumbers ==
  \A t : /\ Qos!Bandwidth(t) = QP!Bandwidth(t)
         /\ Qos!QuantumUs(t) = QP!QuantumUs(t)
         /\ Qos!QuantumBytes(t) = QP!QuantumBytes(t)
         /\ \A at : Qos!DeadlineOf(t, at) = QP!DeadlineOf(t, at)
BY DEF
     Qos!QuantumBytes, QP!QuantumBytes, Qos!Bandwidth, QP!Bandwidth, Qos!QuantumUs,
     QP!QuantumUs, Qos!IsNeuroDma, QP!IsNeuroDma, Qos!IsBounce, QP!IsBounce, Qos!IsCompressed,
     QP!IsCompressed, Qos!PathBandwidth, QP!PathBandwidth, Qos!Boosted, QP!Boosted,
     Qos!Smaller, QP!Smaller, Qos!Larger, QP!Larger, Qos!CeilDiv, QP!CeilDiv, Qos!DeadlineOf,
     QP!DeadlineOf

LEMMA QosCosts ==
  \A t : /\ Qos!CpuCycles(t) = QP!CpuCycles(t)
         /\ Qos!DecompressCycles(t) = QP!DecompressCycles(t)
         /\ Qos!SglEntries(t) = QP!SglEntries(t)
BY DEF
     Qos!CpuCycles, QP!CpuCycles, Qos!DecompressCycles, QP!DecompressCycles, Qos!SglEntries,
     QP!SglEntries, Qos!IsNeuroDma, QP!IsNeuroDma, Qos!IsBounce, QP!IsBounce, Qos!IsCompressed,
     QP!IsCompressed, Qos!CeilDiv, QP!CeilDiv

LEMMA QosService ==
  \A p : /\ Qos!ServiceUs(p) = QP!ServiceUs(p)
         /\ Qos!ServedOnce(p) = QP!ServedOnce(p)
         /\ Qos!Marked(p) = QP!Marked(p)
         /\ Qos!Moved(p) = QP!Moved(p)
<1>1. \A p : Qos!ServiceUs(p) = QP!ServiceUs(p)
  BY QosNumbers DEF Qos!ServiceUs, QP!ServiceUs, Qos!Larger, QP!Larger
<1>2. \A p : Qos!ServedOnce(p) = QP!ServedOnce(p)
  BY QosNumbers DEF Qos!ServedOnce, QP!ServedOnce, Qos!Smaller, QP!Smaller
<1>3. \A p : Qos!Marked(p) = QP!Marked(p)
  BY DEF Qos!Marked, QP!Marked
<1>4. \A p : Qos!Moved(p) = QP!Moved(p)
  BY <1>2 DEF Qos!Moved, QP!Moved
<1> QED
  BY <1>1, <1>2, <1>3, <1>4

LEMMA QosWriting ==
  /\ \A lg, T, ev, at : Qos!Emit(lg, T, ev, at) = QP!Emit(lg, T, ev, at)
  /\ \A k, T : Qos!CountDrops(k, T) = QP!CountDrops(k, T)
  /\ \A t : Qos!IsAudio(t) = QP!IsAudio(t)
  /\ \A k, c, n : Qos!Bump(k, c, n) = QP!Bump(k, c, n) /\ Qos!Raise(k, c, n) = QP!Raise(k, c, n)
<1>1. \A lg, T, ev, at : Qos!Emit(lg, T, ev, at) = QP!Emit(lg, T, ev, at)
  BY DEF Qos!Emit, QP!Emit
<1>2. \A k, c, n : Qos!Bump(k, c, n) = QP!Bump(k, c, n) /\ Qos!Raise(k, c, n) = QP!Raise(k, c, n)
  BY DEF Qos!Bump, QP!Bump, Qos!Raise, QP!Raise, Qos!Larger, QP!Larger
<1>3. \A k, T : Qos!CountDrops(k, T) = QP!CountDrops(k, T)
  BY DEF
       Qos!CountDrops, QP!CountDrops, Qos!CountAudioDrops, QP!CountAudioDrops, Qos!IsAudio,
       QP!IsAudio, Qos!Bump, QP!Bump, Qos!Cardinality, QP!Cardinality
<1>4. \A t : Qos!IsAudio(t) = QP!IsAudio(t)
  BY DEF Qos!IsAudio, QP!IsAudio
<1> QED
  BY <1>1, <1>2, <1>3, <1>4

LEMMA QosCompletion ==
  \A k, t, n : Qos!CountCompletion(k, t, n) = QP!CountCompletion(k, t, n)
<1>1. \A k, t : Qos!CountCosts(k, t) = QP!CountCosts(k, t)
  BY QosCosts, QosWriting DEF Qos!CountCosts, QP!CountCosts
<1>2. \A k, t, n : Qos!CountLatency(k, t, n) = QP!CountLatency(k, t, n)
  BY QosWriting DEF Qos!CountLatency, QP!CountLatency
<1> QED
  BY <1>1, <1>2 DEF Qos!CountCompletion, QP!CountCompletion

LEMMA QosHalfSteps ==
  /\ \A t, at : Qos!Accepted(t, at) = QP!Accepted(t, at)
  /\ \A e : Qos!Ended(e) = QP!Ended(e)
  /\ \A h : Qos!Keep(h) <=> QP!Keep(h)
<1>1. \A t, at : Qos!Accepted(t, at) = QP!Accepted(t, at)
  BY QosNumbers, QosWriting DEF
       Qos!Accepted, QP!Accepted, Qos!Half, QP!Half, Qos!NewPending, QP!NewPending
<1>2. \A t : Qos!ToldObserver(t) = QP!ToldObserver(t)
  BY DEF Qos!ToldObserver, QP!ToldObserver, Qos!LodOfSize, QP!LodOfSize
<1>3. \A t : Qos!IssuedAt(t) = QP!IssuedAt(t)
  BY DEF Qos!IssuedAt, QP!IssuedAt
<1>4. \A p, at : Qos!PastDeadline(p, at) = QP!PastDeadline(p, at)
  BY DEF Qos!PastDeadline, QP!PastDeadline
<1>5. \A e : Qos!Ended(e) = QP!Ended(e)
  BY <1>2, <1>3, <1>4, QosService, QosWriting, QosCompletion DEF
       Qos!Ended, QP!Ended, Qos!Half, QP!Half
<1>6. \A h : Qos!Keep(h) <=> QP!Keep(h)
  BY DEF Qos!Keep, QP!Keep
<1> QED
  BY <1>1, <1>5, <1>6

LEMMA QosBus ==
  /\ \A h, D, p : Qos!Serve(h, D, p) <=> QP!Serve(h, D, p)
  /\ \A h, D : Qos!Rest(h, D) <=> QP!Rest(h, D)
  /\ \A h : Qos!KeepServing(h) <=> QP!KeepServing(h)
  /\ \A q, n, at : Qos!StalePrefix(q, n, at) <=> QP!StalePrefix(q, n, at)
  /\ \A q : Qos!TxnsOf(q) = QP!TxnsOf(q)
  /\ \A e : Qos!IsNextEvent(e) <=> QP!IsNextEvent(e)
<1>1. \A h, D, p : Qos!Serve(h, D, p) <=> QP!Serve(h, D, p)
  BY QosService, QosWriting DEF Qos!Serve, QP!Serve
<1>2. \A h, D : Qos!Rest(h, D) <=> QP!Rest(h, D)
  BY QosWriting DEF Qos!Rest, QP!Rest
<1>3. \A h : Qos!KeepServing(h) <=> QP!KeepServing(h)
  BY DEF Qos!KeepServing, QP!KeepServing
<1>4. \A q, n, at : Qos!StalePrefix(q, n, at) <=> QP!StalePrefix(q, n, at)
  BY DEF Qos!StalePrefix, QP!StalePrefix, Qos!Stale, QP!Stale, Qos!PastDeadline, QP!PastDeadline
<1>5. \A q : Qos!TxnsOf(q) = QP!TxnsOf(q)
  BY DEF Qos!TxnsOf, QP!TxnsOf
<1>6. \A e : Qos!IsNextEvent(e) <=> QP!IsNextEvent(e)
  BY DEF Qos!IsNextEvent, QP!IsNextEvent
<1> QED
  BY <1>1, <1>2, <1>3, <1>4, <1>5, <1>6

LEMMA QosSteps ==
  /\ \A t, at : Qos!Accept(t, at) => QP!Accept(t, at)
  /\ Qos!QuantumEnd => QP!QuantumEnd
<1>1. /\ \A p : Qos!TokenCost(p) = QP!TokenCost(p)
      /\ \A p, c : Qos!VirtualCost(p, c) = QP!VirtualCost(p, c)
      /\ \A at : Qos!Refilled(at) = QP!Refilled(at)
  BY DEF
       Qos!SliceBytes, QP!SliceBytes, Qos!TokenCost, QP!TokenCost, Qos!VirtualCost,
       QP!VirtualCost, Qos!Weight, QP!Weight, Qos!BulkTags, QP!BulkTags, Qos!Refilled,
       QP!Refilled, Qos!TokenCapacity, QP!TokenCapacity, Qos!TokenRefill, QP!TokenRefill,
       Qos!Smaller, QP!Smaller, Qos!Larger, QP!Larger
<1>2. /\ \A q, tok : Qos!Affordable(q, tok) <=> QP!Affordable(q, tok)
      /\ \A q : Qos!PreferredBulk(q) = QP!PreferredBulk(q)
      /\ \A tok, p : Qos!Spend(tok, p) = QP!Spend(tok, p)
      /\ \A q, c : Qos!PopFront(q, c) = QP!PopFront(q, c)
      /\ \A q, a : Qos!OnArrive(q, a) = QP!OnArrive(q, a)
      /\ \A a, b : Qos!Larger(a, b) = QP!Larger(a, b)
  BY <1>1 DEF
       Qos!Affordable, QP!Affordable, Qos!PreferredBulk, QP!PreferredBulk, Qos!Spend, QP!Spend,
       Qos!PopFront, QP!PopFront, Qos!OnArrive, QP!OnArrive, Qos!ClassOf, QP!ClassOf,
       Qos!Larger, QP!Larger
<1>3. \A h, q, D, tok : Qos!TakeCritical(h, q, D, tok) <=> QP!TakeCritical(h, q, D, tok)
  BY <1>2, QosBus DEF Qos!TakeCritical, QP!TakeCritical
<1>4. \A h, q, D, tok, c : Qos!TakeBulk(h, q, D, tok, c) <=> QP!TakeBulk(h, q, D, tok, c)
  BY <1>1, <1>2, QosBus DEF Qos!TakeBulk, QP!TakeBulk
<1>5. \A h, q, D, tok : Qos!TakeNone(h, q, D, tok) <=> QP!TakeNone(h, q, D, tok)
  BY QosBus DEF Qos!TakeNone, QP!TakeNone
<1>6. ASSUME NEW h, NEW q, Qos!PickNext(h, q)
      PROVE  QP!PickNext(h, q)
  <2> DEFINE critical == q["critical"]
  <2>1. PICK n \in 0..Len(critical) :
          LET dropped == Qos!TxnsOf(SubSeq(critical, 1, n))
              rest    == SubSeq(critical, n + 1, Len(critical))
              q1      == [q EXCEPT !["critical"] = rest]
              tok     == Qos!Refilled(h.at)
          IN /\ Qos!StalePrefix(critical, n, h.at)
             /\ last_refill' = Qos!Larger(last_refill, h.at)
             /\ \/ Qos!Affordable(rest, tok) /\ Qos!TakeCritical(h, q1, dropped, tok)
                \/ /\ ~Qos!Affordable(rest, tok)
                   /\ \E c \in Qos!PreferredBulk(q1) : Qos!TakeBulk(h, q1, dropped, tok, c)
                \/ /\ ~Qos!Affordable(rest, tok)
                   /\ Qos!PreferredBulk(q1) = {}
                   /\ Qos!TakeNone(h, q1, dropped, tok)
    BY <1>6 DEF Qos!PickNext
  <2> DEFINE dropped == QP!TxnsOf(SubSeq(critical, 1, n))
  <2> DEFINE rest == SubSeq(critical, n + 1, Len(critical))
  <2> DEFINE q1 == [q EXCEPT !["critical"] = rest]
  <2> DEFINE tok == QP!Refilled(h.at)
  <2>2. Qos!TxnsOf(SubSeq(critical, 1, n)) = dropped /\ Qos!Refilled(h.at) = tok
    BY <1>1, QosBus
  <2> HIDE DEF dropped, tok
  <2>3. /\ Qos!StalePrefix(critical, n, h.at)
        /\ last_refill' = Qos!Larger(last_refill, h.at)
        /\ \/ Qos!Affordable(rest, tok) /\ Qos!TakeCritical(h, q1, dropped, tok)
           \/ /\ ~Qos!Affordable(rest, tok)
              /\ \E c \in Qos!PreferredBulk(q1) : Qos!TakeBulk(h, q1, dropped, tok, c)
           \/ /\ ~Qos!Affordable(rest, tok)
              /\ Qos!PreferredBulk(q1) = {}
              /\ Qos!TakeNone(h, q1, dropped, tok)
    BY <2>1, <2>2
  <2> HIDE DEF rest, q1, critical
  <2>4. /\ QP!StalePrefix(critical, n, h.at)
        /\ last_refill' = QP!Larger(last_refill, h.at)
    BY <1>2, <2>3, QosBus
  <2>5. \/ QP!Affordable(rest, tok) /\ QP!TakeCritical(h, q1, dropped, tok)
        \/ /\ ~QP!Affordable(rest, tok)
           /\ \E c \in QP!PreferredBulk(q1) : QP!TakeBulk(h, q1, dropped, tok, c)
        \/ /\ ~QP!Affordable(rest, tok)
           /\ QP!PreferredBulk(q1) = {}
           /\ QP!TakeNone(h, q1, dropped, tok)
    <3>1. CASE Qos!Affordable(rest, tok) /\ Qos!TakeCritical(h, q1, dropped, tok)
      BY <1>2, <1>3, <3>1
    <3>2. CASE /\ ~Qos!Affordable(rest, tok)
               /\ \E c \in Qos!PreferredBulk(q1) : Qos!TakeBulk(h, q1, dropped, tok, c)
      <4>1. PICK c \in Qos!PreferredBulk(q1) : Qos!TakeBulk(h, q1, dropped, tok, c)
        BY <3>2
      <4>2. QP!TakeBulk(h, q1, dropped, tok, c)
        BY <1>4, <4>1
      <4>3. c \in QP!PreferredBulk(q1) /\ ~QP!Affordable(rest, tok)
        BY <1>2, <3>2, <4>1
      <4> QED
        BY <4>2, <4>3
    <3>3. CASE /\ ~Qos!Affordable(rest, tok)
               /\ Qos!PreferredBulk(q1) = {}
               /\ Qos!TakeNone(h, q1, dropped, tok)
      BY <1>2, <1>5, <3>3
    <3> QED
      BY <2>3, <3>1, <3>2, <3>3
  <2> USE DEF critical, rest, q1, dropped, tok
  <2>6. n \in 0..Len(q["critical"])
    BY <2>1
  <2> QED
    BY <2>4, <2>5, <2>6 DEF QP!PickNext
<1>7. \A t, at : Qos!Accept(t, at) => QP!Accept(t, at)
  BY <1>2, <1>6, QosHalfSteps, QosBus DEF Qos!Accept, QP!Accept
<1>8. Qos!QuantumEnd => QP!QuantumEnd
  BY <1>2, <1>6, QosHalfSteps, QosBus DEF Qos!QuantumEnd, QP!QuantumEnd
<1> QED
  BY <1>7, <1>8

-----------------------------------------------------------------------------
(***************************************************************************)
(* What the theorems of the schedulers assume of the constants.            *)
(***************************************************************************)
LEMMA FifoAssumed ==
  /\ FP!IsFiniteSet(Txn)
  /\ \A t \in Txn : /\ Tx[t].source \in FP!Sources
                    /\ Tx[t].qos \in FP!QosTags
                    /\ Tx[t].size_bytes \in Nat
  /\ \A t \in Txn : FP!Bandwidth(t) \in Nat \ {0} /\ FP!QuantumUs(t) \in Nat \ {0}
  /\ \A t \in Txn : /\ FP!CpuCycles(t) \in Nat
                    /\ FP!DecompressCycles(t) \in Nat
                    /\ FP!SglEntries(t) \in Nat
  /\ Cfg.audio_deadline_us \in Nat /\ MaxTime \in Nat
<1>1. FP!IsFiniteSet(Txn)
  BY TxnAssumption DEF IsFiniteSet, FP!IsFiniteSet
<1>2. \A t \in Txn : /\ Tx[t].source \in FP!Sources
                     /\ Tx[t].qos \in FP!QosTags
                     /\ Tx[t].size_bytes \in Nat
  BY TxnAssumption DEF Fifo!Sources, Fifo!QosTags, FP!Sources, FP!QosTags
<1>3. \A t \in Txn : FP!Bandwidth(t) \in Nat \ {0} /\ FP!QuantumUs(t) \in Nat \ {0}
  BY ServiceAssumption, FifoNumbers
<1>4. \A t \in Txn : /\ FP!CpuCycles(t) \in Nat
                     /\ FP!DecompressCycles(t) \in Nat
                     /\ FP!SglEntries(t) \in Nat
  BY ServiceAssumption, FifoCosts
<1> QED
  BY <1>1, <1>2, <1>3, <1>4, ClockAssumption

LEMMA FifoStarts == Fifo!Init => FP!RInv
BY FifoInit, FifoAssumed, FP!InitHolds

LEMMA QosAssumed ==
  /\ QP!TokenRefill \in Nat
  /\ QP!TokenCapacity \in Nat
  /\ Cfg.bus_bw * Cfg.quantum_us \in Nat
  /\ \A c \in QP!BulkTags : QP!Weight(c) \in Nat
BY BucketAssumption DEF Qos!TokenRefill, QP!TokenRefill, Qos!TokenCapacity, QP!TokenCapacity,
                        Qos!BulkTags, QP!BulkTags, Qos!Weight, QP!Weight, Qos!Larger, QP!Larger

LEMMA QosBusAssumed ==
  /\ QP!IsFiniteSet(Txn)
  /\ \A t \in Txn : /\ Tx[t].source \in QP!Sources
                    /\ Tx[t].qos \in QP!QosTags
                    /\ Tx[t].size_bytes \in Nat
  /\ \A t \in Txn : QP!Bandwidth(t) \in Nat \ {0} /\ QP!QuantumUs(t) \in Nat \ {0}
  /\ \A t \in Txn : /\ QP!CpuCycles(t) \in Nat
                    /\ QP!DecompressCycles(t) \in Nat
                    /\ QP!SglEntries(t) \in Nat
  /\ Cfg.audio_deadline_us \in Nat /\ MaxTime \in Nat
<1>1. QP!IsFiniteSet(Txn)
  BY TxnAssumption DEF IsFiniteSet, QP!IsFiniteSet
<1>2. \A t \in Txn : /\ Tx[t].source \in QP!Sources
                     /\ Tx[t].qos \in QP!QosTags
                     /\ Tx[t].size_bytes \in Nat
  BY TxnAssumption DEF Fifo!Sources, Fifo!QosTags, QP!Sources, QP!QosTags
<1>3. \A t \in Txn : QP!Bandwidth(t) \in Nat \ {0} /\ QP!QuantumUs(t) \in Nat \ {0}
  BY ServiceAssumption
  DEF
       Fifo!QuantumBytes, QP!QuantumBytes, Fifo!Bandwidth, QP!Bandwidth, Fifo!QuantumUs,
       QP!QuantumUs, Fifo!IsNeuroDma, QP!IsNeuroDma, Fifo!IsBounce, QP!IsBounce,
       Fifo!IsCompressed, QP!IsCompressed, Fifo!PathBandwidth, QP!PathBandwidth, Fifo!Boosted,
       QP!Boosted, Fifo!Smaller, QP!Smaller, Fifo!Larger, QP!Larger, Fifo!CeilDiv, QP!CeilDiv
<1>4. \A t \in Txn : /\ QP!CpuCycles(t) \in Nat
                     /\ QP!DecompressCycles(t) \in Nat
                     /\ QP!SglEntries(t) \in Nat
  BY ServiceAssumption
  DEF
       Fifo!CpuCycles, QP!CpuCycles, Fifo!DecompressCycles, QP!DecompressCycles,
       Fifo!SglEntries, QP!SglEntries, Fifo!IsNeuroDma, QP!IsNeuroDma, Fifo!IsBounce,
       QP!IsBounce, Fifo!IsCompressed, QP!IsCompressed, Fifo!CeilDiv, QP!CeilDiv
<1> QED
  BY <1>1, <1>2, <1>3, <1>4, ClockAssumption

LEMMA QosStarts == Qos!Init => QP!RInv
BY QosInit, QosAssumed, QosBusAssumed, QP!InitHolds

-----------------------------------------------------------------------------
(***************************************************************************)
(* The bus, whatever the policy.                                           *)
(***************************************************************************)
PolicyInv ==
  /\ run.policy = "fifo" => FP!RInv
  /\ run.policy = "qos" => QP!RInv

\* accept() and on_quantum_end(), under the policy of the run.
Accepts(t, at) ==
  \/ run.policy = "fifo" /\ Fifo!Accept(t, at) /\ UNCHANGED qosVars
  \/ run.policy = "qos" /\ Qos!Accept(t, at)

EndsQuantum ==
  \/ run.policy = "fifo" /\ Fifo!QuantumEnd /\ UNCHANGED qosVars
  \/ run.policy = "qos" /\ Qos!QuantumEnd

BusStep == IF run.policy = "fifo" THEN Fifo!Next ELSE Qos!Next

\* A step that leaves the traces of the transactions of T as long or as short as they were.
Keeps(T) == \A u \in T : /\ (log'[u] # <<>> <=> log[u] # <<>>)
                         /\ (log[u] # <<>> => log'[u][1] = log[u][1])

LEMMA PolicyIs == run \in Runs => run.policy = "fifo" \/ run.policy = "qos"
BY RunAssumption

LEMMA BusFacts ==
  ASSUME run \in Runs, PolicyInv
  PROVE  /\ now \in Nat
         /\ \A q \in ends : q.at \in Nat /\ q.at >= now
         /\ \A q, r \in ends : q = r
<1>1. CASE run.policy = "fifo"
  BY <1>1, FifoAssumed, FP!BusFacts DEF PolicyInv
<1>2. CASE run.policy = "qos"
  BY <1>2, QosBusAssumed, QosAssumed, QP!BusFacts DEF PolicyInv
<1> QED
  BY <1>1, <1>2, PolicyIs

LEMMA PolicyInit == Init => PolicyInv
BY FifoStarts, QosStarts DEF Init, PolicyInv

LEMMA IssueStep ==
  ASSUME PolicyInv, run' = run, NEW t \in Txn, NEW at \in 0..MaxTime,
         log[t] = <<>>, at >= now, \A q \in ends : at <= q.at, Accepts(t, at)
  PROVE  /\ PolicyInv' /\ BusStep
         /\ now' = at
         /\ log'[t] # <<>> /\ log'[t][1].at = at
         /\ Keeps(Txn \ {t})
<1>1. CASE run.policy = "fifo" /\ Fifo!Accept(t, at)
  <2>1. FP!Accept(t, at)
    BY <1>1, FifoSteps
  <2>2. FP!Arrival(t, at)
    BY <2>1 DEF FP!Arrival, FP!MayArrive
  <2>3. FP!RInv
    BY <1>1 DEF PolicyInv
  <2>4. /\ FP!RInv'
        /\ now' = at
        /\ log'[t] # <<>> /\ log'[t][1].at = at
        /\ \A u \in Txn \ {t} : /\ (log'[u] # <<>> <=> log[u] # <<>>)
                                /\ (log[u] # <<>> => log'[u][1] = log[u][1])
    BY <2>2, <2>3, FifoAssumed, FP!AcceptIssues
  <2>5. Fifo!Next
    BY <1>1 DEF Fifo!Next, Fifo!Arrival, Fifo!MayArrive
  <2> QED
    BY <1>1, <2>4, <2>5 DEF PolicyInv, BusStep, Keeps
<1>2. CASE run.policy = "qos" /\ Qos!Accept(t, at)
  <2>1. QP!Accept(t, at)
    BY <1>2, QosSteps
  <2>2. QP!Arrival(t, at)
    BY <2>1 DEF QP!Arrival, QP!MayArrive
  <2>3. QP!RInv
    BY <1>2 DEF PolicyInv
  <2>4. /\ QP!RInv'
        /\ now' = at
        /\ log'[t] # <<>> /\ log'[t][1].at = at
        /\ \A u \in Txn \ {t} : /\ (log'[u] # <<>> <=> log[u] # <<>>)
                                /\ (log[u] # <<>> => log'[u][1] = log[u][1])
    BY <2>2, <2>3, QosBusAssumed, QosAssumed, QP!AcceptIssues
  <2>5. Qos!Next
    BY <1>2 DEF Qos!Next, Qos!Arrival, Qos!MayArrive
  <2> QED
    BY <1>2, <2>4, <2>5 DEF PolicyInv, BusStep, Keeps
<1> QED
  BY <1>1, <1>2 DEF Accepts

LEMMA EndStep ==
  ASSUME PolicyInv, run' = run, EndsQuantum
  PROVE  /\ PolicyInv' /\ BusStep
         /\ \E q \in ends : now' = q.at
         /\ Keeps(Txn)
<1>1. CASE run.policy = "fifo" /\ Fifo!QuantumEnd
  <2>1. FP!QuantumEnd /\ FP!RInv
    BY <1>1, FifoSteps DEF PolicyInv
  <2>2. /\ FP!RInv'
        /\ \E q \in ends : now' = q.at
        /\ \A u \in Txn : /\ (log'[u] # <<>> <=> log[u] # <<>>)
                          /\ (log[u] # <<>> => log'[u][1] = log[u][1])
    BY <2>1, FifoAssumed, FP!QuantumEndIssues
  <2> QED
    BY <1>1, <2>2 DEF PolicyInv, BusStep, Keeps, Fifo!Next
<1>2. CASE run.policy = "qos" /\ Qos!QuantumEnd
  <2>1. QP!QuantumEnd /\ QP!RInv
    BY <1>2, QosSteps DEF PolicyInv
  <2>2. /\ QP!RInv'
        /\ \E q \in ends : now' = q.at
        /\ \A u \in Txn : /\ (log'[u] # <<>> <=> log[u] # <<>>)
                          /\ (log[u] # <<>> => log'[u][1] = log[u][1])
    BY <2>1, QosBusAssumed, QosAssumed, QP!QuantumEndIssues
  <2> QED
    BY <1>2, <2>2 DEF PolicyInv, BusStep, Keeps, Qos!Next
<1> QED
  BY <1>1, <1>2 DEF EndsQuantum

\* A tick takes the time on, and leaves the bus alone.
LEMMA TickStep ==
  ASSUME PolicyInv, run' = run, now' \in Nat, now' >= now, \A q \in ends : q.at >= now',
         UNCHANGED busVars
  PROVE  PolicyInv' /\ Keeps(Txn)
<1>1. UNCHANGED <<bus_idle, ends, log, kpi, loaded, served, queue>>
  BY DEF busVars
<1>2. UNCHANGED <<tokens, last_refill, vfin>>
  BY DEF busVars, qosVars
<1>3. FP!RInv => FP!RInv'
  BY <1>1, FifoAssumed, FP!TimePasses
<1>4. QP!RInv => QP!RInv'
  BY <1>1, <1>2, QosBusAssumed, QosAssumed, QP!TimePasses
<1> QED
  BY <1>1, <1>3, <1>4 DEF PolicyInv, Keeps

-----------------------------------------------------------------------------
(***************************************************************************)
(* What handlers schedule.                                                 *)
(***************************************************************************)
EventSources == {"audio", "texture", "weight", "tick"}

EventType ==
  [at : 0..MaxTime, seq : Int, source : EventSources, weight : Key \cup {NoWeight},
   period : Nat, until : Nat]

\* An event that the clock reaches, and that does not come again after the end of the run.
IsEvent(e) == e \in EventType /\ (e.period > 0 => e.until <= MaxTime)

\* The first line of AgendaSound that is about pairs.
Lone(e, f) == e.source = f.source /\ e.source \in {"tick", "audio"} => e = f

\* The events that one handler schedules have places of their own.
Placed(B) ==
  /\ IsFiniteSet(B)
  /\ \A e \in B : IsEvent(e)
  /\ \A e, f \in B : (e.seq = f.seq => e = f) /\ Lone(e, f)

LEMMA PlacesAreFinite ==
  ASSUME NEW B, NEW lo \in Int, NEW hi \in Int,
         \A e \in B : e.seq \in lo..hi,
         \A e, f \in B : e.seq = f.seq => e = f
  PROVE  IsFiniteSet(B)
<1> DEFINE place == [e \in B |-> e.seq]
<1>1. place \in Injection(B, lo..hi)
  BY DEF Injection, IsInjective
<1>2. IsFiniteSet(lo..hi)
  BY FS_Interval
<1> QED
  BY <1>1, <1>2, FS_Injection

(***************************************************************************)
(* schedule() numbers what it is given without a gap and without a repeat. *)
(***************************************************************************)
Earlier(B, e) == {f \in B : f.seq < e.seq}

Given(B, first, e) == [e EXCEPT !.seq = first + Cardinality(Earlier(B, e))]

LEMMA PlacesInOrder ==
  ASSUME NEW B, Placed(B)
  PROVE  /\ \A e \in B : /\ e \in EventType /\ e.seq \in Int
                         /\ Cardinality(Earlier(B, e)) \in Nat
                         /\ Cardinality(Earlier(B, e)) < Cardinality(B)
         /\ \A e, f \in B : e.seq < f.seq
                            => Cardinality(Earlier(B, e)) < Cardinality(Earlier(B, f))
<1> DEFINE Below(e) == Earlier(B, e)
<1>1. IsFiniteSet(B) /\ \A e \in B : e \in EventType
  BY DEF Placed, IsEvent
<1>2. Cardinality(B) \in Nat
  BY <1>1, FS_CardinalityType
<1>3. \A e \in B : e.seq \in Int
  BY <1>1 DEF EventType
<1>4. ASSUME NEW e \in B
      PROVE  /\ IsFiniteSet(Below(e)) /\ Cardinality(Below(e)) \in Nat
             /\ Cardinality(Below(e)) < Cardinality(B)
  <2>1. Below(e) \in SUBSET (B \ {e})
    BY <1>3 DEF Earlier
  <2>2. IsFiniteSet(B \ {e}) /\ Cardinality(B \ {e}) = Cardinality(B) - 1
    BY <1>1, FS_RemoveElement
  <2>3. IsFiniteSet(Below(e)) /\ Cardinality(Below(e)) <= Cardinality(B \ {e})
    BY <2>1, <2>2, FS_Subset
  <2>4. Cardinality(Below(e)) \in Nat
    BY <2>3, FS_CardinalityType
  <2> QED
    BY <1>2, <2>2, <2>3, <2>4
<1>5. ASSUME NEW e \in B, NEW f \in B, e.seq < f.seq
      PROVE  Cardinality(Below(e)) < Cardinality(Below(f))
  <2>1. Below(e) \in SUBSET (Below(f) \ {e}) /\ e \in Below(f)
    BY <1>3, <1>5 DEF Earlier
  <2>2. IsFiniteSet(Below(f) \ {e}) /\ Cardinality(Below(f) \ {e}) = Cardinality(Below(f)) - 1
    BY <1>4, <2>1, FS_RemoveElement
  <2>3. Cardinality(Below(e)) <= Cardinality(Below(f) \ {e})
    BY <2>1, <2>2, FS_Subset
  <2>4. IsFiniteSet(Below(e)) /\ Cardinality(Below(e)) \in Nat
    BY <1>4
  <2>5. IsFiniteSet(Below(f)) /\ Cardinality(Below(f)) \in Nat
    BY <1>4
  <2> HIDE DEF Below
  <2> QED
    BY <2>2, <2>3, <2>4, <2>5
<1> QED
  BY <1>1, <1>3, <1>4, <1>5

LEMMA GivenIs ==
  ASSUME NEW B, Placed(B), NEW first \in Nat
  PROVE  /\ Numbered(B, first) = {Given(B, first, e) : e \in B}
         /\ \A e \in B :
              LET g == Given(B, first, e)
              IN  /\ g = [e EXCEPT !.seq = g.seq]
                  /\ g.seq = first + Cardinality(Earlier(B, e))
                  /\ g.at = e.at /\ g.source = e.source /\ g.weight = e.weight
                  /\ g.period = e.period /\ g.until = e.until
         /\ \A e, f \in B : Given(B, first, e).seq = Given(B, first, f).seq => e = f
<1>1. Numbered(B, first) = {Given(B, first, e) : e \in B}
  BY DEF Numbered, Given, Earlier
<1>2. ASSUME NEW e \in B
      PROVE  /\ Given(B, first, e) = [e EXCEPT !.seq = Given(B, first, e).seq]
             /\ Given(B, first, e).seq = first + Cardinality(Earlier(B, e))
             /\ Given(B, first, e).at = e.at
             /\ Given(B, first, e).source = e.source
             /\ Given(B, first, e).weight = e.weight
             /\ Given(B, first, e).period = e.period
             /\ Given(B, first, e).until = e.until
  BY PlacesInOrder DEF Given, EventType
<1>3. ASSUME NEW e \in B, NEW f \in B, Given(B, first, e).seq = Given(B, first, f).seq
      PROVE  e = f
  <2>1. e.seq = f.seq
    BY <1>2, <1>3, PlacesInOrder
  <2> QED
    BY <2>1 DEF Placed
<1> QED
  BY <1>1, <1>2, <1>3

LEMMA NumberedInOrder ==
  ASSUME NEW B, Placed(B), NEW first \in Nat
  PROVE  /\ Cardinality(B) \in Nat
         /\ \A m \in Numbered(B, first) :
              /\ m.seq \in first..(first + Cardinality(B) - 1)
              /\ \E e \in B : m = [e EXCEPT !.seq = m.seq]
         /\ \A m, n \in Numbered(B, first) : (m.seq = n.seq => m = n) /\ Lone(m, n)
<1>1. IsFiniteSet(B)
  BY DEF Placed
<1>2. Cardinality(B) \in Nat
  BY <1>1, FS_CardinalityType
<1>3. \A m \in Numbered(B, first) : \E e \in B : m = Given(B, first, e)
  BY GivenIs
<1>4. ASSUME NEW m \in Numbered(B, first)
      PROVE  /\ m.seq \in first..(first + Cardinality(B) - 1)
             /\ \E e \in B : m = [e EXCEPT !.seq = m.seq]
  <2>1. PICK e \in B : m = Given(B, first, e)
    BY <1>3
  <2>2. m = [e EXCEPT !.seq = m.seq] /\ m.seq = first + Cardinality(Earlier(B, e))
    BY <2>1, GivenIs
  <2>3. Cardinality(Earlier(B, e)) \in Nat /\ Cardinality(Earlier(B, e)) < Cardinality(B)
    BY PlacesInOrder
  <2> QED
    BY <1>2, <2>2, <2>3
<1>5. ASSUME NEW m \in Numbered(B, first), NEW n \in Numbered(B, first)
      PROVE  (m.seq = n.seq => m = n) /\ Lone(m, n)
  <2>1. PICK e \in B, f \in B : m = Given(B, first, e) /\ n = Given(B, first, f)
    BY <1>3
  <2>2. (m.seq = n.seq => e = f) /\ m.source = e.source /\ n.source = f.source
    BY <2>1, GivenIs
  <2>3. Lone(e, f)
    BY DEF Placed
  <2> QED
    BY <2>1, <2>2, <2>3 DEF Lone
<1> QED
  BY <1>2, <1>4, <1>5

LEMMA MaxOfTwo ==
  ASSUME NEW a \in Int, NEW b \in Int
  PROVE  Max({a, b}) = IF a >= b THEN a ELSE b
BY DEF Max

LEMMA QuotientType == \A a \in Int, b \in Nat \ {0} : a \div b \in Int
OBVIOUS

LEMMA PeriodType ==
  ASSUME NEW bytes \in Nat, NEW rate_mbps \in Nat \ {0}
  PROVE  Period(bytes, rate_mbps) \in Nat \ {0}
<1> DEFINE q == (2 * bytes + rate_mbps) \div (2 * rate_mbps)
<1>1. q \in Int
  BY QuotientType
<1> HIDE DEF q
<1>2. Max({1, q}) \in Nat \ {0}
  BY <1>1, MaxOfTwo
<1> QED
  BY <1>2 DEF Period, q

LEMMA Clock ==
  /\ StopAtUs \in Nat /\ MaxTime \in Nat /\ StopAtUs <= MaxTime
  /\ AudioPeriod \in Nat \ {0}
  /\ Len(Npcs) \in Nat
<1>1. StopAtUs \in Nat
  BY ClockAssumption DEF StopAtUs
<1>2. AudioPeriod \in Nat \ {0}
  BY GeneratorAssumption, PeriodType DEF AudioPeriod
<1> QED
  BY <1>1, <1>2, ClockAssumption, NpcAssumption

LEMMA Ranks ==
  /\ \A n \in Npc : Rank[n] \in 1..Len(Npcs)
  /\ \A m, n \in Npc : Rank[m] = Rank[n] => m = n
<1>1. \A n \in Npc : Rank[n] \in DOMAIN Npcs /\ Npcs[Rank[n]] = n
  BY DEF Npc, Rank
<1> QED
  BY <1>1, NpcAssumption

\* Of the same prefetches, those of one tick are for NPCs that differ.
LEMMA PrefetchPlaced ==
  ASSUME NEW K \in SUBSET Key, \A k, l \in K : k.npc = l.npc => k = l,
         NEW at \in 0..MaxTime
  PROVE  /\ \A k \in K : IsEvent(Prefetch(k, at)) /\ Prefetch(k, at).seq \in 1..Len(Npcs)
         /\ \A k, l \in K : Prefetch(k, at).seq = Prefetch(l, at).seq => k = l
<1>1. \A k \in K : k \in Key /\ k.npc \in Npc
  BY DEF Key
<1> QED
  BY <1>1, Ranks, Clock DEF Prefetch, Event, IsEvent, EventType, EventSources

LEMMA TickPlaced ==
  ASSUME NEW at \in 0..MaxTime
  PROVE  IsEvent(TickEvent(at)) /\ TickEvent(at).seq = Len(Npcs) + 1
BY Clock DEF TickEvent, Event, IsEvent, EventType, EventSources

(***************************************************************************)
(* The events that run_one() begins with.                                  *)
(***************************************************************************)
LEMMA AudioPlaced ==
  ASSUME NEW r \in Runs
  PROVE  /\ \A e \in AudioStart(r) :
              IsEvent(e) /\ e.source = "audio" /\ e.seq = -Len(r.texture_bursts)
         /\ \A e, f \in AudioStart(r) : e = f
<1>1. Len(r.texture_bursts) \in Nat
  BY RunAssumption
<1> QED
  BY <1>1, Clock DEF AudioStart, Unless, TrafficEvent, Event, IsEvent, EventType, EventSources

LEMMA Sums ==
  ASSUME NEW a \in Nat, NEW d \in Int, NEW u \in Nat
  PROVE  a * u \in Nat /\ d * u \in Int /\ (a + d) * u = a * u + d * u
OBVIOUS

LEMMA BurstPlaced ==
  ASSUME NEW r \in Runs, NEW i \in DOMAIN r.texture_bursts, NEW place \in Int
  PROVE  /\ \A e \in Burst(r.texture_bursts[i], place) :
              IsEvent(e) /\ e.source = "texture" /\ e.seq = place
         /\ \A e, f \in Burst(r.texture_bursts[i], place) : e = f
<1> DEFINE b == r.texture_bursts[i]
           start == b.at_ms * UsPerMs
           stop == start + b.duration_ms * UsPerMs
           period == Period(Cfg.block_bytes, b.rate_mbps)
<1>1. b \in [at_ms : Nat, rate_mbps : Int, duration_ms : Int]
  <2> DEFINE T == [at_ms : Nat, rate_mbps : Int, duration_ms : Int]
  <2>1. r.texture_bursts \in Seq(T)
    BY RunAssumption
  <2> HIDE DEF T
  <2>2. r.texture_bursts[i] \in T
    BY <2>1
  <2> QED
    BY <2>2 DEF T
<1>2. b.at_ms \in Nat /\ b.rate_mbps \in Int /\ b.duration_ms \in Int
  BY <1>1
<1>3. (b.at_ms + b.duration_ms) * UsPerMs <= MaxTime
  BY RunAssumption
<1>4. start \in Nat /\ stop \in Int /\ stop <= MaxTime
  <2>1. UsPerMs \in Nat /\ MaxTime \in Int
    BY ClockAssumption
  <2>2. start \in Nat /\ b.duration_ms * UsPerMs \in Int
    BY <1>2, <2>1, Sums
  <2>3. (b.at_ms + b.duration_ms) * UsPerMs = stop
    BY <1>2, <2>1, Sums
  <2> QED
    BY <1>3, <2>1, <2>2, <2>3
<1>5. b.rate_mbps > 0 => period \in Nat
  BY <1>2, PeriodType, GeneratorAssumption
<1>6. Burst(b, place) =
        IF b.rate_mbps <= 0 \/ b.duration_ms <= 0 THEN {}
        ELSE Unless(TrafficEvent(start, place, "texture", period, stop))
  BY DEF Burst
<1> HIDE DEF b, start, stop, period
<1>7. ASSUME NEW e \in Burst(b, place)
      PROVE  /\ b.rate_mbps > 0 /\ start < stop
             /\ e = TrafficEvent(start, place, "texture", period, stop)
  BY <1>2, <1>4, <1>6, <1>7 DEF Unless, TrafficEvent, Event
<1>8. ASSUME NEW e \in Burst(b, place)
      PROVE  IsEvent(e) /\ e.source = "texture" /\ e.seq = place
  BY <1>4, <1>5, <1>7, <1>8, Clock DEF TrafficEvent, Event, IsEvent, EventType, EventSources
<1> QED
  BY <1>7, <1>8 DEF b

LEMMA BurstsPlaced ==
  ASSUME NEW r \in Runs
  PROVE  /\ \A e \in BurstStarts(r) :
              /\ IsEvent(e) /\ e.source = "texture"
              /\ e.seq \in (1 - Len(r.texture_bursts))..0
         /\ \A e, f \in BurstStarts(r) : e.seq = f.seq => e = f
<1>1. Len(r.texture_bursts) \in Nat /\ DOMAIN r.texture_bursts = 1..Len(r.texture_bursts)
  BY RunAssumption
<1>2. ASSUME NEW e \in BurstStarts(r)
      PROVE  \E i \in DOMAIN r.texture_bursts :
               e \in Burst(r.texture_bursts[i], i - Len(r.texture_bursts))
  BY <1>2 DEF BurstStarts
<1>3. ASSUME NEW i \in DOMAIN r.texture_bursts,
             NEW e \in Burst(r.texture_bursts[i], i - Len(r.texture_bursts))
      PROVE  IsEvent(e) /\ e.source = "texture" /\ e.seq = i - Len(r.texture_bursts)
  BY <1>1, <1>3, BurstPlaced
<1>4. ASSUME NEW e \in BurstStarts(r), NEW f \in BurstStarts(r), e.seq = f.seq
      PROVE  e = f
  <2>1. PICK i \in DOMAIN r.texture_bursts :
               e \in Burst(r.texture_bursts[i], i - Len(r.texture_bursts))
    BY <1>2
  <2>2. PICK j \in DOMAIN r.texture_bursts :
               f \in Burst(r.texture_bursts[j], j - Len(r.texture_bursts))
    BY <1>2
  <2>3. i = j
    BY <1>1, <1>3, <1>4, <2>1, <2>2
  <2>4. i - Len(r.texture_bursts) \in Int
    BY <1>1
  <2> QED
    BY <2>1, <2>2, <2>3, <2>4, BurstPlaced
<1> QED
  BY <1>1, <1>2, <1>3, <1>4

LEMMA PredictorPlaced ==
  ASSUME NEW r \in Runs
  PROVE  /\ \A e \in PredictorStart(r) :
              IsEvent(e) /\ e.source \in {"weight", "tick"} /\ e.seq \in 1..(Len(Npcs) + 1)
         /\ \A e, f \in PredictorStart(r) : (e.seq = f.seq => e = f) /\ Lone(e, f)
<1> DEFINE K == {[npc |-> n, lod |-> 0] : n \in Npc}
<1>1. K \in SUBSET Key /\ \A k, l \in K : k.npc = l.npc => k = l
  BY DEF Key
<1>2. 0 \in 0..MaxTime
  BY Clock
<1>3. CASE r.predictor = "scripted"
  <2>1. \A e \in PredictorStart(r) : \E k \in K : e = Prefetch(k, 0)
    BY <1>3 DEF PredictorStart
  <2>2. /\ \A k \in K : IsEvent(Prefetch(k, 0)) /\ Prefetch(k, 0).seq \in 1..Len(Npcs)
        /\ \A k, l \in K : Prefetch(k, 0).seq = Prefetch(l, 0).seq => k = l
    <3> HIDE DEF K
    <3> QED
      BY <1>1, <1>2, PrefetchPlaced
  <2>3. \A k \in K : Prefetch(k, 0).source = "weight"
    BY DEF Prefetch, Event
  <2> HIDE DEF K
  <2> QED
    BY <2>1, <2>2, <2>3, Clock DEF Lone
<1>4. CASE r.predictor # "scripted"
  <2>1. PredictorStart(r) = {TickEvent(0)}
    BY <1>4 DEF PredictorStart
  <2>2. TickEvent(0).source = "tick"
    BY DEF TickEvent, Event
  <2> QED
    BY <1>2, <2>1, <2>2, TickPlaced, Clock DEF Lone
<1> QED
  BY <1>3, <1>4

LEMMA FirstPlaced ==
  ASSUME NEW r \in Runs
  PROVE  Placed(FirstEvents(r))
<1> DEFINE n == Len(r.texture_bursts)
<1>1. n \in Nat
  BY RunAssumption
<1>2. \A e \in FirstEvents(r) :
        e \in AudioStart(r) \/ e \in BurstStarts(r) \/ e \in PredictorStart(r)
  BY DEF FirstEvents
<1>3. \A e \in AudioStart(r) : IsEvent(e) /\ e.source = "audio" /\ e.seq = -n
  BY AudioPlaced
<1>4. \A e \in BurstStarts(r) : IsEvent(e) /\ e.source = "texture" /\ e.seq \in (1 - n)..0
  BY BurstsPlaced
<1>5. \A e \in PredictorStart(r) :
        IsEvent(e) /\ e.source \in {"weight", "tick"} /\ e.seq \in 1..(Len(Npcs) + 1)
  BY PredictorPlaced
<1> HIDE DEF n
<1>6. ASSUME NEW e \in FirstEvents(r), NEW f \in FirstEvents(r), e.seq = f.seq
      PROVE  e = f
  <2>1. \/ e \in AudioStart(r) /\ f \in AudioStart(r)
        \/ e \in BurstStarts(r) /\ f \in BurstStarts(r)
        \/ e \in PredictorStart(r) /\ f \in PredictorStart(r)
    BY <1>1, <1>2, <1>3, <1>4, <1>5, <1>6, Clock
  <2> QED
    BY <1>6, <2>1, AudioPlaced, BurstsPlaced, PredictorPlaced
<1>7. ASSUME NEW e \in FirstEvents(r), NEW f \in FirstEvents(r),
             e.source = f.source, e.source \in {"tick", "audio"}
      PROVE  e = f
  <2>1. \/ e \in AudioStart(r) /\ f \in AudioStart(r)
        \/ e \in PredictorStart(r) /\ f \in PredictorStart(r)
    BY <1>2, <1>3, <1>4, <1>5, <1>7
  <2> QED
    BY <1>7, <2>1, AudioPlaced, PredictorPlaced DEF Lone
<1>8. \A e \in FirstEvents(r) : e.seq \in (-n)..(Len(Npcs) + 1)
  BY <1>1, <1>2, <1>3, <1>4, <1>5, Clock
<1>9. IsFiniteSet(FirstEvents(r))
  <2>1. -n \in Int /\ Len(Npcs) + 1 \in Int
    BY <1>1, Clock
  <2> QED
    BY <1>6, <1>8, <2>1, PlacesAreFinite
<1>10. \A e \in FirstEvents(r) : IsEvent(e)
  BY <1>2, <1>3, <1>4, <1>5
<1> QED
  BY <1>6, <1>7, <1>9, <1>10 DEF Placed, Lone

-----------------------------------------------------------------------------
(***************************************************************************)
(* The agenda.                                                             *)
(***************************************************************************)
AgendaInv ==
  /\ \A e \in agenda : IsEvent(e) /\ e.seq \in Nat
  /\ next_seq \in Nat /\ end_seq \in Nat
  /\ AgendaSound

LEMMA AgendaIs ==
  AgendaSound <=>
    /\ \A e \in agenda : e.at >= now /\ e.seq < next_seq
    /\ \A e, f \in agenda : (e.seq = f.seq => e = f) /\ Lone(e, f)
    /\ \A q \in ends : q.at >= now /\ end_seq < next_seq
    /\ \A q \in ends, e \in agenda : e.seq # end_seq
BY DEF AgendaSound, Lone

\* The numbers change nothing else about the events.
LEMMA NumberedKeeps ==
  ASSUME NEW B, Placed(B), NEW first \in Nat, NEW m \in Numbered(B, first)
  PROVE  \E e \in B : /\ m = [e EXCEPT !.seq = m.seq]
                      /\ m.at = e.at /\ m.source = e.source /\ m.weight = e.weight
                      /\ m.period = e.period /\ m.until = e.until
<1>1. PICK e \in B : m = [e EXCEPT !.seq = m.seq]
  BY NumberedInOrder
<1>2. e \in EventType
  BY DEF Placed, IsEvent
<1> QED
  BY <1>1, <1>2 DEF EventType

LEMMA NumberedEvents ==
  ASSUME NEW B, Placed(B), NEW first \in Nat
  PROVE  \A m \in Numbered(B, first) : IsEvent(m) /\ m.seq \in Nat
<1> SUFFICES ASSUME NEW m \in Numbered(B, first)
             PROVE  IsEvent(m) /\ m.seq \in Nat
  OBVIOUS
<1>1. m.seq \in Nat
  <2>1. m.seq \in first..(first + Cardinality(B) - 1)
    BY NumberedInOrder
  <2> QED
    BY <2>1
<1>2. PICK e \in B : /\ m = [e EXCEPT !.seq = m.seq]
                     /\ m.period = e.period /\ m.until = e.until
  BY NumberedKeeps
<1>3. IsEvent(e)
  BY DEF Placed
<1>4. m \in EventType
  BY <1>1, <1>2, <1>3 DEF IsEvent, EventType
<1> QED
  BY <1>1, <1>2, <1>3, <1>4 DEF IsEvent

(***************************************************************************)
(* A handler that runs the event of its time and schedules B keeps the     *)
(* agenda sound.                                                           *)
(***************************************************************************)
LEMMA ScheduledSound ==
  ASSUME AgendaInv, NEW kept \in SUBSET agenda, NEW B, Placed(B),
         now' \in Nat, \A e \in kept : e.at >= now', \A e \in B : e.at >= now',
         \A e \in kept, f \in B : ~ (e.source = f.source /\ e.source \in {"tick", "audio"}),
         \A q \in ends' : q.at >= now',
         Scheduled(kept, B)
  PROVE  AgendaInv'
<1> DEFINE mine == IF StartsService THEN 1 ELSE 0
           added == Numbered(B, next_seq + mine)
<1>1. next_seq \in Nat /\ end_seq \in Nat /\ next_seq + mine \in Nat
  BY DEF AgendaInv
<1>2. /\ end_seq' = IF StartsService THEN next_seq ELSE end_seq
      /\ agenda' = kept \cup added
      /\ next_seq' = next_seq + (mine + Cardinality(B))
  BY DEF Scheduled, SeqAfter
<1>3. /\ mine \in {0, 1} /\ (StartsService <=> mine = 1)
      /\ ~ StartsService => ends' = ends \/ ends' = {}
  BY DEF StartsService
<1> HIDE DEF mine
<1>4. /\ Cardinality(B) \in Nat
      /\ \A m \in added : m.seq \in (next_seq + mine)..(next_seq + mine + Cardinality(B) - 1)
      /\ \A m, n \in added : (m.seq = n.seq => m = n) /\ Lone(m, n)
  BY <1>1, NumberedInOrder
<1>5. \A m \in added : \E e \in B : m.at = e.at /\ m.source = e.source
  BY <1>1, NumberedKeeps
<1>6. \A m \in added : IsEvent(m) /\ m.seq \in Nat
  BY <1>1, NumberedEvents
<1> HIDE DEF added
<1>7. \A e \in kept : IsEvent(e) /\ e.seq \in Nat /\ e.seq < next_seq
  BY AgendaIs DEF AgendaInv
<1>8. \A e, f \in kept : (e.seq = f.seq => e = f) /\ Lone(e, f)
  BY AgendaIs DEF AgendaInv
<1>9. next_seq' \in Nat /\ end_seq' \in Nat /\ next_seq + mine <= next_seq'
  BY <1>1, <1>2, <1>3, <1>4
<1>10. \A m \in added : m.seq >= next_seq + mine /\ m.seq < next_seq'
  BY <1>1, <1>2, <1>3, <1>4
<1>11. \A e \in agenda' : IsEvent(e) /\ e.seq \in Nat /\ e.at >= now' /\ e.seq < next_seq'
  BY <1>1, <1>2, <1>3, <1>5, <1>6, <1>7, <1>9, <1>10
<1>12. ASSUME NEW e \in agenda', NEW f \in agenda'
       PROVE  (e.seq = f.seq => e = f) /\ Lone(e, f)
  <2>1. CASE e \in kept /\ f \in kept
    BY <1>8, <2>1
  <2>2. CASE e \in added /\ f \in added
    BY <1>4, <2>2
  <2>3. ASSUME NEW x \in kept, NEW y \in added
        PROVE  /\ x.seq # y.seq
               /\ ~ (x.source = y.source /\ x.source \in {"tick", "audio"})
    <3>1. x.seq # y.seq
      BY <1>1, <1>3, <1>7, <1>10, <1>6
    <3> QED
      BY <1>5, <3>1
  <2> QED
    BY <1>2, <2>1, <2>2, <2>3 DEF Lone
<1>13. ASSUME NEW q \in ends'
       PROVE  end_seq' < next_seq' /\ \A e \in agenda' : e.seq # end_seq'
  <2>1. CASE StartsService
    BY <1>1, <1>2, <1>3, <1>6, <1>7, <1>9, <1>10, <2>1
  <2>2. CASE ~ StartsService
    <3>1. q \in ends
      BY <1>3, <2>2
    <3>2. end_seq < next_seq /\ \A e \in agenda : e.seq # end_seq
      BY <3>1, AgendaIs DEF AgendaInv
    <3> QED
      BY <1>1, <1>2, <1>3, <1>6, <1>7, <1>9, <1>10, <2>2, <3>2
  <2> QED
    BY <2>1, <2>2
<1>14. AgendaSound'
  BY <1>11, <1>12, <1>13 DEF AgendaSound, Lone
<1> QED
  BY <1>9, <1>11, <1>14 DEF AgendaInv

(***************************************************************************)
(* What each handler schedules.                                            *)
(***************************************************************************)
LEMMA AgainPlaced ==
  ASSUME NEW e, IsEvent(e)
  PROVE  /\ Placed(Again(e))
         /\ \A f \in Again(e) : f.at > e.at /\ f.source = e.source
<1>1. e \in EventType /\ e.at \in Nat /\ e.period \in Nat /\ e.until \in Nat
  BY DEF IsEvent, EventType
<1> DEFINE f == [e EXCEPT !.at = @ + e.period]
<1>2. Again(e) = {} \/ (Again(e) = {f} /\ e.period > 0 /\ f.at < f.until)
  BY <1>1 DEF Again, Unless, EventType
<1>3. /\ f.at = e.at + e.period /\ f.source = e.source /\ f.until = e.until
      /\ f.period = e.period
  BY <1>1 DEF EventType
<1>4. e.period > 0 /\ f.at < f.until => f \in EventType /\ f.until <= MaxTime
  <2> SUFFICES ASSUME e.period > 0, f.at < f.until
               PROVE  f \in EventType /\ f.until <= MaxTime
    OBVIOUS
  <2>1. f.until <= MaxTime
    BY <1>3 DEF IsEvent
  <2>2. e.at + e.period \in 0..MaxTime
    BY <1>1, <1>3, <2>1, Clock
  <2>3. f \in EventType
    BY <1>1, <2>2 DEF EventType
  <2> QED
    BY <2>1, <2>3
<1> HIDE DEF f
<1>5. IsFiniteSet(Again(e))
  <2>1. IsFiniteSet({}) /\ IsFiniteSet({f})
    BY FS_EmptySet, FS_Singleton
  <2> QED
    BY <1>2, <2>1
<1>6. e.period > 0 /\ f.at < f.until => IsEvent(f) /\ f.at > e.at
  BY <1>1, <1>3, <1>4 DEF IsEvent
<1> QED
  BY <1>2, <1>3, <1>5, <1>6 DEF Placed, Lone

LEMMA TickPlaces ==
  ASSUME NEW K \in SUBSET Key, \A k, l \in K : k.npc = l.npc => k = l,
         NEW at \in 0..MaxTime, NEW B,
         B = {Prefetch(k, at) : k \in K}
               \cup IF Lod!Rearmed(at) = Lod!NoTick THEN {} ELSE {TickEvent(Lod!Rearmed(at))}
  PROVE  /\ Placed(B)
         /\ \A e \in B : e.at >= at /\ e.source \in {"weight", "tick"}
<1> DEFINE P == {Prefetch(k, at) : k \in K}
           next == Lod!Rearmed(at)
           T == IF next = -1 THEN {} ELSE {TickEvent(next)}
<1>1. /\ \A k \in K : IsEvent(Prefetch(k, at)) /\ Prefetch(k, at).seq \in 1..Len(Npcs)
      /\ \A k, l \in K : Prefetch(k, at).seq = Prefetch(l, at).seq => k = l
  BY PrefetchPlaced
<1>2. \A k \in K : Prefetch(k, at).at = at /\ Prefetch(k, at).source = "weight"
  BY DEF Prefetch, Event
<1>3. /\ \A e \in P : IsEvent(e) /\ e.at = at /\ e.source = "weight" /\ e.seq \in 1..Len(Npcs)
      /\ \A e, f \in P : e.seq = f.seq => e = f
  BY <1>1, <1>2
<1>4. next = -1 \/ (next \in 0..MaxTime /\ next >= at)
  <2>1. at + TickUs \in Nat /\ at + TickUs >= at
    BY Clock, ClockAssumption
  <2>2. next = IF at + TickUs < StopAtUs THEN at + TickUs ELSE -1
    BY DEF Lod!Rearmed, Lod!NoTick
  <2> QED
    BY <2>1, <2>2, Clock
<1>5. \A e \in T : /\ next # -1 /\ e = TickEvent(next)
                   /\ TickEvent(next).at = next /\ TickEvent(next).source = "tick"
  BY DEF TickEvent, Event
<1> HIDE DEF next
<1>6. /\ \A e \in T : IsEvent(e) /\ e.at >= at /\ e.source = "tick" /\ e.seq = Len(Npcs) + 1
      /\ \A e, f \in T : e = f
  BY <1>4, <1>5, TickPlaced
<1>7. B = P \cup T
  BY DEF Lod!NoTick, next
<1> HIDE DEF P, T
<1>8. \A e \in B : IsEvent(e) /\ e.seq \in 1..(Len(Npcs) + 1)
  BY <1>3, <1>6, <1>7, Clock
<1>9. \A e, f \in B : e.seq = f.seq => e = f
  BY <1>3, <1>6, <1>7, Clock
<1>10. \A e, f \in B : Lone(e, f)
  BY <1>3, <1>6, <1>7 DEF Lone
<1>11. IsFiniteSet(B)
  <2>1. 1 \in Int /\ Len(Npcs) + 1 \in Int
    BY Clock
  <2> QED
    BY <1>8, <1>9, <2>1, PlacesAreFinite
<1>12. \A e \in B : e.at >= at /\ e.source \in {"weight", "tick"}
  BY <1>3, <1>6, <1>7
<1> QED
  BY <1>8, <1>9, <1>10, <1>11, <1>12 DEF Placed

LEMMA NoPrefetches == Placed({})
BY FS_EmptySet DEF Placed

-----------------------------------------------------------------------------
(***************************************************************************)
(* The ids of a generator count what it has issued.                        *)
(***************************************************************************)
IssuedAlike(source, weight) ==
  {u \in Txn : u.source = source /\ u.weight = weight /\ log[u] # <<>>}

IdsInOrder ==
  \A t \in Txn : log[t] # <<>> => t.id \in 1..Cardinality(IssuedAlike(t.source, t.weight))

(***************************************************************************)
(* What holds between two events of a run.                                 *)
(***************************************************************************)
RunInv == run \in Runs /\ PolicyInv /\ AgendaInv /\ IdsInOrder

BusSound == run \in Runs /\ PolicyInv => now \in Nat /\ \A q \in ends : q.at \in Nat /\ q.at >= now

LEMMA BusIsSound == BusSound
BY BusFacts DEF BusSound

LEMMA BusFactsAfter ==
  run' \in Runs /\ PolicyInv' => now' \in Nat /\ \A q \in ends' : q.at \in Nat /\ q.at >= now'
<1>1. BusSound'
  BY BusIsSound, PTL
<1> QED
  BY <1>1 DEF BusSound

LEMMA IssuedIsFinite ==
  ASSUME NEW source, NEW weight
  PROVE  /\ IsFiniteSet(IssuedAlike(source, weight))
         /\ Cardinality(IssuedAlike(source, weight)) \in Nat
BY TxnAssumption, FS_Subset, FS_CardinalityType DEF IssuedAlike

\* So the next transaction of a generator has not been issued.
LEMMA NextIsNew ==
  ASSUME IdsInOrder, NEW e, NextTxn(e) \in Txn
  PROVE  log[NextTxn(e)] = <<>>
<1> DEFINE t == NextTxn(e)
           n == Cardinality(IssuedAlike(e.source, e.weight))
<1>1. t.source = e.source /\ t.weight = e.weight /\ t.id = 1 + n
  BY DEF NextTxn, IssuedAlike
<1>2. n \in Nat
  BY IssuedIsFinite
<1> HIDE DEF n
<1>3. log[t] # <<>> => t.id \in 1..Cardinality(IssuedAlike(t.source, t.weight))
  BY DEF IdsInOrder
<1>4. Cardinality(IssuedAlike(t.source, t.weight)) = n
  BY <1>1 DEF n
<1> HIDE DEF t
<1>5. log[t] = <<>>
  <2>1. t.id = 1 + n /\ (log[t] # <<>> => t.id \in 1..n)
    BY <1>1, <1>3, <1>4
  <2> QED
    BY <1>2, <2>1
<1> QED
  BY <1>5 DEF t

LEMMA IdsAfterIssue ==
  ASSUME IdsInOrder, NEW e, NEW t \in Txn, t = NextTxn(e), log[t] = <<>>, log'[t] # <<>>,
         Keeps(Txn \ {t})
  PROVE  IdsInOrder'
<1> DEFINE n == Cardinality(IssuedAlike(t.source, t.weight))
<1>1. t.source = e.source /\ t.weight = e.weight
  BY DEF NextTxn
<1>2. t.id = 1 + n
  BY <1>1 DEF NextTxn, IssuedAlike
<1>3. \A u \in Txn \ {t} : log'[u] # <<>> <=> log[u] # <<>>
  BY DEF Keeps
<1>4. IssuedAlike(t.source, t.weight)' = IssuedAlike(t.source, t.weight) \cup {t}
  BY <1>3 DEF IssuedAlike
<1>5. t \notin IssuedAlike(t.source, t.weight)
  BY DEF IssuedAlike
<1>6. n \in Nat /\ IsFiniteSet(IssuedAlike(t.source, t.weight))
  BY IssuedIsFinite
<1>7. Cardinality(IssuedAlike(t.source, t.weight)') = n + 1
  BY <1>4, <1>5, <1>6, FS_AddElement
<1> HIDE DEF n
<1> SUFFICES ASSUME NEW u \in Txn, log'[u] # <<>>
             PROVE  u.id \in 1..Cardinality(IssuedAlike(u.source, u.weight)')
  BY DEF IdsInOrder
<1>8. CASE u = t
  BY <1>2, <1>6, <1>7, <1>8
<1>9. CASE u # t /\ u.source = t.source /\ u.weight = t.weight
  <2>1. u.id \in 1..n
    BY <1>3, <1>9 DEF IdsInOrder, n
  <2> QED
    BY <1>6, <1>7, <1>9, <2>1
<1>10. CASE ~ (u.source = t.source /\ u.weight = t.weight)
  <2>1. IssuedAlike(u.source, u.weight)' = IssuedAlike(u.source, u.weight)
    BY <1>3, <1>10 DEF IssuedAlike
  <2>2. u.id \in 1..Cardinality(IssuedAlike(u.source, u.weight))
    BY <1>3, <1>10 DEF IdsInOrder
  <2> QED
    BY <2>1, <2>2
<1> QED
  BY <1>8, <1>9, <1>10

LEMMA IdsKept ==
  ASSUME IdsInOrder, Keeps(Txn)
  PROVE  IdsInOrder'
<1>1. \A u \in Txn : log'[u] # <<>> <=> log[u] # <<>>
  BY DEF Keeps
<1>2. \A s, w : IssuedAlike(s, w)' = IssuedAlike(s, w)
  BY <1>1 DEF IssuedAlike
<1> QED
  BY <1>1, <1>2 DEF IdsInOrder

LEMMA NothingIssued == Init => \A t \in Txn : log[t] = <<>>
<1>1. Fifo!Init => log = [t \in Txn |-> <<>>]
  BY DEF Fifo!Init, Fifo!BusInit
<1>2. Qos!Init => log = [t \in Txn |-> <<>>]
  BY DEF Qos!Init, Qos!BusInit
<1> QED
  BY <1>1, <1>2 DEF Init

LEMMA BusIsIdle == Init => now = 0 /\ ends = {}
<1>1. Fifo!Init => now = 0 /\ ends = {}
  BY DEF Fifo!Init, Fifo!BusInit
<1>2. Qos!Init => now = 0 /\ ends = {}
  BY DEF Qos!Init, Qos!BusInit
<1> QED
  BY <1>1, <1>2 DEF Init

LEMMA InitRunInv == Init => RunInv
<1> SUFFICES ASSUME Init
             PROVE  RunInv
  OBVIOUS
<1> DEFINE B == FirstEvents(run)
<1>1. run \in Runs /\ agenda = Numbered(B, 0) /\ next_seq = Cardinality(B) /\ end_seq = 0
  BY DEF Init
<1>2. now = 0 /\ ends = {}
  BY BusIsIdle
<1>3. Placed(B)
  BY <1>1, FirstPlaced
<1> HIDE DEF B
<1>4. /\ Cardinality(B) \in Nat
      /\ \A m \in agenda : m.seq \in 0..(0 + Cardinality(B) - 1)
      /\ \A m, n \in agenda : (m.seq = n.seq => m = n) /\ Lone(m, n)
  BY <1>1, <1>3, NumberedInOrder
<1>5. \A m \in agenda : IsEvent(m) /\ m.seq \in Nat
  BY <1>1, <1>3, NumberedEvents
<1>6. \A m \in agenda : m.at >= 0
  BY <1>5 DEF IsEvent, EventType
<1>7. AgendaSound
  BY <1>1, <1>2, <1>4, <1>6, AgendaIs
<1>8. AgendaInv
  BY <1>1, <1>4, <1>5, <1>7 DEF AgendaInv
<1>9. IdsInOrder
  BY NothingIssued DEF IdsInOrder
<1> QED
  BY <1>1, <1>8, <1>9, PolicyInit DEF RunInv

-----------------------------------------------------------------------------
(***************************************************************************)
(* The handlers.                                                           *)
(***************************************************************************)
\* The event that the main loop takes is not in the past, and not after a quantum end.
LEMMA FirstIsDue ==
  ASSUME RunInv, NEW e \in agenda, IsFirst(e)
  PROVE  /\ IsEvent(e) /\ e.at \in 0..MaxTime /\ e.at >= now
         /\ \A f \in agenda : f.at >= e.at
         /\ \A q \in ends : e.at <= q.at
<1>1. \A f \in agenda : IsEvent(f) /\ f.at \in 0..MaxTime /\ f.at >= now
  BY AgendaIs DEF RunInv, AgendaInv, IsEvent, EventType
<1>2. now \in Nat /\ \A q \in ends : q.at \in Nat
  BY BusFacts DEF RunInv
<1>3. \A f \in agenda \ {e} : e.at < f.at \/ e.at = f.at
  BY DEF IsFirst, Before
<1>4. \A q \in ends : e.at < q.at \/ e.at = q.at
  BY DEF IsFirst, Before
<1>5. \A f \in agenda : f.at >= e.at
  BY <1>1, <1>3, Clock
<1>6. \A q \in ends : e.at <= q.at
  BY <1>1, <1>2, <1>4, Clock
<1> QED
  BY <1>1, <1>5, <1>6

LEMMA GeneratorStep ==
  ASSUME RunInv, NEW e \in agenda, RunGenerator(e)
  PROVE  RunInv' /\ BusStep
<1> DEFINE t == NextTxn(e)
<1>1. /\ IsEvent(e) /\ e.at \in 0..MaxTime /\ e.at >= now
      /\ \A f \in agenda : f.at >= e.at
      /\ \A q \in ends : e.at <= q.at
  BY FirstIsDue DEF RunGenerator
<1>2. t \in Txn /\ Accepts(t, e.at) /\ run' = run
  BY DEF RunGenerator, Accepts
<1>3. log[t] = <<>>
  BY <1>2, NextIsNew DEF RunInv
<1>4. Scheduled(agenda \ {e}, Again(e)) /\ e.source # "tick"
  BY DEF RunGenerator
<1> HIDE DEF t
<1>5. PolicyInv /\ run \in Runs /\ AgendaInv /\ IdsInOrder
  BY DEF RunInv
<1>6. /\ PolicyInv' /\ BusStep /\ now' = e.at
      /\ log'[t] # <<>> /\ Keeps(Txn \ {t})
  BY <1>1, <1>2, <1>3, <1>5, IssueStep
<1>7. IdsInOrder'
  <2>1. t = NextTxn(e)
    BY DEF t
  <2> QED
    BY <1>2, <1>3, <1>5, <1>6, <2>1, IdsAfterIssue
<1>8. now' \in Nat /\ \A q \in ends' : q.at >= now'
  BY <1>2, <1>5, <1>6, BusFactsAfter
<1>9. Placed(Again(e)) /\ \A f \in Again(e) : f.at > e.at /\ f.source = e.source
  BY <1>1, AgainPlaced
<1>10. \A f \in Again(e) : f.at >= now'
  <2>1. \A f \in Again(e) : f.at \in Int
    BY <1>9 DEF Placed, IsEvent, EventType
  <2> QED
    BY <1>6, <1>8, <1>9, <2>1
<1>11. \A f \in agenda \ {e} : f.at >= now'
  BY <1>1, <1>6
<1>12. \A f \in agenda \ {e}, g \in Again(e) :
         ~ (f.source = g.source /\ f.source \in {"tick", "audio"})
  BY <1>5, <1>9, AgendaIs DEF AgendaInv, Lone
<1>13. AgendaInv'
  <2>1. agenda \ {e} \in SUBSET agenda
    OBVIOUS
  <2> QED
    BY <1>4, <1>5, <1>8, <1>9, <1>10, <1>11, <1>12, <2>1, ScheduledSound
<1> QED
  BY <1>2, <1>5, <1>6, <1>7, <1>13 DEF RunInv

\* One weight for an NPC is missing at most.
LEMMA LodMissing ==
  ASSUME NEW want
  PROVE  /\ Lod!Missing(want) \in SUBSET Key
         /\ \A k, l \in Lod!Missing(want) : k.npc = l.npc => k = l
BY BandsAssumption DEF Lod!Missing, Lod!Key, Lod!Lods, Key

LEMMA IntentMissing ==
  ASSUME NEW want
  PROVE  /\ Intent!Missing(want) \in SUBSET Key
         /\ \A k, l \in Intent!Missing(want) : k.npc = l.npc => k = l
BY DEF Intent!Missing, Key

LEMMA TickHandled ==
  ASSUME RunInv, NEW e \in agenda, RunTick(e)
  PROVE  RunInv' /\ UNCHANGED busVars
<1>1. /\ IsEvent(e) /\ e.at \in 0..MaxTime /\ e.at >= now
      /\ \A f \in agenda : f.at >= e.at
      /\ \A q \in ends : e.at <= q.at
  BY FirstIsDue DEF RunTick
<1>2. now' = e.at /\ UNCHANGED busVars /\ run' = run /\ e.source = "tick"
  BY DEF RunTick
<1>3. ends' = ends
  BY <1>2 DEF busVars
<1>4. PolicyInv /\ run \in Runs /\ AgendaInv /\ IdsInOrder
  BY DEF RunInv
<1>5. PolicyInv' /\ Keeps(Txn)
  <2>1. now' \in Nat /\ now' >= now
    BY <1>1, <1>2, Clock
  <2>2. \A q \in ends : q.at >= now'
    <3>1. \A q \in ends : q.at \in Nat
      BY <1>4, BusFacts
    <3> QED
      BY <1>1, <1>2, <2>1, <3>1
  <2> QED
    BY <1>2, <1>4, <2>1, <2>2, TickStep
<1>6. IdsInOrder'
  BY <1>4, <1>5, IdsKept
<1>7. PICK K \in SUBSET Key :
         /\ \A k, l \in K : k.npc = l.npc => k = l
         /\ TickSchedules(e, K)
  BY LodMissing, IntentMissing DEF RunTick, LodTick, IntentTick
<1> DEFINE next == Lod!Rearmed(e.at)
           B == {Prefetch(k, e.at) : k \in K}
                  \cup IF next = Lod!NoTick THEN {} ELSE {TickEvent(next)}
<1>8. Placed(B) /\ \A f \in B : f.at >= e.at /\ f.source \in {"weight", "tick"}
  BY <1>1, <1>7, TickPlaces
<1>9. Scheduled(agenda \ {e}, B)
  BY <1>7 DEF TickSchedules
<1> HIDE DEF B
<1>10. now' \in Nat /\ \A q \in ends' : q.at >= now'
  BY <1>2, <1>4, <1>5, BusFactsAfter
<1>11. /\ \A f \in agenda \ {e} : f.at >= now'
       /\ \A f \in B : f.at >= now'
  BY <1>1, <1>2, <1>8
<1>12. \A f \in agenda \ {e}, g \in B :
         ~ (f.source = g.source /\ f.source \in {"tick", "audio"})
  BY <1>2, <1>4, <1>8, AgendaIs DEF AgendaInv, Lone
<1>13. AgendaInv'
  <2>1. agenda \ {e} \in SUBSET agenda
    OBVIOUS
  <2> QED
    BY <1>4, <1>8, <1>9, <1>10, <1>11, <1>12, <2>1, ScheduledSound
<1> QED
  BY <1>2, <1>4, <1>5, <1>6, <1>13 DEF RunInv

LEMMA QuantumEndStep ==
  ASSUME RunInv, RunQuantumEnd
  PROVE  RunInv' /\ BusStep
<1>1. EndsQuantum /\ run' = run /\ Scheduled(agenda, {}) /\ QuantumEndIsFirst
  BY DEF RunQuantumEnd, EndsQuantum
<1>2. PolicyInv /\ run \in Runs /\ AgendaInv /\ IdsInOrder
  BY DEF RunInv
<1>3. /\ PolicyInv' /\ BusStep /\ Keeps(Txn)
      /\ \E q \in ends : now' = q.at
  BY <1>1, <1>2, EndStep
<1>4. IdsInOrder'
  BY <1>2, <1>3, IdsKept
<1>5. now' \in Nat /\ \A q \in ends' : q.at >= now'
  BY <1>1, <1>2, <1>3, BusFactsAfter
<1>6. \A f \in agenda : f.at >= now'
  <2>1. PICK q \in ends : now' = q.at
    BY <1>3
  <2>2. \A f \in agenda : q.at < f.at \/ q.at = f.at
    BY <1>1 DEF QuantumEndIsFirst, Before
  <2>3. \A f \in agenda : f.at \in Nat
    BY <1>2, Clock DEF AgendaInv, IsEvent, EventType
  <2> QED
    BY <1>5, <2>1, <2>2, <2>3
<1>7. AgendaInv'
  <2>1. agenda \in SUBSET agenda /\ \A f \in {} : f.at >= now'
    OBVIOUS
  <2>2. \A e \in agenda, f \in {} : ~ (e.source = f.source /\ e.source \in {"tick", "audio"})
    OBVIOUS
  <2> QED
    BY <1>1, <1>2, <1>5, <1>6, <2>1, <2>2, NoPrefetches, ScheduledSound
<1> QED
  BY <1>1, <1>2, <1>3, <1>4, <1>7 DEF RunInv

LEMMA RunStutters ==
  ASSUME RunInv, UNCHANGED vars
  PROVE  RunInv'
<1>1. /\ now' = now /\ run' = run /\ agenda' = agenda /\ next_seq' = next_seq
      /\ end_seq' = end_seq /\ UNCHANGED busVars
  BY DEF vars
<1>2. ends' = ends
  BY <1>1 DEF busVars
<1>3. PolicyInv /\ run \in Runs /\ AgendaInv /\ IdsInOrder
  BY DEF RunInv
<1>4. PolicyInv' /\ Keeps(Txn)
  <2>1. now \in Nat /\ \A q \in ends : q.at \in Nat /\ q.at >= now
    BY <1>3, BusFacts
  <2>2. now' \in Nat /\ now' >= now /\ \A q \in ends : q.at >= now'
    BY <1>1, <2>1
  <2> QED
    BY <1>1, <1>3, <2>2, TickStep
<1>5. IdsInOrder'
  BY <1>3, <1>4, IdsKept
<1>6. AgendaInv'
  BY <1>1, <1>2, <1>3 DEF AgendaInv, AgendaSound
<1> QED
  BY <1>1, <1>3, <1>4, <1>5, <1>6 DEF RunInv

LEMMA StepKeepsRunInv == RunInv /\ [Next]_vars => RunInv'
BY GeneratorStep, TickHandled, QuantumEndStep, RunStutters DEF Next

LEMMA RunInvHolds == Spec => []RunInv
BY InitRunInv, StepKeepsRunInv, PTL DEF Spec

(***************************************************************************)
(* The event queue never holds an event of the past, nor two of the same   *)
(* number, nor two ticks or two audio events, whatever the bursts, the     *)
(* policy, the predictor and the sizes of transactions.                    *)
(***************************************************************************)
THEOREM AgendaIsSound == Spec => []AgendaSound
<1>1. RunInv => AgendaSound
  BY DEF RunInv, AgendaInv
<1> QED
  BY <1>1, RunInvHolds, PTL

(***************************************************************************)
(* On the bus, the program takes the steps of FifoScheduler or of          *)
(* QosScheduler and no others, so their theorems hold of every run of it.  *)
(***************************************************************************)
THEOREM BusIsImplemented == Spec => ImplementsBus
<1>1. Init => (run.policy = "fifo" => Fifo!Init) /\ (run.policy = "qos" => Qos!Init)
  BY DEF Init
<1>2. RunInv /\ [Next]_vars
        => [IF run.policy = "fifo" THEN Fifo!Next ELSE Qos!Next]_busVars
  <2> SUFFICES ASSUME RunInv, [Next]_vars
               PROVE  BusStep \/ UNCHANGED busVars
    BY DEF BusStep
  <2>1. ASSUME NEW e \in agenda, RunGenerator(e)
        PROVE  BusStep
    BY <2>1, GeneratorStep
  <2>2. ASSUME NEW e \in agenda, RunTick(e)
        PROVE  UNCHANGED busVars
    BY <2>2 DEF RunTick
  <2>3. ASSUME RunQuantumEnd
        PROVE  BusStep
    BY <2>3, QuantumEndStep
  <2>4. UNCHANGED vars => UNCHANGED busVars
    BY DEF vars
  <2> QED
    BY <2>1, <2>2, <2>3, <2>4 DEF Next
<1> QED
  BY <1>1, <1>2, RunInvHolds, PTL DEF Spec, ImplementsBus

-----------------------------------------------------------------------------
(***************************************************************************)
(* What the generators have issued and are about to issue, source by       *)
(* source.                                                                 *)
(***************************************************************************)
OfSource(s) == {e \in agenda : e.source = s}

\* A step that neither issues for a source nor touches its events.
Same(s) ==
  /\ OfSource(s)' = OfSource(s) /\ IssuedOf(s)' = IssuedOf(s)
  /\ \A t \in IssuedOf(s) : IssuedAt(t)' = IssuedAt(t)

LEMMA AgendaSteps ==
  ASSUME AgendaInv, NEW kept, NEW B, Scheduled(kept, B)
  PROVE  \E first \in Nat : first >= next_seq /\ agenda' = kept \cup Numbered(B, first)
<1> DEFINE mine == IF StartsService THEN 1 ELSE 0
<1>1. next_seq \in Nat /\ mine \in {0, 1}
  BY DEF AgendaInv
<1>2. agenda' = kept \cup Numbered(B, next_seq + mine)
  BY DEF Scheduled, SeqAfter
<1> HIDE DEF mine
<1> QED
  BY <1>1, <1>2

LEMMA NothingNumbered == \A first : Numbered({}, first) = {}
BY DEF Numbered

LEMMA KeptIssues ==
  ASSUME Keeps(Txn), NEW s
  PROVE  /\ IssuedOf(s)' = IssuedOf(s)
         /\ \A t \in IssuedOf(s) : IssuedAt(t)' = IssuedAt(t)
BY DEF Keeps, IssuedOf, IssuedAt

(***************************************************************************)
(* A generator's event issues the next transaction of its source and       *)
(* leaves the other sources alone.                                         *)
(***************************************************************************)
LEMMA GeneratorIssues ==
  ASSUME RunInv, NEW e \in agenda, RunGenerator(e)
  PROVE  \E t \in Txn :
            /\ log[t] = <<>> /\ run' = run
            /\ t.source = e.source /\ t.weight = e.weight
            /\ t.id = 1 + Cardinality(IssuedAlike(e.source, e.weight))
            /\ IsEvent(e) /\ e.source # "tick" /\ now' = e.at
            /\ \A s : s # e.source => Same(s)
            /\ IssuedOf(e.source)' = IssuedOf(e.source) \cup {t}
            /\ t \notin IssuedOf(e.source)
            /\ \A u \in IssuedOf(e.source) : IssuedAt(u)' = IssuedAt(u)
            /\ IssuedAt(t)' = e.at
            /\ \E first \in Nat :
                 /\ first >= next_seq
                 /\ OfSource(e.source)' = (OfSource(e.source) \ {e}) \cup Numbered(Again(e), first)
<1>1. /\ IsEvent(e) /\ e.at \in 0..MaxTime /\ e.at >= now
      /\ \A q \in ends : e.at <= q.at
  BY FirstIsDue DEF RunGenerator
<1>2. PICK t \in Txn : t = NextTxn(e) /\ Accepts(t, e.at)
  BY DEF RunGenerator, Accepts
<1>3. log[t] = <<>> /\ run' = run /\ e.source # "tick"
  BY <1>2, NextIsNew DEF RunInv, RunGenerator
<1>4. t.source = e.source /\ t.weight = e.weight
      /\ t.id = 1 + Cardinality(IssuedAlike(e.source, e.weight))
  BY <1>2 DEF NextTxn, IssuedAlike
<1>5. Scheduled(agenda \ {e}, Again(e))
  BY DEF RunGenerator
<1>6. PolicyInv /\ run \in Runs /\ AgendaInv
  BY DEF RunInv
<1>7. /\ now' = e.at
      /\ log'[t] # <<>> /\ log'[t][1].at = e.at /\ Keeps(Txn \ {t})
  BY <1>1, <1>2, <1>3, <1>6, IssueStep
<1>8. PICK first \in Nat :
         first >= next_seq /\ agenda' = (agenda \ {e}) \cup Numbered(Again(e), first)
  BY <1>5, <1>6, AgendaSteps
<1>9. Placed(Again(e)) /\ \A f \in Again(e) : f.source = e.source
  BY <1>1, AgainPlaced
<1>10. \A f \in Numbered(Again(e), first) : f.source = e.source
  BY <1>9, NumberedKeeps
<1>11. /\ \A s : s # e.source => OfSource(s)' = OfSource(s)
       /\ OfSource(e.source)' = (OfSource(e.source) \ {e}) \cup Numbered(Again(e), first)
  BY <1>8, <1>10 DEF OfSource
<1>12. \A u \in Txn \ {t} : /\ (log'[u] # <<>> <=> log[u] # <<>>)
                            /\ (log[u] # <<>> => log'[u][1] = log[u][1])
  BY <1>7 DEF Keeps
<1>13. \A s : s # e.source => IssuedOf(s)' = IssuedOf(s)
  BY <1>4, <1>12 DEF IssuedOf
<1>14. /\ IssuedOf(e.source)' = IssuedOf(e.source) \cup {t}
       /\ t \notin IssuedOf(e.source)
  BY <1>2, <1>3, <1>4, <1>7, <1>12 DEF IssuedOf
<1>15. \A s : \A u \in IssuedOf(s) : IssuedAt(u)' = IssuedAt(u)
  BY <1>3, <1>12 DEF IssuedOf, IssuedAt
<1>16. IssuedAt(t)' = e.at
  BY <1>7 DEF IssuedAt
<1>17. \A s : s # e.source => Same(s)
  BY <1>11, <1>13, <1>15 DEF Same
<1>18. \E n \in Nat :
         /\ n >= next_seq
         /\ OfSource(e.source)' = (OfSource(e.source) \ {e}) \cup Numbered(Again(e), n)
  BY <1>8, <1>11
<1> QED
  BY <1>1, <1>3, <1>4, <1>7, <1>14, <1>15, <1>16, <1>17, <1>18, Zenon

\* A tick touches ticks and prefetches.
LEMMA TickPrefetches ==
  ASSUME RunInv, NEW e \in agenda, RunTick(e)
  PROVE  /\ run' = run /\ run.predictor # "scripted" /\ e.source = "tick"
         /\ Same("audio") /\ Same("texture")
         /\ IssuedOf("weight")' = IssuedOf("weight")
         /\ \A t \in IssuedOf("weight") : IssuedAt(t)' = IssuedAt(t)
         /\ \A f \in OfSource("weight")' \ OfSource("weight") :
              f.at = e.at /\ f.weight \in Key /\ f.period = 0
         /\ \A f \in OfSource("tick")' \ OfSource("tick") :
              f.at = e.at + TickUs /\ f.at < StopAtUs
<1>1. IsEvent(e) /\ e.at \in 0..MaxTime
  BY FirstIsDue DEF RunTick
<1>2. UNCHANGED busVars /\ run' = run /\ e.source = "tick" /\ run.predictor # "scripted"
  BY DEF RunTick
<1>3. Keeps(Txn)
  BY <1>2 DEF busVars, Keeps
<1>4. AgendaInv
  BY DEF RunInv
<1>5. PICK K \in SUBSET Key :
         /\ \A k, l \in K : k.npc = l.npc => k = l
         /\ TickSchedules(e, K)
  BY LodMissing, IntentMissing DEF RunTick, LodTick, IntentTick
<1> DEFINE next == Lod!Rearmed(e.at)
           B == {Prefetch(k, e.at) : k \in K}
                  \cup IF next = Lod!NoTick THEN {} ELSE {TickEvent(next)}
<1>6. Placed(B) /\ \A f \in B : f.source \in {"weight", "tick"}
  BY <1>1, <1>5, TickPlaces
<1>7. \A f \in B :
        /\ f.source = "weight" => f.at = e.at /\ f.weight \in Key /\ f.period = 0
        /\ f.source = "tick" => f.at = e.at + TickUs /\ f.at < StopAtUs
  <2>1. \A k \in K : /\ Prefetch(k, e.at).at = e.at /\ Prefetch(k, e.at).weight = k
                     /\ Prefetch(k, e.at).period = 0 /\ Prefetch(k, e.at).source = "weight"
    BY DEF Prefetch, Event
  <2>2. TickEvent(next).source = "tick" /\ TickEvent(next).at = next
    BY DEF TickEvent, Event
  <2>3. next # Lod!NoTick => next = e.at + TickUs /\ next < StopAtUs
    BY DEF Lod!Rearmed, Lod!NoTick
  <2> HIDE DEF next
  <2> QED
    BY <2>1, <2>2, <2>3
<1>8. Scheduled(agenda \ {e}, B)
  BY <1>5 DEF TickSchedules
<1> HIDE DEF B
<1>9. PICK first \in Nat : agenda' = (agenda \ {e}) \cup Numbered(B, first)
  BY <1>4, <1>8, AgendaSteps
<1>10. \A f \in Numbered(B, first) :
         \E g \in B : /\ f.at = g.at /\ f.source = g.source /\ f.weight = g.weight
                      /\ f.period = g.period
  BY <1>6, NumberedKeeps
<1>11. \A f \in Numbered(B, first) :
         /\ f.source \in {"weight", "tick"}
         /\ f.source = "weight" => f.at = e.at /\ f.weight \in Key /\ f.period = 0
         /\ f.source = "tick" => f.at = e.at + TickUs /\ f.at < StopAtUs
  BY <1>6, <1>7, <1>10
<1>12. \A s \in {"audio", "texture"} : OfSource(s)' = OfSource(s)
  BY <1>2, <1>9, <1>11 DEF OfSource
<1>13. ASSUME NEW s, NEW f \in OfSource(s)' \ OfSource(s)
       PROVE  f \in Numbered(B, first) /\ f.source = s
  <2>1. f \in agenda' /\ f.source = s /\ f \notin agenda
    BY <1>13 DEF OfSource
  <2> QED
    BY <1>9, <2>1
<1>14. \A f \in OfSource("weight")' \ OfSource("weight") :
         f.at = e.at /\ f.weight \in Key /\ f.period = 0
  BY <1>11, <1>13
<1>15. \A f \in OfSource("tick")' \ OfSource("tick") : f.at = e.at + TickUs /\ f.at < StopAtUs
  BY <1>11, <1>13
<1> QED
  BY <1>2, <1>3, <1>12, <1>14, <1>15, KeptIssues DEF Same

LEMMA EndIssuesNothing ==
  ASSUME RunInv, RunQuantumEnd
  PROVE  run' = run /\ \A s : Same(s)
<1>1. EndsQuantum /\ run' = run /\ Scheduled(agenda, {})
  BY DEF RunQuantumEnd, EndsQuantum
<1>2. PolicyInv /\ AgendaInv
  BY DEF RunInv
<1>3. Keeps(Txn)
  BY <1>1, <1>2, EndStep
<1>4. agenda' = agenda
  BY <1>1, <1>2, AgendaSteps, NothingNumbered
<1> QED
  BY <1>1, <1>3, <1>4, KeptIssues DEF Same, OfSource

LEMMA StutterIssuesNothing ==
  ASSUME UNCHANGED vars
  PROVE  run' = run /\ \A s : Same(s)
BY DEF vars, busVars, Same, OfSource, IssuedOf, IssuedAt

\* At the start nothing has been issued, and the agenda holds what run_one() has scheduled.
LEMMA AtTheStart ==
  ASSUME Init
  PROVE  /\ run \in Runs /\ Placed(FirstEvents(run))
         /\ agenda = {Given(FirstEvents(run), 0, e) : e \in FirstEvents(run)}
         /\ \A s : IssuedOf(s) = {}
         /\ \A f \in agenda :
              \E e \in FirstEvents(run) :
                /\ f.at = e.at /\ f.source = e.source /\ f.weight = e.weight
                /\ f.period = e.period /\ f.until = e.until
<1>1. run \in Runs /\ agenda = Numbered(FirstEvents(run), 0)
  BY DEF Init
<1>2. Placed(FirstEvents(run))
  BY <1>1, FirstPlaced
<1>3. \A s : IssuedOf(s) = {}
  BY NothingIssued DEF IssuedOf
<1> QED
  BY <1>1, <1>2, <1>3, GivenIs, NumberedKeeps

\* Who schedules which of them.
LEMMA FirstOfSource ==
  ASSUME NEW r \in Runs, NEW e \in FirstEvents(r)
  PROVE  /\ e.source = "audio" => e \in AudioStart(r)
         /\ e.source = "texture" => e \in BurstStarts(r)
         /\ e.source \in {"weight", "tick"} => e \in PredictorStart(r)
BY AudioPlaced, BurstsPlaced, PredictorPlaced DEF FirstEvents

-----------------------------------------------------------------------------
(***************************************************************************)
(* The audio stream.                                                       *)
(***************************************************************************)
Packets == Cardinality(IssuedOf("audio"))

AudioInv ==
  /\ \A t \in IssuedOf("audio") :
       /\ t.weight = NoWeight
       /\ IssuedAt(t) = t.id * AudioPeriod /\ IssuedAt(t) < StopAtUs
  /\ Packets > 0 => Packets * AudioPeriod < StopAtUs
  /\ \A e \in OfSource("audio") :
       /\ run.audio_enabled
       /\ e.weight = NoWeight /\ e.period = AudioPeriod /\ e.until = StopAtUs
       /\ e.at = (Packets + 1) * AudioPeriod /\ e.at < StopAtUs
  /\ OfSource("audio") = {} =>
       IF run.audio_enabled THEN (Packets + 1) * AudioPeriod >= StopAtUs ELSE Packets = 0

LEMMA IssuedOfFinite ==
  ASSUME NEW s
  PROVE  IsFiniteSet(IssuedOf(s)) /\ Cardinality(IssuedOf(s)) \in Nat
BY TxnAssumption, FS_Subset, FS_CardinalityType DEF IssuedOf

LEMMA AudioFrame ==
  ASSUME AudioInv, Same("audio"), run' = run
  PROVE  AudioInv'
<1>1. /\ OfSource("audio")' = OfSource("audio") /\ IssuedOf("audio")' = IssuedOf("audio")
      /\ \A t \in IssuedOf("audio") : IssuedAt(t)' = IssuedAt(t)
  BY DEF Same
<1>2. Packets' = Packets
  BY <1>1 DEF Packets
<1> QED
  BY <1>1, <1>2 DEF AudioInv

\* The events that again() gives, with the numbers of the event queue.
LEMMA AgainIs ==
  ASSUME NEW e, IsEvent(e), NEW first \in Nat
  PROVE  /\ e.at \in Nat /\ e.period \in Nat /\ e.until \in Nat
         /\ \A g \in Numbered(Again(e), first) :
              /\ e.period > 0 /\ g.at = e.at + e.period /\ g.at < e.until
              /\ g.source = e.source /\ g.weight = e.weight
              /\ g.period = e.period /\ g.until = e.until
              /\ g.seq >= first
         /\ \A g, h \in Numbered(Again(e), first) : g = h
         /\ (Numbered(Again(e), first) = {}) <=> (e.period = 0 \/ e.at + e.period >= e.until)
<1> DEFINE f == [e EXCEPT !.at = @ + e.period]
           N == Numbered(Again(e), first)
<1>1. e \in EventType /\ e.at \in Nat /\ e.period \in Nat /\ e.until \in Nat
  BY Clock DEF IsEvent, EventType
<1>2. /\ f.at = e.at + e.period /\ f.source = e.source /\ f.until = e.until
      /\ f.period = e.period /\ f.weight = e.weight
  BY <1>1 DEF EventType
<1>3. Again(e) = IF e.period > 0 /\ f.at < f.until THEN {f} ELSE {}
  BY <1>1, <1>2 DEF Again, Unless
<1>4. Placed(Again(e))
  BY AgainPlaced
<1> HIDE DEF f
<1>5. \A g \in N : \E h \in Again(e) : /\ g.at = h.at /\ g.source = h.source /\ g.until = h.until
                                       /\ g.period = h.period /\ g.weight = h.weight
  BY <1>4, NumberedKeeps
<1>6. ASSUME NEW g \in N
      PROVE  /\ e.period > 0 /\ g.at = e.at + e.period /\ g.at < e.until
             /\ g.source = e.source /\ g.weight = e.weight
             /\ g.period = e.period /\ g.until = e.until
  BY <1>2, <1>3, <1>5
<1>7. \A g \in N : g.seq >= first
  BY <1>4, NumberedInOrder
<1>8. N = {Given(Again(e), first, h) : h \in Again(e)}
  BY <1>4, GivenIs
<1> HIDE DEF N
<1>9. Again(e) = {f} \/ Again(e) = {}
  BY <1>3
<1>10. \A g, h \in N : g = h
  BY <1>8, <1>9
<1>11. (N = {}) <=> (Again(e) = {})
  BY <1>8, <1>9
<1>12. (Again(e) = {}) <=> ~ (e.period > 0 /\ f.at < f.until)
  BY <1>3
<1>13. (N = {}) <=> (e.period = 0 \/ e.at + e.period >= e.until)
  BY <1>1, <1>2, <1>11, <1>12
<1> QED
  BY <1>1, <1>6, <1>7, <1>10, <1>13 DEF N

LEMMA AudioIssued ==
  ASSUME RunInv, AudioInv, NEW e \in agenda, RunGenerator(e), e.source = "audio"
  PROVE  AudioInv'
<1>1. PICK t \in Txn :
         /\ run' = run /\ IsEvent(e)
         /\ t.source = e.source /\ t.weight = e.weight
         /\ t.id = 1 + Cardinality(IssuedAlike(e.source, e.weight))
         /\ IssuedOf(e.source)' = IssuedOf(e.source) \cup {t}
         /\ t \notin IssuedOf(e.source)
         /\ \A u \in IssuedOf(e.source) : IssuedAt(u)' = IssuedAt(u)
         /\ IssuedAt(t)' = e.at
         /\ \E first \in Nat :
              /\ first >= next_seq
              /\ OfSource(e.source)' = (OfSource(e.source) \ {e}) \cup Numbered(Again(e), first)
  BY GeneratorIssues
<1>2. PICK first \in Nat :
         OfSource("audio")' = (OfSource("audio") \ {e}) \cup Numbered(Again(e), first)
  BY <1>1
<1> DEFINE n == Packets
<1>3. n \in Nat /\ IsFiniteSet(IssuedOf("audio"))
  BY IssuedOfFinite DEF Packets
<1>4. e \in OfSource("audio")
  BY DEF OfSource
<1>5. /\ run.audio_enabled
      /\ e.weight = NoWeight /\ e.period = AudioPeriod /\ e.until = StopAtUs
      /\ e.at = (n + 1) * AudioPeriod /\ e.at < StopAtUs
  BY <1>4 DEF AudioInv
<1>6. \A f \in OfSource("audio") : f = e
  BY <1>4, AgendaIs DEF RunInv, AgendaInv, OfSource, Lone
<1>7. IssuedAlike("audio", NoWeight) = IssuedOf("audio")
  BY DEF AudioInv, IssuedAlike, IssuedOf
<1>8. t.id = n + 1
  BY <1>1, <1>3, <1>5, <1>7 DEF Packets
<1>9. Packets' = n + 1
  <2>1. IssuedOf("audio")' = IssuedOf("audio") \cup {t} /\ t \notin IssuedOf("audio")
    BY <1>1
  <2>2. Cardinality(IssuedOf("audio")') = Cardinality(IssuedOf("audio")) + 1
    BY <1>3, <2>1, FS_AddElement
  <2> QED
    BY <2>2 DEF Packets
<1>10. \A f \in OfSource("audio")' : f \in Numbered(Again(e), first)
  BY <1>2, <1>6
<1>11. (n + 2) * AudioPeriod = (n + 1) * AudioPeriod + AudioPeriod
  BY <1>3, Clock
<1>12. AudioPeriod \in Nat \ {0} /\ StopAtUs \in Nat /\ (n + 1) * AudioPeriod \in Nat
  BY <1>3, Clock
<1> HIDE DEF n
<1>13. \A u \in IssuedOf("audio")' :
         /\ u.weight = NoWeight
         /\ IssuedAt(u)' = u.id * AudioPeriod /\ IssuedAt(u)' < StopAtUs
  <2>1. \A u \in IssuedOf("audio") :
          /\ u.weight = NoWeight
          /\ IssuedAt(u)' = u.id * AudioPeriod /\ IssuedAt(u)' < StopAtUs
    BY <1>1 DEF AudioInv
  <2>2. t.weight = NoWeight /\ IssuedAt(t)' = t.id * AudioPeriod /\ IssuedAt(t)' < StopAtUs
    BY <1>1, <1>5, <1>8
  <2> QED
    BY <1>1, <2>1, <2>2
<1>14. Packets' * AudioPeriod < StopAtUs
  BY <1>5, <1>9
<1>15. (Packets' + 1) * AudioPeriod = e.at + AudioPeriod
  <2>1. Packets' + 1 = n + 2
    BY <1>3, <1>9
  <2> QED
    BY <1>5, <1>11, <2>1
<1>16. \A f \in OfSource("audio")' :
         /\ f.weight = NoWeight /\ f.period = AudioPeriod /\ f.until = StopAtUs
         /\ f.at = (Packets' + 1) * AudioPeriod /\ f.at < StopAtUs
  BY <1>1, <1>5, <1>10, <1>15, AgainIs
<1>17. OfSource("audio")' = {} => (Packets' + 1) * AudioPeriod >= StopAtUs
  BY <1>1, <1>2, <1>5, <1>12, <1>15, AgainIs
<1>18. run'.audio_enabled
  BY <1>1, <1>5
<1> QED
  BY <1>13, <1>14, <1>16, <1>17, <1>18 DEF AudioInv

LEMMA QuotientIs ==
  ASSUME NEW a \in Int, NEW b \in Nat \ {0}, NEW q \in Int, q * b <= a, a < (q + 1) * b
  PROVE  a \div b = q
OBVIOUS

\* As many packets as there are periods before the end.
LEMMA AudioComplete ==
  ASSUME AudioInv, run \in Runs, OfSource("audio") = {}
  PROVE  Packets = IF run.audio_enabled THEN Max({0, (StopAtUs - 1) \div AudioPeriod}) ELSE 0
<1> DEFINE n == Packets
           P == AudioPeriod
           S == StopAtUs
<1>1. n \in Nat /\ P \in Nat \ {0} /\ S \in Nat
  BY IssuedOfFinite, Clock DEF Packets
<1>2. /\ n > 0 => n * P < S
      /\ IF run.audio_enabled THEN (n + 1) * P >= S ELSE n = 0
  BY DEF AudioInv
<1> HIDE DEF n, P, S
<1>3. ASSUME run.audio_enabled
      PROVE  n = Max({0, (S - 1) \div P})
  <2>1. CASE S = 0
    <3>1. n = 0
      <4>1. n * P \in Nat
        BY <1>1
      <4> QED
        BY <1>1, <1>2, <2>1, <4>1
    <3>2. (-1) * P <= -1 /\ -1 < (-1 + 1) * P
      BY <1>1
    <3>3. (S - 1) \div P = -1
      BY <1>1, <2>1, <3>2, QuotientIs
    <3> QED
      BY <3>1, <3>3, MaxOfTwo
  <2>2. CASE S > 0
    <3>1. n * P <= S - 1
      <4>1. n = 0 => n * P = 0
        BY <1>1
      <4>2. n * P \in Nat
        BY <1>1
      <4> QED
        BY <1>1, <1>2, <2>2, <4>1, <4>2
    <3>2. S - 1 < (n + 1) * P
      <4>1. (n + 1) * P \in Nat
        BY <1>1
      <4> QED
        BY <1>1, <1>2, <1>3, <4>1
    <3>3. (S - 1) \div P = n
      BY <1>1, <3>1, <3>2, QuotientIs
    <3> QED
      BY <1>1, <3>3, MaxOfTwo
  <2> QED
    BY <1>1, <2>1, <2>2
<1> QED
  BY <1>2, <1>3 DEF n, P, S

LEMMA AudioStarts == Init => AudioInv
<1> SUFFICES ASSUME Init
             PROVE  AudioInv
  OBVIOUS
<1>1. run \in Runs /\ IssuedOf("audio") = {}
  BY AtTheStart
<1>2. Packets = 0
  BY <1>1, FS_EmptySet DEF Packets
<1> DEFINE first == TrafficEvent(AudioPeriod, -Len(run.texture_bursts), "audio",
                                 AudioPeriod, StopAtUs)
<1>3. /\ first.at = AudioPeriod /\ first.until = StopAtUs /\ first.period = AudioPeriod
      /\ first.weight = NoWeight /\ first.source = "audio"
  BY DEF TrafficEvent, Event
<1> HIDE DEF first
<1>4. AudioStart(run) = IF run.audio_enabled /\ AudioPeriod < StopAtUs THEN {first} ELSE {}
  BY <1>3, Clock DEF AudioStart, Unless, first
<1>5. \A f \in OfSource("audio") :
        /\ run.audio_enabled /\ AudioPeriod < StopAtUs
        /\ f.weight = NoWeight /\ f.period = AudioPeriod /\ f.until = StopAtUs
        /\ f.at = AudioPeriod
  BY <1>1, <1>3, <1>4, AtTheStart, FirstOfSource DEF OfSource
<1>6. ASSUME OfSource("audio") = {}
      PROVE  ~ (run.audio_enabled /\ AudioPeriod < StopAtUs)
  <2>1. \A f \in agenda : f.source # "audio"
    BY <1>6 DEF OfSource
  <2>2. \A e \in FirstEvents(run) :
          /\ Given(FirstEvents(run), 0, e) \in agenda
          /\ Given(FirstEvents(run), 0, e).source = e.source
    BY AtTheStart, GivenIs
  <2>3. AudioStart(run) \subseteq FirstEvents(run)
    BY DEF FirstEvents
  <2> QED
    BY <1>3, <1>4, <2>1, <2>2, <2>3
<1>7. AudioPeriod \in Nat /\ (0 + 1) * AudioPeriod = AudioPeriod /\ StopAtUs \in Nat
  BY Clock
<1>8. \A f \in OfSource("audio") : f.at = (Packets + 1) * AudioPeriod /\ f.at < StopAtUs
  BY <1>2, <1>5, <1>7
<1>9. OfSource("audio") = {} =>
        IF run.audio_enabled THEN (Packets + 1) * AudioPeriod >= StopAtUs ELSE Packets = 0
  BY <1>2, <1>6, <1>7
<1> QED
  BY <1>1, <1>2, <1>5, <1>8, <1>9 DEF AudioInv

-----------------------------------------------------------------------------
(***************************************************************************)
(* The weights.                                                            *)
(***************************************************************************)
WeightInv ==
  /\ \A t \in IssuedOf("weight") : IssuedAt(t) \in PrefetchTimes
  /\ \A e \in OfSource("weight") : e.at \in PrefetchTimes /\ e.period = 0
  /\ \A e \in OfSource("tick") : e.at \in PrefetchTimes

LEMMA WeightsStart == Init => WeightInv
<1> SUFFICES ASSUME Init
             PROVE  WeightInv
  OBVIOUS
<1>1. run \in Runs /\ IssuedOf("weight") = {}
  BY AtTheStart
<1>2. 0 \in PrefetchTimes
  <2>1. 0 % TickUs = 0 /\ 0 \in 0..StopAtUs
    BY ClockAssumption, Clock
  <2> QED
    BY <2>1 DEF PrefetchTimes
<1>3. \A e \in PredictorStart(run) : e.at = 0 /\ (e.source = "weight" => e.period = 0)
  BY DEF PredictorStart, Prefetch, TickEvent, Event
<1>4. \A f \in agenda : f.source \in {"weight", "tick"} =>
                          f.at = 0 /\ (f.source = "weight" => f.period = 0)
  BY <1>1, <1>3, AtTheStart, FirstOfSource
<1> QED
  BY <1>1, <1>2, <1>4 DEF WeightInv, OfSource

LEMMA WeightFrame ==
  ASSUME WeightInv, Same("weight"), Same("tick"), run' = run
  PROVE  WeightInv'
BY DEF WeightInv, Same, PrefetchTimes

LEMMA NextMultiple ==
  ASSUME NEW a \in Nat, NEW p \in Nat \ {0}, a % p = 0
  PROVE  (a + p) % p = 0
<1>1. a = p * (a \div p) + (a % p) /\ a \div p \in Nat
  OBVIOUS
<1> DEFINE q == a \div p
<1>2. q \in Nat /\ a = p * q
  BY <1>1
<1> HIDE DEF q
<1>3. a + p = p * (q + 1) /\ (p * (q + 1)) % p = 0
  BY <1>2
<1> QED
  BY <1>3

LEMMA WeightsTicked ==
  ASSUME RunInv, WeightInv, NEW e \in agenda, RunTick(e)
  PROVE  WeightInv'
<1>1. /\ run' = run /\ run.predictor # "scripted" /\ e.source = "tick"
      /\ IssuedOf("weight")' = IssuedOf("weight")
      /\ \A t \in IssuedOf("weight") : IssuedAt(t)' = IssuedAt(t)
      /\ \A f \in OfSource("weight")' \ OfSource("weight") :
           f.at = e.at /\ f.weight \in Key /\ f.period = 0
      /\ \A f \in OfSource("tick")' \ OfSource("tick") :
           f.at = e.at + TickUs /\ f.at < StopAtUs
  BY TickPrefetches
<1>2. PrefetchTimes' = PrefetchTimes
  BY <1>1 DEF PrefetchTimes
<1>3. PrefetchTimes = {at \in 0..StopAtUs : at % TickUs = 0 /\ (at < StopAtUs \/ at = 0)}
  BY <1>1 DEF PrefetchTimes
<1>4. e.at \in PrefetchTimes
  BY <1>1 DEF WeightInv, OfSource
<1>5. ASSUME e.at + TickUs < StopAtUs
      PROVE  e.at + TickUs \in PrefetchTimes
  <2>1. e.at \in Nat /\ e.at % TickUs = 0 /\ TickUs \in Nat \ {0} /\ StopAtUs \in Nat
    BY <1>3, <1>4, Clock, ClockAssumption
  <2>2. (e.at + TickUs) % TickUs = 0
    BY <2>1, NextMultiple
  <2> QED
    BY <1>3, <1>5, <2>1, <2>2
<1>6. \A f \in OfSource("weight")' : f.at \in PrefetchTimes /\ f.period = 0
  BY <1>1, <1>4 DEF WeightInv
<1>7. \A f \in OfSource("tick")' : f.at \in PrefetchTimes
  BY <1>1, <1>5 DEF WeightInv
<1> QED
  BY <1>1, <1>2, <1>6, <1>7 DEF WeightInv

\* A prefetch does not come again.
LEMMA WeightIssued ==
  ASSUME RunInv, WeightInv, NEW e \in agenda, RunGenerator(e), e.source = "weight"
  PROVE  /\ \E t \in Txn :
              /\ t.weight = e.weight
              /\ IssuedOf("weight")' = IssuedOf("weight") \cup {t}
         /\ OfSource("weight")' = OfSource("weight") \ {e}
         /\ run' = run
         /\ WeightInv'
<1>1. PICK t \in Txn :
         /\ run' = run /\ IsEvent(e) /\ t.weight = e.weight
         /\ \A s : s # e.source => Same(s)
         /\ IssuedOf(e.source)' = IssuedOf(e.source) \cup {t}
         /\ \A u \in IssuedOf(e.source) : IssuedAt(u)' = IssuedAt(u)
         /\ IssuedAt(t)' = e.at
         /\ \E first \in Nat :
              /\ first >= next_seq
              /\ OfSource(e.source)' = (OfSource(e.source) \ {e}) \cup Numbered(Again(e), first)
  BY GeneratorIssues
<1>2. e.at \in PrefetchTimes /\ e.period = 0
  BY DEF WeightInv, OfSource
<1>3. PICK first \in Nat :
         OfSource("weight")' = (OfSource("weight") \ {e}) \cup Numbered(Again(e), first)
  BY <1>1
<1>4. Numbered(Again(e), first) = {}
  BY <1>1, <1>2, AgainIs
<1>5. OfSource("weight")' = OfSource("weight") \ {e}
  BY <1>3, <1>4
<1>6. PrefetchTimes' = PrefetchTimes
  BY <1>1 DEF PrefetchTimes
<1>7. OfSource("tick")' = OfSource("tick")
  BY <1>1 DEF Same
<1>8. \A u \in IssuedOf("weight")' : IssuedAt(u)' \in PrefetchTimes
  BY <1>1, <1>2 DEF WeightInv
<1>9. WeightInv'
  BY <1>5, <1>6, <1>7, <1>8 DEF WeightInv
<1> QED
  BY <1>1, <1>5, <1>9

(***************************************************************************)
(* The scripted predictor: a LOD0 for everybody, once.                     *)
(***************************************************************************)
Scripted == {[npc |-> n, lod |-> 0] : n \in Npc}

ScriptedInv ==
  run.predictor = "scripted" =>
    /\ \A e \in OfSource("weight") : /\ e.weight \in Scripted
                                     /\ \A t \in IssuedOf("weight") : t.weight # e.weight
    /\ \A t \in IssuedOf("weight") : t.weight \in Scripted
    /\ \A e, f \in OfSource("weight") : e.weight = f.weight => e = f
    /\ \A t, u \in IssuedOf("weight") : t.weight = u.weight => t = u
    /\ \A k \in Scripted : \/ \E e \in OfSource("weight") : e.weight = k
                           \/ \E t \in IssuedOf("weight") : t.weight = k

LEMMA ScriptedStarts == Init => ScriptedInv
<1> SUFFICES ASSUME Init, run.predictor = "scripted"
             PROVE  /\ IssuedOf("weight") = {}
                    /\ \A e \in OfSource("weight") : e.weight \in Scripted
                    /\ \A e, f \in OfSource("weight") : e.weight = f.weight => e = f
                    /\ \A k \in Scripted : \E e \in OfSource("weight") : e.weight = k
  BY DEF ScriptedInv
<1> DEFINE B == FirstEvents(run)
<1>1. /\ run \in Runs /\ IssuedOf("weight") = {} /\ Placed(B)
      /\ agenda = {Given(B, 0, e) : e \in B}
  BY AtTheStart
<1>2. PredictorStart(run) = {Prefetch(k, 0) : k \in Scripted}
  BY DEF PredictorStart, Scripted
<1>3. \A k \in Scripted : Prefetch(k, 0).weight = k /\ Prefetch(k, 0).source = "weight"
  BY DEF Prefetch, Event
<1>4. \A e \in B : e.source = "weight" => \E k \in Scripted : e = Prefetch(k, 0)
  BY <1>1, <1>2, FirstOfSource
<1>5. \A k \in Scripted : Prefetch(k, 0) \in B
  BY <1>2 DEF FirstEvents
<1> HIDE DEF B
<1>6. \A e \in B : Given(B, 0, e).weight = e.weight /\ Given(B, 0, e).source = e.source
  <2>1. ASSUME NEW first \in Nat
        PROVE  \A e \in B : /\ Given(B, first, e).weight = e.weight
                            /\ Given(B, first, e).source = e.source
    BY <1>1, GivenIs
  <2> QED
    BY <2>1
<1>7. \A f \in OfSource("weight") :
        \E k \in Scripted : f = Given(B, 0, Prefetch(k, 0)) /\ f.weight = k
  BY <1>1, <1>3, <1>4, <1>6 DEF OfSource
<1>8. \A k \in Scripted : /\ Given(B, 0, Prefetch(k, 0)) \in OfSource("weight")
                          /\ Given(B, 0, Prefetch(k, 0)).weight = k
  BY <1>1, <1>3, <1>5, <1>6 DEF OfSource
<1>9. \A e \in OfSource("weight") : e.weight \in Scripted
  BY <1>7
<1>10. \A e, f \in OfSource("weight") : e.weight = f.weight => e = f
  BY <1>7
<1>11. \A k \in Scripted : \E e \in OfSource("weight") : e.weight = k
  BY <1>8
<1> QED
  BY <1>1, <1>9, <1>10, <1>11

LEMMA ScriptedFrame ==
  ASSUME ScriptedInv, Same("weight"), run' = run
  PROVE  ScriptedInv'
BY DEF ScriptedInv, Same

LEMMA ScriptedIssued ==
  ASSUME RunInv, WeightInv, ScriptedInv, NEW e \in agenda, RunGenerator(e), e.source = "weight"
  PROVE  ScriptedInv'
<1>1. OfSource("weight")' = OfSource("weight") \ {e} /\ run' = run
  BY WeightIssued
<1>2. PICK t \in Txn :
         t.weight = e.weight /\ IssuedOf("weight")' = IssuedOf("weight") \cup {t}
  BY WeightIssued
<1>3. e \in OfSource("weight")
  BY DEF OfSource
<1> DEFINE A == OfSource("weight")
           I == IssuedOf("weight")
<1> SUFFICES ASSUME run.predictor = "scripted"
             PROVE  /\ \A f \in A \ {e} : /\ f.weight \in Scripted
                                          /\ \A u \in I \cup {t} : u.weight # f.weight
                    /\ \A u \in I \cup {t} : u.weight \in Scripted
                    /\ \A f, g \in A \ {e} : f.weight = g.weight => f = g
                    /\ \A u, v \in I \cup {t} : u.weight = v.weight => u = v
                    /\ \A k \in Scripted : \/ \E f \in A \ {e} : f.weight = k
                                           \/ \E u \in I \cup {t} : u.weight = k
  BY <1>1, <1>2 DEF ScriptedInv
<1>4. /\ \A f \in A : f.weight \in Scripted /\ \A u \in I : u.weight # f.weight
      /\ \A u \in I : u.weight \in Scripted
      /\ \A f, g \in A : f.weight = g.weight => f = g
      /\ \A u, v \in I : u.weight = v.weight => u = v
      /\ \A k \in Scripted : (\E f \in A : f.weight = k) \/ (\E u \in I : u.weight = k)
  BY DEF ScriptedInv
<1> HIDE DEF A, I
<1>5. e \in A
  BY <1>3 DEF A
<1> QED
  BY <1>2, <1>4, <1>5

LEMMA ScriptedComplete ==
  ASSUME ScriptedInv, run.predictor = "scripted", OfSource("weight") = {}
  PROVE  Cardinality(IssuedOf("weight")) = Len(Npcs)
<1> DEFINE I == IssuedOf("weight")
           place == [t \in I |-> Rank[t.weight.npc]]
<1>1. /\ \A t \in I : t.weight \in Scripted
      /\ \A t, u \in I : t.weight = u.weight => t = u
      /\ \A k \in Scripted : \E t \in I : t.weight = k
  BY DEF ScriptedInv
<1>2. \A t \in I : t.weight = [npc |-> t.weight.npc, lod |-> 0] /\ t.weight.npc \in Npc
  BY <1>1 DEF Scripted
<1>3. \A i \in 1..Len(Npcs) : Npcs[i] \in Npc /\ Rank[Npcs[i]] = i
  <2>1. \A i \in 1..Len(Npcs) : i \in DOMAIN Npcs
    BY NpcAssumption
  <2>2. \A n \in Npc : Rank[n] \in DOMAIN Npcs /\ Npcs[Rank[n]] = n
    BY DEF Npc, Rank
  <2> QED
    BY <2>1, <2>2, NpcAssumption DEF Npc
<1> HIDE DEF I
<1>4. place \in [I -> 1..Len(Npcs)]
  BY <1>2, Ranks
<1>5. ASSUME NEW t \in I, NEW u \in I, place[t] = place[u]
      PROVE  t = u
  <2>1. Rank[t.weight.npc] = Rank[u.weight.npc]
    BY <1>5
  <2>2. t.weight.npc = u.weight.npc
    BY <1>2, <2>1, Ranks
  <2> DEFINE lod0(n) == [npc |-> n, lod |-> 0]
  <2>3. t.weight = lod0(t.weight.npc) /\ u.weight = lod0(u.weight.npc)
    BY <1>2
  <2> HIDE DEF lod0
  <2>4. t.weight = u.weight
    BY <2>2, <2>3
  <2> QED
    BY <1>1, <2>4
<1>6. \A i \in 1..Len(Npcs) : \E t \in I : place[t] = i
  <2> SUFFICES ASSUME NEW i \in 1..Len(Npcs)
               PROVE  \E t \in I : place[t] = i
    OBVIOUS
  <2>1. [npc |-> Npcs[i], lod |-> 0] \in Scripted
    BY <1>3 DEF Scripted
  <2>2. PICK t \in I : t.weight = [npc |-> Npcs[i], lod |-> 0]
    BY <1>1, <2>1
  <2>3. place[t] = Rank[Npcs[i]]
    BY <2>2
  <2> QED
    BY <1>3, <2>3
<1>7. ExistsBijection(I, 1..Len(Npcs))
  <2>1. place \in Bijection(I, 1..Len(Npcs))
    BY <1>4, <1>5, <1>6 DEF Bijection, Injection, Surjection, IsInjective
  <2> QED
    BY <2>1 DEF ExistsBijection
<1>8. IsFiniteSet(I)
  BY IssuedOfFinite DEF I
<1>9. Cardinality(1..Len(Npcs)) = Cardinality(I)
  BY <1>7, <1>8, FS_Bijection
<1>10. Cardinality(1..Len(Npcs)) = Len(Npcs)
  BY Clock, FS_Interval
<1> QED
  BY <1>9, <1>10 DEF I

-----------------------------------------------------------------------------
(***************************************************************************)
(* The texture bursts.                                                     *)
(***************************************************************************)
\* From `at` every `period` until `until`, and so the times of an event and of its successors.
Times(at, until, period) == {x \in at..(until - 1) : (x - at) % period = 0}

TimesOf(e) == Times(e.at, e.until, e.period)

TextureIssuedAt(at) == {t \in IssuedOf("texture") : IssuedAt(t) = at}
TextureToCome(at) == {e \in OfSource("texture") : at \in TimesOf(e)}

(***************************************************************************)
(* What is due at a time has been issued then, or will be by an event that *)
(* is on the agenda or by one of its successors.                           *)
(***************************************************************************)
TextureInv ==
  /\ \A e \in OfSource("texture") : e.period > 0 /\ e.at < e.until
  /\ \A t \in IssuedOf("texture") : IssuedAt(t) \in Nat
  /\ \A at \in Nat : Cardinality(TextureDue(at))
                       = Cardinality(TextureIssuedAt(at)) + Cardinality(TextureToCome(at))

LEMMA LastMultiple ==
  ASSUME NEW d \in Nat \ {0}, NEW p \in Nat \ {0}, d % p = 0
  PROVE  d >= p /\ (d - p) % p = 0
<1>1. d = p * (d \div p) + (d % p) /\ d \div p \in Nat
  OBVIOUS
<1> DEFINE q == d \div p
<1>2. q \in Nat /\ d = p * q
  BY <1>1
<1> HIDE DEF q
<1>3. q >= 1
  BY <1>2
<1>4. q - 1 \in Nat
  BY <1>2, <1>3
<1>5. d - p = p * (q - 1) /\ (p * (q - 1)) % p = 0 /\ p * (q - 1) \in Nat
  BY <1>2, <1>4
<1> QED
  BY <1>2, <1>5

LEMMA TimesGoOn ==
  ASSUME NEW at \in Nat, NEW until \in Nat, NEW period \in Nat \ {0}, at < until
  PROVE  /\ Times(at, until, period) = {at} \cup Times(at + period, until, period)
         /\ at \notin Times(at + period, until, period)
         /\ at + period >= until => Times(at + period, until, period) = {}
<1>1. ASSUME NEW x \in Times(at, until, period), x # at
      PROVE  x \in Times(at + period, until, period)
  <2>1. x \in Int /\ x >= at /\ x < until /\ (x - at) % period = 0
    BY <1>1 DEF Times
  <2>2. x - at \in Nat \ {0}
    BY <1>1, <2>1
  <2>3. x - at >= period /\ ((x - at) - period) % period = 0
    BY <2>1, <2>2, LastMultiple
  <2>4. x - (at + period) = (x - at) - period
    BY <2>1
  <2>5. x \in (at + period)..(until - 1)
    BY <2>1, <2>3
  <2> QED
    BY <2>3, <2>4, <2>5 DEF Times
<1>2. ASSUME NEW x \in Times(at + period, until, period)
      PROVE  x \in Times(at, until, period) /\ x > at
  <2>1. x \in Int /\ x >= at + period /\ x < until /\ (x - (at + period)) % period = 0
    BY <1>2 DEF Times
  <2> DEFINE d == x - (at + period)
  <2>2. d \in Nat /\ d % period = 0
    BY <2>1
  <2> HIDE DEF d
  <2>3. (d + period) % period = 0
    BY <2>2, NextMultiple
  <2>4. x - at = d + period
    BY <2>1 DEF d
  <2>5. x \in at..(until - 1) /\ x > at
    BY <2>1
  <2> QED
    BY <2>3, <2>4, <2>5 DEF Times
<1>3. at \in Times(at, until, period)
  <2>1. (at - at) % period = 0 /\ at \in at..(until - 1)
    OBVIOUS
  <2> QED
    BY <2>1 DEF Times
<1>4. at + period >= until => Times(at + period, until, period) = {}
  BY DEF Times
<1>5. at \notin Times(at + period, until, period)
  BY <1>2
<1> QED
  BY <1>1, <1>2, <1>3, <1>4, <1>5

LEMMA TextureFrame ==
  ASSUME TextureInv, Same("texture"), run' = run
  PROVE  TextureInv'
<1>1. /\ OfSource("texture")' = OfSource("texture")
      /\ IssuedOf("texture")' = IssuedOf("texture")
      /\ \A t \in IssuedOf("texture") : IssuedAt(t)' = IssuedAt(t)
  BY DEF Same
<1>2. \A at : /\ TextureIssuedAt(at)' = TextureIssuedAt(at)
              /\ TextureToCome(at)' = TextureToCome(at)
              /\ TextureDue(at)' = TextureDue(at)
  BY <1>1 DEF TextureIssuedAt, TextureToCome, TextureDue
<1> QED
  BY <1>1, <1>2 DEF TextureInv

LEMMA AgendaIsFinite ==
  ASSUME AgendaInv
  PROVE  IsFiniteSet(agenda)
<1>1. next_seq \in Nat /\ \A e \in agenda : e.seq \in Nat /\ e.seq < next_seq
  BY AgendaIs DEF AgendaInv
<1>2. \A e \in agenda : e.seq \in 0..next_seq
  BY <1>1
<1>3. \A e, f \in agenda : e.seq = f.seq => e = f
  BY AgendaIs DEF AgendaInv
<1> QED
  BY <1>1, <1>2, <1>3, PlacesAreFinite

LEMMA TextureIsFinite ==
  ASSUME AgendaInv, NEW at
  PROVE  /\ IsFiniteSet(TextureToCome(at)) /\ Cardinality(TextureToCome(at)) \in Nat
         /\ IsFiniteSet(TextureIssuedAt(at)) /\ Cardinality(TextureIssuedAt(at)) \in Nat
<1>1. IsFiniteSet(TextureToCome(at))
  <2>1. TextureToCome(at) \in SUBSET agenda
    BY DEF TextureToCome, OfSource
  <2> QED
    BY <2>1, AgendaIsFinite, FS_Subset
<1>2. IsFiniteSet(TextureIssuedAt(at))
  <2>1. TextureIssuedAt(at) \in SUBSET IssuedOf("texture")
    BY DEF TextureIssuedAt
  <2> QED
    BY <2>1, IssuedOfFinite, FS_Subset
<1> QED
  BY <1>1, <1>2, FS_CardinalityType

LEMMA SwappedElement ==
  ASSUME NEW S, IsFiniteSet(S), NEW x \in S, NEW y, y \notin S
  PROVE  Cardinality((S \ {x}) \cup {y}) = Cardinality(S)
<1>1. IsFiniteSet(S \ {x}) /\ Cardinality(S \ {x}) = Cardinality(S) - 1
  BY FS_RemoveElement
<1>2. Cardinality((S \ {x}) \cup {y}) = Cardinality(S \ {x}) + 1
  BY <1>1, FS_AddElement
<1>3. Cardinality(S) \in Nat
  BY FS_CardinalityType
<1> QED
  BY <1>1, <1>2, <1>3

LEMMA TextureIssued ==
  ASSUME RunInv, TextureInv, NEW e \in agenda, RunGenerator(e), e.source = "texture"
  PROVE  TextureInv'
<1>1. PICK t \in Txn :
         /\ run' = run /\ IsEvent(e)
         /\ IssuedOf(e.source)' = IssuedOf(e.source) \cup {t}
         /\ t \notin IssuedOf(e.source)
         /\ \A u \in IssuedOf(e.source) : IssuedAt(u)' = IssuedAt(u)
         /\ IssuedAt(t)' = e.at
         /\ \E first \in Nat :
              /\ first >= next_seq
              /\ OfSource(e.source)' = (OfSource(e.source) \ {e}) \cup Numbered(Again(e), first)
  BY GeneratorIssues
<1>2. PICK first \in Nat :
         /\ first >= next_seq
         /\ OfSource("texture")' = (OfSource("texture") \ {e}) \cup Numbered(Again(e), first)
  BY <1>1
<1> DEFINE N == Numbered(Again(e), first)
           A == OfSource("texture")
           I == IssuedOf("texture")
<1>3. e \in A /\ e.period > 0 /\ e.at < e.until
  BY DEF TextureInv, OfSource
<1>4. /\ e.at \in Nat /\ e.period \in Nat /\ e.until \in Nat
      /\ \A g \in N : /\ g.at = e.at + e.period /\ g.at < e.until
                      /\ g.period = e.period /\ g.until = e.until /\ g.seq >= first
      /\ \A g, h \in N : g = h
      /\ (N = {}) <=> (e.at + e.period >= e.until)
  BY <1>1, <1>3, AgainIs
<1>5. \A g \in N : g \notin A
  <2>1. next_seq \in Nat /\ \A f \in A : f.seq \in Nat /\ f.seq < next_seq
    BY AgendaIs DEF RunInv, AgendaInv, OfSource
  <2>2. \A g \in N : g \notin A
    <3> SUFFICES ASSUME NEW g \in N, g \in A
                 PROVE  FALSE
      OBVIOUS
    <3>1. g.seq \in Nat /\ g.seq < next_seq /\ g.seq >= first
      BY <1>4, <2>1
    <3> QED
      BY <1>2, <2>1, <3>1
  <2> QED
    BY <2>2
<1>6. A' = (A \ {e}) \cup N /\ I' = I \cup {t} /\ t \notin I
  BY <1>1, <1>2
<1> DEFINE later == Times(e.at + e.period, e.until, e.period)
<1>7. /\ TimesOf(e) = {e.at} \cup later /\ e.at \notin later
      /\ e.at + e.period >= e.until => later = {}
      /\ \A g \in N : TimesOf(g) = later
  <2>1. e.period \in Nat \ {0}
    BY <1>3, <1>4
  <2>2. /\ TimesOf(e) = {e.at} \cup later /\ e.at \notin later
        /\ e.at + e.period >= e.until => later = {}
    BY <1>3, <1>4, <2>1, TimesGoOn DEF TimesOf
  <2>3. \A g \in N : TimesOf(g) = later
    BY <1>4 DEF TimesOf
  <2> QED
    BY <2>2, <2>3
<1> HIDE DEF N, A, I, later
<1>8. ASSUME NEW at \in Nat
      PROVE  Cardinality(TextureDue(at)')
               = Cardinality(TextureIssuedAt(at)') + Cardinality(TextureToCome(at)')
  <2> DEFINE J == TextureIssuedAt(at)
             C == TextureToCome(at)
  <2>1. TextureDue(at)' = TextureDue(at)
    BY <1>1 DEF TextureDue, BlockTimes
  <2>2. Cardinality(TextureDue(at)) = Cardinality(J) + Cardinality(C)
    BY DEF TextureInv
  <2>3. /\ IsFiniteSet(C) /\ Cardinality(C) \in Nat
        /\ IsFiniteSet(J) /\ Cardinality(J) \in Nat
    BY TextureIsFinite DEF RunInv
  <2>4. J = {u \in I : IssuedAt(u) = at} /\ J' = {u \in I' : IssuedAt(u)' = at}
    BY DEF TextureIssuedAt, I
  <2>5. C = {f \in A : at \in TimesOf(f)} /\ C' = {f \in A' : at \in TimesOf(f)}
    BY DEF TextureToCome, A
  <2>6. \A u \in I : IssuedAt(u)' = IssuedAt(u)
    BY <1>1 DEF I
  <2> HIDE DEF J, C
  <2>7. CASE at = e.at
    <3>1. J' = J \cup {t} /\ t \notin J
      BY <1>1, <1>6, <2>4, <2>6, <2>7
    <3>2. C' = C \ {e} /\ e \in C
      BY <1>3, <1>6, <1>7, <2>5, <2>7
    <3>3. Cardinality(J') = Cardinality(J) + 1
      BY <2>3, <3>1, FS_AddElement
    <3>4. Cardinality(C') = Cardinality(C) - 1
      BY <2>3, <3>2, FS_RemoveElement
    <3> QED
      BY <2>1, <2>2, <2>3, <3>3, <3>4 DEF J, C
  <2>8. CASE at # e.at
    <3>1. J' = J
      BY <1>1, <1>6, <2>4, <2>6, <2>8
    <3>2. Cardinality(C') = Cardinality(C)
      <4>1. CASE at \in later
        <5>1. PICK g \in N : TRUE
          BY <1>4, <1>7, <4>1
        <5>2. N = {g}
          BY <1>4, <5>1
        <5>3. g \notin C /\ e \in C
          BY <1>3, <1>5, <1>7, <2>5, <4>1, <5>1
        <5>4. C' = (C \ {e}) \cup {g}
          BY <1>6, <1>7, <2>5, <4>1, <5>2
        <5> QED
          BY <2>3, <5>3, <5>4, SwappedElement
      <4>2. CASE at \notin later
        <5>1. at \notin TimesOf(e) /\ \A g \in N : at \notin TimesOf(g)
          BY <1>7, <2>8, <4>2
        <5>2. C' = C
          BY <1>6, <2>5, <5>1
        <5> QED
          BY <5>2
      <4> QED
        BY <4>1, <4>2
    <3> QED
      BY <2>1, <2>2, <3>1, <3>2 DEF J, C
  <2> QED
    BY <2>7, <2>8
<1>9. \A u \in I' : IssuedAt(u)' \in Nat
  <2>1. \A u \in I : IssuedAt(u)' \in Nat
    BY <1>1 DEF TextureInv, I
  <2> QED
    BY <1>1, <1>4, <1>6, <2>1
<1>10. \A f \in A' : f.period > 0 /\ f.at < f.until
  <2>1. \A f \in A : f.period > 0 /\ f.at < f.until
    BY DEF TextureInv, A
  <2> QED
    BY <1>3, <1>4, <1>6, <2>1
<1> QED
  BY <1>8, <1>9, <1>10 DEF TextureInv, A, I

\* The first event of a burst is due at all the times of its blocks.
LEMMA BurstIs ==
  ASSUME NEW r \in Runs, NEW i \in DOMAIN r.texture_bursts, NEW place \in Int
  PROVE  LET b == r.texture_bursts[i]
         IN  /\ \A e \in Burst(b, place) :
                  e.period > 0 /\ e.at < e.until /\ TimesOf(e) = BlockTimes(b)
             /\ Burst(b, place) = {} => BlockTimes(b) = {}
<1> DEFINE b == r.texture_bursts[i]
           start == b.at_ms * UsPerMs
           stop == start + b.duration_ms * UsPerMs
           period == Period(Cfg.block_bytes, b.rate_mbps)
<1>1. b.at_ms \in Nat /\ b.rate_mbps \in Int /\ b.duration_ms \in Int
  <2> DEFINE T == [at_ms : Nat, rate_mbps : Int, duration_ms : Int]
  <2>1. r.texture_bursts \in Seq(T)
    BY RunAssumption
  <2> HIDE DEF T
  <2>2. r.texture_bursts[i] \in T
    BY <2>1
  <2> QED
    BY <2>2 DEF T
<1>2. UsPerMs \in Nat /\ start \in Nat /\ b.duration_ms * UsPerMs \in Int
  BY <1>1, ClockAssumption, Sums
<1>3. b.duration_ms <= 0 => b.duration_ms * UsPerMs <= 0
  BY <1>1, <1>2
<1>4. stop \in Int /\ (b.duration_ms <= 0 => stop <= start)
  BY <1>2, <1>3
<1>5. b.rate_mbps > 0 => period \in Nat \ {0}
  BY <1>1, PeriodType, GeneratorAssumption
<1>6. Burst(b, place) =
        IF b.rate_mbps <= 0 \/ b.duration_ms <= 0 THEN {}
        ELSE Unless(TrafficEvent(start, place, "texture", period, stop))
  BY DEF Burst
<1>7. BlockTimes(b) = IF b.rate_mbps <= 0 THEN {} ELSE Times(start, stop, period)
  <2> DEFINE due == {at \in start..(stop - 1) : (at - start) % period = 0}
  <2>1. start + (b.duration_ms * UsPerMs - 1) = stop - 1
    BY <1>2
  <2>2. BlockTimes(b) = IF b.rate_mbps <= 0 THEN {} ELSE due
    BY <2>1 DEF BlockTimes
  <2>3. due = Times(start, stop, period)
    BY DEF Times
  <2> HIDE DEF due
  <2> QED
    BY <2>2, <2>3
<1> HIDE DEF b, start, stop, period
<1> DEFINE first == TrafficEvent(start, place, "texture", period, stop)
<1>8. first.at = start /\ first.until = stop /\ first.period = period
  BY DEF TrafficEvent, Event
<1> HIDE DEF first
<1>9. Burst(b, place) =
        IF b.rate_mbps <= 0 \/ b.duration_ms <= 0 \/ start >= stop THEN {} ELSE {first}
  BY <1>6, <1>8 DEF Unless, first
<1>10. start >= stop => Times(start, stop, period) = {}
  BY <1>2, <1>4 DEF Times
<1>11. \A e \in Burst(b, place) :
         e.period > 0 /\ e.at < e.until /\ TimesOf(e) = BlockTimes(b)
  BY <1>1, <1>2, <1>4, <1>5, <1>7, <1>8, <1>9 DEF TimesOf
<1>12. Burst(b, place) = {} => BlockTimes(b) = {}
  BY <1>2, <1>4, <1>7, <1>9, <1>10
<1> QED
  BY <1>11, <1>12 DEF b

LEMMA TextureStarts == Init => TextureInv
<1> SUFFICES ASSUME Init
             PROVE  TextureInv
  OBVIOUS
<1> DEFINE B == FirstEvents(run)
           n == Len(run.texture_bursts)
           D == DOMAIN run.texture_bursts
           Of(i) == Burst(run.texture_bursts[i], i - n)
           Starts(e) == Given(B, 0, e)
<1>1. /\ run \in Runs /\ IssuedOf("texture") = {} /\ Placed(B)
      /\ agenda = {Starts(e) : e \in B}
  BY AtTheStart
<1>2. n \in Nat /\ D = 1..n
  BY <1>1, RunAssumption
<1>3. /\ \A e \in B : /\ Starts(e).at = e.at /\ Starts(e).source = e.source
                      /\ Starts(e).period = e.period /\ Starts(e).until = e.until
      /\ \A e, f \in B : Starts(e) = Starts(f) => e = f
  <2>1. ASSUME NEW first \in Nat
        PROVE  /\ \A e \in B : /\ Given(B, first, e).at = e.at
                               /\ Given(B, first, e).source = e.source
                               /\ Given(B, first, e).period = e.period
                               /\ Given(B, first, e).until = e.until
               /\ \A e, f \in B : Given(B, first, e) = Given(B, first, f) => e = f
    BY <1>1, GivenIs
  <2> QED
    BY <2>1
<1>4. ASSUME NEW i \in D
      PROVE  /\ \A e \in Of(i) : /\ e \in B /\ e.source = "texture" /\ e.seq = i - n
                                 /\ e.period > 0 /\ e.at < e.until
                                 /\ TimesOf(e) = BlockTimes(run.texture_bursts[i])
             /\ \A e, f \in Of(i) : e = f
             /\ Of(i) = {} => BlockTimes(run.texture_bursts[i]) = {}
  <2>1. i - n \in Int
    BY <1>2
  <2>2. \A e \in Of(i) : e \in B
    BY DEF FirstEvents, BurstStarts
  <2>3. /\ \A e \in Of(i) : e.source = "texture" /\ e.seq = i - n
        /\ \A e, f \in Of(i) : e = f
    BY <1>1, <2>1, BurstPlaced
  <2>4. /\ \A e \in Of(i) : /\ e.period > 0 /\ e.at < e.until
                            /\ TimesOf(e) = BlockTimes(run.texture_bursts[i])
        /\ Of(i) = {} => BlockTimes(run.texture_bursts[i]) = {}
    BY <1>1, <2>1, BurstIs
  <2> QED
    BY <2>2, <2>3, <2>4
<1>5. ASSUME NEW e \in B, e.source = "texture"
      PROVE  \E i \in D : e \in Of(i)
  <2>1. e \in BurstStarts(run)
    BY <1>1, <1>5, FirstOfSource
  <2> QED
    BY <2>1 DEF BurstStarts
<1> HIDE DEF B, n, D, Of, Starts
<1>6. ASSUME NEW f \in OfSource("texture")
      PROVE  \E i \in D, e \in B :
               /\ e \in Of(i) /\ f = Starts(e)
               /\ f.period > 0 /\ f.at < f.until
               /\ TimesOf(f) = BlockTimes(run.texture_bursts[i])
  <2>1. PICK e \in B : f = Starts(e) /\ e.source = "texture"
    BY <1>1, <1>3 DEF OfSource
  <2>2. PICK i \in D : e \in Of(i)
    BY <1>5, <2>1
  <2>3. TimesOf(f) = TimesOf(e) /\ f.period = e.period /\ f.at = e.at /\ f.until = e.until
    BY <1>3, <2>1 DEF TimesOf
  <2> QED
    BY <1>4, <2>1, <2>2, <2>3
<1>7. ASSUME NEW at \in Nat
      PROVE  Cardinality(TextureDue(at)) = Cardinality(TextureToCome(at))
  <2> DEFINE Due == TextureDue(at)
             C == TextureToCome(at)
             StartOf(i) == CHOOSE e \in Of(i) : TRUE
             starts == [i \in Due |-> Starts(StartOf(i))]
  <2>1. Due = {i \in D : at \in BlockTimes(run.texture_bursts[i])}
    BY DEF TextureDue, D
  <2>2. C = {f \in OfSource("texture") : at \in TimesOf(f)}
    BY DEF TextureToCome
  <2> HIDE DEF Due, C
  <2>3. ASSUME NEW i \in Due
        PROVE  i \in D /\ StartOf(i) \in Of(i)
    BY <1>4, <2>1
  <2> HIDE DEF StartOf
  <2>4. ASSUME NEW i \in Due
        PROVE  Starts(StartOf(i)) \in C
    <3>1. /\ StartOf(i) \in B /\ StartOf(i).source = "texture"
          /\ at \in TimesOf(StartOf(i))
      BY <1>4, <2>1, <2>3
    <3>2. Starts(StartOf(i)) \in OfSource("texture")
      BY <1>1, <1>3, <3>1 DEF OfSource
    <3>3. TimesOf(Starts(StartOf(i))) = TimesOf(StartOf(i))
      BY <1>3, <3>1 DEF TimesOf
    <3> QED
      BY <2>2, <3>1, <3>2, <3>3
  <2>5. ASSUME NEW i \in Due, NEW j \in Due, Starts(StartOf(i)) = Starts(StartOf(j))
        PROVE  i = j
    <3>1. StartOf(i) = StartOf(j)
      BY <1>3, <1>4, <2>3, <2>5
    <3>2. i - n = j - n /\ i \in 1..n /\ j \in 1..n
      BY <1>2, <1>4, <2>3, <3>1
    <3> QED
      BY <1>2, <3>2
  <2>6. ASSUME NEW f \in C
        PROVE  \E i \in Due : Starts(StartOf(i)) = f
    <3>1. PICK i \in D, e \in B : /\ e \in Of(i) /\ f = Starts(e)
                                  /\ TimesOf(f) = BlockTimes(run.texture_bursts[i])
      BY <1>6, <2>2
    <3>2. i \in Due
      BY <2>1, <2>2, <3>1
    <3>3. StartOf(i) = e
      BY <1>4, <2>3, <3>1, <3>2
    <3> QED
      BY <3>1, <3>2, <3>3
  <2>7. starts \in Bijection(Due, C)
    <3>1. starts \in [Due -> C]
      BY <2>4
    <3>2. \A i, j \in Due : starts[i] = starts[j] => i = j
      BY <2>5
    <3>3. \A f \in C : \E i \in Due : starts[i] = f
      BY <2>6
    <3> QED
      BY <3>1, <3>2, <3>3 DEF Bijection, Injection, Surjection, IsInjective
  <2>8. IsFiniteSet(Due)
    <3>1. IsFiniteSet(1..n) /\ Due \in SUBSET (1..n)
      BY <1>2, <2>1, FS_Interval
    <3> QED
      BY <3>1, FS_Subset
  <2>9. Cardinality(C) = Cardinality(Due)
    <3>1. ExistsBijection(Due, C)
      BY <2>7 DEF ExistsBijection
    <3> QED
      BY <2>8, <3>1, FS_Bijection
  <2> QED
    BY <2>9 DEF Due, C
<1>8. ASSUME NEW at \in Nat
      PROVE  Cardinality(TextureDue(at))
               = Cardinality(TextureIssuedAt(at)) + Cardinality(TextureToCome(at))
  <2>1. TextureIssuedAt(at) = {}
    BY <1>1 DEF TextureIssuedAt
  <2>2. Cardinality(TextureIssuedAt(at)) = 0
    BY <2>1, FS_EmptySet
  <2>3. Cardinality(TextureToCome(at)) \in Nat
    BY InitRunInv, TextureIsFinite DEF RunInv
  <2> QED
    BY <1>7, <2>2, <2>3
<1>9. \A f \in OfSource("texture") : f.period > 0 /\ f.at < f.until
  BY <1>6
<1> QED
  BY <1>1, <1>8, <1>9 DEF TextureInv

-----------------------------------------------------------------------------
TrafficInv == RunInv /\ AudioInv /\ WeightInv /\ ScriptedInv /\ TextureInv

LEMMA TrafficIssued ==
  ASSUME TrafficInv, NEW e \in agenda, RunGenerator(e)
  PROVE  AudioInv' /\ WeightInv' /\ ScriptedInv' /\ TextureInv'
<1>1. RunInv /\ AudioInv /\ WeightInv /\ ScriptedInv /\ TextureInv
  BY DEF TrafficInv
<1>2. /\ run' = run /\ IsEvent(e) /\ e.source # "tick"
      /\ \A s : s # e.source => Same(s)
  BY <1>1, GeneratorIssues
<1>3. e.source \in {"audio", "texture", "weight"}
  BY <1>2 DEF IsEvent, EventType, EventSources
<1>4. e.source # "audio" => Same("audio")
  BY <1>2
<1>5. e.source # "texture" => Same("texture")
  BY <1>2
<1>6. (e.source # "weight" => Same("weight")) /\ Same("tick")
  BY <1>2
<1>7. AudioInv'
  BY <1>1, <1>2, <1>4, AudioIssued, AudioFrame
<1>8. TextureInv'
  BY <1>1, <1>2, <1>5, TextureIssued, TextureFrame
<1>9. WeightInv'
  BY <1>1, <1>2, <1>6, WeightIssued, WeightFrame
<1>10. ScriptedInv'
  BY <1>1, <1>2, <1>6, ScriptedIssued, ScriptedFrame
<1> QED
  BY <1>7, <1>8, <1>9, <1>10

LEMMA StepKeepsTrafficInv == TrafficInv /\ [Next]_vars => TrafficInv'
<1> SUFFICES ASSUME TrafficInv, [Next]_vars
             PROVE  AudioInv' /\ WeightInv' /\ ScriptedInv' /\ TextureInv'
  BY StepKeepsRunInv DEF TrafficInv
<1>1. RunInv /\ AudioInv /\ WeightInv /\ ScriptedInv /\ TextureInv
  BY DEF TrafficInv
<1>2. ASSUME NEW e \in agenda, RunGenerator(e)
      PROVE  AudioInv' /\ WeightInv' /\ ScriptedInv' /\ TextureInv'
  BY <1>2, TrafficIssued
<1>3. ASSUME NEW e \in agenda, RunTick(e)
      PROVE  AudioInv' /\ WeightInv' /\ ScriptedInv' /\ TextureInv'
  <2>1. /\ run' = run /\ run.predictor # "scripted"
        /\ Same("audio") /\ Same("texture")
    BY <1>1, <1>3, TickPrefetches
  <2>2. ScriptedInv'
    BY <2>1 DEF ScriptedInv
  <2> QED
    BY <1>1, <1>3, <2>1, <2>2, AudioFrame, TextureFrame, WeightsTicked
<1>4. ASSUME run' = run, \A s : Same(s)
      PROVE  AudioInv' /\ WeightInv' /\ ScriptedInv' /\ TextureInv'
  BY <1>1, <1>4, AudioFrame, TextureFrame, WeightFrame, ScriptedFrame
<1>5. CASE RunQuantumEnd
  BY <1>1, <1>4, <1>5, EndIssuesNothing
<1>6. CASE UNCHANGED vars
  BY <1>4, <1>6, StutterIssuesNothing
<1> QED
  BY <1>2, <1>3, <1>5, <1>6 DEF Next

LEMMA TrafficIsOnTime == TrafficInv => TrafficOnTime
<1> SUFFICES ASSUME TrafficInv
             PROVE  TrafficOnTime
  OBVIOUS
<1>1. RunInv /\ run \in Runs /\ AgendaInv /\ AudioInv /\ WeightInv /\ ScriptedInv /\ TextureInv
  BY DEF TrafficInv, RunInv
<1>2. \A t \in IssuedOf("audio") :
        IssuedAt(t) = t.id * AudioPeriod /\ IssuedAt(t) < StopAtUs
  BY <1>1 DEF AudioInv
<1>3. \A t \in IssuedOf("weight") : IssuedAt(t) \in PrefetchTimes
  BY <1>1 DEF WeightInv
<1>4. ASSUME NEW t \in IssuedOf("texture")
      PROVE  TextureDue(IssuedAt(t)) # {}
  <2> DEFINE at == IssuedAt(t)
  <2>1. at \in Nat
    BY <1>1 DEF TextureInv
  <2>2. t \in TextureIssuedAt(at)
    BY DEF TextureIssuedAt
  <2> HIDE DEF at
  <2>3. /\ IsFiniteSet(TextureIssuedAt(at)) /\ Cardinality(TextureIssuedAt(at)) \in Nat
        /\ Cardinality(TextureToCome(at)) \in Nat
    BY <1>1, TextureIsFinite
  <2>4. Cardinality(TextureIssuedAt(at)) # 0
    BY <2>2, <2>3, FS_EmptySet
  <2>5. Cardinality(TextureDue(at))
          = Cardinality(TextureIssuedAt(at)) + Cardinality(TextureToCome(at))
    BY <1>1, <2>1 DEF TextureInv
  <2>6. Cardinality(TextureDue(at)) # 0
    BY <2>3, <2>4, <2>5
  <2>7. TextureDue(at) # {}
    BY <2>6, FS_EmptySet
  <2> QED
    BY <2>7 DEF at
<1>5. ASSUME agenda = {}
      PROVE  /\ Cardinality(IssuedOf("audio"))
                  = IF run.audio_enabled THEN Max({0, (StopAtUs - 1) \div AudioPeriod}) ELSE 0
             /\ run.predictor = "scripted" => Cardinality(IssuedOf("weight")) = Len(Npcs)
             /\ \A at \in 0..now :
                  Cardinality(TextureDue(at))
                    = Cardinality({t \in IssuedOf("texture") : IssuedAt(t) = at})
  <2>1. \A s : OfSource(s) = {}
    BY <1>5 DEF OfSource
  <2>2. Cardinality(IssuedOf("audio"))
          = IF run.audio_enabled THEN Max({0, (StopAtUs - 1) \div AudioPeriod}) ELSE 0
    BY <1>1, <2>1, AudioComplete DEF Packets
  <2>3. run.predictor = "scripted" => Cardinality(IssuedOf("weight")) = Len(Npcs)
    BY <1>1, <2>1, ScriptedComplete
  <2>4. ASSUME NEW at \in 0..now
        PROVE  Cardinality(TextureDue(at))
                 = Cardinality({t \in IssuedOf("texture") : IssuedAt(t) = at})
    <3>1. at \in Nat
      OBVIOUS
    <3>2. TextureToCome(at) = {}
      BY <2>1 DEF TextureToCome
    <3>3. Cardinality(TextureToCome(at)) = 0
      BY <3>2, FS_EmptySet
    <3>4. Cardinality(TextureIssuedAt(at)) \in Nat
      BY <1>1, TextureIsFinite
    <3>5. Cardinality(TextureDue(at))
            = Cardinality(TextureIssuedAt(at)) + Cardinality(TextureToCome(at))
      BY <1>1, <3>1 DEF TextureInv
    <3>6. Cardinality(TextureDue(at)) = Cardinality(TextureIssuedAt(at))
      BY <3>3, <3>4, <3>5
    <3> QED
      BY <3>6 DEF TextureIssuedAt
  <2> QED
    BY <2>2, <2>3, <2>4
<1> QED
  BY <1>2, <1>3, <1>4, <1>5 DEF TrafficOnTime

(***************************************************************************)
(* Whatever the policy does to the bus, packet i of the audio stream is    *)
(* issued at i periods, as many blocks as bursts have one due are issued   *)
(* at that time, weights are asked for at ticks only, and once the agenda  *)
(* is empty nothing that was due has been left out: for any bursts, rates  *)
(* and NPCs.                                                               *)
(***************************************************************************)
THEOREM TrafficKeepsItsSchedule == Spec => []TrafficOnTime
<1>1. Init => TrafficInv
  BY InitRunInv, AudioStarts, WeightsStart, ScriptedStarts, TextureStarts DEF TrafficInv
<1> QED
  BY <1>1, StepKeepsTrafficInv, TrafficIsOnTime, PTL DEF Spec
=============================================================================
