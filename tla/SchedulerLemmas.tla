-------------------------- MODULE SchedulerLemmas --------------------------
(***************************************************************************)
(* What the proofs about both policies share: the types of the service     *)
(* model, of the trace and of the counters, and what a half-step of        *)
(* accept() or on_quantum_end() hands to start_service_if_idle().          *)
(***************************************************************************)
EXTENDS Scheduler, FiniteSums, SequenceTheorems

Logs == [Txn -> Seq(Record)]

\* The trace lg knows p, has known it since some moment up to `at`, and dates its deadline.
Known(p, lg, at) ==
  /\ lg[p.tx] # <<>>
  /\ lg[p.tx][1].at <= at
  /\ p.deadline = DeadlineOf(p.tx, lg[p.tx][1].at)

AllKnown(q, lg, at) == \A i \in DOMAIN q : Known(q[i], lg, at)

\* A record of the trace keeps the deadline d.
RecordHonours(r, d) ==
  /\ r.ev = "ServiceStart" => d = 0 \/ r.at < d
  /\ r.ev = "Drop" => d > 0 /\ r.at >= d

\* DeadlinesHonoured, of any trace, for all transactions but those of E: a policy that
\* looks for late transactions in one queue only keeps no deadline in the others.
Honours(lg, E) ==
  \A t \in Txn \ E : \A i \in DOMAIN lg[t] : RecordHonours(lg[t][i], DeadlineOf(t, lg[t][1].at))

\* lg2 continues lg: nothing written is taken back.
Continues(lg, lg2) ==
  \A t \in Txn : lg[t] # <<>> => lg2[t] # <<>> /\ lg2[t][1] = lg[t][1]

HalfStep ==
  [at : Nat, arriving : Seq(Pending), ends : SUBSET QuantumEvent, log : Logs,
   kpi : Kpi, loaded : [Txn -> Lods \cup {NoLod}], served : [Txn -> Nat]]

\* The invariant of the bus: what the quantum-end events carry is in the trace.
BusInv(E) ==
  /\ BusTypeOK
  /\ OneTransferAtATime
  /\ \A e \in ends : Known(e.pending, log, now)
  /\ Honours(log, E)

\* What a half-step guarantees.
HalfInv(h, E) ==
  /\ h \in HalfStep
  /\ h.at >= now
  /\ Len(h.arriving) <= 1
  /\ Continues(log, h.log)
  /\ AllKnown(h.arriving, h.log, h.at)
  /\ Honours(h.log, E)

-----------------------------------------------------------------------------
\* The numbers of the service model, from the assumptions on the configuration.
LEMMA QuantumBytesType ==
  ASSUME NEW t \in Txn
  PROVE  QuantumBytes(t) \in Nat
<1>1. Bandwidth(t) \in Nat /\ QuantumUs(t) \in Nat
  BY ServiceAssumption
<1> QED
  BY <1>1 DEF QuantumBytes

LEMMA ServedOnceType ==
  ASSUME NEW p \in Pending
  PROVE  /\ ServedOnce(p) \in Pending
         /\ ServedOnce(p).tx = p.tx
         /\ ServedOnce(p).deadline = p.deadline
         /\ ServedOnce(p).bytes_remaining <= p.bytes_remaining
<1>1. QuantumBytes(p.tx) \in Nat
  BY QuantumBytesType DEF Pending
<1> QED
  BY <1>1 DEF ServedOnce, Smaller, Pending

\* A slice takes at least one microsecond: simulated time moves on.
LEMMA ServiceUsType ==
  ASSUME NEW p \in Pending
  PROVE  ServiceUs(p) \in Nat \ {0}
<1> DEFINE b == Bandwidth(p.tx)
<1>1. b \in Nat \ {0} /\ QuantumUs(p.tx) \in Nat \ {0}
  BY ServiceAssumption DEF Pending
<1>2. p.bytes_remaining \in Nat
  BY DEF Pending
<1>3. p.bytes_remaining \div b \in Int
  BY <1>1, <1>2
<1> QED
  BY <1>1, <1>3 DEF ServiceUs, Larger

LEMMA DeadlineType ==
  ASSUME NEW t \in Txn, NEW issued \in Nat
  PROVE  DeadlineOf(t, issued) \in Nat
BY TimeAssumption DEF DeadlineOf

-----------------------------------------------------------------------------
LEMMA FirstInSeq ==
  ASSUME NEW S, NEW s \in Seq(S), s # <<>>
  PROVE  s[1] \in S
<1>1. Len(s) \in Nat /\ Len(s) # 0
  BY EmptySeq, LenProperties
<1> QED
  BY <1>1, ElementOfSeq

\* What follows a proper prefix.
LEMMA NextIndex ==
  ASSUME NEW S, NEW s \in Seq(S), NEW n, n \in 0..Len(s), n # Len(s)
  PROVE  n + 1 \in DOMAIN s /\ n < Len(s)
<1> DEFINE len == Len(s)
<1>1. len \in Nat /\ DOMAIN s = 1..len
  BY LenProperties
<1>2. n \in 0..len /\ n # len
  OBVIOUS
<1> HIDE DEF len
<1>3. n + 1 \in 1..len /\ n < len
  BY <1>1, <1>2
<1> QED
  BY <1>1, <1>3 DEF len

LEMMA AppendFirst ==
  ASSUME NEW S, NEW s \in Seq(S), NEW x \in S
  PROVE  /\ Append(s, x) \in Seq(S)
         /\ Append(s, x) # <<>>
         /\ s # <<>> => Append(s, x)[1] = s[1]
         /\ s = <<>> => Append(s, x)[1] = x
<1>1. /\ Append(s, x) \in Seq(S)
      /\ Append(s, x) # <<>>
      /\ Len(Append(s, x)) = Len(s) + 1
      /\ \A i \in 1..Len(s) : Append(s, x)[i] = s[i]
      /\ Append(s, x)[Len(s) + 1] = x
  BY AppendProperties
<1>2. s # <<>> => 1 \in 1..Len(s)
  BY EmptySeq, LenProperties
<1>3. s = <<>> => Len(s) = 0
  BY EmptySeq
<1> QED
  BY <1>1, <1>2, <1>3

\* emit() keeps what the trace says and makes it known.
LEMMA EmitType ==
  ASSUME NEW lg \in Logs, NEW T, NEW ev \in Milestones, NEW at \in Nat
  PROVE  /\ Emit(lg, T, ev, at) \in Logs
         /\ Continues(lg, Emit(lg, T, ev, at))
         /\ \A t \in T \cap Txn : Emit(lg, T, ev, at)[t] # <<>>
         /\ \A t \in T \cap Txn : lg[t] = <<>> => Emit(lg, T, ev, at)[t][1].at = at
<1> DEFINE r == [ev |-> ev, at |-> at]
<1>1. r \in Record
  BY DEF Record
<1>2. ASSUME NEW t \in Txn
      PROVE  /\ Append(lg[t], r) \in Seq(Record)
             /\ Append(lg[t], r) # <<>>
             /\ lg[t] # <<>> => Append(lg[t], r)[1] = lg[t][1]
             /\ lg[t] = <<>> => Append(lg[t], r)[1] = r
  <2>1. lg[t] \in Seq(Record)
    BY DEF Logs
  <2> QED
    BY <1>1, <2>1, AppendFirst
<1> QED
  BY <1>2 DEF Emit, Logs, Continues

LEMMA EmitFirst ==
  ASSUME NEW lg \in Logs, NEW t \in Txn, NEW ev \in Milestones, NEW at \in Nat,
         lg[t] = <<>>
  PROVE  Emit(lg, {t}, ev, at)[t] # <<>> /\ Emit(lg, {t}, ev, at)[t][1].at = at
<1> DEFINE r == [ev |-> ev, at |-> at]
<1>1. r \in Record /\ lg[t] \in Seq(Record)
  BY DEF Record, Logs
<1> DEFINE s == Append(lg[t], r)
<1>2. s # <<>> /\ s[1] = r
  BY <1>1, AppendFirst
<1>3. Emit(lg, {t}, ev, at)[t] = s
  BY DEF Emit
<1>4. r.at = at
  OBVIOUS
<1> HIDE DEF r, s
<1> QED
  BY <1>2, <1>3, <1>4

\* emit() of a milestone that keeps the deadline leaves a trace that keeps all of them.
LEMMA EmitHonours ==
  ASSUME NEW E, NEW lg \in Logs, Honours(lg, E), NEW T, NEW ev \in Milestones, NEW at \in Nat,
         \A t \in (T \cap Txn) \ E :
           \/ ev \in {"Arrive", "Complete"}
           \/ lg[t] # <<>> /\ RecordHonours([ev |-> ev, at |-> at], DeadlineOf(t, lg[t][1].at))
  PROVE  Honours(Emit(lg, T, ev, at), E)
<1> DEFINE r == [ev |-> ev, at |-> at]
<1>1. r \in Record /\ r.ev = ev
  BY DEF Record
<1>2. SUFFICES ASSUME NEW t \in Txn \ E, NEW i \in DOMAIN Emit(lg, T, ev, at)[t]
               PROVE  RecordHonours(Emit(lg, T, ev, at)[t][i],
                                    DeadlineOf(t, Emit(lg, T, ev, at)[t][1].at))
  BY DEF Honours
<1> DEFINE old == lg[t]
<1> DEFINE new == Append(old, r)
<1>3. old \in Seq(Record)
  BY DEF Logs
<1>4. CASE t \notin T
  <2>1. Emit(lg, T, ev, at)[t] = old
    BY <1>4 DEF Emit
  <2> QED
    BY <2>1 DEF Honours
<1>5. CASE t \in T
  <2>1. Emit(lg, T, ev, at)[t] = new
    BY <1>5 DEF Emit
  <2>2. /\ new \in Seq(Record)
        /\ Len(new) = Len(old) + 1
        /\ \A j \in 1..Len(old) : new[j] = old[j]
        /\ new[Len(old) + 1] = r
    BY <1>1, <1>3, AppendProperties
  <2>3. /\ Len(old) \in Nat /\ DOMAIN old = 1..Len(old)
        /\ DOMAIN new = 1..Len(new)
        /\ old # <<>> => Len(old) # 0
    BY <1>3, <2>2, LenProperties, EmptySeq
  <2>4. old # <<>> => new[1] = old[1]
    BY <2>2, <2>3
  <2> HIDE DEF new
  <2>5. CASE i \in 1..Len(old)
    <3>1. old # <<>>
      BY <2>5, EmptySeq
    <3>2. RecordHonours(old[i], DeadlineOf(t, old[1].at))
      BY <2>3, <2>5 DEF Honours
    <3> QED
      BY <2>1, <2>2, <2>4, <2>5, <3>1, <3>2
  <2>6. CASE i \notin 1..Len(old)
    <3>1. i = Len(old) + 1
      BY <1>2, <2>1, <2>2, <2>3, <2>6
    <3>2. new[i] = r
      BY <2>2, <3>1
    <3>3. CASE ev \in {"Arrive", "Complete"}
      <4>1. r.ev # "ServiceStart" /\ r.ev # "Drop"
        BY <3>3, <1>1
      <4> QED
        BY <2>1, <3>2, <4>1 DEF RecordHonours
    <3>4. CASE lg[t] # <<>> /\ RecordHonours(r, DeadlineOf(t, lg[t][1].at))
      BY <2>1, <2>4, <3>2, <3>4
    <3> QED
      BY <1>5, <3>3, <3>4
  <2> QED
    BY <2>5, <2>6
<1> QED
  BY <1>4, <1>5

LEMMA HonoursDeadlines ==
  ASSUME Honours(log, {}), log \in Logs
  PROVE  DeadlinesHonoured
<1>1. SUFFICES ASSUME NEW t \in Txn, NEW i \in DOMAIN log[t]
               PROVE  RecordHonours(log[t][i], Due[t])
  BY DEF DeadlinesHonoured, RecordHonours
<1>2. log[t] \in Seq(Record)
  BY DEF Logs
<1>3. log[t] # <<>>
  BY <1>1, <1>2, EmptySeq, LenProperties
<1>4. Due[t] = DeadlineOf(t, log[t][1].at)
  BY <1>3 DEF Due, IssuedAt
<1> QED
  BY <1>4 DEF Honours

LEMMA ContinuesTransitive ==
  ASSUME NEW l1 \in Logs, NEW l2 \in Logs, NEW l3 \in Logs,
         Continues(l1, l2), Continues(l2, l3)
  PROVE  Continues(l1, l3)
BY DEF Continues

LEMMA KnownContinues ==
  ASSUME NEW p \in Pending, NEW l1 \in Logs, NEW l2 \in Logs, NEW a1 \in Nat, NEW a2 \in Nat,
         Known(p, l1, a1), Continues(l1, l2), a1 <= a2
  PROVE  Known(p, l2, a2)
<1>1. p.tx \in Txn
  BY DEF Pending
<1>2. l2[p.tx] # <<>> /\ l2[p.tx][1] = l1[p.tx][1]
  BY <1>1 DEF Known, Continues
<1>3. l1[p.tx] \in Seq(Record) /\ l1[p.tx] # <<>>
  BY <1>1 DEF Known, Logs
<1>4. l1[p.tx][1] \in Record
  BY <1>3, FirstInSeq
<1>5. l1[p.tx][1].at \in Nat
  BY <1>4 DEF Record
<1> QED
  BY <1>2, <1>5 DEF Known

-----------------------------------------------------------------------------
LEMMA BumpType ==
  ASSUME NEW k \in Kpi, NEW c \in Counters, NEW n \in Nat
  PROVE  Bump(k, c, n) \in Kpi /\ Raise(k, c, n) \in Kpi
<1>1. k[c] \in Nat
  BY DEF Kpi
<1>2. k[c] + n \in Nat /\ Larger(k[c], n) \in Nat
  BY <1>1 DEF Larger
<1> QED
  BY <1>2 DEF Bump, Raise, Kpi

\* The drop counters count sets of transactions, which are finite.
LEMMA CountDropsType ==
  ASSUME NEW k \in Kpi, NEW T \in SUBSET Txn
  PROVE  CountDrops(k, T) \in Kpi
<1>1. Cardinality(T) \in Nat
  BY FS_CardinalityType, FS_Subset, TxnAssumption
<1>2. {t \in T : IsAudio(t)} \in SUBSET Txn
  OBVIOUS
<1>3. Cardinality({t \in T : IsAudio(t)}) \in Nat
  BY <1>2, FS_CardinalityType, FS_Subset, TxnAssumption
<1>4. "dropped" \in Counters /\ "audio_dropped" \in Counters
  BY DEF Counters
<1> QED
  BY <1>1, <1>3, <1>4, BumpType DEF CountDrops, CountAudioDrops

LEMMA CountCompletionType ==
  ASSUME NEW k \in Kpi, NEW t \in Txn, NEW latency \in Nat
  PROVE  CountCompletion(k, t, latency) \in Kpi
<1>1. CpuCycles(t) \in Nat /\ DecompressCycles(t) \in Nat /\ SglEntries(t) \in Nat
  BY CostAssumption
<1>2. {"completed", "cpu_cycles", "decompress_cycles", "sgl_entries",
       "audio_completed", "audio_lat_max", "audio_lat_sum", "weight_lat_max"} \subseteq Counters
  BY DEF Counters
<1>3. CountCosts(k, t) \in Kpi
  BY <1>1, <1>2, BumpType DEF CountCosts
<1>4. ASSUME NEW j \in Kpi
      PROVE  CountLatency(j, t, latency) \in Kpi
  BY <1>2, BumpType DEF CountLatency
<1> QED
  BY <1>3, <1>4 DEF CountCompletion

-----------------------------------------------------------------------------
LEMMA NewPendingType ==
  ASSUME NEW t \in Txn, NEW at \in Nat
  PROVE  NewPending(t, at) \in Pending /\ NewPending(t, at).tx = t
<1>1. Tx[t].size_bytes \in Nat
  BY TxnAssumption
<1> QED
  BY <1>1, DeadlineType DEF NewPending, Pending

LEMMA SingletonSeq ==
  ASSUME NEW S, NEW x \in S
  PROVE  /\ <<x>> \in Seq(S)
         /\ Len(<<x>>) = 1
         /\ \A i \in DOMAIN <<x>> : <<x>>[i] = x
OBVIOUS

LEMMA HalfIntro ==
  ASSUME NEW E, NEW at, NEW arriving, NEW es, NEW lg, NEW k, NEW ld, NEW sv,
         at \in Nat, arriving \in Seq(Pending), es \in SUBSET QuantumEvent,
         lg \in Logs, k \in Kpi, ld \in [Txn -> Lods \cup {NoLod}], sv \in [Txn -> Nat],
         at >= now, Len(arriving) <= 1, Continues(log, lg), Honours(lg, E),
         AllKnown(arriving, lg, at)
  PROVE  HalfInv(Half(at, arriving, es, lg, k, ld, sv), E)
<1> DEFINE h == Half(at, arriving, es, lg, k, ld, sv)
<1>1. h.at = at /\ h.arriving = arriving /\ h.ends = es /\ h.log = lg
  BY DEF Half
<1>2. h \in HalfStep
  BY DEF Half, HalfStep
<1> HIDE DEF h
<1>3. HalfInv(h, E)
  BY <1>1, <1>2 DEF HalfInv
<1> QED
  BY <1>1, <1>3 DEF h

\* accept() stamps and announces the transaction it hands to on_arrive().
LEMMA AcceptedHalf ==
  ASSUME NEW E, BusInv(E), NEW t \in Txn, NEW at \in Nat, log[t] = <<>>, at >= now
  PROVE  HalfInv(Accepted(t, at), E) /\ Accepted(t, at).ends = ends
<1> DEFINE p == NewPending(t, at)
<1> DEFINE arriving == <<p>>
<1> DEFINE k == Bump(kpi, "issued", 1)
<1>1. BusTypeOK /\ log \in Logs /\ Honours(log, E)
  BY DEF BusInv, BusTypeOK, Logs
<1>2. p \in Pending /\ p.tx = t /\ p.deadline = DeadlineOf(t, at)
  BY NewPendingType DEF NewPending
<1> DEFINE ev == "Arrive"
<1>3. ev \in Milestones
  BY DEF Milestones
<1> HIDE DEF ev
<1> DEFINE lg == Emit(log, {t}, ev, at)
<1>4. /\ lg \in Logs /\ Continues(log, lg)
      /\ lg[t] # <<>> /\ lg[t][1].at = at
  <2>1. lg \in Logs /\ Continues(log, lg)
    BY <1>1, <1>3, EmitType
  <2>2. lg[t] # <<>> /\ lg[t][1].at = at
    BY <1>1, <1>3, EmitFirst, Zenon
  <2> QED
    BY <2>1, <2>2
<1>5. k \in Kpi
  BY <1>1, BumpType DEF BusTypeOK, Counters
<1>6. Known(p, lg, at)
  BY <1>2, <1>4 DEF Known
<1> HIDE DEF p, lg, k
<1>7. /\ arriving \in Seq(Pending)
      /\ Len(arriving) <= 1
      /\ \A i \in DOMAIN arriving : arriving[i] = p
  BY <1>2, SingletonSeq
<1>8. Accepted(t, at) = Half(at, arriving, ends, lg, k, loaded, served)
  BY DEF Accepted, p, ev, lg, k
<1>9. ends \in SUBSET QuantumEvent /\ loaded \in [Txn -> Lods \cup {NoLod}]
      /\ served \in [Txn -> Nat]
  BY <1>1 DEF BusTypeOK
<1> HIDE DEF arriving
<1>10. AllKnown(arriving, lg, at)
  BY <1>6, <1>7 DEF AllKnown
<1>11. Honours(lg, E)
  BY <1>1, <1>3, EmitHonours DEF lg, ev
<1>12. /\ at \in Nat /\ at >= now
       /\ lg \in Logs /\ Continues(log, lg) /\ Honours(lg, E)
       /\ k \in Kpi
  BY <1>4, <1>5, <1>11
<1>13. arriving \in Seq(Pending) /\ Len(arriving) <= 1 /\ AllKnown(arriving, lg, at)
  BY <1>7, <1>10
<1>14. HalfInv(Half(at, arriving, ends, lg, k, loaded, served), E)
  BY <1>9, <1>12, <1>13, HalfIntro
<1>15. Half(at, arriving, ends, lg, k, loaded, served).ends = ends
  BY DEF Half
<1> QED
  BY <1>8, <1>14, <1>15

LEMMA LodOfSizeType ==
  ASSUME NEW bytes \in Nat
  PROVE  LodOfSize(bytes) \in Lods
BY DEF LodOfSize, Lods

LEMMA ToldObserverType ==
  ASSUME BusTypeOK, NEW t \in Txn
  PROVE  ToldObserver(t) \in [Txn -> Lods \cup {NoLod}]
<1>1. LodOfSize(Tx[t].size_bytes) \in Lods
  BY TxnAssumption, LodOfSizeType
<1> QED
  BY <1>1 DEF ToldObserver, BusTypeOK

LEMMA MovedType ==
  ASSUME BusTypeOK, NEW p \in Pending
  PROVE  Moved(p) \in [Txn -> Nat]
<1>1. /\ p.tx \in Txn
      /\ p.bytes_remaining \in Nat
      /\ ServedOnce(p).bytes_remaining \in Nat
      /\ ServedOnce(p).bytes_remaining <= p.bytes_remaining
  BY ServedOnceType DEF Pending
<1>2. served[p.tx] \in Nat
  BY <1>1 DEF BusTypeOK
<1>3. served[p.tx] + p.bytes_remaining - ServedOnce(p).bytes_remaining \in Nat
  BY <1>1, <1>2
<1> QED
  BY <1>3 DEF Moved, BusTypeOK

\* on_quantum_end() hands a transaction back to on_arrive() only if bytes remain.
LEMMA EndedHalf ==
  ASSUME NEW E, BusInv(E), NEW e \in ends
  PROVE  HalfInv(Ended(e), E) /\ Ended(e).ends = {}
<1> DEFINE p == ServedOnce(e.pending)
<1> DEFINE t == p.tx
<1>1. /\ BusTypeOK /\ log \in Logs /\ e \in QuantumEvent /\ e.at \in Nat /\ now \in Nat
      /\ Honours(log, E)
  BY DEF BusInv, BusTypeOK, Logs, QuantumEvent
<1>2. e.at >= now /\ ends \ {e} = {} /\ Known(e.pending, log, now)
  BY DEF BusInv, OneTransferAtATime
<1>3. e.pending \in Pending /\ p \in Pending /\ t = e.pending.tx /\ t \in Txn
      /\ p.deadline = e.pending.deadline
  BY <1>1, ServedOnceType DEF QuantumEvent, Pending
<1>4. Moved(e.pending) \in [Txn -> Nat]
  BY <1>1, <1>3, MovedType
<1>5. ToldObserver(t) \in [Txn -> Lods \cup {NoLod}]
  BY <1>1, <1>3, ToldObserverType
<1>6. Continues(log, log)
  BY DEF Continues
<1>7. Known(p, log, e.at)
  <2>1. Known(e.pending, log, e.at)
    <3>1. e.pending \in Pending
      BY <1>3
    <3> QED
      BY <3>1, <1>1, <1>2, <1>6, KnownContinues
  <2> QED
    BY <2>1, <1>3 DEF Known
<1>8. e.at - IssuedAt(t) \in Nat
  <2>1. log[t] \in Seq(Record) /\ log[t] # <<>> /\ log[t][1].at <= e.at
    BY <1>1, <1>3, <1>7 DEF Known, Logs
  <2>2. log[t][1].at \in Nat
    BY <2>1, FirstInSeq DEF Record
  <2> QED
    BY <2>1, <2>2, <1>1 DEF IssuedAt
<1>9. CountCompletion(kpi, t, e.at - IssuedAt(t)) \in Kpi
  BY <1>1, <1>3, <1>8, CountCompletionType DEF BusTypeOK
<1>10. CountDrops(kpi, {t}) \in Kpi
  BY <1>1, <1>3, CountDropsType DEF BusTypeOK
<1> DEFINE done == Emit(log, {t}, "Complete", e.at)
<1> DEFINE drop == Emit(log, {t}, "Drop", e.at)
<1>11. \A ev \in Milestones : /\ Emit(log, {t}, ev, e.at) \in Logs
                               /\ Continues(log, Emit(log, {t}, ev, e.at))
  BY <1>1, EmitType
<1>12. done \in Logs /\ Continues(log, done) /\ drop \in Logs /\ Continues(log, drop)
  BY <1>11 DEF Milestones
<1> DEFINE none == <<>>
<1> DEFINE one == <<p>>
<1>13. none \in Seq(Pending) /\ Len(none) <= 1 /\ DOMAIN none = {}
  BY EmptySeq
<1>14. /\ one \in Seq(Pending)
       /\ Len(one) <= 1
       /\ \A i \in DOMAIN one : one[i] = p
  BY <1>3, SingletonSeq
<1>15. ends \ {e} \in SUBSET QuantumEvent
  BY <1>1 DEF BusTypeOK
<1>16. kpi \in Kpi
  BY <1>1 DEF BusTypeOK
<1>17. loaded \in [Txn -> Lods \cup {NoLod}]
  BY <1>1 DEF BusTypeOK
<1>18. e.at \in Nat /\ e.at >= now /\ log \in Logs
  BY <1>1, <1>2
<1>19. ends \ {e} = {}
  BY <1>2
<1> DEFINE complete == Half(e.at, none, ends \ {e}, done,
                            CountCompletion(kpi, t, e.at - IssuedAt(t)), ToldObserver(t),
                            Moved(e.pending))
<1> DEFINE late == Half(e.at, none, ends \ {e}, drop,
                        CountDrops(kpi, {t}), loaded, Moved(e.pending))
<1> DEFINE again == Half(e.at, one, ends \ {e}, log, kpi, loaded, Moved(e.pending))
<1>20. \/ Ended(e) = complete
       \/ Ended(e) = late /\ PastDeadline(p, e.at)
       \/ Ended(e) = again
  BY DEF Ended
<1>21. "Complete" \in Milestones /\ "Drop" \in Milestones
  BY DEF Milestones
<1>22. Honours(done, E)
  BY <1>1, <1>21, EmitHonours
<1>23. ASSUME PastDeadline(p, e.at)
       PROVE  Honours(drop, E)
  <2>1. log[t] # <<>> /\ p.deadline = DeadlineOf(t, log[t][1].at)
    BY <1>7 DEF Known
  <2>2. RecordHonours([ev |-> "Drop", at |-> e.at], DeadlineOf(t, log[t][1].at))
    BY <1>23, <2>1 DEF PastDeadline, RecordHonours
  <2> HIDE DEF t
  <2> QED
    BY <1>1, <1>21, <2>1, <2>2, EmitHonours
<1> HIDE DEF p, t, none, one, done, drop
<1>24. AllKnown(one, log, e.at)
  BY <1>7, <1>14 DEF AllKnown
<1>25. AllKnown(none, done, e.at) /\ AllKnown(none, drop, e.at)
  BY <1>13 DEF AllKnown
<1>26. HalfInv(complete, E)
  BY <1>22, <1>25, <1>15, <1>18, <1>4, <1>5, <1>9, <1>12, <1>13, HalfIntro
<1>27. PastDeadline(p, e.at) => HalfInv(late, E)
  BY <1>23, <1>25, <1>15, <1>17, <1>18, <1>4, <1>10, <1>12, <1>13, HalfIntro
<1>28. HalfInv(again, E)
  BY <1>1, <1>15, <1>24, <1>16, <1>17, <1>18, <1>4, <1>6, <1>14, HalfIntro
<1>29. complete.ends = {} /\ late.ends = {} /\ again.ends = {}
  BY <1>19 DEF Half
<1> HIDE DEF complete, late, again
<1> QED
  BY <1>20, <1>26, <1>27, <1>28, <1>29

-----------------------------------------------------------------------------
LEMMA MarkedType ==
  ASSUME NEW p \in Pending
  PROVE  Marked(p) \in Pending /\ Marked(p).tx = p.tx /\ Marked(p).deadline = p.deadline
BY DEF Marked, Pending

\* What pick_next() may drop at `at`: transactions the trace knows, past their deadlines.
MayDrop(T, lg, at, E) ==
  \A t \in (T \cap Txn) \ E :
    lg[t] # <<>> /\ RecordHonours([ev |-> "Drop", at |-> at], DeadlineOf(t, lg[t][1].at))

LEMMA DropHonours ==
  ASSUME NEW E, NEW lg \in Logs, Honours(lg, E), NEW T, NEW at \in Nat, MayDrop(T, lg, at, E)
  PROVE  Honours(Emit(lg, T, "Drop", at), E)
<1>1. "Drop" \in Milestones
  BY DEF Milestones
<1> QED
  BY <1>1, EmitHonours DEF MayDrop

\* What is put on the bus for the first time is not past its deadline.
LEMMA StartHonours ==
  ASSUME NEW E, NEW lg \in Logs, Honours(lg, E), NEW p \in Pending, NEW at \in Nat,
         Known(p, lg, at), p.tx \in E \/ ~Stale(p, at), ~p.service_started
  PROVE  Honours(Emit(lg, {p.tx}, "ServiceStart", at), E)
<1> DEFINE t == p.tx
<1> DEFINE d == DeadlineOf(t, lg[t][1].at)
<1>1. lg[t] # <<>> /\ p.deadline = d /\ p.deadline \in Nat
  BY DEF Known, Pending
<1>2. t \in E \/ d = 0 \/ at < d
  BY <1>1 DEF Stale, PastDeadline
<1>3. t \in E \/ RecordHonours([ev |-> "ServiceStart", at |-> at], d)
  BY <1>2 DEF RecordHonours
<1>4. "ServiceStart" \in Milestones
  BY DEF Milestones
<1> HIDE DEF t
<1>5. Honours(Emit(lg, {t}, "ServiceStart", at), E)
  BY <1>1, <1>3, <1>4, EmitHonours
<1> QED
  BY <1>5 DEF t

\* start_service_if_idle() leaves exactly one quantum end behind, or none.
LEMMA ServeBusInv ==
  ASSUME NEW E, BusInv(E), NEW h, HalfInv(h, E), h.ends = {},
         NEW dropped \in SUBSET Txn, MayDrop(dropped, h.log, h.at, E),
         NEW p \in Pending, Known(p, h.log, h.at), p.tx \in E \/ ~Stale(p, h.at),
         Keep(h), Serve(h, dropped, p)
  PROVE  BusInv(E)' /\ Continues(h.log, log')
<1>1. /\ h.at \in Nat /\ h.log \in Logs /\ h.kpi \in Kpi
      /\ h.loaded \in [Txn -> Lods \cup {NoLod}]
      /\ h.served \in [Txn -> Nat]
      /\ Honours(h.log, E)
  BY DEF HalfInv, HalfStep
<1> DEFINE lg == Emit(h.log, dropped, "Drop", h.at)
<1>2. lg \in Logs /\ Continues(h.log, lg) /\ Honours(lg, E)
  BY <1>1, EmitType, DropHonours DEF Milestones
<1> DEFINE lg2 == Emit(lg, {p.tx}, "ServiceStart", h.at)
<1> HIDE DEF lg
<1>3. lg2 \in Logs /\ Continues(lg, lg2)
  BY <1>1, <1>2, EmitType DEF Milestones
<1>4. log' = IF p.service_started THEN lg ELSE lg2
  BY DEF Serve, lg
<1> HIDE DEF lg2
<1>5. log' \in Logs /\ Continues(h.log, log')
  BY <1>1, <1>2, <1>3, <1>4, ContinuesTransitive
<1> DEFINE e == [pending |-> Marked(p), at |-> h.at + ServiceUs(p)]
<1>6. /\ ServiceUs(p) \in Nat /\ Marked(p) \in Pending
      /\ Marked(p).tx = p.tx /\ Marked(p).deadline = p.deadline
  BY ServiceUsType, MarkedType
<1>7. e \in QuantumEvent /\ e.at >= h.at
  BY <1>1, <1>6 DEF QuantumEvent
<1>8. Known(Marked(p), log', h.at)
  <2>1. Known(p, log', h.at)
    BY <1>1, <1>5, KnownContinues
  <2> QED
    BY <2>1, <1>6 DEF Known
<1>9. ends' = {e} /\ bus_idle' = FALSE /\ now' = h.at
  BY DEF Serve, Keep
<1>10. kpi' \in Kpi
  BY <1>1, CountDropsType DEF Serve
<1>11. BusTypeOK'
  BY <1>1, <1>5, <1>7, <1>9, <1>10 DEF BusTypeOK, Logs, Keep
<1>12. OneTransferAtATime'
  BY <1>7, <1>9 DEF OneTransferAtATime
<1>13. (\A f \in ends : Known(f.pending, log, now))'
  BY <1>8, <1>9
<1>14. Honours(log, E)'
  <2>1. Known(p, lg, h.at)
    BY <1>1, <1>2, KnownContinues
  <2>2. ~p.service_started => Honours(lg2, E)
    BY <1>1, <1>2, <2>1, StartHonours DEF lg2
  <2>3. Honours(log', E)
    BY <1>2, <1>4, <2>2
  <2> QED
    BY <2>3
<1> QED
  BY <1>5, <1>11, <1>12, <1>13, <1>14 DEF BusInv

LEMMA RestBusInv ==
  ASSUME NEW E, BusInv(E), NEW h, HalfInv(h, E), h.ends = {},
         NEW dropped \in SUBSET Txn, MayDrop(dropped, h.log, h.at, E), Keep(h), Rest(h, dropped)
  PROVE  BusInv(E)' /\ Continues(h.log, log')
<1>1. /\ h.at \in Nat /\ h.log \in Logs /\ h.kpi \in Kpi
      /\ h.loaded \in [Txn -> Lods \cup {NoLod}]
      /\ h.served \in [Txn -> Nat]
  BY DEF HalfInv, HalfStep
<1>2. log' \in Logs /\ Continues(h.log, log')
  BY <1>1, EmitType DEF Milestones, Rest
<1>3. kpi' \in Kpi
  BY <1>1, CountDropsType DEF Rest
<1>4. ends' = {} /\ bus_idle' = TRUE
  BY DEF Rest
<1>5. BusTypeOK'
  BY <1>1, <1>2, <1>3, <1>4 DEF BusTypeOK, Logs, Keep
<1>6. Honours(log, E)'
  <2>1. h.log \in Logs /\ Honours(h.log, E) /\ h.at \in Nat
    BY <1>1 DEF HalfInv
  <2>2. Honours(log', E)
    BY <2>1, DropHonours DEF Rest
  <2> QED
    BY <2>2
<1> QED
  BY <1>2, <1>4, <1>5, <1>6 DEF BusInv, OneTransferAtATime

LEMMA KeepServingBusInv ==
  ASSUME NEW E, BusInv(E), NEW h, HalfInv(h, E), h.ends = ends, ~bus_idle,
         \A e \in ends : h.at <= e.at,
         Keep(h), KeepServing(h)
  PROVE  BusInv(E)' /\ Continues(h.log, log')
<1>1. /\ h.at \in Nat /\ h.log \in Logs /\ h.kpi \in Kpi
      /\ h.loaded \in [Txn -> Lods \cup {NoLod}]
      /\ h.served \in [Txn -> Nat]
      /\ h.at >= now /\ Continues(log, h.log)
  BY DEF HalfInv, HalfStep
<1>2. BusTypeOK /\ OneTransferAtATime /\ log \in Logs /\ now \in Nat
  BY DEF BusInv, BusTypeOK, Logs
<1>3. log' = h.log /\ ends' = ends /\ bus_idle' = FALSE /\ now' = h.at /\ kpi' = h.kpi
  BY DEF Keep, KeepServing
<1>4. BusTypeOK'
  BY <1>1, <1>2, <1>3 DEF BusTypeOK, Logs, Keep
<1>5. OneTransferAtATime'
  BY <1>2, <1>3 DEF OneTransferAtATime, BusTypeOK, QuantumEvent
<1>6. ASSUME NEW e \in ends
      PROVE  Known(e.pending, h.log, h.at)
  <2>1. e.pending \in Pending /\ Known(e.pending, log, now)
    BY <1>2 DEF BusInv, BusTypeOK, QuantumEvent
  <2> QED
    BY <1>1, <1>2, <2>1, KnownContinues
<1>7. Continues(h.log, log')
  BY <1>3 DEF Continues
<1>8. Honours(log, E)'
  BY <1>3 DEF HalfInv
<1> QED
  BY <1>3, <1>4, <1>5, <1>6, <1>7, <1>8 DEF BusInv

-----------------------------------------------------------------------------
\* Queues of known transactions.
LEMMA AllKnownContinues ==
  ASSUME NEW q \in Seq(Pending), NEW l1 \in Logs, NEW l2 \in Logs,
         NEW a1 \in Nat, NEW a2 \in Nat,
         AllKnown(q, l1, a1), Continues(l1, l2), a1 <= a2
  PROVE  AllKnown(q, l2, a2)
<1>1. SUFFICES ASSUME NEW i \in DOMAIN q
               PROVE  Known(q[i], l2, a2)
  BY DEF AllKnown
<1>2. q[i] \in Pending
  BY LenProperties
<1>3. Known(q[i], l1, a1)
  BY DEF AllKnown
<1> QED
  BY <1>2, <1>3, KnownContinues

LEMMA ConcatKnown ==
  ASSUME NEW q \in Seq(Pending), NEW r \in Seq(Pending), NEW lg, NEW at,
         AllKnown(q, lg, at), AllKnown(r, lg, at)
  PROVE  q \o r \in Seq(Pending) /\ AllKnown(q \o r, lg, at)
<1> DEFINE s == q \o r
<1>1. /\ s \in Seq(Pending)
      /\ Len(s) = Len(q) + Len(r)
      /\ \A i \in 1..Len(q) + Len(r) : s[i] = IF i <= Len(q) THEN q[i] ELSE r[i - Len(q)]
  BY ConcatProperties
<1>2. /\ Len(q) \in Nat /\ DOMAIN q = 1..Len(q)
      /\ Len(r) \in Nat /\ DOMAIN r = 1..Len(r)
      /\ DOMAIN s = 1..Len(s)
  BY <1>1, LenProperties
<1> HIDE DEF s
<1>3. ASSUME NEW i \in DOMAIN s
      PROVE  Known(s[i], lg, at)
  <2>1. i \in 1..Len(q) + Len(r)
    BY <1>1, <1>2
  <2>2. CASE i <= Len(q)
    <3>1. s[i] = q[i] /\ i \in DOMAIN q
      BY <1>1, <1>2, <2>1, <2>2
    <3> QED
      BY <3>1 DEF AllKnown
  <2>3. CASE ~(i <= Len(q))
    <3>1. s[i] = r[i - Len(q)] /\ i - Len(q) \in DOMAIN r
      BY <1>1, <1>2, <2>1, <2>3
    <3> QED
      BY <3>1 DEF AllKnown
  <2> QED
    BY <2>2, <2>3
<1>4. AllKnown(s, lg, at)
  BY <1>3 DEF AllKnown
<1> QED
  BY <1>1, <1>4 DEF s

LEMMA SuffixKnown ==
  ASSUME NEW q \in Seq(Pending), NEW m \in Nat \ {0}, NEW lg, NEW at, AllKnown(q, lg, at)
  PROVE  /\ SubSeq(q, m, Len(q)) \in Seq(Pending)
         /\ AllKnown(SubSeq(q, m, Len(q)), lg, at)
<1> DEFINE s == SubSeq(q, m, Len(q))
<1>1. Len(q) \in Nat /\ DOMAIN q = 1..Len(q) /\ \A i \in 1..Len(q) : q[i] \in Pending
  BY LenProperties
<1>2. \A i \in m..Len(q) : q[i] \in Pending
  BY <1>1
<1>3. /\ s \in Seq(Pending)
      /\ Len(s) = IF m <= Len(q) THEN Len(q) - m + 1 ELSE 0
      /\ \A i \in 1..Len(q) - m + 1 : s[i] = q[m + i - 1]
  <2>1. m \in Int /\ Len(q) \in Int
    BY <1>1
  <2> QED
    BY <1>2, <2>1, SubSeqProperties
<1>4. DOMAIN s = 1..Len(s)
  BY <1>3, LenProperties
<1> HIDE DEF s
<1>5. ASSUME NEW i \in DOMAIN s
      PROVE  Known(s[i], lg, at)
  <2>1. s[i] = q[m + i - 1] /\ m + i - 1 \in DOMAIN q
    BY <1>1, <1>3, <1>4
  <2> QED
    BY <2>1 DEF AllKnown
<1>6. AllKnown(s, lg, at)
  BY <1>5 DEF AllKnown
<1> QED
  BY <1>3, <1>6 DEF s

\* The stale prefix of a queue consists of transactions that may be dropped.
LEMMA PrefixMayDrop ==
  ASSUME NEW E, NEW q \in Seq(Pending), NEW n \in 0..Len(q), NEW lg, NEW at \in Nat,
         AllKnown(q, lg, at), StalePrefix(q, n, at)
  PROVE  /\ TxnsOf(SubSeq(q, 1, n)) \in SUBSET Txn
         /\ MayDrop(TxnsOf(SubSeq(q, 1, n)), lg, at, E)
<1> DEFINE s == SubSeq(q, 1, n)
<1>1. Len(q) \in Nat /\ DOMAIN q = 1..Len(q) /\ \A i \in 1..Len(q) : q[i] \in Pending
  BY LenProperties
<1>2. n \in Nat /\ \A i \in 1..n : q[i] \in Pending /\ i \in DOMAIN q
  BY <1>1
<1>3. /\ s \in Seq(Pending)
      /\ Len(s) = n
      /\ \A i \in 1..n : s[i] = q[i]
  <2>1. \A i \in 1..n : q[i] \in Pending
    BY <1>2
  <2>2. /\ s \in Seq(Pending)
        /\ Len(s) = IF 1 <= n THEN n - 1 + 1 ELSE 0
        /\ \A i \in 1..n - 1 + 1 : s[i] = q[1 + i - 1]
    BY <1>2, <2>1, SubSeqProperties
  <2> QED
    BY <1>2, <2>2
<1>4. DOMAIN s = 1..n
  BY <1>3, LenProperties
<1> HIDE DEF s
<1>5. \A i \in DOMAIN s : /\ s[i] \in Pending
                          /\ Known(s[i], lg, at)
                          /\ PastDeadline(s[i], at)
  BY <1>2, <1>3, <1>4 DEF AllKnown, StalePrefix, Stale
<1>6. \A i \in DOMAIN s :
        /\ s[i].tx \in Txn
        /\ lg[s[i].tx] # <<>>
        /\ RecordHonours([ev |-> "Drop", at |-> at], DeadlineOf(s[i].tx, lg[s[i].tx][1].at))
  BY <1>5 DEF Pending, Known, PastDeadline, RecordHonours
<1>7. TxnsOf(s) \in SUBSET Txn
  BY <1>6 DEF TxnsOf
<1>8. MayDrop(TxnsOf(s), lg, at, E)
  BY <1>6 DEF TxnsOf, MayDrop
<1> QED
  BY <1>7, <1>8 DEF s

-----------------------------------------------------------------------------
(***************************************************************************)
(* What the proofs that a policy implements BusContract share: how the     *)
(* phases and the deadlines of the contract, read off the trace, change    *)
(* with what a handler writes to it.                                       *)
(***************************************************************************)

LastOf(lg, t) == lg[t][Len(lg[t])].ev

\* Issued, and neither completed nor dropped.
Alive(lg, t) == lg[t] # <<>> /\ LastOf(lg, t) \notin {"Complete", "Drop"}

\* Phase and Due, for any trace and any set B of transactions on the bus.
PhaseOf(lg, B) ==
  [t \in Txn |-> IF lg[t] = <<>> THEN "new"
                 ELSE IF LastOf(lg, t) = "Complete" THEN "completed"
                 ELSE IF LastOf(lg, t) = "Drop" THEN "dropped"
                 ELSE IF t \in B THEN "serving" ELSE "waiting"]

DueOf(lg) == [t \in Txn |-> IF lg[t] = <<>> THEN 0 ELSE DeadlineOf(t, lg[t][1].at)]

Served == {e.pending.tx : e \in ends}

Late(lg, t, at) == DueOf(lg)[t] > 0 /\ at >= DueOf(lg)[t]

PhaseNames == {"new", "waiting", "serving", "completed", "dropped"}

\* Arbitrate of the contract, from the phases ph to the phases ph2.
Arbitrated(ph, ph2, d, at) ==
  /\ ph2 \in [Txn -> PhaseNames]
  /\ \A t \in Txn : ph2[t] # ph[t] =>
       /\ ph[t] = "waiting"
       /\ ph2[t] \in {"serving", "dropped"}
       /\ ph2[t] = "dropped" => d[t] > 0 /\ at >= d[t]
  /\ \A t, u \in Txn : ph2[t] = "serving" /\ ph2[u] = "serving" => t = u

\* What waits in a queue is alive, is not on the bus, and waits there once.
WaitsOnce(q, lg, B) ==
  /\ \A i \in DOMAIN q : q[i].tx \in Txn /\ Alive(lg, q[i].tx) /\ q[i].tx \notin B
  /\ \A i, j \in DOMAIN q : q[i].tx = q[j].tx => i = j

LEMMA PhaseIs == Phase = PhaseOf(log, Served) /\ Due = DueOf(log)
<1>1. \A t \in Txn : OnBus(t) <=> t \in Served
  BY DEF OnBus, Served
<1> QED
  BY <1>1 DEF Phase, PhaseOf, Due, DueOf, IssuedAt, Last, LastOf

-----------------------------------------------------------------------------
\* emit() decides the last record of those it is about, and leaves the others alone.
LEMMA EmitLast ==
  ASSUME NEW lg \in Logs, NEW T, NEW ev \in Milestones, NEW at \in Nat, NEW t \in Txn
  PROVE  LET lg2 == Emit(lg, T, ev, at)
         IN /\ t \in T => lg2[t] # <<>> /\ LastOf(lg2, t) = ev
            /\ t \notin T => lg2[t] = lg[t]
<1> DEFINE r == [ev |-> ev, at |-> at]
<1> DEFINE lg2 == Emit(lg, T, ev, at)
<1>1. r \in Record /\ r.ev = ev /\ lg[t] \in Seq(Record)
  BY DEF Record, Logs
<1> DEFINE old == lg[t]
<1> DEFINE new == Append(old, r)
<1>2. lg2[t] = IF t \in T THEN new ELSE old
  BY DEF Emit
<1> HIDE DEF r, old
<1>3. new # <<>> /\ Len(new) = Len(old) + 1 /\ new[Len(old) + 1] = r
  BY <1>1, AppendProperties DEF old
<1>4. new[Len(new)].ev = ev
  BY <1>1, <1>3
<1> HIDE DEF new, lg2
<1> QED
  BY <1>2, <1>3, <1>4 DEF LastOf, lg2, old

\* What has been issued keeps its deadline.
LEMMA DueContinues ==
  ASSUME NEW l1 \in Logs, NEW l2 \in Logs, Continues(l1, l2), NEW t \in Txn, l1[t] # <<>>
  PROVE  DueOf(l2)[t] = DueOf(l1)[t]
BY DEF Continues, DueOf

LEMMA PhaseOfType ==
  ASSUME NEW lg, NEW B
  PROVE  PhaseOf(lg, B) \in [Txn -> PhaseNames]
BY DEF PhaseOf, PhaseNames

\* From the trace lg to lg2, D is given up and S comes on the bus; nothing else changes.
Arbitrates(lg, lg2, D, S, at) ==
  /\ Arbitrated(PhaseOf(lg, {}), PhaseOf(lg2, S), DueOf(lg), at)
  /\ DueOf(lg2) = DueOf(lg)
  /\ \A t \in S : Alive(lg2, t)
  /\ \A t \in D : lg2[t] # <<>> /\ ~Alive(lg2, t)
  /\ \A t \in Txn \ (D \cup S) : lg2[t] = lg[t]

\* pick_next() drops D and puts S on the bus, S0 of them for the first time.
LEMMA PickArbitrates ==
  ASSUME NEW lg \in Logs, NEW at \in Nat, NEW D \in SUBSET Txn, NEW S \in SUBSET Txn,
         NEW S0 \in SUBSET S, D \cap S = {}, \A t, u \in S : t = u,
         \A t \in D \cup S : Alive(lg, t), \A t \in D : Late(lg, t, at),
         NEW lg2, lg2 = Emit(Emit(lg, D, "Drop", at), S0, "ServiceStart", at)
  PROVE  Arbitrates(lg, lg2, D, S, at)
<1> DEFINE lg1 == Emit(lg, D, "Drop", at)
<1>1. "Drop" \in Milestones /\ "ServiceStart" \in Milestones
  BY DEF Milestones
<1>2. lg1 \in Logs /\ Continues(lg, lg1)
  BY <1>1, EmitType
<1>3. lg2 = Emit(lg1, S0, "ServiceStart", at) /\ lg1 = Emit(lg, D, "Drop", at)
  OBVIOUS
<1> HIDE DEF lg1
<1>4. \A t \in Txn : /\ t \in D => lg1[t] # <<>> /\ LastOf(lg1, t) = "Drop"
                     /\ t \notin D => lg1[t] = lg[t]
  BY <1>1, <1>3, EmitLast
<1>5. lg2 \in Logs /\ Continues(lg1, lg2)
  <2> DEFINE ev == "ServiceStart"
  <2>1. ev \in Milestones
    BY <1>1
  <2> HIDE DEF ev
  <2>2. Emit(lg1, S0, ev, at) \in Logs /\ Continues(lg1, Emit(lg1, S0, ev, at))
    BY <1>2, <2>1, EmitType
  <2> QED
    BY <1>3, <2>2 DEF ev
<1>6. \A t \in Txn : /\ t \in S0 => lg2[t] # <<>> /\ LastOf(lg2, t) = "ServiceStart"
                     /\ t \notin S0 => lg2[t] = lg1[t]
  BY <1>1, <1>2, <1>3, EmitLast
<1>7. \A t \in D : lg2[t] # <<>> /\ LastOf(lg2, t) = "Drop"
  BY <1>4, <1>6 DEF LastOf
<1>8. \A t \in S : Alive(lg2, t)
  BY <1>4, <1>6 DEF Alive, LastOf
<1>9. \A t \in Txn \ (D \cup S) : lg2[t] = lg[t]
  BY <1>4, <1>6
<1>10. DueOf(lg2) = DueOf(lg)
  <2>1. Continues(lg, lg2)
    BY <1>2, <1>5, ContinuesTransitive
  <2>2. ASSUME NEW t \in Txn
        PROVE  DueOf(lg2)[t] = DueOf(lg)[t]
    <3>1. CASE t \in D \cup S
      BY <1>5, <2>1, <3>1, DueContinues DEF Alive
    <3>2. CASE t \notin D \cup S
      BY <1>9, <3>2 DEF DueOf
    <3> QED
      BY <3>1, <3>2
  <2> QED
    BY <2>2 DEF DueOf
<1> DEFINE ph == PhaseOf(lg, {})
<1> DEFINE ph2 == PhaseOf(lg2, S)
<1>11. \A t \in D : ph[t] = "waiting" /\ ph2[t] = "dropped"
  BY <1>7 DEF PhaseOf, Alive
<1>12. \A t \in S : ph[t] = "waiting" /\ ph2[t] = "serving"
  BY <1>8 DEF PhaseOf, Alive
<1>13. \A t \in Txn \ (D \cup S) : ph2[t] = ph[t] /\ ph2[t] # "serving"
  BY <1>9 DEF PhaseOf, LastOf
<1>14. ph2 \in [Txn -> PhaseNames]
  BY PhaseOfType
<1> HIDE DEF ph, ph2
<1>15. Arbitrated(ph, ph2, DueOf(lg), at)
  <2>1. ASSUME NEW t \in Txn, ph2[t] # ph[t]
        PROVE  /\ ph[t] = "waiting"
               /\ ph2[t] \in {"serving", "dropped"}
               /\ ph2[t] = "dropped" => DueOf(lg)[t] > 0 /\ at >= DueOf(lg)[t]
    <3>1. t \in D \/ t \in S
      BY <1>13, <2>1
    <3> QED
      BY <1>11, <1>12, <3>1 DEF Late
  <2>2. ASSUME NEW t \in Txn, ph2[t] = "serving"
        PROVE  t \in S
    BY <1>11, <1>13, <2>2
  <2> QED
    BY <1>14, <2>1, <2>2 DEF Arbitrated
<1>16. \A t \in D : lg2[t] # <<>> /\ ~Alive(lg2, t)
  BY <1>7 DEF Alive
<1> QED
  BY <1>8, <1>9, <1>10, <1>15, <1>16 DEF ph, ph2, Arbitrates

-----------------------------------------------------------------------------
\* From the trace lg to lg2, t starts to wait; nothing else changes.
StartsWaiting(lg, lg2, B, t, at) ==
  /\ PhaseOf(lg, B)[t] = "new"
  /\ PhaseOf(lg2, B) = [PhaseOf(lg, B) EXCEPT ![t] = "waiting"]
  /\ DueOf(lg2) = [DueOf(lg) EXCEPT ![t] = DeadlineOf(t, at)]
  /\ Alive(lg2, t)
  /\ \A u \in Txn \ {t} : lg2[u] = lg[u]

\* accept() makes a new transaction wait, with the deadline it was issued with.
LEMMA AcceptedPhases ==
  ASSUME NEW lg \in Logs, NEW t \in Txn, lg[t] = <<>>, NEW at \in Nat, NEW B, t \notin B,
         NEW lg2, lg2 = Emit(lg, {t}, "Arrive", at)
  PROVE  StartsWaiting(lg, lg2, B, t, at)
<1>1. "Arrive" \in Milestones
  BY DEF Milestones
<1>2. \A u \in Txn : /\ u \in {t} => lg2[u] # <<>> /\ LastOf(lg2, u) = "Arrive"
                     /\ u \notin {t} => lg2[u] = lg[u]
  BY <1>1, EmitLast
<1>3. lg2[t] # <<>> /\ LastOf(lg2, t) = "Arrive" /\ \A u \in Txn \ {t} : lg2[u] = lg[u]
  BY <1>2
<1>4. lg2[t][1].at = at
  BY <1>1, EmitFirst
<1>5. Alive(lg2, t)
  BY <1>3 DEF Alive
<1>6. PhaseOf(lg2, B) = [PhaseOf(lg, B) EXCEPT ![t] = "waiting"]
  BY <1>3 DEF PhaseOf, LastOf
<1>7. DueOf(lg2) = [DueOf(lg) EXCEPT ![t] = DeadlineOf(t, at)]
  BY <1>3, <1>4 DEF DueOf
<1>8. PhaseOf(lg, B)[t] = "new"
  BY DEF PhaseOf
<1> QED
  BY <1>3, <1>5, <1>6, <1>7, <1>8 DEF StartsWaiting

\* From the trace lg to lg2, t leaves the bus with the given outcome; nothing else changes.
LeavesBus(lg, lg2, t, outcome) ==
  /\ PhaseOf(lg2, {}) = [PhaseOf(lg, {t}) EXCEPT ![t] = outcome]
  /\ DueOf(lg2) = DueOf(lg)
  /\ \A u \in Txn \ {t} : lg2[u] = lg[u]

OutcomeOf(ev) == IF ev = "Complete" THEN "completed" ELSE "dropped"

\* A transaction is written off: it is completed, or dropped.
LEMMA EndOfLife ==
  ASSUME NEW lg \in Logs, NEW t \in Txn, Alive(lg, t), NEW at \in Nat,
         NEW ev \in {"Complete", "Drop"}
  PROVE  LeavesBus(lg, Emit(lg, {t}, ev, at), t, OutcomeOf(ev))
<1> DEFINE lg2 == Emit(lg, {t}, ev, at)
<1>1. ev \in Milestones
  BY DEF Milestones
<1>2. \A u \in Txn : /\ u \in {t} => lg2[u] # <<>> /\ LastOf(lg2, u) = ev
                     /\ u \notin {t} => lg2[u] = lg[u]
  BY <1>1, EmitLast
<1>3. lg2[t] # <<>> /\ LastOf(lg2, t) = ev /\ \A u \in Txn \ {t} : lg2[u] = lg[u]
  BY <1>2
<1>4. lg2 \in Logs /\ Continues(lg, lg2)
  BY <1>1, EmitType
<1> HIDE DEF lg2
<1>5. DueOf(lg2)[t] = DueOf(lg)[t]
  BY <1>4, DueContinues DEF Alive
<1>6. DueOf(lg2) = DueOf(lg)
  <2>1. \A u \in Txn \ {t} : DueOf(lg2)[u] = DueOf(lg)[u]
    BY <1>3 DEF DueOf
  <2> QED
    BY <1>5, <2>1 DEF DueOf
<1>7. PhaseOf(lg2, {}) = [PhaseOf(lg, {t}) EXCEPT ![t] = OutcomeOf(ev)]
  BY <1>3 DEF PhaseOf, LastOf, OutcomeOf
<1> QED
  BY <1>3, <1>6, <1>7 DEF LeavesBus, lg2

\* How the half-step h of on_quantum_end() takes t off the bus.
EndsQuantum(h, t) ==
  /\ PhaseOf(log, {t})[t] = "serving"
  /\ \E outcome \in {"completed", "dropped", "waiting"} :
       /\ outcome = "dropped" => Late(log, t, h.at)
       /\ LeavesBus(log, h.log, t, outcome)
  /\ \/ h.arriving = <<>> /\ h.log[t] # <<>> /\ ~Alive(h.log, t)
     \/ /\ Alive(h.log, t)
        /\ \E p \in Pending : p.tx = t /\ h.arriving = <<p>>

\* on_quantum_end() takes the transaction off the bus in one of the ways of the contract.
LEMMA EndedPhases ==
  ASSUME NEW E, BusInv(E), NEW e \in ends, NEW t, t = e.pending.tx, Alive(log, t),
         NEW h, h = Ended(e)
  PROVE  t \in Txn /\ h.at = e.at /\ EndsQuantum(h, t)
<1> DEFINE p == ServedOnce(e.pending)
<1>1. e.pending \in Pending /\ e.at \in Nat /\ log \in Logs /\ now \in Nat
  BY DEF BusInv, BusTypeOK, QuantumEvent, Logs
<1>2. p \in Pending /\ p.tx = t /\ p.deadline = e.pending.deadline /\ t \in Txn
  BY <1>1, ServedOnceType DEF Pending
<1>3. PhaseOf(log, {t})[t] = "serving"
  BY <1>2 DEF PhaseOf, Alive
<1>4. Known(e.pending, log, now)
  BY DEF BusInv
<1>5. PastDeadline(p, e.at) => Late(log, t, e.at)
  BY <1>2, <1>4 DEF PastDeadline, Known, Late, DueOf
<1> DEFINE complete == Emit(log, {t}, "Complete", e.at)
<1> DEFINE drop == Emit(log, {t}, "Drop", e.at)
<1>6. \/ h.log = complete /\ h.arriving = <<>>
      \/ h.log = drop /\ h.arriving = <<>> /\ PastDeadline(p, e.at)
      \/ h.log = log /\ h.arriving = <<p>>
  BY <1>2 DEF Ended, Half
<1>7. h.at = e.at
  BY DEF Ended, Half
<1>8. \A ev \in {"Complete", "Drop"} :
        LeavesBus(log, Emit(log, {t}, ev, e.at), t, OutcomeOf(ev))
  BY <1>1, <1>2, EndOfLife
<1>9. LeavesBus(log, complete, t, "completed") /\ LeavesBus(log, drop, t, "dropped")
  BY <1>8 DEF OutcomeOf
<1>10. LeavesBus(log, log, t, "waiting")
  BY <1>2 DEF LeavesBus, PhaseOf, Alive
<1>13. complete[t] # <<>> /\ ~Alive(complete, t) /\ drop[t] # <<>> /\ ~Alive(drop, t)
  <2>1. ASSUME NEW ev \in {"Complete", "Drop"}, NEW lg2, lg2 = Emit(log, {t}, ev, e.at)
        PROVE  lg2[t] # <<>> /\ ~Alive(lg2, t)
    <3> DEFINE T == {t}
    <3>1. T \in SUBSET Txn /\ t \in T /\ ev \in Milestones /\ lg2 = Emit(log, T, ev, e.at)
      BY <1>2, <2>1 DEF Milestones
    <3> HIDE DEF T
    <3>2. lg2[t] # <<>> /\ LastOf(lg2, t) = ev
      BY <1>1, <1>2, <3>1, EmitLast
    <3> QED
      BY <3>2 DEF Alive
  <2> QED
    BY <2>1
<1> HIDE DEF p, complete, drop
<1>11. \E outcome \in {"completed", "dropped", "waiting"} :
         /\ outcome = "dropped" => Late(log, t, h.at)
         /\ LeavesBus(log, h.log, t, outcome)
  BY <1>5, <1>6, <1>7, <1>9, <1>10
<1>12. \/ h.arriving = <<>> /\ h.log[t] # <<>> /\ ~Alive(h.log, t)
       \/ /\ Alive(h.log, t)
          /\ \E r \in Pending : r.tx = t /\ h.arriving = <<r>>
  BY <1>2, <1>6, <1>13
<1> QED
  BY <1>2, <1>3, <1>7, <1>11, <1>12 DEF EndsQuantum

-----------------------------------------------------------------------------
\* The steps of the contract.
LEMMA NextPhaseIs == Phase' = PhaseOf(log', Served') /\ Due' = DueOf(log')
<1>1. \A t \in Txn : OnBus(t)' <=> t \in Served'
  BY DEF OnBus, Served
<1> QED
  BY <1>1 DEF Phase, PhaseOf, Due, DueOf, IssuedAt, Last, LastOf

LEMMA InitContract == BusInit => Contract!Init
BY PhaseIs DEF BusInit, Contract!Init, PhaseOf, DueOf

LEMMA StutterContract ==
  ASSUME now' = now, log' = log, ends' = ends
  PROVE  UNCHANGED Contract!vars /\ Served' = Served
<1>1. Served' = Served
  BY DEF Served
<1> QED
  BY <1>1, PhaseIs, NextPhaseIs DEF Contract!vars

\* What is written of it: the drops are counted, and what is served for the first time
\* is announced.
Writes(h, D) ==
  /\ \A t \in D : Alive(h.log, t)
  /\ kpi' = CountDrops(h.kpi, D)
  /\ \E S0 \in SUBSET (Txn \ D) :
       /\ \A t \in S0 : Alive(h.log, t) /\ t \in Served'
       /\ log' = Emit(Emit(h.log, D, "Drop", h.at), S0, "ServiceStart", h.at)

\* From the half-step h on, D is given up and what comes on the bus is alive.
GoesOn(h, D) ==
  /\ Arbitrates(h.log, log', D, Served', h.at)
  /\ \A e \in ends' : Alive(log', e.pending.tx)
  /\ Writes(h, D)

LEMMA RestGoesOn ==
  ASSUME NEW h, h.log \in Logs, h.at \in Nat, h.ends = {}, NEW D \in SUBSET Txn,
         \A t \in D : Alive(h.log, t) /\ Late(h.log, t, h.at), Rest(h, D)
  PROVE  GoesOn(h, D) /\ Served' = {}
<1> DEFINE lg1 == Emit(h.log, D, "Drop", h.at)
<1>1. log' = lg1 /\ ends' = {}
  BY DEF Rest
<1>2. log' = Emit(lg1, {}, "ServiceStart", h.at)
  BY <1>1 DEF Emit
<1> DEFINE S == {}
<1>3. S \in SUBSET Txn /\ S \in SUBSET S /\ D \cap S = {} /\ D \cup S = D
      /\ \A t, u \in S : t = u
  OBVIOUS
<1>4. Served' = S /\ log' = Emit(lg1, S, "ServiceStart", h.at)
  BY <1>1, <1>2 DEF Served
<1> HIDE DEF S
<1>5. Arbitrates(h.log, log', D, S, h.at)
  BY <1>3, <1>4, PickArbitrates
<1>6. Writes(h, D)
  BY <1>2 DEF Writes, Rest
<1> QED
  BY <1>1, <1>4, <1>5, <1>6 DEF GoesOn, S

LEMMA ServeGoesOn ==
  ASSUME NEW h, h.log \in Logs, h.at \in Nat, h.ends = {}, NEW D \in SUBSET Txn,
         \A t \in D : Alive(h.log, t) /\ Late(h.log, t, h.at),
         NEW p \in Pending, Alive(h.log, p.tx), p.tx \notin D, Serve(h, D, p)
  PROVE  GoesOn(h, D) /\ Served' = {p.tx}
<1> DEFINE lg1 == Emit(h.log, D, "Drop", h.at)
<1> DEFINE e == [pending |-> Marked(p), at |-> h.at + ServiceUs(p)]
<1> DEFINE S == {p.tx}
<1> DEFINE S0 == IF p.service_started THEN {} ELSE S
<1>1. ends' = {e} /\ e.pending.tx = p.tx
  BY MarkedType DEF Serve
<1>2. Served' = S
  BY <1>1 DEF Served
<1>3. "Drop" \in Milestones
  BY DEF Milestones
<1>4. lg1 \in Logs
  BY <1>3, EmitType
<1>5. log' = IF p.service_started THEN lg1 ELSE Emit(lg1, S, "ServiceStart", h.at)
  BY DEF Serve
<1>6. Emit(lg1, {}, "ServiceStart", h.at) = lg1
  BY <1>4 DEF Emit, Logs
<1>7. log' = Emit(lg1, S0, "ServiceStart", h.at)
  BY <1>5, <1>6
<1>8. /\ S \in SUBSET Txn /\ S0 \in SUBSET S /\ D \cap S = {}
      /\ \A t, u \in S : t = u
      /\ \A t \in D \cup S : Alive(h.log, t)
      /\ \A t \in D : Late(h.log, t, h.at)
  BY DEF Pending
<1>9. p.tx \in S
  OBVIOUS
<1> HIDE DEF S, S0, e
<1>10. Arbitrates(h.log, log', D, S, h.at)
  BY <1>7, <1>8, PickArbitrates
<1>11. \A f \in ends' : Alive(log', f.pending.tx)
  BY <1>1, <1>9, <1>10 DEF Arbitrates
<1>12. Writes(h, D)
  <2>1. /\ S0 \in SUBSET (Txn \ D)
        /\ \A t \in S0 : Alive(h.log, t) /\ t \in Served'
    BY <1>2, <1>8
  <2>2. kpi' = CountDrops(h.kpi, D)
    BY DEF Serve
  <2> QED
    BY <1>7, <2>1, <2>2 DEF Writes
<1> QED
  BY <1>2, <1>10, <1>11, <1>12 DEF GoesOn, S

\* The step of the contract that a decision of pick_next() is part of.
LEMMA ArbitratedIs ==
  ASSUME NEW ph, NEW d, NEW at, at = now', Arbitrated(ph, Phase', d, at)
  PROVE  Contract!Arbitrate(ph, d, now')
BY DEF Arbitrated, Contract!Arbitrate, Contract!Phases, Contract!Expired, PhaseNames

\* accept() on an idle bus.
LEMMA IdleIssue ==
  ASSUME NEW h, NEW t \in Txn, NEW at, StartsWaiting(log, h.log, Served, t, at),
         h.at = at, now' = at, now' \in Nat, now' >= now,
         Served = {}, NEW D, GoesOn(h, D)
  PROVE  Contract!Next
<1>1. Phase = PhaseOf(log, {}) /\ Due = DueOf(log)
  BY PhaseIs
<1>2. Phase' = PhaseOf(log', Served') /\ Due' = DueOf(log')
  BY NextPhaseIs
<1>3. /\ Phase[t] = "new"
      /\ PhaseOf(h.log, {}) = [Phase EXCEPT ![t] = "waiting"]
      /\ DueOf(h.log) = [Due EXCEPT ![t] = DeadlineOf(t, at)]
  BY <1>1 DEF StartsWaiting
<1>4. Arbitrated(PhaseOf(h.log, {}), Phase', DueOf(h.log), at) /\ Due' = DueOf(h.log)
  BY <1>2 DEF GoesOn, Arbitrates
<1>5. Contract!Arbitrate([Phase EXCEPT ![t] = "waiting"],
                         [Due EXCEPT ![t] = DeadlineOf(t, at)], now')
  BY <1>3, <1>4, ArbitratedIs
<1>6. Contract!In(Phase, "serving") = {}
  BY <1>1 DEF Contract!In, PhaseOf
<1>7. Contract!Issue(t)
  BY <1>3, <1>4, <1>5, <1>6 DEF Contract!Issue
<1> QED
  BY <1>7 DEF Contract!Next

\* accept() on a busy bus.
LEMMA BusyIssue ==
  ASSUME NEW h, NEW t \in Txn, NEW at, StartsWaiting(log, h.log, Served, t, at),
         now' = at, now' \in Nat, now' >= now, log' = h.log, Served' = Served,
         NEW u \in Txn, u \in Served, Alive(log, u)
  PROVE  Contract!Next
<1>1. Phase = PhaseOf(log, Served) /\ Due = DueOf(log)
  BY PhaseIs
<1>2. Phase' = PhaseOf(h.log, Served) /\ Due' = DueOf(h.log)
  BY NextPhaseIs
<1>3. Phase[u] = "serving"
  BY <1>1 DEF PhaseOf, Alive
<1>4. Contract!In(Phase, "serving") # {}
  BY <1>3 DEF Contract!In
<1>5. Contract!Issue(t)
  BY <1>1, <1>2, <1>4 DEF Contract!Issue, StartsWaiting
<1> QED
  BY <1>5 DEF Contract!Next

\* on_quantum_end()
LEMMA EndStep ==
  ASSUME NEW h, NEW t \in Txn, Served = {t}, EndsQuantum(h, t),
         now' = h.at, now' \in Nat, now' >= now, NEW D, GoesOn(h, D)
  PROVE  Contract!Next
<1>1. PICK outcome \in {"completed", "dropped", "waiting"} :
        /\ outcome = "dropped" => Late(log, t, h.at)
        /\ LeavesBus(log, h.log, t, outcome)
  BY DEF EndsQuantum
<1>2. Phase = PhaseOf(log, {t}) /\ Due = DueOf(log)
  BY PhaseIs
<1>3. Phase' = PhaseOf(log', Served') /\ Due' = DueOf(log')
  BY NextPhaseIs
<1>4. /\ PhaseOf(h.log, {}) = [Phase EXCEPT ![t] = outcome]
      /\ DueOf(h.log) = Due
  BY <1>1, <1>2 DEF LeavesBus
<1>5. Arbitrated(PhaseOf(h.log, {}), Phase', DueOf(h.log), h.at) /\ Due' = DueOf(h.log)
  BY <1>3 DEF GoesOn, Arbitrates
<1>6. Contract!Arbitrate([Phase EXCEPT ![t] = outcome], Due, now')
  BY <1>4, <1>5, ArbitratedIs
<1>7. outcome = "dropped" => Contract!Expired(Due, t, now')
  BY <1>1, <1>2 DEF Contract!Expired, Late
<1>8. Contract!QuantumEnd(t)
  BY <1>2, <1>4, <1>5, <1>6, <1>7 DEF EndsQuantum, Contract!QuantumEnd
<1> QED
  BY <1>8 DEF Contract!Next

-----------------------------------------------------------------------------
\* Queues.
LEMMA WaitsOnceAppend ==
  ASSUME NEW q \in Seq(Pending), NEW lg, NEW B, WaitsOnce(q, lg, B),
         NEW p \in Pending, Alive(lg, p.tx), p.tx \notin B,
         \A i \in DOMAIN q : q[i].tx # p.tx
  PROVE  WaitsOnce(q \o <<p>>, lg, B)
<1> DEFINE s == q \o <<p>>
<1> DEFINE len == Len(q)
<1>1. len \in Nat /\ DOMAIN q = 1..len
  BY LenProperties
<1>2. <<p>> \in Seq(Pending) /\ Len(<<p>>) = 1 /\ <<p>>[1] = p
  OBVIOUS
<1>3. /\ s \in Seq(Pending) /\ Len(s) = len + 1
      /\ \A i \in 1..(len + 1) : s[i] = IF i <= len THEN q[i] ELSE <<p>>[i - len]
  BY <1>2, ConcatProperties
<1>4. DOMAIN s = 1..Len(s)
  BY <1>3, LenProperties
<1> HIDE DEF s, len
<1>5. \A i \in 1..len : s[i] = q[i]
  BY <1>1, <1>3
<1>6. s[len + 1] = p
  BY <1>1, <1>2, <1>3
<1>7. \A i \in DOMAIN s : i \in 1..len \/ i = len + 1
  BY <1>1, <1>3, <1>4
<1>8. p.tx \in Txn
  BY DEF Pending
<1>9. ASSUME NEW i \in DOMAIN s
      PROVE  s[i].tx \in Txn /\ Alive(lg, s[i].tx) /\ s[i].tx \notin B
  BY <1>1, <1>5, <1>6, <1>7, <1>8 DEF WaitsOnce
<1>10. ASSUME NEW i \in DOMAIN s, NEW j \in DOMAIN s, s[i].tx = s[j].tx
       PROVE  i = j
  BY <1>1, <1>5, <1>6, <1>7, <1>10 DEF WaitsOnce
<1> QED
  BY <1>9, <1>10 DEF WaitsOnce, s

\* What waits on while the trace of others is written.
LEMMA WaitsOnceStays ==
  ASSUME NEW q, NEW lg, NEW B, WaitsOnce(q, lg, B), NEW lg2, NEW B2,
         \A i \in DOMAIN q : lg2[q[i].tx] = lg[q[i].tx] /\ q[i].tx \notin B2
  PROVE  WaitsOnce(q, lg2, B2)
BY DEF WaitsOnce, Alive, LastOf

\* The places of a suffix are places of the queue.
LEMMA SuffixPlaces ==
  ASSUME NEW S, NEW q \in Seq(S), NEW m \in Nat \ {0}, NEW s, s = SubSeq(q, m, Len(q))
  PROVE  /\ s \in Seq(S)
         /\ \A i \in DOMAIN s : i \in Nat /\ m + i - 1 \in DOMAIN q /\ m + i - 1 >= m
                                          /\ s[i] = q[m + i - 1]
<1> DEFINE len == Len(q)
<1>1. len \in Nat /\ DOMAIN q = 1..len /\ \A i \in 1..len : q[i] \in S
  BY LenProperties
<1>2. s = SubSeq(q, m, len)
  OBVIOUS
<1> HIDE DEF len
<1>3. m \in Int /\ len \in Int /\ \A i \in m..len : q[i] \in S
  BY <1>1
<1>4. /\ s \in Seq(S)
      /\ Len(s) = IF m <= len THEN len - m + 1 ELSE 0
      /\ \A i \in 1..len - m + 1 : s[i] = q[m + i - 1]
  BY <1>2, <1>3, SubSeqProperties
<1>5. DOMAIN s = 1..Len(s)
  BY <1>4, LenProperties
<1>6. ASSUME NEW i \in DOMAIN s
      PROVE  i \in Nat /\ i \in 1..len - m + 1 /\ m + i - 1 \in 1..len /\ m + i - 1 >= m
  BY <1>1, <1>4, <1>5
<1> QED
  BY <1>1, <1>4, <1>6

LEMMA SuffixFrom ==
  ASSUME NEW S, NEW q \in Seq(S), NEW m \in Nat \ {0}, NEW s, s = SubSeq(q, m, Len(q))
  PROVE  \A i \in DOMAIN s : \E j \in DOMAIN q : s[i] = q[j]
<1>1. ASSUME NEW i \in DOMAIN s
      PROVE  \E j \in DOMAIN q : s[i] = q[j]
  <2>1. m + i - 1 \in DOMAIN q /\ s[i] = q[m + i - 1]
    BY SuffixPlaces
  <2> QED
    BY <2>1
<1> QED
  BY <1>1

LEMMA WaitsOnceSuffix ==
  ASSUME NEW q \in Seq(Pending), NEW m \in Nat \ {0}, NEW lg, NEW B, WaitsOnce(q, lg, B),
         NEW s, s = SubSeq(q, m, Len(q))
  PROVE  WaitsOnce(s, lg, B)
<1>1. \A i \in DOMAIN s : i \in Nat /\ m + i - 1 \in DOMAIN q /\ s[i] = q[m + i - 1]
  BY SuffixPlaces
<1>2. \A i, j \in DOMAIN s : m + i - 1 = m + j - 1 => i = j
  BY <1>1
<1> QED
  BY <1>1, <1>2 DEF WaitsOnce

\* What a prefix of a queue holds.
LEMMA PrefixTxns ==
  ASSUME NEW q \in Seq(Pending), NEW n, n \in 0..Len(q)
  PROVE  /\ \A i \in 1..n : i \in DOMAIN q
         /\ TxnsOf(SubSeq(q, 1, n)) = {q[i].tx : i \in 1..n}
<1> DEFINE len == Len(q)
<1> DEFINE s == SubSeq(q, 1, n)
<1>1. len \in Nat /\ DOMAIN q = 1..len /\ \A i \in 1..len : q[i] \in Pending
  BY LenProperties
<1>2. n \in 0..len
  OBVIOUS
<1> HIDE DEF len
<1>3. n \in Nat /\ n \in Int /\ \A i \in 1..n : i \in 1..len /\ q[i] \in Pending
  BY <1>1, <1>2
<1>4. /\ s \in Seq(Pending)
      /\ Len(s) = IF 1 <= n THEN n - 1 + 1 ELSE 0
      /\ \A i \in 1..n - 1 + 1 : s[i] = q[1 + i - 1]
  BY <1>3, SubSeqProperties
<1>5. DOMAIN s = 1..Len(s)
  BY <1>4, LenProperties
<1> HIDE DEF s
<1>6. DOMAIN s = 1..n /\ \A i \in 1..n : s[i] = q[i]
  BY <1>3, <1>4, <1>5
<1>7. TxnsOf(s) = {q[i].tx : i \in 1..n}
  BY <1>6 DEF TxnsOf
<1> QED
  BY <1>1, <1>3, <1>7 DEF s

\* The stale prefix of a queue is alive and late.
LEMMA PrefixLate ==
  ASSUME NEW q \in Seq(Pending), NEW n, n \in 0..Len(q), NEW lg, NEW B, NEW at,
         WaitsOnce(q, lg, B), AllKnown(q, lg, at), StalePrefix(q, n, at)
  PROVE  \A t \in TxnsOf(SubSeq(q, 1, n)) : t \in Txn /\ Alive(lg, t) /\ Late(lg, t, at)
<1>1. SUFFICES ASSUME NEW i \in 1..n
               PROVE  q[i].tx \in Txn /\ Alive(lg, q[i].tx) /\ Late(lg, q[i].tx, at)
  BY PrefixTxns
<1>2. i \in DOMAIN q
  BY PrefixTxns
<1>3. Known(q[i], lg, at) /\ PastDeadline(q[i], at)
  BY <1>2 DEF AllKnown, StalePrefix, Stale
<1>4. q[i].tx \in Txn /\ Alive(lg, q[i].tx)
  BY <1>2 DEF WaitsOnce
<1> QED
  BY <1>3, <1>4 DEF Known, PastDeadline, Late, DueOf

\* What waits still waits when D and what comes on the bus are others.
LEMMA GoesOnWaits ==
  ASSUME NEW h, NEW D, NEW t, GoesOn(h, D), Served' = {t}, NEW q, WaitsOnce(q, h.log, {}),
         \A i \in DOMAIN q : q[i].tx \notin D /\ q[i].tx # t
  PROVE  WaitsOnce(q, log', Served')
<1>1. \A i \in DOMAIN q : q[i].tx \in Txn \ (D \cup Served') /\ q[i].tx \notin Served'
  BY DEF WaitsOnce
<1>2. \A i \in DOMAIN q : log'[q[i].tx] = h.log[q[i].tx]
  BY <1>1 DEF GoesOn, Arbitrates
<1> QED
  BY <1>1, <1>2, WaitsOnceStays

-----------------------------------------------------------------------------
(***************************************************************************)
(* What the PendingTxn objects say agrees with the trace and with the      *)
(* bytes moved, and every transaction that is alive has such an object.    *)
(***************************************************************************)
Agrees(p, lg, sv) ==
  /\ p.service_started => Len(lg[p.tx]) = 2 /\ lg[p.tx][2].ev = "ServiceStart"
  /\ ~p.service_started => Len(lg[p.tx]) = 1 /\ sv[p.tx] = 0
  /\ p.bytes_remaining + sv[p.tx] = Tx[p.tx].size_bytes

Untouched(lg, sv) == \A t \in Txn : lg[t] = <<>> => sv[t] = 0

Objects(q) == {q[i] : i \in DOMAIN q}

\* The objects of the set Q wait, and those of the events es are on the bus.
Held(Q, es, lg, sv) ==
  /\ Untouched(lg, sv)
  /\ \A t \in Txn : Alive(lg, t) => (\E p \in Q : p.tx = t) \/ \E e \in es : e.pending.tx = t
  /\ \A p \in Q : Agrees(p, lg, sv)
  /\ \A e \in es : e.pending.service_started /\ Agrees(e.pending, lg, sv)

\* What start_service_if_idle() does with the objects of Q: those of Q2 go on waiting.
Moves(h, Q, Q2) ==
  /\ Q2 \subseteq Q
  /\ \A p \in Q : \/ p \in Q2
                  \/ ~Alive(log', p.tx)
                  \/ \E e \in ends' : e.pending.tx = p.tx
  /\ \A e \in ends' : \E p \in Q :
       /\ p \in Pending
       /\ e.pending = Marked(p)
       /\ e.at = h.at + ServiceUs(p)
       /\ log'[p.tx] = IF p.service_started THEN h.log[p.tx]
                       ELSE Append(h.log[p.tx], [ev |-> "ServiceStart", at |-> h.at])

LEMMA AgreesStays ==
  ASSUME NEW p, NEW l1, NEW s1, NEW l2, NEW s2, Agrees(p, l1, s1),
         l2[p.tx] = l1[p.tx], s2[p.tx] = s1[p.tx]
  PROVE  Agrees(p, l2, s2)
BY DEF Agrees

LEMMA AgreesIs ==
  ASSUME NEW p \in Pending, Agrees(p, log, served), Known(p, log, now)
  PROVE  AgreesWithTrace(p)
<1> DEFINE m == Len(log[p.tx])
<1>1. /\ p.service_started => m = 2 /\ log[p.tx][2].ev = "ServiceStart"
      /\ ~p.service_started => m = 1 /\ served[p.tx] = 0
      /\ p.bytes_remaining + served[p.tx] = Tx[p.tx].size_bytes
  BY DEF Agrees
<1>2. Started(p.tx) <=> m >= 2 /\ log[p.tx][2].ev = "ServiceStart"
  BY DEF Started
<1>3. p.deadline = DeadlineOf(p.tx, IssuedAt(p.tx))
  BY DEF Known, IssuedAt
<1>4. p.service_started \in BOOLEAN
  BY DEF Pending
<1> HIDE DEF m
<1>5. p.service_started <=> Started(p.tx)
  <2>1. ~p.service_started => ~(m >= 2)
    BY <1>1
  <2> QED
    BY <1>1, <1>2, <2>1
<1>6. Started(p.tx) \in BOOLEAN
  BY DEF Started
<1>7. p.service_started = Started(p.tx)
  BY <1>4, <1>5, <1>6
<1> QED
  BY <1>1, <1>3, <1>7 DEF AgreesWithTrace

LEMMA MarkedAgrees ==
  ASSUME NEW p \in Pending, NEW lg \in Logs, NEW sv, Agrees(p, lg, sv), NEW at \in Nat,
         NEW lg2, lg2[p.tx] = IF p.service_started THEN lg[p.tx]
                              ELSE Append(lg[p.tx], [ev |-> "ServiceStart", at |-> at])
  PROVE  Marked(p).service_started /\ Agrees(Marked(p), lg2, sv)
<1> DEFINE r == [ev |-> "ServiceStart", at |-> at]
<1>1. /\ Marked(p).service_started /\ Marked(p).tx = p.tx
      /\ Marked(p).bytes_remaining = p.bytes_remaining
  BY DEF Marked, Pending
<1>2. p.tx \in Txn /\ lg[p.tx] \in Seq(Record) /\ p.service_started \in BOOLEAN
  BY DEF Pending, Logs
<1>3. r \in Record /\ r.ev = "ServiceStart"
  BY DEF Record, Milestones
<1> DEFINE old == lg[p.tx]
<1> DEFINE new == Append(old, r)
<1>4. Len(new) = Len(old) + 1 /\ new[Len(old) + 1] = r
  BY <1>2, <1>3, AppendProperties
<1>5. lg2[p.tx] = IF p.service_started THEN old ELSE new
  OBVIOUS
<1> HIDE DEF r, new
<1>6. ~p.service_started => Len(new) = 2 /\ new[2].ev = "ServiceStart"
  <2>1. ~p.service_started => Len(old) = 1
    BY DEF Agrees
  <2> DEFINE m == Len(old)
  <2>2. ~p.service_started => m = 1
    BY <2>1
  <2>3. Len(new) = m + 1 /\ new[m + 1] = r
    BY <1>4
  <2> HIDE DEF m
  <2>4. ~p.service_started => Len(new) = 2 /\ new[2] = r
    BY <2>2, <2>3
  <2> QED
    BY <1>3, <2>4
<1> QED
  BY <1>1, <1>2, <1>5, <1>6 DEF Agrees

\* The queue and the bus after start_service_if_idle() on a bus that was free.
LEMMA MovesHeld ==
  ASSUME NEW h, h.log \in Logs, h.at \in Nat, NEW Q, NEW Q2, NEW D, Moves(h, Q, Q2), GoesOn(h, D),
         Held(Q, {}, h.log, h.served),
         \A p \in Q : p.tx \in Txn,
         \A p \in Q2 : Alive(log', p.tx) /\ p.tx \notin Served'
  PROVE  Held(Q2, ends', log', h.served)
<1>1. \A t \in Txn \ (D \cup Served') : log'[t] = h.log[t]
  BY DEF GoesOn, Arbitrates
<1>2. \A t \in D : log'[t] # <<>> /\ ~Alive(log', t)
  BY DEF GoesOn, Arbitrates
<1>3. \A t \in Served' : Alive(log', t) /\ log'[t] # <<>>
  BY DEF GoesOn, Arbitrates, Alive
<1>4. Untouched(log', h.served)
  BY <1>1, <1>2, <1>3 DEF Held, Untouched
<1>5. \A p \in Q2 : Agrees(p, log', h.served)
  <2>1. ASSUME NEW p \in Q2
        PROVE  Agrees(p, log', h.served)
    <3>1. p \in Q /\ p.tx \in Txn \ (D \cup Served')
      BY <1>2 DEF Moves
    <3>2. log'[p.tx] = h.log[p.tx] /\ Agrees(p, h.log, h.served)
      BY <1>1, <3>1 DEF Held
    <3> QED
      BY <3>2, AgreesStays
  <2> QED
    BY <2>1
<1>6. \A e \in ends' : e.pending.service_started /\ Agrees(e.pending, log', h.served)
  <2>1. ASSUME NEW e \in ends'
        PROVE  e.pending.service_started /\ Agrees(e.pending, log', h.served)
    <3>1. PICK p \in Q :
            /\ p \in Pending
            /\ e.pending = Marked(p)
            /\ log'[p.tx] = IF p.service_started THEN h.log[p.tx]
                            ELSE Append(h.log[p.tx], [ev |-> "ServiceStart", at |-> h.at])
      BY DEF Moves
    <3>2. Agrees(p, h.log, h.served)
      BY DEF Held
    <3> QED
      BY <3>1, <3>2, MarkedAgrees
  <2> QED
    BY <2>1
<1>7. ASSUME NEW t \in Txn, Alive(log', t)
      PROVE  (\E p \in Q2 : p.tx = t) \/ \E e \in ends' : e.pending.tx = t
  <2>1. CASE t \in Served'
    BY <2>1 DEF Served
  <2>2. CASE t \notin Served'
    <3>1. log'[t] = h.log[t]
      BY <1>1, <1>2, <1>7, <2>2
    <3>2. Alive(h.log, t)
      BY <1>7, <3>1 DEF Alive, LastOf
    <3>3. PICK p \in Q : p.tx = t
      BY <3>2 DEF Held
    <3> QED
      BY <1>7, <3>3 DEF Moves
  <2> QED
    BY <2>1, <2>2
<1> QED
  BY <1>4, <1>5, <1>6, <1>7 DEF Held

\* accept(), before start_service_if_idle().
LEMMA AcceptedHeld ==
  ASSUME NEW Q, Held(Q, ends, log, served), \A p \in Q : p.tx \in Txn /\ Alive(log, p.tx),
         \A e \in ends : e.pending.tx \in Txn /\ Alive(log, e.pending.tx),
         log \in Logs, served \in [Txn -> Nat],
         NEW t \in Txn, log[t] = <<>>, NEW at \in Nat, NEW h, h = Accepted(t, at),
         StartsWaiting(log, h.log, Served, t, at)
  PROVE  Held(Q \cup {NewPending(t, at)}, ends, h.log, h.served)
<1> DEFINE n == NewPending(t, at)
<1>1. /\ n.tx = t /\ n.bytes_remaining = Tx[t].size_bytes /\ n.service_started = FALSE
  BY DEF NewPending
<1>2. h.served = served /\ h.log = Emit(log, {t}, "Arrive", at)
  BY DEF Accepted, Half
<1>3. served[t] = 0 /\ Tx[t].size_bytes \in Nat
  BY TxnAssumption DEF Held, Untouched
<1>4. Len(h.log[t]) = 1
  <2> DEFINE r == [ev |-> "Arrive", at |-> at]
  <2>1. r \in Record
    BY DEF Record, Milestones
  <2>2. h.log[t] = Append(<<>>, r)
    BY <1>2 DEF Emit
  <2>3. Len(Append(<<>>, r)) = Len(<<>>) + 1
    BY <2>1, EmptySeq, AppendProperties
  <2> QED
    BY <2>2, <2>3, EmptySeq
<1>5. Agrees(n, h.log, h.served)
  BY <1>1, <1>2, <1>3, <1>4 DEF Agrees
<1>6. /\ \A u \in Txn \ {t} : h.log[u] = log[u]
      /\ h.log[t] # <<>>
  BY DEF StartsWaiting, Alive
<1> HIDE DEF n
<1>7. Untouched(h.log, h.served)
  BY <1>2, <1>6 DEF Held, Untouched
<1>8. ASSUME NEW p, p.tx \in Txn, Alive(log, p.tx), Agrees(p, log, served)
      PROVE  Agrees(p, h.log, h.served)
  <2>1. p.tx # t
    BY <1>8 DEF Alive
  <2> QED
    BY <1>2, <1>6, <1>8, <2>1, AgreesStays
<1>9. \A p \in Q \cup {n} : Agrees(p, h.log, h.served)
  BY <1>5, <1>8 DEF Held
<1>10. \A e \in ends : e.pending.service_started /\ Agrees(e.pending, h.log, h.served)
  BY <1>8 DEF Held
<1>11. ASSUME NEW u \in Txn, Alive(h.log, u)
       PROVE  (\E p \in Q \cup {n} : p.tx = u) \/ \E e \in ends : e.pending.tx = u
  <2>1. CASE u = t
    BY <1>1, <2>1
  <2>2. CASE u # t
    <3>1. Alive(log, u)
      BY <1>6, <1>11, <2>2 DEF Alive, LastOf
    <3> QED
      BY <3>1 DEF Held
  <2> QED
    BY <2>1, <2>2
<1> QED
  BY <1>7, <1>9, <1>10, <1>11 DEF Held, n

\* R is the set of the objects that the half-step h hands to on_arrive().
HandsOver(h, R) ==
  /\ h.arriving = <<>> => R = {}
  /\ \A p \in Pending : h.arriving = <<p>> => R = {p}

\* on_quantum_end(), before start_service_if_idle().
LEMMA EndedHeld ==
  ASSUME NEW E, BusInv(E), NEW Q, Held(Q, ends, log, served),
         NEW e \in ends, NEW t, t = e.pending.tx, t \in Txn, NEW h, h = Ended(e),
         EndsQuantum(h, t), \A p \in Q : p.tx \in Txn \ {t},
         NEW R, HandsOver(h, R), NEW Q2, Q2 = Q \cup R
  PROVE  Held(Q2, {}, h.log, h.served)
<1> DEFINE p == ServedOnce(e.pending)
<1>1. /\ e.pending \in Pending /\ served \in [Txn -> Nat] /\ log \in Logs
      /\ \A f \in ends : f = e
  BY DEF BusInv, BusTypeOK, OneTransferAtATime, QuantumEvent, Logs
<1>2. /\ p \in Pending /\ p.tx = t /\ p.service_started = e.pending.service_started
  <2>1. p \in Pending /\ p.tx = t
    BY <1>1, ServedOnceType
  <2>2. p.service_started = e.pending.service_started
    BY <1>1 DEF ServedOnce, Pending
  <2> QED
    BY <2>1, <2>2
<1>3. h.served = Moved(e.pending)
  BY DEF Ended, Half
<1>4. /\ \A u \in Txn \ {t} : h.served[u] = served[u]
      /\ h.served[t] = served[t] + e.pending.bytes_remaining - p.bytes_remaining
  BY <1>1, <1>3 DEF Moved
<1>5. \A u \in Txn \ {t} : h.log[u] = log[u]
  BY DEF EndsQuantum, LeavesBus
<1>6. e.pending.service_started /\ Agrees(e.pending, log, served)
  BY DEF Held
<1>7. \/ h.arriving = <<>>
      \/ h.arriving = <<p>> /\ h.log = log
  BY DEF Ended, Half
<1>8. h.log[t] # <<>>
  BY DEF EndsQuantum, Alive
<1>9. Untouched(h.log, h.served)
  BY <1>4, <1>5, <1>8 DEF Held, Untouched
<1>10. \A q \in Q : Agrees(q, h.log, h.served)
  <2>1. ASSUME NEW q \in Q
        PROVE  Agrees(q, h.log, h.served)
    BY <1>4, <1>5, AgreesStays DEF Held
  <2> QED
    BY <2>1
<1>11. h.arriving = <<p>> => Agrees(p, h.log, h.served)
  <2>1. SUFFICES ASSUME h.arriving = <<p>>
                 PROVE  Agrees(p, h.log, h.served)
    OBVIOUS
  <2>2. h.log = log
    BY <1>7, <2>1
  <2>3. /\ served[t] \in Nat /\ e.pending.bytes_remaining \in Nat /\ p.bytes_remaining \in Nat
        /\ Tx[t].size_bytes \in Nat
    BY <1>1, <1>2, TxnAssumption DEF Pending
  <2>4. p.bytes_remaining + h.served[t] = Tx[t].size_bytes
    BY <1>4, <1>6, <2>3 DEF Agrees
  <2> QED
    BY <1>2, <1>6, <2>2, <2>4 DEF Agrees
<1>12. ASSUME NEW u \in Txn, Alive(h.log, u)
       PROVE  \E q \in Q \cup R : q.tx = u
  <2>1. CASE u = t
    <3>1. h.arriving # <<>>
      BY <1>12, <2>1, <1>7 DEF EndsQuantum
    <3>2. h.arriving = <<p>>
      BY <1>7, <3>1
    <3>3. R = {p}
      BY <1>2, <3>2 DEF HandsOver
    <3> QED
      BY <1>2, <2>1, <3>3
  <2>2. CASE u # t
    <3>1. Alive(log, u)
      BY <1>5, <1>12, <2>2 DEF Alive, LastOf
    <3> QED
      BY <1>1, <2>2, <3>1 DEF Held
  <2> QED
    BY <2>1, <2>2
<1> HIDE DEF p
<1>13. \A q \in R : Agrees(q, h.log, h.served)
  BY <1>2, <1>7, <1>11 DEF HandsOver
<1> QED
  BY <1>9, <1>10, <1>12, <1>13 DEF Held

\* What the suffix of a queue leaves out.
LEMMA SuffixHolds ==
  ASSUME NEW S, NEW q \in Seq(S), NEW m \in Nat \ {0}, NEW s, s = SubSeq(q, m, Len(q)),
         NEW i \in DOMAIN q, i >= m
  PROVE  i - m + 1 \in DOMAIN s /\ s[i - m + 1] = q[i]
<1> DEFINE len == Len(q)
<1>1. len \in Nat /\ DOMAIN q = 1..len /\ \A k \in 1..len : q[k] \in S
  BY LenProperties
<1>2. s = SubSeq(q, m, len)
  OBVIOUS
<1>3. i \in 1..len
  BY <1>1
<1> HIDE DEF len
<1>4. m \in Int /\ len \in Int /\ \A k \in m..len : q[k] \in S
  BY <1>1
<1>5. /\ s \in Seq(S)
      /\ Len(s) = IF m <= len THEN len - m + 1 ELSE 0
      /\ \A k \in 1..len - m + 1 : s[k] = q[m + k - 1]
  BY <1>2, <1>4, SubSeqProperties
<1>6. DOMAIN s = 1..Len(s)
  BY <1>5, LenProperties
<1>7. i - m + 1 \in 1..len - m + 1 /\ m + (i - m + 1) - 1 = i /\ m <= len
  BY <1>1, <1>3
<1> QED
  BY <1>5, <1>6, <1>7

\* pick_next() returns p, an object of Q, drops D, and leaves Q2 waiting.
LEMMA ServeMoves ==
  ASSUME NEW h, h.log \in Logs, h.at \in Nat, h.ends = {}, NEW D \in SUBSET Txn,
         GoesOn(h, D), NEW p \in Pending, p.tx \notin D, Serve(h, D, p),
         NEW Q, NEW Q2 \in SUBSET Q, p \in Q, \A r \in Q : r \in Q2 \/ r.tx \in D \/ r = p
  PROVE  Moves(h, Q, Q2)
<1> DEFINE lg == Emit(h.log, D, "Drop", h.at)
<1> DEFINE e == [pending |-> Marked(p), at |-> h.at + ServiceUs(p)]
<1>1. /\ ends' = {e} /\ e.pending = Marked(p) /\ e.pending.tx = p.tx
      /\ e.at = h.at + ServiceUs(p)
  BY MarkedType DEF Serve
<1>2. p.tx \in Txn
  BY DEF Pending
<1>3. lg[p.tx] = h.log[p.tx]
  BY <1>2 DEF Emit
<1>4. log'[p.tx] = IF p.service_started THEN h.log[p.tx]
                   ELSE Append(h.log[p.tx], [ev |-> "ServiceStart", at |-> h.at])
  <2>1. CASE p.service_started
    BY <1>3, <2>1 DEF Serve
  <2>2. CASE ~p.service_started
    <3>1. log' = Emit(lg, {p.tx}, "ServiceStart", h.at)
      BY <2>2 DEF Serve
    <3> HIDE DEF lg
    <3>2. log'[p.tx] = Append(lg[p.tx], [ev |-> "ServiceStart", at |-> h.at])
      BY <1>2, <3>1 DEF Emit
    <3> QED
      BY <1>3, <2>2, <3>2
  <2> QED
    BY <2>1, <2>2
<1> HIDE DEF e
<1>5. \A r \in Q : r \in Q2 \/ ~Alive(log', r.tx) \/ \E f \in ends' : f.pending.tx = r.tx
  BY <1>1 DEF GoesOn, Arbitrates
<1>6. \A f \in ends' : f.pending = Marked(p) /\ f.at = h.at + ServiceUs(p)
  BY <1>1
<1> QED
  BY <1>4, <1>5, <1>6 DEF Moves

LEMMA RestMoves ==
  ASSUME NEW h, h.ends = {}, NEW D \in SUBSET Txn, GoesOn(h, D), Rest(h, D),
         NEW Q, NEW Q2 \in SUBSET Q, \A r \in Q : r \in Q2 \/ r.tx \in D
  PROVE  Moves(h, Q, Q2)
BY DEF GoesOn, Arbitrates, Moves, Rest

LEMMA EmptyObjects == Objects(<<>>) = {}
BY EmptySeq DEF Objects

LEMMA SingletonObjects ==
  ASSUME NEW p \in Pending
  PROVE  Objects(<<p>>) = {p}
<1> DEFINE s == <<p>>
<1>1. DOMAIN s = {1} /\ s[1] = p
  OBVIOUS
<1> HIDE DEF s
<1>2. Objects(s) = {p}
  BY <1>1 DEF Objects
<1> QED
  BY <1>2 DEF s

LEMMA ConcatObjects ==
  ASSUME NEW s \in Seq(Pending), NEW u \in Seq(Pending)
  PROVE  Objects(s \o u) = Objects(s) \cup Objects(u)
<1> DEFINE m == Len(s)
<1> DEFINE n == Len(u)
<1> DEFINE v == s \o u
<1>1. m \in Nat /\ n \in Nat /\ DOMAIN s = 1..m /\ DOMAIN u = 1..n
  BY LenProperties
<1>2. /\ Len(v) = m + n /\ v \in Seq(Pending)
      /\ \A i \in 1..m + n : v[i] = IF i <= m THEN s[i] ELSE u[i - m]
  BY ConcatProperties
<1>3. DOMAIN v = 1..m + n
  BY <1>2, LenProperties
<1> HIDE DEF m, n, v
<1>4. \A i \in 1..m : i \in 1..m + n /\ i <= m
  BY <1>1
<1>5. ASSUME NEW i \in 1..n
      PROVE  m + i \in DOMAIN v /\ v[m + i] = u[i]
  <2>1. PICK k \in Int : k = m + i
    BY <1>1
  <2>2. k \in 1..m + n /\ ~(k <= m) /\ k - m = i
    BY <1>1, <2>1
  <2> QED
    BY <1>2, <1>3, <2>1, <2>2
<1>6. ASSUME NEW i \in DOMAIN v
      PROVE  v[i] \in Objects(s) \cup Objects(u)
  <2>1. CASE i <= m
    <3>1. i \in DOMAIN s /\ v[i] = s[i]
      BY <1>1, <1>2, <1>3, <2>1
    <3> QED
      BY <3>1 DEF Objects
  <2>2. CASE ~(i <= m)
    <3> DEFINE j == i - m
    <3>1. j \in DOMAIN u /\ v[i] = u[j]
      BY <1>1, <1>2, <1>3, <2>2
    <3> HIDE DEF j
    <3> QED
      BY <3>1 DEF Objects
  <2> QED
    BY <2>1, <2>2
<1>7. Objects(v) \subseteq Objects(s) \cup Objects(u)
  <2>1. \A x \in Objects(v) : \E i \in DOMAIN v : x = v[i]
    BY DEF Objects
  <2> QED
    BY <1>6, <2>1
<1>8. Objects(s) \subseteq Objects(v)
  BY <1>1, <1>2, <1>3, <1>4 DEF Objects
<1>9. Objects(u) \subseteq Objects(v)
  <2>1. \A i \in DOMAIN u : \E k \in DOMAIN v : v[k] = u[i]
    BY <1>1, <1>5
  <2> QED
    BY <2>1 DEF Objects
<1> QED
  BY <1>7, <1>8, <1>9 DEF v

\* A transaction is in one place or in none.
LEMMA OnePlace ==
  ASSUME NEW S, \A x, y \in S : x = y
  PROVE  Cardinality(S) = IF S = {} THEN 0 ELSE 1
<1>1. CASE S = {}
  BY <1>1, FS_EmptySet
<1>2. CASE S # {}
  <2>1. PICK x \in S : TRUE
    BY <1>2
  <2>2. S = {x}
    BY <2>1
  <2> QED
    BY <1>2, <2>2, FS_Singleton
<1> QED
  BY <1>1, <1>2

-----------------------------------------------------------------------------
(***************************************************************************)
(* The counters of the final report and the trace, side by side:           *)
(* KpiMatchesTrace, of any counters k and any trace lg.                    *)
(***************************************************************************)
Issued(lg)    == {t \in Txn : lg[t] # <<>>}
Completed(lg) == {t \in Issued(lg) : LastOf(lg, t) = "Complete"}
GivenUp(lg)   == {t \in Issued(lg) : LastOf(lg, t) = "Drop"}
AudioOf(T)    == {t \in T : IsAudio(t)}
WeightsOf(T)  == {t \in T : Tx[t].source = "weight"}

LatencyOf(lg) ==
  [t \in Txn |-> IF lg[t] = <<>> THEN 0 ELSE lg[t][Len(lg[t])].at - lg[t][1].at]

Cpu    == [t \in Txn |-> CpuCycles(t)]
Unpack == [t \in Txn |-> DecompressCycles(t)]
Sgl    == [t \in Txn |-> SglEntries(t)]

CountsMatch(k, lg) ==
  /\ k["issued"] = Cardinality(Issued(lg))
  /\ k["completed"] = Cardinality(Completed(lg))
  /\ k["dropped"] = Cardinality(GivenUp(lg))
  /\ k["audio_completed"] = Cardinality(AudioOf(Completed(lg)))
  /\ k["audio_dropped"] = Cardinality(AudioOf(GivenUp(lg)))

LatenciesMatch(k, f, done) ==
  /\ k["audio_lat_max"] = MaxOver(f, AudioOf(done))
  /\ k["audio_lat_sum"] = SumFunctionOnSet(f, AudioOf(done))
  /\ k["weight_lat_max"] = MaxOver(f, WeightsOf(done))

CostsMatch(k, done) ==
  /\ k["cpu_cycles"] = SumFunctionOnSet(Cpu, done)
  /\ k["decompress_cycles"] = SumFunctionOnSet(Unpack, done)
  /\ k["sgl_entries"] = SumFunctionOnSet(Sgl, done)

Matches(k, lg) ==
  /\ CountsMatch(k, lg)
  /\ LatenciesMatch(k, LatencyOf(lg), Completed(lg))
  /\ CostsMatch(k, Completed(lg))

\* The records of a transaction are in the order of their dates, none later than `at`.
Ordered(lg, at) ==
  \A t \in Txn :
    /\ \A i, j \in DOMAIN lg[t] : i < j => lg[t][i].at <= lg[t][j].at
    /\ \A i \in DOMAIN lg[t] : lg[t][i].at <= at

LEMMA MatchesIs == Matches(kpi, log) <=> KpiMatchesTrace
<1> DEFINE done == {t \in Txn : Finished(t) /\ Last(t) = "Complete"}
<1> DEFINE lost == {t \in Txn : Finished(t) /\ Last(t) = "Drop"}
<1>1. done = Completed(log) /\ lost = GivenUp(log)
  BY DEF Finished, Outstanding, Last, Completed, GivenUp, Issued, LastOf
<1>2. Latency = LatencyOf(log)
  BY DEF Latency, LatencyOf, IssuedAt
<1>3. /\ AudioOf(done) = {t \in done : IsAudio(t)}
      /\ AudioOf(lost) = {t \in lost : IsAudio(t)}
      /\ WeightsOf(done) = {t \in done : Tx[t].source = "weight"}
      /\ Issued(log) = {t \in Txn : log[t] # <<>>}
  BY DEF AudioOf, WeightsOf, Issued
<1> QED
  BY <1>1, <1>2, <1>3
     DEF KpiMatchesTrace, Matches, CountsMatch, LatenciesMatch, CostsMatch, Cpu, Unpack, Sgl

LEMMA SetsFinite ==
  ASSUME NEW lg
  PROVE  /\ \A T \in SUBSET Txn : IsFiniteSet(T) /\ Cardinality(T) \in Nat
         /\ Issued(lg) \in SUBSET Txn /\ Completed(lg) \in SUBSET Txn /\ GivenUp(lg) \in SUBSET Txn
<1>1. ASSUME NEW T \in SUBSET Txn
      PROVE  IsFiniteSet(T) /\ Cardinality(T) \in Nat
  BY FS_Subset, FS_CardinalityType, TxnAssumption
<1> QED
  BY <1>1 DEF Issued, Completed, GivenUp

LEMMA CostTypes == \A t \in Txn : Cpu[t] \in Nat /\ Unpack[t] \in Nat /\ Sgl[t] \in Nat
BY CostAssumption DEF Cpu, Unpack, Sgl

-----------------------------------------------------------------------------
\* The largest of the values of one more transaction.
LEMMA MaxOverAdd ==
  ASSUME NEW S, IsFiniteSet(S), NEW x, NEW f, NEW g, \A y \in S : f[y] = g[y],
         \A y \in S \cup {x} : g[y] \in Nat
  PROVE  MaxOver(g, S \cup {x}) = Larger(MaxOver(f, S), g[x])
<1> DEFINE V == {g[y] : y \in S}
<1> DEFINE W == {g[y] : y \in S \cup {x}}
<1>1. {f[y] : y \in S} = V
  OBVIOUS
<1>2. IsFiniteSet(S \cup {x}) /\ S \cup {x} # {} /\ \A y \in S \cup {x} : g[y] \in Int
  BY FS_AddElement
<1>3. /\ Max(W) \in Int
      /\ \E y \in S \cup {x} : Max(W) = g[y]
      /\ \A y \in S \cup {x} : Max(W) >= g[y]
  <2> DEFINE T == S \cup {x}
  <2> HIDE DEF T
  <2>1. /\ Max({g[y] : y \in T}) \in Int
        /\ \E z \in T : Max({g[y] : y \in T}) = g[z]
        /\ \A z \in T : Max({g[y] : y \in T}) >= g[z]
    BY <1>2, LargestIs DEF T
  <2> QED
    BY <2>1 DEF T
<1>4. MaxOver(g, S \cup {x}) = Max(W)
  BY <1>2 DEF MaxOver
<1>5. CASE S = {}
  <2>1. MaxOver(f, S) = 0
    BY <1>5 DEF MaxOver
  <2>2. Max(W) = g[x] /\ g[x] \in Nat
    BY <1>3, <1>5
  <2> HIDE DEF W
  <2> QED
    BY <1>4, <2>1, <2>2 DEF Larger
<1>6. CASE S # {}
  <2>1. /\ Max(V) \in Int
        /\ \E y \in S : Max(V) = g[y]
        /\ \A y \in S : Max(V) >= g[y]
    BY <1>2, <1>6, LargestIs
  <2>2. MaxOver(f, S) = Max(V)
    BY <1>1, <1>6 DEF MaxOver
  <2> DEFINE mv == Max(V)
  <2> DEFINE mw == Max(W)
  <2>3. /\ mv \in Int /\ mw \in Int /\ g[x] \in Int
        /\ mw >= mv /\ mw >= g[x]
        /\ mw = g[x] \/ mv >= mw
    BY <1>2, <1>3, <2>1
  <2> HIDE DEF mv, mw
  <2>4. mw = Larger(mv, g[x])
    BY <2>3 DEF Larger
  <2> QED
    BY <1>4, <2>2, <2>4 DEF mv, mw
<1> QED
  BY <1>5, <1>6

LEMMA MaxOverSame ==
  ASSUME NEW S, NEW f, NEW g, \A y \in S : f[y] = g[y]
  PROVE  MaxOver(f, S) = MaxOver(g, S)
<1>1. {f[y] : y \in S} = {g[y] : y \in S}
  OBVIOUS
<1> QED
  BY <1>1 DEF MaxOver

-----------------------------------------------------------------------------
\* What the counting functions of scheduler.cpp do with each counter.
LEMMA DropCounters ==
  ASSUME NEW k \in Kpi, NEW T \in SUBSET Txn
  PROVE  LET k2 == CountDrops(k, T)
         IN /\ k2["dropped"] = k["dropped"] + Cardinality(T)
            /\ k2["audio_dropped"] = k["audio_dropped"] + Cardinality(AudioOf(T))
            /\ \A c \in Counters \ {"dropped", "audio_dropped"} : k2[c] = k[c]
BY DEF CountDrops, CountAudioDrops, AudioOf, Bump, Kpi, Counters

LEMMA IssueCounters ==
  ASSUME NEW k \in Kpi
  PROVE  LET k2 == Bump(k, "issued", 1)
         IN /\ k2["issued"] = k["issued"] + 1
            /\ \A c \in Counters \ {"issued"} : k2[c] = k[c]
BY DEF Bump, Kpi, Counters

CostCounters == {"completed", "cpu_cycles", "decompress_cycles", "sgl_entries"}

LEMMA CostCountersAre ==
  ASSUME NEW k \in Kpi, NEW t \in Txn
  PROVE  LET k2 == CountCosts(k, t)
         IN /\ k2 \in Kpi
            /\ k2["completed"] = k["completed"] + 1
            /\ k2["cpu_cycles"] = k["cpu_cycles"] + Cpu[t]
            /\ k2["decompress_cycles"] = k["decompress_cycles"] + Unpack[t]
            /\ k2["sgl_entries"] = k["sgl_entries"] + Sgl[t]
            /\ \A c \in Counters \ CostCounters : k2[c] = k[c]
<1>1. CpuCycles(t) \in Nat /\ DecompressCycles(t) \in Nat /\ SglEntries(t) \in Nat
  BY CostAssumption
<1>2. CountCosts(k, t) \in Kpi
  BY <1>1, BumpType DEF CountCosts, Counters
<1> QED
  BY <1>2 DEF CountCosts, CostCounters, Bump, Kpi, Counters, Cpu, Unpack, Sgl

LatencyCounters == {"audio_completed", "audio_lat_max", "audio_lat_sum", "weight_lat_max"}

LEMMA LatencyCountersAre ==
  ASSUME NEW k \in Kpi, NEW t \in Txn, NEW l \in Nat
  PROVE  LET k2 == CountLatency(k, t, l)
         IN /\ IsAudio(t) =>
                 /\ k2["audio_completed"] = k["audio_completed"] + 1
                 /\ k2["audio_lat_max"] = Larger(k["audio_lat_max"], l)
                 /\ k2["audio_lat_sum"] = k["audio_lat_sum"] + l
                 /\ k2["weight_lat_max"] = k["weight_lat_max"]
            /\ ~IsAudio(t) => \A c \in LatencyCounters \ {"weight_lat_max"} : k2[c] = k[c]
            /\ Tx[t].source = "weight" => k2["weight_lat_max"] = Larger(k["weight_lat_max"], l)
            /\ ~IsAudio(t) /\ Tx[t].source # "weight" => k2["weight_lat_max"] = k["weight_lat_max"]
            /\ \A c \in Counters \ LatencyCounters : k2[c] = k[c]
<1>1. k \in [Counters -> Nat]
  BY DEF Kpi
<1>2. LatencyCounters \subseteq Counters
  BY DEF LatencyCounters, Counters
<1>3. CASE IsAudio(t)
  BY <1>1, <1>3 DEF CountLatency, LatencyCounters, Bump, Raise, Counters, IsAudio
<1>4. CASE ~IsAudio(t) /\ Tx[t].source = "weight"
  BY <1>1, <1>4 DEF CountLatency, LatencyCounters, Raise, Counters
<1>5. CASE ~IsAudio(t) /\ Tx[t].source # "weight"
  BY <1>5 DEF CountLatency
<1> QED
  BY <1>3, <1>4, <1>5


-----------------------------------------------------------------------------
LEMMA RecordTypes ==
  ASSUME NEW lg \in Logs, NEW t \in Txn
  PROVE  /\ Len(lg[t]) \in Nat /\ DOMAIN lg[t] = 1..Len(lg[t])
         /\ lg[t] # <<>> => Len(lg[t]) # 0
         /\ \A i \in DOMAIN lg[t] : lg[t][i].at \in Nat /\ lg[t][i].ev \in Milestones
<1> DEFINE s == lg[t]
<1>1. s \in Seq(Record)
  BY DEF Logs
<1>2. Len(s) \in Nat /\ DOMAIN s = 1..Len(s) /\ \A i \in 1..Len(s) : s[i] \in Record
  BY <1>1, LenProperties
<1>3. s # <<>> => Len(s) # 0
  BY <1>1, EmptySeq
<1> HIDE DEF s
<1>4. \A i \in DOMAIN s : s[i].at \in Nat /\ s[i].ev \in Milestones
  BY <1>2 DEF Record
<1> QED
  BY <1>2, <1>3, <1>4 DEF s

\* emit(), record by record.
LEMMA EmitRecords ==
  ASSUME NEW lg \in Logs, NEW T, NEW ev \in Milestones, NEW at \in Nat, NEW t \in Txn,
         NEW lg2, lg2 = Emit(lg, T, ev, at)
  PROVE  /\ t \notin T => lg2[t] = lg[t]
         /\ t \in T =>
              /\ Len(lg[t]) \in Nat /\ DOMAIN lg[t] = 1..Len(lg[t])
              /\ Len(lg2[t]) = Len(lg[t]) + 1 /\ DOMAIN lg2[t] = 1..(Len(lg[t]) + 1)
              /\ \A i \in 1..Len(lg[t]) : lg2[t][i] = lg[t][i]
              /\ lg2[t][Len(lg[t]) + 1].ev = ev
              /\ lg2[t][Len(lg[t]) + 1].at = at
<1> DEFINE r == [ev |-> ev, at |-> at]
<1> DEFINE old == lg[t]
<1> DEFINE new == Append(old, r)
<1>1. r \in Record /\ old \in Seq(Record) /\ r.ev = ev /\ r.at = at
  BY DEF Record, Logs
<1>2. lg2[t] = IF t \in T THEN new ELSE old
  BY DEF Emit
<1> HIDE DEF r, old
<1>3. /\ new \in Seq(Record) /\ Len(new) = Len(old) + 1
      /\ \A i \in 1..Len(old) : new[i] = old[i]
      /\ new[Len(old) + 1] = r
  BY <1>1, AppendProperties
<1>4. /\ Len(old) \in Nat /\ DOMAIN old = 1..Len(old) /\ DOMAIN new = 1..(Len(old) + 1)
  BY <1>1, <1>3, LenProperties
<1> HIDE DEF new
<1> QED
  BY <1>1, <1>2, <1>3, <1>4 DEF old

LEMMA EmitOrdered ==
  ASSUME NEW lg \in Logs, NEW a \in Nat, Ordered(lg, a), NEW at \in Nat, a <= at,
         NEW T, NEW ev \in Milestones
  PROVE  Ordered(Emit(lg, T, ev, at), at)
<1> DEFINE lg2 == Emit(lg, T, ev, at)
<1>1. ASSUME NEW t \in Txn
      PROVE  /\ \A i, j \in DOMAIN lg2[t] : i < j => lg2[t][i].at <= lg2[t][j].at
             /\ \A i \in DOMAIN lg2[t] : lg2[t][i].at <= at
  <2> DEFINE old == lg[t]
  <2> DEFINE n == Len(old)
  <2>2. n \in Nat /\ DOMAIN old = 1..n /\ \A i \in 1..n : old[i].at \in Nat
    BY RecordTypes
  <2>3. /\ \A i, j \in 1..n : i < j => old[i].at <= old[j].at
        /\ \A i \in 1..n : old[i].at <= a
    BY <2>2 DEF Ordered
  <2>4. \A i \in 1..n : old[i].at <= at
    BY <2>2, <2>3
  <2>5. CASE t \notin T
    <3>1. lg2[t] = old
      BY <2>5, EmitRecords
    <3> QED
      BY <2>2, <2>3, <2>4, <3>1
  <2>6. CASE t \in T
    <3> DEFINE new == lg2[t]
    <3>1. /\ DOMAIN new = 1..(n + 1)
          /\ \A i \in 1..n : new[i] = old[i]
          /\ new[n + 1].at = at
      BY <2>6, EmitRecords
    <3> HIDE DEF new, old, n, lg2
    <3>2. \A i \in 1..(n + 1) : i \in 1..n \/ i = n + 1
      BY <2>2
    <3>3. \A i \in 1..n : new[i].at <= at
      BY <2>4, <3>1
    <3>4. \A i \in DOMAIN new : new[i].at <= at
      BY <3>1, <3>2, <3>3
    <3>5. ASSUME NEW i \in DOMAIN new, NEW j \in DOMAIN new, i < j
          PROVE  new[i].at <= new[j].at
      <4>1. i \in 1..n
        BY <2>2, <3>1, <3>5
      <4>2. CASE j \in 1..n
        BY <2>3, <3>1, <3>5, <4>1, <4>2
      <4>3. CASE j = n + 1
        BY <3>1, <3>3, <4>1, <4>3
      <4> QED
        BY <3>1, <3>2, <4>2, <4>3
    <3> QED
      BY <3>4, <3>5 DEF new
  <2> QED
    BY <2>5, <2>6
<1> QED
  BY <1>1 DEF Ordered

LEMMA OrderedLater ==
  ASSUME NEW lg \in Logs, NEW a \in Nat, Ordered(lg, a), NEW at \in Nat, a <= at
  PROVE  Ordered(lg, at)
<1>1. ASSUME NEW t \in Txn, NEW i \in DOMAIN lg[t]
      PROVE  lg[t][i].at <= at
  <2>1. lg[t][i].at \in Nat
    BY RecordTypes
  <2> QED
    BY <2>1 DEF Ordered
<1> QED
  BY <1>1 DEF Ordered

\* A latency is never negative.
LEMMA LatencyType ==
  ASSUME NEW lg \in Logs, NEW at, Ordered(lg, at)
  PROVE  \A t \in Txn : LatencyOf(lg)[t] \in Nat
<1>1. ASSUME NEW t \in Txn, lg[t] # <<>>
      PROVE  lg[t][Len(lg[t])].at - lg[t][1].at \in Nat
  <2> DEFINE s == lg[t]
  <2> DEFINE n == Len(s)
  <2>1. \A i, j \in DOMAIN s : i < j => s[i].at <= s[j].at
    BY DEF Ordered
  <2>2. /\ n \in Nat /\ n # 0 /\ DOMAIN s = 1..n
        /\ \A i, j \in DOMAIN s : i < j => s[i].at <= s[j].at
        /\ \A i \in DOMAIN s : s[i].at \in Nat
    BY <1>1, <2>1, RecordTypes
  <2> HIDE DEF n, s
  <2>3. 1 \in DOMAIN s /\ n \in DOMAIN s /\ (n = 1 \/ 1 < n)
    BY <2>2
  <2>4. s[1].at <= s[n].at /\ s[1].at \in Nat /\ s[n].at \in Nat
    BY <2>2, <2>3
  <2>5. s[n].at - s[1].at \in Nat
    BY <2>4
  <2> QED
    BY <2>5 DEF n, s
<1> QED
  BY <1>1 DEF LatencyOf

\* The latency of what is written off now counts from its arrival.
LEMMA EmitLatency ==
  ASSUME NEW lg \in Logs, NEW T, NEW ev \in Milestones, NEW at \in Nat, NEW t \in Txn, t \in T,
         lg[t] # <<>>, NEW lg2, lg2 = Emit(lg, T, ev, at)
  PROVE  LatencyOf(lg2)[t] = at - lg[t][1].at
<1> DEFINE n == Len(lg[t])
<1>1. lg[t] \in Seq(Record)
  BY DEF Logs
<1>2. n \in Nat /\ n # 0
  BY <1>1, EmptySeq, LenProperties
<1>3. /\ Len(lg2[t]) = n + 1
      /\ \A i \in 1..n : lg2[t][i] = lg[t][i]
      /\ lg2[t][n + 1].at = at
  BY EmitRecords
<1>4. lg2[t] # <<>>
  BY EmitLast
<1> HIDE DEF n
<1>5. lg2[t][1] = lg[t][1] /\ lg2[t][Len(lg2[t])].at = at
  BY <1>2, <1>3
<1> QED
  BY <1>4, <1>5 DEF LatencyOf

\* Counters of completed transactions, where nothing is completed.
LEMMA NothingCompleted ==
  ASSUME NEW l1, NEW l2, Completed(l2) = Completed(l1),
         \A t \in Completed(l1) : l2[t] = l1[t],
         NEW k1, NEW k2,
         \A c \in {"audio_lat_max", "audio_lat_sum", "weight_lat_max", "cpu_cycles",
                   "decompress_cycles", "sgl_entries"} : k2[c] = k1[c],
         LatenciesMatch(k1, LatencyOf(l1), Completed(l1)), CostsMatch(k1, Completed(l1))
  PROVE  LatenciesMatch(k2, LatencyOf(l2), Completed(l2)) /\ CostsMatch(k2, Completed(l2))
<1> DEFINE f == LatencyOf(l1)
<1> DEFINE g == LatencyOf(l2)
<1> DEFINE done == Completed(l1)
<1>1. \A t \in done : g[t] = f[t]
  BY DEF LatencyOf, Completed, Issued
<1>2. IsFiniteSet(AudioOf(done))
  BY SetsFinite DEF AudioOf
<1> HIDE DEF f, g
<1>3. /\ MaxOver(g, AudioOf(done)) = MaxOver(f, AudioOf(done))
      /\ MaxOver(g, WeightsOf(done)) = MaxOver(f, WeightsOf(done))
  BY <1>1, MaxOverSame DEF AudioOf, WeightsOf
<1>4. SumFunctionOnSet(g, AudioOf(done)) = SumFunctionOnSet(f, AudioOf(done))
  <2>1. \A t \in AudioOf(done) : g[t] = f[t]
    BY <1>1 DEF AudioOf
  <2> QED
    BY <1>2, <2>1, SumSame
<1> QED
  BY <1>3, <1>4 DEF LatenciesMatch, CostsMatch, f, g


-----------------------------------------------------------------------------
LEMMA CountDisjoint ==
  ASSUME NEW S \in SUBSET Txn, NEW D \in SUBSET Txn, S \cap D = {}
  PROVE  /\ Cardinality(S \cup D) = Cardinality(S) + Cardinality(D)
         /\ Cardinality(AudioOf(S \cup D)) = Cardinality(AudioOf(S)) + Cardinality(AudioOf(D))
<1>1. ASSUME NEW A \in SUBSET Txn, NEW B \in SUBSET Txn, A \cap B = {}
      PROVE  Cardinality(A \cup B) = Cardinality(A) + Cardinality(B)
  <2>1. IsFiniteSet(A) /\ IsFiniteSet(B)
    BY SetsFinite
  <2>2. Cardinality(A \cup B) = Cardinality(A) + Cardinality(B) - Cardinality(A \cap B)
    BY <2>1, FS_Union
  <2>3. Cardinality(A \cap B) = 0
    BY <1>1, FS_EmptySet
  <2> QED
    BY <2>2, <2>3, SetsFinite
<1>2. /\ AudioOf(S) \in SUBSET Txn /\ AudioOf(D) \in SUBSET Txn /\ AudioOf(S) \cap AudioOf(D) = {}
      /\ AudioOf(S \cup D) = AudioOf(S) \cup AudioOf(D)
  BY DEF AudioOf
<1> QED
  BY <1>1, <1>2

\* pick_next() and on_quantum_end() count what they drop.
LEMMA DropsMatch ==
  ASSUME NEW lg \in Logs, NEW D \in SUBSET Txn, \A t \in D : Alive(lg, t), NEW at \in Nat,
         NEW k \in Kpi, Matches(k, lg)
  PROVE  Matches(CountDrops(k, D), Emit(lg, D, "Drop", at))
<1> DEFINE l2 == Emit(lg, D, "Drop", at)
<1> DEFINE k2 == CountDrops(k, D)
<1>1. "Drop" \in Milestones
  BY DEF Milestones
<1>2. \A t \in Txn : /\ t \in D => l2[t] # <<>> /\ LastOf(l2, t) = "Drop"
                     /\ t \notin D => l2[t] = lg[t] /\ LastOf(l2, t) = LastOf(lg, t)
  BY <1>1, EmitLast DEF LastOf
<1> HIDE DEF l2
<1>3. /\ Issued(l2) = Issued(lg) /\ Completed(l2) = Completed(lg)
      /\ GivenUp(l2) = GivenUp(lg) \cup D /\ GivenUp(lg) \cap D = {}
      /\ \A t \in Completed(lg) : l2[t] = lg[t]
  <2>1. Issued(l2) = Issued(lg)
    BY <1>2 DEF Issued, Alive
  <2>2. /\ Completed(l2) = Completed(lg)
        /\ \A t \in Completed(lg) : l2[t] = lg[t]
    BY <1>2, <2>1 DEF Completed, Issued, Alive
  <2>3. GivenUp(l2) = GivenUp(lg) \cup D /\ GivenUp(lg) \cap D = {}
    BY <1>2, <2>1 DEF GivenUp, Issued, Alive
  <2> QED
    BY <2>1, <2>2, <2>3
<1>4. /\ k2["dropped"] = k["dropped"] + Cardinality(D)
      /\ k2["audio_dropped"] = k["audio_dropped"] + Cardinality(AudioOf(D))
      /\ \A c \in Counters \ {"dropped", "audio_dropped"} : k2[c] = k[c]
  BY DropCounters
<1>5. GivenUp(lg) \in SUBSET Txn
  BY SetsFinite
<1> HIDE DEF k2
<1>6. CountsMatch(k2, l2)
  BY <1>3, <1>4, <1>5, CountDisjoint DEF Matches, CountsMatch, Counters
<1>7. LatenciesMatch(k2, LatencyOf(l2), Completed(l2)) /\ CostsMatch(k2, Completed(l2))
  BY <1>3, <1>4, NothingCompleted DEF Matches, Counters
<1> QED
  BY <1>6, <1>7 DEF Matches, k2, l2

\* A first slice is announced and counted nowhere.
LEMMA StartsMatch ==
  ASSUME NEW lg \in Logs, NEW S, \A t \in S : Alive(lg, t), NEW at \in Nat,
         NEW k \in Kpi, Matches(k, lg)
  PROVE  Matches(k, Emit(lg, S, "ServiceStart", at))
<1> DEFINE l2 == Emit(lg, S, "ServiceStart", at)
<1>1. "ServiceStart" \in Milestones
  BY DEF Milestones
<1>2. \A t \in Txn : /\ t \in S => l2[t] # <<>> /\ LastOf(l2, t) = "ServiceStart"
                     /\ t \notin S => l2[t] = lg[t] /\ LastOf(l2, t) = LastOf(lg, t)
  BY <1>1, EmitLast DEF LastOf
<1> HIDE DEF l2
<1>3. /\ Issued(l2) = Issued(lg) /\ Completed(l2) = Completed(lg) /\ GivenUp(l2) = GivenUp(lg)
      /\ \A t \in Completed(lg) : l2[t] = lg[t]
  <2>1. Issued(l2) = Issued(lg)
    BY <1>2 DEF Issued, Alive
  <2>2. /\ Completed(l2) = Completed(lg)
        /\ \A t \in Completed(lg) : l2[t] = lg[t]
    BY <1>2, <2>1 DEF Completed, Issued, Alive
  <2>3. GivenUp(l2) = GivenUp(lg)
    BY <1>2, <2>1 DEF GivenUp, Issued, Alive
  <2> QED
    BY <2>1, <2>2, <2>3
<1>4. LatenciesMatch(k, LatencyOf(l2), Completed(l2)) /\ CostsMatch(k, Completed(l2))
  BY <1>3, NothingCompleted DEF Matches
<1> QED
  BY <1>3, <1>4 DEF Matches, CountsMatch, l2

\* accept() counts what it announces.
LEMMA IssueMatches ==
  ASSUME NEW lg \in Logs, NEW t \in Txn, lg[t] = <<>>, NEW at \in Nat, NEW k \in Kpi, Matches(k, lg)
  PROVE  Matches(Bump(k, "issued", 1), Emit(lg, {t}, "Arrive", at))
<1> DEFINE l2 == Emit(lg, {t}, "Arrive", at)
<1> DEFINE k2 == Bump(k, "issued", 1)
<1>1. "Arrive" \in Milestones
  BY DEF Milestones
<1>2. \A u \in Txn : /\ u \in {t} => l2[u] # <<>> /\ LastOf(l2, u) = "Arrive"
                     /\ u \notin {t} => l2[u] = lg[u] /\ LastOf(l2, u) = LastOf(lg, u)
  BY <1>1, EmitLast DEF LastOf
<1> HIDE DEF l2
<1>3. /\ Issued(l2) = Issued(lg) \cup {t} /\ t \notin Issued(lg)
      /\ Completed(l2) = Completed(lg) /\ GivenUp(l2) = GivenUp(lg)
      /\ \A u \in Completed(lg) : l2[u] = lg[u]
  <2>1. Issued(l2) = Issued(lg) \cup {t} /\ t \notin Issued(lg)
    BY <1>2 DEF Issued
  <2>2. /\ Completed(l2) = Completed(lg)
        /\ \A u \in Completed(lg) : l2[u] = lg[u]
    BY <1>2, <2>1 DEF Completed, Issued
  <2>3. GivenUp(l2) = GivenUp(lg)
    BY <1>2, <2>1 DEF GivenUp, Issued
  <2> QED
    BY <2>1, <2>2, <2>3
<1>4. k2["issued"] = k["issued"] + 1 /\ \A c \in Counters \ {"issued"} : k2[c] = k[c]
  BY IssueCounters
<1> HIDE DEF k2
<1>5. Cardinality(Issued(l2)) = Cardinality(Issued(lg)) + 1
  BY <1>3, SetsFinite, FS_AddElement
<1>6. CountsMatch(k2, l2)
  BY <1>3, <1>4, <1>5 DEF Matches, CountsMatch, Counters
<1>7. LatenciesMatch(k2, LatencyOf(l2), Completed(l2)) /\ CostsMatch(k2, Completed(l2))
  BY <1>3, <1>4, NothingCompleted DEF Matches, Counters
<1> QED
  BY <1>6, <1>7 DEF Matches, k2, l2

\* on_quantum_end() counts what it completes: once, with its cost and its latency.
LEMMA CompletionMatches ==
  ASSUME NEW lg \in Logs, NEW t \in Txn, Alive(lg, t), NEW a, a \in Nat, Ordered(lg, a),
         NEW at \in Nat, a <= at, NEW k \in Kpi, Matches(k, lg)
  PROVE  Matches(CountCompletion(k, t, at - lg[t][1].at), Emit(lg, {t}, "Complete", at))
<1> DEFINE l2 == Emit(lg, {t}, "Complete", at)
<1> DEFINE l == at - lg[t][1].at
<1> DEFINE done == Completed(lg)
<1> DEFINE f == LatencyOf(lg)
<1> DEFINE g == LatencyOf(l2)
<1> DEFINE k1 == CountCosts(k, t)
<1> DEFINE k2 == CountCompletion(k, t, l)
<1>1. "Complete" \in Milestones
  BY DEF Milestones
<1>2. \A u \in Txn : /\ u \in {t} => l2[u] # <<>> /\ LastOf(l2, u) = "Complete"
                     /\ u \notin {t} => l2[u] = lg[u] /\ LastOf(l2, u) = LastOf(lg, u)
  BY <1>1, EmitLast DEF LastOf
<1>3. g[t] = l
  BY <1>1, EmitLatency DEF Alive
<1>4. l2 \in Logs /\ Ordered(l2, at)
  BY <1>1, EmitType, EmitOrdered
<1>5. \A u \in Txn : g[u] \in Nat
  BY <1>4, LatencyType
<1> HIDE DEF l2
<1>6. /\ Issued(l2) = Issued(lg) /\ GivenUp(l2) = GivenUp(lg)
      /\ Completed(l2) = done \cup {t} /\ t \notin done
      /\ \A u \in done : l2[u] = lg[u]
  <2>1. Issued(l2) = Issued(lg)
    BY <1>2 DEF Issued, Alive
  <2>2. /\ Completed(l2) = done \cup {t} /\ t \notin done
        /\ \A u \in done : l2[u] = lg[u]
    BY <1>2, <2>1 DEF Completed, Issued, Alive
  <2>3. GivenUp(l2) = GivenUp(lg)
    BY <1>2, <2>1 DEF GivenUp, Issued, Alive
  <2> QED
    BY <2>1, <2>2, <2>3
<1>7. \A u \in done : f[u] = g[u]
  BY <1>6 DEF LatencyOf, Completed, Issued
<1>8. done \in SUBSET Txn /\ IsFiniteSet(done) /\ Cardinality(done) \in Nat
  BY SetsFinite
<1> HIDE DEF done, f, g, l
<1>9. l \in Nat
  BY <1>3, <1>5
<1>10. /\ k1 \in Kpi
       /\ k1["completed"] = k["completed"] + 1
       /\ k1["cpu_cycles"] = k["cpu_cycles"] + Cpu[t]
       /\ k1["decompress_cycles"] = k["decompress_cycles"] + Unpack[t]
       /\ k1["sgl_entries"] = k["sgl_entries"] + Sgl[t]
       /\ \A c \in Counters \ CostCounters : k1[c] = k[c]
  BY CostCountersAre
<1>11. /\ IsAudio(t) =>
            /\ k2["audio_completed"] = k1["audio_completed"] + 1
            /\ k2["audio_lat_max"] = Larger(k1["audio_lat_max"], l)
            /\ k2["audio_lat_sum"] = k1["audio_lat_sum"] + l
            /\ k2["weight_lat_max"] = k1["weight_lat_max"]
       /\ ~IsAudio(t) => \A c \in LatencyCounters \ {"weight_lat_max"} : k2[c] = k1[c]
       /\ Tx[t].source = "weight" => k2["weight_lat_max"] = Larger(k1["weight_lat_max"], l)
       /\ ~IsAudio(t) /\ Tx[t].source # "weight" => k2["weight_lat_max"] = k1["weight_lat_max"]
       /\ \A c \in Counters \ LatencyCounters : k2[c] = k1[c]
  <2>1. k2 = CountLatency(k1, t, l)
    BY DEF CountCompletion
  <2> HIDE DEF k1, k2
  <2> QED
    BY <1>9, <1>10, <2>1, LatencyCountersAre
<1> HIDE DEF k1, k2
<1>12. CostsMatch(k2, Completed(l2))
  <2>1. ASSUME NEW c, \A u \in Txn : c[u] \in Nat
        PROVE  SumFunctionOnSet(c, done \cup {t}) = SumFunctionOnSet(c, done) + c[t]
    <3>1. \A u \in done \cup {t} : c[u] \in Int
      BY <1>8, <2>1
    <3> QED
      BY <1>6, <1>8, <3>1, SumAdd
  <2>2. /\ SumFunctionOnSet(Cpu, done \cup {t}) = SumFunctionOnSet(Cpu, done) + Cpu[t]
        /\ SumFunctionOnSet(Unpack, done \cup {t}) = SumFunctionOnSet(Unpack, done) + Unpack[t]
        /\ SumFunctionOnSet(Sgl, done \cup {t}) = SumFunctionOnSet(Sgl, done) + Sgl[t]
    BY <2>1, CostTypes
  <2>3. CostsMatch(k, done)
    BY DEF Matches, done
  <2> QED
    BY <1>6, <1>10, <1>11, <2>2, <2>3 DEF CostsMatch, Counters, LatencyCounters
<1>13. LatenciesMatch(k, f, done)
  BY DEF Matches, done, f
<1>14. LatenciesMatch(k2, g, done \cup {t})
  <2>1. AudioOf(done) \in SUBSET Txn /\ WeightsOf(done) \in SUBSET Txn
    BY <1>8 DEF AudioOf, WeightsOf
  <2>2. IsFiniteSet(AudioOf(done)) /\ IsFiniteSet(WeightsOf(done))
    BY <2>1, SetsFinite
  <2>3. MaxOver(f, WeightsOf(done)) = MaxOver(g, WeightsOf(done))
    BY <1>7, MaxOverSame DEF WeightsOf
  <2>4. MaxOver(f, AudioOf(done)) = MaxOver(g, AudioOf(done))
    BY <1>7, MaxOverSame DEF AudioOf
  <2>5. SumFunctionOnSet(f, AudioOf(done)) = SumFunctionOnSet(g, AudioOf(done))
    <3>1. \A u \in AudioOf(done) : f[u] = g[u]
      BY <1>7 DEF AudioOf
    <3> QED
      BY <2>2, <3>1, SumSame
  <2>6. CASE IsAudio(t)
    <3>1. AudioOf(done \cup {t}) = AudioOf(done) \cup {t} /\ t \notin AudioOf(done)
      BY <1>6, <2>6 DEF AudioOf
    <3>2. WeightsOf(done \cup {t}) = WeightsOf(done)
      BY <2>6 DEF WeightsOf, IsAudio
    <3>3. \A u \in AudioOf(done) \cup {t} : g[u] \in Nat /\ g[u] \in Int
      BY <1>5, <2>1
    <3>4. SumFunctionOnSet(g, AudioOf(done) \cup {t}) = SumFunctionOnSet(g, AudioOf(done)) + l
      BY <1>3, <2>2, <3>1, <3>3, SumAdd
    <3>5. MaxOver(g, AudioOf(done) \cup {t}) = Larger(MaxOver(g, AudioOf(done)), l)
      <4>1. \A u \in AudioOf(done) : g[u] = g[u]
        OBVIOUS
      <4> QED
        BY <1>3, <2>2, <3>3, <4>1, MaxOverAdd
    <3> QED
      BY <1>10, <1>11, <1>13, <2>3, <2>4, <2>5, <2>6, <3>1, <3>2, <3>4, <3>5
         DEF LatenciesMatch, Counters, CostCounters
  <2>7. CASE Tx[t].source = "weight"
    <3>1. AudioOf(done \cup {t}) = AudioOf(done) /\ ~IsAudio(t)
      BY <2>7 DEF AudioOf, IsAudio
    <3>2. WeightsOf(done \cup {t}) = WeightsOf(done) \cup {t}
      BY <2>7 DEF WeightsOf
    <3>3. \A u \in WeightsOf(done) \cup {t} : g[u] \in Nat
      BY <1>5, <2>1
    <3>4. MaxOver(g, WeightsOf(done) \cup {t}) = Larger(MaxOver(g, WeightsOf(done)), l)
      <4>1. \A u \in WeightsOf(done) : g[u] = g[u]
        OBVIOUS
      <4> QED
        BY <1>3, <2>2, <3>3, <4>1, MaxOverAdd
    <3> QED
      BY <1>10, <1>11, <1>13, <2>3, <2>4, <2>5, <2>7, <3>1, <3>2, <3>4
         DEF LatenciesMatch, Counters, CostCounters, LatencyCounters
  <2>8. CASE ~IsAudio(t) /\ Tx[t].source # "weight"
    <3>1. AudioOf(done \cup {t}) = AudioOf(done) /\ WeightsOf(done \cup {t}) = WeightsOf(done)
      BY <2>8 DEF AudioOf, WeightsOf
    <3> QED
      BY <1>10, <1>11, <1>13, <2>3, <2>4, <2>5, <2>8, <3>1
         DEF LatenciesMatch, Counters, CostCounters, LatencyCounters
  <2> QED
    BY <2>6, <2>7, <2>8
<1>15. CountsMatch(k2, l2)
  <2>1. {t} \in SUBSET Txn /\ done \cap {t} = {}
    BY <1>6
  <2>2. /\ Cardinality(done \cup {t}) = Cardinality(done) + Cardinality({t})
        /\ Cardinality(AudioOf(done \cup {t})) = Cardinality(AudioOf(done)) + Cardinality(AudioOf({t}))
    BY <1>8, <2>1, CountDisjoint
  <2>3. /\ Cardinality({t}) = 1
        /\ Cardinality(AudioOf({t})) = IF IsAudio(t) THEN 1 ELSE 0
    <3>1. AudioOf({t}) = IF IsAudio(t) THEN {t} ELSE {}
      BY DEF AudioOf
    <3> QED
      BY <3>1, FS_Singleton, FS_EmptySet
  <2>4. /\ Cardinality(AudioOf(done)) \in Nat
    BY <1>8, SetsFinite DEF AudioOf
  <2>5. CountsMatch(k, lg)
    BY DEF Matches
  <2>6. k2["audio_completed"] = k["audio_completed"] + (IF IsAudio(t) THEN 1 ELSE 0)
    <3>1. k1["audio_completed"] = k["audio_completed"] /\ k["audio_completed"] \in Nat
      BY <1>10 DEF Counters, CostCounters, Kpi
    <3> QED
      BY <1>11, <3>1 DEF LatencyCounters
  <2>7. /\ k2["completed"] = k["completed"] + 1
        /\ k2["issued"] = k["issued"] /\ k2["dropped"] = k["dropped"]
        /\ k2["audio_dropped"] = k["audio_dropped"]
    BY <1>10, <1>11 DEF Counters, CostCounters, LatencyCounters
  <2> QED
    BY <1>6, <2>2, <2>3, <2>4, <2>5, <2>6, <2>7 DEF CountsMatch, done
<1> QED
  BY <1>6, <1>12, <1>14, <1>15 DEF Matches, k2, l2, l, g, done


-----------------------------------------------------------------------------
(***************************************************************************)
(* A step of either policy, as far as the bus, the trace and the counters  *)
(* go: a half-step and what start_service_if_idle() makes of it.           *)
(***************************************************************************)

\* What comes on the bus was waiting, and its slice starts now.
Launches(h) ==
  \A e \in ends' : \E p \in Pending :
    /\ Alive(h.log, p.tx) /\ Agrees(p, h.log, h.served)
    /\ e.pending = Marked(p)
    /\ e.at = h.at + ServiceUs(p)
    /\ log'[p.tx] = IF p.service_started THEN h.log[p.tx]
                    ELSE Append(h.log[p.tx], [ev |-> "ServiceStart", at |-> h.at])

Went(h) ==
  /\ Keep(h)
  /\ \/ (\E D \in SUBSET Txn : GoesOn(h, D)) /\ Launches(h)
     \/ KeepServing(h) /\ h.ends = ends

StepIs ==
  \/ \E t \in Txn, at \in Nat : /\ log[t] = <<>> /\ now <= at
                                /\ Went(Accepted(t, at))
  \/ \E e \in ends : Went(Ended(e))

\* What the proofs below need of the objects on the bus.
BusHeld ==
  /\ Untouched(log, served)
  /\ \A e \in ends : /\ Alive(log, e.pending.tx)
                     /\ e.pending.service_started
                     /\ Agrees(e.pending, log, served)

LEMMA MovesLaunch ==
  ASSUME NEW h, NEW Q, NEW Q2, Moves(h, Q, Q2), Held(Q, {}, h.log, h.served),
         \A p \in Q : Alive(h.log, p.tx)
  PROVE  Launches(h)
BY DEF Moves, Held, Launches

LEMMA HalfKpi ==
  ASSUME NEW E, BusInv(E), Ordered(log, now), Matches(kpi, log)
  PROVE  /\ \A t \in Txn, at \in Nat :
              log[t] = <<>> /\ now <= at =>
                /\ Ordered(Accepted(t, at).log, Accepted(t, at).at)
                /\ Matches(Accepted(t, at).kpi, Accepted(t, at).log)
         /\ \A e \in ends :
              Alive(log, e.pending.tx) =>
                /\ Ordered(Ended(e).log, Ended(e).at)
                /\ Matches(Ended(e).kpi, Ended(e).log)
<1>1. /\ log \in Logs /\ kpi \in Kpi /\ now \in Nat /\ ends \in SUBSET QuantumEvent
      /\ \A e \in ends : e.at >= now
  BY DEF BusInv, BusTypeOK, Logs, OneTransferAtATime
<1>2. "Arrive" \in Milestones /\ "Complete" \in Milestones /\ "Drop" \in Milestones
  BY DEF Milestones
<1>3. ASSUME NEW t \in Txn, NEW at \in Nat, log[t] = <<>>, now <= at
      PROVE  /\ Ordered(Accepted(t, at).log, Accepted(t, at).at)
             /\ Matches(Accepted(t, at).kpi, Accepted(t, at).log)
  <2> DEFINE lg == Emit(log, {t}, "Arrive", at)
  <2> DEFINE k == Bump(kpi, "issued", 1)
  <2>1. /\ Accepted(t, at).at = at /\ Accepted(t, at).log = lg
        /\ Accepted(t, at).kpi = k
    BY DEF Accepted, Half
  <2>2. Ordered(lg, at)
    BY <1>1, <1>2, <1>3, EmitOrdered
  <2>3. Matches(k, lg)
    BY <1>1, <1>3, IssueMatches
  <2> HIDE DEF lg, k
  <2> QED
    BY <2>1, <2>2, <2>3
<1>4. ASSUME NEW e \in ends, Alive(log, e.pending.tx)
      PROVE  /\ Ordered(Ended(e).log, Ended(e).at)
             /\ Matches(Ended(e).kpi, Ended(e).log)
  <2> DEFINE p == ServedOnce(e.pending)
  <2> DEFINE t == e.pending.tx
  <2>1. e.pending \in Pending /\ e.at \in Nat /\ now <= e.at
    BY <1>1 DEF QuantumEvent
  <2>2. p.tx = t /\ t \in Txn
    BY <2>1, ServedOnceType DEF Pending
  <2> DEFINE done == Emit(log, {t}, "Complete", e.at)
  <2> DEFINE drop == Emit(log, {t}, "Drop", e.at)
  <2> DEFINE kdone == CountCompletion(kpi, t, e.at - log[t][1].at)
  <2> DEFINE kdrop == CountDrops(kpi, {t})
  <2>3. /\ Ended(e).at = e.at
        /\ \/ Ended(e).log = done /\ Ended(e).kpi = kdone
           \/ Ended(e).log = drop /\ Ended(e).kpi = kdrop
           \/ Ended(e).log = log /\ Ended(e).kpi = kpi
    BY <2>2 DEF Ended, Half, IssuedAt
  <2>4. Ordered(done, e.at) /\ Ordered(drop, e.at)
    BY <1>1, <1>2, <2>1, EmitOrdered
  <2>5. Ordered(log, e.at)
    BY <1>1, <2>1, OrderedLater
  <2>6. Matches(kdone, done)
    BY <1>1, <1>4, <2>1, <2>2, CompletionMatches
  <2>7. Matches(kdrop, drop)
    <3> DEFINE D == {t}
    <3>1. D \in SUBSET Txn /\ \A u \in D : Alive(log, u)
      BY <1>4, <2>2
    <3> HIDE DEF D
    <3>2. Matches(CountDrops(kpi, D), Emit(log, D, "Drop", e.at))
      BY <1>1, <2>1, <3>1, DropsMatch
    <3> QED
      BY <3>2 DEF D
  <2> HIDE DEF done, drop, kdone, kdrop
  <2> QED
    BY <2>3, <2>4, <2>5, <2>6, <2>7
<1> QED
  BY <1>3, <1>4

LEMMA WritesKpi ==
  ASSUME NEW h, h.log \in Logs, h.at \in Nat, h.kpi \in Kpi, NEW D \in SUBSET Txn, Writes(h, D),
         Matches(h.kpi, h.log), Ordered(h.log, h.at)
  PROVE  Matches(kpi', log') /\ Ordered(log', h.at)
<1> DEFINE lg == Emit(h.log, D, "Drop", h.at)
<1>1. "Drop" \in Milestones /\ "ServiceStart" \in Milestones
  BY DEF Milestones
<1>2. PICK S0 \in SUBSET (Txn \ D) :
        /\ \A t \in S0 : Alive(h.log, t)
        /\ log' = Emit(lg, S0, "ServiceStart", h.at)
  BY DEF Writes
<1>3. kpi' = CountDrops(h.kpi, D) /\ \A t \in D : Alive(h.log, t)
  BY DEF Writes
<1>4. lg \in Logs
  BY <1>1, EmitType
<1>4a. Ordered(lg, h.at)
  BY <1>1, EmitOrdered
<1>5. \A t \in Txn : t \notin D => lg[t] = h.log[t]
  BY <1>1, EmitLast
<1>6. Matches(kpi', lg) /\ kpi' \in Kpi
  BY <1>3, DropsMatch, CountDropsType
<1> HIDE DEF lg
<1>7. \A t \in S0 : Alive(lg, t)
  BY <1>2, <1>5 DEF Alive, LastOf
<1>8. Matches(kpi', log')
  BY <1>2, <1>4, <1>6, <1>7, StartsMatch
<1>9. Ordered(log', h.at)
  BY <1>1, <1>2, <1>4, <1>4a, EmitOrdered
<1> QED
  BY <1>8, <1>9

\* The half-step of a step, with the part of the invariant of the bus it keeps.
LEMMA StepHalf ==
  ASSUME NEW E, BusInv(E), StepIs
  PROVE  \E h : /\ HalfInv(h, E) /\ Went(h)
                /\ \/ \E t \in Txn, at \in Nat : /\ h = Accepted(t, at)
                                                 /\ log[t] = <<>> /\ now <= at
                   \/ \E e \in ends : h = Ended(e)
<1>1. CASE \E t \in Txn, at \in Nat : log[t] = <<>> /\ now <= at /\ Went(Accepted(t, at))
  <2>1. PICK t \in Txn, at \in Nat : log[t] = <<>> /\ now <= at /\ Went(Accepted(t, at))
    BY <1>1
  <2>2. HalfInv(Accepted(t, at), E)
    <3>1. at >= now
      BY <2>1 DEF BusInv, BusTypeOK
    <3> QED
      BY <2>1, <3>1, AcceptedHalf
  <2> QED
    BY <2>1, <2>2
<1>2. CASE \E e \in ends : Went(Ended(e))
  BY <1>2, EndedHalf
<1> QED
  BY <1>1, <1>2 DEF StepIs

\* A half-step is written down: the transactions it brings into the trace are its own.
LEMMA WentWrites ==
  ASSUME NEW h, h.log \in Logs, h.at \in Nat, Went(h)
  PROVE  Continues(h.log, log') /\ \A u \in Txn : log'[u] # <<>> => h.log[u] # <<>>
<1>1. CASE \E D \in SUBSET Txn : Writes(h, D)
  <2>1. PICK D \in SUBSET Txn : Writes(h, D)
    BY <1>1
  <2> DEFINE lg == Emit(h.log, D, "Drop", h.at)
  <2>2. PICK S0 \in SUBSET (Txn \ D) :
          /\ \A t \in S0 : Alive(h.log, t)
          /\ log' = Emit(lg, S0, "ServiceStart", h.at)
    BY <2>1 DEF Writes
  <2>3. "Drop" \in Milestones /\ "ServiceStart" \in Milestones
    BY DEF Milestones
  <2>4. lg \in Logs /\ Continues(h.log, lg)
    BY <2>3, EmitType
  <2>5. \A u \in Txn \ D : lg[u] = h.log[u]
    BY DEF Emit
  <2> HIDE DEF lg
  <2>6. log' \in Logs /\ Continues(lg, log')
    BY <2>2, <2>3, <2>4, EmitType
  <2>7. \A u \in Txn \ S0 : log'[u] = lg[u]
    BY <2>2 DEF Emit
  <2>8. \A u \in D \cup S0 : h.log[u] # <<>>
    BY <2>1, <2>2 DEF Writes, Alive
  <2> QED
    BY <2>4, <2>5, <2>6, <2>7, <2>8, ContinuesTransitive
<1>2. CASE KeepServing(h)
  BY <1>2 DEF KeepServing, Continues
<1> QED
  BY <1>1, <1>2 DEF Went, GoesOn

LEMMA IssueWrites ==
  ASSUME NEW E, BusInv(E), NEW t \in Txn, NEW at \in Nat, log[t] = <<>>, at >= now,
         Went(Accepted(t, at))
  PROVE  /\ now' = at
         /\ log'[t] # <<>> /\ log'[t][1].at = at
         /\ \A u \in Txn \ {t} : /\ (log'[u] # <<>> <=> log[u] # <<>>)
                                /\ (log[u] # <<>> => log'[u][1] = log[u][1])
<1> DEFINE h == Accepted(t, at)
<1>1. HalfInv(h, E)
  BY AcceptedHalf
<1>2. h.at = at /\ h.log = Emit(log, {t}, "Arrive", at)
  BY DEF Accepted, Half
<1>3. log \in Logs /\ "Arrive" \in Milestones
  BY DEF BusInv, BusTypeOK, Logs, Milestones
<1>4. Went(h)
  OBVIOUS
<1> HIDE DEF h
<1>5. h.log \in Logs /\ Continues(log, h.log) /\ h.at \in Nat
  BY <1>1 DEF HalfInv, HalfStep
<1>6. h.log[t] # <<>> /\ h.log[t][1].at = at
  BY <1>2, <1>3, EmitFirst
<1>7. \A u \in Txn \ {t} : h.log[u] = log[u]
  BY <1>2 DEF Emit
<1>8. Continues(h.log, log') /\ \A u \in Txn : log'[u] # <<>> => h.log[u] # <<>>
  BY <1>4, <1>5, WentWrites
<1>9. now' = at
  BY <1>2, <1>4 DEF Went, Keep
<1> QED
  BY <1>6, <1>7, <1>8, <1>9 DEF Continues

LEMMA EndWrites ==
  ASSUME NEW E, BusInv(E), \E e \in ends : Went(Ended(e))
  PROVE  /\ \E e \in ends : now' = e.at
         /\ \A u \in Txn : /\ (log'[u] # <<>> <=> log[u] # <<>>)
                          /\ (log[u] # <<>> => log'[u][1] = log[u][1])
<1>1. PICK e \in ends : Went(Ended(e))
  OBVIOUS
<1> DEFINE h == Ended(e)
<1> DEFINE t == ServedOnce(e.pending).tx
<1>2. HalfInv(h, E)
  BY EndedHalf
<1>3. h.at = e.at /\ \A u \in Txn \ {t} : h.log[u] = log[u]
  BY DEF Ended, Half, Emit
<1>4. t = e.pending.tx /\ log[t] # <<>>
  BY ServedOnceType DEF BusInv, BusTypeOK, QuantumEvent, Known
<1> HIDE DEF h, t
<1>5. h.log \in Logs /\ Continues(log, h.log) /\ h.at \in Nat
  BY <1>2 DEF HalfInv, HalfStep
<1>6. Went(h)
  BY <1>1 DEF h
<1>7. Continues(h.log, log') /\ \A u \in Txn : log'[u] # <<>> => h.log[u] # <<>>
  BY <1>5, <1>6, WentWrites
<1>8. now' = e.at
  BY <1>3, <1>6 DEF Went, Keep
<1> QED
  BY <1>3, <1>4, <1>5, <1>7, <1>8 DEF Continues

LEMMA KpiStep ==
  ASSUME NEW E, BusInv(E), BusHeld, Ordered(log, now), Matches(kpi, log), StepIs
  PROVE  Ordered(log', now') /\ Matches(kpi', log')
<1>1. PICK h : /\ HalfInv(h, E) /\ Went(h)
               /\ \/ \E t \in Txn, at \in Nat : /\ h = Accepted(t, at)
                                                /\ log[t] = <<>> /\ now <= at
                  \/ \E e \in ends : h = Ended(e)
  BY StepHalf
<1>2. h.log \in Logs /\ h.at \in Nat /\ h.kpi \in Kpi /\ now' = h.at
  BY <1>1 DEF HalfInv, HalfStep, Went, Keep
<1>3. Ordered(h.log, h.at) /\ Matches(h.kpi, h.log)
  BY <1>1, HalfKpi DEF BusHeld
<1>4. CASE \E D \in SUBSET Txn : GoesOn(h, D)
  BY <1>2, <1>3, <1>4, WritesKpi DEF GoesOn
<1>5. CASE KeepServing(h)
  BY <1>2, <1>3, <1>5 DEF KeepServing
<1> QED
  BY <1>1, <1>4, <1>5 DEF Went


-----------------------------------------------------------------------------
(***************************************************************************)
(* The whole trace of a transaction: its records, the quanta it was given  *)
(* and the time they took.                                                 *)
(***************************************************************************)
LEMMA DivIs ==
  ASSUME NEW a \in Nat, NEW b \in Nat \ {0}
  PROVE  a \div b \in Nat /\ b * (a \div b) <= a /\ a < b * (a \div b + 1)
OBVIOUS

LEMMA TimesMonotone ==
  ASSUME NEW b \in Nat \ {0}, NEW x \in Nat, NEW y \in Nat, x <= y
  PROVE  b * x <= b * y
OBVIOUS

LEMMA DivUnique ==
  ASSUME NEW a \in Nat, NEW b \in Nat \ {0}, NEW k \in Nat, b * k <= a, a < b * (k + 1)
  PROVE  a \div b = k
<1> DEFINE q == a \div b
<1>1. q \in Nat /\ b * q <= a /\ a < b * (q + 1)
  BY DivIs
<1> HIDE DEF q
<1>2. ~(q < k)
  <2>1. q < k => b * (q + 1) <= b * k
    BY <1>1, TimesMonotone
  <2>2. b * (q + 1) \in Nat /\ b * k \in Nat
    BY <1>1
  <2> QED
    BY <1>1, <2>1, <2>2
<1>3. ~(k < q)
  <2>1. k < q => b * (k + 1) <= b * q
    BY <1>1, TimesMonotone
  <2>2. b * (k + 1) \in Nat /\ b * q \in Nat
    BY <1>1
  <2> QED
    BY <1>1, <2>1, <2>2
<1> QED
  BY <1>1, <1>2, <1>3 DEF q

\* The records of t make one of the shapes of TraceWellFormed.
Shape(lg, t) ==
  /\ Len(lg[t]) \in 0..3
  /\ Len(lg[t]) >= 1 => lg[t][1].ev = "Arrive"
  /\ Len(lg[t]) = 2 => lg[t][2].ev \in {"Drop", "ServiceStart"}
  /\ Len(lg[t]) = 3 => lg[t][2].ev = "ServiceStart" /\ lg[t][3].ev \in {"Drop", "Complete"}

InService(lg, t) == Len(lg[t]) = 2 /\ lg[t][2].ev = "ServiceStart"

\* t was served k full quanta since it came on the bus, and has had the time for them.
Progress(t, lg, sv, at) ==
  \E k \in Nat : /\ sv[t] = QuantumBytes(t) * k
                 /\ k = 0 \/ sv[t] < Tx[t].size_bytes
                 /\ lg[t][2].at + QuantumUs(t) * k <= at

Paid(t, lg, sv) ==
  /\ sv[t] = Tx[t].size_bytes
  /\ lg[t][3].at - lg[t][2].at >= ServiceTime(t)

Told(lg, sv, at) ==
  \A t \in Txn : /\ Shape(lg, t)
                 /\ InService(lg, t) => Progress(t, lg, sv, at)
                 /\ Len(lg[t]) = 3 /\ lg[t][3].ev = "Complete" => Paid(t, lg, sv)

\* The slices on the bus started when the ones before them were over.
OnSlice(es, lg, sv) ==
  \A e \in es : Progress(e.pending.tx, lg, sv, e.at - ServiceUs(e.pending))

LEMMA QuantaType ==
  ASSUME NEW t \in Txn
  PROVE  /\ QuantumBytes(t) \in Nat \ {0} /\ QuantumUs(t) \in Nat \ {0}
         /\ Bandwidth(t) \in Nat \ {0} /\ Tx[t].size_bytes \in Nat
<1>1. Bandwidth(t) \in Nat \ {0} /\ QuantumUs(t) \in Nat \ {0} /\ Tx[t].size_bytes \in Nat
  BY ServiceAssumption, TxnAssumption
<1>2. \A x, y \in Nat \ {0} : x * y \in Nat \ {0}
  OBVIOUS
<1> QED
  BY <1>1, <1>2 DEF QuantumBytes

\* The service time of a transaction is that of its full quanta and of what is left.
LEMMA LastSliceTime ==
  ASSUME NEW t \in Txn, NEW k \in Nat, NEW rest \in Nat,
         rest + QuantumBytes(t) * k = Tx[t].size_bytes,
         k = 0 \/ rest > 0, rest <= QuantumBytes(t)
  PROVE  ServiceTime(t) <= QuantumUs(t) * k + Larger(rest \div Bandwidth(t), 1)
<1> DEFINE b == QuantumBytes(t)
<1> DEFINE u == QuantumUs(t)
<1> DEFINE size == Tx[t].size_bytes
<1>1. b \in Nat \ {0} /\ u \in Nat \ {0} /\ size \in Nat /\ Bandwidth(t) \in Nat \ {0}
  BY QuantaType
<1> DEFINE last == Larger(rest \div Bandwidth(t), 1)
<1>2. last \in Nat /\ last >= 1
  BY <1>1, DivIs DEF Larger
<1>3. b * k \in Nat /\ u * k \in Nat /\ rest + b * k = size /\ b * (k + 1) = b * k + b
  <2>1. rest + b * k = size
    OBVIOUS
  <2> HIDE DEF b, u, size
  <2>2. b * k \in Nat /\ u * k \in Nat
    BY <1>1
  <2>3. b * (k + 1) = b * k + b
    BY <1>1
  <2> QED
    BY <2>1, <2>2, <2>3
<1>4. CASE size = 0
  <2>1. ServiceTime(t) = 1
    BY <1>4 DEF ServiceTime
  <2> HIDE DEF b, u, size, last
  <2> QED
    BY <1>2, <1>3, <2>1 DEF last, u
<1>5. CASE size # 0
  <2> DEFINE full == FullSlices(t)
  <2>1. full = k
    <3>1. size - 1 \in Nat /\ b * k <= size - 1 /\ size - 1 < b * (k + 1)
      <4> HIDE DEF b, u, size, last
      <4>1. rest > 0
        <5>1. CASE k = 0
          <6>1. b * k = 0
            BY <1>1, <5>1
          <6> QED
            BY <1>3, <1>5, <6>1
        <5> QED
          BY <5>1
      <4>2. rest <= b
        BY DEF b
      <4> QED
        BY <1>1, <1>3, <4>1, <4>2
    <3>2. (size - 1) \div b = k
      BY <1>1, <3>1, DivUnique
    <3> QED
      BY <3>2 DEF FullSlices
  <2>2. ServiceTime(t) = full * u + Larger((size - full * b) \div Bandwidth(t), 1)
    BY <1>5 DEF ServiceTime
  <2> HIDE DEF full
  <2>3. full * u = u * k /\ size - full * b = rest
    <3> HIDE DEF b, u, size
    <3> QED
      BY <1>1, <1>3, <2>1
  <2>4. ServiceTime(t) = u * k + last
    BY <2>2, <2>3
  <2> HIDE DEF b, u, size, last
  <2>5. ServiceTime(t) <= u * k + last
    BY <1>2, <1>3, <2>4
  <2> QED
    BY <2>5 DEF u, last
<1> QED
  BY <1>4, <1>5


LEMMA AliveShape ==
  ASSUME NEW lg \in Logs, NEW t \in Txn, Shape(lg, t), Alive(lg, t)
  PROVE  Len(lg[t]) = 1 \/ InService(lg, t)
<1> DEFINE m == Len(lg[t])
<1>1. m \in 0..3 /\ m # 0 /\ LastOf(lg, t) = lg[t][m].ev
  BY RecordTypes DEF Shape, Alive, LastOf
<1>2. lg[t][m].ev \notin {"Complete", "Drop"}
  BY DEF Alive, LastOf
<1>3. m = 3 => lg[t][m].ev \in {"Drop", "Complete"}
  BY DEF Shape
<1>4. m = 2 => lg[t][m].ev \in {"Drop", "ServiceStart"}
  BY DEF Shape
<1> HIDE DEF m
<1>5. m = 1 \/ m = 2
  BY <1>1, <1>2, <1>3
<1>6. m = 2 => lg[t][2].ev = "ServiceStart"
  BY <1>2, <1>4
<1> QED
  BY <1>5, <1>6 DEF m, InService

\* The records that a transaction gets next, and what they keep of its first ones.
LEMMA EmitShape ==
  ASSUME NEW lg \in Logs, NEW T, NEW ev \in Milestones, NEW at \in Nat, NEW t \in T \cap Txn,
         NEW lg2, lg2 = Emit(lg, T, ev, at), Shape(lg, t)
  PROVE  /\ lg[t] = <<>> /\ ev = "Arrive" => Shape(lg2, t) /\ Len(lg2[t]) = 1
         /\ Len(lg[t]) = 1 /\ ev = "ServiceStart" =>
              Shape(lg2, t) /\ InService(lg2, t) /\ lg2[t][2].at = at
         /\ Len(lg[t]) = 1 /\ ev = "Drop" => Shape(lg2, t) /\ ~InService(lg2, t) /\ Len(lg2[t]) = 2
         /\ InService(lg, t) /\ ev \in {"Drop", "Complete"} =>
              /\ Shape(lg2, t) /\ Len(lg2[t]) = 3 /\ lg2[t][3].ev = ev
              /\ lg2[t][3].at = at /\ lg2[t][2].at = lg[t][2].at
<1> DEFINE m == Len(lg[t])
<1> DEFINE s == lg[t]
<1> DEFINE s2 == lg2[t]
<1>1. /\ m \in Nat /\ Len(s2) = m + 1
      /\ \A i \in 1..m : s2[i] = s[i]
      /\ s2[m + 1].ev = ev /\ s2[m + 1].at = at
  BY EmitRecords
<1>2. /\ m \in 0..3
      /\ m >= 1 => s[1].ev = "Arrive"
  BY DEF Shape
<1>3. s = <<>> => m = 0
  BY EmptySeq
<1> HIDE DEF m, s, s2
<1>4. ASSUME m = 0, ev = "Arrive"
      PROVE  Len(s2) = 1 /\ s2[1].ev = "Arrive"
  <2>1. Len(s2) = 1 /\ s2[1].ev = ev
    BY <1>1, <1>4
  <2> QED
    BY <1>4, <2>1
<1>5. ASSUME m = 1
      PROVE  Len(s2) = 2 /\ s2[1].ev = "Arrive" /\ s2[2].ev = ev /\ s2[2].at = at
  <2>1. Len(s2) = 2 /\ s2[2].ev = ev /\ s2[2].at = at
    BY <1>1, <1>5
  <2>2. s2[1] = s[1] /\ s[1].ev = "Arrive"
    BY <1>1, <1>2, <1>5
  <2> QED
    BY <2>1, <2>2
<1>6. ASSUME m = 2
      PROVE  /\ Len(s2) = 3 /\ s2[1].ev = "Arrive" /\ s2[2] = s[2]
             /\ s2[3].ev = ev /\ s2[3].at = at
  <2>1. Len(s2) = 3 /\ s2[3].ev = ev /\ s2[3].at = at
    BY <1>1, <1>6
  <2>2. s2[1] = s[1] /\ s2[2] = s[2] /\ s[1].ev = "Arrive"
    BY <1>1, <1>2, <1>6
  <2> QED
    BY <2>1, <2>2
<1>7. lg[t] = <<>> /\ ev = "Arrive" => Shape(lg2, t) /\ Len(lg2[t]) = 1
  BY <1>3, <1>4 DEF Shape, s, s2
<1>8. Len(lg[t]) = 1 /\ ev = "ServiceStart" =>
        Shape(lg2, t) /\ InService(lg2, t) /\ lg2[t][2].at = at
  BY <1>5 DEF Shape, InService, m, s2
<1>9. ASSUME Len(lg[t]) = 1, ev = "Drop"
      PROVE  Shape(lg2, t) /\ ~InService(lg2, t) /\ Len(lg2[t]) = 2
  <2>1. Len(s2) = 2 /\ s2[1].ev = "Arrive" /\ s2[2].ev = "Drop"
    BY <1>5, <1>9 DEF m
  <2>2. s2[2].ev # "ServiceStart"
    BY <2>1
  <2> QED
    BY <2>1, <2>2 DEF Shape, InService, s2
<1>10. InService(lg, t) /\ ev \in {"Drop", "Complete"} =>
         /\ Shape(lg2, t) /\ Len(lg2[t]) = 3 /\ lg2[t][3].ev = ev
         /\ lg2[t][3].at = at /\ lg2[t][2].at = lg[t][2].at
  BY <1>6 DEF Shape, InService, m, s, s2
<1> QED
  BY <1>7, <1>8, <1>9, <1>10

LEMMA ProgressLater ==
  ASSUME NEW lg \in Logs, NEW t \in Txn, InService(lg, t), NEW sv,
         NEW a \in Int, NEW b \in Int, a <= b, Progress(t, lg, sv, a)
  PROVE  Progress(t, lg, sv, b)
<1>1. PICK k \in Nat : /\ sv[t] = QuantumBytes(t) * k
                       /\ k = 0 \/ sv[t] < Tx[t].size_bytes
                       /\ lg[t][2].at + QuantumUs(t) * k <= a
  BY DEF Progress
<1>2. lg[t][2].at \in Nat /\ QuantumUs(t) \in Nat
  BY RecordTypes, QuantaType DEF InService
<1>3. QuantumUs(t) * k \in Nat
  BY <1>2
<1>4. lg[t][2].at + QuantumUs(t) * k <= b
  BY <1>1, <1>2, <1>3
<1> QED
  BY <1>1, <1>4 DEF Progress

LEMMA ProgressSame ==
  ASSUME NEW t, NEW l1, NEW s1, NEW l2, NEW s2, NEW at, l2[t] = l1[t], s2[t] = s1[t],
         Progress(t, l1, s1, at)
  PROVE  Progress(t, l2, s2, at)
BY DEF Progress

LEMMA ToldSame ==
  ASSUME NEW lg \in Logs, NEW sv, NEW a \in Nat, Told(lg, sv, a), NEW b \in Nat, a <= b,
         NEW t \in Txn, NEW lg2, NEW sv2, lg2[t] = lg[t], sv2[t] = sv[t]
  PROVE  /\ Shape(lg2, t)
         /\ InService(lg2, t) => Progress(t, lg2, sv2, b)
         /\ Len(lg2[t]) = 3 /\ lg2[t][3].ev = "Complete" => Paid(t, lg2, sv2)
<1>1. Shape(lg2, t)
  BY DEF Told, Shape
<1>2. ASSUME InService(lg2, t)
      PROVE  Progress(t, lg2, sv2, b)
  <2>1. InService(lg, t)
    BY <1>2 DEF InService
  <2>2. Progress(t, lg, sv, a)
    BY <2>1 DEF Told
  <2>3. Progress(t, lg, sv, b)
    BY <2>1, <2>2, ProgressLater
  <2> QED
    BY <2>3, ProgressSame
<1>3. Len(lg2[t]) = 3 /\ lg2[t][3].ev = "Complete" => Paid(t, lg2, sv2)
  BY DEF Told, Paid
<1> QED
  BY <1>1, <1>2, <1>3


\* accept() issues a transaction of which nothing was written.
LEMMA AcceptedTold ==
  ASSUME NEW E, BusInv(E), BusHeld, Told(log, served, now), OnSlice(ends, log, served),
         NEW t \in Txn, NEW at \in Nat, log[t] = <<>>, now <= at, NEW h, h = Accepted(t, at)
  PROVE  Told(h.log, h.served, h.at) /\ OnSlice(h.ends, h.log, h.served)
<1> DEFINE lg == Emit(log, {t}, "Arrive", at)
<1>1. h.log = lg /\ h.served = served /\ h.at = at /\ h.ends = ends
  BY DEF Accepted, Half
<1>2. log \in Logs /\ now \in Nat
  BY DEF BusInv, BusTypeOK, Logs
<1>3. "Arrive" \in Milestones
  BY DEF Milestones
<1>4. Shape(lg, t) /\ Len(lg[t]) = 1
  <2> DEFINE T == {t}
  <2>1. t \in T \cap Txn /\ Shape(log, t)
    BY DEF Told
  <2> HIDE DEF T
  <2>2. \A lg2 : lg2 = Emit(log, T, "Arrive", at) => Shape(lg2, t) /\ Len(lg2[t]) = 1
    BY <1>2, <1>3, <2>1, EmitShape
  <2> QED
    BY <2>2 DEF T
<1>5. \A u \in Txn : u # t => lg[u] = log[u]
  BY DEF Emit
<1> HIDE DEF lg
<1>6. ASSUME NEW u \in Txn, u # t
      PROVE  /\ Shape(lg, u)
             /\ InService(lg, u) => Progress(u, lg, served, at)
             /\ Len(lg[u]) = 3 /\ lg[u][3].ev = "Complete" => Paid(u, lg, served)
  BY <1>2, <1>5, <1>6, ToldSame
<1>7. Told(lg, served, at)
  <2>1. ~InService(lg, t) /\ Len(lg[t]) # 3
    BY <1>4 DEF InService
  <2> QED
    BY <1>4, <1>6, <2>1 DEF Told
<1>8. OnSlice(ends, lg, served)
  <2>1. \A e \in ends : e.pending.tx \in Txn /\ e.pending.tx # t
    BY DEF BusHeld, Alive, BusInv, BusTypeOK, QuantumEvent, Pending
  <2>2. \A e \in ends : lg[e.pending.tx] = log[e.pending.tx]
    BY <1>5, <2>1
  <2> QED
    BY <2>2, ProgressSame DEF OnSlice
<1> QED
  BY <1>1, <1>7, <1>8

\* A slice that is not the last one adds a quantum; the last one pays what is left.
LEMMA SliceOver ==
  ASSUME NEW E, BusInv(E), BusHeld, OnSlice(ends, log, served), NEW e \in ends,
         NEW p, p = ServedOnce(e.pending), NEW t, t = e.pending.tx, NEW sv, sv = Moved(e.pending)
  PROVE  /\ t \in Txn /\ InService(log, t) /\ p.tx = t
         /\ \A u \in Txn : u # t => sv[u] = served[u]
         /\ p.bytes_remaining # 0 => Progress(t, log, sv, e.at)
         /\ p.bytes_remaining = 0 =>
              sv[t] = Tx[t].size_bytes /\ e.at - log[t][2].at >= ServiceTime(t)
<1> DEFINE rest == e.pending.bytes_remaining
<1> DEFINE b == QuantumBytes(t)
<1> DEFINE u == QuantumUs(t)
<1> DEFINE size == Tx[t].size_bytes
<1> DEFINE us == ServiceUs(e.pending)
<1>1. /\ log \in Logs /\ served \in [Txn -> Nat] /\ e.pending \in Pending /\ e.at \in Nat
      /\ t \in Txn /\ rest \in Nat
  BY DEF BusInv, BusTypeOK, Logs, QuantumEvent, Pending
<1>2. InService(log, t) /\ rest + served[t] = size
  BY DEF BusHeld, Agrees, InService
<1>3. b \in Nat \ {0} /\ u \in Nat \ {0} /\ Bandwidth(t) \in Nat \ {0} /\ size \in Nat
  BY <1>1, QuantaType
<1>4. p.tx = t /\ p.bytes_remaining = rest - Smaller(rest, b)
  BY <1>1 DEF ServedOnce, Pending
<1>5. /\ \A x \in Txn : x # t => sv[x] = served[x]
      /\ sv[t] = served[t] + rest - p.bytes_remaining
  BY <1>1 DEF Moved
<1>6. PICK k \in Nat : /\ served[t] = b * k
                       /\ k = 0 \/ served[t] < size
                       /\ log[t][2].at + u * k <= e.at - us
  BY DEF OnSlice, Progress
<1>7. log[t][2].at \in Nat
  BY <1>1, <1>2, RecordTypes DEF InService
<1>8. us = IF rest <= b THEN Larger(rest \div Bandwidth(t), 1) ELSE u
  BY DEF ServiceUs
<1>9. ASSUME p.bytes_remaining # 0
      PROVE  Progress(t, log, sv, e.at)
  <2> HIDE DEF rest, b, u, size, us
  <2>1. rest > b /\ sv[t] = served[t] + b /\ us = u
    BY <1>1, <1>3, <1>4, <1>5, <1>8, <1>9 DEF Smaller
  <2>2. b * (k + 1) = b * k + b /\ u * (k + 1) = u * k + u /\ u * k \in Nat /\ b * k \in Nat
    BY <1>3
  <2>3. sv[t] = b * (k + 1)
    BY <1>6, <2>1, <2>2
  <2>4. sv[t] < size
    BY <1>1, <1>2, <1>3, <2>1
  <2>5. log[t][2].at + u * (k + 1) <= e.at
    BY <1>1, <1>3, <1>6, <1>7, <2>1, <2>2
  <2>6. k + 1 \in Nat
    OBVIOUS
  <2> QED
    BY <2>3, <2>4, <2>5, <2>6 DEF Progress, b, u, size
<1>10. ASSUME p.bytes_remaining = 0
       PROVE  sv[t] = size /\ e.at - log[t][2].at >= ServiceTime(t)
  <2> HIDE DEF rest, b, u, size, us
  <2>1. rest <= b /\ sv[t] = size
    BY <1>1, <1>2, <1>3, <1>4, <1>5, <1>10 DEF Smaller
  <2>2. us = Larger(rest \div Bandwidth(t), 1)
    BY <1>8, <2>1
  <2>3. k = 0 \/ rest > 0
    BY <1>1, <1>2, <1>3, <1>6
  <2>4. ServiceTime(t) <= u * k + Larger(rest \div Bandwidth(t), 1)
    BY <1>1, <1>2, <1>6, <2>1, <2>3, LastSliceTime DEF b, u, size
  <2>5. u * k \in Nat /\ us \in Nat /\ ServiceTime(t) \in Int
    <3>1. ServiceTime(t) \in Int
      <4>1. FullSlices(t) \in Int
        <5>1. size - 1 \in Int /\ b \in Nat \ {0}
          BY <1>3
        <5>2. (size - 1) \div b \in Int
          BY <5>1
        <5> QED
          BY <5>2 DEF FullSlices, size, b
      <4>2. FullSlices(t) * b \in Int /\ FullSlices(t) * u \in Int
        BY <1>3, <4>1
      <4>3. size - FullSlices(t) * b \in Int
        BY <1>3, <4>2
      <4>4. (size - FullSlices(t) * b) \div Bandwidth(t) \in Int
        BY <1>3, <4>3
      <4> QED
        BY <4>2, <4>4 DEF ServiceTime, Larger, size, b, u
    <3>2. us \in Nat
      BY <1>1, ServiceUsType DEF us
    <3> QED
      BY <1>3, <3>1, <3>2
  <2> QED
    BY <1>1, <1>6, <1>7, <2>1, <2>2, <2>4, <2>5
<1> QED
  BY <1>1, <1>2, <1>4, <1>5, <1>9, <1>10


\* on_quantum_end(), up to start_service_if_idle().
LEMMA EndedTold ==
  ASSUME NEW E, BusInv(E), BusHeld, Told(log, served, now), OnSlice(ends, log, served),
         NEW e \in ends, NEW h, h = Ended(e)
  PROVE  Told(h.log, h.served, h.at) /\ OnSlice(h.ends, h.log, h.served)
<1> DEFINE p == ServedOnce(e.pending)
<1> DEFINE t == e.pending.tx
<1> DEFINE sv == Moved(e.pending)
<1> DEFINE T == {t}
<1> DEFINE done == Emit(log, T, "Complete", e.at)
<1> DEFINE drop == Emit(log, T, "Drop", e.at)
<1>1. /\ t \in Txn /\ InService(log, t) /\ p.tx = t
      /\ \A u \in Txn : u # t => sv[u] = served[u]
      /\ p.bytes_remaining # 0 => Progress(t, log, sv, e.at)
      /\ p.bytes_remaining = 0 =>
           sv[t] = Tx[t].size_bytes /\ e.at - log[t][2].at >= ServiceTime(t)
  BY SliceOver
<1>2. log \in Logs /\ now \in Nat /\ e.at \in Nat /\ now <= e.at /\ ends \ {e} = {}
  BY DEF BusInv, BusTypeOK, Logs, QuantumEvent, OneTransferAtATime
<1>3. /\ h.at = e.at /\ h.served = sv /\ h.ends = {}
      /\ \/ h.log = done /\ p.bytes_remaining = 0
         \/ h.log = drop /\ p.bytes_remaining # 0
         \/ h.log = log /\ p.bytes_remaining # 0
  BY <1>1, <1>2 DEF Ended, Half
<1>4. \A u \in Txn : u # t => done[u] = log[u] /\ drop[u] = log[u]
  BY DEF Emit
<1>5. "Complete" \in Milestones /\ "Drop" \in Milestones
  BY DEF Milestones
<1>6. Shape(log, t) /\ t \in T \cap Txn
  BY <1>1 DEF Told
<1> HIDE DEF T
<1>7. /\ Shape(done, t) /\ Len(done[t]) = 3 /\ done[t][3].at = e.at
      /\ done[t][2].at = log[t][2].at
  BY <1>1, <1>2, <1>5, <1>6, EmitShape
<1>8. /\ Shape(drop, t) /\ Len(drop[t]) = 3 /\ drop[t][3].ev = "Drop"
  BY <1>1, <1>2, <1>5, <1>6, EmitShape
<1> HIDE DEF p, t, sv, done, drop
<1>9. ASSUME NEW u \in Txn, u # t
      PROVE  /\ Shape(h.log, u)
             /\ InService(h.log, u) => Progress(u, h.log, sv, e.at)
             /\ Len(h.log[u]) = 3 /\ h.log[u][3].ev = "Complete" => Paid(u, h.log, sv)
  <2>1. h.log[u] = log[u] /\ sv[u] = served[u]
    BY <1>1, <1>3, <1>4, <1>9
  <2> QED
    BY <1>2, <2>1, ToldSame
<1>10. /\ Shape(h.log, t)
       /\ InService(h.log, t) => Progress(t, h.log, sv, e.at)
       /\ Len(h.log[t]) = 3 /\ h.log[t][3].ev = "Complete" => Paid(t, h.log, sv)
  <2>1. CASE h.log = done /\ p.bytes_remaining = 0
    BY <1>1, <1>7, <2>1 DEF InService, Paid
  <2>2. CASE h.log = drop /\ p.bytes_remaining # 0
    BY <1>8, <2>2 DEF InService
  <2>3. CASE h.log = log /\ p.bytes_remaining # 0
    <3>1. Len(log[t]) = 2
      BY <1>1 DEF InService
    <3> QED
      BY <1>1, <1>6, <2>3, <3>1
  <2> QED
    BY <1>3, <2>1, <2>2, <2>3
<1>11. Told(h.log, sv, e.at)
  BY <1>9, <1>10 DEF Told
<1> QED
  BY <1>3, <1>11 DEF OnSlice

\* The object that goes on the bus is the first one of its transaction, or had its quanta.
LEMMA LaunchedSlice ==
  ASSUME NEW h, h.log \in Logs, h.at \in Nat, Told(h.log, h.served, h.at), Launches(h),
         NEW e \in ends', NEW t, t = e.pending.tx
  PROVE  /\ t \in Txn /\ InService(log', t) /\ Shape(log', t)
         /\ Progress(t, log', h.served, e.at - ServiceUs(e.pending))
         /\ e.at - ServiceUs(e.pending) = h.at
         /\ log'[t] # h.log[t] => Len(h.log[t]) = 1
<1>1. PICK p \in Pending :
        /\ Alive(h.log, p.tx) /\ Agrees(p, h.log, h.served)
        /\ e.pending = Marked(p)
        /\ e.at = h.at + ServiceUs(p)
        /\ log'[p.tx] = IF p.service_started THEN h.log[p.tx]
                        ELSE Append(h.log[p.tx], [ev |-> "ServiceStart", at |-> h.at])
  BY DEF Launches
<1>2. t = p.tx /\ t \in Txn /\ e.pending.bytes_remaining = p.bytes_remaining
      /\ p.service_started \in BOOLEAN
  BY <1>1 DEF Marked, Pending
<1>3. ServiceUs(e.pending) = ServiceUs(p)
  BY <1>2 DEF ServiceUs
<1>4. e.at - ServiceUs(e.pending) = h.at
  BY <1>1, <1>3, ServiceUsType
<1>5. Shape(h.log, t)
  BY <1>2 DEF Told
<1>6. CASE p.service_started
  <2>1. log'[t] = h.log[t] /\ InService(h.log, t)
    BY <1>1, <1>2, <1>6 DEF Agrees, InService
  <2>2. Progress(t, h.log, h.served, h.at)
    BY <1>2, <2>1 DEF Told
  <2>3. Progress(t, log', h.served, h.at)
    BY <2>1, <2>2, ProgressSame
  <2>4. InService(log', t) /\ Shape(log', t)
    BY <1>5, <2>1 DEF InService, Shape
  <2> QED
    BY <1>2, <1>4, <2>1, <2>3, <2>4
<1>7. CASE ~p.service_started
  <2> DEFINE T == {t}
  <2> DEFINE lg2 == Emit(h.log, T, "ServiceStart", h.at)
  <2>1. Len(h.log[t]) = 1 /\ h.served[t] = 0
    BY <1>1, <1>2, <1>7 DEF Agrees
  <2>2. log'[t] = lg2[t]
    BY <1>1, <1>2, <1>7 DEF Emit
  <2>3. "ServiceStart" \in Milestones /\ t \in T \cap Txn
    BY <1>2 DEF Milestones
  <2> HIDE DEF T
  <2>4. Shape(lg2, t) /\ InService(lg2, t) /\ lg2[t][2].at = h.at
    BY <1>5, <2>1, <2>3, EmitShape
  <2> HIDE DEF lg2
  <2>5. Shape(log', t) /\ InService(log', t) /\ log'[t][2].at = h.at
    BY <2>2, <2>4 DEF Shape, InService
  <2>6. Progress(t, log', h.served, h.at)
    <3>1. QuantumBytes(t) * 0 = 0 /\ h.at + QuantumUs(t) * 0 <= h.at
      BY <1>2, QuantaType
    <3>2. 0 \in Nat
      OBVIOUS
    <3> QED
      BY <2>1, <2>5, <3>1, <3>2 DEF Progress
  <2> QED
    BY <1>2, <1>4, <2>1, <2>5, <2>6
<1> QED
  BY <1>2, <1>6, <1>7

LEMMA WritesTold ==
  ASSUME NEW h, h.log \in Logs, h.at \in Nat, NEW D \in SUBSET Txn, GoesOn(h, D), Launches(h),
         Told(h.log, h.served, h.at)
  PROVE  Told(log', h.served, h.at) /\ OnSlice(ends', log', h.served)
<1> DEFINE lg == Emit(h.log, D, "Drop", h.at)
<1>1. "Drop" \in Milestones /\ "ServiceStart" \in Milestones
  BY DEF Milestones
<1>2. PICK S0 \in SUBSET (Txn \ D) :
        /\ \A t \in S0 : Alive(h.log, t) /\ t \in Served'
        /\ log' = Emit(lg, S0, "ServiceStart", h.at)
  BY DEF GoesOn, Writes
<1>3. \A t \in D : Alive(h.log, t)
  BY DEF GoesOn, Writes
<1>4. \A t \in Txn : /\ t \notin D => lg[t] = h.log[t]
                     /\ t \notin S0 => log'[t] = lg[t]
  BY <1>2 DEF Emit
<1>5. ASSUME NEW t \in D
      PROVE  Shape(lg, t) /\ ~InService(lg, t) /\ lg[t][Len(lg[t])].ev = "Drop" /\ t \in Txn
  <2>1. t \in D \cap Txn /\ Shape(h.log, t)
    BY DEF Told
  <2>2. Len(h.log[t]) = 1 \/ InService(h.log, t)
    BY <1>3, <2>1, AliveShape
  <2>3. lg[t][Len(lg[t])].ev = "Drop"
    BY <1>1, <2>1, EmitLast DEF LastOf
  <2>4. CASE Len(h.log[t]) = 1
    BY <1>1, <2>1, <2>3, <2>4, EmitShape
  <2>5. CASE InService(h.log, t)
    <3>1. Shape(lg, t) /\ Len(lg[t]) = 3
      BY <1>1, <2>1, <2>5, EmitShape
    <3> HIDE DEF lg
    <3> QED
      BY <2>1, <2>3, <3>1 DEF InService
  <2> QED
    BY <2>2, <2>4, <2>5
<1> HIDE DEF lg
<1>6. ASSUME NEW t \in Txn
      PROVE  /\ Shape(log', t)
             /\ InService(log', t) => Progress(t, log', h.served, h.at)
             /\ Len(log'[t]) = 3 /\ log'[t][3].ev = "Complete" => Paid(t, log', h.served)
  <2>1. CASE t \in D
    <3>1. log'[t] = lg[t]
      BY <1>2, <1>4, <2>1
    <3>2. Shape(lg, t) /\ ~InService(lg, t) /\ lg[t][Len(lg[t])].ev = "Drop"
      BY <1>5, <2>1
    <3> DEFINE s == lg[t]
    <3> DEFINE m == Len(s)
    <3>3. log'[t] = s /\ s[m].ev = "Drop"
      BY <3>1, <3>2
    <3>4. Shape(log', t) /\ ~InService(log', t)
      BY <3>1, <3>2 DEF Shape, InService
    <3>5. ~(m = 3 /\ s[3].ev = "Complete")
      <4> HIDE DEF s, m
      <4> QED
        BY <3>3
    <3> QED
      BY <3>3, <3>4, <3>5
  <2>2. CASE t \in S0
    <3>1. PICK e \in ends' : t = e.pending.tx
      BY <1>2, <2>2 DEF Served
    <3>2. /\ InService(log', t) /\ Shape(log', t)
          /\ Progress(t, log', h.served, h.at)
      BY <3>1, LaunchedSlice
    <3>3. Len(log'[t]) = 2
      BY <3>2 DEF InService
    <3> QED
      BY <3>2, <3>3
  <2>3. CASE t \notin D /\ t \notin S0
    <3>1. log'[t] = h.log[t]
      BY <1>4, <2>3
    <3> DEFINE sv == h.served
    <3> DEFINE lg0 == h.log
    <3> DEFINE at == h.at
    <3>2. lg0 \in Logs /\ at \in Nat /\ Told(lg0, sv, at) /\ at <= at /\ log'[t] = lg0[t]
      BY <3>1
    <3> HIDE DEF sv, lg0, at
    <3>3. /\ Shape(log', t)
          /\ InService(log', t) => Progress(t, log', sv, at)
          /\ Len(log'[t]) = 3 /\ log'[t][3].ev = "Complete" => Paid(t, log', sv)
      BY <3>2, ToldSame
    <3> QED
      BY <3>3 DEF sv, at
  <2> QED
    BY <2>1, <2>2, <2>3
<1>7. Told(log', h.served, h.at)
  BY <1>6 DEF Told
<1>8. OnSlice(ends', log', h.served)
  <2>1. ASSUME NEW e \in ends'
        PROVE  Progress(e.pending.tx, log', h.served, e.at - ServiceUs(e.pending))
    BY LaunchedSlice
  <2> QED
    BY <2>1 DEF OnSlice
<1> QED
  BY <1>7, <1>8

(***************************************************************************)
(* The invariant of the trace: its order, the counters and the time that   *)
(* the slices took.                                                        *)
(***************************************************************************)
TraceInv ==
  /\ Ordered(log, now)
  /\ Matches(kpi, log)
  /\ Told(log, served, now)
  /\ OnSlice(ends, log, served)

LEMMA TraceStep ==
  ASSUME NEW E, BusInv(E), BusHeld, TraceInv, StepIs
  PROVE  TraceInv'
<1>1. PICK h : /\ HalfInv(h, E) /\ Went(h)
               /\ \/ \E t \in Txn, at \in Nat : /\ h = Accepted(t, at)
                                                /\ log[t] = <<>> /\ now <= at
                  \/ \E e \in ends : h = Ended(e)
  BY StepHalf
<1>2. h.log \in Logs /\ h.at \in Nat /\ now' = h.at /\ served' = h.served
  BY <1>1 DEF HalfInv, HalfStep, Went, Keep
<1>3. Told(h.log, h.served, h.at) /\ OnSlice(h.ends, h.log, h.served)
  <2>1. ASSUME NEW t \in Txn, NEW at \in Nat, h = Accepted(t, at), log[t] = <<>>, now <= at
        PROVE  Told(h.log, h.served, h.at) /\ OnSlice(h.ends, h.log, h.served)
    BY <2>1, AcceptedTold DEF TraceInv
  <2>2. ASSUME NEW e \in ends, h = Ended(e)
        PROVE  Told(h.log, h.served, h.at) /\ OnSlice(h.ends, h.log, h.served)
    BY <2>2, EndedTold DEF TraceInv
  <2> QED
    BY <1>1, <2>1, <2>2
<1>4. Ordered(log', now') /\ Matches(kpi', log')
  BY KpiStep DEF TraceInv
<1>5. Told(log', served', now') /\ OnSlice(ends', log', served')
  <2>1. CASE \E D \in SUBSET Txn : GoesOn(h, D) /\ Launches(h)
    BY <1>2, <1>3, <2>1, WritesTold
  <2>2. CASE KeepServing(h) /\ h.ends = ends
    BY <1>2, <1>3, <2>2 DEF KeepServing
  <2> QED
    BY <1>1, <2>1, <2>2 DEF Went
<1> QED
  BY <1>4, <1>5 DEF TraceInv

LEMMA TraceStutter == TraceInv /\ UNCHANGED busVars => TraceInv'
BY DEF TraceInv, busVars, Ordered, Matches, CountsMatch, LatenciesMatch, CostsMatch, Told, OnSlice,
       Shape, InService, Progress, Paid

LEMMA TraceInit == BusInit => TraceInv
<1> SUFFICES ASSUME BusInit
             PROVE  TraceInv
  OBVIOUS
<1>1. /\ log = [t \in Txn |-> <<>>] /\ ends = {} /\ kpi = ZeroKpi /\ now = 0
      /\ \A t \in Txn : log[t] = <<>>
  BY DEF BusInit
<1>3. \A t \in Txn : DOMAIN log[t] = {} /\ Len(log[t]) = 0
  BY <1>1, EmptySeq
<1>4. Ordered(log, now)
  BY <1>3 DEF Ordered
<1>5. Told(log, served, now)
  <2>1. \A t \in Txn : Shape(log, t) /\ ~InService(log, t) /\ Len(log[t]) # 3
    BY <1>3 DEF Shape, InService
  <2> QED
    BY <2>1 DEF Told
<1>6. OnSlice(ends, log, served)
  BY <1>1 DEF OnSlice
<1>7. Matches(kpi, log)
  <2>1. Issued(log) = {} /\ Completed(log) = {} /\ GivenUp(log) = {}
    BY <1>1 DEF Issued, Completed, GivenUp
  <2>2. \A c \in Counters : kpi[c] = 0
    BY <1>1 DEF ZeroKpi
  <2> DEFINE no == {}
  <2>3. /\ AudioOf(no) = {} /\ WeightsOf(no) = {}
        /\ Cardinality(no) = 0 /\ \A f : SumFunctionOnSet(f, no) = 0 /\ MaxOver(f, no) = 0
    BY FS_EmptySet, SumEmpty DEF AudioOf, WeightsOf, MaxOver
  <2> HIDE DEF no
  <2>4. Issued(log) = no /\ Completed(log) = no /\ GivenUp(log) = no
        /\ AudioOf(no) = no /\ WeightsOf(no) = no
    BY <2>1, <2>3 DEF no
  <2>5. CountsMatch(kpi, log)
    BY <2>2, <2>3, <2>4 DEF CountsMatch, Counters
  <2>6. LatenciesMatch(kpi, LatencyOf(log), Completed(log))
    BY <2>2, <2>3, <2>4 DEF LatenciesMatch, Counters
  <2>7. CostsMatch(kpi, Completed(log))
    BY <2>2, <2>3, <2>4 DEF CostsMatch, Counters
  <2> QED
    BY <2>5, <2>6, <2>7 DEF Matches
<1> QED
  BY <1>4, <1>5, <1>6, <1>7 DEF TraceInv


\* The records of a transaction, as a sequence of kinds.
LEMMA KindsAre ==
  ASSUME log \in Logs, NEW t \in Txn
  PROVE  /\ Kinds(t) \in Seq(Milestones) /\ Len(Kinds(t)) = Len(log[t])
         /\ \A i \in 1..Len(log[t]) : Kinds(t)[i] = log[t][i].ev
<1> DEFINE m == Len(log[t])
<1>1. m \in Nat /\ DOMAIN log[t] = 1..m /\ \A i \in 1..m : log[t][i].ev \in Milestones
  BY RecordTypes
<1>2. Kinds(t) = [i \in 1..m |-> log[t][i].ev]
  BY <1>1 DEF Kinds
<1> HIDE DEF m
<1>3. Kinds(t) \in Seq(Milestones)
  BY <1>1, <1>2, SeqDef
<1>4. DOMAIN Kinds(t) = 1..m
  BY <1>2
<1>5. Len(Kinds(t)) = m
  BY <1>1, <1>3, <1>4, LenProperties
<1> QED
  BY <1>2, <1>3, <1>5 DEF m

LEMMA ShapeKinds ==
  ASSUME log \in Logs, NEW t \in Txn, Shape(log, t)
  PROVE  Kinds(t) \in { <<>>, <<"Arrive">>, <<"Arrive", "Drop">>,
                        <<"Arrive", "ServiceStart">>,
                        <<"Arrive", "ServiceStart", "Drop">>,
                        <<"Arrive", "ServiceStart", "Complete">> }
<1> DEFINE k == Kinds(t)
<1> DEFINE m == Len(log[t])
<1>1. k \in Seq(Milestones) /\ Len(k) = m /\ \A i \in 1..m : k[i] = log[t][i].ev
  BY KindsAre
<1>2. /\ m \in 0..3
      /\ m >= 1 => log[t][1].ev = "Arrive"
      /\ m = 2 => log[t][2].ev \in {"Drop", "ServiceStart"}
      /\ m = 3 => log[t][2].ev = "ServiceStart" /\ log[t][3].ev \in {"Drop", "Complete"}
  BY DEF Shape
<1> HIDE DEF k, m
<1>3. CASE m = 0
  <2>1. k = <<>>
    BY <1>1, <1>3, EmptySeq
  <2> QED
    BY <2>1 DEF k
<1>4. CASE m = 1
  <2>1. k[1] = "Arrive" /\ Len(k) = 1
    BY <1>1, <1>2, <1>4
  <2>2. k = <<"Arrive">>
    BY <1>1, <2>1
  <2> QED
    BY <2>2 DEF k
<1>5. CASE m = 2
  <2>1. k[1] = "Arrive" /\ Len(k) = 2 /\ k[2] \in {"Drop", "ServiceStart"}
    BY <1>1, <1>2, <1>5
  <2>2. k = <<k[1], k[2]>>
    BY <1>1, <2>1
  <2>3. k \in { <<"Arrive", "Drop">>, <<"Arrive", "ServiceStart">> }
    BY <2>1, <2>2
  <2> QED
    BY <2>3 DEF k
<1>6. CASE m = 3
  <2>1. /\ k[1] = "Arrive" /\ Len(k) = 3 /\ k[2] = "ServiceStart"
        /\ k[3] \in {"Drop", "Complete"}
    BY <1>1, <1>2, <1>6
  <2>2. k = <<k[1], k[2], k[3]>>
    BY <1>1, <2>1
  <2>3. k \in { <<"Arrive", "ServiceStart", "Drop">>, <<"Arrive", "ServiceStart", "Complete">> }
    BY <2>1, <2>2
  <2> QED
    BY <2>3 DEF k
<1> QED
  BY <1>2, <1>3, <1>4, <1>5, <1>6

LEMMA TraceIs == BusTypeOK /\ TraceInv => TraceWellFormed /\ KpiMatchesTrace
<1> SUFFICES ASSUME BusTypeOK, TraceInv
             PROVE  TraceWellFormed /\ KpiMatchesTrace
  OBVIOUS
<1>1. log \in Logs
  BY DEF BusTypeOK, Logs
<1>2. ASSUME NEW t \in Txn
      PROVE  /\ Kinds(t) \in { <<>>, <<"Arrive">>, <<"Arrive", "Drop">>,
                               <<"Arrive", "ServiceStart">>,
                               <<"Arrive", "ServiceStart", "Drop">>,
                               <<"Arrive", "ServiceStart", "Complete">> }
             /\ \A i, j \in DOMAIN log[t] : i < j => log[t][i].at <= log[t][j].at
             /\ Started(t) /\ Last(t) = "Complete" =>
                  /\ log[t][3].at - log[t][2].at >= ServiceTime(t)
                  /\ served[t] = Tx[t].size_bytes
  <2>1. Shape(log, t)
    BY DEF TraceInv, Told
  <2>2. ASSUME Started(t), Last(t) = "Complete"
        PROVE  Paid(t, log, served)
    <3> DEFINE m == Len(log[t])
    <3>1. m \in 0..3 /\ m >= 2 /\ log[t][m].ev = "Complete"
      BY <2>1, <2>2 DEF Shape, Started, Last
    <3>2. m = 2 => log[t][2].ev = "ServiceStart"
      BY <2>2 DEF Started
    <3> HIDE DEF m
    <3>3. m = 3
      BY <3>1, <3>2
    <3> QED
      BY <3>1, <3>3 DEF TraceInv, Told, m
  <2> QED
    BY <1>1, <2>1, <2>2, ShapeKinds DEF TraceInv, Ordered, Paid
<1>3. TraceWellFormed
  BY <1>2 DEF TraceWellFormed
<1> QED
  BY <1>3, MatchesIs DEF TraceInv
=============================================================================
