----------------------------- MODULE Scheduler -----------------------------
(***************************************************************************)
(* The policy-independent half of the bus scheduler (class Scheduler):     *)
(* the service model that accept() gives a transaction, the bus that       *)
(* serves one quantum at a time, the milestones written to the trace and   *)
(* the KPI counters read at the end of a run.  FifoScheduler and           *)
(* QosScheduler extend it with their on_arrive() and pick_next().          *)
(*                                                                         *)
(* Time is the simulator's own: an integer number of microseconds that     *)
(* jumps from event to event.  Bandwidths are bytes per microsecond, as    *)
(* in the code (MB/s times us is bytes).                                   *)
(***************************************************************************)
EXTENDS Integers, Sequences, FiniteSetsExt

CONSTANTS
  Txn,      \* transactions the generators may hand to accept()
  Tx,       \* Txn -> [source, qos, size_bytes, inst]
  Cfg,      \* the fields of config.yaml that the scheduler reads
  MaxTime   \* bound: no transaction is issued after this time

Sources == {"audio", "texture", "weight"}
QosTags == {"critical", "high", "normal"}
Lods    == 0..2

(***************************************************************************)
(* Service model: what accept() derives from the configuration.            *)
(***************************************************************************)
Smaller(a, b) == IF a <= b THEN a ELSE b
Larger(a, b)  == IF a >= b THEN a ELSE b
CeilDiv(a, b) == (a + b - 1) \div b

IsNeuroDma(t)   == Tx[t].source = "weight" /\ Cfg.dma_path = "neuro_dma"
IsBounce(t)     == Tx[t].source = "weight" /\ Cfg.dma_path # "neuro_dma"
IsCompressed(t) == Tx[t].source \in {"weight", "texture"} /\ Cfg.compression # "none"

\* The bounce path crosses the bus twice and the CPU copies once in between.
PathBandwidth(t) ==
  IF IsBounce(t)
  THEN (Cfg.bus_bw * Cfg.memcpy_bw) \div (2 * Cfg.memcpy_bw + Cfg.bus_bw)
  ELSE Cfg.bus_bw

(***************************************************************************)
(* A compressed transfer moves ratio times the bytes, up to what unpacks   *)
(* them; a path other than these two changes nothing.  A ratio is a pair   *)
(* <<numerator, denominator>>; the code truncates the double.              *)
(***************************************************************************)
Boosted(t) ==
  LET ratio   == Cfg.ratio[Tx[t].source]
      boosted == (PathBandwidth(t) * ratio[1]) \div ratio[2]
  IN CASE Cfg.compression = "inline_hw" -> Smaller(boosted, Cfg.decompressor_bw)
       [] Cfg.compression = "cpu"       -> Smaller(boosted, Cfg.cpu_decompress_bw)
       [] OTHER                         -> PathBandwidth(t)

Bandwidth(t) == IF IsCompressed(t) THEN Larger(Boosted(t), 1) ELSE PathBandwidth(t)

QuantumUs(t) ==
  IF IsNeuroDma(t) THEN Larger(CeilDiv(Cfg.sgl_entry_bytes, Cfg.bus_bw), 1)
                   ELSE Cfg.quantum_us

QuantumBytes(t) == Bandwidth(t) * QuantumUs(t)

CpuCycles(t) ==
  (IF IsNeuroDma(t) THEN Cfg.dma_setup_cycles
   ELSE IF IsBounce(t) THEN Tx[t].size_bytes * Cfg.memcpy_cycles ELSE 0)
  + (IF IsCompressed(t) /\ Cfg.compression = "inline_hw" THEN Cfg.hw_setup_cycles ELSE 0)

DecompressCycles(t) ==
  IF IsCompressed(t) /\ Cfg.compression = "cpu"
  THEN Tx[t].size_bytes * Cfg.cpu_cycles_per_byte ELSE 0

SglEntries(t) ==
  IF IsNeuroDma(t) THEN CeilDiv(Tx[t].size_bytes, Cfg.sgl_entry_bytes) ELSE 1

\* Every generator stamps the deadline when it issues; 0 means none.
DeadlineOf(t, issued) ==
  IF Tx[t].source = "audio" THEN issued + Cfg.audio_deadline_us ELSE 0

(***************************************************************************)
(* A configuration the simulator terminates on: config.cpp checks none of  *)
(* this, and a zero bandwidth or quantum makes on_quantum_end() re-queue   *)
(* the same transaction for ever.                                          *)
(***************************************************************************)
ASSUME TxnAssumption ==
  /\ IsFiniteSet(Txn)
  /\ \A t \in Txn : /\ Tx[t].source \in Sources
                    /\ Tx[t].qos \in QosTags
                    /\ Tx[t].size_bytes \in Nat
ASSUME ServiceAssumption ==
  \A t \in Txn : Bandwidth(t) \in Nat \ {0} /\ QuantumUs(t) \in Nat \ {0}
ASSUME CostAssumption ==
  \A t \in Txn : /\ CpuCycles(t) \in Nat
                 /\ DecompressCycles(t) \in Nat
                 /\ SglEntries(t) \in Nat
ASSUME TimeAssumption == Cfg.audio_deadline_us \in Nat /\ MaxTime \in Nat

-----------------------------------------------------------------------------
VARIABLES
  now,       \* Clock::now_
  bus_idle,  \* Scheduler::bus_idle_
  ends,      \* the quantum-end events waiting in the event queue
  log,       \* per transaction, the milestones emit() wrote to the trace
  kpi,       \* Scheduler::kpi_
  loaded,    \* per transaction, the LOD the completion observer was told
  served     \* history: per transaction, the bytes its slices have moved

busVars == <<now, bus_idle, ends, log, kpi, loaded, served>>

NoLod == -1

\* PendingTxn, with the fields a decision depends on.
Pending == [tx : Txn, bytes_remaining : Nat, deadline : Nat, service_started : BOOLEAN]

\* A scheduled quantum end: its closure owns the transaction on the bus.
QuantumEvent == [pending : Pending, at : Nat]

Milestones == {"Arrive", "ServiceStart", "Complete", "Drop"}

Record == [ev : Milestones, at : Nat]

\* Scheduler::Kpi; the streaming mean of audio latencies is kept as its sum.
Counters ==
  {"issued", "completed", "dropped", "audio_completed", "audio_dropped", "audio_lat_max",
   "audio_lat_sum", "weight_lat_max", "cpu_cycles", "decompress_cycles", "sgl_entries"}

Kpi == [Counters -> Nat]

ZeroKpi == [c \in Counters |-> 0]

BusInit ==
  /\ now = 0
  /\ bus_idle = TRUE
  /\ ends = {}
  /\ log = [t \in Txn |-> <<>>]
  /\ kpi = ZeroKpi
  /\ loaded = [t \in Txn |-> NoLod]
  /\ served = [t \in Txn |-> 0]

-----------------------------------------------------------------------------
(***************************************************************************)
(* emit(): one trace record per milestone.                                 *)
(***************************************************************************)
Emit(lg, T, ev, at) ==
  [t \in Txn |-> IF t \in T THEN Append(lg[t], [ev |-> ev, at |-> at]) ELSE lg[t]]

IssuedAt(t) == log[t][1].at

IsAudio(t) == Tx[t].source = "audio"

Bump(k, c, n)  == [k EXCEPT ![c] = @ + n]
Raise(k, c, n) == [k EXCEPT ![c] = Larger(@, n)]

CountAudioDrops(k, T) == Bump(k, "audio_dropped", Cardinality({t \in T : IsAudio(t)}))

\* Mutant: one pick_next() counts one drop, however many it makes.
CountOneDrop(k, T) == CountAudioDrops(Bump(k, "dropped", IF T = {} THEN 0 ELSE 1), T)

CountDrops(k, T) == CountAudioDrops(Bump(k, "dropped", Cardinality(T)), T)

CountCosts(k, t) ==
  LET done   == Bump(k, "completed", 1)
      cpu    == Bump(done, "cpu_cycles", CpuCycles(t))
      unpack == Bump(cpu, "decompress_cycles", DecompressCycles(t))
  IN Bump(unpack, "sgl_entries", SglEntries(t))

CountLatency(k, t, latency) ==
  IF IsAudio(t)
  THEN Bump(Raise(Bump(k, "audio_completed", 1), "audio_lat_max", latency),
            "audio_lat_sum", latency)
  ELSE IF Tx[t].source = "weight" THEN Raise(k, "weight_lat_max", latency) ELSE k

CountCompletion(k, t, latency) == CountLatency(CountCosts(k, t), t, latency)

\* Mutant: gives up one microsecond before the deadline.
PastDeadlineEarly(p, at) == p.deadline > 0 /\ at + 1 >= p.deadline

PastDeadline(p, at) == p.deadline > 0 /\ at >= p.deadline

\* Mutant: a transaction picked at its deadline is still put on the bus.
StaleAfterDeadline(p, at) == p.deadline > 0 /\ at > p.deadline /\ ~p.service_started

\* What pick_next() drops at the head of a queue.
Stale(p, at) == PastDeadline(p, at) /\ ~p.service_started

\* Mutant: compares bytes with the MiB of the configuration.
LodOfBytes(bytes) ==
  IF bytes = Cfg.lod_mb[0] THEN 0 ELSE IF bytes = Cfg.lod_mb[1] THEN 1 ELSE 2

\* The LOD of a completed weight is read off its size, in whole MiB.
LodOfSize(bytes) ==
  LET mb == bytes \div Cfg.mib
  IN IF mb = Cfg.lod_mb[0] THEN 0 ELSE IF mb = Cfg.lod_mb[1] THEN 1 ELSE 2

(***************************************************************************)
(* schedule_quantum_end(): a last, partial slice lasts as long as its      *)
(* bytes need (rounded down, one microsecond at least), any other one a    *)
(* quantum.                                                                *)
(***************************************************************************)
ServiceUs(p) ==
  IF p.bytes_remaining <= QuantumBytes(p.tx)
  THEN Larger(p.bytes_remaining \div Bandwidth(p.tx), 1)
  ELSE QuantumUs(p.tx)

\* Mutant: the last slice is charged a whole quantum, and the counter wraps below 0.
ServedWholeQuantum(p) == [p EXCEPT !.bytes_remaining = @ - QuantumBytes(p.tx)]

ServedOnce(p) ==
  [p EXCEPT !.bytes_remaining = @ - Smaller(@, QuantumBytes(p.tx))]

(***************************************************************************)
(* accept() and on_quantum_end() both do some bookkeeping and then call    *)
(* start_service_if_idle().  A half-step h is the state between the two:   *)
(* the transaction handed to on_arrive() if there is one, the quantum-end  *)
(* events left, the trace, the counters and what the observer was told.    *)
(* (The actions bind it with \E h \in {...}: a LET would be evaluated again *)
(* at every use.)                                                          *)
(***************************************************************************)
Half(at, arriving, es, lg, k, ld, sv) ==
  [at |-> at, arriving |-> arriving, ends |-> es, log |-> lg, kpi |-> k,
   loaded |-> ld, served |-> sv]

NewPending(t, at) ==
  [tx |-> t, bytes_remaining |-> Tx[t].size_bytes, deadline |-> DeadlineOf(t, at),
   service_started |-> FALSE]

Accepted(t, at) ==
  Half(at, <<NewPending(t, at)>>, ends, Emit(log, {t}, "Arrive", at),
       Bump(kpi, "issued", 1), loaded, served)

\* The completion observer hears of weights only.
ToldObserver(t) ==
  IF Tx[t].source = "weight"
  THEN [loaded EXCEPT ![t] = LodOfSize(Tx[t].size_bytes)] ELSE loaded

Moved(p) ==
  [served EXCEPT ![p.tx] = @ + p.bytes_remaining - ServedOnce(p).bytes_remaining]

Ended(e) ==
  LET p == ServedOnce(e.pending)
      t == p.tx
  IN IF p.bytes_remaining = 0
     THEN Half(e.at, <<>>, ends \ {e}, Emit(log, {t}, "Complete", e.at),
               CountCompletion(kpi, t, e.at - IssuedAt(t)), ToldObserver(t),
               Moved(e.pending))
     ELSE IF PastDeadline(p, e.at)
     THEN Half(e.at, <<>>, ends \ {e}, Emit(log, {t}, "Drop", e.at),
               CountDrops(kpi, {t}), loaded, Moved(e.pending))
     ELSE Half(e.at, <<p>>, ends \ {e}, log, kpi, loaded, Moved(e.pending))

\* The part of a half-step that start_service_if_idle() does not touch.
Keep(h) == now' = h.at /\ loaded' = h.loaded /\ served' = h.served

\* Mutant: service_started is not set, so every slice is announced.
Unmarked(p) == p

Marked(p) == [p EXCEPT !.service_started = TRUE]

(***************************************************************************)
(* start_service_if_idle(), given what pick_next() decided: the            *)
(* transactions it dropped and the one it returned, if any.                *)
(***************************************************************************)
Serve(h, dropped, p) ==
  LET lg == Emit(h.log, dropped, "Drop", h.at)
  IN /\ bus_idle' = FALSE
     /\ ends' = h.ends \cup {[pending |-> Marked(p), at |-> h.at + ServiceUs(p)]}
     /\ log' = IF p.service_started THEN lg ELSE Emit(lg, {p.tx}, "ServiceStart", h.at)
     /\ kpi' = CountDrops(h.kpi, dropped)

Rest(h, dropped) ==
  /\ bus_idle' = TRUE
  /\ ends' = h.ends
  /\ log' = Emit(h.log, dropped, "Drop", h.at)
  /\ kpi' = CountDrops(h.kpi, dropped)

\* start_service_if_idle() returns at once: the bus is busy.
KeepServing(h) ==
  /\ bus_idle' = FALSE
  /\ ends' = h.ends
  /\ log' = h.log
  /\ kpi' = h.kpi

\* Mutant: an arrival overtakes a quantum end that is due.
MayArriveAnyTime(t, at) == log[t] = <<>> /\ at >= now

\* Events of the queue run in time order: an arrival never after a due quantum end.
MayArrive(t, at) ==
  /\ log[t] = <<>>
  /\ at >= now
  /\ \A e \in ends : at <= e.at

IsNextEvent(e) == \A f \in ends : e.at <= f.at

\* The stale prefix of a queue: pick_next() drops it before it looks further.
StalePrefix(q, n, at) ==
  /\ \A i \in 1..n : Stale(q[i], at)
  /\ n < Len(q) => ~Stale(q[n + 1], at)

TxnsOf(q) == {q[i].tx : i \in DOMAIN q}
-----------------------------------------------------------------------------
(***************************************************************************)
(* What the properties of both policies are stated with.                   *)
(***************************************************************************)
Kinds(t) == [i \in DOMAIN log[t] |-> log[t][i].ev]

Last(t) == log[t][Len(log[t])].ev

Outstanding(t) == log[t] # <<>> /\ Last(t) \notin {"Complete", "Drop"}

Started(t) == Len(log[t]) >= 2 /\ log[t][2].ev = "ServiceStart"

Finished(t) == log[t] # <<>> /\ ~Outstanding(t)

OnBus(t) == \E e \in ends : e.pending.tx = t

Phase == [t \in Txn |-> IF log[t] = <<>> THEN "new"
                        ELSE IF Last(t) = "Complete" THEN "completed"
                        ELSE IF Last(t) = "Drop" THEN "dropped"
                        ELSE IF OnBus(t) THEN "serving" ELSE "waiting"]

Due == [t \in Txn |-> IF log[t] = <<>> THEN 0 ELSE DeadlineOf(t, IssuedAt(t))]

\* The PendingTxn objects alive for t: on the bus, or at a place of queue q.
OnBusAs(t)   == {e.pending : e \in {f \in ends : f.pending.tx = t}}
PlacesOf(t, q) == {i \in DOMAIN q : q[i].tx = t}

\* p agrees with what the trace says of its transaction.
AgreesWithTrace(p) ==
  /\ p.service_started = Started(p.tx)
  /\ p.deadline = DeadlineOf(p.tx, IssuedAt(p.tx))
  /\ p.bytes_remaining + served[p.tx] = Tx[p.tx].size_bytes
  /\ ~p.service_started => served[p.tx] = 0

\* The shortest time the slices of t take, whatever else is on the bus.
FullSlices(t) == (Tx[t].size_bytes - 1) \div QuantumBytes(t)
ServiceTime(t) ==
  IF Tx[t].size_bytes = 0 THEN 1
  ELSE FullSlices(t) * QuantumUs(t)
       + Larger((Tx[t].size_bytes - FullSlices(t) * QuantumBytes(t)) \div Bandwidth(t), 1)

\* How long t has been in the system, when its last record is written.
Latency == [t \in Txn |-> IF log[t] = <<>> THEN 0 ELSE log[t][Len(log[t])].at - IssuedAt(t)]

MaxOver(f, S) == IF S = {} THEN 0 ELSE Max({f[x] : x \in S})

BusTypeOK ==
  /\ now \in Nat
  /\ bus_idle \in BOOLEAN
  /\ ends \in SUBSET QuantumEvent
  /\ log \in [Txn -> Seq(Record)]
  /\ kpi \in Kpi
  /\ loaded \in [Txn -> Lods \cup {NoLod}]
  /\ served \in [Txn -> Nat]

(***************************************************************************)
(* The bus is marked idle exactly when no quantum-end event is pending,    *)
(* and there is never a second one: the flag bus_idle_ and the event queue *)
(* are two records of the same fact, written in different functions.       *)
(***************************************************************************)
OneTransferAtATime ==
  /\ bus_idle <=> ends = {}
  /\ \A e, f \in ends : e = f
  /\ \A e \in ends : e.at >= now

(***************************************************************************)
(* The trace of a transaction is one of five shapes, its timestamps do not *)
(* go back, and it completes no sooner after its first service than its    *)
(* slices take, with every byte moved: no slice is skipped or counted      *)
(* twice.                                                                  *)
(***************************************************************************)
TraceWellFormed ==
  \A t \in Txn :
    /\ Kinds(t) \in { <<>>, <<"Arrive">>, <<"Arrive", "Drop">>,
                      <<"Arrive", "ServiceStart">>,
                      <<"Arrive", "ServiceStart", "Drop">>,
                      <<"Arrive", "ServiceStart", "Complete">> }
    /\ \A i, j \in DOMAIN log[t] : i < j => log[t][i].at <= log[t][j].at
    /\ Started(t) /\ Last(t) = "Complete" =>
         /\ log[t][3].at - log[t][2].at >= ServiceTime(t)
         /\ served[t] = Tx[t].size_bytes

(***************************************************************************)
(* Deadlines: a transaction is never put on the bus for the first time at  *)
(* or after its deadline, and never given up before it.                    *)
(***************************************************************************)
DeadlinesHonoured ==
  \A t \in Txn : \A i \in DOMAIN log[t] :
    LET d == Due[t]
    IN /\ log[t][i].ev = "ServiceStart" => d = 0 \/ log[t][i].at < d
       /\ log[t][i].ev = "Drop" => d > 0 /\ log[t][i].at >= d

(***************************************************************************)
(* The KPI counters of the final report say what the trace file says: the  *)
(* two are written side by side in four places of scheduler.cpp.           *)
(***************************************************************************)
KpiMatchesTrace ==
  LET done  == {t \in Txn : Finished(t) /\ Last(t) = "Complete"}
      lost  == {t \in Txn : Finished(t) /\ Last(t) = "Drop"}
      audio == {t \in done : IsAudio(t)}
  IN /\ kpi["issued"] = Cardinality({t \in Txn : log[t] # <<>>})
     /\ kpi["completed"] = Cardinality(done)
     /\ kpi["dropped"] = Cardinality(lost)
     /\ kpi["audio_completed"] = Cardinality(audio)
     /\ kpi["audio_dropped"] = Cardinality({t \in lost : IsAudio(t)})
     /\ kpi["audio_lat_max"] = MaxOver(Latency, audio)
     /\ kpi["audio_lat_sum"] = SumFunctionOnSet(Latency, audio)
     /\ kpi["weight_lat_max"] = MaxOver(Latency, {t \in done : Tx[t].source = "weight"})
     /\ kpi["cpu_cycles"] = SumFunctionOnSet([t \in Txn |-> CpuCycles(t)], done)
     /\ kpi["decompress_cycles"] = SumFunctionOnSet([t \in Txn |-> DecompressCycles(t)], done)
     /\ kpi["sgl_entries"] = SumFunctionOnSet([t \in Txn |-> SglEntries(t)], done)

(***************************************************************************)
(* Whatever the policy, what a traffic generator sees of the scheduler, in *)
(* the trace and on the bus, is a behaviour of BusContract.                *)
(***************************************************************************)
Contract == INSTANCE BusContract WITH phase <- Phase, due <- Due, Deadline <- DeadlineOf
ImplementsBusContract == Contract!Spec
=============================================================================
