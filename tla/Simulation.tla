----------------------------- MODULE Simulation -----------------------------
(***************************************************************************)
(* run_one(): the traffic generators and the predictor put events into the *)
(* event queue, the main loop runs the earliest one (the one scheduled     *)
(* first among equals, see EventQueue) until none is left, the scheduler's *)
(* quantum ends wait in the same queue, and the scheduler's observer tells *)
(* the predictor which weight has come.  Every combination of the two bus  *)
(* policies and the three predictors; what FifoScheduler, QosScheduler,    *)
(* LodPredictor and IntentPredictor each take from outside, they take from *)
(* one another here.                                                       *)
(***************************************************************************)
EXTENDS Integers, Sequences, FiniteSetsExt

CONSTANTS
  Txn, Tx, Cfg,               \* as in Scheduler; a transaction is [source, weight, id]
  BurstUs,                    \* as in QosScheduler
  Npcs,                       \* scenario_.npcs, in order
  Quest, Interactions, Snapshot, Band, Cores, KeySpan, Size, Capacity, Word,
                              \* as in IntentPredictor
  Distance, MaxDistance, HysteresisPct,  \* as in LodPredictor
  TickUs, DurationMs, UsPerMs,
  MaxTime,                    \* bound: the last issue and the last completion
  Runs                        \* [policy, predictor, audio_enabled, texture_bursts]

Npc == {Npcs[i] : i \in DOMAIN Npcs}
Key == [npc : Npc, lod : 0..2]
Rank == [n \in Npc |-> CHOOSE i \in DOMAIN Npcs : Npcs[i] = n]
StopAtUs == DurationMs * UsPerMs
NoWeight == [npc |-> 0, lod |-> -1]

ASSUME NpcAssumption ==
  /\ Npcs \in Seq(Nat \ {0})
  /\ \A i, j \in DOMAIN Npcs : Npcs[i] = Npcs[j] => i = j
ASSUME ClockAssumption ==
  /\ TickUs \in Nat \ {0} /\ DurationMs \in Nat /\ UsPerMs \in Nat \ {0}
  /\ MaxTime \in Nat /\ StopAtUs <= MaxTime
  /\ Cfg.audio_deadline_us \in Nat
\* schedule_prefetch() throws if it is asked for any other LOD.
ASSUME BandsAssumption == DOMAIN MaxDistance \subseteq 0..2
ASSUME GeneratorAssumption ==
  /\ Cfg.packet_bytes \in Nat /\ Cfg.block_bytes \in Nat
  /\ Cfg.audio_rate_mbps \in Nat \ {0}
ASSUME RunAssumption ==
  \A r \in Runs :
    /\ r.policy \in {"fifo", "qos"} /\ r.predictor \in {"scripted", "lod", "intent"}
    /\ r.audio_enabled \in BOOLEAN
    /\ r.texture_bursts \in Seq([at_ms : Nat, rate_mbps : Int, duration_ms : Int])
    /\ \A i \in DOMAIN r.texture_bursts :
         LET b == r.texture_bursts[i] IN (b.at_ms + b.duration_ms) * UsPerMs <= MaxTime

VARIABLES
  now, bus_idle, ends, log, kpi, loaded, served,  \* as in Scheduler
  queue,                         \* the queue or the queues of the policy
  tokens, last_refill, vfin,     \* as in QosScheduler
  in_flight,                     \* of the predictor
  last_lod, resident,            \* as in LodPredictor
  entries, bytes_used, slots, handled, predictor_kpi,  \* as in IntentPredictor
  run,       \* the run of Runs that this is
  agenda,    \* the events of the generators and the predictor in the event queue
  next_seq,  \* EventQueue::next_seq_
  end_seq    \* the sequence number of the quantum end in the event queue

qosVars    == <<tokens, last_refill, vfin>>
busVars    == <<bus_idle, ends, log, kpi, loaded, served, queue, qosVars>>
lodVars    == <<last_lod, resident>>
intentVars == <<entries, bytes_used, slots, handled, predictor_kpi>>
predictorVars == <<in_flight, lodVars, intentVars>>
vars == <<now, busVars, predictorVars, run, agenda, next_seq, end_seq>>

Fifo == INSTANCE FifoScheduler
Qos  == INSTANCE QosScheduler

\* What Scheduler and QosScheduler assume of a configuration.
ASSUME TxnAssumption ==
  /\ IsFiniteSet(Txn)
  /\ Txn \subseteq [source : Fifo!Sources, weight : Key \cup {NoWeight}, id : Nat]
  /\ \A t \in Txn : /\ Tx[t].source \in Fifo!Sources
                    /\ Tx[t].qos \in Fifo!QosTags
                    /\ Tx[t].size_bytes \in Nat
ASSUME ServiceAssumption ==
  \A t \in Txn : /\ Fifo!Bandwidth(t) \in Nat \ {0} /\ Fifo!QuantumUs(t) \in Nat \ {0}
                /\ Fifo!CpuCycles(t) \in Nat
                /\ Fifo!DecompressCycles(t) \in Nat
                /\ Fifo!SglEntries(t) \in Nat
ASSUME BucketAssumption ==
  /\ Qos!TokenRefill \in Nat
  /\ Qos!TokenCapacity \in Nat
  /\ Cfg.bus_bw * Cfg.quantum_us \in Nat
  /\ \A c \in Qos!BulkTags : Qos!Weight(c) \in Nat

\* The tick in the event queue, and the weights on their way to the predictor.
NextTick ==
  LET ticks == {e \in agenda : e.source = "tick"}
  IN IF ticks = {} THEN -1 ELSE (CHOOSE e \in ticks : TRUE).at

Fetches ==
  [k \in Key |-> Cardinality({e \in agenda : e.weight = k})
                 + Cardinality({t \in Txn : t.weight = k /\ Fifo!Outstanding(t)})]

Lod    == INSTANCE LodPredictor
            WITH next_tick <- NextTick, fetches <- Fetches, DurationUs <- StopAtUs
Intent == INSTANCE IntentPredictor
            WITH next_tick <- NextTick, fetches <- Fetches, kpi <- predictor_kpi

-----------------------------------------------------------------------------
(***************************************************************************)
(* Events.  The closure of a generator's event keeps when to stop and how  *)
(* long to wait, that of a prefetch its weight.                            *)
(***************************************************************************)
\* The generators round the period to the nearest microsecond, one at least.
Period(bytes, rate_mbps) == Max({1, (2 * bytes + rate_mbps) \div (2 * rate_mbps)})

AudioPeriod == Period(Cfg.packet_bytes, Cfg.audio_rate_mbps)

(***************************************************************************)
(* One handler may schedule several events.  Until they get the numbers of *)
(* the event queue, `seq` is the place of an event among them.             *)
(***************************************************************************)
Event(at, place, source, weight, period, until) ==
  [at |-> at, seq |-> place, source |-> source, weight |-> weight,
   period |-> period, until |-> until]

TrafficEvent(at, place, source, period, until) ==
  Event(at, place, source, NoWeight, period, until)

\* schedule_prefetch(), NPC by NPC: one event that does not come again.
Prefetch(k, at) == Event(at, Rank[k.npc], "weight", k, 0, at)

\* The next tick is scheduled last.
TickEvent(at) == Event(at, Len(Npcs) + 1, "tick", NoWeight, 0, at)

\* schedule_next() and schedule_block() return at once when it is too late.
Unless(e) == IF e.at >= e.until THEN {} ELSE {e}

\* The order in which run_one() starts them: audio, the bursts, the predictor.
AudioStart(r) ==
  IF r.audio_enabled
  THEN Unless(TrafficEvent(AudioPeriod, -Len(r.texture_bursts), "audio",
                           AudioPeriod, StopAtUs))
  ELSE {}

\* schedule_burst()
Burst(b, place) ==
  LET start == b.at_ms * UsPerMs
  IN IF b.rate_mbps <= 0 \/ b.duration_ms <= 0 THEN {}
     ELSE Unless(TrafficEvent(start, place, "texture", Period(Cfg.block_bytes, b.rate_mbps),
                              start + b.duration_ms * UsPerMs))

BurstStarts(r) ==
  UNION {Burst(r.texture_bursts[i], i - Len(r.texture_bursts)) : i \in DOMAIN r.texture_bursts}

\* start() of the predictor: a LOD0 for everybody, or the first tick.
PredictorStart(r) ==
  IF r.predictor = "scripted" THEN {Prefetch([npc |-> n, lod |-> 0], 0) : n \in Npc}
                              ELSE {TickEvent(0)}

FirstEvents(r) == AudioStart(r) \cup BurstStarts(r) \cup PredictorStart(r)

\* Mutant: the event queue forgets the numbers it has just given out.
SeqReused(n) == next_seq

SeqAfter(n) == next_seq + n

\* schedule() gives the events of B, in the order of their places, the numbers from `first`.
Numbered(B, first) ==
  {[e EXCEPT !.seq = first + Cardinality({f \in B : f.seq < e.seq})] : e \in B}

Init ==
  /\ run \in Runs
  /\ \/ run.policy = "fifo" /\ Fifo!Init /\ tokens = 0 /\ last_refill = 0 /\ vfin = 0
     \/ run.policy = "qos" /\ Qos!Init
  /\ in_flight = {} /\ resident = {} /\ last_lod = [n \in Npc |-> Lod!Cold]
  /\ Intent!CacheInit
  /\ slots = [n \in {} |-> 0] /\ handled = {}
  /\ predictor_kpi = [c \in Intent!Counters |-> 0]
  /\ agenda = Numbered(FirstEvents(run), 0)
  /\ next_seq = Cardinality(FirstEvents(run))
  /\ end_seq = 0

-----------------------------------------------------------------------------
(***************************************************************************)
(* pop_and_run(): the least event.                                         *)
(***************************************************************************)
Before(at1, seq1, at2, seq2) == at1 < at2 \/ (at1 = at2 /\ seq1 < seq2)

\* Mutant: an event does not wait for the quantum end that is due.
IsFirstOfAgenda(e) == \A f \in agenda \ {e} : Before(e.at, e.seq, f.at, f.seq)

IsFirst(e) ==
  /\ \A f \in agenda \ {e} : Before(e.at, e.seq, f.at, f.seq)
  /\ \A q \in ends : Before(e.at, e.seq, q.at, end_seq)

QuantumEndIsFirst == \A q \in ends, f \in agenda : Before(q.at, end_seq, f.at, f.seq)

\* Mutant: the stop time is inclusive.
AgainAtStop(e) ==
  IF e.period > 0 /\ e.at + e.period <= e.until THEN {[e EXCEPT !.at = @ + e.period]} ELSE {}

\* After its transaction was accepted, a generator schedules its next event.
Again(e) ==
  IF e.period > 0 THEN Unless([e EXCEPT !.at = @ + e.period]) ELSE {}

\* The transaction of e: the next one of its kind.
NextTxn(e) ==
  [source |-> e.source, weight |-> e.weight,
   id |-> 1 + Cardinality({t \in Txn : /\ t.source = e.source /\ t.weight = e.weight
                                       /\ log[t] # <<>>})]

\* accept() and on_quantum_end() may start a service and so schedule a quantum end.
StartsService == ends' # ends /\ ends' # {}

\* What a handler schedules: the quantum end first, if it starts a service, then B.
Scheduled(kept, B) ==
  LET mine == IF StartsService THEN 1 ELSE 0
  IN /\ end_seq' = IF StartsService THEN next_seq ELSE end_seq
     /\ agenda' = kept \cup Numbered(B, SeqAfter(mine))
     /\ next_seq' = SeqAfter(mine + Cardinality(B))

\* A generator's event, or that of a prefetch: a transaction for the scheduler.
RunGenerator(e) ==
  /\ e.source # "tick"
  /\ IsFirst(e)
  /\ NextTxn(e) \in Txn  \* bound: the transactions that Txn has
  /\ \/ run.policy = "fifo" /\ Fifo!Accept(NextTxn(e), e.at) /\ UNCHANGED qosVars
     \/ run.policy = "qos" /\ Qos!Accept(NextTxn(e), e.at)
  /\ Scheduled(agenda \ {e}, Again(e))
  /\ UNCHANGED <<predictorVars, run>>

\* What a tick schedules: the missing weights and the next tick.
TickSchedules(e, missing) ==
  LET next == Lod!Rearmed(e.at)
  IN Scheduled(agenda \ {e}, {Prefetch(k, e.at) : k \in missing}
                              \cup IF next = Lod!NoTick THEN {} ELSE {TickEvent(next)})

LodTick(e) ==
  \E dist \in [Npc -> Distance] : \E want \in {Lod!Wanted(dist)} :
    /\ Lod!Decide(want)
    /\ TickSchedules(e, Lod!Missing(want))
    /\ UNCHANGED intentVars

IntentTick(e) ==
  \E see \in [Npc -> Snapshot], stopped \in BOOLEAN :
    \E want \in {Intent!Desired(see, stopped, e.at)} :
      /\ Intent!Decide(see, want, e.at)
      /\ TickSchedules(e, Intent!Missing(want))
      /\ UNCHANGED lodVars

\* tick()
RunTick(e) ==
  /\ e.source = "tick"
  /\ IsFirst(e)
  /\ now' = e.at
  /\ UNCHANGED <<busVars, run>>
  /\ \/ run.predictor = "lod" /\ LodTick(e)
     \/ run.predictor = "intent" /\ IntentTick(e)

\* The weight that the scheduler tells its observer of, by NPC and LOD.
Told == {[npc |-> Tx[t].inst, lod |-> loaded'[t]] : t \in {u \in Txn : loaded'[u] # loaded[u]}}

\* The completion observer: on_complete() of the predictor.
Observe ==
  \/ /\ Told = {} \/ run.predictor = "scripted"
     /\ UNCHANGED predictorVars
  \/ \E k \in Told : /\ run.predictor = "lod"
                     /\ Lod!OnComplete(k)
                     /\ UNCHANGED intentVars
  \/ \E k \in Told, d \in Intent!Distances : /\ run.predictor = "intent"
                                             /\ Intent!OnComplete(k, now', d)
                                             /\ UNCHANGED lodVars

RunQuantumEnd ==
  /\ QuantumEndIsFirst
  /\ \/ run.policy = "fifo" /\ Fifo!QuantumEnd /\ UNCHANGED qosVars
     \/ run.policy = "qos" /\ Qos!QuantumEnd
  /\ Observe
  /\ Scheduled(agenda, {})
  /\ UNCHANGED run

Next == (\E e \in agenda : RunGenerator(e) \/ RunTick(e)) \/ RunQuantumEnd

\* while (q.pop_and_run(clock)) {}
Spec == Init /\ [][Next]_vars /\ WF_vars(Next)
-----------------------------------------------------------------------------
(***************************************************************************)
(* What the event queue holds is what the program is about to do: no event *)
(* lies in the past of the clock (schedule() would throw), no two have the *)
(* same sequence number, and there is at most one tick and one audio event *)
(* to come.                                                                *)
(***************************************************************************)
AgendaSound ==
  /\ \A e \in agenda : e.at >= now /\ e.seq < next_seq
  /\ \A e, f \in agenda :
       \/ e.seq = f.seq
       \/ e.source = f.source /\ e.source \in {"tick", "audio"}
       => e = f
  /\ \A q \in ends : q.at >= now /\ end_seq < next_seq /\ \A e \in agenda : e.seq # end_seq

\* The blocks of a burst are due at the multiples of its period from its start.
BlockTimes(b) ==
  LET start == b.at_ms * UsPerMs
  IN IF b.rate_mbps <= 0 THEN {}
     ELSE {at \in start..(start + b.duration_ms * UsPerMs - 1) :
             (at - start) % Period(Cfg.block_bytes, b.rate_mbps) = 0}

TextureDue(at) == {i \in DOMAIN run.texture_bursts : at \in BlockTimes(run.texture_bursts[i])}

IssuedOf(source) == {t \in Txn : t.source = source /\ log[t] # <<>>}
IssuedAt(t) == log[t][1].at

\* A tick's prefetches arrive before time goes on; the scripted ones at 0.
PrefetchTimes ==
  IF run.predictor = "scripted" THEN {0}
  ELSE {at \in 0..StopAtUs : at % TickUs = 0 /\ (at < StopAtUs \/ at = 0)}

(***************************************************************************)
(* The traffic keeps its schedule whatever the bus is doing: packet i of   *)
(* the audio stream is issued at i periods exactly, as many texture blocks *)
(* at a time as bursts have one due then (though all bursts share one      *)
(* generator and its ids), weights at ticks; and when the generators have  *)
(* stopped, everything due before the end has been issued.                 *)
(***************************************************************************)
TrafficOnTime ==
  /\ \A t \in IssuedOf("audio") :
       IssuedAt(t) = t.id * AudioPeriod /\ IssuedAt(t) < StopAtUs
  /\ \A t \in IssuedOf("weight") : IssuedAt(t) \in PrefetchTimes
  /\ \A t \in IssuedOf("texture") : TextureDue(IssuedAt(t)) # {}
  /\ agenda = {} =>
       /\ Cardinality(IssuedOf("audio"))
            = IF run.audio_enabled THEN Max({0, (StopAtUs - 1) \div AudioPeriod}) ELSE 0
       /\ run.predictor = "scripted" => Cardinality(IssuedOf("weight")) = Len(Npcs)
       /\ \A at \in 0..now :
            Cardinality(TextureDue(at))
              = Cardinality({t \in IssuedOf("texture") : IssuedAt(t) = at})

(***************************************************************************)
(* The main loop comes to its end: the generators and the ticks stop, no   *)
(* predictor waits for a weight any more, and every transaction has been   *)
(* completed or dropped by then -- but for audio packets that the QoS      *)
(* policy left without tokens (see CriticalWaitsForRefill there).          *)
(***************************************************************************)
RunEnds ==
  <>[](/\ agenda = {} /\ ends = {} /\ in_flight = {}
       /\ \A t \in Txn : Fifo!Outstanding(t) => run.policy = "qos" /\ t.source = "audio")

(***************************************************************************)
(* What the program does on the bus is what the scheduler modules allow,   *)
(* so all that is shown of them holds of it: the order of the event queue, *)
(* with its ties, never lets an arrival overtake a quantum end that is due. *)
(* (Time passes at ticks, too.)                                            *)
(***************************************************************************)
ImplementsBus ==
  /\ run.policy = "fifo" => Fifo!Init
  /\ run.policy = "qos" => Qos!Init
  /\ [][IF run.policy = "fifo" THEN Fifo!Next ELSE Qos!Next]_busVars

(***************************************************************************)
(* The loop through the bus closes: with the scheduler between a prefetch  *)
(* and its completion, reading the LOD off the size, both predictors go    *)
(* through the steps they go through when the bus completes what was asked *)
(* for, once each.  A tick's weight is on the agenda first, then a         *)
(* transaction; from asking to completion it never disappears.             *)
(***************************************************************************)
ImplementsPredictor ==
  /\ run.predictor = "lod" => Lod!Init
  /\ run.predictor = "intent" => Intent!Init
  /\ [][/\ run.predictor = "lod" => Lod!Next
        /\ run.predictor = "intent" => Intent!Next
        /\ run.predictor = "scripted" => UNCHANGED predictorVars]_<<predictorVars, NextTick, Fetches>>
=============================================================================
