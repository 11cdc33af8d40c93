# NeuroStream in TLA+

NeuroStream is a discrete-event simulator of a game console's system bus: audio
packets, texture blocks and neural-network weights of NPCs compete for one bus
under a FIFO or a QoS scheduler, and a predictor decides which weights to
fetch. This directory holds TLA+ models of it, their TLC configurations, and
proofs checked by TLAPS.

    tlc -workers 2 -config MCFifo.cfg MCFifo.tla      # a run
    tlapm FifoScheduler_proofs.tla                    # the proofs

`PROJECT.json` lists runs, mutants, findings, hazards and theorems, and maps
every definition to the lines of the source it models.

## The system

Everything happens in one thread: handlers of a time-ordered event queue. The
concurrency is that of the simulated actors, whose handlers interleave by
simulated time and, at equal times, by the order in which they were scheduled.

| Component | State | Operations | What makes it correct |
|---|---|---|---|
| Event queue, clock (`event_queue.hpp`, `clock.hpp`) | heap of (time, number, handler, flag), clock | `schedule`, `cancel`, `pop_and_run`, `peek_time` | time order, ties in call order, what is cancelled never runs, nothing runs twice |
| Scheduler base (`scheduler.cpp`) | idle flag, transaction on the bus (inside an event), trace, KPIs | `accept`, `start_service_if_idle`, `schedule_quantum_end`, `on_quantum_end` | one transfer at a time, nothing lost, deadlines, KPIs agree with the trace |
| FIFO policy | one deque | `on_arrive`, `pick_next` | work conserving, nobody is overtaken while waiting, all of it ends |
| QoS policy | three deques, token bucket, two virtual times | `refill_tokens`, `on_arrive`, `pick_next` | critical class within its budget over every stretch of time, bulk classes fair |
| Generators (`injector.cpp`) | next ids, self-rescheduling events | audio, texture, prefetch | on schedule whatever the bus does, stop at the end |
| LodPredictor | last LOD, in flight, resident | `tick`, `on_complete`, `select_lod` | no duplicate fetch, no thrashing |
| IntentPredictor | core slots, in flight, interactions handled, KPIs | `tick`, `on_complete` | a busy core keeps its weight, each interaction is attempted once |
| NpuCache | entries with pins, bytes used | `admit`, `touch`, `pin`, `unpin` | bytes exact, pinned stays, farthest goes first |
| Main loop (`main.cpp`) | the above | `run_one` | comes to an end with nothing waited for |
| Latency histogram | 50 counts, total, maximum, sum | `record`, `merge`, `percentile` | a percentile is never below the exact one, nor above it by more than a bucket |
| Waypoints (`scenario.cpp`) and `make_snapshot` | – (the lists) | `position_at`, `velocity_at`, `facing_at` | the three agree on the leg; the look-ahead is where the walker will be |
| YAML, trace files, reports, command line | – | input and output | not modelled, see below |

Calls: a generator's event calls `accept`; `accept` and `on_quantum_end` end in
`start_service_if_idle`, which asks the policy and schedules the next quantum
end; a completed weight calls the predictor's `on_complete` through the
observer; a predictor's tick schedules prefetches, which arrive at the same
microsecond but as events of their own.

Hard parts: ties at one microsecond; transactions that expire while they wait
or on the bus; the lazily refilled bucket, which wakes nobody; a slot of a core
that is taken over; completions between ticks; an admission that evicts and
then refuses; rounding of slices; 32-bit sums and 8-bit keys. Each is in
`PROJECT.json` under "hazards", with the line and the properties that cover it.

## Modules

    Timeline  <-implements-  EventQueue
    BusContract  <-implements-  FifoScheduler, QosScheduler  -extend->  Scheduler
    NpuCache  <-extends-  CacheClient, IntentPredictor
    LodPredictor  <-extends-  LodHistory
    FifoScheduler, QosScheduler, LodPredictor, IntentPredictor  <-implements-  Simulation
    LatencyHistogram     Waypoints

    FiniteSums  <-extend-  SchedulerLemmas  <-extend-  FifoScheduler_proofs, QosScheduler_proofs
    FiniteSums  <-extend-  IntentPredictor_proofs, Motion_proofs, Structures_proofs    (TLAPS)
    Motion_proofs  -of->  LodHistory, Waypoints
    Structures_proofs  -of->  EventQueue, LatencyHistogram
    FifoScheduler_proofs, QosScheduler_proofs  <-instantiated by-  Simulation_proofs

* **EventQueue** / **Timeline**. One `Event` per call of `schedule`; `handle` is
  the shared flag, `heap` keeps cancelled entries as tombstones as the code
  does. `failed` is the exception of `advance_to`. Timeline is the agenda a user
  of the queue has in mind; the refinement mapping drops the tombstones.
* **Scheduler**. The service model of `accept` (paths, compression, quantum,
  costs) as operators on a transaction; variables `bus_idle`, `ends` (the
  quantum-end events, whose closure owns the transaction), `log` (what `emit`
  writes), `kpi`, `loaded` (what the observer was told), `served` (history).
  `accept` and `on_quantum_end` are one action each in the policies; a
  half-step record carries the state between their own bookkeeping and
  `start_service_if_idle`, so each action is the whole handler.
* **FifoScheduler**, **QosScheduler**. The policies' `on_arrive` and `pick_next`,
  including the loop that drops stale heads. Tokens are in hundredths of a byte
  and virtual times are multiplied by both weights, so the doubles of the code
  become exact integers; rounding of doubles is not modelled. `BurstUs` stands for
  the 10000 us of budget that scheduler.cpp:231 fixes as the capacity of the
  bucket; the runs scale it down with the other times.
* **BusContract**. What a generator may rely on: the phases of a transaction, one
  transaction on the bus, nothing given up before its deadline. Scheduler
  instantiates it (`Contract`) with the phase read off the trace and the bus.
* **Simulation**. `run_one`: `agenda` holds the events of the generators and the
  predictor, `ends` the quantum end, `next_seq`/`end_seq` the insertion numbers
  that decide ties. The module defines no scheduler or predictor of its own: it
  instantiates the four modules and calls their `Accept`, `QuantumEnd`,
  `Decide` and `OnComplete`, so the order of calls within a handler, what it
  schedules and in which order are all that is added. A weight goes from a tick
  to the agenda, to a transaction, to `loaded`, to `on_complete`; the LOD it
  comes back with is the one `on_quantum_end` reads off its size. What the
  predictors call external (`next_tick`, `fetches`) is computed here from the
  agenda and the bus. Only the snapshots a tick sees remain free. The events one
  handler schedules are a set; the place of each in the order of the calls is
  what `Numbered` makes its insertion number of.
* **NpuCache**. Operations as operators that several clients use; **CacheClient**
  calls them in any order. `EvictionLoop` is the loop of `admit`, round by round:
  test, candidates, `pick_victim`; what its rounds come to is left to be checked
  (`EvictsInOrder`). Ties are free, as the code walks an `unordered_map`. Sums
  are modulo `Word`.
* **IntentPredictor**. One action per tick and per completion. A tick sees any
  combination of the snapshots in `Snapshot` (see Waypoints for what makes one).
  Time is in microseconds, interactions are in milliseconds (`UsPerMs`). The
  loop over NPCs is written as sets, with `Winners` for the one thing its order
  decides: who gets the last free cores. `last_lod_` is never read and left out.
* **LodPredictor**. `select_lod` case by case; distances are whole metres.
  **LodHistory** adds what its properties need to remember: how often a weight
  was asked for, and where an NPC was when it left a LOD.
* **LatencyHistogram**. `log2` and `pow` are exact: the square of the lower bound
  of bucket b is 2^b. Negative latencies and the last bucket are included; the
  reference is the percentile of the recorded samples.
* **Waypoints**. The list as loaded (any sorted permutation, as `std::sort` is
  not stable), and one snapshot per tick. One coordinate, on integers chosen so
  that every interpolation is exact.

## Runs

| Run | Shows | Bounds |
|---|---|---|
| eventqueue | the queue implements Timeline; numbers identify entries | 4 calls at 2 times: ties, tombstones on top and below, events in the past |
| fifo | all FIFO properties, BusContract | 4 transactions issued at 0..4 in any order; slices: 2+1 for audio, 3 for texture, 2 for the bounced weight; deadlines expire while waiting, between slices and on the tick |
| qos | all QoS properties, BusContract | same traffic at 0..5; two packets exceed the bucket, which has to refill for its cap to matter; a neuro_dma slice shorter than the bus quantum |
| cache | all cache properties | 4 weights, 3 sizes, capacity for 2–3, pins up to 2, distances 1–2 |
| intent | slots, fetches and counters | 2 NPCs, 1 core, 3 interactions (2 overlap), keys of 2 bits (`KeySpan`) that wrap and stay different, 4 ticks, completions any time |
| lod | deadband and fetches | thresholds and hysteresis of config.yaml, 9 distances on both sides of each threshold, 5 ticks; NPCs share no state, so one suffices |
| simulation | end to end | both policies; the scripted predictor with audio on and off and every pair of 18 bursts; the two others with two NPCs, audio, no burst or one, and every course past three distances (lod) or two snapshots (intent), 4 ticks; more audio than the bucket pays for, a cache that holds one LOD0 |
| histogram | percentiles and merges | 8 buckets, 12 latencies on both sides of bucket bounds, negative and beyond the last; 4 samples in 2 histograms, 5 percentiles |
| motion | look-ahead and facing | 3-point paths in order, out of order, with two waypoints at a time; every choice of 2 positions and 3 facings; 4 NPCs |
| motion_velocity | expected to be violated | the waypoints of scenarios/backward.yaml, scaled |
| qos_stranded, intent_pins | expected to be violated, see Findings | |

The bounds are small because the code has no thresholds beyond them: a third
slice, a second expired head, a third victim behave as the second does. Sizes,
rates and deadlines were chosen so that quantum ends, arrivals and deadlines
fall on the same microsecond. `MaxTime` bounds only when transactions may be
issued; what was issued then runs to its end. In the cache and intent modules
it bounds the time of the calls. Simulation issues its traffic by itself: there
`MaxTime` is at least the end of the scenario and of every burst, and bounds
the completions; `NextTxn(e) \in Txn` bounds the number of transactions, which
`RunEnds` shows to be large enough.

Every property of a passing run has a mutant: a plausible wrong version of one
definition (marked "Mutant" in the modules) under which TLC finds the property
violated.

**Fairness.** `WF(QuantumEnd)` in the schedulers, `WF(PopAndRun)` in EventQueue,
`WF(Next)` in Simulation: `while (q.pop_and_run(clock)) {}` runs every event in
the queue. Nothing obliges a generator to issue anything in the scheduler
modules. Deadlock is not checked where the system stops when its queue is empty.

### Findings

* **Stranded critical transaction** (`qos_stranded`, scheduler.cpp:282). With no
  tokens and nothing else to serve, nothing wakes the scheduler at the refill.
* **Pin leak** (`intent_pins`, predictor.cpp:293). Two interactions of an NPC overlap,
  the second takes over the slot and pins again. At the tick after both are over,
  the slot is released with one unpin; the NPC has no slot, and one pin is left.
* **Velocity of the wrong leg** (`motion_velocity`, scenario.cpp:204). Up to the
  first waypoint, that is at the first tick of every scenario, the velocity is
  that of the last leg.
* Without a run, code: the 32-bit sum of a cache above 2 GiB wraps
  (npu_cache.cpp:47); interactions a multiple of 256 ms apart share a key
  (predictor.cpp:413).
* Without a run, documentation: the virtual time of a bulk class charges bytes not
  served (scheduler.cpp:300); the FIFO is round robin by quantum
  (scheduler.hpp:99); the trace has no Issue and drops after ServiceStart
  (Design_Detail.md:476); saturated interactions are not queued
  (Design_Detail.md:1161); a cold start is coarse everywhere, not only inside a
  deadband (Design_Detail.md:571); a walker who has arrived keeps a velocity
  (Design_Detail.md:941); the frustum has no distance (Design_Detail.md:881);
  bucket 49 is off by 10^3 (latency_histogram.cpp:12); `weight_prefetches` is
  documented and refused (docs/scenario-schema.md:19).

## Proofs

The theorems hold for every value of the constants that satisfies the named
assumptions of the modules: any finite set of transactions, any positive
bandwidths and quanta, natural sizes, costs and weights, any set of NPCs, any
scenario, any number of buckets and any latencies. Where a theorem needs more
of the constants, it says so as a hypothesis (`SlicesFit`, `NoWrap`, `KeysDiffer`). TLC evaluates these assumptions on the instances of the runs. In
each module `Invariance` proves an inductive invariant; the other theorems
follow from it.

**FiniteSums.** Bytes, latencies, sizes and samples are added up with
`SumFunctionOnSet` of the community modules. The induction behind its lemmas
needs no theorem with an operator parameter: `SubsetInduction` says that a set
of subsets of a finite set that is closed under adding an element contains the
whole set, by the well-foundedness of the strict subset order. What a sum over
the empty set, one more element, two parts, a changed value is, and that sums of
naturals are monotone, follows; likewise that a finite set of integers has a
largest and a smallest element.

**Schedulers** (`SchedulerLemmas`, `FifoScheduler_proofs`, `QosScheduler_proofs`).

* *Types, one transfer at a time, deadlines.* The checked invariants are not
  inductive alone: that a transaction is never first served after its deadline
  needs that the deadline *stored* in each pending transaction, in a queue or in
  a quantum-end event, is the one its trace implies, that the trace is not
  empty, and that its first record is no later than `now` (`Known`). `IInv` says
  this of every element of every queue and of every event; for QoS also that a
  queue holds its own class only and that the bucket stays in
  `0..TokenCapacity`. `SchedulerLemmas` shows once, for both policies, that a
  half-step preserves `HalfInv` and that `Serve`, `Rest` and `KeepServing`
  re-establish `BusInv`.
* *Exempt.* QoS looks for late transactions in the critical queue only, so an
  audio packet sent as bulk may start late. The lemmas take the set of such
  transactions as a parameter: empty for FIFO, and empty for QoS under the
  premise of its `DeadlinesKept`, that audio is critical (config.yaml:23).
* *Rest.* `NeverIdleWithWork` (FIFO) and `IdleWhenThrottled` (QoS): the bus is
  idle only with nothing to do, or with nothing it can pay for.
* *Refinement.* `KeepsContract`: every step of either policy is a step of
  BusContract or a stutter. It needs `RInv`: `IInv`, and that no transaction is
  in two places (`WaitsOnce`, in one queue; that it is not in two follows from
  its class), that what is on the bus has not ended, and that each object says
  what trace and history say (`Held`). The policy-independent half
  (in `SchedulerLemmas`) shows what `Serve` and `Rest` do to the mapped
  variables; the policy has to show which transactions its `PickNext` drops and
  that those it keeps stay where they are. The same invariant gives `NoneLost`.
* *Trace and counters.* `TraceRight` and `CountersTrue` from `LInv`: `RInv` and
  `TraceInv`, which says of the trace that records of a transaction are those of
  one life in order (`Ordered`), that what they add up to is what was `served`
  (`Told`) but for the slice on the bus (`OnSlice`), and that every counter is the
  sum, count or maximum of the trace it stands for (`Matches`). `TraceStep`
  shows it once for both policies.
* *Budget.* `WithinBudget` is about every stretch of time, from any moment on.
  `BudgetInv(from)` keeps the books of the bucket since `from`: what was charged to the
  critical transactions first served since then, the one on the bus included, and the tokens
  left are no more than a full bucket and the refills until `last_refill`. `Books`
  is that for every `from`: a moment that has not come yet starts with books that
  balance, since the bucket is never over its cap, and a refill that is late counts
  from the last one. It assumes `SlicesFit`: a critical slice moves no more than
  the bus quantum it is charged for. `AudioSlicesFit` shows it where all that is
  critical is audio, as in config.yaml; the hazard at scheduler.cpp:273 is the
  case where it fails.
* *Order.* `PlacesOnlyAdvance` (FIFO): nothing puts a waiting transaction back.
  `FairWithinASlice` (QoS): a charge is at most `MaxVirtualCost`, and with both
  bulk queues filled it goes to the class with the smaller virtual time, so the
  gap stays within one charge or shrinks.

**Motion_proofs.**

* *Distances.* `NothingAskedTwice` is nearly inductive: it relates the history to
  `in_flight` and `resident`. `NoThrashing` needs that a LOD was left outwards only
  from beyond its deadband (`LeftBeyondDeadband`), which `MoveOutSound` shows of
  `select_lod`. There are at most three LODs, so the maxima and minima in
  `select_lod` are found by cases.
* *Waypoints.* The invariant is only that the lists are as loaded (`Path`) and the
  snapshot that of the tick; the work is in `PositionOnLeg`, where a duration that
  divides the way (`ExactAssumption`) turns the interpolation into a product with
  `velocity_at`'s slope, and in `LooksWhereTold`, which follows `facing_at` before, on
  and after every leg (`ShareLiesBetween`: a share of a turn, rounded down, is
  within the turn). Two waypoints of one time that differ made both properties
  false of lists no run had: `surround_at` takes the first of them, or the last
  one at the end of the path. The premises `~JumpsAt` and `~FacingUnclear` say so,
  and the motion run has such lists.

**IntentPredictor_proofs** (with the cache as the predictor uses it).

* *Slots.* `SlotsAreSafe` and `FetchedOnce` are proved together: a slot may name only
  what is resident, a completion brings a weight in and may evict others, and
  what protects the slots is that eviction never takes a pinned weight, whatever
  victims it picks. `InFlightIsOnTheBus` says when a completion may come.
* *Cache.* `BytesAreTrue`, `WithinCapacity` from `CacheInv`, which
  is both the type of the cache and its byte count: that an admission stays within
  the capacity needs that the count is true, and the reverse. They assume `NoWrap`:
  a full cache and one weight that could be admitted do not exceed the 32 bits
  in which npu_cache.cpp:47 adds them. Without it they are false, which is the
  hazard listed there. `EvictionsInOrder` speaks of all rounds of an admission
  together and the loop of one at a time: each victim was worst among the candidates
  of its round (`PickVictim`), so it goes no later than any that stays; before the
  last round the newcomer did not fit (`LoopOutcome`).
* *Counters.* `InteractionsAreCounted`: `TallyInv` says that `handled` is the set of
  keys of what the ticks so far have begun, and that hits and misses add up to
  its cardinality; `ClockInv`, that the next tick is the multiple of the period
  after the last. It assumes `KeysDiffer`, that the interactions of an NPC
  differ in the 8 bits of `at_ms` a key keeps; otherwise it is false
  (predictor.cpp:413). `TypeCorrect` adds the types of the counters.

**Structures_proofs.**

* *Event queue.* `IInv` adds to the types and to distinct numbers that what
  ran is out of the heap (`RunAtMostOnce`) and that history and clock agree
  (`RunInOrder`); these two are stated there and only proved. Cancelled entries
  stay in the heap, so that no handler runs twice rests on the flag as well as on
  the heap. `BehavesAsAgenda` is the safety part of `ImplementsTimeline`: each step of
  heap and flags is a step of the agenda. The agenda puts each live entry at its
  place, one more than the number of live entries before it. A new one, whose
  number is the largest, goes behind those of its time (`AddLast`), one that is
  cancelled or run leaves the places of the others in order (`TakeOut`). It needs
  that the heap is finite (`AInv`), and that tombstones have no place.
* *Histogram.* `HInv`: count, sum, maximum and buckets of every
  histogram are those of its samples (`Describes`). A record changes one sample and
  one bucket (`RecordDescribes`), a merge adds two functions (`MergeDescribes`);
  `NothingLost` says nothing else. `PercentilesRoundUp` has two halves.
  `PercentileIs`: the bucket at which the cumulated counts reach the rank is the
  bucket of the exact percentile, since buckets grow with latencies and
  `CumulatedIs` counts the samples up to a bucket. `RoundsUp`: the upper bound of the
  bucket of a latency against that latency. The bounds are powers of 2, of which
  the prover knows nothing: `PowerNext` has `2^(n + 1) = 2 * 2^n` from the number of subsets of
  a finite set, and `Upward` is induction over naturals for a set.

**Simulation_proofs.** All three theorems come from `RunInv`: the invariant of the policy
(`RInv` of its module), a sound and well-typed agenda (`AgendaInv`), and `IdsInOrder`, that
the ids of a generator count what it has issued, so that its next transaction
is new to the bus.

* *Agenda.* `NumberedInOrder` shows what numbering by place gives: no gap, no repeat,
  nothing but the number changed. `ScheduledSound` is what any handler may schedule
  without harm; `AgainPlaced`, `TickPlaces` and `FirstPlaced` that generators, ticks and
  `run_one` keep to it. That no event lies in the past needs that the first
  event is no later than a quantum end, for which the policy's invariant is used.
* *Bus.* `BusIsImplemented`: the main loop runs an event only when no quantum end is
  due before, which is the guard of `Arrival` and `QuantumEnd` in the scheduler modules.
  Their theorems are not proved again: `FP` and `QP` instantiate the proof modules,
  and `FifoSteps`, `QosSteps` show that the operators of Simulation's own instances
  are theirs. A tick lets time pass without the bus (`TimePasses`).
* *Traffic.* `TrafficKeepsItsSchedule` needs one more invariant per source, `TrafficInv`:
  what has been issued and what is on the agenda are together what is due. For
  audio, n packets issued mean that the next event is at n + 1 periods, or that
  this is past the end (`AudioInv`). For textures, the times of an event and of
  its successors (`TimesOf`) are counted, at each time, with the blocks issued
  then (`TextureInv`): one event of a generator moves one of the count from the agenda
  to the bus (`TimesGoOn`), and at the start there is one event per burst
  (`TextureStarts`). For the scripted predictor every NPC has one event or one
  transaction (`ScriptedInv`); ticks stay at multiples of the period (`WeightInv`).

**Only model-checked.** Liveness under fairness (`EveryTransactionEnds`,
`RunEnds`, the fairness in `ImplementsTimeline`) is out of the prover's
reach. `ImplementsPredictor` of Simulation has no proof yet.

## Not modelled

YAML loading (what it fails to validate appears as assumptions), trace and
report files, command line: input and output without state of their own. Of the
modelled parts: rounding of doubles (rates, virtual times, interpolation), the
encoding of trace records, the angle in `is_in_frustum` (a snapshot of
IntentPredictor says whether the NPC is in the frustum) and the second coordinate
of positions, `mean_us`. `weight_load_timeout_ms` and `on_evict` have no user in
`src/`; nor has `EventQueue::cancel`, which is modelled.

## Plan

Done, in this order: event queue, scheduler base, FIFO, QoS, contract, cache,
intent predictor, distance predictor, histogram, waypoints, the simulation
closed over bus and predictors; the proofs above.

Next, extending the model:
1. QoS runs with other configurations: audio below critical, critical weights
   whose SGL entry exceeds the bus quantum, compression in line with the bus.
2. IntentPredictor with three NPCs on two cores.
3. Snapshots of Simulation computed from Waypoints instead of free ones.

Then, proving more:
1. Simulation implements the predictors, from what `RunInv` and the invariants of
   their modules say of fetches on the agenda and on the bus.
