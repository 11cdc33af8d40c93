---------------------------- MODULE QosScheduler ----------------------------
(***************************************************************************)
(* QoSScheduler: strict priority for the critical class as long as a token *)
(* bucket can pay for its next slice, and weighted fair queueing by        *)
(* virtual finish time between the two bulk classes.                       *)
(*                                                                         *)
(* The code keeps tokens and virtual times as doubles.  Here they are      *)
(* exact: tokens in hundredths of a byte (the limit is a percentage) and   *)
(* virtual times multiplied by both bulk weights.                          *)
(***************************************************************************)
EXTENDS Scheduler

CONSTANT BurstUs   \* how long the refill of a full bucket lasts: 10000, smaller in the runs

VARIABLES
  queue,         \* q_critical_, q_high_ and q_normal_, by class
  tokens,        \* tokens_bytes_
  last_refill,   \* last_refill_us_
  vfin           \* vfin_high_ and vfin_normal_

qosVars == <<queue, tokens, last_refill, vfin>>
vars == <<now, bus_idle, ends, log, kpi, loaded, served, queue, tokens, last_refill, vfin>>

BulkTags == {"high", "normal"}

ClassOf(t) == Tx[t].qos

TokenRefill   == Cfg.bus_bw * Cfg.critical_rate_limit_pct
TokenCapacity == TokenRefill * BurstUs

\* What a slice is charged: the bytes of one bus quantum, or those that remain.
SliceBytes(p) == Smaller(p.bytes_remaining, Cfg.bus_bw * Cfg.quantum_us)

TokenCost(p) == 100 * SliceBytes(p)

\* cost / weight, times both weights: the other class's weight is the factor left.
Weight(c) == Larger(1, Cfg.bulk_weight[c])
VirtualCost(p, c) == SliceBytes(p) * Weight(CHOOSE d \in BulkTags : d # c)

ASSUME QosAssumption ==
  /\ TokenRefill \in Nat
  /\ TokenCapacity \in Nat
  /\ Cfg.bus_bw * Cfg.quantum_us \in Nat
  /\ \A c \in BulkTags : Weight(c) \in Nat

Init ==
  /\ BusInit
  /\ queue = [c \in QosTags |-> <<>>]
  /\ tokens = TokenCapacity
  /\ last_refill = 0
  /\ vfin = [c \in BulkTags |-> 0]

\* on_arrive()
OnArrive(q, arriving) ==
  IF arriving = <<>> THEN q
  ELSE [q EXCEPT ![ClassOf(arriving[1].tx)] = @ \o arriving]

\* Mutant: the bucket has no capacity.
RefilledUncapped(at) == tokens + (at - last_refill) * TokenRefill

\* refill_tokens()
Refilled(at) ==
  IF at > last_refill
  THEN Smaller(TokenCapacity, tokens + (at - last_refill) * TokenRefill)
  ELSE tokens

Affordable(critical, tok) == critical # <<>> /\ tok >= TokenCost(Head(critical))

\* Mutant: the larger virtual finish time wins.
PreferredBulkReversed(q) ==
  IF q["high"] # <<>> /\ (q["normal"] = <<>> \/ vfin["high"] > vfin["normal"])
  THEN {"high"}
  ELSE IF q["normal"] # <<>> THEN {"normal"} ELSE {}

\* Mutant: the smaller virtual finish time wins even if nobody waits there.
PreferredBulkOrNothing(q) ==
  LET c == IF vfin["high"] <= vfin["normal"] THEN "high" ELSE "normal"
  IN IF q[c] # <<>> THEN {c} ELSE {}

\* The bulk class with the smaller virtual finish time among those that wait.
PreferredBulk(q) ==
  IF q["high"] # <<>> /\ (q["normal"] = <<>> \/ vfin["high"] <= vfin["normal"])
  THEN {"high"}
  ELSE IF q["normal"] # <<>> THEN {"normal"} ELSE {}

Spend(tok, p) == tok - TokenCost(p)

\* Mutant: the head is returned and stays in the queue.
QueueWithHead(q, c) == q

PopFront(q, c) == [q EXCEPT ![c] = Tail(@)]

TakeCritical(h, q, dropped, tok) ==
  LET p == Head(q["critical"])
  IN /\ queue' = PopFront(q, "critical")
     /\ tokens' = Spend(tok, p)
     /\ vfin' = vfin
     /\ Serve(h, dropped, p)

TakeBulk(h, q, dropped, tok, c) ==
  LET p == Head(q[c])
  IN /\ queue' = PopFront(q, c)
     /\ tokens' = tok
     /\ vfin' = [vfin EXCEPT ![c] = @ + VirtualCost(p, c)]
     /\ Serve(h, dropped, p)

TakeNone(h, q, dropped, tok) ==
  /\ queue' = q
  /\ tokens' = tok
  /\ vfin' = vfin
  /\ Rest(h, dropped)

\* pick_next(): refill, drop stale critical heads, then critical, bulk or nothing.
PickNext(h, q) ==
  \E n \in 0..Len(q["critical"]) :
    LET critical == q["critical"]
        dropped  == TxnsOf(SubSeq(critical, 1, n))
        rest     == SubSeq(critical, n + 1, Len(critical))
        q1       == [q EXCEPT !["critical"] = rest]
        tok      == Refilled(h.at)
    IN /\ StalePrefix(critical, n, h.at)
       /\ last_refill' = Larger(last_refill, h.at)
       /\ \/ Affordable(rest, tok) /\ TakeCritical(h, q1, dropped, tok)
          \/ /\ ~Affordable(rest, tok)
             /\ \E c \in PreferredBulk(q1) : TakeBulk(h, q1, dropped, tok, c)
          \/ /\ ~Affordable(rest, tok)
             /\ PreferredBulk(q1) = {}
             /\ TakeNone(h, q1, dropped, tok)

\* accept(), called by a traffic generator's event at time `at`.
Accept(t, at) ==
  \E h \in {Accepted(t, at)} :
    /\ Keep(h)
    /\ \E q \in {OnArrive(queue, h.arriving)} :
         \/ bus_idle /\ PickNext(h, q)
         \/ /\ ~bus_idle
            /\ KeepServing(h)
            /\ queue' = q
            /\ UNCHANGED <<tokens, last_refill, vfin>>

\* on_quantum_end(), run by the event queue when the slice is over.
QuantumEnd ==
  \E e \in ends : \E h \in {Ended(e)} :
    /\ IsNextEvent(e)
    /\ Keep(h)
    /\ \E q \in {OnArrive(queue, h.arriving)} : PickNext(h, q)

\* The generators issue each transaction once, at any time.
Arrival(t, at) == MayArrive(t, at) /\ Accept(t, at)

Next == (\E t \in Txn, at \in 0..MaxTime : Arrival(t, at)) \/ QuantumEnd

\* The main loop runs every scheduled event; nobody has to issue anything.
Spec == Init /\ [][Next]_vars /\ WF_vars(QuantumEnd)

-----------------------------------------------------------------------------
TypeOK ==
  /\ BusTypeOK
  /\ queue \in [QosTags -> Seq(Pending)]
  /\ tokens \in 0..TokenCapacity
  /\ last_refill \in Nat
  /\ vfin \in [BulkTags -> Nat]

(***************************************************************************)
(* Every transaction issued and not finished is in exactly one place, the  *)
(* queue of its own class or the bus, once, and agrees there with its      *)
(* trace and the bytes moved; a finished one is nowhere.                   *)
(***************************************************************************)
NothingLost ==
  /\ \A t \in Txn :
       /\ Cardinality(OnBusAs(t)) + Cardinality(PlacesOf(t, queue[ClassOf(t)]))
            = IF Outstanding(t) THEN 1 ELSE 0
       /\ \A c \in QosTags \ {ClassOf(t)} : PlacesOf(t, queue[c]) = {}
  /\ \A c \in QosTags : \A i \in DOMAIN queue[c] : AgreesWithTrace(queue[c][i])
  /\ \A e \in ends : AgreesWithTrace(e.pending)

(***************************************************************************)
(* The bus is idle only when no bulk transaction waits and the critical    *)
(* queue, if it is not empty, could not be paid for when the bus was last  *)
(* given away: pick_next() falls through from critical to bulk.            *)
(***************************************************************************)
IdleOnlyWhenThrottled ==
  bus_idle => /\ \A c \in BulkTags : queue[c] = <<>>
              /\ ~Affordable(queue["critical"], tokens)

(***************************************************************************)
(* The rate limit of the critical class, over any stretch of time: what    *)
(* was first put on the bus since `from` has moved no more bytes than a    *)
(* full bucket and the refill of the time that has passed.  A bucket that  *)
(* went on filling while no critical packet came would break it.           *)
(***************************************************************************)
CriticalSince(from) ==
  {t \in Txn : ClassOf(t) = "critical" /\ Started(t) /\ log[t][2].at >= from}

WithinBudgetSince(from) ==
  100 * SumFunctionOnSet(served, CriticalSince(from))
    <= TokenCapacity + TokenRefill * (now - from)

CriticalWithinBudget == \A from \in 0..now : WithinBudgetSince(from)

(***************************************************************************)
(* Weighted fairness: as long as both bulk classes have work on the bus or *)
(* in their queues, their virtual times come no further apart than they    *)
(* were, or than the charge of one slice.                                  *)
(***************************************************************************)
Active(c) == queue[c] # <<>> \/ \E e \in ends : ClassOf(e.pending.tx) = c

Gap == LET d == vfin["high"] - vfin["normal"] IN Larger(d, -d)

MaxVirtualCost ==
  Cfg.bus_bw * Cfg.quantum_us * Larger(Weight("high"), Weight("normal"))

BothActive == \A c \in BulkTags : Active(c)

GapNeverWidens ==
  [][BothActive /\ BothActive' => Gap' <= Larger(Gap, MaxVirtualCost)]_vars

-----------------------------------------------------------------------------
(***************************************************************************)
(* A statement of a comment that the code does not keep.                   *)
(***************************************************************************)

\* scheduler.cpp, pick_next(): "critical waits for refill".  Whatever was issued ends.
CriticalWaitsForRefill == []<>(\A t \in Txn : ClassOf(t) = "critical" => ~Outstanding(t))
=============================================================================
