----------------------------- MODULE EventQueue -----------------------------
(***************************************************************************)
(* EventQueue and Clock (event_queue.hpp, clock.hpp): a heap of entries    *)
(* ordered by time and then by insertion number.  schedule() hands out a   *)
(* flag shared with the entry; cancel() only clears the flag and leaves    *)
(* the entry behind as a tombstone, which the next pop_and_run() or        *)
(* peek_time() that meets it throws away.                                  *)
(***************************************************************************)
EXTENDS Integers, FiniteSets, Sequences

CONSTANTS
  Event,    \* one element per call of schedule(): its handler and its handle
  MaxTime   \* bound: events are scheduled at 0..MaxTime

ASSUME MaxTimeAssumption == MaxTime \in Nat

VARIABLES
  now,        \* Clock::now_
  heap,       \* heap_: a set of entries, the order is in their fields
  next_seq,   \* next_seq_
  handle,     \* per event, its shared flag: not handed out yet, set, cleared
  ran,        \* history: the handlers run, and when
  failed      \* advance_to() threw out of pop_and_run()

vars == <<now, heap, next_seq, handle, ran, failed>>

Times   == 0..MaxTime
Entry   == [when : Times, seq : Nat, ev : Event]
Handles == {"none", "alive", "cancelled"}

Init ==
  /\ now = 0
  /\ heap = {}
  /\ next_seq = 0
  /\ handle = [e \in Event |-> "none"]
  /\ ran = <<>>
  /\ failed = FALSE

\* Mutant: ties in time go to the latest call.
BeforeReversed(a, b) == a.when < b.when \/ (a.when = b.when /\ a.seq > b.seq)

\* Entry::operator> turned round: the order in which the heap gives entries up.
Before(a, b) == a.when < b.when \/ (a.when = b.when /\ a.seq < b.seq)

IsLive(n) == handle[n.ev] = "alive"

\* Mutant: the time is taken for a delay.
EntryAfter(e, when) == [when |-> now + when, seq |-> next_seq, ev |-> e]

\* Mutant: entries are numbered by the size of the heap.
EntryBySize(e, when) == [when |-> when, seq |-> Cardinality(heap), ev |-> e]

NewEntry(e, when) == [when |-> when, seq |-> next_seq, ev |-> e]

Schedule(e, when) ==
  /\ ~failed
  /\ handle[e] = "none"
  /\ heap' = heap \cup {NewEntry(e, when)}
  /\ next_seq' = next_seq + 1
  /\ handle' = [handle EXCEPT ![e] = "alive"]
  /\ UNCHANGED <<now, ran, failed>>

\* cancel() may come late: the flag of a handler that has run is cleared in vain.
Cancel(e) ==
  /\ ~failed
  /\ handle[e] = "alive"
  /\ handle' = [handle EXCEPT ![e] = "cancelled"]
  /\ UNCHANGED <<now, heap, next_seq, ran, failed>>

\* The live entry the heap reaches first, past the tombstones on top.
IsTop(n) == n \in heap /\ IsLive(n) /\ \A m \in heap : IsLive(m) /\ m # n => Before(n, m)

HeapAfterPop(n) == {m \in heap : Before(n, m)}

\* pop_and_run(): tombstones are popped on the way; the clock moves, then the handler runs.
PopAndRun ==
  /\ ~failed
  /\ \E n \in heap :
       /\ IsTop(n)
       /\ heap' = HeapAfterPop(n)
       /\ \/ /\ n.when >= now
             /\ now' = n.when
             /\ ran' = Append(ran, [ev |-> n.ev, at |-> n.when])
             /\ failed' = FALSE
          \/ n.when < now /\ failed' = TRUE /\ UNCHANGED <<now, ran>>
  /\ UNCHANGED <<next_seq, handle>>

\* pop_and_run() finds tombstones only, empties the heap and returns false.
PopNothing ==
  /\ ~failed
  /\ heap # {}
  /\ \A n \in heap : ~IsLive(n)
  /\ heap' = {}
  /\ UNCHANGED <<now, next_seq, handle, ran, failed>>

\* peek_time() pops the tombstones above the first live entry.
PeekTime ==
  /\ ~failed
  /\ heap' = {m \in heap : \E n \in heap : IsLive(n) /\ (n = m \/ Before(n, m))}
  /\ UNCHANGED <<now, next_seq, handle, ran, failed>>

Next ==
  \/ \E e \in Event : Cancel(e) \/ \E when \in Times : Schedule(e, when)
  \/ PopAndRun
  \/ PopNothing
  \/ PeekTime

\* main.cpp calls pop_and_run() until it returns false.
Spec == Init /\ [][Next]_vars /\ WF_vars(PopAndRun)

-----------------------------------------------------------------------------
TypeOK ==
  /\ now \in Times
  /\ heap \in SUBSET Entry
  /\ next_seq \in Nat
  /\ handle \in [Event -> Handles]
  /\ ran \in Seq([ev : Event, at : Times])
  /\ failed \in BOOLEAN

(***************************************************************************)
(* Insertion numbers identify entries and are never reused, so the heap    *)
(* order is total and ties in time are broken by the order of the calls.   *)
(* Every entry's handle has been handed out.                               *)
(***************************************************************************)
SeqIdentifiesEntries ==
  /\ \A m, n \in heap : m.seq = n.seq \/ m.ev = n.ev => m = n
  /\ \A n \in heap : n.seq < next_seq /\ handle[n.ev] # "none"

Live == {n \in heap : IsLive(n)}

\* The place of an entry in the order of the calls.
Place(n, entries) == Cardinality({m \in entries : m.seq <= n.seq})

InOrder(entries) ==
  [i \in 1..Cardinality(entries) |-> CHOOSE n \in entries : Place(n, entries) = i]

Listed(n) == [ev |-> n.ev, when |-> n.when]

(***************************************************************************)
(* The queue with its tombstones behaves as the agenda without them: what  *)
(* is cancelled never runs, ties run in the order of the calls, time never *)
(* goes back, and whatever stays on the agenda is run in the end.          *)
(***************************************************************************)
Agenda == [i \in 1..Cardinality(Live) |-> Listed(InOrder(Live)[i])]

Simulation == INSTANCE Timeline WITH agenda <- Agenda
ImplementsTimeline == Simulation!Spec
=============================================================================
