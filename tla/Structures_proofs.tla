-------------------------- MODULE Structures_proofs --------------------------
(***************************************************************************)
(* Theorems about the two data structures that everything else uses.       *)
(*                                                                         *)
(* EventQueue, for any set of events, any bound on the times, and any      *)
(* order of schedule(), cancel(), pops and peeks; and that it behaves as   *)
(* the agenda of Timeline.                                                 *)
(*                                                                         *)
(* LatencyHistogram, for any set of histograms, any number of buckets and  *)
(* of samples, and any latencies: what is in a histogram after records and *)
(* merges, and how far its percentiles are off.                            *)
(***************************************************************************)
EXTENDS EventQueue, LatencyHistogram, FiniteSums, SequenceTheorems, TLAPS

Ran == [ev : Event, at : Times]

\* What has run is no longer in the heap, has been handed out, and has run once.
RunAtMostOnce ==
  /\ \A i \in DOMAIN ran : handle[ran[i].ev] # "none" /\ \A n \in heap : n.ev # ran[i].ev
  /\ \A i, j \in DOMAIN ran : ran[i].ev = ran[j].ev => i = j

\* Handlers run in the order of their times, and the clock says when the last one did.
RunInOrder ==
  /\ \A i \in DOMAIN ran : ran[i].at <= now
  /\ \A i, j \in DOMAIN ran : i < j => ran[i].at <= ran[j].at

IInv == TypeOK /\ SeqIdentifiesEntries /\ RunAtMostOnce /\ RunInOrder

-----------------------------------------------------------------------------
\* Two entries of the heap are never tied: one of them goes first.
LEMMA HeapOrderIsTotal ==
  ASSUME IInv, NEW m \in heap, NEW n \in heap, m # n
  PROVE  Before(m, n) \/ Before(n, m)
<1>1. m \in Entry /\ n \in Entry /\ m.seq # n.seq
  BY DEF IInv, TypeOK, SeqIdentifiesEntries
<1>2. m.when \in Nat /\ n.when \in Nat /\ m.seq \in Nat /\ n.seq \in Nat
  BY <1>1, MaxTimeAssumption DEF Entry, Times
<1> QED
  BY <1>1, <1>2 DEF Before

\* Popping and peeking only take entries away.
LEMMA FewerEntries ==
  ASSUME IInv, heap' \subseteq heap, UNCHANGED <<now, next_seq, handle, ran, failed>>
  PROVE  IInv'
<1>1. TypeOK'
  BY DEF IInv, TypeOK
<1>2. SeqIdentifiesEntries'
  BY DEF IInv, SeqIdentifiesEntries
<1>3. RunAtMostOnce' /\ RunInOrder'
  BY DEF IInv, RunAtMostOnce, RunInOrder
<1> QED
  BY <1>1, <1>2, <1>3 DEF IInv

LEMMA InitInv == Init => IInv
<1> SUFFICES ASSUME Init
             PROVE  IInv
  OBVIOUS
<1>1. ran \in Seq(Ran) /\ DOMAIN ran = {}
  BY EmptySeq DEF Init
<1>2. TypeOK
  <2>1. now \in Times /\ next_seq \in Nat
    BY MaxTimeAssumption DEF Init, Times
  <2>2. heap \in SUBSET Entry /\ handle \in [Event -> Handles]
    BY DEF Init, Handles
  <2>3. failed \in BOOLEAN
    BY DEF Init
  <2> QED
    BY <1>1, <2>1, <2>2, <2>3 DEF TypeOK, Ran
<1>3. heap = {}
  BY DEF Init
<1>4. SeqIdentifiesEntries
  BY <1>3 DEF SeqIdentifiesEntries
<1>5. RunAtMostOnce /\ RunInOrder
  BY <1>1 DEF RunAtMostOnce, RunInOrder
<1> QED
  BY <1>2, <1>4, <1>5 DEF IInv

LEMMA ScheduleInv ==
  ASSUME IInv, NEW e \in Event, NEW when \in Times, Schedule(e, when)
  PROVE  IInv'
<1> DEFINE n == [when |-> when, seq |-> next_seq, ev |-> e]
<1>1. /\ heap' = heap \cup {n}
      /\ next_seq' = next_seq + 1
      /\ handle' = [handle EXCEPT ![e] = "alive"]
      /\ handle[e] = "none"
      /\ UNCHANGED <<now, ran, failed>>
  BY DEF Schedule, NewEntry
<1>2. TypeOK /\ SeqIdentifiesEntries /\ RunAtMostOnce /\ RunInOrder
  BY DEF IInv
<1>3. n \in Entry /\ n.seq = next_seq /\ n.ev = e /\ next_seq \in Nat
  BY <1>2 DEF TypeOK, Entry
<1> HIDE DEF n
<1>4. TypeOK'
  BY <1>1, <1>2, <1>3 DEF TypeOK, Handles
<1>5. \A m \in heap : m.seq \in Nat /\ m.seq < next_seq /\ m.ev # e /\ m.ev \in Event
  BY <1>1, <1>2 DEF TypeOK, SeqIdentifiesEntries, Entry
<1>6. SeqIdentifiesEntries'
  <2>1. ASSUME NEW m \in heap', NEW k \in heap', m.seq = k.seq \/ m.ev = k.ev
        PROVE  m = k
    BY <1>1, <1>2, <1>3, <1>5, <2>1 DEF SeqIdentifiesEntries
  <2>2. ASSUME NEW m \in heap'
        PROVE  m.seq < next_seq' /\ handle'[m.ev] # "none"
    <3>1. CASE m \in heap
      BY <1>1, <1>2, <1>3, <1>5, <3>1 DEF SeqIdentifiesEntries, TypeOK
    <3>2. CASE m = n
      BY <1>1, <1>2, <1>3, <3>2 DEF TypeOK
    <3> QED
      BY <1>1, <3>1, <3>2
  <2> QED
    BY <2>1, <2>2 DEF SeqIdentifiesEntries
<1>7. RunAtMostOnce'
  <2>1. ASSUME NEW i \in DOMAIN ran
        PROVE  /\ handle'[ran[i].ev] # "none"
               /\ \A m \in heap' : m.ev # ran[i].ev
    <3>1. handle[ran[i].ev] # "none" /\ ran[i].ev # e
      BY <1>1, <1>2 DEF RunAtMostOnce
    <3>2. handle'[ran[i].ev] = handle[ran[i].ev]
      BY <1>1, <1>2, <3>1 DEF TypeOK
    <3> QED
      BY <1>1, <1>2, <1>3, <3>1, <3>2 DEF RunAtMostOnce
  <2> QED
    BY <1>1, <1>2, <2>1 DEF RunAtMostOnce
<1>8. RunInOrder'
  BY <1>1, <1>2 DEF RunInOrder
<1> QED
  BY <1>4, <1>6, <1>7, <1>8 DEF IInv

LEMMA CancelInv ==
  ASSUME IInv, NEW e \in Event, Cancel(e)
  PROVE  IInv'
<1>1. /\ handle' = [handle EXCEPT ![e] = "cancelled"]
      /\ UNCHANGED <<now, heap, next_seq, ran, failed>>
  BY DEF Cancel
<1>2. TypeOK'
  BY <1>1 DEF IInv, TypeOK, Handles
<1>3. \A f \in Event : handle[f] # "none" => handle'[f] # "none"
  BY <1>1 DEF IInv, TypeOK
<1>4. SeqIdentifiesEntries'
  <2>1. \A n \in heap : n.ev \in Event
    BY DEF IInv, TypeOK, Entry
  <2> QED
    BY <1>1, <1>3, <2>1 DEF IInv, SeqIdentifiesEntries
<1>5. RunAtMostOnce'
  <2>1. \A i \in DOMAIN ran : ran[i].ev \in Event
    <3>1. ran \in Seq(Ran)
      BY DEF IInv, TypeOK, Ran
    <3>2. \A i \in DOMAIN ran : ran[i] \in Ran
      BY <3>1, LenProperties
    <3> QED
      BY <3>2 DEF Ran
  <2> QED
    BY <1>1, <1>3, <2>1 DEF IInv, RunAtMostOnce
<1>6. RunInOrder'
  BY <1>1 DEF IInv, RunInOrder
<1> QED
  BY <1>2, <1>4, <1>5, <1>6 DEF IInv

\* The handler that runs is the last of the history and leaves the heap with the tombstones.
LEMMA RunInv ==
  ASSUME IInv, NEW n \in heap, heap' = HeapAfterPop(n), n.when >= now,
         now' = n.when, ran' = Append(ran, [ev |-> n.ev, at |-> n.when]), failed' = FALSE,
         UNCHANGED <<next_seq, handle>>
  PROVE  IInv'
<1> DEFINE r == [ev |-> n.ev, at |-> n.when]
<1>1. /\ TypeOK /\ SeqIdentifiesEntries /\ RunAtMostOnce /\ RunInOrder
      /\ n \in Entry /\ n.when \in Times /\ n.when \in Nat /\ n.ev \in Event /\ now \in Nat
      /\ ran \in Seq(Ran)
  BY MaxTimeAssumption DEF IInv, TypeOK, Entry, Times, Ran
<1>2. r \in Ran /\ r.ev = n.ev /\ r.at = n.when
  BY <1>1 DEF Ran
<1> DEFINE len == Len(ran)
<1>3. /\ len \in Nat /\ DOMAIN ran = 1..len
      /\ ran' \in Seq(Ran)
      /\ DOMAIN ran' = 1..(len + 1)
      /\ \A i \in 1..len : ran'[i] = ran[i] /\ ran[i] \in Ran
      /\ ran'[len + 1] = r
  <2>1. len \in Nat /\ DOMAIN ran = 1..len /\ \A i \in 1..len : ran[i] \in Ran
    BY <1>1, LenProperties
  <2>2. /\ ran' \in Seq(Ran) /\ Len(ran') = len + 1
        /\ \A i \in 1..len : ran'[i] = ran[i]
        /\ ran'[len + 1] = r
    BY <1>1, <1>2, AppendProperties
  <2>3. DOMAIN ran' = 1..Len(ran')
    BY <2>2, LenProperties
  <2> QED
    BY <2>1, <2>2, <2>3
<1>4. heap' \subseteq heap /\ n \notin heap'
  BY <1>1 DEF HeapAfterPop, Before, Entry
<1> HIDE DEF r, len
<1>5. TypeOK'
  BY <1>1, <1>3, <1>4 DEF TypeOK, Ran
<1>6. SeqIdentifiesEntries'
  BY <1>1, <1>4 DEF SeqIdentifiesEntries
<1>7. \A i \in 1..(len + 1) : i \in 1..len \/ i = len + 1
  BY <1>3
<1>8. RunAtMostOnce'
  <2>1. \A i \in 1..len : ran[i].ev # n.ev /\ handle[ran[i].ev] # "none"
    BY <1>1, <1>3 DEF RunAtMostOnce
  <2>2. \A m \in heap' : m.ev # n.ev
    BY <1>1, <1>4 DEF SeqIdentifiesEntries
  <2>3. ASSUME NEW i \in 1..(len + 1)
        PROVE  handle[ran'[i].ev] # "none" /\ \A m \in heap' : m.ev # ran'[i].ev
    <3>1. CASE i \in 1..len
      BY <1>1, <1>3, <1>4, <3>1 DEF RunAtMostOnce
    <3>2. CASE i = len + 1
      BY <1>1, <1>2, <1>3, <2>2, <3>2 DEF SeqIdentifiesEntries
    <3> QED
      BY <1>7, <3>1, <3>2
  <2>4. ASSUME NEW i \in 1..(len + 1), NEW j \in 1..(len + 1), ran'[i].ev = ran'[j].ev
        PROVE  i = j
    <3>1. CASE i \in 1..len /\ j \in 1..len
      BY <1>1, <1>3, <2>4, <3>1 DEF RunAtMostOnce
    <3>2. CASE i = len + 1 \/ j = len + 1
      BY <1>2, <1>3, <1>7, <2>1, <2>4, <3>2
    <3> QED
      BY <1>7, <3>1, <3>2
  <2> QED
    BY <1>3, <2>3, <2>4 DEF RunAtMostOnce
<1>9. RunInOrder'
  <2>1. \A i \in 1..len : ran[i].at \in Nat /\ ran[i].at <= n.when
    <3>1. SUFFICES ASSUME NEW i \in 1..len
                   PROVE  ran[i].at \in Nat /\ ran[i].at <= n.when
      OBVIOUS
    <3>2. ran[i].at \in Times /\ ran[i].at <= now
      BY <1>1, <1>3 DEF RunInOrder, Ran
    <3>3. ran[i].at \in Nat
      BY <3>2, MaxTimeAssumption DEF Times
    <3> QED
      BY <1>1, <3>2, <3>3
  <2>2. ASSUME NEW i \in 1..(len + 1)
        PROVE  ran'[i].at <= n.when
    BY <1>1, <1>2, <1>3, <1>7, <2>1
  <2>3. ASSUME NEW i \in 1..(len + 1), NEW j \in 1..(len + 1), i < j
        PROVE  ran'[i].at <= ran'[j].at
    <3>1. CASE j = len + 1
      BY <1>2, <1>3, <2>2, <3>1
    <3>2. CASE j \in 1..len
      <4>1. i \in 1..len
        BY <1>3, <2>3, <3>2
      <4> QED
        BY <1>1, <1>3, <2>3, <3>2, <4>1 DEF RunInOrder
    <3> QED
      BY <1>7, <3>1, <3>2
  <2> QED
    BY <1>3, <2>2, <2>3 DEF RunInOrder
<1> QED
  BY <1>5, <1>6, <1>8, <1>9 DEF IInv

LEMMA PopAndRunInv ==
  ASSUME IInv, PopAndRun
  PROVE  IInv'
<1>1. PICK n \in heap :
        /\ heap' = HeapAfterPop(n)
        /\ \/ /\ n.when >= now
              /\ now' = n.when
              /\ ran' = Append(ran, [ev |-> n.ev, at |-> n.when])
              /\ failed' = FALSE
           \/ n.when < now /\ failed' = TRUE /\ UNCHANGED <<now, ran>>
  BY DEF PopAndRun
<1>2. UNCHANGED <<next_seq, handle>>
  BY DEF PopAndRun
<1>3. CASE n.when >= now /\ now' = n.when /\ failed' = FALSE
           /\ ran' = Append(ran, [ev |-> n.ev, at |-> n.when])
  BY <1>1, <1>2, <1>3, RunInv
<1>4. CASE failed' = TRUE /\ UNCHANGED <<now, ran>>
  <2>1. heap' \subseteq heap
    BY <1>1 DEF HeapAfterPop
  <2>2. TypeOK'
    BY <1>2, <1>4, <2>1 DEF IInv, TypeOK
  <2>3. SeqIdentifiesEntries'
    BY <1>2, <2>1 DEF IInv, SeqIdentifiesEntries
  <2>4. RunAtMostOnce' /\ RunInOrder'
    BY <1>2, <1>4, <2>1 DEF IInv, RunAtMostOnce, RunInOrder
  <2> QED
    BY <2>2, <2>3, <2>4 DEF IInv
<1> QED
  BY <1>1, <1>3, <1>4

LEMMA NextInv == IInv /\ [Next]_vars => IInv'
<1> SUFFICES ASSUME IInv, [Next]_vars
             PROVE  IInv'
  OBVIOUS
<1>1. ASSUME NEW e \in Event, NEW when \in Times, Schedule(e, when)
      PROVE  IInv'
  BY <1>1, ScheduleInv
<1>2. ASSUME NEW e \in Event, Cancel(e)
      PROVE  IInv'
  BY <1>2, CancelInv
<1>3. CASE PopAndRun
  BY <1>3, PopAndRunInv
<1>4. CASE PopNothing
  BY <1>4, FewerEntries DEF PopNothing
<1>5. CASE PeekTime
  <2>1. heap' \subseteq heap
    BY <1>5 DEF PeekTime
  <2> QED
    BY <1>5, <2>1, FewerEntries DEF PeekTime
<1>6. CASE UNCHANGED vars
  BY <1>6, FewerEntries DEF vars
<1> QED
  BY <1>1, <1>2, <1>3, <1>4, <1>5, <1>6 DEF Next

(***************************************************************************)
(* The inductive invariant holds in every reachable state.                 *)
(***************************************************************************)
THEOREM Invariance == Spec => []IInv
<1> QED
  BY InitInv, NextInv, PTL DEF Spec

(***************************************************************************)
(* Types of the heap, the handles and the history.                         *)
(***************************************************************************)
THEOREM TypeCorrect == Spec => []TypeOK
<1>1. IInv => TypeOK
  BY DEF IInv
<1> QED
  BY <1>1, Invariance, PTL

(***************************************************************************)
(* Insertion numbers are never reused while an entry that has one is in    *)
(* the heap, whatever is cancelled and popped in between.                  *)
(***************************************************************************)
THEOREM EntriesIdentified == Spec => []SeqIdentifiesEntries
<1>1. IInv => SeqIdentifiesEntries
  BY DEF IInv
<1> QED
  BY <1>1, Invariance, PTL

(***************************************************************************)
(* No handler runs twice, and a handler that has run leaves no entry.      *)
(***************************************************************************)
THEOREM NothingRunsTwice == Spec => []RunAtMostOnce
<1>1. IInv => RunAtMostOnce
  BY DEF IInv
<1> QED
  BY <1>1, Invariance, PTL

(***************************************************************************)
(* Handlers run in the order of their times: pop_and_run() throws rather   *)
(* than turn the clock back.                                               *)
(***************************************************************************)
THEOREM TimeGoesForward == Spec => []RunInOrder
<1>1. IInv => RunInOrder
  BY DEF IInv
<1> QED
  BY <1>1, Invariance, PTL

-----------------------------------------------------------------------------
(***************************************************************************)
(* Entries in the order of the calls: a finite set of entries with         *)
(* distinct numbers, seen as a sequence.                                   *)
(***************************************************************************)
Numbered(S) ==
  /\ IsFiniteSet(S)
  /\ \A n \in S : n.seq \in Nat
  /\ \A m, n \in S : m.seq = n.seq => m = n

LEMMA PartOfNumbered ==
  ASSUME NEW S, Numbered(S), NEW T \in SUBSET S
  PROVE  Numbered(T) /\ Cardinality(T) \in Nat /\ Cardinality(T) <= Cardinality(S)
<1>1. IsFiniteSet(T) /\ Cardinality(T) <= Cardinality(S)
  BY FS_Subset DEF Numbered
<1> QED
  BY <1>1, FS_CardinalityType DEF Numbered

\* Places go from 1 on, and are ordered as the numbers are.
LEMMA PlaceIs ==
  ASSUME NEW S, Numbered(S), NEW n \in S
  PROVE  /\ Place(n, S) \in 1..Cardinality(S)
         /\ \A m \in S : m.seq <= n.seq <=> Place(m, S) <= Place(n, S)
<1> DEFINE Below(k) == {m \in S : m.seq <= k.seq}
<1>1. \A k \in S : Place(k, S) = Cardinality(Below(k))
  BY DEF Place
<1>2. \A k \in S : k.seq \in Nat
  BY DEF Numbered
<1>3. Cardinality(S) \in Nat
  BY FS_CardinalityType DEF Numbered
<1>4. \A k \in S : /\ IsFiniteSet(Below(k)) /\ k \in Below(k)
                   /\ Cardinality(Below(k)) \in Nat
                   /\ Cardinality(Below(k)) <= Cardinality(S)
  <2>1. ASSUME NEW k \in S
        PROVE  /\ IsFiniteSet(Below(k)) /\ k \in Below(k)
               /\ Cardinality(Below(k)) \in Nat
               /\ Cardinality(Below(k)) <= Cardinality(S)
    <3>1. Below(k) \in SUBSET S /\ k \in Below(k)
      BY <1>2
    <3> QED
      BY <3>1, PartOfNumbered DEF Numbered
  <2> QED
    BY <2>1
<1>5. Cardinality(Below(n)) # 0
  BY <1>4, FS_EmptySet
<1>6. ASSUME NEW k \in S, NEW m \in S, k.seq <= m.seq
      PROVE  Cardinality(Below(k)) <= Cardinality(Below(m))
  <2>1. Below(k) \in SUBSET Below(m)
    BY <1>2, <1>6
  <2> QED
    BY <1>4, <2>1, FS_Subset
<1>7. ASSUME NEW k \in S, NEW m \in S, k.seq < m.seq
      PROVE  Cardinality(Below(k)) < Cardinality(Below(m))
  <2>1. Below(k) \in SUBSET Below(m) /\ m \notin Below(k)
    BY <1>2, <1>7
  <2>2. Cardinality(Below(k)) <= Cardinality(Below(m))
    BY <1>4, <2>1, FS_Subset
  <2>3. Cardinality(Below(k)) # Cardinality(Below(m))
    BY <1>4, <2>1, FS_Subset
  <2> HIDE DEF Below
  <2>4. Cardinality(Below(k)) \in Nat /\ Cardinality(Below(m)) \in Nat
    BY <1>4
  <2> QED
    BY <2>2, <2>3, <2>4
<1> HIDE DEF Below
<1>8. \A m \in S : m.seq <= n.seq <=> Place(m, S) <= Place(n, S)
  <2>1. ASSUME NEW m \in S
        PROVE  m.seq <= n.seq <=> Place(m, S) <= Place(n, S)
    <3>1. CASE m.seq <= n.seq
      BY <1>1, <1>6, <3>1
    <3>2. CASE n.seq < m.seq
      <4>1. Place(n, S) < Place(m, S) /\ Place(n, S) \in Nat /\ Place(m, S) \in Nat
        BY <1>1, <1>4, <1>7, <3>2
      <4> QED
        BY <1>2, <3>2, <4>1
    <3> QED
      BY <1>2, <3>1, <3>2
  <2> QED
    BY <2>1
<1>9. Place(n, S) \in 1..Cardinality(S)
  BY <1>1, <1>3, <1>4, <1>5
<1> QED
  BY <1>8, <1>9

\* So every place is taken, by one entry.
LEMMA InOrderIs ==
  ASSUME NEW S, Numbered(S)
  PROVE  /\ \A i \in 1..Cardinality(S) : InOrder(S)[i] \in S /\ Place(InOrder(S)[i], S) = i
         /\ \A n \in S : InOrder(S)[Place(n, S)] = n
<1> DEFINE D == 1..Cardinality(S)
<1> DEFINE f == [n \in S |-> Place(n, S)]
<1>1. \A n \in S : Place(n, S) \in D
  BY PlaceIs
<1>2. \A m, n \in S : Place(m, S) = Place(n, S) => m = n
  <2>1. ASSUME NEW m \in S, NEW n \in S, Place(m, S) = Place(n, S)
        PROVE  m = n
    <3>1. m.seq \in Nat /\ n.seq \in Nat
      BY DEF Numbered
    <3>2. Place(m, S) \in Nat /\ Place(n, S) \in Nat
      BY <1>1
    <3>3. m.seq <= n.seq /\ n.seq <= m.seq
      BY <2>1, <3>2, PlaceIs
    <3>4. m.seq = n.seq
      BY <3>1, <3>3
    <3> QED
      BY <3>4 DEF Numbered
  <2> QED
    BY <2>1
<1>3. f \in Injection(S, D)
  BY <1>1, <1>2 DEF Injection, IsInjective
<1>4. IsFiniteSet(S) /\ Cardinality(S) \in Nat
  BY FS_CardinalityType DEF Numbered
<1>5. IsFiniteSet(D) /\ Cardinality(D) = Cardinality(S)
  BY <1>4, FS_Interval
<1>6. f \in Surjection(S, D)
  <2>1. IsFiniteSet(D) /\ IsFiniteSet(S)
    BY <1>4, <1>5
  <2> HIDE DEF f, D
  <2> QED
    BY <1>3, <1>5, <2>1, FS_Injection
<1>7. ASSUME NEW i \in D
      PROVE  InOrder(S)[i] \in S /\ Place(InOrder(S)[i], S) = i
  <2>1. \E n \in S : Place(n, S) = i
    BY <1>6 DEF Surjection
  <2>2. InOrder(S)[i] = CHOOSE n \in S : Place(n, S) = i
    BY DEF InOrder
  <2> QED
    BY <2>1, <2>2
<1>8. ASSUME NEW n \in S
      PROVE  InOrder(S)[Place(n, S)] = n
  BY <1>1, <1>2, <1>7
<1> QED
  BY <1>7, <1>8

-----------------------------------------------------------------------------
\* The entry of the latest call comes last.
LEMMA AddLast ==
  ASSUME NEW S, Numbered(S), NEW n, n.seq \in Nat, \A m \in S : m.seq < n.seq,
         NEW T, T = S \cup {n}
  PROVE  /\ Numbered(T) /\ Cardinality(T) = Cardinality(S) + 1
         /\ \A i \in 1..Cardinality(S) : InOrder(T)[i] = InOrder(S)[i]
         /\ InOrder(T)[Cardinality(S) + 1] = n
<1>1. n \notin S /\ Cardinality(S) \in Nat /\ \A m \in S : m.seq \in Nat
  BY FS_CardinalityType DEF Numbered
<1>2. IsFiniteSet(T) /\ Cardinality(T) = Cardinality(S) + 1
  BY <1>1, FS_AddElement DEF Numbered
<1>3. Numbered(T)
  <2>1. \A m \in T : m.seq \in Nat
    BY DEF Numbered
  <2>2. ASSUME NEW k \in T, NEW m \in T, k.seq = m.seq
        PROVE  k = m
    BY <1>1, <2>2 DEF Numbered
  <2> QED
    BY <1>2, <2>1, <2>2 DEF Numbered
<1>4. ASSUME NEW m \in S
      PROVE  Place(m, T) = Place(m, S)
  <2>1. {k \in T : k.seq <= m.seq} = {k \in S : k.seq <= m.seq}
    BY <1>1
  <2> QED
    BY <2>1 DEF Place
<1>5. Place(n, T) = Cardinality(T)
  <2>1. {k \in T : k.seq <= n.seq} = T
    BY <1>1
  <2> QED
    BY <2>1 DEF Place
<1>6. ASSUME NEW i \in 1..Cardinality(S)
      PROVE  InOrder(T)[i] = InOrder(S)[i]
  <2> DEFINE m == InOrder(S)[i]
  <2>1. m \in S /\ Place(m, S) = i
    BY InOrderIs
  <2> HIDE DEF m
  <2>2. m \in T /\ Place(m, T) = i
    BY <1>4, <2>1
  <2>3. InOrder(T)[i] = m
    BY <1>3, <2>2, InOrderIs
  <2> QED
    BY <2>3 DEF m
<1>7. InOrder(T)[Cardinality(S) + 1] = n
  BY <1>2, <1>3, <1>5, InOrderIs
<1> QED
  BY <1>2, <1>3, <1>6, <1>7

\* An entry that leaves lets those after it move up.
LEMMA TakeOut ==
  ASSUME NEW S, Numbered(S), NEW n \in S, NEW T, T = S \ {n}
  PROVE  /\ Numbered(T) /\ Cardinality(S) = Cardinality(T) + 1
         /\ \A i \in 1..Cardinality(T) :
              InOrder(T)[i] = InOrder(S)[IF i < Place(n, S) THEN i ELSE i + 1]
<1>1. Numbered(T) /\ Cardinality(T) \in Nat
  BY PartOfNumbered
<1>2. Cardinality(S) = Cardinality(T) + 1 /\ Cardinality(S) \in Nat
  <2>1. Cardinality(T) = Cardinality(S) - 1 /\ Cardinality(S) \in Nat
    BY FS_RemoveElement, FS_CardinalityType DEF Numbered
  <2> QED
    BY <2>1
<1>3. \A m \in S : m.seq \in Nat /\ Place(m, S) \in 1..Cardinality(S)
  BY PlaceIs DEF Numbered
<1>4. ASSUME NEW m \in T
      PROVE  /\ Place(m, S) < Place(n, S) => Place(m, T) = Place(m, S)
             /\ ~(Place(m, S) < Place(n, S)) => Place(m, T) = Place(m, S) - 1
             /\ Place(m, S) # Place(n, S)
  <2> DEFINE Below(R) == {k \in R : k.seq <= m.seq}
  <2>1. m \in S /\ m # n
    OBVIOUS
  <2>2. Place(m, S) # Place(n, S)
    BY <2>1, InOrderIs
  <2>3. Place(m, S) = Cardinality(Below(S)) /\ Place(m, T) = Cardinality(Below(T))
    BY DEF Place
  <2>4. n.seq <= m.seq <=> Place(n, S) <= Place(m, S)
    BY <2>1, PlaceIs
  <2>5. CASE n.seq <= m.seq
    <3>1. Below(T) = Below(S) \ {n} /\ n \in Below(S) /\ Below(S) \in SUBSET S
      BY <2>5
    <3>2. IsFiniteSet(Below(S))
      BY <3>1, PartOfNumbered DEF Numbered
    <3> HIDE DEF Below
    <3>3. Cardinality(Below(T)) = Cardinality(Below(S)) - 1
      BY <3>1, <3>2, FS_RemoveElement
    <3>4. Place(m, S) \in Nat /\ Place(n, S) \in Nat /\ Place(n, S) <= Place(m, S)
      BY <1>3, <2>1, <2>4, <2>5
    <3> QED
      BY <2>2, <2>3, <3>3, <3>4
  <2>6. CASE ~(n.seq <= m.seq)
    <3>1. Below(T) = Below(S)
      BY <2>6
    <3>2. Place(m, S) \in Nat /\ Place(n, S) \in Nat /\ ~(Place(n, S) <= Place(m, S))
      BY <1>3, <2>1, <2>4, <2>6
    <3> HIDE DEF Below
    <3> QED
      BY <2>2, <2>3, <3>1, <3>2
  <2> QED
    BY <2>5, <2>6
<1>5. ASSUME NEW i \in 1..Cardinality(T)
      PROVE  InOrder(T)[i] = InOrder(S)[IF i < Place(n, S) THEN i ELSE i + 1]
  <2> DEFINE m == InOrder(T)[i]
  <2> DEFINE p == Place(n, S)
  <2>1. m \in T /\ Place(m, T) = i
    BY <1>1, InOrderIs
  <2> HIDE DEF m
  <2>2. Place(m, S) \in Nat /\ p \in Nat /\ InOrder(S)[Place(m, S)] = m
    BY <1>3, <2>1, InOrderIs
  <2>3. /\ Place(m, S) < p => i = Place(m, S)
        /\ ~(Place(m, S) < p) => i = Place(m, S) - 1
        /\ Place(m, S) # p
    BY <1>4, <2>1
  <2> HIDE DEF p
  <2>4. Place(m, S) = IF i < p THEN i ELSE i + 1
    BY <2>2, <2>3
  <2> QED
    BY <2>2, <2>4 DEF m, p
<1> QED
  BY <1>1, <1>2, <1>5

-----------------------------------------------------------------------------
(***************************************************************************)
(* The agenda that a heap of entries stands for.                           *)
(***************************************************************************)
Item == [ev : Event, when : Times]

AgendaOf(S) == [i \in 1..Cardinality(S) |-> Listed(InOrder(S)[i])]

LEMMA AgendaIs ==
  ASSUME NEW S \in SUBSET Entry, Numbered(S)
  PROVE  /\ AgendaOf(S) \in Seq(Item) /\ Len(AgendaOf(S)) = Cardinality(S)
         /\ DOMAIN AgendaOf(S) = 1..Cardinality(S)
         /\ \A i \in 1..Cardinality(S) : AgendaOf(S)[i] = Listed(InOrder(S)[i])
<1> DEFINE a == AgendaOf(S)
<1>1. Cardinality(S) \in Nat
  BY FS_CardinalityType DEF Numbered
<1>2. \A i \in 1..Cardinality(S) : Listed(InOrder(S)[i]) \in Item
  BY InOrderIs DEF Listed, Item, Entry
<1>3. a \in [1..Cardinality(S) -> Item]
  BY <1>2 DEF AgendaOf
<1>4. a \in Seq(Item)
  BY <1>1, <1>3, SeqDef
<1>5. DOMAIN a = 1..Cardinality(S) /\ DOMAIN a = 1..Len(a) /\ Len(a) \in Nat
  <2> HIDE DEF a
  <2> QED
    BY <1>3, <1>4, LenProperties
<1>6. Len(a) = Cardinality(S)
  <2> HIDE DEF a
  <2> QED
    BY <1>1, <1>5
<1> QED
  BY <1>4, <1>5, <1>6 DEF AgendaOf

LEMMA AgendaAdded ==
  ASSUME NEW S \in SUBSET Entry, Numbered(S), NEW n \in Entry, \A m \in S : m.seq < n.seq
  PROVE  AgendaOf(S \cup {n}) = Append(AgendaOf(S), Listed(n))
<1> DEFINE T == S \cup {n}
<1> DEFINE a == AgendaOf(S)
<1> DEFINE b == AgendaOf(T)
<1>1. n.seq \in Nat /\ T \in SUBSET Entry
  BY DEF Entry
<1>2. /\ Numbered(T) /\ Cardinality(T) = Cardinality(S) + 1
      /\ \A i \in 1..Cardinality(S) : InOrder(T)[i] = InOrder(S)[i]
      /\ InOrder(T)[Cardinality(S) + 1] = n
  BY <1>1, AddLast
<1> HIDE DEF T
<1>3. /\ a \in Seq(Item) /\ Len(a) = Cardinality(S) /\ Cardinality(S) \in Nat
      /\ \A i \in 1..Cardinality(S) : a[i] = Listed(InOrder(S)[i])
  BY AgendaIs, PartOfNumbered
<1>4. /\ b \in Seq(Item) /\ Len(b) = Cardinality(S) + 1
      /\ \A i \in 1..(Cardinality(S) + 1) : b[i] = Listed(InOrder(T)[i])
  BY <1>1, <1>2, AgendaIs
<1>5. Listed(n) \in Item
  BY DEF Listed, Item, Entry
<1> HIDE DEF a, b
<1> DEFINE c == Append(a, Listed(n))
<1>6. /\ c \in Seq(Item) /\ Len(c) = Cardinality(S) + 1
      /\ \A i \in 1..Cardinality(S) : c[i] = a[i]
      /\ c[Cardinality(S) + 1] = Listed(n)
  BY <1>3, <1>5, AppendProperties
<1> HIDE DEF c
<1>7. ASSUME NEW i \in 1..(Cardinality(S) + 1)
      PROVE  b[i] = c[i]
  <2>1. CASE i \in 1..Cardinality(S)
    BY <1>2, <1>3, <1>4, <1>6, <2>1
  <2>2. CASE i = Cardinality(S) + 1
    BY <1>2, <1>4, <1>6, <2>2
  <2> QED
    BY <1>3, <2>1, <2>2
<1>8. b = c
  BY <1>4, <1>6, <1>7, SeqEqual
<1> QED
  BY <1>8 DEF a, b, c, T

LEMMA AgendaTaken ==
  ASSUME NEW S \in SUBSET Entry, Numbered(S), NEW n \in S
  PROVE  AgendaOf(S \ {n}) = Simulation!RemoveAt(AgendaOf(S), Place(n, S))
<1> DEFINE T == S \ {n}
<1> DEFINE p == Place(n, S)
<1> DEFINE a == AgendaOf(S)
<1> DEFINE b == AgendaOf(T)
<1> DEFINE left == SubSeq(a, 1, p - 1)
<1> DEFINE right == SubSeq(a, p + 1, Len(a))
<1> DEFINE c == left \o right
<1>1. /\ Numbered(T) /\ Cardinality(S) = Cardinality(T) + 1 /\ Cardinality(T) \in Nat
      /\ \A i \in 1..Cardinality(T) : InOrder(T)[i] = InOrder(S)[IF i < p THEN i ELSE i + 1]
  BY TakeOut, PartOfNumbered
<1>2. p \in 1..Cardinality(S) /\ T \in SUBSET Entry
  BY PlaceIs
<1> HIDE DEF T, p
<1> DEFINE len == Cardinality(T)
<1>3. /\ a \in Seq(Item) /\ Len(a) = len + 1
      /\ \A i \in 1..(len + 1) : a[i] = Listed(InOrder(S)[i])
  BY <1>1, AgendaIs
<1>4. /\ b \in Seq(Item) /\ Len(b) = len
      /\ \A i \in 1..len : b[i] = Listed(InOrder(T)[i])
  BY <1>1, <1>2, AgendaIs
<1>5. len \in Nat /\ p \in 1..(len + 1)
  BY <1>1, <1>2
<1> HIDE DEF a, b, len
<1>6. \A i \in 1..(len + 1) : a[i] \in Item
  BY <1>3, ElementOfSeq
<1>7. /\ left \in Seq(Item) /\ Len(left) = p - 1
      /\ \A i \in 1..(p - 1) : left[i] = a[i]
  <2>1. p - 1 \in Int /\ 1 \in Int /\ \A i \in 1..(p - 1) : a[i] \in Item
    BY <1>5, <1>6
  <2>2. /\ left \in Seq(Item) /\ Len(left) = IF 1 <= p - 1 THEN p - 1 - 1 + 1 ELSE 0
        /\ \A i \in 1..(p - 1 - 1 + 1) : left[i] = a[1 + i - 1]
    BY <2>1, SubSeqProperties
  <2>3. Len(left) = p - 1
    BY <1>5, <2>2
  <2>4. ASSUME NEW i \in 1..(p - 1)
        PROVE  left[i] = a[i]
    <3>1. i \in 1..(p - 1 - 1 + 1) /\ 1 + i - 1 = i
      BY <1>5
    <3> QED
      BY <2>2, <3>1
  <2> QED
    BY <2>2, <2>3, <2>4
<1>8. /\ right \in Seq(Item) /\ Len(right) = len + 1 - p
      /\ \A i \in 1..(len + 1 - p) : right[i] = a[p + i]
  <2>1. p + 1 \in Int /\ len + 1 \in Int /\ \A i \in (p + 1)..(len + 1) : a[i] \in Item
    BY <1>5, <1>6
  <2>2. right = SubSeq(a, p + 1, len + 1)
    BY <1>3
  <2> HIDE DEF right
  <2> DEFINE lo == p + 1
  <2> DEFINE hi == len + 1
  <2>3. /\ right \in Seq(Item)
        /\ Len(right) = IF lo <= hi THEN hi - lo + 1 ELSE 0
        /\ \A i \in 1..(hi - lo + 1) : right[i] = a[lo + i - 1]
    <3>1. right = SubSeq(a, lo, hi) /\ lo \in Int /\ hi \in Int /\ \A i \in lo..hi : a[i] \in Item
      BY <2>1, <2>2
    <3> HIDE DEF lo, hi
    <3> QED
      BY <3>1, SubSeqProperties
  <2>4. Len(right) = len + 1 - p
    BY <1>5, <2>3
  <2>5. ASSUME NEW i \in 1..(len + 1 - p)
        PROVE  right[i] = a[p + i]
    <3>1. i \in 1..(hi - lo + 1) /\ lo + i - 1 = p + i
      BY <1>5
    <3> HIDE DEF lo, hi
    <3>2. right[i] = a[lo + i - 1]
      BY <2>3, <3>1
    <3> QED
      BY <3>1, <3>2
  <2> QED
    BY <2>3, <2>4, <2>5
<1> HIDE DEF left, right
<1>9. /\ c \in Seq(Item) /\ Len(c) = len
      /\ \A i \in 1..len : c[i] = a[IF i < p THEN i ELSE i + 1]
  <2>1. /\ c \in Seq(Item) /\ Len(c) = Len(left) + Len(right)
        /\ \A i \in 1..(Len(left) + Len(right)) :
             c[i] = IF i <= Len(left) THEN left[i] ELSE right[i - Len(left)]
    BY <1>7, <1>8, ConcatProperties
  <2>2. Len(left) + Len(right) = len
    BY <1>5, <1>7, <1>8
  <2> HIDE DEF c
  <2>3. ASSUME NEW i \in 1..len
        PROVE  c[i] = a[IF i < p THEN i ELSE i + 1]
    <3>1. c[i] = IF i <= p - 1 THEN left[i] ELSE right[i - (p - 1)]
      BY <1>7, <2>1, <2>2
    <3>2. CASE i < p
      <4>1. i \in 1..(p - 1) /\ i <= p - 1
        BY <1>5, <3>2
      <4> QED
        BY <1>7, <3>1, <3>2, <4>1
    <3>3. CASE ~(i < p)
      <4>1. ~(i <= p - 1) /\ i - (p - 1) \in 1..(len + 1 - p) /\ p + (i - (p - 1)) = i + 1
        BY <1>5, <3>3
      <4> QED
        BY <1>8, <3>1, <3>3, <4>1
    <3> QED
      BY <3>2, <3>3
  <2> QED
    BY <2>1, <2>2, <2>3
<1> HIDE DEF c
<1>10. ASSUME NEW i \in 1..len
       PROVE  b[i] = c[i]
  <2>1. (IF i < p THEN i ELSE i + 1) \in 1..(len + 1)
    BY <1>5
  <2>2. InOrder(T)[i] = InOrder(S)[IF i < p THEN i ELSE i + 1]
    BY <1>1 DEF len
  <2> QED
    BY <1>3, <1>4, <1>9, <2>1, <2>2
<1>11. b = c
  BY <1>4, <1>9, <1>10, SeqEqual
<1> QED
  BY <1>11 DEF a, b, c, left, right, T, p, Simulation!RemoveAt

-----------------------------------------------------------------------------
(***************************************************************************)
(* Each operation is a step of the agenda, or changes nothing of it.       *)
(***************************************************************************)
AInv == IInv /\ IsFiniteSet(heap)

LEMMA LiveIs ==
  ASSUME AInv
  PROVE  Live \in SUBSET Entry /\ Live \in SUBSET heap /\ Numbered(Live) /\ Numbered(heap)
<1>1. /\ heap \in SUBSET Entry /\ IsFiniteSet(heap)
      /\ \A m, n \in heap : m.seq = n.seq => m = n
  BY DEF AInv, IInv, TypeOK, SeqIdentifiesEntries
<1>2. Numbered(heap)
  BY <1>1 DEF Numbered, Entry
<1>3. Live \in SUBSET heap
  BY DEF Live
<1> QED
  BY <1>1, <1>2, <1>3, PartOfNumbered

LEMMA AgendaOfLive == Agenda = AgendaOf(Live)
BY DEF Agenda, AgendaOf

\* The agenda keeps its size when nothing but tombstones go.
LEMMA SameLive ==
  ASSUME Live' = Live
  PROVE  Agenda' = Agenda
BY DEF Agenda

LEMMA ScheduleAdds ==
  ASSUME AInv, NEW e \in Event, NEW when \in Times, Schedule(e, when)
  PROVE  Simulation!Add(e, when)
<1> DEFINE n == [when |-> when, seq |-> next_seq, ev |-> e]
<1>1. /\ heap' = heap \cup {n} /\ handle' = [handle EXCEPT ![e] = "alive"]
      /\ ~failed /\ UNCHANGED <<now, ran, failed>> /\ handle[e] = "none"
  BY DEF Schedule, NewEntry
<1>2. /\ handle \in [Event -> Handles] /\ next_seq \in Nat
      /\ \A m \in heap : m.seq < next_seq /\ m.ev # e /\ m.ev \in Event
  BY <1>1 DEF AInv, IInv, TypeOK, SeqIdentifiesEntries, Entry
<1>3. n \in Entry /\ n.ev = e /\ n.seq = next_seq
  BY <1>2 DEF Entry
<1> HIDE DEF n
<1>4. Live' = Live \cup {n}
  <2>1. \A m \in heap : handle'[m.ev] = handle[m.ev]
    BY <1>1, <1>2
  <2>2. handle'[n.ev] = "alive"
    BY <1>1, <1>2, <1>3
  <2> QED
    BY <1>1, <2>1, <2>2 DEF Live, IsLive
<1>5. AgendaOf(Live \cup {n}) = Append(AgendaOf(Live), Listed(n))
  <2>1. \A m \in Live : m.seq < n.seq
    BY <1>2, <1>3 DEF Live
  <2> QED
    BY <1>3, <2>1, LiveIs, AgendaAdded
<1>6. Agenda' = AgendaOf(Live)'
  BY DEF Agenda, AgendaOf
<1>7. AgendaOf(Live)' = AgendaOf(Live \cup {n})
  BY <1>4 DEF AgendaOf, Listed, InOrder, Place
<1>8. Listed(n) = [ev |-> e, when |-> when]
  BY DEF Listed, n
<1>9. Agenda' = Append(Agenda, [ev |-> e, when |-> when])
  BY <1>5, <1>6, <1>7, <1>8, AgendaOfLive
<1> QED
  BY <1>1, <1>9 DEF Simulation!Add

\* What is taken out of the live entries is taken off the agenda, at its place.
LEMMA LiveTaken ==
  ASSUME AInv, NEW n \in Live, Live' = Live \ {n}
  PROVE  /\ Place(n, Live) \in DOMAIN Agenda
         /\ Agenda' = Simulation!RemoveAt(Agenda, Place(n, Live))
         /\ Agenda[Place(n, Live)] = Listed(n)
<1>1. AgendaOf(Live \ {n}) = Simulation!RemoveAt(AgendaOf(Live), Place(n, Live))
  BY LiveIs, AgendaTaken
<1>2. Agenda' = AgendaOf(Live)'
  BY DEF Agenda, AgendaOf
<1>3. AgendaOf(Live)' = AgendaOf(Live \ {n})
  BY DEF AgendaOf, Listed, InOrder, Place
<1>4. Place(n, Live) \in 1..Cardinality(Live) /\ InOrder(Live)[Place(n, Live)] = n
  BY LiveIs, PlaceIs, InOrderIs
<1>5. DOMAIN Agenda = 1..Cardinality(Live) /\ Agenda[Place(n, Live)] = Listed(n)
  BY <1>4, LiveIs, AgendaIs, AgendaOfLive
<1> QED
  BY <1>1, <1>2, <1>3, <1>4, <1>5, AgendaOfLive

\* cancel() withdraws the event, or comes too late and does nothing.
LEMMA CancelWithdraws ==
  ASSUME AInv, NEW e \in Event, Cancel(e)
  PROVE  (\E i \in DOMAIN Agenda : Simulation!Withdraw(i)) \/ UNCHANGED <<now, Agenda, ran, failed>>
<1>1. /\ handle' = [handle EXCEPT ![e] = "cancelled"] /\ heap' = heap
      /\ ~failed /\ UNCHANGED <<now, ran, failed>> /\ handle[e] = "alive"
  BY DEF Cancel
<1>2. /\ handle \in [Event -> Handles] /\ \A m \in heap : m.ev \in Event
      /\ \A m, n \in heap : m.ev = n.ev => m = n
  BY DEF AInv, IInv, TypeOK, SeqIdentifiesEntries, Entry
<1>3. \A m \in heap : handle'[m.ev] = IF m.ev = e THEN "cancelled" ELSE handle[m.ev]
  BY <1>1, <1>2
<1>4. CASE \E n \in heap : n.ev = e
  <2>1. PICK n \in heap : n.ev = e
    BY <1>4
  <2>2. n \in Live /\ Live' = Live \ {n}
    BY <1>1, <1>2, <1>3, <2>1 DEF Live, IsLive
  <2>3. /\ Place(n, Live) \in DOMAIN Agenda
        /\ Agenda' = Simulation!RemoveAt(Agenda, Place(n, Live))
    BY <2>2, LiveTaken
  <2>4. Simulation!Withdraw(Place(n, Live))
    BY <1>1, <2>3 DEF Simulation!Withdraw
  <2> QED
    BY <2>3, <2>4
<1>5. CASE ~\E n \in heap : n.ev = e
  <2>1. Live' = Live
    BY <1>1, <1>3, <1>5 DEF Live, IsLive
  <2> QED
    BY <1>1, <2>1, SameLive
<1> QED
  BY <1>4, <1>5

\* pop_and_run() runs what is due first on the agenda, the tombstones being none of it.
LEMMA PopRunsFirst ==
  ASSUME AInv, PopAndRun
  PROVE  \E i \in DOMAIN Agenda : Simulation!RunFirst(i)
<1>1. PICK n \in heap :
        /\ IsTop(n)
        /\ heap' = HeapAfterPop(n)
        /\ \/ /\ n.when >= now
              /\ now' = n.when
              /\ ran' = Append(ran, [ev |-> n.ev, at |-> n.when])
              /\ failed' = FALSE
           \/ n.when < now /\ failed' = TRUE /\ UNCHANGED <<now, ran>>
  BY DEF PopAndRun
<1>2. ~failed /\ handle' = handle
  BY DEF PopAndRun
<1>3. /\ n \in Entry /\ now \in Times /\ Times \subseteq Nat
      /\ \A m \in heap : m \in Entry /\ m.when \in Nat /\ m.seq \in Nat
  BY MaxTimeAssumption DEF AInv, IInv, TypeOK, Entry, Times
<1>4. n \in Live /\ Live' = Live \ {n}
  <2>1. n \in Live /\ \A m \in Live : m # n => Before(n, m)
    BY <1>1 DEF IsTop, Live
  <2>2. ~Before(n, n)
    BY <1>3 DEF Before
  <2>3. Live' = {m \in Live : Before(n, m)}
    BY <1>1, <1>2 DEF Live, IsLive, HeapAfterPop
  <2> QED
    BY <2>1, <2>2, <2>3
<1> DEFINE p == Place(n, Live)
<1>5. p \in DOMAIN Agenda /\ Agenda' = Simulation!RemoveAt(Agenda, p) /\ Agenda[p] = Listed(n)
  BY <1>4, LiveTaken
<1>6. Agenda[p].ev = n.ev /\ Agenda[p].when = n.when
  BY <1>5 DEF Listed
<1>7. Simulation!IsFirst(p)
  <2>1. ASSUME NEW j \in DOMAIN Agenda, j # p
        PROVE  \/ Agenda[p].when < Agenda[j].when
               \/ Agenda[p].when = Agenda[j].when /\ p < j
    <3> DEFINE m == InOrder(Live)[j]
    <3>1. j \in 1..Cardinality(Live) /\ Cardinality(Live) \in Nat
      BY LiveIs, AgendaIs, AgendaOfLive, PartOfNumbered
    <3>2. m \in Live /\ Place(m, Live) = j /\ Agenda[j] = Listed(m)
      BY <3>1, LiveIs, InOrderIs, AgendaIs, AgendaOfLive
    <3> HIDE DEF m
    <3>3. Agenda[j].when = m.when /\ m # n /\ m \in heap
      BY <2>1, <3>2 DEF Listed, Live
    <3>4. Before(n, m)
      BY <1>1, <3>2, <3>3 DEF IsTop, Live
    <3>5. p \in Nat /\ j \in Nat /\ (m.seq <= n.seq <=> j <= p)
      <4>1. p \in 1..Cardinality(Live) /\ (m.seq <= n.seq <=> Place(m, Live) <= p)
        BY <1>4, <3>2, LiveIs, PlaceIs
      <4> QED
        BY <3>1, <3>2, <4>1
    <3>6. n.when \in Nat /\ m.when \in Nat /\ n.seq \in Nat /\ m.seq \in Nat
      BY <1>3, <3>3
    <3> HIDE DEF p
    <3> QED
      BY <1>6, <3>3, <3>4, <3>5, <3>6 DEF Before
  <2> QED
    BY <2>1 DEF Simulation!IsFirst
<1> HIDE DEF p
<1>8. Simulation!RunFirst(p)
  <2>1. CASE n.when >= now /\ now' = n.when /\ failed' = FALSE
             /\ ran' = Append(ran, [ev |-> n.ev, at |-> n.when])
    BY <1>2, <1>5, <1>6, <1>7, <2>1 DEF Simulation!RunFirst
  <2>2. CASE n.when < now /\ failed' = TRUE /\ UNCHANGED <<now, ran>>
    <3>1. ~(n.when >= now)
      BY <1>1, <1>3, <2>2
    <3> QED
      BY <1>2, <1>5, <1>6, <1>7, <2>2, <3>1 DEF Simulation!RunFirst
  <2> QED
    BY <1>1, <2>1, <2>2
<1> QED
  BY <1>5, <1>8

LEMMA StepIsTimely == AInv /\ [Next]_vars => [Simulation!Next]_(Simulation!vars)
<1> SUFFICES ASSUME AInv, [Next]_vars
             PROVE  [Simulation!Next]_(Simulation!vars)
  OBVIOUS
<1>1. ASSUME NEW e \in Event, NEW when \in Times, Schedule(e, when)
      PROVE  Simulation!Next
  BY <1>1, ScheduleAdds DEF Simulation!Next
<1>2. ASSUME NEW e \in Event, Cancel(e)
      PROVE  [Simulation!Next]_(Simulation!vars)
  BY <1>2, CancelWithdraws DEF Simulation!Next, Simulation!vars
<1>3. CASE PopAndRun
  BY <1>3, PopRunsFirst DEF Simulation!Next
<1>4. CASE PopNothing
  <2>1. Live' = {} /\ Live = {}
    BY <1>4 DEF PopNothing, Live, IsLive
  <2> QED
    BY <1>4, <2>1, SameLive DEF PopNothing, Simulation!vars
<1>5. CASE PeekTime
  <2>1. \A m \in Live : m \in heap /\ IsLive(m)
    BY DEF Live
  <2>2. Live' = Live
    BY <1>5, <2>1 DEF PeekTime, Live, IsLive
  <2> QED
    BY <1>5, <2>2, SameLive DEF PeekTime, Simulation!vars
<1>6. CASE UNCHANGED vars
  <2>1. Live' = Live
    BY <1>6 DEF vars, Live, IsLive
  <2> QED
    BY <1>6, <2>1, SameLive DEF vars, Simulation!vars
<1> QED
  BY <1>1, <1>2, <1>3, <1>4, <1>5, <1>6 DEF Next

LEMMA FiniteHeap == AInv /\ [Next]_vars => AInv'
<1> SUFFICES ASSUME AInv, [Next]_vars
             PROVE  IsFiniteSet(heap')
  BY NextInv DEF AInv
<1>1. (\E n : heap' = heap \cup {n}) \/ heap' \in SUBSET heap
  BY DEF Next, vars, Schedule, Cancel, PopAndRun, PopNothing, PeekTime, HeapAfterPop
<1>2. IsFiniteSet(heap)
  BY DEF AInv
<1> QED
  BY <1>1, <1>2, FS_AddElement, FS_Subset

(***************************************************************************)
(* The queue implements the agenda of Timeline, but for the liveness of    *)
(* it: each call and each pop is the step of the agenda that its user has  *)
(* in mind, and the tombstones, the counter and the flags never show.      *)
(***************************************************************************)
THEOREM BehavesAsAgenda == Spec => Simulation!Init /\ [][Simulation!Next]_(Simulation!vars)
<1>1. Init => Simulation!Init
  <2> SUFFICES ASSUME Init
               PROVE  Simulation!Init
    OBVIOUS
  <2>1. Live = {}
    BY DEF Init, Live
  <2>2. Cardinality(Live) = 0
    BY <2>1, FS_EmptySet
  <2>3. Agenda = <<>>
    BY <2>2 DEF Agenda
  <2> QED
    BY <2>3 DEF Init, Simulation!Init
<1>2. Init => AInv
  BY InitInv, FS_EmptySet DEF Init, AInv
<1> QED
  BY <1>1, <1>2, FiniteHeap, StepIsTimely, PTL DEF Spec

-----------------------------------------------------------------------------
(***************************************************************************)
(* LatencyHistogram.                                                       *)
(***************************************************************************)
-----------------------------------------------------------------------------
(***************************************************************************)
(* Powers of 2, by way of the number of subsets of a set.                  *)
(***************************************************************************)
LEMMA PowerZero == 2^0 = 1
<1>1. Cardinality(SUBSET {}) = 2^Cardinality({}) /\ Cardinality({}) = 0
  BY FS_EmptySet, FS_SUBSET
<1>2. SUBSET {} = {{}}
  OBVIOUS
<1>3. Cardinality({{}}) = 1
  BY FS_Singleton
<1> QED
  BY <1>1, <1>2, <1>3

LEMMA PowerNext ==
  ASSUME NEW n \in Nat
  PROVE  2^n \in Nat /\ 2^(n + 1) = 2 * 2^n
<1> DEFINE S == 1..n
<1> DEFINE x == n + 1
<1> DEFINE A == SUBSET S
<1> DEFINE B == {T \cup {x} : T \in SUBSET S}
<1> DEFINE f == [T \in A |-> T \cup {x}]
<1>1. IsFiniteSet(S) /\ Cardinality(S) = n
  BY FS_Interval
<1>2. IsFiniteSet(1..x) /\ Cardinality(1..x) = n + 1
  BY FS_Interval
<1>3. IsFiniteSet(A) /\ Cardinality(A) = 2^n /\ Cardinality(A) \in Nat
  BY <1>1, FS_SUBSET, FS_CardinalityType
<1>4. Cardinality(SUBSET (1..x)) = 2^(n + 1)
  BY <1>2, FS_SUBSET
<1>5. 1..x = S \cup {x} /\ x \notin S
  OBVIOUS
<1> HIDE DEF S, x
<1>6. SUBSET (1..x) = A \cup B
  <2>1. ASSUME NEW T \in SUBSET (1..x), x \in T
        PROVE  T \in B
    <3>1. T \ {x} \in SUBSET S /\ T = (T \ {x}) \cup {x}
      BY <1>5, <2>1
    <3> QED
      BY <3>1
  <2>2. ASSUME NEW T \in SUBSET (1..x), x \notin T
        PROVE  T \in A
    BY <1>5, <2>2
  <2> QED
    BY <1>5, <2>1, <2>2
<1>7. A \cap B = {}
  BY <1>5
<1>8. f \in [A -> B] /\ \A T \in B : \E U \in A : f[U] = T
  OBVIOUS
<1>9. ASSUME NEW T \in A, NEW U \in A, f[T] = f[U]
      PROVE  T = U
  BY <1>5, <1>9
<1> HIDE DEF f, A, B
<1>10. f \in Bijection(A, B)
  BY <1>8, <1>9 DEF Bijection, Injection, Surjection, IsInjective
<1>11. IsFiniteSet(B) /\ Cardinality(B) = Cardinality(A)
  BY <1>3, <1>10, FS_Bijection DEF ExistsBijection
<1>12. Cardinality(A \cup B) = Cardinality(A) + Cardinality(B) - Cardinality(A \cap B)
  BY <1>3, <1>11, FS_Union
<1>13. Cardinality(A \cap B) = 0
  BY <1>7, FS_EmptySet
<1> DEFINE p == 2^n
<1> DEFINE q == 2^(n + 1)
<1>14. p = Cardinality(A) /\ q = Cardinality(A \cup B)
  BY <1>3, <1>4, <1>6
<1> HIDE DEF p, q
<1>15. p \in Nat /\ q = 2 * p
  BY <1>3, <1>11, <1>12, <1>13, <1>14
<1> QED
  BY <1>15 DEF p, q

-----------------------------------------------------------------------------
(***************************************************************************)
(* Buckets.                                                                *)
(***************************************************************************)
LEMMA ClampedIs ==
  ASSUME NEW us \in Int
  PROVE  /\ Clamped(us) \in Nat /\ us <= Clamped(us)
         /\ us >= 0 => Clamped(us) = us
         /\ us < 0 => Clamped(us) = 0
<1> DEFINE z == 0
<1>1. z \in Int
  OBVIOUS
<1>2. Clamped(us) = Max({us, z})
  BY DEF Clamped
<1> HIDE DEF z
<1>3. /\ Max({us, z}) \in Int /\ us <= Max({us, z}) /\ z <= Max({us, z})
      /\ Max({us, z}) = us \/ Max({us, z}) = z
  BY <1>1, MaxOfTwo
<1> QED
  BY <1>2, <1>3 DEF z

\* The bucket of a latency: the last one whose lower bound does not exceed it.
LEMMA BucketIs ==
  ASSUME NEW us \in Nat
  PROVE  /\ BucketFor(us) \in Buckets
         /\ us = 0 => BucketFor(us) = 0
         /\ us > 0 => /\ 2^BucketFor(us) <= us * us
                      /\ \A b \in Buckets : 2^b <= us * us => b <= BucketFor(us)
<1> DEFINE B == {b \in Buckets : 2^b <= us * us}
<1>1. 0 \in Buckets /\ Buckets \subseteq Int /\ IsFiniteSet(Buckets)
  <2>1. 0 \in Int /\ BucketCount - 1 \in Int
    BY BucketAssumption
  <2>2. IsFiniteSet(0..(BucketCount - 1))
    BY <2>1, FS_Interval
  <2> QED
    BY <2>2, BucketAssumption DEF Buckets
<1>2. CASE us = 0
  BY <1>1, <1>2 DEF BucketFor
<1>3. CASE us > 0
  <2>1. us * us >= 1 /\ us * us \in Nat
    <3>1. us \in Nat /\ us >= 1
      BY <1>3
    <3> QED
      BY <3>1, SMT
  <2>2. 2^0 <= us * us
    BY <2>1, PowerZero
  <2>3. B \in SUBSET Int /\ IsFiniteSet(B) /\ B # {}
    BY <1>1, <2>2, FS_Subset
  <2>4. Max(B) \in B /\ \A y \in B : y <= Max(B)
    <3> HIDE DEF B
    <3> QED
      BY <2>3, MaxIs
  <2>5. BucketFor(us) = Max(B)
    BY <1>3 DEF BucketFor
  <2>6. Max(B) \in Buckets /\ 2^Max(B) <= us * us
    BY <2>4
  <2>7. ASSUME NEW b \in Buckets, 2^b <= us * us
        PROVE  b <= Max(B)
    BY <2>4, <2>7
  <2> HIDE DEF B
  <2> QED
    BY <1>3, <2>5, <2>6, <2>7
<1> QED
  BY <1>2, <1>3

-----------------------------------------------------------------------------
(***************************************************************************)
(* What one histogram says of the samples f in it.                         *)
(***************************************************************************)
Shape == [counts : [Buckets -> Nat], total : Nat, max : Nat, sum : Nat]

InBucket(b) == {us \in Latency : BucketFor(Clamped(us)) = b}

Weighted(f) == [us \in Latency |-> f[us] * Clamped(us)]

Describes(g, f) ==
  /\ g.total = SumFunctionOnSet(f, Latency)
  /\ g.sum = SumFunctionOnSet(Weighted(f), Latency)
  /\ g.max = Max({0} \cup {us \in Latency : f[us] > 0})
  /\ \A b \in Buckets : g.counts[b] = SumFunctionOnSet(f, InBucket(b))

LEMMA EmptyDescribes ==
  Empty \in Shape /\ Describes(Empty, [us \in Latency |-> 0])
<1> DEFINE f == [us \in Latency |-> 0]
<1>1. Empty \in Shape
  BY DEF Empty, Shape
<1>2. IsFiniteSet(Latency) /\ Latency \subseteq Int
  BY LatencyAssumption
<1>3. SumFunctionOnSet(f, Latency) = 0
  BY <1>2, SumZero
<1>4. SumFunctionOnSet(Weighted(f), Latency) = 0
  <2>1. \A us \in Latency : Weighted(f)[us] = 0
    BY <1>2, ClampedIs DEF Weighted
  <2> QED
    BY <1>2, <2>1, SumZero
<1>5. ASSUME NEW b \in Buckets
      PROVE  SumFunctionOnSet(f, InBucket(b)) = 0
  <2>1. IsFiniteSet(InBucket(b)) /\ InBucket(b) \subseteq Latency
    BY <1>2, FS_Subset DEF InBucket
  <2>2. \A us \in InBucket(b) : f[us] = 0
    BY <2>1
  <2> QED
    BY <2>1, <2>2, SumZero
<1>6. Max({0} \cup {us \in Latency : f[us] > 0}) = 0
  <2>1. {0} \cup {us \in Latency : f[us] > 0} = {0}
    OBVIOUS
  <2>2. {0} \in SUBSET Int /\ IsFiniteSet({0}) /\ {0} # {}
    BY FS_Singleton
  <2>3. Max({0}) \in {0}
    BY <2>2, MaxIs
  <2> QED
    BY <2>1, <2>3
<1>7. /\ Empty.total = 0 /\ Empty.sum = 0 /\ Empty.max = 0
      /\ \A b \in Buckets : Empty.counts[b] = 0
  BY DEF Empty
<1> HIDE DEF f
<1>8. Describes(Empty, f)
  BY <1>3, <1>4, <1>5, <1>6, <1>7 DEF Describes
<1> QED
  BY <1>1, <1>8 DEF f

LEMMA LatenciesAre ==
  /\ IsFiniteSet(Latency) /\ \A us \in Latency : us \in Int /\ Clamped(us) \in Nat
  /\ \A b : InBucket(b) \in SUBSET Latency /\ IsFiniteSet(InBucket(b))
<1>1. IsFiniteSet(Latency) /\ \A us \in Latency : us \in Int
  BY LatencyAssumption
<1>2. ASSUME NEW us \in Latency
      PROVE  Clamped(us) \in Nat
  BY <1>1, ClampedIs
<1>3. ASSUME NEW b
      PROVE  InBucket(b) \in SUBSET Latency /\ IsFiniteSet(InBucket(b))
  <2>1. InBucket(b) \in SUBSET Latency
    BY DEF InBucket
  <2> QED
    BY <1>1, <2>1, FS_Subset
<1> QED
  BY <1>1, <1>2, <1>3

\* The maximum of a histogram, without Max.
LEMMA MaxSampleIs ==
  ASSUME NEW f, NEW m \in Nat
  PROVE  m = Max({0} \cup {us \in Latency : f[us] > 0})
           <=> /\ \A us \in Latency : f[us] > 0 => us <= m
               /\ m = 0 \/ (m \in Latency /\ f[m] > 0)
<1> DEFINE S == {0} \cup {us \in Latency : f[us] > 0}
<1>1. S \in SUBSET Int /\ IsFiniteSet(S) /\ S # {}
  <2>1. IsFiniteSet({us \in Latency : f[us] > 0}) /\ IsFiniteSet({0})
    BY LatenciesAre, FS_Subset, FS_Singleton
  <2>2. IsFiniteSet(S)
    BY <2>1, FS_Union
  <2> QED
    BY <2>2, LatenciesAre
<1>2. (m \in S /\ \A y \in S : y <= m) <=> /\ \A us \in Latency : f[us] > 0 => us <= m
                                           /\ m = 0 \/ (m \in Latency /\ f[m] > 0)
  <2>1. m \in S <=> m = 0 \/ (m \in Latency /\ f[m] > 0)
    OBVIOUS
  <2>2. \A us \in Latency : f[us] > 0 => us \in S
    OBVIOUS
  <2>3. \A y \in S : y = 0 \/ (y \in Latency /\ f[y] > 0)
    OBVIOUS
  <2> HIDE DEF S
  <2>4. (\A us \in Latency : f[us] > 0 => us <= m) => \A y \in S : y <= m
    BY <2>3
  <2> QED
    BY <2>1, <2>2, <2>4
<1> HIDE DEF S
<1>3. /\ Max(S) \in S /\ \A y \in S : y <= Max(S)
      /\ m \in S /\ (\A y \in S : y <= m) => m = Max(S)
  BY <1>1, MaxIs
<1>4. m = Max(S) <=> (m \in S /\ \A y \in S : y <= m)
  BY <1>3
<1> QED
  BY <1>2, <1>4 DEF S

LEMMA RecordDescribes ==
  ASSUME NEW g \in Shape, NEW f \in [Latency -> Nat], Describes(g, f), NEW us \in Latency,
         NEW h \in [Latency -> Nat], h[us] = f[us] + 1,
         \A y \in Latency : y # us => h[y] = f[y]
  PROVE  Recorded(g, Clamped(us)) \in Shape /\ Describes(Recorded(g, Clamped(us)), h)
<1> DEFINE w == Clamped(us)
<1> DEFINE c == BucketFor(w)
<1> DEFINE r == Recorded(g, w)
<1>1. w \in Nat /\ us \in Int /\ us <= w /\ (us >= 0 => w = us) /\ (us < 0 => w = 0)
  BY LatenciesAre, ClampedIs
<1>2. c \in Buckets
  BY <1>1, BucketIs
<1>3. /\ g.counts \in [Buckets -> Nat] /\ g.total \in Nat /\ g.max \in Nat /\ g.sum \in Nat
  BY DEF Shape
<1> HIDE DEF w, c
<1>4. Max({g.max, w}) \in Nat /\ g.max <= Max({g.max, w}) /\ w <= Max({g.max, w})
      /\ (Max({g.max, w}) = g.max \/ Max({g.max, w}) = w)
  <2>1. g.max \in Int /\ w \in Int
    BY <1>1, <1>3
  <2>2. Max({g.max, w}) \in Int /\ g.max <= Max({g.max, w}) /\ w <= Max({g.max, w})
      /\ (Max({g.max, w}) = g.max \/ Max({g.max, w}) = w)
    BY <2>1, MaxOfTwo
  <2> QED
    BY <1>1, <1>3, <2>2
<1>5. /\ r \in Shape
      /\ r.counts = [g.counts EXCEPT ![c] = @ + 1]
      /\ r.total = g.total + 1 /\ r.max = Max({g.max, w}) /\ r.sum = g.sum + w
  <2> DEFINE k == [g.counts EXCEPT ![c] = @ + 1]
  <2>1. k \in [Buckets -> Nat]
    BY <1>2, <1>3
  <2> HIDE DEF k
  <2>2. r = [counts |-> k, total |-> g.total + 1, max |-> Max({g.max, w}), sum |-> g.sum + w]
    <3>1. r = [g EXCEPT !.counts = k, !.total = @ + 1, !.max = Max({@, w}), !.sum = @ + w]
      BY DEF Recorded, k, c
    <3> QED
      BY <3>1 DEF Shape
  <2>3. r \in Shape
    BY <1>1, <1>3, <1>4, <2>1, <2>2 DEF Shape
  <2> QED
    BY <2>2, <2>3 DEF k
<1> HIDE DEF r
<1>6. /\ h[us] = f[us] + 1 /\ \A y \in Latency : y # us => h[y] = f[y]
      /\ \A y \in Latency : f[y] \in Int /\ h[y] \in Int
  OBVIOUS
<1>7. r.total = SumFunctionOnSet(h, Latency)
  <2>1. SumFunctionOnSet(h, Latency) = SumFunctionOnSet(f, Latency) + (h[us] - f[us])
    BY <1>6, LatenciesAre, SumChange
  <2>2. h[us] - f[us] = 1
    BY <1>6
  <2> QED
    BY <1>5, <2>1, <2>2 DEF Describes
<1>8. r.sum = SumFunctionOnSet(Weighted(h), Latency)
  <2>1. \A y \in Latency : Weighted(f)[y] \in Int
    BY LatenciesAre DEF Weighted
  <2>2. Weighted(h)[us] = Weighted(f)[us] + w
    <3>1. Weighted(h)[us] = (f[us] + 1) * w /\ Weighted(f)[us] = f[us] * w
      BY <1>6 DEF Weighted, w
    <3>2. (f[us] + 1) * w = f[us] * w + w
      <4>1. f[us] \in Nat /\ w \in Nat
        BY <1>1
      <4> QED
        BY <4>1
    <3> QED
      BY <3>1, <3>2
  <2>3. \A y \in Latency : y # us => Weighted(h)[y] = Weighted(f)[y]
    BY <1>6 DEF Weighted
  <2>4. SumFunctionOnSet(Weighted(h), Latency) = SumFunctionOnSet(Weighted(f), Latency) + w
    <3> DEFINE p == Weighted(f)
    <3> DEFINE q == Weighted(h)
    <3>1. \A y \in Latency : p[y] \in Int /\ q[y] \in Int
      BY <1>6, <2>1, LatenciesAre DEF Weighted
    <3>2. q[us] = p[us] + w /\ \A y \in Latency : y # us => q[y] = p[y]
      BY <2>2, <2>3
    <3> HIDE DEF p, q
    <3>3. SumFunctionOnSet(q, Latency) = SumFunctionOnSet(p, Latency) + (q[us] - p[us])
      BY <3>1, <3>2, LatenciesAre, SumChange
    <3>4. q[us] - p[us] = w
      BY <1>1, <3>1, <3>2
    <3> QED
      BY <3>3, <3>4 DEF p, q
  <2> QED
    BY <1>5, <2>4 DEF Describes
<1>9. ASSUME NEW b \in Buckets
      PROVE  r.counts[b] = SumFunctionOnSet(h, InBucket(b))
  <2>1. IsFiniteSet(InBucket(b)) /\ InBucket(b) \subseteq Latency
    BY LatenciesAre
  <2>2. us \in InBucket(b) <=> b = c
    BY DEF InBucket, c, w
  <2>3. g.counts[b] = SumFunctionOnSet(f, InBucket(b))
    BY DEF Describes
  <2>4. CASE b = c
    <3>1. \A y \in InBucket(b) : f[y] \in Int /\ h[y] \in Int
      BY <1>6, <2>1
    <3>2. \A y \in InBucket(b) : y # us => h[y] = f[y]
      BY <1>6, <2>1
    <3>3. SumFunctionOnSet(h, InBucket(b)) = SumFunctionOnSet(f, InBucket(b)) + (h[us] - f[us])
      BY <2>1, <2>2, <2>4, <3>1, <3>2, SumChange
    <3>5. h[us] - f[us] = 1
      BY <1>6
    <3>4. r.counts[b] = g.counts[b] + 1
      BY <1>2, <1>3, <1>5, <2>4
    <3> QED
      BY <2>3, <3>3, <3>4, <3>5
  <2>5. CASE b # c
    <3>1. \A y \in InBucket(b) : f[y] = h[y]
      BY <1>6, <2>1, <2>2, <2>5
    <3>2. SumFunctionOnSet(f, InBucket(b)) = SumFunctionOnSet(h, InBucket(b))
      BY <2>1, <3>1, SumSame
    <3>3. r.counts[b] = g.counts[b]
      BY <1>2, <1>3, <1>5, <2>5
    <3> QED
      BY <2>3, <3>2, <3>3
  <2> QED
    BY <2>4, <2>5
<1>10. r.max = Max({0} \cup {y \in Latency : h[y] > 0})
  <2>1. /\ \A y \in Latency : f[y] > 0 => y <= g.max
        /\ g.max = 0 \/ (g.max \in Latency /\ f[g.max] > 0)
    BY <1>3, MaxSampleIs DEF Describes
  <2> DEFINE m == Max({g.max, w})
  <2>2. m \in Nat /\ g.max <= m /\ w <= m /\ (m = g.max \/ m = w)
    BY <1>4
  <2> HIDE DEF m
  <2>3. ASSUME NEW y \in Latency, h[y] > 0
        PROVE  y <= m
    <3>1. y \in Int
      BY LatenciesAre
    <3>2. CASE y = us
      BY <1>1, <2>2, <3>2
    <3>3. CASE y # us
      BY <1>3, <1>6, <2>1, <2>2, <2>3, <3>1, <3>3
    <3> QED
      BY <3>2, <3>3
  <2>4. m = 0 \/ (m \in Latency /\ h[m] > 0)
    <3>1. \A y \in Latency : f[y] > 0 => h[y] > 0
      BY <1>6
    <3>2. h[us] > 0
      BY <1>6
    <3>3. w = 0 \/ w = us
      BY <1>1
    <3> QED
      BY <2>1, <2>2, <3>1, <3>2, <3>3
  <2>5. m = Max({0} \cup {y \in Latency : h[y] > 0})
    BY <2>2, <2>3, <2>4, MaxSampleIs
  <2> QED
    BY <1>5, <2>5 DEF m
<1>11. Describes(r, h)
  BY <1>7, <1>8, <1>9, <1>10 DEF Describes
<1> QED
  BY <1>5, <1>11 DEF r, w

LEMMA MergeDescribes ==
  ASSUME NEW g \in Shape, NEW f \in [Latency -> Nat], Describes(g, f),
         NEW o \in Shape, NEW e \in [Latency -> Nat], Describes(o, e),
         NEW h \in [Latency -> Nat], \A y \in Latency : h[y] = f[y] + e[y]
  PROVE  Merged(g, o) \in Shape /\ Describes(Merged(g, o), h)
<1> DEFINE r == Merged(g, o)
<1> DEFINE m == Max({g.max, o.max})
<1>1. /\ g.counts \in [Buckets -> Nat] /\ g.total \in Nat /\ g.max \in Nat /\ g.sum \in Nat
      /\ o.counts \in [Buckets -> Nat] /\ o.total \in Nat /\ o.max \in Nat /\ o.sum \in Nat
  BY DEF Shape
<1>2. m \in Nat /\ g.max <= m /\ o.max <= m /\ (m = g.max \/ m = o.max)
  <2>1. g.max \in Int /\ o.max \in Int
    BY <1>1
  <2>2. m \in Int /\ g.max <= m /\ o.max <= m /\ (m = g.max \/ m = o.max)
    BY <2>1, MaxOfTwo
  <2> QED
    BY <1>1, <2>2
<1> HIDE DEF m
<1>3. /\ r.total = g.total + o.total /\ r.sum = g.sum + o.sum /\ r.max = m
      /\ \A b \in Buckets : r.counts[b] = g.counts[b] + o.counts[b]
      /\ r \in Shape
  <2> DEFINE k == [b \in Buckets |-> g.counts[b] + o.counts[b]]
  <2>1. r = [counts |-> k, total |-> g.total + o.total, max |-> m, sum |-> g.sum + o.sum]
    BY DEF Merged, m
  <2>2. k \in [Buckets -> Nat] /\ \A b \in Buckets : k[b] = g.counts[b] + o.counts[b]
    BY <1>1
  <2> HIDE DEF k, r
  <2>3. r \in Shape
    BY <1>1, <1>2, <2>1, <2>2 DEF Shape
  <2> QED
    BY <2>1, <2>2, <2>3
<1> HIDE DEF r
<1>4. \A y \in Latency : f[y] \in Int /\ e[y] \in Int /\ h[y] = f[y] + e[y]
  OBVIOUS
<1>5. SumFunctionOnSet(h, Latency) = SumFunctionOnSet(f, Latency) + SumFunctionOnSet(e, Latency)
  BY <1>4, LatenciesAre, SumPlus
<1>6. SumFunctionOnSet(Weighted(h), Latency)
        = SumFunctionOnSet(Weighted(f), Latency) + SumFunctionOnSet(Weighted(e), Latency)
  <2> DEFINE p == Weighted(f)
  <2> DEFINE q == Weighted(e)
  <2> DEFINE s == Weighted(h)
  <2>1. ASSUME NEW y \in Latency
        PROVE  p[y] \in Int /\ q[y] \in Int /\ s[y] = p[y] + q[y]
    <3>1. p[y] = f[y] * Clamped(y) /\ q[y] = e[y] * Clamped(y) /\ s[y] = h[y] * Clamped(y)
      BY DEF Weighted
    <3>2. f[y] \in Nat /\ e[y] \in Nat /\ Clamped(y) \in Nat /\ h[y] = f[y] + e[y]
      BY LatenciesAre
    <3> QED
      BY <3>1, <3>2
  <2> HIDE DEF p, q, s
  <2>2. SumFunctionOnSet(s, Latency) = SumFunctionOnSet(p, Latency) + SumFunctionOnSet(q, Latency)
    BY <2>1, LatenciesAre, SumPlus
  <2> QED
    BY <2>2 DEF p, q, s
<1>7. ASSUME NEW b \in Buckets
      PROVE  r.counts[b] = SumFunctionOnSet(h, InBucket(b))
  <2>1. IsFiniteSet(InBucket(b)) /\ InBucket(b) \subseteq Latency
    BY LatenciesAre
  <2>2. \A y \in InBucket(b) : f[y] \in Int /\ e[y] \in Int /\ h[y] = f[y] + e[y]
    BY <1>4, <2>1
  <2>3. SumFunctionOnSet(h, InBucket(b))
          = SumFunctionOnSet(f, InBucket(b)) + SumFunctionOnSet(e, InBucket(b))
    BY <2>1, <2>2, SumPlus
  <2> QED
    BY <1>3, <2>3 DEF Describes
<1>8. m = Max({0} \cup {y \in Latency : h[y] > 0})
  <2>1. /\ \A y \in Latency : f[y] > 0 => y <= g.max
        /\ g.max = 0 \/ (g.max \in Latency /\ f[g.max] > 0)
    BY <1>1, MaxSampleIs DEF Describes
  <2>2. /\ \A y \in Latency : e[y] > 0 => y <= o.max
        /\ o.max = 0 \/ (o.max \in Latency /\ e[o.max] > 0)
    BY <1>1, MaxSampleIs DEF Describes
  <2>3. ASSUME NEW y \in Latency
        PROVE  h[y] > 0 <=> f[y] > 0 \/ e[y] > 0
    <3>1. f[y] \in Nat /\ e[y] \in Nat /\ h[y] = f[y] + e[y]
      OBVIOUS
    <3> QED
      BY <3>1
  <2>4. ASSUME NEW y \in Latency, h[y] > 0
        PROVE  y <= m
    <3>1. y <= g.max \/ y <= o.max
      BY <2>1, <2>2, <2>3, <2>4
    <3>2. y \in Int
      BY LatenciesAre
    <3> QED
      BY <1>1, <1>2, <3>1, <3>2
  <2>5. m = 0 \/ (m \in Latency /\ h[m] > 0)
    BY <1>2, <2>1, <2>2, <2>3
  <2> QED
    BY <1>2, <2>4, <2>5, MaxSampleIs
<1>9. Describes(r, h)
  BY <1>3, <1>5, <1>6, <1>7, <1>8 DEF Describes
<1> QED
  BY <1>3, <1>9 DEF r

-----------------------------------------------------------------------------
(***************************************************************************)
(* The inductive invariant: every histogram describes its samples.         *)
(***************************************************************************)
HInv ==
  /\ hist \in [Histogram -> Shape]
  /\ samples \in [Histogram -> [Latency -> Nat]]
  /\ \A h \in Histogram : Describes(hist[h], samples[h])

LEMMA EmptyInv == HistInit => HInv
<1> SUFFICES ASSUME HistInit
             PROVE  HInv
  OBVIOUS
<1> DEFINE f == [us \in Latency |-> 0]
<1>1. hist = [h \in Histogram |-> Empty] /\ samples = [h \in Histogram |-> f]
  BY DEF HistInit
<1>2. Empty \in Shape /\ Describes(Empty, f) /\ f \in [Latency -> Nat]
  BY EmptyDescribes
<1> HIDE DEF f
<1> QED
  BY <1>1, <1>2 DEF HInv

LEMMA RecordInv ==
  ASSUME HInv, NEW h \in Histogram, NEW us \in Latency, Record(h, us)
  PROVE  HInv'
<1> DEFINE r == Recorded(hist[h], Clamped(us))
<1> DEFINE f == samples[h]
<1> DEFINE k == [f EXCEPT ![us] = @ + 1]
<1>1. hist' = [hist EXCEPT ![h] = r] /\ samples' = [samples EXCEPT ![h] = k]
  BY DEF Record, HInv
<1>2. /\ hist \in [Histogram -> Shape] /\ samples \in [Histogram -> [Latency -> Nat]]
      /\ hist[h] \in Shape /\ f \in [Latency -> Nat] /\ Describes(hist[h], f)
  BY DEF HInv
<1>3. /\ k \in [Latency -> Nat] /\ k[us] = f[us] + 1
      /\ \A y \in Latency : y # us => k[y] = f[y]
  BY <1>2
<1> HIDE DEF k, f, r
<1>4. r \in Shape /\ Describes(r, k)
  BY <1>2, <1>3, RecordDescribes DEF r
<1>5. ASSUME NEW j \in Histogram
      PROVE  /\ j = h => hist'[j] = r /\ samples'[j] = k
             /\ j # h => hist'[j] = hist[j] /\ samples'[j] = samples[j]
  BY <1>1, <1>2
<1>6. hist' \in [Histogram -> Shape] /\ samples' \in [Histogram -> [Latency -> Nat]]
  BY <1>1, <1>2, <1>3, <1>4
<1>7. ASSUME NEW j \in Histogram
      PROVE  Describes(hist'[j], samples'[j])
  BY <1>4, <1>5 DEF HInv
<1> QED
  BY <1>6, <1>7 DEF HInv

LEMMA MergeInv ==
  ASSUME HInv, NEW h \in Histogram, NEW o \in Histogram, Merge(h, o)
  PROVE  HInv'
<1> DEFINE r == Merged(hist[h], hist[o])
<1> DEFINE f == samples[h]
<1> DEFINE e == samples[o]
<1> DEFINE k == [us \in Latency |-> f[us] + e[us]]
<1>1. hist' = [hist EXCEPT ![h] = r] /\ samples' = [samples EXCEPT ![h] = k]
  BY DEF Merge, HInv
<1>2. /\ hist \in [Histogram -> Shape] /\ samples \in [Histogram -> [Latency -> Nat]]
      /\ hist[h] \in Shape /\ f \in [Latency -> Nat] /\ Describes(hist[h], f)
      /\ hist[o] \in Shape /\ e \in [Latency -> Nat] /\ Describes(hist[o], e)
  BY DEF HInv
<1>3. k \in [Latency -> Nat] /\ \A y \in Latency : k[y] = f[y] + e[y]
  BY <1>2
<1> HIDE DEF k, f, e, r
<1>4. r \in Shape /\ Describes(r, k)
  BY <1>2, <1>3, MergeDescribes DEF r
<1>5. ASSUME NEW j \in Histogram
      PROVE  /\ j = h => hist'[j] = r /\ samples'[j] = k
             /\ j # h => hist'[j] = hist[j] /\ samples'[j] = samples[j]
  BY <1>1, <1>2
<1>6. hist' \in [Histogram -> Shape] /\ samples' \in [Histogram -> [Latency -> Nat]]
  BY <1>1, <1>2, <1>3, <1>4
<1>7. ASSUME NEW j \in Histogram
      PROVE  Describes(hist'[j], samples'[j])
  BY <1>4, <1>5 DEF HInv
<1> QED
  BY <1>6, <1>7 DEF HInv

(***************************************************************************)
(* Every histogram describes its samples at all times.                     *)
(***************************************************************************)
THEOREM HistogramsDescribe == HistSpec => []HInv
<1>1. ASSUME HInv, [HistNext]_histVars
      PROVE  HInv'
  <2>1. CASE UNCHANGED histVars
    BY <1>1, <2>1 DEF histVars, HInv
  <2> QED
    BY <1>1, <2>1, RecordInv, MergeInv DEF HistNext
<1>2. HInv /\ [HistNext]_histVars => HInv'
  BY <1>1
<1> QED
  BY <1>2, EmptyInv, PTL DEF HistSpec

(***************************************************************************)
(* A merged histogram is the one that would have recorded the samples of   *)
(* both: count, maximum, sum and every bucket, after any sequence of       *)
(* records and merges.                                                     *)
(***************************************************************************)
THEOREM NothingLost == HistSpec => []MergeLosesNothing
<1>1. HInv => MergeLosesNothing
  BY DEF HInv, Describes, Weighted, InBucket, MergeLosesNothing, Recordings
<1> QED
  BY <1>1, HistogramsDescribe, PTL

-----------------------------------------------------------------------------
(***************************************************************************)
(* Percentiles.  Bucket bounds are powers of 2, compared with squares.     *)
(***************************************************************************)
\* What holds of 0 and of every successor holds of all.
LEMMA Upward ==
  ASSUME NEW n \in Nat, NEW P, 0 \in P, \A i \in Nat : i < n /\ i \in P => i + 1 \in P
  PROVE  n \in P
<1> DEFINE Bad == (0..n) \ P
<1>1. SUFFICES ASSUME n \notin P
               PROVE  FALSE
  OBVIOUS
<1>2. Bad \in SUBSET Int /\ IsFiniteSet(Bad) /\ Bad # {}
  <2>1. IsFiniteSet(0..n)
    BY FS_Interval
  <2>2. IsFiniteSet(Bad)
    BY <2>1, FS_Subset
  <2> QED
    BY <1>1, <2>2
<1>3. PICK m \in Bad : \A y \in Bad : m <= y
  <2> HIDE DEF Bad
  <2> QED
    BY <1>2, MinIs
<1>4. m \in Nat /\ m # 0 /\ m - 1 \in Nat /\ m - 1 < n /\ m <= n
  BY <1>3
<1>5. m - 1 \in P
  BY <1>3, <1>4
<1>6. (m - 1) + 1 = m
  BY <1>4
<1> QED
  BY <1>3, <1>4, <1>5, <1>6

LEMMA PowerPositive ==
  ASSUME NEW n \in Nat
  PROVE  2^n \in Nat /\ 2^n >= 1
<1> DEFINE P == {i \in Nat : 2^i >= 1}
<1>1. 0 \in P
  BY PowerZero
<1>2. ASSUME NEW i \in Nat, i \in P
      PROVE  i + 1 \in P
  <2> DEFINE a == 2^i
  <2> DEFINE c == 2^(i + 1)
  <2>1. a \in Nat /\ c = 2 * a /\ a >= 1
    BY <1>2, PowerNext
  <2> HIDE DEF a, c
  <2>2. c >= 1
    BY <2>1
  <2> QED
    BY <2>2 DEF c
<1>3. n \in P
  <2> HIDE DEF P
  <2> QED
    BY <1>1, <1>2, Upward
<1> QED
  BY <1>3, PowerNext

LEMMA PowerMonotone ==
  ASSUME NEW m \in Nat, NEW n \in Nat, m <= n
  PROVE  2^m <= 2^n
<1> DEFINE P == {i \in Nat : 2^m <= 2^(m + i)}
<1>1. 0 \in P
  <2>1. m + 0 = m /\ 2^m \in Nat
    BY PowerNext
  <2> DEFINE a == 2^m
  <2>2. 2^(m + 0) = a /\ a \in Nat
    BY <2>1
  <2> HIDE DEF a
  <2>3. a <= a
    BY <2>2
  <2> QED
    BY <2>2, <2>3 DEF a
<1>2. ASSUME NEW i \in Nat, i \in P
      PROVE  i + 1 \in P
  <2> DEFINE z == 2^m
  <2> DEFINE a == 2^(m + i)
  <2> DEFINE c == 2^(m + (i + 1))
  <2>1. m + i \in Nat /\ m + (i + 1) = (m + i) + 1
    OBVIOUS
  <2>2. a \in Nat /\ c = 2 * a /\ z <= a /\ z \in Nat
    BY <1>2, <2>1, PowerNext
  <2> HIDE DEF a, c, z
  <2>3. z <= c
    BY <2>2
  <2> QED
    BY <2>3 DEF c, z
<1>3. n - m \in Nat /\ m + (n - m) = n
  OBVIOUS
<1>4. n - m \in P
  <2> HIDE DEF P
  <2> QED
    BY <1>1, <1>2, <1>3, Upward
<1>5. 2^m <= 2^(m + (n - m))
  BY <1>4
<1> QED
  BY <1>3, <1>5

\* The square of a power of 2.
LEMMA PowerSquare ==
  ASSUME NEW n \in Nat
  PROVE  2^n * 2^n = 2^(2 * n)
<1> DEFINE P == {i \in Nat : 2^i * 2^i = 2^(2 * i)}
<1>1. 0 \in P
  BY PowerZero
<1>2. ASSUME NEW i \in Nat, i \in P
      PROVE  i + 1 \in P
  <2> DEFINE a == 2^i
  <2> DEFINE c == 2^(i + 1)
  <2> DEFINE d == 2^(2 * i)
  <2> DEFINE e == 2^(2 * i + 1)
  <2> DEFINE f == 2^((2 * i + 1) + 1)
  <2>1. 2 * i \in Nat /\ 2 * i + 1 \in Nat /\ 2 * (i + 1) = (2 * i + 1) + 1
    OBVIOUS
  <2>2. a \in Nat /\ c = 2 * a /\ d \in Nat /\ e = 2 * d /\ a * a = d
    BY <1>2, <2>1, PowerNext
  <2>3. f = 2 * e
    BY <2>1, PowerNext
  <2>4. 2^(2 * (i + 1)) = f
    BY <2>1
  <2> HIDE DEF a, c, d, e, f
  <2>5. c * c = f
    <3>1. c * c = 4 * (a * a)
      BY <2>2
    <3> QED
      BY <2>2, <2>3, <3>1
  <2> QED
    BY <2>4, <2>5 DEF c
<1>3. n \in P
  <2> HIDE DEF P
  <2> QED
    BY <1>1, <1>2, Upward
<1> QED
  BY <1>3

LEMMA Squares ==
  ASSUME NEW x \in Nat, NEW y \in Nat
  PROVE  /\ x <= y => x * x <= y * y
         /\ x * x <= y * y => x <= y
<1>1. ASSUME NEW a \in Nat, NEW c \in Nat, a <= c
      PROVE  a * a <= c * c
  <2>1. a * a <= a * c /\ a * c <= c * c
    BY <1>1
  <2>2. a * a \in Nat /\ a * c \in Nat /\ c * c \in Nat
    OBVIOUS
  <2> QED
    BY <2>1, <2>2
<1>2. ASSUME y < x
      PROVE  y * y < x * x
  <2>1. y + 1 <= x
    BY <1>2
  <2>2. (y + 1) * (y + 1) <= x * x
    BY <1>1, <2>1
  <2>3. y * y < (y + 1) * (y + 1) /\ y * y \in Nat /\ x * x \in Nat /\ (y + 1) * (y + 1) \in Nat
    OBVIOUS
  <2> QED
    BY <2>2, <2>3
<1>3. x * x \in Nat /\ y * y \in Nat
  OBVIOUS
<1>4. x * x <= y * y => ~(y < x)
  BY <1>2, <1>3
<1> QED
  BY <1>1, <1>4

\* upper_bound_of(): the integer part of the root of 2^(b + 1).
LEMMA UpperBoundIs ==
  ASSUME NEW b \in Nat
  PROVE  /\ UpperBoundOf(b) \in Nat /\ UpperBoundOf(b) * UpperBoundOf(b) <= 2^(b + 1)
         /\ \A e \in Nat : e * e <= 2^(b + 1) => e <= UpperBoundOf(b)
<1> DEFINE k == b \div 2 + 1
<1> DEFINE r == 2^k
<1> DEFINE s == 2^(b + 1)
<1> DEFINE S == {us \in 0..r : us * us <= s}
<1>1. k \in Nat /\ b + 1 <= 2 * k
  OBVIOUS
<1>2. r \in Nat /\ s \in Nat /\ s <= r * r
  <2>1. r \in Nat /\ s \in Nat
    BY <1>1, PowerPositive
  <2>2. 2 * k \in Nat /\ b + 1 \in Nat
    BY <1>1
  <2>3. s <= 2^(2 * k)
    BY <1>1, <2>2, PowerMonotone
  <2>4. r * r = 2^(2 * k)
    BY <1>1, PowerSquare
  <2> QED
    BY <2>1, <2>3, <2>4
<1>3. UpperBoundOf(b) = Max(S)
  BY DEF UpperBoundOf
<1> HIDE DEF r, s, k
<1>4. S \in SUBSET Int /\ IsFiniteSet(S) /\ S # {}
  <2>1. IsFiniteSet(0..r)
    BY <1>2, FS_Interval
  <2>2. 0 \in S
    BY <1>2
  <2>3. S \subseteq 0..r
    OBVIOUS
  <2>4. \A y \in 0..r : y \in Int
    OBVIOUS
  <2> HIDE DEF S
  <2> QED
    BY <2>1, <2>2, <2>3, <2>4, FS_Subset
<1>5. Max(S) \in S /\ \A y \in S : y <= Max(S)
  <2> HIDE DEF S
  <2> QED
    BY <1>4, MaxIs
<1>6. ASSUME NEW e \in Nat, e * e <= s
      PROVE  e <= Max(S)
  <2>1. e * e <= r * r
    <3>1. e * e \in Nat /\ r * r \in Nat
      BY <1>2
    <3> QED
      BY <1>2, <1>6, <3>1
  <2>2. e <= r
    BY <1>2, <2>1, Squares
  <2>3. e \in S
    BY <1>2, <1>6, <2>2
  <2> QED
    BY <1>5, <2>3
<1>7. Max(S) \in Nat /\ Max(S) * Max(S) <= s
  BY <1>2, <1>5
<1> HIDE DEF S
<1> QED
  BY <1>3, <1>6, <1>7 DEF s

-----------------------------------------------------------------------------
LastBucket == BucketCount - 1

LEMMA BucketsAre ==
  /\ LastBucket \in Buckets /\ 0 \in Buckets /\ IsFiniteSet(Buckets)
  /\ \A b : b \in Buckets <=> b \in Nat /\ b <= LastBucket
<1>1. BucketCount - 1 \in Nat
  BY BucketAssumption
<1>2. IsFiniteSet(0..(BucketCount - 1))
  BY <1>1, FS_Interval
<1> QED
  BY <1>1, <1>2 DEF Buckets, LastBucket

\* Longer latencies are in later buckets.
LEMMA BucketMonotone ==
  ASSUME NEW x \in Nat, NEW y \in Nat, x <= y
  PROVE  BucketFor(x) <= BucketFor(y)
<1>1. BucketFor(x) \in Buckets /\ BucketFor(y) \in Buckets
  BY BucketIs
<1>2. CASE x = 0
  BY <1>1, <1>2, BucketIs, BucketsAre
<1>3. CASE x > 0
  <2> DEFINE a == 2^BucketFor(x)
  <2>1. a \in Nat /\ a <= x * x
    BY <1>1, <1>3, BucketIs, BucketsAre, PowerPositive
  <2>2. x * x <= y * y /\ x * x \in Nat /\ y * y \in Nat
    BY Squares
  <2> HIDE DEF a
  <2>3. a <= y * y
    BY <2>1, <2>2
  <2> QED
    BY <1>1, <1>3, <2>3, BucketIs DEF a
<1> QED
  BY <1>2, <1>3

\* The upper bound of the bucket of e, against e.
LEMMA RoundsUp ==
  ASSUME NEW e \in Nat
  PROVE  LET reported == UpperBoundOf(BucketFor(e))
             last     == UpperBoundOf(LastBucket)
         IN IF e > last THEN reported = last
            ELSE e <= reported /\ reported * reported <= 2 * Max({e * e, 1})
<1> DEFINE b == BucketFor(e)
<1> DEFINE reported == UpperBoundOf(b)
<1> DEFINE last == UpperBoundOf(LastBucket)
<1> DEFINE lower == 2^b
<1> DEFINE upper == 2^(b + 1)
<1>1. /\ b \in Nat /\ b + 1 \in Nat /\ b <= LastBucket /\ LastBucket \in Nat
      /\ b \in Buckets
      /\ (b < LastBucket => b + 1 \in Buckets)
  <2>1. b \in Buckets
    BY BucketIs
  <2> HIDE DEF b
  <2>2. b \in Nat /\ b <= LastBucket /\ LastBucket \in Nat
    BY <2>1, BucketsAre
  <2>3. b + 1 \in Nat /\ (b < LastBucket => b + 1 <= LastBucket)
    BY <2>2
  <2>4. b < LastBucket => b + 1 \in Buckets
    BY <2>3, BucketsAre
  <2> QED
    BY <2>1, <2>2, <2>3, <2>4
<1>2. lower \in Nat /\ upper = 2 * lower /\ lower >= 1
  BY <1>1, PowerNext, PowerPositive
<1>3. /\ e * e \in Nat
      /\ Max({e * e, 1}) \in Nat /\ e * e <= Max({e * e, 1}) /\ 1 <= Max({e * e, 1})
  <2> DEFINE one == 1
  <2> DEFINE sq == e * e
  <2>1. sq \in Nat /\ sq \in Int /\ one \in Int
    OBVIOUS
  <2> HIDE DEF sq, one
  <2>2. Max({sq, one}) \in Int /\ sq <= Max({sq, one}) /\ one <= Max({sq, one})
    BY <2>1, MaxOfTwo
  <2>3. Max({sq, one}) \in Nat
    BY <2>1, <2>2
  <2> QED
    BY <2>1, <2>2, <2>3 DEF sq, one
<1> DEFINE most == Max({e * e, 1})
<1>4. /\ reported \in Nat /\ reported * reported <= upper
      /\ e * e <= upper => e <= reported
  BY <1>1, UpperBoundIs
<1>5. lower <= most
  <2>1. CASE e = 0
    <3>1. lower = 1
      BY <2>1, BucketIs, PowerZero
    <3> QED
      BY <1>3, <3>1
  <2>2. CASE e > 0
    <3>1. lower <= e * e
      BY <2>2, BucketIs
    <3> HIDE DEF lower
    <3> QED
      BY <1>2, <1>3, <3>1
  <2> QED
    BY <2>1, <2>2
<1>6. ASSUME b < LastBucket
      PROVE  e * e <= upper
  <2>1. CASE e = 0
    <3> HIDE DEF lower, upper
    <3>1. upper \in Nat
      BY <1>2
    <3> QED
      BY <2>1, <3>1
  <2>2. CASE e > 0
    <3>1. b + 1 \in Buckets /\ ~(b + 1 <= b)
      <4> HIDE DEF b
      <4> QED
        BY <1>1, <1>6
    <3>2. ~(upper <= e * e)
      BY <2>2, <3>1, BucketIs
    <3> HIDE DEF lower, upper
    <3> QED
      BY <1>2, <1>3, <3>2
  <2> QED
    BY <2>1, <2>2
<1>7. ASSUME b < LastBucket
      PROVE  e <= last
  <2> DEFINE top == 2^(LastBucket + 1)
  <2>1. b + 1 <= LastBucket + 1 /\ LastBucket + 1 \in Nat
    BY <1>1, <1>7
  <2>2. upper <= top /\ top \in Nat
    BY <1>1, <2>1, PowerMonotone, PowerPositive
  <2>3. e * e <= top => e <= last
    BY <1>1, UpperBoundIs
  <2>4. e * e <= upper
    BY <1>6, <1>7
  <2> HIDE DEF lower, upper, top
  <2>5. e * e <= top
    BY <1>2, <1>3, <2>2, <2>4
  <2> QED
    BY <2>3, <2>5
<1>8. last \in Nat
  BY <1>1, UpperBoundIs
<1>9. reported * reported <= 2 * most
  <2>1. reported * reported \in Nat
    BY <1>4
  <2> HIDE DEF lower, upper, most, reported
  <2> QED
    BY <1>2, <1>3, <1>4, <1>5, <2>1 DEF most
<1>10. b = LastBucket => reported = last
  OBVIOUS
<1>11. b < LastBucket => e <= reported /\ e <= last
  BY <1>4, <1>6, <1>7
<1> HIDE DEF b, reported, last, lower, upper, most
<1>12. b = LastBucket \/ b < LastBucket
  BY <1>1
<1>13. IF e > last THEN reported = last
       ELSE e <= reported /\ reported * reported <= 2 * most
  BY <1>8, <1>9, <1>10, <1>11, <1>12
<1> QED
  BY <1>13 DEF b, reported, last, most

-----------------------------------------------------------------------------
\* The latencies in the buckets up to b.
UpToBucket(b) == {us \in Latency : BucketFor(Clamped(us)) <= b}

LEMMA UpToBucketIs ==
  ASSUME NEW b
  PROVE  UpToBucket(b) \in SUBSET Latency /\ IsFiniteSet(UpToBucket(b))
<1>1. UpToBucket(b) \in SUBSET Latency
  BY DEF UpToBucket
<1> QED
  BY <1>1, LatenciesAre, FS_Subset

LEMMA BucketsOfLatencies ==
  ASSUME NEW us \in Latency
  PROVE  /\ BucketFor(Clamped(us)) \in Buckets /\ BucketFor(Clamped(us)) \in Nat
         /\ BucketFor(Clamped(us)) <= LastBucket
<1>1. BucketFor(Clamped(us)) \in Buckets
  BY LatenciesAre, BucketIs
<1> QED
  BY <1>1, BucketsAre

\* A cumulated count is that of the samples in the buckets up to there.
LEMMA CumulatedIs ==
  ASSUME NEW g \in Shape, NEW f \in [Latency -> Nat], Describes(g, f), NEW b \in Buckets
  PROVE  Cumulated(g, b) = SumFunctionOnSet(f, UpToBucket(b))
<1> DEFINE P == {i \in Nat : SumFunctionOnSet(g.counts, 0..i) = SumFunctionOnSet(f, UpToBucket(i))}
<1>1. /\ g.counts \in [Buckets -> Nat]
      /\ \A i \in Buckets : g.counts[i] = SumFunctionOnSet(f, InBucket(i))
  BY DEF Shape, Describes
<1>2. b \in Nat /\ b <= LastBucket /\ 0 \in Buckets /\ LastBucket \in Nat
      /\ \A i : i \in Buckets <=> i \in Nat /\ i <= LastBucket
  BY BucketsAre
<1>3. 0 \in P
  <2>1. 0..0 = {} \cup {0} /\ IsFiniteSet({}) /\ 0 \notin {}
    BY FS_EmptySet
  <2>2. \A y \in {} \cup {0} : g.counts[y] \in Int
    BY <1>1, <1>2
  <2>3. SumFunctionOnSet(g.counts, {} \cup {0}) = SumFunctionOnSet(g.counts, {}) + g.counts[0]
    BY <2>1, <2>2, SumAdd
  <2>4. SumFunctionOnSet(g.counts, 0..0) = g.counts[0]
    BY <1>1, <1>2, <2>1, <2>3, SumEmpty
  <2>5. UpToBucket(0) = InBucket(0)
    BY BucketsOfLatencies DEF UpToBucket, InBucket
  <2> QED
    BY <1>1, <1>2, <2>4, <2>5
<1>4. ASSUME NEW i \in Nat, i < b, i \in P
      PROVE  i + 1 \in P
  <2> DEFINE j == i + 1
  <2>1. j \in Buckets /\ j \in Nat /\ 0..j = (0..i) \cup {j} /\ j \notin 0..i
    BY <1>2, <1>4
  <2>2. IsFiniteSet(0..i) /\ \A y \in (0..i) \cup {j} : g.counts[y] \in Int
    <3>1. \A y \in (0..i) \cup {j} : y \in Buckets
      BY <1>2, <1>4
    <3>2. \A y \in (0..i) \cup {j} : g.counts[y] \in Int
      BY <1>1, <3>1
    <3>3. IsFiniteSet(0..i)
      BY FS_Interval
    <3> QED
      BY <3>2, <3>3
  <2>3. SumFunctionOnSet(g.counts, 0..j) = SumFunctionOnSet(g.counts, 0..i) + g.counts[j]
    <3> HIDE DEF j
    <3>1. SumFunctionOnSet(g.counts, (0..i) \cup {j}) = SumFunctionOnSet(g.counts, 0..i) + g.counts[j]
      BY <2>1, <2>2, SumAdd
    <3> QED
      BY <2>1, <3>1
  <2>4. UpToBucket(i) \in SUBSET UpToBucket(j) /\ UpToBucket(j) \ UpToBucket(i) = InBucket(j)
    <3>1. ASSUME NEW us \in Latency
          PROVE  /\ us \in UpToBucket(i) => us \in UpToBucket(j)
                 /\ us \in InBucket(j) <=> us \in UpToBucket(j) /\ us \notin UpToBucket(i)
      <4> DEFINE c == BucketFor(Clamped(us))
      <4>1. c \in Nat
        BY BucketsOfLatencies
      <4> HIDE DEF c
      <4>2. /\ c <= i => c <= j
            /\ c = j <=> c <= j /\ ~(c <= i)
        BY <4>1
      <4> HIDE DEF j
      <4> QED
        BY <4>2 DEF c, UpToBucket, InBucket
    <3> HIDE DEF j
    <3> QED
      BY <3>1 DEF UpToBucket, InBucket
  <2>5. SumFunctionOnSet(f, UpToBucket(j)) = SumFunctionOnSet(f, UpToBucket(i)) + SumFunctionOnSet(f, InBucket(j))
    <3>1. IsFiniteSet(UpToBucket(j)) /\ \A us \in UpToBucket(j) : f[us] \in Int
      BY UpToBucketIs
    <3> HIDE DEF j
    <3> QED
      BY <2>4, <3>1, SumSplit
  <2> QED
    BY <1>1, <1>4, <2>1, <2>3, <2>5
<1>5. b \in P
  <2> HIDE DEF P
  <2> QED
    BY <1>2, <1>3, <1>4, Upward
<1> QED
  BY <1>5 DEF Cumulated

-----------------------------------------------------------------------------
\* The rank asked for: the first one that covers p of every 1000 samples.
LEMMA TargetIs ==
  ASSUME NEW g \in Shape, NEW p \in Int, g.total > 0
  PROVE  /\ Target(g, p) \in Nat /\ Target(g, p) <= g.total
         /\ \A n \in Nat : n >= Target(g, p) <=> n > 0 /\ 1000 * n >= InRange(p) * g.total
<1> DEFINE q == InRange(p)
<1> DEFINE t == g.total
<1> DEFINE x == q * t
<1> DEFINE one == 1
<1> DEFINE zero == 0
<1> DEFINE top == 1000
<1> DEFINE rank == (x + 999) \div 1000
<1>1. t \in Nat /\ t > 0
  BY DEF Shape
<1>2. q \in Nat /\ q <= 1000
  <2>1. zero \in Int /\ top \in Int /\ zero <= top
    OBVIOUS
  <2>2. q = Min({Max({p, zero}), top})
    BY DEF InRange
  <2> HIDE DEF zero, top
  <2>3. Max({p, zero}) \in Int /\ zero <= Max({p, zero})
    BY <2>1, MaxOfTwo
  <2> DEFINE m == Max({p, zero})
  <2> HIDE DEF m
  <2>4. m \in Int /\ zero <= m
    BY <2>3 DEF m
  <2>5. /\ Min({m, top}) \in Int /\ Min({m, top}) <= top
        /\ Min({m, top}) = m \/ Min({m, top}) = top
    BY <2>1, <2>4, MinOfTwo
  <2>6. q \in Int /\ q <= top /\ zero <= q
    BY <2>1, <2>2, <2>4, <2>5 DEF m
  <2> HIDE DEF q
  <2> QED
    BY <2>6 DEF zero, top
<1> HIDE DEF q
<1>3. x \in Nat /\ x <= 1000 * t
  <2>1. q * t <= 1000 * t /\ q * t \in Nat
    BY <1>1, <1>2
  <2> QED
    BY <2>1
<1> HIDE DEF t, x
<1>4. /\ rank \in Nat /\ rank <= t
      /\ \A n \in Nat : n >= rank <=> 1000 * n >= x
  BY <1>1, <1>3
<1> HIDE DEF rank
<1>5. /\ Max({rank, one}) \in Int /\ rank <= Max({rank, one}) /\ one <= Max({rank, one})
      /\ Max({rank, one}) = rank \/ Max({rank, one}) = one
  <2>1. rank \in Int /\ one \in Int
    BY <1>4
  <2> HIDE DEF one
  <2> QED
    BY <2>1, MaxOfTwo
<1> DEFINE m == Max({rank, one})
<1>6. Target(g, p) = m
  BY DEF Target, rank, x, q, t
<1> HIDE DEF m
<1>7. m \in Int /\ rank <= m /\ 1 <= m /\ (m = rank \/ m = 1)
  BY <1>5 DEF m
<1>8. m \in Nat /\ m <= t /\ \A n \in Nat : n >= m <=> n > 0 /\ 1000 * n >= x
  BY <1>1, <1>4, <1>7
<1> QED
  BY <1>6, <1>8 DEF x, q, t

-----------------------------------------------------------------------------
LEMMA UpToIs ==
  ASSUME NEW us
  PROVE  UpTo(us) \in SUBSET Latency /\ IsFiniteSet(UpTo(us))
<1>1. UpTo(us) \in SUBSET Latency
  BY DEF UpTo
<1> QED
  BY <1>1, LatenciesAre, FS_Subset

\* The longer of two latencies is not in an earlier bucket.
LEMMA LaterBucket ==
  ASSUME NEW u \in Latency, NEW v \in Latency, u <= v
  PROVE  BucketFor(Clamped(u)) <= BucketFor(Clamped(v))
<1>1. u \in Int /\ v \in Int /\ Clamped(u) \in Nat /\ Clamped(v) \in Nat
  BY LatenciesAre
<1>2. /\ (u >= 0 => Clamped(u) = u) /\ (u < 0 => Clamped(u) = 0)
      /\ (v >= 0 => Clamped(v) = v) /\ (v < 0 => Clamped(v) = 0)
  BY <1>1, ClampedIs
<1>3. Clamped(u) <= Clamped(v)
  BY <1>1, <1>2
<1> QED
  BY <1>1, <1>3, BucketMonotone

\* The bucket that percentile() finds is that of the exact percentile: no
\* latency of an earlier bucket has the rank, and all up to it are cumulated.
LEMMA PercentileIs ==
  ASSUME NEW g \in Shape, NEW f \in [Latency -> Nat], Describes(g, f), NEW p \in Int,
         g.total > 0, NEW exact,
         exact = Min({us \in Latency :
                   /\ SumFunctionOnSet(f, UpTo(us)) > 0
                   /\ 1000 * SumFunctionOnSet(f, UpTo(us)) >= InRange(p) * g.total})
  PROVE  exact \in Latency /\ Percentile(g, p) = UpperBoundOf(BucketFor(Clamped(exact)))
<1> DEFINE rank == Target(g, p)
<1> DEFINE X == {us \in Latency : SumFunctionOnSet(f, UpTo(us)) >= rank}
<1> DEFINE Y == {b \in Buckets : Cumulated(g, b) >= rank}
<1> DEFINE c == BucketFor(Clamped(exact))
<1>1. /\ rank \in Nat /\ rank > 0 /\ rank <= g.total /\ g.total \in Nat
      /\ g.total = SumFunctionOnSet(f, Latency)
      /\ \A n \in Nat : n >= rank <=> n > 0 /\ 1000 * n >= InRange(p) * g.total
  <2>1. g.total \in Nat /\ g.total = SumFunctionOnSet(f, Latency)
    BY DEF Shape, Describes
  <2>2. /\ rank \in Nat /\ rank <= g.total
        /\ \A n \in Nat : n >= rank <=> n > 0 /\ 1000 * n >= InRange(p) * g.total
    BY TargetIs
  <2> HIDE DEF rank
  <2>3. rank > 0
    BY <2>2
  <2> QED
    BY <2>1, <2>2, <2>3
<1> HIDE DEF rank
<1>2. \A S \in SUBSET Latency : IsFiniteSet(S) /\ SumFunctionOnSet(f, S) \in Nat
  <2>1. ASSUME NEW S \in SUBSET Latency
        PROVE  IsFiniteSet(S) /\ SumFunctionOnSet(f, S) \in Nat
    <3>1. IsFiniteSet(S) /\ \A x \in S : f[x] \in Nat
      BY LatenciesAre, FS_Subset
    <3> QED
      BY <3>1, SumNat
  <2> QED
    BY <2>1
<1>3. \A S \in SUBSET Latency : \A R \in SUBSET S :
        SumFunctionOnSet(f, R) <= SumFunctionOnSet(f, S)
  <2>1. ASSUME NEW S \in SUBSET Latency, NEW R \in SUBSET S
        PROVE  SumFunctionOnSet(f, R) <= SumFunctionOnSet(f, S)
    <3>1. IsFiniteSet(S) /\ \A x \in S : f[x] \in Nat
      BY <1>2
    <3> QED
      BY <3>1, SumMonotonic
  <2> QED
    BY <2>1
<1>4. exact = Min(X)
  <2>1. \A us \in Latency : SumFunctionOnSet(f, UpTo(us)) \in Nat
    BY <1>2, UpToIs
  <2>2. X = {us \in Latency : /\ SumFunctionOnSet(f, UpTo(us)) > 0
                              /\ 1000 * SumFunctionOnSet(f, UpTo(us)) >= InRange(p) * g.total}
    BY <1>1, <2>1
  <2> QED
    BY <2>2
<1>5. ASSUME NEW S \in SUBSET Latency, SumFunctionOnSet(f, S) >= rank
      PROVE  \E v \in S : v \in X /\ \A us \in S : us <= v
  <2>1. S # {}
    BY <1>1, <1>5, SumEmpty
  <2>2. S \in SUBSET Int /\ IsFiniteSet(S)
    BY <1>2, LatenciesAre
  <2>3. PICK v \in S : \A us \in S : us <= v
    BY <2>1, <2>2, MaxIs
  <2>4. UpTo(v) \in SUBSET Latency /\ S \in SUBSET UpTo(v)
    BY <2>3, UpToIs DEF UpTo
  <2>5. SumFunctionOnSet(f, UpTo(v)) >= rank
    <3>1. SumFunctionOnSet(f, S) <= SumFunctionOnSet(f, UpTo(v))
      BY <1>3, <2>4
    <3>2. SumFunctionOnSet(f, S) \in Nat /\ SumFunctionOnSet(f, UpTo(v)) \in Nat
      BY <1>2, <2>4
    <3> QED
      BY <1>1, <1>5, <3>1, <3>2
  <2> QED
    BY <2>3, <2>5
<1>6. exact \in X /\ \A us \in X : exact <= us
  <2>1. X \in SUBSET Int /\ IsFiniteSet(X)
    BY LatenciesAre, FS_Subset
  <2>2. X # {}
    BY <1>1, <1>5
  <2> HIDE DEF X
  <2>3. Min(X) \in X /\ \A us \in X : Min(X) <= us
    BY <2>1, <2>2, MinIs
  <2> QED
    BY <1>4, <2>3
<1>7. exact \in Latency /\ exact \in Int /\ c \in Buckets
  BY <1>6, LatenciesAre, BucketsOfLatencies
<1>8. c \in Y
  <2>1. UpTo(exact) \in SUBSET UpToBucket(c) /\ UpToBucket(c) \in SUBSET Latency
    <3>1. ASSUME NEW us \in UpTo(exact)
          PROVE  us \in UpToBucket(c)
      <4>1. us \in Latency /\ us <= exact
        BY DEF UpTo
      <4> QED
        BY <1>7, <4>1, LaterBucket DEF UpToBucket
    <3> QED
      BY <3>1, UpToBucketIs
  <2>2. SumFunctionOnSet(f, UpTo(exact)) <= SumFunctionOnSet(f, UpToBucket(c))
    BY <1>3, <2>1
  <2>3. SumFunctionOnSet(f, UpTo(exact)) >= rank
    BY <1>6
  <2>4. Cumulated(g, c) = SumFunctionOnSet(f, UpToBucket(c))
    BY <1>7, CumulatedIs
  <2>5. SumFunctionOnSet(f, UpTo(exact)) \in Nat /\ SumFunctionOnSet(f, UpToBucket(c)) \in Nat
    BY <1>2, <2>1, UpToIs
  <2>6. Cumulated(g, c) >= rank
    BY <1>1, <2>2, <2>3, <2>4, <2>5
  <2> QED
    BY <1>7, <2>6
<1>9. ASSUME NEW b \in Y
      PROVE  c <= b
  <2>1. SumFunctionOnSet(f, UpToBucket(b)) >= rank /\ b \in Buckets
    BY CumulatedIs
  <2>2. PICK v \in UpToBucket(b) : v \in X
    BY <1>5, <2>1, UpToBucketIs
  <2>3. v \in Latency /\ exact <= v /\ BucketFor(Clamped(v)) <= b
    BY <1>6, <2>2 DEF UpToBucket
  <2>4. c <= BucketFor(Clamped(v))
    BY <1>7, <2>3, LaterBucket
  <2>5. c \in Nat /\ BucketFor(Clamped(v)) \in Nat /\ b \in Nat
    BY <1>7, <2>1, <2>3, BucketsOfLatencies, BucketsAre
  <2> HIDE DEF c
  <2> QED
    BY <2>3, <2>4, <2>5
<1>10. c = Min(Y) /\ Y # {}
  <2>1. Y \in SUBSET Int /\ IsFiniteSet(Y) /\ Y # {}
    <3>1. \A b \in Buckets : b \in Int
      BY BucketsAre
    <3> QED
      BY <1>8, <3>1, BucketsAre, FS_Subset
  <2> HIDE DEF Y, c
  <2> QED
    BY <1>8, <1>9, <2>1, MinIs
<1>11. Percentile(g, p) = UpperBoundOf(Min(Y))
  <2>1. g.total # 0
    BY <1>1
  <2> QED
    BY <1>10, <2>1 DEF Percentile, rank
<1> HIDE DEF X, Y
<1> QED
  BY <1>7, <1>10, <1>11

(***************************************************************************)
(* latency_histogram.hpp: a percentile is never too optimistic and never   *)
(* off by more than a factor of the square root of 2, up to the bound of   *)
(* the last bucket; for any latencies, any percentile and any sequence of  *)
(* records and merges.                                                     *)
(***************************************************************************)
THEOREM PercentilesRoundUp == HistSpec => []PercentileRoundsUp
<1>1. ASSUME HInv, NEW h \in Histogram, NEW p \in Permille
      PROVE  IF Recordings(h, Latency) = 0 THEN Percentile(hist[h], p) = 0
             ELSE LET exact    == ExactPercentile(h, p)
                      reported == Percentile(hist[h], p)
                      last     == UpperBoundOf(BucketCount - 1)
                  IN IF exact > last THEN reported = last
                     ELSE /\ reported >= exact
                          /\ reported * reported <= 2 * Max({exact * exact, 1})
  <2> DEFINE g == hist[h]
  <2> DEFINE f == samples[h]
  <2> DEFINE exact == Min({us \in Latency :
                        /\ SumFunctionOnSet(f, UpTo(us)) > 0
                        /\ 1000 * SumFunctionOnSet(f, UpTo(us)) >= InRange(p) * g.total})
  <2>1. g \in Shape /\ f \in [Latency -> Nat] /\ Describes(g, f)
    BY <1>1 DEF HInv
  <2>2. g.total = Recordings(h, Latency) /\ g.total \in Nat
    BY <2>1 DEF Describes, Shape, Recordings
  <2>3. CASE g.total = 0
    BY <2>2, <2>3 DEF Percentile
  <2>4. CASE g.total > 0
    <3>1. p \in Int
      BY PermilleAssumption
    <3>2. ExactPercentile(h, p) = Clamped(exact)
      BY <2>2 DEF ExactPercentile, Recordings
    <3> HIDE DEF g, f
    <3>3. exact \in Latency /\ Percentile(g, p) = UpperBoundOf(BucketFor(Clamped(exact)))
      BY <2>1, <2>4, <3>1, PercentileIs
    <3> HIDE DEF exact
    <3> DEFINE e == Clamped(exact)
    <3> DEFINE reported == UpperBoundOf(BucketFor(e))
    <3> DEFINE last == UpperBoundOf(LastBucket)
    <3> DEFINE most == Max({e * e, 1})
    <3>4. e \in Nat /\ reported \in Nat /\ last \in Nat
      BY <3>3, LatenciesAre, BucketsOfLatencies, BucketsAre, UpperBoundIs
    <3>5. IF e > last THEN reported = last ELSE e <= reported /\ reported * reported <= 2 * most
      <4>1. e \in Nat
        BY <3>4
      <4> HIDE DEF e
      <4> QED
        BY <4>1, RoundsUp
    <3>6. IF e > last THEN reported = last
          ELSE reported >= e /\ reported * reported <= 2 * most
      <4> HIDE DEF e, reported, last, most
      <4> QED
        BY <3>4, <3>5
    <3>7. Recordings(h, Latency) # 0
      BY <2>2, <2>4
    <3>8. last = UpperBoundOf(BucketCount - 1)
      BY DEF LastBucket
    <3> QED
      BY <3>2, <3>3, <3>6, <3>7, <3>8 DEF g
  <2> QED
    BY <2>2, <2>3, <2>4
<1>2. HInv => PercentileRoundsUp
  BY <1>1 DEF PercentileRoundsUp
<1> QED
  BY <1>2, HistogramsDescribe, PTL
=============================================================================
