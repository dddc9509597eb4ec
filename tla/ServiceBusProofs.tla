-------------------------- MODULE ServiceBusProofs --------------------------
(***************************************************************************)
(* TLAPS proofs about ServiceBus, for every set of lock durations,         *)
(* receivers, goroutines and bounds: an entity's steps are steps of its    *)
(* queue, so that what MsgQueueProofs shows of queues holds of entities;   *)
(* no delay or lock ends without a timer or an Arm to come, nor does a     *)
(* REST receiver sleep through a message, but for the locks that a renewal *)
(* shortened or took up again.                                             *)
(***************************************************************************)
EXTENDS ServiceBus, MsgQueueProofs, FiniteSetTheorems

-----------------------------------------------------------------------------
(***************************************************************************)
(* The inductive invariant.  Its parts are stated of the messages M, the   *)
(* clock t, the receivers X, the jobs J and what Arm read, because most    *)
(* steps change only one or two of them.                                   *)
(***************************************************************************)

\* A renewal under way holds a lockDuration of the entity and a past reading
\* of the clock.
RenewalsAt(t) == [seq : Seqs, receipt : Nat, lock : Locks, at : 0 .. t]

EntityOK(l, R, C, t) == l \in Locks /\ R \subseteq RenewalsAt(t) /\ C \subseteq Seqs

\* Some goroutine has yet to do "step".
Pending(J, step) == \E p \in Goroutines : \E i \in DOMAIN J[p] : J[p][i] = step

\* A goroutine that sets the timer does so next, and has an instant for it.
SetsFirst(J, A) ==
    \A p \in Goroutines : \A i \in DOMAIN J[p] : J[p][i] = "set" => (i = 1 /\ A[p] # 0)

\* The timer d or an Arm covers the instant e.
Covered(J, A, d, e) ==
    \/ d # 0 /\ d <= e
    \/ Pending(J, "arm")
    \/ \E p \in Goroutines : (\E i \in DOMAIN J[p] : J[p][i] = "set") /\ A[p] <= e

\* The timer misses at most the ends that renewals hid from it, C.
AllCovered(M, C, t, J, A, d) ==
    \A s \in DOMAIN M \ C : M[s].availableAt > Ms(t) => Covered(J, A, d, M[s].availableAt)

\* A receiver whose receive found nothing: unless it is or will be woken,
\* everything in the queue that it did not overlook comes due after the
\* receive read the clock.
MissedOK(x, M, t, J) ==
    /\ x.readAt <= Ms(t)
    /\ \/ x.closed \/ Pending(J, "signal")
       \/ \A s \in DOMAIN M : s \in x.overlooked \/ M[s].availableAt > x.readAt

\* A sleeping receiver: unless it is or will be woken, its own timer is no
\* later than the end of any delay or lock it did not overlook.
AsleepOK(x, M, t, J) ==
    \/ x.closed \/ Pending(J, "signal") \/ t >= x.wake
    \/ \A s \in DOMAIN M : s \in x.overlooked \/ x.wake <= M[s].availableAt * TicksPerMs

Attentive(X, M, t, J) ==
    \A r \in Receivers : /\ X[r].pc = "missed" => MissedOK(X[r], M, t, J)
                         /\ X[r].pc = "asleep" => AsleepOK(X[r], M, t, J)

SBInv ==
    /\ SBTypeOK /\ IInv /\ SetsFirst(job, armAt)
    /\ AllCovered(messages, cut, now, job, armAt, due) /\ Attentive(rx, messages, now, job)

-----------------------------------------------------------------------------
(* Instants *)

\* A lock duration is a number of ticks.
LEMMA LockNat == ASSUME NEW d \in Locks PROVE d \in Nat /\ d \in Leases
  BY ServiceBusAssumption, DurationsAssumption

\* Without a backoff a message is available from its stored instant.
LEMMA AvailableFrom ==
  ASSUME NEW m \in Message
  PROVE  AvailableAt(m) = m.availableAt /\ m.availableAt \in Nat /\ Backoff(m.deliveries) = 0
<1>1. m.availableAt \in Nat /\ m.deliveries \in Nat
  BY DEF Message
<1>2. Backoff(m.deliveries) = 0
  BY <1>1, BackoffAssumption, EntityPolicyAssumption DEF Backoff
<1> QED
  BY <1>1, <1>2 DEF AvailableAt

\* A deadline lies at or after the millisecond read now.
LEMMA DeadlineLater ==
  ASSUME NEW t \in Nat, NEW d \in Nat
  PROVE  Ms(t) <= Deadline(t, d) /\ Ms(t) \in Nat /\ Deadline(t, d) \in Nat
  BY BoundsAssumption DEF Deadline, Ms

\* The milliseconds of later instants are later.
LEMMA MsLater ==
  ASSUME NEW t \in Nat, NEW u \in Nat, t <= u
  PROVE  Ms(t) <= Ms(u)
  BY BoundsAssumption DEF Ms

\* Ticks of later milliseconds are later.
LEMMA TicksLater ==
  ASSUME NEW a \in Nat, NEW b \in Nat, a <= b
  PROVE  a * TicksPerMs <= b * TicksPerMs /\ a * TicksPerMs \in Nat
  BY BoundsAssumption

-----------------------------------------------------------------------------
(* What a receive does *)

\* A nonempty set of sequence numbers has a last member.
LEMMA LastSeq ==
  ASSUME NEW T \in SUBSET Seqs, T # {}
  PROVE  \E x \in T : \A y \in T : y <= x
<1> DEFINE R == {MaxSeq - i : i \in T}
<1>0. MaxSeq \in Nat /\ \A i \in T : i \in Nat /\ i <= MaxSeq /\ MaxSeq - i \in Nat
  BY BoundsAssumption DEF Seqs
<1>1. R \in SUBSET Nat /\ R # {}
  BY <1>0
<1>2. PICK x \in R : \A y \in R : x <= y
  BY <1>1, NatMin
<1>3. PICK i \in T : x = MaxSeq - i
  OBVIOUS
<1>4. ASSUME NEW j \in T PROVE j <= i
  <2>1. MaxSeq - i <= MaxSeq - j
    BY <1>2, <1>3
  <2> QED
    BY <1>0, <2>1
<1> QED
  BY <1>4

\* A set whose last member has fewer than max before it has at most max.
LEMMA BatchBound ==
  ASSUME NEW T \in SUBSET Seqs, NEW max \in Nat,
         \A s \in T : Cardinality({k \in T : k < s}) < max
  PROVE  Cardinality(T) <= max /\ Cardinality(T) \in Nat
<1>0. IsFiniteSet(Seqs) /\ Seqs \in SUBSET Nat
  BY BoundsAssumption, FS_Interval DEF Seqs
<1>1. IsFiniteSet(T) /\ Cardinality(T) \in Nat /\ T \in SUBSET Nat
  BY <1>0, FS_Subset, FS_CardinalityType
<1>2. CASE T = {}
  BY <1>1, <1>2, FS_EmptySet
<1>3. CASE T # {}
  <2>1. PICK m \in T : \A y \in T : y <= m
    BY <1>3, LastSeq
  <2>2. T = {k \in T : k < m} \cup {m} /\ m \notin {k \in T : k < m}
    <3>1. m \in Nat /\ \A k \in T : k \in Nat /\ (k < m \/ k = m)
      BY <1>1, <2>1
    <3>2. ~(m < m)
      BY <3>1
    <3> QED
      BY <3>1, <3>2
  <2> DEFINE B == {k \in T : k < m}
  <2>3. B \subseteq T /\ Cardinality(B) < max
    OBVIOUS
  <2> HIDE DEF B
  <2>4. IsFiniteSet(B) /\ Cardinality(B) \in Nat
    BY <1>1, <2>3, FS_Subset, FS_CardinalityType
  <2>5. Cardinality(B \cup {m}) = Cardinality(B) + 1
    BY <2>2, <2>4, FS_AddElement DEF B
  <2>6. Cardinality(T) = Cardinality(B) + 1
    BY <2>2, <2>5 DEF B
  <2> QED
    BY <1>1, <2>3, <2>4, <2>6
<1> QED
  BY <1>2, <1>3

\* A receive of up to max messages leases at most that many, each available,
\* until the lock ends; it leaves the others as they are, and when it leases
\* none, it leaves no available one.
LEMMA ReceiveFacts ==
  ASSUME TypeOK, NEW max \in Nat, max >= 1, Receive(max, lock, Groups)
  PROVE  /\ now' = now /\ DOMAIN messages' \subseteq DOMAIN messages
         /\ Leased \in SUBSET Seqs /\ Cardinality(Leased) <= max /\ Cardinality(Leased) \in Nat
         /\ \A s \in DOMAIN messages' :
               /\ s \notin Leased => (messages'[s] = messages[s] /\ (Leased = {} => ~Available(messages[s])))
               /\ s \in Leased => (Available(messages[s]) /\ messages'[s].availableAt = Deadline(now, lock))
<1> DEFINE live == Keep(messages, Seqs \ ExpiredSeqs)
<1>1. PICK taken \in SUBSET DOMAIN live :
        /\ \A s \in DOMAIN live : s \in taken <=> Takes(live, taken, max, Groups, s)
        /\ Deliver(live, taken, lock)
  BY DEF Receive
<1>2. /\ DOMAIN live \subseteq DOMAIN messages /\ \A s \in DOMAIN live : live[s] = messages[s]
      /\ DOMAIN messages \subseteq Seqs /\ \A s \in DOMAIN live : s \notin ExpiredSeqs
  <2>1. DOMAIN messages \subseteq Seqs
    BY BoundsAssumption DEF TypeOK, Seqs
  <2> QED
    BY <2>1 DEF Keep
<1> HIDE DEF live
<1> DEFINE dead == {s \in taken : OverLimit(live[s])}
           picks == {s \in taken : ~OverLimit(live[s])}
<1>3. /\ now' = now
      /\ messages' = [s \in DOMAIN live \ dead |->
            IF s \in taken \ dead
            THEN [live[s] EXCEPT !.leased = TRUE, !.deliveries = @ + 1,
                                 !.availableAt = Deadline(now, lock),
                                 !.receipt = ledger[s].issued + 1]
            ELSE live[s]]
      /\ ledger' = [s \in Seqs |->
            CASE s \in taken \ dead -> [ledger[s] EXCEPT !.issued = @ + 1, !.leaseEnd = now + lock]
              [] s \in dead -> [ledger[s] EXCEPT !.fate = "dead"]
              [] s \in ExpiredSeqs -> [ledger[s] EXCEPT !.fate = "expired"]
              [] OTHER -> ledger[s]]
  BY <1>1 DEF Deliver
<1>4. taken \ dead = picks /\ picks \in SUBSET Seqs /\ picks \subseteq DOMAIN live
  BY <1>1, <1>2
<1>5. Leased = picks
  <2>1. ASSUME NEW s \in Seqs PROVE ledger'[s].issued > ledger[s].issued <=> s \in picks
    <3> DEFINE e == ledger[s]
    <3>1. e \in LedgerEntry /\ e.issued \in Nat
      BY DEF TypeOK, LedgerEntry
    <3>2. CASE s \in picks
      <4>1. ledger'[s] = [e EXCEPT !.issued = @ + 1, !.leaseEnd = now + lock]
        BY <1>2, <1>3, <1>4, <3>2
      <4> HIDE DEF e
      <4>2. ledger'[s].issued = e.issued + 1
        BY <3>1, <4>1 DEF LedgerEntry
      <4> QED
        BY <3>1, <3>2, <4>2 DEF e
    <3>3. CASE s \notin picks
      <4>1. \/ ledger'[s] = [e EXCEPT !.fate = "dead"]
            \/ ledger'[s] = [e EXCEPT !.fate = "expired"]
            \/ ledger'[s] = e
        <5>1. CASE s \in dead
          BY <1>2, <1>3, <3>3, <5>1
        <5>2. CASE s \notin taken /\ s \in ExpiredSeqs
          BY <1>3, <5>2
        <5>3. CASE s \notin taken /\ s \notin ExpiredSeqs
          BY <1>3, <5>3
        <5> QED
          BY <3>3, <5>1, <5>2, <5>3
      <4> HIDE DEF e
      <4>2. ledger'[s].issued = e.issued
        BY <3>1, <4>1 DEF LedgerEntry
      <4> QED
        BY <3>1, <3>3, <4>2 DEF e
    <3> QED
      BY <3>2, <3>3
  <2> QED
    BY <1>4, <2>1 DEF Leased
<1>6. \A s \in taken : /\ Available(live[s]) /\ Cardinality({k \in picks : k < s}) < max
  BY <1>1 DEF Takes
<1>7. Cardinality(picks) <= max /\ Cardinality(picks) \in Nat
  <2>1. \A s \in picks : s \in taken
    OBVIOUS
  <2>2. \A s \in picks : Cardinality({k \in picks : k < s}) < max
    BY <1>6, <2>1
  <2> HIDE DEF picks
  <2> QED
    BY <1>4, <2>2, BatchBound
<1>8. ASSUME NEW s \in DOMAIN messages', s \notin picks
      PROVE  /\ messages'[s] = messages[s] /\ s \in DOMAIN messages
             /\ picks = {} => ~Available(messages[s])
  <2>1. s \in DOMAIN live /\ s \notin dead /\ messages'[s] = live[s] /\ s \notin taken
    BY <1>3, <1>4, <1>8
  <2>2. ASSUME picks = {}, Available(messages[s]) PROVE FALSE
    <3>1. live[s] = messages[s] /\ messages[s] \in Message
      BY <1>2, <2>1 DEF TypeOK
    <3>2. live[s].group \in Groups
      BY <3>1 DEF Message
    <3>3. ~IsOrdered(live[s])
      BY EntityPolicyAssumption DEF IsOrdered
    <3>4. {k \in picks : k < s} = {}
      BY <2>2
    <3>5. Cardinality({k \in picks : k < s}) = 0
      BY <3>4, FS_EmptySet
    <3>6. Takes(live, taken, max, Groups, s)
      BY <2>2, <3>1, <3>2, <3>3, <3>5 DEF Takes
    <3> QED
      BY <1>1, <2>1, <3>6
  <2> QED
    BY <1>2, <2>1, <2>2
<1>9. ASSUME NEW s \in picks, s \in DOMAIN messages'
      PROVE  /\ Available(messages[s]) /\ messages'[s].availableAt = Deadline(now, lock)
             /\ s \in DOMAIN messages
  <2>1. s \in taken /\ s \in DOMAIN live /\ live[s] = messages[s] /\ messages[s] \in Message
    BY <1>2, <1>4 DEF TypeOK
  <2> DEFINE m == live[s]
  <2>2. messages'[s] = [m EXCEPT !.leased = TRUE, !.deliveries = @ + 1,
                                 !.availableAt = Deadline(now, lock), !.receipt = ledger[s].issued + 1]
    BY <1>3, <1>4, <1>9
  <2>3. m \in Message
    BY <2>1
  <2> HIDE DEF m
  <2>4. messages'[s].availableAt = Deadline(now, lock)
    BY <2>2, <2>3 DEF Message
  <2> QED
    BY <1>2, <1>6, <2>1, <2>4
<1> QED
  BY <1>3, <1>4, <1>5, <1>7, <1>8, <1>9

-----------------------------------------------------------------------------
(* What the other operations do to the ends of delays and locks *)

\* Messages leave and the others stay as they are.
LEMMA DropFacts ==
  ASSUME TypeOK, NEW S, NEW why, Drop(S, why)
  PROVE  /\ now' = now /\ DOMAIN messages' \subseteq DOMAIN messages
         /\ \A s \in DOMAIN messages' : messages'[s] = messages[s]
  BY DEF Drop, Keep

\* A message arrives: it is available at the end of its delay.
LEMMA StoreFacts ==
  ASSUME TypeOK, NEW delay \in Delays, NEW ttl \in TTLs, EnqueueUnkeyed(NoGroup, delay, ttl, NoKey)
  PROVE  /\ now' = now /\ DOMAIN messages' = DOMAIN messages \cup {nextSeq + 1}
         /\ \A s \in DOMAIN messages : messages'[s] = messages[s]
         /\ messages'[nextSeq + 1].availableAt = Deadline(now, delay)
<1>1. nextSeq + 1 \notin DOMAIN messages
  BY DEF TypeOK
<1> QED
  BY <1>1 DEF EnqueueUnkeyed, Store

\* A message given back is available at once.
LEMMA GiveBackFacts ==
  ASSUME TypeOK, NEW s, NEW r, Abandon(s, r) \/ Release(s, r)
  PROVE  /\ now' = now /\ DOMAIN messages' = DOMAIN messages /\ s \in DOMAIN messages
         /\ \A u \in DOMAIN messages : u # s => messages'[u] = messages[u]
         /\ messages'[s].availableAt = NowMs
<1> DEFINE m == messages[s]
<1>0. s \in DOMAIN messages /\ m \in Message /\ now' = now
  BY DEF Abandon, Release, Names, NamesAt, TypeOK
<1>1. ASSUME Abandon(s, r)
      PROVE  /\ DOMAIN messages' = DOMAIN messages
             /\ \A u \in DOMAIN messages : u # s => messages'[u] = messages[u]
             /\ messages'[s].availableAt = NowMs
  <2>1. /\ DOMAIN messages' = DOMAIN messages
        /\ \A u \in DOMAIN messages : u # s => messages'[u] = messages[u]
        /\ messages'[s] = [m EXCEPT !.leased = FALSE, !.receipt = 0,
              !.availableAt = Deadline(now, Backoff(m.deliveries) * TicksPerMs)]
    BY <1>0, <1>1 DEF Abandon
  <2> HIDE DEF m
  <2>2. Backoff(m.deliveries) = 0
    BY <1>0, AvailableFrom
  <2>3. Deadline(now, Backoff(m.deliveries) * TicksPerMs) = NowMs
    BY <2>2, BoundsAssumption DEF Deadline, NowMs
  <2> QED
    BY <1>0, <2>1, <2>3 DEF Message
<1>2. ASSUME Release(s, r)
      PROVE  /\ DOMAIN messages' = DOMAIN messages
             /\ \A u \in DOMAIN messages : u # s => messages'[u] = messages[u]
             /\ messages'[s].availableAt = NowMs
  <2>1. /\ DOMAIN messages' = DOMAIN messages
        /\ \A u \in DOMAIN messages : u # s => messages'[u] = messages[u]
    BY <1>0, <1>2 DEF Release
  <2>2. PICK d : messages'[s] = [m EXCEPT !.leased = FALSE, !.receipt = 0, !.availableAt = NowMs,
                                         !.deliveries = d]
    <3>0. m.deliveries \in Nat
      BY <1>0 DEF Message
    <3>1. CASE messages[s].deliveries > 0
      <4>1. messages'[s] = [messages[s] EXCEPT !.leased = FALSE, !.receipt = 0, !.availableAt = NowMs,
                                               !.deliveries = messages[s].deliveries - 1]
        BY <1>0, <1>2, <3>0, <3>1 DEF Release
      <4> QED
        BY <4>1
    <3>2. CASE ~(messages[s].deliveries > 0)
      <4>1. messages'[s] = [messages[s] EXCEPT !.leased = FALSE, !.receipt = 0, !.availableAt = NowMs,
                                               !.deliveries = 0]
        BY <1>0, <1>2, <3>0, <3>2 DEF Release
      <4> QED
        BY <4>1
    <3> QED
      BY <3>1, <3>2
  <2> HIDE DEF m
  <2> QED
    BY <1>0, <2>1, <2>2 DEF Message
<1> QED
  BY <1>0, <1>1, <1>2

\* A renewal moves the end of a lock to a full lockDuration after the clock
\* reading it holds.
LEMMA RenewFacts ==
  ASSUME TypeOK, NEW s, NEW r, NEW d, NEW at, Extend(s, r, d, at)
  PROVE  /\ now' = now /\ DOMAIN messages' = DOMAIN messages /\ s \in DOMAIN messages
         /\ \A u \in DOMAIN messages : u # s => messages'[u] = messages[u]
         /\ messages'[s].availableAt = Deadline(at, d)
<1> DEFINE m == messages[s]
<1>0. s \in DOMAIN messages /\ m \in Message /\ now' = now
  BY DEF Extend, NamesAt, TypeOK
<1>1. /\ DOMAIN messages' = DOMAIN messages
      /\ \A u \in DOMAIN messages : u # s => messages'[u] = messages[u]
      /\ messages'[s] = [m EXCEPT !.availableAt = Deadline(at, d)]
  BY <1>0 DEF Extend
<1> HIDE DEF m
<1>2. messages'[s].availableAt = Deadline(at, d)
  BY <1>0, <1>1 DEF Message
<1> QED
  BY <1>0, <1>1, <1>2 DEF m

\* What an entity does to its queue is what a queue does.
LEMMA QueueStep ==
  ASSUME SBTypeOK, IInv, [SBNext]_sbVars
  PROVE  [Next]_vars
<1>0. NoGroup \in Groups /\ NoKey \in Keys /\ lock \in Leases /\ Groups \in {Groups} \cup {{g} : g \in Groups}
  BY NamesAssumption, LockNat DEF SBTypeOK
<1>1. ASSUME NEW p, NEW delay \in Delays, NEW ttl \in TTLs, Send(p, delay, ttl) \/ Schedule(p, delay, ttl)
      PROVE  Next
  <2>1. Enqueue(NoGroup, delay, ttl, NoKey)
    BY <1>1 DEF Send, Schedule, Accept, Enqueue
  <2> QED
    BY <1>0, <2>1 DEF Next
<1>2. ASSUME NEW p, NEW s \in Seqs, NEW r \in Handed(s), SettleBack(p, s, r) PROVE Next
  BY <1>2 DEF SettleBack, Next
<1>3. ASSUME NEW s \in Seqs, NEW r \in Handed(s), SettleGone(s, r) PROVE Next
  BY <1>3 DEF SettleGone, Next
<1>4. ASSUME NEW w \in renewals, RenewLock(w) PROVE Next
  <2>1. w.seq \in Seqs /\ w.lock \in Leases /\ w.at \in 0 .. now
    BY LockNat DEF SBTypeOK
  <2>2. Extend(w.seq, w.receipt, w.lock, w.at) /\ NamesAt(w.seq, w.receipt, Ms(w.at))
    BY <1>4 DEF RenewLock, Extend
  <2>3. w.receipt \in Handed(w.seq)
    <3>1. /\ messages[w.seq].leased /\ Entry(w.seq) /\ ledger[w.seq].issued \in Nat
          /\ w.seq \in DOMAIN messages
      BY <2>1, <2>2, NamedIsLeased DEF LedgerEntry
    <3>2. w.receipt = ledger[w.seq].issued /\ w.receipt # 0
      BY <2>2, <3>1 DEF NamesAt, Entry, Counted
    <3> QED
      BY <3>1, <3>2 DEF Handed
  <2> QED
    BY <2>1, <2>2, <2>3 DEF Next
<1>5. ASSUME NEW s \in Seqs, CancelScheduled(s) PROVE Next
  BY <1>5 DEF CancelScheduled, Next
<1>6. ASSUME NEW max \in Batches, Receive(max, lock, Groups) PROVE Next
  BY <1>0, <1>6 DEF Next
<1>7. ASSUME NEW p, HandOver(p) PROVE [Next]_vars
  <2>1. CASE credit = 0
    BY <1>7, <2>1 DEF HandOver, vars
  <2>2. CASE credit # 0
    <3>1. credit \in Batches
      BY <2>2, ServiceBusAssumption DEF SBTypeOK
    <3>2. Receive(credit, lock, Groups)
      BY <1>7, <2>2 DEF HandOver, ReceiveLocked
    <3> QED
      BY <1>6, <3>1, <3>2
  <2> QED
    BY <2>1, <2>2
<1>8. ASSUME NEW r, PollReceive(r) PROVE Next
  <2>1. 1 \in Batches /\ Receive(1, lock, Groups)
    BY <1>8, ServiceBusAssumption DEF PollReceive, ReceiveLocked
  <2> QED
    BY <1>6, <2>1
<1>9. ASSUME TimePasses PROVE Next
  BY <1>9 DEF TimePasses, Next
<1>10. ASSUME NEW p, \/ JobStep(p) \/ Fire(p) PROVE UNCHANGED vars
  BY <1>10 DEF JobStep, Fire, DoSignal, DoHand, ArmRead, ArmSet
<1>11. ASSUME NEW r, \/ PollSleep(r) \/ PollWake(r) \/ PollLeave(r) \/ \E timeout \in Timeouts : PollBegin(r, timeout)
       PROVE  UNCHANGED vars
  BY <1>11 DEF PollSleep, PollWake, PollLeave, PollBegin
<1>12. ASSUME Restart \/ (\E n \in 0 .. MaxCredit : Flow(n)) \/ (\E d \in Locks : SetLock(d)) PROVE UNCHANGED vars
  BY <1>12 DEF Restart, Flow, SetLock
<1>14. ASSUME NEW s, NEW r, NEW w, RenewRead(s, r) \/ RenewLost(w) PROVE UNCHANGED vars
  BY <1>14 DEF RenewRead, RenewLost
<1>13. ASSUME UNCHANGED sbVars PROVE UNCHANGED vars
  BY <1>13 DEF sbVars
<1> QED
  BY <1>1, <1>2, <1>3, <1>4, <1>5, <1>7, <1>8, <1>9, <1>10, <1>11, <1>12, <1>13, <1>14 DEF SBNext, PollStep

-----------------------------------------------------------------------------
(* Jobs, timers and receivers *)

Steps == {"arm", "set", "signal", "hand"}

Jobs == [Goroutines -> Seq(Steps)]

Rx == [pc : {"idle", "taken", "missed", "asleep"}, closed : BOOLEAN, deadline : Nat, wake : Nat,
       readAt : Nat, overlooked : SUBSET Seqs]

\* A free goroutine goes on with the steps q.
LEMMA JobLeft ==
  ASSUME NEW J \in Jobs, NEW A, SetsFirst(J, A), NEW p \in Goroutines, J[p] = <<>>,
         NEW q \in Seq(Steps), \A i \in DOMAIN q : q[i] # "set"
  PROVE  LET K == [J EXCEPT ![p] = q]
         IN  /\ K \in Jobs /\ SetsFirst(K, A)
             /\ \A x : Pending(J, x) => Pending(K, x)
             /\ \A i \in DOMAIN q : Pending(K, q[i])
             /\ \A d, e : Covered(J, A, d, e) => Covered(K, A, d, e)
<1> DEFINE K == [J EXCEPT ![p] = q]
<1>1. K \in Jobs /\ K[p] = q /\ \A o \in Goroutines : o # p => K[o] = J[o]
  BY DEF Jobs
<1>2. DOMAIN J[p] = {}
  OBVIOUS
<1> HIDE DEF K
<1>3. SetsFirst(K, A)
  BY <1>1 DEF SetsFirst
<1>4. \A x : Pending(J, x) => Pending(K, x)
  BY <1>1, <1>2 DEF Pending
<1>5. \A i \in DOMAIN q : Pending(K, q[i])
  BY <1>1 DEF Pending
<1>6. ASSUME NEW d, NEW e, Covered(J, A, d, e) PROVE Covered(K, A, d, e)
  BY <1>1, <1>2, <1>4, <1>6 DEF Covered
<1>7. /\ K \in Jobs /\ SetsFirst(K, A)
      /\ \A x : Pending(J, x) => Pending(K, x)
      /\ \A i \in DOMAIN q : Pending(K, q[i])
      /\ \A d, e : Covered(J, A, d, e) => Covered(K, A, d, e)
  BY <1>1, <1>3, <1>4, <1>5, <1>6
<1> QED
  BY <1>7 DEF K

\* Goroutine p did the first of its steps.
Stepped(J, K, p) == K = [J EXCEPT ![p] = Tail(@)]

\* A goroutine that did the first of its steps, and may have changed what its
\* Arm read.
LEMMA JobDone ==
  ASSUME NEW J \in Jobs, NEW A, SetsFirst(J, A), NEW p \in Goroutines, J[p] # <<>>,
         NEW K, Stepped(J, K, p), NEW B, \A o \in Goroutines : o # p => B[o] = A[o]
  PROVE  /\ K \in Jobs /\ SetsFirst(K, B)
         /\ \A x : (Pending(J, x) /\ x # Head(J[p])) => Pending(K, x)
         /\ \A o \in Goroutines : (o # p) => K[o] = J[o]
         /\ \A i \in DOMAIN K[p] : K[p][i] # "set"
<1> DEFINE q == J[p]
<1>1. q \in Seq(Steps) /\ q # <<>>
  BY DEF Jobs
<1>2. K[p] = Tail(q) /\ \A o \in Goroutines : o # p => K[o] = J[o]
  BY DEF Jobs, Stepped
<1> HIDE DEF q
<1>3. /\ Tail(q) \in Seq(Steps) /\ \A i \in DOMAIN Tail(q) : i + 1 \in DOMAIN q /\ Tail(q)[i] = q[i + 1] /\ i + 1 # 1
      /\ \A i \in DOMAIN q : i # 1 => (i - 1 \in DOMAIN Tail(q) /\ Tail(q)[i - 1] = q[i])
      /\ Head(q) = q[1]
  BY <1>1
<1>4. K \in Jobs
  BY <1>3 DEF Jobs, q, Stepped
<1>5. \A i \in DOMAIN K[p] : K[p][i] # "set"
  BY <1>2, <1>3 DEF SetsFirst, q
<1>6. SetsFirst(K, B)
  BY <1>2, <1>5 DEF SetsFirst
<1>7. ASSUME NEW x, Pending(J, x), x # Head(J[p]) PROVE Pending(K, x)
  <2>0. PICK o \in Goroutines : \E i \in DOMAIN J[o] : J[o][i] = x
    BY <1>7 DEF Pending
  <2>1. PICK i \in DOMAIN J[o] : J[o][i] = x
    BY <2>0
  <2>2. CASE o # p
    BY <1>2, <2>1, <2>2 DEF Pending
  <2>3. CASE o = p
    <3>1. i \in DOMAIN q /\ q[i] = x /\ i # 1
      BY <1>3, <1>7, <2>1, <2>3 DEF q
    <3>2. i - 1 \in DOMAIN K[p] /\ K[p][i - 1] = x
      BY <1>2, <1>3, <3>1
    <3> QED
      BY <3>2 DEF Pending
  <2> QED
    BY <2>2, <2>3
<1> QED
  BY <1>2, <1>4, <1>5, <1>6, <1>7

\* What covers an instant covers the later ones.
LEMMA CoveredLater ==
  ASSUME NEW J, NEW A \in [Goroutines -> Nat], NEW d \in Nat, NEW e \in Nat, NEW f \in Nat, e <= f,
         Covered(J, A, d, e)
  PROVE  Covered(J, A, d, f)
<1>1. CASE d # 0 /\ d <= e
  BY <1>1 DEF Covered
<1>2. CASE Pending(J, "arm")
  BY <1>2 DEF Covered
<1>3. CASE \E p \in Goroutines : (\E i \in DOMAIN J[p] : J[p][i] = "set") /\ A[p] <= e
  <2>1. PICK p \in Goroutines : (\E i \in DOMAIN J[p] : J[p][i] = "set") /\ A[p] <= e
    BY <1>3
  <2>2. A[p] \in Nat /\ A[p] <= f
    BY <2>1
  <2> QED
    BY <2>1, <2>2 DEF Covered
<1> QED
  BY <1>1, <1>2, <1>3 DEF Covered

Ends(M) == \A s \in DOMAIN M : M[s].availableAt \in Nat

\* The timers still cover what they did, and an Arm comes for new ends.
LEMMA CoveredKept ==
  ASSUME NEW M, Ends(M), NEW N, Ends(N), NEW t, NEW u, NEW J, NEW A \in [Goroutines -> Nat], NEW d \in Nat,
         NEW C, NEW E, AllCovered(M, C, t, J, A, d), NEW K, NEW B \in [Goroutines -> Nat], NEW c \in Nat,
         \A e \in Nat : Covered(J, A, d, e) => Covered(K, B, c, e),
         Pending(K, "arm") \/ \A s \in DOMAIN N \ E : N[s].availableAt > Ms(u) =>
             (s \in DOMAIN M \ C /\ M[s].availableAt > Ms(t) /\ M[s].availableAt <= N[s].availableAt)
  PROVE  AllCovered(N, E, u, K, B, c)
<1>1. CASE Pending(K, "arm")
  BY <1>1 DEF AllCovered, Covered
<1>2. CASE \A s \in DOMAIN N \ E : N[s].availableAt > Ms(u) =>
             (s \in DOMAIN M \ C /\ M[s].availableAt > Ms(t) /\ M[s].availableAt <= N[s].availableAt)
  <2>1. ASSUME NEW s \in DOMAIN N \ E, N[s].availableAt > Ms(u) PROVE Covered(K, B, c, N[s].availableAt)
    <3> DEFINE e == M[s].availableAt
               f == N[s].availableAt
    <3>1. s \in DOMAIN M \ C /\ e > Ms(t) /\ e <= f /\ e \in Nat /\ f \in Nat
      BY <1>2, <2>1 DEF Ends
    <3>2. Covered(J, A, d, e)
      BY <3>1 DEF AllCovered
    <3> HIDE DEF e, f
    <3>3. Covered(K, B, c, e)
      BY <3>1, <3>2
    <3>4. Covered(K, B, c, f)
      BY <3>1, <3>3, CoveredLater
    <3> QED
      BY <3>4 DEF f
  <2> QED
    BY <2>1 DEF AllCovered
<1> QED
  BY <1>1, <1>2

\* Receivers that do not move stay attentive when ends only move later or a
\* signal comes.
LEMMA AttentiveKept ==
  ASSUME NEW X \in [Receivers -> Rx], NEW M, Ends(M), NEW N, Ends(N), NEW t \in Nat, NEW u \in Nat, t <= u,
         NEW J, NEW K, Attentive(X, M, t, J), Pending(J, "signal") => Pending(K, "signal"),
         \/ Pending(K, "signal")
         \/ \A s \in DOMAIN N : s \in DOMAIN M /\ M[s].availableAt <= N[s].availableAt
  PROVE  Attentive(X, N, u, K)
<1> SUFFICES ASSUME NEW r \in Receivers
             PROVE  /\ X[r].pc = "missed" => MissedOK(X[r], N, u, K)
                    /\ X[r].pc = "asleep" => AsleepOK(X[r], N, u, K)
  BY DEF Attentive
<1> DEFINE x == X[r]
<1>1. /\ x \in Rx
      /\ x.pc = "missed" => MissedOK(x, M, t, J)
      /\ x.pc = "asleep" => AsleepOK(x, M, t, J)
  BY DEF Attentive
<1> HIDE DEF x
<1>2. x.readAt \in Nat /\ x.wake \in Nat
  BY <1>1 DEF Rx
<1>3. Ms(t) <= Ms(u) /\ Ms(t) \in Nat /\ Ms(u) \in Nat
  BY MsLater, MsNat
<1>4. ASSUME x.pc = "missed" PROVE MissedOK(x, N, u, K)
  <2>1. MissedOK(x, M, t, J)
    BY <1>1, <1>4
  <2>2. x.readAt <= Ms(u)
    BY <1>2, <1>3, <2>1 DEF MissedOK
  <2>3. CASE x.closed \/ Pending(K, "signal")
    BY <2>2, <2>3 DEF MissedOK
  <2>4. CASE ~x.closed /\ ~Pending(K, "signal")
    <3>1. \A s \in DOMAIN M : s \in x.overlooked \/ M[s].availableAt > x.readAt
      BY <2>1, <2>4 DEF MissedOK
    <3>2. ASSUME NEW s \in DOMAIN N PROVE s \in x.overlooked \/ N[s].availableAt > x.readAt
      <4>1. /\ s \in DOMAIN M /\ M[s].availableAt <= N[s].availableAt
            /\ M[s].availableAt \in Nat /\ N[s].availableAt \in Nat
            /\ s \in x.overlooked \/ M[s].availableAt > x.readAt
        BY <2>4, <3>1 DEF Ends
      <4> QED
        BY <1>2, <4>1
    <3> QED
      BY <2>2, <3>2 DEF MissedOK
  <2> QED
    BY <2>3, <2>4
<1>5. ASSUME x.pc = "asleep" PROVE AsleepOK(x, N, u, K)
  <2>1. AsleepOK(x, M, t, J)
    BY <1>1, <1>5
  <2>2. CASE x.closed \/ Pending(K, "signal")
    BY <2>2 DEF AsleepOK
  <2>3. CASE t >= x.wake
    <3>1. u >= x.wake
      BY <1>2, <2>3
    <3> QED
      BY <3>1 DEF AsleepOK
  <2>4. CASE ~x.closed /\ ~Pending(K, "signal") /\ ~(t >= x.wake)
    <3>1. \A s \in DOMAIN M : s \in x.overlooked \/ x.wake <= M[s].availableAt * TicksPerMs
      BY <2>1, <2>4 DEF AsleepOK
    <3>2. ASSUME NEW s \in DOMAIN N PROVE s \in x.overlooked \/ x.wake <= N[s].availableAt * TicksPerMs
      <4> DEFINE a == M[s].availableAt
                 b == N[s].availableAt
      <4>1. a <= b /\ a \in Nat /\ b \in Nat /\ (s \in x.overlooked \/ x.wake <= a * TicksPerMs)
        BY <2>4, <3>1 DEF Ends
      <4> HIDE DEF a, b
      <4>2. a * TicksPerMs <= b * TicksPerMs /\ a * TicksPerMs \in Nat /\ b * TicksPerMs \in Nat
        BY <4>1, TicksLater
      <4>3. s \in x.overlooked \/ x.wake <= b * TicksPerMs
        BY <1>2, <4>1, <4>2
      <4> QED
        BY <4>3 DEF b
    <3> QED
      BY <3>2 DEF AsleepOK
  <2> QED
    BY <2>2, <2>3, <2>4
<1> QED
  BY <1>4, <1>5 DEF x

-----------------------------------------------------------------------------
(* The steps of clients *)

\* The parts of the invariant, with the types they need.
LEMMA InvFacts ==
  ASSUME SBInv
  PROVE  /\ TypeOK /\ IInv /\ now \in Nat /\ NowMs = Ms(now) /\ Ends(messages)
         /\ rx \in [Receivers -> Rx] /\ job \in Jobs /\ armAt \in [Goroutines -> Nat] /\ due \in Nat
         /\ hands \in 0 .. MaxHands /\ credit \in 0 .. MaxCredit /\ restarts \in 0 .. MaxRestarts
         /\ EntityOK(lock, renewals, cut, now) /\ SetsFirst(job, armAt)
         /\ AllCovered(messages, cut, now, job, armAt, due) /\ Attentive(rx, messages, now, job)
<1>1. now \in Nat
  BY BoundsAssumption DEF SBInv, SBTypeOK, TypeOK
<1>2. Ends(messages)
  BY DEF SBInv, SBTypeOK, TypeOK, Message, Ends
<1> QED
  BY <1>1, <1>2 DEF SBInv, SBTypeOK, NowMs, Rx, Jobs, Steps, EntityOK, RenewalsAt

\* The queue keeps its types.
LEMMA QueueTypes ==
  ASSUME SBInv, [SBNext]_sbVars
  PROVE  IInv' /\ now' \in Nat /\ Ends(messages')
<1>1. IInv'
  BY QueueStep, StepKeeps DEF SBInv
<1> QED
  BY <1>1, BoundsAssumption DEF IInv, TypeOK, Message, Ends

\* The invariant after a step, from its parts.
LEMMA Assembled ==
  ASSUME IInv', rx' \in [Receivers -> Rx], job' \in Jobs, armAt' \in [Goroutines -> Nat], due' \in Nat,
         hands' \in 0 .. MaxHands, credit' \in 0 .. MaxCredit, restarts' \in 0 .. MaxRestarts,
         EntityOK(lock', renewals', cut', now'), SetsFirst(job', armAt'),
         AllCovered(messages', cut', now', job', armAt', due'), Attentive(rx', messages', now', job')
  PROVE  SBInv'
<1>1. SBTypeOK'
  BY DEF SBTypeOK, IInv, Rx, Jobs, Steps, EntityOK, RenewalsAt
<1> QED
  BY <1>1 DEF SBInv

\* Renewals under way stay well typed as the clock moves on.
LEMMA RenewalsKept ==
  ASSUME NEW l, NEW R, NEW C, NEW t \in Nat, NEW u \in Nat, t <= u, EntityOK(l, R, C, t)
  PROVE  EntityOK(l, R, C, u)
<1>1. ASSUME NEW w \in RenewalsAt(t) PROVE w \in RenewalsAt(u)
  <2>1. w.at \in 0 .. t
    BY DEF RenewalsAt
  <2>2. w.at \in 0 .. u
    BY <2>1
  <2> QED
    BY <2>2 DEF RenewalsAt
<1> QED
  BY <1>1 DEF EntityOK

\* A step that leaves the entity's settings and renewals alone.
LEMMA EntityKept ==
  ASSUME SBInv, UNCHANGED entityVars, now' \in Nat, now <= now'
  PROVE  EntityOK(lock', renewals', cut', now') /\ lock' = lock /\ renewals' = renewals /\ cut' = cut
<1>1. lock' = lock /\ renewals' = renewals /\ cut' = cut
  BY DEF entityVars
<1>2. EntityOK(lock, renewals, cut, now) /\ now \in Nat
  BY InvFacts
<1>3. EntityOK(lock, renewals, cut, now')
  BY <1>2, RenewalsKept
<1> QED
  BY <1>1, <1>3

\* The queue does not move.
LEMMA SameQueue ==
  ASSUME SBInv, UNCHANGED vars
  PROVE  /\ IInv' /\ messages' = messages /\ now' = now
         /\ (UNCHANGED entityVars) => (EntityOK(lock', renewals', cut', now') /\ cut' = cut)
<1>1. messages' = messages /\ now' = now
  BY DEF vars
<1>2. IInv'
  BY StepKeeps DEF SBInv
<1>3. now' \in Nat /\ now <= now'
  BY <1>1, InvFacts
<1>4. ASSUME UNCHANGED entityVars PROVE EntityOK(lock', renewals', cut', now') /\ cut' = cut
  BY <1>3, <1>4, EntityKept
<1> QED
  BY <1>1, <1>2, <1>4

\* Messages leave the queue, or the clock ticks.
LEMMA QuietStep ==
  ASSUME SBInv, [SBNext]_sbVars, UNCHANGED waiterVars, now <= now',
         DOMAIN messages' \subseteq DOMAIN messages, \A s \in DOMAIN messages' : messages'[s] = messages[s]
  PROVE  SBInv'
<1>1. IInv' /\ now' \in Nat /\ Ends(messages')
  BY QueueTypes
<1>2. /\ rx' = rx /\ job' = job /\ armAt' = armAt /\ due' = due /\ hands' = hands /\ credit' = credit
      /\ restarts' = restarts /\ UNCHANGED entityVars
  BY DEF waiterVars
<1>3. /\ now \in Nat /\ Ends(messages)
      /\ rx \in [Receivers -> Rx] /\ job \in Jobs /\ armAt \in [Goroutines -> Nat] /\ due \in Nat
      /\ hands \in 0 .. MaxHands /\ credit \in 0 .. MaxCredit /\ restarts \in 0 .. MaxRestarts
      /\ EntityOK(lock, renewals, cut, now) /\ SetsFirst(job, armAt)
      /\ AllCovered(messages, cut, now, job, armAt, due) /\ Attentive(rx, messages, now, job)
  BY InvFacts
<1>4. EntityOK(lock', renewals', cut', now') /\ cut' = cut
  BY <1>1, <1>2, EntityKept
<1>5. AllCovered(messages', cut, now', job, armAt, due)
  <2>1. Ms(now) <= Ms(now') /\ Ms(now) \in Nat /\ Ms(now') \in Nat
    BY <1>1, <1>3, MsLater, MsNat
  <2>2. \A s \in DOMAIN messages' \ cut : messages'[s].availableAt > Ms(now') =>
           (s \in DOMAIN messages \ cut /\ messages[s].availableAt > Ms(now)
            /\ messages[s].availableAt <= messages'[s].availableAt)
    BY <1>3, <2>1 DEF Ends
  <2> QED
    BY <1>1, <1>3, <2>2, CoveredKept
<1>6. Attentive(rx, messages', now', job)
  <2>1. \A s \in DOMAIN messages' : s \in DOMAIN messages /\ messages[s].availableAt <= messages'[s].availableAt
    BY <1>3 DEF Ends
  <2> QED
    BY <1>1, <1>3, <2>1, AttentiveKept
<1> QED
  BY <1>1, <1>2, <1>3, <1>4, <1>5, <1>6, Assembled

\* The steps q may follow a queue Update.
Plain(q) == q \in Seq(Steps) /\ \A i \in DOMAIN q : q[i] # "set"

Within(q, w) == \A i \in DOMAIN q : \E k \in DOMAIN w : w[k] = q[i]

\* Steps in a row.
LEMMA StepsInRow ==
  ASSUME NEW q, Plain(q), NEW w, Plain(w)
  PROVE  Plain(q \o w) /\ Within(q, q \o w) /\ Within(w, q \o w)
<1>1. /\ q \in Seq(Steps) /\ w \in Seq(Steps)
      /\ \A i \in DOMAIN q : q[i] # "set"
      /\ \A i \in DOMAIN w : w[i] # "set"
  BY DEF Plain
<1> DEFINE c == q \o w
<1>2. c \in Seq(Steps) /\ Len(c) = Len(q) + Len(w) /\ Len(q) \in Nat /\ Len(w) \in Nat
  BY <1>1
<1>3. \A k \in 1 .. Len(c) : c[k] = IF k <= Len(q) THEN q[k] ELSE w[k - Len(q)]
  BY <1>1
<1>4. DOMAIN q = 1 .. Len(q) /\ DOMAIN w = 1 .. Len(w) /\ DOMAIN c = 1 .. Len(c)
  BY <1>1, <1>2
<1> HIDE DEF c
<1>5. ASSUME NEW k \in DOMAIN c PROVE c[k] # "set"
  <2>1. CASE k <= Len(q)
    BY <1>1, <1>2, <1>3, <1>4, <2>1
  <2>2. CASE ~(k <= Len(q))
    <3>1. k - Len(q) \in DOMAIN w /\ c[k] = w[k - Len(q)]
      BY <1>2, <1>3, <1>4, <2>2
    <3> QED
      BY <1>1, <3>1
  <2> QED
    BY <2>1, <2>2
<1>6. ASSUME NEW i \in DOMAIN q PROVE \E k \in DOMAIN c : c[k] = q[i]
  <2>1. i \in DOMAIN c /\ c[i] = q[i]
    BY <1>2, <1>3, <1>4
  <2> QED
    BY <2>1
<1>7. ASSUME NEW i \in DOMAIN w PROVE \E k \in DOMAIN c : c[k] = w[i]
  <2>1. i + Len(q) \in DOMAIN c /\ c[i + Len(q)] = w[i]
    BY <1>2, <1>3, <1>4
  <2> QED
    BY <2>1
<1>8. Plain(c) /\ Within(q, c) /\ Within(w, c)
  BY <1>2, <1>5, <1>6, <1>7 DEF Plain, Within
<1> QED
  BY <1>8 DEF c

\* No step, or one.
LEMMA FewSteps ==
  /\ Plain(<<>>)
  /\ \A x \in Steps \ {"set"} : Plain(<<x>>) /\ 1 \in DOMAIN <<x>> /\ <<x>>[1] = x
  BY DEF Plain

\* The steps a send leaves: a signal, and before it an Arm for a delay.
LEMMA SendSteps ==
  ASSUME NEW delay \in Nat, NEW after \in {<<>>, <<"hand">>}
  PROVE  LET q == EnqueueSteps(delay) \o after
         IN  /\ Plain(q) /\ \E i \in DOMAIN q : q[i] = "signal"
             /\ delay > 0 => \E i \in DOMAIN q : q[i] = "arm"
<1> DEFINE first == IF delay > 0 THEN <<"arm">> ELSE <<>>
           last == <<"signal">>
           e == first \o last
           q == e \o after
<1>1. Plain(after)
  BY FewSteps DEF Steps
<1>2. Plain(first) /\ (delay > 0 => \E i \in DOMAIN first : first[i] = "arm")
  BY FewSteps DEF Steps
<1>3. Plain(last) /\ 1 \in DOMAIN last /\ last[1] = "signal"
  BY FewSteps DEF Steps
<1>4. q = EnqueueSteps(delay) \o after
  BY DEF EnqueueSteps
<1> HIDE DEF first, last
<1>5. Plain(e) /\ Within(first, e) /\ Within(last, e)
  BY <1>2, <1>3, StepsInRow, Zenon
<1> HIDE DEF e
<1>5a. Plain(q) /\ Within(e, q)
  BY <1>1, <1>5, StepsInRow, Zenon
<1> HIDE DEF q
<1>6. /\ Plain(q) /\ \E k \in DOMAIN q : q[k] = "signal"
      /\ delay > 0 => \E k \in DOMAIN q : q[k] = "arm"
  <2>1. \E k \in DOMAIN e : e[k] = "signal"
    BY <1>3, <1>5 DEF Within
  <2>2. ASSUME delay > 0 PROVE \E k \in DOMAIN e : e[k] = "arm"
    BY <1>2, <1>5, <2>2 DEF Within
  <2> QED
    BY <1>5a, <2>1, <2>2 DEF Within
<1> QED
  BY <1>4, <1>6

\* A send or a schedule.
LEMMA AcceptStep ==
  ASSUME SBInv, [SBNext]_sbVars, NEW p \in Goroutines, NEW delay \in Delays, NEW ttl \in TTLs,
         NEW after \in {<<>>, <<"hand">>}, Accept(p, delay, ttl, after)
  PROVE  SBInv'
<1> DEFINE q == EnqueueSteps(delay) \o after
           new == nextSeq + 1
<1>0. delay \in Nat
  BY DurationsAssumption
<1>1. IInv' /\ now' \in Nat /\ Ends(messages')
  BY QueueTypes
<1>2. /\ job[p] = <<>> /\ job' = [job EXCEPT ![p] = q] /\ rx' = rx /\ armAt' = armAt /\ due' = due
      /\ hands' = hands /\ credit' = credit /\ restarts' = restarts /\ UNCHANGED entityVars
      /\ EnqueueUnkeyed(NoGroup, delay, ttl, NoKey)
  BY DEF Accept, Leaves
<1>3. /\ TypeOK /\ now \in Nat /\ Ends(messages)
      /\ rx \in [Receivers -> Rx] /\ job \in Jobs /\ armAt \in [Goroutines -> Nat] /\ due \in Nat
      /\ hands \in 0 .. MaxHands /\ credit \in 0 .. MaxCredit /\ restarts \in 0 .. MaxRestarts
      /\ EntityOK(lock, renewals, cut, now) /\ SetsFirst(job, armAt)
      /\ AllCovered(messages, cut, now, job, armAt, due) /\ Attentive(rx, messages, now, job)
  BY InvFacts
<1>4. /\ Plain(q) /\ \E i \in DOMAIN q : q[i] = "signal"
      /\ delay > 0 => \E i \in DOMAIN q : q[i] = "arm"
  BY <1>0, SendSteps
<1> HIDE DEF q
<1>5. /\ job' \in Jobs /\ SetsFirst(job', armAt) /\ \A x : Pending(job, x) => Pending(job', x)
      /\ \A i \in DOMAIN q : Pending(job', q[i])
      /\ \A d, e : Covered(job, armAt, d, e) => Covered(job', armAt, d, e)
  BY <1>2, <1>3, <1>4, JobLeft DEF Plain
<1>6. Pending(job', "signal") /\ (delay > 0 => Pending(job', "arm"))
  BY <1>4, <1>5
<1>7. /\ now' = now /\ DOMAIN messages' = DOMAIN messages \cup {new}
      /\ \A s \in DOMAIN messages : messages'[s] = messages[s]
      /\ messages'[new].availableAt = Deadline(now, delay)
  BY <1>2, <1>3, StoreFacts
<1>7a. now <= now'
  BY <1>3, <1>7
<1> HIDE DEF new
<1>8. EntityOK(lock', renewals', cut', now') /\ cut' = cut
  BY <1>1, <1>2, <1>7a, EntityKept
<1>9. AllCovered(messages', cut, now', job', armAt, due)
  <2>1. CASE delay > 0
    BY <1>6, <2>1 DEF AllCovered, Covered
  <2>2. CASE delay = 0
    <3>1. messages'[new].availableAt = Ms(now) /\ Ms(now) \in Nat
      BY <1>3, <1>7, <2>2, MsNat DEF Deadline
    <3>2. \A s \in DOMAIN messages' \ cut : messages'[s].availableAt > Ms(now') =>
             (s \in DOMAIN messages \ cut /\ messages[s].availableAt > Ms(now)
              /\ messages[s].availableAt <= messages'[s].availableAt)
      BY <1>3, <1>7, <3>1 DEF Ends
    <3> QED
      BY <1>1, <1>3, <1>5, <3>2, CoveredKept
  <2> QED
    BY <1>0, <2>1, <2>2
<1>10. Attentive(rx, messages', now', job')
  BY <1>1, <1>3, <1>6, <1>7a, AttentiveKept
<1> QED
  BY <1>1, <1>2, <1>3, <1>5, <1>8, <1>9, <1>10, Assembled

\* A message given back.
LEMMA SettleBackStep ==
  ASSUME SBInv, [SBNext]_sbVars, NEW p \in Goroutines, NEW s, NEW r, SettleBack(p, s, r)
  PROVE  SBInv'
<1> DEFINE q == <<"signal", "hand">>
<1>1. IInv' /\ now' \in Nat /\ Ends(messages')
  BY QueueTypes
<1>2. /\ job[p] = <<>> /\ job' = [job EXCEPT ![p] = q] /\ rx' = rx /\ armAt' = armAt /\ due' = due
      /\ hands' = hands /\ credit' = credit /\ restarts' = restarts /\ UNCHANGED entityVars
      /\ Abandon(s, r) \/ Release(s, r)
  BY DEF SettleBack, Leaves
<1>3. /\ TypeOK /\ now \in Nat /\ Ends(messages) /\ NowMs = Ms(now)
      /\ rx \in [Receivers -> Rx] /\ job \in Jobs /\ armAt \in [Goroutines -> Nat] /\ due \in Nat
      /\ hands \in 0 .. MaxHands /\ credit \in 0 .. MaxCredit /\ restarts \in 0 .. MaxRestarts
      /\ EntityOK(lock, renewals, cut, now) /\ SetsFirst(job, armAt)
      /\ AllCovered(messages, cut, now, job, armAt, due) /\ Attentive(rx, messages, now, job)
  BY InvFacts
<1>4. q \in Seq(Steps) /\ (\A i \in DOMAIN q : q[i] # "set") /\ 1 \in DOMAIN q /\ q[1] = "signal"
  BY DEF Steps
<1> HIDE DEF q
<1>5. /\ job' \in Jobs /\ SetsFirst(job', armAt) /\ \A x : Pending(job, x) => Pending(job', x)
      /\ \A i \in DOMAIN q : Pending(job', q[i])
      /\ \A d, e : Covered(job, armAt, d, e) => Covered(job', armAt, d, e)
  BY <1>2, <1>3, <1>4, JobLeft
<1>6. Pending(job', "signal")
  BY <1>4, <1>5
<1>7. /\ now' = now /\ DOMAIN messages' = DOMAIN messages /\ s \in DOMAIN messages
      /\ \A u \in DOMAIN messages : u # s => messages'[u] = messages[u]
      /\ messages'[s].availableAt = Ms(now)
  BY <1>2, <1>3, GiveBackFacts
<1>7a. now <= now'
  BY <1>3, <1>7
<1>8. EntityOK(lock', renewals', cut', now') /\ cut' = cut
  BY <1>1, <1>2, <1>7a, EntityKept
<1>9. AllCovered(messages', cut, now', job', armAt, due)
  <2>1. Ms(now) \in Nat
    BY <1>3, MsNat
  <2>2. \A u \in DOMAIN messages' \ cut : messages'[u].availableAt > Ms(now') =>
           (u \in DOMAIN messages \ cut /\ messages[u].availableAt > Ms(now)
            /\ messages[u].availableAt <= messages'[u].availableAt)
    BY <1>3, <1>7, <2>1 DEF Ends
  <2> QED
    BY <1>1, <1>3, <1>5, <2>2, CoveredKept
<1>10. Attentive(rx, messages', now', job')
  BY <1>1, <1>3, <1>6, <1>7a, AttentiveKept
<1> QED
  BY <1>1, <1>2, <1>3, <1>5, <1>8, <1>9, <1>10, Assembled

\* A renewal reads or gives up, or lockDuration is set: the queue, the timers
\* and the receivers stay as they are.
LEMMA EntityStep ==
  ASSUME SBInv,
         \/ \E s \in Seqs : \E r \in Handed(s) : RenewRead(s, r)
         \/ \E w \in renewals : RenewLost(w)
         \/ \E d \in Locks : SetLock(d)
  PROVE  SBInv'
<1>1. /\ now \in Nat /\ rx \in [Receivers -> Rx] /\ job \in Jobs /\ armAt \in [Goroutines -> Nat] /\ due \in Nat
      /\ hands \in 0 .. MaxHands /\ credit \in 0 .. MaxCredit /\ restarts \in 0 .. MaxRestarts
      /\ EntityOK(lock, renewals, cut, now) /\ SetsFirst(job, armAt)
      /\ AllCovered(messages, cut, now, job, armAt, due) /\ Attentive(rx, messages, now, job)
      /\ TypeOK
  BY InvFacts
<1>2. /\ UNCHANGED vars /\ rx' = rx /\ job' = job /\ armAt' = armAt /\ due' = due
      /\ hands' = hands /\ credit' = credit /\ restarts' = restarts /\ cut' = cut
  BY DEF RenewRead, RenewLost, SetLock
<1>3. IInv' /\ messages' = messages /\ now' = now
  BY <1>2, SameQueue
<1>4. EntityOK(lock', renewals', cut, now)
  <2>1. ASSUME NEW s \in Seqs, NEW r \in Handed(s), RenewRead(s, r) PROVE EntityOK(lock', renewals', cut, now)
    <3> DEFINE w == [seq |-> s, receipt |-> r, lock |-> lock, at |-> now]
    <3>1. renewals' = renewals \cup {w} /\ lock' = lock
      BY <2>1 DEF RenewRead
    <3>2. r \in Nat
      BY <1>1 DEF Handed, TypeOK, LedgerEntry
    <3>3. lock \in Locks /\ now \in 0 .. now
      BY <1>1 DEF EntityOK
    <3>4. w \in RenewalsAt(now)
      BY <3>2, <3>3 DEF RenewalsAt
    <3> HIDE DEF w
    <3> QED
      BY <1>1, <3>1, <3>4 DEF EntityOK
  <2>2. ASSUME NEW w \in renewals, RenewLost(w) PROVE EntityOK(lock', renewals', cut, now)
    BY <1>1, <2>2 DEF RenewLost, EntityOK
  <2>3. ASSUME NEW d \in Locks, SetLock(d) PROVE EntityOK(lock', renewals', cut, now)
    BY <1>1, <2>3 DEF SetLock, EntityOK
  <2> QED
    BY <2>1, <2>2, <2>3
<1> QED
  BY <1>1, <1>2, <1>3, <1>4, Assembled

\* Receiver y is x, which has overlooked message s if it waits.
Overlooks(x, y, s) ==
    y = IF x.pc \in {"missed", "asleep"} THEN [x EXCEPT !.overlooked = @ \cup {s}] ELSE x

\* The end of one lock moves to any instant, and whoever waits has overlooked
\* it.
LEMMA AttentiveTold ==
  ASSUME NEW X \in [Receivers -> Rx], NEW Y, DOMAIN Y = Receivers, Y = [r \in Receivers |-> Y[r]],
         NEW s \in Seqs, \A r \in Receivers : Overlooks(X[r], Y[r], s),
         NEW M, NEW N, DOMAIN N = DOMAIN M, \A u \in DOMAIN M : u # s => N[u] = M[u],
         NEW t, NEW J, Attentive(X, M, t, J)
  PROVE  Y \in [Receivers -> Rx] /\ Attentive(Y, N, t, J)
<1>1. ASSUME NEW r \in Receivers
      PROVE  /\ Y[r] \in Rx
             /\ Y[r].pc = "missed" => MissedOK(Y[r], N, t, J)
             /\ Y[r].pc = "asleep" => AsleepOK(Y[r], N, t, J)
  <2> DEFINE x == X[r]
             y == Y[r]
  <2>1. /\ x \in Rx /\ Overlooks(x, y, s)
        /\ x.pc = "missed" => MissedOK(x, M, t, J)
        /\ x.pc = "asleep" => AsleepOK(x, M, t, J)
    BY DEF Attentive
  <2> HIDE DEF x, y
  <2>2. /\ y \in Rx /\ y.pc = x.pc /\ y.readAt = x.readAt /\ y.closed = x.closed /\ y.wake = x.wake
        /\ x.overlooked \subseteq y.overlooked
        /\ y.pc \in {"missed", "asleep"} => s \in y.overlooked
    BY <2>1 DEF Overlooks, Rx
  <2>3. ASSUME y.pc = "missed" PROVE MissedOK(y, N, t, J)
    <3>1. MissedOK(x, M, t, J)
      BY <2>1, <2>2, <2>3
    <3> QED
      BY <2>2, <2>3, <3>1 DEF MissedOK
  <2>4. ASSUME y.pc = "asleep" PROVE AsleepOK(y, N, t, J)
    <3>1. AsleepOK(x, M, t, J)
      BY <2>1, <2>2, <2>4
    <3> QED
      BY <2>2, <2>4, <3>1 DEF AsleepOK
  <2>5. /\ y \in Rx /\ (y.pc = "missed" => MissedOK(y, N, t, J))
        /\ y.pc = "asleep" => AsleepOK(y, N, t, J)
    BY <2>2, <2>3, <2>4
  <2> QED
    BY <2>5 DEF y
<1>2. Y \in [Receivers -> Rx]
  BY <1>1
<1> QED
  BY <1>1, <1>2 DEF Attentive

\* A renewal that moves the end of a live lock later leaves it covered; of the
\* others, the timer and the receivers that wait may know nothing.
LEMMA RenewLockStep ==
  ASSUME SBInv, [SBNext]_sbVars, NEW w \in renewals, RenewLock(w)
  PROVE  SBInv'
<1> DEFINE s == w.seq
           end == Deadline(w.at, w.lock)
           old == messages[s].availableAt
<1>1. IInv' /\ now' \in Nat /\ Ends(messages')
  BY QueueTypes
<1>2. /\ TypeOK /\ now \in Nat /\ Ends(messages) /\ NowMs = Ms(now)
      /\ rx \in [Receivers -> Rx] /\ job \in Jobs /\ armAt \in [Goroutines -> Nat] /\ due \in Nat
      /\ hands \in 0 .. MaxHands /\ credit \in 0 .. MaxCredit /\ restarts \in 0 .. MaxRestarts
      /\ EntityOK(lock, renewals, cut, now) /\ SetsFirst(job, armAt)
      /\ AllCovered(messages, cut, now, job, armAt, due) /\ Attentive(rx, messages, now, job)
  BY InvFacts
<1>3. /\ job' = job /\ armAt' = armAt /\ due' = due /\ hands' = hands /\ credit' = credit
      /\ restarts' = restarts /\ lock' = lock /\ renewals' = renewals \ {w}
      /\ Extend(s, w.receipt, w.lock, w.at)
      /\ cut' = IF Hidden(s, end) THEN cut \cup {s} ELSE cut
      /\ rx' = IF Shortens(s, end) THEN Unaware(s) ELSE rx
  BY DEF RenewLock
<1>4. s \in Seqs /\ w.lock \in Nat /\ w.at \in Nat
  <2>1. w \in RenewalsAt(now)
    BY <1>2 DEF EntityOK
  <2>2. s \in Seqs /\ w.lock \in Locks /\ w.at \in 0 .. now
    BY <2>1 DEF RenewalsAt
  <2> QED
    BY <1>2, <2>2, LockNat
<1>5. end \in Nat
  BY <1>4, DeadlineNat
<1>6. /\ now' = now /\ DOMAIN messages' = DOMAIN messages /\ s \in DOMAIN messages
      /\ \A u \in DOMAIN messages : u # s => messages'[u] = messages[u]
      /\ messages'[s].availableAt = end
  BY <1>2, <1>3, RenewFacts
<1>7. /\ Shortens(s, end) <=> end < old
      /\ Hidden(s, end) <=> (end < old \/ old <= Ms(now))
  BY <1>2 DEF Shortens, Hidden
<1>8. old \in Nat /\ Ms(now) \in Nat /\ now <= now
  BY <1>2, <1>6, MsNat DEF Ends
<1>9. EntityOK(lock', renewals', cut', now')
  BY <1>2, <1>3, <1>4, <1>6 DEF EntityOK
<1>10. AllCovered(messages', cut', now', job, armAt, due)
  <2>1. \A u \in DOMAIN messages' \ cut' : messages'[u].availableAt > Ms(now') =>
           (u \in DOMAIN messages \ cut /\ messages[u].availableAt > Ms(now)
            /\ messages[u].availableAt <= messages'[u].availableAt)
    <3>1. ASSUME NEW u \in DOMAIN messages' \ cut', messages'[u].availableAt > Ms(now'), u # s
          PROVE  /\ u \in DOMAIN messages \ cut /\ messages[u].availableAt > Ms(now)
                 /\ messages[u].availableAt <= messages'[u].availableAt
      <4>1. messages'[u] = messages[u] /\ u \in DOMAIN messages \ cut /\ messages[u].availableAt \in Nat
        BY <1>2, <1>3, <1>6, <3>1 DEF Ends
      <4> QED
        BY <1>6, <3>1, <4>1
    <3>2. ASSUME s \notin cut'
          PROVE  /\ s \in DOMAIN messages \ cut /\ old > Ms(now)
                 /\ old <= messages'[s].availableAt
      <4>1. ~Hidden(s, end) /\ s \notin cut
        BY <1>3, <3>2
      <4> HIDE DEF end, old
      <4>2. old > Ms(now) /\ old <= end
        BY <1>5, <1>7, <1>8, <4>1
      <4> QED
        BY <1>6, <4>1, <4>2
    <3> QED
      BY <3>1, <3>2
  <2> QED
    BY <1>1, <1>2, <2>1, CoveredKept
<1>11. rx' \in [Receivers -> Rx] /\ Attentive(rx', messages', now, job)
  <2>1. CASE Shortens(s, end)
    <3>1. rx' = Unaware(s)
      BY <1>3, <2>1
    <3>2. /\ DOMAIN rx' = Receivers /\ rx' = [r \in Receivers |-> rx'[r]]
          /\ \A r \in Receivers : Overlooks(rx[r], rx'[r], s)
      BY <3>1 DEF Unaware, Overlooks
    <3> HIDE DEF s
    <3> QED
      BY <1>2, <1>4, <1>6, <3>2, AttentiveTold
  <2>2. CASE ~Shortens(s, end)
    <3>1. rx' = rx
      BY <1>3, <2>2
    <3>2. old <= messages'[s].availableAt
      BY <1>5, <1>6, <1>7, <1>8, <2>2
    <3>3. \A u \in DOMAIN messages' : u \in DOMAIN messages /\ messages[u].availableAt <= messages'[u].availableAt
      <4>1. ASSUME NEW u \in DOMAIN messages', u # s
            PROVE  u \in DOMAIN messages /\ messages[u].availableAt <= messages'[u].availableAt
        BY <1>2, <1>6, <4>1 DEF Ends
      <4> QED
        BY <1>6, <3>2, <4>1
    <3> QED
      BY <1>1, <1>2, <1>8, <3>1, <3>3, AttentiveKept
  <2> QED
    BY <2>1, <2>2
<1> QED
  BY <1>1, <1>2, <1>3, <1>6, <1>9, <1>10, <1>11, Assembled

-----------------------------------------------------------------------------
(* The steps of receivers *)

\* A receive keeps the timers and the other receivers right, and leaves
\* nothing available when it takes nothing.
LEMMA LockedFacts ==
  ASSUME SBInv, [SBNext]_sbVars, NEW p \in Goroutines, NEW max \in Nat, max >= 1, ReceiveLocked(p, max)
  PROVE  /\ IInv' /\ Ends(messages') /\ now' = now /\ job' \in Jobs /\ SetsFirst(job', armAt)
         /\ AllCovered(messages', cut, now, job', armAt, due)
         /\ Attentive(rx, messages', now, job')
         /\ Cardinality(Leased) \in 0 .. max
         /\ Leased = {} => \A s \in DOMAIN messages' : messages'[s].availableAt > Ms(now)
<1>1. IInv' /\ Ends(messages')
  BY QueueTypes
<1>2. Receive(max, lock, Groups) /\ (IF Leased # {} THEN Leaves(p, <<"arm">>) ELSE UNCHANGED job)
  BY DEF ReceiveLocked
<1>3. /\ TypeOK /\ now \in Nat /\ Ends(messages) /\ NowMs = Ms(now)
      /\ rx \in [Receivers -> Rx] /\ job \in Jobs /\ armAt \in [Goroutines -> Nat] /\ due \in Nat
      /\ EntityOK(lock, renewals, cut, now) /\ SetsFirst(job, armAt)
      /\ AllCovered(messages, cut, now, job, armAt, due) /\ Attentive(rx, messages, now, job)
  BY InvFacts
<1>4. /\ now' = now /\ DOMAIN messages' \subseteq DOMAIN messages
      /\ Cardinality(Leased) <= max /\ Cardinality(Leased) \in Nat
      /\ \A s \in DOMAIN messages' :
            /\ s \notin Leased => (messages'[s] = messages[s] /\ (Leased = {} => ~Available(messages[s])))
            /\ s \in Leased => (Available(messages[s]) /\ messages'[s].availableAt = Deadline(now, lock))
  BY <1>2, <1>3, ReceiveFacts
<1>5. \A s \in DOMAIN messages : /\ messages[s].availableAt \in Nat
                                 /\ Available(messages[s]) <=> messages[s].availableAt <= Ms(now)
  BY <1>3, AvailableFrom DEF TypeOK, Available
<1>6. Ms(now) <= Deadline(now, lock) /\ Ms(now) \in Nat /\ Deadline(now, lock) \in Nat /\ now <= now
  <2>1. lock \in Nat
    BY <1>3, LockNat DEF EntityOK
  <2> QED
    BY <1>3, <2>1, DeadlineLater
<1>7. \A s \in DOMAIN messages' : s \in DOMAIN messages /\ messages[s].availableAt <= messages'[s].availableAt
  <2>1. ASSUME NEW s \in DOMAIN messages' PROVE messages[s].availableAt <= messages'[s].availableAt
    <3>1. CASE s \in Leased
      BY <1>4, <1>5, <1>6, <3>1
    <3>2. CASE s \notin Leased
      BY <1>4, <1>5, <3>2
    <3> QED
      BY <3>1, <3>2
  <2> QED
    BY <1>4, <2>1
<1>9. CASE Leased # {}
  <2> DEFINE q == <<"arm">>
  <2>1. job[p] = <<>> /\ job' = [job EXCEPT ![p] = q]
    BY <1>2, <1>9 DEF Leaves
  <2>2. Plain(q) /\ 1 \in DOMAIN q /\ q[1] = "arm"
    BY FewSteps DEF Steps
  <2> HIDE DEF q
  <2>3. /\ job' \in Jobs /\ SetsFirst(job', armAt) /\ \A x : Pending(job, x) => Pending(job', x)
        /\ \A i \in DOMAIN q : Pending(job', q[i])
    BY <1>3, <2>1, <2>2, JobLeft DEF Plain
  <2>4. AllCovered(messages', cut, now, job', armAt, due)
    BY <2>2, <2>3 DEF AllCovered, Covered
  <2>5. Attentive(rx, messages', now, job')
    BY <1>1, <1>3, <1>6, <1>7, <2>3, AttentiveKept
  <2> QED
    BY <1>1, <1>4, <1>9, <2>3, <2>4, <2>5
<1>10. CASE Leased = {}
  <2>1. job' = job
    BY <1>2, <1>10
  <2>2. \A s \in DOMAIN messages' : messages'[s].availableAt > Ms(now)
    BY <1>4, <1>5, <1>6, <1>10
  <2>3. AllCovered(messages', cut, now, job', armAt, due)
    <3>1. \A s \in DOMAIN messages' \ cut : messages'[s].availableAt > Ms(now) =>
             (s \in DOMAIN messages \ cut /\ messages[s].availableAt > Ms(now)
              /\ messages[s].availableAt <= messages'[s].availableAt)
      BY <1>4, <1>7, <1>10
    <3> QED
      BY <1>1, <1>3, <2>1, <3>1, CoveredKept
  <2>4. Attentive(rx, messages', now, job')
    BY <1>1, <1>3, <1>6, <1>7, <2>1, AttentiveKept
  <2> QED
    BY <1>1, <1>3, <1>4, <2>1, <2>2, <2>3, <2>4
<1> QED
  BY <1>9, <1>10

\* Messages are handed to the AMQP link.
LEMMA HandOverStep ==
  ASSUME SBInv, [SBNext]_sbVars, NEW p \in Goroutines, HandOver(p)
  PROVE  SBInv'
<1>1. /\ hands > 0 /\ hands' = hands - 1 /\ rx' = rx /\ armAt' = armAt /\ due' = due /\ restarts' = restarts
      /\ UNCHANGED entityVars
  BY DEF HandOver
<1>2. /\ TypeOK /\ now \in Nat /\ Ends(messages)
      /\ rx \in [Receivers -> Rx] /\ job \in Jobs /\ armAt \in [Goroutines -> Nat] /\ due \in Nat
      /\ hands \in 0 .. MaxHands /\ credit \in 0 .. MaxCredit /\ restarts \in 0 .. MaxRestarts
      /\ EntityOK(lock, renewals, cut, now) /\ SetsFirst(job, armAt)
      /\ AllCovered(messages, cut, now, job, armAt, due) /\ Attentive(rx, messages, now, job)
  BY InvFacts
<1>3. IInv'
  BY QueueTypes
<1>4. hands' \in 0 .. MaxHands
  BY <1>1, <1>2, ServiceBusAssumption
<1>5. CASE credit = 0
  <2>1. messages' = messages /\ now' = now /\ job' = job /\ credit' = credit /\ now <= now'
    BY <1>2, <1>5 DEF HandOver, vars
  <2>2. EntityOK(lock', renewals', cut', now') /\ cut' = cut
    BY <1>1, <1>2, <2>1, EntityKept
  <2> QED
    BY <1>1, <1>2, <1>3, <1>4, <2>1, <2>2, Assembled
<1>6. CASE credit # 0
  <2>1. ReceiveLocked(p, credit) /\ credit' = credit - Cardinality(Leased)
    BY <1>6 DEF HandOver
  <2>2. credit \in Nat /\ credit >= 1
    BY <1>2, <1>6, ServiceBusAssumption
  <2>3. /\ now' = now /\ job' \in Jobs /\ SetsFirst(job', armAt)
        /\ AllCovered(messages', cut, now, job', armAt, due)
        /\ Attentive(rx, messages', now, job') /\ Cardinality(Leased) \in 0 .. credit
    BY <2>1, <2>2, LockedFacts
  <2>4. credit' \in 0 .. MaxCredit
    BY <1>2, <2>1, <2>2, <2>3, ServiceBusAssumption
  <2>5. EntityOK(lock', renewals', cut', now') /\ cut' = cut
    BY <1>1, <1>2, <2>3, EntityKept
  <2> QED
    BY <1>1, <1>2, <1>3, <1>4, <2>3, <2>4, <2>5, Assembled
<1> QED
  BY <1>5, <1>6

\* One receiver moves.
LEMMA AttentiveMoved ==
  ASSUME NEW X \in [Receivers -> Rx], NEW M, NEW t, NEW J, Attentive(X, M, t, J),
         NEW r \in Receivers, NEW x \in Rx,
         x.pc = "missed" => MissedOK(x, M, t, J), x.pc = "asleep" => AsleepOK(x, M, t, J)
  PROVE  [X EXCEPT ![r] = x] \in [Receivers -> Rx] /\ Attentive([X EXCEPT ![r] = x], M, t, J)
<1> DEFINE Y == [X EXCEPT ![r] = x]
<1>1. Y \in [Receivers -> Rx] /\ Y[r] = x /\ \A o \in Receivers : o # r => Y[o] = X[o]
  OBVIOUS
<1> HIDE DEF Y
<1>2. Attentive(Y, M, t, J)
  BY <1>1 DEF Attentive
<1> QED
  BY <1>1, <1>2 DEF Y

\* A receive that begins, begins again or ends.
LEMMA Fresh ==
  /\ NotPolling \in Rx /\ NotPolling.pc = "idle"
  /\ \A deadline \in Nat : Take(deadline) \in Rx /\ Take(deadline).pc = "taken"
<1>1. NotPolling \in Rx /\ NotPolling.pc = "idle"
  BY DEF NotPolling, Rx
<1>2. ASSUME NEW deadline \in Nat PROVE Take(deadline) \in Rx /\ Take(deadline).pc = "taken"
  <2> DEFINE x == NotPolling
  <2>1. Take(deadline) = [x EXCEPT !.pc = "taken", !.deadline = deadline] /\ x \in Rx
    BY <1>1 DEF Take
  <2> HIDE DEF x
  <2> QED
    BY <2>1 DEF Rx
<1> QED
  BY <1>1, <1>2

\* A step that changes one receiver and nothing else.
LEMMA RxStep ==
  ASSUME SBInv, NEW r \in Receivers, NEW x \in Rx, rx' = [rx EXCEPT ![r] = x],
         UNCHANGED <<vars, job, armAt, due, hands, credit, restarts, entityVars>>,
         x.pc = "missed" => MissedOK(x, messages, now, job),
         x.pc = "asleep" => AsleepOK(x, messages, now, job)
  PROVE  SBInv'
<1>1. /\ UNCHANGED vars /\ UNCHANGED entityVars
      /\ job' = job /\ armAt' = armAt /\ due' = due /\ hands' = hands /\ credit' = credit
      /\ restarts' = restarts
  OBVIOUS
<1>2. /\ now \in Nat /\ rx \in [Receivers -> Rx] /\ job \in Jobs /\ armAt \in [Goroutines -> Nat] /\ due \in Nat
      /\ hands \in 0 .. MaxHands /\ credit \in 0 .. MaxCredit /\ restarts \in 0 .. MaxRestarts
      /\ EntityOK(lock, renewals, cut, now) /\ SetsFirst(job, armAt)
      /\ AllCovered(messages, cut, now, job, armAt, due) /\ Attentive(rx, messages, now, job)
  BY InvFacts
<1>3. /\ IInv' /\ messages' = messages /\ now' = now
      /\ EntityOK(lock', renewals', cut', now') /\ cut' = cut
  BY <1>1, <1>2, SameQueue
<1>4. rx' \in [Receivers -> Rx] /\ Attentive(rx', messages, now, job)
  BY <1>2, AttentiveMoved
<1> QED
  BY <1>1, <1>2, <1>3, <1>4, Assembled

\* Poll begins, is woken, or its client leaves.
LEMMA PollEdges ==
  ASSUME SBInv, NEW r \in Receivers,
         \/ \E timeout \in Timeouts : PollBegin(r, timeout)
         \/ PollWake(r) \/ PollLeave(r)
  PROVE  SBInv'
<1>0. now \in Nat /\ rx \in [Receivers -> Rx] /\ rx[r].deadline \in Nat
  BY InvFacts DEF Rx
<1>1. ASSUME NEW timeout \in Timeouts, PollBegin(r, timeout) PROVE SBInv'
  <2>1. now + timeout \in Nat
    BY <1>0, ServiceBusAssumption
  <2>2. Take(now + timeout) \in Rx /\ Take(now + timeout).pc = "taken"
    BY <2>1, Fresh
  <2> DEFINE x == Take(now + timeout)
  <2>3. rx' = [rx EXCEPT ![r] = x] /\ UNCHANGED <<vars, job, armAt, due, hands, credit, restarts, entityVars>>
    BY <1>1 DEF PollBegin
  <2> HIDE DEF x
  <2> QED
    BY <2>2, <2>3, RxStep DEF x
<1>2. ASSUME PollWake(r) PROVE SBInv'
  <2> DEFINE x == Take(rx[r].deadline)
  <2>1. x \in Rx /\ x.pc = "taken"
    BY <1>0, Fresh
  <2>2. rx' = [rx EXCEPT ![r] = x] /\ UNCHANGED <<vars, job, armAt, due, hands, credit, restarts, entityVars>>
    BY <1>2 DEF PollWake
  <2> HIDE DEF x
  <2> QED
    BY <2>1, <2>2, RxStep
<1>3. ASSUME PollLeave(r) PROVE SBInv'
  <2>1. rx' = [rx EXCEPT ![r] = NotPolling] /\ UNCHANGED <<vars, job, armAt, due, hands, credit, restarts, entityVars>>
    BY <1>3 DEF PollLeave
  <2> QED
    BY <2>1, Fresh, RxStep
<1> QED
  BY <1>1, <1>2, <1>3

\* One receive of a Poll: after it found nothing, nothing is available.
LEMMA PollReceiveStep ==
  ASSUME SBInv, [SBNext]_sbVars, NEW r \in Receivers, PollReceive(r)
  PROVE  SBInv'
<1> DEFINE a == rx[r]
           m == [a EXCEPT !.pc = "missed", !.readAt = Ms(now)]
           x == IF Leased # {} \/ now >= a.deadline THEN NotPolling ELSE m
<1>1. /\ TypeOK /\ now \in Nat /\ NowMs = Ms(now) /\ a \in Rx
      /\ rx \in [Receivers -> Rx] /\ armAt \in [Goroutines -> Nat] /\ due \in Nat
      /\ hands \in 0 .. MaxHands /\ credit \in 0 .. MaxCredit /\ restarts \in 0 .. MaxRestarts
  BY InvFacts
<1>2. /\ ReceiveLocked(r, 1) /\ rx' = [rx EXCEPT ![r] = x]
      /\ armAt' = armAt /\ due' = due /\ hands' = hands /\ credit' = credit /\ restarts' = restarts
      /\ UNCHANGED entityVars
  BY <1>1 DEF PollReceive
<1>3. r \in Goroutines /\ 1 \in Nat /\ 1 >= 1
  BY DEF Goroutines
<1>4. /\ IInv' /\ now' = now /\ job' \in Jobs /\ SetsFirst(job', armAt)
      /\ AllCovered(messages', cut, now, job', armAt, due)
      /\ Attentive(rx, messages', now, job')
      /\ Leased = {} => \A s \in DOMAIN messages' : messages'[s].availableAt > Ms(now)
  BY <1>2, <1>3, LockedFacts
<1>4a. EntityOK(lock', renewals', cut', now') /\ cut' = cut
  <2>1. now' \in Nat /\ now <= now'
    BY <1>1, <1>4
  <2> QED
    BY <1>2, <2>1, EntityKept
<1> HIDE DEF a
<1>5. Ms(now) \in Nat
  BY <1>1, MsNat
<1>6. m \in Rx /\ m.pc = "missed" /\ m.readAt = Ms(now)
  BY <1>1, <1>5 DEF Rx
<1> HIDE DEF m
<1>7. x \in Rx /\ x.pc # "asleep"
  BY <1>6, Fresh
<1>8. ASSUME x.pc = "missed" PROVE MissedOK(x, messages', now, job')
  <2>1. x = m /\ Leased = {}
    BY <1>8, Fresh
  <2> QED
    BY <1>4, <1>5, <1>6, <2>1 DEF MissedOK
<1> HIDE DEF x
<1>9. rx' \in [Receivers -> Rx] /\ Attentive(rx', messages', now, job')
  BY <1>1, <1>2, <1>4, <1>7, <1>8, AttentiveMoved
<1> QED
  BY <1>1, <1>2, <1>4, <1>4a, <1>9, Assembled

\* A Poll goes to sleep: its timer is no later than the next change, and what
\* came due since its receive is what it overlooked.
LEMMA PollSleepStep ==
  ASSUME SBInv, NEW r \in Receivers, PollSleep(r)
  PROVE  SBInv'
<1> DEFINE a == rx[r]
           w == Earliest(a.deadline)
           o == a.overlooked \cup CameDue(a.readAt)
           x == [a EXCEPT !.pc = "asleep", !.wake = w, !.readAt = 0,
                          !.overlooked = @ \cup CameDue(a.readAt)]
<1>1. /\ TypeOK /\ now \in Nat /\ NowMs = Ms(now) /\ a \in Rx /\ Attentive(rx, messages, now, job)
  BY InvFacts
<1>2. /\ a.pc = "missed" /\ rx' = [rx EXCEPT ![r] = x]
      /\ UNCHANGED <<vars, job, armAt, due, hands, credit, restarts, entityVars>>
  BY DEF PollSleep
<1>3. MissedOK(a, messages, now, job)
  BY <1>1, <1>2 DEF Attentive
<1>4. a.deadline \in Nat /\ a.readAt \in Nat
  BY <1>1 DEF Rx
<1> DEFINE n == NextChange
           k == n * TicksPerMs
<1>5. /\ n \in Nat /\ \A s \in DOMAIN messages : messages[s].availableAt \in Nat
      /\ \A s \in DOMAIN messages : messages[s].availableAt > Ms(now) => n # 0 /\ n <= messages[s].availableAt
  BY <1>1, NextChangeLeast DEF Changes
<1>6. w = IF n # 0 /\ k < a.deadline THEN k ELSE a.deadline
  BY DEF Earliest
<1> HIDE DEF a, w, n
<1>7. k \in Nat
  BY <1>5, TicksLater
<1> HIDE DEF k
<1>8. w \in Nat /\ (n # 0 => w <= k)
  BY <1>4, <1>6, <1>7
<1>9. o \in SUBSET Seqs
  <2>1. DOMAIN messages \subseteq Seqs
    BY <1>1, BoundsAssumption DEF TypeOK, Seqs
  <2>2. a.overlooked \in SUBSET Seqs
    BY <1>1 DEF Rx
  <2> QED
    BY <2>1, <2>2 DEF CameDue
<1>10. \A s \in DOMAIN messages : (messages[s].availableAt > a.readAt /\ messages[s].availableAt <= Ms(now)) => s \in o
  BY <1>1, AvailableFrom DEF TypeOK, CameDue, Available
<1>10a. a.overlooked \subseteq o
  OBVIOUS
<1>11. x \in Rx /\ x.pc = "asleep" /\ x.wake = w /\ x.overlooked = o /\ x.closed = a.closed
  BY <1>1, <1>8, <1>9 DEF Rx
<1> HIDE DEF o, x
<1>12. AsleepOK(x, messages, now, job)
  <2>1. CASE a.closed \/ Pending(job, "signal")
    BY <1>11, <2>1 DEF AsleepOK
  <2>2. CASE \A s \in DOMAIN messages : s \in a.overlooked \/ messages[s].availableAt > a.readAt
    <3>1. ASSUME NEW s \in DOMAIN messages PROVE s \in o \/ w <= messages[s].availableAt * TicksPerMs
      <4> DEFINE e == messages[s].availableAt
      <4>1. e \in Nat /\ (s \in a.overlooked \/ e > a.readAt) /\ Ms(now) \in Nat
        BY <1>1, <1>5, <2>2, MsNat
      <4>2. CASE e <= Ms(now)
        BY <1>10, <1>10a, <4>1, <4>2
      <4>3. CASE e > Ms(now)
        <5>1. n # 0 /\ n <= e
          BY <1>5, <4>3
        <5> HIDE DEF e
        <5>2. k <= e * TicksPerMs /\ e * TicksPerMs \in Nat
          BY <1>5, <4>1, <5>1, TicksLater DEF k
        <5>3. w <= e * TicksPerMs
          BY <1>7, <1>8, <5>1, <5>2
        <5> QED
          BY <5>3 DEF e
      <4> QED
        BY <4>1, <4>2, <4>3
    <3> QED
      BY <1>11, <3>1 DEF AsleepOK
  <2> QED
    BY <1>3, <2>1, <2>2 DEF MissedOK
<1> QED
  BY <1>2, <1>11, <1>12, RxStep

-----------------------------------------------------------------------------
(* The steps of the Waiter *)

\* A signal or a hand-off changes nothing for the timers.
LEMMA HeadDone ==
  ASSUME NEW J \in Jobs, NEW A, SetsFirst(J, A), NEW p \in Goroutines, J[p] # <<>>,
         Head(J[p]) \in {"signal", "hand"}, NEW K, Stepped(J, K, p)
  PROVE  /\ K \in Jobs /\ SetsFirst(K, A)
         /\ \A x : (Pending(J, x) /\ x # Head(J[p])) => Pending(K, x)
         /\ \A d, e : Covered(J, A, d, e) => Covered(K, A, d, e)
<1>1. /\ K \in Jobs
      /\ SetsFirst(K, A)
      /\ \A x : (Pending(J, x) /\ x # Head(J[p])) => Pending(K, x)
      /\ \A o \in Goroutines : (o # p) => K[o] = J[o]
  BY JobDone
<1>2. Pending(J, "arm") => Pending(K, "arm")
  BY <1>1
<1>3. \A i \in DOMAIN J[p] : J[p][i] # "set"
  <2>1. J[p] \in Seq(Steps) /\ Head(J[p]) = J[p][1]
    BY DEF Jobs
  <2> QED
    BY <2>1 DEF SetsFirst
<1>4. ASSUME NEW d, NEW e, Covered(J, A, d, e) PROVE Covered(K, A, d, e)
  BY <1>1, <1>2, <1>3, <1>4 DEF Covered
<1> QED
  BY <1>1, <1>4

\* Signal closes the channel of every receiver that holds one.
LEMMA SignalStep ==
  ASSUME SBInv, NEW p \in Goroutines, DoSignal(p)
  PROVE  SBInv'
<1>1. /\ TypeOK /\ now \in Nat /\ Ends(messages)
      /\ rx \in [Receivers -> Rx] /\ job \in Jobs /\ armAt \in [Goroutines -> Nat] /\ due \in Nat
      /\ hands \in 0 .. MaxHands /\ credit \in 0 .. MaxCredit /\ restarts \in 0 .. MaxRestarts
      /\ EntityOK(lock, renewals, cut, now) /\ SetsFirst(job, armAt)
      /\ AllCovered(messages, cut, now, job, armAt, due) /\ Attentive(rx, messages, now, job)
  BY InvFacts
<1>2. /\ job[p] # <<>> /\ Head(job[p]) = "signal" /\ job' = [job EXCEPT ![p] = Tail(@)]
      /\ rx' = [r \in Receivers |-> IF rx[r].pc = "idle" THEN rx[r] ELSE [rx[r] EXCEPT !.closed = TRUE]]
      /\ UNCHANGED vars /\ UNCHANGED entityVars /\ armAt' = armAt /\ due' = due /\ hands' = hands /\ credit' = credit
      /\ restarts' = restarts
  BY DEF DoSignal
<1>2a. Stepped(job, job', p) /\ job[p] # <<>> /\ Head(job[p]) \in {"signal", "hand"}
  BY <1>2 DEF Stepped
<1>3. /\ IInv' /\ messages' = messages /\ now' = now
      /\ EntityOK(lock', renewals', cut', now') /\ cut' = cut
  BY <1>2, SameQueue
<1>4. /\ job' \in Jobs /\ SetsFirst(job', armAt)
      /\ \A d, e : Covered(job, armAt, d, e) => Covered(job', armAt, d, e)
  BY <1>1, <1>2a, HeadDone
<1>5. AllCovered(messages, cut, now, job', armAt, due)
  BY <1>1, <1>4 DEF AllCovered
<1>6. ASSUME NEW r \in Receivers
      PROVE  /\ rx'[r] \in Rx
             /\ rx'[r].pc = "missed" => MissedOK(rx'[r], messages, now, job')
             /\ rx'[r].pc = "asleep" => AsleepOK(rx'[r], messages, now, job')
  <2> DEFINE a == rx[r]
             x == rx'[r]
  <2>1. /\ a \in Rx
        /\ a.pc = "missed" => MissedOK(a, messages, now, job)
        /\ x = IF a.pc = "idle" THEN a ELSE [a EXCEPT !.closed = TRUE]
    BY <1>1, <1>2 DEF Attentive
  <2> HIDE DEF a, x
  <2>2. /\ x \in Rx /\ x.pc = a.pc /\ x.readAt = a.readAt
        /\ (x.closed = TRUE) \/ x.pc = "idle"
    BY <2>1 DEF Rx
  <2>3. /\ x \in Rx
        /\ x.pc = "missed" => MissedOK(x, messages, now, job')
        /\ x.pc = "asleep" => AsleepOK(x, messages, now, job')
    BY <2>1, <2>2 DEF MissedOK, AsleepOK
  <2> QED
    BY <2>3 DEF x
<1>7. rx' \in [Receivers -> Rx]
  <2>1. DOMAIN rx' = Receivers /\ rx' = [r \in Receivers |-> rx'[r]]
    BY <1>2
  <2> QED
    BY <1>6, <2>1
<1>8. Attentive(rx', messages, now, job')
  BY <1>6 DEF Attentive
<1> QED
  BY <1>1, <1>2, <1>3, <1>4, <1>5, <1>7, <1>8, Assembled

\* A goroutine is started that hands messages to the AMQP link, or the link
\* is granted credit.
LEMMA HandStep ==
  ASSUME SBInv, NEW p \in Goroutines, DoHand(p)
  PROVE  SBInv'
<1>1. /\ TypeOK /\ now \in Nat /\ Ends(messages)
      /\ rx \in [Receivers -> Rx] /\ job \in Jobs /\ armAt \in [Goroutines -> Nat] /\ due \in Nat
      /\ hands \in 0 .. MaxHands /\ credit \in 0 .. MaxCredit /\ restarts \in 0 .. MaxRestarts
      /\ EntityOK(lock, renewals, cut, now) /\ SetsFirst(job, armAt)
      /\ AllCovered(messages, cut, now, job, armAt, due) /\ Attentive(rx, messages, now, job)
  BY InvFacts
<1>2. /\ job[p] # <<>> /\ Head(job[p]) = "hand" /\ job' = [job EXCEPT ![p] = Tail(@)]
      /\ hands < MaxHands /\ hands' = hands + 1 /\ rx' = rx
      /\ UNCHANGED vars /\ UNCHANGED entityVars /\ armAt' = armAt /\ due' = due /\ credit' = credit /\ restarts' = restarts
  BY DEF DoHand
<1>2a. Stepped(job, job', p) /\ job[p] # <<>> /\ Head(job[p]) \in {"signal", "hand"}
  BY <1>2 DEF Stepped
<1>3. /\ IInv' /\ messages' = messages /\ now' = now /\ now <= now
      /\ EntityOK(lock', renewals', cut', now') /\ cut' = cut
  BY <1>1, <1>2, SameQueue
<1>4. /\ job' \in Jobs /\ SetsFirst(job', armAt)
      /\ \A x : (Pending(job, x) /\ x # Head(job[p])) => Pending(job', x)
      /\ \A d, e : Covered(job, armAt, d, e) => Covered(job', armAt, d, e)
  BY <1>1, <1>2a, HeadDone
<1>5. AllCovered(messages, cut, now, job', armAt, due)
  BY <1>1, <1>4 DEF AllCovered
<1>6. Attentive(rx, messages, now, job')
  <2>1. Pending(job, "signal") => Pending(job', "signal")
    BY <1>2, <1>4
  <2>2. \A s \in DOMAIN messages : messages[s].availableAt <= messages[s].availableAt
    BY <1>1 DEF Ends
  <2> QED
    BY <1>1, <1>3, <2>1, <2>2, AttentiveKept
<1>7. hands' \in 0 .. MaxHands
  BY <1>1, <1>2, ServiceBusAssumption
<1> QED
  BY <1>1, <1>2, <1>3, <1>4, <1>5, <1>6, <1>7, Assembled

\* Once every end still to come is no earlier than the next change, a timer
\* or a goroutine that holds it covers them all.
LEMMA NextCovers ==
  ASSUME SBInv, NEW J, NEW A, NEW d, NEW C,
         NextChange # 0 => \A e \in Nat : NextChange <= e => Covered(J, A, d, e)
  PROVE  AllCovered(messages, C, now, J, A, d)
<1>1. TypeOK /\ NowMs = Ms(now)
  BY InvFacts
<1>2. \A s \in DOMAIN messages : /\ messages[s].availableAt \in Nat
                                 /\ messages[s].availableAt > Ms(now) =>
                                       (NextChange # 0 /\ NextChange <= messages[s].availableAt)
  BY <1>1, NextChangeLeast DEF Changes
<1> QED
  BY <1>2 DEF AllCovered

\* Arm reads the next change, which covers whatever is in the queue now.
LEMMA ArmReadStep ==
  ASSUME SBInv, NEW p \in Goroutines, ArmRead(p)
  PROVE  SBInv'
<1> DEFINE n == NextChange
           q == job[p]
           B == [armAt EXCEPT ![p] = n]
<1>1. /\ TypeOK /\ now \in Nat /\ Ends(messages)
      /\ rx \in [Receivers -> Rx] /\ job \in Jobs /\ armAt \in [Goroutines -> Nat] /\ due \in Nat
      /\ hands \in 0 .. MaxHands /\ credit \in 0 .. MaxCredit /\ restarts \in 0 .. MaxRestarts
      /\ EntityOK(lock, renewals, cut, now) /\ SetsFirst(job, armAt)
      /\ Attentive(rx, messages, now, job)
  BY InvFacts
<1>2. /\ q # <<>> /\ Head(q) = "arm" /\ armAt' = B
      /\ job' = [job EXCEPT ![p] = IF n = 0 THEN Tail(@) ELSE <<"set">> \o Tail(@)]
      /\ rx' = rx /\ UNCHANGED vars /\ due' = due /\ hands' = hands /\ credit' = credit
      /\ restarts' = restarts /\ cut' = {} /\ lock' = lock /\ renewals' = renewals
  BY DEF ArmRead
<1>3. IInv' /\ messages' = messages /\ now' = now /\ now <= now
  BY <1>1, <1>2, SameQueue
<1>3a. EntityOK(lock', renewals', cut', now')
  BY <1>1, <1>2, <1>3 DEF EntityOK
<1>4. n \in Nat
  BY <1>1, NextChangeLeast
<1>4a. NextChange = n
  OBVIOUS
<1> HIDE DEF n
<1>5. B \in [Goroutines -> Nat] /\ B[p] = n /\ \A o \in Goroutines : o # p => B[o] = armAt[o]
  BY <1>1, <1>4
<1> HIDE DEF B
<1>5a. PICK T : Stepped(job, T, p)
  BY DEF Stepped
<1>6. /\ T \in Jobs /\ SetsFirst(T, B)
      /\ \A x : (Pending(job, x) /\ x # Head(job[p])) => Pending(T, x)
      /\ \A o \in Goroutines : (o # p) => T[o] = job[o]
      /\ \A i \in DOMAIN T[p] : T[p][i] # "set"
  <2>1. job[p] # <<>> /\ job \in Jobs /\ SetsFirst(job, armAt)
    BY <1>1, <1>2
  <2> QED
    BY <1>5, <1>5a, <2>1, JobDone
<1>7. SetsFirst(T, B) /\ (Pending(job, "signal") => Pending(T, "signal"))
  BY <1>2, <1>6
<1>8. ASSUME job' \in Jobs, SetsFirst(job', B), Pending(T, "signal") => Pending(job', "signal"),
             n # 0 => \A e \in Nat : n <= e => Covered(job', B, due, e)
      PROVE  SBInv'
  <2>1. Attentive(rx, messages, now, job')
    <3>1. Pending(job, "signal") => Pending(job', "signal")
      BY <1>7, <1>8
    <3>2. \A s \in DOMAIN messages : messages[s].availableAt <= messages[s].availableAt
      BY <1>1 DEF Ends
    <3> QED
      BY <1>1, <1>3, <3>1, <3>2, AttentiveKept
  <2>2. AllCovered(messages, {}, now, job', B, due)
    BY <1>4a, <1>8, NextCovers
  <2> QED
    BY <1>1, <1>2, <1>3, <1>3a, <1>5, <1>8, <2>1, <2>2, Assembled
<1>9. CASE n = 0
  <2>1. job' = T
    BY <1>2, <1>5a, <1>9 DEF Stepped
  <2> QED
    BY <1>6, <1>7, <1>8, <1>9, <2>1
<1>10. CASE n # 0
  <2> DEFINE w == Tail(q)
             v == <<"set">> \o w
  <2>1. q \in Seq(Steps) /\ w \in Seq(Steps) /\ T[p] = w
    BY <1>1, <1>2, <1>5a DEF Jobs, Stepped
  <2>2. job' = [job EXCEPT ![p] = v]
    BY <1>2, <1>10
  <2> HIDE DEF w
  <2>3. /\ v \in Seq(Steps) /\ 1 \in DOMAIN v /\ v[1] = "set"
        /\ \A i \in DOMAIN v : i # 1 => (i - 1 \in DOMAIN w /\ v[i] = w[i - 1])
        /\ \A i \in DOMAIN w : i + 1 \in DOMAIN v /\ v[i + 1] = w[i]
    BY <2>1 DEF Steps
  <2> HIDE DEF v, q
  <2>4. job' \in Jobs /\ job'[p] = v /\ \A o \in Goroutines : o # p => job'[o] = job[o]
    BY <1>1, <2>2, <2>3 DEF Jobs
  <2>5. SetsFirst(job', B)
    <3>1. ASSUME NEW i \in DOMAIN v, v[i] = "set" PROVE i = 1
      BY <1>6, <2>1, <2>3, <3>1
    <3> QED
      BY <1>5, <1>6, <1>7, <1>10, <2>4, <3>1 DEF SetsFirst
  <2>6. Pending(T, "signal") => Pending(job', "signal")
    <3>1. \A i \in DOMAIN w : \E k \in DOMAIN v : v[k] = w[i]
      BY <2>3
    <3> QED
      BY <1>6, <2>1, <2>4, <3>1 DEF Pending
  <2>7. ASSUME NEW e \in Nat, n <= e PROVE Covered(job', B, due, e)
    BY <1>5, <2>3, <2>4, <2>7 DEF Covered
  <2> QED
    BY <1>8, <2>4, <2>5, <2>6, <2>7
<1> QED
  BY <1>9, <1>10

\* Arm sets the timer, unless one that is due sooner stands.
LEMMA ArmSetStep ==
  ASSUME SBInv, NEW p \in Goroutines, ArmSet(p)
  PROVE  SBInv'
<1> DEFINE a == armAt[p]
<1>1. /\ TypeOK /\ now \in Nat /\ Ends(messages)
      /\ rx \in [Receivers -> Rx] /\ job \in Jobs /\ armAt \in [Goroutines -> Nat] /\ due \in Nat
      /\ hands \in 0 .. MaxHands /\ credit \in 0 .. MaxCredit /\ restarts \in 0 .. MaxRestarts
      /\ EntityOK(lock, renewals, cut, now) /\ SetsFirst(job, armAt)
      /\ AllCovered(messages, cut, now, job, armAt, due) /\ Attentive(rx, messages, now, job)
  BY InvFacts
<1>2. /\ job[p] # <<>> /\ Head(job[p]) = "set" /\ Stepped(job, job', p)
      /\ due' = IF due # 0 /\ due <= a THEN due ELSE a
      /\ rx' = rx /\ UNCHANGED vars /\ UNCHANGED entityVars /\ hands' = hands /\ credit' = credit /\ restarts' = restarts
  BY DEF ArmSet, Stands, Stepped
<1>3. /\ IInv' /\ messages' = messages /\ now' = now /\ now <= now
      /\ EntityOK(lock', renewals', cut', now') /\ cut' = cut
  BY <1>1, <1>2, SameQueue
<1>4. armAt' \in [Goroutines -> Nat] /\ \A o \in Goroutines : o # p => armAt'[o] = armAt[o]
  BY <1>1 DEF ArmSet
<1>5. /\ job' \in Jobs /\ SetsFirst(job', armAt')
      /\ \A x : (Pending(job, x) /\ x # Head(job[p])) => Pending(job', x)
      /\ \A o \in Goroutines : (o # p) => job'[o] = job[o]
  BY <1>1, <1>2, <1>4, JobDone
<1>6. a # 0 /\ a \in Nat
  <2>1. job[p] \in Seq(Steps) /\ 1 \in DOMAIN job[p] /\ job[p][1] = "set"
    BY <1>1, <1>2 DEF Jobs
  <2> QED
    BY <1>1, <2>1 DEF SetsFirst
<1>6a. Pending(job, "arm") => Pending(job', "arm")
  BY <1>2, <1>5
<1>7. due' \in Nat /\ due' # 0 /\ due' <= a /\ (due # 0 => due' <= due)
  BY <1>1, <1>2, <1>6
<1>8. ASSUME NEW e \in Nat, Covered(job, armAt, due, e) PROVE Covered(job', armAt', due', e)
  <2>1. CASE due # 0 /\ due <= e
    <3>1. due' <= e
      BY <1>1, <1>7, <2>1
    <3> QED
      BY <1>7, <3>1 DEF Covered
  <2>2. CASE Pending(job, "arm")
    BY <1>6a, <2>2 DEF Covered
  <2>3. CASE \E o \in Goroutines : (\E i \in DOMAIN job[o] : job[o][i] = "set") /\ armAt[o] <= e
    <3>1. PICK o \in Goroutines : (\E i \in DOMAIN job[o] : job[o][i] = "set") /\ armAt[o] <= e
      BY <2>3
    <3>2. CASE o = p
      <4>1. due' <= e
        BY <1>6, <1>7, <3>1, <3>2
      <4> QED
        BY <1>7, <4>1 DEF Covered
    <3>3. CASE o # p
      <4>1. job'[o] = job[o] /\ armAt'[o] = armAt[o]
        BY <1>4, <1>5, <3>3
      <4> QED
        BY <3>1, <4>1 DEF Covered
    <3> QED
      BY <3>2, <3>3
  <2> QED
    BY <1>8, <2>1, <2>2, <2>3 DEF Covered
<1>9. AllCovered(messages, cut, now, job', armAt', due')
  BY <1>1, <1>8 DEF AllCovered, Ends
<1>10. Attentive(rx, messages, now, job')
  <2>1. Pending(job, "signal") => Pending(job', "signal")
    BY <1>2, <1>5
  <2>2. \A s \in DOMAIN messages : messages[s].availableAt <= messages[s].availableAt
    BY <1>1 DEF Ends
  <2> QED
    BY <1>1, <1>3, <2>1, <2>2, AttentiveKept
<1> QED
  BY <1>1, <1>2, <1>3, <1>4, <1>5, <1>7, <1>9, <1>10, Assembled

\* The timer fires, and its goroutine arms it again before it is done.
LEMMA FireStep ==
  ASSUME SBInv, NEW p \in Goroutines, Fire(p)
  PROVE  SBInv'
<1> DEFINE q == <<"signal", "hand", "arm">>
<1>1. /\ TypeOK /\ now \in Nat /\ Ends(messages)
      /\ rx \in [Receivers -> Rx] /\ job \in Jobs /\ armAt \in [Goroutines -> Nat] /\ due \in Nat
      /\ hands \in 0 .. MaxHands /\ credit \in 0 .. MaxCredit /\ restarts \in 0 .. MaxRestarts
      /\ EntityOK(lock, renewals, cut, now) /\ SetsFirst(job, armAt)
      /\ Attentive(rx, messages, now, job)
  BY InvFacts
<1>2. /\ job[p] = <<>> /\ job' = [job EXCEPT ![p] = q] /\ due' = 0
      /\ rx' = rx /\ UNCHANGED vars /\ UNCHANGED entityVars /\ armAt' = armAt /\ hands' = hands /\ credit' = credit
      /\ restarts' = restarts
  BY DEF Fire, Leaves
<1>3. /\ IInv' /\ messages' = messages /\ now' = now /\ now <= now
      /\ EntityOK(lock', renewals', cut', now') /\ cut' = cut
  BY <1>1, <1>2, SameQueue
<1>4. /\ q \in Seq(Steps) /\ (\A i \in DOMAIN q : q[i] # "set")
      /\ 1 \in DOMAIN q /\ q[1] = "signal" /\ 3 \in DOMAIN q /\ q[3] = "arm"
  BY DEF Steps
<1> HIDE DEF q
<1>5. /\ job' \in Jobs /\ SetsFirst(job', armAt)
      /\ \A i \in DOMAIN q : Pending(job', q[i])
  BY <1>1, <1>2, <1>4, JobLeft
<1>6. Pending(job', "signal") /\ Pending(job', "arm")
  BY <1>4, <1>5
<1>7. AllCovered(messages, cut, now, job', armAt, 0)
  BY <1>6 DEF AllCovered, Covered
<1>8. Attentive(rx, messages, now, job')
  BY <1>1, <1>3, <1>6, AttentiveKept
<1> QED
  BY <1>1, <1>2, <1>3, <1>5, <1>7, <1>8, Assembled

\* Nobody receives and no goroutine has steps left.
LEMMA AllIdle ==
  ASSUME NEW M, NEW t, NEW X, NEW J, NEW A, X = [r \in Receivers |-> NotPolling],
         J = [p \in Goroutines |-> <<>>], A = [p \in Goroutines |-> 0]
  PROVE  /\ X \in [Receivers -> Rx] /\ J \in Jobs /\ A \in [Goroutines -> Nat]
         /\ SetsFirst(J, A) /\ Attentive(X, M, t, J)
<1>1. NotPolling \in Rx /\ NotPolling.pc = "idle"
  BY Fresh
<1>2. X \in [Receivers -> Rx] /\ Attentive(X, M, t, J)
  BY <1>1 DEF Attentive
<1>3. J \in Jobs /\ A \in [Goroutines -> Nat] /\ \A p \in Goroutines : J[p] = <<>>
  BY DEF Jobs
<1>4. SetsFirst(J, A)
  BY <1>3 DEF SetsFirst
<1> QED
  BY <1>2, <1>3, <1>4

\* After a restart the timer is armed for what the store holds.
LEMMA RestartStep ==
  ASSUME SBInv, Restart
  PROVE  SBInv'
<1>1. TypeOK /\ restarts \in 0 .. MaxRestarts /\ EntityOK(lock, renewals, cut, now)
  BY InvFacts
<1>2. /\ restarts < MaxRestarts /\ restarts' = restarts + 1
      /\ rx' = [r \in Receivers |-> NotPolling] /\ job' = [p \in Goroutines |-> <<>>]
      /\ armAt' = [p \in Goroutines |-> 0] /\ due' = NextChange /\ hands' = 0 /\ credit' = 0
      /\ UNCHANGED vars /\ lock' = lock /\ renewals' = {} /\ cut' = {}
  BY DEF Restart
<1>3. IInv' /\ messages' = messages /\ now' = now
  BY <1>2, SameQueue
<1>3a. EntityOK(lock', renewals', cut', now')
  BY <1>1, <1>2 DEF EntityOK
<1>4. /\ rx' \in [Receivers -> Rx] /\ job' \in Jobs /\ armAt' \in [Goroutines -> Nat]
      /\ SetsFirst(job', armAt') /\ Attentive(rx', messages, now, job')
  BY <1>2, AllIdle
<1>5. due' \in Nat
  BY <1>1, <1>2, NextChangeLeast
<1>6. AllCovered(messages, {}, now, job', armAt', due')
  <2>1. NextChange # 0 => \A e \in Nat : NextChange <= e => Covered(job', armAt', due', e)
    BY <1>2 DEF Covered
  <2> QED
    BY <2>1, NextCovers
<1>7. restarts' \in 0 .. MaxRestarts /\ hands' \in 0 .. MaxHands /\ credit' \in 0 .. MaxCredit
  BY <1>1, <1>2, ServiceBusAssumption
<1> QED
  BY <1>1, <1>2, <1>3, <1>3a, <1>4, <1>5, <1>6, <1>7, Assembled

\* The AMQP client grants credit or takes it back.
LEMMA FlowStep ==
  ASSUME SBInv, NEW n \in 0 .. MaxCredit, Flow(n)
  PROVE  SBInv'
<1>1. /\ now \in Nat /\ rx \in [Receivers -> Rx] /\ job \in Jobs /\ armAt \in [Goroutines -> Nat] /\ due \in Nat
      /\ hands \in 0 .. MaxHands /\ restarts \in 0 .. MaxRestarts
      /\ EntityOK(lock, renewals, cut, now) /\ SetsFirst(job, armAt)
      /\ AllCovered(messages, cut, now, job, armAt, due) /\ Attentive(rx, messages, now, job)
  BY InvFacts
<1>2. /\ credit' = n /\ hands < MaxHands /\ hands' = hands + 1 /\ UNCHANGED vars /\ UNCHANGED entityVars
      /\ rx' = rx /\ job' = job /\ armAt' = armAt /\ due' = due /\ restarts' = restarts
  BY DEF Flow
<1>3. /\ IInv' /\ messages' = messages /\ now' = now
      /\ EntityOK(lock', renewals', cut', now') /\ cut' = cut
  BY <1>2, SameQueue
<1>4. hands' \in 0 .. MaxHands /\ credit' \in 0 .. MaxCredit
  BY <1>1, <1>2, ServiceBusAssumption
<1> QED
  BY <1>1, <1>2, <1>3, <1>4, Assembled

\* A message leaves the entity, or time passes.
LEMMA LeavingStep ==
  ASSUME SBInv, [SBNext]_sbVars, NEW s,
         CancelScheduled(s) \/ (\E r \in Handed(s) : SettleGone(s, r)) \/ TimePasses
  PROVE  SBInv'
<1>1. TypeOK /\ now \in Nat
  BY InvFacts
<1>2. UNCHANGED waiterVars
  BY DEF CancelScheduled, SettleGone, TimePasses
<1>3. /\ DOMAIN messages' \subseteq DOMAIN messages /\ \A u \in DOMAIN messages' : messages'[u] = messages[u]
      /\ now' = now \/ now' = now + 1
  <2>1. ASSUME NEW S, NEW why, Drop(S, why)
        PROVE  /\ DOMAIN messages' \subseteq DOMAIN messages
               /\ \A u \in DOMAIN messages' : messages'[u] = messages[u]
               /\ now' = now
    BY <1>1, <2>1, DropFacts
  <2>2. CASE CancelScheduled(s)
    BY <2>1, <2>2 DEF CancelScheduled, Remove
  <2>3. ASSUME NEW r, SettleGone(s, r)
        PROVE  /\ DOMAIN messages' \subseteq DOMAIN messages
               /\ \A u \in DOMAIN messages' : messages'[u] = messages[u]
               /\ now' = now
    BY <2>1, <2>3 DEF SettleGone, Settle, DeadLetter
  <2>4. CASE TimePasses
    BY <2>4 DEF TimePasses, Tick
  <2> QED
    BY <2>2, <2>3, <2>4
<1>4. now <= now'
  BY <1>1, <1>3
<1> QED
  BY <1>2, <1>3, <1>4, QuietStep

-----------------------------------------------------------------------------
(* The theorems *)

\* A new entity: nobody waits and nothing is stored.
LEMMA SBInitInv == SBInit => SBInv
<1> SUFFICES ASSUME SBInit PROVE SBInv
  OBVIOUS
<1>1. TypeOK /\ DOMAIN messages = {} /\ IInv
  BY InitType, InitKeeps DEF SBInit, Init
<1>2. /\ rx \in [Receivers -> Rx] /\ job \in Jobs /\ armAt \in [Goroutines -> Nat]
      /\ SetsFirst(job, armAt) /\ Attentive(rx, messages, now, job)
  BY AllIdle DEF SBInit
<1>3. SBTypeOK
  BY <1>1, <1>2, ServiceBusAssumption DEF SBInit, SBTypeOK, Rx, Jobs, Steps
<1>4. AllCovered(messages, cut, now, job, armAt, due)
  BY <1>1 DEF AllCovered
<1> QED
  BY <1>1, <1>2, <1>3, <1>4 DEF SBInv

\* Every step of the entity keeps the inductive invariant.
LEMMA SBStepInv == SBInv /\ [SBNext]_sbVars => SBInv'
<1> SUFFICES ASSUME SBInv, [SBNext]_sbVars PROVE SBInv'
  OBVIOUS
<1>0. Procs \subseteq Goroutines
  BY DEF Goroutines
<1>1. ASSUME NEW p \in Procs, NEW delay \in Delays, NEW ttl \in TTLs,
             Send(p, delay, ttl) \/ Schedule(p, delay, ttl)
      PROVE  SBInv'
  BY <1>0, <1>1, AcceptStep DEF Send, Schedule
<1>2. ASSUME NEW p \in Procs, NEW s \in Seqs, NEW r \in Handed(s), SettleBack(p, s, r) PROVE SBInv'
  BY <1>0, <1>2, SettleBackStep
<1>3. ASSUME NEW p \in Procs, HandOver(p) \/ Fire(p) PROVE SBInv'
  BY <1>0, <1>3, HandOverStep, FireStep
<1>4. ASSUME NEW p \in Goroutines, JobStep(p) PROVE SBInv'
  BY <1>4, SignalStep, HandStep, ArmReadStep, ArmSetStep DEF JobStep
<1>5. ASSUME NEW s \in Seqs, CancelScheduled(s) \/ (\E r \in Handed(s) : SettleGone(s, r)) PROVE SBInv'
  BY <1>5, LeavingStep
<1>6. ASSUME NEW w \in renewals, RenewLock(w) \/ RenewLost(w) PROVE SBInv'
  BY <1>6, RenewLockStep, EntityStep
<1>6a. ASSUME NEW s \in Seqs, NEW r \in Handed(s), RenewRead(s, r) PROVE SBInv'
  BY <1>6a, EntityStep
<1>6b. ASSUME NEW d \in Locks, SetLock(d) PROVE SBInv'
  BY <1>6b, EntityStep
<1>7. ASSUME NEW r \in Receivers,
             \/ \E timeout \in Timeouts : PollBegin(r, timeout)
             \/ PollStep(r) \/ PollLeave(r)
      PROVE  SBInv'
  BY <1>7, PollEdges, PollReceiveStep, PollSleepStep DEF PollStep
<1>8. ASSUME NEW n \in 0 .. MaxCredit, Flow(n) PROVE SBInv'
  BY <1>8, FlowStep
<1>9. ASSUME Restart PROVE SBInv'
  BY <1>9, RestartStep
<1>10. ASSUME TimePasses PROVE SBInv'
  BY <1>10, LeavingStep
<1>11. ASSUME UNCHANGED sbVars PROVE SBInv'
  <2>1. /\ UNCHANGED vars /\ rx' = rx /\ job' = job /\ armAt' = armAt /\ due' = due
        /\ hands' = hands /\ credit' = credit /\ restarts' = restarts /\ UNCHANGED entityVars
    BY <1>11 DEF sbVars, waiterVars
  <2>2. /\ IInv' /\ messages' = messages /\ now' = now
        /\ EntityOK(lock', renewals', cut', now') /\ cut' = cut
    BY <2>1, SameQueue
  <2> QED
    BY <2>1, <2>2, InvFacts, Assembled
<1> QED
  BY <1>1, <1>2, <1>3, <1>4, <1>5, <1>6, <1>6a, <1>6b, <1>7, <1>8, <1>9, <1>10, <1>11 DEF SBNext

\* The inductive invariant holds in every reachable state of the entity.
THEOREM EntityInvariance == SBSpec => []SBInv
  BY SBInitInv, SBStepInv, PTL DEF SBSpec

\* Every step of the entity and its Waiter keeps their state well typed: no
\* more is handed to the AMQP link than its credit, for one.
THEOREM EntityTypeCorrect == SBSpec => []SBTypeOK
<1>1. SBInv => SBTypeOK
  BY DEF SBInv
<1> QED
  BY <1>1, EntityInvariance, PTL

\* An entity implements its queue: whatever its receivers, timers and
\* restarts do, the stored messages only change by operations of msgq.
THEOREM EntityIsQueue == SBSpec => Spec
<1>1. SBInit => Init
  BY DEF SBInit
<1>2. SBInv => SBTypeOK /\ IInv
  BY DEF SBInv
<1> QED
  BY <1>1, <1>2, EntityInvariance, QueueStep, PTL DEF SBSpec, Spec

\* So what is proved of every queue holds of an entity with all its receivers:
\* a lock is exclusive, the delivery limit is kept, dead letters are earned.
THEOREM EntityKeepsPromises ==
  SBSpec => LeaseExclusive /\ []DeliveriesBounded /\ []DeadLetterEarned
  BY EntityIsQueue, LeasesExclusive, LimitHolds, DeadLettersEarned, PTL

\* Every delay and lock that has yet to end is covered by a timer no later
\* than its end, or by an Arm still to come, unless a renewal shortened the
\* lock, or took it up after it had ended, and no Arm has read the queue since.
THEOREM EndsAreCovered == SBSpec => []TimerCovers
<1>1. ASSUME SBInv PROVE TimerCovers
  <2>1. TypeOK /\ NowMs = Ms(now) /\ AllCovered(messages, cut, now, job, armAt, due)
    BY <1>1, InvFacts
  <2>2. \A s \in DOMAIN messages : AvailableAt(messages[s]) = messages[s].availableAt
    BY <2>1, AvailableFrom DEF TypeOK
  <2> QED
    BY <2>1, <2>2 DEF TimerCovers, AllCovered, Covered, Pending, Coming, Has
<1> QED
  BY <1>1, EntityInvariance, PTL

\* No REST receiver sleeps while a message it did not overlook is receivable,
\* unless its wake-up is in hand or on its way, whatever lockDurations the
\* entity is given and however old the clock readings of renewals are.
THEOREM NoneSleepsThrough == SBSpec => []NoSleepThrough
<1>1. ASSUME SBInv PROVE NoSleepThrough
  <2>1. /\ TypeOK /\ now \in Nat /\ NowMs = Ms(now) /\ rx \in [Receivers -> Rx]
        /\ Attentive(rx, messages, now, job)
    BY <1>1, InvFacts
  <2>2. ASSUME NEW r \in Receivers, NEW s \in DOMAIN messages, rx[r].pc = "asleep", Receivable(s)
        PROVE  Wakes(r) \/ Coming("signal") \/ s \in rx[r].overlooked
    <3> DEFINE e == messages[s].availableAt
               w == rx[r].wake
    <3>1. e \in Nat /\ e <= Ms(now) /\ Ms(now) \in Nat
      BY <2>1, <2>2, AvailableFrom, MsNat DEF TypeOK, Receivable, Available
    <3>2. w \in Nat
      BY <2>1 DEF Rx
    <3>3. \/ rx[r].closed \/ Pending(job, "signal") \/ now >= w
          \/ s \in rx[r].overlooked \/ w <= e * TicksPerMs
      BY <2>1, <2>2 DEF Attentive, AsleepOK
    <3> HIDE DEF e, w
    <3>4. /\ e * TicksPerMs <= Ms(now) * TicksPerMs /\ e * TicksPerMs \in Nat
          /\ Ms(now) * TicksPerMs \in Nat /\ Ms(now) * TicksPerMs <= now
      BY <2>1, <3>1, TicksLater, MsFloor
    <3>5. w <= e * TicksPerMs => now >= w
      BY <2>1, <3>2, <3>4
    <3>6. now >= w => Wakes(r)
      BY DEF Wakes, w
    <3>7. rx[r].closed => Wakes(r)
      BY DEF Wakes
    <3>8. Pending(job, "signal") => Coming("signal")
      BY DEF Pending, Coming, Has
    <3> QED
      BY <3>3, <3>5, <3>6, <3>7, <3>8
  <2> QED
    BY <2>2 DEF NoSleepThrough
<1> QED
  BY <1>1, EntityInvariance, PTL
=============================================================================
