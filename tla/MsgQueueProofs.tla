--------------------------- MODULE MsgQueueProofs ---------------------------
(***************************************************************************)
(* TLAPS proofs about MsgQueue, for every policy, every set of durations   *)
(* and every bound: type correctness, the delivery limit, dead-lettering   *)
(* only what was really delivered, exclusive leases, the order inside a    *)
(* group, deduplication, the instant NextChange answers, and that the loop *)
(* of Receive takes the messages Receive is said to take.                  *)
(***************************************************************************)
EXTENDS MsgQueue, FiniteSetTheorems, WellFoundedInduction, TLAPS

-----------------------------------------------------------------------------
(* Lemmas about the operators on time *)

\* A millisecond clock reading is a natural number.
LEMMA MsNat == ASSUME NEW t \in Nat PROVE Ms(t) \in Nat
  BY BoundsAssumption DEF Ms

\* A deadline is a natural number.
LEMMA DeadlineNat == ASSUME NEW t \in Nat, NEW d \in Nat PROVE Deadline(t, d) \in Nat
  BY BoundsAssumption DEF Deadline, Ms

\* ms rounds down: the millisecond read never lies after the instant.
LEMMA MsFloor == ASSUME NEW t \in Nat PROVE Ms(t) * TicksPerMs <= t
  BY BoundsAssumption DEF Ms

\* deadline rounds up: the stored millisecond never lies before t plus d.
LEMMA DeadlineCeil ==
  ASSUME NEW t \in Nat, NEW d \in Nat, d > 0
  PROVE  Deadline(t, d) * TicksPerMs >= t + d
  BY BoundsAssumption DEF Deadline, Ms

\* Policy.Backoff is a natural number of milliseconds.
LEMMA BackoffNat == ASSUME NEW d \in Nat PROVE Backoff(d) \in Nat
  BY BackoffAssumption DEF Backoff

-----------------------------------------------------------------------------
(* Type correctness *)

\* Dropping messages preserves the types.
LEMMA DropType ==
  ASSUME TypeOK, NEW S, NEW why \in Fates, Drop(S, why)
  PROVE  TypeOK'
<1>1. messages' = Keep(messages, Seqs \ S)
  BY DEF Drop
<1>2. DOMAIN messages' \subseteq 1 .. nextSeq' /\ \A s \in DOMAIN messages' : messages'[s] \in Message
  BY <1>1 DEF TypeOK, Drop, Keep
<1>3. ledger' \in [Seqs -> LedgerEntry]
  BY DEF TypeOK, Drop, LedgerEntry
<1> QED
  BY <1>2, <1>3 DEF TypeOK, Drop

\* Storing an accepted message preserves the types of everything but dedup.
LEMMA StoreType ==
  ASSUME TypeOK, NEW g \in Groups, NEW delay \in Delays, NEW ttl \in TTLs,
         NEW key \in Keys, nextSeq < MaxSeq, Store(g, delay, ttl, key)
  PROVE  /\ now' \in 0 .. MaxNow
         /\ nextSeq' = nextSeq + 1 /\ nextSeq' \in 0 .. MaxSeq
         /\ DOMAIN messages' \subseteq 1 .. nextSeq'
         /\ \A s \in DOMAIN messages' : messages'[s] \in Message
         /\ ledger' \in [Seqs -> LedgerEntry]
<1>0. now \in Nat /\ delay \in Nat /\ ttl \in Nat
  BY DurationsAssumption, BoundsAssumption DEF TypeOK
<1>1. /\ NowMs \in Nat
      /\ Deadline(now, delay) \in Nat
      /\ Deadline(now, ttl) \in Nat
  BY <1>0, MsNat, DeadlineNat DEF NowMs
<1>2. nextSeq' = nextSeq + 1 /\ nextSeq' \in 0 .. MaxSeq /\ now' \in 0 .. MaxNow
  BY BoundsAssumption DEF TypeOK, Store
<1>3. DOMAIN messages' \subseteq 1 .. nextSeq'
  BY <1>2, BoundsAssumption DEF TypeOK, Store
<1>4. \A s \in DOMAIN messages' : messages'[s] \in Message
  BY <1>1 DEF TypeOK, Store, Message
<1>5. ledger' \in [Seqs -> LedgerEntry]
  BY <1>1, NamesAssumption DEF TypeOK, Store, LedgerEntry, NoEntry, Fates
<1> QED
  BY <1>2, <1>3, <1>4, <1>5

\* Looking a key up keeps only stored records.
LEMMA LookupType ==
  ASSUME TypeOK
  PROVE  /\ DOMAIN Lookup \subseteq DOMAIN dedup
         /\ \A k \in DOMAIN Lookup : Lookup[k] = dedup[k] /\ dedup[k].expiresAt > NowMs
         /\ \A k \in DOMAIN dedup : k \notin DOMAIN Lookup => ~ (dedup[k].expiresAt > NowMs)
  BY DEF Lookup, Keep

\* The message Receive leases and the entry that records it are well typed.
LEMMA LeasedMessage ==
  ASSUME NEW m \in Message, NEW a \in Nat, NEW r \in Nat
  PROVE  [m EXCEPT !.leased = TRUE, !.deliveries = @ + 1, !.availableAt = a,
                   !.receipt = r + 1] \in Message
<1>1. m.deliveries + 1 \in Nat /\ r + 1 \in Nat
  BY DEF Message
<1> QED
  BY <1>1 DEF Message

\* So is the ledger entry that records the lease.
LEMMA LeasedEntry ==
  ASSUME NEW e \in LedgerEntry, NEW t \in Nat
  PROVE  [e EXCEPT !.issued = @ + 1, !.leaseEnd = t] \in LedgerEntry
<1>1. e.issued + 1 \in Nat
  BY DEF LedgerEntry
<1> QED
  BY <1>1 DEF LedgerEntry

\* Delivering preserves the types.
LEMMA DeliverType ==
  ASSUME TypeOK, NEW live, DOMAIN live \subseteq DOMAIN messages,
         \A s \in DOMAIN live : live[s] = messages[s],
         NEW taken \in SUBSET DOMAIN live, NEW lease \in Leases,
         Deliver(live, taken, lease)
  PROVE  TypeOK'
<1>0. now \in Nat /\ lease \in Nat
  BY DurationsAssumption, BoundsAssumption DEF TypeOK
<1>1. Deadline(now, lease) \in Nat
  BY <1>0, DeadlineNat
<1>1a. now + lease \in Nat
  BY <1>0
<1>2. DOMAIN messages' \subseteq DOMAIN live
  BY DEF Deliver
<1>3. \A s \in DOMAIN messages : s \in Seqs /\ ledger[s] \in LedgerEntry /\ messages[s] \in Message
  BY BoundsAssumption DEF TypeOK, Seqs
<1>4. \A s \in DOMAIN messages' : messages'[s] \in Message
  <2> TAKE s \in DOMAIN messages'
  <2>1. s \in DOMAIN live /\ live[s] \in Message /\ ledger[s].issued \in Nat
    BY <1>2, <1>3 DEF LedgerEntry
  <2> DEFINE m == [live[s] EXCEPT !.leased = TRUE, !.deliveries = @ + 1,
                                  !.availableAt = Deadline(now, lease),
                                  !.receipt = ledger[s].issued + 1]
  <2>2. m \in Message
    BY <2>1, <1>1, LeasedMessage
  <2>3. messages'[s] = m \/ messages'[s] = live[s]
    BY DEF Deliver
  <2> QED
    BY <2>1, <2>2, <2>3
<1>5. ledger' \in [Seqs -> LedgerEntry]
  <2>1. \A s \in Seqs : ledger[s] \in LedgerEntry
    BY DEF TypeOK
  <2>2. \A s \in Seqs : [ledger[s] EXCEPT !.issued = @ + 1, !.leaseEnd = now + lease] \in LedgerEntry
    BY <2>1, <1>1a, LeasedEntry
  <2>3. \A s \in Seqs : /\ [ledger[s] EXCEPT !.fate = "dead"] \in LedgerEntry
                        /\ [ledger[s] EXCEPT !.fate = "expired"] \in LedgerEntry
    BY <2>1 DEF LedgerEntry, Fates
  <2> QED
    BY <2>1, <2>2, <2>3 DEF Deliver
<1> QED
  BY <1>2, <1>4, <1>5 DEF TypeOK, Deliver

\* An empty queue is well typed.
LEMMA InitType == Init => TypeOK
  BY BoundsAssumption, NamesAssumption DEF Init, TypeOK, NoEntry, LedgerEntry, Fates, Seqs

\* Every operation keeps the types.
LEMMA TypeStep == TypeOK /\ [Next]_vars => TypeOK'
<1> SUFFICES ASSUME TypeOK, [Next]_vars PROVE TypeOK'
  OBVIOUS
<1> USE BoundsAssumption
<1>1. ASSUME NEW g \in Groups, NEW delay \in Delays, NEW ttl \in TTLs, NEW key \in Keys,
             Enqueue(g, delay, ttl, key)
      PROVE  TypeOK'
  <2>1. CASE EnqueueDuplicate(key)
    BY <2>1, LookupType DEF EnqueueDuplicate, TypeOK
  <2>2. CASE EnqueueAdmitted(g, delay, ttl, key)
    <3>1. Store(g, delay, ttl, key) /\ nextSeq < MaxSeq
      BY <2>2 DEF EnqueueAdmitted
    <3>2. NowMs + DedupWindow \in Nat /\ nextSeq + 1 \in 1 .. (nextSeq + 1)
      BY MsNat, PolicyAssumption DEF NowMs, TypeOK
    <3>3. DOMAIN dedup' \subseteq Keys \ {NoKey}
      BY <2>2, LookupType DEF EnqueueAdmitted, TypeOK
    <3>4. \A k \in DOMAIN dedup' : dedup'[k] \in [seq : 1 .. nextSeq + 1, expiresAt : Nat]
      BY <2>2, <3>2, LookupType DEF EnqueueAdmitted, TypeOK
    <3> QED
      BY <3>1, <3>3, <3>4, StoreType DEF TypeOK
  <2>3. CASE EnqueueUnkeyed(g, delay, ttl, key)
    <3>1. Store(g, delay, ttl, NoKey) /\ nextSeq < MaxSeq /\ dedup' = dedup
      BY <2>3 DEF EnqueueUnkeyed
    <3>2. \A k \in DOMAIN dedup : dedup[k] \in [seq : 1 .. nextSeq + 1, expiresAt : Nat]
      BY DEF TypeOK
    <3>3. /\ now' \in 0 .. MaxNow
          /\ nextSeq' = nextSeq + 1 /\ nextSeq' \in 0 .. MaxSeq
          /\ DOMAIN messages' \subseteq 1 .. nextSeq'
          /\ \A s \in DOMAIN messages' : messages'[s] \in Message
          /\ ledger' \in [Seqs -> LedgerEntry]
      BY <3>1, StoreType, NamesAssumption
    <3> QED
      BY <3>1, <3>2, <3>3 DEF TypeOK
  <2> QED
    BY <1>1, <2>1, <2>2, <2>3 DEF Enqueue
<1>2. CASE Expire
  BY <1>2, DropType DEF Expire, Fates
<1>3. ASSUME NEW max \in Batches, NEW lease \in Leases, NEW accept, Receive(max, lease, accept)
      PROVE  TypeOK'
  <2> DEFINE live == Keep(messages, Seqs \ ExpiredSeqs)
  <2>1. PICK taken \in SUBSET DOMAIN live : Deliver(live, taken, lease)
    BY <1>3 DEF Receive
  <2>2. DOMAIN live \subseteq DOMAIN messages /\ \A s \in DOMAIN live : live[s] = messages[s]
    BY DEF Keep
  <2> HIDE DEF live
  <2> QED
    BY <2>1, <2>2, DeliverType
<1>4. ASSUME NEW s \in Seqs, NEW r \in Handed(s), NEW d \in Leases, NEW at \in 0 .. now,
             Extend(s, r, d, at)
      PROVE  TypeOK'
  <2>0. at \in Nat /\ d \in Nat
    BY DurationsAssumption DEF TypeOK
  <2>1. Deadline(at, d) \in Nat
    BY <2>0, DeadlineNat
  <2>2. at + d \in Nat
    BY <2>0
  <2> QED
    BY <1>4, <2>1, <2>2 DEF Extend, NamesAt, TypeOK, Message, LedgerEntry
<1>5. ASSUME NEW s \in Seqs, NEW r, Settle(s, r) PROVE TypeOK'
  BY <1>5, DropType DEF Settle, Fates
<1>6. ASSUME NEW s \in Seqs, NEW r, DeadLetter(s, r) PROVE TypeOK'
  BY <1>6, DropType DEF DeadLetter, Fates
<1>7. ASSUME NEW s \in Seqs, NEW r, Abandon(s, r) PROVE TypeOK'
  <2>1. messages[s] \in Message /\ messages[s].deliveries \in Nat
    BY <1>7 DEF Abandon, Names, NamesAt, TypeOK, Message
  <2>2. now \in Nat /\ Backoff(messages[s].deliveries) * TicksPerMs \in Nat
    BY <2>1, BackoffNat DEF TypeOK
  <2>3. Deadline(now, Backoff(messages[s].deliveries) * TicksPerMs) \in Nat
    BY <2>2, DeadlineNat
  <2> DEFINE a == messages[s]
             at == Deadline(now, Backoff(messages[s].deliveries) * TicksPerMs)
             m == [a EXCEPT !.leased = FALSE, !.receipt = 0, !.availableAt = at]
  <2>4. /\ messages' = [messages EXCEPT ![s] = m]
        /\ ledger' = [ledger EXCEPT ![s].leaseEnd = 0]
        /\ now' = now /\ nextSeq' = nextSeq /\ dedup' = dedup
    BY <1>7 DEF Abandon
  <2> HIDE DEF a, at
  <2>5. m \in Message
    BY <2>1, <2>3 DEF Message, a, at
  <2> HIDE DEF m
  <2>6. DOMAIN messages' = DOMAIN messages /\ \A q \in DOMAIN messages' : messages'[q] \in Message
    BY <2>4, <2>5 DEF TypeOK
  <2>7. ledger' \in [Seqs -> LedgerEntry]
    BY <2>4 DEF TypeOK, LedgerEntry
  <2> QED
    BY <2>4, <2>6, <2>7 DEF TypeOK
<1>8. ASSUME NEW s \in Seqs, NEW r, Release(s, r) PROVE TypeOK'
  <2>1. NowMs \in Nat
    BY MsNat DEF NowMs, TypeOK
  <2> QED
    BY <1>8, <2>1 DEF Release, Names, NamesAt, TypeOK, Message, LedgerEntry
<1>9. CASE Exhausted
  BY <1>9, DropType DEF Exhausted, Fates
<1>10. ASSUME NEW s \in Seqs, Remove(s) PROVE TypeOK'
  BY <1>10, DropType DEF Remove, Fates
<1>11. CASE Purge
  BY <1>11, DropType DEF Purge, Fates
<1>12. CASE Tick
  BY <1>12 DEF Tick, TypeOK
<1>13. CASE UNCHANGED vars
  BY <1>13 DEF vars, TypeOK
<1> QED
  BY <1>1, <1>2, <1>3, <1>4, <1>5, <1>6, <1>7, <1>8, <1>9, <1>10, <1>11, <1>12, <1>13 DEF Next

\* Every operation of the queue keeps its state well typed.
THEOREM TypeCorrect == Spec => []TypeOK
  BY InitType, TypeStep, PTL DEF Spec

-----------------------------------------------------------------------------
(***************************************************************************)
(* The delivery limit, dead-lettering and exclusive leases.  Each is about *)
(* the ledger and needs to know how a stored message agrees with its       *)
(* entry: Entry says it for one message.                                   *)
(***************************************************************************)
Promised(s) ==
    /\ messages[s].leased =>
          \/ ledger[s].leaseEnd <= now
          \/ ledger[s].leaseEnd <= messages[s].availableAt * TicksPerMs
    /\ ~messages[s].leased => ledger[s].leaseEnd = 0

Counted(s) ==
    /\ messages[s].deliveries = ledger[s].issued - ledger[s].givenBack
    /\ messages[s].leased => (messages[s].receipt = ledger[s].issued /\ messages[s].deliveries >= 1)
    /\ ~messages[s].leased => messages[s].receipt = 0

Entry(s) ==
    /\ s \in DOMAIN messages <=> ledger[s].fate = "queued"
    /\ s \in DOMAIN messages => (Promised(s) /\ Counted(s))
    /\ MaxDeliveries > 0 => ledger[s].issued - ledger[s].givenBack <= MaxDeliveries
    /\ ledger[s].fate = "dead" => ledger[s].issued - ledger[s].givenBack >= MaxDeliveries

IInv == TypeOK /\ \A s \in Seqs : Entry(s)

Same(s) ==
    /\ (s \in DOMAIN messages') <=> (s \in DOMAIN messages)
    /\ s \in DOMAIN messages => messages'[s] = messages[s]
    /\ ledger'[s] = ledger[s]

\* A message and an entry that do not change stay in agreement, also when
\* the clock moves.
LEMMA SameKeeps ==
  ASSUME NEW s \in Seqs, TypeOK, Entry(s), Same(s), now' \in Nat, now' >= now
  PROVE  Entry(s)'
<1>1. /\ s \in DOMAIN messages => messages[s] \in Message
      /\ ledger[s] \in LedgerEntry /\ now \in Nat
  BY BoundsAssumption DEF TypeOK
<1>2. ledger[s].leaseEnd \in Nat
  BY <1>1 DEF LedgerEntry
<1>3. s \in DOMAIN messages => Promised(s)'
  BY <1>1, <1>2 DEF Entry, Same, Promised
<1> QED
  BY <1>3 DEF Entry, Same, Counted

\* What leaves the queue leaves it with its counts; only messages that used
\* up their deliveries leave it dead.
LEMMA DropKeeps ==
  ASSUME IInv, NEW S \in SUBSET DOMAIN messages, NEW why \in Fates \ {"queued"}, Drop(S, why),
         why = "dead" => \A s \in S : messages[s].deliveries >= MaxDeliveries
  PROVE  \A s \in Seqs : Entry(s)'
<1> TAKE s \in Seqs
<1>0. TypeOK /\ Entry(s) /\ ledger[s] \in LedgerEntry /\ now' = now /\ now \in Nat
  BY BoundsAssumption DEF IInv, TypeOK, Drop
<1>1. CASE s \notin S
  <2>1. Same(s)
    BY <1>1 DEF Drop, Keep, Same
  <2> QED
    BY <1>0, <2>1, SameKeeps
<1>2. CASE s \in S
  <2>1. s \notin DOMAIN messages'
    BY <1>2 DEF Drop, Keep
  <2>2. /\ ledger'[s].fate = why /\ ledger'[s].issued = ledger[s].issued
        /\ ledger'[s].givenBack = ledger[s].givenBack
    BY <1>0, <1>2 DEF Drop, LedgerEntry
  <2>3. why # "queued" /\ (why = "dead" => messages[s].deliveries >= MaxDeliveries)
    BY <1>2
  <2>4. s \in DOMAIN messages /\ messages[s].deliveries = ledger[s].issued - ledger[s].givenBack
    BY <1>0, <1>2 DEF Entry, Counted
  <2> QED
    BY <1>0, <2>1, <2>2, <2>3, <2>4 DEF Entry
<1> QED
  BY <1>1, <1>2

\* A new message agrees with its new entry.
LEMMA StoreKeeps ==
  ASSUME IInv, NEW g \in Groups, NEW delay \in Delays, NEW ttl \in TTLs,
         NEW key \in Keys, nextSeq < MaxSeq, Store(g, delay, ttl, key)
  PROVE  \A s \in Seqs : Entry(s)'
<1> TAKE s \in Seqs
<1>0. TypeOK /\ Entry(s) /\ now' = now /\ now \in Nat /\ nextSeq \in Nat
  BY BoundsAssumption DEF IInv, TypeOK, Store
<1>1. CASE s # nextSeq + 1
  <2>1. Same(s)
    BY <1>0, <1>1 DEF Store, Same, TypeOK
  <2> QED
    BY <1>0, <2>1, SameKeeps
<1>2. CASE s = nextSeq + 1
  <2>1. s \notin DOMAIN messages
    BY <1>0, <1>2 DEF TypeOK
  <2>2. /\ s \in DOMAIN messages' /\ ~messages'[s].leased
        /\ messages'[s].receipt = 0 /\ messages'[s].deliveries = 0
    BY <1>2, <2>1 DEF Store
  <2>3. /\ ledger'[s].fate = "queued" /\ ledger'[s].issued = 0
        /\ ledger'[s].givenBack = 0 /\ ledger'[s].leaseEnd = 0
    BY <1>0, <1>2 DEF Store, NoEntry, TypeOK
  <2> QED
    BY <2>2, <2>3, PolicyAssumption DEF Entry, Promised, Counted
<1> QED
  BY <1>1, <1>2

\* A lease's stored deadline never ends before the promised instant.
LEMMA LeaseStored ==
  ASSUME NEW d \in Nat, NEW at \in Nat
  PROVE  at + d <= at \/ at + d <= Deadline(at, d) * TicksPerMs
<1>1. CASE d = 0
  BY <1>1
<1>2. CASE d > 0
  BY <1>2, DeadlineCeil, BoundsAssumption, DeadlineNat
<1> QED
  BY <1>1, <1>2

\* Receive hands out within the limit, and takes out as dead only what used
\* the limit up.
LEMMA DeliverKeeps ==
  ASSUME IInv, NEW live, live = Keep(messages, Seqs \ ExpiredSeqs),
         NEW taken \in SUBSET DOMAIN live, NEW lease \in Leases,
         Deliver(live, taken, lease)
  PROVE  \A s \in Seqs : Entry(s)'
<1> TAKE s \in Seqs
<1>a. TypeOK /\ Entry(s) /\ lease \in Nat /\ now' = now
  BY DurationsAssumption DEF IInv, Deliver
<1>0. TypeOK /\ Entry(s) /\ ledger[s] \in LedgerEntry /\ now' = now /\ now \in Nat /\ lease \in Nat
  BY <1>a, BoundsAssumption DEF TypeOK
<1>1. /\ (s \in DOMAIN live) <=> (s \in DOMAIN messages /\ s \notin ExpiredSeqs)
      /\ s \in DOMAIN live => live[s] = messages[s]
  BY DEF Keep
<1>2. s \in DOMAIN messages => messages[s] \in Message
  BY <1>0 DEF TypeOK
<1>3. ExpiredSeqs \subseteq DOMAIN messages
  BY DEF ExpiredSeqs
<1>4. CASE s \in taken /\ ~OverLimit(live[s])
  <2>1. s \in DOMAIN live /\ live[s] = messages[s] /\ messages[s] \in Message
    BY <1>1, <1>2, <1>4
  <2>2. messages'[s] = [live[s] EXCEPT !.leased = TRUE, !.deliveries = @ + 1,
                           !.availableAt = Deadline(now, lease), !.receipt = ledger[s].issued + 1]
        /\ s \in DOMAIN messages'
    BY <1>4, <2>1 DEF Deliver
  <2>3. ledger'[s] = [ledger[s] EXCEPT !.issued = @ + 1, !.leaseEnd = now + lease]
    BY <1>1, <1>4, <2>1 DEF Deliver
  <2>4. /\ messages'[s].leased /\ messages'[s].deliveries = messages[s].deliveries + 1
        /\ messages'[s].availableAt = Deadline(now, lease)
        /\ messages'[s].receipt = ledger[s].issued + 1
    BY <2>1, <2>2 DEF Message
  <2>5. /\ ledger'[s].issued = ledger[s].issued + 1 /\ ledger'[s].leaseEnd = now + lease
        /\ ledger'[s].givenBack = ledger[s].givenBack /\ ledger'[s].fate = ledger[s].fate
    BY <1>0, <2>3 DEF LedgerEntry
  <2>6. /\ messages[s].deliveries \in Nat /\ ledger[s].issued \in Nat /\ ledger[s].givenBack \in Nat
    BY <1>0, <2>1 DEF Message, LedgerEntry
  <2>7. MaxDeliveries > 0 => messages[s].deliveries + 1 <= MaxDeliveries
    BY <1>4, <2>1, <2>6, PolicyAssumption DEF OverLimit
  <2>8. /\ messages[s].deliveries = ledger[s].issued - ledger[s].givenBack
        /\ ledger[s].fate = "queued"
    BY <1>0, <1>1, <2>1 DEF Entry, Counted
  <2>9. Promised(s)'
    BY <1>0, <2>4, <2>5, LeaseStored DEF Promised
  <2>10. Counted(s)'
    BY <2>4, <2>5, <2>6, <2>8 DEF Counted
  <2> QED
    BY <2>2, <2>5, <2>6, <2>7, <2>8, <2>9, <2>10 DEF Entry
<1>5. CASE s \in taken /\ OverLimit(live[s])
  <2>1. s \in DOMAIN live /\ live[s] = messages[s] /\ messages[s] \in Message
    BY <1>1, <1>2, <1>5
  <2>2. s \notin DOMAIN messages' /\ ledger'[s] = [ledger[s] EXCEPT !.fate = "dead"]
    BY <1>1, <1>5, <2>1 DEF Deliver
  <2>3. /\ ledger'[s].fate = "dead" /\ ledger'[s].issued = ledger[s].issued
        /\ ledger'[s].givenBack = ledger[s].givenBack
    BY <1>0, <2>2 DEF LedgerEntry
  <2>4. messages[s].deliveries \in Nat /\ messages[s].deliveries >= MaxDeliveries
    BY <1>5, <2>1, PolicyAssumption DEF OverLimit, Message
  <2>5. messages[s].deliveries = ledger[s].issued - ledger[s].givenBack
    BY <1>0, <1>1, <2>1 DEF Entry, Counted
  <2> QED
    BY <1>0, <2>2, <2>3, <2>4, <2>5 DEF Entry
<1>6. CASE s \notin taken /\ s \in ExpiredSeqs
  <2>1. s \notin DOMAIN messages' /\ ledger'[s] = [ledger[s] EXCEPT !.fate = "expired"]
    BY <1>1, <1>6 DEF Deliver
  <2>2. /\ ledger'[s].fate = "expired" /\ ledger'[s].issued = ledger[s].issued
        /\ ledger'[s].givenBack = ledger[s].givenBack
    BY <1>0, <2>1 DEF LedgerEntry
  <2> QED
    BY <1>0, <2>1, <2>2 DEF Entry
<1>7. CASE s \notin taken /\ s \notin ExpiredSeqs
  <2>1. Same(s)
    BY <1>1, <1>7 DEF Deliver, Same
  <2> QED
    BY <1>0, <2>1, SameKeeps
<1> QED
  BY <1>4, <1>5, <1>6, <1>7

\* A receipt names a leased message, which was delivered at least once.
LEMMA NamedIsLeased ==
  ASSUME NEW s \in Seqs, NEW r, NEW t, IInv, NamesAt(s, r, t)
  PROVE  /\ s \in DOMAIN messages /\ messages[s] \in Message /\ ledger[s] \in LedgerEntry
         /\ messages[s].leased /\ Entry(s) /\ messages[s].deliveries >= 1
  BY DEF IInv, TypeOK, NamesAt, Entry, Counted

\* Extend moves the deadline and the promise together.
LEMMA ExtendKeeps ==
  ASSUME NEW s \in Seqs, NEW r, NEW d \in Leases, NEW at \in 0 .. now, IInv, Extend(s, r, d, at)
  PROVE  \A t \in Seqs : Entry(t)'
<1> TAKE t \in Seqs
<1>0. TypeOK /\ Entry(t) /\ now' = now /\ now \in Nat /\ at \in Nat /\ d \in Nat
  BY BoundsAssumption, DurationsAssumption DEF IInv, TypeOK, Extend
<1>1. CASE t # s
  <2>1. Same(t)
    BY <1>0, <1>1 DEF Extend, Same, TypeOK
  <2> QED
    BY <1>0, <2>1, SameKeeps
<1>2. CASE t = s
  <2>1. /\ s \in DOMAIN messages /\ messages[s] \in Message /\ ledger[s] \in LedgerEntry
        /\ messages[s].leased
    BY NamedIsLeased DEF Extend
  <2>2. /\ s \in DOMAIN messages'
        /\ messages'[s] = [messages[s] EXCEPT !.availableAt = Deadline(at, d)]
        /\ ledger'[s] = [ledger[s] EXCEPT !.leaseEnd = at + d]
    BY <1>0, <2>1 DEF Extend, TypeOK
  <2>3. /\ messages'[s].availableAt = Deadline(at, d) /\ messages'[s].leased = messages[s].leased
        /\ messages'[s].deliveries = messages[s].deliveries
        /\ messages'[s].receipt = messages[s].receipt
        /\ ledger'[s].leaseEnd = at + d /\ ledger'[s].issued = ledger[s].issued
        /\ ledger'[s].givenBack = ledger[s].givenBack /\ ledger'[s].fate = ledger[s].fate
    <3>1. /\ messages'[s].availableAt = Deadline(at, d) /\ messages'[s].leased = messages[s].leased
          /\ messages'[s].deliveries = messages[s].deliveries
          /\ messages'[s].receipt = messages[s].receipt
      <4> DEFINE a == messages[s]
      <4> HIDE DEF a
      <4> SUFFICES ASSUME a \in Message, messages'[s] = [a EXCEPT !.availableAt = Deadline(at, d)]
                   PROVE  /\ messages'[s].availableAt = Deadline(at, d) /\ messages'[s].leased = a.leased
                          /\ messages'[s].deliveries = a.deliveries /\ messages'[s].receipt = a.receipt
        BY <2>1, <2>2 DEF a
      <4> QED
        BY DEF Message
    <3>2. /\ ledger'[s].leaseEnd = at + d /\ ledger'[s].issued = ledger[s].issued
          /\ ledger'[s].givenBack = ledger[s].givenBack /\ ledger'[s].fate = ledger[s].fate
      <4> DEFINE e == ledger[s]
      <4> HIDE DEF e
      <4> SUFFICES ASSUME e \in LedgerEntry, ledger'[s] = [e EXCEPT !.leaseEnd = at + d]
                   PROVE  /\ ledger'[s].leaseEnd = at + d /\ ledger'[s].issued = e.issued
                          /\ ledger'[s].givenBack = e.givenBack /\ ledger'[s].fate = e.fate
        BY <2>1, <2>2 DEF e
      <4> QED
        BY DEF LedgerEntry
    <3> QED
      BY <3>1, <3>2
  <2>4. Promised(s)'
    <3>1. at + d <= now \/ at + d <= Deadline(at, d) * TicksPerMs
      <4>1. at + d <= at \/ at + d <= Deadline(at, d) * TicksPerMs
        BY <1>0, LeaseStored
      <4> QED
        BY <1>0, <4>1
    <3>2. messages'[s].leased
      BY <2>1, <2>3
    <3>3. ledger'[s].leaseEnd <= now' \/ ledger'[s].leaseEnd <= messages'[s].availableAt * TicksPerMs
      BY <1>0, <2>3, <3>1
    <3> QED
      BY <3>2, <3>3 DEF Promised
  <2>5. Counted(s)'
    BY <1>0, <1>2, <2>1, <2>3 DEF Entry, Counted
  <2> QED
    BY <1>0, <1>2, <2>1, <2>2, <2>3, <2>4, <2>5 DEF Entry
<1> QED
  BY <1>1, <1>2

\* Abandon and Release end the lease; Release takes the delivery back too.
LEMMA GiveBackKeeps ==
  ASSUME NEW s \in Seqs, NEW r, IInv, Abandon(s, r) \/ Release(s, r)
  PROVE  \A t \in Seqs : Entry(t)'
<1> TAKE t \in Seqs
<1>0. TypeOK /\ Entry(t) /\ now' = now /\ now \in Nat
  BY BoundsAssumption DEF IInv, TypeOK, Abandon, Release
<1>1. CASE t # s
  <2>1. Same(t)
    BY <1>0, <1>1 DEF Abandon, Release, Same, TypeOK
  <2> QED
    BY <1>0, <2>1, SameKeeps
<1>2. CASE t = s
  <2>1. /\ s \in DOMAIN messages /\ messages[s] \in Message /\ ledger[s] \in LedgerEntry
        /\ messages[s].deliveries >= 1
    BY NamedIsLeased DEF Abandon, Release, Names
  <2>2. /\ messages[s].deliveries \in Nat /\ ledger[s].issued \in Nat /\ ledger[s].givenBack \in Nat
    BY <2>1 DEF Message, LedgerEntry
  <2> DEFINE GivenBack(c) ==
               /\ s \in DOMAIN messages' /\ ~messages'[s].leased /\ messages'[s].receipt = 0
               /\ messages'[s].deliveries = messages[s].deliveries - c
               /\ ledger'[s].leaseEnd = 0 /\ ledger'[s].issued = ledger[s].issued
               /\ ledger'[s].givenBack = ledger[s].givenBack + c
               /\ ledger'[s].fate = ledger[s].fate
  <2>3. ASSUME Abandon(s, r) PROVE GivenBack(0)
    <3>1. /\ s \in DOMAIN messages'
          /\ messages'[s] = [messages[s] EXCEPT !.leased = FALSE, !.receipt = 0,
                !.availableAt = Deadline(now, Backoff(messages[s].deliveries) * TicksPerMs)]
          /\ ledger'[s] = [ledger[s] EXCEPT !.leaseEnd = 0]
      BY <1>0, <2>1, <2>3 DEF Abandon, TypeOK
    <3> QED
      BY <2>1, <2>2, <3>1 DEF Message, LedgerEntry
  <2>4. ASSUME Release(s, r) PROVE GivenBack(1)
    <3>1. /\ s \in DOMAIN messages'
          /\ messages'[s] = [messages[s] EXCEPT !.leased = FALSE, !.receipt = 0,
                !.availableAt = NowMs, !.deliveries = messages[s].deliveries - 1]
          /\ ledger'[s] = [ledger[s] EXCEPT !.leaseEnd = 0, !.givenBack = ledger[s].givenBack + 1]
      BY <1>0, <2>1, <2>2, <2>4 DEF Release, TypeOK, LedgerEntry
    <3> QED
      BY <2>1, <2>2, <3>1 DEF Message, LedgerEntry
  <2>5. PICK c \in {0, 1} : GivenBack(c)
    BY <2>3, <2>4
  <2> QED
    BY <1>0, <1>2, <2>1, <2>2, <2>5, PolicyAssumption DEF Entry, Promised, Counted
<1> QED
  BY <1>1, <1>2

\* The inductive invariant is kept by every step.
LEMMA StepKeeps == IInv /\ [Next]_vars => IInv'
<1> SUFFICES ASSUME IInv, [Next]_vars PROVE IInv'
  OBVIOUS
<1>0. TypeOK' /\ TypeOK
  BY TypeStep DEF IInv
<1>1. SUFFICES \A s \in Seqs : Entry(s)'
  BY <1>0 DEF IInv
<1>3. ASSUME NEW g \in Groups, NEW delay \in Delays, NEW ttl \in TTLs, NEW key \in Keys,
             Enqueue(g, delay, ttl, key)
      PROVE  \A s \in Seqs : Entry(s)'
  <2>1. CASE EnqueueDuplicate(key)
    BY <1>0, <2>1, SameKeeps, BoundsAssumption DEF EnqueueDuplicate, Same, IInv, TypeOK
  <2>2. CASE EnqueueAdmitted(g, delay, ttl, key)
    BY <2>2, StoreKeeps DEF EnqueueAdmitted
  <2>3. CASE EnqueueUnkeyed(g, delay, ttl, key)
    BY <2>3, StoreKeeps, NamesAssumption DEF EnqueueUnkeyed
  <2> QED
    BY <1>3, <2>1, <2>2, <2>3 DEF Enqueue
<1>4. CASE Expire
  BY <1>4, DropKeeps DEF Expire, ExpiredSeqs, Fates
<1>5. ASSUME NEW max \in Batches, NEW lease \in Leases, NEW accept, Receive(max, lease, accept)
      PROVE  \A s \in Seqs : Entry(s)'
  BY <1>5, DeliverKeeps DEF Receive
<1>6. ASSUME NEW s \in Seqs, NEW r, Settle(s, r) \/ DeadLetter(s, r)
      PROVE  \A t \in Seqs : Entry(t)'
  <2>1. s \in DOMAIN messages
    BY <1>6 DEF Settle, DeadLetter, Names, NamesAt
  <2> QED
    BY <1>6, <2>1, DropKeeps DEF Settle, DeadLetter, Fates
<1>7. CASE Exhausted
  BY <1>7, DropKeeps DEF Exhausted, ExhaustedSeqs, Fates
<1>8. ASSUME NEW s \in Seqs, Remove(s) PROVE \A t \in Seqs : Entry(t)'
  BY <1>8, DropKeeps DEF Remove, Fates
<1>9. CASE Purge
  BY <1>9, DropKeeps DEF Purge, Fates
<1>10. CASE Tick \/ UNCHANGED vars
  BY <1>0, <1>10, SameKeeps, BoundsAssumption DEF Tick, vars, Same, IInv, TypeOK
<1> QED
  BY <1>3, <1>4, <1>5, <1>6, <1>7, <1>8, <1>9, <1>10, ExtendKeeps, GiveBackKeeps DEF Next

\* In a new queue every entry agrees with there being no message.
LEMMA InitKeeps == Init => IInv
<1> SUFFICES ASSUME Init PROVE IInv
  OBVIOUS
<1>1. TypeOK
  BY InitType
<1>2. \A s \in Seqs : Entry(s)
  BY PolicyAssumption DEF Init, Entry, NoEntry
<1> QED
  BY <1>1, <1>2 DEF IInv

\* The inductive invariant holds in every reachable state.
THEOREM Invariance == Spec => []IInv
  BY InitKeeps, StepKeeps, PTL DEF Spec

\* No message is handed out more often than the limit allows.
THEOREM LimitHolds == Spec => []DeliveriesBounded
<1>1. IInv => DeliveriesBounded
  BY DEF IInv, Entry, DeliveriesBounded
<1> QED
  BY <1>1, Invariance, PTL

\* No message is dead-lettered before it used its deliveries up.
THEOREM DeadLettersEarned == Spec => []DeadLetterEarned
<1>1. IInv => DeadLetterEarned
  BY DEF IInv, Entry, DeadLetterEarned
<1> QED
  BY <1>1, Invariance, PTL

\* A stored message honours the last receipt handed out for it, or none.
THEOREM ReceiptsAgree == Spec => []LedgerAgrees
<1>1. IInv => LedgerAgrees
  BY DEF IInv, Entry, Counted, LedgerAgrees
<1> QED
  BY <1>1, Invariance, PTL

\* Dropping messages hands out no receipt.
LEMMA DropIssues ==
  ASSUME TypeOK, NEW S, NEW why, Drop(S, why), NEW s \in Seqs
  PROVE  ledger'[s].issued = ledger[s].issued
<1>1. ledger[s] \in LedgerEntry
  BY DEF TypeOK
<1> QED
  BY <1>1 DEF Drop, LedgerEntry

\* An available message is past the instant its last lease was promised until.
LEMMA AvailableIsPastLease ==
  ASSUME NEW s \in Seqs, IInv, s \in DOMAIN messages, Available(messages[s])
  PROVE  now >= ledger[s].leaseEnd
<1>1. /\ messages[s] \in Message /\ ledger[s] \in LedgerEntry /\ now \in Nat
      /\ Promised(s)
  BY BoundsAssumption DEF IInv, TypeOK, Entry
<1>2. /\ messages[s].availableAt \in Nat /\ messages[s].deliveries \in Nat
      /\ ledger[s].leaseEnd \in Nat
  BY <1>1 DEF Message, LedgerEntry
<1>3. CASE ~messages[s].leased
  BY <1>1, <1>2, <1>3 DEF Promised
<1>4. CASE messages[s].leased
  <2>1. Backoff(messages[s].deliveries) \in Nat
    BY <1>2, BackoffNat
  <2>2. NowMs \in Nat /\ NowMs * TicksPerMs <= now
    BY <1>1, MsNat, MsFloor DEF NowMs
  <2>3. messages[s].availableAt <= NowMs
    BY <1>2, <1>4, <2>1, <2>2 DEF Available, AvailableAt
  <2>4. messages[s].availableAt * TicksPerMs <= NowMs * TicksPerMs
    BY <1>2, <2>2, <2>3, BoundsAssumption
  <2>5. messages[s].availableAt * TicksPerMs \in Nat /\ NowMs * TicksPerMs \in Nat
    BY <1>2, <2>2, BoundsAssumption
  <2> QED
    BY <1>1, <1>2, <1>4, <2>2, <2>4, <2>5 DEF Promised
<1> QED
  BY <1>3, <1>4

\* Only Receive hands out receipts, and only of available messages.
LEMMA IssueStep ==
  ASSUME IInv, [Next]_vars, NEW s \in Seqs, ledger'[s].issued > ledger[s].issued
  PROVE  s \in DOMAIN messages /\ Available(messages[s])
<1>0. TypeOK /\ ledger[s] \in LedgerEntry /\ ledger[s].issued \in Nat
  BY DEF IInv, TypeOK, LedgerEntry
<1>1. SUFFICES \/ ledger'[s].issued = ledger[s].issued
               \/ ledger'[s].issued = 0
               \/ s \in DOMAIN messages /\ Available(messages[s])
  BY <1>0
<1>2. ASSUME NEW g \in Groups, NEW delay \in Delays, NEW ttl \in TTLs, NEW key \in Keys,
             Enqueue(g, delay, ttl, key)
      PROVE  ledger'[s].issued = ledger[s].issued \/ ledger'[s].issued = 0
  BY <1>0, <1>2 DEF Enqueue, EnqueueDuplicate, EnqueueAdmitted, EnqueueUnkeyed, Store, NoEntry, TypeOK
<1>3. ASSUME NEW max \in Batches, NEW lease \in Leases, NEW accept, Receive(max, lease, accept)
      PROVE  \/ ledger'[s].issued = ledger[s].issued
             \/ s \in DOMAIN messages /\ Available(messages[s])
  <2> DEFINE live == Keep(messages, Seqs \ ExpiredSeqs)
  <2>1. PICK taken \in SUBSET DOMAIN live :
          /\ \A t \in DOMAIN live : t \in taken <=> Takes(live, taken, max, accept, t)
          /\ Deliver(live, taken, lease)
    BY <1>3 DEF Receive
  <2>2. CASE s \in taken
    <3>1. Available(live[s])
      BY <2>1, <2>2 DEF Takes
    <3> QED
      BY <2>2, <3>1 DEF Keep
  <2>3. CASE s \notin taken
    <3>1. \/ ledger'[s] = ledger[s]
          \/ ledger'[s] = [ledger[s] EXCEPT !.fate = "expired"]
      BY <2>1, <2>3 DEF Deliver
    <3> QED
      BY <1>0, <3>1 DEF LedgerEntry
  <2> QED
    BY <2>2, <2>3
<1>4. ASSUME NEW t \in Seqs, NEW r, NEW d \in Leases, NEW at, Extend(t, r, d, at)
      PROVE  ledger'[s].issued = ledger[s].issued
  BY <1>0, <1>4 DEF Extend, TypeOK, LedgerEntry
<1>5. ASSUME NEW t \in Seqs, NEW r, Abandon(t, r) \/ Release(t, r)
      PROVE  ledger'[s].issued = ledger[s].issued
  BY <1>0, <1>5 DEF Abandon, Release, TypeOK, LedgerEntry
<1>6. ASSUME NEW t \in Seqs, NEW r, Settle(t, r) \/ DeadLetter(t, r)
      PROVE  ledger'[s].issued = ledger[s].issued
  BY <1>0, <1>6, DropIssues DEF Settle, DeadLetter
<1>7. ASSUME Expire \/ Exhausted \/ Purge \/ (\E t \in Seqs : Remove(t))
      PROVE  ledger'[s].issued = ledger[s].issued
  BY <1>0, <1>7, DropIssues DEF Expire, Exhausted, Purge, Remove
<1>8. ASSUME Tick \/ UNCHANGED vars PROVE ledger'[s].issued = ledger[s].issued
  BY <1>8 DEF Tick, vars
<1> QED
  BY <1>2, <1>3, <1>4, <1>5, <1>6, <1>7, <1>8 DEF Next

\* No message is handed to a second receiver before the instant the first
\* one's lease was promised until, for every resolution of the clock.
THEOREM LeasesExclusive == Spec => LeaseExclusive
<1>1. ASSUME IInv, [Next]_vars
      PROVE  [\A s \in Seqs : ledger'[s].issued > ledger[s].issued => now >= ledger[s].leaseEnd]_vars
  BY <1>1, IssueStep, AvailableIsPastLease
<1> QED
  BY <1>1, Invariance, PTL DEF Spec, LeaseExclusive

-----------------------------------------------------------------------------
(***************************************************************************)
(* Deduplication.  A record is dropped once it expired, so what forbids a  *)
(* second acceptance then is the age of the messages the key was used for. *)
(***************************************************************************)
Accepted == 1 .. nextSeq

Past == \A s \in Accepted : ledger[s].at <= NowMs

Apart ==
    \A s, t \in Accepted :
        (s < t /\ ledger[s].key = ledger[t].key /\ ledger[s].key # NoKey) =>
            ledger[t].at >= ledger[s].at + DedupWindow

Recorded(D) ==
    \A k \in DOMAIN D :
        /\ D[k].seq \in Accepted
        /\ ledger[D[k].seq].key = k
        /\ D[k].expiresAt = ledger[D[k].seq].at + DedupWindow
        /\ \A s \in Accepted : ledger[s].key = k => s <= D[k].seq

Unrecorded(D) ==
    \A s \in Accepted :
        (ledger[s].key # NoKey /\ ledger[s].key \notin DOMAIN D) =>
            ledger[s].at + DedupWindow <= NowMs

DInv == TypeOK /\ Past /\ Apart /\ Recorded(dedup) /\ Unrecorded(dedup)

\* The millisecond clock never goes back.
LEMMA MsMonotone == ASSUME NEW t \in Nat PROVE Ms(t) <= Ms(t + 1)
  BY BoundsAssumption DEF Ms

\* The facts about numbers the steps below share.
LEMMA DedupTypes ==
  ASSUME TypeOK
  PROVE  /\ nextSeq \in Nat /\ NowMs \in Nat /\ DedupWindow \in Nat /\ now \in Nat
         /\ \A s \in Accepted : s \in Seqs /\ ledger[s] \in LedgerEntry /\ ledger[s].at \in Nat
         /\ \A k \in DOMAIN dedup : dedup[k].expiresAt \in Nat /\ dedup[k].seq \in Accepted
<1>1. nextSeq \in Nat /\ now \in Nat
  BY BoundsAssumption DEF TypeOK
<1>2. NowMs \in Nat
  BY <1>1, MsNat DEF NowMs
<1>3. \A s \in Accepted : s \in Seqs
  BY <1>1, BoundsAssumption DEF TypeOK, Seqs, Accepted
<1>4. \A s \in Accepted : ledger[s] \in LedgerEntry /\ ledger[s].at \in Nat
  BY <1>3 DEF TypeOK, LedgerEntry
<1> QED
  BY <1>1, <1>2, <1>3, <1>4, PolicyAssumption DEF TypeOK, Accepted

\* Forgetting expired records keeps what the records say.
LEMMA LookupKeeps ==
  ASSUME DInv
  PROVE  Recorded(Lookup) /\ Unrecorded(Lookup)
<1>1. Recorded(Lookup)
  BY LookupType DEF DInv, Recorded
<1>2. ASSUME NEW s \in Accepted, ledger[s].key # NoKey, ledger[s].key \notin DOMAIN Lookup
      PROVE  ledger[s].at + DedupWindow <= NowMs
  <2>1. CASE ledger[s].key \notin DOMAIN dedup
    BY <1>2, <2>1 DEF DInv, Unrecorded
  <2>2. CASE ledger[s].key \in DOMAIN dedup
    <3> DEFINE q == dedup[ledger[s].key].seq
    <3>1. ~(dedup[ledger[s].key].expiresAt > NowMs)
      BY <1>2, <2>2, LookupType DEF DInv
    <3>2. /\ q \in Accepted /\ ledger[q].key = ledger[s].key
          /\ ledger[q].at + DedupWindow = dedup[ledger[s].key].expiresAt /\ s <= q
      BY <1>2, <2>2 DEF DInv, Recorded
    <3>3. ledger[q].at \in Nat /\ ledger[s].at \in Nat /\ NowMs \in Nat /\ DedupWindow \in Nat
      BY <1>2, <3>2, DedupTypes DEF DInv
    <3>4. ledger[q].at + DedupWindow <= NowMs
      BY <3>1, <3>2, <3>3
    <3>5. CASE s = q
      BY <3>4, <3>5
    <3>6. CASE s < q
      <4>1. ledger[q].at >= ledger[s].at + DedupWindow
        BY <1>2, <3>2, <3>6 DEF DInv, Apart
      <4> QED
        BY <3>3, <3>4, <4>1
    <3>7. s \in Nat /\ q \in Nat
      BY <1>2, <3>2, DedupTypes DEF DInv, Accepted
    <3> QED
      BY <3>2, <3>5, <3>6, <3>7
  <2> QED
    BY <2>1, <2>2
<1> QED
  BY <1>1, <1>2 DEF Unrecorded

\* What was accepted under no key, or under a key whose window has passed,
\* is a window apart from everything before it.
LEMMA AcceptKeeps ==
  ASSUME DInv, TypeOK', NEW key \in Keys, NEW g \in Groups, NEW delay \in Delays, NEW ttl \in TTLs,
         nextSeq < MaxSeq, Store(g, delay, ttl, key),
         key # NoKey => key \notin DOMAIN Lookup
  PROVE  /\ Past' /\ Apart'
         /\ ledger'[nextSeq + 1].key = key /\ ledger'[nextSeq + 1].at = NowMs
         /\ \A s \in Accepted : ledger'[s] = ledger[s]
         /\ Accepted' = Accepted \cup {nextSeq + 1} /\ NowMs' = NowMs
<1>0. /\ nextSeq \in Nat /\ NowMs \in Nat /\ DedupWindow \in Nat
      /\ \A s \in Accepted : ledger[s].at \in Nat /\ s \in Nat
  BY DedupTypes DEF DInv, Accepted
<1>1. nextSeq' = nextSeq + 1 /\ NowMs' = NowMs
  BY DEF Store, NowMs
<1>2. Accepted' = Accepted \cup {nextSeq + 1}
  BY <1>0, <1>1 DEF Accepted
<1>3. nextSeq + 1 \in Seqs
  BY <1>0, BoundsAssumption DEF Seqs
<1>4. ledger'[nextSeq + 1].key = key /\ ledger'[nextSeq + 1].at = NowMs
  BY <1>3 DEF Store, NoEntry, DInv, TypeOK
<1>5. \A s \in Accepted : ledger'[s] = ledger[s]
  BY <1>0, <1>3 DEF Store, Accepted, DInv, TypeOK
<1>6. Past'
  BY <1>0, <1>1, <1>2, <1>4, <1>5 DEF Past, DInv
<1>7. ASSUME NEW s \in Accepted', NEW t \in Accepted',
             s < t, ledger'[s].key = ledger'[t].key, ledger'[s].key # NoKey
      PROVE  ledger'[t].at >= ledger'[s].at + DedupWindow
  <2>1. CASE t \in Accepted
    <3>1. s \in Accepted
      BY <1>0, <1>2, <1>7, <2>1 DEF Accepted
    <3> QED
      BY <1>5, <1>7, <2>1, <3>1 DEF DInv, Apart
  <2>2. CASE t = nextSeq + 1
    <3>1. s \in Accepted
      BY <1>0, <1>2, <1>7, <2>2 DEF Accepted
    <3>2. ledger[s].key = key /\ key # NoKey
      BY <1>4, <1>5, <1>7, <2>2, <3>1
    <3>3. ledger[s].at + DedupWindow <= NowMs
      BY <3>1, <3>2, LookupKeeps DEF Unrecorded
    <3> QED
      BY <1>0, <1>4, <1>5, <2>2, <3>1, <3>3
  <2> QED
    BY <1>2, <2>1, <2>2
<1> QED
  BY <1>1, <1>2, <1>4, <1>5, <1>6, <1>7 DEF Apart

\* A step that accepts nothing, forgets no record and writes no key keeps
\* the invariant.
LEMMA DedupFrame ==
  ASSUME DInv, TypeOK', nextSeq' = nextSeq, dedup' = dedup, NowMs' >= NowMs,
         \A s \in Seqs : ledger'[s].key = ledger[s].key /\ ledger'[s].at = ledger[s].at
  PROVE  DInv'
<1>0. /\ NowMs \in Nat /\ DedupWindow \in Nat /\ Accepted' = Accepted
      /\ \A s \in Accepted : s \in Seqs /\ ledger[s].at \in Nat
  BY DedupTypes DEF DInv, Accepted
<1>n. NowMs' \in Nat
  BY MsNat, BoundsAssumption DEF NowMs, TypeOK
<1>1. Past'
  BY <1>0, <1>n DEF DInv, Past
<1>2. Apart'
  BY <1>0 DEF DInv, Apart
<1>3. Recorded(dedup)'
  BY <1>0 DEF DInv, Recorded
<1>4. Unrecorded(dedup)'
  BY <1>0, <1>n DEF DInv, Unrecorded
<1> QED
  BY <1>1, <1>2, <1>3, <1>4 DEF DInv

\* Enqueue keeps the invariant, whether it suppresses or accepts.
LEMMA EnqueueDedup ==
  ASSUME DInv, TypeOK', NEW g \in Groups, NEW delay \in Delays, NEW ttl \in TTLs, NEW key \in Keys,
         Enqueue(g, delay, ttl, key)
  PROVE  DInv'
<1>1. CASE EnqueueDuplicate(key)
  BY <1>1, LookupKeeps
  DEF EnqueueDuplicate, DInv, Past, Apart, Recorded, Unrecorded, Accepted, NowMs
<1>2. CASE EnqueueAdmitted(g, delay, ttl, key)
  <2>1. /\ Past' /\ Apart'
        /\ ledger'[nextSeq + 1].key = key /\ ledger'[nextSeq + 1].at = NowMs
        /\ \A s \in Accepted : ledger'[s] = ledger[s]
        /\ Accepted' = Accepted \cup {nextSeq + 1} /\ NowMs' = NowMs
    BY <1>2, AcceptKeeps DEF EnqueueAdmitted
  <2>2. /\ DOMAIN dedup' = DOMAIN Lookup \cup {key} /\ key \notin DOMAIN Lookup
        /\ dedup'[key].seq = nextSeq + 1 /\ dedup'[key].expiresAt = NowMs + DedupWindow
        /\ \A k \in DOMAIN Lookup : dedup'[k] = Lookup[k]
    BY <1>2 DEF EnqueueAdmitted
  <2>3. nextSeq \in Nat /\ \A s \in Accepted : s <= nextSeq + 1
    BY DedupTypes DEF DInv, Accepted
  <2>4. Recorded(dedup)'
    <3> SUFFICES ASSUME NEW k \in DOMAIN dedup'
                 PROVE  /\ dedup'[k].seq \in Accepted'
                        /\ ledger'[dedup'[k].seq].key = k
                        /\ dedup'[k].expiresAt = ledger'[dedup'[k].seq].at + DedupWindow
                        /\ \A s \in Accepted' : ledger'[s].key = k => s <= dedup'[k].seq
      BY DEF Recorded
    <3>1. CASE k = key
      BY <2>1, <2>2, <2>3, <3>1
    <3>2. CASE k # key
      BY <2>1, <2>2, <3>2, LookupKeeps DEF Recorded
    <3> QED
      BY <3>1, <3>2
  <2>5. Unrecorded(dedup)'
    BY <2>1, <2>2, LookupKeeps DEF Unrecorded
  <2> QED
    BY <2>1, <2>4, <2>5 DEF DInv
<1>3. CASE EnqueueUnkeyed(g, delay, ttl, key)
  <2>1. Store(g, delay, ttl, NoKey) /\ nextSeq < MaxSeq /\ dedup' = dedup
    BY <1>3 DEF EnqueueUnkeyed
  <2>2. /\ Past' /\ Apart'
        /\ ledger'[nextSeq + 1].key = NoKey
        /\ \A s \in Accepted : ledger'[s] = ledger[s]
        /\ Accepted' = Accepted \cup {nextSeq + 1} /\ NowMs' = NowMs
    BY <2>1, AcceptKeeps, NamesAssumption
  <2>3. NoKey \notin DOMAIN dedup
    BY DEF DInv, TypeOK
  <2>4. Recorded(dedup)'
    BY <2>1, <2>2, <2>3 DEF DInv, Recorded
  <2>5. Unrecorded(dedup)'
    BY <2>1, <2>2 DEF DInv, Unrecorded
  <2> QED
    BY <2>2, <2>4, <2>5 DEF DInv
<1> QED
  BY <1>1, <1>2, <1>3 DEF Enqueue

\* The step of every other operation leaves keys and acceptance times alone.
LEMMA DedupStep == DInv /\ [Next]_vars => DInv'
<1> SUFFICES ASSUME DInv, [Next]_vars PROVE DInv'
  OBVIOUS
<1>0. TypeOK /\ TypeOK' /\ NowMs \in Nat /\ now \in Nat
  BY TypeStep, DedupTypes DEF DInv
<1>l. \A s \in Seqs : ledger[s] \in LedgerEntry
  BY <1>0 DEF TypeOK
<1> DEFINE Quiet == /\ nextSeq' = nextSeq /\ dedup' = dedup /\ NowMs' >= NowMs
                    /\ \A s \in Seqs : ledger'[s].key = ledger[s].key /\ ledger'[s].at = ledger[s].at
<1>1. Quiet => DInv'
  BY <1>0, DedupFrame
<1>2. ASSUME NEW S, NEW why, Drop(S, why) PROVE Quiet
  BY <1>0, <1>l, <1>2 DEF Drop, NowMs, LedgerEntry
<1>3. ASSUME NEW max \in Batches, NEW lease \in Leases, NEW accept, Receive(max, lease, accept)
      PROVE  Quiet
  <2> DEFINE live == Keep(messages, Seqs \ ExpiredSeqs)
  <2>1. PICK taken \in SUBSET DOMAIN live : Deliver(live, taken, lease)
    BY <1>3 DEF Receive
  <2>2. now' = now /\ nextSeq' = nextSeq /\ dedup' = dedup
    BY <2>1 DEF Deliver
  <2>3. ASSUME NEW s \in Seqs
        PROVE  ledger'[s].key = ledger[s].key /\ ledger'[s].at = ledger[s].at
    <3>1. \/ ledger'[s] = ledger[s]
          \/ ledger'[s] = [ledger[s] EXCEPT !.issued = @ + 1, !.leaseEnd = now + lease]
          \/ ledger'[s] = [ledger[s] EXCEPT !.fate = "dead"]
          \/ ledger'[s] = [ledger[s] EXCEPT !.fate = "expired"]
      <4>1. CASE s \in taken /\ ~OverLimit(live[s])
        <5>1. s \notin ExpiredSeqs
          BY <4>1 DEF Keep
        <5> QED
          BY <2>1, <4>1, <5>1 DEF Deliver
      <4>2. CASE s \in taken /\ OverLimit(live[s])
        <5>1. s \notin ExpiredSeqs
          BY <4>2 DEF Keep
        <5> QED
          BY <2>1, <4>2, <5>1 DEF Deliver
      <4>3. CASE s \notin taken
        BY <2>1, <4>3 DEF Deliver
      <4> QED
        BY <4>1, <4>2, <4>3
    <3> QED
      BY <1>l, <3>1 DEF LedgerEntry
  <2> QED
    BY <1>0, <2>2, <2>3 DEF NowMs
<1>4. ASSUME NEW t \in Seqs, NEW r, NEW d \in Leases, NEW at, Extend(t, r, d, at) PROVE Quiet
  BY <1>0, <1>l, <1>4 DEF Extend, TypeOK, NowMs, LedgerEntry
<1>5. ASSUME NEW t \in Seqs, NEW r, Abandon(t, r) \/ Release(t, r) PROVE Quiet
  BY <1>0, <1>l, <1>5 DEF Abandon, Release, TypeOK, NowMs, LedgerEntry
<1>6. ASSUME NEW t \in Seqs, NEW r, Settle(t, r) \/ DeadLetter(t, r) PROVE Quiet
  BY <1>2, <1>6 DEF Settle, DeadLetter
<1>7. ASSUME Expire \/ Exhausted \/ Purge \/ (\E t \in Seqs : Remove(t)) PROVE Quiet
  BY <1>2, <1>7 DEF Expire, Exhausted, Purge, Remove
<1>8. ASSUME Tick PROVE Quiet
  BY <1>0, <1>8, MsMonotone DEF Tick, NowMs
<1>9. ASSUME UNCHANGED vars PROVE Quiet
  BY <1>0, <1>9 DEF vars, NowMs
<1> HIDE DEF Quiet
<1> QED
  BY <1>0, <1>1, <1>3, <1>4, <1>5, <1>6, <1>7, <1>8, <1>9, EnqueueDedup DEF Next

\* Two messages accepted under one key are a whole window apart, and a
\* record names the latest of them, whatever happened to the messages.
THEOREM DedupHolds == Spec => []DedupOnce
<1>1. Init => DInv
  <2> SUFFICES ASSUME Init PROVE DInv
    OBVIOUS
  <2>1. TypeOK
    BY InitType
  <2> QED
    BY <2>1 DEF Init, DInv, Past, Apart, Recorded, Unrecorded, Accepted
<1>2. DInv => DedupOnce
  BY DEF DInv, Apart, Recorded, Accepted, DedupOnce
<1> QED
  BY <1>1, <1>2, DedupStep, PTL DEF Spec

-----------------------------------------------------------------------------
(***************************************************************************)
(* The order inside a group.  The first message of a group that a Receive  *)
(* hands out was taken with everything before it in the group taken too,   *)
(* and what was taken there and not handed out is dead: so the head left   *)
(* in the queue is that first message.                                     *)
(***************************************************************************)
\* A nonempty set of natural numbers has a least member.
LEMMA NatMin ==
  ASSUME NEW T \in SUBSET Nat, T # {}
  PROVE  \E x \in T : \A y \in T : x <= y
<1>1. PICK x \in T : \A y \in T : ~(<<y, x>> \in OpToRel(<, Nat))
  BY NatLessThanWellFounded, WFMin
<1>2. \A y \in T : ~(y < x)
  BY <1>1 DEF OpToRel
<1> QED
  BY <1>2

\* A Receive that hands out a message of an ordered group hands out the head
\* it leaves of that group.
LEMMA ReceiveHead ==
  ASSUME TypeOK, Ordered, NEW live, DOMAIN live \subseteq DOMAIN messages \ ExpiredSeqs,
         \A t \in DOMAIN live : live[t] = messages[t],
         NEW taken \in SUBSET DOMAIN live, NEW max, NEW accept, NEW lease,
         \A t \in DOMAIN live : t \in taken <=> Takes(live, taken, max, accept, t),
         Deliver(live, taken, lease),
         NEW s \in DOMAIN messages', ledger'[s].issued > ledger[s].issued,
         messages'[s].group # NoGroup,
         NEW h \in DOMAIN messages', messages'[h].group = messages'[s].group,
         \A k \in Earlier(messages', h) : k >= h
  PROVE  ledger'[h].issued > ledger[h].issued
<1> DEFINE dead == {t \in taken : OverLimit(live[t])}
           T == {t \in taken \ dead : live[t].group = live[s].group}
<1>1. \A t \in DOMAIN live : t \in Seqs /\ t \in Nat /\ t \notin ExpiredSeqs /\ live[t] \in Message
  BY BoundsAssumption DEF TypeOK, Seqs
<1>2. \A t \in DOMAIN live : ledger[t] \in LedgerEntry /\ ledger[t].issued \in Nat
  BY <1>1 DEF TypeOK, LedgerEntry
<1>3. DOMAIN messages' = DOMAIN live \ dead
  BY DEF Deliver
<1>4. \A t \in DOMAIN messages' : messages'[t].group = live[t].group
  <2> TAKE t \in DOMAIN messages'
  <2>1. t \in DOMAIN live /\ live[t] \in Message
    BY <1>1, <1>3
  <2>2. \/ messages'[t] = live[t]
        \/ messages'[t] = [live[t] EXCEPT !.leased = TRUE, !.deliveries = @ + 1,
                                          !.availableAt = Deadline(now, lease),
                                          !.receipt = ledger[t].issued + 1]
    BY DEF Deliver
  <2> QED
    BY <2>1, <2>2 DEF Message
<1>5. \A t \in DOMAIN messages' \ taken : ledger'[t] = ledger[t]
  BY <1>1, <1>3 DEF Deliver
<1>6. \A t \in taken \ dead : ledger'[t].issued = ledger[t].issued + 1
  BY <1>1, <1>2 DEF Deliver, LedgerEntry
<1>7. s \in T
  <2>1. s \in taken
    <3>1. s \in DOMAIN live /\ ledger[s].issued \in Nat
      BY <1>2, <1>3
    <3>2. ledger'[s] # ledger[s]
      BY <3>1
    <3> QED
      BY <1>5, <3>2
  <2> QED
    BY <1>3, <2>1
<1>8. T \in SUBSET Nat
  BY <1>1
<1>9. PICK f \in T : \A t \in T : f <= t
  BY <1>7, <1>8, NatMin
<1>10. f \in DOMAIN messages' /\ live[h].group = live[f].group /\ h \in DOMAIN live /\ f \in DOMAIN live
  BY <1>3, <1>4
<1>11. h <= f
  <2>0. f \in Nat /\ h \in Nat
    BY <1>1, <1>10
  <2> SUFFICES ASSUME f < h PROVE FALSE
    BY <2>0
  <2>1. f \in Earlier(messages', h)
    BY <1>4, <1>10 DEF Earlier
  <2>2. f >= h
    BY <2>1
  <2> QED
    BY <2>0, <2>2
<1>h. ledger[h].issued \in Nat /\ h \in Nat /\ f \in Nat
  BY <1>1, <1>2, <1>10
<1>i. h \in taken \ dead => ledger'[h].issued > ledger[h].issued
  BY <1>6, <1>h
<1>12. CASE h = f
  BY <1>i, <1>12
<1>13. CASE h < f
  <2>1. h \in Earlier(live, f)
    BY <1>10, <1>13 DEF Earlier
  <2>2. IsOrdered(live[f])
    BY <1>3, <1>4, <1>10 DEF IsOrdered
  <2>3. Takes(live, taken, max, accept, f)
    BY <1>10
  <2>4. \/ Earlier(live, f) \subseteq taken
        \/ Earlier(live, f) \cap {k \in taken : ~OverLimit(live[k])} # {}
    BY <2>2, <2>3 DEF Takes
  <2>5. Earlier(live, f) \cap {k \in taken : ~OverLimit(live[k])} = {}
    <3> SUFFICES ASSUME NEW k \in Earlier(live, f), k \in taken, ~OverLimit(live[k]) PROVE FALSE
      OBVIOUS
    <3>1. k \in T /\ k < f
      BY <1>10 DEF Earlier
    <3>2. k \in Nat /\ f <= k
      BY <1>8, <1>9, <3>1
    <3> QED
      BY <1>h, <3>1, <3>2
  <2>6. h \in taken \ dead
    BY <1>3, <2>1, <2>4, <2>5
  <2> QED
    BY <1>i, <2>6
<1> QED
  BY <1>h, <1>11, <1>12, <1>13

\* Only a Receive raises the count of receipts of a message that is stored
\* afterwards.
LEMMA IssuedByReceive ==
  ASSUME IInv, [Next]_vars, NEW s \in DOMAIN messages', ledger'[s].issued > ledger[s].issued
  PROVE  \E max \in Batches, lease \in Leases, accept \in {Groups} \cup {{g} : g \in Groups} :
            Receive(max, lease, accept)
<1>t. TypeOK /\ TypeOK'
  BY TypeStep DEF IInv
<1>0. s \in Seqs /\ ledger[s] \in LedgerEntry /\ ledger[s].issued \in Nat
  BY <1>t, BoundsAssumption DEF TypeOK, Seqs, LedgerEntry
<1>1. SUFFICES \/ \E max \in Batches, lease \in Leases, accept \in {Groups} \cup {{g} : g \in Groups} :
                     Receive(max, lease, accept)
               \/ ledger'[s].issued = ledger[s].issued
               \/ ledger'[s].issued = 0
  BY <1>0
<1>2. ASSUME NEW g \in Groups, NEW delay \in Delays, NEW ttl \in TTLs, NEW key \in Keys,
             Enqueue(g, delay, ttl, key)
      PROVE  ledger'[s].issued = ledger[s].issued \/ ledger'[s].issued = 0
  <2>1. CASE EnqueueDuplicate(key)
    BY <2>1 DEF EnqueueDuplicate
  <2>2. ASSUME NEW k, Store(g, delay, ttl, k)
        PROVE  ledger'[s].issued = ledger[s].issued \/ ledger'[s].issued = 0
    <3> DEFINE e == [NoEntry EXCEPT !.fate = "queued", !.key = k, !.at = NowMs]
    <3>1. e.issued = 0
      BY DEF NoEntry
    <3>2. ledger' = [ledger EXCEPT ![nextSeq + 1] = e] /\ ledger \in [Seqs -> LedgerEntry]
      BY <1>t, <2>2 DEF Store, TypeOK
    <3> HIDE DEF e
    <3> QED
      BY <1>0, <3>1, <3>2
  <2> QED
    BY <1>2, <2>1, <2>2 DEF Enqueue, EnqueueAdmitted, EnqueueUnkeyed
<1>3. ASSUME NEW t \in Seqs, NEW r, NEW d \in Leases, NEW at, Extend(t, r, d, at)
      PROVE  ledger'[s].issued = ledger[s].issued
  BY <1>0, <1>t, <1>3 DEF Extend, TypeOK, LedgerEntry
<1>4. ASSUME NEW t \in Seqs, NEW r, Abandon(t, r) \/ Release(t, r)
      PROVE  ledger'[s].issued = ledger[s].issued
  BY <1>0, <1>t, <1>4 DEF Abandon, Release, TypeOK, LedgerEntry
<1>5. ASSUME NEW t \in Seqs, NEW r, Settle(t, r) \/ DeadLetter(t, r)
      PROVE  ledger'[s].issued = ledger[s].issued
  BY <1>0, <1>t, <1>5, DropIssues DEF Settle, DeadLetter
<1>6. ASSUME Expire \/ Exhausted \/ Purge \/ (\E t \in Seqs : Remove(t))
      PROVE  ledger'[s].issued = ledger[s].issued
  BY <1>0, <1>t, <1>6, DropIssues DEF Expire, Exhausted, Purge, Remove
<1>7. ASSUME Tick \/ UNCHANGED vars PROVE ledger'[s].issued = ledger[s].issued
  BY <1>7 DEF Tick, vars
<1> QED
  BY <1>2, <1>3, <1>4, <1>5, <1>6, <1>7 DEF Next

\* No message of an ordered queue overtakes the head of its group, for any
\* batch size, Accept filter and delivery limit.
THEOREM HeadFirst == Spec => GroupHeadFirst
<1> DEFINE Kept == Ordered =>
        \A s \in DOMAIN messages' :
            (/\ ledger'[s].issued > ledger[s].issued
             /\ messages'[s].group # NoGroup) =>
                \A h \in DOMAIN messages' :
                    (/\ messages'[h].group = messages'[s].group
                     /\ \A k \in Earlier(messages', h) : k >= h) =>
                        ledger'[h].issued > ledger[h].issued
<1>1. ASSUME IInv, [Next]_vars PROVE Kept
  <2> SUFFICES ASSUME Ordered, NEW s \in DOMAIN messages', ledger'[s].issued > ledger[s].issued,
                      messages'[s].group # NoGroup,
                      NEW h \in DOMAIN messages', messages'[h].group = messages'[s].group,
                      \A k \in Earlier(messages', h) : k >= h
               PROVE  ledger'[h].issued > ledger[h].issued
    OBVIOUS
  <2>1. PICK max \in Batches, lease \in Leases, accept \in {Groups} \cup {{g} : g \in Groups} :
           Receive(max, lease, accept)
    BY <1>1, IssuedByReceive
  <2> DEFINE live == Keep(messages, Seqs \ ExpiredSeqs)
  <2>2. PICK taken \in SUBSET DOMAIN live :
          /\ \A t \in DOMAIN live : t \in taken <=> Takes(live, taken, max, accept, t)
          /\ Deliver(live, taken, lease)
    BY <2>1 DEF Receive
  <2>4. /\ DOMAIN live \subseteq DOMAIN messages \ ExpiredSeqs
        /\ \A t \in DOMAIN live : live[t] = messages[t]
    BY DEF Keep
  <2>3. TypeOK
    BY <1>1 DEF IInv
  <2> HIDE DEF live
  <2> QED
    BY <2>2, <2>3, <2>4, ReceiveHead
<1>2. ASSUME IInv, [Next]_vars PROVE [Kept]_vars
  BY <1>1, <1>2
<1> QED
  BY <1>2, Invariance, PTL DEF Spec, GroupHeadFirst

-----------------------------------------------------------------------------
(* NextChange *)

\* What NextChange answers: the least instant after now that it considers,
\* and 0 only when there is none.
LEMMA NextChangeLeast ==
  ASSUME TypeOK
  PROVE  /\ NowMs \in Nat
         /\ \A s \in DOMAIN messages : messages[s].availableAt \in Nat /\ AvailableAt(messages[s]) \in Nat
         /\ NextChange \in Nat
         /\ NextChange # 0 => NextChange > NowMs /\ NextChange \in Changes
         /\ \A at \in Changes : at > NowMs => NextChange # 0 /\ NextChange <= at
<1> DEFINE later == {at \in Changes : at > NowMs}
<1>1. NowMs \in Nat
  BY MsNat, BoundsAssumption DEF TypeOK, NowMs
<1>2. \A s \in DOMAIN messages : messages[s].availableAt \in Nat /\ messages[s].deliveries \in Nat
  BY DEF TypeOK, Message
<1>3. \A s \in DOMAIN messages : AvailableAt(messages[s]) \in Nat
  BY <1>2, BackoffNat DEF AvailableAt
<1>4. Changes \in SUBSET Nat
  BY <1>2, <1>3 DEF Changes
<1>5. CASE later = {}
  <2>1. NextChange = 0
    BY <1>5 DEF NextChange
  <2> QED
    BY <1>1, <1>2, <1>3, <1>5, <2>1
<1>6. CASE later # {}
  <2>1. \E x \in later : \A y \in later : x <= y
    BY <1>4, <1>6, NatMin
  <2>2. NextChange = CHOOSE at \in later : \A b \in later : at <= b
    BY <1>6 DEF NextChange
  <2>3. NextChange \in later /\ \A b \in later : NextChange <= b
    BY <2>1, <2>2
  <2>4. NextChange \in Nat /\ NextChange > NowMs
    BY <1>4, <2>3
  <2> QED
    BY <1>1, <1>2, <1>3, <2>3, <2>4
<1> QED
  BY <1>5, <1>6

\* NextChange names the first instant at which the queue changes without
\* anyone acting, for every policy and every backoff.
THEOREM NextChangeCorrect == Spec => []NextChangeExact
<1> DEFINE Alike(m, t) ==
             /\ (m.leased /\ m.availableAt > t) <=> (m.leased /\ m.availableAt > NowMs)
             /\ (AvailableAt(m) <= t) <=> (AvailableAt(m) <= NowMs)
           last == IF NextChange = 0 THEN Ms(MaxNow) + 10 ELSE NextChange - 1
<1>1. ASSUME TypeOK PROVE NextChangeExact
  <2>0. /\ NowMs \in Nat /\ NextChange \in Nat
        /\ \A s \in DOMAIN messages : messages[s].availableAt \in Nat /\ AvailableAt(messages[s]) \in Nat
    BY <1>1, NextChangeLeast
  <2>1. \A s \in DOMAIN messages : messages[s].availableAt \in Changes /\ AvailableAt(messages[s]) \in Changes
    <3> TAKE s \in DOMAIN messages
    <3>1. messages[s].availableAt \in Changes
      BY DEF Changes
    <3>2. CASE messages[s].leased
      BY <3>1, <3>2 DEF Changes
    <3>3. CASE ~messages[s].leased
      BY <2>0, <3>1, <3>3 DEF AvailableAt
    <3> QED
      BY <3>1, <3>2, <3>3
  <2>2. ASSUME NEW s \in DOMAIN messages, NEW t \in NowMs .. last PROVE Alike(messages[s], t)
    <3>1. t \in Int /\ NowMs <= t /\ (NextChange # 0 => t < NextChange)
      BY <2>0, <2>2, MsNat, BoundsAssumption
    <3>2. \A at \in {messages[s].availableAt, AvailableAt(messages[s])} : at > t <=> at > NowMs
      <4> TAKE at \in {messages[s].availableAt, AvailableAt(messages[s])}
      <4>1. at \in Nat /\ at \in Changes
        BY <2>0, <2>1, <2>2
      <4>2. at > NowMs => NextChange # 0 /\ NextChange <= at
        BY <1>1, <4>1, NextChangeLeast
      <4> QED
        BY <2>0, <3>1, <4>1, <4>2
    <3>3. messages[s].availableAt > t <=> messages[s].availableAt > NowMs
      BY <3>2
    <3>4. AvailableAt(messages[s]) > t <=> AvailableAt(messages[s]) > NowMs
      BY <3>2
    <3> QED
      BY <2>0, <2>2, <3>1, <3>3, <3>4
  <2>3. ASSUME NextChange # 0 PROVE \E s \in DOMAIN messages : ~Alike(messages[s], NextChange)
    <3>1. NextChange > NowMs /\ NextChange \in Changes
      BY <1>1, <2>3, NextChangeLeast
    <3>2. CASE \E s \in DOMAIN messages : NextChange = AvailableAt(messages[s])
      BY <2>0, <3>1, <3>2
    <3>3. ASSUME NEW s \in DOMAIN messages, NextChange = messages[s].availableAt
          PROVE  ~Alike(messages[s], NextChange)
      <4>1. CASE messages[s].leased
        BY <2>0, <3>1, <3>3, <4>1
      <4>2. CASE ~messages[s].leased
        <5>1. AvailableAt(messages[s]) = NextChange
          BY <2>0, <3>3, <4>2 DEF AvailableAt
        <5> QED
          BY <2>0, <3>1, <5>1
      <4> QED
        BY <4>1, <4>2
    <3> QED
      BY <3>1, <3>2, <3>3 DEF Changes
  <2> QED
    BY <2>2, <2>3 DEF NextChangeExact, HeldAt
<1> QED
  BY <1>1, TypeCorrect, PTL

-----------------------------------------------------------------------------
(***************************************************************************)
(* The loop of Receive.  Its state after the messages up to n describes    *)
(* what Takes says of them, so what it took in the end satisfies Takes;    *)
(* and Takes looks at smaller numbers only, so nothing else does.          *)
(***************************************************************************)

\* The loop passes number s.
Pass(live, max, accept, st, s) ==
    IF s \in DOMAIN live THEN ReceiveStep(live, max, accept, st, s) ELSE st

\* g is a run of the loop over the numbers up to n.
IsRun(live, max, accept, g, n) ==
    g = [s \in 0 .. n |-> IF s = 0 THEN NothingTaken ELSE Pass(live, max, accept, g[s - 1], s)]

\* The loop runs to any number.
LEMMA RunExists ==
  ASSUME NEW live, NEW max, NEW accept, NEW last \in Nat
  PROVE  \E g : IsRun(live, max, accept, g, last)
<1> DEFINE T == {n \in Nat : ~\E g : IsRun(live, max, accept, g, n)}
<1> SUFFICES ASSUME T # {} PROVE FALSE
  OBVIOUS
<1>1. PICK n \in T : \A y \in T : n <= y
  BY NatMin
<1>2. CASE n = 0
  <2> DEFINE f == [s \in 0 .. 0 |-> NothingTaken]
  <2>1. IsRun(live, max, accept, f, 0)
    BY DEF IsRun
  <2> QED
    BY <1>1, <1>2, <2>1
<1>3. CASE n # 0
  <2>1. n \in Nat /\ n - 1 \in Nat /\ n - 1 \notin T
    BY <1>1, <1>3
  <2>2. PICK g : IsRun(live, max, accept, g, n - 1)
    BY <2>1
  <2> DEFINE f == [s \in 0 .. n |-> IF s < n THEN g[s] ELSE Pass(live, max, accept, g[n - 1], n)]
  <2>3. ASSUME NEW s \in 0 .. n
        PROVE  f[s] = IF s = 0 THEN NothingTaken ELSE Pass(live, max, accept, f[s - 1], s)
    <3>0. s \in Int /\ 0 <= s /\ s <= n
      BY <2>1, <2>3
    <3>1. CASE s < n
      <4>1. s \in 0 .. n - 1 /\ f[s] = g[s] /\ (s # 0 => f[s - 1] = g[s - 1])
        BY <2>1, <3>0, <3>1
      <4>2. g[s] = IF s = 0 THEN NothingTaken ELSE Pass(live, max, accept, g[s - 1], s)
        BY <2>2, <4>1 DEF IsRun
      <4> QED
        BY <4>1, <4>2
    <3>2. CASE s = n
      <4>1. f[s] = Pass(live, max, accept, g[n - 1], n) /\ f[s - 1] = g[n - 1]
        BY <1>3, <2>1, <3>2
      <4> QED
        BY <1>3, <3>2, <4>1
    <3> QED
      BY <2>1, <3>0, <3>1, <3>2
  <2>4. f = [s \in 0 .. n |-> f[s]]
    OBVIOUS
  <2> HIDE DEF f
  <2>5. IsRun(live, max, accept, f, n)
    BY <2>3, <2>4 DEF IsRun
  <2> QED
    BY <1>1, <2>5
<1> QED
  BY <1>2, <1>3

\* ReceiveLoop is where a run ends.
LEMMA LoopRuns ==
  ASSUME NEW live, NEW max, NEW accept
  PROVE  \E g : IsRun(live, max, accept, g, MaxSeq) /\ ReceiveLoop(live, max, accept) = g[MaxSeq]
<1> DEFINE g == CHOOSE passed : IsRun(live, max, accept, passed, MaxSeq)
<1>1. \E passed : IsRun(live, max, accept, passed, MaxSeq)
  BY RunExists, BoundsAssumption
<1>2. IsRun(live, max, accept, g, MaxSeq)
  BY <1>1
<1>3. ReceiveLoop(live, max, accept) = g[MaxSeq]
  BY DEF ReceiveLoop, IsRun, Pass
<1> QED
  BY <1>2, <1>3

\* What Receive works on: messages, and a batch size.
Batch(live, max) ==
    /\ DOMAIN live \subseteq Seqs /\ \A s \in DOMAIN live : live[s] \in Message
    /\ max \in Nat

\* st describes the numbers up to n as Takes does.
Describes(live, max, accept, st, n) ==
    /\ st \in [leased : SUBSET DOMAIN live, dead : SUBSET DOMAIN live,
               blocked : SUBSET Groups, picked : SUBSET Groups]
    /\ \A s \in st.leased : s <= n /\ ~OverLimit(live[s])
    /\ \A s \in st.dead : s <= n /\ OverLimit(live[s])
    /\ \A g \in Groups : g \in st.blocked <=>
          \E s \in DOMAIN live : /\ s <= n /\ s \notin st.leased \cup st.dead
                                 /\ IsOrdered(live[s]) /\ live[s].group = g
    /\ \A g \in Groups : g \in st.picked <=> \E s \in st.leased : IsOrdered(live[s]) /\ live[s].group = g
    /\ \A s \in DOMAIN live : s <= n =>
          (s \in st.leased \cup st.dead <=> Takes(live, st.leased \cup st.dead, max, accept, s))

\* Takes asks about smaller numbers only.
LEMMA TakesLocal ==
  ASSUME NEW live, NEW max, NEW accept, Batch(live, max),
         NEW A \in SUBSET DOMAIN live, NEW B \in SUBSET DOMAIN live, NEW s \in DOMAIN live,
         \A k \in DOMAIN live : k < s => (k \in A <=> k \in B)
  PROVE  Takes(live, A, max, accept, s) <=> Takes(live, B, max, accept, s)
<1> DEFINE picks(S) == {k \in S : ~OverLimit(live[k])}
<1>1. {k \in picks(A) : k < s} = {k \in picks(B) : k < s}
  OBVIOUS
<1>2. Earlier(live, s) \subseteq A <=> Earlier(live, s) \subseteq B
  BY DEF Earlier
<1>3. Earlier(live, s) \cap picks(A) # {} <=> Earlier(live, s) \cap picks(B) # {}
  BY DEF Earlier
<1> QED
  BY <1>1, <1>2, <1>3 DEF Takes

\* What an iteration decides is what Takes says.
LEMMA StaysOrTakes ==
  ASSUME NEW live, NEW max, NEW accept, Batch(live, max), NEW n \in DOMAIN live,
         NEW st, Describes(live, max, accept, st, n - 1)
  PROVE  LET m == live[n]
             group == IF IsOrdered(m) THEN {m.group} ELSE {}
             stays == \/ ~Available(m)
                      \/ Cardinality(st.leased) >= max
                      \/ (group \cap st.blocked # {} /\ group \cap st.picked = {})
                      \/ m.group \notin accept
         IN  stays <=> ~Takes(live, st.leased \cup st.dead, max, accept, n)
<1> DEFINE m == live[n]
           group == IF IsOrdered(m) THEN {m.group} ELSE {}
           took == st.leased \cup st.dead
           picks == {k \in took : ~OverLimit(live[k])}
<1>0. /\ n \in Nat /\ DOMAIN live \subseteq Nat /\ m.group \in Groups /\ max \in Nat
      /\ st.leased \subseteq DOMAIN live /\ st.dead \subseteq DOMAIN live
  BY BoundsAssumption DEF Batch, Seqs, Message, Describes
<1>1. {k \in picks : k < n} = st.leased /\ picks = st.leased
  BY <1>0 DEF Describes
<1>2. Cardinality(st.leased) \in Nat
  <2>1. IsFiniteSet(Seqs)
    BY FS_Interval, BoundsAssumption DEF Seqs
  <2>2. IsFiniteSet(st.leased)
    BY <1>0, <2>1, FS_Subset DEF Batch
  <2> QED
    BY <2>2, FS_CardinalityType
<1>3. IsOrdered(m) => (m.group \in st.blocked <=> ~(Earlier(live, n) \subseteq took))
  <2>1. \A s \in DOMAIN live : s <= n - 1 <=> s < n
    BY <1>0
  <2>2. IsOrdered(m) => \A s \in DOMAIN live : live[s].group = m.group => IsOrdered(live[s])
    BY DEF IsOrdered
  <2> QED
    BY <1>0, <2>1, <2>2 DEF Describes, Earlier
<1>4. IsOrdered(m) => (m.group \in st.picked <=> Earlier(live, n) \cap picks # {})
  <2>1. \A s \in st.leased : s < n
    BY <1>0 DEF Describes
  <2>2. IsOrdered(m) => \A s \in DOMAIN live : live[s].group = m.group => IsOrdered(live[s])
    BY DEF IsOrdered
  <2> QED
    BY <1>0, <1>1, <2>1, <2>2 DEF Describes, Earlier
<1>5. (group \cap st.blocked # {} /\ group \cap st.picked = {}) <=>
         ~(~IsOrdered(m) \/ Earlier(live, n) \subseteq took \/ Earlier(live, n) \cap picks # {})
  BY <1>3, <1>4
<1>6. Takes(live, took, max, accept, n) <=>
         /\ Available(m) /\ Cardinality(st.leased) < max /\ m.group \in accept
         /\ ~IsOrdered(m) \/ Earlier(live, n) \subseteq took \/ Earlier(live, n) \cap picks # {}
  BY <1>1 DEF Takes
<1>7. Cardinality(st.leased) >= max <=> ~(Cardinality(st.leased) < max)
  BY <1>0, <1>2
<1> HIDE DEF m, group, took, picks
<1> SUFFICES (\/ ~Available(m)
              \/ Cardinality(st.leased) >= max
              \/ (group \cap st.blocked # {} /\ group \cap st.picked = {})
              \/ m.group \notin accept) <=> ~Takes(live, took, max, accept, n)
  BY DEF m, group, took
<1> QED
  BY <1>5, <1>6, <1>7

\* An iteration that takes S, which is {} or {n}: the numbers up to n.
LEMMA TookGrows ==
  ASSUME NEW live, NEW max, NEW accept, Batch(live, max), NEW n \in DOMAIN live,
         NEW A \in SUBSET DOMAIN live, NEW B \in SUBSET DOMAIN live,
         \A k \in A : k <= n - 1, B = A \/ B = A \cup {n},
         n \in B <=> Takes(live, A, max, accept, n),
         \A s \in DOMAIN live : s <= n - 1 => (s \in A <=> Takes(live, A, max, accept, s))
  PROVE  \A s \in DOMAIN live : s <= n => (s \in B <=> Takes(live, B, max, accept, s))
<1> TAKE s \in DOMAIN live
<1> HAVE s <= n
<1>0. s \in Nat /\ n \in Nat /\ DOMAIN live \subseteq Nat
  BY BoundsAssumption DEF Batch, Seqs
<1>1. \A k \in DOMAIN live : k < s => (k \in A <=> k \in B)
  BY <1>0
<1>2. Takes(live, A, max, accept, s) <=> Takes(live, B, max, accept, s)
  BY <1>1, TakesLocal
<1>3. CASE s = n
  BY <1>2, <1>3
<1>4. CASE s # n
  <2>1. s <= n - 1 /\ (s \in A <=> s \in B)
    BY <1>0, <1>4
  <2> QED
    BY <1>2, <2>1
<1> QED
  BY <1>3, <1>4

\* Each iteration keeps the description.
LEMMA StepDescribes ==
  ASSUME NEW live, NEW max, NEW accept, Batch(live, max), NEW n \in DOMAIN live,
         NEW st, Describes(live, max, accept, st, n - 1)
  PROVE  Describes(live, max, accept, ReceiveStep(live, max, accept, st, n), n)
<1> DEFINE m == live[n]
           group == IF IsOrdered(m) THEN {m.group} ELSE {}
           stays == \/ ~Available(m)
                    \/ Cardinality(st.leased) >= max
                    \/ (group \cap st.blocked # {} /\ group \cap st.picked = {})
                    \/ m.group \notin accept
           r == ReceiveStep(live, max, accept, st, n)
           took == st.leased \cup st.dead
<1>1. stays <=> ~Takes(live, took, max, accept, n)
  BY StaysOrTakes
<1>2. r = IF stays THEN [st EXCEPT !.blocked = @ \cup group]
          ELSE IF OverLimit(m) THEN [st EXCEPT !.dead = @ \cup {n}]
          ELSE [st EXCEPT !.leased = @ \cup {n}, !.picked = @ \cup group]
  BY DEF ReceiveStep
<1>3. /\ n \in Nat /\ DOMAIN live \subseteq Nat /\ m.group \in Groups /\ group \in SUBSET Groups
      /\ \A s \in DOMAIN live : live[s].group \in Groups
      /\ \A s \in DOMAIN live : s <= n <=> s <= n - 1 \/ s = n
      /\ \A g \in Groups : g \in group <=> IsOrdered(m) /\ m.group = g
  BY BoundsAssumption DEF Batch, Seqs, Message
<1>4. /\ st \in [leased : SUBSET DOMAIN live, dead : SUBSET DOMAIN live,
                 blocked : SUBSET Groups, picked : SUBSET Groups]
      /\ took \in SUBSET DOMAIN live /\ \A k \in took : k <= n - 1
      /\ \A s \in DOMAIN live : s <= n - 1 => (s \in took <=> Takes(live, took, max, accept, s))
  BY DEF Describes
<1>5. n \notin took
  BY <1>3, <1>4
<1> HIDE DEF stays, group, r, m
<1>6. CASE stays
  <2>1. r = [st EXCEPT !.blocked = @ \cup group]
    BY <1>2, <1>6
  <2>2. r.leased = st.leased /\ r.dead = st.dead /\ r.blocked = st.blocked \cup group /\ r.picked = st.picked
    BY <1>4, <2>1
  <2>3. r \in [leased : SUBSET DOMAIN live, dead : SUBSET DOMAIN live,
               blocked : SUBSET Groups, picked : SUBSET Groups]
    BY <1>3, <1>4, <2>1
  <2>4. \A s \in DOMAIN live : s <= n => (s \in took <=> Takes(live, took, max, accept, s))
    BY <1>1, <1>4, <1>5, <1>6, TookGrows
  <2>5. \A g \in Groups : g \in r.blocked <=>
          \E s \in DOMAIN live : s <= n /\ s \notin took /\ IsOrdered(live[s]) /\ live[s].group = g
    BY <1>3, <1>5, <2>2 DEF Describes, m
  <2>6. /\ \A s \in st.leased : s <= n /\ ~OverLimit(live[s])
        /\ \A s \in st.dead : s <= n /\ OverLimit(live[s])
    BY <1>3, <1>4 DEF Describes
  <2> QED
    BY <2>2, <2>3, <2>4, <2>5, <2>6 DEF Describes, r
<1>7. CASE ~stays
  <2> DEFINE B == took \cup {n}
  <2>1. \A s \in DOMAIN live : s <= n => (s \in B <=> Takes(live, B, max, accept, s))
    BY <1>1, <1>4, <1>5, <1>7, TookGrows
  <2>2. /\ \A s \in st.leased : s <= n /\ ~OverLimit(live[s])
        /\ \A s \in st.dead : s <= n /\ OverLimit(live[s])
    BY <1>3, <1>4 DEF Describes
  <2>3. \A g \in Groups : g \in st.blocked <=>
          \E s \in DOMAIN live : s <= n /\ s \notin B /\ IsOrdered(live[s]) /\ live[s].group = g
    BY <1>3 DEF Describes
  <2>4. CASE OverLimit(m)
    <3>1. r = [st EXCEPT !.dead = @ \cup {n}]
      BY <1>2, <1>7, <2>4
    <3>2. r.leased = st.leased /\ r.dead = st.dead \cup {n} /\ r.blocked = st.blocked /\ r.picked = st.picked
      BY <1>4, <3>1
    <3>3. r \in [leased : SUBSET DOMAIN live, dead : SUBSET DOMAIN live,
                 blocked : SUBSET Groups, picked : SUBSET Groups]
      BY <1>4, <3>1
    <3>4. r.leased \cup r.dead = B
      BY <3>2
    <3>5. \A s \in r.dead : s <= n /\ OverLimit(live[s])
      BY <1>3, <2>2, <2>4, <3>2 DEF m
    <3>6. \A g \in Groups : g \in r.picked <=> \E s \in r.leased : IsOrdered(live[s]) /\ live[s].group = g
      BY <3>2 DEF Describes
    <3> HIDE DEF B
    <3> QED
      BY <2>1, <2>2, <2>3, <3>2, <3>3, <3>4, <3>5, <3>6 DEF Describes, r
  <2>5. CASE ~OverLimit(m)
    <3>1. r = [st EXCEPT !.leased = @ \cup {n}, !.picked = @ \cup group]
      BY <1>2, <1>7, <2>5
    <3>2. r.leased = st.leased \cup {n} /\ r.dead = st.dead /\ r.blocked = st.blocked /\ r.picked = st.picked \cup group
      BY <1>4, <3>1
    <3>3. r \in [leased : SUBSET DOMAIN live, dead : SUBSET DOMAIN live,
                 blocked : SUBSET Groups, picked : SUBSET Groups]
      BY <1>3, <1>4, <3>1
    <3>4. r.leased \cup r.dead = B
      BY <3>2
    <3>5. \A s \in r.leased : s <= n /\ ~OverLimit(live[s])
      BY <1>3, <2>2, <2>5, <3>2 DEF m
    <3>6. \A g \in Groups : g \in r.picked <=> \E s \in r.leased : IsOrdered(live[s]) /\ live[s].group = g
      BY <1>3, <3>2 DEF Describes, m
    <3> HIDE DEF B
    <3> QED
      BY <2>1, <2>2, <2>3, <3>2, <3>3, <3>4, <3>5, <3>6 DEF Describes, r
  <2> QED
    BY <2>4, <2>5
<1> QED
  BY <1>6, <1>7

\* A run of the loop describes each number it passed.
LEMMA RunDescribes ==
  ASSUME NEW live, NEW max, NEW accept, Batch(live, max), NEW g, IsRun(live, max, accept, g, MaxSeq)
  PROVE  \A n \in 0 .. MaxSeq : Describes(live, max, accept, g[n], n)
<1> DEFINE T == {n \in 0 .. MaxSeq : ~Describes(live, max, accept, g[n], n)}
<1> SUFFICES ASSUME T # {} PROVE FALSE
  OBVIOUS
<1>0. MaxSeq \in Nat /\ T \subseteq Nat /\ \A s \in DOMAIN live : s \in Nat /\ s >= 1
  BY BoundsAssumption DEF Batch, Seqs
<1>1. PICK n \in T : \A y \in T : n <= y
  BY <1>0, NatMin
<1>2. n \in 0 .. MaxSeq /\ ~Describes(live, max, accept, g[n], n)
  BY <1>1
<1>3. CASE n = 0
  <2>1. g[0] = NothingTaken
    BY <1>0 DEF IsRun
  <2>2. \A s \in DOMAIN live : ~(s <= 0)
    BY <1>0
  <2>3. Describes(live, max, accept, NothingTaken, 0)
    BY <2>2 DEF Describes, NothingTaken
  <2> QED
    BY <1>2, <1>3, <2>1, <2>3
<1>4. CASE n # 0
  <2>1. n - 1 \in 0 .. MaxSeq /\ n - 1 \notin T
    BY <1>0, <1>1, <1>2, <1>4
  <2>2. Describes(live, max, accept, g[n - 1], n - 1)
    BY <2>1
  <2>3. g[n] = Pass(live, max, accept, g[n - 1], n)
    BY <1>2, <1>4 DEF IsRun
  <2>4. CASE n \in DOMAIN live
    BY <1>2, <2>2, <2>3, <2>4, StepDescribes DEF Pass
  <2>5. CASE n \notin DOMAIN live
    <3>1. g[n] = g[n - 1]
      BY <2>3, <2>5 DEF Pass
    <3>2. \A s \in DOMAIN live : s <= n <=> s <= n - 1
      BY <1>0, <1>2, <2>5
    <3>3. /\ \A s \in g[n].leased : s <= n /\ ~OverLimit(live[s])
          /\ \A s \in g[n].dead : s <= n /\ OverLimit(live[s])
      BY <2>2, <3>1, <3>2 DEF Describes
    <3>4. Describes(live, max, accept, g[n], n)
      BY <2>2, <3>1, <3>2, <3>3 DEF Describes
    <3> QED
      BY <1>2, <3>4
  <2> QED
    BY <2>4, <2>5
<1> QED
  BY <1>3, <1>4

\* Takes has one answer at most.
LEMMA TakesOnce ==
  ASSUME NEW live, NEW max, NEW accept, Batch(live, max),
         NEW A \in SUBSET DOMAIN live, NEW B \in SUBSET DOMAIN live,
         \A s \in DOMAIN live : s \in A <=> Takes(live, A, max, accept, s),
         \A s \in DOMAIN live : s \in B <=> Takes(live, B, max, accept, s)
  PROVE  A = B
<1> DEFINE T == {s \in DOMAIN live : ~(s \in A <=> s \in B)}
<1> SUFFICES ASSUME T # {} PROVE FALSE
  OBVIOUS
<1>0. DOMAIN live \subseteq Nat
  BY BoundsAssumption DEF Batch, Seqs
<1>1. PICK s \in T : \A y \in T : s <= y
  BY <1>0, NatMin
<1>2. \A k \in DOMAIN live : k < s => (k \in A <=> k \in B)
  BY <1>0, <1>1
<1>3. Takes(live, A, max, accept, s) <=> Takes(live, B, max, accept, s)
  BY <1>1, <1>2, TakesLocal
<1> QED
  BY <1>1, <1>3

\* Receive is its loop: for every queue that can be reached, batch size,
\* filter, policy and bound, what the loop takes is the one set of messages
\* Takes allows, and of that it dead-letters what is over the limit.
THEOREM ReceiveIsLoop == Spec => []ReceiveMatchesLoop
<1>1. ASSUME TypeOK PROVE ReceiveMatchesLoop
  <2> DEFINE live == Keep(messages, Seqs \ ExpiredSeqs)
  <2>1. /\ DOMAIN live \subseteq Seqs /\ \A s \in DOMAIN live : live[s] \in Message
    BY <1>1 DEF Keep, TypeOK
  <2> HIDE DEF live
  <2>2. ASSUME NEW max \in Batches, NEW accept
        PROVE  LET r == ReceiveLoop(live, max, accept)
                   took == r.leased \cup r.dead
               IN  /\ took \subseteq DOMAIN live /\ r.dead = {s \in took : OverLimit(live[s])}
                   /\ \A taken \in SUBSET DOMAIN live :
                         (\A s \in DOMAIN live : s \in taken <=> Takes(live, taken, max, accept, s)) <=> taken = took
    <3> DEFINE r == ReceiveLoop(live, max, accept)
               took == r.leased \cup r.dead
    <3>1. Batch(live, max)
      BY <2>1, DurationsAssumption DEF Batch
    <3>2. Describes(live, max, accept, r, MaxSeq)
      <4>1. PICK g : IsRun(live, max, accept, g, MaxSeq) /\ ReceiveLoop(live, max, accept) = g[MaxSeq]
        BY LoopRuns
      <4> QED
        BY <3>1, <4>1, RunDescribes, BoundsAssumption
    <3> HIDE DEF r
    <3>3. took \in SUBSET DOMAIN live /\ r.dead = {s \in took : OverLimit(live[s])}
      BY <3>2 DEF Describes
    <3>4. \A s \in DOMAIN live : s \in took <=> Takes(live, took, max, accept, s)
      <4>1. \A s \in DOMAIN live : s <= MaxSeq
        BY <2>1, BoundsAssumption DEF Seqs
      <4>2. \A s \in DOMAIN live : s <= MaxSeq => (s \in took <=> Takes(live, took, max, accept, s))
        BY <3>2, Zenon DEF Describes
      <4> QED
        BY <4>1, <4>2, Zenon
    <3> HIDE DEF took
    <3>5. ASSUME NEW taken \in SUBSET DOMAIN live
          PROVE  (\A s \in DOMAIN live : s \in taken <=> Takes(live, taken, max, accept, s)) <=> taken = took
      <4>1. ASSUME \A s \in DOMAIN live : s \in taken <=> Takes(live, taken, max, accept, s)
            PROVE  taken = took
        BY <3>1, <3>3, <3>4, <4>1, TakesOnce
      <4>2. ASSUME taken = took
            PROVE  \A s \in DOMAIN live : s \in taken <=> Takes(live, taken, max, accept, s)
        BY <3>4, <4>2
      <4> QED
        BY <4>1, <4>2
    <3> SUFFICES /\ took \subseteq DOMAIN live /\ r.dead = {s \in took : OverLimit(live[s])}
                 /\ \A taken \in SUBSET DOMAIN live :
                       (\A s \in DOMAIN live : s \in taken <=> Takes(live, taken, max, accept, s)) <=> taken = took
      BY DEF took, r
    <3> QED
      BY <3>3, <3>5
  <2> QED
    BY <2>2 DEF ReceiveMatchesLoop, live
<1> QED
  BY <1>1, TypeCorrect, PTL
=============================================================================
