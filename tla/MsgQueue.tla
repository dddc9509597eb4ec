------------------------------ MODULE MsgQueue ------------------------------
(***************************************************************************)
(* The leased message queue of sim/msgq, shared by Amazon SQS queues,      *)
(* Pub/Sub subscriptions, Cloud Tasks, Service Bus entities and Queue      *)
(* Storage.  A Queue is plain data changed inside its owner's Update, so   *)
(* every operation is one atomic action.                                   *)
(*                                                                         *)
(* Queue.Messages only ever grows at its end, with the next Seq, and       *)
(* deletions keep the order: the slice is the function "messages" from the *)
(* sequence numbers present to their messages, read in increasing order.   *)
(*                                                                         *)
(* Time is counted in ticks, TicksPerMs to a millisecond, because the code *)
(* stores whole milliseconds and rounds some instants up and others down.  *)
(* "ledger" is history: what happened to each accepted message.            *)
(***************************************************************************)
EXTENDS Integers, FiniteSets

CONSTANTS
    Groups, NoGroup,        \* ordering groups; NoGroup is the empty string
    Keys, NoKey,            \* deduplication keys; NoKey is the empty string
    Delays, TTLs, Leases,   \* durations clients ask for, in ticks
    Batches,                \* values of ReceiveOpts.Max
    MaxDeliveries,          \* Policy.MaxDeliveries, 0 for no limit
    Retention,              \* Policy.Retention in ms, 0 for none
    DedupWindow,            \* Policy.DedupWindow in ms
    Ordered,                \* Policy.Ordered
    ReceiptOutlivesLease,   \* Policy.ReceiptOutlivesLease
    BackoffTable, BackoffCap, \* Policy.Backoff in ms by deliveries, constant past the cap
    TicksPerMs,             \* resolution of the clock below a millisecond
    MaxSeq,                 \* bound: messages accepted
    MaxReceipts,            \* bound: receipts handed out for one message
    MaxNow                  \* bound: the clock, in ticks

ASSUME DurationsAssumption ==
    /\ Delays \subseteq Nat /\ TTLs \subseteq Nat /\ Leases \subseteq Nat
    /\ Batches \subseteq Nat
ASSUME PolicyAssumption ==
    /\ MaxDeliveries \in Nat /\ Retention \in Nat /\ DedupWindow \in Nat
    /\ Ordered \in BOOLEAN /\ ReceiptOutlivesLease \in BOOLEAN
ASSUME BackoffAssumption == BackoffCap \in Nat /\ BackoffTable \in [0 .. BackoffCap -> Nat]
ASSUME BoundsAssumption ==
    TicksPerMs \in Nat \ {0} /\ MaxSeq \in Nat /\ MaxReceipts \in Nat /\ MaxNow \in Nat
ASSUME NamesAssumption == NoGroup \in Groups /\ NoKey \in Keys

VARIABLES
    now,        \* the clock, in ticks
    messages,   \* Queue.Messages
    dedup,      \* Queue.Dedup
    nextSeq,    \* Queue.NextSeq
    ledger      \* history of each accepted message

vars == <<now, messages, dedup, nextSeq, ledger>>

Seqs == 1 .. MaxSeq

Fates == {"none", "queued", "settled", "forwarded", "dead", "expired", "dropped"}

Message == [ enqueuedAt : Nat, availableAt : Nat, delayedUntil : Nat,
             expiresAt : Nat, leased : BOOLEAN, receipt : Nat,
             deliveries : Nat, group : Groups ]

\* issued counts the receipts handed out for a message, givenBack the ones
\* Release took back; leaseEnd is the instant, in ticks, until which the
\* latest receipt was promised; at is the millisecond of its acceptance.
LedgerEntry == [ issued : Nat, givenBack : Nat, leaseEnd : Nat,
                 fate : Fates, key : Keys, at : Nat ]

TypeOK ==
    /\ now \in 0 .. MaxNow
    /\ nextSeq \in 0 .. MaxSeq
    /\ DOMAIN messages \subseteq 1 .. nextSeq
    /\ \A s \in DOMAIN messages : messages[s] \in Message
    /\ DOMAIN dedup \subseteq Keys \ {NoKey}
    /\ \A k \in DOMAIN dedup :
          dedup[k] \in [seq : 1 .. nextSeq, expiresAt : Nat]
    /\ ledger \in [Seqs -> LedgerEntry]

-----------------------------------------------------------------------------
(***************************************************************************)
(* Time                                                                    *)
(***************************************************************************)
Ms(t) == t \div TicksPerMs

NowMs == Ms(now)

FloorDeadline(t, d) == Ms(t + d)     \* mutant: rounds down

\* The first whole millisecond at or after t plus d.
Deadline(t, d) == IF d <= 0 THEN Ms(t) ELSE (t + d + TicksPerMs - 1) \div TicksPerMs

HeldAt(m, t) == m.leased /\ m.availableAt > t

Held(m) == HeldAt(m, NowMs)

Delayed(m) == m.delayedUntil > NowMs /\ m.deliveries = 0

Backoff(d) == BackoffTable[IF d > BackoffCap THEN BackoffCap ELSE d]

AvailableAt(m) == m.availableAt + (IF m.leased THEN Backoff(m.deliveries) ELSE 0)

Available(m) == AvailableAt(m) <= NowMs

IsExpired(m) ==
    \/ Retention > 0 /\ NowMs - m.enqueuedAt >= Retention
    \/ m.expiresAt > 0 /\ m.expiresAt <= NowMs

-----------------------------------------------------------------------------
(***************************************************************************)
(* Operations                                                              *)
(***************************************************************************)
NoEntry == [ issued |-> 0, givenBack |-> 0, leaseEnd |-> 0,
             fate |-> "none", key |-> NoKey, at |-> 0 ]

Init ==
    /\ now = 0
    /\ messages = [s \in {} |-> NoEntry]
    /\ dedup = [k \in {} |-> 0]
    /\ nextSeq = 0
    /\ ledger = [s \in Seqs |-> NoEntry]

Keep(f, S) == [x \in (DOMAIN f) \cap S |-> f[x]]

\* messages without the ones in S, and the ledger saying why they left.
Drop(S, why) ==
    /\ messages' = Keep(messages, Seqs \ S)
    /\ ledger' = [s \in Seqs |->
                    IF s \in S THEN [ledger[s] EXCEPT !.fate = why] ELSE ledger[s]]
    /\ UNCHANGED <<now, dedup, nextSeq>>

\* mutant: forgets records a millisecond early
LookupEarly == Keep(dedup, {k \in DOMAIN dedup : dedup[k].expiresAt > NowMs + 1})

\* Dedup.Lookup drops the records expired at now.
Lookup == Keep(dedup, {k \in DOMAIN dedup : dedup[k].expiresAt > NowMs})

Store(g, delay, ttl, key) ==
    /\ nextSeq' = nextSeq + 1
    /\ messages' = [s \in DOMAIN messages \cup {nextSeq + 1} |->
          IF s \in DOMAIN messages THEN messages[s]
          ELSE [ enqueuedAt |-> NowMs, availableAt |-> Deadline(now, delay),
                 delayedUntil |-> IF delay > 0 THEN Deadline(now, delay) ELSE 0,
                 expiresAt |-> IF ttl > 0 THEN Deadline(now, ttl) ELSE 0,
                 leased |-> FALSE, receipt |-> 0, deliveries |-> 0, group |-> g ]]
    /\ ledger' = [ledger EXCEPT ![nextSeq + 1] =
          [NoEntry EXCEPT !.fate = "queued", !.key = key, !.at = NowMs]]
    /\ UNCHANGED now

\* A resend inside the window stores nothing.
EnqueueDuplicate(key) ==
    /\ key # NoKey /\ DedupWindow > 0 /\ key \in DOMAIN Lookup
    /\ dedup' = Lookup
    /\ UNCHANGED <<now, messages, nextSeq, ledger>>

EnqueueAdmitted(g, delay, ttl, key) ==
    /\ nextSeq < MaxSeq
    /\ key # NoKey /\ DedupWindow > 0 /\ key \notin DOMAIN Lookup
    /\ dedup' = [k \in DOMAIN Lookup \cup {key} |->
          IF k = key THEN [seq |-> nextSeq + 1, expiresAt |-> NowMs + DedupWindow]
          ELSE Lookup[k]]
    /\ Store(g, delay, ttl, key)

EnqueueUnkeyed(g, delay, ttl, key) ==
    /\ nextSeq < MaxSeq
    /\ key = NoKey \/ DedupWindow = 0
    /\ Store(g, delay, ttl, NoKey)
    /\ UNCHANGED dedup

Enqueue(g, delay, ttl, key) ==
    \/ EnqueueDuplicate(key)
    \/ EnqueueAdmitted(g, delay, ttl, key)
    \/ EnqueueUnkeyed(g, delay, ttl, key)

ExpiredSeqs == {s \in DOMAIN messages : IsExpired(messages[s])}

Expire ==
    /\ ExpiredSeqs # {}
    /\ Drop(ExpiredSeqs, "expired")

OverLimitLate(m) == MaxDeliveries > 0 /\ m.deliveries > MaxDeliveries \* mutant

\* Delivering m once more would exceed the limit.
OverLimit(m) == MaxDeliveries > 0 /\ m.deliveries + 1 > MaxDeliveries

IsOrdered(m) == Ordered /\ m.group # NoGroup

\* The messages before s of its group.
Earlier(live, s) == {k \in DOMAIN live : k < s /\ live[k].group = live[s].group}

\* mutant: ignores a skipped message of the group
UnblockedTakes(live, taken, max, accept, s) ==
    LET picks == {k \in taken : ~OverLimit(live[k])} IN
    /\ Available(live[s])
    /\ Cardinality({k \in picks : k < s}) < max
    /\ live[s].group \in accept

\* The loop of Receive reaches s having taken the members of "taken" below
\* it.  It takes s too when s is available, the batch has room, Accept lets
\* it through, and its group is not blocked (an earlier message stayed) or
\* was already picked from in this call.
Takes(live, taken, max, accept, s) ==
    LET picks == {k \in taken : ~OverLimit(live[k])} IN
    /\ Available(live[s])
    /\ Cardinality({k \in picks : k < s}) < max
    /\ live[s].group \in accept
    /\ \/ ~IsOrdered(live[s])
       \/ Earlier(live, s) \subseteq taken
       \/ Earlier(live, s) \cap picks # {}

\* The effect of Receive once it took "taken" of the unexpired messages.
Deliver(live, taken, lease) ==
    LET dead == {s \in taken : OverLimit(live[s])}
        leased == taken \ dead
    IN
    /\ messages' = [s \in DOMAIN live \ dead |->
          IF s \in leased
          THEN [live[s] EXCEPT !.leased = TRUE, !.deliveries = @ + 1,
                               !.availableAt = Deadline(now, lease),
                               !.receipt = ledger[s].issued + 1]
          ELSE live[s]]
    /\ ledger' = [s \in Seqs |->
          CASE s \in leased -> [ledger[s] EXCEPT !.issued = @ + 1,
                                                 !.leaseEnd = now + lease]
            [] s \in dead -> [ledger[s] EXCEPT !.fate = "dead"]
            [] s \in ExpiredSeqs -> [ledger[s] EXCEPT !.fate = "expired"]
            [] OTHER -> ledger[s]]
    /\ UNCHANGED <<now, dedup, nextSeq>>

Receive(max, lease, accept) ==
    LET live == Keep(messages, Seqs \ ExpiredSeqs) IN
    \E taken \in SUBSET DOMAIN live :
        /\ \A s \in DOMAIN live : s \in taken <=> Takes(live, taken, max, accept, s)
        /\ \A s \in taken : OverLimit(live[s]) \/ ledger[s].issued < MaxReceipts
        /\ Deliver(live, taken, lease)

\* index finds message s for receipt r, at millisecond t.
NamesAt(s, r, t) ==
    /\ s \in DOMAIN messages
    /\ r # 0 /\ messages[s].receipt = r
    /\ ReceiptOutlivesLease \/ HeldAt(messages[s], t)

Names(s, r) == NamesAt(s, r, NowMs)

\* Extend moves a lease that was live when its caller read the clock, at
\* "at": before the Update, in which another caller may have come first.
Extend(s, r, d, at) ==
    /\ NamesAt(s, r, Ms(at))
    /\ HeldAt(messages[s], Ms(at))
    /\ messages' = [messages EXCEPT ![s].availableAt = Deadline(at, d)]
    /\ ledger' = [ledger EXCEPT ![s].leaseEnd = at + d]
    /\ UNCHANGED <<now, dedup, nextSeq>>

Settle(s, r) == Names(s, r) /\ Drop({s}, "settled")

DeadLetter(s, r) == Names(s, r) /\ Drop({s}, "forwarded")

\* mutant: leaves the receipt naming the message
AbandonKeepsReceipt(s, r) ==
    /\ Names(s, r)
    /\ messages' = [messages EXCEPT ![s].leased = FALSE, ![s].availableAt = NowMs]
    /\ ledger' = [ledger EXCEPT ![s].leaseEnd = 0]
    /\ UNCHANGED <<now, dedup, nextSeq>>

Abandon(s, r) ==
    /\ Names(s, r)
    /\ messages' = [messages EXCEPT ![s] =
          [@ EXCEPT !.leased = FALSE, !.receipt = 0,
                    !.availableAt = Deadline(now, Backoff(messages[s].deliveries) * TicksPerMs)]]
    /\ ledger' = [ledger EXCEPT ![s].leaseEnd = 0]
    /\ UNCHANGED <<now, dedup, nextSeq>>

\* Release does not count the delivery.
Release(s, r) ==
    LET counted == messages[s].deliveries IN
    /\ Names(s, r)
    /\ messages' = [messages EXCEPT ![s] =
          [@ EXCEPT !.leased = FALSE, !.receipt = 0, !.availableAt = NowMs,
                    !.deliveries = IF counted > 0 THEN counted - 1 ELSE 0]]
    /\ ledger' = [ledger EXCEPT ![s].leaseEnd = 0, ![s].givenBack = @ + 1]
    /\ UNCHANGED <<now, dedup, nextSeq>>

\* mutant: one delivery early
ExhaustedEarly ==
    {s \in DOMAIN messages :
        messages[s].deliveries + 1 >= MaxDeliveries /\ Available(messages[s])}

ExhaustedSeqs ==
    {s \in DOMAIN messages :
        messages[s].deliveries >= MaxDeliveries /\ Available(messages[s])}

Exhausted ==
    /\ MaxDeliveries > 0
    /\ ExhaustedSeqs # {}
    /\ Drop(ExhaustedSeqs, "dead")

\* Remove with the predicate the services pass: a scheduled message is
\* cancelled only while it is still delayed.
Remove(s) ==
    /\ s \in DOMAIN messages
    /\ Delayed(messages[s])
    /\ Drop({s}, "dropped")

Purge ==
    /\ messages # [s \in {} |-> NoEntry]
    /\ Drop(DOMAIN messages, "dropped")

Tick == now < MaxNow /\ now' = now + 1 /\ UNCHANGED <<messages, dedup, nextSeq, ledger>>

-----------------------------------------------------------------------------
(***************************************************************************)
(* Readers                                                                 *)
(***************************************************************************)

\* mutant: forgets the backoff that follows a lapsed lease
ChangesNoBackoff == {messages[s].availableAt : s \in DOMAIN messages}

\* The instants NextChange considers.
Changes ==
    {messages[s].availableAt : s \in DOMAIN messages}
    \cup {AvailableAt(messages[s]) : s \in {t \in DOMAIN messages : messages[t].leased}}

\* The earliest of them after now; 0 when nothing will change on its own.
NextChange ==
    LET later == {at \in Changes : at > NowMs}
    IN  IF later = {} THEN 0 ELSE CHOOSE at \in later : \A b \in later : at <= b

-----------------------------------------------------------------------------
(***************************************************************************)
(* The loop of Queue.Receive as the code runs it, against which Takes is   *)
(* checked.                                                                *)
(***************************************************************************)
NothingTaken == [leased |-> {}, dead |-> {}, blocked |-> {}, picked |-> {}]

\* One iteration, on message s.
ReceiveStep(live, max, accept, st, s) ==
    LET m == live[s]
        group == IF IsOrdered(m) THEN {m.group} ELSE {}
        stays == \/ ~Available(m)
                 \/ Cardinality(st.leased) >= max
                 \/ (group \cap st.blocked # {} /\ group \cap st.picked = {})
                 \/ m.group \notin accept
    IN  IF stays THEN [st EXCEPT !.blocked = @ \cup group]
        ELSE IF OverLimit(m) THEN [st EXCEPT !.dead = @ \cup {s}]
        ELSE [st EXCEPT !.leased = @ \cup {s}, !.picked = @ \cup group]

\* passed[s] is where the loop stands once it has passed the messages up to s.
ReceiveLoop(live, max, accept) ==
    LET passed[s \in 0 .. MaxSeq] ==
            IF s = 0 THEN NothingTaken
            ELSE IF s \in DOMAIN live THEN ReceiveStep(live, max, accept, passed[s - 1], s)
            ELSE passed[s - 1]
    IN  passed[MaxSeq]

-----------------------------------------------------------------------------
\* A client may present any receipt it was ever handed.
Handed(s) == 1 .. ledger[s].issued

Next ==
    \/ \E g \in Groups, delay \in Delays, ttl \in TTLs, key \in Keys :
          Enqueue(g, delay, ttl, key)
    \/ Expire
    \/ \E max \in Batches, lease \in Leases, accept \in {Groups} \cup {{g} : g \in Groups} :
          Receive(max, lease, accept)
    \/ \E s \in Seqs : \E r \in Handed(s) :
          \/ \E d \in Leases, at \in 0 .. now : Extend(s, r, d, at)
          \/ Settle(s, r)
          \/ DeadLetter(s, r)
          \/ Abandon(s, r)
          \/ Release(s, r)
    \/ Exhausted
    \/ \E s \in Seqs : Remove(s)
    \/ Purge
    \/ Tick

Spec == Init /\ [][Next]_vars

-----------------------------------------------------------------------------
(***************************************************************************)
(* Properties                                                              *)
(***************************************************************************)

\* However receives, extensions, give-backs and lapses interleave, a message
\* is handed out at most MaxDeliveries times, not counting the deliveries
\* Release took back (Receive's dead-letter branch, msgq.go:271).
DeliveriesBounded ==
    MaxDeliveries > 0 =>
        \A s \in Seqs : ledger[s].issued - ledger[s].givenBack <= MaxDeliveries

\* A message is dead-lettered by Receive or Exhausted only after it really
\* was delivered, and not given back, MaxDeliveries times.
DeadLetterEarned ==
    \A s \in Seqs : ledger[s].fate = "dead" =>
        ledger[s].issued - ledger[s].givenBack >= MaxDeliveries

\* Receive never hands a message to a second receiver before the instant the
\* first receiver's lease was promised until, to the tick: the stored
\* deadline is in whole milliseconds and must not round the lease short.
LeaseExclusive ==
    [][\A s \in Seqs : ledger'[s].issued > ledger[s].issued => now >= ledger[s].leaseEnd]_vars

\* In an ordered queue, a Receive that hands out a message of a group hands
\* out, in the same call, the earliest message of that group it left in the
\* queue: no message overtakes the head of its group.
GroupHeadFirst ==
    [][Ordered =>
        \A s \in DOMAIN messages' :
            (/\ ledger'[s].issued > ledger[s].issued
             /\ messages'[s].group # NoGroup) =>
                \A h \in DOMAIN messages' :
                    (/\ messages'[h].group = messages'[s].group
                     /\ \A k \in Earlier(messages', h) : k >= h) =>
                        ledger'[h].issued > ledger[h].issued]_vars

\* Two messages accepted under one deduplication key are a whole window
\* apart, also when the first was settled, expired or purged in between, and
\* a duplicate is answered with the identity of the latest accepted one.
DedupOnce ==
    /\ \A s, t \in 1 .. nextSeq :
          (s < t /\ ledger[s].key = ledger[t].key /\ ledger[s].key # NoKey) =>
              ledger[t].at >= ledger[s].at + DedupWindow
    /\ \A k \in DOMAIN dedup :
          /\ ledger[dedup[k].seq].key = k
          /\ \A s \in 1 .. nextSeq : ledger[s].key = k => s <= dedup[k].seq

\* NextChange names the first instant at which the queue changes without
\* anyone acting: no delay, lease or backoff ends before it, and one ends
\* then, so a receiver that sleeps until then misses nothing.
NextChangeExact ==
    LET AvailableBy(m, t) == AvailableAt(m) <= t
        Same(m, t) == /\ HeldAt(m, t) <=> HeldAt(m, NowMs)
                      /\ AvailableBy(m, t) <=> AvailableBy(m, NowMs)
        horizon == Ms(MaxNow) + 10
    IN  /\ \A s \in DOMAIN messages :
              \A t \in NowMs .. (IF NextChange = 0 THEN horizon ELSE NextChange - 1) :
                  Same(messages[s], t)
        /\ NextChange # 0 => \E s \in DOMAIN messages : ~Same(messages[s], NextChange)

\* The ledger's live messages are exactly the stored ones, and a receipt a
\* stored message honours is the last one handed out for it.
LedgerAgrees ==
    \A s \in Seqs :
        /\ s \in DOMAIN messages <=> ledger[s].fate = "queued"
        /\ s \in DOMAIN messages =>
              /\ messages[s].deliveries = ledger[s].issued - ledger[s].givenBack
              /\ messages[s].leased => messages[s].receipt = ledger[s].issued
              /\ ~messages[s].leased => messages[s].receipt = 0

\* In every reachable queue, for every batch size and filter, the loop of
\* Receive ends with exactly one answer to Takes' question: what it took
\* satisfies Takes, and nothing else does.  It dead-letters of that what is
\* over the limit.
ReceiveMatchesLoop ==
    LET live == Keep(messages, Seqs \ ExpiredSeqs) IN
    \A max \in Batches, accept \in {Groups} \cup {{g} : g \in Groups} :
        LET r == ReceiveLoop(live, max, accept)
            took == r.leased \cup r.dead
        IN
        /\ took \subseteq DOMAIN live /\ r.dead = {s \in took : OverLimit(live[s])}
        /\ \A taken \in SUBSET DOMAIN live :
              (\A s \in DOMAIN live : s \in taken <=> Takes(live, taken, max, accept, s)) <=> taken = took
=============================================================================
