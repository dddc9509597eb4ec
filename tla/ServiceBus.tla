------------------------------ MODULE ServiceBus ------------------------------
(***************************************************************************)
(* A Service Bus entity of the Azure simulator: a msgq Queue, the Waiter   *)
(* that wakes its receivers, and the three ways a message reaches one.  A  *)
(* REST receiver long-polls (Waiter.Poll); an AMQP link with credit is     *)
(* handed messages when something made them receivable; and a timer at the *)
(* queue's next change (Waiter.Arm) signals the pollers and hands messages *)
(* to the link once a delay or a lock ends.                                *)
(*                                                                         *)
(* Every queue operation is one atomic Update of the stored entity, but    *)
(* what follows it (Arm, Signal, the hand-off) runs later on the caller's  *)
(* goroutine: "job" holds the steps each goroutine has left.  Arm reads    *)
(* the next change before it takes the Waiter's lock, so it is two steps.  *)
(*                                                                         *)
(* A receiver holds the channel of its latest Changed call.  The channels  *)
(* of one key are shared and an Announce closes the current one, so all    *)
(* that matters is whether an Announce came after the receiver took it.    *)
(***************************************************************************)
EXTENDS MsgQueue, Sequences

CONSTANTS
    Receivers,      \* REST receivers
    Procs,          \* goroutines that serve requests, timers and hand-offs
    Locks,          \* values of the entity's lockDuration, in ticks
    Timeouts,       \* timeouts of REST receives, in ticks
    MaxCredit,      \* bound: credit of the AMQP link
    MaxHands,       \* bound: hand-offs waiting to run
    MaxRenewals,    \* bound: renewals under way that may succeed
    MaxRestarts     \* bound: restarts of the simulator

\* The queue operations an entity performs are among those of MsgQueue.
ASSUME ServiceBusAssumption ==
    /\ Locks \subseteq Leases /\ {1} \cup 1 .. MaxCredit \subseteq Batches
    /\ Timeouts \subseteq Nat
    /\ MaxCredit \in Nat /\ MaxHands \in Nat /\ MaxRenewals \in Nat /\ MaxRestarts \in Nat

\* An entity's policy sets neither Ordered nor Backoff.
ASSUME EntityPolicyAssumption == ~Ordered /\ \A d \in 0 .. BackoffCap : BackoffTable[d] = 0

VARIABLES
    rx,         \* each REST receive: where its Poll loop is and what it holds
    job,        \* the steps each goroutine has left after its queue Update
    armAt,      \* the next change a goroutine inside Arm read
    due,        \* Waiter.due: the armed timer's instant in ms, 0 for none
    hands,      \* goroutines about to hand messages to the AMQP link
    credit,     \* the AMQP link's credit
    restarts,
    lock,       \* the entity's lockDuration
    renewals,   \* renewals that read lockDuration and the clock, before their Update
    cut         \* history: messages a renewal left to end unseen (see Hidden)

entityVars == <<lock, renewals, cut>>
waiterVars == <<rx, job, armAt, due, hands, credit, restarts, entityVars>>
sbVars == <<vars, waiterVars>>

\* A REST receive arms the timer on its own goroutine.
Goroutines == Procs \cup Receivers

NotPolling == [pc |-> "idle", closed |-> FALSE, deadline |-> 0, wake |-> 0,
               readAt |-> 0, overlooked |-> {}]

SBTypeOK ==
    /\ TypeOK
    /\ rx \in [Receivers -> [pc : {"idle", "taken", "missed", "asleep"},
                             closed : BOOLEAN, deadline : Nat, wake : Nat,
                             readAt : Nat, overlooked : SUBSET Seqs]]
    /\ job \in [Goroutines -> Seq({"arm", "set", "signal", "hand"})]
    /\ armAt \in [Goroutines -> Nat]
    /\ due \in Nat
    /\ hands \in 0 .. MaxHands
    /\ credit \in 0 .. MaxCredit
    /\ restarts \in 0 .. MaxRestarts
    /\ lock \in Locks
    /\ renewals \subseteq [seq : Seqs, receipt : Nat, lock : Locks, at : 0 .. now]
    /\ cut \subseteq Seqs

SBInit ==
    /\ Init
    /\ rx = [r \in Receivers |-> NotPolling]
    /\ job = [p \in Goroutines |-> <<>>]
    /\ armAt = [p \in Goroutines |-> 0]
    /\ due = 0 /\ hands = 0 /\ credit = 0 /\ restarts = 0
    /\ lock \in Locks /\ renewals = {} /\ cut = {}

-----------------------------------------------------------------------------
(* The operations of clients; the steps each leaves to its goroutine. *)

\* Goroutine p is free and goes on with "steps".
Leaves(p, steps) == job[p] = <<>> /\ job' = [job EXCEPT ![p] = steps]

\* sbEnqueue: a message with a delay arms the timer before the signal.
EnqueueSteps(delay) == (IF delay > 0 THEN <<"arm">> ELSE <<>>) \o <<"signal">>

\* sbEnqueue, and what its caller does after it.
Accept(p, delay, ttl, after) ==
    /\ EnqueueUnkeyed(NoGroup, delay, ttl, NoKey)
    /\ Leaves(p, EnqueueSteps(delay) \o after)
    /\ UNCHANGED <<rx, armAt, due, hands, credit, restarts, entityVars>>

\* A send, over REST or AMQP, hands the entity's messages on.
Send(p, delay, ttl) == Accept(p, delay, ttl, <<"hand">>)

\* schedule-message does not.
Schedule(p, delay, ttl) == Accept(p, delay, ttl, <<>>)

CancelScheduled(s) == Remove(s) /\ UNCHANGED waiterVars

\* sbSettle with sbComplete or sbDeadLetterIt: nobody waits for a message
\* that leaves the entity.
SettleGone(s, r) == (Settle(s, r) \/ DeadLetter(s, r)) /\ UNCHANGED waiterVars

\* sbSettle with sbAbandon or sbRelease: sbNotifyReceivers.
SettleBack(p, s, r) ==
    /\ Abandon(s, r) \/ Release(s, r)
    /\ Leaves(p, <<"signal", "hand">>)
    /\ UNCHANGED <<rx, armAt, due, hands, credit, restarts, entityVars>>

\* The AMQP client grants credit, more or less than before, and the link is
\* served; a drain takes back what is left, as a grant of none does.
Flow(n) ==
    /\ credit' = n
    /\ hands < MaxHands /\ hands' = hands + 1
    /\ UNCHANGED <<vars, rx, job, armAt, due, restarts, entityVars>>

\* The entity is put again with another lockDuration.
SetLock(d) ==
    /\ d # lock /\ lock' = d
    /\ UNCHANGED <<vars, rx, job, armAt, due, hands, credit, restarts, renewals, cut>>

-----------------------------------------------------------------------------
(* sbRenewLock: it reads lockDuration and the clock before its Update, and   *)
(* neither arms the timer nor signals.                                       *)

\* The renewal w names the message's current lock, so it may yet succeed.
Current(w) == w.seq \in DOMAIN messages /\ messages[w.seq].receipt = w.receipt

\* A renewal with a receipt that names no message changes nothing.
RenewRead(s, r) ==
    /\ s \in DOMAIN messages /\ messages[s].receipt = r
    /\ Cardinality({w \in renewals : Current(w)}) < MaxRenewals
    /\ renewals' = renewals \cup {[seq |-> s, receipt |-> r, lock |-> lock, at |-> now]}
    /\ UNCHANGED <<vars, rx, job, armAt, due, hands, credit, restarts, lock, cut>>

\* The renewal moves the end of message s to an earlier instant.
Shortens(s, end) == end < messages[s].availableAt

\* The timer armed at the old end may miss the new one: it is earlier, or the
\* lock had already ended and its timer may be gone.
Hidden(s, end) == Shortens(s, end) \/ messages[s].availableAt <= NowMs

\* Receivers that wait when the renewal shortens the lock of s: history for
\* NoSleepThrough.
Unaware(s) ==
    [r \in Receivers |-> IF rx[r].pc \in {"missed", "asleep"}
                         THEN [rx[r] EXCEPT !.overlooked = @ \cup {s}] ELSE rx[r]]

RenewLock(w) ==
    LET end == Deadline(w.at, w.lock) IN
    /\ Extend(w.seq, w.receipt, w.lock, w.at)
    /\ renewals' = renewals \ {w}
    /\ cut' = IF Hidden(w.seq, end) THEN cut \cup {w.seq} ELSE cut
    /\ rx' = IF Shortens(w.seq, end) THEN Unaware(w.seq) ELSE rx
    /\ UNCHANGED <<job, armAt, due, hands, credit, restarts, lock>>

\* errSBLockLost
RenewLost(w) ==
    /\ ~(NamesAt(w.seq, w.receipt, Ms(w.at)) /\ HeldAt(messages[w.seq], Ms(w.at)))
    /\ renewals' = renewals \ {w}
    /\ UNCHANGED <<vars, rx, job, armAt, due, hands, credit, restarts, lock, cut>>

-----------------------------------------------------------------------------
(* sbReceive *)

Leased == {s \in Seqs : ledger'[s].issued > ledger[s].issued}

\* Peek-lock receive of up to max messages by goroutine p, which arms the
\* timer at the end of the locks it took.
ReceiveLocked(p, max) ==
    /\ Receive(max, lock, Groups)
    /\ IF Leased # {} THEN Leaves(p, <<"arm">>) ELSE UNCHANGED job

\* deliverAvailableMessages on the AMQP link.
HandOver(p) ==
    /\ hands > 0 /\ hands' = hands - 1
    /\ IF credit = 0
       THEN UNCHANGED <<vars, job, credit>>
       ELSE ReceiveLocked(p, credit) /\ credit' = credit - Cardinality(Leased)
    /\ UNCHANGED <<rx, armAt, due, restarts, entityVars>>

-----------------------------------------------------------------------------
(* Waiter.Poll *)

\* A turn of the loop begins: Changed returns a channel no Announce has
\* closed yet.
Take(deadline) == [NotPolling EXCEPT !.pc = "taken", !.deadline = deadline]

PollBegin(r, timeout) ==
    /\ rx[r].pc = "idle" /\ job[r] = <<>>
    /\ rx' = [rx EXCEPT ![r] = Take(now + timeout)]
    /\ UNCHANGED <<vars, job, armAt, due, hands, credit, restarts, entityVars>>

\* The receive of one turn of the loop, and the check of the deadline.
PollReceive(r) ==
    /\ rx[r].pc = "taken"
    /\ ReceiveLocked(r, 1)
    /\ rx' = [rx EXCEPT ![r] =
          IF Leased # {} \/ now >= rx[r].deadline THEN NotPolling
          ELSE [@ EXCEPT !.pc = "missed", !.readAt = NowMs]]
    /\ UNCHANGED <<armAt, due, hands, credit, restarts, entityVars>>

\* The soonest of the deadline and the queue's next change.
Earliest(bound) ==
    IF NextChange # 0 /\ NextChange * TicksPerMs < bound THEN NextChange * TicksPerMs ELSE bound

\* The messages whose delay or lock ended since the receive read the clock:
\* history for NoSleepThrough.
CameDue(readAt) ==
    {s \in DOMAIN messages : readAt < AvailableAt(messages[s]) /\ Available(messages[s])}

\* mutant: takes the channel only now, after the receive
PollSleepLate(r) ==
    /\ rx[r].pc = "missed"
    /\ rx' = [rx EXCEPT ![r] =
          [rx[r] EXCEPT !.pc = "asleep", !.wake = Earliest(rx[r].deadline), !.closed = FALSE,
                        !.readAt = 0, !.overlooked = @ \cup CameDue(rx[r].readAt)]]
    /\ UNCHANGED <<vars, job, armAt, due, hands, credit, restarts, entityVars>>

PollSleep(r) ==
    /\ rx[r].pc = "missed"
    /\ rx' = [rx EXCEPT ![r] =
          [rx[r] EXCEPT !.pc = "asleep", !.wake = Earliest(rx[r].deadline), !.readAt = 0,
                        !.overlooked = @ \cup CameDue(rx[r].readAt)]]
    /\ UNCHANGED <<vars, job, armAt, due, hands, credit, restarts, entityVars>>

Wakes(r) == rx[r].closed \/ now >= rx[r].wake

PollWake(r) ==
    /\ rx[r].pc = "asleep" /\ Wakes(r)
    /\ rx' = [rx EXCEPT ![r] = Take(rx[r].deadline)]
    /\ UNCHANGED <<vars, job, armAt, due, hands, credit, restarts, entityVars>>

\* The client went away.
PollLeave(r) ==
    /\ rx[r].pc = "asleep"
    /\ rx' = [rx EXCEPT ![r] = NotPolling]
    /\ UNCHANGED <<vars, job, armAt, due, hands, credit, restarts, entityVars>>

-----------------------------------------------------------------------------
(* Waiter.Signal and Waiter.Arm *)

DoSignal(p) ==
    /\ job[p] # <<>> /\ Head(job[p]) = "signal"
    /\ rx' = [r \in Receivers |-> IF rx[r].pc = "idle" THEN rx[r] ELSE [rx[r] EXCEPT !.closed = TRUE]]
    /\ job' = [job EXCEPT ![p] = Tail(@)]
    /\ UNCHANGED <<vars, armAt, due, hands, credit, restarts, entityVars>>

DoHand(p) ==
    /\ job[p] # <<>> /\ Head(job[p]) = "hand" /\ hands < MaxHands
    /\ hands' = hands + 1
    /\ job' = [job EXCEPT ![p] = Tail(@)]
    /\ UNCHANGED <<vars, rx, armAt, due, credit, restarts, entityVars>>

\* Arm reads the next change outside the lock.
ArmRead(p) ==
    /\ job[p] # <<>> /\ Head(job[p]) = "arm"
    /\ armAt' = [armAt EXCEPT ![p] = NextChange]
    /\ job' = [job EXCEPT ![p] = IF NextChange = 0 THEN Tail(@) ELSE <<"set">> \o Tail(@)]
    /\ cut' = {}
    /\ UNCHANGED <<vars, rx, due, hands, credit, restarts, lock, renewals>>

\* mutant: any timer already armed stands
StandsAlways(at) == due # 0

\* A timer already due sooner stands.
Stands(at) == due # 0 /\ due <= at

ArmSet(p) ==
    /\ job[p] # <<>> /\ Head(job[p]) = "set"
    /\ due' = IF Stands(armAt[p]) THEN due ELSE armAt[p]
    /\ armAt' = [armAt EXCEPT ![p] = 0]
    /\ job' = [job EXCEPT ![p] = Tail(@)]
    /\ UNCHANGED <<vars, rx, hands, credit, restarts, entityVars>>

\* The timer fires: Signal, OnDue, then Arm again.
Fire(p) ==
    /\ due # 0 /\ NowMs >= due /\ due' = 0
    /\ Leaves(p, <<"signal", "hand", "arm">>)
    /\ UNCHANGED <<vars, rx, armAt, hands, credit, restarts, entityVars>>

\* The store outlives the process; before it serves again, sbArmStoredQueues
\* arms the timer for what the store holds.
Restart ==
    /\ restarts < MaxRestarts /\ restarts' = restarts + 1
    /\ rx' = [r \in Receivers |-> NotPolling]
    /\ job' = [p \in Goroutines |-> <<>>]
    /\ armAt' = [p \in Goroutines |-> 0]
    /\ due' = NextChange
    /\ hands' = 0 /\ credit' = 0 /\ renewals' = {} /\ cut' = {}
    /\ UNCHANGED <<vars, lock>>

TimePasses == Tick /\ UNCHANGED waiterVars

-----------------------------------------------------------------------------
PollStep(r) == PollReceive(r) \/ PollSleep(r) \/ PollWake(r)

JobStep(p) == DoSignal(p) \/ DoHand(p) \/ ArmRead(p) \/ ArmSet(p)

SBNext ==
    \/ \E p \in Procs :
          \/ \E delay \in Delays, ttl \in TTLs : Send(p, delay, ttl) \/ Schedule(p, delay, ttl)
          \/ \E s \in Seqs : \E r \in Handed(s) : SettleBack(p, s, r)
          \/ HandOver(p) \/ Fire(p)
    \/ \E p \in Goroutines : JobStep(p)
    \/ \E s \in Seqs : CancelScheduled(s) \/ \E r \in Handed(s) : SettleGone(s, r) \/ RenewRead(s, r)
    \/ \E w \in renewals : RenewLock(w) \/ RenewLost(w)
    \/ \E d \in Locks : SetLock(d)
    \/ \E r \in Receivers :
          \/ \E timeout \in Timeouts : PollBegin(r, timeout)
          \/ PollStep(r) \/ PollLeave(r)
    \/ \E n \in 0 .. MaxCredit : Flow(n)
    \/ Restart \/ TimePasses

SBSpec == SBInit /\ [][SBNext]_sbVars

-----------------------------------------------------------------------------
(* Properties *)

Receivable(s) == ~IsExpired(messages[s]) /\ Available(messages[s])

Has(p, step) == \E i \in DOMAIN job[p] : job[p][i] = step

Coming(step) == \E p \in Goroutines : Has(p, step)

\* A REST receiver does not sleep through a message.  While one is
\* receivable, a sleeping Poll has its wake-up in hand (its channel closed or
\* its own timer due) or on its way (a signal), however sends, give-backs,
\* renewals, other receivers, changes of lockDuration and the clock
\* interleave with the loop.  Two exceptions: a message that became available
\* between the clock reading of the receive that found nothing and that of
\* Wait, and one whose lock a renewal shortened while the receiver waited,
\* after lockDuration was lowered or with a clock read before another
\* renewal's: sbRenewLock signals nobody.
NoSleepThrough ==
    \A r \in Receivers, s \in DOMAIN messages :
        (rx[r].pc = "asleep" /\ Receivable(s)) =>
            Wakes(r) \/ Coming("signal") \/ s \in rx[r].overlooked

\* Every delay and lock that has yet to end is covered by a timer no later
\* than its end, or by an Arm still to come: a timer that stands, a renewal
\* that lengthens the lock and a restart lose none.  Left out, until the next
\* Arm reads the queue, are the locks a renewal shortened, or took up again
\* after they had ended: sbRenewLock does not arm.
TimerCovers ==
    \A s \in DOMAIN messages \ cut :
        AvailableAt(messages[s]) > NowMs =>
            \/ due # 0 /\ due <= AvailableAt(messages[s])
            \/ Coming("arm")
            \/ \E p \in Goroutines : Has(p, "set") /\ armAt[p] <= AvailableAt(messages[s])
=============================================================================
