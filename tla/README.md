# Verification of sockerless-cloud

sockerless-cloud simulates the APIs and the data planes of AWS, Google Cloud and
Azure. The three simulators are thin: what they share, and what is hard to get
right, lives in the Go packages under `sim/`, each one mechanism that several
cloud services use. This project models those mechanisms in TLA+, checks them
with TLC on small instances and proves their safety properties
with TLAPS for every value of their parameters.

`PROJECT.json` holds the same information for tools: components, runs, the
mutants that show that each property can fail, the source lines every definition
stands for, findings, hazards and theorems.

## 1. Inventory

### The core mechanisms

| Component | State | Operations | What is hard | What makes it correct |
|---|---|---|---|---|
| `sim/msgq` Queue (SQS, Pub/Sub, Service Bus, Queue Storage, Cloud Tasks) | messages in order of acceptance, deduplication records, next sequence number | Enqueue, Receive, Extend, Settle, Abandon, Release, DeadLetter, Exhausted, Remove, Purge, Expire, Count, NextChange | leases that lapse while their holder acts; instants stored in whole milliseconds; records that outlive their message; ordered groups | exclusive leases, delivery limit, dead-letter only when earned, one acceptance per key and window, order within a group |
| `sim/msgq` Waiter, `sim/signals`, and a Service Bus entity over them | a channel per key, one armed timer, the credit of AMQP links | Poll, Signal, Arm, hand-off, restart | a wake-up between the read and the sleep; a timer armed from a stale read | no receiver sleeps through a message, every lock end and delay has a timer (but for the renewals of section 3) |
| `sim/delivery` Dispatcher (asynchronous invocations, webhooks, rule targets) | persisted rows, armed timers, running attempts | Submit, first attempt inline, run, finish, stop, Resume | crash between any two writes; shutdown that cancels attempts; deferral | nothing lost, no overlapping attempts, attempts counted, Finish bounded |
| `sim/jobrun` Execution (Cloud Run jobs, Container Apps jobs) | tasks, attempts, verdict, timers | Start, Resume, Cancel, the goroutines that launch and watch workloads, timeouts | exits, timeouts, cancellation and starts in any order; restart that adopts workloads | slots, verdicts, terminal states, no workload left running |
| `sim/funcrt` Pool, Limit (Lambda environments) | slots, leases, provisioned count, limits with a parent | Acquire, Release, Discard, Provision, Retire, SetMax, watches of idle environments | a start that returns after what it was for has gone; ownership of a unit that moves | units accounted exactly, no environment leaked or stopped under an invocation, provisioned count kept |
| `sim/funcrt` Pollers, and Lambda's SQS event source mappings | one goroutine per source, a wake-up channel, announced rows | create, update, delete, poll, report, end | a source that changes while its poller ends; announcements behind their writes; a poller woken by its own report | one poller per enabled mapping, no lost wake-up, a poller refused before it receives rests |
| `sim/replicas` Set (Cloud Run, Container Apps) | replicas, wanted count, starting count | Scale, Raise, Add, Adopt, Stop, supervise, replace, restart in place | starts and restarts that return after the set changed its mind | no workload outside the set, the count is kept, Stop ends all |
| `sim/bg` | count of admitted work, drain flag | Go, JoinedGo, WatchThen, Drain | work that admits work while draining | drain returns only at zero |
| `sim/cron` Ticker | persisted schedules and their next instant | fire, put, forget | fired but not recorded at a crash | at least once, never after Forget |
| `sim/streamlog`, `sim/logstore` | a head row and entry rows | Append, Read, Trim | the rows of one operation are written one by one | readers see a contiguous log |
| `sim/kvstore` | per-key read-write locks, token buckets, change log | lock several keys, take tokens, sweep | deadlock, rounding | no deadlock, rate bounded |
| `sim` state stores | rows in SQLite and a cache of them | Get, Put, Update, Delete, Prune | write-through order | cache equals table |
| `sim/machine` (EC2, Compute Engine, Azure VMs) | one record per machine, its handle and kept disk | Boot, Halt, Discard, Release, Adopt, watch | a stop while a boot places the machine; a restart in the middle of either | a stop holds and returns, what runs can be reached, one root disk |
| `sim/eventbus` | none of its own | fan-out, batches | batch limits | every match delivered once |

The rest (`archive`, `blobstore`, `cacheengine`, `dbengine`, `dnsserver`,
`fileshare`, `ipam`, `lbplane`, `listq`, `netrules`, `nodeagent`, `oidcfed`,
`procimage`, `revisions`, `sidecar`, `simjwt`, `simkms`, `sparse`,
`workload`, `workloadhost`, the server, the container driver and, but for the exit of
a microVM, `placement`) is I/O, wire
formats, cryptography or pure arithmetic; `PROJECT.json` lists each with the
reason it is left out. `simulator-aws`, `simulator-gcp` and `simulator-azure`
are the API surfaces over these packages, `ui`, `specs` and `scripts` support.

### How they interact

A simulator's handler changes a `msgq.Queue` inside an `Update` of its state
store and announces the queue's key; receivers wait in a `Waiter`. A dispatcher
persists its rows in a store, runs attempts as `bg` work and calls a cloud's
handler, which may enqueue on a queue or invoke a function. An invocation leases
an environment of a `funcrt.Pool`, whose environments are workloads on a
`placement` backend. An execution of `jobrun` launches such workloads too and
reports every change to the cloud's record through `Hooks.Changed`; a restarted
simulator hands the record and the surviving containers to `Resume`.
The pollers of an event source mapping invoke a function with what they receive,
and sleep until a row that may unblock them is announced. A revision's replicas
and a virtual machine are workloads too, supervised by `replicas` and `machine`.
The modules below model each mechanism with those neighbours as environment:
the receiver that answers, the workload that exits, the process that crashes.
`ServiceBus` composes two of them: it extends `MsgQueue` with the waiter, and
each of its queue operations is a `MsgQueue` action.

## 2. Modules

| Module | Models | Instances | Proofs |
|---|---|---|---|
| `MsgQueue` | `sim/msgq/msgq.go` | `MCMsgQueue` | `MsgQueueProofs` |
| `ServiceBus` (extends `MsgQueue`) | `sim/msgq/wait.go`, `sim/signals`, the entities of `simulator-azure/servicebus_*.go` | `MCServiceBus` | `ServiceBusProofs` |
| `AtLeastOnce` | what a dispatcher promises (abstract) | through `Delivery` | |
| `Delivery` (implements `AtLeastOnce`) | `sim/delivery/delivery.go` | `MCDelivery` | `DeliveryProofs` |
| `JobRun` | `sim/jobrun/jobrun.go`, with the resume and cancel of `simulator-gcp/cloudrunjobs_run.go` | `MCJobRun` | `JobRunProofs` |
| `FuncPool` | `sim/funcrt/pool.go`, `sim/funcrt/limit.go` | `MCFuncPool` | `FuncPoolProofs` |
| `EventSource` | `sim/funcrt/poller.go`, `simulator-aws/lambda_event_source_runtime.go`, `sim/announcing.go` | `MCEventSource` | `EventSourceProofs` |
| `Replicas` | `sim/replicas/replicas.go` | `MCReplicas` | `ReplicasProofs` |
| `Machine` | `sim/machine/machine.go` | `MCMachine` | `MachineProofs` |

A definition whose comment begins with "mutant:" is a deliberate mistake. It is
used by no specification; replacing the definition it resembles by it must make
the property named in `PROJECT.json` fail.

### MsgQueue

A `Queue` is plain data changed inside its owner's `Update`, so each method is
one atomic action. `messages` is a function from the sequence numbers present
to messages: the slice only grows at its end with the next number and deletions
keep its order, so its order is the order of the numbers. Payloads, message ids
and attributes are left out; receipts are counters per message.

The code stores instants as whole milliseconds, rounding deadlines up and clock
readings down. The model keeps that: `now` counts ticks, `TicksPerMs` to the
millisecond, `Ms` rounds down and `Deadline` up.

`Receive` is stated declaratively: `Takes` says when a message is taken given
the set taken before it. `ReceiveLoop` is the loop of the code, and a run and a
theorem say that both agree in every reachable queue (`ReceiveMatchesLoop`).

`ByID` and `ByReceipt` hand out the stored message, and some callers write it:
Azure Storage's Put Message gives a new message a receipt
(`queue_messages.go:133`), Cloud Tasks' RunTask counts a delivery and leases the
task (`cloudtasks_dispatch.go:223`), Service Bus notes why it dead-letters. Those
writes bypass the package and are not modelled: the properties speak of queues
changed through its methods.

`Extend` takes the clock reading it is called with (`at`), since Service Bus reads
the clock before the `Update`; a reading older than the lease is allowed, which is
more than the code does. The other operations read the clock as they run.

`ledger` is history: for each accepted message the receipts issued and taken
back, the instant its last lease was promised until, its key, its acceptance
time and its fate. `NextChange` reads only and is checked against what it
promises.

### Delivery

A delivery runs in four steps between which the process may stop or crash: the
attempt is counted and persisted (`Fire`, `SubmitAttempted`), the receiver
answers (`AttemptEnd`), `Finish` runs, the row is deleted (`Delete`). `store`
survives a crash; `pending` (timers) and `runs` do not. A graceful shutdown is
`Stop` (no timer fires any more), `Cancel` (running attempts see their context
end) and `Exit`. `Restart` is the new process's `Resume`. Backoff durations are
abstracted: an armed timer may fire at any time. A delivery outgrows `MaxAge` at
a moment the environment picks (`Age`), at or after which every age test of the
code sees it; whether a deferred delivery's *next* wait would outlast `MaxAge`
is a choice, since the receiver names that wait.

`AtLeastOnce` is what is left of this for a user of the dispatcher: a delivery is
accepted, tried any number of times, handed off at least once and closed, after
which nothing happens to it. The refinement mapping (`Promise`) reads accepted,
tried and handed off from the history and calls a delivery closed when its row
is gone.

### ServiceBus

The queue of one entity, changed by atomic `Update`s (the actions of `MsgQueue`),
and what the code does after each: `job` holds the steps a goroutine has left
(arm, signal, hand to AMQP links), so another request, the clock or a restart can
come between any two. `Arm` is two steps, since it reads the next change before
it takes the waiter's lock. A long-poll is a record that knows whether the
channel it took has been closed since (`closed`), and when its own timer fires
(`wake`). The entity may be put again with another lockDuration at any time
(`lock`), and a renewal is two steps: it reads lockDuration and the clock, then
updates the queue (`renewals`), so an old reading may be stored after a newer one.
The other operations read both at their `Update`. `sbReceive` and `sbSettle` read
the clock a little earlier too; a lock taken from an old reading ends earlier, but
its receive arms the timer afterwards, and a give-back signals, so neither property
depends on it. `overlooked` and `cut` are history: the messages that came due
between the two clock readings of one turn of the loop or whose lock a renewal
shortened while the receiver waited, and those whose lock a renewal shortened or
revived since the last `Arm`. A hand-off counts as waiting (`hands`)
until it runs `deliverAvailableMessages`.

The run uses a `VIEW` (`Live`) that leaves out what cannot influence any later
step or the properties: the history of messages that are gone, the stored
instants that only retention would read, and the renewals whose lock is gone.

### EventSource

One row per mapping and what it depends on, reduced to how far it lets the poller get
(`serves`): refused before it receives, allowed to receive and refused after it, or
not refused. The first receive of a poll writes the queue and announces it to every
mapping that reads it (`Work`), the poller's own included; `Settle` is the rest of the
batch. A call may also fail for a reason of its own (`failed`), which blocks the
poller as a refusal does. Announcements are steps of their own after the write
(`coming`, `comingEnv`). The loop of `StartPollers` takes its channel, reads the keys,
begins missing pollers and waits; a poller takes its channels, checks its mapping,
polls, reports the result (a write that is announced, to itself as well) and waits or
goes on. `updating` is the copy an `UpdateEventSourceMapping` in progress will put
back. `missed` marks pollers that held their channels when an alias came back, which
no store announces.

### Replicas

Each section under `s.mu` is an action, and each replica a record that follows
its goroutine: in `Spec.Start`, running, exited, backing off, restarting in place.
`dropped` says that the goroutine that took it out of the set is about to stop
it. `replacing` counts the `replace` goroutines that back off. Backoffs last any
time; a group is its main container.

### Machine

Each section under `m.mu` or `mc.mu` is an action of the numbered call that takes it.
A `*machine` has the number of the call that created it, so that one that was
forgotten and its successor differ, as in the code. `handle` is the backend's view: a
machine is up or exited, and `cancelled` once somebody asked it to stop. A restart of
the simulator forgets everything but the backend's disks and machines, one of which is
adopted in two steps, as in the code: `Adopt` publishes the machine with its disk,
`AdoptTrack` gets its handle from the backend and begins to watch it. `AdoptFailed` is
the error of the second (`machine.go:462`), after which the machine stays published
and runs without a handle: a *stray* (`strays`, history). EC2 returns the error
(`ec2_instance_launch.go:470`), Compute Engine and Azure log it and go on
(`compute_instance_vm.go:401`, `compute_vm_backend.go:415`). A later Boot restarts the
kept disk and takes the stray over, because the backend starts the container that is
there, running or not, and returns its handle (`container.go:230`). A cloud that fails
before it calls `Adopt` is not modelled.

Boots are made when no call about the machine is under way, which the clouds'
state checks ensure in nearly all cases (see the hazards for the others). A stop
that slips between the two locks of a boot is modelled up to the boot taking its
second lock; the state is then marked `overtaken`, no call follows, and the
safety properties say nothing more, because they do not hold (section 3).

### JobRun

Every section under the execution's lock is an action that computes the new
state through the operators named after the code (`AttemptEnded`, `Advance`,
`StopRemaining`, `Commit` for `finishIfDoneLocked`). `attempts` follows the
goroutine of each task's attempt (starting, launched, running, exited);
`live` is the set of containers, which survives a crash; `asked` are those the
execution asked to stop; `unclaimed` those a restart did not adopt and removes.
`tasks` stands for the cloud's record as well: `Hooks.Changed` runs under the
lock at every change. A cancellation is recorded first (`RecordCancel`) and reaches
the execution after (`Cancel`), which a verdict, a crash or any other step may
precede. Time is abstracted to which timers may fire; `overdue` is
the set of tasks past `TaskTimeout`.

### FuncPool

One pool under a function limit and the account's limit, with the options the initial
state picks (`opt`): AWS Lambda's pool (one invocation per environment, with expiry
and provisioned environments), the same without expiry, and pools whose environments
every invocation shares, with callers that may give up or not. Every section under
`p.mu` is an action, except that a unit the code returns right after the section (a
failed start, a caller that gave up) is returned in it, and that `Environment.Stop`
takes no time. A slot is its number in order of creation; it is in `p.slots` exactly
while it is starting or ready. `park` is the channel whose close wakes the watch of an
idle environment: nil, open or closed. `topUps` counts calls of `topUp` that have not
taken the lock yet: the lock is free between `Provision` and its `topUp`. Closing a
nil channel panics with the lock held; `panicked` records it and stops the pool.
`take` and `reserve` choose their limit and count on it in one step; the code reads
the owner and locks it in two, and a `SetMax` in between makes a unit count against a
limit that has become unbounded, from which it is also returned. `unreplaced` is
history: the provisioned environments that an Acquire or the end of a lease found
expired and stopped since the last `topUp`. Other pools that share a limit are not
modelled, so the limits of this pool are used by it only. A caller is cancelled only
while it joins a start, the only place where the code watches its context.

## 3. Runs

All passing runs finish with the complete state space explored; no state
constraint is used. The bounds below are guards of actions.

| Run | Checks | Instance | Distinct states |
|---|---|---|---|
| `msgq_leases` | DeliveriesBounded, DeadLetterEarned, LedgerAgrees, LeaseExclusive | 2 messages, 3 receipts each, leases of 1 and 3 ticks at 2 ticks per ms, limit 2, receipts that end with the lease | 668 744 |
| `msgq_times` | DedupOnce, NextChangeExact | 2 messages, delays, times to live, retention, one key and its window, backoff, receipts that outlive the lease | 1.76 million |
| `msgq_groups` | ReceiveMatchesLoop, GroupHeadFirst | 3 messages in a group or in none, batches of 1 and 2, filters | 219 706 |
| `servicebus` | NoSleepThrough, TimerCovers | 1 message, one REST receiver, one AMQP link, one request goroutine beside the receiver's, lockDuration 1 or 2 ticks and put again at any time, one renewal under way, 1 restart | 2.65 million |
| `delivery` | NeverLost, OneRunner, AttemptsAccounted, FinishBounded, KeepsPromise | 2 deliveries, one whose policy sets BothLimits, limit of 1 attempt, 1 crash, 1 shutdown | 323 807 |
| `jobrun_safety` | ParallelismBound, SlotsUsed, FinishedClean, NoStrayWorkload, VerdictEarned, LaunchOnce | 3 tasks, 2 slots, 1 retry, both timeouts, Completions(2), 1 crash | 1.82 million |
| `jobrun_live` | EventuallyFinished | 2 tasks, 1 slot, AllSucceed, a Retry hook that may refuse, 1 crash | 3 972 |
| `funcpool` | LimitAccounted, ServedAlive, NoLeak, IdleWatched, ProvisionKept, Drained | 2 callers, up to 3 environments, four sets of options, up to 2 provisioned, reserved concurrency set and lifted | 716 682 |
| `eventsource` | OnePoller, LoopAwake, Polled, Rests | 1 mapping whose function is named with an alias, 2 poller goroutines, 3 requests | 513 332 |
| `replicas` | NoOrphan, KeptUp, StopEnds | up to 3 replicas, 4 restart policies, 3 scaling calls, 2 exits, 1 failed start | 459 518 |
| `machine` | StopHolds, GuestOnly, Reachable, OneDisk, StopReturns | 3 calls, any guest exits, 2 restarts | 196 498 |

Each module also has a type invariant (`TypeOK`, `SBTypeOK`), which documents its
state and is proved. All other invariants of the table are proved too, and so are
its action properties (section 4): for them the runs show that a mutant breaks them
and that the instances reach the hard cases.

Why these bounds are enough for what is asked: a lease conflict needs one message and
two receipts, a limit off by one needs one receipt more than the limit, a duplicate
needs two acceptances and a window that ends before the clock does. A group is
overtaken by its third message at the earliest. An attempt over the limit or a
hand-off repeated needs one crash, and deliveries share nothing but the process, so
two suffice for two policies. A slot is over-used by the third task on two slots,
after a retry, a failed start or an adoption, all of which occur. A pool needs two
callers for a join, and a third environment to replace a discarded one while two
exist. A lost wake-up needs one sleeper, one message and one other goroutine; a
renewal that shortens a lock needs two lock durations or two clock readings. Messages
of an entity meet only in NextChange, which `msgq_times` checks with two, and the
proofs have any number. Two pollers of one mapping need a second goroutine and a
disable followed by an enable, two requests; the third is the alias or the queue. An
orphaned replica needs a scale-up, a scale-down while it starts, and a third call to
reuse the room. A stop meets a boot with two calls, and a third finds what they left,
before or after a restart; the second restart may find what the first failed to take
over. `CHECK_DEADLOCK FALSE` is set everywhere because each of these systems may
really come to rest: an empty queue at the last tick, deliveries all finished, an
execution finished, a pool retired, every mapping disabled, a set or a machine
stopped.

### What the properties say

* **LeaseExclusive**: no message is handed to a second receiver before the
  instant the first one's lease was promised until, at tick resolution, although
  only milliseconds are stored.
* **DeliveriesBounded**, **DeadLetterEarned**, **LedgerAgrees**: deliveries net
  of releases stay within the limit; a message is dead-lettered only with its
  deliveries used up; a stored message honours its last receipt or none.
* **DedupOnce**: two acceptances under one key are a window apart, also when the
  first message is long settled, purged or expired.
* **NextChangeExact**: the instant a blocked receiver arms its timer for is exactly
  the next at which a delay, a lease or a backoff ends. Times to live and
  retention, which `Expire` applies, are not part of it.
* **GroupHeadFirst**, **ReceiveMatchesLoop**: no receive overtakes the head of a
  group, and the loop of the code takes what the declarative `Receive` says.
* **NoSleepThrough**, **TimerCovers**: while a message is receivable, a sleeping
  REST receiver has its wake-up in hand or on its way, with the two exceptions the
  property states; every lock and delay that has yet to end is covered by a timer
  or by an `Arm` still to run, also after renewals and restarts, except, until the
  next `Arm`, locks that a renewal shortened or revived.
* **NeverLost**, **OneRunner**: until Finish has run a delivery is persisted,
  and while the dispatcher is up it is armed or running, never both.
* **AttemptsAccounted**, **FinishBounded**: a crash costs at most one attempt and
  one repeated hand-off.
* **KeepsPromise**: the dispatcher implements `AtLeastOnce`, its liveness included.
* **ParallelismBound**, **SlotsUsed**: never more tasks than slots, and no slot
  free while a task waits.
* **NoStrayWorkload**, **FinishedClean**, **LaunchOnce**, **VerdictEarned**,
  **EventuallyFinished**: workloads of ended tasks are stopped, Finished waits for
  all of them, no attempt is launched twice even across a crash, verdicts follow
  from the tasks, and every execution finishes.
* **LimitAccounted**: the limits' counts equal the calls and reservations that hold
  them, also when SetMax moved ownership in between.
* **NoLeak**, **ServedAlive**, **IdleWatched**, **Drained**: an environment that
  left the pool is stopped, but never under an invocation; an idle one is always
  watched; after Retire all stop.
* **ProvisionKept**: once topUp ran, the pool is short only of the provisioned
  environments that an Acquire or the end of a lease found expired before their
  watch did, and it has none too many once they are idle. Nothing is exempted.
* **OnePoller**, **LoopAwake**, **Polled**, **Rests**: a mapping never has two
  pollers; the loop does not sleep while an enabled mapping has none; such a mapping
  is polled for ever, unless its poller sleeps after a failure of its own or missed an
  alias; one refused before it receives comes to rest although its own report wakes it.
* **NoOrphan**, **KeptUp**, **StopEnds**: every workload is held by the set or about
  to be stopped; a set that restarts Always is short only while a replacement is on
  its way; after Stop nothing runs or starts again.
* **StopHolds**, **StopReturns**: a stop that returned nil left nothing running of the
  boots before it but a stray, and every stop returns. **Reachable**: what runs is
  what the manager holds; of a stray it still holds the disk, which the next Boot or
  Discard reaches, unless it was detached. **OneDisk**: a machine has one root disk,
  across restarts too. **GuestOnly**: only a guest's own exit is reported as one.

### Fairness

* `Delivery`: armed timers fire, receivers answer (every attempt of the code has
  a timeout), Finish and Delete run on the same goroutine, a stopping process
  exits and is started again, and time passes (`Age`). Crashes and shutdowns are
  bounded and not fair.
* `JobRun`: goroutines waiting for the lock get it, a started attempt timer
  fires, a container asked to stop exits (the engine kills it after its grace
  period), a crashed simulator is restarted. Workloads are *not* assumed to exit
  by themselves; that is what the attempt timeout is for.
* `FuncPool`: starts return (`Retire` cancels their context; an on-demand start
  has the invocation's timeout), invocations end (every function has a timeout),
  joined callers go on. Exits, expiries and watches are not assumed.
* `EventSource`: requests in progress end and announce what they wrote, the loop
  and the pollers run (a long-poll of SQS lasts 20 seconds). No request is assumed.
* `Replicas`: starts return, backoffs end, a stopped group exits after its grace,
  goroutines run. Nobody need call the set, no replica need exit by itself.
* `Machine`: each call goes on (`Proceed`), the backend answers, a cancelled machine
  exits. A guest need not exit, an init need not become ready unless its context
  or its machine ended, a caller need not give up.
* `MsgQueue`, `ServiceBus`: safety only, no fairness.

### Where code and comments disagree

One run checks a sentence of the source and TLC finds it violated.
`eventsource_alias`: `poller.go:37` says that Wake returns "the channels whose
closing may clear what blocked k's poller". A mapping whose function is named with
an alias is blocked while the alias does not exist, and the stores of aliases and
versions announce nothing (`lambda.go:344`): after CreateAlias the poller sleeps on
until something else of the mapping, the function, the queue or IAM is written.

The other disagreements met while modelling have no run of their own; the
properties above state what does hold.

* `msgq.go:114` "while one of them is unavailable, none after it is delivered": a
  Receive of several that took the head of a group goes on past an unavailable
  message of it (line 261). What holds is GroupHeadFirst.
* `delivery.go:113` "Finish runs once": a crash between Finish and the deletion of
  the row repeats it. What holds is FinishBounded.
* `pool.go:462` "keeps n environments initialised": an expired provisioned
  environment is replaced when its watch notices, not when Acquire (`:452`) or the
  end of a lease (`:360`) does. ProvisionKept counts those as missing.
* `pool.go:475` "Keep the earlier reservation rather than lose it": once the cap was
  lowered below it, the earlier reservation cannot be taken again.
* `pool.go:286`: a caller that joined a start and gives up after it returned may hold
  the last lease, and the cancelled branch only decrements the count. The slot is
  then idle without a `park`, and the next Acquire, Provision or Retire closes a nil
  channel under the lock (`panicked`), or the environment is never stopped. Joins
  need `PerEnvironment` other than 1, which AWS Lambda, the one user today, sets.
  NoLeak, IdleWatched and Drained exempt pools whose callers give up.
* `servicebus_sessions.go:183` "the instant it becomes receivable": `Arm` looks for
  changes strictly after its own clock reading, so one that came due just before is
  not armed, and a message scheduled into the past is not handed on.
* `servicebus_queue.go:457` "The timer armed at the lock's old end re-arms itself at its
  new one": true of a renewal that lengthens a lock. One made after lockDuration was
  lowered, or with a clock read before another renewal's, shortens it, and
  `sbRenewLock` neither arms nor signals: AMQP links get the message when the old
  timer fires, a sleeping REST receiver at its own timer. One that read the clock
  before the lock ended and updates after may revive it with no timer left.
* `lambda_event_source_runtime.go:34` "waits for the mapping, the function, the queue or
  IAM to change before the next": a role that may receive and not delete is refused
  after its own ReceiveMessage has written the queue, so the poller never rests; and
  an internal failure of a call blocks the poller until something is written, although
  it may pass by itself (`:123`).
* After a failed adoption a Halt finds no handle, returns nil and the machine runs on
  (`machine.go:313`, `:462`), while the cloud records it as stopped. StopHolds
  exempts strays.
* `replicas.go:200` "a start that fails leaves the count as it was": Add lowers
  `want` after the failure, whatever a Scale set it to in between.
* `machine_test.go:188`, `:236` (a stop during a boot ends it): a stop between the
  boot's two locks finds nothing to end, and the boot goes on.

## 4. Proofs

TLAPS checks every leaf; nothing is assumed but the named `ASSUME`s of the
component modules, which TLC evaluates on every run. They say that parameters are
naturals or Booleans and finite where the code counts them (the callers of a pool,
the replicas' identities), that the empty group and key are among theirs, that the
backoff table has natural entries, that no mapping is called "none", and that a
Service Bus entity's policy sets neither Ordered nor Backoff, as
`servicebus_queue.go:122` builds it (`EntityPolicyAssumption`).

Each proof has the same shape: an inductive invariant, checked by TLC before it was
proved; a lemma for each action; and theorems that read the checked property off
the invariant. Where a locked section passes through states nobody sees, the
invariant's parts are operators of such a state rather than of the variables.

`MsgQueueProofs`
* `TypeCorrect`: Spec => []TypeOK, action by action; also the base of the rest.
* `Invariance`: Spec => []IInv. The limits and leases speak of the ledger, so
  none is inductive alone. `Entry(s)` ties a stored message to its entry: it is
  queued exactly while stored; its deliveries are receipts issued minus given
  back; a leased message carries its last receipt, an unleased one none
  (`Counted`); and the promised end of a lease is past, or not after the stored
  deadline (`Promised`), which needs that deadlines round up (`DeadlineCeil`) and
  clock readings down (`MsFloor`).
* `LimitHolds`, `DeadLettersEarned`, `ReceiptsAgree` follow from IInv.
* `LeasesExclusive` (Spec => LeaseExclusive, an action property): only Receive
  issues receipts, only of available messages (`IssueStep`), and an available
  message is past its promised end (`AvailableIsPastLease`).
* `DedupHolds`: its invariant `DInv` says that a record names the latest message
  of its key and ends a window after it, and that a key without a record had its
  last acceptance a window ago.
* `HeadFirst` (Spec => GroupHeadFirst, an action property): by the definition of
  `Takes` the first message of a group that a Receive leases has only taken ones
  before it. Those were dead-lettered and are gone, so it is the earliest left.
* `NextChangeCorrect`: NextChange is the least of the instants after now at which a
  delay, a lease or a backoff of a stored message ends, for every policy and backoff.
* `ReceiveIsLoop`: the loop of `ReceiveLoop`, which goes through the stored messages in
  the order of their numbers with a budget and the set of blocked groups, takes the
  set that `Receive` defines at once. The loop is a recursive function, so its
  induction is an argument about the least number at which the two differ.

`ServiceBusProofs` (extends `MsgQueueProofs`)
* `EntityIsQueue`: SBSpec => Spec. Every step of an entity, its receivers, timer
  and restarts is an operation of `MsgQueue` or leaves the queue alone. So
  `EntityKeepsPromises` carries the theorems about queues over to entities.
* `EndsAreCovered` and `NoneSleepsThrough` rest on `SBInv`. `AllCovered`: each instant
  after now at which a message comes due has the timer, a goroutine about to set it,
  or one about to Arm, but for the messages in `cut`. A renewal that lengthens a lock
  keeps that: the timer is no later than the old end. One that does not puts its
  message into `cut`, and an Arm that reads the queue covers all again. The read and
  the set of one Arm stay together (`SetsFirst`). `Attentive` says of a receiver that
  found nothing that all it left is due after it read the clock, and of a sleeping one
  that its own timer is no later than what it did not overlook, unless a signal came
  or is to come. Nothing is assumed of the clock but that it does not run backwards.

`DeliveryProofs`
* `Invariance` with `IInv` = TypeOK and, for each delivery, `RunsAndTimers` (a
  timer excludes a run), `Rows` (a row from submission until Finish), `HandOffs`
  (only a run about to delete its row is one hand-off ahead of the crashes),
  `Budget` (the stored count lies between the attempts spent and that plus the
  crashes, one more once the answer is in) and `Limit`. One lemma per action.
* `TypeCorrect`, `NothingLost`, `NoOverlap`, `HandOffsBounded`,
  `AttemptsCounted`, `AttemptsWithinLimit` follow.
* `Refinement`: Spec => Promise!Spec, the safety part of KeepsPromise. Under IInv a
  submission is an Accept, a firing timer a Try or a stutter, Finish a HandOff,
  Delete a Close (a row about to go was handed off: `HandOffs`), and every
  other step, crash and restart included, leaves the four abstract variables alone.

`JobRunProofs`
* `IInv` says of a process that is up that the execution is `Open`: a running task has
  an attempt and only a cancelled one may still have another's (`Linked`), the verdict
  is earned by the counts, tasks were ended early only by a verdict their results
  fix for good (`Fixed`: a resumed execution finds it again; it holds of an undecided
  execution also once a cancellation was recorded), an attempt that was
  told to stop has its workload asked. Of a process that is down it says that only
  the record is left (`Down`). `Matched` ties claimed workloads to attempts and says
  that the next attempt to be launched never was. `Full` (no idle slot) holds
  only after `Advance`, so the lemmas about its parts speak of the state before it.
* `ParallelismKept`, `NoIdleSlot`, `FinishesClean`, `NoneStray`, `VerdictIsEarned`
  follow; `LaunchedOnce` (Spec => LaunchOnce, an action property) follows from
  `Matched`.
* `NotStuck`: an execution that is up and not finished has an attempt in progress, a
  verdict has told every attempt to stop, and a workload whose attempt was stopped or
  timed out was asked to stop. So each of them has a goroutine that goes on: what
  EventuallyFinished needs besides fairness.
* `RecordsFinal` (an action property): the record of a task that ended is never
  written again, by a late exit, timeout or resumption; attempts are counted one by one.

`FuncPoolProofs`
* `World` describes slots and calls: a slot's leases are the calls on it (`Leases`), one
  call starts an environment (`OneStarter`), a stopped one left the pool with no lease.
  `Counted` and `Reserved` say whose each unit of a limit is. `Provisioned` bounds the
  idle provisioned environments from above, which is what makes the lower bound of
  ProvisionKept survive a `topUp`. All are about cardinalities, so most lemmas are
  about a set that gains or loses one member.
* `LimitsAreExact`, `NoneStoppedBusy`, `NoneLeaks`, `IdleAreWatched`, `ProvisionIsKept`
  follow. The exemption of pools whose callers give up is in `SlotOK`.
* `RetiredDrains`: what still runs in a retired pool is held by an invocation, whose end
  stops it. `RetiredShrinks` (an action property): a retired pool lets nobody in, starts
  nothing, takes nothing back. Together they are Drained without its fairness.

`ReplicasProofs`
* `OrphanFree` from `SetInv`: the set holds each replica once, none it dropped or
  stopped, and nothing once it is closed. That the set holds each once needs
  lemmas about `RemoveFirst` on sequences without repetition.
* `CountKept` from `CountInv`: `starting` is the number of starts in progress, and the
  shortage is at most the number of replacements on their way.
* `StopLetsGo`: after Stop the set holds nothing, and what runs was stopped or has a
  goroutine that will stop it. `StopWindsDown` (an action property): once Stop has
  cancelled the context every step moves one replica to a later stage (`Rank`), stops
  one that was dropped, or gives a replacement up. A start that returns into the
  stopped set may bring one replacement along, and none other arises, so the steps run
  out: StopEnds without its fairness.

`EventSourceProofs`
* `PollersApart`: `active` holds exactly the keys of the pollers that have not left
  (`ActiveExact`), and their keys differ (`Unique`).
* `LoopNeverSleepsThrough`: `Awake` extends LoopAwake to a loop that still starts
  pollers, for the mappings no longer on its list.
* `BlockIsHeard`: what holds of the sentence that `eventsource_alias` refutes. A poller
  that waits although nothing refuses it was woken, or the announcement is to come,
  unless it missed the alias of a qualified function; for any other function the
  sentence is true. `Heard` says it of every stage from the refusal on, and that a
  poller which did not take the function's channels hears of its mapping instead.

`MachineProofs`
* `IInv` has a part for every state (`Shape`) and one that holds until a stop overtakes
  a boot (`World`). `Shape`: what calls refer to exists, numbers not given out name
  nothing, and a boot under way has no company but stops called after it.
  `World`: a stop that marked the machine waits for the boot that holds it, or gave up
  (`Waited`); both act on the machine the manager holds (`SameMachine`); at most one
  machine runs, held by the manager or just placed, on a disk the backend has
  (`Running`); the handle a machine has is watched for it (`Tracked`); one that was
  cancelled is marked while it has its handle (`Marked`); while anything runs no stop
  got past its exit (`Stopped`); every disk belongs to the machine, to the boot that
  placed it or to the Discard about to remove it, and there is one (`DisksKnown`).
* `Invariance`: Spec => [](IInv /\ StrayInv). `StrayInv` is about the machines a failed
  adoption left: nobody watches them and no call is about them (`Unwatched`), a Boot
  that restarted their disk took them over (`TakenOver`), and one machine runs on a
  disk the backend holds (`Alone`).
* `StopsHold`, `GuestExitsOnly`, `RunningIsReachable`, `DiskIsOne` follow.
* `WaitsEnd`: a stop that waits for a Boot waits for one whose context was cancelled, or
  which is past its own wait; one that waits for a watch waits for a machine that was
  cancelled or exited (`NoVainWait`, the sentence of `machine.go:95`). It needs to know
  whom a stop waits for (`Waits`), and is StopReturns without its fairness.

The theorems hold for every set of deliveries, number of messages, tasks, replicas,
callers, calls and restarts, every policy, clock resolution and bound, so the bounds
of the runs are no limitation for them.

Only model-checked: the liveness properties (EventuallyFinished, Drained, Polled,
Rests, StopEnds, StopReturns, and the fairness of `AtLeastOnce` in KeepsPromise),
because this prover does not reason about fairness or ENABLED. The safety part of
each but Rests is a theorem above (for Polled, LoopNeverSleepsThrough and
BlockIsHeard); its invariant or action property was checked by TLC on the instance of
the component's run before it was proved, and has no run of its own.

## 5. Not modelled

Payloads, names, wire formats, logs and metrics; the durations of backoffs in
`Delivery` and `Replicas` and of timeouts in `JobRun` (only their order); several
queues, pools, sets or executions at once, which share no state but the limits of
`FuncPool`; the stores beneath (a write is atomic and durable) and their failures;
sessions, topics, deferral and the dead-letter sub-queue of Service Bus, and changes
of its settings other than lockDuration; writes of a stored message that bypass the
methods of its queue; stream
sources of Lambda; shutdown of the pollers; overlapping boots of one machine, and a
Discard whose removal of the disk fails after the machine was forgotten.

Components of section 1 without a module: `bg`, `cron`, `streamlog`, `logstore`,
`kvstore`, the state stores and `eventbus`. Each is small and could have a module of
its own; section 6 says in which order. The API surfaces of the three clouds, by far
the largest part of the repository (over half a million lines, much of it generated
tables), are request parsing, record keeping and wire shapes over these mechanisms:
thousands of independent handlers whose state changes are one `Update` of one row,
where a model would repeat the handler. The share of the repository's lines this
project maps is small for that reason.

## 6. Plan

Done, in this order: `MsgQueue`, `Delivery`, `JobRun`, `FuncPool`, `ServiceBus` with
the waiter, `EventSource` with the pollers, `Replicas`, `Machine`, and
`AtLeastOnce` with the refinement, checked and its safety part proved; then the
proofs of the safety invariants and action properties the runs check, and of the
safety part of the liveness properties. What is left to model:

1. `StreamLog` with `LogStore`: row-by-row writes and a crash between two;
   abstract specification: a contiguous log with a moving head.
2. `Bg`, `CronTicker`, `KeyLocks`, `CachedStore`; `Batches` of the event bus and the
   token bucket as checked algorithms.
