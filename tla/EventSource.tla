---------------------------- MODULE EventSource ----------------------------
(***************************************************************************)
(* The pollers of sim/funcrt (StartPollers) as AWS Lambda's Amazon SQS     *)
(* event source mappings use them.  A loop starts one poller per enabled   *)
(* mapping; a poller polls batch after batch, ends when its mapping is no  *)
(* longer enabled, and sleeps after a poll that was refused until          *)
(* something that may clear the refusal is announced.                      *)
(*                                                                         *)
(* Nothing polls on a timer: every wake-up is an announcement of a written *)
(* row (sim.Announcing, sim/signals), and the announcement is a step after *)
(* the write.  A waiter holds channels it took earlier, of which all that  *)
(* matters is whether one was closed since.  Shutdown, which ends the loop *)
(* and the pollers wherever they wait, is left out.                        *)
(***************************************************************************)
EXTENDS Naturals, FiniteSets

CONSTANTS
    Mappings,       \* event source mappings
    Qualified,      \* the ones whose function is named with an alias
    Queue,          \* the queue each mapping reads
    Ids,            \* poller goroutines: bounds the ones that exist at once
    MaxWrites       \* bound: requests that write

ASSUME EventSourceAssumption ==
    /\ Qualified \subseteq Mappings /\ "none" \notin Mappings     \* "none" is no UUID
    /\ MaxWrites \in Nat

VARIABLES
    mapping,    \* lambdaESMs: each mapping's State
    result,     \* lambdaESMs: each mapping's LastProcessingResult
    updating,   \* the copy an UpdateEventSourceMapping in progress has read
    serves,     \* how far function, queue and role let the poller get
    alias,      \* whether the alias of a qualified function exists
    coming,     \* writes of each mapping not announced yet
    comingEnv,  \* writes of its function, queue or role not announced yet
    loop,       \* the loop of StartPollers
    ended,      \* Pollers.ended: the channel of capacity one holds a token
    active,     \* Pollers.active
    poller,     \* the poller goroutines
    writes

rows == <<mapping, result, updating, serves, alias, coming, comingEnv, writes>>
vars == <<rows, loop, ended, active, poller>>

\* Refused before anything is received, after it (DeleteMessageBatch is, or the
\* next ReceiveMessage), or not at all.
Serving == {"none", "receive", "all"}

NoUpdate == [state |-> "new", result |-> "none"]
Nobody == [pc |-> "free", key |-> "none", woken |-> FALSE, env |-> FALSE, missed |-> FALSE,
           failed |-> FALSE, report |-> "none", then |-> "take"]
At(pc, key) == [Nobody EXCEPT !.pc = pc, !.key = key]

TypeOK ==
    /\ mapping \in [Mappings -> {"new", "Enabled", "Disabled", "deleted"}]
    /\ result \in [Mappings -> {"none", "OK", "PROBLEM"}]
    /\ updating \in [Mappings -> [state : {"new", "Enabled", "Disabled"},
                                  result : {"none", "OK", "PROBLEM"}]]
    /\ serves \in [Mappings -> Serving] /\ alias \in [Mappings -> BOOLEAN]
    /\ coming \in [Mappings -> Nat] /\ comingEnv \in [Mappings -> Nat]
    /\ loop \in [pc : {"take", "read", "begin"}, woken : BOOLEAN, todo : SUBSET Mappings]
    /\ ended \in BOOLEAN
    /\ active \subseteq Mappings
    /\ poller \in [Ids -> [pc : {"free", "take", "takeEnv", "check", "work", "settle", "report", "store",
                                 "announce", "wait", "leave", "ending"},
                           key : Mappings \cup {"none"}, woken : BOOLEAN, env : BOOLEAN, missed : BOOLEAN,
                           failed : BOOLEAN, report : {"none", "OK", "PROBLEM"}, then : {"take", "wait"}]]
    /\ writes \in 0 .. MaxWrites

\* The mappings of an earlier process are in the store.
Init ==
    /\ mapping \in [Mappings -> {"new", "Enabled", "Disabled"}]
    /\ result = [m \in Mappings |-> "none"]
    /\ updating = [m \in Mappings |-> NoUpdate]
    /\ serves = [m \in Mappings |-> "all"] /\ alias = [m \in Mappings |-> TRUE]
    /\ coming = [m \in Mappings |-> 0] /\ comingEnv = [m \in Mappings |-> 0]
    /\ loop = [pc |-> "take", woken |-> FALSE, todo |-> {}]
    /\ ended = FALSE
    /\ active = {}
    /\ poller = [p \in Ids |-> Nobody]
    /\ writes = 0

-----------------------------------------------------------------------------
(* Requests *)

Present(m) == mapping[m] \in {"Enabled", "Disabled"}

\* The poller holds the channels it took last.
Holds(p) == poller[p].pc \in {"takeEnv", "check", "work", "settle", "report", "store", "announce", "wait"}

Write == writes < MaxWrites /\ writes' = writes + 1

runtimeVars == <<loop, ended, active, poller>>

\* A new mapping has a UUID of its own.
Create(m, state) ==
    /\ Write /\ mapping[m] = "new"
    /\ mapping' = [mapping EXCEPT ![m] = state]
    /\ coming' = [coming EXCEPT ![m] = @ + 1]
    /\ UNCHANGED <<result, updating, serves, alias, comingEnv, runtimeVars>>

\* UpdateEventSourceMapping reads the row, changes its copy and puts the copy:
\* what others wrote in between is overwritten, a deletion too.
UpdateRead(m, state) ==
    /\ Write /\ Present(m) /\ updating[m] = NoUpdate
    /\ updating' = [updating EXCEPT ![m] = [state |-> state, result |-> result[m]]]
    /\ UNCHANGED <<mapping, result, serves, alias, coming, comingEnv, runtimeVars>>

UpdatePut(m) ==
    /\ updating[m] # NoUpdate
    /\ mapping' = [mapping EXCEPT ![m] = updating[m].state]
    /\ result' = [result EXCEPT ![m] = updating[m].result]
    /\ updating' = [updating EXCEPT ![m] = NoUpdate]
    /\ coming' = [coming EXCEPT ![m] = @ + 1]
    /\ UNCHANGED <<serves, alias, comingEnv, writes, runtimeVars>>

Delete(m) ==
    /\ Write /\ Present(m)
    /\ mapping' = [mapping EXCEPT ![m] = "deleted"]
    /\ coming' = [coming EXCEPT ![m] = @ + 1]
    /\ UNCHANGED <<result, updating, serves, alias, comingEnv, runtimeVars>>

\* A function, a queue, a role or a policy is written, and from now on lets
\* the pollers of the mappings M that depend on it get as far as `as` says: as
\* far as before, when a message is sent.
SetServes(M, as) ==
    /\ Write
    /\ serves' = [m \in Mappings |-> IF m \in M THEN as ELSE serves[m]]
    /\ comingEnv' = [m \in Mappings |-> IF m \in M THEN comingEnv[m] + 1 ELSE comingEnv[m]]
    /\ UNCHANGED <<mapping, result, updating, alias, coming, runtimeVars>>

\* CreateAlias and DeleteAlias: their store announces nothing.  History, for
\* the pollers that hold channels: they missed it.
SetAlias(m) ==
    /\ Write /\ m \in Qualified
    /\ alias' = [alias EXCEPT ![m] = ~@]
    /\ poller' = [p \in Ids |-> IF poller[p].key = m /\ Holds(p) /\ alias'[m]
                                THEN [poller[p] EXCEPT !.missed = TRUE] ELSE poller[p]]
    /\ UNCHANGED <<mapping, result, updating, serves, coming, comingEnv, loop, ended, active>>

-----------------------------------------------------------------------------
(* Announcements *)

\* lambdaESMChanges.Announce(m)
Woken(m) ==
    [p \in Ids |-> IF poller[p].key = m /\ Holds(p) THEN [poller[p] EXCEPT !.woken = TRUE] ELSE poller[p]]

LoopWoken == IF loop.pc \in {"read", "begin"} THEN [loop EXCEPT !.woken = TRUE] ELSE loop

Announce(m) ==
    /\ coming[m] > 0 /\ coming' = [coming EXCEPT ![m] = @ - 1]
    /\ loop' = LoopWoken
    /\ poller' = Woken(m)
    /\ UNCHANGED <<mapping, result, updating, serves, alias, comingEnv, writes, ended, active>>

AnnounceEnv(m) ==
    /\ comingEnv[m] > 0 /\ comingEnv' = [comingEnv EXCEPT ![m] = @ - 1]
    /\ poller' = [p \in Ids |-> IF poller[p].key = m /\ poller[p].env
                                THEN [poller[p] EXCEPT !.woken = TRUE] ELSE poller[p]]
    /\ UNCHANGED <<mapping, result, updating, serves, alias, coming, writes, loop, ended, active>>

-----------------------------------------------------------------------------
(* The loop of StartPollers *)

LoopTake ==
    /\ loop.pc = "take"
    /\ loop' = [loop EXCEPT !.pc = "read", !.woken = FALSE]
    /\ UNCHANGED <<rows, ended, active, poller>>

LoopRead ==
    /\ loop.pc = "read"
    /\ loop' = [loop EXCEPT !.pc = "begin", !.todo = {m \in Mappings : mapping[m] = "Enabled"}]
    /\ UNCHANGED <<rows, ended, active, poller>>

\* A goroutine for the poller of m.
Begun(m) ==
    LET free == {p \in Ids : poller[p].pc = "free"} IN
    free # {} /\ poller' = [poller EXCEPT ![CHOOSE p \in free : TRUE] = At("take", m)]

\* mutant: begin does not look whether the key has a poller
LoopBeginBlind(m) ==
    /\ loop.pc = "begin" /\ m \in loop.todo
    /\ loop' = [loop EXCEPT !.todo = @ \ {m}]
    /\ Begun(m)
    /\ active' = active \cup {m}
    /\ UNCHANGED <<rows, ended>>

LoopBegin(m) ==
    /\ loop.pc = "begin" /\ m \in loop.todo
    /\ loop' = [loop EXCEPT !.todo = @ \ {m}]
    /\ IF m \in active
       THEN UNCHANGED <<active, poller>>
       ELSE /\ active' = active \cup {m}
            /\ Begun(m)
    /\ UNCHANGED <<rows, ended>>

LoopWaits == loop.pc = "begin" /\ loop.todo = {}

\* waitAny: one of the channels that are ready is chosen.
LoopWake ==
    /\ LoopWaits
    /\ \/ loop.woken /\ UNCHANGED ended
       \/ ended /\ ended' = FALSE
    /\ loop' = [loop EXCEPT !.pc = "take", !.woken = FALSE]
    /\ UNCHANGED <<rows, active, poller>>

-----------------------------------------------------------------------------
(* run *)

Moves(p, to) == poller' = [poller EXCEPT ![p].pc = to]

\* Wake takes the channel of the mapping, then the ones of what the mapping
\* names.
TakeWake(p) ==
    /\ poller[p].pc = "take"
    /\ poller' = [poller EXCEPT ![p] = At("takeEnv", @.key)]
    /\ UNCHANGED <<rows, loop, ended, active>>

TakeEnv(p) ==
    /\ poller[p].pc = "takeEnv"
    /\ poller' = [poller EXCEPT ![p].pc = "check", ![p].env = Present(poller[p].key)]
    /\ UNCHANGED <<rows, loop, ended, active>>

\* Poll reads the mapping.
Check(p) ==
    /\ poller[p].pc = "check"
    /\ Moves(p, IF mapping[poller[p].key] = "Enabled" THEN "work" ELSE "leave")
    /\ UNCHANGED <<rows, loop, ended, active>>

Receives(m) == serves[m] # "none" /\ (m \in Qualified => alias[m])
LetsThrough(m) == serves[m] = "all" /\ (m \in Qualified => alias[m])

\* The poller goes on: it polls again, or waits with the channels it holds.
GoesOn(r) ==
    IF r.then = "wait" THEN [r EXCEPT !.pc = "wait", !.report = "none"] ELSE At("take", r.key)

MovesOn(p) == poller' = [poller EXCEPT ![p] = GoesOn(@)]

Reports(p, r, then) ==
    poller' = [poller EXCEPT ![p].pc = "report", ![p].report = r, ![p].then = then]

\* A ReceiveMessage that is let through updates the queue's row, messages or
\* none, and announces it: to the poller that made it, too.
QueueAnnounced(q) ==
    [p \in Ids |-> IF poller[p].env /\ Queue[poller[p].key] = q
                   THEN [poller[p] EXCEPT !.woken = TRUE] ELSE poller[p]]

\* A call that fails for a reason of its own, an internal error: the poller
\* takes it for a refusal.
Fails(r) == [r EXCEPT !.pc = "report", !.report = "PROBLEM", !.then = "wait", !.failed = TRUE]

\* lambdaPollSQSMapping up to its first ReceiveMessage: refused, or failed
\* before the queue is written or after.
Work(p) ==
    /\ poller[p].pc = "work"
    /\ IF Receives(poller[p].key)
       THEN LET told == QueueAnnounced(Queue[poller[p].key]) IN
            \/ poller' = [told EXCEPT ![p].pc = "settle"]
            \/ poller' = [told EXCEPT ![p] = Fails(@)]
            \/ poller' = [poller EXCEPT ![p] = Fails(@)]
       ELSE Reports(p, "PROBLEM", "wait")
    /\ UNCHANGED <<rows, loop, ended, active>>

\* The rest of it: nothing to handle, handled, failed by the function, or
\* refused or failed by Amazon SQS after all.
Settle(p) ==
    /\ poller[p].pc = "settle"
    /\ \/ MovesOn(p)
       \/ Reports(p, "OK", "take")
       \/ Reports(p, "PROBLEM", "take")
       \/ serves[poller[p].key] # "all" /\ Reports(p, "PROBLEM", "wait")
       \/ poller' = [poller EXCEPT ![p] = Fails(@)]
    /\ UNCHANGED <<rows, loop, ended, active>>

\* mutant: writes a result that repeats, too
ReportAlways(p) ==
    /\ poller[p].pc = "report"
    /\ IF ~Present(poller[p].key) THEN MovesOn(p) ELSE Moves(p, "store")
    /\ UNCHANGED <<rows, loop, ended, active>>

\* lambdaSetESMProcessingResult reads the row, and leaves one that has the
\* result already.
Report(p) ==
    /\ poller[p].pc = "report"
    /\ IF ~Present(poller[p].key) \/ result[poller[p].key] = poller[p].report
       THEN MovesOn(p)
       ELSE Moves(p, "store")
    /\ UNCHANGED <<rows, loop, ended, active>>

Store(p) ==
    /\ poller[p].pc = "store"
    /\ IF Present(poller[p].key)
       THEN Moves(p, "announce") /\ result' = [result EXCEPT ![poller[p].key] = poller[p].report]
       ELSE MovesOn(p) /\ UNCHANGED result
    /\ UNCHANGED <<mapping, updating, serves, alias, coming, comingEnv, writes, loop, ended, active>>

\* The poller announces its own write.
AnnounceOwn(p) ==
    /\ poller[p].pc = "announce"
    /\ loop' = LoopWoken
    /\ poller' = [Woken(poller[p].key) EXCEPT ![p] = GoesOn(@)]
    /\ UNCHANGED <<rows, ended, active>>

PollerWake(p) ==
    /\ poller[p].pc = "wait" /\ poller[p].woken
    /\ poller' = [poller EXCEPT ![p] = At("take", @.key)]
    /\ UNCHANGED <<rows, loop, ended, active>>

Leave(p) ==
    /\ poller[p].pc = "leave"
    /\ active' = active \ {poller[p].key}
    /\ poller' = [poller EXCEPT ![p] = At("ending", @.key)]
    /\ UNCHANGED <<rows, loop, ended>>

\* mutant: ends without a word to the loop
EndSilently(p) ==
    /\ poller[p].pc = "ending"
    /\ poller' = [poller EXCEPT ![p] = Nobody]
    /\ UNCHANGED <<rows, loop, ended, active>>

\* The send on ended is dropped when the channel is full.
End(p) ==
    /\ poller[p].pc = "ending"
    /\ ended' = TRUE
    /\ poller' = [poller EXCEPT ![p] = Nobody]
    /\ UNCHANGED <<rows, loop, active>>

-----------------------------------------------------------------------------
PollerStep(p) ==
    \/ TakeWake(p) \/ TakeEnv(p) \/ Check(p) \/ Work(p) \/ Settle(p) \/ Report(p) \/ Store(p)
    \/ AnnounceOwn(p) \/ PollerWake(p) \/ Leave(p) \/ End(p)

LoopStep == LoopTake \/ LoopRead \/ (\E m \in Mappings : LoopBegin(m)) \/ LoopWake

Next ==
    \/ \E m \in Mappings :
          \/ \E state \in {"Enabled", "Disabled"} : Create(m, state) \/ UpdateRead(m, state)
          \/ UpdatePut(m) \/ Delete(m) \/ SetAlias(m)
          \/ Announce(m) \/ AnnounceEnv(m)
    \/ \E M \in (SUBSET Mappings) \ {{}}, as \in Serving : SetServes(M, as)
    \/ LoopStep
    \/ \E p \in Ids : PollerStep(p)

Spec == Init /\ [][Next]_vars

\* Goroutines run on: requests in progress end and announce what they wrote,
\* polls return.  Nobody need make a request.
Fairness ==
    /\ \A m \in Mappings : WF_vars(UpdatePut(m)) /\ WF_vars(Announce(m)) /\ WF_vars(AnnounceEnv(m))
    /\ WF_vars(LoopStep)
    /\ \A p \in Ids : WF_vars(PollerStep(p))

FairSpec == Spec /\ Fairness

-----------------------------------------------------------------------------
(* Properties *)

Runs(p, m) == poller[p].key = m /\ poller[p].pc # "ending"

\* A mapping never has two pollers, so no batch of it is received by two at
\* once, however often it is disabled and enabled while its poller ends.
OnePoller == \A m \in Mappings : Cardinality({p \in Ids : Runs(p, m)}) <= 1

\* The loop does not sleep through a mapping: while an enabled mapping has no
\* poller, the loop is at work, has its wake-up in hand, or gets one from an
\* announcement, a poller's report or a poller's end that is still to come.
LoopAwake ==
    \A m \in Mappings :
        (mapping[m] = "Enabled" /\ m \notin active /\ LoopWaits) =>
            \/ loop.woken \/ ended
            \/ \E n \in Mappings : coming[n] > 0
            \/ \E p \in Ids : poller[p].pc \in {"announce", "ending"}

\* An enabled mapping that nothing refuses is polled for ever once requests
\* leave it alone, unless its poller missed an alias that came back or sleeps
\* after a call that failed for a reason of its own, which nothing announces
\* when it has passed.
Polled ==
    \A m \in Mappings :
        <>[](/\ mapping[m] = "Enabled" /\ LetsThrough(m)
             /\ \A p \in Ids : poller[p].key = m => ~poller[p].missed /\ ~poller[p].failed) =>
            []<>(\E p \in Ids : poller[p].key = m /\ poller[p].pc = "work")

\* A mapping that stays refused does not keep its poller busy: the poller
\* reports the problem and in the end sleeps, its own report
\* notwithstanding.  That takes a refusal before anything is received, of
\* every enabled mapping of the queue: each ReceiveMessage writes the queue,
\* and so wakes all pollers of it, the one included that receives and is then
\* refused.
Rests ==
    \A m \in Mappings :
        <>[](/\ mapping[m] = "Enabled"
             /\ \A n \in Mappings : (Queue[n] = Queue[m] /\ mapping[n] = "Enabled") => ~Receives(n)) =>
            <>[](\E p \in Ids : poller[p].key = m /\ poller[p].pc = "wait")

\* A blocked poller as documented: it waits "for the mapping, the function,
\* the queue or IAM to change" (lambda_event_source_runtime.go:34), and Wake
\* returns the channels "whose closing may clear what blocked" it
\* (poller.go:37): when a poller was refused for want of the alias its function
\* is named with, and the alias is back, the poller is woken.
BlockCleared ==
    \A p \in Ids :
        LET m == poller[p].key IN
        (poller[p].pc = "wait" /\ ~poller[p].failed /\ mapping[m] = "Enabled" /\ LetsThrough(m)) =>
            poller[p].woken \/ coming[m] > 0 \/ comingEnv[m] > 0
=============================================================================
