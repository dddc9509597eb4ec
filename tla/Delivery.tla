------------------------------ MODULE Delivery ------------------------------
(***************************************************************************)
(* The at-least-once push dispatcher of sim/delivery: every delivery is    *)
(* persisted, attempted, retried under its Policy, and handed to Finish    *)
(* when it ends.  The store survives a crash; the timers and the running   *)
(* attempts do not, and a restarted simulator resumes from the store.      *)
(*                                                                         *)
(* A delivery runs in four steps between which the simulator may stop or   *)
(* crash: the attempt is counted and persisted, the receiver answers,      *)
(* Finish runs, the row is deleted.  Waits are abstracted: an armed timer  *)
(* may fire at any later moment, and a delivery outgrows Policy.MaxAge at  *)
(* some moment the environment picks.                                      *)
(***************************************************************************)
EXTENDS Integers

CONSTANTS
    Ids,
    MaxAttempts,    \* Policy.MaxAttempts, 0 for no limit
    HasMaxAge,      \* whether Policy.MaxAge is set
    BothLimited,    \* the deliveries whose Policy sets BothLimits
    MaxTries,       \* bound: attempts of one delivery before it ages
    MaxCrashes,     \* bound: crashes
    MaxStops        \* bound: graceful shutdowns

ASSUME PolicyAssumption ==
    MaxAttempts \in Nat /\ HasMaxAge \in BOOLEAN /\ BothLimited \subseteq Ids
ASSUME BoundsAssumption ==
    MaxTries \in Nat /\ MaxCrashes \in Nat /\ MaxStops \in Nat

VARIABLES
    phase,      \* "up"; "stopping" once stopped is set, "cancelled" once ctx is; "down"
    store,      \* persisted items: id -> attempts
    aged,       \* the deliveries older than Policy.MaxAge
    pending,    \* ids with an armed timer
    runs,       \* the run of each delivery, with its copy of the item's attempts
    hist,       \* history: attempts made, attempts not counted, Finish calls
    crashes, stops

vars == <<phase, store, aged, pending, runs, hist, crashes, stops>>

Outcomes == {"ok", "rejected", "retryable", "deferred"}
Reasons == {"none", "Succeeded", "AttemptsExhausted", "AgeExceeded", "Rejected"}
Idle == [pc |-> "idle", attempts |-> 0, reason |-> "none"]
Fresh == [tries |-> 0, uncounted |-> 0, finished |-> 0, submitted |-> FALSE]

TypeOK ==
    /\ phase \in {"up", "stopping", "cancelled", "down"}
    /\ DOMAIN store \subseteq Ids
    /\ \A id \in DOMAIN store : store[id] \in Nat
    /\ aged \subseteq Ids
    /\ pending \subseteq Ids
    /\ runs \in [Ids -> [pc : {"idle", "attempting", "finishing", "deleting"},
                         attempts : Nat, reason : Reasons]]
    /\ hist \in [Ids -> [tries : Nat, uncounted : Nat, finished : Nat, submitted : BOOLEAN]]
    /\ crashes \in 0 .. MaxCrashes
    /\ stops \in 0 .. MaxStops

Init ==
    /\ phase = "up"
    /\ store = [id \in {} |-> 0]
    /\ aged = {}
    /\ pending = {}
    /\ runs = [id \in Ids |-> Idle]
    /\ hist = [id \in Ids |-> Fresh]
    /\ crashes = 0 /\ stops = 0

-----------------------------------------------------------------------------
Put(id, n) == [i \in DOMAIN store \cup {id} |-> IF i = id THEN n ELSE store[i]]

\* schedule arms a timer, unless the dispatcher stopped.
Schedule(id) == IF phase = "up" THEN pending \cup {id} ELSE pending

\* The dispatcher counts the attempt, persists it and calls the handler.
BeginAttempt(id, n) ==
    /\ store' = Put(id, n + 1)
    /\ runs' = [runs EXCEPT ![id] = [pc |-> "attempting", attempts |-> n + 1, reason |-> "none"]]

Submit(id) ==
    /\ phase # "down"
    /\ ~hist[id].submitted
    /\ store' = Put(id, 0)
    /\ pending' = Schedule(id)
    /\ hist' = [hist EXCEPT ![id].submitted = TRUE]
    /\ UNCHANGED <<phase, aged, runs, crashes, stops>>

\* The first attempt on the caller's goroutine; a stopped dispatcher only
\* persists the delivery.
SubmitAttempted(id) ==
    /\ phase # "down"
    /\ ~hist[id].submitted
    /\ IF phase = "up"
       THEN /\ BeginAttempt(id, 0)
            /\ hist' = [hist EXCEPT ![id].submitted = TRUE, ![id].tries = 1]
       ELSE /\ store' = Put(id, 0)
            /\ hist' = [hist EXCEPT ![id].submitted = TRUE]
            /\ UNCHANGED runs
    /\ UNCHANGED <<phase, aged, pending, crashes, stops>>

-----------------------------------------------------------------------------
(* run *)

FinishOnAge(id) == HasMaxAge /\ id \notin BothLimited /\ id \in aged

\* The timer fires: the delivery is attempted, or ends because of its age.
Fire(id) ==
    /\ phase = "up" /\ id \in pending
    /\ pending' = pending \ {id}
    /\ IF id \notin DOMAIN store
       THEN UNCHANGED <<store, runs, hist>>
       ELSE IF FinishOnAge(id)
       THEN /\ runs' = [runs EXCEPT ![id] =
                  [pc |-> "finishing", attempts |-> store[id], reason |-> "AgeExceeded"]]
            /\ UNCHANGED <<store, hist>>
       ELSE /\ hist[id].tries < MaxTries \/ id \in aged
            /\ BeginAttempt(id, store[id])
            /\ hist' = [hist EXCEPT ![id].tries = @ + 1]
    /\ UNCHANGED <<phase, aged, crashes, stops>>

\* Policy.exhausted: which limit ended a delivery that failed, "none" for a
\* delivery that may be retried.
Exhausted(id, n) ==
    LET attemptsUsed == MaxAttempts > 0 /\ n >= MaxAttempts
        bothAttempts == attemptsUsed \/ MaxAttempts = 0
        ageUsed == ~HasMaxAge \/ id \in aged
    IN  CASE id \notin BothLimited /\ attemptsUsed -> "AttemptsExhausted"
          [] id \in BothLimited /\ bothAttempts /\ HasMaxAge /\ ageUsed -> "AgeExceeded"
          [] id \in BothLimited /\ bothAttempts /\ ageUsed /\ ~HasMaxAge -> "AttemptsExhausted"
          [] OTHER -> "none"

\* mutant: the return after finish is missing, so the run arms a retry too
ToFinishAndArm(id, n, reason) ==
    /\ runs' = [runs EXCEPT ![id] = [pc |-> "finishing", attempts |-> n, reason |-> reason]]
    /\ pending' = Schedule(id)
    /\ UNCHANGED store

\* The run goes on to finish.
ToFinish(id, n, reason) ==
    /\ runs' = [runs EXCEPT ![id] = [pc |-> "finishing", attempts |-> n, reason |-> reason]]
    /\ UNCHANGED <<store, pending>>

\* The run persists the item for its next attempt, arms it and returns.
Retry(id, n) ==
    /\ runs' = [runs EXCEPT ![id] = Idle]
    /\ IF id \in DOMAIN store
       THEN store' = Put(id, n) /\ pending' = Schedule(id)
       ELSE UNCHANGED <<store, pending>>

\* mutant: keeps counting an attempt the shutdown cancelled
ReturnCancelledCounted(id, n) ==
    /\ store' = Put(id, n)
    /\ runs' = [runs EXCEPT ![id] = Idle]
    /\ UNCHANGED pending

\* An attempt the shutdown cancelled is not counted; the row waits for Resume.
ReturnCancelled(id, n) ==
    /\ store' = Put(id, n - 1)
    /\ runs' = [runs EXCEPT ![id] = Idle]
    /\ UNCHANGED pending

\* A deferred delivery does not spend an attempt, and ends when its wait
\* would outlast MaxAge.
Deferred(id, n) ==
    \/ HasMaxAge /\ ToFinish(id, n - 1, "AgeExceeded")
    \/ ~(HasMaxAge /\ id \in aged) /\ Retry(id, n - 1)

Failed(id, n) ==
    IF Exhausted(id, n) # "none"
    THEN ToFinish(id, n, Exhausted(id, n))
    ELSE Retry(id, n)

\* The receiver answered.
AttemptEnd(id, outcome) ==
    LET n == runs[id].attempts
        cancelled == outcome # "ok" /\ phase = "cancelled"
    IN
    /\ phase # "down" /\ runs[id].pc = "attempting"
    /\ CASE cancelled -> ReturnCancelled(id, n)
         [] ~cancelled /\ outcome = "deferred" -> Deferred(id, n)
         [] outcome = "ok" -> ToFinish(id, n, "Succeeded")
         [] ~cancelled /\ outcome = "rejected" -> ToFinish(id, n, "Rejected")
         [] ~cancelled /\ outcome = "retryable" -> Failed(id, n)
    /\ hist' = [hist EXCEPT ![id].uncounted =
                    IF cancelled \/ outcome = "deferred" THEN @ + 1 ELSE @]
    /\ UNCHANGED <<phase, aged, crashes, stops>>

\* mutant: deletes the row before the hand-off
FinishAfterDelete(id) ==
    /\ phase # "down" /\ runs[id].pc = "finishing"
    /\ store' = [i \in DOMAIN store \ {id} |-> store[i]]
    /\ runs' = [runs EXCEPT ![id].pc = "deleting"]
    /\ UNCHANGED <<phase, aged, pending, hist, crashes, stops>>

\* finish calls the cloud's Finish, then deletes the row.
Finish(id) ==
    /\ phase # "down" /\ runs[id].pc = "finishing"
    /\ runs' = [runs EXCEPT ![id].pc = "deleting"]
    /\ hist' = [hist EXCEPT ![id].finished = @ + 1]
    /\ UNCHANGED <<phase, store, aged, pending, crashes, stops>>

\* mutant: leaves the row behind
DeleteSkipped(id) ==
    /\ phase # "down" /\ runs[id].pc = "deleting"
    /\ runs' = [runs EXCEPT ![id] = Idle]
    /\ UNCHANGED <<phase, store, aged, pending, hist, crashes, stops>>

Delete(id) ==
    /\ phase # "down" /\ runs[id].pc = "deleting"
    /\ store' = [i \in DOMAIN store \ {id} |-> store[i]]
    /\ runs' = [runs EXCEPT ![id] = Idle]
    /\ UNCHANGED <<phase, aged, pending, hist, crashes, stops>>

-----------------------------------------------------------------------------
(* Lifecycle *)

Age(id) ==
    /\ HasMaxAge /\ id \in DOMAIN store /\ id \notin aged
    /\ aged' = aged \cup {id}
    /\ UNCHANGED <<phase, store, pending, runs, hist, crashes, stops>>

Stop ==
    /\ phase = "up" /\ stops < MaxStops
    /\ phase' = "stopping" /\ pending' = {} /\ stops' = stops + 1
    /\ UNCHANGED <<store, aged, runs, hist, crashes>>

Cancel ==
    /\ phase = "stopping" /\ phase' = "cancelled"
    /\ UNCHANGED <<store, aged, pending, runs, hist, crashes, stops>>

\* mutant: stop waits for every delivery, not for the running attempts
ExitDrained ==
    /\ phase = "cancelled" /\ DOMAIN store = {}
    /\ phase' = "down"
    /\ UNCHANGED <<store, aged, pending, runs, hist, crashes, stops>>

\* stop waited for the running attempts.
Exit ==
    /\ phase = "cancelled" /\ \A id \in Ids : runs[id].pc = "idle"
    /\ phase' = "down"
    /\ UNCHANGED <<store, aged, pending, runs, hist, crashes, stops>>

Crash ==
    /\ phase # "down" /\ crashes < MaxCrashes
    /\ phase' = "down" /\ crashes' = crashes + 1
    /\ pending' = {} /\ runs' = [id \in Ids |-> Idle]
    /\ UNCHANGED <<store, aged, hist, stops>>

\* A new process opens the store and resumes every persisted delivery.
Restart ==
    /\ phase = "down" /\ phase' = "up"
    /\ pending' = DOMAIN store
    /\ UNCHANGED <<store, aged, runs, hist, crashes, stops>>

Next ==
    \/ \E id \in Ids :
          \/ Submit(id) \/ SubmitAttempted(id)
          \/ Fire(id)
          \/ \E o \in Outcomes : AttemptEnd(id, o)
          \/ Finish(id) \/ Delete(id) \/ Age(id)
    \/ Stop \/ Cancel \/ Exit \/ Crash \/ Restart

Spec == Init /\ [][Next]_vars

\* Timers fire, receivers answer, a stopping process exits and is started
\* again, and time passes.
Fairness ==
    /\ \A id \in Ids :
          /\ WF_vars(Fire(id)) /\ WF_vars(\E o \in Outcomes : AttemptEnd(id, o))
          /\ WF_vars(Finish(id)) /\ WF_vars(Delete(id)) /\ WF_vars(Age(id))
    /\ WF_vars(Cancel) /\ WF_vars(Exit) /\ WF_vars(Restart)

FairSpec == Spec /\ Fairness

-----------------------------------------------------------------------------
(* Properties *)

\* No delivery is lost: until Finish has run it is persisted, whatever
\* crashed or stopped in between, and while the dispatcher is up every
\* persisted delivery is armed or running.
NeverLost ==
    \A id \in Ids :
        /\ (hist[id].submitted /\ hist[id].finished = 0) => id \in DOMAIN store
        /\ (phase = "up" /\ id \in DOMAIN store) => (id \in pending \/ runs[id].pc # "idle")

\* A delivery never has a timer armed while one of its attempts runs, so no
\* delivery is attempted twice at once.
OneRunner == \A id \in pending : runs[id].pc = "idle" /\ id \in DOMAIN store

\* The persisted count never falls below the attempts that spent the
\* policy's budget (those neither deferred nor cancelled), and a crash, which
\* loses the answer of the attempt it interrupts, adds at most one to it.
AttemptsAccounted ==
    \A id \in DOMAIN store :
        LET spent == hist[id].tries - hist[id].uncounted IN
        runs[id].pc \in {"idle", "attempting"} =>
            store[id] \in spent .. (spent + crashes)

\* A crash repeats at most one hand-off: Finish runs at most once more than
\* the simulator crashed.
FinishBounded == \A id \in Ids : hist[id].finished <= 1 + crashes

\* A crash costs at most one attempt over the policy.
AttemptsBounded ==
    MaxAttempts > 0 =>
        \A id \in DOMAIN store \ BothLimited : store[id] <= MaxAttempts + crashes

-----------------------------------------------------------------------------
(* The dispatcher implements AtLeastOnce: a delivery is accepted once it was *)
(* submitted and closed once its row is gone.                                *)

Accepted == {id \in Ids : hist[id].submitted}

Promise == INSTANCE AtLeastOnce WITH
    accepted <- Accepted,
    tried <- [id \in Ids |-> hist[id].tries],
    handed <- [id \in Ids |-> hist[id].finished],
    closed <- Accepted \ DOMAIN store

\* Across timers, crashes, shutdowns and restarts the dispatcher does what
\* AtLeastOnce promises, and nothing more: each accepted delivery is handed
\* off before its row goes, no attempt or hand-off follows that, and every
\* delivery gets there, through any bounded number of crashes and shutdowns.
KeepsPromise == Promise!FairSpec
=============================================================================
