------------------------------ MODULE Replicas ------------------------------
(***************************************************************************)
(* The replica set of sim/replicas: Cloud Run revisions and worker pools   *)
(* and Container Apps revisions keep a number of workloads running with    *)
(* it.  Calls of the cloud (Scale, Raise, Add, Stop), the goroutines that  *)
(* start replicas, the one that supervises each replica and the ones that  *)
(* replace what exited share want, replicas and starting under s.mu; each  *)
(* critical section is one action, and what a goroutine does after it lets *)
(* go of the lock is a later one.                                          *)
(*                                                                         *)
(* An identity of Ids is one replica from the moment its start is reserved *)
(* until it ended, and is used again for a later one.  Backoffs are        *)
(* abstracted to waits of any length; groups to their main container.      *)
(***************************************************************************)
EXTENDS Integers, Sequences, FiniteSets, SequencesExt

CONSTANTS
    Ids,            \* identities: bounds the replicas that exist at once
    Specs,          \* the Spec.Restart and Spec.InPlace of the sets checked
    Counts,         \* values of n and limit the cloud passes
    MaxCalls,       \* bound: calls of Scale, Raise and Add
    MaxExits,       \* bound: exits of replicas on their own
    MaxFailures     \* bound: starts that fail

ASSUME ReplicasAssumption ==
    /\ Specs \subseteq [restart : {"Always", "OnFailure", "Never"}, inPlace : BOOLEAN]
    /\ IsFiniteSet(Ids) /\ Counts \subseteq Nat
    /\ MaxCalls \in Nat /\ MaxExits \in Nat /\ MaxFailures \in Nat

VARIABLES
    spec,       \* Set.spec
    want,       \* Set.want
    replicas,   \* Set.replicas, in order of creation
    starting,   \* Set.starting
    closed,     \* Set.closed
    cancelled,  \* Set.ctx ended
    rep,        \* where each replica is, and who waits for its start
    replacing,  \* replace goroutines that back off
    calls, exits, failures,
    refused     \* history: starts that failed for a caller of Scale, Raise or Add

counters == <<calls, exits, failures, refused>>
vars == <<spec, want, replicas, starting, closed, cancelled, rep, replacing, counters>>

\* none: free.  starting: in Spec.Start for the first time.  undoing: a start
\* for Add failed and Add has yet to lower want.  running: its workload runs.
\* exited: the workload exited, the supervisor has yet to take s.mu.
\* backoff, restarting: waits for, and is in, Spec.Start in place.
States == {"none", "starting", "undoing", "running", "exited", "backoff", "restarting"}

\* stopped is Replica.stopped; dropped says that the goroutine that removed
\* the replica from the set is about to stop it; failed is the exit's result.
Absent == [pc |-> "none", by |-> "none", stopped |-> FALSE, dropped |-> FALSE, failed |-> FALSE]

TypeOK ==
    /\ spec \in Specs
    /\ want \in Int
    /\ replicas \in Seq(Ids)
    /\ starting \in Int
    /\ closed \in BOOLEAN /\ cancelled \in BOOLEAN
    /\ rep \in [Ids -> [pc : States, by : {"none", "scale", "add", "replace"},
                        stopped : BOOLEAN, dropped : BOOLEAN, failed : BOOLEAN]]
    /\ replacing \in Nat
    /\ calls \in 0 .. MaxCalls /\ exits \in 0 .. MaxExits
    /\ failures \in 0 .. MaxFailures /\ refused \in 0 .. MaxFailures

Init ==
    /\ spec \in Specs
    /\ want = 0 /\ replicas = <<>> /\ starting = 0
    /\ closed = FALSE /\ cancelled = FALSE
    /\ rep = [id \in Ids |-> Absent]
    /\ replacing = 0
    /\ calls = 0 /\ exits = 0 /\ failures = 0 /\ refused = 0

-----------------------------------------------------------------------------
Free == {id \in Ids : rep[id].pc = "none"}

Held(id) == \E i \in DOMAIN replicas : replicas[i] = id

Without(id) == RemoveFirst(replicas, id)

Call == ~closed /\ calls < MaxCalls /\ calls' = calls + 1

\* reserve: how many replicas are missing once want is n and the set holds h.
Missing(n, h) == IF n - h - starting > 0 THEN n - h - starting ELSE 0

\* The starters of "new" go into Spec.Start.
Begin(new, by, from) ==
    [id \in Ids |-> IF id \in new THEN [Absent EXCEPT !.pc = "starting", !.by = by] ELSE from[id]]

\* The goroutine that removed "ids" from the set goes on to stop them.
Dropped(ids) == [id \in Ids |-> IF id \in ids THEN [rep[id] EXCEPT !.dropped = TRUE] ELSE rep[id]]

\* Scale keeps the oldest n, drops the others and starts what is missing.
Scale(n) ==
    LET kept == IF Len(replicas) > n THEN SubSeq(replicas, 1, n) ELSE replicas
        surplus == {id \in Ids : Held(id) /\ ~Contains(kept, id)}
    IN
    /\ Call
    /\ want' = n /\ replicas' = kept
    /\ starting' = starting + Missing(n, Len(kept))
    /\ \E new \in SUBSET Free :
          /\ Cardinality(new) = Missing(n, Len(kept))
          /\ rep' = Begin(new, "scale", Dropped(surplus))
    /\ UNCHANGED <<spec, closed, cancelled, replacing, exits, failures, refused>>

Raise(n) ==
    /\ Call
    /\ want < n /\ want' = n
    /\ starting' = starting + Missing(n, Len(replicas))
    /\ \E new \in SUBSET Free :
          /\ Cardinality(new) = Missing(n, Len(replicas))
          /\ rep' = Begin(new, "scale", rep)
    /\ UNCHANGED <<spec, replicas, closed, cancelled, replacing, exits, failures, refused>>

Add(limit) ==
    /\ Call
    /\ want < limit /\ want' = want + 1
    /\ starting' = starting + 1
    /\ \E id \in Free : rep' = Begin({id}, "add", rep)
    /\ UNCHANGED <<spec, replicas, closed, cancelled, replacing, exits, failures, refused>>

\* A replica of the previous process, taken over before anything else.
Adopt(id) ==
    /\ calls = 0 /\ ~closed /\ rep[id].pc = "none"
    /\ replicas' = Append(replicas, id)
    /\ want' = IF Len(replicas) + 1 > want THEN Len(replicas) + 1 ELSE want
    /\ rep' = [rep EXCEPT ![id] = [Absent EXCEPT !.pc = "running"]]
    /\ UNCHANGED <<spec, starting, closed, cancelled, replacing, counters>>

Stop ==
    /\ ~closed /\ closed' = TRUE
    /\ replicas' = <<>>
    /\ rep' = Dropped({id \in Ids : Held(id)})
    /\ UNCHANGED <<spec, want, starting, cancelled, replacing, counters>>

\* s.cancel, after Stop let go of the lock.
Cancel ==
    /\ closed /\ ~cancelled /\ cancelled' = TRUE
    /\ UNCHANGED <<spec, want, replicas, starting, closed, rep, replacing, counters>>

\* s.stop on a replica the set no longer holds.  Its context ends, and its
\* group, if it has one, is stopped in the background.
StopOne(id) ==
    /\ rep[id].dropped
    /\ rep' = [rep EXCEPT ![id].stopped = TRUE, ![id].dropped = FALSE]
    /\ UNCHANGED <<spec, want, replicas, starting, closed, cancelled, replacing, counters>>

-----------------------------------------------------------------------------
(* startOne *)

Keeps == ~closed /\ Len(replicas) < want

\* mutant: leaves the replica the set does not keep running
StartedUnkept(id) ==
    /\ rep[id].pc = "starting"
    /\ starting' = starting - 1
    /\ replicas' = IF Keeps THEN Append(replicas, id) ELSE replicas
    /\ rep' = [rep EXCEPT ![id] = [Absent EXCEPT !.pc = "running"]]
    /\ UNCHANGED <<spec, want, closed, cancelled, replacing, counters>>

\* The replica runs.  The set keeps it, or stops it again.
Started(id) ==
    /\ rep[id].pc = "starting"
    /\ starting' = starting - 1
    /\ replicas' = IF Keeps THEN Append(replicas, id) ELSE replicas
    /\ rep' = [rep EXCEPT ![id] = [Absent EXCEPT !.pc = "running", !.dropped = ~Keeps]]
    /\ UNCHANGED <<spec, want, closed, cancelled, replacing, counters>>

\* mutant: replace gives up after the first start that fails
StartFailedGivesUp(id) ==
    /\ rep[id].pc = "starting"
    /\ failures < MaxFailures /\ failures' = failures + 1
    /\ starting' = starting - 1
    /\ rep' = [rep EXCEPT ![id] = IF rep[id].by = "add" THEN [Absent EXCEPT !.pc = "undoing"] ELSE Absent]
    /\ refused' = IF rep[id].by = "replace" THEN refused ELSE refused + 1
    /\ UNCHANGED <<spec, want, replicas, closed, cancelled, replacing, calls, exits>>

\* The start failed: its caller reports it, Add goes on to lower want, and
\* replace backs off again.
StartFailed(id) ==
    /\ rep[id].pc = "starting"
    /\ failures < MaxFailures /\ failures' = failures + 1
    /\ starting' = starting - 1
    /\ rep' = [rep EXCEPT ![id] = IF rep[id].by = "add" THEN [Absent EXCEPT !.pc = "undoing"] ELSE Absent]
    /\ replacing' = IF rep[id].by = "replace" THEN replacing + 1 ELSE replacing
    /\ refused' = IF rep[id].by = "replace" THEN refused ELSE refused + 1
    /\ UNCHANGED <<spec, want, replicas, closed, cancelled, calls, exits>>

AddUndone(id) ==
    /\ rep[id].pc = "undoing"
    /\ want' = want - 1
    /\ rep' = [rep EXCEPT ![id] = Absent]
    /\ UNCHANGED <<spec, replicas, starting, closed, cancelled, replacing, counters>>

-----------------------------------------------------------------------------
(* supervise *)

\* The main container exits, on its own or because it was stopped, and await
\* reads whether the set had stopped the replica.
Exit(id, fails) ==
    /\ rep[id].pc = "running"
    /\ rep[id].stopped \/ exits < MaxExits
    /\ exits' = IF rep[id].stopped THEN exits ELSE exits + 1
    /\ rep' = [rep EXCEPT ![id] = IF @.stopped THEN Absent
                                  ELSE [@ EXCEPT !.pc = "exited", !.failed = fails]]
    /\ UNCHANGED <<spec, want, replicas, starting, closed, cancelled, replacing, calls, failures, refused>>

RestartAllowed(fails) == spec.restart = "Always" \/ (spec.restart = "OnFailure" /\ fails)

Restarts(id) == Held(id) /\ ~closed /\ RestartAllowed(rep[id].failed)

\* The supervisor takes s.mu and decides: gone, restart in place, or replace.
Judge(id) ==
    /\ rep[id].pc = "exited"
    /\ replicas' = IF spec.inPlace /\ Restarts(id) THEN replicas ELSE Without(id)
    /\ rep' = [rep EXCEPT ![id] = IF spec.inPlace /\ Restarts(id)
                                  THEN [@ EXCEPT !.pc = "backoff", !.failed = FALSE] ELSE Absent]
    /\ replacing' = IF ~spec.inPlace /\ Restarts(id) THEN replacing + 1 ELSE replacing
    /\ UNCHANGED <<spec, want, starting, closed, cancelled, counters>>

Short == ~closed /\ Len(replicas) + starting < want

\* replace: the backoff ends, because the set stopped or in its time.
Replace ==
    /\ replacing > 0 /\ replacing' = replacing - 1
    /\ IF ~cancelled /\ Short
       THEN /\ starting' = starting + 1
            /\ \E id \in Free : rep' = Begin({id}, "replace", rep)
       ELSE UNCHANGED <<starting, rep>>
    /\ UNCHANGED <<spec, want, replicas, closed, cancelled, counters>>

\* restartInPlace: the backoff ends because the replica's context did.
BackoffEnded(id) ==
    /\ rep[id].pc = "backoff" /\ (cancelled \/ rep[id].stopped)
    /\ rep' = [rep EXCEPT ![id] = Absent]
    /\ UNCHANGED <<spec, want, replicas, starting, closed, cancelled, replacing, counters>>

RestartBegins(id) ==
    /\ rep[id].pc = "backoff" /\ ~cancelled /\ ~rep[id].stopped
    /\ rep' = [rep EXCEPT ![id].pc = "restarting"]
    /\ UNCHANGED <<spec, want, replicas, starting, closed, cancelled, replacing, counters>>

RestartFailed(id) ==
    /\ rep[id].pc = "restarting"
    /\ failures < MaxFailures /\ failures' = failures + 1
    /\ rep' = [rep EXCEPT ![id].pc = "backoff"]
    /\ UNCHANGED <<spec, want, replicas, starting, closed, cancelled, replacing, calls, exits, refused>>

\* mutant: does not look whether the replica was stopped meanwhile
RestartedBlind(id) ==
    /\ rep[id].pc = "restarting"
    /\ rep' = [rep EXCEPT ![id] = [@ EXCEPT !.pc = "running", !.stopped = FALSE]]
    /\ UNCHANGED <<spec, want, replicas, starting, closed, cancelled, replacing, counters>>

\* It runs again, unless it was stopped meanwhile: then its group is stopped
\* and the replica ends.
Restarted(id) ==
    /\ rep[id].pc = "restarting"
    /\ rep' = [rep EXCEPT ![id] = IF @.stopped THEN Absent ELSE [@ EXCEPT !.pc = "running"]]
    /\ UNCHANGED <<spec, want, replicas, starting, closed, cancelled, replacing, counters>>

-----------------------------------------------------------------------------
StartEnds(id) == Started(id) \/ StartFailed(id)
RestartEnds(id) == Restarted(id) \/ RestartFailed(id)
StoppedExits(id) == rep[id].stopped /\ \E fails \in BOOLEAN : Exit(id, fails)

Next ==
    \/ \E n \in Counts : Scale(n) \/ Raise(n) \/ Add(n)
    \/ Stop \/ Cancel \/ Replace
    \/ \E id \in Ids :
          \/ Adopt(id) \/ StopOne(id)
          \/ StartEnds(id) \/ AddUndone(id)
          \/ \E fails \in BOOLEAN : Exit(id, fails)
          \/ Judge(id) \/ BackoffEnded(id) \/ RestartBegins(id) \/ RestartEnds(id)

Spec == Init /\ [][Next]_vars

\* Goroutines run on, backoffs and starts end, and a stopped group exits.
\* Nobody need call the set, and no replica need exit on its own.
Fairness ==
    /\ WF_vars(Cancel) /\ WF_vars(Replace)
    /\ \A id \in Ids :
          /\ WF_vars(StopOne(id)) /\ WF_vars(StartEnds(id)) /\ WF_vars(AddUndone(id))
          /\ WF_vars(StoppedExits(id)) /\ WF_vars(Judge(id))
          /\ WF_vars(BackoffEnded(id)) /\ WF_vars(RestartBegins(id)) /\ WF_vars(RestartEnds(id))

FairSpec == Spec /\ Fairness

-----------------------------------------------------------------------------
(* Properties *)

\* No workload runs on outside the set: one that runs, or is being started in
\* place, is held by the set, about to be stopped by the goroutine that
\* dropped it, or stopped.  What the set holds is a replica, held once.
NoOrphan ==
    /\ \A id \in Ids :
          rep[id].pc \in {"running", "backoff", "restarting"} =>
              Held(id) \/ rep[id].dropped \/ rep[id].stopped
    /\ \A i \in DOMAIN replicas :
          /\ rep[replicas[i]].pc \in {"running", "exited", "backoff", "restarting"}
          /\ \A j \in DOMAIN replicas : i # j => replicas[i] # replicas[j]

\* A set that restarts Always keeps its count: as long as no start failed for
\* a caller of Scale, Raise or Add, a replica is missing only while a
\* replacement is on its way, whatever exits, fails to be replaced, is scaled
\* down and up again in between.
KeptUp ==
    (spec.restart = "Always" /\ Short /\ refused = 0) => replacing > 0

\* After Stop nothing the set ever started runs on, and nothing starts again:
\* replicas that were starting, backing off or being replaced included.
StopEnds ==
    closed ~> [](\A id \in Ids : rep[id].pc = "none" /\ replacing = 0)
=============================================================================
