------------------------------- MODULE JobRun -------------------------------
(***************************************************************************)
(* An execution of tasks to completion (sim/jobrun): the mechanism behind  *)
(* Cloud Run job executions and Container Apps job executions.  Every      *)
(* section under the execution's lock is one action; between two of them   *)
(* the goroutines that start and watch workloads, the timers, Cancel and a *)
(* crash of the simulator interleave.  Workloads (containers) outlive the  *)
(* process, and a restarted simulator adopts them.                         *)
(*                                                                         *)
(* The cloud's records are what Hooks.Changed wrote: it runs under the     *)
(* lock at every change of a task, so they equal "tasks" whenever the lock *)
(* is free, which is when a crash is modelled.  Time is abstracted: an     *)
(* armed attempt timer may fire at any moment, a task timer once the task  *)
(* outlived its timeout.                                                   *)
(***************************************************************************)
EXTENDS Integers, FiniteSets

CONSTANTS
    N,                  \* Spec.Tasks
    Parallelism,        \* Spec.Parallelism, 0 for no limit
    MaxRetries,         \* Spec.MaxRetries
    Needed,             \* Completions(n); 0 is the AllSucceed policy
    AttemptTimeout,     \* whether Spec.AttemptTimeout is set
    TaskTimeout,        \* whether Spec.TaskTimeout is set
    RetryAnswers,       \* what Hooks.Retry may answer
    MaxCrashes          \* bound: crashes

ASSUME SpecAssumption ==
    /\ N \in Nat \ {0} /\ Parallelism \in Nat /\ MaxRetries \in Nat
    /\ Needed \in 0 .. N
    /\ AttemptTimeout \in BOOLEAN /\ TaskTimeout \in BOOLEAN
    /\ RetryAnswers \subseteq BOOLEAN /\ RetryAnswers # {}
    /\ MaxCrashes \in Nat

Tasks == 0 .. N - 1
Limit == IF Parallelism = 0 THEN N ELSE Parallelism

VARIABLES
    tasks,      \* index -> status and number of the current attempt
    attempts,   \* index -> the live part of the current attempt
    verdict,    \* Execution.verdict
    finished,   \* Finished ran, and the cloud recorded the completion
    closed,     \* the cloud recorded a cancellation
    up,         \* whether the process runs the execution
    began,      \* tasks whose FirstStarted is set
    overdue,    \* tasks that outlived Spec.TaskTimeout
    live,       \* running workloads, each <<index, attempt>>
    asked,      \* the live workloads that were asked to stop
    unclaimed,  \* workloads of an earlier process that no task adopted
    launched,   \* history: workloads ever launched
    crashes

vars == <<tasks, attempts, verdict, finished, closed, up, began, overdue, live, asked,
          unclaimed, launched, crashes>>

Statuses == {"Pending", "Running", "Succeeded", "Failed", "Cancelled"}
Terminal == {"Succeeded", "Failed", "Cancelled"}
Verdicts == {"Undecided", "Success", "Failure", "Cancellation"}
Workloads == Tasks \X (0 .. MaxRetries)

\* attempts[i] = nil
NoAttempt == [pc |-> "none", stopped |-> FALSE, timedOut |-> FALSE, taskExpired |-> FALSE]
\* The Start hook is running; it launched the workload; the workload runs;
\* the workload exited, with the code its watcher will record.
Stages == {"none", "starting", "launched", "running", "exited0", "exited1"}
NewAttempt(pc) == [NoAttempt EXCEPT !.pc = pc]

TypeOK ==
    /\ tasks \in [Tasks -> [status : Statuses, attempt : 0 .. MaxRetries]]
    /\ attempts \in [Tasks -> [pc : Stages, stopped : BOOLEAN, timedOut : BOOLEAN,
                               taskExpired : BOOLEAN]]
    /\ verdict \in Verdicts /\ finished \in BOOLEAN /\ closed \in BOOLEAN /\ up \in BOOLEAN
    /\ began \subseteq Tasks /\ overdue \subseteq began
    /\ live \subseteq Workloads /\ asked \subseteq Workloads
    /\ unclaimed \subseteq Workloads /\ launched \subseteq Workloads
    /\ crashes \in 0 .. MaxCrashes

-----------------------------------------------------------------------------
(***************************************************************************)
(* The code under the lock, as functions on a state of the execution       *)
(* st = [tasks, attempts, verdict, asked].                                 *)
(***************************************************************************)
With(T, status) == {i \in Tasks : T[i].status = status}

\* mutant: gives up while the open tasks would still be enough
PolicyHasty(T) ==
    LET succeeded == Cardinality(With(T, "Succeeded"))
        open == Cardinality(With(T, "Pending") \cup With(T, "Running"))
    IN  IF succeeded >= Needed THEN "Success"
        ELSE IF succeeded + open <= Needed THEN "Failure" ELSE "Undecided"

\* Policy: AllSucceed and Completions(n), from the tasks' counts.
Policy(T) ==
    LET succeeded == Cardinality(With(T, "Succeeded"))
        open == Cardinality(With(T, "Pending") \cup With(T, "Running"))
    IN  IF Needed = 0
        THEN IF open > 0 THEN "Undecided"
             ELSE IF succeeded = N THEN "Success" ELSE "Failure"
        ELSE IF succeeded >= Needed THEN "Success"
             ELSE IF succeeded + open < Needed THEN "Failure" ELSE "Undecided"

\* The workload of each attempt that runs now, of the tasks in S.
Running(st, S) ==
    {<<i, st.tasks[i].attempt>> : i \in {j \in S : st.attempts[j].pc = "running"}}

\* mutant: forgets to mark the attempts it stops
StopRemainingUnmarked(st) ==
    LET open == {i \in Tasks : st.tasks[i].status \notin Terminal}
    IN  [st EXCEPT !.tasks = [i \in Tasks |->
                       IF i \in open THEN [st.tasks[i] EXCEPT !.status = "Cancelled"] ELSE st.tasks[i]]]

\* stopRemainingLocked ends the open tasks and stops their workloads.
StopRemaining(st) ==
    LET open == {i \in Tasks : st.tasks[i].status \notin Terminal}
        stopping == {i \in open : st.attempts[i].pc # "none"}
    IN  [st EXCEPT
          !.tasks = [i \in Tasks |->
              IF i \in open THEN [st.tasks[i] EXCEPT !.status = "Cancelled"] ELSE st.tasks[i]],
          !.attempts = [i \in Tasks |->
              IF i \in stopping THEN [st.attempts[i] EXCEPT !.stopped = TRUE] ELSE st.attempts[i]],
          !.asked = @ \cup Running(st, stopping)]

\* mutant: counts only the slots, not the tasks that already run
AdmittedOver(T) ==
    {i \in With(T, "Pending") : Cardinality({j \in With(T, "Pending") : j < i}) < Limit}

\* The pending tasks that fit the free slots, lowest index first.
Admitted(T) ==
    {i \in With(T, "Pending") :
        Cardinality(With(T, "Running")) + Cardinality({j \in With(T, "Pending") : j < i}) < Limit}

StartAdmitted(st) ==
    [st EXCEPT
      !.tasks = [i \in Tasks |->
          IF i \in Admitted(st.tasks) THEN [st.tasks[i] EXCEPT !.status = "Running"] ELSE st.tasks[i]],
      !.attempts = [i \in Tasks |->
          IF i \in Admitted(st.tasks) THEN NewAttempt("starting") ELSE st.attempts[i]]]

\* advanceLocked, but for its call of finishIfDoneLocked (see Commit).
Advance(st) ==
    LET v == IF st.verdict = "Undecided" THEN Policy(st.tasks) ELSE st.verdict
    IN  IF st.verdict # "Undecided" THEN st
        ELSE IF v # "Undecided" THEN StopRemaining([st EXCEPT !.verdict = v])
        ELSE StartAdmitted(st)

\* retries: whether task i runs again after its attempt failed.
Retries(st, i, answer) ==
    /\ st.tasks[i].attempt < MaxRetries
    /\ st.verdict = "Undecided"
    /\ ~st.attempts[i].taskExpired
    /\ ~(TaskTimeout /\ i \in overdue)
    /\ answer

\* attemptEndedLocked: task i moves to Succeeded, to its next attempt or to
\* Failed; a task the execution already ended keeps its status.
AttemptEnded(st, i, success, answer) ==
    LET again == ~success /\ Retries(st, i, answer)
        status == IF success THEN "Succeeded" ELSE "Failed"
    IN  IF st.tasks[i].status # "Running" THEN [st EXCEPT !.attempts[i] = NoAttempt]
        ELSE IF again
        THEN [st EXCEPT !.tasks[i].attempt = @ + 1, !.attempts[i] = NewAttempt("starting")]
        ELSE [st EXCEPT !.tasks[i].status = status, !.attempts[i] = NoAttempt]

Now == [tasks |-> tasks, attempts |-> attempts, verdict |-> verdict, asked |-> asked]

\* mutant: finishes with the verdict, while workloads are still stopping
CommitEarly(st) ==
    /\ tasks' = st.tasks /\ attempts' = st.attempts /\ verdict' = st.verdict
    /\ asked' = st.asked \cap live'
    /\ finished' = (finished \/ st.verdict # "Undecided")

\* The locked section ends with finishIfDoneLocked.
Commit(st) ==
    /\ tasks' = st.tasks
    /\ attempts' = st.attempts
    /\ verdict' = st.verdict
    /\ asked' = st.asked \cap live'
    /\ finished' = (finished \/ (st.verdict # "Undecided" /\ \A i \in Tasks : st.attempts[i].pc = "none"))

-----------------------------------------------------------------------------
(***************************************************************************)
(* Actions                                                                 *)
(***************************************************************************)
\* Start begins the execution with every task pending and advances it.
Init ==
    LET T == [i \in Tasks |-> [status |-> "Pending", attempt |-> 0]]
        st == Advance([tasks |-> T, attempts |-> [i \in Tasks |-> NoAttempt],
                       verdict |-> "Undecided", asked |-> {}])
    IN  /\ tasks = st.tasks /\ attempts = st.attempts /\ verdict = st.verdict
        /\ finished = FALSE /\ closed = FALSE /\ up = TRUE
        /\ began = {} /\ overdue = {} /\ live = {} /\ asked = {} /\ unclaimed = {}
        /\ launched = {} /\ crashes = 0

\* The Start hook launches the workload; the execution learns of it later.
Launch(i) ==
    /\ up /\ attempts[i].pc = "starting"
    /\ attempts' = [attempts EXCEPT ![i].pc = "launched"]
    /\ live' = live \cup {<<i, tasks[i].attempt>>}
    /\ launched' = launched \cup {<<i, tasks[i].attempt>>}
    /\ UNCHANGED <<tasks, verdict, finished, closed, up, began, overdue, asked, unclaimed, crashes>>

\* attemptStarted: the workload is watched, and stopped at once when the
\* execution stopped the attempt meanwhile.
Started(i) ==
    /\ up /\ attempts[i].pc = "launched"
    /\ attempts' = [attempts EXCEPT ![i].pc = "running"]
    /\ asked' = IF attempts[i].stopped \/ attempts[i].taskExpired
                THEN asked \cup {<<i, tasks[i].attempt>>} ELSE asked
    /\ began' = began \cup {i}
    /\ UNCHANGED <<tasks, verdict, finished, closed, up, overdue, live, unclaimed, launched, crashes>>

\* mutant: returns without advanceLocked
StartFailedStuck(i) ==
    /\ up /\ attempts[i].pc = "starting"
    /\ UNCHANGED live
    /\ \E answer \in RetryAnswers : Commit(AttemptEnded(Now, i, FALSE, answer))
    /\ UNCHANGED <<closed, up, began, overdue, unclaimed, launched, crashes>>

\* attemptStarted with an error: the attempt ended without a workload.
StartFailed(i) ==
    /\ up /\ attempts[i].pc = "starting"
    /\ UNCHANGED live
    /\ \E answer \in RetryAnswers : Commit(Advance(AttemptEnded(Now, i, FALSE, answer)))
    /\ UNCHANGED <<closed, up, began, overdue, unclaimed, launched, crashes>>

\* A workload exits, with code 0 or not.  The watcher of its attempt has
\* the exit and will take the lock; without a process nobody watches.
Exit(w, code) ==
    /\ w \in live
    /\ live' = live \ {w} /\ asked' = asked \ {w} /\ unclaimed' = unclaimed \ {w}
    /\ IF up /\ w \notin unclaimed
       THEN /\ attempts[w[1]].pc = "running"
            /\ attempts' = [attempts EXCEPT ![w[1]].pc = code]
       ELSE UNCHANGED attempts
    /\ UNCHANGED <<tasks, verdict, finished, closed, up, began, overdue, launched, crashes>>

\* watchAttempt records how the attempt ended.
Watched(i) ==
    /\ up /\ attempts[i].pc \in {"exited0", "exited1"}
    /\ UNCHANGED live
    /\ LET success == attempts[i].pc = "exited0" /\ ~attempts[i].timedOut /\ ~attempts[i].stopped
       IN  \E answer \in RetryAnswers : Commit(Advance(AttemptEnded(Now, i, success, answer)))
    /\ UNCHANGED <<closed, up, began, overdue, unclaimed, launched, crashes>>

\* Task i outlives Spec.TaskTimeout, counted from its first start; the clock
\* runs between its attempts and while the simulator is down, too.
Overdue(i) ==
    /\ TaskTimeout /\ tasks[i].status = "Running"
    /\ i \in began \ overdue
    /\ overdue' = overdue \cup {i}
    /\ UNCHANGED <<tasks, attempts, verdict, finished, closed, up, began, live, asked,
                   unclaimed, launched, crashes>>

\* mutant: the timer marks the attempt and leaves its workload running
TimedOutUnstopped(i, task) ==
    /\ up /\ attempts[i].pc \in {"running", "exited0", "exited1"}
    /\ ~attempts[i].stopped
    /\ IF task THEN i \in overdue /\ ~attempts[i].taskExpired
       ELSE AttemptTimeout /\ ~attempts[i].timedOut
    /\ attempts' = [attempts EXCEPT ![i].timedOut = TRUE, ![i].taskExpired = @ \/ task]
    /\ UNCHANGED <<tasks, verdict, finished, closed, up, began, overdue, live, asked,
                   unclaimed, launched, crashes>>

\* timedOut: an armed timer fires.  The workload may have exited already,
\* with its watcher still waiting for the lock.
TimedOut(i, task) ==
    /\ up /\ attempts[i].pc \in {"running", "exited0", "exited1"}
    /\ ~attempts[i].stopped
    /\ IF task THEN i \in overdue /\ ~attempts[i].taskExpired
       ELSE AttemptTimeout /\ ~attempts[i].timedOut
    /\ attempts' = [attempts EXCEPT ![i].timedOut = TRUE, ![i].taskExpired = @ \/ task]
    /\ asked' = asked \cup Running(Now, {i})
    /\ UNCHANGED <<tasks, verdict, finished, closed, up, began, overdue, live, unclaimed, launched, crashes>>

\* The cloud records a cancellation, and only then calls Cancel.
RecordCancel ==
    /\ up /\ ~finished /\ ~closed
    /\ closed' = TRUE
    /\ UNCHANGED <<tasks, attempts, verdict, finished, up, began, overdue, live, asked,
                   unclaimed, launched, crashes>>

\* Cancel, which returns at once when the verdict was reached meanwhile.
Cancel ==
    /\ up /\ closed /\ verdict = "Undecided"
    /\ UNCHANGED live
    /\ Commit(StopRemaining([Now EXCEPT !.verdict = "Cancellation"]))
    /\ UNCHANGED <<closed, up, began, overdue, unclaimed, launched, crashes>>

Crash ==
    /\ up /\ ~finished /\ crashes < MaxCrashes
    /\ up' = FALSE /\ crashes' = crashes + 1
    /\ attempts' = [i \in Tasks |-> NoAttempt]
    /\ verdict' = "Undecided" /\ asked' = {} /\ unclaimed' = live
    /\ UNCHANGED <<tasks, finished, closed, began, overdue, live, launched>>

\* mutant: runs a lost attempt again under its own number
EndLostSame(st, lost, answers) ==
    [st EXCEPT !.attempts = [i \in Tasks |-> IF i \in lost THEN NewAttempt("starting") ELSE st.attempts[i]]]

\* Resume ends the lost attempts, one after the other, before it advances.
EndLost(st, lost, answers) ==
    LET ended(i) == AttemptEnded(st, i, FALSE, answers[i])
    IN  [st EXCEPT
          !.tasks = [i \in Tasks |-> IF i \in lost THEN ended(i).tasks[i] ELSE st.tasks[i]],
          !.attempts = [i \in Tasks |-> IF i \in lost THEN ended(i).attempts[i] ELSE st.attempts[i]]]

\* Resume: a running task adopts the workload of its attempt; the attempt is
\* lost when the workload is gone or Adopt fails.  An execution the cloud
\* recorded as cancelled is not resumed.
Resume ==
    LET running == With(tasks, "Running")
        present == {i \in running : <<i, tasks[i].attempt>> \in live}
    IN
    /\ ~up /\ ~closed /\ up' = TRUE
    /\ \E adopted \in SUBSET present, answers \in [Tasks -> RetryAnswers] :
          LET st == [Now EXCEPT !.attempts = [i \in Tasks |->
                        IF i \in adopted THEN NewAttempt("running") ELSE NoAttempt]]
          IN  /\ UNCHANGED live
              /\ unclaimed' = live \ {<<i, tasks[i].attempt>> : i \in adopted}
              /\ began' = began \cup adopted
              /\ Commit(Advance(EndLost(st, running \ adopted, answers)))
    /\ UNCHANGED <<closed, overdue, launched, crashes>>

\* The cloud removes the containers no task claimed.
RemoveUnclaimed(w) ==
    /\ w \in unclaimed
    /\ up \/ closed
    /\ live' = live \ {w} /\ unclaimed' = unclaimed \ {w}
    /\ UNCHANGED <<tasks, attempts, verdict, finished, closed, up, began, overdue, asked, launched, crashes>>

Next ==
    \/ \E i \in Tasks :
          \/ Launch(i) \/ Started(i) \/ StartFailed(i) \/ Watched(i) \/ Overdue(i)
          \/ \E task \in BOOLEAN : TimedOut(i, task)
    \/ \E w \in Workloads : (\E code \in {"exited0", "exited1"} : Exit(w, code)) \/ RemoveUnclaimed(w)
    \/ RecordCancel \/ Cancel \/ Crash \/ Resume

Spec == Init /\ [][Next]_vars

\* Hooks return, timers fire, a workload asked to stop exits, and the
\* simulator is restarted.
Fairness ==
    /\ \A i \in Tasks :
          /\ WF_vars(Launch(i)) /\ WF_vars(Started(i)) /\ WF_vars(Watched(i))
          /\ WF_vars(TimedOut(i, FALSE))
    /\ \A w \in Workloads :
          WF_vars(w \in asked /\ \E code \in {"exited0", "exited1"} : Exit(w, code))
    /\ WF_vars(Resume)

FairSpec == Spec /\ Fairness

-----------------------------------------------------------------------------
(***************************************************************************)
(* Properties                                                              *)
(***************************************************************************)

Claimed == live \ unclaimed

\* At most Parallelism workloads of the execution run at once, through
\* retries, timeouts, cancellation and adoption after a crash.
ParallelismBound ==
    /\ Cardinality(With(tasks, "Running")) <= Limit
    /\ Cardinality(Claimed) <= Limit

\* A free slot is never left idle: while the execution is undecided, either
\* every slot is taken or no task is waiting, and no task waits while one of
\* higher index has begun.
SlotsUsed ==
    (up /\ verdict = "Undecided") =>
        /\ With(tasks, "Pending") # {} => Cardinality(With(tasks, "Running")) = Limit
        /\ \A i, j \in Tasks : (i < j /\ tasks[i].status = "Pending") => tasks[j].status = "Pending"

\* Finished runs only when no workload the process tracks is left: every
\* attempt of every task was seen to end.
FinishedClean == finished => (verdict # "Undecided" /\ Claimed = {})

\* A workload of a task that ended is asked to stop, or is about to be
\* recorded, or removed: none runs on unnoticed.
NoStrayWorkload ==
    up => \A w \in Claimed :
             \/ tasks[w[1]].status = "Running" /\ tasks[w[1]].attempt = w[2]
             \/ w \in asked
             \/ attempts[w[1]].pc = "launched" /\ attempts[w[1]].stopped

\* The verdict is earned: Success by as many succeeded tasks as the policy
\* needs; Failure only once so many tasks failed that too few are left, and
\* with a Retry hook that never refuses a task fails only after its last
\* retry or past its timeout.  A restarted simulator that decides again from
\* the recorded tasks is held to the same.
VerdictEarned ==
    LET needed == IF Needed = 0 THEN N ELSE Needed IN
    /\ verdict = "Success" => Cardinality(With(tasks, "Succeeded")) >= needed
    /\ verdict = "Failure" => Cardinality(With(tasks, "Failed")) > N - needed
    /\ RetryAnswers = {TRUE} =>
          \A i \in With(tasks, "Failed") : tasks[i].attempt = MaxRetries \/ i \in overdue

\* An attempt's workload is launched at most once, across crashes too, so a
\* task runs at most MaxRetries + 1 workloads.
LaunchOnce == [][\A w \in Workloads : (w \in live' /\ w \notin live) => w \notin launched]_vars

\* With an attempt timeout every execution ends: it finishes with its
\* verdict, whatever its workloads do and through bounded crashes, unless a
\* crash follows its cancellation, which is then already recorded.
EventuallyFinished == <>(finished \/ (closed /\ ~up))
=============================================================================
