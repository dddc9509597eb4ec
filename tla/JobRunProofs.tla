---------------------------- MODULE JobRunProofs ----------------------------
(***************************************************************************)
(* TLAPS proofs about JobRun, for every number of tasks, parallelism,      *)
(* retry limit and completion policy: type correctness, the parallelism    *)
(* bound, that no slot stays idle, that the verdict is earned, that no     *)
(* workload runs on unnoticed, that an execution finishes clean and that   *)
(* an attempt is launched once, through crashes and resumptions; that an   *)
(* execution never waits for nothing, and that what a task's record says   *)
(* at its end is final.                                                    *)
(***************************************************************************)
EXTENDS JobRun, FiniteSetTheorems, WellFoundedInduction, TLAPS

-----------------------------------------------------------------------------
(***************************************************************************)
(* The inductive invariant.  Its parts are stated of a state st of the     *)
(* execution, because a locked section passes through states that are      *)
(* never seen: a task that ended whose slot is not yet given away.         *)
(***************************************************************************)
Task == [status : Statuses, attempt : 0 .. MaxRetries]
Attempt == [pc : Stages, stopped : BOOLEAN, timedOut : BOOLEAN, taskExpired : BOOLEAN]

State == [tasks : [Tasks -> Task], attempts : [Tasks -> Attempt], verdict : Verdicts,
          asked : SUBSET Workloads]

Rest ==
    /\ finished \in BOOLEAN /\ closed \in BOOLEAN /\ up \in BOOLEAN
    /\ began \subseteq Tasks /\ overdue \subseteq began
    /\ live \subseteq Workloads /\ unclaimed \subseteq Workloads /\ launched \subseteq Workloads
    /\ crashes \in 0 .. MaxCrashes

\* The tasks with an attempt in progress.
Busy(A) == {i \in Tasks : A[i].pc # "none"}

Enough == IF Needed = 0 THEN N ELSE Needed

\* Tasks begin in the order of their index.
InOrder(T) == \A i, j \in Tasks : (i < j /\ T[i].status = "Pending") => T[j].status = "Pending"

Bounded(T) == Cardinality(With(T, "Running")) <= Limit

\* No task fails that could have been tried again.
FailedLate(T) ==
    RetryAnswers = {TRUE} =>
        \A i \in With(T, "Failed") : T[i].attempt = MaxRetries \/ i \in overdue

\* Tasks were ended early only by a verdict their results already fix, which
\* a resumed execution finds again, or by a cancellation.
Fixed(T, cancelled) ==
    (With(T, "Cancelled") # {} /\ ~cancelled) =>
        \/ Cardinality(With(T, "Succeeded")) >= Enough
        \/ Cardinality(With(T, "Failed")) > N - Enough

TasksInv(T, cancelled) == InOrder(T) /\ Bounded(T) /\ FailedLate(T) /\ Fixed(T, cancelled)

\* What an attempt in progress says of its task.
Linked(t, a, v) ==
    /\ t.status \in {"Pending", "Succeeded", "Failed"} => a.pc = "none"
    /\ t.status = "Running" => a.pc # "none"
    /\ t.status = "Cancelled" => (a.pc = "none" \/ (a.stopped /\ v # "Undecided"))

Earned(T, v) ==
    /\ v = "Success" => Cardinality(With(T, "Succeeded")) >= Enough
    /\ v = "Failure" => Cardinality(With(T, "Failed")) > N - Enough

\* An execution the process runs, before and after it gives slots away.
Open(st, cancelled) ==
    /\ st \in State
    /\ TasksInv(st.tasks, cancelled)
    /\ \A i \in Tasks : Linked(st.tasks[i], st.attempts[i], st.verdict)
    /\ \A i \in Tasks : (st.attempts[i].pc = "running" /\ st.attempts[i].stopped) =>
                           <<i, st.tasks[i].attempt>> \in st.asked
    /\ \A i \in Tasks : st.attempts[i].taskExpired => i \in overdue
    /\ Cardinality(Busy(st.attempts)) <= Limit
    /\ Earned(st.tasks, st.verdict)
    /\ st.verdict # "Undecided" => With(st.tasks, "Pending") \cup With(st.tasks, "Running") = {}
    /\ st.verdict = "Undecided" => Fixed(st.tasks, FALSE)

Full(st) ==
    (st.verdict = "Undecided" /\ With(st.tasks, "Pending") # {}) =>
        Cardinality(With(st.tasks, "Running")) = Limit

\* Without a process the execution is only what the cloud recorded.
Down ==
    /\ attempts = [i \in Tasks |-> NoAttempt] /\ verdict = "Undecided"
    /\ asked = {} /\ unclaimed = live /\ ~finished

\* The workloads that are claimed are those of the attempts in progress, and
\* the next one to be launched never was.
Matched(T, A, U) ==
    /\ \A w \in Workloads : (w \in live /\ w \notin U) <=>
          (A[w[1]].pc \in {"launched", "running"} /\ T[w[1]].attempt = w[2])
    /\ \A w \in launched :
          /\ w[2] <= T[w[1]].attempt
          /\ T[w[1]].status # "Pending"
          /\ A[w[1]].pc = "starting" => w[2] < T[w[1]].attempt

Held == unclaimed \subseteq live /\ live \subseteq launched

IInv ==
    /\ Now \in State /\ Rest
    /\ TasksInv(tasks, closed)
    /\ up => (Open(Now, closed) /\ Full(Now))
    /\ ~up => Down
    /\ Matched(tasks, attempts, unclaimed) /\ Held
    /\ finished => (up /\ verdict # "Undecided" /\ Busy(attempts) = {})

-----------------------------------------------------------------------------
(* Counting tasks *)

\* A nonempty set of tasks has a first and a last member.
LEMMA LeastTask ==
  ASSUME NEW S \in SUBSET Tasks, S # {}
  PROVE  \E x \in S : \A y \in S : x <= y
<1>0. S \in SUBSET Nat
  BY SpecAssumption DEF Tasks
<1>1. PICK x \in S : \A y \in S : ~(<<y, x>> \in OpToRel(<, Nat))
  BY <1>0, NatLessThanWellFounded, WFMin
<1>2. \A y \in S : ~(y < x)
  BY <1>0, <1>1 DEF OpToRel
<1> QED
  BY <1>0, <1>2

\* The last member, likewise.
LEMMA LastTask ==
  ASSUME NEW S \in SUBSET Tasks, S # {}
  PROVE  \E x \in S : \A y \in S : y <= x
<1> DEFINE R == {N - 1 - i : i \in S}
<1>0. N \in Nat /\ \A i \in S : i \in Nat /\ i <= N - 1 /\ N - 1 - i \in Nat
  BY SpecAssumption DEF Tasks
<1>1. R \in SUBSET Nat /\ R # {}
  BY <1>0
<1>2. PICK x \in R : \A y \in R : ~(<<y, x>> \in OpToRel(<, Nat))
  BY <1>1, NatLessThanWellFounded, WFMin
<1>3. \A y \in R : ~(y < x)
  BY <1>1, <1>2 DEF OpToRel
<1>4. PICK i \in S : x = N - 1 - i
  OBVIOUS
<1>5. ASSUME NEW j \in S PROVE j <= i
  <2>1. N - 1 - j \in R
    OBVIOUS
  <2>2. ~(N - 1 - j < N - 1 - i)
    BY <1>3, <1>4, <2>1
  <2> QED
    BY <1>0, <2>2
<1> QED
  BY <1>5

\* Sets of tasks are finite, and at most all of them.
LEMMA CountType ==
  ASSUME NEW S \in SUBSET Tasks
  PROVE  IsFiniteSet(S) /\ Cardinality(S) \in Nat /\ Cardinality(S) <= N
<1>1. IsFiniteSet(Tasks) /\ Cardinality(Tasks) = N
  BY SpecAssumption, FS_Interval DEF Tasks
<1> QED
  BY <1>1, FS_Subset, FS_CardinalityType

\* A set of tasks within another is no larger.
LEMMA CountSubset ==
  ASSUME NEW S \in SUBSET Tasks, NEW R \in SUBSET S
  PROVE  Cardinality(R) <= Cardinality(S)
  BY CountType, FS_Subset

\* Disjoint sets of tasks add up.
LEMMA CountDisjoint ==
  ASSUME NEW S \in SUBSET Tasks, NEW R \in SUBSET Tasks, S \cap R = {}
  PROVE  Cardinality(S \cup R) = Cardinality(S) + Cardinality(R)
<1>1. IsFiniteSet(S) /\ IsFiniteSet(R) /\ Cardinality(S) \in Nat /\ Cardinality(R) \in Nat
  BY CountType
<1>2. Cardinality(S \cup R) = Cardinality(S) + Cardinality(R) - Cardinality(S \cap R)
  BY <1>1, FS_Union
<1>3. Cardinality(S \cap R) = 0
  BY FS_EmptySet
<1> QED
  BY <1>1, <1>2, <1>3

\* Limit is a number of slots, and there is at least one.
LEMMA LimitType == Limit \in Nat /\ Limit > 0
  BY SpecAssumption DEF Limit

-----------------------------------------------------------------------------
(* Admission *)

\* The loop of startAdmitted gives away no slot twice.
LEMMA AdmittedFits ==
  ASSUME NEW T, Bounded(T)
  PROVE  Cardinality(With(T, "Running")) + Cardinality(Admitted(T)) <= Limit
<1> DEFINE A == Admitted(T)
           P == With(T, "Pending")
           Before(i) == {j \in P : j < i}
           r == Cardinality(With(T, "Running"))
<1>0. /\ A \in SUBSET Tasks /\ P \in SUBSET Tasks /\ With(T, "Running") \in SUBSET Tasks
      /\ A \in SUBSET P /\ \A k \in Tasks : k \in Int
  BY DEF Admitted, With, Tasks
<1>1. r \in Nat /\ r <= Limit /\ Limit \in Nat /\ Cardinality(A) \in Nat
  BY <1>0, CountType, LimitType DEF Bounded
<1>2. CASE A = {}
  BY <1>1, <1>2, FS_EmptySet
<1>3. CASE A # {}
  <2>1. PICK m \in A : \A y \in A : y <= m
    BY <1>0, <1>3, LastTask
  <2>2. r + Cardinality(Before(m)) < Limit
    BY <2>1 DEF Admitted
  <2>3. A \ {m} \in SUBSET Before(m)
    <3> SUFFICES ASSUME NEW k \in A, k # m PROVE k \in P /\ k < m
      OBVIOUS
    <3>1. k \in Int /\ m \in Int /\ k <= m
      BY <1>0, <2>1
    <3> QED
      BY <1>0, <3>1
  <2>4. Before(m) \in SUBSET Tasks
    BY <1>0
  <2>5. Cardinality(A \ {m}) <= Cardinality(Before(m)) /\ Cardinality(Before(m)) \in Nat
    BY <2>3, <2>4, CountSubset, CountType
  <2>6. Cardinality(A \ {m}) = Cardinality(A) - 1
    BY <1>0, <2>1, CountType, FS_RemoveElement
  <2> QED
    BY <1>1, <2>2, <2>5, <2>6
<1> QED
  BY <1>2, <1>3

\* It leaves a task waiting only when every slot is given away.
LEMMA AdmittedFills ==
  ASSUME NEW T, Bounded(T), With(T, "Pending") \ Admitted(T) # {}
  PROVE  Cardinality(With(T, "Running")) + Cardinality(Admitted(T)) = Limit
<1> DEFINE A == Admitted(T)
           P == With(T, "Pending")
           Before(i) == {j \in P : j < i}
           r == Cardinality(With(T, "Running"))
<1>0. /\ A \in SUBSET Tasks /\ P \in SUBSET Tasks /\ With(T, "Running") \in SUBSET Tasks
      /\ P \ A \in SUBSET Tasks /\ \A k \in Tasks : k \in Int
  BY DEF Admitted, With, Tasks
<1>1. r \in Nat /\ Limit \in Nat /\ Cardinality(A) \in Nat /\ r + Cardinality(A) <= Limit
  BY <1>0, CountType, LimitType, AdmittedFits
<1>2. PICK m \in P \ A : \A y \in P \ A : m <= y
  BY <1>0, LeastTask
<1>3. ~(r + Cardinality(Before(m)) < Limit)
  BY <1>2 DEF Admitted
<1>4. Before(m) \in SUBSET A
  <2> SUFFICES ASSUME NEW k \in P, k < m, k \notin A PROVE FALSE
    OBVIOUS
  <2>1. k \in Int /\ m \in Int /\ m <= k
    BY <1>0, <1>2
  <2> QED
    BY <2>1
<1>5. Cardinality(Before(m)) <= Cardinality(A) /\ Cardinality(Before(m)) \in Nat
  BY <1>0, <1>4, CountSubset, CountType
<1> QED
  BY <1>1, <1>3, <1>5

\* It admits the pending tasks in the order of their index.
LEMMA AdmittedFirst ==
  ASSUME NEW T, NEW i \in With(T, "Pending"), NEW j \in Admitted(T), i < j
  PROVE  i \in Admitted(T)
<1> DEFINE P == With(T, "Pending")
           Before(k) == {l \in P : l < k}
           r == Cardinality(With(T, "Running"))
<1>0. /\ P \in SUBSET Tasks /\ With(T, "Running") \in SUBSET Tasks /\ j \in P
      /\ \A k \in Tasks : k \in Int
  BY DEF Admitted, With, Tasks
<1>1. Before(j) \in SUBSET Tasks /\ Before(i) \in SUBSET Before(j) /\ Before(i) \in SUBSET Tasks
  <2>1. i \in Int /\ j \in Int /\ \A k \in P : k \in Int
    BY <1>0
  <2>2. \A k \in P : k < i => k < j
    BY <2>1
  <2> QED
    BY <1>0, <2>2
<1>2. /\ Cardinality(Before(i)) <= Cardinality(Before(j))
      /\ Cardinality(Before(i)) \in Nat /\ Cardinality(Before(j)) \in Nat
      /\ r \in Nat /\ Limit \in Nat
  BY <1>0, <1>1, CountSubset, CountType, LimitType
<1>3. r + Cardinality(Before(j)) < Limit
  BY DEF Admitted
<1>4. r + Cardinality(Before(i)) < Limit
  BY <1>2, <1>3
<1> QED
  BY <1>4 DEF Admitted

-----------------------------------------------------------------------------
(* The completion policy *)

\* Every task is counted once.
LEMMA Partition ==
  ASSUME NEW T \in [Tasks -> Task]
  PROVE  N = Cardinality(With(T, "Succeeded")) + Cardinality(With(T, "Failed"))
             + Cardinality(With(T, "Cancelled"))
             + Cardinality(With(T, "Pending") \cup With(T, "Running"))
<1> DEFINE S == With(T, "Succeeded")
           F == With(T, "Failed")
           C == With(T, "Cancelled")
           O == With(T, "Pending") \cup With(T, "Running")
<1>0. /\ S \in SUBSET Tasks /\ F \in SUBSET Tasks /\ C \in SUBSET Tasks /\ O \in SUBSET Tasks
      /\ S \cup F \in SUBSET Tasks /\ C \cup O \in SUBSET Tasks
  BY DEF With
<1>1. S \cap F = {} /\ C \cap O = {} /\ (S \cup F) \cap (C \cup O) = {}
  BY DEF With
<1>2. (S \cup F) \cup (C \cup O) = Tasks
  BY DEF With, Task, Statuses
<1>3. Cardinality(Tasks) = N
  BY SpecAssumption, FS_Interval DEF Tasks
<1>n. /\ Cardinality(S) \in Nat /\ Cardinality(F) \in Nat
      /\ Cardinality(C) \in Nat /\ Cardinality(O) \in Nat
  BY <1>0, CountType
<1>4. Cardinality(S \cup F) = Cardinality(S) + Cardinality(F)
  BY <1>0, <1>1, CountDisjoint
<1>5. Cardinality(C \cup O) = Cardinality(C) + Cardinality(O)
  BY <1>0, <1>1, CountDisjoint
<1>6. Cardinality((S \cup F) \cup (C \cup O)) = Cardinality(S \cup F) + Cardinality(C \cup O)
  BY <1>0, <1>1, CountDisjoint
<1>7. Cardinality((S \cup F) \cup (C \cup O)) = N
  BY <1>2, <1>3
<1>8. N = (Cardinality(S) + Cardinality(F)) + (Cardinality(C) + Cardinality(O))
  BY <1>4, <1>5, <1>6, <1>7
<1> HIDE DEF S, F, C, O
<1>9. N = Cardinality(S) + Cardinality(F) + Cardinality(C) + Cardinality(O)
  BY <1>n, <1>8
<1> QED
  BY <1>9 DEF S, F, C, O

\* What the policy decides is earned, also when it decides again from the
\* tasks an earlier verdict ended.
LEMMA PolicyEarned ==
  ASSUME NEW T \in [Tasks -> Task], Fixed(T, FALSE)
  PROVE  Policy(T) \in {"Undecided", "Success", "Failure"} /\ Earned(T, Policy(T))
<1> DEFINE s == Cardinality(With(T, "Succeeded"))
           f == Cardinality(With(T, "Failed"))
           c == Cardinality(With(T, "Cancelled"))
           o == Cardinality(With(T, "Pending") \cup With(T, "Running"))
<1>0. /\ With(T, "Succeeded") \in SUBSET Tasks /\ With(T, "Failed") \in SUBSET Tasks
      /\ With(T, "Cancelled") \in SUBSET Tasks
      /\ With(T, "Pending") \cup With(T, "Running") \in SUBSET Tasks
  BY DEF With
<1>1. s \in Nat /\ f \in Nat /\ c \in Nat /\ o \in Nat /\ N = s + f + c + o
  BY <1>0, CountType, Partition
<1>2. c = 0 \/ s >= Enough \/ f > N - Enough
  BY <1>0, FS_EmptySet DEF Fixed
<1>3. Needed \in Nat /\ N \in Nat
  BY SpecAssumption
<1>4. Policy(T) = IF Needed = 0
        THEN IF o > 0 THEN "Undecided" ELSE IF s = N THEN "Success" ELSE "Failure"
        ELSE IF s >= Needed THEN "Success"
             ELSE IF s + o < Needed THEN "Failure" ELSE "Undecided"
  BY DEF Policy
<1> HIDE DEF s, f, c, o
<1>5. Policy(T) \in {"Undecided", "Success", "Failure"}
  BY <1>4
<1>6. Policy(T) = "Success" => s >= Enough
  BY <1>1, <1>3, <1>4 DEF Enough
<1>7. Policy(T) = "Failure" => f > N - Enough
  <2>1. CASE Needed = 0
    BY <1>1, <1>2, <1>3, <1>4, <2>1 DEF Enough
  <2>2. CASE Needed # 0
    BY <1>1, <1>2, <1>3, <1>4, <2>2 DEF Enough
  <2> QED
    BY <2>1, <2>2
<1> QED
  BY <1>5, <1>6, <1>7 DEF Earned, s, f

-----------------------------------------------------------------------------
(* Attempts that end *)

\* Running tasks that go on or end keep what is known of the tasks.
LEMMA TasksEnd ==
  ASSUME NEW T \in [Tasks -> Task], NEW U \in [Tasks -> Task], NEW c,
         \A i \in Tasks : \/ U[i] = T[i]
                          \/ /\ T[i].status = "Running"
                             /\ U[i].status \in {"Running", "Succeeded", "Failed"}
                             /\ (RetryAnswers = {TRUE} /\ U[i].status = "Failed") =>
                                   (U[i].attempt = MaxRetries \/ i \in overdue),
         TasksInv(T, c)
  PROVE  TasksInv(U, c)
<1>1. \A i \in Tasks : U[i].status = "Pending" <=> T[i].status = "Pending"
  BY DEF With
<1>2. InOrder(U)
  BY <1>1 DEF TasksInv, InOrder
<1>3. Bounded(U)
  <2>1. With(U, "Running") \in SUBSET With(T, "Running") /\ With(T, "Running") \in SUBSET Tasks
    BY DEF With
  <2>2. /\ Cardinality(With(U, "Running")) <= Cardinality(With(T, "Running"))
        /\ Cardinality(With(U, "Running")) \in Nat /\ Cardinality(With(T, "Running")) \in Nat
    BY <2>1, CountSubset, CountType
  <2>3. Cardinality(With(T, "Running")) <= Limit
    BY DEF TasksInv, Bounded
  <2> QED
    BY <2>2, <2>3, LimitType DEF Bounded
<1>4. FailedLate(U)
  BY DEF TasksInv, FailedLate, With
<1>5. Fixed(U, c)
  <2>1. With(U, "Cancelled") = With(T, "Cancelled")
    BY DEF With
  <2>2. /\ With(T, "Succeeded") \in SUBSET With(U, "Succeeded") /\ With(U, "Succeeded") \in SUBSET Tasks
        /\ With(T, "Failed") \in SUBSET With(U, "Failed") /\ With(U, "Failed") \in SUBSET Tasks
    BY DEF With
  <2>3. /\ Cardinality(With(T, "Succeeded")) <= Cardinality(With(U, "Succeeded"))
        /\ Cardinality(With(T, "Failed")) <= Cardinality(With(U, "Failed"))
    BY <2>2, CountSubset
  <2>4. /\ Cardinality(With(T, "Succeeded")) \in Nat /\ Cardinality(With(U, "Succeeded")) \in Nat
        /\ Cardinality(With(T, "Failed")) \in Nat /\ Cardinality(With(U, "Failed")) \in Nat
    BY <2>2, CountType
  <2>5. Enough \in Int /\ N \in Int
    BY SpecAssumption DEF Enough
  <2> QED
    BY <2>1, <2>3, <2>4, <2>5 DEF TasksInv, Fixed
<1> QED
  BY <1>2, <1>3, <1>4, <1>5 DEF TasksInv

\* The task and the attempt AttemptEnded leaves.
EndedTask(st, i, success, answer) ==
    IF st.tasks[i].status # "Running" THEN st.tasks[i]
    ELSE IF ~success /\ Retries(st, i, answer) THEN [st.tasks[i] EXCEPT !.attempt = @ + 1]
    ELSE [st.tasks[i] EXCEPT !.status = IF success THEN "Succeeded" ELSE "Failed"]

EndedAttempt(st, i, success, answer) ==
    IF st.tasks[i].status = "Running" /\ ~success /\ Retries(st, i, answer)
    THEN NewAttempt("starting") ELSE NoAttempt

\* AttemptEnded changes one task and its attempt.
LEMMA EndedParts ==
  ASSUME NEW st \in State, NEW i \in Tasks, NEW success \in BOOLEAN, NEW answer \in BOOLEAN
  PROVE  /\ EndedTask(st, i, success, answer) \in Task
         /\ EndedAttempt(st, i, success, answer) \in Attempt
         /\ AttemptEnded(st, i, success, answer) =
               [tasks |-> [st.tasks EXCEPT ![i] = EndedTask(st, i, success, answer)],
                attempts |-> [st.attempts EXCEPT ![i] = EndedAttempt(st, i, success, answer)],
                verdict |-> st.verdict, asked |-> st.asked]
<1>0. st.tasks \in [Tasks -> Task] /\ st.attempts \in [Tasks -> Attempt] /\ st.tasks[i] \in Task
  BY DEF State
<1>1. Retries(st, i, answer) => st.tasks[i].attempt + 1 \in 0 .. MaxRetries
  BY <1>0, SpecAssumption DEF Retries, Task
<1>2. EndedTask(st, i, success, answer) \in Task
  BY <1>0, <1>1 DEF EndedTask, Task, Statuses
<1>3. NoAttempt \in Attempt /\ NewAttempt("starting") \in Attempt
  BY DEF NoAttempt, NewAttempt, Attempt, Stages
<1>4. EndedAttempt(st, i, success, answer) \in Attempt
  BY <1>3 DEF EndedAttempt
<1>5. st = [tasks |-> st.tasks, attempts |-> st.attempts, verdict |-> st.verdict, asked |-> st.asked]
  BY DEF State
<1>6. CASE st.tasks[i].status # "Running"
  <2>1. AttemptEnded(st, i, success, answer) = [st EXCEPT !.attempts[i] = NoAttempt]
    BY <1>6 DEF AttemptEnded
  <2>2. EndedTask(st, i, success, answer) = st.tasks[i] /\ EndedAttempt(st, i, success, answer) = NoAttempt
    BY <1>6 DEF EndedTask, EndedAttempt
  <2>3. [st.tasks EXCEPT ![i] = st.tasks[i]] = st.tasks
    BY <1>0
  <2> QED
    BY <1>2, <1>4, <1>5, <2>1, <2>2, <2>3
<1>7. CASE st.tasks[i].status = "Running" /\ ~success /\ Retries(st, i, answer)
  <2>1. AttemptEnded(st, i, success, answer)
          = [st EXCEPT !.tasks[i].attempt = @ + 1, !.attempts[i] = NewAttempt("starting")]
    BY <1>7 DEF AttemptEnded
  <2>2. /\ EndedTask(st, i, success, answer) = [st.tasks[i] EXCEPT !.attempt = @ + 1]
        /\ EndedAttempt(st, i, success, answer) = NewAttempt("starting")
    BY <1>7 DEF EndedTask, EndedAttempt
  <2> QED
    BY <1>2, <1>4, <1>5, <2>1, <2>2
<1>8. CASE st.tasks[i].status = "Running" /\ ~(~success /\ Retries(st, i, answer))
  <2>1. AttemptEnded(st, i, success, answer)
          = [st EXCEPT !.tasks[i].status = IF success THEN "Succeeded" ELSE "Failed",
                       !.attempts[i] = NoAttempt]
    BY <1>8 DEF AttemptEnded
  <2>2. /\ EndedTask(st, i, success, answer)
             = [st.tasks[i] EXCEPT !.status = IF success THEN "Succeeded" ELSE "Failed"]
        /\ EndedAttempt(st, i, success, answer) = NoAttempt
    BY <1>8 DEF EndedTask, EndedAttempt
  <2> QED
    BY <1>2, <1>4, <1>5, <2>1, <2>2
<1> QED
  BY <1>6, <1>7, <1>8

\* The task and the attempt it changes.
LEMMA EndedHere ==
  ASSUME NEW st \in State, NEW i \in Tasks, NEW success \in BOOLEAN, NEW answer \in BOOLEAN
  PROVE  /\ AttemptEnded(st, i, success, answer).tasks[i] = EndedTask(st, i, success, answer)
         /\ AttemptEnded(st, i, success, answer).attempts[i] = EndedAttempt(st, i, success, answer)
<1> DEFINE t == EndedTask(st, i, success, answer)
           a == EndedAttempt(st, i, success, answer)
           X == AttemptEnded(st, i, success, answer)
<1>1. st.tasks \in [Tasks -> Task] /\ st.attempts \in [Tasks -> Attempt]
  BY DEF State
<1>2. X = [tasks |-> [st.tasks EXCEPT ![i] = t], attempts |-> [st.attempts EXCEPT ![i] = a],
           verdict |-> st.verdict, asked |-> st.asked]
  BY EndedParts
<1> HIDE DEF t, a, X
<1>3. X.tasks = [st.tasks EXCEPT ![i] = t] /\ X.attempts = [st.attempts EXCEPT ![i] = a]
  BY <1>2
<1>4. X.tasks[i] = t /\ X.attempts[i] = a
  BY <1>1, <1>3
<1> QED
  BY <1>4 DEF t, a, X

\* What AttemptEnded makes of a running task.
LEMMA EndedRunning ==
  ASSUME NEW st \in State, NEW i \in Tasks, NEW success \in BOOLEAN, NEW answer \in RetryAnswers,
         st.tasks[i].status = "Running", st.verdict = "Undecided",
         st.attempts[i].taskExpired => i \in overdue
  PROVE  /\ EndedTask(st, i, success, answer).status \in {"Running", "Succeeded", "Failed"}
         /\ EndedTask(st, i, success, answer).status = "Running"
               <=> EndedAttempt(st, i, success, answer) # NoAttempt
         /\ EndedAttempt(st, i, success, answer) # NoAttempt =>
               /\ EndedAttempt(st, i, success, answer) = NewAttempt("starting")
               /\ EndedTask(st, i, success, answer).attempt = st.tasks[i].attempt + 1
         /\ EndedTask(st, i, success, answer).attempt >= st.tasks[i].attempt
         /\ (RetryAnswers = {TRUE} /\ EndedTask(st, i, success, answer).status = "Failed") =>
               (EndedTask(st, i, success, answer).attempt = MaxRetries \/ i \in overdue)
<1> DEFINE t == EndedTask(st, i, success, answer)
           a == EndedAttempt(st, i, success, answer)
<1> SUFFICES /\ t.status \in {"Running", "Succeeded", "Failed"}
             /\ t.status = "Running" <=> a # NoAttempt
             /\ a # NoAttempt => (a = NewAttempt("starting") /\ t.attempt = st.tasks[i].attempt + 1)
             /\ t.attempt >= st.tasks[i].attempt
             /\ (RetryAnswers = {TRUE} /\ t.status = "Failed") => (t.attempt = MaxRetries \/ i \in overdue)
  OBVIOUS
<1>0. st.tasks[i] \in Task /\ st.tasks[i].attempt \in Nat /\ st.tasks[i].attempt <= MaxRetries
  BY SpecAssumption DEF State, Task
<1>1. NewAttempt("starting") # NoAttempt
  BY DEF NewAttempt, NoAttempt
<1>2. CASE ~success /\ Retries(st, i, answer)
  <2>1. t = [st.tasks[i] EXCEPT !.attempt = @ + 1] /\ a = NewAttempt("starting")
    BY <1>2 DEF EndedTask, EndedAttempt
  <2>2. t.status = "Running" /\ t.attempt = st.tasks[i].attempt + 1
    BY <1>0, <2>1 DEF Task
  <2> HIDE DEF t, a
  <2>3. a # NoAttempt /\ t.attempt >= st.tasks[i].attempt
    BY <1>0, <1>1, <2>1, <2>2
  <2> QED
    BY <2>1, <2>2, <2>3
<1>3. CASE ~(~success /\ Retries(st, i, answer))
  <2>1. t = [st.tasks[i] EXCEPT !.status = IF success THEN "Succeeded" ELSE "Failed"] /\ a = NoAttempt
    BY <1>3 DEF EndedTask, EndedAttempt
  <2>2. t.status = (IF success THEN "Succeeded" ELSE "Failed") /\ t.attempt = st.tasks[i].attempt
    BY <1>0, <2>1 DEF Task
  <2>3. (RetryAnswers = {TRUE} /\ t.status = "Failed") => (t.attempt = MaxRetries \/ i \in overdue)
    <3>1. SUFFICES ASSUME RetryAnswers = {TRUE}, t.status = "Failed" PROVE t.attempt = MaxRetries \/ i \in overdue
      OBVIOUS
    <3>2. ~success /\ answer
      BY <2>2, <3>1
    <3>3. \/ ~(st.tasks[i].attempt < MaxRetries) \/ st.attempts[i].taskExpired \/ i \in overdue
      BY <1>3, <3>2 DEF Retries
    <3> QED
      BY <1>0, <2>2, <3>3, SpecAssumption
  <2> HIDE DEF t, a
  <2>4. t.attempt >= st.tasks[i].attempt
    BY <1>0, <2>2
  <2>5. t.status \in {"Succeeded", "Failed"}
    BY <2>2
  <2> QED
    BY <2>1, <2>3, <2>4, <2>5
<1> QED
  BY <1>2, <1>3

\* An attempt that is not in progress never runs and was never marked.
LEMMA Blank ==
  /\ NoAttempt \in Attempt /\ NoAttempt.pc = "none" /\ ~NoAttempt.stopped /\ ~NoAttempt.taskExpired
  /\ \A pc \in {"starting", "running"} :
        /\ NewAttempt(pc) \in Attempt /\ NewAttempt(pc).pc = pc
        /\ ~NewAttempt(pc).stopped /\ ~NewAttempt(pc).taskExpired
  BY DEF NoAttempt, NewAttempt, Attempt, Stages

\* Fewer attempts in progress keep to the limit.
LEMMA FewerBusy ==
  ASSUME NEW A, NEW B, Busy(B) \subseteq Busy(A), Cardinality(Busy(A)) <= Limit
  PROVE  Cardinality(Busy(B)) <= Limit
<1>1. Busy(A) \in SUBSET Tasks /\ Busy(B) \in SUBSET Busy(A) /\ Busy(B) \in SUBSET Tasks
  BY DEF Busy
<1>2. Cardinality(Busy(B)) <= Cardinality(Busy(A)) /\ Cardinality(Busy(A)) \in Nat /\ Cardinality(Busy(B)) \in Nat
  BY <1>1, CountSubset, CountType
<1> QED
  BY <1>2, LimitType

\* An attempt that ended leaves the execution open to give its slot away.
LEMMA EndedOpen ==
  ASSUME NEW st, NEW c, Open(st, c), NEW i \in Tasks, NEW success \in BOOLEAN, NEW answer \in RetryAnswers,
         st.attempts[i].pc \in {"starting", "exited0", "exited1"}
  PROVE  Open(AttemptEnded(st, i, success, answer), c)
<1> DEFINE X == AttemptEnded(st, i, success, answer)
           t == EndedTask(st, i, success, answer)
           a == EndedAttempt(st, i, success, answer)
<1> SUFFICES Open(X, c)
  OBVIOUS
<1>0. /\ st \in State /\ answer \in BOOLEAN
      /\ st.tasks \in [Tasks -> Task] /\ st.attempts \in [Tasks -> Attempt]
      /\ st.verdict \in Verdicts /\ st.asked \in SUBSET Workloads
  BY SpecAssumption DEF Open, State
<1>a. /\ t \in Task /\ a \in Attempt
      /\ X = [tasks |-> [st.tasks EXCEPT ![i] = t], attempts |-> [st.attempts EXCEPT ![i] = a],
              verdict |-> st.verdict, asked |-> st.asked]
  BY <1>0, EndedParts
<1>1. /\ t \in Task /\ a \in Attempt
      /\ X.tasks = [st.tasks EXCEPT ![i] = t] /\ X.attempts = [st.attempts EXCEPT ![i] = a]
      /\ X.verdict = st.verdict /\ X.asked = st.asked
      /\ X = [tasks |-> X.tasks, attempts |-> X.attempts, verdict |-> X.verdict, asked |-> X.asked]
  <2> HIDE DEF X, t, a
  <2> QED
    BY <1>a
<1>2. X \in State
  BY <1>0, <1>1 DEF State
<1>3. \/ st.tasks[i].status = "Running" /\ st.verdict = "Undecided"
      \/ st.tasks[i].status = "Cancelled"
  <2>1. st.tasks[i].status \in {"Running", "Cancelled"}
    BY <1>0 DEF Open, Linked, Task, Statuses
  <2> QED
    BY <2>1 DEF Open, With
<1>4. CASE st.tasks[i].status = "Running" /\ st.verdict = "Undecided"
  <2>1. /\ t.status \in {"Running", "Succeeded", "Failed"}
        /\ t.status = "Running" <=> a # NoAttempt
        /\ a # NoAttempt => a = NewAttempt("starting")
        /\ (RetryAnswers = {TRUE} /\ t.status = "Failed") => (t.attempt = MaxRetries \/ i \in overdue)
    <3>1. st.attempts[i].taskExpired => i \in overdue
      BY DEF Open
    <3>2. st \in State
      BY <1>0
    <3> QED
      BY <1>4, <3>1, <3>2, EndedRunning, ZenonT(30)
  <2> HIDE DEF t, a, X
  <2>2. a.pc \in {"none", "starting"} /\ ~a.taskExpired /\ (a.pc = "none" <=> a = NoAttempt)
    BY <2>1, Blank
  <2>3. TasksInv(X.tasks, c) /\ Fixed(X.tasks, FALSE)
    <3> DEFINE V == [st.tasks EXCEPT ![i] = t]
    <3>1. V \in [Tasks -> Task]
      BY <1>0, <1>1
    <3>2. TasksInv(st.tasks, c) /\ TasksInv(st.tasks, FALSE)
      BY <1>4 DEF Open, TasksInv
    <3>3. TasksInv(V, c) /\ TasksInv(V, FALSE)
      <4>1. \A j \in Tasks : \/ V[j] = st.tasks[j]
                             \/ /\ st.tasks[j].status = "Running"
                                /\ V[j].status \in {"Running", "Succeeded", "Failed"}
                                /\ (RetryAnswers = {TRUE} /\ V[j].status = "Failed") =>
                                      (V[j].attempt = MaxRetries \/ j \in overdue)
        BY <1>0, <1>4, <2>1
      <4> DEFINE T == st.tasks
      <4>2. T \in [Tasks -> Task]
        BY <1>0
      <4> HIDE DEF V, T
      <4>3. \A j \in Tasks : \/ V[j] = T[j]
                             \/ /\ T[j].status = "Running"
                                /\ V[j].status \in {"Running", "Succeeded", "Failed"}
                                /\ (RetryAnswers = {TRUE} /\ V[j].status = "Failed") =>
                                      (V[j].attempt = MaxRetries \/ j \in overdue)
        BY <4>1 DEF T
      <4>4. TasksInv(T, c) /\ TasksInv(T, FALSE)
        BY <3>2 DEF T
      <4>5. TasksInv(V, c)
        BY <3>1, <4>2, <4>3, <4>4, TasksEnd
      <4>6. TasksInv(V, FALSE)
        BY <3>1, <4>2, <4>3, <4>4, TasksEnd
      <4> QED
        BY <4>5, <4>6
    <3> QED
      BY <1>1, <3>3 DEF TasksInv
  <2>4. \A j \in Tasks : Linked(X.tasks[j], X.attempts[j], X.verdict)
    <3> TAKE j \in Tasks
    <3>1. CASE j = i
      BY <1>0, <1>1, <2>1, <2>2, <3>1 DEF Linked
    <3>2. CASE j # i
      BY <1>0, <1>1, <3>2 DEF Open
    <3> QED
      BY <3>1, <3>2
  <2>5. \A j \in Tasks : (X.attempts[j].pc = "running" /\ X.attempts[j].stopped) =>
                           <<j, X.tasks[j].attempt>> \in X.asked
    <3> TAKE j \in Tasks
    <3>1. CASE j = i
      BY <1>0, <1>1, <2>2, <3>1
    <3>2. CASE j # i
      BY <1>0, <1>1, <3>2 DEF Open
    <3> QED
      BY <3>1, <3>2
  <2>6. \A j \in Tasks : X.attempts[j].taskExpired => j \in overdue
    BY <1>0, <1>1, <2>2 DEF Open
  <2>7. Cardinality(Busy(X.attempts)) <= Limit
    <3>1. Busy(X.attempts) \subseteq Busy(st.attempts)
      BY <1>0, <1>1 DEF Busy
    <3> QED
      BY <3>1, FewerBusy DEF Open
  <2> QED
    BY <1>1, <1>2, <1>4, <2>3, <2>4, <2>5, <2>6, <2>7 DEF Open, Earned
<1>5. CASE st.tasks[i].status = "Cancelled"
  <2>1. t = st.tasks[i] /\ a = NoAttempt
    BY <1>5 DEF EndedTask, EndedAttempt
  <2> HIDE DEF t, a, X
  <2>2. X.tasks = st.tasks
    BY <1>0, <1>1, <2>1
  <2>3. \A j \in Tasks : Linked(X.tasks[j], X.attempts[j], X.verdict)
    <3> TAKE j \in Tasks
    <3>1. CASE j = i
      BY <1>0, <1>1, <1>5, <2>1, <2>2, <3>1, Blank DEF Linked
    <3>2. CASE j # i
      BY <1>0, <1>1, <2>2, <3>2 DEF Open
    <3> QED
      BY <3>1, <3>2
  <2>5. \A j \in Tasks : (X.attempts[j].pc = "running" /\ X.attempts[j].stopped) =>
                           <<j, X.tasks[j].attempt>> \in X.asked
    <3> TAKE j \in Tasks
    <3>1. CASE j = i
      BY <1>0, <1>1, <2>1, <3>1, Blank
    <3>2. CASE j # i
      BY <1>0, <1>1, <2>2, <3>2 DEF Open
    <3> QED
      BY <3>1, <3>2
  <2>6. \A j \in Tasks : X.attempts[j].taskExpired => j \in overdue
    BY <1>0, <1>1, <2>1, Blank DEF Open
  <2>7. Cardinality(Busy(X.attempts)) <= Limit
    <3>1. Busy(X.attempts) \subseteq Busy(st.attempts)
      BY <1>0, <1>1 DEF Busy
    <3> QED
      BY <3>1, FewerBusy DEF Open
  <2> QED
    BY <1>1, <1>2, <2>2, <2>3, <2>5, <2>6, <2>7 DEF Open
<1> QED
  BY <1>3, <1>4, <1>5

\* An attempt that ended had no workload left, and its retry has none yet.
LEMMA EndedMatched ==
  ASSUME NEW st, NEW c, NEW U, Open(st, c), NEW i \in Tasks, NEW success \in BOOLEAN,
         NEW answer \in RetryAnswers, launched \subseteq Workloads,
         st.attempts[i].pc \in {"starting", "exited0", "exited1"},
         Matched(st.tasks, st.attempts, U)
  PROVE  Matched(AttemptEnded(st, i, success, answer).tasks,
                 AttemptEnded(st, i, success, answer).attempts, U)
<1> DEFINE X == AttemptEnded(st, i, success, answer)
           t == EndedTask(st, i, success, answer)
           a == EndedAttempt(st, i, success, answer)
<1>0. /\ st \in State /\ answer \in BOOLEAN
      /\ st.tasks \in [Tasks -> Task] /\ st.attempts \in [Tasks -> Attempt]
      /\ st.tasks[i].attempt \in Nat
  BY SpecAssumption DEF Open, State, Task
<1>a. /\ t \in Task
      /\ X = [tasks |-> [st.tasks EXCEPT ![i] = t], attempts |-> [st.attempts EXCEPT ![i] = a],
              verdict |-> st.verdict, asked |-> st.asked]
  BY <1>0, EndedParts
<1>1. /\ t \in Task
      /\ X.tasks = [st.tasks EXCEPT ![i] = t] /\ X.attempts = [st.attempts EXCEPT ![i] = a]
  <2> HIDE DEF X, t, a
  <2> QED
    BY <1>a
<1>2. /\ a.pc \in {"none", "starting"}
      /\ t.status # "Pending"
      /\ t.attempt >= st.tasks[i].attempt
      /\ a.pc = "starting" => t.attempt > st.tasks[i].attempt
  <2>1. \/ st.tasks[i].status = "Running" /\ st.verdict = "Undecided"
        \/ st.tasks[i].status = "Cancelled"
    <3>1. st.tasks[i].status \in {"Running", "Cancelled"}
      BY <1>0 DEF Open, Linked, Task, Statuses
    <3> QED
      BY <3>1 DEF Open, With
  <2>2. CASE st.tasks[i].status = "Cancelled"
    <3>1. t = st.tasks[i] /\ a = NoAttempt
      BY <2>2 DEF EndedTask, EndedAttempt
    <3> QED
      BY <1>0, <2>2, <3>1, Blank
  <2>3. CASE st.tasks[i].status = "Running" /\ st.verdict = "Undecided"
    <3>1. st.attempts[i].taskExpired => i \in overdue
      BY DEF Open
    <3>2. /\ t.status \in {"Running", "Succeeded", "Failed"}
          /\ a # NoAttempt => a = NewAttempt("starting") /\ t.attempt = st.tasks[i].attempt + 1
          /\ t.attempt >= st.tasks[i].attempt
      BY <1>0, <2>3, <3>1, EndedRunning
    <3> HIDE DEF t, a
    <3>3. CASE a = NoAttempt
      BY <3>2, <3>3, Blank
    <3>4. CASE a # NoAttempt
      BY <1>0, <3>2, <3>4, Blank
    <3> QED
      BY <3>3, <3>4
  <2> QED
    BY <2>1, <2>2, <2>3
<1> HIDE DEF t, a, X
<1>3. ASSUME NEW w \in Workloads
      PROVE  (w \in live /\ w \notin U) <=>
                (X.attempts[w[1]].pc \in {"launched", "running"} /\ X.tasks[w[1]].attempt = w[2])
  <2>1. w[1] \in Tasks
    BY DEF Workloads
  <2>2. (w \in live /\ w \notin U) <=>
           (st.attempts[w[1]].pc \in {"launched", "running"} /\ st.tasks[w[1]].attempt = w[2])
    BY DEF Matched
  <2>3. CASE w[1] = i
    BY <1>0, <1>1, <1>2, <2>2, <2>3
  <2>4. CASE w[1] # i
    BY <1>0, <1>1, <2>1, <2>2, <2>4
  <2> QED
    BY <2>3, <2>4
<1>4. ASSUME NEW w \in launched
      PROVE  /\ w[2] <= X.tasks[w[1]].attempt /\ X.tasks[w[1]].status # "Pending"
             /\ X.attempts[w[1]].pc = "starting" => w[2] < X.tasks[w[1]].attempt
  <2>1. w[1] \in Tasks /\ w[2] \in Nat
    BY SpecAssumption DEF Workloads
  <2>2. /\ w[2] <= st.tasks[w[1]].attempt /\ st.tasks[w[1]].status # "Pending"
        /\ st.attempts[w[1]].pc = "starting" => w[2] < st.tasks[w[1]].attempt
    BY DEF Matched
  <2>3. CASE w[1] = i
    <3>1. t.attempt \in Nat
      BY <1>1, SpecAssumption DEF Task
    <3>2. X.tasks[w[1]] = t /\ X.attempts[w[1]] = a
      BY <1>0, <1>1, <2>3
    <3>3. w[2] <= t.attempt /\ (a.pc = "starting" => w[2] < t.attempt)
      BY <1>0, <1>2, <2>1, <2>2, <2>3, <3>1
    <3> QED
      BY <1>2, <3>2, <3>3
  <2>4. CASE w[1] # i
    BY <1>0, <1>1, <2>1, <2>2, <2>4
  <2> QED
    BY <2>3, <2>4
<1> QED
  BY <1>3, <1>4 DEF Matched, X

-----------------------------------------------------------------------------
(* stopRemainingLocked *)

Unended(T) == {i \in Tasks : T[i].status \notin Terminal}

StoppedTasks(T) ==
    [i \in Tasks |-> IF i \in Unended(T) THEN [T[i] EXCEPT !.status = "Cancelled"] ELSE T[i]]

StoppedAttempts(T, A) ==
    [i \in Tasks |-> IF i \in Unended(T) /\ A[i].pc # "none"
                     THEN [A[i] EXCEPT !.stopped = TRUE] ELSE A[i]]

\* What stopRemainingLocked changes.
LEMMA StopParts ==
  ASSUME NEW st \in State, NEW v \in Verdicts
  PROVE  \E S \in SUBSET Workloads :
           /\ StopRemaining([st EXCEPT !.verdict = v]) =
                 [tasks |-> StoppedTasks(st.tasks), attempts |-> StoppedAttempts(st.tasks, st.attempts),
                  verdict |-> v, asked |-> S]
           /\ \A i \in Unended(st.tasks) :
                 st.attempts[i].pc = "running" => <<i, st.tasks[i].attempt>> \in S
           /\ st.asked \subseteq S
<1> DEFINE nt == [st EXCEPT !.verdict = v]
           stopping == {i \in Unended(st.tasks) : st.attempts[i].pc # "none"}
           S == st.asked \cup Running(nt, stopping)
<1>1. nt.tasks = st.tasks /\ nt.attempts = st.attempts /\ nt.verdict = v /\ nt.asked = st.asked
  BY DEF State
<1>2. nt = [tasks |-> st.tasks, attempts |-> st.attempts, verdict |-> v, asked |-> st.asked]
  BY DEF State
<1> HIDE DEF nt
<1>3. StopRemaining(nt) =
        [nt EXCEPT !.tasks = StoppedTasks(st.tasks),
                   !.attempts = StoppedAttempts(st.tasks, st.attempts), !.asked = S]
  BY <1>1 DEF StopRemaining, StoppedTasks, StoppedAttempts, Unended
<1>4. Running(nt, stopping) = {<<i, st.tasks[i].attempt>> : i \in {j \in stopping : st.attempts[j].pc = "running"}}
  BY <1>1 DEF Running
<1>5. S \in SUBSET Workloads
  <2>1. \A i \in stopping : <<i, st.tasks[i].attempt>> \in Workloads
    BY DEF Unended, Workloads, State, Task
  <2>2. st.asked \in SUBSET Workloads
    BY DEF State
  <2> QED
    BY <1>4, <2>1, <2>2
<1>6. \A i \in Unended(st.tasks) : st.attempts[i].pc = "running" => <<i, st.tasks[i].attempt>> \in S
  BY <1>4
<1>6a. st.asked \subseteq S
  OBVIOUS
<1> HIDE DEF S
<1>7. StopRemaining(nt) = [tasks |-> StoppedTasks(st.tasks), attempts |-> StoppedAttempts(st.tasks, st.attempts),
                           verdict |-> v, asked |-> S]
  BY <1>2, <1>3
<1> QED
  BY <1>5, <1>6, <1>6a, <1>7 DEF nt

\* The tasks stopRemainingLocked leaves.
LEMMA StoppedFacts ==
  ASSUME NEW T \in [Tasks -> Task], NEW A \in [Tasks -> Attempt]
  PROVE  /\ StoppedTasks(T) \in [Tasks -> Task] /\ StoppedAttempts(T, A) \in [Tasks -> Attempt]
         /\ With(StoppedTasks(T), "Pending") = {} /\ With(StoppedTasks(T), "Running") = {}
         /\ With(StoppedTasks(T), "Succeeded") = With(T, "Succeeded")
         /\ With(StoppedTasks(T), "Failed") = With(T, "Failed")
         /\ \A i \in Tasks : StoppedTasks(T)[i].attempt = T[i].attempt
         /\ \A i \in Tasks : StoppedAttempts(T, A)[i].pc = A[i].pc
         /\ \A i \in Tasks : StoppedAttempts(T, A)[i].taskExpired = A[i].taskExpired
         /\ \A i \in Tasks : StoppedAttempts(T, A)[i].timedOut = A[i].timedOut
         /\ \A i \in Tasks : i \notin Unended(T) =>
               StoppedTasks(T)[i] = T[i] /\ StoppedAttempts(T, A)[i] = A[i]
         /\ \A i \in Unended(T) : /\ StoppedTasks(T)[i].status = "Cancelled"
                                  /\ A[i].pc # "none" => StoppedAttempts(T, A)[i].stopped
<1> DEFINE S == StoppedTasks(T)
           B == StoppedAttempts(T, A)
<1>1. ASSUME NEW i \in Tasks
      PROVE  /\ S[i] \in Task /\ S[i].attempt = T[i].attempt
             /\ i \notin Unended(T) => S[i] = T[i]
             /\ i \in Unended(T) => S[i].status = "Cancelled"
             /\ i \in Unended(T) <=> T[i].status \in {"Pending", "Running"}
  BY DEF StoppedTasks, Task, Statuses, Unended, Terminal
<1>2. ASSUME NEW i \in Tasks
      PROVE  /\ B[i] \in Attempt /\ B[i].pc = A[i].pc /\ B[i].taskExpired = A[i].taskExpired
             /\ B[i].timedOut = A[i].timedOut
             /\ i \notin Unended(T) => B[i] = A[i]
             /\ (i \in Unended(T) /\ A[i].pc # "none") => B[i].stopped
  BY DEF StoppedAttempts, Attempt
<1>3. S \in [Tasks -> Task] /\ B \in [Tasks -> Attempt]
  BY <1>1, <1>2 DEF StoppedTasks, StoppedAttempts
<1> HIDE DEF S, B
<1>4. /\ With(S, "Pending") = {} /\ With(S, "Running") = {}
      /\ With(S, "Succeeded") = With(T, "Succeeded") /\ With(S, "Failed") = With(T, "Failed")
  BY <1>1 DEF With
<1>5. Unended(T) \subseteq Tasks
  BY DEF Unended
<1> QED
  BY <1>1, <1>2, <1>3, <1>4, <1>5 DEF S, B

\* An earned verdict, or a cancellation, ends the open tasks and stops their
\* workloads.
LEMMA StopOpen ==
  ASSUME NEW st, NEW b, NEW c, Open(st, b), st.verdict = "Undecided",
         NEW v \in Verdicts, v # "Undecided", Earned(st.tasks, v), v = "Cancellation" => c
  PROVE  LET X == StopRemaining([st EXCEPT !.verdict = v]) IN Open(X, c) /\ Full(X)
<1> DEFINE X == StopRemaining([st EXCEPT !.verdict = v])
           T == st.tasks
           A == st.attempts
           V == StoppedTasks(T)
           B == StoppedAttempts(T, A)
<1> SUFFICES Open(X, c) /\ Full(X)
  OBVIOUS
<1>0. st \in State /\ T \in [Tasks -> Task] /\ A \in [Tasks -> Attempt]
  BY DEF Open, State
<1>1. PICK S \in SUBSET Workloads :
        /\ X = [tasks |-> V, attempts |-> B, verdict |-> v, asked |-> S]
        /\ \A i \in Unended(T) : A[i].pc = "running" => <<i, T[i].attempt>> \in S
  BY <1>0, StopParts
<1>2. /\ V \in [Tasks -> Task] /\ B \in [Tasks -> Attempt]
      /\ With(V, "Pending") = {} /\ With(V, "Running") = {}
      /\ With(V, "Succeeded") = With(T, "Succeeded")
      /\ With(V, "Failed") = With(T, "Failed")
      /\ \A i \in Tasks : V[i].attempt = T[i].attempt
      /\ \A i \in Tasks : B[i].pc = A[i].pc
      /\ \A i \in Tasks : B[i].taskExpired = A[i].taskExpired
      /\ \A i \in Tasks : i \notin Unended(T) => V[i] = T[i] /\ B[i] = A[i]
      /\ \A i \in Unended(T) : V[i].status = "Cancelled" /\ (A[i].pc # "none" => B[i].stopped)
  BY <1>0, StoppedFacts
<1>3. /\ \A i \in Tasks : Linked(T[i], A[i], "Undecided")
      /\ \A i \in Tasks : A[i].taskExpired => i \in overdue
      /\ Cardinality(Busy(A)) <= Limit /\ TasksInv(T, b)
  BY DEF Open
<1>4. \A i \in Tasks : i \notin Unended(T) => T[i].status \in {"Succeeded", "Failed", "Cancelled"}
  BY DEF Unended, Terminal
<1> HIDE DEF X, T, A, V, B
<1>5. X.tasks = V /\ X.attempts = B /\ X.verdict = v /\ X.asked = S
  BY <1>1
<1>6. X \in State
  BY <1>1, <1>2 DEF State
<1>7. TasksInv(V, c)
  <2>1. InOrder(V)
    BY <1>2 DEF InOrder, With
  <2>2. Bounded(V)
    <3>1. Cardinality(With(V, "Running")) = 0
      BY <1>2, FS_EmptySet
    <3> QED
      BY <3>1, LimitType DEF Bounded
  <2>3. FailedLate(V)
    BY <1>2, <1>3 DEF TasksInv, FailedLate, With
  <2>4. Fixed(V, c)
    <3>1. ~c => v \in {"Success", "Failure"}
      BY DEF Verdicts
    <3> QED
      BY <1>2, <3>1 DEF Fixed, Earned, T
  <2> QED
    BY <2>1, <2>2, <2>3, <2>4 DEF TasksInv
<1>8. \A i \in Tasks : Linked(V[i], B[i], v)
  <2> TAKE i \in Tasks
  <2>1. CASE i \in Unended(T)
    BY <1>2, <2>1 DEF Linked
  <2>2. CASE i \notin Unended(T)
    <3>1. V[i] = T[i] /\ B[i] = A[i] /\ Linked(T[i], A[i], "Undecided")
      BY <1>2, <1>3, <2>2
    <3>2. A[i].pc = "none" /\ T[i].status # "Running"
      BY <1>4, <2>2, <3>1 DEF Linked
    <3> QED
      BY <3>1, <3>2 DEF Linked
  <2> QED
    BY <2>1, <2>2
<1>9. \A i \in Tasks : (B[i].pc = "running" /\ B[i].stopped) => <<i, V[i].attempt>> \in S
  <2> SUFFICES ASSUME NEW i \in Tasks, B[i].pc = "running" PROVE <<i, V[i].attempt>> \in S
    OBVIOUS
  <2>1. A[i].pc = "running" /\ V[i].attempt = T[i].attempt
    BY <1>2
  <2>2. i \in Unended(T)
    <3>1. Linked(T[i], A[i], "Undecided") /\ A[i].pc # "none"
      BY <1>3, <2>1
    <3>2. T[i].status \notin {"Succeeded", "Failed", "Cancelled"}
      BY <3>1 DEF Linked
    <3> QED
      BY <1>4, <3>2
  <2> QED
    BY <1>1, <2>1, <2>2
<1>10. \A i \in Tasks : B[i].taskExpired => i \in overdue
  BY <1>2, <1>3
<1>11. Cardinality(Busy(B)) <= Limit
  <2>1. Busy(B) \subseteq Busy(A)
    BY <1>2 DEF Busy
  <2> QED
    BY <1>3, <2>1, FewerBusy
<1>12. Earned(V, v)
  BY <1>2 DEF Earned, T
<1>13. With(V, "Pending") \cup With(V, "Running") = {}
  BY <1>2
<1>14. Open(X, c)
  BY <1>5, <1>6, <1>7, <1>8, <1>9, <1>10, <1>11, <1>12, <1>13 DEF Open
<1> QED
  BY <1>5, <1>14 DEF Full

\* Stopping changes neither the workloads in progress nor what was launched.
LEMMA StopMatched ==
  ASSUME NEW st \in State, NEW v \in Verdicts, NEW U, Matched(st.tasks, st.attempts, U),
         launched \subseteq Workloads
  PROVE  LET X == StopRemaining([st EXCEPT !.verdict = v]) IN Matched(X.tasks, X.attempts, U)
<1> DEFINE X == StopRemaining([st EXCEPT !.verdict = v])
           T == st.tasks
           A == st.attempts
           V == StoppedTasks(T)
           B == StoppedAttempts(T, A)
<1> SUFFICES Matched(X.tasks, X.attempts, U)
  OBVIOUS
<1>0. T \in [Tasks -> Task] /\ A \in [Tasks -> Attempt]
  BY DEF State
<1>1. PICK S \in SUBSET Workloads : X = [tasks |-> V, attempts |-> B, verdict |-> v, asked |-> S]
  BY StopParts
<1>2. /\ \A i \in Tasks : V[i].attempt = T[i].attempt /\ B[i].pc = A[i].pc
      /\ With(V, "Pending") = {}
  <2>1. \A i \in Tasks : V[i].attempt = T[i].attempt
    BY <1>0, StoppedFacts
  <2>2. \A i \in Tasks : B[i].pc = A[i].pc
    BY <1>0, StoppedFacts
  <2>3. With(V, "Pending") = {}
    BY <1>0, StoppedFacts
  <2> HIDE DEF V, B, T, A
  <2> QED
    BY <2>1, <2>2, <2>3
<1>3. Matched(T, A, U)
  OBVIOUS
<1> HIDE DEF X, T, A, V, B
<1>5. X.tasks = V /\ X.attempts = B
  BY <1>1
<1>6. \A w \in Workloads : w[1] \in Tasks
  BY DEF Workloads
<1>7. Matched(V, B, U)
  BY <1>2, <1>3, <1>6 DEF Matched, With
<1> QED
  BY <1>5, <1>7

-----------------------------------------------------------------------------
(* startAdmitted and advanceLocked *)

StartedTasks(T) ==
    [i \in Tasks |-> IF i \in Admitted(T) THEN [T[i] EXCEPT !.status = "Running"] ELSE T[i]]

StartedAttempts(T, A) ==
    [i \in Tasks |-> IF i \in Admitted(T) THEN NewAttempt("starting") ELSE A[i]]

\* The tasks the free slots leave.
LEMMA StartedFacts ==
  ASSUME NEW T \in [Tasks -> Task], NEW A \in [Tasks -> Attempt]
  PROVE  /\ StartedTasks(T) \in [Tasks -> Task] /\ StartedAttempts(T, A) \in [Tasks -> Attempt]
         /\ With(StartedTasks(T), "Pending") = With(T, "Pending") \ Admitted(T)
         /\ With(StartedTasks(T), "Running") = With(T, "Running") \cup Admitted(T)
         /\ \A s \in Terminal : With(StartedTasks(T), s) = With(T, s)
         /\ \A i \in Tasks : StartedTasks(T)[i].attempt = T[i].attempt
         /\ \A i \in Tasks : i \notin Admitted(T) =>
               StartedTasks(T)[i] = T[i] /\ StartedAttempts(T, A)[i] = A[i]
         /\ \A i \in Admitted(T) : /\ T[i].status = "Pending" /\ StartedTasks(T)[i].status = "Running"
                                   /\ StartedAttempts(T, A)[i] = NewAttempt("starting")
<1> DEFINE S == StartedTasks(T)
           B == StartedAttempts(T, A)
<1>0. Admitted(T) \subseteq With(T, "Pending") /\ \A i \in Admitted(T) : i \in Tasks /\ T[i].status = "Pending"
  BY DEF Admitted, With
<1>1. ASSUME NEW i \in Tasks
      PROVE  /\ S[i] \in Task /\ S[i].attempt = T[i].attempt
             /\ i \notin Admitted(T) => S[i] = T[i]
             /\ i \in Admitted(T) => S[i].status = "Running"
  BY DEF StartedTasks, Task, Statuses
<1>2. ASSUME NEW i \in Tasks
      PROVE  /\ B[i] \in Attempt
             /\ i \notin Admitted(T) => B[i] = A[i]
             /\ i \in Admitted(T) => B[i] = NewAttempt("starting")
  BY Blank DEF StartedAttempts
<1>3. S \in [Tasks -> Task] /\ B \in [Tasks -> Attempt]
  BY <1>1, <1>2 DEF StartedTasks, StartedAttempts
<1> HIDE DEF S, B
<1>4. With(S, "Pending") = With(T, "Pending") \ Admitted(T)
  BY <1>0, <1>1 DEF With
<1>5. With(S, "Running") = With(T, "Running") \cup Admitted(T)
  BY <1>0, <1>1 DEF With
<1>6. \A s \in Terminal : With(S, s) = With(T, s)
  BY <1>0, <1>1 DEF With, Terminal
<1> QED
  BY <1>0, <1>1, <1>2, <1>3, <1>4, <1>5, <1>6 DEF S, B

\* Giving the free slots away takes neither a slot twice nor leaves one idle.
LEMMA StartOpen ==
  ASSUME NEW st, NEW c, Open(st, c), st.verdict = "Undecided"
  PROVE  Open(StartAdmitted(st), c) /\ Full(StartAdmitted(st))
<1> DEFINE X == StartAdmitted(st)
           T == st.tasks
           A == st.attempts
           V == StartedTasks(T)
           B == StartedAttempts(T, A)
<1> SUFFICES Open(X, c) /\ Full(X)
  OBVIOUS
<1>0. st \in State /\ T \in [Tasks -> Task] /\ A \in [Tasks -> Attempt] /\ st.asked \in SUBSET Workloads
  BY DEF Open, State
<1>1. X = [tasks |-> V, attempts |-> B, verdict |-> "Undecided", asked |-> st.asked]
  <2>1. st = [tasks |-> T, attempts |-> A, verdict |-> "Undecided", asked |-> st.asked]
    BY <1>0 DEF State
  <2>2. X = [st EXCEPT !.tasks = V, !.attempts = B]
    BY DEF StartAdmitted, StartedTasks, StartedAttempts
  <2> QED
    BY <2>1, <2>2
<1>2. /\ V \in [Tasks -> Task] /\ B \in [Tasks -> Attempt]
      /\ With(V, "Pending") = With(T, "Pending") \ Admitted(T)
      /\ With(V, "Running") = With(T, "Running") \cup Admitted(T)
      /\ \A s \in Terminal : With(V, s) = With(T, s)
      /\ \A i \in Tasks : V[i].attempt = T[i].attempt
      /\ \A i \in Tasks : i \notin Admitted(T) => V[i] = T[i] /\ B[i] = A[i]
      /\ \A i \in Admitted(T) : /\ T[i].status = "Pending" /\ V[i].status = "Running"
                                /\ B[i] = NewAttempt("starting")
  <2>1. T \in [Tasks -> Task] /\ A \in [Tasks -> Attempt]
    BY <1>0
  <2> HIDE DEF T, A
  <2> QED
    BY <2>1, StartedFacts
<1>3. /\ \A i \in Tasks : Linked(T[i], A[i], "Undecided")
      /\ \A i \in Tasks : A[i].taskExpired => i \in overdue
      /\ \A i \in Tasks : (A[i].pc = "running" /\ A[i].stopped) => <<i, T[i].attempt>> \in st.asked
      /\ TasksInv(T, c) /\ Fixed(T, FALSE)
  BY DEF Open
<1>4. \A s \in {"Succeeded", "Failed", "Cancelled"} : With(V, s) = With(T, s)
  BY <1>2 DEF Terminal
<1> HIDE DEF X, T, A, V, B
<1>5. X.tasks = V /\ X.attempts = B /\ X.verdict = "Undecided" /\ X.asked = st.asked
  BY <1>1
<1>6. X \in State
  BY <1>0, <1>1, <1>2 DEF State, Verdicts
<1>7. /\ Bounded(T)
      /\ With(T, "Running") \in SUBSET Tasks /\ Admitted(T) \in SUBSET Tasks
      /\ With(T, "Running") \cap Admitted(T) = {}
  BY <1>2, <1>3 DEF TasksInv, With, Admitted
<1>8. Cardinality(With(V, "Running")) = Cardinality(With(T, "Running")) + Cardinality(Admitted(T))
  BY <1>2, <1>7, CountDisjoint
<1>9. Cardinality(With(V, "Running")) <= Limit
  BY <1>7, <1>8, AdmittedFits
<1>10. TasksInv(V, c)
  <2>1. InOrder(V)
    <3> SUFFICES ASSUME NEW i \in Tasks, NEW j \in Tasks, i < j, V[i].status = "Pending"
                 PROVE  V[j].status = "Pending"
      BY DEF InOrder
    <3>1. i \notin Admitted(T) /\ T[i].status = "Pending"
      BY <1>2
    <3>2. T[j].status = "Pending"
      BY <1>3, <3>1 DEF TasksInv, InOrder
    <3>3. i \in With(T, "Pending")
      BY <3>1 DEF With
    <3>4. j \notin Admitted(T)
      BY <3>1, <3>3, AdmittedFirst
    <3> QED
      BY <1>2, <3>2, <3>4
  <2>2. Bounded(V)
    BY <1>9 DEF Bounded
  <2>3. FailedLate(V)
    BY <1>2, <1>3, <1>4 DEF TasksInv, FailedLate, With
  <2>4. Fixed(V, c)
    BY <1>3, <1>4 DEF TasksInv, Fixed
  <2> QED
    BY <2>1, <2>2, <2>3, <2>4 DEF TasksInv
<1>11. \A i \in Tasks : Linked(V[i], B[i], "Undecided")
  <2> TAKE i \in Tasks
  <2>1. CASE i \in Admitted(T)
    BY <1>2, <2>1, Blank DEF Linked
  <2>2. CASE i \notin Admitted(T)
    BY <1>2, <1>3, <2>2
  <2> QED
    BY <2>1, <2>2
<1>12. \A i \in Tasks : (B[i].pc = "running" /\ B[i].stopped) => <<i, V[i].attempt>> \in st.asked
  <2> TAKE i \in Tasks
  <2>1. CASE i \in Admitted(T)
    BY <1>2, <2>1, Blank
  <2>2. CASE i \notin Admitted(T)
    BY <1>2, <1>3, <2>2
  <2> QED
    BY <2>1, <2>2
<1>13. \A i \in Tasks : B[i].taskExpired => i \in overdue
  <2> TAKE i \in Tasks
  <2>1. CASE i \in Admitted(T)
    BY <1>2, <2>1, Blank
  <2>2. CASE i \notin Admitted(T)
    BY <1>2, <1>3, <2>2
  <2> QED
    BY <2>1, <2>2
<1>14. Busy(B) = With(V, "Running")
  <2>1. \A i \in Tasks : B[i].pc # "none" <=> V[i].status = "Running"
    <3> TAKE i \in Tasks
    <3>1. Linked(V[i], B[i], "Undecided") /\ V[i] \in Task
      BY <1>2, <1>11
    <3> QED
      BY <3>1 DEF Linked, Task, Statuses
  <2> QED
    BY <2>1 DEF Busy, With
<1>15. Cardinality(Busy(B)) <= Limit
  BY <1>9, <1>14
<1>16. Open(X, c)
  <2>1. Fixed(V, FALSE)
    BY <1>3, <1>4 DEF Fixed
  <2> QED
    BY <1>3, <1>5, <1>6, <1>10, <1>11, <1>12, <1>13, <1>15, <2>1 DEF Open, Earned
<1>17. Full(X)
  <2> SUFFICES ASSUME With(V, "Pending") # {} PROVE Cardinality(With(V, "Running")) = Limit
    BY <1>5 DEF Full
  <2>1. With(T, "Pending") \ Admitted(T) # {}
    BY <1>2
  <2> QED
    BY <1>7, <1>8, <2>1, AdmittedFills
<1> QED
  BY <1>16, <1>17

\* A task that is admitted was never launched.
LEMMA StartMatched ==
  ASSUME NEW st, NEW c, NEW U, Open(st, c), st.verdict = "Undecided",
         Matched(st.tasks, st.attempts, U), launched \subseteq Workloads
  PROVE  Matched(StartAdmitted(st).tasks, StartAdmitted(st).attempts, U)
<1> DEFINE X == StartAdmitted(st)
           T == st.tasks
           A == st.attempts
           V == StartedTasks(T)
           B == StartedAttempts(T, A)
<1> SUFFICES Matched(X.tasks, X.attempts, U)
  OBVIOUS
<1>0. st \in State /\ T \in [Tasks -> Task] /\ A \in [Tasks -> Attempt]
  BY DEF Open, State
<1>1. X.tasks = V /\ X.attempts = B
  BY <1>0 DEF StartAdmitted, StartedTasks, StartedAttempts, State
<1>2. /\ \A i \in Tasks : V[i].attempt = T[i].attempt
      /\ \A i \in Tasks : i \notin Admitted(T) => V[i] = T[i] /\ B[i] = A[i]
      /\ \A i \in Admitted(T) : /\ T[i].status = "Pending" /\ V[i].status = "Running"
                                /\ B[i] = NewAttempt("starting")
  <2>1. T \in [Tasks -> Task] /\ A \in [Tasks -> Attempt]
    BY <1>0
  <2> HIDE DEF T, A
  <2> QED
    BY <2>1, StartedFacts
<1>3. Matched(T, A, U) /\ \A i \in Tasks : T[i].status = "Pending" => A[i].pc = "none"
  BY DEF Open, Linked
<1> HIDE DEF X, T, A, V, B
<1>4. \A w \in Workloads : w[1] \in Tasks
  BY DEF Workloads
<1>5. ASSUME NEW w \in Workloads
      PROVE  (w \in live /\ w \notin U) <=> (B[w[1]].pc \in {"launched", "running"} /\ V[w[1]].attempt = w[2])
  <2>1. (w \in live /\ w \notin U) <=> (A[w[1]].pc \in {"launched", "running"} /\ T[w[1]].attempt = w[2])
    BY <1>3 DEF Matched
  <2>2. CASE w[1] \in Admitted(T)
    <3>1. B[w[1]].pc = "starting" /\ A[w[1]].pc = "none"
      BY <1>2, <1>3, <1>4, <2>2, Blank
    <3> QED
      BY <2>1, <3>1
  <2>3. CASE w[1] \notin Admitted(T)
    BY <1>2, <1>4, <2>1, <2>3
  <2> QED
    BY <2>2, <2>3
<1>6. ASSUME NEW w \in launched
      PROVE  V[w[1]] = T[w[1]] /\ B[w[1]] = A[w[1]]
  BY <1>2, <1>3, <1>4 DEF Matched
<1>7. Matched(V, B, U)
  BY <1>3, <1>5, <1>6 DEF Matched
<1> QED
  BY <1>1, <1>7

\* advanceLocked decides what is earned and gives every free slot away.
LEMMA AdvanceOpen ==
  ASSUME NEW st, NEW c, Open(st, c), NEW U, Matched(st.tasks, st.attempts, U),
         launched \subseteq Workloads
  PROVE  /\ Open(Advance(st), c) /\ Full(Advance(st))
         /\ Matched(Advance(st).tasks, Advance(st).attempts, U)
<1>0. st \in State /\ st.tasks \in [Tasks -> Task] /\ TasksInv(st.tasks, c)
  BY DEF Open, State
<1>1. CASE st.verdict # "Undecided"
  BY <1>1 DEF Advance, Full
<1>2. CASE st.verdict = "Undecided"
  <2>0. Fixed(st.tasks, FALSE)
    BY <1>2 DEF Open
  <2>1. Policy(st.tasks) \in {"Undecided", "Success", "Failure"} /\ Earned(st.tasks, Policy(st.tasks))
    BY <1>0, <2>0, PolicyEarned
  <2>2. CASE Policy(st.tasks) = "Undecided"
    <3>1. Advance(st) = StartAdmitted(st)
      BY <1>2, <2>2 DEF Advance
    <3> QED
      BY <1>2, <3>1, StartOpen, StartMatched
  <2>3. CASE Policy(st.tasks) # "Undecided"
    <3> DEFINE v == Policy(st.tasks)
    <3>1. Advance(st) = StopRemaining([st EXCEPT !.verdict = v])
      BY <1>2, <2>3 DEF Advance
    <3>2. v \in Verdicts /\ v # "Undecided" /\ v # "Cancellation" /\ Earned(st.tasks, v)
      BY <2>1, <2>3 DEF Verdicts
    <3> HIDE DEF v
    <3>3. /\ Open(StopRemaining([st EXCEPT !.verdict = v]), c)
          /\ Full(StopRemaining([st EXCEPT !.verdict = v]))
      BY <1>2, <3>2, StopOpen
    <3>4. Matched(StopRemaining([st EXCEPT !.verdict = v]).tasks,
                  StopRemaining([st EXCEPT !.verdict = v]).attempts, U)
      BY <1>0, <3>2, StopMatched
    <3> QED
      BY <3>1, <3>3, <3>4
  <2> QED
    BY <2>2, <2>3
<1> QED
  BY <1>1, <1>2

-----------------------------------------------------------------------------
(***************************************************************************)
(* The steps.  Most change one attempt, or nothing the invariant says of   *)
(* tasks and attempts; the others end in Commit.                           *)
(***************************************************************************)
Core ==
    /\ Now \in State
    /\ TasksInv(tasks, closed)
    /\ up => (Open(Now, closed) /\ Full(Now))
    /\ ~up => Down
    /\ finished => (up /\ verdict # "Undecided" /\ Busy(attempts) = {})

Work == Matched(tasks, attempts, unclaimed) /\ Held

\* The parts of the invariant.
LEMMA Parts == IInv <=> (Core /\ Rest /\ Work)
  BY DEF IInv, Core, Work

\* What the tasks and attempts of an execution the process runs satisfy.
LEMMA RunningFacts ==
  ASSUME Core, up
  PROVE  /\ tasks \in [Tasks -> Task] /\ attempts \in [Tasks -> Attempt] /\ verdict \in Verdicts
         /\ asked \in SUBSET Workloads
         /\ TasksInv(tasks, closed)
         /\ \A i \in Tasks : Linked(tasks[i], attempts[i], verdict)
         /\ \A i \in Tasks : (attempts[i].pc = "running" /\ attempts[i].stopped) =>
                               <<i, tasks[i].attempt>> \in asked
         /\ \A i \in Tasks : attempts[i].taskExpired => i \in overdue
         /\ Cardinality(Busy(attempts)) <= Limit
         /\ Earned(tasks, verdict)
         /\ verdict # "Undecided" => With(tasks, "Pending") \cup With(tasks, "Running") = {}
         /\ verdict = "Undecided" => Fixed(tasks, FALSE)
         /\ (verdict = "Undecided" /\ With(tasks, "Pending") # {}) =>
               Cardinality(With(tasks, "Running")) = Limit
<1>1. /\ Now.tasks = tasks /\ Now.attempts = attempts /\ Now.verdict = verdict /\ Now.asked = asked
      /\ Now \in State /\ Open(Now, closed) /\ Full(Now)
  BY DEF Core, Now
<1> QED
  BY <1>1 DEF State, Open, Full

\* What is known of tasks stays true when more of them are overdue.
LEMMA MoreOverdue ==
  ASSUME TasksInv(tasks, closed), tasks' = tasks, closed' = closed, overdue \subseteq overdue'
  PROVE  TasksInv(tasks, closed)'
<1>1. With(tasks, "Failed")' = With(tasks, "Failed")
  BY DEF With
<1> QED
  BY <1>1 DEF TasksInv, InOrder, Bounded, FailedLate, Fixed, With, Enough, Limit

\* A step that changes one attempt in progress.
LEMMA OneAttempt ==
  ASSUME Core, up, NEW i \in Tasks, NEW a \in Attempt,
         attempts[i].pc # "none", a.pc # "none", attempts[i].stopped => a.stopped,
         attempts' = [attempts EXCEPT ![i] = a],
         UNCHANGED <<tasks, verdict, finished, closed, up, overdue>>,
         asked' \in SUBSET Workloads,
         (a.pc = "running" /\ a.stopped) => <<i, tasks[i].attempt>> \in asked',
         \A j \in Tasks : (j # i /\ attempts[j].pc = "running" /\ attempts[j].stopped) =>
                             <<j, tasks[j].attempt>> \in asked',
         a.taskExpired => i \in overdue
  PROVE  Core' /\ ~finished
<1>0. /\ tasks \in [Tasks -> Task] /\ attempts \in [Tasks -> Attempt] /\ verdict \in Verdicts
      /\ TasksInv(tasks, closed)
      /\ \A j \in Tasks : Linked(tasks[j], attempts[j], verdict)
      /\ \A j \in Tasks : attempts[j].taskExpired => j \in overdue
      /\ Cardinality(Busy(attempts)) <= Limit
      /\ Earned(tasks, verdict)
      /\ verdict # "Undecided" => With(tasks, "Pending") \cup With(tasks, "Running") = {}
      /\ verdict = "Undecided" => Fixed(tasks, FALSE)
      /\ (verdict = "Undecided" /\ With(tasks, "Pending") # {}) =>
            Cardinality(With(tasks, "Running")) = Limit
  BY RunningFacts
<1>1. ~finished
  BY DEF Core, Busy
<1>2. attempts'[i] = a /\ \A j \in Tasks : j # i => attempts'[j] = attempts[j]
  BY <1>0
<1>3. tasks' \in [Tasks -> Task] /\ attempts' \in [Tasks -> Attempt] /\ verdict' \in Verdicts
  BY <1>0
<1>4. TasksInv(tasks, closed)'
  BY <1>0, MoreOverdue
<1>5. ASSUME NEW j \in Tasks
      PROVE  /\ Linked(tasks'[j], attempts'[j], verdict')
             /\ (attempts'[j].pc = "running" /\ attempts'[j].stopped) => <<j, tasks'[j].attempt>> \in asked'
             /\ attempts'[j].taskExpired => j \in overdue'
  <2>1. CASE j = i
    <3>1. Linked(tasks[i], attempts[i], verdict)
      BY <1>0
    <3>2. Linked(tasks[i], a, verdict)
      BY <3>1 DEF Linked
    <3> QED
      BY <1>2, <2>1, <3>2
  <2>2. CASE j # i
    BY <1>0, <1>2, <2>2
  <2> QED
    BY <2>1, <2>2
<1>6. Busy(attempts') = Busy(attempts)
  BY <1>2 DEF Busy
<1>7. Cardinality(Busy(attempts)) <= Limit /\ Cardinality(Busy(attempts')) <= Limit
  BY <1>0, <1>6
<1>8. (Now \in State /\ Open(Now, closed) /\ Full(Now))'
  BY <1>0, <1>3, <1>4, <1>5, <1>7 DEF Now, State, Open, Full, Earned, With, Enough, Limit, Busy
<1> QED
  BY <1>1, <1>4, <1>8 DEF Core

\* A step that leaves tasks and attempts alone.
LEMMA Quiet ==
  ASSUME Core, UNCHANGED <<tasks, attempts, verdict, finished, closed, up>>,
         overdue \subseteq overdue', asked' \in SUBSET Workloads,
         up => \A j \in Tasks : (attempts[j].pc = "running" /\ attempts[j].stopped) =>
                                   <<j, tasks[j].attempt>> \in asked',
         ~up => (asked' = {} /\ unclaimed' = live')
  PROVE  Core'
<1>0. Now \in State /\ TasksInv(tasks, closed)
  BY DEF Core
<1>1. TasksInv(tasks, closed)'
  BY <1>0, MoreOverdue
<1>2. (Now \in State)'
  BY <1>0 DEF Now, State
<1>3. CASE ~up
  <2>1. Down'
    BY <1>3 DEF Core, Down
  <2> QED
    BY <1>1, <1>2, <1>3, <2>1 DEF Core, Busy
<1>4. CASE up
  <2>1. /\ \A j \in Tasks : Linked(tasks[j], attempts[j], verdict)
        /\ \A j \in Tasks : attempts[j].taskExpired => j \in overdue
        /\ Cardinality(Busy(attempts)) <= Limit
        /\ Earned(tasks, verdict)
        /\ verdict # "Undecided" => With(tasks, "Pending") \cup With(tasks, "Running") = {}
        /\ verdict = "Undecided" => Fixed(tasks, FALSE)
        /\ (verdict = "Undecided" /\ With(tasks, "Pending") # {}) =>
              Cardinality(With(tasks, "Running")) = Limit
    BY <1>4, RunningFacts
  <2>2. (Open(Now, closed) /\ Full(Now))'
    BY <1>1, <1>2, <1>4, <2>1 DEF Now, Open, Full, Earned, With, Enough, Limit, Busy
  <2> QED
    BY <1>1, <1>2, <1>4, <2>2 DEF Core, Busy
<1> QED
  BY <1>3, <1>4

\* A locked section that ends in an open execution with its slots given away.
LEMMA CommitCore ==
  ASSUME NEW st, Open(st, closed'), Full(st), Commit(st), ~finished,
         up', overdue' = overdue, live' = live,
         \A w \in Workloads : (st.attempts[w[1]].pc = "running" /\ st.tasks[w[1]].attempt = w[2]) => w \in live
  PROVE  Core'
<1> DEFINE T == st.tasks
           A == st.attempts
           v == st.verdict
<1>0. /\ T \in [Tasks -> Task] /\ A \in [Tasks -> Attempt] /\ v \in Verdicts
      /\ st.asked \in SUBSET Workloads
  BY DEF Open, State
<1>1. /\ TasksInv(T, closed')
      /\ \A i \in Tasks : Linked(T[i], A[i], v)
      /\ \A i \in Tasks : (A[i].pc = "running" /\ A[i].stopped) => <<i, T[i].attempt>> \in st.asked
      /\ \A i \in Tasks : A[i].taskExpired => i \in overdue
      /\ Cardinality(Busy(A)) <= Limit
      /\ Earned(T, v)
      /\ v # "Undecided" => With(T, "Pending") \cup With(T, "Running") = {}
      /\ v = "Undecided" => Fixed(T, FALSE)
      /\ (v = "Undecided" /\ With(T, "Pending") # {}) => Cardinality(With(T, "Running")) = Limit
  BY DEF Open, Full
<1>2. /\ tasks' = T /\ attempts' = A /\ verdict' = v /\ asked' = st.asked \cap live
      /\ finished' = (v # "Undecided" /\ \A i \in Tasks : A[i].pc = "none")
  BY DEF Commit
<1>3. \A i \in Tasks : A[i].pc = "running" => <<i, T[i].attempt>> \in live
  <2> SUFFICES ASSUME NEW i \in Tasks, A[i].pc = "running" PROVE <<i, T[i].attempt>> \in live
    OBVIOUS
  <2>1. <<i, T[i].attempt>> \in Workloads
    BY <1>0 DEF Workloads, Task
  <2> QED
    BY <2>1
<1> HIDE DEF T, A, v
<1>4. \A i \in Tasks : (A[i].pc = "running" /\ A[i].stopped) => <<i, T[i].attempt>> \in asked'
  BY <1>1, <1>2, <1>3
<1>5. asked' \in SUBSET Workloads
  BY <1>0, <1>2
<1>6. TasksInv(tasks, closed)'
  BY <1>1, <1>2 DEF TasksInv, InOrder, Bounded, FailedLate, Fixed, With, Enough, Limit
<1>7. (Now \in State)'
  BY <1>0, <1>2, <1>5 DEF Now, State
<1>8. (Open(Now, closed) /\ Full(Now))'
  BY <1>1, <1>2, <1>4, <1>6, <1>7 DEF Now, Open, Full, Earned, With, Enough, Limit, Busy
<1>9. (finished => (up /\ verdict # "Undecided" /\ Busy(attempts) = {}))'
  BY <1>2 DEF Busy
<1> QED
  BY <1>6, <1>7, <1>8, <1>9 DEF Core

\* Two workloads of one task are of different attempts.
LEMMA WorkloadParts ==
  \A w \in Workloads : /\ w[1] \in Tasks /\ w[2] \in 0 .. MaxRetries /\ w[2] \in Nat
                       /\ w = <<w[1], w[2]>>
  BY SpecAssumption DEF Workloads

\* Launching keeps the invariant: the attempt was never launched.
LEMMA LaunchStep == ASSUME IInv, NEW i \in Tasks, Launch(i) PROVE IInv'
<1>0. Core /\ Rest /\ Work
  BY Parts
<1> DEFINE a == [attempts[i] EXCEPT !.pc = "launched"]
           w0 == <<i, tasks[i].attempt>>
<1>1. /\ tasks \in [Tasks -> Task] /\ attempts \in [Tasks -> Attempt]
      /\ asked \in SUBSET Workloads /\ Linked(tasks[i], attempts[i], verdict)
      /\ \A j \in Tasks : (attempts[j].pc = "running" /\ attempts[j].stopped) =>
                             <<j, tasks[j].attempt>> \in asked
      /\ \A j \in Tasks : attempts[j].taskExpired => j \in overdue
      /\ up /\ attempts[i].pc = "starting"
  BY <1>0, RunningFacts DEF Launch
<1>2. a \in Attempt /\ a.pc = "launched" /\ a.stopped = attempts[i].stopped /\ a.taskExpired = attempts[i].taskExpired
  BY <1>1 DEF Attempt, Stages
<1>3. attempts' = [attempts EXCEPT ![i] = a]
  BY DEF Launch
<1> HIDE DEF a
<1>4. Core'
  <2>1. UNCHANGED <<tasks, verdict, finished, closed, up, overdue>> /\ asked' = asked
    BY DEF Launch
  <2> QED
    BY <1>0, <1>1, <1>2, <1>3, <2>1, OneAttempt
<1>5. w0 \in Workloads /\ tasks[i].attempt \in Nat /\ tasks[i].status # "Pending"
  BY <1>1, SpecAssumption DEF Workloads, Task, Linked
<1>6. Rest'
  BY <1>0, <1>5 DEF Launch, Rest
<1>7. w0 \notin launched
  <2>1. \A w \in launched : attempts[w[1]].pc = "starting" => w[2] < tasks[w[1]].attempt
    BY <1>0 DEF Work, Matched
  <2> QED
    BY <1>1, <1>5, <2>1
<1>8. w0 \notin unclaimed /\ Held'
  BY <1>0, <1>7 DEF Work, Held, Launch
<1>9. Matched(tasks, attempts, unclaimed)'
  <2>1. /\ attempts'[i] = a /\ \A j \in Tasks : j # i => attempts'[j] = attempts[j]
        /\ tasks' = tasks /\ unclaimed' = unclaimed
        /\ live' = live \cup {w0} /\ launched' = launched \cup {w0}
    BY <1>1, <1>3 DEF Launch
  <2>2. /\ \A w \in Workloads : (w \in live /\ w \notin unclaimed) <=>
              (attempts[w[1]].pc \in {"launched", "running"} /\ tasks[w[1]].attempt = w[2])
        /\ \A w \in launched : /\ w[2] <= tasks[w[1]].attempt /\ tasks[w[1]].status # "Pending"
                               /\ attempts[w[1]].pc = "starting" => w[2] < tasks[w[1]].attempt
        /\ launched \subseteq Workloads
    BY <1>0 DEF Work, Matched, Rest
  <2>3. ASSUME NEW w \in Workloads
        PROVE  (w \in live' /\ w \notin unclaimed') <=>
                  (attempts'[w[1]].pc \in {"launched", "running"} /\ tasks'[w[1]].attempt = w[2])
    <3>1. w[1] \in Tasks /\ w = <<w[1], w[2]>>
      BY WorkloadParts
    <3>2. CASE w[1] = i
      <4>1. (w \in live /\ w \notin unclaimed) <=> FALSE
        BY <1>1, <2>2, <3>2
      <4>2. w = w0 <=> tasks[i].attempt = w[2]
        BY <3>1, <3>2
      <4> QED
        BY <1>2, <1>8, <2>1, <3>2, <4>1, <4>2
    <3>3. CASE w[1] # i
      <4>1. w # w0
        BY <3>3
      <4> QED
        BY <2>1, <2>2, <3>1, <3>3, <4>1
    <3> QED
      BY <3>2, <3>3
  <2>4. ASSUME NEW w \in launched'
        PROVE  /\ w[2] <= tasks'[w[1]].attempt /\ tasks'[w[1]].status # "Pending"
               /\ attempts'[w[1]].pc = "starting" => w[2] < tasks'[w[1]].attempt
    <3>1. CASE w = w0
      BY <1>2, <1>5, <2>1, <3>1
    <3>2. CASE w \in launched
      <4>1. w[1] \in Tasks
        BY <2>2, <3>2, WorkloadParts
      <4>2. attempts'[w[1]].pc = "starting" => attempts[w[1]].pc = "starting"
        BY <1>2, <2>1, <4>1
      <4> QED
        BY <2>1, <2>2, <3>2, <4>2
    <3> QED
      BY <2>1, <3>1, <3>2
  <2> QED
    BY <2>3, <2>4 DEF Matched
<1> QED
  BY <1>4, <1>6, <1>8, <1>9 DEF IInv, Core

\* An attempt whose workload is still of the same kind stays matched.
LEMMA SameWork ==
  ASSUME Work, Rest, NEW i \in Tasks, NEW a, attempts \in [Tasks -> Attempt],
         attempts' = [attempts EXCEPT ![i] = a],
         UNCHANGED <<tasks, live, unclaimed, launched>>,
         a.pc # "starting",
         a.pc \in {"launched", "running"} <=> attempts[i].pc \in {"launched", "running"}
  PROVE  Work'
<1>1. /\ \A w \in Workloads : (w \in live /\ w \notin unclaimed) <=>
            (attempts[w[1]].pc \in {"launched", "running"} /\ tasks[w[1]].attempt = w[2])
      /\ \A w \in launched : /\ w[2] <= tasks[w[1]].attempt /\ tasks[w[1]].status # "Pending"
                             /\ attempts[w[1]].pc = "starting" => w[2] < tasks[w[1]].attempt
      /\ launched \subseteq Workloads
  BY DEF Work, Matched, Rest
<1>2. \A j \in Tasks : /\ attempts'[j].pc \in {"launched", "running"} <=> attempts[j].pc \in {"launched", "running"}
                       /\ attempts'[j].pc = "starting" => attempts[j].pc = "starting"
  OBVIOUS
<1>3. Matched(tasks, attempts, unclaimed)'
  BY <1>1, <1>2, WorkloadParts DEF Matched
<1> QED
  BY <1>3 DEF Work, Held

\* Watching a workload keeps the invariant.
LEMMA StartedStep == ASSUME IInv, NEW i \in Tasks, Started(i) PROVE IInv'
<1>0. Core /\ Rest /\ Work
  BY Parts
<1> DEFINE a == [attempts[i] EXCEPT !.pc = "running"]
<1>1. /\ tasks \in [Tasks -> Task] /\ attempts \in [Tasks -> Attempt]
      /\ asked \in SUBSET Workloads
      /\ \A j \in Tasks : (attempts[j].pc = "running" /\ attempts[j].stopped) =>
                             <<j, tasks[j].attempt>> \in asked
      /\ \A j \in Tasks : attempts[j].taskExpired => j \in overdue
      /\ up /\ attempts[i].pc = "launched"
  BY <1>0, RunningFacts DEF Started
<1>2. a \in Attempt /\ a.pc = "running" /\ a.stopped = attempts[i].stopped /\ a.taskExpired = attempts[i].taskExpired
  BY <1>1 DEF Attempt, Stages
<1>3. attempts' = [attempts EXCEPT ![i] = a] /\ UNCHANGED <<tasks, live, unclaimed, launched>>
  BY DEF Started
<1>w. <<i, tasks[i].attempt>> \in Workloads
  BY <1>1 DEF Workloads, Task
<1>s. /\ asked \subseteq asked' /\ asked' \in SUBSET Workloads
      /\ attempts[i].stopped => <<i, tasks[i].attempt>> \in asked'
  BY <1>1, <1>w DEF Started
<1> HIDE DEF a
<1>4. Core'
  <2>1. UNCHANGED <<tasks, verdict, finished, closed, up, overdue>>
    BY DEF Started
  <2> QED
    BY <1>0, <1>1, <1>2, <1>3, <1>s, <2>1, OneAttempt
<1>5. Rest'
  BY <1>0 DEF Started, Rest
<1>6. Work'
  BY <1>0, <1>1, <1>2, <1>3, SameWork
<1> QED
  BY <1>4, <1>5, <1>6 DEF IInv, Core, Work

\* A timer that fires marks the attempt and stops its workload.
LEMMA TimedOutStep == ASSUME IInv, NEW i \in Tasks, NEW task \in BOOLEAN, TimedOut(i, task) PROVE IInv'
<1>0. Core /\ Rest /\ Work
  BY Parts
<1> DEFINE a == [attempts[i] EXCEPT !.timedOut = TRUE, !.taskExpired = @ \/ task]
<1>1. /\ tasks \in [Tasks -> Task] /\ attempts \in [Tasks -> Attempt]
      /\ asked \in SUBSET Workloads
      /\ \A j \in Tasks : (attempts[j].pc = "running" /\ attempts[j].stopped) =>
                             <<j, tasks[j].attempt>> \in asked
      /\ \A j \in Tasks : attempts[j].taskExpired => j \in overdue
      /\ up /\ attempts[i].pc \in {"running", "exited0", "exited1"}
  BY <1>0, RunningFacts DEF TimedOut
<1>2. /\ a \in Attempt /\ a.pc = attempts[i].pc /\ a.stopped = attempts[i].stopped
      /\ a.taskExpired = (attempts[i].taskExpired \/ task)
  BY <1>1 DEF Attempt
<1>3. attempts' = [attempts EXCEPT ![i] = a] /\ UNCHANGED <<tasks, live, unclaimed, launched>>
  BY DEF TimedOut
<1>e. (attempts[i].taskExpired \/ task) => i \in overdue
  BY <1>1 DEF TimedOut
<1>r. Running(Now, {i}) \subseteq Workloads
  BY <1>1 DEF Running, Now, Workloads, Task
<1>s. asked \subseteq asked' /\ asked' \in SUBSET Workloads
  BY <1>1, <1>r DEF TimedOut
<1> HIDE DEF a
<1>4. Core'
  <2>1. UNCHANGED <<tasks, verdict, finished, closed, up, overdue>>
    BY DEF TimedOut
  <2> QED
    BY <1>0, <1>1, <1>2, <1>3, <1>e, <1>s, <2>1, OneAttempt
<1>5. Rest'
  BY <1>0 DEF TimedOut, Rest
<1>6. Work'
  BY <1>0, <1>1, <1>2, <1>3, SameWork
<1> QED
  BY <1>4, <1>5, <1>6 DEF IInv, Core, Work

\* A workload no task claims goes away.
LEMMA Removed ==
  ASSUME Work, Rest, NEW w \in unclaimed, UNCHANGED <<tasks, attempts, launched>>,
         live' = live \ {w}, unclaimed' = unclaimed \ {w}
  PROVE  Work'
  BY DEF Work, Matched, Held, Rest

\* An exit keeps the invariant, whether a watcher sees it or nobody does.
LEMMA ExitStep ==
  ASSUME IInv, NEW w \in Workloads, NEW code \in {"exited0", "exited1"}, Exit(w, code)
  PROVE  IInv'
<1>0. Core /\ Rest /\ Work
  BY Parts
<1>r. Rest'
  BY <1>0 DEF Exit, Rest
<1>x. /\ w \in live /\ live' = live \ {w} /\ asked' = asked \ {w} /\ unclaimed' = unclaimed \ {w}
      /\ UNCHANGED <<tasks, verdict, finished, closed, up, overdue, launched>>
  BY DEF Exit
<1>m. /\ \A x \in Workloads : (x \in live /\ x \notin unclaimed) <=>
            (attempts[x[1]].pc \in {"launched", "running"} /\ tasks[x[1]].attempt = x[2])
      /\ \A x \in launched : /\ x[2] <= tasks[x[1]].attempt /\ tasks[x[1]].status # "Pending"
                             /\ attempts[x[1]].pc = "starting" => x[2] < tasks[x[1]].attempt
      /\ launched \subseteq Workloads /\ unclaimed \subseteq live /\ live \subseteq launched
  BY <1>0 DEF Work, Matched, Held, Rest
<1>1. CASE up /\ w \notin unclaimed
  <2> DEFINE i == w[1]
             a == [attempts[i] EXCEPT !.pc = code]
  <2>1. /\ tasks \in [Tasks -> Task] /\ attempts \in [Tasks -> Attempt]
        /\ asked \in SUBSET Workloads
        /\ \A j \in Tasks : (attempts[j].pc = "running" /\ attempts[j].stopped) =>
                               <<j, tasks[j].attempt>> \in asked
        /\ \A j \in Tasks : attempts[j].taskExpired => j \in overdue
    BY <1>0, <1>1, RunningFacts
  <2>2. i \in Tasks /\ w = <<i, w[2]>> /\ tasks[i].attempt = w[2]
    BY <1>1, <1>m, <1>x, WorkloadParts
  <2>3. attempts[i].pc = "running" /\ attempts' = [attempts EXCEPT ![i] = a]
    BY <1>1 DEF Exit
  <2>4. a \in Attempt /\ a.pc = code /\ a.stopped = attempts[i].stopped /\ a.taskExpired = attempts[i].taskExpired
    BY <2>1, <2>2 DEF Attempt, Stages
  <2> HIDE DEF i, a
  <2>5. \A j \in Tasks : j # i => <<j, tasks[j].attempt>> # w
    BY <2>2
  <2>6. Core'
    <3>1. \A j \in Tasks : (j # i /\ attempts[j].pc = "running" /\ attempts[j].stopped) =>
                              <<j, tasks[j].attempt>> \in asked'
      BY <1>x, <2>1, <2>5
    <3>2. asked' \in SUBSET Workloads /\ UNCHANGED <<tasks, verdict, finished, closed, up, overdue>>
      BY <1>x, <2>1
    <3>3. /\ attempts[i].pc # "none" /\ a.pc # "none" /\ a.pc # "running"
          /\ attempts[i].stopped => a.stopped
          /\ a.taskExpired => i \in overdue
      BY <2>1, <2>2, <2>3, <2>4
    <3> QED
      BY <1>0, <1>1, <2>2, <2>3, <2>4, <3>1, <3>2, <3>3, OneAttempt
  <2>7. /\ attempts'[i].pc = code /\ \A j \in Tasks : j # i => attempts'[j] = attempts[j]
        /\ unclaimed' = unclaimed
    BY <1>1, <1>x, <2>1, <2>2, <2>3, <2>4
  <2>8. \A x \in Workloads : (x \in live' /\ x \notin unclaimed') <=>
            (attempts'[x[1]].pc \in {"launched", "running"} /\ tasks'[x[1]].attempt = x[2])
    <3> TAKE x \in Workloads
    <3>1. x[1] \in Tasks /\ x = <<x[1], x[2]>>
      BY WorkloadParts
    <3>2. CASE x[1] = i
      <4>1. (x \in live /\ x \notin unclaimed) <=> x = w
        BY <1>1, <1>m, <1>x, <2>2, <2>3, <3>1, <3>2
      <4> QED
        BY <1>x, <2>7, <3>2, <4>1
    <3>3. CASE x[1] # i
      <4>1. x # w
        BY <2>2, <3>3
      <4> QED
        BY <1>m, <1>x, <2>7, <3>1, <3>3, <4>1
    <3> QED
      BY <3>2, <3>3
  <2>9. \A x \in launched' : /\ x[2] <= tasks'[x[1]].attempt /\ tasks'[x[1]].status # "Pending"
                             /\ attempts'[x[1]].pc = "starting" => x[2] < tasks'[x[1]].attempt
    <3> TAKE x \in launched'
    <3>1. x \in launched /\ x[1] \in Tasks
      BY <1>m, <1>x, WorkloadParts
    <3>2. attempts'[x[1]].pc = "starting" => attempts[x[1]].pc = "starting"
      BY <2>7, <3>1
    <3> QED
      BY <1>m, <1>x, <3>1, <3>2
  <2>10. Work'
    BY <1>m, <1>x, <2>7, <2>8, <2>9 DEF Work, Matched, Held
  <2> QED
    BY <1>r, <2>6, <2>10 DEF IInv, Core, Work
<1>2. CASE ~(up /\ w \notin unclaimed)
  <2>1. attempts' = attempts
    BY <1>2 DEF Exit
  <2>2. w \in unclaimed
    BY <1>0, <1>2, <1>x DEF Core, Down
  <2>3. Work'
    BY <1>0, <1>x, <2>1, <2>2, Removed
  <2>4. Core'
    <3>1. ASSUME up, NEW j \in Tasks, attempts[j].pc = "running", attempts[j].stopped
          PROVE  <<j, tasks[j].attempt>> \in asked'
      <4>1. <<j, tasks[j].attempt>> \in asked /\ <<j, tasks[j].attempt>> \in Workloads
        BY <1>0, <3>1, RunningFacts
      <4>2. <<j, tasks[j].attempt>> \notin unclaimed
        BY <1>m, <3>1, <4>1
      <4> QED
        BY <1>x, <2>2, <4>1, <4>2
    <3>2. ~up => (asked' = {} /\ unclaimed' = live')
      BY <1>0, <1>x DEF Core, Down
    <3>3. asked' \in SUBSET Workloads
      BY <1>0, <1>x DEF Core, Now, State
    <3> QED
      BY <1>0, <1>x, <2>1, <3>1, <3>2, <3>3, Quiet
  <2> QED
    BY <1>r, <2>3, <2>4 DEF IInv, Core, Work
<1> QED
  BY <1>1, <1>2

\* The cloud removes what nobody claims.
LEMMA RemoveStep == ASSUME IInv, NEW w \in Workloads, RemoveUnclaimed(w) PROVE IInv'
<1>0. Core /\ Rest /\ Work
  BY Parts
<1>1. Rest' /\ Work'
  BY <1>0, Removed DEF RemoveUnclaimed, Rest
<1>2. Core'
  <2>1. /\ up => \A j \in Tasks : (attempts[j].pc = "running" /\ attempts[j].stopped) =>
                                     <<j, tasks[j].attempt>> \in asked
        /\ asked \in SUBSET Workloads
    BY <1>0, RunningFacts DEF Core, Now, State
  <2>2. ~up => (asked' = {} /\ unclaimed' = live')
    BY <1>0 DEF Core, Down, RemoveUnclaimed
  <2>3. UNCHANGED <<tasks, attempts, verdict, finished, closed, up, overdue, asked>>
    BY DEF RemoveUnclaimed
  <2> QED
    BY <1>0, <2>1, <2>2, <2>3, Quiet
<1> QED
  BY <1>1, <1>2 DEF IInv, Core, Work

\* A task that outlives its timeout, with or without a process.
LEMMA OverdueStep == ASSUME IInv, NEW i \in Tasks, Overdue(i) PROVE IInv'
<1>0. Core /\ Rest /\ Work
  BY Parts
<1>1. Rest' /\ Work'
  BY <1>0 DEF Overdue, Rest, Work, Matched, Held
<1>2. Core'
  <2>1. /\ up => \A j \in Tasks : (attempts[j].pc = "running" /\ attempts[j].stopped) =>
                                     <<j, tasks[j].attempt>> \in asked
        /\ asked \in SUBSET Workloads
    BY <1>0, RunningFacts DEF Core, Now, State
  <2>2. ~up => (asked' = {} /\ unclaimed' = live')
    BY <1>0 DEF Core, Down, Overdue
  <2>3. UNCHANGED <<tasks, attempts, verdict, finished, closed, up, asked>> /\ overdue \subseteq overdue'
    BY DEF Overdue
  <2> QED
    BY <1>0, <2>1, <2>2, <2>3, Quiet
<1> QED
  BY <1>1, <1>2 DEF IInv, Core, Work

\* A locked section that keeps the process and the workloads as they are.
LEMMA CommitStep ==
  ASSUME IInv, NEW st, Open(st, closed'), Full(st), Matched(st.tasks, st.attempts, unclaimed'),
         Commit(st), ~finished, up', overdue' = overdue, live' = live, launched' = launched,
         unclaimed' \subseteq live, closed' \in BOOLEAN, up' \in BOOLEAN, began \subseteq began',
         began' \subseteq Tasks, crashes' = crashes
  PROVE  IInv'
<1>0. Core /\ Rest /\ Work
  BY Parts
<1>1. \A w \in Workloads : (st.attempts[w[1]].pc = "running" /\ st.tasks[w[1]].attempt = w[2]) => w \in live
  BY DEF Matched
<1>2. Core'
  BY <1>1, CommitCore
<1>3. finished' \in BOOLEAN
  BY <1>0 DEF Commit, Rest
<1>4. Rest'
  BY <1>0, <1>3 DEF Rest
<1>5. Work'
  BY <1>0 DEF Work, Matched, Held, Commit
<1> QED
  BY <1>2, <1>4, <1>5 DEF IInv, Core, Work

\* An attempt that ended, with or without a workload.
LEMMA EndedStep ==
  ASSUME IInv, up, NEW i \in Tasks, attempts[i].pc \in {"starting", "exited0", "exited1"},
         NEW success \in BOOLEAN, NEW answer \in RetryAnswers,
         Commit(Advance(AttemptEnded(Now, i, success, answer))),
         UNCHANGED <<closed, up, began, overdue, live, unclaimed, launched, crashes>>
  PROVE  IInv'
<1> DEFINE st == AttemptEnded(Now, i, success, answer)
<1>0. Core /\ Rest /\ Work
  BY Parts
<1>1. /\ Now.attempts[i].pc \in {"starting", "exited0", "exited1"} /\ Open(Now, closed)
      /\ Matched(Now.tasks, Now.attempts, unclaimed) /\ launched \subseteq Workloads
  BY <1>0 DEF Now, Core, Work, Rest
<1>2. Open(st, closed) /\ Matched(st.tasks, st.attempts, unclaimed)
  BY <1>1, EndedOpen, EndedMatched
<1> HIDE DEF st
<1>3. /\ Open(Advance(st), closed) /\ Full(Advance(st))
      /\ Matched(Advance(st).tasks, Advance(st).attempts, unclaimed)
  BY <1>1, <1>2, AdvanceOpen
<1>4. ~finished
  BY <1>0 DEF Core, Busy
<1>5. Commit(Advance(st))
  BY DEF st
<1>6. /\ unclaimed \subseteq live /\ closed \in BOOLEAN /\ up \in BOOLEAN /\ began \subseteq Tasks
  BY <1>0 DEF Work, Held, Rest
<1> DEFINE X == Advance(st)
<1>7. Open(X, closed') /\ Full(X) /\ Matched(X.tasks, X.attempts, unclaimed') /\ Commit(X)
  BY <1>3, <1>5
<1> HIDE DEF X
<1> QED
  BY <1>4, <1>6, <1>7, CommitStep

\* A cancellation that is only recorded.
LEMMA RecordCancelStep == ASSUME IInv, RecordCancel PROVE IInv'
<1>0. Core /\ Rest /\ Work
  BY Parts
<1>1. /\ up /\ ~finished /\ closed' = TRUE
      /\ UNCHANGED <<tasks, attempts, verdict, finished, up, began, overdue, live, asked,
                     unclaimed, launched, crashes>>
  BY DEF RecordCancel
<1>2. Now \in State /\ TasksInv(tasks, closed) /\ Open(Now, closed) /\ Full(Now)
  BY <1>0, <1>1 DEF Core
<1>3. Now' = Now
  BY <1>1 DEF Now
<1>4. TasksInv(tasks, closed)'
  BY <1>1, <1>2 DEF TasksInv, InOrder, Bounded, FailedLate, Fixed, With
<1>5. (Now \in State /\ Open(Now, closed) /\ Full(Now))'
  <2>1. /\ tasks \in [Tasks -> Task] /\ attempts \in [Tasks -> Attempt] /\ verdict \in Verdicts
        /\ asked \in SUBSET Workloads
        /\ \A i \in Tasks : Linked(tasks[i], attempts[i], verdict)
        /\ \A i \in Tasks : (attempts[i].pc = "running" /\ attempts[i].stopped) =>
                              <<i, tasks[i].attempt>> \in asked
        /\ \A i \in Tasks : attempts[i].taskExpired => i \in overdue
        /\ Cardinality(Busy(attempts)) <= Limit
        /\ Earned(tasks, verdict)
        /\ verdict # "Undecided" => With(tasks, "Pending") \cup With(tasks, "Running") = {}
        /\ verdict = "Undecided" => Fixed(tasks, FALSE)
        /\ (verdict = "Undecided" /\ With(tasks, "Pending") # {}) =>
              Cardinality(With(tasks, "Running")) = Limit
    BY <1>0, <1>1, RunningFacts
  <2> QED
    BY <1>1, <1>4, <2>1 DEF Now, State, Open, Full, Earned, With, Enough, Limit, Busy
<1>6. Core'
  BY <1>1, <1>4, <1>5 DEF Core
<1>7. Rest' /\ Work'
  BY <1>0, <1>1 DEF Rest, Work, Matched, Held
<1> QED
  BY <1>6, <1>7 DEF IInv, Core, Work

\* A cancellation that reaches the execution.
LEMMA CancelStep == ASSUME IInv, Cancel PROVE IInv'
<1>0. Core /\ Rest /\ Work
  BY Parts
<1> DEFINE X == StopRemaining([Now EXCEPT !.verdict = "Cancellation"])
<1>1. /\ up /\ verdict = "Undecided" /\ closed' = closed /\ closed = TRUE /\ live' = live /\ Commit(X)
      /\ UNCHANGED <<up, began, overdue, unclaimed, launched, crashes>>
  BY <1>0 DEF Cancel, Rest
<1>2. Now \in State /\ Now.verdict = verdict /\ Open(Now, closed) /\ Full(Now) /\ ~finished
  BY <1>0, <1>1 DEF Core, Now
<1>3. Matched(Now.tasks, Now.attempts, unclaimed) /\ launched \subseteq Workloads
  BY <1>0 DEF Now, Work, Rest
<1>4. "Cancellation" \in Verdicts /\ "Cancellation" # "Undecided" /\ Earned(Now.tasks, "Cancellation")
  BY DEF Verdicts, Earned
<1>5. Open(X, TRUE) /\ Full(X)
  BY <1>1, <1>2, <1>4, StopOpen
<1>6. Matched(X.tasks, X.attempts, unclaimed)
  BY <1>2, <1>3, <1>4, StopMatched
<1>7. unclaimed \subseteq live /\ began \subseteq Tasks /\ up \in BOOLEAN
  BY <1>0 DEF Work, Held, Rest
<1> HIDE DEF X
<1> QED
  BY <1>1, <1>2, <1>5, <1>6, <1>7, CommitStep

\* A crash leaves what the cloud recorded and the workloads.
LEMMA CrashStep == ASSUME IInv, Crash PROVE IInv'
<1>0. Core /\ Rest /\ Work
  BY Parts
<1>1. /\ tasks \in [Tasks -> Task] /\ TasksInv(tasks, closed)
  BY <1>0 DEF Core, Now, State
<1>2. /\ attempts' = [i \in Tasks |-> NoAttempt] /\ verdict' = "Undecided" /\ asked' = {}
      /\ unclaimed' = live /\ ~finished /\ up' = FALSE /\ crashes' = crashes + 1 /\ crashes < MaxCrashes
      /\ UNCHANGED <<tasks, finished, closed, began, overdue, live, launched>>
  BY DEF Crash
<1>3. Rest'
  <2>1. crashes \in 0 .. MaxCrashes
    BY <1>0 DEF Rest
  <2>2. crashes' \in 0 .. MaxCrashes
    BY <1>2, <2>1, SpecAssumption
  <2> QED
    BY <1>0, <1>2, <2>2 DEF Rest
<1>4. (Now \in State)'
  BY <1>1, <1>2, Blank DEF Now, State, Verdicts
<1>5. TasksInv(tasks, closed)'
  BY <1>1, <1>2, MoreOverdue
<1>6. Down'
  BY <1>2 DEF Down
<1>7. Work'
  <2>1. \A i \in Tasks : attempts'[i].pc = "none"
    BY <1>2, Blank
  <2>2. /\ \A w \in launched : w[2] <= tasks[w[1]].attempt /\ tasks[w[1]].status # "Pending"
        /\ launched \subseteq Workloads /\ live \subseteq launched
    BY <1>0 DEF Work, Matched, Held, Rest
  <2> QED
    BY <1>2, <2>1, <2>2, WorkloadParts DEF Work, Matched, Held
<1> QED
  BY <1>2, <1>3, <1>4, <1>5, <1>6, <1>7 DEF IInv, Work

\* The execution a resumed process begins with: the adopted attempts run on,
\* the lost ones ended.
LEMMA ResumeOpen ==
  ASSUME IInv, ~up, ~closed, NEW adopted \in SUBSET With(tasks, "Running"),
         NEW answers \in [Tasks -> RetryAnswers],
         NEW st \in State, st.tasks = tasks, st.verdict = "Undecided", st.asked = {},
         \A i \in Tasks : st.attempts[i] = IF i \in adopted THEN NewAttempt("running") ELSE NoAttempt,
         NEW U, \A w \in Workloads : (w \in live /\ w \notin U)
                                       <=> (w[1] \in adopted /\ tasks[w[1]].attempt = w[2])
  PROVE  LET X == EndLost(st, With(tasks, "Running") \ adopted, answers)
         IN  Open(X, closed) /\ Matched(X.tasks, X.attempts, U)
<1> DEFINE A == st.attempts
           lost == With(tasks, "Running") \ adopted
           X == EndLost(st, lost, answers)
           V == [i \in Tasks |-> IF i \in lost THEN EndedTask(st, i, FALSE, answers[i]) ELSE tasks[i]]
           B == [i \in Tasks |-> IF i \in lost THEN EndedAttempt(st, i, FALSE, answers[i]) ELSE A[i]]
<1> SUFFICES Open(X, closed) /\ Matched(X.tasks, X.attempts, U)
  OBVIOUS
<1>0. tasks \in [Tasks -> Task] /\ TasksInv(tasks, closed)
  BY DEF IInv, Now, State
<1>1. st = [tasks |-> tasks, attempts |-> A, verdict |-> "Undecided", asked |-> {}]
  BY DEF State
<1>2. /\ \A i \in Tasks : A[i] \in Attempt /\ ~A[i].taskExpired /\ ~A[i].stopped
      /\ \A i \in Tasks : i \in adopted => A[i].pc = "running"
      /\ \A i \in Tasks : i \notin adopted => A[i].pc = "none"
  BY Blank
<1>3. A \in [Tasks -> Attempt]
  BY DEF State
<1>4. /\ st.tasks = tasks /\ st.attempts = A /\ st.verdict = "Undecided" /\ st.asked = {}
      /\ st \in State
  OBVIOUS
<1> HIDE DEF A
<1>5. ASSUME NEW i \in lost
      PROVE  /\ i \in Tasks /\ answers[i] \in RetryAnswers
             /\ EndedTask(st, i, FALSE, answers[i]) \in Task
             /\ EndedAttempt(st, i, FALSE, answers[i]) \in Attempt
             /\ AttemptEnded(st, i, FALSE, answers[i]).tasks[i] = EndedTask(st, i, FALSE, answers[i])
             /\ AttemptEnded(st, i, FALSE, answers[i]).attempts[i] = EndedAttempt(st, i, FALSE, answers[i])
  <2>1. i \in Tasks /\ answers[i] \in RetryAnswers /\ answers[i] \in BOOLEAN
    BY SpecAssumption DEF With
  <2> DEFINE t == EndedTask(st, i, FALSE, answers[i])
             a == EndedAttempt(st, i, FALSE, answers[i])
  <2>2. /\ t \in Task /\ a \in Attempt
        /\ AttemptEnded(st, i, FALSE, answers[i]) =
              [tasks |-> [st.tasks EXCEPT ![i] = t], attempts |-> [st.attempts EXCEPT ![i] = a],
               verdict |-> st.verdict, asked |-> st.asked]
    BY <1>4, <2>1, EndedParts
  <2> HIDE DEF t, a
  <2>3. /\ AttemptEnded(st, i, FALSE, answers[i]).tasks[i] = t
        /\ AttemptEnded(st, i, FALSE, answers[i]).attempts[i] = a
    BY <1>4, <2>1, EndedHere DEF t, a
  <2> QED
    BY <2>1, <2>2, <2>3 DEF t, a
<1>6. X = [st EXCEPT !.tasks = V, !.attempts = B]
  <2>1. V = [i \in Tasks |-> IF i \in lost THEN AttemptEnded(st, i, FALSE, answers[i]).tasks[i] ELSE st.tasks[i]]
    BY <1>4, <1>5
  <2>2. B = [i \in Tasks |-> IF i \in lost THEN AttemptEnded(st, i, FALSE, answers[i]).attempts[i] ELSE st.attempts[i]]
    BY <1>4, <1>5
  <2> HIDE DEF V, B, lost
  <2> QED
    BY <2>1, <2>2 DEF EndLost
<1>7. ASSUME NEW i \in lost
      PROVE  /\ V[i] \in Task /\ B[i] \in Attempt
             /\ V[i].status \in {"Running", "Succeeded", "Failed"}
             /\ V[i].status = "Running" <=> B[i] # NoAttempt
             /\ B[i] # NoAttempt => (B[i] = NewAttempt("starting") /\ V[i].attempt = tasks[i].attempt + 1)
             /\ V[i].attempt >= tasks[i].attempt
             /\ (RetryAnswers = {TRUE} /\ V[i].status = "Failed") =>
                   (V[i].attempt = MaxRetries \/ i \in overdue)
             /\ tasks[i].status = "Running"
  <2>1. /\ i \in Tasks /\ st.tasks[i].status = "Running" /\ ~st.attempts[i].taskExpired
        /\ answers[i] \in RetryAnswers /\ FALSE \in BOOLEAN
    BY <1>2, <1>4, <1>5 DEF With
  <2> DEFINE t == EndedTask(st, i, FALSE, answers[i])
             a == EndedAttempt(st, i, FALSE, answers[i])
  <2>2. /\ t.status \in {"Running", "Succeeded", "Failed"}
        /\ t.status = "Running" <=> a # NoAttempt
        /\ a # NoAttempt => (a = NewAttempt("starting") /\ t.attempt = st.tasks[i].attempt + 1)
        /\ t.attempt >= st.tasks[i].attempt
        /\ (RetryAnswers = {TRUE} /\ t.status = "Failed") => (t.attempt = MaxRetries \/ i \in overdue)
    BY <1>4, <2>1, EndedRunning
  <2>3. V[i] = t /\ B[i] = a /\ t \in Task /\ a \in Attempt
    BY <1>5, <2>1
  <2> HIDE DEF t, a, V, B
  <2> QED
    BY <1>4, <2>1, <2>2, <2>3
<1>8. \A i \in Tasks : i \notin lost => V[i] = tasks[i] /\ B[i] = A[i]
  OBVIOUS
<1>9. V \in [Tasks -> Task] /\ B \in [Tasks -> Attempt]
  BY <1>0, <1>3, <1>5
<1>l. /\ lost \subseteq Tasks /\ adopted \subseteq Tasks
      /\ \A i \in Tasks : tasks[i].status = "Running" <=> (i \in lost \/ i \in adopted)
      /\ \A i \in adopted : i \notin lost
  BY DEF With
<1> HIDE DEF X, V, B, lost
<1>10. /\ X = [tasks |-> V, attempts |-> B, verdict |-> "Undecided", asked |-> {}]
  BY <1>1, <1>6
<1>11. X.tasks = V /\ X.attempts = B /\ X.verdict = "Undecided" /\ X.asked = {}
  BY <1>10
<1>12. X \in State
  BY <1>9, <1>10 DEF State, Verdicts
<1>13. TasksInv(V, closed)
  <2> DEFINE T == st.tasks
  <2>0. T = tasks /\ T \in [Tasks -> Task] /\ TasksInv(T, closed)
    BY <1>0, <1>4
  <2> HIDE DEF T
  <2>1. \A i \in Tasks : \/ V[i] = T[i]
                         \/ /\ T[i].status = "Running"
                            /\ V[i].status \in {"Running", "Succeeded", "Failed"}
                            /\ (RetryAnswers = {TRUE} /\ V[i].status = "Failed") =>
                                  (V[i].attempt = MaxRetries \/ i \in overdue)
    BY <1>7, <1>8, <2>0
  <2>2. V \in [Tasks -> Task] /\ T \in [Tasks -> Task] /\ TasksInv(T, closed)
    BY <1>9, <2>0
  <2> QED
    BY <2>1, <2>2, TasksEnd
<1>14. ASSUME NEW i \in Tasks
       PROVE  /\ Linked(V[i], B[i], "Undecided") /\ ~B[i].taskExpired /\ ~B[i].stopped
              /\ i \notin lost => (B[i].pc = "running" <=> i \in adopted) /\ B[i].pc \in {"running", "none"}
              /\ i \in lost => B[i].pc \in {"none", "starting"}
              /\ B[i].pc # "none" => tasks[i].status = "Running"
  <2>1. CASE i \in lost
    <3>1. CASE B[i] = NoAttempt
      BY <1>7, <2>1, <3>1, Blank DEF Linked
    <3>2. CASE B[i] # NoAttempt
      <4>1. B[i] = NewAttempt("starting") /\ V[i].status = "Running" /\ tasks[i].status = "Running"
        BY <1>7, <2>1, <3>2
      <4> QED
        BY <2>1, <4>1, Blank DEF Linked
    <3> QED
      BY <3>1, <3>2
  <2>2. CASE i \notin lost
    <3>1. V[i] = tasks[i] /\ B[i] = A[i] /\ ~A[i].taskExpired /\ ~A[i].stopped
      BY <1>2, <1>8, <2>2
    <3>2. CASE i \in adopted
      BY <1>2, <1>l, <2>2, <3>1, <3>2 DEF Linked
    <3>3. CASE i \notin adopted
      BY <1>2, <1>l, <2>2, <3>1, <3>3 DEF Linked
    <3> QED
      BY <3>2, <3>3
  <2> QED
    BY <2>1, <2>2
<1>15. Cardinality(Busy(B)) <= Limit
  <2>1. Busy(B) \in SUBSET With(tasks, "Running") /\ With(tasks, "Running") \in SUBSET Tasks
    BY <1>14 DEF Busy, With
  <2>2. /\ Cardinality(Busy(B)) <= Cardinality(With(tasks, "Running"))
        /\ Cardinality(Busy(B)) \in Nat /\ Cardinality(With(tasks, "Running")) \in Nat
    BY <2>1, CountSubset, CountType
  <2>3. Cardinality(With(tasks, "Running")) <= Limit
    BY <1>0 DEF TasksInv, Bounded
  <2> QED
    BY <2>2, <2>3, LimitType
<1>16. Open(X, closed)
  <2>1. Fixed(V, FALSE)
    BY <1>13 DEF TasksInv, Fixed
  <2> QED
    BY <1>11, <1>12, <1>13, <1>14, <1>15, <2>1 DEF Open, Earned
<1>17. /\ \A w \in launched : w[2] <= tasks[w[1]].attempt /\ tasks[w[1]].status # "Pending"
       /\ launched \subseteq Workloads /\ live \subseteq launched
  BY DEF IInv, Matched, Held, Rest
<1>18. ASSUME NEW w \in Workloads
       PROVE  (w \in live /\ w \notin U) <=> (B[w[1]].pc \in {"launched", "running"} /\ V[w[1]].attempt = w[2])
  <2>1. w[1] \in Tasks /\ w = <<w[1], w[2]>>
    BY WorkloadParts
  <2>2. (w \in live /\ w \notin U) <=> (w[1] \in adopted /\ tasks[w[1]].attempt = w[2])
    OBVIOUS
  <2>3. B[w[1]].pc \in {"launched", "running"} <=> w[1] \in adopted
    BY <1>14, <1>l, <2>1
  <2>4. w[1] \in adopted => V[w[1]] = tasks[w[1]]
    BY <1>8, <1>l, <2>1
  <2> QED
    BY <2>2, <2>3, <2>4
<1>19. ASSUME NEW w \in launched
       PROVE  /\ w[2] <= V[w[1]].attempt /\ V[w[1]].status # "Pending"
              /\ B[w[1]].pc = "starting" => w[2] < V[w[1]].attempt
  <2>1. w[1] \in Tasks /\ w[2] \in Nat /\ w[2] <= tasks[w[1]].attempt /\ tasks[w[1]].status # "Pending"
    BY <1>17, WorkloadParts
  <2>2. CASE w[1] \notin lost
    BY <1>8, <1>14, <2>1, <2>2
  <2>3. CASE w[1] \in lost
    <3>0. tasks[w[1]].attempt \in Nat /\ V[w[1]].attempt \in Nat
      BY <1>0, <1>9, <2>1, SpecAssumption DEF Task
    <3>1. V[w[1]].attempt >= tasks[w[1]].attempt /\ V[w[1]].status # "Pending"
      BY <1>7, <2>3
    <3>2. B[w[1]].pc = "starting" => V[w[1]].attempt = tasks[w[1]].attempt + 1
      BY <1>7, <2>3, Blank
    <3> QED
      BY <2>1, <3>0, <3>1, <3>2
  <2> QED
    BY <2>2, <2>3
<1>20. Matched(V, B, U)
  BY <1>18, <1>19 DEF Matched
<1> QED
  BY <1>11, <1>16, <1>20

\* A resumption keeps the invariant.
LEMMA ResumeStep == ASSUME IInv, Resume PROVE IInv'
<1> DEFINE running == With(tasks, "Running")
           present == {i \in running : <<i, tasks[i].attempt>> \in live}
<1>1. ~up /\ ~closed /\ up' = TRUE /\ UNCHANGED <<closed, overdue, launched, crashes>>
  BY DEF Resume
<1>2. PICK adopted \in SUBSET present, answers \in [Tasks -> RetryAnswers] :
        LET st == [Now EXCEPT !.attempts = [i \in Tasks |->
                      IF i \in adopted THEN NewAttempt("running") ELSE NoAttempt]]
        IN  /\ UNCHANGED live
            /\ unclaimed' = live \ {<<i, tasks[i].attempt>> : i \in adopted}
            /\ began' = began \cup adopted
            /\ Commit(Advance(EndLost(st, running \ adopted, answers)))
  BY DEF Resume
<1> DEFINE st == [Now EXCEPT !.attempts = [i \in Tasks |->
                      IF i \in adopted THEN NewAttempt("running") ELSE NoAttempt]]
           X == EndLost(st, running \ adopted, answers)
           U == live \ {<<i, tasks[i].attempt>> : i \in adopted}
<1>3. Open(X, closed) /\ Matched(X.tasks, X.attempts, U)
  <2>1. adopted \in SUBSET With(tasks, "Running") /\ \A i \in adopted : <<i, tasks[i].attempt>> \in live
    OBVIOUS
  <2>2. Now \in State /\ Now.tasks = tasks /\ verdict = "Undecided" /\ asked = {}
    BY <1>1 DEF IInv, Down, Now
  <2>3. \A i \in Tasks : (IF i \in adopted THEN NewAttempt("running") ELSE NoAttempt) \in Attempt
    BY Blank
  <2>4. st = [tasks |-> tasks, verdict |-> "Undecided", asked |-> {},
              attempts |-> [i \in Tasks |-> IF i \in adopted THEN NewAttempt("running") ELSE NoAttempt]]
    BY <2>2 DEF Now
  <2>5. st.tasks = tasks /\ st.verdict = "Undecided" /\ st.asked = {}
    BY <2>4
  <2>6. \A i \in Tasks : st.attempts[i] = IF i \in adopted THEN NewAttempt("running") ELSE NoAttempt
    BY <2>4
  <2>7. st \in State
    <3>1. tasks \in [Tasks -> Task]
      BY <2>2 DEF State
    <3> QED
      BY <2>3, <2>4, <3>1 DEF State, Verdicts
  <2>8. ASSUME NEW w \in Workloads
        PROVE  (w \in live /\ w \notin U) <=> (w[1] \in adopted /\ tasks[w[1]].attempt = w[2])
    <3>1. w = <<w[1], w[2]>>
      BY WorkloadParts
    <3>2. \A i \in adopted : <<i, tasks[i].attempt>> = w <=> (i = w[1] /\ tasks[i].attempt = w[2])
      BY <3>1
    <3> QED
      BY <2>1, <3>1, <3>2
  <2> HIDE DEF st, U
  <2> QED
    BY <1>1, <2>1, <2>5, <2>6, <2>7, <2>8, ResumeOpen
<1>4. live' = live /\ unclaimed' = U /\ began' = began \cup adopted /\ Commit(Advance(X))
  BY <1>2
<1>5. U \subseteq live /\ adopted \subseteq Tasks
  BY DEF With
<1> HIDE DEF X, U
<1>6. launched \subseteq Workloads /\ began \subseteq Tasks /\ ~finished /\ closed \in BOOLEAN
  BY <1>1 DEF IInv, Rest, Down
<1>7. /\ Open(Advance(X), closed) /\ Full(Advance(X))
      /\ Matched(Advance(X).tasks, Advance(X).attempts, U)
  BY <1>3, <1>6, AdvanceOpen
<1> DEFINE Y == Advance(X)
<1>8. Open(Y, closed') /\ Full(Y) /\ Matched(Y.tasks, Y.attempts, unclaimed') /\ Commit(Y)
  BY <1>1, <1>4, <1>7
<1> HIDE DEF Y
<1>9. /\ unclaimed' \subseteq live /\ up' \in BOOLEAN /\ up' /\ began \subseteq began' /\ began' \subseteq Tasks
      /\ closed' \in BOOLEAN
  BY <1>1, <1>4, <1>5, <1>6
<1> QED
  BY <1>1, <1>4, <1>6, <1>8, <1>9, CommitStep

-----------------------------------------------------------------------------
(* The invariant holds *)

\* The execution before Start gives the first slots away.
Fresh == [tasks |-> [i \in Tasks |-> [status |-> "Pending", attempt |-> 0]],
          attempts |-> [i \in Tasks |-> NoAttempt], verdict |-> "Undecided", asked |-> {}]

\* A fresh execution is open, and its policy undecided.
LEMMA FreshOpen == Open(Fresh, FALSE) /\ Advance(Fresh) = StartAdmitted(Fresh)
<1> DEFINE T == Fresh.tasks
           A == Fresh.attempts
<1>0. N \in Nat /\ N > 0 /\ Needed \in Nat /\ Needed <= N /\ 0 \in 0 .. MaxRetries
  BY SpecAssumption
<1>1. /\ Fresh.verdict = "Undecided" /\ Fresh.asked = {}
      /\ \A i \in Tasks : T[i].status = "Pending" /\ T[i].attempt = 0
      /\ \A i \in Tasks : A[i] = NoAttempt
  BY DEF Fresh
<1>2. Fresh \in State
  BY <1>0, Blank DEF Fresh, State, Task, Statuses, Verdicts
<1>3. Fresh = [tasks |-> T, attempts |-> A, verdict |-> "Undecided", asked |-> {}]
  BY DEF Fresh
<1> HIDE DEF T, A
<1>4. \A s \in Statuses : s # "Pending" => With(T, s) = {}
  BY <1>1 DEF With
<1>5. With(T, "Pending") = Tasks /\ With(T, "Running") = {} /\ With(T, "Succeeded") = {}
      /\ With(T, "Failed") = {} /\ With(T, "Cancelled") = {}
  BY <1>1, <1>4 DEF With, Statuses
<1>6. Cardinality(Tasks) = N
  BY SpecAssumption, FS_Interval DEF Tasks
<1>7. Cardinality(With(T, "Running")) = 0 /\ Cardinality(With(T, "Succeeded")) = 0
  BY <1>5, FS_EmptySet
<1>8. Cardinality(With(T, "Pending") \cup With(T, "Running")) = N
  BY <1>5, <1>6
<1>9. Policy(T) = "Undecided"
  BY <1>0, <1>7, <1>8 DEF Policy
<1>10. TasksInv(T, FALSE)
  <2>1. InOrder(T)
    BY <1>1 DEF InOrder
  <2>2. Bounded(T)
    BY <1>7, LimitType DEF Bounded
  <2>3. FailedLate(T) /\ Fixed(T, FALSE)
    BY <1>5 DEF FailedLate, Fixed
  <2> QED
    BY <2>1, <2>2, <2>3 DEF TasksInv
<1>11. Cardinality(Busy(A)) <= Limit
  <2>1. Busy(A) = {}
    BY <1>1, Blank DEF Busy
  <2>2. Cardinality(Busy(A)) = 0
    BY <2>1, FS_EmptySet
  <2> QED
    BY <2>2, LimitType
<1>12. \A i \in Tasks : Linked(T[i], A[i], "Undecided") /\ ~A[i].stopped /\ ~A[i].taskExpired
  BY <1>1, Blank DEF Linked
<1>13. Fresh.tasks = T /\ Fresh.attempts = A
  BY DEF T, A
<1>14. Open(Fresh, FALSE)
  BY <1>1, <1>2, <1>10, <1>11, <1>12, <1>13 DEF Open, Earned, TasksInv
<1>15. Advance(Fresh) = StartAdmitted(Fresh)
  BY <1>1, <1>9, <1>13 DEF Advance
<1> QED
  BY <1>14, <1>15

\* Start establishes the invariant.
LEMMA InitInv == ASSUME Init PROVE IInv
<1> DEFINE X == Advance(Fresh)
<1>1. /\ tasks = X.tasks /\ attempts = X.attempts /\ verdict = X.verdict /\ finished = FALSE
      /\ closed = FALSE /\ up = TRUE /\ began = {} /\ overdue = {} /\ live = {} /\ asked = {}
      /\ unclaimed = {} /\ launched = {} /\ crashes = 0
  BY DEF Init, Fresh
<1>2. Matched(Fresh.tasks, Fresh.attempts, unclaimed) /\ launched \subseteq Workloads
  <2>1. \A i \in Tasks : Fresh.attempts[i].pc = "none"
    BY Blank DEF Fresh
  <2> QED
    BY <1>1, <2>1, WorkloadParts DEF Matched
<1>3. Open(Fresh, closed)
  BY <1>1, FreshOpen
<1>4. Open(X, closed) /\ Full(X) /\ Matched(X.tasks, X.attempts, unclaimed)
  BY <1>2, <1>3, AdvanceOpen
<1>5. X.asked = {}
  BY FreshOpen DEF StartAdmitted, Fresh
<1> HIDE DEF X
<1>6. X \in State
  BY <1>4 DEF Open
<1>7. X = [tasks |-> X.tasks, attempts |-> X.attempts, verdict |-> X.verdict, asked |-> X.asked]
  BY <1>6 DEF State
<1>8. Now = X
  BY <1>1, <1>5, <1>7 DEF Now
<1>9. TasksInv(X.tasks, closed)
  BY <1>4 DEF Open
<1>10. Rest
  <2>1. crashes \in 0 .. MaxCrashes
    BY <1>1, SpecAssumption
  <2>2. finished \in BOOLEAN /\ closed \in BOOLEAN /\ up \in BOOLEAN
    BY <1>1, Zenon
  <2> QED
    BY <1>1, <2>1, <2>2, Zenon DEF Rest
<1>11. Now \in State /\ Open(Now, closed) /\ Full(Now)
  BY <1>4, <1>6, <1>8
<1>12. tasks = X.tasks /\ attempts = X.attempts /\ up /\ ~finished
  BY <1>1
<1>14. TasksInv(tasks, closed) /\ Matched(tasks, attempts, unclaimed)
  BY <1>4, <1>9, <1>12
<1>13. Held
  BY <1>1 DEF Held
<1> QED
  BY <1>10, <1>11, <1>12, <1>13, <1>14 DEF IInv

\* Every step keeps the invariant.
LEMMA StepInv == ASSUME IInv, [Next]_vars PROVE IInv'
<1>1. ASSUME NEW i \in Tasks, StartFailed(i) PROVE IInv'
  <2>1. PICK answer \in RetryAnswers : Commit(Advance(AttemptEnded(Now, i, FALSE, answer)))
    BY <1>1 DEF StartFailed
  <2>2. /\ up /\ attempts[i].pc \in {"starting", "exited0", "exited1"} /\ FALSE \in BOOLEAN
        /\ UNCHANGED <<closed, up, began, overdue, live, unclaimed, launched, crashes>>
    BY <1>1 DEF StartFailed
  <2> QED
    BY <2>1, <2>2, EndedStep
<1>2. ASSUME NEW i \in Tasks, Watched(i) PROVE IInv'
  <2> DEFINE success == attempts[i].pc = "exited0" /\ ~attempts[i].timedOut /\ ~attempts[i].stopped
  <2>1. PICK answer \in RetryAnswers : Commit(Advance(AttemptEnded(Now, i, success, answer)))
    BY <1>2 DEF Watched
  <2>2. /\ up /\ attempts[i].pc \in {"starting", "exited0", "exited1"} /\ success \in BOOLEAN
        /\ UNCHANGED <<closed, up, began, overdue, live, unclaimed, launched, crashes>>
    BY <1>2 DEF Watched
  <2> HIDE DEF success
  <2> QED
    BY <2>1, <2>2, EndedStep
<1>3. ASSUME UNCHANGED vars PROVE IInv'
  <2>1. /\ tasks' = tasks /\ attempts' = attempts /\ verdict' = verdict /\ finished' = finished
        /\ closed' = closed /\ up' = up /\ began' = began /\ overdue' = overdue /\ live' = live
        /\ asked' = asked /\ unclaimed' = unclaimed /\ launched' = launched /\ crashes' = crashes
    BY <1>3 DEF vars
  <2>2. Now' = Now /\ Busy(attempts)' = Busy(attempts)
    BY <2>1 DEF Now, Busy
  <2>3. TasksInv(tasks, closed)'
    BY <2>1, MoreOverdue DEF IInv
  <2>4. ASSUME up PROVE (Open(Now, closed) /\ Full(Now))'
    BY <2>1, <2>2, <2>3, <2>4 DEF IInv, Open, Full, Now
  <2> QED
    BY <2>1, <2>2, <2>3, <2>4 DEF IInv, Rest, Down, Matched, Held
<1> QED
  BY <1>1, <1>2, <1>3, LaunchStep, StartedStep, OverdueStep, TimedOutStep, ExitStep, RemoveStep,
     RecordCancelStep, CancelStep, CrashStep, ResumeStep DEF Next

\* The inductive invariant holds of every reachable state.
THEOREM Invariance == Spec => []IInv
  BY InitInv, StepInv, PTL DEF Spec

-----------------------------------------------------------------------------
(* What the invariant says *)

\* Every variable keeps its type (Execution's fields, the workloads).
THEOREM TypeCorrect == Spec => []TypeOK
<1>1. IInv => TypeOK
  <2> SUFFICES ASSUME IInv PROVE TypeOK
    OBVIOUS
  <2>1. tasks \in [Tasks -> Task] /\ attempts \in [Tasks -> Attempt] /\ verdict \in Verdicts
        /\ asked \in SUBSET Workloads
    BY DEF IInv, Now, State
  <2> QED
    BY <2>1 DEF IInv, Rest, TypeOK, Task, Attempt
<1> QED
  BY <1>1, Invariance, PTL

\* Each claimed workload belongs to an attempt in progress, and no two to one.
LEMMA ClaimedBusy ==
  ASSUME IInv
  PROVE  /\ \A w \in Claimed : /\ w \in Workloads /\ w[1] \in Busy(attempts)
                               /\ attempts[w[1]].pc \in {"launched", "running"} /\ tasks[w[1]].attempt = w[2]
         /\ \A w, x \in Claimed : w[1] = x[1] => w = x
<1>1. live \subseteq Workloads
  BY DEF IInv, Rest
<1>2. ASSUME NEW w \in Claimed
      PROVE  /\ w \in Workloads /\ w[1] \in Busy(attempts) /\ w = <<w[1], w[2]>>
             /\ attempts[w[1]].pc \in {"launched", "running"} /\ tasks[w[1]].attempt = w[2]
  <2>1. w \in Workloads /\ w \in live /\ w \notin unclaimed
    BY <1>1 DEF Claimed
  <2>2. attempts[w[1]].pc \in {"launched", "running"} /\ tasks[w[1]].attempt = w[2]
    BY <2>1 DEF IInv, Matched
  <2> QED
    BY <2>1, <2>2, WorkloadParts DEF Busy
<1>3. ASSUME NEW w \in Claimed, NEW x \in Claimed, w[1] = x[1] PROVE w = x
  BY <1>2, <1>3
<1> QED
  BY <1>2, <1>3

\* As many workloads are claimed as attempts are in progress, at most.
LEMMA ClaimedFew == ASSUME IInv PROVE Cardinality(Claimed) <= Limit
<1>1. CASE ~up
  <2>1. Claimed = {}
    BY <1>1 DEF IInv, Down, Claimed
  <2>2. Cardinality(Claimed) = 0
    BY <2>1, FS_EmptySet
  <2> QED
    BY <2>2, LimitType
<1>2. CASE up
  <2> DEFINE f == [w \in Claimed |-> w[1]]
  <2>1. /\ Busy(attempts) \in SUBSET Tasks /\ IsFiniteSet(Busy(attempts))
        /\ Cardinality(Busy(attempts)) \in Nat
    BY CountType DEF Busy
  <2>2. f \in [Claimed -> Busy(attempts)] /\ \A w, x \in Claimed : f[w] = f[x] => w = x
    BY ClaimedBusy
  <2>3. f \in Injection(Claimed, Busy(attempts))
    <3> HIDE DEF f
    <3> QED
      BY <2>2 DEF Injection, IsInjective
  <2> HIDE DEF f
  <2>5. IsFiniteSet(Claimed) /\ Cardinality(Claimed) <= Cardinality(Busy(attempts))
    BY <2>1, <2>3, FS_Injection
  <2>6. Cardinality(Claimed) \in Nat
    BY <2>5, FS_CardinalityType
  <2>7. Cardinality(Busy(attempts)) <= Limit
    BY <1>2, Parts, RunningFacts
  <2> QED
    BY <2>1, <2>5, <2>6, <2>7, LimitType
<1> QED
  BY <1>1, <1>2

\* Spec.Parallelism bounds the running tasks and the workloads the process
\* claims, through retries, timeouts, cancellation and adoption.
THEOREM ParallelismKept == Spec => []ParallelismBound
<1>1. IInv => ParallelismBound
  BY ClaimedFew DEF IInv, TasksInv, Bounded, ParallelismBound
<1> QED
  BY <1>1, Invariance, PTL

\* advanceLocked leaves no slot idle while a task waits, and begins tasks in
\* the order of their index.
THEOREM NoIdleSlot == Spec => []SlotsUsed
<1>1. IInv => SlotsUsed
  <2> SUFFICES ASSUME IInv, up, verdict = "Undecided"
               PROVE  /\ With(tasks, "Pending") # {} => Cardinality(With(tasks, "Running")) = Limit
                      /\ InOrder(tasks)
    BY DEF SlotsUsed, InOrder
  <2> QED
    BY Parts, RunningFacts DEF TasksInv
<1> QED
  BY <1>1, Invariance, PTL

\* finishIfDoneLocked finishes an execution only when no workload the
\* process tracks is left.
THEOREM FinishesClean == Spec => []FinishedClean
<1>1. IInv => FinishedClean
  <2> SUFFICES ASSUME IInv, finished PROVE verdict # "Undecided" /\ Claimed = {}
    BY DEF FinishedClean
  <2>1. verdict # "Undecided" /\ Busy(attempts) = {}
    BY DEF IInv
  <2> QED
    BY <2>1, ClaimedBusy
<1> QED
  BY <1>1, Invariance, PTL

\* stopRemainingLocked and attemptStarted leave no workload of an ended task
\* running unnoticed.
THEOREM NoneStray == Spec => []NoStrayWorkload
<1>1. IInv => NoStrayWorkload
  <2> SUFFICES ASSUME IInv, up, NEW w \in Claimed
               PROVE  \/ tasks[w[1]].status = "Running" /\ tasks[w[1]].attempt = w[2]
                      \/ w \in asked
                      \/ attempts[w[1]].pc = "launched" /\ attempts[w[1]].stopped
    BY DEF NoStrayWorkload
  <2>1. /\ w[1] \in Tasks /\ w = <<w[1], w[2]>> /\ attempts[w[1]].pc \in {"launched", "running"}
        /\ tasks[w[1]].attempt = w[2]
    BY ClaimedBusy, WorkloadParts
  <2>2. /\ tasks[w[1]] \in Task /\ Linked(tasks[w[1]], attempts[w[1]], verdict)
        /\ (attempts[w[1]].pc = "running" /\ attempts[w[1]].stopped) => <<w[1], tasks[w[1]].attempt>> \in asked
    BY <2>1, Parts, RunningFacts
  <2>3. tasks[w[1]].status \in Statuses
    BY <2>2 DEF Task
  <2>4. tasks[w[1]].status = "Running" \/ attempts[w[1]].stopped
    BY <2>1, <2>2, <2>3 DEF Linked, Statuses
  <2>5. <<w[1], tasks[w[1]].attempt>> = w
    BY <2>1
  <2> QED
    BY <2>1, <2>2, <2>4, <2>5
<1> QED
  BY <1>1, Invariance, PTL

\* The policy's verdict is earned by the tasks' results, also when a resumed
\* execution decides again, and no task fails that could be retried.
THEOREM VerdictIsEarned == Spec => []VerdictEarned
<1>1. IInv => VerdictEarned
  <2> SUFFICES ASSUME IInv PROVE VerdictEarned
    OBVIOUS
  <2>1. Earned(tasks, verdict)
    <3>1. CASE up
      BY <3>1, Parts, RunningFacts
    <3>2. CASE ~up
      BY <3>2 DEF IInv, Down, Earned
    <3> QED
      BY <3>1, <3>2
  <2> QED
    BY <2>1 DEF IInv, TasksInv, FailedLate, Earned, Enough, VerdictEarned
<1> QED
  BY <1>1, Invariance, PTL

\* No step launches a workload whose attempt was launched before, across
\* crashes and resumptions: the Start hook runs once for each attempt.
THEOREM LaunchedOnce == Spec => LaunchOnce
<1>1. ASSUME IInv, [Next]_vars, NEW w \in Workloads, w \in live', w \notin live PROVE w \notin launched
  <2>1. PICK i \in Tasks : Launch(i)
    BY <1>1 DEF Next, Launch, Started, StartFailed, Watched, Overdue, TimedOut, Exit, RemoveUnclaimed,
                RecordCancel, Cancel, Crash, Resume, vars
  <2>2. attempts[i].pc = "starting" /\ w = <<i, tasks[i].attempt>>
    BY <1>1, <2>1 DEF Launch
  <2>3. w[1] = i /\ w[2] = tasks[i].attempt /\ w[2] \in Nat
    BY <2>2, WorkloadParts
  <2>4. w \in launched => w[2] < tasks[i].attempt
    BY <1>1, <2>2, <2>3 DEF IInv, Matched
  <2> QED
    BY <2>3, <2>4
<1>2. ASSUME IInv, [Next]_vars
      PROVE  [\A w \in Workloads : (w \in live' /\ w \notin live) => w \notin launched]_vars
  BY <1>1, <1>2
<1> QED
  BY <1>2, Invariance, PTL DEF Spec, LaunchOnce

-----------------------------------------------------------------------------
(***************************************************************************)
(* An execution is never stuck.  That it ends is a liveness property; what *)
(* makes it end is an invariant: until it finished there is an attempt     *)
(* whose goroutine will take the lock again, and what the execution wants  *)
(* ended was asked to end.                                                 *)
(***************************************************************************)

\* While the process runs an execution that has not finished, an attempt is
\* in progress; once there is a verdict every attempt in progress is marked
\* as stopped; and a workload that runs on although its attempt was stopped
\* or timed out is one that was asked to stop.
NeverStuck ==
    (up /\ ~finished) =>
        /\ \E i \in Tasks : attempts[i].pc # "none"
        /\ \A i \in Tasks :
              /\ (verdict # "Undecided" /\ attempts[i].pc # "none") => attempts[i].stopped
              /\ (attempts[i].pc = "running" /\ (attempts[i].stopped \/ attempts[i].timedOut)) =>
                    <<i, tasks[i].attempt>> \in asked \cap live

\* A timer fires only for a workload that runs, and stops it.
Timed(st) ==
    \A i \in Tasks :
        /\ st.attempts[i].pc \in {"starting", "launched"} => ~st.attempts[i].timedOut
        /\ (st.attempts[i].pc = "running" /\ st.attempts[i].timedOut) => <<i, st.tasks[i].attempt>> \in st.asked

\* An execution without a verdict has a task that can still run.
Undone(st) == st.verdict = "Undecided" => With(st.tasks, "Pending") \cup With(st.tasks, "Running") # {}

Lively ==
    up => /\ Timed(Now) /\ Undone(Now)
          /\ (verdict # "Undecided" /\ ~finished) => Busy(attempts) # {}

\* New attempts, and none, have no marks.
LEMMA Unmarked ==
  /\ NoAttempt.pc = "none" /\ ~NoAttempt.timedOut
  /\ \A p \in Stages : NewAttempt(p).pc = p /\ ~NewAttempt(p).timedOut
  BY DEF NoAttempt, NewAttempt, Stages

\* What advanceLocked decides leaves no execution without a verdict and
\* without a task that can run.
LEMMA AdvanceLively ==
  ASSUME NEW st \in State, Timed(st)
  PROVE  Timed(Advance(st)) /\ Undone(Advance(st))
<1> DEFINE T == st.tasks
           A == st.attempts
<1>0. T \in [Tasks -> Task] /\ A \in [Tasks -> Attempt]
  BY DEF State
<1>1. CASE st.verdict # "Undecided"
  BY <1>1 DEF Advance, Undone
<1>2. CASE st.verdict = "Undecided" /\ Policy(T) # "Undecided"
  <2> DEFINE v == Policy(T)
  <2>1. v \in Verdicts /\ v # "Undecided"
    BY <1>2 DEF Policy, Verdicts
  <2>2. Advance(st) = StopRemaining([st EXCEPT !.verdict = v])
    BY <1>2 DEF Advance
  <2> HIDE DEF v
  <2>3. PICK S \in SUBSET Workloads :
          /\ StopRemaining([st EXCEPT !.verdict = v]) =
                [tasks |-> StoppedTasks(T), attempts |-> StoppedAttempts(T, A), verdict |-> v, asked |-> S]
          /\ \A i \in Unended(T) : A[i].pc = "running" => <<i, T[i].attempt>> \in S
          /\ st.asked \subseteq S
    BY <2>1, StopParts
  <2> DEFINE V == StoppedTasks(T)
             B == StoppedAttempts(T, A)
  <2>4. \A i \in Tasks : V[i].attempt = T[i].attempt /\ B[i].pc = A[i].pc /\ B[i].timedOut = A[i].timedOut
    BY <1>0, StoppedFacts
  <2>5. Advance(st) = [tasks |-> V, attempts |-> B, verdict |-> v, asked |-> S]
    BY <2>2, <2>3
  <2> HIDE DEF V, B
  <2>6. Advance(st).tasks = V /\ Advance(st).attempts = B /\ Advance(st).verdict = v /\ Advance(st).asked = S
    BY <2>5
  <2>7. Timed(Advance(st))
    BY <2>3, <2>4, <2>6 DEF Timed
  <2> QED
    BY <2>1, <2>6, <2>7 DEF Undone
<1>3. CASE st.verdict = "Undecided" /\ Policy(T) = "Undecided"
  <2> DEFINE V == StartedTasks(T)
             B == StartedAttempts(T, A)
  <2>1. Advance(st) = StartAdmitted(st)
    BY <1>3 DEF Advance
  <2>2. st = [tasks |-> T, attempts |-> A, verdict |-> st.verdict, asked |-> st.asked]
    BY DEF State
  <2>3. StartAdmitted(st) = [tasks |-> V, attempts |-> B, verdict |-> st.verdict, asked |-> st.asked]
    <3>1. StartAdmitted(st) = [st EXCEPT !.tasks = V, !.attempts = B]
      BY DEF StartAdmitted, StartedTasks, StartedAttempts
    <3> QED
      BY <2>2, <3>1
  <2>4. /\ With(V, "Pending") \cup With(V, "Running") = With(T, "Pending") \cup With(T, "Running")
        /\ \A i \in Tasks : V[i].attempt = T[i].attempt
        /\ \A i \in Tasks : i \notin Admitted(T) => B[i] = A[i]
        /\ \A i \in Admitted(T) : B[i] = NewAttempt("starting")
    <3>1. Admitted(T) \subseteq With(T, "Pending")
      BY DEF Admitted
    <3> QED
      BY <1>0, <3>1, StartedFacts
  <2> HIDE DEF V, B
  <2>5. Advance(st).tasks = V /\ Advance(st).attempts = B /\ Advance(st).asked = st.asked
    BY <2>1, <2>3
  <2>6. With(T, "Pending") \cup With(T, "Running") # {}
    <3> SUFFICES ASSUME With(T, "Pending") \cup With(T, "Running") = {} PROVE FALSE
      OBVIOUS
    <3>1. Cardinality(With(T, "Pending") \cup With(T, "Running")) = 0
      BY FS_EmptySet
    <3>2. Cardinality(With(T, "Succeeded")) \in Nat
      <4>1. With(T, "Succeeded") \in SUBSET Tasks
        BY DEF With
      <4> QED
        BY <4>1, CountType
    <3> QED
      BY <1>3, <3>1, <3>2, SpecAssumption DEF Policy
  <2>7. Undone(Advance(st))
    BY <2>4, <2>5, <2>6 DEF Undone
  <2>8. ASSUME NEW i \in Tasks
        PROVE  /\ B[i].pc \in {"starting", "launched"} => ~B[i].timedOut
               /\ (B[i].pc = "running" /\ B[i].timedOut) => <<i, V[i].attempt>> \in st.asked
    <3>1. CASE i \in Admitted(T)
      BY <2>4, <3>1, Unmarked DEF Stages
    <3>2. CASE i \notin Admitted(T)
      BY <2>4, <3>2 DEF Timed
    <3> QED
      BY <3>1, <3>2
  <2>9. Timed(Advance(st))
    BY <2>5, <2>8 DEF Timed
  <2> QED
    BY <2>7, <2>9
<1> QED
  BY <1>1, <1>2, <1>3

\* An attempt that ended left no mark behind.
LEMMA EndedTimed ==
  ASSUME NEW st \in State, NEW i \in Tasks, NEW success \in BOOLEAN, NEW answer \in BOOLEAN, Timed(st)
  PROVE  /\ AttemptEnded(st, i, success, answer) \in State
         /\ Timed(AttemptEnded(st, i, success, answer))
<1> DEFINE t == EndedTask(st, i, success, answer)
           a == EndedAttempt(st, i, success, answer)
           X == AttemptEnded(st, i, success, answer)
<1>0. st.tasks \in [Tasks -> Task] /\ st.attempts \in [Tasks -> Attempt] /\ st.verdict \in Verdicts
      /\ st.asked \in SUBSET Workloads
  BY DEF State
<1>1. /\ X = [tasks |-> [st.tasks EXCEPT ![i] = t], attempts |-> [st.attempts EXCEPT ![i] = a],
              verdict |-> st.verdict, asked |-> st.asked]
      /\ t \in Task /\ a \in Attempt
  BY EndedParts
<1>2. a.pc \in {"none", "starting"} /\ ~a.timedOut
  BY Unmarked DEF EndedAttempt, Stages
<1> HIDE DEF t, a, X
<1>3. /\ X.tasks = [st.tasks EXCEPT ![i] = t] /\ X.attempts = [st.attempts EXCEPT ![i] = a]
      /\ X.verdict = st.verdict /\ X.asked = st.asked
  BY <1>1
<1>4. X \in State
  BY <1>0, <1>1 DEF State
<1>5. /\ X.attempts[i] = a
      /\ \A j \in Tasks : j # i => X.tasks[j] = st.tasks[j] /\ X.attempts[j] = st.attempts[j]
  BY <1>0, <1>3
<1>6. Timed(X)
  BY <1>2, <1>3, <1>5 DEF Timed
<1> QED
  BY <1>4, <1>6 DEF X

\* A locked section that ends so, and whose running workloads are live.
LEMMA CommitLively ==
  ASSUME IInv', up', NEW st \in State, Timed(st), Undone(st), Commit(st)
  PROVE  Lively'
<1> DEFINE T == st.tasks
           A == st.attempts
           v == st.verdict
<1>1. /\ tasks' = T /\ attempts' = A /\ verdict' = v /\ asked' = st.asked \cap live'
      /\ finished' = (finished \/ (v # "Undecided" /\ \A i \in Tasks : A[i].pc = "none"))
  BY DEF Commit
<1>2. Now' = [tasks |-> T, attempts |-> A, verdict |-> v, asked |-> asked']
  BY <1>1 DEF Now
<1>3. \A i \in Tasks : A[i].pc = "running" => <<i, T[i].attempt>> \in live'
  <2> SUFFICES ASSUME NEW i \in Tasks, A[i].pc = "running" PROVE <<i, T[i].attempt>> \in live'
    OBVIOUS
  <2>1. <<i, T[i].attempt>> \in Workloads
    BY DEF State, Task, Workloads
  <2> QED
    BY <1>1, <2>1 DEF IInv, Matched
<1> HIDE DEF T, A, v
<1>4. (Now').tasks = T /\ (Now').attempts = A /\ (Now').verdict = v /\ (Now').asked = asked'
  BY <1>2
<1>5. Timed(Now)'
  BY <1>1, <1>3, <1>4 DEF Timed, T, A
<1>6. Undone(Now)'
  BY <1>4 DEF Undone, With, T, v
<1>7. (verdict' # "Undecided" /\ ~finished') => Busy(attempts)' # {}
  BY <1>1 DEF Busy
<1> QED
  BY <1>5, <1>6, <1>7 DEF Lively

\* What one locked section may do to the record of a task: nothing once it
\* ended, and its attempts count up one by one.
Onward(t, u) ==
    /\ t.status \in Terminal => u = t
    /\ u.status = "Pending" => t.status = "Pending"
    /\ u.attempt = t.attempt \/ (t.status = "Running" /\ u.attempt = t.attempt + 1)

\* An attempt that ended.
LEMMA EndedOnward ==
  ASSUME NEW st \in State, NEW i \in Tasks, NEW success \in BOOLEAN, NEW answer \in BOOLEAN
  PROVE  Onward(st.tasks[i], EndedTask(st, i, success, answer))
<1>0. st.tasks[i] \in Task
  BY DEF State
<1> QED
  BY <1>0 DEF EndedTask, Onward, Task, Terminal

\* advanceLocked ends tasks that are open, or starts pending ones, and counts
\* no attempt.
LEMMA AdvanceOnward ==
  ASSUME NEW st \in State, NEW i \in Tasks
  PROVE  LET t == st.tasks[i]
             u == Advance(st).tasks[i]
         IN  /\ t.status \in Terminal => u = t
             /\ u.status = "Pending" => t.status = "Pending"
             /\ u.attempt = t.attempt
<1> DEFINE T == st.tasks
           A == st.attempts
<1>0. T \in [Tasks -> Task] /\ A \in [Tasks -> Attempt]
  BY DEF State
<1>1. CASE st.verdict # "Undecided"
  BY <1>1 DEF Advance
<1>2. CASE st.verdict = "Undecided" /\ Policy(T) # "Undecided"
  <2> DEFINE v == Policy(T)
             V == StoppedTasks(T)
             B == StoppedAttempts(T, A)
  <2>1. v \in Verdicts
    BY <1>2 DEF Policy, Verdicts
  <2>2. Advance(st) = StopRemaining([st EXCEPT !.verdict = v])
    BY <1>2 DEF Advance
  <2> HIDE DEF v
  <2>3. Advance(st).tasks = V
    <3>1. PICK S \in SUBSET Workloads :
            StopRemaining([st EXCEPT !.verdict = v]) = [tasks |-> V, attempts |-> B, verdict |-> v, asked |-> S]
      BY <2>1, StopParts
    <3> HIDE DEF V, B
    <3> QED
      BY <2>2, <3>1
  <2>4. /\ V[i].attempt = T[i].attempt /\ (i \notin Unended(T) => V[i] = T[i] /\ B[i] = A[i])
        /\ i \in Unended(T) => V[i].status = "Cancelled"
    BY <1>0, StoppedFacts
  <2>5. i \in Unended(T) <=> T[i].status \notin Terminal
    BY DEF Unended
  <2> HIDE DEF V
  <2> QED
    BY <2>3, <2>4, <2>5
<1>3. CASE st.verdict = "Undecided" /\ Policy(T) = "Undecided"
  <2> DEFINE V == StartedTasks(T)
             B == StartedAttempts(T, A)
  <2>1. Advance(st).tasks = V
    BY <1>3 DEF Advance, StartAdmitted, StartedTasks, State
  <2>2. /\ V[i].attempt = T[i].attempt /\ (i \notin Admitted(T) => V[i] = T[i] /\ B[i] = A[i])
        /\ i \in Admitted(T) => T[i].status = "Pending" /\ V[i].status = "Running"
    BY <1>0, StartedFacts
  <2> HIDE DEF V
  <2> QED
    BY <2>1, <2>2 DEF Terminal
<1> QED
  BY <1>1, <1>2, <1>3

\* What the process resumes with: what was adopted runs unmarked, what was
\* lost has ended.
LEMMA ResumeBegins ==
  ASSUME IInv, Resume
  PROVE  \E X \in State : /\ Timed(X) /\ Commit(Advance(X))
                          /\ \A i \in Tasks : Onward(tasks[i], X.tasks[i])
<1> DEFINE running == With(tasks, "Running")
<1>1. ~up /\ Now \in State /\ tasks \in [Tasks -> Task] /\ verdict = "Undecided" /\ asked = {}
  BY DEF Resume, IInv, Down, Now, State
<1>2. PICK adopted \in SUBSET running, answers \in [Tasks -> RetryAnswers] :
        Commit(Advance(EndLost([Now EXCEPT !.attempts = [i \in Tasks |->
                      IF i \in adopted THEN NewAttempt("running") ELSE NoAttempt]], running \ adopted, answers)))
  BY DEF Resume
<1> DEFINE A == [i \in Tasks |-> IF i \in adopted THEN NewAttempt("running") ELSE NoAttempt]
           st == [Now EXCEPT !.attempts = A]
           lost == running \ adopted
           X == EndLost(st, lost, answers)
           V == [i \in Tasks |-> IF i \in lost THEN AttemptEnded(st, i, FALSE, answers[i]).tasks[i] ELSE tasks[i]]
           B == [i \in Tasks |-> IF i \in lost THEN AttemptEnded(st, i, FALSE, answers[i]).attempts[i] ELSE A[i]]
<1>3. Commit(Advance(X))
  BY <1>2
<1>4. A \in [Tasks -> Attempt] /\ \A i \in Tasks : ~A[i].timedOut
  <2>1. \A i \in Tasks : A[i] \in Attempt /\ ~A[i].timedOut
    BY Blank, Unmarked DEF Stages
  <2> QED
    BY <2>1
<1> HIDE DEF A
<1>5. st = [tasks |-> tasks, attempts |-> A, verdict |-> "Undecided", asked |-> {}]
  <2>1. Now = [tasks |-> tasks, attempts |-> attempts, verdict |-> "Undecided", asked |-> {}]
    BY <1>1 DEF Now
  <2> QED
    BY <2>1
<1>6. st \in State /\ st.tasks = tasks /\ st.attempts = A
  BY <1>1, <1>4, <1>5 DEF State, Verdicts
<1>7. X = [st EXCEPT !.tasks = V, !.attempts = B]
  BY <1>6 DEF EndLost
<1> HIDE DEF st, lost
<1>8. ASSUME NEW i \in Tasks
      PROVE  /\ V[i] \in Task /\ B[i] \in Attempt /\ ~B[i].timedOut /\ Onward(tasks[i], V[i])
  <2>1. answers[i] \in BOOLEAN
    BY SpecAssumption
  <2>2. CASE i \in lost
    <3> DEFINE t == EndedTask(st, i, FALSE, answers[i])
               a == EndedAttempt(st, i, FALSE, answers[i])
    <3>1. V[i] = t /\ B[i] = a
      BY <1>6, <2>1, <2>2, EndedHere
    <3>2. t \in Task /\ a \in Attempt
      BY <1>6, <2>1, EndedParts
    <3>3. ~a.timedOut
      BY Unmarked DEF EndedAttempt, Stages
    <3>4. Onward(tasks[i], t)
      BY <1>6, <2>1, EndedOnward
    <3> HIDE DEF t, a, V, B
    <3> QED
      BY <3>1, <3>2, <3>3, <3>4
  <2>3. CASE i \notin lost
    <3>1. V[i] = tasks[i] /\ B[i] = A[i]
      BY <2>3
    <3>2. Onward(tasks[i], tasks[i])
      BY DEF Onward
    <3> HIDE DEF V, B
    <3> QED
      BY <1>1, <1>4, <3>1, <3>2
  <2> QED
    BY <2>2, <2>3
<1>9. V \in [Tasks -> Task] /\ B \in [Tasks -> Attempt]
  BY <1>8
<1> HIDE DEF V, B, X
<1>10. X = [tasks |-> V, attempts |-> B, verdict |-> "Undecided", asked |-> {}]
  BY <1>5, <1>7
<1>11. X \in State /\ X.tasks = V /\ X.attempts = B
  BY <1>9, <1>10 DEF State, Verdicts
<1>12. Timed(X) /\ \A i \in Tasks : Onward(tasks[i], X.tasks[i])
  BY <1>8, <1>11 DEF Timed
<1> QED
  BY <1>3, <1>11, <1>12

\* advanceLocked keeps the types.
LEMMA AdvanceState == ASSUME NEW st \in State PROVE Advance(st) \in State
<1> DEFINE T == st.tasks
           A == st.attempts
<1>0. T \in [Tasks -> Task] /\ A \in [Tasks -> Attempt] /\ st.verdict \in Verdicts /\ st.asked \in SUBSET Workloads
  BY DEF State
<1>1. CASE st.verdict # "Undecided"
  BY <1>1 DEF Advance
<1>2. CASE st.verdict = "Undecided" /\ Policy(T) # "Undecided"
  <2> DEFINE v == Policy(T)
             V == StoppedTasks(T)
             B == StoppedAttempts(T, A)
  <2>1. v \in Verdicts
    BY <1>2 DEF Policy, Verdicts
  <2>2. Advance(st) = StopRemaining([st EXCEPT !.verdict = v])
    BY <1>2 DEF Advance
  <2> HIDE DEF v
  <2>3. PICK S \in SUBSET Workloads :
          StopRemaining([st EXCEPT !.verdict = v]) = [tasks |-> V, attempts |-> B, verdict |-> v, asked |-> S]
    BY <2>1, StopParts
  <2>4. V \in [Tasks -> Task] /\ B \in [Tasks -> Attempt]
    BY <1>0, StoppedFacts
  <2> HIDE DEF V, B
  <2> QED
    BY <2>1, <2>2, <2>3, <2>4 DEF State
<1>3. CASE st.verdict = "Undecided" /\ Policy(T) = "Undecided"
  <2> DEFINE V == StartedTasks(T)
             B == StartedAttempts(T, A)
  <2>1. Advance(st) = [st EXCEPT !.tasks = V, !.attempts = B]
    BY <1>3 DEF Advance, StartAdmitted, StartedTasks, StartedAttempts
  <2>2. st = [tasks |-> T, attempts |-> A, verdict |-> st.verdict, asked |-> st.asked]
    BY DEF State
  <2>3. V \in [Tasks -> Task] /\ B \in [Tasks -> Attempt]
    BY <1>0, StartedFacts
  <2> HIDE DEF V, B
  <2>4. Advance(st) = [tasks |-> V, attempts |-> B, verdict |-> st.verdict, asked |-> st.asked]
    BY <2>1, <2>2
  <2> QED
    BY <1>0, <2>3, <2>4 DEF State
<1> QED
  BY <1>1, <1>2, <1>3

\* A cancellation decides, and leaves the tasks that ended alone.
LEMMA CancelLively ==
  ASSUME NEW st \in State, Timed(st), st.verdict = "Undecided"
  PROVE  LET X == StopRemaining([st EXCEPT !.verdict = "Cancellation"])
         IN  /\ X \in State /\ Timed(X) /\ Undone(X)
             /\ \A i \in Tasks : Onward(st.tasks[i], X.tasks[i])
<1> DEFINE T == st.tasks
           A == st.attempts
           V == StoppedTasks(T)
           B == StoppedAttempts(T, A)
           X == StopRemaining([st EXCEPT !.verdict = "Cancellation"])
<1>0. T \in [Tasks -> Task] /\ A \in [Tasks -> Attempt] /\ "Cancellation" \in Verdicts
  BY DEF State, Verdicts
<1>1. PICK S \in SUBSET Workloads :
        /\ X = [tasks |-> V, attempts |-> B, verdict |-> "Cancellation", asked |-> S]
        /\ st.asked \subseteq S
  BY <1>0, StopParts
<1>2. V \in [Tasks -> Task] /\ B \in [Tasks -> Attempt]
  BY <1>0, StoppedFacts
<1>3. \A i \in Tasks : V[i].attempt = T[i].attempt /\ B[i].pc = A[i].pc /\ B[i].timedOut = A[i].timedOut
  BY <1>0, StoppedFacts
<1>4. \A i \in Tasks : /\ i \notin Unended(T) => V[i] = T[i]
                       /\ i \in Unended(T) => V[i].status = "Cancelled"
  BY <1>0, StoppedFacts
<1>5. \A i \in Tasks : i \in Unended(T) <=> T[i].status \notin Terminal
  BY DEF Unended
<1> HIDE DEF V, B
<1>6. X \in State
  BY <1>0, <1>1, <1>2 DEF State
<1> HIDE DEF X
<1>7. X.tasks = V /\ X.attempts = B /\ X.verdict = "Cancellation" /\ X.asked = S
  BY <1>1
<1>8. Timed(X) /\ Undone(X)
  BY <1>1, <1>3, <1>7 DEF Timed, Undone
<1>9. \A i \in Tasks : Onward(T[i], X.tasks[i])
  BY <1>3, <1>4, <1>5, <1>7 DEF Onward
<1> QED
  BY <1>6, <1>8, <1>9 DEF X

\* The attempt of one task changes, and with it perhaps what was asked to
\* stop; the attempt stays in progress.
LEMMA OneLively ==
  ASSUME IInv, Lively, up, NEW i \in Tasks, NEW a \in Attempt, attempts[i].pc # "none", a.pc # "none",
         attempts' = [attempts EXCEPT ![i] = a], UNCHANGED <<tasks, verdict, finished, up>>,
         a.pc \in {"starting", "launched"} => ~a.timedOut,
         (a.pc = "running" /\ a.timedOut) => <<i, tasks[i].attempt>> \in asked',
         \A j \in Tasks : j # i => (<<j, tasks[j].attempt>> \in asked => <<j, tasks[j].attempt>> \in asked')
  PROVE  Lively'
<1>0. attempts \in [Tasks -> Attempt] /\ ~finished
  BY DEF IInv, Now, State, Busy
<1>1. attempts'[i] = a /\ \A j \in Tasks : j # i => attempts'[j] = attempts[j]
  BY <1>0
<1>2. /\ Now.tasks = tasks /\ Now.attempts = attempts /\ Now.verdict = verdict /\ Now.asked = asked
      /\ (Now').tasks = tasks /\ (Now').attempts = attempts' /\ (Now').verdict = verdict /\ (Now').asked = asked'
  BY DEF Now
<1>3. Timed(Now)'
  BY <1>1, <1>2 DEF Lively, Timed
<1>4. Undone(Now)'
  BY <1>2 DEF Lively, Undone, With
<1>5. Busy(attempts)' # {}
  BY <1>1 DEF Busy
<1> QED
  BY <1>3, <1>4, <1>5 DEF Lively

\* No step leaves an execution stuck.
LEMMA LivelyStep ==
  ASSUME IInv, IInv', Lively, [Next]_vars
  PROVE  Lively'
<1>0. /\ Now \in State /\ tasks \in [Tasks -> Task] /\ attempts \in [Tasks -> Attempt]
      /\ Now.tasks = tasks /\ Now.attempts = attempts /\ Now.verdict = verdict /\ Now.asked = asked
  BY DEF IInv, Now, State
<1>1. ASSUME NEW i \in Tasks, Launch(i) PROVE Lively'
  <2> DEFINE b == attempts[i]
             a == [b EXCEPT !.pc = "launched"]
  <2>1. /\ up /\ b.pc = "starting" /\ b \in Attempt /\ attempts' = [attempts EXCEPT ![i] = a]
        /\ UNCHANGED <<tasks, verdict, finished, up, asked>> /\ ~b.timedOut
    BY <1>0, <1>1 DEF Launch, Lively, Timed
  <2> HIDE DEF b
  <2>2. a \in Attempt /\ a.pc = "launched" /\ a.timedOut = b.timedOut
    BY <2>1 DEF Attempt, Stages
  <2> HIDE DEF a
  <2>3. attempts[i].pc # "none"
    BY <2>1 DEF b
  <2> QED
    BY <2>1, <2>2, <2>3, OneLively
<1>2. ASSUME NEW i \in Tasks, Started(i) PROVE Lively'
  <2> DEFINE b == attempts[i]
             a == [b EXCEPT !.pc = "running"]
  <2>1. /\ up /\ b.pc = "launched" /\ b \in Attempt /\ attempts' = [attempts EXCEPT ![i] = a]
        /\ UNCHANGED <<tasks, verdict, finished, up>> /\ ~b.timedOut /\ asked \subseteq asked'
    BY <1>0, <1>2 DEF Started, Lively, Timed
  <2> HIDE DEF b
  <2>2. a \in Attempt /\ a.pc = "running" /\ a.timedOut = b.timedOut
    BY <2>1 DEF Attempt, Stages
  <2> HIDE DEF a
  <2>3. attempts[i].pc # "none"
    BY <2>1 DEF b
  <2> QED
    BY <2>1, <2>2, <2>3, OneLively
<1>3. ASSUME NEW i \in Tasks, NEW task \in BOOLEAN, TimedOut(i, task) PROVE Lively'
  <2> DEFINE b == attempts[i]
             a == [b EXCEPT !.timedOut = TRUE, !.taskExpired = @ \/ task]
  <2>1. /\ up /\ b.pc \in {"running", "exited0", "exited1"} /\ b \in Attempt
        /\ attempts' = [attempts EXCEPT ![i] = a]
        /\ UNCHANGED <<tasks, verdict, finished, up>> /\ asked \subseteq asked'
    BY <1>0, <1>3 DEF TimedOut
  <2>2. b.pc = "running" => <<i, tasks[i].attempt>> \in asked'
    BY <1>0, <1>3 DEF TimedOut, Running
  <2> HIDE DEF b
  <2>3. a \in Attempt /\ a.pc = b.pc
    BY <2>1 DEF Attempt
  <2> HIDE DEF a
  <2>4. attempts[i].pc # "none"
    BY <2>1 DEF b
  <2> QED
    BY <2>1, <2>2, <2>3, <2>4, OneLively
<1>4. ASSUME UNCHANGED <<tasks, attempts, verdict, finished, up, asked>> PROVE Lively'
  BY <1>4 DEF Lively, Timed, Undone, With, Busy, Now
<1>5. ASSUME NEW w \in Workloads, NEW code \in {"exited0", "exited1"}, Exit(w, code) PROVE Lively'
  <2>0. /\ w[1] \in Tasks /\ w[2] \in 0 .. MaxRetries /\ w = <<w[1], w[2]>> /\ w \in live
        /\ asked' = asked \ {w} /\ UNCHANGED <<tasks, verdict, finished, up>>
    BY <1>5, WorkloadParts DEF Exit
  <2>1. CASE ~up
    BY <2>0, <2>1 DEF Lively
  <2>2. CASE up /\ w \notin unclaimed
    <3> DEFINE i == w[1]
               b == attempts[i]
               a == [b EXCEPT !.pc = code]
    <3>1. b.pc = "running" /\ b \in Attempt /\ attempts' = [attempts EXCEPT ![i] = a]
      BY <1>0, <1>5, <2>0, <2>2 DEF Exit
    <3> HIDE DEF b
    <3>2. a \in Attempt /\ a.pc = code
      BY <3>1 DEF Attempt, Stages
    <3> HIDE DEF a
    <3>3. attempts[i].pc # "none"
      BY <3>1 DEF b
    <3>4. \A j \in Tasks : j # i => <<j, tasks[j].attempt>> # w
      BY <2>0
    <3>5. PICK k \in Tasks : k = i
      BY <2>0
    <3>6. /\ k \in Tasks /\ a \in Attempt /\ attempts[k].pc # "none" /\ a.pc \in {"exited0", "exited1"}
          /\ attempts' = [attempts EXCEPT ![k] = a]
          /\ \A j \in Tasks : j # k => (<<j, tasks[j].attempt>> \in asked => <<j, tasks[j].attempt>> \in asked')
      BY <2>0, <3>1, <3>2, <3>3, <3>4, <3>5
    <3>7. PICK e \in Attempt : e = a
      BY <3>6
    <3> HIDE DEF i
    <3> QED
      BY <2>0, <2>2, <3>6, <3>7, OneLively
  <2>3. CASE up /\ w \in unclaimed
    <3>1. attempts' = attempts
      BY <1>5, <2>3 DEF Exit
    <3>2. \A j \in Tasks : attempts[j].pc = "running" => <<j, tasks[j].attempt>> # w
      BY <2>0, <2>3 DEF IInv, Matched
    <3>3. Timed(Now)'
      <4>1. (Now').tasks = tasks /\ (Now').attempts = attempts /\ (Now').asked = asked'
        BY <2>0, <3>1 DEF Now
      <4> QED
        BY <1>0, <2>0, <2>3, <3>2, <4>1 DEF Lively, Timed
    <3>4. Undone(Now)' /\ Busy(attempts)' = Busy(attempts)
      BY <2>0, <2>3, <3>1 DEF Lively, Undone, With, Busy, Now
    <3> QED
      BY <2>0, <2>3, <3>3, <3>4 DEF Lively
  <2> QED
    BY <2>1, <2>2, <2>3
<1>6. ASSUME up, up', NEW i \in Tasks, NEW success \in BOOLEAN, NEW answer \in RetryAnswers,
             Commit(Advance(AttemptEnded(Now, i, success, answer)))
      PROVE  Lively'
  <2> DEFINE X == AttemptEnded(Now, i, success, answer)
             Y == Advance(X)
  <2>1. X \in State /\ Timed(X)
    BY <1>0, <1>6, SpecAssumption, EndedTimed DEF Lively
  <2> HIDE DEF X
  <2>2. Timed(Y) /\ Undone(Y) /\ Y \in State
    BY <2>1, AdvanceLively, AdvanceState
  <2>3. Commit(Y)
    BY <1>6 DEF X
  <2> HIDE DEF Y
  <2> QED
    BY <1>6, <2>2, <2>3, CommitLively
<1>7. ASSUME NEW i \in Tasks, StartFailed(i) PROVE Lively'
  <2>1. PICK answer \in RetryAnswers : Commit(Advance(AttemptEnded(Now, i, FALSE, answer)))
    BY <1>7 DEF StartFailed
  <2>2. up /\ up' /\ FALSE \in BOOLEAN
    BY <1>7 DEF StartFailed
  <2> QED
    BY <1>6, <2>1, <2>2
<1>8. ASSUME NEW i \in Tasks, Watched(i) PROVE Lively'
  <2> DEFINE success == attempts[i].pc = "exited0" /\ ~attempts[i].timedOut /\ ~attempts[i].stopped
  <2>1. PICK answer \in RetryAnswers : Commit(Advance(AttemptEnded(Now, i, success, answer)))
    BY <1>8 DEF Watched
  <2>2. up /\ up' /\ success \in BOOLEAN
    BY <1>8 DEF Watched
  <2> HIDE DEF success
  <2> QED
    BY <1>6, <2>1, <2>2
<1>9. ASSUME Cancel PROVE Lively'
  <2> DEFINE X == StopRemaining([Now EXCEPT !.verdict = "Cancellation"])
  <2>1. up /\ up' /\ verdict = "Undecided" /\ Commit(X)
    BY <1>9 DEF Cancel
  <2>2. Timed(Now) /\ Now.verdict = "Undecided"
    BY <1>0, <2>1 DEF Lively
  <2>3. X \in State /\ Timed(X) /\ Undone(X)
    BY <1>0, <2>2, CancelLively
  <2> HIDE DEF X
  <2> QED
    BY <2>1, <2>3, CommitLively
<1>10. ASSUME Crash PROVE Lively'
  BY <1>10 DEF Crash, Lively
<1>11. ASSUME Resume PROVE Lively'
  <2>1. PICK X \in State : Timed(X) /\ Commit(Advance(X))
    BY <1>11, ResumeBegins
  <2> DEFINE Y == Advance(X)
  <2>2. Timed(Y) /\ Undone(Y) /\ Y \in State /\ Commit(Y)
    BY <2>1, AdvanceLively, AdvanceState
  <2>3. up'
    BY <1>11 DEF Resume
  <2> HIDE DEF Y
  <2> QED
    BY <2>2, <2>3, CommitLively
<1>12. ASSUME UNCHANGED vars PROVE Lively'
  BY <1>4, <1>12 DEF vars
<1>13. ASSUME NEW i \in Tasks, Overdue(i) PROVE Lively'
  BY <1>4, <1>13 DEF Overdue
<1>14. ASSUME NEW w \in Workloads, RemoveUnclaimed(w) PROVE Lively'
  BY <1>4, <1>14 DEF RemoveUnclaimed
<1>15. ASSUME RecordCancel PROVE Lively'
  BY <1>4, <1>15 DEF RecordCancel
<1> QED
  BY <1>1, <1>2, <1>3, <1>5, <1>7, <1>8, <1>9, <1>10, <1>11, <1>12, <1>13, <1>14, <1>15 DEF Next

\* Start leaves an execution with tasks that run.
LEMMA LivelyInit == ASSUME Init, IInv PROVE Lively
<1> DEFINE X == Advance(Fresh)
<1>1. tasks = X.tasks /\ attempts = X.attempts /\ verdict = X.verdict /\ asked = {} /\ up /\ ~finished
  BY DEF Init, Fresh
<1>2. Fresh \in State
  BY FreshOpen DEF Open
<1>3. Timed(Fresh)
  BY Unmarked DEF Timed, Fresh
<1>4. Timed(X) /\ Undone(X)
  BY <1>2, <1>3, AdvanceLively
<1>5. X.asked = {} /\ X.verdict = "Undecided"
  BY FreshOpen DEF StartAdmitted, Fresh
<1> HIDE DEF X
<1>6. Now.tasks = X.tasks /\ Now.attempts = X.attempts /\ Now.verdict = X.verdict /\ Now.asked = X.asked
  BY <1>1, <1>5 DEF Now
<1>7. Timed(Now) /\ Undone(Now)
  BY <1>4, <1>6 DEF Timed, Undone
<1> QED
  BY <1>1, <1>5, <1>7 DEF Lively

\* The two invariants hold together.
LEMMA LivelyHolds == Spec => [](IInv /\ Lively)
<1>1. Init => IInv /\ Lively
  BY InitInv, LivelyInit
<1>2. IInv /\ Lively /\ [Next]_vars => IInv' /\ Lively'
  BY StepInv, LivelyStep
<1> QED
  BY <1>1, <1>2, PTL DEF Spec

\* An execution that has not finished is never left without an attempt whose
\* goroutine takes the lock again, and what it wants ended was asked to end:
\* the state in which EventuallyFinished would fail is never reached, through
\* retries, timeouts, cancellation, crashes and resumptions.
THEOREM NotStuck == Spec => []NeverStuck
<1>1. ASSUME IInv, Lively PROVE NeverStuck
  <2> SUFFICES ASSUME up, ~finished PROVE
        /\ \E i \in Tasks : attempts[i].pc # "none"
        /\ \A i \in Tasks :
              /\ (verdict # "Undecided" /\ attempts[i].pc # "none") => attempts[i].stopped
              /\ (attempts[i].pc = "running" /\ (attempts[i].stopped \/ attempts[i].timedOut)) =>
                    <<i, tasks[i].attempt>> \in asked \cap live
    BY DEF NeverStuck
  <2>0. /\ Now.tasks = tasks /\ Now.attempts = attempts /\ Now.verdict = verdict /\ Now.asked = asked
        /\ tasks \in [Tasks -> Task] /\ Open(Now, closed) /\ Full(Now) /\ Timed(Now) /\ Undone(Now)
    BY <1>1 DEF IInv, Lively, Now, State
  <2>1. \E i \in Tasks : attempts[i].pc # "none"
    <3>1. CASE verdict # "Undecided"
      BY <1>1, <3>1 DEF Lively, Busy
    <3>2. CASE verdict = "Undecided"
      <4>1. With(tasks, "Running") # {}
        <5>1. CASE With(tasks, "Pending") = {}
          BY <2>0, <3>2, <5>1 DEF Undone
        <5>2. CASE With(tasks, "Pending") # {}
          <6>1. Cardinality(With(tasks, "Running")) = Limit
            BY <2>0, <3>2, <5>2 DEF Full
          <6> QED
            BY <6>1, LimitType, FS_EmptySet
        <5> QED
          BY <5>1, <5>2
      <4>2. PICK i \in Tasks : tasks[i].status = "Running"
        BY <4>1 DEF With
      <4>3. Linked(tasks[i], attempts[i], verdict)
        BY <2>0 DEF Open
      <4> QED
        BY <4>2, <4>3 DEF Linked
    <3> QED
      BY <3>1, <3>2
  <2>2. ASSUME NEW i \in Tasks, verdict # "Undecided", attempts[i].pc # "none" PROVE attempts[i].stopped
    <3>1. Linked(tasks[i], attempts[i], verdict)
      BY <2>0 DEF Open
    <3>2. tasks[i].status \in {"Succeeded", "Failed", "Cancelled"}
      <4>1. With(tasks, "Pending") \cup With(tasks, "Running") = {}
        BY <2>0, <2>2 DEF Open
      <4>2. tasks[i].status \in Statuses
        BY <2>0 DEF Task
      <4> QED
        BY <4>1, <4>2 DEF With, Statuses
    <3> QED
      BY <2>2, <3>1, <3>2 DEF Linked
  <2>3. ASSUME NEW i \in Tasks, attempts[i].pc = "running", attempts[i].stopped \/ attempts[i].timedOut
        PROVE  <<i, tasks[i].attempt>> \in asked \cap live
    <3>1. <<i, tasks[i].attempt>> \in Workloads
      BY <2>0 DEF Workloads, Task
    <3>2. <<i, tasks[i].attempt>> \in live
      BY <1>1, <2>3, <3>1 DEF IInv, Matched
    <3>3. <<i, tasks[i].attempt>> \in asked
      BY <2>0, <2>3 DEF Open, Timed
    <3> QED
      BY <3>2, <3>3
  <2> QED
    BY <2>1, <2>2, <2>3
<1> QED
  BY <1>1, LivelyHolds, PTL

\* The record of a task only moves on: a task that ended keeps its status and
\* its attempt whatever arrives late (an exit after the timeout, a start that
\* fails after the cancellation, a resumption after a crash), a task that
\* began is never pending again, and attempts are counted one by one.
RecordsKept == [][\A i \in Tasks : Onward(tasks[i], tasks'[i])]_vars

\* What one locked section leaves, after what ended and what it advanced.
LEMMA CommitOnward ==
  ASSUME NEW T, NEW X \in State, \A i \in Tasks : Onward(T[i], X.tasks[i]), Commit(Advance(X))
  PROVE  \A i \in Tasks : Onward(T[i], tasks'[i])
<1> SUFFICES ASSUME NEW i \in Tasks PROVE Onward(T[i], tasks'[i])
  OBVIOUS
<1> DEFINE x == X.tasks[i]
           u == Advance(X).tasks[i]
<1>1. tasks'[i] = u
  BY DEF Commit
<1>2. /\ x.status \in Terminal => u = x
      /\ u.status = "Pending" => x.status = "Pending"
      /\ u.attempt = x.attempt
  BY AdvanceOnward
<1>3. Onward(T[i], x)
  OBVIOUS
<1> HIDE DEF x, u
<1> QED
  BY <1>1, <1>2, <1>3 DEF Onward

\* No step takes a task's record back.
LEMMA StepOnward == ASSUME IInv, [Next]_vars, NEW k \in Tasks PROVE Onward(tasks[k], tasks'[k])
<1>0. Now \in State /\ tasks \in [Tasks -> Task] /\ Now.tasks = tasks
  BY DEF IInv, Now, State
<1>1. ASSUME tasks' = tasks PROVE Onward(tasks[k], tasks'[k])
  BY <1>1 DEF Onward
<1>2. ASSUME NEW i \in Tasks, NEW success \in BOOLEAN, NEW answer \in RetryAnswers,
             Commit(Advance(AttemptEnded(Now, i, success, answer)))
      PROVE  Onward(tasks[k], tasks'[k])
  <2> DEFINE X == AttemptEnded(Now, i, success, answer)
             t == EndedTask(Now, i, success, answer)
             a == EndedAttempt(Now, i, success, answer)
  <2>0. answer \in BOOLEAN
    BY SpecAssumption
  <2>1. /\ X = [tasks |-> [Now.tasks EXCEPT ![i] = t], attempts |-> [Now.attempts EXCEPT ![i] = a],
                verdict |-> Now.verdict, asked |-> Now.asked]
        /\ t \in Task /\ a \in Attempt
    BY <1>0, <2>0, EndedParts
  <2>2. Onward(tasks[i], t)
    BY <1>0, <2>0, EndedOnward
  <2>3. Commit(Advance(X))
    BY <1>2
  <2> HIDE DEF t, a, X
  <2>4. X.tasks = [tasks EXCEPT ![i] = t]
    BY <1>0, <2>1
  <2>5. X \in State
    BY <1>0, <2>1 DEF State
  <2>6. \A j \in Tasks : Onward(tasks[j], tasks[j])
    BY DEF Onward
  <2>7. \A j \in Tasks : Onward(tasks[j], X.tasks[j])
    BY <1>0, <2>2, <2>4, <2>6
  <2> QED
    BY <2>3, <2>5, <2>7, CommitOnward
<1>3. ASSUME Cancel PROVE Onward(tasks[k], tasks'[k])
  <2>1. Commit(StopRemaining([Now EXCEPT !.verdict = "Cancellation"])) /\ Now.verdict = "Undecided"
    BY <1>3 DEF Cancel, Now
  <2>2. tasks' = StopRemaining([Now EXCEPT !.verdict = "Cancellation"]).tasks
    BY <2>1 DEF Commit
  <2>3. "Cancellation" \in Verdicts
    BY DEF Verdicts
  <2> DEFINE V == StoppedTasks(tasks)
  <2>4. tasks' = V
    <3>1. PICK S \in SUBSET Workloads : StopRemaining([Now EXCEPT !.verdict = "Cancellation"]) =
             [tasks |-> StoppedTasks(tasks), attempts |-> StoppedAttempts(tasks, Now.attempts),
              verdict |-> "Cancellation", asked |-> S]
      BY <1>0, <2>3, StopParts
    <3> QED
      BY <2>2, <3>1
  <2>5. /\ V[k].attempt = tasks[k].attempt
        /\ k \notin Unended(tasks) => V[k] = tasks[k]
        /\ k \in Unended(tasks) => V[k].status = "Cancelled"
    <3>1. Now.attempts \in [Tasks -> Attempt]
      BY <1>0 DEF State
    <3> QED
      BY <1>0, <3>1, StoppedFacts
  <2>6. k \in Unended(tasks) <=> tasks[k].status \notin Terminal
    BY DEF Unended
  <2> HIDE DEF V
  <2> QED
    BY <2>4, <2>5, <2>6 DEF Onward
<1>4. ASSUME Resume PROVE Onward(tasks[k], tasks'[k])
  BY <1>4, ResumeBegins, CommitOnward
<1>5. ASSUME NEW i \in Tasks, StartFailed(i) PROVE Onward(tasks[k], tasks'[k])
  <2>1. PICK answer \in RetryAnswers : Commit(Advance(AttemptEnded(Now, i, FALSE, answer)))
    BY <1>5 DEF StartFailed
  <2>2. FALSE \in BOOLEAN
    OBVIOUS
  <2> QED
    BY <1>2, <2>1, <2>2
<1>6. ASSUME NEW i \in Tasks, Watched(i) PROVE Onward(tasks[k], tasks'[k])
  <2> DEFINE success == attempts[i].pc = "exited0" /\ ~attempts[i].timedOut /\ ~attempts[i].stopped
  <2>1. PICK answer \in RetryAnswers : Commit(Advance(AttemptEnded(Now, i, success, answer)))
    BY <1>6 DEF Watched
  <2>2. success \in BOOLEAN
    OBVIOUS
  <2> HIDE DEF success
  <2> QED
    BY <1>2, <2>1, <2>2
<1>7. ASSUME NEW i \in Tasks, Launch(i) \/ Started(i) \/ Overdue(i) \/ \E task \in BOOLEAN : TimedOut(i, task)
      PROVE tasks' = tasks
  BY <1>7 DEF Launch, Started, Overdue, TimedOut
<1>8. ASSUME NEW w \in Workloads, (\E code \in {"exited0", "exited1"} : Exit(w, code)) \/ RemoveUnclaimed(w)
      PROVE tasks' = tasks
  BY <1>8 DEF Exit, RemoveUnclaimed
<1>9. ASSUME RecordCancel \/ Crash \/ UNCHANGED vars PROVE tasks' = tasks
  BY <1>9 DEF RecordCancel, Crash, vars
<1> QED
  BY <1>1, <1>3, <1>4, <1>5, <1>6, <1>7, <1>8, <1>9 DEF Next

\* A task that ended stays as it was recorded, and attempts count up one by
\* one (attemptEndedLocked, stopRemainingLocked, Resume).
THEOREM RecordsFinal == Spec => RecordsKept
<1>1. ASSUME IInv, [Next]_vars PROVE [\A i \in Tasks : Onward(tasks[i], tasks'[i])]_vars
  BY <1>1, StepOnward
<1> QED
  BY <1>1, Invariance, PTL DEF Spec, RecordsKept
=============================================================================
