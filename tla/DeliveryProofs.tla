--------------------------- MODULE DeliveryProofs ---------------------------
(***************************************************************************)
(* Proofs about the push dispatcher, for every set of deliveries, every    *)
(* policy and any number of crashes and shutdowns.                         *)
(*                                                                         *)
(* The invariants of Delivery are not inductive as they stand: that a      *)
(* crash repeats at most one hand-off needs to know which run has already  *)
(* called Finish, and the attempt counts need to know which runs hold an   *)
(* answer the store does not show yet.  IInv says both, per delivery.      *)
(***************************************************************************)
EXTENDS Delivery, TLAPS

\* A run has its row and no timer, and the row of an attempt in flight holds
\* the run's own count; a timer has its row and a dispatcher that is up.
RunsAndTimers(id) ==
    /\ runs[id].pc # "idle" =>
          (id \in DOMAIN store /\ id \notin pending /\ phase # "down")
    /\ runs[id].pc = "attempting" =>
          (runs[id].attempts >= 1 /\ store[id] = runs[id].attempts)
    /\ id \in pending => (phase = "up" /\ id \in DOMAIN store)

\* A row exists from submission until Finish ran, and is never idle while
\* the dispatcher is up.
Rows(id) ==
    /\ id \in DOMAIN store => hist[id].submitted
    /\ (hist[id].submitted /\ hist[id].finished = 0) => id \in DOMAIN store
    /\ runs[id].pc = "deleting" => hist[id].finished >= 1
    /\ ~hist[id].submitted =>
          (hist[id].finished = 0 /\ hist[id].tries = 0 /\ hist[id].uncounted = 0)
    /\ (phase = "up" /\ id \in DOMAIN store) => (id \in pending \/ runs[id].pc # "idle")

\* Only a run between Finish and the deletion is one hand-off ahead of the
\* crashes while its row exists.
HandOffs(id) ==
    /\ hist[id].finished <= 1 + crashes
    /\ (id \in DOMAIN store /\ runs[id].pc # "deleting") => hist[id].finished <= crashes

\* A run that has its answer may be one ahead of the count it spent.
Budget(id) ==
    LET spent == hist[id].tries - hist[id].uncounted
        slack == IF runs[id].pc \in {"idle", "attempting"} THEN crashes ELSE crashes + 1
    IN  id \in DOMAIN store => (spent <= store[id] /\ store[id] <= spent + slack)

Limit(id) ==
    (MaxAttempts > 0 /\ id \notin BothLimited /\ id \in DOMAIN store) =>
        /\ store[id] <= MaxAttempts + crashes
        /\ runs[id].pc = "idle" => store[id] < MaxAttempts + crashes

PerId(id) ==
    RunsAndTimers(id) /\ Rows(id) /\ HandOffs(id) /\ Budget(id) /\ Limit(id)

IInv == TypeOK /\ \A id \in Ids : PerId(id)

-----------------------------------------------------------------------------
\* What a step that touches another delivery leaves of this one.
Untouched(d) ==
    /\ runs'[d] = runs[d] /\ hist'[d] = hist[d]
    /\ (d \in DOMAIN store') <=> (d \in DOMAIN store)
    /\ d \in DOMAIN store => store'[d] = store[d]
    /\ (d \in pending') <=> (d \in pending)
    /\ phase' = phase /\ crashes' = crashes

\* A step that leaves a delivery untouched keeps its part of the invariant.
LEMMA Frame == ASSUME NEW d \in Ids, PerId(d), Untouched(d) PROVE PerId(d)'
  BY DEF PerId, RunsAndTimers, Rows, HandOffs, Budget, Limit, Untouched

\* The invariant holds before anything is submitted.
LEMMA InitIInv == Init => IInv
  <1>1. SUFFICES ASSUME Init PROVE IInv
    OBVIOUS
  <1>2. TypeOK
    BY <1>1, BoundsAssumption DEF Init, TypeOK, Idle, Fresh, Reasons
  <1>3. ASSUME NEW d \in Ids PROVE PerId(d)
    BY <1>1, BoundsAssumption DEF Init, Idle, Fresh, PerId, RunsAndTimers, Rows, HandOffs, Budget, Limit
  <1> QED
    BY <1>2, <1>3 DEF IInv

\* A submission persists the delivery before it is armed.
LEMMA SubmitKeeps == ASSUME NEW id \in Ids, IInv, Submit(id) PROVE IInv'
  <1>0. TypeOK /\ PerId(id)
    BY DEF IInv
  <1>1. TypeOK'
    BY <1>0, BoundsAssumption DEF TypeOK, Submit, Put, Schedule
  <1>2. ASSUME NEW d \in Ids, d # id PROVE PerId(d)'
    <2>1. Untouched(d)
      BY <1>0, <1>2 DEF TypeOK, Untouched, Submit, Put, Schedule
    <2> QED
      BY <2>1, <1>2, Frame DEF IInv
  <1>3. RunsAndTimers(id)' /\ Rows(id)'
    BY <1>0 DEF TypeOK, PerId, RunsAndTimers, Rows, Submit, Put, Schedule
  <1>4. HandOffs(id)'
    BY <1>0 DEF TypeOK, PerId, RunsAndTimers, Rows, HandOffs, Submit, Put, Schedule
  <1>5. Budget(id)' /\ Limit(id)'
    BY <1>0, PolicyAssumption DEF TypeOK, PerId, RunsAndTimers, Rows, Budget, Limit, Submit, Put, Schedule
  <1> QED
    BY <1>1, <1>2, <1>3, <1>4, <1>5 DEF IInv, PerId

\* A first attempt on the caller's goroutine counts itself.
LEMMA SubmitAttemptedKeeps == ASSUME NEW id \in Ids, IInv, SubmitAttempted(id) PROVE IInv'
  <1>0. TypeOK /\ PerId(id)
    BY DEF IInv
  <1>1. TypeOK'
    <2>1. hist' \in [Ids -> [tries : Nat, uncounted : Nat, finished : Nat, submitted : BOOLEAN]]
      <3> DEFINE History == [tries : Nat, uncounted : Nat, finished : Nat, submitted : BOOLEAN]
      <3>1. hist[id] \in History
        BY <1>0 DEF TypeOK
      <3>2. CASE phase = "up"
        <4>1. [hist[id] EXCEPT !.submitted = TRUE, !.tries = 1] \in History
          BY <3>1
        <4>2. hist' = [hist EXCEPT ![id] = [hist[id] EXCEPT !.submitted = TRUE, !.tries = 1]]
          BY <1>0, <3>2 DEF TypeOK, SubmitAttempted
        <4> QED
          BY <1>0, <4>1, <4>2 DEF TypeOK
      <3>3. CASE phase # "up"
        <4>1. [hist[id] EXCEPT !.submitted = TRUE] \in History
          BY <3>1
        <4>2. hist' = [hist EXCEPT ![id] = [hist[id] EXCEPT !.submitted = TRUE]]
          BY <1>0, <3>3 DEF TypeOK, SubmitAttempted
        <4> QED
          BY <1>0, <4>1, <4>2 DEF TypeOK
      <3> QED
        BY <3>2, <3>3
    <2>2. runs' \in [Ids -> [pc : {"idle", "attempting", "finishing", "deleting"},
                             attempts : Nat, reason : Reasons]]
      BY <1>0 DEF TypeOK, SubmitAttempted, BeginAttempt, Reasons
    <2>3. DOMAIN store' \subseteq Ids /\ \A d \in DOMAIN store' : store'[d] \in Nat
      BY <1>0 DEF TypeOK, SubmitAttempted, BeginAttempt, Put
    <2> QED
      BY <1>0, <2>1, <2>2, <2>3 DEF TypeOK, SubmitAttempted
  <1>2. ASSUME NEW d \in Ids, d # id PROVE PerId(d)'
    <2>1. Untouched(d)
      BY <1>0, <1>2 DEF TypeOK, Untouched, SubmitAttempted, Put, BeginAttempt
    <2> QED
      BY <2>1, <1>2, Frame DEF IInv
  <1>3. PerId(id)'
    <2>1. CASE phase = "up"
      <3>1. /\ runs'[id].pc = "attempting" /\ runs'[id].attempts = 1
            /\ id \in DOMAIN store' /\ store'[id] = 1
            /\ hist'[id].submitted /\ hist'[id].tries = 1
            /\ hist'[id].finished = hist[id].finished /\ hist'[id].uncounted = hist[id].uncounted
            /\ UNCHANGED <<phase, pending, crashes>>
        BY <1>0, <2>1 DEF TypeOK, SubmitAttempted, Put, BeginAttempt
      <3> QED
        BY <1>0, <2>1, <3>1, PolicyAssumption
        DEF TypeOK, SubmitAttempted, PerId, RunsAndTimers, Rows, HandOffs, Budget, Limit
    <2>2. CASE phase # "up"
      BY <1>0, <2>2, PolicyAssumption
      DEF TypeOK, SubmitAttempted, Put, PerId, RunsAndTimers, Rows, HandOffs, Budget, Limit
    <2> QED
      BY <2>1, <2>2
  <1> QED
    BY <1>1, <1>2, <1>3 DEF IInv

\* A timer that fires hands its delivery to one run.
LEMMA FireKeeps == ASSUME NEW id \in Ids, IInv, Fire(id) PROVE IInv'
  <1>0. TypeOK /\ PerId(id) /\ id \in DOMAIN store
    BY DEF IInv, PerId, RunsAndTimers, Fire
  <1>1. TypeOK'
    <2>0. store[id] \in Nat /\ store[id] + 1 \in Nat
      BY <1>0 DEF TypeOK
    <2>1. hist' \in [Ids -> [tries : Nat, uncounted : Nat, finished : Nat, submitted : BOOLEAN]]
      <3>1. hist[id].tries + 1 \in Nat
        BY <1>0 DEF TypeOK
      <3> QED
        BY <1>0, <3>1 DEF TypeOK, Fire
    <2>2. runs' \in [Ids -> [pc : {"idle", "attempting", "finishing", "deleting"},
                             attempts : Nat, reason : Reasons]]
      BY <1>0, <2>0 DEF TypeOK, Fire, BeginAttempt, Reasons
    <2>3. DOMAIN store' \subseteq Ids /\ \A d \in DOMAIN store' : store'[d] \in Nat
      BY <1>0, <2>0 DEF TypeOK, Fire, BeginAttempt, Put
    <2> QED
      BY <1>0, <2>1, <2>2, <2>3 DEF TypeOK, Fire
  <1>2. ASSUME NEW d \in Ids, d # id PROVE PerId(d)'
    <2>1. Untouched(d)
      BY <1>0, <1>2 DEF TypeOK, Untouched, Fire, Put, BeginAttempt
    <2> QED
      BY <2>1, <1>2, Frame DEF IInv
  <1>3. RunsAndTimers(id)' /\ Rows(id)'
    BY <1>0 DEF TypeOK, PerId, RunsAndTimers, Rows, Fire, Put, BeginAttempt
  <1>4. HandOffs(id)'
    BY <1>0 DEF TypeOK, PerId, RunsAndTimers, Rows, HandOffs, Fire, Put, BeginAttempt
  <1>5. Budget(id)'
    BY <1>0 DEF TypeOK, PerId, RunsAndTimers, Rows, Budget, Fire, Put, BeginAttempt
  <1>6. Limit(id)'
    BY <1>0, PolicyAssumption DEF TypeOK, PerId, RunsAndTimers, Rows, Limit, Fire, Put, BeginAttempt
  <1> QED
    BY <1>1, <1>2, <1>3, <1>4, <1>5, <1>6 DEF IInv, PerId

\* The hand-off leaves the row until it is done.
LEMMA FinishKeeps == ASSUME NEW id \in Ids, IInv, Finish(id) PROVE IInv'
  <1>0. TypeOK /\ PerId(id)
    BY DEF IInv
  <1>1. TypeOK'
    BY <1>0, BoundsAssumption DEF TypeOK, Finish, Reasons
  <1>2. ASSUME NEW d \in Ids, d # id PROVE PerId(d)'
    <2>1. Untouched(d)
      BY <1>0, <1>2 DEF TypeOK, Untouched, Finish, Reasons
    <2> QED
      BY <2>1, <1>2, Frame DEF IInv
  <1>3. RunsAndTimers(id)' /\ Rows(id)'
    BY <1>0 DEF TypeOK, PerId, RunsAndTimers, Rows, Finish, Reasons
  <1>4. HandOffs(id)'
    BY <1>0 DEF TypeOK, PerId, RunsAndTimers, Rows, HandOffs, Finish, Reasons
  <1>5. Budget(id)' /\ Limit(id)'
    BY <1>0, PolicyAssumption DEF TypeOK, PerId, RunsAndTimers, Rows, Budget, Limit, Finish, Reasons
  <1> QED
    BY <1>1, <1>2, <1>3, <1>4, <1>5 DEF IInv, PerId

\* The row goes after the hand-off.
LEMMA DeleteKeeps == ASSUME NEW id \in Ids, IInv, Delete(id) PROVE IInv'
  <1>0. TypeOK /\ PerId(id)
    BY DEF IInv
  <1>1. TypeOK'
    BY <1>0, BoundsAssumption DEF TypeOK, Delete, Idle, Reasons
  <1>2. ASSUME NEW d \in Ids, d # id PROVE PerId(d)'
    <2>1. Untouched(d)
      BY <1>0, <1>2 DEF TypeOK, Untouched, Delete, Idle, Reasons
    <2> QED
      BY <2>1, <1>2, Frame DEF IInv
  <1>3. RunsAndTimers(id)' /\ Rows(id)'
    BY <1>0 DEF TypeOK, PerId, RunsAndTimers, Rows, Delete, Idle, Reasons
  <1>4. HandOffs(id)'
    BY <1>0 DEF TypeOK, PerId, RunsAndTimers, Rows, HandOffs, Delete, Idle, Reasons
  <1>5. Budget(id)' /\ Limit(id)'
    BY <1>0, PolicyAssumption DEF TypeOK, PerId, RunsAndTimers, Rows, Budget, Limit, Delete, Idle, Reasons
  <1> QED
    BY <1>1, <1>2, <1>3, <1>4, <1>5 DEF IInv, PerId

\* Ageing changes no count.
LEMMA AgeKeeps == ASSUME NEW id \in Ids, IInv, Age(id) PROVE IInv'
  <1>0. TypeOK /\ PerId(id)
    BY DEF IInv
  <1>1. TypeOK'
    BY <1>0, BoundsAssumption DEF TypeOK, Age
  <1>2. ASSUME NEW d \in Ids, d # id PROVE PerId(d)'
    <2>1. Untouched(d)
      BY <1>0, <1>2 DEF TypeOK, Untouched, Age
    <2> QED
      BY <2>1, <1>2, Frame DEF IInv
  <1>3. RunsAndTimers(id)' /\ Rows(id)'
    BY <1>0 DEF TypeOK, PerId, RunsAndTimers, Rows, Age
  <1>4. HandOffs(id)'
    BY <1>0 DEF TypeOK, PerId, RunsAndTimers, Rows, HandOffs, Age
  <1>5. Budget(id)' /\ Limit(id)'
    BY <1>0, PolicyAssumption DEF TypeOK, PerId, RunsAndTimers, Rows, Budget, Limit, Age
  <1> QED
    BY <1>1, <1>2, <1>3, <1>4, <1>5 DEF IInv, PerId

\* A shutdown disarms the timers and keeps the rows.
LEMMA StopKeeps == ASSUME IInv, Stop PROVE IInv'
  <1>1. TypeOK'
    BY BoundsAssumption DEF IInv, TypeOK, Stop
  <1>2. ASSUME NEW d \in Ids PROVE PerId(d)'
    <2>1. TypeOK /\ PerId(d)
      BY DEF IInv
    <2>2. RunsAndTimers(d)' /\ Rows(d)' /\ HandOffs(d)'
      BY <2>1 DEF TypeOK, PerId, RunsAndTimers, Rows, HandOffs, Stop
    <2>3. Budget(d)' /\ Limit(d)'
      BY <2>1, PolicyAssumption DEF TypeOK, PerId, RunsAndTimers, Rows, Budget, Limit, Stop
    <2> QED
      BY <2>2, <2>3 DEF PerId
  <1> QED
    BY <1>1, <1>2 DEF IInv

\* Cancelling the attempts changes no row.
LEMMA CancelKeeps == ASSUME IInv, Cancel PROVE IInv'
  <1>1. TypeOK'
    BY BoundsAssumption DEF IInv, TypeOK, Cancel
  <1>2. ASSUME NEW d \in Ids PROVE PerId(d)'
    <2>1. TypeOK /\ PerId(d)
      BY DEF IInv
    <2>2. RunsAndTimers(d)' /\ Rows(d)' /\ HandOffs(d)'
      BY <2>1 DEF TypeOK, PerId, RunsAndTimers, Rows, HandOffs, Cancel
    <2>3. Budget(d)' /\ Limit(d)'
      BY <2>1, PolicyAssumption DEF TypeOK, PerId, RunsAndTimers, Rows, Budget, Limit, Cancel
    <2> QED
      BY <2>2, <2>3 DEF PerId
  <1> QED
    BY <1>1, <1>2 DEF IInv

\* The process exits once no attempt runs.
LEMMA ExitKeeps == ASSUME IInv, Exit PROVE IInv'
  <1>1. TypeOK'
    BY BoundsAssumption DEF IInv, TypeOK, Exit
  <1>2. ASSUME NEW d \in Ids PROVE PerId(d)'
    <2>1. TypeOK /\ PerId(d)
      BY DEF IInv
    <2>2. RunsAndTimers(d)' /\ Rows(d)' /\ HandOffs(d)'
      BY <2>1 DEF TypeOK, PerId, RunsAndTimers, Rows, HandOffs, Exit
    <2>3. Budget(d)' /\ Limit(d)'
      BY <2>1, PolicyAssumption DEF TypeOK, PerId, RunsAndTimers, Rows, Budget, Limit, Exit
    <2> QED
      BY <2>2, <2>3 DEF PerId
  <1> QED
    BY <1>1, <1>2 DEF IInv

\* A crash loses runs and timers, never rows.
LEMMA CrashKeeps == ASSUME IInv, Crash PROVE IInv'
  <1>1. TypeOK'
    BY BoundsAssumption DEF IInv, TypeOK, Crash, Idle, Reasons
  <1>2. ASSUME NEW d \in Ids PROVE PerId(d)'
    <2>1. TypeOK /\ PerId(d)
      BY DEF IInv
    <2>2. RunsAndTimers(d)' /\ Rows(d)' /\ HandOffs(d)'
      BY <2>1 DEF TypeOK, PerId, RunsAndTimers, Rows, HandOffs, Crash, Idle, Reasons
    <2>3. Budget(d)' /\ Limit(d)'
      BY <2>1, PolicyAssumption DEF TypeOK, PerId, RunsAndTimers, Rows, Budget, Limit, Crash, Idle, Reasons
    <2> QED
      BY <2>2, <2>3 DEF PerId
  <1> QED
    BY <1>1, <1>2 DEF IInv

\* A restart arms every row.
LEMMA RestartKeeps == ASSUME IInv, Restart PROVE IInv'
  <1>1. TypeOK'
    BY BoundsAssumption DEF IInv, TypeOK, Restart
  <1>2. ASSUME NEW d \in Ids PROVE PerId(d)'
    <2>1. TypeOK /\ PerId(d)
      BY DEF IInv
    <2>2. RunsAndTimers(d)' /\ Rows(d)' /\ HandOffs(d)'
      BY <2>1 DEF TypeOK, PerId, RunsAndTimers, Rows, HandOffs, Restart
    <2>3. Budget(d)' /\ Limit(d)'
      BY <2>1, PolicyAssumption DEF TypeOK, PerId, RunsAndTimers, Rows, Budget, Limit, Restart
    <2> QED
      BY <2>2, <2>3 DEF PerId
  <1> QED
    BY <1>1, <1>2 DEF IInv

\* How an answered attempt leaves its delivery: the attempt is charged
\* (c = 0) or taken back (c = 1), and the run goes on to Finish or puts the
\* row back for a retry the policy still grants.
ToHandOff(id, c) ==
    /\ \E r \in Reasons : runs' = [runs EXCEPT ![id] =
          [pc |-> "finishing", attempts |-> runs[id].attempts - c, reason |-> r]]
    /\ UNCHANGED <<store, pending>>

ToRow(id, c) ==
    /\ runs' = [runs EXCEPT ![id] = Idle]
    /\ store' = Put(id, runs[id].attempts - c)
    /\ pending' = Schedule(id)
    /\ (c = 0 /\ MaxAttempts > 0 /\ id \notin BothLimited) => runs[id].attempts < MaxAttempts

Answered(id, c) ==
    /\ hist' = [hist EXCEPT ![id].uncounted = @ + c]
    /\ ToHandOff(id, c) \/ ToRow(id, c)
    /\ UNCHANGED <<phase, aged, crashes, stops>>

\* An attempt that is charged goes to Finish with its own count.
LEMMA ChargedHandOff ==
    ASSUME NEW id \in Ids, NEW r \in Reasons, runs[id].attempts \in Nat,
           ToFinish(id, runs[id].attempts, r)
    PROVE  ToHandOff(id, 0)
  <1>1. runs[id].attempts - 0 = runs[id].attempts
    OBVIOUS
  <1> QED
    BY <1>1, Zenon DEF ToFinish, ToHandOff

\* Every outcome of an attempt ends in one of those ways.
LEMMA AnswerShape ==
    ASSUME NEW id \in Ids, NEW outcome \in Outcomes, IInv, AttemptEnd(id, outcome)
    PROVE  \E c \in {0, 1} : Answered(id, c)
  <1> DEFINE n == runs[id].attempts
             cancelled == outcome # "ok" /\ phase = "cancelled"
  <1>0. /\ TypeOK /\ runs[id].pc = "attempting" /\ id \in DOMAIN store /\ n \in Nat
        /\ UNCHANGED <<phase, aged, crashes, stops>>
    BY DEF IInv, PerId, RunsAndTimers, TypeOK, AttemptEnd
  <1>h. hist[id].uncounted \in Nat /\ hist \in [Ids -> [tries : Nat, uncounted : Nat, finished : Nat, submitted : BOOLEAN]]
    BY <1>0 DEF TypeOK
  <1>1. CASE cancelled
    <2>1. ReturnCancelled(id, n) /\ hist' = [hist EXCEPT ![id].uncounted = @ + 1]
      BY <1>1, Zenon DEF AttemptEnd
    <2>2. ToRow(id, 1)
      BY <1>1, <2>1 DEF ReturnCancelled, ToRow, Schedule
    <2> QED
      BY <1>0, <2>1, <2>2 DEF Answered
  <1>2. CASE ~cancelled /\ outcome = "deferred"
    <2>1. Deferred(id, n) /\ hist' = [hist EXCEPT ![id].uncounted = @ + 1]
      BY <1>2 DEF AttemptEnd
    <2>2. ToHandOff(id, 1) \/ ToRow(id, 1)
      BY <1>0, <2>1 DEF Deferred, ToFinish, Retry, ToHandOff, ToRow, Reasons
    <2> QED
      BY <1>0, <2>1, <2>2 DEF Answered
  <1>3. CASE ~cancelled /\ outcome # "deferred"
    <2>1. hist' = hist
      BY <1>3, <1>h DEF AttemptEnd
    <2>2. hist' = [hist EXCEPT ![id].uncounted = @ + 0]
      BY <2>1, <1>h
    <2>3. CASE outcome = "ok"
      <3>1. ToFinish(id, n, "Succeeded")
        BY <1>3, <2>3 DEF AttemptEnd
      <3>2. ToHandOff(id, 0)
        BY <1>0, <3>1, ChargedHandOff DEF Reasons
      <3> QED
        BY <1>0, <2>2, <3>2 DEF Answered
    <2>4. CASE outcome = "rejected"
      <3>1. ToFinish(id, n, "Rejected")
        BY <1>3, <2>4 DEF AttemptEnd
      <3>2. ToHandOff(id, 0)
        BY <1>0, <3>1, ChargedHandOff DEF Reasons
      <3> QED
        BY <1>0, <2>2, <3>2 DEF Answered
    <2>5. CASE outcome = "retryable"
      <3>1. Failed(id, n)
        BY <1>3, <2>5 DEF AttemptEnd
      <3>2. Exhausted(id, n) \in Reasons
        BY DEF Exhausted, Reasons
      <3>3. CASE Exhausted(id, n) # "none"
        <4>1. ToHandOff(id, 0)
          BY <1>0, <3>1, <3>2, <3>3, ChargedHandOff DEF Failed
        <4> QED
          BY <1>0, <2>2, <4>1 DEF Answered
      <3>4. CASE Exhausted(id, n) = "none"
        <4>1. Retry(id, n)
          BY <3>1, <3>4 DEF Failed
        <4>2. (MaxAttempts > 0 /\ id \notin BothLimited) => n < MaxAttempts
          BY <1>0, <3>4, PolicyAssumption DEF Exhausted
        <4>3. ToRow(id, 0)
          BY <1>0, <4>1, <4>2 DEF Retry, ToRow
        <4> QED
          BY <1>0, <2>2, <4>3 DEF Answered
      <3> QED
        BY <3>3, <3>4
    <2> QED
      BY <1>3, <2>3, <2>4, <2>5 DEF Outcomes
  <1> QED
    BY <1>1, <1>2, <1>3

\* An answer keeps the invariant: a count taken back is taken back from the
\* history too, and a row put back is armed unless the dispatcher stopped.
LEMMA AttemptEndKeeps ==
    ASSUME NEW id \in Ids, NEW outcome \in Outcomes, IInv, AttemptEnd(id, outcome)
    PROVE  IInv'
  <1> DEFINE n == runs[id].attempts
  <1>0. /\ TypeOK /\ PerId(id) /\ runs[id].pc = "attempting" /\ id \in DOMAIN store
        /\ n \in Nat /\ n >= 1 /\ store[id] = n /\ id \notin pending /\ phase # "down"
    BY DEF IInv, PerId, RunsAndTimers, TypeOK, AttemptEnd
  <1>1. PICK c \in {0, 1} : Answered(id, c)
    BY AnswerShape
  <1>2. /\ n - c \in Nat
        /\ hist[id].uncounted + c \in Nat
        /\ hist' = [hist EXCEPT ![id].uncounted = hist[id].uncounted + c]
    BY <1>0, <1>1 DEF TypeOK, Answered
  <1>3. TypeOK'
    <2>1. hist' \in [Ids -> [tries : Nat, uncounted : Nat, finished : Nat, submitted : BOOLEAN]]
      BY <1>0, <1>2 DEF TypeOK
    <2>2. runs' \in [Ids -> [pc : {"idle", "attempting", "finishing", "deleting"},
                             attempts : Nat, reason : Reasons]]
      <3>1. CASE ToHandOff(id, c)
        <4>1. PICK r \in Reasons : runs' = [runs EXCEPT ![id] =
                [pc |-> "finishing", attempts |-> n - c, reason |-> r]]
          BY <3>1 DEF ToHandOff
        <4> QED
          BY <1>0, <1>2, <4>1 DEF TypeOK
      <3>2. CASE ToRow(id, c)
        BY <1>0, <3>2 DEF TypeOK, ToRow, Idle, Reasons
      <3> QED
        BY <1>1, <3>1, <3>2 DEF Answered
    <2>3. DOMAIN store' \subseteq Ids /\ \A d \in DOMAIN store' : store'[d] \in Nat
      BY <1>0, <1>1, <1>2 DEF TypeOK, Answered, ToHandOff, ToRow, Put
    <2> QED
      BY <1>0, <1>1, <2>1, <2>2, <2>3 DEF TypeOK, Answered, ToHandOff, ToRow, Schedule
  <1>4. ASSUME NEW d \in Ids, d # id PROVE PerId(d)'
    <2>1. Untouched(d)
      BY <1>0, <1>1, <1>4 DEF TypeOK, Untouched, Answered, ToHandOff, ToRow, Put, Schedule
    <2> QED
      BY <2>1, <1>4, Frame DEF IInv
  <1>5. PerId(id)'
    <2>0. /\ hist'[id].tries = hist[id].tries /\ hist'[id].finished = hist[id].finished
          /\ hist'[id].submitted = hist[id].submitted
          /\ hist'[id].uncounted = hist[id].uncounted + c
          /\ phase' = phase /\ crashes' = crashes
      BY <1>0, <1>1, <1>2 DEF TypeOK, Answered
    <2>1. CASE ToHandOff(id, c)
      <3>1. runs'[id].pc = "finishing" /\ store' = store /\ pending' = pending
        BY <1>0, <2>1 DEF TypeOK, ToHandOff
      <3> QED
        BY <1>0, <2>0, <3>1, PolicyAssumption
        DEF TypeOK, PerId, RunsAndTimers, Rows, HandOffs, Budget, Limit
    <2>2. CASE ToRow(id, c)
      <3>1. /\ runs'[id].pc = "idle" /\ id \in DOMAIN store' /\ store'[id] = n - c
            /\ (id \in pending') <=> (phase = "up")
            /\ (c = 0 /\ MaxAttempts > 0 /\ id \notin BothLimited) => n < MaxAttempts
        BY <1>0, <2>2 DEF TypeOK, ToRow, Idle, Put, Schedule
      <3> QED
        BY <1>0, <2>0, <3>1, PolicyAssumption
        DEF TypeOK, PerId, RunsAndTimers, Rows, HandOffs, Budget, Limit
    <2> QED
      BY <1>1, <2>1, <2>2 DEF Answered
  <1> QED
    BY <1>3, <1>4, <1>5 DEF IInv

-----------------------------------------------------------------------------
\* The inductive invariant holds in every reachable state.
THEOREM Invariance == Spec => []IInv
  <1>1. ASSUME IInv, [Next]_vars PROVE IInv'
    <2>1. CASE UNCHANGED vars
      BY <1>1, <2>1 DEF vars, IInv, TypeOK, PerId, RunsAndTimers, Rows, HandOffs, Budget, Limit
    <2>2. CASE Next
      <3>1. ASSUME NEW id \in Ids,
                   \/ Submit(id) \/ SubmitAttempted(id) \/ Fire(id)
                   \/ \E o \in Outcomes : AttemptEnd(id, o)
                   \/ Finish(id) \/ Delete(id) \/ Age(id)
            PROVE  IInv'
        BY <1>1, <3>1, SubmitKeeps, SubmitAttemptedKeeps, FireKeeps, AttemptEndKeeps,
           FinishKeeps, DeleteKeeps, AgeKeeps
      <3> QED
        BY <1>1, <2>2, <3>1, StopKeeps, CancelKeeps, ExitKeeps, CrashKeeps, RestartKeeps DEF Next
    <2> QED
      BY <1>1, <2>1, <2>2
  <1> QED
    BY <1>1, InitIInv, PTL DEF Spec

\* Every operation keeps the dispatcher's state well typed: no attempt count
\* ever goes below zero, however attempts are deferred and cancelled.
THEOREM TypeCorrect == Spec => []TypeOK
  <1>1. IInv => TypeOK
    BY DEF IInv
  <1> QED
    BY <1>1, Invariance, PTL

\* No delivery is lost through crashes, shutdowns and restarts, and none is
\* left without a timer or a run while the dispatcher is up.
THEOREM NothingLost == Spec => []NeverLost
  <1>1. IInv => NeverLost
    BY DEF IInv, PerId, Rows, NeverLost
  <1> QED
    BY <1>1, Invariance, PTL

\* No delivery is attempted twice at once.
THEOREM NoOverlap == Spec => []OneRunner
  <1>1. IInv => OneRunner
    BY DEF IInv, TypeOK, PerId, RunsAndTimers, OneRunner
  <1> QED
    BY <1>1, Invariance, PTL

\* Finish repeats at most once per crash, and without a crash runs once.
THEOREM HandOffsBounded == Spec => []FinishBounded
  <1>1. IInv => FinishBounded
    BY DEF IInv, PerId, HandOffs, FinishBounded
  <1> QED
    BY <1>1, Invariance, PTL

\* The persisted count is the attempts spent, up to one per crash.
THEOREM AttemptsCounted == Spec => []AttemptsAccounted
  <1>1. ASSUME IInv PROVE AttemptsAccounted
    <2>1. ASSUME NEW id \in DOMAIN store, runs[id].pc \in {"idle", "attempting"}
          PROVE  store[id] \in (hist[id].tries - hist[id].uncounted) ..
                               (hist[id].tries - hist[id].uncounted + crashes)
      <3>1. id \in Ids /\ PerId(id)
        BY <1>1 DEF IInv, TypeOK
      <3>2. /\ store[id] \in Nat /\ hist[id].tries \in Nat /\ hist[id].uncounted \in Nat
            /\ crashes \in Nat
        BY <1>1, <3>1, BoundsAssumption DEF IInv, TypeOK
      <3> QED
        BY <2>1, <3>1, <3>2 DEF PerId, Budget
    <2> QED
      BY <2>1 DEF AttemptsAccounted
  <1> QED
    BY <1>1, Invariance, PTL

\* A policy that ends deliveries by their attempts is exceeded by at most one
\* attempt per crash.
THEOREM AttemptsWithinLimit == Spec => []AttemptsBounded
  <1>1. IInv => AttemptsBounded
    BY DEF IInv, TypeOK, PerId, Limit, AttemptsBounded
  <1> QED
    BY <1>1, Invariance, PTL

-----------------------------------------------------------------------------
(* The refinement: every step of the dispatcher is a step of AtLeastOnce or *)
(* leaves what AtLeastOnce sees unchanged.                                   *)

\* What AtLeastOnce sees of one delivery.
SameView(d) ==
    /\ hist'[d].submitted = hist[d].submitted
    /\ hist'[d].tries = hist[d].tries
    /\ hist'[d].finished = hist[d].finished

\* A step that changes no delivery's view is a stutter of AtLeastOnce.
LEMMA Stutter ==
    ASSUME \A d \in Ids : SameView(d), DOMAIN store' = DOMAIN store
    PROVE  UNCHANGED Promise!promise
  <1>1. Accepted' = Accepted
    BY DEF SameView, Accepted
  <1>2. [d \in Ids |-> hist[d].tries]' = [d \in Ids |-> hist[d].tries]
    BY DEF SameView
  <1>3. [d \in Ids |-> hist[d].finished]' = [d \in Ids |-> hist[d].finished]
    BY DEF SameView
  <1> QED
    BY <1>1, <1>2, <1>3 DEF Promise!promise

\* A submission is accepted, with or without a first attempt.
LEMMA SubmitAccepts ==
    ASSUME NEW id \in Ids, IInv, Submit(id) \/ SubmitAttempted(id)
    PROVE  Promise!Accept(id)
  <1>0. TypeOK /\ PerId(id) /\ ~hist[id].submitted
    BY DEF IInv, Submit, SubmitAttempted
  <1>1. /\ \A d \in Ids \ {id} : SameView(d)
        /\ hist'[id].submitted /\ hist'[id].finished = hist[id].finished
        /\ hist'[id].tries \in {hist[id].tries, hist[id].tries + 1}
        /\ DOMAIN store' = DOMAIN store \cup {id}
    BY <1>0 DEF TypeOK, PerId, Rows, Submit, SubmitAttempted, BeginAttempt, Put, SameView
  <1>2. Accepted' = Accepted \cup {id} /\ id \notin Accepted
    BY <1>0, <1>1 DEF Accepted, SameView
  <1>3. (Accepted \ DOMAIN store)' = Accepted \ DOMAIN store
    BY <1>0, <1>1, <1>2
  <1>4. [d \in Ids |-> hist[d].finished]' = [d \in Ids |-> hist[d].finished]
    BY <1>1 DEF SameView
  <1>5. \/ [d \in Ids |-> hist[d].tries]' = [d \in Ids |-> hist[d].tries]
        \/ [d \in Ids |-> hist[d].tries]' =
              [[d \in Ids |-> hist[d].tries] EXCEPT ![id] = @ + 1]
    BY <1>1 DEF SameView
  <1> QED
    BY <1>2, <1>3, <1>4, <1>5 DEF Promise!Accept

\* A timer that fires attempts the delivery, or goes on to hand it off.
LEMMA FireTries ==
    ASSUME NEW id \in Ids, IInv, Fire(id)
    PROVE  Promise!Try(id) \/ UNCHANGED Promise!promise
  <1>0. TypeOK /\ PerId(id) /\ id \in DOMAIN store /\ hist[id].submitted
    BY DEF IInv, PerId, RunsAndTimers, Rows, Fire
  <1>1. DOMAIN store' = DOMAIN store
    BY <1>0 DEF Fire, BeginAttempt, Put
  <1>2. CASE hist' = hist
    BY <1>1, <1>2, Stutter DEF SameView
  <1>3. CASE hist' = [hist EXCEPT ![id].tries = @ + 1]
    <2>1. /\ \A d \in Ids \ {id} : SameView(d)
          /\ hist'[id].submitted = hist[id].submitted /\ hist'[id].finished = hist[id].finished
          /\ hist'[id].tries = hist[id].tries + 1
      BY <1>0, <1>3 DEF TypeOK, SameView
    <2>2. Accepted' = Accepted /\ id \in Accepted
      BY <1>0, <2>1 DEF Accepted, SameView
    <2>3. [d \in Ids |-> hist[d].finished]' = [d \in Ids |-> hist[d].finished]
      BY <2>1 DEF SameView
    <2>4. [d \in Ids |-> hist[d].tries]' = [[d \in Ids |-> hist[d].tries] EXCEPT ![id] = @ + 1]
      BY <2>1 DEF SameView
    <2> QED
      BY <1>0, <1>1, <2>2, <2>3, <2>4 DEF Promise!Try, Promise!Open
  <1> QED
    BY <1>0, <1>2, <1>3 DEF Fire

\* Finish hands the delivery off while its row still exists.
LEMMA FinishHandsOff == ASSUME NEW id \in Ids, IInv, Finish(id) PROVE Promise!HandOff(id)
  <1>0. TypeOK /\ PerId(id) /\ id \in DOMAIN store /\ hist[id].submitted
    BY DEF IInv, PerId, RunsAndTimers, Rows, Finish
  <1>1. /\ \A d \in Ids \ {id} : SameView(d)
        /\ hist'[id].submitted = hist[id].submitted /\ hist'[id].tries = hist[id].tries
        /\ hist'[id].finished = hist[id].finished + 1
        /\ store' = store
    BY <1>0 DEF TypeOK, Finish, SameView
  <1>2. Accepted' = Accepted /\ id \in Accepted
    BY <1>0, <1>1 DEF Accepted, SameView
  <1>3. [d \in Ids |-> hist[d].tries]' = [d \in Ids |-> hist[d].tries]
    BY <1>1 DEF SameView
  <1>4. [d \in Ids |-> hist[d].finished]' = [[d \in Ids |-> hist[d].finished] EXCEPT ![id] = @ + 1]
    BY <1>1 DEF SameView
  <1> QED
    BY <1>0, <1>1, <1>2, <1>3, <1>4 DEF Promise!HandOff, Promise!Open

\* The row is deleted after a hand-off, never before.
LEMMA DeleteCloses == ASSUME NEW id \in Ids, IInv, Delete(id) PROVE Promise!Close(id)
  <1>0. /\ TypeOK /\ PerId(id) /\ id \in DOMAIN store /\ hist[id].submitted
        /\ hist[id].finished >= 1 /\ hist[id].finished \in Nat
    BY DEF IInv, TypeOK, PerId, RunsAndTimers, Rows, Delete
  <1>1. hist' = hist /\ DOMAIN store' = DOMAIN store \ {id}
    BY DEF Delete
  <1>2. Accepted' = Accepted /\ id \in Accepted
    BY <1>0, <1>1 DEF Accepted
  <1>3. (Accepted \ DOMAIN store)' = (Accepted \ DOMAIN store) \cup {id}
    BY <1>0, <1>1, <1>2
  <1>4. /\ [d \in Ids |-> hist[d].tries]' = [d \in Ids |-> hist[d].tries]
        /\ [d \in Ids |-> hist[d].finished]' = [d \in Ids |-> hist[d].finished]
        /\ [d \in Ids |-> hist[d].finished][id] > 0
    BY <1>0, <1>1
  <1> QED
    BY <1>0, <1>2, <1>3, <1>4 DEF Promise!Close, Promise!Open

\* An answer changes nothing AtLeastOnce sees.
LEMMA AnswerStutters ==
    ASSUME NEW id \in Ids, NEW outcome \in Outcomes, IInv, AttemptEnd(id, outcome)
    PROVE  UNCHANGED Promise!promise
  <1>0. TypeOK /\ id \in DOMAIN store
    BY DEF IInv, PerId, RunsAndTimers, AttemptEnd
  <1>1. PICK c \in {0, 1} : Answered(id, c)
    BY AnswerShape
  <1>2. \A d \in Ids : SameView(d)
    BY <1>0, <1>1 DEF TypeOK, Answered, SameView
  <1>3. DOMAIN store' = DOMAIN store
    BY <1>0, <1>1 DEF Answered, ToHandOff, ToRow, Put
  <1> QED
    BY <1>2, <1>3, Stutter

\* The dispatcher implements AtLeastOnce, its safety part: for every policy
\* and any number of crashes, shutdowns and restarts, a delivery's row goes
\* only after a hand-off, and nothing is attempted or handed off before it was
\* submitted or after its row is gone.
THEOREM Refinement == Spec => Promise!Spec
  <1>1. Init => Promise!Init
    BY DEF Init, Promise!Init, Accepted, Fresh
  <1>2. ASSUME IInv, [Next]_vars PROVE [Promise!Next]_(Promise!promise)
    <2>1. CASE UNCHANGED vars
      BY <2>1, Stutter DEF vars, SameView
    <2>2. ASSUME NEW id \in Ids, Submit(id) \/ SubmitAttempted(id) \/ Fire(id) \/ Finish(id) \/ Delete(id)
          PROVE  [Promise!Next]_(Promise!promise)
      BY <1>2, <2>2, SubmitAccepts, FireTries, FinishHandsOff, DeleteCloses DEF Promise!Next
    <2>3. ASSUME NEW id \in Ids, NEW o \in Outcomes, AttemptEnd(id, o)
          PROVE  UNCHANGED Promise!promise
      BY <1>2, <2>3, AnswerStutters
    <2>4. ASSUME NEW id \in Ids, Age(id) PROVE UNCHANGED Promise!promise
      BY <2>4, Stutter DEF Age, SameView
    <2>5. ASSUME Stop \/ Cancel \/ Exit \/ Crash \/ Restart PROVE UNCHANGED Promise!promise
      BY <2>5, Stutter DEF Stop, Cancel, Exit, Crash, Restart, SameView
    <2> QED
      BY <1>2, <2>1, <2>2, <2>3, <2>4, <2>5 DEF Next
  <1> QED
    BY <1>1, <1>2, Invariance, PTL DEF Spec, Promise!Spec
=============================================================================
