--------------------------- MODULE ReplicasProofs ---------------------------
(***************************************************************************)
(* Proofs about the replica set, for every finite set of identities, every *)
(* restart policy and any number of calls, exits and failed starts.        *)
(*                                                                         *)
(* Neither invariant of Replicas is inductive.  NoOrphan needs to know     *)
(* that the set never holds what it dropped or stopped, and that a set     *)
(* that was stopped holds nothing.  KeptUp needs the shortage itself       *)
(* bounded by the replacements on their way, and for that the counter      *)
(* "starting" has to be the number of starts in progress.  The last part   *)
(* follows a set after Stop, step by step, to its end.                     *)
(***************************************************************************)
EXTENDS Replicas, FiniteSetTheorems, SequenceTheorems, TLAPS

\* What the set holds is a replica that was neither dropped nor stopped, and
\* what runs outside the set is one or the other.
Fits(r, held) ==
    /\ held => (r.pc \in {"running", "exited", "backoff", "restarting"} /\ ~r.dropped /\ ~r.stopped)
    /\ r.pc \in {"running", "backoff", "restarting"} => (held \/ r.dropped \/ r.stopped)

AllFit == \A id \in Ids : Fits(rep[id], Held(id))

HeldOnce ==
    \A i, j \in DOMAIN replicas : i # j => replicas[i] # replicas[j]

ClosedEmpty == (cancelled => closed) /\ (closed => replicas = <<>>)

SetInv == TypeOK /\ refused <= failures /\ AllFit /\ HeldOnce /\ ClosedEmpty

InStart == {id \in Ids : rep[id].pc = "starting"}

\* Set.starting counts the starts in progress.
Counted == starting = Cardinality(InStart)

\* The shortage is at most the number of replacements on their way.
Covered ==
    (spec.restart = "Always" /\ ~closed /\ refused = 0) =>
        want - Len(replicas) - starting <= replacing

CountInv == SetInv /\ Counted /\ Covered

-----------------------------------------------------------------------------
(* Sequences without repetition *)

\* Removing a position moves the later elements one down.
LEMMA RemoveAtElements ==
    ASSUME NEW S, NEW s \in Seq(S), NEW k \in 1 .. Len(s)
    PROVE  /\ RemoveAt(s, k) \in Seq(S)
           /\ Len(RemoveAt(s, k)) = Len(s) - 1
           /\ \A i \in 1 .. Len(s) - 1 : RemoveAt(s, k)[i] = IF i <= k - 1 THEN s[i] ELSE s[i + 1]
  <1> DEFINE a == SubSeq(s, 1, k - 1)
             b == SubSeq(s, k + 1, Len(s))
             t == RemoveAt(s, k)
  <1>0. Len(s) \in Nat /\ k \in Nat /\ 1 <= k /\ k <= Len(s)
    OBVIOUS
  <1>1. a \in Seq(S) /\ b \in Seq(S)
    OBVIOUS
  <1>2. Len(a) = k - 1 /\ Len(b) = Len(s) - k
    <2>1. Len(a) = IF 1 <= k - 1 THEN (k - 1) - 1 + 1 ELSE 0
      BY SubSeqProperties
    <2>2. Len(b) = IF k + 1 <= Len(s) THEN Len(s) - (k + 1) + 1 ELSE 0
      BY SubSeqProperties
    <2> HIDE DEF a, b
    <2>3. Len(a) = k - 1
      BY <1>0, <2>1
    <2>4. Len(b) = Len(s) - k
      BY <1>0, <2>2
    <2> QED
      BY <2>3, <2>4
  <1>3. ASSUME NEW i \in 1 .. k - 1 PROVE a[i] = s[i]
    OBVIOUS
  <1>4. ASSUME NEW i \in 1 .. Len(s) - k PROVE b[i] = s[k + i]
    OBVIOUS
  <1>5. t = a \o b
    BY DEF RemoveAt
  <1> HIDE DEF a, b, t
  <1>6. /\ t \in Seq(S) /\ Len(t) = Len(a) + Len(b)
        /\ \A i \in 1 .. Len(a) + Len(b) : t[i] = IF i <= Len(a) THEN a[i] ELSE b[i - Len(a)]
    BY <1>1, <1>5, ConcatProperties
  <1>7. Len(t) = Len(s) - 1
    BY <1>0, <1>2, <1>6
  <1>8. ASSUME NEW i \in 1 .. Len(s) - 1 PROVE t[i] = IF i <= k - 1 THEN s[i] ELSE s[i + 1]
    <2>1. t[i] = IF i <= k - 1 THEN a[i] ELSE b[i - (k - 1)]
      BY <1>0, <1>2, <1>6
    <2>2. CASE i <= k - 1
      BY <1>3, <2>1, <2>2
    <2>3. CASE ~(i <= k - 1)
      <3>1. i - (k - 1) \in 1 .. Len(s) - k /\ k + (i - (k - 1)) = i + 1
        BY <1>0, <2>3
      <3> QED
        BY <1>4, <2>1, <2>3, <3>1
    <2> QED
      BY <2>2, <2>3
  <1> QED
    BY <1>6, <1>7, <1>8 DEF t

\* An element that occurs once is removed from where it is.
LEMMA RemoveFirstAt ==
    ASSUME NEW S, NEW s \in Seq(S), NEW k \in 1 .. Len(s),
           \A i, j \in DOMAIN s : i # j => s[i] # s[j]
    PROVE  RemoveFirst(s, s[k]) = RemoveAt(s, k)
  <1>1. DOMAIN s = 1 .. Len(s)
    OBVIOUS
  <1>2. {i \in 1 .. Len(s) : s[i] = s[k]} = {k}
    BY <1>1
  <1>3. Min({k}) = k
    BY DEF Min
  <1>4. SelectInSeq(s, LAMBDA v : v = s[k]) = k
    BY <1>2, <1>3 DEF SelectInSeq
  <1> QED
    BY <1>1, <1>4 DEF RemoveFirst

\* Removing an element that occurs once takes it out and brings nothing in.
LEMMA RemoveFirstOnce ==
    ASSUME NEW S, NEW s \in Seq(S), NEW e,
           \A i, j \in DOMAIN s : i # j => s[i] # s[j]
    PROVE  /\ RemoveFirst(s, e) \in Seq(S)
           /\ \A i, j \in DOMAIN RemoveFirst(s, e) : i # j => RemoveFirst(s, e)[i] # RemoveFirst(s, e)[j]
           /\ \A i \in DOMAIN RemoveFirst(s, e) :
                 RemoveFirst(s, e)[i] # e /\ \E j \in DOMAIN s : s[j] = RemoveFirst(s, e)[i]
           /\ (\E i \in DOMAIN s : s[i] = e) => Len(RemoveFirst(s, e)) = Len(s) - 1
           /\ ~(\E i \in DOMAIN s : s[i] = e) => RemoveFirst(s, e) = s
  <1> DEFINE t == RemoveFirst(s, e)
  <1>1. DOMAIN s = 1 .. Len(s) /\ Len(s) \in Nat /\ \A i \in 1 .. Len(s) : s[i] \in S
    OBVIOUS
  <1>2. CASE ~\E i \in DOMAIN s : s[i] = e
    <2>1. t = s
      BY <1>1, <1>2 DEF RemoveFirst
    <2> QED
      BY <1>2, <2>1
  <1>3. CASE \E i \in DOMAIN s : s[i] = e
    <2>1. PICK k \in 1 .. Len(s) : s[k] = e
      BY <1>1, <1>3
    <2>2. t = RemoveAt(s, k)
      BY <2>1, RemoveFirstAt
    <2> HIDE DEF t
    <2>3. /\ t \in Seq(S) /\ Len(t) = Len(s) - 1
          /\ \A i \in 1 .. Len(s) - 1 : t[i] = IF i <= k - 1 THEN s[i] ELSE s[i + 1]
      BY <2>1, <2>2, RemoveAtElements
    <2>4. DOMAIN t = 1 .. Len(s) - 1
      BY <2>3
    <2>5. \A i, j \in DOMAIN t : i # j => t[i] # t[j]
      <3> DEFINE at(i) == IF i <= k - 1 THEN i ELSE i + 1
      <3>1. ASSUME NEW i \in DOMAIN t PROVE at(i) \in DOMAIN s /\ t[i] = s[at(i)]
        BY <1>1, <2>1, <2>3, <2>4
      <3>2. ASSUME NEW i \in DOMAIN t, NEW j \in DOMAIN t, i # j PROVE at(i) # at(j)
        BY <1>1, <2>1, <2>4, <3>2
      <3> HIDE DEF at
      <3> QED
        BY <3>1, <3>2
    <2>6. ASSUME NEW i \in DOMAIN t PROVE t[i] # e /\ \E j \in DOMAIN s : s[j] = t[i]
      <3>1. PICK j \in 1 .. Len(s) : j # k /\ t[i] = s[j]
        <4>1. CASE i <= k - 1
          BY <1>1, <2>1, <2>3, <2>4, <4>1
        <4>2. CASE ~(i <= k - 1)
          <5>1. i + 1 \in 1 .. Len(s) /\ i + 1 # k /\ t[i] = s[i + 1]
            BY <1>1, <2>1, <2>3, <2>4, <4>2
          <5> QED
            BY <5>1
        <4> QED
          BY <4>1, <4>2
      <3> QED
        BY <1>1, <2>1, <3>1
    <2> QED
      BY <1>3, <2>3, <2>5, <2>6 DEF t
  <1> QED
    BY <1>2, <1>3

\* The other elements stay.
LEMMA RemoveFirstKeeps ==
    ASSUME NEW S, NEW s \in Seq(S), NEW e,
           \A i, j \in DOMAIN s : i # j => s[i] # s[j],
           NEW n \in DOMAIN s, s[n] # e
    PROVE  \E i \in DOMAIN RemoveFirst(s, e) : RemoveFirst(s, e)[i] = s[n]
  <1> DEFINE t == RemoveFirst(s, e)
  <1>1. DOMAIN s = 1 .. Len(s) /\ Len(s) \in Nat
    OBVIOUS
  <1>2. CASE ~\E i \in DOMAIN s : s[i] = e
    BY <1>1, <1>2 DEF RemoveFirst
  <1>3. CASE \E i \in DOMAIN s : s[i] = e
    <2>1. PICK k \in 1 .. Len(s) : s[k] = e
      BY <1>1, <1>3
    <2>2. t = RemoveAt(s, k)
      BY <2>1, RemoveFirstAt
    <2> HIDE DEF t
    <2>3. /\ t \in Seq(S) /\ Len(t) = Len(s) - 1
          /\ \A i \in 1 .. Len(s) - 1 : t[i] = IF i <= k - 1 THEN s[i] ELSE s[i + 1]
      BY <2>1, <2>2, RemoveAtElements
    <2>4. DOMAIN t = 1 .. Len(s) - 1
      BY <2>3
    <2>5. \E i \in DOMAIN t : t[i] = s[n]
      <3>1. CASE n < k
        BY <1>1, <2>1, <2>3, <2>4, <3>1
      <3>2. CASE n > k
        <4>1. n - 1 \in DOMAIN t /\ t[n - 1] = s[n]
          BY <1>1, <2>1, <2>3, <2>4, <3>2
        <4> QED
          BY <4>1
      <3> QED
        BY <1>1, <2>1, <3>1, <3>2
    <2> QED
      BY <2>5 DEF t
  <1> QED
    BY <1>2, <1>3

-----------------------------------------------------------------------------
(* NoOrphan *)

Record == [pc : States, by : {"none", "scale", "add", "replace"},
           stopped : BOOLEAN, dropped : BOOLEAN, failed : BOOLEAN]

LEMMA AbsentType == Absent \in Record
  BY DEF Absent, Record, States

\* The set holds nothing before the first call.
LEMMA InitSet == Init => SetInv
  <1> SUFFICES ASSUME Init PROVE SetInv
    OBVIOUS
  <1>1. TypeOK
    <2>1. rep \in [Ids -> Record]
      BY AbsentType DEF Init
    <2>2. replicas \in Seq(Ids)
      BY DEF Init
    <2>3. calls \in 0 .. MaxCalls /\ exits \in 0 .. MaxExits /\ failures \in 0 .. MaxFailures /\ refused \in 0 .. MaxFailures
      BY ReplicasAssumption DEF Init
    <2>4. spec \in Specs /\ want \in Int /\ starting \in Int /\ replacing \in Nat
      BY DEF Init
    <2>5. closed \in BOOLEAN /\ cancelled \in BOOLEAN
      BY DEF Init
    <2> QED
      BY <2>1, <2>2, <2>3, <2>4, <2>5 DEF TypeOK, Record
  <1>2. \A id \in Ids : ~Held(id)
    BY DEF Init, Held
  <1>3. AllFit
    BY <1>2 DEF AllFit, Fits, Init, Absent
  <1> QED
    BY <1>1, <1>3 DEF Init, SetInv, HeldOnce, ClosedEmpty

\* What the type invariant says of everything but the replicas.
Scalars ==
    /\ spec \in Specs /\ want \in Int /\ starting \in Int /\ replacing \in Nat
    /\ closed \in BOOLEAN /\ cancelled \in BOOLEAN
    /\ calls \in 0 .. MaxCalls /\ exits \in 0 .. MaxExits
    /\ failures \in 0 .. MaxFailures /\ refused \in 0 .. MaxFailures
    /\ refused <= failures

LEMMA SetInvParts ==
    SetInv <=> (Scalars /\ replicas \in Seq(Ids) /\ rep \in [Ids -> Record] /\ AllFit /\ HeldOnce /\ ClosedEmpty)
  BY DEF SetInv, TypeOK, Scalars, Record

\* A step that keeps the replicas the set holds and writes one record keeps
\* the invariant if the record fits.
LEMMA OneRecord ==
    ASSUME SetInv, Scalars', NEW id \in Ids, NEW r \in Record,
           rep' = [rep EXCEPT ![id] = r], Fits(r, Held(id)),
           replicas' = replicas, closed' = closed, cancelled' = cancelled
    PROVE  SetInv'
  <1>1. Scalars /\ replicas \in Seq(Ids) /\ rep \in [Ids -> Record] /\ AllFit /\ HeldOnce /\ ClosedEmpty
    BY SetInvParts
  <1>2. replicas' \in Seq(Ids) /\ rep' \in [Ids -> Record]
    BY <1>1
  <1>3. \A d \in Ids : Held(d)' <=> Held(d)
    BY DEF Held
  <1>4. AllFit'
    BY <1>1, <1>3 DEF AllFit, Fits
  <1>5. HeldOnce' /\ ClosedEmpty'
    BY <1>1 DEF HeldOnce, ClosedEmpty
  <1> QED
    BY <1>2, <1>4, <1>5 DEF SetInv, TypeOK, Scalars, Record

LEMMA StopOneSet == ASSUME SetInv, NEW id \in Ids, StopOne(id) PROVE SetInv'
  <1>1. Scalars /\ rep \in [Ids -> Record] /\ Fits(rep[id], Held(id))
    BY SetInvParts DEF AllFit
  <1> DEFINE r == [rep[id] EXCEPT !.stopped = TRUE, !.dropped = FALSE]
  <1>2. rep' = [rep EXCEPT ![id] = r]
    BY DEF StopOne
  <1>3. r \in Record /\ Fits(r, Held(id))
    BY <1>1 DEF Record, Fits, StopOne
  <1>4. Scalars'
    BY <1>1 DEF Scalars, StopOne, counters
  <1> QED
    BY <1>2, <1>3, <1>4, OneRecord DEF StopOne

LEMMA StartFailedSet == ASSUME SetInv, NEW id \in Ids, StartFailed(id) PROVE SetInv'
  <1>1. Scalars /\ rep \in [Ids -> Record] /\ Fits(rep[id], Held(id))
    BY SetInvParts DEF AllFit
  <1> DEFINE r == IF rep[id].by = "add" THEN [Absent EXCEPT !.pc = "undoing"] ELSE Absent
  <1>2. rep' = [rep EXCEPT ![id] = r]
    BY DEF StartFailed
  <1>3. r \in Record /\ Fits(r, Held(id))
    BY <1>1 DEF Record, States, Fits, StartFailed, Absent
  <1>4. Scalars'
    BY <1>1, ReplicasAssumption DEF Scalars, StartFailed
  <1> QED
    BY <1>2, <1>3, <1>4, OneRecord DEF StartFailed

LEMMA AddUndoneSet == ASSUME SetInv, NEW id \in Ids, AddUndone(id) PROVE SetInv'
  <1>1. Scalars /\ rep \in [Ids -> Record] /\ Fits(rep[id], Held(id))
    BY SetInvParts DEF AllFit
  <1>2. Fits(Absent, Held(id))
    BY <1>1 DEF Fits, AddUndone, Absent
  <1>3. Scalars'
    BY <1>1 DEF Scalars, AddUndone, counters
  <1> QED
    BY <1>2, <1>3, AbsentType, OneRecord DEF AddUndone

LEMMA ExitSet == ASSUME SetInv, NEW id \in Ids, NEW fails \in BOOLEAN, Exit(id, fails) PROVE SetInv'
  <1>1. Scalars /\ rep \in [Ids -> Record] /\ Fits(rep[id], Held(id))
    BY SetInvParts DEF AllFit
  <1> DEFINE r == IF rep[id].stopped THEN Absent ELSE [rep[id] EXCEPT !.pc = "exited", !.failed = fails]
  <1>2. rep' = [rep EXCEPT ![id] = r]
    BY DEF Exit
  <1>3. r \in Record
    BY <1>1, AbsentType DEF Record, States
  <1>4. Fits(r, Held(id))
    BY <1>1 DEF Record, Fits, Exit, Absent
  <1>5. Scalars'
    BY <1>1, ReplicasAssumption DEF Scalars, Exit
  <1> QED
    BY <1>2, <1>3, <1>4, <1>5, OneRecord DEF Exit

\* A backoff that ends with its context: the set holds the replica no longer.
LEMMA BackoffEndedSet == ASSUME SetInv, NEW id \in Ids, BackoffEnded(id) PROVE SetInv'
  <1>1. Scalars /\ rep \in [Ids -> Record] /\ Fits(rep[id], Held(id)) /\ ClosedEmpty
    BY SetInvParts DEF AllFit
  <1>2. ~Held(id)
    BY <1>1 DEF Fits, BackoffEnded, ClosedEmpty, Held
  <1>3. Fits(Absent, Held(id))
    BY <1>2 DEF Fits, Absent
  <1>4. Scalars'
    BY <1>1 DEF Scalars, BackoffEnded, counters
  <1> QED
    BY <1>3, <1>4, AbsentType, OneRecord DEF BackoffEnded

LEMMA RestartBeginsSet == ASSUME SetInv, NEW id \in Ids, RestartBegins(id) PROVE SetInv'
  <1>1. Scalars /\ rep \in [Ids -> Record] /\ Fits(rep[id], Held(id))
    BY SetInvParts DEF AllFit
  <1> DEFINE r == [rep[id] EXCEPT !.pc = "restarting"]
  <1>2. rep' = [rep EXCEPT ![id] = r]
    BY DEF RestartBegins
  <1>3. r \in Record /\ Fits(r, Held(id))
    BY <1>1 DEF Record, States, Fits, RestartBegins
  <1>4. Scalars'
    BY <1>1 DEF Scalars, RestartBegins, counters
  <1> QED
    BY <1>2, <1>3, <1>4, OneRecord DEF RestartBegins

LEMMA RestartFailedSet == ASSUME SetInv, NEW id \in Ids, RestartFailed(id) PROVE SetInv'
  <1>1. Scalars /\ rep \in [Ids -> Record] /\ Fits(rep[id], Held(id))
    BY SetInvParts DEF AllFit
  <1> DEFINE r == [rep[id] EXCEPT !.pc = "backoff"]
  <1>2. rep' = [rep EXCEPT ![id] = r]
    BY DEF RestartFailed
  <1>3. r \in Record /\ Fits(r, Held(id))
    BY <1>1 DEF Record, States, Fits, RestartFailed
  <1>4. Scalars'
    BY <1>1, ReplicasAssumption DEF Scalars, RestartFailed
  <1> QED
    BY <1>2, <1>3, <1>4, OneRecord DEF RestartFailed

LEMMA RestartedSet == ASSUME SetInv, NEW id \in Ids, Restarted(id) PROVE SetInv'
  <1>1. Scalars /\ rep \in [Ids -> Record] /\ Fits(rep[id], Held(id))
    BY SetInvParts DEF AllFit
  <1> DEFINE r == IF rep[id].stopped THEN Absent ELSE [rep[id] EXCEPT !.pc = "running"]
  <1>2. rep' = [rep EXCEPT ![id] = r]
    BY DEF Restarted
  <1>3. r \in Record
    BY <1>1, AbsentType DEF Record, States
  <1>4. Fits(r, Held(id))
    BY <1>1 DEF Record, Fits, Restarted, Absent
  <1>5. Scalars'
    BY <1>1 DEF Scalars, Restarted, counters
  <1> QED
    BY <1>2, <1>3, <1>4, <1>5, OneRecord DEF Restarted

\* The set keeps a replica it did not hold.
LEMMA OneMore ==
    ASSUME SetInv, Scalars', NEW id \in Ids, NEW r \in Record, ~Held(id), ~closed,
           rep' = [rep EXCEPT ![id] = r], r.pc = "running", ~r.dropped, ~r.stopped,
           replicas' = Append(replicas, id), closed' = closed, cancelled' = cancelled
    PROVE  SetInv'
  <1>1. Scalars /\ replicas \in Seq(Ids) /\ rep \in [Ids -> Record] /\ AllFit /\ HeldOnce /\ ClosedEmpty
    BY SetInvParts
  <1>2. /\ replicas' \in Seq(Ids) /\ Len(replicas') = Len(replicas) + 1
        /\ \A i \in 1 .. Len(replicas) : replicas'[i] = replicas[i]
        /\ replicas'[Len(replicas) + 1] = id
    BY <1>1, AppendProperties
  <1>3. /\ DOMAIN replicas = 1 .. Len(replicas) /\ Len(replicas) \in Nat
        /\ DOMAIN replicas' = 1 .. Len(replicas) + 1
    BY <1>1, <1>2
  <1>4. \A d \in Ids : Held(d)' <=> (Held(d) \/ d = id)
    BY <1>2, <1>3 DEF Held
  <1>5. HeldOnce'
    BY <1>2, <1>3, <1>1 DEF HeldOnce, Held
  <1>6. AllFit'
    BY <1>1, <1>4 DEF AllFit, Fits
  <1>7. ClosedEmpty'
    BY <1>1 DEF ClosedEmpty
  <1>8. rep' \in [Ids -> Record]
    BY <1>1
  <1> QED
    BY <1>2, <1>5, <1>6, <1>7, <1>8 DEF SetInv, TypeOK, Scalars, Record

LEMMA AdoptSet == ASSUME SetInv, NEW id \in Ids, Adopt(id) PROVE SetInv'
  <1>1. Scalars /\ replicas \in Seq(Ids) /\ rep \in [Ids -> Record] /\ Fits(rep[id], Held(id))
    BY SetInvParts DEF AllFit
  <1>2. ~Held(id)
    BY <1>1 DEF Fits, Adopt
  <1>3. Scalars'
    BY <1>1 DEF Scalars, Adopt, counters
  <1> DEFINE r == [Absent EXCEPT !.pc = "running"]
  <1>4. r \in Record /\ r.pc = "running" /\ ~r.dropped /\ ~r.stopped
    BY DEF Absent, Record, States
  <1> QED
    BY <1>2, <1>3, <1>4, OneMore DEF Adopt

\* A start that returned: the set keeps the replica or goes on to stop it.
LEMMA StartedSet == ASSUME SetInv, NEW id \in Ids, Started(id) PROVE SetInv'
  <1>1. Scalars /\ replicas \in Seq(Ids) /\ rep \in [Ids -> Record] /\ Fits(rep[id], Held(id))
    BY SetInvParts DEF AllFit
  <1>2. ~Held(id)
    BY <1>1 DEF Fits, Started
  <1>3. Scalars'
    BY <1>1 DEF Scalars, Started, counters
  <1> DEFINE r == [Absent EXCEPT !.pc = "running", !.dropped = ~Keeps]
  <1>4. r \in Record /\ r.pc = "running" /\ r.dropped = ~Keeps /\ ~r.stopped
    BY DEF Absent, Record, States, Keeps
  <1>5. CASE Keeps
    <2>1. ~r.dropped /\ ~closed /\ replicas' = Append(replicas, id)
      BY <1>4, <1>5 DEF Started, Keeps
    <2> QED
      BY <1>2, <1>3, <1>4, <2>1, OneMore DEF Started
  <1>6. CASE ~Keeps
    <2>1. Fits(r, Held(id)) /\ replicas' = replicas
      BY <1>2, <1>4, <1>6 DEF Started, Fits
    <2> QED
      BY <1>3, <1>4, <2>1, OneRecord DEF Started
  <1> QED
    BY <1>5, <1>6

\* The supervisor takes the replica out of the set, or restarts it in place.
LEMMA JudgeSet == ASSUME SetInv, NEW id \in Ids, Judge(id) PROVE SetInv'
  <1>1. Scalars /\ replicas \in Seq(Ids) /\ rep \in [Ids -> Record] /\ AllFit /\ HeldOnce /\ ClosedEmpty
    BY SetInvParts
  <1>2. Fits(rep[id], Held(id)) /\ rep[id] \in Record
    BY <1>1 DEF AllFit
  <1>3. Scalars'
    BY <1>1 DEF Scalars, Judge, counters
  <1>4. CASE spec.inPlace /\ Restarts(id)
    <2> DEFINE r == [rep[id] EXCEPT !.pc = "backoff", !.failed = FALSE]
    <2>1. rep' = [rep EXCEPT ![id] = r] /\ replicas' = replicas
      BY <1>4 DEF Judge
    <2>2. r \in Record /\ Fits(r, Held(id))
      BY <1>2, <1>4 DEF Record, States, Fits, Judge, Restarts
    <2> QED
      BY <1>3, <2>1, <2>2, OneRecord DEF Judge
  <1>5. CASE ~(spec.inPlace /\ Restarts(id))
    <2>1. rep' = [rep EXCEPT ![id] = Absent] /\ replicas' = RemoveFirst(replicas, id)
      BY <1>5 DEF Judge, Without
    <2>2. /\ replicas' \in Seq(Ids)
          /\ HeldOnce'
          /\ \A i \in DOMAIN replicas' : replicas'[i] # id /\ \E j \in DOMAIN replicas : replicas[j] = replicas'[i]
          /\ \A j \in DOMAIN replicas : replicas[j] # id => \E i \in DOMAIN replicas' : replicas'[i] = replicas[j]
          /\ ~(\E i \in DOMAIN replicas : replicas[i] = id) => replicas' = replicas
      <3>1. \A i, j \in DOMAIN replicas : i # j => replicas[i] # replicas[j]
        BY <1>1 DEF HeldOnce
      <3> DEFINE t == RemoveFirst(replicas, id)
      <3>2. t \in Seq(Ids)
        BY <1>1, <3>1, RemoveFirstOnce
      <3>3. \A i, j \in DOMAIN t : i # j => t[i] # t[j]
        BY <1>1, <3>1, RemoveFirstOnce
      <3>4. \A i \in DOMAIN t : t[i] # id /\ \E j \in DOMAIN replicas : replicas[j] = t[i]
        BY <1>1, <3>1, RemoveFirstOnce
      <3>5. ASSUME NEW j \in DOMAIN replicas, replicas[j] # id PROVE \E i \in DOMAIN t : t[i] = replicas[j]
        BY <1>1, <3>1, <3>5, RemoveFirstKeeps
      <3>6. ~(\E i \in DOMAIN replicas : replicas[i] = id) => t = replicas
        BY <1>1, <3>1, RemoveFirstOnce
      <3> HIDE DEF t
      <3>7. replicas' = t
        BY <2>1 DEF t
      <3> QED
        BY <3>2, <3>3, <3>4, <3>5, <3>6, <3>7 DEF HeldOnce
    <2>3. \A d \in Ids : Held(d)' <=> (d # id /\ Held(d))
      BY <2>2 DEF Held
    <2>4. AllFit'
      BY <1>1, <2>1, <2>3 DEF AllFit, Fits, Absent
    <2>5. ClosedEmpty'
      <3>1. closed => ~(\E i \in DOMAIN replicas : replicas[i] = id)
        BY <1>1 DEF ClosedEmpty
      <3> QED
        BY <1>1, <2>2, <3>1 DEF ClosedEmpty, Judge
    <2>6. rep' \in [Ids -> Record]
      BY <1>1, <2>1, AbsentType
    <2> QED
      BY <1>3, <2>2, <2>4, <2>5, <2>6 DEF SetInv, TypeOK, Scalars, Record
  <1> QED
    BY <1>4, <1>5

\* The replicas of "new" go into their starts, and what the set no longer
\* holds is marked as dropped.
Reserved(new, by) ==
    rep' = [id \in Ids |->
              IF id \in new THEN [Absent EXCEPT !.pc = "starting", !.by = by]
              ELSE IF Held(id) /\ ~Held(id)' THEN [rep[id] EXCEPT !.dropped = TRUE] ELSE rep[id]]

\* Cutting the set at its end and reserving starts keeps the invariant.
LEMMA CutAndReserve ==
    ASSUME SetInv, Scalars', NEW new \in SUBSET Free, NEW by \in {"none", "scale", "add", "replace"},
           Reserved(new, by), ClosedEmpty', replicas' \in Seq(Ids),
           \A i \in DOMAIN replicas' : i \in DOMAIN replicas /\ replicas'[i] = replicas[i]
    PROVE  SetInv'
  <1>1. Scalars /\ replicas \in Seq(Ids) /\ rep \in [Ids -> Record] /\ AllFit /\ HeldOnce /\ ClosedEmpty
    BY SetInvParts
  <1> DEFINE fresh == [Absent EXCEPT !.pc = "starting", !.by = by]
  <1>2. fresh \in Record /\ fresh.pc = "starting"
    BY DEF Absent, Record, States
  <1>3. rep' \in [Ids -> Record]
    <2>1. ASSUME NEW d \in Ids PROVE [rep[d] EXCEPT !.dropped = TRUE] \in Record
      BY <1>1 DEF Record
    <2> QED
      BY <1>1, <1>2, <2>1 DEF Reserved
  <1>4. \A d \in Ids : Held(d)' => Held(d)
    BY DEF Held
  <1>5. HeldOnce'
    BY <1>1 DEF HeldOnce
  <1>6. ASSUME NEW d \in Ids PROVE Fits(rep[d], Held(d))'
    <2>1. CASE d \in new
      <3>1. ~Held(d)
        BY <1>1, <2>1 DEF AllFit, Fits, Free
      <3>2. rep'[d] = fresh
        BY <2>1 DEF Reserved
      <3> QED
        BY <1>2, <1>4, <3>1, <3>2 DEF Fits
    <2>2. CASE d \notin new /\ Held(d) /\ ~Held(d)'
      <3>1. rep'[d] = [rep[d] EXCEPT !.dropped = TRUE]
        BY <2>2 DEF Reserved
      <3>2. rep'[d].dropped
        BY <1>1, <3>1 DEF Record
      <3> QED
        BY <2>2, <3>2 DEF Fits
    <2>3. CASE d \notin new /\ (Held(d) <=> Held(d)')
      <3>1. rep'[d] = rep[d]
        BY <2>3 DEF Reserved
      <3> QED
        BY <1>1, <2>3, <3>1 DEF AllFit, Fits
    <2> QED
      BY <1>4, <2>1, <2>2, <2>3
  <1>7. AllFit'
    BY <1>6 DEF AllFit
  <1> QED
    BY <1>3, <1>5, <1>7 DEF SetInv, TypeOK, Scalars, Record

\* Starts that are reserved while the set keeps what it holds.
LEMMA ReserveOnly ==
    ASSUME SetInv, Scalars', NEW new \in SUBSET Free, NEW by \in {"none", "scale", "add", "replace"},
           rep' = Begin(new, by, rep), replicas' = replicas, closed' = closed, cancelled' = cancelled
    PROVE  SetInv'
  <1>1. \A d \in Ids : Held(d)' <=> Held(d)
    BY DEF Held
  <1>2. Reserved(new, by)
    BY <1>1 DEF Begin, Reserved
  <1>3. ClosedEmpty' /\ replicas' \in Seq(Ids)
    BY SetInvParts DEF ClosedEmpty
  <1> QED
    BY <1>2, <1>3, CutAndReserve

LEMMA MissingType ==
    ASSUME starting \in Int, NEW n \in Nat, NEW h \in Nat
    PROVE  Missing(n, h) \in Nat /\ n - h - (starting + Missing(n, h)) <= 0
  BY DEF Missing

LEMMA RaiseSet == ASSUME SetInv, NEW n \in Counts, Raise(n) PROVE SetInv'
  <1>1. Scalars /\ Len(replicas) \in Nat /\ n \in Nat
    BY SetInvParts, ReplicasAssumption
  <1>2. Missing(n, Len(replicas)) \in Nat
    BY <1>1, MissingType DEF Scalars
  <1>3. Scalars'
    BY <1>1, <1>2, ReplicasAssumption DEF Scalars, Raise, Call
  <1> QED
    BY <1>3, ReserveOnly DEF Raise

LEMMA AddSet == ASSUME SetInv, NEW n \in Counts, Add(n) PROVE SetInv'
  <1>1. Scalars
    BY SetInvParts
  <1>2. Scalars'
    BY <1>1, ReplicasAssumption DEF Scalars, Add, Call
  <1>3. PICK id \in Free : rep' = Begin({id}, "add", rep)
    BY DEF Add
  <1> QED
    BY <1>2, <1>3, ReserveOnly DEF Add

LEMMA ReplaceSet == ASSUME SetInv, Replace PROVE SetInv'
  <1>1. Scalars /\ replicas \in Seq(Ids) /\ rep \in [Ids -> Record] /\ AllFit /\ HeldOnce /\ ClosedEmpty
    BY SetInvParts
  <1>2. Scalars'
    BY <1>1 DEF Scalars, Replace, counters
  <1>3. CASE ~cancelled /\ Short
    <2>1. PICK id \in Free : rep' = Begin({id}, "replace", rep)
      BY <1>3 DEF Replace
    <2> QED
      BY <1>2, <2>1, ReserveOnly DEF Replace
  <1>4. CASE ~(~cancelled /\ Short)
    <2>1. UNCHANGED <<rep, replicas, closed, cancelled>>
      BY <1>4 DEF Replace
    <2>2. AllFit' /\ HeldOnce' /\ ClosedEmpty'
      BY <1>1, <2>1 DEF AllFit, Fits, Held, HeldOnce, ClosedEmpty
    <2> QED
      BY <1>1, <1>2, <2>1, <2>2 DEF SetInv, TypeOK, Scalars, Record
  <1> QED
    BY <1>3, <1>4

\* Scaling down drops the newest and nothing else.
LEMMA ScaleSet == ASSUME SetInv, NEW n \in Counts, Scale(n) PROVE SetInv'
  <1>1. Scalars /\ replicas \in Seq(Ids) /\ ClosedEmpty /\ n \in Nat /\ rep \in [Ids -> Record] /\ AllFit
    BY SetInvParts, ReplicasAssumption
  <1> DEFINE kept == IF Len(replicas) > n THEN SubSeq(replicas, 1, n) ELSE replicas
             surplus == {id \in Ids : Held(id) /\ ~Contains(kept, id)}
  <1>2. /\ kept \in Seq(Ids) /\ Len(kept) \in Nat /\ DOMAIN kept = 1 .. Len(kept)
        /\ \A i \in DOMAIN kept : i \in DOMAIN replicas /\ kept[i] = replicas[i]
    BY <1>1
  <1>3. replicas' = kept
    BY DEF Scale
  <1> HIDE DEF kept
  <1>4. \A d \in Ids : Contains(kept, d) <=> Held(d)'
    BY <1>2, <1>3 DEF Contains, Held
  <1>5. PICK new \in SUBSET Free : rep' = Begin(new, "scale", Dropped(surplus))
    BY DEF Scale, kept
  <1>6. Reserved(new, "scale")
    BY <1>4, <1>5 DEF Begin, Dropped, Reserved
  <1>7. Missing(n, Len(kept)) \in Nat
    BY <1>1, <1>2, MissingType DEF Scalars
  <1>8. starting' = starting + Missing(n, Len(kept))
    BY DEF Scale, kept
  <1>9. Scalars'
    BY <1>1, <1>7, <1>8, ReplicasAssumption DEF Scalars, Scale, Call
  <1>10. ClosedEmpty'
    BY <1>1 DEF ClosedEmpty, Scale, Call
  <1> QED
    BY <1>2, <1>3, <1>6, <1>9, <1>10, CutAndReserve

LEMMA StopSet == ASSUME SetInv, Stop PROVE SetInv'
  <1>1. Scalars /\ ClosedEmpty
    BY SetInvParts
  <1>2. Scalars' /\ ClosedEmpty'
    BY <1>1 DEF Scalars, ClosedEmpty, Stop, counters
  <1>3. replicas' \in Seq(Ids) /\ DOMAIN replicas' = {}
    BY DEF Stop
  <1>4. \A d \in Ids : ~Held(d)'
    BY <1>3 DEF Held
  <1>5. Reserved({}, "none")
    BY <1>4 DEF Reserved, Stop, Dropped
  <1> QED
    BY <1>2, <1>3, <1>5, CutAndReserve

LEMMA CancelSet == ASSUME SetInv, Cancel PROVE SetInv'
  <1>1. Scalars /\ replicas \in Seq(Ids) /\ rep \in [Ids -> Record] /\ AllFit /\ HeldOnce /\ ClosedEmpty
    BY SetInvParts
  <1>2. AllFit' /\ HeldOnce' /\ ClosedEmpty'
    BY <1>1 DEF AllFit, Fits, Held, HeldOnce, ClosedEmpty, Cancel
  <1> QED
    BY <1>1, <1>2 DEF SetInv, TypeOK, Scalars, Record, Cancel, counters

\* Every step keeps the invariant.
LEMMA NextSet == ASSUME SetInv, [Next]_vars PROVE SetInv'
  <1>1. CASE Next
    <2>1. ASSUME NEW n \in Counts, Scale(n) \/ Raise(n) \/ Add(n) PROVE SetInv'
      BY <2>1, ScaleSet, RaiseSet, AddSet
    <2>2. CASE Stop \/ Cancel \/ Replace
      BY <2>2, StopSet, CancelSet, ReplaceSet
    <2>3. ASSUME NEW id \in Ids, Adopt(id) \/ StopOne(id) \/ StartEnds(id) \/ AddUndone(id) PROVE SetInv'
      BY <2>3, AdoptSet, StopOneSet, StartedSet, StartFailedSet, AddUndoneSet DEF StartEnds
    <2>4. ASSUME NEW id \in Ids, NEW fails \in BOOLEAN, Exit(id, fails) PROVE SetInv'
      BY <2>4, ExitSet
    <2>5. ASSUME NEW id \in Ids, Judge(id) \/ BackoffEnded(id) \/ RestartBegins(id) \/ RestartEnds(id) PROVE SetInv'
      BY <2>5, JudgeSet, BackoffEndedSet, RestartBeginsSet, RestartedSet, RestartFailedSet DEF RestartEnds
    <2> QED
      BY <1>1, <2>1, <2>2, <2>3, <2>4, <2>5 DEF Next
  <1>2. CASE UNCHANGED vars
    BY <1>2 DEF vars, counters, SetInv, TypeOK, AllFit, Fits, Held, HeldOnce, ClosedEmpty
  <1> QED
    BY <1>1, <1>2

\* The set's bookkeeping holds in every state of every behaviour.
THEOREM SetInvariance == Spec => []SetInv
  <1>1. SetInv /\ [Next]_vars => SetInv'
    BY NextSet
  <1> QED
    BY <1>1, InitSet, PTL DEF Spec

\* The type invariant of the set, for every number of replicas and calls.
THEOREM TypeCorrect == Spec => []TypeOK
  BY SetInvariance, PTL DEF SetInv

\* No workload runs outside the set: whatever starts, exits, is scaled down,
\* restarted or stopped in whatever order, a replica that runs is held by the
\* set, about to be stopped by the goroutine that dropped it, or stopped.
THEOREM OrphanFree == Spec => []NoOrphan
  <1>1. SetInv => NoOrphan
    <2> SUFFICES ASSUME SetInv PROVE NoOrphan
      OBVIOUS
    <2>1. /\ \A i \in DOMAIN replicas : replicas[i] \in Ids
          /\ AllFit /\ HeldOnce
      BY SetInvParts
    <2> QED
      BY <2>1 DEF NoOrphan, AllFit, Fits, Held, HeldOnce
  <1> QED
    BY <1>1, SetInvariance, PTL

-----------------------------------------------------------------------------
(* KeptUp *)

LEMMA InStartFinite == IsFiniteSet(InStart) /\ Cardinality(InStart) \in Nat
  <1>1. IsFiniteSet(InStart)
    BY ReplicasAssumption, FS_Subset DEF InStart
  <1> QED
    BY <1>1, FS_CardinalityType

\* A step that starts nothing and ends no start.
LEMMA SameStarts ==
    ASSUME \A id \in Ids : rep'[id].pc = "starting" <=> rep[id].pc = "starting"
    PROVE  InStart' = InStart
  BY DEF InStart

\* A start that ends, with a replica or without.
LEMMA StartLeaves ==
    ASSUME SetInv, Counted, NEW id \in Ids, rep[id].pc = "starting",
           NEW r, r.pc # "starting", rep' = [rep EXCEPT ![id] = r], starting' = starting - 1
    PROVE  Counted' /\ starting >= 1
  <1>0. rep \in [Ids -> Record]
    BY SetInvParts
  <1>1. InStart' = InStart \ {id} /\ id \in InStart
    BY <1>0 DEF InStart
  <1>2. Cardinality(InStart \ {id}) = Cardinality(InStart) - 1 /\ Cardinality(InStart) \in Nat
        /\ Cardinality(InStart \ {id}) \in Nat
    BY <1>1, InStartFinite, FS_RemoveElement, FS_CardinalityType
  <1> QED
    BY <1>1, <1>2 DEF Counted

\* Starts that are reserved, one for each that starting grows by.
LEMMA StartsJoin ==
    ASSUME Counted, NEW new \in SUBSET Free, NEW by, NEW from,
           \A id \in Ids : from[id].pc = rep[id].pc,
           rep' = Begin(new, by, from), starting' = starting + Cardinality(new)
    PROVE  Counted' /\ starting \in Nat /\ Cardinality(new) \in Nat
  <1> DEFINE fresh == [Absent EXCEPT !.pc = "starting", !.by = by]
  <1>1. fresh.pc = "starting"
    BY DEF Absent
  <1>2. InStart' = InStart \cup new /\ InStart \cap new = {}
    BY <1>1 DEF InStart, Begin, Free
  <1>3. IsFiniteSet(new) /\ Cardinality(new) \in Nat
    <2>1. new \subseteq Ids
      BY DEF Free
    <2> QED
      BY <2>1, ReplicasAssumption, FS_Subset, FS_CardinalityType
  <1>4. Cardinality(InStart \cup new) = Cardinality(InStart) + Cardinality(new) - Cardinality(InStart \cap new)
    BY <1>3, InStartFinite, FS_Union
  <1>5. Cardinality(InStart \cap new) = 0
    BY <1>2, FS_EmptySet
  <1> QED
    BY <1>2, <1>3, <1>4, <1>5, InStartFinite DEF Counted

\* The parts of the invariant the counting steps use.
LEMMA CountFacts ==
    ASSUME CountInv
    PROVE  /\ Scalars /\ Counted /\ Covered /\ ClosedEmpty /\ SetInv
           /\ starting \in Nat /\ Len(replicas) \in Nat /\ replicas \in Seq(Ids)
           /\ rep \in [Ids -> Record]
  BY SetInvParts, InStartFinite DEF CountInv, Counted

\* Steps that leave the count of the set as it is.
LEMMA SameCount ==
    ASSUME CountInv, \A id \in Ids : rep'[id].pc = "starting" <=> rep[id].pc = "starting",
           UNCHANGED <<spec, want, starting, replicas>>, replacing' >= replacing, replacing' \in Nat,
           closed => closed', refused' = 0 => refused = 0
    PROVE  Counted' /\ Covered'
  <1>1. InStart' = InStart
    BY SameStarts
  <1>2. Counted'
    BY <1>1, CountFacts DEF Counted
  <1>3. Covered'
    BY CountFacts DEF Covered, Scalars
  <1> QED
    BY <1>2, <1>3

LEMMA StopOneCount == ASSUME CountInv, NEW id \in Ids, StopOne(id) PROVE Counted' /\ Covered'
  <1>1. \A d \in Ids : rep'[d].pc = rep[d].pc
    BY CountFacts DEF StopOne, Record
  <1> QED
    BY <1>1, CountFacts, SameCount DEF StopOne, counters, Scalars

LEMMA AddUndoneCount == ASSUME CountInv, NEW id \in Ids, AddUndone(id) PROVE Counted' /\ Covered'
  <1>1. \A d \in Ids : rep'[d].pc = "starting" <=> rep[d].pc = "starting"
    BY CountFacts DEF AddUndone, Absent
  <1>2. Counted'
    BY <1>1, CountFacts, SameStarts DEF Counted, AddUndone
  <1>3. Covered'
    BY CountFacts DEF Covered, Scalars, AddUndone, counters
  <1> QED
    BY <1>2, <1>3

LEMMA ExitCount ==
    ASSUME CountInv, NEW id \in Ids, NEW fails \in BOOLEAN, Exit(id, fails) PROVE Counted' /\ Covered'
  <1>1. \A d \in Ids : rep'[d].pc = "starting" <=> rep[d].pc = "starting"
    BY CountFacts DEF Exit, Absent, Record
  <1> QED
    BY <1>1, CountFacts, SameCount DEF Exit, Scalars

LEMMA BackoffEndedCount == ASSUME CountInv, NEW id \in Ids, BackoffEnded(id) PROVE Counted' /\ Covered'
  <1>1. \A d \in Ids : rep'[d].pc = "starting" <=> rep[d].pc = "starting"
    BY CountFacts DEF BackoffEnded, Absent
  <1> QED
    BY <1>1, CountFacts, SameCount DEF BackoffEnded, counters, Scalars

LEMMA RestartBeginsCount == ASSUME CountInv, NEW id \in Ids, RestartBegins(id) PROVE Counted' /\ Covered'
  <1>1. \A d \in Ids : rep'[d].pc = "starting" <=> rep[d].pc = "starting"
    BY CountFacts DEF RestartBegins, Record
  <1> QED
    BY <1>1, CountFacts, SameCount DEF RestartBegins, counters, Scalars

LEMMA RestartFailedCount == ASSUME CountInv, NEW id \in Ids, RestartFailed(id) PROVE Counted' /\ Covered'
  <1>1. \A d \in Ids : rep'[d].pc = "starting" <=> rep[d].pc = "starting"
    BY CountFacts DEF RestartFailed, Record
  <1> QED
    BY <1>1, CountFacts, SameCount DEF RestartFailed, Scalars

LEMMA RestartedCount == ASSUME CountInv, NEW id \in Ids, Restarted(id) PROVE Counted' /\ Covered'
  <1>1. \A d \in Ids : rep'[d].pc = "starting" <=> rep[d].pc = "starting"
    BY CountFacts DEF Restarted, Absent, Record
  <1> QED
    BY <1>1, CountFacts, SameCount DEF Restarted, counters, Scalars

LEMMA CancelCount == ASSUME CountInv, Cancel PROVE Counted' /\ Covered'
  BY CountFacts, SameCount DEF Cancel, counters, Scalars

LEMMA StopCount == ASSUME CountInv, Stop PROVE Counted' /\ Covered'
  <1>1. \A d \in Ids : rep'[d].pc = "starting" <=> rep[d].pc = "starting"
    BY CountFacts DEF Stop, Dropped, Record
  <1>2. Counted'
    BY <1>1, CountFacts, SameStarts DEF Counted, Stop
  <1>3. Covered'
    BY DEF Covered, Stop
  <1> QED
    BY <1>2, <1>3

\* A start that fails for replace is tried again, and one that fails for a
\* caller is on record.
LEMMA StartFailedCount == ASSUME CountInv, NEW id \in Ids, StartFailed(id) PROVE Counted' /\ Covered'
  <1> DEFINE r == IF rep[id].by = "add" THEN [Absent EXCEPT !.pc = "undoing"] ELSE Absent
  <1>1. r.pc # "starting" /\ rep' = [rep EXCEPT ![id] = r]
    BY DEF StartFailed, Absent
  <1> HIDE DEF r
  <1>2. Counted'
    BY <1>1, CountFacts, StartLeaves DEF StartFailed
  <1>3. Covered'
    BY CountFacts DEF Covered, Scalars, StartFailed
  <1> QED
    BY <1>2, <1>3

\* A replica the set does not keep came when the set was full.
LEMMA StartedCount == ASSUME CountInv, NEW id \in Ids, Started(id) PROVE Counted' /\ Covered'
  <1> DEFINE r == [Absent EXCEPT !.pc = "running", !.dropped = ~Keeps]
  <1>1. r.pc # "starting" /\ rep' = [rep EXCEPT ![id] = r]
    BY DEF Started, Absent
  <1> HIDE DEF r
  <1>2. Counted' /\ starting >= 1
    BY <1>1, CountFacts, StartLeaves DEF Started
  <1>3. CASE Keeps
    <2>1. Len(replicas') = Len(replicas) + 1
      BY <1>3, CountFacts, AppendProperties DEF Started
    <2> QED
      BY <1>2, <2>1, CountFacts DEF Covered, Scalars, Started, counters
  <1>4. CASE ~Keeps
    <2>1. replicas' = replicas
      BY <1>4 DEF Started
    <2> QED
      BY <1>2, <1>4, <2>1, CountFacts DEF Covered, Scalars, Started, Keeps, counters
  <1> QED
    BY <1>3, <1>4

LEMMA AdoptCount == ASSUME CountInv, NEW id \in Ids, Adopt(id) PROVE Counted' /\ Covered'
  <1>1. \A d \in Ids : rep'[d].pc = "starting" <=> rep[d].pc = "starting"
    BY CountFacts DEF Adopt, Absent
  <1>2. Counted'
    BY <1>1, CountFacts, SameStarts DEF Counted, Adopt
  <1>3. Len(replicas') = Len(replicas) + 1
    BY CountFacts, AppendProperties DEF Adopt
  <1>4. Covered'
    BY <1>3, CountFacts DEF Covered, Scalars, Adopt, counters
  <1> QED
    BY <1>2, <1>4

\* A replica that leaves a set that restarts Always has its replacement.
LEMMA JudgeCount == ASSUME CountInv, NEW id \in Ids, Judge(id) PROVE Counted' /\ Covered'
  <1>1. \A d \in Ids : rep'[d].pc = "starting" <=> rep[d].pc = "starting"
    BY CountFacts DEF Judge, Absent, Record
  <1>2. Counted'
    BY <1>1, CountFacts, SameStarts DEF Counted, Judge
  <1>3. CASE spec.inPlace /\ Restarts(id)
    BY <1>1, <1>3, CountFacts, SameCount DEF Judge, counters, Scalars
  <1>4. CASE ~(spec.inPlace /\ Restarts(id)) /\ Held(id)
    <2>1. \A i, j \in DOMAIN replicas : i # j => replicas[i] # replicas[j]
      BY SetInvParts DEF CountInv, HeldOnce
    <2>2. Len(replicas') = Len(replicas) - 1
      <3>1. (\E i \in DOMAIN replicas : replicas[i] = id) => Len(RemoveFirst(replicas, id)) = Len(replicas) - 1
        BY <2>1, CountFacts, RemoveFirstOnce
      <3> QED
        BY <1>4, <3>1 DEF Judge, Without, Held
    <2>3. (spec.restart = "Always" /\ ~closed) => replacing' = replacing + 1
      BY <1>4 DEF Judge, Restarts, RestartAllowed
    <2>4. Covered'
      BY <2>2, <2>3, CountFacts DEF Covered, Scalars, Judge, counters
    <2> QED
      BY <1>2, <2>4
  <1>5. CASE ~Held(id)
    <2>1. \A i, j \in DOMAIN replicas : i # j => replicas[i] # replicas[j]
      BY SetInvParts DEF CountInv, HeldOnce
    <2>2. replicas' = replicas
      <3>1. ~(\E i \in DOMAIN replicas : replicas[i] = id) => RemoveFirst(replicas, id) = replicas
        BY <2>1, CountFacts, RemoveFirstOnce
      <3> QED
        BY <1>5, <3>1 DEF Judge, Without, Held
    <2> QED
      BY <1>1, <1>5, <2>2, CountFacts, SameCount DEF Judge, Restarts, counters, Scalars
  <1> QED
    BY <1>3, <1>4, <1>5

\* A replacement that gives up found the set full or stopped.
LEMMA ReplaceCount == ASSUME CountInv, Replace PROVE Counted' /\ Covered'
  <1>1. CASE ~cancelled /\ Short
    <2>1. PICK id \in Free : rep' = Begin({id}, "replace", rep)
      BY <1>1 DEF Replace
    <2>2. Cardinality({id}) = 1
      BY FS_Singleton
    <2>3. starting' = starting + 1
      BY <1>1 DEF Replace
    <2>4. Counted'
      BY <2>1, <2>2, <2>3, CountFacts, StartsJoin
    <2>5. Covered'
      BY <2>3, CountFacts DEF Covered, Scalars, Replace, counters
    <2> QED
      BY <2>4, <2>5
  <1>2. CASE ~(~cancelled /\ Short)
    <2>1. UNCHANGED <<starting, rep>>
      BY <1>2 DEF Replace
    <2>2. Counted'
      BY <2>1, CountFacts DEF Counted, InStart
    <2>3. Covered'
      BY <1>2, <2>1, CountFacts DEF Covered, Scalars, Replace, Short, ClosedEmpty, counters
    <2> QED
      BY <2>2, <2>3
  <1> QED
    BY <1>1, <1>2

LEMMA AddCount == ASSUME CountInv, NEW n \in Counts, Add(n) PROVE Counted' /\ Covered'
  <1>1. PICK id \in Free : rep' = Begin({id}, "add", rep)
    BY DEF Add
  <1>2. Cardinality({id}) = 1
    BY FS_Singleton
  <1>3. Counted'
    BY <1>1, <1>2, CountFacts, StartsJoin DEF Add
  <1>4. Covered'
    BY CountFacts DEF Covered, Scalars, Add
  <1> QED
    BY <1>3, <1>4

LEMMA RaiseCount == ASSUME CountInv, NEW n \in Counts, Raise(n) PROVE Counted' /\ Covered'
  <1>1. PICK new \in SUBSET Free : Cardinality(new) = Missing(n, Len(replicas)) /\ rep' = Begin(new, "scale", rep)
    BY DEF Raise
  <1>2. Counted'
    BY <1>1, CountFacts, StartsJoin DEF Raise
  <1>3. n - Len(replicas) - starting' <= 0 /\ n \in Nat
    BY CountFacts, MissingType, ReplicasAssumption DEF Raise
  <1>4. Covered'
    BY <1>3, CountFacts DEF Covered, Scalars, Raise
  <1> QED
    BY <1>2, <1>4

LEMMA ScaleCount == ASSUME CountInv, NEW n \in Counts, Scale(n) PROVE Counted' /\ Covered'
  <1> DEFINE kept == IF Len(replicas) > n THEN SubSeq(replicas, 1, n) ELSE replicas
             surplus == {id \in Ids : Held(id) /\ ~Contains(kept, id)}
  <1>1. n \in Nat /\ kept \in Seq(Ids) /\ Len(kept) \in Nat
    BY CountFacts, ReplicasAssumption
  <1>2. /\ want' = n /\ replicas' = kept /\ starting' = starting + Missing(n, Len(kept))
        /\ \E new \in SUBSET Free :
              Cardinality(new) = Missing(n, Len(kept)) /\ rep' = Begin(new, "scale", Dropped(surplus))
    BY DEF Scale
  <1> HIDE DEF kept, surplus
  <1>3. PICK new \in SUBSET Free : Cardinality(new) = Missing(n, Len(kept)) /\ rep' = Begin(new, "scale", Dropped(surplus))
    BY <1>2
  <1>4. \A id \in Ids : Dropped(surplus)[id].pc = rep[id].pc
    BY CountFacts DEF Dropped, Record
  <1>5. Counted'
    <2>1. Counted /\ starting' = starting + Cardinality(new)
      BY <1>2, <1>3, CountFacts
    <2> QED
      BY <1>3, <1>4, <2>1, StartsJoin
  <1>6. n - Len(kept) - starting' <= 0
    BY <1>1, <1>2, CountFacts, MissingType
  <1>7. Covered'
    <2>1. want' - Len(replicas') - starting' <= 0
      BY <1>2, <1>6
    <2>2. want' \in Nat /\ Len(replicas') \in Nat /\ starting' \in Int /\ replacing' \in Nat
      <3>1. replacing' \in Nat
        BY CountFacts DEF Scalars, Scale
      <3>2. starting' \in Int
        BY <1>1, <1>2, CountFacts, MissingType
      <3> QED
        BY <1>1, <1>2, <3>1, <3>2
    <2>3. want' - Len(replicas') - starting' <= replacing'
      BY <2>1, <2>2
    <2> QED
      BY <2>3 DEF Covered
  <1> QED
    BY <1>5, <1>7

LEMMA InitCount == Init => CountInv
  <1> SUFFICES ASSUME Init PROVE CountInv
    OBVIOUS
  <1>1. InStart = {}
    BY DEF Init, InStart, Absent
  <1>2. Counted
    BY <1>1, FS_EmptySet DEF Counted, Init
  <1>3. Covered
    BY DEF Init, Covered
  <1> QED
    BY <1>2, <1>3, InitSet DEF CountInv

LEMMA NextCount == ASSUME CountInv, [Next]_vars PROVE CountInv'
  <1>1. SetInv'
    BY NextSet DEF CountInv
  <1>2. CASE Next
    <2>1. ASSUME NEW n \in Counts, Scale(n) \/ Raise(n) \/ Add(n) PROVE Counted' /\ Covered'
      BY <2>1, ScaleCount, RaiseCount, AddCount
    <2>2. ASSUME Stop \/ Cancel \/ Replace PROVE Counted' /\ Covered'
      BY <2>2, StopCount, CancelCount, ReplaceCount
    <2>3. ASSUME NEW id \in Ids, Adopt(id) \/ StopOne(id) \/ StartEnds(id) \/ AddUndone(id)
          PROVE  Counted' /\ Covered'
      BY <2>3, AdoptCount, StopOneCount, StartedCount, StartFailedCount, AddUndoneCount DEF StartEnds
    <2>4. ASSUME NEW id \in Ids, NEW fails \in BOOLEAN, Exit(id, fails) PROVE Counted' /\ Covered'
      BY <2>4, ExitCount
    <2>5. ASSUME NEW id \in Ids, Judge(id) \/ BackoffEnded(id) \/ RestartBegins(id) \/ RestartEnds(id)
          PROVE  Counted' /\ Covered'
      BY <2>5, JudgeCount, BackoffEndedCount, RestartBeginsCount, RestartedCount, RestartFailedCount DEF RestartEnds
    <2>6. Counted' /\ Covered'
      BY <1>2, <2>1, <2>2, <2>3, <2>4, <2>5 DEF Next
    <2> QED
      BY <1>1, <2>6 DEF CountInv
  <1>3. CASE UNCHANGED vars
    BY <1>1, <1>3 DEF vars, counters, CountInv, Counted, Covered, InStart
  <1> QED
    BY <1>2, <1>3

\* Set.starting is the number of starts in progress, and a set that restarts
\* Always is short by no more than the replacements on their way.
THEOREM CountInvariance == Spec => []CountInv
  <1>1. CountInv /\ [Next]_vars => CountInv'
    BY NextCount
  <1> QED
    BY <1>1, InitCount, PTL DEF Spec

\* A set that restarts Always keeps its count: as long as no start failed for
\* a caller of Scale, Raise or Add, it is short only while a replacement is
\* on its way.
THEOREM CountKept == Spec => []KeptUp
  <1>1. CountInv => KeptUp
    <2> SUFFICES ASSUME CountInv, spec.restart = "Always", Short, refused = 0 PROVE replacing > 0
      BY DEF KeptUp
    <2> QED
      BY CountFacts DEF Covered, Scalars, Short
  <1> QED
    BY <1>1, CountInvariance, PTL

-----------------------------------------------------------------------------
(***************************************************************************)
(* Stop.  That a stopped set ends is a liveness property; its safety part  *)
(* is that nothing is forgotten, and that from the moment the context of   *)
(* the set ended no step leads away from the end.                          *)
(***************************************************************************)

\* How far a replica is from its end once the set is being stopped.
Rank(pc) ==
    CASE pc = "starting" -> 4 [] pc = "restarting" -> 3 [] pc = "running" -> 2
      [] pc \in {"exited", "backoff", "undoing"} -> 1 [] OTHER -> 0

\* Replica id comes closer to its end, by its own step or because it is
\* stopped at last; a start that fails hands over to replace.
Ends(id) ==
    \/ /\ Rank(rep'[id].pc) < Rank(rep[id].pc)
       /\ replacing' = replacing \/ (rep[id].pc = "starting" /\ replacing' = replacing + 1)
    \/ /\ rep[id].dropped /\ ~rep'[id].dropped /\ rep'[id].stopped
       /\ rep'[id].pc = rep[id].pc /\ replacing' = replacing

\* After Stop the set holds nothing, and what still runs is stopped or about
\* to be: no replica waits for somebody who has forgotten it.
LetGo ==
    closed => /\ replicas = <<>>
              /\ \A id \in Ids : rep[id].pc \in {"running", "backoff", "restarting"} =>
                                    rep[id].dropped \/ rep[id].stopped

\* Once Stop has ended the set's context every step brings the set closer to
\* its end: one replica moves on towards it, or a replacement is given up,
\* and no other replica moves.
WindsDown ==
    [][cancelled =>
          /\ cancelled' /\ closed' /\ replicas' = <<>>
          /\ \/ replacing' = replacing - 1 /\ rep' = rep
             \/ \E id \in Ids : Ends(id) /\ \A other \in Ids \ {id} : rep'[other] = rep[other]]_vars

\* One replica moves and the others stay.
LEMMA OneMoves ==
  ASSUME rep \in [Ids -> Record], NEW id \in Ids, NEW r, rep' = [rep EXCEPT ![id] = r]
  PROVE  rep'[id] = r /\ \A other \in Ids \ {id} : rep'[other] = rep[other]
  OBVIOUS

\* What ends on its own.
LEMMA OwnEnd ==
  ASSUME SetInv, closed, NEW id \in Ids,
         \/ Started(id) \/ StartFailed(id) \/ AddUndone(id) \/ Judge(id)
         \/ \E fails \in BOOLEAN : Exit(id, fails)
  PROVE  Ends(id) /\ \A other \in Ids \ {id} : rep'[other] = rep[other]
  <1>0. rep \in [Ids -> Record] /\ rep[id].pc \in States /\ Absent.pc = "none"
    BY SetInvParts DEF Record, Absent
  <1>1. CASE Started(id)
    <2> DEFINE r == [Absent EXCEPT !.pc = "running", !.dropped = ~Keeps]
    <2>1. rep[id].pc = "starting" /\ replacing' = replacing /\ rep' = [rep EXCEPT ![id] = r]
      BY <1>1 DEF Started
    <2>2. r.pc = "running"
      BY DEF Absent
    <2> HIDE DEF r
    <2>3. rep'[id] = r /\ \A other \in Ids \ {id} : rep'[other] = rep[other]
      BY <1>0, <2>1, OneMoves
    <2> QED
      BY <2>1, <2>2, <2>3 DEF Ends, Rank
  <1>2. CASE StartFailed(id)
    <2> DEFINE r == IF rep[id].by = "add" THEN [Absent EXCEPT !.pc = "undoing"] ELSE Absent
    <2>1. rep[id].pc = "starting" /\ rep' = [rep EXCEPT ![id] = r]
      BY <1>2 DEF StartFailed
    <2>2. replacing' = replacing \/ replacing' = replacing + 1
      BY <1>2 DEF StartFailed
    <2>3. r.pc \in {"undoing", "none"}
      BY DEF Absent
    <2> HIDE DEF r
    <2>4. rep'[id] = r /\ \A other \in Ids \ {id} : rep'[other] = rep[other]
      BY <1>0, <2>1, OneMoves
    <2> QED
      BY <2>1, <2>2, <2>3, <2>4 DEF Ends, Rank
  <1>3. CASE AddUndone(id)
    <2>1. rep[id].pc = "undoing" /\ replacing' = replacing /\ rep' = [rep EXCEPT ![id] = Absent]
      BY <1>3 DEF AddUndone
    <2>2. rep'[id] = Absent /\ \A other \in Ids \ {id} : rep'[other] = rep[other]
      BY <1>0, <2>1, OneMoves
    <2> QED
      BY <1>0, <2>1, <2>2 DEF Ends, Rank
  <1>4. CASE Judge(id)
    <2>1. rep[id].pc = "exited" /\ replacing' = replacing /\ rep' = [rep EXCEPT ![id] = Absent]
      BY <1>4 DEF Judge, Restarts
    <2>2. rep'[id] = Absent /\ \A other \in Ids \ {id} : rep'[other] = rep[other]
      BY <1>0, <2>1, OneMoves
    <2> QED
      BY <1>0, <2>1, <2>2 DEF Ends, Rank
  <1>5. ASSUME NEW fails \in BOOLEAN, Exit(id, fails)
        PROVE  Ends(id) /\ \A other \in Ids \ {id} : rep'[other] = rep[other]
    <2> DEFINE b == rep[id]
               r == IF b.stopped THEN Absent ELSE [b EXCEPT !.pc = "exited", !.failed = fails]
    <2>1. b.pc = "running" /\ replacing' = replacing /\ rep' = [rep EXCEPT ![id] = r] /\ b \in Record
      BY <1>0, <1>5 DEF Exit
    <2>2. r.pc \in {"exited", "none"}
      BY <1>0, <2>1 DEF Record
    <2> HIDE DEF r
    <2>3. rep'[id] = r /\ \A other \in Ids \ {id} : rep'[other] = rep[other]
      BY <1>0, <2>1, OneMoves
    <2> QED
      BY <2>1, <2>2, <2>3 DEF Ends, Rank
  <1> QED
    BY <1>1, <1>2, <1>3, <1>4, <1>5

\* What ends because the set was stopped.
LEMMA StoppedEnd ==
  ASSUME SetInv, cancelled, NEW id \in Ids,
         StopOne(id) \/ BackoffEnded(id) \/ Restarted(id) \/ RestartFailed(id)
  PROVE  Ends(id) /\ \A other \in Ids \ {id} : rep'[other] = rep[other]
  <1>0. rep \in [Ids -> Record] /\ rep[id] \in Record /\ Absent.pc = "none"
    BY SetInvParts DEF Absent
  <1>1. CASE StopOne(id)
    <2> DEFINE b == rep[id]
               r == [b EXCEPT !.stopped = TRUE, !.dropped = FALSE]
    <2>1. b.dropped /\ replacing' = replacing /\ rep' = [rep EXCEPT ![id] = r] /\ b \in Record
      BY <1>0, <1>1 DEF StopOne
    <2>2. r.pc = b.pc /\ ~r.dropped /\ r.stopped
      BY <2>1 DEF Record
    <2> HIDE DEF r
    <2>3. rep'[id] = r /\ \A other \in Ids \ {id} : rep'[other] = rep[other]
      BY <1>0, <2>1, OneMoves
    <2> QED
      BY <2>1, <2>2, <2>3 DEF Ends
  <1>2. CASE BackoffEnded(id)
    <2>1. rep[id].pc = "backoff" /\ replacing' = replacing /\ rep' = [rep EXCEPT ![id] = Absent]
      BY <1>2 DEF BackoffEnded
    <2>2. rep'[id] = Absent /\ \A other \in Ids \ {id} : rep'[other] = rep[other]
      BY <1>0, <2>1, OneMoves
    <2> QED
      BY <1>0, <2>1, <2>2 DEF Ends, Rank
  <1>3. CASE Restarted(id)
    <2> DEFINE b == rep[id]
               r == IF b.stopped THEN Absent ELSE [b EXCEPT !.pc = "running"]
    <2>1. b.pc = "restarting" /\ replacing' = replacing /\ rep' = [rep EXCEPT ![id] = r] /\ b \in Record
      BY <1>0, <1>3 DEF Restarted
    <2>2. r.pc \in {"running", "none"}
      BY <1>0, <2>1 DEF Record
    <2> HIDE DEF r
    <2>3. rep'[id] = r /\ \A other \in Ids \ {id} : rep'[other] = rep[other]
      BY <1>0, <2>1, OneMoves
    <2> QED
      BY <2>1, <2>2, <2>3 DEF Ends, Rank
  <1>4. CASE RestartFailed(id)
    <2> DEFINE b == rep[id]
               r == [b EXCEPT !.pc = "backoff"]
    <2>1. b.pc = "restarting" /\ replacing' = replacing /\ rep' = [rep EXCEPT ![id] = r] /\ b \in Record
      BY <1>0, <1>4 DEF RestartFailed
    <2>2. r.pc = "backoff"
      BY <2>1 DEF Record
    <2> HIDE DEF r
    <2>3. rep'[id] = r /\ \A other \in Ids \ {id} : rep'[other] = rep[other]
      BY <1>0, <2>1, OneMoves
    <2> QED
      BY <2>1, <2>2, <2>3 DEF Ends, Rank
  <1> QED
    BY <1>1, <1>2, <1>3, <1>4

\* After Stop the set holds nothing and has stopped, or is about to stop,
\* all that runs: a replica whose start or restart was under way included.
THEOREM StopLetsGo == Spec => []LetGo
  <1>1. SetInv => LetGo
    <2> SUFFICES ASSUME SetInv, closed PROVE LetGo
      BY DEF LetGo
    <2>1. replicas = <<>> /\ AllFit
      BY SetInvParts DEF ClosedEmpty
    <2>2. \A id \in Ids : ~Held(id)
      BY <2>1 DEF Held
    <2> QED
      BY <2>1, <2>2 DEF LetGo, AllFit, Fits
  <1> QED
    BY <1>1, SetInvariance, PTL

\* Every step of a stopped set brings it closer to its end: nothing starts,
\* nothing is replaced, and no restart in place begins (Stop, replace,
\* restartInPlace).  With LetGo it is why StopEnds holds.
THEOREM StopWindsDown == Spec => WindsDown
  <1> DEFINE Ending ==
        /\ cancelled' /\ closed' /\ replicas' = <<>>
        /\ \/ replacing' = replacing - 1 /\ rep' = rep
           \/ \E id \in Ids : Ends(id) /\ \A other \in Ids \ {id} : rep'[other] = rep[other]
  <1>1. ASSUME SetInv, SetInv', Next, cancelled PROVE Ending
    <2>1. closed
      BY <1>1, SetInvParts DEF ClosedEmpty
    <2>2. ASSUME cancelled', replacing' = replacing - 1 /\ rep' = rep PROVE Ending
      BY <1>1, <2>2 DEF SetInv, ClosedEmpty
    <2>3. ASSUME cancelled', NEW id \in Ids, Ends(id), \A other \in Ids \ {id} : rep'[other] = rep[other] PROVE Ending
      BY <1>1, <2>3 DEF SetInv, ClosedEmpty
    <2> HIDE DEF Ending
    <2>4. CASE Replace
      <3>1. replacing' = replacing - 1 /\ rep' = rep /\ cancelled'
        BY <1>1, <2>4 DEF Replace
      <3> QED
        BY <2>2, <3>1
    <2>5. ASSUME NEW id \in Ids, StartEnds(id) \/ AddUndone(id) \/ Judge(id) \/ \E fails \in BOOLEAN : Exit(id, fails)
          PROVE  Ending
      <3>1. cancelled'
        BY <1>1, <2>5 DEF StartEnds, Started, StartFailed, AddUndone, Judge, Exit
      <3>2. Ends(id) /\ \A other \in Ids \ {id} : rep'[other] = rep[other]
        BY <1>1, <2>1, <2>5, OwnEnd DEF StartEnds
      <3> QED
        BY <2>3, <3>1, <3>2
    <2>6. ASSUME NEW id \in Ids, StopOne(id) \/ BackoffEnded(id) \/ RestartEnds(id) PROVE Ending
      <3>1. cancelled'
        BY <1>1, <2>6 DEF StopOne, BackoffEnded, RestartEnds, Restarted, RestartFailed
      <3>2. Ends(id) /\ \A other \in Ids \ {id} : rep'[other] = rep[other]
        BY <1>1, <2>6, StoppedEnd DEF RestartEnds
      <3> QED
        BY <2>3, <3>1, <3>2
    <2>7. /\ \A n \in Counts : ~Scale(n) /\ ~Raise(n) /\ ~Add(n)
          /\ ~Stop /\ ~Cancel
          /\ \A id \in Ids : ~Adopt(id) /\ ~RestartBegins(id)
      BY <1>1, <2>1 DEF Scale, Raise, Add, Call, Stop, Cancel, Adopt, RestartBegins
    <2> QED
      BY <1>1, <2>4, <2>5, <2>6, <2>7 DEF Next
  <1>2. ASSUME SetInv, SetInv', [Next]_vars PROVE [cancelled => Ending]_vars
    BY <1>1, <1>2
  <1> QED
    BY <1>2, SetInvariance, PTL DEF Spec, WindsDown
=============================================================================
