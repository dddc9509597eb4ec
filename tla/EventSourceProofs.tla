------------------------- MODULE EventSourceProofs -------------------------
(***************************************************************************)
(* Proofs about the pollers of the event source mappings, for every set of *)
(* mappings and goroutines and any number of requests.                     *)
(*                                                                         *)
(* OnePoller is inductive only together with what Pollers.active means:    *)
(* its keys are exactly the keys of the pollers that have not left.        *)
(* LoopAwake has to hold while the loop still starts pollers, for every    *)
(* mapping the loop no longer has on its list.  That a refused poller      *)
(* hears of what clears its refusal needs to know which channels it holds. *)
(***************************************************************************)
EXTENDS EventSource, FiniteSetTheorems, TLAPS

\* The poller has not left Pollers.active.
Runner(p) == poller[p].pc \notin {"free", "ending"}

KeysOK == \A p \in Ids : poller[p].pc # "free" => poller[p].key \in Mappings

FreeKeys == \A p \in Ids : poller[p].pc = "free" => poller[p].key = "none"

ActiveExact ==
    /\ \A p \in Ids : Runner(p) => poller[p].key \in active
    /\ \A m \in active : \E p \in Ids : Runner(p) /\ poller[p].key = m

Unique == \A p, q \in Ids : (Runner(p) /\ Runner(q) /\ p # q) => poller[p].key # poller[q].key

\* Something is to come that wakes the loop, or did.
Stirred ==
    \/ loop.woken \/ ended
    \/ \E n \in Mappings : coming[n] > 0
    \/ \E p \in Ids : poller[p].pc \in {"announce", "ending"}

Awake ==
    loop.pc = "begin" =>
        \A m \in Mappings : (mapping[m] = "Enabled" /\ m \notin active /\ m \notin loop.todo) => Stirred

IInv == TypeOK /\ KeysOK /\ FreeKeys /\ ActiveExact /\ Unique /\ Awake

-----------------------------------------------------------------------------
PollerType ==
    [pc : {"free", "take", "takeEnv", "check", "work", "settle", "report", "store",
           "announce", "wait", "leave", "ending"},
     key : Mappings \cup {"none"}, woken : BOOLEAN, env : BOOLEAN, missed : BOOLEAN,
     failed : BOOLEAN, report : {"none", "OK", "PROBLEM"}, then : {"take", "wait"}]

Results == {"none", "OK", "PROBLEM"}

\* What the type invariant says of the rows.
RowsOK ==
    /\ mapping \in [Mappings -> {"new", "Enabled", "Disabled", "deleted"}]
    /\ result \in [Mappings -> Results]
    /\ updating \in [Mappings -> [state : {"new", "Enabled", "Disabled"}, result : Results]]
    /\ serves \in [Mappings -> Serving] /\ alias \in [Mappings -> BOOLEAN]
    /\ coming \in [Mappings -> Nat] /\ comingEnv \in [Mappings -> Nat]
    /\ writes \in 0 .. MaxWrites

LoopOK ==
    /\ loop \in [pc : {"take", "read", "begin"}, woken : BOOLEAN, todo : SUBSET Mappings]
    /\ ended \in BOOLEAN

LEMMA TypeParts == TypeOK <=> (RowsOK /\ LoopOK /\ active \subseteq Mappings /\ poller \in [Ids -> PollerType])
  BY DEF TypeOK, RowsOK, LoopOK, PollerType, Results

LEMMA AtType ==
    ASSUME NEW pc \in {"take", "takeEnv", "ending"}, NEW k \in Mappings
    PROVE  At(pc, k) \in PollerType /\ At(pc, k).pc = pc /\ At(pc, k).key = k
  BY DEF At, Nobody, PollerType

LEMMA NobodyType == Nobody \in PollerType /\ Nobody.pc = "free" /\ Nobody.key = "none"
  BY DEF Nobody, PollerType

LEMMA InitIInv == Init => IInv
  <1> SUFFICES ASSUME Init PROVE IInv
    OBVIOUS
  <1>1. poller \in [Ids -> PollerType] /\ \A p \in Ids : poller[p].pc = "free" /\ poller[p].key = "none"
    BY NobodyType DEF Init
  <1>2. RowsOK
    BY EventSourceAssumption DEF Init, RowsOK, Results, NoUpdate, Serving
  <1>3. LoopOK /\ active \subseteq Mappings
    BY DEF Init, LoopOK
  <1>4. TypeOK
    BY <1>1, <1>2, <1>3, TypeParts
  <1>5. KeysOK /\ FreeKeys /\ ActiveExact /\ Unique
    BY <1>1 DEF KeysOK, FreeKeys, ActiveExact, Unique, Runner, Init
  <1>6. Awake
    BY DEF Awake, Init
  <1> QED
    BY <1>4, <1>5, <1>6 DEF IInv

\* Pollers that come and go in nothing but their channels and their place in
\* a poll keep active exact.
LEMMA SameRunners ==
    ASSUME IInv, active' = active,
           \A p \in Ids : /\ poller'[p].key = poller[p].key
                          /\ poller'[p].pc = "free" <=> poller[p].pc = "free"
                          /\ poller'[p].pc = "ending" <=> poller[p].pc = "ending"
    PROVE  KeysOK' /\ FreeKeys' /\ ActiveExact' /\ Unique'
  <1>1. \A p \in Ids : Runner(p)' <=> Runner(p)
    BY DEF Runner
  <1>2. KeysOK' /\ FreeKeys'
    BY DEF IInv, KeysOK, FreeKeys
  <1>3. ActiveExact'
    BY <1>1 DEF IInv, ActiveExact
  <1>4. Unique'
    BY <1>1 DEF IInv, Unique
  <1> QED
    BY <1>2, <1>3, <1>4

\* The loop stays awake if what stirs it stays, and a mapping that becomes
\* enabled stirs it.
LEMMA StaysAwake ==
    ASSUME IInv, active' = active, loop'.pc = loop.pc, loop'.todo = loop.todo, Stirred => Stirred',
           \A m \in Mappings : mapping'[m] = "Enabled" => (mapping[m] = "Enabled" \/ Stirred')
    PROVE  Awake'
  BY DEF IInv, Awake

\* Requests leave the pollers alone.
LEMMA Request ==
    ASSUME IInv, RowsOK', UNCHANGED runtimeVars,
           \A m \in Mappings : coming[m] > 0 => coming'[m] > 0,
           \A m \in Mappings : mapping'[m] = "Enabled" => (mapping[m] = "Enabled" \/ coming'[m] > 0)
    PROVE  IInv'
  <1>1. TypeOK'
    BY TypeParts DEF IInv, RowsOK, LoopOK, TypeOK, runtimeVars, PollerType, Results
  <1>2. KeysOK' /\ FreeKeys' /\ ActiveExact' /\ Unique'
    BY SameRunners DEF runtimeVars
  <1>3. Stirred => Stirred'
    BY DEF Stirred, runtimeVars
  <1>4. \A m \in Mappings : mapping'[m] = "Enabled" => (mapping[m] = "Enabled" \/ Stirred')
    BY DEF Stirred
  <1>5. Awake'
    BY <1>3, <1>4, StaysAwake DEF runtimeVars
  <1> QED
    BY <1>1, <1>2, <1>5 DEF IInv

LEMMA CreateKeeps ==
    ASSUME IInv, NEW m \in Mappings, NEW state \in {"Enabled", "Disabled"}, Create(m, state) PROVE IInv'
  <1>1. RowsOK
    BY TypeParts DEF IInv
  <1>2. RowsOK'
    BY <1>1, EventSourceAssumption DEF RowsOK, Create, Write
  <1> QED
    BY <1>1, <1>2, Request DEF Create, RowsOK

LEMMA UpdateReadKeeps ==
    ASSUME IInv, NEW m \in Mappings, NEW state \in {"Enabled", "Disabled"}, UpdateRead(m, state) PROVE IInv'
  <1>1. RowsOK
    BY TypeParts DEF IInv
  <1>2. RowsOK'
    BY <1>1, EventSourceAssumption DEF RowsOK, UpdateRead, Write
  <1> QED
    BY <1>1, <1>2, Request DEF UpdateRead, RowsOK

LEMMA UpdatePutKeeps == ASSUME IInv, NEW m \in Mappings, UpdatePut(m) PROVE IInv'
  <1>1. RowsOK
    BY TypeParts DEF IInv
  <1>2. RowsOK'
    BY <1>1 DEF RowsOK, UpdatePut, NoUpdate, Results
  <1> QED
    BY <1>1, <1>2, Request DEF UpdatePut, RowsOK

LEMMA DeleteKeeps == ASSUME IInv, NEW m \in Mappings, Delete(m) PROVE IInv'
  <1>1. RowsOK
    BY TypeParts DEF IInv
  <1>2. RowsOK'
    BY <1>1, EventSourceAssumption DEF RowsOK, Delete, Write
  <1> QED
    BY <1>1, <1>2, Request DEF Delete, RowsOK

LEMMA SetServesKeeps ==
    ASSUME IInv, NEW M \in SUBSET Mappings, NEW as \in Serving, SetServes(M, as) PROVE IInv'
  <1>1. RowsOK
    BY TypeParts DEF IInv
  <1>2. serves' \in [Mappings -> Serving] /\ comingEnv' \in [Mappings -> Nat] /\ writes' \in 0 .. MaxWrites
    <2>1. writes' \in 0 .. MaxWrites
      BY <1>1, EventSourceAssumption DEF RowsOK, SetServes, Write
    <2>2. serves' \in [Mappings -> Serving]
      BY <1>1 DEF RowsOK, SetServes
    <2>3. \A n \in Mappings : comingEnv[n] \in Nat /\ comingEnv[n] + 1 \in Nat
      BY <1>1 DEF RowsOK
    <2>4. comingEnv' \in [Mappings -> Nat]
      BY <2>3 DEF SetServes
    <2> QED
      BY <2>1, <2>2, <2>4
  <1>3. UNCHANGED <<mapping, result, updating, alias, coming, runtimeVars>>
    BY DEF SetServes
  <1>4. RowsOK'
    BY <1>1, <1>2, <1>3 DEF RowsOK
  <1> QED
    BY <1>3, <1>4, Request

\* Steps that write nothing but marks on the pollers.
LEMMA Marks ==
    ASSUME IInv, RowsOK', LoopOK', poller' \in [Ids -> PollerType], active' = active,
           \A p \in Ids : poller'[p].key = poller[p].key /\ poller'[p].pc = poller[p].pc,
           loop'.pc = loop.pc, loop'.todo = loop.todo, mapping' = mapping,
           (loop.pc = "begin" /\ Stirred) => Stirred'
    PROVE  IInv'
  <1>1. TypeOK'
    BY TypeParts DEF IInv, RowsOK, LoopOK, TypeOK, PollerType, Results
  <1>2. KeysOK' /\ FreeKeys' /\ ActiveExact' /\ Unique'
    BY SameRunners
  <1>3. Awake'
    BY DEF IInv, Awake
  <1> QED
    BY <1>1, <1>2, <1>3 DEF IInv

LEMMA SetAliasKeeps == ASSUME IInv, NEW m \in Mappings, SetAlias(m) PROVE IInv'
  <1>1. RowsOK /\ LoopOK /\ poller \in [Ids -> PollerType]
    BY TypeParts DEF IInv
  <1>2. RowsOK' /\ LoopOK'
    BY <1>1, EventSourceAssumption DEF RowsOK, LoopOK, SetAlias, Write
  <1>3. /\ poller' \in [Ids -> PollerType]
        /\ \A p \in Ids : poller'[p].key = poller[p].key /\ poller'[p].pc = poller[p].pc
    <2>1. ASSUME NEW r \in PollerType
          PROVE  LET t == [r EXCEPT !.missed = TRUE] IN t \in PollerType /\ t.key = r.key /\ t.pc = r.pc
      BY DEF PollerType
    <2>2. /\ poller' = [p \in Ids |-> poller'[p]]
          /\ \A p \in Ids : poller'[p] = poller[p] \/ poller'[p] = [poller[p] EXCEPT !.missed = TRUE]
      BY DEF SetAlias
    <2> QED
      BY <1>1, <2>1, <2>2
  <1>4. Stirred => Stirred'
    BY <1>3 DEF Stirred, SetAlias
  <1> QED
    BY <1>2, <1>3, <1>4, Marks DEF SetAlias

LEMMA AnnounceKeeps == ASSUME IInv, NEW m \in Mappings, Announce(m) PROVE IInv'
  <1>1. RowsOK /\ LoopOK /\ poller \in [Ids -> PollerType]
    BY TypeParts DEF IInv
  <1>2. RowsOK'
    BY <1>1 DEF RowsOK, Announce
  <1>3. LoopOK' /\ loop'.pc = loop.pc /\ loop'.todo = loop.todo /\ (loop.pc = "begin" => loop'.woken)
    BY <1>1 DEF LoopOK, Announce, LoopWoken
  <1>4. /\ poller' \in [Ids -> PollerType]
        /\ \A p \in Ids : poller'[p].key = poller[p].key /\ poller'[p].pc = poller[p].pc
    <2>1. ASSUME NEW r \in PollerType
          PROVE  LET t == [r EXCEPT !.woken = TRUE] IN t \in PollerType /\ t.key = r.key /\ t.pc = r.pc
      BY DEF PollerType
    <2>2. /\ poller' = [p \in Ids |-> poller'[p]]
          /\ \A p \in Ids : poller'[p] = poller[p] \/ poller'[p] = [poller[p] EXCEPT !.woken = TRUE]
      BY DEF Announce, Woken
    <2> QED
      BY <1>1, <2>1, <2>2
  <1>5. loop.pc = "begin" => Stirred'
    BY <1>3 DEF Stirred
  <1> QED
    BY <1>2, <1>3, <1>4, <1>5, Marks DEF Announce

LEMMA AnnounceEnvKeeps == ASSUME IInv, NEW m \in Mappings, AnnounceEnv(m) PROVE IInv'
  <1>1. RowsOK /\ LoopOK /\ poller \in [Ids -> PollerType]
    BY TypeParts DEF IInv
  <1>2. RowsOK' /\ LoopOK'
    BY <1>1 DEF RowsOK, LoopOK, AnnounceEnv
  <1>3. /\ poller' \in [Ids -> PollerType]
        /\ \A p \in Ids : poller'[p].key = poller[p].key /\ poller'[p].pc = poller[p].pc
    <2> DEFINE told(p) == [poller[p] EXCEPT !.woken = TRUE]
    <2>1. \A p \in Ids : told(p) \in PollerType /\ told(p).key = poller[p].key /\ told(p).pc = poller[p].pc
      <3>1. ASSUME NEW r \in PollerType
            PROVE  LET t == [r EXCEPT !.woken = TRUE] IN t \in PollerType /\ t.key = r.key /\ t.pc = r.pc
        BY DEF PollerType
      <3> QED
        BY <1>1, <3>1
    <2>2. \A p \in Ids : poller'[p] = poller[p] \/ poller'[p] = told(p)
      BY DEF AnnounceEnv
    <2>3. poller' = [p \in Ids |-> poller'[p]]
      BY DEF AnnounceEnv
    <2> HIDE DEF told
    <2> QED
      BY <1>1, <2>1, <2>2, <2>3
  <1>4. Stirred => Stirred'
    BY <1>3 DEF Stirred, AnnounceEnv
  <1> QED
    BY <1>2, <1>3, <1>4, Marks DEF AnnounceEnv

-----------------------------------------------------------------------------
(* The loop *)

LEMMA LoopTakeKeeps == ASSUME IInv, LoopTake PROVE IInv'
  <1>1. RowsOK /\ LoopOK /\ active \subseteq Mappings /\ poller \in [Ids -> PollerType]
    BY TypeParts DEF IInv
  <1>2. TypeOK'
    BY <1>1 DEF TypeOK, RowsOK, LoopOK, LoopTake, rows, PollerType, Results
  <1>3. KeysOK' /\ FreeKeys' /\ ActiveExact' /\ Unique'
    BY SameRunners DEF LoopTake
  <1>4. Awake'
    BY <1>1 DEF Awake, LoopTake, LoopOK
  <1> QED
    BY <1>2, <1>3, <1>4 DEF IInv

LEMMA LoopReadKeeps == ASSUME IInv, LoopRead PROVE IInv'
  <1>1. RowsOK /\ LoopOK /\ active \subseteq Mappings /\ poller \in [Ids -> PollerType]
    BY TypeParts DEF IInv
  <1>2. TypeOK'
    BY <1>1 DEF TypeOK, RowsOK, LoopOK, LoopRead, rows, PollerType, Results
  <1>3. KeysOK' /\ FreeKeys' /\ ActiveExact' /\ Unique'
    BY SameRunners DEF LoopRead
  <1>4. Awake'
    BY <1>1 DEF Awake, LoopRead, LoopOK, rows
  <1> QED
    BY <1>2, <1>3, <1>4 DEF IInv

LEMMA LoopWakeKeeps == ASSUME IInv, LoopWake PROVE IInv'
  <1>1. RowsOK /\ LoopOK /\ active \subseteq Mappings /\ poller \in [Ids -> PollerType]
    BY TypeParts DEF IInv
  <1>2. TypeOK'
    BY <1>1 DEF TypeOK, RowsOK, LoopOK, LoopWake, rows, PollerType, Results
  <1>3. KeysOK' /\ FreeKeys' /\ ActiveExact' /\ Unique'
    BY SameRunners DEF LoopWake
  <1>4. Awake'
    BY <1>1 DEF Awake, LoopWake, LoopOK
  <1> QED
    BY <1>2, <1>3, <1>4 DEF IInv

\* The loop starts a poller only for a key that has none.
LEMMA LoopBeginKeeps == ASSUME IInv, NEW m \in Mappings, LoopBegin(m) PROVE IInv'
  <1>1. RowsOK /\ LoopOK /\ active \subseteq Mappings /\ poller \in [Ids -> PollerType]
    BY TypeParts DEF IInv
  <1>2. RowsOK' /\ LoopOK' /\ active' \subseteq Mappings
    BY <1>1 DEF RowsOK, LoopOK, LoopBegin, rows
  <1>3. loop'.pc = "begin" /\ loop'.woken = loop.woken /\ loop'.todo = loop.todo \ {m} /\ loop.pc = "begin"
    BY <1>1 DEF LoopBegin, LoopOK
  <1>4. CASE m \in active
    <2>1. UNCHANGED <<rows, ended, active, poller>>
      BY <1>4 DEF LoopBegin
    <2>2. KeysOK' /\ FreeKeys' /\ ActiveExact' /\ Unique'
      BY <2>1, SameRunners
    <2>3. Stirred' <=> Stirred
      BY <1>3, <2>1 DEF Stirred, rows
    <2>4. Awake'
      BY <1>3, <1>4, <2>1, <2>3 DEF IInv, Awake, rows
    <2>5. TypeOK'
      BY <1>1, <1>2, <2>1 DEF TypeOK, RowsOK, LoopOK, PollerType, Results
    <2> QED
      BY <2>2, <2>4, <2>5 DEF IInv
  <1>5. CASE m \notin active
    <2>1. active' = active \cup {m} /\ Begun(m)
      BY <1>5 DEF LoopBegin
    <2>2. PICK b \in Ids : poller[b].pc = "free" /\ poller' = [poller EXCEPT ![b] = At("take", m)]
      BY <2>1 DEF Begun
    <2>3. poller'[b] = At("take", m) /\ \A p \in Ids : p # b => poller'[p] = poller[p]
      BY <1>1, <2>1, <2>2
    <2>4. At("take", m) \in PollerType /\ poller'[b].pc = "take" /\ poller'[b].key = m
      BY <2>3, AtType
    <2>5. poller' \in [Ids -> PollerType]
      BY <1>1, <2>2, <2>4
    <2>6. Runner(b)' /\ ~Runner(b) /\ \A p \in Ids : p # b => (Runner(p)' <=> Runner(p))
      BY <2>2, <2>3, <2>4 DEF Runner
    <2>7. KeysOK' /\ FreeKeys'
      BY <2>3, <2>4 DEF IInv, KeysOK, FreeKeys
    <2>8. ActiveExact'
      BY <2>1, <2>2, <2>3, <2>4, <2>6 DEF IInv, ActiveExact
    <2>9. Unique'
      <3>1. \A p \in Ids : Runner(p) => poller[p].key # m
        BY <1>5 DEF IInv, ActiveExact
      <3> QED
        BY <2>2, <2>3, <2>4, <2>6, <3>1 DEF IInv, Unique
    <2>10. Stirred => Stirred'
      BY <1>3, <2>2, <2>3 DEF Stirred, LoopBegin, rows
    <2>11. Awake'
      BY <1>3, <2>1, <2>10 DEF IInv, Awake, LoopBegin, rows
    <2>12. TypeOK'
      BY <1>2, <2>5 DEF TypeOK, RowsOK, LoopOK, PollerType, Results
    <2> QED
      BY <2>7, <2>8, <2>9, <2>11, <2>12 DEF IInv
  <1> QED
    BY <1>4, <1>5

-----------------------------------------------------------------------------
(* The pollers *)

\* A step of a poll: the poller stays what it is a poller of.
LEMMA PollerMoves ==
    ASSUME IInv, NEW p \in Ids, NEW r \in PollerType,
           poller' = [poller EXCEPT ![p] = r], r.key = poller[p].key,
           poller[p].pc \notin {"free", "ending", "announce"}, r.pc \notin {"free", "ending"},
           UNCHANGED <<mapping, updating, serves, alias, coming, comingEnv, writes, loop, ended, active>>,
           result' \in [Mappings -> Results]
    PROVE  IInv'
  <1>1. RowsOK /\ LoopOK /\ active \subseteq Mappings /\ poller \in [Ids -> PollerType]
    BY TypeParts DEF IInv
  <1>2. poller' \in [Ids -> PollerType]
    BY <1>1
  <1>3. TypeOK'
    BY <1>1, <1>2 DEF TypeOK, RowsOK, LoopOK, PollerType, Results
  <1>4. poller'[p] = r /\ \A q \in Ids : q # p => poller'[q] = poller[q]
    BY <1>1
  <1>5. KeysOK' /\ FreeKeys' /\ ActiveExact' /\ Unique'
    BY <1>4, SameRunners
  <1>6. Stirred => Stirred'
    BY <1>4 DEF Stirred
  <1>7. Awake'
    BY <1>6, StaysAwake
  <1> QED
    BY <1>3, <1>5, <1>7 DEF IInv

LEMMA PollerFacts ==
    ASSUME IInv, NEW p \in Ids
    PROVE  /\ RowsOK /\ LoopOK /\ active \subseteq Mappings /\ poller \in [Ids -> PollerType]
           /\ poller[p] \in PollerType /\ (poller[p].pc # "free" => poller[p].key \in Mappings)
  BY TypeParts DEF IInv, KeysOK

LEMMA GoesOnType ==
    ASSUME NEW r \in PollerType, r.key \in Mappings
    PROVE  GoesOn(r) \in PollerType /\ GoesOn(r).key = r.key /\ GoesOn(r).pc \in {"take", "wait"}
  <1>1. CASE r.then = "wait"
    BY <1>1 DEF GoesOn, PollerType
  <1>2. CASE r.then # "wait"
    BY <1>2, AtType DEF GoesOn
  <1> QED
    BY <1>1, <1>2

LEMMA TakeWakeKeeps == ASSUME IInv, NEW p \in Ids, TakeWake(p) PROVE IInv'
  <1> DEFINE r == At("takeEnv", poller[p].key)
  <1>1. poller[p].key \in Mappings /\ RowsOK
    BY PollerFacts DEF TakeWake
  <1>2. r \in PollerType /\ r.pc = "takeEnv" /\ r.key = poller[p].key
    BY <1>1, AtType
  <1>3. poller' = [poller EXCEPT ![p] = r]
    BY DEF TakeWake
  <1> HIDE DEF r
  <1> QED
    BY <1>1, <1>2, <1>3, PollerMoves DEF TakeWake, rows, RowsOK

LEMMA TakeEnvKeeps == ASSUME IInv, NEW p \in Ids, TakeEnv(p) PROVE IInv'
  <1> DEFINE r == [poller[p] EXCEPT !.pc = "check", !.env = Present(poller[p].key)]
  <1>1. poller[p] \in PollerType /\ RowsOK
    BY PollerFacts
  <1>2. r \in PollerType /\ r.pc = "check" /\ r.key = poller[p].key
    <2>1. Present(poller[p].key) \in BOOLEAN
      BY DEF Present
    <2> QED
      BY <1>1, <2>1 DEF PollerType
  <1>3. poller' = [poller EXCEPT ![p] = r]
    BY DEF TakeEnv
  <1> HIDE DEF r
  <1> QED
    BY <1>1, <1>2, <1>3, PollerMoves DEF TakeEnv, rows, RowsOK

LEMMA CheckKeeps == ASSUME IInv, NEW p \in Ids, Check(p) PROVE IInv'
  <1> DEFINE r == [poller[p] EXCEPT !.pc = IF mapping[poller[p].key] = "Enabled" THEN "work" ELSE "leave"]
  <1>1. poller[p] \in PollerType /\ RowsOK
    BY PollerFacts
  <1>2. r \in PollerType /\ r.pc \in {"work", "leave"} /\ r.key = poller[p].key
    BY <1>1 DEF PollerType
  <1>3. poller' = [poller EXCEPT ![p] = r]
    BY DEF Check, Moves
  <1> HIDE DEF r
  <1> QED
    BY <1>1, <1>2, <1>3, PollerMoves DEF Check, rows, RowsOK

\* What a poll that goes on or reports makes of the poller.
LEMMA WorkMoves ==
    ASSUME IInv, NEW p \in Ids, poller[p].pc # "free", NEW res \in Results, NEW then \in {"take", "wait"},
           MovesOn(p) \/ Reports(p, res, then) \/ Moves(p, "store") \/ Moves(p, "announce")
    PROVE  \E r \in PollerType :
              poller' = [poller EXCEPT ![p] = r] /\ r.key = poller[p].key /\ r.pc \notin {"free", "ending"}
  <1>1. poller[p] \in PollerType /\ poller[p].key \in Mappings
    BY PollerFacts
  <1>2. CASE MovesOn(p)
    BY <1>1, <1>2, GoesOnType DEF MovesOn
  <1>3. CASE Reports(p, res, then)
    <2> DEFINE r == [poller[p] EXCEPT !.pc = "report", !.report = res, !.then = then]
    <2>1. r \in PollerType /\ r.pc = "report" /\ r.key = poller[p].key
      BY <1>1 DEF PollerType, Results
    <2>2. poller' = [poller EXCEPT ![p] = r]
      BY <1>3 DEF Reports
    <2> QED
      BY <2>1, <2>2
  <1>4. ASSUME NEW to \in {"store", "announce"}, Moves(p, to)
        PROVE  \E r \in PollerType :
                  poller' = [poller EXCEPT ![p] = r] /\ r.key = poller[p].key /\ r.pc \notin {"free", "ending"}
    <2> DEFINE r == [poller[p] EXCEPT !.pc = to]
    <2>1. r \in PollerType /\ r.pc = to /\ r.key = poller[p].key
      BY <1>1 DEF PollerType
    <2>2. poller' = [poller EXCEPT ![p] = r]
      BY <1>4 DEF Moves
    <2> QED
      BY <2>1, <2>2
  <1> QED
    BY <1>2, <1>3, <1>4

\* What a call that fails makes of the poller.
LEMMA FailsType ==
    ASSUME NEW r \in PollerType
    PROVE  LET t == Fails(r)
           IN  /\ t \in PollerType /\ t.key = r.key /\ t.pc = "report" /\ t.woken = r.woken /\ t.env = r.env
               /\ t.missed = r.missed /\ t.failed
  BY DEF Fails, PollerType

\* A written queue marks pollers, and moves none.
LEMMA ToldFacts ==
    ASSUME IInv, NEW k
    PROVE  /\ QueueAnnounced(k) \in [Ids -> PollerType]
           /\ \A q \in Ids : /\ QueueAnnounced(k)[q].key = poller[q].key /\ QueueAnnounced(k)[q].pc = poller[q].pc
                             /\ \/ QueueAnnounced(k)[q] = poller[q]
                                \/ QueueAnnounced(k)[q] = [poller[q] EXCEPT !.woken = TRUE]
  <1> DEFINE w == QueueAnnounced(k)
  <1>1. poller \in [Ids -> PollerType]
    BY TypeParts DEF IInv
  <1>2. ASSUME NEW r \in PollerType
        PROVE  LET t == [r EXCEPT !.woken = TRUE] IN t \in PollerType /\ t.key = r.key /\ t.pc = r.pc
    BY DEF PollerType
  <1>3. /\ w = [q \in Ids |-> w[q]]
        /\ \A q \in Ids : w[q] = poller[q] \/ w[q] = [poller[q] EXCEPT !.woken = TRUE]
    BY DEF QueueAnnounced
  <1> HIDE DEF w
  <1>4. w \in [Ids -> PollerType] /\ \A q \in Ids : w[q].key = poller[q].key /\ w[q].pc = poller[q].pc
    BY <1>1, <1>2, <1>3
  <1> QED
    BY <1>3, <1>4 DEF w

\* A step of a poll that marks other pollers.
LEMMA PollerMovesTold ==
    ASSUME IInv, NEW p \in Ids, NEW w \in [Ids -> PollerType], NEW r \in PollerType,
           \A q \in Ids : w[q].key = poller[q].key /\ w[q].pc = poller[q].pc,
           poller' = [w EXCEPT ![p] = r], r.key = poller[p].key,
           poller[p].pc \notin {"free", "ending", "announce"}, r.pc \notin {"free", "ending"},
           UNCHANGED <<rows, loop, ended, active>>
    PROVE  IInv'
  <1>1. RowsOK /\ LoopOK /\ active \subseteq Mappings /\ poller \in [Ids -> PollerType]
    BY TypeParts DEF IInv
  <1>2. poller' \in [Ids -> PollerType]
    OBVIOUS
  <1>3. TypeOK'
    BY <1>1, <1>2 DEF TypeOK, RowsOK, LoopOK, PollerType, Results, rows
  <1>4. poller'[p] = r /\ \A q \in Ids : q # p => poller'[q] = w[q]
    OBVIOUS
  <1>5. KeysOK' /\ FreeKeys' /\ ActiveExact' /\ Unique'
    BY <1>4, SameRunners
  <1>6. Stirred => Stirred'
    BY <1>4 DEF Stirred, rows
  <1>7. Awake'
    BY <1>6, StaysAwake DEF rows
  <1> QED
    BY <1>3, <1>5, <1>7 DEF IInv

LEMMA WorkKeeps == ASSUME IInv, NEW p \in Ids, Work(p) PROVE IInv'
  <1>0. /\ RowsOK /\ poller \in [Ids -> PollerType] /\ poller[p] \in PollerType
        /\ poller[p].pc = "work" /\ UNCHANGED <<rows, loop, ended, active>>
    BY PollerFacts DEF Work
  <1> DEFINE w == QueueAnnounced(Queue[poller[p].key])
             t == [w[p] EXCEPT !.pc = "settle"]
             u == Fails(w[p])
             v == Fails(poller[p])
  <1>1. w \in [Ids -> PollerType] /\ \A q \in Ids : w[q].key = poller[q].key /\ w[q].pc = poller[q].pc
    BY ToldFacts
  <1>2. \/ poller' = [w EXCEPT ![p] = t] \/ poller' = [w EXCEPT ![p] = u]
        \/ poller' = [poller EXCEPT ![p] = v] \/ Reports(p, "PROBLEM", "wait")
    BY DEF Work
  <1> HIDE DEF w
  <1>3. w[p] \in PollerType /\ w[p].key = poller[p].key
    BY <1>1
  <1>4. t \in PollerType /\ t.key = poller[p].key /\ t.pc = "settle"
    BY <1>3 DEF PollerType
  <1>5. u \in PollerType /\ u.key = poller[p].key /\ u.pc = "report"
    BY <1>3, FailsType
  <1>6. v \in PollerType /\ v.key = poller[p].key /\ v.pc = "report"
    BY <1>0, FailsType
  <1> HIDE DEF t, u, v
  <1>7. CASE poller' = [w EXCEPT ![p] = t]
    BY <1>0, <1>1, <1>4, <1>7, PollerMovesTold
  <1>8. CASE poller' = [w EXCEPT ![p] = u]
    BY <1>0, <1>1, <1>5, <1>8, PollerMovesTold
  <1>9. CASE poller' = [poller EXCEPT ![p] = v]
    BY <1>0, <1>6, <1>9, PollerMovesTold
  <1>10. CASE Reports(p, "PROBLEM", "wait")
    <2>1. PICK r \in PollerType :
             poller' = [poller EXCEPT ![p] = r] /\ r.key = poller[p].key /\ r.pc \notin {"free", "ending"}
      BY <1>0, <1>10, WorkMoves DEF Results
    <2> QED
      BY <1>0, <2>1, PollerMovesTold
  <1> QED
    BY <1>2, <1>7, <1>8, <1>9, <1>10

LEMMA SettleKeeps == ASSUME IInv, NEW p \in Ids, Settle(p) PROVE IInv'
  <1>0. /\ RowsOK /\ poller \in [Ids -> PollerType] /\ poller[p] \in PollerType
        /\ poller[p].pc = "settle" /\ UNCHANGED <<rows, loop, ended, active>>
    BY PollerFacts DEF Settle
  <1> DEFINE v == Fails(poller[p])
  <1>1. v \in PollerType /\ v.key = poller[p].key /\ v.pc = "report"
    BY <1>0, FailsType
  <1>2. \/ poller' = [poller EXCEPT ![p] = v]
        \/ \E res \in Results, then \in {"take", "wait"} : MovesOn(p) \/ Reports(p, res, then)
    BY DEF Settle, Results
  <1> HIDE DEF v
  <1>3. CASE poller' = [poller EXCEPT ![p] = v]
    BY <1>0, <1>1, <1>3, PollerMovesTold
  <1>4. ASSUME NEW res \in Results, NEW then \in {"take", "wait"}, MovesOn(p) \/ Reports(p, res, then)
        PROVE  IInv'
    <2>1. PICK r \in PollerType :
             poller' = [poller EXCEPT ![p] = r] /\ r.key = poller[p].key /\ r.pc \notin {"free", "ending"}
      BY <1>0, <1>4, WorkMoves
    <2> QED
      BY <1>0, <2>1, PollerMovesTold
  <1> QED
    BY <1>2, <1>3, <1>4

LEMMA ReportKeeps == ASSUME IInv, NEW p \in Ids, Report(p) PROVE IInv'
  <1>1. PICK r \in PollerType :
           poller' = [poller EXCEPT ![p] = r] /\ r.key = poller[p].key /\ r.pc \notin {"free", "ending"}
    BY WorkMoves DEF Report, Results
  <1>2. RowsOK
    BY PollerFacts
  <1> QED
    BY <1>1, <1>2, PollerMoves DEF Report, rows, RowsOK

LEMMA StoreKeeps == ASSUME IInv, NEW p \in Ids, Store(p) PROVE IInv'
  <1>1. PICK r \in PollerType :
           poller' = [poller EXCEPT ![p] = r] /\ r.key = poller[p].key /\ r.pc \notin {"free", "ending"}
    BY WorkMoves DEF Store, Results
  <1>2. RowsOK /\ poller[p] \in PollerType
    BY PollerFacts
  <1>3. result' \in [Mappings -> Results]
    BY <1>2 DEF Store, RowsOK, PollerType, Results
  <1> QED
    BY <1>1, <1>3, PollerMoves DEF Store

LEMMA PollerWakeKeeps == ASSUME IInv, NEW p \in Ids, PollerWake(p) PROVE IInv'
  <1> DEFINE r == At("take", poller[p].key)
  <1>1. poller[p].key \in Mappings /\ RowsOK
    BY PollerFacts DEF PollerWake
  <1>2. r \in PollerType /\ r.pc = "take" /\ r.key = poller[p].key
    BY <1>1, AtType
  <1>3. poller' = [poller EXCEPT ![p] = r]
    BY DEF PollerWake
  <1> HIDE DEF r
  <1> QED
    BY <1>1, <1>2, <1>3, PollerMoves DEF PollerWake, rows, RowsOK

\* The poller that announces its own report wakes the loop with it.
LEMMA AnnounceOwnKeeps == ASSUME IInv, NEW p \in Ids, AnnounceOwn(p) PROVE IInv'
  <1>1. /\ RowsOK /\ LoopOK /\ active \subseteq Mappings /\ poller \in [Ids -> PollerType]
        /\ poller[p] \in PollerType /\ poller[p].key \in Mappings
    BY PollerFacts DEF AnnounceOwn
  <1> DEFINE w == Woken(poller[p].key)
  <1>2. w \in [Ids -> PollerType] /\ \A q \in Ids : w[q].key = poller[q].key /\ w[q].pc = poller[q].pc
    BY <1>1 DEF Woken, PollerType
  <1> HIDE DEF w
  <1>3. poller' = [w EXCEPT ![p] = GoesOn(w[p])]
    BY DEF AnnounceOwn, w
  <1>4. GoesOn(w[p]) \in PollerType /\ GoesOn(w[p]).key = poller[p].key /\ GoesOn(w[p]).pc \in {"take", "wait"}
    BY <1>1, <1>2, GoesOnType
  <1>5. /\ poller' \in [Ids -> PollerType] /\ poller'[p] = GoesOn(w[p])
        /\ \A q \in Ids : q # p => poller'[q] = w[q]
    BY <1>2, <1>3, <1>4
  <1>6. LoopOK' /\ loop'.pc = loop.pc /\ loop'.todo = loop.todo /\ (loop.pc = "begin" => loop'.woken)
    BY <1>1 DEF LoopOK, AnnounceOwn, LoopWoken
  <1>7. TypeOK'
    BY <1>1, <1>5, <1>6 DEF TypeOK, RowsOK, LoopOK, AnnounceOwn, rows, PollerType, Results
  <1>8. KeysOK' /\ FreeKeys' /\ ActiveExact' /\ Unique'
    <2>1. poller[p].pc = "announce" /\ active' = active
      BY DEF AnnounceOwn
    <2> QED
      BY <1>2, <1>4, <1>5, <2>1, SameRunners
  <1>9. Awake'
    BY <1>6 DEF Awake, Stirred
  <1> QED
    BY <1>7, <1>8, <1>9 DEF IInv

\* A poller leaves active, and its key is free for the next one.
LEMMA LeaveKeeps == ASSUME IInv, NEW p \in Ids, Leave(p) PROVE IInv'
  <1>1. /\ RowsOK /\ LoopOK /\ active \subseteq Mappings /\ poller \in [Ids -> PollerType]
        /\ poller[p] \in PollerType /\ poller[p].key \in Mappings
    BY PollerFacts DEF Leave
  <1> DEFINE k == poller[p].key
  <1>2. At("ending", k) \in PollerType /\ At("ending", k).pc = "ending" /\ At("ending", k).key = k
    BY <1>1, AtType
  <1>3. /\ poller' \in [Ids -> PollerType] /\ poller'[p].pc = "ending" /\ poller'[p].key = k
        /\ \A q \in Ids : q # p => poller'[q] = poller[q]
    BY <1>1, <1>2 DEF Leave
  <1>4. Runner(p) /\ ~Runner(p)' /\ \A q \in Ids : q # p => (Runner(q)' <=> Runner(q))
    BY <1>3 DEF Leave, Runner
  <1>5. TypeOK'
    BY <1>1, <1>3 DEF TypeOK, RowsOK, LoopOK, Leave, rows, PollerType, Results
  <1>6. KeysOK' /\ FreeKeys'
    BY <1>1, <1>3 DEF IInv, KeysOK, FreeKeys
  <1>7. ActiveExact'
    <2>1. active' = active \ {k}
      BY DEF Leave
    <2>2. ASSUME NEW q \in Ids, Runner(q)' PROVE poller'[q].key \in active'
      BY <1>3, <1>4, <2>1, <2>2 DEF IInv, ActiveExact, Unique
    <2>3. ASSUME NEW m \in active' PROVE \E q \in Ids : Runner(q)' /\ poller'[q].key = m
      <3>1. PICK q \in Ids : Runner(q) /\ poller[q].key = m
        BY <2>1 DEF IInv, ActiveExact
      <3> QED
        BY <1>3, <1>4, <2>1, <3>1
    <2> QED
      BY <2>2, <2>3 DEF ActiveExact
  <1>8. Unique'
    BY <1>3, <1>4 DEF IInv, Unique
  <1>9. Awake'
    BY <1>3 DEF Awake, Stirred
  <1> QED
    BY <1>5, <1>6, <1>7, <1>8, <1>9 DEF IInv

LEMMA EndKeeps == ASSUME IInv, NEW p \in Ids, End(p) PROVE IInv'
  <1>1. /\ RowsOK /\ LoopOK /\ active \subseteq Mappings /\ poller \in [Ids -> PollerType]
    BY PollerFacts
  <1>2. /\ poller' \in [Ids -> PollerType] /\ poller'[p].pc = "free" /\ poller'[p].key = "none"
        /\ \A q \in Ids : q # p => poller'[q] = poller[q]
    BY <1>1, NobodyType DEF End
  <1>3. ~Runner(p) /\ ~Runner(p)' /\ \A q \in Ids : q # p => (Runner(q)' <=> Runner(q))
    BY <1>2 DEF End, Runner
  <1>4. TypeOK'
    BY <1>1, <1>2 DEF TypeOK, RowsOK, LoopOK, End, rows, PollerType, Results
  <1>5. KeysOK' /\ FreeKeys'
    BY <1>2 DEF IInv, KeysOK, FreeKeys
  <1>6. ActiveExact'
    <2>1. active' = active
      BY DEF End
    <2>2. ASSUME NEW q \in Ids, Runner(q)' PROVE poller'[q].key \in active'
      BY <1>2, <1>3, <2>1, <2>2 DEF IInv, ActiveExact
    <2>3. ASSUME NEW m \in active' PROVE \E q \in Ids : Runner(q)' /\ poller'[q].key = m
      <3>1. PICK q \in Ids : Runner(q) /\ poller[q].key = m
        BY <2>1 DEF IInv, ActiveExact
      <3> QED
        BY <1>2, <1>3, <3>1
    <2> QED
      BY <2>2, <2>3 DEF ActiveExact
  <1>7. Unique'
    BY <1>2, <1>3 DEF IInv, Unique
  <1>8. Awake'
    BY DEF Awake, Stirred, End
  <1> QED
    BY <1>4, <1>5, <1>6, <1>7, <1>8 DEF IInv

-----------------------------------------------------------------------------
\* Every step keeps the invariant.
LEMMA NextIInv == ASSUME IInv, [Next]_vars PROVE IInv'
  <1>1. CASE Next
    <2>1. ASSUME NEW m \in Mappings, NEW state \in {"Enabled", "Disabled"}, Create(m, state) \/ UpdateRead(m, state)
          PROVE  IInv'
      BY <2>1, CreateKeeps, UpdateReadKeeps
    <2>2. ASSUME NEW m \in Mappings,
                 UpdatePut(m) \/ Delete(m) \/ SetAlias(m) \/ Announce(m) \/ AnnounceEnv(m)
          PROVE  IInv'
      BY <2>2, UpdatePutKeeps, DeleteKeeps, SetAliasKeeps, AnnounceKeeps, AnnounceEnvKeeps
    <2>3. ASSUME LoopStep PROVE IInv'
      BY <2>3, LoopTakeKeeps, LoopReadKeeps, LoopBeginKeeps, LoopWakeKeeps DEF LoopStep
    <2>4. ASSUME NEW p \in Ids, PollerStep(p) PROVE IInv'
      BY <2>4, TakeWakeKeeps, TakeEnvKeeps, CheckKeeps, WorkKeeps, SettleKeeps, ReportKeeps, StoreKeeps,
         AnnounceOwnKeeps, PollerWakeKeeps, LeaveKeeps, EndKeeps DEF PollerStep
    <2> QED
      BY <1>1, <2>1, <2>2, <2>3, <2>4, SetServesKeeps DEF Next
  <1>2. CASE UNCHANGED vars
    BY <1>2 DEF vars, rows, IInv, TypeOK, KeysOK, FreeKeys, ActiveExact, Unique, Runner, Awake, Stirred
  <1> QED
    BY <1>1, <1>2

\* Pollers.active holds exactly the keys of the pollers that have not left,
\* and the loop that has dealt with a mapping without a poller is stirred.
THEOREM Invariance == Spec => []IInv
  <1>1. IInv /\ [Next]_vars => IInv'
    BY NextIInv
  <1> QED
    BY <1>1, InitIInv, PTL DEF Spec

\* The type invariant, for every set of mappings and goroutines.
THEOREM TypeCorrect == Spec => []TypeOK
  BY Invariance, PTL DEF IInv

\* A mapping never has two pollers, however often it is disabled, enabled,
\* deleted and put back by an update while its poller ends.
THEOREM PollersApart == Spec => []OnePoller
  <1>1. IInv => OnePoller
    <2> SUFFICES ASSUME IInv, NEW m \in Mappings PROVE Cardinality({p \in Ids : Runs(p, m)}) <= 1
      BY DEF OnePoller
    <2> DEFINE R == {p \in Ids : Runs(p, m)}
    <2>1. \A p \in R : Runner(p) /\ poller[p].key = m
      BY EventSourceAssumption DEF IInv, FreeKeys, Runs, Runner
    <2>2. \A p, q \in R : p = q
      BY <2>1 DEF IInv, Unique
    <2>3. CASE R = {}
      BY <2>3, FS_EmptySet
    <2>4. CASE R # {}
      <3>1. PICK x : R = {x}
        BY <2>2, <2>4
      <3>2. Cardinality({x}) = 1
        BY FS_Singleton
      <3> QED
        BY <3>1, <3>2
    <2> QED
      BY <2>3, <2>4
  <1> QED
    BY <1>1, Invariance, PTL

\* The loop does not sleep through an enabled mapping that has no poller: it
\* has its wake-up in hand, or an announcement, a poller's report or a
\* poller's end is still to come.
THEOREM LoopNeverSleepsThrough == Spec => []LoopAwake
  <1>1. IInv => LoopAwake
    BY DEF IInv, Awake, LoopAwake, LoopWaits, Stirred
  <1> QED
    BY <1>1, Invariance, PTL

-----------------------------------------------------------------------------
(***************************************************************************)
(* A refused poller hears of what clears its refusal.  BlockCleared, as    *)
(* documented, is violated by an alias that comes back; here is what the   *)
(* code does keep, which is also the safety part of Polled.                *)
(***************************************************************************)

\* What is left of BlockCleared: when what refused a waiting poller has
\* cleared, the poller was woken or an announcement that wakes it is to come,
\* unless what cleared was the alias of a qualified function, or what blocked
\* the poller was a call that failed for a reason of its own.
BlockHeard ==
    \A p \in Ids :
        LET m == poller[p].key IN
        (poller[p].pc = "wait" /\ mapping[m] = "Enabled" /\ LetsThrough(m)) =>
            \/ poller[p].woken \/ coming[m] > 0 \/ comingEnv[m] > 0
            \/ poller[p].missed /\ m \in Qualified
            \/ poller[p].failed

\* Stages of a poller that has taken its channels, and of one that was refused.
Took == {"check", "work", "settle", "report", "store", "announce", "wait"}

Refused(r) == r.pc = "wait" \/ (r.pc \in {"report", "store", "announce"} /\ r.then = "wait")

\* A poller r that does not hold the channels of what its mapping names took
\* them while there was no mapping, and hears of the one put since; and what
\* may have cleared the refusal of one that was refused is announced.  Before
\* it is refused it means to poll again.
Heard(r) ==
    /\ r.missed => r.key \in Qualified
    /\ r.pc \in {"take", "takeEnv", "check", "work", "settle"} => r.then = "take"
    /\ (r.pc \in Took /\ ~r.env /\ Present(r.key)) => (r.woken \/ coming[r.key] > 0)
    /\ (Refused(r) /\ mapping[r.key] = "Enabled" /\ LetsThrough(r.key)) =>
          (r.woken \/ coming[r.key] > 0 \/ comingEnv[r.key] > 0 \/ r.missed \/ r.failed)

AllHeard == \A p \in Ids : Heard(poller[p])

\* The rows a poller hears of.
heardOf == <<mapping, serves, alias, coming, comingEnv>>

\* AllHeard in the next state, one record at a time.
LEMMA HeardNext ==
    ASSUME \A p \in Ids : \E u : u = poller'[p] /\ Heard(u)'
    PROVE  AllHeard'
  <1> SUFFICES ASSUME NEW p \in Ids PROVE Heard(poller[p])'
    BY DEF AllHeard
  <1>1. PICK u : u = poller'[p] /\ Heard(u)'
    OBVIOUS
  <1> QED
    BY <1>1 DEF Heard, Refused, Present, LetsThrough

\* A step that writes none of these rows.
LEMMA HeardMoves ==
    ASSUME AllHeard, UNCHANGED heardOf, \A p \in Ids : poller'[p] = poller[p] \/ Heard(poller'[p])
    PROVE  AllHeard'
  <1> SUFFICES ASSUME NEW p \in Ids, NEW u, u = poller'[p] PROVE Heard(u)'
    BY HeardNext
  <1>1. Heard(u)
    BY DEF AllHeard
  <1> QED
    BY <1>1 DEF heardOf, Heard, Refused, Present, LetsThrough

\* One poller goes on.
LEMMA OneHeard ==
    ASSUME IInv, AllHeard, UNCHANGED heardOf, NEW p \in Ids, NEW r, Heard(r), poller' = [poller EXCEPT ![p] = r]
    PROVE  AllHeard'
  <1>1. poller \in [Ids -> PollerType]
    BY PollerFacts
  <1>2. \A q \in Ids : poller'[q] = poller[q] \/ poller'[q] = r
    BY <1>1
  <1> QED
    BY <1>2, HeardMoves

\* A poller that has not taken its channels, or has left, waits for nothing.
LEMMA AtHeard ==
    ASSUME NEW pc \in {"take", "takeEnv", "ending"}, NEW k
    PROVE  Heard(At(pc, k))
  <1> DEFINE r == At(pc, k)
  <1>1. r.pc = pc /\ r.missed = FALSE /\ r.then = "take"
    BY DEF At, Nobody
  <1> HIDE DEF r
  <1>2. Heard(r)
    BY <1>1 DEF Heard, Refused, Took
  <1> QED
    BY <1>2 DEF r

LEMMA NobodyHeard == Heard(Nobody)
  <1>1. Nobody.pc = "free" /\ Nobody.missed = FALSE
    BY DEF Nobody
  <1> QED
    BY <1>1 DEF Heard, Refused, Took

\* A poller that goes on from its report, or with its next poll.
LEMMA GoesOnHeard ==
    ASSUME NEW r \in PollerType, Heard(r), r.pc \in {"settle", "report", "store", "announce"}
    PROVE  Heard(GoesOn(r))
  <1>1. CASE r.then # "wait"
    BY <1>1, AtHeard DEF GoesOn
  <1>2. CASE r.then = "wait"
    <2> DEFINE t == [r EXCEPT !.pc = "wait", !.report = "none"]
    <2>1. GoesOn(r) = t
      BY <1>2 DEF GoesOn
    <2>2. /\ t.pc = "wait" /\ t.key = r.key /\ t.woken = r.woken /\ t.env = r.env /\ t.missed = r.missed
          /\ t.failed = r.failed
      BY DEF PollerType
    <2> HIDE DEF t
    <2>3. Refused(r) /\ r.pc \in Took
      BY <1>2 DEF Refused, Took, Heard
    <2>4. Heard(t)
      BY <2>2, <2>3 DEF Heard
    <2> QED
      BY <2>1, <2>4
  <1> QED
    BY <1>1, <1>2

\* A poller whose stage changes among those that hold the channels.
LEMMA StageHeard ==
    ASSUME NEW r \in PollerType, Heard(r), NEW t,
           t.key = r.key, t.woken = r.woken, t.env = r.env, t.missed = r.missed, t.failed = r.failed,
           t.pc \in Took => r.pc \in Took, t.pc \in {"check", "work", "settle"} => t.then = "take",
           t.pc \notin {"take", "takeEnv"},
           Refused(t) => (Refused(r) \/ ~LetsThrough(r.key))
    PROVE  Heard(t)
  BY DEF Heard

\* What a poller that is refused, or goes on, hears.
LEMMA ReportsHeard ==
    ASSUME IInv, AllHeard, NEW p \in Ids, NEW res \in Results, NEW then \in {"take", "wait"}, Reports(p, res, then),
           poller[p].pc \in {"work", "settle"}, then = "wait" => ~LetsThrough(poller[p].key), UNCHANGED heardOf
    PROVE  AllHeard'
  <1> DEFINE b == poller[p]
             t == [b EXCEPT !.pc = "report", !.report = res, !.then = then]
  <1>0. b \in PollerType /\ Heard(b)
    BY PollerFacts DEF AllHeard
  <1>1. poller' = [poller EXCEPT ![p] = t]
    BY DEF Reports
  <1>2. /\ t.pc = "report" /\ t.key = b.key /\ t.woken = b.woken /\ t.env = b.env /\ t.missed = b.missed
        /\ t.failed = b.failed /\ t.then = then
    BY <1>0 DEF PollerType
  <1>3. b.pc \in {"work", "settle"} /\ (then = "wait" => ~LetsThrough(b.key))
    OBVIOUS
  <1> HIDE DEF t, b
  <1>4. Heard(t)
    BY <1>0, <1>2, <1>3, StageHeard DEF Refused, Took
  <1> QED
    BY <1>1, <1>4, OneHeard

\* A poller whose call failed keeps the channels it holds.
LEMMA FailsHeard ==
    ASSUME NEW r \in PollerType, Heard(r), r.pc \in {"work", "settle"}
    PROVE  Heard(Fails(r))
  <1> DEFINE t == Fails(r)
  <1>1. /\ t.pc = "report" /\ t.key = r.key /\ t.woken = r.woken /\ t.env = r.env /\ t.missed = r.missed
        /\ t.failed
    BY FailsType
  <1> HIDE DEF t
  <1>2. Heard(t)
    BY <1>1 DEF Heard, Took
  <1> QED
    BY <1>2 DEF t

\* What a poller that writes or skips its report hears.
LEMMA ReportHeard == ASSUME IInv, AllHeard, NEW p \in Ids, Report(p) \/ Store(p) PROVE AllHeard'
  <1> DEFINE b == poller[p]
  <1>0. b \in PollerType /\ Heard(b) /\ b.pc \in {"report", "store"} /\ UNCHANGED heardOf
    BY PollerFacts DEF AllHeard, Report, Store, rows, heardOf
  <1>1. CASE MovesOn(p)
    <2>1. Heard(GoesOn(b)) /\ poller' = [poller EXCEPT ![p] = GoesOn(b)]
      BY <1>0, <1>1, GoesOnHeard DEF MovesOn
    <2> QED
      BY <1>0, <2>1, OneHeard
  <1>2. ASSUME NEW to \in {"store", "announce"}, Moves(p, to) PROVE AllHeard'
    <2> DEFINE t == [b EXCEPT !.pc = to]
    <2>1. poller' = [poller EXCEPT ![p] = t]
      BY <1>2 DEF Moves
    <2>2. /\ t.pc = to /\ t.key = b.key /\ t.woken = b.woken /\ t.env = b.env /\ t.missed = b.missed
          /\ t.failed = b.failed /\ t.then = b.then
      BY <1>0 DEF PollerType
    <2> HIDE DEF t, b
    <2>3. Heard(t)
      BY <1>0, <1>2, <2>2, StageHeard DEF Refused, Took
    <2> QED
      BY <1>0, <2>1, <2>3, OneHeard
  <1> QED
    BY <1>1, <1>2 DEF Report, Store

\* A poller takes its channels, polls again, leaves or ends.
LEMMA TakesHeard ==
    ASSUME IInv, AllHeard, NEW p \in Ids,
           TakeWake(p) \/ TakeEnv(p) \/ Check(p) \/ PollerWake(p) \/ Leave(p) \/ End(p)
    PROVE  AllHeard'
  <1> DEFINE b == poller[p]
  <1>0. b \in PollerType /\ Heard(b) /\ UNCHANGED heardOf
    BY PollerFacts DEF AllHeard, TakeWake, TakeEnv, Check, PollerWake, Leave, End, rows, heardOf
  <1>1. CASE TakeWake(p) \/ PollerWake(p) \/ Leave(p)
    <2>1. PICK pc \in {"take", "takeEnv", "ending"} : poller' = [poller EXCEPT ![p] = At(pc, b.key)]
      BY <1>1 DEF TakeWake, PollerWake, Leave
    <2>2. Heard(At(pc, b.key))
      BY AtHeard
    <2> QED
      BY <1>0, <2>1, <2>2, OneHeard
  <1>2. CASE End(p)
    BY <1>0, <1>2, OneHeard, NobodyHeard DEF End
  <1>3. CASE TakeEnv(p)
    <2> DEFINE t == [b EXCEPT !.pc = "check", !.env = Present(b.key)]
    <2>1. poller' = [poller EXCEPT ![p] = t] /\ b.pc = "takeEnv"
      BY <1>3 DEF TakeEnv
    <2>2. t.pc = "check" /\ t.key = b.key /\ t.missed = b.missed /\ t.then = b.then /\ t.env = Present(b.key)
      BY <1>0 DEF PollerType
    <2> HIDE DEF t, b
    <2>3. Heard(t)
      BY <1>0, <2>1, <2>2 DEF Heard, Refused
    <2> QED
      BY <1>0, <2>1, <2>3, OneHeard
  <1>4. CASE Check(p)
    <2>1. PICK to \in {"work", "leave"} : poller' = [poller EXCEPT ![p].pc = to]
      BY <1>4 DEF Check, Moves
    <2> DEFINE t == [b EXCEPT !.pc = to]
    <2>2. poller' = [poller EXCEPT ![p] = t] /\ b.pc = "check"
      BY <1>4, <2>1 DEF Check
    <2>3. /\ t.pc = to /\ t.key = b.key /\ t.woken = b.woken /\ t.env = b.env /\ t.missed = b.missed
          /\ t.failed = b.failed /\ t.then = b.then
      BY <1>0 DEF PollerType
    <2> HIDE DEF t, b
    <2>4. b.then = "take"
      BY <1>0, <2>2 DEF Heard
    <2>5. Heard(t)
      BY <1>0, <2>2, <2>3, <2>4, StageHeard DEF Refused, Took
    <2> QED
      BY <1>0, <2>2, <2>5, OneHeard
  <1> QED
    BY <1>1, <1>2, <1>3, <1>4

\* A closed channel is heard.
LEMMA WokenHeard ==
    ASSUME NEW r \in PollerType, Heard(r)
    PROVE  LET t == [r EXCEPT !.woken = TRUE]
           IN  /\ t \in PollerType /\ Heard(t) /\ t.pc = r.pc /\ t.key = r.key /\ t.then = r.then
               /\ t.env = r.env /\ t.missed = r.missed /\ t.failed = r.failed /\ t.woken
  <1> DEFINE t == [r EXCEPT !.woken = TRUE]
  <1>1. /\ t \in PollerType /\ t.pc = r.pc /\ t.key = r.key /\ t.then = r.then
        /\ t.env = r.env /\ t.missed = r.missed /\ t.failed = r.failed /\ t.woken
    BY DEF PollerType
  <1> HIDE DEF t
  <1>2. Heard(t)
    BY <1>1 DEF Heard, Refused
  <1> QED
    BY <1>1, <1>2 DEF t

\* A poll up to its first receive, whose announcement the poller hears too.
LEMMA WorkHeard == ASSUME IInv, AllHeard, NEW p \in Ids, Work(p) PROVE AllHeard'
  <1>0. /\ RowsOK /\ poller \in [Ids -> PollerType] /\ \A q \in Ids : Heard(poller[q])
        /\ poller[p] \in PollerType /\ poller[p].pc = "work" /\ UNCHANGED heardOf
    BY PollerFacts DEF AllHeard, Work, rows, heardOf
  <1> DEFINE w == QueueAnnounced(Queue[poller[p].key])
             t == [w[p] EXCEPT !.pc = "settle"]
  <1>1. w \in [Ids -> PollerType] /\ \A q \in Ids : Heard(w[q]) /\ w[q].pc = poller[q].pc
    <2>1. /\ w \in [Ids -> PollerType]
          /\ \A q \in Ids : w[q] = poller[q] \/ w[q] = [poller[q] EXCEPT !.woken = TRUE]
          /\ \A q \in Ids : w[q].pc = poller[q].pc
      BY ToldFacts
    <2> HIDE DEF w
    <2>2. ASSUME NEW q \in Ids PROVE Heard(w[q])
      <3>1. PICK r \in PollerType : r = poller[q] /\ Heard(r)
        BY <1>0
      <3>2. CASE w[q] = r
        BY <3>1, <3>2
      <3>3. CASE w[q] = [r EXCEPT !.woken = TRUE]
        BY <3>1, <3>3, WokenHeard
      <3> QED
        BY <2>1, <3>1, <3>2, <3>3
    <2> QED
      BY <2>1, <2>2
  <1>2. \/ poller' = [w EXCEPT ![p] = t]
        \/ poller' = [w EXCEPT ![p] = Fails(w[p])]
        \/ poller' = [poller EXCEPT ![p] = Fails(poller[p])]
        \/ Reports(p, "PROBLEM", "wait") /\ ~Receives(poller[p].key)
    BY DEF Work
  <1> HIDE DEF w
  <1>3. Heard(t)
    <2>1. PICK r \in PollerType : r = w[p] /\ Heard(r) /\ r.pc = "work"
      BY <1>0, <1>1
    <2>2. /\ t.pc = "settle" /\ t.key = r.key /\ t.woken = r.woken /\ t.env = r.env /\ t.missed = r.missed
          /\ t.failed = r.failed /\ t.then = r.then
      BY <2>1 DEF PollerType
    <2> HIDE DEF t
    <2>3. r.then = "take"
      BY <2>1 DEF Heard
    <2> QED
      BY <2>1, <2>2, <2>3, StageHeard DEF Refused, Took
  <1> HIDE DEF t
  <1>4. Heard(Fails(w[p])) /\ Heard(Fails(poller[p]))
    BY <1>0, <1>1, FailsHeard
  <1>5. ASSUME NEW r, Heard(r), poller' = [w EXCEPT ![p] = r] PROVE AllHeard'
    <2>1. \A q \in Ids : Heard(poller'[q])
      BY <1>1, <1>5
    <2> QED
      BY <1>0, <2>1, HeardMoves
  <1>6. CASE poller' = [poller EXCEPT ![p] = Fails(poller[p])]
    BY <1>0, <1>4, <1>6, OneHeard
  <1>7. CASE Reports(p, "PROBLEM", "wait") /\ ~Receives(poller[p].key)
    <2>1. ~LetsThrough(poller[p].key)
      BY <1>7 DEF Receives, LetsThrough
    <2> QED
      BY <1>0, <1>7, <2>1, ReportsHeard DEF Results
  <1> QED
    BY <1>2, <1>3, <1>4, <1>5, <1>6, <1>7

\* The rest of a poll.
LEMMA SettleHeard == ASSUME IInv, AllHeard, NEW p \in Ids, Settle(p) PROVE AllHeard'
  <1> DEFINE b == poller[p]
  <1>0. b \in PollerType /\ Heard(b) /\ b.pc = "settle" /\ UNCHANGED heardOf
    BY PollerFacts DEF AllHeard, Settle, rows, heardOf
  <1>1. CASE MovesOn(p)
    <2>1. Heard(GoesOn(b)) /\ poller' = [poller EXCEPT ![p] = GoesOn(b)]
      BY <1>0, <1>1, GoesOnHeard DEF MovesOn
    <2> QED
      BY <1>0, <2>1, OneHeard
  <1>2. CASE Reports(p, "OK", "take") \/ Reports(p, "PROBLEM", "take")
    BY <1>0, <1>2, ReportsHeard DEF Results
  <1>3. CASE serves[b.key] # "all" /\ Reports(p, "PROBLEM", "wait")
    <2>1. ~LetsThrough(b.key)
      BY <1>3 DEF LetsThrough
    <2> QED
      BY <1>0, <1>3, <2>1, ReportsHeard DEF Results
  <1>4. CASE poller' = [poller EXCEPT ![p] = Fails(b)]
    <2>1. Heard(Fails(b))
      BY <1>0, FailsHeard
    <2> QED
      BY <1>0, <1>4, <2>1, OneHeard
  <1> QED
    BY <1>1, <1>2, <1>3, <1>4 DEF Settle

\* The poller announces its own report, to the others and to itself.
LEMMA AnnounceOwnHeard == ASSUME IInv, AllHeard, NEW p \in Ids, AnnounceOwn(p) PROVE AllHeard'
  <1>0. /\ poller \in [Ids -> PollerType] /\ \A q \in Ids : Heard(poller[q])
        /\ poller[p].pc = "announce" /\ UNCHANGED heardOf
    BY PollerFacts DEF AllHeard, AnnounceOwn, rows, heardOf
  <1> DEFINE w == Woken(poller[p].key)
  <1>1. w \in [Ids -> PollerType] /\ \A q \in Ids : Heard(w[q]) /\ w[q].pc = poller[q].pc
    <2>1. /\ w = [q \in Ids |-> w[q]]
          /\ \A q \in Ids : w[q] = poller[q] \/ w[q] = [poller[q] EXCEPT !.woken = TRUE]
      BY DEF Woken
    <2> HIDE DEF w
    <2>2. ASSUME NEW q \in Ids
          PROVE  w[q] \in PollerType /\ Heard(w[q]) /\ w[q].pc = poller[q].pc
      <3>1. PICK r \in PollerType : r = poller[q] /\ Heard(r)
        BY <1>0
      <3>2. CASE w[q] = r
        BY <3>1, <3>2
      <3>3. CASE w[q] = [r EXCEPT !.woken = TRUE]
        <4>1. w[q] \in PollerType /\ Heard(w[q]) /\ w[q].pc = r.pc
          BY <3>1, <3>3, WokenHeard
        <4> QED
          BY <3>1, <4>1
      <3> QED
        BY <2>1, <3>1, <3>2, <3>3
    <2> QED
      BY <2>1, <2>2
  <1>2. poller' = [w EXCEPT ![p] = GoesOn(w[p])]
    BY DEF AnnounceOwn
  <1> HIDE DEF w
  <1>3. Heard(GoesOn(w[p]))
    BY <1>0, <1>1, GoesOnHeard
  <1>4. \A q \in Ids : Heard(poller'[q])
    BY <1>1, <1>2, <1>3
  <1> QED
    BY <1>0, <1>4, HeardMoves

\* The loop gives a mapping its poller.
LEMMA LoopHeard == ASSUME IInv, AllHeard, LoopStep PROVE AllHeard'
  <1>1. UNCHANGED heardOf
    BY DEF LoopStep, LoopTake, LoopRead, LoopBegin, LoopWake, rows, heardOf
  <1>2. CASE poller' = poller
    BY <1>1, <1>2, HeardMoves
  <1>3. ASSUME NEW m \in Mappings, Begun(m) PROVE AllHeard'
    <2> DEFINE free == {p \in Ids : poller[p].pc = "free"}
               f == CHOOSE p \in free : TRUE
    <2>1. f \in free /\ poller' = [poller EXCEPT ![f] = At("take", m)]
      BY <1>3 DEF Begun
    <2>2. PICK p \in Ids : p = f
      BY <2>1
    <2>3. poller' = [poller EXCEPT ![p] = At("take", m)]
      BY <2>1, <2>2
    <2>4. Heard(At("take", m))
      BY AtHeard
    <2> QED
      BY <1>1, <2>3, <2>4, OneHeard
  <1> QED
    BY <1>2, <1>3 DEF LoopStep, LoopTake, LoopRead, LoopBegin, LoopWake

\* A write of a row is announced later, and counts as heard until then.
LEMMA RequestHeard ==
    ASSUME IInv, AllHeard, NEW m \in Mappings,
           \/ \E state \in {"Enabled", "Disabled"} : Create(m, state) \/ UpdateRead(m, state)
           \/ UpdatePut(m) \/ Delete(m)
           \/ \E M \in SUBSET Mappings, as \in Serving : SetServes(M, as)
    PROVE  AllHeard'
  <1>0. RowsOK /\ poller' = poller /\ alias' = alias
    BY TypeParts DEF IInv, Create, UpdateRead, UpdatePut, Delete, SetServes, runtimeVars
  <1>1. \A k \in Mappings : /\ coming[k] > 0 => coming'[k] > 0
                            /\ comingEnv[k] > 0 => comingEnv'[k] > 0
                            /\ mapping'[k] = mapping[k] \/ coming'[k] > 0
                            /\ serves'[k] = serves[k] \/ comingEnv'[k] > 0
    BY <1>0 DEF RowsOK, Create, UpdateRead, UpdatePut, Delete, SetServes
  <1> SUFFICES ASSUME NEW p \in Ids, NEW u, u = poller'[p] PROVE Heard(u)'
    BY HeardNext
  <1> DEFINE r == poller[p]
  <1>2. u = r /\ Heard(r) /\ (r.pc # "free" => r.key \in Mappings)
    BY <1>0, PollerFacts DEF AllHeard
  <1> HIDE DEF r
  <1>3. CASE r.pc \notin Took
    BY <1>2, <1>3 DEF Heard, Refused, Took
  <1>4. CASE r.pc \in Took
    <2>1. r.key \in Mappings
      BY <1>2, <1>4 DEF Took
    <2> DEFINE k == r.key
    <2>2. /\ coming[k] > 0 => coming'[k] > 0
          /\ comingEnv[k] > 0 => comingEnv'[k] > 0
          /\ mapping'[k] = mapping[k] \/ coming'[k] > 0
          /\ serves'[k] = serves[k] \/ comingEnv'[k] > 0
      BY <1>1, <2>1
    <2> QED
      BY <1>0, <1>2, <2>2 DEF Heard, Refused, Present, LetsThrough
  <1> QED
    BY <1>3, <1>4

\* An alias comes back unannounced, and the pollers that hold channels missed
\* it; one that goes clears no refusal.
LEMMA AliasHeard == ASSUME IInv, AllHeard, NEW m \in Mappings, SetAlias(m) PROVE AllHeard'
  <1>0. /\ RowsOK /\ poller \in [Ids -> PollerType] /\ m \in Qualified
        /\ UNCHANGED <<mapping, serves, coming, comingEnv>>
    BY TypeParts DEF IInv, SetAlias
  <1>1. alias'[m] \in BOOLEAN /\ \A k \in Mappings : k # m => alias'[k] = alias[k]
    BY <1>0 DEF SetAlias, RowsOK
  <1> SUFFICES ASSUME NEW p \in Ids, NEW u, u = poller'[p] PROVE Heard(u)'
    BY HeardNext
  <1> DEFINE r == poller[p]
             t == [r EXCEPT !.missed = TRUE]
             marked == r.key = m /\ Holds(p) /\ alias'[m]
  <1>2. u = IF marked THEN t ELSE r
    BY DEF SetAlias
  <1>3. r \in PollerType /\ Heard(r) /\ (r.pc # "free" => r.key \in Mappings)
    BY PollerFacts DEF AllHeard
  <1>4. /\ t.pc = r.pc /\ t.key = r.key /\ t.then = r.then /\ t.env = r.env /\ t.woken = r.woken /\ t.missed
        /\ t.failed = r.failed
    BY <1>3 DEF PollerType
  <1>5. r.pc \in Took => Holds(p)
    BY DEF Took, Holds
  <1> HIDE DEF t
  <1>6. CASE marked
    <2>1. u = t /\ r.key = m
      BY <1>2, <1>6
    <2> HIDE DEF r, marked
    <2> QED
      BY <1>0, <1>3, <1>4, <2>1 DEF Heard, Refused, Present
  <1>7. CASE ~marked
    <2>1. u = r /\ (r.pc \in Took => (r.key # m \/ ~alias'[m]))
      BY <1>2, <1>5, <1>7
    <2> HIDE DEF r, marked
    <2>2. Refused(r) => r.pc \in Took
      BY DEF Refused, Took
    <2>3. (Refused(r) /\ LetsThrough(u.key)') => LetsThrough(r.key)
      <3>1. r.pc \in Took => r.key \in Mappings
        BY <1>3 DEF Took
      <3> QED
        BY <1>0, <1>1, <2>1, <2>2, <3>1 DEF LetsThrough
    <2> QED
      BY <1>0, <1>3, <2>1, <2>3 DEF Heard, Refused, Present
  <1> QED
    BY <1>6, <1>7

\* An announcement wakes the pollers that hold the channel.
LEMMA AnnounceHeard ==
    ASSUME IInv, AllHeard, NEW m \in Mappings, Announce(m) \/ AnnounceEnv(m)
    PROVE  AllHeard'
  <1>0. RowsOK /\ poller \in [Ids -> PollerType] /\ UNCHANGED <<mapping, serves, alias>>
    BY TypeParts DEF IInv, Announce, AnnounceEnv
  <1> SUFFICES ASSUME NEW p \in Ids, NEW u, u = poller'[p] PROVE Heard(u)'
    BY HeardNext
  <1> DEFINE r == poller[p]
             t == [r EXCEPT !.woken = TRUE]
             k == r.key
  <1>1. r \in PollerType /\ Heard(r) /\ (r.pc # "free" => r.key \in Mappings)
    BY PollerFacts DEF AllHeard
  <1>2. Heard(t) /\ t.pc = r.pc /\ t.key = r.key /\ t.then = r.then /\ t.env = r.env /\ t.missed = r.missed /\ t.woken
    BY <1>1, WokenHeard
  <1>3. r.pc \in Took => Holds(p)
    BY DEF Took, Holds
  <1>4. Refused(r) => r.pc \in Took
    BY DEF Refused, Took
  <1>5. r.pc \in Took => r.key \in Mappings
    BY <1>1 DEF Took
  <1>6. \A q \in Mappings : q # m => coming'[q] = coming[q] /\ comingEnv'[q] = comingEnv[q]
    BY <1>0 DEF Announce, AnnounceEnv, RowsOK
  <1>7. CASE u = t
    <2> HIDE DEF t, r
    <2> QED
      BY <1>0, <1>2, <1>7 DEF Heard, Refused, Present
  <1>8. CASE u = r /\ r.pc \notin Took
    <2> HIDE DEF r
    <2> QED
      BY <1>1, <1>4, <1>8 DEF Heard
  <1>9. CASE u = r /\ r.pc \in Took /\ k # m
    <2>1. coming'[k] = coming[k] /\ comingEnv'[k] = comingEnv[k]
      BY <1>5, <1>6, <1>9
    <2> HIDE DEF r
    <2> QED
      BY <1>0, <1>1, <1>9, <2>1 DEF Heard, Refused, Present, LetsThrough
  <1>10. CASE Announce(m) /\ r.pc \in Took /\ k = m
    <2>1. u = t
      BY <1>3, <1>10 DEF Announce, Woken
    <2> QED
      BY <1>7, <2>1
  <1>11. CASE AnnounceEnv(m) /\ r.pc \in Took /\ k = m
    <2>1. CASE r.env
      BY <1>7, <1>11, <2>1 DEF AnnounceEnv
    <2>2. CASE ~r.env
      <3>1. u = r /\ coming' = coming
        BY <1>11, <2>2 DEF AnnounceEnv
      <3>2. Present(k) => (r.woken \/ coming[k] > 0)
        BY <1>1, <1>11, <2>2 DEF Heard
      <3>3. mapping[k] = "Enabled" => Present(k)
        BY DEF Present
      <3>4. Present(u.key)' <=> Present(u.key)
        BY <1>0 DEF Present
      <3>5. r.missed => r.key \in Qualified
        BY <1>1 DEF Heard
      <3>6. r.pc \in {"take", "takeEnv", "check", "work", "settle"} => r.then = "take"
        BY <1>1 DEF Heard
      <3> HIDE DEF r
      <3> QED
        BY <1>0, <3>1, <3>2, <3>3, <3>4, <3>5, <3>6 DEF Heard, Refused
    <2> QED
      BY <2>1, <2>2
  <1>12. u = r \/ u = t
    BY DEF Announce, AnnounceEnv, Woken
  <1> QED
    BY <1>7, <1>8, <1>9, <1>10, <1>11, <1>12

LEMMA NextHeard == ASSUME IInv, AllHeard, [Next]_vars PROVE AllHeard'
  <1>1. ASSUME UNCHANGED vars PROVE AllHeard'
    BY <1>1, HeardMoves DEF vars, rows, heardOf
  <1>2. ASSUME NEW p \in Ids, PollerStep(p) PROVE AllHeard'
    BY <1>2, WorkHeard, SettleHeard, ReportHeard, TakesHeard, AnnounceOwnHeard DEF PollerStep
  <1>3. ASSUME NEW M \in SUBSET Mappings, NEW as \in Serving, SetServes(M, as), M # {} PROVE AllHeard'
    BY <1>3, RequestHeard
  <1> QED
    BY <1>1, <1>2, <1>3, RequestHeard, AliasHeard, AnnounceHeard, LoopHeard DEF Next

\* A poller that waits although nothing refuses it any more was woken, or an
\* announcement that wakes it is to come, if a refusal is what it waits for;
\* the one thing it may have missed is the alias of a qualified function, so
\* for a function that is not named with an alias the documented BlockCleared
\* holds.
THEOREM BlockIsHeard == Spec => []BlockHeard
  <1>1. Init => AllHeard
    BY NobodyHeard DEF Init, AllHeard
  <1>2. IInv /\ AllHeard /\ [Next]_vars => IInv' /\ AllHeard'
    BY NextIInv, NextHeard
  <1>3. IInv /\ AllHeard => BlockHeard
    BY DEF AllHeard, Heard, Refused, BlockHeard
  <1> QED
    BY <1>1, <1>2, <1>3, InitIInv, PTL DEF Spec
=============================================================================
