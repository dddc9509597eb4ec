--------------------------- MODULE FuncPoolProofs ---------------------------
(***************************************************************************)
(* TLAPS proofs about FuncPool, for every set of callers, pools, caps and  *)
(* environments: type correctness, that the limits' counters are exact,    *)
(* that no environment stops under an invocation, that none leaks, that an *)
(* idle one is watched and that provisioned ones are kept; and that a      *)
(* retired pool only empties.                                              *)
(***************************************************************************)
EXTENDS FuncPool, FiniteSetTheorems, WellFoundedInduction, TLAPS

-----------------------------------------------------------------------------
(***************************************************************************)
(* The inductive invariant.  Its parts are stated of slots S and calls K,  *)
(* because Acquire first stops the expired environments and then works on  *)
(* what is left.                                                           *)
(***************************************************************************)

\* What holds of each slot of a pool with options o.  The last conjunct is
\* what a caller that gives up joining can break.
SlotOK(r, o) ==
    /\ r \in Slot
    /\ r.state = "unused" => r = Unused
    /\ r.state = "starting" => (r.env = "none" /\ (r.kind = "Provisioned" => r.leases = 0))
    /\ r.env = "stopped" => (r.state = "gone" /\ r.leases = 0)
    /\ r.err => (r.state = "gone" /\ r.env = "none")
    /\ r.expired => o.expiring
    /\ ~o.cancellable =>
          /\ (r.state = "gone" /\ r.leases = 0) => r.env \in {"none", "stopped"}
          /\ (r.state = "ready" /\ r.leases = 0) => r.park = "open"

\* What a call says of its slot: only the one that starts an environment
\* works on one that is neither ready nor gone, but for those that join it.
CallOK(k, S) ==
    /\ k \in Call
    /\ k.pc = "idle" => k = NoCall
    /\ k.pc # "idle" => (k.slot \in Ids /\ S[k.slot].state # "unused")
    /\ k.pc \in {"starting", "joining"} => S[k.slot].kind = "OnDemand"
    /\ k.pc = "starting" => S[k.slot].state = "starting"
    /\ k.pc = "leased" => (S[k.slot].state \in {"ready", "gone"} /\ ~S[k.slot].err)

\* One call starts an environment.
OneStarter(K) ==
    \A c, d \in Callers :
        (K[c].pc = "starting" /\ K[d].pc = "starting" /\ K[c].slot = K[d].slot) => c = d

Users(K, s) == {c \in Callers : K[c].pc # "idle" /\ K[c].slot = s}

\* The leases of a slot are the calls on it.
Leases(S, K) == \A s \in Ids : S[s].leases = Cardinality(Users(K, s))

World(S, K, o) ==
    /\ S \in [Ids -> Slot] /\ K \in [Callers -> Call]
    /\ \A s \in Ids : SlotOK(S[s], o)
    /\ \A c \in Callers : CallOK(K[c], S)
    /\ OneStarter(K) /\ Leases(S, K)

Holders(K, l) == {c \in Callers : K[c].holder = l}

\* inUse counts the calls that hold a limit.
Counted(K, used) == used \in [Limits -> Nat] /\ \A l \in Limits : used[l] = Cardinality(Holders(K, l))

Prov == [requested : Nat, holder : Limits \cup {Nobody}, reserved : Nat, err : BOOLEAN]

\* reserved holds the pool's one reservation.
Reserved(p, res) ==
    /\ p \in Prov /\ res \in [Limits -> Nat]
    /\ \A l \in Limits : res[l] = IF p.holder = l THEN p.reserved ELSE 0

ProvisionedIdle(S) == {s \in Idle(S) : S[s].kind = "Provisioned"}

\* The idle provisioned environments are never too many, and all of them,
\* with those that expired and were not replaced, never too few unless topUp
\* has yet to run.
Provisioned(S, p, n, gone, u) ==
    /\ u \in SUBSET Ids
    /\ ~gone => /\ Cardinality(ProvisionedIdle(S)) <= p.requested
                /\ (~p.err /\ n = 0) => Cardinality(ProvisionedIn(S) \cup u) >= p.requested

Rest ==
    /\ max \in [Limits -> Int] /\ topUps \in Nat /\ retired \in BOOLEAN /\ panicked \in BOOLEAN
    /\ opt \in Pools

IInv ==
    /\ World(slots, calls, opt) /\ Counted(calls, inUse) /\ Reserved(prov, reserved)
    /\ Provisioned(slots, prov, topUps, retired, unreplaced)
    /\ Rest
    /\ ~opt.cancellable => ~panicked

-----------------------------------------------------------------------------
(* Sets of slots and of callers *)

\* Sets of slots are finite sets of numbers.
LEMMA SlotSets ==
  ASSUME NEW X \in SUBSET Ids
  PROVE  X \in SUBSET Nat /\ IsFiniteSet(X) /\ Cardinality(X) \in Nat
<1>1. IsFiniteSet(Ids)
  BY PoolAssumption, FS_Interval DEF Ids
<1>2. X \in SUBSET Nat
  BY PoolAssumption DEF Ids
<1> QED
  BY <1>1, <1>2, FS_Subset, FS_CardinalityType

\* A set of slots within another is no larger.
LEMMA SlotSubset ==
  ASSUME NEW X \in SUBSET Ids, NEW Y \in SUBSET X
  PROVE  Cardinality(Y) <= Cardinality(X)
  BY SlotSets, FS_Subset

\* A set of slots without one of them.
LEMMA SlotLess ==
  ASSUME NEW X \in SUBSET Ids, NEW s
  PROVE  Cardinality(X \ {s}) >= Cardinality(X) - 1
<1>1. IsFiniteSet(X) /\ Cardinality(X) \in Nat /\ Cardinality(X \ {s}) \in Nat
  BY SlotSets
<1>2. CASE s \in X
  <2>1. Cardinality(X \ {s}) = Cardinality(X) - 1
    BY <1>1, <1>2, FS_RemoveElement
  <2> QED
    BY <1>1, <2>1
<1>3. CASE s \notin X
  <2>1. X \ {s} = X
    BY <1>3
  <2>2. Cardinality(X \ {s}) = Cardinality(X)
    BY <2>1
  <2> QED
    BY <1>1, <2>2
<1> QED
  BY <1>2, <1>3

\* Disjoint sets of slots add up.
LEMMA SlotDisjoint ==
  ASSUME NEW X \in SUBSET Ids, NEW Y \in SUBSET Ids, X \cap Y = {}
  PROVE  Cardinality(X \cup Y) = Cardinality(X) + Cardinality(Y)
<1>1. IsFiniteSet(X) /\ IsFiniteSet(Y) /\ Cardinality(X) \in Nat /\ Cardinality(Y) \in Nat
  BY SlotSets
<1>2. Cardinality(X \cup Y) = Cardinality(X) + Cardinality(Y) - Cardinality(X \cap Y)
  BY <1>1, FS_Union
<1>3. Cardinality(X \cap Y) = 0
  BY FS_EmptySet
<1> QED
  BY <1>1, <1>2, <1>3

\* A nonempty set of slots has a first member, and Least finds it.
LEMMA LeastSlot ==
  ASSUME NEW X \in SUBSET Ids, X # {}
  PROVE  Least(X) \in X /\ \A t \in X : Least(X) <= t
<1>0. X \in SUBSET Nat
  BY SlotSets
<1>1. PICK x \in X : \A y \in X : ~(<<y, x>> \in OpToRel(<, Nat))
  BY <1>0, NatLessThanWellFounded, WFMin
<1>2. \A y \in X : ~(y < x)
  BY <1>0, <1>1 DEF OpToRel
<1>3. \A y \in X : x <= y
  BY <1>0, <1>2
<1> QED
  BY <1>3 DEF Least

\* It has a last member too.
LEMMA LastSlot ==
  ASSUME NEW X \in SUBSET Ids, X # {}
  PROVE  \E x \in X : \A t \in X : t <= x
<1> DEFINE R == {MaxSlots - i : i \in X}
<1>0. MaxSlots \in Nat /\ \A i \in X : i \in Nat /\ i <= MaxSlots /\ MaxSlots - i \in Nat
  BY PoolAssumption DEF Ids
<1>1. R \in SUBSET Nat /\ R # {}
  BY <1>0
<1>2. PICK x \in R : \A y \in R : ~(<<y, x>> \in OpToRel(<, Nat))
  BY <1>1, NatLessThanWellFounded, WFMin
<1>3. \A y \in R : ~(y < x)
  BY <1>1, <1>2 DEF OpToRel
<1>4. PICK i \in X : x = MaxSlots - i
  OBVIOUS
<1>5. ASSUME NEW j \in X PROVE j <= i
  <2>1. ~(MaxSlots - j < MaxSlots - i)
    BY <1>3, <1>4
  <2> QED
    BY <1>0, <2>1
<1> QED
  BY <1>5

\* Sets of callers are finite, and grow and shrink by one.
LEMMA CallerSets ==
  ASSUME NEW X \in SUBSET Callers
  PROVE  IsFiniteSet(X) /\ Cardinality(X) \in Nat
  BY PoolAssumption, FS_Subset, FS_CardinalityType

\* Adding a caller.
LEMMA CallerIn ==
  ASSUME NEW X \in SUBSET Callers, NEW c \in Callers, c \notin X
  PROVE  Cardinality(X \cup {c}) = Cardinality(X) + 1
  BY CallerSets, FS_AddElement

\* Removing one.
LEMMA CallerOut ==
  ASSUME NEW X \in SUBSET Callers, NEW c \in X
  PROVE  Cardinality(X \ {c}) = Cardinality(X) - 1 /\ Cardinality(X) > 0
<1>1. IsFiniteSet(X) /\ Cardinality(X) \in Nat /\ Cardinality(X \ {c}) \in Nat
  BY CallerSets
<1>2. Cardinality(X \ {c}) = Cardinality(X) - 1
  BY <1>1, FS_RemoveElement
<1> QED
  BY <1>1, <1>2

-----------------------------------------------------------------------------
(* Calls enter and leave *)

\* No call enters or leaves.
LEMMA LeasesKept ==
  ASSUME NEW S, NEW K, Leases(S, K), NEW T, NEW L,
         \A s \in Ids : T[s].leases = S[s].leases,
         \A c \in Callers : (L[c].pc = "idle" <=> K[c].pc = "idle") /\ L[c].slot = K[c].slot
  PROVE  Leases(T, L)
<1>1. \A s \in Ids : Users(L, s) = Users(K, s)
  BY DEF Users
<1> QED
  BY <1>1 DEF Leases

\* A call enters slot s.
LEMMA LeasesEntered ==
  ASSUME NEW S, NEW K, Leases(S, K), NEW T, NEW L, NEW c \in Callers, NEW s \in Ids,
         K[c].pc = "idle", L[c].pc # "idle", L[c].slot = s,
         \A d \in Callers : d # c => L[d] = K[d],
         T[s].leases = S[s].leases + 1, \A t \in Ids : t # s => T[t].leases = S[t].leases
  PROVE  Leases(T, L)
<1>1. Users(L, s) = Users(K, s) \cup {c} /\ c \notin Users(K, s) /\ Users(K, s) \in SUBSET Callers
  BY DEF Users
<1>2. Cardinality(Users(L, s)) = Cardinality(Users(K, s)) + 1
  BY <1>1, CallerIn
<1>3. \A t \in Ids : t # s => Users(L, t) = Users(K, t)
  BY DEF Users
<1> QED
  BY <1>2, <1>3 DEF Leases

\* The call c leaves its slot.
LEMMA LeasesLeft ==
  ASSUME NEW S, NEW K, Leases(S, K), NEW T, NEW L, NEW c \in Callers, NEW s \in Ids,
         K[c].pc # "idle", K[c].slot = s, L[c].pc = "idle",
         \A d \in Callers : d # c => L[d] = K[d],
         T[s].leases = S[s].leases - 1, \A t \in Ids : t # s => T[t].leases = S[t].leases
  PROVE  Leases(T, L)
<1>1. Users(L, s) = Users(K, s) \ {c} /\ c \in Users(K, s) /\ Users(K, s) \in SUBSET Callers
  BY DEF Users
<1>2. Cardinality(Users(L, s)) = Cardinality(Users(K, s)) - 1
  BY <1>1, CallerOut
<1>3. \A t \in Ids : t # s => Users(L, t) = Users(K, t)
  BY DEF Users
<1> QED
  BY <1>2, <1>3 DEF Leases

\* A slot with a call on it has a lease, and one without has none.
LEMMA LeaseUsed ==
  ASSUME NEW S, NEW K, Leases(S, K), NEW s \in Ids
  PROVE  /\ S[s].leases \in Nat
         /\ \A c \in Callers : (K[c].pc # "idle" /\ K[c].slot = s) => S[s].leases > 0
         /\ S[s].leases = 0 <=> Users(K, s) = {}
<1>1. Users(K, s) \in SUBSET Callers
  BY DEF Users
<1>2. IsFiniteSet(Users(K, s)) /\ Cardinality(Users(K, s)) \in Nat
  BY <1>1, CallerSets
<1>3. S[s].leases = Cardinality(Users(K, s))
  BY DEF Leases
<1>4. Cardinality(Users(K, s)) = 0 <=> Users(K, s) = {}
  BY <1>2, FS_EmptySet
<1>5. ASSUME NEW c \in Callers, K[c].pc # "idle", K[c].slot = s PROVE Users(K, s) # {}
  BY <1>5 DEF Users
<1> QED
  BY <1>2, <1>3, <1>4, <1>5

\* Taking a unit of the limit for the call c.
LEMMA CountTaken ==
  ASSUME NEW K, NEW L, Counted(K, inUse), NEW c \in Callers, K[c].holder = Nobody, L[c].holder = Owner,
         \A d \in Callers : d # c => L[d] = K[d]
  PROVE  Counted(L, Take)
<1>0. Owner \in Limits \cup {Nobody} /\ Nobody \notin Limits
  BY DEF Owner, Limits, Nobody
<1>1. inUse \in [Limits -> Nat] /\ \A l \in Limits : inUse[l] = Cardinality(Holders(K, l))
  BY DEF Counted
<1>2. CASE Owner = Nobody
  <2>1. \A l \in Limits : Holders(L, l) = Holders(K, l)
    BY <1>0, <1>2 DEF Holders
  <2> QED
    BY <1>1, <1>2, <2>1 DEF Counted, Take
<1>3. CASE Owner # Nobody
  <2>0. Take = [inUse EXCEPT ![Owner] = @ + 1]
    BY <1>3 DEF Take
  <2>1. Holders(L, Owner) = Holders(K, Owner) \cup {c} /\ c \notin Holders(K, Owner)
        /\ Holders(K, Owner) \in SUBSET Callers
    BY <1>0, <1>3 DEF Holders
  <2>2. Cardinality(Holders(L, Owner)) = Cardinality(Holders(K, Owner)) + 1
    BY <2>1, CallerIn
  <2>3. \A l \in Limits : l # Owner => Holders(L, l) = Holders(K, l)
    BY <1>0 DEF Holders
  <2> QED
    BY <1>0, <1>1, <1>3, <2>0, <2>2, <2>3 DEF Counted
<1> QED
  BY <1>2, <1>3

\* Returning the unit the call c holds.
LEMMA CountFreed ==
  ASSUME NEW K, NEW L, Counted(K, inUse), NEW c \in Callers, K[c].holder \in Limits \cup {Nobody},
         L[c].holder = Nobody, \A d \in Callers : d # c => L[d] = K[d]
  PROVE  Counted(L, Free(K[c].holder))
<1> DEFINE h == K[c].holder
<1>0. Nobody \notin Limits
  BY DEF Limits, Nobody
<1>1. inUse \in [Limits -> Nat] /\ \A l \in Limits : inUse[l] = Cardinality(Holders(K, l))
  BY DEF Counted
<1>2. CASE h = Nobody
  <2>1. \A l \in Limits : Holders(L, l) = Holders(K, l)
    BY <1>0, <1>2 DEF Holders
  <2> QED
    BY <1>1, <1>2, <2>1 DEF Counted, Free
<1>3. CASE h # Nobody
  <2>0. Free(h) = [inUse EXCEPT ![h] = @ - 1] /\ h \in Limits
    BY <1>3 DEF Free
  <2>1. Holders(L, h) = Holders(K, h) \ {c} /\ c \in Holders(K, h) /\ Holders(K, h) \in SUBSET Callers
    BY <1>0, <1>3 DEF Holders
  <2>3. \A l \in Limits : l # h => Holders(L, l) = Holders(K, l)
    BY <1>0 DEF Holders
  <2> HIDE DEF h
  <2>2. /\ Cardinality(Holders(L, h)) = Cardinality(Holders(K, h)) - 1
        /\ Cardinality(Holders(K, h)) > 0 /\ Cardinality(Holders(K, h)) \in Nat
    BY <2>1, CallerOut, CallerSets
  <2>4. Counted(L, Free(h))
    BY <1>0, <1>1, <2>0, <2>2, <2>3 DEF Counted
  <2> QED
    BY <2>4 DEF h
<1> QED
  BY <1>2, <1>3

\* No call takes or returns a unit.
LEMMA CountKept ==
  ASSUME NEW K, NEW L, NEW used, Counted(K, used), \A c \in Callers : L[c].holder = K[c].holder
  PROVE  Counted(L, used)
<1>1. \A l \in Limits : Holders(L, l) = Holders(K, l)
  BY DEF Holders
<1> QED
  BY <1>1 DEF Counted

-----------------------------------------------------------------------------
(* Slots change *)

\* An idle environment leaves the pool.
LEMMA RetiredSlot ==
  ASSUME NEW r, NEW o, SlotOK(r, o), r.state = "ready", r.leases = 0
  PROVE  SlotOK([r EXCEPT !.state = "gone", !.park = "closed", !.env = "stopped"], o)
<1> DEFINE t == [r EXCEPT !.state = "gone", !.park = "closed", !.env = "stopped"]
<1>1. /\ r \in Slot /\ r = [kind |-> r.kind, state |-> r.state, leases |-> r.leases, park |-> r.park,
                            env |-> r.env, err |-> r.err, expired |-> r.expired]
  BY DEF SlotOK, Slot
<1>2. /\ t \in Slot /\ t.leases = 0 /\ t.state = "gone" /\ t.env = "stopped" /\ t.err = r.err
      /\ t.expired = r.expired
  BY <1>1 DEF Slot
<1>3. ~r.err
  BY DEF SlotOK
<1> HIDE DEF t
<1>4. SlotOK(t, o)
  BY <1>2, <1>3 DEF SlotOK
<1> QED
  BY <1>2, <1>4 DEF t

\* Idle environments leave the pool.
LEMMA RetiredWorld ==
  ASSUME NEW S, NEW K, NEW o, World(S, K, o), NEW X, X \subseteq Idle(S)
  PROVE  /\ World(Retired(S, X), K, o)
         /\ \A s \in Ids : s \notin X => Retired(S, X)[s] = S[s]
         /\ \A s \in X : Retired(S, X)[s].state = "gone"
<1> DEFINE T == Retired(S, X)
<1>0. X \subseteq Ids /\ \A s \in X : S[s].state = "ready" /\ S[s].leases = 0
  BY DEF Idle
<1>1. /\ \A s \in Ids : s \notin X => T[s] = S[s]
      /\ \A s \in X : T[s] = [S[s] EXCEPT !.state = "gone", !.park = "closed", !.env = "stopped"]
      /\ DOMAIN T = Ids /\ T = [s \in Ids |-> T[s]]
  BY <1>0 DEF Retired
<1> HIDE DEF T
<1>2. ASSUME NEW s \in X
      PROVE  /\ SlotOK(T[s], o) /\ T[s].leases = 0 /\ T[s].state = "gone"
             /\ T[s].err = S[s].err /\ T[s].kind = S[s].kind
  <2> DEFINE r == S[s]
  <2>1. SlotOK(r, o) /\ r.state = "ready" /\ r.leases = 0
    BY <1>0 DEF World
  <2>2. T[s] = [r EXCEPT !.state = "gone", !.park = "closed", !.env = "stopped"]
    BY <1>1
  <2> HIDE DEF r
  <2>3. SlotOK(T[s], o)
    BY <2>1, <2>2, RetiredSlot
  <2>4. T[s].leases = 0 /\ T[s].state = "gone" /\ T[s].err = r.err /\ T[s].kind = r.kind
    BY <2>1, <2>2 DEF SlotOK, Slot
  <2> QED
    BY <2>3, <2>4 DEF r
<1>3. \A s \in Ids : SlotOK(T[s], o) /\ T[s].leases = S[s].leases
  BY <1>0, <1>1, <1>2 DEF World
<1>4. T \in [Ids -> Slot]
  BY <1>1, <1>3 DEF SlotOK
<1>5. ASSUME NEW c \in Callers PROVE CallOK(K[c], T)
  <2>1. CallOK(K[c], S) /\ (K[c].pc # "idle" => K[c].slot \in Ids)
    BY DEF World, CallOK
  <2>2. CASE K[c].slot \in X
    <3> DEFINE s == K[c].slot
    <3>1. T[s].state = "gone" /\ T[s].err = S[s].err /\ T[s].kind = S[s].kind /\ S[s].state = "ready"
      BY <1>0, <1>2, <2>2
    <3> QED
      BY <2>1, <3>1 DEF CallOK
  <2>3. CASE K[c].slot \notin X
    BY <1>1, <2>1, <2>3 DEF CallOK
  <2> QED
    BY <2>2, <2>3
<1>6. Leases(T, K)
  BY <1>3, LeasesKept DEF World
<1>7. World(T, K, o)
  BY <1>3, <1>4, <1>5, <1>6 DEF World
<1> QED
  BY <1>1, <1>2, <1>7 DEF T

\* How a slot may go on under the calls on it, but for the one that starts it.
Follows(a, b) ==
    /\ a.state # "unused" => (b.state # "unused" /\ b.kind = a.kind)
    /\ (a.state = "starting" /\ a.kind = "OnDemand") => b.state = "starting"
    /\ (a.state \in {"ready", "gone"} /\ ~a.err) => (b.state \in {"ready", "gone"} /\ ~b.err)

\* Calls fit slots that follow.
LEMMA CallFollows ==
  ASSUME NEW k, NEW S, CallOK(k, S), NEW T, k.pc # "idle" => Follows(S[k.slot], T[k.slot])
  PROVE  CallOK(k, T)
  BY DEF CallOK, Follows

\* Slots change and calls do not.
LEMMA ChangedWorld ==
  ASSUME NEW S, NEW K, NEW o, World(S, K, o), NEW T \in [Ids -> Slot],
         \A s \in Ids : SlotOK(T[s], o) /\ T[s].leases = S[s].leases /\ Follows(S[s], T[s])
  PROVE  World(T, K, o)
<1>1. ASSUME NEW c \in Callers PROVE CallOK(K[c], T)
  <2>1. CallOK(K[c], S) /\ (K[c].pc # "idle" => K[c].slot \in Ids)
    BY DEF World, CallOK
  <2> QED
    BY <2>1, CallFollows
<1>2. Leases(T, K)
  BY LeasesKept DEF World
<1> QED
  BY <1>1, <1>2 DEF World

\* One slot changes and calls do not.
LEMMA ChangedSlot ==
  ASSUME NEW S, NEW K, NEW o, World(S, K, o), NEW s \in Ids, NEW r, SlotOK(r, o),
         r.leases = S[s].leases, Follows(S[s], r)
  PROVE  World([S EXCEPT ![s] = r], K, o)
<1> DEFINE T == [S EXCEPT ![s] = r]
<1>1. S \in [Ids -> Slot] /\ r \in Slot
  BY DEF World, SlotOK
<1>2. T \in [Ids -> Slot] /\ T[s] = r /\ \A t \in Ids : t # s => T[t] = S[t]
  BY <1>1
<1> HIDE DEF T
<1>3. ASSUME NEW t \in Ids PROVE SlotOK(T[t], o) /\ T[t].leases = S[t].leases /\ Follows(S[t], T[t])
  BY <1>2 DEF World, Follows
<1>4. World(T, K, o)
  BY <1>2, <1>3, ChangedWorld
<1> QED
  BY <1>4 DEF T

\* A call enters a slot.
LEMMA EnteredWorld ==
  ASSUME NEW S, NEW K, NEW o, World(S, K, o), NEW s \in Ids, NEW r, SlotOK(r, o),
         r.leases = S[s].leases + 1, Follows(S[s], r),
         NEW c \in Callers, K[c].pc = "idle",
         NEW k \in Call, k.slot = s, k.pc # "idle", r.state # "unused",
         k.pc = "starting" => (S[s].state = "unused" /\ r.state = "starting"),
         k.pc \in {"starting", "joining"} => r.kind = "OnDemand",
         k.pc = "leased" => (r.state \in {"ready", "gone"} /\ ~r.err)
  PROVE  World([S EXCEPT ![s] = r], [K EXCEPT ![c] = k], o)
<1> DEFINE T == [S EXCEPT ![s] = r]
           L == [K EXCEPT ![c] = k]
<1>1. S \in [Ids -> Slot] /\ r \in Slot /\ K \in [Callers -> Call]
  BY DEF World, SlotOK
<1>2. /\ T \in [Ids -> Slot] /\ T[s] = r /\ \A t \in Ids : t # s => T[t] = S[t]
      /\ L \in [Callers -> Call] /\ L[c] = k /\ \A d \in Callers : d # c => L[d] = K[d]
  BY <1>1
<1> HIDE DEF T, L
<1>3. \A t \in Ids : SlotOK(T[t], o) /\ Follows(S[t], T[t])
  BY <1>2 DEF World, Follows
<1>4. ASSUME NEW d \in Callers PROVE CallOK(L[d], T)
  <2>1. CASE d = c
    BY <1>2, <2>1 DEF CallOK
  <2>2. CASE d # c
    <3>1. CallOK(K[d], S) /\ (K[d].pc # "idle" => K[d].slot \in Ids)
      BY DEF World, CallOK
    <3>2. CallOK(K[d], T)
      BY <1>3, <3>1, CallFollows
    <3> QED
      BY <1>2, <2>2, <3>2
  <2> QED
    BY <2>1, <2>2
<1>5. OneStarter(L)
  <2>1. \A d \in Callers : K[d].pc = "starting" => S[K[d].slot].state = "starting"
    BY DEF World, CallOK
  <2> QED
    BY <1>2, <2>1 DEF World, OneStarter
<1>6. Leases(T, L)
  BY <1>2, LeasesEntered DEF World
<1>7. World(T, L, o)
  BY <1>2, <1>3, <1>4, <1>5, <1>6 DEF World
<1> QED
  BY <1>7 DEF T, L

\* The other calls on an environment that starts join it, and fit the slot
\* once the start returned.
LEMMA StarterAlone ==
  ASSUME NEW S, NEW K, NEW o, World(S, K, o), NEW c \in Callers, K[c].pc = "starting",
         NEW T, T[K[c].slot].state \in {"ready", "gone"}, T[K[c].slot].kind = S[K[c].slot].kind,
         \A t \in Ids : t # K[c].slot => T[t] = S[t]
  PROVE  \A d \in Callers : d # c => CallOK(K[d], T)
<1> DEFINE s == K[c].slot
<1>1. S[s].state = "starting"
  BY DEF World, CallOK
<1>2. ASSUME NEW d \in Callers, d # c PROVE CallOK(K[d], T)
  <2>1. CallOK(K[d], S)
    BY DEF World
  <2>2. CASE K[d].slot = s
    <3>1. K[d].pc # "starting" /\ K[d].pc # "leased"
      BY <1>1, <1>2, <2>1, <2>2 DEF World, OneStarter, CallOK
    <3> QED
      BY <2>1, <2>2, <3>1 DEF CallOK
  <2>3. CASE K[d].slot # s
    BY <2>1, <2>3 DEF CallOK
  <2> QED
    BY <2>2, <2>3
<1> QED
  BY <1>2

\* A call leaves its slot.
LEMMA LeftWorld ==
  ASSUME NEW S, NEW K, NEW o, World(S, K, o), NEW c \in Callers, K[c].pc # "idle",
         NEW r, SlotOK(r, o), r.leases = S[K[c].slot].leases - 1,
         \/ Follows(S[K[c].slot], r)
         \/ K[c].pc = "starting" /\ r.state \in {"ready", "gone"} /\ r.kind = S[K[c].slot].kind
  PROVE  World([S EXCEPT ![K[c].slot] = r], [K EXCEPT ![c] = NoCall], o)
<1> DEFINE s == K[c].slot
           T == [S EXCEPT ![s] = r]
           L == [K EXCEPT ![c] = NoCall]
<1>0. s \in Ids
  BY DEF World, CallOK
<1>1. S \in [Ids -> Slot] /\ r \in Slot /\ K \in [Callers -> Call] /\ NoCall \in Call /\ NoCall.pc = "idle"
  BY PoolAssumption DEF World, SlotOK, NoCall, Call, Limits
<1>2. /\ T \in [Ids -> Slot] /\ T[s] = r /\ \A t \in Ids : t # s => T[t] = S[t]
      /\ L \in [Callers -> Call] /\ L[c] = NoCall /\ \A d \in Callers : d # c => L[d] = K[d]
  BY <1>0, <1>1
<1> HIDE DEF T, L
<1>3. \A t \in Ids : SlotOK(T[t], o)
  BY <1>2 DEF World
<1>4. \A d \in Callers : d # c => CallOK(K[d], T)
  <2>1. CASE Follows(S[s], r)
    <3>1. \A t \in Ids : Follows(S[t], T[t])
      BY <1>2, <2>1 DEF Follows
    <3>2. \A d \in Callers : CallOK(K[d], S) /\ (K[d].pc # "idle" => K[d].slot \in Ids)
      BY DEF World, CallOK
    <3> QED
      BY <3>1, <3>2, CallFollows
  <2>2. CASE K[c].pc = "starting" /\ r.state \in {"ready", "gone"} /\ r.kind = S[s].kind
    BY <1>2, <2>2, StarterAlone
  <2> QED
    BY <2>1, <2>2
<1>5. CallOK(NoCall, T)
  BY <1>1 DEF CallOK
<1>6. OneStarter(L)
  BY <1>1, <1>2 DEF World, OneStarter
<1>7. Leases(T, L)
  BY <1>0, <1>1, <1>2, LeasesLeft DEF World
<1>8. World(T, L, o)
  BY <1>2, <1>3, <1>4, <1>5, <1>6, <1>7 DEF World
<1> QED
  BY <1>8 DEF T, L

\* A call that waited for a start goes on to its lease.
LEMMA LeasedWorld ==
  ASSUME NEW S, NEW K, NEW o, World(S, K, o), NEW c \in Callers, K[c].pc # "idle",
         NEW r, SlotOK(r, o), r.leases = S[K[c].slot].leases,
         r.state \in {"ready", "gone"}, ~r.err, r.kind = S[K[c].slot].kind,
         Follows(S[K[c].slot], r) \/ K[c].pc = "starting"
  PROVE  World([S EXCEPT ![K[c].slot] = r], [K EXCEPT ![c].pc = "leased"], o)
<1> DEFINE s == K[c].slot
           T == [S EXCEPT ![s] = r]
           L == [K EXCEPT ![c].pc = "leased"]
<1>0. s \in Ids
  BY DEF World, CallOK
<1>1. S \in [Ids -> Slot] /\ r \in Slot /\ K \in [Callers -> Call]
  BY DEF World, SlotOK
<1>2. /\ T \in [Ids -> Slot] /\ T[s] = r /\ \A t \in Ids : t # s => T[t] = S[t]
      /\ L \in [Callers -> Call] /\ L[c].pc = "leased" /\ L[c].slot = s
      /\ \A d \in Callers : d # c => L[d] = K[d]
  BY <1>0, <1>1 DEF Call
<1> HIDE DEF T, L
<1>3. \A t \in Ids : SlotOK(T[t], o) /\ T[t].leases = S[t].leases
  BY <1>2 DEF World
<1>4. \A d \in Callers : d # c => CallOK(K[d], T)
  <2>1. CASE Follows(S[s], r)
    <3>1. \A t \in Ids : Follows(S[t], T[t])
      BY <1>2, <2>1 DEF Follows
    <3>2. \A d \in Callers : CallOK(K[d], S) /\ (K[d].pc # "idle" => K[d].slot \in Ids)
      BY DEF World, CallOK
    <3> QED
      BY <3>1, <3>2, CallFollows
  <2>2. CASE K[c].pc = "starting"
    BY <1>2, <2>2, StarterAlone
  <2> QED
    BY <2>1, <2>2
<1>5. CallOK(L[c], T)
  BY <1>0, <1>2 DEF CallOK
<1>6. OneStarter(L)
  BY <1>2 DEF World, OneStarter
<1>7. Leases(T, L)
  <2>1. \A d \in Callers : (L[d].pc = "idle" <=> K[d].pc = "idle") /\ L[d].slot = K[d].slot
    BY <1>2
  <2> QED
    BY <1>3, <2>1, LeasesKept DEF World
<1>8. World(T, L, o)
  BY <1>2, <1>3, <1>4, <1>5, <1>6, <1>7 DEF World
<1> QED
  BY <1>8 DEF T, L

-----------------------------------------------------------------------------
(* Provisioned environments *)

\* The sets the invariant counts.
LEMMA ProvisionedSets ==
  ASSUME NEW S
  PROVE  /\ ProvisionedIn(S) \in SUBSET Ids /\ ProvisionedIdle(S) \in SUBSET ProvisionedIn(S)
         /\ Cardinality(ProvisionedIn(S)) \in Nat /\ Cardinality(ProvisionedIdle(S)) \in Nat
         /\ Cardinality(ProvisionedIdle(S)) <= Cardinality(ProvisionedIn(S))
<1>1. ProvisionedIn(S) \in SUBSET Ids /\ ProvisionedIdle(S) \in SUBSET ProvisionedIn(S)
  BY DEF ProvisionedIn, ProvisionedIdle, Idle, Listed
<1>2. ProvisionedIdle(S) \in SUBSET Ids
  BY <1>1
<1> QED
  BY <1>1, <1>2, SlotSets, SlotSubset

\* The provisioned environments with those that were not replaced.
LEMMA ReplacedSets ==
  ASSUME NEW S, NEW u \in SUBSET Ids
  PROVE  /\ ProvisionedIn(S) \cup u \in SUBSET Ids /\ Cardinality(ProvisionedIn(S) \cup u) \in Nat
         /\ Cardinality(ProvisionedIn(S)) <= Cardinality(ProvisionedIn(S) \cup u)
<1>1. ProvisionedIn(S) \cup u \in SUBSET Ids
  BY ProvisionedSets
<1>2. ProvisionedIn(S) \in SUBSET (ProvisionedIn(S) \cup u)
  OBVIOUS
<1> QED
  BY <1>1, <1>2, SlotSets, SlotSubset

\* No provisioned environment leaves but the expired ones, and none becomes
\* idle.
LEMMA ProvisionedKept ==
  ASSUME NEW S, NEW T, NEW p \in Prov, NEW n, NEW g, NEW u, Provisioned(S, p, n, g, u),
         NEW v \in SUBSET Ids, ProvisionedIn(S) \cup u \subseteq ProvisionedIn(T) \cup v,
         ProvisionedIdle(T) \subseteq ProvisionedIdle(S)
  PROVE  Provisioned(T, p, n, g, v)
<1>0. u \in SUBSET Ids
  BY DEF Provisioned
<1> DEFINE A == ProvisionedIn(S) \cup u
           B == ProvisionedIn(T) \cup v
<1>1. /\ A \in SUBSET Ids /\ B \in SUBSET Ids /\ Cardinality(A) \in Nat /\ Cardinality(B) \in Nat
  BY <1>0, ReplacedSets
<1>2. /\ ProvisionedIdle(S) \in SUBSET Ids /\ Cardinality(ProvisionedIdle(S)) \in Nat
      /\ Cardinality(ProvisionedIdle(T)) \in Nat /\ p.requested \in Nat
  BY ProvisionedSets DEF Prov
<1>3. A \in SUBSET B
  OBVIOUS
<1>4. ~g => /\ Cardinality(ProvisionedIdle(S)) <= p.requested
            /\ (~p.err /\ n = 0) => Cardinality(A) >= p.requested
  BY DEF Provisioned
<1> HIDE DEF A, B
<1>5. Cardinality(A) <= Cardinality(B)
  BY <1>1, <1>3, SlotSubset
<1>6. Cardinality(ProvisionedIdle(T)) <= Cardinality(ProvisionedIdle(S))
  BY <1>2, SlotSubset
<1>7. ~g => /\ Cardinality(ProvisionedIdle(T)) <= p.requested
            /\ (~p.err /\ n = 0) => Cardinality(B) >= p.requested
  BY <1>1, <1>2, <1>4, <1>5, <1>6
<1> QED
  BY <1>7 DEF Provisioned, B

\* A provisioned environment leaves the pool: one too many, or topUp follows.
LEMMA ProvisionedLess ==
  ASSUME NEW S, NEW T, NEW p \in Prov, NEW n \in Nat, NEW g, NEW u, Provisioned(S, p, n, g, u), NEW m \in Nat,
         NEW v \in SUBSET Ids, NEW s \in Ids, ProvisionedIn(S) \ {s} \subseteq ProvisionedIn(T),
         ProvisionedIdle(T) \subseteq ProvisionedIdle(S),
         \/ m = n + 1
         \/ m = n /\ Cardinality(ProvisionedIn(S)) > p.requested
  PROVE  Provisioned(T, p, m, g, v)
<1>1. /\ ProvisionedIn(T) \in SUBSET Ids /\ ProvisionedIn(S) \in SUBSET Ids
      /\ ProvisionedIdle(S) \in SUBSET Ids
      /\ Cardinality(ProvisionedIn(S)) \in Nat /\ Cardinality(ProvisionedIdle(S)) \in Nat
      /\ Cardinality(ProvisionedIn(T)) \in Nat /\ Cardinality(ProvisionedIdle(T)) \in Nat
      /\ p.requested \in Nat
  BY ProvisionedSets DEF Prov
<1>2. /\ Cardinality(ProvisionedIn(S) \ {s}) <= Cardinality(ProvisionedIn(T))
      /\ Cardinality(ProvisionedIdle(T)) <= Cardinality(ProvisionedIdle(S))
  BY <1>1, SlotSubset
<1>3. Cardinality(ProvisionedIn(S) \ {s}) \in Nat /\ IsFiniteSet(ProvisionedIn(S))
  BY <1>1, SlotSets
<1>4. Cardinality(ProvisionedIn(S) \ {s}) >= Cardinality(ProvisionedIn(S)) - 1
  BY <1>1, SlotLess
<1>5. CASE m = n + 1
  BY <1>1, <1>2, <1>5 DEF Provisioned
<1>6. CASE m = n /\ Cardinality(ProvisionedIn(S)) > p.requested
  <2>1. Cardinality(ProvisionedIn(T)) >= p.requested
    BY <1>1, <1>2, <1>3, <1>4, <1>6
  <2>2. /\ Cardinality(ProvisionedIn(T) \cup v) \in Nat
        /\ Cardinality(ProvisionedIn(T)) <= Cardinality(ProvisionedIn(T) \cup v)
    BY ReplacedSets
  <2>3. Cardinality(ProvisionedIn(T) \cup v) >= p.requested
    BY <1>1, <2>1, <2>2
  <2> QED
    BY <1>1, <1>2, <1>6, <2>3 DEF Provisioned
<1> QED
  BY <1>5, <1>6

\* A provisioned environment becomes idle while none is too many.
LEMMA ProvisionedParked ==
  ASSUME NEW S, NEW T, NEW p \in Prov, NEW n, NEW g, NEW u, Provisioned(S, p, n, g, u),
         ProvisionedIn(S) = ProvisionedIn(T), ~(Cardinality(ProvisionedIn(S)) > p.requested)
  PROVE  Provisioned(T, p, n, g, u)
<1>1. /\ Cardinality(ProvisionedIn(S)) \in Nat /\ p.requested \in Nat
      /\ Cardinality(ProvisionedIn(T)) = Cardinality(ProvisionedIn(S))
      /\ Cardinality(ProvisionedIdle(T)) \in Nat
      /\ Cardinality(ProvisionedIdle(T)) <= Cardinality(ProvisionedIn(T))
  BY ProvisionedSets DEF Prov
<1> QED
  BY <1>1 DEF Provisioned

-----------------------------------------------------------------------------
(* The steps of a call *)

\* The parts of the invariant, after a step.
LEMMA Primed ==
  ASSUME World(slots', calls', opt'), Counted(calls', inUse'), Reserved(prov', reserved'),
         Provisioned(slots', prov', topUps', retired', unreplaced'), Rest',
         ~opt'.cancellable => ~panicked'
  PROVE  IInv'
  BY DEF IInv

\* A step that changes the slots, calls and the counts of the invocations.
LEMMA CallStep ==
  ASSUME IInv, World(slots', calls', opt), Counted(calls', inUse'),
         Provisioned(slots', prov, topUps, retired, unreplaced'),
         UNCHANGED <<max, reserved, prov, topUps, retired, panicked, opt>>
  PROVE  IInv'
<1>1. /\ max' = max /\ reserved' = reserved /\ prov' = prov /\ topUps' = topUps /\ retired' = retired
      /\ panicked' = panicked /\ opt' = opt
  OBVIOUS
<1>2. Rest'
  BY <1>1 DEF IInv, Rest
<1> QED
  BY <1>1, <1>2, Primed DEF IInv

\* One that finds no expired environment.
LEMMA CallKept ==
  ASSUME IInv, World(slots', calls', opt), Counted(calls', inUse'),
         Provisioned(slots', prov, topUps, retired, unreplaced),
         UNCHANGED <<max, reserved, prov, topUps, retired, panicked, opt, unreplaced>>
  PROVE  IInv'
<1>1. unreplaced' = unreplaced /\ UNCHANGED <<max, reserved, prov, topUps, retired, panicked, opt>>
  OBVIOUS
<1>2. Provisioned(slots', prov, topUps, retired, unreplaced')
  BY <1>1
<1> QED
  BY <1>1, <1>2, CallStep

\* A goroutine panics only where callers give up joining.
LEMMA PanicStep == ASSUME IInv, opt.cancellable, Panic PROVE IInv'
<1>1. /\ slots' = slots /\ calls' = calls /\ max' = max /\ inUse' = inUse /\ reserved' = reserved
      /\ prov' = prov /\ topUps' = topUps /\ retired' = retired /\ panicked' = TRUE /\ opt' = opt
      /\ unreplaced' = unreplaced
  BY DEF Panic
<1>2. Rest'
  BY <1>1, Zenon DEF IInv, Rest
<1> QED
  BY <1>1, <1>2, Primed DEF IInv

\* Where they do not, closing the park of an idle environment is safe.
LEMMA ClosesOpen ==
  ASSUME NEW S, NEW K, NEW o, World(S, K, o), NEW X, X \subseteq Idle(S), ClosesNil(S, X)
  PROVE  o.cancellable
  BY DEF World, SlotOK, Idle, ClosesNil

\* Stopping the expired environments first keeps what is known.
LEMMA SweptFacts ==
  ASSUME IInv
  PROVE  World(Swept, calls, opt) /\ Provisioned(Swept, prov, topUps, retired, Unreplaced(ExpiredIdle))
<1> DEFINE v == Unreplaced(ExpiredIdle)
<1>0. /\ World(slots, calls, opt) /\ Provisioned(slots, prov, topUps, retired, unreplaced) /\ prov \in Prov
      /\ unreplaced \in SUBSET Ids
  BY DEF IInv, Reserved, Provisioned
<1>1. ExpiredIdle \subseteq Idle(slots) /\ ExpiredIdle \subseteq Ids
  BY DEF ExpiredIdle, Idle
<1>2. /\ World(Swept, calls, opt) /\ \A s \in Ids : s \notin ExpiredIdle => Swept[s] = slots[s]
      /\ \A s \in ExpiredIdle : Swept[s].state = "gone"
  BY <1>0, <1>1, RetiredWorld DEF Swept
<1>3. ProvisionedIdle(Swept) \subseteq ProvisionedIdle(slots)
  BY <1>1, <1>2 DEF ProvisionedIdle, Idle
<1>4. v \in SUBSET Ids
  BY <1>0, <1>1 DEF Unreplaced
<1>5. ProvisionedIn(slots) \cup unreplaced \subseteq ProvisionedIn(Swept) \cup v
  BY <1>2 DEF ProvisionedIn, Listed, Unreplaced
<1> HIDE DEF v
<1>6. Provisioned(Swept, prov, topUps, retired, v)
  BY <1>0, <1>3, <1>4, <1>5, ProvisionedKept
<1> QED
  BY <1>2, <1>6 DEF v

\* What Acquire picks.
LEMMA PickFacts ==
  ASSUME NEW S, NEW s \in Pick(S)
  PROVE  s \in Ids /\ S[s].state = "ready"
<1> DEFINE open == {t \in Ids : S[t].state = "ready" /\ HasRoom(S, t) /\ ~S[t].expired}
           provisioned == {t \in open : S[t].kind = "Provisioned" /\ ProvisionedReady(S)}
           onDemand == {t \in open : S[t].kind = "OnDemand"}
<1>1. provisioned \in SUBSET Ids /\ onDemand \in SUBSET Ids
  OBVIOUS
<1>2. \/ provisioned # {} /\ s = Least(provisioned)
      \/ onDemand # {} /\ s = Least(onDemand)
  BY DEF Pick
<1>3. s \in provisioned \/ s \in onDemand
  <2> HIDE DEF provisioned, onDemand
  <2> QED
    BY <1>1, <1>2, LeastSlot
<1> QED
  BY <1>3

\* A start Acquire joins.
LEMMA StartingFacts ==
  ASSUME NEW S, NEW s \in StartingWithRoom(S)
  PROVE  s \in Ids /\ S[s].state = "starting" /\ S[s].kind = "OnDemand"
<1> DEFINE sharing == {t \in Ids : /\ PerEnvironment # 1 /\ S[t].state = "starting"
                                   /\ S[t].kind = "OnDemand" /\ HasRoom(S, t)}
<1>1. sharing \in SUBSET Ids
  OBVIOUS
<1>2. sharing # {} /\ s = Least(sharing)
  BY DEF StartingWithRoom
<1>3. s \in sharing
  <2> HIDE DEF sharing
  <2> QED
    BY <1>1, <1>2, LeastSlot
<1> QED
  BY <1>3

\* A slot to start.
LEMMA FreshFacts ==
  ASSUME NEW S, opt \in Pools, NEW s \in Fresh(S)
  PROVE  s \in Ids /\ S[s].state = "unused"
<1>1. opt.slots \in 0 .. MaxSlots
  BY PoolAssumption
<1>2. s \in Unstarted(S)
  BY DEF Fresh
<1>3. s \in 1 .. opt.slots /\ S[s].state = "unused"
  BY <1>2 DEF Unstarted
<1>4. MaxSlots \in Nat
  BY PoolAssumption
<1> QED
  BY <1>1, <1>3, <1>4 DEF Ids

\* The calls after c got k.
LEMMA CallsSet ==
  ASSUME NEW K \in [Callers -> Call], NEW c \in Callers, NEW k
  PROVE  [K EXCEPT ![c] = k][c] = k /\ \A d \in Callers : d # c => [K EXCEPT ![c] = k][d] = K[d]
  OBVIOUS

\* The provisioned slots when an on-demand slot, or only leases, change.
LEMMA ProvisionedOther ==
  ASSUME NEW S \in [Ids -> Slot], NEW s \in Ids, NEW r \in Slot,
         NEW p \in Prov, NEW n, NEW g, NEW u, Provisioned(S, p, n, g, u),
         \/ r.kind = "OnDemand" /\ S[s].kind = "OnDemand"
         \/ /\ r.kind = S[s].kind /\ r.state = S[s].state
            /\ r.state # "ready" \/ r.leases > 0 \/ r.leases = S[s].leases
  PROVE  Provisioned([S EXCEPT ![s] = r], p, n, g, u)
<1> DEFINE T == [S EXCEPT ![s] = r]
<1>1. T[s] = r /\ \A t \in Ids : t # s => T[t] = S[t]
  OBVIOUS
<1>2. r.leases \in Nat
  BY DEF Slot
<1> HIDE DEF T
<1>3. ProvisionedIn(S) \subseteq ProvisionedIn(T)
  BY <1>1 DEF ProvisionedIn, Listed
<1>4. ProvisionedIdle(T) \subseteq ProvisionedIdle(S)
  BY <1>1, <1>2 DEF ProvisionedIdle, Idle
<1>5. Provisioned(T, p, n, g, u)
  <2>1. u \in SUBSET Ids /\ ProvisionedIn(S) \cup u \subseteq ProvisionedIn(T) \cup u
    BY <1>3 DEF Provisioned
  <2> QED
    BY <1>4, <2>1, ProvisionedKept
<1> QED
  BY <1>5 DEF T

\* The slot of an environment that is leased.
LEMMA LeasedSlot ==
  ASSUME NEW a \in Slot, NEW q \in {"nil", "open", "closed"}
  PROVE  LET r == [a EXCEPT !.leases = @ + 1, !.park = q] IN
         /\ r \in Slot /\ r.kind = a.kind /\ r.state = a.state /\ r.leases = a.leases + 1
         /\ r.env = a.env /\ r.err = a.err /\ r.expired = a.expired
<1> DEFINE r == [a EXCEPT !.leases = @ + 1, !.park = q]
<1>1. /\ r.kind = a.kind /\ r.state = a.state /\ r.leases = a.leases + 1 /\ r.park = q
      /\ r.env = a.env /\ r.err = a.err /\ r.expired = a.expired
  BY DEF Slot
<1>2. r \in Slot
  <2> DEFINE b == [a EXCEPT !.leases = @ + 1]
  <2>1. b \in Slot
    BY DEF Slot
  <2>2. r = [b EXCEPT !.park = q]
    BY DEF Slot
  <2> HIDE DEF b, r
  <2> QED
    BY <2>1, <2>2 DEF Slot
<1> QED
  BY <1>1, <1>2

\* The slot of an environment that is started.
LEMMA StartingSlot ==
  LET r == [Unused EXCEPT !.state = "starting", !.leases = 1] IN
  /\ r \in Slot /\ r.kind = "OnDemand" /\ r.state = "starting" /\ r.leases = 1 /\ r.env = "none"
  /\ ~r.err /\ ~r.expired
  BY DEF Unused, Slot

\* An invocation takes a ready environment.
LEMMA WarmStep == ASSUME IInv, NEW c \in Callers, calls[c].pc = "idle", NEW s, AcquireWarm(c, s) PROVE IInv'
<1>0. /\ World(Swept, calls, opt) /\ Provisioned(Swept, prov, topUps, retired, Unreplaced(ExpiredIdle))
      /\ prov \in Prov /\ Counted(calls, inUse) /\ calls \in [Callers -> Call] /\ calls[c].holder = Nobody
  <2>1. World(Swept, calls, opt) /\ Provisioned(Swept, prov, topUps, retired, Unreplaced(ExpiredIdle))
    BY SweptFacts
  <2> QED
    BY <2>1 DEF IInv, Reserved, World, CallOK, NoCall
<1>1. s \in Ids /\ Swept[s].state = "ready"
  BY PickFacts DEF AcquireWarm
<1> DEFINE a == Swept[s]
           opens == a.leases = 0
           takes == a.kind = "OnDemand"
           q == IF opens THEN "closed" ELSE a.park
           r == [a EXCEPT !.leases = @ + 1, !.park = q]
           k == [pc |-> "leased", slot |-> s, holder |-> IF takes THEN Owner ELSE Nobody]
<1>2. CASE opens /\ ClosesNil(Swept, {s})
  <2>1. {s} \subseteq Idle(Swept)
    BY <1>1, <1>2 DEF Idle
  <2>2. opt.cancellable
    BY <1>0, <1>2, <2>1, ClosesOpen
  <2>3. Panic
    BY <1>2 DEF AcquireWarm
  <2> QED
    BY <2>2, <2>3, PanicStep
<1>3. CASE ~(opens /\ ClosesNil(Swept, {s}))
  <2>1. /\ slots' = [Swept EXCEPT ![s] = r] /\ calls' = [calls EXCEPT ![c] = k]
        /\ inUse' = (IF takes THEN Take ELSE inUse)
        /\ unreplaced' = Unreplaced(ExpiredIdle)
        /\ UNCHANGED <<max, reserved, prov, topUps, retired, panicked, opt>>
    BY <1>1, <1>3 DEF AcquireWarm
  <2>2. SlotOK(a, opt) /\ a \in Slot /\ Swept \in [Ids -> Slot]
    BY <1>0, <1>1 DEF World
  <2>q. q \in {"nil", "open", "closed"}
    BY <2>2 DEF Slot
  <2> HIDE DEF a, q
  <2>3. /\ r \in Slot /\ r.kind = a.kind /\ r.state = a.state /\ r.leases = a.leases + 1 /\ r.env = a.env
        /\ r.err = a.err /\ r.expired = a.expired
    BY <2>2, <2>q, LeasedSlot
  <2>4. /\ k \in Call /\ k.pc = "leased" /\ k.slot = s
        /\ k.holder = IF takes THEN Owner ELSE Nobody
    BY <1>1, PoolAssumption DEF Call, Owner, Limits, Ids
  <2>5. a.leases \in Nat /\ a.state = "ready"
    BY <1>1, <2>2 DEF Slot, a
  <2> HIDE DEF a, r, k
  <2>6. SlotOK(r, opt) /\ ~r.err /\ r.leases > 0
    BY <2>2, <2>3, <2>5 DEF SlotOK
  <2>7. Follows(a, r)
    BY <2>3, <2>5, <2>6 DEF Follows
  <2>8. World(slots', calls', opt)
    BY <1>0, <1>1, <2>1, <2>3, <2>4, <2>5, <2>6, <2>7, EnteredWorld DEF a
  <2>9. calls'[c] = k /\ \A d \in Callers : d # c => calls'[d] = calls[d]
    BY <1>0, <2>1, CallsSet
  <2>10. Counted(calls', inUse')
    <3>1. CASE takes
      BY <1>0, <2>1, <2>4, <2>9, <3>1, CountTaken
    <3>2. CASE ~takes
      <4>1. \A d \in Callers : calls'[d].holder = calls[d].holder
        BY <1>0, <2>4, <2>9, <3>2
      <4> QED
        BY <1>0, <2>1, <3>2, <4>1, CountKept
    <3> QED
      BY <3>1, <3>2
  <2>11. Provisioned(slots', prov, topUps, retired, unreplaced')
    BY <1>0, <1>1, <2>1, <2>2, <2>3, <2>6, ProvisionedOther DEF a
  <2> QED
    BY <2>1, <2>8, <2>10, <2>11, CallStep
<1> QED
  BY <1>2, <1>3

\* An invocation joins a start.
LEMMA JoinStep == ASSUME IInv, NEW c \in Callers, calls[c].pc = "idle", NEW s, AcquireJoin(c, s) PROVE IInv'
<1>0. /\ World(Swept, calls, opt) /\ Provisioned(Swept, prov, topUps, retired, Unreplaced(ExpiredIdle))
      /\ prov \in Prov /\ Counted(calls, inUse) /\ calls \in [Callers -> Call] /\ calls[c].holder = Nobody
  <2>1. World(Swept, calls, opt) /\ Provisioned(Swept, prov, topUps, retired, Unreplaced(ExpiredIdle))
    BY SweptFacts
  <2> QED
    BY <2>1 DEF IInv, Reserved, World, CallOK, NoCall
<1>1. s \in Ids /\ Swept[s].state = "starting" /\ Swept[s].kind = "OnDemand"
  BY StartingFacts DEF AcquireJoin
<1> DEFINE a == Swept[s]
           r == [a EXCEPT !.leases = @ + 1]
           k == [pc |-> "joining", slot |-> s, holder |-> Owner]
<1>2. /\ slots' = [Swept EXCEPT ![s] = r] /\ calls' = [calls EXCEPT ![c] = k] /\ inUse' = Take
      /\ unreplaced' = Unreplaced(ExpiredIdle)
      /\ UNCHANGED <<max, reserved, prov, topUps, retired, panicked, opt>>
  BY <1>1 DEF AcquireJoin
<1>3. SlotOK(a, opt) /\ a \in Slot /\ Swept \in [Ids -> Slot]
  BY <1>0, <1>1 DEF World
<1>4. /\ r \in Slot /\ r.kind = a.kind /\ r.state = a.state /\ r.leases = a.leases + 1 /\ r.env = a.env
      /\ r.err = a.err /\ r.expired = a.expired
  BY <1>3 DEF Slot
<1>5. k \in Call /\ k.pc = "joining" /\ k.slot = s /\ k.holder = Owner
  BY <1>1, PoolAssumption DEF Call, Owner, Limits, Ids
<1>6. a.leases \in Nat /\ a.state = "starting" /\ a.kind = "OnDemand"
  BY <1>1, <1>3 DEF Slot
<1> HIDE DEF a, r, k
<1>7. SlotOK(r, opt)
  BY <1>3, <1>4, <1>6 DEF SlotOK
<1>8. Follows(a, r)
  BY <1>4, <1>6 DEF Follows
<1>9. World(slots', calls', opt)
  BY <1>0, <1>1, <1>2, <1>4, <1>5, <1>6, <1>7, <1>8, EnteredWorld DEF a
<1>10. calls'[c] = k /\ \A d \in Callers : d # c => calls'[d] = calls[d]
  BY <1>0, <1>2, CallsSet
<1>11. Counted(calls', inUse')
  BY <1>0, <1>2, <1>5, <1>10, CountTaken
<1>12. Provisioned(slots', prov, topUps, retired, unreplaced')
  BY <1>0, <1>1, <1>2, <1>3, <1>4, <1>6, ProvisionedOther DEF a
<1> QED
  BY <1>2, <1>9, <1>11, <1>12, CallStep

\* An invocation starts an environment.
LEMMA StartStep == ASSUME IInv, NEW c \in Callers, calls[c].pc = "idle", NEW s, AcquireStart(c, s) PROVE IInv'
<1>0. /\ World(Swept, calls, opt) /\ Provisioned(Swept, prov, topUps, retired, Unreplaced(ExpiredIdle))
      /\ prov \in Prov /\ Counted(calls, inUse) /\ calls \in [Callers -> Call] /\ calls[c].holder = Nobody
  <2>1. World(Swept, calls, opt) /\ Provisioned(Swept, prov, topUps, retired, Unreplaced(ExpiredIdle))
    BY SweptFacts
  <2> QED
    BY <2>1 DEF IInv, Reserved, World, CallOK, NoCall
<1>1. s \in Ids /\ Swept[s].state = "unused"
  BY FreshFacts DEF AcquireStart, IInv, Rest
<1> DEFINE a == Swept[s]
           r == [a EXCEPT !.state = "starting", !.leases = 1]
           k == [pc |-> "starting", slot |-> s, holder |-> Owner]
<1>2. /\ slots' = [Swept EXCEPT ![s] = r] /\ calls' = [calls EXCEPT ![c] = k] /\ inUse' = Take
      /\ unreplaced' = Unreplaced(ExpiredIdle)
      /\ UNCHANGED <<max, reserved, prov, topUps, retired, panicked, opt>>
  BY <1>1 DEF AcquireStart
<1>3. SlotOK(a, opt) /\ a = Unused /\ Swept \in [Ids -> Slot]
  BY <1>0, <1>1 DEF World, SlotOK
<1> HIDE DEF a
<1>4. /\ r \in Slot /\ r.kind = "OnDemand" /\ r.state = "starting" /\ r.leases = 1 /\ r.env = "none"
      /\ ~r.err /\ ~r.expired /\ a.kind = "OnDemand" /\ a.leases = 0 /\ a.state = "unused"
      /\ r.leases = a.leases + 1
  BY <1>3, StartingSlot DEF Unused
<1>5. k \in Call /\ k.pc = "starting" /\ k.slot = s /\ k.holder = Owner
  BY <1>1, PoolAssumption DEF Call, Owner, Limits, Ids
<1> HIDE DEF a, r, k
<1>7. SlotOK(r, opt)
  BY <1>4 DEF SlotOK
<1>8. Follows(a, r)
  BY <1>4 DEF Follows
<1>9. World(slots', calls', opt)
  BY <1>0, <1>1, <1>2, <1>4, <1>5, <1>7, <1>8, EnteredWorld DEF a
<1>10. calls'[c] = k /\ \A d \in Callers : d # c => calls'[d] = calls[d]
  BY <1>0, <1>2, CallsSet
<1>11. Counted(calls', inUse')
  BY <1>0, <1>2, <1>5, <1>10, CountTaken
<1>12. Provisioned(slots', prov, topUps, retired, unreplaced')
  BY <1>0, <1>1, <1>2, <1>3, <1>4, ProvisionedOther DEF a
<1> QED
  BY <1>2, <1>9, <1>11, <1>12, CallStep

\* Acquire keeps the invariant.
LEMMA AcquireStep == ASSUME IInv, NEW c \in Callers, Acquire(c) PROVE IInv'
<1>0. calls[c].pc = "idle"
  BY DEF Acquire
<1>1. CASE ClosesNil(slots, ExpiredIdle)
  <2>1. World(slots, calls, opt) /\ ExpiredIdle \subseteq Idle(slots)
    BY DEF IInv, ExpiredIdle
  <2>2. opt.cancellable /\ Panic
    BY <1>1, <2>1, ClosesOpen DEF Acquire
  <2> QED
    BY <2>2, PanicStep
<1>2. CASE ~ClosesNil(slots, ExpiredIdle)
  <2>1. CASE AcquireThrottled(c)
    <3>1. /\ slots' = Swept /\ calls' = calls /\ inUse' = inUse
          /\ unreplaced' = Unreplaced(ExpiredIdle)
          /\ UNCHANGED <<max, reserved, prov, topUps, retired, panicked, opt>>
      BY <2>1 DEF AcquireThrottled
    <3>2. World(slots', calls', opt) /\ Provisioned(slots', prov, topUps, retired, unreplaced')
      BY <3>1, SweptFacts
    <3>3. Counted(calls', inUse')
      BY <3>1 DEF IInv
    <3> QED
      BY <3>1, <3>2, <3>3, CallStep
  <2>2. CASE \E s \in Ids : AcquireWarm(c, s) \/ AcquireJoin(c, s) \/ AcquireStart(c, s)
    BY <1>0, <2>2, WarmStep, JoinStep, StartStep
  <2> QED
    BY <1>2, <2>1, <2>2 DEF Acquire
<1> QED
  BY <1>1, <1>2

\* What is known of a call's slot.
LEMMA CallFacts ==
  ASSUME IInv, NEW c \in Callers, calls[c].pc # "idle"
  PROVE  /\ World(slots, calls, opt) /\ Provisioned(slots, prov, topUps, retired, unreplaced)
         /\ prov \in Prov /\ Counted(calls, inUse) /\ calls \in [Callers -> Call]
         /\ slots \in [Ids -> Slot] /\ calls[c].holder \in Limits \cup {Nobody}
         /\ calls[c].slot \in Ids /\ slots[calls[c].slot] \in Slot /\ SlotOK(slots[calls[c].slot], opt)
         /\ slots[calls[c].slot].leases \in Nat /\ slots[calls[c].slot].leases > 0
         /\ CallOK(calls[c], slots)
<1>1. World(slots, calls, opt) /\ prov \in Prov
  BY DEF IInv, Reserved
<1>2. CallOK(calls[c], slots) /\ calls[c].slot \in Ids
  BY <1>1 DEF World, CallOK
<1>3. SlotOK(slots[calls[c].slot], opt) /\ slots[calls[c].slot] \in Slot
  BY <1>1, <1>2 DEF World
<1>4. slots[calls[c].slot].leases \in Nat /\ slots[calls[c].slot].leases > 0
  BY <1>1, <1>2, LeaseUsed DEF World
<1>5. calls[c].holder \in Limits \cup {Nobody}
  BY <1>2 DEF CallOK, Call
<1> QED
  BY <1>1, <1>2, <1>3, <1>4, <1>5 DEF IInv, World

\* The start returned.
LEMMA StartedStep == ASSUME IInv, NEW c \in Callers, Started(c) PROVE IInv'
<1> DEFINE s == calls[c].slot
           a == slots[s]
           r == [a EXCEPT !.env = "up", !.state = "ready"]
<1>0. calls[c].pc = "starting" /\ calls[c].pc # "idle"
  BY DEF Started
<1>1. /\ World(slots, calls, opt) /\ Provisioned(slots, prov, topUps, retired, unreplaced) /\ prov \in Prov
      /\ Counted(calls, inUse) /\ calls \in [Callers -> Call] /\ slots \in [Ids -> Slot]
      /\ s \in Ids /\ a \in Slot /\ SlotOK(a, opt) /\ a.leases \in Nat /\ a.leases > 0
      /\ CallOK(calls[c], slots)
  BY <1>0, CallFacts
<1>2. a.state = "starting" /\ a.kind = "OnDemand"
  BY <1>0, <1>1 DEF CallOK
<1>3. /\ slots' = [slots EXCEPT ![s] = r] /\ calls' = [calls EXCEPT ![c].pc = "leased"] /\ inUse' = inUse
      /\ UNCHANGED <<max, reserved, prov, topUps, retired, panicked, opt, unreplaced>>
  BY <1>1 DEF Started
<1> HIDE DEF a
<1>4. /\ r \in Slot /\ r.kind = a.kind /\ r.state = "ready" /\ r.leases = a.leases /\ r.env = "up"
      /\ r.err = a.err /\ r.expired = a.expired
  BY <1>1 DEF Slot
<1> HIDE DEF r
<1>5. SlotOK(r, opt) /\ ~r.err
  BY <1>1, <1>2, <1>4 DEF SlotOK
<1>6. World(slots', calls', opt)
  BY <1>0, <1>1, <1>3, <1>4, <1>5, LeasedWorld DEF a
<1>7. \A d \in Callers : calls'[d].holder = calls[d].holder
  BY <1>1, <1>3 DEF Call
<1>8. Counted(calls', inUse')
  BY <1>1, <1>3, <1>7, CountKept
<1>9. Provisioned(slots', prov, topUps, retired, unreplaced)
  BY <1>1, <1>2, <1>3, <1>4, ProvisionedOther DEF a
<1> QED
  BY <1>3, <1>6, <1>8, <1>9, CallKept

\* A call gives up its slot and its unit.
LEMMA LeftStep ==
  ASSUME IInv, NEW c \in Callers, calls[c].pc # "idle", NEW r, SlotOK(r, opt),
         r.leases = slots[calls[c].slot].leases - 1,
         \/ Follows(slots[calls[c].slot], r)
         \/ calls[c].pc = "starting" /\ r.state \in {"ready", "gone"} /\ r.kind = slots[calls[c].slot].kind,
         Provisioned([slots EXCEPT ![calls[c].slot] = r], prov, topUps, retired, unreplaced),
         slots' = [slots EXCEPT ![calls[c].slot] = r], inUse' = Free(calls[c].holder),
         calls' = [calls EXCEPT ![c] = NoCall],
         UNCHANGED <<max, reserved, prov, topUps, retired, panicked, opt, unreplaced>>
  PROVE  IInv'
<1>1. /\ World(slots, calls, opt) /\ Counted(calls, inUse) /\ calls \in [Callers -> Call]
      /\ calls[c].holder \in Limits \cup {Nobody}
  BY CallFacts
<1>2. World(slots', calls', opt)
  BY <1>1, LeftWorld
<1>3. /\ calls'[c].holder = Nobody /\ \A d \in Callers : d # c => calls'[d] = calls[d]
  BY <1>1, CallsSet DEF NoCall
<1>4. Counted(calls', inUse')
  BY <1>1, <1>3, CountFreed
<1> QED
  BY <1>2, <1>4, CallKept

\* The start failed.
LEMMA StartFailedStep == ASSUME IInv, NEW c \in Callers, StartFailed(c) PROVE IInv'
<1> DEFINE s == calls[c].slot
           a == slots[s]
           r == [a EXCEPT !.err = TRUE, !.state = "gone", !.leases = @ - 1]
<1>0. calls[c].pc = "starting" /\ calls[c].pc # "idle"
  BY DEF StartFailed
<1>1. /\ Provisioned(slots, prov, topUps, retired, unreplaced) /\ prov \in Prov
      /\ slots \in [Ids -> Slot]
      /\ s \in Ids /\ a \in Slot /\ SlotOK(a, opt) /\ a.leases \in Nat /\ a.leases > 0
      /\ CallOK(calls[c], slots)
  BY <1>0, CallFacts
<1>2. a.state = "starting" /\ a.kind = "OnDemand" /\ a.env = "none" /\ a.leases - 1 \in Nat
  BY <1>0, <1>1 DEF CallOK, SlotOK
<1>3. /\ slots' = [slots EXCEPT ![s] = r] /\ calls' = [calls EXCEPT ![c] = NoCall]
      /\ inUse' = Free(calls[c].holder)
      /\ UNCHANGED <<max, reserved, prov, topUps, retired, panicked, opt, unreplaced>>
  BY <1>1 DEF StartFailed
<1> HIDE DEF a
<1>4. /\ r.kind = a.kind /\ r.state = "gone" /\ r.leases = a.leases - 1 /\ r.env = a.env
      /\ r.err = TRUE /\ r.expired = a.expired /\ r.park = a.park
  BY <1>1 DEF Slot
<1>5. r \in Slot
  <2> DEFINE b == [a EXCEPT !.err = TRUE]
             d == [b EXCEPT !.state = "gone"]
  <2>1. b \in Slot /\ b.leases = a.leases
    BY <1>1 DEF Slot
  <2>2. r = [d EXCEPT !.leases = @ - 1]
    BY <1>1 DEF Slot
  <2> HIDE DEF b
  <2>3. d \in Slot /\ d.leases = a.leases
    BY <2>1 DEF Slot
  <2> HIDE DEF d, r
  <2> QED
    BY <1>2, <2>2, <2>3 DEF Slot
<1> HIDE DEF r
<1>6. SlotOK(r, opt)
  BY <1>1, <1>2, <1>4, <1>5 DEF SlotOK
<1>7. Provisioned(slots', prov, topUps, retired, unreplaced)
  BY <1>1, <1>2, <1>3, <1>4, <1>5, ProvisionedOther DEF a
<1> QED
  BY <1>0, <1>3, <1>4, <1>6, <1>7, LeftStep DEF a

\* A slot with one lease less.
LEMMA LessLeased ==
  ASSUME NEW a \in Slot, a.leases > 0
  PROVE  LET r == [a EXCEPT !.leases = @ - 1] IN
         /\ r \in Slot /\ r.kind = a.kind /\ r.state = a.state /\ r.leases = a.leases - 1
         /\ r.env = a.env /\ r.err = a.err /\ r.expired = a.expired /\ r.park = a.park
<1>1. a.leases - 1 \in Nat
  BY DEF Slot
<1> QED
  BY <1>1 DEF Slot

\* The start a call joined returned.
LEMMA JoinedStep == ASSUME IInv, NEW c \in Callers, Joined(c) PROVE IInv'
<1> DEFINE s == calls[c].slot
           a == slots[s]
           r == [a EXCEPT !.leases = @ - 1]
<1>0. calls[c].pc = "joining" /\ calls[c].pc # "idle" /\ a.state # "starting"
  BY DEF Joined
<1>1. /\ World(slots, calls, opt) /\ Provisioned(slots, prov, topUps, retired, unreplaced) /\ prov \in Prov
      /\ Counted(calls, inUse) /\ calls \in [Callers -> Call] /\ slots \in [Ids -> Slot]
      /\ s \in Ids /\ a \in Slot /\ SlotOK(a, opt) /\ a.leases \in Nat /\ a.leases > 0
      /\ CallOK(calls[c], slots)
  BY <1>0, CallFacts
<1>2. a.kind = "OnDemand" /\ a.state \in {"ready", "gone"}
  BY <1>0, <1>1 DEF CallOK, Slot
<1>3. CASE a.err
  <2>1. /\ slots' = [slots EXCEPT ![s] = r] /\ calls' = [calls EXCEPT ![c] = NoCall]
        /\ inUse' = Free(calls[c].holder)
        /\ UNCHANGED <<max, reserved, prov, topUps, retired, panicked, opt, unreplaced>>
    BY <1>1, <1>3 DEF Joined
  <2> HIDE DEF a
  <2>2. /\ r \in Slot /\ r.kind = a.kind /\ r.state = a.state /\ r.leases = a.leases - 1
        /\ r.env = a.env /\ r.err = a.err /\ r.expired = a.expired
    BY <1>1, LessLeased
  <2> HIDE DEF r
  <2>3. SlotOK(r, opt)
    BY <1>1, <1>2, <1>3, <2>2 DEF SlotOK
  <2>4. Follows(a, r)
    BY <1>2, <2>2 DEF Follows
  <2>5. Provisioned(slots', prov, topUps, retired, unreplaced)
    BY <1>1, <1>2, <2>1, <2>2, ProvisionedOther DEF a
  <2> QED
    BY <1>0, <2>1, <2>2, <2>3, <2>4, <2>5, LeftStep DEF a
<1>4. CASE ~a.err
  <2>1. /\ slots' = slots /\ calls' = [calls EXCEPT ![c].pc = "leased"] /\ inUse' = inUse
        /\ UNCHANGED <<max, reserved, prov, topUps, retired, panicked, opt, unreplaced>>
    BY <1>1, <1>4 DEF Joined
  <2>2. slots = [slots EXCEPT ![s] = a] /\ Follows(slots[s], a)
    BY <1>1 DEF Follows
  <2>3. World([slots EXCEPT ![s] = a], calls', opt)
    <3>1. a = slots[s]
      OBVIOUS
    <3> HIDE DEF a
    <3> QED
      BY <1>0, <1>1, <1>2, <1>4, <2>1, <2>2, <3>1, LeasedWorld
  <2>4. World(slots', calls', opt)
    BY <2>1, <2>2, <2>3
  <2>5. \A d \in Callers : calls'[d].holder = calls[d].holder
    BY <1>1, <2>1 DEF Call
  <2>6. Counted(calls', inUse')
    BY <1>1, <2>1, <2>5, CountKept
  <2>7. Provisioned(slots', prov, topUps, retired, unreplaced)
    BY <1>1, <2>1
  <2> QED
    BY <2>1, <2>4, <2>6, <2>7, CallKept
<1> QED
  BY <1>3, <1>4

\* A caller gives up joining.
LEMMA JoinCancelledStep == ASSUME IInv, NEW c \in Callers, JoinCancelled(c) PROVE IInv'
<1> DEFINE s == calls[c].slot
           a == slots[s]
           r == [a EXCEPT !.leases = @ - 1]
<1>0. calls[c].pc = "joining" /\ calls[c].pc # "idle" /\ opt.cancellable
  BY DEF JoinCancelled, Cancellable
<1>1. /\ Provisioned(slots, prov, topUps, retired, unreplaced) /\ prov \in Prov /\ slots \in [Ids -> Slot]
      /\ s \in Ids /\ a \in Slot /\ SlotOK(a, opt) /\ a.leases \in Nat /\ a.leases > 0
      /\ CallOK(calls[c], slots)
  BY <1>0, CallFacts
<1>2. a.kind = "OnDemand" /\ a.state # "unused"
  BY <1>0, <1>1 DEF CallOK
<1>3. /\ slots' = [slots EXCEPT ![s] = r] /\ calls' = [calls EXCEPT ![c] = NoCall]
      /\ inUse' = Free(calls[c].holder)
      /\ UNCHANGED <<max, reserved, prov, topUps, retired, panicked, opt, unreplaced>>
  BY <1>1 DEF JoinCancelled
<1> HIDE DEF a
<1>4. /\ r \in Slot /\ r.kind = a.kind /\ r.state = a.state /\ r.leases = a.leases - 1
      /\ r.env = a.env /\ r.err = a.err /\ r.expired = a.expired
  BY <1>1, LessLeased
<1> HIDE DEF r
<1>5. SlotOK(r, opt)
  BY <1>0, <1>1, <1>2, <1>4 DEF SlotOK
<1>6. Follows(a, r)
  BY <1>4 DEF Follows
<1>7. Provisioned(slots', prov, topUps, retired, unreplaced)
  BY <1>1, <1>2, <1>3, <1>4, ProvisionedOther DEF a
<1> QED
  BY <1>0, <1>3, <1>4, <1>5, <1>6, <1>7, LeftStep DEF a

\* The slot of a lease that ended, when the environment leaves the pool.
LEMMA EndedLeaves ==
  ASSUME NEW a, NEW o, SlotOK(a, o), a.leases > 0, a.state \in {"ready", "gone"}, ~a.err,
         NEW r, r = [a EXCEPT !.leases = @ - 1, !.state = "gone",
                              !.env = IF a.leases = 1 THEN "stopped" ELSE @]
  PROVE  /\ SlotOK(r, o) /\ r.leases = a.leases - 1 /\ r.kind = a.kind /\ r.state = "gone" /\ ~r.err
<1>0. a \in Slot /\ a.leases \in Nat /\ a.leases - 1 \in Nat /\ a.env # "stopped"
  BY DEF SlotOK, Slot
<1> DEFINE e == IF a.leases = 1 THEN "stopped" ELSE a.env
           b == [a EXCEPT !.leases = @ - 1]
           d == [b EXCEPT !.state = "gone"]
<1>1. /\ b \in Slot /\ b.kind = a.kind /\ b.leases = a.leases - 1
      /\ b.env = a.env /\ b.err = a.err /\ b.expired = a.expired
  BY <1>0, LessLeased
<1>2. r = [d EXCEPT !.env = e]
  BY <1>0 DEF Slot
<1>3. e \in {"none", "up", "exited", "stopped"}
  BY <1>0 DEF Slot
<1> HIDE DEF b
<1>4. /\ d \in Slot /\ d.kind = a.kind /\ d.leases = a.leases - 1 /\ d.state = "gone"
      /\ d.err = a.err /\ d.expired = a.expired
  BY <1>1 DEF Slot
<1> HIDE DEF d, e
<1>5. /\ r \in Slot /\ r.kind = a.kind /\ r.leases = a.leases - 1 /\ r.state = "gone"
      /\ r.env = e /\ r.err = a.err /\ r.expired = a.expired
  BY <1>2, <1>3, <1>4 DEF Slot
<1>6. e = "stopped" <=> a.leases = 1
  BY <1>0 DEF e
<1>7. SlotOK(r, o)
  BY <1>0, <1>5, <1>6 DEF SlotOK
<1> QED
  BY <1>5, <1>7

\* The slot of a lease that ended, when the environment stays.
LEMMA EndedParks ==
  ASSUME NEW a, NEW o, SlotOK(a, o), a.leases > 0, a.state = "ready",
         NEW r, r = [a EXCEPT !.leases = @ - 1, !.park = IF a.leases = 1 THEN "open" ELSE @]
  PROVE  /\ SlotOK(r, o) /\ r.leases = a.leases - 1 /\ r.kind = a.kind /\ r.state = "ready" /\ ~r.err
<1>0. a \in Slot /\ a.leases \in Nat /\ a.leases - 1 \in Nat /\ a.env # "stopped" /\ ~a.err
  BY DEF SlotOK, Slot
<1> DEFINE e == IF a.leases = 1 THEN "open" ELSE a.park
           b == [a EXCEPT !.leases = @ - 1]
<1>1. /\ b \in Slot /\ b.kind = a.kind /\ b.leases = a.leases - 1 /\ b.state = a.state
      /\ b.env = a.env /\ b.err = a.err /\ b.expired = a.expired
  BY <1>0, LessLeased
<1>2. r = [b EXCEPT !.park = e]
  BY <1>0 DEF Slot
<1>3. e \in {"nil", "open", "closed"}
  BY <1>0 DEF Slot
<1> HIDE DEF b, e
<1>5. /\ r \in Slot /\ r.kind = a.kind /\ r.leases = a.leases - 1 /\ r.state = "ready"
      /\ r.env = a.env /\ r.err = a.err /\ r.expired = a.expired /\ r.park = e
  BY <1>1, <1>2, <1>3 DEF Slot
<1>6. a.leases - 1 = 0 => e = "open"
  BY <1>0 DEF e
<1>7. SlotOK(r, o)
  BY <1>0, <1>5, <1>6 DEF SlotOK
<1> QED
  BY <1>0, <1>5, <1>7

\* An invocation ends.
LEMMA EndStep == ASSUME IInv, NEW c \in Callers, NEW discard \in BOOLEAN, End(c, discard) PROVE IInv'
<1> DEFINE s == calls[c].slot
           a == slots[s]
           r == Ended(s, discard)
           T == [slots EXCEPT ![s] = r]
<1>0. calls[c].pc = "leased" /\ calls[c].pc # "idle"
  BY DEF End
<1>1. /\ World(slots, calls, opt) /\ Provisioned(slots, prov, topUps, retired, unreplaced) /\ prov \in Prov
      /\ Counted(calls, inUse) /\ calls \in [Callers -> Call] /\ slots \in [Ids -> Slot]
      /\ calls[c].holder \in Limits \cup {Nobody}
      /\ s \in Ids /\ a \in Slot /\ SlotOK(a, opt) /\ a.leases \in Nat /\ a.leases > 0
      /\ CallOK(calls[c], slots)
  BY <1>0, CallFacts
<1>2. a.state \in {"ready", "gone"} /\ ~a.err
  BY <1>0, <1>1 DEF CallOK
<1>3. /\ slots' = T /\ calls' = [calls EXCEPT ![c] = NoCall] /\ inUse' = Free(calls[c].holder)
      /\ topUps' = (IF discard /\ a.kind = "Provisioned" /\ ~retired THEN topUps + 1 ELSE topUps)
      /\ unreplaced' = (IF Lapses(s, discard) THEN Unreplaced({s}) ELSE unreplaced)
      /\ UNCHANGED <<max, reserved, prov, retired, panicked, opt>>
  BY DEF End
<1>u. /\ unreplaced \subseteq unreplaced' /\ unreplaced \in SUBSET Ids /\ unreplaced' \in SUBSET Ids
      /\ a.kind = "OnDemand" => unreplaced' = unreplaced
      /\ (a.kind = "Provisioned" /\ a.expired /\ a.state = "ready" /\ ~discard /\ ~ExcessProvisioned(s))
            => s \in unreplaced'
      /\ ~a.expired => unreplaced' = unreplaced
  BY <1>1, <1>3 DEF Lapses, Unreplaced, Provisioned
<1> DEFINE leaves == a.state = "gone" \/ discard \/ retired \/ ExcessProvisioned(s) \/ a.expired
<1>4. /\ leaves => r = [a EXCEPT !.leases = @ - 1, !.state = "gone",
                                 !.env = IF a.leases = 1 THEN "stopped" ELSE @]
      /\ ~leaves => r = [a EXCEPT !.leases = @ - 1, !.park = IF a.leases = 1 THEN "open" ELSE @]
  BY DEF Ended
<1> HIDE DEF r, a
<1>5. /\ SlotOK(r, opt) /\ r.leases = a.leases - 1 /\ r.kind = a.kind /\ ~r.err
      /\ r.state = IF leaves THEN "gone" ELSE "ready"
  <2>1. CASE leaves
    BY <1>1, <1>2, <1>4, <2>1, EndedLeaves
  <2>2. CASE ~leaves
    BY <1>1, <1>2, <1>4, <2>2, EndedParks
  <2> QED
    BY <2>1, <2>2
<1>6. r \in Slot /\ r.leases \in Nat /\ topUps \in Nat /\ topUps' \in Nat
  BY <1>3, <1>5 DEF SlotOK, Slot, IInv, Rest
<1>7. Follows(a, r)
  BY <1>2, <1>5 DEF Follows
<1>8. World(slots', calls', opt)
  BY <1>0, <1>1, <1>3, <1>5, <1>7, LeftWorld DEF a
<1>9. /\ calls'[c].holder = Nobody /\ \A d \in Callers : d # c => calls'[d] = calls[d]
  BY <1>1, <1>3, CallsSet DEF NoCall
<1>10. Counted(calls', inUse')
  BY <1>1, <1>3, <1>9, CountFreed
<1>11. T[s] = r /\ \A t \in Ids : t # s => T[t] = slots[t]
  BY <1>1
<1> HIDE DEF T
<1>12. Provisioned(T, prov, topUps', retired, unreplaced')
  <2>1. ProvisionedIn(slots) \ {s} \subseteq ProvisionedIn(T)
    BY <1>11 DEF ProvisionedIn, Listed
  <2>2. leaves => ProvisionedIdle(T) \subseteq ProvisionedIdle(slots)
    BY <1>5, <1>11 DEF ProvisionedIdle, Idle
  <2>3. CASE retired
    BY <1>u, <2>3 DEF Provisioned
  <2>4. CASE ~retired /\ a.kind = "OnDemand"
    <3>1. topUps' = topUps /\ unreplaced' = unreplaced
      BY <1>3, <1>u, <2>4
    <3>2. Provisioned(T, prov, topUps, retired, unreplaced)
      BY <1>1, <1>5, <1>6, <2>4, ProvisionedOther DEF T, a
    <3> QED
      BY <3>1, <3>2
  <2>5. CASE ~retired /\ a.kind = "Provisioned"
    <3>1. CASE discard
      <4>1. topUps' = topUps + 1 /\ leaves
        BY <1>3, <2>5, <3>1
      <4> QED
        BY <1>1, <1>6, <1>u, <2>1, <2>2, <4>1, ProvisionedLess
    <3>2. CASE ~discard
      <4>0. topUps' = topUps
        BY <1>3, <3>2
      <4>1. CASE a.state = "gone"
        <5>1. ProvisionedIn(slots) \subseteq ProvisionedIn(T)
          BY <1>11, <4>1 DEF ProvisionedIn, Listed, a
        <5>2. ProvisionedIn(slots) \cup unreplaced \subseteq ProvisionedIn(T) \cup unreplaced'
          BY <1>u, <5>1
        <5> QED
          BY <1>1, <1>u, <2>2, <4>0, <4>1, <5>2, ProvisionedKept
      <4>2. CASE ExcessProvisioned(s)
        <5>1. Cardinality(ProvisionedIn(slots)) > prov.requested
          BY <4>2 DEF ExcessProvisioned
        <5> QED
          BY <1>1, <1>6, <1>u, <2>1, <2>2, <4>0, <4>2, <5>1, ProvisionedLess
      <4>3. CASE a.expired /\ a.state = "ready" /\ ~ExcessProvisioned(s)
        <5>1. s \in unreplaced'
          BY <1>u, <2>5, <3>2, <4>3
        <5>2. ProvisionedIn(slots) \cup unreplaced \subseteq ProvisionedIn(T) \cup unreplaced'
          BY <1>u, <2>1, <5>1
        <5> QED
          BY <1>1, <1>u, <2>2, <4>0, <4>3, <5>2, ProvisionedKept
      <4>4. CASE ~leaves
        <5>1. ~(Cardinality(ProvisionedIn(slots)) > prov.requested)
          BY <2>5, <4>4 DEF ExcessProvisioned, a
        <5>2. a.state = "ready" /\ r.state = "ready"
          BY <1>2, <1>5, <4>4
        <5>3. ProvisionedIn(slots) = ProvisionedIn(T)
          BY <1>5, <1>11, <5>2 DEF ProvisionedIn, Listed, a
        <5>4. unreplaced' = unreplaced
          BY <1>u, <4>4
        <5> QED
          BY <1>1, <4>0, <5>1, <5>3, <5>4, ProvisionedParked
      <4> QED
        BY <1>2, <2>5, <3>2, <4>1, <4>2, <4>3, <4>4
    <3> QED
      BY <3>1, <3>2
  <2>6. a.kind \in {"OnDemand", "Provisioned"} /\ retired \in BOOLEAN
    BY <1>1 DEF Slot, IInv, Rest
  <2> QED
    BY <2>3, <2>4, <2>5, <2>6
<1>13. Rest'
  BY <1>3, <1>6 DEF IInv, Rest
<1>14. Reserved(prov', reserved') /\ (~opt'.cancellable => ~panicked')
  BY <1>3 DEF IInv
<1> QED
  BY <1>3, <1>8, <1>10, <1>12, <1>13, <1>14, Primed

-----------------------------------------------------------------------------
(* The steps of environments, of Provision and of Retire *)

\* A step that changes slots and calls of topUp.
LEMMA SlotStep ==
  ASSUME IInv, World(slots', calls, opt), topUps' \in Nat,
         Provisioned(slots', prov, topUps', retired, unreplaced),
         UNCHANGED <<calls, max, inUse, reserved, prov, retired, panicked, opt, unreplaced>>
  PROVE  IInv'
<1>1. /\ calls' = calls /\ max' = max /\ inUse' = inUse /\ reserved' = reserved /\ prov' = prov
      /\ retired' = retired /\ panicked' = panicked /\ opt' = opt /\ unreplaced' = unreplaced
  OBVIOUS
<1>2. Rest'
  BY <1>1 DEF IInv, Rest
<1> QED
  BY <1>1, <1>2, Primed DEF IInv

\* What the invariant says of a slot.
LEMMA SlotFacts ==
  ASSUME IInv, NEW s \in Ids
  PROVE  /\ World(slots, calls, opt) /\ Provisioned(slots, prov, topUps, retired, unreplaced) /\ prov \in Prov
         /\ slots \in [Ids -> Slot] /\ slots[s] \in Slot /\ SlotOK(slots[s], opt)
         /\ topUps \in Nat /\ retired \in BOOLEAN
  BY DEF IInv, World, Reserved, Rest

\* An environment exits.
LEMMA ExitStep == ASSUME IInv, NEW s \in Ids, Exit(s) PROVE IInv'
<1> DEFINE a == slots[s]
           r == [a EXCEPT !.env = "exited"]
<1>1. /\ World(slots, calls, opt) /\ Provisioned(slots, prov, topUps, retired, unreplaced) /\ prov \in Prov
      /\ slots \in [Ids -> Slot] /\ a \in Slot /\ SlotOK(a, opt) /\ topUps \in Nat
  BY SlotFacts
<1>2. /\ a.env = "up" /\ slots' = [slots EXCEPT ![s] = r] /\ topUps' = topUps
      /\ UNCHANGED <<calls, max, inUse, reserved, prov, retired, panicked, opt, unreplaced>>
  BY DEF Exit
<1> HIDE DEF a
<1>3. /\ r \in Slot /\ r.kind = a.kind /\ r.state = a.state /\ r.leases = a.leases /\ r.park = a.park
      /\ r.env = "exited" /\ r.err = a.err /\ r.expired = a.expired
  BY <1>1 DEF Slot
<1> HIDE DEF r
<1>4. a.state # "unused"
  BY <1>1, <1>2 DEF SlotOK, Unused
<1>5. SlotOK(r, opt)
  BY <1>1, <1>2, <1>3, <1>4 DEF SlotOK
<1>6. Follows(a, r)
  BY <1>3 DEF Follows
<1>7. World(slots', calls, opt)
  BY <1>1, <1>2, <1>3, <1>5, <1>6, ChangedSlot DEF a
<1>8. Provisioned(slots', prov, topUps, retired, unreplaced)
  BY <1>1, <1>2, <1>3, ProvisionedOther DEF a
<1> QED
  BY <1>1, <1>2, <1>7, <1>8, SlotStep

\* An environment expires.
LEMMA ExpireStep == ASSUME IInv, NEW s \in Ids, Expire(s) PROVE IInv'
<1> DEFINE a == slots[s]
           r == [a EXCEPT !.expired = TRUE]
<1>1. /\ World(slots, calls, opt) /\ Provisioned(slots, prov, topUps, retired, unreplaced) /\ prov \in Prov
      /\ slots \in [Ids -> Slot] /\ a \in Slot /\ SlotOK(a, opt) /\ topUps \in Nat
  BY SlotFacts
<1>2. /\ opt.expiring /\ a.state = "ready" /\ slots' = [slots EXCEPT ![s] = r] /\ topUps' = topUps
      /\ UNCHANGED <<calls, max, inUse, reserved, prov, retired, panicked, opt, unreplaced>>
  BY DEF Expire, Expiring
<1> HIDE DEF a
<1>3. /\ r \in Slot /\ r.kind = a.kind /\ r.state = a.state /\ r.leases = a.leases /\ r.park = a.park
      /\ r.env = a.env /\ r.err = a.err
  BY <1>1 DEF Slot
<1> HIDE DEF r
<1>5. SlotOK(r, opt)
  BY <1>1, <1>2, <1>3 DEF SlotOK
<1>6. Follows(a, r)
  BY <1>3 DEF Follows
<1>7. World(slots', calls, opt)
  BY <1>1, <1>2, <1>3, <1>5, <1>6, ChangedSlot DEF a
<1>8. Provisioned(slots', prov, topUps, retired, unreplaced)
  BY <1>1, <1>2, <1>3, ProvisionedOther DEF a
<1> QED
  BY <1>1, <1>2, <1>7, <1>8, SlotStep

\* A watch stops its idle environment.
LEMMA WatchStep == ASSUME IInv, NEW s \in Ids, Watch(s) PROVE IInv'
<1> DEFINE T == Retired(slots, {s})
           kind == slots[s].kind
<1>1. /\ World(slots, calls, opt) /\ Provisioned(slots, prov, topUps, retired, unreplaced) /\ prov \in Prov
      /\ kind \in {"OnDemand", "Provisioned"} /\ topUps \in Nat /\ retired \in BOOLEAN
  BY SlotFacts DEF Slot
<1>2. /\ s \in Idle(slots) /\ slots' = T
      /\ topUps' = (IF kind = "Provisioned" /\ ~retired THEN topUps + 1 ELSE topUps)
      /\ UNCHANGED <<calls, max, inUse, reserved, prov, retired, panicked, opt, unreplaced>>
  BY DEF Watch
<1>3. {s} \subseteq Idle(slots)
  BY <1>2
<1>4. /\ World(T, calls, opt) /\ \A t \in Ids : t # s => T[t] = slots[t]
      /\ T[s].state = "gone"
  BY <1>1, <1>3, RetiredWorld
<1> HIDE DEF T
<1>5. /\ ProvisionedIdle(T) \subseteq ProvisionedIdle(slots)
      /\ ProvisionedIn(slots) \ {s} \subseteq ProvisionedIn(T)
  BY <1>4 DEF ProvisionedIdle, ProvisionedIn, Idle, Listed
<1>6. topUps' \in Nat
  BY <1>1, <1>2
<1>u. unreplaced \in SUBSET Ids
  BY <1>1 DEF Provisioned
<1>7. Provisioned(T, prov, topUps', retired, unreplaced)
  <2>1. CASE retired
    BY <1>u, <2>1 DEF Provisioned
  <2>2. CASE ~retired /\ kind = "Provisioned"
    <3>1. topUps' = topUps + 1
      BY <1>2, <2>2
    <3> QED
      BY <1>1, <1>5, <1>6, <1>u, <3>1, ProvisionedLess
  <2>3. CASE kind = "OnDemand"
    <3>1. ProvisionedIn(slots) \subseteq ProvisionedIn(T) /\ topUps' = topUps
      BY <1>2, <1>5, <2>3 DEF ProvisionedIn
    <3>2. ProvisionedIn(slots) \cup unreplaced \subseteq ProvisionedIn(T) \cup unreplaced
      BY <3>1
    <3> QED
      BY <1>1, <1>5, <1>u, <3>1, <3>2, ProvisionedKept
  <2> QED
    BY <1>1, <2>1, <2>2, <2>3
<1> QED
  BY <1>2, <1>4, <1>6, <1>7, SlotStep

\* A provisioned start returned.
LEMMA StartProvisionedStep == ASSUME IInv, NEW s \in Ids, StartProvisioned(s) PROVE IInv'
<1> DEFINE a == slots[s]
           leaves == retired \/ ExcessProvisioned(s)
           g == [a EXCEPT !.state = "gone", !.env = "stopped"]
           w == [a EXCEPT !.state = "ready", !.env = "up", !.park = "open"]
           r == IF leaves THEN g ELSE w
           T == [slots EXCEPT ![s] = r]
<1>1. /\ World(slots, calls, opt) /\ Provisioned(slots, prov, topUps, retired, unreplaced) /\ prov \in Prov
      /\ slots \in [Ids -> Slot] /\ a \in Slot /\ SlotOK(a, opt) /\ topUps \in Nat /\ retired \in BOOLEAN
  BY SlotFacts
<1>2. /\ a.state = "starting" /\ a.kind = "Provisioned" /\ slots' = T /\ topUps' = topUps
      /\ UNCHANGED <<calls, max, inUse, reserved, prov, retired, panicked, opt, unreplaced>>
  BY <1>1 DEF StartProvisioned
<1>3. a.leases = 0 /\ ~a.err
  BY <1>1, <1>2 DEF SlotOK
<1> HIDE DEF a
<1>4. /\ g \in Slot /\ g.kind = a.kind /\ g.state = "gone" /\ g.leases = a.leases
      /\ g.env = "stopped" /\ g.err = a.err /\ g.expired = a.expired
  BY <1>1 DEF Slot
<1>5. /\ w \in Slot /\ w.kind = a.kind /\ w.state = "ready" /\ w.leases = a.leases
      /\ w.env = "up" /\ w.err = a.err /\ w.expired = a.expired /\ w.park = "open"
  BY <1>1 DEF Slot
<1> HIDE DEF g, w
<1>6. /\ SlotOK(r, opt) /\ r \in Slot /\ r.leases = a.leases /\ r.kind = "Provisioned"
      /\ r.state = IF leaves THEN "gone" ELSE "ready"
  <2>1. SlotOK(g, opt)
    BY <1>1, <1>3, <1>4 DEF SlotOK
  <2>2. SlotOK(w, opt)
    BY <1>1, <1>3, <1>5 DEF SlotOK
  <2> QED
    BY <1>2, <1>4, <1>5, <2>1, <2>2
<1> HIDE DEF r
<1>7. Follows(a, r)
  BY <1>2, <1>6 DEF Follows
<1>8. World(T, calls, opt)
  BY <1>1, <1>6, <1>7, ChangedSlot DEF a
<1>9. T[s] = r /\ \A t \in Ids : t # s => T[t] = slots[t]
  BY <1>1
<1> HIDE DEF T
<1>u. unreplaced \in SUBSET Ids
  BY <1>1 DEF Provisioned
<1>10. Provisioned(T, prov, topUps, retired, unreplaced)
  <2>1. CASE retired
    BY <1>u, <2>1 DEF Provisioned
  <2>2. CASE ExcessProvisioned(s)
    <3>1. /\ ProvisionedIdle(T) \subseteq ProvisionedIdle(slots)
          /\ ProvisionedIn(slots) \ {s} \subseteq ProvisionedIn(T)
      BY <1>6, <1>9, <2>2 DEF ProvisionedIdle, ProvisionedIn, Idle, Listed
    <3>2. Cardinality(ProvisionedIn(slots)) > prov.requested
      BY <2>2 DEF ExcessProvisioned
    <3> QED
      BY <1>1, <1>u, <3>1, <3>2, ProvisionedLess
  <2>3. CASE ~leaves
    <3>1. ProvisionedIn(slots) = ProvisionedIn(T)
      BY <1>2, <1>6, <1>9, <2>3 DEF ProvisionedIn, Listed, a
    <3>2. ~(Cardinality(ProvisionedIn(slots)) > prov.requested)
      BY <1>2, <2>3 DEF ExcessProvisioned, a
    <3> QED
      BY <1>1, <3>1, <3>2, ProvisionedParked
  <2> QED
    BY <2>1, <2>2, <2>3
<1> QED
  BY <1>1, <1>2, <1>8, <1>10, SlotStep

\* A provisioned start failed.
LEMMA StartProvisionedFailedStep == ASSUME IInv, NEW s \in Ids, StartProvisionedFailed(s) PROVE IInv'
<1> DEFINE a == slots[s]
           r == [a EXCEPT !.state = "gone", !.err = TRUE]
           T == [slots EXCEPT ![s] = r]
<1>1. /\ World(slots, calls, opt) /\ Provisioned(slots, prov, topUps, retired, unreplaced) /\ prov \in Prov
      /\ slots \in [Ids -> Slot] /\ a \in Slot /\ SlotOK(a, opt) /\ topUps \in Nat /\ retired \in BOOLEAN
  BY SlotFacts
<1>2. /\ a.state = "starting" /\ a.kind = "Provisioned" /\ slots' = T /\ topUps' = topUps
      /\ prov' = [prov EXCEPT !.err = @ \/ ~retired]
      /\ UNCHANGED <<calls, max, inUse, reserved, retired, panicked, opt, unreplaced>>
  BY <1>1 DEF StartProvisionedFailed
<1>3. a.leases = 0 /\ a.env = "none"
  BY <1>1, <1>2 DEF SlotOK
<1> HIDE DEF a
<1>4. /\ r \in Slot /\ r.kind = a.kind /\ r.state = "gone" /\ r.leases = a.leases
      /\ r.env = a.env /\ r.expired = a.expired
  BY <1>1 DEF Slot
<1> HIDE DEF r
<1>6. SlotOK(r, opt)
  BY <1>1, <1>3, <1>4 DEF SlotOK
<1>7. Follows(a, r)
  BY <1>2, <1>4 DEF Follows
<1>8. World(T, calls, opt)
  BY <1>1, <1>4, <1>6, <1>7, ChangedSlot DEF a
<1>9. T[s] = r /\ \A t \in Ids : t # s => T[t] = slots[t]
  BY <1>1
<1> HIDE DEF T
<1>10. /\ prov' \in Prov /\ prov'.requested = prov.requested /\ prov'.holder = prov.holder
       /\ prov'.reserved = prov.reserved /\ (~retired => prov'.err)
  BY <1>1, <1>2 DEF Prov
<1>11. Provisioned(T, prov', topUps, retired, unreplaced)
  <2>1. ProvisionedIdle(T) \subseteq ProvisionedIdle(slots) /\ ProvisionedIdle(slots) \in SUBSET Ids
    BY <1>4, <1>9 DEF ProvisionedIdle, Idle
  <2>2. /\ Cardinality(ProvisionedIdle(T)) <= Cardinality(ProvisionedIdle(slots))
        /\ Cardinality(ProvisionedIdle(T)) \in Nat /\ Cardinality(ProvisionedIdle(slots)) \in Nat
        /\ prov.requested \in Nat
    BY <1>1, <2>1, SlotSubset, ProvisionedSets DEF Prov
  <2> QED
    BY <1>1, <1>10, <2>2 DEF Provisioned
<1>12. Reserved(prov', reserved')
  BY <1>2, <1>10 DEF IInv, Reserved
<1>13. Rest' /\ Counted(calls', inUse') /\ (~opt'.cancellable => ~panicked')
  BY <1>2 DEF IInv, Rest
<1> QED
  BY <1>2, <1>8, <1>11, <1>12, <1>13, Primed

\* The first k of a set of slots are k.
LEMMA FirstSlots ==
  ASSUME NEW X \in SUBSET Ids, NEW k \in Int, k <= Cardinality(X)
  PROVE  Cardinality({s \in X : Cardinality({t \in X : t < s}) < k}) >= k
<1> DEFINE Before(s) == {t \in X : t < s}
           Y == {s \in X : Cardinality(Before(s)) < k}
<1>1. Y \in SUBSET Ids /\ Y \subseteq X /\ X \ Y \in SUBSET Ids /\ \A s \in X : Before(s) \in SUBSET Ids
  OBVIOUS
<1>2. X \in SUBSET Nat /\ Cardinality(Y) \in Nat /\ Cardinality(X) \in Nat
  BY <1>1, SlotSets
<1>3. \A s \in X : s \notin Y => ~(Cardinality(Before(s)) < k)
  OBVIOUS
<1> HIDE DEF Y
<1>4. CASE X \ Y = {}
  <2>1. Y = X
    BY <1>1, <1>4
  <2>2. Cardinality(Y) >= k
    BY <1>2, <2>1
  <2> QED
    BY <2>2 DEF Y
<1>5. CASE X \ Y # {}
  <2> DEFINE m == Least(X \ Y)
  <2>1. m \in X \ Y /\ \A t \in X \ Y : m <= t
    BY <1>1, <1>5, LeastSlot
  <2> HIDE DEF m
  <2>2. Before(m) \subseteq Y
    <3>1. ASSUME NEW t \in X, t < m, t \notin Y PROVE FALSE
      BY <1>2, <2>1, <3>1
    <3> QED
      BY <3>1
  <2>3. ~(Cardinality(Before(m)) < k) /\ Before(m) \in SUBSET Ids
    BY <1>1, <1>3, <2>1
  <2> HIDE DEF Before
  <2>4. Cardinality(Before(m)) <= Cardinality(Y) /\ Cardinality(Before(m)) \in Nat
    BY <1>1, <2>2, <2>3, SlotSubset, SlotSets
  <2>5. Cardinality(Y) >= k
    BY <1>2, <2>3, <2>4
  <2> QED
    BY <2>5 DEF Y, Before
<1> QED
  BY <1>4, <1>5

\* Without its last k, a set of slots is k smaller, or empty.
LEMMA LastSlots ==
  ASSUME NEW X \in SUBSET Ids, NEW k \in Int
  PROVE  LET Y == {s \in X : ~(Cardinality({t \in X : t > s}) < k)}
         IN  Y = {} \/ Cardinality(Y) + k <= Cardinality(X)
<1> DEFINE After(s) == {t \in X : t > s}
           Y == {s \in X : ~(Cardinality(After(s)) < k)}
<1>1. Y \in SUBSET Ids /\ Y \subseteq X /\ \A s \in X : After(s) \in SUBSET Ids
  OBVIOUS
<1>2. X \in SUBSET Nat /\ Cardinality(Y) \in Nat /\ Cardinality(X) \in Nat
  BY <1>1, SlotSets
<1>3. \A s \in Y : s \in X /\ ~(Cardinality(After(s)) < k)
  OBVIOUS
<1> HIDE DEF Y
<1>4. ASSUME Y # {} PROVE Cardinality(Y) + k <= Cardinality(X)
  <2>1. PICK m \in Y : \A t \in Y : t <= m
    BY <1>1, <1>4, LastSlot
  <2>2. m \in X /\ ~(Cardinality(After(m)) < k)
    BY <1>3
  <2>3. Y \cap After(m) = {} /\ After(m) \in SUBSET Ids /\ Y \cup After(m) \subseteq X
    <3>1. \A t \in Y : ~(t > m)
      BY <1>1, <1>2, <2>1
    <3> QED
      BY <1>1, <2>2, <3>1
  <2> HIDE DEF After
  <2>4. Cardinality(Y \cup After(m)) = Cardinality(Y) + Cardinality(After(m))
    BY <1>1, <2>3, SlotDisjoint
  <2>5. Cardinality(Y \cup After(m)) <= Cardinality(X) /\ Cardinality(After(m)) \in Nat
    BY <1>1, <2>3, SlotSubset, SlotSets
  <2> QED
    BY <1>2, <2>2, <2>4, <2>5
<1>5. Y = {} \/ Cardinality(Y) + k <= Cardinality(X)
  BY <1>4
<1> QED
  BY <1>5 DEF Y

\* Provision(n) stops idle provisioned environments until no more than n are
\* left idle.
LEMMA SurplusFacts ==
  ASSUME NEW n \in Nat
  PROVE  /\ Surplus(n) \subseteq Idle(slots)
         /\ Cardinality(ProvisionedIdle(slots) \ Surplus(n)) <= n
<1> DEFINE P == ProvisionedIn(slots)
           D == ProvisionedIdle(slots)
           k == Cardinality(P) - n
           Y == {s \in D : ~(Cardinality({t \in D : t > s}) < k)}
<1>1. /\ P \in SUBSET Ids /\ D \in SUBSET P /\ D \in SUBSET Ids /\ Cardinality(P) \in Nat
      /\ Cardinality(D) \in Nat /\ Cardinality(D) <= Cardinality(P)
  BY ProvisionedSets
<1>2. Surplus(n) = {s \in D : Cardinality({t \in D : t > s}) < k}
  BY DEF Surplus, ProvisionedIdle
<1>3. Surplus(n) \subseteq Idle(slots) /\ D \ Surplus(n) = Y
  BY <1>2 DEF ProvisionedIdle
<1> HIDE DEF P, D
<1>4. k \in Int
  BY <1>1
<1> HIDE DEF k
<1>5. Y = {} \/ Cardinality(Y) + k <= Cardinality(D)
  BY <1>1, <1>4, LastSlots
<1>6. Y \in SUBSET Ids
  BY <1>1
<1> HIDE DEF Y
<1>7. Cardinality(Y) \in Nat
  BY <1>6, SlotSets
<1>8. CASE Y = {}
  <2>1. Cardinality(Y) = 0
    BY <1>8, FS_EmptySet
  <2>2. Cardinality(D \ Surplus(n)) <= n
    BY <1>3, <2>1
  <2> QED
    BY <1>3, <2>2 DEF D
<1>9. CASE Cardinality(Y) + k <= Cardinality(D)
  <2>1. Cardinality(Y) <= n
    BY <1>1, <1>7, <1>9 DEF k
  <2>2. Cardinality(D \ Surplus(n)) <= n
    BY <1>3, <2>1
  <2> QED
    BY <1>3, <2>2 DEF D
<1> QED
  BY <1>5, <1>8, <1>9

\* Returning the reservation leaves none.
LEMMA UnreserveZero ==
  ASSUME Reserved(prov, reserved)
  PROVE  Unreserve \in [Limits -> Nat] /\ \A l \in Limits : Unreserve[l] = 0
<1>1. prov.holder \in Limits \cup {Nobody} /\ prov.reserved \in Nat /\ Nobody \notin Limits
  BY DEF Reserved, Prov, Limits, Nobody
<1>2. reserved \in [Limits -> Nat]
      /\ \A l \in Limits : reserved[l] = IF prov.holder = l THEN prov.reserved ELSE 0
  BY DEF Reserved
<1>3. CASE prov.holder = Nobody
  BY <1>1, <1>2, <1>3 DEF Unreserve
<1>4. CASE prov.holder # Nobody
  <2>1. Unreserve = [reserved EXCEPT ![prov.holder] = @ - prov.reserved] /\ prov.holder \in Limits
    BY <1>1, <1>4 DEF Unreserve
  <2>2. \A l \in Limits : Unreserve[l] = 0
    BY <1>1, <1>2, <2>1
  <2>3. Unreserve = [l \in Limits |-> Unreserve[l]]
    BY <1>2, <2>1
  <2> QED
    BY <2>2, <2>3
<1> QED
  BY <1>3, <1>4

\* Reserving n with the owner, or nothing.
LEMMA ReserveStep ==
  ASSUME Reserved(prov, reserved), NEW p \in Prov, NEW h, h \in Limits \cup {Nobody},
         p.holder = h
  PROVE  Reserved(p, IF h = Nobody THEN Unreserve ELSE [Unreserve EXCEPT ![h] = @ + p.reserved])
<1> DEFINE res == IF h = Nobody THEN Unreserve ELSE [Unreserve EXCEPT ![h] = @ + p.reserved]
<1>1. Unreserve \in [Limits -> Nat] /\ \A l \in Limits : Unreserve[l] = 0
  BY UnreserveZero
<1>2. Nobody \notin Limits /\ p.reserved \in Nat
  BY DEF Limits, Nobody, Prov
<1>3. res \in [Limits -> Nat]
  BY <1>1, <1>2
<1>4. \A l \in Limits : res[l] = IF p.holder = l THEN p.reserved ELSE 0
  BY <1>1, <1>2
<1> HIDE DEF res
<1>5. Reserved(p, res)
  BY <1>3, <1>4 DEF Reserved
<1> QED
  BY <1>5 DEF res

\* Who reserves.
LEMMA OwnerType == Owner \in Limits \cup {Nobody}
  BY DEF Owner, Limits

\* Provision reserves n, stops what is too many and calls topUp.
LEMMA ProvisionStep == ASSUME IInv, NEW n \in Provisions, Provision(n) PROVE IInv'
<1> DEFINE h == IF n = 0 THEN Nobody ELSE Owner
           T == Retired(slots, Surplus(n))
<1>0. n \in Nat
  BY PoolAssumption DEF IInv, Rest, Provisions
<1>1. /\ World(slots, calls, opt) /\ Reserved(prov, reserved) /\ prov \in Prov /\ topUps \in Nat
      /\ unreplaced \in SUBSET Ids
  BY DEF IInv, Rest, Reserved, Provisioned
<1>2. Surplus(n) \subseteq Idle(slots) /\ Cardinality(ProvisionedIdle(slots) \ Surplus(n)) <= n
  BY <1>0, SurplusFacts
<1>3. CASE ClosesNil(slots, Surplus(n))
  <2>1. opt.cancellable
    BY <1>1, <1>2, <1>3, ClosesOpen
  <2>2. Panic
    BY <1>3 DEF Provision
  <2> QED
    BY <2>1, <2>2, PanicStep
<1>4. CASE ~ClosesNil(slots, Surplus(n))
  <2>1. /\ prov' = [requested |-> n, holder |-> h, reserved |-> n, err |-> prov.err /\ n = prov.requested]
        /\ reserved' = IF h = Nobody THEN Unreserve ELSE [Unreserve EXCEPT ![h] = @ + n]
        /\ slots' = T /\ topUps' = topUps + 1
        /\ calls' = calls /\ max' = max /\ inUse' = inUse /\ retired' = retired
        /\ panicked' = panicked /\ opt' = opt /\ unreplaced' = unreplaced
    BY <1>4 DEF Provision
  <2>2. h \in Limits \cup {Nobody}
    BY OwnerType
  <2> HIDE DEF h
  <2>3. prov' \in Prov /\ prov'.requested = n /\ prov'.holder = h /\ prov'.reserved = n
    BY <1>0, <2>1, <2>2 DEF Prov
  <2>4. Reserved(prov', reserved')
    BY <1>1, <2>1, <2>2, <2>3, ReserveStep
  <2>5. /\ World(T, calls, opt) /\ \A s \in Ids : s \notin Surplus(n) => T[s] = slots[s]
        /\ \A s \in Surplus(n) : T[s].state = "gone"
    BY <1>1, <1>2, RetiredWorld
  <2> HIDE DEF T
  <2>6. ProvisionedIdle(T) = ProvisionedIdle(slots) \ Surplus(n)
    BY <2>5 DEF ProvisionedIdle, Idle
  <2>7. Cardinality(ProvisionedIdle(T)) <= n
    BY <1>2, <2>6
  <2>8. topUps' # 0 /\ topUps' \in Nat
    BY <1>1, <2>1
  <2>9. Provisioned(T, prov', topUps', retired', unreplaced')
    BY <1>1, <2>1, <2>3, <2>7, <2>8 DEF Provisioned
  <2>10. Rest' /\ Counted(calls', inUse') /\ (~opt'.cancellable => ~panicked')
    BY <2>1, <2>8 DEF IInv, Rest
  <2> QED
    BY <2>1, <2>4, <2>5, <2>9, <2>10, Primed
<1> QED
  BY <1>3, <1>4

\* A refused Provision changes the reservation only.
LEMMA ProvisionRefusedStep == ASSUME IInv, NEW n \in Provisions, ProvisionRefused(n) PROVE IInv'
<1> DEFINE q == prov.requested
           h == IF q = 0 THEN Nobody ELSE Owner
<1>1. /\ World(slots, calls, opt) /\ Reserved(prov, reserved) /\ prov \in Prov /\ q \in Nat
      /\ Provisioned(slots, prov, topUps, retired, unreplaced)
  BY DEF IInv, Reserved, Prov
<1>2. h \in Limits \cup {Nobody}
  BY OwnerType
<1>3. /\ \/ /\ prov' = [prov EXCEPT !.holder = h, !.reserved = q]
            /\ reserved' = IF h = Nobody THEN Unreserve ELSE [Unreserve EXCEPT ![h] = @ + q]
         \/ prov' = [prov EXCEPT !.holder = Nobody, !.reserved = 0] /\ reserved' = Unreserve
      /\ slots' = slots /\ calls' = calls /\ max' = max /\ inUse' = inUse /\ topUps' = topUps
      /\ retired' = retired /\ panicked' = panicked /\ opt' = opt /\ unreplaced' = unreplaced
  <2>1. CASE q = 0
    BY <2>1 DEF ProvisionRefused
  <2>2. CASE q # 0
    BY <2>2 DEF ProvisionRefused
  <2> QED
    BY <2>1, <2>2
<1> HIDE DEF h, q
<1>4. /\ prov' \in Prov /\ prov'.requested = prov.requested /\ prov'.err = prov.err
      /\ Reserved(prov', reserved')
  <2>1. CASE /\ prov' = [prov EXCEPT !.holder = h, !.reserved = q]
             /\ reserved' = IF h = Nobody THEN Unreserve ELSE [Unreserve EXCEPT ![h] = @ + q]
    <3>1. /\ prov' \in Prov /\ prov'.requested = prov.requested /\ prov'.err = prov.err
          /\ prov'.holder = h /\ prov'.reserved = q
      BY <1>1, <1>2, <2>1 DEF Prov
    <3> QED
      BY <1>1, <1>2, <2>1, <3>1, ReserveStep
  <2>2. CASE prov' = [prov EXCEPT !.holder = Nobody, !.reserved = 0] /\ reserved' = Unreserve
    <3>1. /\ prov' \in Prov /\ prov'.requested = prov.requested /\ prov'.err = prov.err
          /\ prov'.holder = Nobody
      BY <1>1, <2>2 DEF Prov
    <3> QED
      BY <1>1, <2>2, <3>1, ReserveStep
  <2> QED
    BY <1>3, <2>1, <2>2
<1>5. Provisioned(slots', prov', topUps', retired', unreplaced')
  BY <1>1, <1>3, <1>4 DEF Provisioned
<1>6. Rest' /\ Counted(calls', inUse') /\ (~opt'.cancellable => ~panicked') /\ World(slots', calls', opt')
  BY <1>1, <1>3 DEF IInv, Rest
<1> QED
  BY <1>4, <1>5, <1>6, Primed

\* A slot that topUp takes.
LEMMA ToppedSlot ==
  ASSUME NEW a, NEW o, SlotOK(a, o), a.state = "unused"
  PROVE  LET r == [a EXCEPT !.kind = "Provisioned", !.state = "starting"]
         IN  /\ r \in Slot /\ SlotOK(r, o) /\ r.leases = a.leases /\ Follows(a, r)
             /\ r.kind = "Provisioned" /\ r.state = "starting"
<1> DEFINE r == [a EXCEPT !.kind = "Provisioned", !.state = "starting"]
<1>1. a \in Slot /\ a = Unused
  BY DEF SlotOK
<1>2. a.leases = 0 /\ a.env = "none" /\ a.err = FALSE /\ a.expired = FALSE /\ a.park = "nil"
  BY <1>1 DEF Unused
<1>3. /\ r \in Slot /\ r.kind = "Provisioned" /\ r.state = "starting" /\ r.leases = a.leases
      /\ r.env = a.env /\ r.err = a.err /\ r.expired = a.expired
  BY <1>1 DEF Slot
<1> HIDE DEF r
<1>4. SlotOK(r, o)
  BY <1>2, <1>3 DEF SlotOK
<1>5. Follows(a, r)
  BY <1>2, <1>3 DEF Follows
<1>6. /\ r \in Slot /\ SlotOK(r, o) /\ r.leases = a.leases /\ Follows(a, r)
      /\ r.kind = "Provisioned" /\ r.state = "starting"
  BY <1>3, <1>4, <1>5
<1> QED
  BY <1>6 DEF r

\* topUp starts the provisioned environments the pool is short of.
LEMMA TopUpStep == ASSUME IInv, TopUp PROVE IInv'
<1> DEFINE X == Unstarted(slots)
           P == ProvisionedIn(slots)
           k == ShortOf(slots)
           new == {s \in X : Cardinality({t \in X : t < s}) < k}
           T == [s \in Ids |-> IF s \in new
                   THEN [slots[s] EXCEPT !.kind = "Provisioned", !.state = "starting"] ELSE slots[s]]
<1>1. /\ World(slots, calls, opt) /\ Provisioned(slots, prov, topUps, retired, unreplaced) /\ prov \in Prov
      /\ slots \in [Ids -> Slot] /\ topUps \in Nat /\ retired \in BOOLEAN /\ opt \in Pools
  BY DEF IInv, World, Reserved, Rest
<1>2. /\ topUps > 0 /\ topUps' = topUps - 1
      /\ UNCHANGED <<calls, max, inUse, reserved, prov, retired, panicked, opt>>
  BY DEF TopUp
<1>3. topUps' \in Nat
  BY <1>1, <1>2
<1>4. CASE retired \/ prov.err
  <2>1. slots' = slots /\ unreplaced' = unreplaced
    BY <1>4 DEF TopUp
  <2>2. Provisioned(slots', prov, topUps', retired, unreplaced)
    BY <1>1, <1>4, <2>1 DEF Provisioned
  <2> QED
    BY <1>1, <1>2, <1>3, <2>1, <2>2, SlotStep
<1>5. CASE ~(retired \/ prov.err)
  <2>1. k <= Cardinality(X) /\ slots' = T /\ unreplaced' = {}
    BY <1>5 DEF TopUp
  <2>2. X \in SUBSET Ids /\ \A s \in X : slots[s].state = "unused"
    BY <1>1, PoolAssumption DEF Unstarted, Ids
  <2>3. P \in SUBSET Ids /\ Cardinality(P) \in Nat /\ prov.requested \in Nat
    BY <1>1, ProvisionedSets DEF Prov
  <2>4. k \in Int /\ Cardinality(P) + k = prov.requested
    BY <2>3 DEF ShortOf
  <2> HIDE DEF X, P, k
  <2>5. Cardinality(new) >= k /\ new \subseteq X /\ new \in SUBSET Ids
    BY <2>1, <2>2, <2>4, FirstSlots
  <2>6. \A s \in Ids : T[s] = IF s \in new
           THEN [slots[s] EXCEPT !.kind = "Provisioned", !.state = "starting"] ELSE slots[s]
    OBVIOUS
  <2>7. T = [s \in Ids |-> T[s]]
    OBVIOUS
  <2> HIDE DEF new, T
  <2>8. ASSUME NEW s \in Ids
        PROVE  /\ T[s] \in Slot /\ SlotOK(T[s], opt) /\ T[s].leases = slots[s].leases
               /\ Follows(slots[s], T[s])
               /\ s \in new => (T[s].kind = "Provisioned" /\ T[s].state = "starting")
               /\ s \notin new => T[s] = slots[s]
    <3>1. SlotOK(slots[s], opt) /\ slots[s] \in Slot
      BY <1>1 DEF World
    <3>2. CASE s \in new
      <4> DEFINE a == slots[s]
                 r == [a EXCEPT !.kind = "Provisioned", !.state = "starting"]
      <4>1. T[s] = r /\ a.state = "unused" /\ SlotOK(a, opt)
        BY <2>2, <2>5, <2>6, <3>1, <3>2
      <4> HIDE DEF a
      <4>2. /\ r \in Slot /\ SlotOK(r, opt) /\ r.leases = a.leases /\ Follows(a, r)
            /\ r.kind = "Provisioned" /\ r.state = "starting"
        BY <4>1, ToppedSlot
      <4> HIDE DEF r
      <4> QED
        BY <3>2, <4>1, <4>2 DEF a
    <3>3. CASE s \notin new
      BY <2>6, <3>1, <3>3 DEF Follows
    <3> QED
      BY <3>2, <3>3
  <2>9. T \in [Ids -> Slot]
    BY <2>7, <2>8
  <2>10. World(T, calls, opt)
    BY <1>1, <2>8, <2>9, ChangedWorld
  <2>11. ProvisionedIn(T) = P \cup new /\ P \cap new = {}
    BY <2>2, <2>5, <2>8 DEF ProvisionedIn, Listed, P
  <2>12. Cardinality(ProvisionedIn(T)) = Cardinality(P) + Cardinality(new) /\ Cardinality(new) \in Nat
    BY <2>3, <2>5, <2>11, SlotDisjoint, SlotSets
  <2>13. Cardinality(ProvisionedIn(T) \cup {}) >= prov.requested
    <3>1. ProvisionedIn(T) \cup {} = ProvisionedIn(T)
      OBVIOUS
    <3> QED
      BY <2>3, <2>4, <2>5, <2>12, <3>1
  <2>14. ProvisionedIdle(T) = ProvisionedIdle(slots)
    BY <2>2, <2>5, <2>8 DEF ProvisionedIdle, Idle
  <2>15. Cardinality(ProvisionedIdle(T)) = Cardinality(ProvisionedIdle(slots))
    BY <2>14
  <2>16. Provisioned(T, prov, topUps', retired, {})
    BY <1>1, <2>13, <2>15 DEF Provisioned
  <2>17. Provisioned(slots', prov', topUps', retired', unreplaced') /\ World(slots', calls', opt')
    BY <1>2, <2>1, <2>10, <2>16
  <2>18. /\ Rest' /\ Counted(calls', inUse') /\ Reserved(prov', reserved')
         /\ ~opt'.cancellable => ~panicked'
    BY <1>2, <1>3 DEF IInv, Rest
  <2> QED
    BY <2>17, <2>18, Primed
<1> QED
  BY <1>4, <1>5

\* Retire stops the idle environments and returns the reservation.
LEMMA RetireStep == ASSUME IInv, Retire PROVE IInv'
<1> DEFINE T == Retired(slots, Idle(slots))
<1>1. /\ World(slots, calls, opt) /\ Reserved(prov, reserved) /\ prov \in Prov
      /\ unreplaced \in SUBSET Ids
  BY DEF IInv, Reserved, Provisioned
<1>2. CASE ClosesNil(slots, Idle(slots))
  <2>1. opt.cancellable
    BY <1>1, <1>2, ClosesOpen
  <2>2. Panic
    BY <1>2 DEF Retire
  <2> QED
    BY <2>1, <2>2, PanicStep
<1>3. CASE ~ClosesNil(slots, Idle(slots))
  <2>1. /\ retired' = TRUE /\ slots' = T /\ reserved' = Unreserve
        /\ prov' = [prov EXCEPT !.requested = 0, !.holder = Nobody, !.reserved = 0]
        /\ calls' = calls /\ max' = max /\ inUse' = inUse /\ topUps' = topUps
        /\ panicked' = panicked /\ opt' = opt /\ unreplaced' = unreplaced
    BY <1>3 DEF Retire
  <2>2. prov' \in Prov /\ prov'.holder = Nobody
    BY <1>1, <2>1 DEF Prov
  <2>3. Reserved(prov', reserved')
    BY <1>1, <2>1, <2>2, ReserveStep
  <2>4. World(T, calls, opt)
    BY <1>1, RetiredWorld
  <2> HIDE DEF T
  <2>5. Provisioned(slots', prov', topUps', retired', unreplaced')
    BY <1>1, <2>1 DEF Provisioned
  <2>6. Rest' /\ Counted(calls', inUse') /\ (~opt'.cancellable => ~panicked')
    BY <2>1, Zenon DEF IInv, Rest
  <2> QED
    BY <2>1, <2>3, <2>4, <2>5, <2>6, Primed
<1> QED
  BY <1>2, <1>3

\* SetMax changes a cap only.
LEMMA SetMaxStep == ASSUME IInv, NEW l \in Limits, NEW m \in Int, SetMax(l, m) PROVE IInv'
<1>1. /\ slots' = slots /\ calls' = calls /\ inUse' = inUse /\ reserved' = reserved /\ prov' = prov
      /\ topUps' = topUps /\ retired' = retired /\ panicked' = panicked /\ opt' = opt
      /\ unreplaced' = unreplaced /\ max' = [max EXCEPT ![l] = m]
  BY DEF SetMax
<1>2. Rest'
  BY <1>1 DEF IInv, Rest
<1> QED
  BY <1>1, <1>2, Primed DEF IInv

-----------------------------------------------------------------------------
(* The invariant and what it says *)

\* A new pool.
LEMMA InitInv == Init => IInv
<1> SUFFICES ASSUME Init PROVE IInv
  OBVIOUS
<1>1. Unused \in Slot /\ Unused.leases = 0 /\ Unused.state = "unused" /\ Unused.env = "none"
      /\ Unused.err = FALSE /\ Unused.expired = FALSE /\ Unused.kind = "OnDemand"
  BY DEF Unused, Slot
<1>2. NoCall \in Call /\ NoCall.pc = "idle" /\ NoCall.holder = Nobody
  BY PoolAssumption DEF NoCall, Call
<1>3. /\ slots \in [Ids -> Slot] /\ calls \in [Callers -> Call]
      /\ \A s \in Ids : slots[s] = Unused /\ \A c \in Callers : calls[c] = NoCall
  BY <1>1, <1>2 DEF Init
<1>4. \A s \in Ids : SlotOK(slots[s], opt)
  BY <1>1, <1>3 DEF SlotOK
<1>5. \A c \in Callers : CallOK(calls[c], slots)
  BY <1>2, <1>3 DEF Init, CallOK
<1>6. OneStarter(calls)
  BY <1>2 DEF Init, OneStarter
<1>7. Leases(slots, calls)
  <2>1. \A s \in Ids : Users(calls, s) = {}
    BY <1>2 DEF Init, Users
  <2> QED
    BY <1>1, <1>3, <2>1, FS_EmptySet DEF Leases
<1>8. World(slots, calls, opt)
  BY <1>3, <1>4, <1>5, <1>6, <1>7 DEF World
<1>9. Counted(calls, inUse)
  <2>1. \A l \in Limits : Holders(calls, l) = {}
    BY <1>2 DEF Init, Holders, Limits, Nobody
  <2> QED
    BY <2>1, FS_EmptySet DEF Init, Counted
<1>10. Reserved(prov, reserved)
  <2>1. prov \in Prov /\ prov.holder = Nobody
    BY DEF Init, Prov
  <2> QED
    BY <2>1 DEF Init, Reserved, Limits, Nobody
<1>11. Provisioned(slots, prov, topUps, retired, unreplaced)
  <2>1. ProvisionedIdle(slots) = {} /\ prov.requested = 0
    BY <1>1, <1>3 DEF Init, ProvisionedIdle, Idle
  <2>2. unreplaced \in SUBSET Ids
    BY DEF Init
  <2>3. Cardinality(ProvisionedIdle(slots)) = 0 /\ Cardinality(ProvisionedIn(slots) \cup unreplaced) \in Nat
    BY <2>1, <2>2, FS_EmptySet, ReplacedSets
  <2> QED
    BY <2>1, <2>2, <2>3 DEF Provisioned
<1>12. max \in [Limits -> Int] /\ topUps \in Nat /\ opt \in Pools
  BY PoolAssumption DEF Init
<1>13. retired \in BOOLEAN /\ panicked \in BOOLEAN /\ ~panicked
  BY Zenon DEF Init
<1> QED
  BY <1>8, <1>9, <1>10, <1>11, <1>12, <1>13 DEF IInv, Rest

\* Every step keeps the invariant.
LEMMA StepInv == IInv /\ [Next]_vars => IInv'
<1> SUFFICES ASSUME IInv, [Next]_vars PROVE IInv'
  OBVIOUS
<1>1. ASSUME NEW c \in Callers, Acquire(c) PROVE IInv'
  BY <1>1, AcquireStep
<1>2. ASSUME NEW c \in Callers, Started(c) PROVE IInv'
  BY <1>2, StartedStep
<1>3. ASSUME NEW c \in Callers, StartFailed(c) PROVE IInv'
  BY <1>3, StartFailedStep
<1>4. ASSUME NEW c \in Callers, Joined(c) PROVE IInv'
  BY <1>4, JoinedStep
<1>5. ASSUME NEW c \in Callers, JoinCancelled(c) PROVE IInv'
  BY <1>5, JoinCancelledStep
<1>6. ASSUME NEW c \in Callers, NEW discard \in BOOLEAN, End(c, discard) PROVE IInv'
  BY <1>6, EndStep
<1>7. ASSUME NEW s \in Ids, Exit(s) PROVE IInv'
  BY <1>7, ExitStep
<1>8. ASSUME NEW s \in Ids, Expire(s) PROVE IInv'
  BY <1>8, ExpireStep
<1>9. ASSUME NEW s \in Ids, Watch(s) PROVE IInv'
  BY <1>9, WatchStep
<1>10. ASSUME NEW s \in Ids, StartProvisioned(s) PROVE IInv'
  BY <1>10, StartProvisionedStep
<1>11. ASSUME NEW s \in Ids, StartProvisionedFailed(s) PROVE IInv'
  BY <1>11, StartProvisionedFailedStep
<1>12. ASSUME NEW n \in Provisions, Provision(n) PROVE IInv'
  BY <1>12, ProvisionStep
<1>13. ASSUME NEW n \in Provisions, ProvisionRefused(n) PROVE IInv'
  BY <1>13, ProvisionRefusedStep
<1>14. ASSUME NEW m \in FunctionMax, SetMax("function", m) PROVE IInv'
  <2>1. "function" \in Limits /\ m \in Int
    BY PoolAssumption DEF Limits
  <2> QED
    BY <1>14, <2>1, SetMaxStep
<1>15. ASSUME NEW m \in AccountMax, SetMax("account", m) PROVE IInv'
  <2>1. "account" \in Limits /\ m \in Int
    BY PoolAssumption DEF Limits
  <2> QED
    BY <1>15, <2>1, SetMaxStep
<1>16. CASE TopUp
  BY <1>16, TopUpStep
<1>17. CASE Retire
  BY <1>17, RetireStep
<1>18. CASE UNCHANGED vars
  <2>1. /\ slots' = slots /\ calls' = calls /\ max' = max /\ inUse' = inUse /\ reserved' = reserved
        /\ prov' = prov /\ topUps' = topUps /\ retired' = retired /\ panicked' = panicked
        /\ opt' = opt /\ unreplaced' = unreplaced
    BY <1>18 DEF vars
  <2>2. Rest'
    BY <2>1 DEF IInv, Rest
  <2> QED
    BY <2>1, <2>2, Primed DEF IInv
<1> QED
  BY <1>1, <1>2, <1>3, <1>4, <1>5, <1>6, <1>7, <1>8, <1>9, <1>10, <1>11, <1>12, <1>13, <1>14,
     <1>15, <1>16, <1>17, <1>18 DEF Next

\* Every state of a pool satisfies the inductive invariant, whatever its
\* options, the callers and the caps.
THEOREM Invariance == Spec => []IInv
<1> QED
  BY InitInv, StepInv, PTL DEF Spec

\* The slots, calls, limits and reservation keep their types.
THEOREM TypeCorrect == Spec => []TypeOK
<1>1. IInv => TypeOK
  BY DEF IInv, World, Counted, Reserved, Provisioned, Prov, Rest, TypeOK
<1> QED
  BY <1>1, Invariance, PTL

\* inUse and reserved are exactly the invocations and the reservation that
\* hold each limit: every path of Acquire, End, Provision and Retire returns
\* what it took, to the limit it took it from.
THEOREM LimitsAreExact == Spec => []LimitAccounted
<1>1. ASSUME IInv PROVE LimitAccounted
  <2>1. \A l \in Limits : inUse[l] = Cardinality(Holders(calls, l))
    BY <1>1 DEF IInv, Counted
  <2>2. \A l \in Limits : reserved[l] = IF prov.holder = l THEN prov.reserved ELSE 0
    BY <1>1 DEF IInv, Reserved
  <2> QED
    BY <2>1, <2>2 DEF LimitAccounted, Holders
<1> QED
  BY <1>1, Invariance, PTL

\* No environment is stopped under an invocation.
THEOREM NoneStoppedBusy == Spec => []ServedAlive
<1>1. ASSUME IInv PROVE ServedAlive
  <2>1. ASSUME NEW s \in Ids, slots[s].env = "stopped" PROVE On(s) = {}
    <3>1. slots[s].leases = 0 /\ Leases(slots, calls)
      BY <1>1, <2>1 DEF IInv, World, SlotOK
    <3>2. Users(calls, s) = {}
      BY <3>1, LeaseUsed
    <3> QED
      BY <3>2 DEF Users, On
  <2> QED
    BY <2>1 DEF ServedAlive
<1> QED
  BY <1>1, Invariance, PTL

\* An environment that left the pool and serves nobody is stopped.
THEOREM NoneLeaks == Spec => []NoLeak
<1>1. IInv => NoLeak
  BY DEF IInv, World, SlotOK, NoLeak, Cancellable
<1> QED
  BY <1>1, Invariance, PTL

\* An idle environment has a watch, and closing its park never panics.
THEOREM IdleAreWatched == Spec => []IdleWatched
<1>1. IInv => IdleWatched
  BY DEF IInv, World, SlotOK, IdleWatched, Idle, Cancellable
<1> QED
  BY <1>1, Invariance, PTL

\* Provision keeps the number of environments it was asked for, but for the
\* expired ones an Acquire or the end of a lease found before their watch.
THEOREM ProvisionIsKept == Spec => []ProvisionKept
<1>1. ASSUME IInv PROVE ProvisionKept
  <2>1. Provisioned(slots, prov, topUps, retired, unreplaced)
    BY <1>1 DEF IInv
  <2>2. ASSUME ProvisionedIn(slots) \subseteq Idle(slots)
        PROVE  Cardinality(ProvisionedIn(slots)) = Cardinality(ProvisionedIdle(slots))
    <3>1. ProvisionedIn(slots) = ProvisionedIdle(slots)
      BY <2>2, ProvisionedSets DEF ProvisionedIn, ProvisionedIdle
    <3> QED
      BY <3>1
  <2> QED
    BY <2>1, <2>2 DEF Provisioned, ProvisionKept
<1> QED
  BY <1>1, Invariance, PTL

-----------------------------------------------------------------------------
(***************************************************************************)
(* A retired pool.  That it drains is a liveness property; its safety part *)
(* is that what still runs has an invocation that will end it, and that    *)
(* the pool never grows again.                                             *)
(***************************************************************************)

\* Once the pool retired, an environment that still runs is held by an
\* invocation, whose end will stop it.
Draining ==
    (retired /\ ~Cancellable) =>
        \A s \in Ids : slots[s].env \notin {"none", "stopped"} => On(s) # {}

\* A pool that retired takes no invocation in, starts no environment, and
\* takes none back; it holds no reservation.
LetsNobodyIn ==
    [][retired =>
          /\ retired' /\ prov'.requested = 0 /\ prov'.holder = Nobody
          /\ \A c \in Callers : calls[c].pc = "idle" => calls'[c] = calls[c]
          /\ \A s \in Ids : /\ slots[s].state = "unused" => slots'[s] = slots[s]
                            /\ slots[s].state = "gone" => slots'[s].state = "gone"]_vars

\* What Retire leaves, and what keeps it so: no environment turns idle again.
RetiredInv ==
    retired => /\ prov.requested = 0 /\ prov.holder = Nobody
               /\ ~opt.cancellable => Idle(slots) = {}

\* A step of a retired pool.
Winds ==
    /\ retired' /\ opt' = opt /\ prov'.requested = prov.requested /\ prov'.holder = prov.holder
    /\ \A c \in Callers : calls[c].pc = "idle" => calls'[c] = calls[c]
    /\ \A s \in Ids : /\ slots[s].state = "unused" => slots'[s] = slots[s]
                      /\ slots[s].state = "gone" => slots'[s].state = "gone"
                      /\ (~opt.cancellable /\ slots'[s].state = "ready" /\ slots'[s].leases = 0) =>
                            (slots[s].state = "ready" /\ slots[s].leases = 0)

\* One slot goes on.
LEMMA SlotWinds ==
  ASSUME retired, UNCHANGED <<retired, opt>>, prov'.requested = prov.requested, prov'.holder = prov.holder,
         \A c \in Callers : calls[c].pc = "idle" => calls'[c] = calls[c],
         slots \in [Ids -> Slot], NEW s \in Ids, NEW r, slots' = [slots EXCEPT ![s] = r],
         slots[s].state # "unused", slots[s].state = "gone" => r.state = "gone",
         (~opt.cancellable /\ r.state = "ready" /\ r.leases = 0) =>
             (slots[s].state = "ready" /\ slots[s].leases = 0)
  PROVE  Winds
<1>1. slots'[s] = r /\ \A t \in Ids : t # s => slots'[t] = slots[t]
  OBVIOUS
<1> QED
  BY <1>1 DEF Winds

\* A call goes on or ends, and its slot with it.
LEMMA CallWinds ==
  ASSUME IInv, retired, UNCHANGED <<retired, opt, prov>>, NEW c \in Callers, calls[c].pc # "idle",
         NEW k, calls' = [calls EXCEPT ![c] = k],
         NEW s \in Ids, s = calls[c].slot, NEW r, slots' = [slots EXCEPT ![s] = r],
         slots[s].state = "gone" => r.state = "gone",
         (~opt.cancellable /\ r.state = "ready") => r.leases # 0
  PROVE  Winds
<1>1. slots \in [Ids -> Slot] /\ calls \in [Callers -> Call] /\ CallOK(calls[c], slots)
  BY CallFacts
<1>2. \A d \in Callers : calls[d].pc = "idle" => calls'[d] = calls[d]
  BY <1>1
<1>3. slots[s].state # "unused"
  BY <1>1 DEF CallOK
<1>4. prov'.requested = prov.requested /\ prov'.holder = prov.holder
  OBVIOUS
<1> QED
  BY <1>1, <1>2, <1>3, <1>4, SlotWinds

\* A call goes on, or nothing does.
LEMMA NoneWinds ==
  ASSUME retired, UNCHANGED <<retired, opt, prov, slots>>,
         \A c \in Callers : calls[c].pc = "idle" => calls'[c] = calls[c]
  PROVE  Winds
  BY DEF Winds

\* The calls of a retired pool only end.
LEMMA CallsWind ==
  ASSUME IInv, retired, NEW c \in Callers,
         \/ Started(c) \/ StartFailed(c) \/ Joined(c) \/ JoinCancelled(c)
         \/ \E discard \in BOOLEAN : End(c, discard)
  PROVE  Winds
<1>0. calls[c].pc # "idle" /\ UNCHANGED <<retired, opt, prov>>
  BY DEF Started, StartFailed, Joined, JoinCancelled, End
<1>1. PICK s \in Ids : s = calls[c].slot
  BY <1>0, CallFacts
<1> DEFINE a == slots[s]
<1>2. /\ slots \in [Ids -> Slot] /\ calls \in [Callers -> Call] /\ a \in Slot /\ SlotOK(a, opt)
      /\ a.leases \in Nat /\ a.leases > 0 /\ CallOK(calls[c], slots)
  BY <1>0, <1>1, CallFacts
<1> HIDE DEF a
<1>3. CASE Started(c)
  <2> DEFINE r == [a EXCEPT !.env = "up", !.state = "ready"]
             k == [calls[c] EXCEPT !.pc = "leased"]
  <2>1. slots' = [slots EXCEPT ![s] = r] /\ calls' = [calls EXCEPT ![c] = k] /\ calls[c].pc = "starting"
    BY <1>1, <1>2, <1>3 DEF Started, a
  <2>2. r.leases = a.leases /\ r.state = "ready"
    BY <1>2 DEF Slot
  <2>3. slots[s].state = "starting" /\ a.leases # 0
    BY <1>1, <1>2, <2>1 DEF CallOK
  <2> HIDE DEF r, k
  <2>4. r.leases # 0 /\ slots[s].state # "gone"
    BY <2>2, <2>3
  <2> QED
    BY <1>0, <1>1, <2>1, <2>4, CallWinds
<1>4. CASE StartFailed(c)
  <2> DEFINE r == [a EXCEPT !.err = TRUE, !.state = "gone", !.leases = @ - 1]
  <2>1. slots' = [slots EXCEPT ![s] = r] /\ calls' = [calls EXCEPT ![c] = NoCall]
    BY <1>1, <1>2, <1>4 DEF StartFailed, a
  <2>2. r.state = "gone"
    BY <1>2 DEF Slot
  <2> HIDE DEF r
  <2> QED
    BY <1>0, <1>1, <2>1, <2>2, CallWinds
<1>5. CASE Joined(c)
  <2>1. CASE a.err
    <3> DEFINE r == [a EXCEPT !.leases = @ - 1]
    <3>1. slots' = [slots EXCEPT ![s] = r] /\ calls' = [calls EXCEPT ![c] = NoCall]
      BY <1>1, <1>2, <1>5, <2>1 DEF Joined, a
    <3>2. r.state = a.state /\ a.state = "gone"
      BY <1>2, <2>1 DEF Slot, SlotOK
    <3> HIDE DEF r
    <3> QED
      BY <1>0, <1>1, <3>1, <3>2, CallWinds
  <2>2. CASE ~a.err
    <3>1. slots' = slots /\ calls' = [calls EXCEPT ![c].pc = "leased"]
      BY <1>1, <1>5, <2>2 DEF Joined, a
    <3>2. \A d \in Callers : calls[d].pc = "idle" => calls'[d] = calls[d]
      BY <1>0, <1>2, <3>1
    <3> QED
      BY <1>0, <3>1, <3>2, NoneWinds
  <2> QED
    BY <2>1, <2>2
<1>6. CASE JoinCancelled(c)
  <2> DEFINE r == [a EXCEPT !.leases = @ - 1]
  <2>1. /\ slots' = [slots EXCEPT ![s] = r] /\ calls' = [calls EXCEPT ![c] = NoCall]
        /\ opt.cancellable
    BY <1>1, <1>2, <1>6 DEF JoinCancelled, Cancellable, a
  <2>2. r.state = slots[s].state
    BY <1>2 DEF Slot, a
  <2> HIDE DEF r
  <2> QED
    BY <1>0, <1>1, <2>1, <2>2, CallWinds
<1>7. ASSUME NEW discard \in BOOLEAN, End(c, discard) PROVE Winds
  <2> DEFINE r == Ended(s, discard)
  <2>1. slots' = [slots EXCEPT ![s] = r] /\ calls' = [calls EXCEPT ![c] = NoCall]
    BY <1>1, <1>7 DEF End
  <2>2. r.state = "gone"
    <3>1. r = [a EXCEPT !.leases = @ - 1, !.state = "gone", !.env = IF a.leases = 1 THEN "stopped" ELSE @]
      BY DEF Ended, a
    <3> HIDE DEF r
    <3> QED
      BY <1>2, <3>1 DEF Slot
  <2> HIDE DEF r
  <2> QED
    BY <1>0, <1>1, <2>1, <2>2, CallWinds
<1> QED
  BY <1>3, <1>4, <1>5, <1>6, <1>7

\* The slots of a retired pool only end.
LEMMA SlotsWind ==
  ASSUME IInv, retired, NEW s \in Ids,
         Exit(s) \/ Expire(s) \/ Watch(s) \/ StartProvisioned(s) \/ StartProvisionedFailed(s)
  PROVE  Winds
<1>0. /\ UNCHANGED <<retired, opt, calls>>
      /\ \A c \in Callers : calls[c].pc = "idle" => calls'[c] = calls[c]
  BY DEF Exit, Expire, Watch, StartProvisioned, StartProvisionedFailed
<1>1. prov'.requested = prov.requested /\ prov'.holder = prov.holder
  <2>1. prov \in Prov
    BY DEF IInv, Reserved
  <2>2. prov' = prov \/ prov' = [prov EXCEPT !.err = @ \/ ~retired]
    BY DEF Exit, Expire, Watch, StartProvisioned, StartProvisionedFailed
  <2> QED
    BY <2>1, <2>2 DEF Prov
<1> DEFINE a == slots[s]
<1>2. slots \in [Ids -> Slot] /\ a \in Slot /\ SlotOK(a, opt)
  BY DEF IInv, World
<1>3. CASE Exit(s)
  <2> DEFINE r == [a EXCEPT !.env = "exited"]
  <2>1. slots' = [slots EXCEPT ![s] = r] /\ a.env = "up"
    BY <1>3 DEF Exit
  <2>2. a.state # "unused"
    BY <1>2, <2>1 DEF SlotOK, Unused
  <2>3. r.state = a.state /\ r.leases = a.leases
    BY <1>2 DEF Slot
  <2> HIDE DEF r
  <2> QED
    BY <1>0, <1>1, <1>2, <2>1, <2>2, <2>3, SlotWinds
<1>4. CASE Expire(s)
  <2> DEFINE r == [a EXCEPT !.expired = TRUE]
  <2>1. slots' = [slots EXCEPT ![s] = r] /\ a.state = "ready"
    BY <1>4 DEF Expire
  <2>2. r.state = a.state /\ r.leases = a.leases
    BY <1>2 DEF Slot
  <2> HIDE DEF r
  <2> QED
    BY <1>0, <1>1, <1>2, <2>1, <2>2, SlotWinds
<1>5. CASE Watch(s)
  <2> DEFINE r == [a EXCEPT !.state = "gone", !.park = "closed", !.env = "stopped"]
  <2>1. slots' = Retired(slots, {s}) /\ a.state = "ready"
    BY <1>5 DEF Watch, Idle
  <2>2. slots' = [slots EXCEPT ![s] = r]
    BY <1>2, <2>1 DEF Retired
  <2>3. r.state = "gone"
    BY <1>2 DEF Slot
  <2> HIDE DEF r
  <2> QED
    BY <1>0, <1>1, <1>2, <2>1, <2>2, <2>3, SlotWinds
<1>6. CASE StartProvisioned(s)
  <2> DEFINE r == [a EXCEPT !.state = "gone", !.env = "stopped"]
  <2>1. slots' = [slots EXCEPT ![s] = r] /\ a.state = "starting"
    BY <1>6 DEF StartProvisioned
  <2>2. r.state = "gone"
    BY <1>2 DEF Slot
  <2> HIDE DEF r
  <2> QED
    BY <1>0, <1>1, <1>2, <2>1, <2>2, SlotWinds
<1>7. CASE StartProvisionedFailed(s)
  <2> DEFINE r == [a EXCEPT !.state = "gone", !.err = TRUE]
  <2>1. slots' = [slots EXCEPT ![s] = r] /\ a.state = "starting"
    BY <1>7 DEF StartProvisionedFailed
  <2>2. r.state = "gone"
    BY <1>2 DEF Slot
  <2> HIDE DEF r
  <2> QED
    BY <1>0, <1>1, <1>2, <2>1, <2>2, SlotWinds
<1> QED
  BY <1>3, <1>4, <1>5, <1>6, <1>7

\* Every step of a retired pool is such a step.
LEMMA RetiredWinds == ASSUME IInv, retired, [Next]_vars PROVE Winds
<1>1. ASSUME NEW c \in Callers, Acquire(c) PROVE FALSE
  BY <1>1 DEF Acquire
<1>2. ASSUME NEW n \in Provisions, Provision(n) \/ ProvisionRefused(n) PROVE FALSE
  BY <1>2 DEF Provision, ProvisionRefused
<1>3. ASSUME Retire PROVE FALSE
  BY <1>3 DEF Retire
<1>4. ASSUME NEW l, NEW m, SetMax(l, m) PROVE Winds
  BY <1>4, NoneWinds DEF SetMax
<1>5. ASSUME TopUp \/ UNCHANGED vars PROVE Winds
  BY <1>5, NoneWinds DEF TopUp, vars
<1> QED
  BY <1>1, <1>2, <1>3, <1>4, <1>5, CallsWind, SlotsWind DEF Next

\* Retire leaves no environment idle and no reservation, and nothing after it
\* brings one back.
LEMMA RetiredStep == ASSUME IInv, RetiredInv, [Next]_vars PROVE RetiredInv'
<1>1. CASE retired
  <2>1. Winds
    BY <1>1, RetiredWinds
  <2> QED
    BY <1>1, <2>1 DEF Winds, RetiredInv, Idle
<1>2. CASE ~retired
  <2> SUFFICES ASSUME retired' PROVE RetiredInv'
    BY DEF RetiredInv
  <2>1. Retire
    BY <1>2 DEF Next, vars, Acquire, AcquireWarm, AcquireJoin, AcquireStart, AcquireThrottled, Panic,
                Started, StartFailed, Joined, JoinCancelled, End, Exit, Expire, Watch,
                StartProvisioned, StartProvisionedFailed, Provision, ProvisionRefused, SetMax, TopUp
  <2>2. /\ slots' = Retired(slots, Idle(slots))
        /\ prov' = [prov EXCEPT !.requested = 0, !.holder = Nobody, !.reserved = 0]
    BY <1>2, <2>1 DEF Retire, Panic
  <2>3. prov'.requested = 0 /\ prov'.holder = Nobody
    <3>1. prov \in Prov
      BY DEF IInv, Reserved
    <3> QED
      BY <2>2, <3>1 DEF Prov
  <2>4. Idle(slots)' = {}
    <3> DEFINE X == Idle(slots)
    <3>1. /\ \A s \in Ids : s \notin X => slots'[s] = slots[s]
          /\ \A s \in X : slots'[s].state = "gone"
      BY <2>2, RetiredWorld DEF IInv
    <3> QED
      BY <3>1 DEF Idle
  <2> QED
    BY <2>3, <2>4 DEF RetiredInv
<1> QED
  BY <1>1, <1>2

\* The two invariants hold together.
LEMMA RetiredHolds == Spec => [](IInv /\ RetiredInv)
<1>1. Init => IInv /\ RetiredInv
  BY InitInv DEF Init, RetiredInv
<1>2. IInv /\ RetiredInv /\ [Next]_vars => IInv' /\ RetiredInv'
  BY StepInv, RetiredStep
<1> QED
  BY <1>1, <1>2, PTL DEF Spec

\* After Retire an environment runs only as long as an invocation holds it,
\* one that was still starting when the pool retired included: nothing is
\* left running that no Release or Discard will stop.
THEOREM RetiredDrains == Spec => []Draining
<1>1. ASSUME IInv, RetiredInv PROVE Draining
  <2> SUFFICES ASSUME retired, ~opt.cancellable, NEW s \in Ids, slots[s].env \notin {"none", "stopped"}
               PROVE  On(s) # {}
    BY DEF Draining, Cancellable
  <2>1. SlotOK(slots[s], opt) /\ Leases(slots, calls) /\ slots[s] \in Slot
    BY <1>1 DEF IInv, World
  <2>2. slots[s].state # "ready" \/ slots[s].leases # 0
    BY <1>1 DEF RetiredInv, Idle
  <2>3. slots[s].leases # 0
    BY <2>1, <2>2 DEF SlotOK, Slot, Unused
  <2>4. Users(calls, s) # {}
    BY <2>1, <2>3, LeaseUsed
  <2> QED
    BY <2>4 DEF Users, On
<1> QED
  BY <1>1, RetiredHolds, PTL

\* A retired pool only shrinks: it takes in no invocation, starts and revives
\* no environment and reserves nothing, whatever was under way when Retire
\* took the lock (Acquire, Provision, topUp, startProvisioned).
THEOREM RetiredShrinks == Spec => LetsNobodyIn
<1>1. ASSUME IInv, RetiredInv, [Next]_vars, retired
      PROVE  /\ retired' /\ prov'.requested = 0 /\ prov'.holder = Nobody
             /\ \A c \in Callers : calls[c].pc = "idle" => calls'[c] = calls[c]
             /\ \A s \in Ids : /\ slots[s].state = "unused" => slots'[s] = slots[s]
                               /\ slots[s].state = "gone" => slots'[s].state = "gone"
  BY <1>1, RetiredWinds DEF Winds, RetiredInv
<1>2. ASSUME IInv, RetiredInv, [Next]_vars
      PROVE  [retired =>
          /\ retired' /\ prov'.requested = 0 /\ prov'.holder = Nobody
          /\ \A c \in Callers : calls[c].pc = "idle" => calls'[c] = calls[c]
          /\ \A s \in Ids : /\ slots[s].state = "unused" => slots'[s] = slots[s]
                            /\ slots[s].state = "gone" => slots'[s].state = "gone"]_vars
  BY <1>1, <1>2
<1> QED
  BY <1>2, RetiredHolds, PTL DEF Spec, LetsNobodyIn
=============================================================================
