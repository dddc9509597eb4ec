------------------------------ MODULE FuncPool ------------------------------
(***************************************************************************)
(* The execution environments of one function version (sim/funcrt): a Pool *)
(* that leases environments to invocations, keeps provisioned ones ahead   *)
(* of them, and counts both against a Limit and the Limit's parent.        *)
(*                                                                         *)
(* Every section under the pool's lock is one action.  Between two of them *)
(* the invocations, the background starts, the watches of idle             *)
(* environments and the environments themselves interleave.  p.slots keeps *)
(* the order of creation, so a slot is its number; a slot is in the list   *)
(* exactly while it is starting or ready.                                  *)
(*                                                                         *)
(* A goroutine that panics under p.mu never unlocks it: "panicked" ends    *)
(* the pool.                                                               *)
(***************************************************************************)
EXTENDS Integers, FiniteSets

CONSTANTS
    Callers,            \* goroutines that invoke the function
    Pools,              \* the pools considered, each with its options and bounds
    FunctionMax,        \* caps SetMax gives the function's limit, -1 for none
    AccountMax,         \* caps SetMax gives the account's limit
    MaxSlots,           \* bound: environments ever started
    MaxTopUps           \* bound: calls of Provision between its two locked sections

ASSUME PoolAssumption ==
    /\ \A p \in Pools :
          /\ p.perEnvironment \in Nat /\ p.expiring \in BOOLEAN /\ p.cancellable \in BOOLEAN
          /\ p.provisions \subseteq Nat /\ p.slots \in 0 .. MaxSlots
    /\ FunctionMax \subseteq Int /\ AccountMax \subseteq Int
    /\ FunctionMax # {} /\ AccountMax # {} /\ IsFiniteSet(Callers)
    /\ MaxSlots \in Nat /\ MaxTopUps \in Nat

VARIABLES
    slots,          \* the slots ever created, by number
    calls,          \* each caller: its step, its slot and the limit that holds its unit
    max, inUse, reserved,   \* the Limits, by name
    prov,           \* provRequested, provHolder, provReserved, provErr
    topUps,         \* calls of topUp that have not taken the lock yet
    retired,
    panicked,       \* a goroutine panicked holding p.mu
    opt,            \* the pool's own options, one of Pools
    unreplaced      \* history: provisioned slots that left as expired, with no topUp since

limitVars == <<max, inUse, reserved>>
vars == <<slots, calls, max, inUse, reserved, prov, topUps, retired, panicked, opt, unreplaced>>

PerEnvironment == opt.perEnvironment    \* Options.PerEnvironment
Expiring == opt.expiring                \* whether Hooks.Expires is set
Cancellable == opt.cancellable          \* whether a caller's context may end while it joins
Provisions == opt.provisions            \* arguments of Provision

Ids == 1 .. MaxSlots
Limits == {"function", "account"}
Nobody == "nobody"      \* a nil *Limit

\* park is the channel whose close wakes the watch of an idle environment;
\* env is the environment: running, exited by itself, or stopped by the pool.
Slot == [ kind : {"OnDemand", "Provisioned"}, state : {"unused", "starting", "ready", "gone"},
          leases : Nat, park : {"nil", "open", "closed"},
          env : {"none", "up", "exited", "stopped"}, err : BOOLEAN, expired : BOOLEAN ]

Call == [ pc : {"idle", "starting", "joining", "leased"}, slot : 0 .. MaxSlots,
          holder : Limits \cup {Nobody} ]

TypeOK ==
    /\ slots \in [Ids -> Slot]
    /\ calls \in [Callers -> Call]
    /\ max \in [Limits -> Int] /\ inUse \in [Limits -> Nat] /\ reserved \in [Limits -> Nat]
    /\ prov \in [requested : Nat, holder : Limits \cup {Nobody}, reserved : Nat, err : BOOLEAN]
    /\ topUps \in Nat /\ retired \in BOOLEAN /\ panicked \in BOOLEAN /\ opt \in Pools
    /\ unreplaced \subseteq Ids

Unused == [ kind |-> "OnDemand", state |-> "unused", leases |-> 0, park |-> "nil",
            env |-> "none", err |-> FALSE, expired |-> FALSE ]
NoCall == [ pc |-> "idle", slot |-> 0, holder |-> Nobody ]

Init ==
    /\ slots = [s \in Ids |-> Unused]
    /\ calls = [c \in Callers |-> NoCall]
    /\ max \in [Limits -> FunctionMax \cup AccountMax]
    /\ max["function"] \in FunctionMax /\ max["account"] \in AccountMax
    /\ inUse = [l \in Limits |-> 0] /\ reserved = [l \in Limits |-> 0]
    /\ prov = [requested |-> 0, holder |-> Nobody, reserved |-> 0, err |-> FALSE]
    /\ topUps = 0 /\ retired = FALSE /\ panicked = FALSE /\ opt \in Pools
    /\ unreplaced = {}

-----------------------------------------------------------------------------
(* Limit *)

\* The limit whose capacity the pool takes: its own, or its parent's.
Owner == IF max["function"] >= 0 THEN "function"
         ELSE IF max["account"] >= 0 THEN "account" ELSE Nobody

HasRoomFor(n) == Owner # Nobody => inUse[Owner] + reserved[Owner] + n <= max[Owner]

Take == IF Owner = Nobody THEN inUse ELSE [inUse EXCEPT ![Owner] = @ + 1]

Free(holder) == IF holder = Nobody THEN inUse ELSE [inUse EXCEPT ![holder] = @ - 1]

Unreserve == IF prov.holder = Nobody THEN reserved
             ELSE [reserved EXCEPT ![prov.holder] = @ - prov.reserved]

SetMax(l, m) ==
    /\ m # max[l]
    /\ max' = [max EXCEPT ![l] = m]
    /\ UNCHANGED <<slots, calls, inUse, reserved, prov, topUps, retired, panicked, opt, unreplaced>>

-----------------------------------------------------------------------------
(* The slots *)

Listed(S) == {s \in Ids : S[s].state \in {"starting", "ready"}}
Idle(S) == {s \in Ids : S[s].state = "ready" /\ S[s].leases = 0}
ProvisionedIn(S) == {s \in Listed(S) : S[s].kind = "Provisioned"}
Least(T) == CHOOSE s \in T : \A t \in T : s <= t

ProvisionedReady(S) ==
    /\ prov.requested # 0 /\ ~prov.err
    /\ Cardinality({s \in ProvisionedIn(S) : S[s].state = "ready"}) >= prov.requested

HasRoom(S, s) == PerEnvironment = 0 \/ S[s].leases < PerEnvironment

\* pickLocked: a ready environment with room, provisioned ones first once
\* they all serve; the empty set when there is none.
Pick(S) ==
    LET open == {s \in Ids : S[s].state = "ready" /\ HasRoom(S, s) /\ ~S[s].expired}
        provisioned == {s \in open : S[s].kind = "Provisioned" /\ ProvisionedReady(S)}
        onDemand == {s \in open : S[s].kind = "OnDemand"}
    IN  IF provisioned # {} THEN {Least(provisioned)}
        ELSE IF onDemand # {} THEN {Least(onDemand)} ELSE {}

StartingWithRoom(S) ==
    LET sharing == {s \in Ids : /\ PerEnvironment # 1 /\ S[s].state = "starting"
                                /\ S[s].kind = "OnDemand" /\ HasRoom(S, s)}
    IN  IF sharing = {} THEN {} ELSE {Least(sharing)}

\* The environments of T leave the pool and stop, their watches woken.
Retired(S, T) ==
    [s \in Ids |-> IF s \in T
        THEN [S[s] EXCEPT !.state = "gone", !.park = "closed", !.env = "stopped"] ELSE S[s]]

\* Closing the park of a slot that was never parked panics.
ClosesNil(S, T) == \E s \in T : S[s].park # "open"

ExpiredIdle == {s \in Idle(slots) : slots[s].expired}

\* The slots after stopExpiredLocked, which Acquire calls first.
Swept == Retired(slots, ExpiredIdle)

\* With the provisioned ones among T, which expired outside their watch.
Unreplaced(T) == unreplaced \cup {s \in T : slots[s].kind = "Provisioned"}

\* What stays of the world when a goroutine panics under the lock.
Panic ==
    /\ panicked' = TRUE
    /\ UNCHANGED <<slots, calls, max, inUse, reserved, prov, topUps, retired, opt, unreplaced>>

Unstarted(S) == {s \in 1 .. opt.slots : S[s].state = "unused"}
Fresh(S) == {s \in Unstarted(S) : s = Least(Unstarted(S))}

-----------------------------------------------------------------------------
(* Acquire *)

\* A ready environment serves the invocation; only an on-demand one takes a
\* unit of the limit.
AcquireWarm(c, s) ==
    LET takes == Swept[s].kind = "OnDemand"
        opens == Swept[s].leases = 0
    IN
    /\ s \in Pick(Swept)
    /\ takes => HasRoomFor(1)
    /\ IF opens /\ ClosesNil(Swept, {s}) THEN Panic
       ELSE /\ slots' = [Swept EXCEPT ![s].leases = @ + 1,
                                      ![s].park = IF opens THEN "closed" ELSE @]
            /\ calls' = [calls EXCEPT ![c] = [pc |-> "leased", slot |-> s,
                            holder |-> IF takes THEN Owner ELSE Nobody]]
            /\ inUse' = IF takes THEN Take ELSE inUse
            /\ unreplaced' = Unreplaced(ExpiredIdle)
            /\ UNCHANGED <<max, reserved, prov, topUps, retired, panicked, opt>>

\* The invocation shares an environment that is still starting.
AcquireJoin(c, s) ==
    /\ Pick(Swept) = {} /\ s \in StartingWithRoom(Swept)
    /\ HasRoomFor(1)
    /\ slots' = [Swept EXCEPT ![s].leases = @ + 1]
    /\ calls' = [calls EXCEPT ![c] = [pc |-> "joining", slot |-> s, holder |-> Owner]]
    /\ inUse' = Take
    /\ unreplaced' = Unreplaced(ExpiredIdle)
    /\ UNCHANGED <<max, reserved, prov, topUps, retired, panicked, opt>>

\* The invocation starts an environment of its own.
AcquireStart(c, s) ==
    /\ Pick(Swept) = {} /\ StartingWithRoom(Swept) = {}
    /\ HasRoomFor(1)
    /\ s \in Fresh(Swept)
    /\ slots' = [Swept EXCEPT ![s].state = "starting", ![s].leases = 1]
    /\ calls' = [calls EXCEPT ![c] = [pc |-> "starting", slot |-> s, holder |-> Owner]]
    /\ inUse' = Take
    /\ unreplaced' = Unreplaced(ExpiredIdle)
    /\ UNCHANGED <<max, reserved, prov, topUps, retired, panicked, opt>>

\* The limit refuses the invocation, with the expired environments stopped.
AcquireThrottled(c) ==
    /\ ~HasRoomFor(1)
    /\ \A s \in Pick(Swept) : Swept[s].kind = "OnDemand"
    /\ ExpiredIdle # {}
    /\ slots' = Swept
    /\ unreplaced' = Unreplaced(ExpiredIdle)
    /\ UNCHANGED <<calls, max, inUse, reserved, prov, topUps, retired, panicked, opt>>

Acquire(c) ==
    /\ ~panicked /\ ~retired /\ calls[c].pc = "idle"
    /\ IF ClosesNil(slots, ExpiredIdle) THEN Panic
       ELSE \/ \E s \in Ids : AcquireWarm(c, s) \/ AcquireJoin(c, s) \/ AcquireStart(c, s)
            \/ AcquireThrottled(c)

Started(c) ==
    /\ ~panicked /\ calls[c].pc = "starting"
    /\ slots' = [slots EXCEPT ![calls[c].slot].env = "up", ![calls[c].slot].state = "ready"]
    /\ calls' = [calls EXCEPT ![c].pc = "leased"]
    /\ UNCHANGED <<max, inUse, reserved, prov, topUps, retired, panicked, opt, unreplaced>>

\* mutant: the failed start keeps its unit of the limit
StartFailedHolding(c) ==
    /\ ~panicked /\ calls[c].pc = "starting"
    /\ slots' = [slots EXCEPT ![calls[c].slot].err = TRUE, ![calls[c].slot].state = "gone",
                              ![calls[c].slot].leases = @ - 1]
    /\ calls' = [calls EXCEPT ![c] = NoCall]
    /\ UNCHANGED <<max, inUse, reserved, prov, topUps, retired, panicked, opt, unreplaced>>

StartFailed(c) ==
    /\ ~panicked /\ calls[c].pc = "starting"
    /\ slots' = [slots EXCEPT ![calls[c].slot].err = TRUE, ![calls[c].slot].state = "gone",
                              ![calls[c].slot].leases = @ - 1]
    /\ inUse' = Free(calls[c].holder)
    /\ calls' = [calls EXCEPT ![c] = NoCall]
    /\ UNCHANGED <<max, reserved, prov, topUps, retired, panicked, opt, unreplaced>>

\* The start the invocation joined returned.
Joined(c) ==
    LET s == calls[c].slot IN
    /\ ~panicked /\ calls[c].pc = "joining" /\ slots[s].state # "starting"
    /\ IF slots[s].err
       THEN /\ slots' = [slots EXCEPT ![s].leases = @ - 1]
            /\ inUse' = Free(calls[c].holder)
            /\ calls' = [calls EXCEPT ![c] = NoCall]
       ELSE /\ calls' = [calls EXCEPT ![c].pc = "leased"]
            /\ UNCHANGED <<slots, inUse>>
    /\ UNCHANGED <<max, reserved, prov, topUps, retired, panicked, opt, unreplaced>>

\* The caller's context ends first, or at the same moment.
JoinCancelled(c) ==
    /\ Cancellable /\ ~panicked /\ calls[c].pc = "joining"
    /\ slots' = [slots EXCEPT ![calls[c].slot].leases = @ - 1]
    /\ inUse' = Free(calls[c].holder)
    /\ calls' = [calls EXCEPT ![c] = NoCall]
    /\ UNCHANGED <<max, reserved, prov, topUps, retired, panicked, opt, unreplaced>>

-----------------------------------------------------------------------------
(* Release and Discard *)

ExcessProvisioned(s) ==
    slots[s].kind = "Provisioned" /\ Cardinality(ProvisionedIn(slots)) > prov.requested

\* mutant: stops the environment although other invocations still run on it
EndedRudely(s, discard) ==
    IF slots[s].state = "gone" \/ discard \/ retired \/ ExcessProvisioned(s) \/ slots[s].expired
    THEN [slots[s] EXCEPT !.leases = @ - 1, !.state = "gone", !.env = "stopped"]
    ELSE [slots[s] EXCEPT !.leases = @ - 1, !.park = IF slots[s].leases = 1 THEN "open" ELSE @]

\* The slot after one of its leases ended: it leaves the pool and stops with
\* its last lease, or parks.
Ended(s, discard) ==
    LET last == slots[s].leases = 1
        leaves == discard \/ retired \/ ExcessProvisioned(s) \/ slots[s].expired
    IN  IF slots[s].state = "gone" \/ leaves
        THEN [slots[s] EXCEPT !.leases = @ - 1, !.state = "gone",
                              !.env = IF last THEN "stopped" ELSE @]
        ELSE [slots[s] EXCEPT !.leases = @ - 1, !.park = IF last THEN "open" ELSE @]

\* An expired slot leaves for that reason alone.
Lapses(s, discard) ==
    slots[s].expired /\ slots[s].state = "ready" /\ ~discard /\ ~ExcessProvisioned(s)

\* mutant: a discarded provisioned environment is not replaced
EndUnreplaced(c, discard) ==
    LET s == calls[c].slot IN
    /\ ~panicked /\ calls[c].pc = "leased"
    /\ slots' = [slots EXCEPT ![s] = Ended(s, discard)]
    /\ inUse' = Free(calls[c].holder)
    /\ calls' = [calls EXCEPT ![c] = NoCall]
    /\ unreplaced' = IF Lapses(s, discard) THEN Unreplaced({s}) ELSE unreplaced
    /\ UNCHANGED <<max, reserved, prov, topUps, retired, panicked, opt>>

End(c, discard) ==
    LET s == calls[c].slot IN
    /\ ~panicked /\ calls[c].pc = "leased"
    /\ slots' = [slots EXCEPT ![s] = Ended(s, discard)]
    /\ inUse' = Free(calls[c].holder)
    /\ calls' = [calls EXCEPT ![c] = NoCall]
    /\ topUps' = IF discard /\ slots[s].kind = "Provisioned" /\ ~retired THEN topUps + 1 ELSE topUps
    /\ unreplaced' = IF Lapses(s, discard) THEN Unreplaced({s}) ELSE unreplaced
    /\ UNCHANGED <<max, reserved, prov, retired, panicked, opt>>

-----------------------------------------------------------------------------
(* Environments and the watch of an idle one *)

Exit(s) ==
    /\ slots[s].env = "up"
    /\ slots' = [slots EXCEPT ![s].env = "exited"]
    /\ UNCHANGED <<calls, max, inUse, reserved, prov, topUps, retired, panicked, opt, unreplaced>>

Expire(s) ==
    /\ Expiring /\ slots[s].state = "ready" /\ ~slots[s].expired
    /\ slots' = [slots EXCEPT ![s].expired = TRUE]
    /\ UNCHANGED <<calls, max, inUse, reserved, prov, topUps, retired, panicked, opt, unreplaced>>

\* The watch parkUnderLock started takes the lock after the exit or expiry.
Watch(s) ==
    /\ ~panicked /\ s \in Idle(slots) /\ slots[s].park = "open"
    /\ slots[s].env = "exited" \/ slots[s].expired
    /\ slots' = Retired(slots, {s})
    /\ topUps' = IF slots[s].kind = "Provisioned" /\ ~retired THEN topUps + 1 ELSE topUps
    /\ UNCHANGED <<calls, max, inUse, reserved, prov, retired, panicked, opt, unreplaced>>

-----------------------------------------------------------------------------
(* Provision, topUp, startProvisioned, Retire *)

\* The limit has no room for n: the earlier reservation is taken again, if
\* there is still room for it.
ProvisionRefused(n) ==
    LET freed == Unreserve
        fits(k) == k = 0 \/ Owner = Nobody \/ inUse[Owner] + freed[Owner] + k <= max[Owner]
        holder(k) == IF k = 0 THEN Nobody ELSE Owner
    IN
    /\ ~panicked /\ ~retired /\ ~fits(n)
    /\ IF fits(prov.requested)
       THEN /\ prov' = [prov EXCEPT !.holder = holder(prov.requested), !.reserved = prov.requested]
            /\ reserved' = IF holder(prov.requested) = Nobody THEN freed
                           ELSE [freed EXCEPT ![Owner] = @ + prov.requested]
       ELSE /\ prov' = [prov EXCEPT !.holder = Nobody, !.reserved = 0]
            /\ reserved' = freed
    /\ UNCHANGED <<slots, calls, max, inUse, topUps, retired, panicked, opt, unreplaced>>

\* The idle provisioned environments past n, the youngest first.
Surplus(n) ==
    LET idle == {s \in Idle(slots) : slots[s].kind = "Provisioned"}
        excess == Cardinality(ProvisionedIn(slots)) - n
    IN  {s \in idle : Cardinality({t \in idle : t > s}) < excess}

Provision(n) ==
    LET freed == Unreserve
        holder == IF n = 0 THEN Nobody ELSE Owner
    IN
    /\ ~panicked /\ ~retired /\ topUps < MaxTopUps
    /\ n = 0 \/ Owner = Nobody \/ inUse[Owner] + freed[Owner] + n <= max[Owner]
    /\ n # prov.requested \/ n # prov.reserved \/ holder # prov.holder
    /\ IF ClosesNil(slots, Surplus(n)) THEN Panic
       ELSE /\ prov' = [requested |-> n, holder |-> holder, reserved |-> n,
                        err |-> prov.err /\ n = prov.requested]
            /\ reserved' = IF holder = Nobody THEN freed ELSE [freed EXCEPT ![holder] = @ + n]
            /\ slots' = Retired(slots, Surplus(n))
            /\ topUps' = topUps + 1
            /\ UNCHANGED <<calls, max, inUse, retired, panicked, opt, unreplaced>>

ShortOf(S) == prov.requested - Cardinality(ProvisionedIn(S))

\* topUp adds the starting slots the pool is short of.
TopUp ==
    LET unused == Unstarted(slots)
        new == {s \in unused : Cardinality({t \in unused : t < s}) < ShortOf(slots)}
    IN
    /\ ~panicked /\ topUps > 0
    /\ topUps' = topUps - 1
    /\ IF retired \/ prov.err THEN UNCHANGED <<slots, unreplaced>>
       ELSE /\ ShortOf(slots) <= Cardinality(unused)
            /\ slots' = [s \in Ids |-> IF s \in new
                  THEN [slots[s] EXCEPT !.kind = "Provisioned", !.state = "starting"] ELSE slots[s]]
            /\ unreplaced' = {}
    /\ UNCHANGED <<calls, max, inUse, reserved, prov, retired, panicked, opt>>

\* mutant: a surplus environment leaves the pool running
StartProvisionedDropped(s) ==
    /\ ~panicked /\ slots[s].state = "starting" /\ slots[s].kind = "Provisioned"
    /\ slots' = [slots EXCEPT ![s] =
          IF retired \/ ExcessProvisioned(s)
          THEN [@ EXCEPT !.state = "gone", !.env = "up"]
          ELSE [@ EXCEPT !.state = "ready", !.env = "up", !.park = "open"]]
    /\ UNCHANGED <<calls, max, inUse, reserved, prov, topUps, retired, panicked, opt, unreplaced>>

\* mutant: a provisioned environment turns idle without a watch
StartProvisionedUnparked(s) ==
    /\ ~panicked /\ slots[s].state = "starting" /\ slots[s].kind = "Provisioned"
    /\ slots' = [slots EXCEPT ![s] =
          IF retired \/ ExcessProvisioned(s)
          THEN [@ EXCEPT !.state = "gone", !.env = "stopped"]
          ELSE [@ EXCEPT !.state = "ready", !.env = "up"]]
    /\ UNCHANGED <<calls, max, inUse, reserved, prov, topUps, retired, panicked, opt, unreplaced>>

\* mutant: a start that returns after Retire joins the pool
StartProvisionedLate(s) ==
    /\ ~panicked /\ slots[s].state = "starting" /\ slots[s].kind = "Provisioned"
    /\ slots' = [slots EXCEPT ![s] =
          IF ~retired /\ ExcessProvisioned(s)
          THEN [@ EXCEPT !.state = "gone", !.env = "stopped"]
          ELSE [@ EXCEPT !.state = "ready", !.env = "up", !.park = "open"]]
    /\ UNCHANGED <<calls, max, inUse, reserved, prov, topUps, retired, panicked, opt, unreplaced>>

StartProvisioned(s) ==
    /\ ~panicked /\ slots[s].state = "starting" /\ slots[s].kind = "Provisioned"
    /\ slots' = [slots EXCEPT ![s] =
          IF retired \/ ExcessProvisioned(s)
          THEN [@ EXCEPT !.state = "gone", !.env = "stopped"]
          ELSE [@ EXCEPT !.state = "ready", !.env = "up", !.park = "open"]]
    /\ UNCHANGED <<calls, max, inUse, reserved, prov, topUps, retired, panicked, opt, unreplaced>>

StartProvisionedFailed(s) ==
    /\ ~panicked /\ slots[s].state = "starting" /\ slots[s].kind = "Provisioned"
    /\ slots' = [slots EXCEPT ![s].state = "gone", ![s].err = TRUE]
    /\ prov' = [prov EXCEPT !.err = @ \/ ~retired]
    /\ UNCHANGED <<calls, max, inUse, reserved, topUps, retired, panicked, opt, unreplaced>>

Retire ==
    /\ ~panicked /\ ~retired
    /\ IF ClosesNil(slots, Idle(slots)) THEN Panic
       ELSE /\ retired' = TRUE
            /\ slots' = Retired(slots, Idle(slots))
            /\ reserved' = Unreserve
            /\ prov' = [prov EXCEPT !.requested = 0, !.holder = Nobody, !.reserved = 0]
            /\ UNCHANGED <<calls, max, inUse, topUps, panicked, opt, unreplaced>>

-----------------------------------------------------------------------------
Next ==
    \/ \E c \in Callers :
          \/ Acquire(c) \/ Started(c) \/ StartFailed(c) \/ Joined(c) \/ JoinCancelled(c)
          \/ \E discard \in BOOLEAN : End(c, discard)
    \/ \E s \in Ids :
          Exit(s) \/ Expire(s) \/ Watch(s) \/ StartProvisioned(s) \/ StartProvisionedFailed(s)
    \/ \E n \in Provisions : Provision(n) \/ ProvisionRefused(n)
    \/ \E m \in FunctionMax : SetMax("function", m)
    \/ \E m \in AccountMax : SetMax("account", m)
    \/ TopUp \/ Retire

Spec == Init /\ [][Next]_vars

\* Starts return, invocations end, and a goroutine that waits for the lock
\* gets it.
Fairness ==
    /\ \A c \in Callers :
          /\ WF_vars(Started(c) \/ StartFailed(c)) /\ WF_vars(Joined(c))
          /\ WF_vars(\E discard \in BOOLEAN : End(c, discard))
    /\ \A s \in Ids : WF_vars(StartProvisioned(s) \/ StartProvisionedFailed(s))

FairSpec == Spec /\ Fairness

-----------------------------------------------------------------------------
(* Properties *)

On(s) == {c \in Callers : calls[c].pc # "idle" /\ calls[c].slot = s}

\* A caller that gives up joining a start may hold the environment's last
\* lease, and Acquire then neither parks nor stops the environment
\* (pool.go:285-290).  The properties about idle environments leave out the
\* pools where that happens.

\* A limit's counters are the invocations and the reservation that hold it:
\* no path of Acquire, End, Provision or Retire leaks or returns a unit twice,
\* also when SetMax changed the owner in between.
LimitAccounted ==
    \A l \in Limits :
        /\ inUse[l] = Cardinality({c \in Callers : calls[c].holder = l})
        /\ reserved[l] = IF prov.holder = l THEN prov.reserved ELSE 0

\* No environment is stopped under an invocation that runs on it.
ServedAlive == \A s \in Ids : slots[s].env = "stopped" => On(s) = {}

\* Discard "stops for good" (pool.go:347): an environment that left the pool
\* is stopped once its last invocation is gone.
NoLeak ==
    ~Cancellable => \A s \in Ids : (slots[s].state = "gone" /\ slots[s].leases = 0) =>
                      slots[s].env \in {"none", "stopped"}

\* park "closes when the environment stops being idle, waking the watch that
\* stops it should it exit or expire while idle" (pool.go:123): an idle
\* environment is watched, so that no close of its park panics.
IdleWatched ==
    ~Cancellable => ~panicked /\ \A s \in Idle(slots) : slots[s].park = "open"

\* "Provision keeps n environments initialised ahead of invocations"
\* (pool.go:462): once topUp ran and no start failed, the pool is short of
\* provisioned environments only by the expired ones that an Acquire
\* (stopExpiredLocked, pool.go:452) or the end of a lease (:360) found before
\* their watch did, which are not replaced until the next topUp; and it has
\* none too many once they are idle.
ProvisionKept ==
    (~retired /\ ~prov.err) =>
        /\ topUps = 0 => Cardinality(ProvisionedIn(slots) \cup unreplaced) >= prov.requested
        /\ ProvisionedIn(slots) \subseteq Idle(slots) =>
              Cardinality(ProvisionedIn(slots)) <= prov.requested

\* Retire stops every environment, idle ones now and busy ones once their
\* invocation ends.
Drained == (retired /\ ~Cancellable) ~> \A s \in Ids : slots[s].env \in {"none", "stopped"}
=============================================================================
