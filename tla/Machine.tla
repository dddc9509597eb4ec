------------------------------ MODULE Machine ------------------------------
(***************************************************************************)
(* The lifecycle of one virtual machine (sim/machine), as Amazon EC2,      *)
(* Compute Engine and Azure drive it: Boot, Halt, Discard and Detach (a    *)
(* Halt, then Release) of one key, the watch of the running machine, guests *)
(* that shut down on their own, and a restart of the simulator that adopts  *)
(* what the backend still holds.                                           *)
(*                                                                         *)
(* Every section under m.mu or mc.mu is one action, and calls interleave   *)
(* between them.  Calls are numbered as they are made; a *machine has the  *)
(* number of the Boot that created it, or of the disk it was adopted for,  *)
(* a handle that of the Boot that placed or restarted it, a root disk that *)
(* of the handle it was placed with.  0 is nil.                            *)
(***************************************************************************)
EXTENDS Integers, FiniteSets

CONSTANTS
    MaxCalls,       \* bound: calls ever made
    MaxRestarts     \* bound: restarts of the simulator

ASSUME MachineAssumption == MaxCalls \in Nat /\ MaxRestarts \in Nat

Calls == 1 .. MaxCalls
Nil == 0
Refs == 0 .. MaxCalls

VARIABLES
    machines,       \* m.machines[key]
    mc,             \* the *machine values
    calls,          \* the calls and where they are
    handle,         \* the backend's handles
    disks,          \* the root disks the backend holds for key
    made,           \* calls made
    recovering,     \* the simulator restarted and has not adopted yet
    restarts,
    overtaken,      \* a stop overtook a Boot (see Overtaken); bound: no call is made after
    strays          \* history: handles of machines that backend.Adopt failed to take over

vars == <<machines, mc, calls, handle, disks, made, recovering, restarts, overtaken, strays>>

NewMachine == [ handle |-> Nil, id |-> Nil, halted |-> FALSE, cancelBoot |-> Nil, booting |-> Nil ]

\* ctx: the Boot's context is cancelled.  ok: the call returned nil.
NoCall == [ op |-> "none", pc |-> "done", mc |-> Nil, target |-> Nil, fresh |-> FALSE,
            boot |-> Nil, handle |-> Nil, id |-> Nil, ctx |-> FALSE, ok |-> FALSE ]

\* guest: it exited without being cancelled.  reported: GuestShutdown ran.
NoHandle == [ state |-> "none", disk |-> Nil, mc |-> Nil, cancelled |-> FALSE, guest |-> FALSE,
              watch |-> "none", reported |-> FALSE ]

TypeOK ==
    /\ machines \in Refs
    /\ mc \in [Calls -> [ handle : Refs, id : Refs, halted : BOOLEAN, cancelBoot : Refs, booting : Refs ]]
    /\ calls \in [Calls ->
          [ op : {"none", "Boot", "Halt", "Discard", "Detach"},
            pc : {"begin", "placing", "placed", "tracked", "awaiting", "ready", "failed", "stopping",
                  "get", "halt", "waitBoot", "waitWatch", "readId", "forget", "remove", "release", "done"},
            mc : Refs, target : Refs, fresh : BOOLEAN, boot : Refs, handle : Refs, id : Refs,
            ctx : BOOLEAN, ok : BOOLEAN ]]
    /\ handle \in [Calls ->
          [ state : {"none", "up", "exited"}, disk : Refs, mc : Refs, cancelled : BOOLEAN,
            guest : BOOLEAN, watch : {"none", "armed", "closed"}, reported : BOOLEAN ]]
    /\ disks \subseteq Calls /\ made \in 0 .. MaxCalls
    /\ recovering \in BOOLEAN /\ restarts \in 0 .. MaxRestarts /\ overtaken \in BOOLEAN
    /\ strays \subseteq Calls

Init ==
    /\ machines = Nil /\ mc = [c \in Calls |-> NewMachine]
    /\ calls = [c \in Calls |-> NoCall] /\ handle = [c \in Calls |-> NoHandle]
    /\ disks = {} /\ made = 0
    /\ recovering = FALSE /\ restarts = 0 /\ overtaken = FALSE /\ strays = {}

UnderWay == {c \in Calls : calls[c].pc # "done"}

\* Another call may be made.
Room == ~recovering /\ made < MaxCalls /\ ~overtaken

Stopping(c) == calls[c].op \in {"Halt", "Discard", "Detach"}

At(c, op, pc) == calls[c].op = op /\ calls[c].pc = pc

\* The call goes on to pc.
Goto(c, pc) == [calls EXCEPT ![c].pc = pc]
Return(c, ok) == [calls EXCEPT ![c] = [NoCall EXCEPT !.op = calls[c].op, !.ok = ok]]

Cancelled(h) == IF handle[h].state = "up" THEN [handle EXCEPT ![h].cancelled = TRUE] ELSE handle

-----------------------------------------------------------------------------
(* Boot *)

\* A cloud boots a machine it has recorded as stopped or new, when no call
\* about it is under way.
BootLookup ==
    LET c == made + 1
        m == IF machines = Nil THEN c ELSE machines
    IN
    /\ Room /\ UnderWay = {}
    /\ made' = c
    /\ machines' = m
    /\ calls' = [calls EXCEPT ![c] = [NoCall EXCEPT !.op = "Boot", !.pc = "begin", !.mc = m,
                                                    !.fresh = (machines = Nil)]]
    /\ UNCHANGED <<mc, handle, disks, recovering, restarts, overtaken, strays>>

\* A stop called after the Boot c has marked the machine before the Boot took
\* its lock: the stop finds nothing to wait for, and the Boot clears its mark.
Overtaken(c) ==
    \E d \in Calls : d > c /\ Stopping(d) /\ calls[d].pc \notin {"get", "halt"}

\* mutant: a machine that runs is not noticed
RunsNever(m) == FALSE

Runs(m) == mc[m].handle # Nil

\* mutant: the kept root disk is not looked for
KeptDiskNever(m) == Nil

KeptDisk(m) == mc[m].id

\* A machine that runs is left as it is; otherwise this Boot becomes the one
\* a Halt cancels and waits for.
BootBegin(c) ==
    LET m == calls[c].mc IN
    /\ At(c, "Boot", "begin")
    /\ IF Runs(m)
       THEN /\ calls' = Return(c, TRUE)
            /\ UNCHANGED <<mc, overtaken>>
       ELSE /\ mc' = [mc EXCEPT ![m].halted = FALSE, ![m].cancelBoot = c, ![m].booting = c]
            /\ calls' = [calls EXCEPT ![c].pc = "placing", ![c].id = KeptDisk(m)]
            /\ overtaken' = Overtaken(c)
    /\ UNCHANGED <<machines, handle, disks, made, recovering, restarts, strays>>

\* The backend places a machine, or restarts the kept disk; a stray machine
\* that runs on the disk is not started again but taken over
\* (StartExistingContainer, then AdoptContainer).
Placed(c) ==
    LET d == IF calls[c].id = Nil THEN c ELSE calls[c].id IN
    /\ At(c, "Boot", "placing")
    /\ calls[c].id # Nil => d \in disks
    /\ disks' = disks \cup {d}
    /\ LET over == {h \in strays : handle[h].disk = d} IN
       /\ handle' = [h \in Calls |-> IF h = c THEN [handle[c] EXCEPT !.state = "up", !.disk = d]
                                     ELSE IF h \in over THEN NoHandle ELSE handle[h]]
       /\ strays' = strays \ over
    /\ calls' = Goto(c, "placed")
    /\ UNCHANGED <<machines, mc, made, recovering, restarts, overtaken>>

\* The backend fails, or gives up because the context is cancelled.
PlaceFailed(c) ==
    /\ At(c, "Boot", "placing")
    /\ machines' = IF calls[c].fresh /\ machines = calls[c].mc THEN Nil ELSE machines
    /\ calls' = Return(c, FALSE)
    /\ UNCHANGED <<mc, handle, disks, made, recovering, restarts, overtaken, strays>>

Track(c) ==
    LET m == calls[c].mc IN
    /\ At(c, "Boot", "placed")
    /\ mc' = [mc EXCEPT ![m].handle = c]
    /\ handle' = [handle EXCEPT ![c].watch = "armed", ![c].mc = m]
    /\ calls' = Goto(c, "tracked")
    /\ UNCHANGED <<machines, disks, made, recovering, restarts, overtaken, strays>>

\* A stop that arrived while the machine was placed cancels it here.
Attach(c) ==
    LET m == calls[c].mc IN
    /\ At(c, "Boot", "tracked")
    /\ mc' = [mc EXCEPT ![m].id = handle[c].disk]
    /\ IF mc[m].halted
       THEN handle' = Cancelled(c) /\ calls' = Goto(c, "stopping")
       ELSE UNCHANGED handle /\ calls' = Goto(c, "awaiting")
    /\ UNCHANGED <<machines, disks, made, recovering, restarts, overtaken, strays>>

\* awaitReady: the init is ready, or it exited, the wait failed or the
\* context ended.
AwaitReady(c) ==
    /\ At(c, "Boot", "awaiting")
    /\ \/ handle[c].state = "up" /\ calls' = Goto(c, "ready")
       \/ calls' = Goto(c, "failed")
    /\ UNCHANGED <<machines, mc, handle, disks, made, recovering, restarts, overtaken, strays>>

BootReady(c) ==
    /\ At(c, "Boot", "ready")
    /\ mc' = [mc EXCEPT ![calls[c].mc].cancelBoot = Nil]
    /\ calls' = Return(c, TRUE)
    /\ UNCHANGED <<machines, handle, disks, made, recovering, restarts, overtaken, strays>>

\* mutant: the machine that never became ready is not marked stopped
BootFailedUnmarked(c) ==
    LET m == calls[c].mc IN
    /\ At(c, "Boot", "failed")
    /\ IF mc[m].halted
       THEN calls' = Return(c, FALSE) /\ UNCHANGED handle
       ELSE calls' = Goto(c, "stopping") /\ handle' = Cancelled(c)
    /\ UNCHANGED <<mc, machines, disks, made, recovering, restarts, overtaken, strays>>

\* The machine never became ready: a Halt under way stops it, or Boot does.
BootFailed(c) ==
    LET m == calls[c].mc IN
    /\ At(c, "Boot", "failed")
    /\ mc' = [mc EXCEPT ![m].halted = TRUE]
    /\ IF mc[m].halted
       THEN calls' = Return(c, FALSE) /\ UNCHANGED handle
       ELSE calls' = Goto(c, "stopping") /\ handle' = Cancelled(c)
    /\ UNCHANGED <<machines, disks, made, recovering, restarts, overtaken, strays>>

BootStopped(c) ==
    /\ At(c, "Boot", "stopping") /\ handle[c].watch = "closed"
    /\ calls' = Return(c, FALSE)
    /\ UNCHANGED <<machines, mc, handle, disks, made, recovering, restarts, overtaken, strays>>

-----------------------------------------------------------------------------
(* Halt, Discard, Detach *)

\* Where the call stands once Halt returned nil.
Halted(c) ==
    CASE calls[c].op = "Halt" -> Return(c, TRUE)
      [] calls[c].op = "Discard" -> Goto(c, "readId")
      [] calls[c].op = "Detach" -> Goto(c, "release")

\* The call looks the machine up; without one it has nothing to do.
Stop(op) ==
    LET c == made + 1 IN
    /\ Room /\ machines # Nil
    /\ made' = c
    /\ calls' = [calls EXCEPT ![c] = [NoCall EXCEPT !.op = op, !.mc = machines, !.target = machines,
                                         !.pc = IF op = "Discard" THEN "get" ELSE "halt"]]
    /\ UNCHANGED <<machines, mc, handle, disks, recovering, restarts, overtaken, strays>>

\* Halt, called by Discard, looks the machine up again.
HaltGet(c) ==
    /\ calls[c].pc = "get"
    /\ calls' = IF machines = Nil THEN Halted(c)
                ELSE [calls EXCEPT ![c].pc = "halt", ![c].target = machines]
    /\ UNCHANGED <<machines, mc, handle, disks, made, recovering, restarts, overtaken, strays>>

\* mutant: the boot in flight is not cancelled
HaltMarkWaits(c) ==
    LET m == calls[c].target IN
    /\ calls[c].pc = "halt"
    /\ mc' = [mc EXCEPT ![m].halted = TRUE, ![m].cancelBoot = Nil]
    /\ calls' = [calls EXCEPT ![c].pc = "waitBoot", ![c].boot = mc[m].booting]
    /\ UNCHANGED <<machines, handle, disks, made, recovering, restarts, overtaken, strays>>

\* The stop marks the machine and cancels the boot in flight.
HaltMark(c) ==
    LET m == calls[c].target
        boot == mc[m].cancelBoot
        marked == [calls EXCEPT ![c].pc = "waitBoot", ![c].boot = mc[m].booting]
    IN
    /\ calls[c].pc = "halt"
    /\ mc' = [mc EXCEPT ![m].halted = TRUE, ![m].cancelBoot = Nil]
    /\ calls' = IF boot = Nil THEN marked ELSE [marked EXCEPT ![boot].ctx = TRUE]
    /\ UNCHANGED <<machines, handle, disks, made, recovering, restarts, overtaken, strays>>

\* mutant: the boot in flight is not waited for
HaltCancelAtOnce(c) ==
    LET h == mc[calls[c].target].handle IN
    /\ calls[c].pc = "waitBoot"
    /\ IF h = Nil THEN calls' = Halted(c) /\ UNCHANGED handle
       ELSE /\ handle' = Cancelled(h)
            /\ calls' = [calls EXCEPT ![c].pc = "waitWatch", ![c].handle = h]
    /\ UNCHANGED <<machines, mc, disks, made, recovering, restarts, overtaken, strays>>

\* The boot in flight returned; what it left running is cancelled.
HaltCancel(c) ==
    LET h == mc[calls[c].target].handle IN
    /\ calls[c].pc = "waitBoot"
    /\ calls[c].boot # Nil => calls[calls[c].boot].pc = "done"
    /\ IF h = Nil THEN calls' = Halted(c) /\ UNCHANGED handle
       ELSE /\ handle' = Cancelled(h)
            /\ calls' = [calls EXCEPT ![c].pc = "waitWatch", ![c].handle = h]
    /\ UNCHANGED <<machines, mc, disks, made, recovering, restarts, overtaken, strays>>

HaltReturn(c) ==
    /\ calls[c].pc = "waitWatch" /\ handle[calls[c].handle].watch = "closed"
    /\ calls' = Halted(c)
    /\ UNCHANGED <<machines, mc, handle, disks, made, recovering, restarts, overtaken, strays>>

\* The caller's context ends first.
HaltGivesUp(c) ==
    /\ calls[c].pc \in {"waitBoot", "waitWatch"}
    /\ calls' = Return(c, FALSE)
    /\ UNCHANGED <<machines, mc, handle, disks, made, recovering, restarts, overtaken, strays>>

DiscardRead(c) ==
    /\ calls[c].pc = "readId"
    /\ calls' = [calls EXCEPT ![c].pc = "forget", ![c].id = mc[calls[c].mc].id]
    /\ UNCHANGED <<machines, mc, handle, disks, made, recovering, restarts, overtaken, strays>>

Forget(c) ==
    /\ calls[c].pc = "forget"
    /\ machines' = IF machines = calls[c].mc THEN Nil ELSE machines
    /\ calls' = IF calls[c].id = Nil THEN Return(c, TRUE) ELSE Goto(c, "remove")
    /\ UNCHANGED <<mc, handle, disks, made, recovering, restarts, overtaken, strays>>

\* The backend removes the disk, with what still runs on it.
Remove(c) ==
    LET d == calls[c].id IN
    /\ calls[c].pc = "remove"
    /\ disks' = disks \ {d}
    /\ handle' = [h \in Calls |-> IF handle[h].disk = d /\ handle[h].state = "up"
                                  THEN [handle[h] EXCEPT !.state = "exited", !.cancelled = FALSE] ELSE handle[h]]
    /\ calls' = Return(c, TRUE)
    /\ UNCHANGED <<machines, mc, made, recovering, restarts, overtaken, strays>>

\* Release leaves the disk in place, no longer the machine's.
Release(c) ==
    /\ calls[c].pc = "release"
    /\ machines' = Nil
    /\ disks' = IF machines = Nil THEN disks ELSE disks \ {mc[machines].id}
    /\ calls' = Return(c, TRUE)
    /\ UNCHANGED <<mc, handle, made, recovering, restarts, overtaken, strays>>

-----------------------------------------------------------------------------
(* The machine and its watch *)

Exit(h) ==
    /\ handle[h].state = "up"
    /\ handle' = [handle EXCEPT ![h].state = "exited", ![h].cancelled = FALSE,
                                ![h].guest = ~handle[h].cancelled]
    /\ UNCHANGED <<machines, mc, calls, disks, made, recovering, restarts, overtaken, strays>>

Watch(h) ==
    LET m == handle[h].mc
        current == mc[m].handle = h
    IN
    /\ handle[h].watch = "armed" /\ handle[h].state = "exited"
    /\ handle' = [handle EXCEPT ![h].watch = "closed", ![h].reported = current /\ ~mc[m].halted]
    /\ mc' = IF current THEN [mc EXCEPT ![m].handle = Nil] ELSE mc
    /\ UNCHANGED <<machines, calls, disks, made, recovering, restarts, overtaken, strays>>

-----------------------------------------------------------------------------
(* A restart of the simulator: the backend's machines run on *)

Restart ==
    /\ restarts < MaxRestarts /\ ~overtaken
    /\ restarts' = restarts + 1 /\ recovering' = TRUE
    /\ machines' = Nil /\ mc' = [c \in Calls |-> NewMachine] /\ calls' = [c \in Calls |-> NoCall]
    /\ handle' = [h \in Calls |-> IF handle[h].state = "up"
                       THEN [NoHandle EXCEPT !.state = "up", !.disk = handle[h].disk] ELSE NoHandle]
    /\ UNCHANGED <<disks, made, overtaken, strays>>

\* Adopt publishes the disk the backend listed; a machine that does not run
\* needs no more.
Adopt(d) ==
    /\ recovering /\ machines = Nil /\ d \in disks
    /\ machines' = d
    /\ mc' = [mc EXCEPT ![d] = [NewMachine EXCEPT !.id = d]]
    /\ recovering' = \E h \in Calls : handle[h].disk = d /\ handle[h].state = "up"
    /\ UNCHANGED <<calls, handle, disks, made, restarts, overtaken, strays>>

\* The machine the listing says runs; it may have exited since.
Listed(h) == recovering /\ machines # Nil /\ handle[h].disk = machines

\* The backend takes it over, and it is watched again.
AdoptTrack(h) ==
    /\ Listed(h)
    /\ recovering' = FALSE
    /\ mc' = [mc EXCEPT ![machines].handle = h]
    /\ handle' = [handle EXCEPT ![h].watch = "armed", ![h].mc = machines]
    /\ strays' = strays \ {h}
    /\ UNCHANGED <<machines, calls, disks, made, restarts, overtaken>>

\* The backend fails.  The machine stays published without a handle; Compute
\* Engine and Azure log the error and serve on.
AdoptFailed(h) ==
    /\ Listed(h)
    /\ recovering' = FALSE
    /\ strays' = strays \cup {h}
    /\ UNCHANGED <<machines, mc, calls, handle, disks, made, restarts, overtaken>>

NothingFound ==
    /\ recovering /\ machines = Nil /\ disks = {}
    /\ recovering' = FALSE
    /\ UNCHANGED <<machines, mc, calls, handle, disks, made, restarts, overtaken, strays>>

-----------------------------------------------------------------------------
Next ==
    \/ BootLookup
    \/ \E op \in {"Halt", "Discard", "Detach"} : Stop(op)
    \/ \E c \in Calls :
          \/ BootBegin(c) \/ Placed(c) \/ PlaceFailed(c) \/ Track(c) \/ Attach(c) \/ AwaitReady(c)
          \/ BootReady(c) \/ BootFailed(c) \/ BootStopped(c)
          \/ HaltGet(c) \/ HaltMark(c) \/ HaltCancel(c) \/ HaltReturn(c) \/ HaltGivesUp(c)
          \/ DiscardRead(c) \/ Forget(c) \/ Remove(c) \/ Release(c)
          \/ Exit(c) \/ Watch(c) \/ Adopt(c) \/ AdoptTrack(c) \/ AdoptFailed(c)
    \/ Restart \/ NothingFound

Spec == Init /\ [][Next]_vars

\* Goroutines run, the backend answers, a cancelled machine exits within its
\* grace, and awaitReady ends once its context or its machine has.  A guest
\* need not shut down, an init need not become ready, a caller need not give up.
Proceed(c) ==
    \/ BootBegin(c) \/ Placed(c) \/ PlaceFailed(c) \/ Track(c) \/ Attach(c)
    \/ (calls[c].ctx \/ handle[c].state # "up") /\ AwaitReady(c)
    \/ BootReady(c) \/ BootFailed(c) \/ BootStopped(c)
    \/ HaltGet(c) \/ HaltMark(c) \/ HaltCancel(c) \/ HaltReturn(c)
    \/ DiscardRead(c) \/ Forget(c) \/ Remove(c) \/ Release(c)

Fairness ==
    \A c \in Calls :
        WF_vars(Proceed(c)) /\ WF_vars(handle[c].cancelled /\ Exit(c)) /\ WF_vars(Watch(c))

FairSpec == Spec /\ Fairness

-----------------------------------------------------------------------------
(* Properties *)

\* "A stop while the machine boots ends the boot" (machine_test.go:188) and "a
\* machine discarded while its boot still places it leaves nothing behind"
\* (machine_test.go:236): once a Halt, Discard or Detach returned nil, no
\* machine runs that a Boot called before it has placed, but for one the
\* simulator failed to take over after a restart: the manager has no handle of
\* it, and Halt returns nil while it runs (machine.go:313).  Left out, here
\* and below, is the Boot a stop overtakes between its two locks.
StopHolds ==
    ~overtaken => \A c, h \in Calls :
        (Stopping(c) /\ calls[c].pc = "done" /\ calls[c].ok /\ h < c) =>
            handle[h].state # "up" \/ h \in strays

\* "GuestShutdown runs when a machine exits without being stopped"
\* (machine.go:35): no machine that was cancelled is reported as shut down by
\* its guest.
GuestOnly ==
    ~overtaken => \A h \in Calls :
        handle[h].reported => handle[h].guest

\* The disk is the machine's, or a Discard is about to remove it.
DiskKnown(d) ==
    \/ machines # Nil /\ mc[machines].id = d
    \/ \E c \in Calls : calls[c].pc = "remove" /\ calls[c].id = d

\* A machine that runs is the one the manager holds, or the Boot that placed
\* it is about to say so: a later Halt reaches it.  One that backend.Adopt
\* failed to take over (machine.go:462) no Halt reaches; but unless its disk
\* was detached, the disk is the one the next Boot restarts, which takes it
\* over, and the next Discard removes.
Reachable ==
    ~overtaken => \A h \in Calls :
        handle[h].state = "up" =>
            \/ recovering
            \/ h \in strays /\ (handle[h].disk \in disks => DiskKnown(handle[h].disk))
            \/ At(h, "Boot", "placed") /\ calls[h].mc = machines
            \/ machines # Nil /\ mc[machines].handle = h

\* "The kept root disk of a stopped machine boots again" (machine.go:127): the
\* backend never holds two root disks of one machine, also across restarts of
\* the simulator, which would adopt either.
OneDisk == ~overtaken => Cardinality(disks) <= 1

\* Every Halt, Discard and Detach returns: none waits for a boot that waits
\* for it, or for the watch of a machine that does not stop.
StopReturns == \A c \in Calls : (Stopping(c) /\ calls[c].pc # "done") ~> calls[c].pc = "done"
=============================================================================
