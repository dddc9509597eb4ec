---------------------------- MODULE MachineProofs ----------------------------
(***************************************************************************)
(* TLAPS proofs about Machine, for any number of calls and restarts: a     *)
(* stop that returned nil left nothing running, only a guest's own exit is *)
(* reported as one, what runs is what the manager holds, a machine has one *)
(* root disk, and no stop waits for what does not end.                     *)
(*                                                                         *)
(* None of them is inductive. The first four need to know how far the      *)
(* calls under way got: that a stop which got past the Boot's lock waits   *)
(* for that Boot (Waited), that both work on one machine (SameMachine),    *)
(* that at most one machine runs and who holds it (Running), and whose     *)
(* mark, watch and disk it has (Tracked, Marked, DisksKnown). Of a machine *)
(* the manager failed to take over they need to know that it is alone on   *)
(* its disk until a Boot takes it over (StrayInv). The last needs to know  *)
(* whom a stop waits for (Waits).                                          *)
(***************************************************************************)
EXTENDS Machine, FiniteSetTheorems, TLAPS

-----------------------------------------------------------------------------
(***************************************************************************)
(* What holds in every state, overtaken or not.                            *)
(***************************************************************************)

BootPcs == {"begin", "placing", "placed", "tracked", "awaiting", "ready", "failed", "stopping"}
StopPcs == {"get", "halt", "waitBoot", "waitWatch", "readId", "forget", "remove", "release"}

\* What a call under way refers to exists.
RefersOK ==
    \A c \in Calls :
        /\ calls[c].pc \in BootPcs => calls[c].op = "Boot"
        /\ calls[c].pc \in StopPcs => Stopping(c)
        /\ calls[c].pc # "done" => calls[c].mc # Nil
        /\ calls[c].pc \in {"halt", "waitBoot"} => calls[c].target # Nil
        /\ calls[c].pc = "waitWatch" => calls[c].handle # Nil
        /\ calls[c].pc \in {"begin", "placing", "placed"} => handle[c].watch = "none"

WatchOK ==
    \A h \in Calls :
        /\ handle[h].watch # "none" => handle[h].mc # Nil
        /\ handle[h].watch = "closed" => handle[h].state = "exited"
        /\ handle[h].watch # "closed" => ~handle[h].reported

\* Numbers not given out yet name nothing.
Unmade ==
    /\ machines <= made
    /\ \A c \in Calls : /\ calls[c].pc # "done" => calls[c].mc <= made
                        /\ calls[c].pc \in StopPcs => calls[c].target <= made
    /\ \A c \in Calls : c > made =>
          calls[c].pc = "done" /\ calls[c].op = "none" /\ handle[c] = NoHandle /\ mc[c] = NewMachine /\ c \notin disks

\* A Boot under way has no company but stops called after it.
OneBoot ==
    \A b, c \in Calls : (calls[b].pc \in BootPcs /\ calls[c].pc # "done" /\ c # b) =>
        calls[c].pc \in StopPcs /\ c > b

\* Until the simulator has adopted what it finds, no call is made and nothing
\* is watched; what exits does so on its own.
Quiet ==
    recovering =>
        /\ \A c \in Calls :
              /\ calls[c].pc = "done" /\ calls[c].op = "none"
              /\ handle[c].watch = "none" /\ ~handle[c].cancelled
              /\ handle[c].state = "exited" => handle[c].guest
              /\ handle[c].disk # Nil => handle[c].state # "none"
        /\ machines # Nil =>
              machines \in disks /\ mc[machines].id = machines /\ mc[machines].handle = Nil

OvertakenOnce == overtaken => \A c \in Calls : calls[c].pc # "begin"

Shape == TypeOK /\ RefersOK /\ WatchOK /\ Unmade /\ OneBoot /\ Quiet /\ OvertakenOnce

-----------------------------------------------------------------------------
(***************************************************************************)
(* What holds until a stop overtakes a Boot.                               *)
(***************************************************************************)

\* It runs, and the manager did not fail to take it over.
Up(h) == handle[h].state = "up" /\ h \notin strays

\* The Boot b holds the machine: a Halt that marks it will wait for b.
Boots(b) == calls[b].pc \in BootPcs \ {"begin"}

\* A stop under way acts on the machine the manager holds, or it was forgotten.
SameMachine ==
    \A c \in Calls : calls[c].pc \in StopPcs =>
        \/ machines = Nil
        \/ calls[c].mc = machines /\ (calls[c].pc # "get" => calls[c].target = machines)

\* The Boot that has yet to take the machine's lock.
Begins ==
    \A b \in Calls : calls[b].pc = "begin" =>
        /\ calls[b].mc = machines \/ Overtaken(b)
        /\ calls[b].fresh => mc[calls[b].mc].id = Nil

\* The Boot that holds the machine: no stop called after it got past it.
Waited ==
    \A b \in Calls : Boots(b) =>
        /\ calls[b].mc = machines /\ mc[machines].booting = b
        /\ \A d \in Calls : (d > b /\ Stopping(d)) =>
              \/ calls[d].pc \in {"get", "halt"}
              \/ calls[d].pc = "waitBoot" /\ calls[d].boot = b
              \/ calls[d].pc = "done" /\ ~calls[d].ok

\* What the Boot has placed so far.
Placing ==
    \A b \in Calls :
        /\ calls[b].pc = "placing" =>
              /\ mc[machines].handle = Nil /\ calls[b].id = mc[machines].id
              /\ disks \subseteq {calls[b].id} /\ (calls[b].fresh => calls[b].id = Nil)
        /\ calls[b].pc = "placed" => mc[machines].handle = Nil
        /\ calls[b].pc \in {"placed", "tracked"} => disks = {handle[b].disk}

\* What runs is known and has its disk, and there is one of it.
Running ==
    /\ \A h \in Calls : Up(h) =>
          /\ recovering \/ calls[h].pc = "placed" \/ (machines # Nil /\ mc[machines].handle = h)
          /\ handle[h].disk \in disks
    /\ \A h, k \in Calls : Up(h) /\ Up(k) => h = k

\* The handle a machine has is watched for it.
Tracked ==
    \A m \in Calls : mc[m].handle # Nil =>
        handle[mc[m].handle].mc = m /\ handle[mc[m].handle].watch = "armed"

\* A machine that was cancelled is marked as stopped while it has its handle.
Marked ==
    /\ \A h \in Calls :
          ( /\ h \notin strays
            /\ \/ handle[h].cancelled
               \/ handle[h].state = "exited" /\ ~handle[h].guest /\ handle[h].watch # "closed" ) =>
              /\ handle[h].watch # "none"
              /\ mc[handle[h].mc].handle = h => mc[handle[h].mc].halted
    /\ \A h \in Calls : handle[h].reported => handle[h].guest
    /\ \A c \in Calls : calls[c].pc = "waitBoot" => mc[calls[c].target].halted

\* How far a stop got, and what may still run.
Stopped ==
    \A c, h \in Calls : Up(h) =>
        /\ calls[c].pc = "waitWatch" => h = calls[c].handle
        /\ calls[c].pc \notin {"readId", "forget", "remove", "release"}
        /\ (Stopping(c) /\ calls[c].pc = "done" /\ calls[c].ok) => ~(h < c)

\* Every disk the backend holds is the machine's, or about to be or to go.
DisksKnown ==
    /\ ~recovering => \A d \in disks :
          \/ machines # Nil /\ mc[machines].id = d
          \/ \E b \in Calls : calls[b].pc \in {"placed", "tracked"} /\ handle[b].disk = d
          \/ \E c \in Calls : calls[c].pc = "remove" /\ calls[c].id = d
    /\ \A d, e \in disks : d = e
    /\ \A c \in Calls : calls[c].pc = "forget" => calls[c].id = mc[calls[c].mc].id

World ==
    /\ SameMachine /\ Begins /\ Waited /\ Placing /\ Running /\ Tracked /\ Marked /\ Stopped
    /\ DisksKnown

IInv == Shape /\ (~overtaken => World)

-----------------------------------------------------------------------------
(***************************************************************************)
(* What holds of the machines the manager failed to take over.             *)
(***************************************************************************)

\* Nobody watches them, and no Boot or stop is about them.
Unwatched ==
    \A s \in strays : s <= made /\ calls[s].pc = "done" /\ handle[s].watch = "none"

\* A Boot that started their disk has taken them over.
TakenOver ==
    \A s \in strays : \A b \in Calls :
        calls[b].pc \in {"placed", "tracked"} => handle[s].disk # handle[b].disk

\* One machine runs on a disk the backend holds.
Alone ==
    /\ recovering => \A h, k \in Calls :
          handle[h].disk = handle[k].disk /\ handle[h].disk \in disks => h = k
    /\ ~overtaken => \A h, k \in Calls :
          ( /\ handle[h].state = "up" /\ handle[h].disk \in disks
            /\ handle[k].state = "up" /\ handle[k].disk \in disks ) => h = k

StrayInv == Unwatched /\ TakenOver /\ Alone

-----------------------------------------------------------------------------
(* Types, and what a step does to the calls *)

Call ==
    [ op : {"none", "Boot", "Halt", "Discard", "Detach"},
      pc : {"begin", "placing", "placed", "tracked", "awaiting", "ready", "failed", "stopping",
            "get", "halt", "waitBoot", "waitWatch", "readId", "forget", "remove", "release", "done"},
      mc : Refs, target : Refs, fresh : BOOLEAN, boot : Refs, handle : Refs, id : Refs,
      ctx : BOOLEAN, ok : BOOLEAN ]

Mc == [ handle : Refs, id : Refs, halted : BOOLEAN, cancelBoot : Refs, booting : Refs ]

Handle ==
    [ state : {"none", "up", "exited"}, disk : Refs, mc : Refs, cancelled : BOOLEAN,
      guest : BOOLEAN, watch : {"none", "armed", "closed"}, reported : BOOLEAN ]

\* The numbers.
LEMMA Numbers ==
  /\ MaxCalls \in Nat /\ Calls \subseteq Nat /\ Refs \subseteq Nat /\ Calls \subseteq Refs
  /\ Nil \in Refs /\ Nil \notin Calls /\ \A r \in Refs : r # Nil => r \in Calls
  BY MachineAssumption DEF Calls, Refs, Nil

\* The types of the variables.
LEMMA Types ==
  ASSUME TypeOK
  PROVE  /\ machines \in Refs /\ mc \in [Calls -> Mc] /\ calls \in [Calls -> Call]
         /\ handle \in [Calls -> Handle] /\ disks \subseteq Calls /\ made \in 0 .. MaxCalls
         /\ recovering \in BOOLEAN /\ restarts \in 0 .. MaxRestarts /\ overtaken \in BOOLEAN
         /\ strays \subseteq Calls
  BY DEF TypeOK, Call, Mc, Handle

\* Call d stays as it is, its context aside.
Kept(d) ==
    /\ calls'[d].pc = calls[d].pc /\ calls'[d].op = calls[d].op /\ calls'[d].mc = calls[d].mc
    /\ calls'[d].target = calls[d].target /\ calls'[d].fresh = calls[d].fresh
    /\ calls'[d].boot = calls[d].boot /\ calls'[d].handle = calls[d].handle
    /\ calls'[d].id = calls[d].id /\ calls'[d].ok = calls[d].ok

\* Call c goes on to p.
Moves(c, p) ==
    /\ calls' \in [Calls -> Call] /\ calls'[c].pc = p
    /\ calls'[c].op = calls[c].op /\ calls'[c].mc = calls[c].mc
    /\ calls'[c].target = calls[c].target /\ calls'[c].fresh = calls[c].fresh
    /\ calls'[c].boot = calls[c].boot /\ calls'[c].handle = calls[c].handle
    /\ calls'[c].id = calls[c].id /\ calls'[c].ok = calls[c].ok
    /\ \A d \in Calls : d # c => Kept(d)

\* Call c returns.
Returns(c, ok) ==
    /\ calls' \in [Calls -> Call] /\ calls'[c].pc = "done"
    /\ calls'[c].op = calls[c].op /\ calls'[c].ok = ok
    /\ \A d \in Calls : d # c => Kept(d)

\* A call goes on.
LEMMA GotoMoves ==
  ASSUME TypeOK, NEW c \in Calls, NEW p, calls' = Goto(c, p),
         p \in {"begin", "placing", "placed", "tracked", "awaiting", "ready", "failed", "stopping",
                "get", "halt", "waitBoot", "waitWatch", "readId", "forget", "remove", "release", "done"}
  PROVE  Moves(c, p)
<1> DEFINE a == calls[c]
<1>1. calls \in [Calls -> Call] /\ a \in Call
  BY Types
<1>2. /\ calls' = [calls EXCEPT ![c] = [a EXCEPT !.pc = p]]
      /\ calls'[c] = [a EXCEPT !.pc = p] /\ \A d \in Calls : d # c => calls'[d] = calls[d]
  BY <1>1 DEF Goto
<1> HIDE DEF a
<1>3. [a EXCEPT !.pc = p] \in Call
  BY <1>1 DEF Call
<1>4. calls' \in [Calls -> Call]
  BY <1>1, <1>2, <1>3
<1>5. /\ calls'[c].pc = p /\ calls'[c].op = a.op /\ calls'[c].mc = a.mc
      /\ calls'[c].target = a.target /\ calls'[c].fresh = a.fresh
      /\ calls'[c].boot = a.boot /\ calls'[c].handle = a.handle
      /\ calls'[c].id = a.id /\ calls'[c].ok = a.ok
  BY <1>1, <1>2 DEF Call
<1> QED
  BY <1>2, <1>4, <1>5 DEF Moves, Kept, a

\* A call returns.
LEMMA ReturnReturns ==
  ASSUME TypeOK, NEW c \in Calls, NEW ok \in BOOLEAN, calls' = Return(c, ok)
  PROVE  Returns(c, ok)
<1> DEFINE a == calls[c]
           r == [NoCall EXCEPT !.op = a.op, !.ok = ok]
<1>1. calls \in [Calls -> Call] /\ a \in Call
  BY Types
<1>2. calls' = [calls EXCEPT ![c] = r]
  BY DEF Return
<1> HIDE DEF a
<1>3. NoCall \in Call /\ NoCall.pc = "done"
  BY Numbers DEF NoCall, Call
<1>4. a.op \in {"none", "Boot", "Halt", "Discard", "Detach"}
  BY <1>1 DEF Call
<1>5. r \in Call /\ r.pc = "done" /\ r.op = a.op /\ r.ok = ok
  BY <1>3, <1>4 DEF Call
<1> HIDE DEF r
<1>6. calls' \in [Calls -> Call] /\ calls'[c] = r /\ \A d \in Calls : d # c => calls'[d] = calls[d]
  BY <1>1, <1>2, <1>5
<1> QED
  BY <1>5, <1>6 DEF Returns, Kept, a

\* Once Halt returned nil, the call goes on as its operation says.
LEMMA HaltedGoes ==
  ASSUME TypeOK, NEW c \in Calls, Stopping(c), calls' = Halted(c)
  PROVE  Returns(c, TRUE) \/ Moves(c, "readId") \/ Moves(c, "release")
<1>1. CASE calls[c].op = "Halt"
  BY <1>1, ReturnReturns DEF Halted
<1>2. CASE calls[c].op = "Discard"
  <2>1. calls' = Goto(c, "readId")
    BY <1>2 DEF Halted
  <2> QED
    BY <2>1, GotoMoves
<1>3. CASE calls[c].op = "Detach"
  <2>1. calls' = Goto(c, "release")
    BY <1>3 DEF Halted
  <2> QED
    BY <2>1, GotoMoves
<1> QED
  BY <1>1, <1>2, <1>3 DEF Stopping

\* A stop that got past the Boot has none to wait for.
LEMMA PastBoot ==
  ASSUME Shape, World, NEW c \in Calls,
         calls[c].pc \in {"waitWatch", "readId", "forget", "remove", "release"}
  PROVE  ~recovering /\ \A b \in Calls : ~Boots(b)
<1>1. Stopping(c)
  BY DEF Shape, RefersOK, StopPcs
<1>2. \A b \in Calls : Boots(b) => c > b
  BY DEF Shape, OneBoot, Boots, BootPcs, StopPcs
<1>3. ~recovering
  BY DEF Shape, Quiet
<1> QED
  BY <1>1, <1>2, <1>3 DEF World, Waited

\* A machine the manager does not hold does not run.
LEMMA NoneHeld ==
  ASSUME Shape, World, ~recovering, machines = Nil, NEW h \in Calls
  PROVE  ~Up(h)
<1>1. calls[h].pc # "placed"
  BY DEF Shape, RefersOK, World, Waited, Boots, BootPcs
<1> QED
  BY <1>1 DEF World, Running

\* The machine became ready, or it did not.
LEMMA AwaitReadyStep ==
  ASSUME IInv, NEW c \in Calls, AwaitReady(c)
  PROVE  IInv'
<1>1. /\ calls[c].pc = "awaiting" /\ (Moves(c, "ready") \/ Moves(c, "failed"))
      /\ machines' = machines /\ mc' = mc /\ handle' = handle /\ disks' = disks /\ made' = made
      /\ recovering' = recovering /\ restarts' = restarts /\ overtaken' = overtaken /\ strays' = strays
  BY GotoMoves DEF AwaitReady, At, IInv, Shape
<1>s. Shape'
  <2>1. TypeOK'
    BY <1>1 DEF IInv, Shape, TypeOK, Call, Mc, Handle, Moves, Kept
  <2>2. RefersOK'
    BY <1>1 DEF IInv, Shape, RefersOK, BootPcs, StopPcs, Stopping, Moves, Kept
  <2>3. WatchOK'
    BY <1>1 DEF IInv, Shape, WatchOK
  <2>4. Unmade'
    BY <1>1 DEF IInv, Shape, Unmade, StopPcs, Moves, Kept
  <2>5. OneBoot'
    BY <1>1 DEF IInv, Shape, OneBoot, BootPcs, StopPcs, Moves, Kept
  <2>6. Quiet'
    BY <1>1 DEF IInv, Shape, Quiet, Moves, Kept
  <2>7. OvertakenOnce'
    BY <1>1 DEF IInv, Shape, OvertakenOnce, Moves, Kept
  <2> QED
    BY <2>1, <2>2, <2>3, <2>4, <2>5, <2>6, <2>7 DEF Shape
<1>w. ASSUME ~overtaken PROVE World'
  <2>0. World
    BY <1>1, <1>w DEF IInv
  <2>1. SameMachine'
    BY <1>1, <2>0 DEF World, SameMachine, StopPcs, Moves, Kept
  <2>2. Begins'
    BY <1>1, <2>0 DEF World, Begins, Overtaken, Stopping, Moves, Kept
  <2>3. Waited'
    BY <1>1, <2>0 DEF World, Waited, Boots, BootPcs, Stopping, Moves, Kept
  <2>4. Placing'
    BY <1>1, <2>0 DEF World, Placing, Moves, Kept
  <2>5. Running'
    BY <1>1, <2>0 DEF World, Running, Up, Moves, Kept
  <2>6. Tracked'
    BY <1>1, <2>0 DEF World, Tracked
  <2>7. Marked'
    BY <1>1, <2>0 DEF World, Marked, Moves, Kept
  <2>8. Stopped'
    BY <1>1, <2>0 DEF World, Stopped, Up, Stopping, Moves, Kept
  <2>9. DisksKnown'
    BY <1>1, <2>0 DEF World, DisksKnown, Moves, Kept
  <2> QED
    BY <2>1, <2>2, <2>3, <2>4, <2>5, <2>6, <2>7, <2>8, <2>9 DEF World
<1> QED
  BY <1>1, <1>s, <1>w DEF IInv

\* Boot saw the machine stop.
LEMMA BootStoppedStep ==
  ASSUME IInv, NEW c \in Calls, BootStopped(c)
  PROVE  IInv'
<1>1. /\ calls[c].pc = "stopping" /\ calls[c].op = "Boot" /\ Returns(c, FALSE)
      /\ machines' = machines /\ mc' = mc /\ handle' = handle /\ disks' = disks /\ made' = made
      /\ recovering' = recovering /\ restarts' = restarts /\ overtaken' = overtaken /\ strays' = strays
  BY ReturnReturns DEF BootStopped, At, IInv, Shape
<1>s. Shape'
  <2>1. TypeOK'
    BY <1>1 DEF IInv, Shape, TypeOK, Call, Mc, Handle, Returns, Kept
  <2>2. RefersOK'
    BY <1>1 DEF IInv, Shape, RefersOK, BootPcs, StopPcs, Stopping, Returns, Kept
  <2>3. WatchOK'
    BY <1>1 DEF IInv, Shape, WatchOK
  <2>4. Unmade'
    BY <1>1 DEF IInv, Shape, Unmade, StopPcs, Returns, Kept
  <2>5. OneBoot'
    BY <1>1 DEF IInv, Shape, OneBoot, BootPcs, StopPcs, Returns, Kept
  <2>6. Quiet'
    BY <1>1 DEF IInv, Shape, Quiet, Returns, Kept
  <2>7. OvertakenOnce'
    BY <1>1 DEF IInv, Shape, OvertakenOnce, Returns, Kept
  <2> QED
    BY <2>1, <2>2, <2>3, <2>4, <2>5, <2>6, <2>7 DEF Shape
<1>w. ASSUME ~overtaken PROVE World'
  <2>0. World
    BY <1>1, <1>w DEF IInv
  <2>1. SameMachine'
    BY <1>1, <2>0 DEF World, SameMachine, StopPcs, Returns, Kept
  <2>2. Begins'
    BY <1>1, <2>0 DEF World, Begins, Overtaken, Stopping, Returns, Kept
  <2>3. Waited'
    BY <1>1, <2>0 DEF World, Waited, Boots, BootPcs, Stopping, Returns, Kept
  <2>4. Placing'
    BY <1>1, <2>0 DEF World, Placing, Returns, Kept
  <2>5. Running'
    BY <1>1, <2>0 DEF World, Running, Up, Returns, Kept
  <2>6. Tracked'
    BY <1>1, <2>0 DEF World, Tracked
  <2>7. Marked'
    BY <1>1, <2>0 DEF World, Marked, Returns, Kept
  <2>8. Stopped'
    BY <1>1, <2>0 DEF World, Stopped, Up, Stopping, Returns, Kept
  <2>9. DisksKnown'
    BY <1>1, <2>0 DEF World, DisksKnown, Returns, Kept
  <2> QED
    BY <2>1, <2>2, <2>3, <2>4, <2>5, <2>6, <2>7, <2>8, <2>9 DEF World
<1> QED
  BY <1>1, <1>s, <1>w DEF IInv

\* Discard's Halt looks the machine up again.
LEMMA HaltGetStep ==
  ASSUME IInv, NEW c \in Calls, HaltGet(c)
  PROVE  IInv'
<1>0. calls[c].pc = "get" /\ Stopping(c) /\ TypeOK /\ calls \in [Calls -> Call] /\ machines \in Refs
  BY Types DEF HaltGet, IInv, Shape, RefersOK, StopPcs
<1>0a. ASSUME machines # Nil
       PROVE  /\ calls' \in [Calls -> Call] /\ calls'[c].pc = "halt" /\ calls'[c].target = machines
              /\ calls'[c].op = calls[c].op /\ calls'[c].mc = calls[c].mc /\ calls'[c].ok = calls[c].ok
              /\ \A d \in Calls : d # c => Kept(d)
  <2> DEFINE a == calls[c]
             r == [a EXCEPT !.pc = "halt", !.target = machines]
  <2>1. calls' = [calls EXCEPT ![c] = r] /\ a \in Call
    BY <1>0, <1>0a DEF HaltGet
  <2> HIDE DEF a
  <2>2. r \in Call /\ r.pc = "halt" /\ r.target = machines /\ r.op = a.op /\ r.mc = a.mc /\ r.ok = a.ok
    BY <1>0, <2>1 DEF Call
  <2> HIDE DEF r
  <2> QED
    BY <1>0, <2>1, <2>2 DEF Kept, a
<1>0b. machines = Nil => (Returns(c, TRUE) \/ Moves(c, "readId") \/ Moves(c, "release"))
  BY <1>0, HaltedGoes DEF HaltGet
<1>1. /\ calls[c].pc = "get" /\ Stopping(c)
      /\ machines' = machines /\ mc' = mc /\ handle' = handle /\ disks' = disks /\ made' = made
      /\ recovering' = recovering /\ restarts' = restarts /\ overtaken' = overtaken /\ strays' = strays
  BY <1>0 DEF HaltGet
<1>s. Shape'
  <2>1. TypeOK'
    BY <1>1, <1>0a, <1>0b DEF IInv, Shape, TypeOK, Call, Mc, Handle, Moves, Returns, Kept
  <2>2. RefersOK'
    BY <1>1, <1>0a, <1>0b DEF IInv, Shape, RefersOK, BootPcs, StopPcs, Stopping, Moves, Returns, Kept
  <2>3. WatchOK'
    BY <1>1, <1>0a, <1>0b DEF IInv, Shape, WatchOK
  <2>4. Unmade'
    BY <1>1, <1>0a, <1>0b DEF IInv, Shape, Unmade, StopPcs, Moves, Returns, Kept
  <2>5. OneBoot'
    BY <1>1, <1>0a, <1>0b DEF IInv, Shape, OneBoot, BootPcs, StopPcs, Moves, Returns, Kept
  <2>6. Quiet'
    BY <1>1, <1>0a, <1>0b DEF IInv, Shape, Quiet, Moves, Returns, Kept
  <2>7. OvertakenOnce'
    BY <1>1, <1>0a, <1>0b DEF IInv, Shape, OvertakenOnce, Moves, Returns, Kept
  <2> QED
    BY <2>1, <2>2, <2>3, <2>4, <2>5, <2>6, <2>7 DEF Shape
<1>w. ASSUME ~overtaken PROVE World'
  <2>0. World
    BY <1>1, <1>w DEF IInv
  <2>0a. machines = Nil => \A h \in Calls : ~Up(h) /\ ~Boots(h)
    BY <1>1, <2>0, NoneHeld DEF IInv, Shape, Quiet, RefersOK, World, Waited, Boots, BootPcs
  <2>1. SameMachine'
    BY <1>1, <2>0, <1>0a, <1>0b, <2>0a DEF World, SameMachine, StopPcs, Moves, Returns, Kept
  <2>2. Begins'
    BY <1>1, <2>0, <1>0a, <1>0b, <2>0a DEF World, Begins, Overtaken, Stopping, Moves, Returns, Kept
  <2>3. Waited'
    BY <1>1, <2>0, <1>0a, <1>0b, <2>0a DEF World, Waited, Boots, BootPcs, Stopping, Moves, Returns, Kept
  <2>4. Placing'
    BY <1>1, <2>0, <1>0a, <1>0b, <2>0a DEF World, Placing, Moves, Returns, Kept
  <2>5. Running'
    BY <1>1, <2>0, <1>0a, <1>0b, <2>0a DEF World, Running, Up, Moves, Returns, Kept
  <2>6. Tracked'
    BY <1>1, <2>0, <1>0a, <1>0b, <2>0a DEF World, Tracked
  <2>7. Marked'
    BY <1>1, <2>0, <1>0a, <1>0b, <2>0a DEF World, Marked, Moves, Returns, Kept
  <2>8. Stopped'
    BY <1>1, <2>0, <1>0a, <1>0b, <2>0a DEF World, Stopped, Up, Stopping, Moves, Returns, Kept
  <2>9. DisksKnown'
    BY <1>1, <2>0, <1>0a, <1>0b, <2>0a DEF World, DisksKnown, Moves, Returns, Kept
  <2> QED
    BY <2>1, <2>2, <2>3, <2>4, <2>5, <2>6, <2>7, <2>8, <2>9 DEF World
<1> QED
  BY <1>1, <1>s, <1>w DEF IInv

\* Halt saw the machine stop.
LEMMA HaltReturnStep ==
  ASSUME IInv, NEW c \in Calls, HaltReturn(c)
  PROVE  IInv'
<1>1. /\ calls[c].pc = "waitWatch" /\ Stopping(c) /\ handle[calls[c].handle].watch = "closed"
      /\ Returns(c, TRUE) \/ Moves(c, "readId") \/ Moves(c, "release")
      /\ machines' = machines /\ mc' = mc /\ handle' = handle /\ disks' = disks /\ made' = made
      /\ recovering' = recovering /\ restarts' = restarts /\ overtaken' = overtaken /\ strays' = strays
  BY HaltedGoes DEF HaltReturn, IInv, Shape, RefersOK, StopPcs
<1>s. Shape'
  <2>1. TypeOK'
    BY <1>1 DEF IInv, Shape, TypeOK, Call, Mc, Handle, Moves, Returns, Kept
  <2>2. RefersOK'
    BY <1>1 DEF IInv, Shape, RefersOK, BootPcs, StopPcs, Stopping, Moves, Returns, Kept
  <2>3. WatchOK'
    BY <1>1 DEF IInv, Shape, WatchOK
  <2>4. Unmade'
    BY <1>1 DEF IInv, Shape, Unmade, StopPcs, Moves, Returns, Kept
  <2>5. OneBoot'
    BY <1>1 DEF IInv, Shape, OneBoot, BootPcs, StopPcs, Moves, Returns, Kept
  <2>6. Quiet'
    BY <1>1 DEF IInv, Shape, Quiet, Moves, Returns, Kept
  <2>7. OvertakenOnce'
    BY <1>1 DEF IInv, Shape, OvertakenOnce, Moves, Returns, Kept
  <2> QED
    BY <2>1, <2>2, <2>3, <2>4, <2>5, <2>6, <2>7 DEF Shape
<1>w. ASSUME ~overtaken PROVE World'
  <2>0. World
    BY <1>1, <1>w DEF IInv
  <2>0a. \A h \in Calls : ~Up(h) /\ ~Boots(h)
    BY <1>1, <2>0, PastBoot DEF IInv, Shape, WatchOK, World, Stopped, Up
  <2>1. SameMachine'
    BY <1>1, <2>0, <2>0a DEF World, SameMachine, StopPcs, Moves, Returns, Kept
  <2>2. Begins'
    BY <1>1, <2>0, <2>0a DEF World, Begins, Overtaken, Stopping, Moves, Returns, Kept
  <2>3. Waited'
    BY <1>1, <2>0, <2>0a DEF World, Waited, Boots, BootPcs, Stopping, Moves, Returns, Kept
  <2>4. Placing'
    BY <1>1, <2>0, <2>0a DEF World, Placing, Moves, Returns, Kept
  <2>5. Running'
    BY <1>1, <2>0, <2>0a DEF World, Running, Up, Moves, Returns, Kept
  <2>6. Tracked'
    BY <1>1, <2>0, <2>0a DEF World, Tracked
  <2>7. Marked'
    BY <1>1, <2>0, <2>0a DEF World, Marked, Moves, Returns, Kept
  <2>8. Stopped'
    BY <1>1, <2>0, <2>0a DEF World, Stopped, Up, Stopping, Moves, Returns, Kept
  <2>9. DisksKnown'
    BY <1>1, <2>0, <2>0a DEF World, DisksKnown, Moves, Returns, Kept
  <2> QED
    BY <2>1, <2>2, <2>3, <2>4, <2>5, <2>6, <2>7, <2>8, <2>9 DEF World
<1> QED
  BY <1>1, <1>s, <1>w DEF IInv

\* Halt's caller gives up.
LEMMA HaltGivesUpStep ==
  ASSUME IInv, NEW c \in Calls, HaltGivesUp(c)
  PROVE  IInv'
<1>1. /\ calls[c].pc \in {"waitBoot", "waitWatch"} /\ Stopping(c) /\ Returns(c, FALSE)
      /\ machines' = machines /\ mc' = mc /\ handle' = handle /\ disks' = disks /\ made' = made
      /\ recovering' = recovering /\ restarts' = restarts /\ overtaken' = overtaken /\ strays' = strays
  BY ReturnReturns DEF HaltGivesUp, IInv, Shape, RefersOK, StopPcs
<1>s. Shape'
  <2>1. TypeOK'
    BY <1>1 DEF IInv, Shape, TypeOK, Call, Mc, Handle, Returns, Kept
  <2>2. RefersOK'
    BY <1>1 DEF IInv, Shape, RefersOK, BootPcs, StopPcs, Stopping, Returns, Kept
  <2>3. WatchOK'
    BY <1>1 DEF IInv, Shape, WatchOK
  <2>4. Unmade'
    BY <1>1 DEF IInv, Shape, Unmade, StopPcs, Returns, Kept
  <2>5. OneBoot'
    BY <1>1 DEF IInv, Shape, OneBoot, BootPcs, StopPcs, Returns, Kept
  <2>6. Quiet'
    BY <1>1 DEF IInv, Shape, Quiet, Returns, Kept
  <2>7. OvertakenOnce'
    BY <1>1 DEF IInv, Shape, OvertakenOnce, Returns, Kept
  <2> QED
    BY <2>1, <2>2, <2>3, <2>4, <2>5, <2>6, <2>7 DEF Shape
<1>w. ASSUME ~overtaken PROVE World'
  <2>0. World
    BY <1>1, <1>w DEF IInv
  <2>1. SameMachine'
    BY <1>1, <2>0 DEF World, SameMachine, StopPcs, Returns, Kept
  <2>2. Begins'
    BY <1>1, <2>0 DEF World, Begins, Overtaken, Stopping, Returns, Kept
  <2>3. Waited'
    BY <1>1, <2>0 DEF World, Waited, Boots, BootPcs, Stopping, Returns, Kept
  <2>4. Placing'
    BY <1>1, <2>0 DEF World, Placing, Returns, Kept
  <2>5. Running'
    BY <1>1, <2>0 DEF World, Running, Up, Returns, Kept
  <2>6. Tracked'
    BY <1>1, <2>0 DEF World, Tracked
  <2>7. Marked'
    BY <1>1, <2>0 DEF World, Marked, Returns, Kept
  <2>8. Stopped'
    BY <1>1, <2>0 DEF World, Stopped, Up, Stopping, Returns, Kept
  <2>9. DisksKnown'
    BY <1>1, <2>0 DEF World, DisksKnown, Returns, Kept
  <2> QED
    BY <2>1, <2>2, <2>3, <2>4, <2>5, <2>6, <2>7, <2>8, <2>9 DEF World
<1> QED
  BY <1>1, <1>s, <1>w DEF IInv

\* Discard reads which disk to remove.
LEMMA DiscardReadStep ==
  ASSUME IInv, NEW c \in Calls, DiscardRead(c)
  PROVE  IInv'
<1>0. calls[c].pc = "readId" /\ Stopping(c) /\ TypeOK /\ calls[c].mc \in Calls
  BY Types, Numbers DEF DiscardRead, IInv, Shape, RefersOK, StopPcs, Call
<1>1. /\ calls[c].pc = "readId" /\ Stopping(c)
      /\ calls' \in [Calls -> Call] /\ calls'[c].pc = "forget" /\ calls'[c].id = mc[calls[c].mc].id
      /\ calls'[c].op = calls[c].op /\ calls'[c].mc = calls[c].mc /\ calls'[c].target = calls[c].target
      /\ calls'[c].ok = calls[c].ok
      /\ \A d \in Calls : d # c => Kept(d)
      /\ machines' = machines /\ mc' = mc /\ handle' = handle /\ disks' = disks /\ made' = made
      /\ recovering' = recovering /\ restarts' = restarts /\ overtaken' = overtaken /\ strays' = strays
  <2> DEFINE a == calls[c]
             i == mc[calls[c].mc].id
             r == [a EXCEPT !.pc = "forget", !.id = i]
  <2>1. calls' = [calls EXCEPT ![c] = r] /\ a \in Call /\ i \in Refs /\ calls \in [Calls -> Call]
    BY <1>0, Types DEF DiscardRead, Mc
  <2> HIDE DEF a, i
  <2>2. r \in Call /\ r.pc = "forget" /\ r.id = i /\ r.op = a.op /\ r.mc = a.mc /\ r.target = a.target /\ r.ok = a.ok
    BY <2>1 DEF Call
  <2> HIDE DEF r
  <2>3. calls' \in [Calls -> Call] /\ calls'[c] = r /\ \A d \in Calls : d # c => calls'[d] = calls[d]
    BY <2>1, <2>2
  <2> QED
    BY <1>0, <2>2, <2>3 DEF Kept, DiscardRead, a, i
<1>s. Shape'
  <2>1. TypeOK'
    BY <1>1 DEF IInv, Shape, TypeOK, Call, Mc, Handle, Kept
  <2>2. RefersOK'
    BY <1>1 DEF IInv, Shape, RefersOK, BootPcs, StopPcs, Stopping, Kept
  <2>3. WatchOK'
    BY <1>1 DEF IInv, Shape, WatchOK
  <2>4. Unmade'
    BY <1>1 DEF IInv, Shape, Unmade, StopPcs, Kept
  <2>5. OneBoot'
    BY <1>1 DEF IInv, Shape, OneBoot, BootPcs, StopPcs, Kept
  <2>6. Quiet'
    BY <1>1 DEF IInv, Shape, Quiet, Kept
  <2>7. OvertakenOnce'
    BY <1>1 DEF IInv, Shape, OvertakenOnce, Kept
  <2> QED
    BY <2>1, <2>2, <2>3, <2>4, <2>5, <2>6, <2>7 DEF Shape
<1>w. ASSUME ~overtaken PROVE World'
  <2>0. World
    BY <1>1, <1>w DEF IInv
  <2>0a. \A h \in Calls : ~Boots(h) /\ ~Up(h)
    BY <1>1, <2>0, PastBoot DEF IInv, World, Stopped
  <2>1. SameMachine'
    BY <1>1, <2>0, <2>0a DEF World, SameMachine, StopPcs, Kept
  <2>2. Begins'
    BY <1>1, <2>0, <2>0a DEF World, Begins, Overtaken, Stopping, Kept
  <2>3. Waited'
    BY <1>1, <2>0, <2>0a DEF World, Waited, Boots, BootPcs, Stopping, Kept
  <2>4. Placing'
    BY <1>1, <2>0, <2>0a DEF World, Placing, Kept
  <2>5. Running'
    BY <1>1, <2>0, <2>0a DEF World, Running, Up, Kept
  <2>6. Tracked'
    BY <1>1, <2>0, <2>0a DEF World, Tracked
  <2>7. Marked'
    BY <1>1, <2>0, <2>0a DEF World, Marked, Kept
  <2>8. Stopped'
    BY <1>1, <2>0, <2>0a DEF World, Stopped, Up, Stopping, Kept
  <2>9. DisksKnown'
    BY <1>1, <2>0, <2>0a DEF World, DisksKnown, Kept
  <2> QED
    BY <2>1, <2>2, <2>3, <2>4, <2>5, <2>6, <2>7, <2>8, <2>9 DEF World
<1> QED
  BY <1>1, <1>s, <1>w DEF IInv

-----------------------------------------------------------------------------
(* New calls, and the machine's marks *)

\* The next call has a number of its own.
LEMMA NextNumber ==
  ASSUME Shape, Room
  PROVE  /\ made + 1 \in Calls /\ made \in Nat /\ ~overtaken /\ ~recovering
         /\ calls[made + 1].pc = "done" /\ calls[made + 1].op = "none"
         /\ handle[made + 1] = NoHandle /\ mc[made + 1] = NewMachine
         /\ \A c \in Calls : calls[c].pc # "done" => c < made + 1
<1>1. made \in Nat /\ made + 1 \in Calls /\ \A c \in Calls : c \in Nat
  BY MachineAssumption DEF Shape, TypeOK, Room, Calls
<1>2. made + 1 > made /\ \A c \in Calls : ~(c > made) => c < made + 1
  BY <1>1
<1> QED
  BY <1>1, <1>2 DEF Shape, Unmade, Room

\* A stop is called.
LEMMA StopStep ==
  ASSUME IInv, NEW op \in {"Halt", "Discard", "Detach"}, Stop(op)
  PROVE  IInv'
<1> DEFINE c == made + 1
<1>0. /\ c \in Calls /\ made \in Nat /\ ~overtaken /\ ~recovering /\ calls[c].pc = "done" /\ calls[c].op = "none"
      /\ \A d \in Calls : calls[d].pc # "done" => d < c
  BY NextNumber DEF Stop, IInv
<1>1. /\ calls' \in [Calls -> Call] /\ calls'[c].pc \in {"get", "halt"} /\ calls'[c].op = op
      /\ calls'[c].mc = machines /\ calls'[c].target = machines
      /\ machines # Nil /\ made' = c /\ made' \in 0 .. MaxCalls /\ c \in Calls /\ ~overtaken /\ ~recovering
      /\ \A d \in Calls : d # c => Kept(d)
      /\ machines' = machines /\ mc' = mc /\ handle' = handle /\ disks' = disks /\ recovering' = recovering
      /\ restarts' = restarts /\ overtaken' = overtaken /\ strays' = strays
  <2> DEFINE p == IF op = "Discard" THEN "get" ELSE "halt"
             r == [NoCall EXCEPT !.op = op, !.mc = machines, !.target = machines, !.pc = p]
             n == NoCall
  <2>1. calls' = [calls EXCEPT ![c] = r] /\ calls \in [Calls -> Call] /\ machines \in Refs
    BY Types DEF Stop, IInv, Shape
  <2>2. n \in Call /\ p \in {"get", "halt"}
    BY Numbers DEF NoCall, Call
  <2>3. r = [n EXCEPT !.op = op, !.mc = machines, !.target = machines, !.pc = p]
    OBVIOUS
  <2> HIDE DEF n, p
  <2>4. r \in Call /\ r.pc = p /\ r.op = op /\ r.mc = machines /\ r.target = machines
    BY <2>1, <2>2, <2>3 DEF Call
  <2> HIDE DEF r, c
  <2>5. calls' \in [Calls -> Call] /\ calls'[c] = r /\ \A d \in Calls : d # c => calls'[d] = calls[d]
    BY <1>0, <2>1, <2>4
  <2>6. made' = c /\ machines # Nil
    BY DEF Stop, c
  <2>7. made' \in 0 .. MaxCalls
    BY <1>0, <2>6 DEF Calls
  <2> QED
    BY <1>0, <2>2, <2>4, <2>5, <2>6, <2>7 DEF Kept, Stop
<1>2. \A d \in Calls : d > c => d > made
  BY <1>0, Numbers
<1>3. machines <= c
  BY <1>0, Numbers DEF IInv, Shape, Unmade, TypeOK
<1>4. \A d \in Calls : /\ calls[d].pc # "done" => calls[d].mc <= c
                       /\ calls[d].pc \in StopPcs => calls[d].target <= c
  <2>1. \A d \in Calls : calls[d].mc \in Nat /\ calls[d].target \in Nat
    BY Types, Numbers DEF IInv, Shape, Call
  <2> QED
    BY <1>0, <2>1 DEF IInv, Shape, Unmade
<1> HIDE DEF c
<1>s. Shape'
  <2>1. TypeOK'
    BY <1>1, <1>0, <1>2, <1>3, <1>4 DEF IInv, Shape, TypeOK, Call, Mc, Handle, Kept
  <2>2. RefersOK'
    BY <1>1, <1>0, <1>2, <1>3, <1>4 DEF IInv, Shape, RefersOK, BootPcs, StopPcs, Stopping, Kept
  <2>3. WatchOK'
    BY <1>1, <1>0, <1>2, <1>3, <1>4 DEF IInv, Shape, WatchOK
  <2>4. Unmade'
    <3>1. machines' = machines /\ made' = c /\ mc' = mc /\ handle' = handle /\ disks' = disks
      BY <1>1
    <3>2. \A d \in Calls : /\ calls'[d].pc # "done" => calls'[d].mc <= c
                           /\ calls'[d].pc \in StopPcs => calls'[d].target <= c
      <4>1. calls'[c].mc <= c /\ calls'[c].target <= c
        BY <1>1, <1>3
      <4>2. ASSUME NEW d \in Calls, d # c
            PROVE  /\ calls'[d].pc # "done" => calls'[d].mc <= c
                   /\ calls'[d].pc \in StopPcs => calls'[d].target <= c
        <5>1. Kept(d)
          BY <1>1, <4>2
        <5> QED
          BY <1>4, <5>1 DEF Kept
      <4> QED
        BY <4>1, <4>2
    <3>3. \A d \in Calls : d > c => calls'[d].pc = calls[d].pc /\ calls'[d].op = calls[d].op /\ d > made
      <4>1. \A d \in Calls : d > c => d # c
        BY <1>0, Numbers
      <4> QED
        BY <1>1, <1>2, <4>1 DEF Kept
    <3> QED
      BY <1>3, <3>1, <3>2, <3>3 DEF IInv, Shape, Unmade
  <2>5. OneBoot'
    <3>1. calls'[c].pc \in StopPcs /\ calls'[c].pc \notin BootPcs
      BY <1>1 DEF StopPcs, BootPcs
    <3>2. \A d \in Calls : d # c => calls'[d].pc = calls[d].pc
      BY <1>1 DEF Kept
    <3>3. \A b \in Calls : b # c /\ calls[b].pc \in BootPcs => c > b
      <4>1. \A b \in Calls : calls[b].pc \in BootPcs => calls[b].pc # "done"
        BY DEF BootPcs
      <4> QED
        BY <1>0, <4>1, Numbers
    <3>4. OneBoot
      BY DEF IInv, Shape
    <3> QED
      BY <3>1, <3>2, <3>3, <3>4 DEF OneBoot
  <2>6. Quiet'
    BY <1>1, <1>0, <1>2, <1>3, <1>4 DEF IInv, Shape, Quiet, Kept
  <2>7. OvertakenOnce'
    BY <1>1, <1>0, <1>2, <1>3, <1>4 DEF IInv, Shape, OvertakenOnce, Kept
  <2> QED
    BY <2>1, <2>2, <2>3, <2>4, <2>5, <2>6, <2>7 DEF Shape
<1>w. ASSUME ~overtaken PROVE World'
  <2>0. World
    BY <1>1, <1>w DEF IInv
  <2>1. SameMachine'
    BY <1>1, <2>0, <1>0 DEF World, SameMachine, StopPcs, Kept
  <2>2. Begins'
    BY <1>1, <2>0, <1>0 DEF World, Begins, Overtaken, Stopping, Kept
  <2>3. Waited'
    <3>1. ASSUME NEW b \in Calls, Boots(b)' PROVE b # c /\ Boots(b) /\ Kept(b)
      <4>1. b # c
        BY <1>1, <3>1 DEF Boots, BootPcs
      <4> QED
        BY <1>1, <3>1, <4>1 DEF Boots, Kept
    <3>2. ASSUME NEW b \in Calls, Boots(b), NEW d \in Calls, d > b, Stopping(d)'
          PROVE  \/ calls'[d].pc \in {"get", "halt"}
                 \/ calls'[d].pc = "waitBoot" /\ calls'[d].boot = b
                 \/ calls'[d].pc = "done" /\ ~calls'[d].ok
      <4>1. CASE d = c
        BY <1>1, <4>1
      <4>2. CASE d # c
        <5>1. Kept(d)
          BY <1>1, <4>2
        <5> QED
          BY <2>0, <3>2, <5>1 DEF World, Waited, Stopping, Kept
      <4> QED
        BY <4>1, <4>2
    <3>3. \A b \in Calls : Boots(b) => calls[b].mc = machines /\ mc[machines].booting = b
      BY <2>0 DEF World, Waited
    <3>4. machines' = machines /\ mc' = mc
      BY <1>1
    <3> QED
      BY <3>1, <3>2, <3>3, <3>4 DEF Waited, Kept
  <2>4. Placing'
    <3>1. \A b \in Calls : calls'[b].pc \in {"placing", "placed", "tracked"} => Kept(b)
      BY <1>1
    <3>2. machines' = machines /\ mc' = mc /\ handle' = handle /\ disks' = disks
      BY <1>1
    <3> QED
      BY <2>0, <3>1, <3>2 DEF World, Placing, Kept
  <2>5. Running'
    BY <1>1, <2>0, <1>0 DEF World, Running, Up, Kept
  <2>6. Tracked'
    BY <1>1, <2>0, <1>0 DEF World, Tracked
  <2>7. Marked'
    BY <1>1, <2>0, <1>0 DEF World, Marked, Kept
  <2>8. Stopped'
    BY <1>1, <2>0, <1>0 DEF World, Stopped, Up, Stopping, Kept
  <2>9. DisksKnown'
    BY <1>1, <2>0, <1>0 DEF World, DisksKnown, Kept
  <2> QED
    BY <2>1, <2>2, <2>3, <2>4, <2>5, <2>6, <2>7, <2>8, <2>9 DEF World
<1> QED
  BY <1>1, <1>s, <1>w DEF IInv

\* A boot is called.
LEMMA BootLookupStep ==
  ASSUME IInv, BootLookup
  PROVE  IInv'
<1> DEFINE c == made + 1
           m == IF machines = Nil THEN c ELSE machines
<1>0. /\ c \in Calls /\ made \in Nat /\ ~overtaken /\ ~recovering /\ calls[c].pc = "done" /\ calls[c].op = "none"
      /\ mc[c] = NewMachine /\ \A d \in Calls : calls[d].pc = "done"
  BY NextNumber DEF BootLookup, IInv, UnderWay
<1>0a. m \in Calls /\ m \in Refs /\ m # Nil
  BY <1>0, Numbers DEF IInv, Shape, TypeOK
<1>1. /\ calls' \in [Calls -> Call] /\ calls'[c].pc = "begin" /\ calls'[c].op = "Boot"
      /\ calls'[c].mc = m /\ (calls'[c].fresh => machines = Nil) /\ machines' = m
      /\ made' = c /\ made' \in 0 .. MaxCalls /\ c \in Calls /\ ~overtaken /\ ~recovering
      /\ \A d \in Calls : d # c => Kept(d)
      /\ mc' = mc /\ handle' = handle /\ disks' = disks /\ recovering' = recovering /\ restarts' = restarts
      /\ overtaken' = overtaken /\ strays' = strays
  <2> DEFINE n == NoCall
             f == machines = Nil
             r == [n EXCEPT !.op = "Boot", !.pc = "begin", !.mc = m, !.fresh = f]
  <2>1. calls' = [calls EXCEPT ![c] = r] /\ calls \in [Calls -> Call]
    BY Types DEF BootLookup, IInv, Shape
  <2>2. n \in Call /\ f \in BOOLEAN
    BY Numbers DEF NoCall, Call
  <2> HIDE DEF n, f, m
  <2>3. r \in Call /\ r.pc = "begin" /\ r.op = "Boot" /\ r.mc = m /\ r.fresh = f
    BY <1>0a, <2>2 DEF Call
  <2> HIDE DEF r, c
  <2>4. calls' \in [Calls -> Call] /\ calls'[c] = r /\ \A d \in Calls : d # c => calls'[d] = calls[d]
    BY <1>0, <2>1, <2>3
  <2>5. made' = c /\ machines' = m
    BY DEF BootLookup, c, m
  <2>6. made' \in 0 .. MaxCalls
    BY <1>0, <2>5 DEF Calls
  <2> QED
    BY <1>0, <2>3, <2>4, <2>5, <2>6 DEF Kept, BootLookup, f
<1>2. \A d \in Calls : d > c => d > made
  BY <1>0, Numbers
<1>3. m <= c
  BY <1>0, Numbers DEF IInv, Shape, Unmade, TypeOK
<1>4. machines # Nil => m = machines
  OBVIOUS
<1>6. handle[c].watch = "none"
  BY NextNumber DEF BootLookup, IInv, NoHandle
<1>5. machines = Nil => m = c
  OBVIOUS
<1> HIDE DEF c, m
<1>s. Shape'
  <2>1. TypeOK'
    BY <1>1, <1>0, <1>0a, <1>2, <1>3 DEF IInv, Shape, TypeOK, Call, Mc, Handle, Kept
  <2>2. RefersOK'
    BY <1>1, <1>0, <1>0a, <1>2, <1>3, <1>6 DEF IInv, Shape, RefersOK, BootPcs, StopPcs, Stopping, Kept
  <2>3. WatchOK'
    BY <1>1, <1>0, <1>0a, <1>2, <1>3 DEF IInv, Shape, WatchOK
  <2>4. Unmade'
    BY <1>1, <1>0, <1>0a, <1>2, <1>3 DEF IInv, Shape, Unmade, StopPcs, Kept
  <2>5. OneBoot'
    BY <1>1, <1>0, <1>0a, <1>2, <1>3 DEF IInv, Shape, OneBoot, BootPcs, StopPcs, Kept
  <2>6. Quiet'
    BY <1>1, <1>0, <1>0a, <1>2, <1>3 DEF IInv, Shape, Quiet, Kept
  <2>7. OvertakenOnce'
    BY <1>1, <1>0, <1>0a, <1>2, <1>3 DEF IInv, Shape, OvertakenOnce, Kept
  <2> QED
    BY <2>1, <2>2, <2>3, <2>4, <2>5, <2>6, <2>7 DEF Shape
<1>w. ASSUME ~overtaken PROVE World'
  <2>0. World
    BY <1>1, <1>w DEF IInv
  <2>0a. machines = Nil => disks = {} /\ \A h \in Calls : ~Up(h)
    BY <1>0, <1>1, <2>0, NoneHeld DEF IInv, World, DisksKnown
  <2>1. SameMachine'
    BY <1>1, <2>0, <1>0, <1>0a, <1>4, <1>5, <2>0a DEF World, SameMachine, StopPcs, Kept
  <2>2. Begins'
    BY <1>1, <2>0, <1>0, <1>0a, <1>4, <1>5, <2>0a DEF World, Begins, Overtaken, Stopping, Kept, NewMachine
  <2>3. Waited'
    BY <1>1, <2>0, <1>0, <1>0a, <1>4, <1>5, <2>0a DEF World, Waited, Boots, BootPcs, Stopping, Kept
  <2>4. Placing'
    BY <1>1, <2>0, <1>0, <1>0a, <1>4, <1>5, <2>0a DEF World, Placing, Kept
  <2>5. Running'
    BY <1>1, <2>0, <1>0, <1>0a, <1>4, <1>5, <2>0a DEF World, Running, Up, Kept
  <2>6. Tracked'
    BY <1>1, <2>0, <1>0, <1>0a, <1>4, <1>5, <2>0a DEF World, Tracked
  <2>7. Marked'
    BY <1>1, <2>0, <1>0, <1>0a, <1>4, <1>5, <2>0a DEF World, Marked, Kept
  <2>8. Stopped'
    BY <1>1, <2>0, <1>0, <1>0a, <1>4, <1>5, <2>0a DEF World, Stopped, Up, Stopping, Kept
  <2>9. DisksKnown'
    BY <1>1, <2>0, <1>0, <1>0a, <1>4, <1>5, <2>0a DEF World, DisksKnown, Kept
  <2> QED
    BY <2>1, <2>2, <2>3, <2>4, <2>5, <2>6, <2>7, <2>8, <2>9 DEF World
<1> QED
  BY <1>1, <1>s, <1>w DEF IInv

\* What is watched is watched for a machine.
LEMMA WatchedMc ==
  ASSUME Shape, NEW h \in Calls, handle[h].watch # "none"
  PROVE  handle[h].mc \in Calls
  BY Types, Numbers DEF Shape, WatchOK, Handle

\* Machine m keeps its handle, its disk and its boot.
McKept(m) == mc'[m].handle = mc[m].handle /\ mc'[m].id = mc[m].id /\ mc'[m].booting = mc[m].booting

\* A machine that runs is left as it is.
LEMMA BootRunsStep ==
  ASSUME IInv, NEW c \in Calls, BootBegin(c), Runs(calls[c].mc)
  PROVE  IInv'
<1>1. /\ calls[c].pc = "begin" /\ calls[c].op = "Boot" /\ Returns(c, TRUE)
      /\ machines' = machines /\ mc' = mc /\ handle' = handle /\ disks' = disks /\ made' = made
      /\ recovering' = recovering /\ restarts' = restarts /\ overtaken' = overtaken /\ strays' = strays
  BY ReturnReturns DEF BootBegin, At, IInv, Shape
<1>s. Shape'
  <2>1. TypeOK'
    BY <1>1 DEF IInv, Shape, TypeOK, Call, Mc, Handle, Returns, Kept
  <2>2. RefersOK'
    BY <1>1 DEF IInv, Shape, RefersOK, BootPcs, StopPcs, Stopping, Returns, Kept
  <2>3. WatchOK'
    BY <1>1 DEF IInv, Shape, WatchOK
  <2>4. Unmade'
    BY <1>1 DEF IInv, Shape, Unmade, StopPcs, Returns, Kept
  <2>5. OneBoot'
    BY <1>1 DEF IInv, Shape, OneBoot, BootPcs, StopPcs, Returns, Kept
  <2>6. Quiet'
    BY <1>1 DEF IInv, Shape, Quiet, Returns, Kept
  <2>7. OvertakenOnce'
    BY <1>1 DEF IInv, Shape, OvertakenOnce, Returns, Kept
  <2> QED
    BY <2>1, <2>2, <2>3, <2>4, <2>5, <2>6, <2>7 DEF Shape
<1>w. ASSUME ~overtaken PROVE World'
  <2>0. World
    BY <1>1, <1>w DEF IInv
  <2>1. SameMachine'
    BY <1>1, <2>0 DEF World, SameMachine, StopPcs, Returns, Kept
  <2>2. Begins'
    BY <1>1, <2>0 DEF World, Begins, Overtaken, Stopping, Returns, Kept
  <2>3. Waited'
    BY <1>1, <2>0 DEF World, Waited, Boots, BootPcs, Stopping, Returns, Kept
  <2>4. Placing'
    BY <1>1, <2>0 DEF World, Placing, Returns, Kept
  <2>5. Running'
    BY <1>1, <2>0 DEF World, Running, Up, Returns, Kept
  <2>6. Tracked'
    BY <1>1, <2>0 DEF World, Tracked
  <2>7. Marked'
    BY <1>1, <2>0 DEF World, Marked, Returns, Kept
  <2>8. Stopped'
    BY <1>1, <2>0 DEF World, Stopped, Up, Stopping, Returns, Kept
  <2>9. DisksKnown'
    BY <1>1, <2>0 DEF World, DisksKnown, Returns, Kept
  <2> QED
    BY <2>1, <2>2, <2>3, <2>4, <2>5, <2>6, <2>7, <2>8, <2>9 DEF World
<1> QED
  BY <1>1, <1>s, <1>w DEF IInv

\* Boot takes the machine that does not run.
LEMMA BootBeginStep ==
  ASSUME IInv, NEW c \in Calls, BootBegin(c), ~Runs(calls[c].mc)
  PROVE  IInv'
<1> DEFINE m == calls[c].mc
<1>0. /\ m \in Calls /\ mc \in [Calls -> Mc] /\ calls \in [Calls -> Call] /\ calls[c].pc = "begin"
      /\ mc[m].handle = Nil /\ mc[m].id \in Refs
  BY Types, Numbers DEF BootBegin, At, Runs, IInv, Shape, RefersOK, Call, Mc
<1>0a. /\ calls' \in [Calls -> Call] /\ calls'[c].pc = "placing" /\ calls'[c].id = mc[m].id
       /\ calls'[c].op = calls[c].op /\ calls'[c].mc = calls[c].mc /\ calls'[c].fresh = calls[c].fresh
       /\ \A d \in Calls : d # c => Kept(d)
  <2> DEFINE a == calls[c]
             i == mc[m].id
             r == [a EXCEPT !.pc = "placing", !.id = i]
  <2>1. calls' = [calls EXCEPT ![c] = r] /\ a \in Call /\ i \in Refs
    BY <1>0 DEF BootBegin, KeptDisk
  <2> HIDE DEF a, i
  <2>2. r \in Call /\ r.pc = "placing" /\ r.id = i /\ r.op = a.op /\ r.mc = a.mc /\ r.fresh = a.fresh
    BY <2>1 DEF Call
  <2> HIDE DEF r
  <2>3. calls' \in [Calls -> Call] /\ calls'[c] = r /\ \A d \in Calls : d # c => calls'[d] = calls[d]
    BY <1>0, <2>1, <2>2
  <2> QED
    BY <2>2, <2>3 DEF Kept, a, i
<1>0b. /\ mc' \in [Calls -> Mc] /\ mc'[m].handle = mc[m].handle /\ mc'[m].id = mc[m].id /\ mc'[m].booting = c
       /\ \A o \in Calls : o # m => mc'[o] = mc[o]
  <2> DEFINE a == mc[m]
             r == [a EXCEPT !.halted = FALSE, !.cancelBoot = c, !.booting = c]
  <2>1. mc' = [mc EXCEPT ![m] = r] /\ a \in Mc
    BY <1>0 DEF BootBegin
  <2> HIDE DEF a
  <2>2. r \in Mc /\ r.handle = a.handle /\ r.id = a.id /\ r.booting = c
    BY <2>1, Numbers DEF Mc
  <2> HIDE DEF r, m
  <2>3. mc' \in [Calls -> Mc] /\ mc'[m] = r /\ \A o \in Calls : o # m => mc'[o] = mc[o]
    BY <1>0, <2>1, <2>2
  <2> QED
    BY <2>2, <2>3 DEF a
<1>1. /\ calls[c].pc = "begin" /\ calls[c].op = "Boot" /\ ~overtaken
      /\ overtaken' = Overtaken(c) /\ overtaken' \in BOOLEAN /\ strays' = strays
      /\ machines' = machines /\ handle' = handle /\ disks' = disks /\ made' = made /\ recovering' = recovering
      /\ restarts' = restarts
  BY DEF BootBegin, At, IInv, Shape, OvertakenOnce, Overtaken
<1>2. m <= made /\ made \in Nat
  <2>1. made \in Nat
    BY Types, Numbers DEF IInv, Shape
  <2> QED
    BY <1>0, <2>1 DEF IInv, Shape, Unmade
<1>3. \A h \in Calls : handle[h].watch # "none" => handle[h].mc \in Calls
  BY WatchedMc DEF IInv
<1> HIDE DEF m
<1>s. Shape'
  <2>1. TypeOK'
    BY <1>1, <1>0, <1>0a, <1>0b, <1>2 DEF IInv, Shape, TypeOK, Call, Mc, Handle, Kept
  <2>2. RefersOK'
    BY <1>1, <1>0, <1>0a, <1>0b, <1>2 DEF IInv, Shape, RefersOK, BootPcs, StopPcs, Stopping, Kept
  <2>3. WatchOK'
    BY <1>1, <1>0, <1>0a, <1>0b, <1>2 DEF IInv, Shape, WatchOK
  <2>4. Unmade'
    BY <1>1, <1>0, <1>0a, <1>0b, <1>2, Numbers DEF IInv, Shape, Unmade, StopPcs, Kept
  <2>5. OneBoot'
    BY <1>1, <1>0, <1>0a, <1>0b, <1>2 DEF IInv, Shape, OneBoot, BootPcs, StopPcs, Kept
  <2>6. Quiet'
    BY <1>1, <1>0, <1>0a, <1>0b, <1>2 DEF IInv, Shape, Quiet, Kept
  <2>7. OvertakenOnce'
    BY <1>1, <1>0, <1>0a, <1>0b, <1>2 DEF IInv, Shape, OvertakenOnce, Kept, OneBoot, BootPcs, StopPcs
  <2> QED
    BY <2>1, <2>2, <2>3, <2>4, <2>5, <2>6, <2>7 DEF Shape
<1>w. ASSUME ~overtaken' PROVE World'
  <2>0. World
    BY <1>1, <1>w DEF IInv
  <2>0a. /\ m = machines /\ m = calls[c].mc
         /\ \A d \in Calls : (d > c /\ Stopping(d)) => calls[d].pc \in {"get", "halt"}
    BY <1>1, <1>w, <2>0 DEF World, Begins, Overtaken, m
  <2>0b. /\ ~recovering /\ \A d \in Calls : calls[d].pc \in {"done", "get", "halt"} \/ d = c
         /\ \A h \in Calls : ~Up(h)
    <3>1. ~recovering
      BY <1>1 DEF IInv, Shape, Quiet
    <3>2. ASSUME NEW d \in Calls, d # c, calls[d].pc # "done" PROVE calls[d].pc \in {"get", "halt"}
      BY <1>1, <2>0a, <3>2 DEF IInv, Shape, OneBoot, RefersOK, BootPcs
    <3> QED
      BY <1>0, <1>1, <2>0, <2>0a, <3>1, <3>2, Numbers DEF World, Running
  <2>0c. disks \subseteq {mc[m].id} /\ (calls[c].fresh => mc[m].id = Nil)
    BY <1>1, <2>0, <2>0a, <2>0b DEF World, DisksKnown, Begins
  <2>1. SameMachine'
    BY <1>1, <2>0, <1>0, <1>0a, <1>0b, <2>0a, <2>0b, <2>0c DEF World, SameMachine, StopPcs, Kept
  <2>2. Begins'
    BY <1>1, <2>0, <1>0, <1>0a, <1>0b, <2>0a, <2>0b, <2>0c DEF World, Begins, Overtaken, Stopping, Kept
  <2>3. Waited'
    BY <1>1, <2>0, <1>0, <1>0a, <1>0b, <2>0a, <2>0b, <2>0c DEF World, Waited, Boots, BootPcs, Stopping, Kept
  <2>4. Placing'
    BY <1>1, <2>0, <1>0, <1>0a, <1>0b, <2>0a, <2>0b, <2>0c DEF World, Placing, Kept
  <2>5. Running'
    BY <1>1, <2>0, <1>0, <1>0a, <1>0b, <2>0a, <2>0b, <2>0c DEF World, Running, Up, Kept
  <2>6. Tracked'
    BY <1>1, <2>0, <1>0, <1>0a, <1>0b, <2>0a, <2>0b, <2>0c DEF World, Tracked
  <2>7. Marked'
    <3>1. \A h \in Calls : handle[h].watch # "none" => (mc'[handle[h].mc] = mc[handle[h].mc] \/ mc'[handle[h].mc].handle # h)
      <4>1. mc'[m].handle = Nil
        BY <1>0, <1>0b
      <4>2. ASSUME NEW h \in Calls, handle[h].watch # "none", handle[h].mc # m
            PROVE  mc'[handle[h].mc] = mc[handle[h].mc]
        BY <1>0b, <1>3, <4>2
      <4> QED
        BY <4>1, <4>2, Numbers
    <3>2. \A d \in Calls : calls'[d].pc # "waitBoot"
      BY <1>0a, <2>0b DEF Kept
    <3> QED
      BY <1>1, <2>0, <3>1, <3>2 DEF World, Marked
  <2>8. Stopped'
    BY <1>1, <2>0, <1>0, <1>0a, <1>0b, <2>0a, <2>0b, <2>0c DEF World, Stopped, Up, Stopping, Kept
  <2>9. DisksKnown'
    BY <1>1, <2>0, <1>0, <1>0a, <1>0b, <2>0a, <2>0b, <2>0c DEF World, DisksKnown, Kept
  <2> QED
    BY <2>1, <2>2, <2>3, <2>4, <2>5, <2>6, <2>7, <2>8, <2>9 DEF World
<1> QED
  BY <1>1, <1>s, <1>w DEF IInv

\* The marks of machine m change, a stop's mark is not taken back.
MarksOnly(m) ==
    /\ mc' \in [Calls -> Mc]
    /\ \A o \in Calls : McKept(o) /\ (mc[o].halted => mc'[o].halted)
    /\ \A o \in Calls : o # m => mc'[o] = mc[o]

\* Which marks Boot and Halt change.
LEMMA MarksChange ==
  ASSUME TypeOK, NEW m \in Calls, NEW x \in BOOLEAN, mc[m].halted => x,
         mc' = [mc EXCEPT ![m].halted = x, ![m].cancelBoot = Nil] \/ mc' = [mc EXCEPT ![m].halted = x]
             \/ (x = mc[m].halted /\ mc' = [mc EXCEPT ![m].cancelBoot = Nil])
  PROVE  MarksOnly(m) /\ mc'[m].halted = x
<1> DEFINE a == mc[m]
<1>1. mc \in [Calls -> Mc] /\ a \in Mc
  BY Types
<1> DEFINE r == mc'[m]
<1>2. /\ mc' = [mc EXCEPT ![m] = r]
      /\ \/ r = [a EXCEPT !.halted = x, !.cancelBoot = Nil]
         \/ r = [a EXCEPT !.halted = x]
         \/ x = a.halted /\ r = [a EXCEPT !.cancelBoot = Nil]
  <2>1. CASE mc' = [mc EXCEPT ![m].halted = x, ![m].cancelBoot = Nil]
    BY <1>1, <2>1
  <2>2. CASE mc' = [mc EXCEPT ![m].halted = x]
    BY <1>1, <2>2
  <2>3. CASE x = mc[m].halted /\ mc' = [mc EXCEPT ![m].cancelBoot = Nil]
    BY <1>1, <2>3
  <2> QED
    BY <2>1, <2>2, <2>3
<1> HIDE DEF a, r
<1>3. r \in Mc /\ r.handle = a.handle /\ r.id = a.id /\ r.booting = a.booting /\ r.halted = x
  <2>1. CASE r = [a EXCEPT !.halted = x, !.cancelBoot = Nil]
    BY <1>1, <2>1, Numbers DEF Mc
  <2>2. CASE r = [a EXCEPT !.halted = x]
    BY <1>1, <2>2 DEF Mc
  <2>3. CASE x = a.halted /\ r = [a EXCEPT !.cancelBoot = Nil]
    BY <1>1, <2>3, Numbers DEF Mc
  <2> QED
    BY <1>2, <2>1, <2>2, <2>3
<1>4. mc' \in [Calls -> Mc] /\ mc'[m] = r /\ \A o \in Calls : o # m => mc'[o] = mc[o]
  BY <1>1, <1>2, <1>3
<1> QED
  BY <1>3, <1>4 DEF MarksOnly, McKept, a

\* What cancelling h changes: nothing unless it runs.
LEMMA CancelChanges ==
  ASSUME TypeOK, NEW h \in Calls, handle' = Cancelled(h)
  PROVE  /\ handle' \in [Calls -> Handle] /\ (handle[h].state # "up" => handle' = handle)
         /\ \A k \in Calls : /\ k # h => handle'[k] = handle[k]
                             /\ handle'[k].state = handle[k].state /\ handle'[k].disk = handle[k].disk
                             /\ handle'[k].mc = handle[k].mc /\ handle'[k].guest = handle[k].guest
                             /\ handle'[k].watch = handle[k].watch /\ handle'[k].reported = handle[k].reported
<1> DEFINE a == handle[h]
           r == [a EXCEPT !.cancelled = TRUE]
<1>1. handle \in [Calls -> Handle] /\ a \in Handle
  BY Types
<1>2. CASE handle[h].state # "up"
  BY <1>1, <1>2 DEF Cancelled
<1>3. CASE handle[h].state = "up"
  <2>1. handle' = [handle EXCEPT ![h] = r]
    BY <1>3 DEF Cancelled
  <2> HIDE DEF a
  <2>2. /\ r \in Handle /\ r.state = a.state /\ r.disk = a.disk /\ r.mc = a.mc /\ r.guest = a.guest
        /\ r.watch = a.watch /\ r.reported = a.reported
    BY <1>1 DEF Handle
  <2> HIDE DEF r
  <2>3. handle' \in [Calls -> Handle] /\ handle'[h] = r /\ \A k \in Calls : k # h => handle'[k] = handle[k]
    BY <1>1, <2>1, <2>2
  <2> QED
    BY <1>3, <2>2, <2>3 DEF a
<1> QED
  BY <1>2, <1>3

\* The machine of a call under way.
LEMMA CallMachine ==
  ASSUME Shape, NEW c \in Calls, calls[c].pc # "done"
  PROVE  calls[c].mc \in Calls /\ calls[c].mc <= made /\ made \in Nat /\ ~recovering
<1>1. made \in Nat /\ calls[c].mc \in Refs
  BY Types, Numbers DEF Shape, Call
<1> QED
  BY <1>1, Numbers DEF Shape, RefersOK, Unmade, Quiet

\* What calls and the manager refer to.
LEMMA Referred ==
  ASSUME Shape
  PROVE  /\ machines # Nil => machines \in Calls
         /\ \A c \in Calls : calls[c].pc # "done" => calls[c].mc \in Calls
         /\ \A c \in Calls : calls[c].pc \in {"halt", "waitBoot"} => calls[c].target \in Calls
         /\ \A c \in Calls : calls[c].pc = "waitWatch" => calls[c].handle \in Calls
         /\ \A h \in Calls : handle[h].watch # "none" => handle[h].mc \in Calls
<1>1. machines \in Refs /\ \A c \in Calls : calls[c].mc \in Refs /\ calls[c].target \in Refs /\ calls[c].handle \in Refs
  BY Types DEF Shape, Call
<1> QED
  BY <1>1, Numbers, WatchedMc DEF Shape, RefersOK

\* The Boot returns: its machine is ready.
LEMMA BootReadyStep ==
  ASSUME IInv, NEW c \in Calls, BootReady(c)
  PROVE  IInv'
<1> DEFINE m == calls[c].mc
<1>0. calls[c].pc = "ready" /\ m \in Calls /\ m <= made /\ made \in Nat
  BY CallMachine DEF BootReady, At, IInv
<1>1. /\ calls[c].pc = "ready" /\ calls[c].op = "Boot" /\ Returns(c, TRUE) /\ MarksOnly(m)
      /\ machines' = machines /\ handle' = handle /\ disks' = disks /\ made' = made /\ recovering' = recovering
      /\ restarts' = restarts /\ overtaken' = overtaken /\ strays' = strays
  <2>1. mc' = [mc EXCEPT ![m].cancelBoot = Nil] /\ mc[m].halted \in BOOLEAN
    BY <1>0, Types DEF BootReady, IInv, Shape, Mc
  <2> HIDE DEF m
  <2>2. MarksOnly(m)
    BY <1>0, <2>1, MarksChange DEF IInv, Shape
  <2> QED
    BY <2>2, ReturnReturns DEF BootReady, At, IInv, Shape
<1>2. /\ machines # Nil => machines \in Calls
      /\ \A d \in Calls : calls[d].pc # "done" => calls[d].mc \in Calls
      /\ \A d \in Calls : calls[d].pc = "waitBoot" => calls[d].target \in Calls
      /\ \A h \in Calls : handle[h].watch # "none" => handle[h].mc \in Calls
  BY Referred DEF IInv
<1> HIDE DEF m
<1>s. Shape'
  <2>1. TypeOK'
    BY <1>1, <1>0, Numbers DEF IInv, Shape, TypeOK, Call, Mc, Handle, Returns, Kept, MarksOnly, McKept
  <2>2. RefersOK'
    BY <1>1, <1>0, Numbers
       DEF IInv, Shape, RefersOK, BootPcs, StopPcs, Stopping, Returns, Kept, MarksOnly, McKept
  <2>3. WatchOK'
    BY <1>1, <1>0, Numbers DEF IInv, Shape, WatchOK
  <2>4. Unmade'
    <3>1. machines' = machines /\ made' = made /\ disks' = disks
      BY <1>1
    <3>2. \A e \in Calls : /\ calls'[e].pc # "done" => calls[e].pc # "done" /\ calls'[e].mc = calls[e].mc
                           /\ calls'[e].pc \in StopPcs => calls[e].pc \in StopPcs /\ calls'[e].target = calls[e].target
                           /\ calls[e].pc = "done" => calls'[e].pc = "done" /\ calls'[e].op = calls[e].op
      BY <1>1 DEF Returns, Kept, StopPcs
    <3>3. ASSUME NEW o \in Calls, o > made
          PROVE  handle'[o] = handle[o] /\ mc'[o] = mc[o]
      <4>1. o # m
        BY <1>0, <3>3, Numbers
      <4> QED
        BY <4>1, <1>1 DEF MarksOnly
    <3> QED
      BY <3>1, <3>2, <3>3 DEF IInv, Shape, Unmade
  <2>5. OneBoot'
    BY <1>1, <1>0, Numbers DEF IInv, Shape, OneBoot, BootPcs, StopPcs, Returns, Kept, MarksOnly, McKept
  <2>6. Quiet'
    BY <1>1, <1>0, Numbers DEF IInv, Shape, Quiet, Returns, Kept, MarksOnly, McKept
  <2>7. OvertakenOnce'
    BY <1>1, <1>0, Numbers DEF IInv, Shape, OvertakenOnce, Returns, Kept, MarksOnly, McKept
  <2> QED
    BY <2>1, <2>2, <2>3, <2>4, <2>5, <2>6, <2>7 DEF Shape
<1>w. ASSUME ~overtaken PROVE World'
  <2>0. World
    BY <1>1, <1>w DEF IInv
  <2>0a. \A b \in Calls : calls[b].pc \in BootPcs => b = c
    BY <1>1 DEF IInv, Shape, OneBoot, BootPcs, StopPcs
  <2>1. SameMachine'
    BY <1>1, <2>0, <1>2, <2>0a DEF World, SameMachine, StopPcs, Returns, Kept, MarksOnly, McKept
  <2>2. Begins'
    BY <1>1, <2>0, <1>2, <2>0a DEF World, Begins, Overtaken, Stopping, Returns, Kept, MarksOnly, McKept
  <2>3. Waited'
    BY <1>1, <2>0, <1>2, <2>0a DEF World, Waited, Boots, BootPcs, Stopping, Returns, Kept, MarksOnly, McKept
  <2>4. Placing'
    BY <1>1, <2>0, <1>2, <2>0a DEF World, Placing, BootPcs, Returns, Kept, MarksOnly, McKept
  <2>5. Running'
    BY <1>1, <2>0, <1>2, <2>0a DEF World, Running, Up, Returns, Kept, MarksOnly, McKept
  <2>6. Tracked'
    BY <1>1, <2>0, <1>2, <2>0a DEF World, Tracked, MarksOnly, McKept
  <2>7. Marked'
    BY <1>1, <2>0, <1>2, <2>0a DEF World, Marked, Returns, Kept, MarksOnly, McKept
  <2>8. Stopped'
    BY <1>1, <2>0, <1>2, <2>0a DEF World, Stopped, Up, Stopping, Returns, Kept, MarksOnly, McKept
  <2>9. DisksKnown'
    <3>1. \A o \in Calls : mc'[o].id = mc[o].id
      BY <1>1 DEF MarksOnly, McKept
    <3>2. \A d \in Calls : /\ calls'[d].pc = "forget" => Kept(d)
                           /\ calls[d].pc \in {"placed", "tracked", "remove"} => Kept(d)
      BY <1>1 DEF Returns, Kept
    <3>3. machines' = machines /\ disks' = disks /\ recovering' = recovering /\ handle' = handle
      BY <1>1
    <3>4. DisksKnown
      BY <2>0 DEF World
    <3> QED
      BY <1>2, <3>1, <3>2, <3>3, <3>4 DEF DisksKnown, Kept
  <2> QED
    BY <2>1, <2>2, <2>3, <2>4, <2>5, <2>6, <2>7, <2>8, <2>9 DEF World
<1> QED
  BY <1>1, <1>s, <1>w DEF IInv

\* Handle h is cancelled if it runs, nothing else of the handles changes.
Cancels(h) ==
    /\ handle' \in [Calls -> Handle] /\ (handle[h].state # "up" => handle' = handle)
    /\ \A k \in Calls : /\ k # h => handle'[k] = handle[k]
                        /\ handle'[k].state = handle[k].state /\ handle'[k].disk = handle[k].disk
                        /\ handle'[k].mc = handle[k].mc /\ handle'[k].guest = handle[k].guest
                        /\ handle'[k].watch = handle[k].watch /\ handle'[k].reported = handle[k].reported

\* Nothing is cancelled.
LEMMA NoneCancelled ==
  ASSUME TypeOK, NEW h \in Calls, handle' = handle
  PROVE  Cancels(h)
  BY Types DEF Cancels

\* Cancelling what runs on a machine marked as stopped keeps the marks right.
LEMMA MarkedKept ==
  ASSUME Shape, World, NEW h \in Calls, Cancels(h), strays' = strays,
         \A o \in Calls : mc'[o].handle = mc[o].handle /\ (mc[o].halted => mc'[o].halted),
         (h \notin strays /\ handle'[h] # handle[h]) => handle[h].watch # "none" /\ mc'[handle[h].mc].halted,
         \A c \in Calls : calls'[c].pc = "waitBoot" =>
             calls[c].pc = "waitBoot" /\ calls'[c].target = calls[c].target
  PROVE  Marked'
<1>1. /\ \A c \in Calls : calls[c].pc = "waitBoot" => calls[c].target \in Calls
      /\ \A k \in Calls : handle[k].watch # "none" => handle[k].mc \in Calls
  BY Referred
<1>2. \A k \in Calls : /\ handle'[k].mc = handle[k].mc /\ handle'[k].watch = handle[k].watch
                       /\ handle'[k].reported = handle[k].reported /\ handle'[k].guest = handle[k].guest
                       /\ k # h => handle'[k] = handle[k]
  BY DEF Cancels
<1>3. Marked
  BY DEF World
<1>4. ASSUME NEW k \in Calls, k \notin strays',
             handle'[k].cancelled \/ (handle'[k].state = "exited" /\ ~handle'[k].guest /\ handle'[k].watch # "closed")
      PROVE  /\ handle'[k].watch # "none"
             /\ mc'[handle'[k].mc].handle = k => mc'[handle'[k].mc].halted
  <2>1. CASE handle'[k] = handle[k]
    <3>1. /\ handle[k].watch # "none" /\ handle[k].mc \in Calls
          /\ mc[handle[k].mc].handle = k => mc[handle[k].mc].halted
      BY <1>1, <1>3, <1>4, <2>1 DEF Marked
    <3> QED
      BY <2>1, <3>1
  <2>2. CASE handle'[k] # handle[k]
    BY <1>2, <1>4, <2>2
  <2> QED
    BY <2>1, <2>2
<1>5. \A k \in Calls : handle'[k].reported => handle'[k].guest
  BY <1>2, <1>3 DEF Marked
<1>6. \A c \in Calls : calls'[c].pc = "waitBoot" => mc'[calls'[c].target].halted
  BY <1>1, <1>3 DEF Marked
<1> QED
  BY <1>4, <1>5, <1>6 DEF Marked

\* A call under way has a number given out.
LEMMA CallMade ==
  ASSUME Shape, NEW c \in Calls, calls[c].pc # "done"
  PROVE  c <= made /\ c \in Nat /\ made \in Nat
<1>1. made \in Nat /\ c \in Nat
  BY Types, Numbers DEF Shape
<1> QED
  BY <1>1 DEF Shape, Unmade

\* The machine never became ready: a Halt stops it, or Boot does.
LEMMA BootFailedStep ==
  ASSUME IInv, NEW c \in Calls, BootFailed(c)
  PROVE  IInv'
<1> DEFINE m == calls[c].mc
<1>0. calls[c].pc = "failed" /\ m \in Calls /\ m <= made /\ made \in Nat /\ c <= made
  BY CallMachine, CallMade DEF BootFailed, At, IInv
<1>1. /\ calls[c].pc = "failed" /\ calls[c].op = "Boot" /\ (Returns(c, FALSE) \/ Moves(c, "stopping"))
      /\ MarksOnly(m) /\ mc'[m].halted = TRUE /\ Cancels(c)
      /\ machines' = machines /\ disks' = disks /\ made' = made /\ recovering' = recovering /\ restarts' = restarts
      /\ overtaken' = overtaken /\ strays' = strays
  <2>0. TypeOK
    BY DEF IInv, Shape
  <2>1. mc' = [mc EXCEPT ![m].halted = TRUE]
    BY DEF BootFailed
  <2>2. \/ calls' = Return(c, FALSE) /\ handle' = handle
        \/ calls' = Goto(c, "stopping") /\ handle' = Cancelled(c)
    BY DEF BootFailed
  <2> HIDE DEF m
  <2>3. MarksOnly(m) /\ mc'[m].halted = TRUE
    BY <1>0, <2>0, <2>1, MarksChange
  <2>4. Cancels(c)
    BY <2>0, <2>2, NoneCancelled, CancelChanges DEF Cancels
  <2>5. Returns(c, FALSE) \/ Moves(c, "stopping")
    BY <2>0, <2>2, ReturnReturns, GotoMoves
  <2> QED
    BY <2>3, <2>4, <2>5 DEF BootFailed, At
<1>2. /\ machines # Nil => machines \in Calls
      /\ \A d \in Calls : calls[d].pc # "done" => calls[d].mc \in Calls
      /\ \A d \in Calls : calls[d].pc = "waitBoot" => calls[d].target \in Calls
      /\ \A h \in Calls : handle[h].watch # "none" => handle[h].mc \in Calls
  BY Referred DEF IInv
<1>3. m = calls[c].mc
  OBVIOUS
<1> HIDE DEF m
<1>s. Shape'
  <2>1. TypeOK'
    BY <1>1, <1>0, Numbers
       DEF IInv, Shape, TypeOK, Call, Mc, Handle, Moves, Returns, Kept, Cancels, MarksOnly, McKept
  <2>2. RefersOK'
    BY <1>1, <1>0, Numbers
       DEF IInv, Shape, RefersOK, BootPcs, StopPcs, Stopping, Moves, Returns, Kept, Cancels, MarksOnly, McKept
  <2>3. WatchOK'
    BY <1>1, <1>0, Numbers DEF IInv, Shape, WatchOK, Cancels
  <2>4. Unmade'
    <3>1. machines' = machines /\ made' = made /\ disks' = disks
      BY <1>1
    <3>2. \A e \in Calls : /\ calls'[e].pc # "done" => calls[e].pc # "done" /\ calls'[e].mc = calls[e].mc
                           /\ calls'[e].pc \in StopPcs => calls[e].pc \in StopPcs /\ calls'[e].target = calls[e].target
                           /\ calls[e].pc = "done" => calls'[e].pc = "done" /\ calls'[e].op = calls[e].op
      BY <1>1 DEF Moves, Returns, Kept, StopPcs
    <3>3. ASSUME NEW o \in Calls, o > made
          PROVE  handle'[o] = handle[o] /\ mc'[o] = mc[o]
      <4>1. o # c /\ o # m
        BY <1>0, <3>3, Numbers
      <4> QED
        BY <4>1, <1>1 DEF Cancels, MarksOnly
    <3> QED
      BY <3>1, <3>2, <3>3 DEF IInv, Shape, Unmade
  <2>5. OneBoot'
    BY <1>1, <1>0, Numbers
       DEF IInv, Shape, OneBoot, BootPcs, StopPcs, Moves, Returns, Kept, Cancels, MarksOnly, McKept
  <2>6. Quiet'
    BY <1>1, <1>0, Numbers DEF IInv, Shape, Quiet, Moves, Returns, Kept, Cancels, MarksOnly, McKept
  <2>7. OvertakenOnce'
    BY <1>1, <1>0, Numbers DEF IInv, Shape, OvertakenOnce, Moves, Returns, Kept, Cancels, MarksOnly, McKept
  <2> QED
    BY <2>1, <2>2, <2>3, <2>4, <2>5, <2>6, <2>7 DEF Shape
<1>w. ASSUME ~overtaken PROVE World'
  <2>0. World
    BY <1>1, <1>w DEF IInv
  <2>0a. \A b \in Calls : calls[b].pc \in BootPcs => b = c
    BY <1>1 DEF IInv, Shape, OneBoot, BootPcs, StopPcs
  <2>0b. m = machines /\ machines \in Calls /\ ~recovering
    BY <1>0, <1>1, <1>3, <2>0 DEF World, Waited, Boots, BootPcs, IInv, Shape, Quiet
  <2>0c. Up(c) => mc[machines].handle = c
    BY <1>1, <2>0, <2>0b DEF World, Running
  <2>0d. Up(c) => handle[c].mc = machines /\ handle[c].watch = "armed"
    BY <2>0, <2>0b, <2>0c, Numbers DEF World, Tracked
  <2>0e. \A o \in Calls : mc[o].handle # Nil => mc[o].handle \in Calls
    BY Types, Numbers DEF IInv, Shape, Mc
  <2>0f. \A o \in Calls : mc'[o].handle = mc[o].handle /\ mc'[o].id = mc[o].id
    BY <1>1 DEF MarksOnly, McKept
  <2>0g. \A k \in Calls : /\ handle'[k].state = handle[k].state /\ handle'[k].disk = handle[k].disk
                          /\ handle'[k].mc = handle[k].mc /\ handle'[k].watch = handle[k].watch
    BY <1>1 DEF Cancels
  <2>0h. \A d \in Calls : /\ calls'[d].pc \in {"begin", "placed", "tracked", "remove", "forget"} => Kept(d)
                          /\ calls[d].pc \in {"begin", "placed", "tracked", "remove", "forget"} => Kept(d)
    BY <1>1 DEF Moves, Returns, Kept
  <2>0i. machines' = machines /\ disks' = disks /\ recovering' = recovering
    BY <1>1
  <2>1. SameMachine'
    BY <1>1, <2>0, <1>0, <1>2, <1>3, <2>0a, <2>0b, <2>0d, <2>0e, Numbers
       DEF World, SameMachine, StopPcs, Moves, Returns, Kept, Cancels, MarksOnly, McKept
  <2>2. Begins'
    BY <1>1, <2>0, <1>0, <1>2, <1>3, <2>0a, <2>0b, <2>0d, <2>0e, Numbers
       DEF World, Begins, Overtaken, Stopping, Moves, Returns, Kept, Cancels, MarksOnly, McKept, BootPcs
  <2>3. Waited'
    BY <1>1, <2>0, <1>0, <1>2, <1>3, <2>0a, <2>0b, <2>0d, <2>0e, Numbers
       DEF World, Waited, Boots, BootPcs, Stopping, Moves, Returns, Kept, Cancels, MarksOnly, McKept
  <2>4. Placing'
    <3>1. \A b \in Calls : calls'[b].pc \notin {"placing", "placed", "tracked"}
      BY <1>1, <2>0a DEF BootPcs, Moves, Returns, Kept
    <3> QED
      BY <3>1 DEF Placing
  <2>5. Running'
    <3>1. \A h \in Calls : Up(h)' <=> Up(h)
      BY <1>1, <2>0g DEF Up
    <3> QED
      BY <2>0, <2>0b, <2>0f, <2>0g, <2>0h, <2>0i, <3>1 DEF World, Running, Kept
  <2>6. Tracked'
    BY <2>0, <2>0e, <2>0f, <2>0g DEF World, Tracked
  <2>7. Marked'
    <3>1. \A o \in Calls : mc'[o].handle = mc[o].handle /\ (mc[o].halted => mc'[o].halted)
      BY <1>1 DEF MarksOnly, McKept
    <3>2. (c \notin strays /\ handle'[c] # handle[c]) => handle[c].watch # "none" /\ mc'[handle[c].mc].halted
      BY <1>1, <2>0b, <2>0d DEF Cancels, Up
    <3>3. \A d \in Calls : calls'[d].pc = "waitBoot" =>
            calls[d].pc = "waitBoot" /\ calls'[d].target = calls[d].target
      BY <1>1 DEF Moves, Returns, Kept
    <3>4. Shape /\ Cancels(c) /\ strays' = strays
      BY <1>1 DEF IInv
    <3> QED
      BY <2>0, <3>1, <3>2, <3>3, <3>4, MarkedKept
  <2>8. Stopped'
    <3>1. \A h \in Calls : Up(h)' => Up(h)
      BY <1>1, <2>0g DEF Up
    <3>2. \A d \in Calls : d # c => Kept(d)
      BY <1>1 DEF Moves, Returns
    <3>3. calls'[c].pc \in {"done", "stopping"} /\ ~Stopping(c)'
      BY <1>1 DEF Moves, Returns, Stopping
    <3>4. Stopped
      BY <2>0 DEF World
    <3> QED
      BY <3>1, <3>2, <3>3, <3>4 DEF Stopped, Stopping, Kept
  <2>9. DisksKnown'
    BY <1>2, <2>0, <2>0b, <2>0f, <2>0g, <2>0h, <2>0i DEF World, DisksKnown, Kept
  <2> QED
    BY <2>1, <2>2, <2>3, <2>4, <2>5, <2>6, <2>7, <2>8, <2>9 DEF World
<1> QED
  BY <1>1, <1>s, <1>w DEF IInv

\* Halt marks the machine.
LEMMA HaltMarkStep ==
  ASSUME IInv, NEW c \in Calls, HaltMark(c)
  PROVE  IInv'
<1> DEFINE m == calls[c].target
<1>0. /\ calls[c].pc = "halt" /\ Stopping(c) /\ TypeOK /\ m \in Calls /\ m <= made /\ made \in Nat /\ c <= made
      /\ mc[m].cancelBoot \in Refs /\ mc[m].booting \in Refs /\ calls \in [Calls -> Call]
  <2>1. calls[c].pc = "halt"
    BY DEF HaltMark
  <2> QED
    BY <2>1, CallMade, Referred, Types DEF IInv, Shape, RefersOK, Unmade, StopPcs, Mc
<1>0a. /\ calls' \in [Calls -> Call] /\ calls'[c].pc = "waitBoot" /\ calls'[c].boot = mc[m].booting
       /\ calls'[c].op = calls[c].op /\ calls'[c].mc = calls[c].mc /\ calls'[c].target = m
       /\ \A d \in Calls : d # c => Kept(d)
  <2> DEFINE a == calls[c]
             b == mc[m].booting
             r == [a EXCEPT !.pc = "waitBoot", !.boot = b]
             k == [calls EXCEPT ![c] = r]
             o == mc[m].cancelBoot
  <2>1. calls' = IF o = Nil THEN k ELSE [k EXCEPT ![o].ctx = TRUE]
    BY <1>0 DEF HaltMark
  <2>2. a \in Call /\ b \in Refs /\ m = a.target
    BY <1>0
  <2> HIDE DEF a, b, m
  <2>3. /\ r \in Call /\ r.pc = "waitBoot" /\ r.boot = b /\ r.op = a.op /\ r.mc = a.mc /\ r.target = a.target
    BY <2>2 DEF Call
  <2> HIDE DEF r
  <2>4. k \in [Calls -> Call] /\ k[c] = r /\ \A d \in Calls : d # c => k[d] = calls[d]
    BY <1>0, <2>3
  <2>5. /\ calls' \in [Calls -> Call]
        /\ \A d \in Calls : /\ calls'[d].pc = k[d].pc /\ calls'[d].op = k[d].op /\ calls'[d].mc = k[d].mc
                            /\ calls'[d].target = k[d].target /\ calls'[d].fresh = k[d].fresh
                            /\ calls'[d].boot = k[d].boot /\ calls'[d].handle = k[d].handle
                            /\ calls'[d].id = k[d].id /\ calls'[d].ok = k[d].ok
    <3>1. CASE o = Nil
      BY <2>1, <2>4, <3>1
    <3>2. CASE o # Nil
      <4> DEFINE e == k[o]
                 f == [e EXCEPT !.ctx = TRUE]
      <4>1. o \in Calls /\ e \in Call
        BY <1>0, <2>4, <3>2, Numbers
      <4> HIDE DEF k, o
      <4>2. calls' = [k EXCEPT ![o] = f]
        BY <2>1, <3>2
      <4> HIDE DEF e
      <4>3. /\ f \in Call /\ f.pc = e.pc /\ f.op = e.op /\ f.mc = e.mc /\ f.target = e.target /\ f.fresh = e.fresh
            /\ f.boot = e.boot /\ f.handle = e.handle /\ f.id = e.id /\ f.ok = e.ok
        BY <4>1 DEF Call
      <4> HIDE DEF f
      <4>4. calls' \in [Calls -> Call] /\ calls'[o] = f /\ \A d \in Calls : d # o => calls'[d] = k[d]
        BY <2>4, <4>1, <4>2, <4>3
      <4> QED
        BY <4>3, <4>4 DEF e
    <3> QED
      BY <3>1, <3>2
  <2> HIDE DEF k
  <2> QED
    BY <2>2, <2>3, <2>4, <2>5 DEF Kept, a, b
<1>1. /\ calls[c].pc = "halt" /\ Stopping(c) /\ MarksOnly(m) /\ mc'[m].halted = TRUE
      /\ machines' = machines /\ handle' = handle /\ disks' = disks /\ made' = made /\ recovering' = recovering
      /\ restarts' = restarts /\ overtaken' = overtaken /\ strays' = strays
  <2>1. mc' = [mc EXCEPT ![m].halted = TRUE, ![m].cancelBoot = Nil]
    BY DEF HaltMark
  <2> HIDE DEF m
  <2>2. MarksOnly(m) /\ mc'[m].halted = TRUE
    BY <1>0, <2>1, MarksChange
  <2> QED
    BY <1>0, <2>2 DEF HaltMark
<1>2. /\ machines # Nil => machines \in Calls
      /\ \A d \in Calls : calls[d].pc # "done" => calls[d].mc \in Calls
      /\ \A d \in Calls : calls[d].pc = "waitBoot" => calls[d].target \in Calls
      /\ \A h \in Calls : handle[h].watch # "none" => handle[h].mc \in Calls
  BY Referred DEF IInv
<1>3. m = calls[c].target
  OBVIOUS
<1> HIDE DEF m
<1>s. Shape'
  <2>1. TypeOK'
    BY <1>1, <1>0, <1>0a, Numbers DEF IInv, Shape, TypeOK, Call, Mc, Handle, Kept, MarksOnly, McKept
  <2>2. RefersOK'
    BY <1>1, <1>0, <1>0a, Numbers
       DEF IInv, Shape, RefersOK, BootPcs, StopPcs, Stopping, Kept, MarksOnly, McKept
  <2>3. WatchOK'
    BY <1>1, <1>0, <1>0a, Numbers DEF IInv, Shape, WatchOK
  <2>4. Unmade'
    <3>1. machines' = machines /\ made' = made /\ handle' = handle /\ disks' = disks
      BY <1>1
    <3>2. \A d \in Calls : /\ calls'[d].pc # "done" => calls[d].pc # "done" /\ calls'[d].mc = calls[d].mc
                           /\ calls'[d].pc \in StopPcs => calls[d].pc \in StopPcs /\ calls'[d].target = calls[d].target
      BY <1>0, <1>0a, <1>3 DEF Kept, StopPcs
    <3>3. ASSUME NEW o \in Calls, o > made
          PROVE  mc'[o] = mc[o] /\ calls'[o].pc = calls[o].pc /\ calls'[o].op = calls[o].op
      <4>1. o # m /\ o # c
        BY <1>0, <3>3, Numbers
      <4> QED
        BY <4>1, <1>0a, <1>1 DEF Kept, MarksOnly
    <3> QED
      BY <3>1, <3>2, <3>3 DEF IInv, Shape, Unmade
  <2>5. OneBoot'
    BY <1>1, <1>0, <1>0a, Numbers DEF IInv, Shape, OneBoot, BootPcs, StopPcs, Kept, MarksOnly, McKept
  <2>6. Quiet'
    BY <1>1, <1>0, <1>0a, Numbers DEF IInv, Shape, Quiet, Kept, MarksOnly, McKept
  <2>7. OvertakenOnce'
    BY <1>1, <1>0, <1>0a, Numbers DEF IInv, Shape, OvertakenOnce, Kept, MarksOnly, McKept
  <2> QED
    BY <2>1, <2>2, <2>3, <2>4, <2>5, <2>6, <2>7 DEF Shape
<1>w. ASSUME ~overtaken PROVE World'
  <2>0. World
    BY <1>1, <1>w DEF IInv
  <2>0a. \A b \in Calls : Boots(b) => c > b /\ m = machines /\ calls[b].mc = machines /\ machines \in Calls
    BY <1>0, <1>1, <1>2, <1>3, <2>0
       DEF World, Waited, SameMachine, Boots, BootPcs, StopPcs, IInv, Shape, OneBoot, RefersOK
  <2>1. SameMachine'
    BY <1>1, <2>0, <1>0, <1>0a, <1>2, <1>3, <2>0a DEF World, SameMachine, StopPcs, Kept, MarksOnly, McKept
  <2>2. Begins'
    BY <1>1, <2>0, <1>0, <1>0a, <1>2, <1>3, <2>0a
       DEF World, Begins, Overtaken, Stopping, Kept, MarksOnly, McKept
  <2>3. Waited'
    BY <1>1, <2>0, <1>0, <1>0a, <1>2, <1>3, <2>0a
       DEF World, Waited, Boots, BootPcs, Stopping, Kept, MarksOnly, McKept
  <2>4. Placing'
    BY <1>1, <2>0, <1>0, <1>0a, <1>2, <1>3, <2>0a DEF World, Placing, BootPcs, Kept, MarksOnly, McKept, Boots
  <2>5. Running'
    BY <1>1, <2>0, <1>0, <1>0a, <1>2, <1>3, <2>0a DEF World, Running, Up, Kept, MarksOnly, McKept
  <2>6. Tracked'
    BY <1>1, <2>0, <1>0, <1>0a, <1>2, <1>3, <2>0a DEF World, Tracked, MarksOnly, McKept
  <2>7. Marked'
    BY <1>1, <2>0, <1>0, <1>0a, <1>2, <1>3, <2>0a DEF World, Marked, Kept, MarksOnly, McKept
  <2>8. Stopped'
    BY <1>1, <2>0, <1>0, <1>0a, <1>2, <1>3, <2>0a DEF World, Stopped, Up, Stopping, Kept, MarksOnly, McKept
  <2>9. DisksKnown'
    BY <1>1, <2>0, <1>0, <1>0a, <1>2, <1>3, <2>0a DEF World, DisksKnown, Kept, MarksOnly, McKept
  <2> QED
    BY <2>1, <2>2, <2>3, <2>4, <2>5, <2>6, <2>7, <2>8, <2>9 DEF World
<1> QED
  BY <1>1, <1>s, <1>w DEF IInv

\* A stop that waited for the Boot has none to wait for, and knows what runs.
LEMMA BootGone ==
  ASSUME Shape, World, NEW c \in Calls, calls[c].pc = "waitBoot",
         calls[c].boot # Nil => calls[calls[c].boot].pc = "done"
  PROVE  \A k \in Calls : ~Boots(k) /\ (Up(k) => machines # Nil /\ calls[c].target = machines /\ mc[machines].handle = k)
<1>1. ~recovering /\ Stopping(c)
  BY DEF Shape, Quiet, RefersOK, StopPcs
<1>2. \A b \in Calls : Boots(b) => c > b
  BY DEF Shape, OneBoot, Boots, BootPcs, StopPcs
<1>3. \A b \in Calls : ~Boots(b)
  <2> SUFFICES ASSUME NEW b \in Calls, Boots(b) PROVE FALSE
    OBVIOUS
  <2>1. calls[c].boot = b
    BY <1>1, <1>2 DEF World, Waited
  <2>2. b # Nil
    BY Numbers
  <2> QED
    BY <2>1, <2>2 DEF Boots, BootPcs
<1>4. \A k \in Calls : calls[k].pc # "placed"
  BY <1>3 DEF Boots, BootPcs
<1>5. machines # Nil => calls[c].target = machines
  BY DEF World, SameMachine, StopPcs
<1> QED
  BY <1>1, <1>3, <1>4, <1>5 DEF World, Running

\* Halt finds that nothing runs.
LEMMA HaltFreeStep ==
  ASSUME IInv, NEW c \in Calls, HaltCancel(c), mc[calls[c].target].handle = Nil
  PROVE  IInv'
<1>1. /\ calls[c].pc = "waitBoot" /\ Stopping(c)
      /\ Returns(c, TRUE) \/ Moves(c, "readId") \/ Moves(c, "release")
      /\ machines' = machines /\ mc' = mc /\ handle' = handle /\ disks' = disks /\ made' = made
      /\ recovering' = recovering /\ restarts' = restarts /\ overtaken' = overtaken /\ strays' = strays
  <2>1. calls[c].pc = "waitBoot" /\ calls' = Halted(c)
    BY DEF HaltCancel
  <2>2. Stopping(c) /\ TypeOK
    BY <2>1 DEF IInv, Shape, RefersOK, StopPcs
  <2>3. Returns(c, TRUE) \/ Moves(c, "readId") \/ Moves(c, "release")
    BY <2>1, <2>2, HaltedGoes
  <2> QED
    BY <2>1, <2>2, <2>3 DEF HaltCancel
<1>s. Shape'
  <2>1. TypeOK'
    BY <1>1 DEF IInv, Shape, TypeOK, Call, Mc, Handle, Moves, Returns, Kept
  <2>2. RefersOK'
    BY <1>1 DEF IInv, Shape, RefersOK, BootPcs, StopPcs, Stopping, Moves, Returns, Kept
  <2>3. WatchOK'
    BY <1>1 DEF IInv, Shape, WatchOK
  <2>4. Unmade'
    BY <1>1 DEF IInv, Shape, Unmade, StopPcs, Moves, Returns, Kept
  <2>5. OneBoot'
    BY <1>1 DEF IInv, Shape, OneBoot, BootPcs, StopPcs, Moves, Returns, Kept
  <2>6. Quiet'
    BY <1>1 DEF IInv, Shape, Quiet, Moves, Returns, Kept
  <2>7. OvertakenOnce'
    BY <1>1 DEF IInv, Shape, OvertakenOnce, Moves, Returns, Kept
  <2> QED
    BY <2>1, <2>2, <2>3, <2>4, <2>5, <2>6, <2>7 DEF Shape
<1>w. ASSUME ~overtaken PROVE World'
  <2>0. World
    BY <1>1, <1>w DEF IInv
  <2>0a. \A h \in Calls : ~Up(h) /\ ~Boots(h)
    <3>1. \A k \in Calls : ~Boots(k) /\ (Up(k) => mc[calls[c].target].handle = k)
      BY <1>1, <2>0, BootGone DEF HaltCancel, IInv
    <3> QED
      BY <3>1, Numbers
  <2>1. SameMachine'
    BY <1>1, <2>0, <2>0a DEF World, SameMachine, StopPcs, Moves, Returns, Kept
  <2>2. Begins'
    BY <1>1, <2>0, <2>0a DEF World, Begins, Overtaken, Stopping, Moves, Returns, Kept
  <2>3. Waited'
    BY <1>1, <2>0, <2>0a DEF World, Waited, Boots, BootPcs, Stopping, Moves, Returns, Kept
  <2>4. Placing'
    BY <1>1, <2>0, <2>0a DEF World, Placing, BootPcs, Moves, Returns, Kept
  <2>5. Running'
    BY <1>1, <2>0, <2>0a DEF World, Running, Up, Moves, Returns, Kept
  <2>6. Tracked'
    BY <1>1, <2>0, <2>0a DEF World, Tracked
  <2>7. Marked'
    BY <1>1, <2>0, <2>0a DEF World, Marked, Moves, Returns, Kept
  <2>8. Stopped'
    BY <1>1, <2>0, <2>0a DEF World, Stopped, Up, Stopping, Moves, Returns, Kept
  <2>9. DisksKnown'
    BY <1>1, <2>0, <2>0a DEF World, DisksKnown, Moves, Returns, Kept
  <2> QED
    BY <2>1, <2>2, <2>3, <2>4, <2>5, <2>6, <2>7, <2>8, <2>9 DEF World
<1> QED
  BY <1>1, <1>s, <1>w DEF IInv

\* Halt cancels what runs.
LEMMA HaltCancelStep ==
  ASSUME IInv, NEW c \in Calls, HaltCancel(c), mc[calls[c].target].handle # Nil
  PROVE  IInv'
<1> DEFINE m == calls[c].target
           h == mc[m].handle
<1>0. /\ calls[c].pc = "waitBoot" /\ Stopping(c) /\ TypeOK /\ m \in Calls /\ h \in Calls
      /\ calls \in [Calls -> Call]
  <2>1. calls[c].pc = "waitBoot"
    BY DEF HaltCancel
  <2>2. m \in Calls /\ TypeOK /\ Stopping(c)
    BY <2>1, Referred DEF IInv, Shape, RefersOK, StopPcs
  <2>3. h \in Calls /\ calls \in [Calls -> Call]
    BY <2>2, Types, Numbers DEF Mc
  <2> QED
    BY <2>1, <2>2, <2>3
<1>0a. /\ calls' \in [Calls -> Call] /\ calls'[c].pc = "waitWatch" /\ calls'[c].handle = h
       /\ calls'[c].op = calls[c].op /\ calls'[c].mc = calls[c].mc /\ calls'[c].target = m
       /\ \A d \in Calls : d # c => Kept(d)
  <2> DEFINE a == calls[c]
             r == [a EXCEPT !.pc = "waitWatch", !.handle = h]
  <2>1. calls' = [calls EXCEPT ![c] = r]
    BY <1>0 DEF HaltCancel
  <2>2. a \in Call /\ h \in Refs /\ m = a.target
    BY <1>0, Numbers
  <2> HIDE DEF a, h, m
  <2>3. /\ r \in Call /\ r.pc = "waitWatch" /\ r.handle = h /\ r.op = a.op /\ r.mc = a.mc /\ r.target = a.target
    BY <2>2 DEF Call
  <2> HIDE DEF r
  <2>4. calls' \in [Calls -> Call] /\ calls'[c] = r /\ \A d \in Calls : d # c => calls'[d] = calls[d]
    BY <1>0, <2>1, <2>3
  <2> QED
    BY <2>2, <2>3, <2>4 DEF Kept, a
<1>1. /\ calls[c].pc = "waitBoot" /\ Stopping(c) /\ Cancels(h)
      /\ machines' = machines /\ mc' = mc /\ disks' = disks /\ made' = made /\ recovering' = recovering
      /\ restarts' = restarts /\ overtaken' = overtaken /\ strays' = strays
  <2>1. handle' = Cancelled(h)
    BY DEF HaltCancel
  <2> HIDE DEF h, m
  <2>2. Cancels(h)
    BY <1>0, <2>1, CancelChanges DEF Cancels
  <2> QED
    BY <1>0, <2>2 DEF HaltCancel
<1>2. /\ machines # Nil => machines \in Calls
      /\ \A d \in Calls : calls[d].pc # "done" => calls[d].mc \in Calls
      /\ \A d \in Calls : calls[d].pc = "waitBoot" => calls[d].target \in Calls
      /\ \A k \in Calls : handle[k].watch # "none" => handle[k].mc \in Calls
  BY Referred DEF IInv
<1>3. m = calls[c].target /\ h = mc[m].handle
  OBVIOUS
<1>4. calls[c].boot # Nil => calls[calls[c].boot].pc = "done"
  BY DEF HaltCancel
<1> HIDE DEF h, m
<1>5. \A k \in Calls : /\ handle'[k].state = handle[k].state /\ handle'[k].disk = handle[k].disk
                       /\ handle'[k].mc = handle[k].mc /\ handle'[k].guest = handle[k].guest
                       /\ handle'[k].watch = handle[k].watch /\ handle'[k].reported = handle[k].reported
  BY <1>1 DEF Cancels
<1>s. Shape'
  <2>1. TypeOK'
    BY <1>1, <1>0, <1>0a, <1>5, Numbers DEF IInv, Shape, TypeOK, Call, Mc, Handle, Kept, Cancels
  <2>2. RefersOK'
    BY <1>1, <1>0, <1>0a, <1>5, Numbers DEF IInv, Shape, RefersOK, BootPcs, StopPcs, Stopping, Kept
  <2>3. WatchOK'
    BY <1>1, <1>0, <1>0a, <1>5, Numbers DEF IInv, Shape, WatchOK
  <2>4. Unmade'
    <3>1. machines' = machines /\ made' = made /\ mc' = mc /\ disks' = disks
      BY <1>1
    <3>2. \A d \in Calls : /\ calls'[d].pc # "done" => calls[d].pc # "done" /\ calls'[d].mc = calls[d].mc
                           /\ calls'[d].pc \in StopPcs => calls[d].pc \in StopPcs /\ calls'[d].target = calls[d].target
                           /\ calls[d].pc = "done" => calls'[d].pc = "done" /\ calls'[d].op = calls[d].op
      BY <1>0, <1>0a, <1>3 DEF Kept, StopPcs
    <3>3. ASSUME NEW o \in Calls, o > made
          PROVE  handle'[o] = handle[o]
      <4>1. handle[o] = NoHandle
        BY <3>3 DEF IInv, Shape, Unmade
      <4>2. handle[o].state # "up"
        BY <4>1 DEF NoHandle
      <4> QED
        BY <4>2, <1>1 DEF Cancels
    <3> QED
      BY <3>1, <3>2, <3>3 DEF IInv, Shape, Unmade
  <2>5. OneBoot'
    BY <1>1, <1>0, <1>0a, <1>5, Numbers DEF IInv, Shape, OneBoot, BootPcs, StopPcs, Kept
  <2>6. Quiet'
    BY <1>1, <1>0, <1>0a, <1>5, Numbers DEF IInv, Shape, Quiet, Kept
  <2>7. OvertakenOnce'
    BY <1>1, <1>0, <1>0a, <1>5, Numbers DEF IInv, Shape, OvertakenOnce, Kept
  <2> QED
    BY <2>1, <2>2, <2>3, <2>4, <2>5, <2>6, <2>7 DEF Shape
<1>w. ASSUME ~overtaken PROVE World'
  <2>0. World
    BY <1>1, <1>w DEF IInv
  <2>0a. \A k \in Calls : ~Boots(k) /\ (Up(k) => k = h /\ machines = m)
    BY <1>1, <1>3, <1>4, <2>0, BootGone DEF IInv
  <2>0b. handle[h].mc = m /\ handle[h].watch = "armed" /\ mc[m].halted
    BY <1>0, <1>3, <2>0, Numbers DEF World, Tracked, Marked
  <2>0c. \A o \in Calls : mc[o].handle # Nil => mc[o].handle \in Calls
    BY <1>0, Types, Numbers DEF Mc
  <2>1. SameMachine'
    BY <1>1, <2>0, <1>0, <1>0a, <1>2, <1>3, <1>5, <2>0a DEF World, SameMachine, StopPcs, Kept
  <2>2. Begins'
    BY <1>1, <2>0, <1>0, <1>0a, <1>2, <1>3, <1>5, <2>0a DEF World, Begins, Overtaken, Stopping, Kept
  <2>3. Waited'
    BY <1>1, <2>0, <1>0, <1>0a, <1>2, <1>3, <1>5, <2>0a DEF World, Waited, Boots, BootPcs, Stopping, Kept
  <2>4. Placing'
    BY <1>1, <2>0, <1>0, <1>0a, <1>2, <1>3, <1>5, <2>0a DEF World, Placing, BootPcs, Kept, Boots
  <2>5. Running'
    BY <1>1, <2>0, <1>0, <1>0a, <1>2, <1>3, <1>5, <2>0a DEF World, Running, Up, Kept
  <2>6. Tracked'
    BY <1>1, <2>0, <1>0, <1>0a, <1>2, <1>3, <1>5, <2>0a, <2>0c DEF World, Tracked
  <2>7. Marked'
    BY <1>1, <2>0, <1>0, <1>0a, <1>2, <1>3, <1>5, <2>0a, <2>0b DEF World, Marked, Kept, Cancels
  <2>8. Stopped'
    BY <1>1, <2>0, <1>0, <1>0a, <1>2, <1>3, <1>5, <2>0a DEF World, Stopped, Up, Stopping, Kept
  <2>9. DisksKnown'
    BY <1>1, <2>0, <1>0, <1>0a, <1>2, <1>3, <1>5, <2>0a DEF World, DisksKnown, Kept
  <2> QED
    BY <2>1, <2>2, <2>3, <2>4, <2>5, <2>6, <2>7, <2>8, <2>9 DEF World
<1> QED
  BY <1>1, <1>s, <1>w DEF IInv

\* The machine of the Boot c, which holds it, and what the others do meanwhile.
LEMMA Holds ==
  ASSUME Shape, World, NEW c \in Calls, Boots(c)
  PROVE  /\ calls[c].mc = machines /\ machines \in Calls /\ ~recovering
         /\ \A b \in Calls : calls[b].pc \in BootPcs => b = c
         /\ \A d \in Calls : calls[d].pc \notin {"waitWatch", "readId", "forget", "remove", "release"}
         /\ \A d \in Calls : (Stopping(d) /\ calls[d].pc = "done" /\ calls[d].ok) => ~(c < d)
<1>1. calls[c].pc # "done" /\ calls[c].pc \in BootPcs
  BY DEF Boots, BootPcs
<1>2. calls[c].mc = machines /\ machines \in Calls /\ ~recovering
  BY <1>1, CallMachine DEF World, Waited
<1>3. \A b \in Calls : calls[b].pc \in BootPcs => b = c
  BY <1>1 DEF Shape, OneBoot, BootPcs, StopPcs
<1>4. \A d \in Calls : calls[d].pc \notin {"waitWatch", "readId", "forget", "remove", "release"}
  BY PastBoot
<1>5. \A d \in Calls : (Stopping(d) /\ calls[d].pc = "done" /\ calls[d].ok) => ~(c < d)
  <2>1. \A d \in Calls : c < d => d > c
    BY Numbers
  <2> QED
    BY <2>1 DEF World, Waited
<1> QED
  BY <1>2, <1>3, <1>4, <1>5

\* Nothing runs before the Boot has placed it.
LEMMA NoneYet ==
  ASSUME Shape, World, NEW c \in Calls, calls[c].pc = "placing", NEW h \in Calls
  PROVE  ~Up(h)
<1>1. /\ ~recovering /\ mc[machines].handle = Nil
      /\ \A b \in Calls : calls[b].pc \in BootPcs => b = c
  BY Holds DEF Boots, BootPcs, World, Placing
<1>2. calls[h].pc # "placed" /\ mc[machines].handle # h
  BY <1>1, Numbers DEF BootPcs
<1> QED
  BY <1>1, <1>2 DEF World, Running

\* The backend placed a machine, or restarted the kept disk.
LEMMA PlacedStep ==
  ASSUME IInv, StrayInv, NEW c \in Calls, Placed(c)
  PROVE  IInv'
<1> DEFINE d == IF calls[c].id = Nil THEN c ELSE calls[c].id
<1>0. /\ calls[c].pc = "placing" /\ calls[c].op = "Boot" /\ TypeOK /\ c <= made /\ made \in Nat
      /\ d \in Calls /\ (calls[c].id = Nil => d = c) /\ (calls[c].id # Nil => d = calls[c].id /\ d \in disks)
  <2>1. calls[c].pc = "placing" /\ calls[c].op = "Boot" /\ (calls[c].id # Nil => d \in disks)
    BY DEF Placed, At
  <2>2. c <= made /\ made \in Nat /\ TypeOK
    BY <2>1, CallMade DEF IInv, Shape
  <2> QED
    BY <2>1, <2>2 DEF TypeOK
<1>1. /\ calls[c].pc = "placing" /\ Moves(c, "placed") /\ disks' = disks \cup {d}
      /\ handle' \in [Calls -> Handle] /\ handle'[c].state = "up" /\ handle'[c].disk = d
      /\ handle'[c].mc = handle[c].mc /\ handle'[c].watch = handle[c].watch
      /\ handle'[c].cancelled = handle[c].cancelled /\ handle'[c].guest = handle[c].guest
      /\ handle'[c].reported = handle[c].reported
      /\ \A k \in Calls : /\ (k # c /\ k \notin strays) => handle'[k] = handle[k]
                          /\ k \in strays' => handle'[k] = handle[k]
                          /\ (k \in strays /\ k \notin strays') => handle'[k] = NoHandle
      /\ machines' = machines /\ mc' = mc /\ made' = made /\ recovering' = recovering /\ restarts' = restarts
      /\ overtaken' = overtaken /\ strays' \subseteq strays /\ strays \subseteq Calls /\ c \notin strays
  <2> DEFINE a == handle[c]
             r == [a EXCEPT !.state = "up", !.disk = d]
             over == {h \in strays : handle[h].disk = d}
  <2>0. c \notin strays /\ strays \subseteq Calls
    BY <1>0, Types DEF StrayInv, Unwatched
  <2>1. /\ handle' = [h \in Calls |-> IF h = c THEN r ELSE IF h \in over THEN NoHandle ELSE handle[h]]
        /\ strays' = strays \ over
        /\ handle \in [Calls -> Handle] /\ a \in Handle
    BY <1>0, Types DEF Placed
  <2>1a. NoHandle \in Handle /\ over \subseteq strays
    BY Numbers DEF NoHandle, Handle
  <2>2. disks' = disks \cup {d} /\ calls' = Goto(c, "placed")
    BY DEF Placed
  <2> HIDE DEF a, d, over
  <2>3. /\ r \in Handle /\ r.state = "up" /\ r.disk = d /\ r.mc = a.mc /\ r.watch = a.watch
        /\ r.cancelled = a.cancelled /\ r.guest = a.guest /\ r.reported = a.reported
    BY <1>0, <2>1, Numbers DEF Handle
  <2> HIDE DEF r
  <2>4. /\ handle' \in [Calls -> Handle] /\ handle'[c] = r
        /\ \A k \in Calls : /\ (k # c /\ k \notin strays) => handle'[k] = handle[k]
                            /\ k \in strays' => handle'[k] = handle[k]
                            /\ (k \in strays /\ k \notin strays') => handle'[k] = NoHandle
        /\ strays' \subseteq strays
    BY <2>0, <2>1, <2>1a, <2>3
  <2>5. Moves(c, "placed")
    BY <1>0, <2>2, GotoMoves
  <2> QED
    BY <1>0, <2>0, <2>2, <2>3, <2>4, <2>5 DEF Placed, a
<1>2. d <= made
  <2>1. d \in disks => ~(d > made)
    BY <1>0 DEF IInv, Shape, Unmade
  <2>2. d \in Nat /\ (d = c \/ d \in disks)
    BY <1>0, Numbers
  <2> HIDE DEF d
  <2> QED
    BY <1>0, <2>1, <2>2
<1> HIDE DEF d
<1>3. handle[c].watch = "none" /\ ~handle[c].reported
  BY <1>0 DEF IInv, Shape, RefersOK, WatchOK
<1>4. ASSUME NEW k \in Calls, k # c
      PROVE  /\ handle'[k] = handle[k] \/ (k \in strays /\ k \notin strays' /\ handle'[k] = NoHandle)
             /\ handle'[k].watch = handle[k].watch /\ (Up(k)' => Up(k))
             /\ handle'[k].watch # "none" => handle'[k] = handle[k]
             /\ k \notin strays' => handle'[k] = NoHandle \/ (k \notin strays /\ handle'[k] = handle[k])
             /\ handle'[k].reported => handle'[k] = handle[k]
  <2>1. NoHandle.watch = "none" /\ NoHandle.state = "none" /\ NoHandle.reported = FALSE
    BY DEF NoHandle
  <2>2. CASE handle'[k] = handle[k] /\ (k \in strays <=> k \in strays')
    BY <2>2 DEF Up
  <2>3. CASE k \in strays /\ k \notin strays' /\ handle'[k] = NoHandle
    BY <2>1, <2>3 DEF StrayInv, Unwatched, Up
  <2> QED
    BY <1>1, <1>4, <2>2, <2>3
<1>s. Shape'
  <2>1. TypeOK'
    BY <1>1, <1>0, <1>2, <1>3 DEF IInv, Shape, TypeOK, Call, Mc, Handle, Moves, Kept
  <2>2. RefersOK'
    BY <1>1, <1>0, <1>2, <1>3, <1>4 DEF IInv, Shape, RefersOK, BootPcs, StopPcs, Stopping, Moves, Kept
  <2>3. WatchOK'
    BY <1>1, <1>0, <1>2, <1>3, <1>4 DEF IInv, Shape, WatchOK
  <2>4. Unmade'
    <3>1. machines' = machines /\ made' = made /\ mc' = mc
      BY <1>1
    <3>2. \A e \in Calls : /\ calls'[e].pc # "done" => calls[e].pc # "done" /\ calls'[e].mc = calls[e].mc
                           /\ calls'[e].pc \in StopPcs => calls[e].pc \in StopPcs /\ calls'[e].target = calls[e].target
                           /\ calls[e].pc = "done" => calls'[e].pc = "done" /\ calls'[e].op = calls[e].op
      BY <1>1 DEF Moves, Kept, StopPcs
    <3>3. ASSUME NEW o \in Calls, o > made
          PROVE  handle'[o] = handle[o] /\ (o \in disks' => o \in disks)
      <4>1. o # c /\ o # d
        BY <1>0, <1>2, <3>3, Numbers
      <4>2. handle[o] = NoHandle
        BY <3>3 DEF IInv, Shape, Unmade
      <4> QED
        BY <4>1, <4>2, <1>1, <1>4
    <3> QED
      BY <3>1, <3>2, <3>3 DEF IInv, Shape, Unmade
  <2>5. OneBoot'
    BY <1>1, <1>0, <1>2, <1>3 DEF IInv, Shape, OneBoot, BootPcs, StopPcs, Moves, Kept
  <2>6. Quiet'
    BY <1>1, <1>0, <1>2, <1>3 DEF IInv, Shape, Quiet, Moves, Kept
  <2>7. OvertakenOnce'
    BY <1>1, <1>0, <1>2, <1>3 DEF IInv, Shape, OvertakenOnce, Moves, Kept
  <2> QED
    BY <2>1, <2>2, <2>3, <2>4, <2>5, <2>6, <2>7 DEF Shape
<1>w. ASSUME ~overtaken PROVE World'
  <2>0. World
    BY <1>1, <1>w DEF IInv
  <2>0a. /\ calls[c].mc = machines /\ machines \in Calls /\ ~recovering
         /\ \A b \in Calls : calls[b].pc \in BootPcs => b = c
         /\ \A e \in Calls : calls[e].pc \notin {"waitWatch", "readId", "forget", "remove", "release"}
         /\ \A e \in Calls : (Stopping(e) /\ calls[e].pc = "done" /\ calls[e].ok) => ~(c < e)
    BY <1>1, <2>0, Holds DEF IInv, Boots, BootPcs
  <2>0b. \A h \in Calls : ~Up(h)
    BY <1>0, <2>0, NoneYet DEF IInv
  <2>0c. disks' = {d} /\ mc[machines].handle = Nil
    <3>1. disks \subseteq {calls[c].id} /\ disks \subseteq Calls /\ mc[machines].handle = Nil
      BY <1>0, <2>0, Types DEF World, Placing
    <3> QED
      BY <1>0, <1>1, <3>1, Numbers
  <2>0d. \A o \in Calls : mc[o].handle # Nil => mc[o].handle \in Calls
    BY <1>0, Types, Numbers DEF Mc
  <2>1. SameMachine'
    BY <1>1, <2>0, <1>0, <1>3, <2>0a, <2>0b, <2>0c DEF World, SameMachine, StopPcs, Moves, Kept
  <2>2. Begins'
    BY <1>1, <2>0, <1>0, <1>3, <2>0a, <2>0b, <2>0c
       DEF World, Begins, Overtaken, Stopping, Moves, Kept, BootPcs
  <2>3. Waited'
    BY <1>1, <2>0, <1>0, <1>3, <2>0a, <2>0b, <2>0c DEF World, Waited, Boots, BootPcs, Stopping, Moves, Kept
  <2>4. Placing'
    BY <1>1, <2>0, <1>0, <1>3, <2>0a, <2>0b, <2>0c DEF World, Placing, BootPcs, Moves, Kept
  <2>5. Running'
    <3>1. \A k \in Calls : Up(k)' => k = c
      BY <1>4, <2>0b
    <3>2. calls'[c].pc = "placed" /\ handle'[c].disk \in disks'
      BY <1>1, <2>0c DEF Moves
    <3> QED
      BY <3>1, <3>2 DEF Running
  <2>6. Tracked'
    <3>1. \A o \in Calls : mc[o].handle # Nil =>
             mc[o].handle \in Calls /\ handle[mc[o].handle].mc = o /\ handle[mc[o].handle].watch = "armed"
      BY <2>0, <2>0d DEF World, Tracked
    <3>2. \A o \in Calls : mc[o].handle # Nil => handle'[mc[o].handle] = handle[mc[o].handle]
      BY <1>3, <1>4, <3>1
    <3> QED
      BY <1>1, <3>1, <3>2 DEF Tracked
  <2>7. Marked'
    <3>1. NoHandle.cancelled = FALSE /\ NoHandle.state = "none" /\ ~handle[c].cancelled
      BY <1>1, <1>3, <2>0 DEF NoHandle, World, Marked
    <3>2. ASSUME NEW k \in Calls, k \notin strays',
                 handle'[k].cancelled \/ (handle'[k].state = "exited" /\ ~handle'[k].guest /\ handle'[k].watch # "closed")
          PROVE  handle'[k].watch # "none" /\ (mc'[handle'[k].mc].handle = k => mc'[handle'[k].mc].halted)
      <4>1. k # c
        BY <1>1, <3>1, <3>2
      <4>2. k \notin strays /\ handle'[k] = handle[k]
        BY <1>4, <3>1, <3>2, <4>1
      <4> QED
        BY <1>1, <2>0, <3>2, <4>2 DEF World, Marked
    <3>3. \A k \in Calls : handle'[k].reported => handle'[k].guest
      BY <1>1, <1>3, <1>4, <2>0 DEF World, Marked
    <3>4. \A e \in Calls : calls'[e].pc = "waitBoot" => mc'[calls'[e].target].halted
      BY <1>1, <2>0 DEF World, Marked, Moves, Kept
    <3> QED
      BY <3>2, <3>3, <3>4 DEF Marked
  <2>8. Stopped'
    <3>1. \A k \in Calls : Up(k)' => k = c
      BY <1>4, <2>0b
    <3> QED
      BY <1>1, <1>0, <2>0a, <3>1 DEF Stopped, Stopping, Moves, Kept
  <2>9. DisksKnown'
    BY <1>1, <2>0, <1>0, <1>3, <2>0a, <2>0b, <2>0c DEF World, DisksKnown, Moves, Kept
  <2> QED
    BY <2>1, <2>2, <2>3, <2>4, <2>5, <2>6, <2>7, <2>8, <2>9 DEF World
<1> QED
  BY <1>1, <1>s, <1>w DEF IInv

\* The backend placed nothing.
LEMMA PlaceFailedStep ==
  ASSUME IInv, NEW c \in Calls, PlaceFailed(c)
  PROVE  IInv'
<1>0. calls[c].pc = "placing" /\ calls[c].op = "Boot" /\ TypeOK /\ made \in Nat /\ calls[c].mc \in Calls
  BY CallMachine DEF PlaceFailed, At, IInv, Shape
<1>1. /\ calls[c].pc = "placing" /\ calls[c].op = "Boot" /\ Returns(c, FALSE)
      /\ machines' = machines \/ (machines' = Nil /\ calls[c].fresh)
      /\ mc' = mc /\ handle' = handle /\ disks' = disks /\ made' = made /\ recovering' = recovering
      /\ restarts' = restarts /\ overtaken' = overtaken /\ strays' = strays
  BY <1>0, ReturnReturns DEF PlaceFailed
<1>2. machines' = Nil => machines' <= made
  BY <1>0 DEF Nil
<1>s. Shape'
  <2>1. TypeOK'
    BY <1>1, <1>0, <1>2, Numbers DEF IInv, Shape, TypeOK, Call, Mc, Handle, Returns, Kept
  <2>2. RefersOK'
    <3> SUFFICES ASSUME NEW e \in Calls
                 PROVE  /\ calls'[e].pc \in BootPcs => calls'[e].op = "Boot"
                        /\ calls'[e].pc \in StopPcs => Stopping(e)'
                        /\ calls'[e].pc # "done" => calls'[e].mc # Nil
                        /\ calls'[e].pc \in {"halt", "waitBoot"} => calls'[e].target # Nil
                        /\ calls'[e].pc = "waitWatch" => calls'[e].handle # Nil
                        /\ calls'[e].pc \in {"begin", "placing", "placed"} => handle'[e].watch = "none"
      BY DEF RefersOK
    <3>1. CASE e = c
      <4>1. calls'[e].pc = "done"
        BY <1>1, <3>1 DEF Returns
      <4> QED
        BY <4>1 DEF BootPcs, StopPcs
    <3>2. CASE e # c
      <4>1. Kept(e) /\ handle' = handle
        BY <1>1, <3>2 DEF Returns
      <4>2. RefersOK
        BY DEF IInv, Shape
      <4> QED
        BY <4>1, <4>2 DEF RefersOK, Kept, Stopping
    <3> QED
      BY <3>1, <3>2
  <2>3. WatchOK'
    BY <1>1, <1>0, <1>2, Numbers DEF IInv, Shape, WatchOK
  <2>4. Unmade'
    <3>1. machines' <= made /\ made' = made /\ mc' = mc /\ handle' = handle /\ disks' = disks
      BY <1>1, <1>2 DEF IInv, Shape, Unmade
    <3>2. \A e \in Calls : /\ calls'[e].pc # "done" => calls[e].pc # "done" /\ calls'[e].mc = calls[e].mc
                           /\ calls'[e].pc \in StopPcs => calls[e].pc \in StopPcs /\ calls'[e].target = calls[e].target
                           /\ calls[e].pc = "done" => calls'[e].pc = "done" /\ calls'[e].op = calls[e].op
      BY <1>1 DEF Returns, Kept, StopPcs
    <3> QED
      BY <3>1, <3>2 DEF IInv, Shape, Unmade
  <2>5. OneBoot'
    BY <1>1, <1>0, <1>2, Numbers DEF IInv, Shape, OneBoot, BootPcs, StopPcs, Returns, Kept
  <2>6. Quiet'
    BY <1>1, <1>0, <1>2, Numbers DEF IInv, Shape, Quiet, Returns, Kept
  <2>7. OvertakenOnce'
    BY <1>1, <1>0, <1>2, Numbers DEF IInv, Shape, OvertakenOnce, Returns, Kept
  <2> QED
    BY <2>1, <2>2, <2>3, <2>4, <2>5, <2>6, <2>7 DEF Shape
<1>w. ASSUME ~overtaken PROVE World'
  <2>0. World
    BY <1>1, <1>w DEF IInv
  <2>0a. /\ calls[c].mc = machines /\ machines \in Calls /\ ~recovering
         /\ \A b \in Calls : calls[b].pc \in BootPcs => b = c
         /\ \A d \in Calls : calls[d].pc \notin {"waitWatch", "readId", "forget", "remove", "release"}
         /\ \A d \in Calls : (Stopping(d) /\ calls[d].pc = "done" /\ calls[d].ok) => ~(c < d)
    BY <1>1, <2>0, Holds DEF IInv, Boots, BootPcs
  <2>0b. \A h \in Calls : ~Up(h)
    BY <1>0, <2>0, NoneYet DEF IInv
  <2>0c. /\ \A d \in disks : d = mc[machines].id /\ d \in Calls
         /\ machines' # machines => disks = {}
    <3>1. disks \subseteq {calls[c].id} /\ disks \subseteq Calls /\ (calls[c].fresh => calls[c].id = Nil)
          /\ calls[c].id = mc[machines].id
      BY <1>0, <2>0, Types DEF World, Placing
    <3> QED
      BY <1>1, <3>1, Numbers
  <2>1. SameMachine'
    BY <1>1, <2>0, <1>0, <2>0a, <2>0b, <2>0c, Numbers DEF World, SameMachine, StopPcs, Returns, Kept
  <2>2. Begins'
    BY <1>1, <2>0, <1>0, <2>0a, <2>0b, <2>0c, Numbers
       DEF World, Begins, Overtaken, Stopping, Returns, Kept, BootPcs
  <2>3. Waited'
    BY <1>1, <2>0, <1>0, <2>0a, <2>0b, <2>0c, Numbers
       DEF World, Waited, Boots, BootPcs, Stopping, Returns, Kept
  <2>4. Placing'
    BY <1>1, <2>0, <1>0, <2>0a, <2>0b, <2>0c, Numbers DEF World, Placing, BootPcs, Returns, Kept
  <2>5. Running'
    BY <1>1, <2>0, <1>0, <2>0a, <2>0b, <2>0c, Numbers DEF World, Running, Up, Returns, Kept
  <2>6. Tracked'
    BY <1>1, <2>0, <1>0, <2>0a, <2>0b, <2>0c, Numbers DEF World, Tracked
  <2>7. Marked'
    BY <1>1, <2>0, <1>0, <2>0a, <2>0b, <2>0c, Numbers DEF World, Marked, Returns, Kept
  <2>8. Stopped'
    BY <1>1, <2>0, <1>0, <2>0a, <2>0b, <2>0c, Numbers DEF World, Stopped, Up, Stopping, Returns, Kept
  <2>9. DisksKnown'
    BY <1>1, <2>0, <1>0, <2>0a, <2>0b, <2>0c, Numbers DEF World, DisksKnown, Returns, Kept
  <2> QED
    BY <2>1, <2>2, <2>3, <2>4, <2>5, <2>6, <2>7, <2>8, <2>9 DEF World
<1> QED
  BY <1>1, <1>s, <1>w DEF IInv

\* Boot hands the machine its handle, and starts the watch.
LEMMA TrackStep ==
  ASSUME IInv, NEW c \in Calls, Track(c)
  PROVE  IInv'
<1> DEFINE m == calls[c].mc
<1>0. /\ calls[c].pc = "placed" /\ calls[c].op = "Boot" /\ TypeOK /\ made \in Nat /\ c <= made
      /\ m \in Calls /\ m <= made /\ handle[c].watch = "none" /\ ~handle[c].reported
  <2>1. calls[c].pc = "placed" /\ calls[c].op = "Boot" /\ TypeOK
    BY DEF Track, At, IInv, Shape
  <2> QED
    BY <2>1, CallMachine, CallMade DEF IInv, Shape, RefersOK, WatchOK
<1>1. /\ calls[c].pc = "placed" /\ Moves(c, "tracked")
      /\ mc' \in [Calls -> Mc] /\ mc'[m].handle = c /\ mc'[m].id = mc[m].id /\ mc'[m].booting = mc[m].booting
      /\ mc'[m].halted = mc[m].halted /\ \A o \in Calls : o # m => mc'[o] = mc[o]
      /\ handle' \in [Calls -> Handle] /\ handle'[c].state = handle[c].state /\ handle'[c].disk = handle[c].disk
      /\ handle'[c].mc = m /\ handle'[c].watch = "armed"
      /\ handle'[c].cancelled = handle[c].cancelled /\ handle'[c].guest = handle[c].guest
      /\ handle'[c].reported = handle[c].reported
      /\ \A k \in Calls : k # c => handle'[k] = handle[k]
      /\ machines' = machines /\ disks' = disks /\ made' = made /\ recovering' = recovering /\ restarts' = restarts
      /\ overtaken' = overtaken /\ strays' = strays
  <2> DEFINE a == handle[c]
             r == [a EXCEPT !.watch = "armed", !.mc = m]
             b == mc[m]
             q == [b EXCEPT !.handle = c]
  <2>1. handle' = [handle EXCEPT ![c] = r] /\ handle \in [Calls -> Handle] /\ a \in Handle
    BY <1>0, Types DEF Track
  <2>2. mc' = [mc EXCEPT ![m] = q] /\ mc \in [Calls -> Mc] /\ b \in Mc
    BY <1>0, Types DEF Track
  <2>3. calls' = Goto(c, "tracked")
    BY DEF Track
  <2> HIDE DEF a, b, m
  <2>4. /\ r \in Handle /\ r.state = a.state /\ r.disk = a.disk /\ r.mc = m /\ r.watch = "armed"
        /\ r.cancelled = a.cancelled /\ r.guest = a.guest /\ r.reported = a.reported
    BY <1>0, <2>1, Numbers DEF Handle
  <2>5. q \in Mc /\ q.handle = c /\ q.id = b.id /\ q.booting = b.booting /\ q.halted = b.halted
    BY <1>0, <2>2, Numbers DEF Mc
  <2> HIDE DEF r, q
  <2>6. handle' \in [Calls -> Handle] /\ handle'[c] = r /\ \A k \in Calls : k # c => handle'[k] = handle[k]
    BY <2>1, <2>4
  <2>7. mc' \in [Calls -> Mc] /\ mc'[m] = q /\ \A o \in Calls : o # m => mc'[o] = mc[o]
    BY <1>0, <2>2, <2>5
  <2>8. Moves(c, "tracked")
    BY <1>0, <2>3, GotoMoves
  <2> QED
    BY <1>0, <2>4, <2>5, <2>6, <2>7, <2>8 DEF Track, a, b
<1>2. /\ machines # Nil => machines \in Calls
      /\ \A d \in Calls : calls[d].pc # "done" => calls[d].mc \in Calls
      /\ \A d \in Calls : calls[d].pc = "waitBoot" => calls[d].target \in Calls
      /\ \A h \in Calls : handle[h].watch # "none" => handle[h].mc \in Calls
  BY Referred DEF IInv
<1>3. m = calls[c].mc
  OBVIOUS
<1> HIDE DEF m
<1>s. Shape'
  <2>1. TypeOK'
    BY <1>1, <1>0, <1>3, Numbers DEF IInv, Shape, TypeOK, Call, Mc, Handle, Moves, Kept
  <2>2. RefersOK'
    <3>1. \A d \in Calls : calls'[d].pc \in {"begin", "placing", "placed"} => d # c /\ calls'[d].pc = calls[d].pc
      BY <1>1 DEF Moves, Kept
    <3>2. \A d \in Calls : d # c => handle'[d].watch = handle[d].watch
      BY <1>1
    <3>3. calls'[c].pc \in BootPcs /\ calls'[c].op = "Boot" /\ calls'[c].mc # Nil /\ calls'[c].pc \notin StopPcs
      BY <1>0, <1>1, <1>3, Numbers DEF Moves, BootPcs, StopPcs
    <3>4. \A d \in Calls : d # c => Kept(d)
      BY <1>1 DEF Moves
    <3> QED
      BY <3>1, <3>2, <3>3, <3>4 DEF IInv, Shape, RefersOK, Stopping, Kept, BootPcs, StopPcs
  <2>3. WatchOK'
    BY <1>1, <1>0, <1>3, Numbers DEF IInv, Shape, WatchOK
  <2>4. Unmade'
    <3>1. machines' = machines /\ made' = made /\ disks' = disks
      BY <1>1
    <3>2. \A e \in Calls : /\ calls'[e].pc # "done" => calls[e].pc # "done" /\ calls'[e].mc = calls[e].mc
                           /\ calls'[e].pc \in StopPcs => calls[e].pc \in StopPcs /\ calls'[e].target = calls[e].target
                           /\ calls[e].pc = "done" => calls'[e].pc = "done" /\ calls'[e].op = calls[e].op
      BY <1>1 DEF Moves, Returns, Kept, StopPcs
    <3>3. ASSUME NEW o \in Calls, o > made
          PROVE  handle'[o] = handle[o] /\ mc'[o] = mc[o]
      <4>1. o # c /\ o # m
        BY <1>0, <3>3, Numbers
      <4> QED
        BY <4>1, <1>1
    <3> QED
      BY <3>1, <3>2, <3>3 DEF IInv, Shape, Unmade
  <2>5. OneBoot'
    BY <1>1, <1>0, <1>3, Numbers DEF IInv, Shape, OneBoot, BootPcs, StopPcs, Moves, Kept
  <2>6. Quiet'
    BY <1>1, <1>0, <1>3, Numbers DEF IInv, Shape, Quiet, Moves, Kept
  <2>7. OvertakenOnce'
    BY <1>1, <1>0, <1>3, Numbers DEF IInv, Shape, OvertakenOnce, Moves, Kept
  <2> QED
    BY <2>1, <2>2, <2>3, <2>4, <2>5, <2>6, <2>7 DEF Shape
<1>w. ASSUME ~overtaken PROVE World'
  <2>0. World
    BY <1>1, <1>w DEF IInv
  <2>0a. /\ calls[c].mc = machines /\ machines \in Calls /\ ~recovering
         /\ \A b \in Calls : calls[b].pc \in BootPcs => b = c
         /\ \A d \in Calls : calls[d].pc \notin {"waitWatch", "readId", "forget", "remove", "release"}
         /\ \A d \in Calls : (Stopping(d) /\ calls[d].pc = "done" /\ calls[d].ok) => ~(c < d)
    BY <1>1, <2>0, Holds DEF IInv, Boots, BootPcs
  <2>0b. mc[machines].handle = Nil /\ disks = {handle[c].disk} /\ \A h \in Calls : Up(h) => h = c
    <3>1. mc[machines].handle = Nil /\ disks = {handle[c].disk}
      BY <1>0, <2>0 DEF World, Placing
    <3>2. \A h \in Calls : Up(h) => calls[h].pc = "placed"
      BY <2>0, <2>0a, <3>1, Numbers DEF World, Running
    <3> QED
      BY <2>0a, <3>1, <3>2 DEF BootPcs
  <2>0d. \A o \in Calls : mc[o].handle # Nil => mc[o].handle \in Calls
    BY <1>0, Types, Numbers DEF Mc
  <2>1. SameMachine'
    BY <1>1, <2>0, <1>0, <1>2, <1>3, <2>0a, <2>0b DEF World, SameMachine, StopPcs, Moves, Kept
  <2>2. Begins'
    BY <1>1, <2>0, <1>0, <1>2, <1>3, <2>0a, <2>0b DEF World, Begins, Overtaken, Stopping, Moves, Kept, BootPcs
  <2>3. Waited'
    BY <1>1, <2>0, <1>0, <1>2, <1>3, <2>0a, <2>0b DEF World, Waited, Boots, BootPcs, Stopping, Moves, Kept
  <2>4. Placing'
    BY <1>1, <2>0, <1>0, <1>2, <1>3, <2>0a, <2>0b DEF World, Placing, BootPcs, Moves, Kept
  <2>5. Running'
    <3>1. \A h \in Calls : handle'[h].state = handle[h].state /\ handle'[h].disk = handle[h].disk
      BY <1>1
    <3>2. machines' = machines /\ machines # Nil /\ mc'[machines'].handle = c /\ disks' = disks
      BY <1>1, <1>3, <2>0a, Numbers
    <3>3. \A h \in Calls : Up(h)' => Up(h)
      BY <1>1, <3>1 DEF Up
    <3> QED
      BY <2>0b, <3>1, <3>2, <3>3 DEF Running
  <2>6. Tracked'
    BY <1>1, <2>0, <1>0, <1>2, <1>3, <2>0a, <2>0b, <2>0d DEF World, Tracked
  <2>7. Marked'
    BY <1>1, <2>0, <1>0, <1>2, <1>3, <2>0a, <2>0b DEF World, Marked, Moves, Kept
  <2>8. Stopped'
    BY <1>1, <2>0, <1>0, <1>2, <1>3, <2>0a, <2>0b DEF World, Stopped, Up, Stopping, Moves, Kept
  <2>9. DisksKnown'
    BY <1>1, <2>0, <1>0, <1>2, <1>3, <2>0a, <2>0b DEF World, DisksKnown, Moves, Kept
  <2> QED
    BY <2>1, <2>2, <2>3, <2>4, <2>5, <2>6, <2>7, <2>8, <2>9 DEF World
<1> QED
  BY <1>1, <1>s, <1>w DEF IInv

\* Boot records the root disk, and sees a stop that came meanwhile.
LEMMA AttachStep ==
  ASSUME IInv, NEW c \in Calls, Attach(c)
  PROVE  IInv'
<1> DEFINE m == calls[c].mc
<1>0. /\ calls[c].pc = "tracked" /\ calls[c].op = "Boot" /\ TypeOK /\ made \in Nat /\ c <= made
      /\ m \in Calls /\ m <= made /\ handle[c].disk \in Refs
  <2>1. calls[c].pc = "tracked" /\ calls[c].op = "Boot" /\ TypeOK
    BY DEF Attach, At, IInv, Shape
  <2> QED
    BY <2>1, CallMachine, CallMade, Types DEF IInv, Shape, Handle
<1>1. /\ calls[c].pc = "tracked" /\ (Moves(c, "stopping") \/ Moves(c, "awaiting"))
      /\ mc' \in [Calls -> Mc] /\ mc'[m].handle = mc[m].handle /\ mc'[m].id = handle[c].disk
      /\ mc'[m].booting = mc[m].booting
      /\ mc'[m].halted = mc[m].halted /\ \A o \in Calls : o # m => mc'[o] = mc[o]
      /\ Cancels(c) /\ (~mc[m].halted => handle' = handle)
      /\ machines' = machines /\ disks' = disks /\ made' = made /\ recovering' = recovering /\ restarts' = restarts
      /\ overtaken' = overtaken /\ strays' = strays
  <2> DEFINE b == mc[m]
             d == handle[c].disk
             q == [b EXCEPT !.id = d]
  <2>1. \/ calls' = Goto(c, "stopping") /\ handle' = Cancelled(c) /\ mc[m].halted
        \/ calls' = Goto(c, "awaiting") /\ handle' = handle /\ ~mc[m].halted
    BY DEF Attach
  <2>2. mc' = [mc EXCEPT ![m] = q] /\ mc \in [Calls -> Mc] /\ b \in Mc
    BY <1>0, Types DEF Attach
  <2> HIDE DEF b, d, m
  <2>5. q \in Mc /\ q.handle = b.handle /\ q.id = d /\ q.booting = b.booting /\ q.halted = b.halted
    BY <1>0, <2>2 DEF Mc, d
  <2> HIDE DEF q
  <2>7. mc' \in [Calls -> Mc] /\ mc'[m] = q /\ \A o \in Calls : o # m => mc'[o] = mc[o]
    BY <1>0, <2>2, <2>5
  <2>8. Moves(c, "stopping") \/ Moves(c, "awaiting")
    BY <1>0, <2>1, GotoMoves
  <2>9. Cancels(c)
    BY <1>0, <2>1, NoneCancelled, CancelChanges DEF Cancels
  <2> QED
    BY <1>0, <2>1, <2>5, <2>7, <2>8, <2>9 DEF Attach, b, d
<1>2. /\ machines # Nil => machines \in Calls
      /\ \A d \in Calls : calls[d].pc # "done" => calls[d].mc \in Calls
      /\ \A d \in Calls : calls[d].pc = "waitBoot" => calls[d].target \in Calls
      /\ \A h \in Calls : handle[h].watch # "none" => handle[h].mc \in Calls
  BY Referred DEF IInv
<1>3. m = calls[c].mc
  OBVIOUS
<1> HIDE DEF m
<1>5. \A k \in Calls : /\ handle'[k].state = handle[k].state /\ handle'[k].disk = handle[k].disk
                       /\ handle'[k].mc = handle[k].mc /\ handle'[k].guest = handle[k].guest
                       /\ handle'[k].watch = handle[k].watch /\ handle'[k].reported = handle[k].reported
  BY <1>1 DEF Cancels
<1>6. \A o \in Calls : mc'[o].handle = mc[o].handle /\ mc'[o].halted = mc[o].halted /\ mc'[o].booting = mc[o].booting
  BY <1>1
<1>s. Shape'
  <2>1. TypeOK'
    BY <1>1, <1>0, <1>3, <1>5, Numbers DEF IInv, Shape, TypeOK, Call, Mc, Handle, Moves, Kept, Cancels
  <2>2. RefersOK'
    <3>1. \A d \in Calls : calls'[d].pc \in {"begin", "placing", "placed"} => d # c /\ calls'[d].pc = calls[d].pc
      BY <1>1 DEF Moves, Kept
    <3>2. \A d \in Calls : d # c => handle'[d].watch = handle[d].watch
      BY <1>1, <1>5
    <3>3. calls'[c].pc \in BootPcs /\ calls'[c].op = "Boot" /\ calls'[c].mc # Nil /\ calls'[c].pc \notin StopPcs
      BY <1>0, <1>1, <1>3, Numbers DEF Moves, BootPcs, StopPcs
    <3>4. \A d \in Calls : d # c => Kept(d)
      BY <1>1 DEF Moves
    <3> QED
      BY <3>1, <3>2, <3>3, <3>4 DEF IInv, Shape, RefersOK, Stopping, Kept, BootPcs, StopPcs
  <2>3. WatchOK'
    BY <1>1, <1>0, <1>3, <1>5, Numbers DEF IInv, Shape, WatchOK
  <2>4. Unmade'
    <3>1. machines' = machines /\ made' = made /\ disks' = disks
      BY <1>1
    <3>2. \A e \in Calls : /\ calls'[e].pc # "done" => calls[e].pc # "done" /\ calls'[e].mc = calls[e].mc
                           /\ calls'[e].pc \in StopPcs => calls[e].pc \in StopPcs /\ calls'[e].target = calls[e].target
                           /\ calls[e].pc = "done" => calls'[e].pc = "done" /\ calls'[e].op = calls[e].op
      BY <1>1 DEF Moves, Returns, Kept, StopPcs
    <3>3. ASSUME NEW o \in Calls, o > made
          PROVE  handle'[o] = handle[o] /\ mc'[o] = mc[o]
      <4>1. o # c /\ o # m
        BY <1>0, <3>3, Numbers
      <4> QED
        BY <4>1, <1>1 DEF Cancels
    <3> QED
      BY <3>1, <3>2, <3>3 DEF IInv, Shape, Unmade
  <2>5. OneBoot'
    BY <1>1, <1>0, <1>3, <1>5, Numbers DEF IInv, Shape, OneBoot, BootPcs, StopPcs, Moves, Kept
  <2>6. Quiet'
    BY <1>1, <1>0, <1>3, <1>5, Numbers DEF IInv, Shape, Quiet, Moves, Kept
  <2>7. OvertakenOnce'
    BY <1>1, <1>0, <1>3, <1>5, Numbers DEF IInv, Shape, OvertakenOnce, Moves, Kept
  <2> QED
    BY <2>1, <2>2, <2>3, <2>4, <2>5, <2>6, <2>7 DEF Shape
<1>w. ASSUME ~overtaken PROVE World'
  <2>0. World
    BY <1>1, <1>w DEF IInv
  <2>0a. /\ calls[c].mc = machines /\ machines \in Calls /\ ~recovering
         /\ \A b \in Calls : calls[b].pc \in BootPcs => b = c
         /\ \A d \in Calls : calls[d].pc \notin {"waitWatch", "readId", "forget", "remove", "release"}
         /\ \A d \in Calls : (Stopping(d) /\ calls[d].pc = "done" /\ calls[d].ok) => ~(c < d)
    BY <1>1, <2>0, Holds DEF IInv, Boots, BootPcs
  <2>0b. disks = {handle[c].disk} /\ (Up(c) => mc[machines].handle = c)
    BY <1>0, <2>0, <2>0a DEF World, Placing, Running
  <2>0c. Up(c) => handle[c].mc = machines /\ handle[c].watch = "armed"
    BY <2>0, <2>0a, <2>0b, Numbers DEF World, Tracked
  <2>0d. \A o \in Calls : mc[o].handle # Nil => mc[o].handle \in Calls
    BY <1>0, Types, Numbers DEF Mc
  <2>1. SameMachine'
    BY <1>1, <2>0, <1>0, <1>2, <1>3, <1>5, <1>6, <2>0a, <2>0b DEF World, SameMachine, StopPcs, Moves, Kept
  <2>2. Begins'
    BY <1>1, <2>0, <1>0, <1>2, <1>3, <1>5, <1>6, <2>0a, <2>0b
       DEF World, Begins, Overtaken, Stopping, Moves, Kept, BootPcs
  <2>3. Waited'
    BY <1>1, <2>0, <1>0, <1>2, <1>3, <1>5, <1>6, <2>0a, <2>0b
       DEF World, Waited, Boots, BootPcs, Stopping, Moves, Kept
  <2>4. Placing'
    BY <1>1, <2>0, <1>0, <1>2, <1>3, <1>5, <1>6, <2>0a, <2>0b DEF World, Placing, BootPcs, Moves, Kept
  <2>5. Running'
    BY <1>1, <2>0, <1>0, <1>2, <1>3, <1>5, <1>6, <2>0a, <2>0b DEF World, Running, Up, Moves, Kept
  <2>6. Tracked'
    BY <1>1, <2>0, <1>0, <1>2, <1>3, <1>5, <1>6, <2>0a, <2>0b, <2>0d DEF World, Tracked
  <2>7. Marked'
    <3>1. \A o \in Calls : mc'[o].handle = mc[o].handle /\ (mc[o].halted => mc'[o].halted)
      BY <1>6
    <3>2. (c \notin strays /\ handle'[c] # handle[c]) => handle[c].watch # "none" /\ mc'[handle[c].mc].halted
      <4>1. (c \notin strays /\ handle'[c] # handle[c]) => Up(c) /\ mc[m].halted
        BY <1>1 DEF Cancels, Up
      <4> QED
        BY <1>0, <1>3, <1>6, <2>0a, <2>0c, <4>1
    <3>3. \A d \in Calls : calls'[d].pc = "waitBoot" =>
            calls[d].pc = "waitBoot" /\ calls'[d].target = calls[d].target
      BY <1>1 DEF Moves, Kept
    <3>4. Shape /\ Cancels(c) /\ strays' = strays
      BY <1>1 DEF IInv
    <3> QED
      BY <2>0, <3>1, <3>2, <3>3, <3>4, MarkedKept
  <2>8. Stopped'
    BY <1>1, <2>0, <1>0, <1>2, <1>3, <1>5, <1>6, <2>0a, <2>0b DEF World, Stopped, Up, Stopping, Moves, Kept
  <2>9. DisksKnown'
    <3>1. machines' = machines /\ machines' # Nil /\ mc'[machines'].id = handle[c].disk /\ disks' = {handle[c].disk}
      BY <1>1, <1>3, <2>0a, <2>0b, Numbers
    <3>2. \A d \in Calls : calls'[d].pc # "forget"
      BY <1>1, <2>0a DEF Moves, Kept
    <3> QED
      BY <3>1, <3>2 DEF DisksKnown
  <2> QED
    BY <2>1, <2>2, <2>3, <2>4, <2>5, <2>6, <2>7, <2>8, <2>9 DEF World
<1> QED
  BY <1>1, <1>s, <1>w DEF IInv

\* Once a stop got past the machine's exit, nothing runs and no Boot holds it.
LEMMA AllOver ==
  ASSUME Shape, World, NEW c \in Calls, calls[c].pc \in {"readId", "forget", "remove", "release"}
  PROVE  /\ ~recovering /\ Stopping(c) /\ (machines = Nil \/ machines = calls[c].mc)
         /\ \A h \in Calls : ~Up(h) /\ ~Boots(h)
         /\ \A b \in Calls : calls[b].pc = "begin" => c > b
<1>1. ~recovering /\ \A b \in Calls : ~Boots(b)
  BY PastBoot
<1>2. Stopping(c) /\ (machines = Nil \/ machines = calls[c].mc)
  BY DEF Shape, RefersOK, StopPcs, World, SameMachine
<1>3. \A h \in Calls : ~Up(h)
  BY DEF World, Stopped
<1>4. \A b \in Calls : calls[b].pc = "begin" => c > b
  BY DEF Shape, OneBoot, BootPcs, StopPcs
<1> QED
  BY <1>1, <1>2, <1>3, <1>4

\* Discard forgets the machine.
LEMMA ForgetStep ==
  ASSUME IInv, NEW c \in Calls, Forget(c)
  PROVE  IInv'
<1>0. calls[c].pc = "forget" /\ Stopping(c) /\ TypeOK /\ made \in Nat /\ calls[c].mc \in Calls
  <2>1. calls[c].pc = "forget"
    BY DEF Forget
  <2> QED
    BY <2>1, CallMachine DEF IInv, Shape, RefersOK, StopPcs
<1>1. /\ calls[c].pc = "forget" /\ (Moves(c, "remove") \/ (Returns(c, TRUE) /\ calls[c].id = Nil))
      /\ (machines' = Nil \/ (machines' = machines /\ machines # calls[c].mc))
      /\ mc' = mc /\ handle' = handle /\ disks' = disks /\ made' = made /\ recovering' = recovering
      /\ restarts' = restarts /\ overtaken' = overtaken /\ strays' = strays
  <2>1. \/ calls[c].id = Nil /\ calls' = Return(c, TRUE)
        \/ calls' = Goto(c, "remove")
    BY DEF Forget
  <2>2. Moves(c, "remove") \/ (Returns(c, TRUE) /\ calls[c].id = Nil)
    BY <1>0, <2>1, GotoMoves, ReturnReturns
  <2> QED
    BY <1>0, <2>2 DEF Forget
<1>2. machines' <= made /\ machines' \in Refs
  BY <1>0, <1>1, Numbers, Types DEF IInv, Shape, Unmade, Nil
<1>s. Shape'
  <2>1. TypeOK'
    BY <1>1, <1>0, <1>2 DEF IInv, Shape, TypeOK, Call, Mc, Handle, Moves, Returns, Kept
  <2>2. RefersOK'
    BY <1>1, <1>0, <1>2 DEF IInv, Shape, RefersOK, BootPcs, StopPcs, Stopping, Moves, Returns, Kept
  <2>3. WatchOK'
    BY <1>1, <1>0, <1>2 DEF IInv, Shape, WatchOK
  <2>4. Unmade'
    <3>1. machines' <= made /\ made' = made /\ mc' = mc /\ handle' = handle /\ disks' = disks
      BY <1>1, <1>2
    <3>2. \A e \in Calls : /\ calls'[e].pc # "done" => calls[e].pc # "done" /\ calls'[e].mc = calls[e].mc
                           /\ calls'[e].pc \in StopPcs => calls[e].pc \in StopPcs /\ calls'[e].target = calls[e].target
                           /\ calls[e].pc = "done" => calls'[e].pc = "done" /\ calls'[e].op = calls[e].op
      BY <1>1 DEF Moves, Returns, Kept, StopPcs
    <3> QED
      BY <3>1, <3>2 DEF IInv, Shape, Unmade
  <2>5. OneBoot'
    BY <1>1, <1>0, <1>2 DEF IInv, Shape, OneBoot, BootPcs, StopPcs, Moves, Returns, Kept
  <2>6. Quiet'
    BY <1>1, <1>0, <1>2 DEF IInv, Shape, Quiet, Moves, Returns, Kept
  <2>7. OvertakenOnce'
    BY <1>1, <1>0, <1>2 DEF IInv, Shape, OvertakenOnce, Moves, Returns, Kept
  <2> QED
    BY <2>1, <2>2, <2>3, <2>4, <2>5, <2>6, <2>7 DEF Shape
<1>w. ASSUME ~overtaken PROVE World'
  <2>0. World
    BY <1>1, <1>w DEF IInv
  <2>0a. /\ ~recovering /\ Stopping(c) /\ (machines = Nil \/ machines = calls[c].mc)
         /\ \A h \in Calls : ~Up(h) /\ ~Boots(h)
         /\ \A b \in Calls : calls[b].pc = "begin" => c > b
    BY <1>1, <2>0, AllOver DEF IInv
  <2>0b. machines' = Nil
    BY <1>1, <2>0a
  <2>1. SameMachine'
    BY <1>1, <2>0, <1>0, <2>0a, <2>0b DEF World, SameMachine, StopPcs, Moves, Returns, Kept
  <2>2. Begins'
    <3> SUFFICES ASSUME NEW b \in Calls, calls'[b].pc = "begin"
                 PROVE  Overtaken(b)' /\ (calls'[b].fresh => mc'[calls'[b].mc].id = Nil)
      BY DEF Begins
    <3>1. b # c /\ Kept(b) /\ calls[b].pc = "begin"
      BY <1>1, <2>0a DEF Moves, Returns, Kept
    <3>2. c > b /\ Stopping(c)' /\ calls'[c].pc \notin {"get", "halt"}
      BY <1>1, <2>0a, <3>1 DEF Moves, Returns, Stopping
    <3> QED
      BY <1>1, <2>0, <3>1, <3>2 DEF World, Begins, Overtaken, Kept
  <2>3. Waited'
    BY <1>1, <2>0, <1>0, <2>0a, <2>0b DEF World, Waited, Boots, BootPcs, Stopping, Moves, Returns, Kept
  <2>4. Placing'
    BY <1>1, <2>0, <1>0, <2>0a, <2>0b DEF World, Placing, BootPcs, Moves, Returns, Kept, Boots
  <2>5. Running'
    BY <1>1, <2>0, <1>0, <2>0a, <2>0b DEF World, Running, Up, Moves, Returns, Kept
  <2>6. Tracked'
    BY <1>1, <2>0, <1>0, <2>0a, <2>0b DEF World, Tracked
  <2>7. Marked'
    BY <1>1, <2>0, <1>0, <2>0a, <2>0b DEF World, Marked, Moves, Returns, Kept
  <2>8. Stopped'
    BY <1>1, <2>0, <1>0, <2>0a, <2>0b DEF World, Stopped, Up, Stopping, Moves, Returns, Kept
  <2>9. DisksKnown'
    <3>1. ASSUME NEW d \in disks PROVE \E e \in Calls : calls'[e].pc = "remove" /\ calls'[e].id = d
      <4>1. d # Nil
        BY <1>0, Types, Numbers
      <4>2. CASE machines # Nil /\ mc[machines].id = d
        <5>1. calls[c].id = d
          BY <1>0, <2>0, <2>0a, <4>2 DEF World, DisksKnown
        <5> QED
          BY <1>1, <4>1, <5>1 DEF Moves
      <4>3. CASE \E e \in Calls : calls[e].pc = "remove" /\ calls[e].id = d
        BY <1>1, <4>3 DEF Moves, Returns, Kept
      <4> QED
        BY <2>0, <2>0a, <4>2, <4>3 DEF World, DisksKnown, Boots, BootPcs
    <3>2. \A e \in Calls : calls'[e].pc = "forget" => Kept(e)
      BY <1>1 DEF Moves, Returns
    <3> QED
      BY <1>1, <2>0, <3>1, <3>2 DEF World, DisksKnown, Kept
  <2> QED
    BY <2>1, <2>2, <2>3, <2>4, <2>5, <2>6, <2>7, <2>8, <2>9 DEF World
<1> QED
  BY <1>1, <1>s, <1>w DEF IInv

\* The backend removes the disk.
LEMMA RemoveStep ==
  ASSUME IInv, NEW c \in Calls, Remove(c)
  PROVE  IInv'
<1> DEFINE d == calls[c].id
<1>0. calls[c].pc = "remove" /\ Stopping(c) /\ TypeOK /\ handle \in [Calls -> Handle]
  BY Types DEF Remove, IInv, Shape, RefersOK, StopPcs
<1>1. /\ calls[c].pc = "remove" /\ Returns(c, TRUE) /\ disks' = disks \ {d}
      /\ handle' \in [Calls -> Handle]
      /\ \A h \in Calls : /\ handle[h].state # "up" => handle'[h] = handle[h]
                          /\ handle'[h] # handle[h] => handle'[h].state = "exited"
                          /\ handle'[h].disk = handle[h].disk
                          /\ handle'[h].watch = handle[h].watch /\ handle'[h].mc = handle[h].mc
                          /\ handle'[h].reported = handle[h].reported
      /\ machines' = machines /\ mc' = mc /\ made' = made /\ recovering' = recovering /\ restarts' = restarts
      /\ overtaken' = overtaken /\ strays' = strays
  <2>1. /\ handle' = [h \in Calls |-> IF handle[h].disk = d /\ handle[h].state = "up"
                          THEN [handle[h] EXCEPT !.state = "exited", !.cancelled = FALSE] ELSE handle[h]]
        /\ disks' = disks \ {d} /\ calls' = Return(c, TRUE)
    BY DEF Remove
  <2>2. Returns(c, TRUE)
    BY <1>0, <2>1, ReturnReturns
  <2> HIDE DEF d
  <2>3. ASSUME NEW h \in Calls
        PROVE  /\ handle'[h] \in Handle /\ (handle[h].state # "up" => handle'[h] = handle[h])
               /\ handle'[h] # handle[h] => handle'[h].state = "exited"
               /\ handle'[h].disk = handle[h].disk
               /\ handle'[h].watch = handle[h].watch /\ handle'[h].mc = handle[h].mc
               /\ handle'[h].reported = handle[h].reported
    <3> DEFINE a == handle[h]
               r == [a EXCEPT !.state = "exited", !.cancelled = FALSE]
    <3>1. a \in Handle /\ (handle'[h] = a \/ (a.state = "up" /\ handle'[h] = r)) /\ (a.state # "up" => handle'[h] = a)
      BY <1>0, <2>1
    <3> HIDE DEF a
    <3>2. r \in Handle /\ r.state = "exited" /\ r.disk = a.disk /\ r.watch = a.watch /\ r.mc = a.mc /\ r.reported = a.reported
      BY <3>1 DEF Handle
    <3> QED
      BY <3>1, <3>2 DEF a
  <2>4. handle' \in [Calls -> Handle]
    <3>1. handle' = [h \in Calls |-> handle'[h]]
      BY <2>1
    <3> QED
      BY <2>3, <3>1
  <2> QED
    BY <1>0, <2>1, <2>2, <2>3, <2>4 DEF Remove
<1> HIDE DEF d
<1>s. Shape'
  <2>1. TypeOK'
    BY <1>1, <1>0 DEF IInv, Shape, TypeOK, Call, Mc, Handle, Moves, Returns, Kept
  <2>2. RefersOK'
    BY <1>1, <1>0 DEF IInv, Shape, RefersOK, BootPcs, StopPcs, Stopping, Moves, Returns, Kept
  <2>3. WatchOK'
    BY <1>1, <1>0 DEF IInv, Shape, WatchOK
  <2>4. Unmade'
    <3>1. machines' = machines /\ made' = made /\ mc' = mc /\ disks' \subseteq disks
      BY <1>1
    <3>2. \A e \in Calls : /\ calls'[e].pc # "done" => calls[e].pc # "done" /\ calls'[e].mc = calls[e].mc
                           /\ calls'[e].pc \in StopPcs => calls[e].pc \in StopPcs /\ calls'[e].target = calls[e].target
                           /\ calls[e].pc = "done" => calls'[e].pc = "done" /\ calls'[e].op = calls[e].op
      BY <1>1 DEF Moves, Returns, Kept, StopPcs
    <3>3. ASSUME NEW o \in Calls, o > made
          PROVE  handle'[o] = handle[o]
      <4>1. handle[o].state # "up"
        BY <3>3 DEF IInv, Shape, Unmade, NoHandle
      <4> QED
        BY <4>1, <1>1
    <3> QED
      BY <3>1, <3>2, <3>3 DEF IInv, Shape, Unmade
  <2>5. OneBoot'
    BY <1>1, <1>0 DEF IInv, Shape, OneBoot, BootPcs, StopPcs, Moves, Returns, Kept
  <2>6. Quiet'
    BY <1>1, <1>0 DEF IInv, Shape, Quiet, Moves, Returns, Kept
  <2>7. OvertakenOnce'
    BY <1>1, <1>0 DEF IInv, Shape, OvertakenOnce, Moves, Returns, Kept
  <2> QED
    BY <2>1, <2>2, <2>3, <2>4, <2>5, <2>6, <2>7 DEF Shape
<1>w. ASSUME ~overtaken PROVE World'
  <2>0. World
    BY <1>1, <1>w DEF IInv
  <2>0a. /\ ~recovering /\ Stopping(c) /\ (machines = Nil \/ machines = calls[c].mc)
         /\ \A h \in Calls : ~Up(h) /\ ~Boots(h)
         /\ \A b \in Calls : calls[b].pc = "begin" => c > b
    BY <1>1, <2>0, AllOver DEF IInv
  <2>0b. /\ \A h \in Calls : h \notin strays => handle'[h] = handle[h]
         /\ \A h \in Calls : ~Up(h)' /\ handle'[h].disk = handle[h].disk /\ handle'[h].watch = handle[h].watch
         /\ \A h \in Calls : handle'[h].mc = handle[h].mc
    BY <1>1, <2>0a DEF Up
  <2>0c. \A o \in Calls : mc[o].handle # Nil => mc[o].handle \in Calls
    BY <1>0, Types, Numbers DEF Mc
  <2>1. SameMachine'
    BY <1>1, <2>0, <1>0, <2>0a, <2>0b DEF World, SameMachine, StopPcs, Moves, Returns, Kept
  <2>2. Begins'
    BY <1>1, <2>0, <1>0, <2>0a, <2>0b DEF World, Begins, Overtaken, Stopping, Moves, Returns, Kept
  <2>3. Waited'
    BY <1>1, <2>0, <1>0, <2>0a, <2>0b DEF World, Waited, Boots, BootPcs, Stopping, Moves, Returns, Kept
  <2>4. Placing'
    BY <1>1, <2>0, <1>0, <2>0a, <2>0b DEF World, Placing, BootPcs, Moves, Returns, Kept, Boots
  <2>5. Running'
    BY <2>0b DEF Running
  <2>6. Tracked'
    BY <1>1, <2>0, <1>0, <2>0a, <2>0b, <2>0c DEF World, Tracked
  <2>7. Marked'
    <3>1. \A h \in Calls : handle'[h].reported => handle'[h].guest
      <4>1. ASSUME NEW h \in Calls, handle'[h].reported PROVE handle'[h] = handle[h]
        BY <1>1, <4>1 DEF IInv, Shape, WatchOK
      <4> QED
        BY <2>0, <4>1 DEF World, Marked
    <3>2. \A e \in Calls : calls'[e].pc = "waitBoot" => calls[e].pc = "waitBoot" /\ calls'[e].target = calls[e].target
      BY <1>1 DEF Returns, Kept
    <3> QED
      BY <1>1, <2>0, <2>0b, <3>1, <3>2 DEF World, Marked
  <2>8. Stopped'
    BY <2>0b DEF Stopped
  <2>9. DisksKnown'
    BY <1>1, <2>0, <1>0, <2>0a, <2>0b DEF World, DisksKnown, Moves, Returns, Kept, Boots, BootPcs, d
  <2> QED
    BY <2>1, <2>2, <2>3, <2>4, <2>5, <2>6, <2>7, <2>8, <2>9 DEF World
<1> QED
  BY <1>1, <1>s, <1>w DEF IInv

\* Release leaves the disk, no longer the machine's.
LEMMA ReleaseStep ==
  ASSUME IInv, NEW c \in Calls, Release(c)
  PROVE  IInv'
<1>0. calls[c].pc = "release" /\ Stopping(c) /\ TypeOK /\ made \in Nat
  <2>1. calls[c].pc = "release"
    BY DEF Release
  <2> QED
    BY <2>1, CallMachine DEF IInv, Shape, RefersOK, StopPcs
<1>1. /\ calls[c].pc = "release" /\ Returns(c, TRUE) /\ machines' = Nil /\ disks' \subseteq disks
      /\ machines # Nil => mc[machines].id \notin disks'
      /\ mc' = mc /\ handle' = handle /\ made' = made /\ recovering' = recovering /\ restarts' = restarts
      /\ overtaken' = overtaken /\ strays' = strays
  <2>1. Returns(c, TRUE)
    BY <1>0, ReturnReturns DEF Release
  <2> QED
    BY <1>0, <2>1 DEF Release
<1>2. machines' <= made /\ machines' \in Refs
  BY <1>0, <1>1, Numbers DEF Nil
<1>s. Shape'
  <2>1. TypeOK'
    BY <1>1, <1>0, <1>2 DEF IInv, Shape, TypeOK, Call, Mc, Handle, Moves, Returns, Kept
  <2>2. RefersOK'
    BY <1>1, <1>0, <1>2 DEF IInv, Shape, RefersOK, BootPcs, StopPcs, Stopping, Moves, Returns, Kept
  <2>3. WatchOK'
    BY <1>1, <1>0, <1>2 DEF IInv, Shape, WatchOK
  <2>4. Unmade'
    <3>1. machines' <= made /\ made' = made /\ mc' = mc /\ handle' = handle /\ disks' \subseteq disks
      BY <1>1, <1>2
    <3>2. \A e \in Calls : /\ calls'[e].pc # "done" => calls[e].pc # "done" /\ calls'[e].mc = calls[e].mc
                           /\ calls'[e].pc \in StopPcs => calls[e].pc \in StopPcs /\ calls'[e].target = calls[e].target
                           /\ calls[e].pc = "done" => calls'[e].pc = "done" /\ calls'[e].op = calls[e].op
      BY <1>1 DEF Moves, Returns, Kept, StopPcs
    <3> QED
      BY <3>1, <3>2 DEF IInv, Shape, Unmade
  <2>5. OneBoot'
    BY <1>1, <1>0, <1>2 DEF IInv, Shape, OneBoot, BootPcs, StopPcs, Moves, Returns, Kept
  <2>6. Quiet'
    BY <1>1, <1>0, <1>2 DEF IInv, Shape, Quiet, Moves, Returns, Kept
  <2>7. OvertakenOnce'
    BY <1>1, <1>0, <1>2 DEF IInv, Shape, OvertakenOnce, Moves, Returns, Kept
  <2> QED
    BY <2>1, <2>2, <2>3, <2>4, <2>5, <2>6, <2>7 DEF Shape
<1>w. ASSUME ~overtaken PROVE World'
  <2>0. World
    BY <1>1, <1>w DEF IInv
  <2>0a. /\ ~recovering /\ Stopping(c) /\ (machines = Nil \/ machines = calls[c].mc)
         /\ \A h \in Calls : ~Up(h) /\ ~Boots(h)
         /\ \A b \in Calls : calls[b].pc = "begin" => c > b
    BY <1>1, <2>0, AllOver DEF IInv
  <2>1. SameMachine'
    BY <1>1, <2>0, <1>0, <2>0a DEF World, SameMachine, StopPcs, Moves, Returns, Kept
  <2>2. Begins'
    <3> SUFFICES ASSUME NEW b \in Calls, calls'[b].pc = "begin"
                 PROVE  Overtaken(b)' /\ (calls'[b].fresh => mc'[calls'[b].mc].id = Nil)
      BY DEF Begins
    <3>1. b # c /\ Kept(b) /\ calls[b].pc = "begin"
      BY <1>1, <2>0a DEF Returns, Kept
    <3>2. c > b /\ Stopping(c)' /\ calls'[c].pc \notin {"get", "halt"}
      BY <1>1, <2>0a, <3>1 DEF Returns, Stopping
    <3> QED
      BY <1>1, <2>0, <3>1, <3>2 DEF World, Begins, Overtaken, Kept
  <2>3. Waited'
    BY <1>1, <2>0, <1>0, <2>0a DEF World, Waited, Boots, BootPcs, Stopping, Moves, Returns, Kept
  <2>4. Placing'
    BY <1>1, <2>0, <1>0, <2>0a DEF World, Placing, BootPcs, Moves, Returns, Kept, Boots
  <2>5. Running'
    BY <1>1, <2>0, <1>0, <2>0a DEF World, Running, Up, Moves, Returns, Kept
  <2>6. Tracked'
    BY <1>1, <2>0, <1>0, <2>0a DEF World, Tracked
  <2>7. Marked'
    BY <1>1, <2>0, <1>0, <2>0a DEF World, Marked, Moves, Returns, Kept
  <2>8. Stopped'
    BY <1>1, <2>0, <1>0, <2>0a DEF World, Stopped, Up, Stopping, Moves, Returns, Kept
  <2>9. DisksKnown'
    <3>1. \A d \in disks' : \E e \in Calls : calls'[e].pc = "remove" /\ calls'[e].id = d
      BY <1>1, <2>0, <2>0a DEF World, DisksKnown, Boots, BootPcs, Returns, Kept
    <3>2. \A e \in Calls : calls'[e].pc = "forget" => Kept(e)
      BY <1>1 DEF Returns
    <3> QED
      BY <1>1, <2>0, <3>1, <3>2 DEF World, DisksKnown, Kept
  <2> QED
    BY <2>1, <2>2, <2>3, <2>4, <2>5, <2>6, <2>7, <2>8, <2>9 DEF World
<1> QED
  BY <1>1, <1>s, <1>w DEF IInv

\* A machine exits.
LEMMA ExitStep ==
  ASSUME IInv, NEW h \in Calls, Exit(h)
  PROVE  IInv'
<1>0. TypeOK /\ handle[h].state = "up" /\ handle \in [Calls -> Handle]
  BY Types DEF Exit, IInv, Shape
<1>1. /\ handle' \in [Calls -> Handle] /\ handle'[h].state = "exited" /\ handle'[h].disk = handle[h].disk
      /\ handle'[h].mc = handle[h].mc /\ handle'[h].watch = handle[h].watch
      /\ handle'[h].cancelled = FALSE /\ (~handle'[h].guest => handle[h].cancelled)
      /\ handle'[h].reported = handle[h].reported
      /\ \A k \in Calls : k # h => handle'[k] = handle[k]
      /\ calls' = calls
      /\ machines' = machines /\ mc' = mc /\ disks' = disks /\ made' = made /\ recovering' = recovering
      /\ restarts' = restarts /\ overtaken' = overtaken /\ strays' = strays
  <2> DEFINE a == handle[h]
             g == ~a.cancelled
             r == [a EXCEPT !.state = "exited", !.cancelled = FALSE, !.guest = g]
  <2>1. handle' = [handle EXCEPT ![h] = r] /\ a \in Handle
    BY <1>0 DEF Exit
  <2>2. g \in BOOLEAN /\ (~g => a.cancelled)
    BY <2>1 DEF Handle
  <2> HIDE DEF a, g
  <2>3. /\ r \in Handle /\ r.state = "exited" /\ r.disk = a.disk /\ r.mc = a.mc /\ r.watch = a.watch
        /\ r.cancelled = FALSE /\ r.guest = g /\ r.reported = a.reported
    BY <2>1, <2>2 DEF Handle
  <2> HIDE DEF r
  <2>4. handle' \in [Calls -> Handle] /\ handle'[h] = r /\ \A k \in Calls : k # h => handle'[k] = handle[k]
    BY <1>0, <2>1, <2>3
  <2> QED
    BY <2>2, <2>3, <2>4 DEF Exit, a
<1>2. ~handle[h].reported /\ handle[h].watch # "closed" /\ handle[h] # NoHandle
  BY <1>0 DEF IInv, Shape, WatchOK, Up, NoHandle
<1>3. \A k \in Calls : /\ handle'[k].disk = handle[k].disk /\ handle'[k].mc = handle[k].mc
                       /\ handle'[k].watch = handle[k].watch /\ (Up(k)' => Up(k))
  BY <1>0, <1>1 DEF Up
<1>s. Shape'
  <2>1. TypeOK'
    BY <1>1, <1>0, <1>2, <1>3 DEF IInv, Shape, TypeOK, Call, Mc, Handle
  <2>2. RefersOK'
    BY <1>1, <1>0, <1>2, <1>3 DEF IInv, Shape, RefersOK, BootPcs, StopPcs, Stopping
  <2>3. WatchOK'
    BY <1>1, <1>0, <1>2, <1>3 DEF IInv, Shape, WatchOK
  <2>4. Unmade'
    BY <1>1, <1>0, <1>2, <1>3 DEF IInv, Shape, Unmade, StopPcs
  <2>5. OneBoot'
    BY <1>1, <1>0, <1>2, <1>3 DEF IInv, Shape, OneBoot, BootPcs, StopPcs
  <2>6. Quiet'
    BY <1>1, <1>0, <1>2, <1>3 DEF IInv, Shape, Quiet
  <2>7. OvertakenOnce'
    BY <1>1, <1>0, <1>2, <1>3 DEF IInv, Shape, OvertakenOnce
  <2> QED
    BY <2>1, <2>2, <2>3, <2>4, <2>5, <2>6, <2>7 DEF Shape
<1>w. ASSUME ~overtaken PROVE World'
  <2>0. World
    BY <1>1, <1>w DEF IInv
  <2>0a. \A o \in Calls : mc[o].handle # Nil => mc[o].handle \in Calls
    BY <1>0, Types, Numbers DEF Mc
  <2>1. SameMachine'
    BY <1>1, <2>0, <1>0, <1>2, <1>3, <2>0a DEF World, SameMachine, StopPcs
  <2>2. Begins'
    BY <1>1, <2>0, <1>0, <1>2, <1>3, <2>0a DEF World, Begins, Overtaken, Stopping
  <2>3. Waited'
    BY <1>1, <2>0, <1>0, <1>2, <1>3, <2>0a DEF World, Waited, Boots, BootPcs, Stopping
  <2>4. Placing'
    BY <1>1, <2>0, <1>0, <1>2, <1>3, <2>0a DEF World, Placing, BootPcs
  <2>5. Running'
    BY <1>1, <2>0, <1>0, <1>2, <1>3, <2>0a DEF World, Running, Up
  <2>6. Tracked'
    BY <1>1, <2>0, <1>0, <1>2, <1>3, <2>0a DEF World, Tracked
  <2>7. Marked'
    BY <1>1, <2>0, <1>0, <1>2, <1>3, <2>0a DEF World, Marked
  <2>8. Stopped'
    BY <1>1, <2>0, <1>0, <1>2, <1>3, <2>0a DEF World, Stopped, Up, Stopping
  <2>9. DisksKnown'
    BY <1>1, <2>0, <1>0, <1>2, <1>3, <2>0a DEF World, DisksKnown
  <2> QED
    BY <2>1, <2>2, <2>3, <2>4, <2>5, <2>6, <2>7, <2>8, <2>9 DEF World
<1> QED
  BY <1>1, <1>s, <1>w DEF IInv

\* The watch of a machine sees it exit.
LEMMA WatchStep ==
  ASSUME IInv, StrayInv, NEW h \in Calls, Watch(h)
  PROVE  IInv'
<1> DEFINE m == handle[h].mc
           current == mc[m].handle = h
<1>0. /\ TypeOK /\ handle[h].watch = "armed" /\ handle[h].state = "exited" /\ m \in Calls
      /\ handle \in [Calls -> Handle] /\ mc \in [Calls -> Mc] /\ mc[m].halted \in BOOLEAN
  <2>1. handle[h].watch = "armed" /\ handle[h].state = "exited"
    BY DEF Watch
  <2>2. m \in Calls /\ TypeOK
    BY <2>1, WatchedMc DEF IInv, Shape
  <2> QED
    BY <2>1, <2>2, Types DEF Mc
<1>1. /\ handle' \in [Calls -> Handle] /\ handle'[h].state = handle[h].state /\ handle'[h].disk = handle[h].disk
      /\ handle'[h].mc = m /\ handle'[h].watch = "closed"
      /\ handle'[h].cancelled = handle[h].cancelled /\ handle'[h].guest = handle[h].guest
      /\ handle'[h].reported => (current /\ ~mc[m].halted)
      /\ \A k \in Calls : k # h => handle'[k] = handle[k]
      /\ mc' \in [Calls -> Mc] /\ \A o \in Calls : o # m => mc'[o] = mc[o]
      /\ \A o \in Calls : mc'[o].id = mc[o].id /\ mc'[o].booting = mc[o].booting /\ mc'[o].halted = mc[o].halted
      /\ (current => mc'[m].handle = Nil) /\ (~current => mc'[m] = mc[m])
      /\ calls' = calls
      /\ machines' = machines /\ disks' = disks /\ made' = made /\ recovering' = recovering /\ restarts' = restarts
      /\ overtaken' = overtaken /\ strays' = strays
  <2> DEFINE a == handle[h]
             g == current /\ ~mc[m].halted
             r == [a EXCEPT !.watch = "closed", !.reported = g]
             b == mc[m]
             q == [b EXCEPT !.handle = Nil]
  <2>1. handle' = [handle EXCEPT ![h] = r] /\ a \in Handle
    BY <1>0 DEF Watch
  <2>2. g \in BOOLEAN /\ (g => current /\ ~mc[m].halted) /\ b \in Mc
    BY <1>0
  <2>3. (current => mc' = [mc EXCEPT ![m] = q]) /\ (~current => mc' = mc)
    BY <1>0 DEF Watch
  <2> HIDE DEF g, b
  <2>4. a.mc = m
    OBVIOUS
  <2> HIDE DEF a, current, m
  <2>5. /\ r \in Handle /\ r.state = a.state /\ r.disk = a.disk /\ r.mc = a.mc /\ r.watch = "closed"
        /\ r.cancelled = a.cancelled /\ r.guest = a.guest /\ r.reported = g
    BY <2>1, <2>2 DEF Handle
  <2>6. q \in Mc /\ q.handle = Nil /\ q.id = b.id /\ q.booting = b.booting /\ q.halted = b.halted
    BY <2>2, Numbers DEF Mc
  <2> HIDE DEF r, q
  <2>7. handle' \in [Calls -> Handle] /\ handle'[h] = r /\ \A k \in Calls : k # h => handle'[k] = handle[k]
    BY <1>0, <2>1, <2>5
  <2>8. /\ mc' \in [Calls -> Mc] /\ \A o \in Calls : o # m => mc'[o] = mc[o]
        /\ (current => mc'[m] = q) /\ (~current => mc'[m] = mc[m])
    BY <1>0, <2>3, <2>6
  <2>9. /\ \A o \in Calls : mc'[o].id = mc[o].id /\ mc'[o].booting = mc[o].booting /\ mc'[o].halted = mc[o].halted
        /\ (current => mc'[m].handle = Nil) /\ (~current => mc'[m] = mc[m])
    BY <2>6, <2>8 DEF b
  <2>10. handle'[h].reported => (current /\ ~mc[m].halted)
    BY <2>2, <2>5, <2>7
  <2> QED
    BY <2>4, <2>5, <2>7, <2>8, <2>9, <2>10 DEF Watch, a
<1>2. /\ machines # Nil => machines \in Calls
      /\ \A d \in Calls : calls[d].pc # "done" => calls[d].mc \in Calls
      /\ \A d \in Calls : calls[d].pc = "waitBoot" => calls[d].target \in Calls
      /\ \A k \in Calls : handle[k].watch # "none" => handle[k].mc \in Calls
      /\ \A o \in Calls : mc[o].handle # Nil => mc[o].handle \in Calls
  <2>1. \A o \in Calls : mc[o].handle # Nil => mc[o].handle \in Calls
    BY Types, Numbers DEF Mc, IInv, Shape
  <2> QED
    BY <2>1, Referred DEF IInv
<1>3. m = handle[h].mc /\ (current => mc[m].handle = h) /\ (~current => mc[m].handle # h) /\ h # Nil
  BY Numbers
<1> HIDE DEF m, current
<1>4. \A k \in Calls : /\ handle'[k].disk = handle[k].disk /\ handle'[k].mc = handle[k].mc
                       /\ handle'[k].state = handle[k].state /\ handle'[k].guest = handle[k].guest
                       /\ handle'[k].cancelled = handle[k].cancelled
  BY <1>1, <1>3
<1>5. /\ \A o \in Calls : mc'[o].handle # Nil => mc'[o].handle = mc[o].handle
      /\ \A o \in Calls : mc[o].handle \notin {h, Nil} => mc'[o].handle = mc[o].handle
      /\ \A o \in Calls : mc[o].handle = Nil => mc'[o].handle = Nil
      /\ mc'[m].handle # h
  BY <1>0, <1>1, <1>3
<1>s. Shape'
  <2>1. TypeOK'
    BY <1>1, <1>0, <1>3, <1>4 DEF IInv, Shape, TypeOK, Call, Mc, Handle
  <2>2. RefersOK'
    BY <1>1, <1>0, <1>3, <1>4 DEF IInv, Shape, RefersOK, BootPcs, StopPcs, Stopping
  <2>3. WatchOK'
    BY <1>1, <1>0, <1>3, <1>4 DEF IInv, Shape, WatchOK
  <2>4. Unmade'
    <3>1. ASSUME NEW o \in Calls, o > made PROVE handle'[o] = handle[o] /\ mc'[o] = mc[o]
      <4>1. handle[o] = NoHandle /\ mc[o] = NewMachine
        BY <3>1 DEF IInv, Shape, Unmade
      <4>2. o # h
        BY <1>0, <4>1 DEF NoHandle
      <4>3. mc[o].handle = Nil
        BY <4>1 DEF NewMachine
      <4> QED
        BY <1>1, <1>3, <4>2, <4>3
    <3> QED
      BY <1>1, <3>1 DEF IInv, Shape, Unmade
  <2>5. OneBoot'
    BY <1>1, <1>0, <1>3, <1>4 DEF IInv, Shape, OneBoot, BootPcs, StopPcs
  <2>6. Quiet'
    BY <1>1, <1>0, <1>3, <1>4 DEF IInv, Shape, Quiet
  <2>7. OvertakenOnce'
    BY <1>1, <1>0, <1>3, <1>4 DEF IInv, Shape, OvertakenOnce
  <2> QED
    BY <2>1, <2>2, <2>3, <2>4, <2>5, <2>6, <2>7 DEF Shape
<1>w. ASSUME ~overtaken PROVE World'
  <2>0. World
    BY <1>1, <1>w DEF IInv
  <2>1. SameMachine'
    BY <1>1, <2>0, <1>0, <1>2, <1>3, <1>4, <1>5 DEF World, SameMachine, StopPcs
  <2>2. Begins'
    BY <1>1, <2>0, <1>0, <1>2, <1>3, <1>4, <1>5 DEF World, Begins, Overtaken, Stopping
  <2>3. Waited'
    BY <1>1, <2>0, <1>0, <1>2, <1>3, <1>4, <1>5 DEF World, Waited, Boots, BootPcs, Stopping
  <2>4. Placing'
    <3>1. \A b \in Calls : calls[b].pc \in {"placing", "placed"} => machines \in Calls
      BY <2>0, Holds DEF IInv, Boots, BootPcs
    <3>2. machines' = machines /\ disks' = disks /\ calls' = calls
      BY <1>1
    <3>3. \A o \in Calls : mc'[o].id = mc[o].id /\ (mc[o].handle = Nil => mc'[o].handle = Nil)
      BY <1>1, <1>5
    <3> QED
      BY <1>4, <2>0, <3>1, <3>2, <3>3 DEF World, Placing
  <2>5. Running'
    <3>1. \A k \in Calls : Up(k)' => Up(k) /\ k # h
      BY <1>0, <1>1, <1>4 DEF Up
    <3>2. machines # Nil => \A k \in Calls : (k # h /\ mc[machines].handle = k) => mc'[machines].handle = k
      BY <1>2, <1>5, Numbers
    <3> QED
      BY <1>1, <1>4, <2>0, <3>1, <3>2 DEF World, Running
  <2>6. Tracked'
    <3> SUFFICES ASSUME NEW o \in Calls, mc'[o].handle # Nil
                 PROVE  handle'[mc'[o].handle].mc = o /\ handle'[mc'[o].handle].watch = "armed"
      BY DEF Tracked
    <3> DEFINE k == mc[o].handle
    <3>1. mc'[o].handle = k /\ k \in Calls /\ k # Nil
      BY <1>2, <1>5
    <3>2. handle[k].mc = o /\ handle[k].watch = "armed"
      BY <2>0, <3>1 DEF World, Tracked
    <3>3. k # h
      BY <1>3, <1>5, <3>1, <3>2
    <3> QED
      BY <1>1, <3>1, <3>2, <3>3
  <2>7. Marked'
    <3>1. ASSUME NEW k \in Calls, k \notin strays',
                 handle'[k].cancelled \/ (handle'[k].state = "exited" /\ ~handle'[k].guest /\ handle'[k].watch # "closed")
          PROVE  /\ handle'[k].watch # "none"
                 /\ mc'[handle'[k].mc].handle = k => mc'[handle'[k].mc].halted
      <4>1. CASE k = h
        BY <1>1, <1>5, <4>1
      <4>2. CASE k # h
        <5>1. handle'[k] = handle[k]
          BY <1>1, <4>2
        <5>2. handle[k].watch # "none" /\ (mc[handle[k].mc].handle = k => mc[handle[k].mc].halted)
          BY <1>1, <2>0, <3>1, <5>1 DEF World, Marked
        <5>3. handle[k].mc \in Calls /\ k # Nil
          BY <1>2, <5>2, Numbers
        <5> QED
          BY <1>1, <1>5, <5>1, <5>2, <5>3
      <4> QED
        BY <4>1, <4>2
    <3>2. ASSUME NEW k \in Calls, handle'[k].reported PROVE handle'[k].guest
      <4>1. CASE k = h
        <5>1. h \notin strays
          BY <1>0 DEF StrayInv, Unwatched
        <5> QED
          BY <1>0, <1>1, <1>3, <2>0, <3>2, <4>1, <5>1 DEF World, Marked
      <4>2. CASE k # h
        BY <1>1, <2>0, <3>2, <4>2 DEF World, Marked
      <4> QED
        BY <4>1, <4>2
    <3>3. \A c \in Calls : calls'[c].pc = "waitBoot" => mc'[calls'[c].target].halted
      BY <1>1, <1>2, <2>0 DEF World, Marked
    <3> QED
      BY <3>1, <3>2, <3>3 DEF Marked
  <2>8. Stopped'
    BY <1>1, <2>0, <1>0, <1>2, <1>3, <1>4, <1>5 DEF World, Stopped, Up, Stopping
  <2>9. DisksKnown'
    <3>1. DisksKnown /\ calls' = calls /\ disks' = disks /\ machines' = machines /\ recovering' = recovering
      BY <1>1, <2>0 DEF World
    <3>2. /\ \A o \in Calls : mc'[o].id = mc[o].id
          /\ \A k \in Calls : handle'[k].disk = handle[k].disk
      BY <1>1, <1>4
    <3>3. /\ machines # Nil => machines \in Calls
          /\ \A c \in Calls : calls[c].pc = "forget" => calls[c].mc \in Calls
      BY <1>2
    <3> QED
      BY <3>1, <3>2, <3>3 DEF DisksKnown
  <2> QED
    BY <2>1, <2>2, <2>3, <2>4, <2>5, <2>6, <2>7, <2>8, <2>9 DEF World
<1> QED
  BY <1>1, <1>s, <1>w DEF IInv

\* The simulator restarts.
LEMMA RestartStep ==
  ASSUME IInv, Restart
  PROVE  IInv'
<1>0. TypeOK /\ ~overtaken /\ World /\ made \in Nat /\ handle \in [Calls -> Handle] /\ disks \subseteq Calls
  <2>1. TypeOK /\ ~overtaken /\ World
    BY DEF Restart, IInv, Shape
  <2> QED
    BY <2>1, Types, Numbers
<1>1. /\ machines' = Nil /\ disks' = disks /\ made' = made /\ recovering' = TRUE /\ overtaken' = overtaken /\ strays' = strays
      /\ restarts' \in 0 .. MaxRestarts
      /\ mc' \in [Calls -> Mc] /\ calls' \in [Calls -> Call] /\ handle' \in [Calls -> Handle]
      /\ \A c \in Calls : mc'[c] = NewMachine /\ mc'[c].handle = Nil /\ calls'[c].pc = "done" /\ calls'[c].op = "none"
      /\ \A h \in Calls : /\ handle'[h].watch = "none" /\ ~handle'[h].reported /\ ~handle'[h].cancelled
                          /\ handle'[h].state # "exited" /\ (handle'[h].state = "up" => handle[h].state = "up" /\ handle'[h].disk = handle[h].disk)
                          /\ handle[h].state # "up" => handle'[h] = NoHandle
                          /\ handle'[h].disk # Nil => handle'[h].state = "up" /\ handle[h].state = "up"
  <2>1. NewMachine \in Mc /\ NewMachine.handle = Nil
    BY Numbers DEF NewMachine, Mc
  <2>2. NoCall \in Call /\ NoCall.pc = "done" /\ NoCall.op = "none"
    BY Numbers DEF NoCall, Call
  <2>3. mc' = [c \in Calls |-> NewMachine] /\ calls' = [c \in Calls |-> NoCall]
    BY DEF Restart
  <2>4. handle' = [h \in Calls |-> IF handle[h].state = "up"
                       THEN [NoHandle EXCEPT !.state = "up", !.disk = handle[h].disk] ELSE NoHandle]
    BY DEF Restart
  <2>5. ASSUME NEW h \in Calls
        PROVE  /\ handle'[h] \in Handle
               /\ handle'[h].watch = "none" /\ ~handle'[h].reported /\ ~handle'[h].cancelled
               /\ handle'[h].state # "exited" /\ (handle'[h].state = "up" => handle[h].state = "up" /\ handle'[h].disk = handle[h].disk)
               /\ handle[h].state # "up" => handle'[h] = NoHandle
               /\ handle'[h].disk # Nil => handle'[h].state = "up" /\ handle[h].state = "up"
    <3> DEFINE e == handle[h].disk
               n == NoHandle
               r == [n EXCEPT !.state = "up", !.disk = e]
    <3>1. (handle[h].state = "up" => handle'[h] = r) /\ (handle[h].state # "up" => handle'[h] = n) /\ e \in Refs
      BY <1>0, <2>4 DEF Handle
    <3>2. n \in Handle /\ n.watch = "none" /\ n.reported = FALSE /\ n.cancelled = FALSE /\ n.state = "none" /\ n.disk = Nil
      BY Numbers DEF NoHandle, Handle
    <3> HIDE DEF n, e
    <3>3. /\ r \in Handle /\ r.watch = "none" /\ r.reported = FALSE /\ r.cancelled = FALSE /\ r.state = "up"
          /\ r.disk = e
      BY <3>1, <3>2 DEF Handle
    <3> HIDE DEF r
    <3>4. CASE handle[h].state = "up"
      BY <3>1, <3>3, <3>4 DEF e
    <3>5. CASE handle[h].state # "up"
      BY <3>1, <3>2, <3>5 DEF n
    <3> QED
      BY <3>4, <3>5
  <2>6. handle' \in [Calls -> Handle]
    <3>1. handle' = [h \in Calls |-> handle'[h]]
      BY <2>4
    <3> QED
      BY <2>5, <3>1
  <2>7. restarts' \in 0 .. MaxRestarts
    <3>1. restarts < MaxRestarts /\ restarts' = restarts + 1 /\ restarts \in 0 .. MaxRestarts
      BY <1>0, Types DEF Restart
    <3> QED
      BY <3>1, MachineAssumption
  <2> QED
    <3>1. /\ machines' = Nil /\ disks' = disks /\ made' = made /\ recovering' = TRUE
          /\ overtaken' = overtaken /\ strays' = strays
      BY DEF Restart
    <3>2. /\ mc' \in [Calls -> Mc] /\ calls' \in [Calls -> Call]
          /\ \A c \in Calls : mc'[c] = NewMachine /\ calls'[c] = NoCall
      BY <2>1, <2>2, <2>3
    <3>3. \A c \in Calls : mc'[c] = NewMachine /\ mc'[c].handle = Nil /\ calls'[c].pc = "done" /\ calls'[c].op = "none"
      BY <2>1, <2>2, <3>2
    <3> QED
      BY <2>5, <2>6, <2>7, <3>1, <3>2, <3>3
<1>2. machines' <= made /\ machines' \in Refs
  BY <1>0, <1>1, Numbers DEF Nil
<1>s. Shape'
  <2>1. TypeOK'
    BY <1>1, <1>0, <1>2 DEF IInv, Shape, TypeOK, Call, Mc, Handle
  <2>2. RefersOK'
    BY <1>1, <1>0, <1>2 DEF IInv, Shape, RefersOK, BootPcs, StopPcs, Stopping
  <2>3. WatchOK'
    BY <1>1, <1>0, <1>2 DEF IInv, Shape, WatchOK
  <2>4. Unmade'
    BY <1>1, <1>0, <1>2 DEF IInv, Shape, Unmade, StopPcs, Up, NoHandle
  <2>5. OneBoot'
    BY <1>1, <1>0, <1>2 DEF IInv, Shape, OneBoot, BootPcs, StopPcs
  <2>6. Quiet'
    BY <1>1, <1>0, <1>2 DEF IInv, Shape, Quiet
  <2>7. OvertakenOnce'
    BY <1>1, <1>0, <1>2 DEF IInv, Shape, OvertakenOnce
  <2> QED
    BY <2>1, <2>2, <2>3, <2>4, <2>5, <2>6, <2>7 DEF Shape
<1>w. ASSUME ~overtaken PROVE World'
  <2>0. World
    BY <1>1, <1>w DEF IInv
  <2>1. SameMachine'
    BY <1>1, <2>0, <1>0 DEF World, SameMachine, StopPcs
  <2>2. Begins'
    BY <1>1, <2>0, <1>0 DEF World, Begins, Overtaken, Stopping
  <2>3. Waited'
    BY <1>1, <2>0, <1>0 DEF World, Waited, Boots, BootPcs, Stopping, Boots
  <2>4. Placing'
    BY <1>1, <2>0, <1>0 DEF World, Placing, BootPcs
  <2>5. Running'
    BY <1>1, <2>0, <1>0 DEF World, Running, Up
  <2>6. Tracked'
    BY <1>1, <2>0, <1>0 DEF World, Tracked
  <2>7. Marked'
    BY <1>1, <2>0, <1>0 DEF World, Marked
  <2>8. Stopped'
    BY <1>1, <2>0, <1>0 DEF World, Stopped, Up, Stopping
  <2>9. DisksKnown'
    BY <1>1, <2>0, <1>0 DEF World, DisksKnown
  <2> QED
    BY <2>1, <2>2, <2>3, <2>4, <2>5, <2>6, <2>7, <2>8, <2>9 DEF World
<1> QED
  BY <1>1, <1>s, <1>w DEF IInv

\* A step of Adopt publishes a disk the backend holds, with the handle it was
\* given for it or none.
LEMMA AdoptedStep ==
  ASSUME IInv, recovering, NEW h \in Refs,
         calls' = calls, disks' = disks, made' = made, restarts' = restarts, overtaken' = overtaken,
         recovering' \in BOOLEAN, strays' \subseteq Calls, machines' \in disks,
         mc' \in [Calls -> Mc], mc'[machines'].id = machines', mc'[machines'].handle = h,
         \A o \in Calls : o # machines' => mc'[o] = mc[o],
         handle' \in [Calls -> Handle],
         \A k \in Calls : /\ handle'[k].disk = handle[k].disk /\ handle'[k].state = handle[k].state
                          /\ handle'[k].cancelled = handle[k].cancelled /\ handle'[k].guest = handle[k].guest
                          /\ handle'[k].reported = handle[k].reported
                          /\ k # h => handle'[k] = handle[k]
                          /\ k = h => handle'[k].mc = machines' /\ handle'[k].watch = "armed" /\ handle[k].disk # Nil,
         recovering' => h = Nil /\ strays' = strays,
         \A k \in Calls : Up(k)' => Up(k) \/ handle[k].disk \in disks,
         (~overtaken /\ ~recovering') => \A k \in Calls : Up(k)' => k = h
  PROVE  IInv'
<1> DEFINE d == machines'
<1>0. /\ TypeOK /\ made \in Nat /\ d \in Calls /\ d # Nil /\ d <= made /\ (h # Nil => h \in Calls)
      /\ handle \in [Calls -> Handle] /\ mc \in [Calls -> Mc]
  <2>1. TypeOK
    BY DEF IInv, Shape
  <2>1a. disks \subseteq Calls /\ made \in 0 .. MaxCalls
    BY <2>1, Types
  <2>2. made \in Nat /\ d \in Calls /\ d \in disks /\ d \in Nat /\ d # Nil
    BY <2>1a, Numbers
  <2> HIDE DEF d
  <2>3. ~(d > made)
    BY <2>2 DEF IInv, Shape, Unmade
  <2>4. d <= made
    BY <2>2, <2>3
  <2>5. h # Nil => h \in Calls
    BY Numbers
  <2> QED
    BY <2>1, <2>2, <2>4, <2>5, Types
<1>2. \A c \in Calls : /\ calls[c].pc = "done" /\ calls[c].op = "none"
                       /\ handle[c].watch = "none" /\ ~handle[c].reported
                       /\ ~handle[c].cancelled /\ (handle[c].state = "exited" => handle[c].guest)
                       /\ handle[c].disk # Nil => handle[c].state # "none"
  BY DEF IInv, Shape, Quiet, WatchOK
<1>s. Shape'
  <2>1. TypeOK'
    BY <1>0, Numbers DEF IInv, Shape, TypeOK, Call, Mc, Handle
  <2>2. RefersOK'
    BY <1>2 DEF RefersOK, BootPcs, StopPcs
  <2>3. WatchOK'
    BY <1>0, <1>2 DEF WatchOK
  <2>4. Unmade'
    <3>1. ASSUME NEW o \in Calls, o > made PROVE handle'[o] = handle[o] /\ mc'[o] = mc[o]
      <4>1. handle[o] = NoHandle /\ o # d
        BY <1>0, <3>1, Numbers DEF IInv, Shape, Unmade
      <4>2. o # h
        BY <4>1 DEF NoHandle
      <4> QED
        BY <4>1, <4>2
    <3> QED
      BY <1>0, <1>2, <3>1 DEF IInv, Shape, Unmade, StopPcs
  <2>5. OneBoot'
    BY <1>2 DEF OneBoot, BootPcs
  <2>6. Quiet'
    <3> SUFFICES ASSUME recovering' PROVE Quiet'
      BY DEF Quiet
    <3>1. \A k \in Calls : handle'[k] = handle[k]
      BY Numbers
    <3> QED
      BY <1>0, <1>2, <3>1 DEF Quiet
  <2>7. OvertakenOnce'
    BY <1>2 DEF OvertakenOnce
  <2> QED
    BY <2>1, <2>2, <2>3, <2>4, <2>5, <2>6, <2>7 DEF Shape
<1>w. ASSUME ~overtaken PROVE World'
  <2>0. World
    BY <1>w DEF IInv
  <2>0a. \A o \in Calls : mc[o].handle = Nil
    <3>1. \A o \in Calls : mc[o].handle # Nil => mc[o].handle \in Calls
      BY <1>0, Types, Numbers DEF Mc
    <3> QED
      BY <1>2, <2>0, <3>1 DEF World, Tracked
  <2>1. SameMachine'
    BY <1>2 DEF SameMachine, StopPcs
  <2>2. Begins'
    BY <1>2 DEF Begins
  <2>3. Waited'
    BY <1>2 DEF Waited, Boots, BootPcs
  <2>4. Placing'
    BY <1>2 DEF Placing
  <2>5. Running'
    <3>1. \A k \in Calls : Up(k)' => handle'[k].disk \in disks'
      BY <2>0 DEF World, Running
    <3>2. CASE recovering'
      <4>1. \A k \in Calls : Up(k)' => Up(k)
        BY <3>2 DEF Up
      <4> QED
        BY <2>0, <3>1, <3>2, <4>1 DEF World, Running
    <3>3. CASE ~recovering'
      BY <1>0, <1>w, <3>1, <3>3, Numbers DEF Running
    <3> QED
      BY <3>2, <3>3
  <2>6. Tracked'
    BY <1>0, <2>0a DEF Tracked
  <2>7. Marked'
    <3>1. \A k \in Calls : ~handle'[k].cancelled /\ (handle'[k].state = "exited" => handle'[k].guest) /\ ~handle'[k].reported
      BY <1>2
    <3> QED
      BY <1>2, <3>1 DEF Marked
  <2>8. Stopped'
    <3>1. \A c \in Calls : calls'[c].pc = "done"
      BY <1>2
    <3>2. \A c \in Calls : ~Stopping(c)'
      BY DEF IInv, Shape, Quiet, Stopping
    <3> QED
      BY <3>1, <3>2 DEF Stopped
  <2>9. DisksKnown'
    <3>1. \A e \in disks : e = d
      BY <2>0 DEF World, DisksKnown
    <3> QED
      BY <1>0, <1>2, <2>0, <3>1 DEF World, DisksKnown
  <2> QED
    BY <2>1, <2>2, <2>3, <2>4, <2>5, <2>6, <2>7, <2>8, <2>9 DEF World
<1> QED
  BY <1>s, <1>w DEF IInv

\* Adopt publishes the disk it found.
LEMMA AdoptStep ==
  ASSUME IInv, StrayInv, NEW d \in Calls, Adopt(d)
  PROVE  IInv'
<1> DEFINE n == NewMachine
           q == [n EXCEPT !.id = d]
<1>1. /\ TypeOK /\ recovering /\ d \in disks /\ machines' = d /\ mc' = [mc EXCEPT ![d] = q]
      /\ recovering' = (\E k \in Calls : handle[k].disk = d /\ handle[k].state = "up")
      /\ calls' = calls /\ handle' = handle /\ disks' = disks /\ made' = made /\ restarts' = restarts
      /\ overtaken' = overtaken /\ strays' = strays
  BY DEF Adopt, IInv, Shape
<1>2. n \in Mc /\ n.handle = Nil
  BY Numbers DEF NewMachine, Mc
<1> HIDE DEF n
<1>3. q \in Mc /\ q.id = d /\ q.handle = Nil
  BY <1>2, Numbers DEF Mc
<1> HIDE DEF q
<1>4. mc' \in [Calls -> Mc] /\ mc'[d] = q /\ \A o \in Calls : o # d => mc'[o] = mc[o]
  BY <1>1, <1>3, Types
<1>5. ASSUME ~overtaken, ~recovering', NEW k \in Calls PROVE ~Up(k)
  <2>1. World
    BY <1>5 DEF IInv
  <2>2. Up(k) => handle[k].disk = d
    BY <1>1, <2>1 DEF World, Running, DisksKnown
  <2> QED
    BY <1>1, <1>5, <2>2 DEF Up
<1>6. \A k \in Calls : Up(k)' <=> Up(k)
  BY <1>1 DEF Up
<1>7. handle' \in [Calls -> Handle] /\ strays' \subseteq Calls /\ recovering' \in BOOLEAN
  BY <1>1, Types
<1>8. mc'[machines'].id = machines' /\ mc'[machines'].handle = Nil /\ machines' \in disks
  BY <1>1, <1>3, <1>4
<1>9. \A k \in Calls : k # Nil /\ handle'[k] = handle[k]
  BY <1>1, Numbers
<1>10. \A o \in Calls : o # machines' => mc'[o] = mc[o]
  BY <1>1, <1>4
<1>11. Nil \in Refs
  BY Numbers
<1> QED
  BY <1>1, <1>4, <1>5, <1>6, <1>7, <1>8, <1>9, <1>10, <1>11, AdoptedStep

\* What the listing says runs is on the disk that was published, which the
\* backend holds, and is the only machine there.
LEMMA ListedFacts ==
  ASSUME IInv, StrayInv, NEW h \in Calls, Listed(h)
  PROVE  /\ TypeOK /\ recovering /\ machines \in disks /\ machines \in Calls /\ machines # Nil
         /\ mc[machines].id = machines /\ mc[machines].handle = Nil
         /\ handle[h].disk = machines /\ h <= made /\ handle[h].state # "none"
         /\ calls[h].pc = "done" /\ handle[h].watch = "none"
         /\ ~overtaken => \A k \in Calls : Up(k) => k = h
<1>1. /\ TypeOK /\ recovering /\ machines # Nil /\ handle[h].disk = machines
      /\ machines \in disks /\ mc[machines].id = machines /\ mc[machines].handle = Nil
      /\ handle[h].state # "none" /\ calls[h].pc = "done" /\ handle[h].watch = "none"
  BY DEF Listed, IInv, Shape, Quiet
<1>2. machines \in Calls /\ h \in Nat /\ made \in Nat
  BY <1>1, Types, Numbers
<1>3. ~(h > made)
  BY <1>1 DEF IInv, Shape, Unmade, NoHandle
<1>4. ASSUME ~overtaken, NEW k \in Calls, Up(k) PROVE k = h
  <2>1. handle[k].disk = machines
    BY <1>1, <1>4 DEF IInv, World, Running, DisksKnown
  <2> QED
    BY <1>1, <2>1 DEF StrayInv, Alone
<1> QED
  BY <1>1, <1>2, <1>3, <1>4

\* The backend takes the machine over.
LEMMA AdoptTrackStep ==
  ASSUME IInv, StrayInv, NEW h \in Calls, AdoptTrack(h)
  PROVE  IInv'
<1> DEFINE a == handle[h]
           r == [a EXCEPT !.watch = "armed", !.mc = machines]
           x == mc[machines]
           y == [x EXCEPT !.handle = h]
<1>0. /\ TypeOK /\ recovering /\ machines \in disks /\ machines \in Calls /\ machines # Nil
      /\ mc[machines].id = machines /\ handle[h].disk = machines
      /\ ~overtaken => \A k \in Calls : Up(k) => k = h
  BY ListedFacts DEF AdoptTrack
<1>1. /\ machines' = machines /\ mc' = [mc EXCEPT ![machines] = y] /\ handle' = [handle EXCEPT ![h] = r]
      /\ recovering' = FALSE /\ calls' = calls /\ disks' = disks /\ made' = made /\ restarts' = restarts
      /\ overtaken' = overtaken /\ strays' = strays \ {h}
  BY DEF AdoptTrack
<1>2. a \in Handle /\ x \in Mc /\ handle \in [Calls -> Handle] /\ mc \in [Calls -> Mc] /\ h \in Refs
  BY <1>0, Types, Numbers
<1> HIDE DEF a, x
<1>3. /\ r \in Handle /\ r.disk = a.disk /\ r.state = a.state /\ r.cancelled = a.cancelled /\ r.guest = a.guest
      /\ r.reported = a.reported /\ r.mc = machines /\ r.watch = "armed"
  BY <1>0, <1>2, Numbers DEF Handle
<1>4. y \in Mc /\ y.id = x.id /\ y.handle = h
  BY <1>2 DEF Mc
<1> HIDE DEF r, y
<1>5. handle' \in [Calls -> Handle] /\ handle'[h] = r /\ \A k \in Calls : k # h => handle'[k] = handle[k]
  BY <1>1, <1>2, <1>3
<1>6. mc' \in [Calls -> Mc] /\ mc'[machines] = y /\ \A o \in Calls : o # machines => mc'[o] = mc[o]
  BY <1>0, <1>1, <1>2, <1>4
<1>7. \A k \in Calls : /\ handle'[k].disk = handle[k].disk /\ handle'[k].state = handle[k].state
                       /\ handle'[k].cancelled = handle[k].cancelled /\ handle'[k].guest = handle[k].guest
                       /\ handle'[k].reported = handle[k].reported
                       /\ k # h => handle'[k] = handle[k]
                       /\ k = h => handle'[k].mc = machines' /\ handle'[k].watch = "armed" /\ handle[k].disk # Nil
  BY <1>0, <1>1, <1>3, <1>5 DEF a
<1>8. mc'[machines'].id = machines' /\ mc'[machines'].handle = h /\ machines' \in disks
  BY <1>0, <1>1, <1>4, <1>6 DEF x
<1>9. \A k \in Calls : Up(k)' => Up(k) \/ k = h
  BY <1>1, <1>7 DEF Up
<1>10. strays' \subseteq Calls /\ recovering' \in BOOLEAN
  BY <1>0, <1>1, Types
<1>11. \A k \in Calls : Up(k)' => Up(k) \/ handle[k].disk \in disks
  BY <1>0, <1>9
<1>12. \A o \in Calls : o # machines' => mc'[o] = mc[o]
  BY <1>1, <1>6
<1> QED
  BY <1>0, <1>1, <1>2, <1>5, <1>6, <1>7, <1>8, <1>9, <1>10, <1>11, <1>12, AdoptedStep

\* The backend fails to.
LEMMA AdoptFailedStep ==
  ASSUME IInv, StrayInv, NEW h \in Calls, AdoptFailed(h)
  PROVE  IInv'
<1>0. /\ TypeOK /\ recovering /\ machines \in disks /\ machines \in Calls /\ machines # Nil
      /\ mc[machines].id = machines /\ mc[machines].handle = Nil
      /\ ~overtaken => \A k \in Calls : Up(k) => k = h
  BY ListedFacts DEF AdoptFailed
<1>1. /\ machines' = machines /\ mc' = mc /\ handle' = handle
      /\ recovering' = FALSE /\ calls' = calls /\ disks' = disks /\ made' = made /\ restarts' = restarts
      /\ overtaken' = overtaken /\ strays' = strays \cup {h}
  BY DEF AdoptFailed
<1>2. handle' \in [Calls -> Handle] /\ mc' \in [Calls -> Mc] /\ strays' \subseteq Calls /\ Nil \in Refs
  BY <1>0, <1>1, Types, Numbers
<1>3. \A k \in Calls : Up(k)' => Up(k) /\ k # h
  BY <1>1 DEF Up
<1>4. \A k \in Calls : k # Nil /\ handle'[k] = handle[k]
  BY <1>1, Numbers
<1>5. mc'[machines'].id = machines' /\ mc'[machines'].handle = Nil /\ machines' \in disks
  BY <1>0, <1>1
<1>6. (~overtaken /\ ~recovering') => \A k \in Calls : Up(k)' => k = Nil
  BY <1>0, <1>3
<1>7. recovering' \in BOOLEAN /\ (recovering' => Nil = Nil /\ strays' = strays)
  BY <1>1
<1>8. \A o \in Calls : o # machines' => mc'[o] = mc[o]
  BY <1>1
<1> QED
  BY <1>0, <1>1, <1>2, <1>3, <1>4, <1>5, <1>6, <1>7, <1>8, AdoptedStep

\* There is nothing to adopt.
LEMMA NothingFoundStep ==
  ASSUME IInv, NothingFound
  PROVE  IInv'
<1>1. /\ recovering /\ disks = {} /\ recovering' = FALSE /\ calls' = calls
      /\ machines' = machines /\ mc' = mc /\ handle' = handle /\ disks' = disks /\ made' = made
      /\ restarts' = restarts /\ overtaken' = overtaken /\ strays' = strays
  BY DEF NothingFound
<1>2. \A c \in Calls : calls[c].pc = "done"
  BY <1>1 DEF IInv, Shape, Quiet
<1>s. Shape'
  <2>1. TypeOK'
    BY <1>1 DEF IInv, Shape, TypeOK, Call, Mc, Handle
  <2>2. RefersOK'
    BY <1>1 DEF IInv, Shape, RefersOK, BootPcs, StopPcs, Stopping
  <2>3. WatchOK'
    BY <1>1 DEF IInv, Shape, WatchOK
  <2>4. Unmade'
    BY <1>1 DEF IInv, Shape, Unmade, StopPcs
  <2>5. OneBoot'
    BY <1>1 DEF IInv, Shape, OneBoot, BootPcs, StopPcs
  <2>6. Quiet'
    BY <1>1 DEF IInv, Shape, Quiet
  <2>7. OvertakenOnce'
    BY <1>1 DEF IInv, Shape, OvertakenOnce
  <2> QED
    BY <2>1, <2>2, <2>3, <2>4, <2>5, <2>6, <2>7 DEF Shape
<1>w. ASSUME ~overtaken PROVE World'
  <2>0. World
    BY <1>1, <1>w DEF IInv
  <2>0a. \A h \in Calls : ~Up(h)
    BY <1>1, <2>0 DEF World, Running
  <2>1. SameMachine'
    BY <1>1, <2>0, <1>2, <2>0a DEF World, SameMachine, StopPcs
  <2>2. Begins'
    BY <1>1, <2>0, <1>2, <2>0a DEF World, Begins, Overtaken, Stopping
  <2>3. Waited'
    BY <1>1, <2>0, <1>2, <2>0a DEF World, Waited, Boots, BootPcs, Stopping
  <2>4. Placing'
    BY <1>1, <2>0, <1>2, <2>0a DEF World, Placing, BootPcs
  <2>5. Running'
    BY <1>1, <2>0, <1>2, <2>0a DEF World, Running, Up
  <2>6. Tracked'
    BY <1>1, <2>0, <1>2, <2>0a DEF World, Tracked
  <2>7. Marked'
    BY <1>1, <2>0, <1>2, <2>0a DEF World, Marked
  <2>8. Stopped'
    BY <1>1, <2>0, <1>2, <2>0a DEF World, Stopped, Up, Stopping
  <2>9. DisksKnown'
    BY <1>1, <2>0, <1>2, <2>0a DEF World, DisksKnown
  <2> QED
    BY <2>1, <2>2, <2>3, <2>4, <2>5, <2>6, <2>7, <2>8, <2>9 DEF World
<1> QED
  BY <1>1, <1>s, <1>w DEF IInv

\* Nothing happens.
LEMMA StutterStep ==
  ASSUME IInv, UNCHANGED vars
  PROVE  IInv'
<1>1. /\ calls' = calls
      /\ machines' = machines /\ mc' = mc /\ handle' = handle /\ disks' = disks /\ made' = made
      /\ recovering' = recovering /\ restarts' = restarts /\ overtaken' = overtaken /\ strays' = strays
  BY DEF vars
<1>s. Shape'
  <2>1. TypeOK'
    BY <1>1 DEF IInv, Shape, TypeOK, Call, Mc, Handle
  <2>2. RefersOK'
    BY <1>1 DEF IInv, Shape, RefersOK, BootPcs, StopPcs, Stopping
  <2>3. WatchOK'
    BY <1>1 DEF IInv, Shape, WatchOK
  <2>4. Unmade'
    BY <1>1 DEF IInv, Shape, Unmade, StopPcs
  <2>5. OneBoot'
    BY <1>1 DEF IInv, Shape, OneBoot, BootPcs, StopPcs
  <2>6. Quiet'
    BY <1>1 DEF IInv, Shape, Quiet
  <2>7. OvertakenOnce'
    BY <1>1 DEF IInv, Shape, OvertakenOnce
  <2> QED
    BY <2>1, <2>2, <2>3, <2>4, <2>5, <2>6, <2>7 DEF Shape
<1>w. ASSUME ~overtaken PROVE World'
  <2>0. World
    BY <1>1, <1>w DEF IInv
  <2>1. SameMachine'
    BY <1>1, <2>0 DEF World, SameMachine, StopPcs
  <2>2. Begins'
    BY <1>1, <2>0 DEF World, Begins, Overtaken, Stopping
  <2>3. Waited'
    BY <1>1, <2>0 DEF World, Waited, Boots, BootPcs, Stopping
  <2>4. Placing'
    BY <1>1, <2>0 DEF World, Placing, BootPcs
  <2>5. Running'
    BY <1>1, <2>0 DEF World, Running, Up
  <2>6. Tracked'
    BY <1>1, <2>0 DEF World, Tracked
  <2>7. Marked'
    BY <1>1, <2>0 DEF World, Marked
  <2>8. Stopped'
    BY <1>1, <2>0 DEF World, Stopped, Up, Stopping
  <2>9. DisksKnown'
    BY <1>1, <2>0 DEF World, DisksKnown
  <2> QED
    BY <2>1, <2>2, <2>3, <2>4, <2>5, <2>6, <2>7, <2>8, <2>9 DEF World
<1> QED
  BY <1>1, <1>s, <1>w DEF IInv

-----------------------------------------------------------------------------
(* The theorems *)

\* Nothing is there at first.
LEMMA Initially ==
  ASSUME Init
  PROVE  IInv
<1>1. /\ machines = Nil /\ disks = {} /\ made = 0 /\ recovering = FALSE /\ restarts = 0 /\ overtaken = FALSE /\ strays = {}
      /\ mc \in [Calls -> Mc] /\ calls \in [Calls -> Call] /\ handle \in [Calls -> Handle]
      /\ \A c \in Calls : mc[c] = NewMachine /\ mc[c].handle = Nil /\ calls[c].pc = "done" /\ calls[c].op = "none"
      /\ \A h \in Calls : /\ handle[h] = NoHandle /\ handle[h].watch = "none" /\ ~handle[h].reported
                          /\ ~handle[h].cancelled /\ handle[h].state = "none"
  <2>1. NewMachine \in Mc /\ NewMachine.handle = Nil
    BY Numbers DEF NewMachine, Mc
  <2>2. NoCall \in Call /\ NoCall.pc = "done" /\ NoCall.op = "none"
    BY Numbers DEF NoCall, Call
  <2>3. /\ NoHandle \in Handle /\ NoHandle.watch = "none" /\ ~NoHandle.reported /\ ~NoHandle.cancelled
        /\ NoHandle.state = "none"
    BY Numbers DEF NoHandle, Handle
  <2> QED
    BY <2>1, <2>2, <2>3 DEF Init
<1>2. 0 \in 0 .. MaxCalls /\ 0 \in 0 .. MaxRestarts /\ machines <= made
  BY <1>1, MachineAssumption DEF Nil
<1>3. Shape
  <2>1. TypeOK
    BY <1>1, <1>2, Numbers DEF TypeOK, Call, Mc, Handle
  <2>2. RefersOK /\ WatchOK /\ Unmade
    BY <1>1, <1>2 DEF RefersOK, WatchOK, Unmade, BootPcs, StopPcs
  <2>3. OneBoot /\ Quiet /\ OvertakenOnce
    BY <1>1 DEF OneBoot, Quiet, OvertakenOnce, BootPcs
  <2> QED
    BY <2>1, <2>2, <2>3 DEF Shape
<1>4. World
  <2>1. SameMachine /\ Begins /\ Waited /\ Placing
    BY <1>1 DEF SameMachine, Begins, Waited, Placing, Boots, BootPcs, StopPcs
  <2>2. Running /\ Tracked /\ Stopped
    BY <1>1 DEF Running, Tracked, Stopped, Up
  <2>3. Marked /\ DisksKnown
    BY <1>1 DEF Marked, DisksKnown
  <2> QED
    BY <2>1, <2>2, <2>3 DEF World
<1> QED
  BY <1>3, <1>4 DEF IInv

\* Every step keeps the inductive invariant.
LEMMA Inductive ==
  ASSUME IInv, StrayInv, [Next]_vars
  PROVE  IInv'
<1>1. CASE BootLookup
  BY <1>1, BootLookupStep
<1>2. ASSUME NEW op \in {"Halt", "Discard", "Detach"}, Stop(op) PROVE IInv'
  BY <1>2, StopStep
<1>3. ASSUME NEW c \in Calls, BootBegin(c) PROVE IInv'
  BY <1>3, BootRunsStep, BootBeginStep
<1>4. ASSUME NEW c \in Calls, HaltCancel(c) PROVE IInv'
  BY <1>4, HaltFreeStep, HaltCancelStep
<1>5. ASSUME NEW c \in Calls, Placed(c) PROVE IInv'
  BY <1>5, PlacedStep
<1>6. ASSUME NEW c \in Calls, PlaceFailed(c) PROVE IInv'
  BY <1>6, PlaceFailedStep
<1>7. ASSUME NEW c \in Calls, Track(c) PROVE IInv'
  BY <1>7, TrackStep
<1>8. ASSUME NEW c \in Calls, Attach(c) PROVE IInv'
  BY <1>8, AttachStep
<1>9. ASSUME NEW c \in Calls, AwaitReady(c) PROVE IInv'
  BY <1>9, AwaitReadyStep
<1>10. ASSUME NEW c \in Calls, BootReady(c) PROVE IInv'
  BY <1>10, BootReadyStep
<1>11. ASSUME NEW c \in Calls, BootFailed(c) PROVE IInv'
  BY <1>11, BootFailedStep
<1>12. ASSUME NEW c \in Calls, BootStopped(c) PROVE IInv'
  BY <1>12, BootStoppedStep
<1>13. ASSUME NEW c \in Calls, HaltGet(c) PROVE IInv'
  BY <1>13, HaltGetStep
<1>14. ASSUME NEW c \in Calls, HaltMark(c) PROVE IInv'
  BY <1>14, HaltMarkStep
<1>15. ASSUME NEW c \in Calls, HaltReturn(c) PROVE IInv'
  BY <1>15, HaltReturnStep
<1>16. ASSUME NEW c \in Calls, HaltGivesUp(c) PROVE IInv'
  BY <1>16, HaltGivesUpStep
<1>17. ASSUME NEW c \in Calls, DiscardRead(c) PROVE IInv'
  BY <1>17, DiscardReadStep
<1>18. ASSUME NEW c \in Calls, Forget(c) PROVE IInv'
  BY <1>18, ForgetStep
<1>19. ASSUME NEW c \in Calls, Remove(c) PROVE IInv'
  BY <1>19, RemoveStep
<1>20. ASSUME NEW c \in Calls, Release(c) PROVE IInv'
  BY <1>20, ReleaseStep
<1>21. ASSUME NEW c \in Calls, Exit(c) PROVE IInv'
  BY <1>21, ExitStep
<1>22. ASSUME NEW c \in Calls, Watch(c) PROVE IInv'
  BY <1>22, WatchStep
<1>23. ASSUME NEW c \in Calls, Adopt(c) \/ AdoptTrack(c) \/ AdoptFailed(c) PROVE IInv'
  BY <1>23, AdoptStep, AdoptTrackStep, AdoptFailedStep
<1>24. CASE Restart
  BY <1>24, RestartStep
<1>25. CASE NothingFound
  BY <1>25, NothingFoundStep
<1>26. CASE UNCHANGED vars
  BY <1>26, StutterStep
<1> QED
  BY <1>1, <1>2, <1>3, <1>4, <1>5, <1>6, <1>7, <1>8, <1>9, <1>10, <1>11, <1>12, <1>13, <1>14,
     <1>15, <1>16, <1>17, <1>18, <1>19, <1>20, <1>21, <1>22, <1>23, <1>24, <1>25, <1>26 DEF Next

\* A step that no stray notices: none is added, their calls and watches stay,
\* no machine is placed, and the disks only get fewer.
LEMMA StraysKept ==
  ASSUME TypeOK, StrayInv, strays' \subseteq strays, made' \in Nat, made' >= made,
         \A s \in strays : calls'[s].pc = "done" /\ (s \in strays' => handle'[s].watch = "none"),
         \A b \in Calls : calls'[b].pc \in {"placed", "tracked"} => calls[b].pc \in {"placed", "tracked"},
         \A h \in Calls : /\ handle'[h].disk = handle[h].disk
                          /\ handle'[h].state = "up" => handle[h].state = "up",
         disks' \subseteq disks, recovering' => recovering, overtaken => overtaken'
  PROVE  StrayInv'
<1>0. strays \subseteq Calls /\ made \in Nat /\ Calls \subseteq Nat
  BY Types, Numbers
<1>1. Unwatched'
  <2>1. \A s \in strays : s \in Nat /\ s <= made
    BY <1>0 DEF StrayInv, Unwatched
  <2>2. \A s \in strays : s <= made'
    BY <1>0, <2>1
  <2> QED
    BY <2>2 DEF Unwatched
<1>2. TakenOver'
  <2> SUFFICES ASSUME NEW s \in strays', NEW b \in Calls, calls'[b].pc \in {"placed", "tracked"}
               PROVE  handle'[s].disk # handle'[b].disk
    BY DEF TakenOver
  <2>1. s \in strays /\ s \in Calls /\ calls[b].pc \in {"placed", "tracked"}
    BY <1>0
  <2>2. handle[s].disk # handle[b].disk
    BY <2>1 DEF StrayInv, TakenOver
  <2>3. handle'[s].disk = handle[s].disk /\ handle'[b].disk = handle[b].disk
    BY <2>1
  <2> QED
    BY <2>2, <2>3
<1>3. Alone'
  <2>1. CASE recovering'
    BY <2>1 DEF StrayInv, Alone
  <2>2. CASE ~recovering'
    BY <2>2 DEF StrayInv, Alone
  <2> QED
    BY <2>1, <2>2
<1> QED
  BY <1>1, <1>2, <1>3 DEF StrayInv

\* A call under way moves, and nothing else of it matters to the strays.
LEMMA StraysOfCalls ==
  ASSUME IInv, StrayInv, NEW c \in Calls, calls[c].pc # "done", \A e \in Calls : e # c => calls'[e].pc = calls[e].pc,
         calls'[c].pc \in {"placed", "tracked"} => calls[c].pc \in {"placed", "tracked"},
         \A h \in Calls : /\ handle'[h].disk = handle[h].disk /\ handle'[h].state = handle[h].state
                          /\ h # c => handle'[h].watch = handle[h].watch,
         strays' = strays, made' = made, disks' \subseteq disks, recovering' = recovering, overtaken => overtaken'
  PROVE  StrayInv'
<1>1. TypeOK /\ made' \in Nat /\ made' >= made /\ strays \subseteq Calls
  BY Types, Numbers DEF IInv, Shape
<1>2. \A s \in strays : s # c /\ calls'[s].pc = "done" /\ handle'[s].watch = "none"
  BY <1>1 DEF StrayInv, Unwatched
<1>3. \A b \in Calls : calls'[b].pc \in {"placed", "tracked"} => calls[b].pc \in {"placed", "tracked"}
  OBVIOUS
<1> QED
  BY <1>1, <1>2, <1>3, StraysKept

\* The steps of a Boot but for the one that places the machine.
LEMMA StraysOfBoots ==
  ASSUME IInv, StrayInv, NEW c \in Calls,
         \/ BootBegin(c) \/ PlaceFailed(c) \/ Track(c) \/ Attach(c) \/ AwaitReady(c)
         \/ BootReady(c) \/ BootFailed(c) \/ BootStopped(c)
  PROVE  StrayInv'
<1>0. TypeOK /\ calls \in [Calls -> Call] /\ handle \in [Calls -> Handle] /\ OvertakenOnce
  BY Types DEF IInv, Shape
<1>1. /\ calls[c].pc # "done" /\ strays' = strays /\ made' = made /\ disks' \subseteq disks /\ recovering' = recovering
      /\ overtaken => overtaken'
  <2>1. CASE BootBegin(c)
    BY <1>0, <2>1 DEF BootBegin, At, OvertakenOnce
  <2>2. CASE PlaceFailed(c)
    BY <2>2 DEF PlaceFailed, At
  <2>3. CASE Track(c)
    BY <2>3 DEF Track, At
  <2>4. CASE AwaitReady(c)
    BY <2>4 DEF AwaitReady, At
  <2>5. CASE BootReady(c)
    BY <2>5 DEF BootReady, At
  <2>6. CASE BootStopped(c)
    BY <2>6 DEF BootStopped, At
  <2>7. CASE Attach(c)
    BY <2>7 DEF Attach, At
  <2>8. CASE BootFailed(c)
    BY <2>8 DEF BootFailed, At
  <2> QED
    BY <2>1, <2>2, <2>3, <2>4, <2>5, <2>6, <2>7, <2>8
<1>2. /\ \A e \in Calls : e # c => calls'[e].pc = calls[e].pc
      /\ calls'[c].pc \in {"placed", "tracked"} => calls[c].pc \in {"placed", "tracked"}
  <2>1. CASE BootBegin(c)
    <3>1. CASE calls' = Return(c, TRUE)
      BY <1>0, <3>1, ReturnReturns DEF Returns, Kept
    <3>2. CASE calls' = [calls EXCEPT ![c].pc = "placing", ![c].id = KeptDisk(calls[c].mc)]
      <4> DEFINE a == calls[c]
                 k == KeptDisk(calls[c].mc)
                 r == [a EXCEPT !.pc = "placing", !.id = k]
      <4>1. a \in Call /\ calls' = [calls EXCEPT ![c] = r]
        BY <1>0, <3>2
      <4> HIDE DEF a, k
      <4>2. r.pc = "placing"
        BY <4>1 DEF Call
      <4> HIDE DEF r
      <4> QED
        BY <1>0, <4>1, <4>2
    <3> QED
      BY <2>1, <3>1, <3>2 DEF BootBegin
  <2>2. CASE Track(c)
    BY <1>0, <2>2, GotoMoves DEF Track, At, Moves, Kept
  <2>3. CASE PlaceFailed(c) \/ BootReady(c) \/ BootStopped(c)
    BY <1>0, <2>3, ReturnReturns DEF PlaceFailed, BootReady, BootStopped, Returns, Kept
  <2>4. CASE Attach(c) \/ AwaitReady(c) \/ BootFailed(c)
    <3>1. (\E p \in {"stopping", "awaiting", "ready", "failed"} : calls' = Goto(c, p)) \/ calls' = Return(c, FALSE)
      BY <2>4 DEF Attach, AwaitReady, BootFailed
    <3>2. ASSUME NEW p \in {"stopping", "awaiting", "ready", "failed"}, calls' = Goto(c, p)
          PROVE  calls'[c].pc = p /\ \A e \in Calls : e # c => calls'[e].pc = calls[e].pc
      BY <1>0, <3>2, GotoMoves DEF Moves, Kept
    <3>3. CASE calls' = Return(c, FALSE)
      BY <1>0, <3>3, ReturnReturns DEF Returns, Kept
    <3> QED
      BY <3>1, <3>2, <3>3
  <2> QED
    BY <2>1, <2>2, <2>3, <2>4
<1>3. \A h \in Calls : /\ handle'[h].disk = handle[h].disk /\ handle'[h].state = handle[h].state
                       /\ h # c => handle'[h].watch = handle[h].watch
  <2>1. CASE handle' = handle
    BY <2>1
  <2>2. CASE handle' = Cancelled(c)
    BY <1>0, <2>2, CancelChanges
  <2>3. CASE Track(c)
    <3> DEFINE a == handle[c]
               m == calls[c].mc
               r == [a EXCEPT !.watch = "armed", !.mc = m]
    <3>1. a \in Handle /\ handle' = [handle EXCEPT ![c] = r]
      BY <1>0, <2>3 DEF Track
    <3> HIDE DEF a, m
    <3>2. r.disk = a.disk /\ r.state = a.state
      BY <3>1 DEF Handle
    <3> HIDE DEF r
    <3>3. handle'[c] = r /\ \A h \in Calls : h # c => handle'[h] = handle[h]
      BY <1>0, <3>1
    <3> QED
      BY <3>2, <3>3 DEF a
  <2> QED
    BY <2>1, <2>2, <2>3 DEF BootBegin, PlaceFailed, Attach, AwaitReady, BootReady, BootFailed, BootStopped
<1> QED
  BY <1>1, <1>2, <1>3, StraysOfCalls

\* The steps of a stop but for the one that removes the disk.
LEMMA StraysOfStops ==
  ASSUME IInv, StrayInv, NEW c \in Calls,
         \/ HaltGet(c) \/ HaltMark(c) \/ HaltCancel(c) \/ HaltReturn(c) \/ HaltGivesUp(c)
         \/ DiscardRead(c) \/ Forget(c) \/ Release(c)
  PROVE  StrayInv'
<1>0. TypeOK /\ calls \in [Calls -> Call] /\ handle \in [Calls -> Handle] /\ mc \in [Calls -> Mc]
  BY Types DEF IInv, Shape
<1>1. /\ calls[c].pc # "done" /\ strays' = strays /\ made' = made /\ disks' \subseteq disks /\ recovering' = recovering
      /\ overtaken => overtaken'
  <2>1. CASE HaltGet(c)
    BY <2>1 DEF HaltGet
  <2>2. CASE HaltMark(c)
    BY <2>2 DEF HaltMark
  <2>3. CASE HaltCancel(c)
    BY <2>3 DEF HaltCancel
  <2>4. CASE HaltReturn(c)
    BY <2>4 DEF HaltReturn
  <2>5. CASE HaltGivesUp(c)
    BY <2>5 DEF HaltGivesUp
  <2>6. CASE DiscardRead(c)
    BY <2>6 DEF DiscardRead
  <2>7. CASE Forget(c)
    BY <2>7 DEF Forget
  <2>8. CASE Release(c)
    BY <2>8 DEF Release
  <2> QED
    BY <2>1, <2>2, <2>3, <2>4, <2>5, <2>6, <2>7, <2>8
<1>2. Stopping(c)
  <2>1. calls[c].pc \in StopPcs
    BY DEF HaltGet, HaltMark, HaltCancel, HaltReturn, HaltGivesUp, DiscardRead, Forget, Release, StopPcs
  <2> QED
    BY <2>1 DEF IInv, Shape, RefersOK
<1>3. ASSUME calls' = Halted(c)
      PROVE  /\ \A e \in Calls : e # c => calls'[e].pc = calls[e].pc
             /\ calls'[c].pc \notin {"placed", "tracked"}
  BY <1>0, <1>2, <1>3, HaltedGoes DEF Moves, Returns, Kept
<1>4. ASSUME NEW x, NEW r, calls' = [calls EXCEPT ![c] = r], r.pc = x, x \notin {"placed", "tracked"}
      PROVE  /\ \A e \in Calls : e # c => calls'[e].pc = calls[e].pc
             /\ calls'[c].pc \notin {"placed", "tracked"}
  BY <1>0, <1>4
<1>5. /\ \A e \in Calls : e # c => calls'[e].pc = calls[e].pc
      /\ calls'[c].pc \notin {"placed", "tracked"}
  <2> DEFINE a == calls[c]
  <2>0. a \in Call
    BY <1>0
  <2>1. CASE HaltGet(c)
    <3> DEFINE r == [a EXCEPT !.pc = "halt", !.target = machines]
    <3>1. calls' = Halted(c) \/ calls' = [calls EXCEPT ![c] = r]
      BY <2>1 DEF HaltGet
    <3> HIDE DEF a
    <3>2. r.pc = "halt"
      BY <2>0 DEF Call
    <3> HIDE DEF r
    <3> QED
      BY <1>3, <1>4, <3>1, <3>2
  <2>2. CASE HaltMark(c)
    <3> DEFINE g == mc[calls[c].target].booting
               boot == mc[calls[c].target].cancelBoot
               r == [a EXCEPT !.pc = "waitBoot", !.boot = g]
               marked == [calls EXCEPT ![c] = r]
    <3>1. calls' = IF boot = Nil THEN marked ELSE [marked EXCEPT ![boot].ctx = TRUE]
      BY <2>2 DEF HaltMark
    <3>2. boot # Nil => boot \in Calls
      <4>1. calls[c].target \in Calls
        BY <1>0, <2>2, Referred DEF HaltMark, IInv
      <4> QED
        BY <1>0, <4>1, Numbers DEF Mc
    <3>3. g \in Refs
      BY <1>0, <2>2, Referred DEF HaltMark, IInv, Mc
    <3> HIDE DEF a, g, boot
    <3>4. r \in Call /\ r.pc = "waitBoot"
      BY <2>0, <3>3 DEF Call
    <3> HIDE DEF r
    <3>5. /\ marked \in [Calls -> Call] /\ marked[c].pc = "waitBoot"
          /\ \A e \in Calls : e # c => marked[e].pc = calls[e].pc
      BY <1>0, <3>4
    <3> HIDE DEF marked
    <3>6. \A e \in Calls : calls'[e].pc = marked[e].pc
      <4>1. CASE boot = Nil
        BY <3>1, <4>1
      <4>2. CASE boot # Nil
        <5> DEFINE b == marked[boot]
                   q == [b EXCEPT !.ctx = TRUE]
        <5>1. calls' = [marked EXCEPT ![boot] = q] /\ b \in Call
          BY <3>1, <3>2, <3>5, <4>2
        <5> HIDE DEF b
        <5>2. q.pc = b.pc
          BY <5>1 DEF Call
        <5> HIDE DEF q
        <5>3. calls'[boot] = q /\ \A e \in Calls : e # boot => calls'[e] = marked[e]
          BY <3>2, <3>5, <4>2, <5>1
        <5> QED
          BY <5>2, <5>3 DEF b
      <4> QED
        BY <4>1, <4>2
    <3> QED
      BY <3>5, <3>6
  <2>3. CASE HaltCancel(c)
    <3> DEFINE h == mc[calls[c].target].handle
               r == [a EXCEPT !.pc = "waitWatch", !.handle = h]
    <3>1. calls' = Halted(c) \/ calls' = [calls EXCEPT ![c] = r]
      BY <2>3 DEF HaltCancel
    <3> HIDE DEF a, h
    <3>2. r.pc = "waitWatch"
      BY <2>0 DEF Call
    <3> HIDE DEF r
    <3> QED
      BY <1>3, <1>4, <3>1, <3>2
  <2>4. CASE HaltReturn(c)
    BY <1>3, <2>4 DEF HaltReturn
  <2>5. CASE DiscardRead(c)
    <3> DEFINE i == mc[calls[c].mc].id
               r == [a EXCEPT !.pc = "forget", !.id = i]
    <3>1. calls' = [calls EXCEPT ![c] = r]
      BY <2>5 DEF DiscardRead
    <3> HIDE DEF a, i
    <3>2. r.pc = "forget"
      BY <2>0 DEF Call
    <3> HIDE DEF r
    <3> QED
      BY <1>4, <3>1, <3>2
  <2>6. CASE HaltGivesUp(c) \/ Forget(c) \/ Release(c)
    <3>1. CASE calls' = Goto(c, "remove")
      BY <1>0, <3>1, GotoMoves DEF Moves, Kept
    <3>2. ASSUME NEW ok \in BOOLEAN, calls' = Return(c, ok)
          PROVE  calls'[c].pc = "done" /\ \A e \in Calls : e # c => calls'[e].pc = calls[e].pc
      BY <1>0, <3>2, ReturnReturns DEF Returns, Kept
    <3> QED
      BY <2>6, <3>1, <3>2 DEF HaltGivesUp, Forget, Release
  <2> QED
    BY <2>1, <2>2, <2>3, <2>4, <2>5, <2>6
<1>6. \A h \in Calls : /\ handle'[h].disk = handle[h].disk /\ handle'[h].state = handle[h].state
                       /\ handle'[h].watch = handle[h].watch
  <2>1. CASE handle' = handle
    BY <2>1
  <2>2. ASSUME NEW h \in Calls, handle' = Cancelled(h)
        PROVE  \A k \in Calls : /\ handle'[k].disk = handle[k].disk /\ handle'[k].state = handle[k].state
                                /\ handle'[k].watch = handle[k].watch
    BY <1>0, <2>2, CancelChanges
  <2>3. ASSUME HaltCancel(c), handle' # handle PROVE \E h \in Calls : handle' = Cancelled(h)
    <3>1. mc[calls[c].target].handle # Nil /\ handle' = Cancelled(mc[calls[c].target].handle)
      BY <2>3 DEF HaltCancel
    <3>2. calls[c].target \in Calls
      BY <2>3, Referred DEF HaltCancel, IInv
    <3>3. mc[calls[c].target].handle \in Calls
      BY <1>0, <3>1, <3>2, Numbers DEF Mc
    <3> QED
      BY <3>1, <3>3
  <2> QED
    BY <2>1, <2>2, <2>3 DEF HaltGet, HaltMark, HaltReturn, HaltGivesUp, DiscardRead, Forget, Release
<1> QED
  BY <1>1, <1>5, <1>6, StraysOfCalls

\* A call is made.
LEMMA StraysOfNewCalls ==
  ASSUME IInv, StrayInv, BootLookup \/ \E op \in {"Halt", "Discard", "Detach"} : Stop(op)
  PROVE  StrayInv'
<1> DEFINE c == made + 1
<1>0. TypeOK /\ c \in Calls /\ made \in Nat /\ ~recovering /\ calls \in [Calls -> Call] /\ strays \subseteq Calls
  BY NextNumber, Types DEF BootLookup, Stop, IInv, Shape
<1>1. /\ made' = c /\ handle' = handle /\ disks' = disks /\ recovering' = recovering /\ overtaken' = overtaken
      /\ strays' = strays
  BY DEF BootLookup, Stop
<1>2. NoCall \in Call
  BY Numbers DEF NoCall, Call
<1>3. \E r : calls' = [calls EXCEPT ![c] = r] /\ r.pc \in {"begin", "get", "halt"}
  <2>1. CASE BootLookup
    <3> DEFINE m == IF machines = Nil THEN c ELSE machines
               f == machines = Nil
               n == NoCall
               r == [n EXCEPT !.op = "Boot", !.pc = "begin", !.mc = m, !.fresh = f]
    <3>1. calls' = [calls EXCEPT ![c] = r]
      BY <2>1 DEF BootLookup
    <3> HIDE DEF n, m, f
    <3>2. r.pc = "begin"
      BY <1>2 DEF Call, n
    <3> QED
      BY <3>1, <3>2
  <2>2. CASE \E op \in {"Halt", "Discard", "Detach"} : Stop(op)
    <3>1. PICK op \in {"Halt", "Discard", "Detach"} : Stop(op)
      BY <2>2
    <3> DEFINE n == NoCall
               p == IF op = "Discard" THEN "get" ELSE "halt"
               r == [n EXCEPT !.op = op, !.mc = machines, !.target = machines, !.pc = p]
    <3>2. calls' = [calls EXCEPT ![c] = r] /\ p \in {"get", "halt"}
      BY <3>1 DEF Stop
    <3> HIDE DEF n, p
    <3>3. r.pc = p
      BY <1>2 DEF Call, n
    <3> QED
      BY <3>2, <3>3
  <2> QED
    BY <2>1, <2>2
<1>4. PICK r : calls' = [calls EXCEPT ![c] = r] /\ r.pc \in {"begin", "get", "halt"}
  BY <1>3
<1> HIDE DEF c
<1>5. calls'[c] = r /\ \A e \in Calls : e # c => calls'[e] = calls[e]
  BY <1>0, <1>4
<1>6. c \notin strays /\ c \in Nat /\ c >= made
  BY <1>0 DEF StrayInv, Unwatched, c
<1>7. \A s \in strays : calls'[s].pc = "done" /\ handle'[s].watch = "none"
  BY <1>0, <1>1, <1>5, <1>6 DEF StrayInv, Unwatched
<1>8. \A b \in Calls : calls'[b].pc \in {"placed", "tracked"} => calls[b].pc \in {"placed", "tracked"}
  BY <1>4, <1>5
<1> QED
  BY <1>0, <1>1, <1>6, <1>7, <1>8, StraysKept

\* The backend starts a disk, and what ran on it is taken over.
LEMMA StraysOfPlaced ==
  ASSUME IInv, StrayInv, NEW c \in Calls, Placed(c)
  PROVE  StrayInv'
<1> DEFINE d == IF calls[c].id = Nil THEN c ELSE calls[c].id
           a == handle[c]
           r == [a EXCEPT !.state = "up", !.disk = d]
           over == {h \in strays : handle[h].disk = d}
<1>0. /\ Shape /\ TypeOK /\ calls[c].pc = "placing" /\ calls' = Goto(c, "placed")
      /\ handle' = [h \in Calls |-> IF h = c THEN r ELSE IF h \in over THEN NoHandle ELSE handle[h]]
      /\ handle \in [Calls -> Handle] /\ a \in Handle /\ strays \subseteq Calls
      /\ strays' = strays \ over /\ made' = made /\ disks' = disks \cup {d} /\ recovering' = recovering
      /\ overtaken' = overtaken /\ ~recovering /\ (calls[c].id # Nil => d \in disks)
  BY Types DEF Placed, At, IInv, Shape, Quiet
<1>1. /\ \A h \in over : h \in strays /\ handle[h].disk = d
      /\ \A h \in strays : handle[h].disk = d => h \in over
      /\ calls[c].id = Nil => d = c
  OBVIOUS
<1> HIDE DEF a, d, over
<1>2. r.state = "up" /\ r.disk = d
  BY <1>0 DEF Handle
<1> HIDE DEF r
<1>3. /\ handle'[c].state = "up" /\ handle'[c].disk = d
      /\ \A h \in Calls : (h # c /\ h \notin over) => handle'[h] = handle[h]
      /\ \A h \in Calls : (h # c /\ h \in over) => handle'[h] = NoHandle
  BY <1>0, <1>2
<1>4. Moves(c, "placed")
  BY <1>0, GotoMoves
<1>5. \A s \in strays : s # c /\ calls'[s].pc = "done"
  BY <1>0, <1>4 DEF StrayInv, Unwatched, Moves, Kept
<1>6. Unwatched'
  BY <1>0, <1>3, <1>5 DEF StrayInv, Unwatched
<1>7. TakenOver'
  <2> SUFFICES ASSUME NEW s \in strays', NEW b \in Calls, calls'[b].pc \in {"placed", "tracked"}
               PROVE  handle'[s].disk # handle'[b].disk
    BY DEF TakenOver
  <2>1. s \in strays /\ s \notin over /\ s # c /\ s \in Calls /\ handle'[s] = handle[s] /\ handle[s].disk # d
    BY <1>0, <1>1, <1>3, <1>5
  <2>2. CASE b = c
    BY <1>3, <2>1, <2>2
  <2>3. CASE b # c
    <3>1. calls[b].pc \in {"placed", "tracked"} /\ b \notin over
      BY <1>1, <1>4, <2>3 DEF Moves, Kept, StrayInv, Unwatched
    <3> QED
      BY <1>3, <2>1, <2>3, <3>1 DEF StrayInv, TakenOver
  <2> QED
    BY <2>2, <2>3
<1>8. Alone'
  <2> SUFFICES ASSUME ~overtaken, NEW h \in Calls, handle'[h].state = "up", handle'[h].disk \in disks'
               PROVE  h = c
    BY <1>0 DEF Alone
  <2>0. World
    BY DEF IInv
  <2>1. SUFFICES ASSUME h # c PROVE FALSE
    OBVIOUS
  <2>2. h \notin over /\ handle'[h] = handle[h] /\ handle[h].state = "up" /\ handle[h].disk \in disks'
    BY <1>3, <2>1 DEF NoHandle
  <2>3. ~Up(h)
    BY <1>0, <2>0, NoneYet
  <2>4. h \in strays /\ handle[h].disk # d
    BY <1>1, <2>2, <2>3 DEF Up
  <2>5. handle[h].disk \in disks /\ disks \subseteq {calls[c].id} /\ disks \subseteq Calls
    BY <1>0, <2>0, <2>2, <2>4, Types DEF World, Placing
  <2>6. calls[c].id # Nil
    BY <2>5, Numbers
  <2> QED
    BY <2>4, <2>5, <2>6 DEF d
<1> QED
  BY <1>6, <1>7, <1>8 DEF StrayInv

\* A machine exits, or is seen to have, or its disk is removed.
LEMMA StraysOfMachines ==
  ASSUME IInv, StrayInv, NEW c \in Calls, Exit(c) \/ Watch(c) \/ Remove(c)
  PROVE  StrayInv'
<1>0. /\ TypeOK /\ handle \in [Calls -> Handle] /\ strays \subseteq Calls /\ strays' = strays
      /\ made' = made /\ made \in Nat /\ disks' \subseteq disks /\ recovering' = recovering /\ overtaken' = overtaken
  <2>1. /\ strays' = strays /\ made' = made /\ disks' \subseteq disks /\ recovering' = recovering
        /\ overtaken' = overtaken
    <3>1. CASE Exit(c)
      BY <3>1 DEF Exit
    <3>2. CASE Watch(c)
      BY <3>2 DEF Watch
    <3>3. CASE Remove(c)
      BY <3>3 DEF Remove
    <3> QED
      BY <3>1, <3>2, <3>3
  <2>2. TypeOK
    BY DEF IInv, Shape
  <2>3. handle \in [Calls -> Handle] /\ strays \subseteq Calls /\ made \in 0 .. MaxCalls
    BY <2>2, Types
  <2>4. made \in Nat
    BY <2>3, Numbers
  <2> QED
    BY <2>1, <2>2, <2>3, <2>4
<1>1. /\ \A h \in Calls : /\ handle'[h].disk = handle[h].disk
                          /\ handle'[h].state = "up" => handle[h].state = "up"
      /\ \A s \in strays : handle'[s].watch = "none"
  <2>1. CASE Exit(c)
    <3> DEFINE a == handle[c]
               g == ~a.cancelled
               r == [a EXCEPT !.state = "exited", !.cancelled = FALSE, !.guest = g]
    <3>1. a \in Handle /\ handle' = [handle EXCEPT ![c] = r]
      BY <1>0, <2>1 DEF Exit
    <3> HIDE DEF a, g
    <3>2. r.disk = a.disk /\ r.state = "exited" /\ r.watch = a.watch
      BY <3>1 DEF Handle
    <3> HIDE DEF r
    <3>3. handle'[c] = r /\ \A h \in Calls : h # c => handle'[h] = handle[h]
      BY <1>0, <3>1
    <3> QED
      BY <1>0, <3>2, <3>3 DEF a, StrayInv, Unwatched
  <2>2. CASE Watch(c)
    <3> DEFINE a == handle[c]
               g == mc[a.mc].handle = c /\ ~mc[a.mc].halted
               r == [a EXCEPT !.watch = "closed", !.reported = g]
    <3>1. a \in Handle /\ handle' = [handle EXCEPT ![c] = r] /\ c \notin strays
      BY <1>0, <2>2 DEF Watch, StrayInv, Unwatched
    <3> HIDE DEF a, g
    <3>2. r.disk = a.disk /\ r.state = a.state
      BY <3>1 DEF Handle
    <3> HIDE DEF r
    <3>3. handle'[c] = r /\ \A h \in Calls : h # c => handle'[h] = handle[h]
      BY <1>0, <3>1
    <3> QED
      BY <1>0, <3>1, <3>2, <3>3 DEF a, StrayInv, Unwatched
  <2>3. CASE Remove(c)
    <3>1. ASSUME NEW h \in Calls
          PROVE  /\ handle'[h].disk = handle[h].disk /\ handle'[h].watch = handle[h].watch
                 /\ handle'[h].state = "up" => handle[h].state = "up"
      <4> DEFINE a == handle[h]
                 r == [a EXCEPT !.state = "exited", !.cancelled = FALSE]
      <4>1. a \in Handle /\ handle'[h] \in {a, r}
        BY <1>0, <2>3 DEF Remove
      <4> HIDE DEF a
      <4>2. r.disk = a.disk /\ r.state = "exited" /\ r.watch = a.watch
        BY <4>1 DEF Handle
      <4> HIDE DEF r
      <4> QED
        BY <4>1, <4>2 DEF a
    <3> QED
      BY <1>0, <3>1 DEF StrayInv, Unwatched
  <2> QED
    BY <2>1, <2>2, <2>3
<1>2. /\ \A s \in strays : calls'[s].pc = "done"
      /\ \A b \in Calls : calls'[b].pc \in {"placed", "tracked"} => calls[b].pc \in {"placed", "tracked"}
  <2>1. CASE Exit(c) \/ Watch(c)
    BY <2>1 DEF Exit, Watch, StrayInv, Unwatched
  <2>2. CASE Remove(c)
    <3>1. Returns(c, TRUE)
      BY <1>0, <2>2, ReturnReturns DEF Remove
    <3> QED
      BY <1>0, <3>1 DEF Returns, Kept, StrayInv, Unwatched
  <2> QED
    BY <2>1, <2>2
<1> QED
  BY <1>0, <1>1, <1>2, StraysKept

\* The simulator restarts: what runs on a disk it holds is alone there.
LEMMA StraysOfRestart ==
  ASSUME IInv, StrayInv, Restart
  PROVE  StrayInv'
<1>0. /\ TypeOK /\ ~overtaken /\ handle \in [Calls -> Handle] /\ strays \subseteq Calls /\ disks \subseteq Calls
      /\ strays' = strays /\ made' = made /\ disks' = disks /\ calls' = [c \in Calls |-> NoCall]
      /\ handle' = [h \in Calls |-> IF handle[h].state = "up"
                       THEN [NoHandle EXCEPT !.state = "up", !.disk = handle[h].disk] ELSE NoHandle]
  BY Types DEF Restart, IInv, Shape
<1>1. ASSUME NEW h \in Calls
      PROVE  /\ handle'[h].watch = "none" /\ calls'[h].pc = "done"
             /\ handle'[h].disk # Nil => handle[h].state = "up" /\ handle'[h].disk = handle[h].disk
  <2> DEFINE e == handle[h].disk
             n == NoHandle
             r == [n EXCEPT !.state = "up", !.disk = e]
  <2>1. /\ handle[h].state = "up" => handle'[h] = r
        /\ handle[h].state # "up" => handle'[h] = n
        /\ calls'[h].pc = "done" /\ e \in Refs
    BY <1>0 DEF NoCall, Handle
  <2>2. n \in Handle /\ n.watch = "none" /\ n.disk = Nil
    BY Numbers DEF NoHandle, Handle
  <2> HIDE DEF n, e
  <2>3. r.watch = "none" /\ r.disk = e
    BY <2>1, <2>2 DEF Handle
  <2> HIDE DEF r
  <2> QED
    BY <2>1, <2>2, <2>3 DEF e
<1>2. Unwatched'
  BY <1>0, <1>1 DEF StrayInv, Unwatched
<1>3. TakenOver'
  BY <1>1 DEF TakenOver
<1>4. Alone'
  <2>1. ASSUME NEW h \in Calls, NEW k \in Calls, handle'[h].disk \in disks', handle'[k].disk \in disks' PROVE h = k
    <3>1. Nil \notin disks
      BY <1>0, Numbers
    <3>1a. disks' = disks
      BY <1>0
    <3>2. /\ handle[h].state = "up" /\ handle[h].disk \in disks
          /\ handle[k].state = "up" /\ handle[k].disk \in disks
      BY <1>1, <2>1, <3>1, <3>1a
    <3> QED
      BY <1>0, <3>2 DEF StrayInv, Alone
  <2> QED
    BY <2>1 DEF Alone
<1> QED
  BY <1>2, <1>3, <1>4 DEF StrayInv

\* The simulator adopts what it finds.
LEMMA StraysOfAdoption ==
  ASSUME IInv, StrayInv, NEW h \in Calls, Adopt(h) \/ AdoptTrack(h) \/ AdoptFailed(h)
  PROVE  StrayInv'
<1>0. TypeOK /\ recovering /\ handle \in [Calls -> Handle] /\ strays \subseteq Calls /\ made \in Nat
  <2>1. TypeOK /\ recovering
    BY DEF Adopt, AdoptTrack, AdoptFailed, Listed, IInv, Shape
  <2>2. handle \in [Calls -> Handle] /\ strays \subseteq Calls /\ made \in 0 .. MaxCalls
    BY <2>1, Types
  <2>3. made \in Nat
    BY <2>2, Numbers
  <2> QED
    BY <2>1, <2>2, <2>3
<1>1. \A c \in Calls : calls[c].pc = "done"
  BY <1>0 DEF IInv, Shape, Quiet
<1>2. CASE Adopt(h) \/ AdoptTrack(h)
  <2>1. /\ calls' = calls /\ disks' = disks /\ made' = made /\ overtaken' = overtaken /\ strays' \subseteq strays
        /\ AdoptTrack(h) => h \notin strays'
    BY <1>2 DEF Adopt, AdoptTrack
  <2>2. \A k \in Calls : /\ handle'[k].disk = handle[k].disk /\ handle'[k].state = handle[k].state
                         /\ ~(AdoptTrack(h) /\ k = h) => handle'[k].watch = handle[k].watch
    <3>1. CASE Adopt(h)
      BY <3>1 DEF Adopt
    <3>2. CASE AdoptTrack(h)
      <4> DEFINE a == handle[h]
                 r == [a EXCEPT !.watch = "armed", !.mc = machines]
      <4>1. a \in Handle /\ handle' = [handle EXCEPT ![h] = r]
        BY <1>0, <3>2 DEF AdoptTrack
      <4> HIDE DEF a
      <4>2. r.disk = a.disk /\ r.state = a.state
        BY <4>1 DEF Handle
      <4> HIDE DEF r
      <4>3. handle'[h] = r /\ \A k \in Calls : k # h => handle'[k] = handle[k]
        BY <1>0, <4>1
      <4> QED
        BY <3>2, <4>2, <4>3 DEF a
    <3> QED
      BY <1>2, <3>1, <3>2
  <2>3. \A s \in strays : calls'[s].pc = "done" /\ (s \in strays' => handle'[s].watch = "none")
    BY <1>0, <1>1, <2>1, <2>2 DEF StrayInv, Unwatched
  <2> QED
    BY <1>0, <2>1, <2>2, <2>3, StraysKept
<1>3. CASE AdoptFailed(h)
  <2>1. /\ h <= made /\ handle[h].watch = "none" /\ calls' = calls /\ handle' = handle /\ made' = made
        /\ disks' = disks /\ recovering' = FALSE /\ overtaken' = overtaken /\ strays' = strays \cup {h}
    BY <1>3, ListedFacts DEF AdoptFailed
  <2>2. Unwatched'
    BY <1>0, <1>1, <2>1 DEF StrayInv, Unwatched
  <2>3. TakenOver'
    BY <1>1, <2>1 DEF TakenOver
  <2>4. Alone'
    BY <2>1 DEF StrayInv, Alone
  <2> QED
    BY <2>2, <2>3, <2>4 DEF StrayInv
<1> QED
  BY <1>2, <1>3

\* Nothing was failed to be taken over at first.
LEMMA StraysInitially ==
  ASSUME Init
  PROVE  StrayInv
<1>1. strays = {} /\ disks = {}
  BY DEF Init
<1> QED
  BY <1>1 DEF StrayInv, Unwatched, TakenOver, Alone

\* Every step keeps what is known of the strays.
LEMMA StraysInductive ==
  ASSUME IInv, StrayInv, [Next]_vars
  PROVE  StrayInv'
<1>1. CASE BootLookup \/ \E op \in {"Halt", "Discard", "Detach"} : Stop(op)
  BY <1>1, StraysOfNewCalls
<1>2. ASSUME NEW c \in Calls,
             \/ BootBegin(c) \/ Placed(c) \/ PlaceFailed(c) \/ Track(c) \/ Attach(c) \/ AwaitReady(c)
             \/ BootReady(c) \/ BootFailed(c) \/ BootStopped(c)
      PROVE  StrayInv'
  BY <1>2, StraysOfBoots, StraysOfPlaced
<1>3. ASSUME NEW c \in Calls,
             \/ HaltGet(c) \/ HaltMark(c) \/ HaltCancel(c) \/ HaltReturn(c) \/ HaltGivesUp(c)
             \/ DiscardRead(c) \/ Forget(c) \/ Remove(c) \/ Release(c)
      PROVE  StrayInv'
  BY <1>3, StraysOfStops, StraysOfMachines
<1>4. ASSUME NEW c \in Calls, Exit(c) \/ Watch(c) \/ Adopt(c) \/ AdoptTrack(c) \/ AdoptFailed(c) PROVE StrayInv'
  BY <1>4, StraysOfMachines, StraysOfAdoption
<1>5. CASE Restart
  BY <1>5, StraysOfRestart
<1>6. CASE NothingFound \/ UNCHANGED vars
  <2>1. /\ calls' = calls /\ handle' = handle /\ disks' = disks /\ made' = made /\ overtaken' = overtaken
        /\ strays' = strays /\ (recovering' => recovering)
    BY <1>6 DEF NothingFound, vars
  <2> QED
    BY <2>1 DEF StrayInv, Unwatched, TakenOver, Alone
<1> QED
  BY <1>1, <1>2, <1>3, <1>4, <1>5, <1>6 DEF Next

\* The inductive invariant holds in every reachable state.
THEOREM Invariance == Spec => [](IInv /\ StrayInv)
<1>1. Init => IInv /\ StrayInv
  BY Initially, StraysInitially
<1>2. IInv /\ StrayInv /\ [Next]_vars => IInv' /\ StrayInv'
  BY Inductive, StraysInductive
<1> QED
  BY <1>1, <1>2, PTL DEF Spec

\* Every variable keeps its type: what a call, a machine and a handle refer to
\* are calls that were made.
THEOREM TypeCorrect == Spec => []TypeOK
<1>1. IInv => TypeOK
  BY DEF IInv, Shape
<1> QED
  BY <1>1, Invariance, PTL

\* Once a Halt, Discard or Detach returned nil, no machine runs that a Boot
\* called before it has placed, unless a stop overtook a Boot or the simulator
\* failed to take the machine over after a restart.
THEOREM StopsHold == Spec => []StopHolds
<1>1. IInv => StopHolds
  BY DEF IInv, World, Stopped, Up, StopHolds
<1> QED
  BY <1>1, Invariance, PTL

\* GuestShutdown runs for a machine only if it exited without being cancelled.
THEOREM GuestExitsOnly == Spec => []GuestOnly
<1>1. IInv => GuestOnly
  BY DEF IInv, World, Marked, GuestOnly
<1> QED
  BY <1>1, Invariance, PTL

\* What runs is what the manager holds, or is about to, or the simulator has
\* yet to adopt it; of a machine it failed to take over the manager still
\* knows the disk, for the next Boot to take it over or the next Discard to
\* remove, unless the disk was detached.
THEOREM RunningIsReachable == Spec => []Reachable
<1>1. ASSUME IInv, ~overtaken, NEW h \in Calls, Up(h)
      PROVE  \/ recovering
             \/ At(h, "Boot", "placed") /\ calls[h].mc = machines
             \/ machines # Nil /\ mc[machines].handle = h
  <2>1. calls[h].pc = "placed" => At(h, "Boot", "placed") /\ calls[h].mc = machines
    BY <1>1 DEF IInv, Shape, RefersOK, World, Waited, Boots, BootPcs, At
  <2> QED
    BY <1>1, <2>1 DEF IInv, World, Running
<1>1a. ASSUME IInv, StrayInv, ~overtaken, ~recovering, NEW h \in strays, handle[h].disk \in disks
       PROVE  DiskKnown(handle[h].disk)
  <2>1. \A b \in Calls : calls[b].pc \in {"placed", "tracked"} => handle[b].disk # handle[h].disk
    BY <1>1a DEF StrayInv, TakenOver
  <2> QED
    BY <1>1a, <2>1 DEF IInv, World, DisksKnown, DiskKnown
<1>2. IInv /\ StrayInv => Reachable
  BY <1>1, <1>1a DEF Reachable, Up
<1> QED
  BY <1>2, Invariance, PTL

\* The backend never holds two root disks of one machine.
THEOREM DiskIsOne == Spec => []OneDisk
<1>1. ASSUME IInv, ~overtaken PROVE Cardinality(disks) <= 1
  <2>1. \A d, e \in disks : d = e
    BY <1>1 DEF IInv, World, DisksKnown
  <2>2. CASE disks = {}
    BY <2>2, FS_EmptySet
  <2>3. CASE disks # {}
    <3>1. PICK d : disks = {d}
      BY <2>1, <2>3
    <3>2. Cardinality({d}) = 1
      BY FS_Singleton
    <3> QED
      BY <3>1, <3>2
  <2> QED
    BY <2>2, <2>3
<1>2. IInv => OneDisk
  BY <1>1 DEF OneDisk
<1> QED
  BY <1>2, Invariance, PTL

-----------------------------------------------------------------------------
(***************************************************************************)
(* No stop waits in vain.  Halt waits for the Boot in flight and then for   *)
(* the watch of the machine, and a Boot that gives up waits for that watch  *)
(* as well.  That each of these waits ends is a liveness property; what     *)
(* makes it end is an invariant, and holds also when a stop overtook a      *)
(* Boot: the Boot waited for does not wait on its init with a context that  *)
(* is still good, and the machine waited for was told to stop or is gone.   *)
(***************************************************************************)

\* The watch of h has closed, or will: h is watched, and stops or has exited.
Ending(h) ==
    \/ handle[h].watch = "closed"
    \/ handle[h].watch = "armed" /\ (handle[h].cancelled \/ handle[h].state = "exited")

\* How far a Boot can be that still waits for its machine.
Unready == {"placing", "placed", "tracked", "awaiting"}

\* "cancelBoot ends the boot in flight, so a stop never waits one out"
\* (machine.go:95): whoever a stop waits for is on its way out.
NoVainWait ==
    \A c \in Calls :
        /\ (calls[c].pc = "waitBoot" /\ calls[c].boot # Nil) =>
              LET b == calls[c].boot IN
              \/ calls[b].pc = "done"
              \/ /\ calls[b].op = "Boot" /\ calls[b].pc # "begin"
                 /\ calls[b].pc \in Unready => calls[b].ctx
                 /\ calls[b].pc = "stopping" => Ending(b)
        /\ calls[c].pc = "waitWatch" => Ending(calls[c].handle)

\* The Boot a machine names is one, past its first lock, and works on it.
BootKnown ==
    \A m \in Calls : mc[m].booting # Nil =>
        LET b == mc[m].booting IN
        /\ calls[b].op = "Boot" /\ calls[b].pc # "begin"
        /\ calls[b].pc # "done" => calls[b].mc = m

\* A Boot that still waits for its machine can be cancelled, or was.
Cancellable ==
    \A b \in Calls : calls[b].pc \in Unready => mc[calls[b].mc].cancelBoot = b \/ calls[b].ctx

\* The Boot a stop waits for is one, and its context has ended.
BootEnds ==
    \A c \in Calls : (calls[c].pc = "waitBoot" /\ calls[c].boot # Nil) =>
        LET b == calls[c].boot IN
        /\ calls[b].op = "Boot" /\ calls[b].pc # "begin"
        /\ calls[b].pc \in Unready => calls[b].ctx

\* What is watched was placed, and what a machine holds is watched.
WatchedPlaced ==
    /\ \A h \in Calls : /\ handle[h].watch # "none" => handle[h].state # "none"
                        /\ calls[h].pc = "placed" => handle[h].state # "none"
                        /\ calls[h].pc \in BootPcs \ {"begin", "placing", "placed"} => handle[h].watch # "none"
    /\ \A m \in Calls : mc[m].handle # Nil => handle[mc[m].handle].watch # "none"

\* What is waited for ends.
WatchEnds ==
    \A c \in Calls : /\ calls[c].pc = "stopping" => Ending(c)
                     /\ calls[c].pc = "waitWatch" => Ending(calls[c].handle)

Waits == BootKnown /\ Cancellable /\ BootEnds /\ WatchedPlaced /\ WatchEnds

-----------------------------------------------------------------------------
(* What a step does to the waits *)

\* Call c goes on or returns, and takes up no new wait; contexts that ended
\* stay so.
Goes(c) ==
    /\ \A d \in Calls : d # c => Kept(d)
    /\ calls'[c].op = calls[c].op
    /\ calls'[c].pc # "done" => calls[c].pc # "done" /\ calls'[c].mc = calls[c].mc
    /\ calls'[c].pc = "begin" => calls[c].pc = "begin"
    /\ calls'[c].pc \in Unready => calls[c].pc \in Unready
    /\ calls'[c].pc = "waitBoot" => calls[c].pc = "waitBoot" /\ calls'[c].boot = calls[c].boot
    /\ calls'[c].pc = "waitWatch" => calls[c].pc = "waitWatch" /\ calls'[c].handle = calls[c].handle
    /\ \A d \in Calls : calls[d].ctx => calls'[d].ctx \/ calls'[d].pc = "done"

\* Handles of calls under way stay placed, handles stay watched, and what
\* ends goes on ending.
HandlesGo ==
    \A h \in Calls : /\ (calls[h].pc # "done" /\ handle[h].state # "none") => handle'[h].state # "none"
                     /\ handle[h].watch # "none" => handle'[h].watch # "none"
                     /\ Ending(h) => Ending(h)'
                     /\ handle'[h].watch # "none" => handle'[h].state # "none"

\* What such a step asks of the machines and of where c comes to.
MachinesGo(c) ==
    /\ \A m \in Calls : /\ mc'[m].booting = mc[m].booting
                        /\ mc'[m].handle # Nil => handle'[mc'[m].handle].watch # "none"
    /\ \A b \in Calls : (calls'[b].pc \in Unready /\ mc[calls[b].mc].cancelBoot = b) => mc'[calls[b].mc].cancelBoot = b
    /\ calls'[c].pc = "placed" => handle'[c].state # "none"
    /\ calls'[c].pc \in BootPcs \ {"begin", "placing", "placed"} => handle'[c].watch # "none"
    /\ calls'[c].pc = "stopping" => Ending(c)'

\* Such a step keeps what is known of the waits.
LEMMA GoesOn ==
  ASSUME Shape, Waits, NEW c \in Calls, Goes(c), HandlesGo, MachinesGo(c)
  PROVE  Waits'
<1>0. /\ \A m \in Calls : mc[m].booting # Nil => mc[m].booting \in Calls
      /\ \A d \in Calls : calls[d].boot # Nil => calls[d].boot \in Calls
      /\ \A d \in Calls : calls[d].pc = "waitWatch" => calls[d].handle \in Calls
  BY Types, Numbers, Referred DEF Shape, Mc, Call
<1>1. BootKnown'
  <2> SUFFICES ASSUME NEW m \in Calls, mc'[m].booting # Nil
               PROVE  LET b == mc'[m].booting IN
                      /\ calls'[b].op = "Boot" /\ calls'[b].pc # "begin"
                      /\ calls'[b].pc # "done" => calls'[b].mc = m
    BY DEF BootKnown
  <2> DEFINE b == mc'[m].booting
  <2>1. b = mc[m].booting
    BY DEF MachinesGo
  <2> HIDE DEF b
  <2>2. b \in Calls
    BY <1>0, <2>1 DEF b
  <2>3. calls[b].op = "Boot" /\ calls[b].pc # "begin" /\ (calls[b].pc # "done" => calls[b].mc = m)
    BY <2>1 DEF Waits, BootKnown, b
  <2>4. /\ calls'[b].op = calls[b].op /\ (calls'[b].pc = "begin" => calls[b].pc = "begin")
        /\ calls'[b].pc # "done" => calls[b].pc # "done" /\ calls'[b].mc = calls[b].mc
    BY <2>2 DEF Goes, Kept
  <2> QED
    BY <2>3, <2>4 DEF b
<1>2. Cancellable'
  <2> SUFFICES ASSUME NEW b \in Calls, calls'[b].pc \in Unready
               PROVE  mc'[calls'[b].mc].cancelBoot = b \/ calls'[b].ctx
    BY DEF Cancellable
  <2>1. calls[b].pc \in Unready /\ calls'[b].mc = calls[b].mc /\ calls'[b].pc # "done"
    BY DEF Goes, Kept, Unready
  <2>2. mc[calls[b].mc].cancelBoot = b \/ calls[b].ctx
    BY <2>1 DEF Waits, Cancellable
  <2> QED
    BY <2>1, <2>2 DEF Goes, MachinesGo
<1>3. BootEnds'
  <2> SUFFICES ASSUME NEW d \in Calls, calls'[d].pc = "waitBoot", calls'[d].boot # Nil
               PROVE  LET b == calls'[d].boot IN
                      /\ calls'[b].op = "Boot" /\ calls'[b].pc # "begin"
                      /\ calls'[b].pc \in Unready => calls'[b].ctx
    BY DEF BootEnds
  <2> DEFINE b == calls'[d].boot
  <2>1. calls[d].pc = "waitBoot" /\ b = calls[d].boot
    BY DEF Goes, Kept
  <2> HIDE DEF b
  <2>2. b \in Calls
    BY <1>0, <2>1 DEF b
  <2>3. calls[b].op = "Boot" /\ calls[b].pc # "begin" /\ (calls[b].pc \in Unready => calls[b].ctx)
    BY <2>1 DEF Waits, BootEnds, b
  <2>4. /\ calls'[b].op = calls[b].op /\ (calls'[b].pc = "begin" => calls[b].pc = "begin")
        /\ calls'[b].pc \in Unready => calls[b].pc \in Unready /\ calls'[b].pc # "done"
    BY <2>2 DEF Goes, Kept, Unready
  <2>5. calls[b].ctx => calls'[b].ctx \/ calls'[b].pc = "done"
    BY <2>2 DEF Goes
  <2> QED
    BY <2>3, <2>4, <2>5 DEF b
<1>4. WatchedPlaced'
  <2>1. ASSUME NEW h \in Calls
        PROVE  /\ calls'[h].pc = "placed" => handle'[h].state # "none"
               /\ calls'[h].pc \in BootPcs \ {"begin", "placing", "placed"} => handle'[h].watch # "none"
    <3>1. CASE h = c
      BY <3>1 DEF MachinesGo
    <3>2. CASE h # c
      BY <3>2 DEF Goes, Kept, HandlesGo, Waits, WatchedPlaced
    <3> QED
      BY <3>1, <3>2
  <2> QED
    BY <2>1 DEF WatchedPlaced, HandlesGo, MachinesGo
<1>5. WatchEnds'
  <2>1. \A d \in Calls : calls'[d].pc = "stopping" => Ending(d)'
    BY DEF Goes, Kept, HandlesGo, MachinesGo, Waits, WatchEnds
  <2>2. ASSUME NEW d \in Calls, calls'[d].pc = "waitWatch" PROVE Ending(calls[d].handle)'
    <3>1. calls[d].pc = "waitWatch" /\ calls'[d].handle = calls[d].handle
      BY <2>2 DEF Goes, Kept
    <3>2. PICK h \in Calls : h = calls[d].handle
      BY <1>0, <3>1
    <3>3. Ending(h)
      BY <3>1, <3>2 DEF Waits, WatchEnds
    <3>4. Ending(h)'
      BY <3>3 DEF HandlesGo
    <3> QED
      BY <3>1, <3>2, <3>4 DEF Ending
  <2> QED
    BY <2>1, <2>2 DEF WatchEnds
<1> QED
  BY <1>1, <1>2, <1>3, <1>4, <1>5 DEF Waits

\* A call that goes on to where it does not wait.
LEMMA GotoGoes ==
  ASSUME TypeOK, NEW c \in Calls, NEW p, calls' = Goto(c, p), calls[c].pc # "done",
         p \notin {"begin", "waitBoot", "waitWatch"}, p \in Unready => calls[c].pc \in Unready
  PROVE  Goes(c)
<1> DEFINE a == calls[c]
           r == [a EXCEPT !.pc = p]
<1>1. calls \in [Calls -> Call] /\ a \in Call
  BY Types
<1>2. calls' = [calls EXCEPT ![c] = r]
  BY DEF Goto
<1>3. a.pc # "done" /\ (p \in Unready => a.pc \in Unready)
  OBVIOUS
<1> HIDE DEF a
<1>4. r.pc = p /\ r.op = a.op /\ r.mc = a.mc /\ r.ctx = a.ctx
  BY <1>1 DEF Call
<1> HIDE DEF r
<1>5. calls'[c] = r /\ \A d \in Calls : d # c => calls'[d] = calls[d]
  BY <1>1, <1>2
<1>6. \A d \in Calls : calls'[d].ctx = calls[d].ctx
  BY <1>4, <1>5 DEF a
<1>7. \A d \in Calls : d # c => Kept(d)
  BY <1>5 DEF Kept
<1>8. calls'[c].op = calls[c].op /\ calls'[c].mc = calls[c].mc /\ calls'[c].pc = p
  BY <1>4, <1>5 DEF a
<1> QED
  BY <1>3, <1>6, <1>7, <1>8 DEF Goes, a

\* A call that returns.
LEMMA ReturnGoes ==
  ASSUME TypeOK, NEW c \in Calls, NEW ok \in BOOLEAN, calls' = Return(c, ok)
  PROVE  Goes(c) /\ calls'[c].pc = "done"
<1>1. Returns(c, ok)
  BY ReturnReturns
<1>2. \A d \in Calls : d # c => calls'[d] = calls[d]
  BY Types DEF Return
<1> QED
  BY <1>1, <1>2 DEF Goes, Returns, Kept, Unready

\* Halt returned nil.
LEMMA HaltedGoesOn ==
  ASSUME TypeOK, NEW c \in Calls, Stopping(c), calls[c].pc # "done", calls' = Halted(c)
  PROVE  Goes(c) /\ calls'[c].pc \in {"readId", "release", "done"}
<1>1. CASE calls[c].op = "Halt"
  BY <1>1, ReturnGoes DEF Halted
<1>2. CASE calls[c].op = "Discard"
  <2>1. calls' = Goto(c, "readId")
    BY <1>2 DEF Halted
  <2> QED
    BY <2>1, GotoGoes, GotoMoves DEF Moves, Unready
<1>3. CASE calls[c].op = "Detach"
  <2>1. calls' = Goto(c, "release")
    BY <1>3 DEF Halted
  <2> QED
    BY <2>1, GotoGoes, GotoMoves DEF Moves, Unready
<1> QED
  BY <1>1, <1>2, <1>3 DEF Stopping

\* No call moves.
LEMMA StayGoes ==
  ASSUME calls' = calls, NEW c \in Calls
  PROVE  Goes(c)
  BY DEF Goes, Kept

\* A step that leaves the handles and the machines alone, and takes its call
\* to where nothing is asked of either.
LEMMA CallsGo ==
  ASSUME Shape, Waits, NEW c \in Calls, Goes(c), mc' = mc, handle' = handle,
         calls'[c].pc \in {"ready", "failed"} => calls[c].pc = "awaiting",
         calls'[c].pc \notin {"placed", "tracked", "awaiting", "stopping"}
  PROVE  Waits'
<1>1. HandlesGo
  BY DEF HandlesGo, Ending, Waits, WatchedPlaced
<1>2. MachinesGo(c)
  BY DEF MachinesGo, Waits, WatchedPlaced, BootPcs, Unready
<1> QED
  BY <1>1, <1>2, GoesOn

\* The steps that only move their call.
LEMMA CallsGoSteps ==
  ASSUME IInv, Waits, NEW c \in Calls,
         \/ BootBegin(c) /\ Runs(calls[c].mc)
         \/ PlaceFailed(c) \/ AwaitReady(c) \/ BootStopped(c) \/ HaltGet(c) \/ HaltReturn(c) \/ HaltGivesUp(c)
         \/ DiscardRead(c) \/ Forget(c) \/ Release(c)
         \/ HaltCancel(c) /\ mc[calls[c].target].handle = Nil
  PROVE  Waits'
<1>0. Shape /\ TypeOK /\ calls \in [Calls -> Call]
  BY Types DEF IInv, Shape
<1>s. calls[c].pc \in StopPcs => Stopping(c) /\ calls[c].pc # "done"
  BY <1>0 DEF Shape, RefersOK, StopPcs
<1>1. ASSUME NEW ok \in BOOLEAN, calls' = Return(c, ok), mc' = mc, handle' = handle PROVE Waits'
  BY <1>0, <1>1, ReturnGoes, CallsGo
<1>2. ASSUME calls' = Halted(c), calls[c].pc \in StopPcs, mc' = mc, handle' = handle PROVE Waits'
  BY <1>0, <1>s, <1>2, HaltedGoesOn, CallsGo
<1>3. ASSUME NEW p \in {"ready", "failed", "remove"}, calls' = Goto(c, p), mc' = mc, handle' = handle,
             p # "remove" => calls[c].pc = "awaiting", calls[c].pc # "done"
      PROVE  Waits'
  <2>1. Goes(c)
    BY <1>0, <1>3, GotoGoes DEF Unready
  <2>2. calls'[c].pc = p
    BY <1>0, <1>3, GotoMoves DEF Moves
  <2> QED
    BY <1>0, <1>3, <2>1, <2>2, CallsGo
<1>4. CASE BootBegin(c) /\ Runs(calls[c].mc)
  BY <1>1, <1>4 DEF BootBegin
<1>5. CASE PlaceFailed(c)
  BY <1>1, <1>5 DEF PlaceFailed
<1>6. CASE AwaitReady(c)
  BY <1>3, <1>6 DEF AwaitReady, At
<1>7. CASE BootStopped(c)
  BY <1>1, <1>7 DEF BootStopped
<1>8. CASE HaltReturn(c)
  BY <1>2, <1>8 DEF HaltReturn, StopPcs
<1>9. CASE HaltGivesUp(c)
  BY <1>1, <1>9 DEF HaltGivesUp
<1>10. CASE HaltCancel(c) /\ mc[calls[c].target].handle = Nil
  BY <1>2, <1>10 DEF HaltCancel, StopPcs
<1>11. CASE Forget(c)
  BY <1>1, <1>3, <1>11 DEF Forget
<1>12. CASE Release(c)
  BY <1>1, <1>12 DEF Release
<1>13. CASE HaltGet(c)
  <2>1. CASE machines = Nil
    BY <1>2, <1>13, <2>1 DEF HaltGet, StopPcs
  <2>2. CASE machines # Nil
    <3> DEFINE a == calls[c]
               r == [a EXCEPT !.pc = "halt", !.target = machines]
    <3>1. calls' = [calls EXCEPT ![c] = r] /\ mc' = mc /\ handle' = handle /\ a.pc = "get" /\ a \in Call
      BY <1>0, <1>13, <2>2 DEF HaltGet
    <3> HIDE DEF a
    <3>2. r.pc = "halt" /\ r.op = a.op /\ r.mc = a.mc /\ r.ctx = a.ctx
      BY <3>1 DEF Call
    <3> HIDE DEF r
    <3>3. calls'[c] = r /\ \A d \in Calls : d # c => calls'[d] = calls[d]
      BY <1>0, <3>1
    <3>4. Goes(c) /\ calls'[c].pc = "halt"
      BY <3>1, <3>2, <3>3 DEF Goes, Kept, Unready, a
    <3> QED
      BY <1>0, <3>1, <3>4, CallsGo
  <2> QED
    BY <2>1, <2>2
<1>14. CASE DiscardRead(c)
  <2> DEFINE a == calls[c]
             i == mc[a.mc].id
             r == [a EXCEPT !.pc = "forget", !.id = i]
  <2>1. calls' = [calls EXCEPT ![c] = r] /\ mc' = mc /\ handle' = handle /\ a.pc = "readId" /\ a \in Call
    BY <1>0, <1>14 DEF DiscardRead
  <2> HIDE DEF a, i
  <2>2. r.pc = "forget" /\ r.op = a.op /\ r.mc = a.mc /\ r.ctx = a.ctx
    BY <2>1 DEF Call
  <2> HIDE DEF r
  <2>3. calls'[c] = r /\ \A d \in Calls : d # c => calls'[d] = calls[d]
    BY <1>0, <2>1
  <2>4. Goes(c) /\ calls'[c].pc = "forget"
    BY <2>1, <2>2, <2>3 DEF Goes, Kept, Unready, a
  <2> QED
    BY <1>0, <2>1, <2>4, CallsGo
<1> QED
  BY <1>4, <1>5, <1>6, <1>7, <1>8, <1>9, <1>10, <1>11, <1>12, <1>13, <1>14

\* The machine is placed, or its disk restarted.
LEMMA PlacedWaits ==
  ASSUME IInv, StrayInv, Waits, NEW c \in Calls, Placed(c)
  PROVE  Waits'
<1> DEFINE d == IF calls[c].id = Nil THEN c ELSE calls[c].id
           a == handle[c]
           r == [a EXCEPT !.state = "up", !.disk = d]
           over == {h \in strays : handle[h].disk = d}
<1>0. /\ Shape /\ TypeOK /\ calls[c].pc = "placing" /\ calls' = Goto(c, "placed") /\ mc' = mc
      /\ handle' = [h \in Calls |-> IF h = c THEN r ELSE IF h \in over THEN NoHandle ELSE handle[h]]
      /\ handle \in [Calls -> Handle] /\ a \in Handle /\ a.watch = "none"
  BY Types DEF Placed, At, IInv, Shape, RefersOK
<1>0a. \A h \in over : calls[h].pc = "done" /\ handle[h].watch = "none"
  BY DEF StrayInv, Unwatched
<1> HIDE DEF a, d, over
<1>1. r.state = "up" /\ r.watch = a.watch
  BY <1>0 DEF Handle
<1> HIDE DEF r
<1>2. /\ handle'[c] = r
      /\ \A h \in Calls : h # c => handle'[h] = handle[h] \/ (h \in over /\ handle'[h] = NoHandle)
  BY <1>0
<1>3. HandlesGo
  <2>1. /\ handle'[c].state # "none" /\ handle[c].watch = "none" /\ handle'[c].watch = "none" /\ ~Ending(c)
    BY <1>0, <1>1, <1>2 DEF Ending, a
  <2>2. NoHandle.watch = "none"
    BY DEF NoHandle
  <2>3. ASSUME NEW h \in Calls, h # c
        PROVE  /\ (calls[h].pc # "done" /\ handle[h].state # "none") => handle'[h].state # "none"
               /\ handle[h].watch # "none" => handle'[h].watch # "none"
               /\ Ending(h) => Ending(h)'
               /\ handle'[h].watch # "none" => handle'[h].state # "none"
    <3>1. CASE handle'[h] = handle[h]
      BY <3>1 DEF Ending, Waits, WatchedPlaced
    <3>2. CASE h \in over /\ handle'[h] = NoHandle
      BY <1>0a, <2>2, <3>2 DEF Ending
    <3> QED
      BY <1>2, <2>3, <3>1, <3>2
  <2> QED
    BY <2>1, <2>3 DEF HandlesGo
<1>4. Goes(c) /\ calls'[c].pc = "placed"
  BY <1>0, GotoGoes, GotoMoves DEF Unready, Moves
<1>5. MachinesGo(c)
  <2>1. \A m \in Calls : mc[m].handle # Nil => mc[m].handle \in Calls
    BY <1>0, Types, Numbers DEF Mc
  <2>2. \A m \in Calls : mc'[m].handle # Nil => handle'[mc'[m].handle].watch # "none"
    BY <1>0, <1>3, <2>1 DEF HandlesGo, Waits, WatchedPlaced
  <2> QED
    BY <1>0, <1>1, <1>2, <1>4, <2>2 DEF MachinesGo
<1> QED
  BY <1>0, <1>3, <1>4, <1>5, GoesOn

\* The machine is watched.
LEMMA TrackWaits ==
  ASSUME IInv, Waits, NEW c \in Calls, Track(c)
  PROVE  Waits'
<1> DEFINE m == calls[c].mc
           a == handle[c]
           r == [a EXCEPT !.watch = "armed", !.mc = m]
           x == mc[m]
           y == [x EXCEPT !.handle = c]
<1>0. /\ Shape /\ TypeOK /\ calls[c].pc = "placed" /\ calls' = Goto(c, "tracked")
      /\ handle' = [handle EXCEPT ![c] = r] /\ handle \in [Calls -> Handle] /\ a \in Handle /\ a.watch = "none"
      /\ mc' = [mc EXCEPT ![m] = y]
  BY Types DEF Track, At, IInv, Shape, RefersOK
<1>0a. m \in Calls /\ mc \in [Calls -> Mc] /\ x \in Mc /\ a.state # "none"
  BY <1>0, Types, CallMachine DEF Waits, WatchedPlaced
<1> HIDE DEF a, m, x
<1>1. r.state = a.state /\ r.watch = "armed"
  BY <1>0 DEF Handle
<1>1a. y.handle = c /\ y.booting = x.booting /\ y.cancelBoot = x.cancelBoot
  BY <1>0a DEF Mc
<1> HIDE DEF r, y
<1>2. handle'[c] = r /\ \A h \in Calls : h # c => handle'[h] = handle[h]
  BY <1>0
<1>2a. mc'[m] = y /\ \A o \in Calls : o # m => mc'[o] = mc[o]
  BY <1>0, <1>0a
<1>3. HandlesGo
  <2>1. /\ handle'[c].state # "none" /\ handle'[c].watch # "none" /\ ~Ending(c)
    BY <1>0, <1>0a, <1>1, <1>2 DEF Ending, a
  <2>2. \A h \in Calls : h # c => (Ending(h) <=> Ending(h)')
    BY <1>2 DEF Ending
  <2> QED
    BY <1>2, <2>1, <2>2 DEF HandlesGo, Waits, WatchedPlaced
<1>4. Goes(c) /\ calls'[c].pc = "tracked"
  BY <1>0, GotoGoes, GotoMoves DEF Unready, Moves
<1>5. MachinesGo(c)
  <2>1. \A o \in Calls : mc[o].handle # Nil => mc[o].handle \in Calls
    BY <1>0, Types, Numbers DEF Mc
  <2>2. \A o \in Calls : mc[o].handle # Nil => handle'[mc[o].handle].watch # "none"
    BY <1>3, <2>1 DEF HandlesGo, Waits, WatchedPlaced
  <2>3. handle'[c].watch # "none"
    BY <1>1, <1>2
  <2>4. \A o \in Calls : mc'[o].handle # Nil => handle'[mc'[o].handle].watch # "none"
    BY <1>1a, <1>2a, <2>2, <2>3
  <2>5. \A o \in Calls : mc'[o].booting = mc[o].booting /\ mc'[o].cancelBoot = mc[o].cancelBoot
    BY <1>1a, <1>2a DEF x
  <2>6. \A b \in Calls : calls'[b].pc \in Unready => calls[b].mc \in Calls
    BY <1>0, <1>4, Referred DEF Goes, Kept, Unready
  <2> QED
    BY <1>4, <2>3, <2>4, <2>5, <2>6 DEF MachinesGo
<1> QED
  BY <1>0, <1>3, <1>4, <1>5, GoesOn

\* What is cancelled ends.
LEMMA CancelEnds ==
  ASSUME Shape, Waits, NEW h \in Calls, handle' = Cancelled(h)
  PROVE  HandlesGo /\ (handle[h].watch # "none" => Ending(h)')
<1>1. /\ handle \in [Calls -> Handle] /\ TypeOK
      /\ \A k \in Calls : handle'[k].state = handle[k].state /\ handle'[k].watch = handle[k].watch
      /\ \A k \in Calls : k # h => handle'[k] = handle[k]
  BY CancelChanges, Types DEF Shape
<1>2. handle[h].cancelled => handle'[h].cancelled
  BY <1>1 DEF Cancelled
<1>3. \A k \in Calls : Ending(k) => Ending(k)'
  BY <1>1, <1>2 DEF Ending
<1>4. HandlesGo
  BY <1>1, <1>3 DEF HandlesGo, Waits, WatchedPlaced
<1>5. ASSUME handle[h].watch # "none" PROVE Ending(h)'
  <2>1. handle[h].state # "none" /\ handle[h].state \in {"none", "up", "exited"} /\ handle[h].watch \in {"none", "armed", "closed"}
    BY <1>1, <1>5 DEF Waits, WatchedPlaced, Handle
  <2>2. handle[h].state = "up" => handle'[h].cancelled
    BY <1>1 DEF Cancelled, Handle
  <2> QED
    BY <1>1, <1>5, <2>1, <2>2 DEF Ending
<1> QED
  BY <1>4, <1>5

\* What a machine holds stays watched.
LEMMA HeldWatched ==
  ASSUME Shape, Waits, HandlesGo, NEW m \in Calls, mc[m].handle # Nil
  PROVE  handle'[mc[m].handle].watch # "none"
<1>1. mc[m].handle \in Calls
  BY Types, Numbers DEF Shape, Mc
<1> QED
  BY <1>1 DEF HandlesGo, Waits, WatchedPlaced

\* The handle is attached.
LEMMA AttachWaits ==
  ASSUME IInv, Waits, NEW c \in Calls, Attach(c)
  PROVE  Waits'
<1> DEFINE m == calls[c].mc
           x == mc[m]
           d == handle[c].disk
           y == [x EXCEPT !.id = d]
<1>0. /\ Shape /\ TypeOK /\ calls[c].pc = "tracked" /\ m \in Calls /\ mc \in [Calls -> Mc] /\ x \in Mc
      /\ mc' = [mc EXCEPT ![m] = y] /\ handle[c].watch # "none"
  BY Types, CallMachine DEF Attach, At, IInv, Shape, Waits, WatchedPlaced, BootPcs
<1>1. \/ handle' = Cancelled(c) /\ calls' = Goto(c, "stopping")
      \/ handle' = handle /\ calls' = Goto(c, "awaiting")
  BY DEF Attach
<1> HIDE DEF m, x, d
<1>2. y.handle = x.handle /\ y.booting = x.booting /\ y.cancelBoot = x.cancelBoot
  BY <1>0 DEF Mc
<1> HIDE DEF y
<1>3. mc'[m] = y /\ \A o \in Calls : o # m => mc'[o] = mc[o]
  BY <1>0
<1>4. /\ \A o \in Calls : mc'[o].handle = mc[o].handle /\ mc'[o].booting = mc[o].booting
      /\ \A o \in Calls : mc'[o].cancelBoot = mc[o].cancelBoot
  BY <1>2, <1>3 DEF x
<1>5. HandlesGo /\ (handle' = Cancelled(c) => Ending(c)')
  <2>1. CASE handle' = Cancelled(c)
    BY <1>0, <2>1, CancelEnds
  <2>2. CASE handle' = handle /\ handle' # Cancelled(c)
    BY <2>2 DEF HandlesGo, Ending, Waits, WatchedPlaced
  <2> QED
    BY <1>1, <2>1, <2>2
<1>6. Goes(c) /\ calls'[c].pc \in {"stopping", "awaiting"} /\ (calls'[c].pc = "stopping" => handle' = Cancelled(c))
  <2>1. CASE handle' = Cancelled(c) /\ calls' = Goto(c, "stopping")
    BY <1>0, <2>1, GotoGoes, GotoMoves DEF Unready, Moves
  <2>2. CASE handle' = handle /\ calls' = Goto(c, "awaiting")
    BY <1>0, <2>2, GotoGoes, GotoMoves DEF Unready, Moves
  <2> QED
    BY <1>1, <2>1, <2>2
<1>7. MachinesGo(c)
  <2>1. \A o \in Calls : mc'[o].handle # Nil => handle'[mc'[o].handle].watch # "none"
    BY <1>0, <1>4, <1>5, HeldWatched
  <2>2. \A b \in Calls : calls'[b].pc \in Unready => calls[b].mc \in Calls
    BY <1>0, <1>6, Referred DEF Goes, Kept, Unready
  <2>3. handle'[c].watch # "none"
    BY <1>0, <1>5 DEF HandlesGo
  <2> QED
    BY <1>4, <1>5, <1>6, <2>1, <2>2, <2>3 DEF MachinesGo
<1> QED
  BY <1>0, <1>5, <1>6, <1>7, GoesOn

\* The machine never became ready.
LEMMA BootFailedWaits ==
  ASSUME IInv, Waits, NEW c \in Calls, BootFailed(c)
  PROVE  Waits'
<1> DEFINE m == calls[c].mc
           x == mc[m]
           y == [x EXCEPT !.halted = TRUE]
<1>0. /\ Shape /\ TypeOK /\ calls[c].pc = "failed" /\ m \in Calls /\ mc \in [Calls -> Mc] /\ x \in Mc
      /\ mc' = [mc EXCEPT ![m] = y] /\ handle[c].watch # "none"
  BY Types, CallMachine DEF BootFailed, At, IInv, Shape, Waits, WatchedPlaced, BootPcs
<1>1. \/ handle' = Cancelled(c) /\ calls' = Goto(c, "stopping")
      \/ handle' = handle /\ calls' = Return(c, FALSE)
  BY DEF BootFailed
<1> HIDE DEF m, x
<1>2. y.handle = x.handle /\ y.booting = x.booting /\ y.cancelBoot = x.cancelBoot
  BY <1>0 DEF Mc
<1> HIDE DEF y
<1>3. mc'[m] = y /\ \A o \in Calls : o # m => mc'[o] = mc[o]
  BY <1>0
<1>4. /\ \A o \in Calls : mc'[o].handle = mc[o].handle /\ mc'[o].booting = mc[o].booting
      /\ \A o \in Calls : mc'[o].cancelBoot = mc[o].cancelBoot
  BY <1>2, <1>3 DEF x
<1>5. HandlesGo /\ (handle' = Cancelled(c) => Ending(c)')
  <2>1. CASE handle' = Cancelled(c)
    BY <1>0, <2>1, CancelEnds
  <2>2. CASE handle' = handle /\ handle' # Cancelled(c)
    BY <2>2 DEF HandlesGo, Ending, Waits, WatchedPlaced
  <2> QED
    BY <1>1, <2>1, <2>2
<1>6. Goes(c) /\ calls'[c].pc \in {"stopping", "done"} /\ (calls'[c].pc = "stopping" => handle' = Cancelled(c))
  <2>1. CASE handle' = Cancelled(c) /\ calls' = Goto(c, "stopping")
    BY <1>0, <2>1, GotoGoes, GotoMoves DEF Unready, Moves
  <2>2. CASE handle' = handle /\ calls' = Return(c, FALSE)
    BY <1>0, <2>2, ReturnGoes
  <2> QED
    BY <1>1, <2>1, <2>2
<1>7. MachinesGo(c)
  <2>1. \A o \in Calls : mc'[o].handle # Nil => handle'[mc'[o].handle].watch # "none"
    BY <1>0, <1>4, <1>5, HeldWatched
  <2>2. \A b \in Calls : calls'[b].pc \in Unready => calls[b].mc \in Calls
    BY <1>0, <1>6, Referred DEF Goes, Kept, Unready
  <2>3. handle'[c].watch # "none"
    BY <1>0, <1>5 DEF HandlesGo
  <2> QED
    BY <1>4, <1>5, <1>6, <2>1, <2>2, <2>3 DEF MachinesGo
<1> QED
  BY <1>0, <1>5, <1>6, <1>7, GoesOn

\* The Boot that became ready can no longer be cancelled, and returns.
LEMMA BootReadyWaits ==
  ASSUME IInv, Waits, NEW c \in Calls, BootReady(c)
  PROVE  Waits'
<1> DEFINE m == calls[c].mc
           x == mc[m]
           y == [x EXCEPT !.cancelBoot = Nil]
<1>0. /\ Shape /\ TypeOK /\ calls[c].pc = "ready" /\ m \in Calls /\ mc \in [Calls -> Mc] /\ x \in Mc
      /\ mc' = [mc EXCEPT ![m] = y] /\ handle' = handle /\ calls' = Return(c, TRUE)
  BY Types, CallMachine DEF BootReady, At, IInv, Shape
<1> HIDE DEF m, x
<1>1. y.handle = x.handle /\ y.booting = x.booting
  BY <1>0 DEF Mc
<1> HIDE DEF y
<1>2. mc'[m] = y /\ \A o \in Calls : o # m => mc'[o] = mc[o]
  BY <1>0
<1>3. \A o \in Calls : mc'[o].handle = mc[o].handle /\ mc'[o].booting = mc[o].booting
  BY <1>1, <1>2 DEF x
<1>4. HandlesGo
  BY <1>0 DEF HandlesGo, Ending, Waits, WatchedPlaced
<1>5. Goes(c) /\ calls'[c].pc = "done"
  BY <1>0, ReturnGoes
<1>6. \A b \in Calls : calls'[b].pc \notin Unready
  <2> SUFFICES ASSUME NEW b \in Calls, calls'[b].pc \in Unready PROVE FALSE
    OBVIOUS
  <2>1. b # c /\ calls[b].pc \in Unready
    BY <1>5 DEF Goes, Kept, Unready
  <2> QED
    BY <1>0, <2>1 DEF Shape, OneBoot, BootPcs, StopPcs, Unready
<1>7. \A o \in Calls : mc'[o].handle # Nil => handle'[mc'[o].handle].watch # "none"
  BY <1>0, <1>3, <1>4, HeldWatched
<1>8. MachinesGo(c)
  BY <1>3, <1>5, <1>6, <1>7 DEF MachinesGo, BootPcs
<1> QED
  BY <1>0, <1>4, <1>5, <1>8, GoesOn

\* Nothing moves but handles, and machines that let go of theirs.
LEMMA HandlesOnly ==
  ASSUME Shape, Waits, NEW c \in Calls, Goes(c), HandlesGo,
         calls' = calls \/ calls'[c].pc = "done",
         \A m \in Calls : /\ mc'[m].booting = mc[m].booting /\ mc'[m].cancelBoot = mc[m].cancelBoot
                          /\ mc'[m].handle \in {mc[m].handle, Nil}
  PROVE  Waits'
<1>1. \A o \in Calls : mc'[o].handle # Nil => handle'[mc'[o].handle].watch # "none"
  BY HeldWatched
<1>2. \A b \in Calls : calls'[b].pc \in Unready => calls[b].mc \in Calls
  BY Referred DEF Goes, Kept, Unready
<1>3. /\ calls'[c].pc = "placed" => handle'[c].state # "none"
      /\ calls'[c].pc \in BootPcs \ {"begin", "placing", "placed"} => handle'[c].watch # "none"
      /\ calls'[c].pc = "stopping" => Ending(c)'
  <2>1. CASE calls' = calls
    BY <2>1 DEF HandlesGo, Waits, WatchedPlaced, WatchEnds
  <2>2. CASE calls'[c].pc = "done"
    BY <2>2 DEF BootPcs
  <2> QED
    BY <2>1, <2>2
<1>4. MachinesGo(c)
  BY <1>1, <1>2, <1>3 DEF MachinesGo
<1> QED
  BY <1>4, GoesOn

\* A machine exits.
LEMMA ExitWaits ==
  ASSUME IInv, Waits, NEW c \in Calls, Exit(c)
  PROVE  Waits'
<1> DEFINE a == handle[c]
           g == ~a.cancelled
           r == [a EXCEPT !.state = "exited", !.cancelled = FALSE, !.guest = g]
<1>0. /\ Shape /\ handle \in [Calls -> Handle] /\ a \in Handle /\ handle' = [handle EXCEPT ![c] = r]
      /\ calls' = calls /\ mc' = mc /\ a.state = "up"
  BY Types DEF Exit, IInv, Shape
<1> HIDE DEF a, g
<1>1. r.state = "exited" /\ r.watch = a.watch
  BY <1>0 DEF Handle
<1> HIDE DEF r
<1>2. handle'[c] = r /\ \A h \in Calls : h # c => handle'[h] = handle[h]
  BY <1>0
<1>3. \A h \in Calls : Ending(h) => Ending(h)'
  BY <1>1, <1>2 DEF Ending, a
<1>4. HandlesGo
  BY <1>0, <1>1, <1>2, <1>3 DEF HandlesGo, Waits, WatchedPlaced, a
<1> QED
  BY <1>0, <1>4, StayGoes, HandlesOnly

\* The watch sees that the machine exited, and the machine lets go of it.
LEMMA WatchWaits ==
  ASSUME IInv, Waits, NEW c \in Calls, Watch(c)
  PROVE  Waits'
<1> DEFINE a == handle[c]
           m == a.mc
           g == mc[m].handle = c /\ ~mc[m].halted
           r == [a EXCEPT !.watch = "closed", !.reported = g]
           x == mc[m]
           y == [x EXCEPT !.handle = Nil]
<1>0. /\ Shape /\ handle \in [Calls -> Handle] /\ a \in Handle /\ handle' = [handle EXCEPT ![c] = r]
      /\ calls' = calls /\ a.state = "exited" /\ a.watch = "armed" /\ mc \in [Calls -> Mc]
      /\ mc' = mc \/ mc' = [mc EXCEPT ![m] = y]
  BY Types DEF Watch, IInv, Shape
<1>0a. m \in Calls /\ x \in Mc
  BY <1>0, WatchedMc
<1> HIDE DEF a, g, m, x
<1>1. r.state = "exited" /\ r.watch = "closed"
  BY <1>0 DEF Handle
<1>1a. y.handle = Nil /\ y.booting = x.booting /\ y.cancelBoot = x.cancelBoot
  BY <1>0a DEF Mc
<1> HIDE DEF r, y
<1>2. handle'[c] = r /\ \A h \in Calls : h # c => handle'[h] = handle[h]
  BY <1>0
<1>3. \A h \in Calls : Ending(h) => Ending(h)'
  BY <1>1, <1>2 DEF Ending
<1>4. HandlesGo
  BY <1>0, <1>1, <1>2, <1>3 DEF HandlesGo, Waits, WatchedPlaced, a
<1>5. \A o \in Calls : /\ mc'[o].booting = mc[o].booting /\ mc'[o].cancelBoot = mc[o].cancelBoot
                       /\ mc'[o].handle \in {mc[o].handle, Nil}
  <2>1. CASE mc' = mc
    BY <2>1
  <2>2. CASE mc' = [mc EXCEPT ![m] = y]
    <3>1. mc'[m] = y /\ \A o \in Calls : o # m => mc'[o] = mc[o]
      BY <1>0, <1>0a, <2>2
    <3> QED
      BY <1>1a, <3>1 DEF x
  <2> QED
    BY <1>0, <2>1, <2>2
<1> QED
  BY <1>0, <1>4, <1>5, StayGoes, HandlesOnly

\* The backend removes the disk, with what still runs on it.
LEMMA RemoveWaits ==
  ASSUME IInv, Waits, NEW c \in Calls, Remove(c)
  PROVE  Waits'
<1> DEFINE d == calls[c].id
<1>0. /\ Shape /\ TypeOK /\ handle \in [Calls -> Handle] /\ calls' = Return(c, TRUE) /\ mc' = mc
      /\ handle' = [h \in Calls |-> IF handle[h].disk = d /\ handle[h].state = "up"
                                    THEN [handle[h] EXCEPT !.state = "exited", !.cancelled = FALSE] ELSE handle[h]]
  BY Types DEF Remove, IInv, Shape
<1> HIDE DEF d
<1>1. ASSUME NEW h \in Calls
      PROVE  /\ handle'[h].watch = handle[h].watch /\ (handle[h].state # "none" => handle'[h].state # "none")
             /\ Ending(h) => Ending(h)'
  <2>0. handle[h] \in Handle
    BY <1>0
  <2>1. CASE handle[h].disk = d /\ handle[h].state = "up"
    <3>1. handle'[h] = [handle[h] EXCEPT !.state = "exited", !.cancelled = FALSE]
      BY <1>0, <2>1
    <3>2. handle'[h].watch = handle[h].watch /\ handle'[h].state = "exited"
      BY <2>0, <3>1 DEF Handle
    <3> QED
      BY <3>2 DEF Ending
  <2>2. CASE ~(handle[h].disk = d /\ handle[h].state = "up")
    <3>1. handle'[h] = handle[h]
      BY <1>0, <2>2
    <3> QED
      BY <3>1 DEF Ending
  <2> QED
    BY <2>1, <2>2
<1>2. HandlesGo
  BY <1>1 DEF HandlesGo, Waits, WatchedPlaced
<1> QED
  BY <1>0, <1>2, ReturnGoes, HandlesOnly

\* The machine's calls, handles and machines stay as they are.
LEMMA NothingWaits ==
  ASSUME IInv, Waits, calls' = calls, handle' = handle, mc' = mc
  PROVE  Waits'
  BY DEF Waits, BootKnown, Cancellable, BootEnds, WatchedPlaced, WatchEnds, Ending

\* Halt cancels what runs, and waits for its watch.
LEMMA HaltCancelWaits ==
  ASSUME IInv, Waits, NEW c \in Calls, HaltCancel(c), mc[calls[c].target].handle # Nil
  PROVE  Waits'
<1>h. PICK h \in Calls : h = mc[calls[c].target].handle
  <2>1. calls[c].pc = "waitBoot" /\ Shape /\ TypeOK
    BY DEF HaltCancel, IInv, Shape
  <2>2. calls[c].target \in Calls
    BY <2>1, Referred
  <2> QED
    BY <2>1, <2>2, Types, Numbers DEF Mc
<1> DEFINE a == calls[c]
           r == [a EXCEPT !.pc = "waitWatch", !.handle = h]
<1>0. /\ Shape /\ TypeOK /\ a.pc = "waitBoot" /\ calls \in [Calls -> Call]
      /\ a \in Call /\ calls' = [calls EXCEPT ![c] = r] /\ handle' = Cancelled(h) /\ mc' = mc
      /\ handle[h].watch # "none"
  <2>1. calls[c].pc = "waitBoot" /\ Shape /\ TypeOK
    BY DEF HaltCancel, IInv, Shape
  <2>2. calls[c].target \in Calls /\ calls \in [Calls -> Call]
    BY <2>1, Referred, Types
  <2> QED
    BY <1>h, <2>1, <2>2 DEF HaltCancel, Waits, WatchedPlaced
<1> HIDE DEF a
<1>1. /\ r.pc = "waitWatch" /\ r.handle = h /\ r.op = a.op /\ r.mc = a.mc /\ r.ctx = a.ctx
  BY <1>0, Numbers DEF Call
<1> HIDE DEF r
<1>2. calls'[c] = r /\ \A d \in Calls : d # c => calls'[d] = calls[d]
  BY <1>0
<1>3. HandlesGo /\ Ending(h)'
  BY <1>0, CancelEnds
<1>4. \A o \in Calls : mc[o].handle # Nil => handle'[mc[o].handle].watch # "none"
  BY <1>0, <1>3, HeldWatched
<1>5. /\ \A d \in Calls : /\ calls'[d].op = calls[d].op /\ calls'[d].mc = calls[d].mc /\ calls'[d].ctx = calls[d].ctx
                          /\ calls'[d].pc = calls[d].pc \/ (d = c /\ calls'[d].pc = "waitWatch")
      /\ calls[c].pc = "waitBoot"
  BY <1>0, <1>1, <1>2 DEF a
<1>6. /\ \A o \in Calls : mc[o].booting # Nil => mc[o].booting \in Calls
      /\ \A d \in Calls : calls[d].boot # Nil => calls[d].boot \in Calls
      /\ \A d \in Calls : calls[d].pc = "waitWatch" => calls[d].handle \in Calls
  BY <1>0, Types, Numbers, Referred DEF Mc, Call
<1>7. BootKnown'
  <2>1. \A d \in Calls : /\ calls[d].pc # "begin" => calls'[d].pc # "begin"
                         /\ calls'[d].pc # "done" => calls[d].pc # "done"
    BY <1>5
  <2> QED
    BY <1>0, <1>5, <1>6, <2>1 DEF Waits, BootKnown
<1>8. Cancellable'
  BY <1>0, <1>5 DEF Waits, Cancellable, Unready
<1>9. BootEnds'
  <2>1. \A d \in Calls : calls'[d].pc = "waitBoot" => calls[d].pc = "waitBoot" /\ calls'[d].boot = calls[d].boot
    BY <1>1, <1>2
  <2>2. \A b \in Calls : /\ calls[b].pc # "begin" => calls'[b].pc # "begin"
                         /\ calls'[b].pc \in Unready => calls[b].pc \in Unready
    BY <1>5 DEF Unready
  <2> QED
    BY <1>5, <1>6, <2>1, <2>2 DEF Waits, BootEnds
<1>10. WatchedPlaced'
  BY <1>0, <1>3, <1>4, <1>5 DEF Waits, WatchedPlaced, HandlesGo, BootPcs
<1>11. WatchEnds'
  <2>1. \A d \in Calls : calls'[d].pc = "stopping" => Ending(d)'
    BY <1>3, <1>5 DEF Waits, WatchEnds, HandlesGo
  <2>2. ASSUME NEW d \in Calls, calls'[d].pc = "waitWatch" PROVE Ending(calls[d].handle)'
    <3>1. CASE d = c
      <4>1. calls'[d].handle = h
        BY <1>1, <1>2, <3>1
      <4> QED
        BY <1>3, <4>1 DEF Ending
    <3>2. CASE d # c
      <4>1. calls[d].pc = "waitWatch" /\ calls'[d].handle = calls[d].handle
        BY <1>2, <2>2, <3>2
      <4>2. PICK k \in Calls : k = calls[d].handle
        BY <1>6, <4>1
      <4>3. Ending(k)
        BY <4>1, <4>2 DEF Waits, WatchEnds
      <4>4. Ending(k)'
        BY <1>3, <4>3 DEF HandlesGo
      <4> QED
        BY <4>1, <4>2, <4>4 DEF Ending
    <3> QED
      BY <3>1, <3>2
  <2> QED
    BY <2>1, <2>2 DEF WatchEnds
<1> QED
  BY <1>7, <1>8, <1>9, <1>10, <1>11 DEF Waits

\* The stop marks the machine: the Boot it will wait for is cancelled, or was.
LEMMA MarkWaits ==
  ASSUME IInv, Waits, NEW c \in Calls, HaltMark(c)
  PROVE  Waits'
<1>0. Shape /\ TypeOK /\ calls[c].pc = "halt" /\ calls \in [Calls -> Call] /\ mc \in [Calls -> Mc]
  BY Types DEF HaltMark, IInv, Shape
<1>0a. PICK m \in Calls : m = calls[c].target
  BY <1>0, Referred
<1>0b. PICK o \in Refs : o = mc[m].cancelBoot
  BY <1>0 DEF Mc
<1>0c. PICK e \in Refs : e = mc[m].booting
  BY <1>0 DEF Mc
<1> DEFINE a == calls[c]
           r == [a EXCEPT !.pc = "waitBoot", !.boot = e]
           k == [calls EXCEPT ![c] = r]
           x == mc[m]
           y == [x EXCEPT !.halted = TRUE, !.cancelBoot = Nil]
<1>1. /\ calls' = IF o = Nil THEN k ELSE [k EXCEPT ![o].ctx = TRUE]
      /\ mc' = [mc EXCEPT ![m] = y] /\ handle' = handle
  BY <1>0a, <1>0b, <1>0c DEF HaltMark
<1>2. a \in Call /\ x \in Mc
  BY <1>0
<1> HIDE DEF a, x
<1>3. /\ r \in Call /\ r.pc = "waitBoot" /\ r.boot = e /\ r.op = a.op /\ r.mc = a.mc /\ r.ctx = a.ctx
  BY <1>2 DEF Call
<1>4. y.handle = x.handle /\ y.booting = x.booting
  BY <1>2 DEF Mc
<1> HIDE DEF r, y
<1>5. k \in [Calls -> Call] /\ k[c] = r /\ \A d \in Calls : d # c => k[d] = calls[d]
  BY <1>0, <1>3
<1>6. mc'[m] = y /\ \A n \in Calls : n # m => mc'[n] = mc[n]
  BY <1>0, <1>1
<1> HIDE DEF k
<1>7. ASSUME NEW d \in Calls
      PROVE  /\ calls'[d].pc = k[d].pc /\ calls'[d].op = k[d].op /\ calls'[d].mc = k[d].mc
             /\ calls'[d].boot = k[d].boot /\ calls'[d].handle = k[d].handle
             /\ (k[d].ctx \/ d = o) => calls'[d].ctx
  <2>1. CASE o = Nil
    BY <1>1, <2>1, Numbers
  <2>2. CASE o # Nil
    <3>1. o \in Calls /\ k[o] \in Call
      BY <1>5, <2>2, Numbers
    <3> DEFINE s == k[o]
               v == [s EXCEPT !.ctx = TRUE]
    <3>2. calls' = [k EXCEPT ![o] = v] /\ s \in Call
      BY <1>1, <2>2, <3>1
    <3> HIDE DEF s
    <3>3. /\ v.pc = s.pc /\ v.op = s.op /\ v.mc = s.mc /\ v.boot = s.boot /\ v.handle = s.handle
          /\ v.ctx = TRUE
      BY <3>2 DEF Call
    <3> HIDE DEF v
    <3>4. calls'[o] = v /\ (d # o => calls'[d] = k[d])
      BY <1>5, <3>1, <3>2
    <3> QED
      BY <3>3, <3>4 DEF s
  <2> QED
    BY <2>1, <2>2
<1>8. \A n \in Calls : mc'[n].handle = mc[n].handle /\ mc'[n].booting = mc[n].booting
  BY <1>4, <1>6 DEF x
<1>9. /\ \A d \in Calls : /\ calls'[d].op = calls[d].op /\ calls'[d].mc = calls[d].mc
                          /\ (calls[d].ctx \/ d = o) => calls'[d].ctx
                          /\ d # c => /\ calls'[d].pc = calls[d].pc /\ calls'[d].boot = calls[d].boot
                                      /\ calls'[d].handle = calls[d].handle
      /\ calls'[c].pc = "waitBoot" /\ calls'[c].boot = e
  <2>1. \A d \in Calls : d # c => k[d] = calls[d]
    BY <1>5
  <2>2. k[c].pc = "waitBoot" /\ k[c].boot = e /\ k[c].op = calls[c].op /\ k[c].mc = calls[c].mc /\ k[c].ctx = calls[c].ctx
    BY <1>3, <1>5 DEF a
  <2> QED
    BY <1>7, <2>1, <2>2
<1>10. /\ \A n \in Calls : mc[n].booting # Nil => mc[n].booting \in Calls
       /\ \A d \in Calls : calls[d].boot # Nil => calls[d].boot \in Calls
       /\ \A d \in Calls : calls[d].pc = "waitWatch" => calls[d].handle \in Calls
       /\ \A d \in Calls : calls[d].pc # "done" => calls[d].mc \in Calls
  BY <1>0, Types, Numbers, Referred DEF Mc, Call
<1>11. \A d \in Calls : /\ calls[d].pc # "begin" => calls'[d].pc # "begin"
                        /\ calls'[d].pc # "done" => calls[d].pc # "done"
                        /\ calls'[d].pc \in Unready => calls[d].pc \in Unready
                        /\ calls'[d].pc \in BootPcs => calls'[d].pc = calls[d].pc
  BY <1>0, <1>9 DEF Unready, BootPcs
<1>12. BootKnown'
  BY <1>8, <1>9, <1>10, <1>11 DEF Waits, BootKnown
<1>13. Cancellable'
  <2> SUFFICES ASSUME NEW b \in Calls, calls'[b].pc \in Unready
               PROVE  mc'[calls'[b].mc].cancelBoot = b \/ calls'[b].ctx
    BY DEF Cancellable
  <2>1. calls[b].pc \in Unready /\ calls'[b].mc = calls[b].mc /\ calls[b].mc \in Calls
    BY <1>9, <1>10, <1>11 DEF Unready
  <2>2. mc[calls[b].mc].cancelBoot = b \/ calls[b].ctx
    BY <2>1 DEF Waits, Cancellable
  <2>3. CASE calls[b].mc = m
    BY <1>0b, <1>9, <2>2, <2>3
  <2>4. CASE calls[b].mc # m
    BY <1>6, <1>9, <2>1, <2>2, <2>4
  <2> QED
    BY <2>3, <2>4
<1>14. BootEnds'
  <2>1. ASSUME NEW d \in Calls, calls'[d].pc = "waitBoot", calls'[d].boot # Nil, NEW b, b = calls'[d].boot
        PROVE  /\ calls'[b].op = "Boot" /\ calls'[b].pc # "begin"
               /\ calls'[b].pc \in Unready => calls'[b].ctx
    <3>1. CASE d # c
      <4>1. /\ b \in Calls /\ calls[b].op = "Boot" /\ calls[b].pc # "begin"
            /\ calls[b].pc \in Unready => calls[b].ctx
        BY <1>9, <1>10, <2>1, <3>1 DEF Waits, BootEnds
      <4> QED
        BY <1>9, <1>11, <4>1
    <3>2. CASE d = c
      <4>1. b = mc[m].booting /\ b \in Calls /\ mc[m].booting # Nil
        BY <1>0c, <1>9, <1>10, <2>1, <3>2
      <4>2. calls[b].op = "Boot" /\ calls[b].pc # "begin" /\ (calls[b].pc # "done" => calls[b].mc = m)
        BY <4>1 DEF Waits, BootKnown
      <4>3. calls[b].pc \in Unready => o = b \/ calls[b].ctx
        BY <1>0b, <4>1, <4>2 DEF Waits, Cancellable, Unready
      <4> QED
        BY <1>9, <1>11, <4>1, <4>2, <4>3
    <3> QED
      BY <3>1, <3>2
  <2> QED
    BY <2>1 DEF BootEnds
<1>15. WatchedPlaced'
  BY <1>1, <1>8, <1>11 DEF Waits, WatchedPlaced, BootPcs
<1>16. WatchEnds'
  <2>1. \A d \in Calls : calls'[d].pc \in {"stopping", "waitWatch"} => calls'[d].pc = calls[d].pc /\ calls'[d].handle = calls[d].handle
    BY <1>9
  <2> QED
    BY <1>1, <2>1 DEF Waits, WatchEnds, Ending
<1> QED
  BY <1>12, <1>13, <1>14, <1>15, <1>16 DEF Waits

\* A call is made: no machine and no stop names it yet.
LEMMA CallWaits ==
  ASSUME IInv, Waits, NEW c \in Calls, calls[c].pc = "done", calls[c].op = "none",
         \A d \in Calls : d # c => calls'[d] = calls[d],
         calls'[c].pc \in {"begin", "get", "halt"}, mc' = mc, handle' = handle
  PROVE  Waits'
<1>1. /\ \A m \in Calls : mc[m].booting # Nil => mc[m].booting \in Calls
      /\ \A d \in Calls : calls[d].boot # Nil => calls[d].boot \in Calls
  BY Types, Numbers DEF IInv, Shape, Mc, Call
<1>2. BootKnown'
  BY <1>1 DEF Waits, BootKnown
<1>3. Cancellable'
  BY DEF Waits, Cancellable, Unready
<1>4. BootEnds'
  BY <1>1 DEF Waits, BootEnds
<1>5. WatchedPlaced'
  BY DEF Waits, WatchedPlaced, BootPcs
<1>6. WatchEnds'
  BY DEF Waits, WatchEnds, Ending
<1> QED
  BY <1>2, <1>3, <1>4, <1>5, <1>6 DEF Waits

LEMMA NewCallWaits ==
  ASSUME IInv, Waits, BootLookup \/ \E op \in {"Halt", "Discard", "Detach"} : Stop(op)
  PROVE  Waits'
<1>0. PICK c \in Calls : c = made + 1 /\ calls[c].pc = "done" /\ calls[c].op = "none"
  BY NextNumber DEF BootLookup, Stop, IInv
<1>1. calls \in [Calls -> Call] /\ NoCall \in Call
  BY Types, Numbers DEF IInv, Shape, NoCall, Call
<1>2. CASE BootLookup
  <2> DEFINE m == IF machines = Nil THEN c ELSE machines
             f == machines = Nil
             n == NoCall
             r == [n EXCEPT !.op = "Boot", !.pc = "begin", !.mc = m, !.fresh = f]
  <2>1. calls' = [calls EXCEPT ![c] = r] /\ mc' = mc /\ handle' = handle /\ n \in Call
    BY <1>0, <1>1, <1>2 DEF BootLookup
  <2> HIDE DEF m, f, n
  <2>2. r.pc = "begin"
    BY <2>1 DEF Call
  <2> HIDE DEF r
  <2>3. calls'[c] = r /\ \A d \in Calls : d # c => calls'[d] = calls[d]
    BY <1>1, <2>1
  <2> QED
    BY <1>0, <2>1, <2>2, <2>3, CallWaits
<1>3. ASSUME NEW op \in {"Halt", "Discard", "Detach"}, Stop(op) PROVE Waits'
  <2> DEFINE p == IF op = "Discard" THEN "get" ELSE "halt"
             n == NoCall
             r == [n EXCEPT !.op = op, !.mc = machines, !.target = machines, !.pc = p]
  <2>1. calls' = [calls EXCEPT ![c] = r] /\ mc' = mc /\ handle' = handle /\ n \in Call /\ p \in {"get", "halt"}
    BY <1>0, <1>1, <1>3 DEF Stop
  <2> HIDE DEF p, n
  <2>2. r.pc = p
    BY <2>1 DEF Call
  <2> HIDE DEF r
  <2>3. calls'[c] = r /\ \A d \in Calls : d # c => calls'[d] = calls[d]
    BY <1>1, <2>1
  <2> QED
    BY <1>0, <2>1, <2>2, <2>3, CallWaits
<1> QED
  BY <1>2, <1>3

\* The Boot takes the machine: from here on a stop can cancel it.
LEMMA BeginWaits ==
  ASSUME IInv, Waits, NEW c \in Calls, BootBegin(c), ~Runs(calls[c].mc)
  PROVE  Waits'
<1>0. /\ Shape /\ TypeOK /\ calls[c].pc = "begin" /\ calls[c].op = "Boot" /\ calls \in [Calls -> Call]
      /\ mc \in [Calls -> Mc] /\ handle' = handle
  BY Types DEF BootBegin, At, IInv, Shape
<1>0a. PICK m \in Calls : m = calls[c].mc
  BY <1>0, Referred
<1>0b. /\ \A n \in Calls : mc[n].booting # Nil => mc[n].booting \in Calls
       /\ \A d \in Calls : calls[d].boot # Nil => calls[d].boot \in Calls
  BY <1>0, Types, Numbers DEF Mc, Call
<1> DEFINE a == calls[c]
           i == mc[m].id
           r == [a EXCEPT !.pc = "placing", !.id = i]
           x == mc[m]
           y == [x EXCEPT !.halted = FALSE, !.cancelBoot = c, !.booting = c]
<1>1. /\ calls' = [calls EXCEPT ![c] = r] /\ mc' = [mc EXCEPT ![m] = y] /\ a \in Call /\ x \in Mc
  BY <1>0, <1>0a DEF BootBegin, KeptDisk
<1> HIDE DEF a, i, x
<1>2. r.pc = "placing" /\ r.op = a.op /\ r.mc = a.mc
  BY <1>1 DEF Call
<1>3. y.handle = x.handle /\ y.booting = c /\ y.cancelBoot = c
  BY <1>1 DEF Mc
<1> HIDE DEF r, y
<1>4. /\ calls'[c].pc = "placing" /\ calls'[c].op = "Boot" /\ calls'[c].mc = m
      /\ \A d \in Calls : d # c => calls'[d] = calls[d]
  BY <1>0, <1>0a, <1>1, <1>2 DEF a
<1>5. /\ mc'[m].booting = c /\ mc'[m].cancelBoot = c /\ mc'[m].handle = mc[m].handle
      /\ \A n \in Calls : n # m => mc'[n] = mc[n]
  BY <1>0, <1>1, <1>3 DEF x
<1>6. \A b \in Calls : b # c => calls[b].pc \notin BootPcs
  BY <1>0 DEF Shape, OneBoot, BootPcs, StopPcs
<1>7. BootKnown'
  <2>1. ASSUME NEW n \in Calls, mc'[n].booting # Nil, NEW b, b = mc'[n].booting
        PROVE  /\ calls'[b].op = "Boot" /\ calls'[b].pc # "begin"
               /\ calls'[b].pc # "done" => calls'[b].mc = n
    <3>1. CASE n = m
      BY <1>4, <1>5, <2>1, <3>1
    <3>2. CASE n # m
      <4>1. b \in Calls /\ b = mc[n].booting /\ mc[n].booting # Nil
        BY <1>0b, <1>5, <2>1, <3>2
      <4>2. calls[b].op = "Boot" /\ calls[b].pc # "begin" /\ (calls[b].pc # "done" => calls[b].mc = n)
        BY <4>1 DEF Waits, BootKnown
      <4> QED
        BY <1>0, <1>4, <4>1, <4>2
    <3> QED
      BY <3>1, <3>2
  <2> QED
    BY <2>1 DEF BootKnown
<1>8. Cancellable'
  BY <1>4, <1>5, <1>6 DEF Cancellable, Unready, BootPcs
<1>9. BootEnds'
  <2>1. ASSUME NEW d \in Calls, calls'[d].pc = "waitBoot", calls'[d].boot # Nil, NEW b, b = calls'[d].boot
        PROVE  /\ calls'[b].op = "Boot" /\ calls'[b].pc # "begin"
               /\ calls'[b].pc \in Unready => calls'[b].ctx
    <3>1. d # c /\ calls'[d] = calls[d]
      BY <1>4, <2>1
    <3>2. /\ b \in Calls /\ calls[b].op = "Boot" /\ calls[b].pc # "begin"
          /\ calls[b].pc \in Unready => calls[b].ctx
      BY <1>0b, <2>1, <3>1 DEF Waits, BootEnds
    <3> QED
      BY <1>0, <1>4, <3>2
  <2> QED
    BY <2>1 DEF BootEnds
<1>10. WatchedPlaced'
  <2>1. \A n \in Calls : mc'[n].handle = mc[n].handle
    BY <1>5
  <2> QED
    BY <1>0, <1>4, <2>1 DEF Waits, WatchedPlaced, BootPcs
<1>11. WatchEnds'
  BY <1>0, <1>4 DEF Waits, WatchEnds, Ending
<1> QED
  BY <1>7, <1>8, <1>9, <1>10, <1>11 DEF Waits

\* After a restart nobody waits.
LEMMA RestartWaits ==
  ASSUME IInv, Waits, Restart
  PROVE  Waits'
<1>1. /\ mc' = [c \in Calls |-> NewMachine] /\ calls' = [c \in Calls |-> NoCall]
      /\ handle' = [h \in Calls |-> IF handle[h].state = "up"
                       THEN [NoHandle EXCEPT !.state = "up", !.disk = handle[h].disk] ELSE NoHandle]
  BY DEF Restart
<1>2. \A c \in Calls : calls'[c].pc = "done" /\ mc'[c].booting = Nil /\ mc'[c].handle = Nil
  BY <1>1 DEF NewMachine, NoCall
<1>3. ASSUME NEW h \in Calls PROVE handle'[h].watch = "none"
  <2>1. CASE handle[h].state = "up"
    BY <1>1, <2>1 DEF NoHandle
  <2>2. CASE handle[h].state # "up"
    BY <1>1, <2>2 DEF NoHandle
  <2> QED
    BY <2>1, <2>2
<1> QED
  BY <1>2, <1>3 DEF Waits, BootKnown, Cancellable, BootEnds, WatchedPlaced, WatchEnds, BootPcs, Unready

\* A machine is published or given its handle, and nobody waits.
LEMMA AdoptedWaits ==
  ASSUME Waits, NEW h \in Refs, NEW d \in Calls, calls' = calls, \A c \in Calls : calls[c].pc = "done",
         mc \in [Calls -> Mc], mc'[d].handle = h, mc'[d].booting \in {mc[d].booting, Nil},
         \A o \in Calls : o # d => mc'[o] = mc[o],
         \A k \in Calls : k # h => handle'[k] = handle[k],
         h # Nil => h \in Calls /\ handle'[h].watch = "armed" /\ handle'[h].state # "none"
  PROVE  Waits'
<1>1. WatchedPlaced'
  <2>1. \A k \in Calls : handle'[k].watch # "none" => handle'[k].state # "none"
    BY Numbers DEF Waits, WatchedPlaced
  <2>2. \A k \in Calls : handle[k].watch # "none" => handle'[k].watch # "none"
    BY Numbers
  <2>3. \A o \in Calls : mc[o].handle # Nil => mc[o].handle \in Calls
    BY Numbers DEF Mc
  <2>4. \A o \in Calls : mc'[o].handle # Nil => handle'[mc'[o].handle].watch # "none"
    BY <2>2, <2>3 DEF Waits, WatchedPlaced
  <2> QED
    BY <2>1, <2>4 DEF WatchedPlaced, BootPcs
<1>2. BootKnown'
  BY DEF Waits, BootKnown
<1> QED
  BY <1>1, <1>2 DEF Waits, Cancellable, BootEnds, WatchEnds, Unready

\* Adopt publishes the disk it found.
LEMMA AdoptWaits ==
  ASSUME IInv, Waits, NEW d \in Calls, Adopt(d)
  PROVE  Waits'
<1> DEFINE n == NewMachine
           q == [n EXCEPT !.id = d]
<1>1. /\ TypeOK /\ calls' = calls /\ handle' = handle /\ mc' = [mc EXCEPT ![d] = q]
      /\ \A c \in Calls : calls[c].pc = "done"
  BY DEF Adopt, IInv, Shape, Quiet
<1>2. n \in Mc /\ n.booting = Nil /\ n.handle = Nil
  BY Numbers DEF NewMachine, Mc
<1> HIDE DEF n
<1>3. q.handle = Nil /\ q.booting = Nil
  BY <1>2 DEF Mc
<1> HIDE DEF q
<1>4. mc \in [Calls -> Mc] /\ mc'[d] = q /\ \A o \in Calls : o # d => mc'[o] = mc[o]
  BY <1>1, Types
<1>5. Nil \in Refs /\ mc'[d].handle = Nil /\ mc'[d].booting \in {mc[d].booting, Nil}
      /\ \A k \in Calls : k # Nil => handle'[k] = handle[k]
  BY <1>1, <1>3, <1>4, Numbers
<1> QED
  BY <1>1, <1>4, <1>5, AdoptedWaits

\* What is taken over is watched.
LEMMA AdoptTrackWaits ==
  ASSUME IInv, StrayInv, Waits, NEW h \in Calls, AdoptTrack(h)
  PROVE  Waits'
<1> DEFINE a == handle[h]
           r == [a EXCEPT !.watch = "armed", !.mc = machines]
           x == mc[machines]
           y == [x EXCEPT !.handle = h]
<1>0. TypeOK /\ machines \in Calls /\ machines # Nil /\ handle[h].state # "none"
  BY ListedFacts DEF AdoptTrack
<1>1. /\ mc' = [mc EXCEPT ![machines] = y] /\ handle' = [handle EXCEPT ![h] = r] /\ calls' = calls
      /\ \A c \in Calls : calls[c].pc = "done"
  BY DEF AdoptTrack, Listed, IInv, Shape, Quiet
<1>2. a \in Handle /\ x \in Mc /\ handle \in [Calls -> Handle] /\ mc \in [Calls -> Mc] /\ h \in Refs /\ h # Nil
  BY <1>0, Types, Numbers
<1> HIDE DEF a, x
<1>3. r.state = a.state /\ r.watch = "armed" /\ y.handle = h /\ y.booting = x.booting
  BY <1>2 DEF Handle, Mc
<1> HIDE DEF r, y
<1>4. /\ handle'[h] = r /\ \A k \in Calls : k # h => handle'[k] = handle[k]
      /\ mc'[machines] = y /\ \A o \in Calls : o # machines => mc'[o] = mc[o]
  BY <1>0, <1>1, <1>2
<1>5. /\ mc'[machines].handle = h /\ mc'[machines].booting \in {mc[machines].booting, Nil}
      /\ handle'[h].watch = "armed" /\ handle'[h].state # "none"
  BY <1>0, <1>3, <1>4 DEF a, x
<1> QED
  BY <1>0, <1>1, <1>2, <1>4, <1>5, AdoptedWaits

\* Every step keeps what is known of the waits.
LEMMA WaitsInductive ==
  ASSUME IInv, StrayInv, Waits, [Next]_vars
  PROVE  Waits'
<1>1. CASE BootLookup \/ \E op \in {"Halt", "Discard", "Detach"} : Stop(op)
  BY <1>1, NewCallWaits
<1>2. ASSUME NEW c \in Calls,
             \/ BootBegin(c) \/ Placed(c) \/ PlaceFailed(c) \/ Track(c) \/ Attach(c) \/ AwaitReady(c)
             \/ BootReady(c) \/ BootFailed(c) \/ BootStopped(c)
      PROVE  Waits'
  BY <1>2, CallsGoSteps, BeginWaits, PlacedWaits, TrackWaits, AttachWaits, BootReadyWaits, BootFailedWaits
<1>3. ASSUME NEW c \in Calls,
             \/ HaltGet(c) \/ HaltMark(c) \/ HaltCancel(c) \/ HaltReturn(c) \/ HaltGivesUp(c)
             \/ DiscardRead(c) \/ Forget(c) \/ Remove(c) \/ Release(c)
      PROVE  Waits'
  BY <1>3, CallsGoSteps, MarkWaits, HaltCancelWaits, RemoveWaits
<1>4. ASSUME NEW c \in Calls, Exit(c) \/ Watch(c) \/ Adopt(c) \/ AdoptTrack(c) \/ AdoptFailed(c) PROVE Waits'
  BY <1>4, ExitWaits, WatchWaits, AdoptWaits, AdoptTrackWaits, NothingWaits DEF AdoptFailed
<1>5. CASE Restart
  BY <1>5, RestartWaits
<1>6. CASE NothingFound \/ UNCHANGED vars
  BY <1>6, NothingWaits DEF NothingFound, vars
<1> QED
  BY <1>1, <1>2, <1>3, <1>4, <1>5, <1>6 DEF Next

\* Whoever a Halt, Discard or Detach waits for is on its way out: the Boot in
\* flight has a context that ended or waits for nothing but its own machine,
\* and the machine was cancelled or has exited and is watched.  It is the
\* safety half of StopReturns, for any number of calls and also when a stop
\* overtook a Boot.
THEOREM WaitsEnd == Spec => []NoVainWait
<1>1. Init => Waits
  <2>1. ASSUME Init, NEW c \in Calls
        PROVE  /\ calls[c].pc = "done" /\ handle[c].watch = "none"
               /\ mc[c].booting = Nil /\ mc[c].handle = Nil
    BY <2>1 DEF Init, NoCall, NoHandle, NewMachine
  <2> QED
    BY <2>1 DEF Waits, BootKnown, Cancellable, BootEnds, WatchedPlaced, WatchEnds, BootPcs, Unready
<1>2. IInv /\ StrayInv /\ Waits /\ [Next]_vars => Waits'
  BY WaitsInductive
<1>3. IInv /\ Waits => NoVainWait
  <2> SUFFICES ASSUME IInv, Waits, NEW c \in Calls, calls[c].pc = "waitBoot", calls[c].boot # Nil
               PROVE  LET b == calls[c].boot IN
                      /\ calls[b].op = "Boot" /\ calls[b].pc # "begin"
                      /\ calls[b].pc \in Unready => calls[b].ctx
                      /\ calls[b].pc = "stopping" => Ending(b)
    BY DEF NoVainWait, Waits, WatchEnds
  <2>1. calls[c].boot \in Calls
    BY Types, Numbers DEF IInv, Shape, Call
  <2> QED
    BY <2>1 DEF Waits, BootEnds, WatchEnds
<1> QED
  BY <1>1, <1>2, <1>3, Invariance, PTL DEF Spec
=============================================================================
