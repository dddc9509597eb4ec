----------------------------- MODULE AtLeastOnce -----------------------------
(***************************************************************************)
(* What a push dispatcher promises the cloud that submits deliveries to    *)
(* it, with nothing said of timers, stores, policies, crashes or restarts: *)
(* a delivery that was accepted is attempted any number of times, handed   *)
(* to Finish at least once, and closed; from then on it is neither         *)
(* attempted nor handed off again.                                         *)
(***************************************************************************)
EXTENDS Naturals

CONSTANT Ids

VARIABLES
    accepted,   \* the deliveries taken over
    tried,      \* attempts of each delivery
    handed,     \* hand-offs of each delivery
    closed      \* the deliveries done with

promise == <<accepted, tried, handed, closed>>

Init ==
    /\ accepted = {} /\ closed = {}
    /\ tried = [id \in Ids |-> 0] /\ handed = [id \in Ids |-> 0]

Open(id) == id \in accepted /\ id \notin closed

\* A delivery is taken over, and may be attempted at once.
Accept(id) ==
    /\ id \notin accepted /\ accepted' = accepted \cup {id}
    /\ tried' = tried \/ tried' = [tried EXCEPT ![id] = @ + 1]
    /\ UNCHANGED <<handed, closed>>

Try(id) ==
    /\ Open(id)
    /\ tried' = [tried EXCEPT ![id] = @ + 1]
    /\ UNCHANGED <<accepted, handed, closed>>

HandOff(id) ==
    /\ Open(id)
    /\ handed' = [handed EXCEPT ![id] = @ + 1]
    /\ UNCHANGED <<accepted, tried, closed>>

Close(id) ==
    /\ Open(id) /\ handed[id] > 0
    /\ closed' = closed \cup {id}
    /\ UNCHANGED <<accepted, tried, handed>>

Next == \E id \in Ids : Accept(id) \/ Try(id) \/ HandOff(id) \/ Close(id)

Spec == Init /\ [][Next]_promise

\* What is accepted is handed off, and what is handed off is closed.
FairSpec == Spec /\ \A id \in Ids : WF_promise(HandOff(id)) /\ WF_promise(Close(id))
=============================================================================
