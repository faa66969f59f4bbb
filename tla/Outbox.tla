------------------------------- MODULE Outbox -------------------------------
(***************************************************************************)
(* What the delivery of CRM events promises an automation tool: an event   *)
(* may reach the receiver any number of times while it is pending, it is   *)
(* settled once and for good, and it counts as sent only if it arrived.    *)
(***************************************************************************)
CONSTANT Deliveries

VARIABLES
    outcome,  \* where each delivery stands, as the CRM sees it
    received  \* the deliveries whose event has reached the receiver

vars == <<outcome, received>>

Outcomes == {"sent", "previewed", "blocked", "failed"}

Init ==
    /\ outcome = [d \in Deliveries |-> "none"]
    /\ received = {}

Announce(d) ==
    /\ outcome[d] = "none"
    /\ outcome' = [outcome EXCEPT ![d] = "pending"]
    /\ UNCHANGED received

\* The receiver tells a repeat by the delivery's ID, so only the first one counts.
Arrive(d) ==
    /\ outcome[d] = "pending"
    /\ received' = received \cup {d}
    /\ UNCHANGED outcome

Settle(d, o) ==
    /\ outcome[d] = "pending"
    /\ o = "sent" => d \in received
    /\ outcome' = [outcome EXCEPT ![d] = o]
    /\ UNCHANGED received

Next == \E d \in Deliveries :
            Announce(d) \/ Arrive(d) \/ \E o \in Outcomes : Settle(d, o)

Spec == Init /\ [][Next]_vars
=============================================================================
