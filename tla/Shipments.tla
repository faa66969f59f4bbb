------------------------------ MODULE Shipments ------------------------------
(***************************************************************************)
(* One package on its way, and the shipments that matters have of it       *)
(* (crm/shipments): runs ask the carrier (connectors/ups, usps, fedex),    *)
(* store what it said, note deliveries and make tasks of problems, while   *)
(* staff change the shipments in forms.  Which numbers are due is in       *)
(* DueChecks.                                                              *)
(***************************************************************************)
EXTENDS Naturals, FiniteSets

CONSTANTS
    Parcels,   \* the shipments with the package's number
    Trackers,  \* runs that ask about it, which may overlap
    Typists,   \* forms of staff
    MaxNotes   \* bound on the deliveries noted for a shipment

ASSUME ShipmentsAssumption == Parcels # {} /\ MaxNotes \in Nat \ {0}

VARIABLES
    carrier,   \* the carrier that has the package
    package,   \* the package as its carrier describes it
    shipment,  \* Shipment rows: status, and whether they are tracked
    tracker,   \* what each run has been told and has not stored
    typist,    \* each form: the shipment and what it showed of it
    announced, \* how often each shipment's delivery was noted on its matter
    putBack,   \* how often a form made a settled shipment an open one
    followUps  \* shipments with a task to look into a problem

shipVars == <<carrier, package, shipment, tracker, typist, announced, putBack, followUps>>

Carriers == {"ups", "usps", "fedex"}
ParcelStatuses == {"sent", "in_transit", "out_for_delivery", "problem", "delivered", "returned"}
Settled == {"delivered", "returned"}
Problems == {"not_found", "unavailable", "not_shared"}
Events == {"label", "moving", "out", "exception", "delivered"}
Fresh == [status |-> "sent", track |-> TRUE]
NoShipmentForm == [open |-> FALSE, of |-> CHOOSE s \in Parcels : TRUE, status |-> "sent"]

ShipTypeOK ==
    /\ carrier \in Carriers
    /\ package \in [event : Events, back : BOOLEAN]
    /\ shipment \in [Parcels -> [status : ParcelStatuses, track : BOOLEAN]]
    /\ tracker \in [Trackers -> {"idle", "asking"} \cup ParcelStatuses \cup Problems]
    /\ typist \in [Typists -> [open : BOOLEAN, of : Parcels, status : ParcelStatuses]]
    /\ announced \in [Parcels -> 0..MaxNotes] /\ putBack \in [Parcels -> 0..MaxNotes]
    /\ followUps \subseteq Parcels

----------------------------------------------------------------------------
\* Each carrier's words in the CRM's.  A package on its way back to the sender, or
\* delivered to them, is returned, whatever its event is called.
UpsStatus(p) ==
    IF p.back THEN "returned"
    ELSE [delivered |-> "delivered", exception |-> "problem", label |-> "sent",
          out |-> "out_for_delivery", moving |-> "in_transit"][p.event]

\* USPS has categories of events, and codes and words for what goes back.
UspsStatus(p) ==
    IF p.back THEN "returned"
    ELSE CASE p.event = "label" -> "sent"
           [] p.event = "out" -> "out_for_delivery"
           [] p.event = "exception" -> "problem"
           [] p.event = "delivered" -> "delivered"
           [] OTHER -> "in_transit"

FedexStatus(p) ==
    LET codes == [delivered |-> "delivered", exception |-> "problem", label |-> "sent",
                  out |-> "out_for_delivery"]
    IN  IF p.back THEN "returned"
        ELSE IF p.event \in DOMAIN codes THEN codes[p.event] ELSE "in_transit"

\* Slip: what went back to the sender is taken for delivered.
ReadsAnyDelivery(p) == IF p.event = "delivered" THEN "delivered" ELSE UpsStatus(p)

StatusOf(p) ==
    CASE carrier = "ups" -> UpsStatus(p)
      [] carrier = "usps" -> UspsStatus(p)
      [] OTHER -> FedexStatus(p)

\* Why there is no status.  UPS does not say that it would not share one.
UpsProblems == {"not_found", "unavailable"}
UspsProblems == {"not_found", "unavailable", "not_shared"}
FedexProblems == {"not_found", "unavailable", "not_shared"}
Excuses == IF carrier = "ups" THEN UpsProblems
           ELSE IF carrier = "usps" THEN UspsProblems ELSE FedexProblems

----------------------------------------------------------------------------
\* The carrier moves the package; one that was delivered stays.
Move(event, back) ==
    /\ package.event # "delivered" /\ event # "label"
    /\ package.back => back
    /\ package' = [event |-> event, back |-> back]
    /\ package' # package
    /\ UNCHANGED <<carrier, shipment, tracker, typist, announced, putBack, followUps>>

\* tracked: what a run asks about.
Tracked == {s \in Parcels : shipment[s].track /\ shipment[s].status \notin Settled}

StartTracking(t) ==
    /\ tracker[t] = "idle" /\ Tracked # {}
    /\ tracker' = [tracker EXCEPT ![t] = "asking"]
    /\ UNCHANGED <<carrier, package, shipment, typist, announced, putBack, followUps>>

Told(t, answer) ==
    /\ tracker[t] = "asking"
    /\ tracker' = [tracker EXCEPT ![t] = answer]
    /\ UNCHANGED <<carrier, package, shipment, typist, announced, putBack, followUps>>

TellStatus(t) == Told(t, StatusOf(package))
TellProblem(t, excuse) == excuse \in Excuses /\ Told(t, excuse)

\* A carrier that refuses the firm's keys fails the run, and nothing is stored.
RunFails(t) ==
    /\ tracker[t] # "idle"
    /\ tracker' = [tracker EXCEPT ![t] = "idle"]
    /\ UNCHANGED <<carrier, package, shipment, typist, announced, putBack, followUps>>

\* Slip: a shipment that is settled takes a reading as well.
StoresAny(s) == TRUE
Stores(s) == shipment[s].status \notin Settled

\* record_reading, with the rows of the number locked.
RowAfter(s, answer) ==
    IF ~Stores(s) THEN shipment[s]
    ELSE IF answer \in Problems
         THEN [shipment[s] EXCEPT !.track = (answer # "not_shared")]
         ELSE [shipment[s] EXCEPT !.status = answer]

StoreTracking(t) ==
    LET answer == tracker[t]
        changed == {s \in Parcels : RowAfter(s, answer).status # shipment[s].status}
    IN  /\ answer \notin {"idle", "asking"}
        /\ answer = "delivered" => \A s \in changed : announced[s] < MaxNotes
        /\ shipment' = [s \in Parcels |-> RowAfter(s, answer)]
        /\ announced' = [s \in Parcels |->
                           IF s \in changed /\ answer = "delivered" THEN announced[s] + 1
                           ELSE announced[s]]
        /\ followUps' = IF answer \in {"problem", "returned"} THEN followUps \cup changed
                        ELSE followUps
        /\ tracker' = [tracker EXCEPT ![t] = "idle"]
        /\ UNCHANGED <<carrier, package, typist, putBack>>

----------------------------------------------------------------------------
\* shipment_update: the form shows the row, and saves what was chosen or left in it.
OpenShipment(y, s) ==
    /\ ~typist[y].open
    /\ typist' = [typist EXCEPT ![y] = [open |-> TRUE, of |-> s, status |-> shipment[s].status]]
    /\ UNCHANGED <<carrier, package, shipment, tracker, announced, putBack, followUps>>

SaveShipment(y, status, track) ==
    LET s == typist[y].of
        again == shipment[s].status \in Settled /\ status \notin Settled
    IN  /\ typist[y].open
        /\ status \in {typist[y].status, "sent", "delivered"}
        /\ again => putBack[s] < MaxNotes
        /\ shipment' = [shipment EXCEPT ![s].status = status, ![s].track = track]
        /\ putBack' = IF again THEN [putBack EXCEPT ![s] = @ + 1] ELSE putBack
        /\ typist' = [typist EXCEPT ![y] = NoShipmentForm]
        /\ UNCHANGED <<carrier, package, tracker, announced, followUps>>

ShipInit ==
    /\ carrier \in Carriers
    /\ package = [event |-> "label", back |-> FALSE]
    /\ shipment = [s \in Parcels |-> Fresh]
    /\ tracker = [t \in Trackers |-> "idle"]
    /\ typist = [y \in Typists |-> NoShipmentForm]
    /\ announced = [s \in Parcels |-> 0] /\ putBack = [s \in Parcels |-> 0]
    /\ followUps = {}

ShipNext ==
    \/ \E event \in Events, back \in BOOLEAN : Move(event, back)
    \/ \E t \in Trackers :
          \/ StartTracking(t) \/ TellStatus(t) \/ RunFails(t) \/ StoreTracking(t)
          \/ \E excuse \in Problems : TellProblem(t, excuse)
    \/ \E y \in Typists :
          \/ \E s \in Parcels : OpenShipment(y, s)
          \/ \E status \in ParcelStatuses, track \in BOOLEAN : SaveShipment(y, status, track)

ShipSpec == ShipInit /\ [][ShipNext]_shipVars

----------------------------------------------------------------------------
\* A delivery is noted only of a package that reached whom it was for, and once for each
\* shipment, however runs overlap, unless a form opened the shipment again.
DeliveryNotedOnce ==
    \A s \in Parcels :
        /\ announced[s] <= 1 + putBack[s]
        /\ announced[s] > 0 => package = [event |-> "delivered", back |-> FALSE]

\* What is settled is changed by a form alone, and what needs attention has a task unless
\* a form says so, even if a run's reading is late (record_reading).
SettledByReading ==
    [][\A s \in Parcels :
          shipment'[s].status # shipment[s].status /\ UNCHANGED typist =>
              /\ shipment[s].status \notin Settled
              /\ shipment'[s].status \in {"problem", "returned"} => s \in followUps']_shipVars

\* Readings are stored as they should be.
ReadingsKept == []DeliveryNotedOnce /\ SettledByReading
=============================================================================
