--------------------------- MODULE ShipmentStatus ---------------------------
(***************************************************************************)
(* The status-transition rules of shipments-service                        *)
(* (services/shipments-service/app/shipment_status.py): which status a     *)
(* scan event drives a shipment into, and from which statuses.             *)
(***************************************************************************)

Statuses == {"CREATED", "IN_TRANSIT", "OUT_FOR_DELIVERY", "DELIVERED", "EXCEPTION"}

EventTypes == {"PICKED_UP", "IN_TRANSIT", "ARRIVED_AT_FACILITY", "OUT_FOR_DELIVERY",
               "DELIVERED", "DELIVERY_FAILED", "RETURNED"}

\* The status each scan event drives the shipment into.
EventToStatus ==
  [e \in EventTypes |->
     IF e \in {"DELIVERY_FAILED", "RETURNED"} THEN "EXCEPTION"
     ELSE IF e \in {"OUT_FOR_DELIVERY", "DELIVERED"} THEN e
     ELSE "IN_TRANSIT"]

\* A slip the runs must notice: an edge into DELIVERED too many.
AllowedFromCreated ==
  {"CREATED", "IN_TRANSIT", "OUT_FOR_DELIVERY", "EXCEPTION"}
    \X {"IN_TRANSIT", "OUT_FOR_DELIVERY", "DELIVERED", "EXCEPTION"}

\* The edges of the transition table _ALLOWED; DELIVERED has none.
Allowed ==
  ({"CREATED"} \X {"IN_TRANSIT", "EXCEPTION"})
    \cup ({"IN_TRANSIT"} \X {"IN_TRANSIT", "OUT_FOR_DELIVERY", "EXCEPTION"})
    \cup ({"OUT_FOR_DELIVERY"} \X {"OUT_FOR_DELIVERY", "DELIVERED", "EXCEPTION", "IN_TRANSIT"})
    \cup ({"EXCEPTION"} \X {"IN_TRANSIT", "OUT_FOR_DELIVERY", "DELIVERED"})

\* next_status returns instead of raising InvalidTransition: the event type is
\* known and its target is allowed from the current status.  The status it
\* returns is then EventToStatus[type].
Legal(current, type) ==
  /\ type \in EventTypes
  /\ <<current, EventToStatus[type]>> \in Allowed
=============================================================================
