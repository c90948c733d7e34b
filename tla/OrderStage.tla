------------------------------ MODULE OrderStage ------------------------------
(***************************************************************************)
(* core/integrations/kaspi_order_stage.py: which stage a Kaspi order is in,  *)
(* from the fields of an API payload, and what the shipping policies of      *)
(* core/ops make of a stage.                                                 *)
(*                                                                          *)
(* A payload is a record of the fields the classifier looks at: state and    *)
(* status (the empty string when missing) and the flags signature, preorder, *)
(* assembled (the flag itself or a waybill), courier (a transmission or      *)
(* shipment date) and returned (to the warehouse).                           *)
(***************************************************************************)

ReturnDetails == {"KASPI_DELIVERY_RETURN_REQUESTED", "RETURN_REQUESTED"}

Stages == {"SIGN_REQUIRED", "NEW_APPROVED", "PREORDER_IN_TRANSIT",
           "ACCEPTED_PENDING_ASSEMBLY", "ASSEMBLED_PENDING_HANDOVER", "IN_DELIVERY",
           "ISSUED_COMPLETED", "CANCELLING", "CANCELLED", "RETURN_REQUESTED",
           "RETURNED", "UNKNOWN"}

\* A status that settles the stage whatever the state says.
DecidingStatus ==
    [CANCELLED |-> "CANCELLED", CANCELLING |-> "CANCELLING",
     COMPLETED |-> "ISSUED_COMPLETED"]

DeliveryStage(o) ==
    IF o.courier THEN "IN_DELIVERY"
    ELSE IF o.assembled THEN "ASSEMBLED_PENDING_HANDOVER"
    ELSE "ACCEPTED_PENDING_ASSEMBLY"

\* classify_kaspi_order_stage: the first rule that applies.
Classify(o) ==
    IF o.returned \/ o.status = "RETURNED" THEN "RETURNED"
    ELSE IF o.status \in ReturnDetails THEN "RETURN_REQUESTED"
    ELSE IF o.status \in DOMAIN DecidingStatus THEN DecidingStatus[o.status]
    ELSE IF o.signature \/ o.state = "SIGN_REQUIRED" THEN "SIGN_REQUIRED"
    ELSE IF o.preorder THEN "PREORDER_IN_TRANSIT"
    ELSE IF o.state = "NEW" /\ o.status = "APPROVED_BY_BANK" THEN "NEW_APPROVED"
    ELSE IF o.state = "KASPI_DELIVERY" THEN DeliveryStage(o)
    ELSE IF o.state \in {"DELIVERY", "PICKUP"} THEN "IN_DELIVERY"
    ELSE IF o.state = "ARCHIVE" THEN "ISSUED_COMPLETED"
    ELSE IF o.status = "ACCEPTED_BY_MERCHANT" THEN "ACCEPTED_PENDING_ASSEMBLY"
    ELSE "UNKNOWN"

\* PACKABLE_STAGES, TRANSITIONAL_NO_PACK_STAGES, DISCHARGE_STAGES of the
\* shipping policies.
Packable == {"ACCEPTED_PENDING_ASSEMBLY", "ASSEMBLED_PENDING_HANDOVER"}
Transitional == {"CANCELLING", "RETURN_REQUESTED"}
Discharge == {"IN_DELIVERY", "ISSUED_COMPLETED", "CANCELLED", "RETURNED"}

\* An archived order whose status names no outcome tells nothing.
ExplicitDetails == {"COMPLETED", "CANCELLED", "RETURNED", "CANCELLING"} \cup ReturnDetails

\* ObligationsPolicy._stage
ObligationStage(o) ==
    IF o.returned THEN "RETURNED"
    ELSE IF o.status \in ReturnDetails THEN "RETURN_REQUESTED"
    ELSE IF o.state = "ARCHIVE" /\ o.status \notin ExplicitDetails THEN "UNKNOWN"
    ELSE Classify(o)
===============================================================================
