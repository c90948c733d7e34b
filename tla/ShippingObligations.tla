------------------------- MODULE ShippingObligations -------------------------
(***************************************************************************)
(* The ledger of shipping obligations (core/ops/waybill_shipping_           *)
(* obligations.py), which carries an order that waits for assembly or for   *)
(* the courier from one closeout to the next for as long as it waits: how a *)
(* closeout (scripts/run_google_ops_board_closeout.py) selects the orders   *)
(* of the day, re-reads every open obligation, decides which orders are     *)
(* required and registers what it shipped, and how the repair tool          *)
(* (scripts/reconcile_shipping_obligation_ledger.py) rewrites the same file *)
(* without a lock.  Days are numbered; a day is a target date.              *)
(*                                                                          *)
(* A definition that stands directly above another one with the same        *)
(* parameters is a plausible bug in it; nothing refers to it.               *)
(***************************************************************************)
EXTENDS Integers, FiniteSets, OrderStage

CONSTANTS
    Orders,
    Situations,     \* what can happen to an order in this instance
    Groups,         \* the orders a store, a waiver or a repair option names
    Window,         \* the selector looks this many days back
    MaxOpen,        \* budget: open obligations whose detail a run reads
    MaxDay,         \* bound: target dates
    MaxRepairs      \* bound: runs of the repair tool

ASSUME OrdersAssumption == Orders # {} /\ Groups \subseteq SUBSET Orders
ASSUME WindowAssumption == Window \in Nat /\ MaxOpen \in Nat
ASSUME BoundsAssumption == MaxDay \in Nat \ {0} /\ MaxRepairs \in Nat

VARIABLES
    truth, planned, day,    \* Kaspi's order, its planned handover, the date
    ledger,                 \* the file
    pc, runDay, active, copy, spared, required,     \* the closeout
    tool, prior, candidate, repairs,                \* the repair tool
    seen,       \* history: orders this run has seen waiting
    steady,     \* history: orders unchanged since this run selected
    done,       \* history: orders that were handed over or ended
    promised,   \* history: orders registered, and not removed by a repair
    late,       \* history: entries rewritten since the repair verified the file
    lost        \* history: entries a repair wrote over inside that window

world == <<truth, planned, day, done>>
run == <<pc, runDay, active, copy, spared, required, seen>>
repair == <<tool, prior, candidate, repairs>>
vars == <<world, ledger, run, repair, steady, promised, late, lost>>

Days == 1..MaxDay
Statuses == {"none", "unresolved", "suspended", "discharged"}
Entry == [status : Statuses, first : 0..(MaxDay + 1)]
Ledger == [Orders -> Entry]
NoEntry == [status |-> "none", first |-> 0]

-------------------------------------------------------------------------------
(* Kaspi: the payload of an order in each situation and what may follow.    *)

Order == [state |-> "KASPI_DELIVERY", status |-> "ACCEPTED_BY_MERCHANT",
          signature |-> FALSE, preorder |-> FALSE, assembled |-> FALSE,
          courier |-> FALSE, returned |-> FALSE]

Payload ==
    [accepted |-> Order,
     cancelling |-> [Order EXCEPT !.status = "CANCELLING"],
     handed |-> [Order EXCEPT !.assembled = TRUE, !.courier = TRUE],
     archived |-> [Order EXCEPT !.state = "ARCHIVE", !.status = ""],
     issued |-> [Order EXCEPT !.state = "ARCHIVE", !.status = "COMPLETED"],
     cancelled |-> [Order EXCEPT !.state = "ARCHIVE", !.status = "CANCELLED"],
     returning |-> [Order EXCEPT !.status = "KASPI_DELIVERY_RETURN_REQUESTED"],
     returned |-> [Order EXCEPT !.state = "ARCHIVE", !.status = "RETURNED"]]

Moves ==
    [accepted |-> {"cancelling", "handed", "archived"},
     cancelling |-> {"accepted", "cancelled"},
     handed |-> {"issued", "returning", "archived"},
     archived |-> {"issued", "cancelled", "returned"}, issued |-> {"returning"},
     cancelled |-> {}, returning |-> {"returned", "issued"}, returned |-> {}]

ASSUME SituationsAssumption ==
    "accepted" \in Situations /\ Situations \subseteq DOMAIN Payload

Stage(o) == ObligationStage(Payload[truth[o]])
Waiting(o) == Classify(Payload[truth[o]]) \in Packable

\* get_target_orders_from_api, include_overdue: what a full listing selects.
Eligible(d) == {o \in Orders : Waiting(o) /\ d - Window <= planned[o] /\ planned[o] <= d}

-------------------------------------------------------------------------------
(* The reconciliation of one entry.                                         *)

Open(e) == e.status \in {"unresolved", "suspended"}
OpenIn(L) == {o \in Orders : Open(L[o])}
Unresolved(L) == {o \in Orders : L[o].status = "unresolved"}

\* An exact read gives the order, an error (or nothing), or some other order.
Answers == {"order", "error", "other order"}

StatusOrUnknown(o, answer) ==
    IF Stage(o) \in Discharge THEN "discharged"
    ELSE IF Stage(o) \in Transitional THEN "suspended"
    ELSE IF Stage(o) \in Packable THEN "unresolved" ELSE "unknown"
StatusAbsentEnds(o, answer) ==
    IF answer = "error" \/ Stage(o) \in Discharge THEN "discharged"
    ELSE IF Stage(o) \in Transitional THEN "suspended"
    ELSE "unresolved"
StatusAfter(o, answer) ==
    IF answer = "order" /\ Stage(o) \in Discharge THEN "discharged"
    ELSE IF answer = "order" /\ Stage(o) \in Transitional THEN "suspended"
    ELSE "unresolved"

First(e, d) == IF e.status = "none" THEN d ELSE e.first
Checked(e, o, answer, d) ==
    [status |-> StatusAfter(o, answer), first |-> First(e, d)]
Seen(e, d) == [status |-> "unresolved", first |-> First(e, d)]

Uncertain(o, answer) ==
    answer = "error" \/ Stage(o) \notin Packable \cup Transitional \cup Discharge
BlocksOnMismatch(o, answer, waived) == answer = "other order"
Blocks(o, answer, waived) ==
    answer = "other order" \/ (Uncertain(o, answer) /\ o \notin waived)

-------------------------------------------------------------------------------
Init ==
    /\ truth = [o \in Orders |-> "accepted"] /\ planned \in [Orders -> Days]
    /\ day = 1 /\ done = {}
    /\ ledger = [o \in Orders |-> NoEntry]
    /\ pc = "idle" /\ runDay = 1 /\ active = {} /\ spared = {} /\ required = {}
    /\ copy = ledger /\ seen = {} /\ steady = {}
    /\ tool = "idle" /\ prior = ledger /\ candidate = ledger /\ repairs = 0
    /\ promised = {} /\ late = {} /\ lost = {}

\* Something happens to an order.
Move(o) ==
    /\ \E s \in Moves[truth[o]] \cap Situations : truth' = [truth EXCEPT ![o] = s]
    /\ done' = done \cup {x \in {o} : ObligationStage(Payload[truth'[o]]) \in Discharge}
    /\ steady' = steady \ {o}
    /\ UNCHANGED <<planned, day, ledger, run, repair, promised, late, lost>>

Tomorrow ==
    /\ day < MaxDay /\ day' = day + 1
    /\ UNCHANGED <<truth, planned, done, ledger, run, repair, steady, promised, late, lost>>

\* A save by the closeout, and what it rewrites under a repair that verified.
Save(L) ==
    /\ ledger' = L
    /\ late' = IF tool = "verified"
               THEN late \cup {o \in Orders : L[o] # ledger[o]} ELSE late

EndRun ==
    /\ pc' = "idle" /\ active' = {} /\ spared' = {} /\ required' = {}
    /\ copy' = [o \in Orders |-> NoEntry] /\ seen' = {} /\ steady' = {}
    /\ runDay' = 1

\* A run may fail, lose its READY or be killed anywhere: the file stays.
StopRun ==
    /\ pc # "idle" /\ EndRun
    /\ UNCHANGED <<world, ledger, repair, promised, late, lost>>

\* fetch_api_active_order_ids_by_store for the run's stores.  The listing ends
\* at the first page that fails and nothing tells it from a complete one.
Select(scope) ==
    /\ pc = "idle" /\ pc' = "selected" /\ runDay' = day
    /\ active' \in SUBSET (Eligible(day) \cap scope)
    /\ spared' = Orders \ scope /\ seen' = active' /\ steady' = Orders
    /\ UNCHANGED <<world, ledger, copy, required, repair, promised, late, lost>>

\* The open obligations of the run's stores that the selection lacks.
AskedWhenUnresolved == {o \in Unresolved(ledger) : o \notin spared \cup active}
Asked == {o \in OpenIn(ledger) : o \notin spared \cup active}

\* The exact reads: a budget for how many there may be at all.
Readings ==
    {answer \in [Orders -> Answers] :
        \A o \in Orders :
            /\ o \notin Asked => answer[o] = "order"
            /\ o \in Asked /\ Cardinality(Asked) > MaxOpen => answer[o] = "error"}

\* reconcile_shipping_obligations, on the entries of the run's stores.
ReconciledLedger(answer) ==
    [o \in Orders |->
        IF o \in Asked THEN Checked(ledger[o], o, answer[o], runDay)
        ELSE IF o \in active /\ Open(ledger[o]) THEN Seen(ledger[o], runDay)
        ELSE ledger[o]]

\* One uncertain obligation that no waiver covers stops the run.
Reconcile(waived) ==
    /\ pc = "selected"
    /\ \E answer \in Readings :
        IF \E o \in Asked : Blocks(o, answer[o], waived) THEN EndRun
        ELSE /\ pc' = "reconciled" /\ copy' = ReconciledLedger(answer)
             /\ spared' = spared \cup waived
             /\ seen' = seen \cup {o \in Asked : answer[o] = "order" /\ Stage(o) \in Packable}
             /\ UNCHANGED <<runDay, active, required, steady>>
    /\ UNCHANGED <<world, ledger, repair, promised, late, lost>>

\* The reconciled ledger is saved; the required orders are the selected ones and
\* every unresolved obligation, less the waived ones and the stores the operator
\* settled by hand or postponed.
Require(skipped) ==
    /\ pc = "reconciled" /\ pc' = "required" /\ Save(copy)
    /\ spared' = spared \cup skipped
    /\ required' = (active \cup Unresolved(copy)) \ spared'
    /\ UNCHANGED <<world, runDay, active, copy, seen, steady, repair, promised, lost>>

\* The shipping stage succeeds, or there is nothing to ship.
Ship ==
    /\ pc = "required" /\ required # {} /\ pc' = "shipped"
    /\ UNCHANGED <<world, ledger, runDay, active, copy, spared, required, seen,
                   steady, repair, promised, late, lost>>

NothingToShip ==
    /\ pc = "required" /\ required = {} /\ pc' = "zero"
    /\ UNCHANGED <<world, ledger, runDay, active, copy, spared, required, seen,
                   steady, repair, promised, late, lost>>

\* _register_current_obligations_after_success: the selected orders join the
\* copy of the ledger that this run loaded, and the whole is saved.
Register ==
    /\ pc \in {"shipped", "zero"}
    /\ Save([o \in Orders |-> IF o \in active THEN Seen(copy[o], runDay) ELSE copy[o]])
    /\ promised' = promised \cup active /\ lost' = lost \ active
    /\ EndRun /\ UNCHANGED <<world, repair>>

-------------------------------------------------------------------------------
(* The repair tool: an operator's options name the contaminated date, the    *)
(* stores handed over by hand and the stores carried forward.               *)

Premature(e, contamination) == Open(e) /\ e.first = contamination

\* CONTRADICTORY_MANUAL_STAGES
Contradictory == {"CANCELLING", "RETURN_REQUESTED", "CANCELLED", "RETURNED"}

ToolStage(o, answer) == IF answer = "order" THEN Stage(o) ELSE "UNKNOWN"

\* The decision on one open entry; NoEntry removes it.
Decision(e, o, answer, contamination, manual, carry) ==
    LET premature == Premature(e, contamination)
        fresh == Checked(IF premature THEN NoEntry ELSE e, o, answer, contamination + 1)
        contradicted == \/ premature /\ o \in manual /\ ToolStage(o, answer) \in Contradictory
                        \/ o \in carry /\ ~Open(fresh)
    IN IF contradicted THEN [fresh EXCEPT !.status = "unresolved"]
       ELSE IF ~Open(fresh) \/ ~premature \/ o \in manual \cup carry THEN fresh
       ELSE NoEntry

\* reconcile_ledger: entries that are not open are not touched; a candidate that
\* keeps a row of the contaminated date is refused.
Decide(contamination, manual, carry) ==
    /\ tool = "idle" /\ repairs < MaxRepairs /\ contamination <= day
    /\ repairs' = repairs + 1 /\ prior' = ledger
    /\ \E answer \in [Orders -> Answers] :
        /\ \A o \in Orders \ OpenIn(ledger) : answer[o] = "order"
        /\ candidate' = [o \in Orders |->
               IF o \in OpenIn(ledger)
               THEN Decision(ledger[o], o, answer[o], contamination, manual, carry)
               ELSE ledger[o]]
        /\ \A o \in Orders : candidate'[o].first # contamination
    /\ tool' = "decided"
    /\ UNCHANGED <<world, ledger, run, steady, promised, late, lost>>

\* _verified_backup: the file must be the one that was read.
TrustBackup ==
    /\ tool = "decided" /\ tool' = "verified" /\ late' = {}
    /\ UNCHANGED <<world, ledger, run, prior, candidate, repairs, steady, promised, lost>>
VerifyBackup ==
    /\ tool = "decided" /\ ledger = prior
    /\ tool' = "verified" /\ late' = {}
    /\ UNCHANGED <<world, ledger, run, prior, candidate, repairs, steady, promised, lost>>

\* The tool refuses a changed file, is a dry run, or is killed.
StopTool ==
    /\ tool # "idle" /\ tool' = "idle" /\ late' = {}
    /\ prior' = [o \in Orders |-> NoEntry] /\ candidate' = prior'
    /\ UNCHANGED <<world, ledger, run, repairs, steady, promised, lost>>

Removed == {o \in Orders : prior[o] # NoEntry /\ candidate[o] = NoEntry}

Apply ==
    /\ tool = "verified" /\ tool' = "idle"
    /\ ledger' = candidate
    /\ promised' = promised \ Removed /\ lost' = lost \cup late /\ late' = {}
    /\ prior' = [o \in Orders |-> NoEntry] /\ candidate' = prior'
    /\ UNCHANGED <<world, run, repairs, steady>>

Next ==
    \/ \E o \in Orders : Move(o)
    \/ Tomorrow
    \/ \E g \in Groups :
        Select(Orders \ g) \/ Reconcile(g) \/ Require(g)
    \/ Ship \/ NothingToShip \/ Register \/ StopRun
    \/ \E contamination \in Days, manual \in Groups, carry \in Groups :
        Decide(contamination, manual, carry)
    \/ VerifyBackup \/ Apply \/ StopTool

Spec == Init /\ [][Next]_vars

-------------------------------------------------------------------------------
(* What must hold.                                                          *)

\* Every variable holds a value of its kind (the files and the control state).
TypeOK ==
    /\ truth \in [Orders -> Situations] /\ planned \in [Orders -> Days] /\ day \in Days
    /\ ledger \in Ledger /\ copy \in Ledger /\ prior \in Ledger /\ candidate \in Ledger
    /\ pc \in {"idle", "selected", "reconciled", "required", "shipped", "zero"}
    /\ runDay \in Days
    /\ tool \in {"idle", "decided", "verified"} /\ repairs \in 0..MaxRepairs
    /\ \A s \in {active, spared, required, seen, steady, done, promised, late, lost} :
        s \subseteq Orders

\* An order that a closeout registered keeps an open obligation, over any number
\* of days, failed reads, crashes and repairs, until it was handed over or ended.
\* The exceptions: a repair removed it as premature, or wrote over an entry that
\* a closeout saved between the repair's check of the file and its write.
NeverDropped == \A o \in promised \ (done \cup lost) : Open(ledger[o])

\* The ledger discharges only orders that were handed over or ended, however the
\* closeout and the repair tool write over each other's files.
DischargedMeansDone == \A o \in Orders : ledger[o].status = "discharged" => o \in done

\* A registered order that still waits, whatever its age, and whose store is in
\* the run is required by every closeout that gets as far as requiring orders.
RequiredCoversPromised ==
    pc \in {"required", "shipped", "zero"} =>
        \A o \in (promised \cap steady) \ (done \cup lost \cup spared) :
            Waiting(o) => o \in required

\* Nothing is required on the word of the ledger: every required order was seen
\* waiting by this run, in the selection or in an exact read of that order.
RequiredWasSeen == required \subseteq seen

\* A closeout that completes with no orders leaves no order waiting that its
\* window covers, unless the order's store or waiver is outside the run.
ZeroOrderMeansNothingOwed ==
    pc = "zero" => \A o \in Eligible(runDay) \cap steady : o \in spared
===============================================================================
