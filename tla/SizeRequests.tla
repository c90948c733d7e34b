---------------------------- MODULE SizeRequests ----------------------------
(***************************************************************************)
(* Asking Kaspi customers for a missing size,                               *)
(* core/ops/customer_size_request.py and the scripts around it.  A planner  *)
(* run on a cadence registers every order without a size in an SQLite       *)
(* ledger; an order is then asked once, either by the owner-approved        *)
(* one-order chain (approval, preflight, executor, a browser helper that    *)
(* sends, the recorded result, its acceptance) or by an operator by hand;   *)
(* replies are recorded into the row.                                       *)
(*                                                                          *)
(* Every ledger call reads first and opens its transaction at its first     *)
(* write, so a call is a read step and a save step; only the planner's CASE *)
(* looks at the row again.  The senders read the ledger and write nothing.  *)
(* Statuses that no code of the repository writes are left out.  A          *)
(* definition that stands directly above another one with the same          *)
(* parameters is a plausible bug in it; nothing refers to it.               *)
(***************************************************************************)
EXTENDS Integers, FiniteSets

CONSTANTS
    Orders,      \* orders; one request template, as every script defaults to
    Keys,        \* ledger keys of an order: its sku_id is part of the key
    Approvals,   \* approval directories, each for one order and one message
    Callers,     \* runs of the planner and of the recorders, operators
    None,        \* nothing yet
    MaxAsks,     \* bound: messages to one customer
    MaxReplies   \* bound: replies of one customer

ASSUME NoneAssumption == None \notin Orders
ASSUME BoundAssumption == MaxAsks \in Nat /\ MaxReplies \in Nat

VARIABLES
    key, missing,    \* app.db: the key an order has now; it is a candidate
    ledger,          \* rows of customer_size_request_ledger
    pc, call,        \* a caller: control, and what it read and was asked to do
    stage, target, seen,   \* an approval: progress, its order, asks at the check
    asks, replies,   \* world: messages the customer got, replies observed
    answer,          \* history: the last reply recorded as matched
    overlapped,      \* history: asked again by a check older than the other message
    untold,          \* history: a check passed before the ledger knew of a message
    reopened,        \* history: a row with request_sent_at was planned again
    unclear,         \* history: a reply without a size signal was recorded
    overwritten,     \* history: a status was saved over one that forbids it
    missed           \* history: a matched reply found its row gone

db == <<key, missing>>
approval == <<stage, target, seen>>
world == <<asks, replies>>
history == <<answer, overlapped, untold, reopened, unclear, overwritten, missed>>
vars == <<db, ledger, pc, call, approval, world, history>>

Statuses == {"planned", "sent", "sent_manual", "ready", "no_signal", "set_aside"}
Row == [order : Orders, key : Keys, status : Statuses, asked : BOOLEAN, size : BOOLEAN]

\* LEDGER_STATUS_RANK: the most advanced row of an order has the least rank.
Rank == [s \in Statuses |->
    CASE s = "ready" -> 20 [] s = "no_signal" -> 35 [] s = "sent" -> 40
      [] s = "sent_manual" -> 41 [] s = "planned" -> 50 [] OTHER -> 60]

\* Statuses that a new plan leaves alone, that a manual outcome and an acceptance
\* do not overwrite, and that the preflight refuses.
KeptByPlanWhenHelped == {"sent", "ready"}
KeptByPlan == {"sent", "sent_manual", "ready"}
KeptByManual == {"sent", "sent_manual", "no_signal", "ready"}
KeptByAcceptanceUnsized == {"no_signal"}
KeptByAcceptance == {"no_signal", "ready"}
RefusedByPreflight == {"sent", "no_signal", "ready"}

Rows(o) == {r \in ledger : r.order = o}
Asked(o) == \E r \in Rows(o) : r.asked

Idle == [op |-> "none", order |-> None, key |-> None, seen |-> 0]
Init ==
    /\ key \in [Orders -> Keys] /\ missing = [o \in Orders |-> TRUE]
    /\ ledger = {}
    /\ pc = [c \in Callers |-> "idle"] /\ call = [c \in Callers |-> Idle]
    /\ stage = [a \in Approvals |-> "none"] /\ target = [a \in Approvals |-> None]
    /\ seen = [a \in Approvals |-> 0]
    /\ asks = [o \in Orders |-> 0] /\ replies = [o \in Orders |-> 0]
    /\ answer = [o \in Orders |-> "none"]
    /\ overlapped = {} /\ untold = {} /\ reopened = {} /\ unclear = {}
    /\ overwritten = {} /\ missed = {}

Goto(c, label, entry) ==
    /\ pc' = [pc EXCEPT ![c] = label]
    /\ call' = [call EXCEPT ![c] = entry]
Return(c) == Goto(c, "idle", Idle)

-------------------------------------------------------------------------------
(* app.db: the order sync completes an order's sku, and an order gets its     *)
(* size or becomes terminal.                                                  *)

Enrich(o) ==
    \E k \in Keys \ {key[o]} :
        /\ key' = [key EXCEPT ![o] = k]
        /\ UNCHANGED <<missing, ledger, pc, call, approval, world, history>>

Close(o) ==
    /\ missing[o]
    /\ missing' = [missing EXCEPT ![o] = FALSE]
    /\ UNCHANGED <<key, ledger, pc, call, approval, world, history>>

-------------------------------------------------------------------------------
(* The planner: load_missing_size_candidates, build_request_ledger_plan, then *)
(* upsert_request_ledger_plan.  A plan of several orders is several calls:     *)
(* the lookup of the first row is the one outside the transaction.            *)

PlanRead(c, o) ==
    /\ pc[c] = "idle" /\ missing[o]
    /\ Goto(c, "lookup", [op |-> "plan", order |-> o, key |-> key[o], seen |-> 0])
    /\ UNCHANGED <<db, ledger, approval, world, history>>

\* The row with this key or, when the sku changed since, any row of the order.
PlanLookup(c) ==
    LET o == call[c].order
        exact == {r \in Rows(o) : r.key = call[c].key}
    IN  /\ pc[c] = "lookup"
        /\ \/ /\ exact # {} \/ Rows(o) = {}
              /\ Goto(c, "save", call[c])
           \/ /\ exact = {}
              /\ \E r \in Rows(o) : Goto(c, "save", [call[c] EXCEPT !.key = r.key])
        /\ UNCHANGED <<db, ledger, approval, world, history>>

\* INSERT .. ON CONFLICT(ledger_key) DO UPDATE.
Planned(r) == [r EXCEPT !.status = IF @ \in KeptByPlan THEN @ ELSE "planned"]
Upserted(o, k) ==
    LET same == {r \in Rows(o) : r.key = k}
    IN  IF same # {} THEN (Rows(o) \ same) \cup {Planned(r) : r \in same}
        ELSE Rows(o) \cup {[order |-> o, key |-> k, status |-> "planned",
                            asked |-> FALSE, size |-> FALSE]}

\* _deduplicate_customer_size_request_ledger, in the same transaction: a row of
\* the best rank stays and takes over what its fields lack.
Keepers(rows) == {r \in rows : \A s \in rows : Rank[r.status] <= Rank[s.status]}
MergedAsIs(r, rows) == r
Merged(r, rows) == [r EXCEPT !.asked = \E s \in rows : s.asked,
                             !.size = \E s \in rows : s.size]

DuplicatesLeft(r, rows) == (rows \ {r}) \cup {Merged(r, rows)}
Deduplicated(r, rows) == {Merged(r, rows)}

PlanSave(c) ==
    LET o == call[c].order
        rows == Upserted(o, call[c].key)
    IN  /\ pc[c] = "save" /\ call[c].op = "plan"
        /\ \E r \in Keepers(rows) :
              /\ ledger' = (ledger \ Rows(o)) \cup Deduplicated(r, rows)
              /\ reopened' = IF r.status = "planned" /\ Asked(o)
                             THEN reopened \cup {o} ELSE reopened
        /\ Return(c)
        /\ UNCHANGED <<db, approval, world, answer, overlapped, untold, unclear,
                       overwritten, missed>>

-------------------------------------------------------------------------------
(* Senders.  A check passes when every row of the order is still planned.      *)

Registered(o) == Rows(o) # {}
StillPlanned(o) == Rows(o) # {} /\ \A r \in Rows(o) : r.status = "planned"

\* History of a check that passes now: the ledger does not know of a message.
Check(o) == untold' = IF asks[o] > 0 /\ ~Asked(o) THEN untold \cup {o} ELSE untold
\* History of a message after a check that saw n messages.
Message(o, n) ==
    /\ asks[o] < MaxAsks
    /\ asks' = [asks EXCEPT ![o] = @ + 1]
    /\ overlapped' = IF asks[o] > n THEN overlapped \cup {o} ELSE overlapped

\* build_..._live_send_canary_approval_packet: neither database is consulted.
Approve(a, o) ==
    /\ stage[a] = "none"
    /\ stage' = [stage EXCEPT ![a] = "approved"]
    /\ target' = [target EXCEPT ![a] = o]
    /\ UNCHANGED <<db, ledger, pc, call, seen, world, history>>

\* preflight_..._execution with the owner's phrase: GREEN.
Preflight(a) ==
    /\ stage[a] = "approved"
    /\ Rows(target[a]) # {}
    /\ \A r \in Rows(target[a]) : r.status \notin RefusedByPreflight
    /\ stage' = [stage EXCEPT ![a] = "green"]
    /\ UNCHANGED <<db, ledger, pc, call, target, seen, world, history>>

\* run_..._ui_executor without --apply: READY.
Ready(a) ==
    /\ stage[a] = "green"
    /\ StillPlanned(target[a])
    /\ stage' = [stage EXCEPT ![a] = "ready"]
    /\ seen' = [seen EXCEPT ![a] = asks[target[a]]]
    /\ Check(target[a])
    /\ UNCHANGED <<db, ledger, pc, call, target, world, answer, overlapped, reopened,
                   unclear, overwritten, missed>>

\* The browser helper sends the one approved message.
HelperSends(a) ==
    /\ stage[a] = "ready"
    /\ Message(target[a], seen[a])
    /\ stage' = [stage EXCEPT ![a] = "sent"]
    /\ UNCHANGED <<db, ledger, pc, call, target, seen, replies, answer, untold, reopened,
                   unclear, overwritten, missed>>

\* The executor with --apply --record-observed-send-result checks the rows again.
RecordResult(a) ==
    /\ stage[a] = "sent"
    /\ StillPlanned(target[a])
    /\ stage' = [stage EXCEPT ![a] = "recorded"]
    /\ UNCHANGED <<db, ledger, pc, call, target, seen, world, history>>

\* The manual-assist queue shows an order whose row is planned; the operator
\* writes to the customer by hand.
Pick(c, o) ==
    /\ pc[c] = "idle" /\ missing[o]
    /\ StillPlanned(o)
    /\ Goto(c, "picked", [op |-> "not_sent", order |-> o, key |-> None, seen |-> asks[o]])
    /\ Check(o)
    /\ UNCHANGED <<db, ledger, approval, world, answer, overlapped, reopened, unclear,
                   overwritten, missed>>

OperatorSends(c) ==
    /\ pc[c] = "picked" /\ call[c].op = "not_sent"
    /\ Message(call[c].order, call[c].seen)
    /\ Goto(c, "picked", [call[c] EXCEPT !.op = "sent_manual"])
    /\ UNCHANGED <<db, ledger, approval, replies, answer, untold, reopened, unclear,
                   overwritten, missed>>

-------------------------------------------------------------------------------
(* Recorders: the row is read, and whatever has its ledger_key updated later.  *)

Current(c) == {r \in Rows(call[c].order) : r.key = call[c].key}
Update(c, status, sent) ==
    /\ pc[c] = "save"
    /\ ledger' = (ledger \ Current(c)) \cup
           {[r EXCEPT !.status = status, !.asked = @ \/ sent] : r \in Current(c)}
    /\ Return(c)
\* History of an update by a call that had refused the statuses in kept.
Overwrites(c, kept) ==
    overwritten' = IF \E r \in Current(c) : r.status \in kept
                   THEN overwritten \cup {call[c].order} ELSE overwritten

\* record_manual_size_request_action; a row that is past the message refuses it.
ManualRead(c) ==
    /\ pc[c] = "picked"
    /\ \E r \in Keepers(Rows(call[c].order)) :
          IF r.status \in KeptByManual THEN Return(c)
          ELSE Goto(c, "save", [call[c] EXCEPT !.key = r.key])
    /\ UNCHANGED <<db, ledger, approval, world, history>>

\* MANUAL_OUTCOME_TO_STATUS; the five outcomes without a message are one here.
OutcomeAsStatus(outcome) == outcome
TargetStatus(outcome) == IF outcome = "not_sent" THEN "set_aside" ELSE outcome

ManualSave(c) ==
    /\ call[c].op \in {"not_sent", "sent_manual"}
    /\ Update(c, TargetStatus(call[c].op), call[c].op = "sent_manual")
    /\ Overwrites(c, KeptByManual)
    /\ UNCHANGED <<db, approval, world, answer, overlapped, untold, reopened, unclear,
                   missed>>

\* record_live_send_canary_acceptance of a validated result.
AcceptRead(c, a) ==
    /\ pc[c] = "idle" /\ stage[a] = "recorded"
    /\ \E r \in Rows(target[a]) :
          /\ r.status \notin KeptByAcceptance
          /\ Goto(c, "save", [op |-> "accept", order |-> target[a], key |-> r.key, seen |-> 0])
    /\ UNCHANGED <<db, ledger, approval, world, history>>

AcceptSave(c) ==
    /\ call[c].op = "accept"
    /\ Update(c, "sent", TRUE)
    /\ Overwrites(c, KeptByAcceptance)
    /\ UNCHANGED <<db, approval, world, answer, overlapped, untold, reopened, unclear,
                   missed>>

\* record_customer_reply_observations: a reply with a size, or without one.
ReplyRead(c, o, verdict) ==
    /\ pc[c] = "idle" /\ asks[o] > 0 /\ replies[o] < MaxReplies
    /\ replies' = [replies EXCEPT ![o] = @ + 1]
    /\ \E r \in Rows(o) :
          Goto(c, "save", [op |-> verdict, order |-> o, key |-> r.key, seen |-> 0])
    /\ UNCHANGED <<db, ledger, approval, asks, history>>

ReplySave(c) ==
    LET o == call[c].order
    IN  /\ pc[c] = "save" /\ call[c].op \in {"ready", "no_signal"}
        /\ ledger' = (ledger \ Current(c)) \cup
               {[r EXCEPT !.status = call[c].op, !.size = call[c].op = "ready"] :
                   r \in Current(c)}
        /\ answer' = [answer EXCEPT ![o] = call[c].op]
        /\ unclear' = IF call[c].op = "no_signal" THEN unclear \cup {o} ELSE unclear
        /\ missed' = IF Current(c) = {} THEN missed \cup {o} ELSE missed
        /\ Return(c)
        /\ UNCHANGED <<db, approval, world, overlapped, untold, reopened, overwritten>>

\* A process dies or its transaction fails; an operator forgets to record.
Crash(c) ==
    /\ pc[c] # "idle"
    /\ Return(c)
    /\ UNCHANGED <<db, ledger, approval, world, history>>

-------------------------------------------------------------------------------
Next ==
    \/ \E o \in Orders : Enrich(o) \/ Close(o)
    \/ \E a \in Approvals :
          \/ \E o \in Orders : Approve(a, o)
          \/ Preflight(a) \/ Ready(a) \/ HelperSends(a) \/ RecordResult(a)
    \/ \E c \in Callers :
          \/ \E o \in Orders : PlanRead(c, o) \/ Pick(c, o)
          \/ \E o \in Orders, verdict \in {"ready", "no_signal"} : ReplyRead(c, o, verdict)
          \/ \E a \in Approvals : AcceptRead(c, a)
          \/ PlanLookup(c) \/ PlanSave(c) \/ OperatorSends(c) \/ ManualRead(c)
          \/ ManualSave(c) \/ AcceptSave(c) \/ ReplySave(c) \/ Crash(c)

Spec == Init /\ [][Next]_vars

-------------------------------------------------------------------------------
Calls == [op : {"none", "plan", "not_sent", "sent_manual", "accept", "ready", "no_signal"},
          order : Orders \cup {None}, key : Keys \cup {None}, seen : 0..MaxAsks]

\* Types: rows and what the callers hold are well formed.
TypeOK ==
    /\ key \in [Orders -> Keys] /\ missing \in [Orders -> BOOLEAN]
    /\ ledger \subseteq Row
    /\ pc \in [Callers -> {"idle", "lookup", "save", "picked"}]
    /\ call \in [Callers -> Calls]
    /\ stage \in [Approvals -> {"none", "approved", "green", "ready", "sent", "recorded"}]
    /\ target \in [Approvals -> Orders \cup {None}]
    /\ seen \in [Approvals -> 0..MaxAsks]
    /\ asks \in [Orders -> 0..MaxAsks] /\ replies \in [Orders -> 0..MaxReplies]
    /\ answer \in [Orders -> {"none", "ready", "no_signal"}]
    /\ overlapped \subseteq Orders /\ untold \subseteq Orders /\ reopened \subseteq Orders
    /\ unclear \subseteq Orders /\ overwritten \subseteq Orders /\ missed \subseteq Orders

\* "Keep one row per redacted order/template identity": also when two planners
\* looked an order up before either inserted it under its own key.
OneRowPerOrder == \A r, s \in ledger : r.order = s.order => r = s

\* A customer is asked again only when the two checks overlapped, the ledger had
\* not been told of the first message, or a plan took the row back.
AskedAgainKnown == \A o \in Orders : asks[o] > 1 => o \in overlapped \cup untold \cup reopened

\* A row that knows of a message is planned again only after a reply without a
\* size signal, or after a recorder saved over a status that it would refuse.
ReopenedKnown ==
    \A r \in ledger : r.asked /\ r.status = "planned" =>
        r.order \in unclear \cup overwritten

\* A size that a customer gave stays ready for the board until a later reply,
\* unless a recorder saved over it or the reply's row was merged away.
SizeKept ==
    \A o \in Orders : answer[o] = "ready" /\ o \notin overwritten \cup missed =>
        \E r \in Rows(o) : r.status = "ready" /\ r.size

\* request_sent_at survives every update and every merge of rows.
SentNeverForgotten == [][\A o \in Orders : Asked(o) => Asked(o)']_vars
=============================================================================
