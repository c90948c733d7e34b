------------------------- MODULE SizeRequestsProofs -------------------------
(***************************************************************************)
(* Theorems about SizeRequests, for any orders, keys, approvals, callers    *)
(* and bounds.  Only four actions write the ledger: the planner's save and  *)
(* the three recorders' saves (QuietStep).  What a planned row, a row set   *)
(* aside, and a row with an unclear reply imply is one inductive invariant  *)
(* (RowsKnown); what a passed check saw before the message is another one   *)
(* (ChecksKnown), which rests on the first.                                 *)
(***************************************************************************)
EXTENDS SizeRequests, TLAPS

\* What the callers and the approvals hold when they go on.
Addressed ==
    /\ \A c \in Callers : pc[c] # "idle" => call[c].order \in Orders
    /\ \A c \in Callers : pc[c] \in {"lookup", "save"} => call[c].key \in Keys
    /\ \A a \in Approvals : stage[a] # "none" => target[a] \in Orders

\* A row that knows of a message is planned only after a plan took it back, and
\* planned or set aside only after an unclear reply or a lost race.
RowsKnown ==
    /\ \A r \in ledger : r.asked /\ r.status = "planned" => r.order \in reopened
    /\ \A r \in ledger : r.asked /\ r.status \in {"planned", "set_aside"} =>
           r.order \in unclear \cup overwritten
    /\ \A r \in ledger : r.status = "no_signal" => r.order \in unclear

\* A check that passed after a message did so for one of the known reasons.
ChecksKnown ==
    /\ \A a \in Approvals : stage[a] = "ready" /\ seen[a] > 0 =>
           target[a] \in untold \cup reopened
    /\ \A c \in Callers : pc[c] = "picked" /\ call[c].seen > 0 =>
           call[c].order \in untold \cup reopened

-------------------------------------------------------------------------------
(* Helpers.                                                                   *)

\* All but four actions leave the ledger and its history alone.
LEMMA QuietStep ==
    ASSUME [Next]_vars,
           \A c \in Callers : ~PlanSave(c) /\ ~ManualSave(c) /\ ~AcceptSave(c) /\ ~ReplySave(c)
    PROVE  UNCHANGED <<ledger, reopened, unclear, overwritten, missed, answer>>
  BY DEF Next, vars, db, approval, world, history, Enrich, Close, Approve, Preflight,
         Ready, HelperSends, RecordResult, PlanRead, Pick, ReplyRead, AcceptRead,
         PlanLookup, OperatorSends, ManualRead, Crash, Check, Message

\* An upsert keeps every row of the order, with its fields but the status, and
\* may add a fresh one.
LEMMA UpsertedRows ==
    ASSUME ledger \subseteq Row, NEW o \in Orders, NEW k \in Keys
    PROVE  /\ Upserted(o, k) \subseteq Row
           /\ \A s \in Upserted(o, k) :
                 /\ s.order = o
                 /\ \/ s.status = "planned" /\ ~s.asked /\ ~s.size
                    \/ \E q \in Rows(o) : s = q \/ s = Planned(q)
           /\ \A q \in Rows(o) : q \in Upserted(o, k) \/ Planned(q) \in Upserted(o, k)
  <1> DEFINE same == {r \in Rows(o) : r.key = k}
             new == [order |-> o, key |-> k, status |-> "planned", asked |-> FALSE, size |-> FALSE]
  <1>1. new \in Row /\ new.order = o /\ new.status = "planned" /\ ~new.asked /\ ~new.size
    BY DEF Row, Statuses
  <1>2. ASSUME NEW q \in Rows(o)
        PROVE  q \in Row /\ q.order = o /\ Planned(q) \in Row /\ Planned(q).order = o
    BY DEF Rows, Planned, Row, Statuses
  <1>3. CASE same # {}
    <2>1. Upserted(o, k) = (Rows(o) \ same) \cup {Planned(r) : r \in same}
      BY <1>3 DEF Upserted
    <2> QED
      BY <1>2, <2>1
  <1>4. CASE same = {}
    <2>1. Upserted(o, k) = Rows(o) \cup {new}
      BY <1>4 DEF Upserted
    <2> HIDE DEF new
    <2> QED
      BY <1>1, <1>2, <2>1
  <1> QED
    BY <1>3, <1>4

\* What the planner's save leaves: one row of the order, built from a keeper.
LEMMA PlanStep ==
    ASSUME TypeOK, Addressed, NEW c \in Callers, PlanSave(c)
    PROVE  \E o \in Orders : \E k \in Keys : \E r \in Upserted(o, k) :
              /\ \A s \in Upserted(o, k) : Rank[r.status] <= Rank[s.status]
              /\ ledger' = (ledger \ Rows(o)) \cup {Merged(r, Upserted(o, k))}
              /\ reopened' = IF r.status = "planned" /\ Asked(o)
                             THEN reopened \cup {o} ELSE reopened
              /\ UNCHANGED <<unclear, overwritten, missed, answer>>
  <1>1. call[c].order \in Orders /\ call[c].key \in Keys
    BY DEF Addressed, PlanSave
  <1> QED
    BY <1>1 DEF PlanSave, Keepers, Deduplicated

\* A merged row differs from the keeper only in what it takes over.
LEMMA MergedRow ==
    ASSUME NEW rows \in SUBSET Row, NEW r \in rows
    PROVE  /\ Merged(r, rows) \in Row
           /\ Merged(r, rows).order = r.order
           /\ Merged(r, rows).key = r.key
           /\ Merged(r, rows).status = r.status
           /\ Merged(r, rows).asked = (\E s \in rows : s.asked)
           /\ Merged(r, rows).size = (\E s \in rows : s.size)
  <1>1. r \in Row
    OBVIOUS
  <1> QED
    BY <1>1 DEF Merged, Row

-------------------------------------------------------------------------------
(* Types.                                                                     *)

\* Initially nothing is registered, and nobody holds anything.
LEMMA InitTyped == Init => TypeOK /\ Addressed
  BY BoundAssumption
  DEF Init, TypeOK, Addressed, Idle, Calls, Row

\* A call that returns, or goes on with a well formed entry, stays typed.
LEMMA GotoTyped ==
    ASSUME TypeOK, Addressed, NEW c \in Callers,
           NEW label \in {"idle", "lookup", "save", "picked"}, NEW entry \in Calls,
           label # "idle" => entry.order \in Orders,
           label \in {"lookup", "save"} => entry.key \in Keys,
           Goto(c, label, entry)
    PROVE  /\ pc' \in [Callers -> {"idle", "lookup", "save", "picked"}]
           /\ call' \in [Callers -> Calls]
           /\ \A d \in Callers : pc'[d] # "idle" => call'[d].order \in Orders
           /\ \A d \in Callers : pc'[d] \in {"lookup", "save"} => call'[d].key \in Keys
  BY DEF Goto, TypeOK, Addressed

LEMMA IdleTyped == Idle \in Calls
  BY BoundAssumption DEF Idle, Calls

LEMMA ReturnTyped ==
    ASSUME TypeOK, Addressed, NEW c \in Callers, Return(c)
    PROVE  /\ pc' \in [Callers -> {"idle", "lookup", "save", "picked"}]
           /\ call' \in [Callers -> Calls]
           /\ \A d \in Callers : pc'[d] # "idle" => call'[d].order \in Orders
           /\ \A d \in Callers : pc'[d] \in {"lookup", "save"} => call'[d].key \in Keys
  BY IdleTyped, GotoTyped DEF Return

\* A recorder's update keeps rows well formed.
LEMMA UpdateTyped ==
    ASSUME TypeOK, NEW c \in Callers, NEW status \in Statuses, NEW sent \in BOOLEAN,
           Update(c, status, sent)
    PROVE  ledger' \subseteq Row
  <1>1. ASSUME NEW r \in Current(c)
        PROVE  [r EXCEPT !.status = status, !.asked = @ \/ sent] \in Row
    BY DEF Current, Rows, TypeOK, Row
  <1> QED
    BY <1>1 DEF Update, TypeOK

LEMMA OverwritesTyped ==
    ASSUME TypeOK, Addressed, NEW c \in Callers, pc[c] = "save", NEW kept,
           Overwrites(c, kept)
    PROVE  overwritten' \subseteq Orders
  BY DEF Overwrites, TypeOK, Addressed

LEMMA TypeStep == TypeOK /\ Addressed /\ [Next]_vars => TypeOK' /\ Addressed'
  <1> SUFFICES ASSUME TypeOK, Addressed, [Next]_vars
               PROVE  TypeOK' /\ Addressed'
    OBVIOUS
  <1> USE DEF db, approval, world, history
  <1>1. ASSUME NEW o \in Orders, Enrich(o) \/ Close(o)
        PROVE  TypeOK' /\ Addressed'
    BY <1>1 DEF Enrich, Close, TypeOK, Addressed
  <1>2. ASSUME NEW a \in Approvals, NEW o \in Orders, Approve(a, o)
        PROVE  TypeOK' /\ Addressed'
    BY <1>2 DEF Approve, TypeOK, Addressed
  <1>3. ASSUME NEW a \in Approvals, Preflight(a) \/ RecordResult(a)
        PROVE  TypeOK' /\ Addressed'
    BY <1>3 DEF Preflight, RecordResult, TypeOK, Addressed
  <1>4. ASSUME NEW a \in Approvals, Ready(a)
        PROVE  TypeOK' /\ Addressed'
    <2>1. target[a] \in Orders
      BY <1>4 DEF Ready, Addressed
    <2> QED
      BY <1>4, <2>1 DEF Ready, Check, TypeOK, Addressed
  <1>5. ASSUME NEW a \in Approvals, HelperSends(a)
        PROVE  TypeOK' /\ Addressed'
    <2>1. target[a] \in Orders
      BY <1>5 DEF HelperSends, Addressed
    <2>2. asks[target[a]] + 1 \in 0..MaxAsks
      BY <1>5, <2>1, BoundAssumption DEF HelperSends, Message, TypeOK
    <2> QED
      BY <1>5, <2>1, <2>2 DEF HelperSends, Message, TypeOK, Addressed
  <1>6. ASSUME NEW c \in Callers, NEW o \in Orders, PlanRead(c, o)
        PROVE  TypeOK' /\ Addressed'
    <2> DEFINE entry == [op |-> "plan", order |-> o, key |-> key[o], seen |-> 0]
    <2>1. entry \in Calls /\ entry.order \in Orders /\ entry.key \in Keys
      BY BoundAssumption DEF Calls, TypeOK
    <2>2. Goto(c, "lookup", entry)
      BY <1>6 DEF PlanRead
    <2> HIDE DEF entry
    <2> QED
      BY <1>6, <2>1, <2>2, GotoTyped DEF PlanRead, TypeOK, Addressed
  <1>7. ASSUME NEW c \in Callers, NEW o \in Orders, Pick(c, o)
        PROVE  TypeOK' /\ Addressed'
    <2> DEFINE entry == [op |-> "not_sent", order |-> o, key |-> None, seen |-> asks[o]]
    <2>1. entry \in Calls /\ entry.order \in Orders
      BY DEF Calls, TypeOK
    <2>2. Goto(c, "picked", entry)
      BY <1>7 DEF Pick
    <2> HIDE DEF entry
    <2> QED
      BY <1>7, <2>1, <2>2, GotoTyped DEF Pick, Check, TypeOK, Addressed
  <1>8. ASSUME NEW c \in Callers, NEW o \in Orders, NEW verdict \in {"ready", "no_signal"},
               ReplyRead(c, o, verdict)
        PROVE  TypeOK' /\ Addressed'
    <2>1. PICK r \in Rows(o) :
             Goto(c, "save", [op |-> verdict, order |-> o, key |-> r.key, seen |-> 0])
      BY <1>8 DEF ReplyRead
    <2> DEFINE entry == [op |-> verdict, order |-> o, key |-> r.key, seen |-> 0]
    <2>2. entry \in Calls /\ entry.order \in Orders /\ entry.key \in Keys
      BY BoundAssumption DEF Calls, TypeOK, Rows, Row
    <2>3. Goto(c, "save", entry)
      BY <2>1
    <2> HIDE DEF entry
    <2>4. replies[o] + 1 \in 0..MaxReplies
      BY <1>8, BoundAssumption DEF ReplyRead, TypeOK
    <2> QED
      BY <1>8, <2>2, <2>3, <2>4, GotoTyped DEF ReplyRead, TypeOK, Addressed
  <1>9. ASSUME NEW c \in Callers, NEW a \in Approvals, AcceptRead(c, a)
        PROVE  TypeOK' /\ Addressed'
    <2>1. PICK r \in Rows(target[a]) :
             Goto(c, "save", [op |-> "accept", order |-> target[a], key |-> r.key, seen |-> 0])
      BY <1>9 DEF AcceptRead
    <2> DEFINE entry == [op |-> "accept", order |-> target[a], key |-> r.key, seen |-> 0]
    <2>2. entry \in Calls /\ entry.order \in Orders /\ entry.key \in Keys
      BY <1>9, BoundAssumption DEF AcceptRead, Addressed, Calls, TypeOK, Rows, Row
    <2>3. Goto(c, "save", entry)
      BY <2>1
    <2> HIDE DEF entry
    <2> QED
      BY <1>9, <2>2, <2>3, GotoTyped DEF AcceptRead, TypeOK, Addressed
  <1>10. ASSUME NEW c \in Callers, PlanLookup(c)
         PROVE  TypeOK' /\ Addressed'
    <2>1. call[c] \in Calls /\ call[c].order \in Orders /\ call[c].key \in Keys
      BY <1>10 DEF PlanLookup, TypeOK, Addressed
    <2>2. PICK entry \in Calls : /\ Goto(c, "save", entry)
                                 /\ entry.order \in Orders /\ entry.key \in Keys
      <3>1. CASE Goto(c, "save", call[c])
        BY <2>1, <3>1
      <3>2. ASSUME NEW r \in Rows(call[c].order),
                   Goto(c, "save", [call[c] EXCEPT !.key = r.key])
            PROVE  \E entry \in Calls : /\ Goto(c, "save", entry)
                                        /\ entry.order \in Orders /\ entry.key \in Keys
        <4>1. [call[c] EXCEPT !.key = r.key] \in Calls
          BY <2>1 DEF Calls, Rows, TypeOK, Row
        <4>2. /\ [call[c] EXCEPT !.key = r.key].order \in Orders
              /\ [call[c] EXCEPT !.key = r.key].key \in Keys
          BY <2>1 DEF Calls, Rows, TypeOK, Row
        <4> QED
          BY <3>2, <4>1, <4>2
      <3> QED
        BY <1>10, <3>1, <3>2 DEF PlanLookup
    <2> QED
      BY <1>10, <2>2, GotoTyped DEF PlanLookup, TypeOK, Addressed
  <1>11. ASSUME NEW c \in Callers, OperatorSends(c)
         PROVE  TypeOK' /\ Addressed'
    <2>1. call[c] \in Calls /\ call[c].order \in Orders
      BY <1>11 DEF OperatorSends, TypeOK, Addressed
    <2> DEFINE entry == [call[c] EXCEPT !.op = "sent_manual"]
    <2>2. entry \in Calls /\ entry.order \in Orders
      BY <2>1 DEF Calls
    <2>3. Goto(c, "picked", entry)
      BY <1>11 DEF OperatorSends
    <2>4. asks[call[c].order] + 1 \in 0..MaxAsks
      BY <1>11, <2>1, BoundAssumption DEF OperatorSends, Message, TypeOK
    <2> HIDE DEF entry
    <2> QED
      BY <1>11, <2>1, <2>2, <2>3, <2>4, GotoTyped DEF OperatorSends, Message, TypeOK, Addressed
  <1>12. ASSUME NEW c \in Callers, ManualRead(c)
         PROVE  TypeOK' /\ Addressed'
    <2>1. call[c] \in Calls /\ call[c].order \in Orders
      BY <1>12 DEF ManualRead, TypeOK, Addressed
    <2>2. ASSUME NEW r \in Rows(call[c].order),
                 Goto(c, "save", [call[c] EXCEPT !.key = r.key])
          PROVE  TypeOK' /\ Addressed'
      <3> DEFINE entry == [call[c] EXCEPT !.key = r.key]
      <3>1. entry \in Calls /\ entry.order \in Orders /\ entry.key \in Keys
        BY <2>1 DEF Calls, Rows, TypeOK, Row
      <3>2. Goto(c, "save", entry)
        BY <2>2
      <3> HIDE DEF entry
      <3> QED
        BY <1>12, <3>1, <3>2, GotoTyped DEF ManualRead, TypeOK, Addressed
    <2>3. CASE Return(c)
      BY <1>12, <2>3, ReturnTyped DEF ManualRead, TypeOK, Addressed
    <2> QED
      BY <1>12, <2>2, <2>3 DEF ManualRead, Keepers
  <1>13. ASSUME NEW c \in Callers, PlanSave(c)
         PROVE  TypeOK' /\ Addressed'
    <2>1. PICK o \in Orders, k \in Keys : \E r \in Upserted(o, k) :
             /\ ledger' = (ledger \ Rows(o)) \cup {Merged(r, Upserted(o, k))}
             /\ reopened' = IF r.status = "planned" /\ Asked(o)
                            THEN reopened \cup {o} ELSE reopened
      BY <1>13, PlanStep
    <2>2. \A r \in Upserted(o, k) : Merged(r, Upserted(o, k)) \in Row
      BY UpsertedRows, MergedRow DEF TypeOK
    <2>3. ledger' \subseteq Row /\ reopened' \subseteq Orders
      BY <2>1, <2>2 DEF TypeOK
    <2>4. Return(c)
      BY <1>13 DEF PlanSave
    <2> QED
      BY <1>13, <2>3, <2>4, ReturnTyped DEF PlanSave, TypeOK, Addressed
  <1>14. ASSUME NEW c \in Callers, ManualSave(c)
         PROVE  TypeOK' /\ Addressed'
    <2>1. TargetStatus(call[c].op) \in Statuses
      BY <1>14 DEF ManualSave, TargetStatus, Statuses
    <2>2. ledger' \subseteq Row
      BY <1>14, <2>1, UpdateTyped DEF ManualSave
    <2>3. overwritten' \subseteq Orders
      BY <1>14, OverwritesTyped DEF ManualSave, Update
    <2>4. Return(c)
      BY <1>14 DEF ManualSave, Update
    <2> QED
      BY <1>14, <2>2, <2>3, <2>4, ReturnTyped DEF ManualSave, TypeOK, Addressed
  <1>15. ASSUME NEW c \in Callers, AcceptSave(c)
         PROVE  TypeOK' /\ Addressed'
    <2>1. ledger' \subseteq Row
      BY <1>15, UpdateTyped DEF AcceptSave, Statuses
    <2>2. overwritten' \subseteq Orders
      BY <1>15, OverwritesTyped DEF AcceptSave, Update
    <2>3. Return(c)
      BY <1>15 DEF AcceptSave, Update
    <2> QED
      BY <1>15, <2>1, <2>2, <2>3, ReturnTyped DEF AcceptSave, TypeOK, Addressed
  <1>16. ASSUME NEW c \in Callers, ReplySave(c)
         PROVE  TypeOK' /\ Addressed'
    <2>1. call[c].order \in Orders /\ call[c].op \in {"ready", "no_signal"}
      BY <1>16 DEF ReplySave, Addressed
    <2> DEFINE Changed(r) == [r EXCEPT !.status = call[c].op, !.size = call[c].op = "ready"]
    <2>2. \A r \in Current(c) : Changed(r) \in Row
      BY <2>1 DEF Current, Rows, TypeOK, Row, Statuses
    <2>3. ledger' = (ledger \ Current(c)) \cup {Changed(r) : r \in Current(c)}
      BY <1>16 DEF ReplySave
    <2> HIDE DEF Changed
    <2>4. ledger' \subseteq Row
      BY <2>2, <2>3 DEF TypeOK
    <2>5. Return(c)
      BY <1>16 DEF ReplySave
    <2> QED
      BY <1>16, <2>1, <2>4, <2>5, ReturnTyped DEF ReplySave, TypeOK, Addressed
  <1>17. ASSUME NEW c \in Callers, Crash(c)
         PROVE  TypeOK' /\ Addressed'
    BY <1>17, ReturnTyped DEF Crash, TypeOK, Addressed
  <1>18. CASE UNCHANGED vars
    BY <1>18 DEF vars, TypeOK, Addressed
  <1> QED
    BY <1>1, <1>2, <1>3, <1>4, <1>5, <1>6, <1>7, <1>8, <1>9, <1>10, <1>11, <1>12,
       <1>13, <1>14, <1>15, <1>16, <1>17, <1>18 DEF Next

\* Rows, calls and approvals are well formed, for any orders, keys and bounds.
THEOREM TypeCorrect == Spec => []TypeOK
  <1>1. Init => TypeOK /\ Addressed
    BY InitTyped
  <1>2. TypeOK /\ Addressed /\ [Next]_vars => (TypeOK /\ Addressed)'
    BY TypeStep
  <1> QED
    BY <1>1, <1>2, PTL DEF Spec

-------------------------------------------------------------------------------
(* Rows.                                                                      *)

\* What a recorder's update does to each row.
LEMMA UpdatedRows ==
    ASSUME TypeOK, NEW c \in Callers, NEW status \in Statuses, NEW sent \in BOOLEAN,
           Update(c, status, sent)
    PROVE  /\ \A r \in ledger' : r \in ledger \ Current(c) \/
                 \E q \in Current(c) : /\ r.order = q.order /\ r.status = status
                                       /\ r.asked = (q.asked \/ sent) /\ r.size = q.size
           /\ \A q \in ledger \ Current(c) : q \in ledger'
           /\ \A q \in Current(c) : \E r \in ledger' :
                 /\ r.order = q.order /\ r.status = status
                 /\ r.asked = (q.asked \/ sent) /\ r.size = q.size
  <1> DEFINE Changed(r) == [r EXCEPT !.status = status, !.asked = @ \/ sent]
  <1>1. \A q \in Current(c) :
           /\ Changed(q).order = q.order /\ Changed(q).status = status
           /\ Changed(q).asked = (q.asked \/ sent) /\ Changed(q).size = q.size
    BY DEF Current, Rows, TypeOK, Row
  <1>2. ledger' = (ledger \ Current(c)) \cup {Changed(r) : r \in Current(c)}
    BY DEF Update
  <1> HIDE DEF Changed
  <1> QED
    BY <1>1, <1>2

\* What a recorded reply does to each row.
LEMMA RepliedRows ==
    ASSUME TypeOK, NEW c \in Callers, ReplySave(c)
    PROVE  /\ \A r \in ledger' : r \in ledger \ Current(c) \/
                 \E q \in Current(c) :
                    /\ r.order = q.order /\ r.status = call[c].op
                    /\ r.asked = q.asked /\ r.size = (call[c].op = "ready")
           /\ \A q \in ledger \ Current(c) : q \in ledger'
           /\ \A q \in Current(c) : \E r \in ledger' :
                 /\ r.order = q.order /\ r.status = call[c].op
                 /\ r.asked = q.asked /\ r.size = (call[c].op = "ready")
  <1> DEFINE Changed(r) == [r EXCEPT !.status = call[c].op, !.size = call[c].op = "ready"]
  <1>1. \A q \in Current(c) :
           /\ Changed(q).order = q.order /\ Changed(q).status = call[c].op
           /\ Changed(q).asked = q.asked /\ Changed(q).size = (call[c].op = "ready")
    BY DEF Current, Rows, TypeOK, Row
  <1>2. ledger' = (ledger \ Current(c)) \cup {Changed(r) : r \in Current(c)}
    BY DEF ReplySave
  <1> HIDE DEF Changed
  <1> QED
    BY <1>1, <1>2

\* What the planner's save does to each row: rows of other orders stay, and the
\* one row of the order has the most advanced status and takes over the rest.
LEMMA PlannedRows ==
    ASSUME TypeOK, Addressed, NEW c \in Callers, PlanSave(c)
    PROVE  \E o \in Orders : \E m \in Row :
              /\ ledger' = (ledger \ Rows(o)) \cup {m}
              /\ m.order = o
              /\ m.asked = Asked(o)
              /\ m.size = (\E q \in Rows(o) : q.size)
              /\ \/ m.status = "planned"
                 \/ \E q \in Rows(o) : m.status = q.status /\ q.status \in KeptByPlan \cup {"set_aside", "no_signal"}
              /\ \A q \in Rows(o) : q.status = "ready" => m.status = "ready"
              /\ m.status \in {"planned", "set_aside"} =>
                    \A q \in Rows(o) : q.status \in {"planned", "set_aside", "no_signal"}
              /\ m.status = "planned" /\ Asked(o) => o \in reopened'
              /\ reopened \subseteq reopened'
              /\ UNCHANGED <<unclear, overwritten, missed, answer>>
  <1>1. PICK o \in Orders, k \in Keys : \E r \in Upserted(o, k) :
           /\ \A s \in Upserted(o, k) : Rank[r.status] <= Rank[s.status]
           /\ ledger' = (ledger \ Rows(o)) \cup {Merged(r, Upserted(o, k))}
           /\ reopened' = IF r.status = "planned" /\ Asked(o)
                          THEN reopened \cup {o} ELSE reopened
           /\ UNCHANGED <<unclear, overwritten, missed, answer>>
    BY PlanStep
  <1> DEFINE rows == Upserted(o, k)
  <1>2. PICK r \in rows :
           /\ \A s \in rows : Rank[r.status] <= Rank[s.status]
           /\ ledger' = (ledger \ Rows(o)) \cup {Merged(r, rows)}
           /\ reopened' = IF r.status = "planned" /\ Asked(o)
                          THEN reopened \cup {o} ELSE reopened
           /\ UNCHANGED <<unclear, overwritten, missed, answer>>
    BY <1>1
  <1>3. /\ rows \subseteq Row
        /\ \A s \in rows :
              /\ s.order = o
              /\ \/ s.status = "planned" /\ ~s.asked /\ ~s.size
                 \/ \E q \in Rows(o) : s = q \/ s = Planned(q)
        /\ \A q \in Rows(o) : q \in rows \/ Planned(q) \in rows
    BY UpsertedRows DEF TypeOK
  <1>4. \A q \in Rows(o) : /\ Planned(q).asked = q.asked /\ Planned(q).size = q.size
                           /\ Planned(q).status = IF q.status \in KeptByPlan THEN q.status ELSE "planned"
                           /\ q \in Row
    BY DEF Planned, Rows, TypeOK, Row
  <1> HIDE DEF rows
  <1> DEFINE m == Merged(r, rows)
  <1>5. /\ m \in Row /\ m.order = o /\ m.status = r.status
        /\ m.asked = (\E s \in rows : s.asked) /\ m.size = (\E s \in rows : s.size)
    BY <1>3, MergedRow
  <1> HIDE DEF m
  <1>6. (\E s \in rows : s.asked) = Asked(o)
    BY <1>3, <1>4 DEF Asked, Row
  <1>7. (\E s \in rows : s.size) = (\E q \in Rows(o) : q.size)
    BY <1>3, <1>4 DEF Row
  <1>8. m.status = "planned" \/
           \E q \in Rows(o) : m.status = q.status /\ q.status \in KeptByPlan \cup {"set_aside", "no_signal"}
    BY <1>3, <1>4, <1>5 DEF Row, Statuses, KeptByPlan
  <1>9. ASSUME NEW q \in Rows(o), q.status = "ready"
        PROVE  m.status = "ready"
    <2>1. \E s \in rows : s.status = "ready"
      BY <1>3, <1>4, <1>9 DEF KeptByPlan
    <2>2. Rank["ready"] = 20 /\ \A s \in Statuses \ {"ready"} : Rank[s] > 20
      BY DEF Rank, Statuses
    <2>3. r.status \in Statuses /\ Rank[r.status] <= 20
      BY <1>2, <1>3, <2>1, <2>2 DEF Row
    <2>4. \A s \in Statuses : Rank[s] \in Nat
      BY DEF Rank, Statuses
    <2> QED
      BY <1>5, <2>2, <2>3, <2>4
  <1>10. ASSUME m.status \in {"planned", "set_aside"}, NEW q \in Rows(o)
         PROVE  q.status \in {"planned", "set_aside", "no_signal"}
    <2>1. Rank["ready"] = 20 /\ Rank["sent"] = 40 /\ Rank["sent_manual"] = 41
      BY DEF Rank, Statuses
    <2>2. Rank[r.status] >= 50 /\ \A s \in Statuses : Rank[s] \in Nat
      BY <1>5, <1>10 DEF Rank, Statuses
    <2>3. \E s \in rows : s.status = q.status \/ (s.status = "planned" /\ q.status \notin KeptByPlan)
      BY <1>3, <1>4
    <2> QED
      BY <1>2, <1>3, <1>4, <2>1, <2>2, <2>3 DEF Row, Statuses, KeptByPlan
  <1>11. ledger' = (ledger \ Rows(o)) \cup {m}
    BY <1>2 DEF m
  <1> QED
    BY <1>2, <1>5, <1>6, <1>7, <1>8, <1>9, <1>10, <1>11

\* Two planners that looked an order up before either registered it leave one row.
LEMMA OneRowStep ==
    ASSUME TypeOK, Addressed, OneRowPerOrder, [Next]_vars
    PROVE  OneRowPerOrder'
  <1>1. ASSUME NEW c \in Callers, PlanSave(c) PROVE OneRowPerOrder'
    <2>1. PICK o \in Orders, m \in Row : ledger' = (ledger \ Rows(o)) \cup {m} /\ m.order = o
      BY <1>1, PlannedRows
    <2> QED
      BY <2>1 DEF OneRowPerOrder, Rows
  <1>2. ASSUME NEW c \in Callers, ManualSave(c) \/ AcceptSave(c) \/ ReplySave(c)
        PROVE  OneRowPerOrder'
    <2>1. \E Changed \in [Current(c) -> Row] :
             /\ ledger' = (ledger \ Current(c)) \cup {Changed[r] : r \in Current(c)}
             /\ \A r \in Current(c) : Changed[r].order = r.order
      <3>1. \A r \in Current(c) : r \in Row
        BY DEF Current, Rows, TypeOK
      <3>2. ASSUME NEW status \in Statuses, NEW sent \in BOOLEAN, Update(c, status, sent)
            PROVE  <2>1
        <4> DEFINE F == [r \in Current(c) |-> [r EXCEPT !.status = status, !.asked = @ \/ sent]]
        <4>1. \A r \in Current(c) : F[r] \in Row /\ F[r].order = r.order
          BY <3>1 DEF Row
        <4>2. ledger' = (ledger \ Current(c)) \cup {F[r] : r \in Current(c)}
          BY <3>2 DEF Update
        <4>3. F \in [Current(c) -> Row]
          BY <4>1
        <4> HIDE DEF F
        <4> QED
          BY <4>1, <4>2, <4>3
      <3>3. CASE ManualSave(c)
        BY <3>2, <3>3 DEF ManualSave, TargetStatus, Statuses
      <3>4. CASE AcceptSave(c)
        BY <3>2, <3>4 DEF AcceptSave, Statuses
      <3>5. CASE ReplySave(c)
        <4> DEFINE F == [r \in Current(c) |->
                            [r EXCEPT !.status = call[c].op, !.size = call[c].op = "ready"]]
        <4>1. \A r \in Current(c) : F[r] \in Row /\ F[r].order = r.order
          BY <3>1, <3>5 DEF ReplySave, Row, Statuses
        <4>2. ledger' = (ledger \ Current(c)) \cup {F[r] : r \in Current(c)}
          BY <3>5 DEF ReplySave
        <4>3. F \in [Current(c) -> Row]
          BY <4>1
        <4> HIDE DEF F
        <4> QED
          BY <4>1, <4>2, <4>3
      <3> QED
        BY <1>2, <3>3, <3>4, <3>5
    <2> QED
      BY <2>1 DEF OneRowPerOrder, Current, Rows
  <1>3. CASE \A c \in Callers : ~PlanSave(c) /\ ~ManualSave(c) /\ ~AcceptSave(c) /\ ~ReplySave(c)
    BY <1>3, QuietStep DEF OneRowPerOrder
  <1> QED
    BY <1>1, <1>2, <1>3

\* One row per order, for any number of planners and keys.
THEOREM OneRowCorrect == Spec => []OneRowPerOrder
  <1>1. Init => TypeOK /\ Addressed /\ OneRowPerOrder
    BY InitTyped DEF Init, OneRowPerOrder
  <1>2. TypeOK /\ Addressed /\ OneRowPerOrder /\ [Next]_vars
           => (TypeOK /\ Addressed /\ OneRowPerOrder)'
    BY TypeStep, OneRowStep
  <1> QED
    BY <1>1, <1>2, PTL DEF Spec

LEMMA RowsKnownStep ==
    ASSUME TypeOK, Addressed, RowsKnown, [Next]_vars
    PROVE  RowsKnown'
  <1>1. ASSUME NEW c \in Callers, PlanSave(c) PROVE RowsKnown'
    <2>1. PICK o \in Orders, m \in Row :
             /\ ledger' = (ledger \ Rows(o)) \cup {m}
             /\ m.order = o
             /\ m.asked = Asked(o)
             /\ \/ m.status = "planned"
                \/ \E q \in Rows(o) : m.status = q.status /\ q.status \in KeptByPlan \cup {"set_aside", "no_signal"}
             /\ m.status \in {"planned", "set_aside"} =>
                   \A q \in Rows(o) : q.status \in {"planned", "set_aside", "no_signal"}
             /\ m.status = "planned" /\ Asked(o) => o \in reopened'
             /\ reopened \subseteq reopened'
             /\ UNCHANGED <<unclear, overwritten, missed, answer>>
      BY <1>1, PlannedRows
    <2>2. m.asked /\ m.status = "planned" => m.order \in reopened'
      BY <2>1
    <2>3. m.asked /\ m.status \in {"planned", "set_aside"} => m.order \in unclear \cup overwritten
      BY <2>1 DEF Asked, RowsKnown, Rows
    <2>4. m.status = "no_signal" => m.order \in unclear
      BY <2>1 DEF RowsKnown, Rows
    <2> QED
      BY <2>1, <2>2, <2>3, <2>4 DEF RowsKnown
  <1>2. ASSUME NEW c \in Callers, ManualSave(c) PROVE RowsKnown'
    <2>1. TargetStatus(call[c].op) \in {"set_aside", "sent_manual"}
      BY <1>2 DEF ManualSave, TargetStatus
    <2>2. TargetStatus(call[c].op) = "set_aside" => call[c].op # "sent_manual"
      BY <1>2 DEF ManualSave, TargetStatus
    <2> DEFINE sent == call[c].op = "sent_manual"
    <2>3. Update(c, TargetStatus(call[c].op), sent) /\ sent \in BOOLEAN
      BY <1>2 DEF ManualSave
    <2> HIDE DEF sent
    <2>4. \A r \in ledger' : r \in ledger \ Current(c) \/
             \E q \in Current(c) : /\ r.order = q.order /\ r.status = TargetStatus(call[c].op)
                                   /\ r.asked = (q.asked \/ sent) /\ r.size = q.size
      BY <2>1, <2>3, UpdatedRows DEF Statuses
    <2>5. \A r \in ledger' : r \in ledger \/
             \E q \in Current(c) : /\ r.order = q.order /\ r.status = TargetStatus(call[c].op)
                                   /\ r.asked => q.asked \/ sent
      BY <2>4
    <2>6. TargetStatus(call[c].op) = "set_aside" => ~sent
      BY <2>2 DEF sent
    <2>7. /\ overwritten \subseteq overwritten'
          /\ (\E q \in Current(c) : q.status \in KeptByManual) => call[c].order \in overwritten'
          /\ UNCHANGED <<unclear, reopened>>
      BY <1>2 DEF ManualSave, Overwrites, history
    <2>8. \A q \in Current(c) : q \in ledger /\ q.order = call[c].order /\ q.status \in Statuses
      BY DEF Current, Rows, TypeOK, Row
    <2>9. \A q \in Current(c) : q.asked => q.order \in unclear \cup overwritten'
      BY <2>7, <2>8 DEF RowsKnown, Statuses, KeptByManual
    <2> QED
      BY <2>1, <2>5, <2>7, <2>9, <2>6 DEF RowsKnown
  <1>3. ASSUME NEW c \in Callers, AcceptSave(c) PROVE RowsKnown'
    <2>1. \A r \in ledger' : r \in ledger \/ r.status = "sent"
      <3> DEFINE sent == TRUE
      <3>1. Update(c, "sent", sent) /\ "sent" \in Statuses /\ sent \in BOOLEAN
        BY <1>3 DEF AcceptSave, Statuses
      <3> HIDE DEF sent
      <3>2. \A r \in ledger' : r \in ledger \ Current(c) \/
               \E q \in Current(c) : /\ r.order = q.order /\ r.status = "sent"
                                     /\ r.asked = (q.asked \/ sent) /\ r.size = q.size
        BY <3>1, UpdatedRows
      <3> QED
        BY <3>2
    <2>2. overwritten \subseteq overwritten' /\ UNCHANGED <<unclear, reopened>>
      BY <1>3 DEF AcceptSave, Overwrites, history
    <2> QED
      BY <2>1, <2>2 DEF RowsKnown
  <1>4. ASSUME NEW c \in Callers, ReplySave(c) PROVE RowsKnown'
    <2>1. \A r \in ledger' : r \in ledger \/
             (r.status = call[c].op /\ \E q \in Current(c) : r.order = q.order)
      BY <1>4, RepliedRows
    <2>2. call[c].op \in {"ready", "no_signal"} /\ UNCHANGED <<overwritten, reopened>>
      BY <1>4 DEF ReplySave, history
    <2>3. unclear \subseteq unclear' /\ (call[c].op = "no_signal" => call[c].order \in unclear')
      BY <1>4 DEF ReplySave
    <2>4. \A q \in Current(c) : q.order = call[c].order
      BY DEF Current, Rows
    <2> QED
      BY <2>1, <2>2, <2>3, <2>4 DEF RowsKnown
  <1>5. CASE \A c \in Callers : ~PlanSave(c) /\ ~ManualSave(c) /\ ~AcceptSave(c) /\ ~ReplySave(c)
    BY <1>5, QuietStep DEF RowsKnown
  <1> QED
    BY <1>1, <1>2, <1>3, <1>4, <1>5

\* A row with request_sent_at is planned again only after a reply without a size
\* signal, or after a recorder saved over a status that it would refuse.
THEOREM ReopenedCorrect == Spec => []ReopenedKnown
  <1>1. Init => TypeOK /\ Addressed /\ RowsKnown
    BY InitTyped DEF Init, RowsKnown
  <1>2. TypeOK /\ Addressed /\ RowsKnown /\ [Next]_vars => (TypeOK /\ Addressed /\ RowsKnown)'
    BY TypeStep, RowsKnownStep
  <1>3. RowsKnown => ReopenedKnown
    BY DEF RowsKnown, ReopenedKnown
  <1> QED
    BY <1>1, <1>2, <1>3, PTL DEF Spec

-------------------------------------------------------------------------------
(* Sizes and messages that a row must not forget.                             *)

LEMMA SizeKeptStep ==
    ASSUME TypeOK, Addressed, SizeKept, [Next]_vars
    PROVE  SizeKept'
  <1> SUFFICES ASSUME NEW o \in Orders, answer'[o] = "ready", o \notin overwritten' \cup missed'
               PROVE  \E r \in ledger' : r.order = o /\ r.status = "ready" /\ r.size
    BY DEF SizeKept, Rows
  <1>1. ASSUME NEW c \in Callers, PlanSave(c)
        PROVE  \E r \in ledger' : r.order = o /\ r.status = "ready" /\ r.size
    <2>1. PICK p \in Orders, m \in Row :
             /\ ledger' = (ledger \ Rows(p)) \cup {m}
             /\ m.order = p
             /\ m.size = (\E q \in Rows(p) : q.size)
             /\ \A q \in Rows(p) : q.status = "ready" => m.status = "ready"
             /\ UNCHANGED <<unclear, overwritten, missed, answer>>
      BY <1>1, PlannedRows
    <2>2. PICK q \in Rows(o) : q.status = "ready" /\ q.size
      BY <2>1 DEF SizeKept
    <2> QED
      BY <2>1, <2>2 DEF Rows
  <1>2. ASSUME NEW c \in Callers, ManualSave(c) \/ AcceptSave(c)
        PROVE  \E r \in ledger' : r.order = o /\ r.status = "ready" /\ r.size
    <2>1. /\ (\E q \in Current(c) : q.status = "ready") => call[c].order \in overwritten'
          /\ overwritten \subseteq overwritten' /\ UNCHANGED <<answer, missed>>
      BY <1>2 DEF ManualSave, AcceptSave, Overwrites, KeptByManual, KeptByAcceptance, history
    <2>2. PICK q \in Rows(o) : q.status = "ready" /\ q.size
      BY <2>1 DEF SizeKept
    <2>3. q \notin Current(c)
      BY <2>1, <2>2 DEF Current, Rows
    <2>4. q \in ledger'
      BY <1>2, <2>2, <2>3 DEF ManualSave, AcceptSave, Update, Rows
    <2> QED
      BY <2>2, <2>4 DEF Rows
  <1>3. ASSUME NEW c \in Callers, ReplySave(c)
        PROVE  \E r \in ledger' : r.order = o /\ r.status = "ready" /\ r.size
    <2>1. call[c].order \in Orders /\ UNCHANGED overwritten /\ missed \subseteq missed'
      BY <1>3 DEF ReplySave, Addressed
    <2>2. \A q \in Current(c) : q.order = call[c].order
      BY DEF Current, Rows
    <2>3. CASE o = call[c].order
      <3>1. call[c].op = "ready" /\ Current(c) # {}
        BY <1>3, <2>1, <2>3 DEF ReplySave, TypeOK
      <3>2. PICK q \in Current(c) : TRUE
        BY <3>1
      <3>3. PICK r \in ledger' : /\ r.order = q.order /\ r.status = call[c].op
                                 /\ r.size = (call[c].op = "ready")
        BY <1>3, RepliedRows
      <3>4. r.order = o /\ r.status = "ready"
        BY <2>2, <2>3, <3>1, <3>3
      <3>5. r.size
        BY <3>1, <3>3
      <3> QED
        BY <3>4, <3>5
    <2>4. CASE o # call[c].order
      <3>1. answer[o] = "ready"
        BY <1>3, <2>1, <2>4 DEF ReplySave, TypeOK
      <3>2. PICK q \in Rows(o) : q.status = "ready" /\ q.size
        BY <2>1, <3>1 DEF SizeKept
      <3>3. q \in ledger \ Current(c)
        BY <2>2, <2>4 DEF Rows
      <3> QED
        BY <1>3, <3>2, <3>3, RepliedRows DEF Rows
    <2> QED
      BY <2>3, <2>4
  <1>4. CASE \A c \in Callers : ~PlanSave(c) /\ ~ManualSave(c) /\ ~AcceptSave(c) /\ ~ReplySave(c)
    BY <1>4, QuietStep DEF SizeKept, Rows
  <1> QED
    BY <1>1, <1>2, <1>3, <1>4

\* A size that a customer gave stays ready for the board, whatever plans, merges,
\* manual outcomes and acceptances follow, but for the two losses named.
THEOREM SizeKeptCorrect == Spec => []SizeKept
  <1>1. Init => TypeOK /\ Addressed /\ SizeKept
    BY InitTyped DEF Init, SizeKept
  <1>2. TypeOK /\ Addressed /\ SizeKept /\ [Next]_vars => (TypeOK /\ Addressed /\ SizeKept)'
    BY TypeStep, SizeKeptStep
  <1> QED
    BY <1>1, <1>2, PTL DEF Spec

LEMMA ForgetStep ==
    ASSUME TypeOK, Addressed, [Next]_vars, NEW o \in Orders, Asked(o)
    PROVE  Asked(o)'
  <1>1. PICK q \in ledger : q.order = o /\ q.asked
    BY DEF Asked, Rows
  <1> SUFFICES \E r \in ledger' : r.order = o /\ r.asked
    BY DEF Asked, Rows
  <1>2. ASSUME NEW c \in Callers, PlanSave(c)
        PROVE  \E r \in ledger' : r.order = o /\ r.asked
    <2>1. PICK p \in Orders, m \in Row : /\ ledger' = (ledger \ Rows(p)) \cup {m}
                                         /\ m.order = p /\ m.asked = Asked(p)
      BY <1>2, PlannedRows
    <2> QED
      BY <1>1, <2>1 DEF Rows
  <1>3. ASSUME NEW c \in Callers, NEW status \in Statuses, NEW sent \in BOOLEAN,
               Update(c, status, sent)
        PROVE  \E r \in ledger' : r.order = o /\ r.asked
    BY <1>1, <1>3, UpdatedRows
  <1>4. ASSUME NEW c \in Callers, ManualSave(c)
        PROVE  \E r \in ledger' : r.order = o /\ r.asked
    <2>1. TargetStatus(call[c].op) \in Statuses
      BY <1>4 DEF ManualSave, TargetStatus, Statuses
    <2> QED
      BY <1>3, <1>4, <2>1 DEF ManualSave
  <1>5. ASSUME NEW c \in Callers, AcceptSave(c)
        PROVE  \E r \in ledger' : r.order = o /\ r.asked
    BY <1>3, <1>5 DEF AcceptSave, Statuses
  <1>6. ASSUME NEW c \in Callers, ReplySave(c)
        PROVE  \E r \in ledger' : r.order = o /\ r.asked
    BY <1>1, <1>6, RepliedRows
  <1>7. CASE \A c \in Callers : ~PlanSave(c) /\ ~ManualSave(c) /\ ~AcceptSave(c) /\ ~ReplySave(c)
    BY <1>1, <1>7, QuietStep
  <1> QED
    BY <1>2, <1>4, <1>5, <1>6, <1>7

\* request_sent_at of an order survives every update and every merge of its rows.
THEOREM SentCorrect == Spec => SentNeverForgotten
  <1>1. Init => TypeOK /\ Addressed
    BY InitTyped
  <1>2. TypeOK /\ Addressed /\ [Next]_vars => (TypeOK /\ Addressed)'
    BY TypeStep
  <1>3. TypeOK /\ Addressed /\ [Next]_vars => [\A o \in Orders : Asked(o) => Asked(o)']_vars
    BY ForgetStep
  <1> QED
    BY <1>1, <1>2, <1>3, PTL DEF Spec, SentNeverForgotten

-------------------------------------------------------------------------------
(* Asking again.                                                              *)

\* A check that passes now, after a message: the ledger was not told of it, or
\* a plan took the row back.
LEMMA PassedCheck ==
    ASSUME TypeOK, RowsKnown, NEW o \in Orders, StillPlanned(o), Check(o), asks[o] > 0
    PROVE  o \in untold' \cup reopened
  <1>1. CASE ~Asked(o)
    BY <1>1 DEF Check
  <1>2. CASE Asked(o)
    BY <1>2 DEF Asked, StillPlanned, RowsKnown, Rows
  <1> QED
    BY <1>1, <1>2

LEMMA HistoryGrows ==
    ASSUME [Next]_vars
    PROVE  untold \subseteq untold' /\ reopened \subseteq reopened' /\ overlapped \subseteq overlapped'
  BY DEF Next, vars, db, approval, world, history, Enrich, Close, Approve, Preflight,
         Ready, HelperSends, RecordResult, PlanRead, Pick, ReplyRead, AcceptRead,
         PlanLookup, OperatorSends, ManualRead, Crash, Check, Message, PlanSave,
         ManualSave, AcceptSave, ReplySave

LEMMA ChecksKnownStep ==
    ASSUME TypeOK, Addressed, RowsKnown, ChecksKnown, [Next]_vars
    PROVE  ChecksKnown'
  <1> USE DEF db, approval, world, history
  <1>1. ASSUME NEW a \in Approvals, Ready(a) PROVE ChecksKnown'
    <2>1. target[a] \in Orders
      BY <1>1 DEF Ready, Addressed
    <2>2. asks[target[a]] > 0 => target[a] \in untold' \cup reopened
      BY <1>1, <2>1, PassedCheck DEF Ready
    <2> QED
      BY <1>1, <2>2, HistoryGrows DEF Ready, ChecksKnown, TypeOK
  <1>2. ASSUME NEW c \in Callers, NEW o \in Orders, Pick(c, o) PROVE ChecksKnown'
    <2>1. asks[o] > 0 => o \in untold' \cup reopened
      BY <1>2, PassedCheck DEF Pick
    <2> QED
      BY <1>2, <2>1, HistoryGrows DEF Pick, Goto, ChecksKnown, TypeOK
  <1>3. ASSUME NEW c \in Callers, OperatorSends(c) PROVE ChecksKnown'
    <2>1. [call[c] EXCEPT !.op = "sent_manual"].order = call[c].order
          /\ [call[c] EXCEPT !.op = "sent_manual"].seen = call[c].seen
      BY DEF TypeOK, Calls
    <2> QED
      BY <1>3, <2>1, HistoryGrows DEF OperatorSends, Goto, ChecksKnown, TypeOK
  <1>4. ASSUME NEW a \in Approvals,
               Preflight(a) \/ HelperSends(a) \/ RecordResult(a) \/ \E o \in Orders : Approve(a, o)
        PROVE  ChecksKnown'
    BY <1>4, HistoryGrows
    DEF Preflight, HelperSends, RecordResult, Approve, ChecksKnown, TypeOK
  <1>5. ASSUME NEW c \in Callers, NEW label \in {"idle", "lookup", "save"}, NEW entry,
               Goto(c, label, entry), UNCHANGED approval
        PROVE  ChecksKnown'
    BY <1>5, HistoryGrows DEF Goto, ChecksKnown, TypeOK
  <1>6. ASSUME NEW c \in Callers,
               PlanLookup(c) \/ PlanSave(c) \/ ManualRead(c) \/ ManualSave(c) \/ AcceptSave(c)
               \/ ReplySave(c) \/ Crash(c)
        PROVE  ChecksKnown'
    BY <1>5, <1>6
    DEF PlanLookup, PlanSave, ManualRead, ManualSave, AcceptSave, ReplySave, Crash, Return, Update
  <1>7. ASSUME NEW c \in Callers,
               \/ \E o \in Orders : PlanRead(c, o)
               \/ \E o \in Orders, verdict \in {"ready", "no_signal"} : ReplyRead(c, o, verdict)
               \/ \E a \in Approvals : AcceptRead(c, a)
        PROVE  ChecksKnown'
    BY <1>5, <1>7 DEF PlanRead, ReplyRead, AcceptRead
  <1>8. CASE UNCHANGED vars \/ \E o \in Orders : Enrich(o) \/ Close(o)
    BY <1>8, HistoryGrows DEF vars, Enrich, Close, ChecksKnown
  <1> QED
    BY <1>1, <1>2, <1>3, <1>4, <1>6, <1>7, <1>8 DEF Next

LEMMA AskedAgainStep ==
    ASSUME TypeOK, Addressed, ChecksKnown, AskedAgainKnown, [Next]_vars
    PROVE  AskedAgainKnown'
  <1>1. ASSUME NEW o \in Orders, NEW n \in 0..MaxAsks, Message(o, n),
               n > 0 => o \in untold \cup reopened
        PROVE  AskedAgainKnown'
    <2>1. asks'[o] > 1 => o \in overlapped' \cup untold \cup reopened
      BY <1>1 DEF Message, TypeOK
    <2> QED
      BY <1>1, <2>1, HistoryGrows DEF Message, AskedAgainKnown, TypeOK
  <1>2. ASSUME NEW a \in Approvals, HelperSends(a) PROVE AskedAgainKnown'
    BY <1>1, <1>2 DEF HelperSends, Addressed, ChecksKnown, TypeOK
  <1>3. ASSUME NEW c \in Callers, OperatorSends(c) PROVE AskedAgainKnown'
    BY <1>1, <1>3 DEF OperatorSends, Addressed, ChecksKnown, TypeOK, Calls
  <1>4. CASE UNCHANGED asks
    BY <1>4, HistoryGrows DEF AskedAgainKnown
  <1>5. UNCHANGED asks \/ (\E a \in Approvals : HelperSends(a)) \/ \E c \in Callers : OperatorSends(c)
    BY DEF Next, vars, db, approval, world, history, Enrich, Close, Approve, Preflight,
           Ready, RecordResult, PlanRead, Pick, ReplyRead, AcceptRead, PlanLookup,
           ManualRead, Crash, PlanSave, ManualSave, AcceptSave, ReplySave
  <1> QED
    BY <1>2, <1>3, <1>4, <1>5

\* A customer is asked again only for one of the three named reasons, for any
\* number of approvals, operators, planners and messages.
THEOREM AskedAgainCorrect == Spec => []AskedAgainKnown
  <1> DEFINE IInv == TypeOK /\ Addressed /\ RowsKnown /\ ChecksKnown /\ AskedAgainKnown
  <1>1. Init => IInv
    BY InitTyped DEF Init, RowsKnown, ChecksKnown, AskedAgainKnown
  <1>2. IInv /\ [Next]_vars => IInv'
    BY TypeStep, RowsKnownStep, ChecksKnownStep, AskedAgainStep
  <1> QED
    BY <1>1, <1>2, PTL DEF Spec

-------------------------------------------------------------------------------
(* The two losses of a recorder, a status saved over and a row merged away,    *)
(* come from reading the row before the transaction that writes it: with one   *)
(* caller at a time between its read and its save there are none.              *)

OneSaver == \A c, d \in Callers : pc[c] = "save" /\ pc[d] = "save" => c = d

\* What a recorder read is what it is about to save over.
StillAsRead ==
    \A c \in Callers : pc[c] = "save" =>
        /\ call[c].op \in {"not_sent", "sent_manual"} =>
               \A r \in Current(c) : r.status \notin KeptByManual
        /\ call[c].op = "accept" => \A r \in Current(c) : r.status \notin KeptByAcceptance
        /\ call[c].op \in {"ready", "no_signal"} => Current(c) # {}

\* The callers in the middle of a plan, or of an operator's work.
Working ==
    \A c \in Callers :
        /\ pc[c] = "lookup" => call[c].op = "plan"
        /\ pc[c] = "picked" => call[c].op \in {"not_sent", "sent_manual"}

NothingLost == overwritten = {} /\ missed = {}

LEMMA WorkingStep == ASSUME TypeOK, Working, [Next]_vars PROVE Working'
  <1>1. ASSUME NEW c \in Callers, NEW label, NEW entry, Goto(c, label, entry),
               label = "lookup" => entry.op = "plan",
               label = "picked" => entry.op \in {"not_sent", "sent_manual"}
        PROVE  Working'
    BY <1>1 DEF Goto, Working, TypeOK
  <1>2. CASE UNCHANGED <<pc, call>>
    BY <1>2 DEF Working
  <1>3. ASSUME NEW c \in Callers,
               \/ PlanSave(c) \/ ManualSave(c) \/ AcceptSave(c) \/ ReplySave(c) \/ Crash(c)
        PROVE  Working'
    BY <1>1, <1>3 DEF PlanSave, ManualSave, AcceptSave, ReplySave, Crash, Update, Return
  <1>4. ASSUME NEW c \in Callers, PlanLookup(c) \/ ManualRead(c)
                                   \/ (\E a \in Approvals : AcceptRead(c, a))
        PROVE  Working'
    BY <1>1, <1>4 DEF PlanLookup, ManualRead, AcceptRead, Return
  <1>5. ASSUME NEW c \in Callers, NEW o \in Orders, PlanRead(c, o) \/ Pick(c, o)
        PROVE  Working'
    BY <1>1, <1>5 DEF PlanRead, Pick
  <1>6. ASSUME NEW c \in Callers, NEW o \in Orders, NEW verdict \in {"ready", "no_signal"},
               ReplyRead(c, o, verdict)
        PROVE  Working'
    BY <1>1, <1>6 DEF ReplyRead
  <1>7. ASSUME NEW c \in Callers, OperatorSends(c) PROVE Working'
    <2>1. call[c] \in Calls
      BY DEF TypeOK
    <2>2. [call[c] EXCEPT !.op = "sent_manual"].op = "sent_manual"
      BY <2>1 DEF Calls
    <2> QED
      BY <1>1, <1>7, <2>2 DEF OperatorSends
  <1>8. ASSUME \/ \E o \in Orders : Enrich(o) \/ Close(o)
               \/ \E a \in Approvals : \/ \E o \in Orders : Approve(a, o)
                                       \/ Preflight(a) \/ Ready(a) \/ HelperSends(a) \/ RecordResult(a)
               \/ UNCHANGED vars
        PROVE  UNCHANGED <<pc, call>>
    BY <1>8 DEF Enrich, Close, Approve, Preflight, Ready, HelperSends, RecordResult, vars
  <1> QED
    BY <1>2, <1>3, <1>4, <1>5, <1>6, <1>7, <1>8 DEF Next

\* A step that leaves the ledger alone leaves every caller with what it read, and
\* a caller that goes on to save has just read it.
LEMMA ReadStep ==
    ASSUME TypeOK, Addressed, Working, OneRowPerOrder, StillAsRead, [Next]_vars,
           \A c \in Callers : ~PlanSave(c) /\ ~ManualSave(c) /\ ~AcceptSave(c) /\ ~ReplySave(c)
    PROVE  StillAsRead'
  <1>1. ledger' = ledger
    BY QuietStep
  <1>2. ASSUME NEW c \in Callers, NEW label, NEW entry, Goto(c, label, entry),
               label = "save" =>
                  LET now == {r \in Rows(entry.order) : r.key = entry.key} IN
                  /\ entry.op \in {"not_sent", "sent_manual"} =>
                         \A r \in now : r.status \notin KeptByManual
                  /\ entry.op = "accept" => \A r \in now : r.status \notin KeptByAcceptance
                  /\ entry.op \in {"ready", "no_signal"} => now # {}
        PROVE  StillAsRead'
    <2>1. /\ pc'[c] = label /\ call'[c] = entry
          /\ \A d \in Callers \ {c} : pc'[d] = pc[d] /\ call'[d] = call[d]
      BY <1>2 DEF Goto, TypeOK
    <2>2. ASSUME NEW d \in Callers \ {c} PROVE Current(d)' = Current(d)
      BY <1>1, <2>1 DEF Current, Rows
    <2>3. Current(c)' = {r \in Rows(entry.order) : r.key = entry.key}
      BY <1>1, <2>1 DEF Current, Rows
    <2> QED
      BY <1>2, <2>1, <2>2, <2>3 DEF StillAsRead
  <1>3. CASE UNCHANGED <<pc, call>>
    BY <1>1, <1>3 DEF StillAsRead, Current, Rows
  <1>4. ASSUME NEW c \in Callers, NEW o \in Orders, PlanRead(c, o) \/ Pick(c, o)
        PROVE  StillAsRead'
    BY <1>2, <1>4 DEF PlanRead, Pick
  <1>5. ASSUME NEW c \in Callers, PlanLookup(c) PROVE StillAsRead'
    <2>1. call[c].op = "plan" /\ call[c] \in Calls
      BY <1>5 DEF PlanLookup, Working, TypeOK
    <2>2. PICK entry : Goto(c, "save", entry) /\ entry.op = "plan"
      <3>1. CASE Goto(c, "save", call[c])
        BY <2>1, <3>1
      <3>2. ASSUME NEW r, Goto(c, "save", [call[c] EXCEPT !.key = r.key])
            PROVE  \E entry : Goto(c, "save", entry) /\ entry.op = "plan"
        <4>1. [call[c] EXCEPT !.key = r.key].op = "plan"
          BY <2>1 DEF Calls
        <4> QED
          BY <3>2, <4>1
      <3> QED
        BY <1>5, <3>1, <3>2 DEF PlanLookup
    <2> QED
      BY <1>2, <2>2
  <1>6. ASSUME NEW c \in Callers, ManualRead(c) PROVE StillAsRead'
    <2>1. PICK r \in Keepers(Rows(call[c].order)) :
             IF r.status \in KeptByManual THEN Return(c)
             ELSE Goto(c, "save", [call[c] EXCEPT !.key = r.key])
      BY <1>6 DEF ManualRead
    <2>2. CASE r.status \in KeptByManual
      BY <1>2, <2>1, <2>2 DEF Return
    <2>3. CASE r.status \notin KeptByManual
      <3> DEFINE entry == [call[c] EXCEPT !.key = r.key]
      <3>1. call[c].op \in {"not_sent", "sent_manual"} /\ call[c] \in Calls
        BY <1>6 DEF ManualRead, Working, TypeOK
      <3>2. entry.order = call[c].order /\ entry.op = call[c].op
        BY <3>1 DEF Calls
      <3>3. \A s \in Rows(entry.order) : s = r
        BY <2>1, <3>2 DEF Keepers, Rows, OneRowPerOrder
      <3>4. Goto(c, "save", entry)
        BY <2>1, <2>3
      <3> HIDE DEF entry
      <3> QED
        BY <1>2, <2>3, <3>1, <3>2, <3>3, <3>4
    <2> QED
      BY <2>2, <2>3
  <1>7. ASSUME NEW c \in Callers, NEW a \in Approvals, AcceptRead(c, a) PROVE StillAsRead'
    <2>1. PICK r \in Rows(target[a]) :
             /\ r.status \notin KeptByAcceptance
             /\ Goto(c, "save", [op |-> "accept", order |-> target[a], key |-> r.key, seen |-> 0])
      BY <1>7 DEF AcceptRead
    <2>2. \A s \in Rows(target[a]) : s = r
      BY DEF Rows, OneRowPerOrder
    <2> QED
      BY <1>2, <2>1, <2>2
  <1>8. ASSUME NEW c \in Callers, NEW o \in Orders, NEW verdict \in {"ready", "no_signal"},
               ReplyRead(c, o, verdict)
        PROVE  StillAsRead'
    <2>1. PICK r \in Rows(o) :
             Goto(c, "save", [op |-> verdict, order |-> o, key |-> r.key, seen |-> 0])
      BY <1>8 DEF ReplyRead
    <2>2. verdict # "accept" /\ verdict \notin {"not_sent", "sent_manual"}
      OBVIOUS
    <2> QED
      BY <1>2, <2>1, <2>2
  <1>9. ASSUME NEW c \in Callers, OperatorSends(c) \/ Crash(c) PROVE StillAsRead'
    BY <1>2, <1>9 DEF OperatorSends, Crash, Return
  <1>10. ASSUME \/ \E o \in Orders : Enrich(o) \/ Close(o)
                \/ \E a \in Approvals : \/ \E o \in Orders : Approve(a, o)
                                        \/ Preflight(a) \/ Ready(a) \/ HelperSends(a) \/ RecordResult(a)
                \/ UNCHANGED vars
         PROVE  UNCHANGED <<pc, call>>
    BY <1>10 DEF Enrich, Close, Approve, Preflight, Ready, HelperSends, RecordResult, vars
  <1> QED
    BY <1>3, <1>4, <1>5, <1>6, <1>7, <1>8, <1>9, <1>10 DEF Next

\* After a save nobody is between a read and a save.
LEMMA SaveEnds ==
    ASSUME TypeOK, OneSaver, NEW c \in Callers, pc[c] = "save", Return(c)
    PROVE  StillAsRead'
  BY DEF Return, Goto, OneSaver, StillAsRead, TypeOK

LEMMA NothingLostStep ==
    ASSUME TypeOK, Addressed, Working, OneRowPerOrder, OneSaver, StillAsRead, NothingLost,
           [Next]_vars
    PROVE  StillAsRead' /\ NothingLost'
  <1>1. ASSUME NEW c \in Callers, PlanSave(c) PROVE StillAsRead' /\ NothingLost'
    BY <1>1, SaveEnds DEF PlanSave, NothingLost
  <1>2. ASSUME NEW c \in Callers, ManualSave(c) PROVE StillAsRead' /\ NothingLost'
    <2>1. /\ pc[c] = "save" /\ Return(c) /\ UNCHANGED missed
          /\ call[c].op \in {"not_sent", "sent_manual"} /\ Overwrites(c, KeptByManual)
      BY <1>2 DEF ManualSave, Update
    <2> QED
      BY <2>1, SaveEnds DEF StillAsRead, Overwrites, NothingLost
  <1>3. ASSUME NEW c \in Callers, AcceptSave(c) PROVE StillAsRead' /\ NothingLost'
    <2>1. /\ pc[c] = "save" /\ Return(c) /\ UNCHANGED missed
          /\ call[c].op = "accept" /\ Overwrites(c, KeptByAcceptance)
      BY <1>3 DEF AcceptSave, Update
    <2> QED
      BY <2>1, SaveEnds DEF StillAsRead, Overwrites, NothingLost
  <1>4. ASSUME NEW c \in Callers, ReplySave(c) PROVE StillAsRead' /\ NothingLost'
    <2>1. /\ pc[c] = "save" /\ Return(c) /\ UNCHANGED overwritten
          /\ call[c].op \in {"ready", "no_signal"}
          /\ missed' = IF Current(c) = {} THEN missed \cup {call[c].order} ELSE missed
      BY <1>4 DEF ReplySave
    <2> QED
      BY <2>1, SaveEnds DEF StillAsRead, NothingLost
  <1>5. CASE \A c \in Callers : ~PlanSave(c) /\ ~ManualSave(c) /\ ~AcceptSave(c) /\ ~ReplySave(c)
    BY <1>5, ReadStep, QuietStep DEF NothingLost
  <1> QED
    BY <1>1, <1>2, <1>3, <1>4, <1>5

SizesStay ==
    \A o \in Orders : answer[o] = "ready" => \E r \in Rows(o) : r.status = "ready" /\ r.size

UnclearReopens ==
    \A r \in ledger : r.asked /\ r.status = "planned" => r.order \in unclear

\* A recorder that read and wrote in one transaction would lose nothing: a size
\* that a customer gave then stays ready until a later reply, and a row that knows
\* of a message is planned again only after an unclear reply.
THEOREM TransactionsKeepSizes == Spec /\ []OneSaver => [](SizesStay /\ UnclearReopens)
  <1> DEFINE Inv == Addressed /\ Working /\ StillAsRead /\ NothingLost
  <1>1. Init => Inv
    <2>1. Init => Addressed
      BY InitTyped
    <2> QED
      BY <2>1 DEF Init, Working, StillAsRead, NothingLost
  <1>2. TypeOK /\ OneRowPerOrder /\ OneSaver /\ Inv /\ [Next]_vars => Inv'
    BY TypeStep, WorkingStep, NothingLostStep
  <1>3. NothingLost /\ SizeKept /\ ReopenedKnown => SizesStay /\ UnclearReopens
    BY DEF NothingLost, SizeKept, ReopenedKnown, SizesStay, UnclearReopens
  <1> QED
    BY <1>1, <1>2, <1>3, TypeCorrect, OneRowCorrect, SizeKeptCorrect, ReopenedCorrect, PTL DEF Spec
=============================================================================
