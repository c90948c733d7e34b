---------------------- MODULE ShippingObligationsProofs ----------------------
(***************************************************************************)
(* The ledger of shipping obligations for any orders, days and groups.      *)
(*                                                                          *)
(* The safety of the ledger is inductive only together with what the copies *)
(* of it promise: the closeout's copy, until it is saved a second time, and *)
(* the repair tool's candidate, against the file it was computed from.      *)
(***************************************************************************)
EXTENDS ShippingObligations, TLAPS

Copied == {"reconciled", "required", "shipped", "zero"}
Needing == promised \ (done \cup lost)
IsGone(o) == prior[o] # NoEntry /\ candidate[o] = NoEntry

\* Whatever is in a discharging stage is done.
DoneInv == \A o \in Orders : Stage(o) \in Discharge => o \in done

\* No copy of the ledger discharges an order that is not done.
DischargeInv ==
    \A o \in Orders :
        (\/ ledger[o].status = "discharged" \/ copy[o].status = "discharged"
         \/ candidate[o].status = "discharged") => o \in done

\* The closeout's copy keeps open what the file must keep open.
CopyInv == pc \in Copied => \A o \in Needing : Open(copy[o])

\* The candidate keeps open what the file it was read from had open.
CandidateInv ==
    tool # "idle" =>
        \A o \in Orders : Open(prior[o]) => Open(candidate[o]) \/ o \in done \/ IsGone(o)

\* After the check of the file only the entries in late differ from it.
VerifiedInv ==
    tool = "verified" => \A o \in Orders \ late : ledger[o] = prior[o]

\* What the copy holds unresolved was seen waiting, or is spared.
SeenInv ==
    /\ pc # "idle" => active \subseteq seen
    /\ pc \in Copied =>
        \A o \in Orders : copy[o].status = "unresolved" => o \in seen \cup spared

\* The copy holds unresolved what still waits since the selection.
OwedInv ==
    pc \in Copied =>
        \A o \in (Needing \cap steady) \ spared :
            Waiting(o) => o \in active \/ copy[o].status = "unresolved"

\* Nothing is required before the ledger was reconciled and saved.
PhaseInv == pc \in {"idle", "selected", "reconciled"} => required = {}

IInv ==
    /\ TypeOK /\ DoneInv /\ DischargeInv /\ NeverDropped /\ CopyInv /\ CandidateInv
    /\ VerifiedInv /\ SeenInv /\ OwedInv /\ RequiredWasSeen /\ RequiredCoversPromised
    /\ PhaseInv

-------------------------------------------------------------------------------
(* What the reconciliation of one entry gives.                              *)

LEMMA NoEntryType == NoEntry \in Entry
  BY BoundsAssumption DEF NoEntry, Entry, Statuses

LEMMA CheckedType ==
    ASSUME NEW e \in Entry, NEW o, NEW answer, NEW d \in 0..(MaxDay + 1)
    PROVE  Checked(e, o, answer, d) \in Entry
  BY DEF Checked, StatusAfter, First, Entry, Statuses

LEMMA SeenType ==
    ASSUME NEW e \in Entry, NEW d \in Days
    PROVE  Seen(e, d) \in Entry /\ Open(Seen(e, d)) /\ Seen(e, d).status = "unresolved"
  BY BoundsAssumption DEF Seen, First, Entry, Statuses, Days, Open

\* A checked entry stays open, or the order is in a discharging stage.
LEMMA CheckedOpen ==
    ASSUME NEW e, NEW o, NEW answer, NEW d
    PROVE  /\ Checked(e, o, answer, d).status = "discharged" => Stage(o) \in Discharge
           /\ Open(Checked(e, o, answer, d)) \/ Stage(o) \in Discharge
  BY DEF Checked, StatusAfter, Open

\* For every payload, a stage of the obligations policy that is not the one of the
\* classifier is no packable one, and neither is the classifier's then.
LEMMA PolicyOnlyDefers ==
    ASSUME NEW p, Classify(p) # ObligationStage(p)
    PROVE  ObligationStage(p) \notin Packable /\ Classify(p) \notin Packable
  <1>1. ~p.returned  BY DEF ObligationStage, Classify
  <1>2. p.status \notin ReturnDetails
    BY <1>1 DEF ObligationStage, Classify, ReturnDetails
  <1>3. p.state = "ARCHIVE" /\ p.status \notin ExplicitDetails
    BY <1>1, <1>2 DEF ObligationStage
  <1>4. ObligationStage(p) = "UNKNOWN"  BY <1>1, <1>2, <1>3 DEF ObligationStage
  <1>5. p.status \notin DOMAIN DecidingStatus
    BY <1>3 DEF ExplicitDetails, DecidingStatus
  <1>6. Classify(p) \in {"SIGN_REQUIRED", "PREORDER_IN_TRANSIT", "ISSUED_COMPLETED"}
    BY <1>1, <1>2, <1>3, <1>5 DEF Classify, ExplicitDetails
  <1> QED  BY <1>4, <1>6 DEF Packable

\* The selection of the orders to ship and the ledger of obligations, which look
\* at a payload by rules of their own, agree for every payload on whether the
\* order is to be shipped: what one would ship the other neither suspends nor
\* discharges, and the other way round.
THEOREM PoliciesAgree ==
    ASSUME NEW p
    PROVE  /\ Classify(p) \in Packable <=> ObligationStage(p) \in Packable
           /\ Classify(p) \in Packable => ObligationStage(p) \notin Discharge \cup Transitional
  <1>1. CASE Classify(p) = ObligationStage(p)
    BY <1>1 DEF Packable, Discharge, Transitional
  <1>2. CASE Classify(p) # ObligationStage(p)
    BY <1>2, PolicyOnlyDefers
  <1> QED  BY <1>1, <1>2

\* An order that the selector would take is not in a stage that suspends or
\* discharges an obligation.
LEMMA WaitingIsOwed ==
    ASSUME NEW o, Waiting(o)
    PROVE  Stage(o) \notin Discharge \cup Transitional
  BY PoliciesAgree DEF Waiting, Stage

\* A decision of the repair tool has an entry's type, discharges only what is in
\* a discharging stage, and otherwise keeps the entry open or removes it.
LEMMA DecisionFacts ==
    ASSUME NEW e \in Entry, Open(e), NEW o, NEW answer, NEW contamination \in Days,
           NEW manual, NEW carry
    PROVE  LET new == Decision(e, o, answer, contamination, manual, carry) IN
           /\ new \in Entry
           /\ new.status = "discharged" => Stage(o) \in Discharge
           /\ Open(new) \/ Stage(o) \in Discharge \/ new = NoEntry
  <1> DEFINE premature == Premature(e, contamination)
             base == IF premature THEN NoEntry ELSE e
             fresh == Checked(base, o, answer, contamination + 1)
             held == [fresh EXCEPT !.status = "unresolved"]
  <1>1. base \in Entry /\ contamination + 1 \in 0..(MaxDay + 1)
    BY NoEntryType, BoundsAssumption DEF Days
  <1>2. fresh \in Entry  BY <1>1, CheckedType
  <1>3. held \in Entry /\ Open(held) /\ held.status = "unresolved"
    BY <1>2 DEF Entry, Statuses, Open
  <1>4. /\ fresh.status = "discharged" => Stage(o) \in Discharge
        /\ Open(fresh) \/ Stage(o) \in Discharge
    BY CheckedOpen
  <1>5. Decision(e, o, answer, contamination, manual, carry) \in {held, fresh, NoEntry}
    BY DEF Decision
  <1>6. NoEntry.status # "discharged"  BY DEF NoEntry
  <1> HIDE DEF fresh, held
  <1> QED  BY <1>2, <1>3, <1>4, <1>5, <1>6, NoEntryType

LEMMA EmptyFile ==
    /\ [o \in Orders |-> NoEntry] \in Ledger
    /\ \A o \in Orders : [x \in Orders |-> NoEntry][o].status # "discharged"
  BY NoEntryType DEF Ledger, NoEntry

-------------------------------------------------------------------------------
(* Every action keeps the invariant.                                        *)

LEMMA InitInv == Init => IInv
  <1> SUFFICES ASSUME Init PROVE IInv  OBVIOUS
  <1>1. TypeOK
    BY EmptyFile, SituationsAssumption, BoundsAssumption DEF Init, TypeOK, Days
  <1>2. DoneInv
    <2> SUFFICES ASSUME NEW o \in Orders PROVE Stage(o) \notin Discharge
      BY DEF DoneInv
    <2>1. truth[o] = "accepted"  BY DEF Init
    <2> QED
      BY <2>1 DEF Stage, Payload, Order, ObligationStage, ReturnDetails, ExplicitDetails,
                  Classify, DecidingStatus, DeliveryStage, Discharge
  <1>3. DischargeInv  BY DEF Init, DischargeInv, NoEntry
  <1>4. NeverDropped /\ CopyInv /\ CandidateInv /\ VerifiedInv
    BY DEF Init, NeverDropped, CopyInv, CandidateInv, VerifiedInv, Copied
  <1>5. SeenInv /\ OwedInv /\ RequiredWasSeen /\ RequiredCoversPromised /\ PhaseInv
    BY DEF Init, PhaseInv, SeenInv, OwedInv, RequiredWasSeen, RequiredCoversPromised, Copied
  <1> QED  BY <1>1, <1>2, <1>3, <1>4, <1>5 DEF IInv

\* Orders that move only become done, and are no longer steady.
LEMMA MoveInv == ASSUME IInv, NEW o \in Orders, Move(o) PROVE IInv'
  <1> USE DEF IInv
  <1>1. PICK s \in Moves[truth[o]] \cap Situations : truth' = [truth EXCEPT ![o] = s]
    BY DEF Move
  <1>2. UNCHANGED <<planned, day, ledger, run, repair, promised, late, lost>>
    BY DEF Move
  <1>3. done' = done \cup {x \in {o} : ObligationStage(Payload[truth'[o]]) \in Discharge}
    BY DEF Move
  <1>4. steady' = steady \ {o}  BY DEF Move
  <1>5. TypeOK'
    BY <1>1, <1>2, <1>3, <1>4 DEF TypeOK, run, repair
  <1>6. truth \in [Orders -> Situations]  BY DEF TypeOK
  <1>7. \A x \in Orders \ {o} : truth'[x] = truth[x]  BY <1>1, <1>6
  <1>8. DoneInv'
    BY <1>3, <1>7 DEF DoneInv, Stage
  <1>9. DischargeInv'  BY <1>2, <1>3 DEF DischargeInv, run, repair
  <1>10. NeverDropped'  BY <1>2, <1>3 DEF NeverDropped, Open
  <1>11. CopyInv'  BY <1>2, <1>3 DEF CopyInv, Needing, Open, run, Copied
  <1>12. CandidateInv'  BY <1>2, <1>3 DEF CandidateInv, Open, IsGone, repair
  <1>13. VerifiedInv'  BY <1>2 DEF VerifiedInv, repair
  <1>14. SeenInv'  BY <1>2 DEF SeenInv, run, Copied
  <1>15. \A x \in steady' : x # o  BY <1>4
  <1>16. OwedInv'
    <2> SUFFICES ASSUME pc' \in Copied, NEW x \in (Needing' \cap steady') \ spared', Waiting(x)'
                 PROVE  x \in active' \/ copy'[x].status = "unresolved"
      BY DEF OwedInv, Copied
    <2>1. x \in Orders \ {o}  BY <1>15, <1>2 DEF TypeOK, Needing
    <2>2. Waiting(x)  BY <2>1, <1>7 DEF Waiting
    <2> QED  BY <2>2, <1>2, <1>3, <1>4 DEF OwedInv, Needing, run
  <1>17. RequiredWasSeen' /\ PhaseInv'  BY <1>2 DEF RequiredWasSeen, PhaseInv, run
  <1>18. RequiredCoversPromised'
    <2> SUFFICES ASSUME pc' \in {"required", "shipped", "zero"},
                        NEW x \in (promised' \cap steady') \ (done' \cup lost' \cup spared'),
                        Waiting(x)'
                 PROVE  x \in required'
      BY DEF RequiredCoversPromised
    <2>1. x \in Orders \ {o}  BY <1>15, <1>2 DEF TypeOK
    <2>2. Waiting(x)  BY <2>1, <1>7 DEF Waiting
    <2> QED  BY <2>2, <1>2, <1>3, <1>4 DEF RequiredCoversPromised, run
  <1> QED
    BY <1>5, <1>8, <1>9, <1>10, <1>11, <1>12, <1>13, <1>14, <1>16, <1>17, <1>18

\* Nothing but the date, or the closeout's control, changes.
LEMMA TomorrowInv == ASSUME IInv, Tomorrow PROVE IInv'
  <1>1. UNCHANGED <<truth, planned, done, ledger, run, repair, steady, promised, late, lost>>
    BY DEF Tomorrow
  <1>2. TypeOK'
    BY <1>1, BoundsAssumption DEF IInv, Tomorrow, TypeOK, Days, run, repair
  <1> QED
    BY <1>1, <1>2 DEF IInv, run, repair, DoneInv, Stage, DischargeInv, NeverDropped, Open,
      CopyInv, Copied, Needing, CandidateInv, IsGone, VerifiedInv, SeenInv, OwedInv,
      Waiting, RequiredWasSeen, RequiredCoversPromised, PhaseInv

LEMMA ShipInv == ASSUME IInv, Ship \/ NothingToShip PROVE IInv'
  <1>1. /\ UNCHANGED <<world, ledger, runDay, active, copy, spared, required, seen,
                       steady, repair, promised, late, lost>>
        /\ pc = "required" /\ pc' \in {"shipped", "zero"}
    BY DEF Ship, NothingToShip
  <1>2. TypeOK'  BY <1>1 DEF IInv, TypeOK, world, repair
  <1> QED
    BY <1>1, <1>2 DEF IInv, world, repair, DoneInv, Stage, DischargeInv, NeverDropped, Open,
      CopyInv, Copied, Needing, CandidateInv, IsGone, VerifiedInv, SeenInv, OwedInv,
      Waiting, RequiredWasSeen, RequiredCoversPromised, PhaseInv

\* A run that ended has no copy and requires nothing.
LEMMA EndRunInv ==
    ASSUME TypeOK, EndRun
    PROVE  /\ pc' = "idle" /\ runDay' \in Days /\ copy' \in Ledger
           /\ \A s \in {active', spared', required', seen', steady'} : s \subseteq Orders
           /\ \A o \in Orders : copy'[o].status # "discharged"
           /\ CopyInv' /\ SeenInv' /\ OwedInv' /\ RequiredWasSeen' /\ RequiredCoversPromised'
           /\ PhaseInv'
  BY EmptyFile, BoundsAssumption
    DEF EndRun, PhaseInv, Days, CopyInv, SeenInv, OwedInv, RequiredWasSeen, RequiredCoversPromised, Copied

LEMMA StopRunInv == ASSUME IInv, StopRun PROVE IInv'
  <1>1. UNCHANGED <<world, ledger, repair, promised, late, lost>> /\ EndRun
    BY DEF StopRun
  <1>2. TypeOK  BY DEF IInv
  <1>3. TypeOK'  BY <1>1, <1>2, EndRunInv DEF TypeOK, world, repair
  <1>4. DischargeInv'  BY <1>1, <1>2, EndRunInv DEF IInv, DischargeInv, world, repair
  <1>5. /\ DoneInv' /\ NeverDropped' /\ CandidateInv' /\ VerifiedInv'
    BY <1>1 DEF IInv, DoneInv, Stage, NeverDropped, Open, CandidateInv, IsGone,
                VerifiedInv, world, repair
  <1> QED  BY <1>1, <1>2, <1>3, <1>4, <1>5, EndRunInv DEF IInv

LEMMA SelectInv == ASSUME IInv, NEW g \in Groups, Select(Orders \ g) PROVE IInv'
  <1>1. /\ UNCHANGED <<world, ledger, copy, required, repair, promised, late, lost>>
        /\ pc = "idle" /\ pc' = "selected" /\ runDay' = day
        /\ active' \subseteq Orders /\ spared' \subseteq Orders
        /\ seen' = active' /\ steady' = Orders
    BY DEF Select, Eligible
  <1>2. TypeOK'  BY <1>1 DEF IInv, TypeOK, world, repair
  <1>3. RequiredWasSeen'
    BY <1>1 DEF RequiredWasSeen, IInv, PhaseInv
  <1> QED
    BY <1>1, <1>2, <1>3 DEF IInv, world, repair, DoneInv, Stage, DischargeInv, NeverDropped,
      Open, CopyInv, Copied, Needing, CandidateInv, IsGone, VerifiedInv, SeenInv, OwedInv,
      RequiredCoversPromised, PhaseInv

\* The copy that the reconciliation makes of the ledger.
LEMMA ReconciledFacts ==
    ASSUME IInv, pc = "selected", NEW answer \in Readings
    PROVE  LET new == ReconciledLedger(answer) IN
           /\ new \in Ledger
           /\ \A o \in Orders :
               /\ o \in Asked => new[o] = Checked(ledger[o], o, answer[o], runDay)
               /\ o \notin Asked /\ o \in active /\ Open(ledger[o]) =>
                     new[o].status = "unresolved"
               /\ o \notin Asked /\ ~(o \in active /\ Open(ledger[o])) => new[o] = ledger[o]
  <1>1. ledger \in Ledger /\ runDay \in Days /\ runDay \in 0..(MaxDay + 1)
    BY BoundsAssumption DEF IInv, TypeOK, Days
  <1>2. \A o \in Orders : ledger[o] \in Entry  BY <1>1 DEF Ledger
  <1>3. \A o \in Orders :
          /\ Checked(ledger[o], o, answer[o], runDay) \in Entry
          /\ Seen(ledger[o], runDay) \in Entry
          /\ Seen(ledger[o], runDay).status = "unresolved"
    BY <1>1, <1>2, CheckedType, SeenType
  <1> QED  BY <1>2, <1>3 DEF ReconciledLedger, Ledger

LEMMA ReconcileInv == ASSUME IInv, NEW g \in Groups, Reconcile(g) PROVE IInv'
  <1> USE DEF IInv
  <1>1. /\ UNCHANGED <<world, ledger, repair, promised, late, lost>> /\ pc = "selected"
    BY DEF Reconcile
  <1>2. PICK answer \in Readings :
          IF \E o \in Asked : Blocks(o, answer[o], g) THEN EndRun
          ELSE /\ pc' = "reconciled" /\ copy' = ReconciledLedger(answer)
               /\ spared' = spared \cup g
               /\ seen' = seen \cup {o \in Asked : answer[o] = "order" /\ Stage(o) \in Packable}
               /\ UNCHANGED <<runDay, active, required, steady>>
    BY DEF Reconcile
  <1>3. DoneInv' /\ NeverDropped' /\ CandidateInv' /\ VerifiedInv'
    BY <1>1 DEF DoneInv, Stage, NeverDropped, Open, CandidateInv, IsGone, VerifiedInv,
                world, repair
  <1>4. CASE \E o \in Asked : Blocks(o, answer[o], g)
    <2>1. EndRun  BY <1>2, <1>4
    <2>2. TypeOK'  BY <1>1, <2>1, EndRunInv DEF TypeOK, world, repair
    <2>3. DischargeInv'  BY <1>1, <2>1, EndRunInv DEF DischargeInv, world, repair
    <2> QED  BY <1>3, <2>1, <2>2, <2>3, EndRunInv
  <1>5. CASE ~ \E o \in Asked : Blocks(o, answer[o], g)
    <2>1. /\ pc' = "reconciled" /\ copy' = ReconciledLedger(answer)
          /\ spared' = spared \cup g
          /\ seen' = seen \cup {o \in Asked : answer[o] = "order" /\ Stage(o) \in Packable}
          /\ UNCHANGED <<runDay, active, required, steady>>
      BY <1>2, <1>5
    <2>2. /\ copy' \in Ledger
          /\ \A o \in Orders :
               /\ o \in Asked => copy'[o] = Checked(ledger[o], o, answer[o], runDay)
               /\ o \notin Asked /\ o \in active /\ Open(ledger[o]) =>
                     copy'[o].status = "unresolved"
               /\ o \notin Asked /\ ~(o \in active /\ Open(ledger[o])) => copy'[o] = ledger[o]
      BY <1>1, <2>1, ReconciledFacts
    <2>3. g \subseteq Orders /\ Asked \subseteq Orders
      BY OrdersAssumption DEF Asked, OpenIn
    <2>4. TypeOK'
      BY <1>1, <2>1, <2>2, <2>3 DEF TypeOK, world, repair
    <2>5. \A o \in Orders : copy'[o].status = "discharged" => o \in done
      <3> SUFFICES ASSUME NEW o \in Orders, copy'[o].status = "discharged" PROVE o \in done
        OBVIOUS
      <3>1. CASE o \in Asked
        BY <3>1, <2>2, CheckedOpen DEF DoneInv
      <3>2. CASE o \notin Asked
        BY <3>2, <2>2 DEF DischargeInv
      <3> QED  BY <3>1, <3>2
    <2>6. DischargeInv'
      BY <1>1, <2>5 DEF DischargeInv, world, repair
    <2>7. \A o \in Needing : Open(copy'[o])
      <3> SUFFICES ASSUME NEW o \in Needing PROVE Open(copy'[o])
        OBVIOUS
      <3>1. o \in Orders /\ Open(ledger[o]) /\ o \notin done
        BY DEF Needing, NeverDropped, TypeOK
      <3>2. CASE o \in Asked
        BY <3>1, <3>2, <2>2, CheckedOpen DEF DoneInv
      <3>3. CASE o \notin Asked
        BY <3>1, <3>3, <2>2 DEF Open
      <3> QED  BY <3>2, <3>3
    <2>8. CopyInv'
      BY <1>1, <2>7 DEF CopyInv, Needing, Open, world
    <2>9. \A o \in Asked :
            /\ answer[o] # "other order"
            /\ Uncertain(o, answer[o]) => o \in g
      BY <1>5 DEF Blocks
    <2>10. \A o \in Orders : copy'[o].status = "unresolved" => o \in seen' \cup spared'
      <3> SUFFICES ASSUME NEW o \in Orders, copy'[o].status = "unresolved"
                   PROVE  o \in seen' \cup spared'
        OBVIOUS
      <3>1. CASE o \in Asked /\ Uncertain(o, answer[o])
        BY <3>1, <2>9, <2>1
      <3>2. CASE o \in Asked /\ ~Uncertain(o, answer[o])
        <4>1. StatusAfter(o, answer[o]) = "unresolved"
          <5>1. copy'[o] = Checked(ledger[o], o, answer[o], runDay)  BY <3>2, <2>2
          <5> QED  BY <5>1 DEF Checked
        <4>2. answer[o] = "order"
          <5>1. answer[o] \in Answers  BY DEF Readings
          <5> QED  BY <5>1, <3>2, <2>9 DEF Answers, Uncertain
        <4>3. Stage(o) \in Packable
          BY <4>1, <4>2, <3>2 DEF StatusAfter, Uncertain
        <4> QED  BY <3>2, <4>2, <4>3, <2>1
      <3>3. CASE o \notin Asked /\ o \in active
        BY <3>3, <1>1, <2>1 DEF SeenInv
      <3>4. CASE o \notin Asked /\ o \notin active
        <4>1. ledger[o].status = "unresolved"  BY <3>4, <2>2
        <4> QED  BY <4>1, <3>4, <2>1 DEF Asked, OpenIn, Open
      <3> QED  BY <3>1, <3>2, <3>3, <3>4
    <2>11. SeenInv'
      BY <1>1, <2>1, <2>10 DEF SeenInv
    <2>12. OwedInv'
      <3> SUFFICES ASSUME NEW o \in (Needing' \cap steady') \ spared', Waiting(o)'
                   PROVE  o \in active' \/ copy'[o].status = "unresolved"
        BY DEF OwedInv
      <3>1. o \in Orders /\ Waiting(o) /\ Open(ledger[o]) /\ o \notin spared
        BY <1>1, <2>1 DEF Needing, Waiting, NeverDropped, TypeOK, world
      <3>2. CASE o \in active  BY <3>2, <2>1
      <3>3. CASE o \notin active
        <4>1. o \in Asked  BY <3>1, <3>3 DEF Asked, OpenIn
        <4>2. Stage(o) \notin Discharge \cup Transitional
          BY <3>1, WaitingIsOwed DEF TypeOK
        <4>3. copy'[o] = Checked(ledger[o], o, answer[o], runDay)
          BY <3>1, <4>1, <2>2
        <4> QED  BY <4>2, <4>3 DEF Checked, StatusAfter
      <3> QED  BY <3>2, <3>3
    <2>13. RequiredWasSeen' /\ RequiredCoversPromised' /\ PhaseInv'
      BY <1>1, <2>1 DEF RequiredWasSeen, RequiredCoversPromised, PhaseInv
    <2> QED  BY <1>3, <2>4, <2>6, <2>8, <2>11, <2>12, <2>13
  <1> QED  BY <1>4, <1>5

\* A save leaves unmarked only entries that it does not change.
LEMMA SaveInv ==
    ASSUME IInv, NEW L \in Ledger, Save(L), UNCHANGED <<world, repair>>,
           promised' \subseteq Orders, lost' \subseteq Orders,
           \A o \in Orders : L[o].status = "discharged" => o \in done,
           \A o \in Needing' : Open(L[o])
    PROVE  /\ ledger' = L /\ late' \subseteq Orders
           /\ DoneInv' /\ NeverDropped' /\ CandidateInv' /\ VerifiedInv'
           /\ \A o \in Orders : ledger'[o].status = "discharged" => o \in done'
           /\ \A o \in Orders : candidate'[o].status = "discharged" => o \in done'
  <1>1. ledger' = L /\ late' \subseteq Orders
    BY DEF Save, IInv, TypeOK
  <1>2. DoneInv' /\ CandidateInv'
    BY DEF IInv, DoneInv, Stage, CandidateInv, IsGone, Open, world, repair
  <1>3. NeverDropped'
    BY <1>1 DEF NeverDropped, Needing, Open
  <1>4. VerifiedInv'
    BY <1>1 DEF Save, IInv, VerifiedInv, repair
  <1>5. \A o \in Orders : candidate'[o].status = "discharged" => o \in done'
    BY DEF IInv, DischargeInv, world, repair
  <1> QED  BY <1>1, <1>2, <1>3, <1>4, <1>5 DEF world

LEMMA RequireInv == ASSUME IInv, NEW g \in Groups, Require(g) PROVE IInv'
  <1> USE DEF IInv
  <1>1. /\ UNCHANGED <<world, runDay, active, copy, seen, steady, repair, promised, lost>>
        /\ pc = "reconciled" /\ pc' = "required" /\ Save(copy)
        /\ spared' = spared \cup g
        /\ required' = (active \cup Unresolved(copy)) \ spared'
    BY DEF Require
  <1>2. copy \in Ledger /\ promised' \subseteq Orders /\ lost' \subseteq Orders
    BY <1>1 DEF TypeOK
  <1>3. \A o \in Orders : copy[o].status = "discharged" => o \in done
    BY DEF DischargeInv
  <1>4. \A o \in Needing' : Open(copy[o])
    BY <1>1 DEF CopyInv, Copied, Needing, world
  <1>5. /\ ledger' = copy /\ late' \subseteq Orders
        /\ DoneInv' /\ NeverDropped' /\ CandidateInv' /\ VerifiedInv'
        /\ \A o \in Orders : ledger'[o].status = "discharged" => o \in done'
        /\ \A o \in Orders : candidate'[o].status = "discharged" => o \in done'
    BY <1>1, <1>2, <1>3, <1>4, SaveInv
  <1>6. TypeOK'
    BY <1>1, <1>2, <1>5, OrdersAssumption DEF TypeOK, world, repair, Unresolved
  <1>7. DischargeInv'  BY <1>1, <1>3, <1>5 DEF DischargeInv, world
  <1>8. CopyInv'  BY <1>1, <1>4 DEF CopyInv, Open
  <1>9. SeenInv' /\ PhaseInv'  BY <1>1 DEF SeenInv, PhaseInv, Copied
  <1>10. OwedInv'  BY <1>1 DEF OwedInv, Copied, Needing, Waiting, world
  <1>11. RequiredWasSeen'
    BY <1>1 DEF RequiredWasSeen, SeenInv, Copied, Unresolved
  <1>12. RequiredCoversPromised'
    <2> SUFFICES ASSUME NEW o \in (promised' \cap steady') \ (done' \cup lost' \cup spared'),
                        Waiting(o)'
                 PROVE  o \in required'
      BY DEF RequiredCoversPromised
    <2>1. o \in Orders /\ o \in (Needing \cap steady) \ spared /\ Waiting(o)
      BY <1>1 DEF Needing, Waiting, TypeOK, world
    <2> QED  BY <1>1, <2>1 DEF OwedInv, Copied, Unresolved
  <1> QED
    BY <1>5, <1>6, <1>7, <1>8, <1>9, <1>10, <1>11, <1>12

LEMMA RegisterInv == ASSUME IInv, Register PROVE IInv'
  <1> USE DEF IInv
  <1> DEFINE L == [o \in Orders |-> IF o \in active THEN Seen(copy[o], runDay) ELSE copy[o]]
  <1>1. /\ UNCHANGED <<world, repair>> /\ pc \in Copied /\ Save(L) /\ EndRun
        /\ promised' = promised \cup active /\ lost' = lost \ active
    BY DEF Register, Copied
  <1>2. copy \in Ledger /\ runDay \in Days /\ TypeOK
    BY DEF TypeOK
  <1>3. \A o \in Orders : copy[o] \in Entry  BY <1>2 DEF Ledger
  <1>4. \A o \in Orders : /\ Seen(copy[o], runDay) \in Entry
                          /\ Open(Seen(copy[o], runDay))
                          /\ Seen(copy[o], runDay).status = "unresolved"
    BY <1>2, <1>3, SeenType
  <1>5. L \in Ledger  BY <1>3, <1>4 DEF Ledger
  <1>6. \A o \in Orders : L[o].status = "discharged" => o \in done
    BY <1>4 DEF DischargeInv
  <1>7. \A o \in Needing' : Open(L[o])
    <2> SUFFICES ASSUME NEW o \in Needing' PROVE Open(L[o])
      OBVIOUS
    <2>1. o \in Orders  BY <1>1 DEF Needing, TypeOK
    <2>2. CASE o \in active  BY <2>1, <2>2, <1>4
    <2>3. CASE o \notin active
      BY <2>1, <2>3, <1>1 DEF CopyInv, Needing, world
    <2> QED  BY <2>2, <2>3
  <1>8. promised' \subseteq Orders /\ lost' \subseteq Orders
    BY <1>1 DEF TypeOK
  <1>9. /\ ledger' = L /\ late' \subseteq Orders
        /\ DoneInv' /\ NeverDropped' /\ CandidateInv' /\ VerifiedInv'
        /\ \A o \in Orders : ledger'[o].status = "discharged" => o \in done'
        /\ \A o \in Orders : candidate'[o].status = "discharged" => o \in done'
    <2> HIDE DEF L
    <2> QED  BY <1>1, <1>5, <1>6, <1>7, <1>8, SaveInv
  <1> HIDE DEF L
  <1>10. TypeOK'
    BY <1>1, <1>2, <1>5, <1>8, <1>9, EndRunInv DEF TypeOK, world, repair
  <1>11. DischargeInv'
    BY <1>1, <1>2, <1>9, EndRunInv DEF DischargeInv
  <1> QED  BY <1>1, <1>2, <1>9, <1>10, <1>11, EndRunInv

LEMMA DecideInv ==
    ASSUME IInv, NEW contamination \in Days, NEW manual \in Groups, NEW carry \in Groups,
           Decide(contamination, manual, carry)
    PROVE  IInv'
  <1> USE DEF IInv
  <1>1. /\ UNCHANGED <<world, ledger, run, steady, promised, late, lost>>
        /\ repairs < MaxRepairs /\ repairs' = repairs + 1 /\ prior' = ledger
        /\ tool' = "decided"
    BY DEF Decide
  <1>2. PICK answer \in [Orders -> Answers] :
          candidate' = [o \in Orders |->
               IF o \in OpenIn(ledger)
               THEN Decision(ledger[o], o, answer[o], contamination, manual, carry)
               ELSE ledger[o]]
    BY DEF Decide
  <1>3. ledger \in Ledger /\ \A o \in Orders : ledger[o] \in Entry
    BY DEF TypeOK, Ledger
  <1>4. \A o \in OpenIn(ledger) :
          LET new == Decision(ledger[o], o, answer[o], contamination, manual, carry) IN
          /\ new \in Entry
          /\ new.status = "discharged" => Stage(o) \in Discharge
          /\ Open(new) \/ Stage(o) \in Discharge \/ new = NoEntry
    BY <1>3, DecisionFacts DEF OpenIn
  <1>5. \A o \in Orders :
          /\ candidate'[o] \in Entry
          /\ candidate'[o].status = "discharged" => o \in done
          /\ Open(ledger[o]) => Open(candidate'[o]) \/ o \in done \/ candidate'[o] = NoEntry
    <2> SUFFICES ASSUME NEW o \in Orders
                 PROVE  /\ candidate'[o] \in Entry
                        /\ candidate'[o].status = "discharged" => o \in done
                        /\ Open(ledger[o]) =>
                              Open(candidate'[o]) \/ o \in done \/ candidate'[o] = NoEntry
      OBVIOUS
    <2>1. CASE o \in OpenIn(ledger)
      BY <2>1, <1>2, <1>4 DEF DoneInv
    <2>2. CASE o \notin OpenIn(ledger)
      BY <2>2, <1>2, <1>3 DEF OpenIn, DischargeInv
    <2> QED  BY <2>1, <2>2
  <1>6. candidate' \in Ledger
    <2>1. candidate' = [o \in Orders |-> candidate'[o]]  BY <1>2
    <2> QED  BY <1>5, <2>1 DEF Ledger
  <1>7. TypeOK'
    BY <1>1, <1>3, <1>6, BoundsAssumption DEF TypeOK, world, run
  <1>8. DischargeInv'  BY <1>1, <1>5 DEF DischargeInv, world, run
  <1>9. CandidateInv'
    <2> SUFFICES ASSUME NEW o \in Orders, Open(ledger[o])
                 PROVE  Open(candidate'[o]) \/ o \in done \/ (ledger[o] # NoEntry /\ candidate'[o] = NoEntry)
      BY <1>1 DEF CandidateInv, IsGone, Open, world
    <2>1. ledger[o] # NoEntry  BY DEF Open, NoEntry
    <2> QED  BY <1>5, <2>1
  <1>10. VerifiedInv'  BY <1>1 DEF VerifiedInv
  <1> QED
    BY <1>1, <1>7, <1>8, <1>9, <1>10 DEF world, run, DoneInv, Stage, NeverDropped, Open,
      CopyInv, Needing, SeenInv, OwedInv, Waiting, RequiredWasSeen, RequiredCoversPromised,
      PhaseInv

\* The verified file is the one that the candidate was computed from.
LEMMA VerifyBackupInv == ASSUME IInv, VerifyBackup PROVE IInv'
  <1>1. /\ UNCHANGED <<world, ledger, run, prior, candidate, repairs, steady, promised, lost>>
        /\ tool = "decided" /\ ledger = prior /\ tool' = "verified" /\ late' = {}
    BY DEF VerifyBackup
  <1>2. TypeOK'  BY <1>1 DEF IInv, TypeOK, world, run
  <1> QED
    BY <1>1, <1>2 DEF IInv, world, run, DoneInv, Stage, DischargeInv, NeverDropped, Open,
      CopyInv, Needing, CandidateInv, IsGone, VerifiedInv, SeenInv, OwedInv, Waiting,
      RequiredWasSeen, RequiredCoversPromised, PhaseInv

LEMMA StopToolInv == ASSUME IInv, StopTool PROVE IInv'
  <1>1. /\ UNCHANGED <<world, ledger, run, repairs, steady, promised, lost>>
        /\ tool' = "idle" /\ late' = {}
        /\ prior' = [o \in Orders |-> NoEntry] /\ candidate' = [o \in Orders |-> NoEntry]
    BY DEF StopTool
  <1>2. TypeOK'  BY <1>1, EmptyFile DEF IInv, TypeOK, world, run
  <1>3. DischargeInv'  BY <1>1, EmptyFile DEF IInv, DischargeInv, world, run
  <1>4. CandidateInv' /\ VerifiedInv'  BY <1>1 DEF CandidateInv, VerifiedInv
  <1> QED
    BY <1>1, <1>2, <1>3, <1>4 DEF IInv, world, run, DoneInv, Stage, NeverDropped, Open,
      CopyInv, Needing, SeenInv, OwedInv, Waiting, RequiredWasSeen, RequiredCoversPromised,
      PhaseInv

\* What a repair writes keeps open every entry that must be, but those that it
\* removes and those that were saved inside its window.
LEMMA ApplyInv == ASSUME IInv, Apply PROVE IInv'
  <1> USE DEF IInv
  <1>1. /\ UNCHANGED <<world, run, repairs, steady>>
        /\ tool = "verified" /\ tool' = "idle" /\ ledger' = candidate
        /\ promised' = promised \ Removed /\ lost' = lost \cup late /\ late' = {}
        /\ prior' = [o \in Orders |-> NoEntry] /\ candidate' = [o \in Orders |-> NoEntry]
    BY DEF Apply
  <1>2. TypeOK'  BY <1>1, EmptyFile DEF TypeOK, world, run
  <1>3. DischargeInv'  BY <1>1, EmptyFile DEF DischargeInv, world, run
  <1>4. Needing' \subseteq Needing  BY <1>1 DEF Needing, world
  <1>5. NeverDropped'
    <2> SUFFICES ASSUME NEW o \in Needing' PROVE Open(candidate[o])
      BY <1>1 DEF NeverDropped, Needing, Open, world
    <2>1. /\ o \in Orders /\ o \in Needing /\ o \notin late /\ o \notin done
          /\ ~IsGone(o)
      BY <1>1, <1>4 DEF Needing, TypeOK, Removed, IsGone, world
    <2>2. Open(ledger[o])  BY <2>1 DEF NeverDropped, Needing
    <2>3. prior[o] = ledger[o]  BY <1>1, <2>1 DEF VerifiedInv
    <2> QED  BY <1>1, <2>1, <2>2, <2>3 DEF CandidateInv
  <1>6. CandidateInv' /\ VerifiedInv'  BY <1>1 DEF CandidateInv, VerifiedInv
  <1>7. CopyInv'  BY <1>1, <1>4 DEF CopyInv, Copied, Open, run
  <1>8. OwedInv'  BY <1>1, <1>4 DEF OwedInv, Copied, Waiting, run, world
  <1>9. RequiredCoversPromised'
    BY <1>1 DEF RequiredCoversPromised, Waiting, run, world
  <1> QED
    BY <1>1, <1>2, <1>3, <1>5, <1>6, <1>7, <1>8, <1>9 DEF world, run, DoneInv, Stage,
      SeenInv, Copied, RequiredWasSeen, PhaseInv

LEMMA StutterInv == ASSUME IInv, UNCHANGED vars PROVE IInv'
  BY DEF vars, world, run, repair, IInv, TypeOK, DoneInv, Stage, DischargeInv, NeverDropped,
    Open, CopyInv, Copied, Needing, CandidateInv, IsGone, VerifiedInv, SeenInv, OwedInv,
    Waiting, RequiredWasSeen, RequiredCoversPromised, PhaseInv

-------------------------------------------------------------------------------
(* The theorems.                                                            *)

LEMMA NextInv == IInv /\ [Next]_vars => IInv'
  <1> SUFFICES ASSUME IInv, [Next]_vars PROVE IInv'  OBVIOUS
  <1>1. CASE \E o \in Orders : Move(o)  BY <1>1, MoveInv
  <1>2. CASE Tomorrow  BY <1>2, TomorrowInv
  <1>3. CASE \E g \in Groups : Select(Orders \ g) \/ Reconcile(g) \/ Require(g)
    BY <1>3, SelectInv, ReconcileInv, RequireInv
  <1>4. CASE Ship \/ NothingToShip  BY <1>4, ShipInv
  <1>5. CASE Register  BY <1>5, RegisterInv
  <1>6. CASE StopRun  BY <1>6, StopRunInv
  <1>7. CASE \E contamination \in Days, manual \in Groups, carry \in Groups :
               Decide(contamination, manual, carry)
    BY <1>7, DecideInv
  <1>8. CASE VerifyBackup  BY <1>8, VerifyBackupInv
  <1>9. CASE Apply  BY <1>9, ApplyInv
  <1>10. CASE StopTool  BY <1>10, StopToolInv
  <1>11. CASE UNCHANGED vars  BY <1>11, StutterInv
  <1> QED
    BY <1>1, <1>2, <1>3, <1>4, <1>5, <1>6, <1>7, <1>8, <1>9, <1>10, <1>11 DEF Next

LEMMA InvHolds == Spec => []IInv
  BY InitInv, NextInv, PTL DEF Spec

\* The files and the control state of the closeout and of the repair keep their
\* types: no save of either writes an entry that the loader rejects.
THEOREM TypeCorrect == Spec => []TypeOK
  <1>1. IInv => TypeOK  BY DEF IInv
  <1> QED  BY <1>1, InvHolds, PTL

\* A registered order keeps its open obligation until it is done, for any number
\* of days, orders and repairs, but for the two ways that the property names.
THEOREM ObligationsKept == Spec => []NeverDropped
  <1>1. IInv => NeverDropped  BY DEF IInv
  <1> QED  BY <1>1, InvHolds, PTL

\* The ledger discharges only orders that were handed over or ended.
THEOREM DischargesSound == Spec => []DischargedMeansDone
  <1>1. IInv => DischargedMeansDone  BY DEF IInv, DischargeInv, DischargedMeansDone
  <1> QED  BY <1>1, InvHolds, PTL

\* Every closeout that requires orders requires the registered ones that wait.
THEOREM PromisedIsRequired == Spec => []RequiredCoversPromised
  <1>1. IInv => RequiredCoversPromised  BY DEF IInv
  <1> QED  BY <1>1, InvHolds, PTL

\* A closeout requires only what it has seen waiting itself.
THEOREM RequiredIsFresh == Spec => []RequiredWasSeen
  <1>1. IInv => RequiredWasSeen  BY DEF IInv
  <1> QED  BY <1>1, InvHolds, PTL

-------------------------------------------------------------------------------
(* The contract that a run refutes, ZeroOrderMeansNothingOwed, fails only    *)
(* because of the listing: with listings that fail the run when one of their *)
(* pages fails, it holds.                                                   *)

\* The selection is every order of the run's stores that the window covers.
FullListing ==
    [][pc = "idle" /\ pc' = "selected" => active' = Eligible(day) \ spared']_vars

\* Whatever waits since the selection was selected or is spared, and what was
\* selected and is not spared is required.
ListedInv ==
    /\ pc # "idle" => \A o \in Eligible(runDay) \cap steady : o \in active \cup spared
    /\ pc \in {"required", "shipped", "zero"} => active \ spared \subseteq required
    /\ pc = "zero" => required = {}

\* An order that is steady after a step waits as it did before it.
LEMMA ListedKept ==
    ASSUME TypeOK, ListedInv, pc # "idle",
           runDay' = runDay, active' = active, steady' \subseteq steady,
           spared \subseteq spared', planned' = planned,
           \A o \in steady' : truth'[o] = truth[o]
    PROVE  \A o \in Eligible(runDay)' \cap steady' : o \in active' \cup spared'
  <1> SUFFICES ASSUME NEW o \in Eligible(runDay)' \cap steady'
               PROVE  o \in active' \cup spared'
    OBVIOUS
  <1>1. o \in Eligible(runDay) \cap steady  BY DEF Eligible, Waiting
  <1> QED  BY <1>1 DEF ListedInv

LEMMA ListedNext ==
    ASSUME TypeOK, ListedInv, [Next]_vars,
           [pc = "idle" /\ pc' = "selected" => active' = Eligible(day) \ spared']_vars
    PROVE  ListedInv'
  <1>1. CASE \E o \in Orders : Move(o)
    <2>1. PICK o \in Orders : Move(o)  BY <1>1
    <2>2. UNCHANGED <<planned, run>> /\ steady' = steady \ {o}  BY <2>1 DEF Move
    <2>3. PICK s : truth' = [truth EXCEPT ![o] = s]  BY <2>1 DEF Move
    <2>4. \A x \in steady' : truth'[x] = truth[x]
      BY <2>2, <2>3 DEF TypeOK
    <2>5. pc # "idle" => \A x \in Eligible(runDay)' \cap steady' : x \in active' \cup spared'
      BY <2>2, <2>4, ListedKept DEF run
    <2> QED  BY <2>2, <2>5 DEF ListedInv, run
  <1>2. CASE Tomorrow \/ Ship \/ NothingToShip \/ VerifyBackup \/ Apply \/ StopTool
             \/ (\E contamination \in Days, manual \in Groups, carry \in Groups :
                    Decide(contamination, manual, carry))
    <2>1. /\ UNCHANGED <<truth, planned, runDay, active, spared, required, steady>>
          /\ \/ pc' = pc
             \/ pc = "required" /\ pc' = "shipped"
             \/ pc = "required" /\ pc' = "zero" /\ required = {}
      BY <1>2 DEF Tomorrow, Ship, NothingToShip, VerifyBackup, Apply, StopTool, Decide,
                  world, run
    <2>2. pc # "idle" => \A x \in Eligible(runDay)' \cap steady' : x \in active' \cup spared'
      BY <2>1, ListedKept
    <2> QED  BY <2>1, <2>2 DEF ListedInv
  <1>3. CASE \E g \in Groups : Select(Orders \ g)
    <2>1. PICK g \in Groups : Select(Orders \ g)  BY <1>3
    <2>2. pc = "idle" /\ pc' = "selected" /\ runDay' = day /\ UNCHANGED world
      BY <2>1 DEF Select
    <2>3. active' = Eligible(day) \ spared'  BY <2>2 DEF vars, run
    <2>4. Eligible(runDay)' = Eligible(day)
      BY <2>2 DEF Eligible, Waiting, world
    <2> QED  BY <2>2, <2>3, <2>4 DEF ListedInv
  <1>4. CASE \E g \in Groups : Reconcile(g)
    <2>1. PICK g \in Groups : Reconcile(g)  BY <1>4
    <2>2. UNCHANGED <<truth, planned>> /\ pc = "selected"  BY <2>1 DEF Reconcile, world
    <2>3. \/ EndRun
          \/ pc' = "reconciled" /\ spared' = spared \cup g /\ UNCHANGED <<runDay, active, steady>>
      BY <2>1 DEF Reconcile
    <2>4. CASE EndRun  BY <2>4 DEF EndRun, ListedInv
    <2>5. CASE pc' = "reconciled" /\ spared' = spared \cup g /\ UNCHANGED <<runDay, active, steady>>
      <3>1. \A x \in Eligible(runDay)' \cap steady' : x \in active' \cup spared'
        BY <2>2, <2>5, ListedKept
      <3> QED  BY <2>5, <3>1 DEF ListedInv
    <2> QED  BY <2>3, <2>4, <2>5
  <1>5. CASE \E g \in Groups : Require(g)
    <2>1. PICK g \in Groups : Require(g)  BY <1>5
    <2>2. /\ UNCHANGED <<truth, planned, runDay, active, steady>>
          /\ pc = "reconciled" /\ pc' = "required" /\ spared' = spared \cup g
          /\ required' = (active \cup Unresolved(copy)) \ spared'
      BY <2>1 DEF Require, world
    <2>3. \A x \in Eligible(runDay)' \cap steady' : x \in active' \cup spared'
      BY <2>2, ListedKept
    <2> QED  BY <2>2, <2>3 DEF ListedInv
  <1>6. CASE Register \/ StopRun
    BY <1>6 DEF Register, StopRun, EndRun, ListedInv
  <1>7. CASE UNCHANGED vars
    BY <1>7 DEF vars, world, run, ListedInv, Eligible, Waiting
  <1> QED  BY <1>1, <1>2, <1>3, <1>4, <1>5, <1>6, <1>7 DEF Next

\* With complete listings a closeout that completes with no orders leaves no
\* order waiting that its window covers: what refutes the contract is a listing
\* that ended early and passed for a complete one, and nothing else, whatever
\* the reads, waivers, repairs and dates.
THEOREM FullListingOwesNothing == Spec /\ FullListing => []ZeroOrderMeansNothingOwed
  <1>1. Init => ListedInv  BY DEF Init, ListedInv
  <1>2. ListedInv => ZeroOrderMeansNothingOwed
    BY DEF ListedInv, ZeroOrderMeansNothingOwed
  <1> QED  BY <1>1, <1>2, TypeCorrect, ListedNext, PTL DEF Spec, FullListing
===============================================================================
