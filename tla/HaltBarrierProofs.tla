-------------------------- MODULE HaltBarrierProofs --------------------------
(* Proofs about HaltBarrier, for any dates, processes, clock and number of  *)
(* halts: type correctness, the only two ways in which a halt can be lost,  *)
(* and that nothing passes a gate without a READY newer than the halt.      *)
EXTENDS HaltBarrier, TLAPS

-------------------------------------------------------------------------------
(* Type correctness.                                                        *)

\* A gate sends a process to a place where it can be.
LEMMA OutcomeType ==
    ASSUME NEW gate \in Gates, NEW b, NEW r, NEW line
    PROVE  Outcome(gate, b, r, line) \in Control
BY DEF Outcome, Gates, Control

\* Proving a state of the barrier keeps it well formed.
LEMMA ProvenType ==
    ASSUME NEW b \in Barrier, NEW r, NEW line
    PROVE  /\ Proven(b, r, line) \in Barrier
           /\ Proven(b, r, line).target = b.target
           /\ Proven(b, r, line).at = b.at
           /\ Proven(b, r, line).key = b.key
BY DEF Proven, Barrier, BarrierStates

\* What the gates' writers look like.
LEMMA WritingType ==
    ASSUME NEW gate \in Gates, gate # "manifest"
    PROVE  Writing[gate] \in Control
<1>1. CASE gate = "watching" BY <1>1 DEF Writing, Control
<1>2. CASE gate = "stamping" BY <1>2 DEF Writing, Control
<1>3. CASE gate = "live" BY <1>3 DEF Writing, Control
<1>4. CASE gate = "halting" BY <1>4 DEF Writing, Control
<1> QED BY <1>1, <1>2, <1>3, <1>4 DEF Gates

\* A process that leaves keeps the types.
LEMMA LeaveType ==
    ASSUME TypeOK, NEW p \in Procs, Leave(p)
    PROVE  /\ pc' \in [Procs -> Control] /\ job' \in [Procs -> Request]
           /\ seen' \in [Procs -> Row]
           /\ snap' \in [Procs -> Barrier \cup {Absent}]
           /\ known' \in [Procs -> SUBSET Halt]
BY DEF TypeOK, Leave, Goto, Control, Request, Row, Stamp, NoRow, Blank

\* A decision keeps the types.
LEMMA DecideType ==
    ASSUME TypeOK, NEW p \in Procs, NEW gate \in Gates, NEW b \in Barrier \cup {Absent},
           Decide(p, gate, b)
    PROVE  /\ pc' \in [Procs -> Control] /\ job' \in [Procs -> Request]
           /\ seen' \in [Procs -> Row]
           /\ snap' \in [Procs -> Barrier \cup {Absent}]
           /\ known' \in [Procs -> SUBSET Halt]
<1> DEFINE next == Outcome(gate, b, job[p], seen[p])
<1>1. CASE next = "idle"
  BY <1>1, LeaveType DEF Decide
<1>2. CASE next # "idle"
  <2>1. next \in Control BY OutcomeType
  <2>2. /\ pc' = [pc EXCEPT ![p] = next]
        /\ snap' = [snap EXCEPT ![p] = IF next = "returned" THEN b ELSE Absent]
        /\ known' = [known EXCEPT ![p] = {}]
        /\ job' = [job EXCEPT ![p].began =
                      CASE next = "observed" -> now
                        [] next = "stamp" -> @
                        [] OTHER -> Blank]
        /\ seen' = [seen EXCEPT ![p] = IF next = "stamp" THEN @ ELSE NoRow]
    BY <1>2 DEF Decide, Goto
  <2> HIDE DEF next
  <2>3. pc' \in [Procs -> Control] /\ snap' \in [Procs -> Barrier \cup {Absent}]
        /\ known' \in [Procs -> SUBSET Halt]
    BY <2>1, <2>2 DEF TypeOK
  <2>4. job' \in [Procs -> Request]
    <3>1. PICK t \in Stamp : job' = [job EXCEPT ![p].began = t]
      BY <2>2 DEF TypeOK, Request, Stamp, Blank
    <3> QED BY <3>1 DEF TypeOK, Request
  <2>5. seen' \in [Procs -> Row]
    BY <2>2 DEF TypeOK, Row, Stamp, Blank, NoRow
  <2> QED BY <2>3, <2>4, <2>5
<1> QED BY <1>1, <1>2

\* Persisting a halt keeps the types.
LEMMA PersistType ==
    ASSUME TypeOK, NEW d \in Dates, NEW key \in 0..MaxHalts, Persist(d, key)
    PROVE  barrier' \in Barrier \cup {Absent} /\ replaced' \subseteq Halt
BY DEF TypeOK, Persist, Barrier, BarrierStates

\* The initial state is well typed.
LEMMA TypeInit ==
    ASSUME Init PROVE TypeOK
BY DatesAssumption, TimeAssumption
   DEF Init, TypeOK, Times, Row, Stamp, Request, Control, NoRow, Blank

\* Every step keeps the types.
LEMMA TypeNext ==
    ASSUME TypeOK, [Next]_vars PROVE TypeOK'
<1> USE DEF board, process, lost, history
<1>1. CASE UNCHANGED vars
  BY <1>1 DEF vars, TypeOK
<1>2. CASE Tick
  BY <1>2, TimeAssumption DEF Tick, TypeOK, Times
<1>3. CASE Midnight
  BY <1>3 DEF Midnight, TypeOK
<1>4. CASE EmployeeReady
  BY <1>4 DEF EmployeeReady, TypeOK, Row
<1>5. CASE EmployeeHold
  BY <1>5 DEF EmployeeHold, TypeOK, Row
<1>6. CASE BotReady
  <2> DEFINE stamped == row[today].value = "READY" /\ row[today].at # Blank
             line == IF stamped THEN row[today] ELSE [value |-> "READY", at |-> now]
  <2>1. line \in Row /\ line.at \in Times
    BY DEF TypeOK, Row, Stamp
  <2>2. /\ row' = [row EXCEPT ![today] = line]
        /\ job' = [job EXCEPT ![Bot] = [target |-> today, at |-> line.at, began |-> Blank]]
        /\ stamps' = stamps \cup {line.at}
        /\ pc' = [pc EXCEPT ![Bot] = "gate"]
        /\ chosen' = chosen \/ chosen' = [chosen EXCEPT ![today] = now]
    BY <1>6 DEF BotReady, Goto
  <2> HIDE DEF line
  <2>3. Bot \in Procs BY DEF Procs
  <2>4. row' \in [Dates -> Row] /\ chosen' \in [Dates -> Times]
    BY <2>1, <2>2 DEF TypeOK
  <2>5. job' \in [Procs -> Request]
    BY <2>1, <2>2, <2>3 DEF TypeOK, Request, Stamp, Blank
  <2>6. pc' \in [Procs -> Control]
    BY <2>2, <2>3 DEF TypeOK, Control
  <2>7. stamps' \subseteq Stamp
    BY <2>1, <2>2 DEF TypeOK, Stamp
  <2> QED BY <1>6, <2>4, <2>5, <2>6, <2>7 DEF BotReady, TypeOK
<1>7. ASSUME NEW w \in Workers, Poll(w) \/ Watch(w) PROVE TypeOK'
  <2> w \in Procs BY DEF Procs
  <2>1. CASE Poll(w)
    BY <1>7, <2>1 DEF Poll, Goto, TypeOK, Request, Stamp, Control
  <2>2. CASE Watch(w)
    <3>1. PICK d \in Dates : job[w].target = d BY DEF TypeOK, Request
    <3>2. row[d] \in Row BY DEF TypeOK
    <3>3. [target |-> d, at |-> row[d].at, began |-> Blank] \in Request
      BY <3>2 DEF Request, Row, Stamp, Blank
    <3>4. pc' \in [Procs -> Control] BY <2>2 DEF Watch, Goto, TypeOK, Control, Gates
    <3>5. job' \in [Procs -> Request] /\ seen' \in [Procs -> Row]
      BY <2>2, <3>1, <3>2, <3>3 DEF Watch, TypeOK
    <3> QED BY <2>2, <3>4, <3>5 DEF Watch, TypeOK
  <2> QED BY <1>7, <2>1, <2>2
<1>8. ASSUME NEW w \in Workers, ReadStamp(w) PROVE TypeOK'
  <2> w \in Procs BY DEF Procs
  <2>1. row[job[w].target] \in Row
    BY DEF TypeOK, Request
  <2>2. pc' \in [Procs -> Control] /\ seen' \in [Procs -> Row]
    BY <1>8, <2>1 DEF ReadStamp, Goto, TypeOK, Control, Gates
  <2>3. job' \in [Procs -> Request]
    <3> DEFINE r == [target |-> job[w].target, at |-> row[job[w].target].at,
                     began |-> IF pc[w] = "observed" THEN job[w].began ELSE now]
    <3>1. job' = [job EXCEPT ![w] = r] BY <1>8 DEF ReadStamp
    <3>2. job[w] \in Request /\ now \in Stamp BY DEF TypeOK, Stamp
    <3>3. r \in Request BY <2>1, <3>2 DEF Request, Row
    <3> HIDE DEF r
    <3> QED BY <3>1, <3>3 DEF TypeOK
  <2> QED BY <1>8, <2>2, <2>3 DEF ReadStamp, TypeOK
<1>9. ASSUME NEW w \in Workers, WriteStamp(w) PROVE TypeOK'
  <2> w \in Procs BY DEF Procs
  <2>1. PICK t \in Stamp : t = job[w].began
    BY DEF TypeOK, Request
  <2>2. row' \in [Dates -> Row]
    BY <1>9, <2>1 DEF WriteStamp, TypeOK, Request, Row
  <2>3. stamps' \subseteq Stamp
    BY <1>9, <2>1 DEF WriteStamp, TypeOK
  <2> QED BY <1>9, <2>2, <2>3, LeaveType DEF WriteStamp, TypeOK
<1>10. ASSUME NEW p \in Procs, ReadLive(p) \/ ReadManifest(p) PROVE TypeOK'
  <2>1. row[job[p].target] \in Row /\ [value |-> "READY", at |-> job[p].at] \in Row
    BY DEF TypeOK, Request, Row
  <2> QED BY <1>10, <2>1 DEF ReadLive, ReadManifest, Goto, TypeOK, Control, Gates
<1>11. ASSUME NEW p \in Procs, GiveUp(p) \/ Act(p) PROVE TypeOK'
  BY <1>11, LeaveType DEF GiveUp, Act, Goto, TypeOK, Control
<1>12. ASSUME NEW p \in Procs, NEW gate \in Gates, Evaluate(p, gate) PROVE TypeOK'
  <2> DEFINE proven == IF barrier = Absent THEN Absent ELSE Proven(barrier, job[p], seen[p])
  <2>1. proven \in Barrier \cup {Absent}
    BY ProvenType DEF TypeOK
  <2>2. ignored' \subseteq Halt /\ UNCHANGED <<board, barrier, updates, halts, lost, stamps, chosen>>
    BY <1>12 DEF Evaluate, TypeOK
  <2>3. CASE proven # barrier /\ gate # "manifest"
    <3>1. /\ snap' = [snap EXCEPT ![p] = proven]
          /\ known' = [known EXCEPT ![p] = halts]
          /\ pc' = [pc EXCEPT ![p] = Writing[gate]]
          /\ UNCHANGED <<job, seen>>
      BY <1>12, <2>3 DEF Evaluate, Goto
    <3> HIDE DEF proven
    <3> QED BY <2>1, <2>2, <2>3, <3>1, WritingType DEF TypeOK
  <2>4. CASE ~(proven # barrier /\ gate # "manifest")
    <3>1. Decide(p, gate, barrier)
      BY <1>12, <2>4 DEF Evaluate
    <3> QED BY <2>2, <3>1, DecideType DEF TypeOK
  <2> QED BY <2>3, <2>4
<1>13. ASSUME NEW p \in Procs, NEW gate \in Gates, Write(p, gate) PROVE TypeOK'
  <2>1. barrier' \in Barrier \cup {Absent} /\ raced' \subseteq Halt
        /\ UNCHANGED <<board, updates, halts, replaced, ignored, stamps, chosen>>
    BY <1>13 DEF Write, TypeOK
  <2>2. CASE gate = "halting"
    BY <1>13, <2>1, <2>2 DEF Write, Goto, TypeOK, Control
  <2>3. CASE gate # "halting"
    <3>1. Decide(p, gate, snap[p]) BY <1>13, <2>3 DEF Write
    <3>2. snap[p] \in Barrier \cup {Absent} BY DEF TypeOK
    <3> QED BY <2>1, <3>1, <3>2, DecideType DEF TypeOK
  <2> QED BY <2>2, <2>3
<1>14. CASE HaltCommand
  <2> Bot \in Procs BY DEF Procs
  <2>1. updates + 1 \in 0..MaxHalts BY <1>14, TimeAssumption DEF HaltCommand, TypeOK
  <2>2. barrier' \in Barrier \cup {Absent} /\ replaced' \subseteq Halt
    BY <1>14, <2>1, PersistType DEF HaltCommand, TypeOK
  <2>3. halts' \subseteq Halt
    BY <1>14 DEF HaltCommand, TypeOK, Halt
  <2>4. pc' \in [Procs -> Control] /\ job' \in [Procs -> Request]
    BY <1>14 DEF HaltCommand, Goto, TypeOK, Control, Request, Stamp, Blank
  <2> QED BY <1>14, <2>1, <2>2, <2>3, <2>4 DEF HaltCommand, TypeOK
<1>15. CASE HaltReplay
  <2> Bot \in Procs BY DEF Procs
  <2>1. barrier' \in Barrier \cup {Absent} /\ replaced' \subseteq Halt
    BY <1>15, PersistType DEF HaltReplay, TypeOK
  <2>2. halts' \subseteq Halt
    BY <1>15 DEF HaltReplay, TypeOK, Halt
  <2>3. pc' \in [Procs -> Control]
    BY <1>15 DEF HaltReplay, Goto, TypeOK, Control
  <2> QED BY <1>15, <2>1, <2>2, <2>3 DEF HaltReplay, TypeOK
<1>16. CASE HaltDropped \/ HaltCommitted
  <2> Bot \in Procs BY DEF Procs
  <2> QED BY <1>16, LeaveType DEF HaltDropped, HaltCommitted, TypeOK
<1>17. CASE SetHold \/ ReadBack \/ HaltFails
  <2> Bot \in Procs BY DEF Procs
  <2>1. NoRow \in Row BY DEF NoRow, Row, Stamp
  <2>2. pc' \in [Procs -> Control]
    BY <1>17 DEF SetHold, ReadBack, HaltFails, Goto, TypeOK, Control, Gates
  <2>3. /\ row' \in [Dates -> Row] /\ seen' \in [Procs -> Row]
        /\ snap' \in [Procs -> Barrier \cup {Absent}]
        /\ known' \in [Procs -> SUBSET Halt]
    BY <1>17, <2>1 DEF SetHold, ReadBack, HaltFails, TypeOK
  <2> QED BY <1>17, <2>2, <2>3 DEF SetHold, ReadBack, HaltFails, TypeOK
<1> QED BY <1>1, <1>2, <1>3, <1>4, <1>5, <1>6, <1>7, <1>8, <1>9, <1>10, <1>11, <1>12,
           <1>13, <1>14, <1>15, <1>16, <1>17 DEF Next

\* The row, the barrier and every copy of them that a process holds are well
\* formed in every reachable state.
THEOREM TypeCorrect == Spec => []TypeOK
<1>1. Init => TypeOK BY TypeInit
<1>2. TypeOK /\ [Next]_vars => TypeOK' BY TypeNext
<1> QED BY <1>1, <1>2, PTL DEF Spec

-------------------------------------------------------------------------------
(* How a halt can be lost.                                                  *)

\* A barrier covers a halt when its gates bar everything that the halt bars.
Covers(b, h) == b # Absent /\ b.target = h.target /\ h.at <= b.at

Lost == raced \cup replaced
Writers == {"watching write", "stamping write", "live write", "halting write"}

\* No halt comes from the future, and no barrier from a later update.
HaltsPast == \A h \in halts : h.at <= now
KeyKnown(b) == b # Absent => b.key <= updates

\* The file covers every halt that was not lost, and so does a file that a gate
\* is about to write, as far as the halts existed when it loaded the file.
FileCovers == KeyKnown(barrier) /\ \A h \in halts \ Lost : Covers(barrier, h)
SnapCovers(p) ==
    pc[p] \in Writers =>
        KeyKnown(snap[p]) /\ \A h \in known[p] \ Lost : Covers(snap[p], h)
SnapsCover == \A p \in Procs : SnapCovers(p)

HaltInv == TypeOK /\ HaltsPast /\ FileCovers /\ SnapsCover /\ IgnoredOnlyIfLost

\* What a step that does not touch the barrier, the halts or a writer looks like.
Quiet ==
    /\ UNCHANGED <<barrier, halts, lost, ignored, updates>>
    /\ now <= now'
    /\ \A p \in Procs : pc'[p] \in Writers =>
          pc[p] \in Writers /\ snap'[p] = snap[p] /\ known'[p] = known[p]

\* A gate that lets a process go on bars no halt that its barrier covers.
LEMMA CoveredBlocks ==
    ASSUME NEW gate \in Gates, NEW b \in Barrier \cup {Absent}, NEW r \in Request,
           NEW line, NEW h \in Halt, Covers(b, h), Bars(h, r)
    PROVE  Outcome(gate, b, r, line) \notin {"gate", "act"}
<1>1. RequestHalted(b, r)
  <2>1. b \in Barrier /\ b.target = r.target /\ r.at # Blank
    BY DEF Covers, Bars
  <2>2. h.at \in Nat /\ b.at \in Nat /\ r.at \in Nat
    BY <2>1 DEF Halt, Barrier, Request, Stamp, Times, Blank
  <2>3. r.at <= h.at /\ h.at <= b.at BY DEF Covers, Bars
  <2> QED BY <2>1, <2>2, <2>3 DEF RequestHalted
<1>2. ~Open(b, r, line)
  BY <1>1 DEF Open, Blocked, Covers
<1> QED BY <1>2 DEF Outcome, Gates

\* The label at which a gate writes tells which gate it is.
LEMMA WritingIsWriter ==
    ASSUME NEW gate \in Gates, gate # "manifest" PROVE Writing[gate] \in Writers
<1>1. CASE gate = "watching" BY <1>1 DEF Writing, Writers
<1>2. CASE gate = "stamping" BY <1>2 DEF Writing, Writers
<1>3. CASE gate = "live" BY <1>3 DEF Writing, Writers
<1>4. CASE gate = "halting" BY <1>4 DEF Writing, Writers
<1> QED BY <1>1, <1>2, <1>3, <1>4 DEF Gates

\* A process that leaves, or that a gate sends on, is no writer any more.
LEMMA DecideNoWriter ==
    ASSUME TypeOK, NEW p \in Procs, NEW gate \in Gates, NEW b, Leave(p) \/ Decide(p, gate, b)
    PROVE  /\ pc'[p] \notin Writers
           /\ \A q \in Procs \ {p} : /\ pc'[q] = pc[q] /\ snap'[q] = snap[q]
                                     /\ known'[q] = known[q]
<1>1. Outcome(gate, b, job[p], seen[p]) \notin Writers
  BY DEF Outcome, Gates, Writers
<1> QED BY <1>1 DEF TypeOK, Leave, Decide, Goto, Writers

\* A process that goes to another label is no writer any more.
LEMMA GotoNoWriter ==
    ASSUME TypeOK, NEW p \in Procs, NEW label, label \notin Writers, Goto(p, label)
    PROVE  pc'[p] \notin Writers /\ \A q \in Procs \ {p} : pc'[q] = pc[q]
BY DEF TypeOK, Goto

\* A quiet step keeps the invariant.
LEMMA QuietKeeps ==
    ASSUME HaltInv, TypeOK', Quiet PROVE HaltInv'
<1> USE DEF lost
<1>1. HaltsPast'
  <2>1. \A h \in halts : h.at \in Nat /\ h.at <= now
    BY DEF HaltInv, HaltsPast, TypeOK, Halt, Times
  <2>2. now \in Nat /\ now' \in Nat /\ now <= now'
    BY DEF HaltInv, TypeOK, Times, Quiet
  <2>3. halts' = halts BY DEF Quiet
  <2> QED BY <2>1, <2>2, <2>3 DEF HaltsPast
<1>2. FileCovers'
  BY DEF HaltInv, FileCovers, KeyKnown, Covers, Lost, Quiet
<1>3. SnapsCover'
  BY DEF HaltInv, SnapsCover, SnapCovers, KeyKnown, Covers, Lost, Quiet
<1>4. IgnoredOnlyIfLost'
  BY DEF HaltInv, IgnoredOnlyIfLost, Quiet
<1> QED BY <1>1, <1>2, <1>3, <1>4 DEF HaltInv

\* Every step but the gates' and the halts' is quiet.
LEMMA QuietSteps ==
    ASSUME TypeOK,
           \/ UNCHANGED vars
           \/ Tick \/ Midnight \/ EmployeeReady \/ EmployeeHold \/ BotReady
           \/ \E w \in Workers : Poll(w) \/ Watch(w) \/ ReadStamp(w) \/ WriteStamp(w)
           \/ \E p \in Procs : GiveUp(p) \/ ReadLive(p) \/ ReadManifest(p) \/ Act(p)
           \/ HaltDropped \/ SetHold \/ ReadBack \/ HaltFails \/ HaltCommitted
    PROVE  Quiet
<1> USE DEF board, process, lost, history
<1>0. now \in Nat /\ Bot \in Procs /\ Workers \subseteq Procs
  BY DEF TypeOK, Times, Procs
<1>01. {"polled", "gate", "watching", "stamping", "live", "manifest", "hold", "readback",
        "halting", "replay"} \cap Writers = {}
  BY DEF Writers
<1>1. CASE UNCHANGED vars \/ Tick \/ Midnight \/ EmployeeReady \/ EmployeeHold
  BY <1>0, <1>1 DEF Quiet, vars, Tick, Midnight, EmployeeReady, EmployeeHold
<1>2. CASE BotReady
  <2>1. Goto(Bot, "gate") /\ UNCHANGED <<snap, known, barrier, halts, lost, ignored, updates, now>>
    BY <1>2 DEF BotReady
  <2> QED BY <1>0, <1>01, <2>1, GotoNoWriter DEF Quiet
<1>3. ASSUME NEW w \in Workers, Poll(w) \/ Watch(w) \/ ReadStamp(w) PROVE Quiet
  <2>1. /\ Goto(w, "polled") \/ Goto(w, "watching") \/ Goto(w, "stamping")
        /\ UNCHANGED <<snap, known, barrier, halts, lost, ignored, updates, now>>
    BY <1>3 DEF Poll, Watch, ReadStamp
  <2> QED BY <1>0, <1>01, <2>1, GotoNoWriter DEF Quiet
<1>4. ASSUME NEW w \in Workers, WriteStamp(w) PROVE Quiet
  BY <1>0, <1>4, DecideNoWriter DEF WriteStamp, Quiet, Gates
<1>5. ASSUME NEW p \in Procs, ReadLive(p) \/ ReadManifest(p) PROVE Quiet
  <2>1. /\ Goto(p, "live") \/ Goto(p, "manifest")
        /\ UNCHANGED <<snap, known, barrier, halts, lost, ignored, updates, now>>
    BY <1>5 DEF ReadLive, ReadManifest
  <2> QED BY <1>0, <1>01, <2>1, GotoNoWriter DEF Quiet
<1>6. ASSUME NEW p \in Procs, GiveUp(p) \/ Act(p) PROVE Quiet
  <2>1. CASE Leave(p)
    BY <1>0, <1>6, <2>1, DecideNoWriter DEF GiveUp, Act, Quiet, Gates
  <2>2. CASE Goto(p, "gate") /\ UNCHANGED <<job, seen, snap, known>>
    BY <1>0, <1>01, <1>6, <2>2, GotoNoWriter DEF GiveUp, Act, Quiet
  <2> QED BY <1>6, <2>1, <2>2 DEF GiveUp, Act
<1>7. CASE HaltDropped \/ HaltCommitted
  BY <1>0, <1>7, DecideNoWriter DEF HaltDropped, HaltCommitted, Quiet, Gates
<1>8. CASE SetHold \/ ReadBack \/ HaltFails
  <2>1. /\ Goto(Bot, "readback") \/ Goto(Bot, "halting") \/ Goto(Bot, "replay")
        /\ UNCHANGED <<barrier, halts, lost, ignored, updates, now>>
    BY <1>8 DEF SetHold, ReadBack, HaltFails
  <2>2. \A q \in Procs \ {Bot} : snap'[q] = snap[q] /\ known'[q] = known[q]
    BY <1>8 DEF SetHold, ReadBack, HaltFails, TypeOK
  <2> QED BY <1>0, <1>01, <2>1, <2>2, GotoNoWriter DEF Quiet
<1> QED BY <1>1, <1>2, <1>3, <1>4, <1>5, <1>6, <1>7, <1>8

\* A gate that evaluates the barrier keeps the invariant.
LEMMA EvaluateKeeps ==
    ASSUME HaltInv, TypeOK', NEW p \in Procs, NEW gate \in Gates, Evaluate(p, gate)
    PROVE  HaltInv'
<1> USE DEF board, process, lost, history
<1> DEFINE proven == IF barrier = Absent THEN Absent ELSE Proven(barrier, job[p], seen[p])
<1>1. /\ proven \in Barrier \cup {Absent}
      /\ \A h : Covers(barrier, h) => Covers(proven, h)
      /\ KeyKnown(barrier) => KeyKnown(proven)
  <2>1. CASE barrier = Absent
    BY <2>1 DEF Covers
  <2>2. CASE barrier # Absent
    <3>1. barrier \in Barrier BY <2>2 DEF HaltInv, TypeOK
    <3>2. /\ proven \in Barrier /\ proven.target = barrier.target
          /\ proven.at = barrier.at /\ proven.key = barrier.key
      BY <2>2, <3>1, ProvenType
    <3>3. proven # Absent BY <3>2, AbsentAssumption
    <3> HIDE DEF proven
    <3> QED BY <2>2, <3>2, <3>3 DEF Covers, KeyKnown
  <2> QED BY <2>1, <2>2
<1>2. UNCHANGED <<now, barrier, halts, lost, updates>>
  BY DEF Evaluate
<1>3. HaltsPast' /\ FileCovers'
  BY <1>2 DEF HaltInv, HaltsPast, FileCovers, KeyKnown, Covers, Lost
<1>4. IgnoredOnlyIfLost'
  <2>1. CASE Outcome(gate, proven, job[p], seen[p]) \in {"gate", "act"}
    <3>1. ignored' = ignored \cup {h \in halts : Bars(h, job[p])}
      BY <2>1 DEF Evaluate
    <3>2. ASSUME NEW h \in halts, Bars(h, job[p]) PROVE h \in Lost
      <4>1. SUFFICES ASSUME h \notin Lost PROVE FALSE OBVIOUS
      <4>2. Covers(proven, h)
        BY <1>1, <4>1 DEF HaltInv, FileCovers
      <4>3. h \in Halt /\ job[p] \in Request
        BY DEF HaltInv, TypeOK
      <4> HIDE DEF proven
      <4> QED BY <1>1, <2>1, <3>2, <4>2, <4>3, CoveredBlocks
    <3> QED BY <1>2, <3>1, <3>2 DEF HaltInv, IgnoredOnlyIfLost, Lost
  <2>2. CASE Outcome(gate, proven, job[p], seen[p]) \notin {"gate", "act"}
    BY <1>2, <2>2 DEF Evaluate, HaltInv, IgnoredOnlyIfLost
  <2> QED BY <2>1, <2>2
<1>5. SnapsCover'
  <2>1. CASE proven # barrier /\ gate # "manifest"
    <3>1. /\ snap' = [snap EXCEPT ![p] = proven]
          /\ known' = [known EXCEPT ![p] = halts]
          /\ pc' = [pc EXCEPT ![p] = Writing[gate]]
      BY <2>1 DEF Evaluate, Goto
    <3>2. snap'[p] = proven /\ known'[p] = halts
      BY <3>1 DEF HaltInv, TypeOK
    <3>3. SnapCovers(p)'
      <4>1. KeyKnown(proven) /\ \A h \in halts \ Lost : Covers(proven, h)
        BY <1>1 DEF HaltInv, FileCovers
      <4> HIDE DEF proven
      <4> QED BY <1>2, <3>2, <4>1 DEF SnapCovers, KeyKnown, Covers, Lost
    <3>4. ASSUME NEW q \in Procs \ {p} PROVE SnapCovers(q)'
      <4>1. pc'[q] = pc[q] /\ snap'[q] = snap[q] /\ known'[q] = known[q]
        BY <3>1 DEF HaltInv, TypeOK
      <4> HIDE DEF proven
      <4> QED BY <1>2, <4>1 DEF HaltInv, SnapsCover, SnapCovers, KeyKnown, Covers, Lost
    <3> QED BY <3>3, <3>4 DEF SnapsCover
  <2>2. CASE ~(proven # barrier /\ gate # "manifest")
    <3>1. Decide(p, gate, barrier) BY <2>2 DEF Evaluate
    <3> HIDE DEF proven
    <3> QED BY <1>2, <3>1, DecideNoWriter
        DEF HaltInv, SnapsCover, SnapCovers, KeyKnown, Covers, Lost
  <2> QED BY <2>1, <2>2
<1> QED BY <1>3, <1>4, <1>5 DEF HaltInv

\* A gate that writes its copy keeps the invariant: the halts persisted since it
\* loaded the file are lost in a race.
LEMMA WriteKeeps ==
    ASSUME HaltInv, TypeOK', NEW p \in Procs, NEW gate \in Gates, Write(p, gate)
    PROVE  HaltInv'
<1> USE DEF board, process, lost, history
<1>1. /\ barrier' = snap[p] /\ raced' = raced \cup (halts \ known[p])
      /\ UNCHANGED <<now, updates, halts, replaced, ignored>>
      /\ pc[p] = Writing[gate] /\ gate # "manifest"
  BY DEF Write
<1>2. HaltsPast' /\ IgnoredOnlyIfLost'
  BY <1>1 DEF HaltInv, HaltsPast, IgnoredOnlyIfLost
<1>3. FileCovers'
  <2>1. KeyKnown(snap[p]) /\ \A h \in known[p] \ Lost : Covers(snap[p], h)
    BY <1>1, WritingIsWriter DEF HaltInv, SnapsCover, SnapCovers
  <2>2. halts' \ Lost' \subseteq known[p] \ Lost
    BY <1>1 DEF Lost
  <2> QED BY <1>1, <2>1, <2>2 DEF FileCovers, KeyKnown, Covers
<1>4. SnapsCover'
  <2>1. /\ pc'[p] \notin Writers
        /\ \A q \in Procs \ {p} : /\ pc'[q] = pc[q] /\ snap'[q] = snap[q]
                                  /\ known'[q] = known[q]
    <3>1. CASE gate = "halting"
      BY <3>1 DEF Write, Goto, HaltInv, TypeOK, Writers
    <3>2. CASE gate # "halting"
      BY <3>2, DecideNoWriter DEF Write, HaltInv
    <3> QED BY <3>1, <3>2
  <2>2. Lost \subseteq Lost' BY <1>1 DEF Lost
  <2> QED BY <1>1, <2>1, <2>2 DEF HaltInv, SnapsCover, SnapCovers, KeyKnown, Covers
<1> QED BY <1>2, <1>3, <1>4 DEF HaltInv

\* Persisting halt h: afterwards the file covers it and every other halt that is
\* not lost.
LEMMA PersistKeeps ==
    ASSUME HaltInv, TypeOK', NEW d \in Dates, NEW key \in 0..MaxHalts, Persist(d, key),
           UNCHANGED raced, UNCHANGED now, key <= updates', updates <= updates',
           halts' \subseteq halts \cup {[target |-> d, at |-> now]},
           barrier' = barrier => halts' = halts \/ updates < key
    PROVE  FileCovers'
<1>1. now \in Nat /\ updates \in Nat /\ updates' \in Nat /\ key \in Nat
  BY DEF HaltInv, TypeOK, Times
<1>2. CASE /\ barrier # Absent /\ barrier.target = d
           /\ barrier.key = key \/ now <= barrier.at
  <2>1. barrier' = barrier /\ replaced' = replaced
    BY <1>2 DEF Persist
  <2>2. barrier \in Barrier /\ barrier.key <= updates /\ barrier.key \in Nat
    BY <1>2 DEF HaltInv, TypeOK, FileCovers, KeyKnown, Barrier
  <2>3. \A h \in halts \ Lost : Covers(barrier, h)
    BY DEF HaltInv, FileCovers
  <2>4. halts' # halts => now <= barrier.at
    BY <1>1, <1>2, <2>1, <2>2
  <2>5. ASSUME NEW h \in halts' \ Lost' PROVE Covers(barrier, h)
    <3>1. CASE h \in halts
      BY <2>1, <2>3, <3>1 DEF Lost
    <3>2. CASE h \notin halts
      <4>1. h = [target |-> d, at |-> now] BY <3>2
      <4>2. now <= barrier.at BY <2>4, <3>2
      <4> QED BY <1>2, <4>1, <4>2 DEF Covers
    <3> QED BY <3>1, <3>2
  <2>6. barrier.key <= updates' BY <1>1, <2>2
  <2> QED BY <2>1, <2>5, <2>6 DEF FileCovers, KeyKnown, Covers
<1>3. CASE ~(/\ barrier # Absent /\ barrier.target = d
             /\ barrier.key = key \/ now <= barrier.at)
  <2>1. /\ barrier' = [target |-> d, at |-> now, key |-> key, state |-> "PENDING_HOLD"]
        /\ replaced' = replaced \cup {h \in halts : h.target # d}
    BY <1>3 DEF Persist
  <2>2. barrier' # Absent
    <3>1. barrier' \in Barrier BY <2>1 DEF HaltInv, TypeOK, Barrier, BarrierStates
    <3> QED BY <3>1, AbsentAssumption
  <2>3. ASSUME NEW h \in halts' \ Lost' PROVE h.target = d /\ h.at <= now
    <3>1. CASE h \in halts
      BY <2>1, <3>1 DEF HaltInv, HaltsPast, Lost
    <3>2. CASE h = [target |-> d, at |-> now]
      BY <1>1, <3>2
    <3> QED BY <3>1, <3>2
  <2> QED BY <2>1, <2>2, <2>3 DEF FileCovers, KeyKnown, Covers
<1> QED BY <1>2, <1>3

\* A /halt, new or replayed, keeps the invariant.
LEMMA HaltKeeps ==
    ASSUME HaltInv, TypeOK', HaltCommand \/ HaltReplay
    PROVE  HaltInv'
<1> USE DEF board, process, lost, history
<1>1. /\ now \in Nat /\ updates \in Nat /\ today \in Dates /\ Bot \in Procs
      /\ updates' \in 0..MaxHalts /\ updates \in 0..MaxHalts
  BY DEF HaltInv, TypeOK, Times, Procs
<1>2. /\ UNCHANGED <<now, raced, ignored, snap, known>>
      /\ halts' \subseteq halts \cup {[target |-> today, at |-> now]}
      /\ updates <= updates'
      /\ pc' = [pc EXCEPT ![Bot] = "hold"]
  BY <1>1 DEF HaltCommand, HaltReplay, Goto
<1>3. HaltsPast'
  BY <1>1, <1>2 DEF HaltInv, HaltsPast
<1>4. FileCovers'
  <2>1. CASE HaltCommand
    <3>1. /\ Persist(today, updates + 1) /\ updates + 1 = updates'
      BY <2>1 DEF HaltCommand
    <3> QED BY <1>1, <1>2, <3>1, PersistKeeps
  <2>2. CASE HaltReplay
    <3>1. Persist(today, updates) /\ updates' = updates /\ (barrier' = barrier => halts' = halts)
      BY <2>2 DEF HaltReplay
    <3> QED BY <1>1, <1>2, <3>1, PersistKeeps
  <2> QED BY <2>1, <2>2
<1>5. replaced \subseteq replaced'
  BY DEF HaltCommand, HaltReplay, Persist
<1>6. SnapsCover'
  <2>1. ASSUME NEW q \in Procs PROVE SnapCovers(q)'
    <3>1. pc'[q] \in Writers => pc[q] \in Writers
      BY <1>1, <1>2 DEF HaltInv, TypeOK, Writers
    <3>2. Lost \subseteq Lost' BY <1>2, <1>5 DEF Lost
    <3>3. CASE pc'[q] \in Writers
      <4>1. KeyKnown(snap[q]) /\ \A h \in known[q] \ Lost : Covers(snap[q], h)
        BY <3>1, <3>3 DEF HaltInv, SnapsCover, SnapCovers
      <4>2. snap[q] # Absent => snap[q].key \in Nat
        BY DEF HaltInv, TypeOK, Barrier
      <4>3. KeyKnown(snap[q])'
        BY <1>1, <1>2, <4>1, <4>2 DEF KeyKnown
      <4> QED BY <1>2, <3>2, <4>1, <4>3 DEF SnapCovers, Covers
    <3> QED BY <3>3 DEF SnapCovers
  <2> QED BY <2>1 DEF SnapsCover
<1>7. IgnoredOnlyIfLost'
  BY <1>2, <1>5 DEF HaltInv, IgnoredOnlyIfLost
<1> QED BY <1>3, <1>4, <1>6, <1>7 DEF HaltInv

\* The invariant holds initially and every step keeps it.
LEMMA HaltInit ==
    ASSUME Init PROVE HaltInv
BY TypeInit DEF Init, HaltInv, HaltsPast, FileCovers, KeyKnown, SnapsCover, SnapCovers,
                Covers, Lost, IgnoredOnlyIfLost, Writers

LEMMA HaltNext ==
    ASSUME HaltInv, [Next]_vars PROVE HaltInv'
<1>1. TypeOK /\ TypeOK' BY TypeNext DEF HaltInv
<1>2. CASE \E p \in Procs, gate \in Gates : Evaluate(p, gate)
  BY <1>1, <1>2, EvaluateKeeps
<1>3. CASE \E p \in Procs, gate \in Gates : Write(p, gate)
  BY <1>1, <1>3, WriteKeeps
<1>4. CASE HaltCommand \/ HaltReplay
  BY <1>1, <1>4, HaltKeeps
<1>5. CASE ~(\/ \E p \in Procs, gate \in Gates : Evaluate(p, gate) \/ Write(p, gate)
             \/ HaltCommand \/ HaltReplay)
  BY <1>1, <1>5, QuietSteps, QuietKeeps DEF Next
<1> QED BY <1>2, <1>3, <1>4, <1>5

\* evaluate_closeout_halt_barrier, persist_closeout_halt_barrier: a request that
\* a halt bars goes on only if that halt was overwritten by a gate that held an
\* older copy of the file, or by the halt of another date.
THEOREM IgnoredCorrect == Spec => []IgnoredOnlyIfLost
<1>1. Init => HaltInv BY HaltInit
<1>2. HaltInv /\ [Next]_vars => HaltInv' BY HaltNext
<1>3. HaltInv => IgnoredOnlyIfLost BY DEF HaltInv
<1> QED BY <1>1, <1>2, <1>3, PTL DEF Spec

-------------------------------------------------------------------------------
(* What lets a process go on.                                               *)

\* Every stamp that a row, or a process's copy of it, shows was given to a READY.
StampsKnown ==
    /\ \A d \in Dates : row[d].at \in stamps \cup {Blank}
    /\ \A p \in Procs : /\ seen[p].at \in stamps \cup {Blank}
                        /\ job[p].at \in stamps \cup {Blank}

\* A superseded barrier was superseded by a READY with a later stamp.
WellSuperseded(b) == b # Absent /\ b.state = "SUPERSEDED" => Released(b)
Supersessions ==
    /\ WellSuperseded(barrier)
    /\ \A p \in Procs : pc[p] \in Writers => WellSuperseded(snap[p])

PassInv == TypeOK /\ StampsKnown /\ Supersessions

\* No step but a gate's moves a process to "act".
NoneActs == \A p \in Procs : pc'[p] = "act" => pc[p] = "act"

LEMMA GotoMoves ==
    ASSUME TypeOK, NEW p \in Procs, NEW label, Goto(p, label)
    PROVE  pc'[p] = label /\ \A q \in Procs \ {p} : pc'[q] = pc[q]
BY DEF TypeOK, Goto

LEMMA LeaveMoves ==
    ASSUME TypeOK, NEW p \in Procs, Leave(p)
    PROVE  /\ pc'[p] = "idle" /\ job'[p].at = Blank /\ seen'[p].at = Blank
           /\ \A q \in Procs \ {p} : /\ pc'[q] = pc[q] /\ snap'[q] = snap[q]
                                     /\ job'[q] = job[q] /\ seen'[q] = seen[q]
BY DEF TypeOK, Leave, Goto, NoRow

LEMMA DecideMoves ==
    ASSUME TypeOK, NEW p \in Procs, NEW gate \in Gates, NEW b, Decide(p, gate, b)
    PROVE  /\ pc'[p] = Outcome(gate, b, job[p], seen[p])
           /\ job'[p].at \in {job[p].at, Blank}
           /\ seen'[p].at \in {seen[p].at, Blank}
           /\ \A q \in Procs \ {p} : /\ pc'[q] = pc[q] /\ snap'[q] = snap[q]
                                     /\ job'[q] = job[q] /\ seen'[q] = seen[q]
<1> DEFINE next == Outcome(gate, b, job[p], seen[p])
<1>1. CASE next = "idle"
  BY <1>1, LeaveMoves DEF Decide
<1>2. CASE next # "idle"
  <2>1. /\ pc' = [pc EXCEPT ![p] = next]
        /\ snap' = [snap EXCEPT ![p] = IF next = "returned" THEN b ELSE Absent]
        /\ job' = [job EXCEPT ![p].began =
                      CASE next = "observed" -> now
                        [] next = "stamp" -> @
                        [] OTHER -> Blank]
        /\ seen' = [seen EXCEPT ![p] = IF next = "stamp" THEN @ ELSE NoRow]
    BY <1>2 DEF Decide, Goto
  <2> HIDE DEF next
  <2>2. job[p] \in Request BY DEF TypeOK
  <2>3. job'[p].at = job[p].at
    <3>1. PICK t : job' = [job EXCEPT ![p].began = t] BY <2>1
    <3> QED BY <2>2, <3>1 DEF TypeOK, Request
  <2>4. seen'[p].at \in {seen[p].at, Blank}
    BY <2>1 DEF TypeOK, NoRow
  <2> QED BY <2>1, <2>3, <2>4 DEF TypeOK, next
<1> QED BY <1>1, <1>2

\* A barrier that lets a request pass is released.
LEMMA OpenReleased ==
    ASSUME PassInv, NEW b \in Barrier \cup {Absent}, WellSuperseded(b), NEW p \in Procs,
           Open(b, job[p], seen[p])
    PROVE  Released(b)
<1>1. CASE b = Absent \/ b.state = "SUPERSEDED"
  BY <1>1 DEF WellSuperseded, Released
<1>2. CASE b # Absent /\ PostHalt(b, seen[p])
  BY <1>2 DEF PostHalt, Released, PassInv, StampsKnown
<1> QED BY <1>1, <1>2 DEF Open, Blocked

\* What a gate proves is a rightful supersession.
LEMMA ProvenSuperseded ==
    ASSUME PassInv, barrier # Absent, NEW p \in Procs
    PROVE  WellSuperseded(Proven(barrier, job[p], seen[p]))
<1> DEFINE b == Proven(barrier, job[p], seen[p])
<1>1. barrier \in Barrier BY DEF PassInv, TypeOK
<1>2. b.at = barrier.at BY <1>1, ProvenType
<1>3. CASE ExactHold(barrier, job[p], seen[p])
  BY <1>1, <1>3 DEF Proven, WellSuperseded, Barrier
<1>4. CASE ~ExactHold(barrier, job[p], seen[p]) /\ PostHalt(barrier, seen[p])
  <2>1. \E t \in stamps : t > b.at
    BY <1>2, <1>4 DEF PostHalt, PassInv, StampsKnown
  <2> QED BY <2>1 DEF WellSuperseded, Released
<1>5. CASE ~ExactHold(barrier, job[p], seen[p]) /\ ~PostHalt(barrier, seen[p])
  BY <1>5 DEF Proven, PassInv, Supersessions
<1> QED BY <1>3, <1>4, <1>5

\* A row and its copies keep known stamps in every step.
LEMMA QuietStamps ==
    ASSUME PassInv, Quiet, stamps \subseteq stamps', StampsKnown', TypeOK'
    PROVE  PassInv'
<1>1. \A b : WellSuperseded(b) => (b # Absent /\ b.state = "SUPERSEDED" =>
                                      \E t \in stamps' : t > b.at)
  BY DEF WellSuperseded, Released
<1>2. \A p \in Procs : pc'[p] \in Writers => pc[p] \in Writers /\ snap'[p] = snap[p]
  BY DEF Quiet
<1>3. barrier' = barrier BY DEF Quiet
<1> QED BY <1>1, <1>2, <1>3 DEF PassInv, Supersessions, WellSuperseded, Released

\* Every step but the gates' and the halts' keeps stamps known and makes none act.
LEMMA QuietPass ==
    ASSUME PassInv,
           \/ UNCHANGED vars
           \/ Tick \/ Midnight \/ EmployeeReady \/ EmployeeHold \/ BotReady
           \/ \E w \in Workers : Poll(w) \/ Watch(w) \/ ReadStamp(w) \/ WriteStamp(w)
           \/ \E p \in Procs : GiveUp(p) \/ ReadLive(p) \/ ReadManifest(p) \/ Act(p)
           \/ HaltDropped \/ SetHold \/ ReadBack \/ HaltFails \/ HaltCommitted
    PROVE  StampsKnown' /\ stamps \subseteq stamps' /\ NoneActs
<1> USE DEF board, process, lost, history
<1>0. TypeOK /\ StampsKnown /\ Bot \in Procs /\ Workers \subseteq Procs /\ today \in Dates
  BY DEF PassInv, TypeOK, Procs
<1>1. CASE UNCHANGED vars \/ Tick \/ Midnight
  BY <1>0, <1>1 DEF vars, Tick, Midnight, StampsKnown, NoneActs
<1>2. CASE EmployeeReady \/ EmployeeHold
  <2>1. UNCHANGED <<job, seen, stamps, pc>> /\ \A d \in Dates : row'[d].at = row[d].at
    <3>1. PICK v \in {"READY", "HOLD"} : row' = [row EXCEPT ![today].value = v]
      BY <1>2 DEF EmployeeReady, EmployeeHold
    <3>2. row \in [Dates -> Row] BY <1>0 DEF TypeOK
    <3>3. \A d \in Dates : row'[d].at = row[d].at BY <3>1, <3>2 DEF Row
    <3> QED BY <1>2, <3>3 DEF EmployeeReady, EmployeeHold
  <2> QED BY <1>0, <2>1 DEF StampsKnown, NoneActs
<1>3. CASE BotReady
  <2> DEFINE stamped == row[today].value = "READY" /\ row[today].at # Blank
             line == IF stamped THEN row[today] ELSE [value |-> "READY", at |-> now]
  <2>1. /\ row' = [row EXCEPT ![today] = line]
        /\ job' = [job EXCEPT ![Bot] = [target |-> today, at |-> line.at, began |-> Blank]]
        /\ stamps' = stamps \cup {line.at}
        /\ Goto(Bot, "gate") /\ seen' = seen
    BY <1>3 DEF BotReady
  <2> HIDE DEF line
  <2>2. \A d \in Dates : row'[d].at \in stamps' \cup {Blank}
    BY <1>0, <2>1 DEF StampsKnown, TypeOK
  <2>3. \A p \in Procs : job'[p].at \in stamps' \cup {Blank}
    BY <1>0, <2>1 DEF StampsKnown, TypeOK
  <2> QED BY <1>0, <2>1, <2>2, <2>3, GotoMoves DEF StampsKnown, NoneActs
<1>10. ASSUME NEW w \in Workers, Poll(w)
       PROVE  StampsKnown' /\ stamps \subseteq stamps' /\ NoneActs
  <2>1. /\ Goto(w, "polled") /\ UNCHANGED <<row, seen, stamps>>
        /\ job' = [job EXCEPT ![w] = [target |-> today, at |-> Blank, began |-> Blank]]
    BY <1>10 DEF Poll
  <2> QED BY <1>0, <2>1, GotoMoves DEF StampsKnown, TypeOK, NoneActs
<1>4. ASSUME NEW w \in Workers, Watch(w) \/ ReadStamp(w)
      PROVE  StampsKnown' /\ stamps \subseteq stamps' /\ NoneActs
  <2>1. PICK d \in Dates :
          /\ job'[w].at = row[d].at /\ seen'[w].at = row[d].at
          /\ \A q \in Procs \ {w} : job'[q] = job[q] /\ seen'[q] = seen[q]
    <3>1. CASE Watch(w)
      BY <1>0, <3>1 DEF Watch, TypeOK, Request
    <3>2. CASE ReadStamp(w)
      BY <1>0, <3>2 DEF ReadStamp, TypeOK, Request
    <3> QED BY <1>4, <3>1, <3>2
  <2>2. UNCHANGED <<row, stamps>> /\ (Goto(w, "watching") \/ Goto(w, "stamping"))
    BY <1>4 DEF Watch, ReadStamp
  <2> QED BY <1>0, <2>1, <2>2, GotoMoves DEF StampsKnown, NoneActs
<1>5. ASSUME NEW w \in Workers, WriteStamp(w)
      PROVE  StampsKnown' /\ stamps \subseteq stamps' /\ NoneActs
  <2>1. /\ stamps' = stamps \cup {job[w].began} /\ Leave(w)
        /\ row' = [row EXCEPT ![job[w].target] = [seen[w] EXCEPT !.at = job[w].began]]
    BY <1>5 DEF WriteStamp
  <2>2. \A d \in Dates : row'[d].at \in stamps' \cup {Blank}
    BY <1>0, <2>1 DEF StampsKnown, TypeOK, Row, Request
  <2> QED BY <1>0, <2>1, <2>2, LeaveMoves DEF StampsKnown, NoneActs
<1>6. ASSUME NEW p \in Procs, ReadLive(p) \/ ReadManifest(p)
      PROVE  StampsKnown' /\ stamps \subseteq stamps' /\ NoneActs
  <2>1. /\ seen'[p].at \in stamps \cup {Blank}
        /\ \A q \in Procs \ {p} : seen'[q] = seen[q]
    <3>1. CASE ReadLive(p)
      BY <1>0, <3>1 DEF ReadLive, TypeOK, Request, StampsKnown
    <3>2. CASE ReadManifest(p)
      BY <1>0, <3>2 DEF ReadManifest, TypeOK, StampsKnown
    <3> QED BY <1>6, <3>1, <3>2
  <2>2. UNCHANGED <<row, stamps, job>> /\ (Goto(p, "live") \/ Goto(p, "manifest"))
    BY <1>6 DEF ReadLive, ReadManifest
  <2> QED BY <1>0, <2>1, <2>2, GotoMoves DEF StampsKnown, NoneActs
<1>7. ASSUME NEW p \in Procs, GiveUp(p) \/ Act(p)
      PROVE  StampsKnown' /\ stamps \subseteq stamps' /\ NoneActs
  <2>1. UNCHANGED <<row, stamps>> BY <1>7 DEF GiveUp, Act
  <2>2. CASE Leave(p)
    BY <1>0, <2>1, <2>2, LeaveMoves DEF StampsKnown, NoneActs
  <2>3. CASE Goto(p, "gate") /\ UNCHANGED <<job, seen, snap, known>>
    BY <1>0, <2>1, <2>3, GotoMoves DEF StampsKnown, NoneActs
  <2> QED BY <1>7, <2>2, <2>3 DEF GiveUp, Act
<1>8. CASE HaltDropped \/ HaltCommitted
  <2>1. UNCHANGED <<row, stamps>> /\ Leave(Bot) BY <1>8 DEF HaltDropped, HaltCommitted
  <2> QED BY <1>0, <2>1, LeaveMoves DEF StampsKnown, NoneActs
<1>9. CASE SetHold \/ ReadBack \/ HaltFails
  <2>1. UNCHANGED <<job, stamps>>
        /\ (Goto(Bot, "readback") \/ Goto(Bot, "halting") \/ Goto(Bot, "replay"))
    BY <1>9 DEF SetHold, ReadBack, HaltFails
  <2>0. /\ row' = row \/ row' = [row EXCEPT ![job[Bot].target] = NoRow]
        /\ seen' = seen \/ seen' = [seen EXCEPT ![Bot] = NoRow]
    BY <1>9 DEF SetHold, ReadBack, HaltFails
  <2>2. \A d \in Dates : row'[d].at \in stamps \cup {Blank}
    BY <1>0, <2>0 DEF TypeOK, StampsKnown, NoRow
  <2>3. \A q \in Procs : seen'[q].at \in stamps \cup {Blank}
    BY <1>0, <2>0 DEF TypeOK, StampsKnown, NoRow
  <2> QED BY <1>0, <2>1, <2>2, <2>3, GotoMoves DEF StampsKnown, NoneActs
<1> QED BY <1>1, <1>2, <1>3, <1>4, <1>5, <1>6, <1>7, <1>8, <1>9, <1>10

\* A gate that evaluates keeps the invariant, and lets a process act only when
\* the barrier is released.
LEMMA EvaluatePass ==
    ASSUME PassInv, TypeOK', NEW p \in Procs, NEW gate \in Gates, Evaluate(p, gate)
    PROVE  /\ PassInv'
           /\ \A q \in Procs : pc[q] # "act" /\ pc'[q] = "act" => Released(barrier')
<1> USE DEF board, process, lost, history
<1> DEFINE proven == IF barrier = Absent THEN Absent ELSE Proven(barrier, job[p], seen[p])
<1>0. TypeOK /\ StampsKnown /\ Supersessions BY DEF PassInv
<1>1. UNCHANGED <<row, stamps, barrier>> BY DEF Evaluate
<1>2. WellSuperseded(proven)
  BY ProvenSuperseded DEF WellSuperseded
<1>3. CASE proven # barrier /\ gate # "manifest"
  <2>1. /\ snap' = [snap EXCEPT ![p] = proven] /\ UNCHANGED <<job, seen>>
        /\ Goto(p, Writing[gate])
    BY <1>3 DEF Evaluate
  <2>2. Writing[gate] # "act" BY <1>3, WritingIsWriter DEF Writers
  <2>3. snap'[p] = proven /\ \A q \in Procs \ {p} : snap'[q] = snap[q]
    BY <1>0, <2>1 DEF TypeOK
  <2> HIDE DEF proven
  <2>4. StampsKnown' BY <1>0, <1>1, <2>1 DEF StampsKnown
  <2>5. Supersessions'
    BY <1>0, <1>1, <1>2, <2>1, <2>3, GotoMoves DEF Supersessions, WellSuperseded, Released
  <2> QED BY <1>0, <2>1, <2>2, <2>4, <2>5, GotoMoves DEF PassInv
<1>4. CASE ~(proven # barrier /\ gate # "manifest")
  <2>1. Decide(p, gate, barrier) BY <1>4 DEF Evaluate
  <2>2. StampsKnown' BY <1>0, <1>1, <2>1, DecideMoves DEF StampsKnown
  <2>3. pc'[p] \notin Writers BY <1>0, <2>1, DecideNoWriter
  <2>4. Supersessions'
    BY <1>0, <1>1, <2>1, <2>3, DecideMoves DEF Supersessions, WellSuperseded, Released
  <2>5. pc'[p] = "act" => Released(barrier)
    <3>1. pc'[p] = "act" => Open(barrier, job[p], seen[p])
      BY <1>0, <2>1, DecideMoves DEF Outcome, Gates
    <3>2. barrier \in Barrier \cup {Absent} /\ WellSuperseded(barrier)
      BY <1>0 DEF TypeOK, Supersessions
    <3> QED BY <3>1, <3>2, OpenReleased
  <2>6. \A q \in Procs \ {p} : pc'[q] = pc[q] BY <1>0, <2>1, DecideMoves
  <2> QED BY <1>1, <2>2, <2>4, <2>5, <2>6 DEF PassInv, Released
<1> QED BY <1>3, <1>4

\* A gate that writes keeps the invariant, and lets a process act only when the
\* barrier that it wrote is released.
LEMMA WritePass ==
    ASSUME PassInv, TypeOK', NEW p \in Procs, NEW gate \in Gates, Write(p, gate)
    PROVE  /\ PassInv'
           /\ \A q \in Procs : pc[q] # "act" /\ pc'[q] = "act" => Released(barrier')
<1> USE DEF board, process, lost, history
<1>0. TypeOK /\ StampsKnown /\ Supersessions BY DEF PassInv
<1>1. UNCHANGED <<row, stamps>> /\ barrier' = snap[p] /\ pc[p] \in Writers
  BY WritingIsWriter DEF Write
<1>2. WellSuperseded(snap[p]) BY <1>0, <1>1 DEF Supersessions
<1>3. CASE gate = "halting"
  <2>1. /\ Goto(p, "reloaded") /\ UNCHANGED <<job, seen>>
        /\ snap' = [snap EXCEPT ![p] = Absent]
    BY <1>3 DEF Write
  <2>2. StampsKnown' BY <1>0, <1>1, <2>1 DEF StampsKnown
  <2>3. "reloaded" \notin Writers BY DEF Writers
  <2>4. \A q \in Procs \ {p} : snap'[q] = snap[q] BY <1>0, <2>1 DEF TypeOK
  <2>5. Supersessions'
    BY <1>0, <1>1, <1>2, <2>1, <2>3, <2>4, GotoMoves
       DEF Supersessions, WellSuperseded, Released
  <2> QED BY <1>0, <2>1, <2>2, <2>5, GotoMoves DEF PassInv
<1>4. CASE gate # "halting"
  <2>1. Decide(p, gate, snap[p]) BY <1>4 DEF Write
  <2>2. StampsKnown' BY <1>0, <1>1, <2>1, DecideMoves DEF StampsKnown
  <2>3. pc'[p] \notin Writers BY <1>0, <2>1, DecideNoWriter
  <2>4. Supersessions'
    BY <1>0, <1>1, <1>2, <2>1, <2>3, DecideMoves
       DEF Supersessions, WellSuperseded, Released
  <2>5. pc'[p] = "act" => Released(snap[p])
    <3>1. pc'[p] = "act" => Open(snap[p], job[p], seen[p])
      BY <1>0, <2>1, DecideMoves DEF Outcome, Gates
    <3>2. snap[p] \in Barrier \cup {Absent} BY <1>0 DEF TypeOK
    <3> QED BY <1>2, <3>1, <3>2, OpenReleased
  <2>6. \A q \in Procs \ {p} : pc'[q] = pc[q] BY <1>0, <2>1, DecideMoves
  <2> QED BY <1>1, <2>2, <2>4, <2>5, <2>6 DEF PassInv, Released
<1> QED BY <1>3, <1>4

\* A halt supersedes nothing and makes none act.
LEMMA HaltPass ==
    ASSUME PassInv, TypeOK', HaltCommand \/ HaltReplay
    PROVE  PassInv' /\ NoneActs
<1> USE DEF board, process, lost, history
<1>0. TypeOK /\ StampsKnown /\ Supersessions /\ Bot \in Procs BY DEF PassInv, Procs
<1>1. UNCHANGED <<row, stamps, seen, snap>> /\ Goto(Bot, "hold")
  BY DEF HaltCommand, HaltReplay
<1>2. \A q \in Procs : job'[q].at \in {job[q].at, Blank}
  BY <1>0 DEF HaltCommand, HaltReplay, TypeOK
<1>3. StampsKnown' BY <1>0, <1>1, <1>2 DEF StampsKnown
<1>4. barrier' = barrier \/ barrier'.state = "PENDING_HOLD"
  BY DEF HaltCommand, HaltReplay, Persist
<1>5. "hold" \notin Writers BY DEF Writers
<1>6. Supersessions'
  BY <1>0, <1>1, <1>4, <1>5, GotoMoves DEF Supersessions, WellSuperseded, Released
<1> QED BY <1>0, <1>1, <1>3, <1>6, GotoMoves DEF PassInv, NoneActs

\* The invariant holds initially.
LEMMA PassInit ==
    ASSUME Init PROVE PassInv
BY TypeInit DEF Init, PassInv, StampsKnown, Supersessions, WellSuperseded, Writers, NoRow

\* Every step keeps it and lets a process act only past a released barrier.
LEMMA PassNext ==
    ASSUME PassInv, [Next]_vars
    PROVE  /\ PassInv'
           /\ \A p \in Procs : pc[p] # "act" /\ pc'[p] = "act" => Released(barrier')
<1>1. TypeOK /\ TypeOK' BY TypeNext DEF PassInv
<1>2. CASE \E p \in Procs, gate \in Gates : Evaluate(p, gate)
  BY <1>1, <1>2, EvaluatePass
<1>3. CASE \E p \in Procs, gate \in Gates : Write(p, gate)
  BY <1>1, <1>3, WritePass
<1>4. CASE HaltCommand \/ HaltReplay
  BY <1>1, <1>4, HaltPass DEF NoneActs
<1>5. CASE ~(\/ \E p \in Procs, gate \in Gates : Evaluate(p, gate) \/ Write(p, gate)
             \/ HaltCommand \/ HaltReplay)
  <2>1. Quiet /\ StampsKnown' /\ stamps \subseteq stamps' /\ NoneActs
    BY <1>1, <1>5, QuietSteps, QuietPass DEF Next
  <2> QED BY <1>1, <2>1, QuietStamps DEF NoneActs
<1> QED BY <1>2, <1>3, <1>4, <1>5

\* evaluate_closeout_halt_barrier: whatever races, a gate lets a process go on to
\* act only when there is no halt in the file or some READY was newer than it.
THEOREM PassCorrect == Spec => NoPassWithoutFreshReady
<1>1. Init => PassInv BY PassInit
<1>2. PassInv /\ [Next]_vars => PassInv' BY PassNext
<1>3. PassInv /\ [Next]_vars =>
        [\A p \in Procs : pc[p] # "act" /\ pc'[p] = "act" => Released(barrier')]_vars
  BY PassNext
<1> QED BY <1>1, <1>2, <1>3, PTL DEF Spec, NoPassWithoutFreshReady

-------------------------------------------------------------------------------
(* Which of the two ways of losing a halt is the code's to close.           *)

\* Halts are of today or of an earlier date, those that another date's halt took
\* out of the file of an earlier one.
DateInv ==
    /\ \A h \in halts : h.target <= today
    /\ \A h \in replaced : h.target < today

\* Only a halt changes the halts, and only today's.
LEMMA HaltOfToday ==
    ASSUME TypeOK, [Next]_vars
    PROVE  /\ halts' = halts \/ halts' = halts \cup {[target |-> today, at |-> now]}
           /\ replaced' = replaced \/ replaced' = replaced \cup {h \in halts : h.target # today}
           /\ today' = today \/ (today' \in Dates /\ today' > today /\ UNCHANGED <<halts, replaced>>)
<1> USE DEF board, process, lost, history
<1>1. CASE HaltCommand \/ HaltReplay
  BY <1>1 DEF HaltCommand, HaltReplay, Persist
<1>2. CASE Midnight
  BY <1>2 DEF Midnight
<1>3. CASE ~(HaltCommand \/ HaltReplay \/ Midnight)
  <2>1. UNCHANGED <<halts, replaced, today>>
    BY <1>3 DEF Next, vars, Tick, EmployeeReady, EmployeeHold, BotReady, Poll, Watch, ReadStamp,
      WriteStamp, GiveUp, ReadLive, ReadManifest, Act, Evaluate, Write, HaltDropped, SetHold,
      ReadBack, HaltFails, HaltCommitted
  <2> QED BY <2>1
<1> QED BY <1>1, <1>2, <1>3

LEMMA DateNext ==
    ASSUME TypeOK, TypeOK', DateInv, [Next]_vars PROVE DateInv'
<1>1. /\ today \in Nat /\ today' \in Nat
      /\ \A h \in halts : h.target \in Nat
      /\ \A h \in replaced : h.target \in Nat
  BY DatesAssumption DEF TypeOK, Halt
<1>2. CASE today' = today
  BY <1>1, <1>2, HaltOfToday DEF DateInv
<1>3. CASE today' # today
  BY <1>1, <1>3, HaltOfToday DEF DateInv
<1> QED BY <1>2, <1>3

LEMMA DateHolds == Spec => []DateInv
<1>1. Init => DateInv BY DEF Init, DateInv
<1>2. TypeOK /\ TypeOK' /\ DateInv /\ [Next]_vars => DateInv' BY DateNext
<1> QED BY <1>1, <1>2, TypeCorrect, PTL DEF Spec

\* evaluate_closeout_halt_barrier: a halt of the current date stops every request
\* that it bars, unless a gate wrote a copy of the file from before it.
THEOREM TodayCorrect == Spec => []TodaysHaltHolds
<1>1. TypeOK /\ DateInv /\ IgnoredOnlyIfLost => TodaysHaltHolds
  BY DatesAssumption DEF TypeOK, DateInv, IgnoredOnlyIfLost, TodaysHaltHolds
<1> QED BY <1>1, TypeCorrect, DateHolds, IgnoredCorrect, PTL

\* What a lock around load and write would give: no halt is persisted while a gate
\* holds a copy of the file that it will write.
HaltsBetweenWrites == [][halts' # halts => \A p \in Procs : pc[p] \notin Writers]_vars

\* Every copy that will be written knows every halt.
RaceInv ==
    /\ raced = {}
    /\ \A p \in Procs : pc[p] \in Writers => known[p] = halts

LEMMA RaceNext ==
    ASSUME TypeOK, TypeOK', RaceInv, [Next]_vars,
           halts' # halts => \A p \in Procs : pc[p] \notin Writers
    PROVE  RaceInv'
<1> USE DEF lost
<1>1. CASE \E p \in Procs, gate \in Gates : Evaluate(p, gate)
  <2>1. PICK p \in Procs, gate \in Gates : Evaluate(p, gate) BY <1>1
  <2>2. UNCHANGED <<halts, raced>> BY <2>1 DEF Evaluate
  <2>3. CASE Goto(p, Writing[gate]) /\ known' = [known EXCEPT ![p] = halts]
    BY <2>2, <2>3 DEF RaceInv, TypeOK, Goto
  <2>4. CASE Decide(p, gate, barrier)
    BY <2>2, <2>4, DecideNoWriter DEF RaceInv
  <2> QED BY <2>1, <2>3, <2>4 DEF Evaluate
<1>2. CASE \E p \in Procs, gate \in Gates : Write(p, gate)
  <2>1. PICK p \in Procs, gate \in Gates : Write(p, gate) BY <1>2
  <2>2. /\ halts' = halts /\ raced' = raced \cup (halts \ known[p])
        /\ gate # "manifest" /\ pc[p] = Writing[gate]
    BY <2>1 DEF Write, board
  <2>3. raced' = {} BY <2>2, WritingIsWriter DEF RaceInv
  <2>4. CASE Goto(p, "reloaded") /\ known' = [known EXCEPT ![p] = {}]
    BY <2>2, <2>3, <2>4 DEF RaceInv, TypeOK, Goto, Writers
  <2>5. CASE Decide(p, gate, snap[p])
    BY <2>2, <2>3, <2>5, DecideNoWriter DEF RaceInv
  <2> QED BY <2>1, <2>4, <2>5 DEF Write
<1>3. CASE HaltCommand \/ HaltReplay
  <2>1. /\ raced' = raced /\ known' = known /\ Goto(Bot, "hold") /\ "hold" \notin Writers
        /\ Bot \in Procs
    BY <1>3 DEF HaltCommand, HaltReplay, Writers, Procs
  <2>2. \A p \in Procs : pc'[p] \in Writers => pc[p] \in Writers
    BY <2>1, GotoMoves
  <2> QED BY <2>1, <2>2 DEF RaceInv
<1>4. CASE ~(\/ \E p \in Procs, gate \in Gates : Evaluate(p, gate) \/ Write(p, gate)
             \/ HaltCommand \/ HaltReplay)
  <2>1. Quiet BY <1>4, QuietSteps DEF Next
  <2> QED BY <2>1 DEF Quiet, RaceInv
<1> QED BY <1>1, <1>2, <1>3, <1>4

LEMMA RaceHolds == Spec /\ HaltsBetweenWrites => [](raced = {})
<1>1. Init => RaceInv BY DEF Init, RaceInv, Writers
<1>2. TypeOK /\ TypeOK' /\ RaceInv /\ [Next]_vars
        /\ [halts' # halts => \A p \in Procs : pc[p] \notin Writers]_vars => RaceInv'
  <2>1. CASE UNCHANGED vars
    BY <2>1 DEF vars, process, history, lost, RaceInv
  <2>2. CASE ~UNCHANGED vars
    BY <2>2, RaceNext
  <2> QED BY <2>1, <2>2
<1>3. RaceInv => raced = {} BY DEF RaceInv
<1> QED BY <1>1, <1>2, <1>3, TypeCorrect, PTL DEF Spec, HaltsBetweenWrites

\* The contract's sentence is true of every behaviour in which no halt falls into
\* the window of a gate: the window is all that is wrong with it.
THEOREM WindowIsTheCause == Spec /\ HaltsBetweenWrites => []BarredWhileGatesRace
<1>1. IgnoredOnlyIfLost /\ raced = {} => BarredWhileGatesRace
  BY DEF IgnoredOnlyIfLost, BarredWhileGatesRace
<1> QED BY <1>1, IgnoredCorrect, RaceHolds, PTL

\* And then no request of the current date ever goes on against its halt.
THEOREM LockedGatesObeyToday ==
    Spec /\ HaltsBetweenWrites => [](\A h \in ignored : h.target # today)
<1>1. TodaysHaltHolds /\ raced = {} => \A h \in ignored : h.target # today
  BY DEF TodaysHaltHolds
<1> QED BY <1>1, TodayCorrect, RaceHolds, PTL
===============================================================================
