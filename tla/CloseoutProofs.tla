----------------------------- MODULE CloseoutProofs -----------------------------
(***************************************************************************)
(* A day of closeouts for any number of runs, stores, READY requests,        *)
(* batches, launches and faults.                                             *)
(***************************************************************************)
EXTENDS Closeout, FiniteSetTheorems, FunctionTheorems, TLAPS

RunType == [pc : Outside \cup Steps, want : 0..MaxReady, done : SUBSET StageNames,
            scope : SUBSET Stores, before : SUBSET Stores, mem : Checkpoint]

-------------------------------------------------------------------------------
(* Types.                                                                   *)

LEMMA Stages ==
    /\ DOMAIN StageOrder = 1..6
    /\ StageOrder[1] = "size_writeback" /\ StageOrder[2] = "shipping"
    /\ StageOrder[3] = "download_waybills" /\ StageOrder[4] = "build_waybills"
    /\ StageOrder[5] = "delivery_send" /\ StageOrder[6] = "shipped_truth_sync"
  BY DEF StageOrder

LEMMA StageIsName ==
    ASSUME NEW s \in {"size_writeback", "shipping", "download_waybills", "build_waybills",
                      "delivery_send", "shipped_truth_sync"}
    PROVE  s \in StageNames
  BY Stages DEF StageNames

LEMMA AbsentType == Absent \in Checkpoint
  BY BoundsAssumption DEF Absent, Checkpoint, DayStates

LEMMA RunsTyped == TypeOK => run \in [Runs -> RunType]
  BY DEF TypeOK, RunType

LEMMA IdleType ==
    ASSUME NEW p \in Outside \cup Steps
    PROVE  [Idle EXCEPT !.pc = p] \in RunType /\ Idle \in RunType
  <1>1. 0 \in 0..MaxReady /\ "idle" \in Outside  BY BoundsAssumption DEF Outside
  <1> QED  BY <1>1, AbsentType DEF Idle, RunType

LEMMA FreshType ==
    ASSUME TypeOK, NEW r \in Runs
    PROVE  /\ Fresh(r) \in Checkpoint
           /\ Fresh(r).for = run[r].want /\ Fresh(r).days = file.days
           /\ Fresh(r).kind = "closeout"
  <1>1. run[r].want \in 0..MaxReady /\ file.days \in [Stores -> DayStates]
    <2>1. run[r] \in RunType  BY RunsTyped
    <2> QED  BY <2>1 DEF RunType, TypeOK, Checkpoint
  <1> QED  BY <1>1, AbsentType DEF Fresh, Checkpoint

LEMMA RecordedType ==
    ASSUME NEW c \in Checkpoint, NEW s \in StageNames, NEW ok
    PROVE  /\ Recorded(c, s, ok) \in Checkpoint
           /\ Recorded(c, s, ok).for = c.for /\ Recorded(c, s, ok).required = c.required
           /\ Recorded(c, s, ok).pin = c.pin /\ Recorded(c, s, ok).days = c.days
  BY DEF Recorded, Checkpoint

\* What a run resumes is valid in the checkpoint.
LEMMA ContiguousValid ==
    ASSUME NEW c
    PROVE  /\ Contiguous(c) \subseteq StageNames
           /\ \A s \in Contiguous(c) : Valid(c, s)
           /\ "delivery_send" \in Contiguous(c) => "build_waybills" \in Contiguous(c)
  <1> DEFINE good == {j \in DOMAIN StageOrder : \A k \in 1..j : Valid(c, StageOrder[k])}
  <1>1. Contiguous(c) = {StageOrder[i] : i \in good}  BY DEF Contiguous
  <1>2. \A i \in good : Valid(c, StageOrder[i])  BY Stages
  <1>3. ASSUME NEW i \in good, StageOrder[i] = "delivery_send" PROVE 4 \in good
    <2>1. i = 5  BY <1>3, Stages
    <2> QED  BY <2>1, Stages
  <1> QED  BY <1>1, <1>2, <1>3, Stages DEF StageNames

\* There is always a name for a new lock file.
LEMMA UnusedType ==
    ASSUME TypeOK, path = 0
    PROVE  /\ Unused \in Inodes /\ Unused # 0
           /\ \A r \in Runs : fd[r] # Unused
  <1>1. fd \in Surjection(Runs, Range(fd))
    BY Fun_RangeProperties DEF TypeOK
  <1>2. IsFiniteSet(Range(fd)) /\ Cardinality(Range(fd)) <= Cardinality(Runs)
    BY <1>1, ProcessesAssumption, FS_Surjection
  <1>3. Cardinality(Runs) \in Nat  BY ProcessesAssumption, FS_CardinalityType
  <1>4. IsFiniteSet(Inodes) /\ Cardinality(Inodes) = Cardinality(Runs) + 1
    BY <1>3, FS_Interval DEF Inodes
  <1>5. ~(Inodes \subseteq Range(fd))
    <2> SUFFICES ASSUME Inodes \subseteq Range(fd) PROVE FALSE  OBVIOUS
    <2>1. Cardinality(Inodes) <= Cardinality(Range(fd))  BY <1>2, FS_Subset
    <2> QED  BY <2>1, <1>2, <1>3, <1>4, FS_CardinalityType
  <1>6. \A r \in Runs : fd[r] \in Range(fd)  BY DEF Range, TypeOK
  <1>7. 0 \notin Inodes  BY <1>3 DEF Inodes
  <1>8. \E i \in Inodes : i # path /\ \A r \in Runs : fd[r] # i
    BY <1>5, <1>6, <1>7
  <1> QED  BY <1>7, <1>8 DEF Unused

LEMMA InitType == Init => TypeOK
  <1> SUFFICES ASSUME Init PROVE TypeOK  OBVIOUS
  <1>1. run \in [Runs -> RunType]  BY IdleType DEF Init, Outside
  <1>2. batch \in [Batches -> [for : 0..MaxReady, stores : SUBSET Stores,
                               ledger : {"absent", "pending", "attempted", "confirmed"}]]
    BY BoundsAssumption DEF Init, Unbuilt
  <1>3. /\ ready \in 1..MaxReady /\ launches \in 0..MaxLaunches /\ faults \in 0..MaxFaults
    BY BoundsAssumption DEF Init
  <1>4. /\ path \in Inodes \cup {0} /\ fd \in [Runs -> Inodes \cup {0}]
        /\ sender \in [Batches -> {"none", "started", "sending"}] /\ waiting \subseteq Runs
        /\ byhand \in 0..MaxBatches /\ handed \in 0..MaxByHand
    BY BoundsAssumption DEF Init
  <1>5. {rebuilt, beside, bypassed} \subseteq BOOLEAN  BY DEF Init
  <1> QED
    BY <1>1, <1>2, <1>3, <1>4, <1>5, AbsentType DEF Init, TypeOK, RunType

LEMMA EndType ==
    ASSUME TypeOK, NEW r \in Runs, End(r) PROVE run' \in [Runs -> RunType]
  <1>1. "idle" \in Outside /\ "unlock" \in Outside  BY DEF Outside
  <1> QED  BY <1>1, IdleType, RunsTyped DEF End

LEMMA GotoType ==
    ASSUME TypeOK, NEW r \in Runs, NEW p \in Outside \cup Steps, Goto(r, p)
    PROVE  run' \in [Runs -> RunType]
  BY RunsTyped DEF Goto, RunType

LEMMA SetMemType ==
    ASSUME TypeOK, NEW r \in Runs, NEW p \in Outside \cup Steps, NEW c \in Checkpoint,
           run' = [run EXCEPT ![r].pc = p, ![r].mem = c]
    PROVE  run' \in [Runs -> RunType]
  BY RunsTyped DEF RunType

LEMMA LockType ==
    ASSUME TypeOK, NEW r \in Runs,
           Launch(r) \/ Open(r) \/ Flock(r) \/ Unlock(r) \/ Unlink(r)
    PROVE  TypeOK'
  <1> USE RunsTyped
  <1>1. CASE Launch(r)
    <2>0. ready \in 0..MaxReady  BY BoundsAssumption DEF TypeOK
    <2>1. run' \in [Runs -> RunType]  BY <1>1, <2>0 DEF Launch, RunType, Outside
    <2>2. launches' \in 0..MaxLaunches  BY <1>1, BoundsAssumption DEF Launch, TypeOK
    <2> QED
      BY <1>1, <2>1, <2>2 DEF Launch, TypeOK, RunType, board, folder, lock, tool, history
  <1>2. CASE Open(r)
    <2>1. run' \in [Runs -> RunType]  BY <1>2, GotoType DEF Open, Outside
    <2>2. path' \in Inodes \cup {0} /\ fd' \in [Runs -> Inodes \cup {0}]
      BY <1>2, UnusedType DEF Open, TypeOK
    <2> QED
      BY <1>2, <2>1, <2>2 DEF Open, TypeOK, RunType, board, folder, counters, tool, history
  <1>3. CASE Flock(r)
    <2>1. run' \in [Runs -> RunType]
      BY <1>3, GotoType, IdleType DEF Flock, Steps, Outside
    <2>2. held' \subseteq Runs /\ fd' \in [Runs -> Inodes \cup {0}]
      BY <1>3 DEF Flock, TypeOK
    <2> QED
      BY <1>3, <2>1, <2>2 DEF Flock, TypeOK, RunType, board, folder, counters, tool, history
  <1>4. CASE Unlock(r)
    <2>1. run' \in [Runs -> RunType]  BY <1>4, GotoType DEF Unlock, Outside
    <2> QED
      BY <1>4, <2>1 DEF Unlock, TypeOK, RunType, board, folder, counters, tool, history
  <1>5. CASE Unlink(r)
    <2>1. run' \in [Runs -> RunType]  BY <1>5, GotoType DEF Unlink, Outside
    <2>2. bypassed' \in BOOLEAN  BY <1>5 DEF Unlink, TypeOK
    <2> QED
      BY <1>5, <2>1, <2>2 DEF Unlink, TypeOK, RunType, board, folder, counters, tool
  <1> QED  BY <1>1, <1>2, <1>3, <1>4, <1>5

LEMMA LoadFreshType ==
    ASSUME TypeOK, NEW r \in Runs, LoadFresh(r)
    PROVE  run' \in [Runs -> RunType]
  BY SetMemType, FreshType DEF LoadFresh, Steps

LEMMA ResumeType ==
    ASSUME TypeOK, NEW r \in Runs, NEW resume \in BOOLEAN,
           Load(r, resume) \/ Bind(r) \/ Scope(r) \/ Require(r)
    PROVE  TypeOK'
  <1> USE RunsTyped
  <1>1. CASE Load(r, resume)
    <2>1. CASE LoadFresh(r)
      BY <1>1, <2>1, LoadFreshType
      DEF Load, TypeOK, RunType, board, folder, lock, counters, tool,
        history
    <2>2. CASE End(r)
      BY <1>1, <2>2, EndType DEF Load, TypeOK, RunType, board, folder, lock, counters, tool,
        history
    <2>3. CASE run' = [run EXCEPT ![r].pc = "bind", ![r].mem = file,
                                  ![r].done = Contiguous(file)]
      <3>1. Contiguous(file) \subseteq StageNames  BY ContiguousValid
      <3>2. file \in Checkpoint /\ "bind" \in Steps  BY DEF TypeOK, Steps
      <3>3. run' \in [Runs -> RunType]  BY <2>3, <3>1, <3>2 DEF RunType
      <3> QED  BY <1>1, <3>3 DEF Load, TypeOK, RunType, board, folder, lock, counters, tool,
        history
    <2> QED  BY <1>1, <2>1, <2>2, <2>3 DEF Load
  <1>2. CASE Bind(r)
    <2>1. run' \in [Runs -> RunType]  BY <1>2, GotoType DEF Bind, Steps
    <2> QED
      BY <1>2, <2>1 DEF Bind, TypeOK, RunType, board, folder, lock, counters, tool, history
  <1>3. CASE Scope(r)
    <2> DEFINE scope == {s \in Stores : file.days[s] # "SETTLED"}
    <2>1. run' \in [Runs -> RunType]
      <3>1. run' = [run EXCEPT ![r].pc = "size_writeback", ![r].before = marks, ![r].scope = scope]
        BY <1>3 DEF Scope
      <3>2. marks \subseteq Stores /\ scope \subseteq Stores  BY DEF TypeOK
      <3> DEFINE next == [run[r] EXCEPT !.pc = "size_writeback", !.before = marks,
                                        !.scope = scope]
      <3>3. run' = [run EXCEPT ![r] = next]  BY <3>1
      <3>4. next \in RunType
        <4> HIDE DEF scope
        <4> QED  BY <3>2 DEF RunType, Steps
      <3> HIDE DEF next
      <3> QED  BY <3>3, <3>4
    <2> QED
      BY <1>3, <2>1 DEF Scope, TypeOK, RunType, board, folder, lock, counters, tool, history
  <1>4. CASE Require(r)
    <2> DEFINE c == [run[r].mem EXCEPT !.required = run[r].scope]
    <2>1. c \in Checkpoint  BY DEF TypeOK, RunType, Checkpoint
    <2>2. file' \in Checkpoint /\ run' \in [Runs -> RunType]
      BY <1>4, <2>1, GotoType, SetMemType DEF Require, TypeOK, Steps
    <2> QED
      BY <1>4, <2>2
      DEF Require, TypeOK, RunType, board, folder, lock, counters, tool, history
  <1> QED  BY <1>1, <1>2, <1>3, <1>4

LEMMA StageType ==
    ASSUME TypeOK, NEW r \in Runs, NEW stage \in StageNames, NEW next \in Steps,
           RunStage(r, stage, next)
    PROVE  TypeOK'
  <1> USE RunsTyped
  <1>1. ASSUME NEW ok PROVE Recorded(run[r].mem, stage, ok) \in Checkpoint
    BY RecordedType DEF RunType
  <1>2. file' \in Checkpoint /\ run' \in [Runs -> RunType]
    <2>1. CASE stage \in run[r].done
      BY <2>1, GotoType DEF RunStage, TypeOK
    <2>2. CASE stage \notin run[r].done
      <3>1. PICK ok \in BOOLEAN :
              /\ file' = Recorded(run[r].mem, stage, ok)
              /\ IF ok THEN run' = [run EXCEPT ![r].pc = next, ![r].mem = file'] ELSE End(r)
        BY <2>2 DEF RunStage
      <3>2. file' \in Checkpoint  BY <3>1, <1>1
      <3> QED  BY <3>1, <3>2, SetMemType, EndType
    <2> QED  BY <2>1, <2>2
  <1> QED
    BY <1>2 DEF RunStage, TypeOK, RunType, board, folder, lock, counters, tool, history

LEMMA BuildType ==
    ASSUME TypeOK, NEW r \in Runs, Build(r) \/ BuildFails(r) \/ SkipBuild(r)
    PROVE  TypeOK'
  <1> USE RunsTyped
  <1>1. ASSUME NEW ok PROVE Recorded(run[r].mem, "build_waybills", ok) \in Checkpoint
    BY RecordedType, StageIsName DEF RunType
  <1>2. CASE Build(r)
    <2> DEFINE pinned(b) == [Recorded(run[r].mem, "build_waybills", TRUE) EXCEPT !.pin = b]
               built == [for |-> run[r].want, stores |-> run[r].mem.required,
                         ledger |-> "absent"]
    <2>1. PICK b \in Batches :
            /\ batch' = [batch EXCEPT ![b] = built]
            /\ \/ /\ file' = pinned(b)
                  /\ run' = [run EXCEPT ![r].pc = "gate", ![r].mem = pinned(b)]
               \/ /\ End(r)
                  /\ \/ UNCHANGED file
                     \/ \E ok \in BOOLEAN : file' = Recorded(run[r].mem, "build_waybills", ok)
      BY <1>2 DEF Build
    <2>2. pinned(b) \in Checkpoint
      <3>1. b \in 0..MaxBatches  BY BoundsAssumption DEF Batches
      <3> QED  BY <1>1, <3>1 DEF Checkpoint
    <2>3. file' \in Checkpoint /\ run' \in [Runs -> RunType]
      <3> HIDE DEF pinned
      <3>1. CASE file' = pinned(b) /\ run' = [run EXCEPT ![r].pc = "gate", ![r].mem = pinned(b)]
        <4>1. "gate" \in Steps  BY DEF Steps
        <4> QED  BY <3>1, <4>1, <2>2, SetMemType
      <3>2. CASE End(r)
        BY <3>2, <1>1, <2>1, <2>2, EndType DEF TypeOK
      <3> QED  BY <2>1, <3>1, <3>2
    <2>4. built \in [for : 0..MaxReady, stores : SUBSET Stores,
                     ledger : {"absent", "pending", "attempted", "confirmed"}]
      BY DEF RunType, Checkpoint
    <2>5. batch' \in [Batches -> [for : 0..MaxReady, stores : SUBSET Stores,
                                  ledger : {"absent", "pending", "attempted", "confirmed"}]]
      <3> HIDE DEF built
      <3> QED  BY <2>1, <2>4 DEF TypeOK
    <2>6. rebuilt' \in BOOLEAN  BY <1>2 DEF Build, TypeOK
    <2> QED
      BY <1>2, <2>3, <2>5, <2>6 DEF Build, TypeOK, RunType, board, lock, counters, tool
  <1>3. CASE BuildFails(r)
    <2>1. file' \in Checkpoint /\ run' \in [Runs -> RunType]
      BY <1>1, <1>3, EndType DEF BuildFails
    <2> QED
      BY <1>3, <2>1
      DEF BuildFails, TypeOK, RunType, board, folder, lock, counters, tool, history
  <1>4. CASE SkipBuild(r)
    <2>1. run' \in [Runs -> RunType]  BY <1>4, GotoType DEF SkipBuild, Steps
    <2> QED
      BY <1>4, <2>1
      DEF SkipBuild, TypeOK, RunType, board, folder, lock, counters, tool, history
  <1> QED  BY <1>2, <1>3, <1>4

LEMMA SendType ==
    ASSUME TypeOK, NEW r \in Runs,
           Gate(r) \/ LaunchSender(r) \/ Returned(r) \/ AutoSent(r) \/ Finalize(r)
             \/ LastWrite(r)
    PROVE  TypeOK'
  <1> USE RunsTyped
  <1>1. CASE Gate(r)
    <2> DEFINE c == [run[r].mem EXCEPT !.attempt = TRUE]
    <2>1. run[r].mem \in Checkpoint /\ c \in Checkpoint  BY DEF RunType, Checkpoint
    <2>2. CASE "delivery_send" \in run[r].done
      <3>1. run' \in [Runs -> RunType]  BY <1>1, <2>2, GotoType DEF Gate, Steps
      <3> QED
        BY <1>1, <2>2, <3>1
        DEF Gate, TypeOK, RunType, board, folder, lock, counters, tool, history
    <2>3. CASE "delivery_send" \notin run[r].done
      <3>1. file' = c /\ run' = [run EXCEPT ![r].pc = "launch", ![r].mem.attempt = TRUE]
        BY <1>1, <2>3 DEF Gate
      <3>2. run' \in [Runs -> RunType]
        <4>1. [run[r] EXCEPT !.pc = "launch", !.mem = c] \in RunType
          <5> HIDE DEF c
          <5> QED  BY <2>1 DEF Steps, RunType
        <4>2. run' = [run EXCEPT ![r] = [run[r] EXCEPT !.pc = "launch", !.mem = c]]
          BY <3>1
        <4> QED  BY <4>1, <4>2
      <3> QED
        BY <1>1, <2>1, <3>1, <3>2
        DEF Gate, TypeOK, RunType, board, folder, lock, counters, tool, history
    <2> QED  BY <2>2, <2>3
  <1>2. CASE LaunchSender(r)
    <2>1. run' \in [Runs -> RunType]  BY <1>2, GotoType DEF LaunchSender, Steps
    <2>2. sender' \in [Batches -> {"none", "started", "sending"}] /\ waiting' \subseteq Runs
      BY <1>2 DEF LaunchSender, TypeOK
    <2> QED
      BY <1>2, <2>1, <2>2
      DEF LaunchSender, TypeOK, RunType, board, lock, counters, tool, history
  <1>3. CASE Returned(r)
    <2>1. PICK ok \in BOOLEAN :
            /\ file' = Recorded(run[r].mem, "delivery_send", ok)
            /\ \/ run' = [run EXCEPT ![r].pc = "auto_sent", ![r].mem = file']
               \/ End(r)
      BY <1>3 DEF Returned
    <2>2. file' \in Checkpoint
      BY <2>1, RecordedType, StageIsName DEF RunType
    <2>3. run' \in [Runs -> RunType]  BY <2>1, <2>2, SetMemType, EndType DEF Steps
    <2> QED
      BY <1>3, <2>2, <2>3
      DEF Returned, TypeOK, RunType, board, folder, lock, counters, tool, history
  <1>4. CASE AutoSent(r)
    <2> DEFINE days(stamped) ==
                 [s \in Stores |-> IF s \in stamped THEN SentState ELSE file.days[s]]
    <2>1. PICK stamped : 
            /\ file' = [file EXCEPT !.days = days(stamped),
                           !.kind = IF @ = "absent" /\ stamped # {} THEN "marks only" ELSE @]
            /\ run' = [run EXCEPT ![r].pc = "shipped_truth_sync", ![r].mem.days = days(stamped)]
      BY <1>4 DEF AutoSent
    <2>2. days(stamped) \in [Stores -> DayStates]
      BY DEF SentState, DayStates, TypeOK, Checkpoint
    <2>3. file' \in Checkpoint
      <3> HIDE DEF days
      <3> QED  BY <2>1, <2>2 DEF TypeOK, Checkpoint
    <2>4. run' \in [Runs -> RunType]
      <3> HIDE DEF days
      <3>1. run[r].mem \in Checkpoint  BY DEF RunType
      <3>2. [run[r].mem EXCEPT !.days = days(stamped)] \in Checkpoint
        BY <2>2, <3>1 DEF Checkpoint
      <3> DEFINE next == [run[r] EXCEPT !.pc = "shipped_truth_sync",
                                        !.mem = [@ EXCEPT !.days = days(stamped)]]
      <3>3. next \in RunType  BY <3>2 DEF RunType, Steps
      <3>4. run' = [run EXCEPT ![r] = next]  BY <2>1
      <3> HIDE DEF next
      <3> QED  BY <3>3, <3>4
    <2> QED
      BY <1>4, <2>3, <2>4
      DEF AutoSent, TypeOK, RunType, board, folder, lock, counters, tool, history
  <1>5. CASE Finalize(r)
    <2>1. run' \in [Runs -> RunType]  BY <1>5, GotoType DEF Finalize, Steps
    <2>2. run[r].want \in 1..MaxReady /\ run[r].scope \subseteq Stores
      BY <1>5 DEF Finalize, Current, RunType, TypeOK
    <2> QED
      BY <1>5, <2>1, <2>2
      DEF Finalize, TypeOK, RunType, folder, lock, counters, tool, history
  <1>6. CASE LastWrite(r)
    <2>1. run' \in [Runs -> RunType] /\ file' \in Checkpoint
      BY <1>6, EndType DEF LastWrite, RunType
    <2> QED
      BY <1>6, <2>1
      DEF LastWrite, TypeOK, RunType, board, folder, lock, counters, tool, history
  <1> QED  BY <1>1, <1>2, <1>3, <1>4, <1>5, <1>6

LEMMA SenderType ==
    ASSUME TypeOK, NEW b \in Batches,
           SenderStart(b) \/ SenderStep(b) \/ SenderEnd(b) \/ SendByHand(b)
    PROVE  TypeOK'
  <1> DEFINE ledgers == {"absent", "pending", "attempted", "confirmed"}
             Folder == [Batches -> [for : 0..MaxReady, stores : SUBSET Stores, ledger : ledgers]]
  <1>1. batch \in Folder  BY DEF TypeOK
  <1>2. ASSUME NEW l \in ledgers PROVE [batch EXCEPT ![b].ledger = l] \in Folder
    BY <1>1
  <1>3. batch' \in Folder
    <2>1. CASE SenderStart(b)
      <3>1. (IF batch[b].ledger = "absent" THEN "pending" ELSE batch[b].ledger) \in ledgers
        BY <1>1
      <3> QED  BY <2>1, <3>1, <1>1 DEF SenderStart
    <2>2. CASE SenderStep(b)  BY <2>2, <1>2 DEF SenderStep
    <2>3. CASE SenderEnd(b) \/ SendByHand(b)
      BY <2>3, <1>1 DEF SenderEnd, SendByHand
    <2> QED  BY <2>1, <2>2, <2>3
  <1>4. sender' \in [Batches -> {"none", "started", "sending"}] /\ waiting' \subseteq Runs
    BY DEF SenderStart, SenderStep, SenderEnd, SendByHand, TypeOK
  <1>5. UNCHANGED <<board, file, run, lock, editor, launches, faults, marks, exposed,
                    rebuilt, bypassed>>
    BY DEF SenderStart, SenderStep, SenderEnd, SendByHand, tool, counters, history
  <1>6. beside' \in BOOLEAN
    BY DEF SenderStart, SenderStep, SenderEnd, SendByHand, history, TypeOK
  <1>7. byhand' \in 0..MaxBatches /\ handed' \in 0..MaxByHand
    BY BoundsAssumption DEF SenderStart, SenderStep, SenderEnd, SendByHand, tool, counters,
      TypeOK, Batches
  <1> QED
    BY <1>3, <1>4, <1>5, <1>6, <1>7 DEF TypeOK, board, lock

\* A step of the employee, of the operator's tool in the checkpoint, or a lost file.
World ==
    \/ Stamp \/ MarkWrite \/ ToolEnd \/ LoseCheckpoint
    \/ \E s \in Stores : MarkRead(s) \/ AutoSentRead(s)

LEMMA WorldType == ASSUME TypeOK, World PROVE TypeOK'
  <1>1. CASE Stamp
    BY <1>1, BoundsAssumption DEF Stamp, TypeOK, folder, lock, counters, tool, history
  <1>2. CASE MarkWrite
    <2>1. editor \in Stores \X Checkpoint  BY <1>2 DEF MarkWrite, TypeOK
    <2>2. file' \in Checkpoint
      BY <1>2, <2>1 DEF MarkWrite, Checkpoint, DayStates
    <2>3. marks' \subseteq Stores /\ exposed' \subseteq Stores
      BY <1>2, <2>1 DEF MarkWrite, TypeOK
    <2> QED
      BY <1>2, <2>2, <2>3 DEF MarkWrite, TypeOK, board, folder, lock, counters
  <1>3. CASE LoseCheckpoint
    BY <1>3, AbsentType, BoundsAssumption
    DEF LoseCheckpoint, TypeOK, board, folder, lock, tool
  <1>4. ASSUME NEW s \in Stores, MarkRead(s) \/ AutoSentRead(s) PROVE TypeOK'
    <2>1. editor' \in Stores \X Checkpoint  BY <1>4 DEF MarkRead, AutoSentRead, TypeOK
    <2> QED
      BY <1>4, <2>1
      DEF MarkRead, AutoSentRead, TypeOK, board, folder, lock, counters, history
  <1>5. CASE ToolEnd
    BY <1>5, BoundsAssumption DEF ToolEnd, TypeOK, board, folder, lock, counters, history
  <1> QED  BY <1>1, <1>2, <1>3, <1>4, <1>5 DEF World

LEMMA StopType ==
    ASSUME TypeOK, NEW r \in Runs, StopRun(r) \/ KillLauncher(r)
    PROVE  TypeOK'
  <1>1. CASE StopRun(r)
    <2>1. run' \in [Runs -> RunType]  BY <1>1, EndType DEF StopRun
    <2>2. waiting' \subseteq Runs  BY <1>1 DEF StopRun, TypeOK
    <2> QED
      BY <1>1, <2>1, <2>2 DEF StopRun, TypeOK, RunType, board, lock, counters, tool, history
  <1>2. CASE KillLauncher(r)
    <2>1. run' \in [Runs -> RunType]
      BY <1>2, RunsTyped, IdleType DEF KillLauncher, Outside
    <2>2. waiting' \subseteq Runs /\ bypassed' \in BOOLEAN
      BY <1>2 DEF KillLauncher, TypeOK
    <2>3. faults' \in 0..MaxFaults  BY <1>2, BoundsAssumption DEF KillLauncher, TypeOK
    <2> QED
      BY <1>2, <2>1, <2>2, <2>3 DEF KillLauncher, TypeOK, RunType, board, tool
  <1> QED  BY <1>1, <1>2

\* A step of one run.
RunStep(r) ==
    \/ Launch(r) \/ Open(r) \/ Flock(r) \/ Unlock(r) \/ Unlink(r)
    \/ \E resume \in BOOLEAN : Load(r, resume)
    \/ Bind(r) \/ Scope(r) \/ RunStage(r, "size_writeback", "required") \/ Require(r)
    \/ RunStage(r, "shipping", "download_waybills")
    \/ RunStage(r, "download_waybills", "build_waybills")
    \/ Build(r) \/ BuildFails(r) \/ SkipBuild(r) \/ Gate(r) \/ LaunchSender(r) \/ Returned(r)
    \/ AutoSent(r) \/ RunStage(r, "shipped_truth_sync", "finalize")
    \/ Finalize(r) \/ LastWrite(r) \/ StopRun(r) \/ KillLauncher(r)

LEMMA NextSplit ==
    Next <=> \/ \E r \in Runs : RunStep(r)
             \/ \E b \in Batches : SenderStart(b) \/ SenderStep(b) \/ SenderEnd(b)
             \/ \E b \in Batches : SendByHand(b)
             \/ World
  BY DEF Next, RunStep, World

LEMMA NextType == TypeOK /\ [Next]_vars => TypeOK'
  <1> SUFFICES ASSUME TypeOK, [Next]_vars PROVE TypeOK'  OBVIOUS
  <1>1. ASSUME NEW r \in Runs, RunStep(r) PROVE TypeOK'
    <2>1. /\ {"size_writeback", "shipping", "download_waybills", "shipped_truth_sync"}
               \subseteq StageNames
          /\ {"required", "download_waybills", "build_waybills", "finalize"} \subseteq Steps
      BY StageIsName DEF Steps
    <2> QED
      BY <1>1, <2>1, LockType, ResumeType, StageType, BuildType, SendType, StopType
      DEF RunStep
  <1>2. CASE UNCHANGED vars
    BY <1>2 DEF vars, TypeOK, board, folder, lock, counters, tool, history
  <1> QED  BY <1>1, <1>2, SenderType, WorldType, NextSplit

\* Whatever is saved, resumed, lost or killed, the checkpoint, the folder, the lock
\* and the processes keep their types.
THEOREM TypeCorrect == Spec => []TypeOK
  BY InitType, NextType, PTL DEF Spec

-------------------------------------------------------------------------------
(* The lock.                                                                *)

\* A step of a closeout that holds the lock or goes on without it.
Work(r) ==
    \/ \E resume \in BOOLEAN : Load(r, resume)
    \/ Bind(r) \/ Scope(r) \/ RunStage(r, "size_writeback", "required") \/ Require(r)
    \/ RunStage(r, "shipping", "download_waybills")
    \/ RunStage(r, "download_waybills", "build_waybills")
    \/ Build(r) \/ BuildFails(r) \/ SkipBuild(r) \/ Gate(r) \/ LaunchSender(r) \/ Returned(r)
    \/ AutoSent(r) \/ RunStage(r, "shipped_truth_sync", "finalize")
    \/ Finalize(r) \/ LastWrite(r) \/ StopRun(r)

\* Such a step is the run's own: it goes on working or ends, and leaves the lock.
LEMMA WorkIsOwn ==
    ASSUME TypeOK, NEW r \in Runs, Work(r)
    PROVE  /\ Working(r) /\ UNCHANGED <<lock, bypassed, editor, marks, exposed, counters>>
           /\ \A q \in Runs \ {r} : run'[q] = run[q]
           /\ End(r) \/ run'[r].pc \in Steps
  <1> USE RunsTyped DEF tool
  <1> DEFINE Moves(p) ==
               /\ \A q \in Runs \ {r} : run'[q] = run[q]
               /\ End(r) \/ run'[r].pc = p
             Still == UNCHANGED <<lock, bypassed, editor, marks, exposed, counters>>
  <1>0. End(r) => \A q \in Runs \ {r} : run'[q] = run[q]  BY DEF End
  <1>1. CASE \E resume \in BOOLEAN : Load(r, resume)
    <2>1. Still /\ At(r, "load")  BY <1>1 DEF Load, history
    <2>2. Moves("bind")  BY <1>0, <1>1 DEF Load, LoadFresh, RunType
    <2> QED  BY <2>1, <2>2 DEF Working, At, Steps
  <1>2. CASE Bind(r) \/ Scope(r)
    <2>1. Still /\ (At(r, "bind") \/ At(r, "scope"))  BY <1>2 DEF Bind, Scope, history
    <2>2. Moves("scope") \/ Moves("size_writeback")  BY <1>2 DEF Bind, Scope, Goto, RunType
    <2> QED  BY <2>1, <2>2 DEF Working, At, Steps
  <1>3. CASE Require(r)
    <2>1. Still /\ At(r, "required")  BY <1>3 DEF Require, history
    <2>2. Moves("finalize") \/ Moves("shipping")  BY <1>3 DEF Require, Goto, RunType
    <2> QED  BY <2>1, <2>2 DEF Working, At, Steps
  <1>4. ASSUME NEW stage \in Steps, NEW next \in Steps, RunStage(r, stage, next)
        PROVE  /\ Working(r) /\ Still
               /\ \A q \in Runs \ {r} : run'[q] = run[q]
               /\ End(r) \/ run'[r].pc \in Steps
    <2>1. Still /\ At(r, stage)  BY <1>4 DEF RunStage, history
    <2>2. Moves(next)  BY <1>0, <1>4 DEF RunStage, Goto, RunType
    <2> QED  BY <2>1, <2>2 DEF Working, At
  <1>5. CASE Build(r)
    <2>1. Still /\ At(r, "build_waybills")  BY <1>5 DEF Build
    <2>2. End(r) \/ \E c : run' = [run EXCEPT ![r].pc = "gate", ![r].mem = c]
      BY <1>5 DEF Build
    <2>3. Moves("gate")  BY <1>0, <2>2 DEF RunType
    <2> QED  BY <2>1, <2>3 DEF Working, At, Steps
  <1>6. CASE BuildFails(r) \/ SkipBuild(r)
    <2>1. Still /\ At(r, "build_waybills")  BY <1>6 DEF BuildFails, SkipBuild, history
    <2>2. Moves("gate")  BY <1>0, <1>6 DEF BuildFails, SkipBuild, Goto, RunType
    <2> QED  BY <2>1, <2>2 DEF Working, At, Steps
  <1>7. CASE Gate(r)
    <2>1. Still /\ At(r, "gate")  BY <1>7 DEF Gate, history
    <2>2. Moves("launch") \/ Moves("shipped_truth_sync")  BY <1>7 DEF Gate, Goto, RunType
    <2> QED  BY <2>1, <2>2 DEF Working, At, Steps
  <1>8. CASE LaunchSender(r) \/ Finalize(r) \/ LastWrite(r)
    <2>1. Still /\ (At(r, "launch") \/ At(r, "finalize") \/ At(r, "last"))
      BY <1>8 DEF LaunchSender, Finalize, LastWrite, history
    <2>2. Moves("sending") \/ Moves("last")
      BY <1>0, <1>8 DEF LaunchSender, Finalize, LastWrite, Goto, RunType
    <2> QED  BY <2>1, <2>2 DEF Working, At, Steps
  <1>9. CASE Returned(r)
    <2>1. Still /\ At(r, "sending")  BY <1>9 DEF Returned, history
    <2>2. Moves("auto_sent")  BY <1>0, <1>9 DEF Returned, RunType
    <2> QED  BY <2>1, <2>2 DEF Working, At, Steps
  <1>10. CASE AutoSent(r)
    <2>1. Still /\ At(r, "auto_sent")  BY <1>10 DEF AutoSent, history
    <2>2. Moves("shipped_truth_sync")  BY <1>10 DEF AutoSent, RunType
    <2> QED  BY <2>1, <2>2 DEF Working, At, Steps
  <1>11. CASE StopRun(r)
    BY <1>0, <1>11 DEF StopRun, history
  <1>12. {"size_writeback", "shipping", "download_waybills", "shipped_truth_sync",
          "required", "build_waybills", "finalize"} \subseteq Steps
    BY DEF Steps
  <1> QED
    BY <1>1, <1>2, <1>3, <1>4, <1>5, <1>6, <1>7, <1>8, <1>9, <1>10, <1>11, <1>12 DEF Work

\* A lock is on an open file, and on each file there is one; unless the lock was
\* bypassed, all that is open is the one file that has the name, and who works
\* has it locked.
LockInv ==
    /\ \A r \in Runs : run[r].pc \in {"idle", "open", "flock", "unlink"} => r \notin held
    /\ \A r \in Runs : run[r].pc = "flock" \/ r \in held => fd[r] # 0
    /\ \A p, q \in held : fd[p] = fd[q] => p = q
    /\ ~bypassed => \A r \in Runs : /\ fd[r] # 0 => fd[r] = path
                                    /\ Working(r) => r \in held

LEMMA LockInit == Init => LockInv
  BY DEF Init, LockInv, Idle, Working, Steps

LEMMA LockNext == TypeOK /\ LockInv /\ [Next]_vars => LockInv'
  <1> SUFFICES ASSUME TypeOK, LockInv, [Next]_vars PROVE LockInv'  OBVIOUS
  <1> USE RunsTyped
  <1>1. ASSUME NEW r \in Runs, Work(r) PROVE LockInv'
    <2>1. UNCHANGED <<path, fd, held, bypassed>>  BY <1>1, WorkIsOwn DEF lock
    <2>2. Working(r) /\ \A q \in Runs \ {r} : run'[q] = run[q]  BY <1>1, WorkIsOwn
    <2>3. CASE End(r)
      <3>1. run'[r].pc = IF r \in held THEN "unlock" ELSE "idle"
        BY <2>3 DEF End, Idle
      <3> QED  BY <2>1, <2>2, <3>1 DEF LockInv, Working, Steps
    <2>4. CASE run'[r].pc \in Steps
      BY <2>1, <2>2, <2>4 DEF LockInv, Working, Steps
    <2> QED  BY <1>1, <2>3, <2>4, WorkIsOwn
  <1>2. ASSUME NEW r \in Runs, Launch(r) PROVE LockInv'
    BY <1>2 DEF Launch, At, LockInv, Working, Steps, lock, history
  <1>3. ASSUME NEW r \in Runs, Open(r) PROVE LockInv'
    <2>1. path = 0 => path' # 0  BY <1>3, UnusedType DEF Open
    <2>2. /\ path' # 0 /\ (path # 0 => path' = path)
          /\ fd' = [fd EXCEPT ![r] = path'] /\ UNCHANGED <<held, bypassed>>
          /\ run' = [run EXCEPT ![r].pc = "flock"] /\ run[r].pc = "open"
      BY <1>3, <2>1 DEF Open, At, Goto, history
    <2>3. r \notin held  BY <2>2 DEF LockInv
    <2>4. fd \in [Runs -> Inodes \cup {0}] /\ held \subseteq Runs  BY DEF TypeOK
    <2> QED  BY <2>2, <2>3, <2>4 DEF LockInv, Working, Steps
  <1>4. ASSUME NEW r \in Runs, Flock(r) PROVE LockInv'
    <2>1. r \notin held /\ fd[r] # 0  BY <1>4 DEF Flock, At, LockInv
    <2>2. fd \in [Runs -> Inodes \cup {0}] /\ held \subseteq Runs  BY DEF TypeOK
    <2>3. CASE Contended(r)
      <3>1. /\ UNCHANGED <<path, held, bypassed>> /\ fd' = [fd EXCEPT ![r] = 0]
            /\ run' = [run EXCEPT ![r] = Idle]
        BY <1>4, <2>3 DEF Flock, history
      <3> QED  BY <2>1, <2>2, <3>1 DEF LockInv, Idle, Working, Steps
    <2>4. CASE ~Contended(r)
      <3>1. /\ UNCHANGED <<path, fd, bypassed>> /\ held' = held \cup {r}
            /\ run' = [run EXCEPT ![r].pc = "load"]
        BY <1>4, <2>4 DEF Flock, Goto, history
      <3>2. \A q \in held : fd[q] # fd[r]  BY <2>4 DEF Contended
      <3> QED  BY <2>1, <2>2, <3>1, <3>2 DEF LockInv, Working, Steps
    <2> QED  BY <2>3, <2>4
  <1>5. ASSUME NEW r \in Runs, Unlock(r) PROVE LockInv'
    <2>1. fd \in [Runs -> Inodes \cup {0}] /\ held \subseteq Runs  BY DEF TypeOK
    <2> QED  BY <1>5, <2>1 DEF Unlock, At, Goto, LockInv, Working, Steps, history
  <1>6. ASSUME NEW r \in Runs, Unlink(r) PROVE LockInv'
    <2>1. ~bypassed' => ~bypassed /\ \A q \in Runs : fd[q] = 0
      BY <1>6 DEF Unlink, LockInv
    <2> QED  BY <1>6, <2>1 DEF Unlink, At, Goto, LockInv, Working, Steps
  <1>7. ASSUME NEW r \in Runs, KillLauncher(r) PROVE LockInv'
    <2>1. fd \in [Runs -> Inodes \cup {0}] /\ held \subseteq Runs  BY DEF TypeOK
    <2>2. /\ r \in held /\ held' = held \ {r} /\ fd' = [fd EXCEPT ![r] = 0] /\ path' = path
          /\ \/ run' = [run EXCEPT ![r] = Idle] /\ bypassed' = bypassed
             \/ Working(r) /\ bypassed' = TRUE /\ run' = run
      BY <1>7 DEF KillLauncher
    <2> QED  BY <2>1, <2>2 DEF LockInv, Idle, Working, Steps
  <1>8. ASSUME NEW b \in Batches, SenderStart(b) \/ SenderStep(b) \/ SenderEnd(b)
                                      \/ SendByHand(b)
        PROVE  LockInv'
    BY <1>8 DEF SenderStart, SenderStep, SenderEnd, SendByHand, LockInv, Working, lock, history
  <1>9. CASE World
    <2>1. UNCHANGED <<run, path, fd, held, bypassed>>
      BY <1>9 DEF World, Stamp, MarkWrite, ToolEnd, LoseCheckpoint, MarkRead, AutoSentRead,
        lock, history
    <2> QED  BY <2>1 DEF LockInv, Working
  <1>10. CASE UNCHANGED vars
    BY <1>10 DEF vars, LockInv, Working, lock, history
  <1> QED
    BY <1>1, <1>2, <1>3, <1>4, <1>5, <1>6, <1>7, <1>8, <1>9, <1>10, NextSplit
    DEF RunStep, Work

\* Two closeouts work at once only if the lock was bypassed.
THEOREM LockExcludes == Spec => []OneCloseoutAtATime
  <1>1. LockInv => OneCloseoutAtATime
    BY DEF LockInv, OneCloseoutAtATime
  <1> QED  BY <1>1, InitType, NextType, LockInit, LockNext, PTL DEF Spec

-------------------------------------------------------------------------------
(* What a run holds, step by step, against the folder.                       *)

Loaded == Steps \ {"load"}
Handing == {"launch", "sending", "auto_sent"}
Closing == {"auto_sent", "shipped_truth_sync", "finalize", "last"}
Late == {"shipping", "download_waybills", "build_waybills", "gate"} \cup Handing \cup Closing

\* The pinned batch is built for the run's READY and the orders it requires.
Pinned(r) ==
    LET pin == run[r].mem.pin IN
    pin \in Built /\ batch[pin].for = run[r].want /\ batch[pin].stores = run[r].scope

Delivered(r) ==
    run[r].scope = {} \/ (Pinned(r) /\ batch[run[r].mem.pin].ledger = "confirmed")

RunOK(r) ==
    LET pc == run[r].pc  done == run[r].done  mem == run[r].mem IN
    /\ pc \in Outside \cup {"load"} => done = {}
    /\ pc \in {"open", "flock"} \cup Steps => run[r].want # 0
    /\ pc \in Loaded => mem.for = run[r].want
    /\ pc \in Loaded /\ "build_waybills" \in done => mem.pin # 0
    /\ pc \in Loaded /\ "delivery_send" \in done =>
        "build_waybills" \in done /\ batch[mem.pin].ledger = "confirmed"
    /\ pc \in Late => mem.required = run[r].scope
    /\ pc = "gate" => mem.pin # 0
    /\ pc \in Handing => Pinned(r)
    /\ pc \in Closing => Delivered(r)

RunInv == \A r \in Runs : RunOK(r)

\* Only a built batch has a sender or a ledger.
FolderInv ==
    \A b \in Batches : /\ sender[b] # "none" => b \in Built
                       /\ batch[b].ledger # "absent" => b \in Built

\* A step leaves what was built, and what was confirmed.
FolderKept ==
    \A b \in Built : /\ b \in Built' /\ batch'[b].for = batch[b].for
                     /\ batch'[b].stores = batch[b].stores
                     /\ batch[b].ledger = "confirmed" => batch'[b].ledger = "confirmed"

LEMMA PinType ==
    ASSUME TypeOK, NEW r \in Runs, run[r].mem.pin # 0 PROVE run[r].mem.pin \in Batches
  <1>1. run[r].mem.pin \in 0..MaxBatches  BY RunsTyped DEF RunType, Checkpoint
  <1> QED  BY <1>1, BoundsAssumption DEF Batches

LEMMA SameRunOK ==
    ASSUME TypeOK, FolderInv, FolderKept, NEW q \in Runs, RunOK(q), run'[q] = run[q]
    PROVE  RunOK(q)'
  <1> DEFINE pin == run[q].mem.pin
  <1>1. Pinned(q) => Pinned(q)'  BY DEF Pinned, FolderKept
  <1>2. pin # 0 /\ batch[pin].ledger = "confirmed" => batch'[pin].ledger = "confirmed"
    BY PinType DEF FolderInv, FolderKept
  <1>3. Delivered(q) => Delivered(q)'
    BY <1>1, <1>2 DEF Delivered, Pinned, Built, Batches, FolderKept
  <1> QED  BY <1>1, <1>2, <1>3 DEF RunOK

LEMMA EndOK == ASSUME TypeOK, NEW r \in Runs, End(r) PROVE RunOK(r)'
  <1>1. run'[r].done = {} /\ run'[r].pc \in {"idle", "unlock"}
    BY RunsTyped DEF End, Idle
  <1> QED
    BY <1>1 DEF RunOK, Steps, Loaded, Handing, Closing, Late

-------------------------------------------------------------------------------
(* The folder.                                                              *)

LEMMA FolderInit == Init => FolderInv
  BY DEF Init, FolderInv, Unbuilt

LEMMA FolderStays ==
    ASSUME TypeOK, FolderInv, UNCHANGED <<batch, sender>> PROVE FolderInv' /\ FolderKept
  BY DEF FolderInv, FolderKept, Built

LEMMA FolderNext ==
    ASSUME TypeOK, FolderInv, RunInv, [Next]_vars PROVE FolderInv' /\ FolderKept
  <1> USE RunsTyped
  <1>1. ASSUME NEW r \in Runs, Build(r) PROVE FolderInv' /\ FolderKept
    <2>1. At(r, "build_waybills") /\ UNCHANGED sender  BY <1>1 DEF Build
    <2>2. run[r].want # 0  BY <2>1 DEF At, RunInv, RunOK, Steps
    <2>3. PICK b \in Batches :
            /\ b \notin Built
            /\ batch' = [batch EXCEPT ![b] = [for |-> run[r].want,
                            stores |-> run[r].mem.required, ledger |-> "absent"]]
      BY <1>1 DEF Build, IsNext
    <2>4. Built' = Built \cup {b}  BY <2>2, <2>3 DEF Built, TypeOK
    <2> QED  BY <2>1, <2>3, <2>4 DEF FolderInv, FolderKept, Built, TypeOK
  <1>2. ASSUME NEW r \in Runs, LaunchSender(r) PROVE FolderInv' /\ FolderKept
    <2>1. run[r].mem.pin \in Built
      BY <1>2 DEF LaunchSender, At, RunInv, RunOK, Handing, Pinned
    <2>2. UNCHANGED batch  BY <1>2 DEF LaunchSender
    <2>3. \A b \in Batches : sender'[b] = sender[b] \/ b = run[r].mem.pin
      BY <1>2 DEF LaunchSender, TypeOK
    <2> QED  BY <2>1, <2>2, <2>3 DEF FolderInv, FolderKept, Built
  <1>3. ASSUME NEW b \in Batches, SenderStart(b) \/ SenderStep(b) \/ SenderEnd(b)
                                      \/ SendByHand(b)
        PROVE  FolderInv' /\ FolderKept
    <2>1. b \in Built
      BY <1>3 DEF SenderStart, SenderStep, SenderEnd, SendByHand, FolderInv
    <2>2. \A c \in Batches : /\ batch'[c].for = batch[c].for
                             /\ batch'[c].stores = batch[c].stores
                             /\ c # b => batch'[c] = batch[c] /\ sender'[c] = sender[c]
      BY <1>3 DEF SenderStart, SenderStep, SenderEnd, SendByHand, TypeOK
    <2>3. batch[b].ledger = "confirmed" => batch'[b].ledger = "confirmed"
      BY <1>3 DEF SenderStart, SenderStep, SenderEnd, SendByHand, TypeOK
    <2>4. Built' = Built  BY <2>2 DEF Built
    <2>5. \A c \in Batches : c = b \/ (batch'[c] = batch[c] /\ sender'[c] = sender[c])
      BY <2>2
    <2>6. FolderInv'  BY <2>1, <2>4, <2>5 DEF FolderInv
    <2>7. FolderKept
      <3> SUFFICES ASSUME NEW c \in Built
                   PROVE  /\ c \in Built' /\ batch'[c].for = batch[c].for
                          /\ batch'[c].stores = batch[c].stores
                          /\ batch[c].ledger = "confirmed" => batch'[c].ledger = "confirmed"
        BY DEF FolderKept
      <3>1. c \in Batches  BY DEF Built
      <3> QED  BY <2>2, <2>3, <2>4, <3>1
    <2> QED  BY <2>6, <2>7
  <1>4. ASSUME NEW r \in Runs, RunStep(r), ~Build(r), ~LaunchSender(r)
        PROVE  UNCHANGED <<batch, sender>>
    BY <1>4 DEF RunStep, Launch, Open, Flock, Unlock, Unlink, Load, Bind, Scope, RunStage,
      Require, BuildFails, SkipBuild, Gate, Returned, AutoSent, Finalize, LastWrite, StopRun,
      KillLauncher, folder
  <1>5. World \/ UNCHANGED vars => UNCHANGED <<batch, sender>>
    BY DEF World, Stamp, MarkWrite, ToolEnd, LoseCheckpoint, MarkRead, AutoSentRead, vars,
      folder
  <1> QED  BY <1>1, <1>2, <1>3, <1>4, <1>5, FolderStays, NextSplit

-------------------------------------------------------------------------------
(* The runs.                                                                *)

LEMMA RunInit == Init => RunInv
  BY DEF Init, RunInv, RunOK, Idle, Steps, Loaded, Handing, Closing, Late

LEMMA LoadOK ==
    ASSUME TypeOK, FolderInv, FolderKept, NEW r \in Runs, RunOK(r),
           NEW resume \in BOOLEAN, Load(r, resume)
    PROVE  RunOK(r)'
  <1> USE RunsTyped
  <1>1. run[r].pc = "load" /\ run[r].want # 0 /\ run[r].done = {} /\ batch' = batch
    BY DEF Load, At, RunOK, Steps, folder
  <1>2. CASE LoadFresh(r)
    <2>1. /\ run'[r].pc = "bind" /\ run'[r].want = run[r].want /\ run'[r].done = {}
          /\ run'[r].mem.for = run[r].want
      BY <1>1, <1>2, FreshType DEF LoadFresh, RunType
    <2> QED  BY <1>1, <2>1 DEF RunOK, Outside, Loaded, Steps, Handing, Closing, Late
  <1>3. CASE End(r)  BY <1>3, EndOK
  <1>4. CASE /\ file.for = run[r].want
             /\ run' = [run EXCEPT ![r].pc = "bind", ![r].mem = file,
                                   ![r].done = Contiguous(file)]
    <2>1. /\ run'[r].pc = "bind" /\ run'[r].want = run[r].want
          /\ run'[r].mem = file /\ run'[r].done = Contiguous(file)
      BY <1>4 DEF RunType
    <2>2. "build_waybills" \in Contiguous(file) => file.pin # 0
      BY ContiguousValid DEF Valid
    <2>3. "delivery_send" \in Contiguous(file) =>
            "build_waybills" \in Contiguous(file) /\ batch[file.pin].ledger = "confirmed"
      BY ContiguousValid DEF Valid
    <2> QED
      BY <1>1, <1>4, <2>1, <2>2, <2>3
      DEF RunOK, Outside, Loaded, Steps, Handing, Closing, Late
  <1> QED  BY <1>2, <1>3, <1>4 DEF Load

\* A step inside the work that keeps what the run has pinned and required.
LEMMA MoveOK ==
    ASSUME TypeOK, FolderInv, FolderKept, NEW r \in Runs, RunOK(r),
           run[r].pc \in Loaded, NEW p \in Loaded, run'[r].pc = p,
           run'[r].want = run[r].want, run'[r].done = run[r].done,
           run'[r].scope = run[r].scope, run'[r].mem.for = run[r].mem.for,
           run'[r].mem.pin = run[r].mem.pin,
           p \in Late => run'[r].mem.required = run[r].scope,
           p = "gate" => run[r].mem.pin # 0,
           p \in Handing => Pinned(r), p \in Closing => Delivered(r)
    PROVE  RunOK(r)'
  <1> DEFINE pin == run[r].mem.pin
  <1>1. Pinned(r) => Pinned(r)'  BY DEF Pinned, FolderKept
  <1>2. pin # 0 /\ batch[pin].ledger = "confirmed" => batch'[pin].ledger = "confirmed"
    BY PinType DEF FolderInv, FolderKept
  <1>3. Delivered(r) => Delivered(r)'
    BY <1>1, <1>2 DEF Delivered, Pinned, Built, Batches, FolderKept
  <1>4. p \notin Outside \cup {"load"}  BY DEF Loaded, Steps, Outside
  <1> QED  BY <1>1, <1>2, <1>3, <1>4 DEF RunOK, Loaded

LEMMA StageOK ==
    ASSUME TypeOK, FolderInv, FolderKept, NEW r \in Runs, RunOK(r),
           NEW stage \in StageNames, NEW next, RunStage(r, stage, next),
           stage \in Loaded, next \in Loaded, next # "gate", next \notin Handing,
           next \in Late => stage \in Late \/ next = "required",
           next \in Closing => stage \in Closing
    PROVE  RunOK(r)'
  <1> USE RunsTyped
  <1>1. run[r].pc = stage  BY DEF RunStage, At
  <1>2. CASE End(r)  BY <1>2, EndOK
  <1>3. CASE Goto(r, next)
    <2>1. run'[r] = [run[r] EXCEPT !.pc = next]  BY <1>3 DEF Goto
    <2> QED  BY <1>1, <2>1, MoveOK DEF RunOK, RunType, Late, Handing, Closing
  <1>4. CASE \E ok \in BOOLEAN :
               run' = [run EXCEPT ![r].pc = next, ![r].mem = Recorded(run[r].mem, stage, ok)]
    <2>1. PICK ok \in BOOLEAN :
            run'[r] = [run[r] EXCEPT !.pc = next, !.mem = Recorded(run[r].mem, stage, ok)]
      BY <1>4
    <2> DEFINE c == Recorded(run[r].mem, stage, ok)
    <2>2. /\ c.for = run[r].mem.for /\ c.required = run[r].mem.required
          /\ c.pin = run[r].mem.pin
      BY RecordedType DEF RunType
    <2> HIDE DEF c
    <2>3. /\ run'[r].pc = next /\ run'[r].want = run[r].want
          /\ run'[r].done = run[r].done /\ run'[r].scope = run[r].scope /\ run'[r].mem = c
      BY <2>1 DEF RunType, c
    <2> QED  BY <1>1, <2>2, <2>3, MoveOK DEF RunOK, Late, Handing, Closing
  <1> QED  BY <1>2, <1>3, <1>4 DEF RunStage

LEMMA ResumeOK ==
    ASSUME TypeOK, FolderInv, FolderKept, NEW r \in Runs, RunOK(r),
           Bind(r) \/ Scope(r) \/ Require(r)
    PROVE  RunOK(r)'
  <1> USE RunsTyped
  <1>1. CASE Bind(r)
    <2>1. run[r].pc = "bind" /\ run'[r] = [run[r] EXCEPT !.pc = "scope"]
      BY <1>1 DEF Bind, At, Goto
    <2> QED
      BY <2>1, MoveOK DEF RunType, Loaded, Steps, Late, Handing, Closing
  <1>2. CASE Scope(r)
    <2>1. /\ run[r].pc = "scope" /\ run'[r].pc = "size_writeback"
          /\ run'[r].want = run[r].want /\ run'[r].done = run[r].done
          /\ run'[r].mem = run[r].mem /\ batch' = batch
      BY <1>2 DEF Scope, At, RunType, folder
    <2> QED
      BY <2>1 DEF RunOK, Outside, Loaded, Steps, Late, Handing, Closing
  <1>3. CASE Require(r)
    <2> DEFINE next == IF run[r].scope = {} THEN "finalize" ELSE "shipping"
               c == [run[r].mem EXCEPT !.required = run[r].scope]
    <2>1. run[r].pc = "required"  BY <1>3 DEF Require, At
    <2>2. next \in Loaded /\ next # "gate" /\ next \notin Handing
      BY DEF Loaded, Steps, Handing
    <2>3. next \in Closing => Delivered(r)  BY DEF Closing, Delivered
    <2>4. CASE Goto(r, next) /\ SameScope(r)
      <3>1. run'[r] = [run[r] EXCEPT !.pc = next]  BY <2>4 DEF Goto
      <3> QED
        BY <2>1, <2>2, <2>3, <2>4, <3>1, MoveOK DEF SameScope, RunType, Loaded, Steps
    <2>5. CASE run' = [run EXCEPT ![r].pc = next, ![r].mem = c]
      <3>1. run'[r] = [run[r] EXCEPT !.pc = next, !.mem = c]  BY <2>5
      <3>2. /\ c.for = run[r].mem.for /\ c.required = run[r].scope
            /\ c.pin = run[r].mem.pin
        BY DEF RunType, Checkpoint
      <3> HIDE DEF c
      <3> QED
        BY <2>1, <2>2, <2>3, <3>1, <3>2, MoveOK DEF RunType, Loaded, Steps
    <2> QED  BY <1>3, <2>4, <2>5 DEF Require
  <1> QED  BY <1>1, <1>2, <1>3

LEMMA BuildOK ==
    ASSUME TypeOK, FolderInv, FolderKept, NEW r \in Runs, RunOK(r),
           Build(r) \/ BuildFails(r) \/ SkipBuild(r)
    PROVE  RunOK(r)'
  <1> USE RunsTyped
  <1>1. CASE End(r)  BY <1>1, EndOK
  <1>2. CASE SkipBuild(r)
    <2>1. /\ run[r].pc = "build_waybills" /\ run'[r] = [run[r] EXCEPT !.pc = "gate"]
          /\ "build_waybills" \in run[r].done
      BY <1>2 DEF SkipBuild, At, Goto
    <2> QED
      BY <2>1, MoveOK DEF RunOK, RunType, Loaded, Steps, Late, Handing, Closing
  <1>3. CASE Build(r) /\ ~End(r)
    <2> DEFINE pinned(b) == [Recorded(run[r].mem, "build_waybills", TRUE) EXCEPT !.pin = b]
    <2>1. /\ run[r].pc = "build_waybills" /\ "build_waybills" \notin run[r].done
      BY <1>3 DEF Build, At
    <2>2. PICK b \in Batches : run'[r] = [run[r] EXCEPT !.pc = "gate", !.mem = pinned(b)]
      BY <1>3 DEF Build
    <2> DEFINE c == Recorded(run[r].mem, "build_waybills", TRUE)
    <2>3. /\ pinned(b).for = run[r].mem.for /\ pinned(b).required = run[r].mem.required
          /\ pinned(b).pin = b /\ b # 0
      <3>1. /\ c \in Checkpoint /\ c.for = run[r].mem.for
            /\ c.required = run[r].mem.required
        <4>1. run[r].mem \in Checkpoint  BY DEF RunType
        <4>2. "build_waybills" \in StageNames  BY StageIsName
        <4> QED  BY <4>1, <4>2, RecordedType
      <3>2. pinned(b) = [c EXCEPT !.pin = b]  OBVIOUS
      <3>3. b # 0  BY DEF Batches
      <3> HIDE DEF c, pinned
      <3> QED  BY <3>1, <3>2, <3>3 DEF Checkpoint
    <2> HIDE DEF pinned
    <2>4. /\ run'[r].pc = "gate" /\ run'[r].want = run[r].want
          /\ run'[r].done = run[r].done /\ run'[r].scope = run[r].scope
          /\ run'[r].mem = pinned(b)
      BY <2>2 DEF RunType
    <2> QED
      BY <2>1, <2>3, <2>4 DEF RunOK, Outside, Loaded, Steps, Late, Handing, Closing
  <1> QED  BY <1>1, <1>2, <1>3 DEF BuildFails

LEMMA SendOK ==
    ASSUME TypeOK, FolderInv, FolderKept, NEW r \in Runs, RunOK(r),
           Gate(r) \/ LaunchSender(r) \/ Returned(r) \/ AutoSent(r) \/ Finalize(r)
             \/ LastWrite(r)
    PROVE  RunOK(r)'
  <1> USE RunsTyped
  <1> DEFINE pin == run[r].mem.pin
  <1>1. CASE Gate(r)
    <2>1. run[r].pc = "gate" /\ batch[pin].for = run[r].mem.for
          /\ batch[pin].stores = run[r].mem.required
      BY <1>1 DEF Gate, At
    <2>2. Pinned(r)
      <3>1. pin \in Batches  BY <2>1, PinType DEF RunOK
      <3>2. run[r].want # 0 /\ run[r].mem.for = run[r].want /\ run[r].mem.required = run[r].scope
        BY <2>1 DEF RunOK, Steps, Loaded, Late
      <3> QED  BY <2>1, <3>1, <3>2 DEF Pinned, Built
    <2>3. CASE "delivery_send" \in run[r].done
      <3>1. run'[r] = [run[r] EXCEPT !.pc = "shipped_truth_sync"]
        BY <1>1, <2>3 DEF Gate, Goto
      <3>2. Delivered(r)  BY <2>1, <2>2, <2>3 DEF Delivered, RunOK, Loaded, Steps
      <3> QED
        BY <2>1, <3>1, <3>2, MoveOK DEF RunOK, RunType, Loaded, Steps, Late, Handing
    <2>4. CASE "delivery_send" \notin run[r].done
      <3>1. run'[r] = [run[r] EXCEPT !.pc = "launch", !.mem = [@ EXCEPT !.attempt = TRUE]]
        BY <1>1, <2>4 DEF Gate
      <3>2. /\ run'[r].pc = "launch" /\ run'[r].want = run[r].want
            /\ run'[r].done = run[r].done /\ run'[r].scope = run[r].scope
            /\ run'[r].mem = [run[r].mem EXCEPT !.attempt = TRUE]
        BY <3>1 DEF RunType
      <3>3. /\ run'[r].mem.for = run[r].mem.for /\ run'[r].mem.pin = pin
            /\ run'[r].mem.required = run[r].mem.required
        <4>1. run[r].mem \in Checkpoint  BY DEF RunType
        <4> QED  BY <3>2, <4>1 DEF Checkpoint
      <3> QED
        BY <2>1, <2>2, <3>2, <3>3, MoveOK DEF RunOK, Loaded, Steps, Late, Handing, Closing
    <2> QED  BY <2>3, <2>4
  <1>2. CASE LaunchSender(r)
    <2>1. run[r].pc = "launch" /\ run'[r] = [run[r] EXCEPT !.pc = "sending"]
      BY <1>2 DEF LaunchSender, At, Goto
    <2> QED
      BY <2>1, MoveOK DEF RunOK, RunType, Loaded, Steps, Late, Handing, Closing
  <1>3. CASE Returned(r)
    <2>1. PICK ok \in BOOLEAN :
            \/ /\ batch[pin].ledger = "confirmed"
               /\ run' = [run EXCEPT ![r].pc = "auto_sent",
                             ![r].mem = Recorded(run[r].mem, "delivery_send", ok)]
            \/ End(r)
      BY <1>3 DEF Returned
    <2> DEFINE c == Recorded(run[r].mem, "delivery_send", ok)
    <2>2. CASE End(r)  BY <2>2, EndOK
    <2>3. CASE ~End(r)
      <3>1. run[r].pc = "sending" /\ batch[pin].ledger = "confirmed"
            /\ run'[r] = [run[r] EXCEPT !.pc = "auto_sent", !.mem = c]
        BY <1>3, <2>1, <2>3 DEF Returned, At
      <3>2. c.for = run[r].mem.for /\ c.required = run[r].mem.required /\ c.pin = pin
        <4>1. run[r].mem \in Checkpoint  BY DEF RunType
        <4>2. "delivery_send" \in StageNames  BY StageIsName
        <4> QED  BY <4>1, <4>2, RecordedType
      <3>3. Pinned(r) /\ Delivered(r)
        BY <3>1 DEF RunOK, Handing, Delivered
      <3> HIDE DEF c
      <3>4. /\ run'[r].pc = "auto_sent" /\ run'[r].want = run[r].want
            /\ run'[r].done = run[r].done /\ run'[r].scope = run[r].scope /\ run'[r].mem = c
        BY <3>1 DEF RunType
      <3> QED
        BY <3>1, <3>2, <3>3, <3>4, MoveOK DEF RunOK, Loaded, Steps, Late, Handing
    <2> QED  BY <2>2, <2>3
  <1>4. CASE AutoSent(r)
    <2>1. PICK days : run' = [run EXCEPT ![r].pc = "shipped_truth_sync", ![r].mem.days = days]
      BY <1>4 DEF AutoSent
    <2> DEFINE c == [run[r].mem EXCEPT !.days = days]
    <2>2. run[r].pc = "auto_sent"  BY <1>4 DEF AutoSent, At
    <2>4. run' = [run EXCEPT ![r] = [@ EXCEPT !.pc = "shipped_truth_sync", !.mem = c]]
      BY <2>1
    <2>5. /\ run'[r].pc = "shipped_truth_sync"
          /\ run'[r].want = run[r].want /\ run'[r].done = run[r].done
          /\ run'[r].scope = run[r].scope /\ run'[r].mem = c
      <3> HIDE DEF c
      <3> QED  BY <2>4 DEF RunType
    <2>3. /\ run'[r].mem.for = run[r].mem.for /\ run'[r].mem.pin = pin
          /\ run'[r].mem.required = run[r].mem.required
      <3>1. run[r].mem \in Checkpoint  BY DEF RunType
      <3> QED  BY <2>5, <3>1 DEF Checkpoint
    <2> QED
      BY <2>2, <2>3, <2>5, MoveOK DEF RunOK, Loaded, Steps, Late, Handing, Closing
  <1>5. CASE Finalize(r)
    <2>1. run[r].pc = "finalize" /\ run'[r] = [run[r] EXCEPT !.pc = "last"]
      BY <1>5 DEF Finalize, At, Goto
    <2> QED
      BY <2>1, MoveOK DEF RunOK, RunType, Loaded, Steps, Late, Handing, Closing
  <1>6. CASE LastWrite(r)  BY <1>6, EndOK DEF LastWrite
  <1> QED  BY <1>1, <1>2, <1>3, <1>4, <1>5, <1>6

\* The steps around the work.
LEMMA LockOK ==
    ASSUME TypeOK, NEW r \in Runs, RunOK(r),
           Launch(r) \/ Open(r) \/ Flock(r) \/ Unlock(r) \/ Unlink(r)
    PROVE  /\ RunOK(r)' /\ \A q \in Runs \ {r} : run'[q] = run[q]
  <1> USE RunsTyped
  <1>1. \A q \in Runs \ {r} : run'[q] = run[q]
    BY DEF Launch, Open, Flock, Unlock, Unlink, Goto
  <1>2. run[r].done = {} /\ (run[r].pc \in {"open", "flock"} => run[r].want # 0)
    BY DEF Launch, Open, Flock, Unlock, Unlink, At, RunOK, Outside
  <1>3. run'[r].done = {} /\ run'[r].pc \in Outside \cup {"load"}
    BY <1>2 DEF Launch, Open, Flock, Unlock, Unlink, Goto, Idle, RunType, Outside
  <1>4. run'[r].pc \in {"open", "flock", "load"} => run'[r].want # 0
    <2>1. CASE Launch(r)  BY <2>1 DEF Launch, RunType, TypeOK
    <2>2. CASE Open(r)  BY <1>2, <2>2 DEF Open, At, Goto, RunType
    <2>3. CASE Flock(r)  BY <1>2, <2>3 DEF Flock, At, Goto, Idle, RunType
    <2>4. CASE Unlock(r) \/ Unlink(r)  BY <2>4 DEF Unlock, Unlink, Goto, RunType
    <2> QED  BY <2>1, <2>2, <2>3, <2>4
  <1> QED
    BY <1>1, <1>3, <1>4 DEF RunOK, Outside, Steps, Loaded, Handing, Closing, Late

LEMMA RunNext ==
    ASSUME TypeOK, FolderInv, RunInv, [Next]_vars PROVE RunInv'
  <1> USE RunsTyped
  <1>1. FolderKept  BY FolderNext
  <1>2. ASSUME UNCHANGED run PROVE RunInv'
    BY <1>1, <1>2, SameRunOK DEF RunInv
  <1>3. ASSUME NEW r \in Runs, RunOK(r)', \A q \in Runs \ {r} : run'[q] = run[q]
        PROVE  RunInv'
    BY <1>1, <1>3, SameRunOK DEF RunInv
  <1>4. ASSUME NEW r \in Runs, Work(r) PROVE RunInv'
    <2>1. RunOK(r)  BY DEF RunInv
    <2>2. ASSUME NEW stage \in StageNames, NEW next, RunStage(r, stage, next),
                 \/ stage = "size_writeback" /\ next = "required"
                 \/ stage = "shipping" /\ next = "download_waybills"
                 \/ stage = "download_waybills" /\ next = "build_waybills"
                 \/ stage = "shipped_truth_sync" /\ next = "finalize"
          PROVE  RunOK(r)'
      <3>1. /\ stage \in Loaded /\ next \in Loaded /\ next # "gate" /\ next \notin Handing
            /\ next \in Late => stage \in Late \/ next = "required"
            /\ next \in Closing => stage \in Closing
        BY <2>2 DEF Loaded, Steps, Handing, Late, Closing
      <3> QED  BY <1>1, <2>1, <2>2, <3>1, StageOK
    <2>3. {"size_writeback", "shipping", "download_waybills", "shipped_truth_sync"}
            \subseteq StageNames
      BY StageIsName
    <2>4. StopRun(r) => RunOK(r)'  BY EndOK DEF StopRun
    <2>5. RunOK(r)'
      BY <1>1, <1>4, <2>1, <2>2, <2>3, <2>4, LoadOK, ResumeOK, BuildOK, SendOK DEF Work
    <2> QED  BY <1>3, <1>4, <2>5, WorkIsOwn
  <1>5. ASSUME NEW r \in Runs, Launch(r) \/ Open(r) \/ Flock(r) \/ Unlock(r) \/ Unlink(r)
        PROVE  RunInv'
    BY <1>3, <1>5, LockOK DEF RunInv
  <1>6. ASSUME NEW r \in Runs, KillLauncher(r) PROVE RunInv'
    <2>1. CASE UNCHANGED run  BY <1>2, <2>1
    <2>2. CASE run' = [run EXCEPT ![r] = Idle]
      <3>1. run'[r] = Idle /\ \A q \in Runs \ {r} : run'[q] = run[q]  BY <2>2
      <3>2. RunOK(r)'
        BY <3>1 DEF RunOK, Idle, Steps, Loaded, Handing, Closing, Late
      <3> QED  BY <1>3, <3>1, <3>2
    <2> QED  BY <1>6, <2>1, <2>2 DEF KillLauncher
  <1>7. ASSUME NEW b \in Batches, SenderStart(b) \/ SenderStep(b) \/ SenderEnd(b)
                                      \/ SendByHand(b)
        PROVE  RunInv'
    BY <1>2, <1>7 DEF SenderStart, SenderStep, SenderEnd, SendByHand
  <1>8. CASE World \/ UNCHANGED vars
    BY <1>2, <1>8 DEF World, Stamp, MarkWrite, ToolEnd, LoseCheckpoint, MarkRead,
      AutoSentRead, vars
  <1> QED
    BY <1>4, <1>5, <1>6, <1>7, <1>8, NextSplit DEF RunStep, Work

Base == TypeOK /\ FolderInv /\ RunInv

LEMMA BaseNext == Base /\ [Next]_vars => Base' /\ FolderKept
  BY NextType, FolderNext, RunNext DEF Base

LEMMA BaseHolds == Spec => []Base
  <1>1. Init => Base  BY InitType, FolderInit, RunInit DEF Base
  <1> QED  BY <1>1, BaseNext, PTL DEF Spec

-------------------------------------------------------------------------------
(* What the board says.                                                     *)

LEMMA OkNext == Base /\ OkMeansDelivered /\ [Next]_vars => OkMeansDelivered'
  <1> SUFFICES ASSUME Base, OkMeansDelivered, [Next]_vars PROVE OkMeansDelivered'
    OBVIOUS
  <1>1. FolderKept  BY BaseNext
  <1> DEFINE Shown(f) == f.stores = {} \/
               \E b \in Built : /\ batch[b].for = f.for /\ batch[b].stores = f.stores
                                /\ batch[b].ledger = "confirmed"
  <1>2. ASSUME NEW f, Shown(f) PROVE Shown(f)'
    BY <1>1, <1>2 DEF FolderKept
  <1>3. CASE finished' = finished
    BY <1>2, <1>3 DEF OkMeansDelivered
  <1>4. ASSUME NEW r \in Runs, Finalize(r) PROVE OkMeansDelivered'
    <2> DEFINE f == [for |-> run[r].want, stores |-> run[r].scope]
    <2>1. run[r].pc = "finalize" /\ finished' = finished \cup {f}
      BY <1>4 DEF Finalize, At
    <2>2. Delivered(r)  BY <2>1 DEF Base, RunInv, RunOK, Closing
    <2>3. Shown(f)  BY <2>2 DEF Delivered, Pinned
    <2> HIDE DEF f
    <2> QED  BY <1>2, <2>1, <2>3 DEF OkMeansDelivered
  <1>5. (\E r \in Runs : Finalize(r)) \/ finished' = finished
    BY NextSplit
    DEF RunStep, Launch, Open, Flock, Unlock, Unlink, Load, Bind, Scope, RunStage,
      Require, Build, BuildFails, SkipBuild, Gate, LaunchSender, Returned, AutoSent, LastWrite,
      StopRun, KillLauncher, SenderStart, SenderStep, SenderEnd, SendByHand, World, Stamp,
      MarkWrite, ToolEnd, LoseCheckpoint, MarkRead, AutoSentRead, board, vars
  <1> QED  BY <1>3, <1>4, <1>5

\* A READY shown as OK had nothing to send, or a confirmed batch of exactly the
\* stores it required, for any number of runs, resumes, losses and kills.
THEOREM DeliveredWhenOk == Spec => []OkMeansDelivered
  <1>1. Init => OkMeansDelivered  BY DEF Init, OkMeansDelivered
  <1> QED  BY <1>1, BaseHolds, OkNext, PTL DEF Spec

-------------------------------------------------------------------------------
(* The operator's marks.                                                    *)

Scoped == Late \cup {"size_writeback", "required"}
Kept == marks \ exposed

\* A kept mark is in the copy of a run, and a scoped run has left its store out.
MarkRunOK(r) ==
    /\ run[r].pc \in Loaded => \A s \in Kept : run[r].mem.days[s] = "SETTLED"
    /\ run[r].pc \in Scoped => /\ Kept \subseteq run[r].before
                               /\ run[r].scope \cap (run[r].before \ exposed) = {}

\* It is also in the file, and in the copy that the operator's tool has read.
MarkInv ==
    /\ MarksSurvive
    /\ editor # <<>> => \A s \in Kept : editor[2].days[s] = "SETTLED"
    /\ \A r \in Runs : MarkRunOK(r)

LEMMA MarkInit == Init => MarkInv
  BY
  DEF Init, MarkInv, MarkRunOK, MarksSurvive, Kept, Idle, Loaded, Scoped, Late, Handing, Closing, Steps

\* A step of a run keeps the marks if what it writes and goes on with has them.
LEMMA MarkMove ==
    ASSUME TypeOK, MarkInv, NEW r \in Runs, UNCHANGED <<marks, exposed, editor>>,
           \A q \in Runs \ {r} : run'[q] = run[q],
           \A s \in Kept : file'.days[s] = "SETTLED", MarkRunOK(r)'
    PROVE  MarkInv'
  BY DEF MarkInv, MarkRunOK, MarksSurvive, Kept

\* What a run's copy becomes at a step that keeps its day states and its scope.
LEMMA MarkSame ==
    ASSUME TypeOK, MarkInv, NEW r \in Runs, UNCHANGED <<marks, exposed>>,
           run[r].pc \in Loaded, run'[r].mem.days = run[r].mem.days,
           run'[r].before = run[r].before, run'[r].scope = run[r].scope,
           run'[r].pc \in Scoped => run[r].pc \in Scoped
    PROVE  MarkRunOK(r)'
  BY DEF MarkInv, MarkRunOK, Kept

LEMMA MarkOut ==
    ASSUME NEW r \in Runs, run'[r].pc \in Outside \cup {"load"} PROVE MarkRunOK(r)'
  BY DEF MarkRunOK, Outside, Loaded, Scoped, Late, Handing, Closing, Steps

LEMMA EndOut == ASSUME TypeOK, NEW r \in Runs, End(r) PROVE run'[r].pc \in Outside \cup {"load"}
  BY RunsTyped DEF End, Idle, Outside

LEMMA MarkStage ==
    ASSUME TypeOK, MarkInv, NEW r \in Runs, NEW stage \in StageNames, NEW next,
           stage \in Scoped, RunStage(r, stage, next)
    PROVE  MarkInv'
  <1> USE RunsTyped
  <1>1. run[r].pc = stage /\ stage \in Loaded /\ UNCHANGED <<marks, exposed, editor>>
    BY DEF RunStage, At, Scoped, Late, Handing, Closing, Loaded, Steps, tool, history
  <1>2. \A q \in Runs \ {r} : run'[q] = run[q]  BY DEF RunStage, Goto, End
  <1>3. run[r].mem \in Checkpoint  BY DEF RunType
  <1>4. CASE Goto(r, next) /\ file' = file
    <2>1. run'[r] = [run[r] EXCEPT !.pc = next]  BY <1>4 DEF Goto
    <2>2. MarkRunOK(r)'  BY <1>1, <2>1, MarkSame DEF RunType
    <2> QED  BY <1>1, <1>2, <1>4, <2>2, MarkMove DEF MarkInv, MarksSurvive, Kept
  <1>5. CASE \E ok \in BOOLEAN :
               /\ file' = Recorded(run[r].mem, stage, ok)
               /\ run' = [run EXCEPT ![r].pc = next, ![r].mem = file'] \/ End(r)
    <2>1. PICK ok \in BOOLEAN :
            /\ file' = Recorded(run[r].mem, stage, ok)
            /\ run' = [run EXCEPT ![r].pc = next, ![r].mem = file'] \/ End(r)
      BY <1>5
    <2>2. file'.days = run[r].mem.days  BY <1>3, <2>1, RecordedType
    <2>3. MarkRunOK(r)'
      <3>1. CASE End(r)  BY <3>1, EndOut, MarkOut
      <3>2. CASE run' = [run EXCEPT ![r].pc = next, ![r].mem = file']
        <4>1. /\ run'[r].mem = file' /\ run'[r].before = run[r].before
              /\ run'[r].scope = run[r].scope
          BY <3>2 DEF RunType
        <4> QED  BY <1>1, <2>2, <4>1, MarkSame
      <3> QED  BY <2>1, <3>1, <3>2
    <2>4. \A s \in Kept : file'.days[s] = "SETTLED"
      BY <1>1, <2>2 DEF MarkInv, MarkRunOK
    <2> QED  BY <1>1, <1>2, <2>3, <2>4, MarkMove
  <1> QED  BY <1>4, <1>5 DEF RunStage

LEMMA MarkWork ==
    ASSUME Base, MarkInv, NEW r \in Runs, Work(r) PROVE MarkInv'
  <1> USE RunsTyped DEF Base
  <1>1. /\ UNCHANGED <<marks, exposed, editor>> /\ \A q \in Runs \ {r} : run'[q] = run[q]
    BY WorkIsOwn
  <1>2. run[r].mem \in Checkpoint  BY DEF RunType
  <1>3. \A s \in Kept : file.days[s] = "SETTLED"  BY DEF MarkInv, MarksSurvive, Kept
  <1>4. (UNCHANGED file /\ MarkRunOK(r)') => MarkInv'  BY <1>1, <1>3, MarkMove
  <1>5. (UNCHANGED file /\ End(r)) => MarkInv'  BY <1>4, EndOut, MarkOut
  <1>6. ASSUME NEW resume \in BOOLEAN, Load(r, resume) PROVE MarkInv'
    <2>1. UNCHANGED file  BY <1>6 DEF Load
    <2>2. CASE End(r)  BY <1>5, <2>1, <2>2
    <2>3. CASE ~End(r)
      <3>1. run'[r].pc = "bind" /\ (run'[r].mem = file \/ run'[r].mem = Fresh(r))
        BY <1>6, <2>3 DEF Load, LoadFresh, RunType
      <3>2. run'[r].mem.days = file.days  BY <3>1, FreshType
      <3>3. MarkRunOK(r)'
        BY <1>1, <1>3, <3>1, <3>2 DEF MarkRunOK, Kept, Scoped, Late, Handing, Closing
      <3> QED  BY <1>4, <2>1, <3>3
    <2> QED  BY <2>2, <2>3
  <1>7. CASE Bind(r)
    <2>1. /\ run[r].pc = "bind" /\ run'[r] = [run[r] EXCEPT !.pc = "scope"]
          /\ UNCHANGED file
      BY <1>7 DEF Bind, At, Goto
    <2>2. MarkRunOK(r)'
      BY <1>1, <2>1, MarkSame DEF RunType, Loaded, Steps, Scoped, Late, Handing, Closing
    <2> QED  BY <1>4, <2>1, <2>2
  <1>8. CASE Scope(r)
    <2>1. /\ run[r].pc = "scope" /\ UNCHANGED file
          /\ run'[r].mem = run[r].mem /\ run'[r].before = marks
          /\ run'[r].scope = {s \in Stores : file.days[s] # "SETTLED"}
      BY <1>8 DEF Scope, At, RunType
    <2>2. MarkRunOK(r)'
      BY <1>1, <1>3, <2>1 DEF MarkInv, MarkRunOK, Kept, Loaded, Steps
    <2> QED  BY <1>4, <2>1, <2>2
  <1>9. CASE Require(r)
    <2> DEFINE c == [run[r].mem EXCEPT !.required = run[r].scope]
    <2>1. run[r].pc = "required"  BY <1>9 DEF Require, At
    <2>2. c.days = run[r].mem.days  BY <1>2 DEF Checkpoint
    <2> HIDE DEF c
    <2>3. CASE UNCHANGED file
      <3>1. PICK next : run'[r] = [run[r] EXCEPT !.pc = next] \/
                        (run'[r] = [run[r] EXCEPT !.pc = next, !.mem = c])
        BY <1>9 DEF Require, Goto, c
      <3>2. MarkRunOK(r)'
        BY <1>1, <2>1, <2>2, <3>1, MarkSame DEF RunType, Loaded, Steps, Scoped
      <3> QED  BY <1>4, <2>3, <3>2
    <2>4. CASE file' = c /\ \E next : run' = [run EXCEPT ![r].pc = next, ![r].mem = c]
      <3>1. PICK next : run'[r] = [run[r] EXCEPT !.pc = next, !.mem = c]  BY <2>4
      <3>2. MarkRunOK(r)'
        BY <1>1, <2>1, <2>2, <3>1, MarkSame DEF RunType, Loaded, Steps, Scoped
      <3>3. \A s \in Kept : file'.days[s] = "SETTLED"
        BY <2>1, <2>2, <2>4 DEF MarkInv, MarkRunOK, Loaded, Steps
      <3> QED  BY <1>1, <3>2, <3>3, MarkMove
    <2> QED  BY <1>9, <2>3, <2>4 DEF Require, c
  <1>10. CASE Finalize(r)
    <2>1. /\ run[r].pc = "finalize" /\ run'[r] = [run[r] EXCEPT !.pc = "last"]
          /\ UNCHANGED file
      BY <1>10 DEF Finalize, At, Goto
    <2>2. MarkRunOK(r)'
      BY <1>1, <2>1, MarkSame DEF RunType, Loaded, Steps, Scoped, Late, Closing
    <2> QED  BY <1>4, <2>1, <2>2
  <1>11. CASE LastWrite(r)
    <2>1. run[r].pc = "last" /\ file' = run[r].mem /\ End(r)  BY <1>11 DEF LastWrite, At
    <2>2. \A s \in Kept : file'.days[s] = "SETTLED"
      BY <2>1 DEF MarkInv, MarkRunOK, Loaded, Steps
    <2> QED  BY <1>1, <2>1, <2>2, EndOut, MarkOut, MarkMove
  <1>12. CASE StopRun(r)  BY <1>5, <1>12 DEF StopRun
  <1>13. CASE SkipBuild(r) \/ LaunchSender(r)
    <2>1. /\ run[r].pc \in {"build_waybills", "launch"} /\ UNCHANGED file
          /\ \E next : run'[r] = [run[r] EXCEPT !.pc = next]
      BY <1>13 DEF SkipBuild, LaunchSender, At, Goto
    <2>2. MarkRunOK(r)'
      BY <1>1, <2>1, MarkSame DEF RunType, Loaded, Steps, Scoped, Late, Handing
    <2> QED  BY <1>4, <2>1, <2>2
  <1> HIDE DEF Base
  <1>14. ASSUME NEW c \in Checkpoint, c.days = run[r].mem.days, file' = c \/ file' = file,
                run[r].pc \in Scoped,
                \/ End(r)
                \/ \E next : run'[r] = [run[r] EXCEPT !.pc = next, !.mem = c]
                \/ \E next : run'[r] = [run[r] EXCEPT !.pc = next]
         PROVE  MarkInv'
    <2>1. run[r].pc \in Loaded
      BY <1>14 DEF Scoped, Late, Handing, Closing, Loaded, Steps
    <2>2. MarkRunOK(r)'
      <3>1. CASE End(r)  BY <3>1, EndOut, MarkOut DEF Base
      <3>2. CASE ~End(r)
        <4>1. /\ run'[r].mem.days = run[r].mem.days /\ run'[r].before = run[r].before
              /\ run'[r].scope = run[r].scope
          BY <1>14, <3>2 DEF RunType, Base
        <4> QED  BY <1>1, <1>14, <2>1, <4>1, MarkSame DEF Base
      <3> QED  BY <3>1, <3>2
    <2>3. \A s \in Kept : c.days[s] = "SETTLED"
      BY <1>14, <2>1 DEF MarkInv, MarkRunOK
    <2>4. \A s \in Kept : file'.days[s] = "SETTLED"  BY <1>3, <1>14, <2>3
    <2> QED  BY <1>1, <2>2, <2>4, MarkMove DEF Base
  <1>15. ASSUME NEW s \in StageNames, NEW ok
         PROVE  /\ Recorded(run[r].mem, s, ok) \in Checkpoint
                /\ Recorded(run[r].mem, s, ok).days = run[r].mem.days
    BY <1>2, RecordedType
  <1>16. {"build_waybills", "delivery_send", "size_writeback", "shipping", "download_waybills",
          "shipped_truth_sync"} \subseteq StageNames
    BY StageIsName
  <1>17. CASE Build(r)
    <2> DEFINE pinned(b) == [Recorded(run[r].mem, "build_waybills", TRUE) EXCEPT !.pin = b]
    <2>1. run[r].pc \in Scoped  BY <1>17 DEF Build, At, Scoped, Late
    <2>2. PICK b \in Batches :
            \/ /\ file' = pinned(b)
               /\ run' = [run EXCEPT ![r].pc = "gate", ![r].mem = pinned(b)]
            \/ /\ End(r)
               /\ \/ UNCHANGED file
                  \/ \E ok \in BOOLEAN : file' = Recorded(run[r].mem, "build_waybills", ok)
      BY <1>17 DEF Build
    <2>3. CASE End(r) /\ UNCHANGED file  BY <1>5, <2>3
    <2>4. CASE \E ok \in BOOLEAN : End(r) /\ file' = Recorded(run[r].mem, "build_waybills", ok)
      BY <1>14, <1>15, <1>16, <2>1, <2>4
    <2>5. CASE /\ file' = pinned(b)
               /\ run' = [run EXCEPT ![r].pc = "gate", ![r].mem = pinned(b)]
      <3>1. b \in 0..MaxBatches  BY BoundsAssumption DEF Batches
      <3>2. pinned(b) \in Checkpoint /\ pinned(b).days = run[r].mem.days
        <4> DEFINE c == Recorded(run[r].mem, "build_waybills", TRUE)
        <4>1. c \in Checkpoint /\ c.days = run[r].mem.days  BY <1>15, <1>16
        <4>2. pinned(b) = [c EXCEPT !.pin = b]  OBVIOUS
        <4> HIDE DEF c, pinned
        <4> QED  BY <3>1, <4>1, <4>2 DEF Checkpoint
      <3> HIDE DEF pinned
      <3>3. run'[r] = [run[r] EXCEPT !.pc = "gate", !.mem = pinned(b)]  BY <2>5 DEF Base
      <3> QED  BY <1>14, <2>1, <2>5, <3>2, <3>3
    <2> QED  BY <2>2, <2>3, <2>4, <2>5
  <1>18. CASE BuildFails(r)
    <2>1. run[r].pc \in Scoped  BY <1>18 DEF BuildFails, At, Scoped, Late
    <2> QED  BY <1>14, <1>15, <1>16, <1>18, <2>1 DEF BuildFails
  <1>19. CASE Gate(r)
    <2> DEFINE c == [run[r].mem EXCEPT !.attempt = TRUE]
    <2>1. run[r].pc \in Scoped  BY <1>19 DEF Gate, At, Scoped, Late
    <2>2. c \in Checkpoint /\ c.days = run[r].mem.days  BY <1>2 DEF Checkpoint
    <2>3. \/ file' = file /\ run' = [run EXCEPT ![r].pc = "shipped_truth_sync"]
          \/ file' = c /\ run' = [run EXCEPT ![r].pc = "launch", ![r].mem.attempt = TRUE]
      BY <1>19 DEF Gate, Goto
    <2>4. \/ file' = file /\ run'[r] = [run[r] EXCEPT !.pc = "shipped_truth_sync"]
          \/ file' = c /\ run'[r] = [run[r] EXCEPT !.pc = "launch", !.mem = c]
      BY <2>3 DEF Base
    <2> HIDE DEF c
    <2> QED  BY <1>14, <2>1, <2>2, <2>4
  <1>20. CASE Returned(r)
    <2>1. run[r].pc \in Scoped  BY <1>20 DEF Returned, At, Scoped, Late, Handing
    <2>2. PICK ok \in BOOLEAN :
            /\ file' = Recorded(run[r].mem, "delivery_send", ok)
            /\ End(r) \/ run' = [run EXCEPT ![r].pc = "auto_sent", ![r].mem = file']
      BY <1>20 DEF Returned
    <2>3. End(r) \/ run'[r] = [run[r] EXCEPT !.pc = "auto_sent", !.mem = file']
      BY <2>2 DEF Base
    <2> QED  BY <1>14, <1>15, <1>16, <2>1, <2>2, <2>3
  <1>21. CASE AutoSent(r)
    <2> DEFINE days(stamped) ==
                 [s \in Stores |-> IF s \in stamped THEN SentState ELSE file.days[s]]
    <2>1. run[r].pc = "auto_sent"  BY <1>21 DEF AutoSent, At
    <2>2. PICK stamped \in SUBSET batch[run[r].mem.pin].stores :
            /\ file' = [file EXCEPT !.days = days(stamped),
                           !.kind = IF @ = "absent" /\ stamped # {} THEN "marks only" ELSE @]
            /\ run' = [run EXCEPT ![r].pc = "shipped_truth_sync", ![r].mem.days = days(stamped)]
      BY <1>21 DEF AutoSent
    <2>3. batch[run[r].mem.pin].stores = run[r].scope
      BY <2>1 DEF Base, RunInv, RunOK, Handing, Pinned
    <2>4. Kept \cap stamped = {}
      <3>1. Kept \subseteq run[r].before /\ run[r].scope \cap (run[r].before \ exposed) = {}
        BY <2>1 DEF MarkInv, MarkRunOK, Scoped, Late, Handing
      <3> QED  BY <2>2, <2>3, <3>1 DEF Kept
    <2>5. \A s \in Kept : days(stamped)[s] = "SETTLED"
      BY <1>3, <2>4 DEF Kept, Base, TypeOK
    <2>6. file'.days = days(stamped)
      <3> HIDE DEF days
      <3> QED  BY <2>2 DEF Base, TypeOK, Checkpoint
    <2>7. /\ run'[r].mem.days = days(stamped) /\ run'[r].before = run[r].before
          /\ run'[r].scope = run[r].scope
      <3> DEFINE c == [run[r].mem EXCEPT !.days = days(stamped)]
      <3>1. c.days = days(stamped)
        <4> HIDE DEF days
        <4> QED  BY <1>2 DEF Checkpoint
      <3>2. run'[r] = [run[r] EXCEPT !.pc = "shipped_truth_sync", !.mem = c]
        BY <2>2 DEF Base
      <3> HIDE DEF c
      <3> QED  BY <3>1, <3>2 DEF RunType, Base
    <2>8. MarkRunOK(r)'
      <3> HIDE DEF days
      <3> QED
        BY <1>1, <2>1, <2>5, <2>7 DEF MarkInv, MarkRunOK, Kept, Scoped, Late, Handing
    <2> QED  BY <1>1, <2>5, <2>6, <2>8, MarkMove DEF Base
  <1>22. {"size_writeback", "shipping", "download_waybills", "shipped_truth_sync"}
           \subseteq Scoped
    BY DEF Scoped, Late, Closing
  <1> QED
    BY <1>6, <1>7, <1>8, <1>9, <1>10, <1>11, <1>12, <1>13, <1>16, <1>17, <1>18, <1>19, <1>20,
      <1>21, <1>22, MarkStage DEF Work, Base

LEMMA MarkNext == Base /\ MarkInv /\ [Next]_vars => MarkInv'
  <1> SUFFICES ASSUME Base, MarkInv, [Next]_vars PROVE MarkInv'  OBVIOUS
  <1> USE RunsTyped DEF Base
  <1>1. ASSUME NEW r \in Runs, Launch(r) \/ Open(r) \/ Flock(r) \/ Unlock(r) \/ Unlink(r)
        PROVE  MarkInv'
    <2>1. /\ UNCHANGED <<file, marks, exposed, editor>>
          /\ \A q \in Runs \ {r} : run'[q] = run[q]
      BY <1>1 DEF Launch, Open, Flock, Unlock, Unlink, Goto, tool, history
    <2>2. run'[r].pc \in Outside \cup {"load"}
      BY <1>1 DEF Launch, Open, Flock, Unlock, Unlink, Goto, Idle, RunType, Outside
    <2> QED  BY <2>1, <2>2, MarkOut, MarkMove DEF MarkInv, MarksSurvive, Kept
  <1>2. ASSUME NEW r \in Runs, KillLauncher(r) PROVE MarkInv'
    <2>1. UNCHANGED <<file, marks, exposed, editor>>  BY <1>2 DEF KillLauncher, tool
    <2>2. CASE run' = [run EXCEPT ![r] = Idle]
      <3>1. run'[r].pc \in Outside \cup {"load"} /\ \A q \in Runs \ {r} : run'[q] = run[q]
        BY <2>2 DEF Idle, Outside
      <3> QED  BY <2>1, <3>1, MarkOut, MarkMove DEF MarkInv, MarksSurvive, Kept
    <2>3. CASE run' = run
      BY <2>1, <2>3 DEF MarkInv, MarkRunOK, MarksSurvive, Kept
    <2> QED  BY <1>2, <2>2, <2>3 DEF KillLauncher
  <1>3. ASSUME NEW b \in Batches, SenderStart(b) \/ SenderStep(b) \/ SenderEnd(b)
                                      \/ SendByHand(b)
        PROVE  MarkInv'
    <2>1. UNCHANGED <<file, run, editor, marks, exposed>>
      BY <1>3 DEF SenderStart, SenderStep, SenderEnd, SendByHand, tool, history
    <2> QED  BY <2>1 DEF MarkInv, MarkRunOK, MarksSurvive, Kept
  <1>4. CASE Stamp \/ ToolEnd
    BY <1>4 DEF Stamp, ToolEnd, MarkInv, MarkRunOK, MarksSurvive, Kept, tool, history
  <1>5. ASSUME NEW s \in Stores, MarkRead(s) \/ AutoSentRead(s) PROVE MarkInv'
    BY <1>5 DEF MarkRead, AutoSentRead, MarkInv, MarkRunOK, MarksSurvive, Kept, history
  <1>6. CASE MarkWrite
    <2>1. editor \in Stores \X Checkpoint /\ editor' = <<>>  BY <1>6 DEF MarkWrite, TypeOK
    <2> DEFINE s == editor[1]
    <2>2. /\ UNCHANGED run
          /\ file'.days = [editor[2].days EXCEPT
                              ![s] = IF byhand = 0 THEN "SETTLED" ELSE "AUTO_SENT"]
          /\ marks' = IF byhand = 0 THEN marks \cup {s} ELSE marks \ {s}
          /\ exposed' = IF byhand = 0 /\ \E r \in Runs : Working(r) THEN exposed \cup {s}
                                                                   ELSE exposed
      BY <1>6, <2>1 DEF MarkWrite, Checkpoint
    <2>3. editor[2].days \in [Stores -> DayStates] /\ s \in Stores  BY <2>1 DEF Checkpoint
    <2>4. IF byhand = 0 THEN Kept' \subseteq Kept \cup {s} ELSE Kept' \subseteq Kept \ {s}
      BY <2>2 DEF Kept
    <2>5. \A t \in Kept : editor[2].days[t] = "SETTLED" /\ t \in Stores
      BY <1>6 DEF MarkInv, MarkWrite, Kept, TypeOK
    <2>6. \A t \in Kept' : file'.days[t] = "SETTLED"
      BY <2>2, <2>3, <2>4, <2>5
    <2>7. ASSUME NEW r \in Runs PROVE MarkRunOK(r)'
      <3>1. CASE Working(r)
        <4>1. Kept' \subseteq Kept /\ exposed \subseteq exposed'  BY <2>2, <3>1 DEF Kept
        <4> QED  BY <2>2, <4>1 DEF MarkInv, MarkRunOK
      <3>2. CASE ~Working(r)
        BY <2>2, <3>2 DEF MarkRunOK, Working, Loaded, Scoped, Late, Handing, Closing, Steps
      <3> QED  BY <3>1, <3>2
    <2> QED  BY <2>1, <2>6, <2>7 DEF MarkInv, MarksSurvive, Kept
  <1>7. CASE LoseCheckpoint
    <2>1. Kept' = {} /\ exposed \subseteq exposed' /\ run' = run
      BY <1>7 DEF LoseCheckpoint, Kept
    <2>2. \A r \in Runs : MarkRunOK(r)'  BY <2>1 DEF MarkInv, MarkRunOK
    <2>3. (marks \ exposed)' = {}  BY <2>1 DEF Kept
    <2> QED  BY <2>1, <2>2, <2>3 DEF MarkInv, MarksSurvive
  <1>8. CASE UNCHANGED vars
    BY <1>8 DEF vars, MarkInv, MarkRunOK, MarksSurvive, Kept, tool, history
  <1> QED
    BY <1>1, <1>2, <1>3, <1>4, <1>5, <1>6, <1>7, <1>8, MarkWork, NextSplit
    DEF RunStep, Work, World

LEMMA MarkHolds == Spec => []MarkInv
  BY MarkInit, BaseHolds, MarkNext, PTL DEF Spec

\* A mark made while no closeout works stays, through every later step of the day.
THEOREM MarksKept == Spec => []MarksSurvive
  <1>1. MarkInv => MarksSurvive  BY DEF MarkInv
  <1> QED  BY <1>1, MarkHolds, PTL

\* No sender that a closeout waits for has a store settled before the run scoped.
THEOREM SettledLeftOut == Spec => []SettledNotSent
  <1>1. Base /\ MarkInv => SettledNotSent
    <2> SUFFICES ASSUME Base, MarkInv, NEW r \in Runs, At(r, "sending")
                 PROVE  batch[run[r].mem.pin].stores \cap (run[r].before \ exposed) = {}
      BY DEF SettledNotSent
    <2>1. batch[run[r].mem.pin].stores = run[r].scope
      BY DEF Base, RunInv, RunOK, At, Handing, Pinned
    <2>2. run[r].scope \cap (run[r].before \ exposed) = {}
      BY DEF MarkInv, MarkRunOK, At, Scoped, Late, Handing
    <2> QED  BY <2>1, <2>2
  <1> QED  BY <1>1, BaseHolds, MarkHolds, PTL

-------------------------------------------------------------------------------
(* One delivery a day.                                                      *)

Building == {"scope", "size_writeback", "required", "shipping", "download_waybills",
             "build_waybills"}

Waited == \A r \in waiting : r \in Runs /\ At(r, "sending")
Untouched == \A b \in Built : ~Attempted(b)
MayBuild(r) == run[r].pc \in Building /\ "build_waybills" \notin run[r].done
Clean == (\A r \in Runs : MayBuild(r) => Untouched) /\ ~rebuilt

\* Who is waited for waits; and while no sender that nobody waits for sent beside a
\* closeout, and no closeout got past the lock, a run that is still to build has a
\* folder in which nothing was attempted.
AloneInv == Waited /\ (~beside /\ ~bypassed => Clean)

LEMMA AloneInit == Init => AloneInv
  BY DEF Init, AloneInv, Waited, Clean, MayBuild, Idle, Building

LEMMA WaitedNext == Base /\ Waited /\ [Next]_vars => Waited'
  <1> SUFFICES ASSUME Base, Waited, [Next]_vars PROVE Waited'  OBVIOUS
  <1> USE RunsTyped DEF Base
  <1>1. ASSUME NEW r \in Runs, waiting' \subseteq waiting, r \notin waiting',
               \A q \in Runs \ {r} : run'[q] = run[q]
        PROVE  Waited'
    BY <1>1 DEF Waited, At
  <1>2. ASSUME waiting' \subseteq waiting, run' = run PROVE Waited'
    BY <1>2 DEF Waited, At
  <1>3. ASSUME NEW r \in Runs, LaunchSender(r) PROVE Waited'
    <2>1. run[r].pc = "launch" /\ run' = [run EXCEPT ![r].pc = "sending"]
      BY <1>3 DEF LaunchSender, At, Goto
    <2>2. waiting' = {r} \/ waiting' = waiting  BY <1>3 DEF LaunchSender
    <2> QED  BY <2>1, <2>2 DEF Waited, At, RunType
  <1>4. ASSUME NEW r \in Runs, StopRun(r) PROVE Waited'
    <2>1. waiting' = waiting \ {r} /\ \A q \in Runs \ {r} : run'[q] = run[q]
      BY <1>4, WorkIsOwn DEF StopRun, Work
    <2> QED  BY <1>1, <2>1
  <1>5. ASSUME NEW r \in Runs, KillLauncher(r) PROVE Waited'
    <2>1. CASE run' = [run EXCEPT ![r] = Idle] /\ waiting' = waiting \ {r}
      BY <1>1, <2>1
    <2>2. CASE UNCHANGED <<run, waiting>>  BY <1>2, <2>2
    <2> QED  BY <1>5, <2>1, <2>2 DEF KillLauncher
  <1>6. ASSUME NEW r \in Runs, Work(r), ~LaunchSender(r), ~StopRun(r) PROVE Waited'
    <2>1. UNCHANGED waiting
      BY <1>6 DEF Work, Load, Bind, Scope, RunStage, Require, Build, BuildFails, SkipBuild, Gate,
        Returned, AutoSent, Finalize, LastWrite, folder
    <2>2. r \notin waiting
      BY <1>6 DEF Work, Load, Bind, Scope, RunStage, Require, Build, BuildFails, SkipBuild, Gate,
        Returned, AutoSent, Finalize, LastWrite, Waited, At
    <2> QED  BY <1>1, <1>6, <2>1, <2>2, WorkIsOwn
  <1>7. ASSUME NEW r \in Runs, Launch(r) \/ Open(r) \/ Flock(r) \/ Unlock(r) \/ Unlink(r)
        PROVE  Waited'
    <2>1. UNCHANGED waiting /\ \A q \in Runs \ {r} : run'[q] = run[q]
      BY <1>7 DEF Launch, Open, Flock, Unlock, Unlink, Goto, folder
    <2>2. r \notin waiting
      BY <1>7 DEF Launch, Open, Flock, Unlock, Unlink, Waited, At
    <2> QED  BY <1>1, <2>1, <2>2
  <1>8. ASSUME NEW b \in Batches, SenderStart(b) \/ SenderStep(b) \/ SenderEnd(b)
                                      \/ SendByHand(b)
        PROVE  Waited'
    BY <1>2, <1>8 DEF SenderStart, SenderStep, SenderEnd, SendByHand
  <1>9. CASE World \/ UNCHANGED vars
    BY <1>2, <1>9 DEF World, Stamp, MarkWrite, ToolEnd, LoseCheckpoint, MarkRead,
      AutoSentRead, vars, folder
  <1> QED
    BY <1>3, <1>4, <1>5, <1>6, <1>7, <1>8, <1>9, NextSplit DEF RunStep, Work

LEMMA AloneWork ==
    ASSUME Base, LockInv, AloneInv, NEW r \in Runs, Work(r), ~beside', ~bypassed'
    PROVE  Clean'
  <1> USE RunsTyped DEF Base
  <1>1. /\ Working(r) /\ ~bypassed /\ \A q \in Runs \ {r} : run'[q] = run[q]
        /\ End(r) \/ run'[r].pc \in Steps
    BY WorkIsOwn
  <1>2. ~beside
    BY DEF Work, Load, Bind, Scope, RunStage, Require, Build, BuildFails, SkipBuild, Gate,
      LaunchSender, Returned, AutoSent, Finalize, LastWrite, StopRun, history
  <1>3. (\A q \in Runs : MayBuild(q) => Untouched) /\ ~rebuilt
    BY <1>1, <1>2 DEF AloneInv, Clean
  <1>4. ASSUME NEW q \in Runs, Working(q) PROVE q = r
    BY <1>1, <1>4 DEF LockInv
  <1>5. \A q \in Runs \ {r} : ~MayBuild(q)'
    BY <1>1, <1>4 DEF MayBuild, Building, Working, Steps
  <1>6. End(r) => ~MayBuild(r)'
    BY DEF End, Idle, MayBuild, Building
  <1>7. CASE Build(r)
    <2>1. /\ run[r].pc = "build_waybills" /\ MayBuild(r)
          /\ rebuilt' = (rebuilt \/ \E a \in Built : Attempted(a))
      BY <1>7 DEF Build, At, MayBuild, Building
    <2>2. ~rebuilt'  BY <1>3, <2>1 DEF Untouched
    <2>3. ~MayBuild(r)'
      <3>1. End(r) \/ \E c : run' = [run EXCEPT ![r].pc = "gate", ![r].mem = c]
        BY <1>7 DEF Build
      <3> QED  BY <1>6, <3>1 DEF MayBuild, Building, RunType
    <2> QED  BY <1>5, <2>2, <2>3 DEF Clean
  <1>8. CASE LaunchSender(r)
    <2>1. /\ run'[r] = [run[r] EXCEPT !.pc = "sending"] /\ UNCHANGED rebuilt
      BY <1>8 DEF LaunchSender, At, Goto, history
    <2>2. run'[r].pc = "sending"  BY <2>1 DEF RunType
    <2> QED  BY <1>3, <1>5, <2>1, <2>2 DEF Clean, MayBuild, Building
  <1>9. CASE ~Build(r) /\ ~LaunchSender(r)
    <2>1. UNCHANGED <<batch, rebuilt>>
      BY <1>9 DEF Work, Load, Bind, Scope, RunStage, Require, BuildFails, SkipBuild, Gate,
        Returned, AutoSent, Finalize, LastWrite, StopRun, history, folder
    <2>3. Untouched' <=> Untouched  BY <2>1 DEF Untouched, Built, Attempted
    <2>4. MayBuild(r)' => Untouched
      <3> SUFFICES ASSUME MayBuild(r)', ~MayBuild(r), ~End(r) PROVE Untouched
        BY <1>3, <1>6
      <3>0. MayBuild(r)' /\ ~End(r)  OBVIOUS
      <3>1. Bind(r)
        <4>1. CASE \E resume \in BOOLEAN : Load(r, resume)
          <5>1. run'[r].pc = "bind"  BY <3>0, <4>1 DEF Load, LoadFresh, RunType
          <5> QED  BY <3>0, <5>1 DEF MayBuild, Building
        <4>2. CASE Scope(r)
          BY <4>2 DEF Scope, At, MayBuild, Building, RunType
        <4>3. CASE Require(r)
          <5>1. run[r].pc = "required" /\ run'[r].done = run[r].done
            BY <4>3 DEF Require, At, Goto, RunType
          <5> QED  BY <5>1 DEF MayBuild, Building
        <4>4. ASSUME NEW stage, NEW next, RunStage(r, stage, next),
                     stage \in Building \/ next \notin Building
              PROVE FALSE
          <5>1. /\ run[r].pc = stage /\ run'[r].pc = next
                /\ run'[r].done = run[r].done
            BY <4>4 DEF RunStage, At, Goto, RunType
          <5> QED  BY <4>4, <5>1 DEF MayBuild
        <4>5. CASE SkipBuild(r)
          BY <4>5 DEF SkipBuild, Goto, MayBuild, Building, RunType
        <4>6. CASE Gate(r)
          <5>1. run'[r].pc \in {"shipped_truth_sync", "launch"}
            BY <4>6 DEF Gate, Goto, RunType
          <5> QED  BY <5>1 DEF MayBuild, Building
        <4>7. CASE Returned(r)
          BY <4>7 DEF Returned, MayBuild, Building, RunType
        <4>8. CASE AutoSent(r)
          <5>1. \E days : run' = [run EXCEPT ![r].pc = "shipped_truth_sync", ![r].mem.days = days]
            BY <4>8 DEF AutoSent
          <5> QED  BY <5>1 DEF MayBuild, Building, RunType
        <4>9. CASE Finalize(r)
          BY <4>9 DEF Finalize, Goto, MayBuild, Building, RunType
        <4>10. CASE BuildFails(r) \/ LastWrite(r) \/ StopRun(r)
          BY <4>10 DEF BuildFails, LastWrite, StopRun
        <4>11. {"size_writeback", "shipping", "download_waybills"} \subseteq Building
               /\ "finalize" \notin Building
          BY DEF Building
        <4> QED
          BY <1>9, <4>1, <4>2, <4>3, <4>4, <4>5, <4>6, <4>7, <4>8, <4>9, <4>10, <4>11
          DEF Work
      <3>2. "build_waybills" \notin run[r].done
        BY <3>1 DEF Bind, Goto, MayBuild, RunType
      <3>3. Attempts(run[r].mem) = {}  BY <3>1, <3>2 DEF Bind, Bound
      <3> QED  BY <3>3 DEF Attempts, Untouched
    <2> QED  BY <1>3, <1>5, <2>1, <2>3, <2>4 DEF Clean
  <1> QED  BY <1>7, <1>8, <1>9

LEMMA AloneNext == Base /\ LockInv /\ AloneInv /\ [Next]_vars => AloneInv'
  <1> SUFFICES ASSUME Base, LockInv, AloneInv, [Next]_vars, ~beside', ~bypassed' PROVE Clean'
    BY WaitedNext DEF AloneInv
  <1> USE RunsTyped DEF Base
  <1>1. ASSUME UNCHANGED <<batch, rebuilt>>, ~beside, ~bypassed,
               \A q \in Runs : MayBuild(q)' => MayBuild(q)
        PROVE  Clean'
    <2>1. Untouched' <=> Untouched  BY <1>1 DEF Untouched, Built, Attempted
    <2> QED  BY <1>1, <2>1 DEF AloneInv, Clean
  <1>2. ASSUME NEW r \in Runs, Launch(r) \/ Open(r) \/ Flock(r) \/ Unlock(r) \/ Unlink(r)
        PROVE  Clean'
    <2>1. /\ UNCHANGED <<batch, beside, rebuilt>>
          /\ \A q \in Runs \ {r} : run'[q] = run[q]
      BY <1>2 DEF Launch, Open, Flock, Unlock, Unlink, Goto, history, folder
    <2>2. ~bypassed
      <3>1. bypassed \in BOOLEAN  BY DEF TypeOK
      <3> QED  BY <1>2, <3>1 DEF Launch, Open, Flock, Unlock, Unlink, history
    <2>3. ~MayBuild(r)'
      BY <1>2 DEF Launch, Open, Flock, Unlock, Unlink, Goto, Idle, RunType, MayBuild,
        Building
    <2>4. ASSUME NEW q \in Runs, MayBuild(q)' PROVE MayBuild(q)
      BY <2>1, <2>3, <2>4 DEF MayBuild
    <2> QED  BY <1>1, <2>1, <2>2, <2>4
  <1>3. ASSUME NEW r \in Runs, KillLauncher(r) PROVE Clean'
    <2>1. run' = [run EXCEPT ![r] = Idle] /\ UNCHANGED bypassed
      BY <1>3 DEF KillLauncher
    <2>2. UNCHANGED <<batch, beside, rebuilt>>  BY <1>3 DEF KillLauncher
    <2>3. ASSUME NEW q \in Runs, MayBuild(q)' PROVE MayBuild(q)
      BY <2>1, <2>3 DEF MayBuild, Building, Idle
    <2> QED  BY <1>1, <2>1, <2>2, <2>3
  <1>4. ASSUME NEW b \in Batches, SenderStep(b) PROVE Clean'
    <2>0. \/ beside' = beside
          \/ beside' = (beside \/ (waiting = {} /\ \E r \in Runs : Working(r)))
      BY <1>4 DEF SenderStep
    <2>1. UNCHANGED <<run, rebuilt, bypassed>> /\ ~beside
      <3>1. UNCHANGED <<run, rebuilt, bypassed>>  BY <1>4 DEF SenderStep
      <3>2. beside \in BOOLEAN  BY DEF TypeOK
      <3> QED  BY <2>0, <3>1, <3>2
    <2>2. ~rebuilt /\ ~bypassed  BY <2>1 DEF AloneInv, Clean
    <2>3. CASE batch[b].ledger = "attempted"
      <3>1. batch' = [batch EXCEPT ![b].ledger = "confirmed"]  BY <1>4, <2>3 DEF SenderStep
      <3>2. Built' = Built /\ (Untouched => Untouched')
        BY <2>3, <3>1 DEF Built, Untouched, Attempted, TypeOK
      <3> QED  BY <2>1, <2>2, <3>2 DEF AloneInv, Clean, MayBuild
    <2>4. CASE batch[b].ledger # "attempted"
      <3>1. beside' = (beside \/ (waiting = {} /\ \E r \in Runs : Working(r)))
        BY <1>4, <2>4 DEF SenderStep
      <3>2. ASSUME NEW p \in Runs, MayBuild(p) PROVE FALSE
        <4>1. Working(p)  BY <3>2 DEF MayBuild, Building, Working, Steps
        <4>2. PICK q \in waiting : TRUE  BY <3>1, <4>1
        <4>3. q \in Runs /\ At(q, "sending")  BY <4>2 DEF AloneInv, Waited
        <4>4. p = q  BY <2>2, <4>1, <4>3 DEF LockInv, Working, At, Steps
        <4> QED  BY <3>2, <4>3, <4>4 DEF At, MayBuild, Building
      <3> QED  BY <2>1, <2>2, <3>2 DEF Clean, MayBuild
    <2> QED  BY <2>3, <2>4
  <1>5. ASSUME NEW b \in Batches, SenderStart(b) PROVE Clean'
    <2>1. UNCHANGED <<run, rebuilt, beside, bypassed>>  BY <1>5 DEF SenderStart, history
    <2>2. Built' = Built /\ \A c \in Batches : Attempted(c)' <=> Attempted(c)
      BY <1>5 DEF SenderStart, Built, Attempted, TypeOK
    <2>3. Untouched' <=> Untouched  BY <2>2 DEF Untouched, Built
    <2> QED  BY <2>1, <2>3 DEF AloneInv, Clean, MayBuild
  <1>6. ASSUME NEW b \in Batches, SenderEnd(b) \/ SendByHand(b) PROVE Clean'
    <2>1. UNCHANGED <<batch, run, rebuilt, beside, bypassed>>
      BY <1>6 DEF SenderEnd, SendByHand, history
    <2> QED  BY <1>1, <2>1 DEF MayBuild
  <1>7. CASE World \/ UNCHANGED vars
    <2>1. UNCHANGED <<batch, run, rebuilt, beside, bypassed>>
      BY <1>7 DEF World, Stamp, MarkWrite, ToolEnd, LoseCheckpoint, MarkRead, AutoSentRead,
        vars, folder, history
    <2> QED  BY <1>1, <2>1 DEF MayBuild
  <1> QED
    BY <1>2, <1>3, <1>4, <1>5, <1>6, <1>7, AloneWork, NextSplit DEF RunStep, Work

\* No batch is built after one of the day was attempted, by whomever, unless a sender
\* that no closeout waits for sent beside a closeout, or two got past the lock.
THEOREM OneDeliveryADay == Spec => []NothingBuiltAfterAttempt
  <1>1. AloneInv => NothingBuiltAfterAttempt
    BY DEF AloneInv, Clean, NothingBuiltAfterAttempt
  <1> QED
    BY <1>1, BaseHolds, InitType, NextType, LockInit, LockNext, AloneInit, AloneNext, PTL
    DEF Spec, Base

-------------------------------------------------------------------------------
(* The day.  The channel has room for one sender, and a sender that was not    *)
(* refused saw no other batch tried; no closeout can do anything about that.   *)

DayMap == [b \in Batches |-> IF batch[b].for = 0 THEN "unbuilt" ELSE batch[b].ledger]

ChannelInv ==
    /\ \A b, c \in Batches : sender[b] # "none" /\ sender[c] # "none" => b = c
    /\ \A b \in Batches : sender[b] = "sending" =>
          \A c \in Built \ {b} : ~Attempted(c)

LEMMA ChannelInit == Init => ChannelInv
  BY DEF Init, ChannelInv

\* Only a build, a launch and the senders touch the folder.
LEMMA FolderSteps ==
    ASSUME [Next]_vars
    PROVE  \/ UNCHANGED <<batch, sender>>
           \/ \E r \in Runs : Build(r) \/ LaunchSender(r)
           \/ \E b \in Batches : SenderStart(b) \/ SenderStep(b) \/ SenderEnd(b)
           \/ \E b \in Batches : SendByHand(b)
  <1>1. ASSUME NEW r \in Runs, RunStep(r), ~Build(r), ~LaunchSender(r)
        PROVE  UNCHANGED <<batch, sender>>
    BY <1>1 DEF RunStep, Launch, Open, Flock, Unlock, Unlink, Load, Bind, Scope, RunStage,
      Require, BuildFails, SkipBuild, Gate, Returned, AutoSent, Finalize, LastWrite, StopRun,
      KillLauncher, folder
  <1>2. World \/ UNCHANGED vars => UNCHANGED <<batch, sender>>
    BY DEF World, Stamp, MarkWrite, ToolEnd, LoseCheckpoint, MarkRead, AutoSentRead, vars,
      folder
  <1> QED  BY <1>1, <1>2, NextSplit

\* A build adds a batch that nobody has tried.
LEMMA BuildAdds ==
    ASSUME Base, NEW r \in Runs, Build(r)
    PROVE  /\ UNCHANGED sender
           /\ \E b \in Batches \ Built :
                 /\ batch'[b].for # 0 /\ batch'[b].ledger = "absent"
                 /\ \A c \in Batches \ {b} : batch'[c] = batch[c]
  <1>1. run[r].want # 0 /\ UNCHANGED sender
    BY DEF Build, Base, At, RunInv, RunOK, Steps
  <1>2. PICK b \in Batches :
          /\ b \notin Built
          /\ batch' = [batch EXCEPT ![b] = [for |-> run[r].want,
                          stores |-> run[r].mem.required, ledger |-> "absent"]]
    BY DEF Build, IsNext
  <1> QED  BY <1>1, <1>2 DEF Base, TypeOK

LEMMA ChannelNext == Base /\ ChannelInv /\ [Next]_vars => ChannelInv'
  <1> SUFFICES ASSUME Base, ChannelInv, [Next]_vars PROVE ChannelInv'
    OBVIOUS
  <1>1. CASE UNCHANGED <<batch, sender>>
    BY <1>1 DEF ChannelInv, Built, Attempted
  <1>2. ASSUME NEW r \in Runs, Build(r) PROVE ChannelInv'
    <2>1. UNCHANGED sender  BY <1>2, BuildAdds
    <2>2. PICK b \in Batches \ Built :
            /\ batch'[b].ledger = "absent"
            /\ \A c \in Batches \ {b} : batch'[c] = batch[c]
      BY <1>2, BuildAdds
    <2>3. \A c \in Built' : c \in Built \/ c = b  BY <2>2 DEF Built
    <2>4. \A c \in Batches : Attempted(c)' => Attempted(c)  BY <2>2 DEF Attempted
    <2>5. ~Attempted(b)'  BY <2>2 DEF Attempted
    <2> QED  BY <2>1, <2>3, <2>4, <2>5 DEF ChannelInv, Built
  <1>3. ASSUME NEW r \in Runs, LaunchSender(r) PROVE ChannelInv'
    <2>1. UNCHANGED batch  BY <1>3 DEF LaunchSender
    <2>2. CASE UNCHANGED sender
      BY <2>1, <2>2 DEF ChannelInv, Built, Attempted
    <2>3. CASE /\ ChannelFree
               /\ sender' = [sender EXCEPT ![run[r].mem.pin] = "started"]
      <3>1. \A b \in Batches : sender'[b] = "none" \/ (sender'[b] = "started" /\ b = run[r].mem.pin)
        BY <2>3 DEF ChannelFree, Base, TypeOK
      <3> QED  BY <3>1 DEF ChannelInv
    <2> QED  BY <1>3, <2>2, <2>3 DEF LaunchSender
  <1>4. ASSUME NEW b \in Batches, SenderStart(b) \/ SenderStep(b) \/ SenderEnd(b)
        PROVE  ChannelInv'
    <2>0. sender[b] # "none"  BY <1>4 DEF SenderStart, SenderStep, SenderEnd
    <2>1. /\ \A c \in Batches : batch'[c].for = batch[c].for
          /\ \A c \in Batches : c # b => batch'[c] = batch[c] /\ sender'[c] = sender[c]
      <3>1. /\ batch \in [Batches -> [for : 0..MaxReady, stores : SUBSET Stores,
                         ledger : {"absent", "pending", "attempted", "confirmed"}]]
            /\ sender \in [Batches -> {"none", "started", "sending"}]
        BY DEF Base, TypeOK
      <3>2. CASE SenderStart(b)  BY <3>1, <3>2 DEF SenderStart
      <3>3. CASE SenderStep(b)   BY <3>1, <3>3 DEF SenderStep
      <3>4. CASE SenderEnd(b)    BY <3>1, <3>4 DEF SenderEnd
      <3> QED  BY <1>4, <3>2, <3>3, <3>4
    <2>2. \A c \in Batches \ {b} : sender'[c] = "none"
      <3> SUFFICES ASSUME NEW c \in Batches, c # b PROVE sender[c] = "none"
        BY <2>1
      <3> QED  BY <2>0 DEF ChannelInv
    <2>3. Built' = Built  BY <2>1 DEF Built
    <2>4. \A c \in Built \ {b} : Attempted(c)' = Attempted(c)
      BY <2>1 DEF Attempted, Built
    <2>5. ASSUME sender'[b] = "sending" PROVE \A c \in Built \ {b} : ~Attempted(c)
      <3>1. CASE SenderStart(b)
        BY <3>1 DEF SenderStart, SiblingAttempt, Attempted
      <3>2. CASE SenderStep(b)
        BY <3>2 DEF SenderStep, ChannelInv
      <3>3. CASE SenderEnd(b)
        BY <2>5, <3>3 DEF SenderEnd, Base, TypeOK
      <3> QED  BY <1>4, <3>1, <3>2, <3>3
    <2> QED  BY <2>2, <2>3, <2>4, <2>5 DEF ChannelInv
  <1>5. ASSUME NEW b \in Batches, SendByHand(b) PROVE ChannelInv'
    <2>1. \A c \in Batches : sender'[c] = "none" \/ (sender'[c] = "started" /\ c = b)
      BY <1>5 DEF SendByHand, ChannelFree, Base, TypeOK
    <2> QED  BY <2>1 DEF ChannelInv
  <1> QED  BY <1>1, <1>2, <1>3, <1>4, <1>5, FolderSteps

\* A step of the folder is a step of the day or leaves it alone.
LEMMA DayStep == Base /\ ChannelInv /\ [Next]_vars => Day!Next \/ DayMap' = DayMap
  <1> SUFFICES ASSUME Base, ChannelInv, [Next]_vars PROVE Day!Next \/ DayMap' = DayMap
    OBVIOUS
  <1>1. CASE UNCHANGED <<batch, sender>>
    BY <1>1 DEF DayMap
  <1>2. ASSUME NEW b \in Batches, NEW from, NEW to, DayMap[b] = from, DayMap'[b] = to,
               \A c \in Batches \ {b} : batch'[c] = batch[c]
        PROVE  Day!Become(b, from, to)
    <2>1. DayMap' = [DayMap EXCEPT ![b] = to]
      BY <1>2 DEF DayMap
    <2> QED  BY <1>2, <2>1 DEF Day!Become, DayMap
  <1>3. ASSUME NEW r \in Runs, Build(r) PROVE Day!Next
    <2>1. PICK b \in Batches \ Built :
            /\ batch'[b].for # 0 /\ batch'[b].ledger = "absent"
            /\ \A c \in Batches \ {b} : batch'[c] = batch[c]
      BY <1>3, BuildAdds
    <2>2. DayMap[b] = "unbuilt" /\ DayMap'[b] = "absent"
      BY <2>1 DEF DayMap, Built
    <2>3. Day!Build(b)  BY <1>2, <2>1, <2>2 DEF Day!Build
    <2> QED  BY <2>3 DEF Day!Next
  <1>4. ASSUME NEW r \in Runs, LaunchSender(r) PROVE DayMap' = DayMap
    BY <1>4 DEF LaunchSender, DayMap
  <1>5. ASSUME NEW b \in Batches, SenderStart(b) PROVE Day!Next \/ DayMap' = DayMap
    <2>1. /\ batch[b].for # 0 /\ batch'[b].for = batch[b].for
          /\ batch'[b].ledger = IF batch[b].ledger = "absent" THEN "pending" ELSE batch[b].ledger
          /\ \A c \in Batches \ {b} : batch'[c] = batch[c]
      BY <1>5 DEF SenderStart, Base, FolderInv, Built, TypeOK
    <2>2. CASE batch[b].ledger = "absent"
      <3>1. DayMap[b] = "absent" /\ DayMap'[b] = "pending"  BY <2>1, <2>2 DEF DayMap
      <3>2. Day!Open(b)  BY <1>2, <2>1, <3>1 DEF Day!Open
      <3> QED  BY <3>2 DEF Day!Next
    <2>3. CASE batch[b].ledger # "absent"
      BY <2>1, <2>3 DEF DayMap
    <2> QED  BY <2>2, <2>3
  <1>6. ASSUME NEW b \in Batches, SenderStep(b) PROVE Day!Next
    <2>1. /\ batch[b].for # 0 /\ batch'[b].for = batch[b].for /\ sender[b] = "sending"
          /\ \A c \in Batches \ {b} : batch'[c] = batch[c]
      BY <1>6 DEF SenderStep, Base, FolderInv, Built, TypeOK
    <2>2. CASE batch[b].ledger = "pending" /\ batch' = [batch EXCEPT ![b].ledger = "attempted"]
      <3>1. DayMap[b] = "pending" /\ DayMap'[b] = "attempted"
        BY <2>1, <2>2 DEF DayMap, Base, TypeOK
      <3>2. ASSUME NEW c \in Batches, Day!Tried(c) PROVE c = b
        <4>1. c \in Built /\ Attempted(c)
          BY <3>2 DEF Day!Tried, Built, Attempted
        <4> QED  BY <2>1, <4>1 DEF ChannelInv
      <3>3. Day!Attempt(b)  BY <1>2, <2>1, <3>1, <3>2 DEF Day!Attempt
      <3> QED  BY <3>3 DEF Day!Next
    <2>3. CASE batch[b].ledger = "attempted" /\ batch' = [batch EXCEPT ![b].ledger = "confirmed"]
      <3>1. DayMap[b] = "attempted" /\ DayMap'[b] = "confirmed"
        BY <2>1, <2>3 DEF DayMap, Base, TypeOK
      <3>2. Day!Confirm(b)  BY <1>2, <2>1, <3>1 DEF Day!Confirm
      <3> QED  BY <3>2 DEF Day!Next
    <2> QED  BY <1>6, <2>2, <2>3 DEF SenderStep
  <1>7. ASSUME NEW b \in Batches, SenderEnd(b) \/ SendByHand(b) PROVE DayMap' = DayMap
    BY <1>7 DEF SenderEnd, SendByHand, DayMap
  <1> QED  BY <1>1, <1>3, <1>4, <1>5, <1>6, <1>7, FolderSteps

LEMMA ChannelHolds == Spec => []ChannelInv
  BY BaseHolds, ChannelInit, ChannelNext, PTL DEF Spec

\* However many closeouts build, launch, die or go on without their lock, the
\* batches of the day follow BatchDay.
THEOREM DayCorrect == Spec => ImplementsDay
  <1>1. Init => Day!Init
    BY DEF Init, Day!Init, Unbuilt
  <1>2. Base /\ ChannelInv /\ [Next]_vars
          => [Day!Next]_([b \in Batches |-> IF batch[b].for = 0 THEN "unbuilt"
                                                                ELSE batch[b].ledger])
    BY DayStep DEF DayMap
  <1> QED
    BY <1>1, <1>2, BaseHolds, ChannelHolds, PTL DEF Spec, ImplementsDay, Day!Spec

\* No two batches of the day are ever tried, although NothingBuiltAfterAttempt may
\* fail: a batch that is built too late finds its sender refused.
THEOREM OneBatchTried == Spec => [](\A b, c \in Built : Attempted(b) /\ Attempted(c) => b = c)
  <1>1. Day!TypeOK /\ Day!OneTried
          => \A b, c \in Built : Attempted(b) /\ Attempted(c) => b = c
    <2> SUFFICES ASSUME Day!OneTried, NEW b \in Built, NEW c \in Built,
                        Attempted(b), Attempted(c)
                 PROVE  b = c
      OBVIOUS
    <2>1. b \in Batches /\ c \in Batches /\ Day!Tried(b) /\ Day!Tried(c)
      BY DEF Built, Day!Tried, Attempted
    <2> QED  BY <2>1 DEF Day!OneTried
  <1> QED  BY <1>1, DayCorrect, Day!OneTriedADay, PTL DEF ImplementsDay

\* Two requests shown as OK with something to send were delivered by one batch,
\* so they are one request: what a new READY asks for after a delivery is refused.
THEOREM OneReadyCorrect == Spec => []OneReadyDelivered
  <1>1. /\ OkMeansDelivered /\ Base
        /\ \A b, c \in Built : Attempted(b) /\ Attempted(c) => b = c
        => OneReadyDelivered
    <2> SUFFICES ASSUME OkMeansDelivered, Base,
                        \A b, c \in Built : Attempted(b) /\ Attempted(c) => b = c,
                        NEW f \in finished, NEW g \in finished, f.stores # {}, g.stores # {}
                 PROVE  f = g
      BY DEF OneReadyDelivered
    <2>1. PICK b \in Built : /\ batch[b].for = f.for /\ batch[b].stores = f.stores
                             /\ batch[b].ledger = "confirmed"
      BY DEF OkMeansDelivered
    <2>2. PICK c \in Built : /\ batch[c].for = g.for /\ batch[c].stores = g.stores
                             /\ batch[c].ledger = "confirmed"
      BY DEF OkMeansDelivered
    <2>3. b = c  BY <2>1, <2>2 DEF Attempted
    <2>4. f.for = g.for /\ f.stores = g.stores  BY <2>1, <2>2, <2>3
    <2>5. /\ f \in [for : 1..MaxReady, stores : SUBSET Stores]
          /\ g \in [for : 1..MaxReady, stores : SUBSET Stores]
      BY DEF Base, TypeOK
    <2> QED  BY <2>4, <2>5
  <1> QED  BY <1>1, BaseHolds, DeliveredWhenOk, OneBatchTried, PTL
===============================================================================
