----------------------------- MODULE HostProofs -----------------------------
(***************************************************************************)
(* The parts of MCDataplane that change the user's own machine: the files  *)
(* that transfers write and the core, the resolver and the sessions of the *)
(* privileged helper.  Proved for every number of tasks, slots, blocks and *)
(* launches, of connections, sessions and settings, and of crashes.        *)
(***************************************************************************)
EXTENDS DataplaneProofs, FiniteSetTheorems

-----------------------------------------------------------------------------
(* The file transfers.  A task has at most one live launch unless it was   *)
(* resumed over one, so that the part file is what the launches so far     *)
(* have copied, in order, and a copy goes on where it ends.  What follows  *)
(* from the version of the source holds until it changes under a copy,     *)
(* what follows from the destination until the user edits it.              *)
CopyTyped ==
    /\ TR!TypeOK
    /\ part \in [CopyTasks -> Seq(Nat \X Nat)] /\ dest \in [CopyTasks -> Seq(Nat \X Nat)]
    /\ \A t \in CopyTasks, i \in TR!Runs : run[t][i].pc = "none" => run[t][i] = TR!NoRun

(* Nothing has been launched yet.                                          *)
NotLaunched(t) ==
    run[t][1].pc = "none" =>
        /\ \A i \in TR!Runs : run[t][i].pc = "none"
        /\ part[t] = TR!Absent /\ dest[t] \in {TR!Absent, TR!Old}

(* The part file, without a second launch.                                 *)
CopiesInOrder(t) ==
    t \notin overlapped =>
        /\ \A i, j \in TR!Runs : TR!Live(t, i) /\ TR!Live(t, j) => i = j
        /\ Len(part[t]) <= CopyBlocks
        /\ \A n \in 1..Len(part[t]) : part[t][n][1] = n
        /\ \A i \in TR!Runs : run[t][i].pc = "copy" => run[t][i].pos = Len(part[t])
        /\ \A i \in TR!Runs : run[t][i].pc = "final" => Len(part[t]) = CopyBlocks

(* One version of the source, in the part file and at the destination.     *)
OneVersion(t) ==
    t \notin overlapped \cup touched /\ task[t].status # "none" =>
        /\ \A n \in 1..Len(part[t]) : part[t][n] = <<n, task[t].version>>
        /\ \A i \in TR!Runs : run[t][i].pc = "copy" => version = task[t].version
        /\ dest[t] \in {TR!Absent, TR!Old, TR!Whole(task[t].version)}

(* The rename precedes the status, and nothing runs after it.              *)
FileBeforeStatus(t) ==
    t \notin overlapped \cup edited =>
        /\ task[t].status = "completed" =>
             dest[t] \notin {TR!Absent, TR!Old} /\ \A i \in TR!Runs : ~TR!Live(t, i)
        /\ \A i \in TR!Runs : run[t][i].pc = "done" => dest[t] \notin {TR!Absent, TR!Old}

CopyKept(t) == NotLaunched(t) /\ CopiesInOrder(t) /\ OneVersion(t) /\ FileBeforeStatus(t)

TransferInv == CopyTyped /\ \A t \in CopyTasks : CopyKept(t)

LaunchRecord == [pc : TR!InSlot \cup {"none", "launch", "wait", "end"},
                 pos : 0..CopyBlocks, cancelled : BOOLEAN]

Places == TR!InSlot \cup {"launch", "wait", "end"}

LEMMA LaunchFields ==
    ASSUME NEW r \in LaunchRecord, NEW pc \in Places, NEW pos \in 0..CopyBlocks
    PROVE  /\ [r EXCEPT !.cancelled = TRUE] \in LaunchRecord
           /\ [r EXCEPT !.cancelled = TRUE].pc = r.pc /\ [r EXCEPT !.cancelled = TRUE].pos = r.pos
           /\ [r EXCEPT !.pc = pc] \in LaunchRecord /\ [r EXCEPT !.pc = pc].pc = pc
           /\ [r EXCEPT !.pc = pc, !.pos = pos] \in LaunchRecord
           /\ [r EXCEPT !.pc = pc, !.pos = pos].pc = pc /\ [r EXCEPT !.pc = pc, !.pos = pos].pos = pos
           /\ [r EXCEPT !.pos = pos] \in LaunchRecord /\ [r EXCEPT !.pos = pos].pc = r.pc
           /\ [r EXCEPT !.pos = pos].pos = pos
           /\ [r EXCEPT !.pc = pc, !.pos = 0] \in LaunchRecord
           /\ [r EXCEPT !.pc = pc, !.pos = 0].pc = pc
           /\ pc # "none"
<1>1. 0 \in 0..CopyBlocks
  BY CopyNumbers
<1>2. pc # "none" /\ pc \in TR!InSlot \cup {"none", "launch", "wait", "end"}
  BY DEF Places, TR!InSlot
<1>. QED  BY <1>1, <1>2 DEF LaunchRecord

LEMMA FreshLaunch ==
    /\ TR!NoRun \in LaunchRecord /\ TR!NoRun.pc = "none"
    /\ [TR!NoRun EXCEPT !.pc = "end"] \in LaunchRecord
    /\ [TR!NoRun EXCEPT !.pc = "end"].pc = "end"
<1>1. TR!NoRun \in LaunchRecord /\ TR!NoRun.pc = "none"
  BY CopyNumbers DEF LaunchRecord, TR!NoRun
<1>2. "end" \in Places /\ 0 \in 0..CopyBlocks
  BY CopyNumbers DEF Places
<1>. QED  BY <1>1, <1>2, LaunchFields

(* What the state holds about one launch.                                  *)
LEMMA CopyFields ==
    ASSUME CopyTyped
    PROVE  /\ run \in [CopyTasks -> [TR!Runs -> LaunchRecord]]
           /\ \A t \in CopyTasks, i \in TR!Runs :
                run[t][i] \in LaunchRecord /\ run[t][i].pos \in 0..CopyBlocks
           /\ 1 \in TR!Runs
  BY CopyNumbers DEF CopyTyped, TR!TypeOK, TR!Runs, LaunchRecord

(* The launches as the invariant sees them: a cancelled context changes    *)
(* nothing of it.                                                          *)
SameLaunch(t, i) == run'[t][i].pc = run[t][i].pc /\ run'[t][i].pos = run[t][i].pos
LaunchesTyped ==
    /\ run' \in [CopyTasks -> [TR!Runs -> LaunchRecord]]
    /\ \A t \in CopyTasks, i \in TR!Runs : run'[t][i].pc = "none" => run'[t][i] = TR!NoRun

LEMMA CancelMarks ==
    ASSUME CopyTyped, NEW t \in CopyTasks
    PROVE  LET r == TR!CancelRun(run, t) IN
           /\ r \in [CopyTasks -> [TR!Runs -> LaunchRecord]]
           /\ \A u \in CopyTasks, i \in TR!Runs :
                /\ r[u][i].pc = run[u][i].pc /\ r[u][i].pos = run[u][i].pos
                /\ r[u][i].pc = "none" => r[u][i] = TR!NoRun
<1>1. CASE cancels[t] = 0 \/ ~TR!Live(t, cancels[t])
  BY <1>1, CopyFields DEF TR!CancelRun, CopyTyped
<1>2. CASE cancels[t] # 0 /\ TR!Live(t, cancels[t])
  <2> DEFINE c == cancels[t]
             s == [run[t][c] EXCEPT !.cancelled = TRUE]
  <2>0. "end" \in Places /\ 0 \in 0..CopyBlocks
    BY CopyNumbers DEF Places
  <2>1. c \in TR!Runs
    BY <1>2, CopyNumbers DEF CopyTyped, TR!TypeOK, TR!Runs
  <2>2. TR!CancelRun(run, t) = [run EXCEPT ![t][c] = s]
    BY <1>2 DEF TR!CancelRun
  <2>3. s \in LaunchRecord /\ s.pc = run[t][c].pc /\ s.pos = run[t][c].pos /\ s.pc # "none"
    BY <1>2, <2>0, <2>1, CopyFields, LaunchFields DEF TR!Live
  <2>. HIDE DEF c, s
  <2>4. run \in [CopyTasks -> [TR!Runs -> LaunchRecord]]
    BY CopyFields
  <2>5. \A u \in CopyTasks, i \in TR!Runs : run[u][i].pc = "none" => run[u][i] = TR!NoRun
    BY DEF CopyTyped
  <2>. QED  BY <2>1, <2>2, <2>3, <2>4, <2>5
<1>. QED  BY <1>1, <1>2

(* One launch is changed.                                                  *)
PutLaunch(t, i, s) == run' = [run EXCEPT ![t][i] = s]

LEMMA LaunchPut ==
    ASSUME CopyTyped, NEW t \in CopyTasks, NEW i \in TR!Runs,
           NEW s \in LaunchRecord, s.pc # "none", PutLaunch(t, i, s)
    PROVE  /\ LaunchesTyped
           /\ run'[t][i] = s
           /\ \A j \in TR!Runs \ {i} : run'[t][j] = run[t][j]
           /\ \A u \in CopyTasks \ {t} : run'[u] = run[u]
<1>1. run \in [CopyTasks -> [TR!Runs -> LaunchRecord]]
  BY CopyFields
<1>2. \A u \in CopyTasks, j \in TR!Runs : run[u][j].pc = "none" => run[u][j] = TR!NoRun
  BY DEF CopyTyped
<1>. QED  BY <1>1, <1>2 DEF LaunchesTyped, PutLaunch

(* One launch moves to another place.                                      *)
LEMMA LaunchMoves ==
    ASSUME CopyTyped, NEW t \in CopyTasks, NEW i \in TR!Runs,
           NEW pc \in Places, TR!To(t, i, pc)
    PROVE  /\ LaunchesTyped
           /\ run'[t][i].pc = pc
           /\ \A j \in TR!Runs \ {i} : run'[t][j] = run[t][j]
           /\ \A u \in CopyTasks \ {t} : run'[u] = run[u]
<1>3. CASE pc = "end"
  <2> DEFINE s == [TR!NoRun EXCEPT !.pc = "end"]
  <2>1. PutLaunch(t, i, s)
    BY <1>3 DEF TR!To, PutLaunch
  <2>2. s \in LaunchRecord /\ s.pc = pc /\ s.pc # "none"
    BY <1>3, FreshLaunch
  <2>. HIDE DEF s
  <2>. QED  BY <2>1, <2>2, LaunchPut
<1>4. CASE pc # "end"
  <2> DEFINE s == [run[t][i] EXCEPT !.pc = pc, !.pos = 0]
  <2>1. PutLaunch(t, i, s)
    BY <1>4 DEF TR!To, PutLaunch
  <2>2. 0 \in 0..CopyBlocks
    BY CopyNumbers
  <2>4. run[t][i] \in LaunchRecord
    BY CopyFields
  <2>3. s \in LaunchRecord /\ s.pc = pc /\ s.pc # "none"
    BY ZenonT(60), <2>2, <2>4, LaunchFields
  <2>. HIDE DEF s
  <2>. QED  BY <2>1, <2>3, LaunchPut
<1>. QED  BY <1>3, <1>4

(* A task none of whose launches takes hold of a file: they stay where     *)
(* they are, or one that is live goes where it holds nothing.              *)
Loose == {"wait", "mark", "check", "failed", "stale", "end"}
CalmLaunch(t, i) == SameLaunch(t, i) \/ (TR!Live(t, i) /\ run'[t][i].pc \in Loose)
SameFiles(t) ==
    /\ part'[t] = part[t] /\ dest'[t] = dest[t]
    /\ t \in overlapped' <=> t \in overlapped
    /\ t \in touched' <=> t \in touched
    /\ t \in edited' <=> t \in edited

LEMMA CalmKeeps ==
    ASSUME CopyTyped, NEW t \in CopyTasks, CopyKept(t), SameFiles(t), version' = version,
           \A i \in TR!Runs : CalmLaunch(t, i),
           \/ task'[t].status = "none"
           \/ task[t].status # "none" /\ task'[t].version = task[t].version,
           task'[t].status = "completed" => task[t].status = "completed"
    PROVE  CopyKept(t)'
<1>. USE DEF SameFiles, CalmLaunch, SameLaunch, Loose, TR!Live
<1>0. 1 \in TR!Runs
  BY CopyNumbers DEF TR!Runs
<1>1. NotLaunched(t)'
  BY <1>0 DEF CopyKept, NotLaunched, TR!Absent, TR!Old
<1>2. CopiesInOrder(t)'
  BY DEF CopyKept, CopiesInOrder
<1>3. OneVersion(t)'
  BY DEF CopyKept, OneVersion, TR!Absent, TR!Old, TR!Whole
<1>4. FileBeforeStatus(t)'
  BY DEF CopyKept, FileBeforeStatus, TR!Absent, TR!Old
<1>. QED  BY <1>1, <1>2, <1>3, <1>4 DEF CopyKept

TaskRecord ==
    [status : {"none", "queued", "running", "paused", "completed", "failed", "cancelled", "stale"},
     kind : CopyKinds \cup {"none"}, overwrite : BOOLEAN, version : 0..CopyVersions]

LEMMA TaskFields ==
    ASSUME NEW r \in TaskRecord,
           NEW s \in {"queued", "running", "paused", "completed", "failed", "cancelled", "stale"}
    PROVE  /\ [r EXCEPT !.status = s] \in TaskRecord
           /\ [r EXCEPT !.status = s].status = s /\ [r EXCEPT !.status = s].version = r.version
  BY DEF TaskRecord

(* The status of a task is set.                                            *)
PutStatus(t, s) == task' = [task EXCEPT ![t].status = s]

LEMMA StatusPut ==
    ASSUME CopyTyped, NEW t \in CopyTasks,
           NEW s \in {"queued", "running", "paused", "completed", "failed", "cancelled", "stale"},
           PutStatus(t, s)
    PROVE  /\ task' \in [CopyTasks -> TaskRecord]
           /\ task'[t].status = s /\ task'[t].version = task[t].version
           /\ \A u \in CopyTasks \ {t} : task'[u] = task[u]
<1>1. task \in [CopyTasks -> TaskRecord]
  BY DEF CopyTyped, TR!TypeOK, TaskRecord
<1> DEFINE r == [task[t] EXCEPT !.status = s]
<1>2. r \in TaskRecord /\ r.status = s /\ r.version = task[t].version
  BY <1>1, TaskFields
<1>3. task' = [task EXCEPT ![t] = r]
  BY DEF PutStatus
<1>. HIDE DEF r
<1>. QED  BY <1>1, <1>2, <1>3

LEMMA SameCount == \A S : TR!Cardinality(S) = Cardinality(S)
  BY DEF TR!Cardinality, Cardinality, TR!IsFiniteSet, IsFiniteSet

(* Slots are only given back, except by TakeSlot.                          *)
LEMMA BusyShrinks ==
    ASSUME CopyTyped,
           \A u \in CopyTasks, i \in TR!Runs :
               run'[u][i].pc \in TR!InSlot => run[u][i].pc \in TR!InSlot
    PROVE  Cardinality(TR!Busy') <= CopySlots
<1>1. IsFiniteSet(TR!Runs)
  BY CopyNumbers, FS_Interval DEF TR!Runs
<1>2. IsFiniteSet(CopyTasks \X TR!Runs)
  BY <1>1, CopyNumbers, FS_Product
<1>3. IsFiniteSet(TR!Busy)
  BY <1>2, FS_Subset DEF TR!Busy
<1>4. TR!Busy' \subseteq TR!Busy
  BY DEF TR!Busy
<1>5. IsFiniteSet(TR!Busy') /\ Cardinality(TR!Busy') <= Cardinality(TR!Busy)
  BY <1>3, <1>4, FS_Subset
<1>6. Cardinality(TR!Busy) <= CopySlots
  BY SameCount DEF CopyTyped, TR!TypeOK, TR!Busy
<1>7. Cardinality(TR!Busy) \in Nat /\ Cardinality(TR!Busy') \in Nat
  BY <1>3, <1>5, FS_CardinalityType
<1>. QED  BY <1>5, <1>6, <1>7, CopyNumbers

LEMMA SlotTaken ==
    ASSUME CopyTyped, NEW t \in CopyTasks, NEW i \in TR!Runs, TR!Cardinality(TR!Busy) < CopySlots,
           \A u \in CopyTasks, j \in TR!Runs :
               run'[u][j].pc \in TR!InSlot => run[u][j].pc \in TR!InSlot \/ <<u, j>> = <<t, i>>
    PROVE  Cardinality(TR!Busy') <= CopySlots
<1>1. IsFiniteSet(TR!Runs)
  BY CopyNumbers, FS_Interval DEF TR!Runs
<1>2. IsFiniteSet(CopyTasks \X TR!Runs)
  BY <1>1, CopyNumbers, FS_Product
<1>3. IsFiniteSet(TR!Busy)
  BY <1>2, FS_Subset DEF TR!Busy
<1>4. TR!Busy' \subseteq TR!Busy \cup {<<t, i>>}
  BY DEF TR!Busy
<1>5. IsFiniteSet(TR!Busy \cup {<<t, i>>}) /\ Cardinality(TR!Busy \cup {<<t, i>>}) <= Cardinality(TR!Busy) + 1
  <2>0. Cardinality(TR!Busy) \in Nat
    BY <1>3, FS_CardinalityType
  <2>1. CASE <<t, i>> \in TR!Busy
    <3> DEFINE B == TR!Busy
               C == TR!Busy \cup {<<t, i>>}
    <3>1. C = B /\ IsFiniteSet(B) /\ Cardinality(B) \in Nat
      BY <1>3, <2>0, <2>1
    <3>. HIDE DEF B, C
    <3>2. IsFiniteSet(C) /\ Cardinality(C) <= Cardinality(B) + 1
      BY <3>1
    <3>. QED  BY <3>2 DEF B, C
  <2>2. CASE <<t, i>> \notin TR!Busy
    <3> DEFINE B == TR!Busy
               b == <<t, i>>
    <3>1. IsFiniteSet(B) /\ b \notin B
      BY <1>3, <2>2
    <3>. HIDE DEF B, b
    <3>2. IsFiniteSet(B \cup {b}) /\ Cardinality(B \cup {b}) = Cardinality(B) + 1
      BY <3>1, FS_AddElement
    <3>. QED  BY <2>0, <3>2 DEF B, b
  <2>. QED  BY <2>1, <2>2
<1>6. IsFiniteSet(TR!Busy') /\ Cardinality(TR!Busy') <= Cardinality(TR!Busy \cup {<<t, i>>})
  BY <1>4, <1>5, FS_Subset
<1>7. Cardinality(TR!Busy) \in Nat /\ Cardinality(TR!Busy') \in Nat /\ Cardinality(TR!Busy \cup {<<t, i>>}) \in Nat
  BY <1>3, <1>5, <1>6, FS_CardinalityType
<1>8. Cardinality(TR!Busy) < CopySlots
  BY SameCount
<1>. QED  BY <1>5, <1>6, <1>7, <1>8, CopyNumbers

(* The type of the next state, from its parts.                             *)
RestTyped ==
    /\ task' \in [CopyTasks -> TaskRecord] /\ cancels' \in [CopyTasks -> 0..CopyRuns]
    /\ version' \in 1..CopyVersions /\ alive' \in BOOLEAN /\ restarts' \in 0..CopyRestarts
    /\ overlapped' \subseteq CopyTasks /\ touched' \subseteq CopyTasks /\ edited' \subseteq CopyTasks
FilesTyped == part' \in [CopyTasks -> Seq(Nat \X Nat)] /\ dest' \in [CopyTasks -> Seq(Nat \X Nat)]

LEMMA CopyTypes ==
    ASSUME LaunchesTyped, RestTyped, FilesTyped, Cardinality(TR!Busy') <= CopySlots
    PROVE  CopyTyped'
<1>1. TR!TypeOK'
  BY SameCount DEF LaunchesTyped, RestTyped, TR!TypeOK, LaunchRecord, TaskRecord, TR!Busy
<1>. QED  BY <1>1 DEF CopyTyped, LaunchesTyped, FilesTyped

LEMMA TypedNow ==
    ASSUME CopyTyped
    PROVE  /\ task \in [CopyTasks -> TaskRecord] /\ cancels \in [CopyTasks -> 0..CopyRuns]
           /\ run \in [CopyTasks -> [TR!Runs -> LaunchRecord]]
           /\ version \in 1..CopyVersions /\ alive \in BOOLEAN /\ restarts \in 0..CopyRestarts
           /\ overlapped \subseteq CopyTasks /\ touched \subseteq CopyTasks /\ edited \subseteq CopyTasks
           /\ part \in [CopyTasks -> Seq(Nat \X Nat)] /\ dest \in [CopyTasks -> Seq(Nat \X Nat)]
           /\ \A t \in CopyTasks, i \in TR!Runs : run[t][i].pc = "none" => run[t][i] = TR!NoRun
  BY DEF CopyTyped, TR!TypeOK, LaunchRecord, TaskRecord

(* A step that touches no file and moves no launch to where it would.      *)
CalmTask(t) ==
    /\ task'[t].status = "none" \/ (task[t].status # "none" /\ task'[t].version = task[t].version)
    /\ task'[t].status = "completed" => task[t].status = "completed"

LEMMA CalmStep ==
    ASSUME TransferInv, LaunchesTyped, RestTyped, UNCHANGED <<TR!files, TR!history>>,
           \A t \in CopyTasks, i \in TR!Runs : CalmLaunch(t, i),
           \A t \in CopyTasks : CalmTask(t), Cardinality(TR!Busy') <= CopySlots
    PROVE  TransferInv'
<1>1. CopyTyped'
  <2>1. FilesTyped
    BY DEF TransferInv, CopyTyped, FilesTyped, TR!files
  <2>. QED  BY <2>1, CopyTypes
<1>2. ASSUME NEW t \in CopyTasks
      PROVE  CopyKept(t)'
  <2>1. SameFiles(t) /\ version' = version
    BY DEF SameFiles, TR!files, TR!history
  <2>2. CopyTyped /\ CopyKept(t)
    BY DEF TransferInv
  <2>. QED  BY <2>1, <2>2, CalmKeeps DEF CalmTask
<1>. QED  BY <1>1, <1>2 DEF TransferInv

(* The steps that touch no file.                                           *)
CalmMoves(t, i) ==
    \/ TR!TakeSlot(t, i) \/ TR!GiveUp(t, i) \/ TR!MarkRunning(t, i) \/ TR!CheckFails(t, i)
    \/ TR!CopyFails(t, i) \/ TR!Fail(t, i)

LEMMA CalmMovesKeep ==
    ASSUME TransferInv, NEW t \in CopyTasks, NEW i \in TR!Runs, CalmMoves(t, i)
    PROVE  TransferInv'
<1>0. CopyTyped /\ task[t] \in TaskRecord
  BY TypedNow DEF TransferInv
<1>1. UNCHANGED <<TR!files, TR!history, cancels, alive, restarts>>
  BY DEF CalmMoves, TR!TakeSlot, TR!GiveUp, TR!MarkRunning, TR!CheckFails, TR!CopyFails, TR!Fail,
         TR!RunFrame, TR!files, TR!history
<1>2. TR!Live(t, i) /\ run[t][i].pc # "wait" => run[t][i].pc \in TR!InSlot
  BY DEF CalmMoves, TR!Live, TR!InSlot, TR!TakeSlot, TR!GiveUp, TR!MarkRunning, TR!CheckFails,
         TR!CopyFails, TR!Fail
<1>3. \E pc \in Loose \cap Places : TR!To(t, i, pc)
  BY DEF CalmMoves, TR!TakeSlot, TR!GiveUp, TR!MarkRunning, TR!CheckFails, TR!CopyFails, TR!Fail,
         TR!Ends, Loose, Places, TR!InSlot
<1>4. PICK pc \in Loose \cap Places : TR!To(t, i, pc)
  BY <1>3
<1>5. TR!Live(t, i)
  BY DEF CalmMoves, TR!Live, TR!TakeSlot, TR!GiveUp, TR!MarkRunning, TR!CheckFails, TR!CopyFails,
         TR!Fail
<1>6. /\ LaunchesTyped
      /\ run'[t][i].pc = pc
      /\ \A j \in TR!Runs \ {i} : run'[t][j] = run[t][j]
      /\ \A u \in CopyTasks \ {t} : run'[u] = run[u]
  BY <1>0, <1>4, LaunchMoves
<1>7. \A u \in CopyTasks, j \in TR!Runs : CalmLaunch(u, j)
  BY <1>4, <1>5, <1>6 DEF CalmLaunch, SameLaunch
<1>8. task' \in [CopyTasks -> TaskRecord] /\ \A u \in CopyTasks : CalmTask(u)
  <2>1. CASE task' = task
    BY <1>0, <2>1, TypedNow DEF CalmTask
  <2>2. CASE \E s \in {"running", "failed", "stale"} : PutStatus(t, s) /\ task[t].status # "none"
    <3>1. PICK s \in {"running", "failed", "stale"} : PutStatus(t, s) /\ task[t].status # "none"
      BY <2>2
    <3>2. /\ task' \in [CopyTasks -> TaskRecord]
          /\ task'[t].status = s /\ task'[t].version = task[t].version
          /\ \A u \in CopyTasks \ {t} : task'[u] = task[u]
      BY <1>0, <3>1, StatusPut
    <3>. QED  BY <3>1, <3>2 DEF CalmTask
  <2>3. task' = task \/ \E s \in {"running", "failed", "stale"} : PutStatus(t, s) /\ task[t].status # "none"
    BY DEF CalmMoves, TR!TakeSlot, TR!GiveUp, TR!MarkRunning, TR!CheckFails, TR!CopyFails, TR!Fail,
           PutStatus
  <2>. QED  BY <2>1, <2>2, <2>3
<1>9. Cardinality(TR!Busy') <= CopySlots
  <2>1. CASE TR!TakeSlot(t, i)
    <3>1. TR!Cardinality(TR!Busy) < CopySlots
      BY <2>1 DEF TR!TakeSlot
    <3>2. \A u \in CopyTasks, j \in TR!Runs :
             run'[u][j].pc \in TR!InSlot => run[u][j].pc \in TR!InSlot \/ <<u, j>> = <<t, i>>
      BY <1>6
    <3>. QED  BY <1>0, <3>1, <3>2, SlotTaken
  <2>2. CASE ~TR!TakeSlot(t, i)
    <3>1. run[t][i].pc \in TR!InSlot \/ (TR!To(t, i, "end"))
      BY <1>2, <1>5, <2>2 DEF CalmMoves, TR!GiveUp, TR!MarkRunning, TR!CheckFails, TR!CopyFails, TR!Fail
    <3>2. "end" \in Places /\ "end" \notin TR!InSlot
      BY DEF Places, TR!InSlot
    <3>3. run[t][i].pc \in TR!InSlot \/ run'[t][i].pc \notin TR!InSlot
      BY <1>0, <3>1, <3>2, LaunchMoves
    <3>4. \A u \in CopyTasks, j \in TR!Runs :
             run'[u][j].pc \in TR!InSlot => run[u][j].pc \in TR!InSlot
      BY <1>6, <3>3
    <3>. QED  BY <1>0, <3>4, BusyShrinks
  <2>. QED  BY <2>1, <2>2
<1>10. RestTyped
  BY <1>0, <1>1, <1>8, TypedNow DEF RestTyped, TR!files, TR!history
<1>. QED  BY <1>1, <1>6, <1>7, <1>8, <1>9, <1>10, CalmStep

(* The calls that cancel launches.                                         *)
CalmCalls ==
    \/ TR!ClearHistory \/ TR!Shutdown \/ TR!Restart
    \/ \E t \in CopyTasks : \E s \in {"paused", "cancelled"} : TR!Stop(t, s)
    \/ \E t \in CopyTasks : \E i \in TR!Runs : TR!Launch(t, i)

LEMMA CalmCallsKeep ==
    ASSUME TransferInv, CalmCalls
    PROVE  TransferInv'
<1>0. CopyTyped
  BY DEF TransferInv
<1>1. UNCHANGED <<TR!files, TR!history>>
  BY DEF CalmCalls, TR!ClearHistory, TR!Shutdown, TR!Restart, TR!Stop, TR!Launch, TR!files, TR!history
<1>2. SUFFICES /\ LaunchesTyped /\ RestTyped
               /\ \A u \in CopyTasks, j \in TR!Runs : CalmLaunch(u, j)
               /\ \A u \in CopyTasks : CalmTask(u)
               /\ \A u \in CopyTasks, j \in TR!Runs :
                    run'[u][j].pc \in TR!InSlot => run[u][j].pc \in TR!InSlot
  BY <1>0, <1>1, BusyShrinks, CalmStep
<1>. USE TypedNow, CopyFields
<1>3. CASE TR!ClearHistory
  <2>1. run' = run /\ UNCHANGED <<cancels, alive, restarts>>
    BY <1>3 DEF TR!ClearHistory
  <2>2. TR!NoTask \in TaskRecord /\ TR!NoTask.status = "none"
    BY CopyNumbers DEF TR!NoTask, TaskRecord
  <2>3. task' \in [CopyTasks -> TaskRecord] /\ \A u \in CopyTasks : task'[u] \in {task[u], TR!NoTask}
    BY <1>0, <1>3, <2>2 DEF TR!ClearHistory
  <2>4. LaunchesTyped
    BY <1>0, <2>1 DEF LaunchesTyped
  <2>5. RestTyped
    BY <1>0, <1>1, <2>1, <2>3 DEF RestTyped, TR!files, TR!history
  <2>6. \A u \in CopyTasks : CalmTask(u)
    BY <2>2, <2>3 DEF CalmTask
  <2>. QED  BY <2>1, <2>4, <2>5, <2>6 DEF CalmLaunch, SameLaunch
<1>4. CASE TR!Shutdown
  <2>1. UNCHANGED <<cancels, restarts>> /\ alive' = FALSE
    BY <1>4 DEF TR!Shutdown
  <2>2. ASSUME NEW u \in CopyTasks
        PROVE  /\ run'[u] \in [TR!Runs -> LaunchRecord]
               /\ \A j \in TR!Runs : /\ SameLaunch(u, j)
                                     /\ run'[u][j].pc = "none" => run'[u][j] = TR!NoRun
    <3>1. run'[u] = TR!CancelRun(run, u)[u]
      BY <1>4 DEF TR!Shutdown
    <3>. QED  BY <1>0, <3>1, CancelMarks DEF SameLaunch
  <2>3. run' = [u \in CopyTasks |-> run'[u]]
    BY <1>4 DEF TR!Shutdown
  <2>4. LaunchesTyped
    BY <2>2, <2>3 DEF LaunchesTyped
  <2>5. ASSUME NEW u \in CopyTasks
        PROVE  task'[u] \in TaskRecord /\ CalmTask(u)
    <3>1. CASE cancels[u] # 0 /\ task[u].status = "running"
      <4> DEFINE r == [task[u] EXCEPT !.status = "paused"]
      <4>1. task'[u] = r
        BY <1>4, <3>1 DEF TR!Shutdown
      <4>2. r \in TaskRecord /\ r.status = "paused" /\ r.version = task[u].version
        BY <1>0, TaskFields
      <4>. HIDE DEF r
      <4>. QED  BY <3>1, <4>1, <4>2 DEF CalmTask
    <3>2. CASE ~(cancels[u] # 0 /\ task[u].status = "running")
      <4>1. task'[u] = task[u]
        BY <1>4, <3>2 DEF TR!Shutdown
      <4>. QED  BY <1>0, <4>1 DEF CalmTask
    <3>. QED  BY <3>1, <3>2
  <2>6. task' = [u \in CopyTasks |-> task'[u]]
    BY <1>4 DEF TR!Shutdown
  <2>7. RestTyped
    BY <1>0, <1>1, <2>1, <2>5, <2>6 DEF RestTyped, TR!files, TR!history
  <2>. QED  BY <2>2, <2>4, <2>5, <2>7 DEF CalmLaunch, SameLaunch
<1>5. CASE TR!Restart
  <2>1. restarts' \in 0..CopyRestarts /\ alive' = TRUE /\ cancels' = [u \in CopyTasks |-> 0]
    BY <1>0, <1>5, CopyNumbers DEF TR!Restart
  <2>2. ASSUME NEW u \in CopyTasks, NEW j \in TR!Runs
        PROVE  /\ run'[u][j] \in LaunchRecord /\ CalmLaunch(u, j)
               /\ run'[u][j].pc = "none" => run'[u][j] = TR!NoRun
               /\ run'[u][j].pc \in TR!InSlot => run[u][j].pc \in TR!InSlot
    <3> DEFINE e == [TR!NoRun EXCEPT !.pc = "end"]
    <3>1. run'[u][j] = IF TR!Live(u, j) THEN e ELSE run[u][j]
      BY <1>5 DEF TR!Restart
    <3>2. e \in LaunchRecord /\ e.pc = "end" /\ e.pc \notin TR!InSlot
      BY FreshLaunch DEF TR!InSlot
    <3>. HIDE DEF e
    <3>. QED  BY <1>0, <3>1, <3>2 DEF CalmLaunch, SameLaunch, Loose
  <2>3. run' = [u \in CopyTasks |-> [j \in TR!Runs |-> run'[u][j]]]
    BY <1>5 DEF TR!Restart
  <2>4. LaunchesTyped
    BY <2>2, <2>3 DEF LaunchesTyped
  <2>5. ASSUME NEW u \in CopyTasks
        PROVE  task'[u] \in TaskRecord /\ CalmTask(u)
    <3>1. CASE task[u].status \in {"running", "queued"}
      <4> DEFINE r == [task[u] EXCEPT !.status = "paused"]
      <4>1. task'[u] = r
        BY <1>5, <3>1 DEF TR!Restart
      <4>2. r \in TaskRecord /\ r.status = "paused" /\ r.version = task[u].version
        BY <1>0, TaskFields
      <4>. HIDE DEF r
      <4>. QED  BY <3>1, <4>1, <4>2 DEF CalmTask
    <3>2. CASE task[u].status \notin {"running", "queued"}
      <4>1. task'[u] = task[u]
        BY <1>5, <3>2 DEF TR!Restart
      <4>. QED  BY <1>0, <4>1 DEF CalmTask
    <3>. QED  BY <3>1, <3>2
  <2>6. task' = [u \in CopyTasks |-> task'[u]]
    BY <1>5 DEF TR!Restart
  <2>7. cancels' \in [CopyTasks -> 0..CopyRuns]
    BY <2>1, CopyNumbers
  <2>8. RestTyped
    BY <1>0, <1>1, <2>1, <2>5, <2>6, <2>7 DEF RestTyped, TR!files, TR!history
  <2>. QED  BY <2>2, <2>4, <2>5, <2>8
<1>6. ASSUME NEW t \in CopyTasks, NEW s \in {"paused", "cancelled"}, TR!Stop(t, s)
      PROVE  /\ LaunchesTyped /\ RestTyped
             /\ \A u \in CopyTasks, j \in TR!Runs : CalmLaunch(u, j)
             /\ \A u \in CopyTasks : CalmTask(u)
             /\ \A u \in CopyTasks, j \in TR!Runs :
                  run'[u][j].pc \in TR!InSlot => run[u][j].pc \in TR!InSlot
  <2>1. /\ PutStatus(t, s) /\ task[t].status # "none" /\ run' = TR!CancelRun(run, t)
        /\ UNCHANGED <<cancels, alive, restarts>>
    BY <1>6 DEF TR!Stop, PutStatus
  <2>2. LaunchesTyped /\ \A u \in CopyTasks, j \in TR!Runs : SameLaunch(u, j)
    BY <1>0, <2>1, CancelMarks DEF LaunchesTyped, SameLaunch
  <2>3. /\ task' \in [CopyTasks -> TaskRecord]
        /\ task'[t].status = s /\ task'[t].version = task[t].version
        /\ \A u \in CopyTasks \ {t} : task'[u] = task[u]
    BY <1>0, <2>1, StatusPut
  <2>4. RestTyped
    BY <1>0, <1>1, <2>1, <2>3 DEF RestTyped, TR!files, TR!history
  <2>5. \A u \in CopyTasks : CalmTask(u)
    BY <2>1, <2>3 DEF CalmTask
  <2>. QED  BY <2>2, <2>4, <2>5 DEF CalmLaunch, SameLaunch
<1>7. ASSUME NEW t \in CopyTasks, NEW i \in TR!Runs, TR!Launch(t, i)
      PROVE  /\ LaunchesTyped /\ RestTyped
             /\ \A u \in CopyTasks, j \in TR!Runs : CalmLaunch(u, j)
             /\ \A u \in CopyTasks : CalmTask(u)
             /\ \A u \in CopyTasks, j \in TR!Runs :
                  run'[u][j].pc \in TR!InSlot => run[u][j].pc \in TR!InSlot
  <2> DEFINE c == TR!CancelRun(run, t)
             w == [c[t][i] EXCEPT !.pc = "wait"]
  <2>1. /\ run[t][i].pc = "launch" /\ run' = [c EXCEPT ![t][i] = w]
        /\ cancels' = [cancels EXCEPT ![t] = i] /\ UNCHANGED <<task, alive, restarts>>
    BY <1>7 DEF TR!Launch
  <2>2. /\ c \in [CopyTasks -> [TR!Runs -> LaunchRecord]]
        /\ \A u \in CopyTasks, j \in TR!Runs :
             /\ c[u][j].pc = run[u][j].pc /\ c[u][j].pos = run[u][j].pos
             /\ c[u][j].pc = "none" => c[u][j] = TR!NoRun
    BY <1>0, CancelMarks
  <2>. HIDE DEF c
  <2>3. "wait" \in Places /\ 0 \in 0..CopyBlocks /\ "wait" \notin TR!InSlot
    BY CopyNumbers DEF Places, TR!InSlot
  <2> DEFINE d == c[t][i]
  <2>13. d \in LaunchRecord
    BY <2>2
  <2>. HIDE DEF d
  <2>14. [d EXCEPT !.pc = "wait"] \in LaunchRecord /\ [d EXCEPT !.pc = "wait"].pc = "wait"
    BY <2>3, <2>13 DEF LaunchRecord
  <2>4. w \in LaunchRecord /\ w.pc = "wait"
    BY <2>14 DEF d
  <2>. HIDE DEF w
  <2>5. LaunchesTyped
    BY <2>1, <2>2, <2>4 DEF LaunchesTyped
  <2>6. \A u \in CopyTasks, j \in TR!Runs : <<u, j>> # <<t, i>> => SameLaunch(u, j)
    BY <2>1, <2>2 DEF SameLaunch
  <2>7. TR!Live(t, i) /\ run'[t][i].pc = "wait"
    BY <2>1, <2>2, <2>4 DEF TR!Live
  <2>8. cancels' \in [CopyTasks -> 0..CopyRuns]
    BY <1>0, <2>1 DEF TR!Runs
  <2>9. RestTyped
    BY <1>0, <1>1, <2>1, <2>8 DEF RestTyped, TR!files, TR!history
  <2>10. \A u \in CopyTasks, j \in TR!Runs : CalmLaunch(u, j)
    BY <2>6, <2>7 DEF CalmLaunch, Loose
  <2>11. \A u \in CopyTasks : CalmTask(u)
    BY <2>1 DEF CalmTask
  <2>12. \A u \in CopyTasks, j \in TR!Runs :
            run'[u][j].pc \in TR!InSlot => run[u][j].pc \in TR!InSlot
    BY <2>3, <2>6, <2>7 DEF SameLaunch
  <2>. QED  BY <2>5, <2>9, <2>10, <2>11, <2>12
<1>. QED  BY <1>3, <1>4, <1>5, <1>6, <1>7 DEF CalmCalls

(* The other tasks, when one launch of a task does something to its file.  *)
LEMMA OthersKept ==
    ASSUME TransferInv, NEW t \in CopyTasks, NEW u \in CopyTasks, u # t,
           run'[u] = run[u], task'[u] = task[u], SameFiles(u), version' = version
    PROVE  CopyKept(u)'
<1>1. \A i \in TR!Runs : CalmLaunch(u, i)
  BY DEF CalmLaunch, SameLaunch
<1>2. CopyTyped /\ CopyKept(u)
  BY DEF TransferInv
<1>3. task'[u].status = "none" \/ (task[u].status # "none" /\ task'[u].version = task[u].version)
  OBVIOUS
<1>. QED  BY <1>1, <1>2, <1>3, CalmKeeps

(* The shape of such a step: one launch moves, slots are not taken.        *)
OneMoves(t, i, pc) ==
    /\ LaunchesTyped
    /\ run'[t][i].pc = pc /\ (pc \in TR!InSlot => run[t][i].pc \in TR!InSlot)
    /\ \A j \in TR!Runs \ {i} : run'[t][j] = run[t][j]
    /\ \A u \in CopyTasks \ {t} : run'[u] = run[u] /\ task'[u] = task[u] /\ SameFiles(u)

LEMMA OneMovesKeeps ==
    ASSUME TransferInv, NEW t \in CopyTasks, NEW i \in TR!Runs, NEW pc, OneMoves(t, i, pc),
           RestTyped, FilesTyped, version' = version, CopyKept(t)'
    PROVE  TransferInv'
<1>1. \A u \in CopyTasks : CopyKept(u)'
  BY OthersKept DEF OneMoves
<1>2. \A u \in CopyTasks, j \in TR!Runs : run'[u][j].pc \in TR!InSlot => run[u][j].pc \in TR!InSlot
  BY DEF OneMoves
<1>3. CopyTyped'
  BY <1>2, BusyShrinks, CopyTypes DEF TransferInv, OneMoves
<1>. QED  BY <1>1, <1>3 DEF TransferInv

(* Begin: the copy starts over, or where the part file ends.               *)
LEMMA BeginKeeps ==
    ASSUME TransferInv, NEW t \in CopyTasks, NEW i \in TR!Runs, TR!Begin(t, i)
    PROVE  TransferInv'
<1>0. CopyTyped /\ CopyKept(t)
  BY DEF TransferInv
<1>. USE TypedNow, CopyFields
<1>1. PICK pos \in TR!From(t) :
         /\ part' = [part EXCEPT ![t] = IF pos = 0 THEN TR!Absent ELSE @]
         /\ run' = [run EXCEPT ![t][i].pc = "copy", ![t][i].pos = pos]
  BY DEF TR!Begin
<1>2. part[t] \in Seq(Nat \X Nat) /\ Len(part[t]) \in Nat
  BY <1>0
<1>3. pos \in {TR!Offset(t), 0}
  BY <1>1 DEF TR!From, TR!DownloadFrom, TR!UploadFrom, TR!DirectoryFrom
<1>4. pos \in 0..CopyBlocks /\ (pos = Len(part[t]) \/ pos = 0)
  BY <1>2, <1>3, CopyNumbers DEF TR!Offset
<1> DEFINE s == [run[t][i] EXCEPT !.pc = "copy", !.pos = pos]
<1>5. PutLaunch(t, i, s)
  BY <1>0, <1>1 DEF PutLaunch
<1>6. "copy" \in Places
  BY DEF Places, TR!InSlot
<1>7. run[t][i] \in LaunchRecord
  BY <1>0
<1>8. s \in LaunchRecord /\ s.pc = "copy" /\ s.pos = pos
  <2> DEFINE d == run[t][i]
  <2>1. d \in LaunchRecord
    BY <1>7
  <2>. HIDE DEF d
  <2>2. LET e == [d EXCEPT !.pc = "copy", !.pos = pos]
        IN  e \in LaunchRecord /\ e.pc = "copy" /\ e.pos = pos
    BY <1>4, <2>1 DEF LaunchRecord, TR!InSlot
  <2>. QED  BY <2>2 DEF d
<1>. HIDE DEF s
<1>9. /\ LaunchesTyped /\ run'[t][i] = s
      /\ \A j \in TR!Runs \ {i} : run'[t][j] = run[t][j]
      /\ \A u \in CopyTasks \ {t} : run'[u] = run[u]
  BY <1>0, <1>5, <1>8, LaunchPut
<1>10. /\ run[t][i].pc = "check" /\ version = task[t].version
       /\ UNCHANGED <<cancels, version, alive, restarts, overlapped, touched, edited, task, dest>>
  BY DEF TR!Begin, TR!Unchanged, TR!RunFrame, TR!history
<1>11. part'[t] = (IF pos = 0 THEN <<>> ELSE part[t]) /\ \A u \in CopyTasks \ {t} : part'[u] = part[u]
  BY <1>0, <1>1 DEF TR!Absent
<1>12. OneMoves(t, i, "copy")
  BY <1>8, <1>9, <1>10, <1>11 DEF OneMoves, SameFiles, TR!InSlot
<1>13. RestTyped
  BY <1>0, <1>10 DEF RestTyped
<1>14. FilesTyped
  <2>1. part' \in [CopyTasks -> Seq(Nat \X Nat)]
    BY <1>0, <1>1 DEF TR!Absent
  <2>. QED  BY <1>0, <1>10, <2>1 DEF FilesTyped
<1>15. CopyKept(t)'
  <2>. USE DEF TR!Live
  <2>0. \A j \in TR!Runs : run'[t][j].pc \notin {"none", "end"} => run[t][j].pc \notin {"none", "end"}
    BY <1>8, <1>9, <1>10
  <2>1. NotLaunched(t)'
    BY <1>0, <1>8, <1>9, <1>10 DEF CopyKept, NotLaunched
  <2>2. CopiesInOrder(t)'
    <3>1. CASE t \in overlapped
      BY <1>10, <3>1 DEF CopiesInOrder
    <3>2. CASE t \notin overlapped
      <4>1. \A j \in TR!Runs \ {i} : run[t][j].pc \in {"none", "end"}
        BY <1>0, <1>10, <3>2 DEF CopyKept, CopiesInOrder
      <4>2. Len(part'[t]) = pos /\ Len(part'[t]) <= CopyBlocks
        BY <1>2, <1>4, <1>11
      <4>3. \A n \in 1..Len(part'[t]) : part'[t][n][1] = n
        BY <1>0, <1>2, <1>11, <3>2 DEF CopyKept, CopiesInOrder
      <4>4. \A j \in TR!Runs : run'[t][j].pc = "copy" => run'[t][j].pos = Len(part'[t])
        BY <1>8, <1>9, <4>1, <4>2
      <4>5. \A j \in TR!Runs : run'[t][j].pc # "final"
        BY <1>8, <1>9, <4>1
      <4>6. \A j, k \in TR!Runs : TR!Live(t, j)' /\ TR!Live(t, k)' => j = k
        BY <1>9, <4>1
      <4>. QED  BY <4>2, <4>3, <4>4, <4>5, <4>6 DEF CopiesInOrder
    <3>. QED  BY <3>1, <3>2
  <2>3. OneVersion(t)'
    <3>1. t \notin overlapped \cup touched /\ task[t].status # "none" =>
             \A n \in 1..Len(part'[t]) : part'[t][n] = <<n, task[t].version>>
      BY SMTT(30), <1>0, <1>2, <1>11 DEF CopyKept, OneVersion
    <3>. QED  BY <1>0, <1>10, <3>1 DEF CopyKept, OneVersion, TR!Absent, TR!Old, TR!Whole
  <2>4. FileBeforeStatus(t)'
    BY <1>0, <1>8, <1>9, <1>10, <2>0 DEF CopyKept, FileBeforeStatus, TR!Absent, TR!Old
  <2>. QED  BY <2>1, <2>2, <2>3, <2>4 DEF CopyKept
<1>. QED  BY <1>10, <1>12, <1>13, <1>14, <1>15, OneMovesKeeps

LEMMA NumberedIsSeq ==
    ASSUME NEW S, NEW n \in Nat, NEW f \in [1..n -> S]
    PROVE  f \in Seq(S) /\ Len(f) = n
  BY DEF Seq

(* CopyBlock: the block after the last one, when nobody else copies.       *)
LEMMA CopyBlockKeeps ==
    ASSUME TransferInv, NEW t \in CopyTasks, NEW i \in TR!Runs, TR!CopyBlock(t, i)
    PROVE  TransferInv'
<1>0. CopyTyped /\ CopyKept(t)
  BY DEF TransferInv
<1>. USE TypedNow, CopyFields
<1> DEFINE p == part[t]
           pos == run[t][i].pos
           at == IF task[t].kind = "download" /\ pos < Len(p) THEN pos + 1 ELSE Len(p) + 1
           q == [n \in 1..Len(p) \cup {at} |-> IF n = at THEN TR!Block(pos + 1) ELSE p[n]]
           s == [run[t][i] EXCEPT !.pos = pos + 1]
<1>1. /\ run[t][i].pc = "copy" /\ pos < CopyBlocks
      /\ part' = [part EXCEPT ![t] = q] /\ PutLaunch(t, i, s)
      /\ UNCHANGED <<cancels, version, alive, restarts, overlapped, touched, edited, task, dest>>
  BY DEF TR!CopyBlock, TR!RunFrame, TR!history, PutLaunch
<1>2. p \in Seq(Nat \X Nat) /\ Len(p) \in Nat /\ pos \in 0..CopyBlocks /\ pos + 1 \in 0..CopyBlocks
  BY <1>0, <1>1, CopyNumbers
<1>3. at \in 1..(Len(p) + 1) /\ (pos = Len(p) => at = Len(p) + 1)
  BY <1>2
<1>4. TR!Block(pos + 1) = <<pos + 1, version>> /\ <<pos + 1, version>> \in Nat \X Nat
  BY <1>0, <1>2 DEF TR!Block
<1>5. \/ at = Len(p) + 1 /\ 1..Len(p) \cup {at} = 1..(Len(p) + 1)
      \/ at \in 1..Len(p) /\ 1..Len(p) \cup {at} = 1..Len(p)
  BY SMTT(30), <1>2, <1>3
<1>. HIDE DEF at, p
<1>6. q \in Seq(Nat \X Nat) /\ (at = Len(p) + 1 => Len(q) = Len(p) + 1)
  <2>1. CASE at = Len(p) + 1 /\ 1..Len(p) \cup {at} = 1..(Len(p) + 1)
    <3>1. q \in [1..(Len(p) + 1) -> Nat \X Nat]
      BY <1>2, <1>4, <2>1
    <3>2. Len(p) + 1 \in Nat
      BY <1>2
    <3>. HIDE DEF q
    <3>. QED  BY <3>1, <3>2, NumberedIsSeq
  <2>2. CASE at \in 1..Len(p) /\ 1..Len(p) \cup {at} = 1..Len(p)
    <3>0. \A n \in 1..Len(p) : p[n] \in Nat \X Nat
      BY <1>2
    <3>1. q \in [1..Len(p) -> Nat \X Nat]
      BY <1>4, <2>2, <3>0
    <3>2. at # Len(p) + 1
      BY <1>2, <2>2
    <3>. HIDE DEF q
    <3>. QED  BY <1>2, <3>1, <3>2, NumberedIsSeq
  <2>. QED  BY <1>5, <2>1, <2>2
<1>7. at = Len(p) + 1 => q[Len(p) + 1] = <<pos + 1, version>> /\ \A n \in 1..Len(p) : q[n] = p[n]
  BY <1>2, <1>4
<1>. HIDE DEF q
<1>8. s \in LaunchRecord /\ s.pc = "copy" /\ s.pos = pos + 1
  <2> DEFINE d == run[t][i]
             k == pos + 1
  <2>1. d \in LaunchRecord /\ d.pc = "copy" /\ k \in 0..CopyBlocks /\ "copy" \in Places
    BY <1>0, <1>1, <1>2 DEF Places, TR!InSlot
  <2>. HIDE DEF d, k
  <2>2. LET e == [d EXCEPT !.pos = k] IN e \in LaunchRecord /\ e.pc = "copy" /\ e.pos = k
    BY <2>1 DEF LaunchRecord, TR!InSlot
  <2>. QED  BY <2>2 DEF d, k
<1>. HIDE DEF s
<1>9. /\ LaunchesTyped /\ run'[t][i] = s
      /\ \A j \in TR!Runs \ {i} : run'[t][j] = run[t][j]
      /\ \A u \in CopyTasks \ {t} : run'[u] = run[u]
  BY <1>0, <1>1, <1>8, LaunchPut
<1>11. part'[t] = q /\ \A u \in CopyTasks \ {t} : part'[u] = part[u]
  BY <1>0, <1>1
<1>12. OneMoves(t, i, "copy")
  BY <1>1, <1>8, <1>9, <1>11 DEF OneMoves, SameFiles, TR!InSlot
<1>13. RestTyped
  BY <1>0, <1>1 DEF RestTyped
<1>14. FilesTyped
  <2>1. part' \in [CopyTasks -> Seq(Nat \X Nat)]
    BY <1>0, <1>1, <1>6
  <2>. QED  BY <1>0, <1>1, <2>1 DEF FilesTyped
<1>15. CopyKept(t)'
  <2>0. \A j \in TR!Runs : run'[t][j].pc = run[t][j].pc
    BY <1>1, <1>8, <1>9
  <2>1. NotLaunched(t)'
    BY <1>0, <1>1, <2>0 DEF CopyKept, NotLaunched
  <2>. HIDE DEF pos
  <2>2. t \notin overlapped => /\ pos = Len(p) /\ at = Len(p) + 1 /\ Len(q) = Len(p) + 1
                               /\ Len(p) < CopyBlocks
    BY <1>0, <1>1, <1>3, <1>6 DEF CopyKept, CopiesInOrder, pos, p
  <2>3. CopiesInOrder(t)'
    <3>1. CASE t \in overlapped
      BY <1>1, <3>1 DEF CopiesInOrder
    <3>2. CASE t \notin overlapped
      <4>1. \A j \in TR!Runs \ {i} : run[t][j].pc \in {"none", "end"}
        BY <1>0, <1>1, <3>2 DEF CopyKept, CopiesInOrder, TR!Live
      <4>2. Len(part'[t]) = pos + 1 /\ Len(part'[t]) <= CopyBlocks
        BY <1>2, <1>11, <2>2, <3>2, CopyNumbers
      <4>3. \A n \in 1..Len(part'[t]) : part'[t][n][1] = n
        <5>1. \A n \in 1..Len(p) : p[n][1] = n
          BY <1>0, <3>2 DEF CopyKept, CopiesInOrder, p
        <5>2. q[Len(p) + 1][1] = Len(p) + 1
          BY <1>7, <2>2, <3>2
        <5>3. \A n \in 1..(Len(p) + 1) : n = Len(p) + 1 \/ n \in 1..Len(p)
          BY <1>2
        <5>. QED  BY <1>7, <1>11, <2>2, <3>2, <5>1, <5>2, <5>3
      <4>4. \A j \in TR!Runs : run'[t][j].pc = "copy" => run'[t][j].pos = Len(part'[t])
        BY <1>8, <1>9, <4>1, <4>2
      <4>5. \A j \in TR!Runs : run'[t][j].pc # "final"
        BY <1>8, <1>9, <4>1
      <4>6. \A j, k \in TR!Runs : TR!Live(t, j)' /\ TR!Live(t, k)' => j = k
        BY <2>0, <4>1 DEF TR!Live
      <4>. QED  BY <4>2, <4>3, <4>4, <4>5, <4>6 DEF CopiesInOrder
    <3>. QED  BY <3>1, <3>2
  <2>4. OneVersion(t)'
    <3>1. ASSUME t \notin overlapped \cup touched, task[t].status # "none"
          PROVE  \A n \in 1..Len(part'[t]) : part'[t][n] = <<n, task[t].version>>
      <4>1. version = task[t].version /\ \A n \in 1..Len(p) : p[n] = <<n, task[t].version>>
        BY <1>0, <1>1, <3>1 DEF CopyKept, OneVersion, p
      <4>2. q[Len(p) + 1] = <<Len(p) + 1, task[t].version>>
        BY <1>7, <2>2, <3>1, <4>1
      <4>3. \A n \in 1..(Len(p) + 1) : n = Len(p) + 1 \/ n \in 1..Len(p)
        BY <1>2
      <4>. QED  BY <1>7, <1>11, <2>2, <3>1, <4>1, <4>2, <4>3
    <3>. QED  BY <1>0, <1>1, <2>0, <3>1 DEF CopyKept, OneVersion, TR!Absent, TR!Old, TR!Whole
  <2>5. FileBeforeStatus(t)'
    BY <1>0, <1>1, <2>0 DEF CopyKept, FileBeforeStatus, TR!Absent, TR!Old, TR!Live
  <2>. QED  BY <2>1, <2>3, <2>4, <2>5 DEF CopyKept
<1>. QED  BY <1>1, <1>12, <1>13, <1>14, <1>15, OneMovesKeeps

(* CopyDone: the part file is whole.                                       *)
LEMMA CopyDoneKeeps ==
    ASSUME TransferInv, NEW t \in CopyTasks, NEW i \in TR!Runs, TR!CopyDone(t, i)
    PROVE  TransferInv'
<1>0. CopyTyped /\ CopyKept(t)
  BY DEF TransferInv
<1>. USE TypedNow, CopyFields
<1>1. /\ run[t][i].pc = "copy" /\ run[t][i].pos = CopyBlocks /\ TR!To(t, i, "final")
      /\ UNCHANGED <<cancels, version, alive, restarts, overlapped, touched, edited, task, part, dest>>
  BY DEF TR!CopyDone, TR!RunFrame, TR!history
<1>2. "final" \in Places
  BY DEF Places, TR!InSlot
<1>3. /\ LaunchesTyped /\ run'[t][i].pc = "final"
      /\ \A j \in TR!Runs \ {i} : run'[t][j] = run[t][j]
      /\ \A u \in CopyTasks \ {t} : run'[u] = run[u]
  BY <1>0, <1>1, <1>2, LaunchMoves
<1>4. OneMoves(t, i, "final")
  BY <1>1, <1>3 DEF OneMoves, SameFiles, TR!InSlot
<1>5. RestTyped /\ FilesTyped
  BY <1>0, <1>1 DEF RestTyped, FilesTyped
<1>6. CopyKept(t)'
  <2>1. NotLaunched(t)'
    BY <1>0, <1>1, <1>3 DEF CopyKept, NotLaunched
  <2>2. CopiesInOrder(t)'
    BY <1>0, <1>1, <1>3 DEF CopyKept, CopiesInOrder, TR!Live
  <2>3. OneVersion(t)'
    BY <1>0, <1>1, <1>3 DEF CopyKept, OneVersion, TR!Absent, TR!Old, TR!Whole
  <2>4. FileBeforeStatus(t)'
    BY <1>0, <1>1, <1>3 DEF CopyKept, FileBeforeStatus, TR!Absent, TR!Old, TR!Live
  <2>. QED  BY <2>1, <2>2, <2>3, <2>4 DEF CopyKept
<1>. QED  BY <1>1, <1>4, <1>5, <1>6, OneMovesKeeps

(* The rename puts the whole part file at the destination.                 *)
Renamed(t) ==
    /\ part[t] # TR!Absent
    /\ dest' = [dest EXCEPT ![t] = part[t]] /\ part' = [part EXCEPT ![t] = TR!Absent]

(* Finalize and FinalizeFails: the launch leaves "final", with the file in *)
(* place, or with a failure and whatever became of it.                     *)
Finals(t, i, pc) ==
    /\ run[t][i].pc = "final" /\ TR!To(t, i, pc)
    /\ \/ pc = "done" /\ Renamed(t)
       \/ pc \in {"end", "failed"} /\ \/ UNCHANGED <<part, dest>>
                                      \/ UNCHANGED part /\ dest' = [dest EXCEPT ![t] = TR!Absent]
                                      \/ Renamed(t)
    /\ UNCHANGED <<cancels, version, alive, restarts, overlapped, touched, edited, task>>

LEMMA FinalsAre ==
    ASSUME NEW t \in CopyTasks, NEW i \in TR!Runs, TR!Finalize(t, i) \/ TR!FinalizeFails(t, i)
    PROVE  \E pc \in {"done", "end", "failed"} : Finals(t, i, pc)
<1>1. CASE TR!Finalize(t, i)
  BY <1>1 DEF TR!Finalize, Finals, Renamed, TR!RunFrame, TR!history
<1>2. CASE TR!FinalizeFails(t, i)
  <2>1. \E pc \in {"end", "failed"} : TR!To(t, i, pc)
    BY <1>2 DEF TR!FinalizeFails, TR!Ends
  <2>2. PICK pc \in {"end", "failed"} : TR!To(t, i, pc)
    BY <2>1
  <2>3. \/ UNCHANGED <<part, dest>>
        \/ UNCHANGED part /\ dest' = [dest EXCEPT ![t] = TR!Absent]
        \/ Renamed(t)
    BY <1>2 DEF TR!FinalizeFails, Renamed
  <2>. QED  BY <1>2, <2>2, <2>3 DEF TR!FinalizeFails, Finals, TR!RunFrame, TR!history
<1>. QED  BY <1>1, <1>2

LEMMA FinalsKeep ==
    ASSUME TransferInv, NEW t \in CopyTasks, NEW i \in TR!Runs,
           NEW pc \in {"done", "end", "failed"}, Finals(t, i, pc)
    PROVE  TransferInv'
<1>0. CopyTyped /\ CopyKept(t)
  BY DEF TransferInv
<1>. USE TypedNow, CopyFields
<1>1. /\ run[t][i].pc = "final" /\ TR!To(t, i, pc)
      /\ UNCHANGED <<cancels, version, alive, restarts, overlapped, touched, edited, task>>
  BY DEF Finals
<1>2. pc \in Places
  BY DEF Places, TR!InSlot
<1>3. /\ LaunchesTyped /\ run'[t][i].pc = pc
      /\ \A j \in TR!Runs \ {i} : run'[t][j] = run[t][j]
      /\ \A u \in CopyTasks \ {t} : run'[u] = run[u]
  BY <1>0, <1>1, <1>2, LaunchMoves
<1>4. /\ part' \in [CopyTasks -> Seq(Nat \X Nat)] /\ dest' \in [CopyTasks -> Seq(Nat \X Nat)]
      /\ \A u \in CopyTasks \ {t} : part'[u] = part[u] /\ dest'[u] = dest[u]
      /\ \/ part'[t] = part[t] /\ dest'[t] \in {dest[t], <<>>} /\ pc # "done"
         \/ part[t] # <<>> /\ part'[t] = <<>> /\ dest'[t] = part[t]
  <2>0. <<>> \in Seq(Nat \X Nat) /\ part[t] \in Seq(Nat \X Nat)
    BY <1>0
  <2>1. CASE Renamed(t)
    BY <1>0, <2>0, <2>1 DEF Renamed, TR!Absent
  <2>2. CASE pc # "done" /\ UNCHANGED <<part, dest>>
    BY <1>0, <2>2
  <2>3. CASE pc # "done" /\ UNCHANGED part /\ dest' = [dest EXCEPT ![t] = TR!Absent]
    BY <1>0, <2>0, <2>3 DEF TR!Absent
  <2>. QED  BY <2>1, <2>2, <2>3 DEF Finals
<1>5. OneMoves(t, i, pc)
  BY <1>1, <1>3, <1>4 DEF OneMoves, SameFiles, TR!InSlot
<1>6. RestTyped /\ FilesTyped
  BY <1>0, <1>1, <1>4 DEF RestTyped, FilesTyped
<1>7. part[t] \in Seq(Nat \X Nat) /\ Len(part[t]) \in Nat
  BY <1>0
<1>8. CopyKept(t)'
  <2>1. NotLaunched(t)'
    BY <1>0, <1>1, <1>3 DEF CopyKept, NotLaunched
  <2>2. CopiesInOrder(t)'
    <3>1. CASE t \in overlapped
      BY <1>1, <3>1 DEF CopiesInOrder
    <3>2. CASE t \notin overlapped
      <4>1. \A j \in TR!Runs \ {i} : run[t][j].pc \in {"none", "end"}
        BY <1>0, <1>1, <3>2 DEF CopyKept, CopiesInOrder, TR!Live
      <4>2. Len(part'[t]) <= CopyBlocks
        BY <1>0, <1>4, <1>7, <3>2, CopyNumbers DEF CopyKept, CopiesInOrder
      <4>3. \A n \in 1..Len(part'[t]) : part'[t][n][1] = n
        BY SMTT(30), <1>0, <1>4, <3>2 DEF CopyKept, CopiesInOrder
      <4>4. \A j \in TR!Runs : run'[t][j].pc \notin {"copy", "final"}
        BY <1>3, <4>1
      <4>6. \A j, k \in TR!Runs : TR!Live(t, j)' /\ TR!Live(t, k)' => j = k
        BY <1>3, <4>1 DEF TR!Live
      <4>. QED  BY <4>2, <4>3, <4>4, <4>6 DEF CopiesInOrder
    <3>. QED  BY <3>1, <3>2
  <2>3. OneVersion(t)'
    <3>1. ASSUME t \notin overlapped \cup touched, task[t].status # "none"
          PROVE  /\ \A n \in 1..Len(part'[t]) : part'[t][n] = <<n, task[t].version>>
                 /\ dest'[t] \in {TR!Absent, TR!Old, TR!Whole(task[t].version)}
                 /\ \A j \in TR!Runs : run'[t][j].pc = "copy" => version = task[t].version
      <4>1. Len(part[t]) = CopyBlocks
        BY <1>0, <1>1, <3>1 DEF CopyKept, CopiesInOrder
      <4>2. \A n \in 1..CopyBlocks : part[t][n] = <<n, task[t].version>>
        BY <1>0, <3>1, <4>1 DEF CopyKept, OneVersion
      <4>3. part[t] = TR!Whole(task[t].version)
        <5> DEFINE p == part[t]
                   v == task[t].version
        <5>1. p \in [1..CopyBlocks -> Nat \X Nat] /\ \A n \in 1..CopyBlocks : p[n] = <<n, v>>
          BY <1>7, <4>1, <4>2
        <5>. HIDE DEF p, v
        <5>2. p = [n \in 1..CopyBlocks |-> <<n, v>>]
          BY <5>1
        <5>. QED  BY <5>2 DEF TR!Whole, p, v
      <4>4. dest[t] \in {TR!Absent, TR!Old, TR!Whole(task[t].version)}
        BY <1>0, <3>1 DEF CopyKept, OneVersion
      <4>5. dest'[t] \in {TR!Absent, TR!Old, TR!Whole(task[t].version)}
        BY <1>4, <4>3, <4>4 DEF TR!Absent
      <4>6. \A n \in 1..Len(part'[t]) : part'[t][n] = <<n, task[t].version>>
        BY SMTT(30), <1>4, <4>1, <4>2, <1>7
      <4>7. \A j \in TR!Runs : run'[t][j].pc = "copy" => version = task[t].version
        BY <1>0, <1>3, <3>1 DEF CopyKept, OneVersion
      <4>. QED  BY <4>5, <4>6, <4>7
    <3>. QED  BY <1>1, <3>1 DEF OneVersion, TR!Absent, TR!Old, TR!Whole
  <2>4. FileBeforeStatus(t)'
    <3>1. ASSUME t \notin overlapped \cup edited
          PROVE  /\ task[t].status # "completed"
                 /\ \A j \in TR!Runs : run'[t][j].pc = "done" => dest'[t] \notin {TR!Absent, TR!Old}
      <4>1. task[t].status # "completed"
        BY <1>0, <1>1, <3>1 DEF CopyKept, FileBeforeStatus, TR!Live
      <4>2. \A j \in TR!Runs \ {i} : run[t][j].pc \in {"none", "end"}
        BY <1>0, <1>1, <3>1 DEF CopyKept, CopiesInOrder, TR!Live
      <4>3. ASSUME pc = "done"
            PROVE  dest'[t] \notin {TR!Absent, TR!Old}
        <5>1. part[t] # <<>> /\ dest'[t] = part[t]
          BY <1>4, <4>3
        <5>2. 1 \in 1..Len(part[t])
          BY <1>7, <5>1
        <5>3. part[t][1][1] = 1
          BY <1>0, <3>1, <5>2 DEF CopyKept, CopiesInOrder
        <5>4. TR!Old[1][1] = 0
          BY DEF TR!Old
        <5>. QED  BY <5>1, <5>3, <5>4 DEF TR!Absent
      <4>. QED  BY <1>3, <4>1, <4>2, <4>3
    <3>. QED  BY <1>1, <3>1 DEF FileBeforeStatus, TR!Absent, TR!Old
  <2>. QED  BY <2>1, <2>2, <2>3, <2>4 DEF CopyKept
<1>. QED  BY <1>1, <1>5, <1>6, <1>8, OneMovesKeeps

(* Complete: the file is there, and nothing else runs.                     *)
LEMMA CompleteKeeps ==
    ASSUME TransferInv, NEW t \in CopyTasks, NEW i \in TR!Runs, TR!Complete(t, i)
    PROVE  TransferInv'
<1>0. CopyTyped /\ CopyKept(t)
  BY DEF TransferInv
<1>. USE TypedNow, CopyFields
<1>1. /\ run[t][i].pc = "done" /\ TR!To(t, i, "end")
      /\ UNCHANGED <<version, alive, restarts, overlapped, touched, edited, part, dest>>
  BY DEF TR!Complete, TR!files, TR!history
<1>2. "end" \in Places /\ "end" \notin {"copy", "final", "done"}
  BY DEF Places
<1>3. /\ LaunchesTyped /\ run'[t][i].pc = "end"
      /\ \A j \in TR!Runs \ {i} : run'[t][j] = run[t][j]
      /\ \A u \in CopyTasks \ {t} : run'[u] = run[u]
  BY <1>0, <1>1, <1>2, LaunchMoves
<1>4. /\ task' \in [CopyTasks -> TaskRecord] /\ cancels' \in [CopyTasks -> 0..CopyRuns]
      /\ \A u \in CopyTasks \ {t} : task'[u] = task[u]
      /\ task'[t].version = task[t].version
      /\ IF task[t].status = "none" THEN task'[t].status = "none" ELSE task'[t].status = "completed"
  <2>1. CASE task[t].status = "none"
    BY <1>0, <2>1 DEF TR!Complete
  <2>2. CASE task[t].status # "none"
    <3>1. PutStatus(t, "completed") /\ cancels' = [cancels EXCEPT ![t] = 0]
      BY <2>2 DEF TR!Complete, PutStatus
    <3>2. cancels' \in [CopyTasks -> 0..CopyRuns]
      BY <1>0, <3>1, CopyNumbers
    <3>. QED  BY <1>0, <2>2, <3>1, <3>2, StatusPut
  <2>. QED  BY <2>1, <2>2
<1>5. OneMoves(t, i, "end")
  BY <1>1, <1>3, <1>4 DEF OneMoves, SameFiles, TR!InSlot
<1>6. RestTyped /\ FilesTyped
  BY <1>0, <1>1, <1>4 DEF RestTyped, FilesTyped
<1>7. CopyKept(t)'
  <2>1. NotLaunched(t)'
    BY <1>0, <1>1, <1>3 DEF CopyKept, NotLaunched
  <2>2. CopiesInOrder(t)'
    BY <1>0, <1>1, <1>3 DEF CopyKept, CopiesInOrder, TR!Live
  <2>3. OneVersion(t)'
    <3>1. task'[t].status # "none" => task[t].status # "none"
      BY <1>4
    <3>2. \A j \in TR!Runs : run'[t][j].pc = "copy" => run[t][j].pc = "copy"
      BY <1>2, <1>3
    <3>. QED  BY <1>0, <1>1, <1>4, <3>1, <3>2 DEF CopyKept, OneVersion, TR!Absent, TR!Old, TR!Whole
  <2>4. FileBeforeStatus(t)'
    <3>1. ASSUME t \notin overlapped \cup edited
          PROVE  dest[t] \notin {TR!Absent, TR!Old} /\ \A j \in TR!Runs : ~TR!Live(t, j)'
      BY <1>0, <1>1, <1>3, <3>1 DEF CopyKept, CopiesInOrder, FileBeforeStatus, TR!Live
    <3>. QED  BY <1>1, <3>1 DEF FileBeforeStatus, TR!Absent, TR!Old
  <2>. QED  BY <2>1, <2>2, <2>3, <2>4 DEF CopyKept
<1>. QED  BY <1>1, <1>5, <1>6, <1>7, OneMovesKeeps

(* Start and Resume add a launch, behind no other or behind ended ones.    *)
LEMMA NewLaunch ==
    ASSUME CopyTyped, NEW t \in CopyTasks, NEW i \in TR!Runs, run[t][i] = TR!NoRun,
           run' = [run EXCEPT ![t][i].pc = "launch"]
    PROVE  /\ LaunchesTyped /\ run'[t][i].pc = "launch"
           /\ \A j \in TR!Runs \ {i} : run'[t][j] = run[t][j]
           /\ \A u \in CopyTasks \ {t} : run'[u] = run[u]
<1> DEFINE d == run[t][i]
           s == [d EXCEPT !.pc = "launch"]
<1>1. PutLaunch(t, i, s)
  BY DEF PutLaunch
<1>2. d \in LaunchRecord
  BY CopyFields
<1>3. "launch" \in Places /\ 0 \in 0..CopyBlocks
  BY CopyNumbers DEF Places
<1>. HIDE DEF d
<1>4. s \in LaunchRecord /\ s.pc = "launch"
  BY ZenonT(60), <1>2, <1>3, LaunchFields
<1>. HIDE DEF s
<1>. QED  BY <1>1, <1>4, LaunchPut

LEMMA StartKeeps ==
    ASSUME TransferInv, NEW t \in CopyTasks, NEW kind \in CopyKinds, NEW overwrite \in BOOLEAN,
           TR!Start(t, kind, overwrite)
    PROVE  TransferInv'
<1>0. CopyTyped /\ CopyKept(t) /\ 1 \in TR!Runs
  BY CopyNumbers DEF TransferInv, TR!Runs
<1>. USE TypedNow, CopyFields
<1> DEFINE r == [status |-> "queued", kind |-> kind, overwrite |-> overwrite, version |-> version]
<1>1. /\ run[t][1] = TR!NoRun /\ task' = [task EXCEPT ![t] = r]
      /\ run' = [run EXCEPT ![t][1].pc = "launch"]
      /\ UNCHANGED <<cancels, version, alive, restarts, overlapped, touched, edited, part, dest>>
  BY DEF TR!Start, TR!files, TR!history
<1>2. r \in TaskRecord /\ r.status = "queued"
  BY <1>0 DEF TaskRecord
<1>. HIDE DEF r
<1>3. /\ LaunchesTyped /\ run'[t][1].pc = "launch"
      /\ \A j \in TR!Runs \ {1} : run'[t][j] = run[t][j]
      /\ \A u \in CopyTasks \ {t} : run'[u] = run[u]
  BY <1>0, <1>1, NewLaunch
<1>4. /\ task' \in [CopyTasks -> TaskRecord] /\ task'[t] = r
      /\ \A u \in CopyTasks \ {t} : task'[u] = task[u]
  BY <1>0, <1>1, <1>2
<1>5. OneMoves(t, 1, "launch")
  BY <1>1, <1>3, <1>4 DEF OneMoves, SameFiles, TR!InSlot
<1>6. RestTyped /\ FilesTyped
  BY <1>0, <1>1, <1>4 DEF RestTyped, FilesTyped
<1>7. run[t][1].pc = "none"
  BY <1>1, FreshLaunch
<1>8. /\ \A j \in TR!Runs : run[t][j].pc = "none"
      /\ part[t] = TR!Absent /\ dest[t] \in {TR!Absent, TR!Old}
  BY <1>0, <1>7 DEF CopyKept, NotLaunched
<1>9. \A j \in TR!Runs : run'[t][j].pc \in {"none", "launch"}
  BY <1>3, <1>8
<1>10. part'[t] = <<>> /\ Len(part'[t]) = 0
  BY <1>1, <1>8 DEF TR!Absent
<1>11. CopyKept(t)'
  <2>1. NotLaunched(t)'
    BY <1>3 DEF NotLaunched
  <2>2. CopiesInOrder(t)'
    <3>1. \A j, k \in TR!Runs : TR!Live(t, j)' /\ TR!Live(t, k)' => j = k
      BY <1>3, <1>8 DEF TR!Live
    <3>. QED  BY <1>9, <1>10, <3>1, CopyNumbers DEF CopiesInOrder
  <2>3. OneVersion(t)'
    BY <1>1, <1>8, <1>9, <1>10 DEF OneVersion, TR!Absent, TR!Old
  <2>4. FileBeforeStatus(t)'
    BY <1>2, <1>4, <1>9 DEF FileBeforeStatus
  <2>. QED  BY <2>1, <2>2, <2>3, <2>4 DEF CopyKept
<1>. QED  BY <1>0, <1>1, <1>5, <1>6, <1>11, OneMovesKeeps

LEMMA ResumeKeeps ==
    ASSUME TransferInv, NEW t \in CopyTasks, NEW i \in TR!Runs, TR!Resume(t, i)
    PROVE  TransferInv'
<1>0. CopyTyped /\ CopyKept(t) /\ 1 \in TR!Runs
  BY CopyNumbers DEF TransferInv, TR!Runs
<1>. USE TypedNow, CopyFields
<1>1. /\ task[t].status \in {"paused", "failed", "stale"} /\ i > 1
      /\ run[t][i] = TR!NoRun /\ run[t][i - 1] # TR!NoRun
      /\ PutStatus(t, "queued") /\ run' = [run EXCEPT ![t][i].pc = "launch"]
      /\ UNCHANGED <<cancels, version, alive, restarts, touched, edited, part, dest>>
  BY DEF TR!Resume, TR!files, PutStatus
<1>2. /\ overlapped' \in {overlapped, overlapped \cup {t}}
      /\ t \notin overlapped' => t \notin overlapped /\ \A j \in TR!Runs : ~TR!Live(t, j)
  BY DEF TR!Resume
<1>3. /\ LaunchesTyped /\ run'[t][i].pc = "launch"
      /\ \A j \in TR!Runs \ {i} : run'[t][j] = run[t][j]
      /\ \A u \in CopyTasks \ {t} : run'[u] = run[u]
  BY <1>0, <1>1, NewLaunch
<1>4. /\ task' \in [CopyTasks -> TaskRecord]
      /\ task'[t].status = "queued" /\ task'[t].version = task[t].version
      /\ \A u \in CopyTasks \ {t} : task'[u] = task[u]
  BY <1>0, <1>1, StatusPut
<1>5. OneMoves(t, i, "launch")
  BY <1>1, <1>2, <1>3, <1>4 DEF OneMoves, SameFiles, TR!InSlot
<1>6. RestTyped /\ FilesTyped
  BY <1>0, <1>1, <1>2, <1>4 DEF RestTyped, FilesTyped
<1>7. i - 1 \in TR!Runs /\ i # 1
  BY <1>1, CopyNumbers DEF TR!Runs
<1>8. run[t][1].pc # "none"
  <2>1. run[t][i - 1].pc # "none"
    BY <1>0, <1>1, <1>7
  <2>. QED  BY <1>0, <1>7, <2>1 DEF CopyKept, NotLaunched
<1>9. CopyKept(t)'
  <2>1. NotLaunched(t)'
    BY <1>0, <1>3, <1>7, <1>8 DEF NotLaunched
  <2>2. CopiesInOrder(t)'
    <3>1. SUFFICES ASSUME t \notin overlapped'
                   PROVE  CopiesInOrder(t)'
      BY DEF CopiesInOrder
    <3>2. t \notin overlapped /\ \A j \in TR!Runs : run[t][j].pc \in {"none", "end"}
      BY <1>2, <3>1 DEF TR!Live
    <3>3. \A j, k \in TR!Runs : TR!Live(t, j)' /\ TR!Live(t, k)' => j = k
      BY <1>3, <3>2 DEF TR!Live
    <3>4. \A j \in TR!Runs : run'[t][j].pc \notin {"copy", "final"}
      BY <1>3, <3>2
    <3>. QED  BY <1>0, <1>1, <3>2, <3>3, <3>4 DEF CopyKept, CopiesInOrder
  <2>3. OneVersion(t)'
    <3>1. \A j \in TR!Runs : run'[t][j].pc = "copy" => run[t][j].pc = "copy"
      BY <1>3
    <3>2. t \notin (overlapped \cup touched)' => t \notin overlapped \cup touched
      BY <1>1, <1>2
    <3>3. task[t].status # "none"
      BY <1>1
    <3>. QED  BY <1>0, <1>1, <1>4, <3>1, <3>2, <3>3 DEF CopyKept, OneVersion, TR!Absent, TR!Old, TR!Whole
  <2>4. FileBeforeStatus(t)'
    <3>1. \A j \in TR!Runs : run'[t][j].pc = "done" => run[t][j].pc = "done"
      BY <1>3
    <3>2. t \notin (overlapped \cup edited)' => t \notin overlapped \cup edited
      BY <1>1, <1>2
    <3>. QED  BY <1>0, <1>1, <1>4, <3>1, <3>2 DEF CopyKept, FileBeforeStatus, TR!Absent, TR!Old
  <2>. QED  BY <2>1, <2>2, <2>3, <2>4 DEF CopyKept
<1>. QED  BY <1>1, <1>5, <1>6, <1>9, OneMovesKeeps

(* The source changes: under a copy, or while nobody copies it.            *)
LEMMA SourceChangesKeeps ==
    ASSUME TransferInv, TR!SourceChanges
    PROVE  TransferInv'
<1>0. CopyTyped
  BY DEF TransferInv
<1>. USE TypedNow, CopyFields
<1>1. /\ version < CopyVersions /\ version' = version + 1
      /\ touched' = touched \cup {t \in CopyTasks : \E i \in TR!Runs : run[t][i].pc = "copy"}
      /\ UNCHANGED <<task, cancels, run, part, dest, alive, restarts, overlapped, edited>>
  BY DEF TR!SourceChanges
<1>2. version' \in 1..CopyVersions
  BY <1>0, <1>1, CopyNumbers
<1>3. LaunchesTyped /\ RestTyped /\ FilesTyped
  BY <1>0, <1>1, <1>2 DEF LaunchesTyped, RestTyped, FilesTyped
<1>4. Cardinality(TR!Busy') <= CopySlots
  BY <1>0, <1>1, BusyShrinks
<1>5. ASSUME NEW t \in CopyTasks
      PROVE  CopyKept(t)'
  <2>0. CopyKept(t)
    BY DEF TransferInv
  <2>1. NotLaunched(t)'
    BY <1>1, <2>0 DEF CopyKept, NotLaunched, TR!Absent, TR!Old
  <2>2. CopiesInOrder(t)'
    BY <1>1, <2>0 DEF CopyKept, CopiesInOrder, TR!Live
  <2>3. OneVersion(t)'
    <3>1. t \notin touched' => t \notin touched /\ \A i \in TR!Runs : run[t][i].pc # "copy"
      BY <1>1
    <3>. QED  BY <1>1, <2>0, <3>1 DEF CopyKept, OneVersion, TR!Absent, TR!Old, TR!Whole
  <2>4. FileBeforeStatus(t)'
    BY <1>1, <2>0 DEF CopyKept, FileBeforeStatus, TR!Absent, TR!Old, TR!Live
  <2>. QED  BY <2>1, <2>2, <2>3, <2>4 DEF CopyKept
<1>. QED  BY <1>3, <1>4, <1>5, CopyTypes DEF TransferInv

(* The user makes or removes the destination by hand.                      *)
LEMMA EditKeeps ==
    ASSUME TransferInv, NEW t \in CopyTasks, TR!CreateFile(t) \/ TR!DeletePath(t)
    PROVE  TransferInv'
<1>0. CopyTyped
  BY DEF TransferInv
<1>. USE TypedNow, CopyFields
<1>1. PICK f \in {TR!Absent, TR!Old} : dest' = [dest EXCEPT ![t] = f]
  BY DEF TR!CreateFile, TR!DeletePath
<1>2. /\ edited' = edited \cup {t}
      /\ UNCHANGED <<task, cancels, run, part, version, alive, restarts, overlapped, touched>>
  BY DEF TR!CreateFile, TR!DeletePath, TR!EditFrame
<1>3. f \in Seq(Nat \X Nat)
  <2>1. TR!Absent \in Seq(Nat \X Nat)
    BY DEF TR!Absent
  <2>2. <<0, 0>> \in Nat \X Nat
    OBVIOUS
  <2>3. TR!Old \in Seq(Nat \X Nat)
    BY <2>2 DEF TR!Old
  <2>. QED  BY <2>1, <2>3
<1>4. /\ dest' \in [CopyTasks -> Seq(Nat \X Nat)] /\ dest'[t] \in {TR!Absent, TR!Old}
      /\ \A u \in CopyTasks \ {t} : dest'[u] = dest[u]
  BY <1>0, <1>1, <1>3
<1>5. LaunchesTyped /\ RestTyped /\ FilesTyped
  BY <1>0, <1>2, <1>4 DEF LaunchesTyped, RestTyped, FilesTyped
<1>6. Cardinality(TR!Busy') <= CopySlots
  BY <1>0, <1>2, BusyShrinks
<1>7. ASSUME NEW u \in CopyTasks \ {t}
      PROVE  CopyKept(u)'
  BY <1>2, <1>4, OthersKept DEF SameFiles
<1>8. CopyKept(t)'
  <2>0. CopyKept(t)
    BY DEF TransferInv
  <2>1. NotLaunched(t)'
    BY <1>2, <1>4, <2>0 DEF CopyKept, NotLaunched, TR!Absent, TR!Old
  <2>2. CopiesInOrder(t)'
    BY <1>2, <2>0 DEF CopyKept, CopiesInOrder, TR!Live
  <2>3. OneVersion(t)'
    BY <1>2, <1>4, <2>0 DEF CopyKept, OneVersion, TR!Absent, TR!Old, TR!Whole
  <2>4. FileBeforeStatus(t)'
    BY <1>2 DEF FileBeforeStatus
  <2>. QED  BY <2>1, <2>2, <2>3, <2>4 DEF CopyKept
<1>. QED  BY <1>5, <1>6, <1>7, <1>8, CopyTypes DEF TransferInv

LEMMA TransferSteps ==
    ASSUME TransferInv, TR!Next
    PROVE  TransferInv'
<1>1. ASSUME NEW t \in CopyTasks, NEW i \in TR!Runs,
             TR!Resume(t, i) \/ TR!TakeSlot(t, i) \/ TR!RunSteps(t, i)
      PROVE  TransferInv'
  <2>1. CASE CalmMoves(t, i)
    BY <2>1, CalmMovesKeep
  <2>2. CASE TR!Launch(t, i)
    BY <2>2, CalmCallsKeep DEF CalmCalls
  <2>3. CASE TR!Finalize(t, i) \/ TR!FinalizeFails(t, i)
    BY <2>3, FinalsAre, FinalsKeep
  <2>4. CASE TR!Begin(t, i) \/ TR!CopyBlock(t, i) \/ TR!CopyDone(t, i) \/ TR!Complete(t, i)
    BY <2>4, BeginKeeps, CopyBlockKeeps, CopyDoneKeeps, CompleteKeeps
  <2>5. CASE TR!Resume(t, i)
    BY <2>5, ResumeKeeps
  <2>. QED  BY <1>1, <2>1, <2>2, <2>3, <2>4, <2>5 DEF TR!RunSteps, CalmMoves
<1>2. ASSUME NEW t \in CopyTasks, TR!CreateFile(t) \/ TR!DeletePath(t)
      PROVE  TransferInv'
  BY <1>2, EditKeeps
<1>3. ASSUME NEW t \in CopyTasks, NEW kind \in CopyKinds, NEW overwrite \in BOOLEAN,
             TR!Start(t, kind, overwrite)
      PROVE  TransferInv'
  BY <1>3, StartKeeps
<1>4. ASSUME NEW t \in CopyTasks, NEW status \in {"paused", "cancelled"}, TR!Stop(t, status)
      PROVE  TransferInv'
  BY <1>4, CalmCallsKeep DEF CalmCalls
<1>5. CASE TR!ClearHistory \/ TR!Shutdown \/ TR!Restart
  BY <1>5, CalmCallsKeep DEF CalmCalls
<1>6. CASE TR!SourceChanges
  BY <1>6, SourceChangesKeeps
<1>. QED  BY <1>1, <1>2, <1>3, <1>4, <1>5, <1>6 DEF TR!Next

LEMMA TransferStarts ==
    ASSUME TR!Init
    PROVE  TransferInv
<1>. USE DEF TR!Init
<1>0. TR!Absent \in Seq(Nat \X Nat) /\ TR!Old \in Seq(Nat \X Nat)
  <2>1. <<0, 0>> \in Nat \X Nat
    OBVIOUS
  <2>. QED  BY <2>1 DEF TR!Absent, TR!Old
<1>1. \A t \in CopyTasks, i \in TR!Runs : run[t][i] = TR!NoRun /\ run[t][i].pc = "none"
  BY FreshLaunch
<1>2. run \in [CopyTasks -> [TR!Runs -> LaunchRecord]]
  BY FreshLaunch
<1>3. TR!NoTask \in TaskRecord /\ TR!NoTask.status = "none"
  BY CopyNumbers DEF TR!NoTask, TaskRecord
<1>4. /\ task \in [CopyTasks -> TaskRecord] /\ \A t \in CopyTasks : task[t].status = "none"
      /\ cancels \in [CopyTasks -> 0..CopyRuns]
      /\ version \in 1..CopyVersions /\ alive \in BOOLEAN /\ restarts \in 0..CopyRestarts
      /\ overlapped \subseteq CopyTasks /\ touched \subseteq CopyTasks /\ edited \subseteq CopyTasks
  BY <1>3, CopyNumbers
<1>5. part \in [CopyTasks -> Seq(Nat \X Nat)] /\ dest \in [CopyTasks -> Seq(Nat \X Nat)]
  BY <1>0
<1>6. TR!Busy = {}
  <2>1. "none" \notin TR!InSlot
    BY DEF TR!InSlot
  <2>. QED  BY <1>1, <2>1 DEF TR!Busy
<1>7. Cardinality(TR!Busy) <= CopySlots
  BY <1>6, FS_EmptySet, CopyNumbers
<1>8. CopyTyped
  <2>1. TR!TypeOK
    BY <1>2, <1>4, <1>7, SameCount DEF TR!TypeOK, LaunchRecord, TaskRecord, TR!Busy
  <2>. QED  BY <1>1, <1>5, <2>1 DEF CopyTyped
<1>9. ASSUME NEW t \in CopyTasks
      PROVE  CopyKept(t)
  <2>1. part[t] = TR!Absent /\ Len(part[t]) = 0 /\ dest[t] \in {TR!Absent, TR!Old}
    BY DEF TR!Absent
  <2>2. NotLaunched(t) /\ FileBeforeStatus(t)
    BY <1>1, <1>4, <2>1 DEF NotLaunched, FileBeforeStatus
  <2>3. CopiesInOrder(t)
    BY <1>1, <2>1, CopyNumbers DEF CopiesInOrder, TR!Live
  <2>4. OneVersion(t)
    BY <1>4 DEF OneVersion
  <2>. QED  BY <2>2, <2>3, <2>4 DEF CopyKept
<1>. QED  BY <1>8, <1>9 DEF TransferInv

(* filemanager.Manager: whatever is paused, cancelled, cleared, crashed    *)
(* and resumed, for any number of tasks, slots, blocks and launches, a     *)
(* transfer puts the whole source of one version at its destination, and a *)
(* task shown as completed has its file; the exceptions are the ones the   *)
(* property names.                                                         *)
THEOREM TransfersAreWhole == Spec => []WholeFile
<1> DEFINE Inv == model = "transfers" => TransferInv
<1>1. Init => Inv
  BY TransferStarts DEF Init
<1>2. Inv /\ [Next]_vars => Inv'
  <2> SUFFICES ASSUME model = "transfers", TransferInv, [Next]_vars
               PROVE  TransferInv'
    BY OneRuns
  <2>1. [TR!Next]_trVars
    BY OneRuns
  <2>2. CASE UNCHANGED trVars
    <3>1. CopyTyped /\ UNCHANGED <<TR!files, TR!history, cancels, run, task, alive, restarts>>
      BY <2>2 DEF trVars, TransferInv, TR!files, TR!history
    <3>2. LaunchesTyped /\ RestTyped
      BY <3>1, TypedNow DEF LaunchesTyped, RestTyped, TR!files, TR!history
    <3>3. Cardinality(TR!Busy') <= CopySlots
      BY <3>1, BusyShrinks
    <3>4. /\ \A t \in CopyTasks, i \in TR!Runs : CalmLaunch(t, i)
          /\ \A t \in CopyTasks : CalmTask(t)
      BY <3>1 DEF CalmLaunch, SameLaunch, CalmTask
    <3>. QED  BY <3>1, <3>2, <3>3, <3>4, CalmStep
  <2>. QED  BY <2>1, <2>2, TransferSteps
<1>3. Inv => WholeFile
  <2> SUFFICES ASSUME TransferInv
               PROVE  TR!TypeOK /\ TR!WholeFile /\ TR!CompletedHasFile
    BY DEF WholeFile
  <2>1. TR!TypeOK
    BY DEF TransferInv, CopyTyped
  <2>2. TR!WholeFile
    BY DEF TransferInv, CopyKept, OneVersion, TR!WholeFile
  <2>3. TR!CompletedHasFile
    BY DEF TransferInv, CopyKept, FileBeforeStatus, TR!CompletedHasFile
  <2>. QED  BY <2>1, <2>2, <2>3
<1>. QED  BY <1>1, <1>2, <1>3, PTL DEF Spec

-----------------------------------------------------------------------------
(* The privileged helper.  There is one session in the map at most, and    *)
(* who may still do something to it: the start that registers it, updates  *)
(* of a session that has been started, and stops.                          *)
Results == {"none", "ok", "busy", "error", "inUse"}
RpcPlaces ==
    {"none", "recv", "collect", "stopping", "register", "setup", "exec", "await", "lock",
     "apply", "reply", "answered"}
RpcRecord ==
    [pc : RpcPlaces, op : {"none", "start", "stop", "stopAll", "update", "undo"},
     id : 0..HelperIds, todo : SUBSET HS!Ids, on : 0..HelperIds,
     res : Results, client : BOOLEAN, ver : 0..HelperVersions]
DeskRecord ==
    [pc : {"idle", "start", "stopAll", "again", "wait", "ready", "close"}, id : 0..HelperIds,
     req : HelperRequests \cup {0}, upd : HelperRequests \cup {0}, retried : BOOLEAN,
     attempt : Nat, ver : 0..HelperVersions]

HelperTyped ==
    HS!TypeOK /\ rpc \in [HelperRequests -> RpcRecord] /\ desk \in DeskRecord

Cored == {"dns", "running", "exited"}
Settled(i) == sess[i].pc \in {"running", "exited", "restored", "gone"}

SessionsSound ==
    /\ \A i, j \in HS!InMap : i = j
    /\ dns # HS!Users => sess[dns[1]].pc \in Cored
    /\ \A i \in HS!Ids : /\ sess[i].pc = "none" => sess[i] = HS!NoSess
                         /\ sess[i].pc # "none" => i <= nextId
                         /\ sess[i].pc \in Cored => sess[i].ver # 0

(* Which request is where.                                                 *)
PlacesOf(op) ==
    CASE op = "start" -> {"recv", "collect", "stopping", "register", "setup", "exec", "await",
                          "reply", "answered"}
      [] op = "update" -> {"recv", "lock", "apply", "reply", "answered"}
      [] op = "undo" -> {"stopping"}
      [] OTHER -> {"recv", "stopping", "reply", "answered"}

(* What a start has made of its session by now.                            *)
StartSound(r) ==
    LET s == sess[rpc[r].id] IN
    /\ rpc[r].pc \in {"recv", "collect", "stopping", "register"} => s.pc = "none"
    /\ rpc[r].pc = "setup" => s.pc = "starting"
    /\ rpc[r].pc = "exec" => s.pc = "dns"
    /\ rpc[r].pc = "await" => Settled(rpc[r].id)
    /\ rpc[r].pc \in {"reply", "answered"} =>
         IF rpc[r].res = "busy" THEN s.pc = "none" ELSE Settled(rpc[r].id)

RpcSound(r) ==
    /\ rpc[r].op = "none" => rpc[r] = HS!NoRpc
    /\ rpc[r].op # "none" => rpc[r].pc \in PlacesOf(rpc[r].op)
    /\ rpc[r].pc # "stopping" => rpc[r].todo = {} /\ rpc[r].on = 0
    /\ \A i \in rpc[r].todo : sess[i].pc # "none"
    /\ rpc[r].on # 0 => sess[rpc[r].on].pc # "none"
    /\ rpc[r].op \in {"start", "stop", "update", "undo"} => rpc[r].id \in 1..nextId
    /\ rpc[r].op \in {"stop", "update"} => Settled(rpc[r].id)
    /\ rpc[r].op = "update" =>
         rpc[r].ver # 0 /\ (rpc[r].pc = "apply" => sess[rpc[r].id].pc \in {"running", "exited"})
    /\ rpc[r].op = "start" => StartSound(r)

RpcsSound ==
    /\ \A r \in HelperRequests : RpcSound(r)
    /\ \A r, q \in HelperRequests :
         rpc[r].op = "start" /\ rpc[q].op = "start" /\ rpc[r].id = rpc[q].id => r = q

(* The desktop and the requests it waits for.                              *)
DeskSound ==
    /\ desk.pc \in {"idle", "again", "wait", "ready"} => desk.req = 0
    /\ desk.pc \in {"start", "stopAll", "close"} =>
         /\ desk.req # 0 /\ rpc[desk.req].client
         /\ rpc[desk.req].op = IF desk.pc = "close" THEN "stop" ELSE desk.pc
    /\ desk.pc = "start" => rpc[desk.req].id = desk.id
    /\ desk.pc \notin {"idle", "again"} => desk.id \in 1..nextId
    /\ desk.pc = "stopAll" =>
         /\ sess[desk.id].pc = "none"
         /\ \A r \in HelperRequests : rpc[r].op = "start" => rpc[r].id # desk.id
    /\ desk.pc \in {"wait", "ready", "close"} => Settled(desk.id)
    /\ desk.upd # 0 =>
         /\ desk.pc \in {"ready", "close"}
         /\ rpc[desk.upd].op = "update" /\ rpc[desk.upd].client /\ rpc[desk.upd].id = desk.id

(* Until the desktop leaves a request behind, nobody but itself works on   *)
(* its session.                                                            *)
Alone ==
    ~abandoned =>
      /\ \A r \in HelperRequests : rpc[r].op # "none" => r \in {desk.req, desk.upd}
      /\ desk.pc \in {"start", "stopAll", "wait", "ready"} =>
           /\ sess[desk.id].asked = "no"
           /\ \A r \in HelperRequests : desk.id \notin rpc[r].todo /\ desk.id # rpc[r].on
           /\ sess[desk.id].pc \in {"dns", "running"} =>
                dns[1] = desk.id \/ (desk.pc = "ready" /\ sess[desk.id].ver < desk.ver)
           /\ sess[desk.id].ver <= IF desk.pc \in {"wait", "ready"} THEN desk.ver ELSE 1
      /\ desk.pc = "wait" => desk.ver = 1
      /\ desk.pc = "ready" =>
           /\ sess[desk.id].pc = "running" \/ desk.id \in quits
           /\ desk.upd # 0 /\ rpc[desk.upd].pc \in {"recv", "lock", "apply"} =>
                rpc[desk.upd].ver = desk.ver /\ sess[desk.id].ver < desk.ver

HelperInv == HelperTyped /\ SessionsSound /\ RpcsSound /\ DeskSound /\ Alone

(* One request moves on.                                                   *)
Moved(r, pc, todo, on, res) ==
    /\ rpc' \in [HelperRequests -> RpcRecord]
    /\ \A q \in HelperRequests \ {r} : rpc'[q] = rpc[q]
    /\ rpc'[r].pc = pc /\ rpc'[r].todo = todo /\ rpc'[r].on = on /\ rpc'[r].res = res
    /\ rpc'[r].op = rpc[r].op /\ rpc'[r].id = rpc[r].id
    /\ rpc'[r].client = rpc[r].client /\ rpc'[r].ver = rpc[r].ver

LEMMA RpcPut ==
    ASSUME HelperTyped, NEW r \in HelperRequests, NEW f \in RpcRecord, HS!Step(r, f)
    PROVE  /\ rpc' \in [HelperRequests -> RpcRecord] /\ rpc'[r] = f
           /\ \A q \in HelperRequests \ {r} : rpc'[q] = rpc[q]
  BY DEF HelperTyped, HS!Step

(* The fields of a request that a step sets.                               *)
ToPlace(r, pc) == HS!Step(r, [rpc[r] EXCEPT !.pc = pc])
ToAnswer(r, pc, res) == HS!Step(r, [rpc[r] EXCEPT !.pc = pc, !.res = res])
ToTodo(r, pc, todo) == HS!Step(r, [rpc[r] EXCEPT !.pc = pc, !.todo = todo])
ToNext(r, todo, on) == HS!Step(r, [rpc[r] EXCEPT !.todo = todo, !.on = on])
ToSkip(r, todo, res) == HS!Step(r, [rpc[r] EXCEPT !.todo = todo, !.res = res])
ToWaited(r, on) == HS!Step(r, [rpc[r] EXCEPT !.on = on])
ToMissed(r, on, res) == HS!Step(r, [rpc[r] EXCEPT !.on = on, !.res = res])

LEMMA RequestShapes ==
    ASSUME HelperTyped, NEW r \in HelperRequests, NEW pc \in RpcPlaces, NEW todo \in SUBSET HS!Ids,
           NEW on \in 0..HelperIds, NEW res \in Results
    PROVE  /\ ToPlace(r, pc) => Moved(r, pc, rpc[r].todo, rpc[r].on, rpc[r].res)
           /\ ToAnswer(r, pc, res) => Moved(r, pc, rpc[r].todo, rpc[r].on, res)
           /\ ToTodo(r, pc, todo) => Moved(r, pc, todo, rpc[r].on, rpc[r].res)
           /\ ToNext(r, todo, on) => Moved(r, rpc[r].pc, todo, on, rpc[r].res)
           /\ ToSkip(r, todo, res) => Moved(r, rpc[r].pc, todo, rpc[r].on, res)
           /\ ToWaited(r, on) => Moved(r, rpc[r].pc, rpc[r].todo, on, rpc[r].res)
           /\ ToMissed(r, on, res) => Moved(r, rpc[r].pc, rpc[r].todo, on, res)
<1> DEFINE d == rpc[r]
<1>0. d \in RpcRecord
  BY DEF HelperTyped
<1>. HIDE DEF d
<1>1. ToPlace(r, pc) => Moved(r, pc, rpc[r].todo, rpc[r].on, rpc[r].res)
  <2> DEFINE f == [d EXCEPT !.pc = pc]
  <2>1. f \in RpcRecord /\ f.pc = pc /\ f.todo = d.todo /\ f.on = d.on /\ f.res = d.res /\ f.op = d.op /\ f.id = d.id /\ f.client = d.client /\ f.ver = d.ver
    BY <1>0 DEF RpcRecord
  <2>. HIDE DEF f
  <2>2. HS!Step(r, f) => Moved(r, pc, rpc[r].todo, rpc[r].on, rpc[r].res)
    BY <2>1, RpcPut DEF Moved, d
  <2>. QED  BY <2>2 DEF f, d, ToPlace
<1>2. ToAnswer(r, pc, res) => Moved(r, pc, rpc[r].todo, rpc[r].on, res)
  <2> DEFINE f == [d EXCEPT !.pc = pc, !.res = res]
  <2>1. f \in RpcRecord /\ f.pc = pc /\ f.todo = d.todo /\ f.on = d.on /\ f.res = res /\ f.op = d.op /\ f.id = d.id /\ f.client = d.client /\ f.ver = d.ver
    BY <1>0 DEF RpcRecord
  <2>. HIDE DEF f
  <2>2. HS!Step(r, f) => Moved(r, pc, rpc[r].todo, rpc[r].on, res)
    BY <2>1, RpcPut DEF Moved, d
  <2>. QED  BY <2>2 DEF f, d, ToAnswer
<1>3. ToTodo(r, pc, todo) => Moved(r, pc, todo, rpc[r].on, rpc[r].res)
  <2> DEFINE f == [d EXCEPT !.pc = pc, !.todo = todo]
  <2>1. f \in RpcRecord /\ f.pc = pc /\ f.todo = todo /\ f.on = d.on /\ f.res = d.res /\ f.op = d.op /\ f.id = d.id /\ f.client = d.client /\ f.ver = d.ver
    BY <1>0 DEF RpcRecord
  <2>. HIDE DEF f
  <2>2. HS!Step(r, f) => Moved(r, pc, todo, rpc[r].on, rpc[r].res)
    BY <2>1, RpcPut DEF Moved, d
  <2>. QED  BY <2>2 DEF f, d, ToTodo
<1>4. ToNext(r, todo, on) => Moved(r, rpc[r].pc, todo, on, rpc[r].res)
  <2> DEFINE f == [d EXCEPT !.todo = todo, !.on = on]
  <2>1. f \in RpcRecord /\ f.pc = d.pc /\ f.todo = todo /\ f.on = on /\ f.res = d.res /\ f.op = d.op /\ f.id = d.id /\ f.client = d.client /\ f.ver = d.ver
    BY <1>0 DEF RpcRecord
  <2>. HIDE DEF f
  <2>2. HS!Step(r, f) => Moved(r, rpc[r].pc, todo, on, rpc[r].res)
    BY <2>1, RpcPut DEF Moved, d
  <2>. QED  BY <2>2 DEF f, d, ToNext
<1>5. ToSkip(r, todo, res) => Moved(r, rpc[r].pc, todo, rpc[r].on, res)
  <2> DEFINE f == [d EXCEPT !.todo = todo, !.res = res]
  <2>1. f \in RpcRecord /\ f.pc = d.pc /\ f.todo = todo /\ f.on = d.on /\ f.res = res /\ f.op = d.op /\ f.id = d.id /\ f.client = d.client /\ f.ver = d.ver
    BY <1>0 DEF RpcRecord
  <2>. HIDE DEF f
  <2>2. HS!Step(r, f) => Moved(r, rpc[r].pc, todo, rpc[r].on, res)
    BY <2>1, RpcPut DEF Moved, d
  <2>. QED  BY <2>2 DEF f, d, ToSkip
<1>6. ToWaited(r, on) => Moved(r, rpc[r].pc, rpc[r].todo, on, rpc[r].res)
  <2> DEFINE f == [d EXCEPT !.on = on]
  <2>1. f \in RpcRecord /\ f.pc = d.pc /\ f.todo = d.todo /\ f.on = on /\ f.res = d.res /\ f.op = d.op /\ f.id = d.id /\ f.client = d.client /\ f.ver = d.ver
    BY <1>0 DEF RpcRecord
  <2>. HIDE DEF f
  <2>2. HS!Step(r, f) => Moved(r, rpc[r].pc, rpc[r].todo, on, rpc[r].res)
    BY <2>1, RpcPut DEF Moved, d
  <2>. QED  BY <2>2 DEF f, d, ToWaited
<1>7. ToMissed(r, on, res) => Moved(r, rpc[r].pc, rpc[r].todo, on, res)
  <2> DEFINE f == [d EXCEPT !.on = on, !.res = res]
  <2>1. f \in RpcRecord /\ f.pc = d.pc /\ f.todo = d.todo /\ f.on = on /\ f.res = res /\ f.op = d.op /\ f.id = d.id /\ f.client = d.client /\ f.ver = d.ver
    BY <1>0 DEF RpcRecord
  <2>. HIDE DEF f
  <2>2. HS!Step(r, f) => Moved(r, rpc[r].pc, rpc[r].todo, on, res)
    BY <2>1, RpcPut DEF Moved, d
  <2>. QED  BY <2>2 DEF f, d, ToMissed
<1>. QED  BY <1>1, <1>2, <1>3, <1>4, <1>5, <1>6, <1>7

LEMMA HelperFields ==
    ASSUME HelperTyped
    PROVE  /\ rpc \in [HelperRequests -> RpcRecord] /\ desk \in DeskRecord
           /\ \A r \in HelperRequests :
                /\ rpc[r] \in RpcRecord /\ rpc[r].id \in 0..HelperIds /\ rpc[r].on \in 0..HelperIds
                /\ rpc[r].todo \subseteq HS!Ids /\ rpc[r].ver \in 0..HelperVersions
                /\ rpc[r].pc \in RpcPlaces /\ rpc[r].res \in Results
           /\ desk.req \in HelperRequests \cup {0} /\ desk.upd \in HelperRequests \cup {0}
           /\ desk.id \in 0..HelperIds /\ desk.ver \in 0..HelperVersions
           /\ 0 \notin HelperRequests /\ nextId \in 0..HelperIds /\ quits \subseteq HS!Ids
           /\ \A i \in HS!Ids : sess[i].ver \in 0..HelperVersions
  BY HelperNumbers DEF HelperTyped, RpcRecord, DeskRecord, HS!TypeOK

(* The other requests, when the sessions move on.                          *)
Flows(q) ==
    /\ \A i \in HS!Ids : (sess[i].pc # "none" => sess'[i].pc # "none") /\ (Settled(i) => Settled(i)')
    /\ rpc[q].pc = "apply" /\ sess[rpc[q].id].pc \in {"running", "exited"} =>
         sess'[rpc[q].id].pc \in {"running", "exited"}
    /\ rpc[q].op = "start" /\ ~Settled(rpc[q].id) => sess'[rpc[q].id].pc = sess[rpc[q].id].pc

LEMMA OtherRequest ==
    ASSUME HelperTyped, NEW q \in HelperRequests, RpcSound(q), rpc'[q] = rpc[q], Flows(q),
           nextId' \in Nat, nextId <= nextId'
    PROVE  RpcSound(q)'
<1>. USE HelperFields, HelperNumbers
<1>0. nextId \in Nat /\ rpc[q].id \in Nat /\ nextId \in 0..HelperIds
  OBVIOUS
<1>1. rpc[q].op \in {"start", "stop", "update", "undo"} =>
         rpc[q].id \in 1..nextId /\ rpc[q].id \in HS!Ids /\ rpc[q].id \in 1..nextId'
  BY <1>0 DEF RpcSound, HS!Ids
<1>2. \A i \in rpc[q].todo : i \in HS!Ids
  OBVIOUS
<1>3. rpc[q].on # 0 => rpc[q].on \in HS!Ids
  BY DEF HS!Ids
<1>4. rpc[q].op = "start" => StartSound(q)'
  <2>1. SUFFICES ASSUME rpc[q].op = "start"
                 PROVE  StartSound(q)'
    OBVIOUS
  <2>2. StartSound(q) /\ rpc[q].id \in HS!Ids
    BY <1>1, <2>1 DEF RpcSound
  <2>3. Settled(rpc[q].id) => Settled(rpc[q].id)'
    BY <2>2 DEF Flows
  <2>4. ~Settled(rpc[q].id) => sess'[rpc[q].id].pc = sess[rpc[q].id].pc
    BY <2>1 DEF Flows
  <2>. QED  BY <2>2, <2>3, <2>4 DEF StartSound, Settled
<1>5. rpc[q].op \in {"stop", "update"} => Settled(rpc[q].id)'
  BY <1>1 DEF RpcSound, Flows, Settled
<1>6. (\A i \in rpc[q].todo : sess'[i].pc # "none") /\ (rpc[q].on # 0 => sess'[rpc[q].on].pc # "none")
  BY <1>2, <1>3 DEF RpcSound, Flows
<1>. QED  BY <1>1, <1>4, <1>5, <1>6 DEF RpcSound, Flows, HS!NoRpc, PlacesOf

(* A request is the same start as before, or none.                         *)
SameStart(r) == rpc'[r].op = "start" => rpc[r].op = "start" /\ rpc'[r].id = rpc[r].id

LEMMA RequestsKept ==
    ASSUME HelperTyped, RpcsSound, NEW r \in HelperRequests, RpcSound(r)', SameStart(r),
           \A q \in HelperRequests \ {r} : rpc'[q] = rpc[q] /\ Flows(q),
           nextId' = nextId
    PROVE  RpcsSound'
<1>1. nextId \in Nat /\ nextId' \in Nat /\ nextId <= nextId'
  BY HelperFields, HelperNumbers
<1>2. \A q \in HelperRequests : RpcSound(q)'
  BY <1>1, OtherRequest DEF RpcsSound
<1>3. \A p, q \in HelperRequests :
         rpc'[p].op = "start" /\ rpc'[q].op = "start" /\ rpc'[p].id = rpc'[q].id => p = q
  BY DEF RpcsSound, SameStart
<1>. QED  BY <1>2, <1>3 DEF RpcsSound

(* The desktop waits for its requests while the helper works on them.      *)
Faithful(r) ==
    rpc[r].client /\ rpc[r].op # "undo" =>
        rpc'[r].op = rpc[r].op /\ rpc'[r].id = rpc[r].id /\ rpc'[r].client

LEMMA DeskKept ==
    ASSUME HelperTyped, DeskSound, desk' = desk, nextId' = nextId,
           \A q \in HelperRequests : Faithful(q) /\ SameStart(q),
           \A i \in HS!Ids : Settled(i) => Settled(i)',
           \A i \in HS!Ids : sess[i].pc = "none" =>
               sess'[i].pc = "none" \/ \E q \in HelperRequests : rpc[q].op = "start" /\ rpc[q].id = i
    PROVE  DeskSound'
<1>. USE HelperFields
<1>0. desk.pc \notin {"idle", "again"} => desk.id \in HS!Ids
  BY HelperNumbers DEF DeskSound, HS!Ids
<1>1. desk.pc \in {"start", "stopAll", "close"} =>
         /\ desk.req # 0 /\ desk.req \in HelperRequests /\ rpc'[desk.req].client
         /\ rpc'[desk.req].op = IF desk.pc = "close" THEN "stop" ELSE desk.pc
         /\ rpc'[desk.req].id = rpc[desk.req].id
  BY DEF DeskSound, Faithful
<1>2. desk.upd # 0 =>
         /\ desk.pc \in {"ready", "close"} /\ desk.upd \in HelperRequests
         /\ rpc'[desk.upd].op = "update" /\ rpc'[desk.upd].client /\ rpc'[desk.upd].id = desk.id
  BY DEF DeskSound, Faithful
<1>3. desk.pc = "stopAll" =>
         /\ sess'[desk.id].pc = "none"
         /\ \A r \in HelperRequests : rpc'[r].op = "start" => rpc'[r].id # desk.id
  BY <1>0 DEF DeskSound, SameStart
<1>4. desk.pc \in {"wait", "ready", "close"} => Settled(desk.id)'
  BY <1>0 DEF DeskSound, Settled
<1>. QED  BY <1>1, <1>2, <1>3, <1>4 DEF DeskSound

(* A step that only moves one request.                                     *)
Untouched(r) ==
    desk.pc \in {"start", "stopAll", "wait", "ready"} =>
        desk.id \notin rpc'[r].todo /\ desk.id # rpc'[r].on

LEMMA QuietStep ==
    ASSUME HelperInv, NEW r \in HelperRequests, rpc' \in [HelperRequests -> RpcRecord],
           \A q \in HelperRequests \ {r} : rpc'[q] = rpc[q],
           RpcSound(r)', SameStart(r), Faithful(r), ~abandoned => Untouched(r),
           rpc[r].op # "none",
           rpc'[r].pc \in {"recv", "lock", "apply"} =>
               rpc[r].pc \in {"recv", "lock", "apply"} /\ rpc'[r].ver = rpc[r].ver,
           sess' = sess, dns' \in {dns, HS!Users}, HS!HelperFrame,
           dns' = dns \/ (~abandoned /\ desk.pc = "ready" => sess[desk.id].ver < desk.ver),
           dns' = dns \/ rpc[r].op = "update"
    PROVE  HelperInv'
<1>. USE HelperFields DEF HelperInv
<1>0. UNCHANGED <<sess, desk, nextId, crashes, abandoned, quits>>
  BY DEF HS!HelperFrame
<1>1. HelperTyped'
  BY <1>0 DEF HelperTyped, HS!TypeOK
<1>2. SessionsSound'
  BY <1>0 DEF SessionsSound, HS!InMap, HS!Users, HS!NoSess
<1>3. \A q \in HelperRequests : Flows(q)
  BY <1>0 DEF Flows, Settled
<1>4. RpcsSound'
  BY <1>0, <1>3, RequestsKept
<1>5. DeskSound'
  <2>1. \A q \in HelperRequests : Faithful(q) /\ SameStart(q)
    BY DEF Faithful, SameStart
  <2>2. \A i \in HS!Ids : (Settled(i) => Settled(i)') /\ (sess[i].pc = "none" => sess'[i].pc = "none")
    BY <1>0 DEF Settled
  <2>. QED  BY <1>0, <2>1, <2>2, DeskKept
<1>6. Alone'
  <2>1. SUFFICES ASSUME ~abandoned
                 PROVE  Alone'
    BY <1>0 DEF Alone
  <2>2. r \in {desk.req, desk.upd}
    BY <2>1 DEF Alone
  <2>3. \A q \in HelperRequests : rpc'[q].op # "none" => q \in {desk.req, desk.upd}
    BY <2>1, <2>2 DEF Alone
  <2>4. ASSUME desk.pc \in {"start", "stopAll", "wait", "ready"}
        PROVE  /\ sess[desk.id].asked = "no"
               /\ \A q \in HelperRequests : desk.id \notin rpc'[q].todo /\ desk.id # rpc'[q].on
               /\ sess[desk.id].ver <= IF desk.pc \in {"wait", "ready"} THEN desk.ver ELSE 1
    BY <2>1, <2>4 DEF Alone, Untouched
  <2>5. ASSUME desk.pc \in {"start", "stopAll", "wait", "ready"}, sess[desk.id].pc \in {"dns", "running"}
        PROVE  dns'[1] = desk.id \/ (desk.pc = "ready" /\ sess[desk.id].ver < desk.ver)
    <3>1. CASE dns' = dns
      BY <2>1, <2>5, <3>1 DEF Alone
    <3>2. CASE dns' # dns
      <4>1. rpc[r].op = "update"
        BY <3>2
      <4>2. desk.pc = "ready"
        BY <2>2, <2>5, <4>1 DEF DeskSound
      <4>. QED  BY <2>1, <3>2, <4>2
    <3>. QED  BY <3>1, <3>2
  <2>6. ASSUME desk.pc = "ready"
        PROVE  /\ sess[desk.id].pc = "running" \/ desk.id \in quits
               /\ desk.upd # 0 /\ rpc'[desk.upd].pc \in {"recv", "lock", "apply"} =>
                    rpc'[desk.upd].ver = desk.ver /\ sess[desk.id].ver < desk.ver
    BY <2>1, <2>6 DEF Alone
  <2>7. desk.pc = "wait" => desk.ver = 1
    BY <2>1 DEF Alone
  <2>. QED  BY <1>0, <2>3, <2>4, <2>5, <2>6, <2>7 DEF Alone
<1>. QED  BY <1>1, <1>2, <1>4, <1>5, <1>6

(* A request that keeps its place among the requests.                      *)
LEMMA MovedKeeps ==
    ASSUME HelperInv, NEW r \in HelperRequests, NEW pc, NEW todo, NEW on, NEW res,
           Moved(r, pc, todo, on, res), rpc[r].op # "none", pc \in PlacesOf(rpc[r].op),
           pc # "stopping" => todo = {} /\ on = 0,
           \A i \in todo : sess[i].pc # "none" /\ (i \in rpc[r].todo \/ i # desk.id \/ rpc[r].op = "stop"),
           on # 0 => sess[on].pc # "none" /\ (on = rpc[r].on \/ on \in rpc[r].todo),
           rpc[r].op = "start" => StartSound(r)',
           pc = "apply" => sess[rpc[r].id].pc \in {"running", "exited"},
           pc \in {"recv", "lock", "apply"} => rpc[r].pc \in {"recv", "lock", "apply"},
           sess' = sess, dns' \in {dns, HS!Users}, HS!HelperFrame,
           dns' = dns \/ (rpc[r].op = "update" /\ rpc[r].pc \in {"recv", "lock", "apply"})
    PROVE  HelperInv'
<1>. USE HelperFields DEF HelperInv, Moved
<1>0. RpcSound(r) /\ nextId' = nextId
  BY DEF RpcsSound, HS!HelperFrame
<1>1. RpcSound(r)'
  BY <1>0 DEF RpcSound, Settled, PlacesOf
<1>2. SameStart(r) /\ Faithful(r)
  BY DEF SameStart, Faithful
<1>3. ~abandoned => Untouched(r)
  <2> SUFFICES ASSUME ~abandoned, desk.pc \in {"start", "stopAll", "wait", "ready"}
               PROVE  desk.id \notin todo /\ desk.id # on
    BY DEF Untouched
  <2>1. r \in {desk.req, desk.upd}
    BY DEF Alone
  <2>2. rpc[r].op # "stop"
    BY <2>1 DEF DeskSound
  <2>3. desk.id # 0 /\ desk.id \notin rpc[r].todo /\ desk.id # rpc[r].on
    BY DEF DeskSound, Alone
  <2>. QED  BY <2>2, <2>3
<1>4. dns' = dns \/ (~abandoned /\ desk.pc = "ready" => sess[desk.id].ver < desk.ver)
  <2> SUFFICES ASSUME dns' # dns, ~abandoned, desk.pc = "ready"
               PROVE  sess[desk.id].ver < desk.ver
    OBVIOUS
  <2>1. r \in {desk.req, desk.upd} /\ desk.req = 0
    BY DEF Alone, DeskSound
  <2>. QED  BY <2>1 DEF Alone
<1>. QED  BY <1>1, <1>2, <1>3, <1>4, QuietStep

(* The steps of a start that leave the sessions alone.                     *)
LEMMA StartCheckKeeps ==
    ASSUME HelperInv, NEW r \in HelperRequests, HS!StartCheck(r)
    PROVE  HelperInv'
<1>. USE HelperFields DEF HelperInv
<1>0. /\ rpc[r].pc = "recv" /\ rpc[r].op = "start" /\ UNCHANGED <<sess, dns>> /\ HS!HelperFrame
      /\ RpcSound(r) /\ rpc[r].todo = {} /\ rpc[r].on = 0 /\ sess[rpc[r].id].pc = "none"
  BY DEF HS!StartCheck, RpcsSound, RpcSound, StartSound
<1>1. rpc[r].id \notin HS!InMap
  BY <1>0 DEF HS!InMap
<1>2. PICK pc \in {"register", "collect"} : ToPlace(r, pc)
  BY <1>1 DEF HS!StartCheck, ToPlace
<1>3. Moved(r, pc, rpc[r].todo, rpc[r].on, rpc[r].res)
  BY <1>2, RequestShapes DEF RpcPlaces
<1>4. StartSound(r)'
  BY <1>0, <1>3 DEF StartSound, Moved
<1>. QED  BY <1>0, <1>3, <1>4, MovedKeeps DEF PlacesOf

LEMMA CollectKeeps ==
    ASSUME HelperInv, NEW r \in HelperRequests, HS!Collect(r)
    PROVE  HelperInv'
<1>. USE HelperFields DEF HelperInv
<1> DEFINE all == IF rpc[r].op = "stop" THEN {rpc[r].id} ELSE HS!InMap
<1>0. /\ rpc[r].pc \in {"recv", "collect"} /\ UNCHANGED <<sess, dns>> /\ HS!HelperFrame /\ RpcSound(r)
      /\ ToTodo(r, "stopping", all)
  BY DEF HS!Collect, RpcsSound, ToTodo
<1>1. rpc[r].op \in {"start", "stop", "stopAll"} /\ rpc[r].todo = {} /\ rpc[r].on = 0
  BY <1>0 DEF HS!Collect, RpcSound, PlacesOf, HS!NoRpc
<1>2. all \subseteq HS!Ids /\ \A i \in all : sess[i].pc # "none"
  BY <1>0, <1>1, HelperNumbers DEF RpcSound, HS!InMap, Settled, HS!Ids
<1>3. rpc[r].op # "stop" /\ desk.id \in all /\ ~abandoned =>
         desk.pc \notin {"start", "stopAll", "wait", "ready"}
  <2> SUFFICES ASSUME rpc[r].op # "stop", ~abandoned, desk.pc \in {"start", "stopAll", "wait", "ready"}
               PROVE  desk.id \notin all
    OBVIOUS
  <2>1. r \in {desk.req, desk.upd}
    BY <1>1 DEF Alone
  <2>2. sess[desk.id].pc = "none"
    BY <1>0, <1>1, <2>1 DEF DeskSound, RpcSound, StartSound
  <2>. QED  BY <2>2 DEF HS!InMap
<1>. HIDE DEF all
<1>4. Moved(r, "stopping", all, rpc[r].on, rpc[r].res)
  BY <1>0, <1>2, RequestShapes DEF RpcPlaces
<1>5. rpc[r].op = "start" => StartSound(r)'
  BY <1>0, <1>4 DEF StartSound, Moved, RpcSound
<1>6. RpcSound(r)'
  BY <1>0, <1>1, <1>2, <1>4, <1>5 DEF RpcSound, Settled, PlacesOf, Moved, HS!HelperFrame
<1>7. SameStart(r) /\ Faithful(r)
  BY <1>4 DEF SameStart, Faithful, Moved
<1>8. ~abandoned => Untouched(r)
  <2> SUFFICES ASSUME ~abandoned, desk.pc \in {"start", "stopAll", "wait", "ready"}
               PROVE  desk.id \notin rpc'[r].todo /\ desk.id # rpc'[r].on
    BY DEF Untouched
  <2>1. r \in {desk.req, desk.upd}
    BY <1>1 DEF Alone
  <2>2. rpc[r].op # "stop" /\ desk.id # 0
    BY <2>1 DEF DeskSound
  <2>. QED  BY <1>1, <1>3, <1>4, <2>2 DEF Moved
<1>. QED  BY <1>0, <1>1, <1>4, <1>6, <1>7, <1>8, QuietStep DEF Moved

LEMMA StopWaitedKeeps ==
    ASSUME HelperInv, NEW r \in HelperRequests, HS!StopWaited(r)
    PROVE  HelperInv'
<1>. USE HelperFields DEF HelperInv
<1>0. rpc[r].pc = "stopping" /\ UNCHANGED <<sess, dns>> /\ HS!HelperFrame /\ RpcSound(r)
  BY DEF HS!StopWaited, RpcsSound
<1>1. ToWaited(r, 0) \/ ToMissed(r, 0, "error")
  BY DEF HS!StopWaited, ToWaited, ToMissed
<1>2. 0 \in 0..HelperIds /\ "error" \in Results
  BY HelperNumbers DEF Results
<1>3. \E res \in Results : Moved(r, "stopping", rpc[r].todo, 0, res)
  <2>1. rpc[r].res \in Results /\ rpc[r].op # "none"
    BY <1>0 DEF RpcSound, HS!NoRpc
  <2>2. ToWaited(r, 0) => Moved(r, rpc[r].pc, rpc[r].todo, 0, rpc[r].res)
    BY <1>2, RequestShapes
  <2>3. ToMissed(r, 0, "error") => Moved(r, rpc[r].pc, rpc[r].todo, 0, "error")
    BY <1>2, RequestShapes
  <2>. QED  BY <1>0, <1>1, <1>2, <2>1, <2>2, <2>3
<1>4. PICK res \in Results : Moved(r, "stopping", rpc[r].todo, 0, res)
  BY <1>3
<1>5. rpc[r].op # "none" /\ "stopping" \in PlacesOf(rpc[r].op)
  BY <1>0 DEF RpcSound, HS!NoRpc
<1>6. rpc[r].op = "start" => StartSound(r)'
  BY <1>0, <1>4 DEF StartSound, Moved, RpcSound
<1>7. \A i \in rpc[r].todo : sess[i].pc # "none"
  BY <1>0 DEF RpcSound
<1>. QED  BY <1>0, <1>4, <1>5, <1>6, <1>7, MovedKeeps

LEMMA AwaitKeeps ==
    ASSUME HelperInv, NEW r \in HelperRequests, HS!Await(r)
    PROVE  HelperInv'
<1>. USE HelperFields DEF HelperInv
<1>0. rpc[r].pc = "await" /\ UNCHANGED <<sess, dns>> /\ HS!HelperFrame /\ RpcSound(r)
  BY DEF HS!Await, RpcsSound
<1>1. PICK res \in {"ok", "error", "inUse"} : ToAnswer(r, "reply", res)
  BY DEF HS!Await, HS!Result, ToAnswer
<1>2. Moved(r, "reply", rpc[r].todo, rpc[r].on, res)
  BY <1>1, RequestShapes, ZenonT(40) DEF RpcPlaces, Results
<1>3. rpc[r].op = "start" /\ rpc[r].todo = {} /\ rpc[r].on = 0
  BY <1>0 DEF RpcSound, PlacesOf, HS!NoRpc
<1>4. StartSound(r)'
  BY <1>0, <1>2, <1>3 DEF StartSound, Moved, RpcSound, Settled
<1>. QED  BY <1>0, <1>2, <1>3, <1>4, MovedKeeps DEF PlacesOf

(* The steps of an update, until it applies the settings.                  *)
LEMMA UpdateMovesKeep ==
    ASSUME HelperInv, NEW r \in HelperRequests, HS!UpdateLookup(r) \/ HS!UpdateLock(r)
    PROVE  HelperInv'
<1>. USE HelperFields DEF HelperInv
<1>0. /\ rpc[r].pc \in {"recv", "lock"} /\ sess' = sess /\ dns' \in {dns, HS!Users}
      /\ HS!HelperFrame /\ RpcSound(r)
  BY DEF HS!UpdateLookup, HS!UpdateLock, RpcsSound
<1>1. rpc[r].op = "update" /\ rpc[r].todo = {} /\ rpc[r].on = 0
  BY <1>0 DEF HS!UpdateLookup, HS!UpdateLock, RpcSound, PlacesOf, HS!NoRpc
<1>2. \/ ToAnswer(r, "reply", "error")
      \/ ToPlace(r, "lock")
      \/ ToPlace(r, "apply") /\ sess[rpc[r].id].pc \in {"running", "exited"}
  BY SMTT(30), <1>0, <1>1 DEF HS!UpdateLookup, HS!UpdateLock, HS!Result, ToAnswer, ToPlace, RpcSound, HS!InMap, Settled
<1>3. PICK pc \in {"reply", "lock", "apply"}, res \in Results :
         /\ Moved(r, pc, rpc[r].todo, rpc[r].on, res)
         /\ pc = "apply" => sess[rpc[r].id].pc \in {"running", "exited"}
  BY <1>2, RequestShapes DEF RpcPlaces, Results
<1>. QED  BY <1>0, <1>1, <1>3, MovedKeeps DEF PlacesOf

(* A request is over.                                                      *)
LEMMA OverKeeps ==
    ASSUME HelperInv, NEW r \in HelperRequests, HS!Step(r, HS!NoRpc), rpc[r].op # "none",
           rpc[r].op = "undo" \/ ~rpc[r].client, UNCHANGED <<sess, dns>>, HS!HelperFrame
    PROVE  HelperInv'
<1>. USE HelperFields DEF HelperInv
<1>1. HS!NoRpc \in RpcRecord
  BY HelperNumbers DEF RpcRecord, HS!NoRpc, Results, RpcPlaces
<1>2. /\ rpc' \in [HelperRequests -> RpcRecord] /\ rpc'[r] = HS!NoRpc
      /\ \A q \in HelperRequests \ {r} : rpc'[q] = rpc[q]
  BY <1>1, RpcPut
<1>3. RpcSound(r)' /\ SameStart(r) /\ Faithful(r)
  BY <1>2 DEF RpcSound, HS!NoRpc, SameStart, Faithful
<1>4. Untouched(r)
  <2>1. desk.pc \in {"start", "stopAll", "wait", "ready"} => desk.id # 0
    BY DEF DeskSound
  <2>. QED  BY <1>2, <2>1 DEF HS!NoRpc, Untouched
<1>. QED  BY <1>2, <1>3, <1>4, QuietStep DEF HS!NoRpc

LEMMA StoppedKeeps ==
    ASSUME HelperInv, NEW r \in HelperRequests, HS!Stopped(r)
    PROVE  HelperInv'
<1>. USE HelperFields DEF HelperInv
<1>0. /\ rpc[r].pc = "stopping" /\ rpc[r].todo = {} /\ rpc[r].on = 0
      /\ UNCHANGED <<sess, dns>> /\ HS!HelperFrame /\ RpcSound(r)
  BY DEF HS!Stopped, RpcsSound
<1>1. rpc[r].op \in {"start", "undo", "stopAll", "stop"}
  BY <1>0, HelperFields DEF RpcSound, PlacesOf, HS!NoRpc, RpcRecord
<1>2. CASE rpc[r].op = "start"
  <2>1. ToAnswer(r, "register", "none")
    BY <1>2 DEF HS!Stopped, ToAnswer
  <2>2. Moved(r, "register", rpc[r].todo, rpc[r].on, "none")
    BY <2>1, RequestShapes DEF RpcPlaces, Results
  <2>3. StartSound(r)'
    BY <1>0, <1>2, <2>2 DEF StartSound, Moved, RpcSound
  <2>. QED  BY <1>0, <1>2, <2>2, <2>3, MovedKeeps DEF PlacesOf
<1>3. CASE rpc[r].op = "undo"
  <2>1. HS!Step(r, HS!NoRpc)
    BY <1>3 DEF HS!Stopped
  <2>. QED  BY <1>0, <1>3, <2>1, OverKeeps
<1>4. CASE rpc[r].op \in {"stopAll", "stop"}
  <2>1. \E res \in {"ok", "error"} : ToAnswer(r, "reply", res)
    BY <1>4 DEF HS!Stopped, HS!Result, ToAnswer
  <2>2. PICK res \in {"ok", "error"} : ToAnswer(r, "reply", res)
    BY <2>1
  <2>3. Moved(r, "reply", rpc[r].todo, rpc[r].on, res)
    BY <2>2, RequestShapes DEF RpcPlaces, Results
  <2>. QED  BY <1>0, <1>4, <2>3, MovedKeeps DEF PlacesOf
<1>. QED  BY <1>1, <1>2, <1>3, <1>4

(* The answer, or the end of a start nobody waits for.                     *)
LEMMA ReplyKeeps ==
    ASSUME HelperInv, NEW r \in HelperRequests, HS!Reply(r)
    PROVE  HelperInv'
<1>. USE HelperFields DEF HelperInv
<1>0. rpc[r].pc = "reply" /\ UNCHANGED <<sess, dns>> /\ HS!HelperFrame /\ RpcSound(r)
  BY DEF HS!Reply, RpcsSound
<1>1. /\ rpc[r].op # "none" /\ rpc[r].todo = {} /\ rpc[r].on = 0
      /\ "reply" \in PlacesOf(rpc[r].op) /\ "answered" \in PlacesOf(rpc[r].op)
  BY <1>0 DEF RpcSound, HS!NoRpc, PlacesOf
<1>2. CASE rpc[r].client
  <2>1. ToPlace(r, "answered")
    BY <1>2 DEF HS!Reply, ToPlace
  <2>2. Moved(r, "answered", rpc[r].todo, rpc[r].on, rpc[r].res)
    BY <2>1, RequestShapes DEF RpcPlaces
  <2>3. rpc[r].op = "start" => StartSound(r)'
    BY <1>0, <2>2 DEF StartSound, Moved, RpcSound, Settled
  <2>. QED  BY <1>0, <1>1, <2>2, <2>3, MovedKeeps
<1>3. CASE ~rpc[r].client /\ rpc[r].op = "start" /\ rpc[r].res = "ok"
  <2> DEFINE d == rpc[r]
             f == [d EXCEPT !.pc = "stopping", !.todo = {d.id}, !.op = "undo"]
  <2>1. HS!Step(r, f)
    BY <1>3 DEF HS!Reply
  <2>2. d \in RpcRecord /\ d.id \in HS!Ids
    BY <1>0, <1>3, HelperNumbers DEF RpcSound, HS!Ids
  <2>. HIDE DEF d
  <2>3. /\ f \in RpcRecord /\ f.pc = "stopping" /\ f.todo = {d.id} /\ f.op = "undo"
        /\ f.id = d.id /\ f.on = d.on /\ f.client = d.client
    BY <2>2 DEF RpcRecord, RpcPlaces
  <2>. HIDE DEF f
  <2>4. /\ rpc' \in [HelperRequests -> RpcRecord] /\ rpc'[r] = f
        /\ \A q \in HelperRequests \ {r} : rpc'[q] = rpc[q]
    BY <2>1, <2>3, RpcPut
  <2>5. Settled(rpc[r].id)
    BY <1>0, <1>3 DEF RpcSound, StartSound
  <2>6. RpcSound(r)'
    BY <1>0, <1>1, <1>3, <2>3, <2>4, <2>5 DEF RpcSound, Settled, PlacesOf, d, HS!HelperFrame
  <2>7. SameStart(r) /\ Faithful(r)
    BY <1>3, <2>3, <2>4 DEF SameStart, Faithful
  <2>8. abandoned
    <3> SUFFICES ASSUME ~abandoned  PROVE FALSE
      OBVIOUS
    <3>1. r \in {desk.req, desk.upd}
      BY <1>1 DEF Alone
    <3>2. desk.pc \in {"idle", "start", "stopAll", "again", "wait", "ready", "close"}
      BY DEF DeskRecord
    <3>. QED  BY <1>3, <3>1, <3>2 DEF DeskSound
  <2>. QED  BY <1>0, <1>1, <2>3, <2>4, <2>6, <2>7, <2>8, QuietStep
<1>4. CASE ~rpc[r].client /\ ~(rpc[r].op = "start" /\ rpc[r].res = "ok")
  <2>1. HS!Step(r, HS!NoRpc)
    BY <1>4 DEF HS!Reply
  <2>. QED  BY <1>0, <1>1, <1>4, <2>1, OverKeeps
<1>. QED  BY <1>2, <1>3, <1>4

(* Sessions that have been started go on: to be asked to end, to end, to   *)
(* be cleaned up after, with other settings.                               *)
GoesOn(i) ==
    /\ sess' \in [HS!Ids -> [pc : {"none", "starting", "dns", "running", "exited", "restored", "gone"},
                             asked : {"no", "term", "kill"}, ver : 0..HelperVersions]]
    /\ \A j \in HS!Ids \ {i} : sess'[j] = sess[j]
    /\ \/ sess[i].pc = "running" /\ sess'[i].pc \in {"running", "exited"}
       \/ sess[i].pc = "exited" /\ sess'[i].pc \in {"exited", "restored"}
       \/ sess[i].pc = "restored" /\ sess'[i].pc \in {"restored", "gone"}
    /\ sess'[i].pc \in Cored => sess'[i].ver # 0

LEMMA GoesOnSound ==
    ASSUME HelperInv, NEW i \in HS!Ids, GoesOn(i), nextId' = nextId,
           dns' # HS!Users => dns'[1] \in HS!Ids /\ sess'[dns'[1]].pc \in Cored
    PROVE  /\ SessionsSound'
           /\ \A q \in HelperRequests :
                (rpc[q].pc = "apply" /\ rpc[q].id = i => sess'[i].pc # "restored") => Flows(q)
           /\ \A j \in HS!Ids : /\ Settled(j) => Settled(j)'
                                /\ sess[j].pc = "none" => sess'[j].pc = "none"
<1>. USE HelperFields DEF HelperInv
<1>1. \A j \in HS!Ids : /\ Settled(j) => Settled(j)'
                        /\ sess[j].pc = "none" => sess'[j] = sess[j]
                        /\ sess[j].pc # "none" => sess'[j].pc # "none"
                        /\ j # i => sess'[j] = sess[j]
  BY DEF GoesOn, Settled
<1>2. \A q \in HelperRequests :
         (rpc[q].pc = "apply" /\ rpc[q].id = i => sess'[i].pc # "restored") => Flows(q)
  <2> SUFFICES ASSUME NEW q \in HelperRequests,
                      rpc[q].pc = "apply" /\ rpc[q].id = i => sess'[i].pc # "restored"
               PROVE  Flows(q)
    OBVIOUS
  <2>0. RpcSound(q)
    BY DEF RpcsSound
  <2>1. rpc[q].pc = "apply" => rpc[q].id \in HS!Ids
    BY <2>0, HelperNumbers DEF RpcSound, PlacesOf, HS!NoRpc, HS!Ids, RpcRecord
  <2>2. rpc[q].op = "start" => rpc[q].id \in HS!Ids
    BY <2>0, HelperNumbers DEF RpcSound, HS!Ids
  <2>3. rpc[q].pc = "apply" /\ sess[rpc[q].id].pc \in {"running", "exited"} =>
           sess'[rpc[q].id].pc \in {"running", "exited"}
    BY <1>1, <2>1 DEF GoesOn
  <2>4. rpc[q].op = "start" /\ ~Settled(rpc[q].id) => sess'[rpc[q].id].pc = sess[rpc[q].id].pc
    BY <1>1, <2>2 DEF GoesOn, Settled
  <2>. QED  BY <1>1, <2>3, <2>4 DEF Flows
<1>3. HS!InMap' \subseteq HS!InMap
  BY DEF GoesOn, HS!InMap
<1>4. SessionsSound'
  <2>1. \A j, k \in HS!InMap' : j = k
    BY <1>3 DEF SessionsSound
  <2>2. \A j \in HS!Ids : /\ sess'[j].pc = "none" => sess'[j] = HS!NoSess
                          /\ sess'[j].pc # "none" => j <= nextId
                          /\ sess'[j].pc \in Cored => sess'[j].ver # 0
    BY <1>1 DEF GoesOn, SessionsSound
  <2>. QED  BY <2>1, <2>2 DEF SessionsSound, HS!Users, HS!NoSess
<1>. QED  BY <1>1, <1>2, <1>4

SessRecord ==
    [pc : {"none", "starting", "dns", "running", "exited", "restored", "gone"},
     asked : {"no", "term", "kill"}, ver : 0..HelperVersions]

LEMMA SessFields ==
    ASSUME NEW s \in SessRecord, NEW pc \in {"starting", "dns", "running", "exited", "restored"},
           NEW asked \in {"no", "term", "kill"}, NEW ver \in 0..HelperVersions
    PROVE  /\ [s EXCEPT !.pc = pc] \in SessRecord /\ [s EXCEPT !.pc = pc].pc = pc
           /\ [s EXCEPT !.pc = pc].asked = s.asked /\ [s EXCEPT !.pc = pc].ver = s.ver
           /\ [s EXCEPT !.asked = asked] \in SessRecord /\ [s EXCEPT !.asked = asked].pc = s.pc
           /\ [s EXCEPT !.asked = asked].ver = s.ver /\ [s EXCEPT !.asked = asked].asked = asked
           /\ [s EXCEPT !.ver = ver] \in SessRecord /\ [s EXCEPT !.ver = ver].pc = s.pc
           /\ [s EXCEPT !.ver = ver].ver = ver /\ [s EXCEPT !.ver = ver].asked = s.asked
           /\ [s EXCEPT !.pc = pc, !.ver = ver] \in SessRecord
           /\ [s EXCEPT !.pc = pc, !.ver = ver].pc = pc /\ [s EXCEPT !.pc = pc, !.ver = ver].ver = ver
           /\ [s EXCEPT !.pc = pc, !.ver = ver].asked = s.asked
  BY DEF SessRecord

LEMMA GoneFields ==
    /\ HS!Gone \in SessRecord /\ HS!Gone.pc = "gone" /\ HS!Gone.asked = "no" /\ HS!Gone.ver = 0
    /\ HS!NoSess.pc = "none" /\ HS!NoSess.asked = "no" /\ HS!NoSess.ver = 0 /\ HS!NoSess \in SessRecord
  BY HelperNumbers DEF HS!Gone, HS!NoSess, SessRecord

(* One session is changed.                                                 *)
PutSess(i, s) == sess' = [sess EXCEPT ![i] = s]

LEMMA SessPut ==
    ASSUME HelperTyped, NEW i \in HS!Ids, NEW s \in SessRecord, PutSess(i, s)
    PROVE  /\ sess' \in [HS!Ids -> SessRecord] /\ sess'[i] = s
           /\ \A j \in HS!Ids \ {i} : sess'[j] = sess[j]
  BY DEF HelperTyped, HS!TypeOK, SessRecord, PutSess

LEMMA SessNow ==
    ASSUME HelperTyped
    PROVE  /\ sess \in [HS!Ids -> SessRecord]
           /\ \A i \in HS!Ids : /\ sess[i] \in SessRecord /\ sess[i].ver \in 0..HelperVersions
                                /\ sess[i].asked \in {"no", "term", "kill"}
           /\ dns \in {HS!Users} \cup (HS!Ids \X (1..HelperVersions))
           /\ dns # HS!Users => dns[1] \in HS!Ids
           /\ HS!Users[1] = 0 /\ 0 \notin HS!Ids
           /\ crashes \in 0..HelperCrashes /\ abandoned \in BOOLEAN
  BY DEF HelperTyped, HS!TypeOK, SessRecord, HS!Users, HS!Ids

(* The type of the next state, from its parts.                             *)
SessionsTyped ==
    /\ sess' \in [HS!Ids -> SessRecord]
    /\ dns' \in {HS!Users} \cup (HS!Ids \X (1..HelperVersions)) /\ quits' \subseteq HS!Ids

LEMMA HelperTypes ==
    ASSUME SessionsTyped, rpc' \in [HelperRequests -> RpcRecord], desk' \in DeskRecord,
           nextId' \in 0..HelperIds, crashes' \in 0..HelperCrashes, abandoned' \in BOOLEAN
    PROVE  HelperTyped'
  BY DEF HelperTyped, HS!TypeOK, SessionsTyped, SessRecord, HS!Users

(* A session goes on, while no request moves.                              *)
LEMMA CoreStep ==
    ASSUME HelperInv, NEW i \in HS!Ids, GoesOn(i), SessionsTyped, rpc' = rpc,
           dns' # HS!Users => dns'[1] \in HS!Ids /\ sess'[dns'[1]].pc \in Cored,
           UNCHANGED <<desk, nextId, crashes, abandoned>>,
           \A q \in HelperRequests : rpc[q].pc = "apply" /\ rpc[q].id = i => sess'[i].pc # "restored",
           Alone'
    PROVE  HelperInv'
<1>. USE HelperFields, SessNow DEF HelperInv
<1>1. HelperTyped'
  BY HelperTypes
<1>2. /\ SessionsSound' /\ \A q \in HelperRequests : Flows(q)
      /\ \A j \in HS!Ids : (Settled(j) => Settled(j)') /\ (sess[j].pc = "none" => sess'[j].pc = "none")
  BY GoesOnSound
<1>3. nextId \in Nat /\ nextId' \in Nat /\ nextId <= nextId'
  BY HelperNumbers
<1>4. \A q \in HelperRequests : RpcSound(q)'
  BY <1>2, <1>3, OtherRequest DEF RpcsSound
<1>5. RpcsSound'
  BY <1>4 DEF RpcsSound
<1>6. DeskSound'
  <2>1. \A q \in HelperRequests : Faithful(q) /\ SameStart(q)
    BY DEF Faithful, SameStart
  <2>. QED  BY <1>2, <2>1, DeskKept
<1>. QED  BY <1>1, <1>2, <1>5, <1>6

(* The desktop's own session, when another one goes on.                    *)
LEMMA StrangerKeepsAlone ==
    ASSUME HelperInv, NEW i \in HS!Ids, GoesOn(i), UNCHANGED <<desk, abandoned>>, quits' = quits,
           ~abandoned /\ desk.pc \in {"start", "stopAll", "wait", "ready"} => desk.id # i,
           dns' = dns \/ (dns' = HS!Users /\ sess[i].pc = "exited"),
           \A q \in HelperRequests :
               /\ rpc'[q].op = rpc[q].op /\ rpc'[q].pc = rpc[q].pc /\ rpc'[q].ver = rpc[q].ver
               /\ rpc'[q].todo \subseteq rpc[q].todo
               /\ rpc'[q].on \in {rpc[q].on} \cup rpc[q].todo
    PROVE  Alone'
<1>. USE HelperFields, SessNow DEF HelperInv
<1>1. SUFFICES ASSUME ~abandoned
               PROVE  Alone'
  BY DEF Alone
<1>2. \A q \in HelperRequests : rpc'[q].op # "none" => q \in {desk.req, desk.upd}
  BY <1>1 DEF Alone
<1>3. desk.pc \in {"start", "stopAll", "wait", "ready"} => desk.id \in HS!Ids /\ desk.id # i
  BY <1>1, HelperNumbers DEF DeskSound, HS!Ids
<1>4. desk.pc \in {"start", "stopAll", "wait", "ready"} => sess'[desk.id] = sess[desk.id]
  BY <1>3 DEF GoesOn
<1>5. desk.pc \in {"start", "stopAll", "wait", "ready"} =>
         /\ sess'[desk.id].asked = "no"
         /\ \A r \in HelperRequests : desk.id \notin rpc'[r].todo /\ desk.id # rpc'[r].on
         /\ sess'[desk.id].ver <= IF desk.pc \in {"wait", "ready"} THEN desk.ver ELSE 1
  BY <1>1, <1>4 DEF Alone
<1>6. desk.pc \in {"start", "stopAll", "wait", "ready"} /\ sess[desk.id].pc \in {"dns", "running"} => dns' = dns
  BY <1>3 DEF SessionsSound, HS!InMap
<1>7. desk.pc \in {"start", "stopAll", "wait", "ready"} /\ sess'[desk.id].pc \in {"dns", "running"} =>
         dns'[1] = desk.id \/ (desk.pc = "ready" /\ sess'[desk.id].ver < desk.ver)
  BY <1>1, <1>4, <1>6 DEF Alone
<1>8. desk.pc = "ready" =>
         /\ sess'[desk.id].pc = "running" \/ desk.id \in quits
         /\ desk.upd # 0 /\ rpc'[desk.upd].pc \in {"recv", "lock", "apply"} =>
              rpc'[desk.upd].ver = desk.ver /\ sess'[desk.id].ver < desk.ver
  BY <1>1, <1>4 DEF Alone
<1>9. desk.pc = "wait" => desk.ver = 1
  BY <1>1 DEF Alone
<1>. QED  BY <1>2, <1>5, <1>7, <1>8, <1>9 DEF Alone

LEMMA StopOneKeeps ==
    ASSUME HelperInv, NEW r \in HelperRequests, HS!StopOne(r)
    PROVE  HelperInv'
<1>. USE HelperFields, SessNow DEF HelperInv
<1>0. /\ rpc[r].pc = "stopping" /\ rpc[r].on = 0 /\ dns' = dns /\ HS!HelperFrame /\ RpcSound(r)
      /\ UNCHANGED <<desk, nextId, crashes, abandoned, quits>>
  BY DEF HS!StopOne, RpcsSound, HS!HelperFrame
<1>1. rpc[r].op # "none" /\ "stopping" \in PlacesOf(rpc[r].op) /\ 0 \in 0..HelperIds
  BY SMTT(30), <1>0, HelperNumbers DEF RpcSound, HS!NoRpc
<1>2. PICK i \in rpc[r].todo :
         IF i \in HS!InMap /\ HS!HasCmd(i)
         THEN /\ sess' = IF sess[i].asked = "no" THEN [sess EXCEPT ![i].asked = "term"] ELSE sess
              /\ ToNext(r, rpc[r].todo \ {i}, i)
         ELSE /\ ToSkip(r, rpc[r].todo \ {i}, IF i \in HS!InMap THEN "error" ELSE rpc[r].res)
              /\ UNCHANGED sess
  BY DEF HS!StopOne, ToNext, ToSkip
<1>3. i \in HS!Ids /\ i \in 0..HelperIds /\ rpc[r].todo \ {i} \in SUBSET HS!Ids /\ sess[i].pc # "none"
  BY <1>0 DEF HS!Ids, RpcSound
<1>4. rpc[r].op = "start" => sess[rpc[r].id].pc = "none"
  BY <1>0 DEF RpcSound, StartSound
<1>5. CASE ~(i \in HS!InMap /\ HS!HasCmd(i))
  <2> DEFINE res == IF i \in HS!InMap THEN "error" ELSE rpc[r].res
  <2>1. res \in Results
    BY DEF Results
  <2>2. ToSkip(r, rpc[r].todo \ {i}, res) /\ sess' = sess
    BY <1>2, <1>5
  <2>. HIDE DEF res
  <2>3. Moved(r, "stopping", rpc[r].todo \ {i}, 0, res)
    <3> DEFINE rest == rpc[r].todo \ {i}
    <3>1. rest \in SUBSET HS!Ids /\ ToSkip(r, rest, res)
      BY <1>3, <2>2
    <3>. HIDE DEF rest
    <3>2. Moved(r, rpc[r].pc, rest, rpc[r].on, res)
      BY <1>1, <2>1, <3>1, RequestShapes
    <3>. QED  BY <1>0, <3>2 DEF rest
  <2>4. rpc[r].op = "start" => StartSound(r)'
    BY <1>4, <2>2, <2>3 DEF StartSound, Moved
  <2>5. \A j \in rpc[r].todo : sess[j].pc # "none"
    BY <1>0 DEF RpcSound
  <2>. QED  BY <1>0, <1>1, <2>2, <2>3, <2>4, <2>5, MovedKeeps
<1>6. CASE i \in HS!InMap /\ HS!HasCmd(i)
  <2> DEFINE s == IF sess[i].asked = "no" THEN [sess[i] EXCEPT !.asked = "term"] ELSE sess[i]
  <2>0. sess[i].pc \in {"running", "exited", "restored"}
    BY <1>6 DEF HS!HasCmd
  <2>1. PutSess(i, s)
    <3>1. CASE sess[i].asked = "no"
      BY <1>2, <1>6, <3>1 DEF PutSess
    <3>2. CASE sess[i].asked # "no"
      <4>1. sess' = sess /\ s = sess[i]
        BY <1>2, <1>6, <3>2
      <4>. HIDE DEF s
      <4>. QED  BY <1>3, <4>1 DEF PutSess
    <3>. QED  BY <3>1, <3>2
  <2>2. s \in SessRecord /\ s.pc = sess[i].pc /\ s.ver = sess[i].ver
    <3>. DEFINE d == sess[i]
    <3>1. d \in SessRecord
      BY <1>3
    <3>. HIDE DEF d
    <3>2. LET e == [d EXCEPT !.asked = "term"] IN e \in SessRecord /\ e.pc = d.pc /\ e.ver = d.ver
      BY <3>1 DEF SessRecord
    <3>. QED  BY <3>1, <3>2 DEF d
  <2>. HIDE DEF s
  <2>3. sess' \in [HS!Ids -> SessRecord] /\ sess'[i] = s /\ \A j \in HS!Ids \ {i} : sess'[j] = sess[j]
    BY <1>3, <2>1, <2>2, SessPut
  <2>4. Moved(r, "stopping", rpc[r].todo \ {i}, i, rpc[r].res)
    <3> DEFINE rest == rpc[r].todo \ {i}
    <3>1. rest \in SUBSET HS!Ids /\ ToNext(r, rest, i)
      BY <1>2, <1>3, <1>6
    <3>. HIDE DEF rest
    <3>2. Moved(r, rpc[r].pc, rest, i, rpc[r].res)
      BY <1>3, <3>1, RequestShapes
    <3>. QED  BY <1>0, <3>2 DEF rest
  <2>5. GoesOn(i)
    BY <1>3, <2>0, <2>2, <2>3 DEF GoesOn, SessRecord, SessionsSound
  <2>6. dns' # HS!Users => dns'[1] \in HS!Ids /\ sess'[dns'[1]].pc \in Cored
    BY <1>0, <2>2, <2>3 DEF SessionsSound
  <2>7. /\ SessionsSound' /\ \A q \in HelperRequests : Flows(q)
        /\ \A j \in HS!Ids : (Settled(j) => Settled(j)') /\ (sess[j].pc = "none" => sess'[j].pc = "none")
    <3>1. \A q \in HelperRequests : rpc[q].pc = "apply" /\ rpc[q].id = i => sess'[i].pc # "restored"
      <4> SUFFICES ASSUME NEW q \in HelperRequests, rpc[q].pc = "apply", rpc[q].id = i
                   PROVE  sess[i].pc # "restored"
        BY <2>2, <2>3
      <4>1. RpcSound(q)
        BY DEF RpcsSound
      <4>2. rpc[q].op = "update"
        BY <4>1 DEF RpcSound, PlacesOf, HS!NoRpc, RpcRecord
      <4>. QED  BY <4>1, <4>2 DEF RpcSound
    <3>. QED  BY <1>0, <1>3, <2>5, <2>6, <3>1, GoesOnSound
  <2>8. RpcSound(r)'
    <3>1. sess'[i].pc # "none" /\ \A j \in rpc[r].todo : sess'[j].pc # "none"
      BY <1>0, <2>7, <1>3 DEF RpcSound, Flows
    <3>2. rpc[r].op = "start" => StartSound(r)'
      BY <1>0, <1>4, <2>4, <2>7, HelperNumbers DEF StartSound, Moved, RpcSound, HS!Ids
    <3>3. rpc[r].op \in {"stop", "undo", "start", "stopAll"}
      BY <1>0, <1>1 DEF PlacesOf, RpcRecord
    <3>5. rpc[r].op = "stop" => Settled(rpc[r].id) /\ rpc[r].id \in HS!Ids
      BY <1>0, HelperNumbers DEF RpcSound, HS!Ids
    <3>4. rpc[r].op = "stop" => Settled(rpc[r].id)' /\ rpc'[r].id = rpc[r].id
      BY <2>4, <2>7, <3>5 DEF Settled, Moved
    <3>. QED  BY <1>0, <1>1, <2>4, <3>1, <3>2, <3>3, <3>4 DEF RpcSound, Moved
  <2>9. SameStart(r) /\ Faithful(r)
    BY <2>4 DEF SameStart, Faithful, Moved
  <2>10. RpcsSound'
    BY <1>0, <2>4, <2>7, <2>8, <2>9, RequestsKept DEF Moved
  <2>11. DeskSound'
    <3>1. \A q \in HelperRequests : Faithful(q) /\ SameStart(q)
      BY <2>4, <2>9 DEF Faithful, SameStart, Moved
    <3>. QED  BY <1>0, <2>7, <3>1, DeskKept
  <2>12. Alone'
    <3>1. ~abandoned /\ desk.pc \in {"start", "stopAll", "wait", "ready"} => desk.id # i
      BY DEF Alone
    <3>2. \A q \in HelperRequests :
             /\ rpc'[q].op = rpc[q].op /\ rpc'[q].pc = rpc[q].pc /\ rpc'[q].ver = rpc[q].ver
             /\ rpc'[q].todo \subseteq rpc[q].todo
             /\ rpc'[q].on \in {rpc[q].on} \cup rpc[q].todo
      BY <1>0, <2>4 DEF Moved
    <3>. QED  BY <1>0, <1>3, <2>5, <3>1, <3>2, StrangerKeepsAlone
  <2>13. HelperTyped'
    <3>1. SessionsTyped
      BY <1>0, <2>3 DEF SessionsTyped
    <3>. QED  BY <1>0, <2>4, <3>1, HelperTypes DEF Moved
  <2>. QED  BY <2>7, <2>10, <2>11, <2>12, <2>13
<1>. QED  BY <1>5, <1>6

LEMMA ApplyRuns ==
    ASSUME HelperInv, NEW q \in HelperRequests, rpc[q].pc = "apply"
    PROVE  /\ rpc[q].op = "update" /\ rpc[q].id \in HS!Ids /\ rpc[q].ver \in 1..HelperVersions
           /\ sess[rpc[q].id].pc \in {"running", "exited"} /\ rpc[q].todo = {} /\ rpc[q].on = 0
<1>. USE HelperFields DEF HelperInv
<1>1. RpcSound(q)
  BY DEF RpcsSound
<1>2. rpc[q].op = "update"
  BY <1>1 DEF RpcSound, PlacesOf, HS!NoRpc, RpcRecord
<1>. QED  BY <1>1, <1>2, HelperNumbers DEF RpcSound, HS!Ids

LEMMA StopKillKeeps ==
    ASSUME HelperInv, NEW r \in HelperRequests, HS!StopKill(r)
    PROVE  HelperInv'
<1>. USE HelperFields, SessNow DEF HelperInv
<1> DEFINE i == rpc[r].on
<1>0. /\ rpc[r].pc = "stopping" /\ i # 0 /\ sess[i].pc = "running" /\ UNCHANGED <<rpc, dns>>
      /\ UNCHANGED <<desk, nextId, crashes, abandoned, quits>>
      /\ sess' = [sess EXCEPT ![i].asked = "kill"]
  BY DEF HS!StopKill, HS!HelperFrame
<1>1. i \in HS!Ids
  BY <1>0 DEF HS!Ids
<1>. HIDE DEF i
<1> DEFINE s == [sess[i] EXCEPT !.asked = "kill"]
<1>2. PutSess(i, s)
  BY <1>0 DEF PutSess
<1>3. s \in SessRecord /\ s.pc = sess[i].pc /\ s.ver = sess[i].ver
  <2>. DEFINE d == sess[i]
  <2>1. d \in SessRecord
    BY <1>1
  <2>. HIDE DEF d
  <2>2. LET e == [d EXCEPT !.asked = "kill"] IN e \in SessRecord /\ e.pc = d.pc /\ e.ver = d.ver
    BY <2>1 DEF SessRecord
  <2>. QED  BY <2>1, <2>2 DEF d
<1>. HIDE DEF s
<1>4. sess' \in [HS!Ids -> SessRecord] /\ sess'[i] = s /\ \A j \in HS!Ids \ {i} : sess'[j] = sess[j]
  BY <1>1, <1>2, <1>3, SessPut
<1>5. GoesOn(i)
  BY <1>0, <1>1, <1>3, <1>4 DEF GoesOn, SessRecord, SessionsSound
<1>6. dns' # HS!Users => dns'[1] \in HS!Ids /\ sess'[dns'[1]].pc \in Cored
  BY <1>0, <1>3, <1>4 DEF SessionsSound
<1>7. SessionsTyped
  BY <1>0, <1>4 DEF SessionsTyped
<1>8. ~abandoned /\ desk.pc \in {"start", "stopAll", "wait", "ready"} => desk.id # i
  BY DEF Alone, i
<1>9. Alone'
  BY <1>0, <1>1, <1>5, <1>8, StrangerKeepsAlone
<1>10. sess'[i].pc # "restored"
  BY <1>0, <1>3, <1>4
<1>. QED  BY <1>0, <1>1, <1>5, <1>6, <1>7, <1>9, <1>10, CoreStep

(* The desktop's session, when it ends or is cleaned up after.             *)
LEMMA OwnEndKeepsAlone ==
    ASSUME HelperInv, NEW i \in HS!Ids, UNCHANGED <<desk, abandoned, rpc>>, desk.id = i,
           quits \subseteq quits', sess[i].asked = "no" => i \in quits',
           sess'[i].pc \in {"exited", "restored", "gone"}, sess'[i].asked \in {sess[i].asked, "no"},
           sess'[i].ver \in {sess[i].ver, 0}
    PROVE  Alone'
<1>. USE HelperFields, SessNow DEF HelperInv
<1>1. SUFFICES ASSUME ~abandoned
               PROVE  Alone'
  BY DEF Alone
<1>2. desk.pc \in {"start", "stopAll", "wait", "ready"} =>
         /\ sess'[desk.id].asked = "no" /\ i \in quits'
         /\ sess'[desk.id].ver <= IF desk.pc \in {"wait", "ready"} THEN desk.ver ELSE 1
  <2>1. CASE sess'[i].ver = sess[i].ver
    BY <1>1, <2>1 DEF Alone
  <2>2. CASE sess'[i].ver = 0
    BY <1>1, <2>2, HelperNumbers DEF Alone
  <2>. QED  BY <2>1, <2>2
<1>3. desk.pc = "ready" => (desk.upd # 0 /\ rpc[desk.upd].pc \in {"recv", "lock", "apply"} =>
                              rpc[desk.upd].ver = desk.ver /\ sess'[desk.id].ver < desk.ver)
  <2> SUFFICES ASSUME desk.pc = "ready", desk.upd # 0, rpc[desk.upd].pc \in {"recv", "lock", "apply"}
               PROVE  rpc[desk.upd].ver = desk.ver /\ sess'[desk.id].ver < desk.ver
    OBVIOUS
  <2>1. rpc[desk.upd].ver = desk.ver /\ sess[desk.id].ver < desk.ver
    BY <1>1 DEF Alone
  <2>2. sess[i].ver \in Nat /\ desk.ver \in Nat
    BY HelperNumbers
  <2>. QED  BY <2>1, <2>2
<1>. QED  BY <1>1, <1>2, <1>3 DEF Alone

(* The end of a core, and what its waiter does.                            *)
LEMMA CoreKeeps ==
    ASSUME HelperInv, NEW i \in HS!Ids, HS!Exit(i) \/ HS!Restore(i) \/ HS!Remove(i)
    PROVE  HelperInv'
<1>. USE HelperFields, SessNow DEF HelperInv
<1>0. UNCHANGED <<rpc, desk, nextId, crashes, abandoned>>
  BY DEF HS!Exit, HS!Restore, HS!Remove, HS!HelperFrame
<1>1. PICK s \in SessRecord :
         /\ PutSess(i, s) /\ s.asked \in {sess[i].asked, "no"} /\ s.ver \in {sess[i].ver, 0}
         /\ \/ /\ sess[i].pc = "running" /\ s.pc = "exited" /\ dns' = dns /\ s.ver = sess[i].ver
               /\ quits' = IF sess[i].asked = "no" THEN quits \cup {i} ELSE quits
            \/ /\ sess[i].pc = "exited" /\ s.pc = "restored" /\ dns' = HS!Users /\ quits' = quits
               /\ ~HS!Updating(i)
            \/ sess[i].pc = "restored" /\ s.pc = "gone" /\ dns' = dns /\ quits' = quits
  <2>. DEFINE d == sess[i]
  <2>1. d \in SessRecord
    OBVIOUS
  <2>2. CASE HS!Remove(i)
    <3>1. PutSess(i, HS!Gone)
      BY <2>2 DEF HS!Remove, PutSess
    <3>. QED  BY <2>2, <3>1, GoneFields DEF HS!Remove, HS!HelperFrame
  <2>3. CASE HS!Exit(i)
    <3>1. PutSess(i, [d EXCEPT !.pc = "exited"])
      BY <2>3 DEF HS!Exit, PutSess
    <3>2. d.pc = "running" /\ dns' = dns /\ quits' = IF d.asked = "no" THEN quits \cup {i} ELSE quits
      BY <2>3 DEF HS!Exit
    <3>. HIDE DEF d
    <3>3. LET e == [d EXCEPT !.pc = "exited"] IN e \in SessRecord /\ e.pc = "exited" /\ e.ver = d.ver /\ e.asked = d.asked
      BY <2>1 DEF SessRecord
    <3>. QED  BY <3>1, <3>2, <3>3 DEF d
  <2>4. CASE HS!Restore(i)
    <3>1. PutSess(i, [d EXCEPT !.pc = "restored"])
      BY <2>4 DEF HS!Restore, PutSess
    <3>2. d.pc = "exited" /\ dns' = HS!Users /\ quits' = quits /\ ~HS!Updating(i)
      BY <2>4 DEF HS!Restore, HS!HelperFrame
    <3>. HIDE DEF d
    <3>3. LET e == [d EXCEPT !.pc = "restored"] IN e \in SessRecord /\ e.pc = "restored" /\ e.ver = d.ver /\ e.asked = d.asked
      BY <2>1 DEF SessRecord
    <3>. QED  BY <3>1, <3>2, <3>3 DEF d
  <2>. QED  BY <2>2, <2>3, <2>4
<1>2. sess' \in [HS!Ids -> SessRecord] /\ sess'[i] = s /\ \A j \in HS!Ids \ {i} : sess'[j] = sess[j]
  BY <1>1, SessPut
<1>3. GoesOn(i)
  BY <1>1, <1>2 DEF GoesOn, SessRecord, SessionsSound, Cored
<1>4. dns' # HS!Users => dns'[1] \in HS!Ids /\ sess'[dns'[1]].pc \in Cored
  <2> SUFFICES ASSUME dns' # HS!Users
               PROVE  dns'[1] \in HS!Ids /\ sess'[dns'[1]].pc \in Cored
    OBVIOUS
  <2>1. dns' = dns /\ dns[1] \in HS!Ids /\ sess[dns[1]].pc \in Cored
    BY <1>1 DEF SessionsSound
  <2>2. dns[1] = i => s.pc = "exited"
    BY <1>1, <2>1 DEF Cored
  <2>. QED  BY <1>2, <2>1, <2>2 DEF Cored
<1>5. SessionsTyped
  BY <1>1, <1>2 DEF SessionsTyped
<1>6. \A q \in HelperRequests : rpc[q].pc = "apply" /\ rpc[q].id = i => sess'[i].pc # "restored"
  BY <1>1, <1>2 DEF HS!Updating
<1>7. Alone'
  <2>1. CASE ~abandoned /\ desk.pc \in {"start", "stopAll", "wait", "ready"} /\ desk.id = i
    <3>1. CASE sess[i].pc = "running"
      BY <1>0, <1>1, <1>2, <2>1, <3>1, OwnEndKeepsAlone
    <3>2. CASE sess[i].pc # "running"
      <4>1. sess'[i].pc \in {"restored", "gone"} /\ quits' = quits
        BY <1>1, <1>2, <3>2
      <4>2. SUFFICES ASSUME desk.pc # "ready"
                     PROVE  Alone'
        <5>1. desk.pc = "ready" => i \in quits
          BY <2>1, <3>2 DEF Alone
        <5>. QED  BY <1>0, <1>1, <1>2, <2>1, <4>1, <5>1, OwnEndKeepsAlone
      <4>3. sess'[desk.id].asked = "no" /\ sess'[desk.id].ver <= IF desk.pc \in {"wait", "ready"} THEN desk.ver ELSE 1
        <5>1. CASE s.ver = sess[i].ver
          BY <1>1, <1>2, <2>1, <5>1 DEF Alone
        <5>2. CASE s.ver = 0
          BY <1>1, <1>2, <2>1, <5>2, HelperNumbers DEF Alone
        <5>. QED  BY <1>1, <5>1, <5>2
      <4>. QED  BY <1>0, <2>1, <4>1, <4>2, <4>3 DEF Alone
    <3>. QED  BY <3>1, <3>2
  <2>2. CASE ~(~abandoned /\ desk.pc \in {"start", "stopAll", "wait", "ready"} /\ desk.id = i)
    <3>1. CASE quits' = quits
      <4>1. dns' = dns \/ (dns' = HS!Users /\ sess[i].pc = "exited")
        BY <1>1
      <4>. QED  BY <1>0, <1>3, <2>2, <3>1, <4>1, StrangerKeepsAlone
    <3>2. CASE quits' # quits
      <4>1. dns' = dns /\ quits \subseteq quits'
        BY <1>1, <3>2
      <4>2. ~abandoned /\ desk.pc \in {"start", "stopAll", "wait", "ready"} => sess'[desk.id] = sess[desk.id]
        BY <1>2, <2>2, HelperNumbers DEF DeskSound, HS!Ids
      <4>. QED  BY <1>0, <4>1, <4>2 DEF Alone
    <3>. QED  BY <3>1, <3>2
  <2>. QED  BY <2>1, <2>2
<1>. QED  BY <1>0, <1>3, <1>4, <1>5, <1>6, <1>7, CoreStep

(* An update applies its settings, or puts the earlier ones back.          *)
LEMMA UpdateApplyKeeps ==
    ASSUME HelperInv, NEW r \in HelperRequests, HS!UpdateApply(r)
    PROVE  HelperInv'
<1>. USE HelperFields, SessNow DEF HelperInv
<1> DEFINE i == rpc[r].id
           v == rpc[r].ver
<1>0. rpc[r].pc = "apply" /\ UNCHANGED <<desk, nextId, crashes, abandoned, quits>> /\ RpcSound(r)
  BY DEF HS!UpdateApply, HS!HelperFrame, RpcsSound
<1>1. /\ rpc[r].op = "update" /\ i \in HS!Ids /\ v \in 1..HelperVersions
      /\ sess[i].pc \in {"running", "exited"} /\ rpc[r].todo = {} /\ rpc[r].on = 0
  BY <1>0, ApplyRuns
<1>2. \E res \in {"ok", "error"} : ToAnswer(r, "reply", res)
  BY DEF HS!UpdateApply, HS!Result, ToAnswer
<1>3. PICK res \in {"ok", "error"} : ToAnswer(r, "reply", res)
  BY <1>2
<1>4. Moved(r, "reply", {}, 0, res)
  <2>1. Moved(r, "reply", rpc[r].todo, rpc[r].on, res)
    BY ZenonT(60), <1>3, RequestShapes DEF RpcPlaces, Results
  <2>. QED  BY <1>1, <2>1
<1>5. \/ dns' = <<i, v>> /\ sess' = [sess EXCEPT ![i].ver = v]
      \/ dns' \in {<<i, sess[i].ver>>, HS!Users} /\ sess' = sess
  BY DEF HS!UpdateApply
<1>. HIDE DEF i, v
<1>6. PICK s \in SessRecord :
         /\ PutSess(i, s) /\ s.pc = sess[i].pc /\ s.asked = sess[i].asked
         /\ \/ s.ver = v /\ dns' = <<i, v>>
            \/ s.ver = sess[i].ver /\ dns' \in {<<i, sess[i].ver>>, HS!Users}
  <2>. DEFINE d == sess[i]
  <2>1. d \in SessRecord /\ v \in 0..HelperVersions
    BY <1>1
  <2>2. CASE dns' = <<i, v>> /\ sess' = [sess EXCEPT ![i].ver = v]
    <3>1. PutSess(i, [d EXCEPT !.ver = v])
      BY <2>2 DEF PutSess
    <3>. HIDE DEF d
    <3>2. LET e == [d EXCEPT !.ver = v] IN e \in SessRecord /\ e.pc = d.pc /\ e.asked = d.asked /\ e.ver = v
      BY <2>1 DEF SessRecord
    <3>. QED  BY <2>2, <3>1, <3>2 DEF d
  <2>3. CASE dns' \in {<<i, sess[i].ver>>, HS!Users} /\ sess' = sess
    <3>1. PutSess(i, sess[i])
      BY <1>1, <2>3 DEF PutSess
    <3>. QED  BY <2>1, <2>3, <3>1
  <2>. QED  BY <1>5, <2>2, <2>3
<1>7. sess' \in [HS!Ids -> SessRecord] /\ sess'[i] = s /\ \A j \in HS!Ids \ {i} : sess'[j] = sess[j]
  BY <1>1, <1>6, SessPut
<1>8. sess[i].ver \in 1..HelperVersions /\ s.ver \in 1..HelperVersions
  <2>1. sess[i].ver # 0
    BY <1>1 DEF SessionsSound, Cored
  <2>. QED  BY <1>1, <1>6, <2>1, HelperNumbers
<1>9. GoesOn(i)
  BY <1>1, <1>6, <1>7, <1>8 DEF GoesOn, SessRecord
<1>10. dns' \in {HS!Users} \cup (HS!Ids \X (1..HelperVersions)) /\ (dns' # HS!Users => dns'[1] = i)
  BY <1>1, <1>6, <1>8
<1>11. dns' # HS!Users => dns'[1] \in HS!Ids /\ sess'[dns'[1]].pc \in Cored
  BY <1>1, <1>6, <1>7, <1>10 DEF Cored
<1>12. /\ SessionsSound' /\ \A q \in HelperRequests : Flows(q)
       /\ \A j \in HS!Ids : (Settled(j) => Settled(j)') /\ (sess[j].pc = "none" => sess'[j].pc = "none")
  <2>1. sess'[i].pc # "restored"
    BY <1>1, <1>6, <1>7
  <2>. QED  BY <1>0, <1>1, <1>9, <1>11, <2>1, GoesOnSound
<1>13. RpcSound(r)'
  <2>1. sess'[i].pc \in {"running", "exited"}
    BY <1>1, <1>6, <1>7
  <2>. QED  BY <1>0, <1>1, <1>4, <2>1 DEF RpcSound, Moved, PlacesOf, Settled, i, v
<1>14. SameStart(r) /\ Faithful(r)
  BY <1>4 DEF SameStart, Faithful, Moved
<1>15. RpcsSound'
  BY <1>0, <1>4, <1>12, <1>13, <1>14, RequestsKept DEF Moved
<1>16. DeskSound'
  <2>1. \A q \in HelperRequests : Faithful(q) /\ SameStart(q)
    BY <1>4, <1>14 DEF Faithful, SameStart, Moved
  <2>. QED  BY <1>0, <1>12, <2>1, DeskKept
<1>17. HelperTyped'
  <2>1. SessionsTyped
    BY <1>0, <1>7, <1>10 DEF SessionsTyped
  <2>. QED  BY <1>0, <1>4, <2>1, HelperTypes DEF Moved
<1>18. Alone'
  <2>1. SUFFICES ASSUME ~abandoned
                 PROVE  Alone'
    BY <1>0 DEF Alone
  <2>2. r \in {desk.req, desk.upd}
    BY <1>1, <2>1 DEF Alone
  <2>3. desk.pc \in {"idle", "start", "stopAll", "again", "wait", "ready", "close"}
    BY DEF DeskRecord
  <2>4. r = desk.upd /\ desk.pc \in {"ready", "close"} /\ desk.id = i
    BY <1>1, <2>2, <2>3 DEF DeskSound, i
  <2>5. \A q \in HelperRequests : rpc'[q].op # "none" => q \in {desk.req, desk.upd}
    BY <1>4, <2>1, <2>2 DEF Alone, Moved
  <2>6. CASE desk.pc = "ready"
    <3>1. /\ sess[i].asked = "no" /\ v = desk.ver /\ sess[i].ver < desk.ver
          /\ sess[i].pc = "running" \/ i \in quits
          /\ \A q \in HelperRequests : i \notin rpc[q].todo /\ i # rpc[q].on
      BY <1>0, <2>1, <2>4, <2>6 DEF Alone, v
    <3>2. s.asked = "no" /\ s.ver <= desk.ver /\ (s.ver < desk.ver \/ dns' = <<i, v>>)
      BY <1>1, <1>6, <1>8, <3>1, HelperNumbers
    <3>3. i # 0 /\ \A q \in HelperRequests : i \notin rpc'[q].todo /\ i # rpc'[q].on
      BY <1>1, <1>4, <3>1 DEF Moved
    <3>4. dns' = <<i, v>> => dns'[1] = i
      OBVIOUS
    <3>5. sess'[i].pc = "running" \/ i \in quits'
      BY <1>0, <1>6, <1>7, <3>1
    <3>. QED  BY <1>0, <1>4, <1>7, <2>4, <2>5, <2>6, <3>2, <3>3, <3>4, <3>5 DEF Alone, Moved
  <2>7. CASE desk.pc = "close"
    BY <1>0, <2>5, <2>7 DEF Alone
  <2>. QED  BY <2>4, <2>6, <2>7
<1>. QED  BY <1>12, <1>15, <1>16, <1>17, <1>18

(* A start works on its own session.                                       *)
LEMMA FoundStep ==
    ASSUME HelperInv, NEW r \in HelperRequests, rpc[r].op = "start", NEW pc, NEW res,
           Moved(r, pc, {}, 0, res), pc \in {"setup", "exec", "await", "reply"},
           NEW s \in SessRecord, PutSess(rpc[r].id, s), StartSound(r)',
           sess[rpc[r].id].pc \in {"none", "starting", "dns"}, s.pc # "none",
           s.pc \in Cored => s.ver # 0, SessionsTyped,
           \A i, j \in HS!InMap' : i = j,
           dns' # HS!Users => sess'[dns'[1]].pc \in Cored,
           HS!HelperFrame,
           ~abandoned => s.asked = "no" /\ s.ver \in {0, 1},
           ~abandoned /\ s.pc \in {"dns", "running"} => dns'[1] = rpc[r].id
    PROVE  HelperInv'
<1>. USE HelperFields, SessNow DEF HelperInv, Moved
<1> DEFINE i == rpc[r].id
<1>0. UNCHANGED <<desk, nextId, crashes, abandoned, quits>> /\ RpcSound(r)
  BY DEF HS!HelperFrame, RpcsSound
<1>1. i \in HS!Ids /\ i \in 1..nextId
  BY <1>0, HelperNumbers DEF RpcSound, HS!Ids
<1>2. sess' \in [HS!Ids -> SessRecord] /\ sess'[i] = s /\ \A j \in HS!Ids \ {i} : sess'[j] = sess[j]
  BY <1>1, SessPut
<1>3. \A j \in HS!Ids : /\ sess[j].pc # "none" => sess'[j].pc # "none"
                        /\ Settled(j) => Settled(j)'
                        /\ j # i /\ sess[j].pc = "none" => sess'[j].pc = "none"
  BY <1>2 DEF Settled
<1>4. \A q \in HelperRequests \ {r} : Flows(q)
  <2> SUFFICES ASSUME NEW q \in HelperRequests \ {r}
               PROVE  Flows(q)
    OBVIOUS
  <2>0. RpcSound(q)
    BY DEF RpcsSound
  <2>1. rpc[q].pc = "apply" => sess'[rpc[q].id] = sess[rpc[q].id]
    BY <1>2, ApplyRuns
  <2>2. rpc[q].op = "start" => rpc[q].id \in HS!Ids /\ rpc[q].id # i
    BY <2>0, HelperNumbers DEF RpcsSound, RpcSound, HS!Ids
  <2>. QED  BY <1>2, <1>3, <2>1, <2>2 DEF Flows
<1>5. SessionsSound'
  <2>1. \A j \in HS!Ids : /\ sess'[j].pc = "none" => sess'[j] = HS!NoSess
                          /\ sess'[j].pc # "none" => j <= nextId
                          /\ sess'[j].pc \in Cored => sess'[j].ver # 0
    BY <1>1, <1>2 DEF SessionsSound
  <2>. QED  BY <1>0, <2>1 DEF SessionsSound, HS!Users, HS!NoSess
<1>6. RpcSound(r)'
  BY <1>0, <1>1 DEF RpcSound, PlacesOf
<1>7. SameStart(r) /\ Faithful(r)
  BY DEF SameStart, Faithful
<1>8. RpcsSound'
  BY <1>0, <1>4, <1>6, <1>7, RequestsKept
<1>9. DeskSound'
  <2>1. \A q \in HelperRequests : Faithful(q) /\ SameStart(q)
    BY <1>7 DEF Faithful, SameStart
  <2>. QED  BY <1>0, <1>3, <2>1, DeskKept
<1>10. HelperTyped'
  BY <1>0, HelperTypes
<1>11. Alone'
  <2>1. SUFFICES ASSUME ~abandoned
                 PROVE  Alone'
    BY <1>0 DEF Alone
  <2>2. r \in {desk.req, desk.upd}
    BY <2>1 DEF Alone
  <2>3. desk.pc \in {"idle", "start", "stopAll", "again", "wait", "ready", "close"}
    BY DEF DeskRecord
  <2>4. r = desk.req /\ desk.pc = "start" /\ desk.id = i
    BY <2>2, <2>3 DEF DeskSound
  <2>5. \A q \in HelperRequests : rpc'[q].op # "none" => q \in {desk.req, desk.upd}
    BY <2>1, <2>2 DEF Alone
  <2>6. i # 0 /\ \A q \in HelperRequests : i \notin rpc'[q].todo /\ i # rpc'[q].on
    BY <1>1, <2>1, <2>4 DEF Alone
  <2>. HIDE DEF i
  <2>7. sess'[i].asked = "no" /\ sess'[i].ver <= 1 /\ (sess'[i].pc \in {"dns", "running"} => dns'[1] = i)
    BY <1>2, <2>1 DEF i
  <2>. QED  BY <1>0, <2>4, <2>5, <2>6, <2>7 DEF Alone
<1>. QED  BY <1>5, <1>8, <1>9, <1>10, <1>11

LEMMA StartPlaces ==
    ASSUME HelperInv, NEW r \in HelperRequests, rpc[r].pc \in {"register", "setup", "exec"}
    PROVE  /\ rpc[r].op = "start" /\ rpc[r].id \in HS!Ids /\ rpc[r].todo = {} /\ rpc[r].on = 0
           /\ sess[rpc[r].id].pc = IF rpc[r].pc = "register" THEN "none"
                                   ELSE IF rpc[r].pc = "setup" THEN "starting" ELSE "dns"
           /\ rpc[r].pc # "register" /\ ~abandoned => sess[rpc[r].id].asked = "no" /\ sess[rpc[r].id].ver <= 1
           /\ ~abandoned => desk.pc = "start" /\ desk.id = rpc[r].id
<1>. USE HelperFields DEF HelperInv
<1>1. RpcSound(r)
  BY DEF RpcsSound
<1>2. rpc[r].op = "start"
  BY <1>1 DEF RpcSound, PlacesOf, HS!NoRpc, RpcRecord
<1>3. desk.pc \in {"idle", "start", "stopAll", "again", "wait", "ready", "close"}
  BY DEF DeskRecord
<1>4. ~abandoned => desk.pc = "start" /\ desk.id = rpc[r].id
  BY <1>2, <1>3 DEF Alone, DeskSound
<1>. QED  BY <1>1, <1>2, <1>4, HelperNumbers DEF RpcSound, StartSound, HS!Ids, Alone

LEMMA RegisterKeeps ==
    ASSUME HelperInv, NEW r \in HelperRequests, HS!Register(r)
    PROVE  HelperInv'
<1>. USE HelperFields, SessNow DEF HelperInv
<1> DEFINE i == rpc[r].id
<1>0. rpc[r].pc = "register" /\ dns' = dns /\ HS!HelperFrame
  BY DEF HS!Register
<1>1. /\ rpc[r].op = "start" /\ i \in HS!Ids /\ rpc[r].todo = {} /\ rpc[r].on = 0
      /\ sess[i].pc = "none" /\ sess[i] = HS!NoSess
  BY <1>0, StartPlaces DEF SessionsSound
<1>2. CASE HS!InMap # {}
  <2>1. ToAnswer(r, "reply", "busy") /\ sess' = sess
    BY <1>2 DEF HS!Register, HS!Result, ToAnswer
  <2>2. Moved(r, "reply", rpc[r].todo, rpc[r].on, "busy")
    BY <2>1, RequestShapes DEF RpcPlaces, Results
  <2>3. StartSound(r)'
    BY <1>1, <2>1, <2>2 DEF StartSound, Moved
  <2>. QED  BY <1>0, <1>1, <2>1, <2>2, <2>3, MovedKeeps DEF PlacesOf
<1>3. CASE HS!InMap = {}
  <2> DEFINE s == [sess[i] EXCEPT !.pc = "starting"]
  <2>1. ToPlace(r, "setup") /\ PutSess(i, s)
    BY <1>3 DEF HS!Register, ToPlace, PutSess
  <2>2. Moved(r, "setup", rpc[r].todo, rpc[r].on, rpc[r].res)
    BY <2>1, RequestShapes DEF RpcPlaces
  <2>3. s \in SessRecord /\ s.pc = "starting" /\ s.asked = "no" /\ s.ver = 0
    BY <1>1, HelperNumbers DEF HS!NoSess, SessRecord
  <2>. HIDE DEF s
  <2>4. sess' \in [HS!Ids -> SessRecord] /\ sess'[i] = s /\ \A j \in HS!Ids \ {i} : sess'[j] = sess[j]
    BY <1>1, <2>1, <2>3, SessPut
  <2>5. \A j, k \in HS!InMap' : j = k
    BY <1>3, <2>4 DEF HS!InMap
  <2>6. dns = HS!Users
    BY <1>3 DEF SessionsSound, HS!InMap, Cored
  <2>7. StartSound(r)'
    BY <2>2, <2>3, <2>4 DEF StartSound, Moved
  <2>8. SessionsTyped
    BY <1>0, <2>4 DEF SessionsTyped, HS!HelperFrame
  <2>. HIDE DEF i
  <2>9. dns' = HS!Users
    BY <1>0, <2>6
  <2>10. Moved(r, "setup", {}, 0, rpc[r].res)
    BY <1>1, <2>2
  <2>. QED  BY <1>0, <1>1, <2>1, <2>3, <2>5, <2>7, <2>8, <2>9, <2>10, FoundStep DEF i, Cored
<1>. QED  BY <1>2, <1>3

LEMMA SetupKeeps ==
    ASSUME HelperInv, NEW r \in HelperRequests, HS!Setup(r)
    PROVE  HelperInv'
<1>. USE HelperFields, SessNow DEF HelperInv
<1> DEFINE i == rpc[r].id
<1>0. rpc[r].pc = "setup" /\ HS!HelperFrame
  BY DEF HS!Setup
<1>1. /\ rpc[r].op = "start" /\ i \in HS!Ids /\ rpc[r].todo = {} /\ rpc[r].on = 0
      /\ sess[i].pc = "starting" /\ i \in HS!InMap
      /\ ~abandoned => sess[i].asked = "no"
  BY <1>0, StartPlaces DEF HS!InMap
<1>2. dns = HS!Users
  BY <1>1 DEF SessionsSound, HS!InMap, Cored
<1>3. \E pc \in {"exec", "reply"}, res \in Results, s \in SessRecord :
         /\ Moved(r, pc, rpc[r].todo, rpc[r].on, res) /\ PutSess(i, s)
         /\ \/ pc = "exec" /\ s.pc = "dns" /\ s.asked = sess[i].asked /\ s.ver = 1 /\ dns' = <<i, 1>>
            \/ pc = "reply" /\ res = "error" /\ s = HS!Gone /\ dns' = HS!Users
  <2>1. CASE dns' = <<i, 1>> /\ sess' = [sess EXCEPT ![i] = [@ EXCEPT !.pc = "dns", !.ver = 1]]
             /\ HS!Step(r, [rpc[r] EXCEPT !.pc = "exec"])
    <3> DEFINE d == sess[i]
               s == [d EXCEPT !.pc = "dns", !.ver = 1]
    <3>1. PutSess(i, s) /\ ToPlace(r, "exec")
      BY <2>1 DEF PutSess, ToPlace
    <3>2. d \in SessRecord /\ 1 \in 0..HelperVersions
      BY <1>1, HelperNumbers
    <3>. HIDE DEF d
    <3>3. s \in SessRecord /\ s.pc = "dns" /\ s.asked = d.asked /\ s.ver = 1
      BY <3>2 DEF SessRecord
    <3>. HIDE DEF s
    <3>4. Moved(r, "exec", rpc[r].todo, rpc[r].on, rpc[r].res)
      BY <3>1, RequestShapes DEF RpcPlaces
    <3>. QED  BY <2>1, <3>1, <3>3, <3>4 DEF d
  <2>2. CASE dns' \in {dns, HS!Users} /\ sess' = [sess EXCEPT ![i] = HS!Gone] /\ HS!Result(r, "error")
    <3>1. PutSess(i, HS!Gone) /\ ToAnswer(r, "reply", "error")
      BY SMTT(30), <2>2 DEF PutSess, ToAnswer, HS!Result
    <3>2. Moved(r, "reply", rpc[r].todo, rpc[r].on, "error")
      BY <3>1, RequestShapes DEF RpcPlaces, Results
    <3>. QED  BY <1>2, <2>2, <3>1, <3>2, GoneFields DEF Results
  <2>. QED  BY <2>1, <2>2 DEF HS!Setup
<1>. HIDE DEF i
<1>4. PICK pc \in {"exec", "reply"}, res \in Results, s \in SessRecord :
         /\ Moved(r, pc, {}, 0, res) /\ PutSess(i, s)
         /\ \/ pc = "exec" /\ s.pc = "dns" /\ s.asked = sess[i].asked /\ s.ver = 1 /\ dns' = <<i, 1>>
            \/ pc = "reply" /\ res = "error" /\ s = HS!Gone /\ dns' = HS!Users
  BY <1>1, <1>3
<1>5. sess' \in [HS!Ids -> SessRecord] /\ sess'[i] = s /\ \A j \in HS!Ids \ {i} : sess'[j] = sess[j]
  BY <1>1, <1>4, SessPut
<1>6. s.pc \in {"dns", "gone"} /\ s.ver \in {0, 1} /\ (s.pc \in Cored => s.ver # 0)
  BY <1>4, GoneFields DEF Cored
<1>7. \A j, k \in HS!InMap' : j = k
  BY <1>1, <1>5 DEF SessionsSound, HS!InMap
<1>8. dns' # HS!Users => dns' = <<i, 1>> /\ dns'[1] = i /\ s.pc = "dns"
  BY <1>4
<1>9. StartSound(r)'
  <2>1. rpc'[r].id = i
    BY <1>4 DEF Moved, i
  <2>. QED  BY <1>4, <1>5, <2>1, GoneFields DEF StartSound, Moved, Settled
<1>10. SessionsTyped
  <2>1. dns' \in {HS!Users} \cup (HS!Ids \X (1..HelperVersions))
    BY <1>1, <1>4, HelperNumbers
  <2>. QED  BY <1>0, <1>5, <2>1 DEF SessionsTyped, HS!HelperFrame
<1>11. dns' # HS!Users => sess'[dns'[1]].pc \in Cored
  BY <1>5, <1>8 DEF Cored
<1>12. s.pc \in {"dns", "running"} => dns'[1] = i
  BY <1>4, GoneFields
<1>14. s.asked = "no" \/ abandoned
  BY <1>1, <1>4, GoneFields
<1>. QED  BY <1>0, <1>1, <1>4, <1>5, <1>6, <1>7, <1>9, <1>10, <1>11, <1>12, <1>14, FoundStep DEF i

LEMMA ExecKeeps ==
    ASSUME HelperInv, NEW r \in HelperRequests, HS!Exec(r)
    PROVE  HelperInv'
<1>. USE HelperFields, SessNow DEF HelperInv
<1> DEFINE i == rpc[r].id
<1>0. rpc[r].pc = "exec" /\ HS!HelperFrame
  BY DEF HS!Exec
<1>1. /\ rpc[r].op = "start" /\ i \in HS!Ids /\ rpc[r].todo = {} /\ rpc[r].on = 0
      /\ sess[i].pc = "dns" /\ i \in HS!InMap /\ sess[i].ver # 0
      /\ ~abandoned => sess[i].asked = "no" /\ dns[1] = i /\ sess[i].ver <= 1
  <2>1. /\ rpc[r].op = "start" /\ i \in HS!Ids /\ rpc[r].todo = {} /\ rpc[r].on = 0 /\ sess[i].pc = "dns"
        /\ ~abandoned => sess[i].asked = "no" /\ sess[i].ver <= 1 /\ desk.pc = "start" /\ desk.id = i
    BY <1>0, StartPlaces
  <2>2. ~abandoned => dns[1] = i
    BY <2>1 DEF Alone
  <2>. QED  BY <2>1, <2>2 DEF HS!InMap, SessionsSound, Cored
<1>2. \E pc \in {"await", "reply"}, res \in Results, s \in SessRecord :
         /\ Moved(r, pc, rpc[r].todo, rpc[r].on, res) /\ PutSess(i, s)
         /\ \/ /\ pc = "await" /\ s.pc = "running" /\ s.asked = sess[i].asked
               /\ s.ver = sess[i].ver /\ dns' = dns
            \/ pc = "reply" /\ res = "error" /\ s = HS!Gone /\ dns' = HS!Users
  <2>1. CASE dns' = dns /\ sess' = [sess EXCEPT ![i].pc = "running"]
             /\ HS!Step(r, [rpc[r] EXCEPT !.pc = "await"])
    <3> DEFINE d == sess[i]
               s == [d EXCEPT !.pc = "running"]
    <3>1. PutSess(i, s) /\ ToPlace(r, "await")
      BY <2>1 DEF PutSess, ToPlace
    <3>2. d \in SessRecord
      BY <1>1
    <3>. HIDE DEF d
    <3>3. s \in SessRecord /\ s.pc = "running" /\ s.asked = d.asked /\ s.ver = d.ver
      BY <3>2 DEF SessRecord
    <3>. HIDE DEF s
    <3>4. Moved(r, "await", rpc[r].todo, rpc[r].on, rpc[r].res)
      BY <3>1, RequestShapes DEF RpcPlaces
    <3>. QED  BY <2>1, <3>1, <3>3, <3>4 DEF d
  <2>2. CASE dns' = HS!Users /\ sess' = [sess EXCEPT ![i] = HS!Gone] /\ HS!Result(r, "error")
    <3>1. PutSess(i, HS!Gone) /\ ToAnswer(r, "reply", "error")
      BY <2>2 DEF PutSess, ToAnswer, HS!Result
    <3>2. Moved(r, "reply", rpc[r].todo, rpc[r].on, "error")
      BY <3>1, RequestShapes DEF RpcPlaces, Results
    <3>. QED  BY <2>2, <3>1, <3>2, GoneFields DEF Results
  <2>. QED  BY <2>1, <2>2 DEF HS!Exec
<1>. HIDE DEF i
<1>3. PICK pc \in {"await", "reply"}, res \in Results, s \in SessRecord :
         /\ Moved(r, pc, {}, 0, res) /\ PutSess(i, s)
         /\ \/ /\ pc = "await" /\ s.pc = "running" /\ s.asked = sess[i].asked
               /\ s.ver = sess[i].ver /\ dns' = dns
            \/ pc = "reply" /\ res = "error" /\ s = HS!Gone /\ dns' = HS!Users
  BY <1>1, <1>2
<1>4. sess' \in [HS!Ids -> SessRecord] /\ sess'[i] = s /\ \A j \in HS!Ids \ {i} : sess'[j] = sess[j]
  BY <1>1, <1>3, SessPut
<1>5. s.pc \in {"running", "gone"} /\ (s.pc \in Cored => s.ver # 0)
  BY <1>1, <1>3, GoneFields DEF Cored
<1>6. \A j, k \in HS!InMap' : j = k
  BY <1>1, <1>4 DEF SessionsSound, HS!InMap
<1>7. dns' # HS!Users => sess'[dns'[1]].pc \in Cored
  BY <1>3, <1>4 DEF SessionsSound, Cored
<1>8. StartSound(r)'
  <2>1. rpc'[r].id = i
    BY <1>3 DEF Moved, i
  <2>. QED  BY <1>3, <1>4, <2>1, GoneFields DEF StartSound, Moved, Settled
<1>9. SessionsTyped
  <2>1. dns' \in {HS!Users} \cup (HS!Ids \X (1..HelperVersions))
    BY <1>3
  <2>. QED  BY <1>0, <1>4, <2>1 DEF SessionsTyped, HS!HelperFrame
<1>10. ~abandoned => /\ s.pc \in {"dns", "running"} => dns'[1] = i
                     /\ s.asked = "no" /\ s.ver \in {0, 1}
  <2>1. ~abandoned => sess[i].ver \in {0, 1}
    BY <1>1, HelperNumbers
  <2>2. CASE s = HS!Gone
    BY <2>2, GoneFields
  <2>3. CASE s.pc = "running" /\ s.asked = sess[i].asked /\ s.ver = sess[i].ver /\ dns' = dns
    BY <1>1, <2>1, <2>3
  <2>. QED  BY <1>3, <2>2, <2>3
<1>. QED  BY <1>0, <1>1, <1>3, <1>5, <1>6, <1>7, <1>8, <1>9, <1>10, FoundStep DEF i

(* The desktop sends requests, takes answers and leaves.                   *)
Dropped(q) ==
    /\ rpc'[q].pc = rpc[q].pc /\ rpc'[q].op = rpc[q].op /\ rpc'[q].id = rpc[q].id
    /\ rpc'[q].todo = rpc[q].todo /\ rpc'[q].on = rpc[q].on /\ rpc'[q].res = rpc[q].res
    /\ rpc'[q].ver = rpc[q].ver /\ rpc'[q] \in RpcRecord /\ rpc[q].op # "none"
Left(q) == rpc'[q] = rpc[q] \/ rpc'[q] = HS!NoRpc \/ Dropped(q)

LEMMA NoRpcFields ==
    /\ HS!NoRpc \in RpcRecord /\ HS!NoRpc.op = "none" /\ HS!NoRpc.pc = "none" /\ HS!NoRpc.todo = {}
    /\ HS!NoRpc.on = 0 /\ ~HS!NoRpc.client
  BY HelperNumbers DEF RpcRecord, HS!NoRpc, Results, RpcPlaces

(* What a step of the desktop leaves alone.                                *)
LEMMA DeskStep ==
    ASSUME HelperInv, NEW r, UNCHANGED <<sess, dns, quits>>,
           rpc' \in [HelperRequests -> RpcRecord], desk' \in DeskRecord,
           nextId' \in 0..HelperIds, nextId <= nextId',
           crashes' \in 0..HelperCrashes, abandoned' \in BOOLEAN,
           \A q \in HelperRequests \ {r} : Left(q),
           r \in HelperRequests => RpcSound(r)',
           r \in HelperRequests /\ rpc'[r].op = "start" =>
               \A q \in HelperRequests \ {r} : rpc[q].op = "start" => rpc[q].id # rpc'[r].id,
           DeskSound', Alone'
    PROVE  HelperInv'
<1>. USE HelperFields, SessNow, NoRpcFields DEF HelperInv
<1>0. nextId \in Nat /\ nextId' \in Nat
  BY HelperNumbers
<1>1. HelperTyped'
  BY HelperTypes DEF SessionsTyped
<1>2. SessionsSound'
  <2>1. \A i \in HS!Ids : sess[i].pc # "none" => i <= nextId'
    <3> SUFFICES ASSUME NEW i \in HS!Ids, sess[i].pc # "none"
                 PROVE  i <= nextId'
      OBVIOUS
    <3>1. i <= nextId /\ i \in Nat
      BY HelperNumbers DEF SessionsSound, HS!Ids
    <3>. QED  BY <1>0, <3>1
  <2>. QED  BY <2>1 DEF SessionsSound, HS!InMap, HS!Users, HS!NoSess
<1>3. ASSUME NEW q \in HelperRequests
      PROVE  RpcSound(q)'
  <2>0. RpcSound(q) /\ Flows(q)
    BY DEF RpcsSound, Flows, Settled
  <2>1. CASE q = r
    BY <2>1
  <2>2. CASE rpc'[q] = rpc[q]
    BY <1>0, <2>0, <2>2, OtherRequest
  <2>3. CASE rpc'[q] = HS!NoRpc
    BY <2>3 DEF RpcSound
  <2>4. CASE Dropped(q)
    <3>1. rpc[q].op \in {"start", "stop", "update", "undo"} => rpc[q].id \in 1..nextId'
      BY <1>0, <2>0, <2>4 DEF RpcSound
    <3>2. rpc[q].op = "start" => StartSound(q)'
      BY <2>0, <2>4 DEF RpcSound, StartSound, Settled, Dropped
    <3>. QED  BY <2>0, <2>4, <3>1, <3>2 DEF RpcSound, Dropped, Settled, PlacesOf
  <2>. QED  BY <2>1, <2>2, <2>3, <2>4 DEF Left
<1>4. \A p, q \in HelperRequests :
         rpc'[p].op = "start" /\ rpc'[q].op = "start" /\ rpc'[p].id = rpc'[q].id => p = q
  <2>1. \A q \in HelperRequests \ {r} : rpc'[q].op = "start" => rpc[q].op = "start" /\ rpc'[q].id = rpc[q].id
    BY DEF Left, Dropped
  <2>. QED  BY <2>1 DEF RpcsSound
<1>5. RpcsSound'
  BY <1>3, <1>4 DEF RpcsSound
<1>. QED  BY <1>1, <1>2, <1>5

(* A request that has just been sent.                                      *)
Fresh(r, op, id, ver) ==
    /\ rpc' \in [HelperRequests -> RpcRecord] /\ \A q \in HelperRequests \ {r} : rpc'[q] = rpc[q]
    /\ rpc'[r].pc = "recv" /\ rpc'[r].op = op /\ rpc'[r].id = id /\ rpc'[r].ver = ver
    /\ rpc'[r].todo = {} /\ rpc'[r].on = 0 /\ rpc'[r].client /\ rpc'[r].res = "none"
Asks(r, op, id, ver) ==
    rpc' = [rpc EXCEPT ![r] = [HS!NoRpc EXCEPT !.pc = "recv", !.op = op, !.id = id,
                                               !.client = TRUE, !.ver = ver]]

LEMMA FreshRequest ==
    ASSUME HelperTyped, NEW r \in HelperRequests, NEW op \in {"start", "stop", "stopAll", "update"},
           NEW id \in 0..HelperIds, NEW ver \in 0..HelperVersions, Asks(r, op, id, ver)
    PROVE  Fresh(r, op, id, ver)
<1> DEFINE f == [HS!NoRpc EXCEPT !.pc = "recv", !.op = op, !.id = id, !.client = TRUE, !.ver = ver]
<1>1. /\ f \in RpcRecord /\ f.pc = "recv" /\ f.op = op /\ f.id = id /\ f.ver = ver
      /\ f.todo = {} /\ f.on = 0 /\ f.client /\ f.res = "none"
  <2> DEFINE d == HS!NoRpc
  <2>1. d \in RpcRecord /\ d.todo = {} /\ d.on = 0 /\ d.res = "none"
    BY NoRpcFields DEF HS!NoRpc
  <2>. HIDE DEF d
  <2>2. LET e == [d EXCEPT !.pc = "recv", !.op = op, !.id = id, !.client = TRUE, !.ver = ver] IN
        /\ e \in RpcRecord /\ e.pc = "recv" /\ e.op = op /\ e.id = id /\ e.ver = ver
        /\ e.todo = {} /\ e.on = 0 /\ e.client /\ e.res = "none"
    BY <2>1 DEF RpcRecord, RpcPlaces
  <2>. QED  BY <2>2 DEF d
<1>2. HS!Step(r, f)
  BY DEF Asks, HS!Step
<1>. HIDE DEF f
<1>. QED  BY <1>1, <1>2, RpcPut DEF Fresh

LEMMA Sent ==
    ASSUME HelperTyped, NEW r \in HelperRequests, NEW op \in {"start", "stop", "stopAll", "update"},
           NEW id \in 0..HelperIds, NEW ver \in 0..HelperVersions, HS!Send(r, op, id, ver)
    PROVE  rpc[r] = HS!NoRpc /\ Fresh(r, op, id, ver)
<1>1. rpc[r] = HS!NoRpc /\ Asks(r, op, id, ver)
  BY DEF HS!Send, Asks
<1>. QED  BY <1>1, FreshRequest

LEMMA Freed ==
    ASSUME HelperTyped, NEW r \in HelperRequests, rpc' = HS!Free(r)
    PROVE  /\ rpc' \in [HelperRequests -> RpcRecord] /\ rpc'[r] = HS!NoRpc
           /\ \A q \in HelperRequests \ {r} : rpc'[q] = rpc[q]
  BY NoRpcFields, HelperFields DEF HS!Free

(* Desktops that wait for nothing have left nothing open.                  *)
LEMMA NothingOpen ==
    ASSUME HelperInv, desk.pc \in {"idle", "again", "wait"}, ~abandoned
    PROVE  \A q \in HelperRequests : rpc[q] = HS!NoRpc
<1>. USE HelperFields DEF HelperInv
<1>1. desk.req = 0 /\ desk.upd = 0
  BY DEF DeskSound
<1>2. \A q \in HelperRequests : rpc[q].op = "none"
  BY <1>1 DEF Alone
<1>. QED  BY <1>2 DEF RpcsSound, RpcSound

LEMMA IdleFields ==
    HS!Idle \in DeskRecord /\ HS!Idle.pc = "idle" /\ HS!Idle.req = 0 /\ HS!Idle.upd = 0
  BY HelperNumbers DEF HS!Idle, DeskRecord

LEMMA StartOnceKeeps ==
    ASSUME HelperInv, NEW r \in HelperRequests, NEW attempt \in Nat, HS!StartOnce(r, attempt),
           desk.pc \in {"idle", "again"}, HS!DeskFrame, UNCHANGED abandoned
    PROVE  HelperInv'
<1>. USE HelperFields, SessNow, NoRpcFields DEF HelperInv
<1> DEFINE id == nextId + 1
<1>0. UNCHANGED <<sess, dns, quits, crashes, abandoned>> /\ nextId < HelperIds /\ nextId' = id
  BY DEF HS!DeskFrame, HS!StartOnce
<1>1. id \in HS!Ids /\ id \in 0..HelperIds /\ nextId \in Nat /\ nextId <= id /\ id \in 1..id /\ id # 0
  BY <1>0, HelperNumbers DEF HS!Ids
<1>2. HS!Send(r, "start", id, 0) /\ 0 \in 0..HelperVersions
  BY HelperNumbers DEF HS!StartOnce
<1>3. /\ desk' \in DeskRecord /\ desk'.pc = "start" /\ desk'.id = id /\ desk'.req = r /\ desk'.upd = 0
  <2>1. desk' = [pc |-> "start", id |-> id, req |-> r, upd |-> 0, retried |-> FALSE,
                 attempt |-> attempt, ver |-> 0]
    BY DEF HS!StartOnce, HS!Idle
  <2>2. 0 \in 0..HelperVersions
    BY HelperNumbers
  <2>. HIDE DEF id
  <2>. QED  BY <1>1, <2>1, <2>2 DEF DeskRecord
<1>4. sess[id].pc = "none" /\ sess[id] = HS!NoSess
  BY <1>1 DEF SessionsSound
<1>. HIDE DEF id
<1>5. rpc[r] = HS!NoRpc /\ Fresh(r, "start", id, 0)
  BY <1>1, <1>2, Sent
<1>6. RpcSound(r)'
  BY <1>0, <1>1, <1>4, <1>5 DEF RpcSound, Fresh, PlacesOf, StartSound
<1>7. \A q \in HelperRequests : rpc[q].op = "start" => rpc[q].id # id
  <2> SUFFICES ASSUME NEW q \in HelperRequests, rpc[q].op = "start"
               PROVE  rpc[q].id # id
    OBVIOUS
  <2>1. rpc[q].id \in 1..nextId
    BY DEF RpcsSound, RpcSound
  <2>. QED  BY <1>1, <2>1 DEF id
<1>8. DeskSound'
  BY <1>0, <1>1, <1>3, <1>5 DEF DeskSound, Fresh
<1>9. Alone'
  <2>1. SUFFICES ASSUME ~abandoned
                 PROVE  Alone'
    BY <1>0 DEF Alone
  <2>2. \A q \in HelperRequests : rpc[q] = HS!NoRpc
    BY <2>1, NothingOpen
  <2>3. \A q \in HelperRequests : /\ rpc'[q].op # "none" => q = r
                                  /\ rpc'[q].todo = {} /\ rpc'[q].on = 0
    BY <1>5, <2>2 DEF Fresh
  <2>. QED  BY <1>0, <1>1, <1>3, <1>4, <2>3, GoneFields DEF Alone
<1>10. nextId' \in 0..HelperIds /\ nextId <= nextId' /\ crashes' \in 0..HelperCrashes /\ abandoned' \in BOOLEAN
  BY <1>0, <1>1
<1>11. \A q \in HelperRequests \ {r} : Left(q)
  BY <1>5 DEF Fresh, Left
<1>12. rpc' \in [HelperRequests -> RpcRecord] /\ rpc'[r].id = id
  BY <1>5 DEF Fresh
<1>. QED  BY <1>0, <1>3, <1>6, <1>7, <1>8, <1>9, <1>10, <1>11, <1>12, DeskStep

(* The desktop is done with whatever it waited for.                        *)
LEMMA RestKeeps ==
    ASSUME HelperInv, UNCHANGED <<sess, dns, quits, nextId>>, crashes' \in 0..HelperCrashes,
           abandoned' \in BOOLEAN, abandoned => abandoned',
           rpc' \in [HelperRequests -> RpcRecord], \A q \in HelperRequests : Left(q),
           ~abandoned' => \A q \in HelperRequests : q \in {desk.req, desk.upd} => rpc'[q] = HS!NoRpc,
           desk' \in DeskRecord, desk'.pc \in {"idle", "again"}, desk'.req = 0, desk'.upd = 0
    PROVE  HelperInv'
<1>. USE HelperFields, SessNow, NoRpcFields DEF HelperInv
<1>1. DeskSound'
  BY DEF DeskSound
<1>2. Alone'
  <2>1. SUFFICES ASSUME ~abandoned'
                 PROVE  \A q \in HelperRequests : rpc'[q].op = "none"
    BY DEF Alone
  <2>. QED  BY <2>1 DEF Alone, Left, Dropped
<1>3. nextId' \in 0..HelperIds /\ nextId <= nextId'
  BY HelperNumbers
<1>4. 0 \notin HelperRequests
  OBVIOUS
<1>. QED  BY <1>1, <1>2, <1>3, <1>4, DeskStep

LEMMA AgainFields ==
    ASSUME NEW attempt \in Nat
    PROVE  LET g == [HS!Idle EXCEPT !.pc = "again", !.attempt = attempt] IN
           g \in DeskRecord /\ g.pc = "again" /\ g.req = 0 /\ g.upd = 0
<1> DEFINE d == HS!Idle
<1>1. d \in DeskRecord /\ d.req = 0 /\ d.upd = 0
  BY IdleFields
<1>. HIDE DEF d
<1>2. LET e == [d EXCEPT !.pc = "again", !.attempt = attempt] IN
      e \in DeskRecord /\ e.pc = "again" /\ e.req = 0 /\ e.upd = 0
  BY <1>1 DEF DeskRecord
<1>. QED  BY <1>2 DEF d

(* One more request, on behalf of the desktop's session.                   *)
LEMMA AskStep ==
    ASSUME HelperInv, NEW r \in HelperRequests, NEW op \in {"start", "stop", "stopAll", "update"},
           NEW id, NEW ver, Fresh(r, op, id, ver),
           UNCHANGED <<sess, dns, quits, crashes, abandoned, nextId>>, desk' \in DeskRecord,
           op # "stopAll" => id \in 1..nextId,
           op = "start" => /\ sess[id].pc = "none"
                           /\ \A q \in HelperRequests \ {r} : rpc[q].op = "start" => rpc[q].id # id,
           op \in {"stop", "update"} => Settled(id),
           op = "update" => ver # 0,
           DeskSound', Alone'
    PROVE  HelperInv'
<1>. USE HelperFields, SessNow, NoRpcFields DEF HelperInv
<1>1. nextId' \in 0..HelperIds /\ nextId <= nextId' /\ crashes' \in 0..HelperCrashes /\ abandoned' \in BOOLEAN
  BY HelperNumbers
<1>2. \A q \in HelperRequests \ {r} : Left(q)
  BY DEF Left, Fresh
<1>3. op = "start" => StartSound(r)'
  BY DEF StartSound, Fresh
<1>4. "recv" \in PlacesOf(op)
  BY DEF PlacesOf
<1>5. op \in {"stop", "update"} => Settled(id)'
  BY DEF Settled
<1>6. RpcSound(r)'
  BY <1>3, <1>4, <1>5 DEF RpcSound, Fresh, Settled
<1>7. rpc' \in [HelperRequests -> RpcRecord] /\ rpc'[r].op = op /\ rpc'[r].id = id
  BY DEF Fresh
<1>. QED  BY <1>1, <1>2, <1>6, <1>7, DeskStep

(* The requests of a desktop nobody has left anything to.                  *)
LEMMA OnlyMine ==
    ASSUME HelperInv, ~abandoned, NEW q \in HelperRequests, q \notin {desk.req, desk.upd}
    PROVE  rpc[q] = HS!NoRpc
<1>. USE HelperFields DEF HelperInv
<1>1. rpc[q].op = "none"
  BY DEF Alone
<1>. QED  BY <1>1 DEF RpcsSound, RpcSound

LEMMA StartedOkKeeps ==
    ASSUME HelperInv, desk.pc = "start", rpc[desk.req].pc = "answered", rpc[desk.req].res = "ok",
           desk' = [desk EXCEPT !.pc = "wait", !.req = 0, !.ver = 1], rpc' = HS!Free(desk.req),
           UNCHANGED <<sess, dns, quits, crashes, nextId, abandoned>>
    PROVE  HelperInv'
<1>. USE HelperFields, SessNow, NoRpcFields DEF HelperInv
<1> DEFINE r == desk.req
           i == desk.id
<1>1. r \in HelperRequests /\ rpc[r].op = "start" /\ rpc[r].id = i /\ desk.upd = 0 /\ i \in 1..nextId
  BY DEF DeskSound, DeskRecord
<1>2. i \in HS!Ids /\ RpcSound(r) /\ i # 0
  BY <1>1, HelperNumbers DEF RpcsSound, HS!Ids
<1>3. Settled(i)
  BY <1>1, <1>2 DEF RpcSound, StartSound
<1>4. /\ desk' \in DeskRecord /\ desk'.pc = "wait" /\ desk'.req = 0 /\ desk'.ver = 1
      /\ desk'.id = i /\ desk'.upd = 0
  <2>1. 1 \in 0..HelperVersions
    BY HelperNumbers
  <2>. QED  BY <1>1, <2>1 DEF DeskRecord
<1>5. /\ rpc' \in [HelperRequests -> RpcRecord] /\ rpc'[r] = HS!NoRpc
      /\ \A q \in HelperRequests \ {r} : rpc'[q] = rpc[q]
  BY <1>1, Freed
<1>. HIDE DEF r, i
<1>6. \A q \in HelperRequests : Left(q)
  BY <1>5 DEF Left
<1>7. Settled(i)'
  BY <1>3, <1>4 DEF Settled, i
<1>8. DeskSound'
  BY <1>1, <1>3, <1>4 DEF DeskSound, Settled
<1>9. Alone'
  <2>1. SUFFICES ASSUME ~abandoned
                 PROVE  Alone'
    BY DEF Alone
  <2>2. \A q \in HelperRequests : rpc'[q] = HS!NoRpc
    BY <1>1, <1>5, <2>1, OnlyMine DEF r
  <2>3. /\ sess[i].asked = "no" /\ sess[i].ver <= 1
        /\ sess[i].pc \in {"dns", "running"} => dns[1] = i
    BY <1>1, <2>1 DEF Alone, i
  <2>. QED  BY <1>2, <1>4, <2>2, <2>3 DEF Alone
<1>10. 0 \notin HelperRequests
  OBVIOUS
<1>11. nextId' \in 0..HelperIds /\ nextId <= nextId' /\ crashes' \in 0..HelperCrashes /\ abandoned' \in BOOLEAN
  BY HelperNumbers
<1>. QED  BY <1>4, <1>5, <1>6, <1>8, <1>9, <1>10, <1>11, DeskStep

LEMMA StartedBusyKeeps ==
    ASSUME HelperInv, desk.pc = "start", rpc[desk.req].pc = "answered", rpc[desk.req].res = "busy",
           desk' = [desk EXCEPT !.pc = "stopAll", !.retried = TRUE], Fresh(desk.req, "stopAll", 0, 0),
           UNCHANGED <<sess, dns, quits, crashes, nextId, abandoned>>
    PROVE  HelperInv'
<1>. USE HelperFields, SessNow, NoRpcFields DEF HelperInv
<1> DEFINE r == desk.req
           i == desk.id
<1>1. r \in HelperRequests /\ rpc[r].op = "start" /\ rpc[r].id = i /\ desk.upd = 0 /\ i \in 1..nextId
  BY DEF DeskSound, DeskRecord
<1>2. i \in HS!Ids /\ RpcSound(r) /\ i # 0
  BY <1>1, HelperNumbers DEF RpcsSound, HS!Ids
<1>3. sess[i].pc = "none"
  BY <1>1, <1>2 DEF RpcSound, StartSound
<1>4. desk' \in DeskRecord /\ desk'.pc = "stopAll" /\ desk'.req = r /\ desk'.id = i /\ desk'.upd = 0
  BY <1>1 DEF DeskRecord
<1>. HIDE DEF r, i
<1>5. Fresh(r, "stopAll", 0, 0)
  BY DEF r
<1>6. \A q \in HelperRequests : rpc'[q].op = "start" => rpc'[q].id # i
  BY <1>1, <1>5 DEF Fresh, RpcsSound
<1>7. DeskSound'
  BY <1>1, <1>2, <1>3, <1>4, <1>5, <1>6 DEF DeskSound, Fresh
<1>8. Alone'
  <2>1. SUFFICES ASSUME ~abandoned
                 PROVE  Alone'
    BY DEF Alone
  <2>2. \A q \in HelperRequests \ {r} : rpc'[q] = HS!NoRpc
    BY <1>1, <1>5, <2>1, OnlyMine DEF r, Fresh
  <2>3. \A q \in HelperRequests : /\ rpc'[q].op # "none" => q = r
                                  /\ rpc'[q].todo = {} /\ rpc'[q].on = 0
    BY <1>5, <2>2 DEF Fresh
  <2>4. sess[i] = HS!NoSess
    BY <1>2, <1>3 DEF SessionsSound
  <2>. QED  BY <1>2, <1>4, <2>3, <2>4, GoneFields DEF Alone
<1>. QED  BY <1>1, <1>4, <1>5, <1>7, <1>8, AskStep

LEMMA StartedKeeps ==
    ASSUME HelperInv, HS!Started
    PROVE  HelperInv'
<1>. USE HelperFields, SessNow, NoRpcFields DEF HelperInv
<1> DEFINE r == desk.req
           res == rpc[r].res
<1>0. /\ desk.pc = "start" /\ rpc[r].pc = "answered"
      /\ UNCHANGED <<sess, dns, quits, crashes, nextId, abandoned>>
  BY DEF HS!Started, HS!DeskFrame
<1>1. r \in HelperRequests /\ desk.upd = 0
  BY <1>0 DEF DeskSound, DeskRecord
<1>2. CASE res = "ok" /\ desk' = [desk EXCEPT !.pc = "wait", !.req = 0, !.ver = 1] /\ rpc' = HS!Free(r)
  BY <1>0, <1>2, StartedOkKeeps
<1>3. CASE /\ res = "busy" /\ desk' = [desk EXCEPT !.pc = "stopAll", !.retried = TRUE]
           /\ rpc' = [rpc EXCEPT ![r] = [HS!NoRpc EXCEPT !.pc = "recv", !.op = "stopAll", !.client = TRUE]]
  <2> DEFINE f == [HS!NoRpc EXCEPT !.pc = "recv", !.op = "stopAll", !.client = TRUE]
  <2>1. HS!Step(r, f)
    BY <1>3 DEF HS!Step
  <2>2. /\ f \in RpcRecord /\ f.pc = "recv" /\ f.op = "stopAll" /\ f.id = 0 /\ f.ver = 0
        /\ f.todo = {} /\ f.on = 0 /\ f.client /\ f.res = "none"
    <3> DEFINE d == HS!NoRpc
    <3>1. d \in RpcRecord /\ d.todo = {} /\ d.on = 0 /\ d.res = "none" /\ d.ver = 0 /\ d.id = 0
      BY DEF HS!NoRpc
    <3>. HIDE DEF d
    <3>2. LET e == [d EXCEPT !.pc = "recv", !.op = "stopAll", !.client = TRUE] IN
          /\ e \in RpcRecord /\ e.pc = "recv" /\ e.op = "stopAll" /\ e.id = 0 /\ e.ver = 0
          /\ e.todo = {} /\ e.on = 0 /\ e.client /\ e.res = "none"
      BY <3>1 DEF RpcRecord, RpcPlaces
    <3>. QED  BY <3>2 DEF d
  <2>. HIDE DEF f
  <2>3. Fresh(r, "stopAll", 0, 0)
    BY <1>1, <2>1, <2>2, RpcPut DEF Fresh
  <2>. QED  BY <1>0, <1>3, <2>3, StartedBusyKeeps
<1>4. CASE /\ desk' = IF res = "inUse" /\ desk.attempt < 3
                      THEN [HS!Idle EXCEPT !.pc = "again", !.attempt = desk.attempt] ELSE HS!Idle
           /\ rpc' = HS!Free(r)
  <2>1. desk' \in DeskRecord /\ desk'.pc \in {"idle", "again"} /\ desk'.req = 0 /\ desk'.upd = 0
    <3>1. desk.attempt \in Nat
      BY DEF DeskRecord
    <3> DEFINE g == [HS!Idle EXCEPT !.pc = "again", !.attempt = desk.attempt]
    <3>2. g \in DeskRecord /\ g.pc = "again" /\ g.req = 0 /\ g.upd = 0
      BY <3>1, AgainFields
    <3>3. desk' \in {g, HS!Idle}
      BY <1>4
    <3>. HIDE DEF g
    <3>. QED  BY <3>2, <3>3, IdleFields
  <2>2. /\ rpc' \in [HelperRequests -> RpcRecord] /\ rpc'[r] = HS!NoRpc
        /\ \A q \in HelperRequests \ {r} : rpc'[q] = rpc[q]
    BY <1>1, <1>4, Freed
  <2>3. \A q \in HelperRequests : Left(q)
    BY <2>2 DEF Left
  <2>4. ~abandoned' => \A q \in HelperRequests : q \in {desk.req, desk.upd} => rpc'[q] = HS!NoRpc
    BY <1>1, <2>2
  <2>5. crashes' \in 0..HelperCrashes /\ abandoned' \in BOOLEAN /\ (abandoned => abandoned')
    BY <1>0
  <2>. QED  BY <1>0, <2>1, <2>2, <2>3, <2>4, <2>5, RestKeeps
<1>5. \/ res = "ok" /\ desk' = [desk EXCEPT !.pc = "wait", !.req = 0, !.ver = 1] /\ rpc' = HS!Free(r)
      \/ /\ res = "busy" /\ desk' = [desk EXCEPT !.pc = "stopAll", !.retried = TRUE]
         /\ rpc' = [rpc EXCEPT ![r] = [HS!NoRpc EXCEPT !.pc = "recv", !.op = "stopAll", !.client = TRUE]]
      \/ /\ desk' = IF res = "inUse" /\ desk.attempt < 3
                    THEN [HS!Idle EXCEPT !.pc = "again", !.attempt = desk.attempt] ELSE HS!Idle
         /\ rpc' = HS!Free(r)
  BY Zenon DEF HS!Started
<1>. QED  BY <1>2, <1>3, <1>4, <1>5

LEMMA AllStoppedKeeps ==
    ASSUME HelperInv, HS!AllStopped
    PROVE  HelperInv'
<1>. USE HelperFields, SessNow, NoRpcFields DEF HelperInv
<1> DEFINE r == desk.req
           i == desk.id
<1>0. /\ desk.pc = "stopAll" /\ desk' = [desk EXCEPT !.pc = "start"]
      /\ UNCHANGED <<sess, dns, quits, crashes, nextId, abandoned>>
  BY DEF HS!AllStopped, HS!DeskFrame
<1>1. /\ r \in HelperRequests /\ rpc[r].op = "stopAll" /\ i \in HS!Ids /\ desk.upd = 0
      /\ i \in 1..nextId /\ sess[i].pc = "none" /\ i \in 0..HelperIds
      /\ \A q \in HelperRequests : rpc[q].op = "start" => rpc[q].id # i
  <2>1. /\ r \in HelperRequests /\ rpc[r].op = "stopAll" /\ desk.upd = 0 /\ i \in 1..nextId
        /\ sess[i].pc = "none" /\ \A q \in HelperRequests : rpc[q].op = "start" => rpc[q].id # i
    BY <1>0 DEF DeskSound, DeskRecord
  <2>2. i \in HS!Ids /\ i \in 0..HelperIds
    BY <2>1, HelperNumbers DEF HS!Ids
  <2>. QED  BY <2>1, <2>2
<1>3. Fresh(r, "start", i, 0)
  <2> DEFINE f == [HS!NoRpc EXCEPT !.pc = "recv", !.op = "start", !.id = i, !.client = TRUE]
  <2>1. HS!Step(r, f)
    BY DEF HS!AllStopped, HS!Step
  <2>. HIDE DEF i
  <2>2. /\ f \in RpcRecord /\ f.pc = "recv" /\ f.op = "start" /\ f.id = i /\ f.ver = 0
        /\ f.todo = {} /\ f.on = 0 /\ f.client /\ f.res = "none"
    <3> DEFINE d == HS!NoRpc
    <3>1. d \in RpcRecord /\ d.todo = {} /\ d.on = 0 /\ d.res = "none" /\ d.ver = 0
      BY DEF HS!NoRpc
    <3>. HIDE DEF d
    <3>2. LET e == [d EXCEPT !.pc = "recv", !.op = "start", !.id = i, !.client = TRUE] IN
          /\ e \in RpcRecord /\ e.pc = "recv" /\ e.op = "start" /\ e.id = i /\ e.ver = 0
          /\ e.todo = {} /\ e.on = 0 /\ e.client /\ e.res = "none"
      BY <1>1, <3>1 DEF RpcRecord, RpcPlaces
    <3>. QED  BY <3>2 DEF d
  <2>. HIDE DEF f
  <2>. QED  BY <1>1, <2>1, <2>2, RpcPut DEF Fresh
<1>4. desk' \in DeskRecord /\ desk'.pc = "start" /\ desk'.req = r /\ desk'.id = i /\ desk'.upd = 0
  BY <1>0, <1>1 DEF DeskRecord
<1>. HIDE DEF r, i
<1>8. DeskSound'
  BY <1>0, <1>1, <1>3, <1>4 DEF DeskSound, Fresh
<1>9. Alone'
  <2>1. SUFFICES ASSUME ~abandoned
                 PROVE  Alone'
    BY <1>0 DEF Alone
  <2>2. \A q \in HelperRequests \ {r} : rpc[q].op = "none"
    BY <1>1, <2>1 DEF Alone, r
  <2>3. \A q \in HelperRequests : /\ rpc'[q].op # "none" => q = r
                                  /\ rpc'[q].todo = {} /\ rpc'[q].on = 0
    BY <1>3, <2>2 DEF Fresh, RpcsSound, RpcSound
  <2>4. sess[i] = HS!NoSess /\ i # 0
    BY <1>1 DEF SessionsSound
  <2>. QED  BY <1>0, <1>4, <2>3, <2>4, GoneFields DEF Alone
<1>. QED  BY <1>0, <1>1, <1>3, <1>4, <1>8, <1>9, AskStep

LEMMA ReadyKeeps ==
    ASSUME HelperInv, HS!Ready
    PROVE  HelperInv'
<1>. USE HelperFields, SessNow, NoRpcFields DEF HelperInv
<1> DEFINE i == desk.id
<1>0. /\ desk.pc = "wait" /\ sess[i].pc = "running" /\ desk' = [desk EXCEPT !.pc = "ready"]
      /\ UNCHANGED <<sess, dns, quits, crashes, nextId, abandoned, rpc>>
  BY DEF HS!Ready, HS!DeskFrame
<1>1. desk.req = 0 /\ desk.upd = 0 /\ i \in 1..nextId /\ Settled(i)
  BY <1>0 DEF DeskSound
<1>2. /\ desk' \in DeskRecord /\ desk'.pc = "ready" /\ desk'.req = 0 /\ desk'.ver = desk.ver
      /\ desk'.id = i /\ desk'.upd = 0
  BY <1>0, <1>1 DEF DeskRecord
<1>. HIDE DEF i
<1>3. DeskSound'
  BY <1>0, <1>1, <1>2 DEF DeskSound, Settled
<1>4. Alone'
  <2>1. SUFFICES ASSUME ~abandoned
                 PROVE  Alone'
    BY <1>0 DEF Alone
  <2>2. \A q \in HelperRequests : rpc[q] = HS!NoRpc
    BY <1>0, <2>1, NothingOpen
  <2>3. sess[i].asked = "no" /\ sess[i].ver <= desk.ver /\ dns[1] = i
    BY <1>0, <2>1 DEF Alone, i
  <2>4. i # 0 /\ \A q \in HelperRequests : rpc'[q].op = "none" /\ rpc'[q].todo = {} /\ rpc'[q].on = 0
    BY <1>0, <1>1, <2>2, HelperNumbers
  <2>. QED  BY <1>0, <1>2, <2>3, <2>4 DEF Alone
<1>5. \A q \in HelperRequests : Left(q)
  BY <1>0 DEF Left
<1>6. 0 \notin HelperRequests
  OBVIOUS
<1>7. nextId' \in 0..HelperIds /\ nextId <= nextId' /\ crashes' \in 0..HelperCrashes /\ abandoned' \in BOOLEAN
  BY <1>0, HelperNumbers
<1>8. rpc' \in [HelperRequests -> RpcRecord]
  BY <1>0
<1>. QED  BY <1>0, <1>2, <1>3, <1>4, <1>5, <1>6, <1>7, <1>8, DeskStep

LEMMA CloseKeeps ==
    ASSUME HelperInv, NEW r \in HelperRequests, HS!Close(r)
    PROVE  HelperInv'
<1>. USE HelperFields, SessNow, NoRpcFields DEF HelperInv
<1> DEFINE i == desk.id
<1>0. /\ desk.pc \in {"wait", "ready"} /\ desk' = [desk EXCEPT !.pc = "close", !.req = r]
      /\ HS!Send(r, "stop", i, 0) /\ UNCHANGED <<sess, dns, quits, crashes, nextId, abandoned>>
  BY DEF HS!Close, HS!DeskFrame
<1>1. desk.req = 0 /\ i \in 1..nextId /\ Settled(i)
  BY <1>0 DEF DeskSound
<1>2. desk' \in DeskRecord /\ desk'.pc = "close" /\ desk'.req = r /\ desk'.id = i /\ desk'.upd = desk.upd
  BY <1>0 DEF DeskRecord
<1>3. i \in 0..HelperIds /\ 0 \in 0..HelperVersions
  BY <1>1, HelperNumbers
<1>. HIDE DEF i
<1>4. rpc[r] = HS!NoRpc /\ Fresh(r, "stop", i, 0)
  BY <1>0, <1>3, Sent
<1>5. desk.upd # 0 => /\ desk.upd \in HelperRequests \ {r} /\ rpc[desk.upd].op = "update"
                      /\ rpc[desk.upd].client /\ rpc[desk.upd].id = i
  BY <1>4 DEF DeskSound, DeskRecord, i
<1>6. DeskSound'
  BY <1>0, <1>1, <1>2, <1>4, <1>5 DEF DeskSound, Fresh, Settled
<1>7. Alone'
  <2>1. SUFFICES ASSUME ~abandoned
                 PROVE  \A q \in HelperRequests : rpc'[q].op # "none" => q \in {r, desk.upd}
    BY <1>0, <1>2 DEF Alone
  <2>. QED  BY <1>1, <1>4, <2>1 DEF Alone, Fresh
<1>. QED  BY <1>0, <1>1, <1>2, <1>4, <1>6, <1>7, AskStep

LEMMA ClosedKeeps ==
    ASSUME HelperInv, HS!Closed
    PROVE  HelperInv'
<1>. USE HelperFields, SessNow, NoRpcFields DEF HelperInv
<1> DEFINE r == desk.req
<1>0. /\ desk.pc = "close" /\ desk.upd = 0 /\ desk' = HS!Idle /\ rpc' = HS!Free(r)
      /\ UNCHANGED <<sess, dns, quits, crashes, nextId, abandoned>>
  BY DEF HS!Closed, HS!DeskFrame
<1>1. r \in HelperRequests
  BY <1>0 DEF DeskSound, DeskRecord
<1>2. /\ rpc' \in [HelperRequests -> RpcRecord] /\ rpc'[r] = HS!NoRpc
      /\ \A q \in HelperRequests \ {r} : rpc'[q] = rpc[q]
  BY <1>0, <1>1, Freed
<1>3. \A q \in HelperRequests : Left(q)
  BY <1>2 DEF Left
<1>4. \A q \in HelperRequests : q \in {desk.req, desk.upd} => rpc'[q] = HS!NoRpc
  BY <1>0, <1>1, <1>2
<1>5. crashes' \in 0..HelperCrashes /\ abandoned' \in BOOLEAN /\ (abandoned => abandoned')
  BY <1>0
<1>6. desk' \in DeskRecord /\ desk'.pc \in {"idle", "again"} /\ desk'.req = 0 /\ desk'.upd = 0
  BY <1>0, IdleFields
<1>. QED  BY <1>0, <1>2, <1>3, <1>4, <1>5, <1>6, RestKeeps

LEMMA SendUpdateKeeps ==
    ASSUME HelperInv, NEW r \in HelperRequests, HS!SendUpdate(r)
    PROVE  HelperInv'
<1>. USE HelperFields, SessNow, NoRpcFields DEF HelperInv
<1> DEFINE i == desk.id
           v == desk.ver + 1
<1>0. /\ desk.pc = "ready" /\ desk.upd = 0 /\ desk.ver < HelperVersions
      /\ desk' = [desk EXCEPT !.upd = r, !.ver = v]
      /\ HS!Send(r, "update", i, v) /\ UNCHANGED <<sess, dns, quits, crashes, nextId, abandoned>>
  BY DEF HS!SendUpdate, HS!DeskFrame
<1>1. desk.req = 0 /\ i \in 1..nextId /\ Settled(i)
  BY <1>0 DEF DeskSound
<1>2. desk.ver \in 0..HelperVersions
  BY DEF DeskRecord
<1>3. i \in 0..HelperIds /\ v \in 0..HelperVersions /\ v # 0 /\ desk.ver < v
  BY <1>0, <1>1, <1>2, HelperNumbers
<1>. HIDE DEF v
<1>4. /\ desk' \in DeskRecord /\ desk'.pc = "ready" /\ desk'.req = 0 /\ desk'.id = i /\ desk'.upd = r
      /\ desk'.ver = v
  BY <1>0, <1>1, <1>3 DEF DeskRecord
<1>. HIDE DEF i
<1>5. rpc[r] = HS!NoRpc /\ Fresh(r, "update", i, v)
  BY <1>0, <1>3, Sent
<1>6. DeskSound'
  BY <1>0, <1>1, <1>4, <1>5 DEF DeskSound, Fresh, Settled
<1>7. Alone'
  <2>1. SUFFICES ASSUME ~abandoned
                 PROVE  Alone'
    BY <1>0 DEF Alone
  <2>2. \A q \in HelperRequests \ {r} : rpc'[q] = HS!NoRpc
    BY <1>0, <1>1, <1>5, <2>1, OnlyMine DEF Fresh
  <2>3. /\ sess[i].asked = "no" /\ sess[i].ver <= desk.ver /\ (sess[i].pc = "running" \/ i \in quits)
    BY <1>0, <2>1 DEF Alone, i
  <2>4. i \in HS!Ids /\ i # 0
    BY <1>1, HelperNumbers DEF HS!Ids
  <2>5. sess[i].ver < v /\ sess[i].ver <= v
    <3>1. sess[i].ver \in Nat /\ desk.ver \in Nat /\ v \in Nat
      BY <1>2, <1>3, <2>4, HelperNumbers DEF SessRecord
    <3>. QED  BY <1>3, <2>3, <3>1
  <2>6. \A q \in HelperRequests : /\ rpc'[q].op # "none" => q = r
                                  /\ rpc'[q].todo = {} /\ rpc'[q].on = 0
    BY <1>5, <2>2 DEF Fresh
  <2>. QED  BY <1>0, <1>4, <1>5, <2>3, <2>4, <2>5, <2>6 DEF Alone, Fresh
<1>. QED  BY <1>0, <1>1, <1>3, <1>4, <1>5, <1>6, <1>7, AskStep

(* What the desktop leaves behind.                                         *)
LEMMA Leaves ==
    ASSUME HelperInv, NEW R, rpc' = HS!Leave(R), \A q \in R : q \in HelperRequests => rpc[q].op # "none"
    PROVE  /\ rpc' \in [HelperRequests -> RpcRecord] /\ \A q \in HelperRequests : Left(q)
           /\ \A q \in HelperRequests \ R : rpc'[q] = rpc[q]
           /\ ~HS!Handled(R) => \A q \in HelperRequests : q \in R => rpc'[q] = HS!NoRpc
<1>. USE HelperFields, NoRpcFields DEF HelperInv
<1>1. rpc' = [q \in HelperRequests |-> IF q \notin R THEN rpc[q]
                                       ELSE IF rpc[q].pc = "answered" THEN HS!NoRpc
                                       ELSE [rpc[q] EXCEPT !.client = FALSE]]
  BY DEF HS!Leave
<1>2. ASSUME NEW q \in HelperRequests
      PROVE  /\ rpc'[q] \in RpcRecord /\ Left(q) /\ (q \notin R => rpc'[q] = rpc[q])
             /\ q \in R /\ rpc[q].pc = "answered" => rpc'[q] = HS!NoRpc
  <2> DEFINE d == rpc[q]
  <2>1. d \in RpcRecord
    OBVIOUS
  <2>2. CASE q \in R /\ d.pc # "answered"
    <3>1. rpc'[q] = [d EXCEPT !.client = FALSE]
      BY <1>1, <2>2
    <3>2. rpc[q].op # "none"
      BY <2>2
    <3>. HIDE DEF d
    <3>3. LET e == [d EXCEPT !.client = FALSE] IN
          /\ e \in RpcRecord /\ e.pc = d.pc /\ e.op = d.op /\ e.id = d.id /\ e.todo = d.todo
          /\ e.on = d.on /\ e.res = d.res /\ e.ver = d.ver
      BY <2>1 DEF RpcRecord
    <3>4. Dropped(q)
      BY <3>1, <3>2, <3>3 DEF Dropped, d
    <3>. QED  BY <2>2, <3>4 DEF Left, Dropped, d
  <2>3. CASE ~(q \in R /\ d.pc # "answered")
    BY <1>1, <2>1, <2>3 DEF Left
  <2>. QED  BY <2>2, <2>3
<1>3. rpc' \in [HelperRequests -> RpcRecord]
  BY <1>1, <1>2
<1>4. ASSUME ~HS!Handled(R), NEW q \in HelperRequests, q \in R
      PROVE  rpc[q].pc = "answered"
  <2>1. rpc[q].pc \in {"none", "answered"}
    BY <1>4 DEF HS!Handled
  <2>2. rpc[q].op # "none" /\ RpcSound(q)
    BY <1>4 DEF RpcsSound
  <2>3. "none" \notin PlacesOf(rpc[q].op)
    BY DEF PlacesOf
  <2>. QED  BY <2>1, <2>2, <2>3 DEF RpcSound
<1>. QED  BY <1>2, <1>3, <1>4

(* An update is answered or given up; the session stays as it is.          *)
LEMMA UpdateDoneKeeps ==
    ASSUME HelperInv, desk.upd # 0, desk' = [desk EXCEPT !.upd = 0],
           UNCHANGED <<sess, dns, quits, crashes, nextId>>,
           rpc' \in [HelperRequests -> RpcRecord], \A q \in HelperRequests : Left(q),
           \A q \in HelperRequests \ {desk.upd} : rpc'[q] = rpc[q],
           abandoned' \in BOOLEAN, abandoned => abandoned',
           ~abandoned' => rpc'[desk.upd] = HS!NoRpc
    PROVE  HelperInv'
<1>. USE HelperFields, SessNow, NoRpcFields DEF HelperInv
<1> DEFINE u == desk.upd
           i == desk.id
<1>1. u \in HelperRequests /\ desk.pc \in {"ready", "close"} /\ rpc[u].op = "update"
  BY DEF DeskSound, DeskRecord
<1>2. /\ desk' \in DeskRecord /\ desk'.pc = desk.pc /\ desk'.req = desk.req /\ desk'.ver = desk.ver
      /\ desk'.id = i /\ desk'.upd = 0
  BY DEF DeskRecord
<1>3. /\ i \in 1..nextId /\ Settled(i) /\ (desk.pc = "ready" => desk.req = 0)
      /\ desk.pc = "close" => /\ desk.req \in HelperRequests /\ rpc[desk.req].client
                              /\ rpc[desk.req].op = "stop" /\ desk.req # u
  BY <1>1 DEF DeskSound, DeskRecord
<1>. HIDE DEF u, i
<1>4. DeskSound'
  BY <1>1, <1>2, <1>3 DEF DeskSound, Settled, u
<1>5. Alone'
  <2>1. SUFFICES ASSUME ~abandoned', ~abandoned
                 PROVE  Alone'
    BY DEF Alone
  <2>2. rpc'[u] = HS!NoRpc /\ \A q \in HelperRequests \ {u} : rpc'[q] = rpc[q]
    BY <2>1 DEF u
  <2>3. \A q \in HelperRequests : rpc'[q].op # "none" => q = desk.req
    BY <2>1, <2>2 DEF Alone, u
  <2>4. CASE desk.pc = "ready"
    <3>1. /\ sess[i].asked = "no" /\ sess[i].ver <= desk.ver /\ (sess[i].pc = "running" \/ i \in quits)
          /\ sess[i].pc \in {"dns", "running"} => dns[1] = i \/ sess[i].ver < desk.ver
          /\ \A q \in HelperRequests : i \notin rpc[q].todo /\ i # rpc[q].on
      BY <2>1, <2>4 DEF Alone, i
    <3>2. i # 0 /\ \A q \in HelperRequests : i \notin rpc'[q].todo /\ i # rpc'[q].on
      BY <1>3, <2>2, <3>1, HelperNumbers
    <3>. QED  BY <1>2, <2>3, <2>4, <3>1, <3>2 DEF Alone
  <2>5. CASE desk.pc = "close"
    BY <1>2, <2>3, <2>5 DEF Alone
  <2>. QED  BY <1>1, <2>4, <2>5
<1>6. 0 \notin HelperRequests
  OBVIOUS
<1>7. nextId' \in 0..HelperIds /\ nextId <= nextId' /\ crashes' \in 0..HelperCrashes
  BY HelperNumbers
<1>. QED  BY <1>2, <1>4, <1>5, <1>6, <1>7, DeskStep

LEMMA UpdatedKeeps ==
    ASSUME HelperInv, HS!Updated
    PROVE  HelperInv'
<1>. USE HelperFields, SessNow DEF HelperInv
<1>0. /\ desk.upd # 0 /\ desk' = [desk EXCEPT !.upd = 0] /\ rpc' = HS!Free(desk.upd)
      /\ UNCHANGED <<sess, dns, quits, crashes, nextId, abandoned>>
  BY DEF HS!Updated, HS!DeskFrame
<1>1. desk.upd \in HelperRequests
  BY <1>0 DEF DeskRecord
<1>2. /\ rpc' \in [HelperRequests -> RpcRecord] /\ rpc'[desk.upd] = HS!NoRpc
      /\ \A q \in HelperRequests \ {desk.upd} : rpc'[q] = rpc[q]
  BY <1>0, <1>1, Freed
<1>3. \A q \in HelperRequests : Left(q)
  BY <1>2 DEF Left
<1>4. abandoned' \in BOOLEAN /\ (abandoned => abandoned')
  BY <1>0
<1>. QED  BY <1>0, <1>2, <1>3, <1>4, UpdateDoneKeeps

(* Requests the desktop waits for are being handled.                       *)
LEMMA WaitedFor ==
    ASSUME HelperInv, NEW q \in HelperRequests, q \in {desk.req, desk.upd}
    PROVE  rpc[q].op # "none"
<1>. USE HelperFields DEF HelperInv
<1>1. desk.pc \in {"idle", "start", "stopAll", "again", "wait", "ready", "close"} /\ q # 0
  BY DEF DeskRecord
<1>. QED  BY <1>1 DEF DeskSound

LEMMA TimeoutKeeps ==
    ASSUME HelperInv, HS!Timeout
    PROVE  HelperInv'
<1>. USE HelperFields, SessNow DEF HelperInv
<1>0. UNCHANGED <<sess, dns, quits, crashes, nextId>>
  BY DEF HS!Timeout, HS!DeskFrame
<1>1. CASE /\ desk.upd # 0 /\ rpc' = HS!Leave({desk.upd}) /\ desk' = [desk EXCEPT !.upd = 0]
           /\ abandoned' = (abandoned \/ HS!Handled({desk.upd}))
  <2> DEFINE R == {desk.upd}
  <2>1. rpc' = HS!Leave(R) /\ (\A q \in R : q \in HelperRequests => rpc[q].op # "none")
    BY <1>1, WaitedFor
  <2>2. desk.upd \in HelperRequests
    BY <1>1 DEF DeskRecord
  <2>. HIDE DEF R
  <2>3. /\ rpc' \in [HelperRequests -> RpcRecord] /\ \A q \in HelperRequests : Left(q)
        /\ \A q \in HelperRequests \ R : rpc'[q] = rpc[q]
        /\ ~HS!Handled(R) => \A q \in HelperRequests : q \in R => rpc'[q] = HS!NoRpc
    BY <2>1, Leaves
  <2>4. /\ \A q \in HelperRequests \ {desk.upd} : rpc'[q] = rpc[q]
        /\ ~HS!Handled({desk.upd}) => rpc'[desk.upd] = HS!NoRpc
    BY <2>2, <2>3 DEF R
  <2>5. abandoned' \in BOOLEAN /\ (abandoned => abandoned') /\ (~abandoned' => rpc'[desk.upd] = HS!NoRpc)
    BY <1>1, <2>4 DEF HS!Handled
  <2>. QED  BY <1>0, <1>1, <2>3, <2>4, <2>5, UpdateDoneKeeps
<1>2. CASE /\ desk.pc \in {"start", "stopAll", "close"} /\ desk.upd = 0
           /\ rpc' = HS!Leave({desk.req}) /\ desk' = HS!Idle
           /\ abandoned' = (abandoned \/ HS!Handled({desk.req}))
  <2> DEFINE R == {desk.req}
  <2>1. rpc' = HS!Leave(R) /\ (\A q \in R : q \in HelperRequests => rpc[q].op # "none")
    BY <1>2, WaitedFor
  <2>2. abandoned' \in BOOLEAN /\ (abandoned => abandoned') /\ (~abandoned' => ~HS!Handled(R))
    BY <1>2 DEF HS!Handled
  <2>. HIDE DEF R
  <2>3. /\ rpc' \in [HelperRequests -> RpcRecord] /\ \A q \in HelperRequests : Left(q)
        /\ ~HS!Handled(R) => \A q \in HelperRequests : q \in R => rpc'[q] = HS!NoRpc
    BY <2>1, Leaves
  <2>4. ~abandoned' => \A q \in HelperRequests : q \in {desk.req, desk.upd} => rpc'[q] = HS!NoRpc
    BY <1>2, <2>2, <2>3 DEF R
  <2>5. desk' \in DeskRecord /\ desk'.pc \in {"idle", "again"} /\ desk'.req = 0 /\ desk'.upd = 0
    BY <1>2, IdleFields
  <2>6. crashes' \in 0..HelperCrashes
    BY <1>0
  <2>. QED  BY <1>0, <2>2, <2>3, <2>4, <2>5, <2>6, RestKeeps
<1>. QED  BY <1>1, <1>2 DEF HS!Timeout

LEMMA CrashKeeps ==
    ASSUME HelperInv, HS!Crash
    PROVE  HelperInv'
<1>. USE HelperFields, SessNow DEF HelperInv
<1> DEFINE R == {desk.req, desk.upd} \ {0}
<1>0. /\ UNCHANGED <<sess, dns, quits, nextId>> /\ desk' = HS!Idle /\ rpc' = HS!Leave(R)
      /\ crashes < HelperCrashes /\ crashes' = crashes + 1 /\ abandoned' = (abandoned \/ HS!Handled(R))
  BY DEF HS!Crash
<1>1. \A q \in R : q \in HelperRequests => rpc[q].op # "none"
  BY WaitedFor
<1>2. abandoned' \in BOOLEAN /\ (abandoned => abandoned') /\ (~abandoned' => ~HS!Handled(R))
  BY <1>0 DEF HS!Handled
<1>. HIDE DEF R
<1>3. /\ rpc' \in [HelperRequests -> RpcRecord] /\ \A q \in HelperRequests : Left(q)
      /\ ~HS!Handled(R) => \A q \in HelperRequests : q \in R => rpc'[q] = HS!NoRpc
  BY <1>0, <1>1, Leaves
<1>4. ~abandoned' => \A q \in HelperRequests : q \in {desk.req, desk.upd} => rpc'[q] = HS!NoRpc
  BY <1>2, <1>3 DEF R
<1>5. desk' \in DeskRecord /\ desk'.pc \in {"idle", "again"} /\ desk'.req = 0 /\ desk'.upd = 0
  BY <1>0, IdleFields
<1>6. crashes' \in 0..HelperCrashes
  BY <1>0, HelperNumbers
<1>. QED  BY <1>0, <1>2, <1>3, <1>4, <1>5, <1>6, RestKeeps

LEMMA AgainKeeps ==
    ASSUME HelperInv, NEW r \in HelperRequests, HS!Again(r)
    PROVE  HelperInv'
<1>. USE HelperFields, SessNow DEF HelperInv
<1>0. desk.pc = "again" /\ HS!DeskFrame /\ UNCHANGED abandoned
  BY DEF HS!Again
<1>1. CASE HS!StartOnce(r, desk.attempt + 1)
  <2>1. desk.attempt + 1 \in Nat
    BY DEF DeskRecord
  <2>. QED  BY <1>0, <1>1, <2>1, StartOnceKeeps
<1>2. CASE desk' = HS!Idle /\ UNCHANGED <<rpc, nextId>>
  <2>1. UNCHANGED <<sess, dns, quits, nextId, crashes>>
    BY <1>0, <1>2 DEF HS!DeskFrame
  <2>2. rpc' \in [HelperRequests -> RpcRecord] /\ \A q \in HelperRequests : Left(q)
    BY <1>2 DEF Left
  <2>3. ~abandoned' => \A q \in HelperRequests : q \in {desk.req, desk.upd} => rpc'[q] = HS!NoRpc
    BY <1>0, <1>2, NothingOpen
  <2>4. desk' \in DeskRecord /\ desk'.pc \in {"idle", "again"} /\ desk'.req = 0 /\ desk'.upd = 0
    BY <1>2, IdleFields
  <2>5. crashes' \in 0..HelperCrashes /\ abandoned' \in BOOLEAN /\ (abandoned => abandoned')
    BY <1>0, <2>1
  <2>. QED  BY <2>1, <2>2, <2>3, <2>4, <2>5, RestKeeps
<1>. QED  BY <1>1, <1>2 DEF HS!Again

LEMMA HelperSteps ==
    ASSUME HelperInv, HS!Next
    PROVE  HelperInv'
<1>1. ASSUME NEW r \in HelperRequests, HS!Helper(r)
      PROVE  HelperInv'
  BY <1>1, StartCheckKeeps, CollectKeeps, StopOneKeeps, StopKillKeeps, StopWaitedKeeps, StoppedKeeps,
     RegisterKeeps, SetupKeeps, ExecKeeps, AwaitKeeps, UpdateMovesKeep, UpdateApplyKeeps, ReplyKeeps
     DEF HS!Helper
<1>2. ASSUME NEW r \in HelperRequests, HS!Connect(r)
      PROVE  HelperInv'
  <2>1. desk.pc = "idle" /\ HS!StartOnce(r, 1) /\ HS!DeskFrame /\ UNCHANGED abandoned /\ 1 \in Nat
    BY <1>2 DEF HS!Connect
  <2>. QED  BY <2>1, StartOnceKeeps
<1>3. ASSUME NEW r \in HelperRequests,
             HS!Again(r) \/ HS!Close(r) \/ HS!UpdateDNSNamespace(r) \/ HS!UpdateHostAliases(r)
      PROVE  HelperInv'
  BY <1>3, AgainKeeps, CloseKeeps, SendUpdateKeeps DEF HS!UpdateDNSNamespace, HS!UpdateHostAliases
<1>4. ASSUME NEW i \in HS!Ids, HS!Exit(i) \/ HS!Waiter(i)
      PROVE  HelperInv'
  BY <1>4, CoreKeeps DEF HS!Waiter
<1>5. ASSUME HS!Answers
      PROVE  HelperInv'
  BY <1>5, StartedKeeps, AllStoppedKeeps, ClosedKeeps, UpdatedKeeps DEF HS!Answers
<1>6. ASSUME HS!Ready \/ HS!Timeout \/ HS!Crash
      PROVE  HelperInv'
  BY <1>6, ReadyKeeps, TimeoutKeeps, CrashKeeps
<1>. QED  BY <1>1, <1>2, <1>3, <1>4, <1>5, <1>6 DEF HS!Next

LEMMA HelperStarts ==
    ASSUME HS!Init
    PROVE  HelperInv
<1>. USE NoRpcFields, IdleFields
<1>0. /\ sess = [i \in HS!Ids |-> HS!NoSess] /\ dns = HS!Users /\ rpc = [r \in HelperRequests |-> HS!NoRpc]
      /\ desk = HS!Idle /\ nextId = 0 /\ crashes = 0 /\ abandoned = FALSE /\ quits = {}
  BY DEF HS!Init
<1>1. \A i \in HS!Ids : /\ sess[i] = HS!NoSess /\ sess[i].pc = "none"
                        /\ sess[i].asked = "no" /\ sess[i].ver = 0
  BY <1>0 DEF HS!NoSess
<1>2. \A r \in HelperRequests : rpc[r] = HS!NoRpc
  BY <1>0
<1>3. HelperTyped
  <2>1. HS!TypeOK
    <3>1. 0 \in 0..HelperVersions /\ 0 \in 0..HelperIds /\ 0 \in 0..HelperCrashes
      BY HelperNumbers
    <3>2. HS!NoSess \in SessRecord
      BY <3>1 DEF HS!NoSess, SessRecord
    <3>3. sess \in [HS!Ids -> SessRecord]
      BY <1>0, <3>2
    <3>. QED  BY <1>0, <3>1, <3>3 DEF HS!TypeOK, SessRecord
  <2>. QED  BY <1>0, <2>1 DEF HelperTyped
<1>4. SessionsSound
  BY <1>0, <1>1 DEF SessionsSound, HS!InMap, Cored
<1>5. RpcsSound
  BY <1>2 DEF RpcsSound, RpcSound
<1>6. DeskSound
  BY <1>0 DEF DeskSound
<1>7. Alone
  BY <1>0, <1>2 DEF Alone
<1>. QED  BY <1>3, <1>4, <1>5, <1>6, <1>7 DEF HelperInv

LEMMA HelperCount == \A S : HS!Cardinality(S) = Cardinality(S)
  BY DEF HS!Cardinality, Cardinality, HS!IsFiniteSet, IsFiniteSet

(* The helper's Server: whatever requests overlap, time out or outlive a   *)
(* crash of the desktop, for any number of connections, sessions, settings *)
(* and crashes, there is never a second core, the resolver is the user's   *)
(* unless a session the helper knows has set it, and a desktop that was    *)
(* told its core is ready has it, unless it ended by itself or a request   *)
(* was abandoned while it was being handled.                               *)
THEOREM HelperLeavesNothing == Spec => []NothingLeftBehind
<1> DEFINE Inv == model = "helper" => HelperInv
<1>1. Init => Inv
  BY HelperStarts DEF Init
<1>2. Inv /\ [Next]_vars => Inv'
  <2> SUFFICES ASSUME model = "helper", HelperInv, [Next]_vars
               PROVE  HelperInv'
    BY OneRuns
  <2>1. [HS!Next]_hsVars
    BY OneRuns
  <2>2. CASE UNCHANGED hsVars
    <3>1. UNCHANGED <<sess, dns, rpc, desk, nextId, crashes, abandoned, quits>>
      BY <2>2 DEF hsVars
    <3>2. HelperTyped' /\ SessionsSound' /\ RpcsSound' /\ DeskSound' /\ Alone'
      BY <3>1 DEF HelperInv, HelperTyped, HS!TypeOK, SessionsSound, HS!InMap, RpcsSound, RpcSound,
                  StartSound, Settled, DeskSound, Alone
    <3>. QED  BY <3>2 DEF HelperInv
  <2>. QED  BY <2>1, <2>2, HelperSteps
<1>3. Inv => NothingLeftBehind
  <2> SUFFICES ASSUME HelperInv
               PROVE  HS!TypeOK /\ HS!NothingLeftBehind /\ HS!ReadyIsServed
    BY DEF NothingLeftBehind
  <2>. USE HelperFields, SessNow DEF HelperInv
  <2> DEFINE C == {i \in HS!Ids : sess[i].pc \in {"starting", "dns", "running"}}
  <2>1. \A i, j \in C : i = j
    BY DEF SessionsSound, HS!InMap
  <2>. HIDE DEF C
  <2>2. Cardinality(C) <= 1
    <3>1. CASE C = {}
      BY <3>1, FS_EmptySet
    <3>2. CASE C # {}
      <4>1. PICK i \in C : TRUE
        BY <3>2
      <4>2. C = {i}
        BY <2>1, <4>1
      <4>3. Cardinality({i}) = 1
        BY FS_Singleton
      <4>. QED  BY <4>2, <4>3
    <3>. QED  BY <3>1, <3>2
  <2>3. dns # HS!Users => dns[1] \in HS!InMap
    BY DEF SessionsSound, HS!InMap, Cored
  <2>4. HS!NothingLeftBehind
    BY <2>2, <2>3, HelperCount DEF HS!NothingLeftBehind, C
  <2>5. HS!ReadyIsServed
    BY DEF HS!ReadyIsServed, Alone
  <2>. QED  BY <2>4, <2>5 DEF HelperTyped
<1>. QED  BY <1>1, <1>2, <1>3, PTL DEF Spec
==============================================================================
