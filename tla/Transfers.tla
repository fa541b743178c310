------------------------------ MODULE Transfers ------------------------------
(***************************************************************************)
(* File transfers between the workstation and a container: the Manager of  *)
(* src/internal/filemanager.  A task is a record in a map that is saved    *)
(* after every change; each launch of it is a goroutine with a context of  *)
(* its own, which waits for one of the slots, copies into a part file and  *)
(* renames it.  Pause, Resume and Cancel change the record and cancel the  *)
(* context, but wait for nobody.                                           *)
(***************************************************************************)
EXTENDS Naturals, Sequences, FiniteSets

CONSTANTS
    Tasks,        \* ids of transfers
    Kinds,        \* within {"download", "upload", "downloadDir", "uploadDir"}
    Slots,        \* capacity of Manager.slots
    Total,        \* size of the source, in blocks
    MaxRuns,      \* bound: launches of one task
    MaxVersions,  \* bound: versions of the source
    MaxRestarts   \* bound: exits and crashes of the desktop

VARIABLES
    task,       \* Manager.tasks: status, request, version of the source
    cancels,    \* Manager.cancels: the launch it would cancel, 0 if none
    run,        \* the launches: goroutines of launch
    part, dest, \* what is at TempPath and at DestinationPath
    version,    \* of the source: a change of its size or modification time
    alive,      \* FALSE after Shutdown
    restarts,   \* exits and crashes so far
    overlapped, \* history: tasks resumed while an earlier launch still ran
    touched,    \* history: tasks whose source changed while it was copied
    edited      \* history: destinations the user made or removed by hand

vars == <<task, cancels, run, part, dest, version, alive, restarts, overlapped, touched, edited>>
history == <<overlapped, touched, edited>>
files == <<part, dest, version>>

Absent == <<>>                       \* no such file, or an empty one
Old == <<<<0, 0>>>>                  \* a file that was there before
Runs == 1..MaxRuns
Block(n) == <<n, version>>
Whole(v) == [n \in 1..Total |-> <<n, v>>]

NoTask == [status |-> "none", kind |-> "none", overwrite |-> FALSE, version |-> 0]
NoRun == [pc |-> "none", pos |-> 0, cancelled |-> FALSE]

Live(t, i) == run[t][i].pc \notin {"none", "end"}
InSlot == {"mark", "check", "copy", "final", "done", "failed", "stale"}

TypeOK ==
    /\ task \in [Tasks ->
         [status : {"none", "queued", "running", "paused", "completed", "failed",
                    "cancelled", "stale"},
          kind : Kinds \cup {"none"}, overwrite : BOOLEAN, version : 0..MaxVersions]]
    /\ cancels \in [Tasks -> 0..MaxRuns]
    /\ run \in [Tasks -> [Runs -> [pc : InSlot \cup {"none", "launch", "wait", "end"},
                                   pos : 0..Total, cancelled : BOOLEAN]]]
    /\ version \in 1..MaxVersions /\ alive \in BOOLEAN /\ restarts \in 0..MaxRestarts
    /\ overlapped \subseteq Tasks /\ touched \subseteq Tasks /\ edited \subseteq Tasks
    /\ Cardinality({r \in Tasks \X Runs : run[r[1]][r[2]].pc \in InSlot}) <= Slots

Init ==
    /\ task = [t \in Tasks |-> NoTask] /\ cancels = [t \in Tasks |-> 0]
    /\ run = [t \in Tasks |-> [i \in Runs |-> NoRun]]
    /\ part = [t \in Tasks |-> Absent] /\ dest \in [Tasks -> {Absent, Old}]
    /\ version = 1 /\ alive = TRUE /\ restarts = 0
    /\ overlapped = {} /\ touched = {} /\ edited = {}

-----------------------------------------------------------------------------
(* The user's calls.  Start and Resume record the task under the lock and  *)
(* launch it after the lock is released.                                   *)
Start(t, kind, overwrite) ==
    /\ alive /\ run[t][1] = NoRun
    /\ overwrite \/ dest[t] = Absent
    /\ task' = [task EXCEPT ![t] = [status |-> "queued", kind |-> kind,
                                    overwrite |-> overwrite, version |-> version]]
    /\ run' = [run EXCEPT ![t][1].pc = "launch"]
    /\ UNCHANGED <<cancels, files, alive, restarts, history>>

Resume(t, i) ==
    /\ alive /\ task[t].status \in {"paused", "failed", "stale"}
    /\ i > 1 /\ run[t][i] = NoRun /\ run[t][i - 1] # NoRun
    /\ task' = [task EXCEPT ![t].status = "queued"]
    /\ run' = [run EXCEPT ![t][i].pc = "launch"]
    /\ overlapped' = IF \E j \in Runs : Live(t, j) THEN overlapped \cup {t} ELSE overlapped
    /\ UNCHANGED <<cancels, files, alive, restarts, touched, edited>>

(* The cancel function of an ended launch stays in the map, to no effect.  *)
CancelRun(r, t) == IF cancels[t] = 0 \/ ~Live(t, cancels[t]) THEN r
                   ELSE [r EXCEPT ![t][cancels[t]].cancelled = TRUE]

LaunchOnce(t, i) ==  \* mutant: a cancel function in the map means it is running
    /\ run[t][i].pc = "launch"
    /\ run' = [run EXCEPT ![t][i].pc = IF cancels[t] = 0 THEN "wait" ELSE "end"]
    /\ cancels' = [cancels EXCEPT ![t] = IF @ = 0 THEN i ELSE @]
    /\ UNCHANGED <<task, files, alive, restarts, history>>

Launch(t, i) ==
    /\ run[t][i].pc = "launch"
    /\ run' = [CancelRun(run, t) EXCEPT ![t][i].pc = "wait"]
    /\ cancels' = [cancels EXCEPT ![t] = i]
    /\ UNCHANGED <<task, files, alive, restarts, history>>

(* Pause and Cancel.                                                       *)
Stop(t, status) ==
    /\ alive /\ task[t].status \notin {"none", "completed", "cancelled"}
    /\ task' = [task EXCEPT ![t].status = status]
    /\ run' = CancelRun(run, t)
    /\ UNCHANGED <<cancels, files, alive, restarts, history>>

ClearHistory ==
    /\ alive
    /\ task' = [t \in Tasks |-> IF task[t].status \in {"completed", "cancelled", "failed", "stale"}
                                THEN NoTask ELSE task[t]]
    /\ task' # task
    /\ UNCHANGED <<cancels, run, files, alive, restarts, history>>

Shutdown ==
    /\ alive
    /\ alive' = FALSE
    /\ run' = [t \in Tasks |-> CancelRun(run, t)[t]]
    /\ task' = [t \in Tasks |-> IF cancels[t] # 0 /\ task[t].status = "running"
                                THEN [task[t] EXCEPT !.status = "paused"] ELSE task[t]]
    /\ UNCHANGED <<cancels, files, restarts, history>>

(* The process ends, after Shutdown or in a crash, and load reads what the *)
(* last saveLocked wrote.                                                  *)
Restart ==
    /\ restarts < MaxRestarts /\ restarts' = restarts + 1
    /\ alive' = TRUE
    /\ task' = [t \in Tasks |-> IF task[t].status \in {"running", "queued"}
                                THEN [task[t] EXCEPT !.status = "paused"] ELSE task[t]]
    /\ cancels' = [t \in Tasks |-> 0]
    /\ run' = [t \in Tasks |-> [i \in Runs |-> IF Live(t, i) THEN [NoRun EXCEPT !.pc = "end"]
                                                             ELSE run[t][i]]]
    /\ UNCHANGED <<files, history>>

SourceChanges ==
    /\ version < MaxVersions /\ version' = version + 1
    /\ touched' = touched \cup {t \in Tasks : \E i \in Runs : run[t][i].pc = "copy"}
    /\ UNCHANGED <<task, cancels, run, part, dest, alive, restarts, overlapped, edited>>

(* The file browser, on the destination of a task, once each.              *)
EditFrame == UNCHANGED <<task, cancels, run, part, version, alive, restarts, overlapped, touched>>

CreateFile(t) ==
    /\ alive /\ t \notin edited /\ dest[t] = Absent
    /\ dest' = [dest EXCEPT ![t] = Old] /\ edited' = edited \cup {t}
    /\ EditFrame

DeletePath(t) ==
    /\ alive /\ t \notin edited /\ dest[t] # Absent
    /\ dest' = [dest EXCEPT ![t] = Absent] /\ edited' = edited \cup {t}
    /\ EditFrame

-----------------------------------------------------------------------------
(* The goroutine of launch.                                                *)
To(t, i, pc) ==
    run' = [run EXCEPT ![t][i] = IF pc = "end" THEN [NoRun EXCEPT !.pc = "end"]
                                 ELSE [@ EXCEPT !.pc = pc, !.pos = 0]]
Ends(t, i) == IF run[t][i].cancelled THEN {"end"} ELSE {"failed"}
RunFrame == UNCHANGED <<cancels, version, alive, restarts, history>>

Busy == {r \in Tasks \X Runs : run[r[1]][r[2]].pc \in InSlot}

(* The select takes either branch when both are ready.                     *)
TakeSlot(t, i) ==
    /\ run[t][i].pc = "wait" /\ Cardinality(Busy) < Slots
    /\ To(t, i, "mark") /\ RunFrame /\ UNCHANGED <<task, part, dest>>

GiveUp(t, i) ==
    /\ run[t][i].pc = "wait" /\ run[t][i].cancelled
    /\ To(t, i, "end") /\ RunFrame /\ UNCHANGED <<task, part, dest>>

(* setStatus(running), over whatever the status is by now; a task that was *)
(* cleared is not found.                                                   *)
MarkRunning(t, i) ==
    /\ run[t][i].pc = "mark"
    /\ task' = IF task[t].status = "none" THEN task
               ELSE [task EXCEPT ![t].status = "running"]
    /\ To(t, i, IF task[t].status = "none" THEN "end" ELSE "check")
    /\ RunFrame /\ UNCHANGED <<part, dest>>

UnchangedAlways(t) == TRUE  \* mutant: size and modification time are not compared

(* The source still has the size and modification time of the task.        *)
Unchanged(t) == version = task[t].version

(* The identity of the pod or the stat fails, or the source has changed.   *)
CheckFails(t, i) ==
    /\ run[t][i].pc = "check"
    /\ \E pc \in {"stale"} \cup Ends(t, i) : To(t, i, pc)
    /\ RunFrame /\ UNCHANGED <<task, part, dest>>

(* A download goes on where its part file ends, an upload too, or from the *)
(* start when the stat of its part file fails; a directory starts anew.    *)
Offset(t) == IF Len(part[t]) > Total THEN 0 ELSE Len(part[t])
DownloadFrom(t) == {Offset(t)}
UploadFrom(t) == {Offset(t), 0}
DirectoryFrom(t) == {0}
From(t) == CASE task[t].kind = "download" -> DownloadFrom(t)
             [] task[t].kind = "upload" -> UploadFrom(t)
             [] OTHER -> DirectoryFrom(t)

Begin(t, i) ==
    /\ run[t][i].pc = "check" /\ Unchanged(t)
    /\ \E pos \in From(t) :
         /\ part' = [part EXCEPT ![t] = IF pos = 0 THEN Absent ELSE @]
         /\ run' = [run EXCEPT ![t][i].pc = "copy", ![t][i].pos = pos]
    /\ RunFrame /\ UNCHANGED <<task, dest>>

(* One block.  A download writes at its own offset, an upload appends.     *)
CopyBlock(t, i) ==
    LET pos == run[t][i].pos
        at == IF task[t].kind = "download" /\ pos < Len(part[t]) THEN pos + 1
              ELSE Len(part[t]) + 1
    IN  /\ run[t][i].pc = "copy" /\ pos < Total
        /\ run' = [run EXCEPT ![t][i].pos = pos + 1]
        /\ part' = [part EXCEPT ![t] = [n \in 1..Len(@) \cup {at} |->
                                           IF n = at THEN Block(pos + 1) ELSE @[n]]]
        /\ RunFrame /\ UNCHANGED <<task, dest>>

CopyDone(t, i) ==
    /\ run[t][i].pc = "copy" /\ run[t][i].pos = Total
    /\ To(t, i, "final") /\ RunFrame /\ UNCHANGED <<task, part, dest>>

CopyFails(t, i) ==
    /\ run[t][i].pc = "copy"
    /\ \E pc \in Ends(t, i) : To(t, i, pc)
    /\ RunFrame /\ UNCHANGED <<task, part, dest>>

(* The rename.  Only the download of a file replaces a destination that    *)
(* appeared meanwhile; with overwrite, the old one is removed first.       *)
MayReplace(t) == task[t].overwrite \/ dest[t] = Absent \/ task[t].kind = "download"

Finalize(t, i) ==
    /\ run[t][i].pc = "final" /\ part[t] # Absent /\ MayReplace(t)
    /\ To(t, i, "done")
    /\ dest' = [dest EXCEPT ![t] = part[t]] /\ part' = [part EXCEPT ![t] = Absent]
    /\ RunFrame /\ UNCHANGED task

(* It fails: the destination exists, the part file is gone, or the exec    *)
(* breaks before, between or after rm and mv.                              *)
FinalizeFails(t, i) ==
    /\ run[t][i].pc = "final"
    /\ \E pc \in IF task[t].kind \in {"upload", "uploadDir"} THEN Ends(t, i) ELSE {"failed"} :
         To(t, i, pc)
    /\ \/ UNCHANGED <<part, dest>>
       \/ /\ task[t].overwrite
          /\ dest' = [dest EXCEPT ![t] = Absent] /\ UNCHANGED part
       \/ /\ task[t].kind \in {"upload", "uploadDir"} /\ part[t] # Absent
          /\ MayReplace(t)
          /\ dest' = [dest EXCEPT ![t] = part[t]] /\ part' = [part EXCEPT ![t] = Absent]
    /\ RunFrame /\ UNCHANGED task

(* The outcome, recorded over whatever the status is by now.               *)
Complete(t, i) ==
    /\ run[t][i].pc = "done"
    /\ IF task[t].status = "none" THEN UNCHANGED <<task, cancels>>
       ELSE /\ task' = [task EXCEPT ![t].status = "completed"]
            /\ cancels' = [cancels EXCEPT ![t] = 0]
    /\ To(t, i, "end") /\ UNCHANGED <<files, alive, restarts, history>>

Fail(t, i) ==
    /\ run[t][i].pc \in {"failed", "stale"}
    /\ task' = IF task[t].status = "none" THEN task
               ELSE [task EXCEPT ![t].status = run[t][i].pc]
    /\ To(t, i, "end") /\ RunFrame /\ UNCHANGED <<part, dest>>

-----------------------------------------------------------------------------
RunSteps(t, i) ==
    \/ Launch(t, i) \/ GiveUp(t, i) \/ MarkRunning(t, i) \/ CheckFails(t, i)
    \/ Begin(t, i) \/ CopyBlock(t, i) \/ CopyDone(t, i) \/ CopyFails(t, i)
    \/ Finalize(t, i) \/ FinalizeFails(t, i) \/ Complete(t, i) \/ Fail(t, i)

Next ==
    \/ ClearHistory \/ Shutdown \/ Restart \/ SourceChanges
    \/ \E t \in Tasks :
         \/ CreateFile(t) \/ DeletePath(t)
         \/ \E kind \in Kinds, overwrite \in BOOLEAN : Start(t, kind, overwrite)
         \/ \E status \in {"paused", "cancelled"} : Stop(t, status)
         \/ \E i \in Runs : Resume(t, i) \/ TakeSlot(t, i) \/ RunSteps(t, i)
Spec == Init /\ [][Next]_vars

(* Goroutines run, a blocked send gets its turn (channels are first come,  *)
(* first served), and the exec of a copy ends, well or not.                *)
Duty(k) == \E t \in Tasks : k \in Runs /\ RunSteps(t, k)
Blocked(k) == \E t \in Tasks : k \in Runs /\ TakeSlot(t, k)

-----------------------------------------------------------------------------
(* What a transfer puts at its destination is the whole source as it was   *)
(* when the task was made, never a mixture of two versions and never a     *)
(* part, however it was paused, failed, crashed and resumed; unless the    *)
(* source changed under a copy, or two launches of the task overlapped.    *)
WholeFile ==
    \A t \in Tasks \ (overlapped \cup touched) :
        dest[t] \in {Absent, Old, Whole(task[t].version)} \/ task[t].status = "none"

(* A task that is shown as completed has its file, whatever Pause, Cancel  *)
(* and Shutdown raced its last steps, unless the user removed it since.    *)
CompletedHasFile ==
    \A t \in Tasks \ (overlapped \cup edited) :
        task[t].status = "completed" => dest[t] \notin {Absent, Old}

(* A queued task does not wait for ever: Resume gives it a launch of its   *)
(* own, and slots come back on every path of a launch.                     *)
QueueMoves ==
    \A t \in Tasks : task[t].status = "queued" ~> (task[t].status # "queued" \/ ~alive)
=============================================================================
