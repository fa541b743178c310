------------------------------- MODULE Install -------------------------------
(***************************************************************************)
(* Installing the privileged helper (src/internal/helper/install, Linux):  *)
(* the desktop places the bundled binary and runs an elevated installer,   *)
(* which copies what is there aside, stops the service, replaces the       *)
(* binary and the two credential files, starts the service, waits for it   *)
(* to answer, and on any failure puts everything back.  Steps fail, and    *)
(* the installer may be killed between any two of them.                    *)
(***************************************************************************)
EXTENDS Naturals

CONSTANT MaxFaults   \* bound: steps that fail, and kills

Files == {"binary", "auth", "token"}
Nothing == 0
Old == 1
New == 2
Torn == 3
Off == [up |-> FALSE, binary |-> Nothing, auth |-> Nothing]
Empty == [n \in Files |-> Nothing]

VARIABLES
    source,    \* the placed copy of the bundled binary
    file,      \* the installed files
    backup,    \* their .kubeloop-rollback copies
    service,   \* the running helper, with what it was started from
    unit,      \* the service is enabled
    pc,        \* the step of the installer
    existed,   \* fileRollback.existed
    errs,      \* a step of the rollback has failed
    outcome,   \* what the last call of EnsureInstall returned
    began,     \* history: the files when the installer began
    faults,
    same       \* the credentials of the older release are those of the user still

vars == <<source, file, backup, service, unit, pc, existed, errs, outcome, began, faults, same>>

At(step, n) == [step |-> step, file |-> n]
Steps == {"idle", "locate", "place", "begin", "prepare", "copy", "writeAuth", "fillAuth",
          "writeToken", "fillToken", "enable", "wait", "stop", "service",
          "snap", "restore"}

TypeOK ==
    /\ source \in {Nothing, Old, New} /\ pc \in [step : Steps, file : Files]
    /\ {file, backup, began} \subseteq [Files -> Nothing..Torn]
    /\ outcome \in {"none", "current", "ok", "refused", "undone", "broken", "killed"}

(* Nothing is installed, or an older release that works.                   *)
Init ==
    /\ source \in {Nothing, Old} /\ backup = Empty
    /\ \/ file = Empty /\ service = Off /\ unit = FALSE
       \/ /\ file = [n \in Files |-> Old] /\ unit = TRUE
          /\ service = [up |-> TRUE, binary |-> Old, auth |-> Old]
    /\ pc = At("idle", "binary") /\ existed = {} /\ errs = FALSE /\ outcome = "none"
    /\ began = Empty /\ faults = 0 /\ same \in BOOLEAN

-----------------------------------------------------------------------------
(* A helper without readable credentials does not come up.                 *)
Started == IF file["binary"] \in {Old, New} /\ file["auth"] \in {Old, New}
           THEN [up |-> TRUE, binary |-> file["binary"], auth |-> file["auth"]] ELSE Off

(* The answer to a ping: the new version, with the user's token.           *)
Ready == service.up /\ service.binary = New /\ (service.auth = New \/ same)

EnsureInstall ==
    /\ pc.step = "idle" /\ pc' = At("locate", "binary")
    /\ UNCHANGED <<source, file, backup, service, unit, existed, errs, outcome, began, faults, same>>

(* materializeBundledFile: the placed copy is replaced unless it is equal. *)
Locate ==
    /\ pc.step = "locate"
    /\ IF source = New THEN pc' = At("begin", "binary") /\ UNCHANGED source
       ELSE pc' = At("place", "binary") /\ source' = Nothing
    /\ UNCHANGED <<file, backup, service, unit, existed, errs, outcome, began, faults, same>>

Place ==
    /\ pc.step = "place" /\ source' = New /\ pc' = At("begin", "binary")
    /\ UNCHANGED <<file, backup, service, unit, existed, errs, outcome, began, faults, same>>

(* EnsureInstall returns if the helper is current.                         *)
Current == Ready /\ file["binary"] = New

AlreadyInstalled ==
    /\ pc.step = "begin" /\ Current
    /\ pc' = At("idle", "binary") /\ outcome' = "current"
    /\ UNCHANGED <<source, file, backup, service, unit, existed, errs, began, faults, same>>

Begin ==
    /\ pc.step = "begin" /\ ~Current
    /\ pc' = At("snap", "binary") /\ began' = file
    /\ existed' = {} /\ errs' = FALSE
    /\ UNCHANGED <<source, file, backup, service, unit, outcome, faults, same>>

After(n) == CASE n = "binary" -> "auth" [] n = "auth" -> "token" [] OTHER -> "binary"

(* snapshotFileForRollback, file by file.                                  *)
Snapshot(n) ==
    /\ pc = At("snap", n)
    /\ backup' = [backup EXCEPT ![n] = file[n]]
    /\ existed' = IF file[n] = Nothing THEN existed ELSE existed \cup {n}
    /\ pc' = IF n = "token" THEN At("prepare", "binary") ELSE At("snap", After(n))
    /\ UNCHANGED <<source, file, service, unit, errs, outcome, began, faults, same>>

(* The copies made so far are discarded, an older one is left.             *)
SnapshotFails(n) ==
    /\ pc = At("snap", n) /\ faults < MaxFaults /\ faults' = faults + 1
    /\ backup' = [m \in Files |-> IF m = n \/ m = "token" \/ n = "binary" THEN backup[m] ELSE Nothing]
    /\ pc' = At("idle", "binary") /\ outcome' = "refused"
    /\ UNCHANGED <<source, file, service, unit, existed, errs, began, same>>

-----------------------------------------------------------------------------
Prepare ==
    /\ pc.step = "prepare" /\ service' = Off /\ pc' = At("copy", "binary")
    /\ UNCHANGED <<source, file, backup, unit, existed, errs, outcome, began, faults, same>>

(* copyFile stages, compares hashes and renames.                           *)
CopyFile ==
    /\ pc.step = "copy" /\ pc' = At("writeAuth", "binary")
    /\ file' = [file EXCEPT !["binary"] = source]
    /\ UNCHANGED <<source, backup, service, unit, existed, errs, outcome, began, faults, same>>

(* WriteSystemAuth truncates and writes one file, then the other.          *)
WriteSystemAuth ==
    /\ \E w \in {<<"writeAuth", "auth", Torn, "fillAuth">>, <<"fillAuth", "auth", New, "writeToken">>,
                 <<"writeToken", "token", Torn, "fillToken">>, <<"fillToken", "token", New, "enable">>} :
         /\ pc.step = w[1] /\ pc' = At(w[4], "binary")
         /\ file' = [file EXCEPT ![w[2]] = w[3]]
    /\ UNCHANGED <<source, backup, service, unit, existed, errs, outcome, began, faults, same>>

EnableService ==
    /\ pc.step = "enable" /\ unit' = TRUE /\ service' = Started /\ pc' = At("wait", "binary")
    /\ UNCHANGED <<source, file, backup, existed, errs, outcome, began, faults, same>>

WaitReady ==
    /\ pc.step = "wait" /\ Ready
    /\ pc' = At("idle", "binary") /\ outcome' = "ok" /\ backup' = Empty
    /\ UNCHANGED <<source, file, service, unit, existed, errs, began, faults, same>>

(* A step fails, or the helper does not become ready in time; the unit may *)
(* be written already.                                                     *)
StepFails ==
    /\ pc.step \in {"prepare", "copy", "writeAuth", "fillAuth", "writeToken", "fillToken",
                    "enable", "wait"}
    /\ faults < MaxFaults /\ faults' = faults + 1
    /\ unit' \in IF pc.step = "enable" THEN {unit, TRUE} ELSE {unit}
    /\ pc' = At("stop", "binary")
    /\ UNCHANGED <<source, file, backup, service, existed, errs, outcome, began, same>>

-----------------------------------------------------------------------------
(* installRollback.restore goes on after a step that failed.               *)
StopAgain ==
    /\ pc.step = "stop" /\ pc' = At("restore", "binary")
    /\ \/ service' = Off /\ UNCHANGED <<errs, faults>>
       \/ /\ service.up /\ faults < MaxFaults /\ faults' = faults + 1
          /\ errs' = TRUE /\ UNCHANGED service
    /\ UNCHANGED <<source, file, backup, unit, existed, outcome, began, same>>

RestoreKeepsNew(n) ==  \* mutant: a file that was not there before is left
    /\ pc = At("restore", n)
    /\ pc' = IF n = "token" THEN At("service", "binary") ELSE At("restore", After(n))
    /\ file' = [file EXCEPT ![n] = IF n \in existed THEN backup[n] ELSE @]
    /\ backup' = [backup EXCEPT ![n] = Nothing]
    /\ UNCHANGED <<source, service, unit, existed, errs, faults, outcome, began, same>>

PutBack(n) ==
    /\ file' = [file EXCEPT ![n] = IF n \in existed THEN backup[n] ELSE Nothing]
    /\ backup' = [backup EXCEPT ![n] = Nothing]

RollbackError == faults < MaxFaults /\ faults' = faults + 1 /\ errs' = TRUE

Restore(n) ==
    /\ pc = At("restore", n)
    /\ pc' = IF n = "token" THEN At("service", "binary") ELSE At("restore", After(n))
    /\ \/ PutBack(n) /\ UNCHANGED <<errs, faults>>
       \/ n \in existed /\ PutBack(n) /\ RollbackError   \* the Chmod afterwards
       \/ UNCHANGED <<file, backup>> /\ RollbackError
    /\ UNCHANGED <<source, service, unit, existed, outcome, began, same>>

(* The previous helper is started again, or the service removed.           *)
RestoreService ==
    /\ pc.step = "service" /\ pc' = At("idle", "binary")
    /\ \/ /\ IF "binary" \in existed THEN service' = Started /\ unit' = TRUE
             ELSE service' = Off /\ unit' = FALSE
          /\ outcome' = IF errs THEN "broken" ELSE "undone"
          /\ backup' = IF errs THEN backup ELSE Empty
          /\ UNCHANGED faults
       \/ /\ "binary" \in existed /\ faults < MaxFaults /\ faults' = faults + 1
          /\ outcome' = "broken" /\ UNCHANGED <<service, unit, backup>>
    /\ UNCHANGED <<source, file, existed, errs, began, same>>

-----------------------------------------------------------------------------
Kill ==
    /\ pc.step # "idle" /\ faults < MaxFaults /\ faults' = faults + 1
    /\ pc' = At("idle", "binary") /\ outcome' = "killed"
    /\ UNCHANGED <<source, file, backup, service, unit, existed, errs, began, same>>

(* The system starts an enabled service again.                             *)
Reboot ==
    /\ pc.step = "idle" /\ unit /\ service' = Started
    /\ UNCHANGED <<source, file, backup, unit, pc, existed, errs, outcome, began, faults, same>>

UninstallFromCLI ==
    /\ pc.step = "idle" /\ outcome' = "none"
    /\ service' = Off /\ unit' = FALSE /\ file' = Empty
    /\ UNCHANGED <<source, backup, pc, existed, errs, began, faults, same>>

Next ==
    \/ EnsureInstall \/ Locate \/ Place \/ AlreadyInstalled \/ Begin \/ Prepare \/ CopyFile
    \/ WriteSystemAuth \/ EnableService \/ WaitReady \/ StepFails \/ StopAgain \/ RestoreService
    \/ \E n \in Files : Snapshot(n) \/ SnapshotFails(n) \/ Restore(n)
    \/ Kill \/ Reboot \/ UninstallFromCLI

Spec == Init /\ [][Next]_vars

-----------------------------------------------------------------------------
(* An installation that is reported as done runs the new helper with the   *)
(* new credentials, and one that is reported as failed without a failed    *)
(* rollback has put back every file it found, has removed the ones it did  *)
(* not find, leaves no copy behind, and the helper that could run before   *)
(* runs again: also after earlier attempts that were killed half-way.      *)
AllOrNothing ==
    /\ outcome = "ok" /\ pc.step = "idle" => Ready /\ file = [n \in Files |-> New] /\ backup = Empty
    /\ outcome = "undone" /\ pc.step = "idle" =>
         /\ file = began /\ backup = Empty
         /\ began["binary"] # Nothing /\ began["auth"] \in {Old, New} => service.up
=============================================================================
