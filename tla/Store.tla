-------------------------------- MODULE Store --------------------------------
(***************************************************************************)
(* The state file (src/internal/store, src/internal/fsatomic): operations  *)
(* change the state in memory under one lock and then write all of it to   *)
(* the file.  A write may fail at any of its steps, and the application    *)
(* may die at any moment; the next launch starts from the file.            *)
(***************************************************************************)
EXTENDS Naturals, FiniteSets

CONSTANTS
    Contexts,
    Files,       \* kubeconfig files the user may add
    MaxFaults    \* bound: failed writes and deaths

(* What is kept per context, by what the operations tell apart: the flag   *)
(* that reconnects, the intents of a session (forwards, exchanges,         *)
(* mirrors), and what outlives it (previews, aliases, network, mode).      *)
Cluster == [connected : BOOLEAN, intents : 0..1, kept : 0..1]
NewCluster == [connected |-> FALSE, intents |-> 0, kept |-> 0]
Fresh == [clusters |-> [k \in Contexts |-> NewCluster], files |-> {}, last |-> "none"]
Torn == [Fresh EXCEPT !.last = "torn"]

VARIABLES
    state,   \* Store.state
    file,    \* state.json
    pc,      \* the operation that holds the lock
    temp,    \* a temporary file is in the directory
    faults,
    saved    \* history: the last operation that wrote the file succeeded

vars == <<state, file, pc, temp, faults, saved>>

States == [clusters : [Contexts -> Cluster], files : SUBSET Files,
           last : Contexts \cup {"none", "torn"}]
TypeOK ==
    /\ {state, file} \subseteq States /\ {temp, saved} \subseteq BOOLEAN
    /\ pc \in {"idle", "create", "write", "rename", "down", "refused"}

Init ==
    /\ state = Fresh /\ file = Fresh /\ pc = "idle" /\ temp = FALSE
    /\ faults = 0 /\ saved = TRUE

-----------------------------------------------------------------------------
(* An operation that changes the state goes on to save it.                 *)
Change(new) ==
    /\ pc = "idle" /\ pc' = "create" /\ state' = new
    /\ UNCHANGED <<file, temp, faults, saved>>

SetConnected(k, on) ==
    Change([state EXCEPT
        !.clusters = [j \in Contexts |->
            [state.clusters[j] EXCEPT !.connected = IF j = k THEN on ELSE @ /\ ~on]],
        !.last = k])

SetIntents(k, n) == Change([state EXCEPT !.clusters[k].intents = n])
SetKept(k, n) == Change([state EXCEPT !.clusters[k].kept = n])
SetUI(k) == Change([state EXCEPT !.last = k])

(* An operation that finds nothing to change returns without saving.       *)
ClearSessionIntents ==
    /\ \E k \in Contexts : state.clusters[k].intents > 0
    /\ Change([state EXCEPT !.clusters =
                   [k \in Contexts |-> [state.clusters[k] EXCEPT !.intents = 0]]])
AddKubeconfigFile(f) == f \notin state.files /\ Change([state EXCEPT !.files = @ \cup {f}])
RemoveKubeconfigFile(f) == f \in state.files /\ Change([state EXCEPT !.files = @ \ {f}])

-----------------------------------------------------------------------------
(* WriteFile: a temporary file, its contents, the rename.                  *)
CreateTemp ==
    /\ pc = "create" /\ pc' = "write" /\ temp' = TRUE
    /\ UNCHANGED <<state, file, faults, saved>>

WriteInPlace ==  \* mutant: the file itself is truncated and written
    /\ pc = "write" /\ pc' = "rename" /\ file' = Torn
    /\ UNCHANGED <<state, temp, faults, saved>>

WriteTemp ==
    /\ pc = "write" /\ pc' = "rename"
    /\ UNCHANGED <<state, file, temp, faults, saved>>

Rename ==
    /\ pc = "rename" /\ pc' = "idle"
    /\ file' = state /\ temp' = FALSE /\ saved' = TRUE
    /\ UNCHANGED <<state, faults>>

(* A step fails: the error is returned, the state in memory stays changed. *)
SaveFails ==
    /\ pc \in {"create", "write", "rename"} /\ faults < MaxFaults
    /\ faults' = faults + 1 /\ pc' = "idle" /\ temp' = FALSE /\ saved' = FALSE
    /\ UNCHANGED <<state, file>>

Die ==
    /\ pc \notin {"down", "refused"} /\ faults < MaxFaults /\ faults' = faults + 1
    /\ pc' = "down" /\ state' = Fresh
    /\ UNCHANGED <<file, temp, saved>>

(* Open: a file that cannot be decoded keeps the application from starting.*)
Load ==
    /\ pc = "down"
    /\ IF file.last = "torn" THEN pc' = "refused" /\ UNCHANGED state
       ELSE pc' = "idle" /\ state' = file
    /\ saved' = TRUE
    /\ UNCHANGED <<file, temp, faults>>

Next ==
    \/ \E k \in Contexts : \/ \E on \in BOOLEAN : SetConnected(k, on)
                           \/ \E n \in 0..1 : SetIntents(k, n) \/ SetKept(k, n)
                           \/ SetUI(k)
    \/ ClearSessionIntents
    \/ \E f \in Files : AddKubeconfigFile(f) \/ RemoveKubeconfigFile(f)
    \/ CreateTemp \/ WriteTemp \/ Rename \/ SaveFails \/ Die \/ Load

Spec == Init /\ [][Next]_vars

-----------------------------------------------------------------------------
Reconnecting(s) == {k \in Contexts : s.clusters[k].connected}

(* "Only one context may auto-reconnect", also in what a launch finds      *)
(* after a death in the middle of a save; the application can always start *)
(* again; and when the last write succeeded and nothing is under way, the  *)
(* file is what the application has in memory.                             *)
StoreSound ==
    /\ pc # "refused"
    /\ Cardinality(Reconnecting(file)) <= 1 /\ Cardinality(Reconnecting(state)) <= 1
    /\ pc = "idle" /\ saved => file = state
=============================================================================
