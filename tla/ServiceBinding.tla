--------------------------- MODULE ServiceBinding ---------------------------
(***************************************************************************)
(* src/internal/cluster/servicebinding/endpoints.go: how an Exchange or a  *)
(* Service Mirror points one Kubernetes Service at the Gateway and gives   *)
(* it back.  Every call of the Kubernetes API is one action; a call may    *)
(* fail, the desktop may crash between two calls, other desktops may work  *)
(* on the same Service, and the EndpointSlice controller runs all along.   *)
(* The Service's selector is told apart as "app", its own one, and "none". *)
(***************************************************************************)
EXTENDS Naturals, FiniteSets

CONSTANTS
    Clients,      \* the desktops that work on the Service
    Originals,    \* its own EndpointSlices
    MaxFaults,    \* bound: calls that fail
    MaxCrashes    \* bound: crashes of a desktop

None == "none"
Managed == "managed"   \* managedEndpointSliceName

VARIABLES
    own,       \* its own selector; "none" if its EndpointSlices are hand-written
    svc,       \* the Service: selector and the two annotations
    slices,    \* its own EndpointSlices that exist
    managed,   \* whose Gateway address the managed EndpointSlice has
    cl,        \* the desktops: where they are, and their snapshot
    current,   \* those whose copy of the Service has the latest resourceVersion
    faults, crashes,
    dirty,     \* history: desktops whose last operation left something behind
    spent      \* history: a stop without a selector of its own was repeated after
               \* its first attempt had used up the backup annotation

vars == <<own, svc, slices, managed, cl, current, faults, crashes, dirty, spent>>

Pristine == [exists |-> TRUE, selector |-> own, id |-> FALSE, backup |-> FALSE]

PCs == {"idle", "get", "list", "update", "delete", "held",
        "rget", "rupdate", "rdelete", "rgone", "rcreate", "stuck"}
IdleClient == [pc |-> "idle", selector |-> None, saved |-> {}, todo |-> {}, drop |-> FALSE]

TypeOK ==
    /\ own \in {"app", None}
    /\ svc \in [exists : BOOLEAN, selector : {"app", None}, id : BOOLEAN, backup : BOOLEAN]
    /\ slices \subseteq Originals /\ managed \in Clients \cup {None}
    /\ cl \in [Clients -> [pc : PCs, selector : {"app", None}, saved : SUBSET Originals,
                           todo : SUBSET (Originals \cup {Managed}), drop : BOOLEAN]]
    /\ current \subseteq Clients /\ dirty \subseteq Clients
    /\ faults \in 0..MaxFaults /\ crashes \in 0..MaxCrashes /\ spent \in BOOLEAN

Init ==
    /\ own \in {"app", None}
    /\ svc = Pristine /\ slices = Originals /\ managed = None
    /\ cl = [c \in Clients |-> IdleClient]
    /\ current = {} /\ faults = 0 /\ crashes = 0 /\ dirty = {} /\ spent = FALSE

-----------------------------------------------------------------------------
(* A call of the Kubernetes API: it succeeds, fails, or fails for the      *)
(* caller though it was carried out.                                       *)
Outcomes == {"ok", "fail", "lost"}
Charge(o) == /\ o # "ok" => faults < MaxFaults
             /\ faults' = IF o = "ok" THEN faults ELSE faults + 1

(* A delete or a create of one EndpointSlice, carried out or not.          *)
Delete(s, o) == /\ slices' = IF o = "fail" THEN slices ELSE slices \ {s}
                /\ managed' = IF s = Managed /\ o # "fail" THEN None ELSE managed

Goto(c, pc) == cl' = [cl EXCEPT ![c].pc = pc]

(* What a failed restore leaves: Stop keeps the runtime for a retry, the   *)
(* rollback of a start gives up.                                           *)
RestoreFails(c) ==
    IF cl[c].drop THEN /\ cl' = [cl EXCEPT ![c] = IdleClient]
                       /\ dirty' = dirty \cup {c}
                  ELSE Goto(c, "stuck") /\ UNCHANGED dirty
-----------------------------------------------------------------------------
(* startServiceIntercept: GetService, whose selector is put in the snapshot. *)
Load(c) ==
    /\ cl[c].pc = "idle" /\ svc.exists
    /\ cl' = [cl EXCEPT ![c].pc = "get", ![c].selector = svc.selector]
    /\ UNCHANGED <<own, spent, svc, slices, managed, current, faults, crashes, dirty>>

(* applyServiceIntercept: Get.  The id is "namespace/service" for every    *)
(* desktop, so the annotation never holds another one.                     *)
ApplyGet(c) ==
    /\ cl[c].pc = "get"
    /\ \E o \in {"ok", "fail"} :
         /\ Charge(o)
         /\ IF o = "ok" /\ svc.exists
            THEN Goto(c, "list") /\ current' = current \cup {c}
            ELSE cl' = [cl EXCEPT ![c] = IdleClient] /\ UNCHANGED current
    /\ UNCHANGED <<own, spent, svc, slices, managed, crashes, dirty>>

(* snapshotEndpointSlices: List.                                           *)
SnapshotEndpointSlices(c) ==
    /\ cl[c].pc = "list"
    /\ \E o \in {"ok", "fail"} :
         /\ Charge(o)
         /\ cl' = [cl EXCEPT ![c] = IF o = "ok"
                     THEN [@ EXCEPT !.pc = "update", !.saved = slices,
                             !.todo = slices \cup {m \in {Managed} : managed # None}]
                     ELSE IdleClient]
    /\ UNCHANGED <<own, spent, svc, slices, managed, current, crashes, dirty>>

(* The Service with its selector moved to the backup annotation.           *)
Cleared == [svc EXCEPT !.selector = None, !.id = TRUE,
                       !.backup = svc.backup \/ svc.selector # None]

(* Update with the resourceVersion of the Get; its error is returned as it *)
(* is.                                                                     *)
ClearSelector(c) ==
    /\ cl[c].pc = "update"
    /\ \E o \in Outcomes :
         /\ Charge(o)
         /\ LET done == o # "fail" /\ c \in current
            IN  /\ svc' = IF done THEN Cleared ELSE svc
                /\ current' = IF done THEN {} ELSE current
                /\ IF o = "ok" /\ done
                   THEN cl' = [cl EXCEPT ![c].pc = "delete", ![c].drop = TRUE]
                   ELSE cl' = [cl EXCEPT ![c] = IdleClient]
                /\ dirty' = IF done /\ o # "ok" THEN dirty \cup {c} ELSE dirty
    /\ UNCHANGED <<own, spent, slices, managed, crashes>>

(* deleteEndpointSlices: one Delete for each listed name; an error starts  *)
(* the rollback.                                                           *)
DeleteEndpointSlice(c) ==
    /\ cl[c].pc = "delete" /\ cl[c].todo # {}
    /\ \E s \in cl[c].todo, o \in Outcomes :
         /\ Charge(o)
         /\ Delete(s, o)
         /\ IF o = "ok" THEN cl' = [cl EXCEPT ![c].todo = @ \ {s}]
                        ELSE Goto(c, "rget")
    /\ UNCHANGED <<own, spent, svc, current, crashes, dirty>>

(* Create of the managed EndpointSlice, replacing one that is there.       *)
CreateManaged(c) ==
    /\ cl[c].pc = "delete" /\ cl[c].todo = {}
    /\ \E o \in Outcomes :
         /\ Charge(o)
         /\ managed' = IF o = "fail" THEN managed ELSE c
         /\ IF o = "ok" THEN cl' = [cl EXCEPT ![c].pc = "held", ![c].drop = FALSE]
                        ELSE Goto(c, "rget")
    /\ UNCHANGED <<own, spent, svc, slices, current, crashes, dirty>>

-----------------------------------------------------------------------------
(* serviceLease.Release, called by Stop, again after it failed, and by the *)
(* compensation of a start, which drops its error.                         *)
Release(c, drop) ==
    /\ cl[c].pc = "held" \/ (cl[c].pc = "stuck" /\ ~drop)
    /\ cl' = [cl EXCEPT ![c].pc = "rget", ![c].drop = drop]
    /\ spent' = (spent \/ (cl[c].pc = "stuck" /\ own = "app" /\ cl[c].selector = None /\ ~svc.backup))
    /\ UNCHANGED <<own, svc, slices, managed, current, faults, crashes, dirty>>

(* restoreServiceIntercept: Get.  For a Service that is gone only the      *)
(* managed EndpointSlice is deleted.                                       *)
RestoreGet(c) ==
    /\ cl[c].pc = "rget"
    /\ \E o \in {"ok", "fail"} :
         /\ Charge(o)
         /\ \/ /\ o = "ok" /\ svc.exists
               /\ Goto(c, "rupdate") /\ current' = current \cup {c}
               /\ UNCHANGED dirty
            \/ /\ o = "ok" /\ ~svc.exists
               /\ Goto(c, "rgone") /\ dirty' = dirty \ {c} /\ UNCHANGED current
            \/ /\ o = "fail" /\ RestoreFails(c) /\ UNCHANGED current
    /\ UNCHANGED <<own, spent, svc, slices, managed, crashes>>

(* Mutant: the annotations stay.                                           *)
RestoredAnnotated(c) ==
    [svc EXCEPT !.selector = IF cl[c].selector # None THEN cl[c].selector
                             ELSE IF svc.backup THEN "app" ELSE None]

(* The Service with the selector of the snapshot or, if that is empty, of  *)
(* the backup annotation.                                                  *)
RestoredBy(c) ==
    [svc EXCEPT !.selector = IF cl[c].selector # None THEN cl[c].selector
                             ELSE IF svc.backup THEN "app" ELSE None,
                !.id = FALSE, !.backup = FALSE]

(* What the desktop had left behind is made up for by the backup           *)
(* annotation; hand-written EndpointSlices were in its memory only.        *)
MadeUp(c) == IF own = "app" THEN dirty \ {c} ELSE dirty

RestoreSelector(c) ==
    /\ cl[c].pc = "rupdate"
    /\ \E o \in Outcomes :
         /\ Charge(o)
         /\ LET done == o # "fail" /\ c \in current
            IN  /\ svc' = IF done THEN RestoredBy(c) ELSE svc
                /\ current' = IF done THEN {} ELSE current
                /\ IF o = "ok" /\ done THEN Goto(c, "rdelete") /\ dirty' = MadeUp(c)
                                       ELSE RestoreFails(c)
    /\ UNCHANGED <<own, spent, slices, managed, crashes>>

(* Delete of the managed EndpointSlice; its error is dropped, and Stop     *)
(* succeeds though the slice may still be there.                           *)
RestoreDelete(c) ==
    /\ cl[c].pc \in {"rdelete", "rgone"}
    /\ \E o \in Outcomes :
         /\ Charge(o) /\ Delete(Managed, o)
         /\ dirty' = IF o = "fail" THEN dirty \cup {c} ELSE dirty
    /\ cl' = [cl EXCEPT ![c] = IF @.pc = "rgone" THEN IdleClient
                               ELSE [@ EXCEPT !.pc = "rcreate", !.todo = cl[c].saved]]
    /\ UNCHANGED <<own, spent, svc, current, crashes>>

(* restoreEndpointSlices: Create, or Get and Update, one after the other.  *)
RestoreEndpointSlice(c) ==
    /\ cl[c].pc = "rcreate" /\ cl[c].todo # {}
    /\ \E s \in cl[c].todo, o \in Outcomes :
         /\ Charge(o)
         /\ slices' = IF o = "fail" THEN slices ELSE slices \cup {s}
         /\ IF o = "ok" THEN cl' = [cl EXCEPT ![c].todo = @ \ {s}] /\ UNCHANGED dirty
                        ELSE RestoreFails(c)
    /\ UNCHANGED <<own, spent, svc, managed, current, crashes>>

RestoreDone(c) ==
    /\ cl[c].pc = "rcreate" /\ cl[c].todo = {}
    /\ cl' = [cl EXCEPT ![c] = IdleClient]
    /\ UNCHANGED <<own, spent, svc, slices, managed, current, faults, crashes, dirty>>

-----------------------------------------------------------------------------
(* The desktop dies.  The snapshot lives in its memory only; what the next *)
(* launch restores is the intercept, by starting it again.                 *)
Crash(c) ==
    /\ cl[c].pc # "idle" /\ crashes < MaxCrashes
    /\ crashes' = crashes + 1
    /\ cl' = [cl EXCEPT ![c] = IdleClient]
    /\ dirty' = dirty \cup {c}
    /\ UNCHANGED <<own, spent, svc, slices, managed, current, faults>>

(* Kubernetes' EndpointSlice controller serves Services with a selector.   *)
Controller ==
    /\ svc.exists /\ svc.selector = "app" /\ slices # Originals
    /\ slices' = Originals
    /\ UNCHANGED <<own, spent, svc, managed, cl, current, faults, crashes, dirty>>

(* Somebody deletes the Service.  The controller's EndpointSlices go with  *)
(* it, the others, which have no owner reference, stay.                    *)
ServiceDeleted ==
    /\ svc.exists
    /\ svc' = [svc EXCEPT !.exists = FALSE]
    /\ slices' = IF own = "app" THEN {} ELSE slices
    /\ current' = {}
    /\ UNCHANGED <<own, spent, managed, cl, faults, crashes, dirty>>

Next ==
    \/ Controller \/ ServiceDeleted
    \/ \E c \in Clients :
         \/ Load(c) \/ ApplyGet(c) \/ SnapshotEndpointSlices(c) \/ ClearSelector(c)
         \/ DeleteEndpointSlice(c) \/ CreateManaged(c)
         \/ \E drop \in BOOLEAN : Release(c, drop)
         \/ RestoreGet(c) \/ RestoreSelector(c) \/ RestoreDelete(c)
         \/ RestoreEndpointSlice(c) \/ RestoreDone(c) \/ Crash(c)
Spec == Init /\ [][Next]_vars

-----------------------------------------------------------------------------
(* The selector of a Service is never lost: the Service has it, or its      *)
(* backup annotation does.  Excepted is the one way a single desktop can    *)
(* lose it: an intercept started again on a Service it had left behind has  *)
(* no selector in its snapshot, and a repeated stop no annotation any more. *)
SelectorKept == svc.exists /\ own = "app" /\ ~spent => svc.selector = "app" \/ svc.backup

(* "The Service selector and EndpointSlice are restored correctly after     *)
(* Exchange stops": when no desktop works on the Service and none has left  *)
(* something behind that nobody made up for, the Service is as it was, in   *)
(* spite of earlier crashes, failed starts and retried stops, unless a stop *)
(* that had no selector in its snapshot was repeated (spent).               *)
RestoredAfterStop ==
    (\A c \in Clients : cl[c].pc = "idle") /\ dirty = {} /\ ~spent =>
    /\ managed = None
    /\ svc.exists => svc = Pristine /\ (own = "app" \/ slices = Originals)

(* A start that succeeded has redirected the Service to its own Gateway.    *)
Redirected == \A c \in Clients : cl[c].pc = "held" =>
    managed = c /\ (svc.exists => svc.selector = None /\ svc.id)
=============================================================================
