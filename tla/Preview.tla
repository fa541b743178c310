------------------------------- MODULE Preview -------------------------------
(***************************************************************************)
(* src/internal/cluster/servicebinding/preview.go: a local preview makes a *)
(* Service and its EndpointSlice under a name that others may use as well, *)
(* and deletes both by that name.  Every call of the Kubernetes API is one *)
(* action; a call may fail, or fail for the caller though it was carried   *)
(* out, and a desktop may die between two calls.                           *)
(***************************************************************************)
EXTENDS Naturals

CONSTANTS
    Desktops,
    MaxFaults   \* bound: calls that fail, deaths, and what others do

None == "none"
Other == "other"   \* somebody else's Service of that name

VARIABLES
    named,     \* who made the Service that has the name
    endpoints, \* whose Gateway address the managed EndpointSlice has
    pv,        \* the desktops: the step they are at
    faults,
    gone,      \* history: desktops that may have to delete a Service again, or
               \* whose Service another hand deleted
    left       \* history: desktops that failed to delete what they had made

vars == <<named, endpoints, pv, faults, gone, left>>

Steps == {"idle", "service", "slice", "replace", "again", "undo", "held", "unslice", "unname"}

TypeOK ==
    /\ named \in Desktops \cup {None, Other} /\ endpoints \in Desktops \cup {None}
    /\ pv \in [Desktops -> Steps] /\ gone \cup left \subseteq Desktops

Init ==
    /\ named \in {None, Other} /\ endpoints = None
    /\ pv = [d \in Desktops |-> "idle"] /\ faults = 0 /\ gone = {} /\ left = {}

-----------------------------------------------------------------------------
Outcomes == {"ok", "fail", "lost"}
Charge(o) == /\ o # "ok" => faults < MaxFaults
             /\ faults' = IF o = "ok" THEN faults ELSE faults + 1
To(d, step) == pv' = [pv EXCEPT ![d] = step]
TakesEffect(o) == o \in {"ok", "lost"}

Start(d) ==
    /\ pv[d] = "idle" /\ To(d, "service")
    /\ UNCHANGED <<named, endpoints, faults, gone, left>>

CreateServiceAdopts(d) ==  \* mutant: a Service that is there already is taken over
    /\ pv[d] = "service" /\ To(d, "slice") /\ named' = d
    /\ UNCHANGED <<endpoints, faults, gone, left>>

(* The Create of the Service is the check that the name is free.           *)
CreateService(d) ==
    /\ pv[d] = "service"
    /\ \E o \in Outcomes :
         /\ Charge(o)
         /\ named' = IF TakesEffect(o) /\ named = None THEN d ELSE named
         /\ To(d, IF o = "ok" /\ named = None THEN "slice" ELSE "idle")
         /\ left' = IF named = None /\ o = "lost" THEN left \cup {d}
                    ELSE IF named = None THEN left \ {d} ELSE left
         /\ gone' = IF named = None THEN gone \ {d} ELSE gone
    /\ UNCHANGED endpoints

(* An EndpointSlice that was left there is replaced.                       *)
CreateSlice(d) ==
    /\ pv[d] \in {"slice", "again"}
    /\ \E o \in Outcomes :
         /\ Charge(o)
         /\ endpoints' = IF TakesEffect(o) /\ endpoints = None THEN d ELSE endpoints
         /\ To(d, IF o # "ok" THEN "undo"
                  ELSE IF endpoints = None THEN "held"
                  ELSE IF pv[d] = "slice" THEN "replace" ELSE "undo")
    /\ UNCHANGED <<named, gone, left>>

ReplaceSlice(d) ==
    /\ pv[d] = "replace" /\ To(d, "again")
    /\ \E o \in Outcomes : Charge(o) /\ endpoints' = IF TakesEffect(o) THEN None ELSE endpoints
    /\ UNCHANGED <<named, gone, left>>

(* Deleting is by name, whosever the Service is by now.                    *)
Deleted(o) == named' = IF TakesEffect(o) THEN None ELSE named
Robbed(d, o) == IF TakesEffect(o) /\ named \in Desktops \ {d} THEN {named} ELSE {}

(* The rollback has the context of the call that failed, and its error is  *)
(* dropped.                                                                *)
UndoService(d) ==
    /\ pv[d] = "undo" /\ To(d, "idle")
    /\ \E o \in Outcomes :
         /\ Charge(o) /\ Deleted(o)
         /\ left' = IF o = "fail" THEN left \cup {d} ELSE left
         /\ gone' = gone \cup Robbed(d, o)
    /\ UNCHANGED endpoints

(* deletePreviewService, of a stop or of a start that is undone.           *)
Release(d) ==
    /\ pv[d] = "held" /\ To(d, "unslice")
    /\ UNCHANGED <<named, endpoints, faults, gone, left>>

DeleteSlice(d) ==
    /\ pv[d] = "unslice" /\ To(d, "unname")
    /\ \E o \in Outcomes : Charge(o) /\ endpoints' = IF TakesEffect(o) THEN None ELSE endpoints
    /\ UNCHANGED <<named, gone, left>>

(* An error keeps the runtime, and the user may stop it again; one of a    *)
(* start that is undone is dropped.                                        *)
DeleteService(d) ==
    /\ pv[d] = "unname"
    /\ \E o \in Outcomes :
         /\ Charge(o) /\ Deleted(o)
         /\ \/ o = "ok" /\ To(d, "idle") /\ UNCHANGED left /\ gone' = (gone \ {d}) \cup Robbed(d, o)
            \/ o # "ok" /\ To(d, "held") /\ UNCHANGED left /\ gone' = gone \cup Robbed(d, o) \cup {d}
            \/ o # "ok" /\ To(d, "idle") /\ left' = left \cup {d} /\ gone' = gone \cup Robbed(d, o)
    /\ UNCHANGED endpoints

-----------------------------------------------------------------------------
Die(d) ==
    /\ pv[d] # "idle" /\ faults < MaxFaults /\ faults' = faults + 1
    /\ To(d, "idle") /\ left' = left \cup {d}
    /\ UNCHANGED <<named, endpoints, gone>>

(* Other users of the cluster make and delete a Service of that name.      *)
OtherMakes ==
    /\ named = None /\ faults < MaxFaults /\ faults' = faults + 1 /\ named' = Other
    /\ UNCHANGED <<endpoints, pv, gone, left>>

OtherDeletes ==
    /\ named # None /\ faults < MaxFaults /\ faults' = faults + 1 /\ named' = None
    /\ gone' = gone \cup ({named} \cap Desktops)
    /\ UNCHANGED <<endpoints, pv, left>>

Next ==
    \/ \E d \in Desktops :
         \/ Start(d) \/ CreateService(d) \/ CreateSlice(d) \/ ReplaceSlice(d) \/ UndoService(d)
         \/ Release(d) \/ DeleteSlice(d) \/ DeleteService(d) \/ Die(d)
    \/ OtherMakes \/ OtherDeletes

Spec == Init /\ [][Next]_vars

-----------------------------------------------------------------------------
(* A preview that is shown as running has its Service, with the endpoints  *)
(* of its own Gateway, whatever another desktop tries under that name; and *)
(* a Service of a desktop that no longer shows it is there only because    *)
(* the desktop died, or its delete failed or could not be seen to succeed. *)
(* Excepted is a preview after a hand other than its own deleted one of    *)
(* that name.                                                              *)
PreviewKept ==
    gone = {} =>
      \A d \in Desktops :
        /\ pv[d] = "held" => named = d /\ endpoints = d
        /\ named = d /\ pv[d] = "idle" => d \in left
=============================================================================
