-------------------------------- MODULE PodSsh --------------------------------
(***************************************************************************)
(* The SSH endpoints of Pods (src/internal/podssh/server.go) and the calls *)
(* that maintain them: the inventory watcher's callback, the user, and the *)
(* teardown of the session (src/internal/session).  Each of them looks at  *)
(* the state of the session first and changes the endpoints later; a       *)
(* connection finds its endpoint first and registers later.                *)
(***************************************************************************)
EXTENDS Naturals, FiniteSets

CONSTANTS
    Pods,
    Ips,          \* positive numbers
    MaxConns,     \* bound: SSH connections ever made
    MaxMoves,     \* bound: changes of a Pod's address
    MaxSessions   \* bound: sessions ever connected

None == "none"
Gone == 0
Conns == 1..MaxConns
Places == [Pods -> Ips \cup {Gone}]
NoConn == [pc |-> "none", pod |-> None, raw |-> FALSE, exec |-> "none"]

VARIABLES
    phase,     \* the session's phase
    routed,    \* the bridge has the host route handler
    cluster,   \* the addresses of the ready Pods
    shown,     \* those in the published state
    inv,       \* applyInventory: step and snapshot
    user,      \* EnablePodSSH: step and target
    targets,   \* Server.targets
    conns,     \* the connections: serveConnection, and the command of one session
    doomed,    \* connections collected under the lock, to be closed after it
    moves, sessions,
    raced,     \* history: a call was past its check when the endpoints were removed
    late       \* history: connections that had found an endpoint but not registered then

vars == <<phase, routed, cluster, shown, inv, user, targets, conns, doomed, moves,
          sessions, raced, late>>

NoInv == [pc |-> "none", pods |-> [p \in Pods |-> Gone]]
NoUser == [pc |-> "none", pod |-> None, ip |-> Gone]
Empty == [ip \in Ips |-> None]

TypeOK ==
    /\ phase \in {"up", "closing", "off"} /\ routed \in BOOLEAN
    /\ {cluster, shown, inv.pods} \subseteq Places
    /\ targets \in [Ips -> Pods \cup {None}]
    /\ conns \in [Conns -> [pc : {"none", "found", "registered", "serving", "ended"},
                            pod : Pods \cup {None}, raw : BOOLEAN,
                            exec : {"none", "running", "cancelled", "ended"}]]
    /\ doomed \cup late \subseteq Conns

Apart(f) == \A p, q \in Pods : p # q /\ f[p] = f[q] => f[p] = Gone

Init ==
    /\ phase = "off" /\ routed = FALSE
    /\ cluster \in {f \in Places : Apart(f)} /\ shown = [p \in Pods |-> Gone]
    /\ inv = NoInv /\ user = NoUser /\ targets = Empty
    /\ conns = [c \in Conns |-> NoConn] /\ doomed = {}
    /\ moves = 0 /\ sessions = 0 /\ raced = FALSE /\ late = {}

-----------------------------------------------------------------------------
(* A session installs the host routes, and is then connected.              *)
Connect ==
    /\ phase = "off" /\ sessions < MaxSessions /\ sessions' = sessions + 1
    /\ phase' = "up" /\ routed' = TRUE
    /\ UNCHANGED <<cluster, shown, inv, user, targets, conns, doomed, moves, raced, late>>

PodMoves(p, ip) ==
    /\ moves < MaxMoves /\ moves' = moves + 1
    /\ cluster' = [cluster EXCEPT ![p] = ip] /\ cluster' # cluster /\ Apart(cluster')
    /\ UNCHANGED <<phase, routed, shown, inv, user, targets, conns, doomed, sessions, raced, late>>

(* watcher.emit: Close does not wait for a callback that has begun.        *)
Emit ==
    /\ phase = "up" /\ inv.pc = "none"
    /\ inv' = [pc |-> "snapshot", pods |-> cluster]
    /\ UNCHANGED <<phase, routed, cluster, shown, user, targets, conns, doomed, moves,
                   sessions, raced, late>>

ApplyInventory ==
    /\ inv.pc = "snapshot"
    /\ IF phase = "up" THEN shown' = inv.pods /\ inv' = [inv EXCEPT !.pc = "sync"]
       ELSE inv' = NoInv /\ UNCHANGED shown
    /\ UNCHANGED <<phase, routed, cluster, user, targets, conns, doomed, moves, sessions,
                   raced, late>>

Registered == {c \in Conns : conns[c].pc \in {"registered", "serving"}}
Found == {c \in Conns : conns[c].pc = "found"}

(* Server.Reconcile: the endpoints are those of the snapshot, and the      *)
(* connections of other Pods are closed.                                   *)
Reconcile ==
    /\ inv.pc = "sync" /\ inv' = NoInv
    /\ targets' = [ip \in Ips |-> IF \E p \in Pods : inv.pods[p] = ip
                                  THEN CHOOSE p \in Pods : inv.pods[p] = ip ELSE None]
    /\ doomed' = doomed \cup {c \in Registered : inv.pods[conns[c].pod] = Gone}
    /\ late' = late \cup {c \in Found : inv.pods[conns[c].pod] = Gone}
    /\ UNCHANGED <<phase, routed, cluster, shown, user, conns, moves, sessions, raced>>

EnablePodSSH(p) ==
    /\ user.pc = "none" /\ phase = "up" /\ shown[p] # Gone
    /\ user' = [pc |-> "checked", pod |-> p, ip |-> shown[p]]
    /\ UNCHANGED <<phase, routed, cluster, shown, inv, targets, conns, doomed, moves,
                   sessions, raced, late>>

Enable ==
    /\ user.pc = "checked" /\ user' = NoUser
    /\ targets' = [targets EXCEPT ![user.ip] = user.pod]
    /\ UNCHANGED <<phase, routed, cluster, shown, inv, conns, doomed, moves, sessions, raced, late>>

(* Server.Disable removes one entry of the Pod and closes its connections. *)
Disable(ip) ==
    /\ targets[ip] # None
    /\ targets' = [targets EXCEPT ![ip] = None]
    /\ doomed' = doomed \cup {c \in Registered : conns[c].pod = targets[ip]}
    /\ late' = late \cup {c \in Found : conns[c].pod = targets[ip]}
    /\ UNCHANGED <<phase, routed, cluster, shown, inv, user, conns, moves, sessions, raced>>

-----------------------------------------------------------------------------
(* Disconnect publishes its phase first; the host routes are removed and   *)
(* Server.Reset runs far down in the teardown.                             *)
Disconnect ==
    /\ phase = "up" /\ phase' = "closing"
    /\ UNCHANGED <<routed, cluster, shown, inv, user, targets, conns, doomed, moves,
                   sessions, raced, late>>

Unroute ==
    /\ phase = "closing" /\ routed /\ routed' = FALSE
    /\ UNCHANGED <<phase, cluster, shown, inv, user, targets, conns, doomed, moves,
                   sessions, raced, late>>

ResetForgets ==  \* mutant: the endpoints go, the connections stay
    /\ phase = "closing" /\ ~routed /\ phase' = "off"
    /\ targets' = Empty /\ late' = late \cup Found
    /\ raced' = (inv.pc = "sync" \/ user.pc = "checked")
    /\ UNCHANGED <<routed, cluster, shown, inv, user, conns, doomed, moves, sessions>>

Reset ==
    /\ phase = "closing" /\ ~routed /\ phase' = "off"
    /\ targets' = Empty
    /\ doomed' = doomed \cup Registered /\ late' = late \cup Found
    /\ raced' = (inv.pc = "sync" \/ user.pc = "checked")
    /\ UNCHANGED <<routed, cluster, shown, inv, user, conns, moves, sessions>>

CloseDoomed(c) ==
    /\ c \in doomed /\ doomed' = doomed \ {c}
    /\ conns' = [conns EXCEPT ![c].raw = FALSE]
    /\ UNCHANGED <<phase, routed, cluster, shown, inv, user, targets, moves, sessions, raced, late>>

-----------------------------------------------------------------------------
ConnStep(c, pc, new) ==
    /\ conns[c].pc = pc /\ conns' = [conns EXCEPT ![c] = new]
    /\ UNCHANGED <<phase, routed, cluster, shown, inv, user, targets, doomed, moves,
                   sessions, raced, late>>

(* HostTCP: the bridge's handler finds the endpoint of the address.        *)
HostTCP(c, ip) ==
    /\ routed /\ targets[ip] # None /\ \A d \in 1..(c - 1) : conns[d].pc # "none"
    /\ ConnStep(c, "none", [NoConn EXCEPT !.pc = "found", !.pod = targets[ip], !.raw = TRUE])

Register(c) == ConnStep(c, "found", [conns[c] EXCEPT !.pc = "registered"])

(* The handshake checks the key and the container the client logs in to.   *)
Handshake(c) == conns[c].raw /\ ConnStep(c, "registered", [conns[c] EXCEPT !.pc = "serving"])
StartSession(c) ==
    /\ conns[c].raw /\ conns[c].exec = "none"
    /\ ConnStep(c, "serving", [conns[c] EXCEPT !.exec = "running"])

ClientLeaves(c) == conns[c].raw /\ ConnStep(c, "serving", [conns[c] EXCEPT !.raw = FALSE])

ConnectionEndsDetached(c) ==  \* mutant: the command has a context of its own
    /\ conns[c].raw => conns[c].pc = "registered"
    /\ LET new == [conns[c] EXCEPT !.pc = "ended", !.raw = FALSE]
       IN ConnStep(c, "registered", new) \/ ConnStep(c, "serving", new)

(* serveConnection returns; the requests of its session end, which cancels *)
(* the command.                                                            *)
ConnectionEnds(c) ==
    /\ conns[c].raw => conns[c].pc = "registered"    \* the handshake may fail
    /\ LET new == [conns[c] EXCEPT !.pc = "ended", !.raw = FALSE,
                                   !.exec = IF @ = "running" THEN "cancelled" ELSE @]
       IN ConnStep(c, "registered", new) \/ ConnStep(c, "serving", new)

ExecEnds(c) ==
    /\ conns[c].exec \in {"running", "cancelled"}
    /\ ConnStep(c, conns[c].pc, [conns[c] EXCEPT !.exec = "ended"])

Next ==
    \/ Connect \/ Emit \/ ApplyInventory \/ Reconcile \/ Enable
    \/ \E p \in Pods : EnablePodSSH(p) \/ (\E ip \in Ips \cup {Gone} : PodMoves(p, ip))
    \/ \E ip \in Ips : Disable(ip) \/ (\E c \in Conns : HostTCP(c, ip))
    \/ Disconnect \/ Unroute \/ Reset
    \/ \E c \in Conns : \/ CloseDoomed(c) \/ Register(c) \/ Handshake(c) \/ StartSession(c)
                        \/ ClientLeaves(c) \/ ConnectionEnds(c) \/ ExecEnds(c)

Spec == Init /\ [][Next]_vars

(* The calls go on; a command ends once its context is cancelled.          *)
Duty(k) ==
    \E c \in Conns : \/ k = 3 * c - 2 /\ CloseDoomed(c)
                     \/ k = 3 * c - 1 /\ ~conns[c].raw /\ ConnectionEnds(c)
                     \/ k = 3 * c /\ conns[c].exec = "cancelled" /\ ExecEnds(c)

-----------------------------------------------------------------------------
(* README.md: disconnecting removes the SSH endpoints.  Unless a call had  *)
(* passed its check before, none is left when the session is over, and     *)
(* every connection that had registered is about to be closed.             *)
EndpointsRemoved ==
    phase = "off" /\ ~raced =>
        /\ targets = Empty
        /\ \A c \in Registered : conns[c].raw => c \in doomed \cup late

(* A connection whose endpoint was removed ends, and so does its command   *)
(* in the Pod.                                                             *)
RemovedEnds ==
    \A c \in Conns : c \in doomed ~> (c \notin Registered /\ conns[c].exec \in {"none", "ended"})
=============================================================================
