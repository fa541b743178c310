------------------------------ MODULE Forwards ------------------------------
(***************************************************************************)
(* Port forwards: portfwd.Manager, the session that gives it a dialer and  *)
(* takes it away, the restore intents in the state store, and the          *)
(* inventory watcher that stops forwards whose target is gone              *)
(* (src/internal/portfwd, src/internal/session, src/internal/store,        *)
(* src/internal/cluster/inventory).  Every call runs on a goroutine of its *)
(* own and holds a lock only for one access to a map.                      *)
(***************************************************************************)
EXTENDS Naturals, FiniteSets

CONSTANTS
    Contexts,    \* clusters the user connects to
    Specs,       \* forwards, each <<context, "tcp" or "udp">>
    Users,       \* goroutines of application bindings
    MaxCalls,    \* bound: calls under way before another one begins
    MaxStarts,   \* bound: forwards published (Manager.nextID)
    MaxSessions, \* bound: connections
    Mortal,      \* bound: targets that may be deleted from their cluster
    MaxRestarts  \* bound: exits and crashes of the desktop

VARIABLES
    fwd,      \* Manager.active
    bound,    \* forwards whose local port is open
    dialer,   \* trafficContext and trafficDialer: the session it leads to
    intents,  \* ClusterState.PortForwards of every context, as stored
    alive,    \* targets that exist
    call,     \* the goroutines
    sn,       \* the session
    nextId, quitting, restarts,
    wished,   \* history: forwards active when Shutdown began
    disturbed,\* history: another call was under way during Shutdown
    late      \* history: sessions that ended while a start held their dialer

vars == <<fwd, bound, dialer, intents, alive, call, sn, nextId, quitting, restarts,
          wished, disturbed, late>>

Callers == Users \cup {"startup", "session", "watch", "quit"}
NoDialer == [ctx |-> "none", sess |-> 0]
NoCall == [op |-> "none", pc |-> "none", todo |-> {}, spec |-> <<>>, sess |-> 0, list |-> {}, ctxs |-> {}]
NoSession == [n |-> 0, ctx |-> "none", pc |-> "idle"]
SpecsOf(F) == {f.spec : f \in F}
Others(c) == \E d \in Callers \ {c} : call[d] # NoCall

TypeOK ==
    /\ \A f \in fwd : f.id \in 1..nextId /\ f.spec \in Specs /\ f.sess \in 0..sn.n
    /\ bound \cup intents \cup alive \cup wished \subseteq Specs
    /\ dialer \in [ctx : Contexts \cup {"none"}, sess : 0..sn.n]
    /\ \A c \in Callers : call[c] # NoCall =>
         call[c].op \in {"start", "stop", "reset", "restore", "watch", "persist", "shutdown"}
    /\ sn.pc \in {"idle", "restoring", "up", "unroute", "undial"}
    /\ nextId \in 0..MaxStarts /\ restarts \in 0..MaxRestarts
    /\ quitting \in BOOLEAN /\ disturbed \in BOOLEAN /\ late \subseteq 1..sn.n

Init ==
    /\ fwd = {} /\ bound = {} /\ dialer = NoDialer
    /\ intents = {} /\ alive = Specs
    /\ call = [c \in Callers |-> NoCall] /\ sn = NoSession
    /\ nextId = 0 /\ quitting = FALSE /\ restarts = 0
    /\ wished = {} /\ disturbed = FALSE /\ late = {}

-----------------------------------------------------------------------------
Frame == UNCHANGED <<alive, sn, nextId, quitting, restarts, wished, disturbed>>
CallFrame == disturbed' = (disturbed \/ quitting)
             /\ UNCHANGED <<fwd, bound, dialer, intents, alive, sn, nextId, quitting, restarts,
                            wished, late>>

(* A call that has nothing left to do returns; a reset still has to clear. *)
Over(f) == f.pc = "next" /\ f.todo = {} /\ f.op # "reset"
Go(c, f) == call' = [call EXCEPT ![c] = IF Over(f) THEN NoCall ELSE f]
Begin(c, op, todo) ==
    /\ call[c] = NoCall /\ Cardinality({d \in Callers : call[d] # NoCall}) < MaxCalls
    /\ Go(c, [NoCall EXCEPT !.op = op, !.pc = "next", !.todo = todo])

(* The bindings of the application; ResetSessions stops every forward, and *)
(* then clears what is stored.                                             *)
UserCalls(c) ==
    /\ \/ \E s \in Specs : Begin(c, "start", {s})
       \/ \E f \in fwd : Begin(c, "stop", {f})
       \/ Begin(c, "reset", fwd)
    /\ CallFrame

(* Start reads the dialer, for its own context only; without one a UDP     *)
(* forward is refused.                                                     *)
ReadDialer(c) ==
    /\ call[c].pc = "next" /\ call[c].op \in {"start", "restore"}
    /\ \E s \in call[c].todo :
         LET sess == IF dialer.ctx = s[1] THEN dialer.sess ELSE 0 IN
         Go(c, [call[c] EXCEPT !.todo = @ \ {s}, !.spec = s, !.sess = sess,
                               !.pc = IF sess = 0 /\ s[2] = "udp" THEN "next" ELSE "resolve"])
    /\ late' = IF sn.pc = "undial" THEN late \cup {sn.n} ELSE late
    /\ Frame /\ UNCHANGED <<fwd, bound, dialer, intents>>

(* The target is resolved and the local port opened, or one of both fails. *)
Listen(c) ==
    /\ call[c].pc = "resolve"
    /\ \/ /\ call[c].spec \in alive /\ call[c].spec \notin bound /\ nextId < MaxStarts
          /\ bound' = bound \cup {call[c].spec}
          /\ Go(c, [call[c] EXCEPT !.pc = "publish"])
       \/ /\ UNCHANGED bound
          /\ Go(c, [call[c] EXCEPT !.pc = "next", !.spec = <<>>, !.sess = 0])
    /\ Frame /\ UNCHANGED <<fwd, dialer, intents, late>>

Publish(c) ==
    /\ call[c].pc = "publish" /\ nextId < MaxStarts
    /\ nextId' = nextId + 1
    /\ fwd' = fwd \cup {[id |-> nextId', spec |-> call[c].spec, sess |-> call[c].sess]}
    /\ Go(c, [call[c] EXCEPT !.pc = IF call[c].op = "start" THEN "list" ELSE "next",
                             !.spec = <<>>, !.sess = 0])
    /\ UNCHANGED <<bound, dialer, intents, alive, sn, quitting, restarts, wished, disturbed, late>>

(* Stop takes the forward out of the map; an id that is gone is an error.  *)
Unpublish(c) ==
    /\ call[c].pc = "next" /\ call[c].op \in {"stop", "reset", "watch"}
    /\ \E f \in call[c].todo :
         /\ fwd' = fwd \ {f}
         /\ Go(c, IF f \notin fwd THEN [call[c] EXCEPT !.todo = @ \ {f}]
                  ELSE [call[c] EXCEPT !.todo = @ \ {f}, !.spec = f.spec, !.pc = "close"])
    /\ Frame /\ UNCHANGED <<bound, dialer, intents, late>>

Close(c) ==
    /\ call[c].pc = "close"
    /\ bound' = bound \ {call[c].spec}
    /\ Go(c, [call[c] EXCEPT !.pc = "list", !.spec = <<>>])
    /\ Frame /\ UNCHANGED <<fwd, dialer, intents, late>>

(* persistPortForwards: the list is taken, then written for every context  *)
(* that has a forward or a stored intent.                                  *)
PersistList(c) ==
    /\ call[c].pc = "list"
    /\ Go(c, [call[c] EXCEPT !.pc = "write", !.list = SpecsOf(fwd),
                             !.ctxs = {s[1] : s \in SpecsOf(fwd) \cup intents}])
    /\ Frame /\ UNCHANGED <<fwd, bound, dialer, intents, late>>

PersistWrite(c) ==
    /\ call[c].pc = "write"
    /\ intents' = {s \in intents : s[1] \notin call[c].ctxs} \cup call[c].list
    /\ Go(c, [call[c] EXCEPT !.pc = IF call[c].op = "shutdown" THEN "stopAll" ELSE "next",
                             !.list = {}, !.ctxs = {}])
    /\ Frame /\ UNCHANGED <<fwd, bound, dialer, late>>

ClearSessionIntents(c) ==
    /\ call[c].pc = "next" /\ call[c].op = "reset" /\ call[c].todo = {}
    /\ intents' = {}
    /\ call' = [call EXCEPT ![c] = NoCall]
    /\ Frame /\ UNCHANGED <<fwd, bound, dialer, late>>

-----------------------------------------------------------------------------
(* The session.  In TUN mode it gives out a dialer before it restores the  *)
(* forwards of its context, in SOCKS mode it does not.                     *)
Connect(ctx, tun) ==
    /\ sn.pc = "idle" /\ sn.n < MaxSessions /\ ~quitting
    /\ sn' = [n |-> sn.n + 1, ctx |-> ctx, pc |-> "restoring"]
    /\ dialer' = IF tun THEN [ctx |-> ctx, sess |-> sn.n + 1] ELSE dialer
    /\ Begin("session", "restore", {s \in intents : s[1] = ctx})
    /\ UNCHANGED <<fwd, bound, intents, alive, nextId, quitting, restarts, wished, disturbed, late>>

Connected ==
    /\ sn.pc = "restoring" /\ call["session"] = NoCall
    /\ sn' = [sn EXCEPT !.pc = "up"]
    /\ UNCHANGED <<fwd, bound, dialer, intents, alive, call, nextId, quitting, restarts,
                   wished, disturbed, late>>

(* The watcher is closed; a callback that runs is not waited for.          *)
Disconnect ==
    /\ sn.pc \in {"restoring", "up"} /\ call["session"] = NoCall
    /\ sn' = [sn EXCEPT !.pc = "unroute"]
    /\ disturbed' = (disturbed \/ quitting)
    /\ UNCHANGED <<fwd, bound, dialer, intents, alive, call, nextId, quitting, restarts,
                   wished, late>>

StopRoutedNothing ==  \* mutant: the routed forwards of the session stay
    /\ sn.pc = "unroute"
    /\ sn' = [sn EXCEPT !.pc = "undial"]
    /\ UNCHANGED <<fwd, bound, dialer, intents, alive, call, nextId, quitting, restarts, wished,
                   disturbed, late>>

StopRouted ==
    /\ sn.pc = "unroute"
    /\ late' = IF \E c \in Callers : call[c].sess = sn.n THEN late \cup {sn.n} ELSE late
    /\ LET routed == {f \in fwd : f.sess # 0} IN
         /\ fwd' = fwd \ routed /\ bound' = bound \ SpecsOf(routed)
    /\ sn' = [sn EXCEPT !.pc = "undial"]
    /\ UNCHANGED <<dialer, intents, alive, call, nextId, quitting, restarts, wished, disturbed>>

(* Only now is the dialer taken away.  Unless the application shuts down,  *)
(* what is left is persisted.                                              *)
UnsetDialer ==
    /\ sn.pc = "undial"
    /\ dialer' = NoDialer
    /\ sn' = [NoSession EXCEPT !.n = sn.n]
    /\ IF quitting THEN UNCHANGED call
       ELSE Go("session", [NoCall EXCEPT !.op = "persist", !.pc = "list"])
    /\ UNCHANGED <<fwd, bound, intents, alive, nextId, quitting, restarts, wished, disturbed, late>>

(* The debounced callback of the watcher.  Targets are looked up by        *)
(* namespace and name in the snapshot of the session's own cluster.        *)
Stale(f) == <<sn.ctx, f.spec[2]>> \notin alive

ApplyInventory ==
    /\ sn.pc = "up"
    /\ Begin("watch", "watch", {f \in fwd : Stale(f)})
    /\ CallFrame

TargetGone(s) ==
    /\ s \in alive
    /\ alive' = alive \ {s}
    /\ UNCHANGED <<fwd, bound, dialer, intents, call, sn, nextId, quitting, restarts, wished,
                   disturbed, late>>

-----------------------------------------------------------------------------
(* Shutdown: the intents are persisted, every forward is stopped, and the  *)
(* session is torn down.                                                   *)
Shutdown ==
    /\ ~quitting /\ quitting' = TRUE
    /\ wished' = SpecsOf(fwd) /\ disturbed' = (Others("quit") \/ sn.pc \in {"unroute", "undial"})
    /\ Go("quit", [NoCall EXCEPT !.op = "shutdown", !.pc = "list"])
    /\ UNCHANGED <<fwd, bound, dialer, intents, alive, sn, nextId, restarts, late>>

StopAll ==
    /\ call["quit"].pc = "stopAll"
    /\ fwd' = {} /\ bound' = bound \ SpecsOf(fwd)
    /\ disturbed' = (disturbed \/ Others("quit"))
    /\ sn' = IF sn.pc \in {"restoring", "up"} THEN [sn EXCEPT !.pc = "unroute"] ELSE sn
    /\ Go("quit", [call["quit"] EXCEPT !.pc = "wait"])
    /\ UNCHANGED <<dialer, intents, alive, nextId, quitting, restarts, wished, late>>

Restarted ==
    /\ fwd' = {} /\ bound' = {} /\ dialer' = NoDialer /\ quitting' = FALSE
    /\ sn' = [NoSession EXCEPT !.n = sn.n]
    /\ restarts < MaxRestarts /\ restarts' = restarts + 1
    /\ late' = {} /\ wished' = {} /\ disturbed' = FALSE
    /\ call' = [c \in Callers |-> IF c # "startup" THEN NoCall
                                  ELSE IF intents = {} THEN NoCall
                                  ELSE [NoCall EXCEPT !.op = "restore", !.pc = "next",
                                                      !.todo = intents]]
    /\ UNCHANGED <<intents, alive, nextId>>

(* The desktop is gone, in order or not, and starts again: RestoreStartup. *)
Exit == call["quit"].pc = "wait" /\ sn.pc = "idle" /\ Restarted
Crash == ~quitting /\ Restarted

-----------------------------------------------------------------------------
Steps(c) ==
    \/ ReadDialer(c) \/ Listen(c) \/ Publish(c) \/ Unpublish(c) \/ Close(c)
    \/ PersistList(c) \/ PersistWrite(c) \/ ClearSessionIntents(c)
Teardown == StopRouted \/ UnsetDialer

Next ==
    \/ \E c \in Callers : Steps(c)
    \/ \E c \in Users : UserCalls(c)
    \/ \E ctx \in Contexts, tun \in BOOLEAN : Connect(ctx, tun)
    \/ \E s \in Mortal : TargetGone(s)
    \/ Connected \/ Disconnect \/ Teardown \/ ApplyInventory
    \/ Shutdown \/ StopAll \/ Exit \/ Crash

Spec == Init /\ [][Next]_vars

-----------------------------------------------------------------------------
(* Every open local port has a forward that will close it, or a call that  *)
(* is about to publish or to close it: starts, stops, resets, disconnects  *)
(* and the watcher never leak a listener between them.                     *)
PortsOwned ==
    bound = SpecsOf(fwd) \cup {call[c].spec : c \in {d \in Callers : call[d].pc \in {"publish", "close"}}}

(* No forward outlives the session whose dialer it uses, except one that   *)
(* was started while the session was being torn down.                      *)
RoutedIsCurrent ==
    \A f \in fwd : f.sess \notin {0, dialer.sess} =>
        f.sess \in late \/ sn.pc \in {"unroute", "undial"}

(* The forwards that were active when the application was quit are what    *)
(* the next launch finds, unless another call was under way.               *)
ShutdownKeepsIntents ==
    call["quit"].pc = "wait" /\ ~disturbed => intents = wished
=============================================================================
