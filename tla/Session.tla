------------------------------- MODULE Session -------------------------------
(***************************************************************************)
(* The life of a cluster session: session.Manager in src/internal/session. *)
(* One goroutine per Connect runs setup, serves and tears down; callers    *)
(* (the UI, MCP, background goroutines, the startup restore) connect,      *)
(* disconnect, quit and append to the activity log at any time.  Three     *)
(* pieces of state have to stay in step: the published phase (stateHub),   *)
(* the cancel/done pair of the active run (Manager.mu), and the connected  *)
(* flag in the store, which decides whether the next launch reconnects.    *)
(***************************************************************************)
EXTENDS Naturals, Sequences

CONSTANTS
    Contexts,         \* kubeconfig contexts
    NoContext,        \* "", the context of the state before the first Connect
    Modes,            \* connection modes requested, within {"tun", "socks"}
    Callers,          \* goroutines that call into the Manager
    Eager,            \* whether they also connect while a run is active, and log
    Restorers,        \* the goroutine of RestoreStartup, or none
    RecoveryAttempts, \* controlRecoveryAttempts
    MaxLosses,        \* bound: control losses of a run
    MaxRuns           \* bound: accepted Connects

ASSUME SessionAssumption ==
    /\ NoContext \notin Contexts /\ Modes \subseteq {"tun", "socks"}
    /\ Eager \in BOOLEAN /\ Callers \cap Restorers = {}
    /\ RecoveryAttempts \in Nat \ {0} /\ MaxLosses \in Nat /\ MaxRuns \in Nat

VARIABLES
    state,     \* stateHub.state: phase and context
    current,   \* Manager.cancel and done: the active run, 0 if nil
    run,       \* the runs, in the order of their Connects
    started,   \* accepted Connects so far
    caller,    \* what each caller (and RestoreStartup) is doing
    stored,    \* context -> connected flag in the store
    last,      \* LastContext in the store
    quitting   \* Shutdown was called

vars == <<state, current, run, started, caller, stored, last, quitting>>

Phases == {"idle", "checking", "installing", "discovering", "starting",
           "connected", "error"}
States == [phase : Phases, ctx : Contexts \cup {NoContext}]
NoState == [phase |-> "none", ctx |-> NoContext]
Resources == {"forward", "guard", "bridgectx", "bridge", "routes", "core",
              "traffic", "restore", "inventory"}

-----------------------------------------------------------------------------
(* run, as the list of what it does in order: ctx checks, published        *)
(* phases, AppendLogs, calls that can fail (the resources they register    *)
(* with the sessionRuntime), and the write of the connected flag.          *)
Check == [op |-> "check", phase |-> "none", adds |-> <<>>]
AppendLog == [op |-> "log", phase |-> "none", adds |-> <<>>]
Persist == [op |-> "persist", phase |-> "none", adds |-> <<>>]
Call(adds) == [op |-> "call", phase |-> "none", adds |-> adds]
Publish(phase, adds) == [op |-> "publish", phase |-> phase, adds |-> adds]

Setup == <<
    Check, Publish("checking", <<>>), AppendLog,
    Call(<<>>), Check, Publish("checking", <<>>), AppendLog,  \* ProbeCapabilities
    Call(<<>>), Publish("installing", <<>>),                  \* GatewayPortForward
    Call(<<>>), Check, AppendLog, Publish("discovering", <<>>), \* EnsureGateway
    Call(<<>>), Check, Publish("discovering", <<>>), AppendLog, \* Discover
    Call(<<"forward">>), AppendLog, Check,                    \* StartPortForward
    Call(<<"guard", "bridgectx">>), AppendLog,                \* intercept.Start
    Call(<<"bridge">>), AppendLog, Check >>                   \* startBridge

SocksTail == <<
    Call(<<>>), AppendLog, Publish("connected", <<>>), AppendLog, Persist,
    Call(<<"inventory">>) >>                                  \* WatchInventory

TunTail == <<
    Publish("starting", <<"routes">>),
    Call(<<"core">>), AppendLog, Check,                       \* core.Start
    Call(<<"traffic", "restore">>), AppendLog,                \* Validate
    Publish("connected", <<>>), AppendLog, Persist,
    Call(<<"inventory">>) >>                                  \* WatchInventory

Program(mode) == Setup \o IF mode = "socks" THEN SocksTail ELSE TunTail

NoRun == [pc |-> "none", ret |-> "none", at |-> 1, ctx |-> NoContext,
          mode |-> "none", cancelled |-> FALSE, copy |-> NoState, res |-> <<>>,
          up |-> FALSE, tries |-> 0, losses |-> 0]

RunPcs == {"none", "setup", "log", "serve", "recover", "fail", "error",
           "errlog", "close", "settle", "idle", "clear", "ended", "done"}
Active(r) == run[r].pc \notin {"none", "ended", "done"}

NoCall == [pc |-> "free", clear |-> FALSE, seen |-> NoState, target |-> 0]

TypeOK ==
    /\ state \in States
    /\ current \in 0..MaxRuns /\ started \in 0..MaxRuns
    /\ run \in [1..MaxRuns ->
         [pc : RunPcs, ret : RunPcs, at : 1..Len(Setup \o TunTail) + 1,
          ctx : Contexts \cup {NoContext}, mode : Modes \cup {"none"},
          cancelled : BOOLEAN, copy : States \cup {NoState},
          res : Seq(Resources), up : BOOLEAN,
          tries : 0..RecoveryAttempts, losses : 0..MaxLosses]]
    /\ caller \in [Callers \cup Restorers ->
         [pc : {"scan", "plan", "over", "free", "log", "persist", "state", "look", "publish", "cancel",
                "wait", "mark", "returned"},
          clear : BOOLEAN, seen : States \cup {NoState}, target : 0..MaxRuns]]
    /\ stored \in [Contexts -> BOOLEAN]
    /\ last \in Contexts \cup {NoContext}
    /\ quitting \in BOOLEAN

(* A launch finds whatever an earlier one left in the store.               *)
Init ==
    /\ state = [phase |-> "idle", ctx |-> NoContext]
    /\ current = 0 /\ started = 0
    /\ run = [r \in 1..MaxRuns |-> NoRun]
    /\ caller = [c \in Callers \cup Restorers |->
                  IF c \in Restorers THEN [NoCall EXCEPT !.pc = "scan"] ELSE NoCall]
    /\ stored \in [Contexts -> BOOLEAN]
    /\ last \in Contexts \cup {NoContext}
    /\ quitting = FALSE

-----------------------------------------------------------------------------
AcceptAlways(ctx, mode) ==  \* mutant: the active run is not checked
    /\ started < MaxRuns
    /\ started' = started + 1 /\ current' = started + 1
    /\ run' = [run EXCEPT ![started + 1] =
                 [NoRun EXCEPT !.pc = "setup", !.ctx = ctx, !.mode = mode]]

(* Connect installs cancel and done under Manager.mu and starts the run.   *)
Accept(ctx, mode) ==
    /\ current = 0 /\ started < MaxRuns
    /\ started' = started + 1 /\ current' = started + 1
    /\ run' = [run EXCEPT ![started + 1] =
                 [NoRun EXCEPT !.pc = "setup", !.ctx = ctx, !.mode = mode]]

Free(c) == caller[c].pc \in {"free", "returned"} /\ ~quitting

(* The App binding remembers the selection first, then connects.           *)
Connect(c, ctx, mode) ==
    /\ Free(c) /\ Accept(ctx, mode)
    /\ last' = ctx
    /\ caller' = [caller EXCEPT ![c] = NoCall]
    /\ UNCHANGED <<state, stored, quitting>>

(* Connect refuses because a run is active, and logs the refusal.          *)
Refuse(c, ctx) ==
    /\ Free(c) /\ Eager /\ current # 0
    /\ last' = ctx
    /\ caller' = [caller EXCEPT ![c] = [NoCall EXCEPT !.pc = "log", !.seen = state]]
    /\ UNCHANGED <<state, current, run, started, stored, quitting>>

(* AppendLog, collectSingBoxLogs, applyInventory and SetKubernetesVersion  *)
(* copy the whole state under the hub's lock ...                           *)
CopyState(c) ==
    /\ Free(c) /\ Eager
    /\ caller' = [caller EXCEPT ![c] = [NoCall EXCEPT !.pc = "log", !.seen = state]]
    /\ UNCHANGED <<state, current, run, started, stored, last, quitting>>

(* ... and publish the copy after it was released.                         *)
PublishCopy(c) ==
    /\ caller[c].pc = "log"
    /\ state' = caller[c].seen
    /\ caller' = [caller EXCEPT ![c] =
                    [NoCall EXCEPT !.pc = IF c \in Restorers THEN "over" ELSE "free"]]
    /\ UNCHANGED <<current, run, started, stored, last, quitting>>

(* RestoreStartup reads the store, plans, and reconnects the last context. *)
RestoreScan(c) ==
    /\ caller[c].pc = "scan"
    /\ caller' = [caller EXCEPT ![c] =
         IF last # NoContext /\ stored[last]
         THEN [NoCall EXCEPT !.pc = "plan", !.seen = [phase |-> "idle", ctx |-> last]]
         ELSE [NoCall EXCEPT !.pc = "over"]]
    /\ UNCHANGED <<state, current, run, started, stored, last, quitting>>

RestoreConnect(c, mode) ==
    /\ caller[c].pc = "plan"
    /\ \/ /\ Accept(caller[c].seen.ctx, mode)
          /\ caller' = [caller EXCEPT ![c] = [NoCall EXCEPT !.pc = "over"]]
       \/ /\ current # 0
          /\ caller' = [caller EXCEPT ![c] = [NoCall EXCEPT !.pc = "log", !.seen = state]]
          /\ UNCHANGED <<current, run, started>>
    /\ UNCHANGED <<state, stored, last, quitting>>

-----------------------------------------------------------------------------
(* Disconnect and Shutdown.  Shutdown first saves the connected flag from  *)
(* the phase; both then read the state, look for the run, cancel it, and   *)
(* wait up to 25s for it.                                                  *)
Disconnect(c) ==
    /\ Free(c)
    /\ caller' = [caller EXCEPT ![c] = [NoCall EXCEPT !.pc = "state", !.clear = TRUE]]
    /\ UNCHANGED <<state, current, run, started, stored, last, quitting>>

Shutdown(c) ==
    /\ Free(c)
    /\ quitting' = TRUE
    /\ caller' = [caller EXCEPT ![c] = [NoCall EXCEPT !.pc = "persist", !.seen = state]]
    /\ UNCHANGED <<state, current, run, started, stored, last>>

PersistShutdown(c) ==
    /\ caller[c].pc = "persist"
    /\ LET seen == caller[c].seen
           ctx == IF seen.ctx = NoContext THEN last ELSE seen.ctx
       IN stored' = IF ctx = NoContext THEN stored
                    ELSE [stored EXCEPT ![ctx] = (seen.phase = "connected")]
    /\ caller' = [caller EXCEPT ![c].pc = "state"]
    /\ UNCHANGED <<state, current, run, started, last, quitting>>

ReadState(c) ==
    /\ caller[c].pc = "state"
    /\ caller' = [caller EXCEPT ![c].pc = "look", ![c].seen = state]
    /\ UNCHANGED <<state, current, run, started, stored, last, quitting>>

Look(c) ==
    /\ caller[c].pc = "look"
    /\ caller' = [caller EXCEPT ![c].pc = IF current = 0 THEN "publish" ELSE "cancel",
                                ![c].target = current]
    /\ UNCHANGED <<state, current, run, started, stored, last, quitting>>

(* No run: Idle is published right away.                                   *)
PublishIdle(c) ==
    /\ caller[c].pc = "publish"
    /\ state' = [caller[c].seen EXCEPT !.phase = "idle"]
    /\ caller' = [caller EXCEPT ![c].pc = IF caller[c].clear THEN "mark" ELSE "returned"]
    /\ UNCHANGED <<current, run, started, stored, last, quitting>>

Cancel(c) ==
    /\ caller[c].pc = "cancel"
    /\ run' = [run EXCEPT ![caller[c].target].cancelled = TRUE]
    /\ caller' = [caller EXCEPT ![c].pc = "wait"]
    /\ UNCHANGED <<state, current, started, stored, last, quitting>>

Done(c) ==
    /\ caller[c].pc = "wait" /\ run[caller[c].target].pc = "done"
    /\ caller' = [caller EXCEPT ![c].pc = IF caller[c].clear THEN "mark" ELSE "returned"]
    /\ UNCHANGED <<state, current, run, started, stored, last, quitting>>

TimedOut(c) ==
    /\ caller[c].pc = "wait" /\ run[caller[c].target].pc # "done"
    /\ caller' = [caller EXCEPT ![c] = NoCall]
    /\ UNCHANGED <<state, current, run, started, stored, last, quitting>>

MarkDisconnected(c) ==
    /\ caller[c].pc = "mark"
    /\ stored' = IF caller[c].seen.ctx = NoContext THEN stored
                 ELSE [stored EXCEPT ![caller[c].seen.ctx] = FALSE]
    /\ caller' = [caller EXCEPT ![c].pc = "returned", ![c].seen = NoState]
    /\ UNCHANGED <<state, current, run, started, last, quitting>>

-----------------------------------------------------------------------------
(* The run.                                                                *)
Step(r) == Program(run[r].mode)[run[r].at]
Last(s) == s[Len(s)]

(* Past the last line of its program the run serves.                       *)
Advance(x) ==
    LET next == [x EXCEPT !.at = @ + 1]
    IN IF next.at > Len(Program(x.mode)) THEN [next EXCEPT !.pc = "serve"] ELSE next

(* sessionRuntime.Add; with the guard, Intercept is up.                    *)
Register(x, adds) ==
    [x EXCEPT !.res = @ \o adds,
              !.up = IF adds # <<>> /\ adds[1] = "guard" THEN TRUE ELSE @]

RunFrame == UNCHANGED <<started, caller, last, quitting>>

CheckContext(r) ==
    /\ run[r].pc = "setup" /\ Step(r).op = "check"
    /\ run' = [run EXCEPT ![r] = IF @.cancelled THEN [@ EXCEPT !.pc = "close"]
                                               ELSE Advance(@)]
    /\ RunFrame /\ UNCHANGED <<state, current, stored>>

PublishPhase(r) ==
    /\ run[r].pc = "setup" /\ Step(r).op = "publish"
    /\ state' = [phase |-> Step(r).phase, ctx |-> run[r].ctx]
    /\ run' = [run EXCEPT ![r] = Advance(Register(@, Step(r).adds))]
    /\ RunFrame /\ UNCHANGED <<current, stored>>

CallReturns(r) ==
    /\ run[r].pc = "setup" /\ Step(r).op = "call"
    /\ run' = [run EXCEPT ![r] = Advance(Register(@, Step(r).adds))]
    /\ RunFrame /\ UNCHANGED <<state, current, stored>>

CallFails(r) ==
    /\ run[r].pc = "setup" /\ Step(r).op = "call"
    /\ run' = [run EXCEPT ![r].pc = "fail"]
    /\ RunFrame /\ UNCHANGED <<state, current, stored>>

PersistForgotten(r) ==  \* mutant: the flag is not written
    /\ run[r].pc = "setup" /\ Step(r).op = "persist"
    /\ run' = [run EXCEPT ![r] = Advance(@)]
    /\ RunFrame /\ UNCHANGED <<state, current, stored>>

PersistConnected(r) ==
    /\ run[r].pc = "setup" /\ Step(r).op = "persist"
    /\ stored' = [stored EXCEPT ![run[r].ctx] = TRUE]
    /\ run' = [run EXCEPT ![r] = Advance(@)]
    /\ RunFrame /\ UNCHANGED <<state, current>>

(* An AppendLog of the run: copy, then publish and go on at ret.           *)
Logging(x, ret) == [x EXCEPT !.pc = "log", !.ret = ret, !.copy = state]

LogInSetup(r) ==
    /\ run[r].pc = "setup" /\ Step(r).op = "log"
    /\ run' = [run EXCEPT ![r] = Logging(Advance(@), "setup")]
    /\ RunFrame /\ UNCHANGED <<state, current, stored>>

LogPublished(r) ==
    /\ run[r].pc = "log"
    /\ state' = run[r].copy
    /\ run' = [run EXCEPT ![r].pc = run[r].ret, ![r].ret = "none", ![r].copy = NoState]
    /\ RunFrame /\ UNCHANGED <<current, stored>>

-----------------------------------------------------------------------------
(* serveConnected and serveSOCKSConnected.                                 *)
ServeCancelled(r) ==
    /\ run[r].pc = "serve" /\ run[r].cancelled
    /\ run' = [run EXCEPT ![r] = IF @.mode = "tun" THEN Logging(@, "close")
                                 ELSE [@ EXCEPT !.pc = "close"]]
    /\ RunFrame /\ UNCHANGED <<state, current, stored>>

Tick(r) ==
    /\ run[r].pc = "serve" /\ run[r].mode = "tun"
    /\ run' = [run EXCEPT ![r] = Logging(@, "serve")]
    /\ RunFrame /\ UNCHANGED <<state, current, stored>>

CoreExit(r) ==
    /\ run[r].pc = "serve" /\ run[r].mode = "tun"
    /\ run' = [run EXCEPT ![r] = Logging(@, "fail")]
    /\ RunFrame /\ UNCHANGED <<state, current, stored>>

ControlLost(r) ==
    /\ run[r].pc = "serve" /\ run[r].losses < MaxLosses
    /\ run' = [run EXCEPT ![r] =
                 IF @.cancelled THEN [@ EXCEPT !.pc = "close"]
                 ELSE Logging([@ EXCEPT !.losses = run[r].losses + 1, !.tries = 0], "recover")]
    /\ RunFrame /\ UNCHANGED <<state, current, stored>>

(* The first attempt redials through the port-forward in use.              *)
Redialed(r) ==
    /\ run[r].pc = "recover" /\ run[r].tries = 0
    /\ run' = [run EXCEPT ![r] = Logging(@, "serve")]
    /\ RunFrame /\ UNCHANGED <<state, current, stored>>

(* Later attempts open another port-forward and move everything to it.     *)
Replaced(r) ==
    /\ run[r].pc = "recover" /\ run[r].tries > 0
    /\ run' = [run EXCEPT ![r] = Logging(Register(@, <<"forward">>), "serve")]
    /\ RunFrame /\ UNCHANGED <<state, current, stored>>

AttemptFails(r) ==
    /\ run[r].pc = "recover"
    /\ run' = [run EXCEPT ![r] =
                 IF @.cancelled \/ @.tries + 1 = RecoveryAttempts
                 THEN [@ EXCEPT !.pc = "fail"]
                 ELSE Logging([@ EXCEPT !.tries = run[r].tries + 1], "recover")]
    /\ RunFrame /\ UNCHANGED <<state, current, stored>>

-----------------------------------------------------------------------------
(* fail publishes Error unless the context ended, then logs.               *)
Fail(r) ==
    /\ run[r].pc = "fail"
    /\ run' = [run EXCEPT ![r].pc = IF run[r].cancelled THEN "close" ELSE "error"]
    /\ RunFrame /\ UNCHANGED <<state, current, stored>>

PublishError(r) ==
    /\ run[r].pc = "error"
    /\ state' = [phase |-> "error", ctx |-> run[r].ctx]
    /\ run' = [run EXCEPT ![r].pc = "errlog"]
    /\ RunFrame /\ UNCHANGED <<current, stored>>

LogError(r) ==
    /\ run[r].pc = "errlog"
    /\ run' = [run EXCEPT ![r] = Logging(@, "close")]
    /\ RunFrame /\ UNCHANGED <<state, current, stored>>

CloseInOrder(r) ==  \* mutant: resources are closed first to last
    /\ run[r].pc = "close" /\ run[r].res # <<>>
    /\ run' = [run EXCEPT ![r].res = Tail(@),
                          ![r].up = @ /\ Head(run[r].res) \notin {"restore", "guard"}]
    /\ RunFrame /\ UNCHANGED <<state, current, stored>>

(* sessionRuntime.Close, one resource at a time; the two Intercept closers *)
(* share a sync.Once around StopAll.                                       *)
CloseResource(r) ==
    /\ run[r].pc = "close" /\ run[r].res # <<>>
    /\ run' = [run EXCEPT ![r].res = SubSeq(@, 1, Len(@) - 1),
                          ![r].up = @ /\ Last(run[r].res) \notin {"restore", "guard"}]
    /\ RunFrame /\ UNCHANGED <<state, current, stored>>

Closed(r) ==
    /\ run[r].pc = "close" /\ run[r].res = <<>>
    /\ run' = [run EXCEPT ![r].pc = "settle"]
    /\ RunFrame /\ UNCHANGED <<state, current, stored>>

SettleSilent(r) ==  \* mutant: a cancelled run does not publish Idle
    /\ run[r].pc = "settle"
    /\ run' = [run EXCEPT ![r].pc = "clear"]
    /\ RunFrame /\ UNCHANGED <<state, current, stored>>

(* After a cancellation the run publishes Idle, unless it is published.    *)
Settle(r) ==
    /\ run[r].pc = "settle"
    /\ run' = [run EXCEPT ![r] =
                 IF @.cancelled /\ current = r /\ state.phase # "idle"
                 THEN [@ EXCEPT !.pc = "idle", !.copy = [state EXCEPT !.phase = "idle"]]
                 ELSE [@ EXCEPT !.pc = "clear"]]
    /\ RunFrame /\ UNCHANGED <<state, current, stored>>

RunIdle(r) ==
    /\ run[r].pc = "idle"
    /\ state' = run[r].copy
    /\ run' = [run EXCEPT ![r].pc = "clear", ![r].copy = NoState]
    /\ RunFrame /\ UNCHANGED <<current, stored>>

ClearNothing(r) ==  \* mutant: cancel and done are not reset
    /\ run[r].pc = "clear"
    /\ run' = [run EXCEPT ![r].pc = "ended"]
    /\ RunFrame /\ UNCHANGED <<state, current, stored>>

ClearRun(r) ==
    /\ run[r].pc = "clear"
    /\ current' = IF current = r THEN 0 ELSE current
    /\ run' = [run EXCEPT ![r].pc = "ended"]
    /\ RunFrame /\ UNCHANGED <<state, stored>>

CloseDone(r) ==
    /\ run[r].pc = "ended"
    /\ run' = [run EXCEPT ![r] = [NoRun EXCEPT !.pc = "done", !.ctx = run[r].ctx]]
    /\ RunFrame /\ UNCHANGED <<state, current, stored>>

-----------------------------------------------------------------------------
(* What the run does by itself, and what only its environment can cause.   *)
RunSteps(r) ==
    \/ CheckContext(r) \/ PublishPhase(r) \/ CallReturns(r) \/ CallFails(r)
    \/ PersistConnected(r) \/ LogInSetup(r) \/ LogPublished(r)
    \/ ServeCancelled(r) \/ Redialed(r) \/ Replaced(r) \/ AttemptFails(r)
    \/ Fail(r) \/ PublishError(r) \/ LogError(r) \/ CloseResource(r) \/ Closed(r)
    \/ Settle(r) \/ RunIdle(r) \/ ClearRun(r) \/ CloseDone(r)

Incidents(r) == Tick(r) \/ CoreExit(r) \/ ControlLost(r)

CallerSteps(c) ==
    \/ PublishCopy(c) \/ PersistShutdown(c) \/ ReadState(c) \/ Look(c)
    \/ PublishIdle(c) \/ Cancel(c) \/ Done(c) \/ TimedOut(c) \/ MarkDisconnected(c)

Next ==
    \/ \E c \in Callers, ctx \in Contexts, mode \in Modes : Connect(c, ctx, mode)
    \/ \E c \in Callers, ctx \in Contexts : Refuse(c, ctx)
    \/ \E c \in Callers : Disconnect(c) \/ Shutdown(c) \/ CopyState(c) \/ CallerSteps(c)
    \/ \E c \in Restorers, mode \in Modes : RestoreScan(c) \/ RestoreConnect(c, mode)
    \/ \E c \in Restorers : PublishCopy(c)
    \/ \E r \in 1..MaxRuns : RunSteps(r) \/ Incidents(r)

Spec == Init /\ [][Next]_vars

(* Every goroutine goes on with what it has begun: the calls of a run take *)
(* its context, a wait has a timeout, a select sees ctx.Done.  Nothing     *)
(* makes a user disconnect, a core exit or a connection break.             *)
Fairness ==
    /\ \A r \in 1..MaxRuns : WF_vars(RunSteps(r)) /\ SF_vars(ServeCancelled(r))
    /\ \A c \in Callers : WF_vars(CallerSteps(c))
FairSpec == Spec /\ Fairness

-----------------------------------------------------------------------------
(* Two runs never own resources at the same time, and the run that owns    *)
(* some is the one Disconnect would cancel: Connect refuses while          *)
(* Manager.cancel is set, and run clears it after sessionRuntime.Close.    *)
OwnerIsCurrent ==
    \A r \in 1..MaxRuns : Active(r) \/ run[r].res # <<>> => current = r

(* What a resource of the runtime goes through or relies on.               *)
Needs == {<<"bridgectx", "guard">>, <<"guard", "forward">>, <<"bridge", "forward">>,
          <<"core", "bridge">>, <<"core", "routes">>, <<"traffic", "core">>,
          <<"restore", "bridge">>, <<"inventory", "bridge">>}

(* Dependents are torn down before what they use, wherever setup failed,   *)
(* was cancelled or had a port-forward replaced: as long as Intercept is   *)
(* up, the first port-forward is, the core never outlives the Bridge, and  *)
(* so on (sessionRuntime.Close).                                           *)
TeardownOrder ==
    \A r \in 1..MaxRuns :
        LET has(name) == \E i \in 1..Len(run[r].res) : run[r].res[i] = name
        IN /\ \A n \in Needs : has(n[1]) => has(n[2])
           /\ run[r].up => has("forward")

(* Idle is published only after the runtime resources have closed.         *)
IdleMeansClosed ==
    state.phase = "idle" => \A r \in 1..MaxRuns : run[r].res = <<>>

(* A published Connected is the state of a run that is still there.        *)
ConnectedIsLive == state.phase = "connected" => current # 0

(* A run that serves is shown as Connected to its own context: otherwise   *)
(* applyInventory drops every snapshot and Shutdown forgets the session.   *)
ServingIsShown ==
    \A r \in 1..MaxRuns :
        run[r].pc = "serve" => state = [phase |-> "connected", ctx |-> run[r].ctx]

(* The phase the user sees tells the truth about the run (stateHub).       *)
PhaseTruthful == IdleMeansClosed /\ ConnectedIsLive /\ ServingIsShown

(* The session that serves is the one the next launch reconnects, unless a *)
(* Disconnect or Shutdown is under way (persistConnectedMode,              *)
(* markDisconnected).                                                      *)
ServingIsStored ==
    \A r \in 1..MaxRuns :
        run[r].pc = "serve" /\ ~run[r].cancelled /\ ~quitting => stored[run[r].ctx]

(* A run that is cancelled ends, wherever it is, so that a new one can      *)
(* start; and setup never hangs between phases: it serves, fails or is torn *)
(* down.                                                                    *)
RunsSettle ==
    /\ []TypeOK
    /\ \A r \in 1..MaxRuns : run[r].cancelled ~> run[r].pc = "done" /\ current # r
    /\ \A r \in 1..MaxRuns : run[r].pc = "setup" ~> run[r].pc \in {"serve", "done"}
=============================================================================
