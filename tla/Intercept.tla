----------------------------- MODULE Intercept -----------------------------
(***************************************************************************)
(* intercept.Manager: transactional start, stop and control recovery of    *)
(* Exchange, Service Mirror and Preview (src/internal/intercept), together  *)
(* with the two parties it mutates: the Gateway's reverse listeners and the *)
(* Kubernetes Service that is pointed at the Gateway.                      *)
(*                                                                         *)
(* Every step between two acquisitions of Manager.mu is one action.  The   *)
(* callers are the goroutines of the UI, of MCP and of the inventory       *)
(* reconciler; Main is the session goroutine, the only one that calls      *)
(* Start, RecoverControl(At) and StopAll.                                  *)
(***************************************************************************)
EXTENDS Naturals, FiniteSets

CONSTANTS
    Keys,         \* "namespace/service" keys, which are also the intercept ids
    Callers,      \* goroutines that call Start* and Stop
    Main,         \* the session goroutine
    Modes,        \* subset of {"exchange", "mirror", "preview"}
    NPorts,       \* service ports of every Service
    AckTimeouts,  \* may a control round trip time out after the Gateway acted?
    MaxConns,     \* bound: control connections ever opened
    MaxGen,       \* bound: control generations
    MaxSessions,  \* bound: sessions ever started
    MaxRes,       \* bound: start reservations ever made
    MaxPods,      \* bound: Gateway pods ever scheduled
    MaxAttempts   \* controlRedialAttempts

ASSUME ConstantsAssumption ==
    /\ Main \notin Callers
    /\ Modes \subseteq {"exchange", "mirror", "preview"}
    /\ NPorts \in Nat \ {0}
    /\ AckTimeouts \in BOOLEAN
    /\ MaxConns \in Nat /\ MaxGen \in Nat /\ MaxRes \in Nat /\ MaxSessions \in Nat
    /\ MaxPods \in Nat \ {0} /\ MaxAttempts \in Nat \ {0}

VARIABLES
    active, stopping,   \* Manager.active, Manager.stopping
    ctl,                \* Manager.control: client, recovering, generation, token
    gateway,            \* Manager.gatewayIP / gatewayAddress: the pod they name
    starting,           \* registry.starting: key -> reservation, 0 if none
    nextRes,            \* registry.nextReservation
    runtimes,           \* registry.byID / byKey
    thr,                \* the goroutines inside Start* or Stop
    run,                \* Main inside RecoverControl(At) or StopAll
    conns,              \* control connections, both ends
    listeners,          \* Gateway: reverse listeners, each with its control
    redirects,          \* cluster: Service -> who redirected it, and where to
    pod,                \* cluster: the pod that now runs the Gateway
    orphaned,           \* history: keys whose rollback could not release
    unreleased,         \* history: runtimes whose last Stop could not release
    inherited           \* history: runtimes that were there when the session began

history == <<orphaned, unreleased, inherited>>
manager == <<active, stopping, ctl, gateway>>
registry == <<starting, nextRes, runtimes>>
outside == <<conns, listeners, redirects, pod>>
vars == <<manager, registry, thr, run, outside, history>>

Threads == Callers \cup {Main}
Subs == Keys \X (1..NPorts)
Conns == 1..MaxConns
None == 0   \* no connection, reservation, pod or key

ThreadPC == {"idle", "register", "apply", "publish", "rollback", "unregister",
             "release", "remove", "drop"}
Thread == [pc : ThreadPC, key : Keys \cup {None}, mode : Modes \cup {"stop"},
           conn : Conns \cup {None}, gen : 0..MaxGen, res : 0..MaxRes,
           n : 0..NPorts, ip : 0..MaxPods]
IdleThread == [pc |-> "idle", key |-> None, mode |-> "stop", conn |-> None,
               gen |-> 0, res |-> None, n |-> 0, ip |-> None]

RunPC == {"idle", "dial", "rereg", "undo", "stopall"}
Run == [pc : RunPC, conn : Conns \cup {None}, gen : 0..MaxGen, ip : 0..MaxPods,
        snap : [Keys -> 0..MaxRes], done : SUBSET Subs, attempt : 0..MaxAttempts,
        again : BOOLEAN, ids : SUBSET Keys]
IdleRun == [pc |-> "idle", conn |-> None, gen |-> 0, ip |-> None,
            snap |-> [k \in Keys |-> None], done |-> {}, attempt |-> 0, again |-> FALSE, ids |-> {}]

Runtime == [res : 0..MaxRes, stopping : BOOLEAN]
NoRuntime == [res |-> None, stopping |-> FALSE]
Redirect == [res : 0..MaxRes, ip : 0..MaxPods]
NoRedirect == [res |-> None, ip |-> None]
Listener == [sub : Subs, port : 0..MaxRes, conn : Conns]
Conn == [opened : BOOLEAN, token : 0..MaxSessions, cut : BOOLEAN, closed : BOOLEAN, served : BOOLEAN]
NoConn == [opened |-> FALSE, token |-> 0, cut |-> FALSE, closed |-> FALSE, served |-> FALSE]

ManagerType ==
    /\ active \in BOOLEAN /\ stopping \in BOOLEAN
    /\ ctl \in [client : Conns \cup {None}, recovering : BOOLEAN,
                gen : 0..MaxGen, token : 0..MaxSessions]
    /\ gateway \in 1..MaxPods
RegistryType ==
    /\ starting \in [Keys -> 0..MaxRes] /\ nextRes \in 0..MaxRes
    /\ runtimes \in [Keys -> Runtime]
OutsideType ==
    /\ conns \in [Conns -> Conn] /\ listeners \subseteq Listener
    /\ redirects \in [Keys -> Redirect] /\ pod \in 1..MaxPods

TypeOK ==
    /\ ManagerType /\ RegistryType /\ OutsideType
    /\ thr \in [Threads -> Thread] /\ run \in Run
    /\ orphaned \subseteq Keys /\ unreleased \subseteq Keys /\ inherited \subseteq Keys

Init ==
    /\ active = FALSE /\ stopping = FALSE
    /\ ctl = [client |-> None, recovering |-> FALSE, gen |-> 0,
              token |-> 0]
    /\ gateway = 1 /\ pod = 1
    /\ starting = [k \in Keys |-> None] /\ nextRes = 0
    /\ runtimes = [k \in Keys |-> NoRuntime]
    /\ thr = [t \in Threads |-> IdleThread] /\ run = IdleRun
    /\ conns = [c \in Conns |-> NoConn]
    /\ listeners = {}
    /\ redirects = [k \in Keys |-> NoRedirect]
    /\ orphaned = {} /\ unreleased = {} /\ inherited = {}

Registered(k) == runtimes[k].res # None   \* registry.getByKey(k) != nil
Ready == ctl.client # None /\ ~ctl.recovering   \* controlSession.ready

-----------------------------------------------------------------------------
(* The control channel, as both ends see it.                               *)

(* controlSession.open: dial the Gateway through the port-forward at       *)
(* address a, which leads to one pod only, and read its status.            *)
CanOpen(c, a) == /\ a = pod
                 /\ ~conns[c].opened
                 /\ \A d \in Conns : d < c => conns[d].opened

Open(c, token) == [conns EXCEPT ![c] =
    [opened |-> TRUE, token |-> token, cut |-> FALSE, closed |-> FALSE,
     served |-> TRUE]]

(* controlClient.close on the connection c, if there is one.               *)
Close(c) == [d \in Conns |-> IF d = c THEN [conns[d] EXCEPT !.cut = TRUE]
                                      ELSE conns[d]]

(* A register request as the Gateway sees it.  allocateListenPort never    *)
(* hands out a port twice, so the ports of a start are told apart by its   *)
(* reservation.                                                            *)
Reg(s, port, c) == [sub |-> s, port |-> port, conn |-> c]

(* registerIntercept refuses an id its tenant already has and a port that  *)
(* any tenant already has.                                                 *)
Taken(l) == \E o \in listeners :
    /\ o.sub = l.sub
    /\ conns[o.conn].token = conns[l.conn].token \/ o.port = l.port

(* What the Gateway may have done with a register request, and what        *)
(* roundTrip tells its caller.  A request on a cut connection may still    *)
(* have been read; an Ack may come after the 10s wait for it.              *)
RegisterResults(l) ==
    LET c == conns[l.conn]
        free == c.served /\ ~Taken(l)
        added == listeners \cup {l}
        up == ~c.cut /\ ~c.closed
    IN  {[says |-> "fail", ls |-> listeners]}
        \cup {r \in {[says |-> "ack", ls |-> added]} : up /\ free}
        \cup {r \in {[says |-> "busy", ls |-> listeners]} : up /\ ~free}
        \cup {r \in {[says |-> "fail", ls |-> added]} :
                free /\ ~c.closed /\ (c.cut \/ AckTimeouts)}

(* unregisterIntercept drops a listener only for the control that owns it; *)
(* the client ignores every error of unregister.                           *)
UnregisterResults(c, s) ==
    {ls \in {listeners} : conns[c].cut \/ conns[c].closed}
    \cup {ls \in {{l \in listeners : l.sub # s \/ l.conn # c}} : ~conns[c].closed}

(* The transport under connection c dies.                                  *)
ControlCut(c) ==
    /\ conns[c].opened /\ ~conns[c].cut
    /\ conns' = [conns EXCEPT ![c].cut = TRUE]
    /\ UNCHANGED <<manager, registry, thr, run, listeners, redirects, pod, history>>

(* controlClient.readLoop meets the end of the connection: closed is set,  *)
(* replyCh closes and the session learns of it through ControlLost.        *)
ReadLoopExit(c) ==
    /\ conns[c].cut /\ ~conns[c].closed
    /\ conns' = [conns EXCEPT ![c].closed = TRUE]
    /\ UNCHANGED <<manager, registry, thr, run, listeners, redirects, pod, history>>

(* gateway.Server.removeControl: the Gateway meets the end of connection c *)
(* and closes every listener that c owns.                                  *)
RemoveControl(c) ==
    /\ conns[c].cut /\ conns[c].served
    /\ conns' = [conns EXCEPT ![c].served = FALSE]
    /\ listeners' = {l \in listeners : l.conn # c}
    /\ UNCHANGED <<manager, registry, thr, run, redirects, pod, history>>

(* The Gateway pod dies with its listeners and another one takes over.     *)
GatewayReplaced ==
    /\ pod < MaxPods
    /\ pod' = pod + 1
    /\ conns' = [c \in Conns |-> IF conns[c].opened
                    THEN [conns[c] EXCEPT !.cut = TRUE, !.served = FALSE]
                    ELSE conns[c]]
    /\ listeners' = {}
    /\ UNCHANGED <<manager, registry, thr, run, redirects, history>>

-----------------------------------------------------------------------------
(* StartIntercept, StartMirror and StartPreview.                           *)

(* Mutant: registry.reserve forgets the starts in progress.                *)
ReserveTwice(k) == ~Registered(k)

(* registry.reserve *)
CanReserve(k) == ~Registered(k) /\ starting[k] = None

(* The first critical section: snapshot the control, reserve the key.  The *)
(* calls that return an error here change nothing.                         *)
BeginStart(t, k, m) ==
    /\ thr[t].pc = "idle"
    /\ active /\ Ready /\ CanReserve(k)
    /\ nextRes < MaxRes
    /\ nextRes' = nextRes + 1
    /\ starting' = [starting EXCEPT ![k] = nextRes + 1]
    /\ thr' = [thr EXCEPT ![t] =
         [pc |-> "register", key |-> k, mode |-> m, conn |-> ctl.client,
          gen |-> ctl.gen, res |-> nextRes + 1, n |-> 0, ip |-> gateway]]
    /\ UNCHANGED <<manager, runtimes, run, outside, history>>

(* GetService, resolveLocals or buildPortsForLocals fails.                 *)
PrepareFails(t) ==
    /\ thr[t].pc = "register" /\ thr[t].n = 0 /\ thr[t].mode # "preview"
    /\ thr' = [thr EXCEPT ![t].pc = "unregister"]
    /\ UNCHANGED <<manager, registry, run, outside, history>>

(* One turn of startTransaction.registerPorts.                             *)
RegisterPort(t) ==
    /\ thr[t].pc = "register"
    /\ \E r \in RegisterResults(Reg(<<thr[t].key, thr[t].n + 1>>, thr[t].res, thr[t].conn)) :
         /\ listeners' = r.ls
         /\ IF r.says # "ack"
            THEN thr' = [thr EXCEPT ![t].pc = "unregister"]
            ELSE thr' = [thr EXCEPT ![t].n = @ + 1,
                           ![t].pc = IF thr[t].n + 1 = NPorts THEN "apply" ELSE @]
    /\ UNCHANGED <<manager, registry, run, conns, redirects, pod, history>>

(* ApplyServiceIntercept, CreatePreviewService: redirect the Service to    *)
(* the Gateway address read at the start.  A redirect left behind under    *)
(* the same id is taken over by an intercept and refused by a preview.     *)
Apply(t) ==
    /\ thr[t].pc = "apply"
    /\ \/ /\ thr[t].mode = "preview" => redirects[thr[t].key].res = None
          /\ redirects' = [redirects EXCEPT ![thr[t].key] =
                             [res |-> thr[t].res, ip |-> thr[t].ip]]
          /\ orphaned' = orphaned \ {thr[t].key}
          /\ thr' = [thr EXCEPT ![t].pc = "publish"]
       \/ /\ thr' = [thr EXCEPT ![t].pc = "unregister"]
          /\ UNCHANGED <<redirects, orphaned>>
    /\ UNCHANGED <<manager, registry, run, conns, listeners, pod, unreleased, inherited>>

(* Mutant: the mirror start returns without compensating its redirect.     *)
NoPrimaryKeepsRedirect(t) ==
    /\ thr[t].pc = "publish" /\ thr[t].mode = "mirror"
    /\ thr' = [thr EXCEPT ![t].pc = "unregister"]
    /\ UNCHANGED <<manager, registry, run, outside, history>>

(* buildPrimaryAddrs finds no backend for a mirrored port.                 *)
NoPrimary(t) ==
    /\ thr[t].pc = "publish" /\ thr[t].mode = "mirror"
    /\ thr' = [thr EXCEPT ![t].pc = "rollback"]
    /\ UNCHANGED <<manager, registry, run, outside, history>>

(* Mutant: any ready control will do.                                      *)
MatchesAny(t) == Ready

(* controlSession.matches: the control is still the one that was           *)
(* snapshotted, of the same generation, and its readLoop still runs.       *)
Matches(t) == /\ ctl.client = thr[t].conn /\ ctl.gen = thr[t].gen
              /\ Ready /\ ~conns[thr[t].conn].closed

(* registry.reserved *)
Reserved(t) == starting[thr[t].key] = thr[t].res

(* Mutant: the second critical section does not look at the session again. *)
PublishUnchecked(t) == Reserved(t)

(* The checks of the second critical section.                              *)
CanPublish(t) == active /\ Matches(t) /\ Reserved(t)

(* The second critical section publishes the runtime and its host routes   *)
(* and commits, or leaves everything to the rollback.                      *)
Publish(t) ==
    /\ thr[t].pc = "publish"
    /\ IF CanPublish(t)
       THEN /\ runtimes' = [runtimes EXCEPT ![thr[t].key] =
                              [res |-> thr[t].res, stopping |-> FALSE]]
            /\ starting' = [starting EXCEPT ![thr[t].key] = None]
            /\ thr' = [thr EXCEPT ![t] = IdleThread]
       ELSE /\ thr' = [thr EXCEPT ![t].pc = "rollback"]
            /\ UNCHANGED <<runtimes, starting>>
    /\ UNCHANGED <<manager, nextRes, run, outside, history>>

(* startTransaction.rollback: the compensation first.  It releases the     *)
(* lease under the caller's context, whose end makes it fail; the error is *)
(* dropped.                                                                *)
RollbackLease(t) ==
    /\ thr[t].pc = "rollback"
    /\ thr' = [thr EXCEPT ![t].pc = "unregister"]
    /\ \/ /\ redirects' = [redirects EXCEPT ![thr[t].key] = NoRedirect]
          /\ UNCHANGED orphaned
       \/ /\ orphaned' = orphaned \cup {thr[t].key}
          /\ UNCHANGED redirects
    /\ UNCHANGED <<manager, registry, run, conns, listeners, pod, unreleased, inherited>>

(* Mutant: the loop over the registered ports runs once too often.         *)
RollbackPortBelow(t) ==
    /\ thr[t].pc = "unregister"
    /\ listeners' \in UnregisterResults(thr[t].conn, <<thr[t].key, thr[t].n>>)
    /\ thr' = [thr EXCEPT ![t].n = @ - 1]
    /\ UNCHANGED <<manager, registry, run, conns, redirects, pod, history>>

(* startTransaction.rollback: then the registered ports, last one first.   *)
RollbackPort(t) ==
    /\ thr[t].pc = "unregister" /\ thr[t].n > 0
    /\ listeners' \in UnregisterResults(thr[t].conn, <<thr[t].key, thr[t].n>>)
    /\ thr' = [thr EXCEPT ![t].n = @ - 1]
    /\ UNCHANGED <<manager, registry, run, conns, redirects, pod, history>>

(* Mutant: the start returns without unregistering its ports.              *)
EndStartEarly(t) ==
    /\ thr[t].pc = "unregister"
    /\ starting' = [starting EXCEPT ![thr[t].key] = None]
    /\ thr' = [thr EXCEPT ![t] = IdleThread]
    /\ UNCHANGED <<manager, nextRes, runtimes, run, outside, history>>

(* The deferred releaseStartReservation, after the rollback.               *)
EndStart(t) ==
    /\ thr[t].pc = "unregister" /\ thr[t].n = 0
    /\ starting' = IF Reserved(t) THEN [starting EXCEPT ![thr[t].key] = None]
                                  ELSE starting
    /\ thr' = [thr EXCEPT ![t] = IdleThread]
    /\ UNCHANGED <<manager, nextRes, runtimes, run, outside, history>>

-----------------------------------------------------------------------------
(* Stop.                                                                   *)

(* Mutant: a runtime that is being stopped can be stopped once more.       *)
CanStopTwice(k) == Registered(k)

CanStop(k) == Registered(k) /\ ~runtimes[k].stopping

StopThread(k) == [IdleThread EXCEPT !.pc = "release", !.key = k,
                                    !.res = runtimes[k].res]

BeginStop(t, k) ==
    /\ thr[t].pc = "idle" /\ CanStop(k)
    /\ runtimes' = [runtimes EXCEPT ![k].stopping = TRUE]
    /\ thr' = [thr EXCEPT ![t] = StopThread(k)]
    /\ UNCHANGED <<manager, starting, nextRes, run, outside, history>>

(* registry.get(id) == runtime *)
SameRuntime(t) == runtimes[thr[t].key].res = thr[t].res

(* lease.Release fails: the runtime stays, and can be stopped again.       *)
ReleaseFails(t) ==
    /\ thr[t].pc = "release"
    /\ runtimes' = IF SameRuntime(t)
                   THEN [runtimes EXCEPT ![thr[t].key].stopping = FALSE]
                   ELSE runtimes
    /\ unreleased' = unreleased \cup {thr[t].key}
    /\ thr' = [thr EXCEPT ![t] = IdleThread]
    /\ UNCHANGED <<manager, starting, nextRes, run, outside, orphaned, inherited>>

(* lease.Release restores the Service, or deletes the preview.             *)
Release(t) ==
    /\ thr[t].pc = "release"
    /\ redirects' = [redirects EXCEPT ![thr[t].key] = NoRedirect]
    /\ orphaned' = orphaned \ {thr[t].key}
    /\ thr' = [thr EXCEPT ![t].pc = "remove"]
    /\ UNCHANGED <<manager, registry, run, conns, listeners, pod, unreleased, inherited>>

(* The last critical section of Stop removes the runtime and its routes    *)
(* and takes the control of that moment, which a recovery has set to nil.  *)
Remove(t) ==
    /\ thr[t].pc = "remove"
    /\ IF SameRuntime(t)
       THEN /\ runtimes' = [runtimes EXCEPT ![thr[t].key] = NoRuntime]
            /\ unreleased' = unreleased \ {thr[t].key}
            /\ thr' = IF ctl.client = None THEN [thr EXCEPT ![t] = IdleThread]
                      ELSE [thr EXCEPT ![t].pc = "drop", ![t].n = NPorts,
                                       ![t].conn = ctl.client]
       ELSE /\ thr' = [thr EXCEPT ![t] = IdleThread]
            /\ UNCHANGED <<runtimes, unreleased>>
    /\ UNCHANGED <<manager, starting, nextRes, run, outside, orphaned, inherited>>

(* unregisterPorts, outside the lock.                                      *)
DropPort(t) ==
    /\ thr[t].pc = "drop" /\ thr[t].n > 0
    /\ listeners' \in UnregisterResults(thr[t].conn, <<thr[t].key, thr[t].n>>)
    /\ thr' = IF thr[t].n = 1 THEN [thr EXCEPT ![t] = IdleThread]
                              ELSE [thr EXCEPT ![t].n = @ - 1]
    /\ UNCHANGED <<manager, registry, run, conns, redirects, pod, history>>

-----------------------------------------------------------------------------
(* Start, RecoverControl(At) and StopAll, called by the session goroutine. *)

(* Manager.Start dials under the lock.  A failed dial changes nothing.     *)
Start(c) ==
    /\ run.pc = "idle" /\ ~active
    /\ ctl.gen < MaxGen /\ ctl.token < MaxSessions
    /\ CanOpen(c, pod)
    /\ conns' = Open(c, ctl.token + 1)
    /\ ctl' = [client |-> c, recovering |-> FALSE, gen |-> ctl.gen + 1,
               token |-> ctl.token + 1]
    /\ active' = TRUE /\ stopping' = FALSE
    /\ gateway' = pod
    /\ inherited' = {k \in Keys : Registered(k)}
    /\ UNCHANGED <<registry, thr, run, listeners, redirects, pod, orphaned, unreleased>>

(* The connected loop has seen ControlLost, or an earlier attempt failed.  *)
Lost == ctl.client # None => conns[ctl.client].closed

(* recoverControlAt up to the unlock and the close of the old client.  The *)
(* first attempt dials the address of the session, later ones the pod that *)
(* GetGateway and a new port-forward lead to.                              *)
BeginRecovery(a) ==
    /\ run.pc = "idle" /\ active /\ ~stopping /\ ~ctl.recovering /\ Lost
    /\ ctl.gen < MaxGen
    /\ ctl' = [ctl EXCEPT !.client = None, !.recovering = TRUE, !.gen = @ + 1]
    /\ conns' = Close(ctl.client)
    /\ run' = [IdleRun EXCEPT !.pc = "dial", !.gen = ctl.gen + 1, !.ip = a,
                 !.snap = [k \in Keys |-> runtimes[k].res]]
    /\ UNCHANGED <<active, stopping, gateway, registry, thr, listeners,
                   redirects, pod, history>>

(* Mutant: redial never gives up.                                          *)
RetryForever == UNCHANGED <<ctl, run>>

(* redial gave up; controlSession.recoveryFailed.                          *)
RecoveryFailed ==
    /\ ctl' = [ctl EXCEPT !.recovering = IF run.gen = ctl.gen THEN FALSE ELSE @]
    /\ run' = IdleRun

(* One attempt of redial opens a connection, or the dial fails (or the     *)
(* context ends in the wait before the attempt) and redial returns.        *)
Redial ==
    /\ run.pc = "dial"
    /\ \/ \E c \in Conns :
            /\ CanOpen(c, run.ip)
            /\ conns' = Open(c, ctl.token)
            /\ run' = [run EXCEPT !.pc = "rereg", !.conn = c, !.done = {}]
            /\ UNCHANGED ctl
       \/ RecoveryFailed /\ UNCHANGED conns
    /\ UNCHANGED <<active, stopping, gateway, registry, thr, listeners,
                   redirects, pod, history>>

(* registry.registrations, as they were when the recovery began.           *)
Wanted == {s \in Subs : run.snap[s[1]] # None}

(* redial registers the snapshot on the new connection.                    *)
Reregister(s) ==
    /\ run.pc = "rereg" /\ s \in Wanted \ run.done
    /\ \E r \in RegisterResults(Reg(s, run.snap[s[1]], run.conn)) :
         /\ listeners' = r.ls
         /\ run' = IF r.says = "ack" THEN [run EXCEPT !.done = @ \cup {s}]
                   ELSE [run EXCEPT !.pc = "undo", !.again = (r.says = "busy")]
    /\ UNCHANGED <<manager, registry, thr, conns, redirects, pod, history>>

(* A registration failed: unregister what this attempt registered ...      *)
UndoRegistration(s) ==
    /\ run.pc = "undo" /\ s \in run.done
    /\ listeners' \in UnregisterResults(run.conn, s)
    /\ run' = [run EXCEPT !.done = @ \ {s}]
    /\ UNCHANGED <<manager, registry, thr, conns, redirects, pod, history>>

(* ... close the connection, and try again if the error was transient.     *)
EndAttempt ==
    /\ run.pc = "undo" /\ run.done = {}
    /\ conns' = Close(run.conn)
    /\ IF run.again /\ run.attempt + 1 < MaxAttempts
       THEN /\ run' = [run EXCEPT !.pc = "dial", !.conn = None, !.again = FALSE,
                                  !.attempt = @ + 1]
            /\ UNCHANGED ctl
       ELSE RecoveryFailed
    /\ UNCHANGED <<active, stopping, gateway, registry, thr, listeners,
                   redirects, pod, history>>

(* controlSession.finishRecovery and the end of recoverControlAt.          *)
FinishRecovery ==
    /\ run.pc = "rereg" /\ run.done = Wanted
    /\ IF active /\ ~stopping /\ run.gen = ctl.gen /\ ctl.recovering
       THEN /\ ctl' = [ctl EXCEPT !.client = run.conn, !.recovering = FALSE]
            /\ gateway' = run.ip
            /\ UNCHANGED conns
       ELSE /\ conns' = Close(run.conn)
            /\ UNCHANGED <<ctl, gateway>>
    /\ run' = IdleRun
    /\ UNCHANGED <<active, stopping, registry, thr, listeners, redirects, pod,
                   history>>

(* StopAll up to its unlock.                                               *)
StopAll ==
    /\ run.pc = "idle" /\ active
    /\ ctl.gen < MaxGen
    /\ active' = FALSE /\ stopping' = TRUE
    /\ ctl' = [ctl EXCEPT !.client = None, !.recovering = FALSE, !.gen = @ + 1]
    /\ run' = [IdleRun EXCEPT !.pc = "stopall", !.conn = ctl.client,
                              !.ids = {k \in Keys : Registered(k)}]
    /\ UNCHANGED <<gateway, registry, thr, outside, history>>

(* StopAll calls Stop for one id; an error does not end the loop.          *)
StopNext(k) ==
    /\ run.pc = "stopall" /\ thr[Main].pc = "idle" /\ k \in run.ids
    /\ run' = [run EXCEPT !.ids = @ \ {k}]
    /\ IF CanStop(k)
       THEN /\ runtimes' = [runtimes EXCEPT ![k].stopping = TRUE]
            /\ thr' = [thr EXCEPT ![Main] = StopThread(k)]
       ELSE UNCHANGED <<runtimes, thr>>
    /\ UNCHANGED <<manager, starting, nextRes, outside, history>>

(* StopAll closes the control last.                                        *)
EndStopAll ==
    /\ run.pc = "stopall" /\ run.ids = {} /\ thr[Main].pc = "idle"
    /\ conns' = Close(run.conn)
    /\ run' = IdleRun
    /\ UNCHANGED <<manager, registry, thr, listeners, redirects, pod, history>>

-----------------------------------------------------------------------------
StartStep(t) == \/ PrepareFails(t) \/ RegisterPort(t) \/ Apply(t) \/ NoPrimary(t)
                \/ Publish(t) \/ RollbackLease(t) \/ RollbackPort(t) \/ EndStart(t)
StopStep(t) == Release(t) \/ ReleaseFails(t) \/ Remove(t) \/ DropPort(t)
RecoveryStep == \/ Redial \/ EndAttempt \/ FinishRecovery
                \/ \E s \in Subs : Reregister(s) \/ UndoRegistration(s)
StopAllStep == EndStopAll \/ \E k \in Keys : StopNext(k)
Network == \/ GatewayReplaced
           \/ \E c \in Conns : ControlCut(c) \/ ReadLoopExit(c) \/ RemoveControl(c)

Next ==
    \/ \E t \in Callers, k \in Keys :
         BeginStop(t, k) \/ \E m \in Modes : BeginStart(t, k, m)
    \/ \E t \in Callers : StartStep(t)
    \/ \E t \in Threads : StopStep(t)
    \/ \E c \in Conns : Start(c)
    \/ \E a \in {gateway, pod} : BeginRecovery(a)
    \/ RecoveryStep \/ StopAll \/ StopAllStep \/ Network

Spec == Init /\ [][Next]_vars

(* Every goroutine keeps running: each round trip ends in at most 10s, each *)
(* dial and Kubernetes call in bounded time.  Both ends of a dead           *)
(* connection notice.  Nothing makes a user, a failure or a retry happen.   *)
Fairness == /\ \A t \in Threads : WF_vars(StartStep(t) \/ StopStep(t))
            /\ WF_vars(RecoveryStep) /\ WF_vars(StopAllStep)
            /\ \A c \in Conns : WF_vars(ReadLoopExit(c)) /\ WF_vars(RemoveControl(c))
LiveSpec == Spec /\ Fairness

-----------------------------------------------------------------------------
(* A goroutine that is between its reservation and the end of its start.   *)
InStart == {"register", "apply", "publish", "rollback", "unregister"}
Starting(t) == thr[t].pc \in InStart

(* Start reserves a key for one goroutine at a time, and only while nothing *)
(* is published under the key: two concurrent Exchange / Mirror / Preview   *)
(* starts of one Service never both get past registry.reserve, and a key    *)
(* is not left reserved once its start has ended.                           *)
ReservationsExclusive ==
    /\ \A t, u \in Threads :
         Starting(t) /\ Starting(u) /\ thr[t].key = thr[u].key => t = u
    /\ \A t \in Threads : Starting(t) => starting[thr[t].key] = thr[t].res
    /\ \A k \in Keys : starting[k] # None =>
         ~Registered(k) /\ \E t \in Threads : Starting(t) /\ thr[t].key = k

(* Goroutine t answers for the redirect of key k.                          *)
HoldsLease(t, k) == /\ thr[t].key = k /\ thr[t].pc \in {"publish", "rollback"}
                    /\ redirects[k].res = thr[t].res

(* Every Service that points at the Gateway has one owner that will undo    *)
(* it: a published runtime, or the start that is still deciding.  The only  *)
(* way to lose it is a rollback whose own Release failed.  A start that     *)
(* loses the race against recovery or StopAll therefore leaks nothing.      *)
RedirectsOwned ==
    \A k \in Keys : redirects[k].res # None =>
        \/ k \in orphaned
        \/ Registered(k) /\ redirects[k].res = runtimes[k].res
        \/ \E t \in Callers : HoldsLease(t, k)

(* A published runtime whose stop has not released its lease still has its  *)
(* redirect: no other start, rollback or stop of the key undid it.          *)
RuntimesRedirected ==
    \A k \in Keys : Registered(k) =>
        \/ redirects[k].res = runtimes[k].res
        \/ \E t \in Threads : thr[t].pc = "remove" /\ thr[t].key = k
                              /\ thr[t].res = runtimes[k].res

(* "Active Gateway listeners are re-registered before recovered control     *)
(* becomes ready": whenever the control is ready and the Gateway still      *)
(* serves it, every port of every runtime published in this session listens *)
(* and belongs to that control, whatever starts, stops and recoveries ran   *)
(* in between.  Start does not register what an earlier session failed to   *)
(* release.                                                                 *)
ReadyMeansRegistered ==
    Ready /\ conns[ctl.client].served =>
        \A s \in Subs : Registered(s[1]) /\ s[1] \notin inherited =>
            Reg(s, runtimes[s[1]].res, ctl.client) \in listeners

(* Connection c is the one its session began with: no recovery replaced it. *)
Original(c) == \A d \in Conns : d < c => conns[d].token # conns[c].token

(* Every listener of a live, ready control that no recovery has replaced    *)
(* belongs to a published runtime, or to a goroutine that is about to       *)
(* publish or to unregister it, whatever order starts and stops come in.    *)
ListenersOwned ==
    \A l \in listeners :
        Ready /\ l.conn = ctl.client /\ ~conns[l.conn].cut /\ Original(l.conn) =>
            \/ runtimes[l.sub[1]].res = l.port
            \/ \E t \in Threads : /\ thr[t].pc # "idle" /\ thr[t].key = l.sub[1]
                                  /\ thr[t].conn = l.conn /\ l.sub[2] <= thr[t].n

(* Once StopAll has returned, nothing stays published but runtimes whose    *)
(* Release failed, or which another goroutine is still stopping: a start    *)
(* that was in flight when the session ended never publishes afterwards.    *)
StopAllComplete ==
    ~active /\ run.pc = "idle" =>
        \A k \in Keys : Registered(k) =>
            \/ k \in unreleased
            \/ \E t \in Threads : thr[t].pc \in {"release", "remove"} /\ thr[t].key = k

(* The session does not run silently with a partial data plane: while the   *)
(* control is ready, each published Service points at the pod serving it,   *)
(* and all its ports listen there.                                          *)
NoPartialDataPlane ==
    Ready /\ conns[ctl.client].served =>
        \A k \in Keys : Registered(k) /\ ~runtimes[k].stopping =>
            /\ redirects[k].ip = pod
            /\ \A i \in 1..NPorts :
                 Reg(<<k, i>>, runtimes[k].res, ctl.client) \in listeners

(* Every start, stop, recovery and StopAll that began comes to an end, and  *)
(* once a session is over the Gateway frees its listeners, though StopAll   *)
(* never unregisters them one by one.                                       *)
OperationsEnd == /\ \A t \in Threads : thr[t].pc # "idle" ~> thr[t].pc = "idle"
                 /\ run.pc # "idle" ~> run.pc = "idle"
                 /\ ~active ~> (active \/ listeners = {})
=============================================================================
