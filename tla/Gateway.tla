------------------------------ MODULE Gateway ------------------------------
(***************************************************************************)
(* gateway.Server (src/internal/gateway): control connections of several   *)
(* tenants, the reverse TCP listeners they register, the connections       *)
(* accepted there, which wait in the pending map until the desktop accepts *)
(* them, and the handlers that serve them.  Every section under Server.mu  *)
(* is one action; sockets are opened and closed outside of it.             *)
(***************************************************************************)
EXTENDS Naturals, FiniteSets

CONSTANTS
    Controls,      \* control connections, each made once
    Tokens,        \* tenants
    Ids,           \* intercept ids
    Ports,         \* listen ports, 1024 and above: the others are refused
    MaxListeners,  \* bound: interceptListener objects ever made
    MaxStreams     \* bound: connections ever accepted

ASSUME GatewayAssumption ==
    MaxListeners \in Nat /\ MaxStreams \in Nat

VARIABLES
    tokenOf,   \* the tenant whose token each control connection presents
    session,   \* handleControl of each control connection, and Server.controls
    cut,       \* control connections whose transport is gone
    req,       \* the register request a control's handler is working on
    tenants,   \* Server.tenants
    lst,       \* the interceptListener objects, in the order they are made
    made,      \* how many there are
    table,     \* Server.listeners: the listeners that are in the map
    toStop,    \* listeners taken out of the map and not yet stopped
    pending,   \* Server.pending, each with its timer
    conn,      \* the accepted connections: the tenant, and open or closed
    accepted,  \* nextStream
    toClose,   \* streams taken by removeControl and not yet closed
    told,      \* streams whose InboundReady was written
    handler    \* handleAccept of a tenant for a stream

registry == <<tokenOf, session, cut, req, tenants, made, table, toStop>>
streams == <<pending, conn, accepted, toClose, told, handler>>
vars == <<registry, lst, streams>>

Listeners == 1..MaxListeners
Streams == 1..MaxStreams
NoReq == [pc |-> "read", id |-> "-", port |-> 0, l |-> 0]
NoListener == [control |-> "-", id |-> "-", port |-> 0, open |-> FALSE, acc |-> "none", s |-> 0]
NoConn == [token |-> "-", open |-> FALSE]
Request == [pc : {"listen", "insert"}, id : Ids, port : Ports, l : 0..MaxListeners]
Listener == [control : Controls, id : Ids, port : Ports, open : BOOLEAN,
             acc : {"accept", "offer", "notify", "done"}, s : 0..MaxStreams]
Conn == [token : Tokens, open : BOOLEAN]

TypeOK ==
    /\ tokenOf \in [Controls -> Tokens]
    /\ session \in [Controls -> {"none", "up", "gone"}] /\ cut \subseteq Controls
    /\ req \in [Controls -> {NoReq} \cup Request]
    /\ tenants \in [Tokens -> Nat]
    /\ lst \in [Listeners -> {NoListener} \cup Listener]
    /\ made \in 0..MaxListeners /\ table \subseteq Listeners /\ toStop \subseteq Listeners
    /\ pending \subseteq Streams /\ toClose \subseteq Streams /\ told \subseteq Streams
    /\ conn \in [Streams -> {NoConn} \cup Conn]
    /\ accepted \in 0..MaxStreams
    /\ handler \in [Tokens \X Streams -> {"none", "checked", "took", "serving"}]

Init ==
    /\ tokenOf \in [Controls -> Tokens]
    /\ session = [c \in Controls |-> "none"] /\ cut = {}
    /\ req = [c \in Controls |-> NoReq] /\ tenants = [t \in Tokens |-> 0]
    /\ lst = [l \in Listeners |-> NoListener] /\ made = 0
    /\ table = {} /\ toStop = {}
    /\ pending = {} /\ conn = [s \in Streams |-> NoConn] /\ accepted = 0
    /\ toClose = {} /\ told = {}
    /\ handler = [h \in Tokens \X Streams |-> "none"]

(* The handler of control c has finished its last request.                 *)
Reading(c) == /\ session[c] = "up" /\ req[c].pc = "read"
              /\ \A l \in toStop : lst[l].control # c
Token(l) == tokenOf[lst[l].control]
CloseConn(s) == [conn EXCEPT ![s].open = FALSE]

-----------------------------------------------------------------------------
(* handleControl and what it calls.                                        *)

OpenControl(c) ==
    /\ session[c] = "none"
    /\ session' = [session EXCEPT ![c] = "up"]
    /\ tenants' = [tenants EXCEPT ![tokenOf[c]] = @ + 1]
    /\ UNCHANGED <<tokenOf, cut, req, made, table, toStop, lst, streams>>

ControlCut(c) ==
    /\ session[c] = "up" /\ c \notin cut
    /\ cut' = cut \cup {c}
    /\ UNCHANGED <<tokenOf, session, req, tenants, made, table, toStop, lst, streams>>

(* registerIntercept refuses an id of its tenant and a port of anybody     *)
(* that is in the map.                                                     *)
Clash(c, id, port) == \E l \in table :
    (Token(l) = tokenOf[c] /\ lst[l].id = id) \/ lst[l].port = port

Register(c, id, port) ==
    /\ Reading(c) /\ ~Clash(c, id, port)
    /\ req' = [req EXCEPT ![c] = [pc |-> "listen", id |-> id, port |-> port, l |-> 0]]
    /\ UNCHANGED <<tokenOf, session, cut, tenants, made, table, toStop, lst, streams>>

(* net.Listen, outside the lock; it may fail, and does on a port that is   *)
(* bound.  The accept loop runs from then on, though the listener is not   *)
(* in the map yet.                                                         *)
Bound(port) == \E l \in Listeners : lst[l].open /\ lst[l].port = port

Listen(c) ==
    /\ req[c].pc = "listen"
    /\ \/ req' = [req EXCEPT ![c] = NoReq] /\ UNCHANGED <<lst, made>>
       \/ /\ ~Bound(req[c].port) /\ made < MaxListeners
          /\ made' = made + 1
          /\ lst' = [lst EXCEPT ![made + 1] =
               [control |-> c, id |-> req[c].id, port |-> req[c].port,
                open |-> TRUE, acc |-> "accept", s |-> 0]]
          /\ req' = [req EXCEPT ![c] = [@ EXCEPT !.pc = "insert", !.l = made + 1]]
    /\ UNCHANGED <<tokenOf, session, cut, tenants, table, toStop, streams>>

Stopped(l) == [lst EXCEPT ![l].open = FALSE]

(* The second critical section: another control of the tenant may have     *)
(* taken the id meanwhile.                                                 *)
Insert(c) ==
    /\ req[c].pc = "insert"
    /\ IF \E l \in table : Token(l) = tokenOf[c] /\ lst[l].id = req[c].id
       THEN lst' = Stopped(req[c].l) /\ UNCHANGED table
       ELSE table' = table \cup {req[c].l} /\ UNCHANGED lst
    /\ req' = [req EXCEPT ![c] = NoReq]
    /\ UNCHANGED <<tokenOf, session, cut, tenants, made, toStop, streams>>

(* unregisterIntercept: only the control that registered the id may.       *)
Unregister(c, l) ==
    /\ Reading(c)
    /\ l \in table /\ lst[l].control = c
    /\ table' = table \ {l} /\ toStop' = toStop \cup {l}
    /\ UNCHANGED <<tokenOf, session, cut, req, tenants, made, lst, streams>>

(* removeControl, under the lock: the control's listeners leave the map    *)
(* and, with the tenant's last control, the tenant's pending streams.      *)
RemoveControl(c) ==
    /\ Reading(c) /\ c \in cut
    /\ session' = [session EXCEPT ![c] = "gone"]
    /\ tenants' = [tenants EXCEPT ![tokenOf[c]] = @ - 1]
    /\ LET mine == {l \in table : lst[l].control = c}
           last == {s \in pending : tenants[tokenOf[c]] = 1 /\ conn[s].token = tokenOf[c]}
       IN  /\ table' = table \ mine /\ toStop' = toStop \cup mine
           /\ pending' = pending \ last /\ toClose' = toClose \cup last
    /\ UNCHANGED <<tokenOf, cut, req, made, lst, conn, accepted, told, handler>>

(* ... and without the lock: interceptListener.stop, pendingStream.close.  *)
StopListener(l) ==
    /\ l \in toStop
    /\ toStop' = toStop \ {l}
    /\ lst' = Stopped(l)
    /\ UNCHANGED <<tokenOf, session, cut, req, tenants, made, table, streams>>

ClosePending(s) ==
    /\ s \in toClose
    /\ toClose' = toClose \ {s}
    /\ conn' = CloseConn(s)
    /\ UNCHANGED <<registry, lst, pending, accepted, told, handler>>

-----------------------------------------------------------------------------
(* acceptTCP, the accept loop of a listener.                               *)

Accept(l) ==
    /\ lst[l].acc = "accept" /\ lst[l].open /\ accepted < MaxStreams
    /\ accepted' = accepted + 1
    /\ conn' = [conn EXCEPT ![accepted + 1] = [token |-> Token(l), open |-> TRUE]]
    /\ lst' = [lst EXCEPT ![l].acc = "offer", ![l].s = accepted + 1]
    /\ UNCHANGED <<registry, pending, toClose, told, handler>>

AcceptEnds(l) ==
    /\ lst[l].acc = "accept" /\ ~lst[l].open
    /\ lst' = [lst EXCEPT ![l].acc = "done"]
    /\ UNCHANGED <<registry, streams>>

(* offerPending *)
Offer(l) ==
    /\ lst[l].acc = "offer"
    /\ pending' = pending \cup {lst[l].s}
    /\ lst' = [lst EXCEPT ![l].acc = "notify"]
    /\ UNCHANGED <<registry, conn, accepted, toClose, told, handler>>

(* The InboundReady reply; on an error, which only a dying connection      *)
(* gives, the loop takes the stream back, closes it and ends.              *)
Notify(l) ==
    /\ lst[l].acc = "notify"
    /\ \/ /\ told' = told \cup {lst[l].s}
          /\ lst' = [lst EXCEPT ![l].acc = "accept", ![l].s = 0]
          /\ UNCHANGED <<pending, conn>>
       \/ /\ lst[l].control \in cut
          /\ pending' = pending \ {lst[l].s}
          /\ conn' = CloseConn(lst[l].s)
          /\ lst' = [lst EXCEPT ![l].acc = "done", ![l].s = 0]
          /\ UNCHANGED told
    /\ UNCHANGED <<registry, accepted, toClose, handler>>

(* Mutant: the timer leaves the streams of tenants that are still there.   *)
TimeoutOfAbsent(s) ==
    /\ s \in pending /\ tenants[conn[s].token] = 0
    /\ pending' = pending \ {s} /\ conn' = CloseConn(s)
    /\ UNCHANGED <<registry, lst, accepted, toClose, told, handler>>

(* The timer of offerPending.                                              *)
AcceptTimeout(s) ==
    /\ s \in pending
    /\ pending' = pending \ {s} /\ conn' = CloseConn(s)
    /\ UNCHANGED <<registry, lst, accepted, toClose, told, handler>>

-----------------------------------------------------------------------------
(* handleAccept, for a tenant and any stream id that was ever told.        *)

CheckTenant(t, s) ==
    /\ handler[<<t, s>>] = "none" /\ s \in told /\ tenants[t] > 0
    /\ handler' = [handler EXCEPT ![<<t, s>>] = "checked"]
    /\ UNCHANGED <<registry, lst, pending, conn, accepted, toClose, told>>

(* Mutant: the token is not compared.                                      *)
TakeAnybody(t, s) ==
    /\ handler[<<t, s>>] = "checked"
    /\ handler' = [handler EXCEPT ![<<t, s>>] = IF s \in pending THEN "took" ELSE "none"]
    /\ pending' = pending \ {s}
    /\ UNCHANGED <<registry, lst, conn, accepted, toClose, told>>

(* takePendingFor; an unknown stream or another tenant's is refused.       *)
TakePendingFor(t, s) ==
    /\ handler[<<t, s>>] = "checked"
    /\ IF s \in pending /\ conn[s].token = t
       THEN /\ pending' = pending \ {s}
            /\ handler' = [handler EXCEPT ![<<t, s>>] = "took"]
       ELSE handler' = [handler EXCEPT ![<<t, s>>] = "none"] /\ UNCHANGED pending
    /\ UNCHANGED <<registry, lst, conn, accepted, toClose, told>>

(* WriteStatus, then serve or close.                                       *)
Serve(t, s) ==
    /\ handler[<<t, s>>] = "took"
    /\ \/ handler' = [handler EXCEPT ![<<t, s>>] = "serving"] /\ UNCHANGED conn
       \/ handler' = [handler EXCEPT ![<<t, s>>] = "none"] /\ conn' = CloseConn(s)
    /\ UNCHANGED <<registry, lst, pending, accepted, toClose, told>>

ServeEnds(t, s) ==
    /\ handler[<<t, s>>] = "serving"
    /\ handler' = [handler EXCEPT ![<<t, s>>] = "none"] /\ conn' = CloseConn(s)
    /\ UNCHANGED <<registry, lst, pending, accepted, toClose, told>>

-----------------------------------------------------------------------------
ControlStep(c) == Listen(c) \/ Insert(c) \/ RemoveControl(c)
AcceptStep(l) == Accept(l) \/ AcceptEnds(l) \/ Offer(l) \/ Notify(l)
HandlerStep(t, s) == TakePendingFor(t, s) \/ Serve(t, s)
Next ==
    \/ \E c \in Controls :
         \/ OpenControl(c) \/ ControlCut(c) \/ ControlStep(c)
         \/ \E id \in Ids, port \in Ports : Register(c, id, port)
         \/ \E l \in Listeners : Unregister(c, l)
    \/ \E l \in Listeners : StopListener(l) \/ AcceptStep(l)
    \/ \E s \in Streams :
         \/ ClosePending(s) \/ AcceptTimeout(s)
         \/ \E t \in Tokens : CheckTenant(t, s) \/ HandlerStep(t, s) \/ ServeEnds(t, s)
Spec == Init /\ [][Next]_vars

(* The Gateway's goroutines and timers run.  Nothing is assumed of the      *)
(* tenants: a control need not be cut, a stream need not be accepted, and a *)
(* served one may last.                                                     *)
LiveSpec ==
    /\ Spec
    /\ \A c \in Controls : WF_vars(ControlStep(c))
    /\ \A l \in Listeners : WF_vars(StopListener(l)) /\ WF_vars(AcceptEnds(l) \/ Offer(l) \/ Notify(l))
    /\ \A s \in Streams : /\ WF_vars(ClosePending(s)) /\ WF_vars(AcceptTimeout(s))
                          /\ \A t \in Tokens : WF_vars(HandlerStep(t, s))

-----------------------------------------------------------------------------
(* Who will close an accepted connection: its accept loop, the timer of the *)
(* pending map, removeControl, or the handler that took it.                 *)
Takers(s) == {t \in Tokens : handler[<<t, s>>] \in {"took", "serving"}}
Held(s) == \E l \in Listeners : lst[l].s = s

(* No accepted connection is left behind: an open one is in somebody's      *)
(* hands, though the timer, the desktop, a failed notification and the end  *)
(* of the tenant race for it.                                               *)
NoConnLeak == \A s \in Streams : conn[s].open =>
    s \in pending \cup toClose \/ Held(s) \/ Takers(s) # {}

(* A stream is served at most once, by its own tenant, and only while it is *)
(* in nobody else's hands.                                                  *)
ServedOnce == \A s \in Streams :
    /\ Takers(s) \subseteq {conn[s].token}
    /\ Takers(s) # {} => s \notin pending \cup toClose

(* A tenant's id and a port lead to one listener, though two controls may   *)
(* register them at the same time.                                          *)
ListenersUnique == \A k, l \in table : k # l =>
    lst[k].port # lst[l].port /\ ~(Token(k) = Token(l) /\ lst[k].id = lst[l].id)

(* Every listener in the map is open and has a live control; every open     *)
(* socket is in the map or about to be put there or stopped.                *)
SocketsOwned ==
    /\ \A l \in table : lst[l].open /\ session[lst[l].control] = "up"
    /\ \A l \in Listeners : lst[l].open =>
         l \in table \cup toStop \/ \E c \in Controls : req[c].l = l

(* An accepted connection is in exactly one hand, from Accept to the end    *)
(* of its service, and so is every listening socket, from net.Listen to the *)
(* end of its control; no two of them share an id or a port.                *)
OneHand == TypeOK /\ NoConnLeak /\ ServedOnce /\ ListenersUnique /\ SocketsOwned

(* Every accepted connection is served or closed, and what a lost control   *)
(* had registered goes away.                                                *)
StreamsSettle ==
    /\ \A s \in Streams :
         conn[s].open ~> (~conn[s].open \/ \E t \in Tokens : handler[<<t, s>>] = "serving")
    /\ \A c \in Controls : c \in cut ~> \A l \in Listeners : lst[l].control = c => ~lst[l].open
=============================================================================
