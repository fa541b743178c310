--------------------------- MODULE GatewayProofs ---------------------------
(* Machine-checked proof that every connection and every listening socket   *)
(* of gateway.Server is in one hand, for every value of the constants.      *)
EXTENDS Gateway, FiniteSetTheorems, TLAPS

-----------------------------------------------------------------------------
(* The inductive invariant, in two halves: the registry of listeners, and   *)
(* the streams.                                                             *)

(* Server.tenants counts the controls that are up.                          *)
Up(t) == {c \in Controls : session[c] = "up" /\ tokenOf[c] = t}
TenantsCounted == \A t \in Tokens : IsFiniteSet(Up(t)) /\ tenants[t] = Cardinality(Up(t))

(* Listeners are made in order, and only made ones are in the map or on the *)
(* way out of it.                                                           *)
MadeInOrder == \A l \in Listeners :
    /\ l > made => lst[l] = NoListener
    /\ l <= made => lst[l].acc # "none"
    /\ l \in table \cup toStop => l <= made /\ l \notin table \cap toStop

(* Between net.Listen and the second critical section the listener belongs  *)
(* to the handler that made it.                                             *)
RequestOwns(c) ==
    /\ req[c].pc # "read" => session[c] = "up"
    /\ req[c].pc # "insert" => req[c].l = 0
    /\ req[c].pc = "insert" =>
         /\ req[c].l \in Listeners /\ req[c].l <= made
         /\ lst[req[c].l].control = c /\ lst[req[c].l].open
         /\ lst[req[c].l].id = req[c].id
         /\ req[c].l \notin table \cup toStop
RequestsOwn == \A c \in Controls : RequestOwns(c)

(* The kernel binds a port once.                                            *)
PortsBoundOnce == \A k, l \in Listeners :
    k # l /\ lst[k].open /\ lst[l].open => lst[k].port # lst[l].port

RegistryInv ==
    /\ TenantsCounted /\ MadeInOrder /\ RequestsOwn /\ PortsBoundOnce
    /\ ListenersUnique /\ SocketsOwned

(* A stream id is used only once it has been handed out.                    *)
IdsInOrder ==
    /\ \A s \in Streams : s > accepted => ~conn[s].open
    /\ \A s \in pending \cup toClose \cup told : s <= accepted
    /\ pending \cap toClose = {}

(* What an accept loop holds: nobody was told of the stream, and once it is *)
(* offered it is in the pending map, in removeControl's hands, or closed.   *)
LoopHolds(l) ==
    /\ lst[l].acc \in {"none", "accept", "done"} => lst[l].s = 0
    /\ lst[l].acc \in {"offer", "notify"} => lst[l].s \in 1..accepted /\ lst[l].s \notin told
    /\ lst[l].acc = "offer" => lst[l].s \notin pending \cup toClose
    /\ lst[l].acc = "notify" /\ conn[lst[l].s].open => lst[l].s \in pending \cup toClose
LoopsHold == \A l \in Listeners : LoopHolds(l)
HeldOnce == \A k, l \in Listeners : k # l /\ lst[k].s = lst[l].s => lst[k].s = 0

(* handleAccept runs only for a stream the desktop was told of.             *)
HandlersTold == \A t \in Tokens, s \in Streams : handler[<<t, s>>] # "none" => s \in told

StreamInv ==
    /\ IdsInOrder /\ LoopsHold /\ HeldOnce /\ HandlersTold
    /\ NoConnLeak /\ ServedOnce

IInv == TypeOK /\ RegistryInv /\ StreamInv

-----------------------------------------------------------------------------
(* Typing.                                                                  *)

LEMMA TypeInit == Init => TypeOK
  <1> SUFFICES ASSUME Init PROVE TypeOK
    OBVIOUS
  <1>1. 0 \in 0..MaxListeners /\ 0 \in 0..MaxStreams
    BY GatewayAssumption
  <1>2. QED
    BY <1>1 DEF Init, TypeOK

(* The controls' handlers.                                                  *)
LEMMA TypeControl ==
    ASSUME TypeOK, TenantsCounted, NEW c \in Controls,
           OpenControl(c) \/ ControlCut(c) \/ RemoveControl(c)
             \/ (\E id \in Ids, port \in Ports : Register(c, id, port))
             \/ (\E l \in Listeners : Unregister(c, l))
    PROVE  TypeOK'
  <1>1. ASSUME OpenControl(c) PROVE TypeOK'
    BY <1>1 DEF OpenControl, TypeOK, streams
  <1>2. ASSUME ControlCut(c) PROVE TypeOK'
    BY <1>2 DEF ControlCut, TypeOK, streams
  <1>3. ASSUME RemoveControl(c) PROVE TypeOK'
    <2>1. tokenOf[c] \in Tokens /\ c \in Up(tokenOf[c]) /\ IsFiniteSet(Up(tokenOf[c]))
      BY <1>3 DEF RemoveControl, Reading, TypeOK, Up, TenantsCounted
    <2>2. tenants[tokenOf[c]] - 1 \in Nat
      <3>1. Cardinality(Up(tokenOf[c])) \in Nat /\ Cardinality(Up(tokenOf[c])) # 0
        BY <2>1, FS_CardinalityType, FS_EmptySet
      <3>2. QED
        BY <2>1, <3>1 DEF TenantsCounted
    <2>3. tenants' \in [Tokens -> Nat]
      BY <1>3, <2>1, <2>2 DEF RemoveControl, TypeOK
    <2>4. QED
      BY <1>3, <2>3 DEF RemoveControl, TypeOK
  <1>4. ASSUME NEW id \in Ids, NEW port \in Ports, Register(c, id, port) PROVE TypeOK'
    <2>1. [pc |-> "listen", id |-> id, port |-> port, l |-> 0]
            \in Request
      BY GatewayAssumption DEF Request
    <2>2. QED
      BY <1>4, <2>1 DEF Register, TypeOK, streams
  <1>5. ASSUME NEW l \in Listeners, Unregister(c, l) PROVE TypeOK'
    BY <1>5 DEF Unregister, TypeOK, streams
  <1>6. QED
    BY <1>1, <1>2, <1>3, <1>4, <1>5

LEMMA TypeListen ==
    ASSUME TypeOK, NEW c \in Controls, Listen(c)
    PROVE  TypeOK'
  <1>1. CASE req' = [req EXCEPT ![c] = NoReq] /\ UNCHANGED <<lst, made>>
    BY <1>1 DEF Listen, TypeOK, streams
  <1>2. CASE /\ made < MaxListeners /\ made' = made + 1
             /\ lst' = [lst EXCEPT ![made + 1] =
                  [control |-> c, id |-> req[c].id, port |-> req[c].port,
                   open |-> TRUE, acc |-> "accept", s |-> 0]]
             /\ req' = [req EXCEPT ![c] = [@ EXCEPT !.pc = "insert", !.l = made + 1]]
    <2>1. made + 1 \in Listeners /\ made + 1 \in 0..MaxListeners /\ 0 \in 0..MaxStreams
      BY <1>2, GatewayAssumption DEF TypeOK, Listeners
    <2>2. req[c] \in Request
      BY DEF Listen, TypeOK, NoReq
    <2>3. [req[c] EXCEPT !.pc = "insert", !.l = made + 1] \in Request
      BY <2>1, <2>2 DEF Request
    <2>4. [control |-> c, id |-> req[c].id, port |-> req[c].port,
           open |-> TRUE, acc |-> "accept", s |-> 0] \in Listener
      BY <2>1, <2>2 DEF Request, Listener
    <2>5. req' \in [Controls -> {NoReq} \cup Request] /\ lst' \in [Listeners -> {NoListener} \cup Listener]
      BY <1>2, <2>1, <2>3, <2>4 DEF TypeOK
    <2>6. QED
      BY <1>2, <2>1, <2>5 DEF Listen, TypeOK, streams
  <1>3. QED
    BY <1>1, <1>2 DEF Listen

(* interceptListener.stop leaves a listener what it was, but closed.        *)
LEMMA StoppedType ==
    ASSUME TypeOK, NEW l \in Listeners, lst' = Stopped(l)
    PROVE  lst' \in [Listeners -> {NoListener} \cup Listener]
  <1>1. [lst[l] EXCEPT !.open = FALSE] \in {NoListener} \cup Listener
    <2>1. CASE lst[l] = NoListener
      <3>1. lst[l] \in [control : {"-"}, id : {"-"}, port : {0}, open : BOOLEAN,
                           acc : {"none"}, s : {0}]
              /\ lst[l].open = FALSE
        BY <2>1 DEF NoListener
      <3>2. [lst[l] EXCEPT !.open = FALSE] = lst[l]
        BY <3>1
      <3>3. QED
        BY <2>1, <3>2
    <2>2. CASE lst[l] \in Listener
      BY <2>2 DEF Listener
    <2>3. QED
      BY <2>1, <2>2 DEF TypeOK
  <1>2. QED
    BY <1>1 DEF TypeOK, Stopped

LEMMA TypeInsert ==
    ASSUME TypeOK, RequestsOwn, NEW c \in Controls, Insert(c)
    PROVE  TypeOK'
  <1>1. req[c].l \in Listeners
    BY DEF Insert, RequestsOwn, RequestOwns
  <1>2. lst' \in [Listeners -> {NoListener} \cup Listener]
    BY <1>1, StoppedType DEF Insert, TypeOK
  <1>3. table' \subseteq Listeners
    BY <1>1 DEF Insert, TypeOK
  <1>4. QED
    BY <1>2, <1>3 DEF Insert, TypeOK, streams

LEMMA TypeStopListener ==
    ASSUME TypeOK, NEW l \in Listeners, StopListener(l)
    PROVE  TypeOK'
  BY StoppedType DEF StopListener, TypeOK, streams

(* Closing a connection leaves it what it was, but closed.                  *)
LEMMA CloseConnType ==
    ASSUME TypeOK, NEW s \in Streams, conn' = CloseConn(s)
    PROVE  conn' \in [Streams -> {NoConn} \cup Conn]
  <1>1. [conn[s] EXCEPT !.open = FALSE] \in {NoConn} \cup Conn
    <2>1. CASE conn[s] = NoConn
      <3>1. conn[s] \in [token : {"-"}, open : BOOLEAN]
              /\ conn[s].open = FALSE
        BY <2>1 DEF NoConn
      <3>2. [conn[s] EXCEPT !.open = FALSE] = conn[s]
        BY <3>1
      <3>3. QED
        BY <2>1, <3>2
    <2>2. CASE conn[s] \in Conn
      BY <2>2 DEF Conn
    <2>3. QED
      BY <2>1, <2>2 DEF TypeOK
  <1>2. QED
    BY <1>1 DEF TypeOK, CloseConn

(* The accept loops.                                                        *)
LEMMA TypeAcceptStep ==
    ASSUME TypeOK, LoopsHold, NEW l \in Listeners, AcceptStep(l)
    PROVE  TypeOK'
  <1> USE DEF TypeOK, registry, streams
  <1>1. lst[l] # NoListener
    BY DEF AcceptStep, Accept, AcceptEnds, Offer, Notify, NoListener, NoListener
  <1>2. CASE Accept(l)
    <2>1. accepted + 1 \in Streams /\ accepted + 1 \in 0..MaxStreams
      BY <1>2, GatewayAssumption DEF Accept, Streams
    <2>2. Token(l) \in Tokens
      BY <1>1 DEF Token, Listener
    <2>3. lst' \in [Listeners -> {NoListener} \cup Listener]
      <3>1. lst[l] \in Listener
        BY <1>1
      <3>2. [lst[l] EXCEPT !.acc = "offer", !.s = accepted + 1] \in Listener
        BY <3>1, <2>1 DEF Listener
      <3>3. lst' = [lst EXCEPT ![l] = [lst[l] EXCEPT !.acc = "offer", !.s = accepted + 1]]
        BY <1>2 DEF Accept
      <3>4. QED
        BY <3>2, <3>3
    <2>4. conn' \in [Streams -> {NoConn} \cup Conn]
      BY <1>2, <2>1, <2>2 DEF Accept, Conn
    <2>5. QED
      BY <1>2, <2>1, <2>3, <2>4 DEF Accept
  <1>3. CASE AcceptEnds(l)
    BY <1>1, <1>3 DEF AcceptEnds, Listener
  <1>4. lst[l].acc \in {"offer", "notify"} => lst[l].s \in Streams
    BY GatewayAssumption DEF LoopsHold, LoopHolds, Streams
  <1>5. CASE Offer(l)
    BY <1>1, <1>4, <1>5 DEF Offer, Listener
  <1>6. CASE Notify(l)
    <2>1. lst' \in [Listeners -> {NoListener} \cup Listener]
      BY <1>1, <1>6, GatewayAssumption DEF Notify, Listener
    <2>2. conn' \in [Streams -> {NoConn} \cup Conn]
      BY <1>4, <1>6, CloseConnType DEF Notify
    <2>3. QED
      BY <1>4, <1>6, <2>1, <2>2 DEF Notify
  <1>7. QED
    BY <1>2, <1>3, <1>5, <1>6 DEF AcceptStep

(* The timer, removeControl's closes and the handlers of accepted streams.  *)
LEMMA TypeStream ==
    ASSUME TypeOK, NEW s \in Streams,
           ClosePending(s) \/ AcceptTimeout(s)
             \/ \E t \in Tokens : CheckTenant(t, s) \/ HandlerStep(t, s) \/ ServeEnds(t, s)
    PROVE  TypeOK'
  <1> USE DEF TypeOK, registry
  <1>1. CASE ClosePending(s)
    BY <1>1, CloseConnType DEF ClosePending
  <1>2. CASE AcceptTimeout(s)
    BY <1>2, CloseConnType DEF AcceptTimeout
  <1>3. ASSUME NEW t \in Tokens, CheckTenant(t, s) PROVE TypeOK'
    BY <1>3 DEF CheckTenant
  <1>4. ASSUME NEW t \in Tokens, TakePendingFor(t, s) PROVE TypeOK'
    BY <1>4 DEF TakePendingFor
  <1>5. ASSUME NEW t \in Tokens, Serve(t, s) PROVE TypeOK'
    BY <1>5, CloseConnType DEF Serve
  <1>6. ASSUME NEW t \in Tokens, ServeEnds(t, s) PROVE TypeOK'
    BY <1>6, CloseConnType DEF ServeEnds
  <1>7. QED
    BY <1>1, <1>2, <1>3, <1>4, <1>5, <1>6 DEF HandlerStep

-----------------------------------------------------------------------------
(* The registry.                                                            *)

LEMMA RegistryInit == Init => RegistryInv
  <1> SUFFICES ASSUME Init PROVE RegistryInv
    OBVIOUS
  <1>1. TenantsCounted
    <2>1. \A t \in Tokens : Up(t) = {}
      BY DEF Init, Up
    <2>2. QED
      BY <2>1, FS_EmptySet DEF Init, TenantsCounted
  <1>2. MadeInOrder
    BY DEF Init, MadeInOrder, Listeners
  <1>3. RequestsOwn
    BY DEF Init, RequestsOwn, RequestOwns, NoReq
  <1>4. PortsBoundOnce /\ ListenersUnique /\ SocketsOwned
    BY DEF Init, PortsBoundOnce, ListenersUnique, SocketsOwned, NoListener
  <1>5. QED
    BY <1>1, <1>2, <1>3, <1>4 DEF RegistryInv

(* The steps of accept loops and handlers leave the registry alone.         *)
LEMMA SameRegistry ==
    ASSUME TypeOK, RegistryInv,
           UNCHANGED <<tokenOf, session, cut, req, tenants, made, table, toStop>>,
           \A l \in Listeners :
             /\ lst[l] = NoListener => lst'[l] = NoListener
             /\ lst[l].acc # "none" => lst'[l].acc # "none"
             /\ lst'[l].control = lst[l].control /\ lst'[l].id = lst[l].id
             /\ lst'[l].port = lst[l].port /\ lst'[l].open = lst[l].open
    PROVE  RegistryInv'
  <1> USE DEF RegistryInv
  <1>1. TenantsCounted'
    BY DEF TenantsCounted, Up
  <1>2. MadeInOrder'
    BY DEF MadeInOrder
  <1>3. RequestsOwn'
    BY DEF RequestsOwn, RequestOwns
  <1>4. PortsBoundOnce'
    BY DEF PortsBoundOnce
  <1>5. ListenersUnique'
    BY SMTT(30) DEF ListenersUnique, Token, TypeOK
  <1>6. SocketsOwned'
    BY DEF SocketsOwned, TypeOK
  <1>7. QED
    BY <1>1, <1>2, <1>3, <1>4, <1>5, <1>6

LEMMA RegistryOpen ==
    ASSUME TypeOK, RegistryInv, NEW c \in Controls, OpenControl(c)
    PROVE  RegistryInv'
  <1> USE DEF RegistryInv, OpenControl
  <1>1. TenantsCounted'
    <2> SUFFICES ASSUME NEW t \in Tokens
                 PROVE  IsFiniteSet(Up(t)') /\ tenants'[t] = Cardinality(Up(t)')
      BY DEF TenantsCounted
    <2>1. IsFiniteSet(Up(t)) /\ tenants[t] = Cardinality(Up(t))
      BY DEF TenantsCounted
    <2>2. CASE t # tokenOf[c]
      <3>1. Up(t)' = Up(t)
        BY <2>2 DEF Up, TypeOK
      <3>2. tenants'[t] = tenants[t]
        BY <2>2 DEF TypeOK
      <3>3. QED
        BY <2>1, <3>1, <3>2
    <2>3. CASE t = tokenOf[c]
      <3>1. Up(t)' = Up(t) \cup {c} /\ c \notin Up(t)
        BY <2>3 DEF Up, TypeOK
      <3>2. tenants'[t] = tenants[t] + 1
        BY <2>3 DEF TypeOK
      <3>3. QED
        BY <2>1, <3>1, <3>2, FS_AddElement
    <2>4. QED
      BY <2>2, <2>3
  <1>2. MadeInOrder' /\ PortsBoundOnce' /\ ListenersUnique'
    BY DEF MadeInOrder, PortsBoundOnce, ListenersUnique, Token
  <1>3. RequestsOwn'
    BY DEF RequestsOwn, RequestOwns, TypeOK
  <1>4. SocketsOwned'
    BY DEF SocketsOwned, TypeOK
  <1>5. QED
    BY <1>1, <1>2, <1>3, <1>4

LEMMA RegistryCut ==
    ASSUME TypeOK, RegistryInv, NEW c \in Controls, ControlCut(c)
    PROVE  RegistryInv'
  <1> USE DEF RegistryInv, ControlCut
  <1>1. TenantsCounted' /\ MadeInOrder' /\ PortsBoundOnce'
    BY DEF TenantsCounted, Up, MadeInOrder, PortsBoundOnce
  <1>2. RequestsOwn' /\ ListenersUnique' /\ SocketsOwned'
    BY DEF RequestsOwn, RequestOwns, ListenersUnique, SocketsOwned, Token
  <1>3. QED
    BY <1>1, <1>2

LEMMA RegistryRegister ==
    ASSUME TypeOK, RegistryInv, NEW c \in Controls, NEW id \in Ids, NEW port \in Ports,
           Register(c, id, port)
    PROVE  RegistryInv'
  <1> USE DEF RegistryInv, Register
  <1>1. TenantsCounted' /\ MadeInOrder' /\ PortsBoundOnce' /\ ListenersUnique'
    BY DEF TenantsCounted, Up, MadeInOrder, PortsBoundOnce, ListenersUnique, Token
  <1>2. RequestsOwn'
    BY DEF RequestsOwn, RequestOwns, TypeOK, Reading
  <1>3. SocketsOwned'
    <2>1. req[c].l = 0 /\ \A l \in Listeners : l # 0
      BY DEF RequestsOwn, RequestOwns, Reading, Listeners
    <2>2. QED
      BY <2>1 DEF SocketsOwned, TypeOK
  <1>4. QED
    BY <1>1, <1>2, <1>3

LEMMA RegistryListen ==
    ASSUME TypeOK, RegistryInv, NEW c \in Controls, Listen(c)
    PROVE  RegistryInv'
  <1> USE DEF RegistryInv
  <1>1. TenantsCounted'
    BY DEF TenantsCounted, Up, Listen
  <1>2. req[c].pc = "listen" /\ req[c].l = 0 /\ session[c] = "up"
    BY DEF Listen, RequestsOwn, RequestOwns
  <1>3. CASE req' = [req EXCEPT ![c] = NoReq] /\ UNCHANGED <<lst, made>>
    <2>1. MadeInOrder' /\ PortsBoundOnce' /\ ListenersUnique'
      BY <1>3 DEF Listen, MadeInOrder, PortsBoundOnce, ListenersUnique, Token
    <2>2. RequestsOwn'
      BY <1>3 DEF Listen, RequestsOwn, RequestOwns, NoReq, TypeOK
    <2>3. SocketsOwned'
      BY <1>2, <1>3 DEF Listen, SocketsOwned, TypeOK, Listeners
    <2>4. QED
      BY <1>1, <2>1, <2>2, <2>3
  <1>4. CASE /\ ~Bound(req[c].port) /\ made < MaxListeners /\ made' = made + 1
             /\ lst' = [lst EXCEPT ![made + 1] =
                  [control |-> c, id |-> req[c].id, port |-> req[c].port,
                   open |-> TRUE, acc |-> "accept", s |-> 0]]
             /\ req' = [req EXCEPT ![c] = [@ EXCEPT !.pc = "insert", !.l = made + 1]]
    <2>1. made \in Nat /\ made + 1 \in Listeners
      BY <1>4, GatewayAssumption DEF TypeOK, Listeners
    <2>2. lst[made + 1] = NoListener /\ made + 1 \notin table \cup toStop
      BY <2>1 DEF MadeInOrder
    <2>3. \A l \in Listeners : l # made + 1 => lst'[l] = lst[l]
      BY <1>4, <2>1 DEF TypeOK
    <2>4. /\ lst'[made + 1].control = c /\ lst'[made + 1].id = req[c].id
          /\ lst'[made + 1].port = req[c].port /\ lst'[made + 1].open
          /\ lst'[made + 1].acc = "accept"
      BY <1>4, <2>1 DEF TypeOK
    <2>5. table' = table /\ toStop' = toStop /\ session' = session /\ tokenOf' = tokenOf
      BY DEF Listen
    <2>6. MadeInOrder'
      BY <1>4, <2>1, <2>2, <2>3, <2>4, <2>5 DEF MadeInOrder, Listeners
    <2>7. req'[c].pc = "insert" /\ req'[c].l = made + 1 /\ req'[c].id = req[c].id
      BY <1>2, <1>4 DEF TypeOK, Request, NoReq
    <2>8. \A d \in Controls : d # c => req'[d] = req[d]
      BY <1>4 DEF TypeOK
    <2>9. RequestsOwn'
      <3>1. RequestOwns(c)'
        BY <1>2, <1>4, <2>1, <2>2, <2>4, <2>5, <2>7 DEF RequestOwns
      <3>2. ASSUME NEW d \in Controls, d # c PROVE RequestOwns(d)'
        <4>1. RequestOwns(d) /\ req'[d] = req[d]
          BY <2>8, <3>2 DEF RequestsOwn
        <4>2. req[d].pc = "insert" => req[d].l \in Listeners /\ req[d].l # made + 1 /\ req[d].l <= made + 1
          BY <2>1, <4>1 DEF RequestOwns, Listeners
        <4>3. QED
          BY <1>4, <2>3, <2>5, <4>1, <4>2 DEF RequestOwns
      <3>3. QED
        BY <3>1, <3>2 DEF RequestsOwn
    <2>10. PortsBoundOnce'
      BY <1>4, <2>3, <2>4 DEF PortsBoundOnce, Bound
    <2>11. ListenersUnique'
      <3>1. \A l \in table : lst'[l] = lst[l]
        BY <2>2, <2>3 DEF TypeOK
      <3>2. QED
        BY <2>5, <3>1 DEF ListenersUnique, Token
    <2>12. SocketsOwned'
      <3>1. \A l \in table : lst'[l] = lst[l]
        BY <2>2, <2>3 DEF TypeOK
      <3>2. ASSUME NEW l \in Listeners, lst'[l].open, l \notin table \cup toStop
            PROVE  \E d \in Controls : req'[d].l = l
        <4>1. CASE l = made + 1
          BY <2>7, <4>1
        <4>2. CASE l # made + 1
          <5>1. PICK d \in Controls : req[d].l = l
            BY <2>3, <3>2, <4>2 DEF SocketsOwned
          <5>2. d # c
            BY <1>2, <5>1 DEF Listeners
          <5>3. QED
            BY <2>8, <5>1, <5>2
        <4>3. QED
          BY <4>1, <4>2
      <3>3. QED
        BY <2>5, <3>1, <3>2 DEF SocketsOwned
    <2>13. QED
      BY <1>1, <2>6, <2>9, <2>10, <2>11, <2>12
  <1>5. QED
    BY <1>3, <1>4 DEF Listen

(* interceptListener.stop only clears open.                                 *)
OnlyCloses(l) ==
    /\ ~lst'[l].open
    /\ \A k \in Listeners :
         /\ lst[k] = NoListener => lst'[k] = NoListener
         /\ lst'[k].acc = lst[k].acc /\ lst'[k].s = lst[k].s
         /\ lst'[k].control = lst[k].control /\ lst'[k].id = lst[k].id
         /\ lst'[k].port = lst[k].port /\ (lst'[k].open => lst[k].open)
         /\ k # l => lst'[k] = lst[k]

LEMMA StoppedFields ==
    ASSUME TypeOK, NEW l \in Listeners, lst' = Stopped(l)
    PROVE  OnlyCloses(l)
  <1>1. lst[l] \in {NoListener} \cup Listener
    BY DEF TypeOK
  <1>2. lst' = [lst EXCEPT ![l] = [lst[l] EXCEPT !.open = FALSE]]
    BY DEF Stopped
  <1>3. \A k \in Listeners : k # l => lst'[k] = lst[k]
    BY <1>2 DEF TypeOK
  <1>4. lst'[l] = [lst[l] EXCEPT !.open = FALSE]
    BY <1>2 DEF TypeOK
  <1>5. ~lst'[l].open /\ lst'[l].acc = lst[l].acc /\ lst'[l].s = lst[l].s
        /\ lst'[l].control = lst[l].control /\ lst'[l].id = lst[l].id /\ lst'[l].port = lst[l].port
    BY <1>1, <1>4 DEF NoListener, Listener
  <1>6. ASSUME lst[l] = NoListener PROVE lst'[l] = NoListener
    <2>1. lst[l] \in [control : {"-"}, id : {"-"}, port : {0}, open : BOOLEAN, acc : {"none"}, s : {0}]
            /\ lst[l].open = FALSE
      BY <1>6 DEF NoListener
    <2>2. QED
      BY <1>4, <1>6, <2>1
  <1>7. QED
    BY <1>3, <1>5, <1>6 DEF OnlyCloses

LEMMA RegistryInsert ==
    ASSUME TypeOK, RegistryInv, NEW c \in Controls, Insert(c)
    PROVE  RegistryInv'
  <1> DEFINE n == req[c].l
  <1> USE DEF RegistryInv, OnlyCloses
  <1>1. /\ n \in Listeners /\ n <= made /\ lst[n].control = c /\ lst[n].open
        /\ lst[n].id = req[c].id /\ n \notin table \cup toStop /\ session[c] = "up"
    BY DEF Insert, RequestsOwn, RequestOwns
  <1>2. req'[c] = NoReq /\ \A d \in Controls : d # c => req'[d] = req[d]
    BY DEF Insert, TypeOK
  <1>3. TenantsCounted'
    BY DEF TenantsCounted, Up, Insert
  <1>4. \A d \in Controls : d # c /\ req[d].pc = "insert" => req[d].l # n
    BY <1>1 DEF RequestsOwn, RequestOwns
  <1>5. CASE lst' = Stopped(n) /\ UNCHANGED table
    <2>1. OnlyCloses(n)
      BY <1>1, <1>5, StoppedFields
    <2> HIDE DEF n
    <2>2. MadeInOrder'
      BY <1>5, <2>1 DEF Insert, MadeInOrder
    <2>3. RequestsOwn'
      BY <1>2, <1>4, <1>5, <2>1 DEF Insert, RequestsOwn, RequestOwns, NoReq
    <2>4. PortsBoundOnce' /\ ListenersUnique'
      BY <1>5, <2>1 DEF Insert, PortsBoundOnce, ListenersUnique, Token, TypeOK
    <2>5. SocketsOwned'
      <3>1. \A l \in table : lst'[l] = lst[l]
        BY <1>1, <2>1 DEF TypeOK
      <3>2. \A l \in Listeners : lst'[l].open => l # n /\ lst[l].open
        BY <2>1
      <3>3. ASSUME NEW l \in Listeners, lst'[l].open, l \notin table \cup toStop
            PROVE  \E d \in Controls : req'[d].l = l
        <4>1. PICK d \in Controls : req[d].l = l
          BY <3>2, <3>3 DEF SocketsOwned
        <4>2. QED
          BY <1>2, <3>2, <3>3, <4>1 DEF n
      <3>4. QED
        BY <1>5, <3>1, <3>3 DEF Insert, SocketsOwned
    <2>6. QED
      BY <1>3, <2>2, <2>3, <2>4, <2>5
  <1>6. CASE /\ table' = table \cup {n} /\ UNCHANGED lst
             /\ ~ \E l \in table : Token(l) = tokenOf[c] /\ lst[l].id = req[c].id
    <2>1. UNCHANGED <<tokenOf, session, made, toStop>>
      BY DEF Insert
    <2> HIDE DEF n
    <2>2. MadeInOrder'
      BY <1>1, <1>6, <2>1 DEF MadeInOrder
    <2>3. RequestsOwn'
      BY <1>2, <1>4, <1>6, <2>1 DEF RequestsOwn, RequestOwns, NoReq
    <2>4. PortsBoundOnce'
      BY <1>6 DEF PortsBoundOnce
    <2>5. ListenersUnique'
      <3>1. ASSUME NEW k \in table
            PROVE  k # n /\ lst[k].port # lst[n].port /\ ~(Token(k) = Token(n) /\ lst[k].id = lst[n].id)
        <4>1. k \in Listeners /\ lst[k].open /\ k # n
          BY <1>1, <3>1 DEF SocketsOwned, TypeOK
        <4>2. lst[k].port # lst[n].port
          BY <1>1, <4>1 DEF PortsBoundOnce
        <4>3. Token(n) = tokenOf[c]
          BY <1>1 DEF Token
        <4>4. QED
          BY <1>1, <1>6, <4>1, <4>2, <4>3
      <3>2. QED
        BY <1>6, <2>1, <3>1 DEF ListenersUnique, Token
    <2>6. SocketsOwned'
      <3>1. \A l \in table' : lst'[l].open /\ session'[lst'[l].control] = "up"
        BY <1>1, <1>6, <2>1 DEF SocketsOwned
      <3>2. ASSUME NEW l \in Listeners, lst'[l].open, l \notin table' \cup toStop'
            PROVE  \E d \in Controls : req'[d].l = l
        <4>1. l # n /\ l \notin table \cup toStop /\ lst[l].open
          BY <1>6, <2>1, <3>2
        <4>2. PICK d \in Controls : req[d].l = l
          BY <4>1 DEF SocketsOwned
        <4>3. QED
          BY <1>2, <4>1, <4>2 DEF n
      <3>3. QED
        BY <3>1, <3>2 DEF SocketsOwned
    <2>7. QED
      BY <1>3, <2>2, <2>3, <2>4, <2>5, <2>6
  <1>7. QED
    BY <1>5, <1>6 DEF Insert

LEMMA RegistryUnregister ==
    ASSUME TypeOK, RegistryInv, NEW c \in Controls, NEW n \in Listeners, Unregister(c, n)
    PROVE  RegistryInv'
  <1> USE DEF RegistryInv, Unregister
  <1>1. TenantsCounted' /\ PortsBoundOnce' /\ ListenersUnique'
    BY DEF TenantsCounted, Up, PortsBoundOnce, ListenersUnique, Token
  <1>2. MadeInOrder'
    BY DEF MadeInOrder
  <1>3. RequestsOwn'
    BY DEF RequestsOwn, RequestOwns
  <1>4. SocketsOwned'
    BY DEF SocketsOwned
  <1>5. QED
    BY <1>1, <1>2, <1>3, <1>4

LEMMA RegistryRemoveControl ==
    ASSUME TypeOK, RegistryInv, NEW c \in Controls, RemoveControl(c)
    PROVE  RegistryInv'
  <1> DEFINE mine == {l \in table : lst[l].control = c}
  <1> USE DEF RegistryInv
  <1>1. /\ table' = table \ mine /\ toStop' = toStop \cup mine
        /\ session' = [session EXCEPT ![c] = "gone"]
        /\ tenants' = [tenants EXCEPT ![tokenOf[c]] = @ - 1]
        /\ session[c] = "up" /\ req[c].pc = "read"
        /\ UNCHANGED <<tokenOf, req, made, lst>>
    BY DEF RemoveControl, Reading
  <1>2. TenantsCounted'
    <2> SUFFICES ASSUME NEW t \in Tokens
                 PROVE  IsFiniteSet(Up(t)') /\ tenants'[t] = Cardinality(Up(t)')
      BY DEF TenantsCounted
    <2>1. IsFiniteSet(Up(t)) /\ tenants[t] = Cardinality(Up(t))
      BY DEF TenantsCounted
    <2>2. CASE t # tokenOf[c]
      <3>1. Up(t)' = Up(t)
        BY <1>1, <2>2 DEF Up, TypeOK
      <3>2. tenants'[t] = tenants[t]
        BY <1>1, <2>2 DEF TypeOK
      <3>3. QED
        BY <2>1, <3>1, <3>2
    <2>3. CASE t = tokenOf[c]
      <3>1. Up(t)' = Up(t) \ {c} /\ c \in Up(t)
        BY <1>1, <2>3 DEF Up, TypeOK
      <3>2. tenants'[t] = tenants[t] - 1
        BY <1>1, <2>3 DEF TypeOK
      <3>3. QED
        BY <2>1, <3>1, <3>2, FS_RemoveElement
    <2>4. QED
      BY <2>2, <2>3
  <1>3. MadeInOrder'
    BY <1>1 DEF MadeInOrder
  <1>4. RequestsOwn'
    BY <1>1 DEF RequestsOwn, RequestOwns, TypeOK
  <1>5. PortsBoundOnce' /\ ListenersUnique'
    BY <1>1 DEF PortsBoundOnce, ListenersUnique, Token
  <1>6. SocketsOwned'
    <2>1. ASSUME NEW l \in table' PROVE lst'[l].open /\ session'[lst'[l].control] = "up"
      <3>1. l \in table /\ lst[l].control # c /\ lst[l].control \in Controls
        <4>1. l \in table /\ lst[l].control # c
          BY <1>1, <2>1
        <4>2. l \in Listeners /\ lst[l] # NoListener
          BY <4>1 DEF TypeOK, MadeInOrder, NoListener
        <4>3. QED
          BY <4>1, <4>2 DEF TypeOK, Listener
      <3>2. QED
        BY <1>1, <3>1 DEF SocketsOwned, TypeOK
    <2>2. QED
      BY <1>1, <2>1 DEF SocketsOwned
  <1>7. QED
    BY <1>2, <1>3, <1>4, <1>5, <1>6

LEMMA RegistryStopListener ==
    ASSUME TypeOK, RegistryInv, NEW n \in Listeners, StopListener(n)
    PROVE  RegistryInv'
  <1> USE DEF RegistryInv, OnlyCloses
  <1>1. UNCHANGED <<tokenOf, session, req, tenants, made, table>> /\ toStop' = toStop \ {n}
    BY DEF StopListener
  <1>2. n \in toStop /\ n \notin table /\ \A d \in Controls : req[d].pc = "insert" => req[d].l # n
    BY DEF StopListener, MadeInOrder, RequestsOwn, RequestOwns
  <1>3. OnlyCloses(n)
    BY StoppedFields DEF StopListener
  <1>4. TenantsCounted'
    BY <1>1 DEF TenantsCounted, Up
  <1>5. MadeInOrder'
    BY <1>1, <1>3 DEF MadeInOrder
  <1>6. RequestsOwn'
    BY <1>1, <1>2, <1>3 DEF RequestsOwn, RequestOwns
  <1>7. PortsBoundOnce' /\ ListenersUnique'
    BY <1>1, <1>3 DEF PortsBoundOnce, ListenersUnique, Token, TypeOK
  <1>8. SocketsOwned'
    BY <1>1, <1>2, <1>3 DEF SocketsOwned, TypeOK
  <1>9. QED
    BY <1>4, <1>5, <1>6, <1>7, <1>8

-----------------------------------------------------------------------------
(* The streams.                                                             *)

LEMMA StreamInit == Init => StreamInv
  <1> SUFFICES ASSUME Init PROVE StreamInv
    OBVIOUS
  <1>1. IdsInOrder
    BY DEF Init, IdsInOrder, NoConn
  <1>2. LoopsHold /\ HeldOnce
    BY DEF Init, LoopsHold, LoopHolds, HeldOnce, NoListener
  <1>3. HandlersTold
    BY DEF Init, HandlersTold
  <1>4. NoConnLeak
    BY DEF Init, NoConnLeak, NoConn
  <1>5. ServedOnce
    BY DEF Init, ServedOnce, Takers
  <1>6. QED
    BY <1>1, <1>2, <1>3, <1>4, <1>5 DEF StreamInv

(* A listener that is made or closed changes nothing for the streams.       *)
LEMMA SameStreams ==
    ASSUME StreamInv, UNCHANGED <<pending, conn, accepted, toClose, told, handler>>,
           \A l \in Listeners :
             /\ lst'[l].s = lst[l].s
             /\ lst'[l].acc = lst[l].acc \/ (lst[l].acc = "none" /\ lst'[l].acc = "accept")
    PROVE  StreamInv'
  <1> USE DEF StreamInv
  <1>1. IdsInOrder' /\ HandlersTold'
    BY DEF IdsInOrder, HandlersTold
  <1>2. LoopsHold' /\ HeldOnce'
    BY DEF LoopsHold, LoopHolds, HeldOnce
  <1>3. NoConnLeak' /\ ServedOnce'
    BY DEF NoConnLeak, ServedOnce, Held, Takers
  <1>4. QED
    BY <1>1, <1>2, <1>3

LEMMA StreamsRegistry ==
    ASSUME TypeOK, RegistryInv, StreamInv, NEW c \in Controls,
           OpenControl(c) \/ ControlCut(c) \/ Listen(c) \/ Insert(c)
             \/ (\E id \in Ids, port \in Ports : Register(c, id, port))
             \/ (\E l \in Listeners : Unregister(c, l) \/ StopListener(l))
    PROVE  StreamInv'
  <1>1. CASE UNCHANGED <<lst, streams>>
    BY <1>1, SameStreams DEF streams
  <1>2. ASSUME NEW n \in Listeners, lst' = Stopped(n), UNCHANGED streams PROVE StreamInv'
    BY <1>2, SameStreams, StoppedFields DEF OnlyCloses, streams
  <1>3. CASE Listen(c)
    <2>1. CASE UNCHANGED lst
      BY <1>1, <1>3, <2>1 DEF Listen
    <2>2. CASE made < MaxListeners /\ lst' = [lst EXCEPT ![made + 1] =
                  [control |-> c, id |-> req[c].id, port |-> req[c].port,
                   open |-> TRUE, acc |-> "accept", s |-> 0]]
      <3>1. made + 1 \in Listeners /\ lst[made + 1] = NoListener
        BY <2>2, GatewayAssumption DEF TypeOK, Listeners, RegistryInv, MadeInOrder
      <3>2. lst[made + 1].s = 0 /\ lst[made + 1].acc = "none"
        BY <3>1 DEF NoListener
      <3>3. QED
        BY <1>3, <2>2, <3>1, <3>2, SameStreams DEF Listen, TypeOK, streams
    <2>3. QED
      BY <1>3, <2>1, <2>2 DEF Listen
  <1>4. CASE Insert(c)
    <2>1. req[c].l \in Listeners
      BY <1>4 DEF Insert, RegistryInv, RequestsOwn, RequestOwns
    <2>2. QED
      BY <1>1, <1>2, <1>4, <2>1 DEF Insert
  <1>5. QED
    BY <1>1, <1>2, <1>3, <1>4 DEF OpenControl, ControlCut, Register, Unregister, StopListener

LEMMA StreamsRemoveControl ==
    ASSUME TypeOK, StreamInv, NEW c \in Controls, RemoveControl(c)
    PROVE  StreamInv'
  <1> USE DEF StreamInv
  <1>1. PICK last \in SUBSET pending : pending' = pending \ last /\ toClose' = toClose \cup last
    BY DEF RemoveControl
  <1>2. UNCHANGED <<lst, conn, accepted, told, handler>>
    BY DEF RemoveControl
  <1>3. IdsInOrder'
    BY <1>1, <1>2 DEF IdsInOrder
  <1>4. LoopsHold' /\ HeldOnce' /\ HandlersTold'
    BY <1>1, <1>2 DEF LoopsHold, LoopHolds, HeldOnce, HandlersTold
  <1>5. NoConnLeak' /\ ServedOnce'
    BY <1>1, <1>2 DEF NoConnLeak, ServedOnce, Held, Takers
  <1>6. QED
    BY <1>3, <1>4, <1>5

(* Closing a connection clears open and keeps the tenant.                   *)
ClosesOnly(s) ==
    /\ ~conn'[s].open
    /\ \A r \in Streams : /\ conn'[r].token = conn[r].token
                          /\ conn'[r].open => conn[r].open
                          /\ r # s => conn'[r] = conn[r]

LEMMA CloseConnFields ==
    ASSUME TypeOK, NEW s \in Streams, conn' = CloseConn(s)
    PROVE  ClosesOnly(s)
  <1>1. conn[s] \in {NoConn} \cup Conn /\ conn'[s] = [conn[s] EXCEPT !.open = FALSE]
    BY DEF TypeOK, CloseConn
  <1>2. ~conn'[s].open /\ conn'[s].token = conn[s].token
    BY <1>1 DEF NoConn, Conn
  <1>3. \A r \in Streams : r # s => conn'[r] = conn[r]
    BY DEF TypeOK, CloseConn
  <1>4. QED
    BY <1>2, <1>3 DEF ClosesOnly

LEMMA StreamsAccept ==
    ASSUME TypeOK, StreamInv, NEW l \in Listeners, Accept(l)
    PROVE  StreamInv'
  <1> DEFINE n == accepted + 1
  <1> USE DEF StreamInv
  <1>1. n \in Streams /\ n \in Nat /\ n # 0 /\ accepted \in Nat /\ accepted' = n
    BY GatewayAssumption DEF Accept, TypeOK, Streams
  <1>2. UNCHANGED <<pending, toClose, told, handler>>
    BY DEF Accept
  <1>3. n \notin pending \cup toClose \cup told
    BY <1>1 DEF IdsInOrder
  <1>4. lst'[l].acc = "offer" /\ lst'[l].s = n /\ \A k \in Listeners : k # l => lst'[k] = lst[k]
    BY DEF Accept, TypeOK, NoListener, Listener
  <1>5. conn'[n].open /\ \A s \in Streams : s # n => conn'[s] = conn[s]
    BY <1>1 DEF Accept, TypeOK
  <1>6. lst[l].s = 0 /\ \A k \in Listeners : lst[k].s # n /\ (lst[k].s # 0 => lst[k].s \in 1..accepted)
    <2>1. \A k \in Listeners : lst[k].acc \in {"none", "accept", "offer", "notify", "done"}
      BY DEF TypeOK, NoListener, Listener
    <2>2. QED
      BY <1>1, <2>1 DEF Accept, LoopsHold, LoopHolds
  <1> HIDE DEF n
  <1>7. IdsInOrder'
    <2>1. \A s \in Streams : s > n => s > accepted /\ s # n
      BY <1>1 DEF n, Streams
    <2>2. \A s \in pending \cup toClose \cup told : s <= n
      BY <1>1 DEF IdsInOrder, n, TypeOK, Streams
    <2>3. QED
      BY <1>1, <1>2, <1>5, <2>1, <2>2 DEF IdsInOrder
  <1>8. LoopsHold'
    <2>1. LoopHolds(l)'
      <3>1. n \in 1..n
        BY <1>1
      <3>2. QED
        BY <1>1, <1>2, <1>3, <1>4, <3>1 DEF LoopHolds
    <2>2. ASSUME NEW k \in Listeners, k # l PROVE LoopHolds(k)'
      <3>1. lst[k].s # 0 => lst[k].s \in 1..n /\ lst[k].s \in Streams /\ lst[k].s # n
        BY <1>1, <1>6, GatewayAssumption DEF n, Streams
      <3>2. lst'[k] = lst[k] /\ LoopHolds(k)
        BY <1>4, <2>2 DEF LoopsHold
      <3>3. lst[k].acc \in {"offer", "notify"} => lst[k].s # 0
        BY <1>1, <3>2 DEF LoopHolds
      <3>4. lst[k].acc = "notify" => conn'[lst[k].s] = conn[lst[k].s]
        BY <1>5, <3>1, <3>3
      <3>5. QED
        BY <1>1, <1>2, <3>1, <3>2, <3>3, <3>4 DEF LoopHolds
    <2>3. QED
      BY <2>1, <2>2 DEF LoopsHold
  <1>9. HeldOnce'
    BY <1>4, <1>6 DEF HeldOnce
  <1>10. HandlersTold'
    BY <1>2 DEF HandlersTold
  <1>11. NoConnLeak'
    <2>1. ASSUME NEW s \in Streams, conn'[s].open
          PROVE  (s \in pending \cup toClose \/ Held(s) \/ Takers(s) # {})'
      <3>1. CASE s = n
        BY <1>4, <3>1 DEF Held
      <3>2. CASE s # n
        <4>1. s \in pending \cup toClose \/ Held(s) \/ Takers(s) # {}
          BY <1>5, <2>1, <3>2 DEF NoConnLeak
        <4>2. Held(s) => Held(s)'
          BY <1>4, <1>6, <2>1 DEF Held, Streams
        <4>3. Takers(s)' = Takers(s)
          BY <1>2 DEF Takers
        <4>4. QED
          BY <1>2, <4>1, <4>2, <4>3
      <3>3. QED
        BY <3>1, <3>2
    <2>2. QED
      BY <2>1 DEF NoConnLeak
  <1>12. ServedOnce'
    <2>1. Takers(n) = {}
      BY <1>1, <1>3 DEF Takers, HandlersTold
    <2>2. \A s \in Streams : Takers(s)' = Takers(s)
      BY <1>2 DEF Takers
    <2>3. QED
      BY <1>2, <1>5, <2>1, <2>2 DEF ServedOnce
  <1>13. QED
    BY <1>7, <1>8, <1>9, <1>10, <1>11, <1>12

(* A step of an accept loop that keeps every connection and what is pending: *)
(* it may only let go of a stream.                                          *)
LEMMA StreamsAcceptEnds ==
    ASSUME TypeOK, StreamInv, NEW l \in Listeners, AcceptEnds(l)
    PROVE  StreamInv'
  <1> USE DEF StreamInv
  <1>1. UNCHANGED <<pending, conn, accepted, toClose, told, handler>>
    BY DEF AcceptEnds, streams
  <1>2. lst[l].acc = "accept" /\ lst'[l].acc = "done" /\ lst'[l].s = lst[l].s
    BY DEF AcceptEnds, TypeOK, NoListener, Listener
  <1>3. \A k \in Listeners : lst'[k].s = lst[k].s /\ (k # l => lst'[k] = lst[k])
    BY <1>2 DEF AcceptEnds, TypeOK
  <1>4. LoopsHold' /\ HeldOnce'
    BY <1>1, <1>2, <1>3 DEF LoopsHold, LoopHolds, HeldOnce
  <1>5. IdsInOrder' /\ HandlersTold' /\ ServedOnce'
    BY <1>1 DEF IdsInOrder, HandlersTold, ServedOnce, Takers
  <1>6. NoConnLeak'
    BY <1>1, <1>3 DEF NoConnLeak, Held, Takers
  <1>7. QED
    BY <1>4, <1>5, <1>6

(* A stream in the hands of an accept loop has no handler.                  *)
LEMMA HeldUntaken ==
    ASSUME TypeOK, StreamInv, NEW l \in Listeners, lst[l].acc \in {"offer", "notify"}
    PROVE  /\ lst[l].s \in Streams /\ lst[l].s <= accepted /\ Takers(lst[l].s) = {}
           /\ \A k \in Listeners : k # l => lst[k].s # lst[l].s
  <1>1. lst[l].s \in 1..accepted /\ lst[l].s \notin told
    BY DEF StreamInv, LoopsHold, LoopHolds
  <1>2. lst[l].s \in Streams /\ lst[l].s <= accepted /\ lst[l].s # 0
    BY <1>1, GatewayAssumption DEF TypeOK, Streams
  <1>3. QED
    BY <1>1, <1>2 DEF StreamInv, HandlersTold, Takers, HeldOnce

LEMMA StreamsOffer ==
    ASSUME TypeOK, StreamInv, NEW l \in Listeners, Offer(l)
    PROVE  StreamInv'
  <1> DEFINE n == lst[l].s
  <1> USE DEF StreamInv
  <1>1. /\ pending' = pending \cup {n} /\ lst[l].acc = "offer"
        /\ UNCHANGED <<conn, accepted, toClose, told, handler>>
    BY DEF Offer
  <1>2. n \in Streams /\ n <= accepted /\ Takers(n) = {}
    BY <1>1, HeldUntaken
  <1>3. n \notin pending \cup toClose \cup told /\ \A k \in Listeners : k # l => lst[k].s # n
    BY <1>1, HeldUntaken DEF LoopsHold, LoopHolds
  <1>4. lst'[l].acc = "notify" /\ lst'[l].s = n
    BY DEF Offer, TypeOK, NoListener, Listener
  <1>5. \A k \in Listeners : lst'[k].s = lst[k].s /\ (k # l => lst'[k] = lst[k])
    BY <1>4 DEF Offer, TypeOK
  <1>6. lst[l].s = n /\ n \in 1..accepted
    BY <1>1 DEF LoopsHold, LoopHolds
  <1> HIDE DEF n
  <1>7. IdsInOrder' /\ HandlersTold'
    BY <1>1, <1>2, <1>3 DEF IdsInOrder, HandlersTold
  <1>8. LoopsHold' /\ HeldOnce'
    BY <1>1, <1>3, <1>4, <1>5, <1>6 DEF LoopsHold, LoopHolds, HeldOnce
  <1>9. NoConnLeak'
    BY <1>1, <1>5 DEF NoConnLeak, Held, Takers
  <1>10. ServedOnce'
    BY <1>1, <1>2 DEF ServedOnce, Takers
  <1>11. QED
    BY <1>7, <1>8, <1>9, <1>10

LEMMA StreamsNotify ==
    ASSUME TypeOK, StreamInv, NEW l \in Listeners, Notify(l)
    PROVE  StreamInv'
  <1> DEFINE n == lst[l].s
  <1> USE DEF StreamInv, ClosesOnly
  <1>1. lst[l].acc = "notify" /\ UNCHANGED <<accepted, toClose, handler>>
    BY DEF Notify
  <1>2. /\ n \in Streams /\ n <= accepted /\ Takers(n) = {}
        /\ \A k \in Listeners : k # l => lst[k].s # n
    BY <1>1, HeldUntaken
  <1>3. conn[n].open => n \in pending \cup toClose
    BY <1>1 DEF LoopsHold, LoopHolds
  <1>4. lst'[l].acc \in {"accept", "done"} /\ lst'[l].s = 0
    BY DEF Notify, TypeOK, NoListener, Listener
  <1>5. \A k \in Listeners : k # l => lst'[k] = lst[k]
    BY DEF Notify, TypeOK
  <1>6. \A s \in Streams : s # n /\ Held(s) => Held(s)'
    BY <1>5 DEF Held
  <1>7. HeldOnce'
    BY <1>4, <1>5 DEF HeldOnce
  <1>8. \A s \in Streams : Takers(s)' = Takers(s)
    BY <1>1 DEF Takers
  <1>9. CASE told' = told \cup {n} /\ UNCHANGED <<pending, conn>>
    <2> HIDE DEF n
    <2>1. IdsInOrder' /\ HandlersTold'
      BY <1>1, <1>2, <1>9 DEF IdsInOrder, HandlersTold
    <2>2. LoopsHold'
      BY <1>1, <1>2, <1>4, <1>5, <1>9 DEF LoopsHold, LoopHolds
    <2>3. NoConnLeak'
      BY <1>1, <1>3, <1>6, <1>8, <1>9 DEF NoConnLeak
    <2>4. ServedOnce'
      BY <1>1, <1>8, <1>9 DEF ServedOnce
    <2>5. QED
      BY <1>7, <2>1, <2>2, <2>3, <2>4
  <1>10. CASE pending' = pending \ {n} /\ conn' = CloseConn(n) /\ UNCHANGED told
    <2>1. ClosesOnly(n)
      BY <1>2, <1>10, CloseConnFields
    <2>2. \A k \in Listeners : lst[k].acc \in {"offer", "notify"} => lst[k].s \in Streams
      BY HeldUntaken
    <2> HIDE DEF n
    <2>3. IdsInOrder' /\ HandlersTold'
      BY <1>1, <1>10, <2>1 DEF IdsInOrder, HandlersTold
    <2>4. LoopsHold'
      BY <1>1, <1>2, <1>4, <1>5, <1>10, <2>1, <2>2 DEF LoopsHold, LoopHolds
    <2>5. NoConnLeak'
      BY <1>1, <1>6, <1>8, <1>10, <2>1 DEF NoConnLeak
    <2>6. ServedOnce'
      BY <1>1, <1>8, <1>10, <2>1 DEF ServedOnce
    <2>7. QED
      BY <1>7, <2>3, <2>4, <2>5, <2>6
  <1>11. QED
    BY <1>9, <1>10 DEF Notify

(* The timer of offerPending, or removeControl, closes a stream it holds.   *)
LEMMA StreamsClosed ==
    ASSUME TypeOK, StreamInv, NEW n \in Streams, ClosePending(n) \/ AcceptTimeout(n)
    PROVE  StreamInv'
  <1> USE DEF StreamInv, ClosesOnly
  <1>1. /\ UNCHANGED <<lst, accepted, told, handler>>
        /\ pending' \subseteq pending /\ toClose' \subseteq toClose
        /\ \A s \in Streams : s # n => (s \in pending' <=> s \in pending) /\ (s \in toClose' <=> s \in toClose)
    BY DEF ClosePending, AcceptTimeout
  <1>2. ClosesOnly(n)
    BY CloseConnFields DEF ClosePending, AcceptTimeout
  <1>3. \A k \in Listeners : lst[k].acc \in {"offer", "notify"} => lst[k].s \in Streams
    BY HeldUntaken
  <1>4. IdsInOrder' /\ HandlersTold' /\ HeldOnce'
    BY <1>1, <1>2 DEF IdsInOrder, HandlersTold, HeldOnce
  <1>5. LoopsHold'
    BY <1>1, <1>2, <1>3 DEF LoopsHold, LoopHolds
  <1>6. NoConnLeak'
    BY <1>1, <1>2 DEF NoConnLeak, Held, Takers
  <1>7. ServedOnce'
    BY <1>1, <1>2 DEF ServedOnce, Takers
  <1>8. QED
    BY <1>4, <1>5, <1>6, <1>7

(* The handlers of a stream the desktop was told of.                        *)
LEMMA StreamsHandler ==
    ASSUME TypeOK, StreamInv, NEW t \in Tokens, NEW n \in Streams,
           CheckTenant(t, n) \/ HandlerStep(t, n) \/ ServeEnds(t, n)
    PROVE  StreamInv'
  <1> USE DEF StreamInv, ClosesOnly
  <1>1. /\ UNCHANGED <<lst, accepted, told, toClose>>
        /\ \E v \in {"none", "checked", "took", "serving"} : handler' = [handler EXCEPT ![<<t, n>>] = v]
    BY DEF CheckTenant, HandlerStep, TakePendingFor, Serve, ServeEnds, registry
  <1>2. \A u \in Tokens, s \in Streams : u # t \/ s # n => handler'[<<u, s>>] = handler[<<u, s>>]
    BY <1>1 DEF TypeOK
  <1>3. \A s \in Streams : s # n => Takers(s)' = Takers(s)
    BY <1>2 DEF Takers
  <1>4. n \in told
    BY DEF CheckTenant, HandlerStep, TakePendingFor, Serve, ServeEnds, HandlersTold
  <1>5. HandlersTold' /\ HeldOnce'
    BY <1>1, <1>2, <1>4 DEF HandlersTold, HeldOnce
  <1>6. \A k \in Listeners : lst[k].acc \in {"offer", "notify"} => lst[k].s \in Streams /\ lst[k].s # n
    BY <1>4, HeldUntaken DEF LoopsHold, LoopHolds
  <1>7. CASE CheckTenant(t, n)
    <2>1. Takers(n)' = Takers(n) /\ UNCHANGED <<pending, conn>>
      BY <1>2, <1>7 DEF CheckTenant, Takers, TypeOK
    <2>2. IdsInOrder' /\ LoopsHold'
      BY <1>1, <2>1 DEF IdsInOrder, LoopsHold, LoopHolds
    <2>3. NoConnLeak' /\ ServedOnce'
      BY <1>1, <1>3, <2>1 DEF NoConnLeak, ServedOnce, Held
    <2>4. QED
      BY <1>5, <2>2, <2>3
  <1>8. CASE TakePendingFor(t, n)
    <2>1. handler[<<t, n>>] = "checked" /\ UNCHANGED conn
      BY <1>8 DEF TakePendingFor
    <2>2. CASE /\ n \in pending /\ conn[n].token = t /\ pending' = pending \ {n}
               /\ handler' = [handler EXCEPT ![<<t, n>>] = "took"]
      <3>1. Takers(n) = {} /\ n \notin toClose
        BY <2>2 DEF ServedOnce, IdsInOrder
      <3>2. handler'[<<t, n>>] = "took"
        BY <2>2 DEF TypeOK
      <3>3. Takers(n)' = {t}
        BY <1>2, <3>1, <3>2 DEF Takers
      <3>4. IdsInOrder' /\ LoopsHold'
        BY <1>1, <1>6, <2>1, <2>2 DEF IdsInOrder, LoopsHold, LoopHolds
      <3>5. NoConnLeak'
        BY <1>1, <1>3, <2>1, <2>2, <3>3 DEF NoConnLeak, Held
      <3>6. ServedOnce'
        BY <1>1, <1>3, <2>1, <2>2, <3>1, <3>3 DEF ServedOnce
      <3>7. QED
        BY <1>5, <3>4, <3>5, <3>6
    <2>3. CASE handler' = [handler EXCEPT ![<<t, n>>] = "none"] /\ UNCHANGED pending
      <3>1. Takers(n)' = Takers(n)
        <4>1. handler'[<<t, n>>] = "none"
          BY <2>3 DEF TypeOK
        <4>2. QED
          BY <1>2, <2>1, <4>1 DEF Takers
      <3>2. IdsInOrder' /\ LoopsHold'
        BY <1>1, <2>1, <2>3 DEF IdsInOrder, LoopsHold, LoopHolds
      <3>3. NoConnLeak' /\ ServedOnce'
        BY <1>1, <1>3, <2>1, <2>3, <3>1 DEF NoConnLeak, ServedOnce, Held
      <3>4. QED
        BY <1>5, <3>2, <3>3
    <2>4. QED
      BY <1>8, <2>2, <2>3 DEF TakePendingFor
  <1>9. CASE Serve(t, n) \/ ServeEnds(t, n)
    <2>1. /\ handler[<<t, n>>] \in {"took", "serving"} /\ UNCHANGED pending
          /\ \/ conn' = CloseConn(n) /\ handler' = [handler EXCEPT ![<<t, n>>] = "none"]
             \/ UNCHANGED conn /\ handler' = [handler EXCEPT ![<<t, n>>] = "serving"]
      BY <1>9 DEF Serve, ServeEnds
    <2>2. Takers(n) = {conn[n].token} /\ t = conn[n].token
      BY <2>1 DEF ServedOnce, Takers
    <2>3. CASE conn' = CloseConn(n) /\ handler' = [handler EXCEPT ![<<t, n>>] = "none"]
      <3>1. ClosesOnly(n)
        BY <2>3, CloseConnFields
      <3>2. Takers(n)' \subseteq Takers(n)
        BY <1>2, <2>3 DEF Takers, TypeOK
      <3>3. IdsInOrder' /\ LoopsHold'
        BY <1>1, <1>6, <2>1, <3>1 DEF IdsInOrder, LoopsHold, LoopHolds
      <3>4. NoConnLeak'
        BY <1>1, <1>3, <2>1, <3>1 DEF NoConnLeak, Held
      <3>5. ServedOnce'
        BY <1>1, <1>3, <2>1, <3>1, <3>2 DEF ServedOnce
      <3>6. QED
        BY <1>5, <3>3, <3>4, <3>5
    <2>4. CASE UNCHANGED conn /\ handler' = [handler EXCEPT ![<<t, n>>] = "serving"]
      <3>1. Takers(n)' = Takers(n)
        BY <1>2, <2>1, <2>4 DEF Takers, TypeOK
      <3>2. IdsInOrder' /\ LoopsHold'
        BY <1>1, <2>1, <2>4 DEF IdsInOrder, LoopsHold, LoopHolds
      <3>3. NoConnLeak' /\ ServedOnce'
        BY <1>1, <1>3, <2>1, <2>4, <3>1 DEF NoConnLeak, ServedOnce, Held
      <3>4. QED
        BY <1>5, <3>2, <3>3
    <2>5. QED
      BY <2>1, <2>3, <2>4
  <1>10. QED
    BY <1>7, <1>8, <1>9 DEF HandlerStep

-----------------------------------------------------------------------------
LEMMA Steps ==
    ASSUME IInv, [Next]_vars
    PROVE  IInv'
  <1> USE DEF IInv
  <1>1. TenantsCounted /\ RequestsOwn /\ LoopsHold
    BY DEF RegistryInv, StreamInv
  <1>2. ASSUME NEW c \in Controls,
               OpenControl(c) \/ ControlCut(c) \/ ControlStep(c)
                 \/ (\E id \in Ids, port \in Ports : Register(c, id, port))
                 \/ (\E l \in Listeners : Unregister(c, l))
        PROVE  IInv'
    <2>1. TypeOK'
      BY <1>1, <1>2, TypeControl, TypeListen, TypeInsert DEF ControlStep
    <2>2. RegistryInv'
      BY <1>2, RegistryOpen, RegistryCut, RegistryRegister, RegistryListen, RegistryInsert,
         RegistryUnregister, RegistryRemoveControl DEF ControlStep
    <2>3. StreamInv'
      BY <1>2, StreamsRegistry, StreamsRemoveControl DEF ControlStep
    <2>4. QED
      BY <2>1, <2>2, <2>3
  <1>3. ASSUME NEW l \in Listeners, StopListener(l) PROVE IInv'
    <2>1. StreamInv'
      BY <1>3, SameStreams, StoppedFields DEF StopListener, OnlyCloses, streams
    <2>2. QED
      BY <1>3, <2>1, TypeStopListener, RegistryStopListener
  <1>4. ASSUME NEW l \in Listeners, AcceptStep(l) PROVE IInv'
    <2>1. TypeOK'
      BY <1>1, <1>4, TypeAcceptStep
    <2>2. \A k \in Listeners :
             /\ lst[k] = NoListener => lst'[k] = NoListener
             /\ lst[k].acc # "none" => lst'[k].acc # "none"
             /\ lst'[k].control = lst[k].control /\ lst'[k].id = lst[k].id
             /\ lst'[k].port = lst[k].port /\ lst'[k].open = lst[k].open
      <3>1. \A k \in Listeners : k # l => lst'[k] = lst[k]
        BY <1>4 DEF AcceptStep, Accept, AcceptEnds, Offer, Notify, TypeOK
      <3>2. lst[l] \in Listener
        BY <1>4 DEF AcceptStep, Accept, AcceptEnds, Offer, Notify, TypeOK, NoListener
      <3>3. lst[l] # NoListener /\ lst'[l].acc # "none"
            /\ lst'[l].control = lst[l].control /\ lst'[l].id = lst[l].id
            /\ lst'[l].port = lst[l].port /\ lst'[l].open = lst[l].open
        BY <1>4, <3>2 DEF AcceptStep, Accept, AcceptEnds, Offer, Notify, TypeOK, NoListener, Listener
      <3>4. QED
        BY <3>1, <3>3
    <2>3. RegistryInv'
      BY <1>4, <2>2, SameRegistry DEF AcceptStep, Accept, AcceptEnds, Offer, Notify, registry
    <2>4. StreamInv'
      BY <1>4, StreamsAccept, StreamsAcceptEnds, StreamsOffer, StreamsNotify DEF AcceptStep
    <2>5. QED
      BY <2>1, <2>3, <2>4
  <1>5. ASSUME NEW s \in Streams,
               ClosePending(s) \/ AcceptTimeout(s)
                 \/ \E t \in Tokens : CheckTenant(t, s) \/ HandlerStep(t, s) \/ ServeEnds(t, s)
        PROVE  IInv'
    <2>1. TypeOK'
      BY <1>5, TypeStream
    <2>2. UNCHANGED <<tokenOf, session, cut, req, tenants, made, table, toStop>> /\ UNCHANGED lst
      BY <1>5 DEF ClosePending, AcceptTimeout, CheckTenant, HandlerStep, TakePendingFor, Serve,
         ServeEnds, registry
    <2>3. RegistryInv'
      BY <2>2, SameRegistry
    <2>4. StreamInv'
      BY <1>5, StreamsClosed, StreamsHandler
    <2>5. QED
      BY <2>1, <2>3, <2>4
  <1>6. CASE UNCHANGED vars
    <2>1. TypeOK'
      BY <1>6 DEF TypeOK, vars, registry, streams
    <2>2. RegistryInv'
      BY <1>6, SameRegistry DEF vars, registry
    <2>3. StreamInv'
      BY <1>6, SameStreams DEF vars, streams
    <2>4. QED
      BY <2>1, <2>2, <2>3
  <1>7. QED
    BY <1>2, <1>3, <1>4, <1>5, <1>6 DEF Next

(* The pending map, its timer, the end of a tenant, a failed notification   *)
(* and the handlers of handleAccept race for an accepted connection, and    *)
(* two controls for an id or a port: whatever wins, each connection and     *)
(* each listening socket of the Gateway is in exactly one hand, for any     *)
(* number of controls, tenants, ids, ports, listeners and streams.          *)
THEOREM EverythingInOneHand == Spec => []OneHand
  <1>1. Init => IInv
    BY TypeInit, RegistryInit, StreamInit DEF IInv
  <1>2. IInv /\ [Next]_vars => IInv'
    BY Steps
  <1>3. IInv => OneHand
    BY DEF IInv, RegistryInv, StreamInv, OneHand
  <1>4. QED
    BY <1>1, <1>2, <1>3, PTL DEF Spec
=============================================================================
