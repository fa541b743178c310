------------------------------ MODULE RoutedUdp ------------------------------
(***************************************************************************)
(* A routed UDP forward (src/internal/portfwd/routed_udp.go): one serve    *)
(* goroutine reads the datagrams of all clients and keeps one upstream per *)
(* client, each upstream has a goroutine that reads its replies, and Close *)
(* ends them all.  Behind an upstream are the SOCKS association            *)
(* (src/internal/traffic/socks.go), the bridge's framed connection and the *)
(* gateway's relayUDP (src/internal/gateway/server.go): its tail.          *)
(***************************************************************************)
EXTENDS Naturals

CONSTANTS
    Clients,
    MaxUpstreams   \* bound: upstreams ever dialled

Upstreams == 1..MaxUpstreams
Nobody == "nobody"
NoUpstream == [state |-> "none", client |-> Nobody, reader |-> "none", tail |-> "none"]

VARIABLES
    ups,          \* the upstreams: udpConn, readReplies, and the tail
    associations, \* routedUDPForwarder.associations, 0 where there is none
    serve,        \* the serve goroutine: step, client, upstream in hand
    fwdr,         \* the forwarder: open, or a step of its Close
    items         \* upstreams Close has taken from the map

vars == <<ups, associations, serve, fwdr, items>>

TypeOK ==
    /\ ups \in [Upstreams -> [state : {"none", "open", "closed"}, client : Clients \cup {Nobody},
                              reader : {"none", "read", "remove", "close", "ended"},
                              tail : {"none", "open", "ended"}]]
    /\ associations \in [Clients -> 0..MaxUpstreams] /\ items \subseteq Upstreams
    /\ serve.pc \in {"read", "dial", "publish", "write", "remove", "close", "ended"}
    /\ fwdr \in {"open", "cancelled", "unbound", "taken", "closed"}

Rest == [pc |-> "read", client |-> Nobody, up |-> 0]

Init ==
    /\ ups = [u \in Upstreams |-> NoUpstream]
    /\ associations = [c \in Clients |-> 0]
    /\ serve = Rest /\ fwdr = "open" /\ items = {}

-----------------------------------------------------------------------------
SocketOpen == fwdr \in {"open", "cancelled"}
Shut(U) == ups' = [u \in Upstreams |-> IF u \in U THEN [ups[u] EXCEPT !.state = "closed"] ELSE ups[u]]

(* A datagram arrives: the client's upstream, or a new one.                *)
Receive(c) ==
    /\ serve.pc = "read" /\ SocketOpen
    /\ serve' = IF associations[c] # 0 THEN [pc |-> "write", client |-> c, up |-> associations[c]]
                ELSE [pc |-> "dial", client |-> c, up |-> 0]
    /\ UNCHANGED <<ups, associations, fwdr, items>>

ServeEnds ==
    /\ serve.pc = "read" /\ ~SocketOpen /\ serve' = [Rest EXCEPT !.pc = "ended"]
    /\ UNCHANGED <<ups, associations, fwdr, items>>

(* dialUDP, without the lock.  Every failure closes what it has opened.    *)
Dial ==
    /\ serve.pc = "dial"
    /\ \E u \in Upstreams :
         /\ ups[u].state = "none" /\ \A v \in 1..(u - 1) : ups[v].state # "none"
         /\ ups' = [ups EXCEPT ![u] = [NoUpstream EXCEPT !.state = "open", !.client = serve.client,
                                                         !.tail = "open"]]
         /\ serve' = [serve EXCEPT !.pc = "publish", !.up = u]
    /\ UNCHANGED <<associations, fwdr, items>>

DialFails ==
    /\ serve.pc = "dial" /\ serve' = Rest
    /\ UNCHANGED <<ups, associations, fwdr, items>>

PublishUnchecked ==  \* mutant: the cancellation is not looked at again
    /\ serve.pc = "publish"
    /\ associations' = [associations EXCEPT ![serve.client] = serve.up]
    /\ ups' = [ups EXCEPT ![serve.up].reader = "read"]
    /\ serve' = [serve EXCEPT !.pc = "write"]
    /\ UNCHANGED <<fwdr, items>>

(* association, under the lock again: refused after the cancellation.      *)
Publish ==
    /\ serve.pc = "publish"
    /\ IF fwdr # "open"
       THEN Shut({serve.up}) /\ serve' = Rest /\ UNCHANGED associations
       ELSE /\ associations' = [associations EXCEPT ![serve.client] = serve.up]
            /\ ups' = [ups EXCEPT ![serve.up].reader = "read"]
            /\ serve' = [serve EXCEPT !.pc = "write"]
    /\ UNCHANGED <<fwdr, items>>

(* A write to a closed upstream fails, and one to a dead tail may.         *)
Write ==
    /\ serve.pc = "write"
    /\ \/ ups[serve.up].state = "open" /\ serve' = Rest
       \/ /\ ups[serve.up].state = "closed" \/ ups[serve.up].tail = "ended"
          /\ serve' = [serve EXCEPT !.pc = "remove"]
    /\ UNCHANGED <<ups, associations, fwdr, items>>

(* removeAssociation: the entry goes if it is still this upstream's.       *)
Without(u) ==
    associations' = [associations EXCEPT ![ups[u].client] = IF @ = u THEN 0 ELSE @]

ServeRemove ==
    /\ serve.pc = "remove" /\ Without(serve.up)
    /\ serve' = [serve EXCEPT !.pc = "close"] /\ UNCHANGED <<ups, fwdr, items>>

ServeClose ==
    /\ serve.pc = "close" /\ Shut({serve.up}) /\ serve' = Rest
    /\ UNCHANGED <<associations, fwdr, items>>

-----------------------------------------------------------------------------
(* readReplies: a minute without a reply, an upstream that was closed, or  *)
(* a reply that cannot be delivered ends it.                               *)
ReadEnds(u) ==
    /\ ups[u].reader = "read" /\ ups' = [ups EXCEPT ![u].reader = "remove"]
    /\ UNCHANGED <<associations, serve, fwdr, items>>

ReaderRemove(u) ==
    /\ ups[u].reader = "remove" /\ Without(u)
    /\ ups' = [ups EXCEPT ![u].reader = "close"]
    /\ UNCHANGED <<serve, fwdr, items>>

ReaderClose(u) ==
    /\ ups[u].reader = "close"
    /\ ups' = [ups EXCEPT ![u].state = "closed", ![u].reader = "ended"]
    /\ UNCHANGED <<associations, serve, fwdr, items>>

(* relayUDP ends when the bridge's connection does, which closes with the  *)
(* association, or by itself when the target refuses; nothing tells the    *)
(* upstream then.                                                          *)
TailEnds(u) ==
    /\ ups[u].tail = "open" /\ ups' = [ups EXCEPT ![u].tail = "ended"]
    /\ UNCHANGED <<associations, serve, fwdr, items>>

-----------------------------------------------------------------------------
(* Close: cancel, close the socket, take the map, close what it held, wait.*)
Cancel ==
    /\ fwdr = "open" /\ fwdr' = "cancelled"
    /\ UNCHANGED <<ups, associations, serve, items>>

CloseSocket ==
    /\ fwdr = "cancelled" /\ fwdr' = "unbound"
    /\ UNCHANGED <<ups, associations, serve, items>>

TakeAll ==
    /\ fwdr = "unbound" /\ fwdr' = "taken"
    /\ items' = {associations[c] : c \in Clients} \ {0}
    /\ associations' = [c \in Clients |-> 0]
    /\ UNCHANGED <<ups, serve>>

CloseItem(u) ==
    /\ u \in items /\ items' = items \ {u} /\ Shut({u})
    /\ UNCHANGED <<associations, serve, fwdr>>

Waited ==
    /\ fwdr = "taken" /\ items = {} /\ serve.pc = "ended"
    /\ \A u \in Upstreams : ups[u].reader \in {"none", "ended"}
    /\ fwdr' = "closed" /\ UNCHANGED <<ups, associations, serve, items>>

-----------------------------------------------------------------------------
ServeStep == ServeEnds \/ DialFails \/ Dial \/ Publish \/ Write \/ ServeRemove \/ ServeClose
ReaderStep(u) == ReaderRemove(u) \/ ReaderClose(u)
CloseStep == CloseSocket \/ TakeAll \/ Waited \/ \E u \in Upstreams : CloseItem(u)
Next ==
    \/ \E c \in Clients : Receive(c)
    \/ ServeStep \/ Cancel \/ CloseStep
    \/ \E u \in Upstreams : ReadEnds(u) \/ ReaderStep(u) \/ TailEnds(u)

Spec == Init /\ [][Next]_vars

(* Goroutines run, a handshake is answered or breaks, and the read ends    *)
(* when its upstream is closed or its deadline passes; datagrams come and  *)
(* go as they like.                                                        *)
Duty(k) ==
    \/ k = 1 /\ ServeStep
    \/ k = 2 /\ CloseStep
    \/ \E u \in Upstreams :
         \/ k = 2 * u + 1 /\ (ReaderStep(u)
                              \/ ((ups[u].state = "closed" \/ ups[u].tail = "ended") /\ ReadEnds(u)))
         \/ k = 2 * u + 2 /\ ups[u].state = "closed" /\ TailEnds(u)

-----------------------------------------------------------------------------
(* Whatever races Close, an open upstream is in the map until Close takes  *)
(* it, or in the hands of somebody who closes it without waiting for its   *)
(* deadline, and none is left open when Close returns.                     *)
UpstreamsOwned ==
    /\ \A u \in Upstreams : ups[u].state = "open" =>
         \/ associations[ups[u].client] = u /\ fwdr \notin {"taken", "closed"}
         \/ u \in items
         \/ serve.up = u /\ serve.pc \in {"publish", "close"}
         \/ ups[u].reader \in {"remove", "close"}
    /\ fwdr = "closed" => \A u \in Upstreams : ups[u].state # "open"

(* A client is not stuck with an upstream that is closed, and once the     *)
(* forward is being closed, Close returns and every relay behind it ends.  *)
Unsettled == {u \in Upstreams : ups[u].state = "closed" /\
                 (ups[u].tail = "open" \/ \E c \in Clients : associations[c] = u)}
UpstreamsEnd ==
    (Unsettled # {} \/ fwdr = "cancelled")
        ~> (Unsettled = {} /\ (fwdr = "open" \/ (fwdr = "closed" /\ \A u \in Upstreams : ups[u].tail # "open")))
=============================================================================
