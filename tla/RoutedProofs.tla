---------------------------- MODULE RoutedProofs ----------------------------
(***************************************************************************)
(* What a routed port forward promises, proved for every number of         *)
(* clients, upstreams and blocks: nothing that routedUDPForwarder has      *)
(* opened outlives its Close, and an application that keeps its side of a  *)
(* routed TCP connection open reads the whole answer through all relays.   *)
(***************************************************************************)
EXTENDS DataplaneProofs

(* The serve goroutine has a client from the datagram on, an upstream from *)
(* the dial on; it alone enters upstreams in the map, one at a time.       *)
ServeRecord ==
    [pc : {"read", "dial", "publish", "write", "remove", "close", "ended"},
     client : UdpClients \cup {"nobody"}, up : 0..UdpUpstreams]
ServeSound ==
    /\ udpServe \in ServeRecord
    /\ (udpServe.pc \in {"dial", "publish"} =>
          (udpServe.client \in UdpClients /\ associations[udpServe.client] = 0))
    /\ (udpServe.pc \in {"publish", "write", "remove", "close"} => udpServe.up # 0)
    /\ (udpServe.pc = "publish" => ups[udpServe.up].client = udpServe.client)

(* Who closes an open upstream: Close, through the map or the items it has *)
(* taken, the serve goroutine or the goroutine that reads its replies.     *)
Owned(u) ==
    /\ ups[u].client \in UdpClients
    /\ \/ associations[ups[u].client] = u /\ udpForwarder \notin {"taken", "closed"}
       \/ u \in items
       \/ udpServe.up = u /\ udpServe.pc \in {"publish", "close"}
       \/ ups[u].reader \in {"remove", "close"}

(* Close has waited for everyone.                                          *)
AllGone ==
    /\ udpServe.pc = "ended" /\ items = {}
    /\ \A u \in RU!Upstreams : ups[u].reader \in {"none", "ended"}

UdpInv ==
    /\ RU!TypeOK /\ ServeSound
    /\ \A u \in RU!Upstreams : ups[u].state = "open" => Owned(u)
    /\ (udpForwarder = "closed" => AllGone)
    /\ (udpForwarder \in {"open", "cancelled", "unbound"} => items = {})

UpstreamRecord ==
    [state : {"none", "open", "closed"}, client : UdpClients \cup {"nobody"},
     reader : {"none", "read", "remove", "close", "ended"}, tail : {"none", "open", "ended"}]

(* Closing an upstream leaves the others and the rest of it as they are.   *)
LEMMA ShutOne ==
    ASSUME ups \in [RU!Upstreams -> UpstreamRecord], NEW v \in RU!Upstreams, RU!Shut({v})
    PROVE  /\ ups' \in [RU!Upstreams -> UpstreamRecord] /\ ups'[v].state = "closed"
           /\ \A u \in RU!Upstreams : /\ ups'[u].client = ups[u].client /\ ups'[u].reader = ups[u].reader
                                      /\ (u # v => ups'[u] = ups[u])
<1>1. \A u \in RU!Upstreams : ups'[u] = IF u = v THEN [ups[u] EXCEPT !.state = "closed"] ELSE ups[u]
  BY DEF RU!Shut
<1>2. \A u \in RU!Upstreams : ups[u] \in UpstreamRecord
  OBVIOUS
<1>3. \A u \in RU!Upstreams : ups'[u] \in UpstreamRecord
  BY ZenonT(60), <1>1, <1>2 DEF UpstreamRecord
<1>4. ups' = [u \in RU!Upstreams |-> ups'[u]]
  BY DEF RU!Shut
<1>5. ups' \in [RU!Upstreams -> UpstreamRecord]
  BY <1>3, <1>4
<1>. QED  BY <1>1, <1>2, <1>5 DEF UpstreamRecord

(* Taking an upstream out of the map only ever clears its own entry.       *)
LEMMA WithoutOne ==
    ASSUME associations \in [UdpClients -> 0..UdpUpstreams], NEW v \in RU!Upstreams, RU!Without(v)
    PROVE  /\ associations' \in [UdpClients -> 0..UdpUpstreams]
           /\ \A c \in UdpClients : associations'[c] = 0 \/ associations'[c] = associations[c]
           /\ \A c : (associations[c] # v /\ c \in UdpClients) => associations'[c] = associations[c]
<1>1. 0 \in 0..UdpUpstreams
  BY UdpNames
<1>. QED  BY <1>1 DEF RU!Without

LEMMA UdpStepKeeps ==
    ASSUME UdpInv, RU!Next
    PROVE  UdpInv'
<1>0. /\ ups \in [RU!Upstreams -> UpstreamRecord] /\ associations \in [UdpClients -> 0..UdpUpstreams]
      /\ items \subseteq RU!Upstreams /\ udpServe \in ServeRecord
      /\ udpForwarder \in {"open", "cancelled", "unbound", "taken", "closed"}
  BY DEF UdpInv, RU!TypeOK, ServeSound, UpstreamRecord, RU!Nobody
<1>t. ASSUME ups' \in [RU!Upstreams -> UpstreamRecord], associations' \in [UdpClients -> 0..UdpUpstreams],
             items' \subseteq RU!Upstreams, udpServe' \in ServeRecord,
             udpForwarder' \in {"open", "cancelled", "unbound", "taken", "closed"}
      PROVE  RU!TypeOK'
  <2>1. udpServe'.pc \in {"read", "dial", "publish", "write", "remove", "close", "ended"}
    BY <1>t DEF ServeRecord
  <2>. QED  BY <1>t, <2>1 DEF RU!TypeOK, UpstreamRecord, RU!Nobody
<1>r. /\ 0 \in 0..UdpUpstreams /\ RU!Rest \in ServeRecord /\ RU!Rest.pc = "read"
      /\ [RU!Rest EXCEPT !.pc = "ended"] \in ServeRecord /\ [RU!Rest EXCEPT !.pc = "ended"].pc = "ended"
  <2>1. 0 \in 0..UdpUpstreams
    BY UdpNames
  <2>. QED  BY <2>1 DEF RU!Rest, ServeRecord, RU!Nobody
<1>u. /\ RU!Upstreams \subseteq 0..UdpUpstreams /\ 0 \notin RU!Upstreams
      /\ \A n \in 0..UdpUpstreams : n # 0 => n \in RU!Upstreams
  BY UdpNames DEF RU!Upstreams
<1>s. udpServe.pc \in {"publish", "write", "remove", "close"} => udpServe.up \in RU!Upstreams
  BY <1>0, <1>u DEF UdpInv, ServeSound, ServeRecord
<1>1. ASSUME NEW c \in UdpClients, RU!Receive(c)
      PROVE  UdpInv'
  <2>1. /\ udpServe.pc = "read" /\ UNCHANGED <<ups, associations, udpForwarder, items>>
        /\ udpServe' = IF associations[c] # 0 THEN [pc |-> "write", client |-> c, up |-> associations[c]]
                       ELSE [pc |-> "dial", client |-> c, up |-> 0]
    BY <1>1 DEF RU!Receive
  <2>2. ServeSound'
    BY <1>0, <1>r, <2>1 DEF ServeSound, ServeRecord
  <2>3. udpServe' \in ServeRecord /\ udpServe'.pc # "ended"
    BY <2>1, <2>2 DEF ServeSound
  <2>. QED  BY <1>0, <1>t, <2>1, <2>2, <2>3 DEF UdpInv, Owned, AllGone
<1>2. CASE RU!ServeEnds \/ RU!DialFails
  <2>1. /\ udpServe.pc \in {"read", "dial"} /\ UNCHANGED <<ups, associations, udpForwarder, items>>
        /\ udpServe' \in {RU!Rest, [RU!Rest EXCEPT !.pc = "ended"]}
    BY <1>2 DEF RU!ServeEnds, RU!DialFails
  <2>2. ServeSound' /\ udpServe' \in ServeRecord
    BY <1>r, <2>1 DEF ServeSound
  <2>. QED  BY <1>0, <1>t, <2>1, <2>2 DEF UdpInv, Owned, AllGone
<1>3. CASE RU!Dial
  <2>1. PICK v \in RU!Upstreams :
          /\ ups[v].state = "none"
          /\ ups' = [ups EXCEPT ![v] = [RU!NoUpstream EXCEPT !.state = "open", !.client = udpServe.client,
                                                              !.tail = "open"]]
          /\ udpServe' = [udpServe EXCEPT !.pc = "publish", !.up = v]
    BY <1>3 DEF RU!Dial
  <2>2. udpServe.pc = "dial" /\ UNCHANGED <<associations, udpForwarder, items>>
    BY <1>3 DEF RU!Dial
  <2>3. /\ ups'[v].client = udpServe.client /\ ups' \in [RU!Upstreams -> UpstreamRecord]
        /\ \A u \in RU!Upstreams : u # v => ups'[u] = ups[u]
    <3> DEFINE r == [RU!NoUpstream EXCEPT !.state = "open", !.client = udpServe.client, !.tail = "open"]
    <3>1. r \in UpstreamRecord /\ r.client = udpServe.client
      BY <1>0 DEF RU!NoUpstream, UpstreamRecord, ServeRecord, RU!Nobody
    <3> HIDE DEF r
    <3>2. ups' = [ups EXCEPT ![v] = r]
      BY <2>1 DEF r
    <3>. QED  BY <1>0, <3>1, <3>2
  <2>4. /\ udpServe'.pc = "publish" /\ udpServe'.up = v /\ udpServe'.client = udpServe.client
        /\ udpServe' \in ServeRecord
    BY <1>0, <1>u, <2>1 DEF ServeRecord
  <2>5. ServeSound'
    BY <1>u, <2>1, <2>2, <2>3, <2>4 DEF UdpInv, ServeSound
  <2>6. ASSUME NEW u \in RU!Upstreams, ups'[u].state = "open"  PROVE Owned(u)'
    <3>1. CASE u = v
      BY <2>2, <2>3, <2>4, <3>1 DEF UdpInv, ServeSound, Owned
    <3>2. CASE u # v
      BY <2>2, <2>3, <2>6, <3>2 DEF UdpInv, Owned
    <3>. QED  BY <3>1, <3>2
  <2>7. udpForwarder # "closed"
    BY <2>2 DEF UdpInv, AllGone
  <2>. QED  BY <1>0, <1>t, <2>2, <2>3, <2>4, <2>5, <2>6, <2>7 DEF UdpInv
<1>4. CASE RU!Publish
  <2> DEFINE v == udpServe.up
             c == udpServe.client
  <2>0. /\ udpServe.pc = "publish" /\ v \in RU!Upstreams /\ c \in UdpClients /\ ups[v].client = c
        /\ associations[c] = 0 /\ UNCHANGED <<udpForwarder, items>> /\ udpForwarder # "closed"
    BY <1>4, <1>s DEF RU!Publish, UdpInv, ServeSound, AllGone
  <2>1. CASE udpForwarder # "open"
    <3>1. RU!Shut({v}) /\ udpServe' = RU!Rest /\ UNCHANGED associations
      BY <1>4, <2>1 DEF RU!Publish
    <3>2. /\ ups' \in [RU!Upstreams -> UpstreamRecord] /\ ups'[v].state = "closed"
          /\ \A u \in RU!Upstreams : u # v => ups'[u] = ups[u]
      BY <1>0, <2>0, <3>1, ShutOne
    <3>3. ServeSound' /\ udpServe' \in ServeRecord
      BY <1>r, <3>1 DEF ServeSound
    <3>4. ASSUME NEW u \in RU!Upstreams, ups'[u].state = "open"  PROVE Owned(u)'
      BY <2>0, <3>1, <3>2, <3>4 DEF UdpInv, Owned
    <3>. QED  BY <1>0, <1>t, <2>0, <3>1, <3>2, <3>3, <3>4 DEF UdpInv
  <2>2. CASE udpForwarder = "open"
    <3>1. /\ associations' = [associations EXCEPT ![c] = v]
          /\ ups' = [ups EXCEPT ![v].reader = "read"]
          /\ udpServe' = [udpServe EXCEPT !.pc = "write"]
      BY <1>4, <2>2 DEF RU!Publish
    <3>2. /\ ups' \in [RU!Upstreams -> UpstreamRecord] /\ ups'[v].client = c
          /\ \A u \in RU!Upstreams : u # v => ups'[u] = ups[u]
      BY <1>0, <2>0, <3>1 DEF UpstreamRecord
    <3>3. /\ associations' \in [UdpClients -> 0..UdpUpstreams] /\ associations'[c] = v
          /\ \A d : (d # c /\ d \in UdpClients) => associations'[d] = associations[d]
      BY <1>0, <1>u, <2>0, <3>1
    <3>4. udpServe' \in ServeRecord /\ udpServe'.pc = "write" /\ udpServe'.up = v
      BY <1>0, <3>1 DEF ServeRecord
    <3>5. ServeSound'
      BY <1>u, <2>0, <3>4 DEF ServeSound
    <3>6. ASSUME NEW u \in RU!Upstreams, ups'[u].state = "open"  PROVE Owned(u)'
      <4>1. CASE u = v
        BY <2>0, <2>2, <3>2, <3>3, <4>1 DEF Owned
      <4>2. CASE u # v
        <5>1. Owned(u) /\ ups'[u] = ups[u]
          BY <3>2, <3>6, <4>2 DEF UdpInv
        <5>2. associations[ups[u].client] = u => associations'[ups[u].client] = u
          <6>1. u # 0 /\ ups[u].client \in UdpClients
            BY <1>u, <5>1 DEF Owned
          <6>. QED  BY <2>0, <3>3, <6>1
        <5>. QED  BY <2>0, <4>2, <5>1, <5>2 DEF Owned
      <4>. QED  BY <4>1, <4>2
    <3>. QED  BY <1>0, <1>t, <2>0, <3>2, <3>3, <3>4, <3>5, <3>6 DEF UdpInv
  <2>. QED  BY <2>1, <2>2
<1>5. CASE RU!Write
  <2>1. /\ udpServe.pc = "write" /\ UNCHANGED <<ups, associations, udpForwarder, items>>
        /\ udpServe' \in {RU!Rest, [udpServe EXCEPT !.pc = "remove"]}
    BY <1>5 DEF RU!Write
  <2>2. udpServe' = [udpServe EXCEPT !.pc = "remove"]
          => udpServe' \in ServeRecord /\ udpServe'.pc = "remove" /\ udpServe'.up = udpServe.up
    BY <1>0 DEF ServeRecord
  <2>3. ServeSound' /\ udpServe' \in ServeRecord /\ udpForwarder # "closed"
    BY <1>r, <2>1, <2>2 DEF UdpInv, ServeSound, AllGone
  <2>. QED  BY <1>0, <1>t, <2>1, <2>3 DEF UdpInv, Owned
<1>6. CASE RU!ServeRemove
  <2>1. /\ udpServe.pc = "remove" /\ RU!Without(udpServe.up) /\ UNCHANGED <<ups, udpForwarder, items>>
        /\ udpServe' = [udpServe EXCEPT !.pc = "close"] /\ udpServe.up \in RU!Upstreams
    BY <1>6, <1>s DEF RU!ServeRemove
  <2>2. udpServe' \in ServeRecord /\ udpServe'.pc = "close" /\ udpServe'.up = udpServe.up
    BY <1>0, <2>1 DEF ServeRecord
  <2>3. /\ associations' \in [UdpClients -> 0..UdpUpstreams]
        /\ \A c : (associations[c] # udpServe.up /\ c \in UdpClients) => associations'[c] = associations[c]
    BY <1>0, <2>1, WithoutOne
  <2>4. ServeSound' /\ udpForwarder # "closed"
    BY <2>1, <2>2 DEF UdpInv, ServeSound, AllGone
  <2>5. ASSUME NEW u \in RU!Upstreams, ups'[u].state = "open"  PROVE Owned(u)'
    <3>1. CASE u = udpServe.up
      BY <2>1, <2>2, <2>5, <3>1 DEF UdpInv, Owned
    <3>2. CASE u # udpServe.up
      BY <2>1, <2>2, <2>3, <2>5, <3>2 DEF UdpInv, Owned
    <3>. QED  BY <3>1, <3>2
  <2>. QED  BY <1>0, <1>t, <2>1, <2>2, <2>3, <2>4, <2>5 DEF UdpInv
<1>7. CASE RU!ServeClose
  <2>1. /\ udpServe.pc = "close" /\ RU!Shut({udpServe.up}) /\ udpServe' = RU!Rest
        /\ udpServe.up \in RU!Upstreams /\ UNCHANGED <<associations, udpForwarder, items>>
    BY <1>7, <1>s DEF RU!ServeClose
  <2>2. /\ ups' \in [RU!Upstreams -> UpstreamRecord] /\ ups'[udpServe.up].state = "closed"
        /\ \A u \in RU!Upstreams : u # udpServe.up => ups'[u] = ups[u]
    BY <1>0, <2>1, ShutOne
  <2>3. ServeSound' /\ udpServe' \in ServeRecord /\ udpForwarder # "closed"
    BY <1>r, <2>1 DEF UdpInv, ServeSound, AllGone
  <2>4. ASSUME NEW u \in RU!Upstreams, ups'[u].state = "open"  PROVE Owned(u)'
    BY <2>1, <2>2, <2>4 DEF UdpInv, Owned
  <2>. QED  BY <1>0, <1>t, <2>1, <2>2, <2>3, <2>4 DEF UdpInv
<1>8. ASSUME NEW v \in RU!Upstreams, RU!ReadEnds(v) \/ RU!TailEnds(v)
      PROVE  UdpInv'
  <2>1. /\ UNCHANGED <<associations, udpServe, udpForwarder, items>>
        /\ \/ ups[v].reader = "read" /\ ups' = [ups EXCEPT ![v].reader = "remove"]
           \/ ups' = [ups EXCEPT ![v].tail = "ended"]
    BY <1>8 DEF RU!ReadEnds, RU!TailEnds
  <2>2. /\ ups' \in [RU!Upstreams -> UpstreamRecord]
        /\ \A u \in RU!Upstreams : ups'[u].client = ups[u].client /\ ups'[u].state = ups[u].state
        /\ \A u \in RU!Upstreams : ups'[u].reader = ups[u].reader
              \/ (ups[u].reader = "read" /\ ups'[u].reader = "remove")
    BY <1>0, <2>1 DEF UpstreamRecord
  <2>3. ServeSound' /\ udpServe' \in ServeRecord
    BY <1>0, <1>s, <2>1, <2>2 DEF UdpInv, ServeSound
  <2>4. ASSUME NEW u \in RU!Upstreams, ups'[u].state = "open"  PROVE Owned(u)'
    BY <2>1, <2>2, <2>4 DEF UdpInv, Owned
  <2>5. AllGone => AllGone'
    BY <2>1, <2>2 DEF AllGone
  <2>. QED  BY <1>0, <1>t, <2>1, <2>2, <2>3, <2>4, <2>5 DEF UdpInv
<1>9. ASSUME NEW v \in RU!Upstreams, RU!ReaderRemove(v)
      PROVE  UdpInv'
  <2>1. /\ ups[v].reader = "remove" /\ RU!Without(v) /\ ups' = [ups EXCEPT ![v].reader = "close"]
        /\ UNCHANGED <<udpServe, udpForwarder, items>>
    BY <1>9 DEF RU!ReaderRemove
  <2>2. /\ ups' \in [RU!Upstreams -> UpstreamRecord] /\ ups'[v].reader = "close"
        /\ \A u \in RU!Upstreams : ups'[u].client = ups[u].client /\ ups'[u].state = ups[u].state
        /\ \A u \in RU!Upstreams : u # v => ups'[u] = ups[u]
    BY <1>0, <2>1 DEF UpstreamRecord
  <2>3. /\ associations' \in [UdpClients -> 0..UdpUpstreams]
        /\ \A c \in UdpClients : associations'[c] = 0 \/ associations'[c] = associations[c]
        /\ \A c : (associations[c] # v /\ c \in UdpClients) => associations'[c] = associations[c]
    BY <1>0, <2>1, WithoutOne
  <2>4. ServeSound' /\ udpServe' \in ServeRecord
    BY <1>0, <1>s, <2>1, <2>2, <2>3 DEF UdpInv, ServeSound
  <2>5. ASSUME NEW u \in RU!Upstreams, ups'[u].state = "open"  PROVE Owned(u)'
    <3>1. Owned(u)
      BY <2>2, <2>5 DEF UdpInv
    <3>2. CASE u = v
      BY <2>1, <2>2, <3>1, <3>2 DEF Owned
    <3>3. CASE u # v
      BY <2>1, <2>2, <2>3, <3>1, <3>3 DEF Owned
    <3>. QED  BY <3>2, <3>3
  <2>6. udpForwarder # "closed"
    BY <2>1 DEF UdpInv, AllGone
  <2>. QED  BY <1>0, <1>t, <2>1, <2>2, <2>3, <2>4, <2>5, <2>6 DEF UdpInv
<1>10. ASSUME NEW v \in RU!Upstreams, RU!ReaderClose(v)
       PROVE  UdpInv'
  <2>1. /\ ups[v].reader = "close" /\ UNCHANGED <<associations, udpServe, udpForwarder, items>>
        /\ ups' = [ups EXCEPT ![v].state = "closed", ![v].reader = "ended"]
    BY <1>10 DEF RU!ReaderClose
  <2>2. /\ ups' \in [RU!Upstreams -> UpstreamRecord] /\ ups'[v].state = "closed"
        /\ \A u \in RU!Upstreams : ups'[u].client = ups[u].client
        /\ \A u \in RU!Upstreams : u # v => ups'[u] = ups[u]
    <3> DEFINE r == [ups[v] EXCEPT !.state = "closed", !.reader = "ended"]
    <3>1. r \in UpstreamRecord /\ r.state = "closed" /\ r.client = ups[v].client
      BY <1>0 DEF UpstreamRecord
    <3>2. ups' = [ups EXCEPT ![v] = r]
      BY <1>0, <2>1 DEF UpstreamRecord
    <3> HIDE DEF r
    <3>. QED  BY <1>0, <3>1, <3>2
  <2>3. ServeSound' /\ udpServe' \in ServeRecord
    BY <1>0, <1>s, <2>1, <2>2 DEF UdpInv, ServeSound
  <2>4. ASSUME NEW u \in RU!Upstreams, ups'[u].state = "open"  PROVE Owned(u)'
    BY <2>1, <2>2, <2>4 DEF UdpInv, Owned
  <2>5. udpForwarder # "closed"
    BY <2>1 DEF UdpInv, AllGone
  <2>. QED  BY <1>0, <1>t, <2>1, <2>2, <2>3, <2>4, <2>5 DEF UdpInv
<1>11. CASE RU!Cancel \/ RU!CloseSocket
  <2>1. /\ UNCHANGED <<ups, associations, udpServe, items>> /\ udpForwarder' \in {"cancelled", "unbound"}
        /\ udpForwarder \in {"open", "cancelled"}
    BY <1>11 DEF RU!Cancel, RU!CloseSocket
  <2>. QED  BY <1>0, <1>t, <2>1 DEF UdpInv, ServeSound, Owned
<1>12. CASE RU!TakeAll
  <2>1. /\ udpForwarder = "unbound" /\ udpForwarder' = "taken" /\ UNCHANGED <<ups, udpServe>>
        /\ items' = {associations[c] : c \in UdpClients} \ {0}
        /\ associations' = [c \in UdpClients |-> 0]
    BY <1>12 DEF RU!TakeAll
  <2>2. items' \subseteq RU!Upstreams /\ associations' \in [UdpClients -> 0..UdpUpstreams]
    BY <1>0, <1>r, <1>u, <2>1
  <2>3. ServeSound' /\ udpServe' \in ServeRecord
    BY <1>0, <2>1 DEF UdpInv, ServeSound
  <2>4. ASSUME NEW u \in RU!Upstreams, ups'[u].state = "open"  PROVE Owned(u)'
    <3>1. Owned(u) /\ u # 0
      BY <1>u, <2>1, <2>4 DEF UdpInv
    <3>2. CASE associations[ups[u].client] = u
      <4>1. u \in items'
        BY <2>1, <3>1, <3>2 DEF Owned
      <4>. QED  BY <2>1, <3>1, <4>1 DEF Owned
    <3>3. CASE u \in items
      <4>1. FALSE
        BY <2>1, <3>3 DEF UdpInv
      <4>. QED  BY <4>1
    <3>4. CASE (udpServe.up = u /\ udpServe.pc \in {"publish", "close"}) \/ ups[u].reader \in {"remove", "close"}
      BY <2>1, <3>1, <3>4 DEF Owned
    <3>. QED  BY <3>1, <3>2, <3>3, <3>4 DEF Owned
  <2>. QED  BY <1>0, <1>t, <2>1, <2>2, <2>3, <2>4 DEF UdpInv
<1>13. ASSUME NEW v \in RU!Upstreams, RU!CloseItem(v)
       PROVE  UdpInv'
  <2>1. /\ v \in items /\ items' = items \ {v} /\ RU!Shut({v})
        /\ UNCHANGED <<associations, udpServe, udpForwarder>>
    BY <1>13 DEF RU!CloseItem
  <2>2. /\ ups' \in [RU!Upstreams -> UpstreamRecord] /\ ups'[v].state = "closed"
        /\ \A u \in RU!Upstreams : /\ ups'[u].client = ups[u].client
                                   /\ (u # v => ups'[u] = ups[u])
    BY <1>0, <2>1, ShutOne
  <2>3. ServeSound' /\ udpServe' \in ServeRecord
    BY <1>0, <1>s, <2>1, <2>2 DEF UdpInv, ServeSound
  <2>4. ASSUME NEW u \in RU!Upstreams, ups'[u].state = "open"  PROVE Owned(u)'
    BY <2>1, <2>2, <2>4 DEF UdpInv, Owned
  <2>5. udpForwarder # "closed"
    BY <2>1 DEF UdpInv, AllGone
  <2>6. items' \subseteq RU!Upstreams
    BY <1>0, <2>1
  <2>. QED  BY <1>0, <1>t, <2>1, <2>2, <2>3, <2>4, <2>5, <2>6 DEF UdpInv
<1>14. CASE RU!Waited
  <2>1. /\ udpForwarder = "taken" /\ udpForwarder' = "closed"
        /\ UNCHANGED <<ups, associations, udpServe, items>> /\ AllGone
    BY <1>14 DEF RU!Waited, AllGone
  <2>2. ASSUME NEW u \in RU!Upstreams, ups'[u].state = "open"  PROVE Owned(u)'
    BY <2>1, <2>2 DEF UdpInv, Owned
  <2>. QED  BY <1>0, <1>t, <2>1, <2>2 DEF UdpInv, ServeSound, AllGone
<1>. QED  BY <1>1, <1>2, <1>3, <1>4, <1>5, <1>6, <1>7, <1>8, <1>9, <1>10, <1>11, <1>12, <1>13, <1>14
         DEF RU!Next, RU!ServeStep, RU!ReaderStep, RU!CloseStep

-----------------------------------------------------------------------------
(* The routed TCP connection.  Blocks are neither lost nor made: what was  *)
(* sent is received or on one of the four links.                           *)
OnTheWay(S, d) == S[1][d] + S[2][d] + S[3][d] + S[4][d]
Conserved ==
    /\ app.sent = target.got + OnTheWay(sent, "up") /\ app.sent <= FlowRequest
    /\ target.sent = app.got + OnTheWay(sent, "down") /\ target.sent <= FlowResponse
    /\ (target.sent > 0 => target.got = FlowRequest)

FlowTypes ==
    /\ sent \in [FL!Links -> [FL!Directions -> Nat]]
    /\ fin \subseteq FL!Links \X FL!Directions /\ shut \subseteq FL!Links \X {"l", "r"}
    /\ relay \in [FL!Relays -> {"none", "dialing", "track", "relay", "ended"}]
    /\ copying \in [FL!Relays -> [FL!Directions -> BOOLEAN]]
    /\ fwdr \in {"open", "cancelled", "waiting", "closed"}
    /\ tracked \subseteq {FL!ClientEnd, FL!TargetEnd} /\ shown \in {"none", "open", "closed"}
    /\ app \in [pc : {"idle", "open", "eof", "closed"}, sent : Nat, got : Nat, half : BOOLEAN]
    /\ target \in [pc : {"idle", "open", "closed"}, sent : Nat, got : Nat]
    /\ broken \in BOOLEAN

(* What is closed was closed by its own relay, and the traffic view knows  *)
(* of the forwarder's relay only.                                          *)
RelaysSound ==
    /\ \A j \in FL!Relays :
         /\ (relay[j] = "ended" => {<<j, "r">>, <<j + 1, "l">>} \subseteq shut)
         /\ \A d \in FL!Directions : copying[j][d] => relay[j] \in {"relay", "ended"}
    /\ (shown = "open" => relay[1] \in {"track", "relay"})
    /\ (relay[1] \in {"none", "dialing"} => shown = "none")
    /\ (FL!TargetEnd \in tracked => relay[1] \in {"relay", "ended"})
    /\ (fwdr # "open" => broken) /\ (app.pc = "idle" => relay[1] = "none")

(* An application that has not ended its stream, on a connection that      *)
(* nobody broke.                                                           *)
Undisturbed == ~app.half /\ ~broken /\ app.pc # "closed"

(* The whole answer has passed the links from k on.                        *)
Passed(k) ==
    /\ target.pc = "closed" /\ target.sent = FlowResponse
    /\ \A m \in FL!Links : m >= k => sent[m]["down"] = 0

(* A copy loop of the relay has ended.                                     *)
Stopped(j) == relay[j] = "ended" \/ (relay[j] = "relay" /\ \E d \in FL!Directions : ~copying[j][d])

(* Then a relay stops only when the answer has passed it: the end that     *)
(* stops it comes from the target, never from a relay nearer to the        *)
(* application.                                                            *)
AnswerFirst ==
    /\ (target.pc = "closed" => target.sent = FlowResponse)
    /\ \A j \in FL!Relays :
         /\ (Stopped(j) => Passed(j + 1))
         /\ ((<<j, "down">> \in fin \/ <<j + 1, "up">> \in fin) => Stopped(j))
         /\ ((<<j, "r">> \in shut \/ <<j + 1, "l">> \in shut) => relay[j] = "ended")
    /\ (<<4, "down">> \in fin => target.pc = "closed") /\ <<1, "up">> \notin fin
    /\ (<<4, "r">> \in shut => target.pc = "closed") /\ <<1, "l">> \notin shut
    /\ (app.pc = "eof" => app.got = FlowResponse)

FlowInv == FlowTypes /\ Conserved /\ RelaysSound /\ (Undisturbed => AnswerFirst)

LEMMA LinksAre ==
    /\ FL!Links = {1, 2, 3, 4} /\ FL!Relays = {1, 2, 3} /\ FL!Directions = {"up", "down"}
    /\ \A j \in FL!Relays : j \in FL!Links /\ j + 1 \in FL!Links
  BY DEF FL!Links, FL!Relays, FL!Directions

LEMMA SentAt ==
    ASSUME sent \in [FL!Links -> [FL!Directions -> Nat]]
    PROVE  /\ \A k \in FL!Links, d \in FL!Directions : sent[k][d] \in Nat
           /\ OnTheWay(sent, "up") \in Nat /\ OnTheWay(sent, "down") \in Nat
           /\ \A k \in FL!Links, d \in FL!Directions : sent[k][d] <= OnTheWay(sent, d)
<1>1. \A k \in FL!Links, d \in FL!Directions : sent[k][d] \in Nat
  OBVIOUS
<1>2. \A d \in FL!Directions : /\ sent[1][d] \in Nat /\ sent[2][d] \in Nat
                               /\ sent[3][d] \in Nat /\ sent[4][d] \in Nat
  BY <1>1, LinksAre
<1>3. ASSUME NEW d \in FL!Directions
      PROVE  OnTheWay(sent, d) \in Nat /\ \A k \in FL!Links : sent[k][d] <= OnTheWay(sent, d)
  <2>1. /\ sent[1][d] \in Nat /\ sent[2][d] \in Nat /\ sent[3][d] \in Nat /\ sent[4][d] \in Nat
    BY <1>2, <1>3
  <2>. QED  BY <2>1, LinksAre DEF OnTheWay
<1>. QED  BY <1>1, <1>3, LinksAre

(* One counter of a link changes.                                          *)
Counted(S, k, d, n) == [S EXCEPT ![k][d] = n]
LEMMA OneCount ==
    ASSUME NEW S \in [FL!Links -> [FL!Directions -> Nat]],
           NEW k \in FL!Links, NEW d \in FL!Directions, NEW n \in Nat
    PROVE  /\ Counted(S, k, d, n) \in [FL!Links -> [FL!Directions -> Nat]] /\ Counted(S, k, d, n)[k][d] = n
           /\ \A l \in FL!Links, e \in FL!Directions :
                (l # k \/ e # d) => Counted(S, k, d, n)[l][e] = S[l][e]
           /\ OnTheWay(Counted(S, k, d, n), d) = OnTheWay(S, d) - S[k][d] + n
           /\ \A e \in FL!Directions : e # d => OnTheWay(Counted(S, k, d, n), e) = OnTheWay(S, e)
<1>. DEFINE T == Counted(S, k, d, n)
<1>0. T = [S EXCEPT ![k][d] = n]
  BY DEF Counted
<1>. HIDE DEF T
<1>1. /\ T \in [FL!Links -> [FL!Directions -> Nat]] /\ T[k][d] = n
      /\ \A l \in FL!Links, e \in FL!Directions : (l # k \/ e # d) => T[l][e] = S[l][e]
  BY <1>0
<1>2. \A l \in FL!Links, e \in FL!Directions : S[l][e] \in Nat
  OBVIOUS
<1>3. \A e \in FL!Directions : e # d => OnTheWay(T, e) = OnTheWay(S, e)
  BY <1>1, LinksAre DEF OnTheWay
<1>4. S[1][d] \in Nat /\ S[2][d] \in Nat /\ S[3][d] \in Nat /\ S[4][d] \in Nat
  BY <1>2, LinksAre
<1>5. OnTheWay(T, d) = OnTheWay(S, d) - S[k][d] + n
  <2>1. CASE k = 1
    BY <1>1, <1>4, <2>1, LinksAre DEF OnTheWay
  <2>2. CASE k = 2
    BY <1>1, <1>4, <2>2, LinksAre DEF OnTheWay
  <2>3. CASE k = 3
    BY <1>1, <1>4, <2>3, LinksAre DEF OnTheWay
  <2>4. CASE k = 4
    BY <1>1, <1>4, <2>4, LinksAre DEF OnTheWay
  <2>. QED  BY <2>1, <2>2, <2>3, <2>4, LinksAre
<1>. QED  BY <1>1, <1>3, <1>5 DEF T

LEMMA OneLessOneMore ==
    ASSUME NEW S, NEW d, S[1][d] \in Nat, S[2][d] \in Nat, S[3][d] \in Nat, S[4][d] \in Nat
    PROVE  /\ (S[1][d] - 1) + (S[2][d] + 1) + S[3][d] + S[4][d] = OnTheWay(S, d)
           /\ S[1][d] + (S[2][d] - 1) + (S[3][d] + 1) + S[4][d] = OnTheWay(S, d)
           /\ S[1][d] + S[2][d] + (S[3][d] - 1) + (S[4][d] + 1) = OnTheWay(S, d)
           /\ (S[1][d] + 1) + (S[2][d] - 1) + S[3][d] + S[4][d] = OnTheWay(S, d)
           /\ S[1][d] + (S[2][d] + 1) + (S[3][d] - 1) + S[4][d] = OnTheWay(S, d)
           /\ S[1][d] + S[2][d] + (S[3][d] + 1) + (S[4][d] - 1) = OnTheWay(S, d)
  BY DEF OnTheWay

(* A block moves from a link to the next one.                              *)
LEMMA BlockMoves ==
    ASSUME sent \in [FL!Links -> [FL!Directions -> Nat]],
           NEW a \in FL!Links, NEW b \in FL!Links, b = a + 1 \/ a = b + 1,
           NEW d \in FL!Directions, sent[a][d] > 0,
           sent' = [sent EXCEPT ![a][d] = @ - 1, ![b][d] = @ + 1]
    PROVE  /\ sent' \in [FL!Links -> [FL!Directions -> Nat]]
           /\ \A l \in FL!Links, e \in FL!Directions :
                (e # d \/ (l # a /\ l # b)) => sent'[l][e] = sent[l][e]
           /\ \A e \in FL!Directions : OnTheWay(sent', e) = OnTheWay(sent, e)
<1>0. a # b
  BY LinksAre
<1>1. /\ \A l \in FL!Links, e \in FL!Directions : sent[l][e] \in Nat
      /\ sent[a][d] - 1 \in Nat /\ sent[b][d] + 1 \in Nat
  OBVIOUS
<1>2. /\ sent' \in [FL!Links -> [FL!Directions -> Nat]]
      /\ sent'[a][d] = sent[a][d] - 1 /\ sent'[b][d] = sent[b][d] + 1
      /\ \A l \in FL!Links, e \in FL!Directions :
           (e # d \/ (l # a /\ l # b)) => sent'[l][e] = sent[l][e]
  BY <1>0, <1>1
<1>3. \A e \in FL!Directions : e # d => OnTheWay(sent', e) = OnTheWay(sent, e)
  BY <1>2, LinksAre DEF OnTheWay
<1>4. /\ sent[1][d] \in Nat /\ sent[2][d] \in Nat /\ sent[3][d] \in Nat /\ sent[4][d] \in Nat
  BY <1>1, LinksAre
<1>5. OnTheWay(sent', d) = OnTheWay(sent, d)
  <2>1. CASE a = 1 /\ b = 2
    <3>1. /\ sent'[1][d] = sent[1][d] - 1 /\ sent'[2][d] = sent[2][d] + 1
          /\ sent'[3][d] = sent[3][d] /\ sent'[4][d] = sent[4][d]
      BY <1>2, <2>1, LinksAre
    <3>2. OnTheWay(sent', d) = (sent[1][d] - 1) + (sent[2][d] + 1) + sent[3][d] + sent[4][d]
      BY <3>1, Zenon DEF OnTheWay
    <3>3. (sent[1][d] - 1) + (sent[2][d] + 1) + sent[3][d] + sent[4][d] = OnTheWay(sent, d)
      BY <1>4, OneLessOneMore, Zenon
    <3>. QED  BY <3>2, <3>3, Zenon
  <2>2. CASE a = 2 /\ b = 3
    <3>1. /\ sent'[2][d] = sent[2][d] - 1 /\ sent'[3][d] = sent[3][d] + 1
          /\ sent'[1][d] = sent[1][d] /\ sent'[4][d] = sent[4][d]
      BY <1>2, <2>2, LinksAre
    <3>2. OnTheWay(sent', d) = sent[1][d] + (sent[2][d] - 1) + (sent[3][d] + 1) + sent[4][d]
      BY <3>1, Zenon DEF OnTheWay
    <3>3. sent[1][d] + (sent[2][d] - 1) + (sent[3][d] + 1) + sent[4][d] = OnTheWay(sent, d)
      BY <1>4, OneLessOneMore, Zenon
    <3>. QED  BY <3>2, <3>3, Zenon
  <2>3. CASE a = 3 /\ b = 4
    <3>1. /\ sent'[3][d] = sent[3][d] - 1 /\ sent'[4][d] = sent[4][d] + 1
          /\ sent'[1][d] = sent[1][d] /\ sent'[2][d] = sent[2][d]
      BY <1>2, <2>3, LinksAre
    <3>2. OnTheWay(sent', d) = sent[1][d] + sent[2][d] + (sent[3][d] - 1) + (sent[4][d] + 1)
      BY <3>1, Zenon DEF OnTheWay
    <3>3. sent[1][d] + sent[2][d] + (sent[3][d] - 1) + (sent[4][d] + 1) = OnTheWay(sent, d)
      BY <1>4, OneLessOneMore, Zenon
    <3>. QED  BY <3>2, <3>3, Zenon
  <2>4. CASE a = 2 /\ b = 1
    <3>1. /\ sent'[2][d] = sent[2][d] - 1 /\ sent'[1][d] = sent[1][d] + 1
          /\ sent'[3][d] = sent[3][d] /\ sent'[4][d] = sent[4][d]
      BY <1>2, <2>4, LinksAre
    <3>2. OnTheWay(sent', d) = (sent[1][d] + 1) + (sent[2][d] - 1) + sent[3][d] + sent[4][d]
      BY <3>1, Zenon DEF OnTheWay
    <3>3. (sent[1][d] + 1) + (sent[2][d] - 1) + sent[3][d] + sent[4][d] = OnTheWay(sent, d)
      BY <1>4, OneLessOneMore, Zenon
    <3>. QED  BY <3>2, <3>3, Zenon
  <2>5. CASE a = 3 /\ b = 2
    <3>1. /\ sent'[3][d] = sent[3][d] - 1 /\ sent'[2][d] = sent[2][d] + 1
          /\ sent'[1][d] = sent[1][d] /\ sent'[4][d] = sent[4][d]
      BY <1>2, <2>5, LinksAre
    <3>2. OnTheWay(sent', d) = sent[1][d] + (sent[2][d] + 1) + (sent[3][d] - 1) + sent[4][d]
      BY <3>1, Zenon DEF OnTheWay
    <3>3. sent[1][d] + (sent[2][d] + 1) + (sent[3][d] - 1) + sent[4][d] = OnTheWay(sent, d)
      BY <1>4, OneLessOneMore, Zenon
    <3>. QED  BY <3>2, <3>3, Zenon
  <2>6. CASE a = 4 /\ b = 3
    <3>1. /\ sent'[4][d] = sent[4][d] - 1 /\ sent'[3][d] = sent[3][d] + 1
          /\ sent'[1][d] = sent[1][d] /\ sent'[2][d] = sent[2][d]
      BY <1>2, <2>6, LinksAre
    <3>2. OnTheWay(sent', d) = sent[1][d] + sent[2][d] + (sent[3][d] + 1) + (sent[4][d] - 1)
      BY <3>1, Zenon DEF OnTheWay
    <3>3. sent[1][d] + sent[2][d] + (sent[3][d] + 1) + (sent[4][d] - 1) = OnTheWay(sent, d)
      BY <1>4, OneLessOneMore, Zenon
    <3>. QED  BY <3>2, <3>3, Zenon
  <2>. QED  BY <2>1, <2>2, <2>3, <2>4, <2>5, <2>6, LinksAre
<1>. QED  BY <1>2, <1>3, <1>5

(* A relay that ends closes its two connections.                           *)
LEMMA EndCloses ==
    ASSUME NEW j \in FL!Relays, FL!End(j), FlowTypes
    PROVE  /\ relay' = [relay EXCEPT ![j] = "ended"]
           /\ fin' = fin \cup {<<j, "down">>, <<j + 1, "up">>}
           /\ shut' = shut \cup {<<j, "r">>, <<j + 1, "l">>}
           /\ fin' \subseteq FL!Links \X FL!Directions /\ shut' \subseteq FL!Links \X {"l", "r"}
           /\ tracked' \subseteq {FL!ClientEnd, FL!TargetEnd}
           /\ (j = 1 => tracked' = {}) /\ (j # 1 => tracked' = tracked)
           /\ relay' \in [FL!Relays -> {"none", "dialing", "track", "relay", "ended"}]
<1>1. /\ relay' = [relay EXCEPT ![j] = "ended"] /\ shut' = shut \cup {<<j, "r">>, <<j + 1, "l">>}
      /\ fin' = FL!Closed(fin, {<<j, "r">>, <<j + 1, "l">>})
      /\ tracked' \subseteq {FL!ClientEnd, FL!TargetEnd}
      /\ (j = 1 => tracked' = {}) /\ (j # 1 => tracked' = tracked)
  BY DEF FL!End, FL!CloseEnds, FlowTypes
<1>2. FL!Writes("r") = "down" /\ FL!Writes("l") = "up"
  BY DEF FL!Writes
<1>3. fin' = fin \cup {<<j, "down">>, <<j + 1, "up">>}
  BY <1>1, <1>2 DEF FL!Closed
<1>4. {<<j, "down">>, <<j + 1, "up">>} \subseteq FL!Links \X FL!Directions
      /\ {<<j, "r">>, <<j + 1, "l">>} \subseteq FL!Links \X {"l", "r"}
  BY LinksAre
<1>5. relay' \in [FL!Relays -> {"none", "dialing", "track", "relay", "ended"}]
  BY <1>1 DEF FlowTypes
<1>. QED  BY <1>1, <1>3, <1>4, <1>5 DEF FlowTypes

LEMMA FlowStarts ==
    ASSUME FL!Init
    PROVE  FlowInv
<1>1. \A k \in FL!Links, d \in FL!Directions : sent[k][d] = 0
  BY DEF FL!Init
<1>2. OnTheWay(sent, "up") = 0 /\ OnTheWay(sent, "down") = 0
  BY <1>1, LinksAre DEF OnTheWay
<1>3. sent \in [FL!Links -> [FL!Directions -> Nat]]
  BY DEF FL!Init
<1>4. relay \in [FL!Relays -> {"none", "dialing", "track", "relay", "ended"}]
      /\ \A j \in FL!Relays : relay[j] = "none"
  BY DEF FL!Init
<1>5. copying \in [FL!Relays -> [FL!Directions -> BOOLEAN]]
      /\ \A j \in FL!Relays, d \in FL!Directions : ~copying[j][d]
  BY DEF FL!Init, FL!Idle
<1>6. /\ app \in [pc : {"idle", "open", "eof", "closed"}, sent : Nat, got : Nat, half : BOOLEAN]
      /\ app.sent = 0 /\ app.got = 0 /\ app.pc = "idle"
      /\ target \in [pc : {"idle", "open", "closed"}, sent : Nat, got : Nat]
      /\ target.sent = 0 /\ target.got = 0 /\ target.pc = "idle"
  BY DEF FL!Init
<1>7. FlowTypes
  BY <1>3, <1>4, <1>5, <1>6 DEF FL!Init, FlowTypes
<1>8. Conserved
  BY <1>2, <1>6, FlowNumbers DEF Conserved
<1>9. RelaysSound /\ AnswerFirst
  BY <1>4, <1>5, <1>6, LinksAre DEF FL!Init, RelaysSound, AnswerFirst, Stopped
<1>. QED  BY <1>7, <1>8, <1>9 DEF FlowInv

(* The application's steps and the target's.                               *)
LEMMA EndpointKeeps ==
    ASSUME FlowInv, FL!Connect \/ FL!Send \/ FL!HalfClose \/ FL!Receive \/ FL!Quit \/ FL!Serve
    PROVE  FlowInv'
<1>0. FlowTypes /\ Conserved /\ RelaysSound /\ (Undisturbed => AnswerFirst)
  BY DEF FlowInv
<1>s. /\ sent \in [FL!Links -> [FL!Directions -> Nat]]
      /\ \A k \in FL!Links, d \in FL!Directions : sent[k][d] \in Nat
      /\ OnTheWay(sent, "up") \in Nat /\ OnTheWay(sent, "down") \in Nat
  BY <1>0, SentAt DEF FlowTypes
<1>r. /\ app \in [pc : {"idle", "open", "eof", "closed"}, sent : Nat, got : Nat, half : BOOLEAN]
      /\ target \in [pc : {"idle", "open", "closed"}, sent : Nat, got : Nat]
  BY <1>0 DEF FlowTypes
<1>1. CASE FL!Connect
  <2>1. /\ app.pc = "idle" /\ relay' = [relay EXCEPT ![1] = "dialing"]
        /\ tracked' = {FL!ClientEnd} /\ UNCHANGED <<sent, fin, shut, copying, target, fwdr, shown, broken>>
        /\ app' = [app EXCEPT !.pc = "open"]
    BY <1>1 DEF FL!Connect
  <2>2. /\ app' \in [pc : {"idle", "open", "eof", "closed"}, sent : Nat, got : Nat, half : BOOLEAN]
        /\ app'.pc = "open" /\ app'.sent = app.sent /\ app'.got = app.got /\ app'.half = app.half
    BY <1>r, <2>1
  <2>3. /\ relay' \in [FL!Relays -> {"none", "dialing", "track", "relay", "ended"}]
        /\ relay[1] = "none" /\ relay'[1] = "dialing"
        /\ \A j \in FL!Relays : j # 1 => relay'[j] = relay[j]
    BY <1>0, <2>1, LinksAre DEF FlowTypes, RelaysSound
  <2>4. FlowTypes'
    BY <1>0, <2>1, <2>2, <2>3 DEF FlowTypes
  <2>5. Conserved'
    BY <1>0, <2>1, <2>2 DEF Conserved, OnTheWay
  <2>6. RelaysSound'
    BY <1>0, <2>1, <2>2, <2>3, LinksAre DEF RelaysSound, FL!ClientEnd, FL!TargetEnd
  <2>7. Undisturbed' => AnswerFirst'
    BY <1>0, <2>1, <2>2, <2>3, LinksAre DEF Undisturbed, AnswerFirst, Stopped, Passed
  <2>. QED  BY <2>4, <2>5, <2>6, <2>7 DEF FlowInv
<1>2. CASE FL!Send
  <2>1. /\ app' = [app EXCEPT !.sent = @ + 1] /\ app.sent < FlowRequest /\ app.pc = "open"
        /\ sent' = Counted(sent, 1, "up", sent[1]["up"] + 1)
        /\ UNCHANGED <<fin, shut, relay, copying, target, fwdr, tracked, shown, broken>>
    BY <1>2 DEF FL!Send, Counted
  <2>2. /\ app' \in [pc : {"idle", "open", "eof", "closed"}, sent : Nat, got : Nat, half : BOOLEAN]
        /\ app'.pc = app.pc /\ app'.sent = app.sent + 1 /\ app'.got = app.got /\ app'.half = app.half
    BY <1>r, <2>1
  <2>3. 1 \in FL!Links /\ "up" \in FL!Directions /\ "down" \in FL!Directions
        /\ sent[1]["up"] \in Nat /\ sent[1]["up"] + 1 \in Nat
    BY <1>s, LinksAre
  <2>4. /\ sent' \in [FL!Links -> [FL!Directions -> Nat]]
        /\ \A l \in FL!Links : sent'[l]["down"] = sent[l]["down"]
        /\ OnTheWay(sent', "up") = OnTheWay(sent, "up") + 1
        /\ OnTheWay(sent', "down") = OnTheWay(sent, "down")
    BY <1>s, <2>1, <2>3, OneCount
  <2>5. FlowTypes'
    BY <1>0, <2>1, <2>2, <2>4 DEF FlowTypes
  <2>6. Conserved'
    BY <1>0, <1>s, <1>r, <2>1, <2>2, <2>3, <2>4, FlowNumbers DEF Conserved
  <2>7. RelaysSound'
    BY <1>0, <2>1, <2>2 DEF RelaysSound
  <2>8. Undisturbed' => AnswerFirst'
    BY <1>0, <2>1, <2>2, <2>4 DEF Undisturbed, AnswerFirst, Stopped, Passed
  <2>. QED  BY <2>5, <2>6, <2>7, <2>8 DEF FlowInv
<1>3. CASE FL!HalfClose \/ FL!Quit
  <2>1. /\ app' \in {[app EXCEPT !.half = TRUE], [app EXCEPT !.pc = "closed"]} /\ app.pc # "idle"
        /\ UNCHANGED <<sent, relay, copying, target, fwdr, tracked, shown, broken>>
        /\ fin' = fin \cup {<<1, "up">>} /\ (shut' = shut \/ shut' = shut \cup {<<1, "l">>})
    BY <1>3 DEF FL!HalfClose, FL!Quit, FL!CloseEnds, FL!Closed, FL!Writes
  <2>2. /\ app' \in [pc : {"idle", "open", "eof", "closed"}, sent : Nat, got : Nat, half : BOOLEAN]
        /\ app'.sent = app.sent /\ app'.got = app.got /\ app'.pc # "idle" /\ (app'.half \/ app'.pc = "closed")
    BY <1>r, <2>1
  <2>3. /\ fin' \subseteq FL!Links \X FL!Directions /\ shut' \subseteq FL!Links \X {"l", "r"}
    BY <1>0, <2>1, LinksAre DEF FlowTypes
  <2>4. FlowTypes'
    BY <1>0, <2>1, <2>2, <2>3 DEF FlowTypes
  <2>5. Conserved' /\ RelaysSound' /\ ~Undisturbed'
    BY <1>0, <2>1, <2>2 DEF Conserved, OnTheWay, RelaysSound, Undisturbed
  <2>. QED  BY <2>4, <2>5 DEF FlowInv
<1>4. CASE FL!Receive
  <2>1. /\ app.pc = "open"
        /\ UNCHANGED <<fin, shut, relay, copying, target, fwdr, tracked, shown, broken>>
    BY <1>4 DEF FL!Receive
  <2>0. 1 \in FL!Links /\ "down" \in FL!Directions /\ "up" \in FL!Directions /\ sent[1]["down"] \in Nat
    BY <1>s, LinksAre
  <2>2. CASE sent[1]["down"] > 0
    <3>1. /\ app' = [app EXCEPT !.got = @ + 1] /\ sent' = Counted(sent, 1, "down", sent[1]["down"] - 1)
      BY <1>4, <2>2 DEF FL!Receive, Counted
    <3>2. /\ app' \in [pc : {"idle", "open", "eof", "closed"}, sent : Nat, got : Nat, half : BOOLEAN]
          /\ app'.pc = app.pc /\ app'.sent = app.sent /\ app'.got = app.got + 1 /\ app'.half = app.half
      BY <1>r, <3>1
    <3>3. sent[1]["down"] - 1 \in Nat
      BY <2>0, <2>2
    <3>4. /\ sent' \in [FL!Links -> [FL!Directions -> Nat]]
          /\ \A l \in FL!Links : l # 1 => sent'[l]["down"] = sent[l]["down"]
          /\ OnTheWay(sent', "down") = OnTheWay(sent, "down") - 1
          /\ OnTheWay(sent', "up") = OnTheWay(sent, "up")
      BY <1>s, <2>0, <3>1, <3>3, OneCount
    <3>5. FlowTypes'
      BY <1>0, <2>1, <3>2, <3>4 DEF FlowTypes
    <3>a. /\ app.sent = target.got + OnTheWay(sent, "up") /\ app.sent <= FlowRequest
          /\ target.sent = app.got + OnTheWay(sent, "down") /\ target.sent <= FlowResponse
          /\ (target.sent > 0 => target.got = FlowRequest)
      BY <1>0 DEF Conserved
    <3>b. app.got \in Nat
      BY <1>r
    <3>c. target.sent = (app.got + 1) + (OnTheWay(sent, "down") - 1)
      BY <1>s, <3>a, <3>b, SMTT(30)
    <3>6. Conserved'
      BY <2>1, <3>2, <3>4, <3>a, <3>c DEF Conserved
    <3>7. RelaysSound'
      BY <1>0, <2>1, <3>2 DEF RelaysSound
    <3>8. \A k \in FL!Links : (k # 1 /\ Passed(k)) => Passed(k)'
      BY <2>1, <3>4, LinksAre DEF Passed
    <3>9. Undisturbed' => AnswerFirst'
      BY <1>0, <2>1, <3>2, <3>8, LinksAre DEF Undisturbed, AnswerFirst, Stopped
    <3>. QED  BY <3>5, <3>6, <3>7, <3>9 DEF FlowInv
  <2>3. CASE ~(sent[1]["down"] > 0)
    <3>1. /\ <<1, "down">> \in fin /\ app' = [app EXCEPT !.pc = "eof"] /\ UNCHANGED sent
      BY <1>4, <2>3 DEF FL!Receive
    <3>2. /\ app' \in [pc : {"idle", "open", "eof", "closed"}, sent : Nat, got : Nat, half : BOOLEAN]
          /\ app'.pc = "eof" /\ app'.sent = app.sent /\ app'.got = app.got /\ app'.half = app.half
      BY <1>r, <3>1
    <3>3. FlowTypes'
      BY <1>0, <2>1, <3>1, <3>2 DEF FlowTypes
    <3>4. Conserved' /\ RelaysSound'
      BY <1>0, <2>1, <3>1, <3>2 DEF Conserved, OnTheWay, RelaysSound
    <3>5. ASSUME Undisturbed'
          PROVE  AnswerFirst'
      <4>1. AnswerFirst
        BY <1>0, <2>1, <3>2, <3>5 DEF Undisturbed
      <4>2. Passed(2)
        BY <3>1, <4>1, LinksAre DEF AnswerFirst
      <4>3. sent[2]["down"] = 0 /\ sent[3]["down"] = 0 /\ sent[4]["down"] = 0 /\ sent[1]["down"] = 0
        BY <2>0, <2>3, <4>2, LinksAre DEF Passed
      <4>4. OnTheWay(sent, "down") = 0
        BY <4>3 DEF OnTheWay
      <4>5. app.got = FlowResponse
        BY <1>0, <1>r, <4>2, <4>4 DEF Conserved, Passed
      <4>. QED  BY <2>1, <3>1, <3>2, <4>1, <4>5 DEF AnswerFirst, Stopped, Passed
    <3>. QED  BY <3>3, <3>4, <3>5 DEF FlowInv
  <2>. QED  BY <2>2, <2>3
<1>5. CASE FL!Serve
  <2>0. /\ target.pc = "open" /\ UNCHANGED <<relay, copying, app, fwdr, tracked, shown, broken>>
        /\ 4 \in FL!Links /\ "down" \in FL!Directions /\ "up" \in FL!Directions
        /\ sent[4]["down"] \in Nat /\ sent[4]["up"] \in Nat
    BY <1>5, <1>s, LinksAre DEF FL!Serve
  <2>n. Undisturbed => (AnswerFirst /\ \A j \in FL!Relays : ~Stopped(j))
    BY <1>0, <2>0 DEF AnswerFirst, Passed
  <2>1. CASE /\ sent[4]["up"] > 0 /\ target' = [target EXCEPT !.got = @ + 1]
             /\ sent' = [sent EXCEPT ![4]["up"] = @ - 1] /\ UNCHANGED <<fin, shut>>
    <3>1. /\ target' \in [pc : {"idle", "open", "closed"}, sent : Nat, got : Nat]
          /\ target'.pc = target.pc /\ target'.sent = target.sent /\ target'.got = target.got + 1
      BY <1>r, <2>1
    <3>2. sent[4]["up"] - 1 \in Nat /\ sent' = Counted(sent, 4, "up", sent[4]["up"] - 1)
      BY <2>0, <2>1 DEF Counted
    <3>3. /\ sent' \in [FL!Links -> [FL!Directions -> Nat]]
          /\ OnTheWay(sent', "up") = OnTheWay(sent, "up") - sent[4]["up"] + (sent[4]["up"] - 1)
          /\ OnTheWay(sent', "down") = OnTheWay(sent, "down")
      BY <1>s, <2>0, <3>2, OneCount
    <3>4. FlowTypes'
      BY <1>0, <2>0, <2>1, <3>1, <3>3 DEF FlowTypes
    <3>5. sent[4]["up"] <= OnTheWay(sent, "up")
      BY <1>s, <2>0, SentAt
    <3>a. /\ app.sent = target.got + OnTheWay(sent, "up") /\ app.sent <= FlowRequest
          /\ target.sent = app.got + OnTheWay(sent, "down") /\ target.sent <= FlowResponse
          /\ (target.sent > 0 => target.got = FlowRequest)
      BY <1>0 DEF Conserved
    <3>b. app.sent \in Nat /\ target.got \in Nat /\ app.sent = target.got + OnTheWay(sent, "up")
      BY <1>r, <3>a
    <3>c. OnTheWay(sent', "up") = OnTheWay(sent, "up") - 1
      BY <1>s, <2>0, <3>3
    <3>d. app'.sent = target'.got + OnTheWay(sent', "up")
      <4>1. app.sent = (target.got + 1) + (OnTheWay(sent, "up") - 1)
        BY <1>s, <3>b
      <4>. QED  BY <2>0, <3>1, <3>c, <4>1
    <3>e. target.got # FlowRequest
      BY <1>s, <2>0, <2>1, <3>5, <3>a, <3>b, FlowNumbers
    <3>f. ~(target.sent > 0)
      BY <3>a, <3>e
    <3>6. Conserved'
      BY <2>0, <3>1, <3>3, <3>a, <3>d, <3>f DEF Conserved
    <3>7. RelaysSound'
      BY <1>0, <2>0, <2>1 DEF RelaysSound
    <3>8. Undisturbed' => AnswerFirst'
      BY <2>0, <2>1, <2>n, <3>1 DEF Undisturbed, AnswerFirst, Stopped
    <3>. QED  BY <3>4, <3>6, <3>7, <3>8 DEF FlowInv
  <2>2. CASE /\ target.got = FlowRequest /\ target.sent < FlowResponse
             /\ target' = [target EXCEPT !.sent = @ + 1]
             /\ sent' = [sent EXCEPT ![4]["down"] = @ + 1] /\ UNCHANGED <<fin, shut>>
    <3>1. /\ target' \in [pc : {"idle", "open", "closed"}, sent : Nat, got : Nat]
          /\ target'.pc = target.pc /\ target'.sent = target.sent + 1 /\ target'.got = target.got
      BY <1>r, <2>2
    <3>2. sent[4]["down"] + 1 \in Nat /\ sent' = Counted(sent, 4, "down", sent[4]["down"] + 1)
      BY <2>0, <2>2 DEF Counted
    <3>3. /\ sent' \in [FL!Links -> [FL!Directions -> Nat]]
          /\ OnTheWay(sent', "down") = OnTheWay(sent, "down") + 1
          /\ OnTheWay(sent', "up") = OnTheWay(sent, "up")
      BY SMTT(30), <1>s, <2>0, <3>2, OneCount
    <3>4. FlowTypes'
      BY <1>0, <2>0, <2>2, <3>1, <3>3 DEF FlowTypes
    <3>6. Conserved'
      BY <1>0, <1>s, <1>r, <2>0, <2>2, <3>1, <3>3, FlowNumbers DEF Conserved
    <3>7. RelaysSound'
      BY <1>0, <2>0, <2>2 DEF RelaysSound
    <3>8. Undisturbed' => AnswerFirst'
      BY <2>0, <2>2, <2>n, <3>1 DEF Undisturbed, AnswerFirst, Stopped
    <3>. QED  BY <3>4, <3>6, <3>7, <3>8 DEF FlowInv
  <2>3. CASE /\ target.sent = FlowResponse \/ (<<4, "up">> \in fin /\ target.got < FlowRequest)
             /\ target' = [target EXCEPT !.pc = "closed"]
             /\ FL!CloseEnds({<<4, "r">>}) /\ UNCHANGED sent
    <3>1. /\ target' \in [pc : {"idle", "open", "closed"}, sent : Nat, got : Nat]
          /\ target'.pc = "closed" /\ target'.sent = target.sent /\ target'.got = target.got
      BY <1>r, <2>3
    <3>2. fin' = fin \cup {<<4, "down">>} /\ shut' = shut \cup {<<4, "r">>}
      BY <2>3 DEF FL!CloseEnds, FL!Closed, FL!Writes
    <3>3. /\ fin' \subseteq FL!Links \X FL!Directions /\ shut' \subseteq FL!Links \X {"l", "r"}
      BY <1>0, <3>2, LinksAre DEF FlowTypes
    <3>4. FlowTypes'
      BY <1>0, <2>0, <2>3, <3>1, <3>3 DEF FlowTypes
    <3>5. Conserved' /\ RelaysSound'
      BY <1>0, <2>0, <2>3, <3>1, <3>2 DEF Conserved, OnTheWay, RelaysSound
    <3>6. ASSUME Undisturbed'
          PROVE  AnswerFirst'
      <4>1. Undisturbed /\ AnswerFirst /\ \A j \in FL!Relays : ~Stopped(j)
        BY <2>0, <2>n, <3>6 DEF Undisturbed
      <4>2. <<4, "up">> \notin fin
        BY <4>1, LinksAre DEF AnswerFirst
      <4>3. \A j \in FL!Relays : ~Stopped(j)'
        BY <2>0, <4>1 DEF Stopped
      <4>. QED  BY <2>0, <2>3, <3>1, <3>2, <4>1, <4>2, <4>3, LinksAre DEF AnswerFirst
    <3>. QED  BY <3>4, <3>5, <3>6 DEF FlowInv
  <2>. QED  BY <1>5, <2>1, <2>2, <2>3 DEF FL!Serve
<1>. QED  BY <1>1, <1>2, <1>3, <1>4, <1>5

(* A dial goes on to the next hop, succeeds or fails.                      *)
LEMMA DialKeeps ==
    ASSUME FlowInv, NEW j \in FL!Relays, FL!DialNext(j) \/ FL!DialDone(j) \/ FL!DialFails(j)
    PROVE  FlowInv'
<1>0. FlowTypes /\ Conserved /\ RelaysSound /\ (Undisturbed => AnswerFirst)
  BY DEF FlowInv
<1>r. /\ relay \in [FL!Relays -> {"none", "dialing", "track", "relay", "ended"}]
      /\ copying \in [FL!Relays -> [FL!Directions -> BOOLEAN]]
      /\ target \in [pc : {"idle", "open", "closed"}, sent : Nat, got : Nat]
  BY <1>0 DEF FlowTypes
<1>1. CASE FL!DialNext(j)
  <2>0. /\ relay[j] = "dialing"
        /\ UNCHANGED <<sent, fin, shut, copying, app, fwdr, tracked, shown, broken>>
    BY <1>1 DEF FL!DialNext
  <2>1. CASE j < 3 /\ relay[j + 1] = "none" /\ relay' = [relay EXCEPT ![j + 1] = "dialing"] /\ UNCHANGED target
    <3>1. j + 1 \in FL!Relays /\ j + 1 # 1
      BY <2>1, LinksAre
    <3>2. /\ relay' \in [FL!Relays -> {"none", "dialing", "track", "relay", "ended"}]
          /\ relay'[j + 1] = "dialing" /\ \A i \in FL!Relays : i # j + 1 => relay'[i] = relay[i]
      BY <1>r, <2>1, <3>1
    <3>3. FlowTypes'
      BY <1>0, <2>0, <2>1, <3>2 DEF FlowTypes
    <3>4. Conserved'
      BY <1>0, <2>0, <2>1 DEF Conserved, OnTheWay
    <3>5. RelaysSound'
      BY <1>0, <2>0, <2>1, <3>1, <3>2, LinksAre DEF RelaysSound
    <3>6. \A i \in FL!Relays : Stopped(i)' <=> Stopped(i)
      BY <2>0, <2>1, <3>1, <3>2 DEF Stopped
    <3>7. Undisturbed' => AnswerFirst'
      BY <1>0, <2>0, <2>1, <3>1, <3>2, <3>6 DEF Undisturbed, AnswerFirst, Passed
    <3>. QED  BY <3>3, <3>4, <3>5, <3>7 DEF FlowInv
  <2>2. CASE j = 3 /\ target.pc = "idle" /\ target' = [target EXCEPT !.pc = "open"] /\ UNCHANGED relay
    <3>1. /\ target' \in [pc : {"idle", "open", "closed"}, sent : Nat, got : Nat]
          /\ target'.pc = "open" /\ target'.sent = target.sent /\ target'.got = target.got
      BY <1>r, <2>2
    <3>2. FlowTypes'
      BY <1>0, <2>0, <2>2, <3>1 DEF FlowTypes
    <3>3. Conserved' /\ RelaysSound'
      BY <1>0, <2>0, <2>2, <3>1 DEF Conserved, OnTheWay, RelaysSound
    <3>4. Undisturbed => (AnswerFirst /\ \A i \in FL!Relays : ~Stopped(i))
      BY <1>0, <2>2 DEF AnswerFirst, Passed
    <3>5. Undisturbed' => AnswerFirst'
      BY <2>0, <2>2, <3>1, <3>4 DEF Undisturbed, AnswerFirst, Stopped
    <3>. QED  BY <3>2, <3>3, <3>5 DEF FlowInv
  <2>. QED  BY <1>1, <2>1, <2>2 DEF FL!DialNext
<1>2. CASE FL!DialDone(j)
  <2>0. /\ relay[j] = "dialing" /\ UNCHANGED <<sent, fin, shut, app, target, fwdr, tracked, broken>>
        /\ relay' = [relay EXCEPT ![j] = IF j = 1 THEN "track" ELSE "relay"]
        /\ copying' = [copying EXCEPT ![j] = IF j = 1 THEN @ ELSE [d \in FL!Directions |-> TRUE]]
        /\ shown' = IF j = 1 THEN "open" ELSE shown
    BY <1>2 DEF FL!DialDone, FL!Entered
  <2>1. /\ relay' \in [FL!Relays -> {"none", "dialing", "track", "relay", "ended"}]
        /\ relay'[j] = (IF j = 1 THEN "track" ELSE "relay")
        /\ \A i \in FL!Relays : i # j => relay'[i] = relay[i]
    BY <1>r, <2>0
  <2>2. /\ copying' \in [FL!Relays -> [FL!Directions -> BOOLEAN]]
        /\ (j # 1 => \A d \in FL!Directions : copying'[j][d]) /\ (j = 1 => copying'[j] = copying[j])
        /\ \A i \in FL!Relays : i # j => copying'[i] = copying[i]
    BY <1>r, <2>0
  <2>3. FlowTypes'
    BY <1>0, <2>0, <2>1, <2>2 DEF FlowTypes
  <2>4. Conserved'
    BY <1>0, <2>0 DEF Conserved, OnTheWay
  <2>5. RelaysSound'
    BY <1>0, <2>0, <2>1, <2>2, LinksAre DEF RelaysSound
  <2>6. \A i \in FL!Relays : Stopped(i)' <=> Stopped(i)
    BY <2>0, <2>1, <2>2 DEF Stopped
  <2>7. Undisturbed' => AnswerFirst'
    BY <1>0, <2>0, <2>1, <2>6 DEF Undisturbed, AnswerFirst, Passed
  <2>. QED  BY <2>3, <2>4, <2>5, <2>7 DEF FlowInv
<1>3. CASE FL!DialFails(j)
  <2>0. /\ relay[j] = "dialing" /\ FL!End(j) /\ broken' = TRUE
        /\ UNCHANGED <<sent, copying, app, target, fwdr, shown>>
    BY <1>3 DEF FL!DialFails
  <2>1. /\ relay' = [relay EXCEPT ![j] = "ended"]
        /\ shut' = shut \cup {<<j, "r">>, <<j + 1, "l">>}
        /\ fin' \subseteq FL!Links \X FL!Directions /\ shut' \subseteq FL!Links \X {"l", "r"}
        /\ tracked' \subseteq {FL!ClientEnd, FL!TargetEnd}
        /\ (j = 1 => tracked' = {}) /\ (j # 1 => tracked' = tracked)
        /\ relay' \in [FL!Relays -> {"none", "dialing", "track", "relay", "ended"}]
    BY <1>0, <2>0, EndCloses
  <2>2. relay'[j] = "ended" /\ \A i \in FL!Relays : i # j => relay'[i] = relay[i]
    BY <1>r, <2>1
  <2>3. FlowTypes'
    BY <1>0, <2>0, <2>1 DEF FlowTypes
  <2>4. Conserved' /\ ~Undisturbed'
    BY <1>0, <2>0 DEF Conserved, OnTheWay, Undisturbed
  <2>5. RelaysSound'
    BY <1>0, <2>0, <2>1, <2>2, LinksAre DEF RelaysSound
  <2>. QED  BY <2>3, <2>4, <2>5 DEF FlowInv
<1>. QED  BY <1>1, <1>2, <1>3

(* A relay that ends keeps the invariant when the answer has passed it, or *)
(* when somebody broke the connection.                                     *)
LEMMA EndKeeps ==
    ASSUME FlowInv, NEW j \in FL!Relays, FL!End(j), relay[j] \in {"track", "relay"},
           Undisturbed => Stopped(j), j # 1 => shown' = shown, j = 1 => shown' = "closed",
           UNCHANGED <<sent, copying, app, target, fwdr, broken>>
    PROVE  FlowInv'
<1>0. FlowTypes /\ Conserved /\ RelaysSound /\ (Undisturbed => AnswerFirst)
  BY DEF FlowInv
<1>1. /\ relay' = [relay EXCEPT ![j] = "ended"]
      /\ fin' = fin \cup {<<j, "down">>, <<j + 1, "up">>}
      /\ shut' = shut \cup {<<j, "r">>, <<j + 1, "l">>}
      /\ fin' \subseteq FL!Links \X FL!Directions /\ shut' \subseteq FL!Links \X {"l", "r"}
      /\ tracked' \subseteq {FL!ClientEnd, FL!TargetEnd}
      /\ (j = 1 => tracked' = {}) /\ (j # 1 => tracked' = tracked)
      /\ relay' \in [FL!Relays -> {"none", "dialing", "track", "relay", "ended"}]
  BY <1>0, EndCloses
<1>2. relay'[j] = "ended" /\ \A i \in FL!Relays : i # j => relay'[i] = relay[i]
  BY <1>0, <1>1 DEF FlowTypes
<1>3. FlowTypes'
  BY <1>0, <1>1 DEF FlowTypes
<1>4. Conserved'
  BY <1>0 DEF Conserved, OnTheWay
<1>5. RelaysSound'
  BY <1>0, <1>1, <1>2, LinksAre DEF RelaysSound
<1>6. ASSUME Undisturbed'
      PROVE  AnswerFirst'
  <2>1. Undisturbed /\ AnswerFirst /\ Stopped(j)
    BY <1>0, <1>6 DEF Undisturbed
  <2>2. Stopped(j)' /\ \A i \in FL!Relays : (Stopped(i)' => Stopped(i)) /\ (Stopped(i) => Stopped(i)')
    BY <1>2, <2>1 DEF Stopped
  <2>3. \A k \in FL!Links : Passed(k)' <=> Passed(k)
    BY DEF Passed
  <2>4. /\ (target'.pc = "closed" => target'.sent = FlowResponse)
        /\ (app'.pc = "eof" => app'.got = FlowResponse)
        /\ \A i \in FL!Relays : Stopped(i)' => Passed(i + 1)'
    BY <2>1, <2>2, <2>3, LinksAre DEF AnswerFirst
  <2>5. \A i \in FL!Relays : (<<i, "down">> \in fin' \/ <<i + 1, "up">> \in fin') => Stopped(i)'
    BY <1>1, <2>1, <2>2, LinksAre DEF AnswerFirst
  <2>6. \A i \in FL!Relays : (<<i, "r">> \in shut' \/ <<i + 1, "l">> \in shut') => relay'[i] = "ended"
    BY <1>1, <1>2, <2>1, LinksAre DEF AnswerFirst
  <2>7. /\ (<<4, "down">> \in fin' => target'.pc = "closed") /\ <<1, "up">> \notin fin'
        /\ (<<4, "r">> \in shut' => target'.pc = "closed") /\ <<1, "l">> \notin shut'
    BY <1>1, <2>1, LinksAre DEF AnswerFirst
  <2>. QED  BY <2>4, <2>5, <2>6, <2>7 DEF AnswerFirst
<1>. QED  BY <1>3, <1>4, <1>5, <1>6 DEF FlowInv

(* The forwarder's own steps.                                              *)
LEMMA ForwarderKeeps ==
    ASSUME FlowInv, FL!Track \/ FL!Close \/ FL!CloseTracked \/ FL!Waited
    PROVE  FlowInv'
<1>0. FlowTypes /\ Conserved /\ RelaysSound /\ (Undisturbed => AnswerFirst)
  BY DEF FlowInv
<1>r. /\ relay \in [FL!Relays -> {"none", "dialing", "track", "relay", "ended"}]
      /\ copying \in [FL!Relays -> [FL!Directions -> BOOLEAN]] /\ 1 \in FL!Relays
  BY <1>0, LinksAre DEF FlowTypes
<1>1. CASE FL!Track
  <2>0. relay[1] = "track" /\ UNCHANGED <<sent, app, target, fwdr, broken>>
    BY <1>1 DEF FL!Track
  <2>1. CASE fwdr = "open"
    <3>1. /\ tracked' = tracked \cup {FL!TargetEnd} /\ relay' = [relay EXCEPT ![1] = "relay"]
          /\ copying' = [copying EXCEPT ![1] = [d \in FL!Directions |-> TRUE]]
          /\ UNCHANGED <<fin, shut, shown>>
      BY <1>1, <2>1 DEF FL!Track
    <3>2. /\ relay' \in [FL!Relays -> {"none", "dialing", "track", "relay", "ended"}]
          /\ relay'[1] = "relay" /\ \A i \in FL!Relays : i # 1 => relay'[i] = relay[i]
      BY <1>r, <3>1
    <3>3. /\ copying' \in [FL!Relays -> [FL!Directions -> BOOLEAN]]
          /\ (\A d \in FL!Directions : copying'[1][d])
          /\ \A i \in FL!Relays : i # 1 => copying'[i] = copying[i]
      BY <1>r, <3>1
    <3>4. FlowTypes'
      BY <1>0, <2>0, <3>1, <3>2, <3>3 DEF FlowTypes
    <3>5. Conserved'
      BY <1>0, <2>0 DEF Conserved, OnTheWay
    <3>6. RelaysSound'
      BY <1>0, <2>0, <3>1, <3>2, <3>3, LinksAre DEF RelaysSound
    <3>7. \A i \in FL!Relays : Stopped(i)' <=> Stopped(i)
      BY <2>0, <3>2, <3>3 DEF Stopped
    <3>8. Undisturbed' => AnswerFirst'
      BY <1>0, <2>0, <3>1, <3>2, <3>7 DEF Undisturbed, AnswerFirst, Passed
    <3>. QED  BY <3>4, <3>5, <3>6, <3>8 DEF FlowInv
  <2>2. CASE fwdr # "open"
    <3>1. FL!End(1) /\ shown' = "closed" /\ UNCHANGED copying
      BY <1>1, <2>2 DEF FL!Track, FL!Marked
    <3>2. ~Undisturbed
      BY <1>0, <2>2 DEF RelaysSound, Undisturbed
    <3>. QED  BY <1>r, <2>0, <3>1, <3>2, EndKeeps
  <2>. QED  BY <2>1, <2>2
<1>2. CASE FL!Close \/ FL!Waited
  <2>1. /\ fwdr' \in {"cancelled", "closed"} /\ broken' = TRUE
        /\ UNCHANGED <<sent, fin, shut, relay, copying, app, target, tracked, shown>>
    BY <1>0, <1>2 DEF FL!Close, FL!Waited, RelaysSound, FlowTypes
  <2>2. FlowTypes'
    BY <1>0, <2>1 DEF FlowTypes
  <2>3. Conserved' /\ RelaysSound' /\ ~Undisturbed'
    BY <1>0, <2>1 DEF Conserved, OnTheWay, RelaysSound, Undisturbed
  <2>. QED  BY <2>2, <2>3 DEF FlowInv
<1>3. CASE FL!CloseTracked
  <2>1. /\ fwdr = "cancelled" /\ fwdr' = "waiting" /\ shut' = shut \cup tracked
        /\ fin' = FL!Closed(fin, tracked) /\ shown' \in {"closed", shown}
        /\ (shown' = "closed" \/ shown' = shown)
        /\ (FL!TargetEnd \notin tracked => shown' = shown)
        /\ UNCHANGED <<sent, relay, copying, app, target, tracked, broken>>
    BY <1>3 DEF FL!CloseTracked, FL!CloseEnds, FL!Marked
  <2>2. /\ fin' \subseteq FL!Links \X FL!Directions /\ shut' \subseteq FL!Links \X {"l", "r"}
    BY <1>0, <2>1, LinksAre DEF FlowTypes, FL!Closed, FL!Writes, FL!ClientEnd, FL!TargetEnd
  <2>3. FlowTypes'
    BY <1>0, <2>1, <2>2 DEF FlowTypes
  <2>4. Conserved' /\ ~Undisturbed'
    BY <1>0, <2>1 DEF Conserved, OnTheWay, RelaysSound, Undisturbed
  <2>5. RelaysSound'
    BY <1>0, <2>1, LinksAre DEF RelaysSound
  <2>. QED  BY <2>3, <2>4, <2>5 DEF FlowInv
<1>. QED  BY <1>1, <1>2, <1>3

(* A block is copied: towards the application only while no relay in front *)
(* of it has stopped.                                                      *)
LEMMA CopyKeeps ==
    ASSUME FlowInv, NEW j \in FL!Relays, NEW d \in FL!Directions, FL!Copy(j, d)
    PROVE  FlowInv'
<1>0. FlowTypes /\ Conserved /\ RelaysSound /\ (Undisturbed => AnswerFirst)
  BY DEF FlowInv
<1>1. PICK a \in FL!Links, b \in FL!Links :
        /\ (d = "up" => (a = j /\ b = j + 1)) /\ (d = "down" => (a = j + 1 /\ b = j))
        /\ sent[a][d] > 0 /\ sent' = [sent EXCEPT ![a][d] = @ - 1, ![b][d] = @ + 1]
  BY LinksAre DEF FL!Copy, FL!ReadEnd, FL!WriteEnd
<1>2. /\ UNCHANGED <<fin, shut, relay, copying, app, target, fwdr, tracked, shown, broken>>
      /\ sent \in [FL!Links -> [FL!Directions -> Nat]] /\ (b = a + 1 \/ a = b + 1)
      /\ "up" \in FL!Directions /\ "down" \in FL!Directions
  BY <1>0, <1>1, LinksAre DEF FL!Copy, FlowTypes
<1>3. /\ sent' \in [FL!Links -> [FL!Directions -> Nat]]
      /\ \A l \in FL!Links, e \in FL!Directions :
           (e # d \/ (l # a /\ l # b)) => sent'[l][e] = sent[l][e]
      /\ \A e \in FL!Directions : OnTheWay(sent', e) = OnTheWay(sent, e)
  BY <1>1, <1>2, BlockMoves
<1>4. FlowTypes'
  BY <1>0, <1>2, <1>3 DEF FlowTypes
<1>5. Conserved'
  BY <1>0, <1>2, <1>3 DEF Conserved
<1>6. RelaysSound'
  BY <1>0, <1>2 DEF RelaysSound
<1>7. \A k \in FL!Links : Passed(k) => Passed(k)'
  <2>1. CASE d = "up"
    BY <1>2, <1>3, <2>1 DEF Passed
  <2>2. CASE d = "down"
    <3>1. ASSUME NEW k \in FL!Links, Passed(k)
          PROVE  ~(j + 1 >= k) /\ \A m \in FL!Links : m >= k => (m # a /\ m # b)
      <4>1. ~(j + 1 >= k)
        BY <1>1, <2>2, <3>1 DEF Passed
      <4>. QED  BY <1>1, <2>2, <4>1, LinksAre
    <3>. QED  BY <1>2, <1>3, <3>1 DEF Passed
  <2>. QED  BY <2>1, <2>2, LinksAre
<1>8. Undisturbed' => AnswerFirst'
  BY <1>0, <1>2, <1>7, LinksAre DEF Undisturbed, AnswerFirst, Stopped
<1>. QED  BY <1>4, <1>5, <1>6, <1>8 DEF FlowInv

(* A copy loop ends on an undisturbed connection only when the answer has  *)
(* passed its relay.                                                       *)
LEMMA EndsAfterAnswer ==
    ASSUME FlowInv, Undisturbed, NEW j \in FL!Relays, NEW d \in FL!Directions, FL!CopyEnds(j, d)
    PROVE  Passed(j + 1)
<1>0. FlowTypes /\ Conserved /\ RelaysSound /\ AnswerFirst
  BY DEF FlowInv
<1>a. /\ \A i \in FL!Relays : Stopped(i) => Passed(i + 1)
      /\ \A i \in FL!Relays : (<<i, "down">> \in fin \/ <<i + 1, "up">> \in fin) => Stopped(i)
      /\ \A i \in FL!Relays : (<<i, "r">> \in shut \/ <<i + 1, "l">> \in shut) => Stopped(i)
      /\ (<<4, "down">> \in fin => target.pc = "closed") /\ <<1, "up">> \notin fin
      /\ (<<4, "r">> \in shut => target.pc = "closed") /\ <<1, "l">> \notin shut
      /\ (target.pc = "closed" => target.sent = FlowResponse)
  BY <1>0 DEF AnswerFirst, Stopped
<1>s. /\ \A k \in FL!Links, e \in FL!Directions : sent[k][e] \in Nat /\ sent[k][e] <= OnTheWay(sent, e)
      /\ OnTheWay(sent, "up") \in Nat /\ OnTheWay(sent, "down") \in Nat
  BY <1>0, SentAt DEF FlowTypes
<1>e. CASE <<j, "r">> \in shut \/ <<j + 1, "l">> \in shut
  BY <1>a, <1>e
<1>1. CASE d = "down" /\ sent[j + 1]["down"] = 0 /\ <<j + 1, "down">> \in fin
  <2>1. CASE j = 3
    BY <1>1, <1>a, <2>1, LinksAre DEF Passed
  <2>2. CASE j # 3
    <3>1. j + 1 \in FL!Relays
      BY <2>2, LinksAre
    <3>2. Passed((j + 1) + 1)
      BY <1>1, <1>a, <3>1
    <3>3. \A m \in FL!Links : m >= j + 1 => (m = j + 1 \/ m >= (j + 1) + 1)
      BY LinksAre
    <3>. QED  BY <1>1, <3>2, <3>3 DEF Passed
  <2>. QED  BY <2>1, <2>2
<1>2. CASE d = "down" /\ sent[j + 1]["down"] > 0 /\ <<j, "l">> \in shut
  <2>1. j # 1
    BY <1>2, <1>a
  <2>2. PICK i \in FL!Relays : j = i + 1
    BY <2>1, LinksAre
  <2>3. Passed(j)
    BY <1>2, <1>a, <2>2
  <2>4. j + 1 \in FL!Links /\ j + 1 >= j
    BY LinksAre
  <2>5. sent[j + 1]["down"] = 0
    BY <2>3, <2>4 DEF Passed
  <2>. QED  BY <1>2, <2>5
<1>3. CASE d = "up" /\ <<j, "up">> \in fin
  <2>1. j # 1
    BY <1>3, <1>a
  <2>2. PICK i \in FL!Relays : j = i + 1
    BY <2>1, LinksAre
  <2>3. Passed(j)
    BY <1>3, <1>a, <2>2
  <2>4. \A m \in FL!Links : m >= j + 1 => m >= j
    BY LinksAre
  <2>. QED  BY <2>3, <2>4 DEF Passed
<1>4. CASE d = "up" /\ sent[j]["up"] > 0 /\ <<j + 1, "r">> \in shut
  <2>1. target.pc = "closed" /\ target.sent = FlowResponse
    <3>1. CASE j = 3
      BY <1>4, <1>a, <3>1
    <3>2. CASE j # 3
      <4>1. j + 1 \in FL!Relays
        BY <3>2, LinksAre
      <4>. QED  BY <1>4, <1>a, <4>1 DEF Passed
    <3>. QED  BY <3>1, <3>2
  <2>2. /\ app.sent = target.got + OnTheWay(sent, "up") /\ app.sent <= FlowRequest
        /\ target.sent = app.got + OnTheWay(sent, "down")
        /\ (target.sent > 0 => target.got = FlowRequest)
        /\ target.got \in Nat /\ app.sent \in Nat /\ target.sent \in Nat /\ app.got \in Nat
    BY <1>0 DEF Conserved, FlowTypes
  <2>3. sent[j]["up"] \in Nat /\ sent[j]["up"] <= OnTheWay(sent, "up")
    BY <1>s, LinksAre
  <2>4. target.got # FlowRequest
    BY <1>4, <1>s, <2>2, <2>3, FlowNumbers
  <2>5. target.sent = 0
    BY <2>2, <2>4
  <2>6. OnTheWay(sent, "down") = 0
    BY <1>s, <2>2, <2>5
  <2>7. \A m \in FL!Links : sent[m]["down"] = 0
    BY <1>s, <2>6, LinksAre
  <2>. QED  BY <2>1, <2>7 DEF Passed
<1>5. /\ (d = "up" \/ d = "down")
      /\ \/ <<j, "r">> \in shut \/ <<j + 1, "l">> \in shut
         \/ d = "down" /\ sent[j + 1]["down"] = 0 /\ <<j + 1, "down">> \in fin
         \/ d = "down" /\ sent[j + 1]["down"] > 0 /\ <<j, "l">> \in shut
         \/ d = "up" /\ <<j, "up">> \in fin
         \/ d = "up" /\ sent[j]["up"] > 0 /\ <<j + 1, "r">> \in shut
  BY LinksAre DEF FL!CopyEnds, FL!AtEnd, FL!ReadEnd, FL!WriteEnd, FL!PeerGone, FL!Other
<1>. QED  BY <1>e, <1>1, <1>2, <1>3, <1>4, <1>5

LEMMA CopyEndsKeeps ==
    ASSUME FlowInv, NEW j \in FL!Relays, NEW d \in FL!Directions, FL!CopyEnds(j, d)
    PROVE  FlowInv'
<1>0. FlowTypes /\ Conserved /\ RelaysSound /\ (Undisturbed => AnswerFirst)
  BY DEF FlowInv
<1>1. /\ copying[j][d] /\ copying' = [copying EXCEPT ![j][d] = FALSE]
      /\ (fin' = fin \/ (d = "up" /\ fin' = fin \cup {<<j + 1, "up">>})
                     \/ (d = "down" /\ fin' = fin \cup {<<j, "down">>}))
      /\ (shown' = shown \/ shown' = "closed") /\ (j # 1 => shown' = shown)
      /\ UNCHANGED <<sent, shut, relay, app, target, fwdr, tracked, broken>>
  BY LinksAre DEF FL!CopyEnds, FL!WriteEnd, FL!Marked
<1>2. /\ copying' \in [FL!Relays -> [FL!Directions -> BOOLEAN]] /\ ~copying'[j][d]
      /\ \A i \in FL!Relays, e \in FL!Directions : copying'[i][e] => copying[i][e]
      /\ \A i \in FL!Relays : i # j => copying'[i] = copying[i]
  BY <1>0, <1>1 DEF FlowTypes
<1>3. fin' \subseteq FL!Links \X FL!Directions
  BY <1>0, <1>1, LinksAre DEF FlowTypes
<1>4. FlowTypes'
  BY <1>0, <1>1, <1>2, <1>3 DEF FlowTypes
<1>5. Conserved'
  BY <1>0, <1>1 DEF Conserved, OnTheWay
<1>6. relay[j] \in {"relay", "ended"}
  BY <1>0, <1>1 DEF RelaysSound
<1>7. RelaysSound'
  BY <1>0, <1>1, <1>2, <1>6, LinksAre DEF RelaysSound
<1>8. ASSUME Undisturbed'
      PROVE  AnswerFirst'
  <2>1. Undisturbed /\ AnswerFirst
    BY <1>0, <1>1, <1>8 DEF Undisturbed
  <2>2. Passed(j + 1)
    BY <2>1, EndsAfterAnswer
  <2>3. \A k \in FL!Links : Passed(k)' <=> Passed(k)
    BY <1>1 DEF Passed
  <2>4. Stopped(j)' /\ \A i \in FL!Relays : i # j => (Stopped(i)' <=> Stopped(i))
    BY <1>1, <1>2, <1>6 DEF Stopped
  <2>5. \A i \in FL!Relays : Stopped(i)' => Passed(i + 1)'
    BY <2>1, <2>2, <2>3, <2>4, LinksAre DEF AnswerFirst
  <2>6. \A i \in FL!Relays : (<<i, "down">> \in fin' \/ <<i + 1, "up">> \in fin') => Stopped(i)'
    BY <1>1, <2>1, <2>4, LinksAre DEF AnswerFirst
  <2>7. /\ (<<4, "down">> \in fin' => target'.pc = "closed") /\ <<1, "up">> \notin fin'
    BY <1>1, <2>1, LinksAre DEF AnswerFirst
  <2>. QED  BY <1>1, <2>1, <2>5, <2>6, <2>7 DEF AnswerFirst
<1>. QED  BY <1>4, <1>5, <1>7, <1>8 DEF FlowInv

LEMMA FlowStepKeeps ==
    ASSUME FlowInv, FL!Next
    PROVE  FlowInv'
<1>1. ASSUME NEW j \in FL!Relays, FL!RelayEnds(j)
      PROVE  FlowInv'
  <2>1. /\ relay[j] \in {"track", "relay"} /\ FL!End(j) /\ Stopped(j)
        /\ (j # 1 => shown' = shown) /\ (j = 1 => shown' = "closed")
        /\ UNCHANGED <<sent, copying, app, target, fwdr, broken>>
    BY <1>1 DEF FL!RelayEnds, FL!Marked, Stopped
  <2>. QED  BY <2>1, EndKeeps
<1>2. ASSUME NEW j \in FL!Relays, FL!RelayStep(j)
      PROVE  FlowInv'
  BY <1>1, <1>2, DialKeeps, CopyKeeps, CopyEndsKeeps DEF FL!RelayStep
<1>. QED  BY <1>2, EndpointKeeps, ForwarderKeeps DEF FL!Next

(* What the runs check of the connection follows.                          *)
LEMMA FlowPromises ==
    ASSUME FlowInv
    PROVE  FL!TypeOK /\ FL!AnswerComplete /\ FL!NothingAfterClose
<1>1. /\ FlowTypes /\ Conserved /\ RelaysSound /\ (Undisturbed => AnswerFirst)
  BY DEF FlowInv
<1>2. /\ \A k \in FL!Links, d \in FL!Directions : sent[k][d] \in Nat /\ sent[k][d] <= OnTheWay(sent, d)
      /\ OnTheWay(sent, "up") \in Nat /\ OnTheWay(sent, "down") \in Nat
  BY <1>1, SentAt DEF FlowTypes
<1>3. OnTheWay(sent, "up") <= FlowRequest + FlowResponse /\ OnTheWay(sent, "down") <= FlowRequest + FlowResponse
  <2>1. app.sent \in Nat /\ target.got \in Nat /\ target.sent \in Nat /\ app.got \in Nat
    BY <1>1 DEF FlowTypes
  <2>. QED  BY <1>1, <1>2, <2>1, FlowNumbers DEF Conserved
<1>4. \A k \in FL!Links, d \in FL!Directions : sent[k][d] \in 0..(FlowRequest + FlowResponse)
  BY <1>2, <1>3, LinksAre, FlowNumbers
<1>5. sent \in [FL!Links -> [FL!Directions -> 0..(FlowRequest + FlowResponse)]]
  BY <1>1, <1>4 DEF FlowTypes
<1>6. FL!TypeOK
  BY <1>1, <1>5 DEF FL!TypeOK, FlowTypes
<1>7. FL!AnswerComplete
  BY <1>1 DEF FL!AnswerComplete, FL!Whole, Undisturbed, AnswerFirst
<1>8. FL!NothingAfterClose
  BY <1>1, LinksAre DEF FL!NothingAfterClose, RelaysSound, FL!ClientEnd, FL!TargetEnd
<1>. QED  BY <1>6, <1>7, <1>8

LEMMA UdpStarts ==
    ASSUME RU!Init
    PROVE  UdpInv
<1>1. 0 \in 0..UdpUpstreams /\ RU!Nobody = "nobody"
  BY UdpNames DEF RU!Nobody
<1>2. RU!NoUpstream \in UpstreamRecord /\ RU!NoUpstream.state = "none" /\ RU!NoUpstream.reader = "none"
  BY <1>1 DEF RU!NoUpstream, UpstreamRecord
<1>3. ups \in [RU!Upstreams -> UpstreamRecord] /\ \A u \in RU!Upstreams : ups[u].state = "none"
  BY <1>2 DEF RU!Init
<1>4. associations \in [UdpClients -> 0..UdpUpstreams]
  BY <1>1 DEF RU!Init
<1>5. udpServe \in ServeRecord /\ udpServe.pc = "read" /\ items = {} /\ udpForwarder = "open"
  BY <1>1 DEF RU!Init, RU!Rest, ServeRecord
<1>6. RU!TypeOK
  BY <1>1, <1>3, <1>4, <1>5 DEF RU!TypeOK, UpstreamRecord, RU!Nobody
<1>. QED  BY <1>3, <1>5, <1>6 DEF UdpInv, ServeSound

LEMMA UdpPromises ==
    ASSUME UdpInv
    PROVE  RU!TypeOK /\ RU!UpstreamsOwned
  BY DEF UdpInv, RU!UpstreamsOwned, Owned, AllGone, ServeSound, RU!TypeOK

(* A routed port forward keeps what it promises: an application that keeps *)
(* its side of the connection open until the target closes reads the whole *)
(* answer through the forwarder, the SOCKS bridge and the Gateway, unless  *)
(* a dial failed or the forward was stopped, and no connection or UDP      *)
(* upstream outlives Close, for every number of blocks, clients and        *)
(* upstreams.                                                              *)
THEOREM RoutesStayIntact == Spec => []RoutedIntact
<1> DEFINE Inv == (model = "flow" => FlowInv) /\ (model = "routedudp" => UdpInv)
<1>1. Init => Inv
  BY FlowStarts, UdpStarts DEF Init
<1>2. Inv /\ [Next]_vars => Inv'
  <2> SUFFICES ASSUME Inv, [Next]_vars  PROVE Inv'
    OBVIOUS
  <2>0. /\ model' = model /\ (model = "flow" => [FL!Next]_flVars)
        /\ (model = "routedudp" => [RU!Next]_ruVars)
    BY OneRuns
  <2>1. ASSUME model = "flow"
        PROVE  FlowInv'
    <3>1. CASE UNCHANGED flVars
      <4>1. UNCHANGED <<sent, fin, shut, relay, copying, app, target, fwdr, tracked, shown, broken>>
        BY <3>1 DEF flVars
      <4>2. FlowInv
        BY <2>1
      <4>3. FlowTypes' /\ Conserved'
        BY <4>1, <4>2 DEF FlowInv, FlowTypes, Conserved, OnTheWay
      <4>4. RelaysSound' /\ (Undisturbed' => Undisturbed)
        BY <4>1, <4>2 DEF FlowInv, RelaysSound, Undisturbed
      <4>5. AnswerFirst => AnswerFirst'
        BY <4>1 DEF AnswerFirst, Stopped, Passed
      <4>. QED  BY <4>2, <4>3, <4>4, <4>5 DEF FlowInv
    <3>. QED  BY <2>0, <2>1, <3>1, FlowStepKeeps
  <2>2. ASSUME model = "routedudp"
        PROVE  UdpInv'
    <3>1. CASE UNCHANGED ruVars
      <4>1. UNCHANGED <<ups, associations, udpServe, udpForwarder, items>>
        BY <3>1 DEF ruVars
      <4>2. UdpInv
        BY <2>2
      <4>. QED  BY <4>1, <4>2 DEF UdpInv, RU!TypeOK, ServeSound, Owned, AllGone
    <3>. QED  BY <2>0, <2>2, <3>1, UdpStepKeeps
  <2>. QED  BY <2>0, <2>1, <2>2
<1>3. Inv => RoutedIntact
  BY FlowPromises, UdpPromises DEF RoutedIntact
<1>. QED  BY <1>1, <1>2, <1>3, PTL DEF Spec
=============================================================================
