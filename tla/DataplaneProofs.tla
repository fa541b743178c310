--------------------------- MODULE DataplaneProofs ---------------------------
(***************************************************************************)
(* What the parts of MCDataplane promise, proved for every set of ids,     *)
(* EndpointSlices and Pods, every queue and buffer size and every bound on *)
(* what goes wrong: the control channel, the mirrored stream, which        *)
(* implements Tee, the Service that is given back, the UDP associations of *)
(* the Gateway and the SSH endpoints.  Each part has an invariant of its   *)
(* own that its steps preserve; a step of the whole is a step of the part  *)
(* that runs.                                                              *)
(***************************************************************************)
EXTENDS MCDataplane, SequenceTheorems, TLAPS

(* Only the part that runs takes steps.                                    *)
LEMMA OneRuns ==
    ASSUME [Next]_vars
    PROVE  /\ model' = model
           /\ model = "channel" => [CC!Next]_ccVars
           /\ model = "mirror" => [MR!Next]_mrVars
           /\ model = "binding" => [SB!Next]_sbVars
           /\ model = "flow" => [FL!Next]_flVars
           /\ model = "routedudp" => [RU!Next]_ruVars
           /\ model = "udp" => [UA!Next]_uaVars
           /\ model = "podssh" => [PS!Next]_psVars
           /\ model = "transfers" => [TR!Next]_trVars
           /\ model = "helper" => [HS!Next]_hsVars
           /\ model # "mirror" => UNCHANGED mrVars
<1> USE DEF vars
<1>1. CASE Next
  BY <1>1 DEF Next, ControlChannelStep, UdpAssociationStep, MirrorStep, ServiceBindingStep, FlowStep,
              RoutedUdpStep, TransfersStep, HelperSessionStep, PodSshStep
<1>2. CASE UNCHANGED vars
  BY <1>2
<1>. QED  BY <1>1, <1>2

-----------------------------------------------------------------------------
(* The control channel.  Replies may be taken for the wrong request; what  *)
(* keeps an id with a runtime listening is that the last request about it  *)
(* on its way to the Gateway is a register, or the last one that arrived.  *)
RegisterIsLast(i) ==
    \E n \in 1..Len(toGateway) :
        /\ toGateway[n].id = i /\ toGateway[n].type = "register"
        /\ \A m \in 1..Len(toGateway) : m > n => toGateway[m].id # i
WillListen(i) == RegisterIsLast(i) \/ (~CC!Underway(i) /\ listening[i] # 0)

(* The id belongs to a runtime, or will if a reply comes in time.          *)
Wanted(i) == published[i] # 0 \/ (waiting.type = "register" /\ waiting.id = i)

ChannelInv ==
    /\ CC!TypeOK
    /\ \A n \in 1..Len(toGateway) : toGateway[n].type = "register" => toGateway[n].port # 0
    /\ \A i \in ChannelIds : (~lost /\ Wanted(i)) => WillListen(i)

LEMMA ChannelTypes ==
    ASSUME CC!TypeOK, CC!Next
    PROVE  CC!TypeOK'
<1> USE ChannelNumbers DEF CC!TypeOK
<1>1. ASSUME NEW i \in ChannelIds, CC!Start(i)
      PROVE  CC!TypeOK'
  <2>1. starts + 1 \in 0..ChannelStarts
    BY <1>1 DEF CC!Start
  <2>2. [type |-> "register", id |-> i, port |-> starts + 1] \in CC!Requests
    BY <2>1 DEF CC!Requests
  <2>. QED  BY <1>1, <2>1, <2>2 DEF CC!Start, CC!RoundTrip
<1>2. ASSUME NEW i \in ChannelIds, CC!Stop(i)
      PROVE  CC!TypeOK'
  <2>2. [type |-> "unregister", id |-> i, port |-> 0] \in CC!Requests
    BY DEF CC!Requests
  <2>. QED  BY <1>2, <2>2 DEF CC!Stop, CC!RoundTrip
<1>3. CASE CC!Reply
  <2>1. waiting \in CC!Requests
    BY <1>3 DEF CC!Reply
  <2>2. waiting.id \in ChannelIds /\ waiting.port \in 0..ChannelStarts
    BY <2>1 DEF CC!Requests
  <2>. QED  BY <1>3, <2>2 DEF CC!Reply
<1>4. CASE CC!TimeOut \/ CC!ClosedReply
  <2>1. timeouts' \in 0..ChannelTimeouts
    BY <1>4 DEF CC!TimeOut, CC!ClosedReply
  <2>. QED  BY <1>4, <2>1 DEF CC!TimeOut, CC!ClosedReply
<1>7. CASE CC!Lost
  <2>1. 0 \in 0..ChannelStarts
    OBVIOUS
  <2>2. listening' \in [ChannelIds -> 0..ChannelStarts]
    BY <1>7, <2>1 DEF CC!Lost
  <2>3. toGateway' \in Seq(CC!Requests) /\ toDesktop' \in Seq(CC!Replies)
    BY <1>7 DEF CC!Lost
  <2>. QED  BY <1>7, <2>2, <2>3 DEF CC!Lost
<1>5. CASE CC!ReadLoop
  <2>1. Head(toDesktop) \in CC!Replies /\ Tail(toDesktop) \in Seq(CC!Replies)
    BY <1>5 DEF CC!ReadLoop
  <2>. QED  BY <1>5, <2>1 DEF CC!ReadLoop
<1>6. CASE CC!Handle
  <2> DEFINE r == Head(toGateway)
  <2>1. r \in CC!Requests /\ Tail(toGateway) \in Seq(CC!Requests)
    BY <1>6 DEF CC!Handle
  <2>2. r.id \in ChannelIds /\ r.port \in 0..ChannelStarts
    BY <2>1 DEF CC!Requests
  <2>. QED  BY <1>6, <2>1, <2>2 DEF CC!Handle, CC!Replies
<1>. QED  BY <1>1, <1>2, <1>3, <1>4, <1>5, <1>6, <1>7 DEF CC!Next

(* A request about another id goes behind what is on its way.              *)
LEMMA AppendKeeps ==
    ASSUME toGateway \in Seq(CC!Requests), NEW r \in CC!Requests, NEW j \in ChannelIds,
           toGateway' = Append(toGateway, r), r.id # j, listening' = listening, WillListen(j)
    PROVE  WillListen(j)'
<1>1. Len(toGateway') = Len(toGateway) + 1 /\ Len(toGateway) \in Nat
      /\ toGateway'[Len(toGateway) + 1] = r
      /\ \A n \in 1..Len(toGateway) : toGateway'[n] = toGateway[n]
  OBVIOUS
<1>2. CASE RegisterIsLast(j)
  <2>1. PICK n \in 1..Len(toGateway) :
          /\ toGateway[n].id = j /\ toGateway[n].type = "register"
          /\ \A m \in 1..Len(toGateway) : m > n => toGateway[m].id # j
    BY <1>2 DEF RegisterIsLast
  <2>2. ASSUME NEW m \in 1..Len(toGateway'), m > n  PROVE toGateway'[m].id # j
    <3>1. m \in 1..Len(toGateway) \/ m = Len(toGateway) + 1
      BY <1>1
    <3>. QED  BY <1>1, <2>1, <2>2, <3>1
  <2>3. n \in 1..Len(toGateway') /\ toGateway'[n] = toGateway[n]
    BY <1>1
  <2>4. RegisterIsLast(j)'
    BY <2>1, <2>2, <2>3 DEF RegisterIsLast
  <2>. QED  BY <2>4 DEF WillListen
<1>3. CASE ~CC!Underway(j) /\ listening[j] # 0
  <2>1. ASSUME NEW m \in 1..Len(toGateway')  PROVE toGateway'[m].id # j
    <3>1. m \in 1..Len(toGateway) \/ m = Len(toGateway) + 1
      BY <1>1
    <3>. QED  BY <1>1, <1>3, <3>1 DEF CC!Underway
  <2>. QED  BY <1>3, <2>1 DEF WillListen, CC!Underway
<1>. QED  BY <1>2, <1>3 DEF WillListen

(* A register that arrives leaves a listener, whether it is refused or not.*)
LEMMA HandleKeeps ==
    ASSUME ChannelInv, CC!Handle, NEW j \in ChannelIds, WillListen(j)
    PROVE  WillListen(j)'
<1> DEFINE r == Head(toGateway)
<1>1. toGateway \in Seq(CC!Requests) /\ listening \in [ChannelIds -> 0..ChannelStarts]
      /\ toGateway # <<>>
  BY DEF ChannelInv, CC!TypeOK, CC!Handle
<1>2. /\ Len(toGateway) \in Nat /\ Len(toGateway) >= 1 /\ r = toGateway[1]
      /\ toGateway' = Tail(toGateway) /\ Len(toGateway') = Len(toGateway) - 1
      /\ \A n \in 1..Len(toGateway') : toGateway'[n] = toGateway[n + 1]
  BY <1>1 DEF CC!Handle
<1>3. r \in CC!Requests
  BY <1>1
<1>4. listening' = IF r.type = "register" /\ listening[r.id] # 0 THEN listening
                   ELSE [listening EXCEPT ![r.id] = r.port]
  BY DEF CC!Handle
<1> HIDE DEF r
<1>5. r.id # j => listening'[j] = listening[j]
  BY <1>1, <1>3, <1>4 DEF CC!Requests
<1>6. (r.id = j /\ r.type = "register") => listening'[j] # 0
  BY <1>1, <1>2, <1>4 DEF ChannelInv
<1>7. CASE RegisterIsLast(j)
  <2>1. PICK n \in 1..Len(toGateway) :
          /\ toGateway[n].id = j /\ toGateway[n].type = "register"
          /\ \A m \in 1..Len(toGateway) : m > n => toGateway[m].id # j
    BY <1>7 DEF RegisterIsLast
  <2>2. CASE n = 1
    <3>1. ASSUME NEW m \in 1..Len(toGateway')  PROVE toGateway'[m].id # j
      BY <1>2, <2>1, <2>2
    <3>2. ~CC!Underway(j)'
      BY <3>1 DEF CC!Underway
    <3>. QED  BY <1>2, <1>6, <2>1, <2>2, <3>2 DEF WillListen
  <2>3. CASE n # 1
    <3>1. n - 1 \in 1..Len(toGateway') /\ toGateway'[n - 1] = toGateway[n]
      BY <1>2, <2>3
    <3>2. ASSUME NEW m \in 1..Len(toGateway'), m > n - 1  PROVE toGateway'[m].id # j
      BY <1>2, <2>1, <3>2
    <3>3. RegisterIsLast(j)'
      BY <2>1, <3>1, <3>2 DEF RegisterIsLast
    <3>. QED  BY <3>3 DEF WillListen
  <2>. QED  BY <2>2, <2>3
<1>8. CASE ~CC!Underway(j) /\ listening[j] # 0
  <2>1. r.id # j
    BY <1>2, <1>8 DEF CC!Underway
  <2>2. ASSUME NEW m \in 1..Len(toGateway')  PROVE toGateway'[m].id # j
    BY <1>2, <1>8 DEF CC!Underway
  <2>. QED  BY <1>5, <1>8, <2>1, <2>2 DEF WillListen, CC!Underway
<1>. QED  BY <1>7, <1>8 DEF WillListen

LEMMA ChannelStepKeeps ==
    ASSUME ChannelInv, CC!Next
    PROVE  ChannelInv'
<1>0. CC!TypeOK /\ CC!TypeOK'
  BY ChannelTypes DEF ChannelInv
<1>1. ASSUME NEW i \in ChannelIds, CC!Start(i)
      PROVE  ChannelInv'
  <2> DEFINE r == [type |-> "register", id |-> i, port |-> starts + 1]
  <2>1. /\ toGateway' = Append(toGateway, r) /\ waiting' = r /\ waiting = CC!NoRequest
        /\ UNCHANGED <<published, listening, lost>>
    BY <1>1 DEF CC!Start, CC!RoundTrip
  <2>2. r \in CC!Requests /\ r.id = i /\ r.type = "register" /\ r.port # 0
    <3>1. starts + 1 \in 0..ChannelStarts /\ starts + 1 # 0
      BY <1>0, <1>1, ChannelNumbers DEF CC!TypeOK, CC!Start
    <3>. QED  BY <3>1 DEF CC!Requests
  <2> HIDE DEF r
  <2>3. toGateway \in Seq(CC!Requests)
    BY <1>0 DEF CC!TypeOK
  <2>4. Len(toGateway') = Len(toGateway) + 1 /\ Len(toGateway) \in Nat
        /\ toGateway'[Len(toGateway) + 1] = r
        /\ \A n \in 1..Len(toGateway) : toGateway'[n] = toGateway[n]
    BY <2>1, <2>2, <2>3
  <2>5. ASSUME NEW n \in 1..Len(toGateway'), toGateway'[n].type = "register"
        PROVE  toGateway'[n].port # 0
    <3>1. n \in 1..Len(toGateway) \/ n = Len(toGateway) + 1
      BY <2>4
    <3>. QED  BY <2>2, <2>4, <2>5, <3>1 DEF ChannelInv
  <2>6. RegisterIsLast(i)'
    <3>1. Len(toGateway) + 1 \in 1..Len(toGateway')
      BY <2>4
    <3>2. ASSUME NEW m \in 1..Len(toGateway'), m > Len(toGateway) + 1  PROVE FALSE
      BY <2>4, <3>2
    <3>. QED  BY <2>2, <2>4, <3>1, <3>2 DEF RegisterIsLast
  <2>7. ASSUME NEW j \in ChannelIds, ~lost', Wanted(j)'  PROVE WillListen(j)'
    <3>1. CASE j = i
      BY <2>6, <3>1 DEF WillListen
    <3>2. CASE j # i
      <4>1. Wanted(j)
        BY <2>1, <2>2, <2>7, <3>2 DEF Wanted
      <4>2. WillListen(j)
        BY <2>1, <2>7, <4>1 DEF ChannelInv
      <4>. QED  BY <2>1, <2>2, <2>3, <3>2, <4>2, AppendKeeps
    <3>. QED  BY <3>1, <3>2
  <2>. QED  BY <1>0, <2>5, <2>7 DEF ChannelInv
<1>2. ASSUME NEW i \in ChannelIds, CC!Stop(i)
      PROVE  ChannelInv'
  <2> DEFINE r == [type |-> "unregister", id |-> i, port |-> 0]
  <2>1. /\ toGateway' = Append(toGateway, r) /\ waiting' = r /\ waiting = CC!NoRequest
        /\ published' = [published EXCEPT ![i] = 0] /\ UNCHANGED <<listening, lost>>
    BY <1>2 DEF CC!Stop, CC!RoundTrip
  <2>2. r \in CC!Requests /\ r.id = i /\ r.type = "unregister"
    BY ChannelNumbers DEF CC!Requests
  <2> HIDE DEF r
  <2>3. toGateway \in Seq(CC!Requests) /\ published \in [ChannelIds -> 0..ChannelStarts]
    BY <1>0 DEF CC!TypeOK
  <2>4. Len(toGateway') = Len(toGateway) + 1 /\ Len(toGateway) \in Nat
        /\ toGateway'[Len(toGateway) + 1] = r
        /\ \A n \in 1..Len(toGateway) : toGateway'[n] = toGateway[n]
    BY <2>1, <2>2, <2>3
  <2>5. ASSUME NEW n \in 1..Len(toGateway'), toGateway'[n].type = "register"
        PROVE  toGateway'[n].port # 0
    <3>1. n \in 1..Len(toGateway) \/ n = Len(toGateway) + 1
      BY <2>4
    <3>. QED  BY <2>2, <2>4, <2>5, <3>1 DEF ChannelInv
  <2>7. ASSUME NEW j \in ChannelIds, ~lost', Wanted(j)'  PROVE WillListen(j)'
    <3>1. j # i /\ Wanted(j)
      BY <2>1, <2>2, <2>3, <2>7 DEF Wanted
    <3>2. WillListen(j)
      BY <2>1, <2>7, <3>1 DEF ChannelInv
    <3>. QED  BY <2>1, <2>2, <2>3, <3>1, <3>2, AppendKeeps
  <2>. QED  BY <1>0, <2>5, <2>7 DEF ChannelInv
<1>3. CASE CC!Reply
  <2>1. /\ waiting \in CC!Requests /\ waiting' = CC!NoRequest
        /\ UNCHANGED <<toGateway, listening, lost>>
    BY <1>0, <1>3 DEF CC!Reply, CC!TypeOK
  <2>2. ASSUME NEW j \in ChannelIds, Wanted(j)'  PROVE Wanted(j)
    <3>1. published'[j] # 0
      BY <2>1, <2>2 DEF Wanted, CC!NoRequest
    <3>2. published \in [ChannelIds -> 0..ChannelStarts] /\ waiting.id \in ChannelIds
      BY <1>0, <2>1 DEF CC!TypeOK, CC!Requests
    <3>. QED  BY <1>3, <3>1, <3>2 DEF CC!Reply, Wanted
  <2>. QED  BY <1>0, <2>1, <2>2 DEF ChannelInv, WillListen, RegisterIsLast, CC!Underway
<1>4. CASE CC!TimeOut \/ CC!ClosedReply \/ CC!ReadLoop
  <2>1. UNCHANGED <<toGateway, listening, published, lost>> /\ waiting' \in {waiting, CC!NoRequest}
    BY <1>4 DEF CC!TimeOut, CC!ClosedReply, CC!ReadLoop
  <2>2. ASSUME NEW j \in ChannelIds, Wanted(j)'  PROVE Wanted(j)
    BY <2>1, <2>2 DEF Wanted, CC!NoRequest
  <2>. QED  BY <1>0, <2>1, <2>2 DEF ChannelInv, WillListen, RegisterIsLast, CC!Underway
<1>5. CASE CC!Handle
  <2>1. UNCHANGED <<waiting, published, lost>>
    BY <1>5 DEF CC!Handle
  <2>2. toGateway \in Seq(CC!Requests) /\ toGateway # <<>> /\ toGateway' = Tail(toGateway)
    BY <1>0, <1>5 DEF CC!Handle, CC!TypeOK
  <2>3. ASSUME NEW n \in 1..Len(toGateway'), toGateway'[n].type = "register"
        PROVE  toGateway'[n].port # 0
    <3>1. n + 1 \in 1..Len(toGateway) /\ toGateway'[n] = toGateway[n + 1]
      BY <2>2
    <3>. QED  BY <2>3, <3>1 DEF ChannelInv
  <2>4. ASSUME NEW j \in ChannelIds, ~lost', Wanted(j)'  PROVE WillListen(j)'
    <3>1. WillListen(j)
      BY <2>1, <2>4 DEF ChannelInv, Wanted
    <3>. QED  BY <1>5, <3>1, HandleKeeps
  <2>. QED  BY <1>0, <2>3, <2>4 DEF ChannelInv
<1>6. CASE CC!Lost
  BY <1>0, <1>6 DEF CC!Lost, ChannelInv
<1>. QED  BY <1>1, <1>2, <1>3, <1>4, <1>5, <1>6 DEF CC!Next

(* controlClient and handleControl: requests keep their order, so an id    *)
(* that has a runtime has a listener at the Gateway once the requests      *)
(* about it have arrived, though replies that come after their roundTrip   *)
(* gave up are taken for replies to other requests.                        *)
THEOREM RuntimesListen == Spec => []IdListens
<1> DEFINE Inv == model = "channel" => ChannelInv
<1>1. Init => Inv
  <2> SUFFICES ASSUME Init  PROVE ChannelInv
    OBVIOUS
  <2>1. CC!Init
    BY DEF Init
  <2>2. CC!TypeOK
    <3>1. 0 \in 0..ChannelStarts /\ 0 \in 0..ChannelTimeouts /\ 0 <= ChannelReplies
      BY ChannelNumbers
    <3>2. /\ toGateway \in Seq(CC!Requests) /\ toDesktop \in Seq(CC!Replies)
          /\ replyCh \in Seq(CC!Replies) /\ Len(replyCh) = 0
      BY <2>1 DEF CC!Init
    <3>3. /\ published \in [ChannelIds -> 0..ChannelStarts]
          /\ listening \in [ChannelIds -> 0..ChannelStarts]
      BY <2>1, <3>1 DEF CC!Init
    <3>4. /\ waiting \in CC!Requests \cup {CC!NoRequest} /\ lost \in BOOLEAN
          /\ starts \in 0..ChannelStarts /\ timeouts \in 0..ChannelTimeouts
      BY <2>1, <3>1 DEF CC!Init
    <3>. QED  BY <3>1, <3>2, <3>3, <3>4 DEF CC!TypeOK
  <2>3. Len(toGateway) = 0
    BY <2>1 DEF CC!Init
  <2>4. ASSUME NEW n \in 1..Len(toGateway)  PROVE FALSE
    BY <2>3, <2>4
  <2>5. ASSUME NEW i \in ChannelIds  PROVE ~Wanted(i)
    <3>1. waiting.type # "register" /\ published[i] = 0
      BY <2>1, <2>5 DEF CC!Init, CC!NoRequest
    <3>. QED  BY <3>1 DEF Wanted
  <2>. QED  BY <2>2, <2>4, <2>5 DEF ChannelInv
<1>2. Inv /\ [Next]_vars => Inv'
  <2> SUFFICES ASSUME Inv, [Next]_vars, model' = "channel"  PROVE ChannelInv'
    OBVIOUS
  <2>1. ChannelInv /\ [CC!Next]_ccVars
    BY OneRuns
  <2>2. CASE UNCHANGED ccVars
    BY <2>1, <2>2 DEF ccVars, ChannelInv, CC!TypeOK, Wanted, WillListen, RegisterIsLast, CC!Underway
  <2>. QED  BY <2>1, <2>2, ChannelStepKeeps
<1>3. Inv => IdListens
  <2> SUFFICES ASSUME ChannelInv  PROVE CC!TypeOK /\ CC!IdListens
    BY DEF IdListens
  <2>1. ASSUME NEW i \in ChannelIds, ~lost, published[i] # 0, ~CC!Underway(i)
        PROVE  listening[i] # 0
    BY <2>1 DEF ChannelInv, Wanted, WillListen, RegisterIsLast, CC!Underway
  <2>. QED  BY <2>1 DEF ChannelInv, CC!IdListens
<1>. QED  BY <1>1, <1>2, <1>3, PTL DEF Spec

-----------------------------------------------------------------------------
(* The mirrored stream.  A payload the request copier has read passes the  *)
(* shadowWriter before it passes to Primary, so the copier and the copy    *)
(* are at most one payload apart.                                          *)
Positions ==
    /\ req.in <= client.sent /\ req.out <= req.in
    /\ (req.pc \in {"tee", "forward"} => (req.in >= 1 /\ req.out = req.in - 1))
    /\ (req.pc = "read" => req.out = req.in)
    /\ Len(got) <= req.in /\ resp.out <= server.sent
    /\ (client.gone => client.fin) /\ ~panicked

(* Payloads of the copy: written, in the worker's hand, in the queue.      *)
InHand == IF worker.pc \in {"check", "write"} THEN 1 ELSE 0
Copied == Len(got) + InHand + Len(queue)
Teed == IF req.pc = "tee" THEN req.in - 1 ELSE req.in

(* As long as the connection is up, what is written, in hand and queued is *)
(* the request from its first payload, without a gap; and all of it until  *)
(* the shadowWriter is closed.                                             *)
CopySound ==
    /\ (connUp => (shadowed /\ ~aborted)) /\ ((shadowed /\ ~aborted /\ ~closed) => connUp)
    /\ ((mir \in {"drain", "close", "closed"} /\ shadowed) => closed)
    /\ (connUp =>
          /\ Copied <= Teed /\ (~closed => Copied = Teed)
          /\ \A i \in 1..Len(queue) : queue[i] = Len(got) + InHand + i
          /\ (worker.pc \in {"check", "write"} => worker.chunk = Len(got) + 1))

(* A copier of an undisturbed stream ends only after the whole answer.     *)
AnswerSound ==
    (~client.fin /\ ~server.failed) =>
        /\ ((mir # "wait" \/ resp.pc # "copy") => (server.fin /\ resp.out = server.sent))
        /\ (req.pc \in {"fin", "done"} => mir = "closed")

MirrorInv == MR!TypeOK /\ Positions /\ CopySound /\ AnswerSound

LEMMA MirrorStepKeeps ==
    ASSUME MirrorInv, MR!Next
    PROVE  MirrorInv'
<1> USE MirrorNumbers DEF MirrorInv, MR!Over, MR!shadow, MR!local, MR!Chunks
<1>1. CASE MR!ReqRead
  <2>1. MR!TypeOK'
    <3>1. req.in + 1 \in 0..MirrorChunks
      BY <1>1 DEF MR!ReqRead, MR!TypeOK
    <3>2. req' \in [pc : {"read", "tee", "forward", "fin", "done"}, in : MR!Chunks, out : MR!Chunks]
      BY <1>1, <3>1 DEF MR!ReqRead, MR!TypeOK
    <3>. QED  BY <1>1, <3>2 DEF MR!ReqRead, MR!TypeOK
  <2>2. Positions'
    BY <1>1 DEF MR!ReqRead, MR!TypeOK, Positions
  <2>3. CopySound'
    <3>1. /\ req.in \in Nat /\ req.pc = "read" /\ req'.in = req.in + 1
          /\ req'.pc = (IF shadowed THEN "tee" ELSE "forward")
      BY <1>1 DEF MR!ReqRead, MR!TypeOK
    <3>2. connUp => Teed' = Teed
      BY <3>1 DEF Teed, CopySound
    <3>. QED  BY <1>1, <3>2 DEF MR!ReqRead, CopySound, Copied, InHand
  <2>4. AnswerSound'
    BY <1>1 DEF MR!ReqRead, MR!TypeOK, Positions, AnswerSound
  <2>. QED  BY <2>1, <2>2, <2>3, <2>4
<1>2. CASE MR!ReqEOF
  <2>1. MR!TypeOK'
    BY <1>2 DEF MR!ReqEOF, MR!TypeOK
  <2>2. Positions'
    BY <1>2 DEF MR!ReqEOF, MR!TypeOK, Positions
  <2>3. CopySound'
    BY <1>2 DEF MR!ReqEOF, MR!TypeOK, Positions, CopySound, Copied, Teed, InHand
  <2>4. AnswerSound'
    BY <1>2 DEF MR!ReqEOF, MR!TypeOK, Positions, AnswerSound
  <2>. QED  BY <2>1, <2>2, <2>3, <2>4
<1>3. CASE MR!ReqTee
  <2>0. /\ req.in \in 1..MirrorChunks /\ queue \in Seq(1..MirrorChunks)
        /\ req.pc = "tee" /\ req' = [req EXCEPT !.pc = "forward"] /\ panicked' = panicked
        /\ UNCHANGED <<client, server, resp, mir, closed, worker, got, read, localUp, shadowed>>
    BY <1>3 DEF MR!ReqTee, MR!Write, MR!TypeOK, Positions
  <2>9. /\ req'.pc = "forward" /\ req'.in = req.in /\ req'.out = req.out
        /\ Teed = req.in - 1 /\ Teed' = req.in /\ InHand' = InHand
    BY <2>0 DEF MR!TypeOK, Teed, InHand
  <2>8. \/ UNCHANGED <<queue, aborted, connUp>> /\ (aborted \/ closed)
        \/ /\ ~aborted /\ ~closed /\ Len(queue) < MirrorQueue
           /\ queue' = Append(queue, req.in) /\ UNCHANGED <<aborted, connUp>>
        \/ aborted' = TRUE /\ connUp' = FALSE /\ UNCHANGED queue
    BY <1>3 DEF MR!ReqTee, MR!Write
  <2>7. queue' = Append(queue, req.in)
          => /\ queue' \in Seq(1..MirrorChunks) /\ Len(queue') = Len(queue) + 1
             /\ queue'[Len(queue) + 1] = req.in
             /\ \A i \in 1..Len(queue) : queue'[i] = queue[i]
    BY <2>0
  <2>1. MR!TypeOK'
    <3>0. aborted \in BOOLEAN /\ connUp \in BOOLEAN /\ Len(queue) \in Nat
      BY DEF MR!TypeOK
    <3>4. queue' \in Seq(1..MirrorChunks) /\ Len(queue') <= MirrorQueue
      BY <2>0, <2>7, <2>8, <3>0 DEF MR!TypeOK
    <3>1. aborted' \in BOOLEAN /\ connUp' \in BOOLEAN
      BY <2>8, <3>0
    <3>2. req' \in [pc : {"read", "tee", "forward", "fin", "done"}, in : MR!Chunks, out : MR!Chunks]
      BY <2>0 DEF MR!TypeOK
    <3>. QED  BY <2>0, <3>1, <3>2, <3>4 DEF MR!TypeOK
  <2>2. Positions'
    BY <1>3 DEF MR!ReqTee, MR!Write, MR!TypeOK, Positions
  <2>3. CopySound'
    <3>1. CASE UNCHANGED <<queue, aborted, connUp>> /\ (aborted \/ closed)
      BY <2>0, <2>9, <3>1 DEF CopySound, Copied, InHand
    <3>2. CASE aborted' = TRUE /\ connUp' = FALSE /\ UNCHANGED queue
      BY <2>0, <3>2 DEF CopySound
    <3>3. CASE /\ ~aborted /\ ~closed /\ queue' = Append(queue, req.in)
               /\ UNCHANGED <<aborted, connUp>>
      <4>1. Len(got) \in Nat /\ InHand \in Nat /\ Len(queue) \in Nat
        BY <2>0 DEF MR!TypeOK, InHand
      <4>2. connUp => Copied' = Copied + 1
        BY <2>0, <2>7, <2>9, <3>3, <4>1 DEF Copied
      <4>3. ASSUME connUp, NEW i \in 1..Len(queue')  PROVE queue'[i] = Len(got) + InHand + i
        <5>1. i \in 1..Len(queue) \/ i = Len(queue) + 1
          BY <2>7, <3>3, <4>1
        <5>2. req.in = Len(got) + InHand + Len(queue) + 1
          BY <2>0, <2>9, <3>3, <4>1, <4>3 DEF CopySound, Copied
        <5>3. CASE i \in 1..Len(queue)
          BY <2>7, <3>3, <4>3, <5>3 DEF CopySound
        <5>4. CASE i = Len(queue) + 1
          BY <2>7, <3>3, <4>1, <5>2, <5>4
        <5>. QED  BY <5>1, <5>3, <5>4
      <4>. QED  BY SMTT(30), <2>0, <2>9, <3>3, <4>1, <4>2, <4>3 DEF CopySound
    <3>. QED  BY <2>8, <3>1, <3>2, <3>3
  <2>4. AnswerSound'
    BY <1>3 DEF MR!ReqTee, MR!Write, MR!TypeOK, Positions, AnswerSound
  <2>. QED  BY <2>1, <2>2, <2>3, <2>4
<1>4. CASE MR!ReqForward
  <2>1. MR!TypeOK'
    BY <1>4 DEF MR!ReqForward, MR!TypeOK
  <2>2. Positions'
    BY <1>4 DEF MR!ReqForward, MR!TypeOK, Positions
  <2>3. CopySound'
    BY <1>4 DEF MR!ReqForward, MR!TypeOK, Positions, CopySound, Copied, Teed, InHand
  <2>4. AnswerSound'
    BY <1>4 DEF MR!ReqForward, MR!TypeOK, Positions, AnswerSound
  <2>. QED  BY <2>1, <2>2, <2>3, <2>4
<1>5. CASE MR!ReqFin
  <2>1. MR!TypeOK'
    BY <1>5 DEF MR!ReqFin, MR!TypeOK
  <2>2. Positions'
    BY <1>5 DEF MR!ReqFin, MR!TypeOK, Positions
  <2>3. CopySound'
    BY <1>5 DEF MR!ReqFin, MR!TypeOK, Positions, CopySound, Copied, Teed, InHand
  <2>4. AnswerSound'
    BY <1>5 DEF MR!ReqFin, MR!TypeOK, Positions, AnswerSound
  <2>. QED  BY <2>1, <2>2, <2>3, <2>4
<1>6. CASE MR!RespCopy
  <2>1. MR!TypeOK'
    BY <1>6 DEF MR!RespCopy, MR!TypeOK, Positions
  <2>2. Positions'
    BY <1>6 DEF MR!RespCopy, MR!TypeOK, Positions
  <2>3. CopySound'
    BY <1>6 DEF MR!RespCopy, MR!TypeOK, Positions, CopySound, Copied, Teed, InHand
  <2>4. AnswerSound'
    BY <1>6 DEF MR!RespCopy, MR!TypeOK, Positions, AnswerSound
  <2>. QED  BY <2>1, <2>2, <2>3, <2>4
<1>7. CASE MR!RespEOF
  <2>1. MR!TypeOK'
    BY <1>7 DEF MR!RespEOF, MR!TypeOK
  <2>2. Positions'
    BY <1>7 DEF MR!RespEOF, MR!TypeOK, Positions
  <2>3. CopySound'
    BY <1>7 DEF MR!RespEOF, MR!TypeOK, Positions, CopySound, Copied, Teed, InHand
  <2>4. AnswerSound'
    BY <1>7 DEF MR!RespEOF, MR!TypeOK, Positions, AnswerSound
  <2>. QED  BY <2>1, <2>2, <2>3, <2>4
<1>8. CASE MR!RespFin
  <2>1. MR!TypeOK'
    BY <1>8, ZenonT(40) DEF MR!RespFin, MR!TypeOK
  <2>2. Positions'
    BY <1>8 DEF MR!RespFin, MR!TypeOK, Positions
  <2>3. CopySound'
    BY <1>8 DEF MR!RespFin, MR!TypeOK, Positions, CopySound, Copied, Teed, InHand
  <2>4. AnswerSound'
    BY <1>8 DEF MR!RespFin, MR!TypeOK, Positions, AnswerSound
  <2>. QED  BY <2>1, <2>2, <2>3, <2>4
<1>9. CASE MR!Done
  <2>1. MR!TypeOK'
    BY <1>9 DEF MR!Done, MR!TypeOK
  <2>2. Positions'
    BY <1>9 DEF MR!Done, MR!TypeOK, Positions
  <2>3. CopySound'
    BY <1>9 DEF MR!Done, MR!TypeOK, Positions, CopySound, Copied, Teed, InHand
  <2>4. AnswerSound'
    BY <1>9 DEF MR!Done, MR!TypeOK, Positions, AnswerSound
  <2>. QED  BY <2>1, <2>2, <2>3, <2>4
<1>10. CASE MR!ShadowClose
  <2>1. MR!TypeOK'
    BY <1>10 DEF MR!ShadowClose, MR!TypeOK
  <2>2. Positions'
    BY <1>10 DEF MR!ShadowClose, MR!TypeOK, Positions
  <2>3. CopySound'
    BY <1>10 DEF MR!ShadowClose, MR!TypeOK, Positions, CopySound, Copied, Teed, InHand
  <2>4. AnswerSound'
    BY <1>10 DEF MR!ShadowClose, MR!TypeOK, Positions, AnswerSound
  <2>. QED  BY <2>1, <2>2, <2>3, <2>4
<1>11. CASE MR!ShadowDrained
  <2>1. MR!TypeOK'
    BY <1>11 DEF MR!ShadowDrained, MR!TypeOK
  <2>2. Positions'
    BY <1>11 DEF MR!ShadowDrained, MR!TypeOK, Positions
  <2>3. CopySound'
    BY <1>11 DEF MR!ShadowDrained, MR!TypeOK, Positions, CopySound, Copied, Teed, InHand
  <2>4. AnswerSound'
    BY <1>11 DEF MR!ShadowDrained, MR!TypeOK, Positions, AnswerSound
  <2>. QED  BY <2>1, <2>2, <2>3, <2>4
<1>12. CASE MR!CloseBoth
  <2>1. MR!TypeOK'
    BY <1>12 DEF MR!CloseBoth, MR!TypeOK
  <2>2. Positions'
    BY <1>12 DEF MR!CloseBoth, MR!TypeOK, Positions
  <2>3. CopySound'
    BY <1>12 DEF MR!CloseBoth, MR!TypeOK, Positions, CopySound, Copied, Teed, InHand
  <2>4. AnswerSound'
    BY <1>12 DEF MR!CloseBoth, MR!TypeOK, Positions, AnswerSound
  <2>. QED  BY <2>1, <2>2, <2>3, <2>4
<1>13. CASE MR!WorkerTake
  <2>0. /\ queue \in Seq(1..MirrorChunks) /\ queue # <<>>
        /\ Len(queue) \in Nat /\ Len(queue) >= 1 /\ queue[1] \in 1..MirrorChunks
    BY SMTT(30), <1>13 DEF MR!WorkerTake, MR!TypeOK
  <2>a. /\ queue' \in Seq(1..MirrorChunks) /\ Len(queue') = Len(queue) - 1
        /\ \A i \in 1..Len(queue') : queue'[i] = queue[i + 1]
    BY <1>13, <2>0 DEF MR!WorkerTake
  <2>b. /\ worker.pc = "take" /\ worker' = [pc |-> "check", chunk |-> queue[1]]
        /\ UNCHANGED <<client, server, req, resp, mir, aborted, closed, connUp, got, read, localUp,
                       shadowed, panicked>>
    BY <1>13, <2>0 DEF MR!WorkerTake
  <2>1. MR!TypeOK'
    <3>1. Len(queue') <= MirrorQueue
      BY <2>0, <2>a DEF MR!TypeOK
    <3>2. worker' \in [pc : {"take", "check", "write", "done"}, chunk : 0..MirrorChunks]
      BY <2>0, <2>b
    <3>. QED  BY <2>a, <2>b, <3>1, <3>2 DEF MR!TypeOK
  <2>2. Positions'
    BY <2>b DEF Positions
  <2>3. CopySound'
    <3>1. worker'.pc = "check" /\ worker'.chunk = queue[1] /\ Len(got) \in Nat
      BY <2>b DEF MR!TypeOK
    <3>. QED  BY SMTT(30), <2>0, <2>a, <2>b, <3>1 DEF CopySound, Copied, Teed, InHand
  <2>4. AnswerSound'
    BY <2>b DEF AnswerSound
  <2>. QED  BY <2>1, <2>2, <2>3, <2>4
<1>14. CASE MR!WorkerCheck
  <2>1. MR!TypeOK'
    BY <1>14 DEF MR!WorkerCheck, MR!TypeOK
  <2>2. Positions'
    BY <1>14 DEF MR!WorkerCheck, MR!TypeOK, Positions
  <2>3. CopySound'
    BY <1>14 DEF MR!WorkerCheck, MR!TypeOK, Positions, CopySound, Copied, Teed, InHand
  <2>4. AnswerSound'
    BY <1>14 DEF MR!WorkerCheck, MR!TypeOK, Positions, AnswerSound
  <2>. QED  BY <2>1, <2>2, <2>3, <2>4
<1>15. CASE MR!WorkerWrite
  <2>0. /\ worker.pc = "write" /\ worker' = [worker EXCEPT !.pc = "take"]
        /\ UNCHANGED <<client, server, req, resp, mir, queue, closed, read, localUp, shadowed, panicked>>
        /\ worker'.pc = "take" /\ InHand = 1 /\ InHand' = 0 /\ Teed' = Teed
        /\ got \in Seq(1..MirrorChunks) /\ Len(got) \in Nat /\ Len(queue) \in Nat /\ req.in \in 0..MirrorChunks
    BY <1>15 DEF MR!WorkerWrite, MR!TypeOK, InHand, Teed
  <2>9. \/ connUp /\ got' = Append(got, worker.chunk) /\ UNCHANGED <<aborted, connUp>>
        \/ aborted' = TRUE /\ connUp' = FALSE /\ UNCHANGED got
    BY <1>15 DEF MR!WorkerWrite
  <2>8. connUp => /\ worker.chunk = Len(got) + 1 /\ Len(got) + 1 <= req.in
                  /\ worker.chunk \in 1..MirrorChunks
    <3>1. Teed <= req.in /\ Teed \in Int
      BY <2>0 DEF Teed
    <3>. QED  BY <2>0, <3>1 DEF CopySound, Copied
  <2>7. (connUp /\ got' = Append(got, worker.chunk))
          => got' \in Seq(1..MirrorChunks) /\ Len(got') = Len(got) + 1
    BY <2>0, <2>8
  <2>1. MR!TypeOK'
    <3>1. got' \in Seq(1..MirrorChunks) /\ aborted' \in BOOLEAN /\ connUp' \in BOOLEAN
      BY <2>0, <2>7, <2>9 DEF MR!TypeOK
    <3>2. worker' \in [pc : {"take", "check", "write", "done"}, chunk : MR!Chunks]
      BY <2>0 DEF MR!TypeOK
    <3>. QED  BY <2>0, <3>1, <3>2 DEF MR!TypeOK
  <2>2. Positions'
    BY <2>0, <2>7, <2>8, <2>9 DEF Positions
  <2>3. CopySound'
    <3>1. CASE aborted' = TRUE /\ connUp' = FALSE /\ UNCHANGED got
      BY <2>0, <3>1 DEF CopySound
    <3>2. CASE connUp /\ got' = Append(got, worker.chunk) /\ UNCHANGED <<aborted, connUp>>
      <4>1. Len(got') + InHand' = Len(got) + InHand
        BY <2>0, <2>7, <3>2
      <4>2. Copied' = Copied
        BY <2>0, <4>1 DEF Copied
      <4>. QED  BY <2>0, <3>2, <4>1, <4>2 DEF CopySound
    <3>. QED  BY <2>9, <3>1, <3>2
  <2>4. AnswerSound'
    BY <1>15 DEF MR!WorkerWrite, MR!TypeOK, Positions, AnswerSound
  <2>. QED  BY <2>1, <2>2, <2>3, <2>4
<1>16. CASE MR!WorkerEnd
  <2>1. MR!TypeOK'
    BY <1>16 DEF MR!WorkerEnd, MR!TypeOK
  <2>2. Positions'
    BY <1>16 DEF MR!WorkerEnd, MR!TypeOK, Positions
  <2>3. CopySound'
    BY <1>16 DEF MR!WorkerEnd, MR!TypeOK, Positions, CopySound, Copied, Teed, InHand
  <2>4. AnswerSound'
    BY <1>16 DEF MR!WorkerEnd, MR!TypeOK, Positions, AnswerSound
  <2>. QED  BY <2>1, <2>2, <2>3, <2>4
<1>17. CASE MR!ClientSend
  <2>1. MR!TypeOK'
    <3>1. client.sent + 1 \in 0..MirrorChunks
      BY <1>17 DEF MR!ClientSend, MR!TypeOK
    <3>. QED  BY <1>17, <3>1, ZenonT(40) DEF MR!ClientSend, MR!TypeOK
  <2>2. Positions'
    BY <1>17 DEF MR!ClientSend, MR!TypeOK, Positions
  <2>3. CopySound'
    BY <1>17 DEF MR!ClientSend, MR!TypeOK, Positions, CopySound, Copied, Teed, InHand
  <2>4. AnswerSound'
    BY <1>17 DEF MR!ClientSend, MR!TypeOK, Positions, AnswerSound
  <2>. QED  BY <2>1, <2>2, <2>3, <2>4
<1>18. CASE MR!ClientHalfClose
  <2>1. MR!TypeOK'
    BY <1>18 DEF MR!ClientHalfClose, MR!TypeOK
  <2>2. Positions'
    BY <1>18 DEF MR!ClientHalfClose, MR!TypeOK, Positions
  <2>3. CopySound'
    BY <1>18 DEF MR!ClientHalfClose, MR!TypeOK, Positions, CopySound, Copied, Teed, InHand
  <2>4. AnswerSound'
    BY <1>18 DEF MR!ClientHalfClose, MR!TypeOK, Positions, AnswerSound
  <2>. QED  BY <2>1, <2>2, <2>3, <2>4
<1>19. CASE MR!ClientGone
  <2>1. MR!TypeOK'
    BY <1>19, ZenonT(40) DEF MR!ClientGone, MR!TypeOK
  <2>2. Positions'
    BY <1>19 DEF MR!ClientGone, MR!TypeOK, Positions
  <2>3. CopySound'
    BY <1>19 DEF MR!ClientGone, MR!TypeOK, Positions, CopySound, Copied, Teed, InHand
  <2>4. AnswerSound'
    BY <1>19 DEF MR!ClientGone, MR!TypeOK, Positions, AnswerSound
  <2>. QED  BY <2>1, <2>2, <2>3, <2>4
<1>20. CASE MR!ServerSend
  <2>1. MR!TypeOK'
    <3>1. server.sent + 1 \in 0..MirrorReplies
      BY <1>20 DEF MR!ServerSend, MR!TypeOK
    <3>. QED  BY <1>20, <3>1 DEF MR!ServerSend, MR!TypeOK
  <2>2. Positions'
    BY <1>20 DEF MR!ServerSend, MR!TypeOK, Positions
  <2>3. CopySound'
    BY <1>20 DEF MR!ServerSend, MR!TypeOK, Positions, CopySound, Copied, Teed, InHand
  <2>4. AnswerSound'
    BY <1>20 DEF MR!ServerSend, MR!TypeOK, Positions, AnswerSound
  <2>. QED  BY <2>1, <2>2, <2>3, <2>4
<1>21. CASE MR!ServerFin
  <2>1. MR!TypeOK'
    BY <1>21 DEF MR!ServerFin, MR!TypeOK
  <2>2. Positions'
    BY <1>21 DEF MR!ServerFin, MR!TypeOK, Positions
  <2>3. CopySound'
    BY <1>21 DEF MR!ServerFin, MR!TypeOK, Positions, CopySound, Copied, Teed, InHand
  <2>4. AnswerSound'
    BY <1>21 DEF MR!ServerFin, MR!TypeOK, Positions, AnswerSound
  <2>. QED  BY <2>1, <2>2, <2>3, <2>4
<1>22. CASE MR!ServerFails
  <2>1. MR!TypeOK'
    BY <1>22 DEF MR!ServerFails, MR!TypeOK
  <2>2. Positions'
    BY <1>22 DEF MR!ServerFails, MR!TypeOK, Positions
  <2>3. CopySound'
    BY <1>22 DEF MR!ServerFails, MR!TypeOK, Positions, CopySound, Copied, Teed, InHand
  <2>4. AnswerSound'
    BY <1>22 DEF MR!ServerFails, MR!TypeOK, Positions, AnswerSound
  <2>. QED  BY <2>1, <2>2, <2>3, <2>4
<1>23. CASE MR!LocalRead
  <2>1. MR!TypeOK'
    BY <1>23 DEF MR!LocalRead, MR!TypeOK, Positions
  <2>2. Positions'
    BY <1>23 DEF MR!LocalRead, MR!TypeOK, Positions
  <2>3. CopySound'
    BY <1>23 DEF MR!LocalRead, MR!TypeOK, Positions, CopySound, Copied, Teed, InHand
  <2>4. AnswerSound'
    BY <1>23 DEF MR!LocalRead, MR!TypeOK, Positions, AnswerSound
  <2>. QED  BY <2>1, <2>2, <2>3, <2>4
<1>24. CASE MR!LocalGone
  <2>1. MR!TypeOK'
    <3>1. /\ localUp' \in BOOLEAN
          /\ UNCHANGED <<client, server, req, resp, mir, queue, aborted, closed, worker, connUp, got,
                         read, shadowed, panicked>>
      BY <1>24 DEF MR!LocalGone
    <3>. QED  BY <3>1 DEF MR!TypeOK
  <2>2. Positions'
    BY <1>24 DEF MR!LocalGone, MR!TypeOK, Positions
  <2>3. CopySound'
    BY <1>24 DEF MR!LocalGone, MR!TypeOK, Positions, CopySound, Copied, Teed, InHand
  <2>4. AnswerSound'
    BY <1>24 DEF MR!LocalGone, MR!TypeOK, Positions, AnswerSound
  <2>. QED  BY <2>1, <2>2, <2>3, <2>4
<1>. QED  BY <1>1, <1>2, <1>3, <1>4, <1>5, <1>6, <1>7, <1>8, <1>9, <1>10, <1>11, <1>12, <1>13, <1>14, <1>15, <1>16, <1>17, <1>18, <1>19, <1>20, <1>21, <1>22, <1>23, <1>24
         DEF MR!Next, MR!ReqStep, MR!RespStep, MR!MirStep, MR!WorkerStep, MR!Peers

LEMMA MirrorStarts ==
    ASSUME MR!Init
    PROVE  MirrorInv
<1>1. Len(queue) = 0 /\ Len(got) = 0 /\ queue \in Seq(1..MirrorChunks) /\ got \in Seq(1..MirrorChunks)
  BY DEF MR!Init
<1>2. 0 \in 0..MirrorChunks /\ 0 \in 0..MirrorReplies /\ 0 <= MirrorQueue
  BY MirrorNumbers
<1>3. /\ client = [sent |-> 0, fin |-> FALSE, gone |-> FALSE]
      /\ server = [sent |-> 0, fin |-> FALSE, failed |-> FALSE]
      /\ req = [pc |-> "read", in |-> 0, out |-> 0] /\ resp = [pc |-> "copy", out |-> 0]
      /\ mir = "wait" /\ read = 0
  BY DEF MR!Init
<1>4. /\ worker.chunk = 0 /\ worker.pc \in {"take", "done"}
      /\ worker = [pc |-> worker.pc, chunk |-> 0]
      /\ aborted = FALSE /\ closed = FALSE /\ panicked = FALSE
      /\ shadowed \in BOOLEAN /\ connUp = shadowed /\ localUp = shadowed
  BY DEF MR!Init
<1>5. MR!TypeOK
  <2>1. /\ client \in [sent : MR!Chunks, fin : BOOLEAN, gone : BOOLEAN]
        /\ server \in [sent : 0..MirrorReplies, fin : BOOLEAN, failed : BOOLEAN]
        /\ req \in [pc : {"read", "tee", "forward", "fin", "done"}, in : MR!Chunks, out : MR!Chunks]
        /\ resp \in [pc : {"copy", "fin", "done"}, out : 0..MirrorReplies]
    BY <1>2, <1>3 DEF MR!Chunks
  <2>2. worker \in [pc : {"take", "check", "write", "done"}, chunk : MR!Chunks]
    BY <1>2, <1>4 DEF MR!Chunks
  <2>. QED  BY <1>1, <1>2, <1>3, <1>4, <2>1, <2>2 DEF MR!TypeOK, MR!Chunks
<1>6. Positions
  BY <1>1, <1>3, <1>4 DEF Positions
<1>7. CopySound
  BY <1>1, <1>3, <1>4 DEF CopySound, Copied, Teed, InHand
<1>8. AnswerSound
  BY <1>3 DEF AnswerSound
<1>. QED  BY <1>5, <1>6, <1>7, <1>8 DEF MirrorInv

(* Other parts leave the stream alone.                                     *)
LEMMA MirrorKept ==
    ASSUME MirrorInv, [Next]_vars
    PROVE  MirrorInv'
<1>1. [MR!Next]_mrVars
  BY OneRuns
<1>2. CASE UNCHANGED mrVars
  BY <1>2 DEF mrVars, MirrorInv, MR!TypeOK, Positions, CopySound, AnswerSound, Copied, Teed, InHand
<1>. QED  BY <1>1, <1>2, MirrorStepKeeps

(* mirrorTCP and shadowWriter: a client that keeps its connection open     *)
(* gets the whole answer of Primary, a late payload never meets the closed *)
(* queue, and until the copy is given up nothing of the request is missing *)
(* from it, whatever the queue and the local process do.                   *)
THEOREM StreamsStayIntact == Spec => []StreamIntact
<1>1. Init => MirrorInv
  BY MirrorStarts DEF Init
<1>2. MirrorInv /\ [Next]_vars => MirrorInv'
  BY MirrorKept
<1>3. MirrorInv => StreamIntact
  <2> SUFFICES ASSUME MirrorInv
               PROVE  MR!TypeOK /\ MR!NoSendOnClosed /\ MR!ResponseComplete /\ MR!ShadowKeepsUp
    BY DEF StreamIntact
  <2>1. MR!TypeOK /\ MR!NoSendOnClosed
    BY DEF MirrorInv, Positions, MR!NoSendOnClosed
  <2>2. MR!ResponseComplete
    BY DEF MirrorInv, AnswerSound, MR!ResponseComplete, MR!Over
  <2>3. MR!ShadowKeepsUp
    <3> SUFFICES ASSUME shadowed, ~aborted, ~closed
                 PROVE  Len(got) + Len(queue) + InHand >= req.out
      BY DEF MR!ShadowKeepsUp, InHand
    <3>1. Len(got) \in Nat /\ Len(queue) \in Nat /\ InHand \in Nat /\ req.in \in Nat /\ req.out \in Nat
      BY DEF MirrorInv, MR!TypeOK, MR!Chunks, InHand
    <3>2. Len(got) + InHand + Len(queue) = Teed
      BY DEF MirrorInv, CopySound, Copied
    <3>3. Teed >= req.out
      BY <3>1 DEF MirrorInv, Positions, Teed
    <3>4. Teed \in Int
      BY <3>1 DEF Teed
    <3>. QED  BY <3>1, <3>2, <3>3, <3>4
  <2>. QED  BY <2>1, <2>2, <2>3
<1>. QED  BY <1>1, <1>2, <1>3, PTL DEF Spec

(* Each step of mirrorTCP is a step of Tee or changes nothing of it: the   *)
(* client's send, the forward to Primary, the worker's write, and whatever *)
(* closes the shadow connection.                                           *)
LEMMA TeeSteps ==
    ASSUME MirrorInv, MR!Next
    PROVE  [MR!Copy!TeeNext]_(MR!Copy!teeVars)
<1> USE DEF MR!shadow, MR!local, MR!Copy!TeeNext, MR!Copy!teeVars
<1>1. CASE MR!ClientSend
  BY <1>1 DEF MR!ClientSend, MR!Copy!Send, MirrorInv, MR!TypeOK
<1>2. CASE MR!ClientHalfClose \/ MR!ClientGone
  <2>1. client'.sent = client.sent /\ UNCHANGED <<req, got, connUp>>
    BY <1>2 DEF MR!ClientHalfClose, MR!ClientGone, MirrorInv, MR!TypeOK
  <2>. QED  BY <2>1
<1>3. CASE MR!ServerSend \/ MR!ServerFin \/ MR!ServerFails \/ MR!LocalRead \/ MR!LocalGone
  BY <1>3 DEF MR!ServerSend, MR!ServerFin, MR!ServerFails, MR!LocalRead, MR!LocalGone
<1>4. CASE MR!ReqRead \/ MR!ReqEOF \/ MR!ReqFin
  <2>1. req'.out = req.out /\ UNCHANGED <<client, got, connUp>>
    BY <1>4 DEF MR!ReqRead, MR!ReqEOF, MR!ReqFin, MirrorInv, MR!TypeOK
  <2>. QED  BY <2>1
<1>5. CASE MR!ReqTee
  <2>1. req'.out = req.out /\ got' = got /\ client' = client /\ (connUp' = connUp \/ ~connUp')
    BY <1>5 DEF MR!ReqTee, MR!Write, MirrorInv, MR!TypeOK
  <2>. QED  BY <2>1 DEF MR!Copy!GiveUp
<1>6. CASE MR!ReqForward
  <2>1. req.in <= client.sent /\ req.out = req.in - 1 /\ req.in \in Nat /\ client.sent \in Nat
    BY <1>6 DEF MR!ReqForward, MirrorInv, MR!TypeOK, MR!Chunks, Positions
  <2>2. /\ (req'.out = req.out \/ req'.out = req.in)
        /\ got' = got /\ client' = client /\ connUp' = connUp
    BY <1>6 DEF MR!ReqForward, MirrorInv, MR!TypeOK
  <2>. QED  BY <2>1, <2>2 DEF MR!Copy!ToPrimary
<1>7. CASE MR!RespStep
  BY <1>7 DEF MR!RespStep, MR!RespCopy, MR!RespEOF, MR!RespFin
<1>8. CASE MR!Done \/ MR!ShadowClose \/ MR!CloseBoth
  BY <1>8 DEF MR!Done, MR!ShadowClose, MR!CloseBoth
<1>9. CASE MR!ShadowDrained
  BY <1>9 DEF MR!ShadowDrained, MR!Copy!GiveUp
<1>10. CASE MR!WorkerTake \/ MR!WorkerCheck \/ MR!WorkerEnd
  BY <1>10 DEF MR!WorkerTake, MR!WorkerCheck, MR!WorkerEnd
<1>11. CASE MR!WorkerWrite
  <2>1. /\ UNCHANGED <<client, req>>
        /\ \/ connUp /\ got' = Append(got, worker.chunk) /\ connUp' = connUp
           \/ connUp' = FALSE /\ got' = got
    BY <1>11 DEF MR!WorkerWrite
  <2>2. connUp => worker.chunk = Len(got) + 1 /\ Len(got) < client.sent
    <3>1. /\ Len(got) \in Nat /\ Len(queue) \in Nat /\ req.in \in Nat /\ client.sent \in Nat
          /\ InHand = 1 /\ worker.pc = "write" /\ req.in <= client.sent
      BY <1>11 DEF MR!WorkerWrite, MirrorInv, MR!TypeOK, MR!Chunks, Positions, InHand
    <3>2. Teed <= req.in /\ Teed \in Int
      BY <3>1 DEF Teed
    <3>3. connUp => worker.chunk = Len(got) + 1 /\ Len(got) + 1 + Len(queue) <= Teed
      BY <3>1 DEF MirrorInv, CopySound, Copied
    <3>. QED  BY <3>1, <3>2, <3>3
  <2>. QED  BY <2>1, <2>2 DEF MR!Copy!ToShadow, MR!Copy!GiveUp
<1>. QED  BY <1>1, <1>2, <1>3, <1>4, <1>5, <1>6, <1>7, <1>8, <1>9, <1>10, <1>11
         DEF MR!Next, MR!ReqStep, MR!MirStep, MR!WorkerStep, MR!Peers

(* mirrorTCP implements Tee: the local process is given the request's      *)
(* payloads in order, from the first and without a gap, and nothing more   *)
(* once the copy is given up, while Primary gets its own.                  *)
THEOREM MirrorImplementsTee == Spec => ImplementsTee
<1>1. Init => MirrorInv /\ MR!Copy!TeeInit
  <2> SUFFICES ASSUME MR!Init  PROVE MR!Copy!TeeInit
    BY MirrorStarts DEF Init
  <2>. QED  BY DEF MR!Init, MR!Copy!TeeInit
<1>2. MirrorInv /\ [Next]_vars => MirrorInv'
  BY MirrorKept
<1>3. MirrorInv /\ [Next]_vars => [MR!Copy!TeeNext]_(MR!Copy!teeVars)
  <2> SUFFICES ASSUME MirrorInv, [Next]_vars
               PROVE  [MR!Copy!TeeNext]_(MR!Copy!teeVars)
    OBVIOUS
  <2>1. [MR!Next]_mrVars
    BY OneRuns
  <2>2. CASE UNCHANGED mrVars
    BY <2>2 DEF mrVars, MR!Copy!teeVars
  <2>. QED  BY <2>1, <2>2, TeeSteps
<1>. QED  BY <1>1, <1>2, <1>3, PTL DEF Spec, ImplementsTee, MR!ImplementsTee, MR!Copy!TeeSpec

-----------------------------------------------------------------------------
(* The binding of a Service, by one desktop: what it remembers of the      *)
(* Service, what the annotations hold, and what is left to restore.        *)
Holder == cl[BindingDesktop]
Tidy == BindingDesktop \notin dirty

(* Nothing has touched the Service, or all of it has been given back.      *)
Whole == svc = SB!Pristine /\ (own = "app" \/ slices = BindingSlices)

(* The selector is on the Service or in its backup annotation, and a       *)
(* desktop that is to write it back finds it in one of its two places.     *)
SelectorSound ==
    /\ (own = "none" => (svc.selector = "none" /\ ~svc.backup /\ Holder.selector = "none" /\ ~spent))
    /\ ((svc.exists /\ own = "app" /\ ~spent) =>
          /\ (svc.selector = "app" \/ svc.backup)
          /\ (Holder.pc \notin {"idle", "stuck", "rdelete", "rcreate", "rgone"} =>
                (Holder.selector = "app" \/ svc.backup)))

(* From the update on, the Service is redirected; from the restoring       *)
(* update on it has its own selector again.                                *)
PhaseSound ==
    /\ ((Holder.pc \in {"delete", "held"} /\ svc.exists) => (svc.selector = "none" /\ svc.id))
    /\ (Holder.pc = "held" => managed = BindingDesktop)
    /\ (Holder.pc = "rgone" => ~svc.exists)
    /\ (Holder.pc = "rcreate" => Holder.todo \subseteq BindingSlices)
    /\ ((Holder.pc \in {"rdelete", "rcreate"} /\ svc.exists /\ ~spent) => svc = SB!Pristine)

(* What is still missing is what the desktop still has to do: a desktop    *)
(* with nothing on its conscience finds the Service whole, remembers the   *)
(* hand-written EndpointSlices once it has listed them, and writes them    *)
(* back one after the other.                                               *)
DebtSound ==
    /\ ((Tidy /\ ~spent /\ Holder.pc \in {"idle", "get", "list", "update"}) =>
          (managed = "none" /\ (svc.exists => Whole)))
    /\ ((Tidy /\ own = "none" /\ svc.exists /\ Holder.pc \notin {"idle", "get", "list", "rgone"}) =>
          Holder.saved = BindingSlices)
    /\ ((Tidy /\ Holder.pc = "rcreate") => managed = "none")
    /\ ((Tidy /\ Holder.pc = "rcreate" /\ own = "none" /\ svc.exists) =>
          slices \cup Holder.todo = BindingSlices)

BindingInv == SB!TypeOK /\ SelectorSound /\ PhaseSound /\ DebtSound

(* What a step does to the desktop's record, to start the proofs from.     *)
HolderRecord == [pc : SB!PCs, selector : {"app", "none"}, saved : SUBSET BindingSlices,
                 todo : SUBSET (BindingSlices \cup {"managed"}), drop : BOOLEAN]

LEMMA HolderGoes ==
    ASSUME cl \in [{BindingDesktop} -> HolderRecord], NEW pc \in SB!PCs, SB!Goto(BindingDesktop, pc)
    PROVE  /\ cl' \in [{BindingDesktop} -> HolderRecord] /\ Holder'.pc = pc
           /\ Holder'.selector = Holder.selector /\ Holder'.saved = Holder.saved
           /\ Holder'.todo = Holder.todo /\ Holder'.drop = Holder.drop
  BY DEF HolderRecord, Holder, SB!Goto

LEMMA HolderIdles ==
    ASSUME cl \in [{BindingDesktop} -> HolderRecord], cl' = [cl EXCEPT ![BindingDesktop] = SB!IdleClient]
    PROVE  cl' \in [{BindingDesktop} -> HolderRecord] /\ Holder' = SB!IdleClient
<1>1. SB!IdleClient \in HolderRecord
  BY DEF SB!IdleClient, HolderRecord, SB!PCs, SB!None
<1>. QED  BY <1>1 DEF Holder

LEMMA HolderFails ==
    ASSUME cl \in [{BindingDesktop} -> HolderRecord], SB!RestoreFails(BindingDesktop)
    PROVE  /\ cl' \in [{BindingDesktop} -> HolderRecord]
           /\ \/ Holder' = SB!IdleClient /\ dirty' = dirty \cup {BindingDesktop}
              \/ /\ Holder'.pc = "stuck" /\ dirty' = dirty
                 /\ Holder'.selector = Holder.selector /\ Holder'.saved = Holder.saved
<1>1. CASE cl[BindingDesktop].drop
  BY <1>1, HolderIdles DEF SB!RestoreFails
<1>2. CASE ~cl[BindingDesktop].drop
  <2>1. "stuck" \in SB!PCs
    BY DEF SB!PCs
  <2>2. SB!Goto(BindingDesktop, "stuck") /\ dirty' = dirty
    BY <1>2 DEF SB!RestoreFails
  <2>. QED  BY <2>1, <2>2, HolderGoes
<1>. QED  BY <1>1, <1>2

LEMMA Charged ==
    ASSUME faults \in 0..BindingFaults, NEW o, SB!Charge(o)
    PROVE  faults' \in 0..BindingFaults
  BY BindingNames DEF SB!Charge

LEMMA BindingStepKeeps ==
    ASSUME BindingInv, SB!Next
    PROVE  BindingInv'
<1>0. /\ cl \in [{BindingDesktop} -> HolderRecord] /\ Holder \in HolderRecord
      /\ svc \in [exists : BOOLEAN, selector : {"app", "none"}, id : BOOLEAN, backup : BOOLEAN]
      /\ own \in {"app", "none"} /\ slices \subseteq BindingSlices /\ faults \in 0..BindingFaults
      /\ managed \in {BindingDesktop, "none"} /\ dirty \subseteq {BindingDesktop}
  BY DEF BindingInv, SB!TypeOK, Holder, HolderRecord, SB!None, SB!Managed
<1>1. CASE SB!Load(BindingDesktop)
  <2>0. /\ Holder.pc = "idle" /\ svc.exists /\ Holder'.pc = "get" /\ Holder'.selector = svc.selector
        /\ UNCHANGED <<own, svc, slices, managed, dirty, spent>>
    BY <1>0, <1>1 DEF SB!Load, SB!Goto, SB!RestoreFails, SB!None, SB!Managed, Holder, HolderRecord
  <2>1. SB!TypeOK'
    BY <1>0, <1>1, BindingNames DEF BindingInv, SB!TypeOK, SB!Load, SB!Goto, SB!RestoreFails, SB!Charge,
       SB!IdleClient, SB!PCs, SB!None, SB!Managed, Holder, HolderRecord
  <2>2. SelectorSound'
    BY <1>0, <2>0 DEF BindingInv, SelectorSound, PhaseSound, SB!IdleClient, HolderRecord, SB!None
  <2>3. PhaseSound'
    BY <1>0, <2>0 DEF BindingInv, SelectorSound, PhaseSound, SB!IdleClient, HolderRecord, SB!Pristine, SB!None
  <2>4. DebtSound'
    BY <1>0, <2>0 DEF BindingInv, SelectorSound, PhaseSound, DebtSound, Whole, Tidy, SB!IdleClient, HolderRecord, SB!Pristine, SB!None
  <2>. QED  BY <2>1, <2>2, <2>3, <2>4 DEF BindingInv
<1>2. CASE SB!ApplyGet(BindingDesktop)
  <2>0. /\ Holder.pc = "get"
        /\ ((Holder'.pc = "list" /\ Holder'.selector = Holder.selector) \/ Holder' = SB!IdleClient)
        /\ UNCHANGED <<own, svc, slices, managed, dirty, spent>>
    BY <1>0, <1>2 DEF SB!ApplyGet, SB!Goto, SB!None, SB!Managed, Holder, HolderRecord
  <2>1. SB!TypeOK'
    <3>0. PICK o \in {"ok", "fail"} :
             /\ SB!Charge(o)
             /\ \/ SB!Goto(BindingDesktop, "list") /\ current' = current \cup {BindingDesktop}
                \/ cl' = [cl EXCEPT ![BindingDesktop] = SB!IdleClient] /\ UNCHANGED current
      BY <1>2 DEF SB!ApplyGet
    <3>1. faults' \in 0..BindingFaults
      BY <1>0, <3>0, Charged
    <3>2. cl' \in [{BindingDesktop} -> HolderRecord] /\ current' \subseteq {BindingDesktop}
      <4>1. "list" \in SB!PCs /\ current \subseteq {BindingDesktop}
        BY DEF SB!PCs, BindingInv, SB!TypeOK
      <4>. QED  BY <1>0, <3>0, <4>1, HolderGoes, HolderIdles
    <3>. QED  BY <1>0, <1>2, <3>1, <3>2 DEF BindingInv, SB!TypeOK, HolderRecord, SB!None, SB!Managed, SB!ApplyGet
  <2>2. SelectorSound'
    BY <1>0, <2>0 DEF BindingInv, SelectorSound, PhaseSound, SB!IdleClient, HolderRecord, SB!None
  <2>3. PhaseSound'
    BY <1>0, <2>0 DEF BindingInv, SelectorSound, PhaseSound, SB!IdleClient, HolderRecord, SB!Pristine, SB!None
  <2>4. DebtSound'
    BY <1>0, <2>0 DEF BindingInv, SelectorSound, PhaseSound, DebtSound, Whole, Tidy, SB!IdleClient, HolderRecord,
       SB!Pristine, SB!None
  <2>. QED  BY <2>1, <2>2, <2>3, <2>4 DEF BindingInv
<1>3. CASE SB!SnapshotEndpointSlices(BindingDesktop)
  <2>0. /\ Holder.pc = "list"
        /\ ((Holder'.pc = "update" /\ Holder'.selector = Holder.selector /\ Holder'.saved = slices) \/ Holder' = SB!IdleClient)
        /\ UNCHANGED <<own, svc, slices, managed, dirty, spent>>
    BY <1>0, <1>3 DEF SB!SnapshotEndpointSlices, SB!Goto, SB!None, SB!Managed, Holder, HolderRecord
  <2>1. SB!TypeOK'
    <3> DEFINE Listed == [Holder EXCEPT !.pc = "update", !.saved = slices,
                             !.todo = slices \cup {m \in {"managed"} : managed # "none"}]
    <3>0. PICK o \in {"ok", "fail"} :
             /\ SB!Charge(o)
             /\ \/ cl' = [cl EXCEPT ![BindingDesktop] = Listed]
                \/ cl' = [cl EXCEPT ![BindingDesktop] = SB!IdleClient]
      BY <1>0, <1>3 DEF SB!SnapshotEndpointSlices, Holder, SB!None, SB!Managed
    <3>1. faults' \in 0..BindingFaults
      BY <1>0, <3>0, Charged
    <3>2. cl' \in [{BindingDesktop} -> HolderRecord]
      <4>1. Listed \in HolderRecord
        BY <1>0 DEF HolderRecord, SB!PCs
      <4> HIDE DEF Listed
      <4>2. CASE cl' = [cl EXCEPT ![BindingDesktop] = Listed]
        BY <1>0, <4>1, <4>2
      <4>. QED  BY <1>0, <3>0, <4>2, HolderIdles
    <3>. QED  BY <1>0, <1>3, <3>1, <3>2 DEF BindingInv, SB!TypeOK, HolderRecord, SB!None, SB!Managed, SB!SnapshotEndpointSlices
  <2>2. SelectorSound'
    BY <1>0, <2>0 DEF BindingInv, SelectorSound, PhaseSound, SB!IdleClient, HolderRecord, SB!None
  <2>3. PhaseSound'
    BY <1>0, <2>0 DEF BindingInv, SelectorSound, PhaseSound, SB!IdleClient, HolderRecord, SB!Pristine, SB!None
  <2>4. DebtSound'
    BY <1>0, <2>0 DEF BindingInv, SelectorSound, PhaseSound, DebtSound, Whole, Tidy, SB!IdleClient, HolderRecord,
       SB!Pristine, SB!None
  <2>. QED  BY <2>1, <2>2, <2>3, <2>4 DEF BindingInv
<1>4. CASE SB!ClearSelector(BindingDesktop)
  <2>5. /\ SB!Cleared.exists = svc.exists /\ SB!Cleared.selector = "none" /\ SB!Cleared.id = TRUE
        /\ SB!Cleared.backup = (svc.backup \/ svc.selector # "none")
        /\ SB!Cleared \in [exists : BOOLEAN, selector : {"app", "none"}, id : BOOLEAN, backup : BOOLEAN]
    BY <1>0 DEF SB!Cleared, SB!None
  <2>6. PICK o \in SB!Outcomes :
          /\ SB!Charge(o)
          /\ \/ /\ svc' = svc /\ dirty' = dirty /\ current' = current
                /\ cl' = [cl EXCEPT ![BindingDesktop] = SB!IdleClient]
             \/ /\ svc' = SB!Cleared /\ dirty' = dirty \cup {BindingDesktop} /\ current' = {}
                /\ cl' = [cl EXCEPT ![BindingDesktop] = SB!IdleClient]
             \/ /\ svc' = SB!Cleared /\ dirty' = dirty /\ current' = {}
                /\ cl' = [cl EXCEPT ![BindingDesktop].pc = "delete", ![BindingDesktop].drop = TRUE]
    BY <1>4 DEF SB!ClearSelector
  <2>7. cl' = [cl EXCEPT ![BindingDesktop].pc = "delete", ![BindingDesktop].drop = TRUE]
          => /\ cl' \in [{BindingDesktop} -> HolderRecord] /\ Holder'.pc = "delete"
             /\ Holder'.selector = Holder.selector /\ Holder'.saved = Holder.saved
    <3>1. "delete" \in SB!PCs
      BY DEF SB!PCs
    <3> DEFINE r == [Holder EXCEPT !.pc = "delete", !.drop = TRUE]
    <3>2. /\ r \in HolderRecord /\ r.pc = "delete" /\ r.selector = Holder.selector
          /\ r.saved = Holder.saved
      BY <1>0, <3>1 DEF HolderRecord
    <3>3. cl' = [cl EXCEPT ![BindingDesktop].pc = "delete", ![BindingDesktop].drop = TRUE]
            => (cl' \in [{BindingDesktop} -> HolderRecord] /\ Holder' = r)
      BY <1>0, <3>2 DEF Holder, HolderRecord
    <3>. QED  BY <3>2, <3>3
  <2>0. /\ Holder.pc = "update"
        /\ \/ svc' = svc /\ dirty' = dirty /\ Holder' = SB!IdleClient
           \/ svc' = SB!Cleared /\ dirty' = dirty \cup {BindingDesktop} /\ Holder' = SB!IdleClient
           \/ svc' = SB!Cleared /\ dirty' = dirty /\ Holder'.pc = "delete" /\ Holder'.selector = Holder.selector /\ Holder'.saved = Holder.saved
        /\ UNCHANGED <<own, slices, managed, spent>>
    <3>1. Holder.pc = "update" /\ UNCHANGED <<own, slices, managed, spent>>
      BY <1>4 DEF SB!ClearSelector, Holder
    <3>. QED  BY <1>0, <2>6, <2>7, <3>1, HolderIdles
  <2>1. SB!TypeOK'
    <3>1. faults' \in 0..BindingFaults
      BY <1>0, <2>6, Charged
    <3>2. /\ cl' \in [{BindingDesktop} -> HolderRecord] /\ current' \subseteq {BindingDesktop}
          /\ dirty' \subseteq {BindingDesktop}
          /\ svc' \in [exists : BOOLEAN, selector : {"app", "none"}, id : BOOLEAN, backup : BOOLEAN]
      <4>1. current \subseteq {BindingDesktop}
        BY DEF BindingInv, SB!TypeOK
      <4>. QED  BY <1>0, <2>5, <2>6, <2>7, <4>1, HolderIdles
    <3>3. UNCHANGED <<own, slices, managed, desktopCrashes, spent>>
      BY <1>4 DEF SB!ClearSelector
    <3>. QED  BY <1>0, <3>1, <3>2, <3>3 DEF BindingInv, SB!TypeOK, HolderRecord, SB!None, SB!Managed
  <2>2. SelectorSound'
    BY <1>0, <2>0, <2>5 DEF BindingInv, SelectorSound, SB!IdleClient, HolderRecord, SB!None
  <2>3. PhaseSound'
    BY <1>0, <2>0, <2>5 DEF BindingInv, PhaseSound, SB!IdleClient, HolderRecord, SB!None
  <2>4. DebtSound'
    <3>1. CASE Holder' = SB!IdleClient /\ svc' = svc
      BY <1>0, <2>0, <3>1 DEF BindingInv, DebtSound, Whole, Tidy, SB!IdleClient, SB!Pristine, SB!None
    <3>2. CASE dirty' = dirty \cup {BindingDesktop}
      BY <3>2 DEF DebtSound, Tidy
    <3>3. CASE svc' = SB!Cleared /\ dirty' = dirty /\ Holder'.pc = "delete" /\ Holder'.saved = Holder.saved
      BY <2>0, <2>5, <3>3 DEF BindingInv, DebtSound, Tidy
    <3>. QED  BY <2>0, <3>1, <3>2, <3>3
  <2>. QED  BY <2>1, <2>2, <2>3, <2>4 DEF BindingInv
<1>5. CASE SB!DeleteEndpointSlice(BindingDesktop)
  <2>0. /\ Holder.pc = "delete" /\ Holder'.pc \in {"delete", "rget"} /\ Holder'.selector = Holder.selector /\ Holder'.saved = Holder.saved
        /\ UNCHANGED <<own, svc, dirty, spent>>
    BY <1>0, <1>5 DEF SB!DeleteEndpointSlice, SB!Delete, SB!Outcomes, SB!Goto, SB!RestoreFails, SB!None, SB!Managed, Holder, HolderRecord
  <2>1. SB!TypeOK'
    BY <1>0, <1>5, BindingNames DEF BindingInv, SB!TypeOK, SB!DeleteEndpointSlice, SB!Delete, SB!Outcomes, SB!Goto, SB!RestoreFails, SB!Charge,
       SB!IdleClient, SB!PCs, SB!None, SB!Managed, Holder, HolderRecord
  <2>2. SelectorSound'
    BY <1>0, <2>0 DEF BindingInv, SelectorSound, PhaseSound, SB!IdleClient, HolderRecord, SB!None
  <2>3. PhaseSound'
    BY <1>0, <2>0 DEF BindingInv, SelectorSound, PhaseSound, SB!IdleClient, HolderRecord, SB!Pristine, SB!None
  <2>4. DebtSound'
    BY <1>0, <2>0 DEF BindingInv, SelectorSound, PhaseSound, DebtSound, Whole, Tidy, SB!IdleClient, HolderRecord, SB!Pristine, SB!None
  <2>. QED  BY <2>1, <2>2, <2>3, <2>4 DEF BindingInv
<1>6. CASE SB!CreateManaged(BindingDesktop)
  <2>0. /\ Holder.pc = "delete" /\ Holder'.selector = Holder.selector /\ Holder'.saved = Holder.saved
        /\ ((Holder'.pc = "held" /\ managed' = BindingDesktop) \/ Holder'.pc = "rget")
        /\ UNCHANGED <<own, svc, slices, dirty, spent>>
    BY <1>0, <1>6 DEF SB!CreateManaged, SB!Outcomes, SB!Goto, SB!RestoreFails, SB!None, SB!Managed, Holder, HolderRecord
  <2>1. SB!TypeOK'
    BY <1>0, <1>6, BindingNames DEF BindingInv, SB!TypeOK, SB!CreateManaged, SB!Outcomes, SB!Goto, SB!RestoreFails, SB!Charge,
       SB!IdleClient, SB!PCs, SB!None, SB!Managed, Holder, HolderRecord
  <2>2. SelectorSound'
    BY <1>0, <2>0 DEF BindingInv, SelectorSound, PhaseSound, SB!IdleClient, HolderRecord, SB!None
  <2>3. PhaseSound'
    BY <1>0, <2>0 DEF BindingInv, SelectorSound, PhaseSound, SB!IdleClient, HolderRecord, SB!Pristine, SB!None
  <2>4. DebtSound'
    BY <1>0, <2>0 DEF BindingInv, SelectorSound, PhaseSound, DebtSound, Whole, Tidy, SB!IdleClient, HolderRecord, SB!Pristine, SB!None
  <2>. QED  BY <2>1, <2>2, <2>3, <2>4 DEF BindingInv
<1>7. CASE SB!RestoreGet(BindingDesktop)
  <2>5. PICK o \in {"ok", "fail"} :
          /\ SB!Charge(o)
          /\ \/ /\ SB!Goto(BindingDesktop, "rupdate") /\ current' = current \cup {BindingDesktop}
                /\ dirty' = dirty
             \/ /\ SB!Goto(BindingDesktop, "rgone") /\ dirty' = dirty \ {BindingDesktop}
                /\ ~svc.exists /\ current' = current
             \/ SB!RestoreFails(BindingDesktop) /\ current' = current
    BY <1>7 DEF SB!RestoreGet
  <2>6. {"rupdate", "rgone"} \subseteq SB!PCs
    BY DEF SB!PCs
  <2>0. /\ Holder.pc = "rget"
        /\ \/ Holder'.pc = "rupdate" /\ Holder'.selector = Holder.selector /\ Holder'.saved = Holder.saved /\ dirty' = dirty
           \/ Holder'.pc = "rgone" /\ ~svc.exists /\ Holder'.selector = Holder.selector
           \/ Holder'.pc = "stuck" /\ Holder'.selector = Holder.selector /\ Holder'.saved = Holder.saved /\ dirty' = dirty
           \/ Holder' = SB!IdleClient /\ dirty' = dirty \cup {BindingDesktop}
        /\ UNCHANGED <<own, svc, slices, managed, spent>>
    <3>1. Holder.pc = "rget" /\ UNCHANGED <<own, svc, slices, managed, spent>>
      BY <1>7 DEF SB!RestoreGet, Holder
    <3>. QED  BY <1>0, <2>5, <2>6, <3>1, HolderGoes, HolderFails
  <2>1. SB!TypeOK'
    <3>1. faults' \in 0..BindingFaults
      BY <1>0, <2>5, Charged
    <3>2. /\ cl' \in [{BindingDesktop} -> HolderRecord] /\ current' \subseteq {BindingDesktop}
          /\ dirty' \subseteq {BindingDesktop}
      <4>1. current \subseteq {BindingDesktop}
        BY DEF BindingInv, SB!TypeOK
      <4>. QED  BY <1>0, <2>5, <2>6, <4>1, HolderGoes, HolderFails
    <3>. QED  BY <1>0, <1>7, <3>1, <3>2 DEF BindingInv, SB!TypeOK, HolderRecord, SB!None, SB!Managed, SB!RestoreGet
  <2>2. SelectorSound'
    BY <1>0, <2>0 DEF BindingInv, SelectorSound, PhaseSound, SB!IdleClient, HolderRecord, SB!None
  <2>3. PhaseSound'
    BY <1>0, <2>0 DEF BindingInv, SelectorSound, PhaseSound, SB!IdleClient, HolderRecord, SB!Pristine, SB!None
  <2>4. DebtSound'
    BY <1>0, <2>0 DEF BindingInv, SelectorSound, PhaseSound, DebtSound, Whole, Tidy, SB!IdleClient, HolderRecord,
       SB!Pristine, SB!None
  <2>. QED  BY <2>1, <2>2, <2>3, <2>4 DEF BindingInv
<1>8. CASE SB!RestoreSelector(BindingDesktop)
  <2> DEFINE R == SB!RestoredBy(BindingDesktop)
  <2>5. /\ R.exists = svc.exists /\ R.id = FALSE /\ R.backup = FALSE
        /\ R.selector = (IF Holder.selector # "none" THEN Holder.selector
                           ELSE IF svc.backup THEN "app" ELSE "none")
        /\ R \in [exists : BOOLEAN, selector : {"app", "none"}, id : BOOLEAN, backup : BOOLEAN]
    BY <1>0 DEF SB!RestoredBy, SB!None, Holder, HolderRecord
  <2>6. PICK o \in SB!Outcomes :
          /\ SB!Charge(o) /\ current' \in {current, {}}
          /\ \/ SB!Goto(BindingDesktop, "rdelete") /\ svc' = R /\ dirty' = SB!MadeUp(BindingDesktop)
             \/ svc' \in {svc, R} /\ SB!RestoreFails(BindingDesktop)
    BY <1>8 DEF SB!RestoreSelector
  <2> HIDE DEF R
  <2>7. "rdelete" \in SB!PCs
    BY DEF SB!PCs
  <2>0. /\ Holder.pc = "rupdate" /\ UNCHANGED <<own, slices, managed, desktopCrashes, spent>>
        /\ cl' \in [{BindingDesktop} -> HolderRecord]
        /\ \/ /\ Holder'.pc = "rdelete" /\ Holder'.selector = Holder.selector
              /\ Holder'.saved = Holder.saved /\ svc' = R /\ dirty' = SB!MadeUp(BindingDesktop)
           \/ /\ Holder'.pc = "stuck" /\ Holder'.selector = Holder.selector
              /\ Holder'.saved = Holder.saved /\ svc' \in {svc, R} /\ dirty' = dirty
           \/ /\ Holder' = SB!IdleClient /\ svc' \in {svc, R}
              /\ dirty' = dirty \cup {BindingDesktop}
    <3>1. Holder.pc = "rupdate" /\ UNCHANGED <<own, slices, managed, desktopCrashes, spent>>
      BY <1>8 DEF SB!RestoreSelector, Holder
    <3>. QED  BY <1>0, <2>6, <2>7, <3>1, HolderGoes, HolderFails
  <2>1. SB!TypeOK'
    <3>1. faults' \in 0..BindingFaults
      BY <1>0, <2>6, Charged
    <3>2. /\ current' \subseteq {BindingDesktop} /\ dirty' \subseteq {BindingDesktop}
          /\ svc' \in [exists : BOOLEAN, selector : {"app", "none"}, id : BOOLEAN, backup : BOOLEAN]
      <4>1. current \subseteq {BindingDesktop} /\ SB!MadeUp(BindingDesktop) \subseteq {BindingDesktop}
        BY <1>0 DEF BindingInv, SB!TypeOK, SB!MadeUp
      <4>. QED  BY <1>0, <2>0, <2>5, <2>6, <4>1
    <3>. QED  BY <1>0, <2>0, <3>1, <3>2 DEF BindingInv, SB!TypeOK, HolderRecord, SB!None, SB!Managed
  <2>8. /\ own = "none" => (R.selector = "none" /\ ~R.backup)
        /\ (svc.exists /\ own = "app" /\ ~spent) => R.selector = "app"
    BY <1>0, <2>0, <2>5 DEF BindingInv, SelectorSound, HolderRecord
  <2>2. SelectorSound'
    <3>1. own = "none" => (svc'.selector = "none" /\ ~svc'.backup /\ Holder'.selector = "none" /\ ~spent)
      BY <2>0, <2>8 DEF BindingInv, SelectorSound, SB!IdleClient, SB!None
    <3>2. svc'.exists => svc.exists
      BY <2>0, <2>5
    <3>3. (svc'.exists /\ own = "app" /\ ~spent) => (svc'.selector = "app" \/ svc'.backup)
      BY <2>0, <2>8, <3>2 DEF BindingInv, SelectorSound
    <3>4. Holder'.pc \in {"idle", "stuck", "rdelete"}
      BY <2>0 DEF SB!IdleClient
    <3>. QED  BY <2>0, <3>1, <3>3, <3>4 DEF SelectorSound
  <2>9. (svc.exists /\ ~spent) => R = SB!Pristine'
    <3>1. own' = own /\ R = [exists |-> R.exists, selector |-> R.selector, id |-> R.id, backup |-> R.backup]
      BY <2>0, <2>5
    <3>. QED  BY <1>0, <2>5, <2>8, <3>1 DEF SB!Pristine
  <2>3. PhaseSound'
    <3>1. svc'.exists => svc.exists
      BY <2>0, <2>5
    <3>2. Holder'.pc \in {"idle", "stuck", "rdelete"} /\ (Holder'.pc = "rdelete" => svc' = R)
      BY <2>0 DEF SB!IdleClient
    <3>. QED  BY <2>0, <2>9, <3>1, <3>2 DEF PhaseSound
  <2>4. DebtSound'
    <3>1. svc'.exists => svc.exists
      BY <2>0, <2>5
    <3>2. CASE Holder' = SB!IdleClient /\ dirty' = dirty \cup {BindingDesktop}
      BY <3>2 DEF DebtSound, Tidy
    <3>3. CASE /\ Holder'.pc \in {"stuck", "rdelete"} /\ Holder'.saved = Holder.saved
               /\ (own = "none" => dirty' = dirty)
      BY <2>0, <3>1, <3>3 DEF BindingInv, DebtSound, Tidy
    <3>4. own = "none" => SB!MadeUp(BindingDesktop) = dirty
      BY DEF SB!MadeUp
    <3>. QED  BY <2>0, <3>2, <3>3, <3>4
  <2>. QED  BY <2>1, <2>2, <2>3, <2>4 DEF BindingInv
<1>9. CASE SB!RestoreDelete(BindingDesktop)
  <2>5. PICK o \in SB!Outcomes :
          /\ SB!Charge(o) /\ SB!Delete("managed", o)
          /\ dirty' = IF o = "fail" THEN dirty \cup {BindingDesktop} ELSE dirty
    BY <1>9 DEF SB!RestoreDelete, SB!Managed
  <2>6. /\ cl' \in [{BindingDesktop} -> HolderRecord]
         /\ \/ Holder.pc = "rgone" /\ Holder' = SB!IdleClient
            \/ /\ Holder.pc = "rdelete" /\ Holder'.pc = "rcreate" /\ Holder'.selector = Holder.selector
               /\ Holder'.saved = Holder.saved /\ Holder'.todo = Holder.saved
    <3> DEFINE r == [Holder EXCEPT !.pc = "rcreate", !.todo = Holder.saved]
    <3>1. r \in HolderRecord
      BY <1>0 DEF HolderRecord, SB!PCs
    <3>2. CASE Holder.pc = "rgone" /\ cl' = [cl EXCEPT ![BindingDesktop] = SB!IdleClient]
      BY <1>0, <3>2, HolderIdles
    <3>3. CASE Holder.pc = "rdelete" /\ cl' = [cl EXCEPT ![BindingDesktop] = r]
      BY <1>0, <3>1, <3>3 DEF Holder, HolderRecord
    <3>4. \/ Holder.pc = "rgone" /\ cl' = [cl EXCEPT ![BindingDesktop] = SB!IdleClient]
          \/ Holder.pc = "rdelete" /\ cl' = [cl EXCEPT ![BindingDesktop] = r]
      BY <1>0, <1>9 DEF SB!RestoreDelete, Holder
    <3>. QED  BY <3>2, <3>3, <3>4
  <2>0. /\ \/ Holder.pc = "rgone" /\ Holder' = SB!IdleClient
           \/ Holder.pc = "rdelete" /\ Holder'.pc = "rcreate" /\ Holder'.selector = Holder.selector /\ Holder'.saved = Holder.saved /\ Holder'.todo = Holder.saved
        /\ ((managed' = "none" /\ dirty' = dirty) \/ (managed' = managed /\ dirty' = dirty \cup {BindingDesktop}))
        /\ slices' \in {slices, slices \ {"managed"}}
        /\ UNCHANGED <<own, svc, spent>>
    <3>1. UNCHANGED <<own, svc, spent>>
      BY <1>9 DEF SB!RestoreDelete
    <3>2. /\ (managed' = "none" /\ dirty' = dirty) \/ (managed' = managed /\ dirty' = dirty \cup {BindingDesktop})
          /\ slices' \in {slices, slices \ {"managed"}}
      BY <2>5 DEF SB!Delete, SB!Outcomes, SB!None, SB!Managed
    <3>. QED  BY <2>6, <3>1, <3>2
  <2>7. slices' = slices
    BY <1>0, <2>0, BindingNames
  <2>1. SB!TypeOK'
    <3>1. faults' \in 0..BindingFaults
      BY <1>0, <2>5, Charged
    <3>2. managed' \in {BindingDesktop, "none"} /\ dirty' \subseteq {BindingDesktop}
      BY <1>0, <2>0
    <3>3. UNCHANGED <<own, svc, current, desktopCrashes, spent>>
      BY <1>9 DEF SB!RestoreDelete
    <3>. QED  BY <1>0, <2>6, <2>7, <3>1, <3>2, <3>3 DEF BindingInv, SB!TypeOK, HolderRecord, SB!None, SB!Managed
  <2>2. SelectorSound'
    BY <1>0, <2>0 DEF BindingInv, SelectorSound, PhaseSound, SB!IdleClient, HolderRecord, SB!None
  <2>3. PhaseSound'
    BY <1>0, <2>0 DEF BindingInv, SelectorSound, PhaseSound, SB!IdleClient, HolderRecord, SB!Pristine, SB!None
  <2>4. DebtSound'
    <3>1. CASE dirty' = dirty \cup {BindingDesktop}
      BY <3>1 DEF DebtSound, Tidy
    <3>2. CASE managed' = "none" /\ dirty' = dirty /\ Holder.pc = "rgone" /\ Holder' = SB!IdleClient
      BY <2>0, <3>2 DEF BindingInv, PhaseSound, DebtSound, SB!IdleClient
    <3>3. CASE managed' = "none" /\ dirty' = dirty /\ Holder.pc = "rdelete" /\ Holder'.pc = "rcreate"
      <4>1. (Tidy /\ own = "none" /\ svc.exists) => (Holder.saved = BindingSlices /\ slices \cup Holder.saved = BindingSlices)
        BY <1>0, <3>3 DEF BindingInv, DebtSound
      <4>. QED  BY <2>0, <2>7, <3>3, <4>1 DEF DebtSound, Tidy
    <3>. QED  BY <2>0, <3>1, <3>2, <3>3
  <2>. QED  BY <2>1, <2>2, <2>3, <2>4 DEF BindingInv
<1>10. CASE SB!RestoreEndpointSlice(BindingDesktop)
  <2>5. PICK s \in Holder.todo, o \in SB!Outcomes :
          /\ SB!Charge(o) /\ slices' = (IF o = "fail" THEN slices ELSE slices \cup {s})
          /\ \/ /\ o = "ok" /\ cl' = [cl EXCEPT ![BindingDesktop].todo = @ \ {s}] /\ dirty' = dirty
             \/ SB!RestoreFails(BindingDesktop)
    BY <1>10 DEF SB!RestoreEndpointSlice, Holder
  <2>6. cl' = [cl EXCEPT ![BindingDesktop].todo = @ \ {s}]
          => /\ cl' \in [{BindingDesktop} -> HolderRecord] /\ Holder'.pc = Holder.pc
             /\ Holder'.selector = Holder.selector /\ Holder'.saved = Holder.saved
             /\ Holder'.todo = Holder.todo \ {s}
    BY <1>0 DEF Holder, HolderRecord
  <2>0. /\ Holder.pc = "rcreate"
        /\ \/ /\ Holder'.pc = "rcreate" /\ Holder'.selector = Holder.selector /\ Holder'.saved = Holder.saved /\ dirty' = dirty
              /\ \E x \in Holder.todo : slices' = slices \cup {x} /\ Holder'.todo = Holder.todo \ {x}
           \/ Holder'.pc = "stuck" /\ Holder'.selector = Holder.selector /\ Holder'.saved = Holder.saved /\ dirty' = dirty
           \/ Holder' = SB!IdleClient /\ dirty' = dirty \cup {BindingDesktop}
        /\ UNCHANGED <<own, svc, managed, spent>>
    <3>1. Holder.pc = "rcreate" /\ UNCHANGED <<own, svc, managed, spent>>
      BY <1>10 DEF SB!RestoreEndpointSlice, Holder
    <3>2. CASE cl' = [cl EXCEPT ![BindingDesktop].todo = @ \ {s}] /\ dirty' = dirty /\ o = "ok"
      <4>1. slices' = slices \cup {s}
        BY <2>5, <3>2
      <4>. QED  BY <2>6, <3>1, <3>2, <4>1
    <3>3. CASE SB!RestoreFails(BindingDesktop)
      BY <1>0, <3>1, <3>3, HolderFails
    <3>. QED  BY <2>5, <3>2, <3>3
  <2>1. SB!TypeOK'
    <3>1. faults' \in 0..BindingFaults
      BY <1>0, <2>5, Charged
    <3>2. cl' \in [{BindingDesktop} -> HolderRecord] /\ dirty' \subseteq {BindingDesktop}
      BY <1>0, <2>5, <2>6, HolderFails
    <3>3. slices' \subseteq BindingSlices
      <4>1. s \in BindingSlices
        BY <2>0, <2>5 DEF BindingInv, PhaseSound
      <4>. QED  BY <1>0, <2>5, <4>1
    <3>4. UNCHANGED <<own, svc, managed, current, desktopCrashes, spent>>
      BY <1>10 DEF SB!RestoreEndpointSlice
    <3>. QED  BY <1>0, <3>1, <3>2, <3>3, <3>4 DEF BindingInv, SB!TypeOK, HolderRecord, SB!None, SB!Managed
  <2>2. SelectorSound'
    BY <1>0, <2>0 DEF BindingInv, SelectorSound, PhaseSound, SB!IdleClient, HolderRecord, SB!None
  <2>3. PhaseSound'
    BY <1>0, <2>0 DEF BindingInv, SelectorSound, PhaseSound, SB!IdleClient, HolderRecord, SB!Pristine, SB!None
  <2>4. DebtSound'
    BY <1>0, <2>0 DEF BindingInv, SelectorSound, PhaseSound, DebtSound, Whole, Tidy, SB!IdleClient, HolderRecord,
       SB!Pristine, SB!None
  <2>. QED  BY <2>1, <2>2, <2>3, <2>4 DEF BindingInv
<1>11. CASE SB!RestoreDone(BindingDesktop)
  <2>0. /\ Holder.pc = "rcreate" /\ Holder.todo = {} /\ Holder' = SB!IdleClient
        /\ UNCHANGED <<own, svc, slices, managed, dirty, spent>>
    BY <1>0, <1>11 DEF SB!RestoreDone, SB!Goto, SB!RestoreFails, SB!None, SB!Managed, Holder, HolderRecord
  <2>1. SB!TypeOK'
    BY <1>0, <1>11, BindingNames DEF BindingInv, SB!TypeOK, SB!RestoreDone, SB!Goto, SB!RestoreFails, SB!Charge,
       SB!IdleClient, SB!PCs, SB!None, SB!Managed, Holder, HolderRecord
  <2>2. SelectorSound'
    BY <1>0, <2>0 DEF BindingInv, SelectorSound, PhaseSound, SB!IdleClient, HolderRecord, SB!None
  <2>3. PhaseSound'
    BY <1>0, <2>0 DEF BindingInv, SelectorSound, PhaseSound, SB!IdleClient, HolderRecord, SB!Pristine, SB!None
  <2>4. DebtSound'
    BY <1>0, <2>0 DEF BindingInv, SelectorSound, PhaseSound, DebtSound, Whole, Tidy, SB!IdleClient, HolderRecord, SB!Pristine, SB!None
  <2>. QED  BY <2>1, <2>2, <2>3, <2>4 DEF BindingInv
<1>12. CASE SB!Crash(BindingDesktop)
  <2>0. /\ Holder' = SB!IdleClient /\ dirty' = dirty \cup {BindingDesktop}
        /\ UNCHANGED <<own, svc, slices, managed, spent>>
    BY <1>0, <1>12 DEF SB!Crash, SB!Goto, SB!RestoreFails, SB!None, SB!Managed, Holder, HolderRecord
  <2>1. SB!TypeOK'
    BY <1>0, <1>12, BindingNames DEF BindingInv, SB!TypeOK, SB!Crash, SB!Goto, SB!RestoreFails, SB!Charge,
       SB!IdleClient, SB!PCs, SB!None, SB!Managed, Holder, HolderRecord
  <2>2. SelectorSound'
    BY <1>0, <2>0 DEF BindingInv, SelectorSound, PhaseSound, SB!IdleClient, HolderRecord, SB!None
  <2>3. PhaseSound'
    BY <1>0, <2>0 DEF BindingInv, SelectorSound, PhaseSound, SB!IdleClient, HolderRecord, SB!Pristine, SB!None
  <2>4. DebtSound'
    BY <1>0, <2>0 DEF BindingInv, SelectorSound, PhaseSound, DebtSound, Whole, Tidy, SB!IdleClient, HolderRecord, SB!Pristine, SB!None
  <2>. QED  BY <2>1, <2>2, <2>3, <2>4 DEF BindingInv
<1>13. CASE SB!Controller
  <2>0. /\ svc.exists /\ svc.selector = "app" /\ Holder' = Holder
        /\ UNCHANGED <<own, svc, managed, dirty, spent>>
    BY <1>0, <1>13 DEF SB!Controller, SB!Goto, SB!RestoreFails, SB!None, SB!Managed, Holder, HolderRecord
  <2>1. SB!TypeOK'
    BY <1>0, <1>13, BindingNames DEF BindingInv, SB!TypeOK, SB!Controller, SB!Goto, SB!RestoreFails, SB!Charge,
       SB!IdleClient, SB!PCs, SB!None, SB!Managed, Holder, HolderRecord
  <2>2. SelectorSound'
    BY <1>0, <2>0 DEF BindingInv, SelectorSound, PhaseSound, SB!IdleClient, HolderRecord, SB!None
  <2>3. PhaseSound'
    BY <1>0, <2>0 DEF BindingInv, SelectorSound, PhaseSound, SB!IdleClient, HolderRecord, SB!Pristine, SB!None
  <2>4. DebtSound'
    BY <1>0, <2>0 DEF BindingInv, SelectorSound, PhaseSound, DebtSound, Whole, Tidy, SB!IdleClient, HolderRecord, SB!Pristine, SB!None
  <2>. QED  BY <2>1, <2>2, <2>3, <2>4 DEF BindingInv
<1>14. CASE SB!ServiceDeleted
  <2>0. /\ Holder' = Holder /\ svc' = [svc EXCEPT !.exists = FALSE]
        /\ UNCHANGED <<own, managed, dirty, spent>>
    BY <1>0, <1>14 DEF SB!ServiceDeleted, SB!Goto, SB!RestoreFails, SB!None, SB!Managed, Holder, HolderRecord
  <2>1. SB!TypeOK'
    BY <1>0, <1>14, BindingNames DEF BindingInv, SB!TypeOK, SB!ServiceDeleted, SB!Goto, SB!RestoreFails, SB!Charge,
       SB!IdleClient, SB!PCs, SB!None, SB!Managed, Holder, HolderRecord
  <2>2. SelectorSound'
    BY <1>0, <2>0 DEF BindingInv, SelectorSound, PhaseSound, SB!IdleClient, HolderRecord, SB!None
  <2>3. PhaseSound'
    BY <1>0, <2>0 DEF BindingInv, SelectorSound, PhaseSound, SB!IdleClient, HolderRecord, SB!Pristine, SB!None
  <2>4. DebtSound'
    BY <1>0, <2>0 DEF BindingInv, SelectorSound, PhaseSound, DebtSound, Whole, Tidy, SB!IdleClient, HolderRecord, SB!Pristine, SB!None
  <2>. QED  BY <2>1, <2>2, <2>3, <2>4 DEF BindingInv
<1>15. ASSUME NEW drop \in BOOLEAN, SB!Release(BindingDesktop, drop)
      PROVE  BindingInv'
  <2>0. /\ Holder.pc \in {"held", "stuck"} /\ Holder'.pc = "rget" /\ Holder'.selector = Holder.selector /\ Holder'.saved = Holder.saved
        /\ spent' = (spent \/ (Holder.pc = "stuck" /\ own = "app" /\ Holder.selector = "none" /\ ~svc.backup))
        /\ UNCHANGED <<own, svc, slices, managed, dirty>>
    BY <1>0, <1>15 DEF SB!Release, SB!Goto, SB!RestoreFails, SB!None, SB!Managed, Holder, HolderRecord
  <2>1. SB!TypeOK'
    BY <1>0, <1>15, BindingNames DEF BindingInv, SB!TypeOK, SB!Release, SB!Goto, SB!RestoreFails, SB!Charge,
       SB!IdleClient, SB!PCs, SB!None, SB!Managed, Holder, HolderRecord
  <2>2. SelectorSound'
    BY <1>0, <2>0 DEF BindingInv, SelectorSound, PhaseSound, SB!IdleClient, HolderRecord, SB!None
  <2>3. PhaseSound'
    BY <1>0, <2>0 DEF BindingInv, SelectorSound, PhaseSound, SB!IdleClient, HolderRecord, SB!Pristine, SB!None
  <2>4. DebtSound'
    BY <1>0, <2>0 DEF BindingInv, SelectorSound, PhaseSound, DebtSound, Whole, Tidy, SB!IdleClient, HolderRecord, SB!Pristine, SB!None
  <2>. QED  BY <2>1, <2>2, <2>3, <2>4 DEF BindingInv
<1>. QED  BY <1>1, <1>2, <1>3, <1>4, <1>5, <1>6, <1>7, <1>8, <1>9, <1>10, <1>11, <1>12, <1>13, <1>14, <1>15 DEF SB!Next

LEMMA BindingStarts ==
    ASSUME SB!Init
    PROVE  BindingInv
<1>1. /\ own \in {"app", "none"} /\ svc = SB!Pristine /\ slices = BindingSlices /\ managed = "none"
      /\ current = {} /\ faults = 0 /\ desktopCrashes = 0 /\ dirty = {} /\ spent = FALSE
      /\ cl = [c \in {BindingDesktop} |-> SB!IdleClient]
  BY DEF SB!Init, SB!None
<1>2. SB!IdleClient \in HolderRecord /\ SB!IdleClient.pc = "idle" /\ SB!IdleClient.selector = "none"
  BY DEF SB!IdleClient, HolderRecord, SB!PCs, SB!None
<1>3. Holder = SB!IdleClient /\ cl \in [{BindingDesktop} -> HolderRecord]
  BY <1>1, <1>2 DEF Holder
<1>4. /\ SB!Pristine \in [exists : BOOLEAN, selector : {"app", "none"}, id : BOOLEAN, backup : BOOLEAN]
      /\ SB!Pristine.selector = own /\ ~SB!Pristine.backup
  BY <1>1 DEF SB!Pristine
<1>5. 0 \in 0..BindingFaults /\ 0 \in 0..BindingCrashes
  BY BindingNames
<1>6. SB!TypeOK
  BY <1>1, <1>3, <1>4, <1>5 DEF SB!TypeOK, HolderRecord, SB!None, SB!Managed
<1>7. SelectorSound
  BY <1>1, <1>2, <1>3, <1>4 DEF SelectorSound
<1>8. PhaseSound
  BY <1>2, <1>3 DEF PhaseSound
<1>9. DebtSound
  BY <1>1, <1>2, <1>3 DEF DebtSound, Whole
<1>. QED  BY <1>6, <1>7, <1>8, <1>9 DEF BindingInv

(* applyServiceIntercept, restoreServiceIntercept and their retries, for   *)
(* one desktop and any number of failed calls and crashes: a started       *)
(* Exchange has redirected the Service, the selector is never lost, and a  *)
(* Service that nobody works on and nobody left behind is as it was;       *)
(* unless a stop was repeated that had used up the backup annotation.      *)
THEOREM ServicesAreGivenBack == Spec => []ServiceKept
<1> DEFINE Inv == model = "binding" => BindingInv
<1>1. Init => Inv
  BY BindingStarts DEF Init
<1>2. Inv /\ [Next]_vars => Inv'
  <2> SUFFICES ASSUME Inv, [Next]_vars, model' = "binding"  PROVE BindingInv'
    OBVIOUS
  <2>1. BindingInv /\ [SB!Next]_sbVars
    BY OneRuns
  <2>2. CASE UNCHANGED sbVars
    <3>1. UNCHANGED <<own, svc, slices, managed, cl, current, faults, desktopCrashes, dirty, spent>>
      BY <2>2 DEF sbVars
    <3>. QED  BY <2>1, <3>1 DEF BindingInv, SB!TypeOK, SelectorSound, PhaseSound, DebtSound, Whole, Tidy,
                 Holder, SB!Pristine
  <2>. QED  BY <2>1, <2>2, BindingStepKeeps
<1>3. Inv => ServiceKept
  <2> SUFFICES ASSUME BindingInv
               PROVE  SB!TypeOK /\ SB!SelectorKept /\ SB!Redirected /\ SB!RestoredAfterStop
    BY DEF ServiceKept
  <2>1. SB!TypeOK /\ dirty \subseteq {BindingDesktop}
    BY DEF BindingInv, SB!TypeOK
  <2>2. SB!SelectorKept
    BY DEF BindingInv, SelectorSound, SB!SelectorKept
  <2>3. SB!Redirected
    BY DEF BindingInv, PhaseSound, Holder, SB!Redirected, SB!None
  <2>4. SB!RestoredAfterStop
    BY DEF BindingInv, DebtSound, Whole, Tidy, Holder, SB!RestoredAfterStop, SB!None
  <2>. QED  BY <2>1, <2>2, <2>3, <2>4
<1>. QED  BY <1>1, <1>2, <1>3, PTL DEF Spec

-----------------------------------------------------------------------------
(* The UDP associations of one remote.  What the desktop has not been told *)
(* of it cannot have accepted (Accepted); an object whose offer or first   *)
(* write is under way is not idle yet (Busy), so the janitor only meets    *)
(* objects whose tunnel it can see (Published); and while the reader has   *)
(* an object in its hand the map holds that one or none (ReaderHolds).     *)
Accepted ==
    /\ told \cup pending \subseteq 1..next
    /\ \A n \in UA!Streams : serve[n] # "none" => n \in told
    /\ \A n \in pending : serve[n] = "none"
Busy == \A n \in UA!Streams : (n \in pending \/ serve[n] = "taken") => n \in fresh
Published ==
    /\ \A n \in UA!Streams : assoc[n].tunnel => serve[n] \in {"serving", "done"}
    /\ \A n \in up : serve[n] = "serving" => assoc[n].tunnel
ReaderHolds ==
    /\ reader.pc = "offer" => reader.s = cur /\ cur # 0 /\ cur \in fresh /\ cur \notin told
    /\ reader.pc = "notify" => reader.s # 0 /\ cur \in {0, reader.s} /\ reader.s \notin told
    /\ reader.pc \in {"write", "failed"} =>
         reader.s # 0 /\ cur \in {0, reader.s} /\ serve[reader.s] \in {"serving", "done"}

AssocInv ==
    UA!TypeOK /\ UA!TunnelsOwned /\ UA!OneStream /\ Accepted /\ Busy /\ Published /\ ReaderHolds

AssocRecord == [tunnel : BOOLEAN, first : BOOLEAN, pendingID : BOOLEAN]

LEMMA AssocFields ==
    ASSUME NEW r \in AssocRecord
    PROVE  /\ [r EXCEPT !.first = TRUE] \in AssocRecord /\ [r EXCEPT !.tunnel = FALSE] \in AssocRecord
           /\ [r EXCEPT !.first = TRUE].tunnel = r.tunnel /\ ~[r EXCEPT !.tunnel = FALSE].tunnel
BY DEF AssocRecord

LEMMA AssocTypes ==
    ASSUME UA!TypeOK, ReaderHolds, UA!Next
    PROVE  UA!TypeOK'
<1>0. assoc \in [UA!Streams -> AssocRecord] /\ next \in Nat /\ cur \in 0..next
      /\ next <= AssocStreams
  BY AssocNumbers DEF UA!TypeOK, AssocRecord
<1> USE AssocNumbers DEF UA!TypeOK, UA!Streams
<1>1. left' \in 0..AssocDatagrams
  BY DEF UA!Next, UA!Receive, UA!RecvTunnel, UA!RecvWaiting, UA!RecvNew, UA!Send, UA!ReaderStep, UA!Offer,
     UA!Notify, UA!WriteTunnel, UA!WriteFailed, UA!ReaderEnd, UA!Janitor, UA!Stop, UA!AcceptTimeout,
     UA!Idle, UA!Accept, UA!ServeBegin, UA!ServeReply, UA!ServeEnd, UA!TunnelDies
<1>2. CASE UA!RecvTunnel
  BY <1>1, <1>2 DEF UA!RecvTunnel
<1>3. CASE UA!RecvWaiting
  <2>1. cur \in UA!Streams /\ assoc' = [assoc EXCEPT ![cur] = [assoc[cur] EXCEPT !.first = TRUE]]
    BY <1>0, <1>3 DEF UA!RecvWaiting
  <2>2. assoc' \in [UA!Streams -> AssocRecord]
    BY <1>0, <2>1, AssocFields
  <2>. QED  BY <1>1, <1>3, <2>1, <2>2 DEF UA!RecvWaiting, AssocRecord
<1>4. CASE UA!RecvNew
  BY <1>1, <1>4 DEF UA!RecvNew
<1>5. CASE UA!Offer \/ UA!Notify \/ UA!WriteTunnel
  <2>0. reader.s \in 0..next /\ reader = [pc |-> reader.pc, s |-> reader.s]
    BY DEF UA!TypeOK
  <2>1. CASE UA!Offer
    <3>1. reader.s \in UA!Streams
      BY <1>0, <2>0, <2>1 DEF UA!Offer, ReaderHolds
    <3>. QED  BY <2>0, <2>1, <3>1 DEF UA!Offer
  <2>2. CASE UA!Notify
    <3>1. /\ told' \subseteq told \cup {reader.s} /\ pending' \subseteq pending /\ cur' \in {0, cur}
          /\ reader' \in {UA!Reading, [pc |-> "ended", s |-> 0]}
          /\ UNCHANGED <<next, assoc, fresh, serve, up, canceled, left>>
      BY <2>2 DEF UA!Notify
    <3>2. reader.s \in UA!Streams
      BY <1>0, <2>0, <2>2 DEF UA!Notify, ReaderHolds
    <3>3. cur' \in 0..next'
      BY <1>0, <3>1
    <3>4. reader' \in [pc : {"read", "offer", "notify", "write", "failed", "panic", "ended"}, s : 0..next]
      BY <1>0, <3>1 DEF UA!Reading
    <3>. QED  BY <3>1, <3>2, <3>3, <3>4
  <2>3. CASE UA!WriteTunnel
    BY <2>3 DEF UA!WriteTunnel, UA!Reading
  <2>. QED  BY <1>5, <2>1, <2>2, <2>3
<1>6. CASE UA!WriteFailed
  <2>0. reader.s \in UA!Streams
    BY <1>0, <1>6 DEF UA!WriteFailed, ReaderHolds
  <2>1. CASE assoc[reader.s].tunnel
    <3>1. /\ assoc' = [assoc EXCEPT ![reader.s] = [assoc[reader.s] EXCEPT !.tunnel = FALSE]]
          /\ up' = up \ {reader.s} /\ cur' = 0 /\ reader' = UA!Reading
      BY <1>6, <2>1 DEF UA!WriteFailed
    <3>2. assoc' \in [UA!Streams -> AssocRecord]
      BY <1>0, <2>0, <3>1, AssocFields
    <3>. QED  BY <1>6, <3>1, <3>2 DEF UA!WriteFailed, UA!Reading, AssocRecord
  <2>2. CASE ~assoc[reader.s].tunnel
    BY <1>6, <2>2 DEF UA!WriteFailed
  <2>. QED  BY <2>1, <2>2
<1>7. CASE UA!ReaderEnd \/ UA!Janitor \/ UA!Stop
  <2>1. up' \subseteq up /\ pending' \subseteq pending /\ cur' \in {0, cur}
        /\ reader' \in {reader, [pc |-> "ended", s |-> 0]} /\ canceled' \in {canceled, TRUE}
        /\ UNCHANGED <<next, assoc, fresh, told, serve, left>>
    BY <1>7 DEF UA!ReaderEnd, UA!Janitor, UA!Stop
  <2>2. [pc |-> "ended", s |-> 0]
          \in [pc : {"read", "offer", "notify", "write", "failed", "panic", "ended"}, s : 0..next]
    BY <1>0
  <2>3. cur' \in 0..next'
    BY <1>0, <2>1
  <2>. QED  BY <2>1, <2>2, <2>3
<1>8. ASSUME NEW n \in UA!Streams,
             UA!AcceptTimeout(n) \/ UA!Idle(n) \/ UA!Accept(n) \/ UA!ServeReply(n) \/ UA!TunnelDies(n)
      PROVE  UA!TypeOK'
  BY <1>8 DEF UA!AcceptTimeout, UA!Idle, UA!Accept, UA!ServeReply, UA!TunnelDies
<1>9. ASSUME NEW n \in UA!Streams, UA!ServeBegin(n)
      PROVE  UA!TypeOK'
  BY <1>9 DEF UA!ServeBegin
<1>10. ASSUME NEW n \in UA!Streams, UA!ServeEnd(n)
      PROVE  UA!TypeOK'
  <2>1. assoc' = [assoc EXCEPT ![n] = [assoc[n] EXCEPT !.tunnel = FALSE]]
    BY <1>10 DEF UA!ServeEnd
  <2>2. assoc' \in [UA!Streams -> AssocRecord]
    BY <1>0, <1>10, <2>1, AssocFields
  <2>. QED  BY <1>10, <2>2 DEF UA!ServeEnd, AssocRecord
<1>. QED  BY <1>2, <1>3, <1>4, <1>5, <1>6, <1>7, <1>8, <1>9, <1>10 DEF UA!Next, UA!ReaderStep, UA!Receive

LEMMA AssocStepKeeps ==
    ASSUME AssocInv, UA!Next
    PROVE  AssocInv'
<1>0. UA!TypeOK'
  BY AssocTypes DEF AssocInv
<1> USE AssocNumbers, <1>0 DEF AssocInv, UA!TypeOK, UA!Streams, UA!TunnelsOwned, UA!OneStream,
        Accepted, Busy, Published, ReaderHolds
<1>1. CASE UA!RecvTunnel
  BY <1>1 DEF UA!RecvTunnel, UA!Send
<1>2. CASE UA!RecvWaiting
  BY <1>2 DEF UA!RecvWaiting, UA!Send
<1>3. CASE UA!RecvNew
  BY <1>3 DEF UA!RecvNew, UA!Send
<1>4. CASE UA!Offer
  BY <1>4 DEF UA!Offer
<1>5. CASE UA!Notify
  BY <1>5 DEF UA!Notify, UA!Reading
<1>6. CASE UA!WriteTunnel
  BY <1>6 DEF UA!WriteTunnel, UA!Reading
<1>7. CASE UA!WriteFailed
  <2>1. /\ reader.s \in UA!Streams /\ serve[reader.s] \in {"serving", "done"} /\ cur \in {0, reader.s}
        /\ UNCHANGED <<next, fresh, pending, told, serve, canceled, left>>
    BY <1>7 DEF UA!WriteFailed
  <2>2. CASE assoc[reader.s].tunnel
    <3>1. /\ assoc' = [assoc EXCEPT ![reader.s] = [assoc[reader.s] EXCEPT !.tunnel = FALSE]]
          /\ up' = up \ {reader.s} /\ cur' = 0 /\ reader' = UA!Reading
      BY <1>7, <2>2 DEF UA!WriteFailed
    <3>2. /\ ~assoc'[reader.s].tunnel
          /\ \A n \in UA!Streams : n # reader.s => assoc'[n] = assoc[n]
      BY <2>1, <3>1, AssocFields DEF AssocRecord
    <3>3. up' = {} /\ pending' = {}
      BY <2>1, <3>1
    <3>. QED  BY <2>1, <3>1, <3>2, <3>3 DEF UA!Reading
  <2>3. CASE ~assoc[reader.s].tunnel
    BY <1>7, <2>3 DEF UA!WriteFailed
  <2>. QED  BY <2>2, <2>3
<1>8. CASE UA!ReaderEnd \/ UA!Stop
  BY <1>8, SMTT(30) DEF UA!ReaderEnd, UA!Stop
<1>9. CASE UA!Janitor
  <2>1. /\ cur \in UA!Streams /\ cur \notin fresh /\ cur' = 0
        /\ UNCHANGED <<next, assoc, fresh, told, serve, reader, canceled, left>>
    BY <1>9 DEF UA!Janitor
  <2>2. pending = {} /\ (cur \in up => assoc[cur].tunnel)
    BY <2>1
  <2>3. up' = {} /\ pending' = {}
    BY <1>9, <2>2 DEF UA!Janitor
  <2>. QED  BY <2>1, <2>3
<1>10. ASSUME NEW n \in UA!Streams, UA!AcceptTimeout(n) \/ UA!Idle(n) \/ UA!ServeReply(n) \/ UA!TunnelDies(n)
       PROVE  AssocInv'
  BY <1>10, SMTT(30) DEF UA!AcceptTimeout, UA!Idle, UA!ServeReply, UA!TunnelDies
<1>11. ASSUME NEW n \in UA!Streams, UA!Accept(n)
       PROVE  AssocInv'
  <2>1. /\ n = cur /\ n \in told /\ n \in fresh /\ serve[n] = "none" /\ pending' = pending \ {n}
        /\ UNCHANGED <<cur, next, assoc, fresh, told, reader, canceled, left>>
        /\ \/ serve' = [serve EXCEPT ![n] = "taken"] /\ up' = up \cup {n}
           \/ serve' = [serve EXCEPT ![n] = "done"] /\ up' = up
    <3>1. n \in told /\ n \in pending
      BY <1>11 DEF UA!Accept
    <3>2. n = cur /\ n \in fresh /\ serve[n] = "none"
      BY <1>11, <3>1
    <3>3. /\ pending' = pending \ {n}
          /\ UNCHANGED <<cur, next, assoc, fresh, told, reader, canceled, left>>
          /\ \/ serve' = [serve EXCEPT ![n] = "taken"] /\ up' = up \cup {n}
             \/ serve' = [serve EXCEPT ![n] = "done"] /\ up' = up
      BY <1>11 DEF UA!Accept
    <3>. QED  BY <3>1, <3>2, <3>3
  <2>2. ~assoc[n].tunnel /\ n \notin up /\ up = {}
    BY <2>1
  <2>3. serve'[n] \in {"taken", "done"} /\ (n \in up' => serve'[n] = "taken")
        /\ \A m \in UA!Streams : m # n => serve'[m] = serve[m]
    BY <2>1, <2>2
  <2>4. up' \subseteq {n} /\ pending' = {}
    BY <2>1, <2>2
  <2>5. reader.pc \in {"write", "failed"} => reader.s # n
    BY <2>1
  <2>. QED  BY <2>1, <2>2, <2>3, <2>4, <2>5
<1>12. ASSUME NEW n \in UA!Streams, UA!ServeBegin(n)
       PROVE  AssocInv'
  BY <1>12 DEF UA!ServeBegin
<1>13. ASSUME NEW n \in UA!Streams, UA!ServeEnd(n)
       PROVE  AssocInv'
  BY <1>13 DEF UA!ServeEnd
<1>. QED  BY <1>1, <1>2, <1>3, <1>4, <1>5, <1>6, <1>7, <1>8, <1>9, <1>10, <1>11, <1>12, <1>13
          DEF UA!Next, UA!ReaderStep, UA!Receive

(* acceptUDP, its janitor, the timer of an offer and serveUDP: every open  *)
(* tunnel has a goroutine that closes it, and what can still reach the     *)
(* desktop for a remote is the association in the map, for any number of   *)
(* associations and datagrams.                                             *)
THEOREM OneStreamPerRemote == Spec => []OneStream
<1> DEFINE Inv == model = "udp" => AssocInv
<1>1. Init => Inv
  <2>1. UA!Init => UA!TypeOK
    <3> SUFFICES ASSUME UA!Init  PROVE UA!TypeOK
      OBVIOUS
    <3>1. 0 \in 0..AssocStreams /\ AssocDatagrams \in 0..AssocDatagrams /\ 0 \in 0..0
      BY AssocNumbers
    <3>2. UA!NoAssoc \in [tunnel : BOOLEAN, first : BOOLEAN, pendingID : BOOLEAN]
      BY DEF UA!NoAssoc
    <3>. QED  BY <3>1, <3>2 DEF UA!Init, UA!TypeOK
  <2>2. UA!Init => UA!TunnelsOwned /\ UA!OneStream /\ Accepted /\ Busy /\ Published /\ ReaderHolds
    BY DEF UA!Init, UA!NoAssoc, UA!TunnelsOwned, UA!OneStream, Accepted, Busy, Published, ReaderHolds
  <2>. QED  BY <2>1, <2>2 DEF Init, AssocInv
<1>2. Inv /\ [Next]_vars => Inv'
  <2> SUFFICES ASSUME Inv, [Next]_vars, model' = "udp"  PROVE AssocInv'
    OBVIOUS
  <2>1. AssocInv /\ [UA!Next]_uaVars
    BY OneRuns
  <2>2. CASE UNCHANGED uaVars
    BY <2>1, <2>2 DEF uaVars, AssocInv, UA!TypeOK, UA!TunnelsOwned, UA!OneStream, Accepted, Busy,
       Published, ReaderHolds
  <2>. QED  BY <2>1, <2>2, AssocStepKeeps
<1>3. Inv => OneStream
  BY DEF AssocInv, OneStream
<1>. QED  BY <1>1, <1>2, <1>3, PTL DEF Spec

-----------------------------------------------------------------------------
(* The SSH endpoints.  Once Reset has run, with no call behind its check,  *)
(* none gets behind its check any more (NoCallUnderway), and a connection  *)
(* that registers later had found its endpoint before (FoundEarlier).      *)
CallsTyped ==
    /\ inv = [pc |-> inv.pc, pods |-> inv.pods]
    /\ user = [pc |-> user.pc, pod |-> user.pod, ip |-> user.ip]
    /\ user.pc = "checked" => user.pod \in SshPods /\ user.ip \in SshIps
Removed == phase = "off" /\ ~raced
NoCallUnderway == Removed => inv.pc # "sync" /\ user.pc # "checked"
FoundEarlier == Removed => PS!Found \subseteq late

SshInv == PS!TypeOK /\ CallsTyped /\ NoCallUnderway /\ FoundEarlier /\ PS!EndpointsRemoved

ConnRecord ==
    [pc : {"none", "found", "registered", "serving", "ended"}, pod : SshPods \cup {PS!None},
     raw : BOOLEAN, exec : {"none", "running", "cancelled", "ended"}]

(* A step of a connection that has been made.                              *)
OwnStep(c) ==
    \/ PS!Register(c) \/ PS!Handshake(c) \/ PS!StartSession(c) \/ PS!ClientLeaves(c)
    \/ PS!ConnectionEnds(c) \/ PS!ExecEnds(c)

LEMMA ConnFields ==
    ASSUME NEW r \in ConnRecord
    PROVE  /\ \A p \in {"registered", "serving"} :
                LET s == [r EXCEPT !.pc = p]
                IN  s \in ConnRecord /\ s.pc = p /\ s.raw = r.raw
           /\ \A e \in {"running", "ended"} :
                LET s == [r EXCEPT !.exec = e]
                IN  s \in ConnRecord /\ s.pc = r.pc /\ s.raw = r.raw
           /\ [r EXCEPT !.raw = FALSE] \in ConnRecord /\ ~[r EXCEPT !.raw = FALSE].raw
           /\ [r EXCEPT !.raw = FALSE].pc = r.pc
           /\ \A e \in {"none", "running", "cancelled", "ended"} :
                LET s == [r EXCEPT !.pc = "ended", !.raw = FALSE, !.exec = e]
                IN  s \in ConnRecord /\ s.pc = "ended"
BY DEF ConnRecord

LEMMA ConnMoves ==
    ASSUME PS!TypeOK, NEW c \in PS!Conns, OwnStep(c)
    PROVE  /\ UNCHANGED <<phase, routed, cluster, shownPods, inv, user, targets, doomed, moves,
                          sessions, raced, late>>
           /\ \E r \in ConnRecord :
                /\ conns' = [conns EXCEPT ![c] = r]
                /\ r.pc = "found" => conns[c].pc = "found"
                /\ r.pc \in {"registered", "serving"} =>
                     conns[c].pc \in {"found", "registered", "serving"} /\ (r.raw => conns[c].raw)
<1>0. conns[c] \in ConnRecord
  BY DEF PS!TypeOK, ConnRecord
<1>1. UNCHANGED <<phase, routed, cluster, shownPods, inv, user, targets, doomed, moves, sessions,
                  raced, late>>
  BY DEF OwnStep, PS!Register, PS!Handshake, PS!StartSession, PS!ClientLeaves, PS!ConnectionEnds,
     PS!ExecEnds, PS!ConnStep
<1> DEFINE Goal == \E r \in ConnRecord :
                /\ conns' = [conns EXCEPT ![c] = r]
                /\ r.pc = "found" => conns[c].pc = "found"
                /\ r.pc \in {"registered", "serving"} =>
                     conns[c].pc \in {"found", "registered", "serving"} /\ (r.raw => conns[c].raw)
<1>2. ASSUME PS!Register(c)  PROVE Goal
  <2> DEFINE s == [conns[c] EXCEPT !.pc = "registered"]
  <2>1. conns' = [conns EXCEPT ![c] = s]
    BY <1>2 DEF PS!Register, PS!ConnStep
  <2>2. conns[c].pc = "found"
    BY <1>2 DEF PS!Register, PS!ConnStep
  <2>3. s \in ConnRecord /\ s.pc = "registered" /\ s.raw = conns[c].raw
    BY <1>0, ConnFields
  <2>. HIDE DEF s
  <2>. QED  BY <2>1, <2>2, <2>3, ZenonT(40)
<1>3. ASSUME PS!Handshake(c)  PROVE Goal
  <2> DEFINE s == [conns[c] EXCEPT !.pc = "serving"]
  <2>1. conns' = [conns EXCEPT ![c] = s]
    BY <1>3 DEF PS!Handshake, PS!ConnStep
  <2>2. conns[c].pc = "registered"
    BY <1>3 DEF PS!Handshake, PS!ConnStep
  <2>3. s \in ConnRecord /\ s.pc = "serving" /\ s.raw = conns[c].raw
    BY <1>0, ConnFields
  <2>. HIDE DEF s
  <2>. QED  BY <2>1, <2>2, <2>3, ZenonT(40)
<1>4. ASSUME PS!StartSession(c)  PROVE Goal
  <2> DEFINE s == [conns[c] EXCEPT !.exec = "running"]
  <2>1. conns' = [conns EXCEPT ![c] = s]
    BY <1>4 DEF PS!StartSession, PS!ConnStep
  <2>2. conns[c].pc = "serving"
    BY <1>4 DEF PS!StartSession, PS!ConnStep
  <2>3. s \in ConnRecord /\ s.pc = conns[c].pc /\ s.raw = conns[c].raw
    BY <1>0, ConnFields
  <2>. HIDE DEF s
  <2>. QED  BY <2>1, <2>2, <2>3, ZenonT(40)
<1>5. ASSUME PS!ClientLeaves(c)  PROVE Goal
  <2> DEFINE s == [conns[c] EXCEPT !.raw = FALSE]
  <2>1. conns' = [conns EXCEPT ![c] = s]
    BY <1>5 DEF PS!ClientLeaves, PS!ConnStep
  <2>2. conns[c].pc = "serving"
    BY <1>5 DEF PS!ClientLeaves, PS!ConnStep
  <2>3. s \in ConnRecord /\ s.pc = conns[c].pc /\ ~s.raw
    BY <1>0, ConnFields
  <2>. HIDE DEF s
  <2>. QED  BY <2>1, <2>2, <2>3, ZenonT(40)
<1>6. ASSUME PS!ExecEnds(c)  PROVE Goal
  <2> DEFINE s == [conns[c] EXCEPT !.exec = "ended"]
  <2>1. conns' = [conns EXCEPT ![c] = s]
    BY <1>6, SMTT(30) DEF PS!ExecEnds, PS!ConnStep
  <2>3. s \in ConnRecord /\ s.pc = conns[c].pc /\ s.raw = conns[c].raw
    BY <1>0, ConnFields
  <2>. HIDE DEF s
  <2>. QED  BY <2>1, <2>3
<1>7. ASSUME PS!ConnectionEnds(c)  PROVE Goal
  <2> DEFINE e == IF conns[c].exec = "running" THEN "cancelled" ELSE conns[c].exec
             s == [conns[c] EXCEPT !.pc = "ended", !.raw = FALSE, !.exec = e]
  <2>1. e \in {"none", "running", "cancelled", "ended"}
    BY <1>0 DEF ConnRecord
  <2>2. conns' = [conns EXCEPT ![c] = s]
    BY <1>7, SMTT(30) DEF PS!ConnectionEnds, PS!ConnStep
  <2>. HIDE DEF e
  <2>3. s \in ConnRecord /\ s.pc = "ended"
    BY <1>0, <2>1, ConnFields, ZenonT(40)
  <2>. HIDE DEF s
  <2>. QED  BY <2>2, <2>3
<1>. QED  BY <1>1, <1>2, <1>3, <1>4, <1>5, <1>6, <1>7 DEF OwnStep

LEMMA SshTypes ==
    ASSUME PS!TypeOK, CallsTyped, PS!Next
    PROVE  PS!TypeOK' /\ CallsTyped'
<1> USE DEF PS!TypeOK, CallsTyped
<1>1. CASE PS!Connect \/ PS!Disconnect \/ PS!Unroute
  BY <1>1 DEF PS!Connect, PS!Disconnect, PS!Unroute
<1>2. CASE PS!Emit \/ PS!ApplyInventory
  <2>1. PS!NoInv.pods \in PS!Places
    BY DEF PS!NoInv, PS!Places
  <2>. QED  BY <1>2, <2>1 DEF PS!Emit, PS!ApplyInventory, PS!NoInv
<1>3. CASE PS!Reconcile
  BY <1>3 DEF PS!Reconcile, PS!NoInv, PS!Registered, PS!Found, PS!Places, PS!Gone
<1>4. ASSUME NEW p \in SshPods, PS!EnablePodSSH(p)
      PROVE  PS!TypeOK' /\ CallsTyped'
  BY <1>4 DEF PS!EnablePodSSH, PS!Places, PS!Gone
<1>5. ASSUME NEW p \in SshPods, NEW a \in SshIps \cup {PS!Gone}, PS!PodMoves(p, a)
      PROVE  PS!TypeOK' /\ CallsTyped'
  BY <1>5 DEF PS!PodMoves, PS!Places
<1>6. CASE PS!Enable
  BY <1>6 DEF PS!Enable, PS!NoUser
<1>7. ASSUME NEW a \in SshIps, PS!Disable(a)
      PROVE  PS!TypeOK' /\ CallsTyped'
  BY <1>7 DEF PS!Disable, PS!Registered, PS!Found
<1>8. CASE PS!Reset
  BY <1>8 DEF PS!Reset, PS!Registered, PS!Found, PS!Empty
<1>9. ASSUME NEW c \in PS!Conns, PS!CloseDoomed(c)
      PROVE  PS!TypeOK' /\ CallsTyped'
  BY <1>9 DEF PS!CloseDoomed
<1>10. ASSUME NEW c \in PS!Conns, NEW a \in SshIps, PS!HostTCP(c, a)
       PROVE  PS!TypeOK' /\ CallsTyped'
  BY <1>10 DEF PS!HostTCP, PS!ConnStep, PS!NoConn
<1>11. ASSUME NEW c \in PS!Conns, OwnStep(c)
       PROVE  PS!TypeOK' /\ CallsTyped'
  <2>1. PICK r \in ConnRecord : conns' = [conns EXCEPT ![c] = r]
    BY <1>11, ConnMoves
  <2>2. conns \in [PS!Conns -> ConnRecord]
    BY DEF ConnRecord
  <2>3. conns' \in [PS!Conns -> ConnRecord]
    BY <2>1, <2>2
  <2>4. UNCHANGED <<phase, routed, cluster, shownPods, inv, user, targets, doomed, moves, sessions,
                    raced, late>>
    BY <1>11, ConnMoves
  <2>. QED  BY <2>3, <2>4 DEF ConnRecord
<1>. QED  BY <1>1, <1>2, <1>3, <1>4, <1>5, <1>6, <1>7, <1>8, <1>9, <1>10, <1>11 DEF PS!Next, OwnStep

LEMMA SshStepKeeps ==
    ASSUME SshInv, PS!Next
    PROVE  SshInv'
<1>0. PS!TypeOK' /\ CallsTyped' /\ PS!TypeOK
  BY SshTypes DEF SshInv
<1>1. SUFFICES ASSUME Removed'
               PROVE  /\ inv'.pc # "sync" /\ user'.pc # "checked" /\ PS!Found' \subseteq late'
                      /\ targets' = PS!Empty
                      /\ \A c \in PS!Registered' : conns'[c].raw => c \in doomed' \cup late'
  BY <1>0 DEF SshInv, NoCallUnderway, FoundEarlier, Removed, PS!EndpointsRemoved, PS!Empty
<1>2. CASE PS!Reset
  BY <1>0, <1>1, <1>2 DEF PS!Reset, Removed, PS!Registered, PS!Found, PS!TypeOK
<1>3. CASE PS!Connect \/ PS!Disconnect \/ PS!Unroute
  BY <1>1, <1>3, SMTT(30) DEF PS!Connect, PS!Disconnect, PS!Unroute, Removed
<1>4. ASSUME ~PS!Reset, ~(PS!Connect \/ PS!Disconnect \/ PS!Unroute)
      PROVE  phase' = phase /\ raced' = raced
  BY <1>4 DEF PS!Next, PS!Emit, PS!ApplyInventory, PS!Reconcile, PS!Enable, PS!EnablePodSSH, PS!PodMoves,
     PS!Disable, PS!HostTCP, PS!CloseDoomed, PS!Register, PS!Handshake, PS!StartSession,
     PS!ClientLeaves, PS!ConnectionEnds, PS!ExecEnds, PS!ConnStep
<1>5. ASSUME ~PS!Reset, ~(PS!Connect \/ PS!Disconnect \/ PS!Unroute)
      PROVE  /\ Removed /\ inv.pc # "sync" /\ user.pc # "checked" /\ PS!Found \subseteq late
             /\ targets = PS!Empty
             /\ \A c \in PS!Registered : conns[c].raw => c \in doomed \cup late
  BY <1>1, <1>4, <1>5 DEF SshInv, NoCallUnderway, FoundEarlier, Removed, PS!EndpointsRemoved
<1> DEFINE Kept == /\ inv'.pc # "sync" /\ user'.pc # "checked" /\ PS!Found' \subseteq late'
                   /\ targets' = PS!Empty
                   /\ \A c \in PS!Registered' : conns'[c].raw => c \in doomed' \cup late'
<1> DEFINE Calm == /\ Removed /\ inv.pc # "sync" /\ user.pc # "checked" /\ PS!Found \subseteq late
                   /\ targets = PS!Empty
                   /\ \A c \in PS!Registered : conns[c].raw => c \in doomed \cup late
<1>6. ASSUME Calm, PS!Emit \/ PS!ApplyInventory \/ PS!Reconcile \/ PS!Enable  PROVE Kept
  BY <1>6 DEF PS!Emit, PS!ApplyInventory, PS!Reconcile, PS!Enable, PS!NoInv, Removed, PS!Found, PS!Registered
<1>7. ASSUME Calm, NEW p \in SshPods, NEW a \in SshIps \cup {PS!Gone}, PS!EnablePodSSH(p) \/ PS!PodMoves(p, a)
      PROVE  Kept
  BY <1>7 DEF PS!EnablePodSSH, PS!PodMoves, Removed, PS!Found, PS!Registered
<1>8. ASSUME Calm, NEW a \in SshIps, PS!Disable(a) \/ \E c \in PS!Conns : PS!HostTCP(c, a)
      PROVE  FALSE
  BY <1>8 DEF PS!Disable, PS!HostTCP, PS!Empty
<1>9. ASSUME Calm, NEW c \in PS!Conns, PS!CloseDoomed(c)
      PROVE  Kept
  BY <1>0, <1>9 DEF PS!CloseDoomed, PS!TypeOK, PS!Found, PS!Registered
<1>10. ASSUME Calm, NEW c \in PS!Conns, OwnStep(c)
       PROVE  Kept
  <2>1. PICK r \in ConnRecord :
          /\ conns' = [conns EXCEPT ![c] = r]
          /\ r.pc = "found" => conns[c].pc = "found"
          /\ r.pc \in {"registered", "serving"} =>
               conns[c].pc \in {"found", "registered", "serving"} /\ (r.raw => conns[c].raw)
    BY <1>0, <1>10, ConnMoves
  <2>2. UNCHANGED <<inv, user, targets, doomed, late>>
    BY <1>0, <1>10, ConnMoves
  <2>3. conns'[c] = r /\ \A d \in PS!Conns : d # c => conns'[d] = conns[d]
    BY <1>0, <2>1 DEF PS!TypeOK
  <2>. QED  BY <1>10, <2>1, <2>2, <2>3 DEF PS!Found, PS!Registered
<1>. QED  BY <1>2, <1>3, <1>5, <1>6, <1>7, <1>8, <1>9, <1>10 DEF PS!Next, OwnStep

(* Server.Reset against the inventory callback, EnablePodSSH and the       *)
(* connections on their way: once the session is over no endpoint is left  *)
(* and every connection that had registered is about to be closed, unless  *)
(* a call was past its check, for any number of Pods, addresses,           *)
(* connections and sessions.                                               *)
THEOREM EndpointsGoWithTheSession == Spec => []EndpointsRemoved
<1> DEFINE Inv == model = "podssh" => SshInv
<1>1. Init => Inv
  <2>1. PS!Init => PS!TypeOK /\ CallsTyped
    <3> SUFFICES ASSUME PS!Init  PROVE PS!TypeOK /\ CallsTyped
      OBVIOUS
    <3>1. [p \in SshPods |-> PS!Gone] \in PS!Places /\ cluster \in PS!Places
      BY DEF PS!Init, PS!Places
    <3>2. CallsTyped /\ inv.pods = [p \in SshPods |-> PS!Gone]
      BY DEF PS!Init, CallsTyped, PS!NoInv, PS!NoUser
    <3>3. PS!NoConn \in ConnRecord
      BY DEF PS!NoConn, ConnRecord
    <3>4. conns \in [PS!Conns -> ConnRecord]
      BY <3>3 DEF PS!Init
    <3>5. targets \in [SshIps -> SshPods \cup {PS!None}]
      BY DEF PS!Init, PS!Empty
    <3>. QED  BY <3>1, <3>2, <3>4, <3>5 DEF PS!Init, PS!TypeOK, ConnRecord
  <2>2. PS!Init => NoCallUnderway /\ FoundEarlier /\ PS!EndpointsRemoved
    BY DEF PS!Init, NoCallUnderway, FoundEarlier, PS!EndpointsRemoved, PS!NoInv, PS!NoUser, PS!NoConn,
       PS!Found, PS!Registered
  <2>. QED  BY <2>1, <2>2 DEF Init, SshInv
<1>2. Inv /\ [Next]_vars => Inv'
  <2> SUFFICES ASSUME Inv, [Next]_vars, model' = "podssh"  PROVE SshInv'
    OBVIOUS
  <2>1. SshInv /\ [PS!Next]_psVars
    BY OneRuns
  <2>2. CASE UNCHANGED psVars
    BY <2>1, <2>2 DEF psVars, SshInv, PS!TypeOK, CallsTyped, NoCallUnderway, FoundEarlier, Removed,
       PS!EndpointsRemoved, PS!Found, PS!Registered, PS!Empty
  <2>. QED  BY <2>1, <2>2, SshStepKeeps
<1>3. Inv => EndpointsRemoved
  BY DEF SshInv, EndpointsRemoved
<1>. QED  BY <1>1, <1>2, <1>3, PTL DEF Spec
==============================================================================
