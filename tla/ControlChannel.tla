--------------------------- MODULE ControlChannel ---------------------------
(***************************************************************************)
(* The request/reply protocol of one control connection: controlClient in  *)
(* src/internal/intercept/control.go on the desktop, handleControl in      *)
(* src/internal/gateway/reverse.go at the Gateway.  Messages carry no      *)
(* request number; roundTrip takes whatever reply comes next and gives up  *)
(* after 10s, but the request and its reply stay on their way.             *)
(***************************************************************************)
EXTENDS Naturals, Sequences

CONSTANTS
    Ids,          \* intercept ids, one port each
    ReplyCap,     \* capacity of replyCh
    MaxStarts,    \* bound: starts, each with a listen port of its own
    MaxTimeouts   \* bound: round trips that time out

VARIABLES
    toGateway,  \* requests on their way
    toDesktop,  \* replies on their way
    replyCh,    \* controlClient.replyCh
    waiting,    \* the request whose roundTrip holds writeMu
    published,  \* id -> listen port of the runtime that has it, 0 if none
    listening,  \* Gateway: id -> port of the listener, 0 if none
    starts, timeouts,
    closed      \* the connection is gone

vars == <<toGateway, toDesktop, replyCh, waiting, published, listening, starts,
          timeouts, closed>>

Requests == [type : {"register", "unregister"}, id : Ids, port : 0..MaxStarts]
NoRequest == [type |-> "none"]
Replies == {"ack", "error"}

TypeOK ==
    /\ toGateway \in Seq(Requests) /\ toDesktop \in Seq(Replies)
    /\ replyCh \in Seq(Replies) /\ Len(replyCh) <= ReplyCap
    /\ waiting \in Requests \cup {NoRequest}
    /\ published \in [Ids -> 0..MaxStarts] /\ listening \in [Ids -> 0..MaxStarts]
    /\ starts \in 0..MaxStarts /\ timeouts \in 0..MaxTimeouts /\ closed \in BOOLEAN

Init ==
    /\ toGateway = <<>> /\ toDesktop = <<>> /\ replyCh = <<>>
    /\ waiting = NoRequest
    /\ published = [i \in Ids |-> 0] /\ listening = [i \in Ids |-> 0]
    /\ starts = 0 /\ timeouts = 0 /\ closed = FALSE

-----------------------------------------------------------------------------
(* roundTrip writes the request under writeMu.                             *)
RoundTrip(request) ==
    /\ ~closed /\ waiting = NoRequest
    /\ toGateway' = Append(toGateway, request)
    /\ waiting' = request

(* A start registers an id that has no runtime, on a port of its own.      *)
Start(i) ==
    /\ published[i] = 0 /\ starts < MaxStarts
    /\ starts' = starts + 1
    /\ RoundTrip([type |-> "register", id |-> i, port |-> starts + 1])
    /\ UNCHANGED <<toDesktop, replyCh, published, listening, timeouts, closed>>

(* A stop takes the runtime out of the registry and unregisters its port.  *)
Stop(i) ==
    /\ published[i] # 0
    /\ RoundTrip([type |-> "unregister", id |-> i, port |-> 0])
    /\ published' = [published EXCEPT ![i] = 0]
    /\ UNCHANGED <<toDesktop, replyCh, listening, starts, timeouts, closed>>

(* roundTrip has a reply.  The start goes on to publish; the errors of     *)
(* unregister are ignored.                                                 *)
Reply ==
    /\ waiting # NoRequest /\ replyCh # <<>>
    /\ replyCh' = Tail(replyCh)
    /\ waiting' = NoRequest
    /\ published' = IF waiting.type = "register" /\ Head(replyCh) = "ack"
                    THEN [published EXCEPT ![waiting.id] = waiting.port] ELSE published
    /\ UNCHANGED <<toGateway, toDesktop, listening, starts, timeouts, closed>>

(* roundTrip gives up.  A start whose register timed out does not count    *)
(* the port as registered, so its rollback does not unregister it.         *)
TimeOut ==
    /\ waiting # NoRequest /\ timeouts < MaxTimeouts
    /\ timeouts' = timeouts + 1
    /\ waiting' = NoRequest
    /\ UNCHANGED <<toGateway, toDesktop, replyCh, published, listening, starts, closed>>

(* readLoop: a reply that finds replyCh full is dropped.                   *)
ReadLoop ==
    /\ toDesktop # <<>> /\ ~closed
    /\ toDesktop' = Tail(toDesktop)
    /\ replyCh' = IF Len(replyCh) < ReplyCap THEN Append(replyCh, Head(toDesktop))
                                             ELSE replyCh
    /\ UNCHANGED <<toGateway, waiting, published, listening, starts, timeouts, closed>>

-----------------------------------------------------------------------------
(* Mutant: a second register of an id replaces the listener, and fails     *)
(* after it has closed the old one.                                        *)
HandleReplaces ==
    /\ toGateway # <<>> /\ ~closed
    /\ toGateway' = Tail(toGateway)
    /\ LET r == Head(toGateway)
           refused == r.type = "register" /\ listening[r.id] # 0
       IN  /\ listening' = [listening EXCEPT ![r.id] =
                              IF refused THEN 0 ELSE r.port]
           /\ toDesktop' = Append(toDesktop, IF refused THEN "error" ELSE "ack")
    /\ UNCHANGED <<replyCh, waiting, published, starts, timeouts, closed>>

(* Mutant: an unregister gets no reply.                                    *)
HandleSilent ==
    /\ toGateway # <<>> /\ ~closed
    /\ toGateway' = Tail(toGateway)
    /\ LET r == Head(toGateway)
           refused == r.type = "register" /\ listening[r.id] # 0
       IN  /\ listening' = IF refused THEN listening
                           ELSE [listening EXCEPT ![r.id] = r.port]
           /\ toDesktop' = IF r.type = "unregister" THEN toDesktop
                           ELSE Append(toDesktop, IF refused THEN "error" ELSE "ack")
    /\ UNCHANGED <<replyCh, waiting, published, starts, timeouts, closed>>

(* handleControl serves one request at a time, in order, and replies.      *)
Handle ==
    /\ toGateway # <<>> /\ ~closed
    /\ toGateway' = Tail(toGateway)
    /\ LET r == Head(toGateway)
           refused == r.type = "register" /\ listening[r.id] # 0
       IN  /\ listening' = IF refused THEN listening
                           ELSE [listening EXCEPT ![r.id] = r.port]
           /\ toDesktop' = Append(toDesktop, IF refused THEN "error" ELSE "ack")
    /\ UNCHANGED <<replyCh, waiting, published, starts, timeouts, closed>>

(* The connection is lost: readLoop ends and closes replyCh, which ends    *)
(* the waiting roundTrip once it is empty; the Gateway drops the listeners. *)
Lost ==
    /\ ~closed
    /\ closed' = TRUE
    /\ toGateway' = <<>> /\ toDesktop' = <<>>
    /\ listening' = [i \in Ids |-> 0]
    /\ UNCHANGED <<replyCh, waiting, published, starts, timeouts>>

ClosedReply ==
    /\ closed /\ waiting # NoRequest /\ replyCh = <<>>
    /\ waiting' = NoRequest
    /\ UNCHANGED <<toGateway, toDesktop, replyCh, published, listening, starts,
                   timeouts, closed>>

Next == \/ \E i \in Ids : Start(i) \/ Stop(i)
        \/ Reply \/ TimeOut \/ ReadLoop \/ Handle \/ Lost \/ ClosedReply
Spec == Init /\ [][Next]_vars

(* Both ends run and the network delivers; no timer is needed for that.    *)
Duty(k) == \/ k = 1 /\ Reply
           \/ k = 2 /\ ReadLoop
           \/ k = 3 /\ Handle
           \/ k = 4 /\ ClosedReply

-----------------------------------------------------------------------------
(* The requests for id i that the Gateway has not seen yet.                *)
Underway(i) == \E n \in 1..Len(toGateway) : toGateway[n].id = i

(* Late replies may be taken for the wrong request, but an id with a        *)
(* runtime always has a listener, of this start or of an earlier one: the   *)
(* requests themselves keep their order.                                    *)
IdListens == \A i \in Ids :
    ~closed /\ published[i] # 0 /\ ~Underway(i) => listening[i] # 0

(* A roundTrip comes to an end by its reply, without the help of its timer, *)
(* even while late replies of earlier requests fill the buffer.             *)
RoundTripEnds == waiting # NoRequest ~> waiting = NoRequest
=============================================================================
