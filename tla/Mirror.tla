------------------------------- MODULE Mirror -------------------------------
(***************************************************************************)
(* One TCP stream through mirrorTCP (src/internal/intercept/mirror.go):    *)
(* the request copier, the response copier, the shadowWriter with its      *)
(* bounded queue and its own goroutine, and the teardown in the deferred   *)
(* calls.  Without a shadow (shadowed = FALSE) mirrorTCP does what         *)
(* relayTCP does for Exchange, Preview and the Gateway's reverse streams.  *)
(* Around it: a client, Primary (the original Pod) and the local process.  *)
(***************************************************************************)
EXTENDS Naturals, Sequences

CONSTANTS
    MaxChunks,   \* bound: request payloads of the stream
    MaxReplies,  \* bound: response payloads of the stream
    QueueSize,   \* mirrorShadowQueueSize
    SocketSize   \* payloads the local socket takes before a write blocks

VARIABLES
    client,    \* what the client did: payloads sent, write side shut, gone
    server,    \* what Primary did: payloads answered, write side shut, failed
    req,       \* the request copier: pc, payloads read, payloads forwarded
    resp,      \* the response copier: pc, payloads returned to the client
    mir,       \* mirrorTCP itself
    queue, aborted, closed, \* shadowWriter
    worker,    \* shadowWriter.run: pc and the payload in hand
    connUp,    \* the shadow connection has not been closed on this side
    got, read, \* payloads written to the local socket; how many it has read
    localUp,   \* the local process keeps its end open
    shadowed,  \* the dial of the local process succeeded
    panicked   \* a send on the closed queue

shadow == <<queue, aborted, closed, worker, connUp, got>>
local == <<read, localUp, shadowed>>
vars == <<client, server, req, resp, mir, shadow, local, panicked>>

Chunks == 0..MaxChunks
TypeOK ==
    /\ client \in [sent : Chunks, fin : BOOLEAN, gone : BOOLEAN]
    /\ server \in [sent : 0..MaxReplies, fin : BOOLEAN, failed : BOOLEAN]
    /\ req \in [pc : {"read", "tee", "forward", "fin", "done"}, in : Chunks, out : Chunks]
    /\ resp \in [pc : {"copy", "fin", "done"}, out : 0..MaxReplies]
    /\ mir \in {"wait", "shut", "drain", "close", "closed"}
    /\ queue \in Seq(1..MaxChunks) /\ Len(queue) <= QueueSize
    /\ worker \in [pc : {"take", "check", "write", "done"}, chunk : Chunks]
    /\ got \in Seq(1..MaxChunks) /\ read \in Chunks
    /\ \A b \in {aborted, closed, connUp, localUp, shadowed, panicked} : b \in BOOLEAN

Init ==
    /\ shadowed \in BOOLEAN
    /\ client = [sent |-> 0, fin |-> FALSE, gone |-> FALSE]
    /\ server = [sent |-> 0, fin |-> FALSE, failed |-> FALSE]
    /\ req = [pc |-> "read", in |-> 0, out |-> 0]
    /\ resp = [pc |-> "copy", out |-> 0]
    /\ mir = "wait"
    /\ queue = <<>> /\ aborted = FALSE /\ closed = FALSE
    /\ worker = [pc |-> IF shadowed THEN "take" ELSE "done", chunk |-> 0]
    /\ connUp = shadowed /\ got = <<>> /\ read = 0 /\ localUp = shadowed
    /\ panicked = FALSE

Over == mir = "closed"   \* mirrorTCP has closed the client and Primary

-----------------------------------------------------------------------------
(* The client and Primary, at the other ends of the two connections.       *)

ClientSend ==
    /\ client.sent < MaxChunks /\ ~client.fin /\ ~client.gone
    /\ client' = [client EXCEPT !.sent = @ + 1]
    /\ UNCHANGED <<server, req, resp, mir, shadow, local, panicked>>

(* The client has nothing more to send and still reads.                    *)
ClientHalfClose ==
    /\ client.sent > 0 /\ ~client.fin /\ ~client.gone
    /\ client' = [client EXCEPT !.fin = TRUE]
    /\ UNCHANGED <<server, req, resp, mir, shadow, local, panicked>>

ClientGone ==
    /\ ~client.gone
    /\ client' = [client EXCEPT !.fin = TRUE, !.gone = TRUE]
    /\ UNCHANGED <<server, req, resp, mir, shadow, local, panicked>>

(* Primary answers once it has a request: payload by payload, or all after *)
(* the end of the request.                                                 *)
ServerSend ==
    /\ req.out > 0 /\ server.sent < MaxReplies /\ ~server.fin
    /\ server' = [server EXCEPT !.sent = @ + 1]
    /\ UNCHANGED <<client, req, resp, mir, shadow, local, panicked>>

ServerFin ==
    /\ req.out > 0 /\ server.sent > 0 /\ ~server.fin
    /\ server' = [server EXCEPT !.fin = TRUE]
    /\ UNCHANGED <<client, req, resp, mir, shadow, local, panicked>>

ServerFails ==
    /\ ~server.fin
    /\ server' = [server EXCEPT !.fin = TRUE, !.failed = TRUE]
    /\ UNCHANGED <<client, req, resp, mir, shadow, local, panicked>>

-----------------------------------------------------------------------------
(* The request copier: io.Copy(io.MultiWriter(shadow, primary), client).   *)

ReqRead ==
    /\ req.pc = "read" /\ req.in < client.sent /\ ~Over /\ ~client.gone
    /\ req' = [req EXCEPT !.in = @ + 1, !.pc = IF shadowed THEN "tee" ELSE "forward"]
    /\ UNCHANGED <<client, server, resp, mir, shadow, local, panicked>>

ReqEOF ==
    /\ req.pc = "read"
    /\ Over \/ client.gone \/ (client.fin /\ req.in = client.sent)
    /\ req' = [req EXCEPT !.pc = "fin"]
    /\ UNCHANGED <<client, server, resp, mir, shadow, local, panicked>>

(* Mutants of shadowWriter.Write: the send is done on a closed queue; the  *)
(* send waits for room.                                                    *)
WriteWhenClosed(c) ==
    /\ panicked' = closed
    /\ queue' = IF Len(queue) < QueueSize /\ ~aborted THEN Append(queue, c) ELSE queue
    /\ aborted' = (aborted \/ Len(queue) >= QueueSize)
    /\ connUp' = (connUp /\ aborted' = aborted)
WriteBlocks(c) ==
    /\ closed \/ aborted \/ Len(queue) < QueueSize
    /\ queue' = IF closed \/ aborted THEN queue ELSE Append(queue, c)
    /\ UNCHANGED <<aborted, connUp, panicked>>

(* shadowWriter.Write never waits and always reports success: a full queue *)
(* ends the copy and closes the shadow connection.                         *)
Write(c) ==
    /\ \/ /\ aborted \/ closed
          /\ UNCHANGED <<queue, aborted, connUp>>
       \/ /\ ~aborted /\ ~closed /\ Len(queue) < QueueSize
          /\ queue' = Append(queue, c)
          /\ UNCHANGED <<aborted, connUp>>
       \/ /\ ~aborted /\ ~closed /\ Len(queue) = QueueSize
          /\ aborted' = TRUE /\ connUp' = FALSE
          /\ UNCHANGED queue
    /\ UNCHANGED panicked

ReqTee ==
    /\ req.pc = "tee"
    /\ Write(req.in)
    /\ req' = [req EXCEPT !.pc = "forward"]
    /\ UNCHANGED <<client, server, resp, mir, closed, worker, got, local>>

ReqForward ==
    /\ req.pc = "forward"
    /\ req' = IF Over \/ server.failed THEN [req EXCEPT !.pc = "fin"]
              ELSE [req EXCEPT !.out = req.in, !.pc = "read"]
    /\ UNCHANGED <<client, server, resp, mir, shadow, local, panicked>>

(* closeWrite(primary); done <- struct{}{}                                 *)
ReqFin ==
    /\ req.pc = "fin"
    /\ req' = [req EXCEPT !.pc = "done"]
    /\ UNCHANGED <<client, server, resp, mir, shadow, local, panicked>>

-----------------------------------------------------------------------------
(* The response copier: io.Copy(client, primary).                          *)

RespCopy ==
    /\ resp.pc = "copy" /\ resp.out < server.sent /\ ~Over
    /\ resp' = IF client.gone THEN [resp EXCEPT !.pc = "fin"]
                              ELSE [resp EXCEPT !.out = @ + 1]
    /\ UNCHANGED <<client, server, req, mir, shadow, local, panicked>>

RespEOF ==
    /\ resp.pc = "copy"
    /\ Over \/ server.failed \/ (server.fin /\ resp.out = server.sent)
    /\ resp' = [resp EXCEPT !.pc = "fin"]
    /\ UNCHANGED <<client, server, req, mir, shadow, local, panicked>>

RespFin ==
    /\ resp.pc = "fin"
    /\ resp' = [resp EXCEPT !.pc = "done"]
    /\ UNCHANGED <<client, server, req, mir, shadow, local, panicked>>

-----------------------------------------------------------------------------
(* mirrorTCP: <-done, then the deferred calls, last one first.             *)

Done ==
    /\ mir = "wait" /\ (req.pc = "done" \/ resp.pc = "done")
    /\ mir' = IF shadowed THEN "shut" ELSE "close"
    /\ UNCHANGED <<client, server, req, resp, shadow, local, panicked>>

(* shadowWriter.Close: mark, close the queue ...                           *)
ShadowClose ==
    /\ mir = "shut"
    /\ closed' = TRUE /\ mir' = "drain"
    /\ UNCHANGED <<client, server, req, resp, queue, aborted, worker, connUp, got,
                   local, panicked>>

(* ... wait for the worker or for 50ms, and close the connection.          *)
ShadowDrained ==
    /\ mir = "drain"
    /\ connUp' = FALSE /\ mir' = "close"
    /\ UNCHANGED <<client, server, req, resp, queue, aborted, closed, worker, got,
                   local, panicked>>

CloseBoth ==
    /\ mir = "close"
    /\ mir' = "closed"
    /\ UNCHANGED <<client, server, req, resp, shadow, local, panicked>>

-----------------------------------------------------------------------------
(* shadowWriter.run *)

WorkerTake ==
    /\ worker.pc = "take" /\ queue # <<>>
    /\ worker' = [pc |-> "check", chunk |-> Head(queue)]
    /\ queue' = Tail(queue)
    /\ UNCHANGED <<client, server, req, resp, mir, aborted, closed, connUp, got,
                   local, panicked>>

WorkerCheck ==
    /\ worker.pc = "check"
    /\ worker' = [worker EXCEPT !.pc = IF aborted THEN "take" ELSE "write"]
    /\ UNCHANGED <<client, server, req, resp, mir, queue, aborted, closed, connUp,
                   got, local, panicked>>

(* Mutant: a payload that was written is written once more.                *)
WorkerWriteAgain ==
    /\ worker.pc = "write"
    /\ \/ /\ connUp /\ localUp /\ Len(got) - read < SocketSize
          /\ got' = Append(got, worker.chunk)
          /\ worker' = [worker EXCEPT !.pc = IF Len(got) = 0 THEN "write" ELSE "take"]
          /\ UNCHANGED <<aborted, connUp>>
       \/ /\ ~connUp \/ ~localUp
          /\ aborted' = TRUE /\ connUp' = FALSE
          /\ worker' = [worker EXCEPT !.pc = "take"]
          /\ UNCHANGED got
    /\ UNCHANGED <<client, server, req, resp, mir, queue, closed, local, panicked>>

(* conn.Write waits for room in the socket and fails on a closed one.      *)
WorkerWrite ==
    /\ worker.pc = "write"
    /\ worker' = [worker EXCEPT !.pc = "take"]
    /\ \/ /\ connUp /\ localUp /\ Len(got) - read < SocketSize
          /\ got' = Append(got, worker.chunk)
          /\ UNCHANGED <<aborted, connUp>>
       \/ /\ ~connUp \/ ~localUp
          /\ aborted' = TRUE /\ connUp' = FALSE
          /\ UNCHANGED got
    /\ UNCHANGED <<client, server, req, resp, mir, queue, closed, local, panicked>>

WorkerEnd ==
    /\ worker.pc = "take" /\ queue = <<>> /\ closed
    /\ worker' = [worker EXCEPT !.pc = "done"]
    /\ UNCHANGED <<client, server, req, resp, mir, queue, aborted, closed, connUp,
                   got, local, panicked>>

(* The local process reads when it likes, and may go away.                 *)
LocalRead ==
    /\ localUp /\ read < Len(got)
    /\ read' = read + 1
    /\ UNCHANGED <<client, server, req, resp, mir, shadow, localUp, shadowed, panicked>>

LocalGone ==
    /\ localUp
    /\ localUp' = FALSE
    /\ UNCHANGED <<client, server, req, resp, mir, shadow, read, shadowed, panicked>>

-----------------------------------------------------------------------------
ReqStep == ReqRead \/ ReqEOF \/ ReqTee \/ ReqForward \/ ReqFin
RespStep == RespCopy \/ RespEOF \/ RespFin
MirStep == Done \/ ShadowClose \/ ShadowDrained \/ CloseBoth
WorkerStep == WorkerTake \/ WorkerCheck \/ WorkerWrite \/ WorkerEnd
Peers == \/ ClientSend \/ ClientHalfClose \/ ClientGone
         \/ ServerSend \/ ServerFin \/ ServerFails \/ LocalRead \/ LocalGone
Next == ReqStep \/ RespStep \/ MirStep \/ WorkerStep \/ Peers

Spec == Init /\ [][Next]_vars

(* Our own goroutines run.  Nothing is assumed of the client, of Primary   *)
(* or of the local process: it may never read a byte.                      *)
Duty(k) == \/ k = 1 /\ ReqStep
           \/ k = 2 /\ RespStep
           \/ k = 3 /\ MirStep
           \/ k = 4 /\ WorkerStep

-----------------------------------------------------------------------------
(* Shadow gets a prefix of what Primary's stream carries, in order and      *)
(* without a gap, whatever the queue, the local process and the teardown    *)
(* do; and after the copy is given up nothing more is copied.               *)
Copy == INSTANCE Tee WITH sent <- client.sent, primary <- req.out, shadow <- got,
                          gaveUp <- ~connUp
ImplementsTee == Copy!TeeSpec

(* A late payload of the request copier meets a closed shadowWriter without *)
(* a send on its closed queue.                                              *)
NoSendOnClosed == ~panicked

(* "Shadow receives the same request data as Primary": as long as the copy  *)
(* has not been given up, every payload Primary has been given is written   *)
(* to the local socket, in the worker's hand or in the queue.               *)
ShadowKeepsUp ==
    shadowed /\ ~aborted /\ ~closed =>
        Len(got) + Len(queue) + (IF worker.pc \in {"check", "write"} THEN 1 ELSE 0)
            >= req.out

(* A client that keeps its connection open gets every payload of a Primary  *)
(* that ends its answer orderly before mirrorTCP closes the connection.     *)
ResponseComplete ==
    Over /\ ~client.fin /\ ~server.failed => server.fin /\ resp.out = server.sent

(* "Primary is unaffected when Shadow is not listening, responds slowly,    *)
(* disconnects, or has a full buffer": each payload is forwarded, though    *)
(* the local process may never read.  And a teardown comes to an end, with  *)
(* the shadow's goroutine, though its write may be blocked on that process. *)
Forwarded == req.out = client.sent \/ client.gone \/ server.failed
StreamMoves ==
    (~Forwarded \/ mir # "wait")
        ~> ((mir = "wait" /\ Forwarded) \/ (Over /\ worker.pc = "done"))
=============================================================================
