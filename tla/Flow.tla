-------------------------------- MODULE Flow --------------------------------
(***************************************************************************)
(* One TCP connection through a routed port forward, hop by hop:           *)
(*                                                                         *)
(*   application - forward (src/internal/portfwd/routed_tcp.go)            *)
(*     - sing-box - handleConnect (src/internal/socksbridge/server.go)     *)
(*     - API port-forward - handleOutbound (src/internal/gateway/server.go)*)
(*     - target                                                            *)
(*                                                                         *)
(* Link k is between the ends k and k + 1; relay j joins the links j and   *)
(* j + 1.  sing-box and the API port-forward carry bytes and the end of a  *)
(* stream as they are.  Bytes are counted, not named: nothing reorders.    *)
(***************************************************************************)
EXTENDS Naturals

CONSTANTS
    Request,   \* blocks the application sends
    Response   \* blocks the target answers with

Links == 1..4
Relays == 1..3
Directions == {"up", "down"}

VARIABLES
    sent,     \* blocks on their way, per link and direction
    fin,      \* links and directions whose writer has ended its stream
    shut,     \* ends that are closed, <<link, "l" or "r">>
    relay,    \* the goroutine of each relay
    copying,  \* its two copy loops
    app,      \* the application: blocks sent and received, and its state
    target,   \* the target likewise
    fwdr,     \* the forwarder: open, or a step of its Close
    tracked,  \* ends in routedForwarder.conns
    shown,    \* the entry of the traffic tracker
    broken    \* history: a dial failed, or Close ended the connection

vars == <<sent, fin, shut, relay, copying, app, target, fwdr, tracked, shown, broken>>

Idle == [d \in Directions |-> FALSE]
ClientEnd == <<1, "r">>
TargetEnd == <<2, "l">>

TypeOK ==
    /\ sent \in [Links -> [Directions -> 0..(Request + Response)]]
    /\ fin \subseteq Links \X Directions /\ shut \subseteq Links \X {"l", "r"}
    /\ relay \in [Relays -> {"none", "dialing", "track", "relay", "ended"}]
    /\ copying \in [Relays -> [Directions -> BOOLEAN]]
    /\ fwdr \in {"open", "cancelled", "waiting", "closed"}
    /\ tracked \subseteq {ClientEnd, TargetEnd} /\ shown \in {"none", "open", "closed"}

Init ==
    /\ sent = [k \in Links |-> [d \in Directions |-> 0]]
    /\ fin = {} /\ shut = {}
    /\ relay = [j \in Relays |-> "none"] /\ copying = [j \in Relays |-> Idle]
    /\ app = [pc |-> "idle", sent |-> 0, got |-> 0, half |-> FALSE]
    /\ target = [pc |-> "idle", sent |-> 0, got |-> 0]
    /\ fwdr = "open" /\ tracked = {} /\ shown = "none" /\ broken = FALSE

-----------------------------------------------------------------------------
Other(e) == IF e = "l" THEN "r" ELSE "l"
Writes(e) == IF e = "l" THEN "up" ELSE "down"

(* A closed end writes no more: its peer reads what is on the way, then    *)
(* the end of the stream.                                                  *)
Closed(F, E) == F \cup {<<x[1], Writes(x[2])>> : x \in E}
CloseEnds(E) == shut' = shut \cup E /\ fin' = Closed(fin, E)

(* The end from which a relay reads in a direction, and the one it writes. *)
ReadEnd(j, d) == IF d = "up" THEN <<j, "r">> ELSE <<j + 1, "l">>
WriteEnd(j, d) == IF d = "up" THEN <<j + 1, "l">> ELSE <<j, "r">>
PeerGone(x) == <<x[1], Other(x[2])>> \in shut

-----------------------------------------------------------------------------
(* The application connects, sends, may end its stream and goes on         *)
(* reading, or closes.                                                     *)
Connect ==
    /\ app.pc = "idle" /\ fwdr = "open"
    /\ app' = [app EXCEPT !.pc = "open"]
    /\ relay' = [relay EXCEPT ![1] = "dialing"]
    /\ tracked' = {ClientEnd}
    /\ UNCHANGED <<sent, fin, shut, copying, target, fwdr, shown, broken>>

Send ==
    /\ app.pc = "open" /\ app.sent < Request /\ ~app.half
    /\ app' = [app EXCEPT !.sent = @ + 1]
    /\ sent' = [sent EXCEPT ![1]["up"] = @ + 1]
    /\ UNCHANGED <<fin, shut, relay, copying, target, fwdr, tracked, shown, broken>>

HalfClose ==
    /\ app.pc = "open" /\ app.sent = Request /\ ~app.half
    /\ app' = [app EXCEPT !.half = TRUE]
    /\ fin' = fin \cup {<<1, "up">>}
    /\ UNCHANGED <<sent, shut, relay, copying, target, fwdr, tracked, shown, broken>>

Receive ==
    /\ app.pc = "open"
    /\ IF sent[1]["down"] > 0
       THEN /\ app' = [app EXCEPT !.got = @ + 1]
            /\ sent' = [sent EXCEPT ![1]["down"] = @ - 1]
       ELSE /\ <<1, "down">> \in fin
            /\ app' = [app EXCEPT !.pc = "eof"] /\ UNCHANGED sent
    /\ UNCHANGED <<fin, shut, relay, copying, target, fwdr, tracked, shown, broken>>

Quit ==
    /\ app.pc \in {"open", "eof"}
    /\ app' = [app EXCEPT !.pc = "closed"] /\ CloseEnds({<<1, "l">>})
    /\ UNCHANGED <<sent, relay, copying, target, fwdr, tracked, shown, broken>>

(* The target answers when it has the request, and then closes.            *)
Serve ==
    /\ target.pc = "open"
    /\ \/ /\ sent[4]["up"] > 0
          /\ target' = [target EXCEPT !.got = @ + 1]
          /\ sent' = [sent EXCEPT ![4]["up"] = @ - 1] /\ UNCHANGED <<fin, shut>>
       \/ /\ target.got = Request /\ target.sent < Response
          /\ target' = [target EXCEPT !.sent = @ + 1]
          /\ sent' = [sent EXCEPT ![4]["down"] = @ + 1] /\ UNCHANGED <<fin, shut>>
       \/ /\ target.sent = Response \/ (<<4, "up">> \in fin /\ target.got < Request)
          /\ target' = [target EXCEPT !.pc = "closed"]
          /\ CloseEnds({<<4, "r">>}) /\ UNCHANGED sent
    /\ UNCHANGED <<relay, copying, app, fwdr, tracked, shown, broken>>

-----------------------------------------------------------------------------
(* The dial of a relay makes the next hop; the last one dials the target.  *)
(* The gateway first checks the tenant and the address.                    *)
DialNext(j) ==
    /\ relay[j] = "dialing" /\ <<j, "r">> \notin shut
    /\ \/ /\ j < 3 /\ relay[j + 1] = "none"
          /\ relay' = [relay EXCEPT ![j + 1] = "dialing"] /\ UNCHANGED target
       \/ /\ j = 3 /\ target.pc = "idle"
          /\ target' = [target EXCEPT !.pc = "open"] /\ UNCHANGED relay
    /\ UNCHANGED <<sent, fin, shut, copying, app, fwdr, tracked, shown, broken>>

(* TrackedDialer enters the forwarder's connection into the traffic view,  *)
(* and its first Close, or a read of the end, marks the entry closed.      *)
Entered(j) == shown' = IF j = 1 THEN "open" ELSE shown
Marked(seen) == shown' = IF seen THEN "closed" ELSE shown

Answered(j) == IF j = 3 THEN target.pc # "idle" ELSE relay[j + 1] \in {"relay", "ended"}

(* The status of the gateway and the SOCKS replies travel back.            *)
DialDone(j) ==
    /\ relay[j] = "dialing" /\ Answered(j) /\ <<j + 1, "r">> \notin shut
    /\ relay' = [relay EXCEPT ![j] = IF j = 1 THEN "track" ELSE "relay"]
    /\ copying' = [copying EXCEPT ![j] = IF j = 1 THEN @ ELSE [d \in Directions |-> TRUE]]
    /\ Entered(j)
    /\ UNCHANGED <<sent, fin, shut, app, target, fwdr, tracked, broken>>

End(j) == /\ relay' = [relay EXCEPT ![j] = "ended"]
          /\ CloseEnds({<<j, "r">>, <<j + 1, "l">>})
          /\ tracked' = IF j = 1 THEN {} ELSE tracked

(* A dial fails by itself, because a later hop refused, or because Close   *)
(* has cancelled it; the SOCKS handshake does not notice the cancellation. *)
DialFails(j) ==
    /\ relay[j] = "dialing"
    /\ \/ j = 3 /\ target.pc = "idle"
       \/ j < 3 /\ relay[j + 1] = "none"
       \/ <<j + 1, "r">> \in shut
    /\ End(j) /\ broken' = TRUE
    /\ UNCHANGED <<sent, copying, app, target, fwdr, shown>>

(* track refuses the target when the forwarder has been cancelled.         *)
Track ==
    /\ relay[1] = "track"
    /\ IF fwdr = "open"
       THEN /\ tracked' = tracked \cup {TargetEnd}
            /\ relay' = [relay EXCEPT ![1] = "relay"]
            /\ copying' = [copying EXCEPT ![1] = [d \in Directions |-> TRUE]]
            /\ UNCHANGED <<fin, shut, shown>>
       ELSE End(1) /\ Marked(TRUE) /\ UNCHANGED copying
    /\ UNCHANGED <<sent, app, target, fwdr, broken>>

-----------------------------------------------------------------------------
Copy(j, d) ==
    /\ copying[j][d] /\ sent[ReadEnd(j, d)[1]][d] > 0
    /\ ReadEnd(j, d) \notin shut /\ WriteEnd(j, d) \notin shut /\ ~PeerGone(WriteEnd(j, d))
    /\ sent' = [sent EXCEPT ![ReadEnd(j, d)[1]][d] = @ - 1, ![WriteEnd(j, d)[1]][d] = @ + 1]
    /\ UNCHANGED <<fin, shut, relay, copying, app, target, fwdr, tracked, shown, broken>>

(* io.Copy returns at the end of the stream or on an error, and the end is *)
(* passed on where the connection can do so; the tracked connection of the *)
(* forwarder cannot.                                                       *)
AtEnd(j, d) == sent[ReadEnd(j, d)[1]][d] = 0 /\ <<ReadEnd(j, d)[1], d>> \in fin
CopyEnds(j, d) ==
    /\ copying[j][d]
    /\ \/ AtEnd(j, d)
       \/ ReadEnd(j, d) \in shut \/ WriteEnd(j, d) \in shut
       \/ sent[ReadEnd(j, d)[1]][d] > 0 /\ PeerGone(WriteEnd(j, d))
    /\ copying' = [copying EXCEPT ![j][d] = FALSE]
    /\ fin' = IF WriteEnd(j, d) = TargetEnd THEN fin
              ELSE fin \cup {<<WriteEnd(j, d)[1], d>>}
    /\ Marked(j = 1 /\ d = "down" /\ AtEnd(j, d))
    /\ UNCHANGED <<sent, shut, relay, app, target, fwdr, tracked, broken>>

(* The first loop that ends ends the relay: both connections are closed.   *)
RelayEnds(j) ==
    /\ relay[j] = "relay" /\ \E d \in Directions : ~copying[j][d]
    /\ End(j)
    /\ Marked(j = 1)
    /\ UNCHANGED <<sent, copying, app, target, fwdr, broken>>

-----------------------------------------------------------------------------
(* routedForwarder.Close: cancel, close the listener and what is tracked,  *)
(* and wait for the goroutines.                                            *)
Close ==
    /\ fwdr = "open" /\ fwdr' = "cancelled" /\ broken' = TRUE
    /\ UNCHANGED <<sent, fin, shut, relay, copying, app, target, tracked, shown>>

CloseTrackedNever ==  \* mutant: the connections are left to their peers
    /\ fwdr = "cancelled" /\ fwdr' = "waiting"
    /\ UNCHANGED <<sent, fin, shut, relay, copying, app, target, tracked, shown, broken>>

CloseTracked ==
    /\ fwdr = "cancelled" /\ fwdr' = "waiting"
    /\ CloseEnds(tracked)
    /\ Marked(TargetEnd \in tracked)
    /\ UNCHANGED <<sent, relay, copying, app, target, tracked, broken>>

Waited ==
    /\ fwdr = "waiting" /\ relay[1] \in {"none", "ended"}
    /\ fwdr' = "closed"
    /\ UNCHANGED <<sent, fin, shut, relay, copying, app, target, tracked, shown, broken>>

-----------------------------------------------------------------------------
RelayStep(j) ==
    \/ DialNext(j) \/ DialDone(j) \/ DialFails(j) \/ RelayEnds(j)
    \/ \E d \in Directions : Copy(j, d) \/ CopyEnds(j, d)
Next ==
    \/ Connect \/ Send \/ HalfClose \/ Receive \/ Quit \/ Serve
    \/ \E j \in Relays : RelayStep(j)
    \/ Track \/ Close \/ CloseTracked \/ Waited

Spec == Init /\ [][Next]_vars

(* Goroutines run, and a dial ends because the next hop answers or breaks; *)
(* applications and targets owe nothing.                                   *)
Duty(k) ==
    \/ \E j \in Relays :
         \/ k = j /\ (DialNext(j) \/ DialDone(j) \/ DialFails(j) \/ RelayEnds(j) \/ (j = 1 /\ Track))
         \/ k = 3 + j /\ (Copy(j, "up") \/ CopyEnds(j, "up"))
         \/ k = 6 + j /\ (Copy(j, "down") \/ CopyEnds(j, "down"))
    \/ k = 10 /\ (CloseTracked \/ Waited)

-----------------------------------------------------------------------------
Whole == app.got = Response

(* An application that keeps its side open until the target closes reads   *)
(* the whole answer through all three relays, unless a dial failed or the  *)
(* forward was stopped.                                                    *)
AnswerComplete == app.pc = "eof" /\ ~app.half /\ ~broken => Whole

(* The traffic view shows a connection as open only while the forwarder    *)
(* still has it, and nothing of it stays open after Close has returned.    *)
NothingAfterClose ==
    /\ shown = "open" => relay[1] \in {"track", "relay"}
    /\ fwdr = "closed" /\ relay[1] = "ended" => {ClientEnd, TargetEnd} \subseteq shut

(* Close returns, and every hop behind the connection goes away with it,   *)
(* whatever the connection was doing.                                      *)
CloseReaches == fwdr = "cancelled" ~> (fwdr = "closed" /\ \A j \in Relays : relay[j] \in {"none", "ended"})
=============================================================================
