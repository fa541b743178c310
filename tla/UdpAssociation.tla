--------------------------- MODULE UdpAssociation ---------------------------
(***************************************************************************)
(* The Gateway's reverse UDP listener (src/internal/gateway/reverse_udp.go *)
(* and pendingStream.serveUDP in pending.go), seen from one remote client: *)
(* the reader goroutine, the janitor, the pending offer with its timer and *)
(* the goroutine that serves the accepted tunnel share one association     *)
(* object under three locks.  An association object is named by the stream *)
(* id it was offered with; the map entry `cur` can move on to another one  *)
(* while older goroutines still hold theirs.                               *)
(***************************************************************************)
EXTENDS Naturals, FiniteSets

CONSTANTS
    MaxStreams,    \* bound: associations ever made for the remote
    MaxDatagrams   \* bound: datagrams the remote sends

VARIABLES
    cur,       \* associations[remote]: the object in the map, 0 if none
    next,      \* nextStream
    assoc,     \* the association objects: tunnel set?, first set?, pendingID set?
    fresh,     \* lastSeen of the object is less than udpAssociationIdle ago
    pending,   \* Server.pending, each with its timer
    told,      \* streams whose InboundReady has reached the desktop
    serve,     \* handleAccept and serveUDP of each stream
    up,        \* tunnel connections that are open at both ends
    reader,    \* acceptUDP: its pc and the object in its hand
    canceled,  \* the listener has been stopped
    left       \* datagrams the remote may still send

vars == <<cur, next, assoc, fresh, pending, told, serve, up, reader, canceled, left>>

Streams == 1..MaxStreams
NoAssoc == [tunnel |-> FALSE, first |-> FALSE, pendingID |-> FALSE]

TypeOK ==
    /\ next \in 0..MaxStreams /\ cur \in 0..next
    /\ assoc \in [Streams -> [tunnel : BOOLEAN, first : BOOLEAN, pendingID : BOOLEAN]]
    /\ fresh \subseteq Streams /\ pending \subseteq Streams /\ told \subseteq Streams
    /\ up \subseteq Streams
    /\ serve \in [Streams -> {"none", "taken", "serving", "done"}]
    /\ reader \in [pc : {"read", "offer", "notify", "write", "failed", "panic", "ended"},
                   s : 0..next]
    /\ canceled \in BOOLEAN /\ left \in 0..MaxDatagrams

Init ==
    /\ cur = 0 /\ next = 0 /\ assoc = [s \in Streams |-> NoAssoc]
    /\ fresh = {} /\ pending = {} /\ told = {} /\ up = {}
    /\ serve = [s \in Streams |-> "none"]
    /\ reader = [pc |-> "read", s |-> 0]
    /\ canceled = FALSE /\ left = MaxDatagrams

Reading == [pc |-> "read", s |-> 0]
Panicked == reader.pc = "panic"

-----------------------------------------------------------------------------
(* acceptUDP.  A datagram comes in ...                                     *)

Send == /\ reader.pc = "read" /\ ~canceled /\ left > 0
        /\ left' = left - 1

(* ... for an association with a tunnel: it is written without the locks.  *)
RecvTunnel ==
    /\ Send /\ cur # 0 /\ assoc[cur].tunnel
    /\ fresh' = fresh \cup {cur}
    /\ reader' = [pc |-> "write", s |-> cur]
    /\ UNCHANGED <<cur, next, assoc, pending, told, serve, up, canceled>>

(* ... for one without: it becomes the first datagram.                     *)
RecvWaiting ==
    /\ Send /\ cur # 0 /\ ~assoc[cur].tunnel
    /\ fresh' = fresh \cup {cur}
    /\ assoc' = [assoc EXCEPT ![cur].first = TRUE]
    /\ UNCHANGED <<cur, next, pending, told, serve, up, reader, canceled>>

(* ... from an unknown remote: a new association.                          *)
RecvNew ==
    /\ Send /\ cur = 0 /\ next < MaxStreams
    /\ next' = next + 1 /\ cur' = next + 1
    /\ assoc' = [assoc EXCEPT ![next + 1] =
                   [tunnel |-> FALSE, first |-> TRUE, pendingID |-> TRUE]]
    /\ fresh' = fresh \cup {next + 1}
    /\ reader' = [pc |-> "offer", s |-> next + 1]
    /\ UNCHANGED <<pending, told, serve, up, canceled>>

(* offerPending starts the timer.                                          *)
Offer ==
    /\ reader.pc = "offer"
    /\ pending' = pending \cup {reader.s}
    /\ reader' = [reader EXCEPT !.pc = "notify"]
    /\ UNCHANGED <<cur, next, assoc, fresh, told, serve, up, canceled, left>>

(* InboundReady is written to the control connection; if that fails the    *)
(* listener's reader ends.                                                 *)
Notify ==
    /\ reader.pc = "notify"
    /\ \/ /\ told' = told \cup {reader.s}
          /\ reader' = Reading
          /\ UNCHANGED <<cur, pending>>
       \/ /\ pending' = pending \ {reader.s} /\ cur' = 0
          /\ reader' = [pc |-> "ended", s |-> 0]
          /\ UNCHANGED told
    /\ UNCHANGED <<next, assoc, fresh, serve, up, canceled, left>>

(* WriteDatagram: a dead tunnel is noticed by this write or a later one.   *)
WriteTunnel ==
    /\ reader.pc = "write"
    /\ \/ reader' = Reading
       \/ reader.s \notin up /\ reader' = [reader EXCEPT !.pc = "failed"]
    /\ UNCHANGED <<cur, next, assoc, fresh, pending, told, serve, up, canceled, left>>

(* After a failed write: assoc.tunnel.Close(), under the locks again.  By  *)
(* then serveUDP may have cleared assoc.tunnel, and the call panics.       *)
WriteFailed ==
    /\ reader.pc = "failed"
    /\ IF assoc[reader.s].tunnel
       THEN /\ assoc' = [assoc EXCEPT ![reader.s].tunnel = FALSE]
            /\ up' = up \ {reader.s}
            /\ cur' = 0
            /\ reader' = Reading
       ELSE /\ reader' = [reader EXCEPT !.pc = "panic"]
            /\ UNCHANGED <<cur, assoc, up>>
    /\ UNCHANGED <<next, fresh, pending, told, serve, canceled, left>>

(* interceptListener.stop, called when the intercept is unregistered or    *)
(* its control is lost, closes the socket.                                 *)
Stop ==
    /\ ~canceled /\ ~Panicked
    /\ canceled' = TRUE
    /\ UNCHANGED <<cur, next, assoc, fresh, pending, told, serve, up, reader, left>>

(* The reader meets the closed socket and cleans up.                       *)
ReaderEnd ==
    /\ reader.pc = "read" /\ canceled
    /\ reader' = [pc |-> "ended", s |-> 0]
    /\ up' = up \ {s \in {cur} : s # 0 /\ assoc[s].tunnel}
    /\ pending' = pending \ {s \in {cur} : s # 0 /\ assoc[s].pendingID}
    /\ UNCHANGED <<cur, next, assoc, fresh, told, serve, canceled, left>>

-----------------------------------------------------------------------------
(* The timer of a pending offer.                                           *)
AcceptTimeout(s) ==
    /\ s \in pending /\ ~Panicked
    /\ pending' = pending \ {s}
    /\ UNCHANGED <<cur, next, assoc, fresh, told, serve, up, reader, canceled, left>>

(* udpAssociationIdle (60s) passes without a datagram in either direction; *)
(* pendingAcceptTimeout (15s) has passed long before, and no goroutine     *)
(* stalls for the 45s between the two.                                     *)
Idle(s) ==
    /\ s \in fresh
    /\ s \notin pending /\ serve[s] # "taken"
    /\ ~(reader.s = s /\ reader.pc = "offer")
    /\ fresh' = fresh \ {s}
    /\ UNCHANGED <<cur, next, assoc, pending, told, serve, up, reader, canceled, left>>

(* Mutant: the janitor forgets the tunnel.                                 *)
JanitorKeepsTunnel ==
    /\ ~canceled /\ ~Panicked /\ cur # 0 /\ cur \notin fresh
    /\ pending' = pending \ {s \in {cur} : assoc[s].pendingID}
    /\ cur' = 0
    /\ UNCHANGED <<next, assoc, fresh, told, serve, up, reader, canceled, left>>

(* Mutant: the janitor looks at associations with a tunnel only.           *)
JanitorTunnelsOnly ==
    /\ ~canceled /\ ~Panicked /\ cur # 0 /\ cur \notin fresh /\ assoc[cur].tunnel
    /\ up' = up \ {cur} /\ cur' = 0
    /\ UNCHANGED <<next, assoc, fresh, pending, told, serve, reader, canceled, left>>

(* The janitor reclaims an association that has been idle.                 *)
Janitor ==
    /\ ~canceled /\ ~Panicked /\ cur # 0 /\ cur \notin fresh
    /\ up' = up \ {s \in {cur} : assoc[s].tunnel}
    /\ pending' = pending \ {s \in {cur} : assoc[s].pendingID}
    /\ cur' = 0
    /\ UNCHANGED <<next, assoc, fresh, told, serve, reader, canceled, left>>

-----------------------------------------------------------------------------
(* The desktop accepts the stream, in time and with a status it can read,  *)
(* or not: handleAccept.                                                   *)
Accept(s) ==
    /\ ~Panicked /\ s \in told /\ s \in pending
    /\ pending' = pending \ {s}
    /\ \/ serve' = [serve EXCEPT ![s] = "taken"] /\ up' = up \cup {s}
       \/ serve' = [serve EXCEPT ![s] = "done"] /\ UNCHANGED up
    /\ UNCHANGED <<cur, next, assoc, fresh, told, reader, canceled, left>>

(* serveUDP publishes the tunnel and sends the first datagram; if that     *)
(* fails it returns and leaves the tunnel to the next write.               *)
ServeBegin(s) ==
    /\ serve[s] = "taken" /\ ~Panicked
    /\ assoc' = [assoc EXCEPT ![s] = [tunnel |-> TRUE, first |-> FALSE, pendingID |-> FALSE]]
    /\ \/ /\ s \in up \/ ~assoc[s].first
          /\ serve' = [serve EXCEPT ![s] = "serving"] /\ UNCHANGED up
       \/ /\ s \notin up /\ assoc[s].first
          /\ serve' = [serve EXCEPT ![s] = "done"] /\ up' = up \ {s}
    /\ UNCHANGED <<cur, next, fresh, pending, told, reader, canceled, left>>

(* A datagram from the desktop.                                            *)
ServeReply(s) ==
    /\ serve[s] = "serving" /\ ~Panicked /\ s \in up /\ ~canceled
    /\ fresh' = fresh \cup {s}
    /\ UNCHANGED <<cur, next, assoc, pending, told, serve, up, reader, canceled, left>>

(* The tunnel ends, or the desktop is silent for udpAssociationIdle, or    *)
(* the socket is closed under a reply.                                     *)
ServeEnd(s) ==
    /\ serve[s] = "serving" /\ ~Panicked
    /\ serve' = [serve EXCEPT ![s] = "done"]
    /\ up' = up \ {s}
    /\ assoc' = [assoc EXCEPT ![s].tunnel = FALSE]
    /\ UNCHANGED <<cur, next, fresh, pending, told, reader, canceled, left>>

(* The desktop closes the tunnel, or the network does.                     *)
TunnelDies(s) ==
    /\ s \in up
    /\ up' = up \ {s}
    /\ UNCHANGED <<cur, next, assoc, fresh, pending, told, serve, reader, canceled, left>>

-----------------------------------------------------------------------------
ReaderStep == Offer \/ Notify \/ WriteTunnel \/ WriteFailed \/ ReaderEnd
Receive == RecvTunnel \/ RecvWaiting \/ RecvNew
Next == \/ ReaderStep \/ Receive \/ Janitor \/ Stop
        \/ \E s \in Streams :
             \/ AcceptTimeout(s) \/ Idle(s) \/ Accept(s) \/ ServeBegin(s)
             \/ ServeReply(s) \/ ServeEnd(s) \/ TunnelDies(s)
Spec == Init /\ [][Next]_vars

(* The Gateway's goroutines and timers run, and a tunnel on which nothing   *)
(* comes any more runs into its read deadline.  Nothing is assumed of the   *)
(* remote and of the desktop.                                               *)
Duty(k) ==
    \/ k = 1 /\ ReaderStep
    \/ k = 2 /\ Janitor
    \/ \E s \in Streams : \/ k = 3 * s /\ AcceptTimeout(s)
                          \/ k = 3 * s + 1 /\ (ServeBegin(s) \/ ServeEnd(s))
                          \/ k = 3 * s + 2 /\ Idle(s)

-----------------------------------------------------------------------------
(* A tunnel is open only while a goroutine that will close it serves it.    *)
TunnelsOwned == \A s \in up : serve[s] \in {"taken", "serving"}

(* One remote has one stream: whatever can still reach the desktop, an      *)
(* offer or an open tunnel, is the association in the map, though           *)
(* associations of the same remote are reclaimed and made anew.             *)
OneStream == \A s \in up \cup pending : s = cur

(* "Reclaim the association without affecting other sessions": reclaiming   *)
(* never brings the Gateway down.                                           *)
OthersUnaffected == ~Panicked

(* Every offer is taken, and every tunnel and association of a listener     *)
(* that is stopped, or of a remote that falls silent, goes away.            *)
Reclaimed ==
    (cur # 0 \/ pending \cup up # {})
        ~> (Panicked \/ (pending \cup up = {} /\ (canceled \/ cur = 0)))
=============================================================================
