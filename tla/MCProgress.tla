----------------------------- MODULE MCProgress -----------------------------
(***************************************************************************)
(* What has to happen eventually, in the parts that owe something: a       *)
(* behaviour of this module is a behaviour of one of them, named by model, *)
(* under its own fairness, while the others stay in their initial state.   *)
(* The instances are smaller than those of the safety runs.                *)
(***************************************************************************)
EXTENDS Naturals, FiniteSets, Sequences

VARIABLES
    model,
    \* ControlChannel
    toGateway, toDesktop, replyCh, waiting, published, listening, starts, timeouts,
    lost,
    \* UdpAssociation
    cur, next, assoc, fresh, pending, told, serve, up, reader, canceled, left,
    \* Mirror
    client, server, req, resp, mir, queue, aborted, closed, worker, connUp, got, read,
    localUp, shadowed, panicked,
    \* Flow
    sent, fin, shut, relay, copying, app, target, fwdr, tracked, shownFlow, broken,
    \* RoutedUdp
    ups, associations, udpServe, udpForwarder, items,
    \* Transfers
    task, cancels, launch, part, dest, version, alive, restarts, overlapped, touched,
    edited,
    \* HelperSession
    sess, dns, rpc, desk, nextId, crashes, abandoned, quits,
    \* PodSsh
    phase, routed, cluster, shown, inv, user, targets, conns, doomed, moves, sessions,
    raced, late,
    \* SshSession
    asked, sshServe, sizes, done, tty, started, run, shell, ctx, channel

CC == INSTANCE ControlChannel WITH
    Ids <- {"i1", "i2"}, ReplyCap <- 1, MaxStarts <- 3, MaxTimeouts <- 3,
    closed <- lost
UA == INSTANCE UdpAssociation WITH
    MaxStreams <- 2, MaxDatagrams <- 4
MR == INSTANCE Mirror WITH
    MaxChunks <- 3, MaxReplies <- 0, QueueSize <- 1, SocketSize <- 0
FL == INSTANCE Flow WITH
    Request <- 1, Response <- 1, shown <- shownFlow
RU == INSTANCE RoutedUdp WITH
    Clients <- {"c1"}, MaxUpstreams <- 2, serve <- udpServe, fwdr <- udpForwarder
TR == INSTANCE Transfers WITH
    Tasks <- {"a"}, Kinds <- {"upload"}, Slots <- 1, Total <- 1, MaxRuns <- 2,
    MaxVersions <- 1, MaxRestarts <- 0, run <- launch
HS == INSTANCE HelperSession WITH
    MaxIds <- 1, Requests <- {1, 2}, MaxVersions <- 2, MaxCrashes <- 1
PS == INSTANCE PodSsh WITH
    Pods <- {"p"}, Ips <- {1}, MaxConns <- 1, MaxMoves <- 1, MaxSessions <- 1
SS == INSTANCE SshSession WITH
    MaxSizes <- 3, serve <- sshServe

ccVars == <<toGateway, toDesktop, replyCh, waiting, published, listening, starts,
    timeouts, lost>>
uaVars == <<cur, next, assoc, fresh, pending, told, serve, up, reader, canceled, left>>
mrVars == <<client, server, req, resp, mir, queue, aborted, closed, worker, connUp, got,
    read, localUp, shadowed, panicked>>
flVars == <<sent, fin, shut, relay, copying, app, target, fwdr, tracked, shownFlow,
    broken>>
ruVars == <<ups, associations, udpServe, udpForwarder, items>>
trVars == <<task, cancels, launch, part, dest, version, alive, restarts, overlapped,
    touched, edited>>
hsVars == <<sess, dns, rpc, desk, nextId, crashes, abandoned, quits>>
psVars == <<phase, routed, cluster, shown, inv, user, targets, conns, doomed, moves,
    sessions, raced, late>>
ssVars == <<asked, sshServe, sizes, done, tty, started, run, shell, ctx, channel>>
vars == <<model, ccVars, uaVars, mrVars, flVars, ruVars, trVars, hsVars, psVars,
    ssVars>>

(* A part that is not the one that runs rests in one of its initial states. *)
Init ==
    /\ model \in {"channel", "udp", "mirror", "flow", "routedudp", "transfers",
        "helper", "podssh", "sshsession"}
    /\ CC!Init
    /\ UA!Init
    /\ MR!Init /\ (model # "mirror" => shadowed)
    /\ FL!Init
    /\ RU!Init
    /\ TR!Init /\ (model # "transfers" => \A t \in DOMAIN dest : dest[t] = TR!Absent)
    /\ HS!Init
    /\ PS!Init /\ (model # "podssh" => cluster = shown)
    /\ SS!Init

ControlChannelStep ==
    /\ model = "channel" /\ CC!Next
    /\ UNCHANGED <<model, uaVars, mrVars, flVars, ruVars, trVars, hsVars, psVars,
                     ssVars>>
UdpAssociationStep ==
    /\ model = "udp" /\ UA!Next
    /\ UNCHANGED <<model, ccVars, mrVars, flVars, ruVars, trVars, hsVars, psVars,
                     ssVars>>
MirrorStep ==
    /\ model = "mirror" /\ MR!Next
    /\ UNCHANGED <<model, ccVars, uaVars, flVars, ruVars, trVars, hsVars, psVars,
                     ssVars>>
FlowStep ==
    /\ model = "flow" /\ FL!Next
    /\ UNCHANGED <<model, ccVars, uaVars, mrVars, ruVars, trVars, hsVars, psVars,
                     ssVars>>
RoutedUdpStep ==
    /\ model = "routedudp" /\ RU!Next
    /\ UNCHANGED <<model, ccVars, uaVars, mrVars, flVars, trVars, hsVars, psVars,
                     ssVars>>
TransfersStep ==
    /\ model = "transfers" /\ TR!Next
    /\ UNCHANGED <<model, ccVars, uaVars, mrVars, flVars, ruVars, hsVars, psVars,
                     ssVars>>
HelperSessionStep ==
    /\ model = "helper" /\ HS!Next
    /\ UNCHANGED <<model, ccVars, uaVars, mrVars, flVars, ruVars, trVars, psVars,
                     ssVars>>
PodSshStep ==
    /\ model = "podssh" /\ PS!Next
    /\ UNCHANGED <<model, ccVars, uaVars, mrVars, flVars, ruVars, trVars, hsVars,
                     ssVars>>
SshSessionStep ==
    /\ model = "sshsession" /\ SS!Next
    /\ UNCHANGED <<model, ccVars, uaVars, mrVars, flVars, ruVars, trVars, hsVars,
                     psVars>>
Next == ControlChannelStep \/ UdpAssociationStep \/ MirrorStep \/ FlowStep \/
        RoutedUdpStep \/ TransfersStep \/ HelperSessionStep \/ PodSshStep \/
        SshSessionStep

(* The variables of the part that runs, and what its k-th goroutine owes.  *)
active == CASE model = "channel" -> ccVars
            [] model = "udp" -> uaVars
            [] model = "mirror" -> mrVars
            [] model = "flow" -> flVars
            [] model = "routedudp" -> ruVars
            [] model = "transfers" -> trVars
            [] model = "helper" -> hsVars
            [] model = "podssh" -> psVars
            [] model = "sshsession" -> ssVars
Duty(k) ==
    /\ model' = model
    /\ \/ model = "channel" /\ CC!Duty(k)
       \/ model = "udp" /\ UA!Duty(k)
       \/ model = "mirror" /\ MR!Duty(k)
       \/ model = "flow" /\ FL!Duty(k)
       \/ model = "routedudp" /\ RU!Duty(k)
       \/ model = "transfers" /\ TR!Duty(k)
       \/ model = "helper" /\ HS!Duty(k)
       \/ model = "podssh" /\ PS!Duty(k)
       \/ model = "sshsession" /\ SS!Duty(k)

(* Every goroutine goes on with what it has begun; a send that waits for a *)
(* slot gets its turn, channels being first come, first served.            *)
Spec == /\ Init /\ [][Next]_vars
        /\ \A k \in 0..10 : WF_active(Duty(k))
        /\ \A k \in 1..2 : SF_trVars(model = "transfers" /\ TR!Blocked(k))

-----------------------------------------------------------------------------
(* controlClient.roundTrip ends by its reply, without the help of its      *)
(* timer, even while late replies of earlier requests fill the buffer.     *)
RoundTripEnds == CC!RoundTripEnds

(* acceptUDP: every offer is taken, and every tunnel and association of a  *)
(* listener that is stopped, or of a remote that falls silent, goes away.  *)
Reclaimed == UA!Reclaimed

(* mirrorTCP: each payload is forwarded to Primary though the local        *)
(* process may never read, and the teardown comes to an end with the       *)
(* shadow's goroutine, though its write may be blocked.                    *)
StreamMoves == MR!StreamMoves

(* routedForwarder.Close returns, and every hop behind the connection goes *)
(* away with it, whatever the connection was doing; the same holds of      *)
(* routedUDPForwarder.Close, and no UDP client is stuck with an upstream   *)
(* that is closed.                                                         *)
CloseReaches == FL!CloseReaches /\ RU!UpstreamsEnd

(* filemanager: a queued task does not wait for ever; Resume gives it a    *)
(* launch of its own, and slots come back on every path of a launch.       *)
QueueMoves == TR!QueueMoves

(* helper.Server: closing a session gives the resolver back, even when     *)
(* sing-box ignores the signal and the desktop is gone before the helper   *)
(* is through.                                                             *)
CloseRestores == HS!CloseRestores

(* podssh.Server: a connection whose endpoint was removed ends, and so     *)
(* does its command in the Pod.                                            *)
RemovedEnds == PS!RemovedEnds

(* terminalSizeQueue: pushing never waits, and yet a terminal that stays   *)
(* up gets the last size its client sent; and when the client or the       *)
(* command is gone, both goroutines of the session end.                    *)
SessionSettles == [](SS!TypeOK) /\ SS!SessionSettles
=============================================================================
