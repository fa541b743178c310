----------------------------- MODULE MCDataplane -----------------------------
(***************************************************************************)
(* The parts that carry traffic or set it up, side by side: the control    *)
(* channel, the UDP associations of the Gateway, the mirrored stream, the  *)
(* binding of a Service, the routed TCP and UDP forwards, the file         *)
(* transfers, and the sessions in the privileged helper and on SSH         *)
(* endpoints. They share no state in the models: a behaviour of this       *)
(* module is a behaviour of one of them, named by model, while the others  *)
(* stay in their initial state.                                            *)
(***************************************************************************)
EXTENDS Naturals, FiniteSets, Sequences

(* The constants of the parts.  One desktop works on the Service.          *)
CONSTANTS
    ChannelIds, ChannelReplies, ChannelStarts, ChannelTimeouts,
    MirrorChunks, MirrorReplies, MirrorQueue, MirrorSocket,
    BindingDesktop, BindingSlices, BindingFaults, BindingCrashes,
    FlowRequest, FlowResponse,
    UdpClients, UdpUpstreams,
    AssocStreams, AssocDatagrams,
    CopyTasks, CopyKinds, CopySlots, CopyBlocks, CopyRuns, CopyVersions, CopyRestarts,
    HelperIds, HelperRequests, HelperVersions, HelperCrashes,
    SshPods, SshIps, SshConns, SshMoves, SshSessions

ASSUME ChannelNumbers ==
    ChannelReplies \in Nat /\ ChannelStarts \in Nat /\ ChannelTimeouts \in Nat
ASSUME MirrorNumbers ==
    MirrorChunks \in Nat /\ MirrorReplies \in Nat /\ MirrorQueue \in Nat /\ MirrorSocket \in Nat
ASSUME BindingNames ==
    /\ BindingDesktop # "none" /\ "managed" \notin BindingSlices
    /\ BindingFaults \in Nat /\ BindingCrashes \in Nat
ASSUME FlowNumbers == FlowRequest \in Nat /\ FlowResponse \in Nat
ASSUME UdpNames == UdpUpstreams \in Nat /\ "nobody" \notin UdpClients
ASSUME AssocNumbers == AssocStreams \in Nat /\ AssocDatagrams \in Nat
ASSUME CopyNumbers ==
    /\ IsFiniteSet(CopyTasks) /\ CopySlots \in Nat /\ CopyBlocks \in Nat
    /\ CopyRuns \in Nat \ {0} /\ CopyVersions \in Nat \ {0} /\ CopyRestarts \in Nat
ASSUME HelperNumbers ==
    /\ HelperIds \in Nat /\ HelperRequests \subseteq Nat \ {0}
    /\ HelperVersions \in Nat \ {0} /\ HelperCrashes \in Nat

VARIABLES
    model,
    \* ControlChannel
    toGateway, toDesktop, replyCh, waiting, published, listening, starts, timeouts,
    lost,
    \* UdpAssociation
    cur, next, assoc, fresh, pending, told, serve, up, reader, canceled, left,
    \* Mirror
    client, server, req, resp, mir, queue, aborted, closed, worker, connUp, got, read,
    localUp, shadowed, panicked,
    \* ServiceBinding
    own, svc, slices, managed, cl, current, faults, desktopCrashes, dirty, spent,
    \* Flow
    sent, fin, shut, relay, copying, app, target, fwdr, tracked, shown, broken,
    \* RoutedUdp
    ups, associations, udpServe, udpForwarder, items,
    \* Transfers
    task, cancels, run, part, dest, version, alive, restarts, overlapped, touched,
    edited,
    \* HelperSession
    sess, dns, rpc, desk, nextId, crashes, abandoned, quits,
    \* PodSsh
    phase, routed, cluster, shownPods, inv, user, targets, conns, doomed, moves,
    sessions, raced, late

CC == INSTANCE ControlChannel WITH
    Ids <- ChannelIds, ReplyCap <- ChannelReplies, MaxStarts <- ChannelStarts,
    MaxTimeouts <- ChannelTimeouts, closed <- lost
UA == INSTANCE UdpAssociation WITH
    MaxStreams <- AssocStreams, MaxDatagrams <- AssocDatagrams
MR == INSTANCE Mirror WITH
    MaxChunks <- MirrorChunks, MaxReplies <- MirrorReplies, QueueSize <- MirrorQueue,
    SocketSize <- MirrorSocket
SB == INSTANCE ServiceBinding WITH
    Clients <- {BindingDesktop}, Originals <- BindingSlices,
    MaxFaults <- BindingFaults, MaxCrashes <- BindingCrashes,
    crashes <- desktopCrashes
FL == INSTANCE Flow WITH
    Request <- FlowRequest, Response <- FlowResponse
RU == INSTANCE RoutedUdp WITH
    Clients <- UdpClients, MaxUpstreams <- UdpUpstreams, serve <- udpServe,
    fwdr <- udpForwarder
TR == INSTANCE Transfers WITH
    Tasks <- CopyTasks, Kinds <- CopyKinds, Slots <- CopySlots, Total <- CopyBlocks,
    MaxRuns <- CopyRuns, MaxVersions <- CopyVersions, MaxRestarts <- CopyRestarts
HS == INSTANCE HelperSession WITH
    MaxIds <- HelperIds, Requests <- HelperRequests, MaxVersions <- HelperVersions,
    MaxCrashes <- HelperCrashes
PS == INSTANCE PodSsh WITH
    Pods <- SshPods, Ips <- SshIps, MaxConns <- SshConns, MaxMoves <- SshMoves,
    MaxSessions <- SshSessions, shown <- shownPods

ccVars == <<toGateway, toDesktop, replyCh, waiting, published, listening, starts,
    timeouts, lost>>
uaVars == <<cur, next, assoc, fresh, pending, told, serve, up, reader, canceled, left>>
mrVars == <<client, server, req, resp, mir, queue, aborted, closed, worker, connUp, got,
    read, localUp, shadowed, panicked>>
sbVars == <<own, svc, slices, managed, cl, current, faults, desktopCrashes, dirty,
    spent>>
flVars == <<sent, fin, shut, relay, copying, app, target, fwdr, tracked, shown, broken>>
ruVars == <<ups, associations, udpServe, udpForwarder, items>>
trVars == <<task, cancels, run, part, dest, version, alive, restarts, overlapped,
    touched, edited>>
hsVars == <<sess, dns, rpc, desk, nextId, crashes, abandoned, quits>>
psVars == <<phase, routed, cluster, shownPods, inv, user, targets, conns, doomed, moves,
    sessions, raced, late>>
vars == <<model, ccVars, uaVars, mrVars, sbVars, flVars, ruVars, trVars, hsVars,
    psVars>>

(* A part that is not the one that runs rests in one of its initial states. *)
Init ==
    /\ model \in {"channel", "udp", "mirror", "binding", "flow", "routedudp",
        "transfers", "helper", "podssh"}
    /\ CC!Init
    /\ UA!Init
    /\ MR!Init /\ (model # "mirror" => shadowed)
    /\ SB!Init /\ (model # "binding" => own = "app")
    /\ FL!Init
    /\ RU!Init
    /\ TR!Init /\ (model # "transfers" => \A t \in DOMAIN dest : dest[t] = TR!Absent)
    /\ HS!Init
    /\ PS!Init /\ (model # "podssh" => cluster = shownPods)

ControlChannelStep ==
    /\ model = "channel" /\ CC!Next
    /\ UNCHANGED <<model, uaVars, mrVars, sbVars, flVars, ruVars, trVars, hsVars,
                     psVars>>
UdpAssociationStep ==
    /\ model = "udp" /\ UA!Next
    /\ UNCHANGED <<model, ccVars, mrVars, sbVars, flVars, ruVars, trVars, hsVars,
                     psVars>>
MirrorStep ==
    /\ model = "mirror" /\ MR!Next
    /\ UNCHANGED <<model, ccVars, uaVars, sbVars, flVars, ruVars, trVars, hsVars,
                     psVars>>
ServiceBindingStep ==
    /\ model = "binding" /\ SB!Next
    /\ UNCHANGED <<model, ccVars, uaVars, mrVars, flVars, ruVars, trVars, hsVars,
                     psVars>>
FlowStep ==
    /\ model = "flow" /\ FL!Next
    /\ UNCHANGED <<model, ccVars, uaVars, mrVars, sbVars, ruVars, trVars, hsVars,
                     psVars>>
RoutedUdpStep ==
    /\ model = "routedudp" /\ RU!Next
    /\ UNCHANGED <<model, ccVars, uaVars, mrVars, sbVars, flVars, trVars, hsVars,
                     psVars>>
TransfersStep ==
    /\ model = "transfers" /\ TR!Next
    /\ UNCHANGED <<model, ccVars, uaVars, mrVars, sbVars, flVars, ruVars, hsVars,
                     psVars>>
HelperSessionStep ==
    /\ model = "helper" /\ HS!Next
    /\ UNCHANGED <<model, ccVars, uaVars, mrVars, sbVars, flVars, ruVars, trVars,
                     psVars>>
PodSshStep ==
    /\ model = "podssh" /\ PS!Next
    /\ UNCHANGED <<model, ccVars, uaVars, mrVars, sbVars, flVars, ruVars, trVars,
                     hsVars>>
Next == ControlChannelStep \/ UdpAssociationStep \/ MirrorStep \/ ServiceBindingStep \/
        FlowStep \/ RoutedUdpStep \/ TransfersStep \/ HelperSessionStep \/ PodSshStep

Spec == Init /\ [][Next]_vars

-----------------------------------------------------------------------------
(* controlClient: late replies may be taken for the wrong request, but an  *)
(* id with a runtime has a listener at the Gateway, of this start or of an *)
(* earlier one: the requests themselves keep their order.                  *)
IdListens == model = "channel" => CC!TypeOK /\ CC!IdListens

(* acceptUDP and serveUDP: every open tunnel has a goroutine that closes   *)
(* it, and what can still reach the desktop for a remote is the one        *)
(* association in the map, though associations are reclaimed and remade.   *)
OneStream == model = "udp" => UA!TypeOK /\ UA!TunnelsOwned /\ UA!OneStream

(* mirrorTCP: a client that keeps its connection open gets the whole       *)
(* answer of Primary, a late payload never meets the closed queue of the   *)
(* shadow, and the copy keeps up until it is given up.                     *)
StreamIntact ==
    model = "mirror" => MR!TypeOK /\ MR!NoSendOnClosed /\ MR!ResponseComplete /\ MR!ShadowKeepsUp

(* The mirrored stream implements Tee: the local process is given a prefix *)
(* of the request, in order and without a gap, and nothing once the copy   *)
(* has been given up.                                                      *)
ImplementsTee == MR!ImplementsTee

(* applyServiceIntercept and restoreServiceIntercept: a started Exchange   *)
(* has redirected the Service, its selector is never lost, and a Service   *)
(* nobody works on any more is as it was, in spite of crashes, failed      *)
(* starts and retried stops; except for the selector when an intercept     *)
(* that was started on a Service left behind has to repeat its stop.       *)
ServiceKept ==
    model = "binding" => SB!TypeOK /\ SB!SelectorKept /\ SB!Redirected /\ SB!RestoredAfterStop

(* routedForwarder, socksbridge and Gateway: an application that keeps its *)
(* side open until the target closes reads the whole answer through all    *)
(* three relays, and nothing of the connection outlives Close.             *)
(* routedUDPForwarder: an open upstream is in the map until Close takes it,*)
(* or in the hands of somebody who closes it, and none outlives Close.     *)
RoutedIntact ==
    /\ model = "flow" => FL!TypeOK /\ FL!AnswerComplete /\ FL!NothingAfterClose
    /\ model = "routedudp" => RU!TypeOK /\ RU!UpstreamsOwned

(* filemanager.Manager: what a transfer puts at its destination is the     *)
(* whole source as it was when the task was made, however it was paused,   *)
(* failed, crashed and resumed; unless the source changed under a copy or  *)
(* two launches overlapped.  A task shown as completed has its file there. *)
WholeFile == model = "transfers" => TR!TypeOK /\ TR!WholeFile /\ TR!CompletedHasFile

(* helper.Server and runtime.Process: there is never a second core, the    *)
(* resolver is changed only for a session the helper knows, and a desktop  *)
(* that was told its core is ready has it, until the core ends by itself   *)
(* or a request it gave up on is still being handled.                      *)
NothingLeftBehind == model = "helper" => HS!TypeOK /\ HS!NothingLeftBehind /\ HS!ReadyIsServed

(* README.md, "Disconnecting removes the runtime-only SSH endpoints": so   *)
(* Server.Reset does, with their connections, unless a call had passed its *)
(* check of the session before.                                            *)
EndpointsRemoved == model = "podssh" => PS!TypeOK /\ PS!EndpointsRemoved
=============================================================================
