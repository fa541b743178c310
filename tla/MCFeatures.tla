----------------------------- MODULE MCFeatures -----------------------------
(***************************************************************************)
(* The parts of the desktop beside the data plane, side by side: forwards, *)
(* the MCP server, what is kept in files, the messages of the tunnel       *)
(* protocol, and previews. They share no state in the models: a behaviour  *)
(* of this module is a behaviour of one of them, named by model, while the *)
(* others stay in their initial state.                                     *)
(***************************************************************************)
EXTENDS Naturals, FiniteSets, Sequences

(* The constants of the parts.                                             *)
CONSTANTS
    ForwardContexts, ForwardTargets, ForwardNetworks, ForwardUsers, ForwardCalls,
    ForwardStarts, ForwardSessions, ForwardMortal, ForwardRestarts,
    McpPorts, McpTokens, McpServers, McpCalls, McpErrors,
    SftpHandles, SftpBlocks, SftpErrors,
    KeyLaunches, KeyErrors,
    StoreContexts, StoreFiles, StoreFaults,
    TunnelMessages,
    InstallFaults,
    PreviewDesktops, PreviewFaults

(* A value that stands for nobody, or for a file that cannot be read, is   *)
(* none of the names.                                                      *)
ASSUME NamesAreNames ==
    /\ "torn" \notin StoreContexts
    /\ PreviewDesktops \cap {"none", "other"} = {}

(* Some contexts have targets; the goroutines of the bindings are not the  *)
(* ones the desktop starts itself.                                         *)
ASSUME ForwardNames ==
    /\ ForwardTargets \subseteq ForwardContexts
    /\ ForwardUsers \cap {"startup", "session", "watch", "quit"} = {}
    /\ ForwardStarts \in Nat /\ ForwardSessions \in Nat /\ ForwardRestarts \in Nat

(* The blocks of a file are numbered.                                      *)
ASSUME SftpNumbers == SftpBlocks \subseteq Nat

(* The default port is the lowest one; tokens and listeners are counted.   *)
ASSUME McpNumbers ==
    /\ McpPorts \subseteq Nat /\ \E p \in McpPorts : \A q \in McpPorts : p <= q
    /\ McpTokens \in Nat /\ McpServers \in Nat

(* Messages are counted.                                                   *)
ASSUME TunnelNumber == TunnelMessages \in Nat

VARIABLES
    model,
    \* Forwards
    fwd, bound, dialer, intents, alive, call, sn, nextId, quitting, restarts, wished,
    disturbed, late,
    \* Mcp
    cfg, mem, stored, unsaved, lsn, up, failed, op, client, tokens, servers, calls,
    mcpFaults, leaked,
    \* Sftp
    remote, hs, temps, sftpFaults, live,
    \* SshKeys
    keyFile, host, proc, hold, keys, identity, next, launches, keyFaults, ours,
    \* Store
    state, stateFile, storePc, temp, storeFaults, saved,
    \* Tunnel
    kind, sent, wire, cut, got, reader,
    \* Install
    source, file, backup, service, unit, pc, existed, errs, outcome, began, faults,
    same,
    \* Preview
    named, endpoints, pv, previewFaults, gone, leftBehind

FW == INSTANCE Forwards WITH
    Contexts <- ForwardContexts, Specs <- ForwardTargets \X ForwardNetworks,
    Users <- ForwardUsers, MaxCalls <- ForwardCalls, MaxStarts <- ForwardStarts,
    MaxSessions <- ForwardSessions, Mortal <- ForwardTargets \X ForwardMortal,
    MaxRestarts <- ForwardRestarts
MP == INSTANCE Mcp WITH
    Ports <- McpPorts, MaxTokens <- McpTokens, MaxServers <- McpServers,
    MaxCalls <- McpCalls, MaxFaults <- McpErrors, faults <- mcpFaults
SF == INSTANCE Sftp WITH
    Handles <- SftpHandles, Blocks <- SftpBlocks, MaxFaults <- SftpErrors,
    faults <- sftpFaults
SK == INSTANCE SshKeys WITH
    MaxLaunches <- KeyLaunches, MaxFaults <- KeyErrors, file <- keyFile,
    faults <- keyFaults
ST == INSTANCE Store WITH
    Contexts <- StoreContexts, Files <- StoreFiles, MaxFaults <- StoreFaults,
    file <- stateFile, pc <- storePc, faults <- storeFaults
TU == INSTANCE Tunnel WITH
    MaxMessages <- TunnelMessages
IS == INSTANCE Install WITH
    MaxFaults <- InstallFaults
PV == INSTANCE Preview WITH
    Desktops <- PreviewDesktops, MaxFaults <- PreviewFaults, faults <- previewFaults,
    left <- leftBehind

fwVars == <<fwd, bound, dialer, intents, alive, call, sn, nextId, quitting, restarts,
    wished, disturbed, late>>
mpVars == <<cfg, mem, stored, unsaved, lsn, up, failed, op, client, tokens, servers,
    calls, mcpFaults, leaked>>
sfVars == <<remote, hs, temps, sftpFaults, live>>
skVars == <<keyFile, host, proc, hold, keys, identity, next, launches, keyFaults, ours>>
stVars == <<state, stateFile, storePc, temp, storeFaults, saved>>
tuVars == <<kind, sent, wire, cut, got, reader>>
isVars == <<source, file, backup, service, unit, pc, existed, errs, outcome, began,
    faults, same>>
pvVars == <<named, endpoints, pv, previewFaults, gone, leftBehind>>
vars == <<model, fwVars, mpVars, sfVars, skVars, stVars, tuVars, isVars, pvVars>>

(* A part that is not the one that runs rests in one of its initial states. *)
Init ==
    /\ model \in {"forwards", "mcp", "sftp", "keys", "store", "tunnel", "install",
        "preview"}
    /\ FW!Init
    /\ MP!Init
    /\ SF!Init /\ (model # "sftp" => remote = SF!Missing)
    /\ SK!Init /\ (model # "keys" => host = SK!Absent /\ \A n \in SK!User : keyFile[n] = SK!Absent)
    /\ ST!Init
    /\ TU!Init /\ (model # "tunnel" => kind = "open")
    /\ IS!Init /\ (model # "install" => source = 0 /\ file = IS!Empty /\ same)
    /\ PV!Init /\ (model # "preview" => named = PV!None)

ForwardsStep ==
    /\ model = "forwards" /\ FW!Next
    /\ UNCHANGED <<model, mpVars, sfVars, skVars, stVars, tuVars, isVars, pvVars>>
McpStep ==
    /\ model = "mcp" /\ MP!Next
    /\ UNCHANGED <<model, fwVars, sfVars, skVars, stVars, tuVars, isVars, pvVars>>
SftpStep ==
    /\ model = "sftp" /\ SF!Next
    /\ UNCHANGED <<model, fwVars, mpVars, skVars, stVars, tuVars, isVars, pvVars>>
SshKeysStep ==
    /\ model = "keys" /\ SK!Next
    /\ UNCHANGED <<model, fwVars, mpVars, sfVars, stVars, tuVars, isVars, pvVars>>
StoreStep ==
    /\ model = "store" /\ ST!Next
    /\ UNCHANGED <<model, fwVars, mpVars, sfVars, skVars, tuVars, isVars, pvVars>>
TunnelStep ==
    /\ model = "tunnel" /\ TU!Next
    /\ UNCHANGED <<model, fwVars, mpVars, sfVars, skVars, stVars, isVars, pvVars>>
InstallStep ==
    /\ model = "install" /\ IS!Next
    /\ UNCHANGED <<model, fwVars, mpVars, sfVars, skVars, stVars, tuVars, pvVars>>
PreviewStep ==
    /\ model = "preview" /\ PV!Next
    /\ UNCHANGED <<model, fwVars, mpVars, sfVars, skVars, stVars, tuVars, isVars>>
Next == ForwardsStep \/ McpStep \/ SftpStep \/ SshKeysStep \/ StoreStep \/ TunnelStep \/
        InstallStep \/ PreviewStep

Spec == Init /\ [][Next]_vars

-----------------------------------------------------------------------------
(* portfwd.Manager: a forward in the list holds its local port and nobody  *)
(* else holds one; no forward outlives the session whose dialer it uses,   *)
(* except one started while that session was being torn down; and what was *)
(* active when the application was quit is what the next launch restores,  *)
(* unless another call was under way.                                      *)
ForwardsKept ==
    model = "forwards" => FW!TypeOK /\ FW!PortsOwned /\ FW!RoutedIsCurrent /\ FW!ShutdownKeepsIntents

(* mcp.Controller and Server: between calls only the current listener is   *)
(* up, with the bearer token of the settings, and the settings are stored, *)
(* unless saving them failed or a late failure report hid a listener.      *)
SettingsHold == model = "mcp" => MP!TypeOK /\ MP!SettingsHold

(* sftpHandler: the upload of a closed handle puts into the Pod exactly    *)
(* the blocks the client wrote over those of the file it opened, and no    *)
(* temporary file is left behind.                                          *)
UploadFaithful == [](SF!TypeOK /\ SF!TempsOwned) /\ SF!UploadFaithful

(* loadOrCreateUserSSHKeys: no launch changes a key file that the user     *)
(* has, and the host key that clients have pinned stays the same.          *)
KeysKept == [](SK!TypeOK) /\ SK!KeysKept

(* store.Store: a death at any moment of a save leaves a readable state;   *)
(* at most one context reconnects at launch; and after a save that worked  *)
(* the file and the memory agree.                                          *)
StoreSound == model = "store" => ST!TypeOK /\ ST!StoreSound

(* tunnel: the reader gets the messages the writer accepted, in order and  *)
(* with the same fields; it fails only on one beyond the protocol's limit. *)
TunnelFaithful == model = "tunnel" => TU!TypeOK /\ TU!TunnelFaithful

(* EnsureInstall: an installation that succeeds has replaced every file    *)
(* and runs; one that was undone left the files and the service of before. *)
AllOrNothing == model = "install" => IS!TypeOK /\ IS!AllOrNothing

(* createPreviewService and deletePreviewService: a preview that is shown  *)
(* as running has its Service and its endpoints, whatever another desktop  *)
(* tries under that name; a Service left behind is one whose desktop died  *)
(* or failed to delete it.                                                 *)
PreviewKept == model = "preview" => PV!TypeOK /\ PV!PreviewKept
=============================================================================
