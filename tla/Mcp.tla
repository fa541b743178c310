---------------------------------- MODULE Mcp ----------------------------------
(***************************************************************************)
(* The embedded MCP server: the Controller (src/internal/mcp/controller.go)*)
(* changes the settings, saves them and brings the HTTP listener of Server *)
(* (src/internal/mcp/server.go) in line with them, lock by lock.  The user *)
(* makes one call at a time; the goroutine of a listener may fail at any   *)
(* moment and takes its lock when it can.                                  *)
(***************************************************************************)
EXTENDS Naturals, FiniteSets

CONSTANTS
    Ports,       \* ports of 127.0.0.1
    MaxTokens,   \* bound: bearer tokens ever generated
    MaxServers,  \* bound: listeners ever opened
    MaxCalls,    \* bound: calls of the user
    MaxFaults    \* bound: saves and accept loops that fail, restarts

NoToken == 0
NoServer == [n |-> 0, port |-> 0, token |-> NoToken]

VARIABLES
    cfg,      \* Server: enabled, port, tokenEnabled, token
    mem,      \* the settings in the store
    stored,   \* the settings in the state file
    unsaved,  \* history: the last save of the settings failed
    lsn,      \* Server.listener and Server.httpServer
    up,       \* the listeners that accept connections
    failed,   \* listeners whose Serve has returned an error, not yet reported
    op,       \* the call under way
    client,   \* the entry in the configuration of an MCP client
    tokens, servers, calls, faults,
    leaked    \* history: a late report hid a listener that is up

vars == <<cfg, mem, stored, unsaved, lsn, up, failed, op, client, tokens, servers, calls, faults, leaked>>

Configs == [enabled : BOOLEAN, port : Ports, tokenEnabled : BOOLEAN, token : 0..MaxTokens]
Servers == [n : 0..MaxServers, port : Ports \cup {0}, token : 0..MaxTokens]
Kinds == {"enabled", "port", "tokenEnabled", "token", "install", "boot"}
Idle(c) == [kind |-> "none", pc |-> "idle", cfg |-> c, enabled |-> FALSE]

TypeOK ==
    /\ {cfg, mem, stored} \subseteq Configs /\ lsn \in Servers /\ up \cup failed \subseteq Servers
    /\ op.kind \in Kinds \cup {"none"} /\ op.cfg \in Configs
    /\ client \in [port : Ports \cup {0}, token : 0..MaxTokens]

Default == [enabled |-> FALSE, port |-> CHOOSE p \in Ports : \A q \in Ports : p <= q,
            tokenEnabled |-> FALSE, token |-> NoToken]

Init ==
    /\ cfg = Default /\ mem = Default /\ stored = Default /\ unsaved = FALSE
    /\ lsn = NoServer /\ up = {} /\ failed = {}
    /\ op = Idle(Default) /\ client = [port |-> 0, token |-> NoToken]
    /\ tokens = 0 /\ servers = 0 /\ calls = 0 /\ faults = 0 /\ leaked = FALSE

-----------------------------------------------------------------------------
Done == op' = Idle(Default)
To(pc) == op' = [op EXCEPT !.pc = pc]

(* ensureToken: authentication without a token gets a new one.             *)
NeedsToken(c) == c.tokenEnabled /\ c.token = NoToken
EnsureToken(c) == IF NeedsToken(c) THEN [c EXCEPT !.token = tokens + 1] ELSE c

(* A call works on a copy of the settings it reads once, with its change.  *)
Begin(kind, c) ==
    /\ op' = [Idle(c) EXCEPT !.kind = kind, !.pc = "persist"]
    /\ UNCHANGED <<cfg, mem, stored, unsaved, lsn, up, failed, client, servers, faults, leaked>>

Called == op.pc = "idle" /\ calls < MaxCalls /\ calls' = calls + 1
Ensured(kind, c) ==
    /\ NeedsToken(c) => tokens < MaxTokens
    /\ tokens' = IF NeedsToken(c) THEN tokens + 1 ELSE tokens
    /\ Begin(kind, EnsureToken(c))

SetEnabled(b) == Called /\ Ensured("enabled", [cfg EXCEPT !.enabled = b])
SetPort(p) == Called /\ Begin("port", [cfg EXCEPT !.port = p]) /\ UNCHANGED tokens
SetTokenEnabled(b) == Called /\ Ensured("tokenEnabled", [cfg EXCEPT !.tokenEnabled = b])
RegenerateToken ==
    /\ Called /\ cfg.tokenEnabled /\ tokens < MaxTokens
    /\ tokens' = tokens + 1 /\ Begin("token", [cfg EXCEPT !.token = tokens + 1])

(* InstallClient enables the server first where it has to, as SetEnabled.  *)
InstallClient ==
    /\ Called
    /\ IF cfg.enabled /\ lsn # NoServer
       THEN /\ op' = [Idle(Default) EXCEPT !.kind = "install", !.pc = "write"]
            /\ UNCHANGED <<cfg, mem, stored, unsaved, lsn, up, failed, client, tokens, servers, faults, leaked>>
       ELSE Ensured("install", [cfg EXCEPT !.enabled = TRUE])

(* Store.SetMCP has the settings in memory even when the file cannot be    *)
(* replaced and the call fails.  Then the server gets them, all of them,   *)
(* before the setter of the server runs.                                   *)
Persist ==
    /\ op.pc = "persist" /\ mem' = op.cfg
    /\ \/ stored' = op.cfg /\ unsaved' = FALSE /\ To("configure") /\ UNCHANGED faults
       \/ /\ faults < MaxFaults /\ faults' = faults + 1
          /\ unsaved' = TRUE /\ Done /\ UNCHANGED stored
    /\ UNCHANGED <<cfg, lsn, up, failed, client, tokens, servers, calls, leaked>>

(* Another part of the application saves the store.                        *)
OtherSave ==
    /\ mem # stored /\ stored' = mem
    /\ UNCHANGED <<cfg, mem, unsaved, lsn, up, failed, op, client, tokens, servers, calls,
                   faults, leaked>>

Configure ==
    /\ op.pc = "configure" /\ cfg' = op.cfg
    /\ To(IF op.kind \in {"enabled", "install", "boot"} THEN "apply" ELSE "set")
    /\ UNCHANGED <<mem, stored, unsaved, lsn, up, failed, client, tokens, servers, calls, faults, leaked>>

-----------------------------------------------------------------------------
(* Server.SetEnabled and Apply.                                            *)
Apply ==
    /\ op.pc = "apply"
    /\ To(IF cfg.enabled THEN "start" ELSE "stop")
    /\ UNCHANGED <<cfg, mem, stored, unsaved, lsn, up, failed, client, tokens, servers, calls, faults, leaked>>

(* Server.SetPort returns when the port is the one it has.                 *)
SetServerPort ==
    /\ op.kind = "port" /\ op.pc = "set"
    /\ IF cfg.port = op.cfg.port THEN Done /\ UNCHANGED cfg
       ELSE /\ cfg' = [cfg EXCEPT !.port = op.cfg.port]
            /\ op' = [op EXCEPT !.enabled = cfg.enabled,
                                !.pc = IF lsn # NoServer \/ cfg.enabled THEN "restop" ELSE "idle"]
    /\ UNCHANGED <<mem, stored, unsaved, lsn, up, failed, client, tokens, servers, calls, faults, leaked>>

SetServerTokenKeeps ==  \* mutant: a listener that is up is not restarted
    /\ op.kind \in {"tokenEnabled", "token"} /\ op.pc = "set"
    /\ Done
    /\ UNCHANGED <<cfg, mem, stored, unsaved, lsn, up, failed, client, tokens, servers, calls, faults, leaked>>

(* Server.SetTokenEnabled and SetToken restart a listener that is up: its  *)
(* verifier has the token of the moment it was made.                       *)
SetServerToken ==
    /\ op.kind \in {"tokenEnabled", "token"} /\ op.pc = "set"
    /\ cfg' = IF op.kind = "token" THEN [cfg EXCEPT !.token = op.cfg.token]
              ELSE [cfg EXCEPT !.tokenEnabled = op.cfg.tokenEnabled]
    /\ IF lsn # NoServer THEN op' = [op EXCEPT !.enabled = cfg.enabled, !.pc = "restop"] ELSE Done
    /\ UNCHANGED <<mem, stored, unsaved, lsn, up, failed, client, tokens, servers, calls, faults, leaked>>

(* stopLocked                                                              *)
Closed == lsn' = NoServer /\ up' = up \ {lsn} /\ failed' = failed

Stop ==
    /\ op.pc \in {"stop", "restop"}
    /\ cfg' = [cfg EXCEPT !.enabled = FALSE] /\ Closed
    /\ IF op.pc = "stop" THEN Done ELSE To("restore")
    /\ UNCHANGED <<mem, stored, unsaved, client, tokens, servers, calls, faults, leaked>>

Restore ==
    /\ op.pc = "restore"
    /\ cfg' = [cfg EXCEPT !.enabled = op.enabled]
    /\ IF op.enabled THEN To("start") ELSE Done
    /\ UNCHANGED <<mem, stored, unsaved, lsn, up, failed, client, tokens, servers, calls, faults, leaked>>

After == IF op.kind = "install" THEN To("write") ELSE Done
Verifier(c) == IF c.tokenEnabled THEN c.token ELSE NoToken
Taken == \E s \in up \ {lsn} : s.port = cfg.port

(* Start leaves a listener on the wanted port alone; else it closes it and *)
(* opens a new one, which fails when the port is taken.  EnsureToken has   *)
(* seen to the token.                                                      *)
Start ==
    /\ op.pc = "start"
    /\ \/ /\ lsn # NoServer /\ lsn.port = cfg.port
          /\ After /\ UNCHANGED <<cfg, lsn, up, failed, servers, faults>>
       \/ /\ lsn.port # cfg.port /\ ~Taken
          /\ servers < MaxServers
          /\ LET s == [n |-> servers + 1, port |-> cfg.port, token |-> Verifier(cfg)]
             IN lsn' = s /\ up' = (up \ {lsn}) \cup {s}
          /\ cfg' = [cfg EXCEPT !.enabled = TRUE] /\ servers' = servers + 1
          /\ After /\ UNCHANGED <<failed, faults>>
       \/ /\ lsn.port # cfg.port
          /\ IF Taken THEN UNCHANGED faults
             ELSE faults < MaxFaults /\ faults' = faults + 1
          /\ Closed /\ Done /\ UNCHANGED <<cfg, servers>>
    /\ UNCHANGED <<mem, stored, unsaved, client, tokens, calls, leaked>>

(* The entry of the client has the address and the token Status shows.     *)
WriteClient ==
    /\ op.pc = "write"
    /\ client' = [port |-> cfg.port, token |-> Verifier(cfg)] /\ Done
    /\ UNCHANGED <<cfg, mem, stored, unsaved, lsn, up, failed, tokens, servers, calls, faults, leaked>>

-----------------------------------------------------------------------------
(* Serve returns an error; its goroutine clears whatever listener the      *)
(* server has by then.                                                     *)
ServeFails(s) ==
    /\ s \in up /\ faults < MaxFaults /\ faults' = faults + 1
    /\ up' = up \ {s} /\ failed' = failed \cup {s}
    /\ UNCHANGED <<cfg, mem, stored, unsaved, lsn, op, client, tokens, servers, calls, leaked>>

ReportFailure(s) ==
    /\ s \in failed /\ failed' = failed \ {s}
    /\ lsn' = NoServer /\ leaked' = (leaked \/ lsn \in up)
    /\ UNCHANGED <<cfg, mem, stored, unsaved, up, op, client, tokens, servers, calls, faults>>

(* The application ends, perhaps in the middle of a call, and is started   *)
(* again: StartFromStore.                                                  *)
Restart ==
    /\ faults < MaxFaults /\ faults' = faults + 1
    /\ cfg' = stored /\ mem' = stored /\ unsaved' = FALSE
    /\ lsn' = NoServer /\ up' = {} /\ failed' = {} /\ leaked' = FALSE
    /\ op' = IF stored.enabled THEN [Idle(stored) EXCEPT !.kind = "boot", !.pc = "persist"]
             ELSE Idle(Default)
    /\ UNCHANGED <<stored, client, tokens, servers, calls>>

Next ==
    \/ \E b \in BOOLEAN : SetEnabled(b) \/ SetTokenEnabled(b)
    \/ \E p \in Ports : SetPort(p)
    \/ RegenerateToken \/ InstallClient \/ Persist \/ OtherSave \/ Configure \/ Apply
    \/ SetServerPort \/ SetServerToken \/ Stop \/ Restore \/ Start \/ WriteClient
    \/ \E s \in up : ServeFails(s)
    \/ \E s \in failed : ReportFailure(s)
    \/ Restart

Spec == Init /\ [][Next]_vars

-----------------------------------------------------------------------------
Quiet == op.pc = "idle"

(* Between calls, whatever failed on the way: the listener asks for the    *)
(* token the settings page shows, no other one is left behind, and the     *)
(* next launch finds the same settings, unless they could not be saved.    *)
SettingsHold ==
    Quiet /\ ~leaked =>
        /\ up \subseteq {lsn}
        /\ \A s \in up : s.token = Verifier(cfg)
        /\ unsaved \/ stored = cfg

(* server.go: "SetPort updates the listen port and restarts if currently   *)
(* listening on a different port": between calls the listener is on the    *)
(* port the settings page shows and clients are configured with.           *)
ListensWhereShown == Quiet => \A s \in up : s.port = cfg.port
=============================================================================
