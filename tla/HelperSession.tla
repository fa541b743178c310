---------------------------- MODULE HelperSession ----------------------------
(***************************************************************************)
(* The privileged core: the desktop's sing-box runtime                     *)
(* (src/internal/singbox/runtime, src/internal/session/helper_runtime.go)  *)
(* and the root helper that owns the sing-box process, the split DNS and   *)
(* the routes (src/internal/helper).  Every request is a connection with a *)
(* goroutine of its own in the helper.  The desktop may leave it (timeout, *)
(* crash), the goroutine goes on.                                          *)
(***************************************************************************)
EXTENDS Naturals, FiniteSets

CONSTANTS
    MaxIds,      \* bound: session ids the desktops make (SessionSpec.ID)
    Requests,    \* connections the helper serves at the same time
    MaxVersions, \* bound: DNS settings of one session
    MaxCrashes   \* bound: crashes of the desktop

VARIABLES
    sess,       \* the helper's sessions, their process and its waiter
    dns,        \* what the system resolver is set to
    rpc,        \* requests being handled
    desk,       \* the desktop
    nextId,     \* ids handed out
    crashes,
    abandoned,  \* history: a client left while its request was being handled
    quits       \* history: sessions whose process ended by itself

vars == <<sess, dns, rpc, desk, nextId, crashes, abandoned, quits>>

Ids == 1..MaxIds
Users == <<0, 0>>                       \* the user's own resolver settings
NoSess == [pc |-> "none", asked |-> "no", ver |-> 0]
Gone == [NoSess EXCEPT !.pc = "gone"]
NoRpc == [pc |-> "none", op |-> "none", id |-> 0, todo |-> {}, on |-> 0,
          res |-> "none", client |-> FALSE, ver |-> 0]
Idle == [pc |-> "idle", id |-> 0, req |-> 0, upd |-> 0, retried |-> FALSE,
         attempt |-> 0, ver |-> 0]

(* The sessions of Server.sessions; cmd is set from "running" on.          *)
InMap == {i \in Ids : sess[i].pc \in {"starting", "dns", "running", "exited", "restored"}}
HasCmd(i) == sess[i].pc \in {"running", "exited", "restored"}
Updating(i) == \E r \in Requests : rpc[r].pc \in {"apply", "applied"} /\ rpc[r].id = i

TypeOK ==
    /\ sess \in [Ids -> [pc : {"none", "starting", "dns", "running", "exited", "restored", "gone"},
                         asked : {"no", "term", "kill"}, ver : 0..MaxVersions]]
    /\ dns \in {Users} \cup (Ids \X (1..MaxVersions))
    /\ nextId \in 0..MaxIds /\ crashes \in 0..MaxCrashes
    /\ abandoned \in BOOLEAN /\ quits \subseteq Ids

Init ==
    /\ sess = [i \in Ids |-> NoSess] /\ dns = Users
    /\ rpc = [r \in Requests |-> NoRpc] /\ desk = Idle
    /\ nextId = 0 /\ crashes = 0 /\ abandoned = FALSE /\ quits = {}

-----------------------------------------------------------------------------
(* The helper: handle and dispatch.                                        *)
HelperFrame == UNCHANGED <<desk, nextId, crashes, abandoned, quits>>
Step(r, f) == rpc' = [rpc EXCEPT ![r] = f]
Result(r, res) == Step(r, [rpc[r] EXCEPT !.pc = "reply", !.res = res])

(* startSession, up to the first unlock: the session exists already, or    *)
(* others are left over.                                                   *)
StartCheck(r) ==
    /\ rpc[r].pc = "recv" /\ rpc[r].op = "start"
    /\ IF rpc[r].id \in InMap THEN Result(r, "ok")
       ELSE Step(r, [rpc[r] EXCEPT !.pc = IF InMap = {} THEN "register" ELSE "collect"])
    /\ UNCHANGED <<sess, dns>> /\ HelperFrame

(* stopAllSessions collects the ids, then stops them one by one.           *)
Collect(r) ==
    /\ \/ rpc[r].pc = "collect"
       \/ rpc[r].pc = "recv" /\ rpc[r].op \in {"stop", "stopAll"}
    /\ Step(r, [rpc[r] EXCEPT !.pc = "stopping",
                              !.todo = IF rpc[r].op = "stop" THEN {rpc[r].id} ELSE InMap])
    /\ UNCHANGED <<sess, dns>> /\ HelperFrame

(* stopSession: no session, one that is still starting, or a process that  *)
(* is asked to end.                                                        *)
StopOne(r) ==
    /\ rpc[r].pc = "stopping" /\ rpc[r].on = 0
    /\ \E i \in rpc[r].todo :
         IF i \in InMap /\ HasCmd(i)
         THEN /\ sess' = IF sess[i].asked = "no" THEN [sess EXCEPT ![i].asked = "term"] ELSE sess
              /\ Step(r, [rpc[r] EXCEPT !.todo = @ \ {i}, !.on = i])
         ELSE /\ Step(r, [rpc[r] EXCEPT !.todo = @ \ {i},
                                        !.res = IF i \in InMap THEN "error" ELSE @])
              /\ UNCHANGED sess
    /\ UNCHANGED dns /\ HelperFrame

StopKillNever(r) == FALSE  \* mutant: the graceful stop is the only one

(* After 15 seconds, or when the process cannot be signalled.              *)
StopKill(r) ==
    /\ rpc[r].pc = "stopping" /\ rpc[r].on # 0 /\ sess[rpc[r].on].pc = "running"
    /\ sess[rpc[r].on].asked # "kill"
    /\ sess' = [sess EXCEPT ![rpc[r].on].asked = "kill"]
    /\ UNCHANGED <<rpc, dns>> /\ HelperFrame

(* done is closed, or five seconds after the kill it is not.               *)
StopWaited(r) ==
    /\ rpc[r].pc = "stopping" /\ rpc[r].on # 0
    /\ \/ /\ sess[rpc[r].on].pc = "gone"
          /\ Step(r, [rpc[r] EXCEPT !.on = 0])
       \/ /\ sess[rpc[r].on].asked = "kill" /\ sess[rpc[r].on].pc # "gone"
          /\ Step(r, [rpc[r] EXCEPT !.on = 0, !.res = "error"])
    /\ UNCHANGED <<sess, dns>> /\ HelperFrame

(* Where the stop goes on: startSession, the answer, or nowhere when it    *)
(* undid a start whose answer could not be written.                        *)
Stopped(r) ==
    /\ rpc[r].pc = "stopping" /\ rpc[r].on = 0 /\ rpc[r].todo = {}
    /\ CASE rpc[r].op = "start" -> Step(r, [rpc[r] EXCEPT !.pc = "register", !.res = "none"])
         [] rpc[r].op = "undo" -> Step(r, NoRpc)
         [] rpc[r].op = "stopAll" -> Result(r, "ok")
         [] OTHER -> Result(r, IF rpc[r].res = "error" THEN "error" ELSE "ok")
    /\ UNCHANGED <<sess, dns>> /\ HelperFrame

(* Only one privileged TUN: the map is looked at again.                    *)
Register(r) ==
    /\ rpc[r].pc = "register"
    /\ IF InMap # {} THEN Result(r, "busy") /\ UNCHANGED sess
       ELSE /\ sess' = [sess EXCEPT ![rpc[r].id].pc = "starting"]
            /\ Step(r, [rpc[r] EXCEPT !.pc = "setup"])
    /\ UNCHANGED dns /\ HelperFrame

(* The directory, the config, the trusted binary, the log and the split    *)
(* DNS; a failure undoes the DNS and leaves the map.                       *)
Setup(r) ==
    /\ rpc[r].pc = "setup"
    /\ \/ /\ dns' = <<rpc[r].id, 1>>
          /\ sess' = [sess EXCEPT ![rpc[r].id] = [@ EXCEPT !.pc = "dns", !.ver = 1]]
          /\ Step(r, [rpc[r] EXCEPT !.pc = "exec"])
       \/ /\ dns' \in {dns, Users}
          /\ sess' = [sess EXCEPT ![rpc[r].id] = Gone] /\ Result(r, "error")
    /\ HelperFrame

(* cmd.Start, and the goroutine that waits for the process.                *)
Exec(r) ==
    /\ rpc[r].pc = "exec"
    /\ \/ /\ sess' = [sess EXCEPT ![rpc[r].id].pc = "running"]
          /\ Step(r, [rpc[r] EXCEPT !.pc = "await"]) /\ UNCHANGED dns
       \/ /\ dns' = Users
          /\ sess' = [sess EXCEPT ![rpc[r].id] = Gone] /\ Result(r, "error")
    /\ HelperFrame

(* The controller answers or two seconds pass; or the process has exited,  *)
(* which the select may notice too late.  It may have exited because a     *)
(* port was taken.                                                         *)
Await(r) ==
    /\ rpc[r].pc = "await"
    /\ \/ Result(r, "ok")
       \/ sess[rpc[r].id].pc # "running" /\ \E res \in {"error", "inUse"} : Result(r, res)
    /\ UNCHANGED <<sess, dns>> /\ HelperFrame

(* updateSessionDNS.  Between the lookup and the lock of the session's     *)
(* lifecycle the process may end and be cleaned up after.                  *)
UpdateLookup(r) ==
    /\ rpc[r].pc = "recv" /\ rpc[r].op = "update"
    /\ IF rpc[r].id \in InMap THEN Step(r, [rpc[r] EXCEPT !.pc = "lock"])
                              ELSE Result(r, "error")
    /\ UNCHANGED <<sess, dns>> /\ HelperFrame

UpdateLockBlind(r) ==  \* mutant: the session is not looked up again under the lock
    /\ rpc[r].pc = "lock"
    /\ ~Updating(rpc[r].id) /\ sess[rpc[r].id].pc # "restored"
    /\ dns' = Users /\ Step(r, [rpc[r] EXCEPT !.pc = "apply"])
    /\ UNCHANGED sess /\ HelperFrame

UpdateLock(r) ==
    /\ rpc[r].pc = "lock"
    /\ ~Updating(rpc[r].id) /\ sess[rpc[r].id].pc # "restored"
    /\ IF rpc[r].id \in InMap
       THEN dns' = Users /\ Step(r, [rpc[r] EXCEPT !.pc = "apply"])
       ELSE UNCHANGED dns /\ Result(r, "error")
    /\ UNCHANGED sess /\ HelperFrame

(* ApplyDNS; when it fails the previous settings come back, if they can.   *)
UpdateApply(r) ==
    /\ rpc[r].pc = "apply"
    /\ \/ /\ dns' = <<rpc[r].id, rpc[r].ver>>
          /\ sess' = [sess EXCEPT ![rpc[r].id].ver = rpc[r].ver] /\ Result(r, "ok")
       \/ /\ dns' \in {<<rpc[r].id, sess[rpc[r].id].ver>>, Users}
          /\ UNCHANGED sess /\ Result(r, "error")
    /\ HelperFrame

(* writeResponse.  A start whose client is gone is undone.                 *)
Reply(r) ==
    /\ rpc[r].pc = "reply"
    /\ Step(r, CASE rpc[r].client -> [rpc[r] EXCEPT !.pc = "answered"]
                 [] ~rpc[r].client /\ rpc[r].op = "start" /\ rpc[r].res = "ok" ->
                      [rpc[r] EXCEPT !.pc = "stopping", !.todo = {rpc[r].id}, !.op = "undo"]
                 [] OTHER -> NoRpc)
    /\ UNCHANGED <<sess, dns>> /\ HelperFrame

(* The process ends when it is asked to, when it is killed, or by itself.  *)
Exit(i) ==
    /\ sess[i].pc = "running"
    /\ sess' = [sess EXCEPT ![i].pc = "exited"]
    /\ quits' = IF sess[i].asked = "no" THEN quits \cup {i} ELSE quits
    /\ UNCHANGED <<dns, rpc, desk, nextId, crashes, abandoned>>

(* The waiter restores DNS and routes under the lifecycle lock, then takes *)
(* the session out of the map and closes done.                             *)
Restore(i) ==
    /\ sess[i].pc = "exited" /\ ~Updating(i)
    /\ sess' = [sess EXCEPT ![i].pc = "restored"] /\ dns' = Users
    /\ UNCHANGED rpc /\ HelperFrame

Remove(i) ==
    /\ sess[i].pc = "restored"
    /\ sess' = [sess EXCEPT ![i] = Gone]
    /\ UNCHANGED <<dns, rpc>> /\ HelperFrame

-----------------------------------------------------------------------------
(* The desktop: Runtime.Start, Process and the client of the helper.       *)
DeskFrame == UNCHANGED <<sess, dns, crashes, quits>>
Send(r, op, id, ver) ==
    /\ rpc[r] = NoRpc /\ \A q \in Requests : q < r => rpc[q] # NoRpc
    /\ rpc' = [rpc EXCEPT ![r] = [NoRpc EXCEPT !.pc = "recv", !.op = op, !.id = id,
                                               !.client = TRUE, !.ver = ver]]

(* Ports, secret and TUN address are chosen, the DNS proxy listens, and    *)
(* the helper is asked to start.                                           *)
StartOnce(r, attempt) ==
    /\ nextId < MaxIds /\ nextId' = nextId + 1
    /\ Send(r, "start", nextId + 1, 0)
    /\ desk' = [Idle EXCEPT !.pc = "start", !.id = nextId + 1, !.req = r, !.attempt = attempt]

Connect(r) ==
    /\ desk.pc = "idle" /\ StartOnce(r, 1)
    /\ DeskFrame /\ UNCHANGED abandoned

Free(r) == [rpc EXCEPT ![r] = NoRpc]

(* The answer to a start.  A busy helper is told to stop everything, once; *)
(* an address in use is tried again with new ports, three times.           *)
Started ==
    /\ desk.pc = "start" /\ rpc[desk.req].pc = "answered"
    /\ LET res == rpc[desk.req].res IN
         \/ /\ res = "ok"
            /\ desk' = [desk EXCEPT !.pc = "wait", !.req = 0, !.ver = 1]
            /\ rpc' = Free(desk.req)
         \/ /\ res = "busy" /\ ~desk.retried
            /\ desk' = [desk EXCEPT !.pc = "stopAll", !.retried = TRUE]
            /\ rpc' = [rpc EXCEPT ![desk.req] = [NoRpc EXCEPT !.pc = "recv", !.op = "stopAll",
                                                              !.client = TRUE]]
         \/ /\ res \in {"busy", "error", "inUse"} /\ (res = "busy" => desk.retried)
            /\ desk' = IF res = "inUse" /\ desk.attempt < 3
                       THEN [Idle EXCEPT !.pc = "again", !.attempt = desk.attempt] ELSE Idle
            /\ rpc' = Free(desk.req)
    /\ DeskFrame /\ UNCHANGED <<nextId, abandoned>>

Again(r) ==
    /\ desk.pc = "again"
    /\ \/ StartOnce(r, desk.attempt + 1)
       \/ desk' = Idle /\ UNCHANGED <<rpc, nextId>>       \* the context is cancelled
    /\ DeskFrame /\ UNCHANGED abandoned

AllStopped ==
    /\ desk.pc = "stopAll" /\ rpc[desk.req].pc = "answered"
    /\ desk' = [desk EXCEPT !.pc = "start"]
    /\ rpc' = [rpc EXCEPT ![desk.req] = [NoRpc EXCEPT !.pc = "recv", !.op = "start",
                                                      !.id = desk.id, !.client = TRUE]]
    /\ DeskFrame /\ UNCHANGED <<nextId, abandoned>>

(* waitReady: the controller answers while the process runs; the desktop   *)
(* has no other sign of it.                                                *)
Ready ==
    /\ desk.pc = "wait" /\ sess[desk.id].pc = "running"
    /\ desk' = [desk EXCEPT !.pc = "ready"]
    /\ DeskFrame /\ UNCHANGED <<rpc, nextId, abandoned>>

(* Process.Close, once: by the owner, the cancelled context or the end of  *)
(* waitReady.  It sends the stop and waits for it.                         *)
Close(r) ==
    /\ desk.pc \in {"wait", "ready"}
    /\ Send(r, "stop", desk.id, 0)
    /\ desk' = [desk EXCEPT !.pc = "close", !.req = r]
    /\ DeskFrame /\ UNCHANGED <<nextId, abandoned>>

Closed ==
    /\ desk.pc = "close" /\ rpc[desk.req].pc = "answered" /\ desk.upd = 0
    /\ desk' = Idle /\ rpc' = Free(desk.req)
    /\ DeskFrame /\ UNCHANGED <<nextId, abandoned>>

(* A change of the namespace searched first, or of the host aliases: the   *)
(* specification and the DNS proxy have it before the helper is asked.     *)
SendUpdate(r) ==
    /\ desk.pc = "ready" /\ desk.upd = 0 /\ desk.ver < MaxVersions
    /\ Send(r, "update", desk.id, desk.ver + 1)
    /\ desk' = [desk EXCEPT !.upd = r, !.ver = desk.ver + 1]
    /\ DeskFrame /\ UNCHANGED <<nextId, abandoned>>

UpdateDNSNamespace(r) == SendUpdate(r)
UpdateHostAliases(r) == SendUpdate(r)

Updated ==
    /\ desk.upd # 0 /\ rpc[desk.upd].pc = "answered"
    /\ rpc' = Free(desk.upd) /\ desk' = [desk EXCEPT !.upd = 0]
    /\ DeskFrame /\ UNCHANGED <<nextId, abandoned>>

Leave(R) == [r \in Requests |-> IF r \notin R THEN rpc[r]
                                ELSE IF rpc[r].pc = "answered" THEN NoRpc
                                ELSE [rpc[r] EXCEPT !.client = FALSE]]
Handled(R) == \E r \in R : rpc[r].pc \notin {"none", "answered"}

(* roundTrip's deadline: 30 seconds, three minutes for a start.            *)
Timeout ==
    /\ \/ /\ desk.upd # 0
          /\ rpc' = Leave({desk.upd}) /\ desk' = [desk EXCEPT !.upd = 0]
          /\ abandoned' = (abandoned \/ Handled({desk.upd}))
       \/ /\ desk.pc \in {"start", "stopAll", "close"} /\ desk.upd = 0
          /\ rpc' = Leave({desk.req}) /\ desk' = Idle
          /\ abandoned' = (abandoned \/ Handled({desk.req}))
    /\ DeskFrame /\ UNCHANGED nextId

Crash ==
    /\ desk # Idle /\ crashes < MaxCrashes /\ crashes' = crashes + 1
    /\ rpc' = Leave({desk.req, desk.upd} \ {0})
    /\ abandoned' = (abandoned \/ Handled({desk.req, desk.upd} \ {0}))
    /\ desk' = Idle
    /\ UNCHANGED <<sess, dns, nextId, quits>>

-----------------------------------------------------------------------------
Helper(r) ==
    \/ StartCheck(r) \/ Collect(r) \/ StopOne(r) \/ StopKill(r) \/ StopWaited(r)
    \/ Stopped(r) \/ Register(r) \/ Setup(r) \/ Exec(r) \/ Await(r)
    \/ UpdateLookup(r) \/ UpdateLock(r) \/ UpdateApply(r) \/ Reply(r)
Waiter(i) == Restore(i) \/ Remove(i)
Answers == Started \/ AllStopped \/ Closed \/ Updated

Next ==
    \/ \E r \in Requests : Helper(r) \/ Connect(r) \/ Again(r) \/ Close(r)
                             \/ UpdateDNSNamespace(r) \/ UpdateHostAliases(r)
    \/ \E i \in Ids : Exit(i) \/ Waiter(i)
    \/ Answers \/ Ready \/ Timeout \/ Crash

Spec == Init /\ [][Next]_vars

(* Goroutines run, timers fire, and a killed process ends; one that was    *)
(* only asked to end may not.                                              *)
Killed(i) == sess[i].asked = "kill" /\ Exit(i)
Duty(k) ==
    \/ k \in Requests /\ Helper(k)
    \/ \E i \in Ids : \/ k = Cardinality(Requests) + 2 * i - 1 /\ Waiter(i)
                      \/ k = Cardinality(Requests) + 2 * i /\ Killed(i)
    \/ k = 0 /\ Answers

-----------------------------------------------------------------------------
(* Privileged state has an owner: while the helper knows no session, no    *)
(* sing-box runs and the resolver is the user's; and there is never a      *)
(* second core, whatever requests overlap, time out or outlive a crash.    *)
NothingLeftBehind ==
    /\ Cardinality({i \in Ids : sess[i].pc \in {"starting", "dns", "running"}}) <= 1
    /\ dns # Users => dns[1] \in InMap

(* A desktop that was told its core is ready has it, until the core ends   *)
(* by itself: leftovers of a crash and their removal never hit the new     *)
(* session, as long as no abandoned request is still being handled.        *)
ReadyIsServed ==
    desk.pc = "ready" /\ ~abandoned /\ desk.id \notin quits =>
        /\ sess[desk.id].pc = "running" /\ sess[desk.id].asked = "no"
        /\ \/ dns[1] = desk.id
           \/ sess[desk.id].ver < desk.ver          \* an update is under way or has failed

(* Closing a session gives the resolver back, even when sing-box ignores   *)
(* the signal and the desktop is gone before the helper is through.        *)
CloseRestores ==
    \A i \in Ids : (desk.pc = "close" /\ desk.id = i) ~> (i \notin InMap /\ dns[1] # i)
=============================================================================
