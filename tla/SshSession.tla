------------------------------ MODULE SshSession ------------------------------
(***************************************************************************)
(* One SSH session on a Pod (src/internal/podssh/session.go): serveSession *)
(* handles the client's requests in order, runExec or runSFTP is the one   *)
(* command, and terminalSizeQueue, a channel of one element, hands window  *)
(* sizes from the one to the other without waiting for it.                 *)
(***************************************************************************)
EXTENDS Naturals

CONSTANT MaxSizes   \* bound: sizes the client sends

VARIABLES
    asked,     \* sizes the client has sent: 1, 2, ...
    serve,     \* serveSession: its step, and the size it pushes
    sizes,     \* terminalSizeQueue.sizes, 0 if empty
    done,      \* terminalSizeQueue.done is closed
    tty,       \* sessionState.tty
    started,   \* startOnce
    run,       \* the goroutine of the command
    shell,     \* the command itself: has a terminal, its size, and its state
    ctx,       \* the session's context is not cancelled
    channel    \* the SSH channel is open

vars == <<asked, serve, sizes, done, tty, started, run, shell, ctx, channel>>

TypeOK ==
    /\ asked \in 0..MaxSizes /\ sizes \in 0..MaxSizes
    /\ serve.pc \in {"read", "push", "drain", "again", "leave", "ended"}
    /\ run \in {"none", "begin", "exec", "sftp", "over", "ended"}
    /\ shell.state \in {"none", "up", "gone"}
    /\ {done, tty, started, ctx, channel, shell.tty} \subseteq BOOLEAN

Init ==
    /\ asked = 0 /\ serve = [pc |-> "read", size |-> 0]
    /\ sizes = 0 /\ done = FALSE /\ tty = FALSE /\ started = FALSE /\ run = "none"
    /\ shell = [state |-> "none", tty |-> FALSE, size |-> 0]
    /\ ctx = TRUE /\ channel = TRUE

-----------------------------------------------------------------------------
(* "pty-req" and "window-change"; only the first makes the session a tty.  *)
SizeRequest(pty) ==
    /\ serve.pc = "read" /\ channel /\ asked < MaxSizes
    /\ asked' = asked + 1
    /\ tty' = (tty \/ pty) /\ serve' = [pc |-> "push", size |-> asked + 1]
    /\ UNCHANGED <<sizes, done, started, run, shell, ctx, channel>>

(* "shell" and "exec" start runExec, "subsystem" starts runSFTP: once.     *)
StartRequest(kind) ==
    /\ serve.pc = "read" /\ channel /\ ~started /\ started' = TRUE
    /\ run' = IF kind = "sftp" THEN "sftp" ELSE "begin"
    /\ UNCHANGED <<asked, serve, sizes, done, tty, shell, ctx, channel>>

Signal ==
    /\ serve.pc = "read" /\ channel /\ ctx' = FALSE
    /\ UNCHANGED <<asked, serve, sizes, done, tty, started, run, shell, channel>>

PushDrops ==  \* mutant: a full queue keeps what it has
    /\ serve.pc = "push"
    /\ sizes' = IF sizes = 0 THEN serve.size ELSE sizes
    /\ serve' = [serve EXCEPT !.pc = "read"]
    /\ UNCHANGED <<asked, done, tty, started, run, shell, ctx, channel>>

(* Push: send, or take the old size out and send again.                    *)
Push ==
    /\ serve.pc = "push"
    /\ IF sizes = 0 THEN sizes' = serve.size /\ serve' = [serve EXCEPT !.pc = "read"]
       ELSE serve' = [serve EXCEPT !.pc = "drain"] /\ UNCHANGED sizes
    /\ UNCHANGED <<asked, done, tty, started, run, shell, ctx, channel>>

Drain ==
    /\ serve.pc = "drain" /\ sizes' = 0 /\ serve' = [serve EXCEPT !.pc = "again"]
    /\ UNCHANGED <<asked, done, tty, started, run, shell, ctx, channel>>

PushAgain ==
    /\ serve.pc = "again" /\ serve' = [serve EXCEPT !.pc = "read"]
    /\ sizes' = IF sizes = 0 THEN serve.size ELSE sizes
    /\ UNCHANGED <<asked, done, tty, started, run, shell, ctx, channel>>

(* The requests end with the channel: the deferred calls.                  *)
RequestsEnd ==
    /\ serve.pc = "read" /\ ~channel
    /\ serve' = [pc |-> "leave", size |-> 0] /\ ctx' = FALSE
    /\ UNCHANGED <<asked, sizes, done, tty, started, run, shell, channel>>

CloseTerminal ==
    /\ serve.pc = "leave" /\ serve' = [pc |-> "ended", size |-> 0] /\ done' = TRUE
    /\ UNCHANGED <<asked, sizes, tty, started, run, shell, ctx, channel>>

ClientLeaves ==
    /\ channel /\ channel' = FALSE
    /\ UNCHANGED <<asked, serve, sizes, done, tty, started, run, shell, ctx>>

-----------------------------------------------------------------------------
(* runExec reads the tty flag when it runs, which may be after a request   *)
(* that came later than its own.                                           *)
Exec ==
    /\ run = "begin" /\ run' = "exec"
    /\ shell' = [state |-> IF ctx THEN "up" ELSE "gone", tty |-> tty, size |-> 0]
    /\ UNCHANGED <<asked, serve, sizes, done, tty, started, ctx, channel>>

(* Next waits for a size, and for nothing once the queue is closed.        *)
NextSize ==
    /\ shell.state = "up" /\ shell.tty /\ sizes # 0
    /\ shell' = [shell EXCEPT !.size = sizes] /\ sizes' = 0
    /\ UNCHANGED <<asked, serve, done, tty, started, run, ctx, channel>>

ExecReturns ==
    /\ \/ run = "exec" /\ shell' = [shell EXCEPT !.state = "gone"]
       \/ run = "sftp" /\ UNCHANGED shell
    /\ run' = "over"
    /\ UNCHANGED <<asked, serve, sizes, done, tty, started, ctx, channel>>

(* The exit status, the channel and the context.                           *)
RunEnds ==
    /\ run = "over" /\ run' = "ended" /\ channel' = FALSE /\ ctx' = FALSE
    /\ UNCHANGED <<asked, serve, sizes, done, tty, started, shell>>

ServeStep == Push \/ Drain \/ PushAgain \/ RequestsEnd \/ CloseTerminal
Next ==
    \/ \E b \in BOOLEAN : SizeRequest(b)
    \/ \E k \in {"exec", "sftp"} : StartRequest(k)
    \/ Signal \/ ServeStep \/ ClientLeaves \/ Exec \/ NextSize \/ ExecReturns \/ RunEnds

Spec == Init /\ [][Next]_vars

(* Kubernetes exec returns once its context is cancelled, the SFTP server  *)
(* once its channel is closed; the executor asks for sizes.                *)
Duty(k) ==
    \/ k = 1 /\ ServeStep
    \/ k = 2 /\ \/ Exec \/ RunEnds
                \/ ((run = "exec" /\ ~ctx) \/ (run = "sftp" /\ ~channel)) /\ ExecReturns
    \/ k = 3 /\ NextSize

-----------------------------------------------------------------------------
(* Pushing never waits, and yet the last size the client sent is not lost: *)
(* a terminal that stays up gets it.  And when the client or the command   *)
(* is gone, both goroutines of the session end.                            *)
Behind == shell.state = "up" /\ shell.tty /\ shell.size # asked
Abandoned == ~channel /\ ~(serve.pc = "ended" /\ run \in {"none", "ended"})
SessionSettles == (Behind \/ Abandoned) ~> ~(Behind \/ Abandoned)
=============================================================================
