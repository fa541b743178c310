--------------------------- MODULE SessionProofs ---------------------------
(***************************************************************************)
(* Session: one run at a time owns resources, for every number of callers, *)
(* contexts, runs, losses and attempts; what a run has set up is torn down *)
(* in order; and, for one user at a time, the phase shown and the flag     *)
(* stored tell the truth about the run.  The last two follow the run       *)
(* through the lines of its program.                                       *)
(***************************************************************************)
EXTENDS Session, SequenceTheorems, TLAPS

(* A record with the fields of a run.  What most of them hold does not     *)
(* matter here: the argument is about pc, ret and res.                     *)
Fields == {"pc", "ret", "at", "ctx", "mode", "cancelled", "copy", "res", "up",
           "tries", "losses"}
IsRun(x) == x = [f \in Fields |-> x[f]]

(* Where a run is past sessionRuntime.Close, and where a log returns to.   *)
Empty == {"none", "settle", "idle", "clear", "ended", "done"}
Returns == {"setup", "serve", "recover", "fail", "close"}
Sound(x) == /\ IsRun(x)
            /\ x.pc \in Empty => x.res = <<>>
            /\ x.pc = "log" => x.ret \in Returns

Counted == started \in 0..MaxRuns
RunsSound == /\ run = [r \in 1..MaxRuns |-> run[r]]
             /\ \A r \in 1..MaxRuns : Sound(run[r])
NotYet == \A r \in 1..MaxRuns : r > started => run[r].pc = "none"
ActiveIsCurrent == \A r \in 1..MaxRuns : Active(r) => current = r

IInv == Counted /\ RunsSound /\ NotYet /\ ActiveIsCurrent

-----------------------------------------------------------------------------
(* The invariant says more than OwnerIsCurrent: a run that owns something  *)
(* is not past its teardown.                                               *)
LEMMA Suffices == IInv => OwnerIsCurrent
  BY DEF IInv, RunsSound, Sound, Empty, ActiveIsCurrent, OwnerIsCurrent, Active

(* Before the first Connect there is no run.                               *)
LEMMA InitOK == Init => IInv
<1> SUFFICES ASSUME Init PROVE IInv
  OBVIOUS
<1>1. Counted
  BY SessionAssumption DEF Init, Counted
<1>2. IsRun(NoRun)
  BY DEF IsRun, NoRun, Fields
<1>3. \A r \in 1..MaxRuns : run[r] = NoRun
  BY DEF Init
<1>4. RunsSound
  BY <1>2, <1>3 DEF Init, RunsSound, Sound, Empty, NoRun
<1>5. NotYet /\ ActiveIsCurrent
  BY <1>3 DEF NotYet, ActiveIsCurrent, Active, NoRun
<1> QED
  BY <1>1, <1>4, <1>5 DEF IInv

(* A step of a run that has not ended, to another sound record.            *)
LEMMA StepOf ==
  ASSUME IInv, NEW r \in 1..MaxRuns, NEW x, Active(r), Sound(x),
         run' = [run EXCEPT ![r] = x], UNCHANGED <<started, current>>
  PROVE  IInv'
<1>1. \A q \in 1..MaxRuns : run'[q] = IF q = r THEN x ELSE run[q]
  BY DEF IInv, RunsSound
<1>2. Counted'
  BY DEF IInv, Counted
<1>3. RunsSound'
  BY <1>1 DEF IInv, RunsSound
<1>4. r <= started
  BY SessionAssumption DEF IInv, NotYet, Active, Counted
<1>5. NotYet'
  BY <1>1, <1>4, SessionAssumption DEF IInv, NotYet, Counted
<1>6. ActiveIsCurrent'
  BY <1>1 DEF IInv, ActiveIsCurrent, Active
<1> QED
  BY <1>2, <1>3, <1>5, <1>6 DEF IInv

-----------------------------------------------------------------------------
(* What the steps of a run make of its record.                             *)

(* Moving on to a place before the end of the teardown.                    *)
LEMMA PcSound ==
  ASSUME NEW x, Sound(x), NEW p \in RunPcs \ (Empty \cup {"log"})
  PROVE  Sound([x EXCEPT !.pc = p])
  BY DEF Sound, IsRun, Fields, Empty, RunPcs

(* The first half of an AppendLog, which goes on before the teardown ends. *)
LEMMA LoggingSound ==
  ASSUME NEW x, Sound(x), NEW ret \in Returns
  PROVE  Sound(Logging(x, ret))
  BY DEF Sound, IsRun, Fields, Empty, Logging, Returns

(* The next line of the program, or serve.                                 *)
LEMMA AdvanceSound ==
  ASSUME NEW x, Sound(x), x.pc = "setup"
  PROVE  Sound(Advance(x)) /\ Advance(x).pc \in {"setup", "serve"}
<1> DEFINE next == [x EXCEPT !.at = @ + 1]
<1>1. Sound(next) /\ next.pc = "setup"
  BY DEF Sound, IsRun, Fields, Empty
<1> HIDE DEF next
<1>2. Sound([next EXCEPT !.pc = "serve"]) /\ [next EXCEPT !.pc = "serve"].pc = "serve"
  BY <1>1 DEF Sound, IsRun, Fields, Empty
<1>3. Advance(x) = next \/ Advance(x) = [next EXCEPT !.pc = "serve"]
  BY DEF Advance, next
<1> QED
  BY <1>1, <1>2, <1>3

(* sessionRuntime.Add, by a run that has not begun its teardown.           *)
LEMMA RegisterSound ==
  ASSUME NEW x, NEW adds, Sound(x), x.pc \notin Empty
  PROVE  Sound(Register(x, adds)) /\ Register(x, adds).pc = x.pc
<1> DEFINE res == x.res \o adds
           up == IF adds # <<>> /\ adds[1] = "guard" THEN TRUE ELSE x.up
<1>1. Register(x, adds) = [x EXCEPT !.res = res, !.up = up]
  BY DEF Register
<1> HIDE DEF res, up
<1> QED
  BY <1>1 DEF Sound, IsRun, Fields

-----------------------------------------------------------------------------
(* The actions of a run, each by what it makes of the record.              *)

(* The lines of the setup program.                                         *)
LEMMA SetupOK ==
  ASSUME IInv, NEW r \in 1..MaxRuns,
         \/ CheckContext(r) \/ PublishPhase(r) \/ CallReturns(r) \/ CallFails(r)
         \/ PersistConnected(r) \/ LogInSetup(r)
  PROVE  IInv'
<1> DEFINE x == run[r]
<1>1. /\ run[r].pc = "setup" /\ UNCHANGED <<started, current>>
      /\ Sound(x) /\ x.pc = "setup" /\ Active(r)
  BY DEF CheckContext, PublishPhase, CallReturns, CallFails, PersistConnected,
         LogInSetup, RunFrame, IInv, RunsSound, Active
<1>2. Sound(Advance(x)) /\ Advance(x).pc \in {"setup", "serve"}
  BY <1>1, AdvanceSound
<1>3. Sound(Register(x, Step(r).adds)) /\ Register(x, Step(r).adds).pc = "setup"
  BY <1>1, RegisterSound DEF Empty
<1>4. Sound(Advance(Register(x, Step(r).adds)))
  BY <1>3, AdvanceSound
<1>5. Sound([x EXCEPT !.pc = "close"]) /\ Sound([x EXCEPT !.pc = "fail"])
  BY <1>1, PcSound DEF Empty, RunPcs
<1>6. Sound(Logging(Advance(x), "setup"))
  BY <1>2, LoggingSound DEF Returns
<1>7. run = [q \in 1..MaxRuns |-> run[q]]
  BY DEF IInv, RunsSound
<1>8. \E y : Sound(y) /\ run' = [run EXCEPT ![r] = y]
  <2>1. CASE CheckContext(r)
    BY <2>1, <1>2, <1>5, <1>7 DEF CheckContext
  <2>2. CASE PublishPhase(r) \/ CallReturns(r)
    BY <2>2, <1>4, <1>7 DEF PublishPhase, CallReturns
  <2>3. CASE CallFails(r)
    BY <2>3, <1>5, <1>7 DEF CallFails
  <2>4. CASE PersistConnected(r)
    BY <2>4, <1>2, <1>7 DEF PersistConnected
  <2>5. CASE LogInSetup(r)
    BY <2>5, <1>6, <1>7 DEF LogInSetup
  <2> QED
    BY <2>1, <2>2, <2>3, <2>4, <2>5
<1> QED
  BY <1>1, <1>8, StepOf

(* Serving, recovery and fail: the record changes, the resources only      *)
(* grow, and the run goes on before its teardown ends.                     *)
LEMMA ServeOK ==
  ASSUME IInv, NEW r \in 1..MaxRuns,
         \/ ServeCancelled(r) \/ Tick(r) \/ CoreExit(r) \/ ControlLost(r)
         \/ Redialed(r) \/ Replaced(r) \/ AttemptFails(r)
         \/ Fail(r) \/ PublishError(r) \/ LogError(r)
  PROVE  IInv'
<1> DEFINE x == run[r]
<1>1. /\ UNCHANGED <<started, current>> /\ Sound(x)
      /\ x.pc \in {"serve", "recover", "fail", "error", "errlog"} /\ Active(r)
  BY DEF ServeCancelled, Tick, CoreExit, ControlLost, Redialed, Replaced,
         AttemptFails, Fail, PublishError, LogError, RunFrame, IInv, RunsSound, Active
<1>2. \A ret \in Returns : Sound(Logging(x, ret))
  BY <1>1, LoggingSound
<1>3. \A p \in {"close", "fail", "error", "errlog"} : Sound([x EXCEPT !.pc = p])
  BY <1>1, PcSound DEF Empty, RunPcs
<1>4. Sound(Logging(Register(x, <<"forward">>), "serve"))
  BY <1>1, RegisterSound, LoggingSound DEF Empty, Returns
<1>5. Sound(Logging([x EXCEPT !.losses = @ + 1, !.tries = 0], "recover"))
  <2>1. Sound([x EXCEPT !.losses = @ + 1, !.tries = 0])
    BY <1>1 DEF Sound, IsRun, Fields, Empty
  <2> QED
    BY <2>1, LoggingSound DEF Returns
<1>6. Sound(Logging([x EXCEPT !.tries = @ + 1], "recover"))
  <2>1. Sound([x EXCEPT !.tries = @ + 1])
    BY <1>1 DEF Sound, IsRun, Fields, Empty
  <2> QED
    BY <2>1, LoggingSound DEF Returns
<1>7. run = [q \in 1..MaxRuns |-> run[q]]
  BY DEF IInv, RunsSound
<1>8. \E y : Sound(y) /\ run' = [run EXCEPT ![r] = y]
  <2>1. CASE ServeCancelled(r)
    BY <2>1, <1>2, <1>3, <1>7 DEF ServeCancelled, Returns
  <2>2. CASE Tick(r) \/ CoreExit(r) \/ Redialed(r) \/ LogError(r)
    BY <2>2, <1>2, <1>7 DEF Tick, CoreExit, Redialed, LogError, Returns
  <2>3. CASE ControlLost(r)
    <3> DEFINE lost == [x EXCEPT !.losses = @ + 1, !.tries = 0]
    <3>1. \/ run' = [run EXCEPT ![r] = [x EXCEPT !.pc = "close"]]
          \/ run' = [run EXCEPT ![r] = Logging(lost, "recover")]
      BY <2>3, <1>7 DEF ControlLost
    <3> QED
      BY <3>1, <1>3, <1>5
  <2>4. CASE Replaced(r)
    BY <2>4, <1>4, <1>7 DEF Replaced
  <2>5. CASE AttemptFails(r)
    <3> DEFINE again == [x EXCEPT !.tries = @ + 1]
    <3>1. \/ run' = [run EXCEPT ![r] = [x EXCEPT !.pc = "fail"]]
          \/ run' = [run EXCEPT ![r] = Logging(again, "recover")]
      BY <2>5, <1>7 DEF AttemptFails
    <3> QED
      BY <3>1, <1>3, <1>6
  <2>6. CASE Fail(r)
    BY <2>6, <1>3, <1>7 DEF Fail
  <2>7. CASE PublishError(r)
    BY <2>7, <1>3, <1>7 DEF PublishError
  <2> QED
    BY <2>1, <2>2, <2>3, <2>4, <2>5, <2>6, <2>7
<1> QED
  BY <1>1, <1>8, StepOf

(* The deferred teardown up to the end of the run: nothing is left when it *)
(* settles, and the record is emptied by Closed's guard, not by Closed.    *)
LEMMA TeardownOK ==
  ASSUME IInv, NEW r \in 1..MaxRuns,
         \/ LogPublished(r) \/ CloseResource(r) \/ Closed(r) \/ Settle(r) \/ RunIdle(r)
  PROVE  IInv'
<1> DEFINE x == run[r]
<1>1. /\ UNCHANGED <<started, current>> /\ Sound(x)
      /\ x.pc \in {"log", "close", "settle", "idle"} /\ Active(r)
  BY DEF LogPublished, CloseResource, Closed, Settle, RunIdle, RunFrame, IInv,
         RunsSound, Active
<1>2. run = [q \in 1..MaxRuns |-> run[q]]
  BY DEF IInv, RunsSound
<1>3. \E y : Sound(y) /\ run' = [run EXCEPT ![r] = y]
  <2>1. CASE LogPublished(r)
    <3> DEFINE y == [x EXCEPT !.pc = x.ret, !.ret = "none", !.copy = NoState]
    <3>1. x.pc = "log" /\ x.ret \in Returns
      BY <2>1, <1>1 DEF LogPublished, Sound
    <3>2. Sound(y)
      BY <3>1, <1>1 DEF Sound, IsRun, Fields, Empty, Returns
    <3>3. run' = [run EXCEPT ![r] = y]
      BY <2>1, <1>1, <1>2 DEF LogPublished, Sound, IsRun, Fields
    <3> QED
      BY <3>2, <3>3
  <2>2. CASE CloseResource(r)
    <3>1. PICK res, up : run' = [run EXCEPT ![r].res = res, ![r].up = up]
      BY <2>2 DEF CloseResource
    <3> DEFINE y == [x EXCEPT !.res = res, !.up = up]
    <3>2. Sound(y)
      BY <2>2, <1>1 DEF CloseResource, Sound, IsRun, Fields, Empty
    <3>3. run' = [run EXCEPT ![r] = y]
      BY <3>1, <1>1, <1>2 DEF Sound, IsRun, Fields
    <3> QED
      BY <3>2, <3>3
  <2>3. CASE Closed(r)
    <3>1. Sound([x EXCEPT !.pc = "settle"])
      BY <2>3, <1>1 DEF Closed, Sound, IsRun, Fields, Empty
    <3> QED
      BY <2>3, <3>1, <1>2 DEF Closed
  <2>4. CASE Settle(r)
    <3> DEFINE idle == [state EXCEPT !.phase = "idle"]
    <3>1. Sound([x EXCEPT !.pc = "clear"])
      BY <2>4, <1>1 DEF Settle, Sound, IsRun, Fields, Empty
    <3>2. \A s : Sound([x EXCEPT !.pc = "idle", !.copy = s])
      BY <2>4, <1>1 DEF Settle, Sound, IsRun, Fields, Empty
    <3>3. \/ run' = [run EXCEPT ![r] = [x EXCEPT !.pc = "idle", !.copy = idle]]
          \/ run' = [run EXCEPT ![r] = [x EXCEPT !.pc = "clear"]]
      BY <2>4, <1>2 DEF Settle
    <3> QED
      BY <3>1, <3>2, <3>3
  <2>5. CASE RunIdle(r)
    <3> DEFINE y == [x EXCEPT !.pc = "clear", !.copy = NoState]
    <3>1. Sound(y)
      BY <2>5, <1>1 DEF RunIdle, Sound, IsRun, Fields, Empty
    <3>2. run' = [run EXCEPT ![r] = y]
      BY <2>5, <1>1, <1>2 DEF RunIdle, Sound, IsRun, Fields
    <3> QED
      BY <3>1, <3>2
  <2> QED
    BY <1>1, <2>1, <2>2, <2>3, <2>4, <2>5
<1> QED
  BY <1>1, <1>3, StepOf

(* The end of a run: it stops being active in the step that resets         *)
(* Manager.cancel, and done is closed after that.                          *)
LEMMA EndOK ==
  ASSUME IInv, NEW r \in 1..MaxRuns, ClearRun(r) \/ CloseDone(r)
  PROVE  IInv'
<1> DEFINE x == run[r]
           y == IF ClearRun(r) THEN [x EXCEPT !.pc = "ended"]
                ELSE [NoRun EXCEPT !.pc = "done", !.ctx = x.ctx]
<1>1. Sound(x) /\ run = [q \in 1..MaxRuns |-> run[q]] /\ UNCHANGED started
  BY DEF IInv, RunsSound, ClearRun, CloseDone, RunFrame
<1>2. Sound(y) /\ y.pc \in {"ended", "done"}
  BY <1>1 DEF ClearRun, CloseDone, Sound, IsRun, Fields, Empty, NoRun
<1>3. run' = [run EXCEPT ![r] = y]
  BY <1>1 DEF ClearRun, CloseDone
<1> HIDE DEF y
<1>4. \A q \in 1..MaxRuns : run'[q] = IF q = r THEN y ELSE run[q]
  BY <1>1, <1>3
<1>5. x.pc # "none" /\ (x.pc = "clear" \/ current' = current)
  BY DEF ClearRun, CloseDone
<1>6. r <= started
  BY <1>5, SessionAssumption DEF IInv, NotYet, Counted
<1>7. Counted' /\ RunsSound'
  BY <1>1, <1>2, <1>3, <1>4 DEF IInv, Counted, RunsSound
<1>8. NotYet'
  BY <1>1, <1>4, <1>6, SessionAssumption DEF IInv, NotYet, Counted
<1>9. ActiveIsCurrent'
  <2> SUFFICES ASSUME NEW q \in 1..MaxRuns, Active(q)' PROVE current' = q
    BY DEF ActiveIsCurrent
  <2>1. q # r /\ Active(q) /\ current = q
    BY <1>2, <1>4 DEF Active, IInv, ActiveIsCurrent
  <2> QED
    BY <2>1 DEF ClearRun, CloseDone
<1> QED
  BY <1>7, <1>8, <1>9 DEF IInv

-----------------------------------------------------------------------------
(* The actions of callers.                                                 *)

(* Connect starts a run only where Manager.cancel is nil: no other run is  *)
(* active then.                                                            *)
LEMMA AcceptOK ==
  ASSUME IInv, NEW ctx, NEW mode, Accept(ctx, mode)
  PROVE  IInv'
<1> DEFINE n == started + 1
           y == [NoRun EXCEPT !.pc = "setup", !.ctx = ctx, !.mode = mode]
<1>1. started \in Nat /\ n \in 1..MaxRuns
  BY SessionAssumption DEF Accept, IInv, Counted
<1>2. Sound(y) /\ y.pc = "setup"
  BY DEF Sound, IsRun, Fields, Empty, NoRun
<1>3. run' = [run EXCEPT ![n] = y] /\ started' = n /\ current' = n /\ current = 0
  BY DEF Accept
<1>4. run = [q \in 1..MaxRuns |-> run[q]]
  BY DEF IInv, RunsSound
<1> HIDE DEF y
<1>5. \A q \in 1..MaxRuns : run'[q] = IF q = n THEN y ELSE run[q]
  BY <1>3, <1>4
<1>6. Counted'
  BY <1>1, <1>3, SessionAssumption DEF Counted
<1>7. RunsSound'
  BY <1>2, <1>3, <1>4, <1>5 DEF IInv, RunsSound
<1>8. NotYet'
  BY <1>1, <1>3, <1>5, SessionAssumption DEF IInv, NotYet
<1>9. ActiveIsCurrent'
  BY <1>1, <1>3, <1>5 DEF IInv, ActiveIsCurrent, Active
<1> QED
  BY <1>6, <1>7, <1>8, <1>9 DEF IInv

(* Cancelling a context moves no run, whichever run it belonged to.        *)
LEMMA CancelOK ==
  ASSUME IInv, NEW c, Cancel(c)
  PROVE  IInv'
<1> DEFINE t == caller[c].target
<1>1. run = [q \in 1..MaxRuns |-> run[q]] /\ \A q \in 1..MaxRuns : Sound(run[q])
  BY DEF IInv, RunsSound
<1>2. run' = [run EXCEPT ![t].cancelled = TRUE] /\ UNCHANGED <<started, current>>
  BY DEF Cancel
<1> HIDE DEF t
<1>3. \A q \in 1..MaxRuns : Sound([run[q] EXCEPT !.cancelled = TRUE])
                           /\ [run[q] EXCEPT !.cancelled = TRUE].pc = run[q].pc
  BY <1>1 DEF Sound, IsRun, Fields
<1>4. \A q \in 1..MaxRuns : run'[q] = run[q] \/ run'[q] = [run[q] EXCEPT !.cancelled = TRUE]
  BY <1>1, <1>2
<1>5. \A q \in 1..MaxRuns : Sound(run'[q]) /\ run'[q].pc = run[q].pc
  BY <1>1, <1>3, <1>4
<1>6. run' = [q \in 1..MaxRuns |-> run'[q]]
  BY <1>1, <1>2
<1>7. Counted' /\ RunsSound'
  BY <1>2, <1>5, <1>6 DEF IInv, Counted, RunsSound
<1>8. NotYet' /\ ActiveIsCurrent'
  BY <1>2, <1>5 DEF IInv, NotYet, ActiveIsCurrent, Active
<1> QED
  BY <1>7, <1>8 DEF IInv

(* Everything else a caller does leaves the runs alone.                    *)
LEMMA SameRuns ==
  ASSUME IInv, UNCHANGED <<run, started, current>>
  PROVE  IInv'
  BY DEF IInv, Counted, RunsSound, NotYet, ActiveIsCurrent, Active, Sound, IsRun

-----------------------------------------------------------------------------
(* Every step of the specification keeps the invariant.                    *)
LEMMA NextOK == IInv /\ [Next]_vars => IInv'
<1> SUFFICES ASSUME IInv, [Next]_vars PROVE IInv'
  OBVIOUS
<1>1. ASSUME NEW r \in 1..MaxRuns, RunSteps(r) \/ Incidents(r) PROVE IInv'
  BY <1>1, SetupOK, ServeOK, TeardownOK, EndOK DEF RunSteps, Incidents
<1>2. ASSUME NEW c, NEW ctx, NEW mode, Connect(c, ctx, mode) PROVE IInv'
  BY <1>2, AcceptOK DEF Connect
<1>3. ASSUME NEW c, NEW mode, RestoreConnect(c, mode) PROVE IInv'
  BY <1>3, AcceptOK, SameRuns DEF RestoreConnect
<1>4. ASSUME NEW c, NEW ctx, Refuse(c, ctx) PROVE IInv'
  BY <1>4, SameRuns DEF Refuse
<1>5. ASSUME NEW c, Disconnect(c) \/ Shutdown(c) \/ CopyState(c) \/ RestoreScan(c) PROVE IInv'
  BY <1>5, SameRuns DEF Disconnect, Shutdown, CopyState, RestoreScan
<1>6. ASSUME NEW c, CallerSteps(c) PROVE IInv'
  <2>1. CASE Cancel(c)
    BY <2>1, CancelOK
  <2>2. CASE ~Cancel(c)
    BY <2>2, <1>6, SameRuns DEF CallerSteps, PublishCopy, PersistShutdown, ReadState,
       Look, PublishIdle, Done, TimedOut, MarkDisconnected
  <2> QED
    BY <2>1, <2>2
<1>7. ASSUME NEW c, PublishCopy(c) PROVE IInv'
  BY <1>6, <1>7 DEF CallerSteps
<1>8. CASE UNCHANGED vars
  BY <1>8, SameRuns DEF vars
<1> QED
  BY <1>1, <1>2, <1>3, <1>4, <1>5, <1>6, <1>7, <1>8 DEF Next

(* For every number of callers, contexts, runs and attempts: two runs      *)
(* never own resources at the same time, and the one that owns some is the *)
(* one Disconnect would cancel (Manager.Connect, sessionRuntime.Close).    *)
THEOREM OneOwner == Spec => []OwnerIsCurrent
<1>1. Spec => []IInv
  BY InitOK, NextOK, PTL DEF Spec
<1> QED
  BY <1>1, Suffices, PTL

-----------------------------------------------------------------------------
(* The program.                                                            *)

(* The lines that publish Connected and that write the connected flag.     *)
ShowAt(mode) == IF mode = "socks" THEN 28 ELSE 32
KeepAt(mode) == ShowAt(mode) + 2
LastLine(mode) == ShowAt(mode) + 3

Ops == {"check", "log", "persist", "call", "publish"}

(* The line at i, as far as the argument depends on it; line is a record   *)
(* of the program.  What it registers comes last, with what that needs.    *)
LineFacts(mode, i, line) ==
    /\ line.op \in Ops
    /\ line.op = "publish" => line.phase \in Phases \ {"idle"} /\ i <= ShowAt(mode)
    /\ line.op \in {"check", "log", "persist"} => line.adds = <<>> /\ i # LastLine(mode)
    /\ i = 2 => line.op = "publish"
    /\ i <= 2 => line.adds = <<>>
    /\ i = 18 => line.adds = <<"forward">>
    /\ i = 23 => line.adds = <<"bridge">>
    /\ (mode = "tun" /\ i = 26) => line.adds = <<"routes">>
    /\ (mode = "tun" /\ i = 27) => line.adds = <<"core">>
    /\ i = ShowAt(mode) => line.op = "publish" /\ line.phase = "connected"
    /\ i = KeepAt(mode) => line.op = "persist"
    /\ \/ line.adds = <<>> \/ line.adds = <<"forward">> \/ line.adds = <<"routes">>
       \/ i > 18 /\ line.adds = <<"guard", "bridgectx">>
       \/ i > 18 /\ line.adds = <<"bridge">>
       \/ mode = "tun" /\ i > 26 /\ line.adds = <<"core">>
       \/ mode = "tun" /\ i > 27 /\ line.adds = <<"traffic", "restore">>
       \/ i > 23 /\ line.adds = <<"inventory">>

(* The fields of a line.                                                   *)
LEMMA LineFields ==
  /\ Check.op = "check" /\ Check.adds = <<>>
  /\ AppendLog.op = "log" /\ AppendLog.adds = <<>>
  /\ Persist.op = "persist" /\ Persist.adds = <<>>
  /\ \A adds : Call(adds).op = "call" /\ Call(adds).adds = adds
  /\ \A phase, adds : /\ Publish(phase, adds).op = "publish"
                      /\ Publish(phase, adds).phase = phase
                      /\ Publish(phase, adds).adds = adds
  BY DEF Check, AppendLog, Persist, Call, Publish

(* The twenty-five lines both modes share.                                 *)
LEMMA SetupLines ==
  /\ Len(Setup) = 25 /\ Setup \in Seq({Setup[i] : i \in 1..25})
  /\ \A mode \in {"tun", "socks"}, i \in 1..25 : LineFacts(mode, i, Setup[i])
<1>1. Len(Setup) = 25 /\ Setup \in Seq({Setup[i] : i \in 1..25})
  BY DEF Setup
<1>2. \A i \in {1, 5, 11, 15, 20, 25} : Setup[i] = Check
  BY SMTT(30) DEF Setup
<1>3. \A i \in {3, 7, 12, 17, 19, 22, 24} : Setup[i] = AppendLog
  BY SMTT(30) DEF Setup
<1>4. \A i \in {4, 8, 10, 14} : Setup[i] = Call(<<>>)
  BY SMTT(30) DEF Setup
<1>5. \A i \in {2, 6, 9, 13, 16} : \E phase \in Phases \ {"idle"} : Setup[i] = Publish(phase, <<>>)
  BY SMTT(30) DEF Setup, Phases
<1>6. /\ Setup[18] = Call(<<"forward">>) /\ Setup[21] = Call(<<"guard", "bridgectx">>)
      /\ Setup[23] = Call(<<"bridge">>)
  BY DEF Setup
<1> SUFFICES ASSUME NEW mode \in {"tun", "socks"}, NEW i \in 1..25
             PROVE  LineFacts(mode, i, Setup[i])
  BY <1>1
<1>7. ShowAt(mode) \in {28, 32} /\ KeepAt(mode) > 25 /\ LastLine(mode) > 25
  BY DEF ShowAt, KeepAt, LastLine
<1>8. CASE i \in {1, 5, 11, 15, 20, 25}
  BY <1>2, <1>7, <1>8, LineFields DEF LineFacts, Ops
<1>9. CASE i \in {3, 7, 12, 17, 19, 22, 24}
  BY <1>3, <1>7, <1>9, LineFields DEF LineFacts, Ops
<1>10. CASE i \in {4, 8, 10, 14}
  BY <1>4, <1>7, <1>10, LineFields DEF LineFacts, Ops
<1>11. CASE i \in {2, 6, 9, 13, 16}
  BY <1>5, <1>7, <1>11, LineFields DEF LineFacts, Ops
<1>12. CASE i \in {18, 21, 23}
  BY <1>6, <1>7, <1>12, LineFields DEF LineFacts, Ops
<1> QED
  BY <1>8, <1>9, <1>10, <1>11, <1>12

LEMMA SocksLines ==
  /\ Len(SocksTail) = 6 /\ SocksTail \in Seq({SocksTail[i] : i \in 1..6})
  /\ \A i \in 1..6 : LineFacts("socks", i + 25, SocksTail[i])
<1>1. Len(SocksTail) = 6 /\ SocksTail \in Seq({SocksTail[i] : i \in 1..6})
  BY DEF SocksTail
<1>2. /\ SocksTail[1] = Call(<<>>) /\ SocksTail[2] = AppendLog
      /\ SocksTail[3] = Publish("connected", <<>>) /\ SocksTail[4] = AppendLog
      /\ SocksTail[5] = Persist /\ SocksTail[6] = Call(<<"inventory">>)
  BY DEF SocksTail
<1> SUFFICES ASSUME NEW i \in 1..6 PROVE LineFacts("socks", i + 25, SocksTail[i])
  BY <1>1
<1>3. ShowAt("socks") = 28 /\ KeepAt("socks") = 30 /\ LastLine("socks") = 31
  BY DEF ShowAt, KeepAt, LastLine
<1>4. CASE i \in {2, 4, 5}
  BY <1>2, <1>3, <1>4, LineFields DEF LineFacts, Ops
<1>5. CASE i \in {1, 6}
  BY <1>2, <1>3, <1>5, LineFields DEF LineFacts, Ops
<1>6. CASE i = 3
  BY <1>2, <1>3, <1>6, LineFields DEF LineFacts, Ops, Phases
<1> QED
  BY <1>4, <1>5, <1>6

LEMMA TunLines ==
  /\ Len(TunTail) = 10 /\ TunTail \in Seq({TunTail[i] : i \in 1..10})
  /\ \A i \in 1..10 : LineFacts("tun", i + 25, TunTail[i])
<1>1. Len(TunTail) = 10 /\ TunTail \in Seq({TunTail[i] : i \in 1..10})
  BY DEF TunTail
<1>2. /\ TunTail[1] = Publish("starting", <<"routes">>) /\ TunTail[2] = Call(<<"core">>)
      /\ TunTail[3] = AppendLog /\ TunTail[4] = Check
      /\ TunTail[5] = Call(<<"traffic", "restore">>) /\ TunTail[6] = AppendLog
      /\ TunTail[7] = Publish("connected", <<>>) /\ TunTail[8] = AppendLog
      /\ TunTail[9] = Persist /\ TunTail[10] = Call(<<"inventory">>)
  BY DEF TunTail
<1> SUFFICES ASSUME NEW i \in 1..10 PROVE LineFacts("tun", i + 25, TunTail[i])
  BY <1>1
<1>3. ShowAt("tun") = 32 /\ KeepAt("tun") = 34 /\ LastLine("tun") = 35
  BY DEF ShowAt, KeepAt, LastLine
<1>4. CASE i \in {3, 4, 6, 8, 9}
  BY <1>2, <1>3, <1>4, LineFields DEF LineFacts, Ops
<1>5. CASE i \in {2, 5, 10}
  BY <1>2, <1>3, <1>5, LineFields DEF LineFacts, Ops
<1>6. CASE i \in {1, 7}
  BY <1>2, <1>3, <1>6, LineFields DEF LineFacts, Ops, Phases
<1> QED
  BY <1>4, <1>5, <1>6

(* A tail behind the shared lines.                                         *)
LEMMA Behind ==
  ASSUME NEW mode \in {"tun", "socks"}, NEW S, NEW tail \in Seq(S), NEW n \in Nat,
         Len(tail) = n, \A i \in 1..n : LineFacts(mode, i + 25, tail[i])
  PROVE  /\ Len(Setup \o tail) = 25 + n
         /\ \A i \in 1..(25 + n) : LineFacts(mode, i, (Setup \o tail)[i])
<1> DEFINE A == {Setup[i] : i \in 1..25}
           U == A \cup S
<1>1. Setup \in Seq(A) /\ Len(Setup) = 25
  BY SetupLines
<1> HIDE DEF A
<1>2. Setup \in Seq(U) /\ tail \in Seq(U)
  BY <1>1, SeqMonotonic
<1> HIDE DEF U
<1>3. /\ Len(Setup \o tail) = 25 + n
      /\ \A i \in 1..(25 + n) :
           (Setup \o tail)[i] = IF i <= 25 THEN Setup[i] ELSE tail[i - 25]
  <2>1. /\ Len(Setup \o tail) = Len(Setup) + Len(tail)
        /\ \A i \in 1..Len(Setup) + Len(tail) : (Setup \o tail)[i] =
             IF i <= Len(Setup) THEN Setup[i] ELSE tail[i - Len(Setup)]
    BY <1>2, ConcatProperties
  <2> QED
    BY <1>1, <2>1, Zenon
<1> SUFFICES ASSUME NEW i \in 1..(25 + n) PROVE LineFacts(mode, i, (Setup \o tail)[i])
  BY <1>3
<1>4. CASE i <= 25
  <2>1. (Setup \o tail)[i] = Setup[i] /\ i \in 1..25
    BY <1>3, <1>4
  <2> QED
    BY <2>1, SetupLines
<1>5. CASE i > 25
  <2>1. PICK k : k = i - 25
    OBVIOUS
  <2>2. (Setup \o tail)[i] = tail[k] /\ k \in 1..n /\ i = k + 25
    BY <2>1, <1>3, <1>5
  <2> QED
    BY <2>2
<1>6. i <= 25 \/ i > 25
  OBVIOUS
<1> QED
  BY <1>4, <1>5, <1>6, Zenon

(* The program of either mode, line by line.                               *)
LEMMA ProgramLines ==
  ASSUME NEW mode \in {"tun", "socks"}
  PROVE  /\ Len(Program(mode)) = LastLine(mode)
         /\ \A i \in 1..LastLine(mode) : LineFacts(mode, i, Program(mode)[i])
<1>1. CASE mode = "socks"
  <2>1. /\ Len(Setup \o SocksTail) = 25 + 6
        /\ \A i \in 1..(25 + 6) : LineFacts("socks", i, (Setup \o SocksTail)[i])
    BY SocksLines, Behind, ZenonT(40)
  <2>2. Program(mode) = Setup \o SocksTail /\ LastLine(mode) = 25 + 6
    BY <1>1 DEF Program, LastLine, ShowAt
  <2> QED
    BY <1>1, <2>1, <2>2
<1>2. CASE mode = "tun"
  <2>1. /\ Len(Setup \o TunTail) = 25 + 10
        /\ \A i \in 1..(25 + 10) : LineFacts("tun", i, (Setup \o TunTail)[i])
    BY TunLines, Behind
  <2>2. Program(mode) = Setup \o TunTail /\ LastLine(mode) = 25 + 10
    BY <1>2 DEF Program, LastLine, ShowAt
  <2> QED
    BY <1>2, <2>1, <2>2
<1> QED
  BY <1>1, <1>2

-----------------------------------------------------------------------------
(* The stack of resources.                                                 *)
Has(s, name) == \E i \in 1..Len(s) : s[i] = name

(* What a resource needs was registered before it.                         *)
Ordered(s) == \A i \in 1..Len(s) : \A n \in Needs :
    s[i] = n[1] => \E j \in 1..(i - 1) : s[j] = n[2]
Met(a, s) == \A n \in Needs : n[1] = a => Has(s, n[2])

(* sessionRuntime.Add of one resource whose needs are there.               *)
LEMMA Push ==
  ASSUME NEW s \in Seq(Resources), Ordered(s), NEW a \in Resources, Met(a, s)
  PROVE  /\ Append(s, a) \in Seq(Resources) /\ Ordered(Append(s, a))
         /\ Has(Append(s, a), a) /\ \A name : Has(s, name) => Has(Append(s, a), name)
<1> DEFINE t == Append(s, a)
<1>1. /\ t \in Seq(Resources) /\ Len(t) = Len(s) + 1 /\ Len(s) \in Nat
      /\ \A i \in 1..Len(s) : t[i] = s[i]
      /\ t[Len(s) + 1] = a
  OBVIOUS
<1> HIDE DEF t
<1>2. Has(t, a) /\ \A name : Has(s, name) => Has(t, name)
  BY <1>1 DEF Has
<1>3. Ordered(t)
  <2> SUFFICES ASSUME NEW i \in 1..Len(t), NEW n \in Needs, t[i] = n[1]
               PROVE  \E j \in 1..(i - 1) : t[j] = n[2]
    BY DEF Ordered
  <2>1. CASE i <= Len(s)
    BY <2>1, <1>1 DEF Ordered
  <2>2. CASE i = Len(s) + 1
    <3>1. Has(s, n[2])
      BY <2>2, <1>1 DEF Met
    <3> QED
      BY <3>1, <2>2, <1>1 DEF Has
  <2> QED
    BY <2>1, <2>2, <1>1
<1> QED
  BY <1>1, <1>2, <1>3 DEF t

(* A batch of the program is one or two of them.                           *)
LEMMA Batch ==
  ASSUME NEW s \in Seq(Resources), NEW a \in Resources, NEW b \in Resources
  PROVE  /\ s \o <<>> = s /\ s \o <<a>> = Append(s, a)
         /\ s \o <<a, b>> = Append(Append(s, a), b)
  OBVIOUS

(* What each resource needs.                                               *)
LEMMA MetOf ==
  ASSUME NEW s
  PROVE  /\ Met("forward", s) /\ Met("routes", s)
         /\ Has(s, "guard") => Met("bridgectx", s)
         /\ Has(s, "forward") => Met("guard", s) /\ Met("bridge", s)
         /\ Has(s, "bridge") /\ Has(s, "routes") => Met("core", s)
         /\ Has(s, "core") => Met("traffic", s)
         /\ Has(s, "bridge") => Met("restore", s) /\ Met("inventory", s)
  BY DEF Met, Needs

(* sessionRuntime.Close, last first.                                       *)
LEMMA Pop ==
  ASSUME NEW s \in Seq(Resources), Ordered(s), s # <<>>
  PROVE  LET t == SubSeq(s, 1, Len(s) - 1)
         IN /\ t \in Seq(Resources) /\ Ordered(t)
            /\ \A name : Has(s, name) /\ Last(s) # name => Has(t, name)
<1> DEFINE t == SubSeq(s, 1, Len(s) - 1)
<1>1. /\ t \in Seq(Resources) /\ Len(s) \in Nat \ {0} /\ Len(t) = Len(s) - 1
      /\ \A i \in 1..(Len(s) - 1) : t[i] = s[i]
  <2>1. Len(s) \in Nat \ {0}
    BY EmptySeq
  <2>2. PICK n \in Int : n = Len(s) - 1
    BY <2>1
  <2>3. \A i \in 1..n : s[i] \in Resources
    BY <2>1, <2>2
  <2>4. /\ SubSeq(s, 1, n) \in Seq(Resources)
        /\ Len(SubSeq(s, 1, n)) = IF 1 <= n THEN n - 1 + 1 ELSE 0
        /\ \A i \in 1..(n - 1 + 1) : SubSeq(s, 1, n)[i] = s[1 + i - 1]
    BY <2>3, SubSeqProperties
  <2>5. t = SubSeq(s, 1, n) /\ \A i \in 1..n : 1 + i - 1 = i
    BY <2>2
  <2> HIDE DEF t
  <2> QED
    BY <2>1, <2>2, <2>4, <2>5
<1> HIDE DEF t
<1>2. Ordered(t)
  <2> SUFFICES ASSUME NEW i \in 1..Len(t), NEW n \in Needs, t[i] = n[1]
               PROVE  \E j \in 1..(i - 1) : t[j] = n[2]
    BY DEF Ordered
  <2>1. PICK j \in 1..(i - 1) : s[j] = n[2]
    BY <1>1 DEF Ordered
  <2> QED
    BY <2>1, <1>1
<1>3. \A name : Has(s, name) /\ Last(s) # name => Has(t, name)
  <2> SUFFICES ASSUME NEW name, Has(s, name), Last(s) # name PROVE Has(t, name)
    OBVIOUS
  <2>1. PICK i \in 1..Len(s) : s[i] = name
    BY DEF Has
  <2>2. i \in 1..Len(t)
    BY <2>1, <1>1 DEF Last
  <2> QED
    BY <2>1, <2>2, <1>1 DEF Has
<1> QED
  BY <1>1, <1>2, <1>3 DEF t

(* What the lines before line i have registered.                           *)
Passed(mode, i, s) ==
    /\ i <= 2 => s = <<>>
    /\ i > 18 => Has(s, "forward")
    /\ i > 23 => Has(s, "bridge")
    /\ (mode = "tun" /\ i > 26) => Has(s, "routes")
    /\ (mode = "tun" /\ i > 27) => Has(s, "core")

(* One line more.                                                          *)
LEMMA Grow ==
  ASSUME NEW mode, NEW i \in Nat \ {0}, NEW line, LineFacts(mode, i, line),
         NEW s \in Seq(Resources), Ordered(s), Passed(mode, i, s)
  PROVE  LET t == s \o line.adds
         IN /\ t \in Seq(Resources) /\ Ordered(t) /\ Passed(mode, i + 1, t)
            /\ \A name : Has(s, name) => Has(t, name)
            /\ (line.adds # <<>> /\ line.adds[1] = "guard") => Has(t, "guard")
<1> DEFINE t == s \o line.adds
           Goal == /\ t \in Seq(Resources) /\ Ordered(t)
                   /\ \A name : Has(s, name) => Has(t, name)
                   /\ (line.adds # <<>> /\ line.adds[1] = "guard") => Has(t, "guard")
                   /\ \A a : line.adds = <<a>> => Has(t, a)
<1>1. Goal
  <2>1. CASE line.adds = <<>>
    <3>1. t = s /\ Len(line.adds) = 0
      BY <2>1, Batch
    <3>2. \A a : Len(<<a>>) = 1
      OBVIOUS
    <3> QED
      BY <2>1, <3>1, <3>2
  <2>2. ASSUME NEW a \in Resources, line.adds = <<a>>, Met(a, s) PROVE Goal
    <3>1. t = Append(s, a)
      BY <2>2, Batch
    <3>2. \A b : line.adds = <<b>> => b = a
      BY <2>2
    <3>3. line.adds[1] = a
      BY <2>2
    <3> HIDE DEF t
    <3> QED
      BY <2>2, <3>1, <3>2, <3>3, Push
  <2>3. ASSUME NEW a \in Resources, NEW b \in Resources, line.adds = <<a, b>>,
               Met(a, s), Has(Append(s, a), a) => Met(b, Append(s, a))
        PROVE  Goal
    <3>1. t = Append(Append(s, a), b)
      BY <2>3, Batch
    <3>2. /\ Append(s, a) \in Seq(Resources) /\ Ordered(Append(s, a))
          /\ Has(Append(s, a), a) /\ \A name : Has(s, name) => Has(Append(s, a), name)
      BY <2>3, Push
    <3>3. /\ t \in Seq(Resources) /\ Ordered(t)
          /\ \A name : Has(Append(s, a), name) => Has(t, name)
      <4>1. PICK u \in Seq(Resources) : u = Append(s, a) /\ Ordered(u) /\ Met(b, u)
        BY <2>3, <3>2
      <4>2. /\ Append(u, b) \in Seq(Resources) /\ Ordered(Append(u, b))
            /\ \A name : Has(u, name) => Has(Append(u, b), name)
        BY <4>1, Push
      <4> QED
        BY <3>1, <4>1, <4>2
    <3>4. line.adds[1] = a /\ \A c : line.adds # <<c>>
      BY <2>3
    <3> HIDE DEF t
    <3> QED
      BY <3>2, <3>3, <3>4
  <2> HIDE DEF Goal
  <2>4. Resources = {"forward", "guard", "bridgectx", "bridge", "routes", "core",
                     "traffic", "restore", "inventory"}
    BY DEF Resources
  <2>5. CASE line.adds = <<"forward">> \/ line.adds = <<"routes">>
    BY <2>2, <2>4, <2>5, MetOf
  <2>6. CASE i > 18 /\ line.adds = <<"guard", "bridgectx">>
    <3>1. Met("guard", s)
      BY <2>6, MetOf DEF Passed
    <3>2. Has(Append(s, "guard"), "guard") => Met("bridgectx", Append(s, "guard"))
      BY MetOf
    <3> QED
      BY <2>3, <2>4, <2>6, <3>1, <3>2
  <2>7. CASE i > 18 /\ line.adds = <<"bridge">>
    <3>1. Met("bridge", s)
      BY <2>7, MetOf DEF Passed
    <3> QED
      BY <2>2, <2>4, <2>7, <3>1
  <2>8. CASE mode = "tun" /\ i > 26 /\ line.adds = <<"core">>
    <3>1. Met("core", s)
      BY <2>8, MetOf DEF Passed
    <3> QED
      BY <2>2, <2>4, <2>8, <3>1
  <2>9. CASE mode = "tun" /\ i > 27 /\ line.adds = <<"traffic", "restore">>
    <3>1. Has(s, "bridge") /\ Met("traffic", s)
      BY <2>9, MetOf DEF Passed
    <3>2. Has(Append(s, "traffic"), "bridge")
      BY <3>1, <2>4, Push
    <3>3. Met("restore", Append(s, "traffic"))
      BY <3>2, MetOf
    <3> QED
      BY <2>3, <2>4, <2>9, <3>1, <3>3
  <2>10. CASE i > 23 /\ line.adds = <<"inventory">>
    <3>1. Met("inventory", s)
      BY <2>10, MetOf DEF Passed
    <3> QED
      BY <2>2, <2>4, <2>10, <3>1
  <2> QED
    BY <2>1, <2>5, <2>6, <2>7, <2>8, <2>9, <2>10 DEF LineFacts
<1>2. i + 1 <= 2 => t = <<>>
  <2>1. i <= 2 => s = <<>> /\ line.adds = <<>>
    BY DEF Passed, LineFacts
  <2> QED
    BY <2>1, Batch
<1> HIDE DEF t
<1>3. Passed(mode, i + 1, t)
  BY <1>1, <1>2 DEF Passed, LineFacts
<1> QED
  BY <1>1, <1>3 DEF t

-----------------------------------------------------------------------------
(* The records of runs and callers.                                        *)
RunRec == [pc : RunPcs, ret : RunPcs, at : 1..36, ctx : Contexts \cup {NoContext},
           mode : Modes \cup {"none"}, cancelled : BOOLEAN, copy : States \cup {NoState},
           res : Seq(Resources), up : BOOLEAN, tries : 0..(RecoveryAttempts - 1),
           losses : 0..MaxLosses]
CallRec == [pc : {"scan", "plan", "over", "free", "log", "persist", "state", "look",
                  "publish", "cancel", "wait", "mark", "returned"},
            clear : BOOLEAN, seen : States \cup {NoState}, target : 0..MaxRuns]

(* The run is at p, or logs on its way there.                              *)
At(x, p) == x.pc = p \/ (x.pc = "log" /\ x.ret = p)

InProgram(x) == x.mode \in Modes /\ x.at \in 1..LastLine(x.mode) /\ Passed(x.mode, x.at, x.res)

Stacked(x) ==
    /\ x \in RunRec /\ Ordered(x.res)
    /\ x.up => Has(x.res, "guard")
    /\ x.pc # "none" => x.ctx \in Contexts
    /\ x.pc \in {"log", "idle"} => x.copy \in States
    /\ At(x, "setup") => InProgram(x)

Calling(c) == /\ caller[c].pc = "log" => caller[c].seen \in States
              /\ caller[c].pc = "plan" => caller[c].seen.ctx \in Contexts

StackInv ==
    /\ state \in States /\ current \in 0..MaxRuns
    /\ \A r \in 1..MaxRuns : Stacked(run[r])
    /\ caller \in [Callers \cup Restorers -> CallRec]
    /\ \A c \in Callers \cup Restorers : Calling(c)
    /\ stored \in [Contexts -> BOOLEAN] /\ last \in Contexts \cup {NoContext}
    /\ quitting \in BOOLEAN

(* What no step of a run changes of its record.                            *)
Keeps(x, y) == y.ctx = x.ctx /\ y.mode = x.mode /\ y.cancelled = x.cancelled

(* The next line, or serve after the last.                                 *)
Onward(x, y) ==
    \/ x.at < LastLine(x.mode) /\ At(y, "setup") /\ y.at = x.at + 1
    \/ x.at = LastLine(x.mode) /\ y.pc = "serve"

LEMMA ModeLines ==
  ASSUME NEW mode \in Modes
  PROVE  /\ mode \in {"tun", "socks"} /\ LastLine(mode) \in 31..35
         /\ ShowAt(mode) \in 28..32 /\ KeepAt(mode) = ShowAt(mode) + 2
         /\ LastLine(mode) = ShowAt(mode) + 3
  BY SessionAssumption DEF LastLine, KeepAt, ShowAt

(* Logging.                                                                *)
LEMMA LoggingRec ==
  ASSUME NEW x \in RunRec, NEW ret \in RunPcs, state \in States
  PROVE  LET y == Logging(x, ret)
         IN /\ y \in RunRec /\ Keeps(x, y)
            /\ y.pc = "log" /\ y.ret = ret /\ y.copy = state
            /\ y.at = x.at /\ y.res = x.res /\ y.up = x.up
<1>1. PICK y : y = [x EXCEPT !.pc = "log", !.ret = ret, !.copy = state]
  OBVIOUS
<1>2. "log" \in RunPcs /\ state \in States \cup {NoState}
  BY DEF RunPcs
<1>3. y \in RunRec
  BY <1>1, <1>2 DEF RunRec
<1>4. /\ y.pc = "log" /\ y.ret = ret /\ y.copy = state
      /\ y.at = x.at /\ y.res = x.res /\ y.up = x.up /\ Keeps(x, y)
  BY <1>1 DEF RunRec, Keeps
<1> QED
  BY <1>1, <1>3, <1>4 DEF Logging

(* Advance.                                                                *)
LEMMA AdvanceRec ==
  ASSUME NEW x \in RunRec, x.pc = "setup", x.mode \in Modes, x.at \in 1..LastLine(x.mode)
  PROVE  LET y == Advance(x)
         IN /\ y \in RunRec /\ Keeps(x, y) /\ Onward(x, y)
            /\ y.pc = (IF x.at = LastLine(x.mode) THEN "serve" ELSE "setup")
            /\ y.res = x.res /\ y.up = x.up
<1> DEFINE next == [x EXCEPT !.at = @ + 1]
           serve == [next EXCEPT !.pc = "serve"]
<1>1. x.at \in 1..35 /\ Len(Program(x.mode)) = LastLine(x.mode) /\ LastLine(x.mode) \in 31..35
  <2>1. PICK mode \in Modes : mode = x.mode
    OBVIOUS
  <2>2. mode \in {"tun", "socks"} /\ LastLine(mode) \in 31..35
    BY ModeLines
  <2>3. Len(Program(mode)) = LastLine(mode)
    BY <2>2, ProgramLines
  <2>4. Len(Program(x.mode)) = LastLine(x.mode) /\ LastLine(x.mode) \in 31..35
    BY <2>1, <2>2, <2>3, Zenon
  <2>5. PICK n \in 31..35 : n = LastLine(x.mode) /\ x.at \in 1..n
    BY <2>4, Zenon
  <2>6. x.at \in 1..35
    BY <2>5
  <2> QED
    BY <2>4, <2>6
<1>2. /\ next \in RunRec /\ Keeps(x, next) /\ next.at = x.at + 1 /\ next.pc = "setup"
      /\ next.res = x.res /\ next.up = x.up
  <2>1. PICK i : i = x.at + 1
    OBVIOUS
  <2>2. next = [x EXCEPT !.at = i]
    BY <2>1, Zenon
  <2>3. i \in 1..36
    <3>1. PICK k \in 1..35 : k = x.at
      BY <1>1, Zenon
    <3>2. i = k + 1
      BY <2>1, <3>1, Zenon
    <3> QED
      BY <3>2
  <2> HIDE DEF next
  <2> QED
    BY <2>1, <2>2, <2>3 DEF RunRec, Keeps
<1>3. Advance(x) = IF next.at > Len(Program(x.mode)) THEN serve ELSE next
  BY DEF Advance
<1> HIDE DEF next
<1>4. /\ serve \in RunRec /\ Keeps(x, serve) /\ serve.at = x.at + 1 /\ serve.pc = "serve"
      /\ serve.res = x.res /\ serve.up = x.up
  BY <1>2 DEF RunRec, Keeps, RunPcs
<1> HIDE DEF serve
<1>5. CASE x.at = LastLine(x.mode)
  BY <1>1, <1>2, <1>3, <1>4, <1>5 DEF Onward
<1>6. CASE x.at < LastLine(x.mode)
  BY <1>1, <1>2, <1>3, <1>6 DEF Onward, At
<1> QED
  BY <1>1, <1>5, <1>6

(* Register.                                                               *)
LEMMA RegisterRec ==
  ASSUME NEW x \in RunRec, NEW adds, x.res \o adds \in Seq(Resources)
  PROVE  LET y == Register(x, adds)
         IN /\ y \in RunRec /\ Keeps(x, y)
            /\ y.pc = x.pc /\ y.at = x.at /\ y.res = x.res \o adds
            /\ y.up => x.up \/ (adds # <<>> /\ adds[1] = "guard")
<1> DEFINE res == x.res \o adds
           up == IF adds # <<>> /\ adds[1] = "guard" THEN TRUE ELSE x.up
<1>1. Register(x, adds) = [x EXCEPT !.res = res, !.up = up]
  BY DEF Register
<1>2. up \in BOOLEAN /\ (up => x.up \/ (adds # <<>> /\ adds[1] = "guard"))
  BY DEF RunRec
<1>3. res \in Seq(Resources)
  OBVIOUS
<1>4. res = x.res \o adds
  OBVIOUS
<1> HIDE DEF res, up
<1>5. PICK y : y = [x EXCEPT !.res = res, !.up = up]
  OBVIOUS
<1>6. /\ y \in RunRec /\ Keeps(x, y) /\ y.pc = x.pc /\ y.at = x.at /\ y.res = res
      /\ y.up = up
  BY <1>2, <1>3, <1>5 DEF RunRec, Keeps
<1> QED
  BY <1>1, <1>2, <1>4, <1>5, <1>6

(* A line of the program: the record after it, with and without what the   *)
(* line registers.                                                         *)
LEMMA NextLine ==
  ASSUME NEW x, Stacked(x), x.pc = "setup", NEW line, line = Program(x.mode)[x.at]
  PROVE  /\ LineFacts(x.mode, x.at, line)
         /\ LET y == Advance(Register(x, line.adds))
            IN Stacked(y) /\ Keeps(x, y) /\ Onward(x, y) /\ y.pc \in {"setup", "serve"}
         /\ line.op \in {"check", "log", "persist"} =>
              LET z == Advance(x)
              IN Stacked(z) /\ Keeps(x, z) /\ Onward(x, z) /\ z.pc = "setup" /\ z.res = x.res
<1>1. x \in RunRec /\ Ordered(x.res) /\ (x.up => Has(x.res, "guard")) /\ x.ctx \in Contexts
  BY DEF Stacked
<1>2. InProgram(x)
  BY DEF Stacked, At
<1>3. PICK mode, i : mode = x.mode /\ i = x.at
  OBVIOUS
<1>4. /\ mode \in {"tun", "socks"} /\ mode \in Modes /\ i \in 1..LastLine(mode)
      /\ Passed(mode, i, x.res) /\ LastLine(mode) \in 31..35
  BY <1>2, <1>3, ModeLines DEF InProgram
<1>5. LineFacts(mode, i, line)
  BY <1>3, <1>4, ProgramLines
<1>6. i \in Nat \ {0} /\ x.res \in Seq(Resources)
  BY <1>1, <1>4 DEF RunRec
<1>7. ASSUME NEW w \in RunRec, w.pc = "setup", w.mode = mode, w.at = i, Keeps(x, w),
             Ordered(w.res), Passed(mode, i + 1, w.res), w.up => Has(w.res, "guard")
      PROVE  LET y == Advance(w)
             IN /\ Stacked(y) /\ Keeps(x, y) /\ Onward(x, y) /\ y.res = w.res
                /\ y.pc = (IF i = LastLine(mode) THEN "serve" ELSE "setup")
  <2>1. PICK y : y = Advance(w)
    OBVIOUS
  <2>2. /\ y \in RunRec /\ Keeps(w, y) /\ Onward(w, y) /\ y.res = w.res /\ y.up = w.up
        /\ y.pc = (IF i = LastLine(mode) THEN "serve" ELSE "setup")
    BY <1>4, <1>7, <2>1, AdvanceRec, Zenon
  <2>3. Keeps(x, y)
    BY <2>2, <1>7 DEF Keeps
  <2>4. Onward(x, y)
    BY <2>2, <1>3, <1>7, Zenon DEF Onward
  <2>5. At(y, "setup") => InProgram(y)
    <3> SUFFICES ASSUME At(y, "setup") PROVE InProgram(y)
      OBVIOUS
    <3>1. y.pc = "setup" /\ i # LastLine(mode)
      BY <2>2 DEF At
    <3>2. y.at = i + 1 /\ y.mode = mode /\ y.res = w.res
      BY <2>2, <1>7, <3>1, Zenon DEF Onward, Keeps
    <3>3. PICK n \in 31..35 : n = LastLine(mode)
      BY <1>4, Zenon
    <3>4. i \in 1..n /\ i # n
      BY <1>4, <3>1, <3>3, Zenon
    <3>5. i + 1 \in 1..n
      BY <3>3, <3>4
    <3>6. y.at \in 1..LastLine(y.mode) /\ y.mode \in Modes /\ Passed(y.mode, y.at, y.res)
      BY <3>2, <3>3, <3>5, <1>4, <1>7, Zenon
    <3> QED
      BY <3>6, Zenon DEF InProgram
  <2>6. Ordered(y.res) /\ (y.up => Has(y.res, "guard"))
    BY <2>2, <1>7, Zenon
  <2>7. y.ctx \in Contexts
    BY <2>3, <1>1 DEF Keeps
  <2>8. Stacked(y)
    <3>1. y.pc \notin {"log", "idle"}
      BY <2>2
    <3> QED
      BY <3>1, <2>2, <2>5, <2>6, <2>7, Zenon DEF Stacked
  <2> QED
    BY <2>1, <2>2, <2>3, <2>4, <2>8, Zenon
<1>8. LET y == Advance(Register(x, line.adds))
      IN Stacked(y) /\ Keeps(x, y) /\ Onward(x, y) /\ y.pc \in {"setup", "serve"}
  <2>1. PICK s : s = x.res \o line.adds
    OBVIOUS
  <2>2. /\ s \in Seq(Resources) /\ Ordered(s) /\ Passed(mode, i + 1, s)
        /\ (Has(x.res, "guard") => Has(s, "guard"))
        /\ (line.adds # <<>> /\ line.adds[1] = "guard") => Has(s, "guard")
    BY <1>1, <1>4, <1>5, <1>6, <2>1, Grow, Zenon
  <2>3. PICK w : w = Register(x, line.adds)
    OBVIOUS
  <2>4. /\ w \in RunRec /\ Keeps(x, w) /\ w.pc = x.pc /\ w.at = x.at /\ w.res = s
        /\ w.up => x.up \/ (line.adds # <<>> /\ line.adds[1] = "guard")
    BY <1>1, <2>1, <2>2, <2>3, RegisterRec, Zenon
  <2>5. w.mode = mode
    BY <2>4, <1>3 DEF Keeps
  <2>6. w.up => Has(w.res, "guard")
    BY <2>2, <2>4, <1>1, Zenon
  <2>7. /\ Stacked(Advance(w)) /\ Keeps(x, Advance(w)) /\ Onward(x, Advance(w))
        /\ Advance(w).pc = (IF i = LastLine(mode) THEN "serve" ELSE "setup")
    BY <1>3, <1>7, <2>2, <2>4, <2>5, <2>6, Zenon
  <2> QED
    BY <2>3, <2>7
<1>9. ASSUME line.op \in {"check", "log", "persist"}
      PROVE  LET z == Advance(x)
             IN Stacked(z) /\ Keeps(x, z) /\ Onward(x, z) /\ z.pc = "setup" /\ z.res = x.res
  <2>1. line.adds = <<>> /\ i # LastLine(mode)
    BY <1>5, <1>9 DEF LineFacts
  <2>2. x.res \o <<>> = x.res
    BY <1>6, ConcatEmptySeq
  <2>3. Passed(mode, i + 1, x.res)
    <3>1. PICK s : s = x.res \o line.adds
      OBVIOUS
    <3>2. Passed(mode, i + 1, s)
      BY <1>1, <1>4, <1>5, <1>6, <3>1, Grow, Zenon
    <3> QED
      BY <2>1, <2>2, <3>1, <3>2, Zenon
  <2>4. Keeps(x, x)
    BY DEF Keeps
  <2> QED
    BY <1>1, <1>3, <1>7, <2>1, <2>3, <2>4, Zenon
<1> QED
  BY <1>3, <1>5, <1>8, <1>9, Zenon

(* The lines that register nothing.                                        *)
LEMMA PlainLine ==
  ASSUME NEW x, Stacked(x), x.pc = "setup", NEW line, line = Program(x.mode)[x.at],
         line.op \in {"check", "log", "persist"}, NEW z, z = Advance(x)
  PROVE  /\ LineFacts(x.mode, x.at, line)
         /\ Stacked(z) /\ Keeps(x, z) /\ Onward(x, z) /\ z.pc = "setup" /\ z.res = x.res
  BY NextLine

(* A step that registers nothing and moves to another place.               *)
LEMMA Quiet ==
  ASSUME NEW x, Stacked(x), x.pc # "none", NEW y \in RunRec, Keeps(x, y),
         y.res = x.res, y.up = x.up, At(y, "setup") => At(x, "setup") /\ y.at = x.at,
         y.pc \in {"log", "idle"} => y.copy \in States
  PROVE  Stacked(y)
<1>1. y.ctx \in Contexts /\ y.mode = x.mode
  BY DEF Stacked, Keeps
<1>2. At(y, "setup") => InProgram(y)
  BY <1>1, Zenon DEF InProgram, Stacked
<1> QED
  BY <1>1, <1>2, Zenon DEF Stacked

-----------------------------------------------------------------------------
(* What each action of a run makes of its record.                          *)
Moved(r) == /\ run' = [run EXCEPT ![r] = run'[r]]
            /\ Stacked(run'[r]) /\ Keeps(run[r], run'[r])

(* The run has copied the state for a log, on the way to ret.              *)
Logged(y, ret) == y.pc = "log" /\ y.ret = ret /\ y.copy = state

LEMMA Replace ==
  ASSUME IInv, NEW r \in 1..MaxRuns, NEW y, run' = [run EXCEPT ![r] = y]
  PROVE  run'[r] = y /\ run' = [run EXCEPT ![r] = run'[r]]
  BY DEF IInv, RunsSound

LEMMA CheckEffect ==
  ASSUME IInv, StackInv, NEW r \in 1..MaxRuns, CheckContext(r)
  PROVE  /\ Moved(r) /\ LineFacts(run[r].mode, run[r].at, Step(r)) /\ run'[r].res = run[r].res
         /\ \/ run[r].cancelled /\ run'[r].pc = "close"
            \/ Onward(run[r], run'[r]) /\ run'[r].pc = "setup"
<1>1. PICK x : x = run[r]
  OBVIOUS
<1>2. Stacked(x) /\ x.pc = "setup" /\ Step(r).op = "check" /\ Step(r) = Program(x.mode)[x.at]
  BY <1>1 DEF StackInv, CheckContext, Step
<1>3. PICK y : y = IF x.cancelled THEN [x EXCEPT !.pc = "close"] ELSE Advance(x)
  OBVIOUS
<1>4. run' = [run EXCEPT ![r] = y]
  BY <1>1, <1>3 DEF CheckContext, IInv, RunsSound
<1>5. run'[r] = y /\ run' = [run EXCEPT ![r] = run'[r]]
  BY <1>4, Replace
<1>6. LineFacts(x.mode, x.at, Step(r))
  BY <1>2, NextLine, Zenon
<1>7. CASE x.cancelled
  <2>1. /\ y \in RunRec /\ Keeps(x, y) /\ y.res = x.res /\ y.up = x.up /\ y.pc = "close"
        /\ ~At(y, "setup")
    BY <1>2, <1>3, <1>7 DEF Stacked, RunRec, Keeps, At, RunPcs
  <2>2. Stacked(y)
    BY <2>1, <1>2, Quiet
  <2> QED
    BY <1>1, <1>5, <1>6, <1>7, <2>1, <2>2, Zenon DEF Moved
<1>8. CASE ~x.cancelled
  <2>1. Stacked(y) /\ Keeps(x, y) /\ Onward(x, y) /\ y.pc = "setup" /\ y.res = x.res
    BY <1>2, <1>3, <1>8, PlainLine
  <2> QED
    BY <1>1, <1>5, <1>6, <2>1, Zenon DEF Moved
<1> QED
  BY <1>7, <1>8

LEMMA PublishEffect ==
  ASSUME IInv, StackInv, NEW r \in 1..MaxRuns, PublishPhase(r) \/ CallReturns(r)
  PROVE  /\ Moved(r) /\ LineFacts(run[r].mode, run[r].at, Step(r))
         /\ Onward(run[r], run'[r]) /\ run'[r].pc \in {"setup", "serve"}
<1>1. PICK x : x = run[r]
  OBVIOUS
<1>2. Stacked(x) /\ x.pc = "setup" /\ Step(r) = Program(x.mode)[x.at]
  BY <1>1 DEF StackInv, PublishPhase, CallReturns, Step
<1>3. PICK y : y = Advance(Register(x, Step(r).adds))
  OBVIOUS
<1>4. run' = [run EXCEPT ![r] = y]
  BY <1>1, <1>3 DEF PublishPhase, CallReturns, IInv, RunsSound
<1>5. run'[r] = y /\ run' = [run EXCEPT ![r] = run'[r]]
  BY <1>4, Replace
<1>6. /\ LineFacts(x.mode, x.at, Step(r))
      /\ Stacked(y) /\ Keeps(x, y) /\ Onward(x, y) /\ y.pc \in {"setup", "serve"}
  BY <1>2, <1>3, NextLine, Zenon
<1> QED
  BY <1>1, <1>5, <1>6, Zenon DEF Moved

LEMMA PersistEffect ==
  ASSUME IInv, StackInv, NEW r \in 1..MaxRuns, PersistConnected(r)
  PROVE  /\ Moved(r) /\ LineFacts(run[r].mode, run[r].at, Step(r))
         /\ Onward(run[r], run'[r]) /\ run'[r].pc = "setup" /\ run'[r].res = run[r].res
<1>1. PICK x : x = run[r]
  OBVIOUS
<1>2. Stacked(x) /\ x.pc = "setup" /\ Step(r).op = "persist" /\ Step(r) = Program(x.mode)[x.at]
  BY <1>1 DEF StackInv, PersistConnected, Step
<1>3. PICK y : y = Advance(x)
  OBVIOUS
<1>4. run' = [run EXCEPT ![r] = y]
  BY <1>1, <1>3 DEF PersistConnected, IInv, RunsSound
<1>5. run'[r] = y /\ run' = [run EXCEPT ![r] = run'[r]]
  BY <1>4, Replace
<1>6. /\ LineFacts(x.mode, x.at, Step(r))
      /\ Stacked(y) /\ Keeps(x, y) /\ Onward(x, y) /\ y.pc = "setup" /\ y.res = x.res
  BY <1>2, <1>3, PlainLine
<1> QED
  BY <1>1, <1>5, <1>6, Zenon DEF Moved

LEMMA LogEffect ==
  ASSUME IInv, StackInv, NEW r \in 1..MaxRuns, LogInSetup(r)
  PROVE  /\ Moved(r) /\ LineFacts(run[r].mode, run[r].at, Step(r))
         /\ Onward(run[r], run'[r]) /\ run'[r].res = run[r].res
         /\ Logged(run'[r], "setup")
<1>1. PICK x : x = run[r]
  OBVIOUS
<1>2. /\ Stacked(x) /\ x.pc = "setup" /\ Step(r).op = "log" /\ Step(r) = Program(x.mode)[x.at]
      /\ state \in States
  BY <1>1 DEF StackInv, LogInSetup, Step
<1>3. PICK z : z = Advance(x)
  OBVIOUS
<1>4. PICK y : y = Logging(z, "setup")
  OBVIOUS
<1>5. run' = [run EXCEPT ![r] = y]
  BY <1>1, <1>3, <1>4 DEF LogInSetup, IInv, RunsSound
<1>6. run'[r] = y /\ run' = [run EXCEPT ![r] = run'[r]]
  BY <1>5, Replace
<1>7. /\ LineFacts(x.mode, x.at, Step(r))
      /\ Stacked(z) /\ Keeps(x, z) /\ Onward(x, z) /\ z.pc = "setup" /\ z.res = x.res
  BY <1>2, <1>3, PlainLine
<1>8. /\ y \in RunRec /\ Keeps(z, y) /\ y.pc = "log" /\ y.ret = "setup" /\ y.copy = state
      /\ y.at = z.at /\ y.res = z.res /\ y.up = z.up
  BY <1>2, <1>4, <1>7, LoggingRec DEF Stacked, RunPcs
<1>9. Stacked(y) /\ Keeps(x, y)
  <2>1. At(z, "setup") /\ z.pc # "none" /\ y.copy \in States
    BY <1>2, <1>7, <1>8 DEF At
  <2> QED
    BY <1>7, <1>8, <2>1, Quiet DEF Keeps
<1>10. Onward(x, y)
  <2>1. z.pc # "serve" /\ At(y, "setup")
    BY <1>7, <1>8 DEF At
  <2> QED
    BY <2>1, <1>7, <1>8, Zenon DEF Onward
<1> QED
  BY <1>1, <1>6, <1>7, <1>8, <1>9, <1>10, Zenon DEF Moved, Logged

(* Moving to a place outside the program, and logging on the way to one.   *)
LEMMA PlaceMove ==
  ASSUME NEW x, Stacked(x), x.pc # "none", NEW p \in RunPcs \ {"setup", "log", "idle"},
         NEW y, y = [x EXCEPT !.pc = p]
  PROVE  Stacked(y) /\ Keeps(x, y) /\ y.res = x.res /\ y.pc = p
<1>1. /\ y \in RunRec /\ Keeps(x, y) /\ y.res = x.res /\ y.up = x.up /\ y.pc = p
      /\ ~At(y, "setup")
  BY DEF Stacked, RunRec, Keeps, At
<1> QED
  BY <1>1, Quiet

LEMMA LogMove ==
  ASSUME NEW x, Stacked(x), x.pc # "none", state \in States,
         NEW ret \in RunPcs \ {"setup"}, NEW y, y = Logging(x, ret)
  PROVE  Stacked(y) /\ Keeps(x, y) /\ y.res = x.res /\ Logged(y, ret)
<1>1. /\ y \in RunRec /\ Keeps(x, y) /\ y.pc = "log" /\ y.ret = ret /\ y.copy = state
      /\ y.at = x.at /\ y.res = x.res /\ y.up = x.up
  BY LoggingRec DEF Stacked
<1>2. ~At(y, "setup")
  BY <1>1 DEF At
<1> QED
  BY <1>1, <1>2, Quiet DEF Logged

LEMMA ServeCancelledEffect ==
  ASSUME IInv, StackInv, NEW r \in 1..MaxRuns, ServeCancelled(r)
  PROVE  /\ Moved(r) /\ run'[r].res = run[r].res
         /\ Logged(run'[r], "close") \/ run'[r].pc = "close"
<1>1. PICK x : x = run[r]
  OBVIOUS
<1>2. Stacked(x) /\ x.pc # "none" /\ state \in States
  BY <1>1 DEF StackInv, ServeCancelled
<1>3. PICK y : y = IF x.mode = "tun" THEN Logging(x, "close") ELSE [x EXCEPT !.pc = "close"]
  OBVIOUS
<1>4. run' = [run EXCEPT ![r] = y]
  BY <1>1, <1>3 DEF ServeCancelled, IInv, RunsSound
<1>5. run'[r] = y /\ run' = [run EXCEPT ![r] = run'[r]]
  BY <1>4, Replace
<1>6. /\ Stacked(y) /\ Keeps(x, y) /\ y.res = x.res
      /\ Logged(y, "close") \/ y.pc = "close"
  <2>1. "close" \in RunPcs \ {"setup", "log", "idle"}
    BY DEF RunPcs
  <2>2. CASE x.mode = "tun"
    BY <2>1, <2>2, <1>2, <1>3, LogMove
  <2>3. CASE x.mode # "tun"
    BY <2>1, <2>3, <1>2, <1>3, PlaceMove
  <2> QED
    BY <2>2, <2>3
<1> QED
  BY <1>1, <1>5, <1>6, Zenon DEF Moved

(* The steps that only log.                                                *)
LEMMA TickEffect ==
  ASSUME IInv, StackInv, NEW r \in 1..MaxRuns, NEW ret \in {"serve", "fail", "close"},
         run' = [run EXCEPT ![r] = Logging(@, ret)], run[r].pc # "none"
  PROVE  Moved(r) /\ run'[r].res = run[r].res /\ Logged(run'[r], ret)
<1>1. PICK x : x = run[r]
  OBVIOUS
<1>2. Stacked(x) /\ x.pc # "none" /\ state \in States
  BY <1>1 DEF StackInv
<1>3. PICK y : y = Logging(x, ret)
  OBVIOUS
<1>4. run' = [run EXCEPT ![r] = y]
  BY <1>1, <1>3 DEF IInv, RunsSound
<1>5. run'[r] = y /\ run' = [run EXCEPT ![r] = run'[r]]
  BY <1>4, Replace
<1>6. ret \in RunPcs \ {"setup"}
  BY DEF RunPcs
<1>7. Stacked(y) /\ Keeps(x, y) /\ y.res = x.res /\ Logged(y, ret)
  BY <1>2, <1>3, <1>6, LogMove
<1> QED
  BY <1>1, <1>5, <1>7, Zenon DEF Moved

(* The steps that only move.                                               *)
LEMMA PlaceEffect ==
  ASSUME IInv, StackInv, NEW r \in 1..MaxRuns,
         NEW p \in {"fail", "close", "error", "errlog", "settle", "ended"},
         run' = [run EXCEPT ![r].pc = p], run[r].pc # "none"
  PROVE  Moved(r) /\ run'[r].res = run[r].res /\ run'[r].pc = p
<1>1. PICK x : x = run[r]
  OBVIOUS
<1>2. Stacked(x) /\ x.pc # "none"
  BY <1>1 DEF StackInv
<1>3. PICK y : y = [x EXCEPT !.pc = p]
  OBVIOUS
<1>4. run' = [run EXCEPT ![r] = y]
  BY <1>1, <1>3 DEF IInv, RunsSound
<1>5. run'[r] = y /\ run' = [run EXCEPT ![r] = run'[r]]
  BY <1>4, Replace
<1>6. p \in RunPcs \ {"setup", "log", "idle"}
  BY DEF RunPcs
<1>7. Stacked(y) /\ Keeps(x, y) /\ y.res = x.res /\ y.pc = p
  BY <1>2, <1>3, <1>6, PlaceMove
<1> QED
  BY <1>1, <1>5, <1>7, Zenon DEF Moved

LEMMA LostEffect ==
  ASSUME IInv, StackInv, NEW r \in 1..MaxRuns, ControlLost(r)
  PROVE  /\ Moved(r) /\ run'[r].res = run[r].res
         /\ \/ run[r].cancelled /\ run'[r].pc = "close"
            \/ Logged(run'[r], "recover")
<1>1. PICK x : x = run[r]
  OBVIOUS
<1>2. Stacked(x) /\ x.pc = "serve" /\ state \in States /\ x.losses < MaxLosses
  BY <1>1 DEF StackInv, ControlLost
<1>3. PICK w : w = [x EXCEPT !.losses = x.losses + 1, !.tries = 0]
  OBVIOUS
<1>4. PICK y : y = IF x.cancelled THEN [x EXCEPT !.pc = "close"] ELSE Logging(w, "recover")
  OBVIOUS
<1>5. run' = [run EXCEPT ![r] = y]
  BY <1>1, <1>3, <1>4 DEF ControlLost, IInv, RunsSound
<1>6. run'[r] = y /\ run' = [run EXCEPT ![r] = run'[r]]
  BY <1>5, Replace
<1>7. {"recover", "close"} \subseteq RunPcs \ {"setup", "log", "idle"}
  BY DEF RunPcs
<1>8. CASE x.cancelled
  <2>1. Stacked(y) /\ Keeps(x, y) /\ y.res = x.res /\ y.pc = "close"
    BY <1>2, <1>4, <1>7, <1>8, PlaceMove
  <2> QED
    BY <1>1, <1>6, <1>8, <2>1, Zenon DEF Moved
<1>9. CASE ~x.cancelled
  <2>1. x.losses + 1 \in 0..MaxLosses /\ 0 \in 0..(RecoveryAttempts - 1) /\ x \in RunRec
    BY <1>2, SessionAssumption DEF Stacked, RunRec
  <2>2. PICK l \in 0..MaxLosses : l = x.losses + 1
    BY <2>1
  <2>3. w = [x EXCEPT !.losses = l, !.tries = 0]
    BY <1>3, <2>2, Zenon
  <2>4. /\ w \in RunRec /\ Keeps(x, w) /\ w.res = x.res /\ w.up = x.up /\ w.pc = "serve"
        /\ ~At(w, "setup")
    BY <1>2, <2>1, <2>2, <2>3 DEF RunRec, Keeps, At
  <2>5. Stacked(w)
    BY <1>2, <2>4, Quiet
  <2>6. Stacked(y) /\ Keeps(w, y) /\ y.res = w.res /\ Logged(y, "recover")
    BY <1>2, <1>4, <1>7, <1>9, <2>4, <2>5, LogMove
  <2>7. Keeps(x, y)
    BY <2>4, <2>6 DEF Keeps
  <2> QED
    BY <1>1, <1>6, <2>4, <2>6, <2>7, Zenon DEF Moved
<1> QED
  BY <1>8, <1>9

LEMMA AttemptEffect ==
  ASSUME IInv, StackInv, NEW r \in 1..MaxRuns, AttemptFails(r)
  PROVE  /\ Moved(r) /\ run'[r].res = run[r].res
         /\ run'[r].pc = "fail" \/ Logged(run'[r], "recover")
<1>1. PICK x : x = run[r]
  OBVIOUS
<1>2. Stacked(x) /\ x.pc = "recover" /\ state \in States
  BY <1>1 DEF StackInv, AttemptFails
<1>3. PICK w : w = [x EXCEPT !.tries = x.tries + 1]
  OBVIOUS
<1>4. PICK y : y = IF x.cancelled \/ x.tries + 1 = RecoveryAttempts THEN [x EXCEPT !.pc = "fail"]
                   ELSE Logging(w, "recover")
  OBVIOUS
<1>5. run' = [run EXCEPT ![r] = y]
  BY <1>1, <1>3, <1>4 DEF AttemptFails, IInv, RunsSound
<1>6. run'[r] = y /\ run' = [run EXCEPT ![r] = run'[r]]
  BY <1>5, Replace
<1>7. {"recover", "fail"} \subseteq RunPcs \ {"setup", "log", "idle"}
  BY DEF RunPcs
<1>8. CASE x.cancelled \/ x.tries + 1 = RecoveryAttempts
  <2>1. Stacked(y) /\ Keeps(x, y) /\ y.res = x.res /\ y.pc = "fail"
    BY <1>2, <1>4, <1>7, <1>8, PlaceMove
  <2> QED
    BY <1>1, <1>6, <2>1, Zenon DEF Moved
<1>9. CASE ~(x.cancelled \/ x.tries + 1 = RecoveryAttempts)
  <2>1. x.tries + 1 \in 0..(RecoveryAttempts - 1) /\ x \in RunRec
    BY <1>2, <1>9, SessionAssumption DEF Stacked, RunRec
  <2>2. PICK l \in 0..(RecoveryAttempts - 1) : l = x.tries + 1
    BY <2>1
  <2>3. w = [x EXCEPT !.tries = l]
    BY <1>3, <2>2, Zenon
  <2>4. /\ w \in RunRec /\ Keeps(x, w) /\ w.res = x.res /\ w.up = x.up /\ w.pc = "recover"
        /\ ~At(w, "setup")
    BY <1>2, <2>1, <2>2, <2>3 DEF RunRec, Keeps, At
  <2>5. Stacked(w)
    BY <1>2, <2>4, Quiet
  <2>6. Stacked(y) /\ Keeps(w, y) /\ y.res = w.res /\ Logged(y, "recover")
    BY <1>2, <1>4, <1>7, <1>9, <2>4, <2>5, LogMove
  <2>7. Keeps(x, y)
    BY <2>4, <2>6 DEF Keeps
  <2> QED
    BY <1>1, <1>6, <2>4, <2>6, <2>7, Zenon DEF Moved
<1> QED
  BY <1>8, <1>9

(* Another port-forward, on top of everything that goes through it.        *)
LEMMA ReplacedEffect ==
  ASSUME IInv, StackInv, NEW r \in 1..MaxRuns, Replaced(r)
  PROVE  Moved(r) /\ Logged(run'[r], "serve")
<1>1. PICK x : x = run[r]
  OBVIOUS
<1>2. Stacked(x) /\ x.pc = "recover" /\ state \in States /\ x \in RunRec
  BY <1>1 DEF StackInv, Replaced, Stacked
<1>3. PICK w : w = Register(x, <<"forward">>)
  OBVIOUS
<1>4. PICK y : y = Logging(w, "serve")
  OBVIOUS
<1>5. run' = [run EXCEPT ![r] = y]
  BY <1>1, <1>3, <1>4 DEF Replaced, IInv, RunsSound
<1>6. run'[r] = y /\ run' = [run EXCEPT ![r] = run'[r]]
  BY <1>5, Replace
<1>7. x.res \in Seq(Resources) /\ "forward" \in Resources
  BY <1>2 DEF RunRec, Resources
<1>8. PICK s : s = x.res \o <<"forward">>
  OBVIOUS
<1>9. s \in Seq(Resources) /\ Ordered(s) /\ (Has(x.res, "guard") => Has(s, "guard"))
  <2>1. s = Append(x.res, "forward")
    BY <1>7, <1>8, Batch
  <2> QED
    BY <1>2, <1>7, <2>1, Push, MetOf DEF Stacked
<1>10. w \in RunRec /\ Keeps(x, w) /\ w.pc = "recover" /\ w.res = s /\ (w.up => x.up)
  <2>1. ~(<<"forward">> # <<>> /\ <<"forward">>[1] = "guard")
    OBVIOUS
  <2>2. /\ w \in RunRec /\ Keeps(x, w) /\ w.pc = x.pc /\ w.res = s
        /\ w.up => x.up \/ (<<"forward">> # <<>> /\ <<"forward">>[1] = "guard")
    BY <1>2, <1>3, <1>8, <1>9, RegisterRec, Zenon
  <2> QED
    BY <1>2, <2>1, <2>2, Zenon
<1>11. Stacked(w)
  BY <1>2, <1>9, <1>10 DEF Stacked, At, Keeps
<1>12. "serve" \in RunPcs \ {"setup"}
  BY DEF RunPcs
<1>13. Stacked(y) /\ Keeps(w, y) /\ Logged(y, "serve")
  BY <1>2, <1>4, <1>10, <1>11, <1>12, LogMove
<1>14. Keeps(x, y)
  BY <1>10, <1>13 DEF Keeps
<1> QED
  BY <1>1, <1>6, <1>13, <1>14, Zenon DEF Moved

LEMMA PublishedEffect ==
  ASSUME IInv, StackInv, NEW r \in 1..MaxRuns, LogPublished(r)
  PROVE  /\ Moved(r) /\ run'[r].res = run[r].res /\ run'[r].at = run[r].at
         /\ run'[r].pc = run[r].ret /\ run[r].ret \in Returns
<1>1. PICK x : x = run[r]
  OBVIOUS
<1>2. Stacked(x) /\ x.pc = "log" /\ x \in RunRec /\ x.ret \in Returns
  BY <1>1 DEF StackInv, LogPublished, Stacked, IInv, RunsSound, Sound
<1>3. PICK y : y = [x EXCEPT !.pc = x.ret, !.ret = "none", !.copy = NoState]
  OBVIOUS
<1>4. run' = [run EXCEPT ![r] = y]
  BY <1>1, <1>2, <1>3 DEF LogPublished, IInv, RunsSound, RunRec
<1>5. run'[r] = y /\ run' = [run EXCEPT ![r] = run'[r]]
  BY <1>4, Replace
<1>6. /\ y \in RunRec /\ Keeps(x, y) /\ y.res = x.res /\ y.up = x.up /\ y.at = x.at
      /\ y.pc = x.ret
  <2>1. "none" \in RunPcs /\ NoState \in States \cup {NoState} /\ x.ret \in RunPcs
    BY <1>2 DEF RunPcs, RunRec
  <2> QED
    BY <1>2, <1>3, <2>1 DEF RunRec, Keeps
<1>7. Stacked(y)
  <2>1. At(y, "setup") => At(x, "setup") /\ y.at = x.at
    BY <1>2, <1>6 DEF At, Returns
  <2>2. y.pc \notin {"log", "idle"}
    BY <1>2, <1>6 DEF Returns
  <2> QED
    BY <1>2, <1>6, <2>1, <2>2, Quiet
<1> QED
  BY <1>1, <1>2, <1>5, <1>6, <1>7, Zenon DEF Moved

LEMMA CloseEffect ==
  ASSUME IInv, StackInv, NEW r \in 1..MaxRuns, CloseResource(r)
  PROVE  Moved(r) /\ run'[r].pc = "close"
<1>1. PICK x : x = run[r]
  OBVIOUS
<1>2. Stacked(x) /\ x.pc = "close" /\ x \in RunRec /\ x.res # <<>>
  BY <1>1 DEF StackInv, CloseResource, Stacked
<1>3. PICK s : s = SubSeq(x.res, 1, Len(x.res) - 1)
  OBVIOUS
<1>4. PICK u \in BOOLEAN : u = (x.up /\ Last(x.res) \notin {"restore", "guard"})
  OBVIOUS
<1>5. PICK y : y = [x EXCEPT !.res = s, !.up = u]
  OBVIOUS
<1>6. run' = [run EXCEPT ![r] = y]
  BY <1>1, <1>2, <1>3, <1>4, <1>5 DEF CloseResource, IInv, RunsSound, RunRec
<1>7. run'[r] = y /\ run' = [run EXCEPT ![r] = run'[r]]
  BY <1>6, Replace
<1>8. /\ s \in Seq(Resources) /\ Ordered(s)
      /\ \A name : Has(x.res, name) /\ Last(x.res) # name => Has(s, name)
  <2>1. x.res \in Seq(Resources) /\ Ordered(x.res)
    BY <1>2 DEF Stacked, RunRec
  <2> QED
    BY <1>2, <1>3, <2>1, Pop, Zenon
<1>9. /\ y \in RunRec /\ Keeps(x, y) /\ y.res = s /\ y.up = u /\ y.pc = "close"
  BY <1>2, <1>4, <1>5, <1>8 DEF RunRec, Keeps
<1>10. y.up => Has(y.res, "guard")
  BY <1>2, <1>4, <1>8, <1>9, Zenon DEF Stacked
<1>11. Stacked(y)
  BY <1>2, <1>8, <1>9, <1>10 DEF Stacked, At, Keeps
<1> QED
  BY <1>1, <1>7, <1>9, <1>11, Zenon DEF Moved

LEMMA SettleEffect ==
  ASSUME IInv, StackInv, NEW r \in 1..MaxRuns, Settle(r)
  PROVE  /\ Moved(r) /\ run'[r].res = run[r].res
         /\ \/ run'[r].pc = "idle" /\ run'[r].copy.phase = "idle"
            \/ run'[r].pc = "clear" /\ (run[r].cancelled /\ current = r => state.phase = "idle")
<1>1. PICK x : x = run[r]
  OBVIOUS
<1>2. Stacked(x) /\ x.pc = "settle" /\ x \in RunRec /\ state \in States
  BY <1>1 DEF StackInv, Settle, Stacked
<1>3. PICK s : s = [state EXCEPT !.phase = "idle"]
  OBVIOUS
<1>4. s \in States /\ s.phase = "idle"
  BY <1>2, <1>3 DEF States, Phases
<1>5. CASE x.cancelled /\ current = r /\ state.phase # "idle"
  <2>1. PICK y : y = [x EXCEPT !.pc = "idle", !.copy = s]
    OBVIOUS
  <2>2. run' = [run EXCEPT ![r] = y]
    BY <1>1, <1>3, <1>5, <2>1 DEF Settle, IInv, RunsSound
  <2>3. run'[r] = y /\ run' = [run EXCEPT ![r] = run'[r]]
    BY <2>2, Replace
  <2>4. "idle" \in RunPcs /\ s \in States \cup {NoState}
    BY <1>4 DEF RunPcs
  <2>5. y \in RunRec
    BY <1>2, <2>1, <2>4 DEF RunRec
  <2>6. /\ Keeps(x, y) /\ y.res = x.res /\ y.up = x.up /\ y.pc = "idle"
        /\ y.copy = s /\ ~At(y, "setup")
    BY <1>2, <2>1 DEF RunRec, Keeps, At
  <2>7. Stacked(y)
    BY <1>2, <1>4, <2>5, <2>6, Quiet
  <2> QED
    BY <1>1, <1>4, <2>3, <2>6, <2>7, Zenon DEF Moved
<1>6. CASE ~(x.cancelled /\ current = r /\ state.phase # "idle")
  <2>1. PICK y : y = [x EXCEPT !.pc = "clear"]
    OBVIOUS
  <2>2. run' = [run EXCEPT ![r] = y]
    BY <1>1, <1>6, <2>1 DEF Settle, IInv, RunsSound
  <2>3. run'[r] = y /\ run' = [run EXCEPT ![r] = run'[r]]
    BY <2>2, Replace
  <2>4. "clear" \in RunPcs \ {"setup", "log", "idle"}
    BY DEF RunPcs
  <2>5. Stacked(y) /\ Keeps(x, y) /\ y.res = x.res /\ y.pc = "clear"
    BY <1>2, <2>1, <2>4, PlaceMove
  <2> QED
    BY <1>1, <1>6, <2>3, <2>5, Zenon DEF Moved
<1> QED
  BY <1>5, <1>6

LEMMA IdleEffect ==
  ASSUME IInv, StackInv, NEW r \in 1..MaxRuns, RunIdle(r)
  PROVE  Moved(r) /\ run'[r].res = run[r].res /\ run'[r].pc = "clear"
<1>1. PICK x : x = run[r]
  OBVIOUS
<1>2. Stacked(x) /\ x.pc = "idle" /\ x \in RunRec
  BY <1>1 DEF StackInv, RunIdle, Stacked
<1>3. PICK y : y = [x EXCEPT !.pc = "clear", !.copy = NoState]
  OBVIOUS
<1>4. run' = [run EXCEPT ![r] = y]
  BY <1>1, <1>2, <1>3 DEF RunIdle, IInv, RunsSound, RunRec
<1>5. run'[r] = y /\ run' = [run EXCEPT ![r] = run'[r]]
  BY <1>4, Replace
<1>6. "clear" \in RunPcs /\ NoState \in States \cup {NoState}
  BY DEF RunPcs
<1>7. y \in RunRec
  BY <1>2, <1>3, <1>6 DEF RunRec
<1>8. /\ Keeps(x, y) /\ y.res = x.res /\ y.up = x.up /\ y.pc = "clear" /\ ~At(y, "setup")
  BY <1>2, <1>3 DEF RunRec, Keeps, At
<1>9. Stacked(y)
  BY <1>2, <1>7, <1>8, Quiet
<1> QED
  BY <1>1, <1>5, <1>8, <1>9, Zenon DEF Moved

(* A new record: the run that Connect starts, and the one a run leaves.    *)
LEMMA FreshRec ==
  ASSUME NEW ctx \in Contexts, NEW mode \in Modes
  PROVE  /\ LET y == [NoRun EXCEPT !.pc = "setup", !.ctx = ctx, !.mode = mode]
            IN Stacked(y) /\ y.pc = "setup" /\ y.at = 1 /\ y.res = <<>> /\ ~y.cancelled
         /\ Stacked(NoRun)
<1>1. /\ NoState \in States \cup {NoState} /\ <<>> \in Seq(Resources)
      /\ 0 \in 0..(RecoveryAttempts - 1) /\ 0 \in 0..MaxLosses /\ 1 \in 1..36
  BY SessionAssumption
<1>2. NoRun \in RunRec
  BY <1>1 DEF NoRun, RunRec, RunPcs
<1>3. /\ NoRun.pc = "none" /\ NoRun.res = <<>> /\ NoRun.up = FALSE /\ NoRun.at = 1
      /\ NoRun.cancelled = FALSE
  BY DEF NoRun
<1>4. Ordered(<<>>)
  BY DEF Ordered
<1>5. Stacked(NoRun)
  BY <1>2, <1>3, <1>4 DEF Stacked, At
<1>6. PICK y : y = [NoRun EXCEPT !.pc = "setup", !.ctx = ctx, !.mode = mode]
  OBVIOUS
<1>7. y \in RunRec
  BY <1>2, <1>6 DEF RunRec, RunPcs
<1>8. /\ y.pc = "setup" /\ y.at = 1 /\ y.res = <<>> /\ y.up = FALSE /\ y.ctx = ctx
      /\ y.mode = mode /\ y.cancelled = FALSE
  BY <1>2, <1>3, <1>6 DEF RunRec
<1>9. InProgram(y)
  <2>1. 1 \in 1..LastLine(mode)
    BY ModeLines
  <2>2. Passed(mode, 1, <<>>)
    BY DEF Passed
  <2> QED
    BY <1>8, <2>1, <2>2, Zenon DEF InProgram
<1>10. Stacked(y)
  BY <1>4, <1>7, <1>8, <1>9 DEF Stacked
<1> QED
  BY <1>5, <1>6, <1>8, <1>10

LEMMA DoneEffect ==
  ASSUME IInv, StackInv, NEW r \in 1..MaxRuns, CloseDone(r)
  PROVE  /\ run' = [run EXCEPT ![r] = run'[r]] /\ Stacked(run'[r])
         /\ run'[r].pc = "done"
<1>1. PICK x : x = run[r]
  OBVIOUS
<1>2. Stacked(x) /\ x.pc = "ended" /\ x.ctx \in Contexts
  BY <1>1 DEF StackInv, CloseDone, Stacked
<1>3. PICK y : y = [NoRun EXCEPT !.pc = "done", !.ctx = x.ctx]
  OBVIOUS
<1>4. run' = [run EXCEPT ![r] = y]
  BY <1>1, <1>3 DEF CloseDone, IInv, RunsSound
<1>5. run'[r] = y /\ run' = [run EXCEPT ![r] = run'[r]]
  BY <1>4, Replace
<1>6. /\ NoState \in States \cup {NoState} /\ <<>> \in Seq(Resources)
      /\ 0 \in 0..(RecoveryAttempts - 1) /\ 0 \in 0..MaxLosses /\ 1 \in 1..36
  BY SessionAssumption
<1>7. NoRun \in RunRec
  BY <1>6 DEF NoRun, RunRec, RunPcs
<1>8. y \in RunRec
  BY <1>2, <1>3, <1>7 DEF RunRec, RunPcs
<1>9. y.pc = "done" /\ y.res = <<>> /\ y.up = FALSE /\ y.ctx = x.ctx
  BY <1>3 DEF NoRun
<1>10. Stacked(y)
  BY <1>2, <1>8, <1>9 DEF Stacked, At, Ordered
<1> QED
  BY <1>5, <1>9, <1>10

-----------------------------------------------------------------------------
(* Every step keeps the stacks in order.                                   *)
LEMMA InitStack == Init => StackInv
<1> SUFFICES ASSUME Init PROVE StackInv
  OBVIOUS
<1>1. state \in States /\ current \in 0..MaxRuns
  BY SessionAssumption DEF Init, States, Phases
<1>2. \A r \in 1..MaxRuns : Stacked(run[r])
  <2>1. /\ NoState \in States \cup {NoState} /\ <<>> \in Seq(Resources)
        /\ 0 \in 0..(RecoveryAttempts - 1) /\ 0 \in 0..MaxLosses /\ 1 \in 1..36
    BY SessionAssumption
  <2>2. NoRun \in RunRec
    BY <2>1 DEF NoRun, RunRec, RunPcs
  <2>3. NoRun.pc = "none" /\ NoRun.res = <<>> /\ NoRun.up = FALSE
    BY DEF NoRun
  <2>4. Stacked(NoRun)
    BY <2>2, <2>3 DEF Stacked, At, Ordered
  <2> QED
    BY <2>4 DEF Init
<1>3. \A c \in Callers \cup Restorers : caller[c] \in CallRec /\ caller[c].pc \in {"free", "scan"}
  <2>1. NoState \in States \cup {NoState} /\ 0 \in 0..MaxRuns
    BY SessionAssumption
  <2>2. NoCall \in CallRec /\ NoCall.pc = "free"
    BY <2>1 DEF NoCall, CallRec
  <2>3. [NoCall EXCEPT !.pc = "scan"] \in CallRec /\ [NoCall EXCEPT !.pc = "scan"].pc = "scan"
    BY <2>2 DEF CallRec
  <2> QED
    BY <2>2, <2>3 DEF Init
<1>4. caller \in [Callers \cup Restorers -> CallRec]
  BY <1>3 DEF Init
<1>5. \A c \in Callers \cup Restorers : Calling(c)
  BY <1>3 DEF Calling
<1> QED
  BY <1>1, <1>2, <1>4, <1>5 DEF Init, StackInv

LEMMA RunStack ==
  ASSUME IInv, StackInv, NEW r \in 1..MaxRuns,
         run' = [run EXCEPT ![r] = run'[r]], Stacked(run'[r]), state' \in States,
         current' \in {0, current}, stored' \in [Contexts -> BOOLEAN],
         UNCHANGED <<caller, last, quitting>>
  PROVE  StackInv'
<1>1. \A q \in 1..MaxRuns : run'[q] = IF q = r THEN run'[r] ELSE run[q]
  BY DEF IInv, RunsSound
<1>2. \A q \in 1..MaxRuns : Stacked(run'[q])
  BY <1>1 DEF StackInv
<1>3. current' \in 0..MaxRuns
  BY SessionAssumption DEF StackInv
<1> QED
  BY <1>2, <1>3 DEF StackInv, Calling

LEMMA RunStepStack ==
  ASSUME IInv, StackInv, NEW r \in 1..MaxRuns, RunSteps(r) \/ Incidents(r)
  PROVE  StackInv'
<1>1. state \in States /\ Stacked(run[r]) /\ current \in 0..MaxRuns
      /\ stored \in [Contexts -> BOOLEAN]
  BY DEF StackInv
<1>2. ASSUME Moved(r), state' \in States, current' \in {0, current},
             stored' \in [Contexts -> BOOLEAN], RunFrame
      PROVE  StackInv'
  BY <1>2, RunStack DEF Moved, RunFrame
<1>3. CASE CheckContext(r)
  BY <1>1, <1>2, <1>3, CheckEffect DEF CheckContext
<1>4. CASE PublishPhase(r)
  <2>1. run[r].ctx \in Contexts /\ Step(r).phase \in Phases
    BY <1>1, <1>4, PublishEffect DEF Stacked, LineFacts, PublishPhase
  <2>2. state' \in States
    BY <1>4, <2>1 DEF PublishPhase, States
  <2> QED
    BY <1>1, <1>2, <1>4, <2>2, PublishEffect DEF PublishPhase
<1>5. CASE CallReturns(r)
  BY <1>1, <1>2, <1>5, PublishEffect DEF CallReturns
<1>6. CASE CallFails(r)
  BY <1>1, <1>2, <1>6, PlaceEffect DEF CallFails
<1>7. CASE PersistConnected(r)
  BY <1>1, <1>2, <1>7, PersistEffect DEF PersistConnected
<1>8. CASE LogInSetup(r)
  BY <1>1, <1>2, <1>8, LogEffect DEF LogInSetup
<1>9. CASE LogPublished(r)
  BY <1>1, <1>2, <1>9, PublishedEffect DEF LogPublished, Stacked
<1>10. CASE ServeCancelled(r)
  BY <1>1, <1>2, <1>10, ServeCancelledEffect DEF ServeCancelled
<1>11. CASE Tick(r)
  BY <1>1, <1>2, <1>11, TickEffect DEF Tick
<1>12. CASE CoreExit(r)
  BY <1>1, <1>2, <1>12, TickEffect DEF CoreExit
<1>13. CASE ControlLost(r)
  BY <1>1, <1>2, <1>13, LostEffect DEF ControlLost
<1>14. CASE Redialed(r)
  BY <1>1, <1>2, <1>14, TickEffect DEF Redialed
<1>15. CASE Replaced(r)
  BY <1>1, <1>2, <1>15, ReplacedEffect DEF Replaced
<1>16. CASE AttemptFails(r)
  BY <1>1, <1>2, <1>16, AttemptEffect DEF AttemptFails
<1>17. CASE Fail(r)
  BY <1>1, <1>2, <1>17, PlaceEffect DEF Fail
<1>18. CASE PublishError(r)
  <2>1. state' \in States
    BY <1>1, <1>18 DEF PublishError, States, Phases, Stacked
  <2> QED
    BY <1>1, <1>2, <1>18, <2>1, PlaceEffect DEF PublishError
<1>19. CASE LogError(r)
  BY <1>1, <1>2, <1>19, TickEffect DEF LogError
<1>20. CASE CloseResource(r)
  BY <1>1, <1>2, <1>20, CloseEffect DEF CloseResource
<1>21. CASE Closed(r)
  BY <1>1, <1>2, <1>21, PlaceEffect DEF Closed
<1>22. CASE Settle(r)
  BY <1>1, <1>2, <1>22, SettleEffect DEF Settle
<1>23. CASE RunIdle(r)
  BY <1>1, <1>2, <1>23, IdleEffect DEF RunIdle, Stacked
<1>24. CASE ClearRun(r)
  BY <1>1, <1>2, <1>24, PlaceEffect DEF ClearRun
<1>25. CASE CloseDone(r)
  BY <1>1, <1>25, DoneEffect, RunStack DEF CloseDone, RunFrame
<1> QED
  BY <1>3, <1>4, <1>5, <1>6, <1>7, <1>8, <1>9, <1>10, <1>11, <1>12, <1>13, <1>14,
     <1>15, <1>16, <1>17, <1>18, <1>19, <1>20, <1>21, <1>22, <1>23, <1>24, <1>25
     DEF RunSteps, Incidents

(* What a caller does with its own record.                                 *)
LEMMA CallMove ==
  ASSUME StackInv, NEW c \in Callers \cup Restorers, NEW k \in CallRec,
         caller' = [caller EXCEPT ![c] = k],
         k.pc = "log" => k.seen \in States, k.pc = "plan" => k.seen.ctx \in Contexts
  PROVE  /\ caller' \in [Callers \cup Restorers -> CallRec]
         /\ \A d \in Callers \cup Restorers : Calling(d)'
         /\ \A d \in Callers \cup Restorers : caller'[d] = IF d = c THEN k ELSE caller[d]
<1>1. caller' \in [Callers \cup Restorers -> CallRec]
  BY DEF StackInv
<1>2. \A d \in Callers \cup Restorers : caller'[d] = IF d = c THEN k ELSE caller[d]
  BY DEF StackInv
<1>3. \A d \in Callers \cup Restorers : Calling(d)'
  BY <1>2 DEF StackInv, Calling
<1> QED
  BY <1>1, <1>2, <1>3

(* The records callers make of their own.                                  *)
CallPcs == {"scan", "plan", "over", "free", "log", "persist", "state", "look",
            "publish", "cancel", "wait", "mark", "returned"}

LEMMA NewCall ==
  ASSUME NEW p \in CallPcs, NEW s \in States \cup {NoState}, NEW b \in BOOLEAN
  PROVE  /\ NoCall \in CallRec /\ NoCall.pc = "free"
         /\ LET k == [NoCall EXCEPT !.pc = p] IN k \in CallRec /\ k.pc = p
         /\ LET k == [NoCall EXCEPT !.pc = p, !.seen = s]
            IN k \in CallRec /\ k.pc = p /\ k.seen = s
         /\ LET k == [NoCall EXCEPT !.pc = p, !.clear = b]
            IN k \in CallRec /\ k.pc = p
<1>1. NoState \in States \cup {NoState} /\ 0 \in 0..MaxRuns
  BY SessionAssumption
<1>2. NoCall \in CallRec /\ NoCall.pc = "free"
  BY <1>1 DEF NoCall, CallRec
<1>3. [NoCall EXCEPT !.pc = p] \in CallRec /\ [NoCall EXCEPT !.pc = p].pc = p
  BY <1>2 DEF CallRec, CallPcs
<1>4. PICK k : k = [NoCall EXCEPT !.pc = p, !.seen = s]
  OBVIOUS
<1>5. k \in CallRec /\ k.pc = p /\ k.seen = s
  BY <1>2, <1>4 DEF CallRec, CallPcs
<1>6. PICK m : m = [NoCall EXCEPT !.pc = p, !.clear = b]
  OBVIOUS
<1>7. m \in CallRec /\ m.pc = p
  BY <1>2, <1>6 DEF CallRec, CallPcs
<1> QED
  BY <1>2, <1>3, <1>4, <1>5, <1>6, <1>7, Zenon

(* The caller is at p now, and the others are where they were.             *)
Called(c, p) ==
    /\ caller' \in [Callers \cup Restorers -> CallRec]
    /\ \A d \in Callers \cup Restorers : Calling(d)'
    /\ caller'[c].pc = p
    /\ \A d \in Callers \cup Restorers : d # c => caller'[d] = caller[d]

LEMMA Resets ==
  ASSUME StackInv, NEW c \in Callers \cup Restorers,
         NEW p \in CallPcs \ {"log", "plan"}, NEW b \in BOOLEAN,
         \/ caller' = [caller EXCEPT ![c] = [NoCall EXCEPT !.pc = p]]
         \/ caller' = [caller EXCEPT ![c] = [NoCall EXCEPT !.pc = p, !.clear = b]]
         \/ caller' = [caller EXCEPT ![c] = [NoCall EXCEPT !.pc = p, !.seen = state]]
         \/ caller' = [caller EXCEPT ![c] = NoCall] /\ p = "free"
  PROVE  Called(c, p)
<1>1. state \in States \cup {NoState}
  BY DEF StackInv
<1>2. PICK k \in CallRec : k.pc = p /\ caller' = [caller EXCEPT ![c] = k]
  BY <1>1, NewCall, Zenon
<1> QED
  BY <1>2, CallMove DEF Called

(* A copy of the state, to be published later.                             *)
LEMMA Copies ==
  ASSUME StackInv, NEW c \in Callers \cup Restorers,
         caller' = [caller EXCEPT ![c] = [NoCall EXCEPT !.pc = "log", !.seen = state]]
  PROVE  Called(c, "log")
<1>1. state \in States /\ state \in States \cup {NoState} /\ "log" \in CallPcs
  BY DEF StackInv, CallPcs
<1>2. PICK k \in CallRec : k.pc = "log" /\ k.seen = state /\ caller' = [caller EXCEPT ![c] = k]
  BY <1>1, NewCall, Zenon
<1> QED
  BY <1>1, <1>2, CallMove DEF Called

(* Further on in Disconnect or Shutdown.                                   *)
LEMMA Proceeds ==
  ASSUME StackInv, NEW c \in Callers, NEW p \in CallPcs \ {"log", "plan"},
         NEW s \in States \cup {NoState},
         \/ caller' = [caller EXCEPT ![c].pc = p]
         \/ caller' = [caller EXCEPT ![c].pc = p, ![c].seen = s]
  PROVE  Called(c, p) /\ (caller' = [caller EXCEPT ![c].pc = p] => caller'[c].target = caller[c].target)
<1>1. PICK x \in CallRec : x = caller[c]
  BY DEF StackInv
<1>2. PICK k, l : k = [x EXCEPT !.pc = p] /\ l = [x EXCEPT !.pc = p, !.seen = s]
  OBVIOUS
<1>3. /\ k \in CallRec /\ k.pc = p /\ k.target = x.target
      /\ l \in CallRec /\ l.pc = p
  BY <1>2 DEF CallRec, CallPcs
<1>4. CASE caller' = [caller EXCEPT ![c].pc = p]
  <2>1. caller' = [caller EXCEPT ![c] = k]
    BY <1>1, <1>2, <1>4 DEF StackInv
  <2> QED
    BY <1>1, <1>3, <2>1, CallMove DEF Called
<1>5. CASE caller' # [caller EXCEPT ![c].pc = p]
  <2>1. caller' = [caller EXCEPT ![c] = l]
    BY <1>1, <1>2, <1>5 DEF StackInv, CallRec
  <2> QED
    BY <1>3, <1>5, <2>1, CallMove DEF Called
<1> QED
  BY <1>4, <1>5

LEMMA LooksUp ==
  ASSUME StackInv, NEW c \in Callers, NEW p \in CallPcs \ {"log", "plan"},
         caller' = [caller EXCEPT ![c].pc = p, ![c].target = current]
  PROVE  Called(c, p) /\ caller'[c].target = current
<1>1. PICK x \in CallRec : x = caller[c]
  BY DEF StackInv
<1>2. PICK k : k = [x EXCEPT !.pc = p, !.target = current]
  OBVIOUS
<1>3. k \in CallRec /\ k.pc = p /\ k.target = current
  BY <1>2 DEF CallRec, CallPcs, StackInv
<1>4. caller' = [caller EXCEPT ![c] = k]
  BY <1>1, <1>2 DEF StackInv, CallRec
<1> QED
  BY <1>3, <1>4, CallMove DEF Called

(* Connect, by a caller or by RestoreStartup.                              *)
LEMMA AcceptStack ==
  ASSUME IInv, StackInv, NEW ctx \in Contexts, NEW mode \in Modes, Accept(ctx, mode)
  PROVE  /\ current' \in 1..MaxRuns /\ \A r \in 1..MaxRuns : Stacked(run'[r])
         /\ \A r \in 1..MaxRuns : r # current' => run'[r] = run[r]
         /\ run'[current'].pc = "setup" /\ run'[current'].at = 1
         /\ run'[current'].res = <<>>
<1>1. PICK y : y = [NoRun EXCEPT !.pc = "setup", !.ctx = ctx, !.mode = mode]
  OBVIOUS
<1>2. Stacked(y) /\ y.pc = "setup" /\ y.at = 1 /\ y.res = <<>>
  BY <1>1, FreshRec
<1>3. PICK n \in 1..MaxRuns : n = started + 1
  BY SessionAssumption DEF Accept, IInv, Counted
<1>4. run' = [run EXCEPT ![n] = y] /\ current' = n
  BY <1>1, <1>3, Zenon DEF Accept
<1>5. \A r \in 1..MaxRuns : run'[r] = IF r = n THEN y ELSE run[r]
  BY <1>4 DEF IInv, RunsSound
<1> QED
  BY <1>2, <1>3, <1>4, <1>5 DEF StackInv

(* The context of a run is cancelled.                                      *)
LEMMA CancelStack ==
  ASSUME IInv, StackInv, NEW c \in Callers, Cancel(c)
  PROVE  \A r \in 1..MaxRuns :
           LET x == run[r]
               y == run'[r]
           IN /\ Stacked(y) /\ y.pc = x.pc /\ y.ret = x.ret /\ y.at = x.at /\ y.ctx = x.ctx
              /\ y.mode = x.mode /\ y.res = x.res /\ y.copy = x.copy
              /\ x.cancelled => y.cancelled
<1>1. PICK n : n = caller[c].target
  OBVIOUS
<1>2. run' = [run EXCEPT ![n].cancelled = TRUE]
  BY <1>1 DEF Cancel
<1> SUFFICES ASSUME NEW r \in 1..MaxRuns
             PROVE  LET x == run[r]
                        y == run'[r]
                    IN /\ Stacked(y) /\ y.pc = x.pc /\ y.ret = x.ret /\ y.at = x.at
                       /\ y.ctx = x.ctx /\ y.mode = x.mode /\ y.res = x.res
                       /\ y.copy = x.copy /\ (x.cancelled => y.cancelled)
  OBVIOUS
<1>3. PICK x : x = run[r] /\ Stacked(x)
  BY DEF StackInv
<1>4. PICK y : y = run'[r]
  OBVIOUS
<1>5. y = x \/ y = [x EXCEPT !.cancelled = TRUE]
  BY <1>2, <1>3, <1>4 DEF IInv, RunsSound
<1>6. CASE y = x
  BY <1>3, <1>4, <1>6, Zenon
<1>7. CASE y = [x EXCEPT !.cancelled = TRUE]
  <2>1. /\ y \in RunRec /\ y.pc = x.pc /\ y.ret = x.ret /\ y.at = x.at /\ y.ctx = x.ctx
        /\ y.mode = x.mode /\ y.res = x.res /\ y.copy = x.copy /\ y.up = x.up
        /\ y.cancelled = TRUE
    BY <1>3, <1>7 DEF Stacked, RunRec
  <2>2. Stacked(y)
    BY <1>3, <2>1, Zenon DEF Stacked, At, InProgram
  <2> QED
    BY <1>3, <1>4, <2>1, <2>2, Zenon
<1> QED
  BY <1>5, <1>6, <1>7

(* The parts of the invariant, put together.                               *)
LEMMA StackParts ==
  ASSUME StackInv, state' \in States, current' \in 0..MaxRuns,
         \A r \in 1..MaxRuns : Stacked(run'[r]), NEW c, NEW p, Called(c, p),
         stored' \in [Contexts -> BOOLEAN], last' \in Contexts \cup {NoContext},
         quitting' \in BOOLEAN
  PROVE  StackInv'
  BY DEF StackInv, Called

(* What each action of a caller does.                                      *)
LEMMA ConnectEffect ==
  ASSUME IInv, StackInv, NEW c \in Callers, NEW ctx \in Contexts, NEW mode \in Modes,
         Connect(c, ctx, mode)
  PROVE  Called(c, "free") /\ StackInv'
<1>1. Called(c, "free")
  BY Resets DEF Connect, CallPcs
<1>2. /\ current' \in 0..MaxRuns /\ \A r \in 1..MaxRuns : Stacked(run'[r])
  BY AcceptStack DEF Connect
<1> QED
  BY <1>1, <1>2, StackParts DEF Connect, StackInv

LEMMA CallersEffect ==
  ASSUME IInv, StackInv, NEW c \in Callers, NEW ctx
  PROVE  /\ Refuse(c, ctx) \/ CopyState(c) => Called(c, "log")
         /\ Disconnect(c) => Called(c, "state")
         /\ Shutdown(c) => Called(c, "persist")
         /\ PersistShutdown(c) => Called(c, "state")
         /\ ReadState(c) => Called(c, "look")
         /\ Look(c) => /\ Called(c, IF current = 0 THEN "publish" ELSE "cancel")
                       /\ caller'[c].target = current
         /\ PublishIdle(c) \/ Done(c) => Called(c, "mark") \/ Called(c, "returned")
         /\ Cancel(c) => Called(c, "wait") /\ caller'[c].target = caller[c].target
         /\ TimedOut(c) => Called(c, "free")
         /\ MarkDisconnected(c) => Called(c, "returned")
<1>1. {"state", "persist", "look", "publish", "cancel", "mark", "wait", "free", "returned"}
        \subseteq CallPcs \ {"log", "plan"}
  BY DEF CallPcs
<1>2. state \in States \cup {NoState} /\ NoState \in States \cup {NoState}
  BY DEF StackInv
<1>3. Refuse(c, ctx) \/ CopyState(c) => Called(c, "log")
  BY Copies DEF Refuse, CopyState
<1>4. /\ Disconnect(c) => Called(c, "state")
      /\ Shutdown(c) => Called(c, "persist")
      /\ TimedOut(c) => Called(c, "free")
  BY <1>1, Resets DEF Disconnect, Shutdown, TimedOut
<1>5. /\ PersistShutdown(c) => Called(c, "state")
      /\ ReadState(c) => Called(c, "look")
      /\ Cancel(c) => Called(c, "wait") /\ caller'[c].target = caller[c].target
      /\ MarkDisconnected(c) => Called(c, "returned")
  BY <1>1, <1>2, Proceeds DEF PersistShutdown, ReadState, Cancel, MarkDisconnected
<1>6. PublishIdle(c) \/ Done(c) => Called(c, "mark") \/ Called(c, "returned")
  BY <1>1, <1>2, Proceeds DEF PublishIdle, Done
<1>7. Look(c) => /\ Called(c, IF current = 0 THEN "publish" ELSE "cancel")
                 /\ caller'[c].target = current
  BY <1>1, LooksUp DEF Look
<1> QED
  BY <1>3, <1>4, <1>5, <1>6, <1>7

LEMMA CallerStack ==
  ASSUME IInv, StackInv, NEW c \in Callers, NEW ctx,
         \/ ctx \in Contexts /\ Refuse(c, ctx)
         \/ Disconnect(c) \/ Shutdown(c) \/ CopyState(c) \/ CallerSteps(c)
  PROVE  StackInv'
<1>1. /\ state \in States /\ current \in 0..MaxRuns /\ \A r \in 1..MaxRuns : Stacked(run[r])
      /\ stored \in [Contexts -> BOOLEAN] /\ last \in Contexts \cup {NoContext}
      /\ quitting \in BOOLEAN /\ caller[c] \in CallRec
  BY DEF StackInv
<1>2. CASE \/ ctx \in Contexts /\ Refuse(c, ctx)
           \/ Disconnect(c) \/ Shutdown(c) \/ CopyState(c)
  <2>1. \E p : Called(c, p)
    BY <1>2, CallersEffect
  <2> QED
    BY <1>1, <1>2, <2>1, StackParts DEF Refuse, Disconnect, Shutdown, CopyState
<1>3. CASE ReadState(c) \/ Look(c) \/ Done(c) \/ TimedOut(c)
  <2>1. \E p : Called(c, p)
    BY <1>3, CallersEffect
  <2> QED
    BY <1>1, <1>3, <2>1, StackParts DEF ReadState, Look, Done, TimedOut
<1>4. CASE PublishCopy(c)
  <2>1. caller[c].seen \in States
    BY <1>4 DEF PublishCopy, StackInv, Calling
  <2>2. \E p : Called(c, p)
    <3>1. PICK p : p = IF c \in Restorers THEN "over" ELSE "free"
      OBVIOUS
    <3>2. p \in CallPcs \ {"log", "plan"} /\ TRUE \in BOOLEAN
      BY <3>1 DEF CallPcs
    <3>3. caller' = [caller EXCEPT ![c] = [NoCall EXCEPT !.pc = p]]
      BY <1>4, <3>1 DEF PublishCopy
    <3> QED
      BY <3>2, <3>3, Resets
  <2> QED
    BY <1>1, <1>4, <2>1, <2>2, StackParts DEF PublishCopy
<1>5. CASE PersistShutdown(c)
  <2>1. Called(c, "state")
    BY <1>5, CallersEffect
  <2>2. stored' \in [Contexts -> BOOLEAN]
    BY <1>1, <1>5 DEF PersistShutdown
  <2> QED
    BY <1>1, <1>5, <2>1, <2>2, StackParts DEF PersistShutdown
<1>6. CASE PublishIdle(c)
  <2>1. \E p : Called(c, p)
    BY <1>6, CallersEffect
  <2>2. state' \in States
    <3>1. PICK s \in States \cup {NoState} : s = caller[c].seen
      BY <1>1 DEF CallRec
    <3>2. [s EXCEPT !.phase = "idle"] \in States
      BY DEF States, NoState, Phases
    <3> QED
      BY <1>6, <3>1, <3>2 DEF PublishIdle
  <2> QED
    BY <1>1, <1>6, <2>1, <2>2, StackParts DEF PublishIdle
<1>7. CASE Cancel(c)
  <2>1. Called(c, "wait")
    BY <1>7, CallersEffect
  <2>2. \A r \in 1..MaxRuns : Stacked(run'[r])
    BY <1>7, CancelStack
  <2> QED
    BY <1>1, <1>7, <2>1, <2>2, StackParts DEF Cancel
<1>8. CASE MarkDisconnected(c)
  <2>1. Called(c, "returned")
    BY <1>8, CallersEffect
  <2>2. stored' \in [Contexts -> BOOLEAN]
    BY <1>1, <1>8 DEF MarkDisconnected
  <2> QED
    BY <1>1, <1>8, <2>1, <2>2, StackParts DEF MarkDisconnected
<1> QED
  BY <1>2, <1>3, <1>4, <1>5, <1>6, <1>7, <1>8 DEF CallerSteps

(* RestoreStartup.                                                         *)
LEMMA RestoreStack ==
  ASSUME IInv, StackInv, NEW c \in Restorers, NEW mode,
         \/ RestoreScan(c) \/ (mode \in Modes /\ RestoreConnect(c, mode))
         \/ PublishCopy(c)
  PROVE  StackInv'
<1>1. /\ state \in States /\ current \in 0..MaxRuns /\ \A r \in 1..MaxRuns : Stacked(run[r])
      /\ stored \in [Contexts -> BOOLEAN] /\ last \in Contexts \cup {NoContext}
      /\ quitting \in BOOLEAN /\ caller[c] \in CallRec
  BY DEF StackInv
<1>2. "over" \in CallPcs \ {"log", "plan"} /\ "plan" \in CallPcs
  BY DEF CallPcs
<1>3. CASE RestoreScan(c)
  <2>1. \E p : Called(c, p)
    <3>1. CASE last # NoContext /\ stored[last]
      <4>1. PICK s : s = [phase |-> "idle", ctx |-> last]
        OBVIOUS
      <4>2. s \in States /\ s \in States \cup {NoState} /\ s.ctx \in Contexts
        BY <1>1, <3>1, <4>1 DEF States, Phases
      <4>3. caller' = [caller EXCEPT ![c] = [NoCall EXCEPT !.pc = "plan", !.seen = s]]
        BY <1>3, <3>1, <4>1 DEF RestoreScan
      <4>4. PICK k \in CallRec : k.pc = "plan" /\ k.seen = s /\ caller' = [caller EXCEPT ![c] = k]
        <5>1. PICK k : k = [NoCall EXCEPT !.pc = "plan", !.seen = s]
          OBVIOUS
        <5>2. "plan" \in CallPcs /\ s \in States \cup {NoState} /\ TRUE \in BOOLEAN
          BY <1>2, <4>2
        <5>3. k \in CallRec /\ k.pc = "plan" /\ k.seen = s
          BY <5>1, <5>2, NewCall, Zenon
        <5> QED
          BY <4>3, <5>1, <5>3
      <4> QED
        BY <4>2, <4>4, CallMove DEF Called
    <3>2. CASE ~(last # NoContext /\ stored[last])
      BY <1>2, <1>3, <3>2, Resets DEF RestoreScan
    <3> QED
      BY <3>1, <3>2
  <2> QED
    BY <1>1, <1>3, <2>1, StackParts DEF RestoreScan
<1>4. CASE mode \in Modes /\ RestoreConnect(c, mode)
  <2>1. PICK x \in Contexts : x = caller[c].seen.ctx
    BY <1>4 DEF RestoreConnect, StackInv, Calling
  <2>2. CASE /\ Accept(caller[c].seen.ctx, mode)
             /\ caller' = [caller EXCEPT ![c] = [NoCall EXCEPT !.pc = "over"]]
    <3>1. Called(c, "over")
      BY <1>2, <2>2, Resets
    <3>2. current' \in 0..MaxRuns /\ \A r \in 1..MaxRuns : Stacked(run'[r])
      BY <1>4, <2>1, <2>2, AcceptStack
    <3> QED
      BY <1>1, <1>4, <3>1, <3>2, StackParts DEF RestoreConnect
  <2>3. CASE /\ current # 0 /\ UNCHANGED <<current, run, started>>
             /\ caller' = [caller EXCEPT ![c] = [NoCall EXCEPT !.pc = "log", !.seen = state]]
    <3>1. Called(c, "log")
      BY <2>3, Copies
    <3> QED
      BY <1>1, <1>4, <2>3, <3>1, StackParts DEF RestoreConnect
  <2> QED
    BY <1>4, <2>2, <2>3 DEF RestoreConnect
<1>5. CASE PublishCopy(c)
  <2>1. caller[c].seen \in States
    BY <1>5 DEF PublishCopy, StackInv, Calling
  <2>2. Called(c, "over")
    BY <1>2, <1>5, Resets DEF PublishCopy
  <2> QED
    BY <1>1, <1>5, <2>1, <2>2, StackParts DEF PublishCopy
<1> QED
  BY <1>3, <1>4, <1>5

LEMMA NextStack == IInv /\ StackInv /\ [Next]_vars => StackInv'
<1> SUFFICES ASSUME IInv, StackInv, [Next]_vars PROVE StackInv'
  OBVIOUS
<1>1. CASE UNCHANGED vars
  BY <1>1 DEF vars, StackInv, Calling
<1>2. CASE \E c \in Callers, ctx \in Contexts, mode \in Modes : Connect(c, ctx, mode)
  BY <1>2, ConnectEffect
<1>3. CASE \E c \in Callers, ctx \in Contexts : Refuse(c, ctx)
  BY <1>3, CallerStack
<1>4. CASE \E c \in Callers : Disconnect(c) \/ Shutdown(c) \/ CopyState(c) \/ CallerSteps(c)
  BY <1>4, CallerStack
<1>5. CASE \E c \in Restorers, mode \in Modes : RestoreScan(c) \/ RestoreConnect(c, mode)
  BY <1>5, RestoreStack
<1>6. CASE \E c \in Restorers : PublishCopy(c)
  BY <1>6, RestoreStack
<1>7. CASE \E r \in 1..MaxRuns : RunSteps(r) \/ Incidents(r)
  BY <1>7, RunStepStack
<1> QED
  BY <1>1, <1>2, <1>3, <1>4, <1>5, <1>6, <1>7 DEF Next

LEMMA Stacks == Spec => [](IInv /\ StackInv)
  BY InitOK, NextOK, InitStack, NextStack, PTL DEF Spec

(* Dependents are torn down before what they use, whatever runs, callers,  *)
(* failures, cancellations and replaced port-forwards come together: the   *)
(* stack of sessionRuntime never holds a resource without what it needs    *)
(* below it.                                                               *)
THEOREM DependentsCloseFirst == Spec => []TeardownOrder
<1>1. StackInv => TeardownOrder
  <2> SUFFICES ASSUME StackInv, NEW r \in 1..MaxRuns
               PROVE  /\ \A n \in Needs : Has(run[r].res, n[1]) => Has(run[r].res, n[2])
                      /\ run[r].up => Has(run[r].res, "forward")
    BY DEF TeardownOrder, Has
  <2>1. PICK s \in Seq(Resources) : s = run[r].res /\ Ordered(s) /\ (run[r].up => Has(s, "guard"))
    BY DEF StackInv, Stacked, RunRec
  <2>2. \A n \in Needs : Has(s, n[1]) => Has(s, n[2])
    <3> SUFFICES ASSUME NEW n \in Needs, Has(s, n[1]) PROVE Has(s, n[2])
      OBVIOUS
    <3>1. PICK i \in 1..Len(s) : s[i] = n[1]
      BY DEF Has
    <3>2. PICK j \in 1..(i - 1) : s[j] = n[2]
      BY <2>1, <3>1 DEF Ordered
    <3> QED
      BY <3>2 DEF Has
  <2>3. Has(s, "guard") => Has(s, "forward")
    BY <2>2 DEF Needs
  <2> QED
    BY <2>1, <2>2, <2>3
<1> QED
  BY <1>1, Stacks, PTL

(* The variables of the session have their types.                          *)
THEOREM SessionTypeCorrect == Spec => []TypeOK
<1>1. IInv /\ StackInv => TypeOK
  <2> SUFFICES ASSUME IInv, StackInv PROVE TypeOK
    OBVIOUS
  <2>1. Len(Setup \o TunTail) = 35
    <3>1. Program("tun") = Setup \o TunTail /\ LastLine("tun") = 35
      BY DEF Program, LastLine, ShowAt
    <3> QED
      BY <3>1, ProgramLines
  <2>2. 1..Len(Setup \o TunTail) + 1 = 1..36
    BY <2>1
  <2>3. \A r \in 1..MaxRuns : run[r] \in
          [pc : RunPcs, ret : RunPcs, at : 1..36,
           ctx : Contexts \cup {NoContext}, mode : Modes \cup {"none"},
           cancelled : BOOLEAN, copy : States \cup {NoState},
           res : Seq(Resources), up : BOOLEAN,
           tries : 0..RecoveryAttempts, losses : 0..MaxLosses]
    <3>1. 0..(RecoveryAttempts - 1) \subseteq 0..RecoveryAttempts
      BY SessionAssumption
    <3> QED
      BY <3>1 DEF StackInv, Stacked, RunRec
  <2>4. run \in [1..MaxRuns ->
          [pc : RunPcs, ret : RunPcs, at : 1..Len(Setup \o TunTail) + 1,
           ctx : Contexts \cup {NoContext}, mode : Modes \cup {"none"},
           cancelled : BOOLEAN, copy : States \cup {NoState},
           res : Seq(Resources), up : BOOLEAN,
           tries : 0..RecoveryAttempts, losses : 0..MaxLosses]]
    BY <2>2, <2>3 DEF IInv, RunsSound
  <2> QED
    BY <2>4, Zenon DEF TypeOK, StackInv, CallRec, IInv, Counted
<1> QED
  BY <1>1, Stacks, PTL

-----------------------------------------------------------------------------
(* One user: no two callers, none that logs, no startup restore.           *)
OneUser == (\A c, d \in Callers : c = d) /\ ~Eager /\ Restorers = {}

Serving(x) == At(x, "serve") \/ At(x, "recover")
Showing(x) == Serving(x) \/ (At(x, "setup") /\ x.at > ShowAt(x.mode))

(* What the published state s says of an active run.                       *)
Shown(x, s) ==
    /\ x.pc = "log" => x.copy = s
    /\ (At(x, "setup") /\ x.at > 2) => s.phase # "idle"
    /\ Showing(x) => s = [phase |-> "connected", ctx |-> x.ctx]
    /\ x.pc = "errlog" => s.phase = "error"
    /\ (At(x, "close") \/ x.pc = "settle") => (x.cancelled \/ s.phase = "error")
    /\ x.pc = "idle" => x.copy.phase = "idle"
    /\ x.pc = "clear" => s.phase \in {"idle", "error"}
    /\ x.res # <<>> => s.phase # "idle"

(* Where the one caller can be while a run is active.                      *)
CallersOK == \A c \in Callers :
    /\ caller[c].pc \notin {"log", "scan", "plan", "over"}
    /\ caller[c].pc \in {"publish", "mark"} => current = 0
    /\ caller[c].pc \in {"cancel", "wait"} =>
         current \in {0, caller[c].target} /\ caller[c].target \in 1..MaxRuns
    /\ caller[c].pc = "persist" => quitting

ShownInv ==
    /\ current # 0 => Active(current)
    /\ current = 0 => state.phase \in {"idle", "error"}
    /\ \A r \in 1..MaxRuns : Active(r) => Shown(run[r], state)
    /\ CallersOK

(* What the store says of it.                                              *)
Kept(x, s, q) ==
    ((Serving(x) \/ (At(x, "setup") /\ x.at > KeepAt(x.mode))) /\ ~x.cancelled /\ ~q)
        => s[x.ctx]
KeptInv == \A r \in 1..MaxRuns : Active(r) => Kept(run[r], stored, quitting)

Truth(r) == Shown(run[r], state) /\ Kept(run[r], stored, quitting)
TruthInv == ShownInv /\ KeptInv

(* The active run takes a step and stays active.                           *)
LEMMA RunTruth ==
  ASSUME IInv, TruthInv, NEW r \in 1..MaxRuns, Active(r),
         run' = [run EXCEPT ![r] = run'[r]], run'[r].pc \notin {"none", "ended", "done"},
         Shown(run'[r], state'), Kept(run'[r], stored', quitting'),
         UNCHANGED <<current, caller, quitting>>
  PROVE  TruthInv'
<1>1. current = r /\ r # 0
  BY DEF IInv, ActiveIsCurrent
<1>2. \A q \in 1..MaxRuns : run'[q] = IF q = r THEN run'[r] ELSE run[q]
  BY DEF IInv, RunsSound
<1>3. \A q \in 1..MaxRuns : Active(q)' => q = r
  BY <1>1, <1>2 DEF IInv, ActiveIsCurrent, Active
<1>4. Active(r)'
  BY DEF Active
<1>5. \A q \in 1..MaxRuns : Active(q)' => Shown(run'[q], state') /\ Kept(run'[q], stored', quitting')
  BY <1>3
<1>6. CallersOK'
  BY DEF TruthInv, ShownInv, CallersOK
<1>7. ShownInv'
  BY <1>1, <1>4, <1>5, <1>6 DEF ShownInv
<1>8. KeptInv'
  BY <1>5 DEF KeptInv
<1> QED
  BY <1>7, <1>8 DEF TruthInv

(* A line of the program that neither publishes nor writes the flag.       *)
LEMMA LineTruth ==
  ASSUME NEW x, NEW y, NEW s, NEW st, NEW q, NEW line, Stacked(x), Stacked(y),
         x.pc = "setup", LineFacts(x.mode, x.at, line), Keeps(x, y), Onward(x, y),
         line.op \notin {"publish", "persist"}, Shown(x, s), Kept(x, st, q),
         \/ y.pc \in {"setup", "serve"}
         \/ y.pc = "log" /\ y.ret = "setup" /\ y.copy = s
  PROVE  Shown(y, s) /\ Kept(y, st, q)
<1>1. PICK mode \in Modes : mode = x.mode /\ mode = y.mode /\ x.ctx = y.ctx
                           /\ x.cancelled = y.cancelled
  BY DEF Stacked, At, InProgram, Keeps
<1>2. PICK i \in Nat : i = x.at
  BY DEF Stacked, RunRec
<1>3. PICK show \in 28..32 : /\ show = ShowAt(mode) /\ KeepAt(mode) = show + 2
                             /\ LastLine(mode) = show + 3
  BY ModeLines
<1>4. i # 2 /\ i # show /\ i # show + 2
  <2>1. LineFacts(mode, i, line)
    BY <1>1, <1>2, Zenon
  <2>2. i # 2 /\ i # ShowAt(mode) /\ i # KeepAt(mode)
    BY <2>1 DEF LineFacts
  <2> QED
    BY <1>3, <2>2
<1>5. /\ i > 2 => s.phase # "idle"
      /\ i > show => s = [phase |-> "connected", ctx |-> x.ctx]
      /\ (i > show + 2 /\ ~x.cancelled /\ ~q) => st[x.ctx]
  <2>1. /\ x.at > 2 => s.phase # "idle"
        /\ x.at > ShowAt(x.mode) => s = [phase |-> "connected", ctx |-> x.ctx]
        /\ (x.at > KeepAt(x.mode) /\ ~x.cancelled /\ ~q) => st[x.ctx]
    BY DEF Shown, Kept, Showing, At
  <2> QED
    BY <2>1, <1>1, <1>2, <1>3
<1>6. \/ At(y, "setup") /\ y.at = i + 1 /\ ~Serving(y)
      \/ i = show + 3 /\ y.pc = "serve" /\ ~At(y, "setup")
  <2>1. \/ At(y, "setup") /\ y.at = x.at + 1
        \/ x.at = LastLine(x.mode) /\ y.pc = "serve"
    BY DEF Onward
  <2>2. At(y, "setup") => ~Serving(y)
    BY DEF At, Serving
  <2>3. y.pc = "serve" => ~At(y, "setup")
    BY DEF At
  <2> QED
    BY <1>1, <1>2, <1>3, <2>1, <2>2, <2>3, Zenon
<1>7. Showing(y) => i > show
  <2>1. y.at > ShowAt(y.mode) => y.at > show
    BY <1>1, <1>3
  <2>2. CASE At(y, "setup") /\ y.at = i + 1 /\ ~Serving(y)
    BY <2>1, <2>2, <1>4 DEF Showing
  <2>3. CASE i = show + 3 /\ y.pc = "serve" /\ ~At(y, "setup")
    BY <2>3
  <2> QED
    BY <1>6, <2>2, <2>3
<1>8. (Serving(y) \/ (At(y, "setup") /\ y.at > KeepAt(y.mode))) => i > show + 2
  <2>1. y.at > KeepAt(y.mode) => y.at > show + 2
    BY <1>1, <1>3
  <2>2. CASE At(y, "setup") /\ y.at = i + 1 /\ ~Serving(y)
    BY <2>1, <2>2, <1>4
  <2>3. CASE i = show + 3 /\ y.pc = "serve" /\ ~At(y, "setup")
    BY <2>3
  <2> QED
    BY <1>6, <2>2, <2>3
<1>9. Kept(y, st, q)
  BY <1>1, <1>5, <1>8 DEF Kept
<1>10. (At(y, "setup") /\ y.at > 2) => i > 2
  BY <1>4, <1>6
<1>11. y.res # <<>> => i > 2
  <2>1. At(y, "setup") => (y.at <= 2 => y.res = <<>>)
    BY DEF Stacked, InProgram, Passed
  <2> QED
    BY <1>4, <1>6, <2>1
<1>12. /\ y.pc = "log" => y.copy = s
       /\ y.pc \notin {"errlog", "settle", "idle", "clear"} /\ ~At(y, "close")
  BY DEF At
<1> QED
  BY <1>1, <1>5, <1>7, <1>9, <1>10, <1>11, <1>12 DEF Shown

(* A line that publishes: Connected is the last phase to be published.     *)
LEMMA PublishTruth ==
  ASSUME NEW x, NEW y, NEW s, NEW st, NEW q, NEW line, Stacked(x), Stacked(y),
         x.pc = "setup", LineFacts(x.mode, x.at, line), Keeps(x, y), Onward(x, y),
         line.op = "publish", y.pc \in {"setup", "serve"},
         s = [phase |-> line.phase, ctx |-> x.ctx], Kept(x, st, q)
  PROVE  Shown(y, s) /\ Kept(y, st, q)
<1>1. PICK mode \in Modes : mode = x.mode /\ mode = y.mode /\ x.ctx = y.ctx
                           /\ x.cancelled = y.cancelled
  BY DEF Stacked, At, InProgram, Keeps
<1>2. PICK i \in Nat : i = x.at
  BY DEF Stacked, RunRec
<1>3. PICK show \in 28..32 : /\ show = ShowAt(mode) /\ KeepAt(mode) = show + 2
                             /\ LastLine(mode) = show + 3
  BY ModeLines
<1>4. i <= show /\ (i = show => line.phase = "connected") /\ s.phase # "idle"
  <2>1. LineFacts(mode, i, line)
    BY <1>1, <1>2, Zenon
  <2> QED
    BY <1>3, <2>1 DEF LineFacts
<1>5. At(y, "setup") /\ y.at = i + 1 /\ ~Serving(y) /\ y.pc = "setup"
  <2>1. \/ At(y, "setup") /\ y.at = x.at + 1
        \/ x.at = LastLine(x.mode)
    BY DEF Onward
  <2>2. x.at # LastLine(x.mode)
    BY <1>1, <1>2, <1>3, <1>4
  <2> QED
    BY <1>2, <2>1, <2>2 DEF At, Serving
<1>6. Showing(y) => s = [phase |-> "connected", ctx |-> y.ctx]
  <2>1. y.at > ShowAt(y.mode) => i = show
    BY <1>1, <1>2, <1>3, <1>4, <1>5
  <2> QED
    BY <1>1, <1>4, <1>5, <2>1 DEF Showing
<1>7. ~(y.at > KeepAt(y.mode))
  BY <1>1, <1>3, <1>4, <1>5
<1> QED
  BY <1>4, <1>5, <1>6, <1>7 DEF Shown, Kept, At

(* The line that writes the flag.                                          *)
LEMMA PersistTruth ==
  ASSUME NEW x, NEW y, NEW s, NEW st, NEW q, NEW line, Stacked(x), Stacked(y),
         x.pc = "setup", LineFacts(x.mode, x.at, line), Keeps(x, y), Onward(x, y),
         line.op = "persist", y.pc = "setup", Shown(x, s), st[x.ctx]
  PROVE  Shown(y, s) /\ Kept(y, st, q)
<1>1. PICK mode \in Modes : mode = x.mode /\ mode = y.mode /\ x.ctx = y.ctx
  BY DEF Stacked, At, InProgram, Keeps
<1>2. PICK i \in Nat : i = x.at
  BY DEF Stacked, RunRec
<1>3. PICK show \in 28..32 : show = ShowAt(mode)
  BY ModeLines
<1>4. i # 2 /\ i # show
  <2>1. LineFacts(mode, i, line)
    BY <1>1, <1>2, Zenon
  <2> QED
    BY <1>3, <2>1 DEF LineFacts
<1>5. At(y, "setup") /\ y.at = i + 1 /\ ~Serving(y)
  BY <1>2 DEF Onward, At, Serving
<1>6. /\ i > 2 => s.phase # "idle"
      /\ i > show => s = [phase |-> "connected", ctx |-> y.ctx]
  <2>1. /\ x.at > 2 => s.phase # "idle"
        /\ x.at > ShowAt(x.mode) => s = [phase |-> "connected", ctx |-> x.ctx]
    BY DEF Shown, Showing, At
  <2> QED
    BY <2>1, <1>1, <1>2, <1>3
<1>7. Showing(y) => s = [phase |-> "connected", ctx |-> y.ctx]
  <2>1. y.at > ShowAt(y.mode) => i > show
    BY <1>1, <1>3, <1>4, <1>5
  <2> QED
    BY <2>1, <1>5, <1>6 DEF Showing
<1>8. y.at > 2 => i > 2
  BY <1>4, <1>5
<1>9. y.at <= 2 => y.res = <<>>
  BY <1>5 DEF Stacked, InProgram, Passed
<1>10. y.res # <<>> => i > 2
  BY <1>4, <1>5, <1>9
<1> QED
  BY <1>1, <1>5, <1>6, <1>7, <1>8, <1>10 DEF Shown, Kept, At

(* Outside the program, to a place where less has to be shown.             *)
LEMMA PlaceTruth ==
  ASSUME NEW x, NEW y, NEW s, NEW st, NEW q, Keeps(x, y), ~At(y, "setup"),
         Shown(x, s), Kept(x, st, q), y.res # <<>> => x.res # <<>>,
         Serving(y) => Serving(x), y.pc = "log" => y.copy = s,
         y.pc = "errlog" => s.phase = "error",
         (At(y, "close") \/ y.pc = "settle") => (x.cancelled \/ s.phase = "error"),
         y.pc = "idle" => y.copy.phase = "idle",
         y.pc = "clear" => s.phase \in {"idle", "error"}
  PROVE  Shown(y, s) /\ Kept(y, st, q)
<1>1. Showing(y) => s = [phase |-> "connected", ctx |-> y.ctx]
  BY DEF Showing, Shown, Keeps
<1>2. Kept(y, st, q)
  BY DEF Kept, Keeps
<1> QED
  BY <1>1, <1>2 DEF Shown, Keeps

(* The steps of the run that leave it active.                              *)
LEMMA ActiveTruth ==
  ASSUME IInv, StackInv, TruthInv, NEW r \in 1..MaxRuns,
         RunSteps(r) \/ Incidents(r), ~ClearRun(r), ~CloseDone(r), StackInv'
  PROVE  TruthInv'
<1>1. PICK x : x = run[r]
  OBVIOUS
<1>2. PICK y : y = run'[r]
  OBVIOUS
<1>3. Stacked(x) /\ Stacked(y)
  BY <1>1, <1>2 DEF StackInv
<1>4. Active(r) /\ current = r
  BY DEF Active, RunSteps, Incidents, CheckContext, PublishPhase, CallReturns, CallFails,
     PersistConnected, LogInSetup, LogPublished, ServeCancelled, Redialed, Replaced,
     AttemptFails, Fail, PublishError, LogError, CloseResource, Closed, Settle, RunIdle,
     Tick, CoreExit, ControlLost, IInv, ActiveIsCurrent
<1>5. Shown(x, state) /\ Kept(x, stored, quitting)
  BY <1>1, <1>4 DEF TruthInv, ShownInv, KeptInv
<1>6. ASSUME Moved(r), y.pc \notin {"none", "ended", "done"},
             Shown(y, state'), Kept(y, stored', quitting'), UNCHANGED current, RunFrame
      PROVE  TruthInv'
  BY <1>2, <1>4, <1>6, RunTruth DEF Moved, RunFrame
<1>7. ASSUME Moved(r), y.res # <<>> => x.res # <<>>, ~At(y, "setup"),
             y.pc \notin {"none", "ended", "done"},
             Serving(y) => Serving(x), y.pc = "log" => y.copy = state,
             y.pc = "errlog" => state.phase = "error",
             (At(y, "close") \/ y.pc = "settle") => (x.cancelled \/ state.phase = "error"),
             y.pc = "idle" => y.copy.phase = "idle",
             y.pc = "clear" => state.phase \in {"idle", "error"},
             RunFrame, UNCHANGED <<state, current, stored>>
      PROVE  TruthInv'
  <2>1. Keeps(x, y)
    BY <1>1, <1>2, <1>7 DEF Moved
  <2>2. Shown(y, state) /\ Kept(y, stored, quitting)
    BY <1>5, <1>7, <2>1, PlaceTruth
  <2>3. quitting' = quitting
    BY <1>7 DEF RunFrame
  <2> QED
    BY <1>6, <1>7, <2>2, <2>3
<1>8. CASE CheckContext(r)
  <2>1. /\ Moved(r) /\ LineFacts(x.mode, x.at, Step(r)) /\ y.res = x.res
        /\ \/ x.cancelled /\ y.pc = "close"
           \/ Onward(x, y) /\ y.pc = "setup"
    BY <1>1, <1>2, <1>8, CheckEffect
  <2>2. /\ x.pc = "setup" /\ Step(r).op = "check" /\ RunFrame
        /\ UNCHANGED <<state, current, stored, quitting>>
    BY <1>1, <1>8 DEF CheckContext, RunFrame
  <2>3. CASE x.cancelled /\ y.pc = "close"
    BY <1>7, <2>1, <2>2, <2>3 DEF At, Serving
  <2>4. CASE Onward(x, y) /\ y.pc = "setup"
    <3>1. Keeps(x, y)
      BY <1>1, <1>2, <2>1 DEF Moved
    <3>2. Shown(y, state) /\ Kept(y, stored, quitting)
      BY <1>3, <1>5, <2>1, <2>2, <2>4, <3>1, LineTruth
    <3> QED
      BY <1>6, <2>1, <2>2, <2>4, <3>2
  <2> QED
    BY <2>1, <2>3, <2>4
<1>9. CASE LogInSetup(r)
  <2>1. /\ Moved(r) /\ LineFacts(x.mode, x.at, Step(r)) /\ Onward(x, y)
        /\ Logged(y, "setup")
    BY <1>1, <1>2, <1>9, LogEffect
  <2>2. /\ x.pc = "setup" /\ Step(r).op = "log" /\ RunFrame
        /\ UNCHANGED <<state, current, stored, quitting>>
    BY <1>1, <1>9 DEF LogInSetup, RunFrame
  <2>3. Keeps(x, y) /\ y.pc = "log" /\ y.ret = "setup" /\ y.copy = state
    BY <1>1, <1>2, <2>1 DEF Moved, Logged
  <2>4. Shown(y, state) /\ Kept(y, stored, quitting)
    BY <1>3, <1>5, <2>1, <2>2, <2>3, LineTruth
  <2> QED
    BY <1>6, <2>1, <2>2, <2>3, <2>4
<1>10. CASE CallReturns(r)
  <2>1. /\ Moved(r) /\ LineFacts(x.mode, x.at, Step(r)) /\ Onward(x, y)
        /\ y.pc \in {"setup", "serve"}
    BY <1>1, <1>2, <1>10, PublishEffect
  <2>2. /\ x.pc = "setup" /\ Step(r).op = "call" /\ RunFrame
        /\ UNCHANGED <<state, current, stored, quitting>>
    BY <1>1, <1>10 DEF CallReturns, RunFrame
  <2>3. Keeps(x, y)
    BY <1>1, <1>2, <2>1 DEF Moved
  <2>4. Shown(y, state) /\ Kept(y, stored, quitting)
    BY <1>3, <1>5, <2>1, <2>2, <2>3, LineTruth
  <2> QED
    BY <1>6, <2>1, <2>2, <2>4
<1>11. CASE PublishPhase(r)
  <2>1. /\ Moved(r) /\ LineFacts(x.mode, x.at, Step(r)) /\ Onward(x, y)
        /\ y.pc \in {"setup", "serve"}
    BY <1>1, <1>2, <1>11, PublishEffect
  <2>2. /\ x.pc = "setup" /\ Step(r).op = "publish" /\ RunFrame
        /\ UNCHANGED <<current, stored, quitting>>
    BY <1>1, <1>11 DEF PublishPhase, RunFrame
  <2>3. Keeps(x, y)
    BY <1>1, <1>2, <2>1 DEF Moved
  <2>4. PICK s : s = [phase |-> Step(r).phase, ctx |-> x.ctx]
    OBVIOUS
  <2>5. state' = s
    BY <1>1, <1>11, <2>4 DEF PublishPhase
  <2>6. Shown(y, s) /\ Kept(y, stored, quitting)
    BY <1>3, <1>5, <2>1, <2>2, <2>3, <2>4, PublishTruth
  <2> QED
    BY <1>6, <2>1, <2>2, <2>5, <2>6
<1>12. CASE PersistConnected(r)
  <2>1. /\ Moved(r) /\ LineFacts(x.mode, x.at, Step(r)) /\ Onward(x, y)
        /\ y.pc = "setup"
    BY <1>1, <1>2, <1>12, PersistEffect
  <2>2. /\ x.pc = "setup" /\ Step(r).op = "persist" /\ RunFrame
        /\ UNCHANGED <<state, current, quitting>>
    BY <1>1, <1>12 DEF PersistConnected, RunFrame
  <2>3. Keeps(x, y)
    BY <1>1, <1>2, <2>1 DEF Moved
  <2>4. PICK st : st = stored'
    OBVIOUS
  <2>5. st[x.ctx]
    <3>1. x.ctx \in Contexts
      BY <1>3, <2>2 DEF Stacked
    <3> QED
      BY <1>1, <1>12, <2>4, <3>1 DEF PersistConnected, StackInv
  <2>6. Shown(y, state) /\ Kept(y, st, quitting)
    BY <1>3, <1>5, <2>1, <2>2, <2>3, <2>5, PersistTruth
  <2> QED
    BY <1>6, <2>1, <2>2, <2>4, <2>6
<1>13. CASE CallFails(r)
  <2>1. Moved(r) /\ y.res = x.res /\ y.pc = "fail"
    <3>1. run' = [run EXCEPT ![r].pc = "fail"] /\ run[r].pc # "none"
      BY <1>13 DEF CallFails
    <3>2. "fail" \in {"fail", "close", "error", "errlog", "settle", "ended"}
      OBVIOUS
    <3> QED
      BY <1>1, <1>2, <3>1, <3>2, PlaceEffect
  <2> QED
    BY <1>7, <1>13, <2>1 DEF CallFails, At, Serving
<1>14. CASE LogPublished(r)
  <2>1. /\ Moved(r) /\ y.res = x.res /\ y.at = x.at /\ y.pc = x.ret /\ x.ret \in Returns
    BY <1>1, <1>2, <1>14, PublishedEffect
  <2>2. x.pc = "log" /\ state' = x.copy /\ RunFrame /\ UNCHANGED <<current, stored, quitting>>
    BY <1>1, <1>14 DEF LogPublished, RunFrame
  <2>3. state' = state
    BY <1>5, <2>2 DEF Shown
  <2>4. Keeps(x, y)
    BY <1>1, <1>2, <2>1 DEF Moved
  <2>5. /\ At(y, "setup") => At(x, "setup")
        /\ At(y, "close") => At(x, "close")
        /\ Serving(y) => Serving(x)
        /\ y.pc \notin {"log", "errlog", "settle", "idle", "clear", "none", "ended", "done"}
    BY <2>1, <2>2 DEF At, Serving, Returns
  <2>6. Showing(y) => Showing(x)
    <3>1. x.mode = y.mode
      BY <2>4 DEF Keeps
    <3> QED
      BY <2>1, <2>5, <3>1, Zenon DEF Showing
  <2>7. Shown(y, state)
    BY <1>5, <2>1, <2>4, <2>5, <2>6 DEF Shown, Keeps
  <2>8. Kept(y, stored, quitting)
    BY <1>5, <2>1, <2>4, <2>5, Zenon DEF Kept, Keeps
  <2> QED
    BY <1>6, <2>1, <2>2, <2>3, <2>5, <2>7, <2>8
<1>15. CASE ServeCancelled(r)
  <2>1. Moved(r) /\ y.res = x.res /\ (Logged(y, "close") \/ y.pc = "close")
    BY <1>1, <1>2, <1>15, ServeCancelledEffect
  <2> QED
    BY <1>1, <1>7, <1>15, <2>1 DEF ServeCancelled, Logged, At, Serving
<1>16. CASE Tick(r) \/ Redialed(r)
  <2>1. Moved(r) /\ y.res = x.res /\ Logged(y, "serve")
    <3>1. run' = [run EXCEPT ![r] = Logging(@, "serve")] /\ run[r].pc # "none"
      BY <1>16 DEF Tick, Redialed
    <3>2. "serve" \in {"serve", "fail", "close"}
      OBVIOUS
    <3> QED
      BY <1>1, <1>2, <3>1, <3>2, TickEffect
  <2> QED
    BY <1>1, <1>7, <1>16, <2>1 DEF Tick, Redialed, Logged, At, Serving
<1>17. CASE CoreExit(r)
  <2>1. Moved(r) /\ y.res = x.res /\ Logged(y, "fail")
    <3>1. run' = [run EXCEPT ![r] = Logging(@, "fail")] /\ run[r].pc # "none"
      BY <1>17 DEF CoreExit
    <3>2. "fail" \in {"serve", "fail", "close"}
      OBVIOUS
    <3> QED
      BY <1>1, <1>2, <3>1, <3>2, TickEffect
  <2> QED
    BY <1>7, <1>17, <2>1 DEF CoreExit, Logged, At, Serving
<1>18. CASE ControlLost(r)
  <2>1. /\ Moved(r) /\ y.res = x.res
        /\ (x.cancelled /\ y.pc = "close") \/ Logged(y, "recover")
    BY <1>1, <1>2, <1>18, LostEffect
  <2> QED
    BY <1>1, <1>7, <1>18, <2>1 DEF ControlLost, Logged, At, Serving
<1>19. CASE AttemptFails(r)
  <2>1. /\ Moved(r) /\ y.res = x.res
        /\ y.pc = "fail" \/ Logged(y, "recover")
    BY <1>1, <1>2, <1>19, AttemptEffect
  <2> QED
    BY <1>1, <1>7, <1>19, <2>1 DEF AttemptFails, Logged, At, Serving
<1>20. CASE Replaced(r)
  <2>1. Moved(r) /\ Logged(y, "serve")
    BY <1>1, <1>2, <1>20, ReplacedEffect
  <2>2. /\ x.pc = "recover" /\ RunFrame /\ UNCHANGED <<state, current, stored, quitting>>
    BY <1>1, <1>20 DEF Replaced, RunFrame
  <2>3. Keeps(x, y) /\ Serving(x) /\ Serving(y) /\ ~At(y, "setup") /\ ~At(y, "close")
    BY <1>1, <1>2, <2>1, <2>2 DEF Moved, Serving, At, Logged
  <2>4. state = [phase |-> "connected", ctx |-> y.ctx]
    BY <1>5, <2>3 DEF Shown, Showing, Keeps
  <2>5. Shown(y, state)
    BY <2>1, <2>3, <2>4 DEF Shown, Logged
  <2>6. Kept(y, stored, quitting)
    BY <1>5, <2>3 DEF Kept, Keeps
  <2> QED
    BY <1>6, <2>1, <2>2, <2>5, <2>6 DEF Logged
<1>21. CASE Fail(r)
  <2>1. PICK p \in {"close", "error"} : p = IF x.cancelled THEN "close" ELSE "error"
    OBVIOUS
  <2>2. Moved(r) /\ y.res = x.res /\ y.pc = p
    <3>1. run' = [run EXCEPT ![r].pc = p] /\ run[r].pc # "none"
      BY <1>1, <1>21, <2>1 DEF Fail
    <3>2. p \in {"fail", "close", "error", "errlog", "settle", "ended"}
      BY <2>1
    <3> QED
      BY <1>1, <1>2, <3>1, <3>2, PlaceEffect
  <2> QED
    BY <1>7, <1>21, <2>1, <2>2 DEF Fail, At, Serving
<1>22. CASE PublishError(r)
  <2>1. Moved(r) /\ y.res = x.res /\ y.pc = "errlog"
    <3>1. run' = [run EXCEPT ![r].pc = "errlog"] /\ run[r].pc # "none"
      BY <1>22 DEF PublishError
    <3>2. "errlog" \in {"fail", "close", "error", "errlog", "settle", "ended"}
      OBVIOUS
    <3> QED
      BY <1>1, <1>2, <3>1, <3>2, PlaceEffect
  <2>2. state'.phase = "error" /\ RunFrame /\ UNCHANGED <<current, stored, quitting>>
    BY <1>22 DEF PublishError, RunFrame
  <2>3. Shown(y, state') /\ Kept(y, stored, quitting)
    BY <2>1, <2>2 DEF Shown, Kept, At, Serving, Showing
  <2> QED
    BY <1>6, <2>1, <2>2, <2>3
<1>23. CASE LogError(r)
  <2>1. Moved(r) /\ y.res = x.res /\ Logged(y, "close")
    <3>1. run' = [run EXCEPT ![r] = Logging(@, "close")] /\ run[r].pc # "none"
      BY <1>23 DEF LogError
    <3>2. "close" \in {"serve", "fail", "close"}
      OBVIOUS
    <3> QED
      BY <1>1, <1>2, <3>1, <3>2, TickEffect
  <2>2. state.phase = "error"
    BY <1>1, <1>5, <1>23 DEF LogError, Shown
  <2> QED
    BY <1>7, <1>23, <2>1, <2>2 DEF LogError, Logged, At, Serving
<1>24. CASE CloseResource(r)
  <2>1. Moved(r) /\ y.pc = "close"
    BY <1>1, <1>2, <1>24, CloseEffect
  <2>2. x.res # <<>> /\ (x.cancelled \/ state.phase = "error")
    BY <1>1, <1>5, <1>24 DEF CloseResource, Shown, At
  <2> QED
    BY <1>7, <1>24, <2>1, <2>2 DEF CloseResource, At, Serving
<1>25. CASE Closed(r)
  <2>1. Moved(r) /\ y.res = x.res /\ y.pc = "settle"
    <3>1. run' = [run EXCEPT ![r].pc = "settle"] /\ run[r].pc # "none"
      BY <1>25 DEF Closed
    <3>2. "settle" \in {"fail", "close", "error", "errlog", "settle", "ended"}
      OBVIOUS
    <3> QED
      BY <1>1, <1>2, <3>1, <3>2, PlaceEffect
  <2>2. x.cancelled \/ state.phase = "error"
    BY <1>1, <1>5, <1>25 DEF Closed, Shown, At
  <2> QED
    BY <1>7, <1>25, <2>1, <2>2 DEF Closed, At, Serving
<1>26. CASE Settle(r)
  <2>1. /\ Moved(r) /\ y.res = x.res
        /\ \/ y.pc = "idle" /\ y.copy.phase = "idle"
           \/ y.pc = "clear" /\ (x.cancelled /\ current = r => state.phase = "idle")
    BY <1>1, <1>2, <1>26, SettleEffect
  <2>2. x.cancelled \/ state.phase = "error"
    BY <1>1, <1>5, <1>26 DEF Settle, Shown
  <2> QED
    BY <1>4, <1>7, <1>26, <2>1, <2>2 DEF Settle, At, Serving
<1>27. CASE RunIdle(r)
  <2>1. Moved(r) /\ y.res = x.res /\ y.pc = "clear"
    BY <1>1, <1>2, <1>27, IdleEffect
  <2>2. /\ x.pc = "idle" /\ state' = x.copy /\ x.copy.phase = "idle" /\ x.res = <<>>
        /\ RunFrame /\ UNCHANGED <<current, stored, quitting>>
    BY <1>1, <1>5, <1>27 DEF RunIdle, RunFrame, Shown, IInv, RunsSound, Sound, Empty
  <2>3. Shown(y, state') /\ Kept(y, stored, quitting)
    BY <2>1, <2>2 DEF Shown, Kept, At, Serving, Showing
  <2> QED
    BY <1>6, <2>1, <2>2, <2>3
<1> QED
  BY <1>8, <1>9, <1>10, <1>11, <1>12, <1>13, <1>14, <1>15, <1>16, <1>17, <1>18, <1>19,
     <1>20, <1>21, <1>22, <1>23, <1>24, <1>25, <1>26, <1>27 DEF RunSteps, Incidents

(* The end of the run.                                                     *)
LEMMA EndTruth ==
  ASSUME IInv, StackInv, TruthInv, NEW r \in 1..MaxRuns, ClearRun(r) \/ CloseDone(r)
  PROVE  TruthInv'
<1>1. \A q \in 1..MaxRuns : q # r => run'[q] = run[q]
  BY DEF ClearRun, CloseDone, IInv, RunsSound
<1>2. run'[r].pc \in {"ended", "done"}
  BY PlaceEffect, DoneEffect DEF ClearRun, CloseDone
<1>3. \A q \in 1..MaxRuns : Active(q)' => q # r /\ Active(q)
  BY <1>1, <1>2 DEF Active
<1>4. UNCHANGED <<state, stored, caller, quitting>>
  BY DEF ClearRun, CloseDone, RunFrame
<1>5. \A q \in 1..MaxRuns : Active(q)' => Shown(run'[q], state') /\ Kept(run'[q], stored', quitting')
  BY <1>1, <1>3, <1>4 DEF TruthInv, ShownInv, KeptInv
<1>6. CASE ClearRun(r)
  <2>1. run[r].pc = "clear" /\ Active(r) /\ current = r /\ current' = 0
    BY <1>6 DEF ClearRun, Active, IInv, ActiveIsCurrent
  <2>2. state'.phase \in {"idle", "error"}
    BY <1>4, <2>1 DEF TruthInv, ShownInv, Shown
  <2>3. CallersOK'
    BY <1>4, <2>1 DEF TruthInv, ShownInv, CallersOK
  <2> QED
    BY <1>5, <2>1, <2>2, <2>3 DEF TruthInv, ShownInv, KeptInv
<1>7. CASE CloseDone(r)
  <2>1. ~Active(r) /\ current' = current
    BY <1>7 DEF CloseDone, Active
  <2>2. current # 0 => Active(current)'
    <3> SUFFICES ASSUME current # 0 PROVE Active(current)'
      OBVIOUS
    <3>1. Active(current) /\ current \in 1..MaxRuns
      BY SessionAssumption DEF TruthInv, ShownInv, StackInv
    <3>2. run'[current] = run[current]
      BY <1>1, <2>1, <3>1
    <3> QED
      BY <2>1, <3>1, <3>2 DEF Active
  <2>3. CallersOK'
    BY <1>4, <2>1 DEF TruthInv, ShownInv, CallersOK
  <2> QED
    BY <1>4, <1>5, <2>1, <2>2, <2>3 DEF TruthInv, ShownInv, KeptInv
<1> QED
  BY <1>6, <1>7

(* The one user, while the runs stand still.                               *)
LEMMA UserTruth ==
  ASSUME OneUser, IInv, StackInv, TruthInv, NEW c \in Callers, NEW p, Called(c, p),
         UNCHANGED <<run, current>>, p \notin {"log", "scan", "plan", "over"},
         p \in {"publish", "mark"} => current = 0,
         p \in {"cancel", "wait"} =>
           current \in {0, caller'[c].target} /\ caller'[c].target \in 1..MaxRuns,
         p = "persist" => quitting',
         \/ current = 0 /\ state'.phase \in {"idle", "error"}
         \/ UNCHANGED state /\ (quitting' \/ UNCHANGED <<stored, quitting>>)
  PROVE  TruthInv'
<1>1. CallersOK'
  BY DEF OneUser, Called, CallersOK
<1>2. \A r \in 1..MaxRuns : Active(r)' <=> Active(r)
  BY DEF Active
<1>3. CASE current = 0 /\ state'.phase \in {"idle", "error"}
  <2>1. \A r \in 1..MaxRuns : ~Active(r)
    BY <1>3 DEF IInv, ActiveIsCurrent
  <2> QED
    BY <1>1, <1>2, <1>3, <2>1 DEF TruthInv, ShownInv, KeptInv
<1>4. CASE UNCHANGED state /\ (quitting' \/ UNCHANGED <<stored, quitting>>)
  <2>1. \A r \in 1..MaxRuns : Active(r)' => Shown(run'[r], state') /\ Kept(run'[r], stored', quitting')
    BY <1>2, <1>4 DEF TruthInv, ShownInv, KeptInv, Kept
  <2>2. (current # 0 => Active(current))'
    BY DEF TruthInv, ShownInv, Active
  <2> QED
    BY <1>1, <1>4, <2>1, <2>2 DEF TruthInv, ShownInv, KeptInv
<1> QED
  BY <1>3, <1>4

LEMMA CallerTruth ==
  ASSUME OneUser, IInv, StackInv, TruthInv, NEW c \in Callers,
         Disconnect(c) \/ Shutdown(c) \/ CallerSteps(c), ~Cancel(c)
  PROVE  TruthInv'
<1>1. /\ caller[c].pc \notin {"log", "scan", "plan", "over"}
      /\ caller[c].pc \in {"publish", "mark"} => current = 0
      /\ caller[c].pc \in {"cancel", "wait"} =>
           current \in {0, caller[c].target} /\ caller[c].target \in 1..MaxRuns
      /\ caller[c].pc = "persist" => quitting
  BY DEF TruthInv, ShownInv, CallersOK
<1>2. current \in 0..MaxRuns /\ quitting \in BOOLEAN
  BY DEF StackInv
<1>3. CASE Disconnect(c)
  BY <1>3, CallersEffect, UserTruth DEF Disconnect
<1>4. CASE Shutdown(c)
  <2>1. Called(c, "persist") /\ quitting' /\ UNCHANGED <<state, run, current>>
    BY <1>4, CallersEffect DEF Shutdown
  <2> QED
    BY <2>1, UserTruth
<1>5. CASE PersistShutdown(c)
  <2>1. Called(c, "state") /\ quitting' /\ UNCHANGED <<state, run, current>>
    BY <1>1, <1>5, CallersEffect DEF PersistShutdown
  <2> QED
    BY <2>1, UserTruth
<1>6. CASE ReadState(c)
  BY <1>6, CallersEffect, UserTruth DEF ReadState
<1>7. CASE Look(c)
  <2>1. PICK p : p = IF current = 0 THEN "publish" ELSE "cancel"
    OBVIOUS
  <2>2. Called(c, p) /\ caller'[c].target = current
    BY <1>7, <2>1, CallersEffect
  <2>3. UNCHANGED <<state, run, current, stored, quitting>>
    BY <1>7 DEF Look
  <2>4. current # 0 => current \in 1..MaxRuns
    BY <1>2, SessionAssumption
  <2> QED
    BY <2>1, <2>2, <2>3, <2>4, UserTruth
<1>8. CASE PublishIdle(c)
  <2>1. PICK p \in {"mark", "returned"} : Called(c, p)
    BY <1>8, CallersEffect
  <2>2. current = 0 /\ UNCHANGED <<run, current>> /\ state'.phase = "idle"
    <3>1. PICK s \in States \cup {NoState} : s = caller[c].seen
      BY DEF StackInv, CallRec
    <3>2. [s EXCEPT !.phase = "idle"].phase = "idle"
      BY DEF States, NoState
    <3> QED
      BY <1>1, <1>8, <3>1, <3>2 DEF PublishIdle
  <2> QED
    BY <2>1, <2>2, UserTruth
<1>9. CASE Done(c)
  <2>1. PICK p \in {"mark", "returned"} : Called(c, p)
    BY <1>9, CallersEffect
  <2>2. UNCHANGED <<state, run, current, stored, quitting>>
    BY <1>9 DEF Done
  <2>3. current = 0
    BY <1>1, <1>9 DEF Done, TruthInv, ShownInv, Active
  <2> QED
    BY <2>1, <2>2, <2>3, UserTruth
<1>10. CASE TimedOut(c)
  BY <1>10, CallersEffect, UserTruth DEF TimedOut
<1>11. CASE MarkDisconnected(c)
  <2>1. Called(c, "returned") /\ current = 0 /\ UNCHANGED <<state, run, current>>
    BY <1>1, <1>11, CallersEffect DEF MarkDisconnected
  <2>2. state'.phase \in {"idle", "error"}
    BY <2>1 DEF TruthInv, ShownInv
  <2> QED
    BY <2>1, <2>2, UserTruth
<1>12. ~PublishCopy(c)
  BY <1>1 DEF PublishCopy
<1> QED
  BY <1>3, <1>4, <1>5, <1>6, <1>7, <1>8, <1>9, <1>10, <1>11, <1>12 DEF CallerSteps

LEMMA CancelTruth ==
  ASSUME OneUser, IInv, StackInv, TruthInv, NEW c \in Callers, Cancel(c)
  PROVE  TruthInv'
<1>1. Called(c, "wait") /\ caller'[c].target = caller[c].target
  BY CallersEffect
<1>2. UNCHANGED <<state, current, stored, quitting>> /\ caller[c].pc = "cancel"
  BY DEF Cancel
<1>3. CallersOK'
  BY <1>1, <1>2 DEF OneUser, Called, CallersOK, TruthInv, ShownInv
<1>4. ASSUME NEW r \in 1..MaxRuns
      PROVE  /\ Active(r)' <=> Active(r)
             /\ Active(r) => Shown(run'[r], state') /\ Kept(run'[r], stored', quitting')
  <2>1. PICK x, y : x = run[r] /\ y = run'[r]
    OBVIOUS
  <2>2. /\ y.pc = x.pc /\ y.ret = x.ret /\ y.at = x.at /\ y.ctx = x.ctx
        /\ y.mode = x.mode /\ y.res = x.res /\ y.copy = x.copy
        /\ x.cancelled => y.cancelled
    BY <2>1, CancelStack, Zenon
  <2>3. Active(r) => Shown(x, state) /\ Kept(x, stored, quitting)
    BY <2>1 DEF TruthInv, ShownInv, KeptInv
  <2>4. Shown(x, state) => Shown(y, state)
    BY <2>2 DEF Shown, Showing, Serving, At
  <2>5. Kept(x, stored, quitting) => Kept(y, stored, quitting)
    BY <2>2, Zenon DEF Kept, Serving, At
  <2>6. Active(r)' <=> Active(r)
    BY <2>1, <2>2 DEF Active
  <2> QED
    BY <1>2, <2>1, <2>3, <2>4, <2>5, <2>6
<1>5. (current # 0 => Active(current))'
  <2> SUFFICES ASSUME current' # 0 PROVE Active(current)'
    OBVIOUS
  <2>1. PICK n \in 1..MaxRuns : n = current /\ n = current' /\ Active(n)
    BY <1>2, SessionAssumption DEF StackInv, TruthInv, ShownInv
  <2>2. Active(n)'
    BY <1>4, <2>1
  <2> QED
    BY <2>1, <2>2 DEF Active
<1> QED
  BY <1>2, <1>3, <1>4, <1>5 DEF TruthInv, ShownInv, KeptInv

LEMMA ConnectTruth ==
  ASSUME OneUser, IInv, StackInv, TruthInv, NEW c \in Callers, NEW ctx \in Contexts,
         NEW mode \in Modes, Connect(c, ctx, mode)
  PROVE  TruthInv'
<1>1. Called(c, "free")
  BY ConnectEffect
<1>2. CallersOK'
  BY <1>1 DEF OneUser, Called, CallersOK
<1>3. PICK n \in 1..MaxRuns : n = current'
  BY AcceptStack DEF Connect
<1>4. /\ \A r \in 1..MaxRuns : r # n => run'[r] = run[r]
      /\ run'[n].pc = "setup" /\ run'[n].at = 1 /\ run'[n].res = <<>>
  BY <1>3, AcceptStack DEF Connect
<1>5. current = 0 /\ UNCHANGED <<state, stored, quitting>>
  BY DEF Connect, Accept
<1>6. \A r \in 1..MaxRuns : ~Active(r)
  BY <1>5 DEF IInv, ActiveIsCurrent
<1>7. \A r \in 1..MaxRuns : Active(r)' => r = n
  BY <1>4, <1>6 DEF Active
<1>8. PICK y : y = run'[n]
  OBVIOUS
<1>9. y.mode \in Modes
  <2>1. Stacked(y)
    BY <1>8, AcceptStack DEF Connect
  <2> QED
    BY <2>1, <1>4, <1>8 DEF Stacked, At, InProgram
<1>10. Shown(y, state) /\ Kept(y, stored, quitting)
  <2>1. ShowAt(y.mode) > 1 /\ KeepAt(y.mode) > 1
    BY <1>9, ModeLines DEF ShowAt, KeepAt
  <2>2. y.pc = "setup" /\ y.at = 1 /\ y.res = <<>>
    BY <1>4, <1>8
  <2>3. ~Serving(y) /\ ~At(y, "close")
    BY <2>2 DEF Serving, At
  <2>4. ~(y.at > ShowAt(y.mode)) /\ ~(y.at > KeepAt(y.mode)) /\ ~(y.at > 2)
    <3>1. PICK a, b : a = ShowAt(y.mode) /\ b = KeepAt(y.mode) /\ a > 1 /\ b > 1 /\ a \in Nat /\ b \in Nat
      BY <2>1 DEF ShowAt, KeepAt
    <3> QED
      BY <2>2, <3>1
  <2> QED
    BY <2>2, <2>3, <2>4 DEF Shown, Kept, Showing
<1>11. Active(n)' /\ n # 0
  BY <1>4 DEF Active
<1> QED
  BY <1>2, <1>3, <1>5, <1>7, <1>8, <1>10, <1>11 DEF TruthInv, ShownInv, KeptInv

LEMMA InitTruth == OneUser /\ Init => TruthInv
<1> SUFFICES ASSUME OneUser, Init PROVE TruthInv
  OBVIOUS
<1>1. \A r \in 1..MaxRuns : ~Active(r)
  BY DEF Init, Active, NoRun
<1>2. \A c \in Callers : caller[c].pc = "free"
  BY DEF Init, OneUser, NoCall
<1> QED
  BY <1>1, <1>2 DEF Init, TruthInv, ShownInv, KeptInv, CallersOK

LEMMA NextTruth ==
  OneUser /\ IInv /\ StackInv /\ TruthInv /\ [Next]_vars => TruthInv'
<1> SUFFICES ASSUME OneUser, IInv, StackInv, TruthInv, [Next]_vars PROVE TruthInv'
  OBVIOUS
<1>1. StackInv'
  BY NextStack
<1>2. CASE UNCHANGED vars
  <2>1. \A r : Active(r)' <=> Active(r)
    BY <1>2 DEF vars, Active
  <2> QED
    BY <1>2, <2>1 DEF vars, TruthInv, ShownInv, KeptInv, CallersOK
<1>3. CASE \E c \in Callers, ctx \in Contexts, mode \in Modes : Connect(c, ctx, mode)
  BY <1>3, ConnectTruth
<1>4. CASE \E c \in Callers, ctx \in Contexts : Refuse(c, ctx)
  BY <1>4 DEF Refuse, OneUser
<1>5. CASE \E c \in Callers : Disconnect(c) \/ Shutdown(c) \/ CopyState(c) \/ CallerSteps(c)
  BY <1>5, CallerTruth, CancelTruth DEF CopyState, OneUser, CallerSteps
<1>6. CASE \E c \in Restorers, mode \in Modes : RestoreScan(c) \/ RestoreConnect(c, mode)
  BY <1>6 DEF OneUser
<1>7. CASE \E c \in Restorers : PublishCopy(c)
  BY <1>7 DEF OneUser
<1>8. CASE \E r \in 1..MaxRuns : RunSteps(r) \/ Incidents(r)
  BY <1>1, <1>8, ActiveTruth, EndTruth
<1> QED
  BY <1>2, <1>3, <1>4, <1>5, <1>6, <1>7, <1>8 DEF Next

LEMMA Truths == OneUser => (Spec => [](IInv /\ StackInv /\ TruthInv))
<1> SUFFICES ASSUME OneUser PROVE Spec => [](IInv /\ StackInv /\ TruthInv)
  OBVIOUS
<1>1. Init => IInv /\ StackInv /\ TruthInv
  BY InitOK, InitStack, InitTruth
<1>2. IInv /\ StackInv /\ TruthInv /\ [Next]_vars => (IInv /\ StackInv /\ TruthInv)'
  BY NextOK, NextStack, NextTruth
<1> QED
  BY <1>1, <1>2, PTL DEF Spec

(* For one user at a time, whatever fails, is cancelled, times out or is   *)
(* lost: Idle means everything is closed, Connected means there is a run,  *)
(* and a run that serves is shown as Connected to its own context.  The    *)
(* hypothesis is needed: a second goroutine that logs or disconnects can   *)
(* publish a stale copy (stateHub).                                        *)
THEOREM OneUserSeesTheTruth == OneUser => (Spec => []PhaseTruthful)
<1> SUFFICES ASSUME OneUser PROVE Spec => []PhaseTruthful
  OBVIOUS
<1>1. IInv /\ StackInv /\ TruthInv => PhaseTruthful
  <2> SUFFICES ASSUME IInv, StackInv, TruthInv PROVE PhaseTruthful
    OBVIOUS
  <2>1. IdleMeansClosed
    <3> SUFFICES ASSUME state.phase = "idle", NEW r \in 1..MaxRuns PROVE run[r].res = <<>>
      BY DEF IdleMeansClosed
    <3>1. CASE Active(r)
      BY <3>1 DEF TruthInv, ShownInv, Shown
    <3>2. CASE ~Active(r)
      BY <3>2 DEF Active, IInv, RunsSound, Sound, Empty
    <3> QED
      BY <3>1, <3>2
  <2>2. ConnectedIsLive
    BY DEF ConnectedIsLive, TruthInv, ShownInv
  <2>3. ServingIsShown
    <3> SUFFICES ASSUME NEW r \in 1..MaxRuns, run[r].pc = "serve"
                 PROVE  state = [phase |-> "connected", ctx |-> run[r].ctx]
      BY DEF ServingIsShown
    <3>1. Shown(run[r], state) /\ Showing(run[r])
      BY DEF Active, TruthInv, ShownInv, Showing, Serving, At
    <3> QED
      BY <3>1 DEF Shown
  <2> QED
    BY <2>1, <2>2, <2>3 DEF PhaseTruthful
<1> QED
  BY <1>1, Truths, PTL

(* For one user at a time, the context that is served is stored as the one *)
(* to reconnect, from the first tick of serve until a Disconnect or a      *)
(* Shutdown begins (persistConnectedMode, markDisconnected).               *)
THEOREM OneUserIsRemembered == OneUser => (Spec => []ServingIsStored)
<1> SUFFICES ASSUME OneUser PROVE Spec => []ServingIsStored
  OBVIOUS
<1>1. TruthInv => ServingIsStored
  BY DEF TruthInv, KeptInv, Kept, Serving, At, Active, ServingIsStored
<1> QED
  BY <1>1, Truths, PTL
=============================================================================
