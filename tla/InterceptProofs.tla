-------------------------- MODULE InterceptProofs --------------------------
(* Machine-checked proofs about Intercept, for every value of its constants. *)
EXTENDS Intercept, TLAPS

-----------------------------------------------------------------------------
(* Typing.                                                                  *)

(* What the pc of a goroutine implies about its record r.                   *)
ThreadOK(t, r) ==
    /\ r.pc # "idle" => r.key \in Keys
    /\ r.pc \in InStart => /\ t \in Callers /\ r.conn \in Conns /\ r.res # None
                           /\ r.ip \in 1..MaxPods
    /\ r.pc = "register" => r.n < NPorts
    /\ r.pc = "drop" => r.conn \in Conns /\ r.n > 0
ThreadsOK == \A t \in Threads : ThreadOK(t, thr[t])

(* What each pc of a recovery implies about its record.                     *)
RunOK ==
    /\ run.pc \in {"dial", "rereg", "undo"} => run.ip \in 1..MaxPods
    /\ run.pc \in {"rereg", "undo"} => run.conn \in Conns

Typed == TypeOK /\ ThreadsOK /\ RunOK

(* The smallest values of the ranges.                                       *)
LEMMA Bounds ==
    /\ None = 0 /\ 1 \in 1..MaxPods
    /\ 0 \in 0..MaxRes /\ 0 \in 0..MaxGen /\ 0 \in 0..MaxPods /\ 0 \in 0..NPorts
    /\ 0 \in 0..MaxSessions /\ 0 \in 0..MaxAttempts
  BY ConstantsAssumption DEF None

LEMMA IdleTyped ==
    /\ IdleThread \in Thread /\ IdleThread.pc = "idle"
    /\ IdleRun \in Run /\ IdleRun.pc = "idle"
  <1>1. [k \in Keys |-> None] \in [Keys -> 0..MaxRes]
    BY Bounds
  <1>2. QED
    BY <1>1, Bounds DEF IdleThread, IdleRun, Thread, ThreadPC, Run, RunPC

LEMMA TypedInit == Init => Typed
  <1> SUFFICES ASSUME Init PROVE Typed
    OBVIOUS
  <1>1. ManagerType
    BY Bounds DEF Init, ManagerType
  <1>2. RegistryType
    BY Bounds DEF Init, RegistryType, NoRuntime, Runtime, None
  <1>3. OutsideType
    BY Bounds DEF Init, OutsideType, NoRedirect, Redirect, NoConn, Conn, None
  <1>4. TypeOK
    BY <1>1, <1>2, <1>3, IdleTyped DEF Init, TypeOK
  <1>5. ThreadsOK /\ RunOK
    BY IdleTyped DEF Init, ThreadsOK, ThreadOK, InStart, RunOK
  <1>6. QED
    BY <1>4, <1>5 DEF Typed

(* The sets of outcomes of a register and of an unregister request.         *)
LEMMA RegisterTyped ==
    ASSUME listeners \subseteq Listener, NEW l \in Listener, NEW r \in RegisterResults(l)
    PROVE  r.ls \subseteq Listener /\ r.says \in {"ack", "busy", "fail"}
  BY DEF RegisterResults

LEMMA UnregisterTyped ==
    ASSUME listeners \subseteq Listener, NEW c, NEW s, NEW ls \in UnregisterResults(c, s)
    PROVE  ls \subseteq Listener
  BY DEF UnregisterResults

LEMMA CloseTyped ==
    ASSUME conns \in [Conns -> Conn], NEW c
    PROVE  Close(c) \in [Conns -> Conn]
  BY DEF Close, Conn

LEMMA OpenTyped ==
    ASSUME conns \in [Conns -> Conn], NEW c, NEW k \in 0..MaxSessions
    PROVE  Open(c, k) \in [Conns -> Conn]
  BY DEF Open, Conn

(* A step that gives goroutine t the record r.                              *)
LEMMA ThreadUpdate ==
    ASSUME thr \in [Threads -> Thread], ThreadsOK, NEW t \in Threads,
           NEW r \in Thread, ThreadOK(t, r), thr' = [thr EXCEPT ![t] = r]
    PROVE  thr' \in [Threads -> Thread] /\ ThreadsOK'
  BY DEF ThreadsOK

LEMMA TypedBeginStart ==
    ASSUME Typed, NEW t \in Callers, NEW k \in Keys, NEW m \in Modes,
       BeginStart(t, k, m)
    PROVE  Typed'
  <1>1. nextRes + 1 \in 0..MaxRes /\ nextRes + 1 # 0
    BY ConstantsAssumption DEF Typed, TypeOK, BeginStart, RegistryType
  <1>2. ctl.client \in Conns /\ ctl.gen \in 0..MaxGen /\ gateway \in
     1..MaxPods
    BY DEF Typed, TypeOK, BeginStart, ManagerType, Ready
  <1>3. gateway \in 0..MaxPods /\ 0 < NPorts
    BY <1>2, ConstantsAssumption
  <1>4. RegistryType'
    BY <1>1 DEF Typed, TypeOK, BeginStart, RegistryType
  <1>5. thr' \in [Threads -> Thread] /\ ThreadsOK'
    <2> DEFINE r == [pc |-> "register", key |-> k, mode |-> m, conn |-> ctl.client,
                     gen |-> ctl.gen, res |-> nextRes + 1, n |-> 0, ip |-> gateway]
    <2>1. r \in Thread
      BY <1>1, <1>2, <1>3, Bounds DEF Thread, ThreadPC
    <2>2. t \in Threads /\ ThreadOK(t, r)
      BY <1>1, <1>2, <1>3 DEF ThreadOK, InStart, None, Threads
    <2>3. thr' = [thr EXCEPT ![t] = r]
      BY DEF BeginStart
    <2> HIDE DEF r
    <2>4. QED
      BY <2>1, <2>2, <2>3, ThreadUpdate DEF Typed, TypeOK
  <1>6. ManagerType' /\ OutsideType' /\ orphaned' \subseteq Keys /\
     unreleased' \subseteq Keys /\ inherited' \subseteq Keys /\ run' \in Run /\ RunOK'
    BY DEF Typed, TypeOK, BeginStart, manager, ManagerType, outside,
       OutsideType, history, RunOK
  <1>7. QED
    BY <1>4, <1>5, <1>6 DEF Typed, TypeOK

LEMMA TypedPrepareFails ==
    ASSUME Typed, NEW t \in Callers, PrepareFails(t)
    PROVE  Typed'
  <1>1. thr' \in [Threads -> Thread]
    BY DEF Typed, TypeOK, PrepareFails, Thread, ThreadPC, Threads
  <1>2. ThreadsOK'
    BY DEF Typed, TypeOK, PrepareFails, ThreadsOK, ThreadOK, InStart, Threads
  <1>3. ManagerType' /\ RegistryType' /\ OutsideType' /\ orphaned' \subseteq
     Keys /\ unreleased' \subseteq Keys /\ inherited' \subseteq Keys /\ run' \in Run /\ RunOK'
    BY DEF Typed, TypeOK, PrepareFails, manager, ManagerType, registry,
       RegistryType, outside, OutsideType, history, RunOK
  <1>4. QED
    BY <1>1, <1>2, <1>3 DEF Typed, TypeOK

LEMMA TypedRegisterPort ==
    ASSUME Typed, NEW t \in Callers, RegisterPort(t)
    PROVE  Typed'
  <1>1. t \in Threads /\ thr[t] \in Thread /\ ThreadOK(t, thr[t])
    BY DEF Typed, TypeOK, RegisterPort, Threads, ThreadsOK
  <1>2. thr[t].n + 1 \in 1..NPorts /\ thr[t].n + 1 \in 0..NPorts
    BY <1>1, ConstantsAssumption DEF Typed, TypeOK, RegisterPort, ThreadOK,
       Thread
  <1>3. thr[t].n + 1 # NPorts => thr[t].n + 1 < NPorts
    BY <1>2, ConstantsAssumption
  <1>4. Reg(<<thr[t].key, thr[t].n + 1>>, thr[t].res, thr[t].conn) \in
     Listener
    BY <1>1, <1>2 DEF Typed, TypeOK, RegisterPort, ThreadOK, InStart, Thread,
       Reg, Listener, Subs
  <1>5. OutsideType'
    BY <1>4, RegisterTyped DEF Typed, TypeOK, RegisterPort, OutsideType
  <1>6. thr' \in [Threads -> Thread]
    BY <1>1, <1>2 DEF Typed, TypeOK, RegisterPort, Thread, ThreadPC, Threads
  <1>7. ThreadsOK'
    <2>1. CASE thr' = [thr EXCEPT ![t].pc = "unregister"]
      BY <1>1, <2>1
         DEF RegisterPort, Typed, TypeOK, Thread, ThreadsOK, ThreadOK, InStart
    <2>2. CASE thr' = [thr EXCEPT ![t].n = @ + 1,
                         ![t].pc = IF thr[t].n + 1 = NPorts THEN "apply" ELSE @]
      BY <1>1, <1>3, <2>2
         DEF RegisterPort, Typed, TypeOK, Thread, ThreadsOK, ThreadOK, InStart
    <2>3. QED
      BY <2>1, <2>2 DEF RegisterPort
  <1>8. ManagerType' /\ RegistryType' /\ orphaned' \subseteq Keys /\
     unreleased' \subseteq Keys /\ inherited' \subseteq Keys /\ run' \in Run /\ RunOK'
    BY DEF Typed, TypeOK, RegisterPort, manager, ManagerType, registry,
       RegistryType, history, RunOK
  <1>9. QED
    BY <1>5, <1>6, <1>7, <1>8 DEF Typed, TypeOK

LEMMA TypedApply ==
    ASSUME Typed, NEW t \in Callers, Apply(t)
    PROVE  Typed'
  <1>1. t \in Threads /\ thr[t] \in Thread
    BY DEF Typed, TypeOK, Apply, Threads
  <1>2. OutsideType'
    BY <1>1 DEF Typed, TypeOK, Apply, OutsideType, Redirect, Thread
  <1>3. orphaned' \subseteq Keys /\ unreleased' \subseteq Keys /\ inherited' \subseteq Keys
    BY DEF Typed, TypeOK, Apply
  <1>4. thr' \in [Threads -> Thread]
    BY <1>1 DEF Typed, TypeOK, Apply, Thread, ThreadPC, Threads
  <1>5. \E x \in {"publish", "unregister"} : thr' = [thr EXCEPT ![t].pc = x]
    BY DEF Apply
  <1>6. ThreadsOK'
    BY <1>1, <1>5 DEF Typed, TypeOK, Apply, ThreadsOK, ThreadOK, InStart,
       Thread
  <1>7. ManagerType' /\ RegistryType' /\ run' \in Run /\ RunOK'
    BY DEF Typed, TypeOK, Apply, manager, ManagerType, registry, RegistryType,
       RunOK
  <1>8. QED
    BY <1>2, <1>3, <1>4, <1>6, <1>7 DEF Typed, TypeOK

LEMMA TypedNoPrimary ==
    ASSUME Typed, NEW t \in Callers, NoPrimary(t)
    PROVE  Typed'
  <1>1. thr' \in [Threads -> Thread]
    BY DEF Typed, TypeOK, NoPrimary, Thread, ThreadPC, Threads
  <1>2. ThreadsOK'
    BY DEF Typed, TypeOK, NoPrimary, ThreadsOK, ThreadOK, InStart, Threads
  <1>3. ManagerType' /\ RegistryType' /\ OutsideType' /\ orphaned' \subseteq
     Keys /\ unreleased' \subseteq Keys /\ inherited' \subseteq Keys /\ run' \in Run /\ RunOK'
    BY DEF Typed, TypeOK, NoPrimary, manager, ManagerType, registry,
       RegistryType, outside, OutsideType, history, RunOK
  <1>4. QED
    BY <1>1, <1>2, <1>3 DEF Typed, TypeOK

LEMMA TypedPublish ==
    ASSUME Typed, NEW t \in Callers, Publish(t)
    PROVE  Typed'
  <1>1. t \in Threads /\ thr[t] \in Thread
    BY DEF Typed, TypeOK, Publish, Threads
  <1>2. [res |-> thr[t].res, stopping |-> FALSE] \in Runtime
    BY <1>1 DEF Thread, Runtime
  <1>3. RegistryType'
    BY <1>2, Bounds DEF Typed, TypeOK, Publish, RegistryType
  <1>4. thr' \in [Threads -> Thread]
    BY <1>1, IdleTyped DEF Typed, TypeOK, Publish, Thread, ThreadPC, Threads
  <1>5. thr' = [thr EXCEPT ![t] = IdleThread] \/ thr' = [thr EXCEPT ![t].pc =
     "rollback"]
    BY DEF Publish
  <1>6. ThreadsOK'
    BY <1>1, <1>5, IdleTyped DEF Typed, TypeOK, Publish, ThreadsOK, ThreadOK,
       InStart, Thread
  <1>7. ManagerType' /\ OutsideType' /\ orphaned' \subseteq Keys /\
     unreleased' \subseteq Keys /\ inherited' \subseteq Keys /\ run' \in Run /\ RunOK'
    BY DEF Typed, TypeOK, Publish, manager, ManagerType, outside, OutsideType,
       history, RunOK
  <1>8. QED
    BY <1>3, <1>4, <1>6, <1>7 DEF Typed, TypeOK

LEMMA TypedRollbackLease ==
    ASSUME Typed, NEW t \in Callers, RollbackLease(t)
    PROVE  Typed'
  <1>1. thr[t].key \in Keys
    BY DEF Typed, TypeOK, RollbackLease, Threads, ThreadsOK, ThreadOK
  <1>2. OutsideType'
    BY Bounds DEF Typed, TypeOK, RollbackLease, OutsideType, NoRedirect,
       Redirect
  <1>3. orphaned' \subseteq Keys /\ unreleased' \subseteq Keys /\ inherited' \subseteq Keys
    BY <1>1 DEF Typed, TypeOK, RollbackLease
  <1>4. thr' \in [Threads -> Thread]
    BY DEF Typed, TypeOK, RollbackLease, Thread, ThreadPC, Threads
  <1>5. ThreadsOK'
    BY DEF Typed, TypeOK, RollbackLease, ThreadsOK, ThreadOK, InStart, Threads
  <1>6. ManagerType' /\ RegistryType' /\ run' \in Run /\ RunOK'
    BY DEF Typed, TypeOK, RollbackLease, manager, ManagerType, registry,
       RegistryType, RunOK
  <1>7. QED
    BY <1>2, <1>3, <1>4, <1>5, <1>6 DEF Typed, TypeOK

LEMMA TypedRollbackPort ==
    ASSUME Typed, NEW t \in Callers, RollbackPort(t)
    PROVE  Typed'
  <1>1. t \in Threads /\ thr[t] \in Thread
    BY DEF Typed, TypeOK, RollbackPort, Threads
  <1>2. thr[t].n - 1 \in 0..NPorts
    BY <1>1, ConstantsAssumption DEF Typed, TypeOK, RollbackPort, Thread
  <1>3. OutsideType'
    BY UnregisterTyped DEF Typed, TypeOK, RollbackPort, OutsideType
  <1>4. thr' \in [Threads -> Thread]
    BY <1>1, <1>2 DEF Typed, TypeOK, RollbackPort, Thread, ThreadPC, Threads
  <1>5. ThreadsOK'
    BY <1>1 DEF Typed, TypeOK, RollbackPort, ThreadsOK, ThreadOK, InStart,
       Threads
  <1>6. ManagerType' /\ RegistryType' /\ orphaned' \subseteq Keys /\
     unreleased' \subseteq Keys /\ inherited' \subseteq Keys /\ run' \in Run /\ RunOK'
    BY DEF Typed, TypeOK, RollbackPort, manager, ManagerType, registry,
       RegistryType, history, RunOK
  <1>7. QED
    BY <1>3, <1>4, <1>5, <1>6 DEF Typed, TypeOK

LEMMA TypedEndStart ==
    ASSUME Typed, NEW t \in Callers, EndStart(t)
    PROVE  Typed'
  <1>1. RegistryType'
    BY Bounds DEF Typed, TypeOK, EndStart, RegistryType
  <1>2. thr' \in [Threads -> Thread]
    BY IdleTyped DEF Typed, TypeOK, EndStart, Thread, ThreadPC, Threads
  <1>3. ThreadsOK'
    BY IdleTyped DEF Typed, TypeOK, EndStart, ThreadsOK, ThreadOK, InStart,
       Threads
  <1>4. ManagerType' /\ OutsideType' /\ orphaned' \subseteq Keys /\
     unreleased' \subseteq Keys /\ inherited' \subseteq Keys /\ run' \in Run /\ RunOK'
    BY DEF Typed, TypeOK, EndStart, manager, ManagerType, outside,
       OutsideType, history, RunOK
  <1>5. QED
    BY <1>1, <1>2, <1>3, <1>4 DEF Typed, TypeOK

LEMMA TypedBeginStop ==
    ASSUME Typed, NEW t \in Callers, NEW k \in Keys, BeginStop(t, k)
    PROVE  Typed'
  <1>1. RegistryType'
    BY DEF Typed, TypeOK, BeginStop, RegistryType, Runtime
  <1>2. StopThread(k) \in Thread /\ ThreadOK(t, StopThread(k))
    BY IdleTyped DEF Typed, TypeOK, BeginStop, RegistryType, Runtime,
       StopThread, IdleThread, Thread, ThreadPC, ThreadOK, InStart
  <1>3. thr' \in [Threads -> Thread]
    BY <1>2 DEF Typed, TypeOK, BeginStop, Threads
  <1>4. ThreadsOK'
    BY <1>2 DEF Typed, TypeOK, BeginStop, ThreadsOK, Threads
  <1>5. ManagerType' /\ OutsideType' /\ orphaned' \subseteq Keys /\
     unreleased' \subseteq Keys /\ inherited' \subseteq Keys /\ run' \in Run /\ RunOK'
    BY DEF Typed, TypeOK, BeginStop, manager, ManagerType, outside,
       OutsideType, history, RunOK
  <1>6. QED
    BY <1>1, <1>3, <1>4, <1>5 DEF Typed, TypeOK

LEMMA TypedReleaseFails ==
    ASSUME Typed, NEW t \in Threads, ReleaseFails(t)
    PROVE  Typed'
  <1>1. thr[t].key \in Keys
    BY DEF Typed, TypeOK, ReleaseFails, ThreadsOK, ThreadOK
  <1>2. RegistryType'
    BY <1>1 DEF Typed, TypeOK, ReleaseFails, RegistryType, Runtime
  <1>3. orphaned' \subseteq Keys /\ unreleased' \subseteq Keys /\ inherited' \subseteq Keys
    BY <1>1 DEF Typed, TypeOK, ReleaseFails
  <1>4. thr' \in [Threads -> Thread]
    BY IdleTyped DEF Typed, TypeOK, ReleaseFails, Thread, ThreadPC, Threads
  <1>5. ThreadsOK'
    BY IdleTyped DEF Typed, TypeOK, ReleaseFails, ThreadsOK, ThreadOK,
       InStart, Threads
  <1>6. ManagerType' /\ OutsideType' /\ run' \in Run /\ RunOK'
    BY DEF Typed, TypeOK, ReleaseFails, manager, ManagerType, outside,
       OutsideType, RunOK
  <1>7. QED
    BY <1>2, <1>3, <1>4, <1>5, <1>6 DEF Typed, TypeOK

LEMMA TypedRelease ==
    ASSUME Typed, NEW t \in Threads, Release(t)
    PROVE  Typed'
  <1>1. OutsideType'
    BY Bounds DEF Typed, TypeOK, Release, OutsideType, NoRedirect, Redirect
  <1>2. orphaned' \subseteq Keys /\ unreleased' \subseteq Keys /\ inherited' \subseteq Keys
    BY DEF Typed, TypeOK, Release
  <1>3. thr' \in [Threads -> Thread]
    BY DEF Typed, TypeOK, Release, Thread, ThreadPC, Threads
  <1>4. ThreadsOK'
    BY DEF Typed, TypeOK, Release, ThreadsOK, ThreadOK, InStart, Threads
  <1>5. ManagerType' /\ RegistryType' /\ run' \in Run /\ RunOK'
    BY DEF Typed, TypeOK, Release, manager, ManagerType, registry,
       RegistryType, RunOK
  <1>6. QED
    BY <1>1, <1>2, <1>3, <1>4, <1>5 DEF Typed, TypeOK

LEMMA TypedRemove ==
    ASSUME Typed, NEW t \in Threads, Remove(t)
    PROVE  Typed'
  <1>1. NoRuntime \in Runtime
    BY Bounds DEF NoRuntime, Runtime
  <1>2. RegistryType'
    BY <1>1 DEF Typed, TypeOK, Remove, RegistryType
  <1>3. orphaned' \subseteq Keys /\ unreleased' \subseteq Keys /\ inherited' \subseteq Keys
    BY DEF Typed, TypeOK, Remove
  <1>4. NPorts \in 0..NPorts /\ NPorts > 0
    BY ConstantsAssumption
  <1>5. thr' \in [Threads -> Thread]
    BY <1>4, IdleTyped DEF Typed, TypeOK, Remove, Thread, ThreadPC, Threads,
       ManagerType
  <1>6. ThreadsOK'
    BY <1>4, IdleTyped DEF Typed, TypeOK, Remove, ThreadsOK, ThreadOK,
       InStart, Threads, ManagerType, Thread
  <1>7. ManagerType' /\ OutsideType' /\ run' \in Run /\ RunOK'
    BY DEF Typed, TypeOK, Remove, manager, ManagerType, outside, OutsideType,
       RunOK
  <1>8. QED
    BY <1>2, <1>3, <1>5, <1>6, <1>7 DEF Typed, TypeOK

LEMMA TypedDropPort ==
    ASSUME Typed, NEW t \in Threads, DropPort(t)
    PROVE  Typed'
  <1>1. thr[t].n - 1 \in 0..NPorts
    BY ConstantsAssumption DEF Typed, TypeOK, DropPort, Thread
  <1>2. thr[t].n # 1 => thr[t].n - 1 > 0
    BY ConstantsAssumption DEF Typed, TypeOK, DropPort, Thread
  <1>3. OutsideType'
    BY UnregisterTyped DEF Typed, TypeOK, DropPort, OutsideType
  <1>4. thr' \in [Threads -> Thread] /\ ThreadsOK'
    <2>1. CASE thr' = [thr EXCEPT ![t] = IdleThread]
      BY <2>1, IdleTyped DEF Typed, TypeOK, ThreadsOK, ThreadOK, InStart
    <2>2. CASE thr[t].n # 1 /\ thr' = [thr EXCEPT ![t].n = @ - 1]
      BY <1>1, <1>2, <2>2
         DEF DropPort, Typed, TypeOK, Thread, ThreadsOK, ThreadOK, InStart
    <2>3. QED
      BY <2>1, <2>2 DEF DropPort
  <1>5. ManagerType' /\ RegistryType' /\ orphaned' \subseteq Keys /\
     unreleased' \subseteq Keys /\ inherited' \subseteq Keys /\ run' \in Run /\ RunOK'
    BY DEF Typed, TypeOK, DropPort, manager, ManagerType, registry,
       RegistryType, history, RunOK
  <1>6. QED
    BY <1>3, <1>4, <1>5 DEF Typed, TypeOK

LEMMA TypedStart ==
    ASSUME Typed, NEW c \in Conns, Start(c)
    PROVE  Typed'
  <1>1. ctl.gen + 1 \in 0..MaxGen /\ ctl.token + 1 \in 0..MaxSessions
    BY ConstantsAssumption DEF Typed, TypeOK, Start, ManagerType
  <1>2. ManagerType'
    BY <1>1 DEF Typed, TypeOK, Start, ManagerType, OutsideType
  <1>3. OutsideType'
    BY <1>1, OpenTyped DEF Typed, TypeOK, Start, OutsideType
  <1>4. RegistryType' /\ orphaned' \subseteq Keys /\ unreleased' \subseteq
     Keys /\ inherited' \subseteq Keys /\ thr' \in [Threads -> Thread] /\ ThreadsOK' /\ run' \in Run /\
     RunOK'
    BY DEF Typed, TypeOK, Start, registry, RegistryType, history, ThreadsOK,
       ThreadOK, RunOK
  <1>5. QED
    BY <1>2, <1>3, <1>4 DEF Typed, TypeOK

LEMMA TypedBeginRecovery ==
    ASSUME Typed, NEW a \in {gateway, pod}, BeginRecovery(a)
    PROVE  Typed'
  <1>1. ctl.gen + 1 \in 0..MaxGen
    BY ConstantsAssumption DEF Typed, TypeOK, BeginRecovery, ManagerType
  <1>2. ManagerType'
    BY <1>1 DEF Typed, TypeOK, BeginRecovery, ManagerType
  <1>3. OutsideType'
    BY CloseTyped DEF Typed, TypeOK, BeginRecovery, OutsideType
  <1>4. a \in 1..MaxPods /\ a \in 0..MaxPods
    BY ConstantsAssumption DEF Typed, TypeOK, BeginRecovery, ManagerType,
       OutsideType
  <1>5. [k \in Keys |-> runtimes[k].res] \in [Keys -> 0..MaxRes]
    BY DEF Typed, TypeOK, BeginRecovery, RegistryType, Runtime
  <1>6. run' \in Run
    BY <1>1, <1>4, <1>5, Bounds DEF Typed, TypeOK, BeginRecovery, Run, RunPC,
       IdleRun
  <1>7. RunOK'
    BY <1>4 DEF Typed, TypeOK, BeginRecovery, RunOK, IdleRun
  <1>8. RegistryType' /\ orphaned' \subseteq Keys /\ unreleased' \subseteq
     Keys /\ inherited' \subseteq Keys /\ thr' \in [Threads -> Thread] /\ ThreadsOK'
    BY DEF Typed, TypeOK, BeginRecovery, registry, RegistryType, history,
       ThreadsOK, ThreadOK
  <1>9. QED
    BY <1>2, <1>3, <1>6, <1>7, <1>8 DEF Typed, TypeOK

LEMMA TypedRedial ==
    ASSUME Typed, Redial
    PROVE  Typed'
  <1>1. ManagerType'
    BY DEF Typed, TypeOK, Redial, ManagerType, RecoveryFailed
  <1>2. ctl.token \in 0..MaxSessions
    BY DEF Typed, TypeOK, Redial, ManagerType
  <1>3. conns' = conns \/ \E c \in Conns : conns' = Open(c, ctl.token)
    BY DEF Redial
  <1>4. conns' \in [Conns -> Conn]
    BY <1>2, <1>3, OpenTyped DEF Typed, TypeOK, OutsideType
  <1>5. OutsideType'
    BY <1>4 DEF Typed, TypeOK, Redial, OutsideType
  <1>6. run' \in Run /\ RunOK'
    <2>1. CASE run' = IdleRun
      BY <2>1, IdleTyped DEF RunOK
    <2>2. ASSUME NEW c \in Conns,
                 run' = [run EXCEPT !.pc = "rereg", !.conn = c, !.done = {}]
          PROVE  run' \in Run /\ RunOK'
      BY <2>2 DEF Redial, Typed, TypeOK, RunOK, Run, RunPC
    <2>3. QED
      BY <2>1, <2>2 DEF Redial, RecoveryFailed
  <1>7. RegistryType' /\ orphaned' \subseteq Keys /\ unreleased' \subseteq
     Keys /\ inherited' \subseteq Keys /\ thr' \in [Threads -> Thread] /\ ThreadsOK'
    BY DEF Typed, TypeOK, Redial, registry, RegistryType, history, ThreadsOK,
       ThreadOK
  <1>8. QED
    BY <1>1, <1>5, <1>6, <1>7 DEF Typed, TypeOK

LEMMA TypedReregister ==
    ASSUME Typed, NEW s \in Subs, Reregister(s)
    PROVE  Typed'
  <1>1. Reg(s, run.snap[s[1]], run.conn) \in Listener
    BY DEF Typed, TypeOK, Reregister, RunOK, Run, Reg, Listener, Subs
  <1>2. OutsideType'
    BY <1>1, RegisterTyped DEF Typed, TypeOK, Reregister, OutsideType
  <1>3. run' \in Run /\ RunOK'
    <2>1. CASE run' = [run EXCEPT !.done = @ \cup {s}]
      BY <2>1 DEF Reregister, Typed, TypeOK, RunOK, Run
    <2>2. ASSUME NEW b \in BOOLEAN, run' = [run EXCEPT !.pc = "undo", !.again = b]
          PROVE  run' \in Run /\ RunOK'
      BY <2>2 DEF Reregister, Typed, TypeOK, RunOK, Run, RunPC
    <2>3. QED
      BY <2>1, <2>2 DEF Reregister
  <1>4. ManagerType' /\ RegistryType' /\ orphaned' \subseteq Keys /\
     unreleased' \subseteq Keys /\ inherited' \subseteq Keys /\ thr' \in [Threads -> Thread] /\ ThreadsOK'
    BY DEF Typed, TypeOK, Reregister, manager, ManagerType, registry,
       RegistryType, history, ThreadsOK, ThreadOK
  <1>5. QED
    BY <1>2, <1>3, <1>4 DEF Typed, TypeOK

LEMMA TypedUndoRegistration ==
    ASSUME Typed, NEW s \in Subs, UndoRegistration(s)
    PROVE  Typed'
  <1>1. OutsideType'
    BY UnregisterTyped DEF Typed, TypeOK, UndoRegistration, OutsideType
  <1>2. run' \in Run
    BY DEF Typed, TypeOK, UndoRegistration, Run, RunPC
  <1>3. RunOK'
    BY DEF Typed, TypeOK, UndoRegistration, RunOK, Run
  <1>4. ManagerType' /\ RegistryType' /\ orphaned' \subseteq Keys /\
     unreleased' \subseteq Keys /\ inherited' \subseteq Keys /\ thr' \in [Threads -> Thread] /\ ThreadsOK'
    BY DEF Typed, TypeOK, UndoRegistration, manager, ManagerType, registry,
       RegistryType, history, ThreadsOK, ThreadOK
  <1>5. QED
    BY <1>1, <1>2, <1>3, <1>4 DEF Typed, TypeOK

LEMMA TypedEndAttempt ==
    ASSUME Typed, EndAttempt
    PROVE  Typed'
  <1>1. run.attempt + 1 < MaxAttempts => run.attempt + 1 \in 0..MaxAttempts
    BY ConstantsAssumption DEF Typed, TypeOK, EndAttempt, Run
  <1>2. ManagerType'
    BY DEF Typed, TypeOK, EndAttempt, ManagerType, RecoveryFailed
  <1>3. OutsideType'
    BY CloseTyped DEF Typed, TypeOK, EndAttempt, OutsideType
  <1>4. run' \in Run /\ RunOK'
    <2>1. CASE run' = IdleRun
      BY <2>1, IdleTyped DEF RunOK
    <2>2. CASE /\ run.attempt + 1 < MaxAttempts
               /\ run' = [run EXCEPT !.pc = "dial", !.conn = None, !.again = FALSE,
                                     !.attempt = @ + 1]
      BY <1>1, <2>2 DEF EndAttempt, Typed, TypeOK, RunOK, Run, RunPC
    <2>3. QED
      BY <2>1, <2>2 DEF EndAttempt, RecoveryFailed
  <1>5. RegistryType' /\ orphaned' \subseteq Keys /\ unreleased' \subseteq
     Keys /\ inherited' \subseteq Keys /\ thr' \in [Threads -> Thread] /\ ThreadsOK'
    BY DEF Typed, TypeOK, EndAttempt, registry, RegistryType, history,
       ThreadsOK, ThreadOK
  <1>6. QED
    BY <1>2, <1>3, <1>4, <1>5 DEF Typed, TypeOK

LEMMA TypedFinishRecovery ==
    ASSUME Typed, FinishRecovery
    PROVE  Typed'
  <1>1. ManagerType'
    BY DEF Typed, TypeOK, FinishRecovery, ManagerType, RunOK
  <1>2. OutsideType'
    BY CloseTyped DEF Typed, TypeOK, FinishRecovery, OutsideType
  <1>3. run' \in Run
    BY IdleTyped DEF Typed, TypeOK, FinishRecovery
  <1>4. RunOK'
    BY IdleTyped DEF Typed, TypeOK, FinishRecovery, RunOK
  <1>5. RegistryType' /\ orphaned' \subseteq Keys /\ unreleased' \subseteq
     Keys /\ inherited' \subseteq Keys /\ thr' \in [Threads -> Thread] /\ ThreadsOK'
    BY DEF Typed, TypeOK, FinishRecovery, registry, RegistryType, history,
       ThreadsOK, ThreadOK
  <1>6. QED
    BY <1>1, <1>2, <1>3, <1>4, <1>5 DEF Typed, TypeOK

LEMMA TypedStopAll ==
    ASSUME Typed, StopAll
    PROVE  Typed'
  <1>1. ctl.gen + 1 \in 0..MaxGen
    BY ConstantsAssumption DEF Typed, TypeOK, StopAll, ManagerType
  <1>2. ManagerType'
    BY <1>1 DEF Typed, TypeOK, StopAll, ManagerType
  <1>3. run' \in Run
    BY IdleTyped DEF Typed, TypeOK, StopAll, ManagerType, Run, RunPC, IdleRun
  <1>4. RunOK'
    BY DEF Typed, TypeOK, StopAll, RunOK, IdleRun
  <1>5. RegistryType' /\ OutsideType' /\ orphaned' \subseteq Keys /\
     unreleased' \subseteq Keys /\ inherited' \subseteq Keys /\ thr' \in [Threads -> Thread] /\ ThreadsOK'
    BY DEF Typed, TypeOK, StopAll, registry, RegistryType, outside,
       OutsideType, history, ThreadsOK, ThreadOK
  <1>6. QED
    BY <1>2, <1>3, <1>4, <1>5 DEF Typed, TypeOK

LEMMA TypedStopNext ==
    ASSUME Typed, NEW k \in Keys, StopNext(k)
    PROVE  Typed'
  <1>1. RegistryType'
    BY DEF Typed, TypeOK, StopNext, RegistryType, Runtime
  <1>2. StopThread(k) \in Thread /\ ThreadOK(Main, StopThread(k))
    BY IdleTyped DEF Typed, TypeOK, StopNext, RegistryType, Runtime,
       StopThread, IdleThread, Thread, ThreadPC, ThreadOK, InStart
  <1>3. thr' \in [Threads -> Thread]
    BY <1>2 DEF Typed, TypeOK, StopNext, Threads
  <1>4. ThreadsOK'
    BY <1>2 DEF Typed, TypeOK, StopNext, ThreadsOK, Threads
  <1>5. run' \in Run
    BY DEF Typed, TypeOK, StopNext, Run, RunPC
  <1>6. RunOK'
    BY DEF Typed, TypeOK, StopNext, RunOK, Run
  <1>7. ManagerType' /\ OutsideType' /\ orphaned' \subseteq Keys /\
     unreleased' \subseteq Keys /\ inherited' \subseteq Keys
    BY DEF Typed, TypeOK, StopNext, manager, ManagerType, outside,
       OutsideType, history
  <1>8. QED
    BY <1>1, <1>3, <1>4, <1>5, <1>6, <1>7 DEF Typed, TypeOK

LEMMA TypedEndStopAll ==
    ASSUME Typed, EndStopAll
    PROVE  Typed'
  <1>1. OutsideType'
    BY CloseTyped DEF Typed, TypeOK, EndStopAll, OutsideType
  <1>2. run' \in Run
    BY IdleTyped DEF Typed, TypeOK, EndStopAll
  <1>3. RunOK'
    BY IdleTyped DEF Typed, TypeOK, EndStopAll, RunOK
  <1>4. ManagerType' /\ RegistryType' /\ orphaned' \subseteq Keys /\
     unreleased' \subseteq Keys /\ inherited' \subseteq Keys /\ thr' \in [Threads -> Thread] /\ ThreadsOK'
    BY DEF Typed, TypeOK, EndStopAll, manager, ManagerType, registry,
       RegistryType, history, ThreadsOK, ThreadOK
  <1>5. QED
    BY <1>1, <1>2, <1>3, <1>4 DEF Typed, TypeOK

LEMMA TypedControlCut ==
    ASSUME Typed, NEW c \in Conns, ControlCut(c)
    PROVE  Typed'
  <1>1. OutsideType'
    BY DEF Typed, TypeOK, ControlCut, OutsideType, Conn
  <1>2. ManagerType' /\ RegistryType' /\ orphaned' \subseteq Keys /\
     unreleased' \subseteq Keys /\ inherited' \subseteq Keys /\ thr' \in [Threads -> Thread] /\ ThreadsOK'
     /\ run' \in Run /\ RunOK'
    BY DEF Typed, TypeOK, ControlCut, manager, ManagerType, registry,
       RegistryType, history, ThreadsOK, ThreadOK, RunOK
  <1>3. QED
    BY <1>1, <1>2 DEF Typed, TypeOK

LEMMA TypedReadLoopExit ==
    ASSUME Typed, NEW c \in Conns, ReadLoopExit(c)
    PROVE  Typed'
  <1>1. OutsideType'
    BY DEF Typed, TypeOK, ReadLoopExit, OutsideType, Conn
  <1>2. ManagerType' /\ RegistryType' /\ orphaned' \subseteq Keys /\
     unreleased' \subseteq Keys /\ inherited' \subseteq Keys /\ thr' \in [Threads -> Thread] /\ ThreadsOK'
     /\ run' \in Run /\ RunOK'
    BY DEF Typed, TypeOK, ReadLoopExit, manager, ManagerType, registry,
       RegistryType, history, ThreadsOK, ThreadOK, RunOK
  <1>3. QED
    BY <1>1, <1>2 DEF Typed, TypeOK

LEMMA TypedRemoveControl ==
    ASSUME Typed, NEW c \in Conns, RemoveControl(c)
    PROVE  Typed'
  <1>1. OutsideType'
    BY DEF Typed, TypeOK, RemoveControl, OutsideType, Conn
  <1>2. ManagerType' /\ RegistryType' /\ orphaned' \subseteq Keys /\
     unreleased' \subseteq Keys /\ inherited' \subseteq Keys /\ thr' \in [Threads -> Thread] /\ ThreadsOK'
     /\ run' \in Run /\ RunOK'
    BY DEF Typed, TypeOK, RemoveControl, manager, ManagerType, registry,
       RegistryType, history, ThreadsOK, ThreadOK, RunOK
  <1>3. QED
    BY <1>1, <1>2 DEF Typed, TypeOK

LEMMA TypedGatewayReplaced ==
    ASSUME Typed, GatewayReplaced
    PROVE  Typed'
  <1>1. pod \in 1..MaxPods /\ pod < MaxPods
    BY DEF Typed, TypeOK, GatewayReplaced, OutsideType
  <1>2. pod + 1 \in 1..MaxPods
    BY <1>1, ConstantsAssumption
  <1>3. OutsideType'
    BY <1>2 DEF Typed, TypeOK, GatewayReplaced, OutsideType, Conn
  <1>4. ManagerType' /\ RegistryType' /\ orphaned' \subseteq Keys /\
     unreleased' \subseteq Keys /\ inherited' \subseteq Keys /\ thr' \in [Threads -> Thread] /\ ThreadsOK'
     /\ run' \in Run /\ RunOK'
    BY DEF Typed, TypeOK, GatewayReplaced, manager, ManagerType, registry,
       RegistryType, history, ThreadsOK, ThreadOK, RunOK
  <1>5. QED
    BY <1>3, <1>4 DEF Typed, TypeOK

LEMMA TypedNext == Typed /\ [Next]_vars => Typed'
  <1> SUFFICES ASSUME Typed, [Next]_vars PROVE Typed'
    OBVIOUS
  <1>1. ASSUME NEW t \in Callers, NEW k \in Keys, BeginStop(t, k)
        PROVE  Typed'
    BY <1>1, TypedBeginStop
  <1>2. ASSUME NEW t \in Callers, NEW k \in Keys, NEW m \in Modes, BeginStart(t, k, m)
        PROVE  Typed'
    BY <1>2, TypedBeginStart
  <1>3. ASSUME NEW t \in Callers, StartStep(t)
        PROVE  Typed'
    BY <1>3, TypedPrepareFails, TypedRegisterPort, TypedApply, TypedNoPrimary,
       TypedPublish, TypedRollbackLease, TypedRollbackPort, TypedEndStart DEF StartStep
  <1>4. ASSUME NEW t \in Threads, StopStep(t)
        PROVE  Typed'
    BY <1>4, TypedRelease, TypedReleaseFails, TypedRemove, TypedDropPort
       DEF StopStep
  <1>5. ASSUME NEW c \in Conns, Start(c)
        PROVE  Typed'
    BY <1>5, TypedStart
  <1>6. ASSUME NEW a \in {gateway, pod}, BeginRecovery(a)
        PROVE  Typed'
    <2>1. a \in 1..MaxPods
      BY DEF Typed, TypeOK, ManagerType, OutsideType
    <2>2. QED
      BY <1>6, <2>1, TypedBeginRecovery
  <1>7. CASE RecoveryStep
    BY <1>7, TypedRedial, TypedEndAttempt, TypedFinishRecovery, TypedReregister,
       TypedUndoRegistration DEF RecoveryStep
  <1>8. CASE StopAll \/ StopAllStep
    BY <1>8, TypedStopAll, TypedEndStopAll, TypedStopNext DEF StopAllStep
  <1>9. CASE Network
    BY <1>9, TypedGatewayReplaced, TypedControlCut, TypedReadLoopExit,
       TypedRemoveControl DEF Network
  <1>10. CASE UNCHANGED vars
    BY <1>10 DEF vars, manager, registry, outside, history, Typed, TypeOK, ManagerType,
       RegistryType, OutsideType, ThreadsOK, ThreadOK, RunOK
  <1>11. QED
    BY <1>1, <1>2, <1>3, <1>4, <1>5, <1>6, <1>7, <1>8, <1>9, <1>10 DEF Next

(* Every reachable state of the intercept manager, its callers, its control *)
(* connections and the Gateway is well typed: no counter passes its bound,  *)
(* no step leaves a goroutine or a recovery without the connection, key or  *)
(* port index that its next step reads.                                     *)
THEOREM TypeCorrect == Spec => []TypeOK
  <1>1. Typed => TypeOK
    BY DEF Typed
  <1>2. QED
    BY <1>1, TypedInit, TypedNext, PTL DEF Spec

-----------------------------------------------------------------------------
(* Safety.  The three properties are inductive together with two facts:     *)
(* every stop in progress holds the mark of the runtime it began with, and  *)
(* the redirect of a key is the one its starter applied or its stopper has  *)
(* released.                                                                *)
Stopping(t) == thr[t].pc \in {"release", "remove"}
(* No other goroutine than t starts or stops the key of t.                  *)
Alone(t) == \A u \in Threads \ {t} :
    thr[u].key = thr[t].key => ~Starting(u) /\ ~Stopping(u)
StopsOK ==
    /\ \A t \in Threads : Stopping(t) =>
         /\ Registered(thr[t].key) /\ runtimes[thr[t].key].stopping
         /\ runtimes[thr[t].key].res = thr[t].res
    /\ \A t, u \in Threads :
         Stopping(t) /\ Stopping(u) /\ thr[t].key = thr[u].key => t = u
Leasing == {"publish", "rollback"}
LeasesOK ==
    \A t \in Threads :
        /\ thr[t].pc \in Leasing => redirects[thr[t].key].res = thr[t].res
        /\ thr[t].pc = "remove" => redirects[thr[t].key].res = None
Safe == /\ ReservationsExclusive /\ StopsOK /\ LeasesOK
        /\ RuntimesRedirected /\ RedirectsOwned
IInv == Typed /\ Safe

(* What a step of goroutine u keeps of its role and of its redirect.       *)
Moved(u) == /\ thr'[u].key = thr[u].key /\ thr'[u].res = thr[u].res
            /\ Starting(u)' <=> Starting(u)
            /\ Stopping(u)' <=> Stopping(u)
SameLease(u) == /\ thr'[u].pc \in Leasing <=> thr[u].pc \in Leasing
                /\ thr'[u].pc = "remove" <=> thr[u].pc = "remove"

(* A step that leaves goroutines, registry and redirects alone.             *)
LEMMA SafeUnchanged ==
    ASSUME Safe, UNCHANGED <<thr, starting, runtimes, redirects, orphaned>>
    PROVE  Safe'
  BY DEF Safe, ReservationsExclusive, StopsOK, LeasesOK, RuntimesRedirected,
     RedirectsOwned, Stopping, Starting, Registered, HoldsLease, Leasing,
     Alone

USE DEF None

LEMMA SafeBeginStart ==
    ASSUME IInv, NEW t \in Callers, NEW k \in Keys, NEW m \in Modes, BeginStart(t, k, m)
    PROVE  Safe'
  <1>0. t \in Threads
    BY DEF Threads
  <1>9. nextRes + 1 # 0
    BY ConstantsAssumption DEF IInv, Typed, TypeOK, RegistryType
  <1>1. ReservationsExclusive'
    BY <1>0, <1>9 DEF IInv, Typed, TypeOK, ThreadsOK, ThreadOK, BeginStart,
       Safe, ReservationsExclusive, Starting, InStart, Registered,
       RegistryType, CanReserve
  <1>2. StopsOK'
    BY  <1>0 DEF IInv, Typed, TypeOK, BeginStart, Safe, StopsOK, Stopping,
       Registered, Alone
  <1>3. LeasesOK'
    BY  <1>0 DEF IInv, Typed, TypeOK, BeginStart, Safe, LeasesOK, outside,
       Leasing
  <1>4. RuntimesRedirected'
    BY  <1>0 DEF IInv, Typed, TypeOK, BeginStart, Safe, RuntimesRedirected,
       outside, Registered
  <1>5. RedirectsOwned'
    BY  <1>0 DEF IInv, Typed, TypeOK, BeginStart, Safe, RedirectsOwned,
       outside, history, Registered, HoldsLease
  <1>6. QED
    BY <1>1, <1>2, <1>3,<1>4, <1>5 DEF Safe

(* Goroutines that stay in a start, or in a stop, of the same key.          *)
LEMMA SameRoles ==
    ASSUME Safe, UNCHANGED <<starting, runtimes>>, \A u \in Threads : Moved(u)
    PROVE  ReservationsExclusive' /\ StopsOK'
  <1>1. ReservationsExclusive'
    BY DEF Safe, Moved, ReservationsExclusive, Starting, Registered, Stopping
  <1>2. StopsOK'
    BY DEF Safe, Moved, StopsOK, Stopping, Registered, Starting, Alone
  <1>3. QED
    BY <1>1, <1>2

(* ... and that neither take nor give up a redirect.                        *)
LEMMA SameLeases ==
    ASSUME Safe, UNCHANGED <<starting, runtimes, redirects, orphaned>>,
           \A u \in Threads : Moved(u) /\ SameLease(u)
    PROVE  Safe'
  <1>1. LeasesOK'
    BY DEF Safe, Moved, SameLease, LeasesOK, Starting, Stopping, Leasing
  <1>2. RuntimesRedirected'
    BY DEF Safe, Moved, SameLease, RuntimesRedirected, Registered, Starting,
       Stopping, Leasing
  <1>3. RedirectsOwned'
    BY DEF Safe, Moved, SameLease, RedirectsOwned, Registered, HoldsLease,
       Threads, Starting, Stopping, Leasing
  <1>4. QED
    BY <1>1, <1>2, <1>3, SameRoles DEF Safe

(* A step of goroutine t from one pc of a start to another.                 *)
LEMMA PcOnly ==
    ASSUME thr \in [Threads -> Thread], NEW t \in Threads, NEW x \in ThreadPC,
           thr' = [thr EXCEPT ![t].pc = x], thr[t].pc \in InStart, x \in InStart
    PROVE  /\ \A u \in Threads : Moved(u)
           /\ (thr[t].pc \in Leasing <=> x \in Leasing) =>
                \A u \in Threads : SameLease(u)
  BY DEF Moved, SameLease, InStart, Thread, Starting, Stopping, Leasing

LEMMA SafePrepareFails ==
    ASSUME IInv, NEW t \in Callers, PrepareFails(t)
    PROVE  Safe'
  BY PcOnly, SameLeases DEF IInv, Typed, TypeOK, PrepareFails, Threads,
     registry, outside, history, InStart, ThreadPC, Leasing

LEMMA SafeRegisterPort ==
    ASSUME IInv, NEW t \in Callers, RegisterPort(t)
    PROVE  Safe'
  <1>1. \A u \in Threads : Moved(u) /\ SameLease(u)
    BY DEF IInv, Typed, TypeOK, RegisterPort, Moved, SameLease, InStart,
       Thread, Threads, Starting, Stopping, Leasing
  <1> QED
    BY <1>1, SameLeases DEF IInv, Typed, TypeOK, RegisterPort, registry,
       history

LEMMA SafeNoPrimary ==
    ASSUME IInv, NEW t \in Callers, NoPrimary(t)
    PROVE  Safe'
  BY PcOnly, SameLeases DEF IInv, Typed, TypeOK, NoPrimary, Threads, registry,
     outside, history, InStart, ThreadPC, Leasing

LEMMA SafeRollbackPort ==
    ASSUME IInv, NEW t \in Callers, RollbackPort(t)
    PROVE  Safe'
  <1>1. \A u \in Threads : Moved(u) /\ SameLease(u)
    BY DEF IInv, Typed, TypeOK, RollbackPort, Moved, SameLease, InStart,
       Thread, Threads, Starting, Stopping, Leasing
  <1> QED
    BY <1>1, SameLeases DEF IInv, Typed, TypeOK, RollbackPort, registry,
       history

LEMMA SafeApply ==
    ASSUME IInv, NEW t \in Callers, Apply(t)
    PROVE  Safe'
  <1>1. t \in Threads /\ thr[t].key \in Keys /\ Starting(t) /\ thr[t].pc = "apply"
    BY DEF Threads, IInv, Typed, ThreadsOK, ThreadOK, Apply, Starting, InStart
  <1>2. UNCHANGED <<starting, runtimes>>
    BY DEF Apply, registry
  <1>3. CASE /\ thr' = [thr EXCEPT ![t].pc = "unregister"]
             /\ UNCHANGED <<redirects, orphaned>>
     BY <1>1, <1>2, <1>3, PcOnly, SameLeases DEF IInv, Typed, TypeOK, InStart,
        ThreadPC, Leasing
  <1>4. ASSUME thr' = [thr EXCEPT ![t].pc = "publish"],
          redirects' = [redirects EXCEPT ![thr[t].key] =
                          [res |-> thr[t].res, ip |-> thr[t].ip]],
          orphaned' = orphaned \ {thr[t].key}
        PROVE Safe'
    <2>1. ReservationsExclusive' /\ StopsOK'
      BY <1>1, <1>2, <1>4, PcOnly, SameRoles DEF IInv, Typed, TypeOK, InStart,
         ThreadPC, Leasing
    <2>2. ~Registered(thr[t].key) /\ Alone(t)
      BY <1>1 DEF IInv, Safe, ReservationsExclusive, StopsOK, Typed,
         ThreadsOK, ThreadOK, Starting, Alone
    <2>3. LeasesOK'
      BY <1>1, <1>4, <2>2 DEF IInv, Typed, TypeOK, Safe, LeasesOK,
         OutsideType, Starting, InStart, Stopping, Thread, Leasing, Alone
    <2>4. RuntimesRedirected'
      BY <1>1, <1>2, <1>4, <2>2 DEF IInv, Typed, TypeOK, Safe,
         RuntimesRedirected, OutsideType, Registered, Thread
    <2>5. RedirectsOwned'
      BY <1>1, <1>2, <1>4, <2>2 DEF IInv, Typed, TypeOK, Safe, RedirectsOwned,
         OutsideType, Registered, Thread, HoldsLease, Threads
    <2>6. QED
      BY <2>1, <2>3, <2>4, <2>5 DEF Safe
  <1>5. QED
    BY <1>3, <1>4 DEF Apply

(* A step of a goroutine that is past the removal of its runtime.           *)
LEMMA Dropping ==
    ASSUME thr \in [Threads -> Thread], NEW t \in Threads, NEW r \in Thread,
           thr' = [thr EXCEPT ![t] = r], ~Starting(t), ~Stopping(t),
           r.pc \notin InStart \cup {"release", "remove"}, Safe,
           UNCHANGED <<starting, runtimes, redirects, orphaned>>
    PROVE Safe'
  <1>0. t \in Callers => t \in Threads
    BY DEF Threads
  <1>1. ReservationsExclusive'
    BY DEF Safe, ReservationsExclusive, Starting, InStart, Registered
  <1>2. StopsOK'
    BY DEF Safe, StopsOK, Stopping, Registered, Alone
  <1>3. LeasesOK'
    BY DEF Safe, LeasesOK, InStart, Leasing, Starting, Stopping
  <1>4. RuntimesRedirected'
    BY DEF Safe, RuntimesRedirected, Registered, Stopping
  <1>5. RedirectsOwned'
    BY DEF Safe, RedirectsOwned, Registered, HoldsLease, InStart, Threads,
       Starting
  <1>6. QED
    BY <1>1, <1>2, <1>3, <1>4, <1>5 DEF Safe

LEMMA SafeDropPort ==
    ASSUME IInv, NEW t \in Threads, DropPort(t)
    PROVE  Safe'
  <1>1. /\ UNCHANGED <<starting, runtimes, redirects, orphaned>>
        /\ thr[t].pc = "drop" /\ thr[t].n \in 0..NPorts /\ thr[t].n > 0
    BY DEF DropPort, registry, history, IInv, Typed, TypeOK, Thread
  <1>2. thr[t].n - 1 \in 0..NPorts
    BY <1>1, ConstantsAssumption
  <1>3. CASE thr' = [thr EXCEPT ![t] = IdleThread]
    BY <1>1, <1>3, Dropping, IdleTyped DEF IInv, Typed, TypeOK, InStart,
       Starting, Stopping
  <1>4. CASE thr' = [thr EXCEPT ![t].n = @ - 1]
    <2>1. \A u \in Threads : Moved(u) /\ SameLease(u)
      BY <1>4 DEF IInv, Typed, TypeOK, Moved, SameLease, InStart, Thread,
         Starting, Stopping, Leasing
    <2> QED
      BY <1>1, <2>1, SameLeases DEF IInv
  <1>5. QED
    BY <1>3, <1>4 DEF DropPort

LEMMA SafeRollbackLease ==
    ASSUME IInv, NEW t \in Callers, RollbackLease(t)
    PROVE  Safe'
  <1>1. t \in Threads /\ thr[t].key \in Keys /\ Starting(t) /\ thr[t].pc = "rollback"
    BY DEF Threads, IInv, Typed, ThreadsOK, ThreadOK, RollbackLease, Starting,
       InStart
  <1>2. UNCHANGED <<starting, runtimes>> /\ thr' = [thr EXCEPT ![t].pc = "unregister"]
    BY DEF RollbackLease, registry
  <1>3. ReservationsExclusive' /\ StopsOK'
      BY <1>1, <1>2, PcOnly, SameRoles DEF IInv, Typed, TypeOK, InStart,
         ThreadPC, Leasing
  <1>4. ~Registered(thr[t].key) /\ Alone(t)
      BY <1>1 DEF IInv, Safe, ReservationsExclusive, StopsOK, Typed,
         ThreadsOK, ThreadOK, Starting, Alone
  <1>5. CASE /\ redirects' = [redirects EXCEPT ![thr[t].key] = NoRedirect]
             /\ UNCHANGED orphaned
    <2>3. LeasesOK'
      BY <1>1, <1>2, <1>4, <1>5 DEF IInv, Typed, TypeOK, Safe, LeasesOK,
         OutsideType, Starting, InStart, Stopping, Thread, NoRedirect,
         Leasing, Alone
    <2>4. RuntimesRedirected'
      BY <1>1, <1>2, <1>4, <1>5 DEF IInv, Typed, TypeOK, Safe,
         RuntimesRedirected, OutsideType, Registered, Thread, NoRedirect
    <2>5. RedirectsOwned'
      BY <1>1, <1>2, <1>4, <1>5 DEF IInv, Typed, TypeOK, Safe, RedirectsOwned,
         OutsideType, Registered, Thread, HoldsLease, Threads, NoRedirect
    <2>6. QED
      BY <1>3, <2>3, <2>4, <2>5 DEF Safe
  <1>6. CASE orphaned' = orphaned \cup {thr[t].key} /\ UNCHANGED redirects
    <2>3. LeasesOK'
      BY <1>1, <1>2, <1>4, <1>6 DEF IInv, Typed, TypeOK, Safe, LeasesOK,
         OutsideType, Starting, InStart, Stopping, Thread, Leasing, Alone
    <2>4. RuntimesRedirected'
      BY <1>1, <1>2, <1>4, <1>6 DEF IInv, Typed, TypeOK, Safe,
         RuntimesRedirected, OutsideType, Registered, Thread
    <2>5. RedirectsOwned'
      BY <1>1, <1>2, <1>4, <1>6 DEF IInv, Typed, TypeOK, Safe, RedirectsOwned,
         OutsideType, Registered, Thread, HoldsLease, Threads
    <2>6. QED
      BY <1>3, <2>3, <2>4, <2>5 DEF Safe
  <1>7. QED
    BY <1>5, <1>6 DEF RollbackLease

LEMMA SafeEndStart ==
    ASSUME IInv, NEW t \in Callers, EndStart(t)
    PROVE  Safe'
  <1>1. /\ t \in Threads /\ thr[t].key \in Keys /\ Starting(t)
        /\ thr[t].pc = "unregister" /\ thr[t].res # None
    BY DEF Threads, IInv, Typed, ThreadsOK, ThreadOK, EndStart, Starting,
       InStart
  <1>2. /\ UNCHANGED <<runtimes, redirects, orphaned>>
        /\ thr' = [thr EXCEPT ![t] = IdleThread]
    BY DEF EndStart, outside, history
  <1>3. starting' = [starting EXCEPT ![thr[t].key] = None]
    BY <1>1 DEF EndStart, Reserved, IInv, Safe, ReservationsExclusive
  <1>4. \A u \in Threads \ {t} : thr[u].key = thr[t].key => ~Starting(u)
    BY <1>1 DEF IInv, Safe, ReservationsExclusive
  <1>5. ReservationsExclusive'
    BY <1>1, <1>2, <1>3, <1>4, IdleTyped DEF IInv, Typed, TypeOK,
       RegistryType, Safe, ReservationsExclusive, Starting, InStart,
       Registered, None
  <1>6. StopsOK'
    BY <1>1, <1>2, IdleTyped DEF IInv, Typed, TypeOK, Safe, StopsOK, Stopping,
       Registered, Alone
  <1>7. LeasesOK'
    BY <1>1, <1>2, IdleTyped DEF IInv, Typed, TypeOK, Safe, LeasesOK, Leasing
  <1>8. RuntimesRedirected'
    BY <1>1, <1>2, IdleTyped DEF IInv, Typed, TypeOK, Safe,
       RuntimesRedirected, Registered
  <1>9. RedirectsOwned'
    BY <1>1, <1>2, IdleTyped DEF IInv, Typed, TypeOK, Safe, RedirectsOwned,
       Registered, HoldsLease, Threads
  <1>10. QED
    BY <1>5, <1>6, <1>7, <1>8, <1>9 DEF Safe

LEMMA SafePublish ==
    ASSUME IInv, NEW t \in Callers, Publish(t)
    PROVE  Safe'
  <1>1. /\ t \in Threads /\ thr[t].key \in Keys /\ Starting(t)
        /\ thr[t].pc = "publish" /\ thr[t].res # None
    BY DEF Threads, IInv, Typed, ThreadsOK, ThreadOK, Publish, Starting,
       InStart
  <1>2. UNCHANGED <<redirects, orphaned>>
    BY DEF Publish, outside, history
  <1>3. CASE thr' = [thr EXCEPT ![t].pc = "rollback"] /\ UNCHANGED <<runtimes, starting>>
     BY <1>1, <1>2, <1>3, PcOnly, SameLeases DEF IInv, Typed, TypeOK, InStart,
        ThreadPC, Leasing
  <1>4. ASSUME runtimes' = [runtimes EXCEPT ![thr[t].key] =
                             [res |-> thr[t].res, stopping |-> FALSE]],
               starting' = [starting EXCEPT ![thr[t].key] = None],
               thr' = [thr EXCEPT ![t] = IdleThread]
        PROVE Safe'
    <2>1. ~Registered(thr[t].key) /\ Alone(t)
      BY <1>1 DEF IInv, Safe, ReservationsExclusive, StopsOK, Typed,
         ThreadsOK, ThreadOK, Starting, Alone
    <2>2. ReservationsExclusive'
      BY <1>1, <1>4, <2>1, IdleTyped DEF IInv, Typed, TypeOK, RegistryType,
         Safe, ReservationsExclusive, Starting, InStart, Registered
    <2>3. StopsOK'
      BY <1>1, <1>4, <2>1, IdleTyped DEF IInv, Typed, TypeOK, RegistryType,
         Safe, StopsOK, Stopping, Registered, Alone
    <2>4. LeasesOK'
      BY <1>1, <1>2, <1>4, <2>1, IdleTyped DEF IInv, Typed, TypeOK, Safe,
         LeasesOK, Leasing
    <2>5. redirects[thr[t].key].res = thr[t].res
      BY <1>1 DEF IInv, Safe, LeasesOK, Leasing
    <2>6. RuntimesRedirected'
      BY <1>1, <1>2, <1>4, <2>1, <2>5, IdleTyped DEF IInv, Typed, TypeOK,
         RegistryType, Safe, RuntimesRedirected, Registered
    <2>7. RedirectsOwned'
      BY <1>1, <1>2, <1>4, <2>1, <2>5, IdleTyped DEF IInv, Typed, TypeOK,
         RegistryType, Safe, RedirectsOwned, Registered, HoldsLease, Threads
    <2>8. QED
      BY <2>2, <2>3, <2>4, <2>6, <2>7 DEF Safe
  <1>5. QED
    BY <1>3, <1>4 DEF Publish

(* Stop marks a runtime; called by a goroutine or by StopAll.               *)
LEMMA StopBegins ==
    ASSUME IInv, NEW t \in Threads, NEW k \in Keys, thr[t].pc = "idle", CanStop(k),
           runtimes' = [runtimes EXCEPT ![k].stopping = TRUE],
           thr' = [thr EXCEPT ![t] = StopThread(k)],
           UNCHANGED <<starting, redirects, orphaned>>
    PROVE  Safe'
  <1>1. /\ StopThread(k).pc = "release" /\ StopThread(k).key = k
        /\ StopThread(k).res = runtimes[k].res
    BY DEF StopThread, IdleThread
  <1>2. /\ runtimes'[k].res = runtimes[k].res /\ runtimes'[k].stopping
        /\ \A j \in Keys \ {k} : runtimes'[j] = runtimes[j]
    BY DEF IInv, Typed, TypeOK, RegistryType, Runtime
  <1>3. thr'[t] = StopThread(k) /\ \A u \in Threads \ {t} : thr'[u] = thr[u]
    BY DEF IInv, Typed, TypeOK
  <1>4. \A j \in Keys : Registered(j)' <=> Registered(j)
    BY <1>2 DEF Registered
  <1>5. ReservationsExclusive'
    BY <1>1, <1>2, <1>3, <1>4 DEF IInv, Safe, ReservationsExclusive, Starting,
       InStart
  <1>6. StopsOK'
    BY <1>1, <1>2, <1>3, <1>4 DEF IInv, Typed, ThreadsOK, ThreadOK, Safe,
       StopsOK, Stopping, CanStop, Alone
  <1>7. LeasesOK'
    BY <1>1, <1>3 DEF IInv, Safe, LeasesOK, Leasing
  <1>8. RuntimesRedirected'
    BY <1>1, <1>2, <1>3, <1>4 DEF IInv, Safe, RuntimesRedirected
  <1>9. RedirectsOwned'
    BY <1>1, <1>2, <1>3, <1>4 DEF IInv, Safe, RedirectsOwned, HoldsLease,
       Threads
  <1>10. QED
    BY <1>5, <1>6, <1>7, <1>8, <1>9 DEF Safe

(* While a goroutine stops a key, no other one starts or stops it.          *)
LEMMA StopFacts ==
    ASSUME IInv, NEW t \in Threads, Stopping(t)
    PROVE  /\ thr[t].key \in Keys /\ Registered(thr[t].key) /\ SameRuntime(t)
           /\ Alone(t)
  BY DEF IInv, Safe, StopsOK, ReservationsExclusive, Typed, ThreadsOK,
     ThreadOK, Stopping, Starting, SameRuntime, InStart, Alone

LEMMA SafeReleaseFails ==
    ASSUME IInv, NEW t \in Threads, ReleaseFails(t)
    PROVE  Safe'
  <1>1. /\ Stopping(t) /\ thr[t].pc = "release"
        /\ UNCHANGED <<starting, redirects, orphaned>>
        /\ thr' = [thr EXCEPT ![t] = IdleThread]
    BY DEF ReleaseFails, Stopping, outside, Alone
  <1>2. runtimes' = [runtimes EXCEPT ![thr[t].key].stopping = FALSE]
    BY <1>1, StopFacts DEF ReleaseFails
  <1>3. \A j \in Keys : /\ runtimes'[j].res = runtimes[j].res
                        /\ j # thr[t].key => runtimes'[j] = runtimes[j]
    BY <1>1, <1>2, StopFacts DEF IInv, Typed, TypeOK, RegistryType, Runtime
  <1>4. thr'[t] = IdleThread /\ \A u \in Threads \ {t} : thr'[u] = thr[u]
    BY <1>1 DEF IInv, Typed, TypeOK
  <1>5. \A j \in Keys : Registered(j)' <=> Registered(j)
    BY <1>3 DEF Registered
  <1>6. ReservationsExclusive'
    BY <1>1, <1>4, <1>5, IdleTyped, StopFacts DEF IInv, Safe,
       ReservationsExclusive, Starting, InStart, Stopping, Alone
  <1>7. StopsOK'
    BY <1>1, <1>3, <1>4, <1>5, IdleTyped, StopFacts DEF IInv, Typed,
       ThreadsOK, ThreadOK, Safe, StopsOK, Stopping, Alone
  <1>8. LeasesOK'
    BY <1>1, <1>4, IdleTyped DEF IInv, Safe, LeasesOK, Leasing
  <1>9. RuntimesRedirected'
    BY <1>1, <1>3, <1>4, <1>5, IdleTyped DEF IInv, Safe, RuntimesRedirected
  <1>10. RedirectsOwned'
    BY <1>1, <1>3, <1>4, <1>5, IdleTyped DEF IInv, Safe, RedirectsOwned,
       HoldsLease, Threads
  <1>11. QED
    BY <1>6, <1>7, <1>8, <1>9, <1>10 DEF Safe

LEMMA SafeRelease ==
    ASSUME IInv, NEW t \in Threads, Release(t)
    PROVE  Safe'
  <1>1. /\ Stopping(t) /\ thr[t].pc = "release" /\ UNCHANGED <<starting, runtimes>>
        /\ thr' = [thr EXCEPT ![t].pc = "remove"]
        /\ redirects' = [redirects EXCEPT ![thr[t].key] = NoRedirect]
        /\ orphaned' = orphaned \ {thr[t].key}
    BY DEF Release, Stopping, registry, Alone
  <1>2. /\ thr'[t].pc = "remove" /\ thr'[t].key = thr[t].key /\ thr'[t].res = thr[t].res
        /\ \A u \in Threads \ {t} : thr'[u] = thr[u]
    BY <1>1 DEF IInv, Typed, TypeOK, Thread
  <1>3. /\ redirects'[thr[t].key].res = None
        /\ \A j \in Keys \ {thr[t].key} : redirects'[j] = redirects[j]
    BY <1>1, StopFacts DEF IInv, Typed, TypeOK, OutsideType, NoRedirect
  <1>4. ReservationsExclusive' /\ StopsOK'
    <2>1. \A u \in Threads : Moved(u)
      BY <1>1, <1>2 DEF Moved, InStart, Starting, Stopping
    <2>2. QED
      BY <1>1, <2>1, SameRoles DEF IInv
  <1>5. LeasesOK'
    <2>1. \A u \in Threads : thr[u].pc \in Leasing \cup {"remove"} =>
            Starting(u) \/ Stopping(u)
      BY DEF Starting, Stopping, InStart, Leasing
    <2>2. \A u \in Threads \ {t} : thr[u].pc \in Leasing \cup {"remove"} =>
            thr[u].key \in Keys \ {thr[t].key}
      BY <1>1, <2>1, StopFacts DEF IInv, Typed, ThreadsOK, ThreadOK, Alone,
         Leasing
    <2>3. QED
      BY <1>2, <1>3, <2>2 DEF IInv, Safe, LeasesOK, Leasing
  <1>6. RuntimesRedirected'
    BY <1>1, <1>2, <1>3, StopFacts DEF IInv, Safe, RuntimesRedirected,
       Registered, SameRuntime
  <1>7. RedirectsOwned'
    BY <1>1, <1>2, <1>3, StopFacts DEF IInv, Safe, RedirectsOwned, HoldsLease,
       Threads, Registered
  <1>8. QED
    BY <1>4, <1>5, <1>6, <1>7 DEF Safe

LEMMA SafeRemove ==
    ASSUME IInv, NEW t \in Threads, Remove(t)
    PROVE  Safe'
  <1>1. /\ Stopping(t) /\ thr[t].pc = "remove"
        /\ UNCHANGED <<starting, redirects, orphaned>>
    BY DEF Remove, Stopping, outside, Alone
  <1>2. /\ runtimes' = [runtimes EXCEPT ![thr[t].key] = NoRuntime]
        /\ \/ thr' = [thr EXCEPT ![t] = IdleThread]
           \/ thr' = [thr EXCEPT ![t].pc = "drop", ![t].n = NPorts,
                                 ![t].conn = ctl.client]
    BY <1>1, StopFacts DEF Remove
  <1>3. /\ runtimes'[thr[t].key].res = None
        /\ \A j \in Keys \ {thr[t].key} : runtimes'[j] = runtimes[j]
    BY <1>1, <1>2, StopFacts DEF IInv, Typed, TypeOK, RegistryType, NoRuntime
  <1>4. thr'[t].pc \in {"idle", "drop"} /\ \A u \in Threads \ {t} : thr'[u] = thr[u]
    BY <1>2, IdleTyped DEF IInv, Typed, TypeOK, Thread
  <1>5. \A j \in Keys : Registered(j)' <=> (j # thr[t].key /\ Registered(j))
    BY <1>3 DEF Registered, None
  <1>6. redirects[thr[t].key].res = None
    BY <1>1 DEF IInv, Safe, LeasesOK, Leasing
  <1>7. ReservationsExclusive'
    BY <1>1, <1>4, <1>5, StopFacts DEF IInv, Safe, ReservationsExclusive,
       Starting, InStart, Stopping, Alone
  <1>8. StopsOK'
    BY <1>1, <1>3, <1>4, <1>5, StopFacts DEF IInv, Typed, ThreadsOK, ThreadOK,
       Safe, StopsOK, Stopping, Alone
  <1>9. LeasesOK'
    BY <1>1, <1>4 DEF IInv, Safe, LeasesOK, Leasing
  <1>10. RuntimesRedirected'
    BY <1>1, <1>3, <1>4, <1>5, StopFacts DEF IInv, Safe, RuntimesRedirected
  <1>11. RedirectsOwned'
    BY <1>1, <1>3, <1>4, <1>5, <1>6, StopFacts DEF IInv, Safe, RedirectsOwned,
       HoldsLease, Threads
  <1>12. QED
    BY <1>7, <1>8, <1>9, <1>10, <1>11 DEF Safe

LEMMA SafeInit == Init => Safe
  <1> SUFFICES ASSUME Init PROVE Safe
    OBVIOUS
  <1>1. \A t \in Threads : thr[t].pc = "idle"
    BY IdleTyped DEF Init
  <1>2. \A k \in Keys : ~Registered(k) /\ starting[k] = None /\ redirects[k].res = None
    BY DEF Init, Registered, NoRuntime, NoRedirect
  <1>3. QED
    BY <1>1, <1>2 DEF Safe, ReservationsExclusive, StopsOK, LeasesOK,
       RuntimesRedirected, RedirectsOwned, Stopping, Starting, InStart,
       Leasing, Alone

LEMMA SafeStopNext ==
    ASSUME IInv, NEW k \in Keys, StopNext(k) PROVE Safe'
  <1>1. UNCHANGED <<starting, redirects, orphaned>> /\ Main \in Threads
    BY DEF StopNext, outside, history, Threads
  <1>2. CASE CanStop(k)
    BY <1>1, <1>2, StopBegins DEF StopNext
  <1>3. CASE ~CanStop(k)
    BY <1>1, <1>3, SafeUnchanged DEF StopNext, IInv
  <1>4. QED
    BY <1>2, <1>3

LEMMA SafeBeginStop ==
    ASSUME IInv, NEW t \in Callers, NEW k \in Keys, BeginStop(t, k)
    PROVE  Safe'
  <1>1. t \in Threads /\ UNCHANGED <<starting, redirects, orphaned>>
    BY DEF BeginStop, outside, history, Threads
  <1>2. QED
    BY <1>1, StopBegins DEF BeginStop

LEMMA SafeRun ==
    ASSUME IInv,
           \/ \E c \in Conns : Start(c)
           \/ \E a \in {gateway, pod} : BeginRecovery(a)
           \/ RecoveryStep \/ StopAll \/ EndStopAll \/ Network \/ UNCHANGED vars
    PROVE  Safe'
  <1>1. UNCHANGED <<thr, starting, runtimes, redirects, orphaned>>
    BY DEF Start, BeginRecovery, RecoveryStep, Redial, EndAttempt, FinishRecovery,
       Reregister, UndoRegistration, StopAll, EndStopAll, Network, GatewayReplaced,
       ControlCut, ReadLoopExit, RemoveControl, vars, registry, outside, history
  <1>2. QED
    BY <1>1, SafeUnchanged DEF IInv

LEMMA SafeNext == IInv /\ [Next]_vars => IInv'
  <1> SUFFICES ASSUME IInv, [Next]_vars PROVE Safe'
    BY TypedNext DEF IInv
  <1>1. ASSUME NEW t \in Callers, NEW k \in Keys, BeginStop(t, k)
        PROVE  Safe'
    BY <1>1, SafeBeginStop
  <1>2. ASSUME NEW t \in Callers, NEW k \in Keys, NEW m \in Modes, BeginStart(t, k, m)
        PROVE  Safe'
    BY <1>2, SafeBeginStart
  <1>3. ASSUME NEW t \in Callers, StartStep(t)
        PROVE  Safe'
    BY <1>3, SafePrepareFails, SafeRegisterPort, SafeApply, SafeNoPrimary,
       SafePublish, SafeRollbackLease, SafeRollbackPort, SafeEndStart DEF StartStep
  <1>4. ASSUME NEW t \in Threads, StopStep(t)
        PROVE  Safe'
    BY <1>4, SafeRelease, SafeReleaseFails, SafeRemove, SafeDropPort
       DEF StopStep
  <1>5. ASSUME NEW k \in Keys, StopNext(k)
        PROVE  Safe'
    BY <1>5, SafeStopNext
  <1>6. QED
    BY <1>1, <1>2, <1>3, <1>4, <1>5, SafeRun DEF Next, StopAllStep

LEMMA Invariance == Spec => []IInv
  <1>1. Init => IInv
    BY TypedInit, SafeInit DEF IInv
  <1>2. QED
    BY <1>1, SafeNext, PTL DEF Spec

(* For any number of goroutines and Services, two starts of one Service     *)
(* never both hold its reservation, a reserved key has nothing published,   *)
(* and every reservation ends with the start that made it.                  *)
THEOREM StartsAreExclusive == Spec => []ReservationsExclusive
  <1>1. IInv => ReservationsExclusive
    BY DEF IInv, Safe
  <1>2. QED
    BY <1>1, Invariance, PTL

(* However starts, stops, recoveries and session ends interleave, a Service *)
(* that points at the Gateway is answered for by a published runtime or by  *)
(* the start in progress, unless a rollback failed to release it.           *)
THEOREM RedirectsAreOwned == Spec => []RedirectsOwned
  <1>1. IInv => RedirectsOwned
    BY DEF IInv, Safe
  <1>2. QED
    BY <1>1, Invariance, PTL

(* No start, rollback or stop undoes the redirect of a runtime that another *)
(* one published: it goes only with the Stop that holds the runtime's mark. *)
THEOREM RuntimesKeepTheirRedirect == Spec => []RuntimesRedirected
  <1>1. IInv => RuntimesRedirected
    BY DEF IInv, Safe
  <1>2. QED
    BY <1>1, Invariance, PTL

-----------------------------------------------------------------------------
(* The control connection: what is left when a session has ended, what     *)
(* listens at the Gateway while the control is ready, and who answers for  *)
(* it.                                                                     *)

(* The end of a session.                                                    *)

(* The mark of a runtime is held by a goroutine that stops it.              *)
MarksHeld == \A k \in Keys : runtimes[k].stopping =>
    \E t \in Threads : Stopping(t) /\ thr[t].key = k

(* StopAll still has to call Stop for k.                                    *)
StillListed(k) == run.pc = "stopall" /\ k \in run.ids

EndInv ==
    /\ MarksHeld
    /\ ~active => \A k \in Keys : Registered(k) =>
         \/ k \in unreleased \/ StillListed(k)
         \/ \E t \in Threads : Stopping(t) /\ thr[t].key = k

(* A step that keeps the runtimes, the goroutines that stop them and what   *)
(* StopAll has listed.                                                      *)
LEMMA EndKept ==
    ASSUME EndInv, UNCHANGED <<runtimes, unreleased>>, active => active',
           \A u \in Threads : Stopping(u) => Stopping(u)' /\ thr'[u].key = thr[u].key,
           \A k \in Keys : StillListed(k) => StillListed(k)'
    PROVE  EndInv'
  <1>1. \A k \in Keys : Registered(k)' <=> Registered(k)
    BY DEF Registered
  <1>2. QED
    BY <1>1 DEF EndInv, MarksHeld

(* Goroutine t moves to another pc, or to another port.                     *)
LEMMA OneMoves ==
    ASSUME thr \in [Threads -> Thread], NEW t \in Threads, NEW x,
           thr' = [thr EXCEPT ![t].pc = x]
    PROVE  /\ thr'[t] = [thr[t] EXCEPT !.pc = x] /\ thr'[t].pc = x
           /\ thr'[t].key = thr[t].key /\ thr'[t].res = thr[t].res
           /\ thr'[t].conn = thr[t].conn /\ thr'[t].gen = thr[t].gen /\ thr'[t].n = thr[t].n
           /\ \A u \in Threads \ {t} : thr'[u] = thr[u]
  BY DEF Thread

LEMMA EndStartStep ==
    ASSUME IInv, EndInv, NEW t \in Callers, StartStep(t)
    PROVE  EndInv'
  <1>1. t \in Threads /\ thr \in [Threads -> Thread] /\ thr[t] \in Thread
    BY DEF IInv, Typed, TypeOK, Threads
  <1>2. ~Stopping(t) /\ UNCHANGED <<unreleased, active, run>>
    BY DEF StartStep, PrepareFails, RegisterPort, Apply, NoPrimary, Publish,
       RollbackLease, RollbackPort, EndStart, Stopping, manager, history
  <1>3. \A u \in Threads \ {t} : thr'[u] = thr[u]
    BY <1>1 DEF StartStep, PrepareFails, RegisterPort, Apply, NoPrimary, Publish,
       RollbackLease, RollbackPort, EndStart
  <1>4. CASE UNCHANGED runtimes
    BY <1>2, <1>3, <1>4, EndKept DEF Stopping, StillListed
  <1>5. CASE Publish(t) /\ CanPublish(t)
    <2>1. active' /\ thr[t].key \in Keys
      BY <1>1, <1>2, <1>5 DEF CanPublish, IInv, Typed, ThreadsOK, ThreadOK, Publish
    <2>2. runtimes' = [runtimes EXCEPT ![thr[t].key] = [res |-> thr[t].res, stopping |-> FALSE]]
      BY <1>5 DEF Publish
    <2>3. \A k \in Keys : runtimes'[k].stopping => runtimes[k].stopping
      BY <2>1, <2>2 DEF IInv, Typed, TypeOK, RegistryType
    <2>4. QED
      BY <1>2, <1>3, <2>1, <2>3 DEF EndInv, MarksHeld, Stopping
  <1>6. QED
    BY <1>4, <1>5 DEF StartStep, PrepareFails, RegisterPort, Apply, NoPrimary, Publish,
       RollbackLease, RollbackPort, EndStart, registry

LEMMA EndBeginStart ==
    ASSUME IInv, EndInv, NEW t \in Callers, NEW k \in Keys, NEW m \in Modes, BeginStart(t, k, m)
    PROVE  EndInv'
  <1>1. t \in Threads /\ ~Stopping(t)
    BY DEF BeginStart, Stopping, Threads
  <1>2. UNCHANGED <<runtimes, unreleased, active, run>>
    BY DEF BeginStart, manager, history
  <1>3. \A u \in Threads \ {t} : thr'[u] = thr[u]
    BY DEF BeginStart, IInv, Typed, TypeOK
  <1>4. QED
    BY <1>1, <1>2, <1>3, EndKept DEF Stopping, StillListed

(* Goroutine t begins to stop k, which is not being stopped.                *)
LEMMA EndStopBegins ==
    ASSUME IInv, EndInv, NEW t \in Threads, NEW k \in Keys, thr[t].pc = "idle",
           runtimes' = [runtimes EXCEPT ![k].stopping = TRUE],
           thr' = [thr EXCEPT ![t] = StopThread(k)], UNCHANGED <<active, unreleased>>,
           \A j \in Keys \ {k} : StillListed(j) => StillListed(j)'
    PROVE  EndInv'
  <1>1. Stopping(t)' /\ thr'[t].key = k /\ ~Stopping(t)
    BY DEF StopThread, IdleThread, Stopping, IInv, Typed, TypeOK
  <1>2. \A u \in Threads \ {t} : thr'[u] = thr[u]
    BY DEF IInv, Typed, TypeOK
  <1>3. \A j \in Keys \ {k} : runtimes'[j] = runtimes[j]
    BY DEF IInv, Typed, TypeOK, RegistryType
  <1>4. MarksHeld'
    BY <1>1, <1>2, <1>3 DEF EndInv, MarksHeld, Stopping
  <1>5. QED
    BY <1>1, <1>2, <1>3, <1>4 DEF EndInv, Stopping, Registered

LEMMA EndStopNext ==
    ASSUME IInv, EndInv, NEW k \in Keys, StopNext(k)
    PROVE  EndInv'
  <1>1. Main \in Threads /\ UNCHANGED <<active, unreleased>> /\ thr[Main].pc = "idle"
    BY DEF StopNext, Threads, manager, history
  <1>2. \A j \in Keys \ {k} : StillListed(j) => StillListed(j)'
    BY DEF StopNext, StillListed, IInv, Typed, TypeOK, Run
  <1>3. CASE CanStop(k)
    BY <1>1, <1>2, <1>3, EndStopBegins DEF StopNext
  <1>4. CASE ~CanStop(k)
    <2>1. UNCHANGED <<runtimes, thr>>
      BY <1>4 DEF StopNext
    <2>2. MarksHeld'
      BY <2>1 DEF EndInv, MarksHeld, Stopping
    <2>3. Registered(k) => \E t \in Threads : Stopping(t) /\ thr[t].key = k
      BY <1>4 DEF CanStop, EndInv, MarksHeld
    <2>4. QED
      BY <1>1, <1>2, <2>1, <2>2, <2>3 DEF EndInv, Registered, Stopping
  <1>5. QED
    BY <1>3, <1>4

LEMMA EndStopStep ==
    ASSUME IInv, EndInv, NEW t \in Threads, StopStep(t)
    PROVE  EndInv'
  <1>1. /\ UNCHANGED <<active, run>> /\ thr \in [Threads -> Thread] /\ thr[t] \in Thread
        /\ runtimes \in [Keys -> Runtime]
    BY DEF StopStep, Release, ReleaseFails, Remove, DropPort, manager, IInv, Typed, TypeOK,
       RegistryType
  <1>2. \A k \in Keys : StillListed(k)' <=> StillListed(k)
    BY <1>1 DEF StillListed
  <1>3. \A u \in Threads \ {t} : thr'[u] = thr[u]
    BY <1>1 DEF StopStep, Release, ReleaseFails, Remove, DropPort
  <1>4. CASE Release(t)
    <2>1. /\ thr[t].pc = "release" /\ UNCHANGED <<runtimes, unreleased>>
          /\ thr' = [thr EXCEPT ![t].pc = "remove"]
      BY <1>4 DEF Release, registry
    <2>2. \A u \in Threads : Stopping(u) => Stopping(u)' /\ thr'[u].key = thr[u].key
      BY <1>1, <1>3, <2>1, OneMoves DEF Stopping
    <2>3. QED
      BY <1>1, <1>2, <2>1, <2>2, EndKept
  <1>5. CASE DropPort(t)
    <2>1. thr[t].pc = "drop" /\ UNCHANGED <<runtimes, unreleased>>
      BY <1>5 DEF DropPort, registry, history
    <2>2. \A u \in Threads : Stopping(u) => Stopping(u)' /\ thr'[u].key = thr[u].key
      BY <1>3, <2>1 DEF Stopping
    <2>3. QED
      BY <1>1, <1>2, <2>1, <2>2, EndKept
  <1>6. CASE ReleaseFails(t)
    <2>1. Stopping(t) /\ runtimes' = [runtimes EXCEPT ![thr[t].key].stopping = FALSE]
      BY <1>6, StopFacts DEF ReleaseFails, Stopping
    <2>2. thr[t].key \in Keys
      BY <2>1, StopFacts
    <2>3. /\ ~runtimes'[thr[t].key].stopping /\ thr[t].key \in unreleased'
          /\ \A k \in Keys \ {thr[t].key} : runtimes'[k] = runtimes[k]
          /\ unreleased \subseteq unreleased'
      BY <1>1, <1>6, <2>1, <2>2 DEF ReleaseFails, Runtime
    <2>4. QED
      BY <1>1, <1>2, <1>3, <2>3 DEF EndInv, MarksHeld, Stopping, Registered
  <1>7. CASE Remove(t)
    <2>1. Stopping(t) /\ SameRuntime(t) /\ thr[t].key \in Keys
      BY <1>7, StopFacts DEF Remove, Stopping
    <2>2. /\ runtimes'[thr[t].key].res = None /\ ~runtimes'[thr[t].key].stopping
          /\ \A k \in Keys \ {thr[t].key} : runtimes'[k] = runtimes[k]
          /\ unreleased \ {thr[t].key} \subseteq unreleased'
      BY <1>1, <1>7, <2>1 DEF Remove, NoRuntime, Registered
    <2>3. QED
      BY <1>1, <1>2, <1>3, <2>2 DEF EndInv, MarksHeld, Stopping, Registered
  <1>8. QED
    BY <1>4, <1>5, <1>6, <1>7 DEF StopStep

(* The steps of Main and of the network.                                    *)
LEMMA EndRun ==
    ASSUME IInv, EndInv,
           \/ \E c \in Conns : Start(c)
           \/ \E a \in {gateway, pod} : BeginRecovery(a)
           \/ RecoveryStep \/ StopAll \/ EndStopAll \/ Network \/ UNCHANGED vars
    PROVE  EndInv'
  <1>1. UNCHANGED <<thr, runtimes, unreleased>>
    BY DEF Start, BeginRecovery, RecoveryStep, Redial, EndAttempt, FinishRecovery,
       Reregister, UndoRegistration, StopAll, EndStopAll, Network, GatewayReplaced,
       ControlCut, ReadLoopExit, RemoveControl, vars, registry, history
  <1>2. MarksHeld'
    BY <1>1 DEF EndInv, MarksHeld, Stopping
  <1>3. CASE \E c \in Conns : Start(c)
    BY <1>2, <1>3 DEF Start, EndInv
  <1>4. CASE StopAll
    <2>1. run' = [IdleRun EXCEPT !.pc = "stopall", !.conn = ctl.client,
                                 !.ids = {k \in Keys : Registered(k)}]
      BY <1>4 DEF StopAll
    <2>2. \A k \in Keys : Registered(k)' => StillListed(k)'
      BY <1>1, <2>1 DEF IdleRun, StillListed, Registered
    <2>3. QED
      BY <1>2, <2>2 DEF EndInv
  <1>5. CASE EndStopAll
    BY <1>1, <1>5, EndKept DEF EndStopAll, StillListed, Stopping, manager
  <1>6. CASE RecoveryStep \/ \E a \in {gateway, pod} : BeginRecovery(a)
    <2>1. run.pc # "stopall" /\ active' = active
      BY <1>6 DEF RecoveryStep, Redial, EndAttempt, FinishRecovery, Reregister,
         UndoRegistration, BeginRecovery, manager
    <2>2. QED
      BY SMTT(30), <1>1, <2>1, EndKept DEF StillListed, Stopping
  <1>7. CASE Network \/ UNCHANGED vars
    <2>1. UNCHANGED <<run, active>>
      BY <1>7 DEF Network, GatewayReplaced, ControlCut, ReadLoopExit, RemoveControl, vars,
         manager
    <2>2. QED
      BY <1>1, <2>1, EndKept DEF StillListed, Stopping
  <1>8. QED
    BY <1>3, <1>4, <1>5, <1>6, <1>7

LEMMA EndNext == IInv /\ EndInv /\ [Next]_vars => EndInv'
  <1> SUFFICES ASSUME IInv, EndInv, [Next]_vars PROVE EndInv'
    OBVIOUS
  <1>1. ASSUME NEW t \in Callers, NEW k \in Keys, BeginStop(t, k)
        PROVE  EndInv'
    <2>1. t \in Threads /\ UNCHANGED <<active, unreleased, run>>
      BY <1>1 DEF BeginStop, Threads, manager, history
    <2>2. QED
      BY <1>1, <2>1, EndStopBegins DEF BeginStop, StillListed
  <1>2. QED
    BY <1>1, EndBeginStart, EndStartStep, EndStopStep, EndStopNext, EndRun DEF Next, StopAllStep

(* However a session ends, and whichever starts, stops and releases were in *)
(* flight: when StopAll has returned, nothing is published but what its     *)
(* Release could not undo or another goroutine is stopping.                 *)
THEOREM SessionsEndEmpty == Spec => []StopAllComplete
  <1>1. Init => EndInv
    BY DEF Init, EndInv, MarksHeld, NoRuntime, Registered
  <1>2. IInv /\ EndInv => StopAllComplete
    BY DEF EndInv, StopAllComplete, StillListed, Stopping
  <1>3. QED
    BY <1>1, <1>2, EndNext, Invariance, PTL DEF Spec

-----------------------------------------------------------------------------
(* The connections.                                                         *)

Recovering == run.pc \in {"dial", "rereg", "undo"}
Redialled == run.pc \in {"rereg", "undo"}

(* Connections are opened in order, and the Gateway serves opened ones; a   *)
(* readLoop ends only when its transport has.                               *)
ConnsInOrder == \A c \in Conns :
    /\ conns[c].opened => \A d \in Conns : d < c => conns[d].opened
    /\ conns[c].served => conns[c].opened
    /\ conns[c].closed => conns[c].cut

(* A connection a goroutine may hold: opened, and not the one of a recovery *)
(* in progress.                                                             *)
Seen(c) == conns[c].opened /\ (Redialled => c # run.conn)

(* The control is a connection that was opened.  A recovery holds it back   *)
(* until its own connection, which no goroutine has seen, replaces it; and  *)
(* that one follows another connection of the session.                      *)
ControlInv ==
    /\ ctl.client # None => ~ctl.recovering /\ conns[ctl.client].opened
    /\ Recovering => /\ ctl.client = None /\ ctl.recovering /\ ctl.gen = run.gen
                     /\ active /\ ~stopping
    /\ Redialled => conns[run.conn].opened /\ ~Original(run.conn)
    /\ active => \E d \in Conns : conns[d].opened /\ conns[d].token = ctl.token
    /\ \A t \in Threads : thr[t].conn # None => Seen(thr[t].conn)

(* Every listener has a control the Gateway serves, and each control        *)
(* registers a sub-id once.                                                 *)
ListenersInv ==
    /\ \A l \in listeners : conns[l.conn].served /\ l.port # None
    /\ \A l, m \in listeners : l.sub = m.sub /\ l.conn = m.conn => l = m

ConnInv == ConnsInOrder /\ ControlInv /\ ListenersInv

(* The types these proofs use.                                              *)
LEMMA ControlTypes ==
    ASSUME IInv
    PROVE  /\ conns \in [Conns -> Conn] /\ thr \in [Threads -> Thread] /\ run \in Run
           /\ ctl.client \in Conns \cup {None} /\ Conns \subseteq Nat \ {0}
           /\ ctl \in [client : Conns \cup {None}, recovering : BOOLEAN,
                       gen : 0..MaxGen, token : 0..MaxSessions]
           /\ runtimes \in [Keys -> Runtime] /\ listeners \subseteq Listener
           /\ Redialled => run.conn \in Conns
           /\ nextRes \in Nat
  BY ConstantsAssumption DEF IInv, Typed, TypeOK, ManagerType, OutsideType, RegistryType, RunOK,
     Redialled, Conns

(* What is opened stays opened, with its token.                             *)
Grown == \A c \in Conns : conns[c].opened =>
    conns'[c].opened /\ conns'[c].token = conns[c].token

LEMMA OriginalKept ==
    ASSUME IInv, ConnsInOrder, Grown, NEW c \in Conns, conns[c].opened
    PROVE  Original(c)' <=> Original(c)
  BY DEF ConnsInOrder, Grown, Original

LEMMA CloseOrdered ==
    ASSUME IInv, ConnsInOrder, NEW c, conns' = Close(c)
    PROVE  /\ ConnsInOrder' /\ Grown
           /\ \A d \in Conns : /\ conns'[d].served = conns[d].served
                               /\ conns[d].cut => conns'[d].cut
  <1>1. \A d \in Conns : /\ conns[d] \in Conn
                         /\ conns'[d] = IF d = c THEN [conns[d] EXCEPT !.cut = TRUE] ELSE conns[d]
    BY ControlTypes DEF Close
  <1>2. \A d \in Conns : /\ conns'[d].opened = conns[d].opened /\ conns'[d].token = conns[d].token
                         /\ conns'[d].closed = conns[d].closed
                         /\ conns'[d].served = conns[d].served
                         /\ conns[d].cut => conns'[d].cut
    BY <1>1 DEF Conn
  <1>3. QED
    BY <1>2 DEF ConnsInOrder, Grown

LEMMA OpenOrdered ==
    ASSUME IInv, ConnsInOrder, NEW c \in Conns, NEW a, NEW k \in 0..MaxSessions,
           CanOpen(c, a), conns' = Open(c, k)
    PROVE  /\ ConnsInOrder' /\ Grown /\ ~conns[c].opened
           /\ conns'[c].opened /\ conns'[c].token = k
           /\ \A d \in Conns : conns[d].opened => d # c /\ d < c /\ conns'[d] = conns[d]
  <1>1. /\ conns'[c].opened /\ conns'[c].token = k /\ conns'[c].served
        /\ ~conns'[c].closed /\ ~conns[c].opened
        /\ \A d \in Conns \ {c} : conns'[d] = conns[d]
    BY ControlTypes DEF Open, CanOpen
  <1>2. \A d \in Conns : conns[d].opened => d < c
    BY <1>1, ControlTypes DEF ConnsInOrder
  <1>3. ConnsInOrder'
    BY <1>1, <1>2, ControlTypes DEF ConnsInOrder, CanOpen
  <1>4. QED
    BY <1>1, <1>2, <1>3, ControlTypes DEF Grown

(* The listeners after a step that removes some, and after a registration.  *)
LEMMA ListenersShrink ==
    ASSUME ListenersInv, listeners' \subseteq listeners,
           \A l \in listeners' : conns[l.conn].served => conns'[l.conn].served
    PROVE  ListenersInv'
  BY DEF ListenersInv

LEMMA ListenersGrow ==
    ASSUME ListenersInv, NEW l \in Listener, NEW r \in RegisterResults(l),
           listeners' = r.ls, l.port # None, UNCHANGED conns
    PROVE  ListenersInv' /\ listeners \subseteq listeners'
  <1>1. \/ listeners' = listeners
        \/ listeners' = listeners \cup {l} /\ conns[l.conn].served /\ ~Taken(l)
    BY DEF RegisterResults
  <1>2. QED
    BY <1>1 DEF ListenersInv, Taken

LEMMA UnregisterShrinks ==
    ASSUME NEW c, NEW s, listeners' \in UnregisterResults(c, s)
    PROVE  /\ listeners' \subseteq listeners
           /\ \A l \in listeners : l \in listeners' \/ (l.sub = s /\ l.conn = c)
  BY DEF UnregisterResults

-----------------------------------------------------------------------------
(* The connections under the steps of the goroutines.                       *)

(* Goroutine u keeps its connection, gives it up, or takes the control.     *)
KeepsConn(u) == thr'[u].conn \in {thr[u].conn, None, ctl.client}

(* A step of a goroutine leaves the connections and the control alone.      *)
GoroutineStep ==
    /\ UNCHANGED <<active, stopping, ctl, conns>>
    /\ \A u \in Threads : KeepsConn(u)
    /\ UNCHANGED run \/ (run.pc = "stopall" /\ run'.pc = "stopall")

LEMMA GoroutineConns ==
    ASSUME IInv, ConnsInOrder, ControlInv, GoroutineStep
    PROVE  ConnsInOrder' /\ ControlInv'
  <1>1. /\ (Redialled' <=> Redialled) /\ (Recovering' <=> Recovering)
        /\ (Recovering \/ Redialled) => UNCHANGED run
    BY DEF GoroutineStep, Redialled, Recovering
  <1>2. \A c \in Conns : Original(c)' <=> Original(c)
    BY DEF GoroutineStep, Original
  <1>3. Redialled => Recovering
    BY DEF Redialled, Recovering
  <1>4. \A u \in Threads : thr'[u].conn # None => Seen(thr'[u].conn)
    BY <1>3 DEF GoroutineStep, KeepsConn, ControlInv, Seen
  <1>5. \A u \in Threads : thr'[u].conn # None =>
          conns'[thr'[u].conn].opened /\ (Redialled' => thr'[u].conn # run'.conn)
    BY <1>1, <1>4 DEF Seen, GoroutineStep
  <1>6. ConnsInOrder'
    BY DEF GoroutineStep, ConnsInOrder
  <1>7. Redialled' => conns'[run'.conn].opened /\ ~Original(run.conn)'
    BY <1>1, <1>2, ControlTypes DEF GoroutineStep, ControlInv
  <1>8. QED
    BY <1>1, <1>3, <1>5, <1>6, <1>7 DEF GoroutineStep, ControlInv, Seen, Original

LEMMA IdleConn == IdleThread.conn = None /\ IdleThread.res = None /\ IdleThread.n = 0
  BY DEF IdleThread

LEMMA BeginStopShape ==
    ASSUME IInv, NEW t \in Callers, NEW k \in Keys, BeginStop(t, k)
    PROVE  GoroutineStep /\ UNCHANGED listeners
  <1>1. StopThread(k).conn = None
    BY DEF StopThread, IdleThread
  <1>2. QED
    BY <1>1, ControlTypes DEF BeginStop, GoroutineStep, KeepsConn, manager, outside, Threads

LEMMA BeginStartShape ==
    ASSUME IInv, NEW t \in Callers, NEW k \in Keys, NEW m \in Modes, BeginStart(t, k, m)
    PROVE  GoroutineStep /\ UNCHANGED listeners
  BY ControlTypes DEF BeginStart, GoroutineStep, KeepsConn, manager, outside, Threads

LEMMA StartStepShape ==
    ASSUME IInv, NEW t \in Callers, StartStep(t)
    PROVE  GoroutineStep
  <1>1. t \in Threads /\ UNCHANGED <<active, stopping, ctl, conns, run>>
    BY DEF Threads, StartStep, PrepareFails, RegisterPort, Apply, NoPrimary, Publish,
       RollbackLease, RollbackPort, EndStart, manager, outside
  <1>2. thr'[t].conn \in {thr[t].conn, None} /\ \A u \in Threads \ {t} : thr'[u] = thr[u]
    BY <1>1, ControlTypes, IdleConn DEF StartStep, PrepareFails, RegisterPort, Apply,
       NoPrimary, Publish, RollbackLease, RollbackPort, EndStart, Thread
  <1>3. QED
    BY <1>1, <1>2 DEF GoroutineStep, KeepsConn

LEMMA StopStepShape ==
    ASSUME IInv, NEW t \in Threads, StopStep(t)
    PROVE  GoroutineStep
  <1>1. UNCHANGED <<active, stopping, ctl, conns, run>>
    BY DEF StopStep, Release, ReleaseFails, Remove, DropPort, manager, outside
  <1>2. thr'[t].conn \in {thr[t].conn, None, ctl.client} /\ \A u \in Threads \ {t} : thr'[u] = thr[u]
    BY ControlTypes, IdleConn DEF StopStep, Release, ReleaseFails, Remove, DropPort, Thread
  <1>3. QED
    BY <1>1, <1>2 DEF GoroutineStep, KeepsConn

LEMMA StopNextShape ==
    ASSUME IInv, NEW k \in Keys, StopNext(k)
    PROVE  GoroutineStep /\ UNCHANGED listeners
  <1>1. StopThread(k).conn = None
    BY DEF StopThread, IdleThread
  <1>2. UNCHANGED <<active, stopping, ctl, conns, listeners>> /\ run.pc = "stopall" /\ run'.pc = "stopall"
    BY ControlTypes DEF StopNext, manager, outside, Run
  <1>3. \A u \in Threads : KeepsConn(u)
    BY <1>1, ControlTypes DEF StopNext, KeepsConn
  <1>4. QED
    BY <1>2, <1>3 DEF GoroutineStep

(* The listeners under the steps of a start and of a stop.                  *)
LEMMA StartStepListeners ==
    ASSUME IInv, ListenersInv, NEW t \in Callers, StartStep(t)
    PROVE  ListenersInv'
  <1>1. t \in Threads /\ thr[t] \in Thread /\ UNCHANGED conns
    BY ControlTypes, StartStepShape DEF Threads, GoroutineStep
  <1>2. CASE RegisterPort(t)
    <2> DEFINE l == Reg(<<thr[t].key, thr[t].n + 1>>, thr[t].res, thr[t].conn)
    <2>1. thr[t].n + 1 \in 1..NPorts /\ thr[t].key \in Keys /\ thr[t].res # None /\ thr[t].conn \in Conns
      BY <1>1, <1>2, ConstantsAssumption DEF RegisterPort, IInv, Typed, ThreadsOK, ThreadOK,
         InStart, Thread
    <2>2. l \in Listener /\ l.port # None
      BY <1>1, <2>1 DEF Reg, Listener, Subs, Thread
    <2>3. \E r \in RegisterResults(l) : listeners' = r.ls
      BY <1>2 DEF RegisterPort
    <2> HIDE DEF l
    <2>4. QED
      BY <1>1, <2>2, <2>3, ListenersGrow
  <1>3. CASE RollbackPort(t)
    BY <1>1, <1>3, UnregisterShrinks, ListenersShrink DEF RollbackPort
  <1>4. CASE UNCHANGED listeners
    BY <1>1, <1>4, ListenersShrink
  <1>5. QED
    BY <1>2, <1>3, <1>4 DEF StartStep, PrepareFails, Apply, NoPrimary, Publish, RollbackLease,
       EndStart, outside

LEMMA StopStepListeners ==
    ASSUME IInv, ListenersInv, NEW t \in Threads, StopStep(t)
    PROVE  ListenersInv'
  <1>1. UNCHANGED conns
    BY StopStepShape DEF GoroutineStep
  <1>2. CASE DropPort(t)
    BY <1>1, <1>2, UnregisterShrinks, ListenersShrink DEF DropPort
  <1>3. CASE UNCHANGED listeners
    BY <1>1, <1>3, ListenersShrink
  <1>4. QED
    BY <1>2, <1>3 DEF StopStep, Release, ReleaseFails, Remove, outside

-----------------------------------------------------------------------------
(* The connections under the steps of Main and of the network.              *)

(* A step that leaves the goroutines, the control and the recovery alone.   *)
LEMMA TransportStep ==
    ASSUME IInv, ConnsInOrder, ControlInv, Grown,
           UNCHANGED <<thr, run, ctl, active, stopping>>
    PROVE  ControlInv'
  <1>1. (Redialled' <=> Redialled) /\ (Recovering' <=> Recovering)
    BY DEF Redialled, Recovering
  <1>2. Redialled' => conns'[run'.conn].opened /\ ~Original(run.conn)'
    BY <1>1, ControlTypes, OriginalKept DEF ControlInv, Grown
  <1>3. \A u \in Threads : thr'[u].conn # None =>
          conns'[thr'[u].conn].opened /\ (Redialled' => thr'[u].conn # run'.conn)
    BY <1>1, ControlTypes DEF ControlInv, Seen, Grown, Thread
  <1>4. ctl'.client # None => ~ctl'.recovering /\ conns'[ctl'.client].opened
    BY ControlTypes DEF ControlInv, Grown
  <1>5. active' => \E d \in Conns : conns'[d].opened /\ conns'[d].token = ctl'.token
    BY DEF ControlInv, Grown
  <1>6. QED
    BY <1>1, <1>2, <1>3, <1>4, <1>5 DEF ControlInv, Seen, Original

LEMMA NetworkConns ==
    ASSUME IInv, ConnInv, Network
    PROVE  ConnInv'
  <1>1. UNCHANGED <<thr, run, ctl, active, stopping>>
    BY DEF Network, GatewayReplaced, ControlCut, ReadLoopExit, RemoveControl, manager
  <1>2. CASE \E c \in Conns : ControlCut(c) \/ ReadLoopExit(c)
    <2>1. UNCHANGED listeners
      BY <1>2 DEF ControlCut, ReadLoopExit
    <2>2. \A d \in Conns : /\ conns'[d].opened = conns[d].opened /\ conns'[d].token = conns[d].token
                           /\ conns'[d].served = conns[d].served
                           /\ conns'[d].closed => conns'[d].cut
      BY <1>2, ControlTypes DEF ControlCut, ReadLoopExit, Conn, ConnInv, ConnsInOrder
    <2>3. ConnsInOrder' /\ Grown
      BY <2>2 DEF ConnInv, ConnsInOrder, Grown
    <2>4. ListenersInv'
      BY <2>1, <2>2, ControlTypes, ListenersShrink DEF ConnInv, Listener
    <2>5. QED
      BY <1>1, <2>3, <2>4, TransportStep DEF ConnInv
  <1>3. ASSUME NEW c \in Conns, RemoveControl(c) PROVE ConnInv'
    <2>1. /\ \A d \in Conns \ {c} : conns'[d] = conns[d]
          /\ conns'[c].opened = conns[c].opened /\ conns'[c].token = conns[c].token
          /\ ~conns'[c].served /\ conns'[c].closed = conns[c].closed
          /\ conns'[c].cut = conns[c].cut
      BY <1>3, ControlTypes DEF RemoveControl, Conn
    <2>2. ConnsInOrder' /\ Grown
      BY <2>1 DEF ConnInv, ConnsInOrder, Grown
    <2>3. ListenersInv'
      BY <1>3, <2>1, ControlTypes, ListenersShrink DEF RemoveControl, ConnInv, Listener
    <2>4. QED
      BY <1>1, <2>2, <2>3, TransportStep DEF ConnInv
  <1>4. CASE GatewayReplaced
    <2>1. \A d \in Conns : /\ conns'[d].opened = conns[d].opened /\ conns'[d].token = conns[d].token
                           /\ conns'[d].closed = conns[d].closed
                           /\ conns'[d].served => conns[d].served
                           /\ conns[d].cut => conns'[d].cut
      <3> TAKE d \in Conns
      <3>1. conns[d] \in Conn /\ conns'[d] = IF conns[d].opened
                THEN [conns[d] EXCEPT !.cut = TRUE, !.served = FALSE] ELSE conns[d]
        BY <1>4, ControlTypes DEF GatewayReplaced
      <3>2. QED
        BY <3>1 DEF Conn
    <2>2. ConnsInOrder' /\ Grown
      BY <2>1 DEF ConnInv, ConnsInOrder, Grown
    <2>3. ListenersInv'
      BY <1>4 DEF GatewayReplaced, ListenersInv
    <2>4. QED
      BY <1>1, <2>2, <2>3, TransportStep DEF ConnInv
  <1>5. QED
    BY <1>2, <1>3, <1>4 DEF Network

LEMMA StartConns ==
    ASSUME IInv, ConnInv, NEW c \in Conns, Start(c)
    PROVE  ConnInv'
  <1>1. /\ UNCHANGED <<thr, run, listeners>> /\ run.pc = "idle" /\ active' = TRUE
        /\ CanOpen(c, pod) /\ conns' = Open(c, ctl.token + 1)
        /\ ctl' = [client |-> c, recovering |-> FALSE, gen |-> ctl.gen + 1, token |-> ctl.token + 1]
    BY DEF Start
  <1>2. ctl.token + 1 \in 0..MaxSessions
    BY ControlTypes, ConstantsAssumption DEF Start
  <1>3. /\ ConnsInOrder' /\ Grown /\ conns'[c].opened /\ conns'[c].token = ctl.token + 1
        /\ \A d \in Conns : conns[d].opened => d # c /\ conns'[d] = conns[d]
    BY <1>1, <1>2, OpenOrdered DEF ConnInv
  <1>4. ~Redialled' /\ ~Recovering'
    BY <1>1 DEF Redialled, Recovering
  <1>5. ControlInv'
    BY <1>1, <1>3, <1>4, ControlTypes DEF ControlInv, ConnInv, Grown, Seen, Thread
  <1>6. ListenersInv'
    BY <1>1, <1>3, ControlTypes, ListenersShrink DEF ConnInv, ListenersInv, ConnsInOrder, Listener
  <1>7. QED
    BY <1>3, <1>5, <1>6 DEF ConnInv

LEMMA BeginRecoveryConns ==
    ASSUME IInv, ConnInv, NEW a \in {gateway, pod}, BeginRecovery(a)
    PROVE  ConnInv'
  <1>1. /\ UNCHANGED <<thr, listeners, active, stopping>> /\ active /\ ~stopping
        /\ conns' = Close(ctl.client)
        /\ ctl'.client = None /\ ctl'.recovering /\ ctl'.gen = ctl.gen + 1 /\ ctl'.token = ctl.token
    BY ControlTypes DEF BeginRecovery
  <1>2. run'.pc = "dial" /\ run'.gen = ctl.gen + 1
    BY DEF BeginRecovery, IdleRun
  <1>3. ConnsInOrder' /\ Grown /\ \A d \in Conns : conns'[d].served = conns[d].served
    BY <1>1, CloseOrdered DEF ConnInv
  <1>4. ~Redialled' /\ Recovering'
    BY <1>2 DEF Redialled, Recovering
  <1>5. ControlInv'
    BY <1>1, <1>2, <1>3, <1>4, ControlTypes DEF ControlInv, ConnInv, Grown, Seen, Thread
  <1>6. ListenersInv'
    BY <1>1, <1>3, ControlTypes, ListenersShrink DEF ConnInv, Listener
  <1>7. QED
    BY <1>3, <1>5, <1>6 DEF ConnInv

(* The recovery ends, or waits to dial again.                               *)
LEMMA RecoveryLetsGo ==
    ASSUME IInv, ConnInv, UNCHANGED <<thr, listeners, active, stopping>>,
           UNCHANGED conns \/ \E c : conns' = Close(c),
           ctl'.token = ctl.token, ctl'.client = None,
           \/ run'.pc \in {"idle", "stopall"}
           \/ (Recovering /\ run'.pc = "dial" /\ run'.gen = run.gen /\ ctl' = ctl)
    PROVE  ConnInv'
  <1>1. ConnsInOrder' /\ Grown /\ \A d \in Conns : conns'[d].served = conns[d].served
    <2>1. CASE UNCHANGED conns
      BY <2>1 DEF ConnInv, ConnsInOrder, Grown
    <2>2. QED
      BY <2>1, CloseOrdered DEF ConnInv
  <1>2. ~Redialled'
    BY DEF Redialled
  <1>3. Recovering' => Recovering /\ ctl' = ctl /\ run'.gen = run.gen
    BY DEF Recovering
  <1>4. ControlInv'
    BY <1>1, <1>2, <1>3, ControlTypes DEF ControlInv, ConnInv, Grown, Seen, Thread
  <1>5. ListenersInv'
    BY <1>1, ControlTypes, ListenersShrink DEF ConnInv, Listener
  <1>6. QED
    BY <1>1, <1>4, <1>5 DEF ConnInv

LEMMA RecoveryFails ==
    ASSUME IInv, ControlInv, Recovering, RecoveryFailed
    PROVE  run'.pc = "idle" /\ ctl'.client = None /\ ctl'.token = ctl.token
  BY ControlTypes, IdleTyped DEF RecoveryFailed, ControlInv

LEMMA RedialConns ==
    ASSUME IInv, ConnInv, Redial
    PROVE  ConnInv'
  <1>1. UNCHANGED <<thr, listeners, active, stopping>> /\ run.pc = "dial" /\ Recovering
    BY DEF Redial, Recovering
  <1>2. CASE RecoveryFailed /\ UNCHANGED conns
    BY <1>1, <1>2, RecoveryFails, RecoveryLetsGo DEF ConnInv
  <1>3. ASSUME NEW c \in Conns, CanOpen(c, run.ip), conns' = Open(c, ctl.token),
               run' = [run EXCEPT !.pc = "rereg", !.conn = c, !.done = {}], UNCHANGED ctl
        PROVE  ConnInv'
    <2>1. ctl.token \in 0..MaxSessions
      BY ControlTypes
    <2>2. /\ ConnsInOrder' /\ Grown /\ conns'[c].opened /\ conns'[c].token = ctl.token
          /\ \A d \in Conns : conns[d].opened => d # c /\ d < c /\ conns'[d] = conns[d]
      BY <1>3, <2>1, OpenOrdered DEF ConnInv
    <2>3. run'.pc = "rereg" /\ run'.conn = c /\ run'.gen = run.gen /\ Recovering'
      BY <1>3, ControlTypes DEF Run, Recovering
    <2>4. PICK d \in Conns : conns[d].opened /\ conns[d].token = ctl.token
      BY <1>1 DEF ConnInv, ControlInv
    <2>5. ~Original(run.conn)'
      BY <2>2, <2>3, <2>4 DEF Original
    <2>6. \A u \in Threads : thr'[u].conn # None =>
            conns'[thr'[u].conn].opened /\ (Redialled' => thr'[u].conn # run'.conn)
      BY <1>1, <2>2, <2>3, ControlTypes DEF ConnInv, ControlInv, Seen, Thread
    <2>7. ControlInv'
      BY <1>1, <1>3, <2>2, <2>3, <2>4, <2>5, <2>6 DEF ConnInv, ControlInv, Seen
    <2>8. ListenersInv'
      BY <1>1, <2>2, ControlTypes, ListenersShrink DEF ConnInv, ListenersInv, ConnsInOrder, Listener
    <2>9. QED
      BY <2>2, <2>7, <2>8 DEF ConnInv
  <1>4. QED
    BY <1>2, <1>3 DEF Redial

(* A step of a recovery that keeps its connection.                          *)
LEMMA RedialledStep ==
    ASSUME IInv, ConnsInOrder, ControlInv, Redialled, UNCHANGED <<thr, ctl, conns, active, stopping>>,
           run'.pc \in {"rereg", "undo"}, run'.conn = run.conn, run'.gen = run.gen
    PROVE  ConnsInOrder' /\ ControlInv'
  <1>1. Redialled' /\ Recovering' /\ Recovering
    BY DEF Redialled, Recovering
  <1>2. Original(run.conn)' <=> Original(run.conn)
    BY DEF Original
  <1>3. ConnsInOrder'
    BY DEF ConnsInOrder
  <1>4. QED
    BY <1>1, <1>2, <1>3 DEF ControlInv, Seen

LEMMA ReregisterConns ==
    ASSUME IInv, ConnInv, NEW s \in Subs, Reregister(s)
    PROVE  ConnInv'
  <1> DEFINE l == Reg(s, run.snap[s[1]], run.conn)
  <1>1. Redialled /\ UNCHANGED <<thr, ctl, conns, active, stopping>>
    BY DEF Reregister, Redialled, manager
  <1>2. run'.pc \in {"rereg", "undo"} /\ run'.conn = run.conn /\ run'.gen = run.gen
    BY ControlTypes DEF Reregister, Run
  <1>3. l \in Listener /\ l.port # None
    BY <1>1, ControlTypes DEF Reregister, Wanted, Reg, Listener, Subs, Run
  <1>4. \E r \in RegisterResults(l) : listeners' = r.ls
    BY DEF Reregister
  <1> HIDE DEF l
  <1>5. ListenersInv'
    BY <1>1, <1>3, <1>4, ListenersGrow DEF ConnInv
  <1>6. QED
    BY <1>1, <1>2, <1>5, RedialledStep DEF ConnInv

LEMMA UndoConns ==
    ASSUME IInv, ConnInv, NEW s \in Subs, UndoRegistration(s)
    PROVE  ConnInv'
  <1>1. Redialled /\ UNCHANGED <<thr, ctl, conns, active, stopping>>
    BY DEF UndoRegistration, Redialled, manager
  <1>2. run'.pc = "undo" /\ run'.conn = run.conn /\ run'.gen = run.gen
    BY ControlTypes DEF UndoRegistration, Run
  <1>3. ListenersInv'
    BY <1>1, UnregisterShrinks, ListenersShrink DEF UndoRegistration, ConnInv
  <1>4. QED
    BY <1>1, <1>2, <1>3, RedialledStep DEF ConnInv

LEMMA EndAttemptConns ==
    ASSUME IInv, ConnInv, EndAttempt
    PROVE  ConnInv'
  <1>1. /\ UNCHANGED <<thr, listeners, active, stopping>> /\ Recovering /\ conns' = Close(run.conn)
        /\ ctl.client = None
    BY DEF EndAttempt, Recovering, ConnInv, ControlInv
  <1>2. CASE run' = [run EXCEPT !.pc = "dial", !.conn = None, !.again = FALSE, !.attempt = @ + 1]
             /\ UNCHANGED ctl
    BY <1>1, <1>2, ControlTypes, RecoveryLetsGo DEF Run
  <1>3. CASE RecoveryFailed
    BY <1>1, <1>3, RecoveryFails, RecoveryLetsGo DEF ConnInv
  <1>4. QED
    BY <1>2, <1>3 DEF EndAttempt

LEMMA FinishRecoveryConns ==
    ASSUME IInv, ConnInv, FinishRecovery
    PROVE  /\ ConnInv' /\ UNCHANGED <<conns, listeners, thr>>
           /\ ctl'.client = run.conn /\ ~ctl'.recovering /\ Redialled
  <1>1. Recovering /\ Redialled /\ run.conn \in Conns
    BY ControlTypes DEF FinishRecovery, Recovering, Redialled
  <1>2. active /\ ~stopping /\ run.gen = ctl.gen /\ ctl.recovering
    BY <1>1 DEF ConnInv, ControlInv
  <1>3. /\ UNCHANGED <<conns, listeners, thr, active, stopping>> /\ run'.pc = "idle"
        /\ ctl'.client = run.conn /\ ~ctl'.recovering /\ ctl'.token = ctl.token
    BY <1>2, ControlTypes, IdleTyped DEF FinishRecovery
  <1>4. ~Redialled' /\ ~Recovering'
    BY <1>3 DEF Redialled, Recovering
  <1>5. ConnsInOrder' /\ ListenersInv'
    BY <1>3 DEF ConnInv, ConnsInOrder, ListenersInv
  <1>6. ControlInv'
    BY <1>1, <1>3, <1>4 DEF ConnInv, ControlInv, Seen
  <1>7. QED
    BY <1>1, <1>3, <1>5, <1>6 DEF ConnInv

LEMMA StopAllConns ==
    ASSUME IInv, ConnInv, StopAll
    PROVE  ConnInv'
  <1>1. /\ UNCHANGED <<thr, listeners, conns>> /\ ~active' /\ run'.pc = "stopall"
        /\ ctl'.client = None
    BY ControlTypes DEF StopAll, outside, IdleRun
  <1>2. ~Redialled' /\ ~Recovering'
    BY <1>1 DEF Redialled, Recovering
  <1>3. ConnsInOrder' /\ ListenersInv'
    BY <1>1 DEF ConnInv, ConnsInOrder, ListenersInv
  <1>4. ControlInv'
    BY <1>1, <1>2 DEF ConnInv, ControlInv, Seen
  <1>5. QED
    BY <1>3, <1>4 DEF ConnInv

LEMMA EndStopAllConns ==
    ASSUME IInv, ConnInv, EndStopAll
    PROVE  ConnInv'
  <1>1. /\ UNCHANGED <<thr, listeners, ctl, active, stopping>> /\ conns' = Close(run.conn)
        /\ run'.pc = "idle"
    BY IdleTyped DEF EndStopAll, manager
  <1>2. ConnsInOrder' /\ Grown /\ \A d \in Conns : conns'[d].served = conns[d].served
    BY <1>1, CloseOrdered DEF ConnInv
  <1>3. ~Redialled' /\ ~Recovering'
    BY <1>1 DEF Redialled, Recovering
  <1>4. ControlInv'
    BY <1>1, <1>2, <1>3, ControlTypes DEF ControlInv, ConnInv, Grown, Seen, Thread
  <1>5. ListenersInv'
    BY <1>1, <1>2, ControlTypes, ListenersShrink DEF ConnInv, Listener
  <1>6. QED
    BY <1>2, <1>4, <1>5 DEF ConnInv

LEMMA ConnNext == IInv /\ ConnInv /\ [Next]_vars => ConnInv'
  <1> SUFFICES ASSUME IInv, ConnInv, [Next]_vars PROVE ConnInv'
    OBVIOUS
  <1>1. ASSUME GoroutineStep, ListenersInv' PROVE ConnInv'
    BY <1>1, GoroutineConns DEF ConnInv
  <1>2. ASSUME GoroutineStep, UNCHANGED listeners PROVE ConnInv'
    BY <1>1, <1>2, ListenersShrink DEF ConnInv, GoroutineStep
  <1>3. ASSUME NEW t \in Callers, NEW k \in Keys,
               BeginStop(t, k) \/ \E m \in Modes : BeginStart(t, k, m)
        PROVE  ConnInv'
    BY <1>2, <1>3, BeginStopShape, BeginStartShape
  <1>4. ASSUME NEW t \in Callers, StartStep(t) PROVE ConnInv'
    BY <1>1, <1>4, StartStepShape, StartStepListeners DEF ConnInv
  <1>5. ASSUME NEW t \in Threads, StopStep(t) PROVE ConnInv'
    BY <1>1, <1>5, StopStepShape, StopStepListeners DEF ConnInv
  <1>6. ASSUME NEW k \in Keys, StopNext(k) PROVE ConnInv'
    BY <1>2, <1>6, StopNextShape
  <1>7. CASE RecoveryStep
    BY <1>7, RedialConns, ReregisterConns, UndoConns, EndAttemptConns, FinishRecoveryConns
       DEF RecoveryStep
  <1>8. CASE UNCHANGED vars
    <2>1. GoroutineStep /\ UNCHANGED listeners
      BY <1>8 DEF GoroutineStep, KeepsConn, vars, manager, outside
    <2>2. QED
      BY <1>2, <2>1
  <1>9. QED
    BY <1>3, <1>4, <1>5, <1>6, <1>7, <1>8, StartConns, BeginRecoveryConns, StopAllConns,
       EndStopAllConns, NetworkConns DEF Next, StopAllStep

-----------------------------------------------------------------------------
(* Reservations, which tell the ports of one start from those of another.   *)

(* Goroutine t has the reservation of nothing that is published.            *)
Apart(t) == \A k \in Keys : runtimes[k].res # thr[t].res
(* Goroutine t answers for listeners it has registered, or taken over.      *)
Registering(t) == Starting(t) \/ thr[t].pc = "drop"
ResInv ==
    /\ \A t \in Threads : thr[t].res <= nextRes
    /\ \A k \in Keys : runtimes[k].res <= nextRes
    /\ \A t \in Threads : thr[t].pc = "idle" => thr[t].res = None
    /\ \A t \in Threads : Registering(t) => thr[t].res # None /\ Apart(t)
    /\ \A t, u \in Threads : thr[t].res = thr[u].res /\ thr[t].res # None => t = u
    /\ \A j, k \in Keys : runtimes[j].res = runtimes[k].res /\ Registered(j) => j = k

(* Goroutine u keeps its reservation and its role, or becomes idle.         *)
KeepsRes(u) ==
    \/ /\ thr'[u].res = thr[u].res
       /\ Registering(u)' => Registering(u)
       /\ thr'[u].pc = "idle" => thr[u].pc = "idle"
    \/ thr'[u].pc = "idle" /\ thr'[u].res = None

LEMMA ResTypes ==
    ASSUME IInv
    PROVE  /\ nextRes \in Nat /\ \A k \in Keys : runtimes[k].res \in Nat
           /\ \A t \in Threads : thr[t].res \in Nat
  BY ConstantsAssumption, ControlTypes DEF Runtime, Thread

LEMMA ResKept ==
    ASSUME IInv, ResInv, nextRes' = nextRes, \A k \in Keys : runtimes'[k].res = runtimes[k].res,
           \A u \in Threads : KeepsRes(u)
    PROVE  ResInv'
  <1>1. \A k \in Keys : Registered(k)' <=> Registered(k)
    BY DEF Registered
  <1>2. \A u \in Threads : thr'[u].pc = "idle" => ~Registering(u)'
    BY DEF Registering, Starting, InStart
  <1>3. \A u \in Threads : Registering(u)' => thr'[u].res # None /\ Apart(u)'
    BY <1>2 DEF ResInv, KeepsRes, Apart
  <1>4. \A t, u \in Threads : thr'[t].res = thr'[u].res /\ thr'[t].res # None => t = u
    BY DEF ResInv, KeepsRes
  <1>5. \A t \in Threads : thr'[t].res <= nextRes'
    BY ResTypes DEF ResInv, KeepsRes, None
  <1>6. \A t \in Threads : thr'[t].pc = "idle" => thr'[t].res = None
    BY DEF ResInv, KeepsRes
  <1>7. QED
    BY <1>1, <1>3, <1>4, <1>5, <1>6 DEF ResInv

LEMMA ResBeginStart ==
    ASSUME IInv, ResInv, NEW t \in Callers, NEW k \in Keys, NEW m \in Modes, BeginStart(t, k, m)
    PROVE  ResInv'
  <1>1. t \in Threads /\ thr'[t].pc = "register" /\ thr'[t].res = nextRes + 1
    BY ControlTypes DEF BeginStart, Threads
  <1>2. UNCHANGED runtimes /\ nextRes' = nextRes + 1 /\ \A u \in Threads \ {t} : thr'[u] = thr[u]
    BY ControlTypes DEF BeginStart
  <1>3. \A u \in Threads \ {t} : thr'[u].res # nextRes + 1
    BY <1>2, ResTypes DEF ResInv
  <1>4. \A j \in Keys : runtimes'[j].res # nextRes + 1
    BY <1>2, ResTypes DEF ResInv
  <1>5. \A u \in Threads : thr'[u].res <= nextRes'
    BY <1>1, <1>2, ResTypes DEF ResInv
  <1>6. \A j \in Keys : runtimes'[j].res <= nextRes'
    BY <1>2, ResTypes DEF ResInv
  <1>7. \A u \in Threads : Registering(u)' => thr'[u].res # None /\ Apart(u)'
    BY <1>1, <1>2, <1>4, ResTypes DEF ResInv, Apart, Registering, Starting, None
  <1>8. \A u \in Threads : thr'[u].pc = "idle" => thr'[u].res = None
    BY <1>1, <1>2 DEF ResInv
  <1>9. QED
    BY <1>1, <1>2, <1>3, <1>5, <1>6, <1>7, <1>8 DEF ResInv, Registered

(* Stop takes the reservation of the runtime it marks, which no goroutine   *)
(* had.                                                                     *)
LEMMA ResStopBegins ==
    ASSUME IInv, ResInv, NEW t \in Threads, NEW k \in Keys, thr[t].pc = "idle", CanStop(k),
           runtimes' = [runtimes EXCEPT ![k].stopping = TRUE],
           thr' = [thr EXCEPT ![t] = StopThread(k)], UNCHANGED nextRes
    PROVE  ResInv'
  <1>1. /\ thr'[t].pc = "release" /\ thr'[t].res = runtimes[k].res
        /\ \A u \in Threads \ {t} : thr'[u] = thr[u]
    BY ControlTypes DEF StopThread, IdleThread
  <1>2. \A j \in Keys : runtimes'[j].res = runtimes[j].res
    BY ControlTypes DEF Runtime
  <1>3. runtimes[k].res # None
    BY DEF CanStop, Registered
  <1>4. ASSUME NEW u \in Threads, thr[u].res = runtimes[k].res PROVE FALSE
    <2>1. ~Registering(u) /\ thr[u].pc # "idle"
      BY <1>3, <1>4 DEF ResInv, Apart
    <2>2. Stopping(u)
      BY <2>1, ControlTypes DEF Registering, Starting, InStart, Stopping, Thread, ThreadPC
    <2>3. /\ thr[u].key \in Keys /\ runtimes[thr[u].key].res = runtimes[k].res
          /\ runtimes[thr[u].key].stopping
      BY <1>4, <2>2, StopFacts DEF IInv, Safe, StopsOK
    <2>4. thr[u].key = k
      BY <1>3, <2>3 DEF ResInv, Registered
    <2>5. QED
      BY <2>3, <2>4 DEF CanStop
  <1>5. ~Registering(t)'
    BY <1>1 DEF Registering, Starting, InStart
  <1>6. \A u \in Threads \ {t} : Registering(u)' <=> Registering(u)
    BY <1>1 DEF Registering, Starting
  <1>7. \A u \in Threads : Registering(u)' => thr'[u].res # None /\ Apart(u)'
    BY <1>1, <1>2, <1>5, <1>6 DEF ResInv, Apart
  <1>8. \A j \in Keys : Registered(j)' <=> Registered(j)
    BY <1>2 DEF Registered
  <1>9. \A u \in Threads : thr'[u].res <= nextRes'
    BY <1>1 DEF ResInv
  <1>10. \A u \in Threads : thr'[u].pc = "idle" => thr'[u].res = None
    BY <1>1 DEF ResInv
  <1>11. \A u, v \in Threads : thr'[u].res = thr'[v].res /\ thr'[u].res # None => u = v
    BY <1>1, <1>4 DEF ResInv
  <1>12. QED
    BY <1>2, <1>7, <1>8, <1>9, <1>10, <1>11 DEF ResInv

LEMMA ResStartStep ==
    ASSUME IInv, ResInv, NEW t \in Callers, StartStep(t)
    PROVE  ResInv'
  <1>1. t \in Threads /\ thr[t] \in Thread /\ Starting(t) /\ Registering(t) /\ nextRes' = nextRes
    BY ControlTypes DEF Threads, StartStep, PrepareFails, RegisterPort, Apply, NoPrimary, Publish,
       RollbackLease, RollbackPort, EndStart, Starting, InStart, Registering, registry
  <1>2. /\ \A u \in Threads \ {t} : thr'[u] = thr[u]
        /\ \/ thr'[t].res = thr[t].res /\ thr'[t].pc \in InStart
           \/ thr'[t].pc = "idle" /\ thr'[t].res = None
    BY <1>1, ControlTypes, IdleTyped, IdleConn DEF StartStep, PrepareFails, RegisterPort, Apply,
       NoPrimary, Publish, RollbackLease, RollbackPort, EndStart, Thread, Starting, InStart
  <1>3. \A u \in Threads : KeepsRes(u)
    BY <1>1, <1>2 DEF KeepsRes, Registering, Starting, InStart
  <1>4. CASE UNCHANGED runtimes
    BY <1>1, <1>3, <1>4, ResKept
  <1>5. CASE Publish(t) /\ CanPublish(t)
    <2>1. /\ thr[t].key \in Keys /\ thr'[t].pc = "idle" /\ thr'[t].res = None
          /\ runtimes'[thr[t].key].res = thr[t].res
          /\ \A k \in Keys \ {thr[t].key} : runtimes'[k] = runtimes[k]
      BY <1>1, <1>5, ControlTypes, IdleTyped, IdleConn DEF Publish, IInv, Typed, ThreadsOK, ThreadOK
    <2>2. \A u \in Threads \ {t} : thr[u].res # None => thr[u].res # thr[t].res
      BY <1>1 DEF ResInv
    <2>3. \A u \in Threads : Registering(u)' => u # t /\ Registering(u)
      BY <1>2, <2>1 DEF Registering, Starting, InStart
    <2>4. \A u \in Threads : Registering(u)' => thr'[u].res # None /\ Apart(u)'
      BY <1>2, <2>1, <2>2, <2>3 DEF ResInv, Apart
    <2>5. \A k \in Keys \ {thr[t].key} : runtimes[k].res # thr[t].res
      BY <1>1 DEF ResInv, Apart
    <2>6. \A k \in Keys : runtimes'[k].res <= nextRes'
      BY <1>1, <2>1 DEF ResInv
    <2>7. \A u \in Threads : thr'[u].res <= nextRes'
      BY <1>1, <1>2, <2>1, ResTypes DEF ResInv, None
    <2>8. \A u, v \in Threads : thr'[u].res = thr'[v].res /\ thr'[u].res # None => u = v
      BY <1>2, <2>1 DEF ResInv
    <2>9. \A u \in Threads : thr'[u].pc = "idle" => thr'[u].res = None
      BY <1>2, <2>1 DEF ResInv
    <2>10. \A j, k \in Keys : runtimes'[j].res = runtimes'[k].res /\ runtimes'[j].res # None => j = k
      BY <2>1, <2>5 DEF ResInv, Registered
    <2>11. QED
      BY <2>4, <2>6, <2>7, <2>8, <2>9, <2>10 DEF ResInv, Registered
  <1>6. QED
    BY <1>4, <1>5 DEF StartStep, PrepareFails, RegisterPort, Apply, NoPrimary, Publish,
       RollbackLease, RollbackPort, EndStart, registry

LEMMA ResStopStep ==
    ASSUME IInv, ResInv, NEW t \in Threads, StopStep(t)
    PROVE  ResInv'
  <1>1. /\ thr[t] \in Thread /\ nextRes' = nextRes /\ \A u \in Threads \ {t} : thr'[u] = thr[u]
        /\ \A u \in Threads \ {t} : KeepsRes(u)
    BY ControlTypes DEF StopStep, Release, ReleaseFails, Remove, DropPort, registry, KeepsRes,
       Registering, Starting
  <1>2. CASE Release(t)
    <2>1. KeepsRes(t) /\ UNCHANGED runtimes
      BY <1>1, <1>2, ControlTypes DEF Release, registry, KeepsRes, Registering, Starting, InStart, Thread
    <2>2. QED
      BY <1>1, <2>1, ResKept
  <1>3. CASE ReleaseFails(t)
    <2>1. KeepsRes(t)
      BY <1>1, <1>3, ControlTypes, IdleConn, IdleTyped DEF ReleaseFails, KeepsRes
    <2>2. \A k \in Keys : runtimes'[k].res = runtimes[k].res
      BY <1>3, ControlTypes DEF ReleaseFails, Runtime
    <2>3. QED
      BY <1>1, <2>1, <2>2, ResKept
  <1>4. CASE DropPort(t)
    <2>1. KeepsRes(t) /\ UNCHANGED runtimes
      BY <1>1, <1>4, ControlTypes, IdleConn, IdleTyped DEF DropPort, registry, KeepsRes, Registering,
         Starting, InStart, Thread
    <2>2. QED
      BY <1>1, <2>1, ResKept
  <1>5. CASE Remove(t)
    <2>1. thr[t].key \in Keys /\ Registered(thr[t].key) /\ SameRuntime(t)
      BY <1>5, StopFacts DEF Remove, Stopping
    <2>2. /\ runtimes'[thr[t].key].res = None /\ \A k \in Keys \ {thr[t].key} : runtimes'[k] = runtimes[k]
          /\ thr'[t].pc \in {"idle", "drop"} /\ thr'[t].res \in {thr[t].res, None}
          /\ thr'[t].pc = "idle" => thr'[t].res = None
          /\ thr'[t].pc = "drop" => thr'[t].res = thr[t].res
      BY <1>1, <1>5, <2>1, ControlTypes, IdleConn, IdleTyped DEF Remove, NoRuntime, Thread
    <2>3. \A k \in Keys \ {thr[t].key} : runtimes[k].res # thr[t].res
      BY <2>1 DEF ResInv, SameRuntime, Registered
    <2>4. \A u \in Threads \ {t} : Registering(u)' <=> Registering(u)
      BY <1>1 DEF Registering, Starting
    <2>5. Registering(t)' => thr'[t].res # None /\ Apart(t)'
      BY <2>1, <2>2, <2>3 DEF Registering, Starting, InStart, Apart, SameRuntime, Registered
    <2>6. \A u \in Threads \ {t} : Registering(u)' => thr'[u].res # None /\ Apart(u)'
      BY <1>1, <2>2, <2>4 DEF ResInv, Apart
    <2>7. \A k \in Keys : runtimes'[k].res <= nextRes'
      BY <1>1, <2>2, ResTypes DEF ResInv, None
    <2>8. \A u \in Threads : thr'[u].res <= nextRes'
      BY <1>1, <2>2, ResTypes DEF ResInv, None
    <2>9. \A u, v \in Threads : thr'[u].res = thr'[v].res /\ thr'[u].res # None => u = v
      BY <1>1, <2>2 DEF ResInv
    <2>10. \A u \in Threads : thr'[u].pc = "idle" => thr'[u].res = None
      BY <1>1, <2>2 DEF ResInv
    <2>11. \A j, k \in Keys : runtimes'[j].res = runtimes'[k].res /\ runtimes'[j].res # None => j = k
      BY <2>2 DEF ResInv, Registered
    <2>12. QED
      BY <2>5, <2>6, <2>7, <2>8, <2>9, <2>10, <2>11 DEF ResInv, Registered
  <1>6. QED
    BY <1>2, <1>3, <1>4, <1>5 DEF StopStep

LEMMA ResNext == IInv /\ ResInv /\ [Next]_vars => ResInv'
  <1> SUFFICES ASSUME IInv, ResInv, [Next]_vars PROVE ResInv'
    OBVIOUS
  <1>1. ASSUME UNCHANGED <<thr, runtimes, nextRes>> PROVE ResInv'
    <2>1. \A u \in Threads : KeepsRes(u)
      BY <1>1 DEF KeepsRes, Registering, Starting
    <2>2. QED
      BY <1>1, <2>1, ResKept
  <1>2. ASSUME NEW t \in Callers, NEW k \in Keys, BeginStop(t, k) PROVE ResInv'
    BY <1>2, ResStopBegins DEF BeginStop, Threads
  <1>3. ASSUME NEW k \in Keys, StopNext(k) PROVE ResInv'
    BY <1>1, <1>3, ResStopBegins DEF StopNext, Threads
  <1>4. CASE \/ \E c \in Conns : Start(c)
             \/ \E a \in {gateway, pod} : BeginRecovery(a)
             \/ RecoveryStep \/ StopAll \/ EndStopAll \/ Network \/ UNCHANGED vars
    <2>1. UNCHANGED <<thr, runtimes, nextRes>>
      BY <1>4 DEF Start, BeginRecovery, RecoveryStep, Redial, EndAttempt, FinishRecovery,
         Reregister, UndoRegistration, StopAll, EndStopAll, Network, GatewayReplaced,
         ControlCut, ReadLoopExit, RemoveControl, vars, registry
    <2>2. QED
      BY <1>1, <2>1
  <1>5. QED
    BY <1>2, <1>3, <1>4, ResBeginStart, ResStartStep, ResStopStep DEF Next, StopAllStep

-----------------------------------------------------------------------------
(* What listens.                                                            *)

(* The session has a control and the Gateway serves it.                     *)
Live == ctl.client # None /\ conns[ctl.client].served
Listening(k, i, r) == Reg(<<k, i>>, r, ctl.client) \in listeners

(* The ports that goroutine t has registered, or taken over, on the control *)
(* and has not unregistered still listen.                                   *)
Claim(t) == Registering(t) /\ thr[t].conn = ctl.client /\ thr[t].key \notin inherited =>
    \A i \in 1..NPorts : i <= thr[t].n => Listening(thr[t].key, i, thr[t].res)
ClaimsHold == Live => \A t \in Threads : Claim(t)

(* So do the ports of what is published.                                    *)
Published == Live => \A k \in Keys, i \in 1..NPorts :
    Registered(k) /\ k \notin inherited => Listening(k, i, runtimes[k].res)

(* A start has registered every port before it redirects the Service.       *)
AllPorts == \A t \in Threads : thr[t].pc \in {"apply", "publish", "rollback"} => thr[t].n = NPorts

(* A recovery knows every runtime, and has registered what it says.         *)
SnapshotHolds == Recovering => \A k \in Keys : Registered(k) => run.snap[k] = runtimes[k].res
RedialHolds == run.pc = "rereg" /\ conns[run.conn].served =>
    \A s \in run.done : Reg(s, run.snap[s[1]], run.conn) \in listeners

ReadyInv == ClaimsHold /\ Published /\ AllPorts /\ SnapshotHolds /\ RedialHolds
CtlInv == ConnInv /\ ResInv /\ ReadyInv

LEMMA RegFields ==
    ASSUME NEW s, NEW r, NEW c
    PROVE  Reg(s, r, c).sub = s /\ Reg(s, r, c).port = r /\ Reg(s, r, c).conn = c
  BY DEF Reg

(* A step of a goroutine that publishes nothing and takes no listener away  *)
(* that another one needs.                                                  *)
LEMMA ReadyGoroutine ==
    ASSUME IInv, CtlInv, GoroutineStep, UNCHANGED inherited, AllPorts',
           \A k \in Keys : runtimes'[k].res \in {runtimes[k].res, None},
           Live => \A u \in Threads : Claim(u)',
           Live => \A k \in Keys, i \in 1..NPorts : Registered(k) /\ k \notin inherited =>
                       Reg(<<k, i>>, runtimes[k].res, ctl.client) \in listeners',
           Redialled => \A l \in listeners : l.conn = run.conn => l \in listeners'
    PROVE  ReadyInv'
  <1>1. UNCHANGED <<ctl, conns>> /\ (Live' <=> Live)
    BY DEF GoroutineStep, Live
  <1>2. /\ (Recovering' <=> Recovering) /\ (run'.pc = "rereg" <=> run.pc = "rereg")
        /\ Recovering \/ run.pc = "rereg" => UNCHANGED run
    BY DEF GoroutineStep, Recovering
  <1>3. Published'
    BY <1>1 DEF Published, Registered, Listening
  <1>4. SnapshotHolds'
    BY <1>2 DEF CtlInv, ReadyInv, SnapshotHolds, Registered
  <1>5. RedialHolds'
    BY <1>1, <1>2, RegFields DEF CtlInv, ReadyInv, RedialHolds, Redialled
  <1>6. ClaimsHold'
    BY <1>1 DEF ClaimsHold
  <1>7. QED
    BY <1>3, <1>4, <1>5, <1>6 DEF ReadyInv

(* ... and one that takes none away at all.                                 *)
LEMMA ReadyGrows ==
    ASSUME IInv, CtlInv, GoroutineStep, UNCHANGED inherited, AllPorts', listeners \subseteq listeners',
           \A k \in Keys : runtimes'[k].res \in {runtimes[k].res, None},
           Live => \A u \in Threads : Claim(u)'
    PROVE  ReadyInv'
  BY ReadyGoroutine DEF CtlInv, ReadyInv, Published, Listening

(* Goroutine u has no more ports to answer for than before.                 *)
NoMore(u) == Registering(u)' =>
    /\ Registering(u) /\ thr'[u].key = thr[u].key /\ thr'[u].res = thr[u].res
    /\ thr'[u].conn = thr[u].conn /\ thr'[u].n = thr[u].n

LEMMA ClaimKept ==
    ASSUME CtlInv, Live, UNCHANGED <<ctl, inherited>>, listeners \subseteq listeners',
           NEW u \in Threads, NoMore(u)
    PROVE  Claim(u)'
  BY DEF CtlInv, ReadyInv, ClaimsHold, Claim, Listening, NoMore

LEMMA SameThread ==
    ASSUME NEW u \in Threads, thr'[u] = thr[u]
    PROVE  NoMore(u) /\ (Registering(u)' <=> Registering(u))
  BY DEF NoMore, Registering, Starting

LEMMA ReadyBeginStart ==
    ASSUME IInv, CtlInv, NEW t \in Callers, NEW k \in Keys, NEW m \in Modes, BeginStart(t, k, m)
    PROVE  ReadyInv'
  <1>1. GoroutineStep /\ UNCHANGED <<listeners, inherited, runtimes, ctl>>
    BY BeginStartShape DEF BeginStart, history, GoroutineStep
  <1>2. t \in Threads /\ thr'[t].n = 0 /\ thr'[t].pc = "register" /\ \A u \in Threads \ {t} : thr'[u] = thr[u]
    BY ControlTypes DEF BeginStart, Threads
  <1>3. AllPorts'
    BY <1>2 DEF CtlInv, ReadyInv, AllPorts
  <1>4. ASSUME Live, NEW u \in Threads PROVE Claim(u)'
    BY <1>1, <1>2, <1>4, SameThread, ClaimKept, ConstantsAssumption DEF Claim
  <1>5. QED
    BY <1>1, <1>3, <1>4, ReadyGrows

LEMMA ReadyStopBegins ==
    ASSUME IInv, CtlInv, GoroutineStep, UNCHANGED <<inherited, listeners>>,
           NEW t \in Threads, NEW k \in Keys,
           runtimes' = [runtimes EXCEPT ![k].stopping = TRUE],
           thr' = [thr EXCEPT ![t] = StopThread(k)]
    PROVE  ReadyInv'
  <1>1. thr'[t].pc = "release" /\ ~Registering(t)' /\ \A u \in Threads \ {t} : thr'[u] = thr[u]
    BY ControlTypes DEF StopThread, IdleThread, Registering, Starting, InStart
  <1>2. AllPorts'
    BY <1>1 DEF CtlInv, ReadyInv, AllPorts
  <1>3. \A j \in Keys : runtimes'[j].res = runtimes[j].res
    BY ControlTypes DEF Runtime
  <1>4. ASSUME Live, NEW u \in Threads PROVE Claim(u)'
    BY <1>1, <1>4, SameThread, ClaimKept DEF NoMore, GoroutineStep
  <1>5. QED
    BY <1>2, <1>3, <1>4, ReadyGrows

(* Goroutine t takes a step that leaves it without a port to answer for.    *)
LEMMA ReadyLeaves ==
    ASSUME IInv, CtlInv, GoroutineStep, UNCHANGED <<inherited, listeners>>, NEW t \in Threads,
           \A k \in Keys : runtimes'[k].res \in {runtimes[k].res, None},
           ~Registering(t)', \A u \in Threads \ {t} : thr'[u] = thr[u]
    PROVE  ReadyInv'
  <1>1. AllPorts'
    BY DEF CtlInv, ReadyInv, AllPorts, Registering, Starting, InStart
  <1>2. ASSUME Live, NEW u \in Threads PROVE Claim(u)'
    BY <1>2, SameThread, ClaimKept DEF NoMore, GoroutineStep
  <1>3. QED
    BY <1>1, <1>2, ReadyGrows

(* A start moves on without a round trip.                                   *)
LEMMA ReadyMoves ==
    ASSUME IInv, CtlInv, GoroutineStep, UNCHANGED <<inherited, listeners, runtimes>>,
           NEW t \in Threads, Starting(t), NEW x \in {"publish", "rollback", "unregister"},
           thr' = [thr EXCEPT ![t].pc = x],
           x # "unregister" => thr[t].pc \in {"apply", "publish"}
    PROVE  ReadyInv'
  <1>1. /\ thr'[t].pc = x /\ thr'[t].key = thr[t].key /\ thr'[t].res = thr[t].res
        /\ thr'[t].conn = thr[t].conn /\ thr'[t].n = thr[t].n
        /\ \A u \in Threads \ {t} : thr'[u] = thr[u]
    BY ControlTypes, OneMoves
  <1>2. AllPorts'
    BY <1>1 DEF CtlInv, ReadyInv, AllPorts
  <1>3. NoMore(t)
    BY <1>1 DEF NoMore, Registering
  <1>4. ASSUME Live, NEW u \in Threads PROVE Claim(u)'
    BY <1>1, <1>3, <1>4, SameThread, ClaimKept DEF GoroutineStep
  <1>5. QED
    BY <1>2, <1>4, ReadyGrows

LEMMA ReadyRegisterPort ==
    ASSUME IInv, CtlInv, NEW t \in Callers, RegisterPort(t)
    PROVE  ReadyInv'
  <1> DEFINE l == Reg(<<thr[t].key, thr[t].n + 1>>, thr[t].res, thr[t].conn)
  <1>a. t \in Threads /\ thr[t].pc = "register" /\ GoroutineStep
    BY StartStepShape DEF Threads, StartStep, RegisterPort
  <1>b. thr[t] \in Thread /\ thr[t].n \in Nat
    BY <1>a, ControlTypes, ConstantsAssumption DEF Thread
  <1>1. /\ t \in Threads /\ GoroutineStep /\ UNCHANGED <<inherited, ctl, runtimes>>
        /\ thr[t] \in Thread /\ Starting(t) /\ Registering(t) /\ thr[t].n \in Nat
        /\ thr[t].pc = "register"
    BY <1>a, <1>b DEF RegisterPort, manager, history, registry, Starting, Registering, InStart
  <1>2. PICK r \in RegisterResults(l) :
          /\ listeners' = r.ls
          /\ IF r.says # "ack"
             THEN thr' = [thr EXCEPT ![t].pc = "unregister"]
             ELSE thr' = [thr EXCEPT ![t].n = @ + 1,
                            ![t].pc = IF thr[t].n + 1 = NPorts THEN "apply" ELSE @]
    BY SMTT(30) DEF RegisterPort
  <1>3. listeners \subseteq listeners' /\ (r.says = "ack" => l \in listeners')
    BY <1>2 DEF RegisterResults
  <1>4. /\ thr'[t].key = thr[t].key /\ thr'[t].res = thr[t].res /\ thr'[t].conn = thr[t].conn
        /\ \A u \in Threads \ {t} : thr'[u] = thr[u]
        /\ thr'[t].n \in {thr[t].n, thr[t].n + 1} /\ (thr'[t].n # thr[t].n => r.says = "ack")
    BY <1>1, <1>2, ControlTypes DEF Thread
  <1>5. thr'[t].pc \in {"apply", "publish", "rollback"} => thr'[t].n = NPorts
    BY <1>1, <1>2, ControlTypes DEF Thread
  <1>6. AllPorts'
    BY <1>4, <1>5 DEF CtlInv, ReadyInv, AllPorts
  <1>7. ASSUME Live, thr[t].conn = ctl.client, thr[t].key \notin inherited, NEW i \in 1..NPorts,
               i <= thr'[t].n
        PROVE  Reg(<<thr[t].key, i>>, thr[t].res, ctl.client) \in listeners'
    <2>1. CASE i <= thr[t].n
      BY <1>1, <1>3, <1>7, <2>1 DEF CtlInv, ReadyInv, ClaimsHold, Claim, Listening
    <2>2. CASE i = thr[t].n + 1 /\ r.says = "ack"
      BY <1>3, <1>7, <2>2
    <2>3. QED
      BY <1>1, <1>4, <1>7, <2>1, <2>2, ConstantsAssumption
  <1> HIDE DEF l
  <1>8. ASSUME Live PROVE Claim(t)'
    BY <1>1, <1>4, <1>7, <1>8 DEF Claim, Listening
  <1>9. ASSUME Live, NEW u \in Threads PROVE Claim(u)'
    BY <1>1, <1>3, <1>4, <1>8, <1>9, SameThread, ClaimKept
  <1>10. QED
    BY <1>1, <1>3, <1>6, <1>9, ReadyGrows

(* Goroutine t unregisters a port of its own: no listener of another start, *)
(* of another stop or of what is published goes with it.                    *)
LEMMA OnlyOwnPort ==
    ASSUME IInv, CtlInv, Live, NEW t \in Threads, Registering(t), thr[t].n \in 1..NPorts,
           listeners' \in UnregisterResults(thr[t].conn, <<thr[t].key, thr[t].n>>),
           NEW k \in Keys, NEW i \in 1..NPorts, NEW r, k \notin inherited, Listening(k, i, r),
           r # thr[t].res \/ i # thr[t].n
    PROVE  Reg(<<k, i>>, r, ctl.client) \in listeners'
  <1> DEFINE l == Reg(<<k, i>>, r, ctl.client)
             own == Reg(<<thr[t].key, thr[t].n>>, thr[t].res, ctl.client)
  <1>1. l \in listeners /\ l.sub = <<k, i>> /\ l.conn = ctl.client /\ l.port = r
    BY RegFields DEF Listening
  <1>2. own.sub = <<thr[t].key, thr[t].n>> /\ own.conn = ctl.client /\ own.port = thr[t].res
    BY RegFields
  <1>3. thr[t].conn = ctl.client /\ thr[t].key \notin inherited => own \in listeners
    BY DEF CtlInv, ReadyInv, ClaimsHold, Claim, Listening
  <1> HIDE DEF l, own
  <1>4. SUFFICES ASSUME l \notin listeners' PROVE FALSE
    BY DEF l
  <1>5. <<k, i>> = <<thr[t].key, thr[t].n>> /\ thr[t].conn = ctl.client
    BY <1>1, <1>4, UnregisterShrinks
  <1>6. k = thr[t].key /\ i = thr[t].n
    BY <1>5
  <1>7. l = own
    BY <1>1, <1>2, <1>3, <1>5, <1>6 DEF CtlInv, ConnInv, ListenersInv
  <1>8. QED
    BY <1>1, <1>2, <1>6, <1>7

LEMMA ReadyUnregister ==
    ASSUME IInv, CtlInv, GoroutineStep, UNCHANGED <<inherited, runtimes>>,
           NEW t \in Threads, Registering(t), thr[t].n \in 1..NPorts, thr[t].key \in Keys,
           thr[t].conn \in Conns, thr[t].pc \in {"unregister", "drop"},
           listeners' \in UnregisterResults(thr[t].conn, <<thr[t].key, thr[t].n>>),
           \/ thr' = [thr EXCEPT ![t].n = @ - 1]
           \/ thr' = [thr EXCEPT ![t] = IdleThread]
    PROVE  ReadyInv'
  <1>1. /\ \A u \in Threads \ {t} : thr'[u] = thr[u]
        /\ \/ ~Registering(t)' /\ thr'[t].pc = "idle"
           \/ /\ thr'[t].key = thr[t].key /\ thr'[t].res = thr[t].res /\ thr'[t].conn = thr[t].conn
              /\ thr'[t].n = thr[t].n - 1 /\ thr'[t].pc = thr[t].pc
    BY ControlTypes, IdleTyped DEF Thread, Registering, Starting, InStart
  <1>2. AllPorts'
    BY <1>1 DEF CtlInv, ReadyInv, AllPorts
  <1>3. UNCHANGED ctl /\ thr[t].n \in Nat
    BY ConstantsAssumption DEF GoroutineStep
  <1>4. ASSUME Live PROVE Claim(t)'
    <2>1. CASE Registering(t)'
      <3>1. SUFFICES ASSUME thr[t].conn = ctl.client, thr[t].key \notin inherited,
                            NEW i \in 1..NPorts, i <= thr[t].n - 1
                     PROVE  Reg(<<thr[t].key, i>>, thr[t].res, ctl.client) \in listeners'
        BY <1>1, <1>3, <2>1 DEF Claim, Listening
      <3>2. i # thr[t].n /\ i <= thr[t].n
        BY <1>3, <3>1, ConstantsAssumption
      <3>3. Listening(thr[t].key, i, thr[t].res)
        BY <1>4, <3>1, <3>2 DEF CtlInv, ReadyInv, ClaimsHold, Claim
      <3>4. QED
        BY <1>4, <3>1, <3>2, <3>3, OnlyOwnPort
    <2>2. QED
      BY <2>1 DEF Claim
  <1>5. ASSUME Live, NEW u \in Threads \ {t} PROVE Claim(u)'
    <2>1. CASE Registering(u)
      <3>1. thr[u].res # thr[t].res /\ thr[u].key \in Keys
        BY <2>1 DEF CtlInv, ResInv, Registering, Starting, InStart, IInv, Typed, ThreadsOK, ThreadOK
      <3>2. SUFFICES ASSUME thr[u].conn = ctl.client, thr[u].key \notin inherited,
                            NEW i \in 1..NPorts, i <= thr[u].n
                     PROVE  Reg(<<thr[u].key, i>>, thr[u].res, ctl.client) \in listeners'
        BY <1>1, <1>3 DEF Claim, Listening
      <3>3. Listening(thr[u].key, i, thr[u].res)
        BY <1>5, <2>1, <3>2 DEF CtlInv, ReadyInv, ClaimsHold, Claim
      <3>4. QED
        BY <1>5, <3>1, <3>2, <3>3, OnlyOwnPort
    <2>2. QED
      BY <1>1, <2>1, SameThread DEF Claim
  <1>6. ASSUME Live, NEW k \in Keys, NEW i \in 1..NPorts, Registered(k), k \notin inherited
        PROVE  Reg(<<k, i>>, runtimes[k].res, ctl.client) \in listeners'
    <2>1. runtimes[k].res # thr[t].res
      BY DEF CtlInv, ResInv, Apart
    <2>2. Listening(k, i, runtimes[k].res)
      BY <1>6 DEF CtlInv, ReadyInv, Published
    <2>3. QED
      BY <1>6, <2>1, <2>2, OnlyOwnPort
  <1>7. ASSUME Redialled, NEW l \in listeners, l.conn = run.conn PROVE l \in listeners'
    <2>1. thr[t].conn # run.conn
      BY <1>7, ControlTypes, Bounds DEF CtlInv, ConnInv, ControlInv, Seen
    <2>2. QED
      BY <1>7, <2>1, UnregisterShrinks
  <1>8. QED
    BY <1>2, <1>4, <1>5, <1>6, <1>7, ReadyGoroutine

(* Publishing turns the claim of the start into that of the runtime.        *)
LEMMA ReadyPublish ==
    ASSUME IInv, CtlInv, NEW t \in Callers, Publish(t), CanPublish(t)
    PROVE  ReadyInv'
  <1>1. t \in Threads /\ GoroutineStep /\ thr[t].pc = "publish" /\ thr[t] \in Thread
    BY StartStepShape, ControlTypes DEF Threads, StartStep, Publish
  <1>2. UNCHANGED <<inherited, ctl, listeners, conns, run>>
    BY DEF Publish, history, manager, outside
  <1>3. Registering(t) /\ thr[t].key \in Keys /\ thr[t].n = NPorts
    BY <1>1 DEF Registering, Starting, InStart, IInv, Typed, ThreadsOK, ThreadOK, CtlInv,
       ReadyInv, AllPorts
  <1>4. Ready /\ thr[t].conn = ctl.client
    BY DEF CanPublish, Matches
  <1>5. /\ runtimes'[thr[t].key].res = thr[t].res
        /\ \A k \in Keys \ {thr[t].key} : runtimes'[k] = runtimes[k]
        /\ thr'[t].pc = "idle" /\ \A u \in Threads \ {t} : thr'[u] = thr[u]
    BY <1>1, <1>3, ControlTypes, IdleTyped DEF Publish
  <1>6. ~Registering(t)'
    BY <1>5 DEF Registering, Starting, InStart
  <1>7. ~Recovering /\ run.pc # "rereg" /\ (Live' <=> Live)
    BY <1>2, <1>4 DEF Ready, CtlInv, ConnInv, ControlInv, Recovering, Live
  <1>8. SnapshotHolds' /\ RedialHolds'
    BY <1>2, <1>7 DEF SnapshotHolds, RedialHolds, Recovering
  <1>9. AllPorts'
    BY <1>5 DEF CtlInv, ReadyInv, AllPorts
  <1>10. ASSUME Live, NEW u \in Threads PROVE Claim(u)'
    BY <1>2, <1>5, <1>6, <1>10, SameThread, ClaimKept DEF NoMore
  <1>11. ASSUME Live, NEW k \in Keys, NEW i \in 1..NPorts, Registered(k)', k \notin inherited
         PROVE  Reg(<<k, i>>, runtimes'[k].res, ctl.client) \in listeners
    <2>1. CASE k = thr[t].key
      <3>1. i <= thr[t].n
        BY <1>3, ConstantsAssumption
      <3>2. QED
        BY <1>1, <1>3, <1>4, <1>5, <1>11, <2>1, <3>1 DEF CtlInv, ReadyInv, ClaimsHold, Claim, Listening
    <2>2. CASE k # thr[t].key
      BY <1>5, <1>11, <2>2 DEF CtlInv, ReadyInv, Published, Listening, Registered
    <2>3. QED
      BY <2>1, <2>2
  <1>12. Published'
    BY <1>2, <1>7, <1>11 DEF Published, Listening
  <1>13. QED
    BY <1>7, <1>8, <1>9, <1>10, <1>12 DEF ReadyInv, ClaimsHold

(* Stop takes over the listeners of the runtime it removes.                 *)
LEMMA ReadyRemove ==
    ASSUME IInv, CtlInv, NEW t \in Threads, Remove(t)
    PROVE  ReadyInv'
  <1>1. GoroutineStep
    BY StopStepShape DEF StopStep
  <1>2. UNCHANGED <<inherited, ctl, listeners>>
    BY DEF Remove, outside, manager
  <1>3. thr[t].key \in Keys /\ Registered(thr[t].key) /\ SameRuntime(t) /\ thr[t] \in Thread
    BY StopFacts, ControlTypes DEF Remove, Stopping
  <1>4. /\ \A k \in Keys : runtimes'[k].res \in {runtimes[k].res, None}
        /\ \A u \in Threads \ {t} : thr'[u] = thr[u]
    BY <1>3, ControlTypes DEF Remove, NoRuntime
  <1>5. CASE thr' = [thr EXCEPT ![t] = IdleThread]
    <2>1. ~Registering(t)'
      BY <1>5, ControlTypes, IdleTyped DEF Registering, Starting, InStart
    <2>2. QED
      BY <1>1, <1>2, <1>4, <2>1, ReadyLeaves
  <1>6. CASE thr' = [thr EXCEPT ![t].pc = "drop", ![t].n = NPorts, ![t].conn = ctl.client]
    <2>1. /\ thr'[t].pc = "drop" /\ thr'[t].key = thr[t].key /\ thr'[t].res = thr[t].res
      BY <1>3, <1>6, ControlTypes DEF Thread
    <2>2. AllPorts'
      BY <1>4, <2>1 DEF CtlInv, ReadyInv, AllPorts
    <2>3. ASSUME Live PROVE Claim(t)'
      BY <1>2, <1>3, <2>1, <2>3 DEF CtlInv, ReadyInv, Published, Claim, Listening, SameRuntime
    <2>4. ASSUME Live, NEW u \in Threads PROVE Claim(u)'
      BY <1>2, <1>4, <2>3, <2>4, SameThread, ClaimKept
    <2>5. QED
      BY <1>1, <1>2, <1>4, <2>2, <2>4, ReadyGrows
  <1>7. QED
    BY <1>3, <1>5, <1>6 DEF Remove

LEMMA ReadyStartStep ==
    ASSUME IInv, CtlInv, NEW t \in Callers, StartStep(t)
    PROVE  ReadyInv'
  <1>1. t \in Threads /\ GoroutineStep /\ thr[t] \in Thread
    BY StartStepShape, ControlTypes DEF Threads
  <1>2. UNCHANGED inherited /\ Starting(t) /\ Registering(t)
    BY DEF StartStep, PrepareFails, RegisterPort, Apply, NoPrimary, Publish,
       RollbackLease, RollbackPort, EndStart, Starting, Registering, InStart, history
  <1>3. CASE PrepareFails(t) \/ Apply(t) \/ NoPrimary(t) \/ RollbackLease(t) \/ (Publish(t) /\ ~CanPublish(t))
    <2>1. UNCHANGED <<listeners, runtimes>>
      BY <1>3 DEF PrepareFails, Apply, NoPrimary, RollbackLease, Publish, registry, outside
    <2>2. \E x \in {"publish", "rollback", "unregister"} :
            /\ thr' = [thr EXCEPT ![t].pc = x]
            /\ x # "unregister" => thr[t].pc \in {"apply", "publish"}
      BY <1>3 DEF PrepareFails, Apply, NoPrimary, RollbackLease, Publish
    <2>3. QED
      BY <1>1, <1>2, <2>1, <2>2, ReadyMoves
  <1>4. CASE EndStart(t)
    <2>1. UNCHANGED <<listeners, runtimes>> /\ thr' = [thr EXCEPT ![t] = IdleThread]
      BY <1>4 DEF EndStart, outside
    <2>2. ~Registering(t)' /\ \A u \in Threads \ {t} : thr'[u] = thr[u]
      BY <1>1, <2>1, ControlTypes, IdleTyped DEF Registering, Starting, InStart
    <2>3. QED
      BY <1>1, <1>2, <2>1, <2>2, ReadyLeaves
  <1>5. CASE RollbackPort(t)
    <2>1. /\ UNCHANGED runtimes /\ thr[t].n \in 1..NPorts /\ thr[t].key \in Keys /\ thr[t].conn \in Conns
          /\ thr[t].pc = "unregister"
      BY <1>1, <1>5, ConstantsAssumption DEF RollbackPort, registry, Thread, IInv, Typed, ThreadsOK,
         ThreadOK, InStart
    <2>2. QED
      BY <1>1, <1>2, <1>5, <2>1, ReadyUnregister DEF RollbackPort
  <1>6. QED
    BY <1>3, <1>4, <1>5, ReadyRegisterPort, ReadyPublish DEF StartStep

LEMMA ReadyStopStep ==
    ASSUME IInv, CtlInv, NEW t \in Threads, StopStep(t)
    PROVE  ReadyInv'
  <1>1. GoroutineStep /\ thr[t] \in Thread
    BY StopStepShape, ControlTypes
  <1>2. UNCHANGED inherited
    BY DEF StopStep, Release, ReleaseFails, Remove, DropPort, history
  <1>3. CASE Release(t) \/ ReleaseFails(t)
    <2>1. UNCHANGED listeners /\ \A k \in Keys : runtimes'[k].res = runtimes[k].res
      BY <1>3, ControlTypes DEF Release, ReleaseFails, registry, outside, Runtime
    <2>2. thr'[t].pc \in {"idle", "remove"} /\ \A u \in Threads \ {t} : thr'[u] = thr[u]
      BY <1>1, <1>3, ControlTypes, IdleTyped DEF Release, ReleaseFails, Thread
    <2>3. ~Registering(t)'
      BY <2>2 DEF Registering, Starting, InStart
    <2>4. QED
      BY <1>1, <1>2, <2>1, <2>2, <2>3, ReadyLeaves
  <1>4. CASE DropPort(t)
    <2>1. /\ UNCHANGED runtimes /\ thr[t].n \in 1..NPorts /\ thr[t].key \in Keys /\ thr[t].conn \in Conns
          /\ thr[t].pc = "drop" /\ Registering(t)
      BY <1>1, <1>4, ConstantsAssumption DEF DropPort, registry, Thread, IInv, Typed, ThreadsOK,
         ThreadOK, Registering
    <2>2. QED
      BY <1>1, <1>2, <1>4, <2>1, ReadyUnregister DEF DropPort
  <1>5. QED
    BY <1>3, <1>4, ReadyRemove DEF StopStep

(* A step of Main or of the network that gives the session no new control.  *)
LEMMA ReadyRun ==
    ASSUME IInv, CtlInv, UNCHANGED <<thr, runtimes, inherited>>, ctl'.client \in {ctl.client, None},
           \A c \in Conns : conns[c].opened /\ conns'[c].served => conns[c].served,
           \A l \in listeners : conns'[l.conn].served => l \in listeners',
           SnapshotHolds', RedialHolds'
    PROVE  ReadyInv'
  <1>1. Live' => Live /\ ctl'.client = ctl.client /\ conns'[ctl.client].served
    BY ControlTypes DEF Live, CtlInv, ConnInv, ControlInv
  <1>2. \A t \in Threads : Registering(t)' <=> Registering(t)
    BY DEF Registering, Starting
  <1>3. \A s, r : Live' /\ Reg(s, r, ctl.client) \in listeners => Reg(s, r, ctl.client) \in listeners'
    BY <1>1, RegFields
  <1>4. ClaimsHold'
    BY <1>1, <1>2, <1>3 DEF CtlInv, ReadyInv, ClaimsHold, Claim, Listening
  <1>5. Published'
    BY <1>1, <1>3 DEF CtlInv, ReadyInv, Published, Listening, Registered
  <1>6. AllPorts'
    BY DEF CtlInv, ReadyInv, AllPorts
  <1>7. QED
    BY <1>4, <1>5, <1>6 DEF ReadyInv

LEMMA ReadyNetwork ==
    ASSUME IInv, CtlInv, Network
    PROVE  ReadyInv'
  <1>1. UNCHANGED <<thr, runtimes, inherited, ctl, run>>
    BY DEF Network, GatewayReplaced, ControlCut, ReadLoopExit, RemoveControl, manager, registry, history
  <1>2. /\ \A c \in Conns : conns[c].opened /\ conns'[c].served => conns[c].served
        /\ \A l \in listeners : conns'[l.conn].served => l \in listeners'
    <2>1. CASE \E c \in Conns : ControlCut(c) \/ ReadLoopExit(c)
      BY <2>1, ControlTypes DEF ControlCut, ReadLoopExit, Conn
    <2>2. ASSUME NEW c \in Conns, RemoveControl(c)
          PROVE  /\ \A d \in Conns : conns'[d].served => conns[d].served
                 /\ \A l \in listeners : conns'[l.conn].served => l \in listeners'
      <3>1. ~conns'[c].served /\ \A d \in Conns \ {c} : conns'[d] = conns[d]
        BY <2>2, ControlTypes DEF RemoveControl, Conn
      <3>2. QED
        BY <2>2, <3>1 DEF RemoveControl
    <2>3. CASE GatewayReplaced
      <3>1. \A d \in Conns : conns[d].opened => ~conns'[d].served
        <4> SUFFICES ASSUME NEW d \in Conns, conns[d].opened PROVE ~conns'[d].served
          OBVIOUS
        <4>1. conns[d] \in Conn /\ conns'[d] = [conns[d] EXCEPT !.cut = TRUE, !.served = FALSE]
          BY <2>3, ControlTypes DEF GatewayReplaced
        <4>2. QED
          BY <4>1 DEF Conn
      <3>2. \A l \in listeners : l.conn \in Conns /\ conns[l.conn].opened
        BY ControlTypes DEF CtlInv, ConnInv, ListenersInv, ConnsInOrder, Listener
      <3>3. QED
        BY <3>1, <3>2
    <2>4. QED
      BY <2>1, <2>2, <2>3 DEF Network
  <1>3. SnapshotHolds'
    BY <1>1 DEF CtlInv, ReadyInv, SnapshotHolds, Recovering, Registered
  <1>4. RedialHolds'
    <2>1. run.pc = "rereg" => run.conn \in Conns /\ conns[run.conn].opened
      BY ControlTypes DEF Redialled, CtlInv, ConnInv, ControlInv
    <2>2. QED
      BY <1>1, <1>2, <2>1, RegFields DEF CtlInv, ReadyInv, RedialHolds
  <1>5. QED
    BY <1>1, <1>2, <1>3, <1>4, ReadyRun

LEMMA ReadyStart ==
    ASSUME IInv, CtlInv, NEW c \in Conns, Start(c)
    PROVE  ReadyInv'
  <1>1. /\ UNCHANGED <<thr, runtimes, run, listeners>> /\ run.pc = "idle" /\ ctl'.client = c
        /\ inherited' = {k \in Keys : Registered(k)} /\ ~conns[c].opened
    BY DEF Start, registry, CanOpen
  <1>2. \A t \in Threads : thr'[t].conn # c
    BY <1>1, ControlTypes, Bounds DEF CtlInv, ConnInv, ControlInv, Seen
  <1>3. ClaimsHold'
    BY <1>1, <1>2 DEF ClaimsHold, Claim
  <1>4. Published'
    BY <1>1 DEF Published, Registered
  <1>5. AllPorts' /\ SnapshotHolds' /\ RedialHolds'
    BY <1>1 DEF CtlInv, ReadyInv, AllPorts, SnapshotHolds, RedialHolds, Recovering
  <1>6. QED
    BY <1>3, <1>4, <1>5 DEF ReadyInv

LEMMA ReadyFinishRecovery ==
    ASSUME IInv, CtlInv, FinishRecovery
    PROVE  ReadyInv'
  <1>1. /\ UNCHANGED <<conns, listeners, thr, runtimes, inherited>> /\ ctl'.client = run.conn
        /\ Redialled /\ run.conn \in Conns /\ run.pc = "rereg" /\ run.done = Wanted /\ run'.pc = "idle"
    BY FinishRecoveryConns, ControlTypes, IdleTyped DEF FinishRecovery, CtlInv, registry, history
  <1>2. \A t \in Threads : thr'[t].conn # run.conn
    BY <1>1, ControlTypes, Bounds DEF CtlInv, ConnInv, ControlInv, Seen
  <1>3. ClaimsHold'
    BY <1>1, <1>2 DEF ClaimsHold, Claim
  <1>4. ASSUME NEW k \in Keys, NEW i \in 1..NPorts, Registered(k), conns[run.conn].served
        PROVE  Reg(<<k, i>>, runtimes[k].res, run.conn) \in listeners
    <2>1. run.snap[k] = runtimes[k].res
      BY <1>1, <1>4 DEF CtlInv, ReadyInv, SnapshotHolds, Recovering
    <2>2. <<k, i>> \in run.done
      BY <1>1, <1>4, <2>1 DEF Wanted, Subs, Registered
    <2>3. QED
      BY <1>1, <1>4, <2>1, <2>2 DEF CtlInv, ReadyInv, RedialHolds
  <1>5. Published'
    BY <1>1, <1>4 DEF Published, Live, Listening, Registered
  <1>6. AllPorts' /\ SnapshotHolds' /\ RedialHolds'
    BY <1>1 DEF CtlInv, ReadyInv, AllPorts, SnapshotHolds, RedialHolds, Recovering
  <1>7. QED
    BY <1>3, <1>5, <1>6 DEF ReadyInv

(* Closing or opening a connection leaves the listeners where they are.     *)
LEMMA ReadyQuietRun ==
    ASSUME IInv, CtlInv, UNCHANGED <<thr, runtimes, inherited>>, listeners \subseteq listeners',
           ctl'.client \in {ctl.client, None},
           \/ UNCHANGED conns \/ (\E c : conns' = Close(c))
           \/ (\E c \in Conns : CanOpen(c, run.ip) /\ conns' = Open(c, ctl.token)),
           SnapshotHolds', RedialHolds'
    PROVE  ReadyInv'
  <1>1. \A c \in Conns : conns[c].opened /\ conns'[c].served => conns[c].served
    <2>1. CASE UNCHANGED conns
      BY <2>1
    <2>2. CASE \E c : conns' = Close(c)
      BY <2>2, CloseOrdered DEF CtlInv, ConnInv
    <2>3. CASE \E c \in Conns : CanOpen(c, run.ip) /\ conns' = Open(c, ctl.token)
      BY <2>3, ControlTypes DEF CanOpen, Open
    <2>4. QED
      BY <2>1, <2>2, <2>3
  <1>2. QED
    BY <1>1, ReadyRun

LEMMA ReadyMain ==
    ASSUME IInv, CtlInv,
           \/ \E a \in {gateway, pod} : BeginRecovery(a)
           \/ Redial \/ EndAttempt \/ StopAll \/ EndStopAll
           \/ \E s \in Subs : Reregister(s) \/ UndoRegistration(s)
    PROVE  ReadyInv'
  <1>1. UNCHANGED <<thr, runtimes, inherited>>
    BY DEF BeginRecovery, Redial, EndAttempt, StopAll, EndStopAll, Reregister, UndoRegistration,
       registry, history
  <1>2. ASSUME NEW a \in {gateway, pod}, BeginRecovery(a) PROVE ReadyInv'
    <2>1. ctl'.client = None /\ conns' = Close(ctl.client) /\ UNCHANGED listeners
      BY <1>2, ControlTypes DEF BeginRecovery
    <2>2. run'.pc = "dial" /\ run'.snap = [k \in Keys |-> runtimes[k].res]
      BY <1>2 DEF BeginRecovery, IdleRun
    <2>3. SnapshotHolds' /\ RedialHolds'
      BY <1>1, <2>2 DEF SnapshotHolds, RedialHolds
    <2>4. QED
      BY <1>1, <2>1, <2>3, ReadyQuietRun
  <1>3. CASE StopAll \/ EndStopAll
    <2>1. /\ ctl'.client \in {ctl.client, None} /\ (UNCHANGED conns \/ conns' = Close(run.conn))
          /\ UNCHANGED listeners
      BY <1>3, ControlTypes DEF StopAll, EndStopAll, manager, outside
    <2>2. run'.pc \in {"idle", "stopall"}
      BY <1>3, IdleTyped DEF StopAll, EndStopAll, IdleRun
    <2>3. SnapshotHolds' /\ RedialHolds'
      BY <2>2 DEF SnapshotHolds, RedialHolds, Recovering
    <2>4. QED
      BY <1>1, <2>1, <2>3, ReadyQuietRun
  <1>4. CASE Redial \/ EndAttempt
    <2>1. /\ UNCHANGED listeners /\ Recovering
          /\ \/ UNCHANGED conns \/ conns' = Close(run.conn)
             \/ \E c \in Conns : CanOpen(c, run.ip) /\ conns' = Open(c, ctl.token)
      BY <1>4 DEF Redial, EndAttempt, Recovering
    <2>2. \/ RecoveryFailed
          \/ UNCHANGED ctl /\ run'.snap = run.snap /\ run'.pc \in {"dial", "rereg"} /\ run'.done = {}
          \/ UNCHANGED ctl /\ run'.snap = run.snap /\ run'.pc = "dial"
      BY <1>4, ControlTypes, ZenonT(40) DEF Redial, EndAttempt, Run
    <2>3. CASE RecoveryFailed
      <3>1. run'.pc = "idle" /\ ctl'.client = None
        BY <2>1, <2>3, RecoveryFails DEF CtlInv, ConnInv
      <3>2. SnapshotHolds' /\ RedialHolds'
        BY <3>1 DEF SnapshotHolds, RedialHolds, Recovering
      <3>3. QED
        BY <1>1, <2>1, <3>1, <3>2, ReadyQuietRun
    <2>4. CASE UNCHANGED ctl /\ run'.snap = run.snap /\ (run'.pc = "rereg" => run'.done = {})
      <3>1. SnapshotHolds' /\ RedialHolds'
        BY <1>1, <2>1, <2>4 DEF CtlInv, ReadyInv, SnapshotHolds, RedialHolds, Registered
      <3>2. QED
        BY <1>1, <2>1, <2>4, <3>1, ReadyQuietRun
    <2>5. QED
      BY <2>2, <2>3, <2>4
  <1>5. ASSUME NEW s \in Subs, Reregister(s) PROVE ReadyInv'
    <2> DEFINE l == Reg(s, run.snap[s[1]], run.conn)
    <2>1. UNCHANGED <<ctl, conns>> /\ run.pc = "rereg" /\ Recovering
      BY <1>5 DEF Reregister, manager, Recovering
    <2>2. PICK r \in RegisterResults(l) :
            /\ listeners' = r.ls
            /\ run' = IF r.says = "ack" THEN [run EXCEPT !.done = @ \cup {s}]
                      ELSE [run EXCEPT !.pc = "undo", !.again = (r.says = "busy")]
      BY <1>5 DEF Reregister
    <2>3. listeners \subseteq listeners' /\ (r.says = "ack" => l \in listeners')
      BY <2>2 DEF RegisterResults
    <2>4. /\ run'.snap = run.snap /\ run'.conn = run.conn
          /\ run'.pc = "rereg" => run'.done = run.done \cup {s} /\ r.says = "ack"
      BY <2>1, <2>2, ControlTypes DEF Run
    <2>5. SnapshotHolds'
      BY <1>1, <2>1, <2>4 DEF CtlInv, ReadyInv, SnapshotHolds, Registered
    <2>6. RedialHolds'
      BY <2>1, <2>3, <2>4 DEF CtlInv, ReadyInv, RedialHolds
    <2> HIDE DEF l
    <2>7. QED
      BY <1>1, <2>1, <2>3, <2>5, <2>6, ReadyQuietRun
  <1>6. ASSUME NEW s \in Subs, UndoRegistration(s) PROVE ReadyInv'
    <2>1. /\ UNCHANGED <<ctl, conns>> /\ run.pc = "undo" /\ Recovering /\ ctl.client = None
          /\ run'.pc = "undo" /\ run'.snap = run.snap
      BY <1>6, ControlTypes DEF UndoRegistration, manager, Recovering, Run, CtlInv, ConnInv, ControlInv
    <2>2. SnapshotHolds' /\ RedialHolds'
      BY <1>1, <2>1 DEF CtlInv, ReadyInv, SnapshotHolds, RedialHolds, Registered
    <2>3. ~Live'
      BY <2>1 DEF Live
    <2>4. AllPorts'
      BY <1>1 DEF CtlInv, ReadyInv, AllPorts
    <2>5. QED
      BY <2>2, <2>3, <2>4 DEF ReadyInv, ClaimsHold, Published
  <1>7. QED
    BY <1>2, <1>3, <1>4, <1>5, <1>6

LEMMA ReadyNext == IInv /\ CtlInv /\ [Next]_vars => ReadyInv'
  <1> SUFFICES ASSUME IInv, CtlInv, [Next]_vars PROVE ReadyInv'
    OBVIOUS
  <1>1. ASSUME NEW t \in Callers, NEW k \in Keys, BeginStop(t, k) PROVE ReadyInv'
    BY <1>1, BeginStopShape, ReadyStopBegins DEF BeginStop, Threads, history
  <1>2. ASSUME GoroutineStep, UNCHANGED <<inherited, listeners, runtimes, thr>> PROVE ReadyInv'
    <2>1. AllPorts'
      BY <1>2 DEF CtlInv, ReadyInv, AllPorts
    <2>2. ASSUME Live, NEW u \in Threads PROVE Claim(u)'
      BY <1>2, <2>2, SameThread, ClaimKept DEF GoroutineStep
    <2>3. QED
      BY <1>2, <2>1, <2>2, ReadyGrows
  <1>3. ASSUME NEW k \in Keys, StopNext(k) PROVE ReadyInv'
    <2>1. GoroutineStep /\ UNCHANGED <<listeners, inherited>> /\ Main \in Threads
      BY <1>3, StopNextShape DEF StopNext, history, Threads
    <2>2. QED
      BY <1>2, <1>3, <2>1, ReadyStopBegins DEF StopNext
  <1>4. CASE UNCHANGED vars
    <2>1. GoroutineStep
      BY <1>4 DEF GoroutineStep, KeepsConn, vars, manager, outside
    <2>2. QED
      BY <1>2, <1>4, <2>1 DEF vars, registry, outside, history
  <1>5. CASE RecoveryStep
    BY <1>5, ReadyMain, ReadyFinishRecovery DEF RecoveryStep
  <1>6. QED
    BY <1>1, <1>3, <1>4, <1>5, ReadyBeginStart, ReadyStartStep, ReadyStopStep, ReadyStart,
       ReadyMain, ReadyNetwork DEF Next, StopAllStep

LEMMA CtlInit == Init => CtlInv
  <1> SUFFICES ASSUME Init PROVE CtlInv
    OBVIOUS
  <1>1. /\ \A t \in Threads : thr[t] = IdleThread /\ thr[t].pc = "idle" /\ thr[t].conn = None
        /\ \A t \in Threads : thr[t].res = None
        /\ \A k \in Keys : runtimes[k].res = None
        /\ \A c \in Conns : conns[c] = NoConn
        /\ run.pc = "idle" /\ ctl.client = None /\ ~active /\ nextRes = 0 /\ listeners = {}
    BY IdleTyped, IdleConn DEF Init, NoRuntime
  <1>2. ~Recovering /\ ~Redialled /\ ~Live /\ \A t \in Threads : ~Registering(t)
    BY <1>1 DEF Recovering, Redialled, Live, Registering, Starting, InStart
  <1>3. ConnInv
    BY <1>1, <1>2 DEF ConnInv, ConnsInOrder, ControlInv, ListenersInv, NoConn
  <1>4. ResInv
    BY <1>1, <1>2 DEF ResInv, Registered, None
  <1>5. ReadyInv
    BY <1>1, <1>2 DEF ReadyInv, ClaimsHold, Published, AllPorts, SnapshotHolds, RedialHolds
  <1>6. QED
    BY <1>3, <1>4, <1>5 DEF CtlInv

LEMMA CtlInvariance == Spec => []CtlInv
  <1>1. IInv /\ CtlInv /\ [Next]_vars => CtlInv'
    BY ConnNext, ResNext, ReadyNext DEF CtlInv
  <1>2. QED
    BY <1>1, CtlInit, Invariance, PTL DEF Spec

(* However many sessions, recoveries, starts and stops interleave: when the *)
(* control is ready and the Gateway serves it, every port of every runtime  *)
(* published in the session listens on that control.                        *)
THEOREM ReadyControlIsComplete == Spec => []ReadyMeansRegistered
  <1>1. CtlInv => ReadyMeansRegistered
    <2> SUFFICES ASSUME CtlInv, Ready, conns[ctl.client].served, NEW s \in Subs,
                        Registered(s[1]), s[1] \notin inherited
                 PROVE  Reg(s, runtimes[s[1]].res, ctl.client) \in listeners
      BY DEF ReadyMeansRegistered
    <2>1. PICK k \in Keys, i \in 1..NPorts : s = <<k, i>>
      BY DEF Subs
    <2>2. Live
      BY DEF Live, Ready
    <2>3. QED
      BY <2>1, <2>2 DEF CtlInv, ReadyInv, Published, Listening
  <1>2. QED
    BY <1>1, CtlInvariance, PTL

-----------------------------------------------------------------------------
(* Who answers for a listener.                                              *)

Answers(t, l) == /\ thr[t].key = l.sub[1] /\ thr[t].conn = l.conn /\ l.sub[2] <= thr[t].n
                 /\ thr[t].pc = "drop" \/ (Starting(t) /\ thr[t].res = l.port)
Owned(l) == runtimes[l.sub[1]].res = l.port \/ \E t \in Threads : Answers(t, l)

(* Listener l is one of the live control the session began with.            *)
OnControl(l) == /\ ctl.client # None /\ l.conn = ctl.client
                /\ ~conns[l.conn].cut /\ Original(l.conn)
OwnerInv == \A l \in listeners : OnControl(l) => Owned(l)

LEMMA ListenerFacts ==
    ASSUME IInv, CtlInv, NEW l \in listeners
    PROVE  /\ l \in Listener /\ l.conn \in Conns /\ conns[l.conn].opened
           /\ l.sub[1] \in Keys /\ l.sub[2] \in 1..NPorts /\ l.sub = <<l.sub[1], l.sub[2]>>
  BY ControlTypes DEF CtlInv, ConnInv, ListenersInv, ConnsInOrder, Listener, Subs

(* A step that makes no listener and leaves every owner its own.            *)
LEMMA OwnerKept ==
    ASSUME IInv, CtlInv, OwnerInv, listeners' \subseteq listeners, Grown,
           ctl'.client \in {ctl.client, None},
           \A c \in Conns : conns[c].cut => conns'[c].cut,
           \A l \in listeners' : OnControl(l) /\ Owned(l) => Owned(l)'
    PROVE  OwnerInv'
  <1> SUFFICES ASSUME NEW l \in listeners', OnControl(l)' PROVE Owned(l)'
    BY DEF OwnerInv
  <1>1. l \in listeners /\ l.conn \in Conns /\ conns[l.conn].opened
    BY ListenerFacts
  <1>2. Original(l.conn)
    BY <1>1, OriginalKept DEF OnControl, CtlInv, ConnInv
  <1>3. OnControl(l)
    BY <1>1, <1>2 DEF OnControl
  <1>4. QED
    BY <1>1, <1>3 DEF OwnerInv

(* ... taken by a goroutine.                                                *)
LEMMA OwnerGoroutine ==
    ASSUME IInv, CtlInv, OwnerInv, GoroutineStep, listeners' \subseteq listeners,
           \A l \in listeners' : OnControl(l) /\ Owned(l) => Owned(l)'
    PROVE  OwnerInv'
  BY OwnerKept DEF GoroutineStep, Grown

LEMMA SameAnswers ==
    ASSUME NEW u \in Threads, thr'[u] = thr[u], NEW l
    PROVE  Answers(u, l)' <=> Answers(u, l)
  BY DEF Answers, Starting

(* A step of a goroutine that does not touch the ports it answers for.      *)
LEMMA OwnerMoves ==
    ASSUME IInv, CtlInv, OwnerInv, GoroutineStep, UNCHANGED listeners, NEW t \in Threads,
           \A u \in Threads \ {t} : thr'[u] = thr[u],
           \A k \in Keys : runtimes'[k].res = runtimes[k].res,
           \A l \in listeners : Answers(t, l) => Answers(t, l)'
    PROVE  OwnerInv'
  <1> SUFFICES ASSUME NEW l \in listeners, Owned(l) PROVE Owned(l)'
    BY OwnerGoroutine
  <1>1. l.sub[1] \in Keys
    BY ListenerFacts
  <1>2. CASE runtimes[l.sub[1]].res = l.port
    BY <1>1, <1>2 DEF Owned
  <1>3. ASSUME NEW u \in Threads, Answers(u, l) PROVE Owned(l)'
    BY <1>3, SameAnswers DEF Owned
  <1>4. QED
    BY <1>2, <1>3 DEF Owned

LEMMA OwnerRegisterPort ==
    ASSUME IInv, CtlInv, OwnerInv, ~AckTimeouts, NEW t \in Callers, RegisterPort(t)
    PROVE  OwnerInv'
  <1>0. PICK l : l = Reg(<<thr[t].key, thr[t].n + 1>>, thr[t].res, thr[t].conn)
    OBVIOUS
  <1>1. t \in Threads /\ thr[t].pc = "register"
    BY DEF Threads, RegisterPort
  <1>2. /\ UNCHANGED <<ctl, conns, runtimes>> /\ thr[t] \in Thread /\ thr[t].n \in Nat
        /\ \A u \in Threads \ {t} : thr'[u] = thr[u]
    BY <1>1, ControlTypes, ConstantsAssumption DEF RegisterPort, manager, registry, Thread
  <1>3. PICK r \in RegisterResults(l) :
          /\ listeners' = r.ls
          /\ IF r.says # "ack"
             THEN thr' = [thr EXCEPT ![t].pc = "unregister"]
             ELSE thr' = [thr EXCEPT ![t].n = @ + 1,
                            ![t].pc = IF thr[t].n + 1 = NPorts THEN "apply" ELSE @]
    BY <1>0 DEF RegisterPort
  <1>4. listeners' \subseteq listeners \cup {l} /\ (l \in listeners' => \/ l \in listeners
                                                               \/ r.says = "ack" \/ conns[l.conn].cut)
    BY <1>3 DEF RegisterResults
  <1>5. /\ thr'[t].key = thr[t].key /\ thr'[t].res = thr[t].res /\ thr'[t].conn = thr[t].conn
        /\ thr'[t].n \in {thr[t].n, thr[t].n + 1} /\ thr'[t].pc \in InStart
        /\ r.says = "ack" => thr'[t].n = thr[t].n + 1
    BY <1>1, <1>2, <1>3, ControlTypes DEF Thread, InStart
  <1>6. \A m : OnControl(m)' <=> OnControl(m)
    BY <1>2 DEF OnControl, Original
  <1>7. ASSUME NEW m \in listeners, Owned(m) PROVE Owned(m)'
    <2>1. CASE runtimes[m.sub[1]].res = m.port
      BY <1>2, <2>1 DEF Owned
    <2>2. CASE Answers(t, m)
      <3>1. m.sub[2] <= thr'[t].n
        BY <1>2, <1>5, <2>2, ListenerFacts, ConstantsAssumption DEF Answers
      <3>2. QED
        BY <1>1, <1>5, <2>2, <3>1 DEF Answers, Owned, Starting, InStart
    <2>3. ASSUME NEW u \in Threads \ {t}, Answers(u, m) PROVE Owned(m)'
      BY <1>2, <2>3, SameAnswers DEF Owned
    <2>4. QED
      BY <1>7, <2>1, <2>2, <2>3 DEF Owned
  <1>8. ASSUME r.says = "ack" PROVE Owned(l)'
    <2>1. l.sub = <<thr[t].key, thr[t].n + 1>> /\ l.port = thr[t].res /\ l.conn = thr[t].conn
      BY <1>0, RegFields
    <2>2. l.sub[1] = thr[t].key /\ l.sub[2] = thr[t].n + 1
      BY <2>1
    <2>3. Answers(t, l)'
      BY <1>2, <1>5, <1>8, <2>1, <2>2 DEF Answers, Starting
    <2>4. QED
      BY <1>1, <2>3 DEF Owned
  <1>9. ASSUME NEW m \in listeners', OnControl(m)' PROVE Owned(m)'
    <2>1. CASE m \in listeners
      BY <1>6, <1>7, <1>9, <2>1 DEF OwnerInv
    <2>2. CASE m = l /\ l \notin listeners
      BY <1>2, <1>4, <1>6, <1>8, <1>9, <2>2 DEF OnControl
    <2>3. QED
      BY <1>4, <2>1, <2>2
  <1>10. QED
    BY <1>9 DEF OwnerInv

(* A port of goroutine t is unregistered: on a live connection the Gateway  *)
(* has dropped it.                                                          *)
LEMMA OwnerUnregister ==
    ASSUME IInv, CtlInv, OwnerInv, GoroutineStep, UNCHANGED runtimes,
           NEW t \in Threads, thr[t].n \in 1..NPorts, thr[t].key \in Keys,
           listeners' \in UnregisterResults(thr[t].conn, <<thr[t].key, thr[t].n>>),
           \/ thr' = [thr EXCEPT ![t].n = @ - 1]
           \/ thr' = [thr EXCEPT ![t] = IdleThread] /\ thr[t].n = 1
    PROVE  OwnerInv'
  <1>1. listeners' \subseteq listeners
    BY UnregisterShrinks
  <1>2. \A u \in Threads \ {t} : thr'[u] = thr[u]
    BY ControlTypes
  <1>3. ASSUME NEW l \in listeners', OnControl(l), Owned(l) PROVE Owned(l)'
    <2>1. l \in listeners /\ l.sub[2] \in 1..NPorts /\ l.sub = <<l.sub[1], l.sub[2]>> /\ l.conn \in Conns
      BY <1>1, ListenerFacts
    <2>2. CASE runtimes[l.sub[1]].res = l.port
      BY <2>2 DEF Owned
    <2>3. ASSUME NEW u \in Threads \ {t}, Answers(u, l) PROVE Owned(l)'
      BY <1>2, <2>3, SameAnswers DEF Owned
    <2>4. CASE Answers(t, l)
      <3>1. ~conns[thr[t].conn].cut /\ ~conns[thr[t].conn].closed
        BY <1>3, <2>1, <2>4 DEF Answers, OnControl, CtlInv, ConnInv, ConnsInOrder
      <3>2. l.sub # <<thr[t].key, thr[t].n>>
        BY <1>3, <2>4, <3>1 DEF UnregisterResults, Answers
      <3>3. l.sub[2] # thr[t].n /\ l.sub[2] <= thr[t].n /\ l.sub[1] = thr[t].key
        BY <2>1, <2>4, <3>2 DEF Answers
      <3>4. l.sub[2] <= thr[t].n - 1 /\ thr[t].n # 1
        BY <2>1, <3>3, ConstantsAssumption
      <3>5. /\ thr'[t].key = thr[t].key /\ thr'[t].conn = thr[t].conn /\ thr'[t].res = thr[t].res
            /\ thr'[t].pc = thr[t].pc /\ thr'[t].n = thr[t].n - 1
        BY <3>4, ControlTypes DEF Thread
      <3>6. QED
        BY <2>4, <3>4, <3>5 DEF Owned, Answers, Starting
    <2>5. QED
      BY <1>3, <2>2, <2>3, <2>4 DEF Owned
  <1>4. QED
    BY <1>1, <1>3, OwnerGoroutine

LEMMA OwnerStartStep ==
    ASSUME IInv, CtlInv, OwnerInv, ~AckTimeouts, NEW t \in Callers, StartStep(t)
    PROVE  OwnerInv'
  <1>1. t \in Threads /\ GoroutineStep /\ thr[t] \in Thread
    BY StartStepShape, ControlTypes DEF Threads
  <1>2. \A u \in Threads \ {t} : thr'[u] = thr[u]
    BY ControlTypes DEF StartStep, PrepareFails, RegisterPort, Apply, NoPrimary, Publish,
       RollbackLease, RollbackPort, EndStart
  <1>3. CASE PrepareFails(t) \/ Apply(t) \/ NoPrimary(t) \/ RollbackLease(t) \/ (Publish(t) /\ ~CanPublish(t))
    <2>1. UNCHANGED <<listeners, runtimes>> /\ Starting(t)
      BY <1>3 DEF PrepareFails, Apply, NoPrimary, RollbackLease, Publish, registry, outside, Starting, InStart
    <2>2. PICK x \in {"publish", "rollback", "unregister"} : thr' = [thr EXCEPT ![t].pc = x]
      BY <1>3 DEF PrepareFails, Apply, NoPrimary, RollbackLease, Publish
    <2>3. /\ thr'[t].pc = x /\ thr'[t].key = thr[t].key /\ thr'[t].res = thr[t].res
          /\ thr'[t].conn = thr[t].conn /\ thr'[t].n = thr[t].n
      BY <1>1, <2>2, ControlTypes, OneMoves
    <2>4. \A l \in listeners : Answers(t, l) => Answers(t, l)'
      BY <2>1, <2>3 DEF Answers, Starting, InStart
    <2>5. QED
      BY <1>1, <1>2, <2>1, <2>4, OwnerMoves
  <1>4. CASE EndStart(t)
    <2>1. UNCHANGED <<listeners, runtimes>> /\ thr[t].n = 0
      BY <1>4 DEF EndStart, outside
    <2>2. \A l \in listeners : ~Answers(t, l)
      BY <2>1, ListenerFacts, ConstantsAssumption DEF Answers
    <2>3. QED
      BY <1>1, <1>2, <2>1, <2>2, OwnerMoves
  <1>5. CASE RollbackPort(t)
    <2>1. UNCHANGED runtimes /\ thr[t].n \in 1..NPorts /\ thr[t].key \in Keys
      BY <1>1, <1>5, ConstantsAssumption DEF RollbackPort, registry, Thread, IInv, Typed, ThreadsOK,
         ThreadOK
    <2>2. QED
      BY <1>1, <1>5, <2>1, OwnerUnregister DEF RollbackPort
  <1>6. CASE Publish(t) /\ CanPublish(t)
    <2>1. UNCHANGED listeners /\ thr[t].key \in Keys /\ Starting(t) /\ thr[t].pc = "publish"
      BY <1>1, <1>6 DEF Publish, outside, IInv, Typed, ThreadsOK, ThreadOK, Starting, InStart
    <2>2. /\ runtimes'[thr[t].key].res = thr[t].res
          /\ \A k \in Keys \ {thr[t].key} : runtimes'[k] = runtimes[k]
      BY <1>1, <1>6, <2>1, ControlTypes DEF Publish
    <2>3. runtimes[thr[t].key].res = None
      BY <1>1, <2>1 DEF IInv, Safe, ReservationsExclusive, Registered, Typed, ThreadsOK, ThreadOK, Starting
    <2>4. ASSUME NEW l \in listeners, Owned(l) PROVE Owned(l)'
      <3>1. l.sub[1] \in Keys /\ l.port # None
        BY ListenerFacts DEF CtlInv, ConnInv, ListenersInv
      <3>2. CASE runtimes[l.sub[1]].res = l.port
        BY <2>2, <2>3, <3>1, <3>2 DEF Owned
      <3>3. CASE Answers(t, l)
        BY <2>1, <2>2, <3>3 DEF Answers, Owned
      <3>4. ASSUME NEW u \in Threads \ {t}, Answers(u, l) PROVE Owned(l)'
        BY <1>2, <3>4, SameAnswers DEF Owned
      <3>5. QED
        BY <2>4, <3>2, <3>3, <3>4 DEF Owned
    <2>5. QED
      BY <1>1, <2>1, <2>4, OwnerGoroutine
  <1>7. QED
    BY <1>3, <1>4, <1>5, <1>6, OwnerRegisterPort DEF StartStep

LEMMA OwnerStopStep ==
    ASSUME IInv, CtlInv, OwnerInv, NEW t \in Threads, StopStep(t)
    PROVE  OwnerInv'
  <1>1. GoroutineStep /\ thr[t] \in Thread
    BY StopStepShape, ControlTypes
  <1>2. \A u \in Threads \ {t} : thr'[u] = thr[u]
    BY ControlTypes DEF StopStep, Release, ReleaseFails, Remove, DropPort
  <1>3. CASE Release(t) \/ ReleaseFails(t)
    <2>1. UNCHANGED listeners /\ \A k \in Keys : runtimes'[k].res = runtimes[k].res
      BY <1>3, ControlTypes DEF Release, ReleaseFails, registry, outside, Runtime
    <2>2. \A l \in listeners : ~Answers(t, l)
      BY <1>3 DEF Release, ReleaseFails, Answers, Starting, InStart
    <2>3. QED
      BY <1>1, <1>2, <2>1, <2>2, OwnerMoves
  <1>4. CASE DropPort(t)
    <2>1. UNCHANGED runtimes /\ thr[t].n \in 1..NPorts /\ thr[t].key \in Keys
      BY <1>1, <1>4, ConstantsAssumption DEF DropPort, registry, Thread, IInv, Typed, ThreadsOK, ThreadOK
    <2>2. QED
      BY <1>1, <1>4, <2>1, OwnerUnregister DEF DropPort
  <1>5. CASE Remove(t)
    <2>1. UNCHANGED listeners /\ thr[t].key \in Keys /\ SameRuntime(t) /\ thr[t].pc = "remove"
      BY <1>5, StopFacts DEF Remove, outside, Stopping
    <2>2. \A k \in Keys \ {thr[t].key} : runtimes'[k] = runtimes[k]
      BY <1>5, <2>1, ControlTypes DEF Remove
    <2>3. ASSUME NEW l \in listeners, OnControl(l), Owned(l) PROVE Owned(l)'
      <3>1. l.sub[1] \in Keys /\ l.sub[2] \in 1..NPorts /\ ctl.client # None /\ l.conn = ctl.client
        BY <2>3, ListenerFacts DEF OnControl
      <3>2. /\ thr'[t].pc = "drop" /\ thr'[t].key = thr[t].key /\ thr'[t].conn = ctl.client
            /\ thr'[t].n = NPorts
        BY <1>1, <1>5, <2>1, <3>1, ControlTypes DEF Remove, Thread
      <3>3. CASE l.sub[1] = thr[t].key
        <4>1. l.sub[2] <= NPorts
          BY <3>1, ConstantsAssumption
        <4>2. QED
          BY <3>1, <3>2, <3>3, <4>1 DEF Owned, Answers
      <3>4. CASE l.sub[1] # thr[t].key
        <4>1. ~Answers(t, l)
          BY <3>4 DEF Answers
        <4>2. QED
          BY <1>2, <2>2, <2>3, <3>1, <3>4, <4>1, SameAnswers DEF Owned
      <3>5. QED
        BY <3>3, <3>4
    <2>4. QED
      BY <1>1, <2>1, <2>3, OwnerGoroutine
  <1>6. QED
    BY <1>3, <1>4, <1>5 DEF StopStep

(* An idle goroutine begins to start or to stop.                            *)
LEMMA OwnerBegins ==
    ASSUME IInv, CtlInv, OwnerInv, GoroutineStep, UNCHANGED listeners, NEW t \in Threads,
           thr[t].pc = "idle", \A u \in Threads \ {t} : thr'[u] = thr[u],
           \A k \in Keys : runtimes'[k].res = runtimes[k].res
    PROVE  OwnerInv'
  <1>1. \A l \in listeners : ~Answers(t, l)
    BY DEF Answers, Starting, InStart
  <1>2. QED
    BY <1>1, OwnerMoves

(* The steps of Main and of the network.                                    *)
LEMMA OwnerSameOwners ==
    ASSUME UNCHANGED <<thr, runtimes>>, NEW l
    PROVE  Owned(l)' <=> Owned(l)
  BY DEF Owned, Answers, Starting

LEMMA OwnerNetwork ==
    ASSUME IInv, CtlInv, OwnerInv, Network
    PROVE  OwnerInv'
  <1>1. UNCHANGED <<thr, runtimes, ctl>> /\ listeners' \subseteq listeners
    BY DEF Network, GatewayReplaced, ControlCut, ReadLoopExit, RemoveControl, manager, registry
  <1>2. Grown /\ \A c \in Conns : conns[c].cut => conns'[c].cut
    <2>1. CASE \E c \in Conns : ControlCut(c) \/ ReadLoopExit(c) \/ RemoveControl(c)
      BY <2>1, ControlTypes DEF ControlCut, ReadLoopExit, RemoveControl, Conn, Grown
    <2>2. CASE GatewayReplaced
      <3>1. \A d \in Conns : /\ conns[d].opened => conns'[d].opened /\ conns'[d].token = conns[d].token
                             /\ conns[d].cut => conns'[d].cut
        <4> TAKE d \in Conns
        <4>1. conns[d] \in Conn /\ conns'[d] = IF conns[d].opened
                  THEN [conns[d] EXCEPT !.cut = TRUE, !.served = FALSE] ELSE conns[d]
          BY <2>2, ControlTypes DEF GatewayReplaced
        <4>2. QED
          BY <4>1 DEF Conn
      <3>2. QED
        BY <3>1 DEF Grown
    <2>3. QED
      BY <2>1, <2>2 DEF Network
  <1>3. QED
    BY <1>1, <1>2, OwnerSameOwners, OwnerKept

(* Without a live control of its own, a session has no listener to answer   *)
(* for.                                                                     *)
LEMMA OwnerNoControl ==
    ASSUME IInv, ctl'.client = None
    PROVE  OwnerInv'
  BY DEF OwnerInv, OnControl

LEMMA OwnerMain ==
    ASSUME IInv, CtlInv, OwnerInv,
           \/ \E c \in Conns : Start(c)
           \/ \E a \in {gateway, pod} : BeginRecovery(a)
           \/ RecoveryStep \/ StopAll \/ EndStopAll
    PROVE  OwnerInv'
  <1>1. ASSUME NEW c \in Conns, Start(c) PROVE OwnerInv'
    <2>1. ctl'.client = c /\ ~conns[c].opened /\ UNCHANGED listeners
      BY <1>1 DEF Start, CanOpen
    <2>2. QED
      BY <2>1, ListenerFacts DEF OwnerInv, OnControl
  <1>2. CASE StopAll \/ \E a \in {gateway, pod} : BeginRecovery(a)
    <2>1. ctl'.client = None
      BY <1>2, ControlTypes DEF StopAll, BeginRecovery
    <2>2. QED
      BY <2>1, OwnerNoControl
  <1>3. CASE EndStopAll
    <2>1. UNCHANGED <<thr, runtimes, ctl, listeners>> /\ conns' = Close(run.conn)
      BY <1>3 DEF EndStopAll, manager, registry
    <2>2. Grown /\ \A c \in Conns : conns[c].cut => conns'[c].cut
      BY <2>1, CloseOrdered DEF CtlInv, ConnInv
    <2>3. QED
      BY <2>1, <2>2, OwnerSameOwners, OwnerKept
  <1>4. CASE Redial \/ EndAttempt \/ \E s \in Subs : Reregister(s) \/ UndoRegistration(s)
    <2>1. Recovering /\ ctl.client = None
      BY <1>4 DEF Redial, EndAttempt, Reregister, UndoRegistration, Recovering, CtlInv, ConnInv, ControlInv
    <2>2. UNCHANGED ctl \/ RecoveryFailed
      BY <1>4 DEF Redial, EndAttempt, Reregister, UndoRegistration, manager
    <2>3. ctl'.client = None
      BY <2>1, <2>2, RecoveryFails DEF CtlInv, ConnInv
    <2>4. QED
      BY <2>3, OwnerNoControl
  <1>5. CASE FinishRecovery
    <2>1. UNCHANGED <<conns, listeners>> /\ ctl'.client = run.conn /\ Redialled /\ run.conn \in Conns
      BY <1>5, FinishRecoveryConns, ControlTypes DEF CtlInv
    <2>2. ~Original(run.conn)
      BY <2>1 DEF CtlInv, ConnInv, ControlInv
    <2>3. \A l \in listeners' : ~OnControl(l)'
      BY <2>1, <2>2 DEF OnControl, Original
    <2>4. QED
      BY <2>3 DEF OwnerInv
  <1>6. QED
    BY <1>1, <1>2, <1>3, <1>4, <1>5 DEF RecoveryStep

LEMMA OwnerNext == IInv /\ CtlInv /\ OwnerInv /\ ~AckTimeouts /\ [Next]_vars => OwnerInv'
  <1> SUFFICES ASSUME IInv, CtlInv, OwnerInv, ~AckTimeouts, [Next]_vars PROVE OwnerInv'
    OBVIOUS
  <1>1. ASSUME NEW t \in Callers, NEW k \in Keys, BeginStop(t, k) PROVE OwnerInv'
    <2>1. t \in Threads /\ thr[t].pc = "idle" /\ \A u \in Threads \ {t} : thr'[u] = thr[u]
      BY <1>1, ControlTypes DEF BeginStop, Threads
    <2>2. \A j \in Keys : runtimes'[j].res = runtimes[j].res
      BY <1>1, ControlTypes DEF BeginStop, Runtime
    <2>3. QED
      BY <1>1, <2>1, <2>2, BeginStopShape, OwnerBegins
  <1>2. ASSUME NEW t \in Callers, NEW k \in Keys, NEW m \in Modes, BeginStart(t, k, m) PROVE OwnerInv'
    <2>1. t \in Threads /\ thr[t].pc = "idle" /\ \A u \in Threads \ {t} : thr'[u] = thr[u]
      BY <1>2, ControlTypes DEF BeginStart, Threads
    <2>2. QED
      BY <1>2, <2>1, BeginStartShape, OwnerBegins DEF BeginStart
  <1>3. ASSUME NEW k \in Keys, StopNext(k) PROVE OwnerInv'
    <2>1. Main \in Threads /\ thr[Main].pc = "idle" /\ \A u \in Threads \ {Main} : thr'[u] = thr[u]
      BY <1>3, ControlTypes DEF StopNext, Threads
    <2>2. \A j \in Keys : runtimes'[j].res = runtimes[j].res
      BY <1>3, ControlTypes DEF StopNext, Runtime
    <2>3. QED
      BY <1>3, <2>1, <2>2, StopNextShape, OwnerBegins
  <1>4. CASE UNCHANGED vars
    <2>1. UNCHANGED <<thr, runtimes, ctl, listeners, conns>>
      BY <1>4 DEF vars, manager, registry, outside
    <2>2. QED
      BY <2>1, OwnerSameOwners, OwnerKept DEF Grown
  <1>5. QED
    BY <1>1, <1>2, <1>3, <1>4, OwnerStartStep, OwnerStopStep, OwnerMain, OwnerNetwork
       DEF Next, StopAllStep

(* As long as every Ack arrives within its wait, no order of starts and     *)
(* stops leaves a listener behind on the control the session began with:    *)
(* each belongs to what is published or to a goroutine that will take care  *)
(* of it.                                                                   *)
THEOREM ListenersAreOwned == ~AckTimeouts => (Spec => []ListenersOwned)
  <1> SUFFICES ASSUME ~AckTimeouts PROVE Spec => []ListenersOwned
    OBVIOUS
  <1>1. Init => OwnerInv
    BY DEF Init, OwnerInv
  <1>2. IInv /\ CtlInv /\ OwnerInv /\ [Next]_vars => OwnerInv'
    BY OwnerNext
  <1>3. OwnerInv => ListenersOwned
    BY DEF OwnerInv, ListenersOwned, OnControl, Ready, Owned, Answers, Starting, InStart
  <1>4. QED
    BY <1>1, <1>2, <1>3, Invariance, CtlInvariance, PTL DEF Spec
=============================================================================
