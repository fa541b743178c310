--------------------------- MODULE FeaturesProofs ---------------------------
(***************************************************************************)
(* What the parts of MCFeatures promise, proved for every set of contexts, *)
(* kubeconfig files, desktops, ports and file handles and every bound on   *)
(* what goes wrong: the state store, the installation of the helper, the   *)
(* preview binding, the MCP server, the keys of Pod SSH, its SFTP and the  *)
(* port forwards.                                                          *)
(* Each has an invariant of its own that its steps preserve; a step of the *)
(* whole is a step of the part that runs.                                  *)
(***************************************************************************)
EXTENDS MCFeatures, FiniteSetTheorems, TLAPS

(* Only the part that runs takes steps.                                    *)
LEMMA OneRuns ==
    ASSUME [Next]_vars
    PROVE  /\ model' = model
           /\ model = "forwards" => [FW!Next]_fwVars
           /\ model = "mcp" => [MP!Next]_mpVars
           /\ model = "store" => [ST!Next]_stVars
           /\ model = "install" => [IS!Next]_isVars
           /\ model = "preview" => [PV!Next]_pvVars
           /\ [SF!Next]_sfVars
           /\ [SK!Next]_skVars
<1> USE DEF vars
<1>1. CASE Next
  BY <1>1 DEF Next, ForwardsStep, McpStep, SftpStep, SshKeysStep, StoreStep, TunnelStep,
              InstallStep, PreviewStep
<1>2. CASE UNCHANGED vars
  BY <1>2
<1>. QED  BY <1>1, <1>2

-----------------------------------------------------------------------------
(* The state store.  What a save leaves in the file is a whole state that  *)
(* the application had in memory, so what holds of one holds of the other. *)
Readable(s) == s.last # "torn"
OneReconnects(s) ==
    \A j, k \in StoreContexts : s.clusters[j].connected /\ s.clusters[k].connected => j = k

StoreInv ==
    /\ ST!TypeOK
    /\ Readable(state) /\ Readable(stateFile)
    /\ OneReconnects(state) /\ OneReconnects(stateFile)
    /\ storePc # "refused"
    /\ (storePc = "idle" /\ saved) => stateFile = state

LEMMA FreshState ==
    ST!Fresh \in ST!States /\ Readable(ST!Fresh) /\ OneReconnects(ST!Fresh)
<1>1. ST!Fresh \in ST!States
  BY DEF ST!Fresh, ST!States, ST!NewCluster, ST!Cluster
<1>. QED  BY <1>1 DEF ST!Fresh, ST!NewCluster, Readable, OneReconnects

(* An operation on a state that is in order leaves one that is in order:   *)
(* it may set the flag of one context only by taking it from all others.   *)
LEMMA ChangeKeeps ==
    ASSUME StoreInv, NEW new \in ST!States, Readable(new), OneReconnects(new),
           ST!Change(new)
    PROVE  StoreInv'
<1> USE DEF StoreInv, ST!Change
<1>1. ST!TypeOK'
  BY DEF ST!TypeOK
<1>2. (Readable(state) /\ Readable(stateFile) /\ OneReconnects(state) /\ OneReconnects(stateFile))'
  BY DEF Readable, OneReconnects
<1>. QED  BY <1>1, <1>2

LEMMA SetConnectedKeeps ==
    ASSUME StoreInv, NEW k \in StoreContexts, NEW on \in BOOLEAN, ST!SetConnected(k, on)
    PROVE  StoreInv'
<1> DEFINE cs == [j \in StoreContexts |->
               [state.clusters[j] EXCEPT !.connected = IF j = k THEN on ELSE @ /\ ~on]]
           new == [state EXCEPT !.clusters = cs, !.last = k]
<1>0. state \in ST!States /\ OneReconnects(state)
  BY DEF StoreInv, ST!TypeOK
<1>1. ASSUME NEW j \in StoreContexts
      PROVE  /\ cs[j] \in ST!Cluster
             /\ cs[j].connected = IF j = k THEN on ELSE (state.clusters[j].connected /\ ~on)
  BY <1>0 DEF ST!States, ST!Cluster
<1>2. new \in ST!States /\ new.clusters = cs /\ new.last = k
  BY <1>0, <1>1 DEF ST!States
<1>3. Readable(new)
  BY <1>2, NamesAreNames DEF Readable
<1>4. OneReconnects(new)
  BY <1>0, <1>1, <1>2 DEF OneReconnects
<1>5. ST!Change(new)
  BY DEF ST!SetConnected
<1>. QED  BY <1>2, <1>3, <1>4, <1>5, ChangeKeeps

(* Operations that leave the flags alone.                                  *)
LEMMA OtherChangeKeeps ==
    ASSUME StoreInv, NEW new \in ST!States, new.last \in StoreContexts \cup {state.last},
           \A j \in StoreContexts : new.clusters[j].connected = state.clusters[j].connected,
           ST!Change(new)
    PROVE  StoreInv'
<1>1. Readable(new) /\ OneReconnects(new)
  BY NamesAreNames DEF StoreInv, Readable, OneReconnects
<1>. QED  BY <1>1, ChangeKeeps

LEMMA StoreStepKeeps ==
    ASSUME StoreInv, ST!Next
    PROVE  StoreInv'
<1>0. state \in ST!States /\ stateFile \in ST!States /\ OneReconnects(state)
  BY DEF StoreInv, ST!TypeOK
<1> DEFINE Same(new) == \A j \in StoreContexts :
               new.clusters[j].connected = state.clusters[j].connected
<1>1. ASSUME NEW k \in StoreContexts, NEW on \in BOOLEAN, ST!SetConnected(k, on)
      PROVE  StoreInv'
  BY <1>1, SetConnectedKeeps
<1>2. ASSUME NEW k \in StoreContexts, NEW n \in 0..1, ST!SetIntents(k, n)
      PROVE  StoreInv'
  <2> DEFINE new == [state EXCEPT !.clusters[k].intents = n]
  <2>1. new \in ST!States /\ new.last = state.last /\ Same(new)
    BY <1>0 DEF ST!States, ST!Cluster
  <2>. QED  BY <1>2, <2>1, OtherChangeKeeps DEF ST!SetIntents
<1>3. ASSUME NEW k \in StoreContexts, NEW n \in 0..1, ST!SetKept(k, n)
      PROVE  StoreInv'
  <2> DEFINE new == [state EXCEPT !.clusters[k].kept = n]
  <2>1. new \in ST!States /\ new.last = state.last /\ Same(new)
    BY <1>0 DEF ST!States, ST!Cluster
  <2>. QED  BY <1>3, <2>1, OtherChangeKeeps DEF ST!SetKept
<1>4. ASSUME NEW k \in StoreContexts, ST!SetUI(k)
      PROVE  StoreInv'
  <2> DEFINE new == [state EXCEPT !.last = k]
  <2>1. new \in ST!States /\ new.last = k /\ Same(new)
    BY <1>0 DEF ST!States
  <2>. QED  BY <1>4, <2>1, OtherChangeKeeps DEF ST!SetUI
<1>5. CASE ST!ClearSessionIntents
  <2> DEFINE cs == [k \in StoreContexts |-> [state.clusters[k] EXCEPT !.intents = 0]]
             new == [state EXCEPT !.clusters = cs]
  <2>1. ASSUME NEW j \in StoreContexts
        PROVE  cs[j] \in ST!Cluster /\ cs[j].connected = state.clusters[j].connected
    BY <1>0 DEF ST!States, ST!Cluster
  <2>2. new \in ST!States /\ new.last = state.last /\ Same(new)
    BY <1>0, <2>1 DEF ST!States
  <2>. QED  BY <1>5, <2>2, OtherChangeKeeps DEF ST!ClearSessionIntents
<1>6. ASSUME NEW f \in StoreFiles, ST!AddKubeconfigFile(f) \/ ST!RemoveKubeconfigFile(f)
      PROVE  StoreInv'
  <2> DEFINE more == [state EXCEPT !.files = @ \cup {f}]
             less == [state EXCEPT !.files = @ \ {f}]
  <2>1. more \in ST!States /\ more.last = state.last /\ Same(more)
    BY <1>0 DEF ST!States
  <2>2. less \in ST!States /\ less.last = state.last /\ Same(less)
    BY <1>0 DEF ST!States
  <2>. QED  BY <1>6, <2>1, <2>2, OtherChangeKeeps
              DEF ST!AddKubeconfigFile, ST!RemoveKubeconfigFile
<1>7. CASE ST!CreateTemp \/ ST!WriteTemp \/ ST!Rename \/ ST!SaveFails
  BY <1>7 DEF StoreInv, ST!TypeOK, Readable, OneReconnects, ST!CreateTemp, ST!WriteTemp,
              ST!Rename, ST!SaveFails
<1>8. CASE ST!Die
  <2>1. ST!TypeOK'
    BY <1>8, FreshState DEF StoreInv, ST!TypeOK, ST!Die
  <2>2. (Readable(state) /\ OneReconnects(state))'
    BY <1>8, FreshState DEF ST!Die, Readable, OneReconnects
  <2>. QED  BY <1>8, <2>1, <2>2 DEF StoreInv, Readable, OneReconnects, ST!Die
<1>9. CASE ST!Load
  BY <1>9 DEF StoreInv, ST!TypeOK, Readable, OneReconnects, ST!Load
<1>. QED
  BY <1>1, <1>2, <1>3, <1>4, <1>5, <1>6, <1>7, <1>8, <1>9 DEF ST!Next

(* The instance of the part has its own name for it.                       *)
LEMMA SameCardinality == \A S : ST!Cardinality(S) = Cardinality(S)
BY DEF ST!Cardinality, Cardinality, ST!IsFiniteSet, IsFiniteSet

LEMMA AtMostOne ==
    ASSUME NEW s, OneReconnects(s)
    PROVE  Cardinality(ST!Reconnecting(s)) <= 1
<1> DEFINE R == ST!Reconnecting(s)
<1>1. CASE R = {}
  BY <1>1, FS_EmptySet
<1>2. ASSUME NEW k \in R  PROVE R = {k}
  BY <1>2 DEF OneReconnects, ST!Reconnecting
<1>3. ASSUME NEW k \in R  PROVE Cardinality(R) = 1
  BY <1>3, <1>2, FS_Singleton
<1>4. Cardinality(R) = 0 \/ Cardinality(R) = 1
  BY <1>1, <1>3, FS_EmptySet
<1>. QED  BY <1>4

(* store.Store and fsatomic.WriteFile: however saves fail and the          *)
(* application dies, the file is a whole state with at most one context to *)
(* reconnect, every launch can read it, and between operations it is what  *)
(* is in memory unless the last save failed.                               *)
THEOREM StoreSurvives == Spec => []StoreSound
<1> DEFINE Inv == model = "store" => StoreInv
<1>1. Init => Inv
  BY FreshState DEF Init, ST!Init, StoreInv, ST!TypeOK
<1>2. Inv /\ [Next]_vars => Inv'
  <2> SUFFICES ASSUME Inv, [Next]_vars, model' = "store"  PROVE StoreInv'
    OBVIOUS
  <2>1. StoreInv /\ [ST!Next]_stVars
    BY OneRuns
  <2>2. CASE UNCHANGED stVars
    BY <2>1, <2>2 DEF stVars, StoreInv, ST!TypeOK, Readable, OneReconnects
  <2>. QED  BY <2>1, <2>2, StoreStepKeeps
<1>3. StoreInv => ST!StoreSound
  <2> SUFFICES ASSUME StoreInv  PROVE ST!StoreSound
    OBVIOUS
  <2>1. Cardinality(ST!Reconnecting(state)) <= 1 /\ Cardinality(ST!Reconnecting(stateFile)) <= 1
    BY AtMostOne DEF StoreInv
  <2>. QED  BY <2>1, SameCardinality DEF StoreInv, ST!StoreSound
<1>4. Inv => StoreSound
  BY <1>3 DEF StoreInv, StoreSound
<1>. QED  BY <1>1, <1>2, <1>4, PTL DEF Spec

-----------------------------------------------------------------------------
(* The preview binding.  A desktop that has made the Service has the name  *)
(* until its own delete, unless somebody else deletes it.                  *)
Made == {"slice", "replace", "again", "undo", "held", "unslice", "unname"}

MakersHaveTheName ==
    \A d \in PreviewDesktops : (pv[d] \in Made /\ d \notin gone) => named = d
HeldHasEndpoints ==
    gone = {} => \A d \in PreviewDesktops : pv[d] = "held" => endpoints = d
AbandonedIsLeft ==
    \A d \in PreviewDesktops :
        (named = d /\ pv[d] \in {"idle", "service"}) => d \in leftBehind

PreviewInv == PV!TypeOK /\ MakersHaveTheName /\ HeldHasEndpoints /\ AbandonedIsLeft

LEMMA PreviewStepKeeps ==
    ASSUME PreviewInv, PV!Next
    PROVE  PreviewInv'
<1> USE NamesAreNames DEF PreviewInv, PV!TypeOK, PV!Steps, MakersHaveTheName, Made,
        HeldHasEndpoints, AbandonedIsLeft, PV!To, PV!None, PV!Other
<1>1. ASSUME NEW d \in PreviewDesktops, PV!Start(d) \/ PV!Release(d)
      PROVE  PreviewInv'
  BY <1>1 DEF PV!Start, PV!Release
<1>2. ASSUME NEW d \in PreviewDesktops, PV!CreateService(d)
      PROVE  PreviewInv'
  BY <1>2 DEF PV!CreateService, PV!Outcomes, PV!TakesEffect
<1>3. ASSUME NEW d \in PreviewDesktops,
             PV!CreateSlice(d) \/ PV!ReplaceSlice(d) \/ PV!DeleteSlice(d)
      PROVE  PreviewInv'
  BY <1>3 DEF PV!CreateSlice, PV!ReplaceSlice, PV!DeleteSlice, PV!Outcomes, PV!TakesEffect
<1>4. ASSUME NEW d \in PreviewDesktops, PV!UndoService(d)
      PROVE  PreviewInv'
  BY <1>4 DEF PV!UndoService, PV!Deleted, PV!Robbed, PV!Outcomes, PV!TakesEffect
<1>5. ASSUME NEW d \in PreviewDesktops, PV!DeleteService(d)
      PROVE  PreviewInv'
  BY <1>5 DEF PV!DeleteService, PV!Deleted, PV!Robbed, PV!Outcomes, PV!TakesEffect
<1>6. ASSUME NEW d \in PreviewDesktops, PV!Die(d)
      PROVE  PreviewInv'
  BY <1>6 DEF PV!Die
<1>7. CASE PV!OtherMakes \/ PV!OtherDeletes
  BY <1>7 DEF PV!OtherMakes, PV!OtherDeletes
<1>. QED  BY <1>1, <1>2, <1>3, <1>4, <1>5, <1>6, <1>7 DEF PV!Next

(* createPreviewService and deletePreviewService: a preview that is shown  *)
(* as running has its Service and the endpoints of its own Gateway,        *)
(* whatever any number of other desktops try under the name and however    *)
(* calls fail; and a Service is left behind only by a death or by a delete *)
(* that failed.                                                            *)
THEOREM PreviewsKeepTheirService == Spec => []PreviewKept
<1> DEFINE Inv == model = "preview" => PreviewInv
<1>1. Init => Inv
  BY NamesAreNames DEF Init, PV!Init, PV!None, PV!Other, PreviewInv, PV!TypeOK, PV!Steps,
     MakersHaveTheName, Made, HeldHasEndpoints, AbandonedIsLeft
<1>2. Inv /\ [Next]_vars => Inv'
  <2> SUFFICES ASSUME Inv, [Next]_vars, model' = "preview"  PROVE PreviewInv'
    OBVIOUS
  <2>1. PreviewInv /\ [PV!Next]_pvVars
    BY OneRuns
  <2>2. CASE UNCHANGED pvVars
    BY <2>1, <2>2 DEF pvVars, PreviewInv, PV!TypeOK, MakersHaveTheName, HeldHasEndpoints,
       AbandonedIsLeft
  <2>. QED  BY <2>1, <2>2, PreviewStepKeeps
<1>3. Inv => PreviewKept
  BY DEF PreviewInv, MakersHaveTheName, Made, HeldHasEndpoints, AbandonedIsLeft, PreviewKept,
     PV!PreviewKept
<1>. QED  BY <1>1, <1>2, <1>3, PTL DEF Spec

-----------------------------------------------------------------------------
(* The installation of the helper.  From the snapshot to the end of the    *)
(* rollback, every file that has not been put back yet has a copy of what  *)
(* the installer found, and existed tells the files it found from the ones *)
(* it makes.                                                               *)
Before(n) == CASE n = "binary" -> {} [] n = "auth" -> {"binary"} [] OTHER -> {"binary", "auth"}
Found(n) == n \in existed <=> began[n] # IS!Nothing
Saved(n) == backup[n] = began[n] /\ Found(n)

(* The binary is replaced by a rename and is never torn.                   *)
BinaryWhole == \A f \in {file, backup, began} : f["binary"] # IS!Torn

Placed == pc.step \notin {"idle", "locate", "place"} => source = IS!New

(* What the installer has replaced when it is at a step.                   *)
Replaced ==
    /\ pc.step \in {"writeAuth", "fillAuth", "writeToken", "fillToken", "enable", "wait"} =>
         file["binary"] = IS!New
    /\ pc.step \in {"writeToken", "fillToken", "enable", "wait"} => file["auth"] = IS!New
    /\ pc.step \in {"enable", "wait"} => file["token"] = IS!New

CopiesTaken ==
    /\ pc.step = "snap" =>
         /\ file = began /\ ~errs
         /\ \A n \in IS!Files : IF n \in Before(pc.file) THEN Saved(n) ELSE n \notin existed
    /\ pc.step \in {"prepare", "copy", "writeAuth", "fillAuth", "writeToken", "fillToken",
                    "enable", "wait", "stop"} => ~errs /\ \A n \in IS!Files : Saved(n)
    /\ (pc.step = "restore" /\ ~errs) =>
         \A n \in IS!Files : IF n \in Before(pc.file) THEN file[n] = began[n] /\ Found(n)
                             ELSE Saved(n)
    /\ (pc.step = "service" /\ ~errs) => file = began /\ \A n \in IS!Files : Found(n)

InstallInv ==
    IS!TypeOK /\ BinaryWhole /\ Placed /\ Replaced /\ CopiesTaken /\ IS!AllOrNothing

LEMMA InstallStepKeeps ==
    ASSUME InstallInv, IS!Next
    PROVE  InstallInv'
<1> USE DEF IS!Files, IS!Nothing, IS!Old, IS!New, IS!Torn, IS!At, IS!Steps, InstallInv,
        IS!TypeOK, BinaryWhole, Placed, Replaced, CopiesTaken, Saved, Found, Before,
        IS!AllOrNothing
<1>1. CASE IS!EnsureInstall
  BY <1>1 DEF IS!EnsureInstall
<1>2. CASE IS!Locate \/ IS!Place
  BY <1>2 DEF IS!Locate, IS!Place
<1>3. CASE IS!AlreadyInstalled \/ IS!Kill
  BY <1>3 DEF IS!AlreadyInstalled, IS!Kill
<1>4. CASE IS!Begin
  BY <1>4 DEF IS!Begin
<1>5. CASE IS!Prepare
  BY <1>5 DEF IS!Prepare
<1>6. CASE IS!CopyFile
  BY <1>6 DEF IS!CopyFile
<1>7. CASE IS!WriteSystemAuth
  BY <1>7 DEF IS!WriteSystemAuth
<1>8. CASE IS!EnableService
  BY <1>8 DEF IS!EnableService
<1>9. CASE IS!WaitReady
  BY <1>9 DEF IS!WaitReady, IS!Ready, IS!Empty
<1>10. CASE IS!StepFails
  BY <1>10 DEF IS!StepFails
<1>11. CASE IS!StopAgain
  BY <1>11 DEF IS!StopAgain
<1>12. CASE IS!RestoreService
  BY <1>12 DEF IS!RestoreService, IS!Started, IS!Empty
<1>13. CASE IS!Reboot
  BY <1>13 DEF IS!Reboot, IS!Started, IS!Ready
<1>14. CASE IS!UninstallFromCLI
  BY <1>14 DEF IS!UninstallFromCLI, IS!Empty
<1>15. ASSUME NEW n \in IS!Files, IS!Snapshot(n)
      PROVE  InstallInv'
  BY <1>15 DEF IS!Snapshot, IS!After
<1>16. ASSUME NEW n \in IS!Files, IS!SnapshotFails(n)
      PROVE  InstallInv'
  BY <1>16 DEF IS!SnapshotFails
<1>17. ASSUME NEW n \in IS!Files, IS!Restore(n)
      PROVE  InstallInv'
  BY <1>17 DEF IS!Restore, IS!PutBack, IS!RollbackError, IS!After
<1>. QED
  BY <1>1, <1>2, <1>3, <1>4, <1>5, <1>6, <1>7, <1>8, <1>9, <1>10, <1>11, <1>12, <1>13, <1>14, <1>15, <1>16, <1>17 DEF IS!Next

(* EnsureInstall: an installation that succeeds has replaced every file    *)
(* and its helper answers with the new version; one that was undone put    *)
(* back what it found, also over what earlier attempts that were killed    *)
(* half-way had left, and the helper that could run before runs again.     *)
THEOREM InstallsAllOrNothing == Spec => []AllOrNothing
<1> DEFINE Inv == model = "install" => InstallInv
<1>1. Init => Inv
  <2> SUFFICES ASSUME Init  PROVE InstallInv
    OBVIOUS
  <2> USE DEF Init, IS!Init, IS!Files, IS!Nothing, IS!Old, IS!New, IS!Torn, IS!Empty, IS!At
  <2>1. IS!TypeOK
    BY DEF IS!TypeOK, IS!Steps
  <2>2. BinaryWhole /\ Placed /\ Replaced /\ CopiesTaken /\ IS!AllOrNothing
    BY DEF BinaryWhole, Placed, Replaced, CopiesTaken, IS!AllOrNothing
  <2>. QED  BY <2>1, <2>2 DEF InstallInv
<1>2. Inv /\ [Next]_vars => Inv'
  <2> SUFFICES ASSUME Inv, [Next]_vars, model' = "install"  PROVE InstallInv'
    OBVIOUS
  <2>1. InstallInv /\ [IS!Next]_isVars
    BY OneRuns
  <2>2. CASE UNCHANGED isVars
    BY <2>1, <2>2 DEF isVars, InstallInv, IS!TypeOK, BinaryWhole, Placed, Replaced, CopiesTaken,
       Saved, Found, IS!AllOrNothing, IS!Ready
  <2>. QED  BY <2>1, <2>2, InstallStepKeeps
<1>3. Inv => AllOrNothing
  BY DEF InstallInv, AllOrNothing
<1>. QED  BY <1>1, <1>2, <1>3, PTL DEF Spec

-----------------------------------------------------------------------------
(* The MCP server.  A call of the user works on a copy of the settings,    *)
(* gives it to the store and to the server, and only then to the listener. *)
Tokenless(c) == c.tokenEnabled /\ c.token = MP!NoToken
WithEnabled(c, b) == [c EXCEPT !.enabled = b]
OpSteps == {"idle", "persist", "configure", "apply", "set", "stop", "restop", "restore",
            "start", "write"}
OpType == [kind : MP!Kinds \cup {"none"}, pc : OpSteps, cfg : MP!Configs, enabled : BOOLEAN]
OpAt(step) == [op EXCEPT !.pc = step]
Call(what, c) == [MP!Idle(c) EXCEPT !.kind = what, !.pc = "persist"]

McpType ==
    /\ MP!TypeOK
    /\ op \in OpType /\ tokens \in 0..McpTokens /\ servers \in 0..McpServers
    /\ unsaved \in BOOLEAN /\ leaked \in BOOLEAN

(* Authentication is never switched on without a token.                    *)
TokensExist == \A c \in {cfg, mem, stored, op.cfg} : ~Tokenless(c)

(* The copy of a call that does not change the token has the token of the  *)
(* settings, and the settings have the copy from Configure on.             *)
CopyAgrees ==
    /\ (op.pc \in {"persist", "configure"} /\ op.kind \notin {"tokenEnabled", "token"}) =>
         MP!Verifier(op.cfg) = MP!Verifier(cfg)
    /\ op.pc = "set" => op.cfg = cfg
    /\ op.pc = "start" => cfg.enabled
    /\ op.pc = "stop" => ~cfg.enabled

(* Only the listener of the server is up; what it asks for may be an older *)
(* token only until the call that changed the token has stopped it.        *)
ListenersKnown ==
    /\ \A s \in up : s # MP!NoServer
    /\ ~leaked => up \subseteq {lsn}
TokenAsked ==
    (~leaked /\ ~(op.kind \in {"tokenEnabled", "token"} /\ op.pc \in {"set", "restop"})) =>
        \A s \in up : s.token = MP!Verifier(cfg)

(* Where the settings are, step by step, after a save that worked.         *)
SettingsStored ==
    /\ op.pc = "configure" => ~unsaved /\ stored = op.cfg
    /\ op.pc = "restop" => op.enabled = cfg.enabled
    /\ ~unsaved => mem = stored
    /\ (~unsaved /\ op.pc = "restore") => stored = WithEnabled(cfg, op.enabled)
    /\ (~unsaved /\ op.pc \notin {"configure", "restore"}) => stored = cfg

McpInv == McpType /\ TokensExist /\ CopyAgrees /\ ListenersKnown /\ TokenAsked /\ SettingsStored

LEMMA DefaultConfig == MP!Default \in MP!Configs /\ ~Tokenless(MP!Default)
<1>1. \E p \in McpPorts : \A q \in McpPorts : p <= q
  BY McpNumbers
<1>2. (CHOOSE p \in McpPorts : \A q \in McpPorts : p <= q) \in McpPorts
  BY <1>1
<1>3. MP!NoToken \in 0..McpTokens
  BY McpNumbers DEF MP!NoToken
<1>. QED  BY <1>2, <1>3 DEF MP!Default, MP!Configs, Tokenless

(* Switching the server on or off changes nothing else of its settings.    *)
LEMMA EnabledFields ==
    ASSUME NEW c \in MP!Configs, NEW b \in BOOLEAN
    PROVE  /\ WithEnabled(c, b) \in MP!Configs /\ WithEnabled(c, b).enabled = b
           /\ MP!Verifier(WithEnabled(c, b)) = MP!Verifier(c)
           /\ Tokenless(WithEnabled(c, b)) = Tokenless(c)
           /\ c.enabled = b => WithEnabled(c, b) = c
           /\ WithEnabled(WithEnabled(c, b), c.enabled) = c
           /\ c.enabled \in BOOLEAN /\ MP!Verifier(c) \in 0..McpTokens
           /\ c.port \in McpPorts
<1> USE DEF WithEnabled, MP!Configs
<1>1. WithEnabled(c, b) \in MP!Configs /\ WithEnabled(c, b).enabled = b
  OBVIOUS
<1>2. MP!Verifier(WithEnabled(c, b)) = MP!Verifier(c)
  BY DEF MP!Verifier
<1>3. Tokenless(WithEnabled(c, b)) = Tokenless(c)
  BY DEF Tokenless
<1>4. c.enabled = b => WithEnabled(c, b) = c
  OBVIOUS
<1>5. WithEnabled(WithEnabled(c, b), c.enabled) = c
  OBVIOUS
<1>6. c.enabled \in BOOLEAN /\ MP!Verifier(c) \in 0..McpTokens /\ c.port \in McpPorts
  BY McpNumbers DEF MP!Verifier, MP!NoToken
<1>. QED  BY <1>1, <1>2, <1>3, <1>4, <1>5, <1>6

LEMMA OpFields ==
    ASSUME op \in OpType, NEW step \in OpSteps
    PROVE  /\ OpAt(step) \in OpType /\ OpAt(step).pc = step /\ OpAt(step).kind = op.kind
           /\ OpAt(step).cfg = op.cfg /\ OpAt(step).enabled = op.enabled
           /\ op.pc \in OpSteps /\ op.kind \in MP!Kinds \cup {"none"}
           /\ op.cfg \in MP!Configs /\ op.enabled \in BOOLEAN
BY DEF OpAt, OpType

LEMMA CallFields ==
    ASSUME NEW what \in MP!Kinds, NEW c \in MP!Configs
    PROVE  /\ Call(what, c) \in OpType /\ Call(what, c).pc = "persist"
           /\ Call(what, c).kind = what /\ Call(what, c).cfg = c
BY DEF Call, MP!Idle, OpType, OpSteps

LEMMA IdleFields ==
    ASSUME NEW c \in MP!Configs
    PROVE  /\ MP!Idle(c) \in OpType /\ MP!Idle(c).pc = "idle" /\ MP!Idle(c).kind = "none"
           /\ MP!Idle(c).cfg = c
BY DEF MP!Idle, OpType, OpSteps

(* A call begins: its copy has a token if it needs one, and the token of   *)
(* the settings unless the call is about the token.                        *)
LEMMA BeginKeeps ==
    ASSUME McpInv, op.pc = "idle", NEW what \in MP!Kinds, NEW c \in MP!Configs, ~Tokenless(c),
           what \notin {"tokenEnabled", "token"} => MP!Verifier(c) = MP!Verifier(cfg),
           tokens' \in 0..McpTokens, MP!Begin(what, c)
    PROVE  McpInv'
<1>1. op' = Call(what, c) /\ UNCHANGED <<cfg, mem, stored, unsaved, lsn, up, failed, client, servers, leaked>>
  BY DEF MP!Begin, Call
<1>2. op' \in OpType /\ op'.pc = "persist" /\ op'.kind = what /\ op'.cfg = c
  BY <1>1, CallFields
<1>3. McpType'
  BY <1>1, <1>2 DEF McpInv, McpType, MP!TypeOK
<1>. QED
  BY <1>1, <1>2, <1>3 DEF McpInv, TokensExist, CopyAgrees, ListenersKnown, TokenAsked, SettingsStored

LEMMA SetsKeep ==
    ASSUME McpInv,
           \/ \E b \in BOOLEAN : MP!SetEnabled(b) \/ MP!SetTokenEnabled(b)
           \/ \E p \in McpPorts : MP!SetPort(p)
           \/ MP!RegenerateToken
    PROVE  McpInv'
<1>0. cfg \in MP!Configs /\ ~Tokenless(cfg) /\ tokens \in 0..McpTokens
  BY DEF McpInv, McpType, MP!TypeOK, TokensExist
<1>1. ASSUME NEW b \in BOOLEAN, MP!SetEnabled(b)  PROVE McpInv'
  <2> DEFINE c == WithEnabled(cfg, b)
  <2>1. c \in MP!Configs /\ ~Tokenless(c) /\ MP!Verifier(c) = MP!Verifier(cfg)
    BY <1>0, EnabledFields
  <2>2. op.pc = "idle" /\ MP!Begin("enabled", c) /\ tokens' = tokens
    BY <1>1, <2>1 DEF MP!SetEnabled, MP!Called, MP!Ensured, MP!NeedsToken, MP!EnsureToken,
       Tokenless, WithEnabled
  <2>. QED  BY <1>0, <2>1, <2>2, BeginKeeps DEF MP!Kinds
<1>2. ASSUME NEW b \in BOOLEAN, MP!SetTokenEnabled(b)  PROVE McpInv'
  <2> DEFINE d == [cfg EXCEPT !.tokenEnabled = b]
             e == [d EXCEPT !.token = tokens + 1]
  <2>1. d \in MP!Configs
    BY <1>0 DEF MP!Configs
  <2> HIDE DEF d
  <2>2. ASSUME tokens < McpTokens  PROVE e \in MP!Configs /\ ~Tokenless(e)
    <3>1. tokens + 1 \in 0..McpTokens /\ tokens + 1 # 0
      BY <1>0, <2>2, McpNumbers
    <3>. QED  BY <2>1, <3>1 DEF MP!Configs, Tokenless, MP!NoToken
  <2>3. op.pc = "idle" /\ MP!Ensured("tokenEnabled", d)
    BY <1>2 DEF MP!SetTokenEnabled, MP!Called, d
  <2> HIDE DEF e
  <2>4. CASE Tokenless(d)
    <3>1. tokens < McpTokens /\ tokens' = tokens + 1 /\ MP!Begin("tokenEnabled", e)
      BY <2>3, <2>4 DEF MP!Ensured, MP!NeedsToken, MP!EnsureToken, Tokenless, e
    <3>2. tokens' \in 0..McpTokens
      BY <1>0, <3>1, McpNumbers
    <3>. QED  BY <2>2, <2>3, <3>1, <3>2, BeginKeeps DEF MP!Kinds
  <2>5. CASE ~Tokenless(d)
    <3>1. tokens' = tokens /\ MP!Begin("tokenEnabled", d)
      BY <2>3, <2>5 DEF MP!Ensured, MP!NeedsToken, MP!EnsureToken, Tokenless
    <3>. QED  BY <1>0, <2>1, <2>3, <2>5, <3>1, BeginKeeps DEF MP!Kinds
  <2>. QED  BY <2>4, <2>5
<1>3. ASSUME NEW p \in McpPorts, MP!SetPort(p)  PROVE McpInv'
  <2> DEFINE c == [cfg EXCEPT !.port = p]
  <2>1. c \in MP!Configs /\ ~Tokenless(c) /\ MP!Verifier(c) = MP!Verifier(cfg)
    BY <1>0 DEF MP!Configs, Tokenless, MP!Verifier
  <2>2. op.pc = "idle" /\ MP!Begin("port", c) /\ tokens' = tokens
    BY <1>3 DEF MP!SetPort, MP!Called
  <2>. QED  BY <1>0, <2>1, <2>2, BeginKeeps DEF MP!Kinds
<1>4. CASE MP!RegenerateToken
  <2> DEFINE c == [cfg EXCEPT !.token = tokens + 1]
  <2>1. op.pc = "idle" /\ tokens < McpTokens /\ tokens' = tokens + 1 /\ MP!Begin("token", c)
    BY <1>4 DEF MP!RegenerateToken, MP!Called
  <2>2. tokens' \in 0..McpTokens /\ tokens + 1 \in 0..McpTokens /\ tokens + 1 # 0
    BY <1>0, <2>1, McpNumbers
  <2>3. c \in MP!Configs /\ ~Tokenless(c)
    BY <1>0, <2>2 DEF MP!Configs, Tokenless, MP!NoToken
  <2>. QED  BY <2>1, <2>2, <2>3, BeginKeeps DEF MP!Kinds
<1>. QED  BY <1>1, <1>2, <1>3, <1>4

LEMMA InstallClientKeeps ==
    ASSUME McpInv, MP!InstallClient
    PROVE  McpInv'
<1>0. cfg \in MP!Configs /\ ~Tokenless(cfg) /\ tokens \in 0..McpTokens
  BY DEF McpInv, McpType, MP!TypeOK, TokensExist
<1>1. CASE cfg.enabled /\ lsn # MP!NoServer
  <2> DEFINE o == [MP!Idle(MP!Default) EXCEPT !.kind = "install", !.pc = "write"]
  <2>1. o \in OpType /\ o.kind = "install" /\ o.pc = "write" /\ o.cfg = MP!Default
    BY DefaultConfig DEF MP!Idle, OpType, OpSteps, MP!Kinds
  <2>2. op' = o /\ op.pc = "idle"
        /\ UNCHANGED <<cfg, mem, stored, unsaved, lsn, up, failed, client, tokens, servers, leaked>>
    BY <1>1 DEF MP!InstallClient, MP!Called
  <2> HIDE DEF o
  <2>3. McpType'
    BY <2>1, <2>2, DefaultConfig DEF McpInv, McpType, MP!TypeOK, MP!Kinds
  <2>. QED
    BY <2>1, <2>2, <2>3, DefaultConfig
       DEF McpInv, TokensExist, CopyAgrees, ListenersKnown, TokenAsked, SettingsStored
<1>2. CASE ~(cfg.enabled /\ lsn # MP!NoServer)
  <2> DEFINE c == WithEnabled(cfg, TRUE)
  <2>1. c \in MP!Configs /\ ~Tokenless(c) /\ MP!Verifier(c) = MP!Verifier(cfg)
    BY <1>0, EnabledFields
  <2>2. op.pc = "idle" /\ MP!Begin("install", c) /\ tokens' = tokens
    BY <1>2, <2>1 DEF MP!InstallClient, MP!Called, MP!Ensured, MP!NeedsToken, MP!EnsureToken,
       Tokenless, WithEnabled
  <2>. QED  BY <1>0, <2>1, <2>2, BeginKeeps DEF MP!Kinds
<1>. QED  BY <1>1, <1>2

LEMMA PersistKeeps ==
    ASSUME McpInv, MP!Persist \/ MP!OtherSave \/ MP!Configure \/ MP!Apply
    PROVE  McpInv'
<1> DEFINE Idle == MP!Idle(MP!Default)
<1>0. op \in OpType /\ op.cfg \in MP!Configs /\ cfg \in MP!Configs /\ cfg.enabled \in BOOLEAN
  BY OpFields, EnabledFields DEF McpInv, McpType, MP!TypeOK, OpSteps
<1>i. Idle \in OpType /\ Idle.pc = "idle" /\ Idle.kind = "none" /\ Idle.cfg \in MP!Configs
      /\ ~Tokenless(Idle.cfg)
  BY IdleFields, DefaultConfig
<1> HIDE DEF Idle
<1>1. CASE MP!Persist /\ op' = Idle
  <2>1. mem' = op.cfg /\ unsaved' = TRUE /\ stored' = stored
    <3>1. OpAt("configure") # Idle
      BY <1>0, <1>i, OpFields DEF OpSteps
    <3>. QED  BY <1>1, <3>1 DEF MP!Persist, MP!To, OpAt
  <2>2. UNCHANGED <<cfg, lsn, up, failed, client, tokens, servers, leaked>>
    BY <1>1 DEF MP!Persist
  <2>3. McpType'
    BY <1>0, <1>1, <1>i, <2>1, <2>2 DEF McpInv, McpType, MP!TypeOK
  <2>. QED
    BY <1>0, <1>1, <1>i, <2>1, <2>2, <2>3
       DEF McpInv, MP!Persist, TokensExist, CopyAgrees, ListenersKnown, TokenAsked, SettingsStored
<1>2. CASE MP!Persist /\ op' # Idle
  <2>1. /\ op.pc = "persist" /\ mem' = op.cfg /\ stored' = op.cfg /\ unsaved' = FALSE
        /\ op' = OpAt("configure") /\ UNCHANGED <<cfg, lsn, up, failed, client, tokens, servers, leaked>>
    BY <1>2 DEF MP!Persist, MP!Done, MP!To, OpAt, Idle
  <2>2. op' \in OpType /\ op'.pc = "configure" /\ op'.kind = op.kind /\ op'.cfg = op.cfg
        /\ op.kind \in MP!Kinds \cup {"none"}
    BY <1>0, <2>1, OpFields DEF OpSteps
  <2>3. McpType'
    BY <1>0, <2>1, <2>2 DEF McpInv, McpType, MP!TypeOK
  <2>. QED
    BY <1>0, <2>1, <2>2, <2>3
       DEF McpInv, TokensExist, CopyAgrees, ListenersKnown, TokenAsked, SettingsStored
<1>3. CASE MP!OtherSave
  <2>1. McpType'
    BY <1>3 DEF MP!OtherSave, McpInv, McpType, MP!TypeOK
  <2>. QED
    BY <1>3, <2>1 DEF MP!OtherSave, McpInv, TokensExist, CopyAgrees, ListenersKnown, TokenAsked,
       SettingsStored
<1>4. CASE MP!Configure
  <2>1. PICK step \in {"apply", "set"} :
          /\ op' = OpAt(step) /\ (step = "set" <=> op.kind \notin {"enabled", "install", "boot"})
    BY <1>4 DEF MP!Configure, MP!To, OpAt
  <2>2. op' \in OpType /\ op'.pc = step /\ op'.kind = op.kind /\ op'.cfg = op.cfg
        /\ op.kind \in MP!Kinds \cup {"none"}
    BY <1>0, <2>1, OpFields DEF OpSteps
  <2>3. op.pc = "configure" /\ cfg' = op.cfg
        /\ UNCHANGED <<mem, stored, unsaved, lsn, up, failed, client, tokens, servers, leaked>>
    BY <1>4 DEF MP!Configure
  <2>4. McpType'
    BY <1>0, <2>2, <2>3 DEF McpInv, McpType, MP!TypeOK
  <2>5. TokenAsked'
    BY <2>1, <2>2, <2>3 DEF McpInv, TokenAsked, CopyAgrees, MP!Kinds
  <2>. QED
    BY <1>0, <2>1, <2>2, <2>3, <2>4, <2>5
       DEF McpInv, TokensExist, CopyAgrees, ListenersKnown, SettingsStored
<1>5. CASE MP!Apply
  <2>1. PICK step \in {"start", "stop"} : op' = OpAt(step) /\ (step = "start" <=> cfg.enabled)
    BY <1>0, <1>5 DEF MP!Apply, MP!To, OpAt
  <2>2. op' \in OpType /\ op'.pc = step /\ op'.kind = op.kind /\ op'.cfg = op.cfg
        /\ op.kind \in MP!Kinds \cup {"none"}
    BY <1>0, <2>1, OpFields DEF OpSteps
  <2>3. op.pc = "apply"
        /\ UNCHANGED <<cfg, mem, stored, unsaved, lsn, up, failed, client, tokens, servers, leaked>>
    BY <1>5 DEF MP!Apply
  <2>4. McpType'
    BY <1>0, <2>2, <2>3 DEF McpInv, McpType, MP!TypeOK
  <2>. QED
    BY <1>0, <2>1, <2>2, <2>3, <2>4
       DEF McpInv, TokensExist, CopyAgrees, ListenersKnown, TokenAsked, SettingsStored
<1>. QED  BY <1>1, <1>2, <1>3, <1>4, <1>5

LEMMA SetServerKeeps ==
    ASSUME McpInv, MP!SetServerPort \/ MP!SetServerToken
    PROVE  McpInv'
<1> DEFINE Idle == MP!Idle(MP!Default)
           Again == [op EXCEPT !.enabled = cfg.enabled, !.pc = "restop"]
<1>0. op \in OpType /\ cfg \in MP!Configs /\ cfg.enabled \in BOOLEAN /\ op.pc = "set" /\ op.cfg = cfg
  BY OpFields, EnabledFields
     DEF McpInv, McpType, MP!TypeOK, OpSteps, CopyAgrees, MP!SetServerPort, MP!SetServerToken
<1>i. Idle \in OpType /\ Idle.pc = "idle" /\ Idle.kind = "none" /\ Idle.cfg \in MP!Configs
      /\ ~Tokenless(Idle.cfg)
  BY IdleFields, DefaultConfig
<1>a. Again \in OpType /\ Again.pc = "restop" /\ Again.kind = op.kind /\ Again.cfg = op.cfg
      /\ Again.enabled = cfg.enabled
  BY <1>0 DEF OpType, OpSteps
<1>f. [cfg EXCEPT !.token = cfg.token] = cfg /\ [cfg EXCEPT !.tokenEnabled = cfg.tokenEnabled] = cfg
  BY <1>0 DEF MP!Configs
<1>c. cfg' = cfg
  BY <1>0, <1>f DEF MP!SetServerPort, MP!SetServerToken
<1>u. UNCHANGED <<mem, stored, unsaved, lsn, up, failed, client, tokens, servers, leaked>>
  BY DEF MP!SetServerPort, MP!SetServerToken
<1> HIDE DEF Idle, Again
<1>1. ASSUME op' = Idle, ~leaked /\ op.kind \in {"tokenEnabled", "token"} => lsn = MP!NoServer
      PROVE  McpInv'
  <2>1. McpType'
    BY <1>1, <1>i, <1>c, <1>u DEF McpInv, McpType, MP!TypeOK
  <2>2. TokenAsked'
    BY <1>0, <1>1, <1>i, <1>c, <1>u DEF McpInv, TokenAsked, ListenersKnown
  <2>. QED
    BY <1>0, <1>1, <1>i, <1>c, <1>u, <2>1, <2>2
       DEF McpInv, TokensExist, CopyAgrees, ListenersKnown, SettingsStored
<1>2. CASE MP!SetServerPort
  BY <1>0, <1>1, <1>2 DEF MP!SetServerPort, MP!Done, Idle
<1>3. CASE MP!SetServerToken /\ lsn = MP!NoServer
  BY <1>1, <1>3 DEF MP!SetServerToken, MP!Done, Idle
<1>4. CASE MP!SetServerToken /\ lsn # MP!NoServer
  <2>1. op' = Again /\ op.kind \in {"tokenEnabled", "token"}
    BY <1>4 DEF MP!SetServerToken, Again
  <2>2. McpType'
    BY <1>0, <1>a, <1>c, <1>u, <2>1 DEF McpInv, McpType, MP!TypeOK
  <2>. QED
    BY <1>0, <1>a, <1>c, <1>u, <2>1, <2>2
       DEF McpInv, TokensExist, CopyAgrees, ListenersKnown, TokenAsked, SettingsStored
<1>. QED  BY <1>2, <1>3, <1>4

LEMMA NoServerType == MP!NoServer \in MP!Servers
BY McpNumbers DEF MP!NoServer, MP!Servers, MP!NoToken

(* The listener is closed: none is up any more, unless one was hidden.     *)
LEMMA StopKeeps ==
    ASSUME McpInv, MP!Stop
    PROVE  McpInv'
<1> DEFINE Idle == MP!Idle(MP!Default)
<1>0. op \in OpType /\ cfg \in MP!Configs /\ op.pc \in {"stop", "restop"}
  BY DEF McpInv, McpType, MP!TypeOK, MP!Stop
<1>i. Idle \in OpType /\ Idle.pc = "idle" /\ Idle.kind = "none" /\ Idle.cfg \in MP!Configs
      /\ ~Tokenless(Idle.cfg)
  BY IdleFields, DefaultConfig
<1>1. /\ cfg' = WithEnabled(cfg, FALSE) /\ lsn' = MP!NoServer /\ up' = up \ {lsn}
      /\ failed' = failed /\ UNCHANGED <<mem, stored, unsaved, client, tokens, servers, leaked>>
  BY DEF MP!Stop, MP!Closed, WithEnabled
<1>2. cfg' \in MP!Configs /\ ~Tokenless(cfg') /\ cfg'.enabled = FALSE
      /\ (op.pc = "stop" => cfg' = cfg) /\ WithEnabled(cfg', cfg.enabled) = cfg
  BY <1>0, <1>1, EnabledFields DEF McpInv, TokensExist, CopyAgrees
<1>3. ~leaked' => up' = {}
  BY <1>1 DEF McpInv, ListenersKnown
<1>4. ListenersKnown' /\ TokenAsked'
  BY <1>1, <1>3 DEF McpInv, ListenersKnown, TokenAsked
<1> HIDE DEF Idle
<1>5. CASE op.pc = "stop"
  <2>1. op' = Idle
    BY <1>5 DEF MP!Stop, MP!Done, Idle
  <2>2. McpType'
    BY <1>i, <1>1, <1>2, <2>1, NoServerType DEF McpInv, McpType, MP!TypeOK
  <2>. QED
    BY <1>i, <1>1, <1>2, <1>4, <1>5, <2>1, <2>2 DEF McpInv, TokensExist, CopyAgrees, SettingsStored
<1>6. CASE op.pc = "restop"
  <2>1. op' = OpAt("restore")
    BY <1>6 DEF MP!Stop, MP!To, OpAt
  <2>2. op' \in OpType /\ op'.pc = "restore" /\ op'.kind = op.kind /\ op'.cfg = op.cfg
        /\ op'.enabled = op.enabled /\ op.kind \in MP!Kinds \cup {"none"} /\ op.cfg \in MP!Configs
    BY <1>0, <2>1, OpFields DEF OpSteps
  <2>3. McpType'
    BY <1>1, <1>2, <2>2, NoServerType DEF McpInv, McpType, MP!TypeOK
  <2>. QED
    BY <1>1, <1>2, <1>4, <1>6, <2>2, <2>3 DEF McpInv, TokensExist, CopyAgrees, SettingsStored
<1>. QED  BY <1>0, <1>5, <1>6

LEMMA RestoreKeeps ==
    ASSUME McpInv, MP!Restore
    PROVE  McpInv'
<1> DEFINE Idle == MP!Idle(MP!Default)
<1>0. op \in OpType /\ cfg \in MP!Configs /\ op.pc = "restore" /\ op.enabled \in BOOLEAN
  BY OpFields DEF McpInv, McpType, MP!TypeOK, MP!Restore, OpSteps
<1>i. Idle \in OpType /\ Idle.pc = "idle" /\ Idle.kind = "none" /\ Idle.cfg \in MP!Configs
      /\ ~Tokenless(Idle.cfg)
  BY IdleFields, DefaultConfig
<1>1. /\ cfg' = WithEnabled(cfg, op.enabled)
      /\ UNCHANGED <<mem, stored, unsaved, lsn, up, failed, client, tokens, servers, leaked>>
  BY DEF MP!Restore, WithEnabled
<1>2. cfg' \in MP!Configs /\ ~Tokenless(cfg') /\ cfg'.enabled = op.enabled
      /\ MP!Verifier(cfg') = MP!Verifier(cfg)
  BY <1>0, <1>1, EnabledFields DEF McpInv, TokensExist
<1>4. ListenersKnown' /\ \A s \in up' : ~leaked' => s.token = MP!Verifier(cfg')
  BY <1>0, <1>1, <1>2 DEF McpInv, ListenersKnown, TokenAsked
<1> HIDE DEF Idle
<1>5. CASE ~op.enabled
  <2>1. op' = Idle
    BY <1>5 DEF MP!Restore, MP!Done, Idle
  <2>2. McpType'
    BY <1>i, <1>1, <1>2, <2>1 DEF McpInv, McpType, MP!TypeOK
  <2>3. TokenAsked'
    BY <1>4 DEF TokenAsked
  <2>. QED
    BY <1>0, <1>i, <1>1, <1>2, <1>4, <2>1, <2>2, <2>3 DEF McpInv, TokensExist, CopyAgrees, SettingsStored
<1>6. CASE op.enabled
  <2>1. op' = OpAt("start")
    BY <1>6 DEF MP!Restore, MP!To, OpAt
  <2>2. op' \in OpType /\ op'.pc = "start" /\ op'.kind = op.kind /\ op'.cfg = op.cfg
        /\ op.kind \in MP!Kinds \cup {"none"} /\ op.cfg \in MP!Configs
    BY <1>0, <2>1, OpFields DEF OpSteps
  <2>3. McpType'
    BY <1>1, <1>2, <2>2 DEF McpInv, McpType, MP!TypeOK
  <2>4. TokenAsked'
    BY <1>4 DEF TokenAsked
  <2>. QED
    BY <1>0, <1>1, <1>2, <1>4, <1>6, <2>2, <2>3, <2>4 DEF McpInv, TokensExist, CopyAgrees, SettingsStored
<1>. QED  BY <1>0, <1>5, <1>6

LEMMA StartKeeps ==
    ASSUME McpInv, MP!Start
    PROVE  McpInv'
<1> DEFINE Idle == MP!Idle(MP!Default)
<1>0. op \in OpType /\ cfg \in MP!Configs /\ op.pc = "start" /\ cfg.enabled
      /\ servers \in 0..McpServers /\ ~Tokenless(op.cfg)
  BY DEF McpInv, McpType, MP!TypeOK, MP!Start, CopyAgrees, TokensExist
<1>i. Idle \in OpType /\ Idle.pc = "idle" /\ Idle.kind = "none" /\ Idle.cfg \in MP!Configs
      /\ ~Tokenless(Idle.cfg)
  BY IdleFields, DefaultConfig
<1>w. OpAt("write") \in OpType /\ OpAt("write").pc = "write" /\ OpAt("write").kind = op.kind
      /\ OpAt("write").cfg = op.cfg /\ op.kind \in MP!Kinds \cup {"none"} /\ op.cfg \in MP!Configs
  BY <1>0, OpFields DEF OpSteps
<1> HIDE DEF Idle
<1>o. /\ op' \in OpType /\ op'.pc \in {"idle", "write"} /\ ~Tokenless(op'.cfg)
      /\ op'.kind \in MP!Kinds \cup {"none"} /\ op'.cfg \in MP!Configs
  <2>1. op' = Idle \/ op' = OpAt("write")
    BY DEF MP!Start, MP!After, MP!Done, MP!To, OpAt, Idle
  <2>. QED  BY <1>0, <1>i, <1>w, <2>1
<1>u. UNCHANGED <<mem, stored, unsaved, client, tokens, leaked>>
  BY DEF MP!Start
(* Whatever becomes of the listener, the settings are where they were.     *)
<1>r. ASSUME cfg' = cfg, lsn' \in MP!Servers, up' \subseteq MP!Servers, failed' = failed,
             servers' \in 0..McpServers, ListenersKnown', TokenAsked'
      PROVE  McpInv'
  <2>1. McpType'
    BY <1>r, <1>o, <1>u DEF McpInv, McpType, MP!TypeOK
  <2>. QED
    BY <1>0, <1>o, <1>r, <1>u, <2>1 DEF McpInv, TokensExist, CopyAgrees, SettingsStored
<1>t. lsn \in MP!Servers /\ up \subseteq MP!Servers /\ ListenersKnown
      /\ (~leaked => \A s \in up : s.token = MP!Verifier(cfg))
  BY <1>0 DEF McpInv, McpType, MP!TypeOK, TokenAsked
<1>1. CASE UNCHANGED <<cfg, lsn, up, failed, servers>>
  <2>1. ListenersKnown' /\ TokenAsked'
    BY <1>1, <1>u, <1>t DEF ListenersKnown, TokenAsked
  <2>. QED  BY <1>0, <1>1, <1>r, <1>t, <2>1
<1>2. CASE cfg' = [cfg EXCEPT !.enabled = TRUE] /\ servers' = servers + 1 /\ servers < McpServers
           /\ UNCHANGED failed
           /\ LET s == [n |-> servers + 1, port |-> cfg.port, token |-> MP!Verifier(cfg)]
              IN lsn' = s /\ up' = (up \ {lsn}) \cup {s}
  <2> DEFINE s == [n |-> servers + 1, port |-> cfg.port, token |-> MP!Verifier(cfg)]
  <2>1. cfg' = cfg
    BY <1>0, <1>2, EnabledFields DEF WithEnabled
  <2>2. servers + 1 \in 0..McpServers /\ servers + 1 # 0
    BY <1>0, <1>2, McpNumbers
  <2>3. MP!Verifier(cfg) \in 0..McpTokens /\ cfg.port \in McpPorts
    BY <1>0, EnabledFields
  <2>4. s \in MP!Servers /\ s # MP!NoServer /\ s.token = MP!Verifier(cfg)
    BY <2>2, <2>3 DEF MP!Servers, MP!NoServer
  <2>5. lsn' = s /\ up' = (up \ {lsn}) \cup {s}
    BY <1>2
  <2> HIDE DEF s
  <2>6. ~leaked' => up' = {s}
    BY <1>t, <1>u, <2>5 DEF ListenersKnown
  <2>7. ListenersKnown' /\ TokenAsked'
    BY <1>t, <2>1, <2>4, <2>5, <2>6 DEF ListenersKnown, TokenAsked
  <2>. QED  BY <1>2, <1>r, <1>t, <2>1, <2>2, <2>4, <2>5, <2>7
<1>3. CASE MP!Closed /\ UNCHANGED <<cfg, servers>>
  <2>1. ~leaked' => up' = {}
    BY <1>3, <1>t, <1>u DEF MP!Closed, ListenersKnown
  <2>2. ListenersKnown' /\ TokenAsked'
    BY <1>3, <1>t, <2>1 DEF MP!Closed, ListenersKnown, TokenAsked
  <2>. QED  BY <1>0, <1>3, <1>r, <1>t, <2>2, NoServerType DEF MP!Closed
<1>. QED  BY <1>1, <1>2, <1>3 DEF MP!Start

LEMMA WriteClientKeeps ==
    ASSUME McpInv, MP!WriteClient
    PROVE  McpInv'
<1> DEFINE Idle == MP!Idle(MP!Default)
<1>i. Idle \in OpType /\ Idle.pc = "idle" /\ Idle.kind = "none" /\ Idle.cfg \in MP!Configs
      /\ ~Tokenless(Idle.cfg)
  BY IdleFields, DefaultConfig
<1> HIDE DEF Idle
<1>1. op' = Idle /\ op.pc = "write" /\ client' = [port |-> cfg.port, token |-> MP!Verifier(cfg)]
      /\ UNCHANGED <<cfg, mem, stored, unsaved, lsn, up, failed, tokens, servers, leaked>>
  BY DEF MP!WriteClient, MP!Done, Idle
<1>2. MP!Verifier(cfg) \in 0..McpTokens /\ cfg.port \in McpPorts
  BY EnabledFields DEF McpInv, McpType, MP!TypeOK
<1>3. client' \in [port : McpPorts \cup {0}, token : 0..McpTokens]
  BY <1>1, <1>2
<1>4. McpType'
  BY <1>i, <1>1, <1>3 DEF McpInv, McpType, MP!TypeOK
<1>. QED
  BY <1>i, <1>1, <1>4 DEF McpInv, TokensExist, CopyAgrees, ListenersKnown, TokenAsked, SettingsStored

(* The goroutine of a listener fails, and reports it later.                *)
LEMMA ListenerFailsKeeps ==
    ASSUME McpInv, \/ \E s \in up : MP!ServeFails(s)
                   \/ \E s \in failed : MP!ReportFailure(s)
    PROVE  McpInv'
<1>1. CASE \E s \in up : MP!ServeFails(s)
  <2>1. PICK s \in up : MP!ServeFails(s)
    BY <1>1
  <2>2. McpType'
    BY <2>1 DEF MP!ServeFails, McpInv, McpType, MP!TypeOK
  <2>. QED
    BY <2>1, <2>2 DEF MP!ServeFails, McpInv, TokensExist, CopyAgrees, ListenersKnown, TokenAsked,
       SettingsStored
<1>2. CASE \E s \in failed : MP!ReportFailure(s)
  <2>1. PICK s \in failed : MP!ReportFailure(s)
    BY <1>2
  <2>2. McpType'
    BY <2>1, NoServerType DEF MP!ReportFailure, McpInv, McpType, MP!TypeOK
  <2>. QED
    BY <2>1, <2>2 DEF MP!ReportFailure, McpInv, McpType, TokensExist, CopyAgrees, ListenersKnown,
       TokenAsked, SettingsStored
<1>. QED  BY <1>1, <1>2

LEMMA RestartKeeps ==
    ASSUME McpInv, MP!Restart
    PROVE  McpInv'
<1>0. stored \in MP!Configs /\ ~Tokenless(stored)
  BY DEF McpInv, McpType, MP!TypeOK, TokensExist
<1>1. /\ cfg' = stored /\ mem' = stored /\ stored' = stored /\ unsaved' = FALSE
      /\ lsn' = MP!NoServer /\ up' = {} /\ failed' = {} /\ leaked' = FALSE
      /\ UNCHANGED <<client, tokens, servers>>
  BY DEF MP!Restart
<1>2. op' = Call("boot", stored) \/ op' = MP!Idle(MP!Default)
  BY DEF MP!Restart, Call
<1>3. /\ op' \in OpType /\ op'.pc \in {"idle", "persist"} /\ ~Tokenless(op'.cfg)
      /\ op'.cfg \in MP!Configs /\ op'.kind \in MP!Kinds \cup {"none"}
      /\ op'.pc = "persist" => op'.cfg = stored
  BY <1>0, <1>2, CallFields, IdleFields, DefaultConfig DEF MP!Kinds
<1>4. McpType'
  BY <1>0, <1>1, <1>3, NoServerType DEF McpInv, McpType, MP!TypeOK
<1>. QED
  BY <1>0, <1>1, <1>3, <1>4 DEF McpInv, TokensExist, CopyAgrees, ListenersKnown, TokenAsked,
     SettingsStored

(* mcp.Controller and mcp.Server: between calls of the user, however saves *)
(* and accept loops fail and whenever the application is restarted, the    *)
(* listener that is up is the one the server knows and asks for the token  *)
(* of the settings, and the settings are stored; unless the last save      *)
(* failed, or a late failure report hid a listener.                        *)
THEOREM McpSettingsHold == Spec => []SettingsHold
<1> DEFINE Inv == model = "mcp" => McpInv
<1>1. Init => Inv
  <2> SUFFICES ASSUME Init  PROVE McpInv
    OBVIOUS
  <2>1. /\ cfg = MP!Default /\ mem = MP!Default /\ stored = MP!Default /\ unsaved = FALSE
        /\ lsn = MP!NoServer /\ up = {} /\ failed = {} /\ op = MP!Idle(MP!Default)
        /\ client = [port |-> 0, token |-> MP!NoToken]
        /\ tokens = 0 /\ servers = 0 /\ leaked = FALSE
    BY DEF Init, MP!Init
  <2>2. op \in OpType /\ op.pc = "idle" /\ op.kind = "none" /\ op.cfg = MP!Default
    BY <2>1, IdleFields, DefaultConfig
  <2>3. client \in [port : McpPorts \cup {0}, token : 0..McpTokens]
    BY <2>1, McpNumbers DEF MP!NoToken
  <2>4. McpType
    <3>1. tokens \in 0..McpTokens /\ servers \in 0..McpServers
      BY <2>1, McpNumbers
    <3>2. MP!TypeOK
      BY <2>1, <2>2, <2>3, DefaultConfig, NoServerType DEF MP!TypeOK
    <3>. QED  BY <2>1, <2>2, <3>1, <3>2 DEF McpType
  <2>. QED
    BY <2>1, <2>2, <2>4, DefaultConfig DEF McpInv, TokensExist, CopyAgrees, ListenersKnown,
       TokenAsked, SettingsStored
<1>2. Inv /\ [Next]_vars => Inv'
  <2> SUFFICES ASSUME Inv, [Next]_vars, model' = "mcp"  PROVE McpInv'
    OBVIOUS
  <2>1. McpInv /\ [MP!Next]_mpVars
    BY OneRuns
  <2>2. CASE UNCHANGED mpVars
    <3>1. /\ UNCHANGED <<cfg, mem, stored, unsaved, lsn, up, failed>>
          /\ UNCHANGED <<op, client, tokens, servers, leaked>>
      BY <2>2 DEF mpVars
    <3>2. McpType'
      BY <2>1, <3>1 DEF McpInv, McpType, MP!TypeOK
    <3>3. (TokensExist /\ CopyAgrees)'
      BY <2>1, <3>1 DEF McpInv, TokensExist, CopyAgrees
    <3>4. (ListenersKnown /\ TokenAsked /\ SettingsStored)'
      BY <2>1, <3>1 DEF McpInv, ListenersKnown, TokenAsked, SettingsStored
    <3>. QED  BY <3>2, <3>3, <3>4 DEF McpInv
  <2>3. CASE MP!Next
    BY <2>1, <2>3, SetsKeep, InstallClientKeeps, PersistKeeps, SetServerKeeps, StopKeeps,
       RestoreKeeps, StartKeeps, WriteClientKeeps, ListenerFailsKeeps, RestartKeeps DEF MP!Next
  <2>. QED  BY <2>1, <2>2, <2>3
<1>3. McpInv => MP!TypeOK /\ MP!SettingsHold
  BY DEF McpInv, McpType, ListenersKnown, TokenAsked, SettingsStored, MP!SettingsHold, MP!Quiet
<1>4. Inv => SettingsHold
  BY <1>3 DEF SettingsHold
<1>. QED  BY <1>1, <1>2, <1>4, PTL DEF Spec

-----------------------------------------------------------------------------
(* The keys of Pod SSH.  A key file is removed again only by the launch    *)
(* that made it, and what is about to be installed as the host key is the  *)
(* host key there is, if there is one.                                     *)
HoldShape == hold = [gen |-> hold.gen, host |-> hold.host]
KeysInv ==
    /\ SK!TypeOK /\ HoldShape
    /\ proc = "public" => "ed" \in ours
    /\ proc = "install" => (host.key = 0 \/ hold.gen = host.key)

KeysStay ==
    /\ \A n \in SK!User \ ours : keyFile[n] # SK!Absent => keyFile'[n] = keyFile[n]
    /\ host.key # 0 => host'.key = host.key

LEMMA HoldKeepsShape ==
    ASSUME HoldShape, SK!Next
    PROVE  HoldShape'
<1>1. CASE SK!Launch \/ SK!Exit
  BY <1>1 DEF SK!Launch, SK!Exit, HoldShape
<1>2. CASE SK!LoadHostKey
  BY <1>2 DEF SK!LoadHostKey, HoldShape
<1>3. CASE SK!InstallHostKey
  BY <1>3 DEF SK!InstallHostKey, HoldShape
<1>4. CASE SK!LoadUserKeys
  BY <1>4 DEF SK!LoadUserKeys, HoldShape
<1>5. CASE (\E n \in {"ed", "ed.pub"} : SK!CreateNew(n) \/ SK!WriteNew(n) \/ SK!UserMakes(n))
           \/ SK!WriteFails
  BY <1>5 DEF SK!CreateNew, SK!WriteNew, SK!UserMakes, SK!WriteFails, HoldShape
<1>. QED  BY <1>1, <1>2, <1>3, <1>4, <1>5 DEF SK!Next

LEMMA KeysStepKeeps ==
    ASSUME KeysInv, SK!Next
    PROVE  KeysInv' /\ KeysStay
<1>0. /\ DOMAIN keyFile = SK!User /\ identity \in SK!User \cup {"none"} /\ ours \subseteq SK!User
      /\ proc \in {"off", "host", "install", "user", "private", "public", "ready", "error"}
      /\ (proc = "public" => "ed" \in ours) /\ "ed" \in SK!User /\ "ed.pub" \in SK!User
      /\ "rsa" \in SK!User
      /\ HoldShape'
  BY HoldKeepsShape DEF KeysInv, SK!TypeOK, SK!User
<1>1. CASE SK!Launch \/ SK!Exit
  <2>1. UNCHANGED <<keyFile, host, ours>> /\ proc' \in {"off", "host"} /\ identity' \in {identity, "none"}
    BY <1>1 DEF SK!Launch, SK!Exit
  <2>. QED  BY <1>0, <2>1 DEF KeysInv, SK!TypeOK, KeysStay
<1>2. CASE SK!LoadHostKey
  <2>1. /\ UNCHANGED <<keyFile, host, identity, ours>> /\ proc' \in {"user", "error", "install"}
        /\ (proc' = "install" =>
              hold' = [hold EXCEPT !.gen = IF host = SK!Absent THEN next ELSE host.key])
    BY <1>2 DEF SK!LoadHostKey
  <2>2. proc' = "install" => host.key = 0 \/ hold'.gen = host.key
    BY <2>1 DEF KeysInv, HoldShape, SK!Absent
  <2>. QED  BY <1>0, <2>1, <2>2 DEF KeysInv, SK!TypeOK, KeysStay
<1>3. CASE SK!InstallHostKey
  <2>1. /\ UNCHANGED <<keyFile, identity, ours>> /\ proc = "install" /\ proc' \in {"user", "error"}
        /\ (host' = host \/ host' = SK!Key(hold.gen))
    BY <1>3 DEF SK!InstallHostKey
  <2>2. host.key # 0 => host'.key = host.key
    BY <2>1 DEF KeysInv, SK!Key
  <2>. QED  BY <1>0, <2>1, <2>2 DEF KeysInv, SK!TypeOK, KeysStay
<1>4. CASE SK!LoadUserKeys
  <2>1. /\ UNCHANGED <<keyFile, host, ours>> /\ proc' \in {"ready", "error", "private"}
        /\ identity' \in {identity, "ed", "rsa", "none"}
    BY <1>4 DEF SK!LoadUserKeys
  <2>. QED  BY <1>0, <2>1 DEF KeysInv, SK!TypeOK, KeysStay
<1>5. ASSUME NEW n \in {"ed", "ed.pub"}, SK!CreateNew(n)
      PROVE  KeysInv' /\ KeysStay
  <2>1. /\ UNCHANGED <<host, identity>> /\ n \notin ours /\ n \in SK!User
        /\ (n = "ed.pub" => proc = "public") /\ proc \in {"private", "public"}
    BY <1>0, <1>5 DEF SK!CreateNew
  <2>2. CASE keyFile[n] = SK!Absent
    <3>1. keyFile' = [keyFile EXCEPT ![n] = SK!Partial] /\ ours' = ours \cup {n} /\ proc' = proc
      BY <1>5, <2>2 DEF SK!CreateNew
    <3>. QED  BY <1>0, <2>1, <2>2, <3>1 DEF KeysInv, SK!TypeOK, KeysStay
  <2>3. CASE keyFile[n] # SK!Absent
    <3>1. /\ proc' = "error" /\ ours' = ours \ {"ed"}
          /\ keyFile' = IF n = "ed.pub" THEN [keyFile EXCEPT !["ed"] = SK!Absent] ELSE keyFile
      BY <1>5, <2>3 DEF SK!CreateNew
    <3>2. n = "ed.pub" => "ed" \in ours
      BY <1>0, <2>1
    <3>. QED  BY <1>0, <2>1, <3>1, <3>2 DEF KeysInv, SK!TypeOK, KeysStay
  <2>. QED  BY <2>2, <2>3
<1>6. ASSUME NEW n \in {"ed", "ed.pub"}, SK!WriteNew(n)
      PROVE  KeysInv' /\ KeysStay
  <2>1. /\ UNCHANGED <<host, ours>> /\ n \in ours /\ keyFile' = [keyFile EXCEPT ![n] = SK!Key(hold.gen)]
        /\ identity' \in {identity, "ed"} /\ proc' \in {"public", "ready"}
        /\ (proc' = "public" => n = "ed")
    BY <1>6 DEF SK!WriteNew
  <2>. QED  BY <1>0, <2>1 DEF KeysInv, SK!TypeOK, KeysStay
<1>7. ASSUME NEW n \in {"ed", "ed.pub"}, SK!UserMakes(n)
      PROVE  KeysInv' /\ KeysStay
  BY <1>0, <1>7 DEF SK!UserMakes, KeysInv, SK!TypeOK, KeysStay
<1>8. CASE SK!WriteFails
  <2>1. /\ UNCHANGED <<host, identity>> /\ ours' = {} /\ proc' = "error"
        /\ keyFile' = [n \in SK!User |-> IF n \in ours THEN SK!Absent ELSE keyFile[n]]
    BY <1>8 DEF SK!WriteFails
  <2>. QED  BY <1>0, <2>1 DEF KeysInv, SK!TypeOK, KeysStay
<1>. QED  BY <1>1, <1>2, <1>3, <1>4, <1>5, <1>6, <1>7, <1>8 DEF SK!Next

(* Whatever fails and whenever the application dies, no launch changes or  *)
(* removes a key file it did not make, and the host key that clients have  *)
(* pinned stays the host key, for any number of launches and failed writes *)
(* (loadOrCreateSigner, loadOrCreateUserSSHKeys).                          *)
THEOREM KeysAreKept == Spec => KeysKept
<1>1. Init => KeysInv
  BY DEF Init, SK!Init, KeysInv, HoldShape, SK!TypeOK, SK!User
<1>2. KeysInv /\ [Next]_vars => KeysInv' /\ [KeysStay]_skVars
  <2> SUFFICES ASSUME KeysInv, [Next]_vars  PROVE KeysInv' /\ [KeysStay]_skVars
    OBVIOUS
  <2>1. [SK!Next]_skVars
    BY OneRuns
  <2>2. CASE UNCHANGED skVars
    BY <2>2 DEF skVars, KeysInv, HoldShape, SK!TypeOK
  <2>. QED  BY <2>1, <2>2, KeysStepKeeps
<1>3. KeysInv => SK!TypeOK
  BY DEF KeysInv
<1>4. skVars = SK!vars
  BY DEF skVars, SK!vars
<1>. QED  BY <1>1, <1>2, <1>3, <1>4, PTL DEF Spec, KeysKept, SK!KeysKept, KeysStay, skVars, SK!vars

-----------------------------------------------------------------------------
(* SFTP handles.  What a handle holds in its temporary file is what it     *)
(* fetched, under what the client has written since.                       *)
SftpFiles == [exists : BOOLEAN, data : [SftpBlocks -> SF!Values]]
SftpSteps == {"none", "check", "fetch", "open", "send", "closed", "failed"}
SftpRecords ==
    [pc : SftpSteps, write : BOOLEAN, trunc : BOOLEAN, creat : BOOLEAN,
     data : [SftpBlocks -> SF!Values], base : SftpFiles, fetched : BOOLEAN, wrote : SUBSET SftpBlocks]
Untouched(r) == r.data = SF!Blank /\ r.base = SF!Missing /\ r.wrote = {}
OverBase(h, r) == [b \in SftpBlocks |-> IF b \in r.wrote THEN h ELSE r.base.data[b]]
HandleSound(h, r) ==
    /\ r \in SftpRecords
    /\ r.pc \in {"none", "check", "fetch"} => Untouched(r)
    /\ r.fetched => r.data = OverBase(h, r)

SftpInv ==
    /\ remote \in SftpFiles
    /\ DOMAIN hs = SftpHandles
    /\ \A h \in SftpHandles : HandleSound(h, hs[h])
    /\ temps \subseteq SftpHandles
    /\ SF!TempsOwned
SftpDone ==
    \A h \in SftpHandles :
        hs[h].pc = "send" /\ hs'[h].pc = "closed" /\ hs[h].fetched => remote'.data = SF!Sent(h)

LEMMA EmptyFile == SF!Blank \in [SftpBlocks -> SF!Values] /\ SF!Missing \in SftpFiles
<1>1. SF!Blank \in [SftpBlocks -> SF!Values]
  BY DEF SF!Blank, SF!Values, SF!Hole
<1>. QED  BY <1>1 DEF SF!Missing, SftpFiles

LEMMA NoHandleSound ==
    SF!NoHandle \in SftpRecords /\ Untouched(SF!NoHandle) /\ ~SF!NoHandle.fetched
BY EmptyFile DEF SF!NoHandle, SftpRecords, SftpSteps, Untouched

LEMMA PcChanges ==
    ASSUME NEW r \in SftpRecords, NEW p \in SftpSteps
    PROVE  LET s == [r EXCEPT !.pc = p]
           IN  /\ s \in SftpRecords /\ s.pc = p /\ s.write = r.write /\ s.trunc = r.trunc
               /\ s.creat = r.creat /\ s.data = r.data /\ s.base = r.base
               /\ s.fetched = r.fetched /\ s.wrote = r.wrote
BY DEF SftpRecords

LEMMA FlagsChange ==
    ASSUME NEW r \in SftpRecords, NEW f \in SF!Flags
    PROVE  LET s == [r EXCEPT !.write = TRUE, !.trunc = f.trunc, !.creat = f.creat]
           IN  /\ s \in SftpRecords /\ s.pc = r.pc
               /\ s.data = r.data /\ s.base = r.base
               /\ s.fetched = r.fetched /\ s.wrote = r.wrote
<1>1. f.trunc \in BOOLEAN /\ f.creat \in BOOLEAN
  BY DEF SF!Flags
<1>. QED  BY <1>1 DEF SftpRecords

(* A step that changes one handle into one that is in order, and has or    *)
(* has not its temporary file accordingly.                                 *)
LEMMA HandleKeeps ==
    ASSUME SftpInv, NEW h \in SftpHandles, NEW r, HandleSound(h, r), SF!Become(h, r),
           remote' \in SftpFiles,
           temps' = IF r.pc \in {"fetch", "open", "send"} THEN temps \cup {h} ELSE temps \ {h}
    PROVE  SftpInv'
<1>1. DOMAIN hs' = SftpHandles /\ hs'[h] = r
      /\ \A g \in SftpHandles \ {h} : hs'[g] = hs[g]
  BY DEF SF!Become, SftpInv
<1>2. \A g \in SftpHandles : HandleSound(g, hs'[g])
  <2> TAKE g \in SftpHandles
  <2>1. CASE g = h
    BY <1>1, <2>1
  <2>2. CASE g # h
    <3>1. hs'[g] = hs[g] /\ HandleSound(g, hs[g])
      BY <1>1, <2>2 DEF SftpInv
    <3>. QED  BY <3>1
  <2>. QED  BY <2>1, <2>2
<1>3. temps' \subseteq SftpHandles
  BY DEF SftpInv
<1>4. temps' = {g \in SftpHandles : hs'[g].pc \in {"fetch", "open", "send"}}
  BY <1>1, <1>3 DEF SftpInv, SF!TempsOwned
<1>. QED  BY <1>1, <1>2, <1>3, <1>4 DEF SftpInv, SF!TempsOwned

(* A handle that is over, or not written yet.                              *)
LEMMA UntouchedSound ==
    ASSUME NEW h, NEW r \in SftpRecords, Untouched(r) \/ r.pc \notin {"none", "check", "fetch"},
           ~r.fetched
    PROVE  HandleSound(h, r)
BY DEF HandleSound

LEMMA OverKeeps ==
    ASSUME SftpInv, NEW h \in SftpHandles, NEW p \in {"closed", "failed"}, SF!Over(h, p),
           remote' \in SftpFiles
    PROVE  SftpInv' /\ hs'[h].pc = p
<1> DEFINE r == [SF!NoHandle EXCEPT !.pc = p]
<1>0. p \in SftpSteps
  BY DEF SftpSteps
<1>1. r \in SftpRecords /\ r.pc = p /\ ~r.fetched
  BY <1>0, NoHandleSound, PcChanges
<1>2. HandleSound(h, r)
  BY <1>1, UntouchedSound
<1>3. SF!Become(h, r) /\ temps' = temps \ {h}
  BY DEF SF!Over
<1>4. hs'[h] = r
  BY <1>3 DEF SF!Become, SftpInv
<1>. HIDE DEF r
<1>. QED  BY <1>1, <1>2, <1>3, <1>4, HandleKeeps

LEMMA SftpOpens ==
    ASSUME SftpInv, NEW h \in SftpHandles,
           SF!Fileread(h) \/ (\E f \in SF!Flags : SF!Filewrite(h, f)) \/ SF!Stat(h)
    PROVE  SftpInv' /\ hs'[h].pc # "closed"
<1>0. /\ hs[h] \in SftpRecords /\ temps \subseteq SftpHandles
      /\ (hs[h].pc \in {"none", "check", "fetch"} => Untouched(hs[h]))
      /\ (hs[h].fetched => hs[h].data = OverBase(h, hs[h]))
      /\ (h \in temps <=> hs[h].pc \in {"fetch", "open", "send"})
      /\ remote \in SftpFiles /\ DOMAIN hs = SftpHandles
  BY DEF SftpInv, HandleSound, SF!TempsOwned
<1>1. ASSUME NEW r, HandleSound(h, r), SF!Become(h, r), r.pc = "fetch" \/ r.pc = "check",
             temps' = IF r.pc = "fetch" THEN temps \cup {h} ELSE temps,
             hs[h].pc \in {"none", "check"}, remote' = remote
      PROVE  SftpInv' /\ hs'[h].pc # "closed"
  <2>1. h \notin temps /\ remote' \in SftpFiles /\ hs'[h] = r
    BY <1>0, <1>1 DEF SF!Become
  <2>2. temps' = IF r.pc \in {"fetch", "open", "send"} THEN temps \cup {h} ELSE temps \ {h}
    BY <1>1, <2>1
  <2>. QED  BY <1>1, <2>1, <2>2, HandleKeeps
<1>2. CASE SF!Fileread(h)
  <2> DEFINE r == [SF!NoHandle EXCEPT !.pc = "fetch"]
  <2>0. "fetch" \in SftpSteps
    BY DEF SftpSteps
  <2>1. r \in SftpRecords /\ r.pc = "fetch" /\ ~r.fetched /\ Untouched(r)
    BY <2>0, NoHandleSound, PcChanges DEF Untouched
  <2>2. HandleSound(h, r)
    BY <2>1, UntouchedSound
  <2>3. SF!Become(h, r) /\ temps' = temps \cup {h} /\ hs[h].pc = "none" /\ remote' = remote
    BY <1>2 DEF SF!Fileread
  <2>. HIDE DEF r
  <2>. QED  BY <1>1, <2>1, <2>2, <2>3
<1>3. ASSUME NEW f \in SF!Flags, SF!Filewrite(h, f)
      PROVE  SftpInv' /\ hs'[h].pc # "closed"
  <2> DEFINE w == [SF!NoHandle EXCEPT !.write = TRUE, !.trunc = f.trunc, !.creat = f.creat]
             c == [w EXCEPT !.pc = "check"]
             r == [w EXCEPT !.pc = "fetch"]
  <2>0. "fetch" \in SftpSteps /\ "check" \in SftpSteps
    BY DEF SftpSteps
  <2>1. w \in SftpRecords /\ ~w.fetched /\ Untouched(w)
    BY <2>0, NoHandleSound, FlagsChange DEF Untouched
  <2>2. \/ SF!Become(h, c) /\ temps' = temps
        \/ SF!Become(h, r) /\ temps' = temps \cup {h}
    BY <1>3 DEF SF!Filewrite
  <2>3. hs[h].pc = "none" /\ remote' = remote
    BY <1>3 DEF SF!Filewrite
  <2>. HIDE DEF w
  <2>4. /\ c \in SftpRecords /\ c.pc = "check" /\ ~c.fetched /\ Untouched(c)
        /\ r \in SftpRecords /\ r.pc = "fetch" /\ ~r.fetched /\ Untouched(r)
    BY <2>0, <2>1, PcChanges DEF Untouched
  <2>. HIDE DEF c, r
  <2>5. HandleSound(h, c) /\ HandleSound(h, r)
    BY <2>4, UntouchedSound
  <2>6. CASE SF!Become(h, c) /\ temps' = temps
    BY <1>1, <2>3, <2>4, <2>5, <2>6
  <2>7. CASE SF!Become(h, r) /\ temps' = temps \cup {h}
    BY <1>1, <2>3, <2>4, <2>5, <2>7
  <2>. QED  BY <2>2, <2>6, <2>7
<1>4. CASE SF!Stat(h)
  <2> DEFINE r == [hs[h] EXCEPT !.pc = "fetch"]
  <2>0. "fetch" \in SftpSteps
    BY DEF SftpSteps
  <2>1. /\ hs[h].pc = "check" /\ remote' = remote
        /\ \/ SF!Over(h, "failed")
           \/ SF!Become(h, r) /\ temps' = temps \cup {h}
    BY <1>4 DEF SF!Stat
  <2>2. CASE SF!Over(h, "failed")
    BY <1>0, <2>1, <2>2, OverKeeps
  <2>3. CASE SF!Become(h, r) /\ temps' = temps \cup {h}
    <3>1. /\ r \in SftpRecords /\ r.pc = "fetch" /\ Untouched(r) /\ r.fetched = hs[h].fetched
          /\ r.data = hs[h].data /\ r.base = hs[h].base /\ r.wrote = hs[h].wrote
      BY <1>0, <2>0, <2>1, PcChanges DEF Untouched
    <3>. HIDE DEF r
    <3>2. OverBase(h, r) = OverBase(h, hs[h])
      BY <3>1 DEF OverBase
    <3>3. HandleSound(h, r)
      BY <1>0, <3>1, <3>2 DEF HandleSound
    <3>. QED  BY <1>1, <2>1, <2>3, <3>1, <3>3
  <2>. QED  BY <2>1, <2>2, <2>3
<1>. QED  BY <1>2, <1>3, <1>4

LEMMA OpenChanges ==
    ASSUME NEW r \in SftpRecords, NEW g \in BOOLEAN
    PROVE  LET s == [r EXCEPT !.pc = "open", !.fetched = g]
           IN  /\ s \in SftpRecords /\ s.pc = "open" /\ s.data = r.data /\ s.base = r.base
               /\ s.wrote = r.wrote
BY DEF SftpRecords, SftpSteps

LEMMA FetchChanges ==
    ASSUME NEW r \in SftpRecords, NEW x \in SftpFiles
    PROVE  LET s == [r EXCEPT !.pc = "open", !.data = x.data, !.base = x, !.fetched = TRUE]
           IN  /\ s \in SftpRecords /\ s.pc = "open" /\ s.data = x.data /\ s.base = x
               /\ s.wrote = r.wrote
<1>1. x.data \in [SftpBlocks -> SF!Values]
  BY DEF SftpFiles
<1>2. "open" \in SftpSteps
  BY DEF SftpSteps
<1>. QED  BY <1>1, <1>2 DEF SftpRecords

(* What is fetched is what lies under the writes that are to come.         *)
LEMMA FetchedSound ==
    ASSUME NEW h \in SftpHandles, NEW r \in SftpRecords, r.pc = "open", r.wrote = {},
           r.data = r.base.data
    PROVE  HandleSound(h, r)
<1>1. r.base.data \in [SftpBlocks -> SF!Values]
  BY DEF SftpRecords, SftpFiles
<1>2. r.base.data = OverBase(h, r)
  BY <1>1 DEF OverBase
<1>. QED  BY <1>2 DEF HandleSound

LEMMA SftpFetches ==
    ASSUME SftpInv, NEW h \in SftpHandles, SF!Fetch(h)
    PROVE  SftpInv' /\ hs'[h].pc # "closed"
<1>0. /\ hs[h] \in SftpRecords /\ Untouched(hs[h]) /\ h \in temps
      /\ remote \in SftpFiles /\ remote' = remote /\ DOMAIN hs = SftpHandles
  BY DEF SF!Fetch, SftpInv, HandleSound, SF!TempsOwned
<1>1. ASSUME NEW r, r \in SftpRecords, r.pc = "open", r.wrote = {}, r.data = r.base.data,
             SF!Become(h, r), temps' = temps
      PROVE  SftpInv' /\ hs'[h].pc # "closed"
  <2>1. HandleSound(h, r)
    BY <1>1, FetchedSound
  <2>2. hs'[h] = r /\ temps' = temps \cup {h}
    BY <1>0, <1>1 DEF SF!Become
  <2>. QED  BY <1>0, <1>1, <2>1, <2>2, HandleKeeps
<1> DEFINE s == [hs[h] EXCEPT !.pc = "open", !.data = remote.data, !.base = remote, !.fetched = TRUE]
           t(g) == [hs[h] EXCEPT !.pc = "open", !.fetched = g]
<1>2. \/ SF!Become(h, s) /\ temps' = temps
      \/ \E g \in BOOLEAN : SF!Become(h, t(g)) /\ temps' = temps
      \/ SF!Over(h, "failed")
  BY <1>0 DEF SF!Fetch, SftpFiles
<1>3. s \in SftpRecords /\ s.pc = "open" /\ s.wrote = {} /\ s.data = s.base.data
  <2>1. hs[h] \in SftpRecords /\ remote \in SftpFiles
    BY <1>0
  <2>2. /\ s \in SftpRecords /\ s.pc = "open" /\ s.data = remote.data /\ s.base = remote
        /\ s.wrote = hs[h].wrote
    BY <2>1, FetchChanges, Zenon
  <2>. HIDE DEF s
  <2>. QED  BY <1>0, <2>2 DEF Untouched
<1>4. ASSUME NEW g \in BOOLEAN
      PROVE  t(g) \in SftpRecords /\ t(g).pc = "open" /\ t(g).wrote = {} /\ t(g).data = t(g).base.data
  <2>1. hs[h] \in SftpRecords
    BY <1>0
  <2>2. /\ t(g) \in SftpRecords /\ t(g).pc = "open" /\ t(g).data = hs[h].data
        /\ t(g).base = hs[h].base /\ t(g).wrote = hs[h].wrote
    BY <2>1, OpenChanges, Zenon
  <2>. HIDE DEF t
  <2>. QED  BY <1>0, <2>2 DEF Untouched, SF!Missing
<1>. HIDE DEF s, t
<1>5. CASE SF!Become(h, s) /\ temps' = temps
  BY <1>1, <1>3, <1>5
<1>6. CASE \E g \in BOOLEAN : SF!Become(h, t(g)) /\ temps' = temps
  BY <1>1, <1>4, <1>6
<1>7. CASE SF!Over(h, "failed")
  BY <1>0, <1>7, OverKeeps
<1>. QED  BY <1>2, <1>5, <1>6, <1>7

LEMMA WriteChanges ==
    ASSUME NEW h \in SftpHandles, NEW r \in SftpRecords, r.pc = "open", NEW b \in SftpBlocks,
           r.fetched => r.data = OverBase(h, r)
    PROVE  LET s == [r EXCEPT !.data[b] = h, !.wrote = r.wrote \cup {b}]
           IN  HandleSound(h, s) /\ s.pc = "open"
<1> DEFINE s == [r EXCEPT !.data[b] = h, !.wrote = r.wrote \cup {b}]
<1>1. r.data \in [SftpBlocks -> SF!Values] /\ r.wrote \subseteq SftpBlocks
  BY DEF SftpRecords
<1>2. [r.data EXCEPT ![b] = h] \in [SftpBlocks -> SF!Values]
  BY <1>1 DEF SF!Values
<1>3. /\ s \in SftpRecords /\ s.pc = "open" /\ s.data = [r.data EXCEPT ![b] = h]
      /\ s.wrote = r.wrote \cup {b} /\ s.base = r.base /\ s.fetched = r.fetched
  BY <1>1, <1>2 DEF SftpRecords
<1>. HIDE DEF s
<1>4. ASSUME r.data = OverBase(h, r)  PROVE s.data = OverBase(h, s)
  BY <1>1, <1>3, <1>4 DEF OverBase
<1>5. HandleSound(h, s)
  BY <1>3, <1>4 DEF HandleSound
<1>. QED  BY <1>3, <1>5 DEF s

LEMMA SftpWrites ==
    ASSUME SftpInv, NEW h \in SftpHandles, NEW b \in SftpBlocks, SF!WriteAt(h, b)
    PROVE  SftpInv' /\ hs'[h].pc # "closed"
<1>0. /\ hs[h] \in SftpRecords /\ hs[h].pc = "open" /\ h \in temps /\ temps' = temps
      /\ (hs[h].fetched => hs[h].data = OverBase(h, hs[h]))
      /\ remote \in SftpFiles /\ remote' = remote /\ DOMAIN hs = SftpHandles
  BY DEF SF!WriteAt, SftpInv, HandleSound, SF!TempsOwned
<1> DEFINE s == [hs[h] EXCEPT !.data[b] = h, !.wrote = hs[h].wrote \cup {b}]
<1>1. SF!Become(h, s)
  BY DEF SF!WriteAt
<1>2. HandleSound(h, s) /\ s.pc = "open"
  BY <1>0, WriteChanges, Zenon
<1>. HIDE DEF s
<1>3. hs'[h] = s
  BY <1>0, <1>1 DEF SF!Become
<1>. QED  BY <1>0, <1>1, <1>2, <1>3, HandleKeeps

LEMMA SftpCloses ==
    ASSUME SftpInv, NEW h \in SftpHandles, SF!CloseHandle(h)
    PROVE  SftpInv' /\ hs[h].pc # "send"
<1>0. /\ hs[h] \in SftpRecords /\ hs[h].pc = "open" /\ h \in temps
      /\ (hs[h].fetched => hs[h].data = OverBase(h, hs[h]))
      /\ remote \in SftpFiles /\ remote' = remote /\ DOMAIN hs = SftpHandles
  BY DEF SF!CloseHandle, SftpInv, HandleSound, SF!TempsOwned
<1> DEFINE s == [hs[h] EXCEPT !.pc = "send"]
<1>1. (SF!Become(h, s) /\ temps' = temps) \/ SF!Over(h, "closed")
  BY DEF SF!CloseHandle
<1>2. /\ s \in SftpRecords /\ s.pc = "send" /\ s.data = hs[h].data
      /\ s.base = hs[h].base /\ s.wrote = hs[h].wrote /\ s.fetched = hs[h].fetched
  BY <1>0, PcChanges DEF SftpSteps
<1>. HIDE DEF s
<1>3. OverBase(h, s) = OverBase(h, hs[h])
  BY <1>2 DEF OverBase
<1>4. HandleSound(h, s)
  BY <1>0, <1>2, <1>3 DEF HandleSound
<1>5. CASE SF!Become(h, s) /\ temps' = temps
  BY <1>0, <1>2, <1>4, <1>5, HandleKeeps
<1>6. CASE SF!Over(h, "closed")
  BY <1>0, <1>6, OverKeeps
<1>. QED  BY <1>0, <1>1, <1>5, <1>6

LEMMA FrontTyped ==
    ASSUME NEW d \in [SftpBlocks -> SF!Values], NEW n
    PROVE  SF!Front(d, n) \in [SftpBlocks -> SF!Values]
BY DEF SF!Front, SF!Values

LEMMA SftpSends ==
    ASSUME SftpInv, NEW h \in SftpHandles, SF!Upload(h)
    PROVE  /\ SftpInv'
           /\ (hs'[h].pc = "closed" /\ hs[h].fetched) => remote'.data = SF!Sent(h)
           /\ \A g \in SftpHandles \ {h} : hs'[g] = hs[g]
<1>0. /\ hs[h] \in SftpRecords /\ hs[h].data \in [SftpBlocks -> SF!Values]
      /\ (hs[h].fetched => hs[h].data = OverBase(h, hs[h]))
      /\ remote \in SftpFiles /\ DOMAIN hs = SftpHandles
  BY DEF SftpInv, HandleSound, SftpRecords
<1>1. OverBase(h, hs[h]) = SF!Sent(h)
  BY DEF OverBase, SF!Sent
<1>2. CASE remote' = [exists |-> TRUE, data |-> hs[h].data] /\ SF!Over(h, "closed")
  <2>1. remote' \in SftpFiles /\ remote'.data = hs[h].data
    BY <1>0, <1>2 DEF SftpFiles
  <2>2. SftpInv'
    BY <1>2, <2>1, OverKeeps
  <2>3. \A g \in SftpHandles \ {h} : hs'[g] = hs[g]
    BY <1>0, <1>2 DEF SF!Over, SF!Become
  <2>. QED  BY <1>0, <1>1, <2>1, <2>2, <2>3
<1>3. remote' \in SftpFiles
  <2>1. \A n : [exists |-> TRUE, data |-> SF!Front(hs[h].data, n)] \in SftpFiles
    BY <1>0, FrontTyped DEF SftpFiles
  <2>2. [exists |-> TRUE, data |-> hs[h].data] \in SftpFiles
    BY <1>0 DEF SftpFiles
  <2>. QED  BY <1>0, <2>1, <2>2 DEF SF!Upload
<1>4. CASE SF!Over(h, "failed")
  <2>1. SftpInv' /\ hs'[h].pc = "failed"
    BY <1>3, <1>4, OverKeeps
  <2>2. \A g \in SftpHandles \ {h} : hs'[g] = hs[g]
    BY <1>0, <1>4 DEF SF!Over, SF!Become
  <2>. QED  BY <2>1, <2>2
<1>5. \/ remote' = [exists |-> TRUE, data |-> hs[h].data] /\ SF!Over(h, "closed")
      \/ SF!Over(h, "failed")
  BY DEF SF!Upload
<1>. QED  BY <1>2, <1>4, <1>5

LEMMA SftpStepKeeps ==
    ASSUME SftpInv, SF!Next
    PROVE  SftpInv' /\ SftpDone
<1>1. ASSUME NEW h \in SftpHandles, SftpInv', hs'[h].pc # "closed" \/ hs[h].pc # "send",
             \A g \in SftpHandles \ {h} : hs'[g] = hs[g]
      PROVE  SftpInv' /\ SftpDone
  BY <1>1 DEF SftpDone
<1>2. ASSUME NEW h \in SftpHandles,
             SF!Fileread(h) \/ (\E f \in SF!Flags : SF!Filewrite(h, f)) \/ SF!Stat(h)
             \/ SF!Fetch(h) \/ (\E b \in SftpBlocks : SF!WriteAt(h, b)) \/ SF!CloseHandle(h)
      PROVE  SftpInv' /\ SftpDone
  <2>1. \A g \in SftpHandles \ {h} : hs'[g] = hs[g]
    BY <1>2 DEF SF!Fileread, SF!Filewrite, SF!Stat, SF!Fetch, SF!WriteAt, SF!CloseHandle,
       SF!Over, SF!Become, SftpInv
  <2>2. SftpInv' /\ (hs'[h].pc # "closed" \/ hs[h].pc # "send")
    BY <1>2, SftpOpens, SftpFetches, SftpWrites, SftpCloses
  <2>. QED  BY SMTT(30), <1>1, <2>1, <2>2
<1>3. ASSUME NEW h \in SftpHandles, SF!Upload(h)
      PROVE  SftpInv' /\ SftpDone
  BY <1>3, SftpSends DEF SftpDone
<1>4. CASE SF!Filecmd \/ SF!ConnectionLost
  <2>1. UNCHANGED <<hs, temps>> /\ (remote' = remote \/ remote' = SF!Missing)
    BY <1>4 DEF SF!Filecmd, SF!ConnectionLost
  <2>2. remote' \in SftpFiles
    BY <2>1, EmptyFile DEF SftpInv
  <2>. QED  BY <2>1, <2>2 DEF SftpInv, SF!TempsOwned, SftpDone
<1>. QED  BY <1>2, <1>3, <1>4 DEF SF!Next

(* The upload of a handle that the client closed, or that the server       *)
(* closed when the connection was lost, puts exactly the written blocks    *)
(* over those that were fetched, and every temporary file has a handle     *)
(* that will remove it, for any number of handles, blocks and failed       *)
(* commands (Filewrite, sftpHandle.Close and upload).                      *)
THEOREM UploadsAreFaithful == Spec => UploadFaithful
<1>1. Init => SftpInv
  <2> SUFFICES ASSUME Init  PROVE SftpInv
    OBVIOUS
  <2>1. /\ hs = [h \in SftpHandles |-> SF!NoHandle] /\ temps = {}
        /\ remote \in {SF!Missing, [exists |-> TRUE, data |-> [b \in SftpBlocks |-> SF!Old]]}
    BY DEF Init, SF!Init
  <2>2. [b \in SftpBlocks |-> SF!Old] \in [SftpBlocks -> SF!Values]
    BY DEF SF!Values
  <2>3. [exists |-> TRUE, data |-> [b \in SftpBlocks |-> SF!Old]] \in SftpFiles
    BY <2>2 DEF SftpFiles
  <2>4. \A h \in SftpHandles : HandleSound(h, hs[h])
    BY <2>1, NoHandleSound, UntouchedSound
  <2>5. SF!NoHandle.pc = "none"
    BY DEF SF!NoHandle
  <2>6. remote \in SftpFiles
    BY <2>1, <2>3, EmptyFile
  <2>. QED  BY <2>1, <2>4, <2>5, <2>6 DEF SftpInv, SF!TempsOwned
<1>2. SftpInv /\ [Next]_vars => SftpInv' /\ [SftpDone]_sfVars
  <2> SUFFICES ASSUME SftpInv, [Next]_vars  PROVE SftpInv' /\ [SftpDone]_sfVars
    OBVIOUS
  <2>1. [SF!Next]_sfVars
    BY OneRuns
  <2>2. CASE UNCHANGED sfVars
    BY <2>2 DEF sfVars, SftpInv, SF!TempsOwned
  <2>. QED  BY <2>1, <2>2, SftpStepKeeps
<1>3. SftpInv => SF!TypeOK /\ SF!TempsOwned
  BY DEF SftpInv, HandleSound, SftpFiles, SftpRecords, SftpSteps, SF!TypeOK
<1>. QED  BY <1>1, <1>2, <1>3, PTL DEF Spec, UploadFaithful, SF!UploadFaithful, SftpDone,
          sfVars, SF!vars

-----------------------------------------------------------------------------
(* Port forwards.  Every open port has one owner: a forward in the list or *)
(* the call that is about to publish or to close it.  Every dialer held is *)
(* the current one or that of a session marked late.  And nobody but       *)
(* Shutdown works during an undisturbed shutdown.                          *)
ForwardSpecs == ForwardTargets \X ForwardNetworks
ForwardRecord == [id : Nat, spec : ForwardSpecs, sess : Nat]
CallRecord ==
    [op : {"none", "start", "stop", "reset", "restore", "watch", "persist", "shutdown"},
     pc : {"none", "next", "resolve", "publish", "close", "list", "write", "stopAll", "wait"},
     todo : SUBSET (ForwardSpecs \cup ForwardRecord), spec : ForwardSpecs \cup {<<>>},
     sess : Nat, list : SUBSET ForwardSpecs, ctxs : SUBSET ForwardContexts]
SessionRecord ==
    [n : Nat, ctx : ForwardContexts \cup {"none"}, pc : {"idle", "restoring", "up", "unroute", "undial"}]

CallSound(d) ==
    /\ d # FW!NoCall => d.op # "none"
    /\ d.op \in {"start", "restore"} => d.todo \subseteq ForwardSpecs
ForwardsTyped ==
    /\ fwd \subseteq ForwardRecord /\ \A f \in fwd : f.id \in 1..nextId
    /\ bound \subseteq ForwardSpecs /\ intents \subseteq ForwardSpecs
    /\ alive \subseteq ForwardSpecs /\ wished \subseteq ForwardSpecs
    /\ dialer \in [ctx : ForwardContexts \cup {"none"}, sess : Nat]
    /\ call \in [FW!Callers -> CallRecord] /\ sn \in SessionRecord
    /\ \A c \in FW!Callers : CallSound(call[c])
    /\ nextId \in 0..ForwardStarts /\ restarts \in 0..ForwardRestarts
    /\ quitting \in BOOLEAN /\ disturbed \in BOOLEAN /\ late \subseteq 1..sn.n

Holds(c) == call[c].pc \in {"publish", "close"}
OwnsPorts(S) ==
    \A s : s \in S <=> \/ \E f \in fwd : f.spec = s
                       \/ \E c \in FW!Callers : Holds(c) /\ call[c].spec = s
OneOwner ==
    /\ \A f, g \in fwd : f.spec = g.spec => f = g
    /\ \A f \in fwd, c \in FW!Callers : Holds(c) => f.spec # call[c].spec
    /\ \A c, d \in FW!Callers : Holds(c) /\ Holds(d) /\ call[c].spec = call[d].spec => c = d

Routes == IF sn.pc = "undial" THEN {0} \cup late ELSE {0, dialer.sess} \cup late
DialersHeld ==
    /\ dialer.sess \in {0, sn.n} /\ (sn.pc = "idle" => dialer.sess = 0)
    /\ sn.pc # "idle" => sn.n # 0
    /\ \A f \in fwd : f.sess \in Routes
    /\ \A c \in FW!Callers : call[c].sess \in Routes

Quits(q) ==
    /\ q.pc \in {"list", "write", "stopAll"} => sn.pc \notin {"unroute", "undial"}
    /\ q.pc = "list" => \A s : s \in wished <=> \E f \in fwd : f.spec = s
    /\ q.pc = "write" => q.list = wished /\ \A s \in intents : s[1] \in q.ctxs
    /\ q.pc \in {"stopAll", "wait"} => intents = wished
QuitSound ==
    /\ ~quitting => call["quit"] = FW!NoCall
    /\ quitting => call["quit"].op = "shutdown" /\ call["quit"].pc \in {"list", "write", "stopAll", "wait"}
    /\ \A c \in FW!Callers \ {"quit"} : call[c].op # "shutdown" /\ call[c].pc \notin {"stopAll", "wait"}
    /\ ~quitting /\ sn.pc \in {"unroute", "undial"} => call["session"] = FW!NoCall
    /\ quitting /\ ~disturbed =>
         /\ \A c \in FW!Callers \ {"quit"} : call[c] = FW!NoCall
         /\ Quits(call["quit"])

ForwardInv == ForwardsTyped /\ OwnsPorts(bound) /\ OneOwner /\ DialersHeld /\ QuitSound

LEMMA NoCallFields ==
    /\ FW!NoCall \in CallRecord /\ FW!NoCall.op = "none" /\ FW!NoCall.pc = "none" /\ FW!NoCall.sess = 0
    /\ FW!NoCall.list = {} /\ FW!NoCall.todo = {}
  BY DEF FW!NoCall, CallRecord

LEMMA ForwardFields ==
    ASSUME ForwardsTyped
    PROVE  /\ \A c \in FW!Callers : /\ call[c] \in CallRecord /\ call[c].sess \in Nat
                                    /\ call[c].list \subseteq ForwardSpecs
                                    /\ call[c] # FW!NoCall => call[c].op # "none"
                                    /\ call[c].op \in {"start", "restore"} => call[c].todo \subseteq ForwardSpecs
           /\ call \in [FW!Callers -> CallRecord]
           /\ \A f \in fwd : f \in ForwardRecord /\ f.spec \in ForwardSpecs /\ f.sess \in Nat
           /\ sn.n \in Nat /\ dialer.sess \in Nat /\ late \subseteq Nat /\ nextId \in Nat
           /\ sn.pc \in {"idle", "restoring", "up", "unroute", "undial"}
           /\ {"quit", "session", "watch", "startup"} \subseteq FW!Callers
           /\ \A c \in ForwardUsers : c \in FW!Callers /\ c \notin {"quit", "session", "watch", "startup"}
<1>1. /\ \A c \in FW!Callers : /\ call[c] \in CallRecord
                               /\ call[c] # FW!NoCall => call[c].op # "none"
                               /\ call[c].op \in {"start", "restore"} => call[c].todo \subseteq ForwardSpecs
      /\ call \in [FW!Callers -> CallRecord]
  <2>1. call \in [FW!Callers -> CallRecord]
    BY DEF ForwardsTyped
  <2>2. \A c \in FW!Callers : call[c] \in CallRecord
    BY <2>1
  <2>3. \A c \in FW!Callers : /\ call[c] # FW!NoCall => call[c].op # "none"
                              /\ call[c].op \in {"start", "restore"} => call[c].todo \subseteq ForwardSpecs
    <3>1. \A c \in FW!Callers : CallSound(call[c])
      BY DEF ForwardsTyped
    <3>. QED  BY <3>1 DEF CallSound
  <2>. QED  BY <2>1, <2>2, <2>3
<1>2. \A x \in CallRecord : x.sess \in Nat /\ x.list \subseteq ForwardSpecs
  BY DEF CallRecord
<1>3. /\ \A f \in fwd : f \in ForwardRecord /\ f.spec \in ForwardSpecs /\ f.sess \in Nat
      /\ sn.n \in Nat /\ dialer.sess \in Nat /\ late \subseteq Nat /\ nextId \in Nat
      /\ sn.pc \in {"idle", "restoring", "up", "unroute", "undial"}
  BY ForwardNames DEF ForwardsTyped, ForwardRecord, SessionRecord
<1>4. /\ {"quit", "session", "watch", "startup"} \subseteq FW!Callers
      /\ \A c \in ForwardUsers : c \in FW!Callers /\ c \notin {"quit", "session", "watch", "startup"}
  BY ForwardNames DEF FW!Callers
<1>. QED  BY <1>1, <1>2, <1>3, <1>4

(* One goroutine moves on.                                                 *)
CallTo(c, x) ==
    /\ call' \in [FW!Callers -> CallRecord] /\ call'[c] = x
    /\ \A d \in FW!Callers \ {c} : call'[d] = call[d]

LEMMA CallPut ==
    ASSUME ForwardsTyped, NEW c \in FW!Callers, NEW x \in CallRecord, call' = [call EXCEPT ![c] = x]
    PROVE  CallTo(c, x)
  BY ForwardFields DEF CallTo

(* A call that has nothing left to do is over.                             *)
Goes(f, x) == x = f \/ (x = FW!NoCall /\ f.pc = "next" /\ f.todo = {})
LEMMA GoTo ==
    ASSUME ForwardsTyped, NEW c \in FW!Callers, NEW f \in CallRecord, FW!Go(c, f)
    PROVE  \E x \in CallRecord : CallTo(c, x) /\ Goes(f, x)
<1>1. CASE FW!Over(f)
  <2>1. call' = [call EXCEPT ![c] = FW!NoCall]
    BY <1>1 DEF FW!Go
  <2>2. CallTo(c, FW!NoCall)
    BY <2>1, CallPut, NoCallFields
  <2>. QED  BY <1>1, <2>2, NoCallFields DEF Goes, FW!Over
<1>2. CASE ~FW!Over(f)
  <2>1. call' = [call EXCEPT ![c] = f]
    BY <1>2 DEF FW!Go
  <2>. QED  BY <2>1, CallPut DEF Goes
<1>. QED  BY <1>1, <1>2

(* Where the routes of held dialers lead, while the session stays.         *)
LEMMA RoutesGrow ==
    ASSUME UNCHANGED <<sn, dialer>>, late \subseteq late'
    PROVE  Routes \subseteq Routes'
  BY DEF Routes

(* Who owns the ports, from one state to the next.                         *)
LEMMA OwnersStay ==
    ASSUME ForwardInv, UNCHANGED <<fwd, bound>>, NEW c \in FW!Callers, NEW x, CallTo(c, x),
           ~Holds(c), x.pc \notin {"publish", "close"}
    PROVE  OwnsPorts(bound)' /\ OneOwner'
<1>1. \A d \in FW!Callers : /\ Holds(d)' <=> Holds(d)
                            /\ Holds(d) => call'[d].spec = call[d].spec
  BY DEF Holds, CallTo
<1>2. OwnsPorts(bound)'
  BY <1>1 DEF ForwardInv, OwnsPorts
<1>3. OneOwner'
  BY <1>1 DEF ForwardInv, OneOwner
<1>. QED  BY <1>2, <1>3

LEMMA OwnerListens ==
    ASSUME ForwardInv, UNCHANGED fwd, NEW c \in FW!Callers, NEW x, CallTo(c, x), ~Holds(c),
           x.pc = "publish", x.spec \notin bound, bound' = bound \cup {x.spec}
    PROVE  OwnsPorts(bound)' /\ OneOwner'
<1>1. /\ \A d \in FW!Callers \ {c} : (Holds(d)' <=> Holds(d)) /\ call'[d].spec = call[d].spec
      /\ Holds(c)' /\ call'[c].spec = x.spec
  BY DEF Holds, CallTo
<1>2. OwnsPorts(bound)'
  <2> SUFFICES ASSUME NEW s
               PROVE  s \in bound' <=> \/ \E f \in fwd' : f.spec = s
                                       \/ \E d \in FW!Callers : Holds(d)' /\ call'[d].spec = s
    BY DEF OwnsPorts
  <2>1. s \in bound <=> \/ \E f \in fwd : f.spec = s
                        \/ \E d \in FW!Callers : Holds(d) /\ call[d].spec = s
    BY DEF ForwardInv, OwnsPorts
  <2>. QED  BY <1>1, <2>1
<1>3. OneOwner'
  <2>1. /\ \A f \in fwd : f.spec \in bound
        /\ \A d \in FW!Callers : Holds(d) => call[d].spec \in bound
    BY DEF ForwardInv, OwnsPorts
  <2>. QED  BY <1>1, <2>1 DEF ForwardInv, OneOwner
<1>. QED  BY <1>2, <1>3

LEMMA OwnerPublishes ==
    ASSUME ForwardInv, UNCHANGED bound, NEW c \in FW!Callers, NEW x, CallTo(c, x), Holds(c),
           x.pc \notin {"publish", "close"}, NEW g, g.spec = call[c].spec, fwd' = fwd \cup {g}
    PROVE  OwnsPorts(bound)' /\ OneOwner'
<1>1. /\ \A d \in FW!Callers \ {c} : (Holds(d)' <=> Holds(d)) /\ call'[d].spec = call[d].spec
      /\ ~Holds(c)'
  BY DEF Holds, CallTo
<1>2. OwnsPorts(bound)'
  <2> SUFFICES ASSUME NEW s
               PROVE  s \in bound' <=> \/ \E f \in fwd' : f.spec = s
                                       \/ \E d \in FW!Callers : Holds(d)' /\ call'[d].spec = s
    BY DEF OwnsPorts
  <2>1. s \in bound <=> \/ \E f \in fwd : f.spec = s
                        \/ \E d \in FW!Callers : Holds(d) /\ call[d].spec = s
    BY DEF ForwardInv, OwnsPorts
  <2>. QED  BY <1>1, <2>1
<1>3. OneOwner'
  BY <1>1 DEF ForwardInv, OneOwner
<1>. QED  BY <1>2, <1>3

LEMMA OwnerUnpublishes ==
    ASSUME ForwardInv, UNCHANGED bound, NEW c \in FW!Callers, NEW x, CallTo(c, x), ~Holds(c),
           x.pc = "close", NEW g \in fwd, x.spec = g.spec, fwd' = fwd \ {g}
    PROVE  OwnsPorts(bound)' /\ OneOwner'
<1>1. /\ \A d \in FW!Callers \ {c} : (Holds(d)' <=> Holds(d)) /\ call'[d].spec = call[d].spec
      /\ Holds(c)' /\ call'[c].spec = g.spec
  BY DEF Holds, CallTo
<1>2. OwnsPorts(bound)'
  <2> SUFFICES ASSUME NEW s
               PROVE  s \in bound' <=> \/ \E f \in fwd' : f.spec = s
                                       \/ \E d \in FW!Callers : Holds(d)' /\ call'[d].spec = s
    BY DEF OwnsPorts
  <2>1. s \in bound <=> \/ \E f \in fwd : f.spec = s
                        \/ \E d \in FW!Callers : Holds(d) /\ call[d].spec = s
    BY DEF ForwardInv, OwnsPorts
  <2>. QED  BY <1>1, <2>1
<1>3. OneOwner'
  BY <1>1 DEF ForwardInv, OneOwner
<1>. QED  BY <1>2, <1>3

LEMMA OwnerCloses ==
    ASSUME ForwardInv, UNCHANGED fwd, NEW c \in FW!Callers, NEW x, CallTo(c, x), Holds(c),
           x.pc \notin {"publish", "close"}, bound' = bound \ {call[c].spec}
    PROVE  OwnsPorts(bound)' /\ OneOwner'
<1>1. /\ \A d \in FW!Callers \ {c} : (Holds(d)' <=> Holds(d)) /\ call'[d].spec = call[d].spec
      /\ ~Holds(c)'
  BY DEF Holds, CallTo
<1>2. OwnsPorts(bound)'
  <2> SUFFICES ASSUME NEW s
               PROVE  s \in bound' <=> \/ \E f \in fwd' : f.spec = s
                                       \/ \E d \in FW!Callers : Holds(d)' /\ call'[d].spec = s
    BY DEF OwnsPorts
  <2>1. s \in bound <=> \/ \E f \in fwd : f.spec = s
                        \/ \E d \in FW!Callers : Holds(d) /\ call[d].spec = s
    BY DEF ForwardInv, OwnsPorts
  <2>. QED  BY <1>1, <2>1 DEF ForwardInv, OneOwner
<1>3. OneOwner'
  BY <1>1 DEF ForwardInv, OneOwner
<1>. QED  BY <1>2, <1>3

(* Forwards are taken off the list together with their ports.              *)
LEMMA OwnersLeave ==
    ASSUME ForwardInv, NEW R \in SUBSET fwd, fwd' = fwd \ R, bound' = bound \ FW!SpecsOf(R),
           \A d \in FW!Callers : (Holds(d)' <=> Holds(d)) /\ (Holds(d) => call'[d].spec = call[d].spec)
    PROVE  OwnsPorts(bound)' /\ OneOwner'
<1>2. OwnsPorts(bound)'
  <2> SUFFICES ASSUME NEW s
               PROVE  s \in bound' <=> \/ \E f \in fwd' : f.spec = s
                                       \/ \E d \in FW!Callers : Holds(d)' /\ call'[d].spec = s
    BY DEF OwnsPorts
  <2>1. s \in bound <=> \/ \E f \in fwd : f.spec = s
                        \/ \E d \in FW!Callers : Holds(d) /\ call[d].spec = s
    BY DEF ForwardInv, OwnsPorts
  <2>2. s \in bound' <=> s \in bound /\ \A g \in R : g.spec # s
    BY DEF FW!SpecsOf
  <2>. QED  BY <2>1, <2>2 DEF ForwardInv, OneOwner
<1>3. OneOwner'
  BY DEF ForwardInv, OneOwner
<1>. QED  BY <1>2, <1>3

(* A step of a call other than Shutdown.                                   *)
LEMMA CallStepKeeps ==
    ASSUME ForwardInv, NEW c \in FW!Callers, c # "quit", call[c] # FW!NoCall,
           NEW x \in CallRecord, CallTo(c, x), x = FW!NoCall \/ (x.op = call[c].op /\ x.todo \subseteq call[c].todo),
           x.pc \notin {"stopAll", "wait"},
           UNCHANGED <<alive, sn, quitting, restarts, wished, disturbed, dialer>>,
           fwd' \subseteq ForwardRecord, nextId' \in 0..ForwardStarts, \A f \in fwd' : f.id \in 1..nextId',
           bound' \subseteq ForwardSpecs, intents' \subseteq ForwardSpecs,
           late' = late \/ (sn.pc = "undial" /\ late' = late \cup {sn.n}),
           x.sess \in Routes', \A f \in fwd' : f \in fwd \/ f.sess = call[c].sess,
           OwnsPorts(bound)', OneOwner'
    PROVE  ForwardInv'
<1>. USE ForwardFields, NoCallFields DEF ForwardInv
<1>1. call[c].op # "none" /\ call[c].op # "shutdown" /\ (quitting => disturbed)
  BY DEF QuitSound
<1>2. late' \subseteq 1..sn.n /\ late \subseteq late'
  <2>1. sn.pc = "undial" => sn.n \in 1..sn.n
    BY DEF DialersHeld
  <2>2. late \subseteq 1..sn.n
    BY DEF ForwardsTyped
  <2>. QED  BY <2>1, <2>2
<1>3. ForwardsTyped'
  <2>1. \A d \in FW!Callers : CallSound(call'[d])
    BY <1>1 DEF CallTo, CallSound
  <2>2. call' \in [FW!Callers -> CallRecord]
    BY DEF CallTo
  <2>. QED  BY <1>2, <2>1, <2>2 DEF ForwardsTyped, CallSound, FW!NoCall
<1>4. DialersHeld'
  <2>1. Routes \subseteq Routes'
    BY <1>2, RoutesGrow
  <2>2. \A f \in fwd' : f.sess \in Routes'
    BY <2>1 DEF DialersHeld
  <2>3. \A d \in FW!Callers : call'[d].sess \in Routes'
    BY <2>1 DEF DialersHeld, CallTo
  <2>. QED  BY <2>2, <2>3 DEF DialersHeld
<1>5. QuitSound'
  <2>1. call'["quit"] = call["quit"]
    BY DEF CallTo
  <2>2. \A d \in FW!Callers \ {"quit"} : call'[d].op # "shutdown" /\ call'[d].pc \notin {"stopAll", "wait"}
    BY <1>1 DEF CallTo, QuitSound
  <2>3. ~quitting /\ sn.pc \in {"unroute", "undial"} => call'["session"] = FW!NoCall
    BY DEF CallTo, QuitSound
  <2>. QED  BY <1>1, <2>1, <2>2, <2>3 DEF QuitSound, FW!NoCall
<1>. QED  BY <1>3, <1>4, <1>5

(* Shutdown itself only takes the list and writes it.                      *)
LEMMA NotQuit ==
    ASSUME ForwardInv, NEW c \in FW!Callers, call[c].pc # "none",
           call[c].pc \in {"next", "resolve", "publish", "close"} \/ call[c].op # "shutdown"
    PROVE  c # "quit" /\ call[c] # FW!NoCall /\ (quitting => disturbed)
<1>. USE ForwardFields, NoCallFields DEF ForwardInv
<1>1. c # "quit"
  BY DEF QuitSound
<1>. QED  BY <1>1 DEF QuitSound

LEMMA ReadDialerKeeps ==
    ASSUME ForwardInv, NEW c \in FW!Callers, FW!ReadDialer(c)
    PROVE  ForwardInv'
<1>. USE ForwardFields, NoCallFields DEF ForwardInv
<1>0. /\ call[c].pc = "next" /\ call[c].op \in {"start", "restore"}
      /\ late' = IF sn.pc = "undial" THEN late \cup {sn.n} ELSE late
      /\ UNCHANGED <<alive, sn, nextId, quitting, restarts, wished, disturbed, fwd, bound, dialer, intents>>
  BY DEF FW!ReadDialer, FW!Frame
<1>1. c # "quit" /\ call[c] # FW!NoCall
  BY <1>0, NotQuit, SMTT(30)
<1>2. PICK s \in call[c].todo, n \in {0, dialer.sess}, at \in {"next", "resolve"} :
         FW!Go(c, [call[c] EXCEPT !.todo = @ \ {s}, !.spec = s, !.sess = n, !.pc = at])
  <2>1. PICK s \in call[c].todo :
           LET n == IF dialer.ctx = s[1] THEN dialer.sess ELSE 0 IN
           FW!Go(c, [call[c] EXCEPT !.todo = @ \ {s}, !.spec = s, !.sess = n,
                                    !.pc = IF n = 0 /\ s[2] = "udp" THEN "next" ELSE "resolve"])
    BY DEF FW!ReadDialer
  <2> DEFINE n == IF dialer.ctx = s[1] THEN dialer.sess ELSE 0
             at == IF n = 0 /\ s[2] = "udp" THEN "next" ELSE "resolve"
  <2>2. FW!Go(c, [call[c] EXCEPT !.todo = @ \ {s}, !.spec = s, !.sess = n, !.pc = at])
    BY <2>1
  <2>3. n \in {0, dialer.sess} /\ at \in {"next", "resolve"}
    OBVIOUS
  <2>. HIDE DEF n, at
  <2>. QED  BY <2>2, <2>3
<1>3. PICK f \in CallRecord : /\ FW!Go(c, f) /\ f.op = call[c].op /\ f.pc = at /\ f.sess = n
                             /\ f.todo \subseteq call[c].todo
  <2> DEFINE d == call[c]
             f == [d EXCEPT !.todo = d.todo \ {s}, !.spec = s, !.sess = n, !.pc = at]
  <2>1. FW!Go(c, f)
    BY <1>2
  <2>2. d \in CallRecord /\ s \in ForwardSpecs /\ n \in Nat
    BY <1>0, <1>2 DEF ForwardsTyped
  <2>. HIDE DEF d
  <2>3. f \in CallRecord /\ f.op = d.op /\ f.pc = at /\ f.sess = n /\ f.todo \subseteq d.todo
    BY <2>2 DEF CallRecord
  <2>. HIDE DEF f
  <2>. QED  BY <2>1, <2>3 DEF d
<1>4. PICK x \in CallRecord : CallTo(c, x) /\ Goes(f, x)
  BY <1>3, GoTo
<1>5. n \in Routes'
  BY <1>0, <1>2 DEF Routes, DialersHeld
<1>6. x = FW!NoCall \/ (x.op = call[c].op /\ x.todo \subseteq call[c].todo)
  BY <1>3, <1>4 DEF Goes
<1>7. x.pc \notin {"publish", "close", "stopAll", "wait"} /\ x.sess \in Routes'
  <2>1. 0 \in Routes'
    BY DEF Routes
  <2>. QED  BY <1>2, <1>3, <1>4, <1>5, <2>1 DEF Goes
<1>8. OwnsPorts(bound)' /\ OneOwner'
  BY <1>0, <1>4, <1>7, OwnersStay DEF Holds
<1>9. /\ fwd' \subseteq ForwardRecord /\ nextId' \in 0..ForwardStarts /\ \A g \in fwd' : g.id \in 1..nextId'
      /\ bound' \subseteq ForwardSpecs /\ intents' \subseteq ForwardSpecs
  BY <1>0 DEF ForwardsTyped
<1>. QED  BY <1>0, <1>1, <1>4, <1>6, <1>7, <1>8, <1>9, CallStepKeeps

(* How a call record changes.                                              *)
Binds(d) == [d EXCEPT !.pc = "publish"]
GivesUp(d) == [d EXCEPT !.pc = "next", !.spec = <<>>, !.sess = 0]
Lists(d, at) == [d EXCEPT !.pc = at, !.spec = <<>>, !.sess = 0]
Closes(d) == [d EXCEPT !.pc = "list", !.spec = <<>>]
Skips(d, g) == [d EXCEPT !.todo = @ \ {g}]
Takes(d, g, s) == [d EXCEPT !.todo = @ \ {g}, !.spec = s, !.pc = "close"]
Notes(d, l, x) == [d EXCEPT !.pc = "write", !.list = l, !.ctxs = x]
Written(d, at) == [d EXCEPT !.pc = at, !.list = {}, !.ctxs = {}]
Waits(d) == [d EXCEPT !.pc = "wait"]

Keeps(d, e) == e \in CallRecord /\ e.op = d.op /\ e.todo \subseteq d.todo /\ e.sess \in {0, d.sess}

LEMMA BindsFields ==
    ASSUME NEW d \in CallRecord
    PROVE  Keeps(d, Binds(d)) /\ Binds(d).pc = "publish" /\ Binds(d).spec = d.spec
  BY DEF Keeps, Binds, CallRecord
LEMMA GivesUpFields ==
    ASSUME NEW d \in CallRecord
    PROVE  Keeps(d, GivesUp(d)) /\ GivesUp(d).pc = "next"
  BY DEF Keeps, GivesUp, CallRecord
LEMMA ListsFields ==
    ASSUME NEW d \in CallRecord, NEW at \in {"list", "next"}
    PROVE  Keeps(d, Lists(d, at)) /\ Lists(d, at).pc = at
  BY DEF Keeps, Lists, CallRecord
LEMMA ClosesFields ==
    ASSUME NEW d \in CallRecord
    PROVE  Keeps(d, Closes(d)) /\ Closes(d).pc = "list"
  BY DEF Keeps, Closes, CallRecord
LEMMA SkipsFields ==
    ASSUME NEW d \in CallRecord, NEW g
    PROVE  Keeps(d, Skips(d, g)) /\ Skips(d, g).pc = d.pc
  BY DEF Keeps, Skips, CallRecord
LEMMA TakesFields ==
    ASSUME NEW d \in CallRecord, NEW g, NEW s \in ForwardSpecs
    PROVE  Keeps(d, Takes(d, g, s)) /\ Takes(d, g, s).pc = "close" /\ Takes(d, g, s).spec = s
  BY DEF Keeps, Takes, CallRecord
LEMMA NotesFields ==
    ASSUME NEW d \in CallRecord, NEW l \in SUBSET ForwardSpecs, NEW x \in SUBSET ForwardContexts
    PROVE  Keeps(d, Notes(d, l, x)) /\ Notes(d, l, x).pc = "write" /\ Notes(d, l, x).list = l /\ Notes(d, l, x).ctxs = x
  BY DEF Keeps, Notes, CallRecord
LEMMA WrittenFields ==
    ASSUME NEW d \in CallRecord, NEW at \in {"stopAll", "next"}
    PROVE  Keeps(d, Written(d, at)) /\ Written(d, at).pc = at
  BY DEF Keeps, Written, CallRecord
LEMMA WaitsFields ==
    ASSUME NEW d \in CallRecord
    PROVE  Keeps(d, Waits(d)) /\ Waits(d).pc = "wait"
  BY DEF Keeps, Waits, CallRecord

(* What most steps of a call leave alone.                                  *)
LEMMA QuietCall ==
    ASSUME ForwardInv, NEW c \in FW!Callers, NEW f \in CallRecord, FW!Go(c, f), FW!Frame,
           UNCHANGED <<dialer, late>>, call[c].pc \in {"next", "resolve", "close", "list", "write"},
           call[c].op # "shutdown", Keeps(call[c], f), f.pc \notin {"stopAll", "wait"},
           fwd' \subseteq fwd, bound' \subseteq ForwardSpecs, intents' \subseteq ForwardSpecs,
           \A x \in CallRecord : CallTo(c, x) /\ Goes(f, x) => OwnsPorts(bound)' /\ OneOwner'
    PROVE  ForwardInv'
<1>. USE ForwardFields, NoCallFields DEF ForwardInv, Keeps
<1>0. UNCHANGED <<alive, sn, nextId, quitting, restarts, wished, disturbed>>
  BY DEF FW!Frame
<1>1. c # "quit" /\ call[c] # FW!NoCall
  BY NotQuit
<1>2. PICK x \in CallRecord : CallTo(c, x) /\ Goes(f, x)
  BY GoTo
<1>3. x = FW!NoCall \/ (x.op = call[c].op /\ x.todo \subseteq call[c].todo)
  BY <1>2 DEF Goes
<1>4. x.pc \notin {"stopAll", "wait"} /\ x.sess \in Routes'
  <2>1. call[c].sess \in Routes' /\ 0 \in Routes'
    BY <1>0 DEF Routes, DialersHeld
  <2>. QED  BY <1>2, <2>1 DEF Goes
<1>5. /\ fwd' \subseteq ForwardRecord /\ nextId' \in 0..ForwardStarts /\ \A g \in fwd' : g.id \in 1..nextId'
  BY <1>0 DEF ForwardsTyped
<1>6. \A g \in fwd' : g \in fwd \/ g.sess = call[c].sess
  OBVIOUS
<1>. QED  BY <1>0, <1>1, <1>2, <1>3, <1>4, <1>5, <1>6, CallStepKeeps

LEMMA ListenKeeps ==
    ASSUME ForwardInv, NEW c \in FW!Callers, FW!Listen(c)
    PROVE  ForwardInv'
<1>. USE ForwardFields, NoCallFields DEF ForwardInv
<1>0. call[c].pc = "resolve" /\ FW!Frame /\ UNCHANGED <<fwd, dialer, intents, late>>
  BY DEF FW!Listen
<1>1. call[c].op # "shutdown" /\ ~Holds(c)
  <2>1. c # "quit"
    BY <1>0, NotQuit
  <2>. QED  BY <1>0, <2>1 DEF QuitSound, Holds
<1>2. bound \subseteq ForwardSpecs /\ intents' \subseteq ForwardSpecs /\ alive \subseteq ForwardSpecs
  BY <1>0 DEF ForwardsTyped
<1>3. CASE /\ call[c].spec \in alive /\ call[c].spec \notin bound /\ bound' = bound \cup {call[c].spec}
           /\ FW!Go(c, [call[c] EXCEPT !.pc = "publish"])
  <2> DEFINE f == Binds(call[c])
  <2>1. f \in CallRecord /\ Keeps(call[c], f) /\ f.pc = "publish" /\ f.spec = call[c].spec
    BY BindsFields DEF Keeps
  <2>2. FW!Go(c, f)
    BY <1>3 DEF Binds
  <2>. HIDE DEF f
  <2>3. ASSUME NEW x \in CallRecord, CallTo(c, x), Goes(f, x)
        PROVE  OwnsPorts(bound)' /\ OneOwner'
    BY <1>0, <1>1, <1>3, <2>1, <2>3, OwnerListens DEF Goes
  <2>4. bound' \subseteq ForwardSpecs
    BY <1>2, <1>3
  <2>. QED  BY <1>0, <1>1, <1>2, <2>1, <2>2, <2>3, <2>4, QuietCall
<1>4. CASE UNCHANGED bound /\ FW!Go(c, [call[c] EXCEPT !.pc = "next", !.spec = <<>>, !.sess = 0])
  <2> DEFINE f == GivesUp(call[c])
  <2>1. f \in CallRecord /\ Keeps(call[c], f) /\ f.pc = "next"
    BY GivesUpFields DEF Keeps
  <2>2. FW!Go(c, f)
    BY <1>4 DEF GivesUp
  <2>. HIDE DEF f
  <2>3. ASSUME NEW x \in CallRecord, CallTo(c, x), Goes(f, x)
        PROVE  OwnsPorts(bound)' /\ OneOwner'
    BY <1>0, <1>1, <1>4, <2>1, <2>3, OwnersStay DEF Goes
  <2>. QED  BY <1>0, <1>1, <1>2, <1>4, <2>1, <2>2, <2>3, QuietCall
<1>. QED  BY <1>3, <1>4 DEF FW!Listen

LEMMA UnpublishKeeps ==
    ASSUME ForwardInv, NEW c \in FW!Callers, FW!Unpublish(c)
    PROVE  ForwardInv'
<1>. USE ForwardFields, NoCallFields DEF ForwardInv
<1>0. /\ call[c].pc = "next" /\ call[c].op \in {"stop", "reset", "watch"} /\ FW!Frame
      /\ UNCHANGED <<bound, dialer, intents, late>>
  BY DEF FW!Unpublish
<1>1. call[c].op # "shutdown" /\ ~Holds(c)
  BY <1>0 DEF Holds
<1>2. bound' \subseteq ForwardSpecs /\ intents' \subseteq ForwardSpecs
  BY <1>0 DEF ForwardsTyped
<1>3. PICK g \in call[c].todo :
         /\ fwd' = fwd \ {g}
         /\ FW!Go(c, IF g \notin fwd THEN [call[c] EXCEPT !.todo = @ \ {g}]
                     ELSE [call[c] EXCEPT !.todo = @ \ {g}, !.spec = g.spec, !.pc = "close"])
  BY DEF FW!Unpublish
<1>4. CASE g \notin fwd
  <2> DEFINE f == Skips(call[c], g)
  <2>1. f \in CallRecord /\ Keeps(call[c], f) /\ f.pc = call[c].pc
    BY SkipsFields DEF Keeps
  <2>2. FW!Go(c, f) /\ fwd' = fwd
    BY <1>3, <1>4 DEF Skips
  <2>. HIDE DEF f
  <2>3. ASSUME NEW x \in CallRecord, CallTo(c, x), Goes(f, x)
        PROVE  OwnsPorts(bound)' /\ OneOwner'
    BY <1>0, <1>1, <2>1, <2>2, <2>3, OwnersStay DEF Goes
  <2>. QED  BY <1>0, <1>1, <1>2, <2>1, <2>2, <2>3, QuietCall
<1>5. CASE g \in fwd
  <2> DEFINE f == Takes(call[c], g, g.spec)
  <2>1. f \in CallRecord /\ Keeps(call[c], f) /\ f.pc = "close" /\ f.spec = g.spec
    BY <1>5, TakesFields DEF Keeps
  <2>2. FW!Go(c, f) /\ fwd' \subseteq fwd
    BY <1>3, <1>5 DEF Takes
  <2>. HIDE DEF f
  <2>3. ASSUME NEW x \in CallRecord, CallTo(c, x), Goes(f, x)
        PROVE  OwnsPorts(bound)' /\ OneOwner'
    BY <1>0, <1>1, <1>3, <1>5, <2>1, <2>3, OwnerUnpublishes DEF Goes
  <2>. QED  BY <1>0, <1>1, <1>2, <2>1, <2>2, <2>3, QuietCall
<1>. QED  BY <1>4, <1>5

LEMMA CloseKeeps ==
    ASSUME ForwardInv, NEW c \in FW!Callers, FW!Close(c)
    PROVE  ForwardInv'
<1>. USE ForwardFields, NoCallFields DEF ForwardInv
<1>0. /\ call[c].pc = "close" /\ FW!Frame /\ bound' = bound \ {call[c].spec}
      /\ UNCHANGED <<fwd, dialer, intents, late>>
  BY DEF FW!Close
<1>1. call[c].op # "shutdown" /\ Holds(c)
  <2>1. c # "quit"
    BY <1>0, NotQuit
  <2>. QED  BY <1>0, <2>1 DEF QuitSound, Holds
<1>2. bound' \subseteq ForwardSpecs /\ intents' \subseteq ForwardSpecs
  BY <1>0 DEF ForwardsTyped
<1> DEFINE f == Closes(call[c])
<1>3. f \in CallRecord /\ Keeps(call[c], f) /\ f.pc = "list"
  BY ClosesFields DEF Keeps
<1>4. FW!Go(c, f)
  BY DEF FW!Close, Closes
<1>. HIDE DEF f
<1>5. ASSUME NEW x \in CallRecord, CallTo(c, x), Goes(f, x)
      PROVE  OwnsPorts(bound)' /\ OneOwner'
  BY <1>0, <1>1, <1>3, <1>5, OwnerCloses DEF Goes
<1>. QED  BY <1>0, <1>1, <1>2, <1>3, <1>4, <1>5, QuietCall

LEMMA PublishKeeps ==
    ASSUME ForwardInv, NEW c \in FW!Callers, FW!Publish(c)
    PROVE  ForwardInv'
<1>. USE ForwardFields, NoCallFields DEF ForwardInv
<1>0. /\ call[c].pc = "publish" /\ nextId < ForwardStarts /\ nextId' = nextId + 1
      /\ fwd' = fwd \cup {[id |-> nextId', spec |-> call[c].spec, sess |-> call[c].sess]}
      /\ UNCHANGED <<bound, dialer, intents, alive, sn, quitting, restarts, wished, disturbed, late>>
  BY DEF FW!Publish
<1>1. c # "quit" /\ call[c] # FW!NoCall /\ Holds(c)
  BY <1>0, NotQuit DEF Holds
<1>2. call[c].spec \in ForwardSpecs
  <2>1. call[c].spec \in bound
    BY <1>1 DEF OwnsPorts
  <2>. QED  BY <2>1 DEF ForwardsTyped
<1>3. PICK g \in ForwardRecord : /\ g.spec = call[c].spec /\ g.sess = call[c].sess
                                 /\ g.id = nextId' /\ fwd' = fwd \cup {g}
  <2> DEFINE g == [id |-> nextId', spec |-> call[c].spec, sess |-> call[c].sess]
  <2>1. g \in ForwardRecord /\ g.spec = call[c].spec /\ g.sess = call[c].sess /\ g.id = nextId'
    BY <1>0, <1>2 DEF ForwardRecord
  <2>2. fwd' = fwd \cup {g}
    BY <1>0
  <2>. HIDE DEF g
  <2>. QED  BY <2>1, <2>2
<1>4. PICK at \in {"list", "next"} : FW!Go(c, Lists(call[c], at))
  BY DEF FW!Publish, Lists
<1> DEFINE f == Lists(call[c], at)
<1>5. f \in CallRecord /\ Keeps(call[c], f) /\ f.pc = at /\ FW!Go(c, f)
  BY <1>4, ListsFields DEF Keeps
<1>. HIDE DEF f
<1>6. PICK x \in CallRecord : CallTo(c, x) /\ Goes(f, x)
  BY <1>5, GoTo
<1>7. x = FW!NoCall \/ (x.op = call[c].op /\ x.todo \subseteq call[c].todo)
  BY <1>5, <1>6 DEF Goes, Keeps
<1>8. x.pc \notin {"publish", "close", "stopAll", "wait"}
  BY <1>4, <1>5, <1>6 DEF Goes
<1>9. x.sess \in Routes'
  <2>1. call[c].sess \in Routes' /\ 0 \in Routes'
    BY <1>0 DEF Routes, DialersHeld
  <2>. QED  BY <1>5, <1>6, <2>1 DEF Goes, Keeps
<1>10. OwnsPorts(bound)' /\ OneOwner'
  BY <1>0, <1>1, <1>3, <1>6, <1>8, OwnerPublishes
<1>11. /\ fwd' \subseteq ForwardRecord /\ nextId' \in 0..ForwardStarts
       /\ bound' \subseteq ForwardSpecs /\ intents' \subseteq ForwardSpecs
  BY <1>0, <1>3, ForwardNames DEF ForwardsTyped
<1>12. \A h \in fwd' : h.id \in 1..nextId'
  <2>1. \A h \in fwd : h.id \in 1..nextId
    BY DEF ForwardsTyped
  <2>2. 1..nextId \subseteq 1..nextId' /\ nextId' \in 1..nextId'
    BY <1>0
  <2>. QED  BY <1>3, <2>1, <2>2
<1>13. \A h \in fwd' : h \in fwd \/ h.sess = call[c].sess
  BY <1>3
<1>. QED  BY <1>0, <1>1, <1>6, <1>7, <1>8, <1>9, <1>10, <1>11, <1>12, <1>13, CallStepKeeps

LEMMA SpecsOfForwards ==
    ASSUME ForwardsTyped
    PROVE  /\ FW!SpecsOf(fwd) \in SUBSET ForwardSpecs
           /\ {s[1] : s \in FW!SpecsOf(fwd) \cup intents} \in SUBSET ForwardContexts
<1>1. FW!SpecsOf(fwd) \in SUBSET ForwardSpecs
  BY ForwardFields DEF FW!SpecsOf
<1>2. \A s \in ForwardSpecs : s[1] \in ForwardContexts
  BY ForwardNames DEF ForwardSpecs
<1>3. intents \subseteq ForwardSpecs
  BY DEF ForwardsTyped
<1>. QED  BY <1>1, <1>2, <1>3

(* A step of Shutdown that moves no forward.                               *)
LEMMA QuitStepKeeps ==
    ASSUME ForwardInv, quitting, NEW x \in CallRecord, CallTo("quit", x), ~Holds("quit"),
           Keeps(call["quit"], x), x.pc \in {"write", "stopAll"},
           UNCHANGED <<fwd, bound, dialer, alive, sn, nextId, quitting, restarts, wished, disturbed, late>>,
           intents' \subseteq ForwardSpecs, ~disturbed => Quits(x)'
    PROVE  ForwardInv'
<1>. USE ForwardFields, NoCallFields DEF ForwardInv, Keeps
<1>1. call["quit"].op = "shutdown" /\ call'["quit"] = x /\ x.op = "shutdown"
  BY DEF QuitSound, CallTo
<1>2. ForwardsTyped'
  <2>1. \A d \in FW!Callers : CallSound(call'[d])
    BY <1>1 DEF CallTo, CallSound
  <2>2. call' \in [FW!Callers -> CallRecord]
    BY DEF CallTo
  <2>. QED  BY <2>1, <2>2 DEF ForwardsTyped, CallSound, FW!NoCall
<1>3. OwnsPorts(bound)' /\ OneOwner'
  BY OwnersStay
<1>4. DialersHeld'
  <2>1. Routes' = Routes
    BY DEF Routes
  <2>2. \A d \in FW!Callers : call'[d].sess \in Routes
    <3>1. 0 \in Routes
      BY DEF Routes
    <3>. QED  BY <3>1 DEF DialersHeld, CallTo
  <2>. QED  BY <2>1, <2>2 DEF DialersHeld
<1>5. QuitSound'
  <2>1. \A d \in FW!Callers \ {"quit"} : call'[d] = call[d]
    BY DEF CallTo
  <2>2. ~disturbed => Quits(call["quit"])'
    BY <1>1
  <2>. QED  BY <1>1, <2>1, <2>2 DEF QuitSound, FW!NoCall
<1>. QED  BY <1>2, <1>3, <1>4, <1>5

LEMMA QuitIsShutdown ==
    ASSUME ForwardInv, NEW c \in FW!Callers, call[c].op = "shutdown"
    PROVE  c = "quit" /\ quitting /\ ~Holds(c) /\ (~disturbed => Quits(call["quit"]))
  BY ForwardFields, NoCallFields DEF ForwardInv, QuitSound, Holds

LEMMA PersistListKeeps ==
    ASSUME ForwardInv, NEW c \in FW!Callers, FW!PersistList(c)
    PROVE  ForwardInv'
<1>. USE ForwardFields, NoCallFields DEF ForwardInv
<1>0. call[c].pc = "list" /\ FW!Frame /\ UNCHANGED <<fwd, bound, dialer, intents, late>>
  BY DEF FW!PersistList
<1> DEFINE l == FW!SpecsOf(fwd)
           y == {s[1] : s \in FW!SpecsOf(fwd) \cup intents}
           f == Notes(call[c], l, y)
<1>1. l \in SUBSET ForwardSpecs /\ y \in SUBSET ForwardContexts
  BY SpecsOfForwards
<1>2. FW!Go(c, f)
  BY DEF FW!PersistList, Notes
<1>3. (\A s : s \in l <=> \E g \in fwd : g.spec = s) /\ \A s \in intents : s[1] \in y
  BY DEF FW!SpecsOf
<1>. HIDE DEF l, y
<1>4. f \in CallRecord /\ Keeps(call[c], f) /\ f.pc = "write" /\ f.list = l /\ f.ctxs = y
  <2>1. call[c] \in CallRecord
    OBVIOUS
  <2>2. Keeps(call[c], f) /\ f.pc = "write" /\ f.list = l /\ f.ctxs = y
    BY <1>1, <2>1, NotesFields
  <2>. QED  BY <2>2 DEF Keeps
<1>. HIDE DEF f
<1>5. bound' \subseteq ForwardSpecs /\ intents' \subseteq ForwardSpecs
  BY <1>0 DEF ForwardsTyped
<1>6. CASE call[c].op # "shutdown"
  <2>1. ASSUME NEW x \in CallRecord, CallTo(c, x), Goes(f, x)
        PROVE  OwnsPorts(bound)' /\ OneOwner'
    BY <1>0, <1>4, <2>1, OwnersStay DEF Goes, Holds
  <2>. QED  BY <1>0, <1>2, <1>4, <1>5, <1>6, <2>1, QuietCall
<1>7. CASE call[c].op = "shutdown"
  <2>1. c = "quit" /\ quitting /\ ~Holds(c) /\ (~disturbed => Quits(call["quit"]))
    BY <1>7, QuitIsShutdown
  <2>2. PICK x \in CallRecord : CallTo(c, x) /\ Goes(f, x)
    BY <1>2, <1>4, GoTo
  <2>3. x = f
    BY <1>4, <2>2 DEF Goes
  <2>4. UNCHANGED <<fwd, bound, dialer, alive, sn, nextId, quitting, restarts, wished, disturbed, late, intents>>
    BY <1>0 DEF FW!Frame
  <2>5. ~disturbed => Quits(x)'
    <3>1. SUFFICES ASSUME ~disturbed  PROVE Quits(x)'
      OBVIOUS
    <3>2. l = wished
      BY <1>0, <1>3, <2>1, <3>1 DEF Quits
    <3>3. sn.pc \notin {"unroute", "undial"}
      BY <1>0, <2>1, <3>1 DEF Quits
    <3>. QED  BY <1>3, <1>4, <2>3, <2>4, <3>2, <3>3 DEF Quits
  <2>. QED  BY <1>4, <1>5, <2>1, <2>2, <2>3, <2>4, <2>5, QuitStepKeeps
<1>. QED  BY <1>6, <1>7

LEMMA PersistWriteKeeps ==
    ASSUME ForwardInv, NEW c \in FW!Callers, FW!PersistWrite(c)
    PROVE  ForwardInv'
<1>. USE ForwardFields, NoCallFields DEF ForwardInv
<1>0. /\ call[c].pc = "write" /\ FW!Frame /\ UNCHANGED <<fwd, bound, dialer, late>>
      /\ intents' = {s \in intents : s[1] \notin call[c].ctxs} \cup call[c].list
  BY DEF FW!PersistWrite
<1>1. bound' \subseteq ForwardSpecs /\ intents' \subseteq ForwardSpecs
  BY <1>0 DEF ForwardsTyped
<1>2. CASE call[c].op # "shutdown"
  <2> DEFINE f == Written(call[c], "next")
  <2>1. f \in CallRecord /\ Keeps(call[c], f) /\ f.pc = "next"
    BY WrittenFields DEF Keeps
  <2>2. FW!Go(c, f)
    BY <1>2 DEF FW!PersistWrite, Written
  <2>. HIDE DEF f
  <2>3. ASSUME NEW x \in CallRecord, CallTo(c, x), Goes(f, x)
        PROVE  OwnsPorts(bound)' /\ OneOwner'
    BY <1>0, <2>1, <2>3, OwnersStay DEF Goes, Holds
  <2>. QED  BY <1>0, <1>1, <1>2, <2>1, <2>2, <2>3, QuietCall
<1>3. CASE call[c].op = "shutdown"
  <2> DEFINE f == Written(call[c], "stopAll")
  <2>1. f \in CallRecord /\ Keeps(call[c], f) /\ f.pc = "stopAll"
    BY WrittenFields DEF Keeps
  <2>2. FW!Go(c, f)
    BY <1>3 DEF FW!PersistWrite, Written
  <2>. HIDE DEF f
  <2>3. c = "quit" /\ quitting /\ ~Holds(c) /\ (~disturbed => Quits(call["quit"]))
    BY <1>3, QuitIsShutdown
  <2>4. PICK x \in CallRecord : CallTo(c, x) /\ Goes(f, x)
    BY <2>1, <2>2, GoTo
  <2>5. x = f
    BY <2>1, <2>4 DEF Goes
  <2>6. UNCHANGED <<fwd, bound, dialer, alive, sn, nextId, quitting, restarts, wished, disturbed, late>>
    BY <1>0 DEF FW!Frame
  <2>7. ~disturbed => Quits(x)'
    <3>1. SUFFICES ASSUME ~disturbed  PROVE Quits(x)'
      OBVIOUS
    <3>2. intents' = wished /\ sn.pc \notin {"unroute", "undial"}
      BY <1>0, <2>3, <3>1 DEF Quits
    <3>. QED  BY <2>1, <2>5, <2>6, <3>2 DEF Quits
  <2>. QED  BY <1>1, <2>1, <2>3, <2>4, <2>5, <2>6, <2>7, QuitStepKeeps
<1>. QED  BY <1>2, <1>3

LEMMA ClearIntentsKeeps ==
    ASSUME ForwardInv, NEW c \in FW!Callers, FW!ClearSessionIntents(c)
    PROVE  ForwardInv'
<1>. USE ForwardFields, NoCallFields DEF ForwardInv
<1>0. /\ call[c].pc = "next" /\ call[c].op = "reset" /\ intents' = {}
      /\ UNCHANGED <<alive, sn, nextId, quitting, restarts, wished, disturbed, fwd, bound, dialer, late>>
      /\ call' = [call EXCEPT ![c] = FW!NoCall]
  BY DEF FW!ClearSessionIntents, FW!Frame
<1>1. c # "quit" /\ call[c] # FW!NoCall
  BY <1>0, NotQuit
<1>2. CallTo(c, FW!NoCall)
  BY <1>0, CallPut
<1>3. OwnsPorts(bound)' /\ OneOwner'
  BY <1>0, <1>2, OwnersStay DEF Holds
<1>4. FW!NoCall.sess \in Routes'
  BY DEF Routes
<1>5. /\ fwd' \subseteq ForwardRecord /\ nextId' \in 0..ForwardStarts /\ \A g \in fwd' : g.id \in 1..nextId'
      /\ bound' \subseteq ForwardSpecs
  BY <1>0 DEF ForwardsTyped
<1>. QED  BY <1>0, <1>1, <1>2, <1>3, <1>4, <1>5, CallStepKeeps

(* A call begins; during a shutdown that is a disturbance.                 *)
Begins(o, at, t) == [FW!NoCall EXCEPT !.op = o, !.pc = at, !.todo = t]
LEMMA BeginsFields ==
    ASSUME NEW o \in {"start", "stop", "reset", "restore", "watch", "persist", "shutdown"},
           NEW at \in {"next", "list"}, NEW t \in SUBSET (ForwardSpecs \cup ForwardRecord)
    PROVE  /\ Begins(o, at, t) \in CallRecord /\ Begins(o, at, t).op = o /\ Begins(o, at, t).pc = at
           /\ Begins(o, at, t).todo = t /\ Begins(o, at, t).sess = 0
  BY DEF Begins, FW!NoCall, CallRecord

Begun(o, t, x) ==
    /\ x = FW!NoCall \/ (x.op = o /\ x.pc = "next")
    /\ x.sess = 0 /\ (x.todo = t \/ x.todo = {})
LEMMA BeginTo ==
    ASSUME ForwardInv, NEW c \in FW!Callers,
           NEW o \in {"start", "stop", "reset", "restore", "watch"},
           NEW t \in SUBSET (ForwardSpecs \cup ForwardRecord), FW!Begin(c, o, t)
    PROVE  /\ call[c] = FW!NoCall
           /\ \E x \in CallRecord : CallTo(c, x) /\ Begun(o, t, x)
<1>. USE ForwardFields, NoCallFields DEF ForwardInv
<1> DEFINE e == Begins(o, "next", t)
<1>1. call[c] = FW!NoCall /\ FW!Go(c, e)
  BY DEF FW!Begin, Begins
<1>2. e \in CallRecord /\ e.op = o /\ e.pc = "next" /\ e.todo = t /\ e.sess = 0
  BY BeginsFields
<1>. HIDE DEF e
<1>3. PICK x \in CallRecord : CallTo(c, x) /\ Goes(e, x)
  BY <1>1, <1>2, GoTo
<1>4. Begun(o, t, x)
  BY <1>2, <1>3 DEF Goes, Begun
<1>. QED  BY <1>1, <1>3, <1>4

LEMMA CallBegins ==
    ASSUME ForwardInv, NEW c \in FW!Callers \ {"quit", "session"},
           NEW o \in {"start", "stop", "reset", "watch"},
           NEW t \in SUBSET (ForwardSpecs \cup ForwardRecord), o = "start" => t \subseteq ForwardSpecs,
           FW!Begin(c, o, t), FW!CallFrame
    PROVE  ForwardInv'
<1>. USE ForwardFields, NoCallFields DEF ForwardInv
<1>0. /\ disturbed' = (disturbed \/ quitting)
      /\ UNCHANGED <<fwd, bound, dialer, intents, alive, sn, nextId, quitting, restarts, wished, late>>
  BY DEF FW!CallFrame
<1>1. call[c] = FW!NoCall
  BY DEF FW!Begin
<1>2. PICK x \in CallRecord : CallTo(c, x) /\ Begun(o, t, x)
  <2>1. o \in {"start", "stop", "reset", "restore", "watch"} /\ c \in FW!Callers
    OBVIOUS
  <2>. QED  BY <2>1, BeginTo
<1>3. ForwardsTyped'
  <2>1. \A d \in FW!Callers : CallSound(call'[d])
    BY <1>2 DEF Begun, CallTo, CallSound
  <2>2. call' \in [FW!Callers -> CallRecord]
    BY <1>2 DEF CallTo
  <2>3. disturbed' \in BOOLEAN
    BY <1>0 DEF ForwardsTyped
  <2>. QED  BY <1>0, <2>1, <2>2, <2>3 DEF ForwardsTyped, CallSound, FW!NoCall
<1>4. OwnsPorts(bound)' /\ OneOwner'
  BY <1>0, <1>1, <1>2, OwnersStay DEF Begun, Holds
<1>5. DialersHeld'
  <2>1. Routes' = Routes /\ 0 \in Routes
    BY <1>0 DEF Routes
  <2>2. \A d \in FW!Callers : call'[d].sess \in Routes
    BY <1>2, <2>1 DEF DialersHeld, Begun, CallTo
  <2>. QED  BY <1>0, <2>1, <2>2 DEF DialersHeld
<1>6. QuitSound'
  <2>1. call'["quit"] = call["quit"] /\ call'["session"] = call["session"]
    BY <1>2 DEF CallTo
  <2>2. \A d \in FW!Callers \ {"quit"} : call'[d].op # "shutdown" /\ call'[d].pc \notin {"stopAll", "wait"}
    BY <1>2 DEF Begun, CallTo, QuitSound
  <2>. QED  BY <1>0, <2>1, <2>2 DEF QuitSound, FW!NoCall
<1>. QED  BY <1>3, <1>4, <1>5, <1>6

LEMMA UserCallsKeeps ==
    ASSUME ForwardInv, NEW c \in ForwardUsers, FW!UserCalls(c)
    PROVE  ForwardInv'
<1>. USE ForwardFields DEF ForwardInv
<1>0. c \in FW!Callers \ {"quit", "session"} /\ FW!CallFrame
  BY DEF FW!UserCalls
<1>1. ASSUME NEW s \in ForwardSpecs, FW!Begin(c, "start", {s})
      PROVE  ForwardInv'
  <2>1. {s} \in SUBSET (ForwardSpecs \cup ForwardRecord) /\ {s} \subseteq ForwardSpecs
    OBVIOUS
  <2>. QED  BY <1>0, <1>1, <2>1, CallBegins
<1>2. ASSUME NEW g \in fwd, FW!Begin(c, "stop", {g})
      PROVE  ForwardInv'
  <2>1. {g} \in SUBSET (ForwardSpecs \cup ForwardRecord)
    OBVIOUS
  <2>. QED  BY <1>0, <1>2, <2>1, CallBegins
<1>3. ASSUME FW!Begin(c, "reset", fwd)
      PROVE  ForwardInv'
  <2>1. fwd \in SUBSET (ForwardSpecs \cup ForwardRecord)
    OBVIOUS
  <2>. QED  BY <1>0, <1>3, <2>1, CallBegins
<1>. QED  BY <1>1, <1>2, <1>3 DEF FW!UserCalls, ForwardSpecs

LEMMA InventoryKeeps ==
    ASSUME ForwardInv, FW!ApplyInventory
    PROVE  ForwardInv'
<1>. USE ForwardFields DEF ForwardInv
<1> DEFINE t == {g \in fwd : FW!Stale(g)}
<1>1. t \in SUBSET (ForwardSpecs \cup ForwardRecord) /\ FW!Begin("watch", "watch", t) /\ FW!CallFrame
  BY DEF FW!ApplyInventory
<1>. HIDE DEF t
<1>2. "watch" \in FW!Callers \ {"quit", "session"}
  OBVIOUS
<1>. QED  BY <1>1, <1>2, CallBegins

(* The session.                                                            *)
LEMMA SessionFields ==
    ASSUME ForwardsTyped
    PROVE  /\ sn \in SessionRecord
           /\ \A at \in {"idle", "restoring", "up", "unroute", "undial"} :
                /\ [sn EXCEPT !.pc = at] \in SessionRecord
                /\ [sn EXCEPT !.pc = at].pc = at /\ [sn EXCEPT !.pc = at].n = sn.n
           /\ [FW!NoSession EXCEPT !.n = sn.n] \in SessionRecord
           /\ [FW!NoSession EXCEPT !.n = sn.n].pc = "idle" /\ [FW!NoSession EXCEPT !.n = sn.n].n = sn.n
           /\ FW!NoDialer \in [ctx : ForwardContexts \cup {"none"}, sess : Nat] /\ FW!NoDialer.sess = 0
<1>1. sn \in SessionRecord
  BY DEF ForwardsTyped
<1>. QED  BY <1>1 DEF SessionRecord, FW!NoSession, FW!NoDialer

(* The session moves on and no call does.                                  *)
LEMMA SessionStays ==
    ASSUME ForwardsTyped, UNCHANGED <<call, bound, intents, alive, nextId, quitting, restarts, wished>>,
           fwd' \subseteq fwd, disturbed' \in BOOLEAN, sn' \in SessionRecord,
           dialer' \in [ctx : ForwardContexts \cup {"none"}, sess : Nat], late' \subseteq 1..sn'.n
    PROVE  ForwardsTyped'
  BY DEF ForwardsTyped, CallSound, FW!NoCall

LEMMA ConnectedKeeps ==
    ASSUME ForwardInv, FW!Connected
    PROVE  ForwardInv'
<1>. USE ForwardFields DEF ForwardInv
<1>0. /\ UNCHANGED <<fwd, bound, dialer, intents, alive, call, nextId, quitting, restarts, wished, disturbed, late>>
      /\ sn.pc = "restoring" /\ sn' \in SessionRecord /\ sn'.pc = "up" /\ sn'.n = sn.n
  BY SessionFields DEF FW!Connected
<1>1. ForwardsTyped'
  BY <1>0, SessionStays DEF ForwardsTyped
<1>2. OwnsPorts(bound)' /\ OneOwner'
  BY <1>0 DEF OwnsPorts, OneOwner, Holds
<1>3. DialersHeld'
  <2>1. Routes' = Routes
    BY <1>0 DEF Routes
  <2>. QED  BY <1>0, <2>1 DEF DialersHeld
<1>4. QuitSound'
  BY <1>0 DEF QuitSound, Quits, FW!NoCall
<1>. QED  BY <1>1, <1>2, <1>3, <1>4

LEMMA DisconnectKeeps ==
    ASSUME ForwardInv, FW!Disconnect
    PROVE  ForwardInv'
<1>. USE ForwardFields DEF ForwardInv
<1>0. /\ UNCHANGED <<fwd, bound, dialer, intents, alive, call, nextId, quitting, restarts, wished, late>>
      /\ sn.pc \in {"restoring", "up"} /\ sn' \in SessionRecord /\ sn'.pc = "unroute" /\ sn'.n = sn.n
      /\ disturbed' = (disturbed \/ quitting) /\ call["session"] = FW!NoCall
  BY SessionFields DEF FW!Disconnect
<1>1. ForwardsTyped'
  <2>1. disturbed' \in BOOLEAN
    BY <1>0 DEF ForwardsTyped
  <2>. QED  BY <1>0, <2>1, SessionStays DEF ForwardsTyped
<1>2. OwnsPorts(bound)' /\ OneOwner'
  BY <1>0 DEF OwnsPorts, OneOwner, Holds
<1>3. DialersHeld'
  <2>1. Routes' = Routes
    BY <1>0 DEF Routes
  <2>. QED  BY <1>0, <2>1 DEF DialersHeld
<1>4. QuitSound'
  BY <1>0 DEF QuitSound, FW!NoCall
<1>. QED  BY <1>1, <1>2, <1>3, <1>4

LEMMA StopRoutedKeeps ==
    ASSUME ForwardInv, FW!StopRouted
    PROVE  ForwardInv'
<1>. USE ForwardFields DEF ForwardInv
<1> DEFINE R == {g \in fwd : g.sess # 0}
<1>0. /\ UNCHANGED <<dialer, intents, alive, call, nextId, quitting, restarts, wished, disturbed>>
      /\ fwd' = fwd \ R /\ bound' = bound \ FW!SpecsOf(R)
      /\ late' = IF \E c \in FW!Callers : call[c].sess = sn.n THEN late \cup {sn.n} ELSE late
      /\ sn.pc = "unroute" /\ sn' \in SessionRecord /\ sn'.pc = "undial" /\ sn'.n = sn.n
  BY SessionFields DEF FW!StopRouted
<1>1. R \in SUBSET fwd /\ \A g \in fwd \ R : g.sess = 0
  OBVIOUS
<1>. HIDE DEF R
<1>2. sn.n \in 1..sn.n /\ late' \subseteq 1..sn.n /\ late \subseteq late'
  <2>1. sn.n \in 1..sn.n
    BY <1>0 DEF DialersHeld
  <2>2. late \subseteq 1..sn.n
    BY DEF ForwardsTyped
  <2>. QED  BY <1>0, <2>1, <2>2
<1>3. ForwardsTyped'
  BY <1>0, <1>1, <1>2 DEF ForwardsTyped, CallSound, FW!NoCall
<1>4. OwnsPorts(bound)' /\ OneOwner'
  BY <1>0, <1>1, OwnersLeave DEF Holds
<1>5. DialersHeld'
  <2>1. Routes' = {0} \cup late'
    BY <1>0 DEF Routes
  <2>2. \A g \in fwd' : g.sess \in Routes'
    BY <1>0, <1>1, <2>1
  <2>3. ASSUME NEW c \in FW!Callers
        PROVE  call'[c].sess \in Routes'
    <3>1. call[c].sess \in {0, dialer.sess} \cup late /\ dialer.sess \in {0, sn.n}
      BY <1>0 DEF DialersHeld, Routes
    <3>. QED  BY <1>0, <1>2, <2>1, <3>1
  <2>. QED  BY <1>0, <2>2, <2>3 DEF DialersHeld
<1>6. QuitSound'
  <2>1. quitting /\ ~disturbed => Quits(call["quit"])'
    BY <1>0 DEF QuitSound, Quits
  <2>. QED  BY <1>0, <2>1 DEF QuitSound, FW!NoCall
<1>. QED  BY <1>3, <1>4, <1>5, <1>6

LEMMA TargetGoneKeeps ==
    ASSUME ForwardInv, NEW s, FW!TargetGone(s)
    PROVE  ForwardInv'
<1>. USE DEF ForwardInv
<1>0. /\ UNCHANGED <<fwd, bound, dialer, intents, call, sn, nextId, quitting, restarts, wished, disturbed, late>>
      /\ alive' \subseteq alive
  BY DEF FW!TargetGone
<1>1. ForwardsTyped'
  BY <1>0 DEF ForwardsTyped, CallSound, FW!NoCall
<1>2. OwnsPorts(bound)' /\ OneOwner'
  BY <1>0 DEF OwnsPorts, OneOwner, Holds
<1>3. DialersHeld'
  BY <1>0 DEF DialersHeld, Routes
<1>4. QuitSound'
  BY <1>0 DEF QuitSound, Quits, FW!NoCall
<1>. QED  BY <1>1, <1>2, <1>3, <1>4

LEMMA ConnectKeeps ==
    ASSUME ForwardInv, NEW x1 \in ForwardContexts, NEW tun \in BOOLEAN, FW!Connect(x1, tun)
    PROVE  ForwardInv'
<1>. USE ForwardFields, NoCallFields DEF ForwardInv
<1>0. /\ sn.pc = "idle" /\ ~quitting
      /\ sn' = [n |-> sn.n + 1, ctx |-> x1, pc |-> "restoring"]
      /\ dialer' = IF tun THEN [ctx |-> x1, sess |-> sn.n + 1] ELSE dialer
      /\ UNCHANGED <<fwd, bound, intents, alive, nextId, quitting, restarts, wished, disturbed, late>>
  BY DEF FW!Connect
<1>1. /\ sn' \in SessionRecord /\ sn'.n = sn.n + 1 /\ sn'.pc = "restoring"
      /\ dialer' \in [ctx : ForwardContexts \cup {"none"}, sess : Nat]
      /\ dialer.sess = 0 /\ dialer'.sess \in {0, sn'.n}
  <2>1. dialer.sess = 0 /\ dialer \in [ctx : ForwardContexts \cup {"none"}, sess : Nat]
    BY <1>0 DEF DialersHeld, ForwardsTyped
  <2>2. sn' \in SessionRecord /\ sn'.n = sn.n + 1 /\ sn'.pc = "restoring"
    BY <1>0 DEF SessionRecord
  <2>. QED  BY <1>0, <2>1, <2>2
<1> DEFINE t == {s \in intents : s[1] = x1}
<1>2. t \in SUBSET (ForwardSpecs \cup ForwardRecord) /\ t \subseteq ForwardSpecs
  BY DEF ForwardsTyped
<1>3. FW!Begin("session", "restore", t)
  BY DEF FW!Connect
<1>. HIDE DEF t
<1>4. PICK x \in CallRecord : CallTo("session", x) /\ Begun("restore", t, x)
  BY <1>2, <1>3, BeginTo
<1>5. call["session"] = FW!NoCall
  BY <1>3 DEF FW!Begin
<1>6. ForwardsTyped'
  <2>1. \A d \in FW!Callers : CallSound(call'[d])
    BY <1>2, <1>4 DEF Begun, CallTo, CallSound
  <2>2. call' \in [FW!Callers -> CallRecord]
    BY <1>4 DEF CallTo
  <2>3. late' \subseteq 1..sn'.n
    BY <1>0, <1>1 DEF ForwardsTyped
  <2>. QED  BY <1>0, <1>1, <2>1, <2>2, <2>3 DEF ForwardsTyped, CallSound, FW!NoCall
<1>7. OwnsPorts(bound)' /\ OneOwner'
  BY <1>0, <1>4, <1>5, OwnersStay DEF Begun, Holds
<1>8. DialersHeld'
  <2>1. Routes \subseteq Routes' /\ 0 \in Routes'
    BY <1>0, <1>1 DEF Routes
  <2>2. \A d \in FW!Callers : call'[d].sess \in Routes'
    BY <1>4, <2>1 DEF DialersHeld, Begun, CallTo
  <2>. QED  BY <1>0, <1>1, <2>1, <2>2 DEF DialersHeld
<1>9. QuitSound'
  <2>1. call'["quit"] = call["quit"]
    BY <1>4 DEF CallTo
  <2>2. \A d \in FW!Callers \ {"quit"} : call'[d].op # "shutdown" /\ call'[d].pc \notin {"stopAll", "wait"}
    BY <1>4 DEF Begun, CallTo, QuitSound
  <2>. QED  BY <1>0, <1>1, <2>1, <2>2 DEF QuitSound, FW!NoCall
<1>. QED  BY <1>6, <1>7, <1>8, <1>9

LEMMA UnsetDialerKeeps ==
    ASSUME ForwardInv, FW!UnsetDialer
    PROVE  ForwardInv'
<1>. USE ForwardFields, NoCallFields DEF ForwardInv
<1>0. /\ sn.pc = "undial" /\ sn' \in SessionRecord /\ sn'.pc = "idle" /\ sn'.n = sn.n
      /\ dialer' \in [ctx : ForwardContexts \cup {"none"}, sess : Nat] /\ dialer'.sess = 0
      /\ UNCHANGED <<fwd, bound, intents, alive, nextId, quitting, restarts, wished, disturbed, late>>
  BY SessionFields DEF FW!UnsetDialer
<1>1. Routes' = Routes
  BY <1>0 DEF Routes
<1>2. CASE quitting
  <2>1. UNCHANGED call
    BY <1>2 DEF FW!UnsetDialer
  <2>2. ForwardsTyped'
    BY <1>0, <2>1, SessionStays DEF ForwardsTyped
  <2>3. OwnsPorts(bound)' /\ OneOwner'
    BY <1>0, <2>1 DEF OwnsPorts, OneOwner, Holds
  <2>4. DialersHeld'
    BY <1>0, <1>1, <2>1 DEF DialersHeld
  <2>5. QuitSound'
    <3>1. quitting /\ ~disturbed => Quits(call["quit"])'
      BY <1>0, <2>1 DEF QuitSound, Quits
    <3>. QED  BY <1>0, <1>2, <2>1, <3>1 DEF QuitSound, FW!NoCall
  <2>. QED  BY <2>2, <2>3, <2>4, <2>5
<1>3. CASE ~quitting
  <2> DEFINE e == Begins("persist", "list", {})
  <2>1. e \in CallRecord /\ e.op = "persist" /\ e.pc = "list" /\ e.todo = {} /\ e.sess = 0
    BY BeginsFields
  <2>2. FW!Go("session", e)
    BY <1>3 DEF FW!UnsetDialer, Begins, FW!NoCall
  <2>. HIDE DEF e
  <2>3. CallTo("session", e)
    <3>1. PICK x \in CallRecord : CallTo("session", x) /\ Goes(e, x)
      BY <2>1, <2>2, GoTo
    <3>. QED  BY <2>1, <3>1 DEF Goes
  <2>4. call["session"] = FW!NoCall
    BY <1>0, <1>3 DEF QuitSound
  <2>5. ForwardsTyped'
    <3>1. \A d \in FW!Callers : CallSound(call'[d])
      BY <2>1, <2>3 DEF CallTo, CallSound
    <3>2. call' \in [FW!Callers -> CallRecord]
      BY <2>3 DEF CallTo
    <3>. QED  BY <1>0, <3>1, <3>2 DEF ForwardsTyped, CallSound, FW!NoCall
  <2>6. OwnsPorts(bound)' /\ OneOwner'
    BY <1>0, <2>1, <2>3, <2>4, OwnersStay DEF Holds
  <2>7. DialersHeld'
    <3>1. \A d \in FW!Callers : call'[d].sess \in Routes
      <4>1. 0 \in Routes
        BY DEF Routes
      <4>. QED  BY <2>1, <2>3, <4>1 DEF DialersHeld, CallTo
    <3>. QED  BY <1>0, <1>1, <3>1 DEF DialersHeld
  <2>8. QuitSound'
    <3>1. call'["quit"] = call["quit"]
      BY <2>3 DEF CallTo
    <3>2. \A d \in FW!Callers \ {"quit"} : call'[d].op # "shutdown" /\ call'[d].pc \notin {"stopAll", "wait"}
      BY <2>1, <2>3 DEF CallTo, QuitSound
    <3>. QED  BY <1>0, <1>3, <3>1, <3>2 DEF QuitSound, FW!NoCall
  <2>. QED  BY <2>5, <2>6, <2>7, <2>8
<1>. QED  BY <1>2, <1>3

LEMMA ShutdownKeeps ==
    ASSUME ForwardInv, FW!Shutdown
    PROVE  ForwardInv'
<1>. USE ForwardFields, NoCallFields DEF ForwardInv
<1>0. /\ ~quitting /\ quitting' = TRUE /\ wished' = FW!SpecsOf(fwd)
      /\ disturbed' = (FW!Others("quit") \/ sn.pc \in {"unroute", "undial"})
      /\ UNCHANGED <<fwd, bound, dialer, intents, alive, sn, nextId, restarts, late>>
  BY DEF FW!Shutdown
<1> DEFINE e == Begins("shutdown", "list", {})
<1>1. e \in CallRecord /\ e.op = "shutdown" /\ e.pc = "list" /\ e.todo = {} /\ e.sess = 0
  BY BeginsFields
<1>2. FW!Go("quit", e)
  BY DEF FW!Shutdown, Begins, FW!NoCall
<1>. HIDE DEF e
<1>3. CallTo("quit", e)
  <2>1. PICK x \in CallRecord : CallTo("quit", x) /\ Goes(e, x)
    BY <1>1, <1>2, GoTo
  <2>. QED  BY <1>1, <2>1 DEF Goes
<1>4. call["quit"] = FW!NoCall
  BY <1>0 DEF QuitSound
<1>5. ForwardsTyped'
  <2>1. \A d \in FW!Callers : CallSound(call'[d])
    BY <1>1, <1>3 DEF CallTo, CallSound
  <2>2. call' \in [FW!Callers -> CallRecord]
    BY <1>3 DEF CallTo
  <2>3. wished' \subseteq ForwardSpecs
    BY <1>0, SpecsOfForwards
  <2>4. disturbed' \in BOOLEAN
    BY <1>0
  <2>. QED  BY <1>0, <2>1, <2>2, <2>3, <2>4 DEF ForwardsTyped, CallSound, FW!NoCall
<1>6. OwnsPorts(bound)' /\ OneOwner'
  BY <1>0, <1>1, <1>3, <1>4, OwnersStay DEF Holds
<1>7. DialersHeld'
  <2>1. Routes' = Routes /\ 0 \in Routes
    BY <1>0 DEF Routes
  <2>2. \A d \in FW!Callers : call'[d].sess \in Routes
    BY <1>1, <1>3, <2>1 DEF DialersHeld, CallTo
  <2>. QED  BY <1>0, <2>1, <2>2 DEF DialersHeld
<1>8. QuitSound'
  <2>1. call'["quit"] = e /\ \A d \in FW!Callers \ {"quit"} : call'[d] = call[d]
    BY <1>3 DEF CallTo
  <2>2. ~disturbed' => \A d \in FW!Callers \ {"quit"} : call[d] = FW!NoCall
    BY <1>0 DEF FW!Others
  <2>3. ~disturbed' => Quits(call["quit"])'
    <3>1. \A s : s \in wished' <=> \E g \in fwd : g.spec = s
      BY <1>0 DEF FW!SpecsOf
    <3>. QED  BY <1>0, <1>1, <2>1, <3>1 DEF Quits
  <2>4. \A d \in FW!Callers \ {"quit"} : call'[d].op # "shutdown" /\ call'[d].pc \notin {"stopAll", "wait"}
    BY <2>1 DEF QuitSound
  <2>. QED  BY <1>0, <1>1, <2>1, <2>2, <2>3, <2>4 DEF QuitSound, FW!NoCall
<1>. QED  BY <1>5, <1>6, <1>7, <1>8

LEMMA StopAllKeeps ==
    ASSUME ForwardInv, FW!StopAll
    PROVE  ForwardInv'
<1>. USE ForwardFields, NoCallFields DEF ForwardInv
<1>0. /\ call["quit"].pc = "stopAll" /\ fwd' = {} /\ bound' = bound \ FW!SpecsOf(fwd)
      /\ disturbed' = (disturbed \/ FW!Others("quit"))
      /\ sn' = IF sn.pc \in {"restoring", "up"} THEN [sn EXCEPT !.pc = "unroute"] ELSE sn
      /\ UNCHANGED <<dialer, intents, alive, nextId, quitting, restarts, wished, late>>
  BY DEF FW!StopAll
<1>1. quitting /\ call["quit"].op = "shutdown" /\ (~disturbed => Quits(call["quit"]))
  BY <1>0 DEF QuitSound
<1>2. /\ sn' \in SessionRecord /\ sn'.n = sn.n
      /\ (sn'.pc = "undial" <=> sn.pc = "undial") /\ (sn'.pc = "idle" <=> sn.pc = "idle")
  BY <1>0, SessionFields
<1> DEFINE e == Waits(call["quit"])
<1>3. e \in CallRecord /\ Keeps(call["quit"], e) /\ e.pc = "wait"
  BY WaitsFields DEF Keeps
<1>4. FW!Go("quit", e)
  BY DEF FW!StopAll, Waits
<1>. HIDE DEF e
<1>5. CallTo("quit", e)
  <2>1. PICK x \in CallRecord : CallTo("quit", x) /\ Goes(e, x)
    BY <1>3, <1>4, GoTo
  <2>. QED  BY <1>3, <2>1 DEF Goes
<1>6. call'["quit"] = e /\ \A d \in FW!Callers \ {"quit"} : call'[d] = call[d]
  BY <1>5 DEF CallTo
<1>7. ForwardsTyped'
  <2>1. \A d \in FW!Callers : CallSound(call'[d])
    BY <1>1, <1>3, <1>6 DEF CallSound, Keeps
  <2>2. call' \in [FW!Callers -> CallRecord]
    BY <1>5 DEF CallTo
  <2>3. disturbed' \in BOOLEAN
    BY <1>0 DEF ForwardsTyped
  <2>. QED  BY <1>0, <1>2, <2>1, <2>2, <2>3 DEF ForwardsTyped, CallSound, FW!NoCall
<1>8. OwnsPorts(bound)' /\ OneOwner'
  <2>1. \A d \in FW!Callers : (Holds(d)' <=> Holds(d)) /\ (Holds(d) => call'[d].spec = call[d].spec)
    BY <1>0, <1>3, <1>6 DEF Holds
  <2>2. fwd \in SUBSET fwd /\ fwd' = fwd \ fwd
    BY <1>0
  <2>. QED  BY <1>0, <2>1, <2>2, OwnersLeave
<1>9. DialersHeld'
  <2>1. Routes' = Routes /\ 0 \in Routes
    BY <1>0, <1>2 DEF Routes
  <2>2. \A d \in FW!Callers : call'[d].sess \in Routes
    BY <1>3, <1>6, <2>1 DEF DialersHeld, Keeps
  <2>. QED  BY <1>0, <1>2, <2>1, <2>2 DEF DialersHeld
<1>10. QuitSound'
  <2>1. ~disturbed' => (\A d \in FW!Callers \ {"quit"} : call'[d] = FW!NoCall) /\ Quits(call["quit"])'
    <3>1. ~disturbed' => \A d \in FW!Callers \ {"quit"} : call[d] = FW!NoCall
      BY <1>0 DEF FW!Others
    <3>2. ~disturbed' => Quits(call["quit"])'
      BY <1>0, <1>1, <1>3, <1>6 DEF Quits
    <3>. QED  BY <1>6, <3>1, <3>2
  <2>2. \A d \in FW!Callers \ {"quit"} : call'[d].op # "shutdown" /\ call'[d].pc \notin {"stopAll", "wait"}
    BY <1>6 DEF QuitSound
  <2>3. call'["quit"].op = "shutdown" /\ call'["quit"].pc = "wait"
    BY <1>1, <1>3, <1>6 DEF Keeps
  <2>. QED  BY <1>0, <1>1, <2>1, <2>2, <2>3 DEF QuitSound, FW!NoCall
<1>. QED  BY <1>7, <1>8, <1>9, <1>10

(* Nothing is open and nobody works but the call that restores forwards.   *)
LEMMA FreshDesktop ==
    ASSUME ForwardsTyped', fwd' = {}, bound' = {}, dialer'.sess = 0, sn'.pc = "idle", ~quitting',
           \A c \in FW!Callers : /\ call'[c].sess = 0 /\ call'[c].pc \in {"none", "next"} /\ call'[c].op # "shutdown"
                                 /\ c # "startup" => call'[c] = FW!NoCall
    PROVE  ForwardInv'
<1>1. OwnsPorts(bound)' /\ OneOwner'
  BY DEF OwnsPorts, OneOwner, Holds
<1>2. DialersHeld'
  BY DEF DialersHeld, Routes
<1>3. QuitSound'
  <2>1. {"quit", "session"} \subseteq FW!Callers
    BY DEF FW!Callers
  <2>. QED  BY <2>1 DEF QuitSound, FW!NoCall
<1>. QED  BY <1>1, <1>2, <1>3 DEF ForwardInv

LEMMA RestartedKeeps ==
    ASSUME ForwardInv, FW!Restarted
    PROVE  ForwardInv'
<1>. USE ForwardFields, NoCallFields DEF ForwardInv
<1>0. /\ fwd' = {} /\ bound' = {} /\ quitting' = FALSE
      /\ late' = {} /\ wished' = {} /\ disturbed' = FALSE
      /\ restarts < ForwardRestarts /\ restarts' = restarts + 1 /\ UNCHANGED <<intents, alive, nextId>>
      /\ sn' \in SessionRecord /\ sn'.pc = "idle" /\ sn'.n = sn.n
      /\ dialer' \in [ctx : ForwardContexts \cup {"none"}, sess : Nat] /\ dialer'.sess = 0
  BY SessionFields DEF FW!Restarted
<1> DEFINE e == Begins("restore", "next", intents)
<1>1. intents \subseteq ForwardSpecs /\ intents \in SUBSET (ForwardSpecs \cup ForwardRecord)
  BY DEF ForwardsTyped
<1>2. e \in CallRecord /\ e.op = "restore" /\ e.pc = "next" /\ e.todo = intents /\ e.sess = 0
  BY <1>1, BeginsFields
<1>3. call' = [c \in FW!Callers |-> IF c # "startup" THEN FW!NoCall
                                    ELSE IF intents = {} THEN FW!NoCall ELSE e]
  BY DEF FW!Restarted, Begins
<1>. HIDE DEF e
<1>4. /\ call' \in [FW!Callers -> CallRecord]
      /\ \A c \in FW!Callers : call'[c] \in {FW!NoCall, e} /\ (c # "startup" => call'[c] = FW!NoCall)
  BY <1>2, <1>3
<1>5. ForwardsTyped'
  <2>1. \A d \in FW!Callers : CallSound(call'[d])
    BY <1>1, <1>2, <1>4 DEF CallSound
  <2>2. restarts' \in 0..ForwardRestarts
    BY <1>0, ForwardNames DEF ForwardsTyped
  <2>. QED  BY <1>0, <1>4, <2>1, <2>2 DEF ForwardsTyped, CallSound, FW!NoCall
<1>6. \A c \in FW!Callers : /\ call'[c].sess = 0 /\ call'[c].pc \in {"none", "next"} /\ call'[c].op # "shutdown"
                            /\ c # "startup" => call'[c] = FW!NoCall
  BY <1>2, <1>4
<1>. QED  BY <1>0, <1>5, <1>6, FreshDesktop

LEMMA ForwardsBegin ==
    ASSUME FW!Init
    PROVE  ForwardInv
<1>. USE NoCallFields DEF FW!Init
<1>1. /\ call \in [FW!Callers -> CallRecord] /\ \A c \in FW!Callers : call[c] = FW!NoCall
      /\ {"quit", "session"} \subseteq FW!Callers
  BY DEF FW!Callers
<1>2. /\ sn \in SessionRecord /\ sn.n = 0 /\ sn.pc = "idle" /\ dialer.sess = 0
      /\ dialer \in [ctx : ForwardContexts \cup {"none"}, sess : Nat]
  BY DEF SessionRecord, FW!NoSession, FW!NoDialer
<1>3. ForwardsTyped
  <2>1. \A c \in FW!Callers : CallSound(call[c])
    BY <1>1 DEF CallSound
  <2>2. nextId \in 0..ForwardStarts /\ restarts \in 0..ForwardRestarts
    BY ForwardNames
  <2>. QED  BY <1>1, <1>2, <2>1, <2>2 DEF ForwardsTyped, ForwardSpecs
<1>4. OwnsPorts(bound) /\ OneOwner
  BY <1>1 DEF OwnsPorts, OneOwner, Holds
<1>5. DialersHeld
  BY <1>1, <1>2 DEF DialersHeld, Routes
<1>6. QuitSound
  BY <1>1, <1>2 DEF QuitSound
<1>. QED  BY <1>3, <1>4, <1>5, <1>6 DEF ForwardInv

LEMMA ForwardStepKeeps ==
    ASSUME ForwardInv, FW!Next
    PROVE  ForwardInv'
<1>1. ASSUME NEW c \in FW!Callers, FW!Steps(c)
      PROVE  ForwardInv'
  BY <1>1, ReadDialerKeeps, ListenKeeps, PublishKeeps, UnpublishKeeps, CloseKeeps, PersistListKeeps,
     PersistWriteKeeps, ClearIntentsKeeps DEF FW!Steps
<1>2. ASSUME NEW c \in ForwardUsers, FW!UserCalls(c)
      PROVE  ForwardInv'
  BY <1>2, UserCallsKeeps
<1>3. ASSUME NEW x \in ForwardContexts, NEW tun \in BOOLEAN, FW!Connect(x, tun)
      PROVE  ForwardInv'
  BY <1>3, ConnectKeeps
<1>4. ASSUME NEW s \in ForwardTargets \X ForwardMortal, FW!TargetGone(s)
      PROVE  ForwardInv'
  BY <1>4, TargetGoneKeeps
<1>5. CASE FW!Connected \/ FW!Disconnect \/ FW!Teardown \/ FW!ApplyInventory
  BY <1>5, ConnectedKeeps, DisconnectKeeps, StopRoutedKeeps, UnsetDialerKeeps, InventoryKeeps DEF FW!Teardown
<1>6. CASE FW!Shutdown \/ FW!StopAll \/ FW!Exit \/ FW!Crash
  BY <1>6, ShutdownKeeps, StopAllKeeps, RestartedKeeps DEF FW!Exit, FW!Crash
<1>. QED  BY <1>1, <1>2, <1>3, <1>4, <1>5, <1>6 DEF FW!Next

LEMMA ForwardInvSuffices ==
    ASSUME ForwardInv
    PROVE  FW!TypeOK /\ FW!PortsOwned /\ FW!RoutedIsCurrent /\ FW!ShutdownKeepsIntents
<1>. USE ForwardFields, NoCallFields DEF ForwardInv
<1>1. FW!TypeOK
  <2>1. \A g \in fwd : g.id \in 1..nextId /\ g.spec \in ForwardTargets \X ForwardNetworks /\ g.sess \in 0..sn.n
    <3>1. ASSUME NEW g \in fwd
          PROVE  g.sess \in 0..sn.n
      <4>1. g.sess \in {0, dialer.sess} \cup late /\ dialer.sess \in {0, sn.n}
        BY DEF DialersHeld, Routes
      <4>2. late \subseteq 1..sn.n
        BY DEF ForwardsTyped
      <4>. QED  BY <4>1, <4>2
    <3>2. \A g \in fwd : g.id \in 1..nextId
      BY DEF ForwardsTyped
    <3>. QED  BY <3>1, <3>2 DEF ForwardSpecs
  <2>2. bound \cup intents \cup alive \cup wished \subseteq ForwardTargets \X ForwardNetworks
    BY DEF ForwardsTyped, ForwardSpecs
  <2>3. dialer \in [ctx : ForwardContexts \cup {"none"}, sess : 0..sn.n]
    <3>1. dialer \in [ctx : ForwardContexts \cup {"none"}, sess : Nat]
      BY DEF ForwardsTyped
    <3>2. dialer.sess \in 0..sn.n
      BY DEF DialersHeld
    <3>. QED  BY <3>1, <3>2
  <2>4. \A c \in FW!Callers : call[c] # FW!NoCall =>
           call[c].op \in {"start", "stop", "reset", "restore", "watch", "persist", "shutdown"}
    <3>1. \A x \in CallRecord :
             x.op \in {"none", "start", "stop", "reset", "restore", "watch", "persist", "shutdown"}
      BY DEF CallRecord
    <3>. QED  BY <3>1
  <2>5. /\ nextId \in 0..ForwardStarts /\ restarts \in 0..ForwardRestarts
        /\ quitting \in BOOLEAN /\ disturbed \in BOOLEAN /\ late \subseteq 1..sn.n
    BY DEF ForwardsTyped
  <2>. QED  BY <2>1, <2>2, <2>3, <2>4, <2>5 DEF FW!TypeOK
<1>2. FW!PortsOwned
  BY DEF OwnsPorts, Holds, FW!PortsOwned, FW!SpecsOf
<1>3. FW!RoutedIsCurrent
  BY DEF DialersHeld, Routes, FW!RoutedIsCurrent
<1>4. FW!ShutdownKeepsIntents
  <2>1. call["quit"].pc = "wait" => quitting
    BY DEF QuitSound
  <2>. QED  BY <2>1 DEF QuitSound, Quits, FW!ShutdownKeepsIntents
<1>. QED  BY <1>1, <1>2, <1>3, <1>4

(* Whatever the order of starts, stops, resets, connects, disconnects,     *)
(* inventory callbacks, quits and crashes: an open local port has an owner *)
(* that will close it, no forward outlives its session unless it started   *)
(* during the teardown, and an undisturbed shutdown keeps every active     *)
(* forward for the next launch.                                            *)
THEOREM ForwardsAreKept == Spec => []ForwardsKept
<1> DEFINE Inv == model = "forwards" => ForwardInv
<1>1. Init => Inv
  BY ForwardsBegin DEF Init
<1>2. Inv /\ [Next]_vars => Inv'
  <2> SUFFICES ASSUME Inv, [Next]_vars, model = "forwards"  PROVE ForwardInv'
    BY OneRuns
  <2>1. ForwardInv /\ [FW!Next]_fwVars
    BY OneRuns
  <2>2. CASE UNCHANGED fwVars
    <3>. USE <2>1, <2>2 DEF fwVars, ForwardInv
    <3>1. ForwardsTyped'
      BY DEF ForwardsTyped, CallSound, FW!NoCall
    <3>2. OwnsPorts(bound)' /\ OneOwner'
      BY DEF OwnsPorts, OneOwner, Holds
    <3>3. DialersHeld'
      BY DEF DialersHeld, Routes
    <3>4. QuitSound'
      BY DEF QuitSound, Quits, FW!NoCall
    <3>. QED  BY <3>1, <3>2, <3>3, <3>4
  <2>. QED  BY <2>1, <2>2, ForwardStepKeeps
<1>3. Inv => ForwardsKept
  BY ForwardInvSuffices DEF ForwardsKept
<1>. QED  BY <1>1, <1>2, <1>3, PTL DEF Spec
=============================================================================
