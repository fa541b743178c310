--------------------------------- MODULE Sftp ---------------------------------
(***************************************************************************)
(* SFTP on a Pod without an SFTP server (src/internal/podssh/sftp.go): a   *)
(* handle works on a local temporary file.  Opening fetches the Pod's file *)
(* with tar, closing a written handle sends the temporary file back.  The  *)
(* handles of a session, over one file of a few blocks, with commands that *)
(* fail on the way.                                                        *)
(***************************************************************************)
EXTENDS Naturals, FiniteSets

CONSTANTS
    Handles,    \* positive numbers; each is opened once
    Blocks,     \* of the file
    MaxFaults   \* bound: commands that fail, changes made in the Pod

Hole == 0                 \* a block that is not there
Old == 99                 \* a block from before the session
Blank == [b \in Blocks |-> Hole]
Missing == [exists |-> FALSE, data |-> Blank]
Flags == [trunc : BOOLEAN, creat : BOOLEAN, excl : BOOLEAN]
NoHandle == [pc |-> "none", write |-> FALSE, trunc |-> FALSE, creat |-> FALSE,
             data |-> Blank, base |-> Missing, fetched |-> FALSE, wrote |-> {}]

VARIABLES
    remote,   \* the file in the Pod
    hs,       \* the handles
    temps,    \* temporary files that exist, by the handle that made them
    faults,
    live      \* the connection of the session is up

vars == <<remote, hs, temps, faults, live>>

Values == Handles \cup {Hole, Old}
TypeOK ==
    /\ remote.data \in [Blocks -> Values] /\ temps \subseteq Handles
    /\ \A h \in Handles :
         /\ hs[h].pc \in {"none", "check", "fetch", "open", "send", "closed", "failed"}
         /\ hs[h].data \in [Blocks -> Values] /\ hs[h].wrote \subseteq Blocks

Init ==
    /\ remote \in {Missing, [exists |-> TRUE, data |-> [b \in Blocks |-> Old]]}
    /\ hs = [h \in Handles |-> NoHandle] /\ temps = {} /\ faults = 0 /\ live = TRUE

-----------------------------------------------------------------------------
Fault == faults < MaxFaults /\ faults' = faults + 1
Ok == UNCHANGED faults
Become(h, r) == hs' = [hs EXCEPT ![h] = r]
(* A handle that is over keeps nothing but its outcome.                    *)
Over(h, pc) == Become(h, [NoHandle EXCEPT !.pc = pc]) /\ temps' = temps \ {h}

Fileread(h) ==
    /\ live /\ hs[h].pc = "none"
    /\ Become(h, [NoHandle EXCEPT !.pc = "fetch"]) /\ temps' = temps \cup {h}
    /\ UNCHANGED <<remote, faults, live>>

(* Filewrite.  With EXCL a stat that succeeds refuses the open; one that   *)
(* fails, for whatever reason, lets it go on.                              *)
Filewrite(h, f) ==
    /\ live /\ hs[h].pc = "none"
    /\ LET r == [NoHandle EXCEPT !.write = TRUE, !.trunc = f.trunc, !.creat = f.creat]
       IN IF f.excl THEN Become(h, [r EXCEPT !.pc = "check"]) /\ UNCHANGED temps
          ELSE Become(h, [r EXCEPT !.pc = "fetch"]) /\ temps' = temps \cup {h}
    /\ UNCHANGED <<remote, faults, live>>

Stat(h) ==
    /\ hs[h].pc = "check"
    /\ \/ remote.exists /\ Over(h, "failed") /\ Ok
       \/ /\ IF remote.exists THEN Fault ELSE Ok
          /\ Become(h, [hs[h] EXCEPT !.pc = "fetch"]) /\ temps' = temps \cup {h}
    /\ UNCHANGED <<remote, live>>

FetchTruncates(h) ==  \* mutant: an update starts from an empty file
    /\ hs[h].pc = "fetch"
    /\ Become(h, [hs[h] EXCEPT !.pc = "open", !.base = remote, !.fetched = TRUE]) /\ Ok
    /\ UNCHANGED <<remote, temps, live>>

(* downloadFile, or an empty file for TRUNC; after a failed download CREAT *)
(* starts from an empty file too.                                          *)
Fetch(h) ==
    /\ hs[h].pc = "fetch"
    /\ \/ /\ hs[h].trunc /\ Ok
          /\ Become(h, [hs[h] EXCEPT !.pc = "open", !.fetched = TRUE]) /\ UNCHANGED temps
       \/ /\ ~hs[h].trunc /\ remote.exists /\ Ok
          /\ Become(h, [hs[h] EXCEPT !.pc = "open", !.data = remote.data, !.base = remote,
                                     !.fetched = TRUE])
          /\ UNCHANGED temps
       \/ /\ ~hs[h].trunc /\ IF remote.exists THEN Fault ELSE Ok
          /\ IF hs[h].creat
             THEN /\ Become(h, [hs[h] EXCEPT !.pc = "open", !.fetched = ~remote.exists])
                  /\ UNCHANGED temps
             ELSE Over(h, "failed")
    /\ UNCHANGED <<remote, live>>

WriteAt(h, b) ==
    /\ live /\ hs[h].pc = "open" /\ hs[h].write
    /\ Become(h, [hs[h] EXCEPT !.data[b] = h, !.wrote = @ \cup {b}])
    /\ UNCHANGED <<remote, temps, faults, live>>

(* Close, by the client or by the SFTP server when the connection is lost: *)
(* once per handle.                                                        *)
CloseHandle(h) ==
    /\ hs[h].pc = "open"
    /\ IF hs[h].write THEN Become(h, [hs[h] EXCEPT !.pc = "send"]) /\ UNCHANGED temps
       ELSE Over(h, "closed")
    /\ UNCHANGED <<remote, faults, live>>

(* upload: tar in the Pod overwrites the file from the front, and may fail *)
(* before, within or after it.                                             *)
Front(data, n) == [b \in Blocks |-> IF b <= n THEN data[b] ELSE Hole]
Upload(h) ==
    /\ hs[h].pc = "send"
    /\ \/ remote' = [exists |-> TRUE, data |-> hs[h].data] /\ Over(h, "closed") /\ Ok
       \/ /\ Fault /\ Over(h, "failed")
          /\ \/ UNCHANGED remote
             \/ \E n \in 0..Cardinality(Blocks) :
                  remote' = [exists |-> TRUE, data |-> Front(hs[h].data, n)]
    /\ UNCHANGED live

(* Filecmd: Remove and Rename; the others leave the contents alone.        *)
Filecmd ==
    /\ live /\ remote.exists /\ Fault /\ remote' = Missing
    /\ UNCHANGED <<hs, temps, live>>

ConnectionLost ==
    /\ live /\ live' = FALSE
    /\ UNCHANGED <<remote, hs, temps, faults>>

Next ==
    \/ \E h \in Handles :
         \/ Fileread(h) \/ Stat(h) \/ Fetch(h) \/ CloseHandle(h) \/ Upload(h)
         \/ \E f \in Flags : Filewrite(h, f)
         \/ \E b \in Blocks : WriteAt(h, b)
    \/ Filecmd \/ ConnectionLost

Spec == Init /\ [][Next]_vars

-----------------------------------------------------------------------------
(* Every temporary file belongs to a handle that will remove it: one that  *)
(* is open or on its way, whatever failed.                                 *)
TempsOwned == temps = {h \in Handles : hs[h].pc \in {"fetch", "open", "send"}}

(* What an upload that is reported as done has put into the Pod: the       *)
(* blocks the client wrote, and otherwise those of the file it opened, if  *)
(* the download that opened it worked.                                     *)
Sent(h) == [b \in Blocks |-> IF b \in hs[h].wrote THEN h ELSE hs[h].base.data[b]]
UploadFaithful ==
    [][\A h \in Handles :
         hs[h].pc = "send" /\ hs'[h].pc = "closed" /\ hs[h].fetched => remote'.data = Sent(h)]_vars
=============================================================================
