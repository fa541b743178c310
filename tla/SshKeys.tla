-------------------------------- MODULE SshKeys --------------------------------
(***************************************************************************)
(* The keys of Pod SSH (src/internal/podssh/keys.go): the host key of the  *)
(* server, and the user's own identities in ~/.ssh, one of which is made   *)
(* if there is none.  Files are written in steps, each may fail, and the   *)
(* application may die between any two of them.                            *)
(***************************************************************************)
EXTENDS Naturals, FiniteSets

CONSTANTS
    MaxLaunches,   \* bound: launches of the application
    MaxFaults      \* bound: writes that fail

(* A file: absent, empty or half written, unreadable without a passphrase, *)
(* or a key.  Keys are numbers; the user's own are 1 and 2.                *)
Absent == [kind |-> "absent", key |-> 0]
Partial == [kind |-> "partial", key |-> 0]
Locked(k) == [kind |-> "locked", key |-> k]
Key(k) == [kind |-> "key", key |-> k]
OldFormat(k) == [kind |-> "pem", key |-> k]
User == {"ed", "ed.pub", "rsa", "rsa.pub"}

VARIABLES
    file,      \* the four files of the user
    host,      \* ssh_host_ed25519
    proc,      \* the step of the application
    hold,      \* the key it has generated, and the host key it serves with
    keys,      \* clientKeys of this launch
    identity,  \* clientIdentityPath
    next,      \* the next key that is generated
    launches, faults,
    ours       \* history: the files of ~/.ssh the application made

vars == <<file, host, proc, hold, keys, identity, next, launches, faults, ours>>

TypeOK ==
    /\ DOMAIN file = User /\ identity \in User \cup {"none"} /\ ours \subseteq User
    /\ proc \in {"off", "host", "install", "user", "private", "public", "ready", "error"}

Init ==
    /\ file \in {f \in [User -> {Absent, Partial, Key(1), Key(2), Locked(1), Locked(2)}] :
                   /\ f["ed"] \in {Absent, Partial, Key(1), Locked(1)}
                   /\ f["rsa"] \in {Absent, Partial, Key(2), Locked(2)}
                   /\ f["ed.pub"] \in {Absent, Partial, Key(1)} /\ f["rsa.pub"] \in {Absent, Key(2)}}
    /\ host \in {Absent, Partial, Key(3), OldFormat(3)}
    /\ proc = "off" /\ hold = [gen |-> 0, host |-> 0] /\ keys = {} /\ identity = "none"
    /\ next = 4 /\ launches = 0 /\ faults = 0 /\ ours = {}

Launch ==
    /\ proc = "off" /\ launches < MaxLaunches /\ launches' = launches + 1
    /\ proc' = "host" /\ UNCHANGED <<file, host, hold, keys, identity, next, faults, ours>>

(* The application ends, or dies.                                          *)
Exit ==
    /\ proc # "off" /\ proc' = "off" /\ hold' = [gen |-> 0, host |-> 0]
    /\ keys' = {} /\ identity' = "none"
    /\ UNCHANGED <<file, host, next, launches, faults, ours>>

-----------------------------------------------------------------------------
(* loadOrCreateSigner: a key in an older format is rewritten, a missing    *)
(* one is generated, one that cannot be read is an error.                  *)
LoadHostKey ==
    /\ proc = "host"
    /\ \/ /\ host.kind = "key" /\ proc' = "user"
          /\ hold' = [hold EXCEPT !.host = host.key] /\ UNCHANGED next
       \/ host.kind = "partial" /\ proc' = "error" /\ UNCHANGED <<hold, next>>
       \/ /\ host.kind \in {"absent", "pem"} /\ proc' = "install"
          /\ hold' = [hold EXCEPT !.gen = IF host = Absent THEN next ELSE host.key]
          /\ next' = IF host = Absent THEN next + 1 ELSE next
    /\ UNCHANGED <<file, host, keys, identity, launches, faults, ours>>

InstallInPlace ==  \* mutant: the file is truncated and then written
    /\ proc = "install"
    /\ host' = Partial /\ proc' = "error" /\ UNCHANGED <<hold, faults>>
    /\ UNCHANGED <<file, keys, identity, next, launches, ours>>

(* writeOpenSSHPrivateKey: a temporary file and a rename.                  *)
InstallHostKey ==
    /\ proc = "install"
    /\ \/ /\ host' = Key(hold.gen) /\ hold' = [gen |-> 0, host |-> hold.gen]
          /\ proc' = "user" /\ UNCHANGED faults
       \/ /\ faults < MaxFaults /\ faults' = faults + 1 /\ proc' = "error"
          /\ UNCHANGED <<host, hold>>
    /\ UNCHANGED <<file, keys, identity, next, launches, ours>>

-----------------------------------------------------------------------------
(* What an identity adds to the authorized keys: its own public key, that  *)
(* of the .pub file when the private one cannot be read.                   *)
Public(n) == IF n = "ed" THEN file["ed.pub"] ELSE file["rsa.pub"]
Usable(n) ==
    CASE file[n].kind = "key" -> {file[n].key}
      [] file[n].kind # "key" /\ Public(n).kind = "key" -> {Public(n).key}
      [] OTHER -> {}
HasPrivate(n) == file[n] # Absent /\ Usable(n) # {}
Occupied == file["ed"] # Absent \/ file["ed.pub"] # Absent
Known == Usable("ed") \cup Usable("rsa")

(* loadOrCreateUserSSHKeys: use what is there; make id_ed25519 only where  *)
(* neither of its files exists.                                            *)
LoadUserKeys ==
    /\ proc = "user"
    /\ \/ /\ Known # {} /\ keys' = Known /\ proc' = "ready"
          /\ identity' = IF HasPrivate("ed") THEN "ed" ELSE IF HasPrivate("rsa") THEN "rsa" ELSE "none"
          /\ UNCHANGED <<hold, next>>
       \/ /\ Known = {} /\ Occupied /\ proc' = "error" /\ UNCHANGED <<keys, identity, hold, next>>
       \/ /\ Known = {} /\ ~Occupied /\ proc' = "private"
          /\ hold' = [hold EXCEPT !.gen = next] /\ next' = next + 1 /\ UNCHANGED <<keys, identity>>
    /\ UNCHANGED <<file, host, launches, faults, ours>>

(* writeNewFile creates the file exclusively and then writes it; if it     *)
(* fails to write, it removes what it created.                             *)
CreateNew(n) ==
    /\ proc = (IF n = "ed" THEN "private" ELSE "public") /\ n \notin ours
    /\ IF file[n] = Absent
       THEN /\ file' = [file EXCEPT ![n] = Partial] /\ ours' = ours \cup {n} /\ UNCHANGED proc
       ELSE /\ proc' = "error"    \* and the private file is removed again
            /\ file' = IF n = "ed.pub" THEN [file EXCEPT !["ed"] = Absent] ELSE file
            /\ ours' = ours \ {"ed"}
    /\ UNCHANGED <<host, hold, keys, identity, next, launches, faults>>

WriteNew(n) ==
    /\ proc = (IF n = "ed" THEN "private" ELSE "public") /\ n \in ours
    /\ file' = [file EXCEPT ![n] = Key(hold.gen)]
    /\ IF n = "ed" THEN proc' = "public" /\ UNCHANGED <<keys, identity>>
       ELSE proc' = "ready" /\ keys' = {hold.gen} /\ identity' = "ed"
    /\ UNCHANGED <<host, hold, next, launches, faults, ours>>

WriteFails ==
    /\ proc \in {"private", "public"} /\ faults < MaxFaults /\ faults' = faults + 1
    /\ file' = [n \in User |-> IF n \in ours THEN Absent ELSE file[n]]
    /\ ours' = {} /\ proc' = "error"
    /\ UNCHANGED <<host, hold, keys, identity, next, launches>>

(* The user makes a file of the pair with other tools meanwhile.           *)
UserMakes(n) ==
    /\ file[n] = Absent /\ file' = [file EXCEPT ![n] = Key(1)]
    /\ UNCHANGED <<host, proc, hold, keys, identity, next, launches, faults, ours>>

Next ==
    \/ Launch \/ Exit \/ LoadHostKey \/ InstallHostKey \/ LoadUserKeys
    \/ \E n \in {"ed", "ed.pub"} : CreateNew(n) \/ WriteNew(n) \/ UserMakes(n)
    \/ WriteFails

Spec == Init /\ [][Next]_vars

-----------------------------------------------------------------------------
(* README.md: an identity is made "without overwriting an existing" one.   *)
(* Whatever fails and whenever the application dies, a file in ~/.ssh that *)
(* it did not make stays as it is, and the host key clients know stays the *)
(* host key.                                                               *)
KeysKept ==
    [][/\ \A n \in User \ ours : file[n] # Absent => file'[n] = file[n]
       /\ host.key # 0 => host'.key = host.key]_vars
=============================================================================
