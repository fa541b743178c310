-------------------------------- MODULE Tee --------------------------------
(***************************************************************************)
(* What Service Mirror promises about one mirrored stream: Primary gets    *)
(* the request payloads in order, Shadow gets a prefix of the same         *)
(* payloads in the same order, and once the copy is given up it stays so.  *)
(* Neither waits for the other.                                            *)
(***************************************************************************)
EXTENDS Naturals, Sequences

CONSTANT MaxChunks   \* bound: request payloads of the stream

VARIABLES sent,      \* payloads the client has sent: 1..sent
          primary,   \* payloads Primary has been given: 1..primary
          shadow,    \* the payloads the local process has been given
          gaveUp     \* there is no copy, or it has been given up

teeVars == <<sent, primary, shadow, gaveUp>>

TeeInit == sent = 0 /\ primary = 0 /\ shadow = <<>> /\ gaveUp \in BOOLEAN

Send == sent < MaxChunks /\ sent' = sent + 1 /\ UNCHANGED <<primary, shadow, gaveUp>>
ToPrimary == primary < sent /\ primary' = primary + 1
             /\ UNCHANGED <<sent, shadow, gaveUp>>
ToShadow == /\ ~gaveUp /\ Len(shadow) < sent
            /\ shadow' = Append(shadow, Len(shadow) + 1)
            /\ UNCHANGED <<sent, primary, gaveUp>>
GiveUp == gaveUp' = TRUE /\ UNCHANGED <<sent, primary, shadow>>

TeeNext == Send \/ ToPrimary \/ ToShadow \/ GiveUp
TeeSpec == TeeInit /\ [][TeeNext]_teeVars
=============================================================================
