------------------------------- MODULE Tunnel -------------------------------
(***************************************************************************)
(* What the connections between desktop and gateway carry                  *)
(* (src/internal/tunnel): the header that opens a connection, its request  *)
(* or stream id, the status that answers it, control messages, datagrams;  *)
(* and the SOCKS addresses of src/internal/traffic/socks.go.  The wire is  *)
(* a sequence of fields with their width in bytes; a text is known by its  *)
(* length.  A reader asks for numbers of bytes and does not see where      *)
(* fields end, so that one that asks for a wrong number gets garbage.      *)
(***************************************************************************)
EXTENDS Naturals, Sequences, SequencesExt

CONSTANT MaxMessages   \* bound: messages per connection

maxHostSize == 1024
maxErrorSize == 4096
maxIDSize == 256
MaxDatagramSize == 65507
MaxControlSize == maxHostSize + maxIDSize + 32
Networks == {1, 2}
CommandAccept == 4

Field(w, v) == <<[w |-> w, v |-> v]>>
Byte(n) == Field(1, n % 256)
U16(n) == Field(2, n % 65536)
U64(n) == Field(8, n)
Text(n) == IF n = 0 THEN <<>> ELSE Field(n, n)
Width(s) ==
    LET upTo[i \in 0..Len(s)] == IF i = 0 THEN 0 ELSE upTo[i - 1] + s[i].w
    IN upTo[Len(s)]

VARIABLES
    kind,     \* what the connection carries
    sent,     \* messages the writer has accepted
    wire,     \* fields on their way
    cut,      \* the connection is broken, or the writer has closed it
    got,      \* messages the reader has delivered
    reader    \* reading, failed on what it read, or at the end of the stream

vars == <<kind, sent, wire, cut, got, reader>>

(* Messages around every limit the code has.                               *)
Ids == {0, 1, maxIDSize, maxIDSize + 1}
Ports == {0, 1, 65535}
Messages ==
    [control  |-> [type : {"register"}, id : Ids, net : 0..3, port : Ports]
                  \cup [type : {"unregister"}, id : Ids] \cup [type : {"ack"}]
                  \cup [type : {"ready"}, id : Ids, net : 0..3, stream : {0, 1}]
                  \cup [type : {"error"}, text : {0, 1, MaxControlSize, MaxControlSize + 1,
                                                  maxErrorSize + 1}],
     datagram |-> [type : {"datagram"}, text : {0, 1, MaxDatagramSize, MaxDatagramSize + 1}],
     open     |-> [type : {"open"}, token : {0, 1}, command : 1..3, port : Ports,
                   host : {0, 1, maxHostSize, maxHostSize + 1}],
     accept   |-> [type : {"accept"}, token : {0, 1}, stream : {0, 1}],
     status   |-> [type : {"status"}, ok : {TRUE}, text : {0}]
                  \cup [type : {"status"}, ok : {FALSE}, text : {0, 1, maxErrorSize, maxErrorSize + 1}],
     socks    |-> [type : {"socks"}, host : {"v4", "v6"} \cup {"name"}, size : {0, 1, 255, 256},
                   port : Ports]]

Init ==
    /\ kind \in DOMAIN Messages /\ sent = <<>> /\ wire = <<>> /\ cut = FALSE
    /\ got = <<>> /\ reader = "reading"

TypeOK == reader \in {"reading", "failed", "ended"} /\ Len(sent) <= MaxMessages

-----------------------------------------------------------------------------
(* The checks of the writers, encodeControlPayload first.                  *)
ValidID(n) == n \in 1..maxIDSize
Accepts(m) ==
    CASE m.type = "register" -> ValidID(m.id) /\ m.net \in Networks /\ m.port # 0
      [] m.type = "unregister" -> ValidID(m.id)
      [] m.type = "ready" -> ValidID(m.id) /\ m.stream # 0 /\ m.net \in Networks
      [] m.type = "error" -> m.text # 0
      [] m.type = "datagram" -> m.text \in 1..MaxDatagramSize
      [] m.type = "open" -> m.token # 0 /\ m.command \in {1, 2} /\ m.port # 0
                            /\ m.host \in 1..maxHostSize
      [] m.type = "accept" -> m.token # 0
      [] m.type = "socks" -> m.port # 0 /\ (m.host = "name" => m.size \in 1..255)
      [] m.type \in {"ack", "status"} -> TRUE

(* Long errors are shortened; the size of an address is that of its kind.  *)
Carried(m) ==
    CASE m.type \in {"error", "status"} ->
            [m EXCEPT !.text = IF @ > maxErrorSize THEN maxErrorSize ELSE @]
      [] m.type = "socks" ->
            [m EXCEPT !.size = CASE m.host = "v4" -> 4 [] m.host = "v6" -> 16 [] OTHER -> @]
      [] OTHER -> m

PrefixedShort(n) == Byte(n) \o Text(n)    \* mutant: one byte for the length
Prefixed(n) == U16(n) \o Text(n)
Header(token, command) == Field(4, "magic") \o Byte(command) \o Field(32, token)

Payload(m) ==
    CASE m.type = "register" -> Prefixed(m.id) \o Byte(m.net) \o U16(m.port)
      [] m.type = "unregister" -> Prefixed(m.id)
      [] m.type = "ready" -> U64(m.stream) \o Prefixed(m.id) \o Byte(m.net)
      [] m.type = "ack" -> <<>>
      [] m.type = "error" -> Text(m.text)

Encode(m) ==
    CASE kind = "control" -> Field(1, m.type) \o U16(Width(Payload(m))) \o Payload(m)
      [] kind = "datagram" -> U16(m.text) \o Text(m.text)
      [] kind = "open" -> Header(m.token, m.command) \o Prefixed(m.host) \o U16(m.port)
      [] kind = "accept" -> Header(m.token, CommandAccept) \o U64(m.stream)
      [] kind = "status" -> IF m.ok THEN Byte(0) ELSE Byte(1) \o Prefixed(m.text)
      [] kind = "socks" -> Field(1, m.host) \o (IF m.host = "name" THEN Byte(m.size) ELSE <<>>)
                           \o Text(m.size) \o U16(m.port)

-----------------------------------------------------------------------------
(* Readers.  Fail is a refusal, Short a stream that ends too early.        *)
Fail == [is |-> "fail"]
Short == [is |-> "short"]
Done(m, rest) == [is |-> "ok", m |-> m, rest |-> rest]

(* The first n bytes: whole fields, unless the reader has lost its place.  *)
Cut(s, n) == {k \in 0..Len(s) : Width(SubSeq(s, 1, k)) = n}
Rest(s, k) == SubSeq(s, k + 1, Len(s))

(* One field of a given width, and what follows it.                        *)
Take(s, w, Then(_, _)) ==
    IF w = 0 THEN Then(0, s)
    ELSE IF Width(s) < w THEN Short
    ELSE IF s[1].w # w THEN Fail
    ELSE Then(s[1].v, Tail(s))

(* readLengthPrefixed, within a payload that is complete.                  *)
TakeID(p, Then(_, _)) ==
    LET Sized(n, s) == IF ValidID(n) THEN Take(s, n, Then) ELSE Fail
    IN Take(p, 2, Sized)

DecodePayload(type, p) ==
    LET ready(id, stream, s) == IF Len(s) = 1 /\ s[1].w = 1 /\ s[1].v \in Networks /\ stream # 0
                        THEN Done([type |-> type, id |-> id, net |-> s[1].v, stream |-> stream], <<>>)
                        ELSE Fail
        register(id, s) == IF [i \in DOMAIN s |-> s[i].w] = <<1, 2>> /\ s[1].v \in Networks /\ s[2].v # 0
                        THEN Done([type |-> type, id |-> id, net |-> s[1].v, port |-> s[2].v], <<>>)
                        ELSE Fail
        unregister(id, s) == IF s = <<>> THEN Done([type |-> type, id |-> id], <<>>) ELSE Fail
        streamed(stream, s) == TakeID(s, LAMBDA id, t : ready(id, stream, t))
        r == CASE type = "register" -> TakeID(p, register)
               [] type = "unregister" -> TakeID(p, unregister)
               [] type = "ready" -> Take(p, 8, streamed)
               [] type = "ack" -> IF p = <<>> THEN Done([type |-> type], <<>>) ELSE Fail
               [] type = "error" -> IF p = <<>> THEN Fail
                                    ELSE Done([type |-> type, text |-> Width(p)], <<>>)
    IN IF r = Short THEN Fail ELSE r

ReadControlMessage(s) ==
    LET body(type, size, t) ==
            IF size > MaxControlSize THEN Fail
            ELSE IF Width(t) < size THEN Short
            ELSE IF Cut(t, size) = {} THEN Fail
            ELSE LET k == CHOOSE k \in Cut(t, size) : TRUE
                     r == DecodePayload(type, SubSeq(t, 1, k))
                 IN IF r.is = "ok" THEN Done(r.m, Rest(t, k)) ELSE Fail
        typed(type, t) == Take(t, 2, LAMBDA size, u : body(type, size, u))
    IN Take(s, 1, typed)

ReadDatagram(s) ==
    LET text(n, t) == Done([type |-> "datagram", text |-> n], t)
        sized(n, t) == IF n \in 1..MaxDatagramSize THEN Take(t, n, LAMBDA v, u : text(v, u)) ELSE Fail
    IN Take(s, 2, sized)

ReadOpenBody(c, v, s) ==
    LET port(h, p, t) == IF p = 0 THEN Fail
            ELSE Done([type |-> "open", token |-> v, command |-> c, host |-> h, port |-> p], t)
        host(h, t) == Take(t, 2, LAMBDA p, u : port(h, p, u))
        size(n, t) == IF n \notin 1..maxHostSize THEN Fail
                      ELSE IF Width(t) < n + 2 THEN Short ELSE Take(t, n, host)
    IN IF c \in {1, 2} THEN Take(s, 2, size) ELSE Fail

ReadAcceptStreamID(v, s) ==
    Take(s, 8, LAMBDA id, t : Done([type |-> "accept", token |-> v, stream |-> id], t))

(* The command decides which body is read.                                 *)
ReadSessionHeader(s) ==
    LET body(c, v, t) == IF c = CommandAccept THEN ReadAcceptStreamID(v, t) ELSE ReadOpenBody(c, v, t)
        token(c, v, t) == IF v = 0 THEN Fail ELSE body(c, v, t)
        command(c, t) == Take(t, 32, LAMBDA v, u : token(c, v, u))
        magic(v, t) == IF v = "magic" THEN Take(t, 1, command) ELSE Fail
    IN IF Width(s) < 37 THEN Short ELSE Take(s, 4, magic)

ReadStatus(s) ==
    LET status(ok, n, t) == Done([type |-> "status", ok |-> ok, text |-> n], t)
        size(n, t) == IF n > maxErrorSize THEN Fail ELSE Take(t, n, LAMBDA v, u : status(FALSE, v, u))
        code(c, t) == CASE c = 0 -> status(TRUE, 0, t) [] c = 1 -> Take(t, 2, size) [] OTHER -> Fail
    IN Take(s, 1, code)

readAddress(s) ==
    LET port(h, n, p, t) == Done([type |-> "socks", host |-> h, size |-> n, port |-> p], t)
        host(h, n, t) == Take(t, 2, LAMBDA p, u : port(h, n, p, u))
        sized(h, n, t) == Take(t, n, LAMBDA v, u : host(h, n, u))
        kindOf(h, t) == CASE h = "v4" -> sized(h, 4, t) [] h = "v6" -> sized(h, 16, t)
                       [] h = "name" -> Take(t, 1, LAMBDA n, u : sized(h, n, u))
    IN Take(s, 1, kindOf)

Decode ==
    CASE kind = "control" -> ReadControlMessage(wire)
      [] kind = "datagram" -> ReadDatagram(wire)
      [] kind \in {"open", "accept"} -> ReadSessionHeader(wire)
      [] kind = "status" -> ReadStatus(wire)
      [] kind = "socks" -> readAddress(wire)

-----------------------------------------------------------------------------
Write(m) ==
    /\ ~cut /\ Accepts(m) /\ Len(sent) < MaxMessages
    /\ sent' = Append(sent, Carried(m)) /\ wire' = wire \o Encode(Carried(m))
    /\ UNCHANGED <<kind, cut, got, reader>>

(* A refused datagram ends the relay that has it, an empty one too.        *)
Refuse(m) ==
    /\ ~cut /\ ~Accepts(m) /\ kind = "datagram" /\ cut' = TRUE
    /\ UNCHANGED <<kind, sent, wire, got, reader>>

Break ==
    /\ ~cut /\ cut' = TRUE
    /\ \E k \in 0..Len(wire) : wire' = SubSeq(wire, 1, k)
    /\ UNCHANGED <<kind, sent, got, reader>>

Read ==
    /\ reader = "reading"
    /\ \/ Decode.is = "ok" /\ got' = Append(got, Decode.m) /\ wire' = Decode.rest /\ UNCHANGED reader
       \/ Decode.is = "fail" /\ reader' = "failed" /\ UNCHANGED <<got, wire>>
       \/ Decode.is = "short" /\ cut /\ reader' = "ended" /\ UNCHANGED <<got, wire>>
    /\ UNCHANGED <<kind, sent, cut>>

Next == (\E m \in Messages[kind] : Write(m) \/ Refuse(m)) \/ Break \/ Read
Spec == Init /\ [][Next]_vars

-----------------------------------------------------------------------------
(* Error texts that WriteControlMessage carries, while the bound of        *)
(* ReadControlMessage leaves no room for them.                             *)
TooLong(m) == m.type = "error" /\ m.text > MaxControlSize

(* Whatever a writer accepts the other side reads, in order and as it was, *)
(* however the connection breaks; a reader fails on nothing but an error   *)
(* text that is too long for it.                                           *)
TunnelFaithful ==
    /\ IsPrefix(got, sent)
    /\ reader = "failed" => Len(got) < Len(sent) /\ TooLong(sent[Len(got) + 1])
    /\ reader = "ended" => cut
    /\ reader = "reading" /\ wire = <<>> /\ ~cut => got = sent
=============================================================================
