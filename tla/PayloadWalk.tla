---------------------------- MODULE PayloadWalk ----------------------------
(***************************************************************************)
(* What the engine reads in a payload sample (features/payload.py): the    *)
(* name of a DNS query, the hello of a TLS handshake, the version of a     *)
(* QUIC packet.  The sample is the head of one segment, so any message may *)
(* be cut anywhere.                                                        *)
(*                                                                         *)
(* A sample is a sequence of bytes; positions count from 0, as in the      *)
(* code.  An empty sequence is the empty string or tuple.  The digest of a *)
(* fingerprint and the statistics of a name are left out.                  *)
(***************************************************************************)
EXTENDS Integers, Sequences, SequencesExt, FiniteSets

CONSTANTS
    Messages,    \* what hosts send, see Encode
    Cap          \* HANDSHAKE_CAP

VARIABLES
    message,     \* the first message of a flow
    sample,      \* what the exporter has of it
    features     \* what the engine read in it

payloadVars == <<message, sample, features>>

-----------------------------------------------------------------------------
(* What hosts send: RFC 8446 hellos in one record, DNS queries, QUIC.      *)
Two(n) == <<n \div 256, n % 256>>
Sized1(s) == <<Len(s)>> \o s
Sized2(s) == Two(Len(s)) \o s
Zeros(n) == [k \in 1 .. n |-> 0]
Each(Op(_), s) == FlattenSeq([k \in DOMAIN s |-> Op(s[k])])

Record(type, body) ==
    <<22>> \o Two(769) \o Sized2(<<type, 0>> \o Sized2(body))

Encode(m) ==
    CASE m.kind = "client" ->
            Record(1, Two(m.version) \o Zeros(32) \o Sized1(m.session)
                      \o Sized2(Each(Two, m.ciphers)) \o Sized1(<<0>>)
                      \o Sized2(Each(LAMBDA e : Two(e.type) \o Sized2(e.body), m.extensions)))
      [] m.kind = "server" ->
            Record(2, Two(m.version) \o Zeros(32) \o Sized1(m.session)
                      \o Two(m.ciphers[1]) \o <<0>>
                      \o Sized2(Each(LAMBDA e : Two(e.type) \o Sized2(e.body), m.extensions)))
      [] m.kind = "dns" -> Zeros(12) \o Each(Sized1, m.labels) \o <<0>> \o Two(m.qtype) \o Two(1)
      [] m.kind = "quic" -> m.bytes

-----------------------------------------------------------------------------
(* Reading with a check of every length.  Nowhere: the sample ran out.     *)
Nowhere == -1

U16(d, i) == 256 * d[i + 1] + d[i + 2]
Slice(d, i, n) == SubSeq(d, i + 1, i + n)
Ascii(s) ==
    LET kept[k \in 0 .. Len(s)] ==
          IF k = 0 THEN <<>> ELSE IF s[k] < 128 THEN Append(kept[k - 1], s[k]) ELSE kept[k - 1]
    IN  kept[Len(s)]

SkipVector(d, pos) ==
    IF pos < 0 \/ pos + 1 > Len(d) \/ pos + 1 + d[pos + 1] > Len(d) THEN Nowhere
    ELSE pos + 1 + d[pos + 1]

Fits2(d, pos) == pos >= 0 /\ pos + 2 <= Len(d) /\ pos + 2 + U16(d, pos) <= Len(d)
ReadVector(d, pos) ==
    IF Fits2(d, pos) THEN [k \in 1 .. U16(d, pos) \div 2 |-> U16(d, pos + 2 * k)] ELSE <<>>
AfterVector(d, pos) == IF Fits2(d, pos) THEN pos + 2 + U16(d, pos) ELSE Nowhere

ReadSni(b) ==
    IF Len(b) < 5 \/ 5 + U16(b, 3) > Len(b) THEN <<>> ELSE Ascii(Slice(b, 5, U16(b, 3)))

ReadAlpn(b) ==
    LET from[p \in 2 .. Len(b) + 2] ==
          IF p >= Len(b) \/ p + 1 + b[p + 1] > Len(b) THEN <<>>
          ELSE <<Ascii(Slice(b, p + 1, b[p + 1]))>> \o from[p + 1 + b[p + 1]]
    IN  from[2]

ReadExtensions(d, pos) ==
    LET end == Min({pos + 2 + U16(d, pos), Len(d)})
        from[p \in 0 .. Len(d)] ==
          IF p + 4 > end \/ p + 4 + U16(d, p + 2) > end THEN <<>>
          ELSE <<[type |-> U16(d, p), body |-> Slice(d, p + 4, U16(d, p + 2))]>>
                 \o from[p + 4 + U16(d, p + 2)]
    IN  IF pos < 0 \/ pos + 2 > Len(d) THEN <<>> ELSE from[pos + 2]

Types(es) == [k \in DOMAIN es |-> es[k].type]
BodyOf(es, type) ==
    LET places == {k \in DOMAIN es : es[k].type = type}
    IN  IF places = {} THEN <<>> ELSE es[Max(places)].body

GREASE == {4096 * n + 2560 + 16 * n + 10 : n \in 0 .. 15}

(* The mistake leaves the placeholders in.                                 *)
DashedAll(s) == s
Dashed(s) == SelectSeq(s, LAMBDA v : v \notin GREASE)

-----------------------------------------------------------------------------
NoTls ==
    [hello |-> "none", version |-> 0, complete |-> FALSE, ciphers |-> <<>>, extensions |-> <<>>,
     curves |-> <<>>, sni |-> <<>>, alpn |-> <<>>, fingerprint |-> <<>>]

(* The whole record is in the sample.  The mistake forgets its header.     *)
CompleteBarely(d) == Len(d) >= U16(d, 3)
Complete(d) == Len(d) >= 5 + U16(d, 3)

HasVersion(d) == 11 <= Len(d)

ClientHello(d) ==
    LET out     == [NoTls EXCEPT !.hello = "client", !.complete = Complete(d)]
        session == SkipVector(d, 43)
        ciphers == ReadVector(d, session)
        es      == ReadExtensions(d, SkipVector(d, AfterVector(d, session)))
        curves  == ReadVector(BodyOf(es, 10), 0)
        formats == BodyOf(es, 11)
    IN  IF ~HasVersion(d) THEN out
        ELSE [out EXCEPT
                !.version = U16(d, 9), !.ciphers = ciphers, !.extensions = Types(es),
                !.curves = curves, !.sni = ReadSni(BodyOf(es, 0)), !.alpn = ReadAlpn(BodyOf(es, 16)),
                !.fingerprint =
                    IF Complete(d)
                    THEN <<U16(d, 9), Dashed(ciphers), Dashed(Types(es)), Dashed(curves),
                           IF formats = <<>> THEN <<>> ELSE Tail(formats)>>
                    ELSE <<>>]

ServerHello(d) ==
    LET out == [NoTls EXCEPT !.hello = "server", !.complete = Complete(d)]
        pos == SkipVector(d, 43)
        es  == ReadExtensions(d, pos + 3)
    IN  IF ~HasVersion(d) THEN out
        ELSE IF pos = Nowhere \/ pos + 3 > Len(d) THEN [out EXCEPT !.version = U16(d, 9)]
        ELSE [out EXCEPT
                !.version = U16(d, 9), !.ciphers = <<U16(d, pos)>>, !.extensions = Types(es),
                !.fingerprint =
                    IF Complete(d) THEN <<U16(d, 9), U16(d, pos), Dashed(Types(es))>> ELSE <<>>]

ParseTls(d) ==
    IF Len(d) < 6 \/ d[1] # 22 THEN NoTls
    ELSE CASE d[6] = 1 -> ClientHello(d)
           [] d[6] = 2 -> ServerHello(d)
           [] OTHER    -> [NoTls EXCEPT !.complete = Complete(d)]

NoDns == [parsed |-> FALSE, labels |-> <<>>, truncated |-> FALSE, qtype |-> 0]

(* The name, and where it ends: nowhere when it was cut or is no name.     *)
ParseDns(d) ==
    LET from[i \in 12 .. Len(d)] ==
          IF i = Len(d) THEN [labels |-> <<>>, end |-> Nowhere]
          ELSE IF d[i + 1] = 0 THEN [labels |-> <<>>, end |-> i + 1]
          ELSE IF d[i + 1] > 63 THEN [labels |-> <<>>, end |-> Nowhere]
          ELSE IF i + 1 + d[i + 1] > Len(d)
               THEN [labels |-> <<Ascii(Slice(d, i + 1, Len(d) - i - 1))>>, end |-> Nowhere]
          ELSE LET rest == from[i + 1 + d[i + 1]]
               IN  [rest EXCEPT !.labels = <<Ascii(Slice(d, i + 1, d[i + 1]))>> \o @]
        name == from[12]
    IN  IF Len(d) <= 12 \/ (\A k \in DOMAIN name.labels : name.labels[k] = <<>>) THEN NoDns
        ELSE [parsed |-> TRUE, labels |-> name.labels, truncated |-> name.end = Nowhere,
              qtype |-> IF name.end # Nowhere /\ name.end + 2 <= Len(d)
                        THEN U16(d, name.end) ELSE 0]

KnownQuic ==
    {<<0, 0, 0, 1>>, <<107, 51, 67, 207>>} \cup {<<255, 0, 0, draft>> : draft \in 20 .. 34}

NoQuic == [long |-> FALSE, initial |-> FALSE]
ParseQuic(d) ==
    IF Len(d) < 5 \/ d[1] \div 64 # 3 THEN NoQuic
    ELSE [long |-> TRUE,
          initial |-> Slice(d, 1, 4) \in KnownQuic /\ (d[1] \div 16) % 4 = 0]

(* A sample is tried as DNS by its port, as TLS or QUIC by its protocol.   *)
Extract(m, d) ==
    LET dns == IF m.port53 THEN ParseDns(d) ELSE NoDns
    IN  [dns |-> dns,
         tls |-> IF m.tcp THEN ParseTls(d) ELSE NoTls,
         quic |-> IF ~m.tcp /\ ~dns.parsed THEN ParseQuic(d) ELSE NoQuic]

(* A TLS message is one record, in which no extension is sent twice (RFC   *)
(* 8446), and no QUIC packet on the port of DNS passes for a query: the    *)
(* engine would take the whole for one and a part of it for the other.     *)
ASSUME MessagesAssumption ==
    /\ Cap \in Nat
    /\ \A m \in Messages :
         LET b == Encode(m)  types == ParseTls(b).extensions IN
         /\ b \in Seq(0 .. 255)
         /\ m.tcp => /\ Len(b) > 5 /\ b[1] = 22 => Len(b) = 5 + U16(b, 3)
                     /\ \A i, j \in DOMAIN types : types[i] = types[j] => i = j
         /\ m.port53 /\ ParseDns(b).parsed => ~ParseQuic(b).long

-----------------------------------------------------------------------------
Nothing == [dns |-> NoDns, tls |-> NoTls, quic |-> NoQuic]

PayloadInit == message \in Messages /\ sample = <<>> /\ features = Nothing

Sampleable(m) ==
    m.port53 \/ (IF m.tcp THEN Encode(m)[1] = 22 ELSE Encode(m)[1] \div 16 = 12)

(* The segment the message starts in, as far as the map has room for it.   *)
ReadPayload ==
    /\ sample = <<>> /\ Sampleable(message)
    /\ \E segment \in 1 .. Len(Encode(message)) :
         sample' = SubSeq(Encode(message), 1, Min({segment, Cap}))
    /\ UNCHANGED <<message, features>>

Read ==
    /\ sample # <<>> /\ features # Extract(message, sample)
    /\ features' = Extract(message, sample)
    /\ UNCHANGED <<message, sample>>

(* The map forgets the flow, and another takes its place.                  *)
Recycle ==
    /\ message' \in Messages /\ sample' = <<>> /\ features' = Nothing

PayloadNext == ReadPayload \/ Read \/ Recycle

PayloadSpec == PayloadInit /\ [][PayloadNext]_payloadVars

-----------------------------------------------------------------------------
Whole == Extract(message, Encode(message))
WasRead == sample # <<>> /\ features = Extract(message, sample)

(* A cut hides, and invents nothing: what is read in a part of a message   *)
(* is what is read in all of it, or less; whatever is missing is flagged;  *)
(* and "a hash over half a hello would match nothing, so we must not emit  *)
(* one".                                                                   *)
Hides(part, whole) == part \in {<<>>, whole}

CutOnlyHides ==
    WasRead =>
      /\ LET t == features.tls  w == Whole.tls IN
         /\ t.hello \in {"none", w.hello} /\ t.version \in {0, w.version}
         /\ Hides(t.ciphers, w.ciphers) /\ Hides(t.curves, w.curves)
         /\ Hides(t.sni, w.sni) /\ Hides(t.alpn, w.alpn)
         /\ IsPrefix(t.extensions, w.extensions)
         /\ Hides(t.fingerprint, w.fingerprint)
         /\ t # w => ~t.complete
      /\ LET n == features.dns  w == Whole.dns IN
         /\ n.parsed =>
              /\ w.parsed /\ Len(n.labels) <= Len(w.labels)
              /\ \A k \in DOMAIN n.labels : IsPrefix(n.labels[k], w.labels[k])
              /\ n.labels # w.labels => n.truncated
         /\ n.qtype \in {0, w.qtype}
      /\ Whole.quic.initial \/ ~features.quic.initial

(* Whole messages are read as they were meant.  A client keeps its         *)
(* fingerprint whichever placeholders it draws: "the same client hashes    *)
(* differently every time" otherwise.                                      *)
Meant(m) ==
    CASE m.kind = "client" ->
            /\ features.tls.version = m.version /\ features.tls.ciphers = m.ciphers
            /\ features.tls.sni = Ascii(m.sni) /\ features.tls.alpn = m.alpn
            /\ features.tls.fingerprint =
                 <<m.version, m.client.ciphers, m.client.types, m.client.curves, m.client.formats>>
      [] m.kind = "server" -> features.tls.fingerprint = <<m.version, m.ciphers[1], m.client.types>>
      [] m.kind = "dns" ->
            features.dns = [parsed |-> TRUE, truncated |-> FALSE, qtype |-> m.qtype,
                            labels |-> [k \in DOMAIN m.labels |-> Ascii(m.labels[k])]]
      [] m.kind = "quic" -> features.quic.initial = m.initial

ReadAsMeant == WasRead /\ sample = Encode(message) => Meant(message)

(* "TLS handshake to public ... carried no SNI": the alert is raised when  *)
(* no name was read, and says that none was sent.                          *)
AbsenceIsReal ==
    WasRead /\ features.tls.hello = "client" /\ features.tls.sni = <<>>
      => message.kind = "client" /\ message.sni = <<>>
=============================================================================
