----------------------------- MODULE MCDnsParse -----------------------------
(* Packets for DnsParse: every short packet over a small byte alphabet,   *)
(* and the encodings of a set of messages, plain and compressed.          *)
EXTENDS DnsParse

\* Byte values that reach every branch of parseName: the terminator, a
\* label length of one, a pointer byte, and values that as a pointer
\* target land in the header (0), on the first name (12) or past the end
\* (97), and as a length run past the end (12, 97).
ByteVals == {0, 1, 12, 97, 192}

\* Headers: one question with every flag clear, or two questions with every
\* flag bit set (the reserved ones included).
FuzzHeaders ==
    { <<0, 0, 0, 0, 0, 1, 0, 0, 0, 0, 0, 0>>,
      <<0, 0, 255, 255, 0, 2, 0, 0, 0, 0, 0, 0>> }

\* Seven bytes after the header: room for a one-byte label, the terminator,
\* and a type and class; or a pointer and a type and class.
FuzzPackets == { h \o t : h \in FuzzHeaders, t \in [1..7 -> ByteVals] }

-----------------------------------------------------------------------------
a == 97
b == 98

\* Names as the zone and the config give them: with and without a trailing
\* dot, the root, and an empty label.
Names == { <<a>>, <<a, Dot, b>>, <<a, b, Dot>>, <<Dot>>, <<a, Dot, Dot, b>> }

\* The name encodeName's output parses back to: its non-empty parts.
Normal(name) == JoinDots(SelectSeq(SplitDots(name), LAMBDA p : p # << >>))

Flags == [Response : BOOLEAN, Authoritative : BOOLEAN, Truncated : BOOLEAN,
          RecursionDesired : BOOLEAN, RecursionAvailable : BOOLEAN]

Msg(id, op, rc, f, qs0, ans) ==
    f @@ [ID |-> id, Opcode |-> op, Rcode |-> rc, Questions |-> qs0, Answers |-> ans]

Q(n, t, c) == [Name |-> n, Type |-> t, Class |-> c]

NoFlags == [Response |-> FALSE, Authoritative |-> FALSE, Truncated |-> FALSE,
           RecursionDesired |-> FALSE, RecursionAvailable |-> FALSE]

\* Every header flag combination, with edge values of ID, opcode and rcode.
HeaderMsgs ==
    { Msg(id, op, rc, f, << Q(<<a>>, 1, 1) >>, << >>) :
        id \in {0, 258, 65535}, op \in {0, 5, 15}, rc \in {0, 15}, f \in Flags }

\* One or two questions over every name, types A and AAAA, class IN with
\* and without the mDNS unicast-response bit.
QuestionMsgs ==
    { Msg(7, 0, 0, NoFlags, << Q(n, t, c) >>, << >>) :
        n \in Names, t \in {1, 28}, c \in {1, 32769} }
    \cup { Msg(7, 0, 0, NoFlags, << Q(n1, 1, 1), Q(n2, 28, 1) >>, << >>) :
        n1, n2 \in Names }

\* Three questions, the second and third compressed: q2 is the label "b"
\* then a pointer to q1's name, q3 is a pointer to q2's name.
Compressed(n) ==
    LET q1 == EncodeQuestion(Q(n, 1, 1))
        q2 == << 1, b, 192, 12 >> \o Bytes16(1) \o Bytes16(1)
    IN  EncodeHeader(Msg(7, 0, 0, NoFlags, << >>, << >>))
        \o Bytes16(3) \o << 0, 0, 0, 0, 0, 0 >>
        \o q1 \o q2 \o << 192, 12 + Len(q1) >> \o Bytes16(28) \o Bytes16(1)

CompressedMsg(n) ==
    LET bn == IF Normal(n) = << >> THEN <<b>> ELSE <<b, Dot>> \o Normal(n)
    IN  Msg(7, 0, 0, NoFlags, << Q(n, 1, 1), Q(bn, 1, 1), Q(bn, 28, 1) >>, << >>)

\* Each case: a packet and the message it encodes.
Cases(msgs) ==
    { <<EncodeMessage(m), m>> : m \in msgs }
    \cup { <<Compressed(n), CompressedMsg(n)>> : n \in Names }

RoundTripCases == Cases(HeaderMsgs \cup QuestionMsgs)
RoundTripPackets == { c[1] : c \in RoundTripCases }

\* The message parseDNSMessage should return for m.
Expected(m) ==
    [m EXCEPT !.Questions = [i \in DOMAIN @ |-> [@[i] EXCEPT !.Name = Normal(@)]]]

\* For each encoded packet, the messages it should parse to.
ExpectedOf ==
    [p \in RoundTripPackets |-> { Expected(c[2]) : c \in { c \in RoundTripCases : c[1] = p } }]

\* The spec (Testing): encoding then parsing a message yields the same
\* header flags and questions, and a name written with compression pointers
\* parses to the same string as its uncompressed form; parseName's returned
\* offset must put the next question exactly after the pointer.
RoundTrip ==
    status \in Done /\ buf \in RoundTripPackets =>
        status = "ok" /\ \A e \in ExpectedOf[buf] : Parsed = e

-----------------------------------------------------------------------------
(* Record data, read back by the RFC 1035 definitions of its formats       *)
(* rather than by inverting the encoders.                                  *)

\* A run of n bytes 'a'.
Str(n) == [i \in 1..n |-> a]

\* A length octet that runs past the end reads as this non-byte.
Bad == << 256 >>

\* RFC 1035 3.3: <character-string>s, each a length octet and that many
\* octets.
RECURSIVE CharStrings(_)
CharStrings(d) ==
    CASE d = << >>          -> << >>
      [] d[1] + 1 > Len(d) -> << Bad >>
      [] OTHER -> << SubSeq(d, 2, d[1] + 1) >> \o CharStrings(SubSeq(d, d[1] + 2, Len(d)))

\* RFC 1035 3.1: an uncompressed domain name as its labels.
RECURSIVE Labels(_)
Labels(d) ==
    CASE d = << >>                  -> << Bad >>
      [] d[1] = 0                   -> IF Len(d) = 1 THEN << >> ELSE << Bad >>
      [] d[1] > 63 \/ d[1] + 1 > Len(d) -> << Bad >>
      [] OTHER -> << SubSeq(d, 2, d[1] + 1) >> \o Labels(SubSeq(d, d[1] + 2, Len(d)))

\* RFC 2782: priority, weight, port, then the target name.
SrvFields(d) ==
    << U16(d[1], d[2]), U16(d[3], d[4]), U16(d[5], d[6]), Labels(SubSeq(d, 7, Len(d))) >>

Ip4 == << 192, 168, 1, 20 >>
Ip6 == << 254, 128, 0, 0, 0, 0, 0, 0, 2, 17, 34, 255, 254, 51, 68, 85 >>

\* Records as Records builds them (an IPv4 address may be held in either
\* form), and those encodeRecordData can be given, each with the fields a
\* reader of its RDATA must find.
RecordCases ==
    << << [kind |-> "A", A |-> Ip4], Ip4 >>,
       << [kind |-> "A", A |-> V4InV6Prefix \o Ip4], Ip4 >>,
       << [kind |-> "AAAA", AAAA |-> Ip6], Ip6 >>,
       << [kind |-> "PTR", Ptr |-> <<a, Dot, b, Dot>>], << <<a>>, <<b>> >> >>,
       << [kind |-> "PTR", Ptr |-> <<Dot>>], << >> >>,
       << [kind |-> "TXT", Txt |-> << Str(0), Str(255), Str(256) >>],
          << Str(0), Str(255), Str(255) >> >>,
       << [kind |-> "TXT", Txt |-> << Str(300), <<b>> >>], << Str(255), <<b>> >> >>,
       << [kind |-> "SRV", Priority |-> 0, Weight |-> 258, Port |-> 65535,
           Target |-> <<a, Dot, b>>],
          << 0, 258, 65535, << <<a>>, <<b>> >> >> >> >>

ASSUME \A i \in DOMAIN RecordCases :
    RecordCases[i][1] \in Record({Ip4, V4InV6Prefix \o Ip4, Ip6},
                                 {<<a, Dot, b, Dot>>, <<Dot>>, <<a, Dot, b>>},
                                 {Str(0), Str(255), Str(256), Str(300), <<b>>})

\* How a resolver reads the RDATA of a record of this kind.
ReadData(kind, d) ==
    CASE kind \in {"A", "AAAA"} -> d
      [] kind = "PTR"           -> Labels(d)
      [] kind = "TXT"           -> CharStrings(d)
      [] kind = "SRV"           -> SrvFields(d)

\* A response as handleQuery builds it: one question, and one answer for the
\* zone's name with the record's type, class IN, TTL 120 and
\* encodeRecordData's bytes.
AnswerMsg(r) ==
    Msg(7, 0, 0, [NoFlags EXCEPT !.Response = TRUE, !.Authoritative = TRUE],
        << Q(<<a>>, 1, 1) >>,
        << [Name |-> <<a, Dot, b>>, Type |-> RecordType[r.kind], Class |-> 1,
            TTL |-> 120, Data |-> EncodeRecordData(r)] >>)

AnswerCases == { <<EncodeMessage(AnswerMsg(RecordCases[i][1])), i>> : i \in DOMAIN RecordCases }
AnswerPackets == { c[1] : c \in AnswerCases }
CasesOf == [p \in AnswerPackets |-> { c[2] : c \in { c \in AnswerCases : c[1] = p } }]

\* The fuzzed packets together with the encoded queries and responses.
DnsPackets == FuzzPackets \cup RoundTripPackets \cup AnswerPackets

\* RFC 1035 4.1.4: the length of an uncompressed name.
RECURSIVE NameLength(_)
NameLength(d) == IF d[1] = 0 THEN 1 ELSE 1 + d[1] + NameLength(SubSeq(d, d[1] + 2, Len(d)))

\* RFC 1035 4.1.3: a resource record's TYPE, CLASS, TTL, RDLENGTH and RDATA.
ReadRR(d) ==
    LET n == NameLength(d)
        rdlength == U16(d[n + 9], d[n + 10])
    IN  [Type |-> U16(d[n + 1], d[n + 2]), Class |-> U16(d[n + 3], d[n + 4]),
         TTL |-> U16(d[n + 5], d[n + 6]) * 65536 + U16(d[n + 7], d[n + 8]),
         RdLength |-> rdlength, Rest |-> Len(d) - n - 10,
         RData |-> SubSeq(d, n + 11, n + 10 + rdlength)]

\* The spec (DNS question/record): A, AAAA, PTR, TXT and SRV answers are
\* encoded in the wire format.  In a response, the answer record starts
\* where parseDNSMessage stops reading the questions; its RDLENGTH covers
\* exactly the rest of the packet.  A resolver finds there an A record with
\* the four bytes of its address in whichever form net.IP holds it, an AAAA
\* record with sixteen, and PTR, TXT and SRV data that read back field for
\* field, a TXT string longer than 255 bytes cut to 255 with a length octet
\* that says so.
RecordDataDecodes ==
    status = "ok" /\ buf \in AnswerPackets =>
        LET rr == ReadRR(SubSeq(buf, offset + 1, Len(buf))) IN
        \A i \in CasesOf[buf] :
            /\ rr.Type = RecordType[RecordCases[i][1].kind]
            /\ rr.Class = 1 /\ rr.TTL = 120
            /\ rr.RdLength = rr.Rest
            /\ ReadData(RecordCases[i][1].kind, rr.RData) = RecordCases[i][2]
=============================================================================
