------------------------------- MODULE DnsWire -------------------------------
(***************************************************************************)
(* The pure byte-level functions of the DNS codec in                       *)
(* internal/mdns/server.go: the header of parseDNSMessage,                 *)
(* encodeDNSMessage, encodeName and the record data encoders.              *)
(*                                                                         *)
(* A Go []byte or string is a sequence of byte values (Go index i is      *)
(* element i + 1).  A conversion byte(x) keeps the low eight bits.  A      *)
(* message is a record with the fields of dnsMessage; names are strings,   *)
(* i.e. byte sequences.                                                    *)
(***************************************************************************)
EXTENDS Naturals, Sequences, SequencesExt, Bitwise

Dot == 46                       \* '.'

\* byte(x)
Byte(x) == x % 256

\* uint16(hi)<<8 | uint16(lo)
U16(hi, lo) == hi * 256 + lo

\* The two bytes of a uint16, high first: byte(v>>8), byte(v).
Bytes16(v) == <<Byte(shiftR(v, 8)), Byte(v)>>

\* if b { buf[i] |= v }
FlagBit(b, v) == IF b THEN v ELSE 0

-----------------------------------------------------------------------------
(* parseDNSMessage lines 379-388: the header fields from bytes 0-3.        *)
ParseHeader(buf) ==
    [ID                 |-> U16(buf[1], buf[2]),
     Response           |-> (buf[3] & 128) # 0,
     Opcode             |-> shiftR(buf[3], 3) & 15,
     Authoritative      |-> (buf[3] & 4) # 0,
     Truncated          |-> (buf[3] & 2) # 0,
     RecursionDesired   |-> (buf[3] & 1) # 0,
     RecursionAvailable |-> (buf[4] & 128) # 0,
     Rcode              |-> buf[4] & 15]

(* encodeDNSMessage lines 417-438: bytes 0-3.                              *)
EncodeHeader(m) ==
    Bytes16(m.ID) \o
    << FlagBit(m.Response, 128) | Byte((m.Opcode & 15) * 8)
         | FlagBit(m.Authoritative, 4) | FlagBit(m.Truncated, 2)
         | FlagBit(m.RecursionDesired, 1),
       FlagBit(m.RecursionAvailable, 128) | (m.Rcode & 15) >>

-----------------------------------------------------------------------------
\* strings.Split(s, "."): the parts between dots, empty ones included.
RECURSIVE SplitDots(_)
SplitDots(s) ==
    IF \A i \in DOMAIN s : s[i] # Dot
       THEN << s >>
       ELSE LET k == CHOOSE i \in DOMAIN s :
                        s[i] = Dot /\ \A j \in 1..(i - 1) : s[j] # Dot
            IN << SubSeq(s, 1, k - 1) >> \o SplitDots(SubSeq(s, k + 1, Len(s)))

\* strings.Join(parts, ".")
RECURSIVE JoinDots(_)
JoinDots(parts) ==
    CASE parts = << >>    -> << >>
      [] Len(parts) = 1   -> parts[1]
      [] OTHER            -> parts[1] \o << Dot >> \o JoinDots(Tail(parts))

\* encodeName: "." is the root; otherwise every non-empty part as a length
\* byte and its bytes, then the zero byte.
EncodeName(name) ==
    IF name = << Dot >>
       THEN << 0 >>
       ELSE LET parts == SelectSeq(SplitDots(name), LAMBDA p : p # << >>)
            IN FlattenSeq([i \in DOMAIN parts |->
                              << Byte(Len(parts[i])) >> \o parts[i]])
               \o << 0 >>

\* encodeDNSMessage lines 445-450: one question.
EncodeQuestion(q) == EncodeName(q.Name) \o Bytes16(q.Type) \o Bytes16(q.Class)

\* encodeDNSMessage lines 452-460: one answer record.
EncodeRecord(r) ==
    EncodeName(r.Name) \o Bytes16(r.Type) \o Bytes16(r.Class)
    \o Bytes16(shiftR(r.TTL, 16)) \o Bytes16(r.TTL % 65536)
    \o Bytes16(Len(r.Data)) \o r.Data

-----------------------------------------------------------------------------
(* Record data (server.go 321-335, 520-543).  A net.IP is its bytes: four  *)
(* for an address parsed as IPv4, sixteen otherwise, an IPv4 address then  *)
(* being ::ffff:a.b.c.d.  A nil slice is the empty sequence.               *)
V4InV6Prefix == << 0, 0, 0, 0, 0, 0, 0, 0, 0, 0, 255, 255 >>

\* dnsTypeA, dnsTypeAAAA, dnsTypePTR, dnsTypeTXT, dnsTypeSRV
RecordType == [A |-> 1, AAAA |-> 28, PTR |-> 12, TXT |-> 16, SRV |-> 33]

\* The Record values encodeRecordData is given: the record types A, AAAA,
\* PTR, TXT and SRV (their headers aside) over addresses, names and strings
\* from the given sets.
Record(ips, names, strs) ==
    [kind : {"A"}, A : ips] \cup [kind : {"AAAA"}, AAAA : ips]
    \cup [kind : {"PTR"}, Ptr : names] \cup [kind : {"TXT"}, Txt : Seq(strs)]
    \cup [kind : {"SRV"}, Priority : 0..65535, Weight : 0..65535, Port : 0..65535,
          Target : names]

\* net.IP.To4
To4(ip) ==
    CASE Len(ip) = 4 -> ip
      [] Len(ip) = 16 /\ SubSeq(ip, 1, 12) = V4InV6Prefix -> SubSeq(ip, 13, 16)
      [] OTHER -> << >>

\* net.IP.To16
To16(ip) ==
    CASE Len(ip) = 4 -> V4InV6Prefix \o ip
      [] Len(ip) = 16 -> ip
      [] OTHER -> << >>

\* Mutant: the cut is tested one byte late.
EncodeTXTCutLate(txt) ==
    LET Cut(t) == IF Len(t) > 256 THEN SubSeq(t, 1, 255) ELSE t
    IN FlattenSeq([i \in DOMAIN txt |-> << Byte(Len(Cut(txt[i]))) >> \o Cut(txt[i])])

\* encodeTXT: each string cut to 255 bytes, behind its length byte.
EncodeTXT(txt) ==
    LET Cut(t) == IF Len(t) > 255 THEN SubSeq(t, 1, 255) ELSE t
    IN FlattenSeq([i \in DOMAIN txt |-> << Byte(Len(Cut(txt[i]))) >> \o Cut(txt[i])])

\* encodeSRV: priority, weight and port, high byte first, then the target.
EncodeSRV(priority, weight, port, target) ==
    Bytes16(priority) \o Bytes16(weight) \o Bytes16(port) \o EncodeName(target)

\* encodeRecordData: the RDATA of an A, AAAA, PTR, TXT or SRV record; nil
\* for any other.
EncodeRecordData(r) ==
    CASE r.kind = "A"    -> To4(r.A)
      [] r.kind = "AAAA" -> To16(r.AAAA)
      [] r.kind = "PTR"  -> EncodeName(r.Ptr)
      [] r.kind = "TXT"  -> EncodeTXT(r.Txt)
      [] r.kind = "SRV"  -> EncodeSRV(r.Priority, r.Weight, r.Port, r.Target)
      [] OTHER           -> << >>

\* encodeDNSMessage: header, counts (NSCOUNT and ARCOUNT stay zero), then
\* the questions and the answers.
EncodeMessage(m) ==
    EncodeHeader(m) \o Bytes16(Len(m.Questions)) \o Bytes16(Len(m.Answers))
    \o << 0, 0, 0, 0 >>
    \o FlattenSeq([i \in DOMAIN m.Questions |-> EncodeQuestion(m.Questions[i])])
    \o FlattenSeq([i \in DOMAIN m.Answers |-> EncodeRecord(m.Answers[i])])

=============================================================================
