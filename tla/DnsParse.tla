------------------------------ MODULE DnsParse ------------------------------
(***************************************************************************)
(* parseDNSMessage and parseName of internal/mdns/server.go as a step     *)
(* machine: one step per iteration of their loops, so that a packet the   *)
(* parser never finishes is a behaviour TLC can show.  The recv goroutine *)
(* runs it on every UDP packet (recv -> parsePacket -> parseDNSMessage).  *)
(*                                                                         *)
(* buf is the received packet; Go index i of buf is buf[i + 1].  An index *)
(* at or past len(buf) is a Go runtime panic ("index out of range"),       *)
(* which nothing in recv recovers: status "panic".                         *)
(*                                                                         *)
(* parseName's control depends only on offset and jumped, and jumped stays *)
(* TRUE after the first pointer; so a call that reaches a pointer it has   *)
(* already followed repeats the same iterations forever, appending to     *)
(* name.  Such a parse ends here in status "hang": the code never returns. *)
(***************************************************************************)
EXTENDS DnsWire, FiniteSets

CONSTANTS
    Packets     \* the packets that may arrive

VARIABLES
    buf,       \* the packet being parsed
    status,    \* "start", "loop", "name", "question", or a result
    hdr,       \* the header fields of the dnsMessage
    qs,        \* its Questions parsed so far
    qdCount,   \* QDCOUNT from the header
    offset,    \* parseDNSMessage's offset
    qi,        \* its loop counter i
    pn,        \* parseName's locals: offset, name, original, jumped, and
               \* seen, the pointers this call has followed
    jumps      \* history: every pointer followed, as <<its offset, its target>>

vars == <<buf, status, hdr, qs, qdCount, offset, qi, pn, jumps>>

Done == {"ok", "err", "panic", "hang"}

\* Go index i of buf, or a runtime panic.
InBounds(i) == i < Len(buf)
At(i) == buf[i + 1]

NoName == [offset |-> 0, name |-> << >>, original |-> 0, jumped |-> FALSE,
           seen |-> {}]

Init ==
    /\ buf \in Packets
    /\ status = "start"
    /\ hdr = ParseHeader(<<0, 0, 0, 0>>)
    /\ qs = << >>
    /\ qdCount = 0
    /\ offset = 0
    /\ qi = 0
    /\ pn = NoName
    /\ jumps = {}

-----------------------------------------------------------------------------
(* parseDNSMessage.                                                         *)

\* len(buf) < 12 is an error; otherwise the header fields and QDCOUNT, and
\* offset := 12.
ParseMessageHeader ==
    /\ status = "start"
    /\ IF Len(buf) < 12
          THEN /\ status' = "err"
               /\ UNCHANGED <<hdr, qdCount, offset>>
          ELSE /\ hdr' = ParseHeader(buf)
               /\ qdCount' = U16(At(4), At(5))
               /\ offset' = 12
               /\ status' = "loop"
    /\ UNCHANGED <<buf, qs, qi, pn, jumps>>

\* for i := 0; i < qdCount; i++ { name, newOffset, err := parseName(buf, offset) ...
QuestionLoop ==
    /\ status = "loop"
    /\ IF qi < qdCount
          THEN /\ pn' = [NoName EXCEPT !.offset = offset, !.original = offset]
               /\ status' = "name"
          ELSE /\ status' = "ok"
               /\ UNCHANGED pn
    /\ UNCHANGED <<buf, hdr, qs, qdCount, offset, qi, jumps>>

\* After parseName: newOffset+4 > len(buf) is "question truncated";
\* otherwise the question is appended and offset := newOffset + 4.
ReadQuestion ==
    /\ status = "question"
    /\ LET newOffset == pn.original IN
       IF newOffset + 4 > Len(buf)
          THEN /\ status' = "err"
               /\ UNCHANGED <<qs, offset, qi>>
          ELSE /\ qs' = Append(qs, [Name  |-> JoinDots(pn.name),
                                     Type  |-> U16(At(newOffset), At(newOffset + 1)),
                                     Class |-> U16(At(newOffset + 2), At(newOffset + 3))])
               /\ offset' = newOffset + 4
               /\ qi' = qi + 1
               /\ status' = "loop"
    /\ UNCHANGED <<buf, hdr, qdCount, pn, jumps>>

-----------------------------------------------------------------------------
(* parseName(buf, offset): one iteration of its loop per step.  On return *)
(* pn.original is the offset it returns.                                   *)

\* The loop condition offset < len(buf) fails: if !jumped { original = offset }.
NameLoopExit ==
    /\ status = "name"
    /\ ~InBounds(pn.offset)
    /\ pn' = [pn EXCEPT !.original = IF pn.jumped THEN @ ELSE pn.offset]
    /\ status' = "question"
    /\ UNCHANGED <<buf, hdr, qs, qdCount, offset, qi, jumps>>

\* length == 0: offset++ and break.
NameTerminator ==
    /\ status = "name"
    /\ InBounds(pn.offset)
    /\ At(pn.offset) = 0
    /\ pn' = [pn EXCEPT !.offset = @ + 1,
                        !.original = IF pn.jumped THEN @ ELSE pn.offset + 1]
    /\ status' = "question"
    /\ UNCHANGED <<buf, hdr, qs, qdCount, offset, qi, jumps>>

\* A pointer byte: length&0xc0 == 0xc0.  It reads buf[offset+1] without
\* checking that it exists.
PointerByte ==
    /\ status = "name"
    /\ InBounds(pn.offset)
    /\ (At(pn.offset) & 192) = 192

\* Follow the pointer to target, returning at orig: or, at a pointer this
\* call already followed, loop forever.
Jump(target, orig) ==
    IF pn.offset \in pn.seen
       THEN /\ status' = "hang"
            /\ UNCHANGED <<pn, jumps>>
       ELSE /\ pn' = [pn EXCEPT !.original = orig, !.offset = target,
                                !.jumped = TRUE, !.seen = @ \cup {pn.offset}]
            /\ jumps' = jumps \cup {<<pn.offset, target>>}
            /\ UNCHANGED status

\* buf[offset+1] past the end: index out of range.
PointerPanic ==
    /\ ~InBounds(pn.offset + 1)
    /\ status' = "panic"
    /\ UNCHANGED <<pn, jumps>>

\* Mutant: the pointer's offset taken without masking off the two flag bits.
NamePointerUnmasked ==
    /\ PointerByte
    /\ \/ /\ InBounds(pn.offset + 1)
          /\ Jump(At(pn.offset) * 256 + At(pn.offset + 1),
                  IF pn.jumped THEN pn.original ELSE pn.offset + 2)
       \/ PointerPanic
    /\ UNCHANGED <<buf, hdr, qs, qdCount, offset, qi>>

\* Mutant: the return offset is moved at every jump, not only the first.
NamePointerEveryJump ==
    /\ PointerByte
    /\ \/ /\ InBounds(pn.offset + 1)
          /\ Jump((At(pn.offset) & 63) * 256 + At(pn.offset + 1), pn.offset + 2)
       \/ PointerPanic
    /\ UNCHANGED <<buf, hdr, qs, qdCount, offset, qi>>

\* if !jumped { original = offset + 2 }; offset = (buf[offset]&0x3f)<<8 |
\* buf[offset+1]; jumped = true.
NamePointer ==
    /\ PointerByte
    /\ \/ /\ InBounds(pn.offset + 1)
          /\ Jump((At(pn.offset) & 63) * 256 + At(pn.offset + 1),
                  IF pn.jumped THEN pn.original ELSE pn.offset + 2)
       \/ PointerPanic
    /\ UNCHANGED <<buf, hdr, qs, qdCount, offset, qi>>

\* Mutant: the label slice starts one byte early, at the length byte.
NameLabelFromLengthByte ==
    /\ status = "name"
    /\ InBounds(pn.offset)
    /\ At(pn.offset) # 0
    /\ (At(pn.offset) & 192) # 192
    /\ LET length == At(pn.offset) IN
       IF pn.offset + 1 + length >= Len(buf)
          THEN /\ status' = "err"
               /\ UNCHANGED pn
          ELSE /\ pn' = [pn EXCEPT !.name = Append(@, SubSeq(buf, pn.offset + 1,
                                                         pn.offset + length)),
                                   !.offset = @ + 1 + length]
               /\ UNCHANGED status
    /\ UNCHANGED <<buf, hdr, qs, qdCount, offset, qi, jumps>>

\* A label: offset+1+length >= len(buf) is "name extends past buffer";
\* otherwise append buf[offset+1 : offset+1+length].
NameLabel ==
    /\ status = "name"
    /\ InBounds(pn.offset)
    /\ At(pn.offset) # 0
    /\ (At(pn.offset) & 192) # 192
    /\ LET length == At(pn.offset) IN
       IF pn.offset + 1 + length >= Len(buf)
          THEN /\ status' = "err"
               /\ UNCHANGED pn
          ELSE /\ pn' = [pn EXCEPT !.name = Append(@, SubSeq(buf, pn.offset + 2,
                                                         pn.offset + 1 + length)),
                                   !.offset = @ + 1 + length]
               /\ UNCHANGED status
    /\ UNCHANGED <<buf, hdr, qs, qdCount, offset, qi, jumps>>

-----------------------------------------------------------------------------
Next ==
    \/ ParseMessageHeader \/ QuestionLoop \/ ReadQuestion
    \/ NameLoopExit \/ NameTerminator \/ NamePointer \/ NameLabel

Spec == Init /\ [][Next]_vars

\* parseDNSMessage never reads the answer section: msg.Answers stays nil.
ParsedAnswers == << >>

\* The dnsMessage parseDNSMessage returns.
Parsed == hdr @@ [Questions |-> qs, Answers |-> ParsedAnswers]

-----------------------------------------------------------------------------
TypeOK ==
    /\ buf \in Seq(0..255)
    /\ status \in {"start", "loop", "name", "question"} \cup Done
    /\ qdCount \in 0..65535
    /\ offset \in Nat /\ qi \in Nat
    /\ pn.jumped \in BOOLEAN /\ pn.offset \in Nat /\ pn.original \in Nat
    /\ pn.seen \subseteq Nat
    /\ \A j \in jumps : j[1] \in Nat /\ j[2] \in 0..16383

\* The spec (4.5): a compression pointer is an offset back into the packet,
\* and parsing bound-checks every offset and fails closed, returning a
\* parse error.  A packet must never drive parseName to an out-of-range
\* index (its pointer case reads the byte after the pointer byte
\* unchecked), nor keep it looping (it follows a pointer back into a
\* cycle of labels and pointers forever), and every pointer parseName
\* follows must point back, before itself (it follows forward pointers,
\* pointers past the end and pointers to themselves alike).
FailsClosed ==
    /\ status \notin {"panic", "hang"}
    /\ \A j \in jumps : j[2] < j[1]

\* The spec (4.5): encoding mirrors parsing bit-for-bit.  A packet the parser
\* accepts without following a pointer is re-encoded by encodeDNSMessage
\* into exactly the bytes parsed, given the parts of a packet the two are
\* known not to mirror: the reserved header bits are zero, ANCOUNT, NSCOUNT
\* and ARCOUNT are zero (parseDNSMessage reads only questions, and the
\* encoder writes NSCOUNT and ARCOUNT as 0), and no byte of the question
\* section is '.' (parseName joins labels with '.', which encodeName splits
\* on, so a label holding a dot comes back as two labels).
ReencodeAccepted ==
    /\ status = "ok" /\ jumps = {} /\ (At(3) & 112) = 0
    /\ \A i \in 6..11 : At(i) = 0
    /\ \A i \in 12..(offset - 1) : At(i) # Dot
    => EncodeMessage(Parsed) = SubSeq(buf, 1, offset)

=============================================================================
