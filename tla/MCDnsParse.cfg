\* Every packet of one of two headers and 7 bytes over ByteVals, and the
\* encodings of header, question and compressed-name messages.
CONSTANTS
    Packets <- DnsPackets
SPECIFICATION Spec
INVARIANT TypeOK
INVARIANT ReencodeAccepted
INVARIANT RoundTrip
INVARIANT RecordDataDecodes
\* A parse ends in "ok", "err" or "panic" and takes no further step.
CHECK_DEADLOCK FALSE
