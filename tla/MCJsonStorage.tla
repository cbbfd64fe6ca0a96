---------------------------- MODULE MCJsonStorage ----------------------------
EXTENDS JsonStorage

CONSTANTS k1, v1

\* One entry, or none.
Entry == [k \in Keys |-> v1]

\* The files a server may find when it starts: none yet, or ones an earlier
\* run wrote.
WrittenDisk == {Missing, Whole(EmptyMap), Whole(Entry)}

\* ... or a file json.Unmarshal rejects, still holding an entry: one cut
\* short by a power loss before its data reached the disk, or edited by hand.
DamagedDisk == WrittenDisk \cup {Torn(Entry)}
=============================================================================
