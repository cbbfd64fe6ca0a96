----------------------------- MODULE JsonStorage -----------------------------
(***************************************************************************)
(* JSONStorage (package storage, internal/server/server_test.go 435-777):  *)
(* three in-memory maps, each written through to its own JSON file by     *)
(* saveJSONFile, which writes path.tmp and then renames it over path.      *)
(*                                                                         *)
(* Every operation holds s.mu for its whole run, so operations never       *)
(* interleave; what can come between the steps of one is the process      *)
(* dying.  A call's file steps are separate actions (WriteFile begun,     *)
(* WriteFile ended, Rename) so that a crash may fall between any two, and *)
(* WriteFile and Rename may fail.  A crash loses memory and keeps the     *)
(* files; the next process begins with NewJSONStorage and Start.          *)
(*                                                                         *)
(* A file holds a map of Keys to Vals (None: no entry).  A file's "ok"    *)
(* says whether json.Unmarshal accepts it; "data" is what it holds either *)
(* way, so that entries in a file that cannot be read are not forgotten.  *)
(***************************************************************************)
EXTENDS Naturals, Sequences, FiniteSets

CONSTANTS
    Keys,        \* node IDs, vendor IDs and setting keys
    Vals,        \* the values stored under them
    None,        \* no entry under a key
    InitDisk,    \* the files the first process may find
    MaxRestarts  \* bound on the processes begun after a crash or a stop

Files == {"nodes", "vendors", "settings"}

\* sync(): saveNodes, saveVendors, saveSettings, stopping at the first error.
SyncOrder == <<"nodes", "vendors", "settings">>

\* There is a DeleteNode and a DeleteSetting, but no DeleteVendor.
Deletable == {"nodes", "settings"}

Map == [Keys -> Vals \cup {None}]
EmptyMap == [k \in Keys |-> None]
\* A file: whether it exists, whether json.Unmarshal accepts it, and the
\* entries it holds either way.
Content == [exists : BOOLEAN, ok : BOOLEAN, data : Map]
Missing == [exists |-> FALSE, ok |-> TRUE, data |-> EmptyMap]
Whole(m) == [exists |-> TRUE, ok |-> TRUE, data |-> m]
Torn(m) == [exists |-> TRUE, ok |-> FALSE, data |-> m]

\* loadJSONFile: a missing or empty file leaves the map empty; so does one
\* Unmarshal rejects (the error is only logged by Start, and Unmarshal
\* checks the syntax before it stores anything).
Load(c) == IF c.ok THEN c.data ELSE EmptyMap

Idle == [call |-> "none", all |-> {}, files |-> << >>, stage |-> "none"]

VARIABLES
    phase,     \* "new" (NewJSONStorage), "running" (after Start), "stopped"
    mem,       \* s.nodes, s.vendors, s.settings
    disk,      \* nodes.json, vendors.json, settings.json
    tmp,       \* the .tmp files: a file as above
    op,        \* the call holding s.mu: its files left to save and its step
    backup,    \* the last backup directory's copies
    ret,       \* what the last call returned: "none", "nil" or "err"
    restarts,  \* processes begun after the first
    removed    \* ghost: keys a Delete call took out since Start

vars == <<phase, mem, disk, tmp, op, backup, ret, restarts, removed>>

Init ==
    /\ phase = "new"
    /\ mem = [f \in Files |-> EmptyMap]
    /\ disk \in [Files -> InitDisk]
    /\ tmp = [f \in Files |-> Missing]
    /\ op = Idle
    /\ backup = [f \in Files |-> Missing]
    /\ ret = "none"
    /\ restarts = 0
    /\ removed = [f \in Files |-> {}]

Locked == op # Idle
File == Head(op.files)

-----------------------------------------------------------------------------
(* Start: MkdirAll, then loadNodes, loadVendors, loadSettings.  A load     *)
(* error is logged and Start goes on; MkdirAll failing makes Run return   *)
(* before it defers Stop, and the process ends.                            *)
\* Mutant: Start forgets loadSettings.
StartSkipsSettings ==
    /\ phase = "new"
    /\ \/ /\ mem' = [f \in Files |-> IF f = "settings" THEN EmptyMap ELSE Load(disk[f])]
          /\ phase' = "running"
          /\ removed' = [f \in Files |-> {}]
       \/ /\ phase' = "stopped"
          /\ UNCHANGED <<mem, removed>>
    /\ UNCHANGED <<disk, tmp, op, backup, ret, restarts>>

Start ==
    /\ phase = "new"
    /\ \/ /\ mem' = [f \in Files |-> Load(disk[f])]
          /\ phase' = "running"
          /\ removed' = [f \in Files |-> {}]
       \/ /\ phase' = "stopped"
          /\ UNCHANGED <<mem, removed>>
    /\ UNCHANGED <<disk, tmp, op, backup, ret, restarts>>

\* A call takes s.mu and begins saving its files.
Call(c, files) ==
    op' = [call |-> c, all |-> {files[i] : i \in DOMAIN files},
           files |-> files, stage |-> "write"]

Ready == phase = "running" /\ ~Locked

\* SaveNode, SaveVendor, SaveSetting: s.<map>[key] = copy; s.save<File>().
Save(f, k, v) ==
    /\ Ready
    /\ mem' = [mem EXCEPT ![f][k] = v]
    /\ Call("save", <<f>>)
    /\ UNCHANGED <<phase, disk, tmp, backup, ret, restarts, removed>>

\* DeleteNode, DeleteSetting: delete(s.<map>, key); s.save<File>().
Delete(f, k) ==
    /\ Ready
    /\ f \in Deletable
    /\ mem' = [mem EXCEPT ![f][k] = None]
    /\ removed' = [removed EXCEPT ![f] = @ \cup {k}]
    /\ Call("delete", <<f>>)
    /\ UNCHANGED <<phase, disk, tmp, backup, ret, restarts>>

\* Sync and Stop both run sync() under the lock.
SyncCall(c) ==
    /\ Ready
    /\ Call(c, SyncOrder)
    /\ UNCHANGED <<phase, mem, disk, tmp, backup, ret, restarts, removed>>

\* The call returns r and releases s.mu.  Run defers Stop, so once Stop
\* returns the process is ending.
Finish(r) ==
    /\ op' = Idle
    /\ ret' = r
    /\ phase' = IF op.call = "stop" THEN "stopped" ELSE phase

-----------------------------------------------------------------------------
(* saveJSONFile(path, data) for the first file the call has left.          *)

\* Mutant: the file is written in place instead of through path.tmp.
WriteBeginInPlace ==
    /\ Locked /\ op.stage = "write"
    /\ disk' = [disk EXCEPT ![File] = Torn(@.data)]
    /\ op' = [op EXCEPT !.stage = "writing"]
    /\ UNCHANGED <<phase, mem, tmp, backup, ret, restarts, removed>>

\* os.WriteFile(tmpPath, ...) has truncated the tmp file and is writing it.
WriteBegin ==
    /\ Locked /\ op.stage = "write"
    /\ tmp' = [tmp EXCEPT ![File] = Torn(EmptyMap)]
    /\ op' = [op EXCEPT !.stage = "writing"]
    /\ UNCHANGED <<phase, mem, disk, backup, ret, restarts, removed>>

\* Mutant: saveSettings marshals s.vendors (a copy-and-paste slip).
WriteEndWrongMap ==
    /\ Locked /\ op.stage = "writing"
    /\ \/ /\ tmp' = [tmp EXCEPT ![File] =
                      Whole(mem[IF File = "settings" THEN "vendors" ELSE File])]
          /\ op' = [op EXCEPT !.stage = "rename"]
          /\ UNCHANGED <<phase, ret>>
       \/ /\ Finish("err")
          /\ UNCHANGED tmp
    /\ UNCHANGED <<mem, disk, backup, restarts, removed>>

\* os.WriteFile returns: the whole map is in the tmp file, or an error
\* (say, a full disk) leaves it cut short and the call returns the error.
WriteEnd ==
    /\ Locked /\ op.stage = "writing"
    /\ \/ /\ tmp' = [tmp EXCEPT ![File] = Whole(mem[File])]
          /\ op' = [op EXCEPT !.stage = "rename"]
          /\ UNCHANGED <<phase, ret>>
       \/ /\ Finish("err")
          /\ UNCHANGED tmp
    /\ UNCHANGED <<mem, disk, backup, restarts, removed>>

\* Mutant: the end of the file list is tested one file late.
NextFileOrReturnLate ==
    IF op.files = << >>
       THEN Finish("nil")
       ELSE /\ op' = [op EXCEPT !.files = Tail(@), !.stage = "write"]
            /\ UNCHANGED <<phase, ret>>

\* The next file of the call, or its nil return after the last.
NextFileOrReturn ==
    IF Tail(op.files) = << >>
       THEN Finish("nil")
       ELSE /\ op' = [op EXCEPT !.files = Tail(@), !.stage = "write"]
            /\ UNCHANGED <<phase, ret>>

\* Mutant: a failed rename is not reported.
RenameErrorIgnored ==
    /\ Locked /\ op.stage = "rename"
    /\ \/ /\ disk' = [disk EXCEPT ![File] = tmp[File]]
       \/ UNCHANGED disk
    /\ tmp' = [tmp EXCEPT ![File] = Missing]
    /\ NextFileOrReturn
    /\ UNCHANGED <<mem, backup, restarts, removed>>

\* os.Rename(tmpPath, path) replaces the file at once; if it fails,
\* os.Remove(tmpPath) and the error is returned.
Rename ==
    /\ Locked /\ op.stage = "rename"
    /\ tmp' = [tmp EXCEPT ![File] = Missing]
    /\ \/ /\ disk' = [disk EXCEPT ![File] = tmp[File]]
          /\ NextFileOrReturn
       \/ /\ Finish("err")
          /\ UNCHANGED disk
    /\ UNCHANGED <<mem, backup, restarts, removed>>

-----------------------------------------------------------------------------
\* BackupData, under the read lock: each data file is copied into a new
\* backup directory; a copy that fails is only logged, a missing file is
\* skipped.
BackupData ==
    /\ Ready
    /\ \E failed \in SUBSET Files :
          backup' = [f \in Files |-> IF f \in failed THEN Missing ELSE disk[f]]
    /\ ret' = "nil"
    /\ UNCHANGED <<phase, mem, disk, tmp, op, restarts, removed>>

\* The process dies at any point (or exits after Stop): memory is gone, the
\* files stay as they are, and a new process begins with NewJSONStorage.
Exit ==
    /\ phase # "new"
    /\ restarts < MaxRestarts
    /\ phase' = "new"
    /\ mem' = [f \in Files |-> EmptyMap]
    /\ op' = Idle
    /\ ret' = "none"
    /\ restarts' = restarts + 1
    /\ removed' = [f \in Files |-> {}]
    /\ UNCHANGED <<disk, tmp, backup>>

Next ==
    \/ Start
    \/ \E f \in Files, k \in Keys, v \in Vals : Save(f, k, v)
    \/ \E f \in Files, k \in Keys : Delete(f, k)
    \/ SyncCall("sync") \/ SyncCall("stop")
    \/ WriteBegin \/ WriteEnd \/ Rename
    \/ BackupData \/ Exit

Spec == Init /\ [][Next]_vars

-----------------------------------------------------------------------------
TypeOK ==
    /\ phase \in {"new", "running", "stopped"}
    /\ op \in {Idle} \cup [call : {"save", "delete", "sync", "stop"}, all : SUBSET Files,
                            files : Seq(Files) \ {<< >>},
                            stage : {"write", "writing", "rename"}]
    /\ mem \in [Files -> Map]
    /\ disk \in [Files -> Content]
    /\ tmp \in [Files -> Content]
    /\ backup \in [Files -> Content]
    /\ ret \in {"none", "nil", "err"}
    /\ restarts \in 0..MaxRestarts
    /\ removed \in [Files -> SUBSET Keys]

\* The spec (persistence files): written via write-to-temp-then-atomic-
\* rename.  Whenever the process dies, in the middle of a WriteFile or
\* between it and the rename, nodes.json, vendors.json and settings.json
\* are each a whole document json.Unmarshal accepts.
FilesStayReadable == \A f \in Files : disk[f].ok

\* A SaveNode, DeleteNode, Sync or Stop that returns nil has every file it
\* saved on disk, whole, holding exactly the map in memory.
AckedOnDisk ==
    [][Locked /\ op' = Idle /\ ret' = "nil" =>
         \A f \in op.all : disk'[f] = Whole(mem[f])]_vars

\* The spec (node record): a node is removed by DeleteNode and never
\* silently.  No write of a file drops an entry it holds unless a Delete
\* call of this process removed that key: not across crashes and restarts,
\* and not through a file Start could not load.
NoEntryLost ==
    [][\A f \in Files, k \in Keys :
          disk[f].data[k] # None /\ disk'[f].data[k] = None
              => k \in removed[f]]_vars

-----------------------------------------------------------------------------
(* Refinement: the files, the temporary copies and the lock implement     *)
(* DurableStore.  A map's durable copy is what loadJSONFile would make of *)
(* its file; the view is the map in memory.  WriteFile steps and a failed *)
(* Rename are stuttering steps; a Rename is a commit.                     *)
StoreStatus ==
    CASE phase = "new" -> "down"
      [] phase = "running" -> "up"
      [] phase = "stopped" -> "closed"

Abstract == INSTANCE DurableStore
    WITH Maps <- Map, status <- StoreStatus, view <- mem,
         durable <- [f \in Files |-> Load(disk[f])]

\* Every behaviour of the storage is one of DurableStore: a file, as Start
\* would load it, only ever changes to the whole map in memory for that
\* file (never to a cut-short file, an older map or another file's map),
\* and not at all when the process dies; Start loads what is on disk.
RefinesDurableStore == Abstract!ASpec

=============================================================================
