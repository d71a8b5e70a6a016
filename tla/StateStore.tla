------------------------------ MODULE StateStore ------------------------------
(***************************************************************************)
(* One state file (internal/state/state.go): processes that lock it, load  *)
(* it, and save a new record through a temporary file, while any step may  *)
(* fail, a process may be killed and the machine may lose its power.       *)
(*                                                                         *)
(* A record is the number of updates it was made by; 0 is no file.  What   *)
(* the file system does is external: a write is not on the medium before   *)
(* the file is synced, a rename not before the directory is, and either    *)
(* may get there earlier.                                                  *)
(***************************************************************************)
EXTENDS Integers

CONSTANTS Procs,
          NoProc,      \* nobody holds the lock
          MaxRecord    \* bound on the updates, for TLC only

ASSUME StoreAssumption == NoProc \notin Procs /\ MaxRecord \in Nat

VARIABLES lock,    \* the holder of the .lock flock
          pc,      \* where each process stands in TryLock, Load, Save, Close
          value,   \* the record it saves
          tmp,     \* its temporary file
          file,    \* what the path names now
          medium,  \* what the path names on the medium
          acked    \* history: the last record whose Save has returned

vars == <<lock, pc, value, tmp, file, medium, acked>>

\* A file: the record in it, whether that is all there, whether it is synced.
Files == [record : Nat, whole : BOOLEAN, synced : BOOLEAN]
NoFile == [record |-> 0, whole |-> TRUE, synced |-> TRUE]

PCs == {"idle", "locked", "created", "written", "synced", "renamed", "saved"}

Init == /\ lock = NoProc
        /\ pc = [p \in Procs |-> "idle"]
        /\ value = [p \in Procs |-> 0]
        /\ tmp = [p \in Procs |-> NoFile]
        /\ file = NoFile
        /\ medium = NoFile
        /\ acked = 0

Step(p, from, to) == pc[p] = from /\ pc' = [pc EXCEPT ![p] = to]

-----------------------------------------------------------------------------
\* Faulty: builds on the record before the one it has loaded.
LockAndLoad_Predecessor(p) ==
    /\ lock = NoProc
    /\ file.record < MaxRecord
    /\ Step(p, "idle", "locked")
    /\ lock' = p
    /\ value' = [value EXCEPT ![p] = file.record - 1]
    /\ UNCHANGED <<tmp, file, medium, acked>>

\* TryLock and Load: what a caller saves is built on what it has loaded.  A
\* file that cannot be decoded is an error, never the absence of a record.
LockAndLoad(p) ==
    /\ lock = NoProc
    /\ file.whole
    /\ file.record < MaxRecord
    /\ Step(p, "idle", "locked")
    /\ lock' = p
    /\ value' = [value EXCEPT ![p] = file.record + 1]
    /\ UNCHANGED <<tmp, file, medium, acked>>

CreateTemp(p) ==
    /\ Step(p, "locked", "created")
    /\ tmp' = [tmp EXCEPT ![p] = [record |-> 0, whole |-> FALSE, synced |-> FALSE]]
    /\ UNCHANGED <<lock, value, file, medium, acked>>

Write(p) ==
    /\ Step(p, "created", "written")
    /\ tmp' = [tmp EXCEPT ![p] = [record |-> value[p], whole |-> TRUE, synced |-> FALSE]]
    /\ UNCHANGED <<lock, value, file, medium, acked>>

Sync(p) ==
    /\ Step(p, "written", "synced")
    /\ tmp' = [tmp EXCEPT ![p].synced = TRUE]
    /\ UNCHANGED <<lock, value, file, medium, acked>>

\* Faulty: the temporary file is not synced before it is renamed.
Rename_Unsynced(p) ==
    /\ Step(p, "written", "renamed")
    /\ file' = tmp[p]
    /\ tmp' = [tmp EXCEPT ![p] = NoFile]
    /\ UNCHANGED <<lock, value, medium, acked>>

Rename(p) ==
    /\ Step(p, "synced", "renamed")
    /\ file' = tmp[p]
    /\ tmp' = [tmp EXCEPT ![p] = NoFile]
    /\ UNCHANGED <<lock, value, medium, acked>>

\* Faulty: the directory is not synced after the rename.
SyncDirectory_Skipped(p) ==
    /\ Step(p, "renamed", "saved")
    /\ UNCHANGED <<lock, value, tmp, file, medium, acked>>

SyncDirectory(p) ==
    /\ Step(p, "renamed", "saved")
    /\ medium' = file
    /\ UNCHANGED <<lock, value, tmp, file, acked>>

\* Save returns nil and the lock is closed.
Return(p) ==
    /\ Step(p, "saved", "idle")
    /\ lock' = NoProc
    /\ acked' = value[p]
    /\ value' = [value EXCEPT ![p] = 0]
    /\ UNCHANGED <<tmp, file, medium>>

\* A step of Save fails or the process dies: the lock is released, and the
\* temporary file is removed or left behind under a name nobody reads.
Abort(p) ==
    /\ pc[p] # "idle"
    /\ pc' = [pc EXCEPT ![p] = "idle"]
    /\ lock' = NoProc
    /\ tmp' = [tmp EXCEPT ![p] = NoFile]
    /\ value' = [value EXCEPT ![p] = 0]
    /\ UNCHANGED <<file, medium, acked>>

\* The machine stops.  Its directory entry is the synced one or the current
\* one; a file that was not synced may be there in part only.
PowerLoss ==
    /\ \E survivor \in {medium, file} : \E whole \in BOOLEAN :
          /\ whole => survivor.whole
          /\ survivor.synced => whole = survivor.whole
          /\ file' = [record |-> survivor.record, whole |-> whole, synced |-> TRUE]
    /\ medium' = file'
    /\ lock' = NoProc
    /\ pc' = [p \in Procs |-> "idle"]
    /\ value' = [p \in Procs |-> 0]
    /\ tmp' = [p \in Procs |-> NoFile]
    /\ UNCHANGED acked

SaveStep(p) == \/ LockAndLoad(p) \/ CreateTemp(p) \/ Write(p) \/ Sync(p)
               \/ Rename(p) \/ SyncDirectory(p) \/ Return(p)

Next == (\E p \in Procs : SaveStep(p) \/ Abort(p)) \/ PowerLoss

Spec == Init /\ [][Next]_vars

-----------------------------------------------------------------------------
TypeOK == /\ lock \in Procs \cup {NoProc}
          /\ pc \in [Procs -> PCs]
          /\ value \in [Procs -> Nat]
          /\ tmp \in [Procs -> Files]
          /\ file \in Files
          /\ medium \in Files
          /\ acked \in Nat

(* README: "Missing, corrupt, truncated ... state are distinct failures":   *)
(* whatever is interrupted, the record at the path can be decoded, so that  *)
(* no run is ever blocked by a half-written one.                            *)
AlwaysReadable == file.whole

(* README: "an exclusive same-host lock, a restrictive temporary file,      *)
(* fsync and atomic rename": no acknowledged update is lost, neither to     *)
(* another writer nor to a crash, and none is ever seen in part.            *)
Atomic == INSTANCE AtomicRecord WITH record <- file.record, safe <- acked

IsAtomic == Atomic!Spec
=============================================================================
