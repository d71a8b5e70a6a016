--------------------------- MODULE StateStoreProofs ---------------------------
(***************************************************************************)
(* StateStore implements AtomicRecord, for any number of writers.          *)
(*                                                                         *)
(* The argument: whatever the path or the medium names is whole and        *)
(* synced, because a file is renamed only after its own sync; the medium   *)
(* lies between the acknowledged record and the current one; and the       *)
(* holder of the lock saves the successor of the current record, because   *)
(* nobody else renames between its Load and its rename.                    *)
(***************************************************************************)
EXTENDS StateStore, TLAPS

Exclusive == \A p \in Procs : pc[p] # "idle" <=> lock = p

Settled == /\ file.whole /\ file.synced
           /\ medium.whole /\ medium.synced
           /\ acked <= medium.record
           /\ medium.record <= file.record

Saving == \A p \in Procs :
    /\ pc[p] \in {"locked", "created", "written", "synced"} => value[p] = file.record + 1
    /\ pc[p] = "written" => tmp[p].record = value[p] /\ tmp[p].whole
    /\ pc[p] = "synced" => tmp[p] = [record |-> value[p], whole |-> TRUE, synced |-> TRUE]
    /\ pc[p] \in {"renamed", "saved"} => value[p] = file.record
    /\ pc[p] = "saved" => medium = file

Inv == TypeOK /\ Exclusive /\ Settled /\ Saving

LEMMA StoreInit == Init => Inv
BY StoreAssumption DEF Init, Inv, TypeOK, Exclusive, Settled, Saving, NoFile, Files, PCs

(* A process that is past its TryLock is the only one. *)
LEMMA OneWriter ==
    ASSUME Inv, NEW p \in Procs, pc[p] # "idle", NEW q \in Procs, q # p
    PROVE  pc[q] = "idle"
BY DEF Inv, Exclusive

LEMMA SaveStepKeeps ==
    ASSUME Inv, NEW p \in Procs, SaveStep(p)
    PROVE  Inv'
<1> USE DEF Inv, TypeOK, Step
<1>1. CASE LockAndLoad(p)
  <2>1. \A q \in Procs : pc[q] = "idle"
    BY <1>1, StoreAssumption DEF LockAndLoad, Exclusive
  <2>2. \A q \in Procs : pc'[q] = IF q = p THEN "locked" ELSE "idle"
    BY <1>1, <2>1 DEF LockAndLoad
  <2> QED
    BY <1>1, <2>2, StoreAssumption DEF LockAndLoad, Exclusive, Settled, Saving, PCs, Files
<1>2. CASE CreateTemp(p)
  BY <1>2, OneWriter DEF CreateTemp, Exclusive, Settled, Saving, PCs, Files
<1>3. CASE Write(p)
  BY <1>3, OneWriter DEF Write, Exclusive, Settled, Saving, PCs, Files
<1>4. CASE Sync(p)
  <2>1. \A q \in Procs : q # p => pc'[q] = "idle" /\ tmp'[q] = tmp[q]
    BY <1>4, OneWriter DEF Sync
  <2>2. tmp'[p] = [record |-> value[p], whole |-> TRUE, synced |-> TRUE]
    <3>1. tmp[p] \in Files /\ tmp[p].record = value[p] /\ tmp[p].whole
      BY <1>4 DEF Sync, Saving
    <3> QED
      BY <1>4, <3>1 DEF Sync, Files
  <2>3. pc'[p] = "synced" /\ value[p] = file.record + 1
    BY <1>4 DEF Sync, Saving
  <2>4. TypeOK' /\ Exclusive'
    BY <1>4 DEF Sync, Exclusive, PCs, Files
  <2>5. Settled' /\ Saving'
    BY <1>4, <2>1, <2>2, <2>3 DEF Sync, Settled, Saving
  <2> QED
    BY <2>4, <2>5
<1>5. CASE Rename(p)
  <2>1. \A q \in Procs : q # p => pc'[q] = "idle"
    BY <1>5, OneWriter DEF Rename
  <2>2. file' = [record |-> file.record + 1, whole |-> TRUE, synced |-> TRUE]
    BY <1>5 DEF Rename, Saving
  <2>3. TypeOK' /\ Exclusive'
    BY <1>5, <2>2 DEF Rename, Exclusive, PCs, Files, NoFile
  <2>4. Settled' /\ Saving'
    BY <1>5, <2>1, <2>2 DEF Rename, Settled, Saving, Files
  <2> QED
    BY <2>3, <2>4
<1>6. CASE SyncDirectory(p)
  BY <1>6, OneWriter DEF SyncDirectory, Exclusive, Settled, Saving, PCs, Files
<1>7. CASE Return(p)
  <2>1. \A q \in Procs : pc'[q] = "idle"
    BY <1>7, OneWriter DEF Return
  <2> QED
    BY <1>7, <2>1, StoreAssumption DEF Return, Exclusive, Settled, Saving, PCs, Files
<1> QED
  BY <1>1, <1>2, <1>3, <1>4, <1>5, <1>6, <1>7 DEF SaveStep

LEMMA AbortKeeps ==
    ASSUME Inv, NEW p \in Procs, Abort(p)
    PROVE  Inv'
<1>1. \A q \in Procs : pc'[q] = "idle"
  BY OneWriter DEF Abort, Inv, TypeOK
<1>2. TypeOK'
  BY DEF Abort, Inv, TypeOK, PCs, NoFile, Files
<1> QED
  BY <1>1, <1>2, StoreAssumption DEF Abort, Inv, Exclusive, Settled, Saving

(* What survives a power loss is the medium or the file, and it is whole. *)
LEMMA Survives ==
    ASSUME Inv, PowerLoss
    PROVE  /\ file' = medium \/ file' = file
           /\ medium' = file'
<1>1. medium \in Files /\ file \in Files
  BY DEF Inv, TypeOK
<1> QED
  BY <1>1 DEF PowerLoss, Inv, Settled, Files

LEMMA PowerLossKeeps == Inv /\ PowerLoss => Inv'
<1> SUFFICES ASSUME Inv, PowerLoss PROVE Inv'
  OBVIOUS
<1>1. file' \in {medium, file} /\ medium' = file'
  BY Survives
<1>2. TypeOK'
  BY <1>1 DEF PowerLoss, Inv, TypeOK, PCs, NoFile, Files
<1>3. Settled'
  BY <1>1 DEF PowerLoss, Inv, Settled, TypeOK, Files
<1>4. Exclusive' /\ Saving'
  BY StoreAssumption DEF PowerLoss, Exclusive, Saving
<1> QED
  BY <1>2, <1>3, <1>4 DEF Inv

LEMMA StoreKeeps == Inv /\ [Next]_vars => Inv'
<1>1. Inv /\ UNCHANGED vars => Inv'
  BY DEF vars, Inv, TypeOK, Exclusive, Settled, Saving
<1> QED
  BY <1>1, SaveStepKeeps, AbortKeeps, PowerLossKeeps DEF Next

(* Every step of a writer or of the machine is a step of AtomicRecord or    *)
(* leaves its record alone: updates happen at the rename.                   *)
LEMMA StoreRefines == Inv /\ [Next]_vars => [Atomic!Next]_Atomic!vars
<1> SUFFICES ASSUME Inv, [Next]_vars PROVE [Atomic!Next]_Atomic!vars
  OBVIOUS
<1> USE DEF Atomic!Next, Atomic!vars, Atomic!Update, Atomic!Acknowledge, Atomic!Lose
<1>1. ASSUME NEW p \in Procs, Rename(p) PROVE Atomic!Update
  <2>1. tmp[p] = [record |-> value[p], whole |-> TRUE, synced |-> TRUE]
    BY <1>1 DEF Rename, Step, Inv, Saving
  <2>2. value[p] = file.record + 1
    BY <1>1 DEF Rename, Step, Inv, Saving
  <2> QED
    BY <1>1, <2>1, <2>2 DEF Rename
<1>2. ASSUME NEW p \in Procs, Return(p) PROVE Atomic!Acknowledge
  BY <1>2 DEF Return, Step, Inv, Saving
<1>3. CASE PowerLoss
  <2>1. file'.record \in {medium.record, file.record}
    BY <1>3, Survives
  <2> QED
    BY <1>3, <2>1 DEF PowerLoss, Inv, TypeOK, Files, Settled
<1>4. ASSUME NEW p \in Procs,
             \/ LockAndLoad(p) \/ CreateTemp(p) \/ Write(p) \/ Sync(p)
             \/ SyncDirectory(p) \/ Abort(p)
      PROVE  UNCHANGED Atomic!vars
  BY <1>4 DEF LockAndLoad, CreateTemp, Write, Sync, SyncDirectory, Abort
<1>5. CASE UNCHANGED vars
  BY <1>5 DEF vars
<1> QED
  BY <1>1, <1>2, <1>3, <1>4, <1>5 DEF Next, SaveStep

(* Every variable of the store has its type, whoever is killed when: a lock *)
(* without an owner, temporary files, the path and the medium.              *)
THEOREM StoreTypes == Spec => []TypeOK
<1>1. Inv => TypeOK
  BY DEF Inv
<1> QED
  BY StoreInit, StoreKeeps, <1>1, PTL DEF Spec

(* The record at the path can be decoded at every moment. *)
THEOREM StoreReadable == Spec => []AlwaysReadable
<1>1. Inv => AlwaysReadable
  BY DEF Inv, Settled, AlwaysReadable
<1> QED
  BY StoreInit, StoreKeeps, <1>1, PTL DEF Spec

(* The state file is an atomic, durable record: no acknowledged update is   *)
(* lost to another writer, to a killed process or to a power loss.          *)
THEOREM StoreIsAtomic == Spec => IsAtomic
<1>1. Init => Atomic!Init
  BY DEF Init, Atomic!Init, NoFile
<1> QED
  BY StoreInit, StoreKeeps, StoreRefines, <1>1, PTL DEF Spec, IsAtomic, Atomic!Spec
=============================================================================
