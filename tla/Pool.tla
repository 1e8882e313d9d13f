--------------------------------- MODULE Pool ---------------------------------
(***************************************************************************)
(* hephaestus-pool: one warm-pool directory used by several processes.     *)
(*                                                                         *)
(* Pool::init builds the directory and writes its meta file last; a client *)
(* opens the pool, claims a slot with flock(2) on slot-<k>/lock, clones    *)
(* the pristine disk into the slot, restores the snapshot on the clone,    *)
(* and drops the slot; Pool::stats probes the same locks; Pool::destroy    *)
(* removes the tree.  Processes may die between any two steps.             *)
(*                                                                         *)
(* Disk images and lock files are inodes, so that a path that is removed   *)
(* and made again names something else.  A snapshot belongs to the disk    *)
(* state it was taken on: both carry the number of the warm-up.            *)
(***************************************************************************)
EXTENDS Integers, FiniteSets

CONSTANTS
    Clients,      \* processes that use the pool
    Size,         \* PoolInit.slots
    Commands,     \* the operations they issue
    Inodes,
    NoInode,
    NoSave,       \* save.bin does not exist
    Cold,         \* a disk as cloned from the source rootfs
    Dirty,        \* a disk a running guest has written to
    AdminAlone    \* init and destroy are run while nobody uses the pool

AllCommands == {"init", "run", "restore", "stats", "destroy"}
AdminCommands == {"init", "destroy"}

ASSUME PoolAssumption ==
    /\ Size \in Nat \ {0}
    /\ Commands \subseteq AllCommands
    /\ NoInode \notin Inodes
    /\ {NoSave, Cold, Dirty} \cap Nat = {}
    /\ Cardinality({NoSave, Cold, Dirty}) = 3
    /\ AdminAlone \in BOOLEAN

Slots == 0 .. Size - 1
Contents == Nat \cup {Cold, Dirty}

VARIABLES
    pc,         \* where each process is
    cmd,        \* the operation it performs
    slot,       \* loop counter over slots; the index of a claimed slot
    fd,         \* inode behind its slot-lock descriptor
    disk,       \* inode its virtual machine has attached
    exists,     \* whether the pool directory exists
    meta,       \* the meta file: none, partial or complete
    pristine,   \* inode that pristine.ext4 names
    save,       \* warm-up whose machine state save.bin holds
    slotDir,    \* whether slot-<k> exists
    lock,       \* inode that slot-<k>/lock names
    rootfs,     \* inode that slot-<k>/rootfs.ext4 names
    content,    \* what each disk inode holds
    warmups     \* warm-ups so far

procVars == <<pc, cmd, slot, fd, disk>>
fileVars == <<exists, meta, pristine, save, slotDir, lock, rootfs, content>>
vars == <<pc, cmd, slot, fd, disk, exists, meta, pristine, save, slotDir,
          lock, rootfs, content, warmups>>

InitPcs == {"i_check", "i_mkdir", "i_clone", "i_boot", "i_save", "i_slots",
            "i_meta", "i_body"}
ClaimedPcs == {"clone", "restore", "running", "remove", "drop", "unlock"}
ScanPcs == {"claim", "flock", "stat", "stat_flock", "stat_drop"}
DestroyPcs == {"d_check", "d_remove"}
Pcs == {"idle", "open"} \cup InitPcs \cup ScanPcs \cup ClaimedPcs
         \cup DestroyPcs

TypeOK ==
    /\ pc \in [Clients -> Pcs]
    /\ cmd \in [Clients -> AllCommands]
    /\ slot \in [Clients -> Slots]
    /\ fd \in [Clients -> Inodes \cup {NoInode}]
    /\ disk \in [Clients -> Inodes \cup {NoInode}]
    /\ exists \in BOOLEAN
    /\ meta \in {"none", "partial", "complete"}
    /\ pristine \in Inodes \cup {NoInode}
    /\ save \in Nat \cup {NoSave}
    /\ slotDir \in [Slots -> BOOLEAN]
    /\ lock \in [Slots -> Inodes \cup {NoInode}]
    /\ rootfs \in [Slots -> Inodes \cup {NoInode}]
    /\ content \in [Inodes -> Contents]
    /\ warmups \in Nat

Init ==
    /\ pc = [c \in Clients |-> "idle"]
    /\ cmd = [c \in Clients |-> "stats"]
    /\ slot = [c \in Clients |-> 0]
    /\ fd = [c \in Clients |-> NoInode]
    /\ disk = [c \in Clients |-> NoInode]
    /\ exists = FALSE
    /\ meta = "none"
    /\ pristine = NoInode
    /\ save = NoSave
    /\ slotDir = [k \in Slots |-> FALSE]
    /\ lock = [k \in Slots |-> NoInode]
    /\ rootfs = [k \in Slots |-> NoInode]
    /\ content = [i \in Inodes |-> Cold]
    /\ warmups = 0
-----------------------------------------------------------------------------
(***************************************************************************)
(* Helpers                                                                 *)
(***************************************************************************)
Claimed(c) == pc[c] \in ClaimedPcs

\* What a non-blocking flock attempt on inode i observes as EWOULDBLOCK.
Held(i) ==
    \E c \in Clients : fd[c] = i /\ pc[c] \notin {"flock", "stat_flock"}

\* The inodes a new file may get, and the one it gets.
Unused ==
    {i \in Inodes :
        /\ pristine # i
        /\ \A k \in Slots : lock[k] # i /\ rootfs[k] # i
        /\ \A c \in Clients : fd[c] # i /\ disk[c] # i}

NewInode == CHOOSE i \in Unused : TRUE

Goto(c, to) == pc' = [pc EXCEPT ![c] = to]

\* The process ends; the kernel closes what it had open.
Exit(c) ==
    /\ Goto(c, "idle")
    /\ cmd' = [cmd EXCEPT ![c] = "stats"]
    /\ slot' = [slot EXCEPT ![c] = 0]
    /\ fd' = [fd EXCEPT ![c] = NoInode]
    /\ disk' = [disk EXCEPT ![c] = NoInode]

\* An error, or a process killed at any point.
Fail(c) ==
    /\ pc[c] # "idle"
    /\ Exit(c)
    /\ UNCHANGED fileVars
    /\ UNCHANGED warmups

FirstPc(k) ==
    CASE k = "init"    -> "i_check"
      [] k = "destroy" -> "d_check"
      [] OTHER         -> "open"

Start(c, k) ==
    /\ pc[c] = "idle"
    /\ k \in Commands
    /\ AdminAlone =>
          \A d \in Clients :
              /\ k \in AdminCommands => pc[d] = "idle"
              /\ cmd[d] \notin AdminCommands
    /\ Goto(c, FirstPc(k))
    /\ cmd' = [cmd EXCEPT ![c] = k]
    /\ UNCHANGED <<slot, fd, disk, warmups>>
    /\ UNCHANGED fileVars
-----------------------------------------------------------------------------
(***************************************************************************)
(* clone_file: cp -c.  An existing destination is replaced or overwritten  *)
(* in place, whichever cp does; failure is Fail or the caller's error path.*)
(***************************************************************************)
\* The inodes the destination, which names dst, may name afterwards.
CloneTargets(dst) ==
    (IF Unused # {} THEN {NewInode} ELSE {}) \cup ({dst} \ {NoInode})
-----------------------------------------------------------------------------
(***************************************************************************)
(* Pool::init                                                              *)
(***************************************************************************)
\* dir.exists() and create_dir_all are two system calls.
InitCheck(c) ==
    /\ pc[c] = "i_check"
    /\ \/ exists /\ Exit(c)
       \/ ~exists /\ Goto(c, "i_mkdir") /\ UNCHANGED <<cmd, slot, fd, disk>>
    /\ UNCHANGED fileVars
    /\ UNCHANGED warmups

InitMkdir(c) ==
    /\ pc[c] = "i_mkdir"
    /\ exists' = TRUE
    /\ Goto(c, "i_clone")
    /\ UNCHANGED <<cmd, slot, fd, disk, warmups>>
    /\ UNCHANGED <<meta, pristine, save, slotDir, lock, rootfs, content>>

InitClone(c) ==
    /\ pc[c] = "i_clone"
    /\ exists
    /\ \E i \in CloneTargets(pristine) :
          /\ pristine' = i
          /\ content' = [content EXCEPT ![i] = Cold]
    /\ Goto(c, "i_boot")
    /\ UNCHANGED <<cmd, slot, fd, disk, warmups>>
    /\ UNCHANGED <<exists, meta, save, slotDir, lock, rootfs>>

\* vz_exec_snapshot_save or vz_snapshot_save: boot on the pristine disk ...
InitBoot(c) ==
    /\ pc[c] = "i_boot"
    /\ pristine # NoInode
    /\ disk' = [disk EXCEPT ![c] = pristine]
    /\ content' = [content EXCEPT ![pristine] = Dirty]
    /\ Goto(c, "i_save")
    /\ UNCHANGED <<cmd, slot, fd, warmups>>
    /\ UNCHANGED <<exists, meta, pristine, save, slotDir, lock, rootfs>>

\* Mutant: the guest is resumed after the save and writes on.
MutGuestRunsOn(c) ==
    /\ pc[c] = "i_save"
    /\ exists
    /\ warmups' = warmups + 1
    /\ save' = warmups'
    /\ disk' = [disk EXCEPT ![c] = NoInode]
    /\ Goto(c, "i_slots")
    /\ UNCHANGED <<cmd, slot, fd>>
    /\ UNCHANGED <<exists, meta, pristine, slotDir, lock, rootfs, content>>

\* ... and save the machine state that goes with it.
InitSave(c) ==
    /\ pc[c] = "i_save"
    /\ exists
    /\ warmups' = warmups + 1
    /\ save' = warmups'
    /\ content' = [content EXCEPT ![disk[c]] = warmups']
    /\ disk' = [disk EXCEPT ![c] = NoInode]
    /\ Goto(c, "i_slots")
    /\ UNCHANGED <<cmd, slot, fd>>
    /\ UNCHANGED <<exists, meta, pristine, slotDir, lock, rootfs>>

\* create_dir fails on a slot that exists already.
InitSlot(c) ==
    /\ pc[c] = "i_slots"
    /\ exists
    /\ ~slotDir[slot[c]]
    /\ Unused # {}
    /\ slotDir' = [slotDir EXCEPT ![slot[c]] = TRUE]
    /\ lock' = [lock EXCEPT ![slot[c]] = NewInode]
    /\ \/ /\ slot[c] + 1 < Size
          /\ slot' = [slot EXCEPT ![c] = @ + 1]
          /\ UNCHANGED pc
       \/ /\ slot[c] + 1 = Size
          /\ Goto(c, "i_meta")
          /\ UNCHANGED slot
    /\ UNCHANGED <<cmd, fd, disk, warmups>>
    /\ UNCHANGED <<exists, meta, pristine, save, rootfs, content>>

\* PoolMeta::write creates the file and then writes it line by line.
InitMeta(c) ==
    /\ pc[c] = "i_meta"
    /\ exists
    /\ meta' = "partial"
    /\ Goto(c, "i_body")
    /\ UNCHANGED <<cmd, slot, fd, disk, warmups>>
    /\ UNCHANGED <<exists, pristine, save, slotDir, lock, rootfs, content>>

\* If the file has been removed meanwhile, the lines go to the removed file.
InitBody(c) ==
    /\ pc[c] = "i_body"
    /\ meta' = IF meta = "none" THEN "none" ELSE "complete"
    /\ Exit(c)
    /\ UNCHANGED warmups
    /\ UNCHANGED <<exists, pristine, save, slotDir, lock, rootfs, content>>
-----------------------------------------------------------------------------
(***************************************************************************)
(* Pool::open and Pool::try_claim_slot                                     *)
(***************************************************************************)
\* No directory, no meta, or a meta without all its keys is an error.
Open(c) ==
    /\ pc[c] = "open"
    /\ \/ /\ exists /\ meta = "complete"
          /\ Goto(c, IF cmd[c] = "stats" THEN "stat" ELSE "claim")
          /\ UNCHANGED <<cmd, slot, fd, disk>>
       \/ /\ ~(exists /\ meta = "complete")
          /\ Exit(c)
    /\ UNCHANGED fileVars
    /\ UNCHANGED warmups

\* Opens with create; a slot directory that is gone is an error.
ClaimOpen(c) ==
    /\ pc[c] = "claim"
    /\ \/ /\ slotDir[slot[c]] /\ lock[slot[c]] # NoInode
          /\ fd' = [fd EXCEPT ![c] = lock[slot[c]]]
          /\ Goto(c, "flock")
          /\ UNCHANGED <<cmd, slot, disk>>
       \/ /\ ~slotDir[slot[c]]
          /\ Exit(c)
    /\ UNCHANGED fileVars
    /\ UNCHANGED warmups

\* Mutant: the result of flock is not looked at.
MutClaimBusy(c) ==
    /\ pc[c] = "flock"
    /\ Goto(c, "clone")
    /\ UNCHANGED <<cmd, slot, fd, disk, warmups>>
    /\ UNCHANGED fileVars

ClaimSlot(c) ==
    /\ pc[c] = "flock"
    /\ ~Held(fd[c])
    /\ Goto(c, "clone")
    /\ UNCHANGED <<cmd, slot, fd, disk, warmups>>
    /\ UNCHANGED fileVars

\* EWOULDBLOCK on a slot that is not the last one: on to the next.
SlotBusy(c) ==
    /\ pc[c] = "flock"
    /\ Held(fd[c])
    /\ slot[c] + 1 < Size
    /\ slot' = [slot EXCEPT ![c] = @ + 1]
    /\ fd' = [fd EXCEPT ![c] = NoInode]
    /\ Goto(c, "claim")
    /\ UNCHANGED <<cmd, disk, warmups>>
    /\ UNCHANGED fileVars

\* EWOULDBLOCK on the last slot: Ok(None), exit code 75 or a cold boot.
AllSlotsBusy(c) ==
    /\ pc[c] = "flock"
    /\ Held(fd[c])
    /\ slot[c] + 1 = Size
    /\ Exit(c)
    /\ UNCHANGED fileVars
    /\ UNCHANGED warmups
-----------------------------------------------------------------------------
(***************************************************************************)
(* Pool::run, Pool::restore_into_vm and Drop of ClaimedSlot                *)
(***************************************************************************)
\* Mutant: a clone that is already in the slot is used again.
MutReuseClone(c) ==
    /\ pc[c] = "clone"
    /\ pristine # NoInode
    /\ slotDir[slot[c]]
    /\ IF rootfs[slot[c]] # NoInode
       THEN UNCHANGED <<rootfs, content>>
       ELSE \E i \in CloneTargets(rootfs[slot[c]]) :
               /\ rootfs' = [rootfs EXCEPT ![slot[c]] = i]
               /\ content' = [content EXCEPT ![i] = content[pristine]]
    /\ Goto(c, "restore")
    /\ UNCHANGED <<cmd, slot, fd, disk, warmups>>
    /\ UNCHANGED <<exists, meta, pristine, save, slotDir, lock>>

Clone(c) ==
    /\ pc[c] = "clone"
    /\ pristine # NoInode
    /\ slotDir[slot[c]]
    /\ \E i \in CloneTargets(rootfs[slot[c]]) :
          /\ rootfs' = [rootfs EXCEPT ![slot[c]] = i]
          /\ content' = [content EXCEPT ![i] = content[pristine]]
    /\ Goto(c, "restore")
    /\ UNCHANGED <<cmd, slot, fd, disk, warmups>>
    /\ UNCHANGED <<exists, meta, pristine, save, slotDir, lock>>

\* CpFailed: the error drops the slot.
CloneFails(c) ==
    /\ pc[c] = "clone"
    /\ Goto(c, "drop")
    /\ UNCHANGED <<cmd, slot, fd, disk, warmups>>
    /\ UNCHANGED fileVars

Restore(c) ==
    /\ pc[c] = "restore"
    /\ rootfs[slot[c]] # NoInode
    /\ save # NoSave
    /\ disk' = [disk EXCEPT ![c] = rootfs[slot[c]]]
    /\ content' = [content EXCEPT ![rootfs[slot[c]]] = Dirty]
    /\ Goto(c, "running")
    /\ UNCHANGED <<cmd, slot, fd, warmups>>
    /\ UNCHANGED <<exists, meta, pristine, save, slotDir, lock, rootfs>>

\* VmRestore: both callers remove the clone before the slot is dropped.
RestoreFails(c) ==
    /\ pc[c] = "restore"
    /\ Goto(c, "remove")
    /\ UNCHANGED <<cmd, slot, fd, disk, warmups>>
    /\ UNCHANGED fileVars

\* run returns the guest's exit code and removes the clone itself; a caller of
\* restore_into_vm drops the machine and then the slot.
VmEnds(c) ==
    /\ pc[c] = "running"
    /\ disk' = [disk EXCEPT ![c] = NoInode]
    /\ Goto(c, IF cmd[c] = "run" THEN "remove" ELSE "drop")
    /\ UNCHANGED <<cmd, slot, fd, warmups>>
    /\ UNCHANGED fileVars

RemoveClone(c) ==
    /\ pc[c] = "remove"
    /\ rootfs' = [rootfs EXCEPT ![slot[c]] = NoInode]
    /\ Goto(c, "drop")
    /\ UNCHANGED <<cmd, slot, fd, disk, warmups>>
    /\ UNCHANGED <<exists, meta, pristine, save, slotDir, lock, content>>

\* Drop removes the clone by path; the lock goes afterwards, with the fields.
DropSlot(c) ==
    /\ pc[c] = "drop"
    /\ rootfs' = [rootfs EXCEPT ![slot[c]] = NoInode]
    /\ Goto(c, "unlock")
    /\ UNCHANGED <<cmd, slot, fd, disk, warmups>>
    /\ UNCHANGED <<exists, meta, pristine, save, slotDir, lock, content>>

UnlockSlot(c) ==
    /\ pc[c] = "unlock"
    /\ Exit(c)
    /\ UNCHANGED fileVars
    /\ UNCHANGED warmups
-----------------------------------------------------------------------------
(***************************************************************************)
(* Pool::stats                                                             *)
(***************************************************************************)
\* Opens without create.
StatsOpen(c) ==
    /\ pc[c] = "stat"
    /\ \/ /\ lock[slot[c]] # NoInode
          /\ fd' = [fd EXCEPT ![c] = lock[slot[c]]]
          /\ Goto(c, "stat_flock")
          /\ UNCHANGED <<cmd, slot, disk>>
       \/ /\ lock[slot[c]] = NoInode
          /\ Exit(c)
    /\ UNCHANGED fileVars
    /\ UNCHANGED warmups

\* A free slot is locked until the probe's descriptor is dropped.
StatsFree(c) ==
    /\ pc[c] = "stat_flock"
    /\ ~Held(fd[c])
    /\ Goto(c, "stat_drop")
    /\ UNCHANGED <<cmd, slot, fd, disk, warmups>>
    /\ UNCHANGED fileVars

StatsNext(c) ==
    /\ \/ pc[c] = "stat_drop"
       \/ pc[c] = "stat_flock" /\ Held(fd[c])
    /\ \/ /\ slot[c] + 1 < Size
          /\ slot' = [slot EXCEPT ![c] = @ + 1]
          /\ fd' = [fd EXCEPT ![c] = NoInode]
          /\ Goto(c, "stat")
          /\ UNCHANGED <<cmd, disk>>
       \/ /\ slot[c] + 1 = Size
          /\ Exit(c)
    /\ UNCHANGED fileVars
    /\ UNCHANGED warmups
-----------------------------------------------------------------------------
(***************************************************************************)
(* Pool::destroy: remove_dir_all takes the entries in any order.           *)
(***************************************************************************)
DestroyCheck(c) ==
    /\ pc[c] = "d_check"
    /\ \/ exists /\ Goto(c, "d_remove") /\ UNCHANGED <<cmd, slot, fd, disk>>
       \/ ~exists /\ Exit(c)
    /\ UNCHANGED fileVars
    /\ UNCHANGED warmups

DestroyFile(c) ==
    /\ pc[c] = "d_remove"
    /\ \/ /\ meta # "none" /\ meta' = "none"
          /\ UNCHANGED <<pristine, save>>
       \/ /\ pristine # NoInode /\ pristine' = NoInode
          /\ UNCHANGED <<meta, save>>
       \/ /\ save # NoSave /\ save' = NoSave
          /\ UNCHANGED <<meta, pristine>>
    /\ UNCHANGED <<pc, cmd, slot, fd, disk, warmups>>
    /\ UNCHANGED <<exists, slotDir, lock, rootfs, content>>

DestroySlot(c) ==
    /\ pc[c] = "d_remove"
    /\ \E k \in Slots :
          /\ slotDir[k]
          /\ slotDir' = [slotDir EXCEPT ![k] = FALSE]
          /\ lock' = [lock EXCEPT ![k] = NoInode]
          /\ rootfs' = [rootfs EXCEPT ![k] = NoInode]
    /\ UNCHANGED <<pc, cmd, slot, fd, disk, warmups>>
    /\ UNCHANGED <<exists, meta, pristine, save, content>>

DestroyDir(c) ==
    /\ pc[c] = "d_remove"
    /\ meta = "none" /\ pristine = NoInode /\ save = NoSave
    /\ \A k \in Slots : ~slotDir[k]
    /\ exists' = FALSE
    /\ Exit(c)
    /\ UNCHANGED warmups
    /\ UNCHANGED <<meta, pristine, save, slotDir, lock, rootfs, content>>
-----------------------------------------------------------------------------
\* A step the process takes by itself, short of its guest's.
Step(c) ==
    \/ InitCheck(c) \/ InitMkdir(c) \/ InitClone(c) \/ InitBoot(c)
    \/ InitSave(c) \/ InitSlot(c) \/ InitMeta(c) \/ InitBody(c)
    \/ Open(c) \/ ClaimOpen(c) \/ ClaimSlot(c) \/ SlotBusy(c)
    \/ AllSlotsBusy(c)
    \/ Clone(c) \/ CloneFails(c) \/ Restore(c) \/ RestoreFails(c)
    \/ RemoveClone(c) \/ DropSlot(c) \/ UnlockSlot(c)
    \/ StatsOpen(c) \/ StatsFree(c) \/ StatsNext(c)
    \/ DestroyCheck(c) \/ DestroyFile(c) \/ DestroySlot(c) \/ DestroyDir(c)

ClientNext(c) ==
    \/ \E k \in AllCommands : Start(c, k)
    \/ Step(c)
    \/ VmEnds(c)
    \/ Fail(c)

Next == \E c \in Clients : ClientNext(c)

Spec == Init /\ [][Next]_vars
-----------------------------------------------------------------------------
(***************************************************************************)
(* Properties                                                              *)
(***************************************************************************)
\* Slots are exclusive claims: the flock taken in try_claim_slot is the claim,
\* dropping the ClaimedSlot or the death of the process gives it up.
Claims == INSTANCE ExclusiveClaims
    WITH Resources <- Slots, Clients <- Clients,
         owners <- [k \in Slots |-> {c \in Clients : Claimed(c) /\ slot[c] = k}]

ImplementsClaims == Claims!Spec

\* "Slot claims are exclusive via flock(2)": no two processes hold the same
\* slot of the pool.
SlotExclusive ==
    \A c, d \in Clients :
        Claimed(c) /\ Claimed(d) /\ slot[c] = slot[d] => c = d

\* While a guest runs, its slot's rootfs.ext4 is the disk it runs on, and no
\* other guest runs on that disk: neither a second claim, nor the cleanup of
\* an earlier claim of the slot, touches it.
RunningDisk ==
    \A c \in Clients : pc[c] = "running" =>
        /\ rootfs[slot[c]] = disk[c]
        /\ \A d \in Clients \ {c} : disk[d] # disk[c]

\* A guest is restored on a disk that holds exactly what the snapshot was taken
\* on: never on what an earlier, perhaps crashed, run left in the slot, nor on
\* a disk of another warm-up.
FreshRestore ==
    [][\A c \in Clients :
          pc[c] = "restore" /\ pc'[c] = "running" =>
             content[rootfs[slot[c]]] = save]_vars

\* meta is written last and so vouches for the rest: as long as the pool can be
\* opened, the machine state in save.bin and the pristine disk that slots are
\* cloned from are of the same warm-up.  A destroy that was cut short may have
\* removed one of them, but never leaves a pair that does not match.
OpenPoolMatches ==
    exists /\ meta = "complete" /\ pristine # NoInode /\ save # NoSave =>
        content[pristine] = save

\* A slot given up in the regular way is left without a clone ("Drop also
\* best-effort-removes the slot's rootfs clone so the slot becomes ready").
ReleasedSlotReady ==
    \A c \in Clients : pc[c] = "unlock" => rootfs[slot[c]] = NoInode
=============================================================================
