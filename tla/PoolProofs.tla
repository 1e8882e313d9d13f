------------------------------ MODULE PoolProofs ------------------------------
(***************************************************************************)
(* Proofs about Pool for any number of processes, slots and inodes, when   *)
(* init and destroy are run while nobody uses the pool.                    *)
(***************************************************************************)
EXTENDS Pool, TLAPS

LockedPcs == {"stat_drop"} \cup ClaimedPcs
OpenFdPcs == {"flock", "stat_flock"} \cup LockedPcs
UserPcs == ScanPcs \cup ClaimedPcs

(***************************************************************************)
(* The inductive invariant.                                                *)
(***************************************************************************)
\* What the program counter says about the local state of a process.
Shape(c) ==
    /\ pc[c] \in InitPcs <=> cmd[c] = "init"
    /\ pc[c] \in DestroyPcs <=> cmd[c] = "destroy"
    /\ pc[c] \in OpenFdPcs <=> fd[c] # NoInode
    /\ pc[c] \in {"i_save", "running"} <=> disk[c] # NoInode

ShapeInv == \A c \in Clients : Shape(c)

\* Who runs init or destroy is alone.
AloneInv ==
    \A c, d \in Clients : cmd[c] \in AdminCommands /\ c # d => pc[d] = "idle"

\* A slot lock has one owner, and the descriptor is of the slot's lock.
LockInv ==
    /\ \A c, d \in Clients :
          /\ c # d /\ fd[c] = fd[d]
          /\ pc[c] \in LockedPcs
          => pc[d] \notin LockedPcs
    /\ \A c \in Clients : pc[c] \in OpenFdPcs => fd[c] = lock[slot[c]]

\* Distinct paths name distinct disks.
DiskPathsInv ==
    /\ \A k \in Slots : rootfs[k] # NoInode => rootfs[k] # pristine
    /\ \A j, k \in Slots : rootfs[j] = rootfs[k] /\ rootfs[j] # NoInode => j = k

\* Guests run on the disk of their slot; a clone made for a restore is as
\* pristine as the pristine disk.
Guest(c) ==
    /\ pc[c] = "running" => rootfs[slot[c]] = disk[c]
    /\ pc[c] = "i_save" => disk[c] = pristine
    /\ pc[c] = "restore" =>
          /\ pristine # NoInode
          /\ rootfs[slot[c]] # NoInode
          /\ content[rootfs[slot[c]]] = content[pristine]
    /\ pc[c] = "unlock" => rootfs[slot[c]] = NoInode

GuestInv == \A c \in Clients : Guest(c)

\* How far Pool::init has come.
Build(c) ==
    /\ pc[c] \in UserPcs => exists /\ meta = "complete"
    /\ pc[c] = "i_mkdir" => ~exists
    /\ pc[c] \in InitPcs \ {"i_check", "i_mkdir"} => exists
    /\ pc[c] \in InitPcs \ {"i_check", "i_body"} => meta = "none"
    /\ pc[c] = "i_body" => meta = "partial"
    /\ pc[c] \in {"i_boot", "i_save", "i_slots", "i_meta", "i_body"}
          => pristine # NoInode
    /\ pc[c] \in {"i_slots", "i_meta", "i_body"} => content[pristine] = save

NoDirInv == ~exists => meta = "none" /\ pristine = NoInode /\ save = NoSave

BuildInv == NoDirInv /\ OpenPoolMatches /\ \A c \in Clients : Build(c)

PoolInv ==
    /\ TypeOK /\ ShapeInv /\ AloneInv /\ LockInv
    /\ DiskPathsInv /\ GuestInv /\ BuildInv
-----------------------------------------------------------------------------
(***************************************************************************)
(* Types                                                                   *)
(***************************************************************************)
\* A new file takes an unused inode.
LEMMA NewInodeType == Unused # {} => NewInode \in Unused
BY DEF NewInode

\* cp -c writes to a new inode or to the destination.
LEMMA CloneTargetsType ==
    ASSUME NEW dst \in Inodes \cup {NoInode}, NEW i \in CloneTargets(dst)
    PROVE  i \in Inodes /\ (i \in Unused \/ i = dst)
BY NewInodeType DEF CloneTargets, Unused

\* Where each pool command begins.
LEMMA FirstPcType ==
    ASSUME NEW k \in AllCommands
    PROVE  /\ FirstPc(k) \in {"i_check", "d_check", "open"}
           /\ FirstPc(k) = "i_check" <=> k = "init"
           /\ FirstPc(k) = "d_check" <=> k = "destroy"
BY DEF FirstPc, AllCommands

\* A scan that is not at its end moves on to a slot.
LEMMA NextSlotType ==
    ASSUME TypeOK, NEW c \in Clients, slot[c] + 1 < Size
    PROVE  slot[c] + 1 \in 0 .. Size - 1 /\ slot[c] + 1 # Size
BY PoolAssumption DEF TypeOK, Slots

\* The locals of a client that ends keep their types.
LEMMA ExitLocals ==
    ASSUME TypeOK, NEW c \in Clients, Exit(c)
    PROVE  /\ pc' \in [Clients -> Pcs] /\ cmd' \in [Clients -> AllCommands]
           /\ slot' \in [Clients -> Slots]
           /\ fd' \in [Clients -> Inodes \cup {NoInode}]
           /\ disk' \in [Clients -> Inodes \cup {NoInode}]
BY PoolAssumption DEF TypeOK, Exit, Goto, Slots, Pcs, AllCommands

\* A client that ends keeps the types.
LEMMA ExitType ==
    ASSUME TypeOK, NEW c \in Clients, Exit(c), UNCHANGED <<fileVars, warmups>>
    PROVE  TypeOK'
BY ExitLocals DEF TypeOK, fileVars

\* Every step of a client keeps the types.
LEMMA TypeStep ==
    ASSUME TypeOK, NEW c \in Clients, Shape(c), ClientNext(c)
    PROVE  TypeOK'
<1> USE PoolAssumption DEF TypeOK, Pcs, InitPcs, ScanPcs, ClaimedPcs,
        DestroyPcs, fileVars, Goto, Slots
<1>1. CASE \E k \in AllCommands : Start(c, k)
  BY <1>1, FirstPcType DEF Start
<1>2. CASE InitCheck(c)
  <2>1. CASE exists
    BY <1>2, <2>1, ExitType DEF InitCheck
  <2>2. CASE ~exists
    BY Zenon, <1>2, <2>2, ExitType DEF InitCheck
  <2>3. QED
    BY <2>1, <2>2
<1>3. CASE InitMkdir(c)
  BY <1>3 DEF InitMkdir
<1>4. CASE InitClone(c)
  BY <1>4, CloneTargetsType DEF InitClone, Contents
<1>5. CASE InitBoot(c)
  BY <1>5 DEF InitBoot, Contents
<1>6. CASE InitSave(c)
  BY <1>6 DEF InitSave, Contents, Shape
<1>7. CASE InitSlot(c)
  <2>1. NewInode \in Inodes
    BY Zenon, <1>7, NewInodeType DEF InitSlot, Unused
  <2>2. CASE slot[c] + 1 < Size
    <3>1. slot[c] + 1 \in 0 .. Size - 1 /\ slot[c] + 1 # Size
      BY <2>2, NextSlotType
    <3>2. slot' = [slot EXCEPT ![c] = slot[c] + 1] /\ pc' = pc
      BY <1>7, <3>1 DEF InitSlot
    <3>3. QED
      BY <1>7, <2>1, <3>1, <3>2 DEF InitSlot
  <2>3. CASE ~(slot[c] + 1 < Size)
    BY Zenon, <1>7, <2>1, <2>3 DEF InitSlot
  <2>4. QED
    BY <2>2, <2>3
<1>8. CASE InitMeta(c)
  BY <1>8 DEF InitMeta
<1>9. CASE InitBody(c)
  BY <1>9, ExitLocals DEF InitBody
<1>10. CASE Open(c)
  <2>1. CASE exists /\ meta = "complete"
    BY Zenon, <1>10, <2>1, ExitType DEF Open
  <2>2. CASE ~(exists /\ meta = "complete")
    BY <1>10, <2>2, ExitType DEF Open
  <2>3. QED
    BY <2>1, <2>2
<1>11. CASE ClaimOpen(c)
  <2>1. CASE slotDir[slot[c]]
    BY Zenon, <1>11, <2>1, ExitType DEF ClaimOpen
  <2>2. CASE ~slotDir[slot[c]]
    BY <1>11, <2>2, ExitType DEF ClaimOpen
  <2>3. QED
    BY <2>1, <2>2
<1>12. CASE ClaimSlot(c)
  BY <1>12 DEF ClaimSlot
<1>13. CASE SlotBusy(c)
  BY <1>13, NextSlotType DEF SlotBusy
<1>14. CASE AllSlotsBusy(c)
  BY <1>14, ExitType DEF AllSlotsBusy
<1>15. CASE Clone(c)
  <2>1. PICK i \in CloneTargets(rootfs[slot[c]]) :
            /\ rootfs' = [rootfs EXCEPT ![slot[c]] = i]
            /\ content' = [content EXCEPT ![i] = content[pristine]]
    BY Zenon, <1>15 DEF Clone
  <2>2. i \in Inodes
    BY Zenon, CloneTargetsType
  <2>3. content' \in [Inodes -> Contents]
    BY <1>15, <2>1, <2>2 DEF Clone
  <2>4. QED
    BY <1>15, <2>1, <2>2, <2>3 DEF Clone
<1>16. CASE CloneFails(c)
  BY <1>16 DEF CloneFails
<1>17. CASE Restore(c)
  BY <1>17 DEF Restore, Contents
<1>18. CASE RestoreFails(c)
  BY <1>18 DEF RestoreFails
<1>19. CASE RemoveClone(c)
  BY <1>19 DEF RemoveClone
<1>20. CASE DropSlot(c)
  BY <1>20 DEF DropSlot
<1>21. CASE UnlockSlot(c)
  BY <1>21, ExitType DEF UnlockSlot
<1>22. CASE StatsOpen(c)
  <2>1. CASE lock[slot[c]] # NoInode
    BY Zenon, <1>22, <2>1, ExitType DEF StatsOpen
  <2>2. CASE lock[slot[c]] = NoInode
    BY <1>22, <2>2, ExitType DEF StatsOpen
  <2>3. QED
    BY <2>1, <2>2
<1>23. CASE StatsFree(c)
  BY <1>23 DEF StatsFree
<1>24. CASE StatsNext(c)
  <2>1. CASE slot[c] + 1 < Size
    <3>1. slot[c] + 1 \in 0 .. Size - 1 /\ slot[c] + 1 # Size
      BY <2>1, NextSlotType
    <3>2. /\ slot' = [slot EXCEPT ![c] = slot[c] + 1]
          /\ fd' = [fd EXCEPT ![c] = NoInode] /\ Goto(c, "stat")
          /\ UNCHANGED <<cmd, disk, fileVars, warmups>>
      BY <1>24, <3>1 DEF StatsNext
    <3>3. QED
      BY <3>1, <3>2
  <2>2. CASE ~(slot[c] + 1 < Size)
    BY <1>24, <2>2, ExitType DEF StatsNext
  <2>3. QED
    BY <2>1, <2>2
<1>25. CASE DestroyCheck(c)
  <2>1. CASE exists
    BY Zenon, <1>25, <2>1, ExitType DEF DestroyCheck
  <2>2. CASE ~exists
    BY <1>25, <2>2, ExitType DEF DestroyCheck
  <2>3. QED
    BY <2>1, <2>2
<1>26. CASE DestroyFile(c)
  BY <1>26 DEF DestroyFile
<1>27. CASE DestroySlot(c)
  BY <1>27 DEF DestroySlot
<1>28. CASE DestroyDir(c)
  BY Zenon, <1>28, ExitLocals DEF DestroyDir
<1>29. CASE VmEnds(c)
  BY <1>29 DEF VmEnds
<1>30. CASE Fail(c)
  BY <1>30, ExitType DEF Fail
<1>31. QED
  BY Zenon, <1>1, <1>2, <1>3, <1>4, <1>5, <1>6, <1>7, <1>8, <1>9, <1>10, <1>11,
     <1>12, <1>13, <1>14, <1>15, <1>16, <1>17, <1>18, <1>19, <1>20, <1>21,
     <1>22, <1>23, <1>24, <1>25, <1>26, <1>27, <1>28, <1>29, <1>30 DEF
     ClientNext, Step

-----------------------------------------------------------------------------
(***************************************************************************)
(* What a step does                                                        *)
(***************************************************************************)
SameLocal(d) ==
    /\ pc'[d] = pc[d] /\ cmd'[d] = cmd[d] /\ slot'[d] = slot[d]
    /\ fd'[d] = fd[d] /\ disk'[d] = disk[d]

\* A step of one process leaves the local state of the others alone.
LEMMA LocalStep ==
    ASSUME TypeOK, NEW c \in Clients, NEW d \in Clients \ {c}, ClientNext(c)
    PROVE  SameLocal(d)
<1> USE DEF TypeOK, SameLocal, Goto, Exit
<1>1. CASE \E k \in AllCommands : Start(c, k)
  BY <1>1 DEF Start
<1>2. CASE InitCheck(c)
  BY <1>2 DEF InitCheck
<1>3. CASE InitMkdir(c)
  BY <1>3 DEF InitMkdir
<1>4. CASE InitClone(c)
  BY <1>4 DEF InitClone
<1>5. CASE InitBoot(c)
  BY <1>5 DEF InitBoot
<1>6. CASE InitSave(c)
  BY <1>6 DEF InitSave
<1>7. CASE InitSlot(c)
  BY <1>7 DEF InitSlot
<1>8. CASE InitMeta(c)
  BY <1>8 DEF InitMeta
<1>9. CASE InitBody(c)
  BY <1>9 DEF InitBody
<1>10. CASE Open(c)
  BY <1>10 DEF Open
<1>11. CASE ClaimOpen(c)
  BY <1>11 DEF ClaimOpen
<1>12. CASE ClaimSlot(c)
  BY <1>12 DEF ClaimSlot
<1>13. CASE SlotBusy(c)
  BY <1>13 DEF SlotBusy
<1>14. CASE AllSlotsBusy(c)
  BY <1>14 DEF AllSlotsBusy
<1>15. CASE Clone(c)
  BY <1>15 DEF Clone
<1>16. CASE CloneFails(c)
  BY <1>16 DEF CloneFails
<1>17. CASE Restore(c)
  BY <1>17 DEF Restore
<1>18. CASE RestoreFails(c)
  BY <1>18 DEF RestoreFails
<1>19. CASE RemoveClone(c)
  BY <1>19 DEF RemoveClone
<1>20. CASE DropSlot(c)
  BY <1>20 DEF DropSlot
<1>21. CASE UnlockSlot(c)
  BY <1>21 DEF UnlockSlot
<1>22. CASE StatsOpen(c)
  BY <1>22 DEF StatsOpen
<1>23. CASE StatsFree(c)
  BY <1>23 DEF StatsFree
<1>24. CASE StatsNext(c)
  BY <1>24 DEF StatsNext
<1>25. CASE DestroyCheck(c)
  BY <1>25 DEF DestroyCheck
<1>26. CASE DestroyFile(c)
  BY <1>26 DEF DestroyFile
<1>27. CASE DestroySlot(c)
  BY <1>27 DEF DestroySlot
<1>28. CASE DestroyDir(c)
  BY <1>28 DEF DestroyDir
<1>29. CASE VmEnds(c)
  BY <1>29 DEF VmEnds
<1>30. CASE Fail(c)
  BY <1>30 DEF Fail
<1>31. QED
  BY Zenon, <1>1, <1>2, <1>3, <1>4, <1>5, <1>6, <1>7, <1>8, <1>9, <1>10, <1>11,
     <1>12, <1>13, <1>14, <1>15, <1>16, <1>17, <1>18, <1>19, <1>20, <1>21,
     <1>22, <1>23, <1>24, <1>25, <1>26, <1>27, <1>28, <1>29, <1>30 DEF
     ClientNext, Step

\* The shape of the process that acts.
LEMMA ActorShape ==
    ASSUME TypeOK, NEW c \in Clients, Shape(c), ClientNext(c)
    PROVE  Shape(c)'
<1>t. /\ pc \in [Clients -> Pcs] /\ cmd \in [Clients -> AllCommands]
      /\ slot \in [Clients -> Slots]
      /\ fd \in [Clients -> Inodes \cup {NoInode}]
      /\ disk \in [Clients -> Inodes \cup {NoInode}]
      /\ lock \in [Slots -> Inodes \cup {NoInode}]
      /\ rootfs \in [Slots -> Inodes \cup {NoInode}]
  BY DEF TypeOK
<1> USE <1>t, PoolAssumption DEF Shape, InitPcs, ScanPcs, ClaimedPcs, DestroyPcs,
        LockedPcs, OpenFdPcs, Goto, Exit
<1>1. CASE \E k \in AllCommands : Start(c, k)
  BY <1>1, FirstPcType DEF Start
<1>2. CASE InitCheck(c)
  BY <1>2 DEF InitCheck
<1>3. CASE InitMkdir(c)
  BY <1>3 DEF InitMkdir
<1>4. CASE InitClone(c)
  BY <1>4 DEF InitClone
<1>5. CASE InitBoot(c)
  BY <1>5 DEF InitBoot
<1>6. CASE InitSave(c)
  BY <1>6 DEF InitSave
<1>7. CASE InitSlot(c)
  BY <1>7 DEF InitSlot
<1>8. CASE InitMeta(c)
  BY <1>8 DEF InitMeta
<1>9. CASE InitBody(c)
  BY <1>9 DEF InitBody
<1>10. CASE Open(c)
  BY <1>10 DEF Open
<1>11. CASE ClaimOpen(c)
  BY <1>11 DEF ClaimOpen
<1>12. CASE ClaimSlot(c)
  BY <1>12 DEF ClaimSlot
<1>13. CASE SlotBusy(c)
  BY <1>13 DEF SlotBusy
<1>14. CASE AllSlotsBusy(c)
  BY <1>14 DEF AllSlotsBusy
<1>15. CASE Clone(c)
  BY <1>15 DEF Clone
<1>16. CASE CloneFails(c)
  BY <1>16 DEF CloneFails
<1>17. CASE Restore(c)
  BY <1>17 DEF Restore
<1>18. CASE RestoreFails(c)
  BY <1>18 DEF RestoreFails
<1>19. CASE RemoveClone(c)
  BY <1>19 DEF RemoveClone
<1>20. CASE DropSlot(c)
  BY <1>20 DEF DropSlot
<1>21. CASE UnlockSlot(c)
  BY <1>21 DEF UnlockSlot
<1>22. CASE StatsOpen(c)
  BY <1>22 DEF StatsOpen
<1>23. CASE StatsFree(c)
  BY <1>23 DEF StatsFree
<1>24. CASE StatsNext(c)
  BY <1>24 DEF StatsNext
<1>25. CASE DestroyCheck(c)
  BY <1>25 DEF DestroyCheck
<1>26. CASE DestroyFile(c)
  BY <1>26 DEF DestroyFile
<1>27. CASE DestroySlot(c)
  BY <1>27 DEF DestroySlot
<1>28. CASE DestroyDir(c)
  BY <1>28 DEF DestroyDir
<1>29. CASE VmEnds(c)
  BY <1>29 DEF VmEnds
<1>30. CASE Fail(c)
  BY <1>30 DEF Fail
<1>31. QED
  BY Zenon, <1>1, <1>2, <1>3, <1>4, <1>5, <1>6, <1>7, <1>8, <1>9, <1>10, <1>11,
     <1>12, <1>13, <1>14, <1>15, <1>16, <1>17, <1>18, <1>19, <1>20, <1>21,
     <1>22, <1>23, <1>24, <1>25, <1>26, <1>27, <1>28, <1>29, <1>30 DEF
     ClientNext, Step

\* A process becomes active only by Start.
ActiveEffect(c) ==
    pc'[c] # "idle" =>
        \/ pc[c] # "idle" /\ cmd'[c] = cmd[c]
        \/ \E k \in AllCommands : Start(c, k)

\* Its descriptor is of the slot's lock, and locked if it was free.
LockEffect(c) ==
    /\ pc'[c] \in LockedPcs =>
          fd'[c] = fd[c] /\ (pc[c] \in LockedPcs \/ ~Held(fd[c]))
    /\ pc'[c] \in OpenFdPcs =>
          /\ slot'[c] = slot[c] /\ lock' = lock
          /\ fd'[c] = lock[slot[c]] \/ (pc[c] \in OpenFdPcs /\ fd'[c] = fd[c])

\* Who changes files.
FileEffect(c) ==
    \/ UNCHANGED fileVars
    \/ pc[c] \in InitPcs \cup DestroyPcs
    \/ Clone(c) \/ Restore(c)
    \/ /\ pc[c] \in {"remove", "drop"}
       /\ rootfs' = [rootfs EXCEPT ![slot[c]] = NoInode]
       /\ UNCHANGED <<exists, meta, pristine, save, slotDir, lock, content>>

\* What happens to the paths of disks.
PathEffect(c) ==
    \/ pristine' \in {pristine, NoInode} /\ UNCHANGED rootfs
    \/ InitClone(c) \/ Clone(c)
    \/ /\ UNCHANGED pristine
       /\ \E k \in Slots : rootfs' = [rootfs EXCEPT ![k] = NoInode]

\* What a step of a client can do to locks, files and paths.
LEMMA ActorEffects ==
    ASSUME TypeOK, NEW c \in Clients, Shape(c), ClientNext(c)
    PROVE  ActiveEffect(c) /\ LockEffect(c) /\ FileEffect(c) /\ PathEffect(c)
<1>t. /\ pc \in [Clients -> Pcs] /\ cmd \in [Clients -> AllCommands]
      /\ slot \in [Clients -> Slots]
      /\ fd \in [Clients -> Inodes \cup {NoInode}]
      /\ disk \in [Clients -> Inodes \cup {NoInode}]
      /\ lock \in [Slots -> Inodes \cup {NoInode}]
      /\ rootfs \in [Slots -> Inodes \cup {NoInode}]
  BY DEF TypeOK
<1> USE <1>t DEF Shape, InitPcs, ScanPcs, ClaimedPcs, DestroyPcs,
        LockedPcs, OpenFdPcs, Goto, Exit, fileVars,
        ActiveEffect, LockEffect, FileEffect, PathEffect
<1>1. CASE \E k \in AllCommands : Start(c, k)
  BY Zenon, <1>1, FirstPcType DEF Start
<1>2. CASE InitCheck(c)
  BY <1>2 DEF InitCheck
<1>3. CASE InitMkdir(c)
  BY <1>3 DEF InitMkdir
<1>4. CASE InitClone(c)
  BY Zenon, <1>4 DEF InitClone
<1>5. CASE InitBoot(c)
  BY <1>5 DEF InitBoot
<1>6. CASE InitSave(c)
  BY <1>6 DEF InitSave
<1>7. CASE InitSlot(c)
  BY <1>7 DEF InitSlot
<1>8. CASE InitMeta(c)
  BY <1>8 DEF InitMeta
<1>9. CASE InitBody(c)
  BY <1>9 DEF InitBody
<1>10. CASE Open(c)
  BY <1>10 DEF Open
<1>11. CASE ClaimOpen(c)
  BY <1>11 DEF ClaimOpen
<1>12. CASE ClaimSlot(c)
  BY <1>12 DEF ClaimSlot
<1>13. CASE SlotBusy(c)
  BY <1>13 DEF SlotBusy
<1>14. CASE AllSlotsBusy(c)
  BY <1>14 DEF AllSlotsBusy
<1>15. CASE Clone(c)
  BY Zenon, <1>15 DEF Clone
<1>16. CASE CloneFails(c)
  BY <1>16 DEF CloneFails
<1>17. CASE Restore(c)
  BY <1>17 DEF Restore
<1>18. CASE RestoreFails(c)
  BY <1>18 DEF RestoreFails
<1>19. CASE RemoveClone(c)
  BY Zenon, <1>19 DEF RemoveClone
<1>20. CASE DropSlot(c)
  BY Zenon, <1>20 DEF DropSlot
<1>21. CASE UnlockSlot(c)
  BY <1>21 DEF UnlockSlot
<1>22. CASE StatsOpen(c)
  BY <1>22 DEF StatsOpen
<1>23. CASE StatsFree(c)
  BY <1>23 DEF StatsFree
<1>24. CASE StatsNext(c)
  BY <1>24 DEF StatsNext
<1>25. CASE DestroyCheck(c)
  BY <1>25 DEF DestroyCheck
<1>26. CASE DestroyFile(c)
  BY <1>26 DEF DestroyFile
<1>27. CASE DestroySlot(c)
  BY Zenon, <1>27 DEF DestroySlot
<1>28. CASE DestroyDir(c)
  BY <1>28 DEF DestroyDir
<1>29. CASE VmEnds(c)
  BY <1>29 DEF VmEnds
<1>30. CASE Fail(c)
  BY <1>30 DEF Fail
<1>31. QED
  BY Zenon, <1>1, <1>2, <1>3, <1>4, <1>5, <1>6, <1>7, <1>8, <1>9, <1>10, <1>11,
     <1>12, <1>13, <1>14, <1>15, <1>16, <1>17, <1>18, <1>19, <1>20, <1>21,
     <1>22, <1>23, <1>24, <1>25, <1>26, <1>27, <1>28, <1>29, <1>30 DEF
     ClientNext, Step

-----------------------------------------------------------------------------
(***************************************************************************)
(* Each part of the invariant is preserved                                 *)
(***************************************************************************)
\* Every step keeps what program counters say about local state.
LEMMA ShapeStep ==
    ASSUME TypeOK, ShapeInv, NEW c \in Clients, ClientNext(c)
    PROVE  ShapeInv'
<1>1. Shape(c)'
  BY ActorShape DEF ShapeInv
<1>2. ASSUME NEW d \in Clients \ {c} PROVE Shape(d)'
  BY Zenon, LocalStep DEF ShapeInv, Shape, SameLocal
<1>3. QED
  BY <1>1, <1>2 DEF ShapeInv

\* With administration alone, init and destroy exclude all other commands.
LEMMA AloneStep ==
    ASSUME TypeOK, ShapeInv, AloneInv, AdminAlone,
           NEW c \in Clients, ClientNext(c)
    PROVE  AloneInv'
<1>1. ActiveEffect(c) /\ ShapeInv'
  BY ActorEffects, ShapeStep DEF ShapeInv
<1>2. pc'[c] = "idle" => cmd'[c] \notin AdminCommands
  BY <1>1 DEF ShapeInv, Shape, AdminCommands, InitPcs, DestroyPcs
<1>3. ASSUME NEW k \in AllCommands, Start(c, k), NEW d \in Clients \ {c}
      PROVE  cmd[d] \notin AdminCommands /\ (k \in AdminCommands => pc[d] = "idle")
             /\ cmd'[c] = k
  BY <1>3 DEF Start, TypeOK
<1>4. ASSUME NEW d \in Clients \ {c}
      PROVE  /\ cmd'[c] \in AdminCommands => pc'[d] = "idle"
             /\ cmd'[d] \in AdminCommands => pc'[c] = "idle"
  BY <1>1, <1>2, <1>3, LocalStep DEF AloneInv, SameLocal, ActiveEffect
<1>5. ASSUME NEW d \in Clients \ {c}, NEW e \in Clients \ {c, d}
      PROVE  cmd'[d] \in AdminCommands => pc'[e] = "idle"
  BY LocalStep DEF AloneInv, SameLocal
<1>6. QED
  BY <1>4, <1>5 DEF AloneInv

\* While a process is in init or destroy, the others are idle.
LEMMA AdminIsAlone ==
    ASSUME ShapeInv, AloneInv, NEW c \in Clients,
           pc[c] \in InitPcs \cup DestroyPcs, NEW d \in Clients \ {c}
    PROVE  pc[d] = "idle"
BY DEF ShapeInv, Shape, AloneInv, AdminCommands

\* A slot lock has one owner, and its owner has the inode the path names.
LEMMA LockStep ==
    ASSUME TypeOK, ShapeInv, AloneInv, LockInv, NEW c \in Clients, ClientNext(c)
    PROVE  LockInv'
<1>1. LockEffect(c) /\ FileEffect(c) /\ ShapeInv'
  BY ActorEffects, ShapeStep DEF ShapeInv
<1>2. pc'[c] \in OpenFdPcs => fd'[c] = lock'[slot'[c]]
  BY <1>1 DEF LockInv, LockEffect
<1>3. ASSUME NEW d \in Clients \ {c}, pc'[d] \in OpenFdPcs
      PROVE  fd'[d] = lock'[slot'[d]]
  <2>1. SameLocal(d) /\ pc[d] # "idle"
    BY <1>3, LocalStep DEF SameLocal, OpenFdPcs, LockedPcs, ClaimedPcs
  <2>2. lock' = lock
    BY <1>1, <2>1, AdminIsAlone DEF FileEffect, fileVars, Clone, Restore
  <2>3. QED
    BY <1>3, <2>1, <2>2 DEF LockInv, SameLocal
<1>4. ASSUME NEW d \in Clients \ {c}, fd'[c] = fd'[d],
             pc'[c] \in LockedPcs, pc'[d] \in LockedPcs
      PROVE  FALSE
  <2>1. SameLocal(d)
    BY LocalStep
  <2>2. fd'[c] = fd[c] /\ (pc[c] \in LockedPcs \/ ~Held(fd[c]))
    BY <1>1, <1>4 DEF LockEffect
  <2>3. Held(fd[d])
    BY <1>4, <2>1 DEF Held, SameLocal, LockedPcs, ClaimedPcs
  <2>4. QED
    BY <1>4, <2>1, <2>2, <2>3 DEF LockInv, SameLocal
<1>5. ASSUME NEW d \in Clients \ {c}, NEW e \in Clients \ {c, d},
             fd'[d] = fd'[e], pc'[d] \in LockedPcs
      PROVE  pc'[e] \notin LockedPcs
  BY <1>5, LocalStep DEF LockInv, SameLocal
<1>6. QED
  BY <1>2, <1>3, <1>4, <1>5 DEF LockInv

\* The claim of a slot is exclusive: two claims of a slot would be two owners
\* of one lock.
LEMMA LockedExclusive ==
    ASSUME LockInv PROVE SlotExclusive
BY DEF LockInv, SlotExclusive, Claimed, LockedPcs, OpenFdPcs

\* A disk is named by one path at most.
LEMMA DiskPathsStep ==
    ASSUME TypeOK, ShapeInv, DiskPathsInv, NEW c \in Clients, ClientNext(c)
    PROVE  DiskPathsInv'
<1>t. /\ pc \in [Clients -> Pcs] /\ slot \in [Clients -> Slots]
      /\ disk \in [Clients -> Inodes \cup {NoInode}]
      /\ pristine \in Inodes \cup {NoInode}
      /\ rootfs \in [Slots -> Inodes \cup {NoInode}]
      /\ content \in [Inodes -> Contents]
  BY DEF TypeOK
<1>1. PathEffect(c)
  BY ActorEffects DEF ShapeInv
<1>2. CASE pristine' \in {pristine, NoInode} /\ UNCHANGED rootfs
  BY <1>2, <1>t, SMTT(30) DEF DiskPathsInv
<1>3. CASE InitClone(c)
  BY <1>3, <1>t, CloneTargetsType DEF InitClone, Unused, DiskPathsInv
<1>4. CASE Clone(c)
  <2>1. PICK i \in CloneTargets(rootfs[slot[c]]) :
            rootfs' = [rootfs EXCEPT ![slot[c]] = i]
    BY Zenon, <1>4 DEF Clone
  <2>2. i \in Inodes /\ (i \in Unused \/ i = rootfs[slot[c]])
    BY <1>t, CloneTargetsType
  <2>3. QED
    BY <1>4, <1>t, <2>1, <2>2, PoolAssumption, SMTT(30)
       DEF Clone, Unused, DiskPathsInv
<1>5. CASE /\ UNCHANGED pristine
           /\ \E k \in Slots : rootfs' = [rootfs EXCEPT ![k] = NoInode]
  BY <1>5, <1>t DEF DiskPathsInv
<1>6. QED
  BY <1>1, <1>2, <1>3, <1>4, <1>5 DEF PathEffect

\* The guest of the process that acts.
LEMMA ActorGuest ==
    ASSUME TypeOK, NEW c \in Clients, Shape(c), Guest(c), DiskPathsInv,
           ClientNext(c)
    PROVE  Guest(c)'
<1>t. /\ pc \in [Clients -> Pcs] /\ slot \in [Clients -> Slots]
      /\ disk \in [Clients -> Inodes \cup {NoInode}]
      /\ pristine \in Inodes \cup {NoInode}
      /\ rootfs \in [Slots -> Inodes \cup {NoInode}]
      /\ content \in [Inodes -> Contents]
  BY DEF TypeOK
<1> USE <1>t DEF Guest, Goto, Exit
<1>1. CASE \E k \in AllCommands : Start(c, k)
  BY <1>1, FirstPcType DEF Start
<1>2. CASE InitCheck(c)
  BY <1>2 DEF InitCheck
<1>3. CASE InitMkdir(c)
  BY <1>3 DEF InitMkdir
<1>4. CASE InitClone(c)
  BY <1>4 DEF InitClone
<1>5. CASE InitBoot(c)
  BY <1>5 DEF InitBoot
<1>6. CASE InitSave(c)
  BY <1>6 DEF InitSave
<1>7. CASE InitSlot(c)
  BY <1>7 DEF InitSlot
<1>8. CASE InitMeta(c)
  BY <1>8 DEF InitMeta
<1>9. CASE InitBody(c)
  BY <1>9 DEF InitBody
<1>10. CASE Open(c)
  BY Zenon, <1>10 DEF Open
<1>11. CASE ClaimOpen(c)
  BY Zenon, <1>11 DEF ClaimOpen
<1>12. CASE ClaimSlot(c)
  BY <1>12 DEF ClaimSlot
<1>13. CASE SlotBusy(c)
  BY <1>13 DEF SlotBusy
<1>14. CASE AllSlotsBusy(c)
  BY <1>14 DEF AllSlotsBusy
<1>15. CASE Clone(c)
  <2>1. PICK i \in CloneTargets(rootfs[slot[c]]) :
            /\ rootfs' = [rootfs EXCEPT ![slot[c]] = i]
            /\ content' = [content EXCEPT ![i] = content[pristine]]
    BY Zenon, <1>15 DEF Clone
  <2>2. i \in Inodes
    BY CloneTargetsType
  <2>3. QED
    BY <1>15, <2>1, <2>2, PoolAssumption DEF Clone, DiskPathsInv
<1>16. CASE CloneFails(c)
  BY Zenon, <1>16 DEF CloneFails
<1>17. CASE Restore(c)
  BY <1>17 DEF Restore
<1>18. CASE RestoreFails(c)
  BY Zenon, <1>18 DEF RestoreFails
<1>19. CASE RemoveClone(c)
  BY <1>19 DEF RemoveClone
<1>20. CASE DropSlot(c)
  BY <1>20 DEF DropSlot
<1>21. CASE UnlockSlot(c)
  BY Zenon, <1>21 DEF UnlockSlot
<1>22. CASE StatsOpen(c)
  BY <1>22 DEF StatsOpen
<1>23. CASE StatsFree(c)
  BY Zenon, <1>23 DEF StatsFree
<1>24. CASE StatsNext(c)
  BY Zenon, <1>24 DEF StatsNext
<1>25. CASE DestroyCheck(c)
  BY Zenon, <1>25 DEF DestroyCheck
<1>26. CASE DestroyFile(c)
  BY <1>26 DEF DestroyFile
<1>27. CASE DestroySlot(c)
  BY <1>27 DEF DestroySlot
<1>28. CASE DestroyDir(c)
  BY <1>28 DEF DestroyDir
<1>29. CASE VmEnds(c)
  BY Zenon, <1>29 DEF VmEnds
<1>30. CASE Fail(c)
  BY Zenon, <1>30 DEF Fail
<1>31. QED
  BY Zenon, <1>1, <1>2, <1>3, <1>4, <1>5, <1>6, <1>7, <1>8, <1>9, <1>10, <1>11,
     <1>12, <1>13, <1>14, <1>15, <1>16, <1>17, <1>18, <1>19, <1>20, <1>21,
     <1>22, <1>23, <1>24, <1>25, <1>26, <1>27, <1>28, <1>29, <1>30 DEF
     ClientNext, Step

\* A running guest keeps its disk to itself.
LEMMA GuestStep ==
    ASSUME TypeOK, ShapeInv, AloneInv, LockInv, DiskPathsInv, GuestInv,
           NEW c \in Clients, ClientNext(c)
    PROVE  GuestInv'
<1>t. /\ pc \in [Clients -> Pcs] /\ slot \in [Clients -> Slots]
      /\ disk \in [Clients -> Inodes \cup {NoInode}]
      /\ pristine \in Inodes \cup {NoInode}
      /\ rootfs \in [Slots -> Inodes \cup {NoInode}]
      /\ content \in [Inodes -> Contents]
  BY DEF TypeOK
<1>1. Guest(c)' /\ FileEffect(c)
  BY ActorGuest, ActorEffects DEF ShapeInv, GuestInv
<1>2. ASSUME NEW d \in Clients \ {c} PROVE Guest(d)'
  <2>1. SameLocal(d) /\ Guest(d)
    BY LocalStep DEF GuestInv
  <2>2. CASE UNCHANGED fileVars
    BY <2>1, <2>2 DEF Guest, SameLocal, fileVars
  <2>3. CASE pc[c] \in InitPcs \cup DestroyPcs
    BY <2>1, <2>3, AdminIsAlone DEF Guest, SameLocal
  <2>4. ASSUME Claimed(c)
        PROVE  pc[d] # "i_save" /\ (Claimed(d) => slot[d] # slot[c])
    BY <2>4, AdminIsAlone, LockedExclusive
       DEF SlotExclusive, Claimed, ClaimedPcs, InitPcs
  <2>5. CASE Clone(c)
    <3>1. PICK i \in CloneTargets(rootfs[slot[c]]) :
              /\ rootfs' = [rootfs EXCEPT ![slot[c]] = i]
              /\ content' = [content EXCEPT ![i] = content[pristine]]
      BY Zenon, <2>5 DEF Clone
    <3>2. i \in Inodes /\ (i \in Unused \/ i = rootfs[slot[c]])
      BY <1>t, CloneTargetsType
    <3>3. /\ pc[d] # "i_save" /\ (Claimed(d) => slot[d] # slot[c])
          /\ UNCHANGED pristine
      BY <2>4, <2>5 DEF Claimed, ClaimedPcs, Clone
    <3>4. Claimed(d) /\ rootfs[slot[d]] # NoInode => i # rootfs[slot[d]]
      BY <1>t, <3>2, <3>3 DEF Unused, DiskPathsInv
    <3>5. pristine # NoInode => content'[pristine] = content[pristine]
      BY <1>t, <3>1, <3>2
    <3>6. QED
      BY Zenon, <1>t, <2>1, <3>1, <3>3, <3>4, <3>5
         DEF Guest, SameLocal, Claimed, ClaimedPcs
  <2>6. CASE Restore(c)
    <3>1. /\ pc[d] # "i_save" /\ (Claimed(d) => slot[d] # slot[c])
          /\ rootfs[slot[c]] # NoInode
          /\ content' = [content EXCEPT ![rootfs[slot[c]]] = Dirty]
          /\ UNCHANGED <<pristine, rootfs>>
      BY Zenon, <2>4, <2>6 DEF Claimed, ClaimedPcs, Restore
    <3>2. Claimed(d) => rootfs[slot[d]] # rootfs[slot[c]]
      BY <1>t, <3>1 DEF DiskPathsInv
    <3>3. pristine # rootfs[slot[c]]
      BY <1>t, <3>1 DEF DiskPathsInv
    <3>4. QED
      BY Zenon, <1>t, <2>1, <3>1, <3>2, <3>3 DEF Guest, SameLocal, Claimed, ClaimedPcs
  <2>7. CASE /\ pc[c] \in {"remove", "drop"}
             /\ rootfs' = [rootfs EXCEPT ![slot[c]] = NoInode]
             /\ UNCHANGED <<exists, meta, pristine, save, slotDir, lock, content>>
    BY Zenon, <1>t, <2>1, <2>4, <2>7 DEF Guest, SameLocal, Claimed, ClaimedPcs
  <2>8. QED
    BY <1>1, <2>2, <2>3, <2>5, <2>6, <2>7 DEF FileEffect
<1>3. QED
  BY <1>1, <1>2 DEF GuestInv
\* Pool::init as seen by the process that acts, and the pool it leaves.
LEMMA ActorBuild ==
    ASSUME TypeOK, NEW c \in Clients, Guest(c), Build(c), NoDirInv,
           OpenPoolMatches, DiskPathsInv, ClientNext(c)
    PROVE  Build(c)' /\ NoDirInv' /\ OpenPoolMatches'
<1>t. /\ pc \in [Clients -> Pcs] /\ slot \in [Clients -> Slots]
      /\ exists \in BOOLEAN /\ meta \in {"none", "partial", "complete"}
      /\ pristine \in Inodes \cup {NoInode}
      /\ rootfs \in [Slots -> Inodes \cup {NoInode}]
      /\ content \in [Inodes -> Contents]
  BY DEF TypeOK
<1> USE <1>t DEF Build, NoDirInv, OpenPoolMatches, UserPcs, InitPcs, ScanPcs,
        ClaimedPcs, Goto, Exit, fileVars
<1>1. CASE \E k \in AllCommands : Start(c, k)
  <2>1. PICK k \in AllCommands : Start(c, k)
    BY <1>1
  <2>2. Build(c)'
    BY Zenon, <2>1, FirstPcType DEF Start
  <2>3. NoDirInv' /\ OpenPoolMatches'
    BY Zenon, <2>1 DEF Start
  <2> QED
    BY <2>2, <2>3
<1>2. CASE InitCheck(c)
  BY <1>2 DEF InitCheck
<1>3. CASE InitMkdir(c)
  BY <1>3 DEF InitMkdir
<1>4. CASE InitClone(c)
  <2>1. pristine' # NoInode
    BY ONLY <1>4, <1>t, CloneTargetsType, PoolAssumption DEF InitClone
  <2>2. pc'[c] = "i_boot" /\ exists' /\ meta' = "none"
    BY <1>4 DEF InitClone
  <2>3. Build(c)'
    BY ONLY <2>1, <2>2 DEF Build, UserPcs, InitPcs, ScanPcs, ClaimedPcs
  <2>4. NoDirInv' /\ OpenPoolMatches'
    BY ONLY <2>2 DEF NoDirInv, OpenPoolMatches
  <2> QED
    BY <2>3, <2>4
<1>5. CASE InitBoot(c)
  BY <1>5 DEF InitBoot
<1>6. CASE InitSave(c)
  BY Zenon, <1>6 DEF InitSave, Guest
<1>7. CASE InitSlot(c)
  BY <1>7 DEF InitSlot
<1>8. CASE InitMeta(c)
  BY <1>8 DEF InitMeta
<1>9. CASE InitBody(c)
  BY <1>9 DEF InitBody
<1>10. CASE Open(c)
  BY <1>10 DEF Open
<1>11. CASE ClaimOpen(c)
  BY <1>11 DEF ClaimOpen
<1>12. CASE ClaimSlot(c)
  BY <1>12 DEF ClaimSlot
<1>13. CASE SlotBusy(c)
  BY <1>13 DEF SlotBusy
<1>14. CASE AllSlotsBusy(c)
  BY <1>14 DEF AllSlotsBusy
<1>15. CASE Clone(c)
  <2>1. PICK i \in CloneTargets(rootfs[slot[c]]) :
            content' = [content EXCEPT ![i] = content[pristine]]
    BY Zenon, <1>15 DEF Clone
  <2>2. content'[pristine] = content[pristine]
    BY <1>15, <2>1, CloneTargetsType DEF Clone
  <2>3. QED
    BY <1>15, <2>2 DEF Clone
<1>16. CASE CloneFails(c)
  BY <1>16 DEF CloneFails
<1>17. CASE Restore(c)
  BY <1>17 DEF Restore, DiskPathsInv
<1>18. CASE RestoreFails(c)
  BY <1>18 DEF RestoreFails
<1>19. CASE RemoveClone(c)
  BY <1>19 DEF RemoveClone
<1>20. CASE DropSlot(c)
  BY <1>20 DEF DropSlot
<1>21. CASE UnlockSlot(c)
  BY <1>21 DEF UnlockSlot
<1>22. CASE StatsOpen(c)
  BY <1>22 DEF StatsOpen
<1>23. CASE StatsFree(c)
  BY <1>23 DEF StatsFree
<1>24. CASE StatsNext(c)
  BY <1>24 DEF StatsNext
<1>25. CASE DestroyCheck(c)
  BY <1>25 DEF DestroyCheck
<1>26. CASE DestroyFile(c)
  BY <1>26 DEF DestroyFile
<1>27. CASE DestroySlot(c)
  BY <1>27 DEF DestroySlot
<1>28. CASE DestroyDir(c)
  BY <1>28 DEF DestroyDir
<1>29. CASE VmEnds(c)
  BY <1>29 DEF VmEnds
<1>30. CASE Fail(c)
  BY <1>30 DEF Fail
<1>31. QED
  BY Zenon, <1>1, <1>2, <1>3, <1>4, <1>5, <1>6, <1>7, <1>8, <1>9, <1>10, <1>11,
     <1>12, <1>13, <1>14, <1>15, <1>16, <1>17, <1>18, <1>19, <1>20, <1>21,
     <1>22, <1>23, <1>24, <1>25, <1>26, <1>27, <1>28, <1>29, <1>30 DEF
     ClientNext, Step

\* An init that has come so far has built what it vouches for in meta.
LEMMA BuildStep ==
    ASSUME TypeOK, ShapeInv, AloneInv, DiskPathsInv, GuestInv, BuildInv,
           NEW c \in Clients, ClientNext(c)
    PROVE  BuildInv'
<1>1. Build(c)' /\ NoDirInv' /\ OpenPoolMatches' /\ FileEffect(c)
  BY ActorBuild, ActorEffects DEF ShapeInv, GuestInv, BuildInv
<1>2. ASSUME NEW d \in Clients \ {c} PROVE Build(d)'
  <2>1. SameLocal(d) /\ Build(d)
    BY LocalStep DEF BuildInv
  <2>2. CASE pc[c] \in InitPcs \cup DestroyPcs
    BY <2>1, <2>2, AdminIsAlone
       DEF Build, SameLocal, UserPcs, ScanPcs, ClaimedPcs, InitPcs
  <2>3. CASE pc[d] \in InitPcs
    <3>1. pc[c] = "idle"
      BY <2>3, AdminIsAlone
    <3>2. UNCHANGED fileVars
      BY <1>1, <3>1 DEF FileEffect, InitPcs, DestroyPcs, Clone, Restore
    <3>3. QED
      BY Zenon, <2>1, <3>2 DEF Build, SameLocal, fileVars
  <2>4. CASE pc[c] \notin InitPcs \cup DestroyPcs /\ pc[d] \notin InitPcs
    <3>1. UNCHANGED <<exists, meta>>
      BY <1>1, <2>4 DEF FileEffect, Clone, Restore, fileVars
    <3>2. QED
      BY <2>1, <2>4, <3>1 DEF Build, SameLocal, InitPcs
  <2>5. QED
    BY <2>2, <2>3, <2>4
<1>3. QED
  BY <1>1, <1>2 DEF BuildInv
-----------------------------------------------------------------------------
(***************************************************************************)
(* The invariant holds                                                     *)
(***************************************************************************)
\* Without a pool directory the invariant holds.
LEMMA InvInit == Init => PoolInv
<1> SUFFICES ASSUME Init PROVE PoolInv
  OBVIOUS
<1> USE PoolAssumption DEF Init
<1>1. TypeOK
  <2>1. pc \in [Clients -> Pcs] /\ cmd \in [Clients -> AllCommands]
    BY DEF Pcs, AllCommands
  <2>2. slot \in [Clients -> Slots]
    BY DEF Slots
  <2>3. content \in [Inodes -> Contents]
    BY DEF Contents
  <2>4. QED
    BY Zenon, <2>1, <2>2, <2>3 DEF TypeOK
<1>2. ShapeInv /\ AloneInv
  BY DEF ShapeInv, Shape, AloneInv, AdminCommands, InitPcs, DestroyPcs,
     OpenFdPcs, LockedPcs, ClaimedPcs
<1>3. LockInv /\ DiskPathsInv /\ GuestInv
  BY DEF LockInv, DiskPathsInv, GuestInv, Guest, OpenFdPcs, LockedPcs,
     ClaimedPcs
<1>4. BuildInv
  BY DEF BuildInv, NoDirInv, OpenPoolMatches, Build, UserPcs, ScanPcs,
     ClaimedPcs, InitPcs
<1>5. QED
  BY <1>1, <1>2, <1>3, <1>4 DEF PoolInv

\* Every step keeps the invariant of the pool.
LEMMA InvStep ==
    ASSUME AdminAlone PROVE PoolInv /\ [Next]_vars => PoolInv'
<1>1. ASSUME PoolInv, NEW c \in Clients, ClientNext(c) PROVE PoolInv'
  <2> USE <1>1 DEF PoolInv
  <2>1. TypeOK' /\ ShapeInv' /\ AloneInv'
    BY TypeStep, ShapeStep, AloneStep DEF ShapeInv
  <2>2. LockInv' /\ DiskPathsInv' /\ GuestInv' /\ BuildInv'
    BY LockStep, DiskPathsStep, GuestStep, BuildStep
  <2>3. QED
    BY <2>1, <2>2
<1>2. ASSUME PoolInv, UNCHANGED vars PROVE PoolInv'
  <2> USE <1>2 DEF PoolInv, vars
  <2>1. TypeOK'
    BY DEF TypeOK
  <2>2. ShapeInv' /\ AloneInv'
    BY Zenon DEF ShapeInv, Shape, AloneInv
  <2>3. LockInv' /\ DiskPathsInv'
    BY Zenon DEF LockInv, DiskPathsInv
  <2>4. GuestInv'
    BY DEF GuestInv, Guest
  <2>5. BuildInv'
    BY DEF BuildInv, NoDirInv, OpenPoolMatches, Build
  <2>6. QED
    BY <2>1, <2>2, <2>3, <2>4, <2>5
<1>3. QED
  BY <1>1, <1>2 DEF Next

\* The inductive invariant, for a pool whose init and destroy are run alone.
THEOREM Invariance == ASSUME AdminAlone PROVE Spec => []PoolInv
BY InvInit, InvStep, PTL DEF Spec

\* Every variable keeps its type (whether or not init and destroy are alone).
THEOREM TypeCorrect == Spec => []TypeOK
<1> DEFINE TypedShape == TypeOK /\ ShapeInv
<1>1. Init => TypedShape
  BY InvInit DEF PoolInv
<1>2. TypedShape /\ [Next]_vars => TypedShape'
  <2>1. ASSUME TypedShape, NEW c \in Clients, ClientNext(c) PROVE TypedShape'
    BY <2>1, TypeStep, ShapeStep DEF ShapeInv
  <2>2. ASSUME TypedShape, UNCHANGED vars PROVE TypedShape'
    BY <2>2 DEF TypeOK, ShapeInv, Shape, vars
  <2>3. QED
    BY <2>1, <2>2 DEF Next
<1>3. QED
  BY <1>1, <1>2, PTL DEF Spec

\* No two processes hold the same slot: the flock taken by try_claim_slot is of
\* the inode the slot's lock path names, and it has one owner.
THEOREM ClaimExclusive == ASSUME AdminAlone PROVE Spec => []SlotExclusive
<1>1. PoolInv => SlotExclusive
  BY LockedExclusive DEF PoolInv
<1>2. QED
  BY <1>1, Invariance, PTL

\* A running guest's disk is the one in its slot and nobody else's.
THEOREM DiskExclusive == ASSUME AdminAlone PROVE Spec => []RunningDisk
<1>1. ASSUME PoolInv PROVE RunningDisk
  <2>1. SUFFICES ASSUME NEW c \in Clients, pc[c] = "running"
                 PROVE  /\ rootfs[slot[c]] = disk[c]
                        /\ \A d \in Clients \ {c} : disk[d] # disk[c]
    BY DEF RunningDisk
  <2>2. rootfs[slot[c]] = disk[c] /\ disk[c] # NoInode
    BY Zenon, <1>1, <2>1 DEF PoolInv, GuestInv, Guest, ShapeInv, Shape
  <2>3. ASSUME NEW d \in Clients \ {c} PROVE disk[d] # disk[c]
    <3>1. CASE pc[d] = "running"
      <4>1. rootfs[slot[d]] = disk[d] /\ slot[d] # slot[c]
        BY <1>1, <2>1, <3>1, LockedExclusive
           DEF PoolInv, GuestInv, Guest, SlotExclusive, Claimed, ClaimedPcs
      <4>2. QED
        BY <1>1, <2>2, <4>1 DEF PoolInv, DiskPathsInv, TypeOK
    <3>2. CASE pc[d] = "i_save"
      BY <1>1, <2>1, <3>2, AdminIsAlone DEF PoolInv, InitPcs
    <3>3. CASE pc[d] \notin {"running", "i_save"}
      BY <1>1, <2>2, <3>3 DEF PoolInv, ShapeInv, Shape
    <3>4. QED
      BY Zenon, <3>1, <3>2, <3>3
  <2>4. QED
    BY <2>2, <2>3
<1>2. QED
  BY <1>1, Invariance, PTL

\* As long as the pool can be opened, save.bin and the pristine disk match.
THEOREM MetaVouches == ASSUME AdminAlone PROVE Spec => []OpenPoolMatches
<1>1. PoolInv => OpenPoolMatches
  BY DEF PoolInv, BuildInv
<1>2. QED
  BY <1>1, Invariance, PTL

\* A slot given up in the regular way holds no clone.
THEOREM SlotReleased == ASSUME AdminAlone PROVE Spec => []ReleasedSlotReady
<1>1. PoolInv => ReleasedSlotReady
  BY DEF PoolInv, GuestInv, Guest, ReleasedSlotReady
<1>2. QED
  BY <1>1, Invariance, PTL

\* What is restored on is a clone of the disk the machine state was saved with.
LEMMA RestoreStep ==
    ASSUME PoolInv, Next, NEW c \in Clients,
           pc[c] = "restore", pc'[c] = "running"
    PROVE  content[rootfs[slot[c]]] = save
<1>1. PICK d \in Clients : ClientNext(d)
  BY DEF Next
<1>2. c = d
  BY <1>1, LocalStep DEF PoolInv, SameLocal
<1>3. save # NoSave
  BY Zenon, <1>1, <1>2 DEF ClientNext, Step, Start, InitCheck, InitMkdir, InitClone,
     InitBoot, InitSave, InitSlot, InitMeta, InitBody, Open, ClaimOpen,
     ClaimSlot, SlotBusy, AllSlotsBusy, Clone, CloneFails, Restore,
     RestoreFails, RemoveClone, DropSlot, UnlockSlot, StatsOpen, StatsFree,
     StatsNext, DestroyCheck, DestroyFile, DestroySlot, DestroyDir, VmEnds,
     Fail, Exit, Goto, PoolInv, TypeOK
<1>4. exists /\ meta = "complete"
  BY DEF PoolInv, BuildInv, Build, UserPcs, ClaimedPcs
<1>5. QED
  BY <1>3, <1>4 DEF PoolInv, GuestInv, Guest, BuildInv, OpenPoolMatches

\* A guest is restored on a disk of the warm-up its machine state is of.
THEOREM RestoredFresh == ASSUME AdminAlone PROVE Spec => FreshRestore
<1> DEFINE Fresh ==
      \A c \in Clients :
          pc[c] = "restore" /\ pc'[c] = "running" =>
             content[rootfs[slot[c]]] = save
<1>1. PoolInv /\ [Next]_vars => [Fresh]_vars
  BY RestoreStep
<1>2. QED
  BY <1>1, Invariance, PTL DEF Spec, FreshRestore
-----------------------------------------------------------------------------
(***************************************************************************)
(* The slot locks implement exclusive claims                               *)
(***************************************************************************)
OwnersOf(k) == {c \in Clients : Claimed(c) /\ slot[c] = k}
Owners == [k \in Slots |-> OwnersOf(k)]

\* Who owns a slot changes only if the claim of the acting process does.
LEMMA OwnersStep ==
    ASSUME TypeOK, NEW c \in Clients, ClientNext(c), NEW k \in Slots
    PROVE  OwnersOf(k)' =
             (OwnersOf(k) \ {c}) \cup
             (IF Claimed(c)' /\ slot'[c] = k THEN {c} ELSE {})
<1>1. ASSUME NEW d \in Clients \ {c}
      PROVE  (Claimed(d) /\ slot[d] = k)' <=> (Claimed(d) /\ slot[d] = k)
  <2>1. SameLocal(d)
    BY LocalStep
  <2>2. QED
    BY <2>1 DEF SameLocal, Claimed
<1>2. QED
  BY <1>1 DEF OwnersOf

\* Every step claims a slot, releases one, or leaves all claims alone.
LEMMA ClaimsStep ==
    ASSUME PoolInv, NEW c \in Clients, ClientNext(c)
    PROVE  Claims!Next \/ UNCHANGED Owners
<1>e. LockEffect(c) /\ LockInv'
  BY ActorEffects, LockStep DEF PoolInv, ShapeInv
<1>t. TypeOK /\ slot[c] \in Slots /\ SlotExclusive
  BY LockedExclusive DEF PoolInv, TypeOK
<1>s. Claimed(c)' => slot'[c] = slot[c] /\ fd'[c] = fd[c] /\ lock' = lock
  BY Zenon, <1>e DEF LockEffect, Claimed, LockedPcs, OpenFdPcs
<1>k. PICK k \in Slots : slot[c] = k
  BY <1>t
<1>o. \A j \in Slots :
        OwnersOf(j)' = (OwnersOf(j) \ {c}) \cup
                       (IF Claimed(c)' /\ slot'[c] = j THEN {c} ELSE {})
  BY <1>t, OwnersStep
<1>m. \A j \in Slots : c \in OwnersOf(j) <=> Claimed(c) /\ slot[c] = j
  BY DEF OwnersOf
<1>1. CASE Claimed(c) <=> Claimed(c)'
  <2>1. \A j \in Slots : OwnersOf(j)' = OwnersOf(j)
    BY <1>1, <1>s, <1>o, <1>m
  <2>2. QED
    BY <2>1 DEF Owners
<1>2. CASE Claimed(c) /\ ~Claimed(c)'
  <2>1. OwnersOf(slot[c]) = {c}
    BY <1>2, <1>t DEF OwnersOf, SlotExclusive
  <2>2. \A j \in Slots :
          OwnersOf(j)' = IF j = slot[c] THEN {} ELSE OwnersOf(j)
    BY <1>2, <2>1, <1>o, <1>m
  <2>3. Owners[slot[c]] = {c} /\ Owners' = [Owners EXCEPT ![slot[c]] = {}]
    BY Zenon, <1>t, <2>1, <2>2 DEF Owners
  <2>4. Claims!Release(c, k)
    BY <1>k, <2>3 DEF Claims!Release, Owners, OwnersOf
  <2>5. QED
    BY <2>4 DEF Claims!Next
<1>3. CASE ~Claimed(c) /\ Claimed(c)'
  <2>1. /\ fd[c] = lock[slot[c]]
        /\ pc[c] \in LockedPcs \/ ~Held(fd[c])
    BY <1>3, <1>e, <1>s DEF LockEffect, LockInv, Claimed, LockedPcs, OpenFdPcs
  <2>2. OwnersOf(slot[c]) = {}
    <3>1. SUFFICES ASSUME NEW d \in Clients, Claimed(d), slot[d] = slot[c]
                   PROVE  FALSE
      BY DEF OwnersOf
    <3>2. fd[d] = fd[c] /\ pc[d] \in LockedPcs /\ c # d
      BY Zenon, <1>3, <2>1, <3>1 DEF PoolInv, LockInv, Claimed, LockedPcs, OpenFdPcs
    <3>3. Held(fd[c])
      BY Zenon, <3>2 DEF Held, LockedPcs, ClaimedPcs
    <3>4. QED
      BY <2>1, <3>2, <3>3 DEF PoolInv, LockInv
  <2>3. \A j \in Slots :
          OwnersOf(j)' = IF j = slot[c] THEN {c} ELSE OwnersOf(j)
    <3>1. ASSUME NEW j \in Slots, j = slot[c] PROVE OwnersOf(j)' = {c}
      BY <1>3, <1>s, <1>o, <2>2, <3>1
    <3>2. ASSUME NEW j \in Slots, j # slot[c] PROVE OwnersOf(j)' = OwnersOf(j)
      <4>1. c \notin OwnersOf(j) /\ slot'[c] # j
        BY <1>3, <1>s, <1>m, <3>2
      <4>2. OwnersOf(j)' = OwnersOf(j) \ {c}
        BY <1>o, <4>1
      <4>3. QED
        BY <4>1, <4>2
    <3>3. QED
      BY <3>1, <3>2
  <2>4. Owners[slot[c]] = {} /\ Owners' = [Owners EXCEPT ![slot[c]] = {c}]
    BY Zenon, <1>t, <2>2, <2>3 DEF Owners
  <2>5. Claims!Claim(c, k)
    BY <1>k, <2>4 DEF Claims!Claim, Owners, OwnersOf
  <2>6. QED
    BY <2>5 DEF Claims!Next
<1>4. QED
  BY <1>1, <1>2, <1>3

\* Slot claims are exclusive claims: a slot passes to a new process only after
\* the last one gave it up or died.
THEOREM ClaimsImplemented == ASSUME AdminAlone PROVE Spec => ImplementsClaims
<1>1. Init => Claims!Init
  BY DEF Init, Claims!Init, Claimed, ClaimedPcs
<1>2. PoolInv /\ [Next]_vars => [Claims!Next]_Owners
  <2>1. ASSUME PoolInv, Next PROVE Claims!Next \/ UNCHANGED Owners
    BY <2>1, ClaimsStep DEF Next
  <2>2. ASSUME UNCHANGED vars PROVE UNCHANGED Owners
    BY <2>2 DEF vars, Owners, OwnersOf, Claimed
  <2>3. QED
    BY <2>1, <2>2
<1>3. QED
  BY <1>1, <1>2, Invariance, PTL
     DEF Spec, ImplementsClaims, Claims!Spec, Owners, OwnersOf
==============================================================================
