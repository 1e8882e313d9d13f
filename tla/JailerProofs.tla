---------------------------- MODULE JailerProofs ----------------------------
(***************************************************************************)
(* The invariants of Jailer, for any number of ids, processes, inodes and  *)
(* uids, what they imply, and that the instance locks implement            *)
(* ExclusiveClaims.                                                        *)
(*                                                                         *)
(* First what one step may do: the effects on the process that takes it    *)
(* (Actor...) and that it leaves the others alone (LocalStep).  The        *)
(* invariants follow from these without looking at the actions again.      *)
(***************************************************************************)
EXTENDS Jailer, TLAPS

BeforeLockPcs == {"idle", "open", "td_check"}
HoldPcs == {"registry"} \cup ResolvedPcs \cup {"flock", "chmod", "recheck"}
ProbePcs == {"probe", "probe_flock", "probe_drop"}

(***************************************************************************)
(* The inductive invariant.                                                *)
(***************************************************************************)
\* What the program counter says about the local state of a process.  Only a
\* teardown gets past the lock without holding it.
Shape(L) ==
    /\ pc[L] # "idle" => req[L] \in Requests
    /\ pc[L] \in BeforeLockPcs => fd[L] = NoInode
    /\ pc[L] \in HoldPcs => fd[L] # NoInode
    /\ pc[L] \in RegistryPcs /\ req[L].kind # "teardown" => fd[L] # NoInode
    /\ pc[L] \in {"registry"} \cup ProbePcs \cup ResolvedPcs
          => req[L].kind # "teardown"
    /\ pc[L] \in TeardownPcs => req[L].kind = "teardown"
    /\ daemon[L] # "none" => pc[L] \in {"handler", "wait", "orphaned"}
    /\ pc[L] \in {"idle", "registry", "td_check"} \cup AcquirePcs
          => uid[L] = NoUid
    /\ pc[L] # "idle" /\ req[L].kind = "teardown" => uid[L] = NoUid
    /\ pc[L] \in RegistryPcs <=> regLock = L

ShapeInv == \A L \in Launches : Shape(L)

\* An inode's flock has one owner, and an owner that has passed the re-check
\* holds the lock of the file its id's path names.
FlockExclusive ==
    \A L, M \in Launches :
        /\ L # M /\ fd[L] = fd[M] /\ fd[L] # NoInode
        => pc[L] = "flock" \/ pc[M] = "flock"

ClaimsThePath ==
    \A L \in Launches : Claimed(L) => path[Id(L)] = fd[L]

ClaimInv == FlockExclusive /\ ClaimsThePath

\* The line of an id, also in the window in which the file is truncated.
LineOf(id) ==
    IF regLock # NoLaunch /\ pc[regLock] = "write"
    THEN lines[regLock][id]
    ELSE reg[id]

\* A process past resolve_instance_identity with a uid of its own, whose line
\* still says so and which did not ask to share.
Exclusive(L) ==
    /\ pc[L] \in ResolvedPcs
    /\ uid[L] # NoUid
    /\ LineOf(Id(L)) = uid[L]
    /\ ~req[L].shared

\* What the process in the registry's critical section has in memory, and
\* what the file holds meanwhile.
RegistryCopy ==
    \A L \in Launches :
        /\ pc[L] = "truncate" =>
              \A id \in Ids : lines[L][id] # reg[id] =>
                  id = Id(L) /\ lines[L][id] \in {uid[L], NoUid}
        /\ pc[L] = "write" => reg = NoLines

\* The probes still to come cover every process that would conflict.
ProbesComplete ==
    \A L, M \in Launches :
        /\ pc[L] \in ProbePcs /\ ~req[L].shared
        /\ Exclusive(M) /\ uid[M] = uid[L]
        => \/ Id(M) \in todo[L]
           \/ pc[L] = "probe_flock" /\ probe[L] = fd[M]

UidsDisjoint ==
    \A L, M \in Launches :
        Exclusive(L) /\ Exclusive(M) /\ L # M => uid[L] # uid[M]

UidInv == RegistryCopy /\ ProbesComplete /\ UidsDisjoint
-----------------------------------------------------------------------------
(***************************************************************************)
(* Types                                                                   *)
(***************************************************************************)
\* Allocation returns a uid or none.
LEMMA AllocateType ==
    ASSUME NEW rs \in Registries, NEW id \in Ids, NEW seen
    PROVE  Allocate(rs, id, seen) \in Uids \cup {NoUid}
<1>1. FreeUids(rs, seen) \subseteq Uids
  BY UidRegistryAssumption DEF FreeUids, WindowEnd, Uids
<1>2. QED
  BY <1>1 DEF Allocate, Lowest, Registries

\* The empty registry is a registry.
LEMMA NoLinesType == NoLines \in Registries
BY DEF NoLines, Registries

\* Changing one line of a registry gives a registry.
LEMMA ChangedLineType ==
    ASSUME NEW rs \in Registries, NEW id \in Ids, NEW u \in Uids \cup {NoUid}
    PROVE  [rs EXCEPT ![id] = u] \in Registries
BY DEF Registries

\* A new file takes an unused inode.
LEMMA NewInodeType == Unused # {} => NewInode \in Unused
BY DEF NewInode

ProcType ==
    /\ pc \in [Launches -> Pcs]
    /\ req \in [Launches -> Requests \cup {NoRequest}]
    /\ fd \in [Launches -> Inodes \cup {NoInode}]
    /\ tries \in [Launches -> 0 .. LockTries - 1]
    /\ uid \in [Launches -> Uids \cup {NoUid}]
    /\ lines \in [Launches -> Registries]
    /\ todo \in [Launches -> SUBSET Ids]
    /\ probe \in [Launches -> Inodes \cup {NoInode}]
    /\ daemon \in [Launches -> {"none", "starting", "serving", "dead"}]
    /\ regLock \in Launches \cup {NoLaunch}

\* A process that ends keeps the types of the process variables.
LEMMA ExitType ==
    ASSUME TypeOK, NEW L \in Launches, Exit(L)
    PROVE  ProcType'
BY NoLinesType, JailerAssumption DEF TypeOK, ProcType, Exit, Goto, Pcs

\* Every step of a jailer process or its daemon keeps the types.
LEMMA TypeStep ==
    ASSUME TypeOK, NEW L \in Launches, Shape(L), ProcessNext(L)
    PROVE  TypeOK'
<1> USE JailerAssumption DEF TypeOK, Pcs, AcquirePcs, RegistryPcs,
        ResolvedPcs, TeardownPcs, fileVars, Goto, ProcType
<1>a. pc[L] # "idle" => Id(L) \in Ids
  BY DEF Shape, Id, RequestType
<1>1. CASE \E r \in Requests : Start(L, r)
  BY <1>1 DEF Start
<1>2. CASE OpenLock(L)
  BY <1>2, <1>a, NewInodeType DEF OpenLock, Unused
<1>3. CASE FlockInstance(L)
  BY <1>3 DEF FlockInstance
<1>4. CASE InstanceBusy(L)
  BY <1>4, ExitType DEF InstanceBusy
<1>5. CASE ChmodLock(L)
  BY <1>5, ExitType DEF ChmodLock
<1>6. CASE RecheckSame(L)
  BY <1>6 DEF RecheckSame
<1>7. CASE RecheckChanged(L)
  BY <1>7, ExitType DEF RecheckChanged
<1>8. CASE AllocateUid(L)
  <2>0. PICK seen \in SUBSET PasswdUids :
           OpenRegistry(L, Allocate(reg, Id(L), seen))
    BY <1>8 DEF AllocateUid
  <2> DEFINE u == Allocate(reg, Id(L), seen)
  <2>1. OpenRegistry(L, u)
    BY <2>0
  <2>2. u \in Uids \cup {NoUid}
    BY <1>8, <1>a, AllocateType DEF AllocateUid
  <2>3. Upsert(reg, Id(L), u) \in Registries
    BY Zenon, <1>8, <1>a, <2>2, ChangedLineType DEF AllocateUid, Upsert
  <2> HIDE DEF u
  <2>4. QED
    BY <2>1, <2>2, <2>3 DEF OpenRegistry
<1>9. CASE UidsExhausted(L)
  BY <1>9, ExitType DEF UidsExhausted
<1>10. CASE ExplicitUid(L)
  <2>1. req[L].uid \in Uids \cup {NoUid}
    BY <1>10 DEF ExplicitUid, Shape, RequestType
  <2>2. Upsert(reg, Id(L), req[L].uid) \in Registries
    BY Zenon, <1>10, <1>a, <2>1, ChangedLineType DEF ExplicitUid, Upsert
  <2>3. QED
    BY <1>10, <2>1, <2>2 DEF ExplicitUid, OpenRegistry
<1>11. CASE TruncateRegistry(L)
  BY <1>11, NoLinesType DEF TruncateRegistry
<1>12. CASE WriteRegistry(L)
  BY <1>12, NoLinesType DEF WriteRegistry
<1>13. CASE \E id \in Ids : ProbeOpen(L, id)
  BY <1>13 DEF ProbeOpen
<1>14. CASE ProbeFree(L)
  BY <1>14 DEF ProbeFree
<1>15. CASE ProbeHeld(L)
  BY <1>15, ExitType DEF ProbeHeld
<1>16. CASE ProbeDrop(L)
  BY <1>16 DEF ProbeDrop
<1>17. CASE CloseRegistry(L)
  BY <1>17, NoLinesType DEF CloseRegistry
<1>18. CASE PrepareFiles(L)
  BY <1>18, <1>a DEF PrepareFiles
<1>19. CASE EmitPlist(L)
  BY <1>19, ExitType DEF EmitPlist
<1>20. CASE Spawn(L)
  BY <1>20, <1>a DEF Spawn
<1>21. CASE ChownFails(L)
  BY <1>21, ExitType DEF ChownFails
<1>22. CASE InstallHandler(L)
  BY <1>22 DEF InstallHandler
<1>23. CASE Reap(L)
  BY <1>23, ExitType DEF Reap
<1>24. CASE TeardownCheck(L)
  BY <1>24 DEF TeardownCheck
<1>25. CASE TeardownFiles(L)
  BY <1>25, <1>a DEF TeardownFiles
<1>26. CASE TeardownRegistry(L)
  <2>1. Remove(reg, Id(L)) \in Registries
    BY Zenon, <1>26, <1>a, ChangedLineType DEF TeardownRegistry, Remove
  <2>2. QED
    BY <1>26, <2>1 DEF TeardownRegistry
<1>27. CASE TeardownUnlink(L)
  BY <1>27, <1>a DEF TeardownUnlink
<1>28. CASE TeardownDrop(L)
  BY <1>28, ExitType DEF TeardownDrop
<1>29. CASE DaemonBind(L)
  BY Zenon, <1>29, <1>a DEF DaemonBind
<1>30. CASE DaemonExit(L)
  BY Zenon, <1>30, ExitType, <1>a DEF DaemonExit, SocketOrphaned, Live
<1>31. CASE SigKill(L)
  BY <1>31, ExitType DEF SigKill, Die, Live
<1>32. CASE SigTerm(L)
  BY <1>32, ExitType, <1>a DEF SigTerm, Die, SocketOrphaned, Live
<1>33. QED
  BY Zenon, <1>1, <1>2, <1>3, <1>4, <1>5, <1>6, <1>7, <1>8, <1>9, <1>10, <1>11,
     <1>12, <1>13, <1>14, <1>15, <1>16, <1>17, <1>18, <1>19, <1>20, <1>21,
     <1>22, <1>23, <1>24, <1>25, <1>26, <1>27, <1>28, <1>29, <1>30, <1>31,
     <1>32 DEF ProcessNext, Step, Event

-----------------------------------------------------------------------------
(***************************************************************************)
(* What a step does                                                        *)
(***************************************************************************)
SameLocal(M) ==
    /\ pc'[M] = pc[M] /\ req'[M] = req[M] /\ fd'[M] = fd[M]
    /\ uid'[M] = uid[M] /\ lines'[M] = lines[M]
    /\ todo'[M] = todo[M] /\ probe'[M] = probe[M]
    /\ daemon'[M] = daemon[M]

\* A step of one process leaves the local state of the others alone.
LEMMA LocalStep ==
    ASSUME TypeOK, NEW L \in Launches, NEW M \in Launches \ {L},
           ProcessNext(L)
    PROVE  SameLocal(M)
<1> USE DEF TypeOK, SameLocal, Goto, Exit
<1>1. CASE \E r \in Requests : Start(L, r)
  BY <1>1 DEF Start
<1>2. CASE OpenLock(L)
  BY <1>2 DEF OpenLock
<1>3. CASE FlockInstance(L)
  BY <1>3 DEF FlockInstance
<1>4. CASE InstanceBusy(L)
  BY <1>4 DEF InstanceBusy
<1>5. CASE ChmodLock(L)
  BY <1>5 DEF ChmodLock
<1>6. CASE RecheckSame(L)
  BY <1>6 DEF RecheckSame
<1>7. CASE RecheckChanged(L)
  BY <1>7 DEF RecheckChanged
<1>8. CASE AllocateUid(L)
  BY <1>8 DEF AllocateUid, OpenRegistry
<1>9. CASE UidsExhausted(L)
  BY <1>9 DEF UidsExhausted
<1>10. CASE ExplicitUid(L)
  BY <1>10 DEF ExplicitUid, OpenRegistry
<1>11. CASE TruncateRegistry(L)
  BY <1>11 DEF TruncateRegistry
<1>12. CASE WriteRegistry(L)
  BY <1>12 DEF WriteRegistry
<1>13. CASE \E id \in Ids : ProbeOpen(L, id)
  BY <1>13 DEF ProbeOpen
<1>14. CASE ProbeFree(L)
  BY <1>14 DEF ProbeFree
<1>15. CASE ProbeHeld(L)
  BY <1>15 DEF ProbeHeld
<1>16. CASE ProbeDrop(L)
  BY <1>16 DEF ProbeDrop
<1>17. CASE CloseRegistry(L)
  BY <1>17 DEF CloseRegistry
<1>18. CASE PrepareFiles(L)
  BY <1>18 DEF PrepareFiles
<1>19. CASE EmitPlist(L)
  BY <1>19 DEF EmitPlist
<1>20. CASE Spawn(L)
  BY <1>20 DEF Spawn
<1>21. CASE ChownFails(L)
  BY <1>21 DEF ChownFails
<1>22. CASE InstallHandler(L)
  BY <1>22 DEF InstallHandler
<1>23. CASE Reap(L)
  BY <1>23 DEF Reap
<1>24. CASE TeardownCheck(L)
  BY <1>24 DEF TeardownCheck
<1>25. CASE TeardownFiles(L)
  BY <1>25 DEF TeardownFiles
<1>26. CASE TeardownRegistry(L)
  BY <1>26, SMTT(30) DEF TeardownRegistry
<1>27. CASE TeardownUnlink(L)
  BY <1>27 DEF TeardownUnlink
<1>28. CASE TeardownDrop(L)
  BY <1>28 DEF TeardownDrop
<1>29. CASE DaemonBind(L)
  BY <1>29 DEF DaemonBind
<1>30. CASE DaemonExit(L)
  BY <1>30 DEF DaemonExit
<1>31. CASE SigKill(L)
  BY <1>31 DEF SigKill, Die
<1>32. CASE SigTerm(L)
  BY <1>32 DEF SigTerm, Die
<1>33. QED
  BY Zenon, <1>1, <1>2, <1>3, <1>4, <1>5, <1>6, <1>7, <1>8, <1>9, <1>10, <1>11,
     <1>12, <1>13, <1>14, <1>15, <1>16, <1>17, <1>18, <1>19, <1>20, <1>21,
     <1>22, <1>23, <1>24, <1>25, <1>26, <1>27, <1>28, <1>29, <1>30, <1>31,
     <1>32 DEF ProcessNext, Step, Event

\* The shape of the process that acts.
LEMMA ActorShape ==
    ASSUME TypeOK, NEW L \in Launches, Shape(L), ProcessNext(L)
    PROVE  Shape(L)'
<1>t. /\ pc \in [Launches -> Pcs] /\ req \in [Launches -> Requests \cup {NoRequest}]
      /\ fd \in [Launches -> Inodes \cup {NoInode}]
      /\ uid \in [Launches -> Uids \cup {NoUid}]
      /\ daemon \in [Launches -> {"none", "starting", "serving", "dead"}]
      /\ path \in [Ids -> Inodes \cup {NoInode}]
  BY DEF TypeOK
<1> USE <1>t, JailerAssumption DEF Shape, AcquirePcs, RegistryPcs, ResolvedPcs,
        TeardownPcs, BeforeLockPcs, HoldPcs, ProbePcs, Goto, Exit
<1>1. CASE \E r \in Requests : Start(L, r)
  BY <1>1 DEF Start
<1>2. CASE OpenLock(L)
  BY <1>2, NewInodeType DEF OpenLock, Unused
<1>3. CASE FlockInstance(L)
  BY <1>3 DEF FlockInstance
<1>4. CASE InstanceBusy(L)
  BY <1>4 DEF InstanceBusy
<1>5. CASE ChmodLock(L)
  BY <1>5 DEF ChmodLock
<1>6. CASE RecheckSame(L)
  BY <1>6 DEF RecheckSame, NeedsUid
<1>7. CASE RecheckChanged(L)
  BY <1>7 DEF RecheckChanged
<1>8. CASE AllocateUid(L)
  BY <1>8 DEF AllocateUid, OpenRegistry
<1>9. CASE UidsExhausted(L)
  BY <1>9 DEF UidsExhausted
<1>10. CASE ExplicitUid(L)
  BY <1>10 DEF ExplicitUid, OpenRegistry
<1>11. CASE TruncateRegistry(L)
  BY <1>11 DEF TruncateRegistry
<1>12. CASE WriteRegistry(L)
  BY <1>12 DEF WriteRegistry
<1>13. CASE \E id \in Ids : ProbeOpen(L, id)
  BY <1>13 DEF ProbeOpen
<1>14. CASE ProbeFree(L)
  BY <1>14 DEF ProbeFree
<1>15. CASE ProbeHeld(L)
  BY <1>15 DEF ProbeHeld
<1>16. CASE ProbeDrop(L)
  BY <1>16 DEF ProbeDrop
<1>17. CASE CloseRegistry(L)
  BY <1>17 DEF CloseRegistry
<1>18. CASE PrepareFiles(L)
  BY <1>18 DEF PrepareFiles
<1>19. CASE EmitPlist(L)
  BY <1>19 DEF EmitPlist
<1>20. CASE Spawn(L)
  BY <1>20 DEF Spawn
<1>21. CASE ChownFails(L)
  BY <1>21 DEF ChownFails
<1>22. CASE InstallHandler(L)
  BY <1>22 DEF InstallHandler
<1>23. CASE Reap(L)
  BY <1>23 DEF Reap
<1>24. CASE TeardownCheck(L)
  BY <1>24 DEF TeardownCheck
<1>25. CASE TeardownFiles(L)
  BY <1>25 DEF TeardownFiles
<1>26. CASE TeardownRegistry(L)
  BY <1>26, SMTT(30) DEF TeardownRegistry
<1>27. CASE TeardownUnlink(L)
  BY <1>27 DEF TeardownUnlink
<1>28. CASE TeardownDrop(L)
  BY <1>28 DEF TeardownDrop
<1>29. CASE DaemonBind(L)
  BY <1>29 DEF DaemonBind
<1>30. CASE DaemonExit(L)
  BY <1>30 DEF DaemonExit, Live
<1>31. CASE SigKill(L)
  BY <1>31 DEF SigKill, Die, Live
<1>32. CASE SigTerm(L)
  BY <1>32 DEF SigTerm, Die, Live
<1>33. QED
  BY Zenon, <1>1, <1>2, <1>3, <1>4, <1>5, <1>6, <1>7, <1>8, <1>9, <1>10, <1>11,
     <1>12, <1>13, <1>14, <1>15, <1>16, <1>17, <1>18, <1>19, <1>20, <1>21,
     <1>22, <1>23, <1>24, <1>25, <1>26, <1>27, <1>28, <1>29, <1>30, <1>31,
     <1>32 DEF ProcessNext, Step, Event

\* Its descriptor: closed, waiting for the lock, locked before, or locked now.
FdEffect(L) ==
    \/ fd'[L] = NoInode
    \/ pc'[L] = "flock"
    \/ fd'[L] = fd[L] /\ pc[L] # "flock"
    \/ FlockInstance(L)

\* A claim is taken by the re-check only.
ClaimEffect(L) ==
    pc'[L] \in ClaimPcs /\ fd'[L] # NoInode =>
        /\ fd'[L] = fd[L] /\ req'[L] = req[L]
        /\ RecheckSame(L) \/ pc[L] \in ClaimPcs

\* The path changes when the file is created and when teardown unlinks it.
PathEffect(L) ==
    \/ path' = path
    \/ OpenLock(L) /\ path[Id(L)] = NoInode
    \/ TeardownUnlink(L) /\ fd[L] # NoInode

\* The registry file and its lock.
RegistryEffect(L) ==
    \/ regLock # L /\ regLock' = regLock /\ reg' = reg
    \/ /\ regLock = NoLaunch /\ regLock' = L /\ reg' = reg
       /\ pc'[L] = "truncate" /\ req'[L] = req[L]
       /\ \E x \in {uid'[L], NoUid} : lines'[L] = [reg EXCEPT ![Id(L)] = x]
    \/ TruncateRegistry(L)
    \/ WriteRegistry(L)
    \/ /\ regLock = L /\ regLock' \in {L, NoLaunch} /\ reg' = reg
       /\ pc'[L] \notin {"truncate", "write"}
       /\ pc[L] = "write" => regLock' = NoLaunch

\* A process with a uid is past the registry only through CloseRegistry.
ResolvedEffect(L) ==
    pc'[L] \in ResolvedPcs /\ uid'[L] # NoUid =>
        /\ uid'[L] = uid[L] /\ fd'[L] = fd[L] /\ req'[L] = req[L]
        /\ CloseRegistry(L) \/ pc[L] \in ResolvedPcs

ProbeEffect(L) ==
    pc'[L] \in ProbePcs =>
        \/ WriteRegistry(L) \/ \E id \in Ids : ProbeOpen(L, id)
        \/ ProbeFree(L) \/ ProbeHeld(L) \/ ProbeDrop(L)

\* What a step of L can do to locks, lock files, the registry and its probes.
LEMMA ActorEffects ==
    ASSUME TypeOK, NEW L \in Launches, Shape(L), ProcessNext(L)
    PROVE  /\ FdEffect(L) /\ ClaimEffect(L) /\ PathEffect(L)
           /\ RegistryEffect(L) /\ ResolvedEffect(L) /\ ProbeEffect(L)
<1>t. /\ pc \in [Launches -> Pcs] /\ req \in [Launches -> Requests \cup {NoRequest}]
      /\ fd \in [Launches -> Inodes \cup {NoInode}]
      /\ uid \in [Launches -> Uids \cup {NoUid}]
      /\ lines \in [Launches -> Registries]
      /\ path \in [Ids -> Inodes \cup {NoInode}]
  BY DEF TypeOK
<1> USE <1>t, JailerAssumption DEF Shape, AcquirePcs, RegistryPcs, ResolvedPcs,
        TeardownPcs, BeforeLockPcs, ProbePcs, ClaimPcs, Goto, Exit, fileVars,
        FdEffect, ClaimEffect, PathEffect, RegistryEffect, ResolvedEffect,
        ProbeEffect
<1>1. CASE \E r \in Requests : Start(L, r)
  BY <1>1 DEF Start
<1>2. CASE OpenLock(L)
  BY <1>2 DEF OpenLock
<1>3. CASE FlockInstance(L)
  BY <1>3 DEF FlockInstance
<1>4. CASE InstanceBusy(L)
  BY <1>4 DEF InstanceBusy
<1>5. CASE ChmodLock(L)
  BY <1>5 DEF ChmodLock
<1>6. CASE RecheckSame(L)
  BY <1>6 DEF RecheckSame
<1>7. CASE RecheckChanged(L)
  BY <1>7 DEF RecheckChanged
<1>8. CASE AllocateUid(L)
  BY <1>8 DEF AllocateUid, OpenRegistry, Upsert
<1>9. CASE UidsExhausted(L)
  BY <1>9 DEF UidsExhausted
<1>10. CASE ExplicitUid(L)
  BY <1>10 DEF ExplicitUid, OpenRegistry, Upsert
<1>11. CASE TruncateRegistry(L)
  BY <1>11 DEF TruncateRegistry
<1>12. CASE WriteRegistry(L)
  BY Zenon, <1>12 DEF WriteRegistry
<1>13. CASE \E id \in Ids : ProbeOpen(L, id)
  <2>1. PICK id \in Ids : ProbeOpen(L, id)
    BY <1>13
  <2>2. /\ fd' = fd /\ req' = req /\ uid' = uid
        /\ path' = path /\ reg' = reg /\ regLock' = regLock
        /\ pc[L] = "probe" /\ pc'[L] \in {"probe", "probe_flock"}
    BY <2>1 DEF ProbeOpen
  <2>3. ProbeEffect(L)
    BY <1>13
  <2>4. QED
    BY Zenon, <2>2, <2>3
<1>14. CASE ProbeFree(L)
  BY Zenon, <1>14 DEF ProbeFree
<1>15. CASE ProbeHeld(L)
  BY <1>15 DEF ProbeHeld
<1>16. CASE ProbeDrop(L)
  BY <1>16 DEF ProbeDrop
<1>17. CASE CloseRegistry(L)
  BY Zenon, <1>17 DEF CloseRegistry
<1>18. CASE PrepareFiles(L)
  BY <1>18 DEF PrepareFiles
<1>19. CASE EmitPlist(L)
  BY <1>19 DEF EmitPlist
<1>20. CASE Spawn(L)
  BY <1>20 DEF Spawn
<1>21. CASE ChownFails(L)
  BY Zenon, <1>21 DEF ChownFails
<1>22. CASE InstallHandler(L)
  BY <1>22 DEF InstallHandler
<1>23. CASE Reap(L)
  BY <1>23 DEF Reap
<1>24. CASE TeardownCheck(L)
  BY <1>24 DEF TeardownCheck
<1>25. CASE TeardownFiles(L)
  BY <1>25 DEF TeardownFiles
<1>26. CASE TeardownRegistry(L)
  BY <1>26 DEF TeardownRegistry, Remove
<1>27. CASE TeardownUnlink(L)
  BY <1>27 DEF TeardownUnlink
<1>28. CASE TeardownDrop(L)
  BY <1>28 DEF TeardownDrop
<1>29. CASE DaemonBind(L)
  BY Zenon, <1>29 DEF DaemonBind
<1>30. CASE DaemonExit(L)
  BY <1>30 DEF DaemonExit, Live
<1>d. ASSUME Die(L), Live(L), pc[L] # "orphaned"
      PROVE  /\ FdEffect(L) /\ ClaimEffect(L) /\ PathEffect(L)
             /\ RegistryEffect(L) /\ ResolvedEffect(L) /\ ProbeEffect(L)
  <2>1. /\ pc'[L] = "orphaned"
        /\ UNCHANGED <<req, fd, uid, regLock, path, reg>>
    BY ONLY <1>t, <1>d DEF Die, Goto, fileVars
  <2>2. /\ pc[L] \in {"handler", "wait"}
        /\ regLock # L
    BY ONLY Zenon, <1>d, Shape(L) DEF Shape, Live, RegistryPcs
  <2>3. FdEffect(L) /\ PathEffect(L) /\ RegistryEffect(L)
    BY ONLY Zenon, <2>1, <2>2 DEF FdEffect, PathEffect, RegistryEffect
  <2>4. ClaimEffect(L) /\ ResolvedEffect(L) /\ ProbeEffect(L)
    BY ONLY Zenon, <2>1, <2>2 DEF ClaimEffect, ResolvedEffect, ProbeEffect, ClaimPcs,
                           ResolvedPcs, ProbePcs, AcquirePcs, RegistryPcs,
                           TeardownPcs
  <2> QED
    BY ONLY Zenon, <2>3, <2>4
<1>e. ASSUME Die(L), ~Live(L)
      PROVE  /\ FdEffect(L) /\ ClaimEffect(L) /\ PathEffect(L)
             /\ RegistryEffect(L) /\ ResolvedEffect(L) /\ ProbeEffect(L)
  <2>1. /\ pc'[L] = "idle" /\ fd'[L] = NoInode /\ uid'[L] = NoUid
        /\ regLock' = IF regLock = L THEN NoLaunch ELSE regLock
        /\ UNCHANGED <<path, reg>>
    BY ONLY <1>t, <1>e, L \in Launches DEF Die, Exit, Goto, fileVars
  <2>2. FdEffect(L) /\ PathEffect(L) /\ RegistryEffect(L)
    BY ONLY Zenon, <2>1 DEF FdEffect, PathEffect, RegistryEffect
  <2>3. ClaimEffect(L) /\ ResolvedEffect(L) /\ ProbeEffect(L)
    BY ONLY Zenon, <2>1 DEF ClaimEffect, ResolvedEffect, ProbeEffect, ProbePcs
  <2> QED
    BY ONLY Zenon, <2>2, <2>3
<1>31. CASE SigKill(L)
  BY ONLY Zenon, <1>31, <1>d, <1>e DEF SigKill
<1>32. CASE SigTerm(L)
  <2>1. CASE /\ pc[L] = "wait"
             /\ UNCHANGED <<pc, req, fd, uid, lines, regLock, path, reg>>
    BY <2>1
  <2>2. QED
    BY Zenon, <1>32, <1>d, <1>e, <2>1 DEF SigTerm
<1>33. QED
  BY Zenon, <1>1, <1>2, <1>3, <1>4, <1>5, <1>6, <1>7, <1>8, <1>9, <1>10, <1>11,
     <1>12, <1>13, <1>14, <1>15, <1>16, <1>17, <1>18, <1>19, <1>20, <1>21,
     <1>22, <1>23, <1>24, <1>25, <1>26, <1>27, <1>28, <1>29, <1>30, <1>31,
     <1>32 DEF ProcessNext, Step, Event

\* A step touches the files of its own instance only, and of a live one only
\* to bind the socket.
FilesEffect(L) ==
    \/ UNCHANGED <<dir, sock, profile>>
    \/ /\ Claimed(L) \/ UnclaimedTeardown(L)
       /\ dir' = [dir EXCEPT ![Id(L)] = dir'[Id(L)]]
       /\ sock' = [sock EXCEPT ![Id(L)] = sock'[Id(L)]]
       /\ profile' = [profile EXCEPT ![Id(L)] = profile'[Id(L)]]
       /\ Live(L) /\ Live(L)' => InstanceFilesKept(L)

\* What a step of L can do to work dirs, sockets and profiles.
LEMMA ActorFiles ==
    ASSUME TypeOK, NEW L \in Launches, Shape(L), ProcessNext(L)
    PROVE  FilesEffect(L)
<1>a. pc[L] # "idle" => Id(L) \in Ids
  BY Zenon, JailerAssumption DEF Shape, Id, RequestType
<1>t. /\ daemon \in [Launches -> {"none", "starting", "serving", "dead"}]
      /\ dir \in [Ids -> Uids \cup {NoUid, NoDir}]
      /\ sock \in [Ids -> Launches \cup {NoSock, StaleSock}]
      /\ profile \in [Ids -> BOOLEAN]
  BY DEF TypeOK
<1> USE DEF FilesEffect, fileVars
<1>1. CASE \E r \in Requests : Start(L, r)
  BY <1>1 DEF Start
<1>2. CASE OpenLock(L)
  BY <1>2 DEF OpenLock
<1>3. CASE FlockInstance(L)
  BY <1>3 DEF FlockInstance
<1>4. CASE InstanceBusy(L)
  BY <1>4 DEF InstanceBusy
<1>5. CASE ChmodLock(L)
  BY <1>5 DEF ChmodLock
<1>6. CASE RecheckSame(L)
  BY <1>6 DEF RecheckSame
<1>7. CASE RecheckChanged(L)
  BY <1>7 DEF RecheckChanged
<1>8. CASE AllocateUid(L)
  BY <1>8 DEF AllocateUid, OpenRegistry
<1>9. CASE UidsExhausted(L)
  BY <1>9 DEF UidsExhausted
<1>10. CASE ExplicitUid(L)
  BY <1>10 DEF ExplicitUid, OpenRegistry
<1>11. CASE TruncateRegistry(L)
  BY <1>11 DEF TruncateRegistry
<1>12. CASE WriteRegistry(L)
  BY <1>12 DEF WriteRegistry
<1>13. CASE \E id \in Ids : ProbeOpen(L, id)
  BY <1>13 DEF ProbeOpen
<1>14. CASE ProbeFree(L)
  BY <1>14 DEF ProbeFree
<1>15. CASE ProbeHeld(L)
  BY <1>15 DEF ProbeHeld
<1>16. CASE ProbeDrop(L)
  BY <1>16 DEF ProbeDrop
<1>17. CASE CloseRegistry(L)
  BY <1>17 DEF CloseRegistry
<1>18. CASE PrepareFiles(L)
  BY Zenon, <1>18, <1>a, <1>t DEF PrepareFiles, Claimed, ClaimPcs, ResolvedPcs,
     UnclaimedTeardown, TeardownPcs, Live, InstanceFilesKept, HoldPcs, Shape
<1>19. CASE EmitPlist(L)
  BY <1>19 DEF EmitPlist
<1>20. CASE Spawn(L)
  BY Zenon, <1>20, <1>a, <1>t DEF Spawn, Claimed, ClaimPcs, ResolvedPcs,
     UnclaimedTeardown, TeardownPcs, Live, InstanceFilesKept, HoldPcs, Shape
<1>21. CASE ChownFails(L)
  BY <1>21 DEF ChownFails
<1>22. CASE InstallHandler(L)
  BY <1>22 DEF InstallHandler
<1>23. CASE Reap(L)
  BY <1>23 DEF Reap
<1>24. CASE TeardownCheck(L)
  BY <1>24 DEF TeardownCheck
<1>25. CASE TeardownFiles(L)
  BY Zenon, <1>25, <1>a, <1>t DEF TeardownFiles, Claimed, ClaimPcs, ResolvedPcs,
     UnclaimedTeardown, TeardownPcs, Live, InstanceFilesKept, HoldPcs, Shape
<1>26. CASE TeardownRegistry(L)
  BY <1>26 DEF TeardownRegistry
<1>27. CASE TeardownUnlink(L)
  BY <1>27 DEF TeardownUnlink
<1>28. CASE TeardownDrop(L)
  BY <1>28 DEF TeardownDrop
<1>29. CASE DaemonBind(L)
  BY Zenon, <1>29, <1>a, <1>t DEF DaemonBind, Claimed, ClaimPcs, ResolvedPcs,
     UnclaimedTeardown, TeardownPcs, Live, InstanceFilesKept, HoldPcs, Shape
<1>30. CASE DaemonExit(L)
  BY Zenon, <1>30, <1>a, <1>t DEF DaemonExit, Claimed, ClaimPcs, ResolvedPcs,
     UnclaimedTeardown, TeardownPcs, Live, InstanceFilesKept, HoldPcs, Shape,
     SocketOrphaned, Exit, Goto
<1>31. CASE SigKill(L)
  BY <1>31 DEF SigKill, Die
<1>32. CASE SigTerm(L)
  BY Zenon, <1>32, <1>a, <1>t DEF SigTerm, Die, Claimed, ClaimPcs, ResolvedPcs,
     UnclaimedTeardown, TeardownPcs, Live, InstanceFilesKept, HoldPcs, Shape,
     SocketOrphaned
<1>33. QED
  BY Zenon, <1>1, <1>2, <1>3, <1>4, <1>5, <1>6, <1>7, <1>8, <1>9, <1>10, <1>11,
     <1>12, <1>13, <1>14, <1>15, <1>16, <1>17, <1>18, <1>19, <1>20, <1>21,
     <1>22, <1>23, <1>24, <1>25, <1>26, <1>27, <1>28, <1>29, <1>30, <1>31,
     <1>32 DEF ProcessNext, Step, Event

-----------------------------------------------------------------------------
(***************************************************************************)
(* The inductive invariant is preserved                                    *)
(***************************************************************************)
\* Every step keeps what program counters say about locals and locks.
LEMMA ShapeStep ==
    ASSUME TypeOK, ShapeInv, NEW L \in Launches, ProcessNext(L)
    PROVE  ShapeInv'
<1>1. Shape(L)'
  BY ActorShape DEF ShapeInv
<1>2. ASSUME NEW M \in Launches \ {L} PROVE Shape(M)'
  <2>1. SameLocal(M)
    BY LocalStep
  <2>2. RegistryEffect(L)
    BY ActorEffects DEF ShapeInv
  <2>3. regLock' = M <=> regLock = M
    BY Zenon, <2>2, JailerAssumption DEF RegistryEffect, TruncateRegistry,
       WriteRegistry, ShapeInv, Shape, RegistryPcs
  <2>4. Shape(M)
    BY DEF ShapeInv
  <2>5. QED
    BY Zenon, <2>1, <2>3, <2>4 DEF SameLocal, Shape
<1>3. QED
  BY <1>1, <1>2 DEF ShapeInv

\* Two claims on one id are one claim.
LEMMA ClaimUnique ==
    ASSUME ClaimInv, NEW L \in Launches, NEW M \in Launches,
           Claimed(L), Claimed(M), Id(L) = Id(M)
    PROVE  L = M
BY DEF ClaimInv, FlockExclusive, ClaimsThePath, Claimed, ClaimPcs,
   RegistryPcs, ResolvedPcs

\* Every step keeps the instance locks exclusive per inode and per claimed id.
LEMMA ClaimStep ==
    ASSUME TypeOK, ShapeInv, ClaimInv, NEW L \in Launches, ProcessNext(L)
    PROVE  ClaimInv'
<1>e. FdEffect(L) /\ ClaimEffect(L) /\ PathEffect(L)
  BY ActorEffects DEF ShapeInv
<1>1. ASSUME NEW M \in Launches \ {L}, fd'[L] = fd'[M], fd'[L] # NoInode
      PROVE  pc'[L] = "flock" \/ pc'[M] = "flock"
  <2>1. fd'[M] = fd[M] /\ pc'[M] = pc[M]
    BY LocalStep DEF SameLocal
  <2>2. CASE fd'[L] = fd[L] /\ pc[L] # "flock"
    BY <1>1, <2>1, <2>2 DEF ClaimInv, FlockExclusive
  <2>3. CASE FlockInstance(L)
    BY <1>1, <2>1, <2>3 DEF FlockInstance, Held, Locks
  <2>4. QED
    BY Zenon, <1>1, <1>e, <2>2, <2>3 DEF FdEffect
<1>2. FlockExclusive'
  <2>1. SUFFICES ASSUME NEW A \in Launches, NEW B \in Launches, A # B,
                        fd'[A] = fd'[B], fd'[A] # NoInode
                 PROVE  pc'[A] = "flock" \/ pc'[B] = "flock"
    BY DEF FlockExclusive
  <2>2. CASE A = L
    BY <1>1, <2>1, <2>2
  <2>3. CASE B = L
    BY <1>1, <2>1, <2>3
  <2>4. CASE A # L /\ B # L
    <3>1. SameLocal(A) /\ SameLocal(B)
      BY <2>4, LocalStep
    <3>2. QED
      BY Zenon, <2>1, <3>1 DEF SameLocal, ClaimInv, FlockExclusive
  <2>5. QED
    BY <2>2, <2>3, <2>4
<1>3. ASSUME Claimed(L)' PROVE path'[Id(L)'] = fd'[L]
  <2>1. /\ fd'[L] = fd[L] /\ req'[L] = req[L] /\ fd[L] # NoInode
        /\ RecheckSame(L) \/ pc[L] \in ClaimPcs
    BY <1>3, <1>e DEF ClaimEffect, Claimed
  <2>2. path[Id(L)] = fd[L]
    BY <2>1 DEF RecheckSame, ClaimInv, ClaimsThePath, Claimed
  <2>3. ~TeardownUnlink(L)
    BY Zenon, <1>3, TypeStep DEF TeardownUnlink, Goto, Claimed, ClaimPcs, RegistryPcs,
       ResolvedPcs, TypeOK
  <2>4. path' = path
    BY Zenon, <1>e, <2>1, <2>2, <2>3 DEF PathEffect
  <2>5. QED
    BY <2>1, <2>2, <2>4 DEF Id
<1>4. ASSUME NEW M \in Launches \ {L}, Claimed(M)'
      PROVE  path'[Id(M)'] = fd'[M]
  <2>1. SameLocal(M)
    BY LocalStep
  <2>2. Claimed(M) /\ Id(M)' = Id(M) /\ fd'[M] = fd[M]
    BY Zenon, <1>4, <2>1 DEF SameLocal, Claimed, Id
  <2>3. path[Id(M)] = fd[M] /\ fd[M] # NoInode
    BY <2>2 DEF ClaimInv, ClaimsThePath, Claimed
  <2>i. Id(M) \in Ids /\ path \in [Ids -> Inodes \cup {NoInode}]
    BY Zenon, <2>2, JailerAssumption DEF TypeOK, ShapeInv, Shape, Id, RequestType,
       Claimed, ClaimPcs, RegistryPcs, ResolvedPcs
  <2>4. CASE OpenLock(L) /\ path[Id(L)] = NoInode
    <3>1. Id(L) # Id(M)
      BY <2>3, <2>4
    <3>2. QED
      BY <2>2, <2>3, <2>4, <2>i, <3>1 DEF OpenLock
  <2>5. CASE TeardownUnlink(L) /\ fd[L] # NoInode
    <3>1. Claimed(L)
      BY Zenon, <2>5 DEF TeardownUnlink, Claimed, ClaimPcs
    <3>2. Id(L) # Id(M)
      BY <3>1, <2>2, ClaimUnique
    <3>3. QED
      BY Zenon, <2>2, <2>3, <2>5, <2>i, <3>2 DEF TeardownUnlink
  <2>6. QED
    BY <1>e, <2>2, <2>3, <2>4, <2>5 DEF PathEffect
<1>5. ClaimsThePath'
  BY <1>3, <1>4 DEF ClaimsThePath
<1>6. QED
  BY <1>2, <1>5 DEF ClaimInv

\* The copy in memory differs from the registry in the own line only, and the
\* file is empty while it is being rewritten.
LEMMA CopyStep ==
    ASSUME TypeOK, ShapeInv, RegistryCopy, NEW L \in Launches, ProcessNext(L)
    PROVE  RegistryCopy'
<1>e. RegistryEffect(L)
  BY ActorEffects DEF ShapeInv
<1>s. Shape(L) /\ Shape(L)'
  BY ShapeStep DEF ShapeInv
<1>t. reg \in [Ids -> Uids \cup {NoUid}] /\ pc \in [Launches -> Pcs]
  BY DEF TypeOK, Registries
<1>1. ASSUME NEW M \in Launches \ {L}, pc'[M] \in {"truncate", "write"}
      PROVE  reg' = reg
  <2>1. pc[M] = pc'[M] /\ Shape(M)
    BY Zenon, LocalStep DEF SameLocal, ShapeInv
  <2>2. regLock = M
    BY Zenon, <1>1, <2>1 DEF Shape, RegistryPcs
  <2>3. QED
    BY Zenon, <2>2, <1>e, <1>s, JailerAssumption DEF RegistryEffect, TruncateRegistry,
       WriteRegistry, Shape, RegistryPcs
<1>2. ASSUME NEW M \in Launches, pc'[M] = "truncate", NEW id \in Ids,
             lines'[M][id] # reg'[id]
      PROVE  id = Id(M)' /\ lines'[M][id] \in {uid'[M], NoUid}
  <2>1. CASE M # L
    <3>1. SameLocal(M) /\ reg' = reg
      BY <1>1, <1>2, <2>1, LocalStep
    <3>2. QED
      BY Zenon, <1>2, <3>1 DEF SameLocal, RegistryCopy, Id
  <2>2. CASE M = L
    <3>1. regLock' = L
      BY Zenon, <1>2, <2>2, <1>s DEF Shape, RegistryPcs
    <3>2. ~TruncateRegistry(L) /\ ~WriteRegistry(L)
      BY Zenon, <1>2, <2>2, <1>t DEF TruncateRegistry, WriteRegistry, Goto
    <3>3. /\ reg' = reg /\ req'[L] = req[L]
          /\ \E x \in {uid'[L], NoUid} : lines'[L] = [reg EXCEPT ![Id(L)] = x]
      BY Zenon, <1>2, <2>2, <3>1, <3>2, <1>e DEF RegistryEffect
    <3>4. QED
      BY <1>2, <2>2, <3>3, <1>t DEF Id
  <2>3. QED
    BY <2>1, <2>2
<1>3. ASSUME NEW M \in Launches, pc'[M] = "write"
      PROVE  reg' = NoLines
  <2>1. CASE M # L
    <3>1. SameLocal(M) /\ reg' = reg
      BY <1>1, <1>3, <2>1, LocalStep
    <3>2. QED
      BY Zenon, <1>3, <3>1 DEF SameLocal, RegistryCopy
  <2>2. CASE M = L
    <3>1. regLock' = L
      BY <1>3, <2>2, <1>s DEF Shape, RegistryPcs
    <3>2. ~WriteRegistry(L)
      BY Zenon, <1>3, <2>2, <1>t DEF WriteRegistry, Goto
    <3>3. TruncateRegistry(L)
      BY <1>3, <2>2, <3>1, <3>2, <1>e DEF RegistryEffect
    <3>4. QED
      BY <3>3 DEF TruncateRegistry
  <2>3. QED
    BY <2>1, <2>2
<1>4. QED
  BY Zenon, <1>2, <1>3 DEF RegistryCopy

\* A line changes only when it is lost, or when a process that holds the
\* registry's lock rewrites the line of its own id.
LEMMA LineStep ==
    ASSUME TypeOK, ShapeInv, RegistryCopy, NEW L \in Launches, ProcessNext(L),
           NEW id \in Ids
    PROVE  \/ LineOf(id)' \in {LineOf(id), NoUid}
           \/ TruncateRegistry(L) /\ id = Id(L) /\ LineOf(id)' = uid[L]
<1>e. RegistryEffect(L)
  BY ActorEffects DEF ShapeInv
<1>s. Shape(L)
  BY DEF ShapeInv
<1>t. pc \in [Launches -> Pcs] /\ regLock \in Launches \cup {NoLaunch}
  BY DEF TypeOK
<1>1. CASE regLock # L /\ regLock' = regLock /\ reg' = reg
  <2>1. CASE regLock = NoLaunch
    BY <1>1, <2>1 DEF LineOf
  <2>2. CASE regLock # NoLaunch
    <3>1. SameLocal(regLock)
      BY <1>1, <1>t, <2>2, LocalStep
    <3>2. QED
      BY Zenon, <1>1, <2>2, <3>1 DEF LineOf, SameLocal
  <2>3. QED
    BY <2>1, <2>2
<1>2. CASE regLock = NoLaunch /\ regLock' = L /\ reg' = reg /\ pc'[L] = "truncate"
  BY Zenon, <1>2 DEF LineOf
<1>3. CASE TruncateRegistry(L)
  <2>1. regLock = L /\ L # NoLaunch
    BY Zenon, <1>3, <1>s, JailerAssumption DEF TruncateRegistry, Shape, RegistryPcs
  <2>2. regLock' = L /\ pc'[L] = "write" /\ lines' = lines /\ pc[L] = "truncate"
    BY <1>3, <2>1, <1>t DEF TruncateRegistry, Goto
  <2>3. LineOf(id)' = lines[L][id] /\ LineOf(id) = reg[id]
    BY Zenon, <2>1, <2>2 DEF LineOf
  <2>4. lines[L][id] # reg[id] => id = Id(L) /\ lines[L][id] \in {uid[L], NoUid}
    BY Zenon, <2>2 DEF RegistryCopy
  <2>5. QED
    BY <1>3, <2>3, <2>4
<1>4. CASE WriteRegistry(L)
  <2>1. regLock = L /\ L # NoLaunch /\ pc[L] = "write"
    BY Zenon, <1>4, <1>s, JailerAssumption DEF WriteRegistry, Shape, RegistryPcs
  <2>2. reg' = lines[L] /\ pc'[L] # "write" /\ regLock' \in {L, NoLaunch}
    BY <1>4, <2>1, <1>t DEF WriteRegistry, Goto
  <2>3. QED
    BY <2>1, <2>2 DEF LineOf
<1>5. CASE /\ regLock = L /\ regLock' \in {L, NoLaunch} /\ reg' = reg
           /\ pc'[L] \notin {"truncate", "write"}
           /\ pc[L] = "write" => regLock' = NoLaunch
  <2>1. LineOf(id)' = reg[id]
    BY <1>5 DEF LineOf
  <2>2. CASE pc[L] = "write"
    BY <2>1, <2>2 DEF RegistryCopy, NoLines
  <2>3. CASE pc[L] # "write"
    BY <1>5, <2>1, <2>3 DEF LineOf
  <2>4. QED
    BY <2>2, <2>3
<1>6. QED
  BY Zenon, <1>e, <1>1, <1>2, <1>3, <1>4, <1>5 DEF RegistryEffect

\* A process with a uid of its own past the registry has a claim.
LEMMA ExclusiveClaimed ==
    ASSUME ShapeInv, NEW M \in Launches, Exclusive(M)
    PROVE  Claimed(M)
BY DEF ShapeInv, Shape, Exclusive, Claimed, ClaimPcs, HoldPcs, ResolvedPcs

\* Only CloseRegistry makes a process Exclusive.
LEMMA ExclusiveStep ==
    ASSUME TypeOK, ShapeInv, ClaimInv, RegistryCopy,
           NEW L \in Launches, ProcessNext(L),
           NEW M \in Launches, Exclusive(M)'
    PROVE  /\ uid'[M] = uid[M] /\ fd'[M] = fd[M] /\ req'[M] = req[M]
           /\ Exclusive(M) \/ (M = L /\ CloseRegistry(L))
<1>x. pc'[M] \in ResolvedPcs /\ uid'[M] # NoUid /\ LineOf(Id(M))' = uid'[M]
      /\ ~req'[M].shared
  BY DEF Exclusive
<1>1. CASE M # L
  <2>1. SameLocal(M)
    BY <1>1, LocalStep
  <2>2. /\ pc[M] \in ResolvedPcs /\ uid[M] # NoUid /\ ~req[M].shared
        /\ Id(M)' = Id(M) /\ uid'[M] = uid[M]
    BY Zenon, <2>1, <1>x DEF SameLocal, Id
  <2>3. Claimed(M) /\ Id(M) \in Ids
    BY Zenon, <2>2, JailerAssumption DEF ShapeInv, Shape, HoldPcs, ResolvedPcs,
       Claimed, ClaimPcs, Id, RequestType
  <2>4. ~(TruncateRegistry(L) /\ Id(M) = Id(L) /\ LineOf(Id(M))' = uid[L])
    <3>1. SUFFICES ASSUME TruncateRegistry(L), Id(M) = Id(L),
                          LineOf(Id(M))' = uid[L]
                   PROVE  FALSE
      OBVIOUS
    <3>2. uid[L] # NoUid
      BY <3>1, <1>x, <2>2
    <3>3. Claimed(L)
      BY Zenon, <3>1, <3>2 DEF TruncateRegistry, ShapeInv, Shape, RegistryPcs,
         Claimed, ClaimPcs
    <3>4. QED
      BY <3>1, <3>3, <2>3, <1>1, ClaimUnique
  <2>5. LineOf(Id(M)) = uid[M]
    BY Zenon, <2>2, <2>3, <2>4, <1>x, LineStep
  <2>6. QED
    BY Zenon, <2>1, <2>2, <2>5 DEF SameLocal, Exclusive
<1>2. CASE M = L
  <2>1. /\ uid'[L] = uid[L] /\ fd'[L] = fd[L] /\ req'[L] = req[L]
        /\ CloseRegistry(L) \/ pc[L] \in ResolvedPcs
    BY Zenon, <1>2, <1>x, ActorEffects DEF ShapeInv, ResolvedEffect
  <2>2. CASE pc[L] \in ResolvedPcs
    <3>1. Id(L)' = Id(L) /\ Id(L) \in Ids /\ ~TruncateRegistry(L)
      BY Zenon, <2>1, <2>2, JailerAssumption DEF ShapeInv, Shape, ResolvedPcs, Id,
         RequestType, TruncateRegistry
    <3>2. LineOf(Id(L)) = uid[L]
      BY Zenon, <1>2, <1>x, <2>1, <3>1, LineStep
    <3>3. QED
      BY Zenon, <1>2, <1>x, <2>1, <2>2, <3>2 DEF Exclusive
  <2>3. QED
    BY <1>2, <2>1, <2>2
<1>3. QED
  BY Zenon, <1>1, <1>2

\* Who is past the probes of refuse_live_shared_uid has met every live
\* instance with its uid.
LEMMA ProbesStep ==
    ASSUME TypeOK, ShapeInv, ClaimInv, RegistryCopy, ProbesComplete,
           NEW L \in Launches, ProcessNext(L)
    PROVE  ProbesComplete'
<1>1. SUFFICES ASSUME NEW A \in Launches, NEW B \in Launches,
                      pc'[A] \in ProbePcs, ~req'[A].shared,
                      Exclusive(B)', uid'[B] = uid'[A]
               PROVE  \/ Id(B)' \in todo'[A]
                      \/ pc'[A] = "probe_flock" /\ probe'[A] = fd'[B]
  BY DEF ProbesComplete
<1>2. /\ uid'[B] = uid[B] /\ fd'[B] = fd[B] /\ req'[B] = req[B]
      /\ Id(B)' = Id(B)
      /\ Exclusive(B) \/ (B = L /\ CloseRegistry(L))
  BY Zenon, <1>1, ExclusiveStep DEF Id
<1>t. /\ pc \in [Launches -> Pcs] /\ todo \in [Launches -> SUBSET Ids]
      /\ probe \in [Launches -> Inodes \cup {NoInode}]
      /\ regLock \in Launches \cup {NoLaunch}
  BY DEF TypeOK
<1>3. CASE A # L
  <2>1. SameLocal(A)
    BY <1>3, LocalStep
  <2>2. regLock = A
    BY <1>1, <2>1 DEF SameLocal, ShapeInv, Shape, ProbePcs, RegistryPcs
  <2>3. ~CloseRegistry(L)
    BY Zenon, <1>3, <2>2 DEF CloseRegistry, ShapeInv, Shape, RegistryPcs
  <2>4. QED
    BY Zenon, <1>1, <1>2, <2>1, <2>3 DEF SameLocal, ProbesComplete
<1>4. CASE A = L
  <2>1. B # L
    BY <1>1, <1>4 DEF Exclusive, ResolvedPcs, ProbePcs
  <2>2. Exclusive(B) /\ Claimed(B) /\ path[Id(B)] = fd[B] /\ fd[B] # NoInode
        /\ pc[B] # "flock" /\ Id(B) \in Ids /\ LineOf(Id(B)) = uid[B]
    <3>1. Exclusive(B) /\ Claimed(B)
      BY Zenon, <1>2, <2>1, ExclusiveClaimed
    <3>2. QED
      BY Zenon, <3>1, JailerAssumption DEF Exclusive, ResolvedPcs, Claimed, ClaimInv,
         ClaimsThePath, ShapeInv, Shape, Id, RequestType
  <2>e. ProbeEffect(L)
    BY ActorEffects DEF ShapeInv
  <2>3. CASE WriteRegistry(L)
    <3>1. req[L].kind # "teardown" /\ uid' = uid
      BY Zenon, <1>1, <1>4, <2>3, <1>t DEF WriteRegistry, Goto, ProbePcs
    <3>2. regLock = L /\ pc[L] = "write" /\ fd[L] # NoInode
      BY Zenon, <2>3, <3>1 DEF WriteRegistry, ShapeInv, Shape, RegistryPcs
    <3>3. lines[L][Id(B)] = uid[L]
      BY Zenon, <1>1, <1>2, <1>4, <2>2, <3>1, <3>2, JailerAssumption DEF LineOf
    <3>4. Claimed(L)
      BY <3>2 DEF Claimed, ClaimPcs, RegistryPcs
    <3>5. Id(B) # Id(L)
      BY <3>4, <2>1, <2>2, ClaimUnique
    <3>6. todo'[L] = {id \in Ids \ {Id(L)} : lines[L][id] = uid[L]}
      BY Zenon, <2>3, <3>1, <1>t DEF WriteRegistry
    <3>7. QED
      BY Zenon, <1>2, <1>4, <2>2, <3>3, <3>5, <3>6
  <2>4. ASSUME NEW id \in Ids, ProbeOpen(L, id)
        PROVE  \/ Id(B) \in todo'[L]
               \/ pc'[L] = "probe_flock" /\ probe'[L] = fd[B]
    <3>1. Id(B) \in todo[L]
      BY Zenon, <2>4, <1>1, <1>2, <1>4, <2>2 DEF ProbesComplete, ProbeOpen, ProbePcs
    <3>2. QED
      BY Zenon, <2>4, <2>2, <3>1, <1>t DEF ProbeOpen, Goto
  <2>5. CASE ProbeFree(L)
    <3>1. probe[L] # fd[B]
      BY Zenon, <2>5, <2>2 DEF ProbeFree, Held, Locks
    <3>2. Id(B) \in todo[L]
      BY Zenon, <2>5, <3>1, <1>1, <1>2, <1>4, <2>2 DEF ProbesComplete, ProbeFree,
         ProbePcs
    <3>3. QED
      BY Zenon, <1>2, <1>4, <2>5, <3>2 DEF ProbeFree
  <2>6. CASE ProbeHeld(L)
    BY Zenon, <1>1, <1>4, <2>6, <1>t DEF ProbeHeld, Exit, Goto, ProbePcs
  <2>7. CASE ProbeDrop(L)
    <3>1. Id(B) \in todo[L]
      BY Zenon, <2>7, <1>1, <1>2, <1>4, <2>2 DEF ProbesComplete, ProbeDrop, ProbePcs
    <3>2. QED
      BY Zenon, <1>2, <1>4, <2>7, <3>1 DEF ProbeDrop
  <2>8. QED
    BY Zenon, <1>1, <1>2, <1>4, <2>e, <2>3, <2>4, <2>5, <2>6, <2>7 DEF ProbeEffect
<1>5. QED
  BY Zenon, <1>3, <1>4

\* Resolved, registered uids stay different.
LEMMA DisjointStep ==
    ASSUME TypeOK, ShapeInv, ClaimInv, UidInv, NEW L \in Launches,
           ProcessNext(L)
    PROVE  UidsDisjoint'
<1>1. ASSUME NEW A \in Launches, NEW B \in Launches, A # B,
             Exclusive(A)', Exclusive(B)', uid'[A] = uid'[B], Exclusive(B)
      PROVE  FALSE
  <2>1. /\ uid'[A] = uid[A] /\ req'[A] = req[A]
        /\ Exclusive(A) \/ (A = L /\ CloseRegistry(L))
        /\ uid'[B] = uid[B]
    BY <1>1, ExclusiveStep DEF UidInv
  <2>2. CASE Exclusive(A)
    BY Zenon, <1>1, <2>1, <2>2 DEF UidInv, UidsDisjoint
  <2>3. CASE A = L /\ CloseRegistry(L)
    BY Zenon, <1>1, <2>1, <2>3 DEF UidInv, ProbesComplete, CloseRegistry, ProbePcs,
       Exclusive
  <2>4. QED
    BY <2>1, <2>2, <2>3
<1>2. SUFFICES ASSUME NEW A \in Launches, NEW B \in Launches, A # B,
                      Exclusive(A)', Exclusive(B)', uid'[A] = uid'[B]
               PROVE  FALSE
  BY DEF UidsDisjoint
<1>3. Exclusive(A) \/ A = L
  BY <1>2, ExclusiveStep DEF UidInv
<1>4. Exclusive(B) \/ B = L
  BY <1>2, ExclusiveStep DEF UidInv
<1>5. QED
  BY <1>1, <1>2, <1>3, <1>4

-----------------------------------------------------------------------------
(***************************************************************************)
(* Theorems                                                                *)
(***************************************************************************)
JailerInv == TypeOK /\ ShapeInv /\ ClaimInv /\ UidInv

\* An empty work root satisfies the invariant.
LEMMA InvInit == Init => JailerInv
<1> SUFFICES ASSUME Init PROVE JailerInv
  OBVIOUS
<1> USE JailerAssumption DEF Init
<1>1. TypeOK
  <2>1. pc \in [Launches -> Pcs]
    BY DEF Pcs
  <2>2. tries \in [Launches -> 0 .. LockTries - 1]
    BY SMT
  <2>3. lines \in [Launches -> Registries] /\ reg \in Registries
    BY NoLinesType
  <2>4. QED
    BY Zenon, <2>1, <2>2, <2>3 DEF TypeOK
<1>2. ShapeInv
  BY DEF ShapeInv, Shape, BeforeLockPcs, HoldPcs, RegistryPcs, ResolvedPcs,
     ProbePcs, TeardownPcs, AcquirePcs
<1>3. ClaimInv
  BY DEF ClaimInv, FlockExclusive, ClaimsThePath, Claimed, ClaimPcs,
     RegistryPcs, ResolvedPcs
<1>4. UidInv
  BY Zenon DEF UidInv, RegistryCopy, ProbesComplete, UidsDisjoint, Exclusive,
     ProbePcs, ResolvedPcs
<1>5. QED
  BY <1>1, <1>2, <1>3, <1>4 DEF JailerInv

\* Every step of every jailer process and daemon keeps the invariant.
LEMMA InvStep == JailerInv /\ [Next]_vars => JailerInv'
<1>1. ASSUME JailerInv, NEW L \in Launches, ProcessNext(L) PROVE JailerInv'
  <2> USE <1>1
  <2>1. TypeOK' /\ ShapeInv' /\ ClaimInv'
    BY TypeStep, ShapeStep, ClaimStep DEF JailerInv, ShapeInv
  <2>2. RegistryCopy' /\ ProbesComplete' /\ UidsDisjoint'
    BY CopyStep, ProbesStep, DisjointStep DEF JailerInv, UidInv
  <2>3. QED
    BY <2>1, <2>2 DEF JailerInv, UidInv
<1>2. ASSUME JailerInv, UNCHANGED vars PROVE JailerInv'
  <2> USE <1>2 DEF JailerInv, vars
  <2>1. TypeOK'
    BY DEF TypeOK
  <2>2. ShapeInv'
    BY DEF ShapeInv, Shape
  <2>3. ClaimInv'
    BY Zenon DEF ClaimInv, FlockExclusive, ClaimsThePath, Claimed, Id
  <2>4. RegistryCopy'
    BY Zenon DEF UidInv, RegistryCopy, Id
  <2>5. ASSUME NEW L \in Launches PROVE Exclusive(L)' <=> Exclusive(L)
    BY DEF Exclusive, LineOf, Id
  <2>6. ProbesComplete' /\ UidsDisjoint'
    BY Zenon, <2>5 DEF UidInv, ProbesComplete, UidsDisjoint, Id
  <2>7. QED
    BY <2>1, <2>2, <2>3, <2>4, <2>6 DEF UidInv
<1>3. QED
  BY <1>1, <1>2 DEF Next

\* The inductive invariant of the jailer: types, shapes, the instance claims
\* and the uids resolved in the registry.
THEOREM Invariance == Spec => []JailerInv
BY InvInit, InvStep, PTL DEF Spec

\* Every variable keeps its type, whatever the processes do.
THEOREM TypeCorrect == Spec => []TypeOK
<1>1. JailerInv => TypeOK
  BY DEF JailerInv
<1>2. QED
  BY <1>1, Invariance, PTL

\* A live daemon holds the claim of its instance, through its jailer or through
\* the descriptor it inherited.
LEMMA LiveClaimed ==
    ASSUME ShapeInv, NEW L \in Launches, Live(L)
    PROVE  Claimed(L)
BY DEF ShapeInv, Shape, Live, Claimed, ClaimPcs, HoldPcs, ResolvedPcs

\* At most one daemon lives per instance id: a live daemon holds the flock of
\* the inode its id's path names, and that flock has one owner.
THEOREM InstanceExclusive == Spec => []OneLivePerId
<1>1. JailerInv => OneLivePerId
  BY LiveClaimed, ClaimUnique DEF JailerInv, OneLivePerId
<1>2. QED
  BY <1>1, Invariance, PTL

\* Live daemons that did not ask to share and whose lines are in the registry
\* run under different uids.
THEOREM UidExclusive == Spec => []RegisteredUidExclusive
<1>1. ASSUME JailerInv PROVE RegisteredUidExclusive
  <2>1. SUFFICES ASSUME NEW L \in Launches, NEW M \in Launches,
                        Live(L), Live(M), L # M,
                        Registered(L), Registered(M),
                        ~req[L].shared, ~req[M].shared
                 PROVE  uid[L] # uid[M]
    BY DEF RegisteredUidExclusive
  <2>2. pc[L] \in ResolvedPcs /\ pc[M] \in ResolvedPcs
    BY <1>1, <2>1 DEF JailerInv, ShapeInv, Shape, Live, ResolvedPcs
  <2>3. Id(L) \in Ids /\ Id(M) \in Ids
    BY <1>1, <2>2, JailerAssumption DEF JailerInv, ShapeInv, Shape,
       ResolvedPcs, Id, RequestType
  <2>4. regLock = NoLaunch \/ pc[regLock] # "write"
    <3>1. SUFFICES ASSUME regLock # NoLaunch, pc[regLock] = "write"
                   PROVE  FALSE
      OBVIOUS
    <3>2. regLock \in Launches
      BY <1>1, <3>1 DEF JailerInv, TypeOK
    <3>3. reg = NoLines
      BY <1>1, <3>1, <3>2 DEF JailerInv, UidInv, RegistryCopy
    <3>4. QED
      BY <2>1, <2>3, <3>3 DEF Registered, NoLines
  <2>5. Exclusive(L) /\ Exclusive(M)
    BY <2>1, <2>2, <2>4 DEF Exclusive, LineOf, Registered
  <2>6. QED
    BY <1>1, <2>1, <2>5 DEF JailerInv, UidInv, UidsDisjoint
<1>2. QED
  BY <1>1, Invariance, PTL

-----------------------------------------------------------------------------
(***************************************************************************)
(* The files of a live instance                                            *)
(***************************************************************************)
\* No step touches the files of a live daemon, but for an unclaimed teardown.
LEMMA FilesStep ==
    ASSUME JailerInv, Next, NEW M \in Launches, Live(M), Live(M)'
    PROVE  \/ InstanceFilesKept(M)
           \/ \E T \in Launches : UnclaimedTeardown(T) /\ Id(T) = Id(M)
<1>1. PICK L \in Launches : ProcessNext(L)
  BY DEF Next
<1>2. FilesEffect(L)
  BY <1>1, ActorFiles DEF JailerInv, ShapeInv
<1>3. CASE UNCHANGED <<dir, sock, profile>>
  BY <1>3 DEF InstanceFilesKept
<1>4. CASE M = L
  BY <1>2, <1>3, <1>4 DEF FilesEffect
<1>5. CASE M # L /\ ~UNCHANGED <<dir, sock, profile>>
  <2>1. Claimed(M) /\ Id(M) \in Ids
    BY Zenon, LiveClaimed, JailerAssumption DEF JailerInv, ShapeInv, Shape, Live, Id,
       RequestType
  <2>2. CASE Id(M) = Id(L)
    <3>1. UnclaimedTeardown(L)
      BY <1>2, <1>5, <2>1, <2>2, ClaimUnique DEF FilesEffect, JailerInv
    <3>2. QED
      BY <2>2, <3>1
  <2>3. CASE Id(M) # Id(L)
    <3>1. /\ dir'[Id(M)] = dir[Id(M)] /\ sock'[Id(M)] = sock[Id(M)]
          /\ profile'[Id(M)] = profile[Id(M)]
      BY <1>2, <1>5, <2>1, <2>3 DEF FilesEffect, JailerInv, TypeOK
    <3>2. QED
      BY Zenon, <3>1 DEF InstanceFilesKept
  <2>4. QED
    BY <2>2, <2>3
<1>6. QED
  BY <1>3, <1>4, <1>5

\* While a daemon lives nobody removes or replaces its work dir, its bound
\* socket or its profile, except a teardown that found no lock file.
THEOREM FilesKept == Spec => LiveFilesKept
<1> DEFINE Kept ==
      \A L \in Launches :
          Live(L) /\ Live(L)' =>
             \/ InstanceFilesKept(L)
             \/ \E T \in Launches : UnclaimedTeardown(T) /\ Id(T) = Id(L)
<1>1. JailerInv /\ [Next]_vars => [Kept]_vars
  BY FilesStep
<1>2. QED
  BY <1>1, Invariance, PTL DEF Spec, LiveFilesKept
-----------------------------------------------------------------------------
(***************************************************************************)
(* The instance locks implement exclusive claims                           *)
(***************************************************************************)
\* Who claims an id changes only if the claim of the acting process does.
LEMMA OwnersStep ==
    ASSUME JailerInv, NEW L \in Launches, ProcessNext(L), NEW id \in Ids
    PROVE  ClaimsOf(id)' =
             (ClaimsOf(id) \ {L}) \cup
             (IF Claimed(L)' /\ Id(L)' = id THEN {L} ELSE {})
<1>1. ASSUME NEW M \in Launches \ {L}
      PROVE  (Claimed(M) /\ Id(M) = id)' <=> (Claimed(M) /\ Id(M) = id)
  <2>1. SameLocal(M)
    BY LocalStep DEF JailerInv
  <2>2. QED
    BY <2>1 DEF SameLocal, Claimed, Id
<1>2. QED
  BY <1>1 DEF ClaimsOf

Owners == [id \in Ids |-> ClaimsOf(id)]

\* Every step takes one claim, gives one up, or leaves all claims alone.
LEMMA ClaimsStep ==
    ASSUME JailerInv, NEW L \in Launches, ProcessNext(L)
    PROVE  Claims!Next \/ UNCHANGED Owners
<1>e. ClaimEffect(L)
  BY ActorEffects DEF JailerInv, ShapeInv
<1>i. ASSUME NEW M \in Launches, Claimed(M) PROVE Id(M) \in Ids
  BY <1>i, JailerAssumption DEF JailerInv, ShapeInv, Shape, Id, RequestType,
     Claimed, ClaimPcs, RegistryPcs, ResolvedPcs
<1>1. CASE ~Claimed(L) /\ ~Claimed(L)'
  <2>1. \A id \in Ids : ClaimsOf(id)' = ClaimsOf(id)
    BY <1>1, OwnersStep DEF ClaimsOf
  <2>2. QED
    BY <2>1 DEF Owners
<1>2. CASE Claimed(L) /\ Claimed(L)'
  <2>1. Id(L)' = Id(L)
    BY <1>2, <1>e DEF ClaimEffect, Claimed, Id
  <2>2. \A id \in Ids : ClaimsOf(id)' = ClaimsOf(id)
    BY <1>2, <2>1, OwnersStep DEF ClaimsOf
  <2>3. QED
    BY <2>2 DEF Owners
<1>3. CASE Claimed(L) /\ ~Claimed(L)'
  <2>1. ClaimsOf(Id(L)) = {L}
    BY <1>3, ClaimUnique DEF ClaimsOf, JailerInv
  <2>2. \A id \in Ids :
          ClaimsOf(id)' = IF id = Id(L) THEN {} ELSE ClaimsOf(id)
    BY <1>3, <2>1, OwnersStep DEF ClaimsOf
  <2>3. Owners[Id(L)] = {L} /\ Owners' = [Owners EXCEPT ![Id(L)] = {}]
    BY Zenon, <1>3, <1>i, <2>1, <2>2 DEF Owners
  <2>4. Claims!Release(L, Id(L))
    BY <2>3 DEF Claims!Release, Owners
  <2>5. QED
    BY <1>3, <1>i, <2>4 DEF Claims!Next
<1>4. CASE ~Claimed(L) /\ Claimed(L)'
  <2>1. RecheckSame(L) /\ Id(L)' = Id(L) /\ fd[L] # NoInode
    BY <1>4, <1>e DEF ClaimEffect, Claimed, Id
  <2>2. Id(L) \in Ids
    BY Zenon, <2>1, JailerAssumption DEF JailerInv, ShapeInv, Shape, Id, RequestType,
       RecheckSame
  <2>3. ClaimsOf(Id(L)) = {}
    <3>1. SUFFICES ASSUME NEW M \in Launches, Claimed(M), Id(M) = Id(L)
                   PROVE  FALSE
      BY DEF ClaimsOf
    <3>2. fd[M] = fd[L] /\ pc[L] = "recheck" /\ pc[M] # "flock" /\ M # L
      BY Zenon, <1>4, <2>1, <3>1 DEF RecheckSame, JailerInv, ClaimInv, ClaimsThePath,
         Claimed, ClaimPcs, RegistryPcs, ResolvedPcs
    <3>3. QED
      BY <2>1, <3>2 DEF JailerInv, ClaimInv, FlockExclusive
  <2>4. \A id \in Ids :
          ClaimsOf(id)' = IF id = Id(L) THEN {L} ELSE ClaimsOf(id)
    BY <1>4, <2>1, <2>3, OwnersStep DEF ClaimsOf
  <2>5. Owners[Id(L)] = {} /\ Owners' = [Owners EXCEPT ![Id(L)] = {L}]
    BY Zenon, <2>2, <2>3, <2>4 DEF Owners
  <2>6. Claims!Claim(L, Id(L))
    BY <2>5 DEF Claims!Claim, Owners
  <2>7. QED
    BY <2>2, <2>6 DEF Claims!Next
<1>5. QED
  BY <1>1, <1>2, <1>3, <1>4

\* The instance locks are exclusive claims: an id passes to a new invocation
\* only after the last process that held its lock, or a teardown, gave it up.
THEOREM ClaimsImplemented == Spec => ImplementsClaims
<1>1. Init => Claims!Init
  BY DEF Init, Claims!Init, ClaimsOf, Claimed, ClaimPcs, RegistryPcs,
     ResolvedPcs
<1>2. JailerInv /\ [Next]_vars => [Claims!Next]_Owners
  <2>1. ASSUME JailerInv, Next PROVE Claims!Next \/ UNCHANGED Owners
    BY <2>1, ClaimsStep DEF Next
  <2>2. ASSUME UNCHANGED vars PROVE UNCHANGED Owners
    BY <2>2 DEF vars, Owners, ClaimsOf, Claimed, Id
  <2>3. QED
    BY <2>1, <2>2
<1>3. QED
  BY <1>1, <1>2, Invariance, PTL DEF Spec, ImplementsClaims, Claims!Spec, Owners
=============================================================================
