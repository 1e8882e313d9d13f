-------------------------------- MODULE Jailer --------------------------------
(***************************************************************************)
(* hephaestus-jailer: concurrent invocations over one work root.           *)
(*                                                                         *)
(* An invocation claims its instance id with flock(2) on .<id>.lock,       *)
(* resolves the uid it runs as inside the registry's critical section,     *)
(* prepares the per-VM files, and spawns the daemon, which inherits the    *)
(* lock's open file description.  --teardown removes all of it again.      *)
(* Every system call another process can observe is a step of its own; any *)
(* process may die between two of them.                                    *)
(*                                                                         *)
(* Inodes are modelled so that unlinking and re-creating a lock file gives *)
(* a different lock: a new file takes an inode that no path names and no   *)
(* process has open, so the file system recycles inode numbers at once.    *)
(***************************************************************************)
EXTENDS UidRegistry

CONSTANTS
    Launches,     \* slots for jailer processes, with the daemon each spawns
    NoLaunch,
    Inodes,       \* inodes for lock files
    NoInode,
    Requests,     \* the command lines that may be issued
    NoRequest,
    NoDir,        \* the per-VM work dir does not exist
    NoSock,       \* no api.sock in the work dir
    StaleSock,    \* an api.sock whose daemon is gone
    LockTries     \* rounds of the loop in acquire_instance_lock (3)

\* A command line: launch, --generate-launchd-plist or --teardown; base stands
\* for --uid-base, uid for an explicit --uid/--user (they exclude each other).
\* A launch that drops only the gid, or nothing, has neither.
RequestType ==
    [kind : {"launch", "plist", "teardown"}, id : Ids, base : BOOLEAN,
     uid : Uids \cup {NoUid}, shared : BOOLEAN, clean : BOOLEAN]

ASSUME JailerAssumption ==
    /\ NoLaunch \notin Launches
    /\ NoInode \notin Inodes
    /\ Requests \subseteq RequestType
    /\ \A r \in Requests : r.base => r.uid = NoUid
    /\ NoRequest \notin Requests
    /\ NoDir \notin Uids \cup {NoUid}
    /\ {NoSock, StaleSock} \cap Launches = {}
    /\ NoSock # StaleSock
    /\ LockTries \in Nat \ {0}

VARIABLES
    pc,        \* where each jailer process is
    req,       \* the command line of each process
    fd,        \* inode behind the process's instance-lock descriptor
    tries,     \* failed rounds of acquire_instance_lock
    uid,       \* Plan.target_uid
    lines,     \* Registry.entries: the registry as this process read it
    todo,      \* ids refuse_live_shared_uid has yet to probe
    probe,     \* inode the liveness probe has open
    daemon,    \* none, starting, serving or dead
    path,      \* inode that .<id>.lock names
    reg,       \* contents of .uid-allocations
    regFile,   \* whether .uid-allocations exists
    regLock,   \* holder of the registry's flock
    dir,       \* owner of <root>/<id>: NoUid for the invoking user
    sock,      \* daemon that bound <root>/<id>/api.sock
    profile    \* whether .<id>.sandbox.profile exists

procVars == <<pc, req, fd, tries, uid, lines, todo, probe, daemon>>
fileVars == <<path, reg, regFile, dir, sock, profile>>
vars == <<pc, req, fd, tries, uid, lines, todo, probe, daemon,
          path, reg, regFile, regLock, dir, sock, profile>>

AcquirePcs == {"open", "flock", "chmod", "recheck"}
RegistryPcs == {"truncate", "write", "probe", "probe_flock", "probe_drop"}
ResolvedPcs == {"files", "run", "handler", "wait", "orphaned"}
TeardownPcs == {"td_check", "td_files", "td_registry", "td_unlink", "td_drop"}
Pcs == {"idle", "registry"} \cup AcquirePcs \cup RegistryPcs
         \cup ResolvedPcs \cup TeardownPcs

TypeOK ==
    /\ pc \in [Launches -> Pcs]
    /\ req \in [Launches -> Requests \cup {NoRequest}]
    /\ fd \in [Launches -> Inodes \cup {NoInode}]
    /\ tries \in [Launches -> 0 .. LockTries - 1]
    /\ uid \in [Launches -> Uids \cup {NoUid}]
    /\ lines \in [Launches -> Registries]
    /\ todo \in [Launches -> SUBSET Ids]
    /\ probe \in [Launches -> Inodes \cup {NoInode}]
    /\ daemon \in [Launches -> {"none", "starting", "serving", "dead"}]
    /\ path \in [Ids -> Inodes \cup {NoInode}]
    /\ reg \in Registries
    /\ regFile \in BOOLEAN
    /\ regLock \in Launches \cup {NoLaunch}
    /\ dir \in [Ids -> Uids \cup {NoUid, NoDir}]
    /\ sock \in [Ids -> Launches \cup {NoSock, StaleSock}]
    /\ profile \in [Ids -> BOOLEAN]

Init ==
    /\ pc = [L \in Launches |-> "idle"]
    /\ req = [L \in Launches |-> NoRequest]
    /\ fd = [L \in Launches |-> NoInode]
    /\ tries = [L \in Launches |-> 0]
    /\ uid = [L \in Launches |-> NoUid]
    /\ lines = [L \in Launches |-> NoLines]
    /\ todo = [L \in Launches |-> {}]
    /\ probe = [L \in Launches |-> NoInode]
    /\ daemon = [L \in Launches |-> "none"]
    /\ path = [id \in Ids |-> NoInode]
    /\ reg = NoLines
    /\ regFile = FALSE
    /\ regLock = NoLaunch
    /\ dir = [id \in Ids |-> NoDir]
    /\ sock = [id \in Ids |-> NoSock]
    /\ profile = [id \in Ids |-> FALSE]
-----------------------------------------------------------------------------
(***************************************************************************)
(* Helpers                                                                 *)
(***************************************************************************)
Id(L) == req[L].id
Live(L) == daemon[L] \in {"starting", "serving"}

\* The descriptor of L holds the exclusive flock of inode i.  The lock belongs
\* to the open file description, so it outlives the jailer in its daemon.
Locks(L, i) == fd[L] = i /\ pc[L] # "flock"

\* What a non-blocking flock attempt on inode i observes as EWOULDBLOCK.
Held(i) == \E L \in Launches :
    Locks(L, i) \/ (probe[L] = i /\ pc[L] = "probe_drop")

\* The inodes the file system may give to a new file, and the one it gives.
Unused ==
    {i \in Inodes :
        /\ \A id \in Ids : path[id] # i
        /\ \A L \in Launches : fd[L] # i /\ probe[L] # i}

NewInode == CHOOSE i \in Unused : TRUE

Goto(L, to) == pc' = [pc EXCEPT ![L] = to]

\* The process is gone and no daemon holds its descriptors: its locks are
\* released, the files stay as they are.
Exit(L) ==
    /\ Goto(L, "idle")
    /\ req' = [req EXCEPT ![L] = NoRequest]
    /\ fd' = [fd EXCEPT ![L] = NoInode]
    /\ tries' = [tries EXCEPT ![L] = 0]
    /\ uid' = [uid EXCEPT ![L] = NoUid]
    /\ lines' = [lines EXCEPT ![L] = NoLines]
    /\ todo' = [todo EXCEPT ![L] = {}]
    /\ probe' = [probe EXCEPT ![L] = NoInode]
    /\ daemon' = [daemon EXCEPT ![L] = "none"]
    /\ regLock' = IF regLock = L THEN NoLaunch ELSE regLock

Start(L, r) ==
    /\ pc[L] = "idle"
    /\ req' = [req EXCEPT ![L] = r]
    /\ Goto(L, IF r.kind = "teardown" THEN "td_check" ELSE "open")
    /\ UNCHANGED <<fd, tries, uid, lines, todo, probe, daemon, regLock>>
    /\ UNCHANGED fileVars
-----------------------------------------------------------------------------
(***************************************************************************)
(* acquire_instance_lock                                                   *)
(***************************************************************************)
OpenLock(L) ==
    /\ pc[L] = "open"
    /\ \/ /\ path[Id(L)] # NoInode
          /\ fd' = [fd EXCEPT ![L] = path[Id(L)]]
          /\ UNCHANGED path
       \/ /\ path[Id(L)] = NoInode
          /\ Unused # {}
          /\ fd' = [fd EXCEPT ![L] = NewInode]
          /\ path' = [path EXCEPT ![Id(L)] = NewInode]
    /\ Goto(L, "flock")
    /\ UNCHANGED <<req, tries, uid, lines, todo, probe, daemon, regLock>>
    /\ UNCHANGED <<reg, regFile, dir, sock, profile>>

\* Mutant: a teardown goes on when the lock is held.
MutTeardownForces(L) ==
    /\ pc[L] = "flock"
    /\ ~Held(fd[L]) \/ req[L].kind = "teardown"
    /\ Goto(L, "chmod")
    /\ UNCHANGED <<req, fd, tries, uid, lines, todo, probe, daemon, regLock>>
    /\ UNCHANGED fileVars

FlockInstance(L) ==
    /\ pc[L] = "flock"
    /\ ~Held(fd[L])
    /\ Goto(L, "chmod")
    /\ UNCHANGED <<req, fd, tries, uid, lines, todo, probe, daemon, regLock>>
    /\ UNCHANGED fileVars

\* EWOULDBLOCK: the error InstanceBusy.
InstanceBusy(L) ==
    /\ pc[L] = "flock"
    /\ Held(fd[L])
    /\ Exit(L)
    /\ UNCHANGED fileVars

\* set_permissions goes by path, so it fails if the file has been unlinked.
ChmodLock(L) ==
    /\ pc[L] = "chmod"
    /\ \/ /\ path[Id(L)] # NoInode
          /\ Goto(L, "recheck")
          /\ UNCHANGED <<req, fd, tries, uid, lines, todo, probe, daemon,
                         regLock>>
       \/ /\ path[Id(L)] = NoInode
          /\ Exit(L)
    /\ UNCHANGED fileVars

NeedsUid(r) == r.base \/ r.uid # NoUid

\* Mutant: the lock is taken for the claim without a look at the path.
MutNoRecheck(L) ==
    /\ pc[L] = "recheck"
    /\ Goto(L, IF req[L].kind = "teardown" THEN "td_files"
               ELSE IF NeedsUid(req[L]) THEN "registry" ELSE "files")
    /\ UNCHANGED <<req, fd, tries, uid, lines, todo, probe, daemon, regLock>>
    /\ UNCHANGED fileVars

\* The path still names the inode that is locked: the instance is claimed.
RecheckSame(L) ==
    /\ pc[L] = "recheck"
    /\ path[Id(L)] = fd[L]
    /\ Goto(L, IF req[L].kind = "teardown" THEN "td_files"
               ELSE IF NeedsUid(req[L]) THEN "registry" ELSE "files")
    /\ UNCHANGED <<req, fd, tries, uid, lines, todo, probe, daemon, regLock>>
    /\ UNCHANGED fileVars

\* It does not: close and retry, or give up after LockTries rounds.
RecheckChanged(L) ==
    /\ pc[L] = "recheck"
    /\ path[Id(L)] # fd[L]
    /\ \/ /\ tries[L] + 1 < LockTries
          /\ tries' = [tries EXCEPT ![L] = @ + 1]
          /\ fd' = [fd EXCEPT ![L] = NoInode]
          /\ Goto(L, "open")
          /\ UNCHANGED <<req, uid, lines, todo, probe, daemon, regLock>>
       \/ /\ tries[L] + 1 = LockTries
          /\ Exit(L)
    /\ UNCHANGED fileVars
-----------------------------------------------------------------------------
(***************************************************************************)
(* resolve_instance_identity and Registry::{open, upsert, rewrite}         *)
(***************************************************************************)
\* Registry::open creates the file, blocks for its flock and reads it; the
\* new line is then in memory only.
OpenRegistry(L, u) ==
    /\ regLock = NoLaunch
    /\ regLock' = L
    /\ regFile' = TRUE
    /\ uid' = [uid EXCEPT ![L] = u]
    /\ lines' = [lines EXCEPT ![L] = Upsert(reg, Id(L), u)]
    /\ Goto(L, "truncate")
    /\ UNCHANGED <<req, fd, tries, todo, probe, daemon>>
    /\ UNCHANGED <<path, reg, dir, sock, profile>>

AllocateUid(L) ==
    /\ pc[L] = "registry"
    /\ req[L].base
    /\ \E seen \in SUBSET PasswdUids :
          /\ Allocate(reg, Id(L), seen) # NoUid
          /\ OpenRegistry(L, Allocate(reg, Id(L), seen))

\* The error Exhausted.
UidsExhausted(L) ==
    /\ pc[L] = "registry"
    /\ req[L].base
    /\ regLock = NoLaunch
    /\ \E seen \in SUBSET PasswdUids : Allocate(reg, Id(L), seen) = NoUid
    /\ Exit(L)
    /\ regFile' = TRUE
    /\ UNCHANGED <<path, reg, dir, sock, profile>>

ExplicitUid(L) ==
    /\ pc[L] = "registry"
    /\ ~req[L].base
    /\ OpenRegistry(L, req[L].uid)

\* Registry::rewrite is not atomic: set_len(0), then write_all.
TruncateRegistry(L) ==
    /\ pc[L] = "truncate"
    /\ reg' = NoLines
    /\ Goto(L, "write")
    /\ UNCHANGED <<req, fd, tries, uid, lines, todo, probe, daemon, regLock>>
    /\ UNCHANGED <<path, regFile, dir, sock, profile>>

\* Mutant: nobody who shares the uid is probed.
MutNoProbe(L) ==
    /\ pc[L] = "write"
    /\ reg' = lines[L]
    /\ IF req[L].kind = "teardown"
       THEN /\ Goto(L, "td_unlink")
            /\ lines' = [lines EXCEPT ![L] = NoLines]
            /\ regLock' = NoLaunch
       ELSE /\ Goto(L, "probe")
            /\ UNCHANGED <<lines, regLock>>
    /\ UNCHANGED <<req, fd, tries, uid, todo, probe, daemon>>
    /\ UNCHANGED <<path, regFile, dir, sock, profile>>

WriteRegistry(L) ==
    /\ pc[L] = "write"
    /\ reg' = lines[L]
    /\ IF req[L].kind = "teardown"
       THEN /\ Goto(L, "td_unlink")
            /\ lines' = [lines EXCEPT ![L] = NoLines]
            /\ regLock' = NoLaunch
            /\ UNCHANGED todo
       ELSE /\ Goto(L, "probe")
            /\ todo' = [todo EXCEPT ![L] =
                          {id \in Ids \ {Id(L)} : lines[L][id] = uid[L]}]
            /\ UNCHANGED <<lines, regLock>>
    /\ UNCHANGED <<req, fd, tries, uid, probe, daemon>>
    /\ UNCHANGED <<path, regFile, dir, sock, profile>>
-----------------------------------------------------------------------------
(***************************************************************************)
(* refuse_live_shared_uid and instance_lock_held                           *)
(***************************************************************************)
\* The probe opens without create: no lock file means no live holder.
ProbeOpen(L, id) ==
    /\ pc[L] = "probe"
    /\ id \in todo[L]
    /\ todo' = [todo EXCEPT ![L] = @ \ {id}]
    /\ probe' = [probe EXCEPT ![L] = path[id]]
    /\ Goto(L, IF path[id] = NoInode THEN "probe" ELSE "probe_flock")
    /\ UNCHANGED <<req, fd, tries, uid, lines, daemon, regLock>>
    /\ UNCHANGED fileVars

\* The probe takes a free lock and gives it up when the descriptor is dropped.
ProbeFree(L) ==
    /\ pc[L] = "probe_flock"
    /\ ~Held(probe[L])
    /\ Goto(L, "probe_drop")
    /\ UNCHANGED <<req, fd, tries, uid, lines, todo, probe, daemon, regLock>>
    /\ UNCHANGED fileVars

ProbeDrop(L) ==
    /\ pc[L] = "probe_drop"
    /\ probe' = [probe EXCEPT ![L] = NoInode]
    /\ Goto(L, "probe")
    /\ UNCHANGED <<req, fd, tries, uid, lines, todo, daemon, regLock>>
    /\ UNCHANGED fileVars

\* A held lock is the error SharedUidLive, or a warning if sharing is allowed.
ProbeHeld(L) ==
    /\ pc[L] = "probe_flock"
    /\ Held(probe[L])
    /\ \/ /\ req[L].shared
          /\ probe' = [probe EXCEPT ![L] = NoInode]
          /\ Goto(L, "probe")
          /\ UNCHANGED <<req, fd, tries, uid, lines, todo, daemon, regLock>>
       \/ /\ ~req[L].shared
          /\ Exit(L)
    /\ UNCHANGED fileVars

\* Mutant: the registry stays open, and locked, while the daemon runs.
MutKeepsRegistry(L) ==
    /\ pc[L] = "probe"
    /\ todo[L] = {}
    /\ lines' = [lines EXCEPT ![L] = NoLines]
    /\ Goto(L, "files")
    /\ UNCHANGED <<req, fd, tries, uid, todo, probe, daemon, regLock>>
    /\ UNCHANGED fileVars

\* Returning drops the Registry and with it the registry's flock.
CloseRegistry(L) ==
    /\ pc[L] = "probe"
    /\ todo[L] = {}
    /\ regLock' = NoLaunch
    /\ lines' = [lines EXCEPT ![L] = NoLines]
    /\ Goto(L, "files")
    /\ UNCHANGED <<req, fd, tries, uid, todo, probe, daemon>>
    /\ UNCHANGED fileVars
-----------------------------------------------------------------------------
(***************************************************************************)
(* The rest of prepare, and run                                            *)
(***************************************************************************)
\* --clean-work-dir, create_dir_all, removal of a stale api.sock, and the
\* generated sandbox profile.
PrepareFiles(L) ==
    /\ pc[L] = "files"
    /\ dir' = [dir EXCEPT ![Id(L)] =
                  IF @ = NoDir \/ req[L].clean THEN NoUid ELSE @]
    /\ sock' = [sock EXCEPT ![Id(L)] = NoSock]
    /\ profile' = [profile EXCEPT ![Id(L)] = TRUE]
    /\ Goto(L, "run")
    /\ UNCHANGED <<req, fd, tries, uid, lines, todo, probe, daemon, regLock>>
    /\ UNCHANGED <<path, reg, regFile>>

\* --generate-launchd-plist returns from run, which drops the plan's lock.
EmitPlist(L) ==
    /\ pc[L] = "run"
    /\ req[L].kind = "plist"
    /\ Exit(L)
    /\ UNCHANGED fileVars

\* chown of the work dir to the target uid, then spawn.
Spawn(L) ==
    /\ pc[L] = "run"
    /\ req[L].kind = "launch"
    /\ uid[L] # NoUid => dir[Id(L)] # NoDir
    /\ dir' = [dir EXCEPT ![Id(L)] = IF uid[L] = NoUid THEN @ ELSE uid[L]]
    /\ daemon' = [daemon EXCEPT ![L] = "starting"]
    /\ Goto(L, "handler")
    /\ UNCHANGED <<req, fd, tries, uid, lines, todo, probe, regLock>>
    /\ UNCHANGED <<path, reg, regFile, sock, profile>>

ChownFails(L) ==
    /\ pc[L] = "run"
    /\ req[L].kind = "launch"
    /\ uid[L] # NoUid
    /\ dir[Id(L)] = NoDir
    /\ Exit(L)
    /\ UNCHANGED fileVars

\* CHILD_PGID.store and install_signal_forwarding.
InstallHandler(L) ==
    /\ pc[L] = "handler"
    /\ Goto(L, "wait")
    /\ UNCHANGED <<req, fd, tries, uid, lines, todo, probe, daemon, regLock>>
    /\ UNCHANGED fileVars

\* child.wait() returns; drop(plan) releases the instance lock.
Reap(L) ==
    /\ pc[L] = "wait"
    /\ daemon[L] = "dead"
    /\ Exit(L)
    /\ UNCHANGED fileVars
-----------------------------------------------------------------------------
(***************************************************************************)
(* The daemon, and process death                                           *)
(***************************************************************************)
\* The daemon enters the sandbox, unlinks a leftover socket and binds its own.
DaemonBind(L) ==
    /\ daemon[L] = "starting"
    /\ profile[Id(L)]
    /\ dir[Id(L)] # NoDir
    /\ daemon' = [daemon EXCEPT ![L] = "serving"]
    /\ sock' = [sock EXCEPT ![Id(L)] = L]
    /\ UNCHANGED <<pc, req, fd, tries, uid, lines, todo, probe, regLock>>
    /\ UNCHANGED <<path, reg, regFile, dir, profile>>

\* Leaves its socket file behind.
SocketOrphaned(L) ==
    sock' = [sock EXCEPT ![Id(L)] = IF @ = L THEN StaleSock ELSE @]

DaemonExit(L) ==
    /\ Live(L)
    /\ SocketOrphaned(L)
    /\ IF pc[L] = "orphaned"
       THEN Exit(L)
       ELSE /\ daemon' = [daemon EXCEPT ![L] = "dead"]
            /\ UNCHANGED <<pc, req, fd, tries, uid, lines, todo, probe,
                           regLock>>
    /\ UNCHANGED <<path, reg, regFile, dir, profile>>

\* The jailer process dies; a live daemon keeps its descriptors.
Die(L) ==
    /\ IF Live(L)
       THEN /\ Goto(L, "orphaned")
            /\ UNCHANGED <<req, fd, tries, uid, lines, todo, probe, daemon,
                           regLock>>
       ELSE Exit(L)
    /\ UNCHANGED fileVars

\* SIGKILL, or any I/O error that makes the jailer return early.
SigKill(L) ==
    /\ pc[L] \notin {"idle", "orphaned"}
    /\ Die(L)

\* Before the handlers are installed SIGTERM has its default action; after
\* that forward_termination passes it on to the daemon's process group.
SigTerm(L) ==
    \/ /\ pc[L] \notin {"idle", "orphaned", "wait"}
       /\ Die(L)
    \/ /\ pc[L] = "wait"
       /\ Live(L)
       /\ daemon' = [daemon EXCEPT ![L] = "dead"]
       /\ SocketOrphaned(L)
       /\ UNCHANGED <<pc, req, fd, tries, uid, lines, todo, probe, regLock>>
       /\ UNCHANGED <<path, reg, regFile, dir, profile>>
-----------------------------------------------------------------------------
(***************************************************************************)
(* teardown                                                                *)
(***************************************************************************)
\* No lock file: teardown goes on without a lock.
TeardownCheck(L) ==
    /\ pc[L] = "td_check"
    /\ Goto(L, IF path[Id(L)] = NoInode THEN "td_files" ELSE "open")
    /\ UNCHANGED <<req, fd, tries, uid, lines, todo, probe, daemon, regLock>>
    /\ UNCHANGED fileVars

\* Removes work dir, profile and logs; the registry is opened only if it exists.
TeardownFiles(L) ==
    /\ pc[L] = "td_files"
    /\ dir' = [dir EXCEPT ![Id(L)] = NoDir]
    /\ sock' = [sock EXCEPT ![Id(L)] = NoSock]
    /\ profile' = [profile EXCEPT ![Id(L)] = FALSE]
    /\ Goto(L, IF regFile THEN "td_registry" ELSE "td_unlink")
    /\ UNCHANGED <<req, fd, tries, uid, lines, todo, probe, daemon, regLock>>
    /\ UNCHANGED <<path, reg, regFile>>

\* Registry::remove rewrites only if the id had a line.
TeardownRegistry(L) ==
    /\ pc[L] = "td_registry"
    /\ regLock = NoLaunch
    /\ IF reg[Id(L)] = NoUid
       THEN /\ Goto(L, "td_unlink")
            /\ UNCHANGED <<lines, regLock>>
       ELSE /\ Goto(L, "truncate")
            /\ lines' = [lines EXCEPT ![L] = Remove(reg, Id(L))]
            /\ regLock' = L
    /\ UNCHANGED <<req, fd, tries, uid, todo, probe, daemon>>
    /\ UNCHANGED fileVars

\* The lock file is unlinked before the lock is released.
TeardownUnlink(L) ==
    /\ pc[L] = "td_unlink"
    /\ path' = [path EXCEPT ![Id(L)] = IF fd[L] # NoInode THEN NoInode ELSE @]
    /\ Goto(L, "td_drop")
    /\ UNCHANGED <<req, fd, tries, uid, lines, todo, probe, daemon, regLock>>
    /\ UNCHANGED <<reg, regFile, dir, sock, profile>>

TeardownDrop(L) ==
    /\ pc[L] = "td_drop"
    /\ Exit(L)
    /\ UNCHANGED fileVars
-----------------------------------------------------------------------------
\* A step the process takes by itself.
Step(L) ==
    \/ OpenLock(L) \/ FlockInstance(L) \/ InstanceBusy(L) \/ ChmodLock(L)
    \/ RecheckSame(L) \/ RecheckChanged(L)
    \/ AllocateUid(L) \/ UidsExhausted(L) \/ ExplicitUid(L)
    \/ TruncateRegistry(L) \/ WriteRegistry(L)
    \/ \E id \in Ids : ProbeOpen(L, id)
    \/ ProbeFree(L) \/ ProbeHeld(L) \/ ProbeDrop(L) \/ CloseRegistry(L)
    \/ PrepareFiles(L) \/ EmitPlist(L)
    \/ Spawn(L) \/ ChownFails(L) \/ InstallHandler(L) \/ Reap(L)
    \/ TeardownCheck(L) \/ TeardownFiles(L) \/ TeardownRegistry(L)
    \/ TeardownUnlink(L) \/ TeardownDrop(L)

\* What happens to it.
Event(L) == DaemonBind(L) \/ DaemonExit(L) \/ SigKill(L) \/ SigTerm(L)

ProcessNext(L) ==
    \/ \E r \in Requests : Start(L, r)
    \/ Step(L)
    \/ Event(L)

Next == \E L \in Launches : ProcessNext(L)

Spec == Init /\ [][Next]_vars

\* A runnable process is scheduled.  Nobody has to start one, kill one or make
\* a daemon exit.
FairSpec == Spec /\ \A L \in Launches : WF_vars(Step(L))
-----------------------------------------------------------------------------
(***************************************************************************)
(* Properties                                                              *)
(***************************************************************************)
ClaimPcs == {"registry", "td_files", "td_registry", "td_unlink"}
              \cup RegistryPcs \cup ResolvedPcs

\* The invocation, or the daemon it left behind, owns its instance.
Claimed(L) == pc[L] \in ClaimPcs /\ fd[L] # NoInode

ClaimsOf(id) == {L \in Launches : Claimed(L) /\ Id(L) = id}

\* Instance ids are exclusive claims: acquire_instance_lock returning Ok takes
\* the claim; the end of the last process with the descriptor, or the unlink
\* in teardown, gives it up.
Claims == INSTANCE ExclusiveClaims
    WITH Resources <- Ids, Clients <- Launches,
         owners <- [id \in Ids |-> ClaimsOf(id)]

ImplementsClaims == Claims!Spec

\* At most one daemon lives per instance id, whatever dies and whoever tears
\* the instance down in between: the flock on .<id>.lock, inherited by the
\* daemon and re-checked against the path, is the claim.
OneLivePerId ==
    \A L, M \in Launches :
        Live(L) /\ Live(M) /\ Id(L) = Id(M) => L = M

\* Two live daemons whose lines are in the registry run under different uids,
\* unless one of the launches passed --allow-shared-uid.  Registering before
\* probing, under one registry lock, is what resolve_instance_identity relies
\* on ("whichever enters the registry second sees the first's entry and its
\* held instance lock, and refuses").
Registered(L) == uid[L] # NoUid /\ reg[Id(L)] = uid[L]

RegisteredUidExclusive ==
    \A L, M \in Launches :
        /\ Live(L) /\ Live(M) /\ L # M
        /\ Registered(L) /\ Registered(M)
        /\ ~req[L].shared /\ ~req[M].shared
        => uid[L] # uid[M]

\* The same without asking for the registry lines: the jailer refuses to
\* launch while another live instance runs under the same uid.
LiveUidExclusive ==
    \A L, M \in Launches :
        /\ Live(L) /\ Live(M) /\ L # M
        /\ uid[L] # NoUid
        /\ ~req[L].shared /\ ~req[M].shared
        => uid[L] # uid[M]

\* A teardown that found no lock file and so holds no lock.
UnclaimedTeardown(T) ==
    /\ pc[T] \in TeardownPcs \ {"td_check"}
    /\ fd[T] = NoInode

\* While a daemon lives nobody removes or replaces its work dir, its bound
\* socket or its profile, except a teardown that runs without the lock.
InstanceFilesKept(L) ==
    /\ dir'[Id(L)] = dir[Id(L)]
    /\ profile'[Id(L)] = profile[Id(L)]
    /\ sock[Id(L)] = L => sock'[Id(L)] = L

LiveFilesKept ==
    [][\A L \in Launches :
          Live(L) /\ Live(L)' =>
             \/ InstanceFilesKept(L)
             \/ \E T \in Launches : UnclaimedTeardown(T) /\ Id(T) = Id(L)]_vars

\* Every invocation ends, or reaches the point where it waits for its daemon:
\* the instance locks, the blocking registry lock and the retry loop never
\* keep each other waiting.
InvocationsSettle ==
    \A L \in Launches :
        pc[L] # "idle" ~> pc[L] \in {"idle", "wait", "orphaned"}
=============================================================================
