------------------------------ MODULE Backend ------------------------------
(***************************************************************************)
(* VzBackend, the state behind the HTTP API of hephaestus-firecracker      *)
(* (src/hephaestus-firecracker/src/backend.rs).                            *)
(*                                                                         *)
(* A handler runs from start to end under the backend's mutex, on a        *)
(* current-thread runtime, and never awaits: each is one action here, with *)
(* one disjunct per outcome.  What a call of Virtualization.framework or   *)
(* of the file system may answer is a free choice.                         *)
(*                                                                         *)
(* Configuration objects are abstracted to whether they are set (boot      *)
(* source, root drive, secondary drives, interface, vsock) or to the value *)
(* a later check reads (memory size, balloon amount, MMDS document).       *)
(* Logger and metrics, which no handler reads, are left out.               *)
(***************************************************************************)
EXTENDS Naturals

CONSTANTS
    Memories,        \* mem_size_mib values a client may ask for
    DefaultMemory,   \* DEFAULT_MEM_SIZE_MIB
    Amounts,         \* balloon amount_mib values
    Documents,       \* MMDS documents
    EmptyDocument,   \* the MMDS document at startup
    PoolMemory,      \* memory_mib in the metadata of the pool at --pool-dir
    None

\* Devices a VM was built with: buildLongRunningConfig attaches a vsock device
\* and a balloon; agent pools snapshot a VM with vsock only; stock pools one
\* with neither.
Kinds == {"long", "agent", "stock"}
HasVsock(kind) == kind # "stock"
HasBalloon(kind) == kind = "long"

Modes == {"none", "nat", "vmnet"}

\* The VM as the framework sees it: whether it runs, the document its
\* listener on the MMDS port serves, and the last balloon target it was given.
VM == [run : {"running", "paused", "stopped"}, kind : Kinds,
       served : Documents \cup {None}, target : Nat \cup {None}]

Images == [kind : Kinds, memory : Memories, extra : BOOLEAN, mode : Modes]

ASSUME BackendAssumption ==
    /\ Memories \subseteq Nat \ {0}
    /\ DefaultMemory \in Memories
    /\ Amounts \subseteq Nat
    /\ EmptyDocument \in Documents
    /\ None \notin Documents \cup Nat \cup VM
    /\ None \notin {"ColdBoot", "SnapshotLoad", "Pool", "400", "500"}
    /\ PoolMemory \in Memories

VARIABLES
    flags,           \* the daemon's command line
    boot,            \* boot_source is set
    root,            \* root_drive is set
    extra,           \* extra_drives is not empty
    iface,           \* iface is set
    memory,          \* machine_config.mem_size_mib
    balloon,         \* balloon.amount_mib, or None
    vsock,           \* vsock is set
    mmds,            \* mmds
    mmdsShared,      \* mmds_shared, what the vmnet responder serves
    state,           \* state
    vm,              \* the VM behind self.vm, or None
    responder,       \* vmnet_mmds is set
    bridge,          \* vsock_bridge is set
    slot,            \* pool_slot is set
    origin,          \* origin
    saved,           \* the VM state file at snapshot_path, or None
    reply            \* the call the last step answered: [call, status]

configVars == <<boot, root, extra, iface, memory, balloon, vsock>>
mmdsVars == <<mmds, mmdsShared>>
liveVars == <<state, vm, responder, bridge, slot, origin>>
vars == <<flags, configVars, mmdsVars, liveVars, saved, reply>>

\* --network-backend, --host-mmds (main.rs refuses it without vmnet) and the
\* flavor of the pool of --pool-dir, if any.
Flags == {f \in [network : {"nat", "vmnet"}, hostMmds : BOOLEAN,
                 pool : {"none", "agent", "stock"}] :
             f.hostMmds => f.network = "vmnet"}

TypeOK ==
    /\ flags \in Flags
    /\ boot \in BOOLEAN /\ root \in BOOLEAN /\ extra \in BOOLEAN
    /\ iface \in BOOLEAN /\ vsock \in BOOLEAN
    /\ memory \in Memories
    /\ balloon \in Amounts \cup {None}
    /\ mmds \in Documents /\ mmdsShared \in Documents
    /\ state \in {"NotStarted", "Running", "Paused"}
    /\ vm \in VM \cup {None}
    /\ responder \in BOOLEAN /\ bridge \in BOOLEAN /\ slot \in BOOLEAN
    /\ origin \in {"ColdBoot", "SnapshotLoad", "Pool", None}
    /\ saved \in Images \cup {None}
    /\ reply \in [call : {"config", "mmds", "boot", "live", None},
                  status : {"204", "400", "500", None}]

Init ==
    /\ flags \in Flags
    /\ boot = FALSE /\ root = FALSE /\ extra = FALSE
    /\ iface = FALSE /\ vsock = FALSE
    /\ memory = DefaultMemory
    /\ balloon = None
    /\ mmds = EmptyDocument /\ mmdsShared = EmptyDocument
    /\ state = "NotStarted"
    /\ vm = None
    /\ responder = FALSE /\ bridge = FALSE /\ slot = FALSE
    /\ origin = None
    /\ saved = None
    /\ reply = [call |-> None, status |-> None]

-----------------------------------------------------------------------------
(* Answers. *)

Answer(call, status) == reply' = [call |-> call, status |-> status]

\* An early return: the call is answered and nothing else happens.
Return(call, status) ==
    /\ Answer(call, status)
    /\ UNCHANGED <<flags, configVars, mmdsVars, liveVars, saved>>

\* Mutant: configuration is accepted at any time.
MutAnyTime == TRUE

\* require_preboot
Preboot == state = "NotStarted"

\* A pre-boot setter that got past require_preboot and its own checks.
Accept ==
    /\ Preboot
    /\ Answer("config", "204")
    /\ UNCHANGED <<flags, mmdsVars, liveVars, saved>>

\* Every pre-boot setter answers 400 after boot, and before boot when its
\* argument is bad (missing path, vcpu_count 0, cid below 3, ...).
Refuse == Return("config", "400")

-----------------------------------------------------------------------------
(* Pre-boot configuration. *)

ConfigureBootSource ==
    \/ Accept /\ boot' = TRUE
       /\ UNCHANGED <<root, extra, iface, memory, balloon, vsock>>
    \/ Refuse

InsertBlockDevice ==
    \/ Accept /\ root' = TRUE
       /\ UNCHANGED <<boot, extra, iface, memory, balloon, vsock>>
    \/ Accept /\ extra' = TRUE
       /\ UNCHANGED <<boot, root, iface, memory, balloon, vsock>>
    \/ Refuse

\* Only a path is honoured; an id that names no secondary drive means the
\* root drive, whether or not one was PUT before.
UpdateBlockDevice ==
    \/ Accept /\ root' \in {root, TRUE}
       /\ UNCHANGED <<boot, extra, iface, memory, balloon, vsock>>
    \/ Refuse

InsertNetworkDevice ==
    \/ Accept /\ iface' = TRUE
       /\ UNCHANGED <<boot, root, extra, memory, balloon, vsock>>
    \/ Refuse

\* put_machine_config, and patch_machine_config which ends in it
PutMachineConfig(m) ==
    \/ Accept /\ memory' = m
       /\ UNCHANGED <<boot, root, extra, iface, balloon, vsock>>
    \/ Refuse

\* The amount is not compared with the memory here: the two may be set in
\* either order.
ConfigureBalloon(a) ==
    \/ Accept /\ balloon' = a
       /\ UNCHANGED <<boot, root, extra, iface, memory, vsock>>
    \/ Refuse

ConfigureVsock ==
    \/ Accept /\ vsock' = TRUE
       /\ UNCHANGED <<boot, root, extra, iface, memory, balloon>>
    \/ Refuse

\* configure_mmds and configure_entropy store nothing a handler reads.
ConfigureOther ==
    \/ Accept /\ UNCHANGED configVars
    \/ Refuse

-----------------------------------------------------------------------------
(* Boot: start_micro_vm and load_snapshot. *)

\* Mutant: the balloon may take all of the memory.
MutAllMemory(a) == a <= memory

\* validate_balloon_amount
AmountFits(a) == a < memory

\* The checks both boot paths make before they build anything.
BootReady ==
    /\ Preboot
    /\ balloon # None => AmountFits(balloon)
    /\ boot
    /\ root

\* configured_network_mode
ConfiguredMode == IF iface THEN flags.network ELSE "none"

\* apply_balloon_target: the memory the guest keeps.
BalloonTarget(kind) ==
    IF balloon # None /\ HasBalloon(kind) THEN memory - balloon ELSE None

\* refresh_mmds_vsock_service fails only where there is no vsock device.
ServedBy(kind) == IF HasVsock(kind) THEN mmds ELSE None

\* Mutant: the state set before the failure stays.
MutAbortKeepsState ==
    /\ responder' = FALSE
    /\ bridge' = FALSE
    /\ vm' = None
    /\ slot' = FALSE
    /\ origin' = None
    /\ state' = "Running"

\* abort_boot
AbortBoot ==
    /\ responder' = FALSE
    /\ bridge' = FALSE
    /\ vm' = None
    /\ slot' = FALSE
    /\ origin' = None
    /\ state' = "NotStarted"

\* From the moment the VM handle is stored: state and origin, start_vsock_bridge,
\* apply_initial_balloon.  With a vsock configuration the bridge is the last
\* fallible step: without a vsock device the refresh fails (500), and binding
\* the socket may fail (400).
BringUp(kind, run, from) ==
    /\ \/ /\ vsock => HasVsock(kind)
          /\ vm' = [run |-> run, kind |-> kind, served |-> ServedBy(kind),
                    target |-> BalloonTarget(kind)]
          /\ state' = IF run = "running" THEN "Running" ELSE "Paused"
          /\ origin' = from
          /\ bridge' = vsock
          /\ slot' = (from = "Pool")
          /\ responder' = (from # "Pool" /\ flags.hostMmds)
          /\ Answer("boot", "204")
       \/ /\ vsock
          /\ AbortBoot
          /\ Answer("boot", IF HasVsock(kind) THEN "400" ELSE "500")
    /\ UNCHANGED <<flags, configVars, mmdsVars, saved>>

\* A matching slot is claimed and restored.  An unclaimed pool, or a failed
\* restore, is a cold boot.
PoolBoot ==
    /\ BootReady
    /\ ~extra
    /\ ConfiguredMode # "vmnet"
    /\ flags.pool # "none"
    /\ memory = PoolMemory
    /\ BringUp(flags.pool, "running", "Pool")

\* start_vmnet_mmds
HostMmdsServable == flags.hostMmds => ConfiguredMode = "vmnet"

\* The VM is built (or restored) as a local; it is stored only once
\* start_vmnet_mmds has not failed.
LongBoot(run, from) ==
    \/ Return("boot", "500")                         \* build, start, restore
    \/ ~HostMmdsServable /\ Return("boot", "400")
    \/ HostMmdsServable /\ BringUp("long", run, from)

StartMicroVm ==
    \/ PoolBoot
    \/ BootReady /\ LongBoot("running", "ColdBoot")
    \/ ~BootReady /\ Return("boot", "400")

\* The framework restores a state file only into the configuration that wrote
\* it.
Restorable ==
    saved = [kind |-> "long", memory |-> memory, extra |-> extra,
             mode |-> ConfiguredMode]

\* vz_long_restore resumes the VM itself when resume_vm is set.
LoadSnapshot ==
    \/ /\ BootReady
       /\ \E run \in {"running", "paused"} :
             /\ Restorable
             /\ LongBoot(run, "SnapshotLoad")
    \/ BootReady /\ Return("boot", "500")
    \/ Return("boot", "400")           \* not ready, or an unsupported option

-----------------------------------------------------------------------------
(* The MMDS store, and the calls on a live VM. *)

\* Mutant: the guest's listener is not refreshed.
MutNoRefresh(d) ==
    /\ mmds' = d
    /\ mmdsShared' = d
    /\ Answer("mmds", "204")
    /\ UNCHANGED <<flags, configVars, liveVars, saved>>

\* put_mmds and patch_mmds: both copies, then refresh_mmds_vsock_service,
\* whose failure is answered 500 with the copies already changed.
PutMmds(d) ==
    /\ mmds' = d
    /\ mmdsShared' = d
    /\ vm' = IF vm # None /\ HasVsock(vm.kind)
             THEN [vm EXCEPT !.served = d] ELSE vm
    /\ Answer("mmds", IF vm # None /\ ~HasVsock(vm.kind) THEN "500" ELSE "204")
    /\ UNCHANGED <<flags, configVars, state, responder, bridge, slot, origin, saved>>

\* Mutant: the amount is stored before it is checked.
MutStoreThenCheck(a) ==
    /\ balloon # None
    /\ balloon' = a
    /\ Answer("live", IF Preboot \/ AmountFits(a) THEN "204" ELSE "400")
    /\ UNCHANGED <<flags, boot, root, extra, iface, memory, vsock, mmdsVars,
                   liveVars, saved>>

\* update_balloon: before boot the amount is only stored; on a live VM it is
\* checked, stored, and pushed, which fails where there is no balloon device.
UpdateBalloon(a) ==
    \/ /\ balloon # None
       /\ ~Preboot => AmountFits(a)
       /\ balloon' = a
       /\ vm' = IF vm # None /\ HasBalloon(vm.kind)
                THEN [vm EXCEPT !.target = memory - a] ELSE vm
       /\ Answer("live", IF vm # None /\ ~HasBalloon(vm.kind) THEN "500" ELSE "204")
       /\ UNCHANGED <<flags, boot, root, extra, iface, memory, vsock, mmdsVars,
                      state, responder, bridge, slot, origin, saved>>
    \/ /\ balloon # None => ~Preboot /\ ~AmountFits(a)
       /\ Return("live", "400")

\* The guest is asked to power off; it does so later, if at all (GuestStops).
SendCtrlAltDel ==
    \/ state = "Running" /\ vm.run = "running" /\ Return("live", "204")
    \/ state = "Running" /\ Return("live", "500")
    \/ state # "Running" /\ Return("live", "400")

SetRun(run, s) ==
    /\ vm' = [vm EXCEPT !.run = run]
    /\ state' = s
    /\ Answer("live", "204")
    /\ UNCHANGED <<flags, configVars, mmdsVars, responder, bridge, slot, origin,
                   saved>>

\* Mutant: the state is set whether or not the framework paused the VM.
MutPauseAnyway ==
    \/ /\ state = "Running"
       /\ state' = "Paused"
       /\ Answer("live", "204")
       /\ UNCHANGED <<flags, configVars, mmdsVars, vm, responder, bridge, slot,
                      origin, saved>>
    \/ state = "Paused" /\ Return("live", "204")
    \/ state = "NotStarted" /\ Return("live", "400")

Pause ==
    \/ state = "Running" /\ vm.run = "running" /\ SetRun("paused", "Paused")
    \/ state = "Running" /\ Return("live", "500")
    \/ state = "Paused" /\ Return("live", "204")
    \/ state = "NotStarted" /\ Return("live", "400")

Resume ==
    \/ state = "Paused" /\ vm.run = "paused" /\ SetRun("running", "Running")
    \/ state = "Paused" /\ Return("live", "500")
    \/ state = "Running" /\ Return("live", "204")
    \/ state = "NotStarted" /\ Return("live", "400")

\* Mutant: pool VMs are snapshotted too.
MutSnapshotAny ==
    \/ /\ state = "Paused"
       /\ saved' = [kind |-> vm.kind, memory |-> memory, extra |-> extra,
                    mode |-> ConfiguredMode]
       /\ Answer("live", "204")
       /\ UNCHANGED <<flags, configVars, mmdsVars, liveVars>>
    \/ Return("live", "400")

\* The state file is written before mem_file_path is touched, so a call
\* refused for the latter has still written the former.
CreateSnapshot ==
    \/ /\ state = "Paused"
       /\ origin \in {"ColdBoot", "SnapshotLoad"}
       /\ saved' = [kind |-> vm.kind, memory |-> memory, extra |-> extra,
                    mode |-> ConfiguredMode]
       /\ \E status \in {"204", "400"} : Answer("live", status)
       /\ UNCHANGED <<flags, configVars, mmdsVars, liveVars>>
    \/ /\ state = "Paused"
       /\ origin \in {"ColdBoot", "SnapshotLoad"}
       /\ Return("live", "500")
    \/ Return("live", "400")           \* not paused, Diff, or a pool VM

\* External: a guest powers itself off, and the backend is not told.
GuestStops ==
    /\ vm # None
    /\ vm.run = "running"
    /\ vm' = [vm EXCEPT !.run = "stopped"]
    /\ Answer(None, None)
    /\ UNCHANGED <<flags, configVars, mmdsVars, state, responder, bridge, slot,
                   origin, saved>>

\* External: the daemon ends and another is started, with any flags; the state
\* file stays on disk, the rest is VzBackend::new.
Restart ==
    /\ flags' \in Flags
    /\ boot' = FALSE /\ root' = FALSE /\ extra' = FALSE
    /\ iface' = FALSE /\ vsock' = FALSE
    /\ memory' = DefaultMemory
    /\ balloon' = None
    /\ mmds' = EmptyDocument /\ mmdsShared' = EmptyDocument
    /\ state' = "NotStarted"
    /\ vm' = None
    /\ responder' = FALSE /\ bridge' = FALSE /\ slot' = FALSE
    /\ origin' = None
    /\ Answer(None, None)
    /\ UNCHANGED saved

-----------------------------------------------------------------------------
Call ==
    \/ ConfigureBootSource
    \/ InsertBlockDevice
    \/ UpdateBlockDevice
    \/ InsertNetworkDevice
    \/ \E m \in Memories : PutMachineConfig(m)
    \/ \E a \in Amounts : ConfigureBalloon(a)
    \/ ConfigureVsock
    \/ ConfigureOther
    \/ StartMicroVm
    \/ LoadSnapshot
    \/ \E d \in Documents : PutMmds(d)
    \/ \E a \in Amounts : UpdateBalloon(a)
    \/ SendCtrlAltDel
    \/ Pause
    \/ Resume
    \/ CreateSnapshot

Next == Call \/ GuestStops \/ Restart

Spec == Init /\ [][Next]_vars

-----------------------------------------------------------------------------
(* Properties. *)

\* What the backend holds fits together: it has a VM, and a record of where it
\* came from, exactly when it says it is booted; a pool slot exactly while the
\* VM is a pool VM; a bridge only to a VM, and a responder only where one can
\* serve.  A boot that fails half way (abort_boot, or an early return) leaves
\* none of them behind.
HoldsTogether ==
    /\ (state = "NotStarted") = (vm = None)
    /\ (state = "NotStarted") = (origin = None)
    /\ slot = (origin = "Pool")
    /\ bridge = (vm # None /\ vsock)
    /\ responder = (vm # None /\ origin # "Pool" /\ flags.hostMmds)

\* The API's "Paused" is true of the VM: nothing a failed pause or resume, a
\* guest that powers off, or a paused snapshot load does makes the backend
\* snapshot a VM that still runs.
PausedIsPaused ==
    state = "Paused" => vm # None /\ vm.run = "paused"

\* A booted VM keeps some memory (validate_balloon_amount, however PUT
\* /balloon, PATCH /balloon and PUT /machine-config were ordered), and where it
\* has a balloon, what GET /balloon reports is what the framework was told.
BalloonInForce ==
    vm # None /\ balloon # None =>
        /\ balloon < memory
        /\ HasBalloon(vm.kind) => vm.target = memory - balloon

\* GET /mmds, the vmnet responder and the guest's vsock listener agree on the
\* document at the end of every call, whichever of PUT, PATCH and boot was last.
MmdsCurrent ==
    /\ mmdsShared = mmds
    /\ vm # None /\ HasVsock(vm.kind) => vm.served = mmds

\* Whatever was accepted by PUT /snapshot/create can be given back to PUT
\* /snapshot/load: no state file was written by a VM of a configuration flavor
\* that vz_long_restore cannot rebuild (RunOrigin, backend.rs 43-53).
SnapshotsLoadable == saved # None => saved.kind = "long"

\* A call that is refused (400) leaves configuration, metadata and VM alone; so
\* does a boot that fails (500), which can therefore be corrected and retried.
RefusalsHarmless ==
    [][ (\/ reply'.status = "400"
         \/ reply' = [call |-> "boot", status |-> "500"])
        => UNCHANGED <<configVars, mmdsVars, liveVars>> ]_vars

\* A refinement of Instance: the configuration is frozen while there is a VM,
\* a boot happens once per daemon, and there is no way back.
I == INSTANCE Instance WITH
         phase <- state,
         config <- <<boot, root, extra, iface, memory, vsock>>,
         Configs <- BOOLEAN \X BOOLEAN \X BOOLEAN \X BOOLEAN \X Memories
                        \X BOOLEAN,
         Blank <- <<FALSE, FALSE, FALSE, FALSE, DefaultMemory, FALSE>>

ImplementsInstance == I!Spec
=============================================================================
