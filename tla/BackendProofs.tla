---------------------------- MODULE BackendProofs ---------------------------
(***************************************************************************)
(* Proofs about Backend, for any memory sizes, balloon amounts and MMDS    *)
(* documents.                                                              *)
(*                                                                         *)
(* The inductive invariant is the conjunction of the properties with one   *)
(* thing added: a VM that did not come from a pool is a long-running one,  *)
(* which is what create_snapshot concludes from the origin.                *)
(***************************************************************************)
EXTENDS Backend, TLAPS

OriginInv == vm # None /\ origin # "Pool" => vm.kind = "long"

LiveInv ==
    /\ HoldsTogether
    /\ PausedIsPaused
    /\ BalloonInForce
    /\ MmdsCurrent
    /\ OriginInv

BackendInv == TypeOK /\ LiveInv /\ SnapshotsLoadable

\* A backend as VzBackend::new makes it satisfies the invariant.
LEMMA InitInv == Init => BackendInv
<1> SUFFICES ASSUME Init PROVE BackendInv
  OBVIOUS
<1> USE BackendAssumption DEF Init
<1>1. TypeOK
  BY DEF TypeOK
<1>2. LiveInv
  BY DEF LiveInv, HoldsTogether, PausedIsPaused, BalloonInForce, MmdsCurrent,
         OriginInv
<1>3. SnapshotsLoadable
  BY DEF SnapshotsLoadable
<1> QED
  BY <1>1, <1>2, <1>3 DEF BackendInv

\* The answers a handler gives.
Answers == [call : {"config", "mmds", "boot", "live", None},
            status : {"204", "400", "500", None}]

\* A step that changes nothing but the answer keeps the invariant.
LEMMA SameInv ==
    ASSUME BackendInv, reply' \in Answers,
           UNCHANGED <<flags, configVars, mmdsVars, liveVars, saved>>
    PROVE  BackendInv'
<1> USE DEF configVars, mmdsVars, liveVars
<1>1. TypeOK'
  BY DEF BackendInv, TypeOK, Answers
<1>2. HoldsTogether' /\ PausedIsPaused'
  BY DEF BackendInv, LiveInv, HoldsTogether, PausedIsPaused
<1>3. BalloonInForce' /\ MmdsCurrent'
  BY DEF BackendInv, LiveInv, BalloonInForce, MmdsCurrent
<1>4. OriginInv' /\ SnapshotsLoadable'
  BY DEF BackendInv, LiveInv, OriginInv, SnapshotsLoadable
<1> QED
  BY <1>1, <1>2, <1>3, <1>4 DEF BackendInv, LiveInv

\* An early return of a handler keeps the invariant.
LEMMA ReturnInv ==
    ASSUME BackendInv, NEW call \in {"config", "boot", "live"},
           NEW status \in {"204", "400", "500"}, Return(call, status)
    PROVE  BackendInv'
<1>1. reply' \in Answers
  BY DEF Return, Answer, Answers
<1> QED
  BY <1>1, SameInv DEF Return

\* A setter is accepted only before boot, when there is nothing a new
\* configuration could disagree with.
LEMMA AcceptInv ==
    ASSUME BackendInv, Accept,
           boot' \in BOOLEAN, root' \in BOOLEAN, extra' \in BOOLEAN,
           iface' \in BOOLEAN, vsock' \in BOOLEAN, memory' \in Memories,
           balloon' \in Amounts \cup {None}
    PROVE  BackendInv'
<1> USE DEF mmdsVars, liveVars, Accept, Answer
<1>0. vm = None /\ vm' = None
  BY DEF BackendInv, LiveInv, HoldsTogether, Preboot
<1>1. TypeOK'
  BY DEF BackendInv, TypeOK
<1>2. HoldsTogether' /\ PausedIsPaused'
  BY <1>0 DEF BackendInv, LiveInv, HoldsTogether, PausedIsPaused
<1>3. BalloonInForce' /\ MmdsCurrent'
  BY <1>0 DEF BackendInv, LiveInv, BalloonInForce, MmdsCurrent
<1>4. OriginInv' /\ SnapshotsLoadable'
  BY <1>0 DEF BackendInv, LiveInv, OriginInv, SnapshotsLoadable
<1> QED
  BY <1>1, <1>2, <1>3, <1>4 DEF BackendInv, LiveInv

Setter ==
    \/ ConfigureBootSource \/ InsertBlockDevice \/ UpdateBlockDevice
    \/ InsertNetworkDevice
    \/ \E m \in Memories : PutMachineConfig(m)
    \/ \E a \in Amounts : ConfigureBalloon(a)
    \/ ConfigureVsock \/ ConfigureOther

\* Every pre-boot setter is refused, or accepted with well-typed values.
LEMMA SetterCases ==
    ASSUME TypeOK, Setter
    PROVE  \/ Return("config", "400")
           \/ /\ Accept
              /\ boot' \in BOOLEAN /\ root' \in BOOLEAN /\ extra' \in BOOLEAN
              /\ iface' \in BOOLEAN /\ vsock' \in BOOLEAN
              /\ memory' \in Memories /\ balloon' \in Amounts \cup {None}
<1> USE DEF TypeOK, Refuse, configVars
<1>1. CASE ConfigureBootSource
  BY <1>1 DEF ConfigureBootSource
<1>2. CASE InsertBlockDevice
  BY <1>2 DEF InsertBlockDevice
<1>3. CASE UpdateBlockDevice
  BY <1>3 DEF UpdateBlockDevice
<1>4. CASE InsertNetworkDevice
  BY <1>4 DEF InsertNetworkDevice
<1>5. CASE \E m \in Memories : PutMachineConfig(m)
  BY <1>5 DEF PutMachineConfig
<1>6. CASE \E a \in Amounts : ConfigureBalloon(a)
  BY <1>6 DEF ConfigureBalloon
<1>7. CASE ConfigureVsock
  BY <1>7 DEF ConfigureVsock
<1>8. CASE ConfigureOther
  BY <1>8 DEF ConfigureOther
<1> QED
  BY <1>1, <1>2, <1>3, <1>4, <1>5, <1>6, <1>7, <1>8 DEF Setter

\* The pre-boot setters keep the invariant: they run without a VM or refuse.
LEMMA SetterInv ==
    ASSUME BackendInv, Setter PROVE BackendInv'
<1>1. TypeOK
  BY DEF BackendInv
<1>2. CASE Return("config", "400")
  BY <1>2, ReturnInv
<1>3. CASE ~Return("config", "400")
  BY <1>1, <1>3, SetterCases, AcceptInv
<1> QED
  BY <1>2, <1>3

-----------------------------------------------------------------------------
\* Before boot there is nothing to abort.
LEMMA NothingHeld ==
    ASSUME BackendInv, Preboot
    PROVE  /\ vm = None /\ origin = None
           /\ slot = FALSE /\ bridge = FALSE /\ responder = FALSE
BY BackendAssumption DEF BackendInv, LiveInv, HoldsTogether, Preboot, TypeOK

\* abort_boot leaves the backend as it was before the boot.
LEMMA AbortIsInvisible ==
    ASSUME BackendInv, Preboot, AbortBoot PROVE UNCHANGED liveVars
BY NothingHeld DEF AbortBoot, liveVars, Preboot

\* What a boot that got through leaves behind fits together.
LEMMA BroughtUpInv ==
    ASSUME BackendInv, BootReady, NEW kind \in Kinds,
           NEW run \in {"running", "paused"},
           NEW from \in {"ColdBoot", "SnapshotLoad", "Pool"},
           from # "Pool" => kind = "long",
           vm' = [run |-> run, kind |-> kind, served |-> ServedBy(kind),
                  target |-> BalloonTarget(kind)],
           state' = (IF run = "running" THEN "Running" ELSE "Paused"),
           origin' = from, bridge' = vsock, slot' = (from = "Pool"),
           responder' = (from # "Pool" /\ flags.hostMmds),
           Answer("boot", "204"),
           UNCHANGED <<flags, configVars, mmdsVars, saved>>
    PROVE  BackendInv'
<1> USE DEF configVars, mmdsVars
<1>t. TypeOK
  BY DEF BackendInv
<1>b. balloon # None => balloon < memory /\ memory - balloon \in Nat
  BY <1>t, BackendAssumption DEF BootReady, AmountFits, TypeOK
<1>v. vm' \in VM
  <2>1. ServedBy(kind) \in Documents \cup {None}
    BY <1>t DEF ServedBy, TypeOK
  <2>2. BalloonTarget(kind) \in Nat \cup {None}
    BY <1>b DEF BalloonTarget
  <2> QED
    BY <2>1, <2>2 DEF VM
<1>n. vm' # None
  BY <1>v, BackendAssumption
<1>1. TypeOK'
  BY <1>t, <1>v DEF TypeOK, Answer
<1>2. HoldsTogether'
  <2>1. state' # "NotStarted" /\ origin' # None
    BY BackendAssumption
  <2>2. bridge' = (vm' # None /\ vsock')
    BY <1>n, <1>t DEF TypeOK
  <2>3. responder' = (vm' # None /\ origin' # "Pool" /\ flags'.hostMmds)
    BY <1>n
  <2> QED
    BY <1>n, <2>1, <2>2, <2>3 DEF HoldsTogether
<1>3. PausedIsPaused'
  BY <1>n DEF PausedIsPaused
<1>4. BalloonInForce'
  BY <1>b DEF BalloonInForce, BalloonTarget
<1>5. MmdsCurrent'
  BY DEF BackendInv, LiveInv, MmdsCurrent, ServedBy
<1>6. OriginInv' /\ SnapshotsLoadable'
  BY DEF BackendInv, OriginInv, SnapshotsLoadable
<1> QED
  BY <1>1, <1>2, <1>3, <1>4, <1>5, <1>6 DEF BackendInv, LiveInv

\* A boot from the moment the VM handle is stored, completed or aborted,
\* keeps the invariant.
LEMMA BringUpInv ==
    ASSUME BackendInv, BootReady, NEW kind \in Kinds,
           NEW run \in {"running", "paused"},
           NEW from \in {"ColdBoot", "SnapshotLoad", "Pool"},
           from # "Pool" => kind = "long",
           BringUp(kind, run, from)
    PROVE  BackendInv'
<1>1. CASE AbortBoot /\ Answer("boot", IF HasVsock(kind) THEN "400" ELSE "500")
  <2>1. UNCHANGED liveVars
    BY <1>1, AbortIsInvisible DEF BootReady
  <2>2. reply' \in Answers
    BY <1>1 DEF Answer, Answers
  <2> QED
    BY <2>1, <2>2, SameInv DEF BringUp
<1>2. CASE ~(AbortBoot /\ Answer("boot", IF HasVsock(kind) THEN "400" ELSE "500"))
  BY <1>2, BroughtUpInv DEF BringUp
<1> QED
  BY <1>1, <1>2

\* A cold boot and a snapshot load keep the invariant.
LEMMA LongBootInv ==
    ASSUME BackendInv, BootReady, NEW run \in {"running", "paused"},
           NEW from \in {"ColdBoot", "SnapshotLoad"}, LongBoot(run, from)
    PROVE  BackendInv'
<1>1. CASE Return("boot", "500") \/ Return("boot", "400")
  BY <1>1, ReturnInv
<1>2. CASE BringUp("long", run, from)
  BY <1>2, BringUpInv DEF Kinds
<1> QED
  BY <1>1, <1>2 DEF LongBoot

\* Both boot paths, whichever step of them fails.
LEMMA BootInv ==
    ASSUME BackendInv, StartMicroVm \/ LoadSnapshot PROVE BackendInv'
<1>1. CASE PoolBoot
  <2>1. flags.pool \in Kinds
    BY <1>1 DEF PoolBoot, BackendInv, TypeOK, Flags, Kinds
  <2> QED
    BY <1>1, <2>1, BringUpInv DEF PoolBoot
<1>2. CASE BootReady /\ LongBoot("running", "ColdBoot")
  BY <1>2, LongBootInv
<1>3. CASE BootReady /\ \E run \in {"running", "paused"} :
                           LongBoot(run, "SnapshotLoad")
  BY <1>3, LongBootInv
<1>4. CASE Return("boot", "500") \/ Return("boot", "400")
  BY <1>4, ReturnInv
<1> QED
  BY <1>1, <1>2, <1>3, <1>4 DEF StartMicroVm, LoadSnapshot

-----------------------------------------------------------------------------
\* put_mmds and patch_mmds.
LEMMA PutMmdsInv ==
    ASSUME BackendInv, NEW d \in Documents, PutMmds(d) PROVE BackendInv'
<1> USE DEF configVars, PutMmds
<1>t. TypeOK
  BY DEF BackendInv
<1>v. /\ vm' = None <=> vm = None
      /\ vm # None => /\ vm' \in VM /\ vm'.run = vm.run /\ vm'.kind = vm.kind
                      /\ vm'.target = vm.target
                      /\ HasVsock(vm.kind) => vm'.served = d
  BY <1>t, BackendAssumption DEF TypeOK, VM
<1>1. TypeOK'
  BY <1>t, <1>v DEF TypeOK, Answer
<1>2. HoldsTogether'
  BY <1>v DEF BackendInv, LiveInv, HoldsTogether
<1>3. PausedIsPaused' /\ BalloonInForce'
  BY <1>v DEF BackendInv, LiveInv, PausedIsPaused, BalloonInForce
<1>4. MmdsCurrent' /\ OriginInv' /\ SnapshotsLoadable'
  BY <1>v DEF BackendInv, LiveInv, MmdsCurrent, OriginInv, SnapshotsLoadable
<1> QED
  BY <1>1, <1>2, <1>3, <1>4 DEF BackendInv, LiveInv

\* update_balloon, before and after boot.
LEMMA UpdateBalloonInv ==
    ASSUME BackendInv, NEW a \in Amounts, UpdateBalloon(a) PROVE BackendInv'
<1>1. CASE Return("live", "400")
  BY <1>1, ReturnInv
<1>2. CASE ~Return("live", "400")
  <2> USE DEF mmdsVars
  <2>t. TypeOK
    BY DEF BackendInv
  <2>0. /\ ~Preboot => AmountFits(a)
        /\ balloon' = a
        /\ vm' = IF vm # None /\ HasBalloon(vm.kind)
                 THEN [vm EXCEPT !.target = memory - a] ELSE vm
        /\ Answer("live", IF vm # None /\ ~HasBalloon(vm.kind)
                          THEN "500" ELSE "204")
        /\ UNCHANGED <<flags, boot, root, extra, iface, memory, vsock, mmds,
                       mmdsShared, state, responder, bridge, slot, origin,
                       saved>>
    BY <1>2 DEF UpdateBalloon
  <2>a. vm # None => a < memory /\ memory - a \in Nat
    BY <2>t, <2>0, BackendAssumption
       DEF BackendInv, LiveInv, HoldsTogether, Preboot, AmountFits, TypeOK
  <2>v. /\ vm' = None <=> vm = None
        /\ vm # None =>
              /\ vm' \in VM /\ vm'.run = vm.run /\ vm'.kind = vm.kind
              /\ vm'.served = vm.served
              /\ HasBalloon(vm.kind) => vm'.target = memory - a
    BY <2>t, <2>0, <2>a, BackendAssumption DEF TypeOK, VM
  <2>1. TypeOK'
    BY <2>t, <2>0, <2>v DEF TypeOK, Answer
  <2>2. HoldsTogether'
    BY <2>0, <2>v DEF BackendInv, LiveInv, HoldsTogether
  <2>3. PausedIsPaused'
    BY <2>0, <2>v DEF BackendInv, LiveInv, PausedIsPaused
  <2>4. BalloonInForce'
    BY <2>0, <2>a, <2>v DEF BalloonInForce
  <2>5. MmdsCurrent' /\ OriginInv' /\ SnapshotsLoadable'
    BY <2>0, <2>v
       DEF BackendInv, LiveInv, MmdsCurrent, OriginInv, SnapshotsLoadable
  <2> QED
    BY <2>1, <2>2, <2>3, <2>4, <2>5 DEF BackendInv, LiveInv
<1> QED
  BY <1>1, <1>2

\* A step that only changes whether the VM runs.
LEMMA RunStateInv ==
    ASSUME BackendInv, vm # None, NEW run \in {"running", "paused", "stopped"},
           vm' = [vm EXCEPT !.run = run], reply' \in Answers,
           \/ state' = state /\ state = "Running"
           \/ state' = "Running" /\ state = "Paused"
           \/ state' = "Paused" /\ run = "paused",
           UNCHANGED <<flags, configVars, mmdsVars, responder, bridge, slot,
                       origin, saved>>
    PROVE  BackendInv'
<1> USE DEF configVars, mmdsVars
<1>t. TypeOK
  BY DEF BackendInv
<1>v. /\ vm' # None /\ vm' \in VM /\ vm'.run = run /\ vm'.kind = vm.kind
      /\ vm'.served = vm.served /\ vm'.target = vm.target
  BY <1>t, BackendAssumption DEF TypeOK, VM
<1>1. TypeOK'
  BY <1>t, <1>v DEF TypeOK, Answers
<1>2. HoldsTogether'
  BY <1>v DEF BackendInv, LiveInv, HoldsTogether
<1>3. PausedIsPaused' /\ BalloonInForce'
  BY <1>v DEF BackendInv, LiveInv, PausedIsPaused, BalloonInForce
<1>4. MmdsCurrent' /\ OriginInv' /\ SnapshotsLoadable'
  BY <1>v DEF BackendInv, LiveInv, MmdsCurrent, OriginInv, SnapshotsLoadable
<1> QED
  BY <1>1, <1>2, <1>3, <1>4 DEF BackendInv, LiveInv

\* Pause, resume, SendCtrlAltDel, and a guest that powers itself off.
LEMMA RunInv ==
    ASSUME BackendInv, Pause \/ Resume \/ SendCtrlAltDel \/ GuestStops
    PROVE  BackendInv'
<1>0. (state = "NotStarted") = (vm = None)
  BY DEF BackendInv, LiveInv, HoldsTogether
<1>1. CASE \E status \in {"204", "400", "500"} : Return("live", status)
  BY <1>1, ReturnInv
<1>2. CASE state = "Running" /\ SetRun("paused", "Paused")
  BY <1>0, <1>2, RunStateInv DEF SetRun, Answer, Answers
<1>3. CASE state = "Paused" /\ SetRun("running", "Running")
  BY <1>0, <1>3, RunStateInv DEF SetRun, Answer, Answers
<1>4. CASE GuestStops
  <2>1. state = "Running"
    BY <1>0, <1>4
       DEF GuestStops, BackendInv, LiveInv, TypeOK, PausedIsPaused
  <2> QED
    BY <1>4, <2>1, RunStateInv DEF GuestStops, Answer, Answers
<1> QED
  BY <1>1, <1>2, <1>3, <1>4 DEF Pause, Resume, SendCtrlAltDel

\* create_snapshot: the origin vouches for the flavor of the VM.
LEMMA SnapshotInv ==
    ASSUME BackendInv, CreateSnapshot PROVE BackendInv'
<1>1. CASE Return("live", "500") \/ Return("live", "400")
  BY <1>1, ReturnInv
<1>2. CASE ~(Return("live", "500") \/ Return("live", "400"))
  <2> USE DEF configVars, mmdsVars, liveVars
  <2>0. /\ state = "Paused"
        /\ origin \in {"ColdBoot", "SnapshotLoad"}
        /\ saved' = [kind |-> vm.kind, memory |-> memory, extra |-> extra,
                     mode |-> ConfiguredMode]
        /\ \E status \in {"204", "400"} : Answer("live", status)
        /\ UNCHANGED <<flags, configVars, mmdsVars, liveVars>>
    BY <1>2 DEF CreateSnapshot
  <2>k. vm.kind = "long"
    BY <2>0 DEF BackendInv, LiveInv, HoldsTogether, OriginInv
  <2>m. ConfiguredMode \in Modes
    BY DEF BackendInv, TypeOK, Flags, ConfiguredMode, Modes
  <2>1. TypeOK'
    <3>1. saved' \in Images
      BY <2>0, <2>k, <2>m DEF BackendInv, TypeOK, Images, Kinds
    <3>2. reply' \in Answers
      BY <2>0 DEF Answer, Answers
    <3> QED
      BY <2>0, <3>1, <3>2 DEF BackendInv, TypeOK, Answers
  <2>2. HoldsTogether' /\ PausedIsPaused'
    BY <2>0 DEF BackendInv, LiveInv, HoldsTogether, PausedIsPaused
  <2>3. BalloonInForce' /\ MmdsCurrent' /\ OriginInv'
    BY <2>0 DEF BackendInv, LiveInv, BalloonInForce, MmdsCurrent, OriginInv
  <2>4. SnapshotsLoadable'
    BY <2>0, <2>k DEF SnapshotsLoadable
  <2> QED
    BY <2>1, <2>2, <2>3, <2>4 DEF BackendInv, LiveInv
<1> QED
  BY <1>1, <1>2

\* A new daemon starts from what Init says, with the state file of the old.
LEMMA RestartInv == ASSUME BackendInv, Restart PROVE BackendInv'
<1> USE BackendAssumption DEF Restart
<1>1. TypeOK'
  BY DEF BackendInv, TypeOK, Answer
<1>2. HoldsTogether' /\ PausedIsPaused'
  BY DEF HoldsTogether, PausedIsPaused
<1>3. BalloonInForce' /\ MmdsCurrent' /\ OriginInv'
  BY DEF BalloonInForce, MmdsCurrent, OriginInv
<1>4. SnapshotsLoadable'
  BY DEF BackendInv, SnapshotsLoadable
<1> QED
  BY <1>1, <1>2, <1>3, <1>4 DEF BackendInv, LiveInv

-----------------------------------------------------------------------------
\* The steps of the backend, grouped for the proofs below.
LEMMA NextCases ==
    Next => \/ Setter
            \/ StartMicroVm \/ LoadSnapshot
            \/ \E d \in Documents : PutMmds(d)
            \/ \E a \in Amounts : UpdateBalloon(a)
            \/ Pause \/ Resume \/ SendCtrlAltDel \/ GuestStops
            \/ CreateSnapshot
            \/ Restart
BY DEF Next, Call, Setter

\* Every handler, a guest that stops and a restart keep the invariant.
LEMMA StepInv == BackendInv /\ [Next]_vars => BackendInv'
<1> SUFFICES ASSUME BackendInv, [Next]_vars PROVE BackendInv'
  OBVIOUS
<1>1. CASE UNCHANGED vars
  <2>1. reply' \in Answers
    BY <1>1 DEF vars, BackendInv, TypeOK, Answers
  <2> QED
    BY <1>1, <2>1, SameInv DEF vars
<1>2. CASE Next
  BY <1>2, NextCases, SetterInv, BootInv, PutMmdsInv, UpdateBalloonInv, RunInv,
     SnapshotInv, RestartInv
<1> QED
  BY <1>1, <1>2

\* The inductive invariant of the backend.
THEOREM Invariance == Spec => []BackendInv
BY InitInv, StepInv, PTL DEF Spec

\* Types are preserved; in particular no balloon target underflows.
THEOREM TypeCorrect == Spec => []TypeOK
<1>1. BackendInv => TypeOK
  BY DEF BackendInv
<1> QED
  BY <1>1, Invariance, PTL

\* State, VM handle, origin, pool slot, bridge and responder agree after every
\* call, boots that failed half way included.
THEOREM FieldsAgree == Spec => []HoldsTogether
<1>1. BackendInv => HoldsTogether
  BY DEF BackendInv, LiveInv
<1> QED
  BY <1>1, Invariance, PTL

\* A VM the API calls paused is paused.
THEOREM PausedTrue == Spec => []PausedIsPaused
<1>1. BackendInv => PausedIsPaused
  BY DEF BackendInv, LiveInv
<1> QED
  BY <1>1, Invariance, PTL

\* The balloon of a booted VM leaves it memory, and is the one reported.
THEOREM BalloonHolds == Spec => []BalloonInForce
<1>1. BackendInv => BalloonInForce
  BY DEF BackendInv, LiveInv
<1> QED
  BY <1>1, Invariance, PTL

\* All servers of the MMDS document serve the same one.
THEOREM MmdsAgrees == Spec => []MmdsCurrent
<1>1. BackendInv => MmdsCurrent
  BY DEF BackendInv, LiveInv
<1> QED
  BY <1>1, Invariance, PTL

\* Only VMs that load_snapshot can rebuild are written to a state file.
THEOREM SnapshotsFit == Spec => []SnapshotsLoadable
<1>1. BackendInv => SnapshotsLoadable
  BY DEF BackendInv
<1> QED
  BY <1>1, Invariance, PTL

-----------------------------------------------------------------------------
Refused == \/ reply'.status = "400"
           \/ reply' = [call |-> "boot", status |-> "500"]

Kept == UNCHANGED <<configVars, mmdsVars, liveVars>>

\* A boot that is aborted (abort_boot) leaves the backend as it was.
LEMMA BringUpRefused ==
    ASSUME BackendInv, BootReady, NEW kind, NEW run, NEW from,
           BringUp(kind, run, from), Refused
    PROVE  Kept
<1>1. AbortBoot
  BY DEF BringUp, Refused, Answer
<1>2. UNCHANGED liveVars
  BY <1>1, AbortIsInvisible DEF BootReady
<1> QED
  BY <1>2 DEF BringUp, Kept

\* Every refused call and every failed boot leaves the backend as it was.
LEMMA StepRefused ==
    ASSUME BackendInv, Next, Refused PROVE Kept
<1>0. CASE \E call, status : Return(call, status)
  BY <1>0 DEF Return, Kept
<1>1. CASE Setter
  <2>1. ~Accept
    BY DEF Accept, Answer, Refused
  <2> QED
    BY <1>0, <1>1, <2>1, SetterCases DEF BackendInv
<1>2. CASE StartMicroVm
  BY <1>0, <1>2, BringUpRefused DEF StartMicroVm, PoolBoot, LongBoot
<1>3. CASE LoadSnapshot
  BY <1>0, <1>3, BringUpRefused DEF LoadSnapshot, LongBoot
<1>4. CASE \E d \in Documents : PutMmds(d)
  BY <1>4 DEF PutMmds, Answer, Refused
<1>5. CASE \E a \in Amounts : UpdateBalloon(a)
  BY <1>0, <1>5 DEF UpdateBalloon, Answer, Refused
<1>6. CASE Pause \/ Resume \/ SendCtrlAltDel
  BY <1>0, <1>6 DEF Pause, Resume, SendCtrlAltDel, SetRun, Answer, Refused
<1>7. CASE GuestStops \/ Restart
  BY <1>7, BackendAssumption DEF GuestStops, Restart, Answer, Refused
<1>8. CASE CreateSnapshot
  BY <1>0, <1>8 DEF CreateSnapshot, Kept
<1> QED
  BY <1>1, <1>2, <1>3, <1>4, <1>5, <1>6, <1>7, <1>8, NextCases

\* A refused call, and a boot that failed, change nothing the client set or the
\* backend holds.
THEOREM RefusedHarmless == Spec => RefusalsHarmless
<1>1. BackendInv /\ [Next]_vars =>
          [Refused => UNCHANGED <<configVars, mmdsVars, liveVars>>]_vars
  BY StepRefused DEF Kept
<1> QED
  BY <1>1, Invariance, PTL DEF Spec, RefusalsHarmless, Refused

-----------------------------------------------------------------------------
Config == <<boot, root, extra, iface, memory, vsock>>

\* A boot is a Boot step of Instance, or none.
LEMMA BringUpImplements ==
    ASSUME BackendInv, BootReady, NEW kind, NEW run \in {"running", "paused"},
           NEW from, BringUp(kind, run, from)
    PROVE  [I!Next]_(I!vars)
<1>0. Config' = Config
  BY DEF BringUp, configVars, Config
<1>1. CASE AbortBoot
  <2>1. state' = state
    BY <1>1 DEF AbortBoot, BootReady, Preboot
  <2> QED
    BY <1>0, <2>1 DEF I!vars, Config
<1>2. CASE state' = IF run = "running" THEN "Running" ELSE "Paused"
  BY <1>0, <1>2 DEF I!Next, I!Boot, BootReady, Preboot, Config
<1> QED
  BY <1>1, <1>2 DEF BringUp

\* Every step of the backend is a step of Instance, or none.
LEMMA StepImplements ==
    ASSUME BackendInv, [Next]_vars PROVE [I!Next]_(I!vars)
<1>0. CASE UNCHANGED <<state, boot, root, extra, iface, memory, vsock>>
  BY <1>0 DEF I!vars
<1>r. CASE \E call, status : Return(call, status)
  BY <1>0, <1>r DEF Return, configVars, liveVars
<1>1. CASE Setter
  <2>1. CASE Return("config", "400")
    BY <1>r, <2>1
  <2>2. CASE ~Return("config", "400")
    <3>1. /\ Accept
          /\ boot' \in BOOLEAN /\ root' \in BOOLEAN /\ extra' \in BOOLEAN
          /\ iface' \in BOOLEAN /\ vsock' \in BOOLEAN /\ memory' \in Memories
      BY <1>1, <2>2, SetterCases DEF BackendInv
    <3> QED
      BY <3>1 DEF Accept, Preboot, liveVars, I!Next, I!Configure
  <2> QED
    BY <2>1, <2>2
<1>2. CASE StartMicroVm
  BY <1>r, <1>2, BringUpImplements DEF StartMicroVm, PoolBoot, LongBoot
<1>3. CASE LoadSnapshot
  BY <1>r, <1>3, BringUpImplements DEF LoadSnapshot, LongBoot
<1>4. CASE \E d \in Documents : PutMmds(d)
  BY <1>0, <1>4 DEF PutMmds, configVars
<1>5. CASE \E a \in Amounts : UpdateBalloon(a)
  BY <1>0, <1>r, <1>5 DEF UpdateBalloon
<1>6. CASE Pause
  BY <1>r, <1>6 DEF Pause, SetRun, configVars, I!Next, I!Pause
<1>7. CASE Resume
  BY <1>r, <1>7 DEF Resume, SetRun, configVars, I!Next, I!Resume
<1>8. CASE SendCtrlAltDel
  BY <1>r, <1>8 DEF SendCtrlAltDel
<1>9. CASE GuestStops
  BY <1>0, <1>9 DEF GuestStops, configVars
<1>10. CASE CreateSnapshot
  BY <1>0, <1>r, <1>10 DEF CreateSnapshot, configVars, liveVars
<1>11. CASE Restart
  BY <1>11 DEF Restart, I!Next, I!Replace
<1>12. CASE UNCHANGED vars
  BY <1>0, <1>12 DEF vars, configVars, liveVars
<1> QED
  BY <1>1, <1>2, <1>3, <1>4, <1>5, <1>6, <1>7, <1>8, <1>9, <1>10, <1>11, <1>12,
     NextCases

\* The backend implements the abstract lifecycle of an instance.
THEOREM InstanceImplemented == Spec => ImplementsInstance
<1>1. Init => I!Init
  BY DEF Init, I!Init
<1>2. BackendInv /\ [Next]_vars => [I!Next]_(I!vars)
  BY StepImplements
<1> QED
  BY <1>1, <1>2, Invariance, PTL DEF Spec, ImplementsInstance, I!Spec
=============================================================================
