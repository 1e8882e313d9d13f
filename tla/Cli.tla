-------------------------------- MODULE Cli --------------------------------
(***************************************************************************)
(* The hephaestus command (hephaestus-cli/src/main.rs): invocations made   *)
(* one after the other from one terminal, each read by CommandLine.        *)
(*                                                                         *)
(* run drives a container through the bridge (hephaestus-bridge/src/lib.rs *)
(* and Bridge.swift); vz-boot, vz-snapshot and vz-sh drive a VM of their   *)
(* own (DirectVZ.swift); vz-exec and vz-warm are the sessions of Exec; the *)
(* pool commands return what Pool's clients return.                        *)
(*                                                                         *)
(* The commands share the terminal, and the machine identity that is kept  *)
(* beside the saved VM states: vz-warm saves vm.warm and vz-snapshot       *)
(* vm.snap, which have the same stem and so the same vm.machineid.  An     *)
(* identity is known by the invocation that made it.                       *)
(***************************************************************************)
EXTENDS Exec, CommandLine

CONSTANTS
    Lines,        \* the command lines typed
    FirstLines,   \* bound: lines typed only by the first invocation
    Inputs,       \* files that exist from the start
    ExitCodes,    \* what a container's init process may exit with
    MaxLaunches,  \* bound: invocations
    Torn          \* a file cut short by a kill

\* A line is made of strings; None is told apart from modes and statuses.
ASSUME CliAssumption ==
    /\ Lines \cup FirstLines \subseteq Seq(STRING)
    /\ None \notin Nat \cup {"cooked", "raw"}

VARIABLES
    at,           \* where the invocation is
    line,         \* its command line, until it is parsed
    cmd,          \* the subcommand it runs, once parsed
    launches,     \* invocations so far
    status,       \* exit status of the last one that returned
    code,         \* the guest's exit code, or None
    tty,          \* mode of the terminal
    before,       \* ... when the invocation was launched
    termios,      \* attributes kept by the bridge's Terminal, or None
    handle,       \* does the HbVm exist?
    sink,         \* does the StdioState exist?
    relay,        \* may the container still call the sink?
    signalled,    \* vz-sh: ExitFlagBox
    mid,          \* the identity in vm.machineid, or None
    using,        \* the identity the running VM was configured with
    ids,          \* the identity each saved state was saved under, or None
    built         \* did rootfs leave an image?

execVars == vars
termVars == <<tty, before, termios>>
ctVars == <<handle, sink, relay, code>>
idVars == <<mid, using, ids>>
restVars == <<launches, built, signalled>>
cliVars == <<at, line, cmd, status, termVars, ctVars, idVars, restVars>>
allVars == <<execVars, cliVars>>

CliInit ==
    /\ Init
    /\ at = "idle"
    /\ line = <<>>
    /\ cmd = <<>>
    /\ launches = 0
    /\ status = None
    /\ code = None
    /\ tty = "cooked"
    /\ before = "cooked"
    /\ termios = None
    /\ handle = FALSE
    /\ sink = FALSE
    /\ relay = FALSE
    /\ signalled = FALSE
    /\ mid = None
    /\ using = None
    /\ ids = [p \in {"vm.warm", "vm.snap"} |-> None]
    /\ built = FALSE

Files ==
    Inputs \cup {p \in DOMAIN ids : ids[p] # None}
           \cup (IF built THEN {"out.ext4"} ELSE {})

-----------------------------------------------------------------------------
(* main() *)

\* Mutant: the code is cut down to a byte.
MutToStatus(c) == c % 256

\* u8::try_from, or 1.
ToStatus(c) == IF c \in 0..255 THEN c ELSE 1

Exit(s) == at' = "idle" /\ status' = s

Launch(l) ==
    /\ at = "idle"
    /\ launches < MaxLaunches
    /\ at' = "parsed"
    /\ line' = l
    /\ cmd' = <<>>
    /\ launches' = launches + 1
    /\ status' = None
    /\ code' = None
    /\ before' = tty
    /\ UNCHANGED <<execVars, tty, termios, handle, sink, relay, idVars, built,
                   signalled>>

Informs ==
    \/ HelpText(line) # <<>>
    \/ line # <<>> /\ line[1] \in {"-V", "--version", "ping"}

Accepted ==
    /\ ~Informs
    /\ Subcommand(line) # <<>>
    /\ Parses(GrammarOf(Subcommand(line)), Arguments(line), Files)

\* Help, the version and ping; or a usage on stderr.
Inform ==
    /\ at = "parsed"
    /\ ~Accepted
    /\ Exit(IF Informs THEN 0 ELSE 2)
    /\ line' = <<>>
    /\ UNCHANGED <<execVars, cmd, termVars, ctVars, idVars, restVars>>

Options == Loop(GrammarOf(Subcommand(line)), Arguments(line)).opts

\* Mutant: a boot that is to be saved gets an identity of its own.
MutIdentity(c) ==
    IF mid \in {None, Torn} \/ c[2] = "save" THEN launches ELSE mid

\* The identity a VM that is saved or restored is configured with: that of the
\* machineid file, or a new one if the file is missing or unreadable.
Identity(c) == IF mid \in {None, Torn} THEN launches ELSE mid

KeepsIdentity(c) == c[1] \in {"vz-warm", "vz-snapshot"}

\* makeSnapshotable comes first in a vz-warm session; buildConfig is a step of
\* its own below.
DispatchSession ==
    LET c == Subcommand(line)
    IN  /\ at = "parsed"
        /\ Accepted
        /\ c[1] \in {"vz-exec", "vz-warm"}
        /\ IF c[1] = "vz-exec"
           THEN Begin("exec", Options["--stdin"] = "on")
           ELSE Begin(c[2], FALSE)
        /\ at' = "session"
        /\ cmd' = c
        /\ line' = <<>>
        /\ IF KeepsIdentity(c)
           THEN mid' = Identity(c) /\ using' = Identity(c)
           ELSE UNCHANGED <<mid, using>>
        /\ UNCHANGED <<status, termVars, ctVars, ids, restVars>>

FirstStep(c) ==
    CASE c[1] = "run" -> IF Options["--tty"] = "on" THEN "buildtty" ELSE "build"
      [] c[1] = "rootfs" -> "rootfs"
      [] c[1] = "pool" -> "pool"
      [] OTHER -> "config"

Dispatch ==
    LET c == Subcommand(line)
    IN  /\ at = "parsed"
        /\ Accepted
        /\ c[1] \notin {"vz-exec", "vz-warm"}
        /\ at' = FirstStep(c)
        /\ cmd' = c
        /\ line' = <<>>
        /\ UNCHANGED <<execVars, status, termVars, ctVars, idVars, restVars>>

-----------------------------------------------------------------------------
(* vz-exec and vz-warm: one session of Exec. *)

\* VZ restores a state only under the identity it was saved under.
SessionStep ==
    /\ at = "session"
    /\ \/ Host
       \/ PumpFails \/ PumpEof \/ Guest \/ GuestCrashes
       \/ \E c \in Codes : ChildExits(c)
    /\ host = "start" /\ op = "run" /\ vm' = "running" =>
            using = ids["vm.warm"]
    /\ ids' = IF host = "save" /\ outcome' = "ok"
              THEN [ids EXCEPT !["vm.warm"] = using] ELSE ids
    /\ UNCHANGED <<at, line, cmd, status, termVars, ctVars, mid, using,
                   restVars>>

\* vz_exec_cmd, vz_warm_save_cmd, vz_warm_run_cmd
SessionReturn ==
    /\ at = "session"
    /\ host = "idle"
    /\ Exit(CASE outcome # "ok" -> 1
              [] outcome = "ok" /\ op = "save" -> 0
              [] OTHER -> ToStatus(answer))
    /\ UNCHANGED <<execVars, line, cmd, termVars, ctVars, idVars, restVars>>

\* pool_init_cmd, pool_run_cmd, pool_stats_cmd, pool_destroy_cmd: what the
\* operation of Pool came to.
PoolReturn ==
    /\ at = "pool"
    /\ \/ Exit(1) /\ UNCHANGED code
       \/ cmd[2] = "run" /\ Exit(75) /\ UNCHANGED code
       \/ cmd[2] # "run" /\ Exit(0) /\ UNCHANGED code
       \/ /\ cmd[2] = "run"
          /\ code' \in Codes
          /\ Exit(ToStatus(code'))
    /\ UNCHANGED <<execVars, line, cmd, termVars, handle, sink, relay, idVars,
                   restVars>>

\* rootfs(): the compression is detected and the archive unpacked; a failure
\* may leave part of an image.
Rootfs ==
    /\ at = "rootfs"
    /\ \/ Exit(0) /\ built' = TRUE
       \/ Exit(1) /\ built' \in {built, TRUE}
    /\ UNCHANGED <<execVars, line, cmd, termVars, ctVars, idVars, launches,
                   signalled>>

-----------------------------------------------------------------------------
(* run: Vm::new, create, start, wait, stop and Drop. *)

\* tryReset: the attributes the Terminal was made with.
Reset == tty' = IF termios = None THEN tty ELSE termios

\* hb_vm_new; with --tty the Terminal is taken but not yet set raw.
Build ==
    /\ at \in {"build", "buildtty"}
    /\ \/ /\ at' = "create"
          /\ handle' = TRUE
          /\ sink' = TRUE
          /\ termios' = IF at = "buildtty" THEN tty ELSE None
          /\ UNCHANGED status
       \/ Exit(1) /\ UNCHANGED <<handle, sink, termios>>
    /\ UNCHANGED <<execVars, line, cmd, tty, before, relay, code, idVars,
                   restVars>>

Create ==
    /\ at = "create"
    /\ at' \in {"start", "drop"}
    /\ UNCHANGED <<execVars, line, cmd, status, termVars, ctVars, idVars,
                   restVars>>

\* hb_vm_start: setraw, then container.start(); from then on what the guest
\* writes goes to the terminal, or to the sink if there is none.
StartContainer ==
    /\ at = "start"
    /\ at' = "wait"
    /\ tty' = IF termios = None THEN tty ELSE "raw"
    /\ relay' = (termios = None)
    /\ UNCHANGED <<execVars, line, cmd, status, before, termios, handle, sink,
                   code, idVars, restVars>>

\* External: how far the start got before it failed is not known.
StartContainerFails ==
    /\ at = "start"
    /\ at' = "drop"
    /\ Reset
    /\ relay' \in {FALSE, termios = None}
    /\ UNCHANGED <<execVars, line, cmd, status, before, termios, handle, sink,
                   code, idVars, restVars>>

\* hb_vm_wait
Wait ==
    /\ at = "wait"
    /\ \/ at' = "stop" /\ code' \in ExitCodes
       \/ at' = "drop" /\ UNCHANGED code
    /\ UNCHANGED <<execVars, line, cmd, status, termVars, handle, sink, relay,
                   idVars, restVars>>

\* hb_vm_stop: container.stop() returns or throws; the terminal is reset.
StopContainer(next) ==
    /\ at' = next
    /\ Reset
    /\ relay' \in {FALSE, relay}
    /\ UNCHANGED <<execVars, line, cmd, status, before, termios, handle, sink,
                   code, idVars, restVars>>

\* run() logs an error of stop; Vm::drop() stops once more.
Stopping ==
    \/ at = "stop" /\ StopContainer("drop")
    \/ at = "drop" /\ StopContainer("free")

\* Mutant: the sink goes with the handle's pointer, ahead of hb_vm_free.
MutFreeHandle ==
    /\ at = "free"
    /\ at' = "freed"
    /\ sink' = FALSE
    /\ UNCHANGED <<execVars, line, cmd, status, termVars, handle, relay, code,
                   idVars, restVars>>

\* hb_vm_free: VmHandle.deinit resets the terminal.  External: without its
\* handle the container makes no more callbacks.
FreeHandle ==
    /\ at = "free"
    /\ at' = "freed"
    /\ handle' = FALSE
    /\ relay' = FALSE
    /\ Reset
    /\ termios' = None
    /\ UNCHANGED <<execVars, line, cmd, status, before, sink, code, idVars,
                   restVars>>

\* The fields of Vm are dropped after Vm::drop.
FreeSink ==
    /\ at = "freed"
    /\ sink' = FALSE
    /\ Exit(IF code = None THEN 1 ELSE ToStatus(code))
    /\ UNCHANGED <<execVars, line, cmd, termVars, handle, relay, code, idVars,
                   restVars>>

-----------------------------------------------------------------------------
(* vz-boot, vz-snapshot and vz-sh. *)

\* buildConfig; hb_vz_sh sets the terminal raw last.  vz-boot has a throwaway
\* identity and vz-sh none.
Configure ==
    /\ at = "config"
    /\ at' = "boot"
    /\ IF KeepsIdentity(cmd)
       THEN mid' = Identity(cmd) /\ using' = Identity(cmd)
       ELSE UNCHANGED <<mid, using>>
    /\ IF cmd = <<"vz-sh">>
       THEN termios' = tty /\ tty' = "raw"
       ELSE UNCHANGED <<termios, tty>>
    /\ signalled' = FALSE
    /\ UNCHANGED <<execVars, line, cmd, status, before, ctVars, ids, launches,
                   built>>

\* ... or throws, before or after it wrote the machineid file.
ConfigureFails ==
    /\ at = "config"
    /\ Exit(1)
    /\ mid' \in {mid} \cup (IF KeepsIdentity(cmd) THEN {Identity(cmd)} ELSE {})
    /\ UNCHANGED <<execVars, line, cmd, termVars, ctVars, using, ids, restVars>>

\* Mutant: vz-sh resets the terminal where it returns normally.
MutLeave(s) ==
    /\ Exit(s)
    /\ IF s = 0 THEN Reset ELSE UNCHANGED tty
    /\ termios' = None
    /\ UNCHANGED <<execVars, line, cmd, before, ctVars, launches, built,
                   signalled>>

\* The call returns; a vz-sh that got this far resets the terminal (defer).
Leave(s) ==
    /\ Exit(s)
    /\ Reset
    /\ termios' = None
    /\ UNCHANGED <<execVars, line, cmd, before, ctVars, launches, built,
                   signalled>>

\* blockingStart; or blockingRestore and blockingResume.
BootVm ==
    /\ at = "boot"
    /\ cmd = <<"vz-snapshot", "restore">> => using = ids["vm.snap"]
    /\ at' = IF cmd = <<"vz-sh">> THEN "shell" ELSE "sleep"
    /\ UNCHANGED <<execVars, line, cmd, status, termVars, ctVars, idVars,
                   restVars>>

BootFails == at = "boot" /\ Leave(1) /\ UNCHANGED idVars

\* Thread.sleep
Sleep ==
    /\ at = "sleep"
    /\ at' = IF cmd = <<"vz-snapshot", "save">> THEN "save" ELSE "halt"
    /\ UNCHANGED <<execVars, line, cmd, status, termVars, ctVars, idVars,
                   restVars>>

\* blockingPause and blockingSave.
SaveState ==
    /\ at = "save"
    /\ at' = "halt"
    /\ ids' = [ids EXCEPT !["vm.snap"] = using]
    /\ UNCHANGED <<execVars, line, cmd, status, termVars, ctVars, mid, using,
                   restVars>>

SaveStateFails == at = "save" /\ Leave(1) /\ UNCHANGED idVars

\* External: the shell ends, which the serial sniffer or the state observer
\* sees, or the VM crashes.
ShellEnds ==
    /\ at = "shell"
    /\ ~signalled
    /\ signalled' = TRUE
    /\ UNCHANGED <<execVars, at, line, cmd, status, termVars, ctVars, idVars,
                   launches, built>>

\* Mutant: the wait has no timeout.
MutShellWait ==
    /\ at = "shell"
    /\ signalled
    /\ at' = "halt"
    /\ UNCHANGED <<execVars, line, cmd, status, termVars, ctVars, idVars,
                   restVars>>

\* exitSem.wait(timeout:)
ShellWait ==
    /\ at = "shell"
    /\ at' = "halt"
    /\ UNCHANGED <<execVars, line, cmd, status, termVars, ctVars, idVars,
                   restVars>>

\* blockingStop returns after 5 s at the latest.
Halt == at = "halt" /\ Leave(0) /\ UNCHANGED idVars

\* SIGKILL: the terminal stays as it is and a file being written is cut short.
Killed ==
    /\ at \notin {"idle", "parsed", "session", "pool"}
    /\ at' = "idle"
    /\ status' = None
    /\ termios' = None
    /\ handle' = FALSE
    /\ sink' = FALSE
    /\ relay' = FALSE
    /\ mid' = IF at = "config" /\ KeepsIdentity(cmd) /\ mid = None
              THEN Torn ELSE mid
    /\ ids' = IF at = "save" THEN [ids EXCEPT !["vm.snap"] = Torn] ELSE ids
    /\ built' \in {built} \cup (IF at = "rootfs" THEN {TRUE} ELSE {})
    /\ UNCHANGED <<execVars, line, cmd, tty, before, code, using, launches,
                   signalled>>

-----------------------------------------------------------------------------
OneShot ==
    \/ Configure \/ ConfigureFails \/ BootVm \/ BootFails \/ Sleep
    \/ SaveState \/ SaveStateFails \/ ShellWait \/ Halt

CliNext ==
    \/ \E l \in Lines : Launch(l)
    \/ launches = 0 /\ \E l \in FirstLines : Launch(l)
    \/ Inform \/ DispatchSession \/ Dispatch
    \/ SessionStep \/ SessionReturn \/ PoolReturn \/ Rootfs
    \/ Build \/ Create \/ StartContainer \/ StartContainerFails \/ Wait
    \/ Stopping \/ FreeHandle \/ FreeSink
    \/ OneShot \/ ShellEnds \/ Killed

\* The process runs and its timeouts lapse; a call into the framework that has
\* no timeout calls its completion handler.  Nothing is assumed of the guest.
CliSpec ==
    /\ CliInit
    /\ [][CliNext]_allVars
    /\ WF_allVars((SessionStep /\ Host) \/ SessionReturn)
    /\ WF_allVars(OneShot)

-----------------------------------------------------------------------------
(* Properties. *)

\* What the parsers make of a line is what its positions say: a field's value is
\* the token after the last of the flags that set it (vz-snapshot takes both
\* --settle-seconds and --run-seconds for its seconds), even if that token looks
\* like a flag or a separator; only what follows the separator goes to the guest, all of
\* it and unchanged; any other line is refused; and which help is printed does
\* not depend on what the guest would be given ("run does not consume guest help
\* after argument separator").
ReadAsWritten ==
    at = "parsed" /\ Subcommand(line) \notin {<<>>, <<"ping">>} =>
        LET g == GrammarOf(Subcommand(line))
            args == Arguments(line)
            s == Loop(g, args)
        IN  /\ (s.mode \in {"flags", "argv"}) <=> (Readings(g, args) # {})
            /\ \A r \in Readings(g, args) :
                  /\ \A o \in Fields(g) : s.opts[o] = Given(args, r, o)
                  /\ s.argv = SubSeq(args, r.sep + 1, Len(args))
                  /\ g.guest => HelpText(line) = HelpText(SubSeq(line, 1, r.sep))

\* An invocation that returns, whichever step failed, leaves the terminal as it
\* found it: "if the caller missed a stop() we still want the user's shell
\* back from raw mode" (VmHandle), "Ensure we always reset, even on Swift error
\* paths" (hb_vz_sh).
TerminalReturned == at = "idle" /\ status # None => tty = before

\* As long as the container may call back, the sink that the callback's
\* userdata points to exists: "userdata was set from StdioState::userdata and
\* outlives the VM" (trampoline).
CallbackHasSink == relay => sink

\* A state on disk was saved under the identity its machineid file holds, so
\* that a restore is not refused for it, across saves and restores of states
\* that share the file, failures and kills: "VZ restore refuses a different
\* machine identifier than the one the state was saved with" (buildConfig).
SavedUnderItsId ==
    \A p \in DOMAIN ids : ids[p] \notin {None, Torn} => ids[p] = mid

\* Status 0 from a command that runs something in a guest means that what it
\* ran in this invocation's guest exited with 0.
SuccessIsGuests ==
    at = "idle" /\ status = 0 =>
        /\ cmd \in {<<"vz-exec">>, <<"vz-warm", "run">>} =>
              child = [cmd |-> session, exit |-> 0]
        /\ cmd \in {<<"run">>, <<"pool", "run">>} => code = 0

\* Every command but run and pool returns, also when the agent never listens,
\* the command or the shell never exits, the guest hangs, or standard input
\* never ends: by the read timeout, the bounded wait for the pump, and the
\* bounds on the sleeps, on the wait for the shell and on the stop of the VM.
CommandReturns ==
    at \in {"session", "config", "boot", "sleep", "save", "shell", "halt"}
        ~> at = "idle"
=============================================================================
