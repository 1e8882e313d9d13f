------------------------------- MODULE Exec --------------------------------
(***************************************************************************)
(* One command in one VM: the host side of vz-exec and vz-warm             *)
(* (swift/HephaestusBridge/Sources/HephaestusBridge/DirectVZ.swift) and    *)
(* the guest agent (guest/hephaestus-agent/src/main.rs) over a vsock.      *)
(*                                                                         *)
(* A session is one call of hb_vz_exec ("exec"), hb_vz_exec_snapshot_save  *)
(* ("save") or hb_vz_exec_snapshot_restore ("run").  A command is known by *)
(* the number of the session that sent it.  Bytes of standard input are    *)
(* not told apart; what matters is whether the pump that carries them      *)
(* still reads, saw the end, or failed.                                    *)
(***************************************************************************)
EXTENDS Naturals, Sequences

CONSTANTS
    Codes,         \* exit codes
    MaxAttempts,   \* attempts of connectToAgent (50)
    MaxSessions,   \* bound: sessions
    None

ASSUME ExecAssumption ==
    /\ Codes \subseteq Nat
    /\ MaxAttempts \in Nat \ {0}
    /\ MaxSessions \in Nat
    /\ None \notin Codes
    /\ None \notin {"probe", "main"}

VARIABLES
    host,          \* where the session is
    session,       \* its number
    op,            \* "exec", "save" or "run"
    attempts,      \* connection attempts left
    stdin,         \* is standard input forwarded?
    pump,          \* the thread that forwards it
    answer,        \* the exit code read from the guest
    outcome,       \* what the session returned
    vm,            \* the session's VM
    agent,         \* the agent: its place and the connection it serves
    backlog,       \* connections waiting to be accepted
    wire,          \* what the agent can read from each connection
    child,         \* the command the agent started: [cmd, exit], or None
    written,       \* the exit code the agent wrote, or None
    image          \* the saved VM state: agent and backlog, or None

hostVars == <<host, session, op, attempts, stdin, answer, outcome>>
guestVars == <<agent, child, written>>
linkVars == <<backlog, wire>>
vars == <<hostVars, pump, vm, guestVars, linkVars, image>>

Ends == {"probe", "main"}
Agents == [at : {"boot", "accept", "read", "run", "halt"},
           serving : Ends \cup {None}]

TypeOK ==
    /\ host \in {"idle", "start", "connect", "settle", "save", "send", "await",
                 "drain", "stop"}
    /\ session \in 0..MaxSessions
    /\ op \in {"exec", "save", "run"}
    /\ attempts \in 0..MaxAttempts
    /\ stdin \in BOOLEAN
    /\ pump \in {"off", "reading", "eof", "failed"}
    /\ answer \in Codes \cup {None}
    /\ outcome \in {"ok", "error", "timeout", None}
    /\ vm \in {"off", "running", "paused"}
    /\ agent \in Agents
    /\ backlog \in Seq(Ends)
    /\ wire \in [Ends -> {"none", "open", "command", "closed"}]
    /\ child \in [cmd : 1..MaxSessions, exit : Codes \cup {None}] \cup {None}
    /\ written \in Codes \cup {None}
    /\ image # None => image.agent \in Agents /\ image.backlog \in Seq(Ends)

Booting == [at |-> "boot", serving |-> None]

Init ==
    /\ host = "idle"
    /\ session = 0
    /\ op = "exec"
    /\ attempts = 0
    /\ stdin = FALSE
    /\ pump = "off"
    /\ answer = None
    /\ outcome = None
    /\ vm = "off"
    /\ agent = Booting
    /\ backlog = <<>>
    /\ wire = [c \in Ends |-> "none"]
    /\ child = None
    /\ written = None
    /\ image = None

-----------------------------------------------------------------------------
(* The host. *)

\* One call in a process of its own; only exec forwards standard input.
Begin(kind, fwd) ==
    /\ host = "idle"
    /\ session < MaxSessions
    /\ kind = "run" => image # None
    /\ fwd => kind = "exec"
    /\ host' = "start"
    /\ session' = session + 1
    /\ op' = kind
    /\ attempts' = MaxAttempts
    /\ stdin' = fwd
    /\ pump' = "off"
    /\ answer' = None
    /\ outcome' = None
    /\ vm' = "off"
    /\ agent' = Booting
    /\ backlog' = <<>>
    /\ wire' = [c \in Ends |-> "none"]
    /\ child' = None
    /\ written' = None
    /\ UNCHANGED image

\* blockingStart; or blockingRestore and blockingResume, after which the guest
\* is where it was saved and its connections are dead.
StartVm ==
    /\ host = "start"
    /\ vm' = "running"
    /\ host' = "connect"
    /\ IF op = "run"
       THEN /\ agent' = image.agent
            /\ backlog' = image.backlog
            /\ wire' = [c \in Ends |-> "closed"]
       ELSE UNCHANGED <<agent, backlog, wire>>
    /\ UNCHANGED <<session, op, attempts, stdin, answer, outcome, pump, child,
                   written, image>>

\* A call that blocks on the framework throws.
Throws(place) ==
    /\ host = place
    /\ host' = "stop"
    /\ outcome' = "error"
    /\ UNCHANGED <<session, op, attempts, stdin, answer, pump, vm, guestVars,
                   linkVars, image>>

StartFails == Throws("start")

\* The connection a session makes: a probe before a save, else the command's.
End == IF op = "save" THEN "probe" ELSE "main"

\* Mutant: the connect succeeds as soon as the VM runs.
MutAlwaysListening == vm = "running"

Listening == vm = "running" /\ agent.at \in {"accept", "read", "run"}

\* connectOnce succeeds once the agent listens.
Connect ==
    /\ host = "connect"
    /\ Listening
    /\ backlog' = Append(backlog, End)
    /\ wire' = [wire EXCEPT ![End] = "open"]
    /\ host' = IF op = "save" THEN "settle" ELSE "send"
    /\ UNCHANGED <<session, op, attempts, stdin, answer, outcome, pump, vm,
                   guestVars, image>>

\* connectOnce fails; after the last attempt its error is thrown.
ConnectFails ==
    /\ host = "connect"
    /\ ~Listening
    /\ attempts' = attempts - 1
    /\ IF attempts = 1
       THEN host' = "stop" /\ outcome' = "error"
       ELSE UNCHANGED <<host, outcome>>
    /\ UNCHANGED <<session, op, stdin, answer, pump, vm, guestVars, linkVars,
                   image>>

\* The probe is closed; 200 ms later, whether or not the agent has noticed, the
\* VM is paused.
CloseProbe ==
    /\ host = "settle"
    /\ wire' = [wire EXCEPT !["probe"] = "closed"]
    /\ host' = "save"
    /\ UNCHANGED <<session, op, attempts, stdin, answer, outcome, pump, vm,
                   guestVars, backlog, image>>

\* blockingPause and blockingSave.
PauseAndSave ==
    /\ host = "save"
    /\ vm = "running"
    /\ vm' = "paused"
    /\ image' = [agent |-> agent, backlog |-> backlog]
    /\ host' = "stop"
    /\ outcome' = "ok"
    /\ UNCHANGED <<session, op, attempts, stdin, answer, pump, guestVars,
                   linkVars>>

SaveFails == Throws("save")

\* The length-prefixed command; with it the stdin pump is started.
SendCommand ==
    /\ host = "send"
    /\ wire["main"] = "open"
    /\ wire' = [wire EXCEPT !["main"] = "command"]
    /\ pump' = IF stdin THEN "reading" ELSE "off"
    /\ host' = "await"
    /\ UNCHANGED <<session, op, attempts, stdin, answer, outcome, vm, guestVars,
                   backlog, image>>

SendFails ==
    /\ wire["main"] = "closed"
    /\ Throws("send")

\* Mutant: an end of file leaves the buffer of zeros it was read into.
MutEofIsZero ==
    /\ host = "await"
    /\ written # None \/ wire["main"] = "closed"
    /\ answer' = IF written # None THEN written ELSE 0
    /\ host' = "drain"
    /\ UNCHANGED <<session, op, attempts, stdin, outcome, pump, vm, guestVars,
                   linkVars, image>>

ReadCode ==
    /\ host = "await"
    /\ written # None
    /\ answer' = written
    /\ host' = "drain"
    /\ UNCHANGED <<session, op, attempts, stdin, outcome, pump, vm, guestVars,
                   linkVars, image>>

\* The guest's end is closed and nothing was written to it.
ShortRead ==
    /\ written = None
    /\ wire["main"] = "closed"
    /\ Throws("await")

\* SO_RCVTIMEO lapses.
ReadTimesOut ==
    /\ host = "await"
    /\ host' = "stop"
    /\ outcome' = "timeout"
    /\ UNCHANGED <<session, op, attempts, stdin, answer, pump, vm, guestVars,
                   linkVars, image>>

\* The pump is waited for, for at most 5 s; an error of its own is thrown.
Drain ==
    /\ host = "drain"
    /\ host' = "stop"
    /\ outcome' = IF pump = "failed" THEN "error" ELSE "ok"
    /\ UNCHANGED <<session, op, attempts, stdin, answer, pump, vm, guestVars,
                   linkVars, image>>

\* exec stops the VM on every path, save and run where nothing was thrown; the
\* connection is closed in any case.  blockingStop gives up after 5 s, and what
\* it returns is ignored.
Stop ==
    /\ host = "stop"
    /\ vm' \in {vm} \cup (IF op = "exec" \/ outcome = "ok" THEN {"off"} ELSE {})
    /\ wire' = [c \in Ends |-> "closed"]
    /\ host' = "idle"
    /\ UNCHANGED <<session, op, attempts, stdin, answer, outcome, pump,
                   guestVars, backlog, image>>

\* pumpStdinToVsock writes what it read; with the guest's end closed the write
\* fails.
PumpFails ==
    /\ pump = "reading"
    /\ wire["main"] = "closed"
    /\ pump' = "failed"
    /\ UNCHANGED <<hostVars, vm, guestVars, linkVars, image>>

\* Standard input ends; SHUT_WR tells the guest.
PumpEof ==
    /\ pump = "reading"
    /\ pump' = "eof"
    /\ UNCHANGED <<hostVars, vm, guestVars, linkVars, image>>

-----------------------------------------------------------------------------
(* The agent. *)

Goes(place, end) == agent' = [at |-> place, serving |-> end]

\* run(): mounts done, vsock_listen.
Listen ==
    /\ vm = "running"
    /\ agent.at = "boot"
    /\ Goes("accept", None)
    /\ UNCHANGED <<hostVars, pump, vm, child, written, linkVars, image>>

\* run() fails before it listens, or run_command fails: halt().  accept() on
\* the bound listener is taken not to fail.
AgentFails ==
    /\ vm = "running"
    /\ agent.at \in {"boot", "run"}
    /\ agent.at = "run" => child.exit = None
    /\ Goes("halt", None)
    /\ wire' = [wire EXCEPT !["main"] = "closed"]
    /\ UNCHANGED <<hostVars, pump, vm, child, written, backlog, image>>

AcceptConn ==
    /\ vm = "running"
    /\ agent.at = "accept"
    /\ backlog # <<>>
    /\ Goes("read", Head(backlog))
    /\ backlog' = Tail(backlog)
    /\ UNCHANGED <<hostVars, pump, vm, child, written, wire, image>>

\* read_command has a command; the child is spawned.
ReadCommand ==
    /\ vm = "running"
    /\ agent.at = "read"
    /\ wire[agent.serving] = "command"
    /\ Goes("run", agent.serving)
    /\ child' = [cmd |-> session, exit |-> None]
    /\ UNCHANGED <<hostVars, pump, vm, written, linkVars, image>>

\* The peer closed without a command, or sent none for 30 s.
DropProbe ==
    /\ vm = "running"
    /\ agent.at = "read"
    /\ wire[agent.serving] # "command"
    /\ Goes("accept", None)
    /\ wire' = [wire EXCEPT ![agent.serving] = "closed"]
    /\ UNCHANGED <<hostVars, pump, vm, child, written, backlog, image>>

\* External: /bin/sh -c exits, or is killed by a signal.
ChildExits(code) ==
    /\ vm = "running"
    /\ agent.at = "run"
    /\ child.exit = None
    /\ child' = [child EXCEPT !.exit = code]
    /\ UNCHANGED <<hostVars, pump, vm, agent, written, linkVars, image>>

\* write_exit_code, the stream is dropped, halt().  The thread that feeds the
\* child's standard input still holds a clone of the stream.
WriteCode ==
    /\ vm = "running"
    /\ agent.at = "run"
    /\ child.exit # None
    /\ written' = IF wire[agent.serving] = "closed" THEN written ELSE child.exit
    /\ wire' = IF stdin THEN wire ELSE [wire EXCEPT ![agent.serving] = "closed"]
    /\ Goes("halt", None)
    /\ UNCHANGED <<hostVars, pump, vm, child, backlog, image>>

VmGone ==
    /\ vm = "running"
    /\ vm' = "off"
    /\ wire' = [c \in Ends |-> "closed"]
    /\ UNCHANGED <<hostVars, pump, guestVars, backlog, image>>

\* reboot(RB_POWER_OFF)
PowerOff == agent.at = "halt" /\ VmGone

\* External: the guest kernel panics.
GuestCrashes == agent.at # "halt" /\ VmGone

-----------------------------------------------------------------------------
Host ==
    \/ StartVm \/ StartFails \/ Connect \/ ConnectFails
    \/ CloseProbe \/ PauseAndSave \/ SaveFails
    \/ SendCommand \/ SendFails \/ ReadCode \/ ShortRead \/ ReadTimesOut
    \/ Drain \/ Stop

Guest ==
    \/ Listen \/ AgentFails \/ AcceptConn \/ ReadCommand \/ DropProbe
    \/ WriteCode \/ PowerOff

Next ==
    \/ \E kind \in {"exec", "save", "run"}, fwd \in BOOLEAN : Begin(kind, fwd)
    \/ Host
    \/ PumpFails \/ PumpEof
    \/ Guest
    \/ \E code \in Codes : ChildExits(code)
    \/ GuestCrashes

Spec == Init /\ [][Next]_vars

\* The host's thread runs and its timeouts lapse.  Nothing is assumed of the
\* guest: it may hang at any point.
FairSpec == Spec /\ WF_vars(Host)

-----------------------------------------------------------------------------
(* Properties. *)

\* The exit code a session returns is that of the command it sent, run in its
\* own VM: not that of an earlier session, nor one the VM state was saved with.
AnswerTrue ==
    answer # None => child = [cmd |-> session, exit |-> answer]

\* What is saved is an agent that has not started a command and has no
\* connection but the probe, so that each VM restored from it takes a command
\* of its own ("lets the host probe [...] without using up our single command
\* slot").  It need not be back in accept() yet.
ImageReady ==
    image # None =>
        /\ image.agent.at \in {"accept", "read"}
        /\ image.agent.serving # "main"
        /\ image.backlog \in {<<>>, <<"probe">>}

\* Once the exit code has been read, it is what the session returns, whether or
\* not the child consumed its standard input: "we read the exit code first,
\* then the pump thread observes EOF on stdin and exits" (DirectVZ.swift), and
\* the agent's "writing the exit code is safe" (run_command).
AnswerReported ==
    [][host = "drain" /\ host' = "stop" => outcome' = "ok"]_vars
=============================================================================
