---------------------------- MODULE VsockBridge ----------------------------
(***************************************************************************)
(* The vsock bridge of a booted backend and the teardown of what the       *)
(* backend holds (src/hephaestus-firecracker/src/backend.rs 329-343 and    *)
(* 1330-1454): an accept thread on a Unix socket, one detached thread per  *)
(* accepted connection, the thread that drops the backend, and the `Arc`   *)
(* through which they share the VM handle.                                 *)
(*                                                                         *)
(* Connections are the host clients of the socket.  What they send is      *)
(* abstracted to whether a well-formed CONNECT line arrives in time.       *)
(***************************************************************************)
EXTENDS Naturals, Sequences, FiniteSets

CONSTANTS
    Conns,       \* host connections
    Self         \* the connection Drop makes to its own socket

ASSUME BridgeAssumption ==
    /\ IsFiniteSet(Conns)
    /\ Self \notin Conns
    /\ {"backend", "accepter"} \cap Conns = {}

VARIABLES
    path,        \* whose listener uds_path names: "ours", "other" or "none"
    backlog,     \* connections queued on our listener
    running,     \* the flag `running`
    accepter,    \* the accept thread: blocked in accept, holding what it got
    got,         \*   the connection it accepted
    proxy,       \* the thread of each connection
    holders,     \* who holds an Arc of the VM handle
    dropper,     \* where the drop of the backend is
    slot         \* is the pool slot, and its rootfs clone, still there?

vars == <<path, backlog, running, accepter, got, proxy, holders, dropper, slot>>

Threads == {"backend", "accepter"} \cup Conns

TypeOK ==
    /\ path \in {"ours", "other", "none"}
    /\ backlog \in Seq(Conns \cup {Self})
    /\ running \in BOOLEAN
    /\ accepter \in {"accept", "check", "exited"}
    /\ got \in Conns \cup {Self}
    /\ proxy \in [Conns -> {"none", "queued", "handshake", "connect", "copy",
                            "done"}]
    /\ holders \subseteq Threads
    /\ dropper \in {"alive", "wake", "join", "remove", "vm", "slot", "done"}
    /\ slot \in BOOLEAN

\* The VM is freed by whoever lets go of the last Arc.
VmAlive == holders # {}

\* VsockBridge::start: the socket is bound, the accept thread has its clone.
Init ==
    /\ path = "ours"
    /\ backlog = <<>>
    /\ running = TRUE
    /\ accepter = "accept"
    /\ got = Self
    /\ proxy = [c \in Conns |-> "none"]
    /\ holders = {"backend", "accepter"}
    /\ dropper = "alive"
    /\ slot = TRUE

-----------------------------------------------------------------------------
(* accept_loop. *)

Accept ==
    /\ accepter = "accept"
    /\ backlog # <<>>
    /\ got' = Head(backlog)
    /\ backlog' = Tail(backlog)
    /\ accepter' = "check"
    /\ UNCHANGED <<path, running, proxy, holders, dropper, slot>>

\* Mutant: the thread borrows the handle instead of cloning the Arc.
MutBorrowedHandle ==
    /\ accepter = "check"
    /\ running
    /\ proxy' = [proxy EXCEPT ![got] = "handshake"]
    /\ accepter' = "accept"
    /\ UNCHANGED <<path, backlog, running, got, holders, dropper, slot>>

\* The connection is handed, with a clone of the Arc, to a thread of its own.
SpawnProxy ==
    /\ accepter = "check"
    /\ running
    /\ proxy' = [proxy EXCEPT ![got] = "handshake"]
    /\ holders' = holders \cup {got}
    /\ accepter' = "accept"
    /\ UNCHANGED <<path, backlog, running, got, dropper, slot>>

\* The loop ends: the connection in hand, the listener with whatever is queued
\* on it, and the Arc are dropped.
ExitLoop ==
    /\ accepter = "check"
    /\ ~running
    /\ accepter' = "exited"
    /\ proxy' = [c \in Conns |->
                    IF proxy[c] = "queued" THEN "done" ELSE proxy[c]]
    /\ backlog' = <<>>
    /\ holders' = holders \ {"accepter"}
    /\ UNCHANGED <<path, running, got, dropper, slot>>

-----------------------------------------------------------------------------
(* bridge_connection. *)

\* read_connect_line and parse_connect_line found a port.
Handshake(c) ==
    /\ proxy[c] = "handshake"
    /\ proxy' = [proxy EXCEPT ![c] = "connect"]
    /\ UNCHANGED <<path, backlog, running, accepter, got, holders, dropper, slot>>

\* No line within 64 bytes, no byte within 5 s, or no valid port.
BadHandshake(c) ==
    /\ proxy[c] = "handshake"
    /\ proxy' = [proxy EXCEPT ![c] = "done"]
    /\ holders' = holders \ {c}
    /\ UNCHANGED <<path, backlog, running, accepter, got, dropper, slot>>

\* Mutant: the Arc is kept until the copy ends.
MutKeepArc(c) ==
    /\ proxy[c] = "connect"
    /\ proxy' = [proxy EXCEPT ![c] = "copy"]
    /\ UNCHANGED <<path, backlog, running, accepter, got, holders, dropper, slot>>

\* connect_vsock succeeds; the Arc is dropped before the copy starts.
Connect(c) ==
    /\ proxy[c] = "connect"
    /\ proxy' = [proxy EXCEPT ![c] = "copy"]
    /\ holders' = holders \ {c}
    /\ UNCHANGED <<path, backlog, running, accepter, got, dropper, slot>>

ConnectFails(c) ==
    /\ proxy[c] = "connect"
    /\ proxy' = [proxy EXCEPT ![c] = "done"]
    /\ holders' = holders \ {c}
    /\ UNCHANGED <<path, backlog, running, accepter, got, dropper, slot>>

\* Both directions of the copy have ended.
CopyEnds(c) ==
    /\ proxy[c] = "copy"
    /\ proxy' = [proxy EXCEPT ![c] = "done"]
    /\ UNCHANGED <<path, backlog, running, accepter, got, holders, dropper, slot>>

-----------------------------------------------------------------------------
(* The drop of the backend, field by field.  Drop for VsockBridge first. *)

StopRunning ==
    /\ dropper = "alive"
    /\ running' = FALSE
    /\ dropper' = "wake"
    /\ UNCHANGED <<path, backlog, accepter, got, proxy, holders, slot>>

\* Mutant: the accept thread is not woken.
MutNoWake ==
    /\ dropper = "wake"
    /\ dropper' = "join"
    /\ UNCHANGED <<path, backlog, running, accepter, got, proxy, holders, slot>>

\* The connection to uds_path: it reaches our listener only while the path
\* names it.
SelfConnect ==
    /\ dropper = "wake"
    /\ backlog' = IF path = "ours" /\ accepter # "exited"
                  THEN Append(backlog, Self) ELSE backlog
    /\ dropper' = "join"
    /\ UNCHANGED <<path, running, accepter, got, proxy, holders, slot>>

\* Mutant: the accept thread is detached.
MutDetach ==
    /\ dropper = "join"
    /\ dropper' = "remove"
    /\ UNCHANGED <<path, backlog, running, accepter, got, proxy, holders, slot>>

Join ==
    /\ dropper = "join"
    /\ accepter = "exited"
    /\ dropper' = "remove"
    /\ UNCHANGED <<path, backlog, running, accepter, got, proxy, holders, slot>>

\* remove_file removes whatever is at the path by now.
RemoveFile ==
    /\ dropper = "remove"
    /\ path' = "none"
    /\ dropper' = "vm"
    /\ UNCHANGED <<backlog, running, accepter, got, proxy, holders, slot>>

\* Then the field `vm`.
DropVm ==
    /\ dropper = "vm"
    /\ holders' = holders \ {"backend"}
    /\ dropper' = "slot"
    /\ UNCHANGED <<path, backlog, running, accepter, got, proxy, slot>>

\* Then the field `pool_slot`, whose Drop deletes the rootfs clone.
DropSlot ==
    /\ dropper = "slot"
    /\ slot' = FALSE
    /\ dropper' = "done"
    /\ UNCHANGED <<path, backlog, running, accepter, got, proxy, holders>>

-----------------------------------------------------------------------------
(* The environment. *)

\* External: a host client connects to the socket.
ClientConnects(c) ==
    /\ proxy[c] = "none"
    /\ path = "ours"
    /\ accepter # "exited"
    /\ backlog' = Append(backlog, c)
    /\ proxy' = [proxy EXCEPT ![c] = "queued"]
    /\ UNCHANGED <<path, running, accepter, got, holders, dropper, slot>>

\* VsockBridge::start of another daemon configured with the same uds_path
\* removes the file and binds its own listener there.
OtherStart ==
    /\ path # "other"
    /\ path' = "other"
    /\ UNCHANGED <<backlog, running, accepter, got, proxy, holders, dropper, slot>>

-----------------------------------------------------------------------------
AcceptLoop == Accept \/ SpawnProxy \/ ExitLoop

BridgeConnection(c) ==
    \/ Handshake(c) \/ BadHandshake(c)
    \/ Connect(c) \/ ConnectFails(c)

Drop == SelfConnect \/ Join \/ RemoveFile \/ DropVm \/ DropSlot

Next ==
    \/ AcceptLoop
    \/ StopRunning
    \/ Drop
    \/ \E c \in Conns : BridgeConnection(c) \/ CopyEnds(c) \/ ClientConnects(c)
    \/ OtherStart

Spec == Init /\ [][Next]_vars

\* Threads are scheduled; a drop that has begun is carried on; the handshake
\* of a connection ends because every read has a timeout and 64 bytes are the
\* most that is read; the framework answers a connect.  Nothing makes a client
\* connect, a copy end, or the backend be dropped.
FairSpec ==
    /\ Spec
    /\ WF_vars(AcceptLoop)
    /\ WF_vars(Drop)
    /\ \A c \in Conns : WF_vars(BridgeConnection(c))

-----------------------------------------------------------------------------
(* Properties. *)

\* No thread calls into a VM handle that has been freed (the doc comment of
\* VsockBridge): whoever is about to call connect_vsock holds an Arc, and once
\* the VM is freed no connection can reach that point again.
HandleOutlivesUse ==
    \A c \in Conns : proxy[c] \in {"handshake", "connect"} => VmAlive

\* When Drop for VsockBridge has returned, the accept thread is gone, the
\* connections still queued were closed, and no connection is taken up any more.
QuietAfterDrop ==
    dropper \in {"vm", "slot", "done"} =>
        /\ accepter = "exited"
        /\ \A c \in Conns : proxy[c] # "queued"
        /\ path # "ours"

\* A copy in progress does not keep the VM alive (bridge_connection drops its
\* Arc before the copy): with the backend gone, only a handshake or a connect
\* that is still running does.
CopyDoesNotPinVm ==
    dropper = "done" =>
        \A h \in holders : h \in Conns /\ proxy[h] \in {"handshake", "connect"}

\* A drop of the backend that has begun ends, as long as no other daemon takes
\* the path: the self-connect wakes the accept thread whatever it was doing, so
\* the join returns.
DropCompletes == (dropper = "wake") ~> (dropper = "done" \/ path = "other")

\* The VM of a dropped backend is freed in the end, silent clients and copies
\* that never end notwithstanding.
VmFreed == (dropper = "wake") ~> (~VmAlive \/ path = "other")

\* The order the fields are dropped in is there so that no rootfs clone is
\* deleted under a live VM (backend.rs 329-334).
SlotOutlivesVm == VmAlive => slot
=============================================================================
