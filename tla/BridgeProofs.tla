---------------------------- MODULE BridgeProofs ----------------------------
(***************************************************************************)
(* Proofs about VsockBridge, for any set of connections.                   *)
(*                                                                         *)
(* The inductive invariant says exactly who holds an Arc of the VM handle  *)
(* in every state of the drop, of the accept thread and of each            *)
(* connection's thread, and that no wake-up connection is on its way while *)
(* the flag `running` is still set.                                        *)
(***************************************************************************)
EXTENDS VsockBridge, TLAPS

HoldersInv ==
    /\ ("backend" \in holders)
          = (dropper \in {"alive", "wake", "join", "remove", "vm"})
    /\ ("accepter" \in holders) = (accepter # "exited")
    /\ \A c \in Conns :
          (c \in holders) = (proxy[c] \in {"handshake", "connect"})

DropInv ==
    /\ running = (dropper = "alive")
    /\ dropper \in {"remove", "vm", "slot", "done"} => accepter = "exited"
    /\ dropper \in {"vm", "slot", "done"} => path # "ours"
    /\ accepter = "exited" =>
          ~running /\ \A c \in Conns : proxy[c] # "queued"

WakeInv ==
    running => /\ backlog \in Seq(Conns)
               /\ accepter = "check" => got \in Conns

BridgeInv == TypeOK /\ HoldersInv /\ DropInv /\ WakeInv

\* The invariant holds when VsockBridge::start has returned.
LEMMA InitInv == Init => BridgeInv
<1> SUFFICES ASSUME Init PROVE BridgeInv
  OBVIOUS
<1> USE BridgeAssumption DEF Init
<1>1. TypeOK
  BY DEF TypeOK, Threads
<1>2. HoldersInv
  BY DEF HoldersInv
<1>3. DropInv
  BY DEF DropInv
<1>4. WakeInv
  BY DEF WakeInv
<1> QED
  BY <1>1, <1>2, <1>3, <1>4 DEF BridgeInv

\* Every step of the accept thread keeps it: a connection it hands over while
\* the flag is set is a client's, never the wake-up.
LEMMA AcceptLoopInv == BridgeInv /\ AcceptLoop => BridgeInv'
<1> SUFFICES ASSUME BridgeInv, AcceptLoop PROVE BridgeInv'
  OBVIOUS
<1> USE BridgeAssumption DEF BridgeInv, TypeOK, Threads
<1>1. CASE Accept
  <2>1. TypeOK'
    BY <1>1 DEF Accept
  <2>2. HoldersInv' /\ DropInv'
    BY <1>1 DEF Accept, HoldersInv, DropInv
  <2>3. WakeInv'
    BY <1>1 DEF Accept, WakeInv
  <2> QED
    BY <2>1, <2>2, <2>3
<1>2. CASE SpawnProxy
  <2>0. got \in Conns
    BY <1>2 DEF SpawnProxy, WakeInv
  <2>1. TypeOK'
    BY <1>2, <2>0 DEF SpawnProxy
  <2>2. HoldersInv'
    BY <1>2, <2>0 DEF SpawnProxy, HoldersInv
  <2>3. DropInv'
    BY <1>2, <2>0 DEF SpawnProxy, DropInv
  <2>4. WakeInv'
    BY <1>2 DEF SpawnProxy, WakeInv
  <2> QED
    BY <2>1, <2>2, <2>3, <2>4
<1>3. CASE ExitLoop
  <2>1. TypeOK'
    BY <1>3 DEF ExitLoop
  <2>2. HoldersInv'
    BY <1>3 DEF ExitLoop, HoldersInv
  <2>3. DropInv'
    BY <1>3 DEF ExitLoop, DropInv
  <2>4. WakeInv'
    BY <1>3 DEF ExitLoop, WakeInv
  <2> QED
    BY <2>1, <2>2, <2>3, <2>4
<1> QED
  BY <1>1, <1>2, <1>3 DEF AcceptLoop

\* So does every step of a connection's thread: it gives up its Arc in the very
\* step that leaves the handshake or the connect.
LEMMA ConnectionInv ==
    ASSUME NEW c \in Conns, BridgeInv, BridgeConnection(c) \/ CopyEnds(c)
    PROVE  BridgeInv'
<1> USE BridgeAssumption DEF BridgeInv, TypeOK, Threads
<1> USE DEF Handshake, BadHandshake, Connect, ConnectFails, CopyEnds,
            BridgeConnection
<1>1. TypeOK'
  <2>1. CASE Handshake(c)
    BY <2>1
  <2>2. CASE BadHandshake(c)
    BY <2>2
  <2>3. CASE Connect(c)
    BY <2>3
  <2>4. CASE ConnectFails(c)
    BY <2>4
  <2>5. CASE CopyEnds(c)
    BY <2>5
  <2> QED
    BY <2>1, <2>2, <2>3, <2>4, <2>5
<1>2. HoldersInv'
  BY DEF HoldersInv
<1>3. DropInv'
  BY DEF DropInv
<1>4. WakeInv'
  BY DEF WakeInv
<1> QED
  BY <1>1, <1>2, <1>3, <1>4

\* So does the drop of the backend, field by field.
LEMMA DropStepInv == BridgeInv /\ (StopRunning \/ Drop) => BridgeInv'
<1> SUFFICES ASSUME BridgeInv, StopRunning \/ Drop PROVE BridgeInv'
  OBVIOUS
<1> USE BridgeAssumption DEF BridgeInv, TypeOK, Threads
<1> USE DEF StopRunning, SelfConnect, Join, RemoveFile, DropVm, DropSlot, Drop
<1>1. TypeOK'
  <2>1. CASE SelfConnect
    <3>1. backlog' \in Seq(Conns \cup {Self})
      BY <2>1
    <3> QED
      BY <2>1, <3>1
  <2>2. CASE DropVm
    BY <2>2
  <2>3. CASE StopRunning \/ Join \/ RemoveFile \/ DropSlot
    BY <2>3
  <2> QED
    BY <2>1, <2>2, <2>3
<1>2. HoldersInv'
  BY DEF HoldersInv
<1>3. DropInv'
  BY DEF DropInv
<1>4. WakeInv'
  BY DEF WakeInv, DropInv
<1> QED
  BY <1>1, <1>2, <1>3, <1>4

\* So do a client that connects and a daemon that takes the path.
LEMMA EnvironmentInv ==
    ASSUME BridgeInv, (\E c \in Conns : ClientConnects(c)) \/ OtherStart
    PROVE  BridgeInv'
<1> USE BridgeAssumption DEF BridgeInv, TypeOK, Threads
<1>1. CASE OtherStart
  BY <1>1 DEF OtherStart, HoldersInv, DropInv, WakeInv
<1>2. CASE \E c \in Conns : ClientConnects(c)
  <2>0. PICK c \in Conns : ClientConnects(c)
    BY <1>2
  <2>1. TypeOK'
    BY <2>0 DEF ClientConnects
  <2>2. HoldersInv'
    BY <2>0 DEF ClientConnects, HoldersInv
  <2>3. DropInv'
    BY <2>0 DEF ClientConnects, DropInv
  <2>4. WakeInv'
    BY <2>0 DEF ClientConnects, WakeInv
  <2> QED
    BY <2>1, <2>2, <2>3, <2>4
<1> QED
  BY <1>1, <1>2

\* The inductive invariant of the bridge.
THEOREM Invariance == Spec => []BridgeInv
<1>1. BridgeInv /\ [Next]_vars => BridgeInv'
  <2> SUFFICES ASSUME BridgeInv, [Next]_vars PROVE BridgeInv'
    OBVIOUS
  <2>1. CASE UNCHANGED vars
    BY <2>1 DEF vars, BridgeInv, TypeOK, Threads, HoldersInv, DropInv, WakeInv
  <2>2. CASE Next
    BY <2>2, AcceptLoopInv, ConnectionInv, DropStepInv, EnvironmentInv DEF Next
  <2> QED
    BY <2>1, <2>2
<1> QED
  BY InitInv, <1>1, PTL DEF Spec

\* Types are preserved.
THEOREM TypeCorrect == Spec => []TypeOK
<1>1. BridgeInv => TypeOK
  BY DEF BridgeInv
<1> QED
  BY <1>1, Invariance, PTL

\* No connection's thread calls into a freed VM handle, for any number of
\* connections and wherever the drop of the backend is.
THEOREM HandleSafe == Spec => []HandleOutlivesUse
<1>1. BridgeInv => HandleOutlivesUse
  BY DEF BridgeInv, HoldersInv, HandleOutlivesUse, VmAlive
<1> QED
  BY <1>1, Invariance, PTL

\* Once Drop for VsockBridge has returned the bridge is quiet.
THEOREM DropQuiet == Spec => []QuietAfterDrop
<1>1. BridgeInv => QuietAfterDrop
  BY DEF BridgeInv, DropInv, QuietAfterDrop
<1> QED
  BY <1>1, Invariance, PTL

\* After the drop only a handshake or a connect still in progress keeps the VM.
THEOREM VmNotPinned == Spec => []CopyDoesNotPinVm
<1>1. BridgeInv => CopyDoesNotPinVm
  BY DEF BridgeInv, TypeOK, Threads, HoldersInv, DropInv, CopyDoesNotPinVm
<1> QED
  BY <1>1, Invariance, PTL
=============================================================================
