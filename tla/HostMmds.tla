----------------------------- MODULE HostMmds ------------------------------
(***************************************************************************)
(* The transparent MMDS responder: the TCP subset that PacketResponder     *)
(* (src/hephaestus-firecracker/src/host_mmds.rs) speaks to a guest over a  *)
(* vmnet interface, for one client key.  The guest's TCP is external and   *)
(* does what a TCP client does: it retransmits what is not acknowledged,   *)
(* takes data in order, and answers every other data frame with an ACK.    *)
(*                                                                         *)
(* Bytes are units: a request is a few units of which the last completes   *)
(* it (the blank line), a response is Chunks frames of one unit each.      *)
(* Sequence numbers wrap at Modulus.  The link keeps the order of frames   *)
(* and may lose them.                                                      *)
(***************************************************************************)
EXTENDS Naturals, Sequences

CONSTANTS
    Documents,   \* MMDS documents
    ReqLens,     \* lengths of a request
    Chunks,      \* number of frames of a response
    MaxRequest,  \* the 64 KiB a connection may buffer
    Modulus,     \* size of the sequence space (2^32)
    ClientIsn,   \* the client's initial sequence number
    ServerIsns,  \* what initial_sequence may return
    MaxFlight,   \* bound: frames on the link when the client adds one of its own
    MaxFetches,  \* bound: connections the client opens from this port
    MaxLosses,   \* bound: frames the link loses
    None

ASSUME HostMmdsAssumption ==
    /\ ReqLens \subseteq Nat \ {0}
    /\ Chunks \in Nat \ {0}
    /\ MaxRequest \in Nat
    /\ MaxFlight \in Nat
    /\ Modulus \in Nat
    /\ \A len \in ReqLens : Modulus > 2 * (len + Chunks + 2)
    /\ ClientIsn \in 0..Modulus - 1
    /\ ServerIsns \subseteq 0..Modulus - 1
    /\ None \notin Documents \cup 0..Modulus - 1

VARIABLES
    mmds,        \* mmds_shared
    conn,        \* the Connection of the client's key, or None
    lastIsn,     \* server_first of the last SYN answered
    running,     \* VmnetMmdsResponder.running
    up, down,    \* frames from and to the guest
    client,      \* the guest's socket
    fetches,     \* connections opened so far
    since,       \* documents current at some time since the fetch began
    lost,        \* has a frame of this fetch's response been lost?
    losses       \* frames lost so far

vars == <<mmds, conn, lastIsn, running, up, down, client, fetches, since, lost,
          losses>>

Seqs == 0..Modulus - 1

\* wrapping_add
Plus(a, b) == (a + b) % Modulus

\* The distance from b up to a.
Minus(a, b) == (a + Modulus - b) % Modulus

\* Frames carry flags, a sequence and an acknowledgement number, and a payload:
\* for the client a run of request units, for the server one of a response.
Frame(flag, seq, ack, load) ==
    [flag |-> flag, seq |-> seq, ack |-> ack, load |-> load]

BlankLine == 0

Chunk(d, i) == [doc |-> d, index |-> i]

Init ==
    /\ mmds \in Documents
    /\ conn = None
    /\ lastIsn = None
    /\ running = TRUE
    /\ up = <<>> /\ down = <<>>
    /\ client \in [st : {"closed"}, len : ReqLens, una : {0}, nxt : {0},
                   peer : {None}, got : {<<>>}]
    /\ fetches = 0
    /\ since = {}
    /\ lost = FALSE
    /\ losses = 0

-----------------------------------------------------------------------------
(* The responder's thread: PacketResponder::process_ipv4 on the first frame  *)
(* of the link, and the frames it returns written to the link.               *)

\* The replies to a frame are written one after the other; the first write that
\* fails drops the rest and ends the responder for good.
Write(replies) ==
    \E k \in 0..Len(replies) :
        /\ down' = down \o SubSeq(replies, 1, k)
        /\ running' = (k = Len(replies))

\* vmnet_read fails, or the responder is dropped.
ReadFails ==
    /\ running
    /\ running' = FALSE
    /\ UNCHANGED <<mmds, conn, lastIsn, up, down, client, fetches, since, lost,
                   losses>>

\* Mutant: a SYN for a known key is answered from the entry it has.
MutKeepOnSyn ==
    /\ running
    /\ up # <<>>
    /\ LET f == Head(up) IN
       /\ f.flag = "syn"
       /\ \E isn \in ServerIsns :
             LET c == IF conn # None THEN conn
                      ELSE [next |-> Plus(f.seq, 1), first |-> isn,
                            request |-> <<>>, response |-> None]
             IN  /\ conn' = c
                 /\ lastIsn' = c.first
                 /\ Write(<<Frame("synack", c.first, Plus(f.seq, 1), <<>>)>>)
    /\ up' = Tail(up)
    /\ UNCHANGED <<mmds, client, fetches, since, lost, losses>>

\* The SYN of a new connection, of a retransmission, or of a port used again:
\* the key's entry is replaced, with a new initial sequence number (one of the
\* clock, which may be any distance from the last).
ProcessSyn ==
    /\ running
    /\ up # <<>>
    /\ LET f == Head(up) IN
       /\ f.flag = "syn"
       /\ \E isn \in ServerIsns :
             /\ conn' = [next |-> Plus(f.seq, 1), first |-> isn,
                         request |-> <<>>, response |-> None]
             /\ lastIsn' = isn
             /\ Write(<<Frame("synack", isn, Plus(f.seq, 1), <<>>)>>)
    /\ up' = Tail(up)
    /\ UNCHANGED <<mmds, client, fetches, since, lost, losses>>

\* Mutant: a payload is taken whatever its sequence number.
MutAnyOrder(c, f) ==
    [c EXCEPT !.request = @ \o f.load, !.next = Plus(@, Len(f.load))]

\* A payload counts only if it starts where the last one ended.
Payload(c, f) ==
    IF f.load # <<>> /\ f.seq = c.next
    THEN [c EXCEPT !.request = @ \o f.load, !.next = Plus(@, Len(f.load))]
    ELSE c

\* Mutant: a FIN counts each time it comes.
MutFinAgain(c, f) ==
    IF f.flag = "fin" THEN [c EXCEPT !.next = Plus(@, 1)] ELSE c

\* A FIN counts only if nothing is missing before it.
Fin(c, f) ==
    IF f.flag = "fin" /\ Plus(f.seq, Len(f.load)) = c.next
    THEN [c EXCEPT !.next = Plus(@, 1)]
    ELSE c

\* The request is dropped, with the frame, when it outgrows the buffer.
TooLong(c, f) ==
    f.load # <<>> /\ f.seq = c.next /\ Len(c.request) + Len(f.load) > MaxRequest

\* The request holds a blank line.
Complete(c) == \E i \in DOMAIN c.request : c.request[i] = BlankLine

\* response_frames: the last one carries the FIN.
ResponseFrames(c, d) ==
    [i \in 1..Chunks |->
        Frame(IF i = Chunks THEN "fin" ELSE "data",
              Plus(Plus(c.first, 1), i - 1), c.next, <<Chunk(d, i)>>)]

\* Mutant: a retransmitted request is answered from the current document.
MutRenderAgain(c, f) ==
    CASE c.response # None /\ f.load # <<>> -> ResponseFrames(c, mmds)
      [] c.response # None /\ f.load = <<>> /\ f.flag = "fin" ->
             <<Frame("ack", Plus(c.first, Chunks + 2), c.next, <<>>)>>
      [] c.response # None /\ f.load = <<>> /\ f.flag # "fin" -> <<>>
      [] c.response = None /\ Complete(c) -> ResponseFrames(c, mmds)
      [] OTHER -> <<Frame("ack", Plus(c.first, 1), c.next, <<>>)>>

\* Mutant: every frame after the request is answered with the response.
MutReplayOnAck(c, f) ==
    CASE c.response # None -> ResponseFrames(c, c.response)
      [] c.response = None /\ Complete(c) -> ResponseFrames(c, mmds)
      [] OTHER -> <<Frame("ack", Plus(c.first, 1), c.next, <<>>)>>

\* Mutant: the FIN that ends the response is not counted.
MutFinNotCounted(c, f) ==
    CASE c.response # None /\ f.load # <<>> -> ResponseFrames(c, c.response)
      [] c.response # None /\ f.load = <<>> /\ f.flag = "fin" ->
             <<Frame("ack", Plus(c.first, Chunks + 1), c.next, <<>>)>>
      [] c.response # None /\ f.load = <<>> /\ f.flag # "fin" -> <<>>
      [] c.response = None /\ Complete(c) -> ResponseFrames(c, mmds)
      [] OTHER -> <<Frame("ack", Plus(c.first, 1), c.next, <<>>)>>

\* Mutant: acknowledgements carry the sequence number of the SYN-ACK.
MutAckBehind(c, f) ==
    CASE c.response # None /\ f.load # <<>> -> ResponseFrames(c, c.response)
      [] c.response # None /\ f.load = <<>> /\ f.flag = "fin" ->
             <<Frame("ack", Plus(c.first, Chunks + 2), c.next, <<>>)>>
      [] c.response # None /\ f.load = <<>> /\ f.flag # "fin" -> <<>>
      [] c.response = None /\ Complete(c) -> ResponseFrames(c, mmds)
      [] OTHER -> <<Frame("ack", c.first, c.next, <<>>)>>

\* What is sent for a frame f, with c the connection after f was taken in.
Reply(c, f) ==
    CASE c.response # None /\ f.load # <<>> ->        \* a retransmitted request
             ResponseFrames(c, c.response)
      [] c.response # None /\ f.load = <<>> /\ f.flag = "fin" ->
             <<Frame("ack", Plus(c.first, Chunks + 2), c.next, <<>>)>>
      [] c.response # None /\ f.load = <<>> /\ f.flag # "fin" ->
             <<>>
      [] c.response = None /\ Complete(c) ->
             ResponseFrames(c, mmds)
      [] OTHER ->
             <<Frame("ack", Plus(c.first, 1), c.next, <<>>)>>

\* Any other frame of a known connection.
ProcessSegment ==
    /\ running
    /\ up # <<>>
    /\ conn # None
    /\ LET f == Head(up)
           c == Fin(Payload(conn, f), f)
       IN
       /\ f.flag # "syn"
       /\ \/ /\ TooLong(conn, f)
             /\ UNCHANGED <<conn, down, running>>
          \/ /\ ~TooLong(conn, f)
             /\ conn' = IF c.response = None /\ Complete(c)
                        THEN [c EXCEPT !.response = mmds] ELSE c
             /\ Write(Reply(c, f))
    /\ up' = Tail(up)
    /\ UNCHANGED <<mmds, lastIsn, client, fetches, since, lost, losses>>

\* A frame of a connection that is not in the table is ignored.
ProcessUnknown ==
    /\ running
    /\ up # <<>>
    /\ Head(up).flag # "syn"
    /\ conn = None
    /\ up' = Tail(up)
    /\ UNCHANGED <<mmds, conn, lastIsn, running, down, client, fetches, since,
                   lost, losses>>

\* The connection has been idle for 30 s when the next frame comes.
Expire ==
    /\ running
    /\ conn # None
    /\ conn' = None
    /\ UNCHANGED <<mmds, lastIsn, running, up, down, client, fetches, since,
                   lost, losses>>

\* External: put_mmds or patch_mmds of the backend.
UpdateMmds(d) ==
    /\ mmds' = d
    /\ since' = since \cup {d}
    /\ UNCHANGED <<conn, lastIsn, running, up, down, client, fetches, lost,
                   losses>>

-----------------------------------------------------------------------------
(* The guest's TCP client and the link, both external. *)

RequestSeq(i) == Plus(ClientIsn, i + 1)
Received == Len(client.got)

\* The client has taken the frame with the FIN.
Ended == Received > 0 /\ client.got[Received].index = Chunks

\* The sequence number the client expects: past the FIN once it has that.
Expected ==
    Plus(client.peer, Received + (IF Ended THEN 1 ELSE 0))

Room == Len(up) + Len(down) < MaxFlight

AckFrame(expected) == Frame("ack", RequestSeq(client.nxt), expected, <<>>)

Segment(from, to) ==
    Frame("data", RequestSeq(from), Expected,
          [i \in 1..to - from |->
              IF from + i = client.len THEN BlankLine ELSE from + i])

OpenSocket ==
    /\ client.st \in {"closed", "done"}
    /\ fetches < MaxFetches
    /\ Room
    /\ client' \in [st : {"syn"}, len : ReqLens, una : {0}, nxt : {0},
                    peer : {None}, got : {<<>>}]
    /\ up' = Append(up, Frame("syn", ClientIsn, 0, <<>>))
    /\ fetches' = fetches + 1
    /\ since' = {mmds}
    /\ lost' = FALSE
    /\ UNCHANGED <<mmds, conn, lastIsn, running, down, losses>>

\* The request goes out in segments of any size.
SendRequest ==
    /\ client.st = "est"
    /\ Room
    /\ \E to \in client.nxt + 1..client.len :
          /\ up' = Append(up, Segment(client.nxt, to))
          /\ client' = [client EXCEPT !.nxt = to]
    /\ UNCHANGED <<mmds, conn, lastIsn, running, down, fetches, since, lost,
                   losses>>

\* Retransmission of the first thing that is not acknowledged; segments may be
\* cut differently than the first time.
Retransmit ==
    /\ Room
    /\ \/ /\ client.st = "syn"
          /\ up' = Append(up, Frame("syn", ClientIsn, 0, <<>>))
       \/ /\ client.st = "est"
          /\ \E to \in client.una + 1..client.nxt :
                up' = Append(up, Segment(client.una, to))
       \/ /\ client.st = "lastack"
          /\ up' = Append(up, Frame("fin", RequestSeq(client.len), Expected, <<>>))
    /\ UNCHANGED <<mmds, conn, lastIsn, running, down, client, fetches, since,
                   lost, losses>>

CloseSocket ==
    /\ client.st = "est"
    /\ Ended
    /\ Room
    /\ client' = [client EXCEPT !.st = "lastack"]
    /\ up' = Append(up, Frame("fin", RequestSeq(client.len), Expected, <<>>))
    /\ UNCHANGED <<mmds, conn, lastIsn, running, down, fetches, since, lost,
                   losses>>

\* The units of the request that acknowledgement number ack covers.
Acked(ack) ==
    LET n == Minus(ack, RequestSeq(0))
    IN  IF n > client.una /\ n <= client.nxt THEN n ELSE client.una

\* What the client does with a frame f from the responder.
Take(f) ==
    \/ /\ client.st = "syn" /\ f.flag = "synack" /\ f.ack = RequestSeq(0)
       /\ client' = [client EXCEPT !.st = "est", !.peer = Plus(f.seq, 1)]
       /\ up' = Append(up, Frame("ack", RequestSeq(0), Plus(f.seq, 1), <<>>))
    \/ /\ client.st = "est" /\ f.load # <<>> /\ f.seq = Expected
       /\ ~Ended
       /\ client' = [client EXCEPT !.got = @ \o f.load, !.una = Acked(f.ack)]
       /\ up' = Append(up, AckFrame(Plus(Expected,
                                        IF f.flag = "fin" THEN 2 ELSE 1)))
    \/ /\ client.st = "est" /\ f.load = <<>> /\ f.flag = "ack"
       /\ f.seq = Expected
       /\ client' = [client EXCEPT !.una = Acked(f.ack)]
       /\ UNCHANGED up
    \/ /\ client.st = "lastack" /\ f.load = <<>> /\ f.seq = Expected
       /\ f.ack = RequestSeq(client.len + 1)
       /\ client' = [client EXCEPT !.st = "done"]
       /\ UNCHANGED up
    \/ /\ client.st \in {"est", "lastack"}             \* out of the window
       /\ f.flag = "synack" \/ f.seq # Expected
       /\ up' = Append(up, AckFrame(Expected))
       /\ UNCHANGED client
    \/ /\ \/ client.st \in {"closed", "done"}          \* of no use to it
          \/ client.st = "syn" /\ ~(f.flag = "synack" /\ f.ack = RequestSeq(0))
          \/ /\ client.st = "lastack" /\ f.flag # "synack" /\ f.seq = Expected
             /\ ~(f.load = <<>> /\ f.ack = RequestSeq(client.len + 1))
       /\ UNCHANGED <<client, up>>

Receive ==
    /\ down # <<>>
    /\ Take(Head(down))
    /\ down' = Tail(down)
    /\ UNCHANGED <<mmds, conn, lastIsn, running, fetches, since, lost, losses>>

LoseUp ==
    /\ up # <<>>
    /\ losses < MaxLosses
    /\ losses' = losses + 1
    /\ up' = Tail(up)
    /\ UNCHANGED <<mmds, conn, lastIsn, running, down, client, fetches, since,
                   lost>>

LoseDown ==
    /\ down # <<>>
    /\ losses < MaxLosses
    /\ losses' = losses + 1
    /\ down' = Tail(down)
    /\ lost' = (lost \/ Head(down).load # <<>>)
    /\ UNCHANGED <<mmds, conn, lastIsn, running, up, client, fetches, since>>

-----------------------------------------------------------------------------
Process == ProcessSyn \/ ProcessSegment \/ ProcessUnknown

Next ==
    \/ Process
    \/ Expire
    \/ ReadFails
    \/ \E d \in Documents : UpdateMmds(d)
    \/ OpenSocket \/ SendRequest \/ Retransmit \/ CloseSocket \/ Receive
    \/ LoseUp \/ LoseDown

Spec == Init /\ [][Next]_vars

\* The responder's thread reads on (its loop never waits for long) until a read
\* or a write fails, the guest's stack takes what arrives and retransmits what
\* stays unanswered, and the guest's application sends its request and closes
\* the socket.  The last two are strong because Room, a bound of the model,
\* switches them off and on.
FairSpec ==
    /\ Spec
    /\ WF_vars(Process) /\ WF_vars(Receive) /\ WF_vars(Retransmit)
    /\ SF_vars(SendRequest) /\ SF_vars(CloseSocket)

-----------------------------------------------------------------------------
(* Properties. *)

\* The request the responder has put together is the one the client sent, in
\* order and without a unit twice, however segments were cut, repeated and lost
\* (host_mmds.rs 246-252).
RequestInOrder ==
    conn # None =>
        \A i \in 1..Len(conn.request) :
            \/ conn.request[i] = i
            \/ conn.request[i] = BlankLine /\ i = Len(conn.request)

\* Nothing is acknowledged that the client has not sent: across the wrap of
\* the sequence space client_next stays within what the socket has put out.
AckNotAhead ==
    conn # None /\ client.st \in {"est", "lastack"} =>
        Minus(conn.next, RequestSeq(0))
            <= client.nxt + (IF client.st = "lastack" THEN 1 ELSE 0)

\* What the guest reads is a run of one response to one document, and the
\* beginning of it unless a repeated SYN has replaced the initial sequence
\* number it goes by: a replay for a retransmitted request never continues the
\* response to an older document with that to a newer one.
ResponseIntact ==
    \E d \in Documents, k \in 0..Chunks - 1 :
        /\ client.got = [i \in 1..Received |-> Chunk(d, k + i)]
        /\ Received > 0 /\ client.peer = Plus(lastIsn, 1) => k = 0

\* The document a guest reads was current at some time since it opened the
\* connection: a port used again never gets the response cached for its
\* previous connection.
ServedFresh ==
    \A i \in 1..Received : client.got[i].doc \in since

\* A SYN answered twice: the client took the first SYN-ACK, the responder goes
\* by the second.
Desynchronised ==
    /\ client.st \in {"est", "lastack"}
    /\ conn # None
    /\ client.peer # Plus(conn.first, 1)

\* The connection was dropped from the table while the client still uses it.
Forgotten == client.st \in {"est", "lastack"} /\ conn = None

\* A fetch whose request fits the buffer completes, up to and including the
\* close, unless a frame of the response is lost (the responder does not
\* retransmit), the connection idles out, a repeated SYN has replaced the
\* initial sequence number, or the responder has ended because a read or a
\* write of the vmnet interface failed (nothing starts it again).
FetchCompletes ==
    (client.st = "syn" /\ client.len <= MaxRequest) ~>
        \/ client.st = "done"
        \/ lost \/ Desynchronised \/ Forgotten
        \/ ~running

\* Responder and guest do not answer each other's acknowledgements with ever
\* more frames (host_mmds.rs 259-261): a frame the client sends of its own
\* accord has at most one response in its train, and the acknowledgements of
\* that response have none.
NoReplayLoop == Len(up) + Len(down) <= MaxFlight * Chunks

\* While the request is incomplete the responder answers every frame, the
\* guest's acknowledgements included (host_mmds.rs 301-308).  What it answers
\* has the sequence number the guest expects, so the guest does not answer it
\* in turn and the exchange ends, as long as both go by the same initial
\* sequence number.
AcksEnd ==
    /\ client.st = "est"
    /\ conn # None
    /\ ~Desynchronised
    => \A i \in DOMAIN down :
          conn.response = None /\ down[i].flag = "ack" => down[i].seq = Expected
=============================================================================
