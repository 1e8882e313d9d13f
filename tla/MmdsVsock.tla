----------------------------- MODULE MmdsVsock -----------------------------
(***************************************************************************)
(* MMDS over vsock, up to the guest program that asks for it: the listener *)
(* that serve_mmds_vsock installs (MmdsSocketService in DirectVZ.swift),   *)
(* which answers from the document it was made with, and the link-local    *)
(* shim of the guest agent (guest/hephaestus-agent/src/main.rs), which     *)
(* takes the head of a request from a TCP client of the guest and forwards *)
(* it.  One fetch is followed at a time.                                   *)
(*                                                                         *)
(* A request's head comes in pieces: 1 is the request line, 2 the rest,    *)
(* with the Accept header and the blank line. The request line comes whole *)
(* and is below both limits on a head, 8192 bytes in the service and       *)
(* 16 KiB in the shim; the head may be above them, and the Accept header   *)
(* is then read or not, by where it stands.                                *)
(***************************************************************************)
EXTENDS Naturals

CONSTANTS
    Asks,           \* requests: method, path and accepted format
    Render(_, _),   \* MmdsSocketService.response
    None

VARIABLES
    listener,       \* the document of the listener on the MMDS port, or None
    fetch           \* the fetch

\* "over" is the number of limits that the head is above.
NoFetch == [at |-> "idle", ask |-> None, over |-> 0, head |-> 0,
            stalled |-> FALSE, doc |-> None, answer |-> None]

VsockInit ==
    /\ listener = None
    /\ fetch = NoFetch

\* hb_vz_long_serve_mmds: a new service replaces the port's listener; the old
\* one lives on for the connections it has accepted.
ServeMmds(d) == listener' = d

\* What the first n pieces of a request say.  Without the rest, no format is
\* accepted explicitly; without anything, nothing parses.
Parsed(ask, n) ==
    CASE n = 2 -> ask
      [] n = 1 -> [ask EXCEPT !.json = FALSE]
      [] n = 0 -> [ask EXCEPT !.method = ""]

\* External: a program of the guest connects to 169.254.169.254; the response to
\* its previous fetch is behind it.
GuestAsks(ask) ==
    /\ fetch.at \in {"idle", "answered"}
    /\ \E over \in 0..2 :
          fetch' = [NoFetch EXCEPT !.at = "head", !.ask = ask, !.over = over]
    /\ UNCHANGED listener

\* fetch_mmds_vsock_response_for_request, with n pieces of a request; the
\* listener's delegate takes the document of its service along.  Without a
\* listener the client's connection is closed.
ShimConnects(ask, n, stalled) ==
    IF listener = None
    THEN fetch' = NoFetch
    ELSE fetch' = [fetch EXCEPT !.at = "service", !.ask = ask, !.head = n,
                                !.stalled = stalled, !.doc = listener]

\* read_http_request_head: up to the blank line, or the limit of 16 KiB; or two
\* seconds without another piece, or the end of the client's stream.  An empty
\* request is replaced by GET /.
ShimForwards ==
    /\ fetch.at = "head"
    /\ \/ ShimConnects(fetch.ask, 2, FALSE)
       \/ fetch.over = 2 /\ ShimConnects(fetch.ask, 1, FALSE)
       \/ ShimConnects(fetch.ask, 1, TRUE)
       \/ ShimConnects([method |-> "GET", path |-> <<>>, json |-> FALSE], 2, TRUE)
    /\ UNCHANGED listener

\* The service has answered what it could parse of n pieces, and the shim has
\* passed that on as it is (handle_mmds_linklocal_client).
Answered(n, stalled) ==
    fetch' = [fetch EXCEPT !.at = "answered",
                           !.answer = Render(Parsed(fetch.ask, n), fetch.doc),
                           !.stalled = stalled,
                           !.head = 0,
                           !.doc = None]

\* Mutant: one read(2) has to do for the whole request.
MutServiceResponds ==
    /\ fetch.at = "service"
    /\ \E n \in 1..fetch.head : Answered(n, fetch.stalled)
    /\ UNCHANGED listener

\* The service reads to the blank line or its limit of 8192 bytes, or for two
\* seconds if the guest stalls (a VM that is paused does).
ServiceResponds ==
    /\ fetch.at = "service"
    /\ \/ Answered(fetch.head, fetch.stalled)
       \/ fetch.over > 0 /\ Answered(1, fetch.stalled)
       \/ \E n \in 0..fetch.head - 1 : Answered(n, TRUE)
    /\ UNCHANGED listener

\* A client's connection that breaks, five seconds without data from the
\* service, or no connection to it: the client's connection is closed without
\* a response.
ShimGivesUp ==
    /\ fetch.at \in {"head", "service"}
    /\ fetch' = NoFetch
    /\ UNCHANGED listener

Fetching == ShimForwards \/ ServiceResponds \/ ShimGivesUp
=============================================================================
