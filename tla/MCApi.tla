------------------------------- MODULE MCApi -------------------------------
(***************************************************************************)
(* The instance of ApiServer that TLC checks, with the MMDS document and   *)
(* the two renderings of MmdsDocument: two connections, three requests, a  *)
(* daemon that may die and be started again, and a fetch by the guest.     *)
(***************************************************************************)
EXTENDS ApiServer, MmdsDocument

CONSTANTS c1, c2

One == Text("one")
Empty == Object(<<>>)
Nested == Object([a |-> Object([a |-> One]), b |-> Array(<<One>>)])
Patch == Object([a |-> Object([a |-> Null, b |-> One]),
                 b |-> Object([a |-> Null])])

Plain(m, p) == [method |-> m, base |-> p, id |-> "", body |-> None]
With(m, p, b) == [method |-> m, base |-> p, id |-> "", body |-> b]
Named(m, p, i) == [method |-> m, base |-> p, id |-> i, body |-> None]

\* One connection looks after the metrics, the other after the VM and the MMDS.
AllRequests ==
    c1 :> ({Plain("GET", "/balloon"),
            Named("PUT", "/drives/", "invalid"),
            With("PUT", "/actions", [action |-> "FlushMetrics"])}
           \cup {With("PUT", "/metrics", [file |-> f]) : f \in Files})
    @@
    c2 :> ({Plain("PUT", "/mmds/config"),
            With("PUT", "/actions", [action |-> "InstanceStart"]),
            With("PUT", "/actions", [action |-> "SendCtrlAltDel"]),
            Plain("PUT", "/snapshot/load"),
            With("PUT", "/mmds", [doc |-> Nested]),
            With("PATCH", "/mmds", [doc |-> Patch])})

OneAsk == {[method |-> "GET", path |-> <<"", "b">>, json |-> TRUE]}

AllAsks ==
    [method : {"GET", "PUT"}, path : {<<>>, <<"", "a">>, <<"b">>, <<"b", "0">>,
                                      <<"a", "a">>},
     json : BOOLEAN]

Paths == {<<>>} \cup {<<k>> : k \in {"a", "b"}}
         \cup {<<k, l>> : k, l \in {"a", "b", "0"}}

Stored ==
    {Empty, Nested, MergeJson(Empty, Patch), MergeJson(Nested, Patch),
     MergeJson(MergeJson(Empty, Patch), Patch)}

\* Whatever is stored, the vsock service gives the answer that the packet
\* responder gives: "serves the same path-aware semantics directly"
\* (docs/firecracker-compatibility.md).  The exception is a value that is
\* neither text nor an object and not asked for as JSON, which the vsock service
\* refuses with 501.
ASSUME ServicesAgree ==
    \A d \in Stored, ask \in AllAsks :
        LET raw == RenderRawHttp(ask, d)
            vsock == Response(ask, d)
        IN  \/ vsock = raw
            \/ vsock.status = 501 /\ ~ask.json /\ raw.format = "json"

-----------------------------------------------------------------------------
\* What stands at a path after PATCH /mmds is what the patch says of it, and
\* what stood there before if the patch says nothing: "a recursive
\* merge-patch-style PATCH" (docs/firecracker-compatibility.md).  A null inside
\* an object that is new to the document is the exception: it is stored.
PatchedByPath ==
    [][\A c \in Clients :
          /\ task[c].at = "call"
          /\ task'[c].at = "observe"
          /\ Route(task[c].q) = <<"PATCH", "/mmds">>
          => LET patch == task[c].q.body.doc
             IN  \A p \in Paths :
                    IF /\ Settles(mmds, patch, p) = {}
                       /\ Lookup(patch, p).kind = "object"
                    THEN Lookup(mmds', p).kind = "object"
                    ELSE Lookup(mmds', p) = MergedAt(mmds, patch, p)]_vars
=============================================================================
