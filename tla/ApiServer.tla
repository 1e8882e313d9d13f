----------------------------- MODULE ApiServer -----------------------------
(***************************************************************************)
(* The daemon as its API's clients see it: how hephaestus-firecracker      *)
(* starts (main.rs), takes requests (server.rs) and accounts for them in   *)
(* the metrics file (backend.rs), with the MMDS document and the guest     *)
(* that reads it over vsock (MmdsVsock).                                   *)
(*                                                                         *)
(* A connection is a task, and each of its requests runs route(): it reads *)
(* the body, locks the backend for the call, and locks it again for        *)
(* observe_request. The runtime has one thread, and tasks interleave where *)
(* they await: on the body and on the two locks. The lock is tokio's       *)
(* Mutex, which is given to a waiting task before that task is polled      *)
(* again. What a call does to the VM's configuration is in Backend; here   *)
(* it only fails or not.                                                   *)
(***************************************************************************)
EXTENDS MmdsVsock

CONSTANTS
    Clients,        \* connections
    Requests,       \* what each connection sends: method, path up to the id, id
                    \* and body
    Files,          \* metrics files
    Merge(_, _),    \* merge_json
    EmptyDocument,
    MaxRequests,    \* bound: requests, the guest's included
    MaxStarts       \* bound: starts of the daemon

VARIABLES
    daemon,         \* where main() is
    starts,         \* starts so far
    failure,        \* why the last start failed, or None
    sockFile,       \* does the API socket's path exist?
    sent,           \* requests so far, the guest's included
    task,           \* what each connection is doing
    lock,           \* who holds the backend's mutex, or None
    vm,             \* is there a VM?
    mmds,           \* the MMDS document
    stale,          \* did the last refresh of the listener fail?
    since,          \* documents current at some time since the fetch began
    metrics,        \* MetricsState
    lines,          \* last metrics line of each file, or None
    missed,         \* did the last write of a metrics line fail?
    tally           \* requests answered, by what they asked for

startVars == <<daemon, starts, failure, sockFile>>
mmdsVars == <<vm, mmds, stale, since, listener, fetch>>
accountVars == <<metrics, lines, missed, tally>>
vars == <<startVars, sent, task, lock, mmdsVars, accountVars>>

-----------------------------------------------------------------------------
(* The routes of server.rs and the counters of ApiCounters. *)

Prefixed == {"/drives/", "/network-interfaces/", "/pmem/"}

Reads == {"GET"} \X {"/", "/version", "/machine-config", "/mmds", "/balloon"}

Changes ==
    ({"PUT", "PATCH"} \X {"/machine-config", "/drives/",
                          "/network-interfaces/", "/mmds", "/balloon"})
    \cup ({"PUT"} \X {"/boot-source", "/logger", "/metrics", "/mmds/config",
                      "/snapshot/create", "/snapshot/load", "/actions",
                      "/entropy", "/vsock"})
    \cup {<<"PATCH", "/vm">>}

Unsupported ==
    ({"GET"} \X {"/balloon/statistics", "/balloon/hinting/status",
                 "/hotplug/memory", "/vm/config"})
    \cup ({"PUT", "PATCH"} \X {"/cpu-config", "/hotplug/memory"})
    \cup ({"PATCH"} \X {"/balloon/statistics", "/balloon/hinting/start",
                        "/balloon/hinting/stop"})
    \cup ({"PUT"} \X {"/pmem/", "/serial"})

Version == <<"GET", "/version">>

Route(q) == <<q.method, q.base>>

Routed(q) == Route(q) \in Reads \cup Changes \cup Unsupported

\* An id that is empty or has a slash in it.
InvalidId(q) == Routed(q) /\ q.base \in Prefixed /\ q.id = "invalid"

\* ApiCounters: the routes that have a counter; /mmds/config shares one.
Counters ==
    ({"GET"} \X {"/", "/machine-config", "/version", "/mmds"})
    \cup ({"PUT"} \X {"/actions", "/boot-source", "/logger", "/machine-config",
                      "/metrics", "/snapshot/create", "/snapshot/load", "/mmds",
                      "/drives/", "/network-interfaces/"})
    \cup ({"PATCH"} \X {"/machine-config", "/vm", "/mmds", "/drives/",
                        "/network-interfaces/"})

\* Counters that are 0 are left out.
NoCounts == [k \in {} |-> 0]
Counted(count, k) == IF k \in DOMAIN count THEN count[k] ELSE 0
CountOne(count, k) ==
    [j \in DOMAIN count \cup {k} |-> Counted(count, j) + (IF j = k THEN 1 ELSE 0)]

Record(count, q) ==
    LET k == IF Route(q) = <<"PUT", "/mmds/config">>
             THEN <<"PUT", "/mmds">> ELSE Route(q)
    IN  IF k \in Counters THEN CountOne(count, k) ELSE count

\* Names that are told apart from None; a PUT /metrics names a file.
ASSUME ApiAssumption ==
    /\ None \notin Files \cup {"socket"}
    /\ \A c \in Clients : \A q \in Requests[c] :
          Route(q) = <<"PUT", "/metrics">> => q.body.file \in Files

-----------------------------------------------------------------------------
NewMetrics ==
    [file |-> None, requests |-> 0, fails |-> 0, count |-> NoCounts]

NewTally == [requests |-> 0, fails |-> 0, count |-> NoCounts]

Idle == [at |-> "idle", q |-> None, failed |-> FALSE]

ApiInit ==
    /\ VsockInit
    /\ daemon = "off"
    /\ starts = 0
    /\ failure = None
    /\ sockFile = FALSE
    /\ sent = 0
    /\ task = [c \in Clients |-> Idle]
    /\ lock = None
    /\ vm = FALSE
    /\ mmds = EmptyDocument
    /\ stale = FALSE
    /\ since = {}
    /\ metrics = NewMetrics
    /\ lines = [f \in Files |-> None]
    /\ missed = FALSE
    /\ tally = NewTally

-----------------------------------------------------------------------------
(* main() *)

Fail(why) ==
    /\ daemon' = "off"
    /\ failure' = why

StartDaemon ==
    /\ daemon = "off"
    /\ starts < MaxStarts
    /\ daemon' = "starting"
    /\ starts' = starts + 1
    /\ failure' = None
    /\ UNCHANGED <<sockFile, sent, task, lock, mmdsVars, accountVars>>

\* The profile is applied, and the deny probe must not be readable.
EnterSandbox ==
    /\ daemon = "starting"
    /\ \/ daemon' = "socket" /\ UNCHANGED failure
       \/ Fail("other")
    /\ UNCHANGED <<starts, sockFile, sent, task, lock, mmdsVars, accountVars>>

\* Mutant: what an earlier daemon left is not removed.
MutRemoveStale ==
    /\ daemon = "socket"
    /\ daemon' = "bind"
    /\ UNCHANGED <<starts, failure, sockFile, sent, task, lock, mmdsVars,
                   accountVars>>

\* A file that cannot be removed ends the start.
RemoveStale ==
    /\ daemon = "socket"
    /\ \/ daemon' = "bind" /\ sockFile' = FALSE /\ UNCHANGED failure
       \/ sockFile /\ Fail("other") /\ UNCHANGED sockFile
    /\ UNCHANGED <<starts, sent, task, lock, mmdsVars, accountVars>>

\* UnixListener::bind fails if the path exists, or cannot be made.
Bind ==
    /\ daemon = "bind"
    /\ \/ sockFile /\ Fail("socket") /\ UNCHANGED sockFile
       \/ ~sockFile /\ Fail("other") /\ UNCHANGED sockFile
       \/ ~sockFile /\ daemon' = "bound" /\ sockFile' = TRUE /\ UNCHANGED failure
    /\ UNCHANGED <<starts, sent, task, lock, mmdsVars, accountVars>>

\* --host-mmds without vmnet ends it, with the socket's file left behind;
\* otherwise a backend is made, with the pool if it opens.
MakeBackend ==
    /\ daemon = "bound"
    /\ \/ Fail("other")
       \/ daemon' = "serving" /\ UNCHANGED failure
    /\ UNCHANGED <<starts, sockFile, sent, task, lock, mmdsVars, accountVars>>

\* The daemon is killed, its memory and its VM with it; files stay.
DaemonDies ==
    /\ daemon # "off"
    /\ daemon' = "off"
    /\ failure' = None
    /\ task' = [c \in Clients |-> Idle]
    /\ lock' = None
    /\ vm' = FALSE
    /\ listener' = None
    /\ fetch' = NoFetch
    /\ mmds' = EmptyDocument
    /\ stale' = FALSE
    /\ since' = {}
    /\ metrics' = NewMetrics
    /\ missed' = FALSE
    /\ tally' = NewTally
    /\ UNCHANGED <<starts, sockFile, sent, lines>>

-----------------------------------------------------------------------------
(* Accounting. *)

\* Of a line's contents, the requests; the times and the numbers of flushes, of
\* loads and of the pool's hits are left out.
Line(m) == [run |-> starts, requests |-> m.requests, fails |-> m.fails,
            count |-> m.count]

\* flush_metrics, with m the metrics so far; an error of the write is ignored.
FlushMetrics(m) ==
    /\ metrics' = m
    /\ \/ m.file = None /\ UNCHANGED <<lines, missed>>
       \/ /\ m.file # None
          /\ \/ lines' = [lines EXCEPT ![m.file] = Line(m)] /\ missed' = FALSE
             \/ missed' = TRUE /\ UNCHANGED lines

\* The task of main() that flushes every 60 s.
Tick ==
    /\ daemon = "serving"
    /\ lock = None
    /\ metrics.file # None
    /\ FlushMetrics(metrics)
    /\ UNCHANGED <<startVars, sent, task, lock, mmdsVars, tally>>

\* The response is returned without another await.
Answer(c) ==
    /\ task' = [task EXCEPT ![c] = Idle]
    /\ tally' = [requests |-> tally.requests + 1,
                 fails |-> tally.fails + (IF task[c].failed THEN 1 ELSE 0),
                 count |-> CountOne(tally.count, Route(task[c].q))]

\* Mutant: the metrics are written before the request is counted.
MutObserve(c) ==
    /\ daemon = "serving"
    /\ task[c].at = "observe"
    /\ lock = c
    /\ lock' = None
    /\ FlushMetrics(metrics)
    /\ Answer(c)
    /\ UNCHANGED <<startVars, sent, mmdsVars>>

\* observe_request
Observe(c) ==
    /\ daemon = "serving"
    /\ task[c].at = "observe"
    /\ lock = c
    /\ lock' = None
    /\ FlushMetrics([metrics EXCEPT
                        !.requests = @ + 1,
                        !.fails = @ + (IF task[c].failed THEN 1 ELSE 0),
                        !.count = Record(@, task[c].q)])
    /\ Answer(c)
    /\ UNCHANGED <<startVars, sent, mmdsVars>>

-----------------------------------------------------------------------------
(* route() *)

\* to_response: of the status only whether it is one of a failure (400 and up).
Respond(c, failed) ==
    task' = [task EXCEPT ![c].at = "observe", ![c].failed = failed]

\* A request arrives.  An invalid id is answered at once and not observed.  A
\* GET has no body, and its answer may not need the backend.
Receive(c, q) ==
    /\ daemon = "serving"
    /\ task[c].at = "idle"
    /\ sent < MaxRequests
    /\ sent' = sent + 1
    /\ \/ InvalidId(q) /\ UNCHANGED task
       \/ /\ ~InvalidId(q)
          /\ task' = [task EXCEPT ![c] =
                [at |-> CASE Route(q) \in Reads \ {Version} -> "call"
                          [] Routed(q) /\ q.method # "GET" -> "body"
                          [] OTHER -> "observe",
                 q |-> q,
                 failed |-> Route(q) \notin Reads
                            /\ ~(Routed(q) /\ q.method # "GET")]]
    /\ UNCHANGED <<startVars, lock, mmdsVars, accountVars>>

\* parse_body: the body is too large, breaks off or does not parse, or its id is
\* not the path's; or it is read and the route is not supported.
ReadBody(c) ==
    /\ daemon = "serving"
    /\ task[c].at = "body"
    /\ \/ Respond(c, TRUE)
       \/ /\ Route(task[c].q) \in Changes
          /\ task' = [task EXCEPT ![c].at = "call"]
    /\ UNCHANGED <<startVars, sent, lock, mmdsVars, accountVars>>

\* External: the mutex is given to a task that waits in lock().await.
Acquire(c) ==
    /\ daemon = "serving"
    /\ task[c].at \in {"call", "observe"}
    /\ lock = None
    /\ lock' = c
    /\ UNCHANGED <<startVars, sent, task, mmdsVars, accountVars>>

\* Mutant: a lock that was given to the task is not given back.
MutDisconnect(c) ==
    /\ daemon = "serving"
    /\ task[c].at # "idle"
    /\ task' = [task EXCEPT ![c] = Idle]
    /\ UNCHANGED <<startVars, sent, lock, mmdsVars, accountVars>>

\* The client is gone, and hyper drops the future where it awaits.
Disconnect(c) ==
    /\ daemon = "serving"
    /\ task[c].at # "idle"
    /\ task' = [task EXCEPT ![c] = Idle]
    /\ lock' = IF lock = c THEN None ELSE lock
    /\ UNCHANGED <<startVars, sent, mmdsVars, accountVars>>

\* configure_metrics; the file may not open.
ConfigureMetrics(c) ==
    /\ Route(task[c].q) = <<"PUT", "/metrics">>
    /\ \/ Respond(c, TRUE) /\ UNCHANGED <<metrics, lines, missed>>
       \/ /\ Respond(c, FALSE)
          /\ FlushMetrics([metrics EXCEPT !.file = task[c].q.body.file])
    /\ UNCHANGED mmdsVars

\* refresh_mmds_vsock_service
Refresh(c, d) ==
    \/ ~vm /\ Respond(c, FALSE) /\ UNCHANGED <<listener, stale>>
    \/ vm /\ Respond(c, FALSE) /\ ServeMmds(d) /\ stale' = FALSE
    \/ vm /\ Respond(c, TRUE) /\ stale' = TRUE /\ UNCHANGED listener

SetMmds(c, d) ==
    /\ mmds' = d
    /\ since' = IF fetch.at = "idle" THEN {} ELSE since \cup {d}
    /\ Refresh(c, d)
    /\ UNCHANGED <<vm, fetch, metrics, lines, missed>>

PutMmds(c) ==
    /\ Route(task[c].q) = <<"PUT", "/mmds">>
    /\ SetMmds(c, task[c].q.body.doc)

PatchMmds(c) ==
    /\ Route(task[c].q) = <<"PATCH", "/mmds">>
    /\ SetMmds(c, Merge(mmds, task[c].q.body.doc))

\* A VM comes up: start_vsock_bridge installs the listener, best effort if no
\* vsock is configured.
VmUp(c) ==
    /\ ~vm
    /\ vm' = TRUE
    /\ Respond(c, FALSE)
    /\ ServeMmds(mmds) \/ UNCHANGED listener
    /\ stale' = FALSE
    /\ UNCHANGED <<mmds, since, fetch>>

\* The call is refused, or fails, and a VM it began to start is dropped.
Refuse(c) ==
    /\ Respond(c, TRUE)
    /\ UNCHANGED <<mmdsVars, metrics, lines, missed>>

\* start_micro_vm; a hit in the pool flushes.
InstanceStart(c) ==
    /\ Route(task[c].q) = <<"PUT", "/actions">>
    /\ task[c].q.body.action = "InstanceStart"
    /\ \/ /\ VmUp(c)
          /\ \/ FlushMetrics(metrics)
             \/ UNCHANGED <<metrics, lines, missed>>
       \/ Refuse(c)

\* load_snapshot, resumed or left paused.
LoadSnapshot(c) ==
    /\ Route(task[c].q) = <<"PUT", "/snapshot/load">>
    /\ \/ VmUp(c) /\ FlushMetrics(metrics)
       \/ Refuse(c)

\* send_ctrl_alt_del, for a VM that is there.
SendCtrlAltDel(c) ==
    /\ Route(task[c].q) = <<"PUT", "/actions">>
    /\ task[c].q.body.action = "SendCtrlAltDel"
    /\ \/ /\ vm
          /\ Respond(c, FALSE)
          /\ UNCHANGED <<mmdsVars, metrics, lines, missed>>
       \/ Refuse(c)

FlushAction(c) ==
    /\ Route(task[c].q) = <<"PUT", "/actions">>
    /\ task[c].q.body.action = "FlushMetrics"
    /\ Respond(c, FALSE)
    /\ FlushMetrics(metrics)
    /\ UNCHANGED mmdsVars

\* Everything else the backend answers.
OtherCall(c) ==
    /\ Route(task[c].q) \notin {<<"PUT", "/metrics">>, <<"PUT", "/mmds">>,
                                <<"PATCH", "/mmds">>, <<"PUT", "/actions">>,
                                <<"PUT", "/snapshot/load">>}
    /\ \/ Respond(c, FALSE)
       \/ Route(task[c].q) \in Changes \cup {<<"GET", "/balloon">>}
          /\ Respond(c, TRUE)
    /\ UNCHANGED <<mmdsVars, metrics, lines, missed>>

Calls(c) ==
    \/ ConfigureMetrics(c) \/ PutMmds(c) \/ PatchMmds(c)
    \/ InstanceStart(c) \/ LoadSnapshot(c) \/ SendCtrlAltDel(c)
    \/ FlushAction(c) \/ OtherCall(c)

\* The guard is dropped with the arm it was taken in, before observe_request.
Call(c) ==
    /\ daemon = "serving"
    /\ task[c].at = "call"
    /\ lock = c
    /\ lock' = None
    /\ Calls(c)
    /\ UNCHANGED <<startVars, sent, tally>>

-----------------------------------------------------------------------------
GuestFetches(ask) ==
    /\ vm
    /\ sent < MaxRequests
    /\ sent' = sent + 1
    /\ GuestAsks(ask)
    /\ since' = {mmds} \cup (IF stale THEN {listener} \ {None} ELSE {})
    /\ UNCHANGED <<startVars, task, lock, vm, mmds, stale, accountVars>>

GuestSteps ==
    /\ vm
    /\ Fetching
    /\ UNCHANGED <<startVars, sent, task, lock, vm, mmds, stale, since,
                   accountVars>>

ApiNext ==
    \/ StartDaemon \/ EnterSandbox \/ RemoveStale \/ Bind \/ MakeBackend
    \/ DaemonDies \/ Tick
    \/ \E c \in Clients :
          \/ /\ task[c].at = "idle" /\ sent < MaxRequests
             /\ \E q \in Requests[c] : Receive(c, q)
          \/ ReadBody(c) \/ Acquire(c) \/ Call(c) \/ Observe(c)
          \/ Disconnect(c)
    \/ vm /\ \E ask \in Asks : GuestFetches(ask)
    \/ GuestSteps

\* The runtime polls every task that can go on.  A client may never send the
\* rest of its body.
ApiSpec ==
    /\ ApiInit
    /\ [][ApiNext]_vars
    /\ \A c \in Clients : WF_vars(Acquire(c) \/ Call(c) \/ Observe(c))

-----------------------------------------------------------------------------
(* Properties. *)

\* The metrics file holds, after each request and unless the last write failed,
\* exactly the requests this daemon has answered: in all, the failed ones, and
\* those of each endpoint that has a counter, whichever connections they came
\* by, whatever else flushed in between and whichever file was open before:
\* "The *_api_requests counters are real - each served request is classified
\* by (method, path) into the matching per-endpoint counter"
\* (docs/firecracker-compatibility.md).  An invalid id is the exception: route()
\* returns without observe_request.
MetricsExact ==
    daemon = "serving" /\ metrics.file # None /\ ~missed =>
        LET line == lines[metrics.file]
        IN  /\ line.run = starts
            /\ line.requests = tally.requests
            /\ line.fails = tally.fails
            /\ \A k \in Counters :
                  Counted(line.count, k) =
                      Counted(tally.count, k)
                      + (IF k = <<"PUT", "/mmds">>
                         THEN Counted(tally.count, <<"PUT", "/mmds/config">>)
                         ELSE 0)

\* A daemon never fails to bind because of the socket that an earlier one left
\* behind, however that one ended: "Remove any stale socket
\* from a previous run" (main.rs).
StartsOverStale == failure # "socket"

\* The pieces of a head that are read of a guest that does not stall: both, and
\* above a limit perhaps the request line only.
Heard(over) == IF over = 0 THEN {2} ELSE 1..2

\* A guest that asks over vsock without stalling is answered for the whole of
\* its request and from a document that was current at some time since it asked:
\* the one of the last PUT or PATCH answered before, or a newer one, unless
\* passing that on to the listener failed.  A head above the 8192 bytes of the
\* service or the 16 KiB of the shim may lose its Accept header, and nothing
\* else.
GuestServed ==
    fetch.at = "answered" /\ ~fetch.stalled =>
        \E d \in since, n \in Heard(fetch.over) :
            fetch.answer = Render(Parsed(fetch.ask, n), d)

\* A request whose body has come is answered, even if other clients never
\* finish theirs or go away while they wait for the lock or have just been
\* given it, unless its own client disconnects or the daemon dies: route()
\* locks the backend twice and holds the lock across no await.
RequestAnswered ==
    \A c \in Clients :
        task[c].at \in {"call", "observe"} ~> task[c].at = "idle"
=============================================================================
