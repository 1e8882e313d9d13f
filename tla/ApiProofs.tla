----------------------------- MODULE ApiProofs -----------------------------
(***************************************************************************)
(* Proofs about ApiServer, for any connections, requests, documents and    *)
(* bounds: the metrics file accounts for every request answered, a stale   *)
(* socket never keeps the daemon from starting, and a guest is served a    *)
(* document that was current since it asked.                               *)
(***************************************************************************)
EXTENDS ApiServer, TLAPS

AllRequested == UNION {Requests[c] : c \in Clients}

Routes == {Route(q) : q \in AllRequested}

Counts(S) == UNION {[D -> Nat] : D \in SUBSET S}

One(b) == IF b THEN 1 ELSE 0

\* Counting one more request changes the counter of that request and no other.
LEMMA CountOneCounts ==
    ASSUME NEW S, NEW count \in Counts(S), NEW j \in S
    PROVE  /\ CountOne(count, j) \in Counts(S)
           /\ \A k : /\ Counted(count, k) \in Nat
                    /\ Counted(CountOne(count, j), k)
                          = Counted(count, k) + One(k = j)
<1>1. PICK D \in SUBSET S : count \in [D -> Nat]
  BY DEF Counts
<1>2. \A k : Counted(count, k) \in Nat
  BY <1>1 DEF Counted
<1>3. CountOne(count, j) \in [D \cup {j} -> Nat]
  BY <1>1, <1>2 DEF CountOne
<1>4. CountOne(count, j) \in Counts(S)
  BY <1>3 DEF Counts
<1>5. ASSUME NEW k
      PROVE  Counted(CountOne(count, j), k) = Counted(count, k) + One(k = j)
  BY <1>1, <1>2 DEF Counted, CountOne, One
<1> QED
  BY <1>2, <1>4, <1>5

-----------------------------------------------------------------------------
(* Accounting. *)

Tasks == [at : {"idle", "body", "call", "observe"},
          q : AllRequested \cup {None}, failed : BOOLEAN]

Metrics == [file : Files \cup {None}, requests : Nat, fails : Nat,
            count : Counts(Counters)]

Tallies == [requests : Nat, fails : Nat, count : Counts(Routes)]

\* The counters of m are those of the requests in t.
Agree(m, t) ==
    /\ m.requests = t.requests
    /\ m.fails = t.fails
    /\ \A k \in Counters :
          Counted(m.count, k) =
              Counted(t.count, k)
              + (IF k = <<"PUT", "/mmds">>
                 THEN Counted(t.count, <<"PUT", "/mmds/config">>) ELSE 0)

\* The last line of the file is what the counters say.
Written ==
    metrics.file # None /\ ~missed => lines[metrics.file] = Line(metrics)

AccountInv ==
    /\ task \in [Clients -> Tasks]
    /\ \A c \in Clients : task[c].at # "idle" => task[c].q \in Requests[c]
    /\ metrics \in Metrics
    /\ tally \in Tallies
    /\ DOMAIN lines = Files
    /\ Agree(metrics, tally)
    /\ Written
    /\ daemon # "serving" => metrics.file = None

\* flush_metrics leaves the counters as they are, and what it leaves in the file
\* is what they say.
LEMMA FlushWrites ==
    ASSUME NEW m \in Metrics, DOMAIN lines = Files, starts' = starts,
           FlushMetrics(m)
    PROVE  /\ metrics' \in Metrics
           /\ metrics'.file = m.file
           /\ \A t : Agree(m, t) => Agree(metrics', t)
           /\ DOMAIN lines' = Files
           /\ Written'
<1>1. CASE m.file = None
  BY <1>1 DEF FlushMetrics, Written, Agree
<1>2. CASE m.file # None
  <2>1. /\ metrics' = m
        /\ \/ lines' = [lines EXCEPT ![m.file] = Line(m)] /\ missed' = FALSE
           \/ missed' = TRUE /\ lines' = lines
    BY <1>2 DEF FlushMetrics
  <2>2. m.file \in Files
    BY <1>2 DEF Metrics
  <2>3. Written'
    BY <2>1, <2>2 DEF Written, Line
  <2> QED
    BY <2>1, <2>3
<1> QED
  BY <1>1, <1>2

\* An answered request is counted once, under its route.
LEMMA AnswerCounted ==
    ASSUME AccountInv, NEW c \in Clients, task[c].at = "observe", Answer(c),
           NEW m,
           m = [metrics EXCEPT
                   !.requests = @ + 1,
                   !.fails = @ + (IF task[c].failed THEN 1 ELSE 0),
                   !.count = Record(@, task[c].q)]
    PROVE  m \in Metrics /\ tally' \in Tallies /\ Agree(m, tally')
           /\ m.file = metrics.file
<1> DEFINE q == task[c].q
           r == Route(q)
           j == IF r = <<"PUT", "/mmds/config">> THEN <<"PUT", "/mmds">> ELSE r
<1>1. /\ q \in AllRequested
      /\ r \in Routes
  BY DEF AccountInv, AllRequested, Routes
<1>2. /\ tally'.count = CountOne(tally.count, r)
      /\ tally'.requests = tally.requests + 1
      /\ tally'.fails = tally.fails + One(task[c].failed)
      /\ tally' = [requests |-> tally'.requests, fails |-> tally'.fails,
                   count |-> tally'.count]
  BY DEF Answer, One
<1>3. /\ tally.count \in Counts(Routes)
      /\ tally.requests \in Nat
      /\ tally.fails \in Nat
  BY DEF AccountInv, Tallies
<1>4. /\ tally'.count \in Counts(Routes)
      /\ \A k : /\ Counted(tally.count, k) \in Nat
               /\ Counted(tally'.count, k) = Counted(tally.count, k) + One(k = r)
  BY <1>1, <1>2, <1>3, CountOneCounts
<1>5. /\ m.count = Record(metrics.count, q)
      /\ m.requests = metrics.requests + 1
      /\ m.fails = metrics.fails + One(task[c].failed)
      /\ m.file = metrics.file
      /\ m = [metrics EXCEPT !.requests = m.requests, !.fails = m.fails,
                              !.count = m.count]
  BY DEF AccountInv, Metrics, One
<1>6. metrics.count \in Counts(Counters)
  BY DEF AccountInv, Metrics
<1>7. /\ m.count \in Counts(Counters)
      /\ \A k \in Counters :
            /\ Counted(metrics.count, k) \in Nat
            /\ Counted(m.count, k) = Counted(metrics.count, k) + One(k = j)
  <2>1. CASE j \in Counters
    <3>1. m.count = CountOne(metrics.count, j)
      BY <1>5, <2>1 DEF Record
    <3> QED
      BY <3>1, <1>6, <2>1, CountOneCounts
  <2>2. CASE j \notin Counters
    <3>1. m.count = metrics.count
      BY <1>5, <2>2 DEF Record
    <3>2. \A k \in Counters : Counted(metrics.count, k) \in Nat
      BY <1>6 DEF Counts, Counted
    <3> QED
      BY <3>1, <3>2, <1>6, <2>2 DEF One
  <2> QED
    BY <2>1, <2>2
<1>8. <<"PUT", "/mmds/config">> \notin Counters
  BY DEF Counters
<1>9. ASSUME NEW k \in Counters
      PROVE  Counted(m.count, k) =
                 Counted(tally'.count, k)
                 + (IF k = <<"PUT", "/mmds">>
                    THEN Counted(tally'.count, <<"PUT", "/mmds/config">>) ELSE 0)
  <2>1. Counted(metrics.count, k) =
            Counted(tally.count, k)
            + (IF k = <<"PUT", "/mmds">>
               THEN Counted(tally.count, <<"PUT", "/mmds/config">>) ELSE 0)
    BY DEF AccountInv, Agree
  <2>2. CASE k = <<"PUT", "/mmds">>
    BY <1>4, <1>7, <2>1, <2>2 DEF One
  <2>3. CASE k # <<"PUT", "/mmds">>
    BY <1>4, <1>7, <1>8, <2>1, <2>3 DEF One
  <2> QED
    BY <2>2, <2>3
<1>10. m \in Metrics
  <2>1. m.requests \in Nat /\ m.fails \in Nat
    BY <1>5 DEF AccountInv, Metrics, One
  <2> QED
    BY <1>5, <1>7, <2>1 DEF AccountInv, Metrics
<1>11. tally' \in Tallies
  BY <1>2, <1>3, <1>4 DEF Tallies, One
<1>12. Agree(m, tally')
  BY <1>2, <1>5, <1>9 DEF AccountInv, Agree
<1> QED
  BY <1>5, <1>10, <1>11, <1>12

TasksOK ==
    /\ task \in [Clients -> Tasks]
    /\ \A c \in Clients : task[c].at # "idle" => task[c].q \in Requests[c]

\* A call ends with a response to a request that the connection sent.
LEMMA RespondKeepsTasks ==
    ASSUME TasksOK, NEW c \in Clients, task[c].at # "idle",
           NEW b \in BOOLEAN, Respond(c, b)
    PROVE  TasksOK'
<1>1. task' = [task EXCEPT ![c] = [task[c] EXCEPT !.at = "observe", !.failed = b]]
  BY DEF Respond, TasksOK
<1>2. [task[c] EXCEPT !.at = "observe", !.failed = b] \in Tasks
  BY DEF TasksOK, Tasks
<1>3. [task[c] EXCEPT !.at = "observe", !.failed = b].q = task[c].q
  BY DEF TasksOK, Tasks
<1> QED
  BY <1>1, <1>2, <1>3 DEF TasksOK

\* A step that touches no counter and no file keeps the account, unless it is
\* the start of another daemon.
LEMMA NotAccounting ==
    ASSUME AccountInv, TasksOK', UNCHANGED <<starts, accountVars>>,
           daemon' = daemon \/ metrics.file = None
    PROVE  AccountInv'
BY DEF AccountInv, TasksOK, accountVars, Written, Line

\* Before the first start nothing is counted.
LEMMA AccountInit == ApiInit => AccountInv
<1> SUFFICES ASSUME ApiInit PROVE AccountInv
  OBVIOUS
<1>1. NoCounts \in Counts(Counters) /\ NoCounts \in Counts(Routes)
  <2>1. NoCounts \in [{} -> Nat]
    BY DEF NoCounts
  <2> QED
    BY <2>1 DEF Counts
<1>2. \A k : Counted(NoCounts, k) = 0
  BY DEF NoCounts, Counted
<1>3. metrics \in Metrics /\ tally \in Tallies
  BY <1>1 DEF ApiInit, NewMetrics, NewTally, Metrics, Tallies
<1>4. Agree(metrics, tally)
  BY <1>2 DEF ApiInit, NewMetrics, NewTally, Agree
<1>5. task \in [Clients -> Tasks]
  BY DEF ApiInit, Idle, Tasks
<1> QED
  BY <1>3, <1>4, <1>5 DEF ApiInit, AccountInv, Written, Idle, NewMetrics

\* The call that a request asks for keeps the account: what it flushes, it
\* flushes as it stands (configure_metrics, start_micro_vm, load_snapshot and
\* the FlushMetrics action).
LEMMA CallKeepsAccount ==
    ASSUME AccountInv, NEW c \in Clients, Call(c)
    PROVE  AccountInv'
<1>1. /\ TasksOK
      /\ metrics \in Metrics
      /\ DOMAIN lines = Files
      /\ Agree(metrics, tally)
      /\ tally \in Tallies
  BY DEF AccountInv, TasksOK
<1>2. /\ task[c].at = "call"
      /\ UNCHANGED <<starts, daemon, tally>>
      /\ daemon = "serving"
      /\ Calls(c)
  BY DEF Call, startVars
<1>3. task[c].q \in Requests[c]
  BY <1>1, <1>2 DEF TasksOK
<1>4. TasksOK'
  <2>1. \E b \in BOOLEAN : Respond(c, b)
    BY <1>2 DEF Calls, ConfigureMetrics, PutMmds, PatchMmds, SetMmds, Refresh,
                InstanceStart, LoadSnapshot, SendCtrlAltDel, VmUp, Refuse,
                FlushAction, OtherCall
  <2> QED
    BY <1>1, <1>2, <2>1, RespondKeepsTasks
<1>5. ASSUME NEW m \in Metrics, FlushMetrics(m), Agree(m, tally)
      PROVE  AccountInv'
  <2>1. /\ metrics' \in Metrics
        /\ Agree(metrics', tally)
        /\ DOMAIN lines' = Files
        /\ Written'
    BY <1>1, <1>2, <1>5, FlushWrites
  <2> QED
    BY <1>1, <1>2, <1>4, <2>1 DEF AccountInv, TasksOK
<1>6. ASSUME UNCHANGED <<metrics, lines, missed>>
      PROVE  AccountInv'
  BY <1>2, <1>4, <1>6, NotAccounting DEF accountVars
<1>7. CASE ConfigureMetrics(c)
  <2>1. CASE UNCHANGED <<metrics, lines, missed>>
    BY <1>6, <2>1
  <2>2. CASE FlushMetrics([metrics EXCEPT !.file = task[c].q.body.file])
    <3> DEFINE m == [metrics EXCEPT !.file = task[c].q.body.file]
    <3>1. task[c].q.body.file \in Files
      BY <1>3, <1>7, ApiAssumption DEF ConfigureMetrics
    <3>2. m \in Metrics /\ Agree(m, tally)
      BY <1>1, <3>1 DEF Metrics, Agree
    <3> QED
      BY <1>5, <2>2, <3>2
  <2> QED
    BY <1>7, <2>1, <2>2 DEF ConfigureMetrics
<1>8. CASE PutMmds(c) \/ PatchMmds(c)
  BY <1>6, <1>8 DEF PutMmds, PatchMmds, SetMmds
<1>9. CASE InstanceStart(c) \/ LoadSnapshot(c) \/ SendCtrlAltDel(c)
  BY <1>1, <1>5, <1>6, <1>9
     DEF InstanceStart, LoadSnapshot, SendCtrlAltDel, Refuse
<1>10. CASE FlushAction(c)
  BY <1>1, <1>5, <1>10 DEF FlushAction
<1>11. CASE OtherCall(c)
  BY <1>6, <1>11 DEF OtherCall
<1> QED
  BY <1>2, <1>7, <1>8, <1>9, <1>10, <1>11 DEF Calls

\* A connection that has been answered or is gone asks for nothing.
LEMMA IdleKeepsTasks ==
    ASSUME TasksOK, NEW c \in Clients, task' = [task EXCEPT ![c] = Idle]
    PROVE  TasksOK'
BY DEF TasksOK, Tasks, Idle

\* observe_request counts the request and then flushes.
LEMMA ObserveKeepsAccount ==
    ASSUME AccountInv, NEW c \in Clients, Observe(c)
    PROVE  AccountInv'
<1> DEFINE m == [metrics EXCEPT
                    !.requests = @ + 1,
                    !.fails = @ + (IF task[c].failed THEN 1 ELSE 0),
                    !.count = Record(@, task[c].q)]
<1>1. /\ task[c].at = "observe"
      /\ FlushMetrics(m)
      /\ Answer(c)
      /\ daemon = "serving"
      /\ UNCHANGED <<starts, daemon>>
  BY DEF Observe, startVars
<1> HIDE DEF m
<1>2. /\ m \in Metrics
      /\ tally' \in Tallies
      /\ Agree(m, tally')
  BY <1>1, AnswerCounted DEF m
<1>3. /\ metrics' \in Metrics
      /\ Agree(metrics', tally')
      /\ DOMAIN lines' = Files
      /\ Written'
  <2>1. DOMAIN lines = Files
    BY DEF AccountInv
  <2> QED
    BY <1>1, <1>2, <2>1, FlushWrites
<1>4. TasksOK'
  BY <1>1, IdleKeepsTasks DEF Answer, AccountInv, TasksOK
<1> QED
  BY <1>1, <1>2, <1>3, <1>4 DEF AccountInv, TasksOK

\* The account is kept by every step of the daemon, its clients and its guest.
LEMMA AccountStep == AccountInv /\ [ApiNext]_vars => AccountInv'
<1> SUFFICES ASSUME AccountInv, [ApiNext]_vars PROVE AccountInv'
  OBVIOUS
<1>1. TasksOK /\ metrics \in Metrics
  BY DEF AccountInv, TasksOK
<1>2. CASE StartDaemon
  <2>1. metrics.file = None
    BY <1>2 DEF StartDaemon, AccountInv
  <2> QED
    BY <1>2, <2>1 DEF StartDaemon, AccountInv, accountVars, Written
<1>3. CASE EnterSandbox \/ RemoveStale \/ Bind \/ MakeBackend
  <2>1. /\ daemon # "serving"
        /\ UNCHANGED <<task, starts, accountVars>>
    BY <1>3 DEF EnterSandbox, RemoveStale, Bind, MakeBackend
  <2>2. TasksOK'
    BY <1>1, <2>1 DEF TasksOK
  <2> QED
    BY <2>1, <2>2, NotAccounting DEF AccountInv
<1>4. CASE DaemonDies
  <2>1. NoCounts \in Counts(Counters) /\ NoCounts \in Counts(Routes)
    <3>1. NoCounts \in [{} -> Nat]
      BY DEF NoCounts
    <3> QED
      BY <3>1 DEF Counts
  <2>2. \A k : Counted(NoCounts, k) = 0
    BY DEF NoCounts, Counted
  <2>3. metrics' = NewMetrics /\ tally' = NewTally /\ lines' = lines
    BY <1>4 DEF DaemonDies
  <2>4. metrics' \in Metrics /\ tally' \in Tallies
    BY <2>1, <2>3 DEF NewMetrics, NewTally, Metrics, Tallies
  <2>5. Agree(metrics', tally')
    BY <2>2, <2>3 DEF NewMetrics, NewTally, Agree
  <2>6. TasksOK'
    BY <1>4 DEF DaemonDies, Idle, TasksOK, Tasks
  <2>7. metrics'.file = None
    BY <2>3 DEF NewMetrics
  <2> QED
    BY <2>3, <2>4, <2>5, <2>6, <2>7 DEF AccountInv, TasksOK, Written
<1>5. CASE Tick
  <2>1. /\ FlushMetrics(metrics)
        /\ daemon = "serving"
        /\ UNCHANGED <<starts, daemon, task, tally>>
    BY <1>5 DEF Tick, startVars
  <2>2. /\ metrics' \in Metrics
        /\ Agree(metrics', tally)
        /\ DOMAIN lines' = Files
        /\ Written'
    BY <1>1, <2>1, FlushWrites DEF AccountInv
  <2> QED
    BY <2>1, <2>2 DEF AccountInv
<1>6. ASSUME NEW c \in Clients, NEW q \in Requests[c], Receive(c, q)
      PROVE  AccountInv'
  <2>1. UNCHANGED <<starts, daemon, accountVars>>
    BY <1>6 DEF Receive, startVars
  <2>2. TasksOK'
    <3>1. CASE UNCHANGED task
      BY <1>1, <3>1 DEF TasksOK
    <3>2. ASSUME NEW a \in {"body", "call", "observe"}, NEW b \in BOOLEAN,
                 task' = [task EXCEPT ![c] = [at |-> a, q |-> q, failed |-> b]]
          PROVE  TasksOK'
      <4>1. [at |-> a, q |-> q, failed |-> b] \in Tasks
        BY DEF Tasks, AllRequested
      <4> QED
        BY <1>1, <3>2, <4>1 DEF TasksOK
    <3> QED
      BY <1>6, <3>1, <3>2 DEF Receive
  <2> QED
    BY <2>1, <2>2, NotAccounting
<1>7. ASSUME NEW c \in Clients, ReadBody(c)
      PROVE  AccountInv'
  <2>1. /\ UNCHANGED <<starts, daemon, accountVars>>
        /\ task[c].at = "body"
    BY <1>7 DEF ReadBody, startVars
  <2>2. TasksOK'
    <3>1. CASE Respond(c, TRUE)
      BY <1>1, <2>1, <3>1, RespondKeepsTasks
    <3>2. CASE task' = [task EXCEPT ![c].at = "call"]
      <4>1. [task[c] EXCEPT !.at = "call"] \in Tasks
        BY <1>1 DEF TasksOK, Tasks
      <4>2. [task[c] EXCEPT !.at = "call"].q = task[c].q
        BY <1>1 DEF TasksOK, Tasks
      <4> QED
        BY <1>1, <2>1, <3>2, <4>1, <4>2 DEF TasksOK
    <3> QED
      BY <1>7, <3>1, <3>2 DEF ReadBody
  <2> QED
    BY <2>1, <2>2, NotAccounting
<1>8. ASSUME NEW c \in Clients, Acquire(c)
      PROVE  AccountInv'
  <2>1. UNCHANGED <<starts, daemon, task, accountVars>>
    BY <1>8 DEF Acquire, startVars
  <2> QED
    BY <1>1, <2>1, NotAccounting DEF TasksOK
<1>9. ASSUME NEW c \in Clients, Disconnect(c)
      PROVE  AccountInv'
  <2>1. /\ UNCHANGED <<starts, daemon, accountVars>>
        /\ task' = [task EXCEPT ![c] = Idle]
    BY <1>9 DEF Disconnect, startVars
  <2> QED
    BY <1>1, <2>1, IdleKeepsTasks, NotAccounting
<1>10. CASE (\E ask \in Asks : GuestFetches(ask)) \/ GuestSteps
  <2>1. UNCHANGED <<starts, daemon, task, accountVars>>
    BY <1>10 DEF GuestFetches, GuestSteps, startVars
  <2> QED
    BY <1>1, <2>1, NotAccounting DEF TasksOK
<1>11. CASE UNCHANGED vars
  <2>1. UNCHANGED <<starts, daemon, task, accountVars>>
    BY <1>11 DEF vars, startVars
  <2> QED
    BY <1>1, <2>1, NotAccounting DEF TasksOK
<1> QED
  BY <1>2, <1>3, <1>4, <1>5, <1>6, <1>7, <1>8, <1>9, <1>10, <1>11,
     CallKeepsAccount, ObserveKeepsAccount
     DEF ApiNext

\* The metrics file holds exactly the requests that the daemon has answered,
\* after every one of them and whatever flushed in between (observe_request,
\* flush_metrics and configure_metrics), for any connections and requests.
THEOREM MetricsAccount == ApiSpec => []MetricsExact
<1>1. AccountInv => MetricsExact
  BY DEF AccountInv, Agree, Written, Line, MetricsExact
<1> QED
  BY <1>1, AccountInit, AccountStep, PTL DEF ApiSpec

-----------------------------------------------------------------------------
(* Starting. *)

\* When the daemon binds, the stale socket is gone.
StartInv ==
    /\ sockFile \in BOOLEAN
    /\ daemon = "bind" => ~sockFile
    /\ StartsOverStale

\* A daemon never fails to start because of the socket an earlier one left, at
\* whichever point that one ended (main() removes it before bind).
THEOREM StaleSocketRemoved == ApiSpec => []StartsOverStale
<1>1. ApiInit => StartInv
  BY ApiAssumption DEF ApiInit, StartInv, StartsOverStale
<1>2. StartInv /\ [ApiNext]_vars => StartInv'
  <2> SUFFICES ASSUME StartInv, [ApiNext]_vars PROVE StartInv'
    OBVIOUS
  <2> USE DEF StartInv, StartsOverStale
  <2>1. CASE StartDaemon
    BY <2>1, ApiAssumption DEF StartDaemon
  <2>2. CASE EnterSandbox
    BY <2>2 DEF EnterSandbox, Fail
  <2>3. CASE RemoveStale
    BY <2>3 DEF RemoveStale, Fail
  <2>4. CASE Bind
    BY <2>4 DEF Bind, Fail
  <2>5. CASE MakeBackend
    BY <2>5 DEF MakeBackend, Fail
  <2>6. CASE DaemonDies
    BY <2>6, ApiAssumption DEF DaemonDies
  <2>7. CASE UNCHANGED startVars
    BY <2>7 DEF startVars
  <2>8. CASE Tick \/ (\E ask \in Asks : GuestFetches(ask)) \/ GuestSteps
             \/ UNCHANGED vars
    BY <2>7, <2>8 DEF Tick, GuestFetches, GuestSteps, vars
  <2>9. ASSUME NEW c \in Clients,
               \/ \E q \in Requests[c] : Receive(c, q)
               \/ ReadBody(c) \/ Acquire(c) \/ Call(c) \/ Observe(c)
               \/ Disconnect(c)
        PROVE  StartInv'
    BY <2>7, <2>9 DEF Receive, ReadBody, Acquire, Call, Observe, Disconnect
  <2> QED
    BY <2>1, <2>2, <2>3, <2>4, <2>5, <2>6, <2>8, <2>9 DEF ApiNext
<1>3. StartInv => StartsOverStale
  BY DEF StartInv
<1> QED
  BY <1>1, <1>2, <1>3, PTL DEF ApiSpec

-----------------------------------------------------------------------------
(* The guest's fetch. *)

\* The listener has the current document, unless passing one on has failed; what
\* a fetch may be answered from was current since it began; and what the service
\* has in hand is one of those, with the pieces of the request that are read
\* unless somebody stalled.
GuestInv ==
    /\ vm \in BOOLEAN
    /\ stale \in BOOLEAN
    /\ DOMAIN fetch = DOMAIN NoFetch
    /\ fetch.stalled \in BOOLEAN
    /\ ~vm => listener = None /\ fetch.at = "idle"
    /\ listener # None /\ ~stale => listener = mmds
    /\ fetch.at # "idle" =>
          mmds \in since /\ (listener # None => listener \in since)
    /\ fetch.at = "service" =>
          /\ fetch.doc \in since
          /\ ~fetch.stalled => fetch.head \in Heard(fetch.over)
    /\ GuestServed

\* PUT and PATCH /mmds (put_mmds, patch_mmds and refresh_mmds_vsock_service).
LEMMA SetMmdsKeepsGuest ==
    ASSUME GuestInv, NEW c \in Clients, NEW d, SetMmds(c, d)
    PROVE  GuestInv'
<1>1. /\ mmds' = d
      /\ since' = IF fetch.at = "idle" THEN {} ELSE since \cup {d}
      /\ UNCHANGED <<vm, fetch>>
      /\ \/ ~vm /\ UNCHANGED <<listener, stale>>
         \/ vm /\ listener' = d /\ stale' = FALSE
         \/ vm /\ stale' = TRUE /\ UNCHANGED listener
  BY DEF SetMmds, Refresh, ServeMmds
<1>2. since \subseteq since' \/ fetch.at = "idle"
  BY <1>1
<1>3. GuestServed'
  BY <1>1, <1>2 DEF GuestInv, GuestServed
<1> QED
  BY <1>1, <1>2, <1>3 DEF GuestInv

\* The steps of the agent's shim and of the vsock service.
LEMMA FetchKeepsGuest ==
    ASSUME GuestInv, GuestSteps
    PROVE  GuestInv'
<1>1. UNCHANGED <<listener, vm, mmds, stale, since>> /\ vm
  BY DEF GuestSteps, Fetching, ShimForwards, ServiceResponds, ShimGivesUp
<1>2. CASE fetch' = NoFetch
  BY <1>1, <1>2 DEF GuestInv, GuestServed, NoFetch
<1>3. ASSUME NEW ask, NEW n, NEW b \in BOOLEAN, fetch.at = "head",
             b \/ n \in Heard(fetch.over), ShimConnects(ask, n, b)
      PROVE  GuestInv'
  <2>1. CASE listener = None
    BY <1>2, <1>3, <2>1 DEF ShimConnects
  <2>2. CASE listener # None
    <3>1. fetch' = [fetch EXCEPT !.at = "service", !.ask = ask, !.head = n,
                                 !.stalled = b, !.doc = listener]
      BY <1>3, <2>2 DEF ShimConnects
    <3>2. /\ DOMAIN fetch' = DOMAIN NoFetch
          /\ fetch'.at = "service"
          /\ fetch'.head = n
          /\ fetch'.stalled = b
          /\ fetch'.doc = listener
          /\ fetch'.over = fetch.over
      BY <3>1 DEF GuestInv, NoFetch
    <3> QED
      BY <1>1, <1>3, <2>2, <3>2 DEF GuestInv, GuestServed
  <2> QED
    BY <2>1, <2>2
<1>4. ASSUME NEW n, NEW b \in BOOLEAN, fetch.at = "service",
             b \/ n \in Heard(fetch.over), Answered(n, b)
      PROVE  GuestInv'
  <2>1. /\ DOMAIN fetch' = DOMAIN NoFetch
        /\ fetch'.at = "answered"
        /\ fetch'.stalled = b
        /\ fetch'.ask = fetch.ask
        /\ fetch'.over = fetch.over
        /\ fetch'.answer = Render(Parsed(fetch.ask, n), fetch.doc)
    BY <1>4 DEF Answered, GuestInv, NoFetch
  <2>2. GuestServed'
    BY <1>1, <1>4, <2>1 DEF GuestInv, GuestServed
  <2> QED
    BY <1>1, <1>4, <2>1, <2>2 DEF GuestInv
<1>5. CASE ShimForwards
  <2>1. 2 \in Heard(fetch.over) /\ (fetch.over = 2 => 1 \in Heard(fetch.over))
    BY DEF Heard
  <2> QED
    BY <1>3, <1>5, <2>1 DEF ShimForwards
<1>6. CASE ServiceResponds
  <2>1. fetch.over > 0 => 1 \in Heard(fetch.over)
    BY DEF Heard
  <2> QED
    BY <1>4, <1>6, <2>1 DEF ServiceResponds, GuestInv
<1>7. CASE ShimGivesUp
  BY <1>2, <1>7 DEF ShimGivesUp
<1> QED
  BY <1>5, <1>6, <1>7 DEF GuestSteps, Fetching

\* A guest that asks over vsock is answered for its whole request, or for what
\* is read of a head above the limits, from a document that was current since
\* it asked (hb_vz_long_serve_mmds, the vsock service and the agent's shim), for
\* any documents, merge and rendering.
THEOREM GuestServedCurrent == ApiSpec => []GuestServed
<1>1. ApiInit => GuestInv
  <2>1. NoFetch.at = "idle" /\ NoFetch.stalled = FALSE
    BY DEF NoFetch
  <2> QED
    BY <2>1 DEF ApiInit, VsockInit, GuestInv, GuestServed
<1>2. GuestInv /\ [ApiNext]_vars => GuestInv'
  <2> SUFFICES ASSUME GuestInv, [ApiNext]_vars PROVE GuestInv'
    OBVIOUS
  <2>1. CASE UNCHANGED mmdsVars
    BY <2>1 DEF mmdsVars, GuestInv, GuestServed
  <2>2. CASE \/ StartDaemon \/ EnterSandbox \/ RemoveStale \/ Bind
             \/ MakeBackend \/ Tick \/ UNCHANGED vars
    BY <2>1, <2>2 DEF StartDaemon, EnterSandbox, RemoveStale, Bind, MakeBackend,
                      Tick, vars
  <2>3. CASE DaemonDies
    BY <2>3 DEF DaemonDies, GuestInv, GuestServed, NoFetch
  <2>4. ASSUME NEW c \in Clients,
               \/ \E q \in Requests[c] : Receive(c, q)
               \/ ReadBody(c) \/ Acquire(c) \/ Observe(c) \/ Disconnect(c)
        PROVE  GuestInv'
    BY <2>1, <2>4 DEF Receive, ReadBody, Acquire, Observe, Disconnect
  <2>5. ASSUME NEW c \in Clients, Calls(c)
        PROVE  GuestInv'
    <3>1. CASE \/ ConfigureMetrics(c) \/ SendCtrlAltDel(c) \/ FlushAction(c)
               \/ OtherCall(c)
      BY <2>1, <3>1 DEF ConfigureMetrics, SendCtrlAltDel, Refuse, FlushAction,
                        OtherCall
    <3>2. CASE PutMmds(c) \/ PatchMmds(c)
      BY <3>2, SetMmdsKeepsGuest DEF PutMmds, PatchMmds
    <3>3. CASE InstanceStart(c) \/ LoadSnapshot(c)
      <4>1. /\ UNCHANGED <<mmds, since, fetch>>
            /\ \/ /\ ~vm
                  /\ vm' = TRUE
                  /\ stale' = FALSE
                  /\ listener' = mmds \/ listener' = listener
               \/ UNCHANGED <<vm, listener, stale>>
        BY <3>3 DEF InstanceStart, LoadSnapshot, VmUp, Refuse, mmdsVars,
                    ServeMmds
      <4>2. GuestServed'
        BY <4>1 DEF GuestInv, GuestServed
      <4> QED
        BY <4>1, <4>2 DEF GuestInv
    <3> QED
      BY <2>5, <3>1, <3>2, <3>3 DEF Calls
  <2>6. ASSUME NEW ask \in Asks, GuestFetches(ask)
        PROVE  GuestInv'
    BY <2>6 DEF GuestFetches, GuestAsks, GuestInv, GuestServed, NoFetch
  <2> QED
    BY <2>2, <2>3, <2>4, <2>5, <2>6, FetchKeepsGuest DEF ApiNext, Call
<1>3. GuestInv => GuestServed
  BY DEF GuestInv
<1> QED
  BY <1>1, <1>2, <1>3, PTL DEF ApiSpec
=============================================================================
