------------------------------- MODULE MCJailer -------------------------------
(***************************************************************************)
(* Small instances of Jailer for TLC.  The number of invocations is capped *)
(* by MaxStarts; slots are reused, so it may exceed the number of slots.   *)
(***************************************************************************)
EXTENDS Jailer, TLC

CONSTANTS
    a, b,         \* two instance ids
    MaxStarts     \* bound on the number of invocations

VARIABLE starts   \* invocations so far

mcVars == <<pc, req, fd, tries, uid, lines, todo, probe, daemon,
            path, reg, regFile, regLock, dir, sock, profile, starts>>

MCInit == Init /\ starts = 0

MCStart(L, r) ==
    /\ starts < MaxStarts
    /\ Start(L, r)
    /\ starts' = starts + 1

MCNext ==
    \E L \in Launches :
        \/ \E r \in Requests : MCStart(L, r)
        \/ (Step(L) \/ Event(L)) /\ UNCHANGED starts

MCSpec == MCInit /\ [][MCNext]_mcVars

\* Each process that can take a step is scheduled.
MCFairSpec ==
    MCSpec /\ \A L \in Launches : WF_mcVars(Step(L) /\ UNCHANGED starts)

Cmd(kind, id, base, u, shared, clean) ==
    [kind |-> kind, id |-> id, base |-> base, uid |-> u,
     shared |-> shared, clean |-> clean]

\* Instance a runs under an explicit uid or is torn down; b is launched, or gets
\* a plist, with --uid-base, or shares the uid of a on purpose.
SafetyRequests ==
    { Cmd("launch",   a, FALSE, 2,     FALSE, TRUE),
      Cmd("teardown", a, FALSE, NoUid, FALSE, FALSE),
      Cmd("launch",   b, TRUE,  NoUid, FALSE, FALSE),
      Cmd("launch",   b, FALSE, 2,     TRUE,  FALSE),
      Cmd("plist",    b, TRUE,  NoUid, FALSE, FALSE) }

\* No teardown: b asks for a dedicated uid while a runs under an explicit one.
RewriteRequests ==
    { Cmd("launch", a, FALSE, 1, FALSE, FALSE),
      Cmd("launch", b, TRUE, NoUid, FALSE, FALSE) }

Symmetry == Permutations(Launches)
=============================================================================
