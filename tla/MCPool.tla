-------------------------------- MODULE MCPool --------------------------------
(***************************************************************************)
(* Small instances of Pool for TLC.  The number of operations is capped by *)
(* MaxStarts.                                                              *)
(***************************************************************************)
EXTENDS Pool, TLC

CONSTANT MaxStarts    \* bound on the number of operations

VARIABLE starts       \* operations so far

mcVars == <<pc, cmd, slot, fd, disk, exists, meta, pristine, save, slotDir,
            lock, rootfs, content, warmups, starts>>

MCInit == Init /\ starts = 0

MCStart(c, k) ==
    /\ starts < MaxStarts
    /\ Start(c, k)
    /\ starts' = starts + 1

MCNext ==
    \E c \in Clients :
        \/ \E k \in AllCommands : MCStart(c, k)
        \/ (Step(c) \/ VmEnds(c) \/ Fail(c)) /\ UNCHANGED starts

MCSpec == MCInit /\ [][MCNext]_mcVars

Symmetry == Permutations(Clients)
=============================================================================
