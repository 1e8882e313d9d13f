----------------------------- MODULE UidRegistry -----------------------------
(***************************************************************************)
(* The uid registry of hephaestus-jailer: the file                         *)
(* <work-root>/.uid-allocations with one "<id> <uid>" line per instance.   *)
(*                                                                         *)
(* The lines are a function from instance ids to a uid, or NoUid for an id *)
(* without a line: upsert keeps at most one line per id.  The operators    *)
(* are the registry's methods; the file, its lock and the moment a rewrite *)
(* becomes visible are state of module Jailer.                             *)
(***************************************************************************)
EXTENDS Integers, FiniteSets

CONSTANTS
    Ids,          \* instance ids that pass valid_id
    NoUid,        \* no uid: an absent line, or no privilege drop
    MaxUid,       \* largest uid_t value (u32::MAX in the build)
    UidBase,      \* the value of --uid-base
    AllocRange,   \* UID_ALLOC_RANGE, width of the allocation window
    PasswdUids    \* uids owned by a real user account

Uids == 0 .. MaxUid

ASSUME UidRegistryAssumption ==
    /\ MaxUid \in Nat
    /\ NoUid \notin Uids
    /\ UidBase \in Uids
    /\ AllocRange \in Nat
    /\ PasswdUids \subseteq Uids

Registries == [Ids -> Uids \cup {NoUid}]

NoLines == [id \in Ids |-> NoUid]

\* base.saturating_add(range): the exclusive end of the allocation window.
WindowEnd ==
    IF UidBase + AllocRange > MaxUid THEN MaxUid ELSE UidBase + AllocRange

\* The uids the loop of allocate may return.  `seen` are the accounts that
\* the passwd lookup reported: a failed lookup looks like a free uid, so it
\* may be any subset of PasswdUids.
FreeUids(lines, seen) ==
    {u \in UidBase .. (WindowEnd - 1) :
        /\ u # 0
        /\ \A id \in Ids : lines[id] # u
        /\ u \notin seen}

Lowest(S) == CHOOSE u \in S : \A v \in S : u <= v

\* Registry::allocate.  NoUid stands for the error Exhausted.
Allocate(lines, id, seen) ==
    IF lines[id] # NoUid
    THEN lines[id]
    ELSE IF FreeUids(lines, seen) = {} THEN NoUid
         ELSE Lowest(FreeUids(lines, seen))

\* The in-memory half of Registry::upsert and Registry::remove.
Upsert(lines, id, uid) == [lines EXCEPT ![id] = uid]
Remove(lines, id) == [lines EXCEPT ![id] = NoUid]
=============================================================================
