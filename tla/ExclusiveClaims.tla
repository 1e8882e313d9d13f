--------------------------- MODULE ExclusiveClaims ---------------------------
(***************************************************************************)
(* What a flock-based claim promises: a resource (an instance id, a pool   *)
(* slot) has at most one owner, it passes to a new owner only after the    *)
(* old one has given it up, and one step changes the owner of one          *)
(* resource.                                                               *)
(***************************************************************************)
CONSTANTS Resources, Clients

VARIABLE owners     \* the clients that own each resource

Init == owners = [r \in Resources |-> {}]

Claim(c, r) ==
    /\ owners[r] = {}
    /\ owners' = [owners EXCEPT ![r] = {c}]

Release(c, r) ==
    /\ owners[r] = {c}
    /\ owners' = [owners EXCEPT ![r] = {}]

Next == \E c \in Clients, r \in Resources : Claim(c, r) \/ Release(c, r)

Spec == Init /\ [][Next]_owners
=============================================================================
