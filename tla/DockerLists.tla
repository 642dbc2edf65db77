------------------------------ MODULE DockerLists ------------------------------
(***************************************************************************)
(* What Docker holds, and the lists an agent can get of it.  The client asks *)
(* for the ids first and then for one container after the other, so that a   *)
(* list need not be what Docker held at any one moment.                      *)
(***************************************************************************)
EXTENDS Naturals, Sequences

CONSTANT Contents   \* what Docker holds, one after the other: sets of [id, state]

ASSUME DockerAssumption ==
    /\ Len(Contents) \in Nat \ {0}
    /\ \A i \in 1 .. Len(Contents) : \A r, s \in Contents[i] : r.id = s.id => r = s

Versions == 0 .. Len(Contents)

Containers == UNION {Contents[v] : v \in 1 .. Len(Contents)}

\* The lists whose ids are those of version v and whose containers were inspected
\* up to version w.
Readings(v, w) ==
    {listed \in SUBSET UNION {Contents[x] : x \in v .. w} :
        /\ {r.id : r \in listed} = {r.id : r \in Contents[v]}
        /\ \A r, s \in listed : r.id = s.id => r = s}

\* A container of version v is gone before it was inspected at version w.
Removed(v, w) ==
    \E r \in Contents[v] : \E x \in v .. w : \A s \in Contents[x] : s.id # r.id

=============================================================================
