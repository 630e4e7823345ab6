----------------------------- MODULE PathLocks ------------------------------
(***************************************************************************)
(* What a WebDAV lock system promises: a lock is on a resource, alone or   *)
(* with everything below it, and no two locks that are held cover the same *)
(* resource.                                                               *)
(***************************************************************************)
CONSTANTS
  Names,   \* the names of resources
  Up       \* Up[n]: n and the collections it is in

VARIABLE locks   \* [root, zero]: zero is TRUE when only the root is locked

Lock == [root : Names, zero : BOOLEAN]

Covers(l, n) == n = l.root \/ (~l.zero /\ l.root \in Up[n])

\* Two locks of which one covers the root of the other.
Conflict(l, k) == Covers(l, k.root) \/ Covers(k, l.root)

Init == locks = {}

Take(l) == /\ \A k \in locks : ~Conflict(l, k)
           /\ locks' = locks \cup {l}

Drop(l) == /\ l \in locks
           /\ locks' = locks \ {l}

Next == \E l \in Lock : Take(l) \/ Drop(l)

Spec == Init /\ [][Next]_locks

Exclusive == \A l, k \in locks : l # k => ~Conflict(l, k)
=============================================================================
