---------------------------- MODULE CountedPool -----------------------------
(***************************************************************************)
(* What a resource count limit promises: every owner has a pool of live    *)
(* members, a member is added only while the pool has room, and members    *)
(* are removed at any time, several at once.                               *)
(***************************************************************************)
EXTENDS Integers, FiniteSets

CONSTANTS
  Members, Owner,         \* members and the owner of each
  Owners,
  Capacity, Unbounded     \* Capacity[o]: a number, or Unbounded

VARIABLE live

Pool(o) == {m \in live : Owner[m] = o}

HasRoom(o) == Capacity[o] = Unbounded \/ Cardinality(Pool(o)) + 1 <= Capacity[o]

Init == live = {}

Add(m) == /\ m \notin live
          /\ HasRoom(Owner[m])
          /\ live' = live \cup {m}

Remove(gone) == /\ gone \subseteq live
                /\ live' = live \ gone

Next == \/ \E m \in Members : Add(m)
        \/ \E gone \in SUBSET live : Remove(gone)

Spec == Init /\ [][Next]_live
-----------------------------------------------------------------------------
TypeOK == live \subseteq Members

\* No pool ever holds more than its capacity.
WithinCapacity ==
  \A o \in Owners : Capacity[o] # Unbounded => Cardinality(Pool(o)) <= Capacity[o]
=============================================================================
