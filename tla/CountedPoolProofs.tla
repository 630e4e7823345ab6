------------------------- MODULE CountedPoolProofs -------------------------
(***************************************************************************)
(* The pool keeps its promise: no owner ever has more than its capacity.   *)
(***************************************************************************)
EXTENDS CountedPool, FiniteSetTheorems, TLAPS

\* Finitely many members that may become live, an owner for each of them, and
\* a number or none for each owner.
Sizes ==
  /\ IsFiniteSet(Members)
  /\ Owner \in [Members -> Owners]
  /\ Capacity \in [Owners -> Nat \cup {Unbounded}]

LEMMA PoolIsFinite ==
  ASSUME Sizes, TypeOK, NEW o
  PROVE  IsFiniteSet(Pool(o)) /\ Cardinality(Pool(o)) \in Nat
<1>1. Pool(o) \subseteq Members /\ IsFiniteSet(Members)
  BY DEF Sizes, TypeOK, Pool
<1> QED
  BY <1>1, FS_Subset, FS_CardinalityType

\* A pool that a member joins only while it has room, as the count limits of
\* the agent intend (agent.go:55-78 and 197-209), never exceeds its capacity.
THEOREM PoolWithinCapacity ==
  ASSUME Sizes
  PROVE  Spec => [](TypeOK /\ WithinCapacity)
<1>1. Init => TypeOK /\ WithinCapacity
  <2> SUFFICES ASSUME Init, NEW o \in Owners, Capacity[o] # Unbounded
               PROVE  TypeOK /\ Cardinality(Pool(o)) <= Capacity[o]
    BY DEF Init, TypeOK, WithinCapacity
  <2>1. Pool(o) = {}
    BY DEF Init, Pool
  <2>2. Capacity[o] \in Nat
    BY DEF Sizes
  <2> QED
    BY <2>1, <2>2, FS_EmptySet DEF Init, TypeOK
<1>2. TypeOK /\ WithinCapacity /\ [Next]_live => (TypeOK /\ WithinCapacity)'
  <2> SUFFICES ASSUME TypeOK, WithinCapacity, [Next]_live
               PROVE  TypeOK' /\ WithinCapacity'
    OBVIOUS
  <2>1. TypeOK'
    BY DEF Next, Add, Remove, TypeOK
  <2>2. ASSUME NEW o \in Owners, Capacity[o] # Unbounded
        PROVE  Cardinality(Pool(o)') <= Capacity[o]
    <3>1. Cardinality(Pool(o)) <= Capacity[o] /\ Capacity[o] \in Nat
      BY <2>2 DEF WithinCapacity, Sizes
    <3>2. IsFiniteSet(Pool(o)) /\ Cardinality(Pool(o)) \in Nat
      BY PoolIsFinite
    <3>3. CASE Pool(o)' \subseteq Pool(o)
      <4>1. Cardinality(Pool(o)') <= Cardinality(Pool(o)) /\ Cardinality(Pool(o)') \in Nat
        BY <3>2, <3>3, FS_Subset, FS_CardinalityType
      <4> QED
        BY <3>1, <3>2, <4>1
    <3>4. CASE \E m \in Members : Add(m) /\ Owner[m] = o
      <4>1. PICK m \in Members : Add(m) /\ Owner[m] = o
        BY <3>4
      <4>2. m \notin Pool(o) /\ Pool(o)' = Pool(o) \cup {m}
        BY <4>1 DEF Add, Pool
      <4>3. Cardinality(Pool(o)') = Cardinality(Pool(o)) + 1
        BY <3>2, <4>2, FS_AddElement
      <4>4. Cardinality(Pool(o)) + 1 <= Capacity[o]
        BY <2>2, <4>1 DEF Add, HasRoom
      <4> QED
        BY <4>3, <4>4
    <3> QED
      BY <3>3, <3>4 DEF Next, Add, Remove, Pool
  <2> QED
    BY <2>1, <2>2 DEF WithinCapacity
<1> QED
  BY <1>1, <1>2, PTL DEF Spec
=============================================================================
