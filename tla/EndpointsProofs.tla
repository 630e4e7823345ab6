--------------------------- MODULE EndpointsProofs ---------------------------
(***************************************************************************)
(* Theorems about the endpoints, for any tree of resources, any number of  *)
(* requests, locks and tokens, of UDP addresses and sessions, and of VPN   *)
(* connections, addresses and values of a byte: the lock system of a drive *)
(* counts right, its locks exclude each other, and requests keep what they *)
(* have claimed; the map of a UDP frontend keeps one open session for an   *)
(* address; the clients of a VPN are lost to nobody but a rival for the    *)
(* same address; and all of this of whichever endpoint a process runs.     *)
(***************************************************************************)
EXTENDS Endpoints, FiniteSetTheorems, TLAPS
-----------------------------------------------------------------------------
(***************************************************************************)
(* DavLocks.                                                               *)
(***************************************************************************)

MemType ==
  /\ token \in [Names -> Tokens \cup {None}]
  /\ ref \in [Names -> Nat]
  /\ zero \in [Names -> BOOLEAN]
  /\ finite \in [Names -> BOOLEAN]
  /\ held \subseteq Names
  /\ expiring \subseteq Names

\* A lock above another one has zero depth.
ZeroAbove ==
  \A m, n \in Names : Locked(m) /\ Locked(n) /\ m \in Up[n] /\ m # n => zero[m]

\* What is held is locked.
HeldLocked == \A n \in held : Locked(n)

MemInv == MemType /\ Consistent /\ WillExpire /\ ZeroAbove /\ HeldLocked

\* What a request knows of its claims: what it has confirmed is held; nobody can
\* confirm its temporary locks, and they do not expire; a write has a lock of its
\* own over everything it names.
Claimed(r) ==
  \A x \in NamedBy(r) : x \in Names /\ \E n \in Names : Covers(n, x) /\ n \in Claims(r)

Sane(r) ==
  /\ req[r].nodes \subseteq held
  /\ \A n \in Names : token[n] \in req[r].temp => n \notin held /\ (req[r].op # "lock" => ~finite[n])
  /\ req[r].step = "locking" =>
       /\ req[r].op = "move" /\ {req[r].src, req[r].dst} \subseteq Names
       /\ token[req[r].src] \in req[r].temp /\ req[r].nodes = {}
  /\ Writing(r) => req[r].op # "lock"
  /\ Writing(r) /\ ~Tagged => Claimed(r)

\* Claims are of one request only.
Apart ==
  \A r, q \in Requests : r # q =>
    /\ req[r].nodes \cap req[q].nodes = {}
    /\ req[r].temp \cap req[q].temp = {}

DavInv ==
  /\ MemInv /\ req \in [Requests -> Request] /\ Apart
  /\ \A r \in Requests : Sane(r)
-----------------------------------------------------------------------------
(* The calls of memLS.                                                     *)

LEMMA LockedBelowFinite ==
  ASSUME NEW n \in Names
  PROVE  IsFiniteSet(LockedBelow(n)) /\ Cardinality(LockedBelow(n)) \in Nat
<1>1. IsFiniteSet(Names) /\ LockedBelow(n) \subseteq Names
    BY DavLocksAssumption DEF LockedBelow
<1>2. IsFiniteSet(LockedBelow(n))
    BY <1>1, FS_Subset
<1> QED BY <1>2, FS_CardinalityType

\* A node with a lock on it or below it has a reference.
LEMMA LockedCounted ==
  ASSUME MemInv, NEW m \in Names, NEW n \in Names, Locked(m), n \in Up[m]
  PROVE  ref[n] > 0
<1>1. m \in LockedBelow(n)
    BY DEF LockedBelow
<1>2. Cardinality(LockedBelow(n)) # 0
    BY <1>1, LockedBelowFinite, FS_EmptySet
<1>3. ref[n] = Cardinality(LockedBelow(n)) /\ ref[n] \in Nat
    BY DEF MemInv, MemType, Consistent
<1> QED BY <1>2, <1>3

LEMMA InitMem == Init => MemInv
<1> SUFFICES ASSUME Init PROVE MemInv
    OBVIOUS
<1>1. \A n \in Names : ~Locked(n)
    BY DEF Init, Locked
<1>2. \A n \in Names : LockedBelow(n) = {}
    BY <1>1 DEF LockedBelow
<1>3. Consistent
    BY <1>1, <1>2, FS_EmptySet DEF Consistent, Init
<1> QED BY <1>1, <1>3 DEF Init, MemInv, MemType, WillExpire, ZeroAbove, HeldLocked

\* The references are counted up for the nodes on the way to the root.
LEMMA CreateMem ==
  ASSUME MemInv, NEW n \in Names, NEW z \in BOOLEAN, NEW f \in BOOLEAN, NEW t \in Tokens,
         CanCreate(n, z), \A m \in Names : token[m] # t, Create(n, z, f, t)
  PROVE  MemInv' /\ ~Locked(n) /\ n \notin held
<1>1. ~Locked(n) /\ n \notin held
    BY LockedCounted, DavLocksAssumption DEF CanCreate, MemInv, HeldLocked
<1>2. /\ t # None
      /\ \A m \in Names : token'[m] = IF m = n THEN t ELSE token[m]
      /\ \A m \in Names : zero'[m] = IF m = n THEN z ELSE zero[m]
      /\ \A m \in Names : finite'[m] = IF m = n THEN f ELSE finite[m]
      /\ held' = held
      /\ \A m \in Names : ref'[m] = IF m \in Up[n] THEN ref[m] + 1 ELSE ref[m]
      /\ ref' \in [Names -> Nat]
    BY DavLocksAssumption DEF Create, MemInv, MemType
<1>3. \A m \in Names : Locked(m)' <=> (m = n \/ Locked(m))
    BY <1>1, <1>2 DEF Locked
<1>4. MemType'
    BY <1>2 DEF Create, MemInv, MemType
<1>5. ASSUME NEW m \in Names PROVE ref'[m] = Cardinality(LockedBelow(m)')
  <2>1. ref[m] = Cardinality(LockedBelow(m)) /\ n \notin LockedBelow(m)
      BY <1>1 DEF MemInv, Consistent, LockedBelow
  <2>2. CASE m \in Up[n]
    <3>1. LockedBelow(m)' = LockedBelow(m) \cup {n}
        BY <1>3, <2>2 DEF LockedBelow
    <3>2. Cardinality(LockedBelow(m) \cup {n}) = Cardinality(LockedBelow(m)) + 1
        BY <2>1, LockedBelowFinite, FS_AddElement
    <3> QED BY <1>2, <2>1, <2>2, <3>1, <3>2
  <2>3. CASE m \notin Up[n]
    <3>1. LockedBelow(m)' = LockedBelow(m)
        BY <1>3, <2>3 DEF LockedBelow
    <3> QED BY <1>2, <2>1, <2>3, <3>1
  <2> QED BY <2>2, <2>3
<1>6. Consistent'
    BY <1>1, <1>2, <1>3, <1>5 DEF MemInv, Consistent, Locked
<1>7. WillExpire'
  <2>1. expiring' = IF f THEN expiring \cup {n} ELSE expiring
      BY DEF Create
  <2>2. n \notin expiring
      BY <1>1 DEF MemInv, WillExpire
  <2> QED BY <1>1, <1>2, <1>3, <2>1, <2>2 DEF MemInv, WillExpire
<1>8. ZeroAbove'
  <2> SUFFICES ASSUME NEW m \in Names, NEW k \in Names, Locked(m)', Locked(k)', m \in Up[k], m # k
               PROVE  zero'[m]
      BY DEF ZeroAbove
  <2>1. CASE m = n
      BY <1>2, <1>3, <2>1, LockedCounted DEF CanCreate
  <2>2. CASE k = n
    <3>1. Locked(m) /\ ref[m] > 0 /\ m \in Up[n] \ {n}
        BY <1>3, <2>2, LockedCounted, DavLocksAssumption
    <3> QED BY <1>2, <2>2, <3>1 DEF CanCreate
  <2>3. CASE m # n /\ k # n
      BY <1>2, <1>3, <2>3 DEF MemInv, ZeroAbove
  <2> QED BY <2>1, <2>2, <2>3
<1>9. HeldLocked'
    BY <1>2, <1>3 DEF MemInv, MemType, HeldLocked
<1> QED BY <1>1, <1>4, <1>6, <1>7, <1>8, <1>9 DEF MemInv

\* And down again.
LEMMA RemoveMem ==
  ASSUME MemInv, NEW n \in Names, Locked(n), n \notin held, Remove(n)
  PROVE  MemInv'
<1>1. /\ \A m \in Names : token'[m] = IF m = n THEN None ELSE token[m]
      /\ \A m \in Names : ref'[m] = IF m \in Up[n] THEN ref[m] - 1 ELSE ref[m]
      /\ UNCHANGED <<zero, finite, held>> /\ expiring' = expiring \ {n}
    BY DEF Remove, MemInv, MemType
<1>2. \A m \in Names : Locked(m)' <=> (m # n /\ Locked(m))
    BY <1>1 DEF Locked
<1>3. \A m \in Up[n] : m \in Names /\ ref[m] > 0
    BY LockedCounted, DavLocksAssumption
<1>4. MemType'
  <2>1. \A m \in Names : ref'[m] \in Nat
      BY <1>1, <1>3 DEF MemInv, MemType
  <2>2. DOMAIN ref' = Names /\ ref' = [m \in Names |-> ref'[m]]
      BY DEF Remove
  <2> QED BY <1>1, <2>1, <2>2 DEF Remove, MemInv, MemType
<1>5. ASSUME NEW m \in Names PROVE ref'[m] = Cardinality(LockedBelow(m)')
  <2>1. ref[m] = Cardinality(LockedBelow(m)) /\ Cardinality(LockedBelow(m)) \in Nat
      BY LockedBelowFinite DEF MemInv, Consistent
  <2>2. CASE m \in Up[n]
    <3>1. LockedBelow(m)' = LockedBelow(m) \ {n} /\ n \in LockedBelow(m)
        BY <1>2, <2>2 DEF LockedBelow
    <3>2. Cardinality(LockedBelow(m) \ {n}) = Cardinality(LockedBelow(m)) - 1
        BY <3>1, LockedBelowFinite, FS_RemoveElement
    <3> QED BY <1>1, <2>1, <2>2, <3>1, <3>2
  <2>3. CASE m \notin Up[n]
    <3>1. LockedBelow(m)' = LockedBelow(m)
        BY <1>2, <2>3 DEF LockedBelow
    <3> QED BY <1>1, <2>1, <2>3, <3>1
  <2> QED BY <2>2, <2>3
<1>6. Consistent'
    BY <1>1, <1>2, <1>5 DEF MemInv, Consistent, Locked
<1>7. WillExpire' /\ ZeroAbove' /\ HeldLocked'
    BY <1>1, <1>2 DEF MemInv, MemType, WillExpire, ZeroAbove, HeldLocked
<1> QED BY <1>4, <1>6, <1>7 DEF MemInv

\* The locks are the same; only who holds them and when they expire changes.
LEMMA SameLocksMem ==
  ASSUME MemInv, UNCHANGED <<token, ref, zero>>, MemType', WillExpire', HeldLocked'
  PROVE  MemInv'
<1>1. \A n \in Names : Locked(n)' = Locked(n) /\ LockedBelow(n)' = LockedBelow(n)
    BY DEF Locked, LockedBelow
<1> QED BY <1>1 DEF MemInv, Consistent, ZeroAbove

LEMMA HoldMem ==
  ASSUME MemInv, NEW nodes \in SUBSET Names, \A n \in nodes : Locked(n), Hold(nodes)
  PROVE  MemInv'
<1>1. MemType' /\ HeldLocked'
    BY DEF Hold, MemInv, MemType, HeldLocked, Locked
<1>2. WillExpire'
    BY DEF Hold, MemInv, WillExpire, Locked
<1> QED BY <1>1, <1>2, SameLocksMem DEF Hold

LEMMA UnholdMem ==
  ASSUME MemInv, NEW nodes \in SUBSET held, Unhold(nodes)
  PROVE  MemInv'
<1>1. MemType' /\ HeldLocked'
    BY DEF Unhold, MemInv, MemType, HeldLocked, Locked
<1>2. WillExpire'
    BY DEF Unhold, MemInv, MemType, WillExpire, HeldLocked, Locked
<1> QED BY <1>1, <1>2, SameLocksMem DEF Unhold

LEMMA RefreshMem ==
  ASSUME MemInv, NEW n \in Names, NEW f \in BOOLEAN, Refresh(n, f)
  PROVE  MemInv'
<1>1. n \in Known \ held /\ Locked(n)
    BY DEF Refresh, Known
<1>2. MemType' /\ HeldLocked'
    BY <1>1 DEF Refresh, MemInv, MemType, HeldLocked, Locked
<1>3. WillExpire'
    BY <1>1 DEF Refresh, MemInv, MemType, WillExpire, Locked
<1> QED BY <1>2, <1>3, SameLocksMem DEF Refresh

\* Unlock takes away the lock with the token, if it is there and not held.
LEMMA UnlockTokenMem ==
  ASSUME MemInv, NEW t \in Tokens, UnlockToken(t)
  PROVE  /\ MemInv'
         /\ UNCHANGED <<zero, finite, held>>
         /\ \A n \in Names : token'[n] = token[n] \/ (token[n] = t /\ n \notin held /\ token'[n] = None)
<1>1. CASE \E n \in Names \ held : token[n] = t
  <2>1. PICK n \in Names \ held : token[n] = t /\ Remove(n)
      BY <1>1 DEF UnlockToken
  <2>2. Locked(n)
      BY <2>1, DavLocksAssumption DEF Locked
  <2>3. MemInv'
      BY <2>1, <2>2, RemoveMem
  <2> QED BY <2>1, <2>3 DEF Remove, MemInv, MemType
<1>2. CASE ~\E n \in Names \ held : token[n] = t
  <2>1. UNCHANGED memLS
      BY <1>2 DEF UnlockToken
  <2> QED
      BY <2>1
      DEF memLS, MemInv, MemType, Consistent, WillExpire, ZeroAbove, HeldLocked, Locked, LockedBelow
<1> QED BY <1>1, <1>2
-----------------------------------------------------------------------------
(* Requests.                                                               *)

\* A request keeps what it claims when its locks stay what they are.
LEMMA KeepsSane ==
  ASSUME DavInv, NEW r \in Requests, req'[r] = req[r], req[r].nodes \subseteq held',
         \A n \in Names : n \in Claims(r) /\ req[r].op # "lock" => token'[n] = token[n] /\ zero'[n] = zero[n],
         \A n \in Names : token'[n] \in req[r].temp => n \notin held' /\ (req[r].op # "lock" => ~finite'[n])
  PROVE  Sane(r)'
<1>1. Sane(r)
    BY DEF DavInv
<1>2. req[r].step = "locking" => token'[req[r].src] \in req[r].temp
    BY <1>1 DEF Sane, Claims
<1>3. ASSUME Writing(r), ~Tagged PROVE Claimed(r)'
  <2> SUFFICES ASSUME NEW x \in NamedBy(r) PROVE x \in Names /\ \E n \in Names : Covers(n, x)' /\ n \in Claims(r)'
      BY DEF Claimed, NamedBy
  <2>1. PICK n \in Names : Covers(n, x) /\ n \in Claims(r) /\ x \in Names
      BY <1>1, <1>3 DEF Sane, Claimed
  <2>2. token'[n] = token[n] /\ zero'[n] = zero[n]
      BY <1>1, <1>3, <2>1 DEF Sane
  <2>3. Covers(n, x)' /\ n \in Claims(r)'
      BY <2>1, <2>2 DEF Covers, Locked, Claims
  <2> QED BY <2>1, <2>3
<1> QED BY <1>1, <1>2, <1>3 DEF Sane, Writing

\* A request that is over claims nothing.
LEMMA IdleIsSane == ASSUME NEW r \in Requests, req'[r] = Idle PROVE Sane(r)'
    BY DEF Idle, Sane, Writing

\* r gives claims up, and takes no new ones.
LEMMA ApartStays ==
  ASSUME DavInv, NEW r \in Requests, NEW x \in Request, req' = [req EXCEPT ![r] = x],
         x.nodes \subseteq req[r].nodes, x.temp \subseteq req[r].temp
  PROVE  Apart' /\ req' \in [Requests -> Request]
<1>1. req'[r] = x /\ \A q \in Requests \ {r} : req'[q] = req[q]
    BY DEF DavInv
<1> QED BY <1>1 DEF DavInv, Apart

LEMMA IdleType == Idle \in Request
    BY DEF Idle, Request

\* A lock is created with a token of nobody's: everything else stays.
LEMMA CreateInv ==
  ASSUME DavInv, NEW r \in Requests, NEW n \in Names, NEW z \in BOOLEAN, NEW f \in BOOLEAN,
         NEW t \in Tokens, CanCreate(n, z), Fresh(t), Create(n, z, f, t),
         NEW x \in Request, req' = [req EXCEPT ![r] = x],
         x.temp = req[r].temp \cup {t}, x.nodes = {}, Sane(r)'
  PROVE  DavInv'
<1>1. MemInv' /\ ~Locked(n) /\ n \notin held
    BY CreateMem DEF DavInv, Fresh
<1>2. req'[r] = x /\ \A q \in Requests \ {r} : req'[q] = req[q]
    BY DEF DavInv
<1>3. Apart' /\ req' \in [Requests -> Request]
    BY <1>2 DEF DavInv, Apart, Fresh
<1>4. ASSUME NEW q \in Requests \ {r} PROVE Sane(q)'
  <2>1. t \notin req[q].temp /\ None \notin req[q].temp /\ Sane(q)
      BY DavLocksAssumption DEF Fresh, DavInv, Request
  <2>2. n \notin Claims(q)
      BY <1>1, <2>1 DEF Claims, Sane, Locked
  <2>3. \A m \in Names : m # n => token'[m] = token[m] /\ zero'[m] = zero[m] /\ finite'[m] = finite[m]
      BY DEF Create, DavInv, MemInv, MemType
  <2>4. token'[n] = t /\ held' = held
      BY DEF Create, DavInv, MemInv, MemType
  <2>5. \A m \in Names : token'[m] \in req[q].temp => m \notin held' /\ (req[q].op # "lock" => ~finite'[m])
      BY <2>1, <2>3, <2>4 DEF Sane
  <2> QED BY <1>2, <2>1, <2>2, <2>3, <2>4, <2>5, KeepsSane DEF Sane
<1> QED BY <1>1, <1>2, <1>3, <1>4 DEF DavInv

\* A lock without a holder goes, which no other request has as a temporary one
\* (but LOCK, which does not rely on it).
LEMMA GoneInv ==
  ASSUME DavInv, NEW q \in Requests, req'[q] = req[q], UNCHANGED <<zero, finite, held>>,
         \A n \in Names : \/ token'[n] = token[n]
                          \/ /\ n \notin held /\ token'[n] = None
                             /\ req[q].op = "lock" \/ token[n] \notin req[q].temp
  PROVE  Sane(q)'
<1>1. Sane(q) /\ None \notin req[q].temp
    BY DavLocksAssumption DEF DavInv, Request
<1>2. \A n \in Names : n \in Claims(q) /\ req[q].op # "lock" => token'[n] = token[n]
    BY <1>1 DEF Claims, Sane
<1>3. \A n \in Names : token'[n] \in req[q].temp => n \notin held /\ (req[q].op # "lock" => ~finite[n])
    BY <1>1 DEF Sane
<1> QED BY <1>1, <1>2, <1>3, KeepsSane DEF Sane

\* r gives back a temporary lock and goes on without.
LEMMA GiveBackInv ==
  ASSUME DavInv, NEW r \in Requests, NEW t \in req[r].temp, UnlockToken(t),
         NEW x \in Request, req' = [req EXCEPT ![r] = x],
         x.nodes \subseteq req[r].nodes, x.temp \subseteq req[r].temp, Sane(r)'
  PROVE  DavInv'
<1>1. t \in Tokens
    BY DEF DavInv, Request
<1>2. /\ MemInv' /\ UNCHANGED <<zero, finite, held>>
      /\ \A n \in Names : token'[n] = token[n] \/ (token[n] = t /\ n \notin held /\ token'[n] = None)
    BY <1>1, UnlockTokenMem DEF DavInv
<1>3. Apart' /\ req' \in [Requests -> Request]
    BY ApartStays
<1>4. ASSUME NEW q \in Requests \ {r} PROVE Sane(q)'
  <2>1. req'[q] = req[q] /\ t \notin req[q].temp
      BY DEF DavInv, Apart
  <2> QED BY <1>2, <2>1, GoneInv
<1> QED BY <1>2, <1>3, <1>4 DEF DavInv

\* A lock a client knows of goes, or its time is over.
LEMMA RemoveInv ==
  ASSUME DavInv, NEW n \in Names, Remove(n), UNCHANGED req,
         n \in Known \ held \/ n \in expiring
  PROVE  DavInv'
<1>1. Locked(n) /\ n \notin held /\ (n \in Known \/ finite[n])
    BY DEF Known, DavInv, MemInv, WillExpire
<1>2. MemInv'
    BY <1>1, RemoveMem DEF DavInv
<1>3. \A m \in Names : token'[m] = IF m = n THEN None ELSE token[m]
    BY DEF Remove, DavInv, MemInv, MemType
<1>4. ASSUME NEW q \in Requests PROVE Sane(q)'
  <2>1. req[q].op = "lock" \/ token[n] \notin req[q].temp
      BY <1>1 DEF DavInv, Sane, Known
  <2> QED BY <1>1, <1>3, <2>1, GoneInv DEF Remove
<1> QED BY <1>2, <1>4 DEF DavInv, Apart
-----------------------------------------------------------------------------
(* The handlers.                                                           *)

LEMMA FreshToken ==
  ASSUME NEW t, Fresh(t)
  PROVE  \A m \in Names : token[m] # t
  BY DEF Fresh

LEMMA StartWithoutIfInv ==
  ASSUME DavInv, NEW r \in Requests, NEW op \in {"put", "delete", "copy", "move"}, NEW src \in Names,
         NEW dst \in IF op \in {"copy", "move"} THEN Names \ {src} ELSE {None},
         StartWithoutIf(r, op, src, dst)
  PROVE  DavInv'
<1> DEFINE first == IF op = "copy" THEN dst ELSE src
           step == IF op = "move" THEN "locking" ELSE "writing"
<1>1. first \in Names /\ req[r] = Idle /\ CanCreate(first, TRUE)
    BY DEF StartWithoutIf
<1>2. PICK t \in Tokens :
        Fresh(t) /\ Create(first, TRUE, FALSE, t) /\ Serves(r, op, src, dst, step, {t}, {})
    BY DEF StartWithoutIf
<1> DEFINE x == [op |-> op, src |-> src, dst |-> dst, step |-> step, temp |-> {t}, nodes |-> {}]
<1>3. x \in Request /\ req' = [req EXCEPT ![r] = x] /\ req'[r] = x /\ x.temp = req[r].temp \cup {t} /\ x.nodes = {}
    BY <1>1, <1>2 DEF Serves, Request, Idle, DavInv
<1>4. MemInv' /\ ~Locked(first) /\ first \notin held
    BY <1>1, <1>2, CreateMem DEF DavInv, Fresh
<1>5. /\ \A m \in Names : token'[m] = IF m = first THEN t ELSE token[m]
      /\ finite'[first] = FALSE /\ held' = held /\ t # None
    BY <1>1, <1>2, DavLocksAssumption DEF Create, DavInv, MemInv, MemType
<1>6. \A m \in Names : token'[m] \in {t} => m = first
    BY <1>2, <1>5 DEF Fresh
<1>7. step = "writing" => Named(op, src, dst) = {first}
    BY DEF Named, Source, Destination
<1>8. Covers(first, first)'
    BY <1>1, <1>5 DEF Covers, Locked
<1>9. Sane(r)'
  <2>1. step = "locking" => first = src /\ op = "move" /\ {src, dst} \subseteq Names
      OBVIOUS
  <2>2. step = "writing" => Claimed(r)'
      BY <1>1, <1>3, <1>5, <1>7, <1>8 DEF Claimed, NamedBy, Claims
  <2> QED BY <1>1, <1>3, <1>4, <1>5, <1>6, <2>1, <2>2 DEF Sane, Writing
<1> HIDE DEF x, first
<1> QED BY <1>1, <1>2, <1>3, <1>9, CreateInv

LEMMA LockDestinationInv ==
  ASSUME DavInv, NEW r \in Requests, LockDestination(r)
  PROVE  DavInv'
<1>1. PICK src \in Names, dst \in Names :
        /\ req[r].src = src /\ req[r].dst = dst /\ req[r].op = "move" /\ req[r].nodes = {}
        /\ req[r].step = "locking" /\ CanCreate(dst, TRUE) /\ req[r] \in Request
        /\ token[src] \in req[r].temp
    BY DEF LockDestination, DavInv, Sane
<1>2. PICK t \in Tokens :
        /\ Fresh(t) /\ Create(dst, TRUE, FALSE, t)
        /\ req' = [req EXCEPT ![r].step = "writing", ![r].temp = @ \cup {t}]
    BY <1>1 DEF LockDestination
<1> DEFINE x == [req[r] EXCEPT !.step = "writing", !.temp = @ \cup {t}]
<1>3. /\ x \in Request /\ req' = [req EXCEPT ![r] = x] /\ req'[r] = x
      /\ x.temp = req[r].temp \cup {t} /\ x.nodes = {}
      /\ x.op = "move" /\ x.src = src /\ x.dst = dst /\ x.step = "writing"
    BY <1>1, <1>2 DEF Request, DavInv
<1>4. MemInv' /\ ~Locked(dst) /\ dst \notin held
    BY <1>1, <1>2, CreateMem DEF DavInv, Fresh
<1>5. /\ \A m \in Names : token'[m] = IF m = dst THEN t ELSE token[m]
      /\ \A m \in Names : finite'[m] = IF m = dst THEN FALSE ELSE finite[m]
      /\ held' = held /\ t # None
    BY <1>1, <1>2, DavLocksAssumption DEF Create, DavInv, MemInv, MemType
<1>6. Locked(src) /\ src # dst
    BY <1>1, <1>4, DavLocksAssumption DEF Locked, Request
<1>7. Claimed(r)'
  <2>1. Named("move", src, dst) = {src, dst}
      BY DEF Named, Source, Destination
  <2>2. Covers(src, src)' /\ Covers(dst, dst)'
      BY <1>1, <1>5, <1>6 DEF Covers, Locked
  <2>3. token'[src] \in x.temp /\ token'[dst] \in x.temp
      BY <1>1, <1>3, <1>5, <1>6
  <2> QED BY <1>1, <1>3, <2>1, <2>2, <2>3 DEF Claimed, NamedBy, Claims
<1>8. Sane(r)'
  <2>1. Sane(r)
      BY DEF DavInv
  <2>2. \A m \in Names : token'[m] \in x.temp => m \notin held' /\ ~finite'[m]
      BY <1>1, <1>2, <1>3, <1>4, <1>5, <2>1 DEF Sane, Fresh
  <2> QED BY <1>3, <1>5, <1>7, <2>1, <2>2 DEF Sane, Writing
<1> HIDE DEF x
<1> QED BY <1>1, <1>2, <1>3, <1>8, CreateInv

LEMMA LockDestinationFailsInv ==
  ASSUME DavInv, NEW r \in Requests, LockDestinationFails(r)
  PROVE  DavInv'
<1>1. PICK t \in req[r].temp : UnlockToken(t)
    BY DEF LockDestinationFails
<1>2. req' = [req EXCEPT ![r] = Idle] /\ req'[r] = Idle /\ Idle.nodes = {} /\ Idle.temp = {}
    BY DEF LockDestinationFails, DavInv, Idle
<1> QED BY <1>1, <1>2, IdleIsSane, IdleType, GiveBackInv

\* What it has confirmed was held by nobody, and covers what it names.
LEMMA StartWithIfInv ==
  ASSUME DavInv, NEW r \in Requests, NEW op \in {"put", "delete", "copy", "move"}, NEW src \in Names,
         NEW dst \in IF op \in {"copy", "move"} THEN Names \ {src} ELSE {None},
         StartWithIf(r, op, src, dst)
  PROVE  DavInv'
<1>1. PICK source \in {Source(op, src)} \cup (IF Tagged THEN {{n} : n \in Names} ELSE {}) :
        \E found \in [source \cup Destination(op, dst) -> Known] :
          LET nodes == {found[x] : x \in DOMAIN found} IN
          /\ \A x \in DOMAIN found : found[x] \in Claimable(x)
          /\ Hold(nodes)
          /\ Serves(r, op, src, dst, "writing", {}, nodes)
    BY DEF StartWithIf
<1>2. PICK found \in [source \cup Destination(op, dst) -> Known] :
        /\ \A x \in DOMAIN found : found[x] \in Claimable(x)
        /\ Hold({found[x] : x \in DOMAIN found})
        /\ Serves(r, op, src, dst, "writing", {}, {found[x] : x \in DOMAIN found})
    BY <1>1
<1> DEFINE nodes == {found[x] : x \in DOMAIN found}
           new == [op |-> op, src |-> src, dst |-> dst, step |-> "writing", temp |-> {}, nodes |-> nodes]
<1>3. nodes \in SUBSET Names /\ nodes \subseteq Known /\ nodes \cap held = {}
    BY <1>2 DEF Claimable, Known
<1>4. /\ req[r] = Idle /\ new \in Request /\ req' = [req EXCEPT ![r] = new]
      /\ req'[r] = new /\ \A q \in Requests \ {r} : req'[q] = req[q]
    BY <1>2, <1>3 DEF StartWithIf, Serves, Request, DavInv
<1>5. MemInv' /\ UNCHANGED <<token, zero, finite>> /\ held' = held \cup nodes
    BY <1>2, <1>3, HoldMem DEF Hold, Known, DavInv
<1>6. Apart' /\ req' \in [Requests -> Request]
  <2>1. \A q \in Requests : req[q].nodes \subseteq held
      BY DEF DavInv, Sane
  <2>2. req' \in [Requests -> Request]
      BY <1>4 DEF DavInv
  <2>3. ASSUME NEW q \in Requests \ {r} PROVE nodes \cap req[q].nodes = {}
      BY <1>3, <2>1
  <2> HIDE DEF nodes
  <2>4. Apart'
      BY <1>4, <2>3 DEF DavInv, Apart
  <2> QED BY <2>2, <2>4
<1>7. ~Tagged => Claimed(r)'
  <2> SUFFICES ASSUME ~Tagged, NEW x \in Named(op, src, dst)
               PROVE  x \in Names /\ \E n \in Names : Covers(n, x)' /\ n \in nodes
      BY <1>4 DEF Claimed, NamedBy, Claims
  <2>1. DOMAIN found = Named(op, src, dst)
      BY <1>1 DEF Named
  <2>2. found[x] \in nodes /\ Covers(found[x], x)
      BY <1>2, <2>1 DEF Claimable
  <2>3. Covers(found[x], x)'
      BY <1>5, <2>2 DEF Covers, Locked
  <2>4. x \in Names
      BY DEF Named, Source, Destination
  <2> QED BY <1>3, <2>2, <2>3, <2>4
<1>8. Sane(r)'
    BY <1>4, <1>5, <1>7 DEF Sane, Writing
<1>9. ASSUME NEW q \in Requests \ {r} PROVE Sane(q)'
  <2>1. Sane(q) /\ \A n \in nodes : token[n] \notin req[q].temp
      BY <1>3 DEF DavInv, Known
  <2> QED BY <1>4, <1>5, <2>1, KeepsSane DEF Sane
<1> QED BY <1>5, <1>6, <1>8, <1>9 DEF DavInv

\* Nobody else has confirmed what it lets go.
LEMMA ReleaseHeldInv ==
  ASSUME DavInv, NEW r \in Requests, ReleaseHeld(r)
  PROVE  DavInv'
<1>1. PICK nodes \in SUBSET held : nodes = req[r].nodes
    BY DEF DavInv, Sane
<1>2. /\ Unhold(nodes) /\ req' = [req EXCEPT ![r] = Idle]
      /\ req'[r] = Idle /\ \A q \in Requests \ {r} : req'[q] = req[q]
    BY <1>1 DEF ReleaseHeld, DavInv
<1>3. MemInv' /\ UNCHANGED <<token, zero, finite>> /\ held' = held \ nodes
    BY <1>2, UnholdMem DEF Unhold, DavInv
<1>4. Apart' /\ req' \in [Requests -> Request]
    BY <1>2, ApartStays, IdleType DEF Idle
<1>5. Sane(r)'
    BY <1>2, IdleIsSane
<1>6. ASSUME NEW q \in Requests \ {r} PROVE Sane(q)'
  <2>1. Sane(q) /\ nodes \cap req[q].nodes = {}
      BY <1>1 DEF DavInv, Apart
  <2> QED BY <1>2, <1>3, <2>1, KeepsSane DEF Sane
<1> QED BY <1>3, <1>4, <1>5, <1>6 DEF DavInv

LEMMA ReleaseTemporaryInv ==
  ASSUME DavInv, NEW r \in Requests, ReleaseTemporary(r)
  PROVE  DavInv'
<1>1. PICK t \in req[r].temp :
        /\ UnlockToken(t)
        /\ req' = [req EXCEPT ![r] = IF req[r].temp = {t} THEN Idle
                                     ELSE [req[r] EXCEPT !.step = "releasing", !.temp = @ \ {t}]]
    BY DEF ReleaseTemporary
<1>2. CASE req[r].temp = {t}
  <2>1. req' = [req EXCEPT ![r] = Idle] /\ req'[r] = Idle /\ Idle.nodes = {} /\ Idle.temp = {}
      BY <1>1, <1>2 DEF DavInv, Idle
  <2> QED BY <1>1, <2>1, IdleIsSane, IdleType, GiveBackInv
<1>3. CASE req[r].temp # {t}
  <2> DEFINE x == [req[r] EXCEPT !.step = "releasing", !.temp = @ \ {t}]
  <2>1. /\ x \in Request
        /\ x.step = "releasing" /\ x.op = req[r].op /\ x.nodes = req[r].nodes
        /\ x.temp = req[r].temp \ {t}
    <3>1. req[r] \in Request
        BY DEF DavInv
    <3> QED BY <3>1 DEF Request
  <2>2. req' = [req EXCEPT ![r] = x]
      BY <1>1, <1>3
  <2> HIDE DEF x
  <2>6. req'[r] = x
      BY <2>2 DEF DavInv
  <2>3. /\ UNCHANGED <<zero, finite, held>>
        /\ \A n \in Names : token'[n] = token[n] \/ token'[n] = None
    <3>1. t \in Tokens
        BY DEF DavInv, Request
    <3> QED BY <1>1, <3>1, UnlockTokenMem DEF DavInv
  <2>4. Sane(r) /\ None \notin req[r].temp
      BY DavLocksAssumption DEF DavInv, Request
  <2>5. Sane(r)'
      BY <2>1, <2>3, <2>4, <2>6 DEF Sane, Writing
  <2> QED BY <1>1, <2>1, <2>2, <2>5, GiveBackInv
<1> QED BY <1>2, <1>3

LEMMA LockResourceInv ==
  ASSUME DavInv, NEW r \in Requests, NEW n \in Names, NEW z \in BOOLEAN, NEW f \in BOOLEAN,
         LockResource(r, n, z, f)
  PROVE  DavInv'
<1>1. PICK t \in Tokens :
        Fresh(t) /\ Create(n, z, f, t) /\ Serves(r, "lock", n, None, "opening", {t}, {})
    BY DEF LockResource
<1> DEFINE x == [op |-> "lock", src |-> n, dst |-> None, step |-> "opening", temp |-> {t}, nodes |-> {}]
<1>2. /\ req[r] = Idle /\ CanCreate(n, z) /\ x \in Request
      /\ req' = [req EXCEPT ![r] = x] /\ req'[r] = x /\ x.temp = req[r].temp \cup {t} /\ x.nodes = {}
  <2>1. req[r] = Idle /\ CanCreate(n, z)
      BY DEF LockResource
  <2>2. x \in Request
      BY DEF Request
  <2>3. req' = [req EXCEPT ![r] = x] /\ req'[r] = x
      BY <1>1 DEF Serves, DavInv
  <2>4. x.temp = req[r].temp \cup {t} /\ x.nodes = {}
      BY <2>1 DEF Idle
  <2> QED BY <2>1, <2>2, <2>3, <2>4
<1>3. MemInv' /\ n \notin held
    BY <1>1, <1>2, CreateMem DEF DavInv, Fresh
<1>4. held' = held /\ \A m \in Names : token'[m] = t => m = n
    BY <1>1 DEF Create, Fresh, DavInv, MemInv, MemType
<1>5. Sane(r)'
    BY <1>2, <1>3, <1>4 DEF Sane, Writing
<1> HIDE DEF x
<1> QED BY <1>1, <1>2, <1>5, CreateInv

LEMMA LockAnsweredInv ==
  ASSUME DavInv, NEW r \in Requests, LockAnswered(r)
  PROVE  DavInv'
<1>1. /\ req' = [req EXCEPT ![r] = Idle] /\ UNCHANGED memLS
      /\ req'[r] = Idle /\ \A q \in Requests \ {r} : req'[q] = req[q]
    BY DEF LockAnswered, DavInv
<1>2. MemInv'
    BY <1>1
    DEF DavInv, memLS, MemInv, MemType, Consistent, WillExpire, ZeroAbove, HeldLocked, Locked, LockedBelow
<1>3. Apart' /\ req' \in [Requests -> Request]
    BY <1>1, ApartStays, IdleType DEF Idle
<1>4. ASSUME NEW q \in Requests \ {r} PROVE Sane(q)'
  <2>1. Sane(q)
      BY DEF DavInv
  <2> QED BY <1>1, <2>1, KeepsSane DEF Sane, memLS
<1> QED BY <1>1, <1>2, <1>3, <1>4, IdleIsSane DEF DavInv

LEMMA LockFailsInv ==
  ASSUME DavInv, NEW r \in Requests, LockFails(r)
  PROVE  DavInv'
<1>1. PICK t \in req[r].temp : UnlockToken(t)
    BY DEF LockFails
<1>2. req' = [req EXCEPT ![r] = Idle] /\ req'[r] = Idle /\ Idle.nodes = {} /\ Idle.temp = {}
    BY DEF LockFails, DavInv, Idle
<1> QED BY <1>1, <1>2, IdleIsSane, IdleType, GiveBackInv

LEMMA RefreshInv ==
  ASSUME DavInv, NEW n \in Names, NEW f \in BOOLEAN, Refresh(n, f)
  PROVE  DavInv'
<1>1. /\ n \in Known \ held /\ UNCHANGED <<token, zero, held, req>>
      /\ \A m \in Names : m # n => finite'[m] = finite[m]
    BY DEF Refresh, DavInv, MemInv, MemType
<1>2. MemInv'
    BY RefreshMem DEF DavInv
<1>3. ASSUME NEW q \in Requests PROVE Sane(q)'
  <2>1. Sane(q) /\ token[n] \notin req[q].temp
      BY <1>1 DEF DavInv, Known
  <2> QED BY <1>1, <2>1, KeepsSane DEF Sane
<1> QED BY <1>1, <1>2, <1>3 DEF DavInv, Apart
-----------------------------------------------------------------------------
LEMMA DavInit == Init => DavInv
<1> SUFFICES ASSUME Init PROVE DavInv
    OBVIOUS
<1>1. MemInv
    BY InitMem
<1>2. req = [r \in Requests |-> Idle]
    BY DEF Init
<1> QED BY <1>1, <1>2, IdleType DEF DavInv, Apart, Sane, Writing, Idle

LEMMA ServeInv == ASSUME DavInv, NEW r \in Requests, Serve(r) PROVE DavInv'
<1>1. ASSUME Start(r) PROVE DavInv'
    BY <1>1, StartWithoutIfInv, StartWithIfInv DEF Start
<1>2. ASSUME NEW n \in Names, NEW z \in BOOLEAN, NEW f \in BOOLEAN, LockResource(r, n, z, f)
      PROVE  DavInv'
    BY <1>2, LockResourceInv
<1> QED
    BY <1>1, <1>2, LockDestinationInv, LockDestinationFailsInv, ReleaseHeldInv, ReleaseTemporaryInv,
       LockAnsweredInv, LockFailsInv DEF Serve

LEMMA DavInductive == DavInv /\ [Next]_vars => DavInv'
<1> SUFFICES ASSUME DavInv, [Next]_vars PROVE DavInv'
    OBVIOUS
<1>1. ASSUME NEW r \in Requests, Serve(r) PROVE DavInv'
    BY <1>1, ServeInv
<1>2. ASSUME NEW n \in Names, NEW f \in BOOLEAN, Refresh(n, f) PROVE DavInv'
    BY <1>2, RefreshInv
<1>3. ASSUME NEW n \in Names, Unlock(n) PROVE DavInv'
    BY <1>3, RemoveInv DEF Unlock
<1>4. ASSUME NEW n \in Names, CollectExpired(n) PROVE DavInv'
    BY <1>4, RemoveInv DEF CollectExpired
<1>5. CASE UNCHANGED vars
    BY <1>5
    DEF vars, memLS, DavInv, MemInv, MemType, Consistent, WillExpire, ZeroAbove, HeldLocked, Locked,
        LockedBelow, Apart, Sane, Writing, Claimed, NamedBy, Claims, Covers
<1> QED BY <1>1, <1>2, <1>3, <1>4, <1>5 DEF Next

LEMMA DavInvariant == Spec => []DavInv
    BY DavInit, DavInductive, PTL DEF Spec
-----------------------------------------------------------------------------
(* Theorems.                                                               *)

\* Every variable always has its type: no reference count goes below 0, however
\* often locks are taken, given back and lost (lock.go:291-352).
THEOREM DavTypeCorrect == Spec => []TypeOK
<1>1. DavInv => TypeOK
    BY DEF DavInv, MemInv, MemType, TypeOK
<1> QED BY <1>1, DavInvariant, PTL

\* Whatever requests do, a node's reference count is the number of locks on it and
\* below it, and tokens are unique: what lock_test.go asserts of memLS after each of
\* its random calls.
THEOREM AlwaysConsistent == Spec => []Consistent
<1>1. DavInv => Consistent
    BY DEF DavInv, MemInv
<1> QED BY <1>1, DavInvariant, PTL

\* The expiry heap always holds just the locks with a duration that nobody holds
\* (lock.go:185-206).
THEOREM LocksWillExpire == Spec => []WillExpire
<1>1. DavInv => WillExpire
    BY DEF DavInv, MemInv
<1> QED BY <1>1, DavInvariant, PTL

\* Of two locks that are over one resource one is the other: what canCreate makes of
\* the counts (lock.go:291-313).
LEMMA OneCover ==
  ASSUME MemInv, NEW m \in Names, NEW n \in Names, NEW x \in Names, Covers(m, x), Covers(n, x)
  PROVE  m = n
<1>1. Locked(m) /\ Locked(n) /\ m \in Up[x] /\ n \in Up[x]
    BY DavLocksAssumption DEF Covers
<1>2. m \in Up[n] \/ n \in Up[m]
    BY <1>1, DavLocksAssumption
<1>3. ASSUME NEW a \in Names, NEW b \in Names, Covers(a, x), Covers(b, x), a \in Up[b], a # b
      PROVE  FALSE
  <2>1. Locked(a) /\ Locked(b) /\ b \in Up[x]
      BY <1>3, DavLocksAssumption DEF Covers
  <2>2. zero[a]
      BY <1>3, <2>1 DEF MemInv, ZeroAbove
  <2>3. a = x
      BY <1>3, <2>2 DEF Covers
  <2> QED BY <1>3, <2>1, <2>3, DavLocksAssumption
<1> QED BY <1>2, <1>3

\* No two locks cover one resource, in any tree.
THEOREM LocksAlwaysExclude == Spec => []LocksExclude
<1>1. DavInv => LocksExclude
  <2> SUFFICES ASSUME DavInv PROVE LocksExclude
      OBVIOUS
  <2>1. ASSUME NEW m \in Names, NEW n \in Names, Locked(m), Locked(n),
               n = m \/ (~zero[m] /\ m \in Up[n])
        PROVE  m = n
    <3>1. Covers(m, n) /\ Covers(n, n)
        BY <2>1 DEF Covers
    <3> QED BY <3>1, OneCover DEF DavInv
  <2> QED BY <2>1 DEF LocksExclude, Granted, Tree!Exclusive, Tree!Conflict, Tree!Covers
<1> QED BY <1>1, DavInvariant, PTL

\* Two writes that are served at once name no resource both, when If headers are not
\* tagged: confirmLocks leaves each with a claim only it has (webdav.go:65-134).
THEOREM WritersNeverMeet == ASSUME ~Tagged PROVE Spec => []WritersExclude
<1>1. DavInv => WritersExclude
  <2> SUFFICES ASSUME DavInv, NEW r \in Requests, NEW q \in Requests, r # q,
                      Writing(r), Writing(q), NEW x \in NamedBy(r) \cap NamedBy(q)
               PROVE  FALSE
      BY DEF WritersExclude
  <2>1. Sane(r) /\ Sane(q)
      BY DEF DavInv
  <2>2. PICK n \in Names : x \in Names /\ Covers(n, x) /\ n \in Claims(r)
      BY <2>1 DEF Sane, Claimed
  <2>3. PICK m \in Names : Covers(m, x) /\ m \in Claims(q)
      BY <2>1 DEF Sane, Claimed
  <2>4. m = n
      BY <2>2, <2>3, OneCover DEF DavInv
  <2>5. /\ req[r].nodes \cap req[q].nodes = {} /\ req[r].temp \cap req[q].temp = {}
        /\ req[r].nodes \subseteq held /\ req[q].nodes \subseteq held
        /\ token[n] \in req[r].temp \cup req[q].temp => n \notin held
      BY <2>1 DEF DavInv, Apart, Sane
  <2>6. /\ n \in req[r].nodes \/ token[n] \in req[r].temp
        /\ n \in req[q].nodes \/ token[n] \in req[q].temp
      BY <2>2, <2>3, <2>4 DEF Claims
  <2> QED BY <2>5, <2>6
<1> QED BY <1>1, DavInvariant, PTL
-----------------------------------------------------------------------------
(* The lock system implements PathLocks.                                   *)

\* A lock that is created is taken.
LEMMA CreateTakes ==
  ASSUME DavInv, NEW n \in Names, NEW z \in BOOLEAN, NEW f \in BOOLEAN, NEW t \in Tokens,
         CanCreate(n, z), Fresh(t), Create(n, z, f, t)
  PROVE  [Tree!Next]_Granted
<1> DEFINE l == [root |-> n, zero |-> z]
<1>1. MemInv' /\ ~Locked(n) /\ MemInv
    BY CreateMem, FreshToken DEF DavInv
<1>2. /\ \A m \in Names : zero'[m] = IF m = n THEN z ELSE zero[m]
      /\ \A m \in Names : Locked(m)' <=> (m = n \/ Locked(m))
    BY DavLocksAssumption DEF Create, Locked, DavInv, MemInv, MemType
<1>3. Granted' = Granted \cup {l}
    BY <1>1, <1>2 DEF Granted
<1>4. \A k \in Granted : ~Tree!Conflict(l, k)
  <2> SUFFICES ASSUME NEW m \in Names, Locked(m)
               PROVE  ~Tree!Conflict(l, [root |-> m, zero |-> zero[m]])
      BY DEF Granted
  <2>1. m # n /\ Locked(m)' /\ Locked(n)' /\ zero'[m] = zero[m] /\ zero'[n] = z
      BY <1>1, <1>2
  <2>2. (m \in Up[n] => zero[m]) /\ (n \in Up[m] => z)
      BY <1>1, <2>1 DEF MemInv, ZeroAbove
  <2> QED BY <2>1, <2>2 DEF Tree!Conflict, Tree!Covers
<1>5. l \in Tree!Lock
    BY DEF Tree!Lock
<1> QED BY <1>3, <1>4, <1>5 DEF Tree!Next, Tree!Take

\* One that is removed is dropped.
LEMMA RemoveDrops ==
  ASSUME DavInv, NEW n \in Names, Locked(n), Remove(n)
  PROVE  [Tree!Next]_Granted
<1> DEFINE l == [root |-> n, zero |-> zero[n]]
<1>1. /\ zero' = zero
      /\ \A m \in Names : Locked(m)' <=> (m # n /\ Locked(m))
    BY DEF Remove, Locked, DavInv, MemInv, MemType
<1>2. Granted' = Granted \ {l} /\ l \in Granted
    BY <1>1 DEF Granted
<1>3. l \in Tree!Lock
    BY DEF Tree!Lock, DavInv, MemInv, MemType
<1> QED BY <1>2, <1>3 DEF Tree!Next, Tree!Drop

LEMMA UnlockTokenDrops ==
  ASSUME DavInv, NEW t \in Tokens, UnlockToken(t)
  PROVE  [Tree!Next]_Granted
<1>1. CASE \E n \in Names \ held : token[n] = t
  <2>1. PICK n \in Names \ held : token[n] = t /\ Remove(n)
      BY <1>1 DEF UnlockToken
  <2>2. Locked(n)
      BY <2>1, DavLocksAssumption DEF Locked
  <2> QED BY <2>1, <2>2, RemoveDrops
<1>2. CASE ~\E n \in Names \ held : token[n] = t
    BY <1>2 DEF UnlockToken, memLS, Granted, Locked
<1> QED BY <1>1, <1>2

\* Nothing else changes which locks there are.
LEMMA SameLocksGranted ==
  ASSUME UNCHANGED <<token, zero>>
  PROVE  [Tree!Next]_Granted
  BY DEF Granted, Locked

LEMMA ServeTakesOrDrops ==
  ASSUME DavInv, NEW r \in Requests, Serve(r)
  PROVE  [Tree!Next]_Granted
<1>1. ASSUME NEW op \in {"put", "delete", "copy", "move"}, NEW src \in Names,
             NEW dst \in IF op \in {"copy", "move"} THEN Names \ {src} ELSE {None},
             StartWithoutIf(r, op, src, dst)
      PROVE  [Tree!Next]_Granted
    BY <1>1, CreateTakes DEF StartWithoutIf
<1>2. ASSUME NEW op \in {"put", "delete", "copy", "move"}, NEW src \in Names,
             NEW dst \in IF op \in {"copy", "move"} THEN Names \ {src} ELSE {None},
             StartWithIf(r, op, src, dst)
      PROVE  [Tree!Next]_Granted
    BY <1>2, SameLocksGranted DEF StartWithIf, Hold
<1>3. CASE LockDestination(r)
  <2>1. PICK dst \in Names : req[r].dst = dst
      BY <1>3 DEF LockDestination, DavInv, Sane
  <2> QED BY <1>3, <2>1, CreateTakes DEF LockDestination
<1>4. \A t \in req[r].temp : t \in Tokens
    BY DEF DavInv, Request
<1>5. CASE LockDestinationFails(r) \/ ReleaseTemporary(r) \/ LockFails(r)
    BY <1>4, <1>5, UnlockTokenDrops DEF LockDestinationFails, ReleaseTemporary, LockFails
<1>6. CASE ReleaseHeld(r)
    BY <1>6, SameLocksGranted DEF ReleaseHeld, Unhold
<1>7. ASSUME NEW n \in Names, NEW z \in BOOLEAN, NEW f \in BOOLEAN, LockResource(r, n, z, f)
      PROVE  [Tree!Next]_Granted
    BY <1>7, CreateTakes DEF LockResource
<1>8. CASE LockAnswered(r)
    BY <1>8, SameLocksGranted DEF LockAnswered, memLS
<1> QED BY <1>1, <1>2, <1>3, <1>5, <1>6, <1>7, <1>8 DEF Serve, Start

\* Whatever requests do, in any tree, memLS takes only locks that conflict with none
\* and gives each up whole: PathLocks is what clients may rely on.
THEOREM DavRefinesPathLocks == Spec => GrantsPathLocks
<1>1. Init => Tree!Init
    BY DEF Init, Granted, Locked, Tree!Init
<1>2. DavInv /\ [Next]_vars => [Tree!Next]_Granted
  <2> SUFFICES ASSUME DavInv, [Next]_vars PROVE [Tree!Next]_Granted
      OBVIOUS
  <2>1. ASSUME NEW r \in Requests, Serve(r) PROVE [Tree!Next]_Granted
      BY <2>1, ServeTakesOrDrops
  <2>2. ASSUME NEW n \in Names, NEW f \in BOOLEAN, Refresh(n, f) PROVE [Tree!Next]_Granted
      BY <2>2, SameLocksGranted DEF Refresh
  <2>3. ASSUME NEW n \in Names, Unlock(n) \/ CollectExpired(n) PROVE [Tree!Next]_Granted
    <3>1. Locked(n) /\ Remove(n)
        BY <2>3 DEF Unlock, CollectExpired, Known, DavInv, MemInv, WillExpire
    <3> QED BY <3>1, RemoveDrops
  <2>4. CASE UNCHANGED vars
      BY <2>4, SameLocksGranted DEF vars, memLS
  <2> QED BY <2>1, <2>2, <2>3, <2>4 DEF Next
<1> QED BY <1>1, <1>2, DavInvariant, PTL DEF Spec, Tree!Spec, GrantsPathLocks
-----------------------------------------------------------------------------
(***************************************************************************)
(* UdpTunnel.                                                              *)
(***************************************************************************)

\* The loop serves a session unless it reads.
LoopServes == loop.step # "read" => loop.session \in Sessions

\* The map keeps a session under its address.
StoredUnderAddress == \A a \in Addresses : clients[a] # NoSession => addr[clients[a]] = a

\* s is in the map, or about to be stored.
Kept(s) == clients[addr[s]] = s \/ (loop.step = "store" /\ loop.session = s)

\* A session is stored where there is none.
StoresInPlace == loop.step = "store" => clients[addr[loop.session]] = NoSession

\* An open session is kept; so is one that has closed its channel and is still to
\* be taken out of the map, and one goroutine only is about to do that.
OpenIsKept == \A s \in Sessions : active[s] = "open" => Kept(s)

RemovesKept ==
  \A s \in Sessions, g \in Goroutines : pc[s][g] = "remove" => Kept(s) /\ active[s] = "closed"

OneRemoves ==
  \A s \in Sessions, g, h \in Goroutines : pc[s][g] = "remove" /\ pc[s][h] = "remove" => g = h

UdpInv ==
  /\ UdpTypeOK /\ LoopServes /\ StoredUnderAddress /\ StoresInPlace
  /\ OpenIsKept /\ RemovesKept /\ OneRemoves

\* Two kept sessions of one address are the same.
LEMMA KeptOnce ==
  ASSUME UdpInv, NEW s \in Sessions, NEW t \in Sessions, addr[s] = addr[t], Kept(s), Kept(t)
  PROVE  s = t
  BY UdpAssumption DEF UdpInv, Kept, StoresInPlace

LEMMA UdpInitInv == UdpInit => UdpInv
<1> SUFFICES ASSUME UdpInit PROVE UdpInv
    OBVIOUS
<1>1. (CHOOSE a \in Addresses : TRUE) \in Addresses
    BY UdpAssumption
<1> QED
    BY <1>1, UdpAssumption
    DEF UdpInit, UdpInv, UdpTypeOK, LoopServes, StoredUnderAddress, StoresInPlace, OpenIsKept,
        RemovesKept, OneRemoves, AtRead, Goroutines
-----------------------------------------------------------------------------
(* The steps of the loop.                                                  *)

LEMMA LoopTypes == ASSUME UdpInv, Loop PROVE UdpTypeOK' /\ LoopServes'
<1> USE UdpAssumption DEF UdpInv, UdpTypeOK, LoopServes, AtRead, Goroutines
<1>1. ASSUME NEW a \in Addresses, ReadFound(a) PROVE UdpTypeOK' /\ LoopServes'
    BY <1>1 DEF ReadFound
<1>2. ASSUME NEW a \in Addresses, MakeClient(a) PROVE UdpTypeOK' /\ LoopServes'
    BY <1>2 DEF MakeClient
<1>3. CASE Store BY <1>3 DEF Store
<1>4. CASE Signal BY <1>4 DEF Signal
<1>5. CASE SignalPanics BY <1>5 DEF SignalPanics, Panics
<1>6. CASE Write BY <1>6 DEF Write
<1>7. CASE WriteFails BY <1>7 DEF WriteFails
<1> QED BY <1>1, <1>2, <1>3, <1>4, <1>5, <1>6, <1>7 DEF Loop

\* A session that is made was in no use; the ones that are kept stay so.
LEMMA MakeClientInv ==
  ASSUME UdpInv, NEW a \in Addresses, MakeClient(a)
  PROVE  StoredUnderAddress' /\ StoresInPlace' /\ OpenIsKept' /\ RemovesKept' /\ OneRemoves'
<1>1. PICK s \in Sessions :
        /\ Forgotten(s)
        /\ addr' = [addr EXCEPT ![s] = a]
        /\ active' = [active EXCEPT ![s] = "open"]
        /\ pc' = [pc EXCEPT ![s] = [g \in Goroutines |-> "runs"]]
        /\ loop' = [step |-> "store", session |-> s]
    BY DEF MakeClient
<1>2. loop = AtRead /\ clients[a] = NoSession /\ clients' = clients
    BY DEF MakeClient
<1>3. addr'[s] = a /\ \A t \in Sessions \ {s} : addr'[t] = addr[t] /\ active'[t] = active[t] /\ pc'[t] = pc[t]
    BY <1>1 DEF UdpInv, UdpTypeOK
<1>4. \A g \in Goroutines : pc'[s][g] = "runs"
    BY <1>1 DEF UdpInv, UdpTypeOK
<1>5. \A b \in Addresses : clients[b] # s
    BY <1>1 DEF Forgotten
<1>6. StoredUnderAddress'
    BY <1>2, <1>3, <1>5 DEF UdpInv, UdpTypeOK, StoredUnderAddress
<1>7. StoresInPlace'
    BY <1>1, <1>2, <1>3 DEF StoresInPlace
<1>8. Kept(s)' /\ \A t \in Sessions \ {s} : Kept(t) => Kept(t)'
    BY <1>1, <1>2, <1>3 DEF Kept, AtRead
<1>9. OpenIsKept'
    BY <1>3, <1>8 DEF UdpInv, OpenIsKept
<1>10. RemovesKept'
    BY <1>3, <1>4, <1>8 DEF UdpInv, RemovesKept
<1>11. OneRemoves'
    BY <1>3, <1>4 DEF UdpInv, OneRemoves
<1> QED BY <1>6, <1>7, <1>9, <1>10, <1>11

\* A stored session takes the place of none.
LEMMA StoreInv ==
  ASSUME UdpInv, Store
  PROVE  StoredUnderAddress' /\ StoresInPlace' /\ OpenIsKept' /\ RemovesKept' /\ OneRemoves'
<1> DEFINE s == loop.session
<1>1. /\ s \in Sessions /\ addr[s] \in Addresses
      /\ clients[addr[s]] = NoSession
      /\ clients' = [clients EXCEPT ![addr[s]] = s]
      /\ loop' = AtRead /\ UNCHANGED <<addr, active, pc>>
    BY DEF Store, UdpInv, UdpTypeOK, LoopServes, StoresInPlace
<1>2. \A t \in Sessions : Kept(t) => Kept(t)'
    BY <1>1, UdpAssumption DEF Kept, UdpInv, UdpTypeOK
<1>3. StoredUnderAddress'
    BY <1>1 DEF UdpInv, UdpTypeOK, StoredUnderAddress
<1>4. StoresInPlace'
    BY <1>1 DEF StoresInPlace, AtRead
<1>5. OpenIsKept' /\ RemovesKept' /\ OneRemoves'
    BY <1>1, <1>2 DEF UdpInv, OpenIsKept, RemovesKept, OneRemoves
<1> QED BY <1>3, <1>4, <1>5

LEMMA LoopInv == ASSUME UdpInv, Loop PROVE UdpInv'
<1> DEFINE P == StoredUnderAddress' /\ StoresInPlace' /\ OpenIsKept' /\ RemovesKept' /\ OneRemoves'
<1> SUFFICES P
    BY LoopTypes DEF UdpInv
<1>2. ASSUME UNCHANGED <<clients, addr, active, pc>>, loop'.step # "store", loop.step # "store"
      PROVE  P
    BY <1>2
    DEF UdpInv, StoredUnderAddress, StoresInPlace, OpenIsKept, RemovesKept, OneRemoves, Kept
<1>3. ASSUME NEW a \in Addresses, ReadFound(a) PROVE P
    BY <1>2, <1>3 DEF ReadFound, AtRead, UdpInv, UdpTypeOK
<1>4. ASSUME NEW a \in Addresses, MakeClient(a) PROVE P
    BY <1>4, MakeClientInv
<1>5. CASE Store BY <1>5, StoreInv
<1>6. CASE Signal BY <1>2, <1>6 DEF Signal, UdpInv, UdpTypeOK
<1>7. CASE SignalPanics BY <1>2, <1>7 DEF SignalPanics, Panics
<1>8. CASE Write BY <1>2, <1>8 DEF Write, AtRead
<1>9. CASE WriteFails BY <1>2, <1>9 DEF WriteFails, AtRead
<1> QED BY <1>3, <1>4, <1>5, <1>6, <1>7, <1>8, <1>9 DEF Loop
-----------------------------------------------------------------------------
(* The steps of a goroutine.                                               *)

LEMMA CloseTypes ==
  ASSUME UdpInv, NEW s \in Sessions, NEW g \in Goroutines, Close(s, g)
  PROVE  UdpTypeOK' /\ LoopServes'
<1> USE DEF UdpInv, UdpTypeOK, LoopServes, Moves, Closed
<1>1. CASE CloseBegins(s, g) BY <1>1 DEF CloseBegins
<1>2. CASE AlreadyClosed(s, g) BY <1>2 DEF AlreadyClosed
<1>3. CASE TakesSignal(s, g) BY <1>3 DEF TakesSignal
<1>4. CASE NotYetClosed(s, g) BY <1>4 DEF NotYetClosed
<1>5. CASE CloseActive(s, g) BY <1>5 DEF CloseActive
<1>6. CASE ClosePanics(s, g) BY <1>6 DEF ClosePanics, Panics
<1>7. CASE CloseClient(s, g) BY <1>7 DEF CloseClient
<1> QED BY <1>1, <1>2, <1>3, <1>4, <1>5, <1>6, <1>7 DEF Close

\* The session that closes was kept, and nobody else is about to remove it.
LEMMA CloseActiveInv ==
  ASSUME UdpInv, NEW s \in Sessions, NEW g \in Goroutines, CloseActive(s, g)
  PROVE  OpenIsKept' /\ RemovesKept' /\ OneRemoves'
<1>1. /\ active[s] = "open" /\ active' = [active EXCEPT ![s] = "closed"]
      /\ pc' = [pc EXCEPT ![s][g] = "remove"] /\ UNCHANGED <<clients, addr, loop>>
    BY DEF CloseActive, Moves
<1>2. /\ active'[s] = "closed" /\ \A t \in Sessions \ {s} : active'[t] = active[t]
      /\ \A t \in Sessions, h \in Goroutines :
           pc'[t][h] = IF t = s /\ h = g THEN "remove" ELSE pc[t][h]
    BY <1>1 DEF UdpInv, UdpTypeOK
<1>3. \A t \in Sessions : Kept(t)' = Kept(t)
    BY <1>1 DEF Kept
<1>4. OpenIsKept'
    BY <1>2, <1>3 DEF UdpInv, OpenIsKept
<1>5. Kept(s)
    BY <1>1 DEF UdpInv, OpenIsKept
<1>6. RemovesKept'
    BY <1>2, <1>3, <1>5 DEF UdpInv, RemovesKept
<1>7. \A h \in Goroutines : pc[s][h] # "remove"
    BY <1>1 DEF UdpInv, RemovesKept
<1>8. OneRemoves'
    BY <1>2, <1>7 DEF UdpInv, OneRemoves
<1> QED BY <1>4, <1>6, <1>8

\* What is taken out of the map is the session itself: no other one of its
\* address is kept.
LEMMA CloseClientInv ==
  ASSUME UdpInv, NEW s \in Sessions, NEW g \in Goroutines, CloseClient(s, g)
  PROVE  StoredUnderAddress' /\ StoresInPlace' /\ OpenIsKept' /\ RemovesKept' /\ OneRemoves'
<1>1. /\ pc[s][g] = "remove" /\ clients' = [clients EXCEPT ![addr[s]] = NoSession]
      /\ pc' = [pc EXCEPT ![s][g] = "ended"] /\ UNCHANGED <<addr, active, loop>>
    BY DEF CloseClient, Moves
<1>2. /\ addr[s] \in Addresses
      /\ \A a \in Addresses : clients'[a] = IF a = addr[s] THEN NoSession ELSE clients[a]
      /\ \A t \in Sessions, h \in Goroutines :
           pc'[t][h] = IF t = s /\ h = g THEN "ended" ELSE pc[t][h]
    BY <1>1 DEF UdpInv, UdpTypeOK
<1>3. Kept(s) /\ active[s] = "closed"
    BY <1>1 DEF UdpInv, RemovesKept
<1>4. ASSUME NEW t \in Sessions, t # s, Kept(t) PROVE Kept(t)'
  <2>1. addr[t] # addr[s]
      BY <1>3, <1>4, KeptOnce
  <2> QED BY <1>1, <1>2, <1>4, <2>1 DEF Kept, UdpInv, UdpTypeOK
<1>5. StoredUnderAddress'
    BY <1>1, <1>2 DEF UdpInv, StoredUnderAddress
<1>6. StoresInPlace'
    BY <1>1, <1>2 DEF UdpInv, UdpTypeOK, LoopServes, StoresInPlace
<1>7. OpenIsKept'
    BY <1>1, <1>3, <1>4 DEF UdpInv, OpenIsKept
<1>8. RemovesKept'
    BY <1>1, <1>2, <1>4 DEF UdpInv, RemovesKept, OneRemoves
<1>9. OneRemoves'
    BY <1>2 DEF UdpInv, OneRemoves
<1> QED BY <1>5, <1>6, <1>7, <1>8, <1>9

LEMMA CloseInv ==
  ASSUME UdpInv, NEW s \in Sessions, NEW g \in Goroutines, Close(s, g)
  PROVE  UdpInv'
<1> DEFINE P == StoredUnderAddress' /\ StoresInPlace' /\ OpenIsKept' /\ RemovesKept' /\ OneRemoves'
<1> SUFFICES P
    BY CloseTypes DEF UdpInv
<1>2. ASSUME NEW step, step # "remove", Moves(s, g, step), UNCHANGED <<clients, addr, active>>,
             loop' = loop \/ (loop.step = "signal" /\ loop' = [loop EXCEPT !.step = "write"])
      PROVE  P
  <2>1. \A t \in Sessions, h \in Goroutines : pc'[t][h] = "remove" => pc[t][h] = "remove"
      BY <1>2 DEF Moves, UdpInv, UdpTypeOK
  <2>2. loop'.step = "store" => loop' = loop
      BY <1>2 DEF UdpInv, UdpTypeOK
  <2>3. loop.step = "store" => loop' = loop
      BY <1>2
  <2> QED
      BY <1>2, <2>1, <2>2, <2>3
      DEF UdpInv, StoredUnderAddress, StoresInPlace, OpenIsKept, RemovesKept, OneRemoves, Kept
<1>3. CASE CloseBegins(s, g) BY <1>2, <1>3 DEF CloseBegins
<1>4. CASE AlreadyClosed(s, g) BY <1>2, <1>4 DEF AlreadyClosed, Closed
<1>5. CASE TakesSignal(s, g) BY <1>2, <1>5 DEF TakesSignal, Closed
<1>6. CASE NotYetClosed(s, g) BY <1>2, <1>6 DEF NotYetClosed
<1>7. CASE CloseActive(s, g)
  <2>1. StoredUnderAddress' /\ StoresInPlace'
      BY <1>7 DEF CloseActive, UdpInv, StoredUnderAddress, StoresInPlace
  <2> QED BY <1>7, <2>1, CloseActiveInv
<1>8. CASE ClosePanics(s, g)
    BY <1>8
    DEF ClosePanics, Panics, UdpInv, StoredUnderAddress, StoresInPlace, OpenIsKept, RemovesKept,
        OneRemoves, Kept
<1>9. CASE CloseClient(s, g) BY <1>9, CloseClientInv
<1> QED BY <1>3, <1>4, <1>5, <1>6, <1>7, <1>8, <1>9 DEF Close
-----------------------------------------------------------------------------
LEMMA UdpInvariant == UdpSpec => []UdpInv
<1>1. UdpInit => UdpInv
    BY UdpInitInv
<1>2. UdpInv /\ [UdpNext]_udpVars => UdpInv'
  <2> SUFFICES ASSUME UdpInv, [UdpNext]_udpVars PROVE UdpInv'
      OBVIOUS
  <2>1. CASE UdpNext BY <2>1, LoopInv, CloseInv DEF UdpNext
  <2>2. CASE UNCHANGED udpVars
      BY <2>2
      DEF udpVars, UdpInv, UdpTypeOK, LoopServes, StoredUnderAddress, StoresInPlace, OpenIsKept,
          RemovesKept, OneRemoves, Kept
  <2> QED BY <2>1, <2>2
<1> QED BY <1>1, <1>2, PTL DEF UdpSpec

\* The map, the sessions, their goroutines and the loop keep their types: the
\* loop never serves a session that was not made (frontend.go:133-166).
THEOREM UdpTypeCorrect == UdpSpec => []UdpTypeOK
<1>1. UdpInv => UdpTypeOK
    BY DEF UdpInv
<1> QED BY <1>1, UdpInvariant, PTL

\* An address never has two open sessions, for any number of addresses and of
\* sessions at once (frontend.go:46-55, 140-165, 196).
THEOREM OneOpenSessionAlways == UdpSpec => []OneOpenSession
<1>1. UdpInv => OneOpenSession
    BY KeptOnce DEF UdpInv, OneOpenSession, OpenIsKept
<1> QED BY <1>1, UdpInvariant, PTL

\* What closeClient finds under the address is the session that closes or
\* nothing, never its successor (frontend.go:198).
THEOREM AlwaysClosesItself == UdpSpec => []ClosesItself
<1>1. UdpInv => ClosesItself
    BY DEF UdpInv, ClosesItself, RemovesKept, Kept, StoresInPlace
<1> QED BY <1>1, UdpInvariant, PTL
-----------------------------------------------------------------------------
(***************************************************************************)
(* VpnBackend.                                                             *)
(***************************************************************************)

\* Who was offered an address has one of the subnet.
AddressesGiven ==
  \A c \in Conns : conn[c].step \in {"candidate", "given"} => conn[c].address \in Hosts

\* A connection is in the table only after it registered.
NotYetRegistered ==
  \A c \in Conns : conn[c].step \in {"next", "overflow", "candidate", "given"} =>
    \A a \in Hosts : registered[a] # c

VpnInv == VpnTypeOK /\ AddressesGiven /\ NotYetRegistered /\ PushedOutByRivals

\* A word is not empty, and a count stays in it.
LEMMA WordType == Word \in Nat /\ Word > 1
<1>1. ASSUME NEW m \in Nat \ {0}, NEW n \in Nat, n > 1 PROVE m * n \in Nat /\ m * n > 1
    BY <1>1
<1>2. Byte \in Nat \ {0} /\ Byte > 1
    BY VpnAssumption
<1>3. Byte * Byte \in Nat \ {0} /\ Byte * Byte > 1
    BY <1>1, <1>2
<1>4. Byte * Byte * Byte \in Nat \ {0} /\ Byte * Byte * Byte > 1
    BY <1>1, <1>2, <1>3
<1> QED BY <1>1, <1>2, <1>4 DEF Word

LEMMA NextCount == ASSUME VpnTypeOK PROVE Next32 \in 0..(Word - 1)
<1>1. ASSUME NEW w \in Nat \ {0}, NEW n \in Nat PROVE n % w \in 0..(w - 1)
    OBVIOUS
<1>2. counter + 1 \in Nat
    BY WordType DEF VpnTypeOK
<1> QED BY <1>1, <1>2, WordType DEF Next32

\* NoAddress is no address of the subnet.
LEMMA AddressTypes == NoAddress \notin Hosts /\ Hosts \subseteq Nat
    BY VpnAssumption DEF NoAddress, Hosts

LEMMA VpnInitInv == VpnInit => VpnInv
    BY WordType, AddressTypes, VpnAssumption
    DEF VpnInit, VpnInv, VpnTypeOK, AddressesGiven, NotYetRegistered, PushedOutByRivals, NoHandler
-----------------------------------------------------------------------------
\* A connection moves while the table, and what others were given, stay.
LEMMA MovesInv ==
  ASSUME VpnInv, NEW c \in Conns, NEW step, NEW a \in Hosts \cup {NoAddress},
         step \in {"next", "overflow", "candidate", "gone"},
         step = "candidate" => a \in Hosts,
         step # "gone" => \A b \in Hosts : registered[b] # c,
         Moved(c, step, a), UNCHANGED <<registered, rivals>>
  PROVE  /\ conn' \in [Conns -> [step : {"none", "next", "overflow", "candidate", "given", "open", "gone"},
                                 address : Hosts \cup {NoAddress}]]
         /\ AddressesGiven' /\ NotYetRegistered' /\ PushedOutByRivals'
<1>1. /\ conn'[c] = [step |-> step, address |-> a]
      /\ \A d \in Conns \ {c} : conn'[d] = conn[d]
    BY DEF Moved, VpnInv, VpnTypeOK
<1>2. conn' \in [Conns -> [step : {"none", "next", "overflow", "candidate", "given", "open", "gone"},
                           address : Hosts \cup {NoAddress}]]
    BY DEF Moved, VpnInv, VpnTypeOK
<1>3. AddressesGiven'
    BY <1>1 DEF VpnInv, AddressesGiven
<1>4. NotYetRegistered'
    BY <1>1 DEF VpnInv, NotYetRegistered
<1>5. PushedOutByRivals'
    BY <1>1 DEF VpnInv, PushedOutByRivals
<1> QED BY <1>2, <1>3, <1>4, <1>5

\* The free address that is found has nobody in the table.
LEMMA CandidateInv == ASSUME VpnInv, NEW c \in Conns, Candidate(c) PROVE VpnInv'
<1> DEFINE a == conn[c].address
<1>1. a \in Hosts /\ conn[c].step = "candidate" /\ \A b \in Hosts : registered[b] # c
    BY DEF Candidate, VpnInv, AddressesGiven, NotYetRegistered
<1>2. CASE Free(a)
  <2>1. /\ Moved(c, "given", a) /\ registered[a] = NoConn
        /\ UNCHANGED <<counter, registered, rivals, tun>>
      BY <1>2 DEF Candidate, Free
  <2>2. /\ conn'[c] = [step |-> "given", address |-> a]
        /\ \A d \in Conns \ {c} : conn'[d] = conn[d]
      BY <2>1 DEF Moved, VpnInv, VpnTypeOK
  <2>3. VpnTypeOK'
      BY <1>1, <2>1 DEF Moved, VpnInv, VpnTypeOK
  <2>4. AddressesGiven' /\ NotYetRegistered'
      BY <1>1, <2>1, <2>2 DEF VpnInv, AddressesGiven, NotYetRegistered
  <2>5. PushedOutByRivals'
      BY <2>1, <2>2 DEF VpnInv, PushedOutByRivals
  <2> QED BY <2>3, <2>4, <2>5 DEF VpnInv
<1>3. CASE ~Free(a)
  <2>1. Moved(c, "next", NoAddress) /\ UNCHANGED <<counter, registered, rivals, tun>>
      BY <1>3 DEF Candidate
  <2>2. /\ conn' \in [Conns -> [step : {"none", "next", "overflow", "candidate", "given", "open", "gone"},
                                address : Hosts \cup {NoAddress}]]
        /\ AddressesGiven' /\ NotYetRegistered' /\ PushedOutByRivals'
      BY <1>1, <2>1, MovesInv
  <2> QED BY <2>1, <2>2 DEF VpnInv, VpnTypeOK
<1> QED BY <1>2, <1>3

\* Whoever else was given the address is a rival of the one that registers.
LEMMA RegisterInv == ASSUME VpnInv, NEW c \in Conns, Register(c) PROVE VpnInv'
<1> DEFINE a == conn[c].address
<1>1. /\ a \in Hosts /\ conn[c].step = "given" /\ \A b \in Hosts : registered[b] # c
      /\ conn[c] = [step |-> "given", address |-> a]
    BY DEF Register, VpnInv, VpnTypeOK, AddressesGiven, NotYetRegistered
<1>2. /\ rivals' = [rivals EXCEPT ![c] = Given(a) \ {c}]
      /\ registered' = [registered EXCEPT ![a] = c]
      /\ Moved(c, "open", a) /\ UNCHANGED <<counter, tun>>
    BY DEF Register
<1>3. /\ conn'[c] = [step |-> "open", address |-> a]
      /\ \A d \in Conns \ {c} : conn'[d] = conn[d]
    BY <1>2 DEF Moved, VpnInv, VpnTypeOK
<1>4. /\ registered'[a] = c /\ \A b \in Hosts \ {a} : registered'[b] = registered[b]
      /\ rivals'[c] = Given(a) \ {c} /\ \A d \in Conns \ {c} : rivals'[d] = rivals[d]
    BY <1>1, <1>2 DEF VpnInv, VpnTypeOK
<1>5. VpnTypeOK'
    BY <1>1, <1>2 DEF Moved, VpnInv, VpnTypeOK, Given
<1>6. AddressesGiven' /\ NotYetRegistered'
    BY <1>3, <1>4 DEF VpnInv, AddressesGiven, NotYetRegistered
<1>7. ASSUME NEW d \in Conns, conn'[d].step = "given"
      PROVE  LET other == registered'[conn'[d].address]
             IN other # NoConn => d \in rivals'[other]
  <2>1. d # c /\ conn'[d] = conn[d] /\ conn[d].step = "given" /\ conn[d].address \in Hosts
      BY <1>3, <1>7 DEF VpnInv, AddressesGiven
  <2>2. CASE conn[d].address = a
    <3>1. conn[d] = [step |-> "given", address |-> a]
        BY <2>1, <2>2 DEF VpnInv, VpnTypeOK
    <3>2. d \in Given(a) \ {c}
        BY <2>1, <3>1 DEF Given
    <3> QED BY <1>4, <2>1, <2>2, <3>2
  <2>3. CASE conn[d].address # a
    <3>1. registered'[conn[d].address] = registered[conn[d].address]
          /\ registered[conn[d].address] # c
        BY <1>1, <1>4, <2>1, <2>3
    <3>2. registered[conn[d].address] \in Conns \cup {NoConn}
        BY <2>1 DEF VpnInv, VpnTypeOK
    <3> QED BY <1>4, <2>1, <3>1, <3>2 DEF VpnInv, PushedOutByRivals
  <2> QED BY <2>2, <2>3
<1>8. PushedOutByRivals'
    BY <1>7 DEF PushedOutByRivals
<1> QED BY <1>5, <1>6, <1>8 DEF VpnInv

LEMMA VpnInductive == VpnInv /\ [VpnNext]_vpnVars => VpnInv'
<1> SUFFICES ASSUME VpnInv, [VpnNext]_vpnVars PROVE VpnInv'
    OBVIOUS
<1>1. ASSUME NEW c \in Conns, Accept(c) PROVE VpnInv'
    BY <1>1, MovesInv DEF Accept, VpnInv, VpnTypeOK
<1>2. ASSUME NEW c \in Conns, Count(c) PROVE VpnInv'
  <2>1. counter' \in 0..(Word - 1)
      BY <1>2, NextCount DEF Count, VpnInv
  <2>2. \A b \in Hosts : registered[b] # c
      BY <1>2 DEF Count, VpnInv, NotYetRegistered
  <2>3. CASE UNCHANGED conn
      BY <1>2, <2>1, <2>3
      DEF Count, VpnInv, VpnTypeOK, AddressesGiven, NotYetRegistered, PushedOutByRivals
  <2>4. CASE \/ Moved(c, "overflow", NoAddress)
             \/ Moved(c, "candidate", Host(Next32)) /\ Host(Next32) \in Hosts
      BY <1>2, <2>1, <2>2, <2>4, MovesInv DEF Count, VpnInv, VpnTypeOK
  <2> QED BY <1>2, <2>3, <2>4 DEF Count
<1>3. ASSUME NEW c \in Conns, Overflow(c) PROVE VpnInv'
  <2>1. 1 \in 0..(Word - 1)
      BY WordType
  <2>2. \A b \in Hosts : registered[b] # c
      BY <1>3 DEF Overflow, VpnInv, NotYetRegistered
  <2> QED BY <1>3, <2>1, <2>2, MovesInv DEF Overflow, VpnInv, VpnTypeOK
<1>4. ASSUME NEW c \in Conns, Candidate(c) PROVE VpnInv'
    BY <1>4, CandidateInv
<1>5. ASSUME NEW c \in Conns, Register(c) PROVE VpnInv'
    BY <1>5, RegisterInv
<1>6. ASSUME NEW c \in Conns, Disconnect(c) PROVE VpnInv'
  <2>1. conn[c].address \in Hosts \cup {NoAddress}
      BY DEF VpnInv, VpnTypeOK
  <2> QED BY <1>6, <2>1, MovesInv DEF Disconnect, VpnInv, VpnTypeOK
<1>7. ASSUME NEW a \in Hosts, WriteFailed(a) PROVE VpnInv'
    BY <1>7
    DEF WriteFailed, VpnInv, VpnTypeOK, AddressesGiven, NotYetRegistered, PushedOutByRivals
<1>8. CASE RemoveClient
    BY <1>8, VpnAssumption
    DEF RemoveClient, VpnInv, VpnTypeOK, AddressesGiven, NotYetRegistered, PushedOutByRivals
<1>9. CASE UNCHANGED vpnVars
    BY <1>9
    DEF vpnVars, VpnInv, VpnTypeOK, AddressesGiven, NotYetRegistered, PushedOutByRivals
<1> QED BY <1>1, <1>2, <1>3, <1>4, <1>5, <1>6, <1>7, <1>8, <1>9 DEF VpnNext

LEMMA VpnInvariant == VpnSpec => []VpnInv
    BY VpnInitInv, VpnInductive, PTL DEF VpnSpec

\* The counter stays in its word and the addresses that are given out in the
\* subnet, however the counter overflows (backend.go:236-250).
THEOREM VpnTypeCorrect == VpnSpec => []VpnTypeOK
<1>1. VpnInv => VpnTypeOK
    BY DEF VpnInv
<1> QED BY <1>1, VpnInvariant, PTL

\* Only one that was given the same address before it pushes a connection out of
\* the table, for any number of connections (backend.go:206, 256).
THEOREM AlwaysPushedOutByRivals == VpnSpec => []PushedOutByRivals
<1>1. VpnInv => PushedOutByRivals
    BY DEF VpnInv
<1> QED BY <1>1, VpnInvariant, PTL
-----------------------------------------------------------------------------
(***************************************************************************)
(* Whichever endpoint a process runs.                                      *)
(***************************************************************************)

\* The endpoint that runs takes its own steps, the others take none.
LEMMA EndpointsSteps ==
  /\ EndpointsInit => Init /\ UdpInit /\ VpnInit
  /\ [EndpointsNext]_endpointsVars => [Next]_vars /\ [UdpNext]_udpVars /\ [VpnNext]_vpnVars
<1>1. EndpointsInit => Init /\ UdpInit /\ VpnInit
    BY DEF EndpointsInit
<1>2. UNCHANGED endpointsVars => vars' = vars /\ udpVars' = udpVars /\ vpnVars' = vpnVars
    BY DEF endpointsVars
<1>3. EndpointsNext => [Next]_vars /\ [UdpNext]_udpVars /\ [VpnNext]_vpnVars
    BY Zenon DEF EndpointsNext
<1> QED BY <1>1, <1>2, <1>3, Zenon

\* A process of `zrok share` or `zrok access` keeps to the specification of every
\* endpoint, whichever its backend mode selects (cmd/zrok/sharePrivate.go:244-350,
\* accessPrivate.go:126-150): what is proved of one alone holds of the process.
THEOREM EndpointsKeepToTheirs == EndpointsSpec => Spec /\ UdpSpec /\ VpnSpec
BY EndpointsSteps, PTL DEF EndpointsSpec, Spec, UdpSpec, VpnSpec

\* So in one process that may turn out to be any of them the lock system of the
\* drive counts right, grants what PathLocks allows and lets no two writers meet, the
\* UDP frontend has one open session for an address and closes no other than the one
\* it means, and the VPN loses a client only to its rivals.
THEOREM EndpointsAreSafe ==
  EndpointsSpec =>
    /\ [](Consistent /\ WillExpire /\ LocksExclude /\ (~Tagged => WritersExclude))
    /\ [](OneOpenSession /\ ClosesItself)
    /\ []PushedOutByRivals
    /\ GrantsPathLocks
<1>1. Spec => [](~Tagged => WritersExclude)
  <2>1. CASE ~Tagged
      BY <2>1, WritersNeverMeet, PTL
  <2>2. CASE Tagged
    <3>1. ~Tagged => WritersExclude
        BY <2>2
    <3> QED BY <3>1, PTL
  <2> QED BY <2>1, <2>2
<1> QED
    BY <1>1, EndpointsKeepToTheirs, AlwaysConsistent, LocksWillExpire, LocksAlwaysExclude,
       OneOpenSessionAlways, AlwaysClosesItself, AlwaysPushedOutByRivals, DavRefinesPathLocks, PTL
=============================================================================
