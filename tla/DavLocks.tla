------------------------------ MODULE DavLocks ------------------------------
(***************************************************************************)
(* The locks of a drive's WebDAV server (drives/davServer): the lock       *)
(* system memLS, a tree of nodes with reference counts behind one mutex,   *)
(* and the requests that take locks with LOCK, give them back with UNLOCK, *)
(* and confirm or take them for the time of a write (Handler.confirmLocks).*)
(*                                                                         *)
(* A call of memLS is one action.  Time is not counted: a lock with a      *)
(* duration may expire at any moment it is in the expiry heap.             *)
(***************************************************************************)
EXTENDS Naturals, FiniteSets

CONSTANTS
  Names, Up,   \* the names of resources; Up[n]: those walkToRoot visits from n
  Tokens,      \* lock tokens
  Requests,    \* requests that may be served at once
  Tagged,      \* TRUE: an If header may name another resource than the request
  None

ASSUME DavLocksAssumption ==
  /\ Up \in [Names -> SUBSET Names]
  /\ \A n \in Names : n \in Up[n]
  /\ \A m, n \in Names : m \in Up[n] => Up[m] \subseteq Up[n]
  /\ \A m, n \in Names : m \in Up[n] /\ n \in Up[m] => m = n
  /\ \A x \in Names : \A m, n \in Up[x] : m \in Up[n] \/ n \in Up[m]
  /\ IsFiniteSet(Names)
  /\ Tagged \in BOOLEAN
  /\ None \notin Tokens \cup Names

VARIABLES
  token,      \* token[n]: the token of n's lock, None when n is not locked
  ref,        \* ref[n]: the reference count of n's node, 0 when it has none
  zero,       \* zero[n]: whether n's lock has zero depth
  finite,     \* finite[n]: whether n's lock has a duration
  held,       \* the nodes whose lock a request has confirmed
  expiring,   \* byExpiry
  req         \* req[r]: the request r is and how far it is

memLS == <<token, ref, zero, finite, held, expiring>>
vars == <<memLS, req>>

Locked(n) == token[n] # None

\* n's lock covers x.
Covers(n, x) == Locked(n) /\ (n = x \/ (n \in Up[x] /\ ~zero[n]))

Below(n) == {x \in Names : n \in Up[x]}
-----------------------------------------------------------------------------
(* memLS.                                                                  *)

\* Mutants: a lock below, a lock above is not looked for.
CanCreateOverMembers(n, z) ==
  /\ ref[n] > 0 => ~Locked(n)
  /\ \A m \in Up[n] \ {n} : ref[m] > 0 => ~(Locked(m) /\ ~zero[m])

CanCreateUnderCollection(n, z) == ref[n] > 0 => ~Locked(n) /\ z

CanCreate(n, z) ==
  /\ ref[n] > 0 => ~Locked(n) /\ z
  /\ \A m \in Up[n] \ {n} : ref[m] > 0 => ~(Locked(m) /\ ~zero[m])

Create(n, z, f, t) ==
  /\ token' = [token EXCEPT ![n] = t]
  /\ ref' = [m \in Names |-> IF m \in Up[n] THEN ref[m] + 1 ELSE ref[m]]
  /\ zero' = [zero EXCEPT ![n] = z]
  /\ finite' = [finite EXCEPT ![n] = f]
  /\ expiring' = IF f THEN expiring \cup {n} ELSE expiring
  /\ UNCHANGED held

\* Mutant: only the node itself is given up.
RemoveNode(n) ==
  /\ token' = [token EXCEPT ![n] = None]
  /\ ref' = [ref EXCEPT ![n] = @ - 1]
  /\ expiring' = expiring \ {n}
  /\ UNCHANGED <<zero, finite, held>>

Remove(n) ==
  /\ token' = [token EXCEPT ![n] = None]
  /\ ref' = [m \in Names |-> IF m \in Up[n] THEN ref[m] - 1 ELSE ref[m]]
  /\ expiring' = expiring \ {n}
  /\ UNCHANGED <<zero, finite, held>>

Hold(nodes) ==
  /\ held' = held \cup nodes
  /\ expiring' = expiring \ nodes
  /\ UNCHANGED <<token, ref, zero, finite>>

\* Mutant: what was held never expires.
UnholdForever(nodes) ==
  /\ held' = held \ nodes
  /\ UNCHANGED <<token, ref, zero, finite, expiring>>

Unhold(nodes) ==
  /\ held' = held \ nodes
  /\ expiring' = expiring \cup {n \in nodes : finite[n]}
  /\ UNCHANGED <<token, ref, zero, finite>>
-----------------------------------------------------------------------------
(* Requests.  temp are the tokens nobody else knows: of the locks a request *)
(* without an If header takes for its own time, and of the lock a LOCK      *)
(* request has not answered yet; nodes are the locks it has confirmed.      *)

Idle == [op |-> "none", src |-> None, dst |-> None, step |-> "idle",
         temp |-> {}, nodes |-> {}]

Init ==
  /\ token = [n \in Names |-> None]
  /\ ref = [n \in Names |-> 0]
  /\ zero = [n \in Names |-> FALSE]
  /\ finite = [n \in Names |-> FALSE]
  /\ held = {} /\ expiring = {}
  /\ req = [r \in Requests |-> Idle]

\* A token that was never used.
Fresh(t) == (\A n \in Names : token[n] # t) /\ (\A r \in Requests : t \notin req[r].temp)

\* The locks whose token clients know and may present.
Known == {n \in Names : Locked(n) /\ \A r \in Requests : token[n] \notin req[r].temp}

\* PUT, MKCOL and PROPPATCH are "put"; they and DELETE have no destination.  A
\* COPY locks its destination only.
Source(op, src) == IF op = "copy" THEN {} ELSE {src}
Destination(op, dst) == IF op \in {"copy", "move"} THEN {dst} ELSE {}
Named(op, src, dst) == Source(op, src) \cup Destination(op, dst)

\* What a write changes: with a collection its members.
Touched(op, src, dst) ==
  IF op = "put" THEN {src} ELSE UNION {Below(n) : n \in Named(op, src, dst)}

Serves(r, op, src, dst, step, temp, nodes) ==
  req' = [req EXCEPT ![r] = [op |-> op, src |-> src, dst |-> dst, step |-> step,
                             temp |-> temp, nodes |-> nodes]]

\* A write without an If header takes a lock of its own on each resource it
\* names, of zero depth and without a duration.
StartWithoutIf(r, op, src, dst) ==
  LET first == IF op = "copy" THEN dst ELSE src IN
  /\ req[r] = Idle
  /\ CanCreate(first, TRUE)
  /\ \E t \in Tokens :
       /\ Fresh(t)
       /\ Create(first, TRUE, FALSE, t)
       /\ Serves(r, op, src, dst, IF op = "move" THEN "locking" ELSE "writing", {t}, {})

LockDestination(r) ==
  /\ req[r].step = "locking" /\ CanCreate(req[r].dst, TRUE)
  /\ \E t \in Tokens :
       /\ Fresh(t)
       /\ Create(req[r].dst, TRUE, FALSE, t)
       /\ req' = [req EXCEPT ![r].step = "writing", ![r].temp = @ \cup {t}]

\* Unlock, unless the lock is gone or held.
UnlockToken(t) ==
  IF \E n \in Names \ held : token[n] = t
  THEN \E n \in Names \ held : token[n] = t /\ Remove(n)
  ELSE UNCHANGED memLS

\* 423: the lock on the source is given back.
LockDestinationFails(r) ==
  /\ req[r].step = "locking" /\ ~CanCreate(req[r].dst, TRUE)
  /\ \E t \in req[r].temp : UnlockToken(t)
  /\ req' = [req EXCEPT ![r] = Idle]

\* Mutant: a lock another request has confirmed is confirmed again.
ClaimableHeld(x) == {n \in Known : Covers(n, x)}

\* What lookup may find for a name, whatever tokens are presented.
Claimable(x) == {n \in Known \ held : Covers(n, x)}

\* A write with an If header: Confirm finds a lock for each name and holds them.
\* The tag of the header stands in for the source.
StartWithIf(r, op, src, dst) ==
  /\ req[r] = Idle
  /\ \E source \in {Source(op, src)} \cup (IF Tagged THEN {{n} : n \in Names} ELSE {}) :
     \E found \in [source \cup Destination(op, dst) -> Known] :
       LET nodes == {found[x] : x \in DOMAIN found} IN
       /\ \A x \in DOMAIN found : found[x] \in Claimable(x)
       /\ Hold(nodes)
       /\ Serves(r, op, src, dst, "writing", {}, nodes)

\* The write is over, well or badly; deferred, the claims are given back: the
\* held ones in one call, the temporary locks one by one.
ReleaseHeld(r) ==
  /\ req[r].step = "writing" /\ req[r].temp = {}
  /\ Unhold(req[r].nodes)
  /\ req' = [req EXCEPT ![r] = Idle]

ReleaseTemporary(r) ==
  /\ req[r].step \in {"writing", "releasing"}
  /\ \E t \in req[r].temp :
       /\ UnlockToken(t)
       /\ req' = [req EXCEPT ![r] = IF req[r].temp = {t} THEN Idle
                                    ELSE [req[r] EXCEPT !.step = "releasing", !.temp = @ \ {t}]]
-----------------------------------------------------------------------------
(* LOCK and UNLOCK.                                                        *)

LockResource(r, n, z, f) ==
  /\ req[r] = Idle
  /\ CanCreate(n, z)
  /\ \E t \in Tokens :
       /\ Fresh(t)
       /\ Create(n, z, f, t)
       /\ Serves(r, "lock", n, None, "opening", {t}, {})

\* The resource exists or is created: the client is told the token.
LockAnswered(r) ==
  /\ req[r].step = "opening"
  /\ req' = [req EXCEPT ![r] = Idle]
  /\ UNCHANGED memLS

\* Mutant: the lock is given up by its name.
LockFailsByName(r) ==
  /\ req[r].step = "opening"
  /\ Remove(req[r].src)
  /\ req' = [req EXCEPT ![r] = Idle]

LockFails(r) ==
  /\ req[r].step = "opening"
  /\ \E t \in req[r].temp : UnlockToken(t)
  /\ req' = [req EXCEPT ![r] = Idle]

\* LOCK without a body.
Refresh(n, f) ==
  /\ n \in Known \ held
  /\ finite' = [finite EXCEPT ![n] = f]
  /\ expiring' = IF f THEN expiring \cup {n} ELSE expiring \ {n}
  /\ UNCHANGED <<token, ref, zero, held, req>>

Unlock(n) ==
  /\ n \in Known \ held
  /\ Remove(n)
  /\ UNCHANGED req

\* What every call of memLS does first with the locks whose time is over.
CollectExpired(n) ==
  /\ n \in expiring
  /\ Remove(n)
  /\ UNCHANGED req
-----------------------------------------------------------------------------
Start(r) ==
  \E op \in {"put", "delete", "copy", "move"}, src \in Names :
    \E dst \in IF op \in {"copy", "move"} THEN Names \ {src} ELSE {None} :
      StartWithoutIf(r, op, src, dst) \/ StartWithIf(r, op, src, dst)

Serve(r) ==
  \/ Start(r) \/ LockDestination(r) \/ LockDestinationFails(r)
  \/ ReleaseHeld(r) \/ ReleaseTemporary(r)
  \/ \E n \in Names, z, f \in BOOLEAN : LockResource(r, n, z, f)
  \/ LockAnswered(r) \/ LockFails(r)

Next ==
  \/ \E r \in Requests : Serve(r)
  \/ \E n \in Names, f \in BOOLEAN : Refresh(n, f)
  \/ \E n \in Names : Unlock(n) \/ CollectExpired(n)

Spec == Init /\ [][Next]_vars
-----------------------------------------------------------------------------
(* Properties.                                                             *)

Request ==
  [op : {"none", "put", "delete", "copy", "move", "lock"},
   src : Names \cup {None}, dst : Names \cup {None},
   step : {"idle", "locking", "writing", "releasing", "opening"},
   temp : SUBSET Tokens, nodes : SUBSET Names]

TypeOK ==
  /\ token \in [Names -> Tokens \cup {None}]
  /\ ref \in [Names -> Nat]
  /\ zero \in [Names -> BOOLEAN]
  /\ finite \in [Names -> BOOLEAN]
  /\ held \subseteq Names
  /\ expiring \subseteq Names
  /\ req \in [Requests -> Request]

LockedBelow(n) == {m \in Names : Locked(m) /\ n \in Up[m]}

\* memLS.consistent of lock_test.go: a node's reference count is the number of
\* locks on it and below it, and no two locks have one token.
Consistent ==
  /\ \A n \in Names : ref[n] = Cardinality(LockedBelow(n))
  /\ \A m, n \in Names : Locked(m) /\ token[m] = token[n] => m = n

\* The heap holds the locks that have a duration, except while they are held
\* (lock.go:128-130): a lock neither goes while a write relies on it nor stays
\* when its time is over.
WillExpire == expiring = {n \in Names : Locked(n) /\ finite[n]} \ held

\* No two locks cover the same resource, whatever order they are taken,
\* refreshed, given back and lost in (lock.go:291-313): the reference counts of
\* the tree are all canCreate looks at.
Granted == {[root |-> n, zero |-> zero[n]] : n \in {m \in Names : Locked(m)}}

Tree == INSTANCE PathLocks WITH locks <- Granted

LocksExclude == Tree!Exclusive
GrantsPathLocks == Tree!Spec

\* Two writes that are served at once name no resource both: each has a claim
\* on what it names that nobody else can have (lock.go:39-48, webdav.go:102-134),
\* as long as If headers are not tagged.
Writing(r) == req[r].step = "writing"
NamedBy(r) == Named(req[r].op, req[r].src, req[r].dst)

WritersExclude ==
  \A r, q \in Requests : r # q /\ Writing(r) /\ Writing(q) => NamedBy(r) \cap NamedBy(q) = {}

\* A write changes nothing that a lock of another client covers.
Claims(r) == req[r].nodes \cup {n \in Names : token[n] \in req[r].temp}

SparesLocked ==
  \A r \in Requests : Writing(r) =>
    \A x \in Touched(req[r].op, req[r].src, req[r].dst) :
      \A n \in Names : Covers(n, x) => n \in Claims(r)
=============================================================================
