----------------------------- MODULE Controller -----------------------------
(***************************************************************************)
(* The request handlers of the zrok controller that make and remove        *)
(* environments, shares and accesses (controller/enable, disable, share,   *)
(* unshare, access, unaccess).                                             *)
(*                                                                         *)
(* Every handler opens one store transaction, checks, changes OpenZiti     *)
(* through its management API, and commits.  OpenZiti knows nothing of     *)
(* the transaction: what it was told stays when the transaction is rolled  *)
(* back.  With the sqlite store one transaction is open at a time; with    *)
(* PostgreSQL (read committed) transactions interleave, and the row of     *)
(* limit_check_locks that a limit check writes is held until its           *)
(* transaction ends.                                                       *)
(*                                                                         *)
(* Rows and resources have identities of their own; those a request would  *)
(* create are members of Envs, Shares and Frontends that were never used.  *)
(* Bandwidth limits are in LimitsAgent: here they may refuse any request.  *)
(***************************************************************************)
EXTENDS LimitClasses, FiniteSets

CONSTANTS
  Envs, EnvAccount,       \* environments and their accounts
  Shares, ShareEnv,       \* shares and the environments they are created in
  Backend,                \* Backend[s]: the backend mode of share s
  Public,                 \* the shares of public share mode, the others are private
  Reserved, Unique,       \* the reserved shares, and those with a unique name
  Token,                  \* Token[s]: the share token, the name of the ziti service
  Frontends, FeEnv,       \* accesses and the environments they belong to
  FeShare,                \* FeShare[f]: the share f accesses
  Misnamed,               \* the accesses given up by a request with another share's token
  Requests,               \* requests that may be under way at once
  Serial,                 \* TRUE: sqlite, one open transaction at a time
  Locking,                \* TRUE: store.enable_locking
  Faults,                 \* what may fail: "edge", "commit", "crash"
  None

ASSUME ControllerAssumption ==
  /\ EnvAccount \in [Envs -> Accounts]
  /\ ShareEnv \in [Shares -> Envs]
  /\ Backend \in [Shares -> Modes]
  /\ Public \subseteq Shares /\ Reserved \subseteq Shares /\ Unique \subseteq Reserved
  /\ \A s, t \in Shares : s # t /\ Token[s] = Token[t] => s \in Unique /\ t \in Unique
  /\ FeEnv \in [Frontends -> Envs]
  /\ FeShare \in [Frontends -> Shares] /\ Misnamed \subseteq Frontends
  /\ Envs \cap Shares = {} /\ Envs \cap Frontends = {} /\ Shares \cap Frontends = {}
  /\ IsFiniteSet(Envs) /\ IsFiniteSet(Shares) /\ IsFiniteSet(Frontends)
  /\ Serial \in BOOLEAN /\ Locking \in BOOLEAN
  /\ Faults \subseteq {"edge", "commit", "crash"}
  /\ None \notin Accounts \cup Envs \cup Shares \cup Frontends

VARIABLES
  env, share, access,   \* the committed rows: "none", "live", "deleted"
  ziti,                 \* the OpenZiti resources that exist: <<kind, owner>>
  req                   \* req[r]: the request and how far its handler is

rows == <<env, share, access>>
vars == <<rows, ziti, req>>

Status == {"none", "live", "deleted"}
Kinds == {"identity", "router", "config", "service", "bind", "dial", "serp", "grant"}
Objects == Envs \cup Shares \cup Frontends

ShareAccount(s) == EnvAccount[ShareEnv[s]]
ByToken(t) == {s \in Shares : Token[s] = t}

\* FindEnvironmentsForAccount, FindSharesForEnvironment for each of them, and
\* FindFrontendsForPrivateShare.
LiveEnvs(a) == {e \in Envs : env[e] = "live" /\ EnvAccount[e] = a}
LiveShares(a) ==
  {s \in Shares : share[s] = "live" /\ env[ShareEnv[s]] = "live" /\ ShareAccount(s) = a}
LiveAccesses(s) == {f \in Frontends : access[f] = "live" /\ FeShare[f] = s}

\* The resources of an object, in the order they are created.
Recipe(op, o) ==
  CASE op = "enable" -> <<"identity", "router">>
    [] op = "share" /\ o \in Public -> <<"config", "service", "bind", "dial", "serp">>
    [] op = "share" /\ o \notin Public -> <<"config", "service", "bind", "serp">>
    [] op = "access" -> <<"grant">>

Resources(op, o) == {<<Recipe(op, o)[i], o>> : i \in DOMAIN Recipe(op, o)}

\* OpenZiti refuses a second config or service of one name.
Clashes(kind, o) ==
  kind \in {"config", "service"} /\ \E s \in ByToken(Token[o]) : <<kind, s>> \in ziti

\* Mutant: the service edge router policy is forgotten.
TaggedWithoutSerp(t) ==
  {<<k, s>> : k \in {"config", "bind", "dial"}, s \in ByToken(t)}
    \cup {<<"grant", f>> : f \in {g \in Frontends : FeShare[g] \in ByToken(t)}}

\* The resources that the tag filters for a share token find.
Tagged(t) ==
  {<<k, s>> : k \in {"config", "bind", "dial", "serp"}, s \in ByToken(t)}
    \cup {<<"grant", f>> : f \in {g \in Frontends : FeShare[g] \in ByToken(t)}}

Deallocated(s) == Tagged(Token[s]) \cup {<<"service", s>>}
-----------------------------------------------------------------------------
(* Transactions.                                                           *)

Creating == {"enable", "share", "access"}
Steps == {"idle", "waiting", "admitted", "shares", "frontends", "rows", "edge", "changed"}

\* object is the row it is about, lock the account whose limit_check_locks row
\* it wrote, doomed the rows that disable marks as deleted.
NoRequest == [op |-> "none", object |-> None, step |-> "idle", lock |-> None, doomed |-> {}]

Init ==
  /\ env = [e \in Envs |-> "none"]
  /\ share = [s \in Shares |-> "none"]
  /\ access = [f \in Frontends |-> "none"]
  /\ ziti = {}
  /\ req = [r \in Requests |-> NoRequest]

CanBegin == Serial => \A q \in Requests : req[q] = NoRequest

Begins(r, op, o, step, doomed) ==
  /\ req[r] = NoRequest /\ CanBegin
  /\ req' = [req EXCEPT ![r] =
               [op |-> op, object |-> o, step |-> step, lock |-> None, doomed |-> doomed]]
  /\ UNCHANGED <<rows, ziti>>

Unused(o) == \A q \in Requests : req[q].object # o

Goes(r, step) == req' = [req EXCEPT ![r].step = step]

\* Mutant: the lock row outlives the transaction.
EndsLocked(r) == req' = [req EXCEPT ![r] = [NoRequest EXCEPT !.lock = req[r].lock]]

\* The handler returns; a transaction still open is rolled back.
Ends(r) == req' = [req EXCEPT ![r] = NoRequest]
-----------------------------------------------------------------------------
(* The limit checks.                                                       *)

\* Mutant: the new member is not counted.
RoomForThese(limit, members) == limit = Unlimited \/ Cardinality(members) <= limit

Room(limit, members) == limit = Unlimited \/ Cardinality(members) + 1 <= limit

EnvLimit(a) == ResourceClass(a).count["environments"]
ShareLimit(s, n) == CountClass(ShareAccount(s), Backend[s]).count[n]

CanCreateEnvironment(e) == Room(EnvLimit(EnvAccount[e]), LiveEnvs(EnvAccount[e]))

\* The counts are compared environment by environment while they add up, so
\* that without a live environment nothing is compared.
CanCreateShare(s) ==
  LET live == LiveShares(ShareAccount(s)) IN
  LiveEnvs(ShareAccount(s)) # {} =>
    /\ Room(ShareLimit(s, "shares"), live)
    /\ s \in Reserved => Room(ShareLimit(s, "reservedShares"), live \cap Reserved)
    /\ s \in Unique => Room(ShareLimit(s, "uniqueNames"), live \cap Unique)

CanAccessShare(s) == Room(ShareLimit(s, "shareFrontends"), LiveAccesses(s))

\* Mutant: an access is checked against, and locks, the account that asks.
AccountThatAsks(op, o) ==
  CASE op = "enable" -> EnvAccount[o]
    [] op = "share" -> ShareAccount(o)
    [] op = "access" -> EnvAccount[FeEnv[o]]

\* The account whose limits a creating request is checked against: for an
\* access the owner of the share.
Account(op, o) ==
  CASE op = "enable" -> EnvAccount[o]
    [] op = "share" -> ShareAccount(o)
    [] op = "access" -> ShareAccount(FeShare[o])

\* Nothing is checked or locked for the environments and shares of a limitless
\* account; an access is always checked.
Exempt(op, o) == op # "access" /\ Account(op, o) \in Limitless

Allowed(op, o) ==
  CASE op = "enable" -> Exempt(op, o) \/ CanCreateEnvironment(o)
    [] op = "share" -> /\ Exempt(op, o) \/ CanCreateShare(o)
                       /\ o \in Unique => \A t \in ByToken(Token[o]) : share[t] # "live"
    [] op = "access" -> CanAccessShare(FeShare[o])

\* Mutants: an access, an enable does not lock.
LockTakenButAccess(op, o) ==
  IF Locking /\ ~Exempt(op, o) /\ op # "access" THEN Account(op, o) ELSE None

LockTakenButEnable(op, o) ==
  IF Locking /\ ~Exempt(op, o) /\ op # "enable" THEN Account(op, o) ELSE None

LockTaken(op, o) == IF Locking /\ ~Exempt(op, o) THEN Account(op, o) ELSE None

\* Mutant: the upsert does not wait.
LockFreeAlways(r, op, o) == TRUE

\* The upsert of the lock row waits while another transaction holds it.
LockFree(r, op, o) ==
  LockTaken(op, o) # None => \A q \in Requests \ {r} : req[q].lock # LockTaken(op, o)
-----------------------------------------------------------------------------
(* enable, share, access: lock, check, create in OpenZiti, insert, commit. *)

EnableBegins(r, e) ==
  /\ env[e] = "none" /\ Unused(e)
  /\ Begins(r, "enable", e, "waiting", {})

\* The environment is looked up before the limits are checked.
ShareBegins(r, s) ==
  /\ share[s] = "none" /\ Unused(s)
  /\ env[ShareEnv[s]] = "live"
  /\ Begins(r, "share", s, "waiting", {})

AccessBegins(r, f) ==
  /\ access[f] = "none" /\ Unused(f)
  /\ env[FeEnv[f]] = "live" /\ share[FeShare[f]] = "live"
  /\ Begins(r, "access", f, "waiting", {})

Admit(r) ==
  LET op == req[r].op  o == req[r].object IN
  /\ req[r].step = "waiting"
  /\ LockFree(r, op, o)
  /\ Allowed(op, o)
  /\ req' = [req EXCEPT ![r].step = "admitted", ![r].lock = LockTaken(op, o)]
  /\ UNCHANGED <<rows, ziti>>

\* Over a count, a bandwidth limit, a name in use, or a grant that is missing.
Refuse(r) ==
  /\ req[r].step = "waiting"
  /\ LockFree(r, req[r].op, req[r].object)
  /\ Ends(r)
  /\ UNCHANGED <<rows, ziti>>

Allocate(r) ==
  LET op == req[r].op  o == req[r].object IN
  /\ op \in Creating /\ req[r].step = "admitted"
  /\ \A x \in Resources(op, o) : ~Clashes(x[1], o)
  /\ ziti' = ziti \cup Resources(op, o)
  /\ Goes(r, "changed")
  /\ UNCHANGED rows

\* The call after the first done ones fails; those stay.
AllocateFails(r) ==
  LET op == req[r].op  o == req[r].object  recipe == Recipe(op, o) IN
  /\ op \in Creating /\ req[r].step = "admitted"
  /\ \E done \in 0..(Len(recipe) - 1) :
       /\ \A i \in 1..done : ~Clashes(recipe[i], o)
       /\ "edge" \in Faults \/ Clashes(recipe[done + 1], o)
       /\ ziti' = ziti \cup {<<recipe[i], o>> : i \in 1..done}
  /\ Ends(r)
  /\ UNCHANGED rows
-----------------------------------------------------------------------------
(* unshare and unaccess.                                                   *)

\* The share is found by the ziti service of its name.
UnshareBegins(r, s) ==
  /\ <<"service", s>> \in ziti
  /\ share[s] = "live" /\ env[ShareEnv[s]] = "live"
  /\ Begins(r, "unshare", s, "admitted", {})

\* An error deleting something is logged and the rest goes on.
DeletesSome(all) ==
  \E gone \in (IF "edge" \in Faults THEN SUBSET (ziti \cap all) ELSE {all}) :
     ziti' = ziti \ gone

Deallocate(r) ==
  /\ req[r].op = "unshare" /\ req[r].step = "admitted"
  /\ DeletesSome(Deallocated(req[r].object))
  /\ Goes(r, "changed")
  /\ UNCHANGED rows

UnaccessBegins(r, f) ==
  /\ access[f] = "live" /\ env[FeEnv[f]] = "live"
  /\ Begins(r, "unaccess", f, "admitted", {})

\* Mutant: the filter names the share only.
RevokeAll(r) ==
  /\ req[r].op = "unaccess" /\ req[r].step = "admitted"
  /\ ziti' = ziti \ {<<"grant", f>> : f \in {g \in Frontends : FeShare[g] = FeShare[req[r].object]}}
  /\ Goes(r, "changed")
  /\ UNCHANGED rows

\* The filter takes the share token from the request and the frontend token: the
\* policy of the access has both tags only if the request names its share.
Revoked(f) == IF f \in Misnamed THEN {} ELSE {<<"grant", f>>}

Revoke(r) ==
  /\ req[r].op = "unaccess" /\ req[r].step = "admitted"
  /\ \/ ziti' = ziti \ Revoked(req[r].object) /\ Goes(r, "changed")
     \/ "edge" \in Faults /\ Ends(r) /\ UNCHANGED ziti
  /\ UNCHANGED rows
-----------------------------------------------------------------------------
(* disable: the resources of the environment's shares and accesses are     *)
(* deleted, its rows are looked up again and marked, its edge router       *)
(* policy and identity are deleted, and all is committed.                  *)

SharesIn(e) == {s \in Shares : ShareEnv[s] = e /\ share[s] = "live"}
AccessesIn(e) == {f \in Frontends : FeEnv[f] = e /\ access[f] = "live"}

\* doomed is first the shares whose resources are to be removed.
DisableBegins(r, e) ==
  /\ env[e] = "live"
  /\ Begins(r, "disable", e, "shares", SharesIn(e))

RemoveShares(r) ==
  /\ req[r].step = "shares"
  /\ DeletesSome(UNION {Deallocated(s) : s \in req[r].doomed})
  /\ req' = [req EXCEPT ![r].step = "frontends", ![r].doomed = {}]
  /\ UNCHANGED rows

\* removeFrontendsForEnvironment looks at the environment again.
RemoveFrontends(r) ==
  /\ req[r].step = "frontends"
  /\ DeletesSome({<<"grant", f>> : f \in IF env[req[r].object] = "live"
                                         THEN AccessesIn(req[r].object) ELSE {}})
  /\ Goes(r, "rows")
  /\ UNCHANGED rows

\* Mutant: the accesses are left.
RemoveEnvironmentWithShares(r) ==
  /\ req[r].step = "rows"
  /\ req' = [req EXCEPT ![r].step = "edge", ![r].doomed = SharesIn(req[r].object)]
  /\ UNCHANGED <<rows, ziti>>

RemoveEnvironment(r) ==
  /\ req[r].step = "rows"
  /\ req' = [req EXCEPT ![r].step = "edge",
                        ![r].doomed = SharesIn(req[r].object) \cup AccessesIn(req[r].object)]
  /\ UNCHANGED <<rows, ziti>>

RemoveIdentity(r) ==
  LET e == req[r].object IN
  /\ req[r].step = "edge"
  /\ \/ ziti' = ziti \ {<<"router", e>>, <<"identity", e>>} /\ Goes(r, "changed")
     \/ /\ "edge" \in Faults
        /\ \E gone \in SUBSET {<<"router", e>>} : ziti' = ziti \ gone
        /\ Ends(r)
  /\ UNCHANGED rows
-----------------------------------------------------------------------------
(* The end of a transaction.                                               *)

\* Mutant: only the rows written remain.
BecomesAll(table, members, status) == [x \in DOMAIN table \cap members |-> status]

Becomes(table, members, status) ==
  [x \in DOMAIN table |-> IF x \in members THEN status ELSE table[x]]

\* The rows a request adds and those it marks as deleted.
Added(r) == IF req[r].op \in Creating THEN {req[r].object} ELSE {}
Dropped(r) == IF req[r].op \in Creating THEN {} ELSE req[r].doomed \cup {req[r].object}

Written(table, r) == Becomes(Becomes(table, Added(r), "live"), Dropped(r), "deleted")

\* Of the rows that are not deleted only one may have a given token.
Unambiguous(r) ==
  req[r].op = "share" =>
    \A s \in ByToken(Token[req[r].object]) : share[s] # "live"

Commit(r) ==
  /\ req[r].step = "changed"
  /\ Unambiguous(r)
  /\ env' = Written(env, r)
  /\ share' = Written(share, r)
  /\ access' = Written(access, r)
  /\ Ends(r)
  /\ UNCHANGED ziti

CommitFails(r) ==
  /\ req[r].step = "changed"
  /\ "commit" \in Faults \/ ~Unambiguous(r)
  /\ Ends(r)
  /\ UNCHANGED <<rows, ziti>>

\* The controller dies and is started again.
Crash ==
  /\ "crash" \in Faults
  /\ req' = [r \in Requests |-> NoRequest]
  /\ UNCHANGED <<rows, ziti>>
-----------------------------------------------------------------------------
Begin(r) ==
  \/ \E e \in Envs : EnableBegins(r, e) \/ DisableBegins(r, e)
  \/ \E s \in Shares : ShareBegins(r, s) \/ UnshareBegins(r, s)
  \/ \E f \in Frontends : AccessBegins(r, f) \/ UnaccessBegins(r, f)

Handle(r) ==
  \/ Admit(r) \/ Refuse(r) \/ Allocate(r) \/ AllocateFails(r)
  \/ Deallocate(r) \/ Revoke(r)
  \/ RemoveShares(r) \/ RemoveFrontends(r) \/ RemoveEnvironment(r) \/ RemoveIdentity(r)
  \/ Commit(r) \/ CommitFails(r)

Next == (\E r \in Requests : Begin(r) \/ Handle(r)) \/ Crash

Spec == Init /\ [][Next]_vars

\* A handler runs; PostgreSQL queues the transactions that wait for a row.
FairSpec == Spec /\ \A r \in Requests : SF_vars(Handle(r))
-----------------------------------------------------------------------------
(* Properties.                                                             *)

Request ==
  [op : {"none", "enable", "share", "access", "unshare", "unaccess", "disable"},
   object : Objects \cup {None}, step : Steps, lock : Accounts \cup {None},
   doomed : SUBSET Objects]

TypeOK ==
  /\ env \in [Envs -> Status]
  /\ share \in [Shares -> Status]
  /\ access \in [Frontends -> Status]
  /\ ziti \subseteq Kinds \X Objects
  /\ req \in [Requests -> Request]

Quiet == \A r \in Requests : req[r] = NoRequest

\* A live share has everything its backend and its frontends need in OpenZiti,
\* and a live access to it the policy to dial it (share.go, access.go), however
\* requests for it, its namesakes and its environment follow each other.
Backed ==
  Quiet =>
    /\ \A s \in Shares : share[s] = "live" => Resources("share", s) \subseteq ziti
    /\ \A f \in Frontends :
         access[f] = "live" /\ share[FeShare[f]] = "live" => <<"grant", f>> \in ziti

\* OpenZiti holds nothing for a row that is not live: every handler that gives
\* up a row gives up its resources (unshare.go:123-139, disable.go:87-138).  Only
\* an unaccess that names another share leaves a grant (unaccess.go:71), and that
\* one goes no later than the share it is for.
Live(o) == \/ o \in Envs /\ env[o] = "live"
           \/ o \in Shares /\ share[o] = "live"
           \/ o \in Frontends /\ access[o] = "live"

LeftBehind(x) == x[1] = "grant" /\ x[2] \in Misnamed /\ share[FeShare[x[2]]] = "live"

NoOrphans == Quiet => \A x \in ziti : Live(x[2]) \/ LeftBehind(x)

\* A live share or access belongs to a live environment: disabling an
\* environment takes them along (disable.go:140-163).
LiveInLiveEnvironment ==
  /\ \A s \in Shares : share[s] = "live" => env[ShareEnv[s]] = "live"
  /\ \A f \in Frontends : access[f] = "live" => env[FeEnv[f]] = "live"

\* A share that becomes live leaves its account within the counts that bound
\* it, whatever was created or removed between the check and the commit
\* (agent.go:110-150, limitCheckLock.go).
Within(limit, members) == limit = Unlimited \/ Cardinality(members) <= limit

SharesWithinLimits(s) ==
  LET live == LiveShares(ShareAccount(s)) IN
  /\ Within(ShareLimit(s, "shares"), live)
  /\ s \in Reserved => Within(ShareLimit(s, "reservedShares"), live \cap Reserved)
  /\ s \in Unique => Within(ShareLimit(s, "uniqueNames"), live \cap Unique)

SharesAdmitted ==
  [][\A s \in Shares :
       (share[s] # "live" /\ share'[s] = "live" /\ ShareAccount(s) \notin Limitless)
         => SharesWithinLimits(s)']_vars

\* No account that is not limitless has more live environments than its class
\* allows, and no share more live accesses (agent.go:55-78, 197-209).
EnvironmentsWithinLimit ==
  \A a \in Accounts \ Limitless : Within(EnvLimit(a), LiveEnvs(a))

AccessesWithinLimit ==
  \A s \in Shares : Within(ShareLimit(s, "shareFrontends"), LiveAccesses(s))

\* The live environments of the accounts, and the live accesses of the shares,
\* are pools that a member joins only while there is room.
EnvironmentPool ==
  INSTANCE CountedPool WITH
    Members <- Envs, Owners <- Accounts, Owner <- EnvAccount, Unbounded <- Unlimited,
    Capacity <- [a \in Accounts |-> IF a \in Limitless THEN Unlimited ELSE EnvLimit(a)],
    live <- {e \in Envs : env[e] = "live"}

AccessPool ==
  INSTANCE CountedPool WITH
    Members <- Frontends, Owners <- Shares, Owner <- FeShare, Unbounded <- Unlimited,
    Capacity <- [s \in Shares |-> ShareLimit(s, "shareFrontends")],
    live <- {f \in Frontends : access[f] = "live"}

EnvironmentsAreCounted == EnvironmentPool!Spec
AccessesAreCounted == AccessPool!Spec

\* A disable request that is answered with success has disabled the environment.
DisabledWhenAnswered ==
  [][\A r \in Requests :
       (req[r].op = "disable" /\ req[r].step = "changed" /\ req'[r] = NoRequest)
         => env'[req[r].object] = "deleted"]_vars

\* Every request is answered: no two of them wait for each other.
RequestsAnswered == \A r \in Requests : req[r] # NoRequest ~> req[r] = NoRequest
=============================================================================
