-------------------------- MODULE ControllerProofs --------------------------
(***************************************************************************)
(* What holds of Controller for all accounts, classes, shares and          *)
(* requests: its types; that the counts of environments, shares and        *)
(* accesses are never exceeded when checks are serialized, be it by the    *)
(* store or by the lock rows; and, on either store, that live shares have  *)
(* what they need as long as names are not used twice and nothing fails.   *)
(***************************************************************************)
EXTENDS Controller, FiniteSetTheorems, TLAPS

(***************************************************************************)
(* The inductive invariant.                                                *)
(***************************************************************************)

\* What a request can be about and how far its handler can be.
Legal(q) ==
  \/ q = NoRequest
  \/ q.op = "enable" /\ q.object \in Envs /\ q.step \in {"waiting", "admitted", "changed"}
  \/ q.op = "share" /\ q.object \in Shares /\ q.step \in {"waiting", "admitted", "changed"}
  \/ q.op = "access" /\ q.object \in Frontends /\ q.step \in {"waiting", "admitted", "changed"}
  \/ q.op = "unshare" /\ q.object \in Shares /\ q.step \in {"admitted", "changed"}
  \/ q.op = "unaccess" /\ q.object \in Frontends /\ q.step \in {"admitted", "changed"}
  \/ /\ q.op = "disable" /\ q.object \in Envs
     /\ q.step \in {"shares", "frontends", "rows", "edge", "changed"}

AllLegal == \A r \in Requests : Legal(req[r])

\* Request q passed a check of counts and has not committed yet.
Checked(q) ==
  /\ q.op \in Creating
  /\ q.step \in {"admitted", "changed"}
  /\ ~Exempt(q.op, q.object)

\* Two such requests are never about limits of one account.
Exclusive ==
  /\ Serial => \A r, q \in Requests : r # q => req[r] = NoRequest \/ req[q] = NoRequest
  /\ Locking => \A r \in Requests :
                  Checked(req[r]) => req[r].lock = Account(req[r].op, req[r].object)
  /\ \A r, q \in Requests : r # q /\ req[r].lock = req[q].lock => req[r].lock = None

\* What was checked still holds.
CountAllows(op, o) ==
  CASE op = "enable" -> CanCreateEnvironment(o)
    [] op = "share" -> CanCreateShare(o)
    [] op = "access" -> CanAccessShare(FeShare[o])

StillAllowed == \A r \in Requests : Checked(req[r]) => CountAllows(req[r].op, req[r].object)

TypeInv == TypeOK /\ AllLegal

CountInv ==
  /\ TypeInv
  /\ Exclusive
  /\ StillAllowed
  /\ EnvironmentsWithinLimit
  /\ AccessesWithinLimit
-----------------------------------------------------------------------------
(***************************************************************************)
(* Limits and counts.                                                      *)
(***************************************************************************)

LEMMA LastAppliedType ==
  ASSUME NEW a \in Accounts, NEW chosen \in SUBSET DOMAIN Applied[a],
         NEW default \in LimitClass
  PROVE  LastApplied(a, chosen, default) \in LimitClass
<1> USE LimitClassesAssumption
<1>1. Applied[a] \in Seq(LimitClass)
  OBVIOUS
<1>2. CASE \E i \in chosen : \A j \in chosen : j <= i
  <2> DEFINE last == CHOOSE i \in chosen : \A j \in chosen : j <= i
  <2>1. last \in chosen
    BY <1>2
  <2>2. Applied[a][last] \in LimitClass
    BY <1>1, <2>1
  <2> QED
    BY <1>2, <2>2 DEF LastApplied
<1>3. CASE ~\E i \in chosen : \A j \in chosen : j <= i
  BY <1>3 DEF LastApplied
<1> QED
  BY <1>2, <1>3

LEMMA ResourceClassType ==
  ASSUME NEW a \in Accounts
  PROVE  ResourceClass(a) \in LimitClass
<1>1. RowsOf(a, IsResourceCountClass) \in SUBSET DOMAIN Applied[a]
  BY DEF RowsOf
<1>2. Config["resource"] \in LimitClass
  BY LimitClassesAssumption
<1> QED
  BY <1>1, <1>2, LastAppliedType DEF ResourceClass

LEMMA CountClassType ==
  ASSUME NEW a \in Accounts, NEW m \in Modes
  PROVE  CountClass(a, m) \in LimitClass
<1>1. ScopedRows(a, m) \in SUBSET DOMAIN Applied[a]
  BY DEF ScopedRows, RowsOf
<1>2. Config["limit"] \in LimitClass
  BY LimitClassesAssumption
<1>3. ScopedClass(a, m) \in LimitClass
  BY <1>1, <1>2, LastAppliedType DEF ScopedClass
<1> QED
  BY <1>3, ResourceClassType DEF CountClass

Limit == {Unlimited} \cup Nat

LEMMA EnvLimitType ==
  ASSUME NEW a \in Accounts
  PROVE  EnvLimit(a) \in Limit
BY ResourceClassType DEF EnvLimit, LimitClass, Counts, Limit

LEMMA ShareLimitType ==
  ASSUME NEW s \in Shares, NEW n \in Counts
  PROVE  ShareLimit(s, n) \in Limit
<1>1. ShareAccount(s) \in Accounts /\ Backend[s] \in Modes
  BY ControllerAssumption DEF ShareAccount
<1>2. CountClass(ShareAccount(s), Backend[s]) \in LimitClass
  BY <1>1, CountClassType
<1> QED
  BY <1>2 DEF ShareLimit, LimitClass, Limit

\* Room for one more is kept when members leave, and is what one more needs.
LEMMA RoomShrinks ==
  ASSUME NEW limit \in Limit, NEW S, NEW T, IsFiniteSet(S), T \subseteq S,
         Room(limit, S)
  PROVE  Room(limit, T)
<1>1. /\ IsFiniteSet(T)
      /\ Cardinality(T) <= Cardinality(S)
  BY FS_Subset
<1>2. Cardinality(S) \in Nat /\ Cardinality(T) \in Nat
  BY <1>1, FS_CardinalityType
<1> QED
  BY <1>1, <1>2 DEF Room, Limit, Unlimited

LEMMA WithinShrinks ==
  ASSUME NEW limit \in Limit, NEW S, NEW T, IsFiniteSet(S), T \subseteq S,
         Within(limit, S)
  PROVE  Within(limit, T)
<1>1. /\ IsFiniteSet(T)
      /\ Cardinality(T) <= Cardinality(S)
  BY FS_Subset
<1>2. Cardinality(S) \in Nat /\ Cardinality(T) \in Nat
  BY <1>1, FS_CardinalityType
<1> QED
  BY <1>1, <1>2 DEF Within, Limit, Unlimited

LEMMA RoomForOne ==
  ASSUME NEW limit \in Limit, NEW S, NEW x, NEW T, IsFiniteSet(S),
         T \subseteq S \cup {x}, Room(limit, S)
  PROVE  Within(limit, T)
<1>1. /\ IsFiniteSet(S \cup {x})
      /\ Cardinality(S \cup {x}) = Cardinality(S) \/ Cardinality(S \cup {x}) = Cardinality(S) + 1
  BY FS_AddElement
<1>2. /\ IsFiniteSet(T)
      /\ Cardinality(T) <= Cardinality(S \cup {x})
  BY <1>1, FS_Subset
<1>3. /\ Cardinality(S) \in Nat /\ Cardinality(T) \in Nat
      /\ Cardinality(S \cup {x}) \in Nat
  BY <1>1, <1>2, FS_CardinalityType
<1> QED
  BY <1>1, <1>2, <1>3 DEF Room, Within, Limit, Unlimited

LEMMA NoneWithin ==
  ASSUME NEW limit \in Limit
  PROVE  Within(limit, {})
BY FS_EmptySet DEF Within, Limit, Unlimited

LEMMA FiniteCounts ==
  /\ \A a : IsFiniteSet(LiveEnvs(a)) /\ IsFiniteSet(LiveShares(a))
  /\ \A s : IsFiniteSet(LiveAccesses(s))
<1>1. IsFiniteSet(Envs) /\ IsFiniteSet(Shares) /\ IsFiniteSet(Frontends)
  BY ControllerAssumption
<1>2. /\ \A a : LiveEnvs(a) \subseteq Envs /\ LiveShares(a) \subseteq Shares
      /\ \A s : LiveAccesses(s) \subseteq Frontends
  BY DEF LiveEnvs, LiveShares, LiveAccesses
<1> QED
  BY <1>1, <1>2, FS_Subset
-----------------------------------------------------------------------------
(***************************************************************************)
(* Types.                                                                  *)
(***************************************************************************)

LEMMA ResourcesType ==
  ASSUME NEW q \in Request, Legal(q), q.op \in Creating
  PROVE  /\ Resources(q.op, q.object) \subseteq Kinds \X Objects
         /\ \A n \in 0 .. Len(Recipe(q.op, q.object)) :
              {<<Recipe(q.op, q.object)[i], q.object>> : i \in 1 .. n} \subseteq Kinds \X Objects
<1>1. q.object \in Objects
  BY DEF Legal, Creating, NoRequest, Objects
<1>2. /\ \A i \in DOMAIN Recipe(q.op, q.object) : Recipe(q.op, q.object)[i] \in Kinds
      /\ DOMAIN Recipe(q.op, q.object) = 1 .. Len(Recipe(q.op, q.object))
      /\ Len(Recipe(q.op, q.object)) \in Nat
  <2>1. CASE q.op = "enable"
    BY <2>1 DEF Recipe, Kinds
  <2>2. CASE q.op = "share" /\ q.object \in Public
    <3> DEFINE recipe == <<"config", "service", "bind", "dial", "serp">>
    <3>1. Len(recipe) = 5 /\ DOMAIN recipe = 1 .. 5
      OBVIOUS
    <3>2. \A i \in 1 .. 5 : recipe[i] \in Kinds
      BY DEF Kinds
    <3>3. Recipe(q.op, q.object) = recipe
      BY <2>2 DEF Recipe
    <3> QED
      BY <3>1, <3>2, <3>3
  <2>3. CASE q.op = "share" /\ q.object \notin Public
    BY <2>3 DEF Recipe, Kinds
  <2>4. CASE q.op = "access"
    BY <2>4 DEF Recipe, Kinds
  <2> QED
    BY <2>1, <2>2, <2>3, <2>4 DEF Creating
<1> QED
  BY <1>1, <1>2 DEF Resources

LEMMA AccountType ==
  ASSUME NEW q \in Request, Legal(q), q.op \in Creating
  PROVE  Account(q.op, q.object) \in Accounts
<1> USE ControllerAssumption
<1>1. CASE q.op = "enable"
  BY <1>1 DEF Legal, NoRequest, Account
<1>2. CASE q.op = "share"
  BY <1>2 DEF Legal, NoRequest, Account, ShareAccount
<1>3. CASE q.op = "access"
  BY <1>3 DEF Legal, NoRequest, Account, ShareAccount
<1> QED
  BY <1>1, <1>2, <1>3 DEF Creating

LEMMA NoRequestType == NoRequest \in Request /\ Legal(NoRequest)
BY DEF NoRequest, Request, Legal, Steps

LEMMA WrittenType ==
  ASSUME NEW X, NEW table \in [X -> Status], NEW r \in Requests
  PROVE  Written(table, r) \in [X -> Status]
BY DEF Written, Becomes, Status

\* One request changes at a time, into another that is legal.
LEMMA OneRequest ==
  ASSUME TypeInv, NEW r \in Requests, NEW q \in Request, Legal(q),
         req' = [req EXCEPT ![r] = q]
  PROVE  req' \in [Requests -> Request] /\ AllLegal'
BY DEF TypeInv, TypeOK, AllLegal

LEMMA InitTypes == Init => TypeInv
<1> SUFFICES ASSUME Init PROVE TypeInv
  OBVIOUS
<1>1. req \in [Requests -> Request] /\ AllLegal
  BY NoRequestType DEF Init, AllLegal
<1> QED
  BY <1>1 DEF Init, TypeInv, TypeOK, Status

LEMMA BeginTypes ==
  ASSUME TypeInv, NEW r \in Requests, Begin(r)
  PROVE  TypeInv'
<1>1. ASSUME NEW op \in {"enable", "share", "access", "unshare", "unaccess", "disable"},
             NEW o \in Objects, NEW step \in Steps, NEW doomed \in SUBSET Objects,
             Begins(r, op, o, step, doomed),
             Legal([op |-> op, object |-> o, step |-> step, lock |-> None, doomed |-> doomed])
      PROVE  TypeInv'
  <2> DEFINE q == [op |-> op, object |-> o, step |-> step, lock |-> None, doomed |-> doomed]
  <2>1. q \in Request
    BY <1>1 DEF Request
  <2>2. req' = [req EXCEPT ![r] = q] /\ UNCHANGED <<rows, ziti>>
    BY <1>1 DEF Begins
  <2>3. req' \in [Requests -> Request] /\ AllLegal'
    BY <1>1, <2>1, <2>2, OneRequest
  <2> QED
    BY <2>2, <2>3 DEF TypeInv, TypeOK, rows
<1>2. CASE \E e \in Envs : EnableBegins(r, e)
  BY <1>1, <1>2 DEF EnableBegins, Legal, Objects, Steps
<1>3. CASE \E e \in Envs : DisableBegins(r, e)
  <2>1. \A e \in Envs : SharesIn(e) \in SUBSET Objects
    BY DEF SharesIn, Objects
  <2> QED
    BY <1>1, <1>3, <2>1 DEF DisableBegins, Legal, Objects, Steps
<1>4. CASE \E s \in Shares : ShareBegins(r, s)
  BY <1>1, <1>4 DEF ShareBegins, Legal, Objects, Steps
<1>5. CASE \E s \in Shares : UnshareBegins(r, s)
  BY <1>1, <1>5 DEF UnshareBegins, Legal, Objects, Steps
<1>6. CASE \E f \in Frontends : AccessBegins(r, f)
  BY <1>1, <1>6 DEF AccessBegins, Legal, Objects, Steps
<1>7. CASE \E f \in Frontends : UnaccessBegins(r, f)
  BY <1>1, <1>7 DEF UnaccessBegins, Legal, Objects, Steps
<1> QED
  BY <1>2, <1>3, <1>4, <1>5, <1>6, <1>7 DEF Begin

\* What the steps of a handler make of its request.
LEMMA HandleRequest ==
  ASSUME TypeInv, NEW r \in Requests, Handle(r)
  PROVE  \E q \in Request : Legal(q) /\ req' = [req EXCEPT ![r] = q]
<1> USE DEF TypeInv, TypeOK, AllLegal
<1>1. req[r] \in Request /\ Legal(req[r])
  OBVIOUS
<1>2. ASSUME NEW step \in Steps, Goes(r, step),
             Legal([req[r] EXCEPT !.step = step])
      PROVE  \E q \in Request : Legal(q) /\ req' = [req EXCEPT ![r] = q]
  <2>1. [req[r] EXCEPT !.step = step] \in Request
    BY <1>1 DEF Request
  <2>2. req' = [req EXCEPT ![r] = [req[r] EXCEPT !.step = step]]
    BY <1>2 DEF Goes
  <2> QED
    BY <1>2, <2>1, <2>2
<1>3. ASSUME Ends(r)
      PROVE  \E q \in Request : Legal(q) /\ req' = [req EXCEPT ![r] = q]
  BY <1>3, NoRequestType DEF Ends
<1>4. CASE Admit(r)
  <2> DEFINE q == [req[r] EXCEPT !.step = "admitted",
                                 !.lock = LockTaken(req[r].op, req[r].object)]
  <2>1. req[r].op \in Creating
    BY <1>1, <1>4 DEF Admit, Legal, NoRequest, Creating
  <2>2. LockTaken(req[r].op, req[r].object) \in Accounts \cup {None}
    BY <1>1, <2>1, AccountType DEF LockTaken
  <2>3. q \in Request
    BY <1>1, <2>2 DEF Request, Steps
  <2>4. Legal(q)
    BY <1>1, <2>1 DEF Legal, NoRequest, Creating, Request
  <2>5. req' = [req EXCEPT ![r] = q]
    BY <1>4 DEF Admit
  <2> QED
    BY <2>3, <2>4, <2>5
<1>5. CASE Refuse(r) \/ AllocateFails(r) \/ CommitFails(r) \/ Commit(r)
  BY <1>3, <1>5 DEF Refuse, AllocateFails, CommitFails, Commit
<1>6. CASE Allocate(r)
  BY <1>1, <1>2, <1>6 DEF Allocate, Legal, NoRequest, Creating, Request, Steps
<1>7. CASE Deallocate(r)
  BY <1>1, <1>2, <1>7 DEF Deallocate, Legal, NoRequest, Request, Steps
<1>8. CASE Revoke(r)
  BY <1>1, <1>2, <1>3, <1>8 DEF Revoke, Legal, NoRequest, Request, Steps
<1>9. CASE RemoveShares(r)
  <2> DEFINE q == [req[r] EXCEPT !.step = "frontends", !.doomed = {}]
  <2>1. q \in Request
    BY <1>1 DEF Request, Steps
  <2>2. Legal(q)
    BY <1>1, <1>9 DEF RemoveShares, Legal, NoRequest, Request
  <2>3. req' = [req EXCEPT ![r] = q]
    BY <1>9 DEF RemoveShares
  <2> QED
    BY <2>1, <2>2, <2>3
<1>10. CASE RemoveFrontends(r)
  BY <1>1, <1>2, <1>10 DEF RemoveFrontends, Legal, NoRequest, Request, Steps
<1>11. CASE RemoveEnvironment(r)
  <2> DEFINE doomed == SharesIn(req[r].object) \cup AccessesIn(req[r].object)
             q == [req[r] EXCEPT !.step = "edge", !.doomed = doomed]
  <2>1. doomed \in SUBSET Objects
    BY DEF SharesIn, AccessesIn, Objects
  <2>2. q \in Request
    BY <1>1, <2>1 DEF Request, Steps
  <2>3. Legal(q)
    BY <1>1, <1>11 DEF RemoveEnvironment, Legal, NoRequest, Request
  <2>4. req' = [req EXCEPT ![r] = q]
    BY <1>11 DEF RemoveEnvironment
  <2> QED
    BY <2>2, <2>3, <2>4
<1>12. CASE RemoveIdentity(r)
  BY <1>1, <1>2, <1>3, <1>12 DEF RemoveIdentity, Legal, NoRequest, Request, Steps
<1> QED
  BY <1>4, <1>5, <1>6, <1>7, <1>8, <1>9, <1>10, <1>11, <1>12 DEF Handle

LEMMA HandleTypes ==
  ASSUME TypeInv, NEW r \in Requests, Handle(r)
  PROVE  TypeInv'
<1>1. req' \in [Requests -> Request] /\ AllLegal'
  BY HandleRequest, OneRequest
<1>2. /\ env' \in [Envs -> Status]
      /\ share' \in [Shares -> Status]
      /\ access' \in [Frontends -> Status]
  <2>1. CASE Commit(r)
    BY <2>1, WrittenType DEF Commit, TypeInv, TypeOK
  <2>2. CASE ~Commit(r)
    BY <2>2 DEF Handle, Admit, Refuse, Allocate, AllocateFails, Deallocate, Revoke, RemoveShares,
                RemoveFrontends, RemoveEnvironment, RemoveIdentity, CommitFails, rows,
                TypeInv, TypeOK
  <2> QED
    BY <2>1, <2>2
<1>3. ziti' \subseteq Kinds \X Objects
  <2>1. ziti \subseteq Kinds \X Objects /\ req[r] \in Request /\ Legal(req[r])
    BY DEF TypeInv, TypeOK, AllLegal
  <2>2. CASE Allocate(r)
    BY <2>1, <2>2, ResourcesType DEF Allocate
  <2>3. CASE AllocateFails(r)
    <3>1. req[r].op \in Creating
      BY <2>3 DEF AllocateFails
    <3>2. PICK done \in 0 .. (Len(Recipe(req[r].op, req[r].object)) - 1) :
            ziti' = ziti \cup {<<Recipe(req[r].op, req[r].object)[i], req[r].object>> : i \in 1 .. done}
      BY <2>3 DEF AllocateFails
    <3>3. done \in 0 .. Len(Recipe(req[r].op, req[r].object))
      BY <2>1, <3>1, ResourcesType
    <3> QED
      BY <2>1, <3>1, <3>2, <3>3, ResourcesType
  <2>4. ASSUME NEW all, DeletesSome(all) PROVE ziti' \subseteq ziti
    BY <2>4 DEF DeletesSome
  <2>5. CASE Deallocate(r) \/ RemoveShares(r) \/ RemoveFrontends(r)
    BY <2>1, <2>4, <2>5 DEF Deallocate, RemoveShares, RemoveFrontends
  <2>6. CASE Revoke(r) \/ RemoveIdentity(r)
    BY <2>1, <2>6 DEF Revoke, RemoveIdentity
  <2>7. CASE Admit(r) \/ Refuse(r) \/ RemoveEnvironment(r) \/ Commit(r) \/ CommitFails(r)
    BY <2>1, <2>7 DEF Admit, Refuse, RemoveEnvironment, Commit, CommitFails
  <2> QED
    BY <2>2, <2>3, <2>5, <2>6, <2>7 DEF Handle
<1> QED
  BY <1>1, <1>2, <1>3 DEF TypeInv, TypeOK

LEMMA NextTypes == TypeInv /\ [Next]_vars => TypeInv'
<1> SUFFICES ASSUME TypeInv, [Next]_vars PROVE TypeInv'
  OBVIOUS
<1>1. CASE \E r \in Requests : Begin(r) \/ Handle(r)
  BY <1>1, BeginTypes, HandleTypes
<1>2. CASE Crash
  BY <1>2, NoRequestType DEF Crash, rows, TypeInv, TypeOK, AllLegal
<1>3. CASE UNCHANGED vars
  BY <1>3 DEF vars, rows, TypeInv, TypeOK, AllLegal
<1> QED
  BY <1>1, <1>2, <1>3 DEF Next

\* Rows, resources and requests always have their types, and every request is
\* about an object of its kind at a step of its handler.
THEOREM TypeCorrect == Spec => []TypeOK
<1>1. Spec => []TypeInv
  BY InitTypes, NextTypes, PTL DEF Spec
<1>2. TypeInv => TypeOK
  BY DEF TypeInv
<1> QED
  BY <1>1, <1>2, PTL
-----------------------------------------------------------------------------
(***************************************************************************)
(* Exclusion: what a handler does to its own request leaves the others and *)
(* their locks alone.                                                      *)
(***************************************************************************)

\* Request p became q, which holds no more than p did.
Follows(q, p) ==
  /\ q.lock \in {None, p.lock}
  /\ Checked(q) => Checked(p) /\ q.op = p.op /\ q.object = p.object /\ q.lock = p.lock

LEMMA NothingChecked == ~Checked(NoRequest) /\ NoRequest.lock = None
BY DEF Checked, NoRequest, Creating

LEMMA ExclusiveKept ==
  ASSUME TypeInv, Exclusive, NEW r \in Requests, NEW q \in Request, Follows(q, req[r]),
         req' = [req EXCEPT ![r] = q],
         \/ req[r] # NoRequest
         \/ Serial => \A p \in Requests : req[p] = NoRequest
  PROVE  Exclusive'
<1> USE DEF TypeInv, TypeOK
<1>1. \A p \in Requests : req'[p] = IF p = r THEN q ELSE req[p]
  OBVIOUS
<1>2. Serial => \A p1, p2 \in Requests : p1 # p2 => req'[p1] = NoRequest \/ req'[p2] = NoRequest
  BY <1>1 DEF Exclusive
<1>3. Locking => \A p \in Requests :
                   Checked(req'[p]) => req'[p].lock = Account(req'[p].op, req'[p].object)
  BY <1>1 DEF Exclusive, Follows
<1>4. \A p1, p2 \in Requests : p1 # p2 /\ req'[p1].lock = req'[p2].lock => req'[p1].lock = None
  BY <1>1 DEF Exclusive, Follows
<1> QED
  BY <1>2, <1>3, <1>4 DEF Exclusive, Checked, Exempt, Account, ShareAccount

LEMMA BeginFollows ==
  ASSUME TypeInv, NEW r \in Requests, Begin(r)
  PROVE  \E q \in Request :
           /\ Follows(q, req[r]) /\ req' = [req EXCEPT ![r] = q]
           /\ Serial => \A p \in Requests : req[p] = NoRequest
<1>1. ASSUME NEW op \in {"enable", "share", "access", "unshare", "unaccess", "disable"},
             NEW o \in Objects, NEW step \in Steps, NEW doomed \in SUBSET Objects,
             Begins(r, op, o, step, doomed),
             op \in Creating => step = "waiting"
      PROVE  \E q \in Request :
               /\ Follows(q, req[r]) /\ req' = [req EXCEPT ![r] = q]
               /\ Serial => \A p \in Requests : req[p] = NoRequest
  <2> DEFINE q == [op |-> op, object |-> o, step |-> step, lock |-> None, doomed |-> doomed]
  <2>1. q \in Request
    BY <1>1 DEF Request
  <2>2. Follows(q, req[r])
    BY <1>1 DEF Follows, Checked
  <2>3. /\ req' = [req EXCEPT ![r] = q]
        /\ Serial => \A p \in Requests : req[p] = NoRequest
    BY <1>1 DEF Begins, CanBegin
  <2> QED
    BY <2>1, <2>2, <2>3
<1>2. CASE \E e \in Envs : EnableBegins(r, e)
  BY <1>1, <1>2 DEF EnableBegins, Objects, Steps
<1>3. CASE \E e \in Envs : DisableBegins(r, e)
  <2>1. \A e \in Envs : SharesIn(e) \in SUBSET Objects
    BY DEF SharesIn, Objects
  <2> QED
    BY <1>1, <1>3, <2>1 DEF DisableBegins, Objects, Steps, Creating
<1>4. CASE \E s \in Shares : ShareBegins(r, s)
  BY <1>1, <1>4 DEF ShareBegins, Objects, Steps
<1>5. CASE \E s \in Shares : UnshareBegins(r, s)
  BY <1>1, <1>5 DEF UnshareBegins, Objects, Steps, Creating
<1>6. CASE \E f \in Frontends : AccessBegins(r, f)
  BY <1>1, <1>6 DEF AccessBegins, Objects, Steps
<1>7. CASE \E f \in Frontends : UnaccessBegins(r, f)
  BY <1>1, <1>7 DEF UnaccessBegins, Objects, Steps, Creating
<1> QED
  BY <1>2, <1>3, <1>4, <1>5, <1>6, <1>7 DEF Begin

LEMMA HandleFollows ==
  ASSUME TypeInv, NEW r \in Requests, Handle(r), ~Admit(r)
  PROVE  /\ req[r] # NoRequest
         /\ Follows(req'[r], req[r])
<1> USE DEF TypeInv, TypeOK, AllLegal
<1>1. req[r] \in Request /\ Legal(req[r]) /\ req \in [Requests -> Request]
  OBVIOUS
<1>2. ASSUME Ends(r) PROVE Follows(req'[r], req[r])
  BY <1>1, <1>2, NothingChecked DEF Ends, Follows
<1>3. ASSUME NEW step \in Steps, Goes(r, step), Checked([req[r] EXCEPT !.step = step]) => Checked(req[r])
      PROVE  Follows(req'[r], req[r])
  <2>1. req'[r] = [req[r] EXCEPT !.step = step]
    BY <1>1, <1>3 DEF Goes
  <2> QED
    BY <1>1, <1>3, <2>1 DEF Follows, Request
<1>4. CASE Refuse(r) \/ AllocateFails(r) \/ CommitFails(r) \/ Commit(r)
  BY <1>1, <1>2, <1>4 DEF Refuse, AllocateFails, CommitFails, Commit, NoRequest
<1>5. CASE Allocate(r)
  BY <1>1, <1>3, <1>5 DEF Allocate, Checked, Request, Steps, NoRequest
<1>6. CASE Deallocate(r) \/ Revoke(r) \/ RemoveFrontends(r) \/ RemoveIdentity(r)
  <2>1. req[r].op \notin Creating
    BY <1>1, <1>6 DEF Deallocate, Revoke, RemoveFrontends, RemoveIdentity, Creating, Legal, NoRequest
  <2>2. \A step \in Steps : ~Checked([req[r] EXCEPT !.step = step])
    BY <1>1, <2>1 DEF Checked, Request
  <2> QED
    BY <1>1, <1>2, <1>3, <1>6, <2>2
    DEF Deallocate, Revoke, RemoveFrontends, RemoveIdentity, NoRequest, Steps
<1>7. CASE RemoveShares(r) \/ RemoveEnvironment(r)
  <2>1. req[r].op \notin Creating
    BY <1>1, <1>7 DEF RemoveShares, RemoveEnvironment, Creating, Legal, NoRequest
  <2>2. req'[r].op = req[r].op /\ req'[r].lock = req[r].lock
    BY <1>1, <1>7 DEF RemoveShares, RemoveEnvironment, Request
  <2>3. req[r] # NoRequest
    BY <1>7 DEF RemoveShares, RemoveEnvironment, NoRequest
  <2> QED
    BY <2>1, <2>2, <2>3 DEF Follows, Checked
<1> QED
  BY <1>4, <1>5, <1>6, <1>7 DEF Handle

LEMMA AdmitExclusive ==
  ASSUME TypeInv, Exclusive, NEW r \in Requests, Admit(r)
  PROVE  Exclusive'
<1> DEFINE lock == LockTaken(req[r].op, req[r].object)
<1> USE DEF TypeInv, TypeOK
<1>1. \A p \in Requests :
        req'[p] = IF p = r THEN [req[r] EXCEPT !.step = "admitted", !.lock = lock] ELSE req[p]
  BY DEF Admit
<1>2. /\ req[r] # NoRequest
      /\ req'[r].lock = lock /\ req'[r].op = req[r].op /\ req'[r].object = req[r].object
  BY <1>1 DEF Admit, NoRequest, Request
<1>3. \A p \in Requests : p # r /\ req[p].lock = lock => lock = None
  BY DEF Admit, LockFree
<1>4. Serial => \A p1, p2 \in Requests : p1 # p2 => req'[p1] = NoRequest \/ req'[p2] = NoRequest
  BY <1>1, <1>2 DEF Exclusive
<1>5. Locking => \A p \in Requests :
                   Checked(req'[p]) => req'[p].lock = Account(req'[p].op, req'[p].object)
  BY <1>1, <1>2 DEF Exclusive, Checked, LockTaken
<1>6. \A p1, p2 \in Requests : p1 # p2 /\ req'[p1].lock = req'[p2].lock => req'[p1].lock = None
  BY <1>1, <1>2, <1>3 DEF Exclusive
<1> QED
  BY <1>4, <1>5, <1>6 DEF Exclusive, Checked, Exempt, Account, ShareAccount
-----------------------------------------------------------------------------
(***************************************************************************)
(* Counts: what was checked holds until the commit, and the commit adds no *)
(* more than one member.                                                   *)
(***************************************************************************)

\* A step that leaves the rows alone and checks nothing.
LEMMA CountsKept ==
  ASSUME CountInv, NEW r \in Requests, NEW q \in Request, Follows(q, req[r]),
         req' = [req EXCEPT ![r] = q], UNCHANGED rows
  PROVE  StillAllowed' /\ EnvironmentsWithinLimit' /\ AccessesWithinLimit'
<1>1. \A p \in Requests : req'[p] = IF p = r THEN q ELSE req[p]
  BY DEF CountInv, TypeInv, TypeOK
<1>2. \A p \in Requests : Checked(req'[p]) =>
        /\ Checked(req[p]) /\ req'[p].op = req[p].op /\ req'[p].object = req[p].object
  BY <1>1 DEF Follows
<1>3. \A p \in Requests : Checked(req'[p]) => CountAllows(req'[p].op, req'[p].object)
  BY <1>2 DEF CountInv, StillAllowed
<1>4. /\ \A a : LiveEnvs(a)' = LiveEnvs(a) /\ LiveShares(a)' = LiveShares(a)
      /\ \A s : LiveAccesses(s)' = LiveAccesses(s)
  BY DEF rows, LiveEnvs, LiveShares, LiveAccesses
<1>5. StillAllowed'
  BY <1>3, <1>4 DEF StillAllowed, CountAllows, CanCreateEnvironment, CanCreateShare,
                    CanAccessShare, Checked, Exempt, Account, ShareAccount
<1> QED
  BY <1>4, <1>5 DEF CountInv, EnvironmentsWithinLimit, AccessesWithinLimit

LEMMA AdmitAllowed ==
  ASSUME CountInv, NEW r \in Requests, Admit(r)
  PROVE  StillAllowed' /\ EnvironmentsWithinLimit' /\ AccessesWithinLimit'
<1> DEFINE q == [req[r] EXCEPT !.step = "admitted",
                               !.lock = LockTaken(req[r].op, req[r].object)]
<1>1. \A p \in Requests : req'[p] = IF p = r THEN q ELSE req[p]
  BY DEF Admit, CountInv, TypeInv, TypeOK
<1>2. q.op = req[r].op /\ q.object = req[r].object
  BY DEF CountInv, TypeInv, TypeOK, Request
<1>3. Checked(q) => CountAllows(q.op, q.object)
  BY <1>2 DEF Admit, Allowed, Checked, CountAllows, Creating
<1>4. \A p \in Requests : Checked(req'[p]) => CountAllows(req'[p].op, req'[p].object)
  BY <1>1, <1>3 DEF CountInv, StillAllowed
<1>5. /\ \A a : LiveEnvs(a)' = LiveEnvs(a) /\ LiveShares(a)' = LiveShares(a)
      /\ \A s : LiveAccesses(s)' = LiveAccesses(s)
  BY DEF Admit, rows, LiveEnvs, LiveShares, LiveAccesses
<1>6. StillAllowed'
  BY <1>4, <1>5 DEF StillAllowed, CountAllows, CanCreateEnvironment, CanCreateShare,
                    CanAccessShare, Checked, Exempt, Account, ShareAccount
<1> QED
  BY <1>5, <1>6 DEF CountInv, EnvironmentsWithinLimit, AccessesWithinLimit

\* Only the object of a creating request becomes live, in the table of its kind.
LEMMA CommitAdds ==
  ASSUME TypeInv, NEW r \in Requests, Commit(r)
  PROVE  /\ \A e \in Envs : env'[e] = "live" /\ env[e] # "live" =>
              req[r].op = "enable" /\ req[r].object = e
         /\ \A s \in Shares : share'[s] = "live" /\ share[s] # "live" =>
              req[r].op = "share" /\ req[r].object = s
         /\ \A f \in Frontends : access'[f] = "live" /\ access[f] # "live" =>
              req[r].op = "access" /\ req[r].object = f
<1>1. ASSUME NEW X, NEW table \in [X -> Status], NEW x \in X,
             Written(table, r)[x] = "live", table[x] # "live"
      PROVE  req[r].op \in Creating /\ req[r].object = x
  BY <1>1 DEF Written, Becomes, Added, Dropped, Creating
<1>2. Legal(req[r])
  BY DEF TypeInv, AllLegal
<1>3. /\ env' = Written(env, r) /\ share' = Written(share, r) /\ access' = Written(access, r)
      /\ env \in [Envs -> Status] /\ share \in [Shares -> Status]
      /\ access \in [Frontends -> Status]
  BY DEF Commit, TypeInv, TypeOK
<1>4. Envs \cap Shares = {} /\ Envs \cap Frontends = {} /\ Shares \cap Frontends = {}
  BY ControllerAssumption
<1>5. \A e \in Envs : env'[e] = "live" /\ env[e] # "live" =>
        req[r].op \in Creating /\ req[r].object = e
  BY <1>1, <1>3
<1>6. \A s \in Shares : share'[s] = "live" /\ share[s] # "live" =>
        req[r].op \in Creating /\ req[r].object = s
  BY <1>1, <1>3
<1>7. \A f \in Frontends : access'[f] = "live" /\ access[f] # "live" =>
        req[r].op \in Creating /\ req[r].object = f
  BY <1>1, <1>3
<1> QED
  BY <1>2, <1>4, <1>5, <1>6, <1>7 DEF Legal, Creating, NoRequest

\* While one request is between its check and its commit no other commits
\* something that counts for the same account.
LEMMA OtherAccount ==
  ASSUME Serial \/ Locking, CountInv, NEW r \in Requests, NEW p \in Requests, r # p,
         Checked(req[p]), req[r].op \in Creating, req[r].step = "changed",
         req[r].op = "access" \/ req[p].op # "access"
  PROVE  Account(req[r].op, req[r].object) # Account(req[p].op, req[p].object)
<1>1. CASE Checked(req[r])
  <2>1. CASE Serial
    BY <1>1, <2>1, NothingChecked DEF CountInv, Exclusive
  <2>2. CASE Locking
    <3>1. /\ req[r].lock = Account(req[r].op, req[r].object)
          /\ req[p].lock = Account(req[p].op, req[p].object)
      BY <1>1, <2>2 DEF CountInv, Exclusive
    <3>2. req[r].lock = req[p].lock => req[r].lock = None
      BY DEF CountInv, Exclusive
    <3>3. Account(req[r].op, req[r].object) \in Accounts
      BY AccountType DEF CountInv, TypeInv, TypeOK, AllLegal
    <3> QED
      BY <3>1, <3>2, <3>3, ControllerAssumption
  <2> QED
    BY <2>1, <2>2
<1>2. CASE ~Checked(req[r])
  BY <1>2 DEF Checked, Exempt
<1> QED
  BY <1>1, <1>2

LEMMA CommitAllowed ==
  ASSUME Serial \/ Locking, CountInv, NEW r \in Requests, Commit(r)
  PROVE  StillAllowed'
<1> USE ControllerAssumption DEF CountInv
<1>1. SUFFICES ASSUME NEW p \in Requests, Checked(req'[p])
               PROVE  CountAllows(req[p].op, req[p].object)'
  BY DEF StillAllowed, Checked, Exempt, Account, ShareAccount
<1>2. r # p /\ req'[p] = req[p]
  BY <1>1, NothingChecked DEF Commit, Ends, TypeInv, TypeOK
<1>3. /\ Checked(req[p]) /\ Legal(req[p]) /\ Legal(req[r]) /\ req[r].step = "changed"
      /\ CountAllows(req[p].op, req[p].object)
  BY <1>1, <1>2 DEF StillAllowed, TypeInv, AllLegal, Commit
<1>4. \A S, T : IsFiniteSet(S) /\ T \subseteq S =>
        \A limit \in Limit : Room(limit, S) => Room(limit, T)
  BY RoomShrinks
<1>5. CASE req[p].op = "enable"
  <2> DEFINE a == EnvAccount[req[p].object]
  <2>1. req[p].object \in Envs /\ a \in Accounts /\ a = Account(req[p].op, req[p].object)
    BY <1>3, <1>5 DEF Legal, NoRequest, Account
  <2>2. LiveEnvs(a)' \subseteq LiveEnvs(a)
    BY <1>2, <1>3, <1>5, <2>1, OtherAccount, CommitAdds DEF LiveEnvs, Account, Creating
  <2>3. Room(EnvLimit(a), LiveEnvs(a)')
    BY <1>3, <1>5, <2>1, <2>2, EnvLimitType, FiniteCounts, RoomShrinks
    DEF CountAllows, CanCreateEnvironment
  <2> QED
    BY <1>2, <1>5, <2>3 DEF CountAllows, CanCreateEnvironment
<1>6. CASE req[p].op = "share"
  <2> DEFINE s == req[p].object
             a == ShareAccount(s)
  <2>1. s \in Shares /\ a = Account(req[p].op, req[p].object)
    BY <1>3, <1>6 DEF Legal, NoRequest, Account
  <2>2. LiveEnvs(a)' \subseteq LiveEnvs(a)
    BY <1>2, <1>3, <1>6, <2>1, OtherAccount, CommitAdds DEF LiveEnvs, Account, Creating
  <2>3. LiveShares(a)' \subseteq LiveShares(a)
    <3>1. ASSUME NEW t \in Shares, share'[t] = "live", env'[ShareEnv[t]] = "live",
                 ShareAccount(t) = a
          PROVE  share[t] = "live" /\ env[ShareEnv[t]] = "live"
      BY <1>2, <1>3, <1>6, <2>1, <3>1, OtherAccount, CommitAdds DEF Account, ShareAccount, Creating
    <3> QED
      BY <1>2, <3>1 DEF LiveShares, ShareAccount
  <2>4. LiveEnvs(a)' # {} =>
          /\ Room(ShareLimit(s, "shares"), LiveShares(a))
          /\ s \in Reserved => Room(ShareLimit(s, "reservedShares"), LiveShares(a) \cap Reserved)
          /\ s \in Unique => Room(ShareLimit(s, "uniqueNames"), LiveShares(a) \cap Unique)
    BY <1>3, <1>6, <2>2 DEF CountAllows, CanCreateShare
  <2>5. \A S : /\ IsFiniteSet(LiveShares(a) \cap S)
               /\ LiveShares(a)' \cap S \subseteq LiveShares(a) \cap S
    BY <2>3, FiniteCounts, FS_Subset
  <2>6. /\ ShareLimit(s, "shares") \in Limit
        /\ ShareLimit(s, "reservedShares") \in Limit
        /\ ShareLimit(s, "uniqueNames") \in Limit
    BY <2>1, ShareLimitType DEF Counts
  <2>7. LiveEnvs(a)' # {} =>
          /\ Room(ShareLimit(s, "shares"), LiveShares(a)')
          /\ s \in Reserved => Room(ShareLimit(s, "reservedShares"), LiveShares(a)' \cap Reserved)
          /\ s \in Unique => Room(ShareLimit(s, "uniqueNames"), LiveShares(a)' \cap Unique)
    BY <1>4, <2>3, <2>4, <2>5, <2>6, FiniteCounts
  <2> QED
    BY <1>2, <1>6, <2>7 DEF CountAllows, CanCreateShare, ShareAccount
<1>7. CASE req[p].op = "access"
  <2> DEFINE s == FeShare[req[p].object]
  <2>1. s \in Shares /\ ShareAccount(s) = Account(req[p].op, req[p].object)
    BY <1>3, <1>7 DEF Legal, NoRequest, Account
  <2>2. LiveAccesses(s)' \subseteq LiveAccesses(s)
    BY <1>2, <1>3, <1>7, <2>1, OtherAccount, CommitAdds DEF LiveAccesses, Account, Creating
  <2>3. Room(ShareLimit(s, "shareFrontends"), LiveAccesses(s)')
    BY <1>3, <1>7, <2>1, <2>2, ShareLimitType, FiniteCounts, RoomShrinks
    DEF CountAllows, CanAccessShare, Counts
  <2> QED
    BY <1>2, <1>7, <2>3 DEF CountAllows, CanAccessShare
<1> QED
  BY <1>3, <1>5, <1>6, <1>7 DEF Checked, Creating

\* The commit itself takes no account and no share over its count.
LEMMA CommitCounts ==
  ASSUME Serial \/ Locking, CountInv, NEW r \in Requests, Commit(r)
  PROVE  EnvironmentsWithinLimit' /\ AccessesWithinLimit'
<1> DEFINE op == req[r].op
           o == req[r].object
<1> USE ControllerAssumption DEF CountInv
<1>1. Legal(req[r]) /\ req[r].step = "changed"
  BY DEF TypeInv, AllLegal, Commit
<1>2. ASSUME NEW a \in Accounts \ Limitless
      PROVE  Within(EnvLimit(a), LiveEnvs(a)')
  <2>1. CASE op = "enable" /\ EnvAccount[o] = a
    <3>1. Checked(req[r])
      BY <1>1, <1>2, <2>1 DEF Checked, Creating, Exempt, Account
    <3>2. Room(EnvLimit(a), LiveEnvs(a))
      BY <2>1, <3>1 DEF StillAllowed, CountAllows, CanCreateEnvironment
    <3>3. LiveEnvs(a)' \subseteq LiveEnvs(a) \cup {o}
      BY CommitAdds DEF LiveEnvs
    <3> QED
      BY <3>2, <3>3, EnvLimitType, FiniteCounts, RoomForOne
  <2>2. CASE ~(op = "enable" /\ EnvAccount[o] = a)
    <3>1. LiveEnvs(a)' \subseteq LiveEnvs(a)
      BY <2>2, CommitAdds DEF LiveEnvs
    <3>2. Within(EnvLimit(a), LiveEnvs(a))
      BY <1>2 DEF EnvironmentsWithinLimit
    <3> QED
      BY <3>1, <3>2, EnvLimitType, FiniteCounts, WithinShrinks
  <2> QED
    BY <2>1, <2>2
<1>3. ASSUME NEW s \in Shares
      PROVE  Within(ShareLimit(s, "shareFrontends"), LiveAccesses(s)')
  <2>1. ShareLimit(s, "shareFrontends") \in Limit
    BY ShareLimitType DEF Counts
  <2>2. CASE op = "access" /\ FeShare[o] = s
    <3>1. Checked(req[r])
      BY <1>1, <2>2 DEF Checked, Creating, Exempt
    <3>2. Room(ShareLimit(s, "shareFrontends"), LiveAccesses(s))
      BY <2>2, <3>1 DEF StillAllowed, CountAllows, CanAccessShare
    <3>3. LiveAccesses(s)' \subseteq LiveAccesses(s) \cup {o}
      BY CommitAdds DEF LiveAccesses
    <3> QED
      BY <2>1, <3>2, <3>3, FiniteCounts, RoomForOne
  <2>3. CASE ~(op = "access" /\ FeShare[o] = s)
    <3>1. LiveAccesses(s)' \subseteq LiveAccesses(s)
      BY <2>3, CommitAdds DEF LiveAccesses
    <3>2. Within(ShareLimit(s, "shareFrontends"), LiveAccesses(s))
      BY DEF AccessesWithinLimit
    <3> QED
      BY <2>1, <3>1, <3>2, FiniteCounts, WithinShrinks
  <2> QED
    BY <2>2, <2>3
<1> QED
  BY <1>2, <1>3 DEF EnvironmentsWithinLimit, AccessesWithinLimit

LEMMA InitCounts == Init => CountInv
<1> SUFFICES ASSUME Init PROVE CountInv
  OBVIOUS
<1>1. \A r \in Requests : req[r] = NoRequest
  BY DEF Init
<1>2. Exclusive /\ StillAllowed
  BY <1>1, NothingChecked DEF Exclusive, StillAllowed
<1>3. /\ \A a : LiveEnvs(a) = {}
      /\ \A s : LiveAccesses(s) = {}
  BY DEF Init, LiveEnvs, LiveAccesses
<1>4. EnvironmentsWithinLimit
  BY <1>3, EnvLimitType, NoneWithin DEF EnvironmentsWithinLimit
<1>5. AccessesWithinLimit
  BY <1>3, ShareLimitType, NoneWithin DEF AccessesWithinLimit, Counts
<1> QED
  BY InitTypes, <1>2, <1>4, <1>5 DEF CountInv

LEMMA NextCounts ==
  ASSUME Serial \/ Locking
  PROVE  CountInv /\ [Next]_vars => CountInv'
<1> SUFFICES ASSUME CountInv, [Next]_vars PROVE CountInv'
  OBVIOUS
<1>1. TypeInv'
  BY NextTypes DEF CountInv
<1>2. CASE \E r \in Requests : Begin(r)
  <2>1. PICK r \in Requests : Begin(r)
    BY <1>2
  <2>2. UNCHANGED rows
    BY <2>1 DEF Begin, EnableBegins, DisableBegins, ShareBegins, UnshareBegins,
                AccessBegins, UnaccessBegins, Begins
  <2> QED
    BY <1>1, <2>1, <2>2, BeginFollows, ExclusiveKept, CountsKept DEF CountInv
<1>3. CASE \E r \in Requests : Handle(r)
  <2>1. PICK r \in Requests : Handle(r)
    BY <1>3
  <2>2. CASE Admit(r)
    BY <1>1, <2>2, AdmitExclusive, AdmitAllowed DEF CountInv
  <2>3. CASE ~Admit(r)
    <3>1. PICK q \in Request : req' = [req EXCEPT ![r] = q]
      BY <2>1, HandleRequest DEF CountInv
    <3>2. req'[r] = q
      BY <3>1 DEF CountInv, TypeInv, TypeOK
    <3>3. req[r] # NoRequest /\ Follows(q, req[r])
      BY <2>1, <2>3, <3>2, HandleFollows DEF CountInv
    <3>4. Exclusive'
      BY <3>1, <3>3, ExclusiveKept DEF CountInv
    <3>5. CASE Commit(r)
      BY <1>1, <3>4, <3>5, CommitAllowed, CommitCounts DEF CountInv
    <3>6. CASE ~Commit(r)
      <4>1. UNCHANGED rows
        BY <2>1, <2>3, <3>6
        DEF Handle, Refuse, Allocate, AllocateFails, Deallocate, Revoke, RemoveShares,
            RemoveFrontends, RemoveEnvironment, RemoveIdentity, CommitFails
      <4> QED
        BY <1>1, <3>1, <3>3, <3>4, <4>1, CountsKept DEF CountInv
    <3> QED
      BY <3>5, <3>6
  <2> QED
    BY <2>2, <2>3
<1>4. CASE Crash \/ UNCHANGED vars
  <2>1. /\ UNCHANGED rows
        /\ \A r \in Requests : req'[r] = NoRequest \/ req'[r] = req[r]
        /\ req' = req \/ \A r \in Requests : req'[r] = NoRequest
    BY <1>4 DEF Crash, vars
  <2>2. Exclusive'
    <3>1. CASE req' = req
      BY <3>1 DEF CountInv, Exclusive, Checked, Exempt, Account, ShareAccount
    <3>2. CASE \A r \in Requests : req'[r] = NoRequest
      BY <3>2, NothingChecked DEF Exclusive, Checked
    <3> QED
      BY <2>1, <3>1, <3>2
  <2>3. /\ \A a : LiveEnvs(a)' = LiveEnvs(a) /\ LiveShares(a)' = LiveShares(a)
        /\ \A s : LiveAccesses(s)' = LiveAccesses(s)
    BY <2>1 DEF rows, LiveEnvs, LiveShares, LiveAccesses
  <2>4. StillAllowed'
    BY <2>1, <2>3, NothingChecked
    DEF CountInv, StillAllowed, CountAllows, CanCreateEnvironment, CanCreateShare,
        CanAccessShare, Checked, Exempt, Account, ShareAccount
  <2> QED
    BY <1>1, <2>2, <2>3, <2>4 DEF CountInv, EnvironmentsWithinLimit, AccessesWithinLimit
<1> QED
  BY <1>2, <1>3, <1>4 DEF Next

LEMMA CountsInvariant ==
  ASSUME Serial \/ Locking
  PROVE  Spec => []CountInv
BY InitCounts, NextCounts, PTL DEF Spec

\* With sqlite, or with enable_locking, no account that is not limitless ever
\* has more live environments than its resource class allows, whatever the
\* requests that run at once, their failures and restarts.
THEOREM EnvironmentsNeverExceed ==
  ASSUME Serial \/ Locking
  PROVE  Spec => []EnvironmentsWithinLimit
<1>1. CountInv => EnvironmentsWithinLimit
  BY DEF CountInv
<1> QED
  BY <1>1, CountsInvariant, PTL

\* Under the same condition no share ever has more live accesses than the class
\* that governs it allows, whoever asks for them.
THEOREM AccessesNeverExceed ==
  ASSUME Serial \/ Locking
  PROVE  Spec => []AccessesWithinLimit
<1>1. CountInv => AccessesWithinLimit
  BY DEF CountInv
<1> QED
  BY <1>1, CountsInvariant, PTL
-----------------------------------------------------------------------------
(***************************************************************************)
(* Shares: when one becomes live, the counts hold that bound it.           *)
(***************************************************************************)

Becoming(s) == share[s] # "live" /\ share'[s] = "live" /\ ShareAccount(s) \notin Limitless

LEMMA CommitAdmits ==
  ASSUME CountInv, NEW r \in Requests, Commit(r), NEW s \in Shares, Becoming(s)
  PROVE  SharesWithinLimits(s)'
<1> DEFINE a == ShareAccount(s)
<1>1. req[r].op = "share" /\ req[r].object = s
  BY CommitAdds DEF CountInv, Becoming
<1>2. Checked(req[r])
  BY <1>1 DEF Commit, Checked, Creating, Exempt, Account, Becoming
<1>3. CanCreateShare(s)
  BY <1>1, <1>2 DEF CountInv, StillAllowed, CountAllows
<1>4. LiveEnvs(a)' \subseteq LiveEnvs(a)
  BY <1>1, CommitAdds DEF CountInv, LiveEnvs
<1>5. LiveShares(a)' \subseteq LiveShares(a) \cup {s}
  BY <1>1, CommitAdds, ControllerAssumption DEF CountInv, LiveShares, ShareAccount
<1>6. /\ ShareLimit(s, "shares") \in Limit
      /\ ShareLimit(s, "reservedShares") \in Limit
      /\ ShareLimit(s, "uniqueNames") \in Limit
  BY ShareLimitType DEF Counts
<1>7. CASE LiveEnvs(a) = {}
  <2>1. LiveShares(a)' = {}
    <3>1. \A t \in Shares : ShareEnv[t] \in Envs /\ ShareAccount(t) = EnvAccount[ShareEnv[t]]
      BY ControllerAssumption DEF ShareAccount
    <3>2. \A e \in Envs : env'[e] = "live" => EnvAccount[e] # a
      BY <1>4, <1>7 DEF LiveEnvs
    <3> QED
      BY <3>1, <3>2 DEF LiveShares
  <2>2. /\ Within(ShareLimit(s, "shares"), {})
        /\ Within(ShareLimit(s, "reservedShares"), {})
        /\ Within(ShareLimit(s, "uniqueNames"), {})
    BY <1>6, NoneWithin
  <2>3. LiveShares(a)' \cap Reserved = {} /\ LiveShares(a)' \cap Unique = {}
    BY <2>1
  <2> QED
    BY <2>1, <2>2, <2>3 DEF SharesWithinLimits
<1>8. CASE LiveEnvs(a) # {}
  <2>1. \A S : /\ IsFiniteSet(LiveShares(a) \cap S)
               /\ LiveShares(a)' \cap S \subseteq (LiveShares(a) \cap S) \cup {s}
    BY <1>5, FiniteCounts, FS_Subset
  <2>2. Within(ShareLimit(s, "shares"), LiveShares(a)')
    BY <1>3, <1>5, <1>6, <1>8, FiniteCounts, RoomForOne DEF CanCreateShare
  <2>3. s \in Reserved => Within(ShareLimit(s, "reservedShares"), LiveShares(a)' \cap Reserved)
    BY <1>3, <1>6, <1>8, <2>1, RoomForOne DEF CanCreateShare
  <2>4. s \in Unique => Within(ShareLimit(s, "uniqueNames"), LiveShares(a)' \cap Unique)
    BY <1>3, <1>6, <1>8, <2>1, RoomForOne DEF CanCreateShare
  <2> QED
    BY <2>2, <2>3, <2>4 DEF SharesWithinLimits
<1> QED
  BY <1>7, <1>8

\* Only a commit writes rows.
LEMMA OnlyCommitWrites ==
  ASSUME [Next]_vars, ~UNCHANGED rows
  PROVE  \E r \in Requests : Commit(r)
BY DEF Next, Begin, Handle, Crash, vars, EnableBegins, DisableBegins, ShareBegins, UnshareBegins,
       AccessBegins, UnaccessBegins, Begins, Admit, Refuse, Allocate, AllocateFails, Deallocate,
       Revoke, RemoveShares, RemoveFrontends, RemoveEnvironment, RemoveIdentity, CommitFails

\* With sqlite, or with enable_locking, a share that becomes live leaves its
\* account within the counts of shares, reserved shares and unique names of the
\* class that governs it, whatever was committed since the check.
THEOREM SharesNeverExceed ==
  ASSUME Serial \/ Locking
  PROVE  Spec => SharesAdmitted
<1>1. CountInv /\ [Next]_vars =>
        [\A s \in Shares :
           (share[s] # "live" /\ share'[s] = "live" /\ ShareAccount(s) \notin Limitless)
             => SharesWithinLimits(s)']_vars
  <2> SUFFICES ASSUME CountInv, [Next]_vars, NEW s \in Shares, Becoming(s)
               PROVE  SharesWithinLimits(s)'
    BY DEF Becoming
  <2>1. ~UNCHANGED rows
    BY DEF Becoming, rows
  <2> QED
    BY <2>1, OnlyCommitWrites, CommitAdmits
<1> QED
  BY <1>1, CountsInvariant, PTL DEF Spec, SharesAdmitted
-----------------------------------------------------------------------------
(***************************************************************************)
(* Refinement: the live environments and accesses are counted pools.       *)
(***************************************************************************)

LiveEnvironments == {e \in Envs : env[e] = "live"}
LiveFrontends == {f \in Frontends : access[f] = "live"}

LEMMA EnvironmentStep ==
  ASSUME CountInv, [Next]_vars
  PROVE  EnvironmentPool!Next \/ LiveEnvironments' = LiveEnvironments
<1>1. CASE UNCHANGED rows
  BY <1>1 DEF rows, LiveEnvironments
<1>2. CASE \E r \in Requests : Commit(r)
  <2>1. PICK r \in Requests : Commit(r)
    BY <1>2
  <2>2. ASSUME NEW e \in Envs, req[r].op = "enable", req[r].object = e, e \notin LiveEnvironments
        PROVE  EnvironmentPool!Next
    <3>1. EnvAccount[e] \in Accounts
      BY <2>2, ControllerAssumption
    <3>2. LiveEnvironments' = LiveEnvironments \cup {e}
      BY <2>1, <2>2, <3>1
      DEF LiveEnvironments, Commit, Written, Becomes, Added, Dropped, Creating,
          CountInv, TypeInv, TypeOK
    <3>3. EnvAccount[e] \notin Limitless => Room(EnvLimit(EnvAccount[e]), LiveEnvs(EnvAccount[e]))
      BY <2>1, <2>2
      DEF Commit, CountInv, StillAllowed, Checked, Creating, Exempt, Account, CountAllows,
          CanCreateEnvironment
    <3>4. EnvironmentPool!Pool(EnvAccount[e]) = LiveEnvs(EnvAccount[e])
      BY DEF EnvironmentPool!Pool, LiveEnvs
    <3>5. EnvironmentPool!HasRoom(EnvAccount[e])
      <4>1. \A S : EnvironmentPool!Cardinality(S) = Cardinality(S)
        BY Zenon DEF EnvironmentPool!Cardinality, Cardinality
      <4> QED
        BY <3>1, <3>3, <3>4, <4>1 DEF EnvironmentPool!HasRoom, Room
    <3>6. EnvironmentPool!Add(e)
      BY <2>2, <3>2, <3>5 DEF EnvironmentPool!Add, LiveEnvironments
    <3> QED
      BY <2>2, <3>6 DEF EnvironmentPool!Next
  <2>3. CASE ~\E e \in Envs : req[r].op = "enable" /\ req[r].object = e /\ e \notin LiveEnvironments
    <3>1. LiveEnvironments' \subseteq LiveEnvironments
      BY <2>1, <2>3, CommitAdds DEF CountInv, LiveEnvironments
    <3>2. PICK gone \in SUBSET LiveEnvironments : LiveEnvironments' = LiveEnvironments \ gone
      BY <3>1
    <3>3. EnvironmentPool!Remove(gone)
      BY <3>2 DEF EnvironmentPool!Remove, LiveEnvironments
    <3> QED
      BY <3>2, <3>3 DEF EnvironmentPool!Next, LiveEnvironments
  <2> QED
    BY <2>2, <2>3
<1> QED
  BY <1>1, <1>2, OnlyCommitWrites

\* With sqlite, or with enable_locking, the handlers implement, for the live
\* environments of the accounts, a pool that is joined only while it has room.
THEOREM EnvironmentsRefine ==
  ASSUME Serial \/ Locking
  PROVE  Spec => EnvironmentsAreCounted
<1>1. Init => EnvironmentPool!Init
  BY DEF Init, EnvironmentPool!Init
<1>2. CountInv /\ [Next]_vars => [EnvironmentPool!Next]_LiveEnvironments
  BY EnvironmentStep
<1> QED
  BY <1>1, <1>2, CountsInvariant, PTL
  DEF Spec, EnvironmentsAreCounted, EnvironmentPool!Spec, LiveEnvironments

LEMMA AccessStep ==
  ASSUME CountInv, [Next]_vars
  PROVE  AccessPool!Next \/ LiveFrontends' = LiveFrontends
<1>1. CASE UNCHANGED rows
  BY <1>1 DEF rows, LiveFrontends
<1>2. CASE \E r \in Requests : Commit(r)
  <2>1. PICK r \in Requests : Commit(r)
    BY <1>2
  <2>2. ASSUME NEW f \in Frontends, req[r].op = "access", req[r].object = f, f \notin LiveFrontends
        PROVE  AccessPool!Next
    <3>1. FeShare[f] \in Shares
      BY <2>2, ControllerAssumption
    <3>2. LiveFrontends' = LiveFrontends \cup {f}
      BY <2>1, <2>2, <3>1
      DEF LiveFrontends, Commit, Written, Becomes, Added, Dropped, Creating,
          CountInv, TypeInv, TypeOK
    <3>3. Room(ShareLimit(FeShare[f], "shareFrontends"), LiveAccesses(FeShare[f]))
      BY <2>1, <2>2
      DEF Commit, CountInv, StillAllowed, Checked, Creating, Exempt, CountAllows, CanAccessShare
    <3>4. AccessPool!Pool(FeShare[f]) = LiveAccesses(FeShare[f])
      BY DEF AccessPool!Pool, LiveAccesses
    <3>5. AccessPool!HasRoom(FeShare[f])
      <4>1. \A S : AccessPool!Cardinality(S) = Cardinality(S)
        BY Zenon DEF AccessPool!Cardinality, Cardinality
      <4> QED
        BY <3>1, <3>3, <3>4, <4>1 DEF AccessPool!HasRoom, Room
    <3>6. AccessPool!Add(f)
      BY <2>2, <3>2, <3>5 DEF AccessPool!Add, LiveFrontends
    <3> QED
      BY <2>2, <3>6 DEF AccessPool!Next
  <2>3. CASE ~\E f \in Frontends : req[r].op = "access" /\ req[r].object = f /\ f \notin LiveFrontends
    <3>1. LiveFrontends' \subseteq LiveFrontends
      BY <2>1, <2>3, CommitAdds DEF CountInv, LiveFrontends
    <3>2. PICK gone \in SUBSET LiveFrontends : LiveFrontends' = LiveFrontends \ gone
      BY <3>1
    <3>3. AccessPool!Remove(gone)
      BY <3>2 DEF AccessPool!Remove, LiveFrontends
    <3> QED
      BY <3>2, <3>3 DEF AccessPool!Next, LiveFrontends
  <2> QED
    BY <2>2, <2>3
<1> QED
  BY <1>1, <1>2, OnlyCommitWrites

\* The same of the live accesses of the shares, for accesses asked for by any
\* account.
THEOREM AccessesRefine ==
  ASSUME Serial \/ Locking
  PROVE  Spec => AccessesAreCounted
<1>1. Init => AccessPool!Init
  BY DEF Init, AccessPool!Init
<1>2. CountInv /\ [Next]_vars => [AccessPool!Next]_LiveFrontends
  BY AccessStep
<1> QED
  BY <1>1, <1>2, CountsInvariant, PTL
  DEF Spec, AccessesAreCounted, AccessPool!Spec, LiveFrontends
-----------------------------------------------------------------------------
(***************************************************************************)
(* What live rows need, on either store, when no name is used twice and    *)
(* nothing fails.                                                          *)
(***************************************************************************)

OwnNames == \A s, t \in Shares : Token[s] = Token[t] => s = t

\* Request q has deleted from OpenZiti, or may have, what belongs to a row that
\* its commit will mark as deleted.
GivesUpShare(q, s) ==
  \/ q.op = "unshare" /\ q.object = s /\ q.step = "changed"
  \/ /\ q.op = "disable" /\ q.object = ShareEnv[s]
     /\ q.step \in {"frontends", "rows"} \/ (q.step \in {"edge", "changed"} /\ s \in q.doomed)

GivesUpAccess(q, f) ==
  \/ q.op = "unaccess" /\ q.object = f /\ q.step = "changed"
  \/ /\ q.op = "disable" /\ q.object = FeEnv[f]
     /\ q.step = "rows" \/ (q.step \in {"edge", "changed"} /\ f \in q.doomed)

ShareGoes(s) == \E r \in Requests : GivesUpShare(req[r], s)
AccessGoes(f) == \E r \in Requests : GivesUpAccess(req[r], f)

\* A share, an access has what it needs, unless that is being given up.
ShareStands(s) == Resources("share", s) \subseteq ziti \/ ShareGoes(s)
GrantStands(f) ==
  share[FeShare[f]] = "live" => <<"grant", f>> \in ziti \/ ShareGoes(FeShare[f])
AccessStands(f) == GrantStands(f) \/ AccessGoes(f)

\* What a request knows that no other transaction can undo.
Known(q) ==
  /\ q.op = "share" => /\ share[q.object] = "none"
                       /\ q.step = "changed" => Resources("share", q.object) \subseteq ziti
  /\ q.op = "access" => /\ access[q.object] = "none" /\ share[FeShare[q.object]] # "none"
                        /\ q.step = "changed" => GrantStands(q.object)
  /\ q.op = "unshare" => share[q.object] # "none" /\ q.doomed = {}
  /\ q.op = "unaccess" => access[q.object] # "none" /\ q.doomed = {}
  /\ q.op = "disable" =>
       /\ \A s \in Shares \cap q.doomed : ShareEnv[s] = q.object /\ share[s] # "none"
       /\ \A f \in Frontends \cap q.doomed : FeEnv[f] = q.object /\ access[f] # "none"
       /\ q.step = "shares" => q.doomed \subseteq Shares

\* A row is created by one request.
Apart(p, q) == p.op \in {"share", "access"} => p.object # q.object
OneCreates == \A r, x \in Requests : r # x => Apart(req[r], req[x])

SharesFirst == \A f \in Frontends : access[f] # "none" => share[FeShare[f]] # "none"

RowsStand ==
  /\ \A s \in Shares : share[s] = "live" => ShareStands(s)
  /\ \A f \in Frontends : access[f] = "live" => AccessStands(f)

StandInv ==
  /\ TypeInv /\ OneCreates /\ SharesFirst /\ RowsStand
  /\ \A r \in Requests : Known(req[r])
-----------------------------------------------------------------------------
LEMMA InitStands == Init => StandInv
<1> SUFFICES ASSUME Init PROVE StandInv
  OBVIOUS
<1>1. TypeInv
  BY InitTypes
<1>2. OneCreates /\ \A r \in Requests : Known(req[r])
  BY DEF Init, OneCreates, Apart, Known, NoRequest
<1>3. SharesFirst /\ RowsStand
  BY DEF Init, SharesFirst, RowsStand
<1> QED
  BY <1>1, <1>2, <1>3 DEF StandInv

\* A step of one handler that leaves the rows alone.
LEMMA StepStands ==
  ASSUME StandInv, NEW r \in Requests, NEW q, req' = [req EXCEPT ![r] = q], UNCHANGED rows,
         \A x \in Requests \ {r} : Apart(q, req[x]) /\ Apart(req[x], q),
         \A s \in Shares : share[s] = "live" /\ GivesUpShare(req[r], s) => GivesUpShare(q, s),
         \A f \in Frontends :
           access[f] = "live" /\ GivesUpAccess(req[r], f) => GivesUpAccess(q, f),
         \A s \in Shares : \/ Resources("share", s) \cap ziti \subseteq ziti'
                           \/ share[s] # "none" /\ GivesUpShare(q, s),
         \A f \in Frontends : \/ {<<"grant", f>>} \cap ziti \subseteq ziti'
                              \/ GivesUpShare(q, FeShare[f])
                              \/ access[f] # "none" /\ GivesUpAccess(q, f),
         Known(q)'
  PROVE  OneCreates' /\ SharesFirst' /\ RowsStand' /\ \A x \in Requests : Known(req[x])'
<1> USE ControllerAssumption
<1>1. /\ req'[r] = q
      /\ \A x \in Requests : x # r => req'[x] = req[x]
      /\ share' = share /\ access' = access /\ env' = env
  BY DEF StandInv, TypeInv, TypeOK, rows
<1>2. OneCreates'
  BY <1>1 DEF StandInv, OneCreates
<1>3. SharesFirst'
  BY <1>1 DEF StandInv, SharesFirst
<1>4. ASSUME NEW s \in Shares, share[s] = "live", ShareGoes(s)
      PROVE  ShareGoes(s)'
  BY <1>1, <1>4 DEF ShareGoes
<1>5. ASSUME NEW f \in Frontends, access[f] = "live", AccessGoes(f)
      PROVE  AccessGoes(f)'
  BY <1>1, <1>5 DEF AccessGoes
<1>6. ASSUME NEW f \in Frontends, GrantStands(f), ~GrantStands(f)'
      PROVE  access[f] # "none" /\ AccessGoes(f)'
  <2>1. /\ share[FeShare[f]] = "live" /\ <<"grant", f>> \notin ziti' /\ ~ShareGoes(FeShare[f])'
    BY <1>1, <1>6 DEF GrantStands
  <2>2. <<"grant", f>> \in ziti
    BY <1>4, <1>6, <2>1 DEF GrantStands
  <2>3. ~GivesUpShare(q, FeShare[f])
    BY <1>1, <2>1 DEF ShareGoes
  <2>4. access[f] # "none" /\ GivesUpAccess(q, f)
    BY <2>1, <2>2, <2>3
  <2> QED
    BY <1>1, <2>4 DEF AccessGoes
<1>7. RowsStand'
  <2>1. ASSUME NEW s \in Shares, share[s] = "live" PROVE ShareStands(s)'
    <3>1. CASE ShareGoes(s)
      BY <1>4, <2>1, <3>1 DEF ShareStands
    <3>2. CASE Resources("share", s) \subseteq ziti /\ ~GivesUpShare(q, s)
      <4>1. Resources("share", s) \subseteq ziti'
        BY <3>2
      <4> QED
        BY <4>1 DEF ShareStands, Resources, Recipe
    <3>3. CASE GivesUpShare(q, s)
      BY <1>1, <3>3 DEF ShareStands, ShareGoes
    <3> QED
      BY <2>1, <3>1, <3>2, <3>3 DEF StandInv, RowsStand, ShareStands
  <2>2. ASSUME NEW f \in Frontends, access[f] = "live" PROVE AccessStands(f)'
    BY <1>5, <1>6, <2>2 DEF StandInv, RowsStand, AccessStands
  <2> QED
    BY <1>1, <2>1, <2>2 DEF RowsStand
<1>8. ASSUME NEW x \in Requests PROVE Known(req[x])'
  <2>1. CASE x = r
    BY <1>1, <2>1 DEF Known
  <2>2. CASE x # r
    <3>0. PICK p : p = req[x]
      OBVIOUS
    <3>1. Known(p) /\ Legal(p) /\ req'[x] = p
      BY <1>1, <2>2, <3>0 DEF StandInv, TypeInv, AllLegal
    <3>2. p.op = "share" /\ p.step = "changed" => Resources("share", p.object) \subseteq ziti'
      BY <3>1 DEF Known, Legal, NoRequest
    <3>3. p.op = "access" /\ p.step = "changed" => GrantStands(p.object)'
      BY <1>6, <3>1 DEF Known, Legal, NoRequest
    <3>4. Known(p)'
      BY <1>1, <3>1, <3>2, <3>3 DEF Known, GrantStands, Resources, Recipe
    <3> QED
      BY <3>1, <3>4 DEF Known
  <2> QED
    BY <2>1, <2>2
<1> QED
  BY <1>2, <1>3, <1>7, <1>8

\* A request that goes on or ends is apart from the others as it was.
LEMMA KeptApart ==
  ASSUME StandInv, NEW r \in Requests, NEW q,
         q = NoRequest \/ (q.op = req[r].op /\ q.object = req[r].object)
  PROVE  \A x \in Requests \ {r} : Apart(q, req[x]) /\ Apart(req[x], q)
<1> TAKE x \in Requests \ {r}
<1>1. Legal(req[x]) /\ Apart(req[r], req[x]) /\ Apart(req[x], req[r])
  BY DEF StandInv, TypeInv, AllLegal, OneCreates
<1>2. CASE q = NoRequest
  BY <1>1, <1>2, ControllerAssumption DEF Apart, Legal, NoRequest
<1> QED
  BY <1>1, <1>2 DEF Apart

\* A request gives up nothing before it is under way.
LEMMA NothingGivenUp ==
  /\ \A s, f : ~GivesUpShare(NoRequest, s) /\ ~GivesUpAccess(NoRequest, f)
  /\ Known(NoRequest) /\ Known(NoRequest)'
BY DEF NoRequest, GivesUpShare, GivesUpAccess, Known

LEMMA BeginStands ==
  ASSUME StandInv, NEW r \in Requests, Begin(r)
  PROVE  OneCreates' /\ SharesFirst' /\ RowsStand' /\ \A x \in Requests : Known(req[x])'
<1> USE ControllerAssumption
<1>1. ASSUME NEW op, NEW o, NEW step, NEW doomed, Begins(r, op, o, step, doomed),
             step \in {"waiting", "admitted", "shares"},
             NEW q, q = [op |-> op, object |-> o, step |-> step, lock |-> None, doomed |-> doomed],
             Known(q), \A x \in Requests \ {r} : Apart(q, req[x]) /\ Apart(req[x], q)
      PROVE  OneCreates' /\ SharesFirst' /\ RowsStand' /\ \A x \in Requests : Known(req[x])'
  <2>1. req' = [req EXCEPT ![r] = q] /\ req[r] = NoRequest /\ UNCHANGED rows /\ ziti' = ziti
    BY <1>1 DEF Begins
  <2>2. Known(q)'
    BY <1>1, <2>1 DEF Known, rows
  <2>3. \A s, f : ~GivesUpShare(req[r], s) /\ ~GivesUpAccess(req[r], f)
    BY <2>1, NothingGivenUp
  <2>4. /\ \A s \in Shares : share[s] = "live" /\ GivesUpShare(req[r], s) => GivesUpShare(q, s)
        /\ \A f \in Frontends : access[f] = "live" /\ GivesUpAccess(req[r], f) => GivesUpAccess(q, f)
    BY <2>3
  <2>5. /\ \A s \in Shares : Resources("share", s) \cap ziti \subseteq ziti'
        /\ \A f \in Frontends : {<<"grant", f>>} \cap ziti \subseteq ziti'
    BY <2>1
  <2>6. \A x \in Requests \ {r} : Apart(q, req[x]) /\ Apart(req[x], q)
    BY <1>1
  <2> QED
    BY <2>1, <2>2, <2>4, <2>5, <2>6, StepStands
<1>2. ASSUME NEW o \in Envs \cup Shares \cup Frontends, Unused(o) \/ o \in Envs
             \/ (o \in Shares /\ share[o] # "none") \/ (o \in Frontends /\ access[o] # "none"),
             NEW x \in Requests, NEW q, q.object = o
      PROVE  Apart(req[x], q)
  BY <1>2 DEF Unused, Apart, StandInv, Known, TypeInv, AllLegal, Legal, NoRequest
<1>3. ASSUME NEW e \in Envs, EnableBegins(r, e)
      PROVE  OneCreates' /\ SharesFirst' /\ RowsStand' /\ \A x \in Requests : Known(req[x])'
  <2> DEFINE q == [op |-> "enable", object |-> e, step |-> "waiting", lock |-> None, doomed |-> {}]
  <2>1. Known(q) /\ \A x \in Requests : Apart(q, req[x])
    BY DEF Known, Apart
  <2>2. \A x \in Requests : Apart(req[x], q)
    BY <1>2
  <2> HIDE DEF q
  <2> QED
    BY <1>1, <1>3, <2>1, <2>2 DEF EnableBegins, q
<1>4. ASSUME NEW e \in Envs, DisableBegins(r, e)
      PROVE  OneCreates' /\ SharesFirst' /\ RowsStand' /\ \A x \in Requests : Known(req[x])'
  <2> DEFINE q == [op |-> "disable", object |-> e, step |-> "shares", lock |-> None,
                   doomed |-> SharesIn(e)]
  <2>1. Known(q) /\ \A x \in Requests : Apart(q, req[x])
    BY DEF Known, Apart, SharesIn
  <2>2. \A x \in Requests : Apart(req[x], q)
    BY <1>2
  <2>3. PICK p : p = q
    OBVIOUS
  <2> QED
    BY <1>1, <1>4, <2>1, <2>2, <2>3 DEF DisableBegins
<1>5. ASSUME NEW s \in Shares, ShareBegins(r, s)
      PROVE  OneCreates' /\ SharesFirst' /\ RowsStand' /\ \A x \in Requests : Known(req[x])'
  <2> DEFINE q == [op |-> "share", object |-> s, step |-> "waiting", lock |-> None, doomed |-> {}]
  <2>1. Unused(s) /\ Known(q)
    BY <1>5 DEF ShareBegins, Known
  <2>2. \A x \in Requests : Apart(q, req[x]) /\ Apart(req[x], q)
    BY <2>1 DEF Unused, Apart
  <2> HIDE DEF q
  <2> QED
    BY <1>1, <1>5, <2>1, <2>2 DEF ShareBegins, q
<1>6. ASSUME NEW s \in Shares, UnshareBegins(r, s)
      PROVE  OneCreates' /\ SharesFirst' /\ RowsStand' /\ \A x \in Requests : Known(req[x])'
  <2> DEFINE q == [op |-> "unshare", object |-> s, step |-> "admitted", lock |-> None, doomed |-> {}]
  <2>1. share[s] # "none" /\ Known(q) /\ \A x \in Requests : Apart(q, req[x])
    BY <1>6 DEF UnshareBegins, Known, Apart
  <2>2. \A x \in Requests : Apart(req[x], q)
    BY <1>2, <2>1
  <2> HIDE DEF q
  <2> QED
    BY <1>1, <1>6, <2>1, <2>2 DEF UnshareBegins, q
<1>7. ASSUME NEW f \in Frontends, AccessBegins(r, f)
      PROVE  OneCreates' /\ SharesFirst' /\ RowsStand' /\ \A x \in Requests : Known(req[x])'
  <2> DEFINE q == [op |-> "access", object |-> f, step |-> "waiting", lock |-> None, doomed |-> {}]
  <2>1. Unused(f) /\ Known(q)
    BY <1>7 DEF AccessBegins, Known
  <2>2. \A x \in Requests : Apart(q, req[x]) /\ Apart(req[x], q)
    BY <2>1 DEF Unused, Apart
  <2> HIDE DEF q
  <2> QED
    BY <1>1, <1>7, <2>1, <2>2 DEF AccessBegins, q
<1>8. ASSUME NEW f \in Frontends, UnaccessBegins(r, f)
      PROVE  OneCreates' /\ SharesFirst' /\ RowsStand' /\ \A x \in Requests : Known(req[x])'
  <2> DEFINE q == [op |-> "unaccess", object |-> f, step |-> "admitted", lock |-> None, doomed |-> {}]
  <2>1. access[f] # "none" /\ Known(q) /\ \A x \in Requests : Apart(q, req[x])
    BY <1>8 DEF UnaccessBegins, Known, Apart
  <2>2. \A x \in Requests : Apart(req[x], q)
    BY <1>2, <2>1
  <2> HIDE DEF q
  <2> QED
    BY <1>1, <1>8, <2>1, <2>2 DEF UnaccessBegins, q
<1> QED
  BY <1>3, <1>4, <1>5, <1>6, <1>7, <1>8 DEF Begin

LEMMA ShareResources ==
  ASSUME NEW s \in Shares
  PROVE  Resources("share", s) \subseteq {<<k, s>> : k \in {"config", "service", "bind", "dial", "serp"}}
<1>1. CASE s \in Public
  BY <1>1 DEF Resources, Recipe
<1>2. CASE s \notin Public
  BY <1>2 DEF Resources, Recipe
<1> QED
  BY <1>1, <1>2

LEMMA AccessResources == \A f : Resources("access", f) = {<<"grant", f>>}
BY DEF Resources, Recipe

\* What is deleted for a share belongs to no other, nor to an access to another.
LEMMA DeallocatedOwn ==
  ASSUME OwnNames, NEW s \in Shares
  PROVE  /\ \A t \in Shares : t # s => Resources("share", t) \cap Deallocated(s) = {}
         /\ \A f \in Frontends : FeShare[f] # s => <<"grant", f>> \notin Deallocated(s)
<1>1. ASSUME NEW t \in Shares, t # s, NEW k, k # "grant" PROVE <<k, t>> \notin Deallocated(s)
  BY <1>1 DEF OwnNames, Deallocated, Tagged, ByToken
<1>2. ASSUME NEW f \in Frontends, FeShare[f] # s PROVE <<"grant", f>> \notin Deallocated(s)
  BY <1>2, ControllerAssumption DEF OwnNames, Deallocated, Tagged, ByToken
<1> QED
  BY <1>1, <1>2, ShareResources

\* A step that takes nothing from OpenZiti.
LEMMA GrowingStands ==
  ASSUME StandInv, NEW r \in Requests, NEW q, req' = [req EXCEPT ![r] = q], UNCHANGED rows,
         q = NoRequest \/ (q.op = req[r].op /\ q.object = req[r].object),
         \A s \in Shares : share[s] = "live" /\ GivesUpShare(req[r], s) => GivesUpShare(q, s),
         \A f \in Frontends :
           access[f] = "live" /\ GivesUpAccess(req[r], f) => GivesUpAccess(q, f),
         ziti \subseteq ziti', Known(q)'
  PROVE  OneCreates' /\ SharesFirst' /\ RowsStand' /\ \A x \in Requests : Known(req[x])'
<1>1. \A x \in Requests \ {r} : Apart(q, req[x]) /\ Apart(req[x], q)
  BY KeptApart
<1>2. /\ \A s \in Shares : Resources("share", s) \cap ziti \subseteq ziti'
      /\ \A f \in Frontends : {<<"grant", f>>} \cap ziti \subseteq ziti'
  OBVIOUS
<1> QED
  BY <1>1, <1>2, StepStands

\* The steps of enable, share and access before the commit.
LEMMA CreatingStands ==
  ASSUME StandInv, NEW r \in Requests,
         Admit(r) \/ Refuse(r) \/ Allocate(r) \/ AllocateFails(r)
  PROVE  OneCreates' /\ SharesFirst' /\ RowsStand' /\ \A x \in Requests : Known(req[x])'
<1>1. PICK p : p = req[r]
  OBVIOUS
<1>2. /\ p \in Request /\ Legal(p) /\ Known(p) /\ p.op \in Creating /\ p.step # "changed"
  BY <1>1 DEF StandInv, TypeInv, TypeOK, AllLegal, Admit, Refuse, Allocate, AllocateFails,
              Legal, NoRequest, Creating
<1>3. \A s, f : ~GivesUpShare(p, s) /\ ~GivesUpAccess(p, f)
  BY <1>2 DEF GivesUpShare, GivesUpAccess, Creating
<1>4. UNCHANGED rows /\ ziti \subseteq ziti'
  BY DEF Admit, Refuse, Allocate, AllocateFails
<1>5. ASSUME NEW q, q = NoRequest \/ (q.op = p.op /\ q.object = p.object),
             req' = [req EXCEPT ![r] = q], Known(q)'
      PROVE  OneCreates' /\ SharesFirst' /\ RowsStand' /\ \A x \in Requests : Known(req[x])'
  BY <1>1, <1>3, <1>4, <1>5, GrowingStands
<1>6. CASE Admit(r)
  <2> DEFINE q == [p EXCEPT !.step = "admitted", !.lock = LockTaken(p.op, p.object)]
  <2>1. req' = [req EXCEPT ![r] = q]
    BY <1>1, <1>6 DEF Admit
  <2>2. q.op = p.op /\ q.object = p.object /\ q.step = "admitted"
    BY <1>2 DEF Request
  <2>3. PICK c : c = q
    OBVIOUS
  <2> HIDE DEF q
  <2>4. Known(c)'
    BY <1>2, <1>4, <2>2, <2>3 DEF Known, rows, Creating
  <2> QED
    BY <1>5, <2>1, <2>2, <2>3, <2>4
<1>7. CASE Refuse(r) \/ AllocateFails(r)
  BY <1>5, <1>7, NothingGivenUp DEF Refuse, AllocateFails, Ends
<1>8. CASE Allocate(r)
  <2> DEFINE q == [p EXCEPT !.step = "changed"]
  <2>1. req' = [req EXCEPT ![r] = q]
    BY <1>1, <1>8 DEF Allocate, Goes
  <2>2. q.op = p.op /\ q.object = p.object /\ q.step = "changed"
    BY <1>2 DEF Request
  <2>3. Resources(p.op, p.object) \subseteq ziti'
    BY <1>1, <1>8 DEF Allocate
  <2>4. PICK c : c = q
    OBVIOUS
  <2> HIDE DEF q
  <2>5. c.op = "share" => share'[c.object] = "none" /\ Resources("share", c.object) \subseteq ziti'
    BY <1>2, <1>4, <2>2, <2>3, <2>4 DEF Known, rows
  <2>6. c.op = "access" => /\ access'[c.object] = "none" /\ share'[FeShare[c.object]] # "none"
                           /\ <<"grant", c.object>> \in ziti'
    BY <1>2, <1>4, <2>2, <2>3, <2>4, AccessResources DEF Known, rows
  <2>7. Known(c)'
    BY <1>2, <2>2, <2>4, <2>5, <2>6 DEF Known, GrantStands, Creating, Resources, Recipe
  <2> QED
    BY <1>5, <2>1, <2>2, <2>4, <2>7
<1> QED
  BY <1>6, <1>7, <1>8

\* unshare deletes what its share needs, and nothing of another.
LEMMA DeallocateStands ==
  ASSUME Faults = {}, OwnNames, StandInv, NEW r \in Requests, Deallocate(r)
  PROVE  OneCreates' /\ SharesFirst' /\ RowsStand' /\ \A x \in Requests : Known(req[x])'
<1> DEFINE s == req[r].object  q == [req[r] EXCEPT !.step = "changed"]
<1>1. /\ s \in Shares /\ req[r].op = "unshare" /\ req[r].step = "admitted" /\ Known(req[r])
      /\ req[r] \in Request
  BY DEF StandInv, TypeInv, TypeOK, AllLegal, Deallocate, Legal, NoRequest
<1>2. /\ req' = [req EXCEPT ![r] = q] /\ UNCHANGED rows /\ ziti' = ziti \ Deallocated(s)
  BY DEF Deallocate, Goes, DeletesSome
<1>3. q.op = "unshare" /\ q.object = s /\ q.step = "changed" /\ q.doomed = {}
  BY <1>1 DEF Request, Known
<1>4. share[s] # "none"
  BY <1>1 DEF Known
<1>5. PICK p : p = q
  OBVIOUS
<1> HIDE DEF q
<1>6. \A x \in Requests \ {r} : Apart(p, req[x]) /\ Apart(req[x], p)
  BY <1>1, <1>3, <1>5, KeptApart
<1>7. /\ \A t : ~GivesUpShare(req[r], t)
      /\ \A f : ~GivesUpAccess(req[r], f)
  BY <1>1 DEF GivesUpShare, GivesUpAccess
<1>8. GivesUpShare(p, s)
  BY <1>3, <1>5 DEF GivesUpShare
<1>9. \A t \in Shares : \/ Resources("share", t) \cap ziti \subseteq ziti'
                        \/ share[t] # "none" /\ GivesUpShare(p, t)
  BY <1>1, <1>2, <1>4, <1>8, DeallocatedOwn
<1>10. \A f \in Frontends : \/ {<<"grant", f>>} \cap ziti \subseteq ziti'
                            \/ GivesUpShare(p, FeShare[f])
                            \/ access[f] # "none" /\ GivesUpAccess(p, f)
  BY <1>1, <1>2, <1>8, DeallocatedOwn
<1>11. Known(p)'
  BY <1>2, <1>3, <1>4, <1>5 DEF Known, rows
<1> QED
  BY <1>2, <1>5, <1>6, <1>7, <1>9, <1>10, <1>11, StepStands

\* unaccess deletes the policy of its access, or nothing.
LEMMA RevokeStands ==
  ASSUME Faults = {}, StandInv, NEW r \in Requests, Revoke(r)
  PROVE  OneCreates' /\ SharesFirst' /\ RowsStand' /\ \A x \in Requests : Known(req[x])'
<1> DEFINE o == req[r].object  q == [req[r] EXCEPT !.step = "changed"]
<1>1. /\ o \in Frontends /\ req[r].op = "unaccess" /\ req[r].step = "admitted" /\ Known(req[r])
      /\ req[r] \in Request
  BY DEF StandInv, TypeInv, TypeOK, AllLegal, Revoke, Legal, NoRequest
<1>2. /\ req' = [req EXCEPT ![r] = q] /\ UNCHANGED rows
      /\ \A x \in ziti : x # <<"grant", o>> => x \in ziti'
  BY DEF Revoke, Revoked, Goes
<1>3. q.op = "unaccess" /\ q.object = o /\ q.step = "changed" /\ q.doomed = {}
  BY <1>1 DEF Request, Known
<1>4. access[o] # "none"
  BY <1>1 DEF Known
<1>5. PICK p : p = q
  OBVIOUS
<1> HIDE DEF q
<1>6. \A x \in Requests \ {r} : Apart(p, req[x]) /\ Apart(req[x], p)
  BY <1>1, <1>3, <1>5, KeptApart
<1>7. /\ \A t : ~GivesUpShare(req[r], t)
      /\ \A f : ~GivesUpAccess(req[r], f)
  BY <1>1 DEF GivesUpShare, GivesUpAccess
<1>8. GivesUpAccess(p, o)
  BY <1>3, <1>5 DEF GivesUpAccess
<1>9. \A t \in Shares : Resources("share", t) \cap ziti \subseteq ziti'
  BY <1>2, ShareResources
<1>10. \A f \in Frontends : \/ {<<"grant", f>>} \cap ziti \subseteq ziti'
                            \/ access[f] # "none" /\ GivesUpAccess(p, f)
  BY <1>2, <1>4, <1>8
<1>11. Known(p)'
  BY <1>2, <1>3, <1>4, <1>5 DEF Known, rows
<1> QED
  BY <1>2, <1>5, <1>6, <1>7, <1>9, <1>10, <1>11, StepStands

\* disable deletes what the shares of its environment need ...
LEMMA RemoveSharesStands ==
  ASSUME Faults = {}, OwnNames, StandInv, NEW r \in Requests, RemoveShares(r)
  PROVE  OneCreates' /\ SharesFirst' /\ RowsStand' /\ \A x \in Requests : Known(req[x])'
<1> DEFINE e == req[r].object  D == req[r].doomed
           q == [req[r] EXCEPT !.step = "frontends", !.doomed = {}]
<1>1. /\ e \in Envs /\ req[r].op = "disable" /\ req[r].step = "shares" /\ Known(req[r])
      /\ req[r] \in Request
  BY DEF StandInv, TypeInv, TypeOK, AllLegal, RemoveShares, Legal, NoRequest
<1>2. /\ req' = [req EXCEPT ![r] = q] /\ UNCHANGED rows
      /\ ziti' = ziti \ UNION {Deallocated(s) : s \in D}
  BY DEF RemoveShares, DeletesSome
<1>3. q.op = "disable" /\ q.object = e /\ q.step = "frontends" /\ q.doomed = {}
  BY <1>1 DEF Request
<1>4. \A s \in D : s \in Shares /\ ShareEnv[s] = e /\ share[s] # "none"
  BY <1>1 DEF Known
<1>5. PICK p : p = q
  OBVIOUS
<1> HIDE DEF q
<1>6. \A x \in Requests \ {r} : Apart(p, req[x]) /\ Apart(req[x], p)
  BY <1>1, <1>3, <1>5, KeptApart
<1>7. /\ \A t : ~GivesUpShare(req[r], t)
      /\ \A f : ~GivesUpAccess(req[r], f)
  BY <1>1 DEF GivesUpShare, GivesUpAccess
<1>8. \A s \in D : GivesUpShare(p, s)
  BY <1>3, <1>4, <1>5 DEF GivesUpShare
<1>9. \A t \in Shares : \/ Resources("share", t) \cap ziti \subseteq ziti'
                        \/ share[t] # "none" /\ GivesUpShare(p, t)
  <2> SUFFICES ASSUME NEW t \in Shares, t \notin D
               PROVE  Resources("share", t) \cap ziti \subseteq ziti'
    BY <1>4, <1>8
  <2>1. \A s \in D : Resources("share", t) \cap Deallocated(s) = {}
    BY <1>4, DeallocatedOwn
  <2> HIDE DEF D
  <2> QED
    BY <1>2, <2>1
<1>10. \A f \in Frontends : \/ {<<"grant", f>>} \cap ziti \subseteq ziti'
                            \/ GivesUpShare(p, FeShare[f])
                            \/ access[f] # "none" /\ GivesUpAccess(p, f)
  <2> SUFFICES ASSUME NEW f \in Frontends, FeShare[f] \notin D
               PROVE  {<<"grant", f>>} \cap ziti \subseteq ziti'
    BY <1>8
  <2>1. \A s \in D : <<"grant", f>> \notin Deallocated(s)
    BY <1>4, DeallocatedOwn
  <2> HIDE DEF D
  <2> QED
    BY <1>2, <2>1
<1>11. Known(p)'
  BY <1>2, <1>3, <1>5 DEF Known, rows
<1> QED
  BY <1>2, <1>5, <1>6, <1>7, <1>9, <1>10, <1>11, StepStands

\* ... and the policies of its accesses; ...
LEMMA RemoveFrontendsStands ==
  ASSUME Faults = {}, StandInv, NEW r \in Requests, RemoveFrontends(r)
  PROVE  OneCreates' /\ SharesFirst' /\ RowsStand' /\ \A x \in Requests : Known(req[x])'
<1> DEFINE e == req[r].object  q == [req[r] EXCEPT !.step = "rows"]
<1>1. /\ e \in Envs /\ req[r].op = "disable" /\ req[r].step = "frontends" /\ Known(req[r])
      /\ req[r] \in Request
  BY DEF StandInv, TypeInv, TypeOK, AllLegal, RemoveFrontends, Legal, NoRequest
<1>2. /\ req' = [req EXCEPT ![r] = q] /\ UNCHANGED rows
      /\ \A x \in ziti \ ziti' : \E f \in AccessesIn(e) : x = <<"grant", f>>
  BY DEF RemoveFrontends, Goes, DeletesSome
<1>3. q.op = "disable" /\ q.object = e /\ q.step = "rows" /\ q.doomed = req[r].doomed
  BY <1>1 DEF Request
<1>4. PICK p : p = q
  OBVIOUS
<1> HIDE DEF q
<1>5. \A x \in Requests \ {r} : Apart(p, req[x]) /\ Apart(req[x], p)
  BY <1>1, <1>3, <1>4, KeptApart
<1>6. /\ \A t : GivesUpShare(req[r], t) => GivesUpShare(p, t)
      /\ \A f : GivesUpAccess(req[r], f) => GivesUpAccess(p, f)
  BY <1>1, <1>3, <1>4 DEF GivesUpShare, GivesUpAccess
<1>7. \A f \in AccessesIn(e) : GivesUpAccess(p, f) /\ access[f] # "none"
  BY <1>3, <1>4 DEF GivesUpAccess, AccessesIn
<1>8. \A t \in Shares : Resources("share", t) \cap ziti \subseteq ziti'
  BY <1>2, ShareResources
<1>9. \A f \in Frontends : \/ {<<"grant", f>>} \cap ziti \subseteq ziti'
                           \/ access[f] # "none" /\ GivesUpAccess(p, f)
  BY <1>2, <1>7
<1>10. Known(p)'
  BY <1>1, <1>2, <1>3, <1>4 DEF Known, rows
<1> QED
  BY <1>2, <1>4, <1>5, <1>6, <1>8, <1>9, <1>10, StepStands

\* ... its rows, looked up again, are all that was still live of these.
LEMMA RemoveEnvironmentStands ==
  ASSUME StandInv, NEW r \in Requests, RemoveEnvironment(r)
  PROVE  OneCreates' /\ SharesFirst' /\ RowsStand' /\ \A x \in Requests : Known(req[x])'
<1> DEFINE e == req[r].object  D == SharesIn(e) \cup AccessesIn(e)
           q == [req[r] EXCEPT !.step = "edge", !.doomed = D]
<1>1. /\ e \in Envs /\ req[r].op = "disable" /\ req[r].step = "rows" /\ req[r] \in Request
  BY DEF StandInv, TypeInv, TypeOK, AllLegal, RemoveEnvironment, Legal, NoRequest
<1>2. req' = [req EXCEPT ![r] = q] /\ UNCHANGED rows /\ ziti' = ziti
  BY DEF RemoveEnvironment
<1>3. q.op = "disable" /\ q.object = e /\ q.step = "edge" /\ q.doomed = D
  BY <1>1 DEF Request
<1>4. PICK p : p = q
  OBVIOUS
<1> HIDE DEF q
<1>5. /\ \A t \in Shares : share[t] = "live" /\ GivesUpShare(req[r], t) => GivesUpShare(p, t)
      /\ \A f \in Frontends : access[f] = "live" /\ GivesUpAccess(req[r], f) => GivesUpAccess(p, f)
  BY <1>1, <1>3, <1>4 DEF GivesUpShare, GivesUpAccess, SharesIn, AccessesIn
<1>6. Known(p)'
  BY <1>2, <1>3, <1>4, ControllerAssumption DEF Known, rows, SharesIn, AccessesIn
<1> QED
  BY <1>1, <1>2, <1>3, <1>4, <1>5, <1>6, GrowingStands

\* The identity and the router policy are nobody else's.
LEMMA RemoveIdentityStands ==
  ASSUME Faults = {}, StandInv, NEW r \in Requests, RemoveIdentity(r)
  PROVE  OneCreates' /\ SharesFirst' /\ RowsStand' /\ \A x \in Requests : Known(req[x])'
<1> DEFINE e == req[r].object  q == [req[r] EXCEPT !.step = "changed"]
<1>1. /\ e \in Envs /\ req[r].op = "disable" /\ req[r].step = "edge" /\ Known(req[r])
      /\ req[r] \in Request
  BY DEF StandInv, TypeInv, TypeOK, AllLegal, RemoveIdentity, Legal, NoRequest
<1>2. /\ req' = [req EXCEPT ![r] = q] /\ UNCHANGED rows
      /\ ziti' = ziti \ {<<"router", e>>, <<"identity", e>>}
  BY DEF RemoveIdentity, Goes
<1>3. q.op = "disable" /\ q.object = e /\ q.step = "changed" /\ q.doomed = req[r].doomed
  BY <1>1 DEF Request
<1>4. PICK p : p = q
  OBVIOUS
<1> HIDE DEF q
<1>5. \A x \in Requests \ {r} : Apart(p, req[x]) /\ Apart(req[x], p)
  BY <1>1, <1>3, <1>4, KeptApart
<1>6. /\ \A t : GivesUpShare(req[r], t) => GivesUpShare(p, t)
      /\ \A f : GivesUpAccess(req[r], f) => GivesUpAccess(p, f)
  BY <1>1, <1>3, <1>4 DEF GivesUpShare, GivesUpAccess
<1>7. /\ \A t \in Shares : Resources("share", t) \cap ziti \subseteq ziti'
      /\ \A f \in Frontends : {<<"grant", f>>} \cap ziti \subseteq ziti'
  BY <1>2, ShareResources
<1>8. Known(p)'
  BY <1>1, <1>2, <1>3, <1>4 DEF Known, rows
<1> QED
  BY <1>2, <1>4, <1>5, <1>6, <1>7, <1>8, StepStands

\* What a commit makes of the rows: it adds one that was never there, and drops
\* rows that were.
LEMMA CommitRows ==
  ASSUME StandInv, NEW r \in Requests, Commit(r), NEW p, p = req[r]
  PROVE  /\ \A s \in Shares :
              /\ share'[s] = "live" => share[s] = "live" \/ (p.op = "share" /\ s = p.object)
              /\ share[s] # "none" => share'[s] # "none"
              /\ share[s] = "none" => share'[s] = "none" \/ (p.op = "share" /\ s = p.object)
              /\ share'[s] = "live" => ~GivesUpShare(p, s)
         /\ \A f \in Frontends :
              /\ access'[f] = "live" => access[f] = "live" \/ (p.op = "access" /\ f = p.object)
              /\ access[f] # "none" => access'[f] # "none"
              /\ access[f] = "none" => access'[f] = "none" \/ (p.op = "access" /\ f = p.object)
              /\ access'[f] = "live" => ~GivesUpAccess(p, f)
<1> USE ControllerAssumption
<1>1. p.step = "changed" /\ Legal(p) /\ Known(p)
  BY DEF Commit, StandInv, TypeInv, AllLegal
<1>2. /\ share' = Written(share, r) /\ access' = Written(access, r)
      /\ share \in [Shares -> Status] /\ access \in [Frontends -> Status]
  BY DEF Commit, StandInv, TypeInv, TypeOK
<1>3. CASE p.op \in Creating
  <2>1. /\ Added(r) = {p.object} /\ Dropped(r) = {}
        /\ \A s, f : ~GivesUpShare(p, s) /\ ~GivesUpAccess(p, f)
    BY <1>3 DEF Added, Dropped, GivesUpShare, GivesUpAccess, Creating
  <2>2. /\ share' = [s \in Shares |-> IF s = p.object THEN "live" ELSE share[s]]
        /\ access' = [f \in Frontends |-> IF f = p.object THEN "live" ELSE access[f]]
    BY <1>2, <2>1 DEF Written, Becomes
  <2>3. (p.object \in Shares => p.op = "share") /\ (p.object \in Frontends => p.op = "access")
    BY <1>1, <1>3 DEF Legal, NoRequest, Creating
  <2> QED
    BY <2>1, <2>2, <2>3
<1>4. CASE p.op \notin Creating
  <2>1. Added(r) = {} /\ Dropped(r) = p.doomed \cup {p.object}
    BY <1>4 DEF Added, Dropped
  <2>2. /\ share' = [s \in Shares |->
                       IF s \in p.doomed \cup {p.object} THEN "deleted" ELSE share[s]]
        /\ access' = [f \in Frontends |->
                        IF f \in p.doomed \cup {p.object} THEN "deleted" ELSE access[f]]
    BY <1>2, <2>1 DEF Written, Becomes
  <2>3. /\ \A s \in Shares \cap (p.doomed \cup {p.object}) : share[s] # "none"
        /\ \A f \in Frontends \cap (p.doomed \cup {p.object}) : access[f] # "none"
    BY <1>1, <1>4 DEF Legal, Known, NoRequest, Creating
  <2>4. /\ \A s \in Shares : GivesUpShare(p, s) => s \in p.doomed \cup {p.object}
        /\ \A f \in Frontends : GivesUpAccess(p, f) => f \in p.doomed \cup {p.object}
    BY <1>1 DEF GivesUpShare, GivesUpAccess
  <2> QED
    BY <2>2, <2>3, <2>4
<1> QED
  BY <1>3, <1>4

LEMMA CommitStands ==
  ASSUME StandInv, NEW r \in Requests, Commit(r)
  PROVE  OneCreates' /\ SharesFirst' /\ RowsStand' /\ \A x \in Requests : Known(req[x])'
<1> USE ControllerAssumption
<1>1. PICK p : p = req[r]
  OBVIOUS
<1>2. /\ req'[r] = NoRequest /\ ziti' = ziti
      /\ \A x \in Requests : x # r => req'[x] = req[x]
      /\ p.step = "changed" /\ Legal(p) /\ Known(p)
  BY <1>1 DEF Commit, Ends, StandInv, TypeInv, TypeOK, AllLegal
<1>3. OneCreates'
  <2>1. \A x \in Requests \ {r} : Apart(NoRequest, req[x]) /\ Apart(req[x], NoRequest)
    BY KeptApart
  <2>2. \A x, y \in Requests : x # y => Apart(req[x], req[y])
    BY DEF StandInv, OneCreates
  <2>3. ASSUME NEW x \in Requests, NEW y \in Requests, x # y PROVE Apart(req'[x], req'[y])
    BY <1>2, <2>1, <2>2, <2>3
  <2> QED
    BY <2>3 DEF OneCreates, Apart
<1>4. SharesFirst'
  BY <1>1, <1>2, CommitRows DEF SharesFirst, StandInv, Known
<1>5. ASSUME NEW s \in Shares, share'[s] = "live", ShareGoes(s)
      PROVE  ShareGoes(s)'
  BY <1>1, <1>2, <1>5, CommitRows DEF ShareGoes
<1>6. ASSUME NEW f \in Frontends, access'[f] = "live", AccessGoes(f)
      PROVE  AccessGoes(f)'
  BY <1>1, <1>2, <1>6, CommitRows DEF AccessGoes
<1>7. ASSUME NEW f \in Frontends, GrantStands(f), share[FeShare[f]] # "none"
      PROVE  GrantStands(f)'
  <2> SUFFICES ASSUME share'[FeShare[f]] = "live"
               PROVE  <<"grant", f>> \in ziti \/ ShareGoes(FeShare[f])'
    BY <1>2 DEF GrantStands
  <2>1. share[FeShare[f]] = "live"
    BY <1>1, <1>2, <1>7, CommitRows DEF Known
  <2> QED
    BY <1>5, <1>7, <2>1 DEF GrantStands
<1>8. RowsStand'
  <2>1. ASSUME NEW s \in Shares, share'[s] = "live" PROVE ShareStands(s)'
    <3>1. CASE share[s] = "live"
      BY <1>2, <1>5, <2>1, <3>1 DEF StandInv, RowsStand, ShareStands, Resources, Recipe
    <3>2. CASE share[s] # "live"
      <4>1. p.op = "share" /\ p.object = s
        BY <1>1, <2>1, <3>2, CommitRows
      <4>2. Resources("share", s) \subseteq ziti'
        BY <1>2, <4>1 DEF Known
      <4> QED
        BY <4>2 DEF ShareStands, Resources, Recipe
    <3> QED
      BY <3>1, <3>2
  <2>2. ASSUME NEW f \in Frontends, access'[f] = "live" PROVE AccessStands(f)'
    <3>1. CASE access[f] = "live"
      BY <1>6, <1>7, <2>2, <3>1 DEF StandInv, RowsStand, SharesFirst, AccessStands
    <3>2. CASE access[f] # "live"
      <4>1. p.op = "access" /\ p.object = f
        BY <1>1, <2>2, <3>2, CommitRows
      <4> QED
        BY <1>2, <1>7, <4>1 DEF Known, AccessStands
    <3> QED
      BY <3>1, <3>2
  <2> QED
    BY <2>1, <2>2 DEF RowsStand
<1>9. ASSUME NEW x \in Requests PROVE Known(req[x])'
  <2>1. CASE x = r
    BY <1>2, <2>1, NothingGivenUp DEF Known
  <2>2. CASE x # r
    <3>1. PICK c : c = req[x]
      OBVIOUS
    <3>2. Known(c) /\ Legal(c) /\ req'[x] = c /\ Apart(c, p)
      BY <1>1, <1>2, <2>2, <3>1 DEF StandInv, TypeInv, AllLegal, OneCreates
    <3>3. c.op = "share" => /\ share'[c.object] = "none"
                            /\ c.step = "changed" => Resources("share", c.object) \subseteq ziti'
      BY <1>1, <1>2, <3>2, CommitRows DEF Known, Legal, NoRequest, Apart
    <3>4. c.op = "access" => /\ access'[c.object] = "none" /\ share'[FeShare[c.object]] # "none"
                             /\ c.step = "changed" => GrantStands(c.object)'
      BY <1>1, <1>7, <3>2, CommitRows DEF Known, Legal, NoRequest, Apart
    <3>5. c.op \in {"unshare", "unaccess", "disable"} => Known(c)'
      BY <1>1, <3>2, CommitRows DEF Known, Legal, NoRequest
    <3>6. Known(c)'
      BY <3>2, <3>3, <3>4, <3>5 DEF Known, GrantStands, Resources, Recipe
    <3> QED
      BY <3>2, <3>6 DEF Known
  <2> QED
    BY <2>1, <2>2
<1> QED
  BY <1>3, <1>4, <1>8, <1>9

\* Only another live share of the name makes a commit fail.
LEMMA CommitDoesNotFail ==
  ASSUME Faults = {}, OwnNames, StandInv, NEW r \in Requests
  PROVE  ~CommitFails(r)
<1> SUFFICES ASSUME CommitFails(r) PROVE FALSE
  OBVIOUS
<1>1. PICK p : p = req[r]
  OBVIOUS
<1>2. p.op = "share" /\ Legal(p) /\ Known(p) /\ \E s \in ByToken(Token[p.object]) : share[s] = "live"
  BY <1>1 DEF CommitFails, Unambiguous, StandInv, TypeInv, AllLegal
<1>3. p.object \in Shares /\ share[p.object] = "none"
  BY <1>2 DEF Legal, NoRequest, Known
<1> QED
  BY <1>2, <1>3 DEF ByToken, OwnNames

LEMMA NextStands ==
  ASSUME Faults = {}, OwnNames
  PROVE  StandInv /\ [Next]_vars => StandInv'
<1> SUFFICES ASSUME StandInv, [Next]_vars PROVE StandInv'
  OBVIOUS
<1>1. TypeInv'
  BY NextTypes DEF StandInv
<1>2. CASE \E r \in Requests : Begin(r)
  BY <1>1, <1>2, BeginStands DEF StandInv
<1>3. CASE \E r \in Requests : Handle(r)
  <2>1. PICK r \in Requests : Handle(r)
    BY <1>3
  <2> QED
    BY <1>1, <2>1, CreatingStands, DeallocateStands, RevokeStands, RemoveSharesStands,
       RemoveFrontendsStands, RemoveEnvironmentStands, RemoveIdentityStands, CommitStands,
       CommitDoesNotFail
    DEF Handle, StandInv
<1>4. CASE UNCHANGED vars
  <2>1. /\ UNCHANGED rows /\ ziti' = ziti /\ req' = req
    BY <1>4 DEF vars
  <2>2. OneCreates' /\ SharesFirst' /\ RowsStand'
    BY <2>1 DEF StandInv, OneCreates, SharesFirst, RowsStand, ShareStands, AccessStands,
                GrantStands, ShareGoes, AccessGoes, Resources, Recipe, rows
  <2>3. ASSUME NEW x \in Requests PROVE Known(req[x])'
    BY <2>1 DEF StandInv, Known, GrantStands, ShareGoes, Resources, Recipe, rows
  <2> QED
    BY <1>1, <2>2, <2>3 DEF StandInv
<1>5. ~Crash
  BY DEF Crash
<1> QED
  BY <1>2, <1>3, <1>4, <1>5 DEF Next

\* On either store, with any number of transactions under way and any order of
\* their steps, a live share has all it needs once they have ended, and so has
\* each live access to it, if no name is used twice (unshare and disable delete
\* by the name: unshare.go:123-139, disable.go:87-122) and nothing fails.
THEOREM BackedWithOwnNames == ASSUME Faults = {}, OwnNames PROVE Spec => []Backed
<1>1. StandInv => Backed
  BY NothingGivenUp DEF StandInv, RowsStand, ShareStands, AccessStands, GrantStands,
                        ShareGoes, AccessGoes, Backed, Quiet
<1> QED
  BY <1>1, InitStands, NextStands, PTL DEF Spec
=============================================================================
