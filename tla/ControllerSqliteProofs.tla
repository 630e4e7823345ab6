----------------------- MODULE ControllerSqliteProofs ------------------------
(***************************************************************************)
(* What holds of Controller on sqlite, where one transaction is open at a  *)
(* time, for all accounts, environments, shares and accesses: nothing      *)
(* lives in an environment that does not, whatever fails; and, as long as  *)
(* nothing fails, the rows and OpenZiti agree.                             *)
(***************************************************************************)
EXTENDS ControllerProofs

(***************************************************************************)
(* The invariant of the rows.                                              *)
(***************************************************************************)

\* One request at most is under way.
Solitary == \A r, q \in Requests : r # q => req[r] = NoRequest \/ req[q] = NoRequest

\* What the handler of q has looked up is still so.
Placed(q) ==
  /\ q.op = "share" => /\ share[q.object] = "none" /\ env[ShareEnv[q.object]] = "live"
                       /\ q.step # "waiting" =>
                            \A s \in ByToken(Token[q.object]) : share[s] # "live"
  /\ q.op = "access" => env[FeEnv[q.object]] = "live" /\ share[FeShare[q.object]] = "live"
  /\ q.op = "unshare" => share[q.object] = "live" /\ q.doomed = {}
  /\ q.op = "unaccess" => access[q.object] = "live" /\ q.doomed = {}
  /\ q.op = "disable" =>
       /\ env[q.object] = "live"
       /\ q.step = "shares" => q.doomed = SharesIn(q.object)
       /\ q.step \in {"edge", "changed"} =>
            q.doomed = SharesIn(q.object) \cup AccessesIn(q.object)

\* Of two live shares each has its own token, and an access was made to a share
\* that was there.
OneLiveForToken ==
  \A s, t \in Shares : share[s] = "live" /\ share[t] = "live" /\ Token[s] = Token[t] => s = t

AccessedOnce == \A f \in Frontends : access[f] # "none" => share[FeShare[f]] # "none"

RowsInv == LiveInLiveEnvironment /\ OneLiveForToken /\ AccessedOnce

PlaceInv ==
  /\ TypeInv /\ Solitary /\ RowsInv
  /\ \A r \in Requests : Placed(req[r])
-----------------------------------------------------------------------------
LEMMA NoRequestPlaced == Placed(NoRequest) /\ Placed(NoRequest)'
BY DEF Placed, NoRequest

LEMMA InitPlaced == Init => PlaceInv
<1> SUFFICES ASSUME Init PROVE PlaceInv
  OBVIOUS
<1>1. TypeInv
  BY InitTypes
<1>2. RowsInv
  BY ControllerAssumption DEF Init, RowsInv, LiveInLiveEnvironment, OneLiveForToken, AccessedOnce
<1>3. Solitary /\ \A r \in Requests : Placed(req[r])
  BY NoRequestPlaced DEF Init, Solitary
<1> QED
  BY <1>1, <1>2, <1>3 DEF PlaceInv

\* A step of the one request that leaves the rows alone.
LEMMA StepPlaced ==
  ASSUME PlaceInv, NEW r \in Requests, NEW q, req' = [req EXCEPT ![r] = q],
         req[r] # NoRequest \/ Quiet, UNCHANGED rows, Placed(q)
  PROVE  Solitary' /\ RowsInv' /\ \A x \in Requests : Placed(req[x])'
<1>1. \A x \in Requests : x # r => req[x] = NoRequest /\ req'[x] = NoRequest
  BY DEF PlaceInv, Solitary, Quiet, TypeInv, TypeOK
<1>2. req'[r] = q
  BY DEF PlaceInv, TypeInv, TypeOK
<1>3. Placed(q)'
  BY DEF Placed, rows, SharesIn, AccessesIn
<1>4. ASSUME NEW x \in Requests PROVE Placed(req[x])'
  <2>1. CASE x = r
    BY <1>2, <1>3, <2>1 DEF Placed
  <2>2. CASE x # r
    BY <1>1, <2>2, NoRequestPlaced DEF Placed
  <2> QED
    BY <2>1, <2>2
<1>5. RowsInv'
  BY DEF PlaceInv, RowsInv, LiveInLiveEnvironment, OneLiveForToken, AccessedOnce, rows
<1> QED
  BY <1>1, <1>4, <1>5 DEF Solitary

LEMMA BeginPlaced ==
  ASSUME Serial, PlaceInv, NEW r \in Requests, Begin(r)
  PROVE  Solitary' /\ RowsInv' /\ \A x \in Requests : Placed(req[x])'
<1>1. ASSUME NEW op, NEW o, NEW step, NEW doomed, Begins(r, op, o, step, doomed),
             Placed([op |-> op, object |-> o, step |-> step, lock |-> None, doomed |-> doomed])
      PROVE  Solitary' /\ RowsInv' /\ \A x \in Requests : Placed(req[x])'
  BY <1>1, StepPlaced DEF Begins, CanBegin, Quiet
<1>2. CASE \E e \in Envs : EnableBegins(r, e)
  BY <1>1, <1>2 DEF EnableBegins, Placed
<1>3. CASE \E e \in Envs : DisableBegins(r, e)
  BY <1>1, <1>3 DEF DisableBegins, Placed
<1>4. CASE \E s \in Shares : ShareBegins(r, s)
  BY <1>1, <1>4 DEF ShareBegins, Placed
<1>5. CASE \E s \in Shares : UnshareBegins(r, s)
  BY <1>1, <1>5 DEF UnshareBegins, Placed
<1>6. CASE \E f \in Frontends : AccessBegins(r, f)
  BY <1>1, <1>6 DEF AccessBegins, Placed
<1>7. CASE \E f \in Frontends : UnaccessBegins(r, f)
  BY <1>1, <1>7 DEF UnaccessBegins, Placed
<1> QED
  BY <1>2, <1>3, <1>4, <1>5, <1>6, <1>7 DEF Begin

\* What a request is at each step.
LEMMA HandledRequest ==
  ASSUME PlaceInv, NEW r \in Requests, Handle(r)
  PROVE  /\ req[r] # NoRequest /\ req[r] \in Request /\ Legal(req[r]) /\ Placed(req[r])
         /\ req[r].op \in Creating \cup {"unshare", "unaccess", "disable"}
<1>1. req[r] \in Request /\ Legal(req[r]) /\ Placed(req[r])
  BY DEF PlaceInv, TypeInv, TypeOK, AllLegal
<1>2. req[r] # NoRequest
  BY DEF Handle, Admit, Refuse, Allocate, AllocateFails, Deallocate, Revoke, RemoveShares,
         RemoveFrontends, RemoveEnvironment, RemoveIdentity, Commit, CommitFails, NoRequest
<1> QED
  BY <1>1, <1>2 DEF Legal, Creating

LEMMA CommitPlaced ==
  ASSUME PlaceInv, NEW r \in Requests, Commit(r)
  PROVE  Solitary' /\ RowsInv' /\ \A x \in Requests : Placed(req[x])'
<1> DEFINE o == req[r].object
<1>1. /\ req[r] # NoRequest /\ req[r] \in Request /\ Legal(req[r]) /\ Placed(req[r])
      /\ req[r].op \in Creating \cup {"unshare", "unaccess", "disable"} /\ req[r].step = "changed"
  BY HandledRequest DEF Handle, Commit
<1>2. \A x \in Requests : req'[x] = NoRequest
  BY <1>1 DEF Commit, Ends, PlaceInv, Solitary, TypeInv, TypeOK
<1>3. /\ env' = Written(env, r) /\ share' = Written(share, r) /\ access' = Written(access, r)
      /\ env \in [Envs -> Status] /\ share \in [Shares -> Status] /\ access \in [Frontends -> Status]
      /\ RowsInv
  BY DEF Commit, PlaceInv, TypeInv, TypeOK
<1>4. RowsInv'
  <2> USE ControllerAssumption
  <2>1. CASE req[r].op = "enable"
    <3>1. /\ o \in Envs /\ Added(r) = {o} /\ Dropped(r) = {}
      BY <1>1, <2>1 DEF Legal, NoRequest, Added, Dropped, Creating
    <3>2. /\ env' = [e \in Envs |-> IF e = o THEN "live" ELSE env[e]]
          /\ share' = share /\ access' = access
      BY <1>3, <3>1 DEF Written, Becomes
    <3> QED
      BY <1>3, <3>2 DEF RowsInv, LiveInLiveEnvironment, OneLiveForToken, AccessedOnce
  <2>2. CASE req[r].op = "share"
    <3>1. /\ o \in Shares /\ Added(r) = {o} /\ Dropped(r) = {}
      BY <1>1, <2>2 DEF Legal, NoRequest, Added, Dropped, Creating
    <3>2. /\ share' = [s \in Shares |-> IF s = o THEN "live" ELSE share[s]]
          /\ env' = env /\ access' = access
      BY <1>3, <3>1 DEF Written, Becomes
    <3>3. /\ env[ShareEnv[o]] = "live"
          /\ \A s \in ByToken(Token[o]) : share[s] # "live"
      BY <1>1, <2>2 DEF Placed
    <3> QED
      BY <1>3, <3>1, <3>2, <3>3
      DEF RowsInv, LiveInLiveEnvironment, OneLiveForToken, AccessedOnce, ByToken
  <2>3. CASE req[r].op = "access"
    <3>1. /\ o \in Frontends /\ Added(r) = {o} /\ Dropped(r) = {}
      BY <1>1, <2>3 DEF Legal, NoRequest, Added, Dropped, Creating
    <3>2. /\ access' = [f \in Frontends |-> IF f = o THEN "live" ELSE access[f]]
          /\ env' = env /\ share' = share
      BY <1>3, <3>1 DEF Written, Becomes
    <3>3. env[FeEnv[o]] = "live" /\ share[FeShare[o]] = "live"
      BY <1>1, <2>3 DEF Placed
    <3> QED
      BY <1>3, <3>1, <3>2, <3>3 DEF RowsInv, LiveInLiveEnvironment, OneLiveForToken, AccessedOnce
  <2>4. CASE req[r].op \in {"unshare", "unaccess"}
    <3>1. /\ o \in Shares \cup Frontends /\ Added(r) = {} /\ Dropped(r) = {o}
      BY <1>1, <2>4 DEF Legal, NoRequest, Added, Dropped, Creating, Placed
    <3>2. /\ env' = env
          /\ share' = [s \in Shares |-> IF s = o THEN "deleted" ELSE share[s]]
          /\ access' = [f \in Frontends |-> IF f = o THEN "deleted" ELSE access[f]]
      BY <1>3, <3>1 DEF Written, Becomes
    <3>3. o \in Frontends => access[o] # "none"
      BY <1>1, <2>4 DEF Placed, Legal, NoRequest
    <3> QED
      BY <1>3, <3>1, <3>2, <3>3 DEF RowsInv, LiveInLiveEnvironment, OneLiveForToken, AccessedOnce
  <2>5. CASE req[r].op = "disable"
    <3> DEFINE doomed == SharesIn(o) \cup AccessesIn(o)
    <3>1. /\ o \in Envs /\ Added(r) = {} /\ Dropped(r) = doomed \cup {o}
      BY <1>1, <2>5 DEF Legal, NoRequest, Added, Dropped, Creating, Placed
    <3>2. /\ env' = [e \in Envs |-> IF e = o THEN "deleted" ELSE env[e]]
          /\ share' = [s \in Shares |-> IF s \in SharesIn(o) THEN "deleted" ELSE share[s]]
          /\ access' = [f \in Frontends |-> IF f \in AccessesIn(o) THEN "deleted" ELSE access[f]]
      BY <1>3, <3>1 DEF Written, Becomes, SharesIn, AccessesIn
    <3> QED
      BY <1>3, <3>1, <3>2
      DEF RowsInv, LiveInLiveEnvironment, OneLiveForToken, AccessedOnce, SharesIn, AccessesIn
  <2> QED
    BY <1>1, <2>1, <2>2, <2>3, <2>4, <2>5 DEF Creating
<1> QED
  BY <1>2, <1>4, NoRequestPlaced DEF Solitary, Placed

\* A request whose step is none of the above.
LEMMA HandlePlaced ==
  ASSUME Serial, PlaceInv, NEW r \in Requests, Handle(r)
  PROVE  Solitary' /\ RowsInv' /\ \A x \in Requests : Placed(req[x])'
<1>1. /\ req[r] # NoRequest /\ req[r] \in Request /\ Legal(req[r]) /\ Placed(req[r])
  BY HandledRequest
<1>2. ASSUME Ends(r), UNCHANGED rows
      PROVE  Solitary' /\ RowsInv' /\ \A x \in Requests : Placed(req[x])'
  BY <1>1, <1>2, StepPlaced, NoRequestPlaced DEF Ends
<1>3. CASE Refuse(r) \/ AllocateFails(r) \/ CommitFails(r)
  BY <1>2, <1>3 DEF Refuse, AllocateFails, CommitFails, rows
<1>4. CASE Admit(r)
  <2> DEFINE q == [req[r] EXCEPT !.step = "admitted",
                                 !.lock = LockTaken(req[r].op, req[r].object)]
  <2>1. req' = [req EXCEPT ![r] = q] /\ UNCHANGED rows
    BY <1>4 DEF Admit
  <2>2. /\ q.op = req[r].op /\ q.object = req[r].object /\ q.step = "admitted"
        /\ q.doomed = req[r].doomed
    BY <1>1 DEF Request
  <2>3. req[r].op = "share" => \A s \in ByToken(Token[req[r].object]) : share[s] # "live"
    <3> SUFFICES ASSUME req[r].op = "share", NEW s \in ByToken(Token[req[r].object])
                 PROVE  share[s] # "live"
      OBVIOUS
    <3>1. req[r].object \in Shares /\ share[req[r].object] = "none"
      BY <1>1 DEF Placed, Legal, NoRequest
    <3>2. CASE req[r].object \in Unique
      BY <1>4, <3>2 DEF Admit, Allowed
    <3>3. CASE req[r].object \notin Unique
      BY <3>1, <3>3, ControllerAssumption DEF ByToken
    <3> QED
      BY <3>2, <3>3
  <2>4. Placed(q)
    BY <1>1, <1>4, <2>2, <2>3 DEF Placed, Admit, Legal, NoRequest
  <2> HIDE DEF q
  <2> QED
    BY <1>1, <2>1, <2>4, StepPlaced
<1>5. ASSUME NEW step, Goes(r, step), UNCHANGED rows, Placed([req[r] EXCEPT !.step = step])
      PROVE  Solitary' /\ RowsInv' /\ \A x \in Requests : Placed(req[x])'
  <2>1. req' = [req EXCEPT ![r] = [req[r] EXCEPT !.step = step]]
    BY <1>5 DEF Goes
  <2> QED
    BY <1>1, <1>5, <2>1, StepPlaced
<1>6. CASE Allocate(r)
  <2>1. Placed([req[r] EXCEPT !.step = "changed"])
    BY <1>1, <1>6 DEF Allocate, Placed, Request, Creating
  <2> QED
    BY <1>5, <1>6, <2>1 DEF Allocate
<1>7. CASE Deallocate(r)
  <2>1. Placed([req[r] EXCEPT !.step = "changed"])
    BY <1>1, <1>7 DEF Deallocate, Placed, Request
  <2> QED
    BY <1>5, <1>7, <2>1 DEF Deallocate
<1>8. CASE Revoke(r)
  <2>1. Placed([req[r] EXCEPT !.step = "changed"])
    BY <1>1, <1>8 DEF Revoke, Placed, Request
  <2> QED
    BY <1>2, <1>5, <1>8, <2>1 DEF Revoke
<1>9. CASE RemoveShares(r)
  <2> DEFINE q == [req[r] EXCEPT !.step = "frontends", !.doomed = {}]
  <2>1. req' = [req EXCEPT ![r] = q] /\ UNCHANGED rows
    BY <1>9 DEF RemoveShares
  <2>2. Placed(q)
    BY <1>1, <1>9 DEF Placed, RemoveShares, Request, Legal, NoRequest
  <2> HIDE DEF q
  <2> QED
    BY <1>1, <2>1, <2>2, StepPlaced
<1>10. CASE RemoveFrontends(r)
  <2>1. Placed([req[r] EXCEPT !.step = "rows"])
    BY <1>1, <1>10 DEF RemoveFrontends, Placed, Request, Legal, NoRequest
  <2> QED
    BY <1>5, <1>10, <2>1 DEF RemoveFrontends
<1>11. CASE RemoveEnvironment(r)
  <2> DEFINE q == [req[r] EXCEPT !.step = "edge",
                     !.doomed = SharesIn(req[r].object) \cup AccessesIn(req[r].object)]
  <2>1. req' = [req EXCEPT ![r] = q] /\ UNCHANGED rows
    BY <1>11 DEF RemoveEnvironment
  <2>2. Placed(q)
    BY <1>1, <1>11 DEF Placed, RemoveEnvironment, Request, Legal, NoRequest
  <2> HIDE DEF q
  <2> QED
    BY <1>1, <2>1, <2>2, StepPlaced
<1>12. CASE RemoveIdentity(r)
  <2>1. Placed([req[r] EXCEPT !.step = "changed"])
    BY <1>1, <1>12 DEF RemoveIdentity, Placed, Request, Legal, NoRequest
  <2> QED
    BY <1>2, <1>5, <1>12, <2>1 DEF RemoveIdentity
<1> QED
  BY <1>3, <1>4, <1>6, <1>7, <1>8, <1>9, <1>10, <1>11, <1>12, CommitPlaced DEF Handle

LEMMA NextPlaced == ASSUME Serial PROVE PlaceInv /\ [Next]_vars => PlaceInv'
<1> SUFFICES ASSUME PlaceInv, [Next]_vars PROVE PlaceInv'
  OBVIOUS
<1>1. TypeInv'
  BY NextTypes DEF PlaceInv
<1>2. CASE \E r \in Requests : Begin(r) \/ Handle(r)
  BY <1>1, <1>2, BeginPlaced, HandlePlaced DEF PlaceInv
<1>3. CASE Crash
  <2>1. \A r \in Requests : req'[r] = NoRequest
    BY <1>3 DEF Crash
  <2>2. RowsInv'
    BY <1>3 DEF Crash, rows, PlaceInv, RowsInv, LiveInLiveEnvironment, OneLiveForToken, AccessedOnce
  <2> QED
    BY <1>1, <2>1, <2>2, NoRequestPlaced DEF PlaceInv, Solitary, Placed
<1>4. CASE UNCHANGED vars
  BY <1>1, <1>4 DEF vars, rows, PlaceInv, Solitary, Placed, RowsInv, LiveInLiveEnvironment,
                    OneLiveForToken, AccessedOnce, SharesIn, AccessesIn
<1> QED
  BY <1>2, <1>3, <1>4 DEF Next

LEMMA AlwaysPlaced == ASSUME Serial PROVE Spec => []PlaceInv
BY InitPlaced, NextPlaced, PTL DEF Spec

\* On sqlite nothing is live in an environment that is not: disable takes along
\* what it finds when it marks rows, and nothing can be added between that and
\* its commit (disable.go:140-163), whatever fails and whenever the controller dies.
THEOREM NothingOutlivesItsEnvironment == ASSUME Serial PROVE Spec => []LiveInLiveEnvironment
<1>1. PlaceInv => LiveInLiveEnvironment
  BY DEF PlaceInv, RowsInv
<1> QED
  BY <1>1, AlwaysPlaced, PTL
-----------------------------------------------------------------------------
(***************************************************************************)
(* Rows and OpenZiti, when nothing fails.                                  *)
(***************************************************************************)

\* The objects whose resources the request q has removed, and the one whose
\* resources it has created.
Gone(q) ==
  CASE q.op \in {"unshare", "unaccess"} /\ q.step = "changed" -> {q.object}
    [] q.op = "disable" /\ q.step = "frontends" -> SharesIn(q.object)
    [] q.op = "disable" /\ q.step \in {"rows", "edge"} ->
         SharesIn(q.object) \cup AccessesIn(q.object)
    [] q.op = "disable" /\ q.step = "changed" ->
         SharesIn(q.object) \cup AccessesIn(q.object) \cup {q.object}
    [] OTHER -> {}

Born(q) == IF q.op \in Creating /\ q.step = "changed" THEN {q.object} ELSE {}

\* An object has resources of its own kinds only.
Fitting(x) ==
  /\ x[2] \in Envs => x[1] \in {"identity", "router"}
  /\ x[2] \in Shares => x[1] \in {"config", "service", "bind", "dial", "serp"}
  /\ x[2] \in Frontends => x[1] = "grant"

\* What OpenZiti may hold: the resources of a row that is live and that q does not
\* give up, or that q makes live.  A grant may outlive its access, when that is given
\* up with the token of another share, but never the share.
Held(q, x) ==
  /\ Fitting(x)
  /\ \/ (Live(x[2]) \/ x[2] \in Born(q)) /\ x[2] \notin Gone(q)
     \/ x[1] = "grant" /\ x[2] \in Misnamed
  /\ x[1] = "grant" => share[FeShare[x[2]]] = "live" /\ FeShare[x[2]] \notin Gone(q)

\* While q is under way OpenZiti holds what it holds for live rows, with what q
\* has created and without what it has removed.
Agree(q) ==
  /\ \A x \in ziti : Held(q, x)
  /\ \A s \in Shares : (share[s] = "live" /\ s \notin Gone(q)) \/ s \in Born(q) =>
       Resources("share", s) \subseteq ziti
  /\ \A f \in Frontends :
       \/ /\ access[f] = "live" /\ f \notin Gone(q)
          /\ share[FeShare[f]] = "live" /\ FeShare[f] \notin Gone(q)
       \/ f \in Born(q)
       => <<"grant", f>> \in ziti

AgreeInv ==
  /\ Quiet => Agree(NoRequest)
  /\ \A r \in Requests : req[r] # NoRequest => Agree(req[r])

LEMMA NothingGone == Gone(NoRequest) = {} /\ Born(NoRequest) = {}
BY DEF Gone, Born, NoRequest, Creating

\* One request steps, and what it becomes agrees with what OpenZiti then holds.
LEMMA StepAgrees ==
  ASSUME PlaceInv, NEW r \in Requests, NEW q, req' = [req EXCEPT ![r] = q],
         req[r] # NoRequest \/ Quiet, Agree(q)'
  PROVE  AgreeInv'
<1>1. \A x \in Requests : x # r => req'[x] = NoRequest
  BY DEF PlaceInv, Solitary, Quiet, TypeInv, TypeOK
<1>2. req'[r] = q
  BY DEF PlaceInv, TypeInv, TypeOK
<1>3. ASSUME NEW x \in Requests, req'[x] # NoRequest PROVE Agree(req[x])'
  <2>1. req'[x] = q
    BY <1>1, <1>2, <1>3
  <2>2. Gone(req[x])' = Gone(q)' /\ Born(req[x])' = Born(q)'
    BY <2>1 DEF Gone, Born, SharesIn, AccessesIn
  <2> QED
    BY <2>2 DEF Agree, Held
<1>4. Quiet' => Agree(NoRequest)'
  BY <1>2 DEF Quiet
<1> QED
  BY <1>3, <1>4 DEF AgreeInv

\* Nothing of OpenZiti changes, and of q only what Gone and Born do not look at.
LEMMA SameAgrees ==
  ASSUME NEW p, NEW q, Agree(p), Gone(q) = Gone(p), Born(q) = Born(p), UNCHANGED <<rows, ziti>>
  PROVE  Agree(q)'
<1>1. Gone(q)' = Gone(q) /\ Born(q)' = Born(q)
  BY DEF Gone, Born, SharesIn, AccessesIn, rows
<1>2. \A o : Live(o)' <=> Live(o)
  BY DEF Live, rows
<1> QED
  BY <1>1, <1>2 DEF Agree, Held, rows, Resources, Fitting

\* When the one request ends without a trace.
LEMMA EndAgrees ==
  ASSUME PlaceInv, NEW r \in Requests, Ends(r), UNCHANGED <<rows, ziti>>, Agree(req[r]),
         req[r] # NoRequest, Gone(req[r]) = {}, Born(req[r]) = {}
  PROVE  AgreeInv'
<1>1. Agree(NoRequest)'
  <2> DEFINE p == req[r]
  <2>1. Agree(p) /\ Gone(p) = {} /\ Born(p) = {}
    OBVIOUS
  <2> HIDE DEF p
  <2> QED
    BY <2>1, NothingGone, SameAgrees
<1> QED
  BY <1>1, StepAgrees DEF Ends

LEMMA BeginAgrees ==
  ASSUME Serial, PlaceInv, AgreeInv, NEW r \in Requests, Begin(r)
  PROVE  AgreeInv'
<1>1. ASSUME NEW op, NEW o, NEW step \in {"waiting", "admitted", "shares"}, NEW doomed,
             Begins(r, op, o, step, doomed)
      PROVE  AgreeInv'
  <2> DEFINE q == [op |-> op, object |-> o, step |-> step, lock |-> None, doomed |-> doomed]
  <2>1. Quiet /\ req' = [req EXCEPT ![r] = q] /\ UNCHANGED <<rows, ziti>>
    BY <1>1 DEF Begins, CanBegin, Quiet
  <2>2. Gone(q) = {} /\ Born(q) = {}
    BY DEF Gone, Born
  <2> HIDE DEF q
  <2>3. Agree(q)'
    BY <2>1, <2>2, NothingGone, SameAgrees DEF AgreeInv
  <2> QED
    BY <2>1, <2>3, StepAgrees
<1> QED
  BY <1>1 DEF Begin, EnableBegins, DisableBegins, ShareBegins, UnshareBegins, AccessBegins,
              UnaccessBegins
-----------------------------------------------------------------------------
(* What the steps create and delete in OpenZiti.                           *)

LEMMA ResourcesFit ==
  ASSUME NEW p, Legal(p), p.op \in Creating
  PROVE  \A x \in Resources(p.op, p.object) : x[2] = p.object /\ Fitting(x)
<1> USE ControllerAssumption
<1>1. CASE p.op = "enable"
  BY <1>1 DEF Resources, Recipe, Fitting, Legal, NoRequest
<1>2. CASE p.op = "share" /\ p.object \in Public
  BY <1>2 DEF Resources, Recipe, Fitting, Legal, NoRequest
<1>3. CASE p.op = "share" /\ p.object \notin Public
  BY <1>3 DEF Resources, Recipe, Fitting, Legal, NoRequest
<1>4. CASE p.op = "access"
  BY <1>4 DEF Resources, Recipe, Fitting, Legal, NoRequest
<1> QED
  BY <1>1, <1>2, <1>3, <1>4 DEF Creating

\* What is deleted for a live share is all of it and of no other live share.
LEMMA DeallocatedShare ==
  ASSUME RowsInv, NEW s \in Shares, share[s] = "live", NEW t \in Shares, share[t] = "live", s # t
  PROVE  /\ Resources("share", t) \cap Deallocated(s) = {}
         /\ \A f \in Frontends : FeShare[f] = t => <<"grant", f>> \notin Deallocated(s)
<1>1. Token[s] # Token[t]
  BY DEF RowsInv, OneLiveForToken
<1>2. /\ \A k : k # "grant" => <<k, t>> \notin Deallocated(s)
      /\ \A f \in Frontends : FeShare[f] = t => <<"grant", f>> \notin Deallocated(s)
  BY <1>1, ControllerAssumption DEF Deallocated, Tagged, ByToken
<1> QED
  BY <1>2, ShareResources

LEMMA DeallocatedWhole ==
  ASSUME NEW x \in Kinds \X Objects, Fitting(x), x[2] \in Shares
  PROVE  x \in Deallocated(x[2])
BY DEF Fitting, Deallocated, Tagged, ByToken

\* A grant is one of an access, and deleted with the share that is accessed.
LEMMA GrantOfAccess ==
  ASSUME NEW x \in Kinds \X Objects, Fitting(x), x[1] = "grant"
  PROVE  x[2] \in Frontends /\ x = <<"grant", x[2]>> /\ FeShare[x[2]] \in Shares
BY ControllerAssumption DEF Fitting, Objects

LEMMA DeallocatedGrants ==
  ASSUME NEW x \in Kinds \X Objects, Fitting(x), x[1] = "grant"
  PROVE  x \in Deallocated(FeShare[x[2]])
BY GrantOfAccess DEF Deallocated, Tagged, ByToken

\* A name that can be used clashes with nothing.
LEMMA NoClash ==
  ASSUME NEW p, Agree(p), Legal(p), Placed(p), p.op \in Creating, p.step = "admitted"
  PROVE  \A i \in DOMAIN Recipe(p.op, p.object) : ~Clashes(Recipe(p.op, p.object)[i], p.object)
<1>1. CASE p.op = "share"
  <2>1. \A s \in ByToken(Token[p.object]) : s \in Shares /\ share[s] # "live"
    BY <1>1 DEF Placed, ByToken
  <2>2. Born(p) = {}
    BY DEF Born
  <2>3. ASSUME NEW k, NEW s \in ByToken(Token[p.object]), <<k, s>> \in ziti PROVE FALSE
    BY <2>1, <2>2, <2>3, ControllerAssumption DEF Agree, Held, Live
  <2> QED
    BY <2>3 DEF Clashes
<1>2. CASE p.op # "share"
  BY <1>2 DEF Recipe, Clashes, Creating
<1> QED
  BY <1>1, <1>2
-----------------------------------------------------------------------------
(* The steps of a handler.                                                 *)

LEMMA AllocateAgrees ==
  ASSUME PlaceInv, NEW r \in Requests, NEW p, p = req[r], p # NoRequest, Legal(p), p \in Request,
         Placed(p), Agree(p), Allocate(r)
  PROVE  AgreeInv'
<1> DEFINE q == [p EXCEPT !.step = "changed"]
<1>1. /\ p.op \in Creating /\ p.step = "admitted" /\ UNCHANGED rows
      /\ ziti' = ziti \cup Resources(p.op, p.object) /\ req' = [req EXCEPT ![r] = q]
  BY DEF Allocate, Goes
<1>2. Gone(p) = {} /\ Born(p) = {} /\ Gone(q) = {} /\ Born(q) = {p.object}
  BY <1>1 DEF Gone, Born, Creating, Request
<1>3. Gone(q)' = {} /\ Born(q)' = {p.object}
  BY <1>1, <1>2 DEF Gone, Born, Creating, Request
<1> HIDE DEF q
<1>4. Agree(q)'
  <2>1. ASSUME NEW x \in ziti'
        PROVE  /\ Fitting(x)
               /\ Live(x[2]) \/ x[2] = p.object \/ (x[1] = "grant" /\ x[2] \in Misnamed)
               /\ x[1] = "grant" => share[FeShare[x[2]]] = "live"
    <3>1. CASE x \in ziti
      BY <1>2, <3>1 DEF Agree, Held
    <3>2. CASE x \in Resources(p.op, p.object)
      <4>1. Fitting(x) /\ x[2] = p.object
        BY <1>1, <3>2, ResourcesFit
      <4>2. x[1] = "grant" => p.op = "access"
        BY <1>1, <4>1, ControllerAssumption DEF Fitting, Legal, Creating, NoRequest
      <4> QED
        BY <4>1, <4>2 DEF Placed
    <3> QED
      BY <1>1, <3>1, <3>2
  <2>2. \A s \in Shares : share[s] = "live" \/ s = p.object => Resources("share", s) \subseteq ziti'
    BY <1>1, <1>2, ControllerAssumption DEF Agree, Legal, Creating, NoRequest
  <2>3. \A f \in Frontends :
          (access[f] = "live" /\ share[FeShare[f]] = "live") \/ f = p.object => <<"grant", f>> \in ziti'
    BY <1>1, <1>2, AccessResources, ControllerAssumption DEF Agree, Legal, Creating, NoRequest
  <2>4. \A o : Live(o)' <=> Live(o)
    BY <1>1 DEF Live, rows
  <2> QED
    BY <1>1, <1>3, <2>1, <2>2, <2>3, <2>4 DEF Agree, Held, rows, Resources, Fitting
<1> QED
  BY <1>1, <1>4, StepAgrees

\* A step that deletes all and makes q of p: what is gone after it has nothing
\* left, what is not has kept all it had.
Removes(p, q, all) ==
  /\ \A x \in ziti : x[2] \in Gone(q) => x \in all \/ (x[1] = "grant" /\ x[2] \in Misnamed)
  /\ \A x \in ziti : x[1] = "grant" /\ FeShare[x[2]] \in Gone(q) /\ FeShare[x[2]] \notin Gone(p)
       => x \in all
  /\ \A o : o \in Gone(p) => o \in Gone(q)
  /\ \A s \in Shares : share[s] = "live" /\ s \notin Gone(q) => Resources("share", s) \cap all = {}
  /\ \A f \in Frontends :
       access[f] = "live" /\ f \notin Gone(q) /\ share[FeShare[f]] = "live" /\ FeShare[f] \notin Gone(q)
         => <<"grant", f>> \notin all

LEMMA RemovalAgrees ==
  ASSUME PlaceInv, NEW r \in Requests, NEW p, p = req[r], p # NoRequest, Agree(p),
         NEW q, req' = [req EXCEPT ![r] = q], UNCHANGED rows,
         NEW all, ziti' = ziti \ all, Born(p) = {}, Born(q) = {}, Removes(p, q, all)
  PROVE  AgreeInv'
<1>1. Gone(q)' = Gone(q) /\ Born(q)' = {}
  BY DEF Gone, Born, SharesIn, AccessesIn, rows
<1>2. \A o : Live(o)' <=> Live(o)
  BY DEF Live, rows
<1>3. Agree(q)'
  <2>1. ASSUME NEW x \in ziti'
        PROVE  /\ Fitting(x)
               /\ (Live(x[2]) /\ x[2] \notin Gone(q)) \/ (x[1] = "grant" /\ x[2] \in Misnamed)
               /\ x[1] = "grant" => share[FeShare[x[2]]] = "live" /\ FeShare[x[2]] \notin Gone(q)
    <3>1. x \in ziti /\ x \notin all /\ Held(p, x)
      BY DEF Agree
    <3>2. x[2] \in Gone(q) => x[1] = "grant" /\ x[2] \in Misnamed
      BY <3>1 DEF Removes
    <3>3. x[1] = "grant" /\ FeShare[x[2]] \in Gone(q) => FeShare[x[2]] \in Gone(p)
      BY <3>1 DEF Removes
    <3>4. x[2] \in Gone(p) => x[2] \in Gone(q)
      BY DEF Removes
    <3> QED
      BY <3>1, <3>2, <3>3, <3>4 DEF Held
  <2>2. \A s \in Shares : share[s] = "live" /\ s \notin Gone(q) => Resources("share", s) \subseteq ziti'
    BY DEF Agree, Removes
  <2>3. \A f \in Frontends :
          access[f] = "live" /\ f \notin Gone(q) /\ share[FeShare[f]] = "live" /\ FeShare[f] \notin Gone(q)
             => <<"grant", f>> \in ziti'
    BY DEF Agree, Removes
  <2> QED
    BY <1>1, <1>2, <2>1, <2>2, <2>3 DEF Agree, Held, rows, Resources, Fitting
<1> QED
  BY <1>3, StepAgrees

LEMMA DeallocateAgrees ==
  ASSUME Faults = {}, PlaceInv, NEW r \in Requests, NEW p, p = req[r], p # NoRequest, Legal(p),
         p \in Request, Placed(p), Agree(p), Deallocate(r)
  PROVE  AgreeInv'
<1> DEFINE q == [p EXCEPT !.step = "changed"]
           o == p.object
           all == Deallocated(o)
<1>1. /\ p.op = "unshare" /\ p.step = "admitted" /\ UNCHANGED rows
      /\ ziti' = ziti \ all /\ req' = [req EXCEPT ![r] = q]
  BY DEF Deallocate, DeletesSome, Goes
<1>2. o \in Shares /\ share[o] = "live"
  BY <1>1 DEF Legal, NoRequest, Placed
<1>3. Gone(p) = {} /\ Born(p) = {} /\ Gone(q) = {o} /\ Born(q) = {}
  BY <1>1 DEF Gone, Born, Creating, Request
<1>4. /\ \A x \in ziti : x[2] \in Gone(q) => x \in all
      /\ \A x \in ziti : x[1] = "grant" /\ FeShare[x[2]] \in Gone(q) => x \in all
  BY <1>2, <1>3, DeallocatedWhole, DeallocatedGrants DEF Agree, Held, PlaceInv, TypeInv, TypeOK
<1>5. \A s \in Shares : share[s] = "live" /\ s \notin Gone(q) => Resources("share", s) \cap all = {}
  BY <1>2, <1>3, DeallocatedShare DEF PlaceInv
<1>6. \A f \in Frontends : share[FeShare[f]] = "live" /\ FeShare[f] \notin Gone(q) => <<"grant", f>> \notin all
  BY <1>2, <1>3, DeallocatedShare, ControllerAssumption DEF PlaceInv
<1>7. \A x : x \in Gone(p) => x \in Gone(q)
  BY <1>3
<1> HIDE DEF q, all
<1>8. Removes(p, q, all)
  BY <1>3, <1>4, <1>5, <1>6, <1>7 DEF Removes
<1> QED
  BY <1>1, <1>3, <1>8, RemovalAgrees

LEMMA RevokeAgrees ==
  ASSUME Faults = {}, PlaceInv, NEW r \in Requests, NEW p, p = req[r], p # NoRequest, Legal(p),
         p \in Request, Placed(p), Agree(p), Revoke(r)
  PROVE  AgreeInv'
<1> DEFINE q == [p EXCEPT !.step = "changed"]
           o == p.object
           all == Revoked(o)
<1>1. /\ p.op = "unaccess" /\ p.step = "admitted" /\ UNCHANGED rows
      /\ ziti' = ziti \ all /\ req' = [req EXCEPT ![r] = q]
  BY DEF Revoke, Goes
<1>2. o \in Frontends
  BY <1>1 DEF Legal, NoRequest
<1>3. Gone(p) = {} /\ Born(p) = {} /\ Gone(q) = {o} /\ Born(q) = {}
  BY <1>1 DEF Gone, Born, Creating, Request
<1>4. \A x \in ziti : x[2] \in Gone(q) => x \in all \/ (x[1] = "grant" /\ x[2] \in Misnamed)
  BY <1>2, <1>3 DEF Agree, Held, Fitting, Revoked, PlaceInv, TypeInv, TypeOK
<1>5. \A s \in Shares : Resources("share", s) \cap all = {}
  BY ShareResources DEF Revoked
<1>6. \A f \in Frontends : f \notin Gone(q) => <<"grant", f>> \notin all
  BY <1>3 DEF Revoked
<1>7. \A x : x \in Gone(p) => x \in Gone(q)
  BY <1>3
<1>8. \A x \in ziti : x[1] = "grant" => FeShare[x[2]] \notin Gone(q)
  BY <1>2, <1>3, GrantOfAccess, ControllerAssumption DEF Agree, Held, PlaceInv, TypeInv, TypeOK
<1> HIDE DEF q, o, all
<1>9. Removes(p, q, all)
  BY <1>3, <1>4, <1>5, <1>6, <1>7, <1>8 DEF Removes
<1> QED
  BY <1>1, <1>3, <1>9, RemovalAgrees

LEMMA RemoveSharesAgrees ==
  ASSUME Faults = {}, PlaceInv, NEW r \in Requests, NEW p, p = req[r], p # NoRequest, Legal(p),
         p \in Request, Placed(p), Agree(p), RemoveShares(r)
  PROVE  AgreeInv'
<1> DEFINE q == [p EXCEPT !.step = "frontends", !.doomed = {}]
           shares == SharesIn(p.object)
           all == UNION {Deallocated(s) : s \in shares}
<1>1. /\ p.op = "disable" /\ p.step = "shares" /\ p.doomed = shares /\ UNCHANGED rows
      /\ ziti' = ziti \ all /\ req' = [req EXCEPT ![r] = q]
  BY DEF RemoveShares, DeletesSome, Legal, NoRequest, Placed
<1>2. Gone(p) = {} /\ Born(p) = {} /\ Gone(q) = shares /\ Born(q) = {}
  BY <1>1 DEF Gone, Born, Creating, Request
<1>3. \A s \in shares : s \in Shares /\ share[s] = "live"
  BY DEF SharesIn
<1>4. /\ \A x \in ziti : x[2] \in Gone(q) => x \in all
      /\ \A x \in ziti : x[1] = "grant" /\ FeShare[x[2]] \in Gone(q) => x \in all
  BY <1>2, <1>3, DeallocatedWhole, DeallocatedGrants DEF Agree, Held, PlaceInv, TypeInv, TypeOK
<1>5. \A s \in Shares : share[s] = "live" /\ s \notin Gone(q) => Resources("share", s) \cap all = {}
  <2> SUFFICES ASSUME NEW s \in Shares, share[s] = "live", s \notin shares, NEW t \in shares
               PROVE  Resources("share", s) \cap Deallocated(t) = {}
    BY <1>2
  <2> QED
    BY <1>3, DeallocatedShare DEF PlaceInv
<1>6. \A f \in Frontends : share[FeShare[f]] = "live" /\ FeShare[f] \notin Gone(q) => <<"grant", f>> \notin all
  <2> SUFFICES ASSUME NEW f \in Frontends, share[FeShare[f]] = "live", FeShare[f] \notin shares,
                      NEW t \in shares
               PROVE  <<"grant", f>> \notin Deallocated(t)
    BY <1>2
  <2> QED
    BY <1>3, DeallocatedShare, ControllerAssumption DEF PlaceInv
<1>7. \A x : x \in Gone(p) => x \in Gone(q)
  BY <1>2
<1> HIDE DEF q, all
<1>8. Removes(p, q, all)
  BY <1>2, <1>4, <1>5, <1>6, <1>7 DEF Removes
<1> QED
  BY <1>1, <1>2, <1>8, RemovalAgrees

LEMMA RemoveFrontendsAgrees ==
  ASSUME Faults = {}, PlaceInv, NEW r \in Requests, NEW p, p = req[r], p # NoRequest, Legal(p),
         p \in Request, Placed(p), Agree(p), RemoveFrontends(r)
  PROVE  AgreeInv'
<1> DEFINE q == [p EXCEPT !.step = "rows"]
           shares == SharesIn(p.object)
           accesses == AccessesIn(p.object)
           all == {<<"grant", f>> : f \in accesses}
<1>1. /\ p.op = "disable" /\ p.step = "frontends" /\ UNCHANGED rows
      /\ ziti' = ziti \ all /\ req' = [req EXCEPT ![r] = q]
  BY DEF RemoveFrontends, DeletesSome, Goes, Legal, NoRequest, Placed
<1>2. Gone(p) = shares /\ Born(p) = {} /\ Gone(q) = shares \cup accesses /\ Born(q) = {}
  BY <1>1 DEF Gone, Born, Creating, Request
<1>3. \A f \in accesses : f \in Frontends
  BY DEF AccessesIn
<1>4. /\ \A x \in ziti : x[2] \in accesses => x \in all
      /\ \A x \in ziti : x[2] \in shares => x[1] = "grant" /\ x[2] \in Misnamed
  BY <1>2, <1>3 DEF Agree, Held, Fitting, PlaceInv, TypeInv, TypeOK
<1>5. \A s \in Shares : Resources("share", s) \cap all = {}
  BY ShareResources
<1>6. \A f \in Frontends : f \notin Gone(q) => <<"grant", f>> \notin all
  BY <1>2
<1>7. \A o : o \in Gone(p) => o \in Gone(q)
  BY <1>2
<1>8. \A x \in ziti : x[1] = "grant" /\ FeShare[x[2]] \in Gone(q) => FeShare[x[2]] \in Gone(p)
  BY <1>2, <1>3, GrantOfAccess, ControllerAssumption DEF Agree, Held, PlaceInv, TypeInv, TypeOK
<1>9. \A x \in ziti : x[2] \in Gone(q) => x \in all \/ (x[1] = "grant" /\ x[2] \in Misnamed)
  BY <1>2, <1>4
<1> HIDE DEF q, all
<1>10. Removes(p, q, all)
  BY <1>2, <1>5, <1>6, <1>7, <1>8, <1>9 DEF Removes
<1> QED
  BY <1>1, <1>2, <1>10, RemovalAgrees

LEMMA RemoveIdentityAgrees ==
  ASSUME Faults = {}, PlaceInv, NEW r \in Requests, NEW p, p = req[r], p # NoRequest, Legal(p),
         p \in Request, Placed(p), Agree(p), RemoveIdentity(r)
  PROVE  AgreeInv'
<1> DEFINE q == [p EXCEPT !.step = "changed"]
           o == p.object
           all == {<<"router", o>>, <<"identity", o>>}
<1>1. /\ p.op = "disable" /\ p.step = "edge" /\ o \in Envs /\ UNCHANGED rows
      /\ ziti' = ziti \ all /\ req' = [req EXCEPT ![r] = q]
  BY DEF RemoveIdentity, Goes, Legal, NoRequest
<1>2. /\ Gone(p) = SharesIn(o) \cup AccessesIn(o) /\ Born(p) = {}
      /\ Gone(q) = SharesIn(o) \cup AccessesIn(o) \cup {o} /\ Born(q) = {}
  BY <1>1 DEF Gone, Born, Creating, Request
<1>3. \A x \in ziti : x[2] \in Gone(q) => x \in all \/ (x[1] = "grant" /\ x[2] \in Misnamed)
  BY <1>1, <1>2 DEF Agree, Held, Fitting, PlaceInv, TypeInv, TypeOK
<1>4. \A s \in Shares : Resources("share", s) \cap all = {}
  BY ShareResources
<1>5. \A f \in Frontends : <<"grant", f>> \notin all
  OBVIOUS
<1>6. \A x : x \in Gone(p) => x \in Gone(q)
  BY <1>2
<1>7. \A x \in ziti : x[1] = "grant" /\ FeShare[x[2]] \in Gone(q) => FeShare[x[2]] \in Gone(p)
  BY <1>1, <1>2, GrantOfAccess, ControllerAssumption DEF Agree, Held, PlaceInv, TypeInv, TypeOK
<1> HIDE DEF q, all
<1>8. Removes(p, q, all)
  BY <1>2, <1>3, <1>4, <1>5, <1>6, <1>7 DEF Removes
<1> QED
  BY <1>1, <1>2, <1>8, RemovalAgrees

LEMMA CommitAgrees ==
  ASSUME PlaceInv, NEW r \in Requests, NEW p, p = req[r], p # NoRequest, Legal(p), p \in Request,
         Placed(p), Agree(p), Commit(r)
  PROVE  AgreeInv'
<1>1. /\ p.step = "changed" /\ p.op \in Creating \cup {"unshare", "unaccess", "disable"}
      /\ req' = [req EXCEPT ![r] = NoRequest] /\ ziti' = ziti
      /\ env' = Written(env, r) /\ share' = Written(share, r) /\ access' = Written(access, r)
  BY HandledRequest DEF Commit, Ends, Handle
<1>2. Added(r) = Born(p) /\ Dropped(r) = Gone(p)
  <2>1. CASE p.op \in Creating
    BY <1>1, <2>1 DEF Added, Dropped, Born, Gone, Creating
  <2>2. CASE p.op \in {"unshare", "unaccess"}
    BY <1>1, <2>2 DEF Added, Dropped, Born, Gone, Creating, Placed
  <2>3. CASE p.op = "disable"
    BY <1>1, <2>3 DEF Added, Dropped, Born, Gone, Creating, Placed
  <2> QED
    BY <1>1, <2>1, <2>2, <2>3
<1>3. /\ \A e \in Envs : env'[e] = "live" <=> (env[e] = "live" \/ e \in Born(p)) /\ e \notin Gone(p)
      /\ \A s \in Shares : share'[s] = "live" <=> (share[s] = "live" \/ s \in Born(p)) /\ s \notin Gone(p)
      /\ \A f \in Frontends :
           access'[f] = "live" <=> (access[f] = "live" \/ f \in Born(p)) /\ f \notin Gone(p)
  <2>1. /\ env' = [e \in Envs |-> IF e \in Gone(p) THEN "deleted"
                                  ELSE IF e \in Born(p) THEN "live" ELSE env[e]]
        /\ share' = [s \in Shares |-> IF s \in Gone(p) THEN "deleted"
                                      ELSE IF s \in Born(p) THEN "live" ELSE share[s]]
        /\ access' = [f \in Frontends |-> IF f \in Gone(p) THEN "deleted"
                                          ELSE IF f \in Born(p) THEN "live" ELSE access[f]]
    BY <1>1, <1>2 DEF Written, Becomes, PlaceInv, TypeInv, TypeOK
  <2> QED
    BY <2>1
<1>4. ASSUME NEW x \in ziti
      PROVE  /\ Fitting(x)
             /\ Live(x[2])' \/ (x[1] = "grant" /\ x[2] \in Misnamed)
             /\ x[1] = "grant" => share'[FeShare[x[2]]] = "live"
  <2>1. x \in Kinds \X Objects /\ x[2] \in Objects /\ Held(p, x)
    BY DEF PlaceInv, TypeInv, TypeOK, Agree
  <2>2. x[1] = "grant" => FeShare[x[2]] \in Shares
    BY <2>1, GrantOfAccess DEF Held
  <2> QED
    BY <1>3, <2>1, <2>2 DEF Held, Live, Objects
<1>5. \A s \in Shares : share'[s] = "live" => Resources("share", s) \subseteq ziti
  BY <1>3 DEF Agree
<1>6. ASSUME NEW f \in Frontends, access'[f] = "live", share'[FeShare[f]] = "live"
      PROVE  <<"grant", f>> \in ziti
  <2>1. FeShare[f] \in Shares
    BY ControllerAssumption
  <2>2. CASE f \in Born(p)
    BY <2>2 DEF Agree
  <2>3. CASE f \notin Born(p) /\ FeShare[f] \notin Born(p)
    BY <1>3, <1>6, <2>1, <2>3 DEF Agree
  <2>4. CASE f \notin Born(p) /\ FeShare[f] \in Born(p)
    <3>1. p.op = "share" /\ p.object = FeShare[f]
      BY <2>1, <2>4, ControllerAssumption DEF Born, Creating, Legal, NoRequest
    <3>2. share[FeShare[f]] = "none"
      BY <3>1 DEF Placed
    <3>3. access[f] = "live"
      BY <1>3, <1>6, <2>4
    <3> QED
      BY <3>2, <3>3 DEF PlaceInv, RowsInv, AccessedOnce
  <2> QED
    BY <2>2, <2>3, <2>4
<1>7. Agree(NoRequest)'
  <2>1. Gone(NoRequest)' = {} /\ Born(NoRequest)' = {}
    BY DEF Gone, Born, NoRequest, Creating
  <2> QED
    BY <1>1, <1>4, <1>5, <1>6, <2>1 DEF Agree, Held, Resources, Fitting
<1> QED
  BY <1>1, <1>7, StepAgrees

\* Without a fault nothing is in the way of a request that was admitted.
LEMMA NothingFails ==
  ASSUME Faults = {}, NEW r \in Requests, NEW p, p = req[r], Legal(p), Placed(p), Agree(p)
  PROVE  ~AllocateFails(r) /\ ~CommitFails(r)
<1>1. ASSUME AllocateFails(r) PROVE FALSE
  <2> DEFINE recipe == Recipe(p.op, p.object)
  <2>1. /\ p.op \in Creating /\ p.step = "admitted"
        /\ \E done \in 0 .. (Len(recipe) - 1) : Clashes(recipe[done + 1], p.object)
    BY <1>1 DEF AllocateFails
  <2>2. DOMAIN recipe = 1 .. Len(recipe) /\ Len(recipe) \in Nat
    <3>1. CASE p.op = "enable"
      BY <3>1 DEF Recipe
    <3>2. CASE p.op = "share" /\ p.object \in Public
      <4> DEFINE five == <<"config", "service", "bind", "dial", "serp">>
      <4>1. DOMAIN five = 1 .. 5 /\ Len(five) = 5
        OBVIOUS
      <4>2. recipe = five
        BY <3>2 DEF Recipe
      <4> HIDE DEF five, recipe
      <4>3. DOMAIN recipe = 1 .. 5 /\ Len(recipe) = 5
        BY <4>1, <4>2, Zenon
      <4> QED
        BY <4>3
    <3>3. CASE p.op = "share" /\ p.object \notin Public
      BY <3>3 DEF Recipe
    <3>4. CASE p.op = "access"
      BY <3>4 DEF Recipe
    <3> QED
      BY <2>1, <3>1, <3>2, <3>3, <3>4 DEF Creating
  <2>3. \A i \in DOMAIN recipe : ~Clashes(recipe[i], p.object)
    BY <2>1, NoClash
  <2> HIDE DEF recipe
  <2> QED
    BY <2>1, <2>2, <2>3
<1>2. ASSUME CommitFails(r) PROVE FALSE
  BY <1>2 DEF CommitFails, Unambiguous, Placed
<1> QED
  BY <1>1, <1>2

LEMMA HandleAgrees ==
  ASSUME Faults = {}, PlaceInv, AgreeInv, NEW r \in Requests, Handle(r)
  PROVE  AgreeInv'
<1>1. PICK p : p = req[r]
  OBVIOUS
<1>2. p # NoRequest /\ p \in Request /\ Legal(p) /\ Placed(p)
  BY <1>1, HandledRequest
<1>3. Agree(p)
  BY <1>1, <1>2 DEF AgreeInv
<1>4. CASE Admit(r)
  <2> DEFINE q == [p EXCEPT !.step = "admitted", !.lock = LockTaken(p.op, p.object)]
  <2>1. /\ p.step = "waiting" /\ req' = [req EXCEPT ![r] = q] /\ UNCHANGED <<rows, ziti>>
    BY <1>1, <1>4 DEF Admit
  <2>2. q.op = p.op /\ q.object = p.object /\ q.step = "admitted"
    BY <1>2 DEF Request
  <2> HIDE DEF q
  <2>3. Gone(q) = {} /\ Born(q) = {} /\ Gone(p) = {} /\ Born(p) = {}
    BY <1>2, <2>1, <2>2 DEF Gone, Born, Legal, NoRequest
  <2>4. PICK c : c = q
    OBVIOUS
  <2>5. Agree(c)'
    BY <1>3, <2>1, <2>3, <2>4, SameAgrees
  <2> QED
    BY <1>1, <1>2, <2>1, <2>4, <2>5, StepAgrees
<1>5. CASE Refuse(r)
  <2>1. p.step = "waiting" /\ Ends(r) /\ UNCHANGED <<rows, ziti>>
    BY <1>1, <1>5 DEF Refuse
  <2>2. Gone(p) = {} /\ Born(p) = {}
    BY <1>2, <2>1 DEF Gone, Born, Legal, NoRequest
  <2>3. Gone(req[r]) = {} /\ Born(req[r]) = {} /\ Agree(req[r]) /\ req[r] # NoRequest
    BY <1>1, <1>2, <1>3, <2>2
  <2> QED
    BY <2>1, <2>3, EndAgrees
<1>6. CASE RemoveEnvironment(r)
  <2>1. PICK q : q = [p EXCEPT !.step = "edge",
                               !.doomed = SharesIn(p.object) \cup AccessesIn(p.object)]
    OBVIOUS
  <2>2. p.op = "disable" /\ p.step = "rows" /\ req' = [req EXCEPT ![r] = q] /\ UNCHANGED <<rows, ziti>>
    BY <1>1, <1>2, <1>6, <2>1 DEF RemoveEnvironment, Legal, NoRequest
  <2>3. q.op = p.op /\ q.object = p.object /\ q.step = "edge"
    BY <1>2, <2>1 DEF Request
  <2>4. Gone(q) = Gone(p) /\ Born(q) = Born(p)
    BY <2>2, <2>3 DEF Gone, Born, Creating
  <2>5. Agree(q)'
    BY <1>3, <2>2, <2>4, SameAgrees
  <2> QED
    BY <1>1, <1>2, <2>2, <2>5, StepAgrees
<1>7. ~AllocateFails(r) /\ ~CommitFails(r)
  BY <1>1, <1>2, <1>3, NothingFails
<1> QED
  BY <1>1, <1>2, <1>3, <1>4, <1>5, <1>6, <1>7, AllocateAgrees, DeallocateAgrees, RevokeAgrees,
     RemoveSharesAgrees, RemoveFrontendsAgrees, RemoveIdentityAgrees, CommitAgrees DEF Handle

LEMMA InitAgrees == Init => AgreeInv
<1> SUFFICES ASSUME Init PROVE AgreeInv
  OBVIOUS
<1>1. Agree(NoRequest)
  BY NothingGone DEF Init, Agree
<1> QED
  BY <1>1 DEF Init, AgreeInv

LEMMA NextAgrees ==
  ASSUME Serial, Faults = {}
  PROVE  PlaceInv /\ AgreeInv /\ [Next]_vars => AgreeInv'
<1> SUFFICES ASSUME PlaceInv, AgreeInv, [Next]_vars PROVE AgreeInv'
  OBVIOUS
<1>1. CASE \E r \in Requests : Begin(r) \/ Handle(r)
  BY <1>1, BeginAgrees, HandleAgrees
<1>2. CASE UNCHANGED vars
  <2>1. UNCHANGED <<rows, ziti>> /\ \A r \in Requests : req'[r] = req[r]
    BY <1>2 DEF vars
  <2>2. ASSUME NEW r \in Requests, req[r] # NoRequest PROVE Agree(req[r])'
    <3>1. PICK p : p = req[r]
      OBVIOUS
    <3>2. Agree(p)'
      BY <2>1, <2>2, <3>1, SameAgrees DEF AgreeInv
    <3>3. Gone(req[r])' = Gone(p)' /\ Born(req[r])' = Born(p)'
      BY <2>1, <3>1 DEF Gone, Born, SharesIn, AccessesIn
    <3> QED
      BY <3>2, <3>3 DEF Agree, Held
  <2>3. Agree(NoRequest) => Agree(NoRequest)'
    <3>1. PICK p : p = NoRequest
      OBVIOUS
    <3> QED
      BY <2>1, <3>1, SameAgrees
  <2> QED
    BY <2>1, <2>2, <2>3 DEF AgreeInv, Quiet
<1> QED
  BY <1>1, <1>2 DEF Next, Crash

LEMMA AlwaysAgrees == ASSUME Serial, Faults = {} PROVE Spec => [](PlaceInv /\ AgreeInv)
<1>1. Init => PlaceInv /\ AgreeInv
  BY InitPlaced, InitAgrees
<1>2. PlaceInv /\ AgreeInv /\ [Next]_vars => (PlaceInv /\ AgreeInv)'
  BY NextPlaced, NextAgrees
<1> QED
  BY <1>1, <1>2, PTL DEF Spec

\* On sqlite, when nothing fails, every live share has in OpenZiti all that
\* share.go creates for it, and every live access to it the policy that
\* access.go creates, whatever was unshared, unaccessed and disabled meanwhile,
\* shares that used the same unique name included.
THEOREM AlwaysBacked == ASSUME Serial, Faults = {} PROVE Spec => []Backed
<1>1. AgreeInv => Backed
  BY NothingGone DEF AgreeInv, Agree, Backed
<1> QED
  BY <1>1, AlwaysAgrees, PTL

\* Under the same conditions OpenZiti holds nothing for a row that is not live:
\* what unshare, unaccess and disable delete (unshare.go:123-139,
\* disable.go:87-138) is all that was created for the rows they give up, but for
\* the grant of an access whose unaccess named another share (unaccess.go:71), and
\* that grant is never there without the share it is for.
THEOREM NeverOrphans == ASSUME Serial, Faults = {} PROVE Spec => []NoOrphans
<1>1. AgreeInv => NoOrphans
  BY NothingGone DEF AgreeInv, Agree, Held, NoOrphans, LeftBehind
<1> QED
  BY <1>1, AlwaysAgrees, PTL
=============================================================================
