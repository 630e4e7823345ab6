--------------------------- MODULE CollectorProofs ---------------------------
(***************************************************************************)
(* What holds of Collector for all accounts, environments, shares,         *)
(* accesses and requests: its types; on sqlite, that it spares the service,*)
(* config and edge router policy of every live share; and, with any store, *)
(* that a collection none of whose calls failed leaves nothing behind.     *)
(***************************************************************************)
EXTENDS Collector, ControllerSqliteProofs

\* The token of a share is the name neither of an environment nor of an access:
\* the first are ids that OpenZiti gives (enable.go:54), the others are drawn at
\* random (util.go:60-74), as the names of shares without a unique one are.
TokensAreApart == \A s \in Shares : Token[s] \notin Envs \cup Frontends

(***************************************************************************)
(* The inductive invariant.                                                *)
(***************************************************************************)

\* OpenZiti holds, and the collector deletes, resources of their own kinds.
AllFit == \A x \in ziti \cup gc.doomed : Fitting(x)

\* What is still to be deleted was listed in this stage, and has not the name of
\* a share of the snapshot.
DoomedDead ==
  /\ ~Collecting => gc.doomed = {}
  /\ \A x \in gc.doomed : x[1] \in KindsOf(gc.stage) /\ NameOf(x) \notin gc.live

\* On sqlite the snapshot shows the live shares until the collector ends.
SnapshotLasts == Serial /\ Collecting => \A s \in Shares : share[s] = "live" => Token[s] \in gc.live

\* The kinds whose stage is over.
Passed(stage) ==
  CASE stage = "services" -> {}
    [] stage = "serps" -> {"service"}
    [] stage = "policies" -> {"service", "serp"}
    [] stage = "configs" -> {"service", "serp", "bind", "dial", "grant"}

\* While no call has failed, what is left of the kinds of the past stages was
\* not to be collected, and what is to be collected in this stage is doomed.
CollectedSoFar ==
  Collecting /\ ~gc.failed =>
    \A x \in ziti : Leftover(x) =>
      x[1] \notin Passed(gc.stage) /\ (x[1] \in KindsOf(gc.stage) => x \in gc.doomed)

CollectorInv == TypeInv /\ GcTypeOK /\ AllFit /\ DoomedDead /\ SnapshotLasts
-----------------------------------------------------------------------------
(***************************************************************************)
(* The stages, and what is deleted in them.                                *)
(***************************************************************************)

LEMMA NextStages ==
  /\ gc.stage = "services" => NextStage = "serps"
  /\ gc.stage = "serps" => NextStage = "policies"
  /\ gc.stage = "policies" => NextStage = "configs"
<1>1. /\ Stages[1] = "services" /\ Stages[2] = "serps"
      /\ Stages[3] = "policies" /\ Stages[4] = "configs"
  BY DEF Stages
<1> DEFINE at == CHOOSE i \in 1 .. 3 : Stages[i] = gc.stage
<1>2. ASSUME NEW n \in 1 .. 3, gc.stage = Stages[n] PROVE at = n
  <2>1. \A i \in 1 .. 3 : Stages[i] = gc.stage <=> i = n
    BY <1>1, <1>2
  <2> QED
    BY <2>1
<1>3. NextStage = Stages[1 + at]
  BY DEF NextStage
<1> HIDE DEF at
<1> QED
  BY <1>1, <1>2, <1>3

\* A resource that fits is collected with itself.
LEMMA CollectsItself ==
  ASSUME NEW x \in Kinds \X Objects, Fitting(x), x[1] \in KindsOf(gc.stage),
         gc.stage \in {"services", "serps", "policies", "configs"}
  PROVE  x \in Collected(x)
<1>1. x = <<x[1], x[2]>>
  OBVIOUS
<1>2. x[1] \in {"service", "serp", "config"} => x[2] \in Shares
  BY DEF Fitting, Objects
<1> QED
  BY <1>1, <1>2 DEF KindsOf, Collected, Deallocated, ByToken

\* Nothing of a share with a token of the snapshot is collected on account of a
\* resource that has not the name of one, unless it is a policy.
LEMMA CollectsNamesakes ==
  ASSUME NEW x \in Kinds \X Objects, Fitting(x), x[1] \in KindsOf(gc.stage),
         gc.stage \in {"services", "serps", "policies", "configs"},
         NEW y \in Collected(x), y[1] \in {"service", "serp", "config"}
  PROVE  y[2] \in Shares /\ Token[y[2]] = NameOf(x)
<1>1. x[1] \in {"service", "serp", "config"} => x[2] \in Shares
  BY DEF Fitting, Objects
<1>2. CASE x[1] = "service"
  BY <1>1, <1>2 DEF Collected, Deallocated, Tagged, ByToken, NameOf
<1>3. CASE x[1] \in {"serp", "config"}
  BY <1>1, <1>3 DEF Collected, ByToken, NameOf
<1>4. CASE x[1] \in {"bind", "dial", "grant"}
  BY <1>4 DEF Collected
<1> QED
  BY <1>2, <1>3, <1>4 DEF KindsOf

\* What is left over has not the name of a share of the snapshot.
LEMMA LeftoverIsDead ==
  ASSUME TokensAreApart, NEW live \in SUBSET {Token[s] : s \in Shares},
         NEW x \in Kinds \X Objects, Fitting(x),
         x[1] \in {"service", "serp", "bind", "dial", "config", "grant"},
         Token[ShareOf(x)] \notin live
  PROVE  NameOf(x) \notin live
<1> USE ControllerAssumption
<1>1. \A t \in live : \E s \in Shares : t = Token[s]
  OBVIOUS
<1>2. CASE x[1] \in {"service", "serp", "config"}
  BY <1>2 DEF ShareOf, NameOf
<1>3. CASE x[1] \in {"bind", "dial"}
  <2>1. x[2] \in Shares
    BY <1>3 DEF Fitting, Objects
  <2>2. NameOf(x) \in Envs
    BY <1>3, <2>1 DEF NameOf
  <2> QED
    BY <1>1, <2>2 DEF TokensAreApart
<1>4. CASE x[1] = "grant"
  <2>1. NameOf(x) \in Frontends
    BY <1>4 DEF NameOf, Fitting, Objects
  <2> QED
    BY <1>1, <2>1 DEF TokensAreApart
<1> QED
  BY <1>2, <1>3, <1>4
-----------------------------------------------------------------------------
(***************************************************************************)
(* The handlers create resources that fit.                                 *)
(***************************************************************************)

LEMMA AllocatedPart ==
  ASSUME NEW p, Legal(p), p.op \in Creating, NEW done \in 0 .. (Len(Recipe(p.op, p.object)) - 1)
  PROVE  {<<Recipe(p.op, p.object)[i], p.object>> : i \in 1 .. done}
           \subseteq Resources(p.op, p.object)
<1> DEFINE recipe == Recipe(p.op, p.object)
<1>1. DOMAIN recipe = 1 .. Len(recipe) /\ Len(recipe) \in Nat
  <2>1. CASE p.op = "enable"
    BY <2>1 DEF Recipe
  <2>2. CASE p.op = "share" /\ p.object \in Public
    <3> DEFINE five == <<"config", "service", "bind", "dial", "serp">>
    <3>1. DOMAIN five = 1 .. 5 /\ Len(five) = 5
      OBVIOUS
    <3>2. recipe = five
      BY <2>2 DEF Recipe
    <3> HIDE DEF five, recipe
    <3>3. DOMAIN recipe = 1 .. 5 /\ Len(recipe) = 5
      BY <3>1, <3>2, Zenon
    <3> QED
      BY <3>3
  <2>3. CASE p.op = "share" /\ p.object \notin Public
    BY <2>3 DEF Recipe
  <2>4. CASE p.op = "access"
    BY <2>4 DEF Recipe
  <2> QED
    BY <2>1, <2>2, <2>3, <2>4 DEF Creating
<1>2. Resources(p.op, p.object) = {<<recipe[i], p.object>> : i \in DOMAIN recipe}
  BY DEF Resources
<1>3. SUFFICES ASSUME NEW i \in 1 .. done PROVE <<recipe[i], p.object>> \in Resources(p.op, p.object)
  OBVIOUS
<1>4. i \in 1 .. Len(recipe)
  <2>1. PICK n : n = Len(recipe)
    OBVIOUS
  <2>2. n \in Nat /\ done \in 0 .. (n - 1)
    BY <1>1, <2>1
  <2>3. i \in 1 .. n
    BY <2>2
  <2> QED
    BY <2>1, <2>3
<1> HIDE DEF recipe
<1> QED
  BY <1>1, <1>2, <1>4

\* A handler adds to OpenZiti at most what its request creates.
LEMMA HandlersFit ==
  ASSUME TypeInv, NEW r \in Requests, Begin(r) \/ Handle(r)
  PROVE  \A x \in ziti' \ ziti : Fitting(x)
<1>1. PICK p : p = req[r]
  OBVIOUS
<1>2. Legal(p)
  BY <1>1 DEF TypeInv, AllLegal
<1>3. CASE Begin(r)
  BY <1>3 DEF Begin, EnableBegins, DisableBegins, ShareBegins, UnshareBegins, AccessBegins,
              UnaccessBegins, Begins
<1>4. CASE Allocate(r)
  BY <1>1, <1>2, <1>4, ResourcesFit DEF Allocate
<1>5. CASE AllocateFails(r)
  <2>1. p.op \in Creating
    BY <1>1, <1>5 DEF AllocateFails
  <2>2. PICK done \in 0 .. (Len(Recipe(p.op, p.object)) - 1) :
          ziti' = ziti \cup {<<Recipe(p.op, p.object)[i], p.object>> : i \in 1 .. done}
    BY <1>1, <1>5 DEF AllocateFails
  <2>3. ziti' \ ziti \subseteq Resources(p.op, p.object)
    BY <1>2, <2>1, <2>2, AllocatedPart
  <2> QED
    BY <1>2, <2>1, <2>3, ResourcesFit
<1>6. CASE Handle(r) /\ ~Allocate(r) /\ ~AllocateFails(r)
  <2>1. ziti' \subseteq ziti
    BY <1>6 DEF Handle, Admit, Refuse, Deallocate, Revoke, RemoveShares, RemoveFrontends,
                RemoveEnvironment, RemoveIdentity, Commit, CommitFails, DeletesSome
  <2> QED
    BY <2>1
<1> QED
  BY <1>3, <1>4, <1>5, <1>6
-----------------------------------------------------------------------------
(***************************************************************************)
(* The steps of the collector and of the handlers beside it.               *)
(***************************************************************************)

LEMMA InitCollector == CollectorInit => CollectorInv /\ CollectedSoFar
<1> SUFFICES ASSUME CollectorInit PROVE CollectorInv /\ CollectedSoFar
  OBVIOUS
<1>1. TypeInv /\ ziti = {} /\ gc = NotCollecting
  BY InitTypes DEF CollectorInit, Init
<1>2. ~Collecting /\ gc.doomed = {}
  BY <1>1 DEF NotCollecting, Collecting
<1>3. GcTypeOK
  BY <1>1 DEF GcTypeOK, NotCollecting
<1> QED
  BY <1>1, <1>2, <1>3 DEF CollectorInv, AllFit, DoomedDead, SnapshotLasts, CollectedSoFar

\* A collector that is off, whatever OpenZiti holds.
LEMMA OffInv ==
  ASSUME CollectorInv, gc' = NotCollecting, UNCHANGED vars
  PROVE  CollectorInv' /\ CollectedSoFar'
<1>1. ~Collecting' /\ gc'.doomed = {}
  BY DEF NotCollecting, Collecting
<1>2. GcTypeOK'
  BY DEF GcTypeOK, NotCollecting
<1>3. TypeInv'
  BY NextTypes DEF CollectorInv
<1> QED
  BY <1>1, <1>2, <1>3
  DEF CollectorInv, AllFit, Fitting, DoomedDead, SnapshotLasts, CollectedSoFar, vars

\* A listing shows resources of the kinds of its stage, none of which has the
\* name of a share of the snapshot.
LEMMA Listing ==
  ASSUME NEW stage, NEW live
  PROVE  /\ Dead(stage, live) \subseteq ziti
         /\ \A x \in Dead(stage, live) : x[1] \in KindsOf(stage) /\ NameOf(x) \notin live
BY DEF Dead

LEMMA GCInv ==
  ASSUME CollectorInv, GC
  PROVE  CollectorInv' /\ (TokensAreApart => CollectedSoFar')
<1>1. UNCHANGED vars /\ TypeInv' /\ ziti' = ziti /\ share' = share
  BY NextTypes DEF GC, CollectorInv, vars, rows
<1>2. /\ gc' = [stage |-> "services", live |-> LiveTokens,
                doomed |-> Dead("services", LiveTokens), fresh |-> {}, failed |-> FALSE]
  BY DEF GC, NotCollecting
<1>3. LiveTokens \subseteq {Token[s] : s \in Shares}
  BY DEF LiveTokens
<1>4. Dead("services", LiveTokens) \subseteq ziti
  BY Listing
<1>5. ziti \subseteq Kinds \X Objects
  BY DEF CollectorInv, TypeInv, TypeOK
<1>6. GcTypeOK'
  BY <1>2, <1>3, <1>4, <1>5 DEF GcTypeOK
<1>7. AllFit'
  BY <1>1, <1>2, <1>4 DEF CollectorInv, AllFit, Fitting
<1>8. DoomedDead'
  <2>1. Collecting'
    BY <1>2 DEF Collecting
  <2>2. \A x \in gc'.doomed : x[1] \in KindsOf(gc'.stage) /\ NameOf(x) \notin gc'.live
    BY <1>2, Listing
  <2> QED
    BY <2>1, <2>2 DEF DoomedDead, NameOf, KindsOf
<1>9. SnapshotLasts'
  BY <1>1, <1>2 DEF SnapshotLasts, LiveTokens
<1>10. TokensAreApart => CollectedSoFar'
  <2> SUFFICES ASSUME TokensAreApart, NEW x \in ziti', Leftover(x)'
               PROVE  /\ x[1] \notin Passed(gc'.stage)
                      /\ x[1] \in KindsOf(gc'.stage) => x \in gc'.doomed
    BY DEF CollectedSoFar, Passed, KindsOf
  <2>1. /\ x[1] \in {"service", "serp", "bind", "dial", "config", "grant"}
        /\ Token[ShareOf(x)] \notin LiveTokens
    BY <1>2 DEF Leftover, ShareOf
  <2>2. NameOf(x) \notin LiveTokens
    BY <1>1, <1>3, <1>5, <2>1, LeftoverIsDead DEF CollectorInv, AllFit
  <2> QED
    BY <1>1, <1>2, <2>2 DEF Passed, Dead
<1> QED
  BY <1>1, <1>6, <1>7, <1>8, <1>9, <1>10 DEF CollectorInv

LEMMA GoOnInv ==
  ASSUME CollectorInv, GoOn
  PROVE  CollectorInv' /\ (TokensAreApart /\ CollectedSoFar => CollectedSoFar')
<1>1. UNCHANGED vars /\ TypeInv' /\ ziti' = ziti /\ share' = share
  BY NextTypes DEF GoOn, CollectorInv, vars, rows
<1>2. PICK next : next = NextStage
  OBVIOUS
<1>3. PICK dead : dead = Dead(next, gc.live)
  OBVIOUS
<1>4. /\ gc' = [gc EXCEPT !.stage = next, !.doomed = dead]
      /\ gc.doomed = {} /\ Collecting /\ gc.stage # "configs"
  BY <1>2, <1>3 DEF GoOn
<1>5. /\ gc.live \subseteq {Token[s] : s \in Shares} /\ gc.fresh \subseteq Kinds \X Objects
      /\ gc.failed \in BOOLEAN /\ gc.stage \in {"services", "serps", "policies", "configs"}
  BY <1>4 DEF CollectorInv, GcTypeOK, Collecting
<1>6. \/ gc.stage = "services" /\ next = "serps"
      \/ gc.stage = "serps" /\ next = "policies"
      \/ gc.stage = "policies" /\ next = "configs"
  BY <1>2, <1>4, <1>5, NextStages
<1>7. /\ gc'.stage = next /\ gc'.doomed = dead /\ gc'.live = gc.live /\ gc'.fresh = gc.fresh
      /\ gc'.failed = gc.failed
  BY <1>4 DEF CollectorInv, GcTypeOK
<1>8. dead \subseteq ziti /\ \A x \in dead : x[1] \in KindsOf(next) /\ NameOf(x) \notin gc.live
  BY <1>3, Listing
<1>9. ziti \subseteq Kinds \X Objects
  BY DEF CollectorInv, TypeInv, TypeOK
<1>10. GcTypeOK'
  <2>1. gc' \in [stage : {"off", "services", "serps", "policies", "configs"},
                 live : SUBSET {Token[s] : s \in Shares}, doomed : SUBSET (Kinds \X Objects),
                 fresh : SUBSET (Kinds \X Objects), failed : BOOLEAN]
    BY <1>4, <1>5, <1>6, <1>8, <1>9 DEF CollectorInv, GcTypeOK
  <2> QED
    BY <2>1 DEF GcTypeOK
<1>11. AllFit'
  BY <1>1, <1>7, <1>8 DEF CollectorInv, AllFit, Fitting
<1>12. DoomedDead'
  BY <1>6, <1>7, <1>8 DEF DoomedDead, Collecting, NameOf, KindsOf
<1>13. SnapshotLasts'
  BY <1>1, <1>4, <1>7 DEF SnapshotLasts, CollectorInv
<1>14. ASSUME TokensAreApart, CollectedSoFar PROVE CollectedSoFar'
  <2> SUFFICES ASSUME ~gc.failed, NEW x \in ziti, Leftover(x)
               PROVE  x[1] \notin Passed(next) /\ (x[1] \in KindsOf(next) => x \in dead)
    BY <1>1, <1>7 DEF CollectedSoFar, Passed, KindsOf, Leftover, ShareOf
  <2>1. x[1] \notin Passed(gc.stage) /\ x[1] \notin KindsOf(gc.stage)
    BY <1>4, <1>14 DEF CollectedSoFar
  <2>2. x[1] \notin Passed(next)
    BY <1>6, <2>1 DEF Passed, KindsOf
  <2>3. NameOf(x) \notin gc.live
    BY <1>5, <1>9, <1>14, LeftoverIsDead DEF CollectorInv, AllFit, Leftover
  <2> QED
    BY <1>3, <2>2, <2>3 DEF Dead
<1> QED
  BY <1>1, <1>10, <1>11, <1>12, <1>13, <1>14 DEF CollectorInv

LEMMA CollectInv ==
  ASSUME CollectorInv, Collect
  PROVE  CollectorInv' /\ (CollectedSoFar => CollectedSoFar')
<1>1. PICK d \in gc.doomed :
        /\ DeletesSome(Collected(d))
        /\ gc' = [gc EXCEPT !.doomed = @ \ {d}, !.failed = @ \/ ziti' \cap Collected(d) # {}]
        /\ UNCHANGED <<rows, req>>
  BY DEF Collect
<1>2. ziti' \subseteq ziti /\ env' = env /\ share' = share /\ access' = access /\ req' = req
  BY <1>1 DEF DeletesSome, rows
<1>3. PICK failing \in BOOLEAN : failing = (ziti' \cap Collected(d) # {})
  OBVIOUS
<1>4. /\ gc'.stage = gc.stage /\ gc'.doomed = gc.doomed \ {d} /\ gc'.live = gc.live
      /\ gc'.fresh = gc.fresh /\ gc'.failed = (gc.failed \/ failing)
  BY <1>1, <1>3 DEF CollectorInv, GcTypeOK
<1>5. /\ Collecting /\ gc.stage \in {"services", "serps", "policies", "configs"}
  BY <1>1 DEF CollectorInv, GcTypeOK, DoomedDead, Collecting
<1>6. TypeInv'
  BY <1>2 DEF CollectorInv, TypeInv, TypeOK, AllLegal, Legal
<1>7. GcTypeOK'
  BY <1>1, <1>3 DEF CollectorInv, GcTypeOK
<1>8. AllFit'
  BY <1>2, <1>4 DEF CollectorInv, AllFit, Fitting
<1>9. DoomedDead'
  BY <1>4, <1>5 DEF CollectorInv, DoomedDead, Collecting, NameOf, KindsOf
<1>10. SnapshotLasts'
  BY <1>2, <1>4, <1>5 DEF CollectorInv, SnapshotLasts, Collecting
<1>11. ASSUME CollectedSoFar PROVE CollectedSoFar'
  <2> SUFFICES ASSUME ~gc.failed, ~failing, NEW x \in ziti', Leftover(x)
               PROVE  /\ x[1] \notin Passed(gc.stage)
                      /\ x[1] \in KindsOf(gc.stage) => x \in gc.doomed \ {d}
    BY <1>4 DEF CollectedSoFar, Passed, KindsOf, Leftover, ShareOf
  <2>1. /\ x[1] \notin Passed(gc.stage)
        /\ x[1] \in KindsOf(gc.stage) => x \in gc.doomed
    BY <1>2, <1>5, <1>11 DEF CollectedSoFar
  <2>2. x # d
    <3>1. d \in Kinds \X Objects /\ Fitting(d) /\ d[1] \in KindsOf(gc.stage)
      BY <1>1 DEF CollectorInv, GcTypeOK, AllFit, DoomedDead
    <3>2. d \in Collected(d)
      BY <1>5, <3>1, CollectsItself
    <3> QED
      BY <1>3, <3>2
  <2> QED
    BY <2>1, <2>2
<1> QED
  BY <1>6, <1>7, <1>8, <1>9, <1>10, <1>11 DEF CollectorInv

\* A handler takes a step: what it creates is fresh, and on sqlite it does not
\* commit before the collector ends.
LEMMA ServeInv ==
  ASSUME CollectorInv, NEW r \in Requests, Serve(r)
  PROVE  CollectorInv' /\ (CollectedSoFar => CollectedSoFar')
<1>1. /\ Begin(r) \/ Handle(r)
      /\ HeldUp => UNCHANGED rows
      /\ gc' = IF Collecting THEN [gc EXCEPT !.fresh = @ \cup (ziti' \ ziti)] ELSE gc
  BY DEF Serve
<1>2. /\ gc'.stage = gc.stage /\ gc'.doomed = gc.doomed /\ gc'.live = gc.live
      /\ gc'.failed = gc.failed
      /\ Collecting => gc'.fresh = gc.fresh \cup (ziti' \ ziti)
  BY <1>1 DEF CollectorInv, GcTypeOK
<1>3. TypeInv'
  BY <1>1, BeginTypes, HandleTypes DEF CollectorInv
<1>4. GcTypeOK'
  <2>1. ziti' \subseteq Kinds \X Objects
    BY <1>3 DEF TypeInv, TypeOK
  <2> QED
    BY <1>1, <2>1 DEF CollectorInv, GcTypeOK
<1>5. AllFit'
  <2>1. \A x \in ziti' \ ziti : Fitting(x)
    BY <1>1, HandlersFit DEF CollectorInv
  <2> QED
    BY <1>2, <2>1 DEF CollectorInv, AllFit, Fitting
<1>6. DoomedDead'
  BY <1>2 DEF CollectorInv, DoomedDead, Collecting, NameOf, KindsOf
<1>7. SnapshotLasts'
  BY <1>1, <1>2 DEF CollectorInv, SnapshotLasts, Collecting, HeldUp, rows
<1>8. ASSUME CollectedSoFar PROVE CollectedSoFar'
  <2> SUFFICES ASSUME Collecting, ~gc.failed, NEW x \in ziti', Leftover(x)'
               PROVE  /\ x[1] \notin Passed(gc.stage)
                      /\ x[1] \in KindsOf(gc.stage) => x \in gc.doomed
    BY <1>2 DEF CollectedSoFar, Collecting, Passed, KindsOf
  <2>1. x \in ziti /\ Leftover(x)
    BY <1>2 DEF Leftover, ShareOf
  <2> QED
    BY <1>8, <2>1 DEF CollectedSoFar
<1> QED
  BY <1>3, <1>4, <1>5, <1>6, <1>7, <1>8 DEF CollectorInv

\* Requests end, and nothing else changes.
LEMMA EndsInv ==
  ASSUME CollectorInv, UNCHANGED <<rows, ziti, gc>>, TypeInv'
  PROVE  CollectorInv' /\ (CollectedSoFar => CollectedSoFar')
<1>1. ziti' = ziti /\ gc' = gc /\ share' = share
  BY DEF rows
<1>2. GcTypeOK' /\ AllFit' /\ DoomedDead' /\ SnapshotLasts'
  BY <1>1 DEF CollectorInv, GcTypeOK, AllFit, Fitting, DoomedDead, Collecting, NameOf, KindsOf,
              SnapshotLasts
<1>3. ASSUME CollectedSoFar PROVE CollectedSoFar'
  <2> SUFFICES ASSUME Collecting, ~gc.failed, NEW x \in ziti, Leftover(x)'
               PROVE  /\ x[1] \notin Passed(gc.stage)
                      /\ x[1] \in KindsOf(gc.stage) => x \in gc.doomed
    BY <1>1 DEF CollectedSoFar, Collecting, Passed, KindsOf
  <2>1. Leftover(x)
    BY <1>1 DEF Leftover, ShareOf
  <2> QED
    BY <1>3, <2>1 DEF CollectedSoFar
<1> QED
  BY <1>2, <1>3 DEF CollectorInv

LEMMA CollectorNextInv ==
  CollectorInv /\ [CollectorNext]_collectorVars =>
    CollectorInv' /\ (TokensAreApart /\ CollectedSoFar => CollectedSoFar')
<1> SUFFICES ASSUME CollectorInv, [CollectorNext]_collectorVars
             PROVE  CollectorInv' /\ (TokensAreApart /\ CollectedSoFar => CollectedSoFar')
  OBVIOUS
<1>1. CASE \E r \in Requests : Serve(r)
  BY <1>1, ServeInv
<1>2. CASE \E r \in Requests : Busy(r)
  <2>1. PICK r \in Requests : Busy(r)
    BY <1>2
  <2>2. Ends(r) /\ UNCHANGED <<rows, ziti, gc>>
    BY <2>1 DEF Busy
  <2>3. req' \in [Requests -> Request] /\ AllLegal'
    BY <2>2, NoRequestType, OneRequest DEF Ends, CollectorInv
  <2>4. TypeInv'
    BY <2>2, <2>3 DEF rows, CollectorInv, TypeInv, TypeOK
  <2> QED
    BY <2>2, <2>4, EndsInv
<1>3. CASE Crash /\ UNCHANGED gc
  <2>1. TypeInv'
    BY <1>3, NextTypes DEF Next, CollectorInv
  <2> QED
    BY <1>3, <2>1, EndsInv DEF Crash
<1>4. CASE GC
  BY <1>4, GCInv
<1>5. CASE Collect
  BY <1>5, CollectInv
<1>6. CASE GoOn
  BY <1>6, GoOnInv
<1>7. CASE Finish \/ GiveUp
  BY <1>7, OffInv DEF Finish, Collection, GiveUp
<1>8. CASE UNCHANGED collectorVars
  <2>1. UNCHANGED vars /\ UNCHANGED <<rows, ziti, gc>>
    BY <1>8 DEF collectorVars, vars
  <2>2. TypeInv'
    BY <2>1, NextTypes DEF CollectorInv
  <2> QED
    BY <2>1, <2>2, EndsInv
<1> QED
  BY <1>1, <1>2, <1>3, <1>4, <1>5, <1>6, <1>7, <1>8 DEF CollectorNext, CollectorStep

LEMMA AlwaysCollectorInv == CollectorSpec => []CollectorInv
BY InitCollector, CollectorNextInv, PTL DEF CollectorSpec

LEMMA AlwaysCollectedSoFar ==
  ASSUME TokensAreApart PROVE CollectorSpec => [](CollectorInv /\ CollectedSoFar)
<1>1. CollectorInv /\ CollectedSoFar /\ [CollectorNext]_collectorVars =>
        (CollectorInv /\ CollectedSoFar)'
  BY CollectorNextInv
<1> QED
  BY <1>1, InitCollector, PTL DEF CollectorSpec
-----------------------------------------------------------------------------
(***************************************************************************)
(* The theorems.                                                           *)
(***************************************************************************)

\* What the collector knows always has its type: its snapshot holds tokens of
\* shares, its listings resources (gc.go:36-70).
THEOREM CollectorTypes == CollectorSpec => []GcTypeOK
<1>1. CollectorInv => GcTypeOK
  BY DEF CollectorInv
<1> QED
  BY <1>1, AlwaysCollectorInv, PTL

\* On sqlite the collector never deletes the service, the config or the edge
\* router policy of a share that is live at that moment, whatever is shared,
\* unshared and disabled while it works, whatever fails, and however many shares
\* have used the same unique name: no commit comes between its snapshot and its
\* last deletion (gc.go:36-61).
THEOREM CollectorSparesServices == ASSUME Serial PROVE CollectorSpec => SparesServices
<1>1. CollectorInv /\ [CollectorNext]_collectorVars =>
        [CollectorStep =>
           \A x \in ziti \ ziti' :
             x[1] \in {"service", "serp", "config"} => share[x[2]] # "live"]_collectorVars
  <2> SUFFICES ASSUME CollectorInv, CollectorStep, NEW x \in ziti, x \notin ziti',
                      x[1] \in {"service", "serp", "config"}
               PROVE  share[x[2]] # "live"
    OBVIOUS
  <2>1. Collect
    BY DEF CollectorStep, GC, GoOn, Finish, GiveUp, vars
  <2>2. PICK d \in gc.doomed : DeletesSome(Collected(d))
    BY <2>1 DEF Collect
  <2>3. x \in Collected(d)
    BY <2>2 DEF DeletesSome
  <2>4. /\ d \in Kinds \X Objects /\ Fitting(d) /\ d[1] \in KindsOf(gc.stage)
        /\ NameOf(d) \notin gc.live
        /\ Collecting /\ gc.stage \in {"services", "serps", "policies", "configs"}
    BY <2>2 DEF CollectorInv, GcTypeOK, AllFit, DoomedDead, Collecting
  <2>5. x[2] \in Shares /\ Token[x[2]] = NameOf(d)
    BY <2>3, <2>4, CollectsNamesakes
  <2> QED
    BY <2>4, <2>5 DEF CollectorInv, SnapshotLasts
<1> QED
  BY <1>1, AlwaysCollectorInv, PTL DEF CollectorSpec, SparesServices

\* With any store and whatever fails elsewhere, a collection none of whose calls
\* failed ends with nothing in OpenZiti for a share that was not live when it
\* began, but what handlers created since: the order of its stages and its one
\* listing of each lose nothing (gc.go:45-61, 72-179).
THEOREM CollectorLosesNothing == ASSUME TokensAreApart PROVE CollectorSpec => CollectsLeftovers
<1>1. CollectorInv /\ CollectedSoFar /\ [CollectorNext]_collectorVars =>
        [Collection /\ ~gc.failed => \A x \in ziti' : ~Leftover(x)]_collectorVars
  <2> SUFFICES ASSUME CollectorInv, CollectedSoFar, CollectorNext, Collection, ~gc.failed,
                      NEW x \in ziti', Leftover(x)
               PROVE  FALSE
    BY DEF collectorVars, vars, Collection, NotCollecting
  <2>1. gc.stage = "configs" /\ gc.doomed = {} /\ gc'.stage = "off" /\ Collecting
    BY DEF Collection, NotCollecting, Collecting
  <2>2. ziti' = ziti
    BY <2>1 DEF CollectorNext, CollectorStep, Serve, Busy, Crash, GC, Collect, GoOn, Finish,
                GiveUp, vars, CollectorInv, GcTypeOK, NotCollecting
  <2>3. x[1] \notin Passed("configs") /\ x[1] \notin KindsOf("configs")
    BY <2>1, <2>2 DEF CollectedSoFar
  <2> QED
    BY <2>3 DEF Passed, KindsOf, Leftover
<1> QED
  BY <1>1, AlwaysCollectedSoFar, PTL DEF CollectorSpec, CollectsLeftovers
=============================================================================
