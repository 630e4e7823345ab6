----------------------------- MODULE Collector -----------------------------
(***************************************************************************)
(* `zrok admin gc` (controller/gc.go), a process of its own that runs      *)
(* beside the request handlers of Controller.  It reads the tokens of the  *)
(* live shares once and then lists, kind by kind, what OpenZiti holds for  *)
(* zrok and deletes what it takes for the rest of dead shares.             *)
(*                                                                         *)
(* Between its listing and each deletion handlers go on creating and       *)
(* deleting.  On sqlite the transaction it has read in keeps every commit  *)
(* of the controller waiting, until the collector ends or the commit gives *)
(* up.                                                                     *)
(***************************************************************************)
EXTENDS Controller

VARIABLE gc   \* the collector: its stage and what it knows

collectorVars == <<vars, gc>>

\* live is the snapshot of the live tokens, doomed what the listing of the stage
\* showed to be dead and is still to be deleted.  fresh and failed are history:
\* the resources created since it began, and whether a call of it failed.
Stages == <<"services", "serps", "policies", "configs">>
NotCollecting ==
  [stage |-> "off", live |-> {}, doomed |-> {}, fresh |-> {}, failed |-> FALSE]

Collecting == gc.stage # "off"

\* Mutant: what has lost its service is not looked for.
KindsWithService(stage) == IF stage = "services" THEN {"service"} ELSE {}

\* The kinds of resources listed in a stage.  OpenZiti's identities and router
\* policies are not looked at.
KindsOf(stage) ==
  CASE stage = "services" -> {"service"}
    [] stage = "serps" -> {"serp"}
    [] stage = "policies" -> {"bind", "dial", "grant"}
    [] stage = "configs" -> {"config"}

\* The share a resource is for; a grant is for the share it gives access to.
ShareOf(x) == IF x[1] = "grant" THEN FeShare[x[2]] ELSE x[2]

\* What the name of a resource is, up to its first "-": a share token, but for
\* a bind or dial policy the environment, and for a grant the frontend token.
NameOf(x) ==
  CASE x[1] \in {"service", "serp", "config"} -> Token[x[2]]
    [] x[1] \in {"bind", "dial"} -> ShareEnv[x[2]]
    [] x[1] = "grant" -> x[2]

\* What the listing of a stage shows that has not the name of a live share.
Dead(stage, live) == {x \in ziti : x[1] \in KindsOf(stage) /\ NameOf(x) \notin live}

\* What is deleted on account of a dead resource: with a service everything
\* tagged with its token, serps and configs by their tags, policies by their id.
Collected(x) ==
  CASE x[1] = "service" -> Deallocated(x[2])
    [] x[1] \in {"serp", "config"} -> {<<x[1], s>> : s \in ByToken(Token[x[2]])}
    [] x[1] \in {"bind", "dial", "grant"} -> {x}
-----------------------------------------------------------------------------
CollectorInit == Init /\ gc = NotCollecting

\* Mutant: the snapshot is of the ids.
LiveIds == {s \in Shares : share[s] = "live"}

\* FindAllShares.
LiveTokens == {Token[s] : s \in {t \in Shares : share[t] = "live"}}

GC ==
  /\ ~Collecting
  /\ gc' = [NotCollecting EXCEPT !.stage = "services", !.live = LiveTokens,
                                 !.doomed = Dead("services", LiveTokens)]
  /\ UNCHANGED vars

\* The deletions for one dead resource, some of which may fail.
Collect ==
  \E x \in gc.doomed :
    /\ DeletesSome(Collected(x))
    /\ gc' = [gc EXCEPT !.doomed = @ \ {x},
                        !.failed = @ \/ ziti' \cap Collected(x) # {}]
    /\ UNCHANGED <<rows, req>>

NextStage == Stages[1 + CHOOSE i \in 1..3 : Stages[i] = gc.stage]

GoOn ==
  /\ Collecting /\ gc.stage # "configs" /\ gc.doomed = {}
  /\ gc' = [gc EXCEPT !.stage = NextStage, !.doomed = Dead(NextStage, gc.live)]
  /\ UNCHANGED vars

Collection == gc.stage = "configs" /\ gc.doomed = {} /\ gc' = NotCollecting

Finish == Collection /\ UNCHANGED vars

\* A listing fails, or the process is killed.
GiveUp ==
  /\ Collecting /\ Faults \cap {"edge", "crash"} # {}
  /\ gc' = NotCollecting
  /\ UNCHANGED vars
-----------------------------------------------------------------------------
(* The handlers beside it.                                                 *)

\* Mutant: the snapshot's transaction ends with the snapshot.
HeldUpBySnapshot == FALSE

\* On sqlite the collector's read lock holds up every commit.
HeldUp == Serial /\ Collecting

Serve(r) ==
  /\ Begin(r) \/ Handle(r)
  /\ HeldUp => UNCHANGED rows
  /\ gc' = IF Collecting THEN [gc EXCEPT !.fresh = @ \cup (ziti' \ ziti)] ELSE gc

\* The commit that waits is answered "database is locked".
Busy(r) ==
  /\ HeldUp /\ req[r].step = "changed"
  /\ Ends(r)
  /\ UNCHANGED <<rows, ziti, gc>>

CollectorStep == GC \/ Collect \/ GoOn \/ Finish \/ GiveUp

CollectorNext ==
  \/ \E r \in Requests : Serve(r) \/ Busy(r)
  \/ Crash /\ UNCHANGED gc
  \/ CollectorStep

CollectorSpec == CollectorInit /\ [][CollectorNext]_collectorVars
-----------------------------------------------------------------------------
(* Properties.                                                             *)

GcTypeOK ==
  gc \in [stage : {"off", "services", "serps", "policies", "configs"},
          live : SUBSET {Token[s] : s \in Shares}, doomed : SUBSET (Kinds \X Objects),
          fresh : SUBSET (Kinds \X Objects), failed : BOOLEAN]

\* A collection none of whose calls failed leaves OpenZiti nothing of a share
\* that was not live when it began, but what was created since: whatever shares
\* and unshares that failed half way have left behind is gone, and the names
\* they held are free again (gc.go:45-61; sharePublic.go:35, unshare.go:123).
Leftover(x) ==
  /\ x[1] \in {"service", "serp", "bind", "dial", "config", "grant"}
  /\ Token[ShareOf(x)] \notin gc.live
  /\ x \notin gc.fresh

CollectsLeftovers ==
  [][Collection /\ ~gc.failed => \A x \in ziti' : ~Leftover(x)]_collectorVars

\* What the collector removes never belongs to a share that was live when it
\* began, whatever its kind (gc.go:72-95, 110-118, 135-145, 162-170).
SparesLiveShares ==
  [][CollectorStep => \A x \in ziti \ ziti' : Token[ShareOf(x)] \notin gc.live]_collectorVars

\* The service of a live share, its config and its edge router policy are
\* spared: a share that is committed while the collector works is on sqlite
\* kept waiting by the snapshot's transaction, which lasts until the collector
\* ends (gc.go:36-45), so that what it misses in its snapshot is not live yet.
SparesServices ==
  [][CollectorStep =>
       \A x \in ziti \ ziti' :
         x[1] \in {"service", "serp", "config"} => share[x[2]] # "live"]_collectorVars
=============================================================================
