---------------------------- MODULE LimitsAgent -----------------------------
(***************************************************************************)
(* The limits agent of the zrok controller (controller/limits): a single   *)
(* goroutine that reads transfer reports, records exceeded bandwidth       *)
(* classes in the journal, cuts the dial policies of the affected shares,  *)
(* and on every cycle relaxes what is no longer exceeded.  It shares the   *)
(* store and the OpenZiti controller with the request handlers that make   *)
(* and remove shares and accesses.                                         *)
(*                                                                         *)
(* The agent works in store transactions but changes OpenZiti at once, so  *)
(* a transaction that ends without a commit leaves its policies behind.    *)
(* With the sqlite store one transaction is open at a time; with the       *)
(* PostgreSQL store the handlers run between the agent's steps.            *)
(***************************************************************************)
EXTENDS LimitClasses, FiniteSets

CONSTANTS
  Envs, EnvAccount,      \* environments and the account each belongs to
  Shares, ShareEnv,      \* shares (rows of shares) and their environments
  Backend,               \* Backend[s]: the backend mode of share s
  Public,                \* the shares reached through a public frontend
  Frontends, FeShare,    \* private frontends and the share each one accesses
  Handlers,              \* request handlers that may be under way at once
  Levels,                \* the transfers [rx, tx] a period may show
  Serial,                \* TRUE: sqlite, one open transaction at a time
  Faults,                \* what may fail: "edge", "influx", "email", "commit", "crash"
  Tokenless,             \* TRUE: reports without a share token also arrive
  MaxJournal,            \* bound on the length of the journal
  None

Periods == {Config["warning"].period, Config["limit"].period}
             \cup UNION {{Applied[a][i].period : i \in DOMAIN Applied[a]} : a \in Accounts}

ASSUME LimitsAgentAssumption ==
  /\ EnvAccount \in [Envs -> Accounts]
  /\ ShareEnv \in [Shares -> Envs]
  /\ Backend \in [Shares -> Modes]
  /\ Public \subseteq Shares
  /\ Shares \cap Frontends = {}
  /\ FeShare \in [Frontends -> Shares]
  /\ Levels \subseteq [rx : Nat, tx : Nat]
  /\ Serial \in BOOLEAN /\ Tokenless \in BOOLEAN
  /\ Faults \subseteq {"edge", "influx", "email", "commit", "crash"}
  /\ MaxJournal \in Nat
  /\ None \notin Accounts \cup Envs \cup Shares \cup Frontends

\* The classes of the configuration file have no id and one period
\* (bandwidthClass.go:15-28); the others are known by their id, although a class
\* may be applied twice.
ASSUME ClassIdsAssumption ==
  /\ \A k \in {"warning", "limit"} : Config[k].id = Global
  /\ Config["warning"].period = Config["limit"].period
  /\ \A a \in Accounts : \A i, j \in DOMAIN Applied[a] :
       /\ Applied[a][i].id # Global
       /\ Applied[a][i].id = Applied[a][j].id => Applied[a][i] = Applied[a][j]

VARIABLES
  journal,   \* bandwidth_limit_journal: the committed rows in id order
  usage,     \* usage[a][p]: what the metrics store shows for a over period p
  share,     \* share[s]: "none" before it is created, "live", "deleted"
  access,    \* access[f]: the same of private frontend f
  dial,      \* the dial policies that exist: a share stands for the policy of
             \* its public frontend, a private frontend for its own
  agent,     \* the agent's program counter and the locals of its transaction
  timer,     \* time.After of the main loop: "armed" when the loop has just
             \* created it, then "running", then "fired"
  due,       \* more than a cycle has passed since lastCycle
  handler    \* handler[h]: the request h is handling and how far it is

db == <<journal, share, access>>
vars == <<db, usage, dial, agent, timer, due, handler>>

Status == {"none", "live", "deleted"}
Account(s) == EnvAccount[ShareEnv[s]]
LiveShares(e) == {s \in Shares : ShareEnv[s] = e /\ share[s] = "live"}
LiveAccesses(s) == {f \in Frontends : FeShare[f] = s /\ access[f] = "live"}

\* The dial policies tagged with the token of share s.
DialPolicies(s) == dial \cap ({s} \cup {f \in Frontends : FeShare[f] = s})

\* The dial policies share s has when nothing limits it.
WantedPolicies(s) == IF s \in Public THEN {s} ELSE LiveAccesses(s)
-----------------------------------------------------------------------------
(* The journal.                                                            *)

Entry(a, c) == [account |-> a, class |-> c.id, action |-> c.action]

\* The class a row was written for.
ClassOf(e) ==
  IF e.class = Global THEN Config[e.action]
  ELSE LET rows == Applied[e.account]
       IN  rows[CHOOSE i \in DOMAIN rows : rows[i].id = e.class]

\* The rows of account a with class id; the two configuration classes share
\* the null class id.
Group(a, id) == {i \in DOMAIN journal : journal[i].account = a /\ journal[i].class = id}

\* The latest row of the class has the action of the class.
IsLimited(a, c) ==
  \E i \in Group(a, c.id) : /\ \A j \in Group(a, c.id) : j <= i
                            /\ journal[i].action = c.action

\* The bandwidth part of CanCreateShare and CanAccessShare.
BandwidthAllows(s) ==
  \A c \in DecidingClasses(Account(s), Backend[s]) : ~IsLimited(Account(s), c)

Keep(rows) ==
  LET Later(i) == Cardinality({j \in rows : j < i})
  IN  [n \in 1..Cardinality(rows) |-> journal[CHOOSE i \in rows : Later(i) = n - 1]]
-----------------------------------------------------------------------------
(* Transactions.                                                           *)

Idle == [pc |-> "loop", account |-> None, class |-> None, envs |-> {}, shares |-> {},
         todo |-> {}, kept |-> {}, used |-> <<>>, asked |-> {}]

NoRequest == [op |-> "none", id |-> None, step |-> "none"]

NoTransaction == /\ agent.pc \in {"loop", "cycle"}
                 /\ \A h \in Handlers : handler[h] = NoRequest

CanBegin == Serial => NoTransaction

Init ==
  /\ journal = <<>>
  /\ usage = [a \in Accounts |-> [p \in Periods |-> [rx |-> 0, tx |-> 0]]]
  /\ share = [s \in Shares |-> "none"]
  /\ access = [f \in Frontends |-> "none"]
  /\ dial = {}
  /\ agent = Idle
  /\ timer = "armed"
  /\ due = FALSE
  /\ handler = [h \in Handlers |-> NoRequest]

-----------------------------------------------------------------------------
(* The world: transfers come and age out, time passes.                     *)

\* A longer period shows at least what a shorter one does.
Traffic(a) ==
  /\ \E u \in [Periods -> Levels] :
       /\ \A p, q \in Periods : p <= q => u[p].rx <= u[q].rx /\ u[p].tx <= u[q].tx
       /\ usage' = [usage EXCEPT ![a] = u]
  /\ UNCHANGED <<db, dial, agent, timer, due, handler>>

CyclePasses ==
  /\ ~due
  /\ due' = TRUE
  /\ UNCHANGED <<db, usage, dial, agent, timer, handler>>

\* Half a cycle, then a whole one goes by without a report: each report makes
\* the loop start over with a new timer.
TimerRuns ==
  /\ agent.pc = "loop" /\ timer = "armed"
  /\ timer' = "running"
  /\ UNCHANGED <<db, usage, dial, agent, due, handler>>

TimerFires ==
  /\ agent.pc = "loop" /\ timer = "running"
  /\ timer' = "fired"
  /\ due' = TRUE
  /\ UNCHANGED <<db, usage, dial, agent, handler>>
-----------------------------------------------------------------------------
(* The main loop and enforce.                                              *)

\* The class a report for share s makes the agent act on.
Exceeds(s) ==
  /\ Account(s) \notin Limitless
  /\ AnyExceeded(usage[Account(s)], BandwidthArray(Account(s), Backend[s]))

Selected(s) == SelectedClass(usage[Account(s)], BandwidthArray(Account(s), Backend[s]))

Report(s) ==
  /\ agent.pc = "loop" /\ share[s] # "none"
  /\ CanBegin

\* Mutant: the journal is not asked.
NewExcessUnchecked(s) == Exceeds(s)

NewExcess(s) == /\ Exceeds(s)
                /\ ~IsLimited(Account(s), Selected(s))

Cycled == [Idle EXCEPT !.pc = "cycle"]

\* Nothing is exceeded, it is journaled already, or enforce fails before it
\* changes anything.
ReportIgnored(s) ==
  /\ Report(s)
  /\ \/ ~NewExcess(s)
     \/ "influx" \in Faults
     \/ /\ NewExcess(s)
        /\ \/ Selected(s).action = "warning" /\ Faults \cap {"email", "commit"} # {}
           \/ Selected(s).action = "limit" /\ "edge" \in Faults
  /\ agent' = Cycled
  /\ UNCHANGED <<db, usage, dial, timer, due, handler>>

\* A warning: the row is written, the email sent, the transaction committed.
ReportWarns(s) ==
  /\ Report(s) /\ NewExcess(s) /\ Selected(s).action = "warning"
  /\ Len(journal) < MaxJournal
  /\ journal' = Append(journal, Entry(Account(s), Selected(s)))
  /\ agent' = Cycled
  /\ UNCHANGED <<share, access, usage, dial, timer, due, handler>>

\* A limit: limitAction.HandleAccount starts on the environments.
ReportLimits(s) ==
  /\ Report(s) /\ NewExcess(s) /\ Selected(s).action = "limit"
  /\ Len(journal) < MaxJournal
  /\ agent' = [Idle EXCEPT !.pc = "cut", !.account = Account(s), !.class = Selected(s),
                           !.envs = {e \in Envs : EnvAccount[e] = Account(s)}]
  /\ UNCHANGED <<db, usage, dial, timer, due, handler>>

CutEnv(e) ==
  /\ agent.pc = "cut" /\ agent.shares = {} /\ e \in agent.envs
  /\ LET ignored == IgnoredBackends(agent.account, agent.class)
     IN  agent' = [agent EXCEPT !.envs = @ \ {e},
                                !.shares = {s \in LiveShares(e) : Backend[s] \notin ignored}]
  /\ UNCHANGED <<db, usage, dial, timer, due, handler>>

CutShare(s) ==
  /\ agent.pc = "cut" /\ s \in agent.shares
  /\ dial' = dial \ DialPolicies(s)
  /\ agent' = [agent EXCEPT !.shares = @ \ {s}]
  /\ UNCHANGED <<db, usage, timer, due, handler>>

\* OpenZiti refuses a deletion: enforce returns, its row is rolled back, the
\* policies deleted so far stay deleted.
CutFails(s) ==
  /\ "edge" \in Faults
  /\ agent.pc = "cut" /\ s \in agent.shares
  /\ \E gone \in SUBSET DialPolicies(s) : dial' = dial \ gone
  /\ agent' = Cycled
  /\ UNCHANGED <<db, usage, timer, due, handler>>

CutCommit ==
  /\ agent.pc = "cut" /\ agent.envs = {} /\ agent.shares = {}
  /\ \/ journal' = Append(journal, Entry(agent.account, agent.class))
     \/ "commit" \in Faults /\ UNCHANGED journal
  /\ agent' = Cycled
  /\ UNCHANGED <<share, access, usage, dial, timer, due, handler>>

\* A report without a share token is only logged, but the loop starts a new
\* time.After.
ReportWithoutToken ==
  /\ Tokenless
  /\ agent.pc = "loop"
  /\ timer' = "armed"
  /\ UNCHANGED <<db, usage, dial, agent, due, handler>>
-----------------------------------------------------------------------------
(* relax.                                                                  *)

\* All rows are read; rows deleted in the transaction leave "kept".
RelaxBegin ==
  /\ CanBegin
  /\ agent' = [Idle EXCEPT !.pc = "relax", !.todo = DOMAIN journal,
                           !.kept = DOMAIN journal, !.used = usage]
  /\ UNCHANGED <<db, usage, dial, timer, due, handler>>

\* After a report the loop relaxes if a cycle has passed since the last time.
AfterReport ==
  /\ agent.pc = "cycle"
  /\ \/ due /\ RelaxBegin
     \/ /\ ~due
        /\ agent' = Idle
        /\ timer' = "armed"
        /\ UNCHANGED <<db, usage, dial, due, handler>>

TimerRelax == agent.pc = "loop" /\ timer = "fired" /\ RelaxBegin

\* The metrics store is asked once for an account and a period; what it shows
\* is taken here at the begin of the transaction.
Query(i) == <<journal[i].account, ClassOf(journal[i]).period>>

Exceeded(i) == TransferExceeded(agent.used[journal[i].account][ClassOf(journal[i]).period],
                                ClassOf(journal[i]))

RelaxKeeps(i) ==
  /\ agent.pc = "relax" /\ i \in agent.todo
  /\ Exceeded(i)
  /\ agent' = [agent EXCEPT !.todo = @ \ {i}, !.asked = @ \cup {Query(i)}]
  /\ UNCHANGED <<db, usage, dial, timer, due, handler>>

\* Deleting a row deletes every row of its account and class.
Forgotten(i) == Group(journal[i].account, journal[i].class)

RelaxWarning(i) ==
  /\ agent.pc = "relax" /\ i \in agent.todo
  /\ ~Exceeded(i) /\ ClassOf(journal[i]).action = "warning"
  /\ agent' = [agent EXCEPT !.todo = @ \ {i}, !.kept = @ \ Forgotten(i),
                            !.asked = @ \cup {Query(i)}]
  /\ UNCHANGED <<db, usage, dial, timer, due, handler>>

\* Mutants: a limit is relaxed without looking at what was transferred; a limit
\* is forgotten without running the relax actions.
RelaxLimitUnchecked(i) ==
  /\ agent.pc = "relax" /\ i \in agent.todo
  /\ ClassOf(journal[i]).action = "limit"
  /\ agent' = [agent EXCEPT !.pc = "restore", !.todo = @ \ {i}, !.asked = @ \cup {Query(i)},
                            !.account = journal[i].account, !.class = ClassOf(journal[i]),
                            !.envs = {e \in Envs : EnvAccount[e] = journal[i].account}]
  /\ UNCHANGED <<db, usage, dial, timer, due, handler>>

RelaxLimitForgets(i) ==
  /\ agent.pc = "relax" /\ i \in agent.todo
  /\ ~Exceeded(i) /\ ClassOf(journal[i]).action = "limit"
  /\ agent' = [agent EXCEPT !.todo = @ \ {i}, !.kept = @ \ Forgotten(i),
                            !.asked = @ \cup {Query(i)}]
  /\ UNCHANGED <<db, usage, dial, timer, due, handler>>

RelaxLimit(i) ==
  /\ agent.pc = "relax" /\ i \in agent.todo
  /\ ~Exceeded(i) /\ ClassOf(journal[i]).action = "limit"
  /\ agent' = [agent EXCEPT !.pc = "restore", !.todo = @ \ {i}, !.asked = @ \cup {Query(i)},
                            !.account = journal[i].account, !.class = ClassOf(journal[i]),
                            !.envs = {e \in Envs : EnvAccount[e] = journal[i].account}]
  /\ UNCHANGED <<db, usage, dial, timer, due, handler>>

\* Mutant: no backend stays limited.
NoLimitedBackends == {}

\* relaxAction.HandleAccount: backends that a scoped row still limits.
LimitedBackends ==
  {ClassOf(journal[i]).mode : i \in
     {j \in agent.kept : /\ journal[j].account = agent.account
                         /\ IsScoped(ClassOf(journal[j]))
                         /\ ClassOf(journal[j]).action = "limit"}}

\* Mutant: only a scoped class restores anything.
RestorableScoped(s) == agent.class.mode = Backend[s]

Restorable(s) ==
  \/ ~IsScoped(agent.class) /\ Backend[s] \notin LimitedBackends
  \/ agent.class.mode = Backend[s]

RestoreEnv(e) ==
  /\ agent.pc = "restore" /\ agent.shares = {} /\ e \in agent.envs
  /\ agent' = [agent EXCEPT !.envs = @ \ {e}, !.shares = {s \in LiveShares(e) : Restorable(s)}]
  /\ UNCHANGED <<db, usage, dial, timer, due, handler>>

\* A policy that exists cannot be created again; the error ends the share's
\* turn, so that of a private share's accesses those after it are left out.
\* The error is logged and relaxing goes on.
RestoreShare(s) ==
  /\ agent.pc = "restore" /\ s \in agent.shares
  /\ \E added \in SUBSET (WantedPolicies(s) \ dial) :
       /\ (WantedPolicies(s) \cap dial = {} /\ "edge" \notin Faults)
            => added = WantedPolicies(s)
       /\ dial' = dial \cup added
  /\ agent' = [agent EXCEPT !.shares = @ \ {s}]
  /\ UNCHANGED <<db, usage, timer, due, handler>>

\* Mutant: the rows are deleted outside the transaction.
RestoreDoneAtOnce ==
  /\ agent.pc = "restore" /\ agent.envs = {} /\ agent.shares = {}
  /\ journal' = Keep(agent.kept \ Group(agent.account, agent.class.id))
  /\ agent' = [agent EXCEPT !.pc = "relax", !.account = None, !.class = None,
                            !.kept = DOMAIN journal']
  /\ UNCHANGED <<share, access, usage, dial, timer, due, handler>>

RestoreDone ==
  /\ agent.pc = "restore" /\ agent.envs = {} /\ agent.shares = {}
  /\ agent' = [agent EXCEPT !.pc = "relax", !.account = None, !.class = None,
                            !.kept = @ \ Group(agent.account, agent.class.id)]
  /\ UNCHANGED <<db, usage, dial, timer, due, handler>>

RelaxEnds(rows) ==
  /\ journal' = Keep(rows)
  /\ agent' = Idle
  /\ timer' = "armed"
  /\ due' = FALSE
  /\ UNCHANGED <<share, access, usage, dial, handler>>

RelaxCommit == /\ agent.pc = "relax" /\ agent.todo = {}
               /\ RelaxEnds(agent.kept)

\* The metrics store does not answer for a row, OpenZiti cannot be reached when
\* relaxAction starts, or the commit fails: the transaction is rolled back, the
\* policies restored so far stay.
RelaxFails ==
  /\ agent.pc = "relax"
  /\ \/ "influx" \in Faults /\ \E i \in agent.todo : Query(i) \notin agent.asked
     \/ /\ "edge" \in Faults
        /\ \E i \in agent.todo : ~Exceeded(i) /\ ClassOf(journal[i]).action = "limit"
     \/ "commit" \in Faults /\ agent.todo = {}
  /\ RelaxEnds(DOMAIN journal)
-----------------------------------------------------------------------------
(* The request handlers: a transaction begins and checks, OpenZiti is      *)
(* changed, the transaction commits.                                       *)

Begin(h, op, id) ==
  /\ handler[h] = NoRequest /\ CanBegin
  /\ handler' = [handler EXCEPT ![h] = [op |-> op, id |-> id, step |-> "checked"]]
  /\ UNCHANGED <<db, usage, dial, agent, timer, due>>

ShareBegin(h, s) ==
  /\ share[s] = "none" /\ \A g \in Handlers : handler[g].id # s
  /\ Account(s) \in Limitless \/ BandwidthAllows(s)
  /\ Begin(h, "share", s)

\* Mutant: an access is not checked for bandwidth.
AccessBeginUnchecked(h, f) ==
  /\ access[f] = "none" /\ \A g \in Handlers : handler[g].id # f
  /\ share[FeShare[f]] = "live"
  /\ Begin(h, "access", f)

\* The limitless column is not looked at.
AccessBegin(h, f) ==
  /\ access[f] = "none" /\ \A g \in Handlers : handler[g].id # f
  /\ share[FeShare[f]] = "live"
  /\ BandwidthAllows(FeShare[f])
  /\ Begin(h, "access", f)

UnshareBegin(h, s) == share[s] = "live" /\ Begin(h, "unshare", s)

UnaccessBegin(h, f) == access[f] = "live" /\ Begin(h, "unaccess", f)

\* The dial policies after the handler's changes; a private share has none of
\* its own.
DialAfter(op, id) ==
  CASE op = "share" -> dial \cup ({id} \cap Public)
    [] op = "access" -> dial \cup {id}
    [] op = "unshare" -> dial \ DialPolicies(id)
    [] op = "unaccess" -> dial \ {id}

\* An unaccess that comes with the token of another share deletes no policy
\* (unaccess.go:71).
ChangeZiti(h) ==
  /\ handler[h].step = "checked"
  /\ \/ dial' = DialAfter(handler[h].op, handler[h].id)
     \/ handler[h].op = "unaccess" /\ UNCHANGED dial
  /\ handler' = [handler EXCEPT ![h].step = "changed"]
  /\ UNCHANGED <<db, usage, agent, timer, due>>

Commit(h) ==
  /\ handler[h].step = "changed"
  /\ LET r == handler[h] IN
       /\ share' = CASE r.op = "share" -> [share EXCEPT ![r.id] = "live"]
                     [] r.op = "unshare" -> [share EXCEPT ![r.id] = "deleted"]
                     [] OTHER -> share
       /\ access' = CASE r.op = "access" -> [access EXCEPT ![r.id] = "live"]
                      [] r.op = "unaccess" -> [access EXCEPT ![r.id] = "deleted"]
                      [] OTHER -> access
  /\ handler' = [handler EXCEPT ![h] = NoRequest]
  /\ UNCHANGED <<journal, usage, dial, agent, timer, due>>

\* The handler answers with an error and its transaction is rolled back.
Fail(h) ==
  /\ \/ "edge" \in Faults /\ handler[h].step = "checked"
     \/ "commit" \in Faults /\ handler[h].step = "changed"
  /\ handler' = [handler EXCEPT ![h] = NoRequest]
  /\ UNCHANGED <<db, usage, dial, agent, timer, due>>

\* The controller process dies and is started again.
Crash ==
  /\ "crash" \in Faults
  /\ ~NoTransaction
  /\ agent' = Idle
  /\ handler' = [h \in Handlers |-> NoRequest]
  /\ timer' = "armed" /\ due' = FALSE
  /\ UNCHANGED <<db, usage, dial>>
-----------------------------------------------------------------------------
World == (\E a \in Accounts : Traffic(a)) \/ Crash
Clock == CyclePasses \/ TimerRuns \/ TimerFires

Receive == \/ \E s \in Shares : ReportIgnored(s) \/ ReportWarns(s) \/ ReportLimits(s)
           \/ ReportWithoutToken

Cut == \/ \E e \in Envs : CutEnv(e)
       \/ \E s \in Shares : CutShare(s) \/ CutFails(s)
       \/ CutCommit

Relax == \/ \E i \in DOMAIN journal : RelaxKeeps(i) \/ RelaxWarning(i) \/ RelaxLimit(i)
         \/ \E e \in Envs : RestoreEnv(e)
         \/ \E s \in Shares : RestoreShare(s)
         \/ RestoreDone \/ RelaxCommit \/ RelaxFails

Request(h) == \/ \E s \in Shares : ShareBegin(h, s) \/ UnshareBegin(h, s)
              \/ \E f \in Frontends : AccessBegin(h, f) \/ UnaccessBegin(h, f)

Finish(h) == ChangeZiti(h) \/ Commit(h) \/ Fail(h)

Next == \/ World \/ Clock \/ Receive \/ Cut \/ AfterReport \/ TimerRelax \/ Relax
        \/ \E h \in Handlers : Request(h) \/ Finish(h)

Spec == Init /\ [][Next]_vars

\* Time passes, the agent's goroutine and the handlers run, and a waiting
\* transaction gets its turn: database/sql queues the waiters for a connection.
FairSpec ==
  /\ Spec
  /\ WF_vars(CyclePasses) /\ WF_vars(TimerRuns) /\ WF_vars(TimerFires)
  /\ WF_vars(Cut) /\ WF_vars(Relax)
  /\ SF_vars(AfterReport) /\ SF_vars(TimerRelax)
  /\ \A h \in Handlers : WF_vars(Finish(h))
-----------------------------------------------------------------------------
(* Properties.                                                             *)

Rows == [account : Accounts, class : Int \cup {Global}, action : {"warning", "limit"}]

TypeOK ==
  /\ journal \in Seq(Rows)
  /\ \A a \in Accounts, p \in Periods : usage[a][p] \in [rx : Nat, tx : Nat]
  /\ share \in [Shares -> Status]
  /\ access \in [Frontends -> Status]
  /\ dial \subseteq Shares \cup Frontends
  /\ agent.pc \in {"loop", "cycle", "cut", "relax", "restore"}
  /\ agent.envs \subseteq Envs /\ agent.shares \subseteq Shares
  /\ agent.kept \subseteq DOMAIN journal /\ agent.todo \subseteq DOMAIN journal
  /\ timer \in {"armed", "running", "fired"} /\ due \in BOOLEAN
  /\ \A h \in Handlers : handler[h].step \in {"none", "checked", "changed"}

\* No transaction is half done.
Quiet == NoTransaction

\* Class c is one whose excess limits share s.
Governs(c, s) == IF IsScoped(c) THEN Backend[s] = c.mode
                 ELSE Backend[s] \notin Scopes(Account(s))

LimitRow(i, s) == /\ journal[i].account = Account(s)
                  /\ journal[i].action = "limit"
                  /\ Governs(ClassOf(journal[i]), s)

LimitInForce(s) == \E i \in DOMAIN journal : LimitRow(i, s)

\* The rows of one class alternate between warning and limit: what is already
\* journaled last is not journaled again (enforce, agent.go:288-331), whatever
\* fails and however often reports and relax cycles alternate.
JournalAlternates ==
  \A a \in Accounts, i, j \in DOMAIN journal :
    (/\ i < j /\ journal[i].account = a /\ journal[j] = journal[i])
      => \E k \in (i + 1)..(j - 1) : /\ k \in Group(a, journal[i].class)
                                     /\ journal[k].action # journal[i].action

\* A share that a journaled limit governs has no dial policy, no matter when it
\* or its accesses were created, or which other class was relaxed meanwhile
\* (limitAction.go, agent.go:91-109 and 175-193, relaxAction.go:52-73).
CutWhileLimited ==
  Quiet => \A s \in Shares : share[s] = "live" /\ LimitInForce(s) => DialPolicies(s) = {}

\* A share that no journaled limit governs can be dialed through every frontend
\* it has: what enforce removed was put back when its row went away
\* (relaxAction.go:52-121).
OpenWhenFree ==
  Quiet => \A s \in Shares :
             share[s] = "live" /\ ~LimitInForce(s) => WantedPolicies(s) \subseteq dial

\* A limit row is deleted only by a relax cycle that saw its class not exceeded
\* (agent.go:397-421).
LimitKeptWhileOver ==
  [][\A i \in DOMAIN journal :
       (/\ journal[i].action = "limit"
        /\ ~\E j \in DOMAIN journal' : journal'[j] = journal[i]) => ~Exceeded(i)]_vars

\* A share is refused for bandwidth only while a limit governs it; a warning
\* only sends an email (agent.go:80-109).
WarningOnlyWarns ==
  \A s \in Shares : ~LimitInForce(s) => BandwidthAllows(s)

\* Once the transfers of an account stay below every class, its live shares can
\* again and again be dialed through all their frontends.
Below(a) == \A s \in Shares : Account(s) = a =>
              ~AnyExceeded(usage[a], BandwidthArray(a, Backend[s]))

Open(a) == \A s \in Shares : Account(s) = a /\ share[s] = "live" => WantedPolicies(s) \subseteq dial

RestoredEventually == \A a \in Accounts : <>[]Below(a) => []<>Open(a)
=============================================================================
