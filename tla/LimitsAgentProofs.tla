-------------------------- MODULE LimitsAgentProofs --------------------------
(***************************************************************************)
(* What holds of LimitsAgent for all accounts, classes, shares and         *)
(* accesses, for any journal and any interleaving with request handlers.   *)
(***************************************************************************)
EXTENDS LimitsAgent, FiniteSetTheorems, SequenceTheorems, TLAPS

(***************************************************************************)
(* Types.                                                                  *)
(***************************************************************************)
Usage == [Accounts -> [Periods -> [rx : Nat, tx : Nat]]]

AgentState ==
  [pc : {"loop", "cycle", "cut", "relax", "restore"},
   account : Accounts \cup {None}, class : LimitClass \cup {None},
   envs : SUBSET Envs, shares : SUBSET Shares,
   todo : SUBSET Nat, kept : SUBSET Nat,
   used : Usage \cup {<<>>}, asked : SUBSET (Accounts \X Nat)]

HandlerState ==
  [op : {"none", "share", "access", "unshare", "unaccess"},
   id : Shares \cup Frontends \cup {None}, step : {"none", "checked", "changed"}]

\* What a handler can be busy with.
LegalHandler(q) ==
  \/ q = NoRequest
  \/ q.op \in {"share", "unshare"} /\ q.id \in Shares /\ q.step \in {"checked", "changed"}
  \/ q.op \in {"access", "unaccess"} /\ q.id \in Frontends /\ q.step \in {"checked", "changed"}

TypeInv ==
  /\ journal \in Seq(Rows)
  /\ usage \in Usage
  /\ share \in [Shares -> Status]
  /\ access \in [Frontends -> Status]
  /\ dial \subseteq Shares \cup Frontends
  /\ agent \in AgentState
  /\ timer \in {"armed", "running", "fired"} /\ due \in BOOLEAN
  /\ handler \in [Handlers -> HandlerState]
  /\ \A h \in Handlers : LegalHandler(handler[h])

(***************************************************************************)
(* The invariant of the journal, whatever fails and on either store.       *)
(***************************************************************************)

\* The bandwidth classes that account a can exceed.
Classes(a) ==
  {BandwidthClass(a, "warning"), BandwidthClass(a, "limit")}
    \cup {ScopedClass(a, m) : m \in Scopes(a)}

\* A row was written for one of them.
Sound(e) == /\ e.account \in Accounts \ Limitless
            /\ \E c \in Classes(e.account) : e = Entry(e.account, c)

JournalSound == \A i \in DOMAIN journal : Sound(journal[i])

\* While policies are cut the class is still one to be journaled.
Cutting ==
  agent.pc = "cut" =>
    /\ agent.account \in Accounts \ Limitless
    /\ agent.class \in Classes(agent.account) /\ agent.class.action = "limit"
    /\ ~IsLimited(agent.account, agent.class)

SameGroup(i, j) ==
  journal[i].account = journal[j].account /\ journal[i].class = journal[j].class

\* A relax cycle forgets whole groups, and restores what a row is about.
Relaxing ==
  /\ agent.todo \subseteq DOMAIN journal /\ agent.kept \subseteq DOMAIN journal
  /\ \A i \in DOMAIN journal \ agent.kept, j \in agent.kept : ~SameGroup(i, j)
  /\ agent.pc \in {"relax", "restore"} => agent.used \in Usage
  /\ agent.pc = "restore" =>
       /\ agent.account \in Accounts
       /\ agent.class \in Classes(agent.account) /\ agent.class.action = "limit"
       /\ \E i \in DOMAIN journal : /\ journal[i].account = agent.account
                                    /\ ClassOf(journal[i]) = agent.class

JournalInv == TypeInv /\ JournalSound /\ Cutting /\ Relaxing /\ JournalAlternates

(***************************************************************************)
(* What a relax cycle forgets is not exceeded, if whoever exceeds the      *)
(* limit of the configuration has exceeded its warning.                    *)
(***************************************************************************)
WarnsFirst ==
  \A u \in [rx : Nat, tx : Nat] :
    TransferExceeded(u, Config["limit"]) => TransferExceeded(u, Config["warning"])

ForgetsRelaxed ==
  /\ agent.pc \in {"relax", "restore"} =>
       \A i \in DOMAIN journal \ agent.kept : journal[i].action = "limit" => ~Exceeded(i)
  /\ agent.pc = "restore" =>
       ~TransferExceeded(agent.used[agent.account][agent.class.period], agent.class)

(***************************************************************************)
(* Limits and dial policies on sqlite, when nothing fails.                 *)
(***************************************************************************)

\* One transaction is open at a time.
Alone ==
  /\ \A g, h \in Handlers : g # h => handler[g] = NoRequest \/ handler[h] = NoRequest
  /\ agent.pc \notin {"loop", "cycle"} => \A h \in Handlers : handler[h] = NoRequest

\* What a handler has checked is still so.
Checked(q) ==
  /\ q.op = "share" => share[q.id] = "none" /\ ~LimitInForce(q.id)
  /\ q.op = "access" => /\ access[q.id] = "none" /\ share[FeShare[q.id]] = "live"
                        /\ ~LimitInForce(FeShare[q.id])
  /\ q.op = "unshare" => share[q.id] = "live"
  /\ q.op = "unaccess" => access[q.id] = "live"

Shut(s) == DialPolicies(s) = {}

\* The rows that are in force at this point of a relax cycle.
Standing ==
  CASE agent.pc = "relax" -> agent.kept
    [] agent.pc = "restore" -> agent.kept \ Group(agent.account, agent.class.id)
    [] OTHER -> DOMAIN journal

StandingShut ==
  \A s \in Shares, i \in Standing : share[s] = "live" /\ LimitRow(i, s) => Shut(s)

CutSoFar ==
  agent.pc = "cut" =>
    \A s \in Shares :
      (/\ share[s] = "live" /\ Account(s) = agent.account
       /\ Backend[s] \notin IgnoredBackends(agent.account, agent.class))
        => ShareEnv[s] \in agent.envs \/ s \in agent.shares \/ Shut(s)

\* The environments and shares that the agent has left to do.
EnvsLeft ==
  agent.pc \in {"cut", "restore"} => \A e \in agent.envs : EnvAccount[e] = agent.account

RestoresOnly ==
  /\ agent.pc = "relax" => agent.shares = {}
  /\ agent.pc = "restore" =>
       \A s \in agent.shares : share[s] = "live" /\ Account(s) = agent.account /\ Restorable(s)

PoliciesInv ==
  /\ Alone /\ EnvsLeft
  /\ \A h \in Handlers : Checked(handler[h])
  /\ StandingShut /\ CutSoFar /\ RestoresOnly

CutInv == JournalInv /\ PoliciesInv

(***************************************************************************)
(* What no limit governs is open, where no class is scoped.                *)
(***************************************************************************)
Unscoped == \A a \in Accounts : Scopes(a) = {}

Reachable(s) == WantedPolicies(s) \subseteq dial

\* The objects whose policies a handler has removed already.
Removing == {handler[h].id : h \in {g \in Handlers : /\ handler[g].op \in {"unshare", "unaccess"}
                                                     /\ handler[g].step = "changed"}}

FreeOpen ==
  agent.pc # "cut" =>
    \A s \in Shares \ Removing :
      share[s] = "live" /\ ~LimitInForce(s) => WantedPolicies(s) \ Removing \subseteq dial

OthersOpen ==
  agent.pc = "cut" =>
    /\ \A s \in agent.shares : Account(s) = agent.account
    /\ \A s \in Shares :
         share[s] = "live" /\ ~LimitInForce(s) /\ Account(s) # agent.account => Reachable(s)

\* The policies of what is created are there before its row.
CreatedOpen ==
  \A h \in Handlers :
    handler[h].step = "changed" =>
      /\ handler[h].op = "share" => {handler[h].id} \cap Public \subseteq dial
      /\ handler[h].op = "access" => handler[h].id \in dial

AccessedOnce == \A f \in Frontends : access[f] # "none" => share[FeShare[f]] # "none"

\* In a relax cycle a share is open or shut, and open once a limit on it has
\* been relaxed.
Restoring ==
  agent.pc \in {"relax", "restore"} =>
    \A s \in Shares : share[s] = "live" =>
      /\ Shut(s) \/ Reachable(s)
      /\ agent.pc = "restore" /\ Account(s) = agent.account =>
           ShareEnv[s] \in agent.envs \/ s \in agent.shares \/ Reachable(s)
      /\ ~(agent.pc = "restore" /\ Account(s) = agent.account) =>
           \A i \in DOMAIN journal \ agent.todo : LimitRow(i, s) => Exceeded(i) \/ Reachable(s)

ReachInv == FreeOpen /\ OthersOpen /\ CreatedOpen /\ AccessedOnce /\ Restoring

OpenInv == CutInv /\ ForgetsRelaxed /\ ReachInv
-----------------------------------------------------------------------------
(* Positions: those of a set of rows have ranks, and one comes last.       *)

Rank(rows, i) == Cardinality({j \in rows : j < i})

LEMMA Ranks ==
  ASSUME NEW n \in Nat, NEW rows \in SUBSET (1..n)
  PROVE  /\ Cardinality(rows) \in Nat
         /\ \A i \in rows : Rank(rows, i) \in 0..(Cardinality(rows) - 1)
         /\ \A i, j \in rows : i < j => Rank(rows, i) < Rank(rows, j)
         /\ \A k \in 0..(Cardinality(rows) - 1) : \E i \in rows : Rank(rows, i) = k
<1> DEFINE size == Cardinality(rows)
           range == 0..(size - 1)
<1>1. IsFiniteSet(1..n)
    BY FS_Interval
<1>2. IsFiniteSet(rows) /\ size \in Nat
    BY <1>1, FS_Subset, FS_CardinalityType
<1>3. ASSUME NEW i \in rows, NEW S \in SUBSET rows, i \notin S
      PROVE  IsFiniteSet(S) /\ Cardinality(S) \in Nat /\ Cardinality(S) < size
  <2>1. IsFiniteSet(S) /\ Cardinality(S) <= size /\ (size = Cardinality(S) => rows = S)
      BY <1>2, FS_Subset
  <2>2. Cardinality(S) \in Nat
      BY <2>1, FS_CardinalityType
  <2> QED BY <1>2, <1>3, <2>1, <2>2
<1>4. ASSUME NEW i \in rows PROVE Rank(rows, i) \in range
  <2> DEFINE S == {j \in rows : j < i}
  <2>1. S \in SUBSET rows /\ i \notin S
      OBVIOUS
  <2>2. Cardinality(S) \in Nat /\ Cardinality(S) < size
      BY <1>3, <2>1
  <2> QED BY <1>2, <2>2 DEF Rank
<1>5. ASSUME NEW i \in rows, NEW j \in rows, i < j PROVE Rank(rows, i) < Rank(rows, j)
  <2> DEFINE S == {k \in rows : k < i}
             T == {k \in rows : k < j}
  <2>1. S \in SUBSET T /\ i \in T /\ i \notin S
    <3>1. \A k \in rows : k \in Int
        OBVIOUS
    <3>2. \A k \in rows : k < i => k < j
        BY <1>5, <3>1
    <3>3. \A k \in S : k \in T
        BY <3>2
    <3>4. i \in T /\ ~(i < i)
        BY <1>5, <3>1
    <3> QED BY <3>3, <3>4
  <2>2. IsFiniteSet(T)
      BY <1>2, FS_Subset
  <2>3. IsFiniteSet(S) /\ Cardinality(S) <= Cardinality(T)
        /\ (Cardinality(T) = Cardinality(S) => T = S)
      BY <2>1, <2>2, FS_Subset
  <2>4. Cardinality(S) \in Nat /\ Cardinality(T) \in Nat
      BY <2>2, <2>3, FS_CardinalityType
  <2> QED BY <2>1, <2>3, <2>4 DEF Rank
<1>6. \A k \in range : \E i \in rows : Rank(rows, i) = k
  <2> DEFINE r == [i \in rows |-> Rank(rows, i)]
  <2>1. r \in [rows -> range]
      BY <1>4
  <2>2. \A i, j \in rows : r[i] = r[j] => i = j
    <3> SUFFICES ASSUME NEW i \in rows, NEW j \in rows, i # j
                 PROVE  Rank(rows, i) # Rank(rows, j)
        OBVIOUS
    <3>1. i < j \/ j < i
        OBVIOUS
    <3>2. Rank(rows, i) \in Int /\ Rank(rows, j) \in Int
        BY <1>2, <1>4
    <3> QED BY <1>5, <3>1, <3>2
  <2>3. r \in Injection(rows, range)
      BY <2>1, <2>2 DEF Injection, IsInjective
  <2>4. IsFiniteSet(range) /\ Cardinality(range) = size
      BY <1>2, FS_Interval
  <2>5. r \in Surjection(rows, range)
      BY <2>3, <2>4, FS_Injection
  <2> QED BY <2>1, <2>5 DEF Surjection
<1> QED BY <1>2, <1>4, <1>5, <1>6

LEMMA MaxExists ==
  ASSUME NEW n \in Nat, NEW rows \in SUBSET (1..n), rows # {}
  PROVE  \E i \in rows : \A j \in rows : j <= i
<1>1. PICK k \in rows : TRUE
    OBVIOUS
<1>2. Cardinality(rows) - 1 \in 0..(Cardinality(rows) - 1)
  <2>1. Rank(rows, k) \in 0..(Cardinality(rows) - 1) /\ Cardinality(rows) \in Nat
      BY <1>1, Ranks
  <2> QED BY <2>1
<1>3. PICK i \in rows : Rank(rows, i) = Cardinality(rows) - 1
    BY <1>2, Ranks
<1>4. ASSUME NEW j \in rows PROVE j <= i
  <2>1. Rank(rows, j) \in 0..(Cardinality(rows) - 1) /\ Cardinality(rows) \in Nat
      BY Ranks
  <2>2. i < j => Rank(rows, i) < Rank(rows, j)
      BY Ranks
  <2> QED BY <1>3, <2>1, <2>2
<1> QED BY <1>4

\* Keep(rows) lists the rows in their order and leaves none out.
LEMMA Kept ==
  ASSUME journal \in Seq(Rows), NEW rows \in SUBSET DOMAIN journal
  PROVE  \E g \in [1..Cardinality(rows) -> rows] :
           /\ Cardinality(rows) \in Nat
           /\ \A m, n \in 1..Cardinality(rows) : m < n => g[m] < g[n]
           /\ \A i \in rows : \E n \in 1..Cardinality(rows) : g[n] = i
           /\ Keep(rows) = [n \in 1..Cardinality(rows) |-> journal[g[n]]]
<1> DEFINE size == Cardinality(rows)
           At(n) == CHOOSE i \in rows : Rank(rows, i) = n - 1
           g == [n \in 1..size |-> At(n)]
<1>0. Len(journal) \in Nat /\ rows \in SUBSET (1..Len(journal))
    OBVIOUS
<1>1. size \in Nat
    BY <1>0, Ranks
<1>2. ASSUME NEW n \in 1..size PROVE At(n) \in rows /\ Rank(rows, At(n)) = n - 1
  <2>1. n - 1 \in 0..(size - 1)
      BY <1>1
  <2>2. \E i \in rows : Rank(rows, i) = n - 1
      BY <1>0, <2>1, Ranks
  <2> QED BY <2>2
<1>3. g \in [1..size -> rows]
    BY <1>2
<1>4. ASSUME NEW m \in 1..size, NEW n \in 1..size, m < n PROVE g[m] < g[n]
  <2>1. Rank(rows, g[m]) = m - 1 /\ Rank(rows, g[n]) = n - 1
      BY <1>2
  <2>2. g[m] \in rows /\ g[n] \in rows
      BY <1>3
  <2> DEFINE i == g[m]
             j == g[n]
  <2> HIDE DEF i, j, g
  <2>3. j < i => Rank(rows, j) < Rank(rows, i)
      BY <1>0, <2>2, Ranks DEF i, j
  <2>4. m - 1 < n - 1 /\ m \in Int /\ n \in Int
      BY <1>1, <1>4
  <2>5. ~(j < i) /\ i # j
      BY <2>1, <2>3, <2>4 DEF i, j
  <2>6. i \in Int /\ j \in Int
      BY <1>0, <2>2 DEF i, j
  <2>7. i < j
      BY <2>5, <2>6
  <2> QED BY <2>7 DEF i, j
<1>5. ASSUME NEW i \in rows PROVE \E n \in 1..size : g[n] = i
  <2>1. Rank(rows, i) \in 0..(size - 1)
      BY <1>0, Ranks
  <2> DEFINE n == Rank(rows, i) + 1
  <2>2. n \in 1..size /\ n - 1 = Rank(rows, i)
      BY <1>1, <2>1
  <2> HIDE DEF n
  <2>3. Rank(rows, g[n]) = Rank(rows, i) /\ g[n] \in rows
      BY <1>2, <2>2
  <2> DEFINE j == g[n]
  <2>4. (j < i => Rank(rows, j) < Rank(rows, i)) /\ (i < j => Rank(rows, i) < Rank(rows, j))
      BY <1>0, <2>3, Ranks
  <2>5. j \in Int /\ i \in Int /\ Rank(rows, i) \in Int /\ Rank(rows, j) = Rank(rows, i)
      BY <1>0, <2>1, <2>3
  <2> HIDE DEF j, g
  <2>6. j = i
      BY <2>4, <2>5
  <2> QED BY <2>2, <2>6 DEF j
<1>6. Keep(rows) = [n \in 1..size |-> journal[g[n]]]
    BY DEF Keep, Rank
<1> QED BY <1>1, <1>3, <1>4, <1>5, <1>6

LEMMA KeepAll ==
  ASSUME journal \in Seq(Rows), NEW rows \in SUBSET DOMAIN journal
  PROVE  /\ Keep(rows) \in Seq(Rows)
         /\ \A n \in DOMAIN Keep(rows) : \E i \in rows : Keep(rows)[n] = journal[i]
         /\ \A i \in rows : \E n \in DOMAIN Keep(rows) : Keep(rows)[n] = journal[i]
<1>1. PICK g \in [1..Cardinality(rows) -> rows] :
           /\ Cardinality(rows) \in Nat
           /\ \A i \in rows : \E n \in 1..Cardinality(rows) : g[n] = i
           /\ Keep(rows) = [n \in 1..Cardinality(rows) |-> journal[g[n]]]
    BY Kept
<1>2. \A i \in DOMAIN journal : journal[i] \in Rows
    OBVIOUS
<1>3. Keep(rows) \in [1..Cardinality(rows) -> Rows]
    BY <1>1, <1>2
<1>4. Keep(rows) \in Seq(Rows)
  <2> DEFINE n == Cardinality(rows)
             K == Keep(rows)
  <2>1. n \in Nat /\ K \in [1..n -> Rows]
      BY <1>1, <1>3
  <2> HIDE DEF n, K
  <2>2. K \in Seq(Rows)
      BY <2>1
  <2> QED BY <2>2 DEF K
<1>5. ASSUME NEW n \in DOMAIN Keep(rows) PROVE \E i \in rows : Keep(rows)[n] = journal[i]
  <2>1. n \in 1..Cardinality(rows)
      BY <1>3
  <2>2. g[n] \in rows /\ Keep(rows)[n] = journal[g[n]]
      BY <1>1, <2>1
  <2> QED BY <2>2
<1>6. ASSUME NEW i \in rows PROVE \E n \in DOMAIN Keep(rows) : Keep(rows)[n] = journal[i]
  <2>1. PICK n \in 1..Cardinality(rows) : g[n] = i
      BY <1>1
  <2>2. n \in DOMAIN Keep(rows) /\ Keep(rows)[n] = journal[i]
      BY <1>1, <1>3, <2>1
  <2> QED BY <2>2
<1> QED BY <1>4, <1>5, <1>6
-----------------------------------------------------------------------------
(* Classes.                                                                *)

LEMMA LastIsApplied ==
  ASSUME NEW a \in Accounts, NEW rows \in SUBSET DOMAIN Applied[a], NEW default
  PROVE  /\ rows = {} => LastApplied(a, rows, default) = default
         /\ rows # {} => \E i \in rows : LastApplied(a, rows, default) = Applied[a][i]
<1>1. CASE rows = {}
    BY <1>1 DEF LastApplied
<1>2. CASE rows # {}
  <2>1. Len(Applied[a]) \in Nat /\ rows \in SUBSET (1..Len(Applied[a]))
      BY LimitClassesAssumption
  <2>2. \E i \in rows : \A j \in rows : j <= i
      BY <1>2, <2>1, MaxExists
  <2> QED BY <1>2, <2>2 DEF LastApplied
<1> QED BY <1>1, <1>2

\* The class an account has for an action is unscoped and has the action.
LEMMA UnscopedClass ==
  ASSUME NEW a \in Accounts, NEW action \in {"warning", "limit"}
  PROVE  LET c == BandwidthClass(a, action)
         IN  /\ c \in LimitClass /\ c.action = action /\ c.mode = AnyMode
             /\ \/ c = Config[action]
                \/ \E i \in DOMAIN Applied[a] : c = Applied[a][i]
<1> DEFINE rows == {i \in DOMAIN Applied[a] :
                      /\ IsUnscopedBandwidthClass(Applied[a][i])
                      /\ (Applied[a][i].action = "warning") = (action = "warning")}
           c == LastApplied(a, rows, Config[action])
<1>1. BandwidthClass(a, action) = c
    BY DEF BandwidthClass, RowsOf
<1>2. \A i \in DOMAIN Applied[a] : /\ Applied[a][i] \in LimitClass
                                   /\ Applied[a][i].action \in {"warning", "limit"}
  <2>1. \A x \in LimitClass : x.action \in {"warning", "limit"}
      BY DEF LimitClass
  <2>2. \A i \in DOMAIN Applied[a] : Applied[a][i] \in LimitClass
      BY LimitClassesAssumption
  <2> QED BY <2>1, <2>2
<1>3. rows \in SUBSET DOMAIN Applied[a]
    OBVIOUS
<1>4. CASE rows = {}
  <2>1. c = Config[action]
      BY <1>3, <1>4, LastIsApplied
  <2> QED BY <1>1, <2>1, LimitClassesAssumption
<1>5. CASE rows # {}
  <2> HIDE DEF rows
  <2>1. PICK i \in rows : c = Applied[a][i]
      BY <1>3, <1>5, LastIsApplied
  <2> USE DEF rows
  <2>2. Applied[a][i].action = action
      BY <1>2
  <2>3. Applied[a][i].mode = AnyMode
      BY DEF IsUnscopedBandwidthClass, IsScoped
  <2> HIDE DEF c
  <2> QED BY <1>1, <1>2, <2>1, <2>2, <2>3
<1> QED BY <1>4, <1>5

LEMMA ScopeClass ==
  ASSUME NEW a \in Accounts, NEW m \in Scopes(a)
  PROVE  /\ m \in Modes /\ ScopedClass(a, m) \in LimitClass /\ ScopedClass(a, m).mode = m
         /\ \E i \in DOMAIN Applied[a] : ScopedClass(a, m) = Applied[a][i]
<1>1. ScopedRows(a, m) # {} /\ m \in Modes
    BY DEF Scopes
<1>2. ScopedRows(a, m) =
        {i \in DOMAIN Applied[a] : IsScopedLimitClass(Applied[a][i]) /\ Applied[a][i].mode = m}
    BY DEF ScopedRows, RowsOf
<1>3. PICK i \in ScopedRows(a, m) : ScopedClass(a, m) = Applied[a][i]
  <2>1. ScopedRows(a, m) \in SUBSET DOMAIN Applied[a]
      BY <1>2
  <2> QED BY <1>1, <2>1, LastIsApplied DEF ScopedClass
<1>4. i \in DOMAIN Applied[a] /\ Applied[a][i].mode = m
    BY <1>2
<1>5. Applied[a][i] \in LimitClass
    BY <1>4, LimitClassesAssumption
<1> QED BY <1>1, <1>3, <1>4, <1>5

LEMMA ClassKinds ==
  ASSUME NEW a \in Accounts, NEW c \in Classes(a)
  PROVE  /\ c \in LimitClass /\ c.action \in {"warning", "limit"}
         /\ IsScoped(c) => /\ c.mode \in Scopes(a) /\ c = ScopedClass(a, c.mode)
                           /\ c.id # Global
         /\ ~IsScoped(c) => c = BandwidthClass(a, c.action)
         /\ \/ c = Config[c.action]
            \/ \E i \in DOMAIN Applied[a] : c = Applied[a][i]
<1>1. CASE \E action \in {"warning", "limit"} : c = BandwidthClass(a, action)
  <2>1. PICK action \in {"warning", "limit"} : c = BandwidthClass(a, action)
      BY <1>1
  <2>2. /\ c \in LimitClass /\ c.action = action /\ c.mode = AnyMode
        /\ c = Config[action] \/ \E i \in DOMAIN Applied[a] : c = Applied[a][i]
      BY <2>1, UnscopedClass
  <2> QED BY <2>1, <2>2 DEF IsScoped
<1>2. CASE \E m \in Scopes(a) : c = ScopedClass(a, m)
  <2>1. PICK m \in Scopes(a) : c = ScopedClass(a, m)
      BY <1>2
  <2>2. m \in Modes /\ c \in LimitClass /\ c.mode = m
      BY <2>1, ScopeClass
  <2>3. PICK i \in DOMAIN Applied[a] : c = Applied[a][i]
      BY <2>1, ScopeClass
  <2>4. IsScoped(c)
      BY <2>2, LimitClassesAssumption DEF IsScoped
  <2>5. c.action \in {"warning", "limit"}
      BY <2>2 DEF LimitClass
  <2>6. c.id # Global
      BY <2>3, ClassIdsAssumption
  <2> QED BY <2>1, <2>2, <2>3, <2>4, <2>5, <2>6
<1> QED BY <1>1, <1>2 DEF Classes

LEMMA ConfigClass ==
  \A k \in {"warning", "limit"} : /\ Config[k] \in LimitClass /\ Config[k].action = k
                                  /\ Config[k].id = Global /\ Config[k].mode = AnyMode
  BY LimitClassesAssumption, ClassIdsAssumption

\* A class is known by its id, a class of the configuration by its action.
LEMMA SameId ==
  ASSUME NEW a \in Accounts, NEW c \in Classes(a), NEW d \in Classes(a), c.id = d.id
  PROVE  /\ c = d \/ (c.id = Global /\ c = Config[c.action] /\ d = Config[d.action])
         /\ c.action = d.action => c = d
         /\ c.period = d.period
<1>1. c.action \in {"warning", "limit"} /\ d.action \in {"warning", "limit"}
    BY ClassKinds
<1>2. c = Config[c.action] \/ \E i \in DOMAIN Applied[a] : c = Applied[a][i]
    BY ClassKinds
<1>3. d = Config[d.action] \/ \E i \in DOMAIN Applied[a] : d = Applied[a][i]
    BY ClassKinds
<1>4. CASE c.id = Global
  <2>1. c = Config[c.action] /\ d = Config[d.action]
      BY <1>2, <1>3, <1>4, ClassIdsAssumption
  <2>2. \A j, k \in {"warning", "limit"} : Config[j].period = Config[k].period
      BY ClassIdsAssumption
  <2> QED BY <1>1, <1>4, <2>1, <2>2
<1>5. CASE c.id # Global
  <2>1. c # Config[c.action] /\ d # Config[d.action]
      BY <1>1, <1>5, ConfigClass
  <2>2. PICK i \in DOMAIN Applied[a] : c = Applied[a][i]
      BY <1>2, <2>1
  <2>3. PICK j \in DOMAIN Applied[a] : d = Applied[a][j]
      BY <1>3, <2>1
  <2>4. c = d
      BY <2>2, <2>3, ClassIdsAssumption
  <2> QED BY <2>4
<1> QED BY <1>4, <1>5

\* The class of a row is the one it was written for.
LEMMA ClassOfEntry ==
  ASSUME NEW a \in Accounts, NEW c \in Classes(a)
  PROVE  /\ ClassOf(Entry(a, c)) = c
         /\ Entry(a, c).account = a /\ Entry(a, c).class = c.id /\ Entry(a, c).action = c.action
         /\ Entry(a, c) \in Rows
<1> DEFINE e == Entry(a, c)
           rows == Applied[a]
<1>1. e.account = a /\ e.class = c.id /\ e.action = c.action
    BY DEF Entry
<1>2. c \in LimitClass /\ c.action \in {"warning", "limit"}
    BY ClassKinds
<1>3. e \in Rows
    BY <1>2 DEF Entry, Rows, LimitClass
<1>4. c = Config[c.action] \/ \E i \in DOMAIN rows : c = rows[i]
    BY ClassKinds
<1>5. CASE c.id = Global
  <2>1. c = Config[c.action]
      BY <1>4, <1>5, ClassIdsAssumption
  <2> QED BY <1>1, <1>3, <1>5, <2>1 DEF ClassOf
<1>6. CASE c.id # Global
  <2>1. c # Config[c.action]
      BY <1>2, <1>6, ConfigClass
  <2>2. PICK i \in DOMAIN rows : c = rows[i]
      BY <1>4, <2>1
  <2> DEFINE j == CHOOSE k \in DOMAIN rows : rows[k].id = c.id
  <2>3. j \in DOMAIN rows /\ rows[j].id = rows[i].id
      BY <2>2
  <2>4. rows[j] = c
      BY <2>2, <2>3, ClassIdsAssumption
  <2>5. ClassOf(e) = rows[j]
      BY <1>1, <1>6 DEF ClassOf
  <2> HIDE DEF e, rows
  <2>6. ClassOf(e) = c
      BY <2>4, <2>5
  <2> QED BY <1>1, <1>3, <2>6 DEF e
<1> QED BY <1>5, <1>6

LEMMA ShortConcatenation ==
  ASSUME NEW S, NEW u \in Seq(S), NEW v \in Seq(S), Len(u) = 2, Len(v) = 0 \/ Len(v) = 1
  PROVE  /\ \A i \in DOMAIN (u \o v) : (u \o v)[i] \in S
         /\ DOMAIN (u \o v) \in SUBSET (1..3)
<1>1. u \o v \in Seq(S) /\ (Len(u \o v) = 2 \/ Len(u \o v) = 3)
  <2> DEFINE n == Len(u \o v)
  <2>1. n = Len(u) + Len(v)
      BY ConcatProperties
  <2>2. u \o v \in Seq(S)
      BY ConcatProperties
  <2> HIDE DEF n
  <2> DEFINE x == Len(u)
             y == Len(v)
  <2>3. n = x + y /\ x = 2 /\ (y = 0 \/ y = 1)
      BY <2>1
  <2> HIDE DEF x, y
  <2>4. n = 2 \/ n = 3
      BY ONLY <2>3
  <2> QED BY <2>2, <2>4 DEF n
<1>2. DOMAIN (u \o v) = 1..Len(u \o v) /\ u \o v \in [1..Len(u \o v) -> S]
    BY <1>1, LenProperties
<1>3. 1..2 \in SUBSET (1..3)
    OBVIOUS
<1>4. DOMAIN (u \o v) \in SUBSET (1..3)
    BY <1>1, <1>2, <1>3
<1> QED BY <1>2, <1>4

\* What decides about a share, and what a report is compared with.
LEMMA ClassesOfShare ==
  ASSUME NEW a \in Accounts, NEW m
  PROVE  /\ DecidingClasses(a, m) \subseteq Classes(a)
         /\ \A i \in DOMAIN BandwidthArray(a, m) : BandwidthArray(a, m)[i] \in Classes(a)
         /\ DOMAIN BandwidthArray(a, m) \in SUBSET (1..3)
<1>1. DecidingClasses(a, m) \subseteq Classes(a)
    BY DEF DecidingClasses, Classes
<1> DEFINE w == BandwidthClass(a, "warning")
           l == BandwidthClass(a, "limit")
           c == ScopedClass(a, m)
<1>2. w \in Classes(a) /\ l \in Classes(a) /\ (m \in Scopes(a) => c \in Classes(a))
    BY DEF Classes
<1>3. <<w, l>> \in Seq(Classes(a)) /\ Len(<<w, l>>) = 2
  <2> HIDE DEF w, l, c
  <2> QED BY <1>2
<1>4. CASE m \in Scopes(a)
  <2>1. <<c>> \in Seq(Classes(a)) /\ Len(<<c>>) = 1
    <3> HIDE DEF w, l, c
    <3> QED BY <1>2, <1>4
  <2>2. BandwidthArray(a, m) = <<w, l>> \o <<c>>
      BY <1>4 DEF BandwidthArray
  <2> HIDE DEF w, l, c
  <2> QED BY <1>1, <1>3, <2>1, <2>2, ShortConcatenation
<1>5. CASE m \notin Scopes(a)
  <2>1. <<>> \in Seq(Classes(a)) /\ Len(<<>>) = 0
      OBVIOUS
  <2>2. BandwidthArray(a, m) = <<w, l>> \o <<>>
      BY <1>5 DEF BandwidthArray
  <2> HIDE DEF w, l, c
  <2> QED BY <1>1, <1>3, <2>1, <2>2, ShortConcatenation
<1> QED BY <1>4, <1>5

LEMMA AccountType == \A s \in Shares : Account(s) \in Accounts /\ Backend[s] \in Modes
  BY LimitsAgentAssumption DEF Account

LEMMA SelectedIsClass ==
  ASSUME NEW s \in Shares, Exceeds(s)
  PROVE  Selected(s) \in Classes(Account(s)) /\ Account(s) \in Accounts \ Limitless
<1> DEFINE a == Account(s)
           bwcs == BandwidthArray(a, Backend[s])
           E == ExceededPositions(usage[a], bwcs)
<1>1. a \in Accounts \ Limitless /\ E # {}
    BY AccountType DEF Exceeds, AnyExceeded
<1>2. E \in SUBSET DOMAIN bwcs
    BY DEF ExceededPositions
<1>3. E \in SUBSET (1..3)
    BY <1>1, <1>2, ClassesOfShare
<1>4. \E i \in E : \A j \in E : j <= i
    BY <1>1, <1>3, MaxExists
<1> DEFINE i == CHOOSE k \in E : \A j \in E : j <= k
<1>5. i \in E
    BY <1>4
<1>6. Selected(s) = bwcs[i]
    BY DEF Selected, SelectedClass
<1> HIDE DEF i
<1> QED BY <1>1, <1>2, <1>5, <1>6, ClassesOfShare
-----------------------------------------------------------------------------
(* The journal stays sound and alternates.                                 *)

LEMMA RowClass ==
  ASSUME JournalSound, NEW i \in DOMAIN journal
  PROVE  /\ journal[i].account \in Accounts \ Limitless
         /\ ClassOf(journal[i]) \in Classes(journal[i].account)
         /\ ClassOf(journal[i]) \in LimitClass
         /\ ClassOf(journal[i]).id = journal[i].class
         /\ ClassOf(journal[i]).action = journal[i].action
         /\ journal[i].action \in {"warning", "limit"}
         /\ journal[i] = Entry(journal[i].account, ClassOf(journal[i]))
<1> DEFINE e == journal[i]
<1>1. Sound(e)
    BY DEF JournalSound
<1> HIDE DEF e
<1>2. PICK c \in Classes(e.account) : e = Entry(e.account, c)
    BY <1>1 DEF Sound
<1>3. e.account \in Accounts \ Limitless
    BY <1>1 DEF Sound
<1>4. ClassOf(e) = c /\ e.class = c.id /\ e.action = c.action
    BY <1>2, <1>3, ClassOfEntry
<1>5. c \in LimitClass /\ c.action \in {"warning", "limit"}
    BY <1>3, ClassKinds
<1>6. /\ e.account \in Accounts \ Limitless /\ ClassOf(e) \in Classes(e.account)
      /\ ClassOf(e) \in LimitClass /\ ClassOf(e).id = e.class
      /\ ClassOf(e).action = e.action /\ e.action \in {"warning", "limit"}
      /\ e = Entry(e.account, ClassOf(e))
    BY <1>2, <1>3, <1>4, <1>5
<1> QED BY <1>6 DEF e

LEMMA SameJournal ==
  ASSUME JournalSound, JournalAlternates, UNCHANGED journal
  PROVE  JournalSound' /\ JournalAlternates'
  BY DEF JournalSound, Sound, JournalAlternates, Group

\* Row k is of the class of row i and has another action.
Between(k, i) == k \in DOMAIN journal /\ SameGroup(k, i) /\ journal[k].action # journal[i].action

LEMMA AlternatesThen ==
  ASSUME NEW size, DOMAIN journal' = 1..size,
         \A i, j \in 1..size :
           i < j /\ journal'[j] = journal'[i] => \E k \in (i + 1)..(j - 1) : Between(k, i)'
  PROVE  JournalAlternates'
<1> SUFFICES ASSUME NEW a \in Accounts, NEW i \in 1..size, NEW j \in 1..size,
                    i < j, journal'[i].account = a, journal'[j] = journal'[i]
             PROVE  \E k \in (i + 1)..(j - 1) :
                       /\ k \in DOMAIN journal' /\ journal'[k].account = a
                       /\ journal'[k].class = journal'[i].class
                       /\ journal'[k].action # journal'[i].action
    BY DEF JournalAlternates, Group
<1>1. PICK k \in (i + 1)..(j - 1) : Between(k, i)'
    OBVIOUS
<1> QED BY <1>1 DEF Between, SameGroup

\* A row is added for a class that is not limited.
LEMMA AppendedRow ==
  ASSUME journal \in Seq(Rows), JournalSound, JournalAlternates,
         NEW a \in Accounts \ Limitless, NEW c \in Classes(a), ~IsLimited(a, c),
         journal' = Append(journal, Entry(a, c))
  PROVE  journal' \in Seq(Rows) /\ JournalSound' /\ JournalAlternates'
<1> DEFINE e == Entry(a, c)
           n == Len(journal)
<1>1. e \in Rows /\ e.account = a /\ e.class = c.id /\ e.action = c.action
    BY ClassOfEntry
<1>2. n \in Nat /\ DOMAIN journal = 1..n
    BY LenProperties
<1>3. /\ journal' \in Seq(Rows) /\ DOMAIN journal' = 1..(n + 1)
      /\ \A i \in 1..n : journal'[i] = journal[i]
      /\ journal'[n + 1] = e
    BY <1>1, AppendProperties, LenProperties
<1>4. Sound(e)
    BY <1>1 DEF Sound
<1> HIDE DEF e, n
<1>5. \A i \in 1..(n + 1) : i \in 1..n \/ i = n + 1
    BY <1>2
<1>6. JournalSound'
  <2>1. \A i \in DOMAIN journal' : Sound(journal'[i])
      BY <1>2, <1>3, <1>4, <1>5 DEF JournalSound
  <2> QED BY <2>1 DEF JournalSound, Sound
<1>7. ASSUME NEW i \in 1..(n + 1), NEW j \in 1..(n + 1), i < j, journal'[j] = journal'[i]
      PROVE  \E k \in (i + 1)..(j - 1) : /\ k \in Group(journal'[i].account, journal'[i].class)
                                         /\ k \in 1..n
                                         /\ journal[k].action # journal'[i].action
  <2>1. i \in 1..n /\ journal'[i] = journal[i]
      BY <1>2, <1>3, <1>7
  <2>2. CASE j \in 1..n
    <3>1. journal[j] = journal[i] /\ journal[i].account \in Accounts
        BY <1>2, <1>3, <1>7, <2>1, <2>2, RowClass
    <3>2. PICK k \in (i + 1)..(j - 1) : /\ k \in Group(journal[i].account, journal[i].class)
                                       /\ journal[k].action # journal[i].action
        BY <1>2, <1>7, <2>1, <2>2, <3>1 DEF JournalAlternates
    <3>3. k \in 1..n
        BY <1>2, <3>2 DEF Group
    <3> QED BY <2>1, <3>2, <3>3
  <2>3. CASE j = n + 1
    <3> DEFINE G == Group(a, c.id)
    <3>1. journal[i] = e /\ i \in G
        BY <1>1, <1>2, <1>3, <1>7, <2>1, <2>3 DEF Group
    <3>2. G \in SUBSET (1..n)
        BY <1>2 DEF Group
    <3>3. PICK m \in G : \A k \in G : k <= m
        BY <1>2, <3>1, <3>2, MaxExists
    <3>4. journal[m].action # c.action
        BY <3>3 DEF IsLimited
    <3>5. m # i /\ i <= m /\ m \in 1..n
        BY <1>1, <3>1, <3>2, <3>3, <3>4
    <3>6. m \in (i + 1)..(j - 1)
        BY <1>2, <2>1, <2>3, <3>5
    <3> QED BY <1>1, <2>1, <3>1, <3>3, <3>4, <3>5, <3>6
  <2> QED BY <1>5, <2>2, <2>3
<1>8. JournalAlternates'
  <2>1. ASSUME NEW i \in 1..(n + 1), NEW j \in 1..(n + 1), i < j, journal'[j] = journal'[i]
        PROVE  \E k \in (i + 1)..(j - 1) : Between(k, i)'
    <3>1. PICK k \in (i + 1)..(j - 1) : /\ k \in Group(journal'[i].account, journal'[i].class)
                                        /\ k \in 1..n
                                        /\ journal[k].action # journal'[i].action
        BY <1>3, <1>7, <2>1
    <3>2. /\ k \in DOMAIN journal' /\ journal'[k] = journal[k]
          /\ journal[k].account = journal'[i].account /\ journal[k].class = journal'[i].class
        BY <1>2, <1>3, <3>1 DEF Group
    <3> QED BY <3>1, <3>2 DEF Between, SameGroup
  <2>2. DOMAIN journal' = 1..(n + 1)
      BY <1>3
  <2> QED BY <2>1, <2>2, AlternatesThen
<1> QED BY <1>3, <1>6, <1>8

LEMMA AppendedStays ==
  ASSUME journal \in Seq(Rows), NEW e \in Rows, journal' = Append(journal, e)
  PROVE  /\ \A i \in DOMAIN journal : i \in DOMAIN journal' /\ journal'[i] = journal[i]
         /\ \E n \in DOMAIN journal' : journal'[n] = e
<1> DEFINE n == Len(journal)
<1>1. /\ n \in Nat /\ DOMAIN journal = 1..n /\ DOMAIN journal' = 1..(n + 1)
      /\ \A i \in 1..n : journal'[i] = journal[i]
      /\ journal'[n + 1] = e
    BY AppendProperties, LenProperties
<1> HIDE DEF n
<1>2. n + 1 \in 1..(n + 1) /\ \A i \in 1..n : i \in 1..(n + 1)
    BY <1>1
<1> QED BY <1>1, <1>2

\* Whole groups of rows are forgotten.
LEMMA KeptRows ==
  ASSUME journal \in Seq(Rows), JournalSound, JournalAlternates,
         NEW rows \in SUBSET DOMAIN journal,
         \A i \in DOMAIN journal \ rows, j \in rows : ~SameGroup(i, j),
         journal' = Keep(rows)
  PROVE  journal' \in Seq(Rows) /\ JournalSound' /\ JournalAlternates'
<1> DEFINE size == Cardinality(rows)
<1>1. PICK g \in [1..size -> rows] :
           /\ size \in Nat
           /\ \A m, n \in 1..size : m < n => g[m] < g[n]
           /\ \A i \in rows : \E n \in 1..size : g[n] = i
           /\ Keep(rows) = [n \in 1..size |-> journal[g[n]]]
    BY Kept
<1>2. journal' \in Seq(Rows)
    BY KeepAll
<1>3. DOMAIN journal' = 1..size /\ \A n \in 1..size : journal'[n] = journal[g[n]]
    BY <1>1
<1>4. \A n \in 1..size : g[n] \in rows /\ g[n] \in DOMAIN journal /\ g[n] \in Int
    BY <1>1, LenProperties
<1> HIDE DEF size
<1>5. JournalSound'
  <2>1. \A n \in DOMAIN journal' : Sound(journal'[n])
      BY <1>3, <1>4 DEF JournalSound
  <2> QED BY <2>1 DEF JournalSound, Sound
<1>6. ASSUME NEW i \in 1..size, NEW j \in 1..size, i < j, journal'[j] = journal'[i]
      PROVE  \E n \in (i + 1)..(j - 1) : Between(n, i)'
  <2> DEFINE p == g[i]
             q == g[j]
  <2>1. p < q /\ p \in DOMAIN journal /\ q \in DOMAIN journal /\ journal[q] = journal[p]
        /\ p \in rows /\ journal'[i] = journal[p]
      BY <1>1, <1>3, <1>4, <1>6
  <2>2. journal[p].account \in Accounts
      BY <2>1, RowClass
  <2> HIDE DEF p, q
  <2>3. PICK k \in (p + 1)..(q - 1) : /\ k \in Group(journal[p].account, journal[p].class)
                                     /\ journal[k].action # journal[p].action
      BY <2>1, <2>2 DEF JournalAlternates
  <2>4. k \in rows
      BY <2>1, <2>3 DEF Group, SameGroup
  <2>5. PICK n \in 1..size : g[n] = k
      BY <1>1, <2>4
  <2>6. p \in Int /\ q \in Int /\ k \in Int /\ p < k /\ k < q
      BY <1>4, <2>1, <2>3 DEF p, q
  <2>7. ~(n <= i) /\ ~(j <= n)
    <3>1. n < i => k < p
        BY <1>1, <2>5 DEF p
    <3>2. n = i => k = p
        BY <2>5 DEF p
    <3>3. j < n => q < k
        BY <1>1, <2>5 DEF q
    <3>4. n = j => k = q
        BY <2>5 DEF q
    <3>5. n \in Int /\ i \in Int /\ j \in Int
        OBVIOUS
    <3> QED BY <2>6, <3>1, <3>2, <3>3, <3>4, <3>5
  <2>8. n \in (i + 1)..(j - 1)
      BY <1>1, <2>7
  <2>9. journal'[n] = journal[k] /\ n \in DOMAIN journal'
      BY <1>3, <2>5
  <2>10. /\ journal[k].account = journal[p].account
         /\ journal[k].class = journal[p].class
      BY <2>3 DEF Group
  <2> QED BY <2>1, <2>3, <2>8, <2>9, <2>10 DEF Between, SameGroup
<1>7. JournalAlternates'
    BY <1>3, <1>6, AlternatesThen
<1> QED BY <1>2, <1>5, <1>7

\* Keeping every row of the journal.
LEMMA AllKept ==
  ASSUME journal \in Seq(Rows), JournalSound, JournalAlternates, journal' = Keep(DOMAIN journal)
  PROVE  journal' \in Seq(Rows) /\ JournalSound' /\ JournalAlternates'
<1>1. \A i \in DOMAIN journal \ DOMAIN journal, j \in DOMAIN journal : ~SameGroup(i, j)
    OBVIOUS
<1> QED BY <1>1, KeptRows
-----------------------------------------------------------------------------
(* Types.                                                                  *)

LEMMA Idles ==
  /\ Idle \in AgentState /\ Cycled \in AgentState
  /\ Idle.pc = "loop" /\ Idle.todo = {} /\ Idle.kept = {}
  /\ Cycled.pc = "cycle" /\ Cycled.todo = {} /\ Cycled.kept = {}
  /\ NoRequest \in HandlerState /\ LegalHandler(NoRequest)
  BY DEF Idle, Cycled, AgentState, NoRequest, HandlerState, LegalHandler

LEMMA InitJournal == Init => JournalInv
<1> SUFFICES ASSUME Init PROVE JournalInv
    OBVIOUS
<1>1. journal \in Seq(Rows) /\ DOMAIN journal = {}
    BY DEF Init
<1>2. TypeInv
  <2>1. usage \in Usage
      BY DEF Init, Usage
  <2>2. handler \in [Handlers -> HandlerState] /\ \A h \in Handlers : LegalHandler(handler[h])
      BY Idles DEF Init
  <2> QED BY <1>1, <2>1, <2>2, Idles DEF Init, TypeInv, Status
<1>3. agent = Idle
    BY DEF Init
<1> QED BY <1>1, <1>2, <1>3, Idles
        DEF JournalInv, JournalSound, Cutting, Relaxing, JournalAlternates

\* The journal and the agent stay as they are.
LEMMA StillInv ==
  ASSUME JournalInv, TypeInv', UNCHANGED <<journal, agent>>
  PROVE  JournalInv'
<1>1. JournalSound' /\ JournalAlternates'
    BY SameJournal DEF JournalInv
<1>2. Cutting'
    BY DEF JournalInv, Cutting, IsLimited, Group
<1>3. Relaxing'
    BY DEF JournalInv, Relaxing, SameGroup
<1> QED BY <1>1, <1>2, <1>3 DEF JournalInv

\* The agent is between two transactions.
LEMMA IdleInv ==
  ASSUME JournalInv, TypeInv', JournalSound', JournalAlternates',
         agent' \in {Idle, Cycled}
  PROVE  JournalInv'
  BY Idles DEF JournalInv, Cutting, Relaxing

LEMMA TrafficInv == ASSUME JournalInv, NEW a \in Accounts, Traffic(a) PROVE JournalInv'
<1>1. PICK u \in [Periods -> Levels] : usage' = [usage EXCEPT ![a] = u]
    BY DEF Traffic
<1>2. u \in [Periods -> [rx : Nat, tx : Nat]]
    BY LimitsAgentAssumption
<1>3. usage' \in Usage
    BY <1>1, <1>2 DEF JournalInv, TypeInv, Usage
<1>4. TypeInv'
    BY <1>3 DEF JournalInv, TypeInv, Traffic, db
<1> QED BY <1>4, StillInv DEF Traffic, db

LEMMA ClockInv == ASSUME JournalInv, Clock \/ ReportWithoutToken PROVE JournalInv'
<1>1. TypeInv' /\ UNCHANGED <<journal, agent>>
    BY DEF JournalInv, TypeInv, Clock, CyclePasses, TimerRuns, TimerFires, ReportWithoutToken, db
<1> QED BY <1>1, StillInv

LEMMA CrashInv == ASSUME JournalInv, Crash PROVE JournalInv'
<1>1. handler' \in [Handlers -> HandlerState] /\ \A h \in Handlers : LegalHandler(handler'[h])
    BY Idles DEF Crash
<1>2. TypeInv'
    BY <1>1, Idles DEF JournalInv, TypeInv, Crash, db
<1>3. JournalSound' /\ JournalAlternates'
    BY SameJournal DEF JournalInv, Crash, db
<1> QED BY <1>2, <1>3, IdleInv DEF Crash

LEMMA IgnoredInv == ASSUME JournalInv, NEW s \in Shares, ReportIgnored(s) PROVE JournalInv'
<1>1. TypeInv'
    BY Idles DEF JournalInv, TypeInv, ReportIgnored, db
<1>2. JournalSound' /\ JournalAlternates'
    BY SameJournal DEF JournalInv, ReportIgnored, db
<1> QED BY <1>1, <1>2, IdleInv DEF ReportIgnored

LEMMA WarnsInv == ASSUME JournalInv, NEW s \in Shares, ReportWarns(s) PROVE JournalInv'
<1>1. /\ Selected(s) \in Classes(Account(s)) /\ Account(s) \in Accounts \ Limitless
      /\ ~IsLimited(Account(s), Selected(s))
    BY SelectedIsClass DEF ReportWarns, NewExcess
<1>2. journal' \in Seq(Rows) /\ JournalSound' /\ JournalAlternates'
    BY <1>1, AppendedRow DEF JournalInv, TypeInv, ReportWarns
<1>3. TypeInv'
    BY <1>2, Idles DEF JournalInv, TypeInv, ReportWarns
<1> QED BY <1>2, <1>3, IdleInv DEF ReportWarns

LEMMA LimitsInv == ASSUME JournalInv, NEW s \in Shares, ReportLimits(s) PROVE JournalInv'
<1> DEFINE a == Account(s)
           c == Selected(s)
<1>1. c \in Classes(a) /\ a \in Accounts \ Limitless /\ ~IsLimited(a, c) /\ c.action = "limit"
    BY SelectedIsClass DEF ReportLimits, NewExcess
<1>2. c \in LimitClass
    BY <1>1, ClassKinds
<1> HIDE DEF a, c
<1>3. /\ agent' = [Idle EXCEPT !.pc = "cut", !.account = a, !.class = c,
                               !.envs = {e \in Envs : EnvAccount[e] = a}]
      /\ UNCHANGED journal
    BY DEF ReportLimits, a, c, db
<1>4. /\ agent' \in AgentState /\ agent'.pc = "cut" /\ agent'.account = a /\ agent'.class = c
      /\ agent'.todo = {} /\ agent'.kept = {}
    BY <1>1, <1>2, <1>3 DEF Idle, AgentState
<1>5. TypeInv'
    BY <1>4 DEF JournalInv, TypeInv, ReportLimits, db
<1>6. JournalSound' /\ JournalAlternates'
    BY <1>3, SameJournal DEF JournalInv
<1>7. Cutting'
    BY <1>1, <1>3, <1>4 DEF Cutting, IsLimited, Group
<1>8. Relaxing'
    BY <1>4 DEF Relaxing
<1> QED BY <1>5, <1>6, <1>7, <1>8 DEF JournalInv

\* The agent goes on cutting.
LEMMA CutsOnInv ==
  ASSUME JournalInv, agent.pc = "cut", TypeInv', UNCHANGED journal,
         agent'.pc = agent.pc, agent'.account = agent.account, agent'.class = agent.class,
         agent'.todo = agent.todo, agent'.kept = agent.kept
  PROVE  JournalInv'
<1>1. JournalSound' /\ JournalAlternates'
    BY SameJournal DEF JournalInv
<1>2. Cutting'
    BY DEF JournalInv, Cutting, IsLimited, Group
<1>3. Relaxing'
    BY DEF JournalInv, Relaxing, SameGroup
<1> QED BY <1>1, <1>2, <1>3 DEF JournalInv

LEMMA CutEnvInv == ASSUME JournalInv, NEW e \in Envs, CutEnv(e) PROVE JournalInv'
<1>1. PICK S \in SUBSET Shares : agent' = [agent EXCEPT !.envs = @ \ {e}, !.shares = S]
    BY DEF CutEnv, LiveShares
<1>2. agent \in AgentState
    BY DEF JournalInv, TypeInv
<1>3. /\ agent' \in AgentState /\ agent'.pc = agent.pc /\ agent'.account = agent.account
      /\ agent'.class = agent.class /\ agent'.todo = agent.todo /\ agent'.kept = agent.kept
    BY <1>1, <1>2 DEF AgentState
<1>4. TypeInv'
    BY <1>3 DEF JournalInv, TypeInv, CutEnv, db
<1> QED BY <1>3, <1>4, CutsOnInv DEF CutEnv, db

LEMMA CutShareInv == ASSUME JournalInv, NEW s \in Shares, CutShare(s) PROVE JournalInv'
<1>1. agent' = [agent EXCEPT !.shares = @ \ {s}] /\ dial' \subseteq dial
    BY DEF CutShare
<1>2. agent \in AgentState
    BY DEF JournalInv, TypeInv
<1>3. /\ agent' \in AgentState /\ agent'.pc = agent.pc /\ agent'.account = agent.account
      /\ agent'.class = agent.class /\ agent'.todo = agent.todo /\ agent'.kept = agent.kept
    BY <1>1, <1>2 DEF AgentState
<1>4. TypeInv'
    BY <1>1, <1>3 DEF JournalInv, TypeInv, CutShare, db
<1> QED BY <1>3, <1>4, CutsOnInv DEF CutShare, db

LEMMA CutFailsInv == ASSUME JournalInv, NEW s \in Shares, CutFails(s) PROVE JournalInv'
<1>1. dial' \subseteq dial
    BY DEF CutFails
<1>2. TypeInv'
    BY <1>1, Idles DEF JournalInv, TypeInv, CutFails, db
<1>3. JournalSound' /\ JournalAlternates'
    BY SameJournal DEF JournalInv, CutFails, db
<1> QED BY <1>2, <1>3, IdleInv DEF CutFails

LEMMA CutCommitInv == ASSUME JournalInv, CutCommit PROVE JournalInv'
<1>1. journal' \in Seq(Rows) /\ JournalSound' /\ JournalAlternates'
  <2>1. CASE UNCHANGED journal
      BY <2>1, SameJournal DEF JournalInv, TypeInv
  <2>2. CASE journal' = Append(journal, Entry(agent.account, agent.class))
      BY <2>2, AppendedRow DEF JournalInv, TypeInv, Cutting, CutCommit
  <2> QED BY <2>1, <2>2 DEF CutCommit
<1>2. TypeInv'
    BY <1>1, Idles DEF JournalInv, TypeInv, CutCommit
<1> QED BY <1>1, <1>2, IdleInv DEF CutCommit
-----------------------------------------------------------------------------
(* The relax cycle.                                                        *)

\* Groups are forgotten whole.
LEMMA GroupForgotten ==
  ASSUME NEW kept \in SUBSET DOMAIN journal, NEW a, NEW id,
         \A i \in DOMAIN journal \ kept, j \in kept : ~SameGroup(i, j)
  PROVE  \A i \in DOMAIN journal \ (kept \ Group(a, id)), j \in kept \ Group(a, id) :
            ~SameGroup(i, j)
  BY DEF Group, SameGroup

\* The agent goes on relaxing.
LEMMA RelaxesOnInv ==
  ASSUME JournalInv, UNCHANGED journal, TypeInv',
         agent.pc \in {"relax", "restore"}, agent'.pc \in {"relax", "restore"},
         agent'.used = agent.used, agent'.todo \subseteq agent.todo,
         agent'.kept = agent.kept \/ \E a, id : agent'.kept = agent.kept \ Group(a, id),
         agent'.pc = "restore" =>
           \/ /\ agent.pc = "restore"
              /\ agent'.account = agent.account /\ agent'.class = agent.class
           \/ \E i \in DOMAIN journal : /\ agent'.account = journal[i].account
                                        /\ agent'.class = ClassOf(journal[i])
                                        /\ agent'.class.action = "limit"
  PROVE  JournalInv'
<1>1. JournalSound' /\ JournalAlternates'
    BY SameJournal DEF JournalInv
<1>2. Cutting'
    BY DEF Cutting
<1>3. agent'.todo \subseteq DOMAIN journal /\ agent'.kept \subseteq DOMAIN journal
    BY DEF JournalInv, Relaxing
<1>4. \A i \in DOMAIN journal \ agent'.kept, j \in agent'.kept : ~SameGroup(i, j)
  <2>1. /\ agent.kept \in SUBSET DOMAIN journal
        /\ \A i \in DOMAIN journal \ agent.kept, j \in agent.kept : ~SameGroup(i, j)
      BY DEF JournalInv, Relaxing
  <2>2. CASE agent'.kept = agent.kept
      BY <2>1, <2>2
  <2>3. CASE \E a, id : agent'.kept = agent.kept \ Group(a, id)
    <3>1. PICK a, id : agent'.kept = agent.kept \ Group(a, id)
        BY <2>3
    <3> QED BY <2>1, <3>1, GroupForgotten
  <2> QED BY <2>2, <2>3
<1>5. agent.used \in Usage
    BY DEF JournalInv, Relaxing
<1>6. ASSUME agent'.pc = "restore"
      PROVE  /\ agent'.account \in Accounts
             /\ agent'.class \in Classes(agent'.account) /\ agent'.class.action = "limit"
             /\ \E i \in DOMAIN journal : /\ journal[i].account = agent'.account
                                          /\ ClassOf(journal[i]) = agent'.class
  <2>1. CASE \E i \in DOMAIN journal : /\ agent'.account = journal[i].account
                                       /\ agent'.class = ClassOf(journal[i])
                                       /\ agent'.class.action = "limit"
      BY <2>1, RowClass DEF JournalInv
  <2>2. CASE /\ agent.pc = "restore"
             /\ agent'.account = agent.account /\ agent'.class = agent.class
      BY <2>2 DEF JournalInv, Relaxing
  <2> QED BY <1>6, <2>1, <2>2
<1>7. Relaxing'
    BY <1>3, <1>4, <1>5, <1>6 DEF Relaxing, SameGroup, ClassOf
<1> QED BY <1>1, <1>2, <1>7 DEF JournalInv

LEMMA RelaxBeginInv ==
  ASSUME JournalInv, AfterReport \/ TimerRelax
  PROVE  JournalInv'
<1>1. JournalSound' /\ JournalAlternates'
    BY SameJournal DEF JournalInv, AfterReport, TimerRelax, RelaxBegin, db
<1>2. CASE RelaxBegin
  <2>1. agent' = [Idle EXCEPT !.pc = "relax", !.todo = DOMAIN journal,
                              !.kept = DOMAIN journal, !.used = usage]
      BY <1>2 DEF RelaxBegin
  <2>2. DOMAIN journal \in SUBSET Nat /\ usage \in Usage
      BY LenProperties DEF JournalInv, TypeInv
  <2>3. /\ agent' \in AgentState /\ agent'.pc = "relax" /\ agent'.todo = DOMAIN journal
        /\ agent'.kept = DOMAIN journal /\ agent'.used = usage
      BY <2>1, <2>2 DEF Idle, AgentState
  <2>4. TypeInv' /\ UNCHANGED journal
      BY <1>2, <2>3 DEF RelaxBegin, JournalInv, TypeInv, db
  <2>5. Cutting' /\ Relaxing'
      BY <2>2, <2>3, <2>4 DEF Cutting, Relaxing
  <2> QED BY <1>1, <2>4, <2>5 DEF JournalInv
<1>3. CASE AfterReport /\ agent' = Idle
  <2>1. TypeInv'
      BY <1>3, Idles DEF AfterReport, RelaxBegin, JournalInv, TypeInv, db
  <2> QED BY <1>1, <1>3, <2>1, IdleInv
<1> QED BY <1>2, <1>3 DEF AfterReport, TimerRelax

LEMMA QueryType ==
  ASSUME JournalSound, NEW i \in DOMAIN journal
  PROVE  Query(i) \in Accounts \X Nat
<1>1. journal[i].account \in Accounts /\ ClassOf(journal[i]) \in LimitClass
    BY RowClass
<1>2. \A c \in LimitClass : c.period \in Nat
    BY DEF LimitClass
<1> QED BY <1>1, <1>2 DEF Query

LEMMA RelaxRowInv ==
  ASSUME JournalInv, NEW i \in DOMAIN journal, RelaxKeeps(i) \/ RelaxWarning(i) \/ RelaxLimit(i)
  PROVE  JournalInv'
<1>1. Query(i) \in Accounts \X Nat
    BY QueryType DEF JournalInv
<1>2. agent \in AgentState /\ agent.pc = "relax"
    BY DEF JournalInv, TypeInv, RelaxKeeps, RelaxWarning, RelaxLimit
<1> DEFINE T == agent.todo \ {i}
           A == agent.asked \cup {Query(i)}
<1>3. T \in SUBSET Nat /\ A \in SUBSET (Accounts \X Nat) /\ T \subseteq agent.todo
    BY <1>1, <1>2 DEF AgentState
<1> HIDE DEF T, A
<1>4. /\ agent' \in AgentState /\ agent'.pc \in {"relax", "restore"} /\ agent'.used = agent.used
      /\ agent'.todo \subseteq agent.todo
      /\ \/ agent'.kept = agent.kept
         \/ agent'.kept = agent.kept \ Group(journal[i].account, journal[i].class)
      /\ agent'.pc = "restore" => /\ agent'.account = journal[i].account
                                  /\ agent'.class = ClassOf(journal[i])
                                  /\ ClassOf(journal[i]).action = "limit"
  <2>1. CASE RelaxKeeps(i)
    <3>1. agent' = [agent EXCEPT !.todo = T, !.asked = A]
        BY <2>1 DEF RelaxKeeps, T, A
    <3> QED BY <1>2, <1>3, <3>1 DEF AgentState
  <2>2. CASE RelaxWarning(i)
    <3> DEFINE K == agent.kept \ Forgotten(i)
    <3>1. K \in SUBSET Nat
        BY <1>2 DEF AgentState
    <3>2. agent' = [agent EXCEPT !.todo = T, !.kept = K, !.asked = A]
        BY <2>2 DEF RelaxWarning, T, A
    <3>3. K = agent.kept \ Group(journal[i].account, journal[i].class)
        BY DEF Forgotten
    <3> HIDE DEF K
    <3>4. /\ agent' \in AgentState /\ agent'.pc = "relax" /\ agent'.used = agent.used
          /\ agent'.todo = T /\ agent'.kept = K
        BY <1>2, <1>3, <3>1, <3>2 DEF AgentState
    <3> QED BY <1>3, <3>3, <3>4
  <2>3. CASE RelaxLimit(i)
    <3> DEFINE a == journal[i].account
               c == ClassOf(journal[i])
               E == {e \in Envs : EnvAccount[e] = a}
    <3>1. a \in Accounts /\ c \in LimitClass /\ c.action = "limit" /\ E \in SUBSET Envs
        BY <2>3, RowClass DEF JournalInv, RelaxLimit
    <3>2. agent' = [agent EXCEPT !.pc = "restore", !.todo = T, !.asked = A,
                                 !.account = a, !.class = c, !.envs = E]
        BY <2>3 DEF RelaxLimit, T, A
    <3> HIDE DEF a, c, E
    <3>3. /\ agent' \in AgentState /\ agent'.pc = "restore" /\ agent'.used = agent.used
          /\ agent'.todo = T /\ agent'.kept = agent.kept
          /\ agent'.account = a /\ agent'.class = c
        BY <1>2, <1>3, <3>1, <3>2 DEF AgentState
    <3> QED BY <1>3, <3>1, <3>3 DEF a, c
  <2> QED BY <2>1, <2>2, <2>3
<1>5. TypeInv' /\ UNCHANGED journal
    BY <1>4 DEF JournalInv, TypeInv, RelaxKeeps, RelaxWarning, RelaxLimit, db
<1> QED BY <1>2, <1>4, <1>5, RelaxesOnInv

LEMMA RestoreEnvInv == ASSUME JournalInv, NEW e \in Envs, RestoreEnv(e) PROVE JournalInv'
<1>1. PICK S \in SUBSET Shares : agent' = [agent EXCEPT !.envs = @ \ {e}, !.shares = S]
    BY DEF RestoreEnv, LiveShares
<1>2. agent \in AgentState
    BY DEF JournalInv, TypeInv
<1>3. /\ agent' \in AgentState /\ agent'.pc = agent.pc /\ agent'.account = agent.account
      /\ agent'.class = agent.class /\ agent'.todo = agent.todo /\ agent'.kept = agent.kept
      /\ agent'.used = agent.used
    BY <1>1, <1>2 DEF AgentState
<1>4. TypeInv' /\ UNCHANGED journal /\ agent.pc = "restore"
    BY <1>3 DEF JournalInv, TypeInv, RestoreEnv, db
<1> QED BY <1>3, <1>4, RelaxesOnInv

LEMMA WantedType == \A s \in Shares : WantedPolicies(s) \subseteq Shares \cup Frontends
  BY DEF WantedPolicies, LiveAccesses

LEMMA RestoreShareInv == ASSUME JournalInv, NEW s \in Shares, RestoreShare(s) PROVE JournalInv'
<1>1. agent' = [agent EXCEPT !.shares = @ \ {s}]
    BY DEF RestoreShare
<1>2. PICK added \in SUBSET (WantedPolicies(s) \ dial) : dial' = dial \cup added
    BY DEF RestoreShare
<1>3. agent \in AgentState /\ dial' \subseteq Shares \cup Frontends
    BY <1>2, WantedType DEF JournalInv, TypeInv
<1>4. /\ agent' \in AgentState /\ agent'.pc = agent.pc /\ agent'.account = agent.account
      /\ agent'.class = agent.class /\ agent'.todo = agent.todo /\ agent'.kept = agent.kept
      /\ agent'.used = agent.used
    BY <1>1, <1>3 DEF AgentState
<1>5. TypeInv' /\ UNCHANGED journal /\ agent.pc = "restore"
    BY <1>3, <1>4 DEF JournalInv, TypeInv, RestoreShare, db
<1> QED BY <1>4, <1>5, RelaxesOnInv

LEMMA RestoreDoneInv == ASSUME JournalInv, RestoreDone PROVE JournalInv'
<1> DEFINE K == agent.kept \ Group(agent.account, agent.class.id)
<1>1. agent' = [agent EXCEPT !.pc = "relax", !.account = None, !.class = None, !.kept = K]
    BY DEF RestoreDone
<1>2. agent \in AgentState /\ K \in SUBSET Nat
    BY DEF JournalInv, TypeInv, AgentState
<1> HIDE DEF K
<1>3. /\ agent' \in AgentState /\ agent'.pc = "relax" /\ agent'.used = agent.used
      /\ agent'.todo = agent.todo /\ agent'.kept = K
    BY <1>1, <1>2 DEF AgentState
<1>4. TypeInv' /\ UNCHANGED journal /\ agent.pc = "restore"
    BY <1>3 DEF JournalInv, TypeInv, RestoreDone, db
<1>5. \E a, id : agent'.kept = agent.kept \ Group(a, id)
    BY <1>3 DEF K
<1> QED BY <1>3, <1>4, <1>5, RelaxesOnInv

LEMMA RelaxEndsInv == ASSUME JournalInv, RelaxCommit \/ RelaxFails PROVE JournalInv'
<1>1. journal' \in Seq(Rows) /\ JournalSound' /\ JournalAlternates'
  <2>1. CASE RelaxCommit
    <3>1. /\ agent.kept \in SUBSET DOMAIN journal /\ journal \in Seq(Rows)
          /\ JournalSound /\ JournalAlternates
          /\ \A i \in DOMAIN journal \ agent.kept, j \in agent.kept : ~SameGroup(i, j)
        BY DEF JournalInv, TypeInv, Relaxing
    <3>2. journal' = Keep(agent.kept)
        BY <2>1 DEF RelaxCommit, RelaxEnds
    <3> QED BY <3>1, <3>2, KeptRows
  <2>2. CASE RelaxFails
      BY <2>2, AllKept DEF RelaxFails, RelaxEnds, JournalInv, TypeInv
  <2> QED BY <2>1, <2>2
<1>2. TypeInv'
    BY <1>1, Idles DEF JournalInv, TypeInv, RelaxCommit, RelaxFails, RelaxEnds
<1> QED BY <1>1, <1>2, IdleInv DEF RelaxCommit, RelaxFails, RelaxEnds
-----------------------------------------------------------------------------
(* The request handlers.                                                   *)

LEMMA RequestInv == ASSUME JournalInv, NEW h \in Handlers, Request(h) PROVE JournalInv'
<1>1. PICK op \in {"share", "access", "unshare", "unaccess"}, id \in Shares \cup Frontends :
         /\ Begin(h, op, id)
         /\ op \in {"share", "unshare"} => id \in Shares
         /\ op \in {"access", "unaccess"} => id \in Frontends
    BY DEF Request, ShareBegin, UnshareBegin, AccessBegin, UnaccessBegin
<1> DEFINE q == [op |-> op, id |-> id, step |-> "checked"]
<1>2. q \in HandlerState /\ LegalHandler(q)
    BY <1>1 DEF HandlerState, LegalHandler
<1> HIDE DEF q
<1>3. handler' = [handler EXCEPT ![h] = q]
    BY <1>1 DEF Begin, q
<1>4. handler' \in [Handlers -> HandlerState] /\ \A g \in Handlers : LegalHandler(handler'[g])
    BY <1>2, <1>3 DEF JournalInv, TypeInv
<1>5. TypeInv' /\ UNCHANGED <<journal, agent>>
    BY <1>1, <1>4 DEF JournalInv, TypeInv, Begin, db
<1> QED BY <1>5, StillInv

\* A handler that does something has a request.
LEMMA BusyHandler ==
  ASSUME TypeInv, NEW h \in Handlers, handler[h].step # "none"
  PROVE  /\ handler[h] \in HandlerState
         /\ \/ handler[h].op \in {"share", "unshare"} /\ handler[h].id \in Shares
            \/ handler[h].op \in {"access", "unaccess"} /\ handler[h].id \in Frontends
         /\ handler[h].id \in Shares \cup Frontends
  BY DEF TypeInv, LegalHandler, NoRequest

LEMMA FinishInv == ASSUME JournalInv, NEW h \in Handlers, Finish(h) PROVE JournalInv'
<1>1. handler[h].step # "none"
    BY DEF Finish, ChangeZiti, Commit, Fail
<1>2. /\ handler[h] \in HandlerState
      /\ \/ handler[h].op \in {"share", "unshare"} /\ handler[h].id \in Shares
         \/ handler[h].op \in {"access", "unaccess"} /\ handler[h].id \in Frontends
    BY <1>1, BusyHandler DEF JournalInv
<1>3. CASE ChangeZiti(h)
  <2> DEFINE q == [handler[h] EXCEPT !.step = "changed"]
  <2>1. q \in HandlerState /\ LegalHandler(q)
      BY <1>2 DEF HandlerState, LegalHandler
  <2>2. handler' = [handler EXCEPT ![h] = q]
      BY <1>3 DEF ChangeZiti
  <2> HIDE DEF q
  <2>3. handler' \in [Handlers -> HandlerState] /\ \A g \in Handlers : LegalHandler(handler'[g])
      BY <2>1, <2>2 DEF JournalInv, TypeInv
  <2>4. dial' \subseteq Shares \cup Frontends
      BY <1>2, <1>3 DEF ChangeZiti, DialAfter, JournalInv, TypeInv
  <2>5. TypeInv' /\ UNCHANGED <<journal, agent>>
      BY <1>3, <2>3, <2>4 DEF JournalInv, TypeInv, ChangeZiti, db
  <2> QED BY <2>5, StillInv
<1>4. CASE Commit(h) \/ Fail(h)
  <2>1. handler' = [handler EXCEPT ![h] = NoRequest]
      BY <1>4 DEF Commit, Fail
  <2>2. handler' \in [Handlers -> HandlerState] /\ \A g \in Handlers : LegalHandler(handler'[g])
      BY <2>1, Idles DEF JournalInv, TypeInv
  <2>3. share' \in [Shares -> Status] /\ access' \in [Frontends -> Status]
    <3>1. CASE Fail(h)
        BY <3>1 DEF Fail, JournalInv, TypeInv, db
    <3>2. CASE Commit(h)
        BY <1>2, <3>2 DEF Commit, JournalInv, TypeInv, Status
    <3> QED BY <1>4, <3>1, <3>2
  <2>4. TypeInv' /\ UNCHANGED <<journal, agent>>
      BY <1>4, <2>2, <2>3 DEF JournalInv, TypeInv, Commit, Fail, db
  <2> QED BY <2>4, StillInv
<1> QED BY <1>3, <1>4 DEF Finish
-----------------------------------------------------------------------------
LEMMA NextJournal == JournalInv /\ [Next]_vars => JournalInv'
<1> SUFFICES ASSUME JournalInv, [Next]_vars PROVE JournalInv'
    OBVIOUS
<1>1. CASE World
    BY <1>1, TrafficInv, CrashInv DEF World
<1>2. CASE Clock
    BY <1>2, ClockInv
<1>3. CASE Receive
    BY <1>3, IgnoredInv, WarnsInv, LimitsInv, ClockInv DEF Receive
<1>4. CASE Cut
    BY <1>4, CutEnvInv, CutShareInv, CutFailsInv, CutCommitInv DEF Cut
<1>5. CASE AfterReport \/ TimerRelax
    BY <1>5, RelaxBeginInv
<1>6. CASE Relax
    BY <1>6, RelaxRowInv, RestoreEnvInv, RestoreShareInv, RestoreDoneInv, RelaxEndsInv DEF Relax
<1>7. CASE \E h \in Handlers : Request(h) \/ Finish(h)
    BY <1>7, RequestInv, FinishInv
<1>8. CASE UNCHANGED vars
  <2>1. TypeInv' /\ UNCHANGED <<journal, agent>>
      BY <1>8 DEF JournalInv, TypeInv, vars, db
  <2> QED BY <2>1, StillInv
<1> QED BY <1>1, <1>2, <1>3, <1>4, <1>5, <1>6, <1>7, <1>8 DEF Next

LEMMA AlwaysJournal == Spec => []JournalInv
  BY InitJournal, NextJournal, PTL DEF Spec

\* The rows, policies, requests and locals of the agent are always of their
\* kind, and what a relax cycle works on are rows of the journal (agent.go,
\* limitAction.go, relaxAction.go).
THEOREM LimitsAgentTypes == Spec => []TypeOK
<1>1. JournalInv => TypeOK
  <2> SUFFICES ASSUME JournalInv PROVE TypeOK
      OBVIOUS
  <2>1. \A a \in Accounts, p \in Periods : usage[a][p] \in [rx : Nat, tx : Nat]
      BY DEF JournalInv, TypeInv, Usage
  <2>2. /\ agent.pc \in {"loop", "cycle", "cut", "relax", "restore"}
        /\ agent.envs \subseteq Envs /\ agent.shares \subseteq Shares
      BY DEF JournalInv, TypeInv, AgentState
  <2>3. \A h \in Handlers : handler[h].step \in {"none", "checked", "changed"}
      BY DEF JournalInv, TypeInv, HandlerState
  <2> QED BY <2>1, <2>2, <2>3 DEF TypeOK, JournalInv, TypeInv, Relaxing
<1> QED BY <1>1, AlwaysJournal, PTL

\* Whatever fails and on either store, a class that is journaled last is not
\* journaled again: enforce asks the journal in the transaction that adds the
\* row (agent.go:288-331), and relax deletes the rows of a class together
\* (agent.go:397-421).
THEOREM JournalAlwaysAlternates == Spec => []JournalAlternates
<1>1. JournalInv => JournalAlternates
    BY DEF JournalInv
<1> QED BY <1>1, AlwaysJournal, PTL
-----------------------------------------------------------------------------
(* What is forgotten is not exceeded.                                      *)

LEMMA PeriodOfClass ==
  ASSUME NEW a \in Accounts, NEW c \in Classes(a)
  PROVE  c.period \in Periods
<1>1. c.action \in {"warning", "limit"}
    BY ClassKinds
<1>2. CASE c = Config[c.action]
    BY <1>1, <1>2 DEF Periods
<1>3. CASE \E i \in DOMAIN Applied[a] : c = Applied[a][i]
    BY <1>3 DEF Periods
<1> QED BY <1>2, <1>3, ClassKinds

\* What makes a warning not exceeded makes the limit of its class, too.
LEMMA WarningRelaxed ==
  ASSUME WarnsFirst, JournalSound, agent.used \in Usage,
         NEW i \in DOMAIN journal, NEW j \in DOMAIN journal, SameGroup(i, j),
         ~Exceeded(i), journal[j].action = "limit"
  PROVE  ~Exceeded(j)
<1> DEFINE a == journal[i].account
           c == ClassOf(journal[i])
           d == ClassOf(journal[j])
           u == agent.used[a][c.period]
<1>1. /\ a \in Accounts /\ c \in Classes(a) /\ d \in Classes(a) /\ c.id = d.id
      /\ c.action \in {"warning", "limit"} /\ d.action = "limit" /\ journal[j].account = a
    BY RowClass DEF SameGroup
<1>2. c = d \/ (c = Config["warning"] /\ d = Config["limit"])
    BY <1>1, SameId
<1>3. c.period = d.period
    BY <1>1, SameId
<1>4. u \in [rx : Nat, tx : Nat]
    BY <1>1, PeriodOfClass DEF Usage
<1>5. ~TransferExceeded(u, c)
    BY DEF Exceeded
<1>6. Exceeded(j) <=> TransferExceeded(u, d)
    BY <1>1, <1>3 DEF Exceeded
<1> HIDE DEF u, c, d
<1> QED BY <1>2, <1>4, <1>5, <1>6 DEF WarnsFirst

\* The limit rows of one class have one class.
LEMMA LimitClassOfGroup ==
  ASSUME JournalSound, NEW a \in Accounts, NEW c \in Classes(a), c.action = "limit",
         NEW j \in Group(a, c.id), journal[j].action = "limit"
  PROVE  ClassOf(journal[j]) = c
<1>1. j \in DOMAIN journal /\ journal[j].account = a /\ journal[j].class = c.id
    BY DEF Group
<1>2. ClassOf(journal[j]) \in Classes(a) /\ ClassOf(journal[j]).id = c.id
      /\ ClassOf(journal[j]).action = c.action
    BY <1>1, RowClass
<1> QED BY <1>2, SameId

LEMMA SameExceeded ==
  ASSUME UNCHANGED journal, agent'.used = agent.used
  PROVE  \A i \in DOMAIN journal : Exceeded(i)' <=> Exceeded(i)
<1> SUFFICES ASSUME NEW i \in DOMAIN journal PROVE Exceeded(i)' <=> Exceeded(i)
    OBVIOUS
<1>1. journal'[i] = journal[i]
    OBVIOUS
<1>2. ClassOf(journal[i])' = ClassOf(journal[i])
    BY <1>1 DEF ClassOf
<1> QED BY <1>1, <1>2 DEF Exceeded

LEMMA ForgetsOn ==
  ASSUME ForgetsRelaxed, UNCHANGED journal, agent'.used = agent.used,
         agent.pc \in {"relax", "restore"},
         \A i \in agent.kept \ agent'.kept : journal[i].action = "limit" => ~Exceeded(i),
         agent'.pc = "restore" =>
           ~TransferExceeded(agent'.used[agent'.account][agent'.class.period], agent'.class)
  PROVE  ForgetsRelaxed'
<1>1. ASSUME NEW i \in DOMAIN journal \ agent'.kept, journal[i].action = "limit"
      PROVE  ~Exceeded(i)
    BY <1>1 DEF ForgetsRelaxed
<1>2. \A i \in DOMAIN journal : Exceeded(i)' <=> Exceeded(i)
    BY SameExceeded
<1> QED BY <1>1, <1>2 DEF ForgetsRelaxed

LEMMA NextForgets ==
  ASSUME WarnsFirst
  PROVE  JournalInv /\ ForgetsRelaxed /\ [Next]_vars => ForgetsRelaxed'
<1> SUFFICES ASSUME JournalInv, ForgetsRelaxed, [Next]_vars PROVE ForgetsRelaxed'
    OBVIOUS
<1>1. agent \in AgentState /\ JournalSound /\ (agent.pc \in {"relax", "restore"} => agent.used \in Usage)
    BY DEF JournalInv, TypeInv, Relaxing
<1>2. CASE UNCHANGED <<journal, agent>>
  <2>1. \A i \in DOMAIN journal : Exceeded(i)' <=> Exceeded(i)
      BY <1>2, SameExceeded
  <2> QED BY <1>2, <2>1 DEF ForgetsRelaxed
<1>3. CASE agent'.pc \notin {"relax", "restore"}
    BY <1>3 DEF ForgetsRelaxed
<1>4. CASE RelaxBegin
  <2>1. UNCHANGED journal
      BY <1>4 DEF RelaxBegin, db
  <2>2. agent'.kept = DOMAIN journal /\ agent'.pc = "relax"
      BY <1>4 DEF RelaxBegin, Idle
  <2> QED BY <2>1, <2>2 DEF ForgetsRelaxed
<1>5. ASSUME NEW i \in DOMAIN journal, RelaxKeeps(i) \/ RelaxWarning(i) \/ RelaxLimit(i)
      PROVE  ForgetsRelaxed'
  <2>1. CASE RelaxKeeps(i)
    <3>1. UNCHANGED journal /\ agent.pc = "relax"
        BY <2>1 DEF RelaxKeeps, db
    <3>2. agent'.used = agent.used /\ agent'.kept = agent.kept /\ agent'.pc = agent.pc
        BY <1>1, <2>1 DEF RelaxKeeps, AgentState
    <3> QED BY <3>1, <3>2, ForgetsOn
  <2>2. CASE RelaxWarning(i)
    <3>1. UNCHANGED journal /\ agent.pc = "relax" /\ ~Exceeded(i)
        BY <2>2 DEF RelaxWarning, db
    <3>2. agent'.used = agent.used /\ agent'.kept = agent.kept \ Forgotten(i) /\ agent'.pc = agent.pc
        BY <1>1, <2>2 DEF RelaxWarning, AgentState
    <3>3. \A j \in Forgotten(i) : j \in DOMAIN journal /\ SameGroup(i, j)
        BY DEF Forgotten, Group, SameGroup
    <3>4. \A j \in agent.kept \ agent'.kept : journal[j].action = "limit" => ~Exceeded(j)
        BY <1>1, <3>1, <3>2, <3>3, WarningRelaxed
    <3> QED BY <3>1, <3>2, <3>4, ForgetsOn
  <2>3. CASE RelaxLimit(i)
    <3> DEFINE a == journal[i].account
               c == ClassOf(journal[i])
    <3>1. UNCHANGED journal /\ agent.pc = "relax" /\ ~Exceeded(i)
        BY <2>3 DEF RelaxLimit, db
    <3>2. /\ agent'.used = agent.used /\ agent'.kept = agent.kept
          /\ agent'.account = a /\ agent'.class = c
        BY <1>1, <2>3 DEF RelaxLimit, AgentState
    <3>3. ~TransferExceeded(agent.used[a][c.period], c)
        BY <3>1 DEF Exceeded
    <3> HIDE DEF a, c
    <3> QED BY <3>1, <3>2, <3>3, ForgetsOn
  <2> QED BY <1>5, <2>1, <2>2, <2>3
<1>6. ASSUME NEW e \in Envs, RestoreEnv(e) PROVE ForgetsRelaxed'
  <2>1. UNCHANGED journal /\ agent.pc = "restore"
      BY <1>6 DEF RestoreEnv, db
  <2>2. /\ agent'.used = agent.used /\ agent'.kept = agent.kept
        /\ agent'.account = agent.account /\ agent'.class = agent.class
      BY <1>1, <1>6 DEF RestoreEnv, AgentState
  <2> QED BY <2>1, <2>2, ForgetsOn DEF ForgetsRelaxed
<1>7. ASSUME NEW s \in Shares, RestoreShare(s) PROVE ForgetsRelaxed'
  <2>1. UNCHANGED journal /\ agent.pc = "restore"
      BY <1>7 DEF RestoreShare, db
  <2>2. /\ agent'.used = agent.used /\ agent'.kept = agent.kept
        /\ agent'.account = agent.account /\ agent'.class = agent.class
      BY <1>1, <1>7 DEF RestoreShare, AgentState
  <2> QED BY <2>1, <2>2, ForgetsOn DEF ForgetsRelaxed
<1>8. CASE RestoreDone
  <2> DEFINE a == agent.account
             c == agent.class
  <2>1. UNCHANGED journal /\ agent.pc = "restore"
      BY <1>8 DEF RestoreDone, db
  <2>2. agent'.used = agent.used /\ agent'.kept = agent.kept \ Group(a, c.id) /\ agent'.pc = "relax"
      BY <1>1, <1>8 DEF RestoreDone, AgentState
  <2>3. a \in Accounts /\ c \in Classes(a) /\ c.action = "limit"
      BY <2>1 DEF JournalInv, Relaxing
  <2>4. ASSUME NEW j \in agent.kept \ agent'.kept, journal[j].action = "limit" PROVE ~Exceeded(j)
    <3>1. j \in Group(a, c.id)
        BY <2>2
    <3>2. ClassOf(journal[j]) = c /\ journal[j].account = a
        BY <1>1, <2>3, <2>4, <3>1, LimitClassOfGroup DEF Group
    <3>3. ~TransferExceeded(agent.used[a][c.period], c)
        BY <2>1 DEF ForgetsRelaxed
    <3> QED BY <3>2, <3>3 DEF Exceeded
  <2> QED BY <2>1, <2>2, <2>4, ForgetsOn
<1>9. agent' \in {Idle, Cycled} => agent'.pc \notin {"relax", "restore"}
    BY Idles
<1>10. CASE World \/ Clock
    BY <1>2, <1>3, <1>9, <1>10
       DEF World, Clock, Traffic, Crash, CyclePasses, TimerRuns, TimerFires, db
<1>11. CASE Receive
  <2>1. ASSUME NEW s \in Shares, ReportLimits(s) PROVE agent'.pc = "cut"
      BY <2>1 DEF ReportLimits, Idle
  <2> QED BY <1>2, <1>3, <1>9, <1>11, <2>1
          DEF Receive, ReportIgnored, ReportWarns, ReportWithoutToken, db
<1>12. CASE Cut
  <2>1. agent.pc = "cut" /\ (agent' \in {Idle, Cycled} \/ agent'.pc = agent.pc)
      BY <1>1, <1>12 DEF Cut, CutEnv, CutShare, CutFails, CutCommit, AgentState
  <2> QED BY <1>3, <1>9, <2>1
<1>13. CASE AfterReport \/ TimerRelax
    BY <1>3, <1>4, <1>9, <1>13 DEF AfterReport, TimerRelax
<1>14. CASE Relax
    BY <1>3, <1>5, <1>6, <1>7, <1>8, <1>9, <1>14 DEF Relax, RelaxCommit, RelaxFails, RelaxEnds
<1>15. CASE (\E h \in Handlers : Request(h) \/ Finish(h)) \/ UNCHANGED vars
  <2>1. UNCHANGED <<journal, agent>>
      BY <1>15 DEF Request, ShareBegin, UnshareBegin, AccessBegin, UnaccessBegin, Begin,
                   Finish, ChangeZiti, Commit, Fail, db, vars
  <2> QED BY <1>2, <2>1
<1> QED BY <1>10, <1>11, <1>12, <1>13, <1>14, <1>15 DEF Next

LEMMA AlwaysForgets == ASSUME WarnsFirst PROVE Spec => [](JournalInv /\ ForgetsRelaxed)
<1>1. Init => ForgetsRelaxed
    BY Idles DEF Init, ForgetsRelaxed
<1> QED BY <1>1, InitJournal, NextJournal, NextForgets, PTL DEF Spec

\* Where the limit of the configuration is never exceeded before its warning,
\* a limit row goes away only in a relax cycle that saw its class not exceeded,
\* whatever fails and on either store (agent.go:397-421): rows of one class are
\* deleted together, so the warning's row must not be relaxed before the
\* limit's.
THEOREM LimitsKeptWhileOver == ASSUME WarnsFirst PROVE Spec => LimitKeptWhileOver
<1>1. JournalInv /\ ForgetsRelaxed /\ [Next]_vars =>
        [\A i \in DOMAIN journal :
           (/\ journal[i].action = "limit"
            /\ ~\E j \in DOMAIN journal' : journal'[j] = journal[i]) => ~Exceeded(i)]_vars
  <2> SUFFICES ASSUME JournalInv, ForgetsRelaxed, Next,
                      NEW i \in DOMAIN journal, journal[i].action = "limit",
                      ~\E j \in DOMAIN journal' : journal'[j] = journal[i]
               PROVE  ~Exceeded(i)
      OBVIOUS
  <2>1. journal \in Seq(Rows) /\ journal # journal'
      BY DEF JournalInv, TypeInv
  <2>2. ASSUME NEW e \in Rows, journal' = Append(journal, e) PROVE FALSE
      BY <2>1, <2>2, AppendedStays
  <2>3. CASE RelaxCommit
    <3>1. journal' = Keep(agent.kept) /\ agent.pc = "relax"
        BY <2>3 DEF RelaxCommit, RelaxEnds
    <3>2. agent.kept \in SUBSET DOMAIN journal
        BY DEF JournalInv, Relaxing
    <3>3. i \notin agent.kept
        BY <2>1, <3>1, <3>2, KeepAll
    <3> QED BY <3>1, <3>3 DEF ForgetsRelaxed
  <2>4. CASE RelaxFails
    <3>1. journal' = Keep(DOMAIN journal)
        BY <2>4 DEF RelaxFails, RelaxEnds
    <3> QED BY <2>1, <3>1, KeepAll
  <2>5. ASSUME NEW s \in Shares, ReportWarns(s) PROVE FALSE
    <3>1. Entry(Account(s), Selected(s)) \in Rows
        BY <2>5, SelectedIsClass, ClassOfEntry DEF ReportWarns, NewExcess
    <3> QED BY <2>2, <2>5, <3>1 DEF ReportWarns
  <2>6. CASE CutCommit
    <3>1. Entry(agent.account, agent.class) \in Rows
        BY <2>6, ClassOfEntry DEF CutCommit, JournalInv, Cutting
    <3> QED BY <2>1, <2>2, <2>6, <3>1 DEF CutCommit
  <2>7. RelaxCommit \/ RelaxFails \/ CutCommit \/ \E s \in Shares : ReportWarns(s)
      BY <2>1 DEF Next, World, Clock, Receive, Cut, Relax, Request, Finish, Traffic, Crash,
           CyclePasses, TimerRuns, TimerFires, ReportIgnored, ReportLimits, ReportWithoutToken,
           CutEnv, CutShare, CutFails, AfterReport, TimerRelax, RelaxBegin, RelaxKeeps,
           RelaxWarning, RelaxLimit, RestoreEnv, RestoreShare, RestoreDone, ShareBegin,
           UnshareBegin, AccessBegin, UnaccessBegin, Begin, ChangeZiti, Commit, Fail, db
  <2> QED BY <2>3, <2>4, <2>5, <2>6, <2>7
<1> QED BY <1>1, AlwaysForgets, PTL DEF Spec, LimitKeptWhileOver
-----------------------------------------------------------------------------
(* A limit in force refuses shares and accesses, and is kept by what is    *)
(* restored.                                                               *)

\* The class of the latest row of a group, a warning or a limit, is limited.
LEMMA LatestIsLimited ==
  ASSUME journal \in Seq(Rows), JournalSound, NEW i \in DOMAIN journal
  PROVE  \E m \in DOMAIN journal : /\ SameGroup(m, i)
                                   /\ IsLimited(journal[i].account, ClassOf(journal[m]))
<1> DEFINE a == journal[i].account
           G == Group(a, journal[i].class)
<1>1. i \in G /\ G \in SUBSET (1..Len(journal)) /\ Len(journal) \in Nat
    BY LenProperties DEF Group
<1>2. PICK m \in G : \A j \in G : j <= m
    BY <1>1, MaxExists
<1>3. m \in DOMAIN journal /\ SameGroup(m, i)
    BY DEF Group, SameGroup
<1>4. ClassOf(journal[m]).id = journal[i].class /\ ClassOf(journal[m]).action = journal[m].action
    BY <1>3, RowClass DEF SameGroup
<1>5. IsLimited(a, ClassOf(journal[m]))
    BY <1>2, <1>4 DEF IsLimited
<1> QED BY <1>3, <1>5

LEMMA LimitRefuses ==
  ASSUME journal \in Seq(Rows), JournalSound, NEW s \in Shares, LimitInForce(s)
  PROVE  ~BandwidthAllows(s) /\ Account(s) \notin Limitless
<1> DEFINE a == Account(s)
<1>1. PICK i \in DOMAIN journal : LimitRow(i, s)
    BY DEF LimitInForce
<1> DEFINE c == ClassOf(journal[i])
<1>2. /\ journal[i].account = a /\ a \in Accounts \ Limitless
      /\ c \in Classes(a) /\ c.action = "limit" /\ c.id = journal[i].class /\ Governs(c, s)
    BY <1>1, RowClass DEF LimitRow
<1>3. PICK m \in DOMAIN journal : SameGroup(m, i) /\ IsLimited(a, ClassOf(journal[m]))
    BY <1>2, LatestIsLimited
<1> DEFINE d == ClassOf(journal[m])
<1>4. d \in Classes(a) /\ d.id = c.id /\ d.action \in {"warning", "limit"}
    BY <1>2, <1>3, RowClass DEF SameGroup
<1> HIDE DEF c, d
<1>5. d \in DecidingClasses(a, Backend[s])
  <2>1. CASE IsScoped(c)
    <3>1. c.mode = Backend[s] /\ c.mode \in Scopes(a) /\ c = ScopedClass(a, c.mode) /\ c.id # Global
        BY <1>2, <2>1, ClassKinds DEF Governs
    <3>2. d = c
        BY <1>2, <1>4, <3>1, SameId
    <3> QED BY <3>1, <3>2 DEF DecidingClasses
  <2>2. CASE ~IsScoped(c)
    <3>1. Backend[s] \notin Scopes(a) /\ c = BandwidthClass(a, "limit")
        BY <1>2, <2>2, ClassKinds DEF Governs
    <3>2. d = c \/ (d.id = Global /\ ~IsScoped(d))
        BY <1>2, <1>4, SameId, ClassKinds
    <3>3. d = c \/ d = BandwidthClass(a, d.action)
        BY <1>2, <1>4, <3>2, ClassKinds
    <3> QED BY <1>4, <3>1, <3>3 DEF DecidingClasses
  <2> QED BY <2>1, <2>2
<1> QED BY <1>2, <1>3, <1>5 DEF BandwidthAllows, d

\* What a relaxed class restores is governed by no other row that stays.
LEMMA RestorableIsFree ==
  ASSUME JournalSound, NEW s \in Shares, Account(s) = agent.account, Restorable(s),
         agent.class \in Classes(agent.account), agent.class.action = "limit",
         NEW i \in agent.kept, i \in DOMAIN journal,
         i \notin Group(agent.account, agent.class.id)
  PROVE  ~LimitRow(i, s)
<1> SUFFICES ASSUME LimitRow(i, s) PROVE FALSE
    OBVIOUS
<1> DEFINE a == Account(s)
           c == ClassOf(journal[i])
           d == agent.class
<1>1. /\ journal[i].account = a /\ a \in Accounts
      /\ c \in Classes(a) /\ c.action = "limit" /\ c.id = journal[i].class /\ Governs(c, s)
    BY RowClass DEF LimitRow
<1>2. d \in Classes(a) /\ d.action = "limit" /\ c # d
    BY <1>1 DEF Group
<1>3. Backend[s] \in Modes /\ AnyMode \notin Modes
    BY AccountType, LimitClassesAssumption
<1>4. d.mode = Backend[s] => d = ScopedClass(a, Backend[s]) /\ Backend[s] \in Scopes(a)
    BY <1>1, <1>2, <1>3, ClassKinds DEF IsScoped
<1>5. CASE IsScoped(c)
  <2>1. c.mode = Backend[s] /\ c = ScopedClass(a, Backend[s])
      BY <1>1, <1>5, ClassKinds DEF Governs
  <2>2. Backend[s] \in LimitedBackends
      BY <1>1, <1>5, <2>1 DEF LimitedBackends
  <2> QED BY <1>2, <1>4, <2>1, <2>2 DEF Restorable
<1>6. CASE ~IsScoped(c)
  <2>1. Backend[s] \notin Scopes(a) /\ c = BandwidthClass(a, "limit")
      BY <1>1, <1>6, ClassKinds DEF Governs
  <2>2. ~IsScoped(d)
      BY <1>4, <2>1 DEF Restorable
  <2>3. d = BandwidthClass(a, "limit")
      BY <1>1, <1>2, <2>2, ClassKinds
  <2> QED BY <1>2, <2>1, <2>3
<1> QED BY <1>5, <1>6

LEMMA GovernedIsCut ==
  ASSUME NEW s \in Shares, NEW c, Governs(c, s)
  PROVE  Backend[s] \notin IgnoredBackends(Account(s), c)
  BY DEF Governs, IgnoredBackends

LEMMA SameRows ==
  ASSUME UNCHANGED journal
  PROVE  /\ \A i \in DOMAIN journal, s \in Shares : LimitRow(i, s)' <=> LimitRow(i, s)
         /\ \A s \in Shares : LimitInForce(s)' <=> LimitInForce(s)
         /\ \A a, id : Group(a, id)' = Group(a, id)
<1>1. ASSUME NEW i \in DOMAIN journal, NEW s \in Shares PROVE LimitRow(i, s)' <=> LimitRow(i, s)
  <2>1. journal'[i] = journal[i]
      OBVIOUS
  <2>2. ClassOf(journal[i])' = ClassOf(journal[i])
      BY <2>1 DEF ClassOf
  <2> QED BY <2>1, <2>2 DEF LimitRow, Governs
<1>2. \A s \in Shares : LimitInForce(s)' <=> LimitInForce(s)
    BY <1>1 DEF LimitInForce
<1> QED BY <1>1, <1>2 DEF Group

\* The same row at another place of the journal.
LEMMA MovedRow ==
  ASSUME NEW i \in DOMAIN journal, NEW n, journal'[n] = journal[i], NEW s \in Shares
  PROVE  LimitRow(n, s)' <=> LimitRow(i, s)
<1>1. ClassOf(journal[n])' = ClassOf(journal[i])
    BY DEF ClassOf
<1> QED BY <1>1 DEF LimitRow, Governs

\* The policies of different shares are different.
LEMMA OwnPolicies ==
  ASSUME NEW s \in Shares, NEW t \in Shares, s # t, NEW D,
         D \subseteq {s} \cup {f \in Frontends : FeShare[f] = s},
         dial' = dial \cup D
  PROVE  DialPolicies(t)' = DialPolicies(t)
<1>1. \A x \in D : x \notin {t} \cup {f \in Frontends : FeShare[f] = t}
    BY LimitsAgentAssumption
<1> QED BY <1>1 DEF DialPolicies

LEMMA FewerPolicies ==
  ASSUME dial' \subseteq dial
  PROVE  \A s \in Shares : Shut(s) => Shut(s)'
  BY DEF Shut, DialPolicies
-----------------------------------------------------------------------------
(* Limits and dial policies, one transaction at a time.                    *)

LEMMA InitCut == Init => CutInv
<1> SUFFICES ASSUME Init PROVE CutInv
    OBVIOUS
<1>1. agent = Idle /\ DOMAIN journal = {} /\ \A h \in Handlers : handler[h] = NoRequest
    BY DEF Init
<1>2. Alone /\ \A h \in Handlers : Checked(handler[h])
    BY <1>1, Idles DEF Alone, Checked, NoRequest
<1>3. Standing = {}
    BY <1>1, Idles DEF Standing
<1> QED BY <1>1, <1>2, <1>3, Idles, InitJournal
        DEF CutInv, PoliciesInv, EnvsLeft, StandingShut, CutSoFar, RestoresOnly

\* Only the handlers and the agent's work matter.
LEMMA SameCheck ==
  ASSUME NEW q, LegalHandler(q), Checked(q), UNCHANGED db
  PROVE  Checked(q)'
<1>1. UNCHANGED <<journal, share, access>>
    BY DEF db
<1>2. q.op = "share" => q.id \in Shares
    BY DEF LegalHandler, NoRequest
<1>3. q.op = "access" => FeShare[q.id] \in Shares
  <2>1. q.op = "access" => q.id \in Frontends
      BY DEF LegalHandler, NoRequest
  <2> QED BY <2>1, LimitsAgentAssumption
<1>4. \A s \in Shares : LimitInForce(s)' <=> LimitInForce(s)
    BY <1>1, SameRows
<1> QED BY <1>1, <1>2, <1>3, <1>4 DEF Checked

LEMMA SameChecks ==
  ASSUME \A h \in Handlers : Checked(handler[h]), UNCHANGED <<db, handler>>, TypeInv
  PROVE  \A h \in Handlers : Checked(handler[h])'
<1> SUFFICES ASSUME NEW h \in Handlers PROVE Checked(handler[h])'
    OBVIOUS
<1>1. PICK q : q = handler[h]
    OBVIOUS
<1>2. LegalHandler(q) /\ Checked(q) /\ UNCHANGED db /\ handler'[h] = q
    BY <1>1 DEF TypeInv
<1>3. Checked(q)'
    BY <1>2, SameCheck
<1> QED BY <1>2, <1>3 DEF Checked

LEMMA NoChecks ==
  ASSUME \A h \in Handlers : handler'[h] = NoRequest
  PROVE  \A h \in Handlers : Checked(handler[h])'
  BY DEF Checked, NoRequest

LEMMA StillShut ==
  ASSUME StandingShut, UNCHANGED <<journal, share>>, Standing' \subseteq Standing,
         Standing \subseteq DOMAIN journal, \A s \in Shares : Shut(s) => Shut(s)'
  PROVE  StandingShut'
<1> SUFFICES ASSUME NEW s \in Shares, NEW i \in Standing', share[s] = "live", LimitRow(i, s)'
             PROVE  Shut(s)'
    BY DEF StandingShut
<1>1. i \in Standing /\ i \in DOMAIN journal
    OBVIOUS
<1>2. LimitRow(i, s)
    BY <1>1, SameRows
<1> QED BY <1>1, <1>2 DEF StandingShut

LEMMA StandingRows == ASSUME JournalInv PROVE Standing \subseteq DOMAIN journal
  BY DEF JournalInv, Relaxing, Standing

LEMMA SameRestorable ==
  ASSUME UNCHANGED journal, agent.kept \subseteq DOMAIN journal, agent'.kept = agent.kept,
         agent'.account = agent.account, agent'.class = agent.class
  PROVE  \A s \in Shares : Restorable(s)' <=> Restorable(s)
<1>1. ASSUME NEW i \in agent.kept PROVE ClassOf(journal[i])' = ClassOf(journal[i])
  <2>1. journal'[i] = journal[i]
      OBVIOUS
  <2> QED BY <2>1 DEF ClassOf
<1>2. LimitedBackends' = LimitedBackends
    BY <1>1 DEF LimitedBackends
<1> QED BY <1>2 DEF Restorable

\* Nothing that the invariant speaks about changes.
LEMMA SamePolicies ==
  ASSUME CutInv, UNCHANGED <<journal, share, access, dial, agent, handler>>
  PROVE  PoliciesInv'
<1>1. Alone' /\ EnvsLeft'
    BY DEF CutInv, PoliciesInv, Alone, EnvsLeft
<1>2. \A h \in Handlers : Checked(handler[h])'
    BY SameChecks DEF CutInv, PoliciesInv, JournalInv, db
<1>3. Standing' = Standing /\ Standing \subseteq DOMAIN journal
    BY StandingRows DEF Standing, Group, CutInv
<1>4. StandingShut'
    BY <1>3, StillShut DEF CutInv, PoliciesInv, Shut, DialPolicies
<1>5. CutSoFar'
    BY DEF CutInv, PoliciesInv, CutSoFar, Shut, DialPolicies
<1>6. RestoresOnly'
  <2>1. agent.kept \subseteq DOMAIN journal /\ agent.shares \subseteq Shares
      BY DEF CutInv, JournalInv, TypeInv, AgentState, Relaxing
  <2>2. \A s \in agent.shares : Restorable(s)' <=> Restorable(s)
      BY <2>1, SameRestorable
  <2> QED BY <2>2 DEF CutInv, PoliciesInv, RestoresOnly
<1> QED BY <1>1, <1>2, <1>4, <1>5, <1>6 DEF PoliciesInv

\* The agent is between transactions, before and after.
LEMMA ReportPolicies ==
  ASSUME CutInv, UNCHANGED <<db, dial, handler>>,
         agent.pc \in {"loop", "cycle"}, agent' \in {Idle, Cycled}
  PROVE  PoliciesInv'
<1>1. agent'.pc \in {"loop", "cycle"}
    BY Idles
<1>2. Alone' /\ EnvsLeft' /\ CutSoFar' /\ RestoresOnly'
    BY <1>1 DEF CutInv, PoliciesInv, Alone, EnvsLeft, CutSoFar, RestoresOnly
<1>3. \A h \in Handlers : Checked(handler[h])'
    BY SameChecks DEF CutInv, PoliciesInv, JournalInv
<1>4. Standing' = Standing /\ Standing \subseteq DOMAIN journal
    BY <1>1, StandingRows DEF Standing, CutInv, db
<1>5. StandingShut'
    BY <1>4, StillShut DEF CutInv, PoliciesInv, Shut, DialPolicies, db
<1> QED BY <1>2, <1>3, <1>5 DEF PoliciesInv

\* A row is written while no handler is busy, and the shares it limits are cut.
LEMMA RowPolicies ==
  ASSUME CutInv, UNCHANGED <<share, access, dial, handler>>,
         \A h \in Handlers : handler[h] = NoRequest,
         agent.pc \in {"loop", "cycle", "cut"}, agent' = Cycled,
         NEW a \in Accounts, NEW c \in Classes(a), journal' = Append(journal, Entry(a, c)),
         c.action = "limit" => \A s \in Shares :
            share[s] = "live" /\ Account(s) = a /\ Governs(c, s) => Shut(s)
  PROVE  PoliciesInv'
<1>1. agent'.pc = "cycle"
    BY Idles
<1>2. Alone' /\ EnvsLeft' /\ CutSoFar' /\ RestoresOnly'
    BY <1>1 DEF CutInv, PoliciesInv, Alone, EnvsLeft, CutSoFar, RestoresOnly
<1>3. \A h \in Handlers : Checked(handler[h])'
    BY NoChecks
<1> DEFINE e == Entry(a, c)
           n == Len(journal)
<1>4. e \in Rows /\ ClassOf(e) = c /\ e.account = a /\ e.action = c.action
    BY ClassOfEntry
<1>5. journal \in Seq(Rows)
    BY DEF CutInv, JournalInv, TypeInv
<1> HIDE DEF e
<1>6. /\ n \in Nat /\ DOMAIN journal = 1..n /\ DOMAIN journal' = 1..(n + 1)
      /\ \A i \in 1..n : journal'[i] = journal[i]
      /\ journal'[n + 1] = e
    BY <1>4, <1>5, AppendProperties, LenProperties DEF e
<1>7. Standing' = DOMAIN journal' /\ Standing = DOMAIN journal
    BY <1>1 DEF Standing
<1> HIDE DEF n
<1>8. StandingShut'
  <2> SUFFICES ASSUME NEW s \in Shares, NEW i \in 1..(n + 1), share[s] = "live", LimitRow(i, s)'
               PROVE  Shut(s)
      BY <1>6, <1>7 DEF StandingShut, Shut, DialPolicies
  <2>1. CASE i \in 1..n
    <3>1. LimitRow(i, s)
        BY <1>6, <2>1, MovedRow
    <3> QED BY <1>6, <1>7, <2>1, <3>1 DEF CutInv, PoliciesInv, StandingShut
  <2>2. CASE i = n + 1
    <3>1. journal'[i] = e
        BY <1>6, <2>2
    <3>2. ClassOf(journal[i])' = c
      <4>1. ClassOf(journal[i])' = ClassOf(e)
          BY <3>1 DEF ClassOf
      <4> QED BY <1>4, <4>1
    <3>3. Account(s) = a /\ c.action = "limit" /\ Governs(c, s)
        BY <1>4, <3>1, <3>2 DEF LimitRow, Governs
    <3> QED BY <3>3
  <2>3. i \in 1..n \/ i = n + 1
      BY <1>6
  <2> QED BY <2>1, <2>2, <2>3
<1> QED BY <1>2, <1>3, <1>8 DEF PoliciesInv
-----------------------------------------------------------------------------
(* A limit is carried out.                                                 *)

LEMMA LimitsPolicies ==
  ASSUME Serial, CutInv, NEW s \in Shares, ReportLimits(s) PROVE PoliciesInv'
<1>1. /\ agent.pc = "loop" /\ UNCHANGED <<db, dial, handler>>
      /\ \A h \in Handlers : handler[h] = NoRequest
    BY DEF ReportLimits, Report, CanBegin, NoTransaction
<1>2. /\ agent'.pc = "cut" /\ agent'.account = Account(s)
      /\ agent'.envs = {e \in Envs : EnvAccount[e] = Account(s)}
    BY DEF ReportLimits, Idle
<1>3. Alone' /\ EnvsLeft' /\ RestoresOnly'
    BY <1>1, <1>2 DEF Alone, EnvsLeft, RestoresOnly
<1>4. \A h \in Handlers : Checked(handler[h])'
    BY <1>1, NoChecks
<1>5. Standing' = Standing /\ Standing \subseteq DOMAIN journal
    BY <1>1, <1>2, StandingRows DEF Standing, CutInv, db
<1>6. StandingShut'
    BY <1>1, <1>5, StillShut DEF CutInv, PoliciesInv, Shut, DialPolicies, db
<1>7. CutSoFar'
    BY <1>2, LimitsAgentAssumption DEF CutSoFar, Account
<1> QED BY <1>3, <1>4, <1>6, <1>7 DEF PoliciesInv

LEMMA CutEnvPolicies == ASSUME CutInv, NEW e \in Envs, CutEnv(e) PROVE PoliciesInv'
<1> DEFINE ignored == IgnoredBackends(agent.account, agent.class)
           S == {s \in LiveShares(e) : Backend[s] \notin ignored}
<1>1. /\ agent.pc = "cut" /\ agent.shares = {} /\ UNCHANGED <<db, dial, handler>>
      /\ agent' = [agent EXCEPT !.envs = @ \ {e}, !.shares = S]
    BY DEF CutEnv
<1>2. agent \in AgentState
    BY DEF CutInv, JournalInv, TypeInv
<1> HIDE DEF S
<1>3. /\ agent'.pc = "cut" /\ agent'.account = agent.account /\ agent'.class = agent.class
      /\ agent'.envs = agent.envs \ {e} /\ agent'.shares = S
    BY <1>1, <1>2 DEF AgentState
<1>4. Alone' /\ EnvsLeft' /\ RestoresOnly'
    BY <1>1, <1>3 DEF CutInv, PoliciesInv, Alone, EnvsLeft, RestoresOnly
<1>5. \A h \in Handlers : Checked(handler[h])'
    BY <1>1, SameChecks DEF CutInv, PoliciesInv, JournalInv
<1>6. Standing' = Standing /\ Standing \subseteq DOMAIN journal
    BY <1>1, <1>3, StandingRows DEF Standing, CutInv, db
<1>7. StandingShut'
    BY <1>1, <1>6, StillShut DEF CutInv, PoliciesInv, Shut, DialPolicies, db
<1>8. CutSoFar'
  <2> SUFFICES ASSUME NEW s \in Shares, share[s] = "live", Account(s) = agent.account,
                      Backend[s] \notin ignored
               PROVE  ShareEnv[s] \in agent'.envs \/ s \in agent'.shares \/ Shut(s)
      BY <1>1, <1>3 DEF CutSoFar, Shut, DialPolicies, db
  <2>1. CASE ShareEnv[s] = e
      BY <1>3, <2>1 DEF S, LiveShares
  <2>2. CASE ShareEnv[s] # e
      BY <1>1, <1>3, <2>2 DEF CutInv, PoliciesInv, CutSoFar
  <2> QED BY <2>1, <2>2
<1> QED BY <1>4, <1>5, <1>7, <1>8 DEF PoliciesInv

LEMMA CutSharePolicies == ASSUME CutInv, NEW s \in Shares, CutShare(s) PROVE PoliciesInv'
<1>1. /\ agent.pc = "cut" /\ UNCHANGED <<db, handler>>
      /\ agent' = [agent EXCEPT !.shares = @ \ {s}] /\ dial' = dial \ DialPolicies(s)
    BY DEF CutShare
<1>2. agent \in AgentState
    BY DEF CutInv, JournalInv, TypeInv
<1>3. /\ agent'.pc = "cut" /\ agent'.account = agent.account /\ agent'.class = agent.class
      /\ agent'.envs = agent.envs /\ agent'.shares = agent.shares \ {s}
    BY <1>1, <1>2 DEF AgentState
<1>4. Alone' /\ EnvsLeft' /\ RestoresOnly'
    BY <1>1, <1>3 DEF CutInv, PoliciesInv, Alone, EnvsLeft, RestoresOnly
<1>5. \A h \in Handlers : Checked(handler[h])'
    BY <1>1, SameChecks DEF CutInv, PoliciesInv, JournalInv
<1>6. Standing' = Standing /\ Standing \subseteq DOMAIN journal
    BY <1>1, <1>3, StandingRows DEF Standing, CutInv, db
<1>7. /\ \A t \in Shares : Shut(t) => Shut(t)'
      /\ Shut(s)'
    BY <1>1, FewerPolicies DEF Shut, DialPolicies
<1>8. StandingShut'
    BY <1>1, <1>6, <1>7, StillShut DEF CutInv, PoliciesInv, db
<1>9. CutSoFar'
  <2> SUFFICES ASSUME NEW t \in Shares, share[t] = "live", Account(t) = agent.account,
                      Backend[t] \notin IgnoredBackends(agent.account, agent.class)
               PROVE  ShareEnv[t] \in agent'.envs \/ t \in agent'.shares \/ Shut(t)'
      BY <1>1, <1>3 DEF CutSoFar, db
  <2>1. ShareEnv[t] \in agent.envs \/ t \in agent.shares \/ Shut(t)
      BY <1>1 DEF CutInv, PoliciesInv, CutSoFar
  <2> QED BY <1>3, <1>7, <2>1
<1> QED BY <1>4, <1>5, <1>8, <1>9 DEF PoliciesInv

LEMMA CutCommitPolicies ==
  ASSUME CutInv, "commit" \notin Faults, CutCommit PROVE PoliciesInv'
<1> DEFINE a == agent.account
           c == agent.class
<1>1. /\ agent.pc = "cut" /\ agent.envs = {} /\ agent.shares = {} /\ agent' = Cycled
      /\ UNCHANGED <<share, access, dial, handler>>
      /\ journal' = Append(journal, Entry(a, c))
    BY DEF CutCommit
<1>2. a \in Accounts /\ c \in Classes(a)
    BY <1>1 DEF CutInv, JournalInv, Cutting
<1>3. \A h \in Handlers : handler[h] = NoRequest
    BY <1>1 DEF CutInv, PoliciesInv, Alone
<1>4. ASSUME NEW s \in Shares, share[s] = "live", Account(s) = a, Governs(c, s) PROVE Shut(s)
  <2>1. Backend[s] \notin IgnoredBackends(a, c)
      BY <1>4, GovernedIsCut
  <2> QED BY <1>1, <1>4, <2>1 DEF CutInv, PoliciesInv, CutSoFar
<1> QED BY <1>1, <1>2, <1>3, <1>4, RowPolicies
-----------------------------------------------------------------------------
(* Limits are relaxed.                                                     *)

LEMMA RelaxBeginPolicies ==
  ASSUME Serial, CutInv, AfterReport \/ TimerRelax
  PROVE  PoliciesInv'
<1>1. UNCHANGED <<db, dial, handler>> /\ agent.pc \in {"loop", "cycle"}
    BY DEF AfterReport, TimerRelax, RelaxBegin
<1>2. CASE RelaxBegin
  <2>1. \A h \in Handlers : handler[h] = NoRequest
      BY <1>2 DEF RelaxBegin, CanBegin, NoTransaction
  <2>2. agent'.pc = "relax" /\ agent'.kept = DOMAIN journal /\ agent'.shares = {}
      BY <1>2 DEF RelaxBegin, Idle
  <2>3. Alone' /\ EnvsLeft' /\ RestoresOnly' /\ CutSoFar'
      BY <1>1, <2>1, <2>2 DEF Alone, EnvsLeft, RestoresOnly, CutSoFar
  <2>4. Standing' = DOMAIN journal /\ Standing = DOMAIN journal
      BY <1>1, <2>2 DEF Standing
  <2>5. StandingShut'
      BY <1>1, <2>4, StillShut DEF CutInv, PoliciesInv, Shut, DialPolicies, db
  <2>6. \A h \in Handlers : Checked(handler[h])'
      BY <1>1, <2>1, NoChecks
  <2> QED BY <2>3, <2>5, <2>6 DEF PoliciesInv
<1>3. CASE AfterReport /\ agent' = Idle
    BY <1>1, <1>3, ReportPolicies
<1> QED BY <1>2, <1>3 DEF AfterReport, TimerRelax

LEMMA RelaxRowPolicies ==
  ASSUME CutInv, NEW i \in DOMAIN journal, RelaxKeeps(i) \/ RelaxWarning(i) \/ RelaxLimit(i)
  PROVE  PoliciesInv'
<1>1. UNCHANGED <<db, dial, handler>> /\ agent.pc = "relax"
    BY DEF RelaxKeeps, RelaxWarning, RelaxLimit
<1>2. agent \in AgentState
    BY DEF CutInv, JournalInv, TypeInv
<1>3. agent'.kept \subseteq agent.kept /\ agent'.shares = agent.shares /\ agent.shares = {}
  <2>1. agent.shares = {}
      BY <1>1 DEF CutInv, PoliciesInv, RestoresOnly
  <2> QED BY <1>2, <2>1 DEF RelaxKeeps, RelaxWarning, RelaxLimit, AgentState
<1>4. \/ agent'.pc = "relax"
      \/ /\ agent'.pc = "restore" /\ agent'.account = journal[i].account
         /\ agent'.envs = {e \in Envs : EnvAccount[e] = journal[i].account}
    BY <1>1, <1>2 DEF RelaxKeeps, RelaxWarning, RelaxLimit, AgentState
<1>5. Alone' /\ EnvsLeft' /\ RestoresOnly' /\ CutSoFar'
    BY <1>1, <1>3, <1>4 DEF CutInv, PoliciesInv, Alone, EnvsLeft, RestoresOnly, CutSoFar
<1>6. \A h \in Handlers : Checked(handler[h])'
    BY <1>1, SameChecks DEF CutInv, PoliciesInv, JournalInv
<1>7. Standing = agent.kept /\ Standing' \subseteq agent'.kept
    BY <1>1, <1>4 DEF Standing
<1>8. StandingShut'
    BY <1>1, <1>3, <1>7, StandingRows, StillShut
       DEF CutInv, PoliciesInv, Shut, DialPolicies, db
<1> QED BY <1>5, <1>6, <1>8 DEF PoliciesInv

LEMMA RestoreEnvPolicies == ASSUME CutInv, NEW e \in Envs, RestoreEnv(e) PROVE PoliciesInv'
<1> DEFINE S == {s \in LiveShares(e) : Restorable(s)}
<1>1. /\ agent.pc = "restore" /\ e \in agent.envs /\ UNCHANGED <<db, dial, handler>>
      /\ agent' = [agent EXCEPT !.envs = @ \ {e}, !.shares = S]
    BY DEF RestoreEnv
<1>2. agent \in AgentState /\ agent.kept \subseteq DOMAIN journal
    BY DEF CutInv, JournalInv, TypeInv, Relaxing
<1>3. \A s \in S : s \in Shares /\ ShareEnv[s] = e /\ share[s] = "live" /\ Restorable(s)
    BY DEF LiveShares
<1> HIDE DEF S
<1>4. /\ agent'.pc = "restore" /\ agent'.account = agent.account /\ agent'.class = agent.class
      /\ agent'.kept = agent.kept /\ agent'.envs = agent.envs \ {e} /\ agent'.shares = S
    BY <1>1, <1>2 DEF AgentState
<1>5. Alone' /\ EnvsLeft' /\ CutSoFar'
    BY <1>1, <1>4 DEF CutInv, PoliciesInv, Alone, EnvsLeft, CutSoFar
<1>6. RestoresOnly'
  <2>1. UNCHANGED journal
      BY <1>1 DEF db
  <2>2. \A s \in S : Restorable(s)'
      BY <1>2, <1>3, <1>4, <2>1, SameRestorable
  <2>3. EnvAccount[e] = agent.account
      BY <1>1 DEF CutInv, PoliciesInv, EnvsLeft
  <2> QED BY <1>1, <1>3, <1>4, <2>2, <2>3 DEF RestoresOnly, Account, db
<1>7. \A h \in Handlers : Checked(handler[h])'
    BY <1>1, SameChecks DEF CutInv, PoliciesInv, JournalInv
<1>8. Standing' = Standing
    BY <1>1, <1>4 DEF Standing, Group, db
<1>9. StandingShut'
    BY <1>1, <1>8, StandingRows, StillShut DEF CutInv, PoliciesInv, Shut, DialPolicies, db
<1> QED BY <1>5, <1>6, <1>7, <1>9 DEF PoliciesInv

LEMMA RestoreSharePolicies ==
  ASSUME CutInv, NEW s \in Shares, RestoreShare(s) PROVE PoliciesInv'
<1>1. /\ agent.pc = "restore" /\ s \in agent.shares /\ UNCHANGED <<db, handler>>
      /\ agent' = [agent EXCEPT !.shares = @ \ {s}]
    BY DEF RestoreShare
<1>2. PICK D \in SUBSET (WantedPolicies(s) \ dial) : dial' = dial \cup D
    BY DEF RestoreShare
<1>3. agent \in AgentState /\ agent.kept \subseteq DOMAIN journal
    BY DEF CutInv, JournalInv, TypeInv, Relaxing
<1>4. /\ agent'.pc = "restore" /\ agent'.account = agent.account /\ agent'.class = agent.class
      /\ agent'.kept = agent.kept /\ agent'.envs = agent.envs
      /\ agent'.shares = agent.shares \ {s}
    BY <1>1, <1>3 DEF AgentState
<1>5. Alone' /\ EnvsLeft' /\ CutSoFar'
    BY <1>1, <1>4 DEF CutInv, PoliciesInv, Alone, EnvsLeft, CutSoFar
<1>6. RestoresOnly'
  <2>1. agent.shares \subseteq Shares
      BY <1>3 DEF AgentState
  <2>2. UNCHANGED journal
      BY <1>1 DEF db
  <2>3. \A t \in Shares : Restorable(t)' <=> Restorable(t)
      BY <1>3, <1>4, <2>2, SameRestorable
  <2> QED BY <1>1, <1>4, <2>1, <2>3 DEF CutInv, PoliciesInv, RestoresOnly, db
<1>7. \A h \in Handlers : Checked(handler[h])'
    BY <1>1, SameChecks DEF CutInv, PoliciesInv, JournalInv
<1>8. Standing' = Standing /\ Standing = agent.kept \ Group(agent.account, agent.class.id)
    BY <1>1, <1>4 DEF Standing, Group, db
<1>9. StandingShut'
  <2> SUFFICES ASSUME NEW t \in Shares, NEW i \in Standing, share[t] = "live", LimitRow(i, t)'
               PROVE  Shut(t)'
      BY <1>1, <1>8 DEF StandingShut, db
  <2>1. i \in DOMAIN journal /\ UNCHANGED journal
      BY <1>1, StandingRows DEF CutInv, db
  <2>2. LimitRow(i, t)
      BY <2>1, SameRows
  <2>3. t # s
    <3>1. /\ Account(s) = agent.account /\ Restorable(s)
          /\ agent.class \in Classes(agent.account) /\ agent.class.action = "limit"
          /\ JournalSound
        BY <1>1 DEF CutInv, PoliciesInv, RestoresOnly, JournalInv, Relaxing
    <3>2. ~LimitRow(i, s)
        BY <1>8, <2>1, <3>1, RestorableIsFree
    <3> QED BY <2>2, <3>2
  <2>4. Shut(t)
      BY <2>2 DEF CutInv, PoliciesInv, StandingShut
  <2>5. D \subseteq {s} \cup {f \in Frontends : FeShare[f] = s}
      BY DEF WantedPolicies, LiveAccesses
  <2>6. DialPolicies(t)' = DialPolicies(t)
      BY <1>2, <2>3, <2>5, OwnPolicies
  <2> QED BY <2>4, <2>6 DEF Shut
<1> QED BY <1>5, <1>6, <1>7, <1>9 DEF PoliciesInv

LEMMA RestoreDonePolicies == ASSUME CutInv, RestoreDone PROVE PoliciesInv'
<1> DEFINE K == agent.kept \ Group(agent.account, agent.class.id)
<1>1. /\ agent.pc = "restore" /\ agent.shares = {} /\ UNCHANGED <<db, dial, handler>>
      /\ agent' = [agent EXCEPT !.pc = "relax", !.account = None, !.class = None, !.kept = K]
    BY DEF RestoreDone
<1>2. agent \in AgentState
    BY DEF CutInv, JournalInv, TypeInv
<1>3. Standing = K
    BY <1>1 DEF Standing
<1> HIDE DEF K
<1>4. agent'.pc = "relax" /\ agent'.kept = K /\ agent'.shares = {}
    BY <1>1, <1>2 DEF AgentState
<1>5. Alone' /\ EnvsLeft' /\ CutSoFar' /\ RestoresOnly'
    BY <1>1, <1>4 DEF CutInv, PoliciesInv, Alone, EnvsLeft, CutSoFar, RestoresOnly
<1>6. \A h \in Handlers : Checked(handler[h])'
    BY <1>1, SameChecks DEF CutInv, PoliciesInv, JournalInv
<1>7. Standing' = Standing
    BY <1>3, <1>4 DEF Standing
<1>8. StandingShut'
    BY <1>1, <1>7, StandingRows, StillShut DEF CutInv, PoliciesInv, Shut, DialPolicies, db
<1> QED BY <1>5, <1>6, <1>8 DEF PoliciesInv

LEMMA RelaxCommitPolicies == ASSUME CutInv, RelaxCommit PROVE PoliciesInv'
<1>1. /\ agent.pc = "relax" /\ UNCHANGED <<share, access, dial, handler>>
      /\ agent' = Idle /\ journal' = Keep(agent.kept)
    BY DEF RelaxCommit, RelaxEnds
<1>2. agent'.pc = "loop"
    BY <1>1, Idles
<1>3. \A h \in Handlers : handler'[h] = NoRequest
    BY <1>1 DEF CutInv, PoliciesInv, Alone
<1>4. Alone' /\ EnvsLeft' /\ CutSoFar' /\ RestoresOnly'
    BY <1>2, <1>3 DEF Alone, EnvsLeft, CutSoFar, RestoresOnly
<1>5. \A h \in Handlers : Checked(handler[h])'
    BY <1>3, NoChecks
<1>6. agent.kept \in SUBSET DOMAIN journal /\ journal \in Seq(Rows)
    BY DEF CutInv, JournalInv, TypeInv, Relaxing
<1>7. Standing = agent.kept /\ Standing' = DOMAIN journal'
    BY <1>1, <1>2 DEF Standing
<1>8. StandingShut'
  <2> SUFFICES ASSUME NEW s \in Shares, NEW n \in DOMAIN journal', share[s] = "live",
                      LimitRow(n, s)'
               PROVE  Shut(s)
      BY <1>1, <1>7 DEF StandingShut, Shut, DialPolicies
  <2>1. PICK i \in agent.kept : journal'[n] = journal[i]
      BY <1>1, <1>6, KeepAll
  <2>2. LimitRow(i, s)
      BY <1>6, <2>1, MovedRow
  <2> QED BY <1>7, <2>2 DEF CutInv, PoliciesInv, StandingShut
<1> QED BY <1>4, <1>5, <1>8 DEF PoliciesInv
-----------------------------------------------------------------------------
(* The request handlers keep to the limits.                                *)

\* The agent is between two transactions while a handler works.
LEMMA HandlerAlone ==
  ASSUME CutInv, NEW h \in Handlers, handler[h] # NoRequest
  PROVE  /\ agent.pc \in {"loop", "cycle"}
         /\ \A g \in Handlers : g # h => handler[g] = NoRequest
  BY DEF CutInv, PoliciesInv, Alone

LEMMA BeginPolicies ==
  ASSUME Serial, CutInv, NEW h \in Handlers, NEW op, NEW id, Begin(h, op, id),
         LegalHandler([op |-> op, id |-> id, step |-> "checked"]),
         Checked([op |-> op, id |-> id, step |-> "checked"])
  PROVE  PoliciesInv'
<1>1. PICK q : q = [op |-> op, id |-> id, step |-> "checked"]
    OBVIOUS
<1>2. /\ handler' = [handler EXCEPT ![h] = q] /\ UNCHANGED <<db, dial, agent>>
      /\ agent.pc \in {"loop", "cycle"} /\ \A g \in Handlers : handler[g] = NoRequest
    BY <1>1 DEF Begin, CanBegin, NoTransaction
<1>3. /\ handler \in [Handlers -> HandlerState] /\ LegalHandler(q) /\ Checked(q)
    BY <1>1 DEF CutInv, JournalInv, TypeInv
<1>4. handler'[h] = q /\ \A g \in Handlers : g # h => handler'[g] = NoRequest
    BY <1>2, <1>3
<1>5. Checked(q)'
    BY <1>2, <1>3, SameCheck
<1>6. \A g \in Handlers : Checked(handler[g])'
    BY <1>4, <1>5 DEF Checked, NoRequest
<1>7. Alone' /\ EnvsLeft' /\ CutSoFar' /\ RestoresOnly'
    BY <1>2, <1>4 DEF Alone, EnvsLeft, CutSoFar, RestoresOnly
<1>8. Standing' = Standing
    BY <1>2 DEF Standing, db
<1>9. StandingShut'
    BY <1>2, <1>8, StandingRows, StillShut DEF CutInv, PoliciesInv, Shut, DialPolicies, db
<1> QED BY <1>6, <1>7, <1>9 DEF PoliciesInv

LEMMA RequestPolicies ==
  ASSUME Serial, CutInv, NEW h \in Handlers, Request(h) PROVE PoliciesInv'
<1>1. JournalSound /\ journal \in Seq(Rows)
    BY DEF CutInv, JournalInv, TypeInv
<1>2. ASSUME NEW s \in Shares, ShareBegin(h, s) PROVE PoliciesInv'
  <2>1. ~LimitInForce(s)
      BY <1>1, <1>2, LimitRefuses DEF ShareBegin
  <2>2. /\ LegalHandler([op |-> "share", id |-> s, step |-> "checked"])
        /\ Checked([op |-> "share", id |-> s, step |-> "checked"])
      BY <1>2, <2>1 DEF ShareBegin, Checked, LegalHandler
  <2> QED BY <1>2, <2>2, BeginPolicies DEF ShareBegin
<1>3. ASSUME NEW s \in Shares, UnshareBegin(h, s) PROVE PoliciesInv'
  <2>1. /\ LegalHandler([op |-> "unshare", id |-> s, step |-> "checked"])
        /\ Checked([op |-> "unshare", id |-> s, step |-> "checked"])
      BY <1>3 DEF UnshareBegin, Checked, LegalHandler
  <2> QED BY <1>3, <2>1, BeginPolicies DEF UnshareBegin
<1>4. ASSUME NEW f \in Frontends, AccessBegin(h, f) PROVE PoliciesInv'
  <2>1. FeShare[f] \in Shares
      BY LimitsAgentAssumption
  <2>2. ~LimitInForce(FeShare[f])
      BY <1>1, <1>4, <2>1, LimitRefuses DEF AccessBegin
  <2>3. /\ LegalHandler([op |-> "access", id |-> f, step |-> "checked"])
        /\ Checked([op |-> "access", id |-> f, step |-> "checked"])
      BY <1>4, <2>2 DEF AccessBegin, Checked, LegalHandler
  <2> QED BY <1>4, <2>3, BeginPolicies DEF AccessBegin
<1>5. ASSUME NEW f \in Frontends, UnaccessBegin(h, f) PROVE PoliciesInv'
  <2>1. /\ LegalHandler([op |-> "unaccess", id |-> f, step |-> "checked"])
        /\ Checked([op |-> "unaccess", id |-> f, step |-> "checked"])
      BY <1>5 DEF UnaccessBegin, Checked, LegalHandler
  <2> QED BY <1>5, <2>1, BeginPolicies DEF UnaccessBegin
<1> QED BY <1>2, <1>3, <1>4, <1>5 DEF Request

LEMMA ChangePolicies == ASSUME CutInv, NEW h \in Handlers, ChangeZiti(h) PROVE PoliciesInv'
<1>1. PICK q : q = handler[h]
    OBVIOUS
<1>2. /\ q.step = "checked" /\ handler' = [handler EXCEPT ![h] = [q EXCEPT !.step = "changed"]]
      /\ UNCHANGED <<db, agent>>
      /\ dial' = DialAfter(q.op, q.id) \/ (q.op = "unaccess" /\ UNCHANGED dial)
    BY <1>1 DEF ChangeZiti
<1>3. /\ q \in HandlerState /\ Checked(q) /\ LegalHandler(q)
      /\ \/ q.op \in {"share", "unshare"} /\ q.id \in Shares
         \/ q.op \in {"access", "unaccess"} /\ q.id \in Frontends
    BY <1>1, <1>2, BusyHandler DEF CutInv, PoliciesInv, JournalInv, TypeInv
<1>4. /\ agent.pc \in {"loop", "cycle"}
      /\ \A g \in Handlers : g # h => handler[g] = NoRequest
    BY <1>1, <1>2, HandlerAlone DEF NoRequest
<1>5. PICK r : r = [q EXCEPT !.step = "changed"]
    OBVIOUS
<1>6. /\ r.op = q.op /\ r.id = q.id /\ handler'[h] = r
      /\ \A g \in Handlers : g # h => handler'[g] = NoRequest
    BY <1>2, <1>3, <1>4, <1>5 DEF HandlerState, CutInv, JournalInv, TypeInv
<1>7. Checked(r)'
  <2>1. Checked(q)'
      BY <1>2, <1>3, SameCheck
  <2> QED BY <1>6, <2>1 DEF Checked
<1>8. \A g \in Handlers : Checked(handler[g])'
    BY <1>6, <1>7 DEF Checked, NoRequest
<1>9. Alone' /\ EnvsLeft' /\ CutSoFar' /\ RestoresOnly'
    BY <1>2, <1>4, <1>6 DEF Alone, EnvsLeft, CutSoFar, RestoresOnly
<1>10. Standing' = DOMAIN journal /\ Standing = DOMAIN journal /\ UNCHANGED <<journal, share>>
    BY <1>2, <1>4 DEF Standing, db
<1>11. StandingShut'
  <2> SUFFICES ASSUME NEW s \in Shares, NEW i \in DOMAIN journal, share[s] = "live",
                      LimitRow(i, s)'
               PROVE  Shut(s)'
      BY <1>10 DEF StandingShut
  <2>1. LimitRow(i, s)
      BY <1>10, SameRows
  <2>2. Shut(s) /\ LimitInForce(s)
      BY <1>10, <2>1 DEF CutInv, PoliciesInv, StandingShut, LimitInForce
  <2>3. CASE q.op = "share"
    <3>1. dial' = dial \cup ({q.id} \cap Public) /\ q.id # s /\ q.id \in Shares
        BY <1>2, <1>3, <2>2, <2>3 DEF DialAfter, Checked
    <3>2. {q.id} \cap Public \subseteq {q.id} \cup {f \in Frontends : FeShare[f] = q.id}
        OBVIOUS
    <3>3. DialPolicies(s)' = DialPolicies(s)
        BY <3>1, <3>2, OwnPolicies
    <3> QED BY <2>2, <3>3 DEF Shut
  <2>4. CASE q.op = "access"
    <3>1. dial' = dial \cup {q.id} /\ q.id \in Frontends
        BY <1>2, <1>3, <2>4 DEF DialAfter
    <3>2. FeShare[q.id] # s /\ FeShare[q.id] \in Shares
        BY <1>3, <2>2, <2>4, <3>1, LimitsAgentAssumption DEF Checked
    <3>3. {q.id} \subseteq {FeShare[q.id]} \cup {f \in Frontends : FeShare[f] = FeShare[q.id]}
        BY <3>1
    <3>4. DialPolicies(s)' = DialPolicies(s)
        BY <3>1, <3>2, <3>3, OwnPolicies
    <3> QED BY <2>2, <3>4 DEF Shut
  <2>5. CASE q.op \in {"unshare", "unaccess"}
    <3>1. dial' \subseteq dial
        BY <1>2, <2>5 DEF DialAfter
    <3> QED BY <2>2, <3>1, FewerPolicies
  <2> QED BY <1>3, <2>3, <2>4, <2>5
<1> QED BY <1>8, <1>9, <1>11 DEF PoliciesInv

LEMMA CommitPolicies == ASSUME CutInv, NEW h \in Handlers, Commit(h) PROVE PoliciesInv'
<1>1. PICK q : q = handler[h]
    OBVIOUS
<1>2. /\ q.step = "changed" /\ handler' = [handler EXCEPT ![h] = NoRequest]
      /\ UNCHANGED <<journal, dial, agent>>
      /\ share' = CASE q.op = "share" -> [share EXCEPT ![q.id] = "live"]
                    [] q.op = "unshare" -> [share EXCEPT ![q.id] = "deleted"]
                    [] OTHER -> share
    BY <1>1 DEF Commit
<1>3. Checked(q) /\ handler \in [Handlers -> HandlerState] /\ share \in [Shares -> Status]
    BY <1>1 DEF CutInv, PoliciesInv, JournalInv, TypeInv
<1>4. /\ agent.pc \in {"loop", "cycle"}
      /\ \A g \in Handlers : g # h => handler[g] = NoRequest
    BY <1>1, <1>2, HandlerAlone DEF NoRequest
<1>5. \A g \in Handlers : handler'[g] = NoRequest
    BY <1>2, <1>3, <1>4
<1>6. \A g \in Handlers : Checked(handler[g])'
    BY <1>5, NoChecks
<1>7. Alone' /\ EnvsLeft' /\ CutSoFar' /\ RestoresOnly'
    BY <1>2, <1>4, <1>5 DEF Alone, EnvsLeft, CutSoFar, RestoresOnly
<1>8. Standing' = DOMAIN journal /\ Standing = DOMAIN journal
    BY <1>2, <1>4 DEF Standing
<1>9. StandingShut'
  <2> SUFFICES ASSUME NEW s \in Shares, NEW i \in DOMAIN journal, share'[s] = "live",
                      LimitRow(i, s)'
               PROVE  Shut(s)
      BY <1>2, <1>8 DEF StandingShut, Shut, DialPolicies
  <2>1. LimitRow(i, s)
      BY <1>2, SameRows
  <2>2. share[s] = "live"
    <3>1. share[s] = "live" \/ (q.op = "share" /\ s = q.id)
        BY <1>2, <1>3
    <3> QED BY <1>3, <2>1, <3>1 DEF Checked, LimitInForce
  <2> QED BY <1>8, <2>1, <2>2 DEF CutInv, PoliciesInv, StandingShut
<1> QED BY <1>6, <1>7, <1>9 DEF PoliciesInv
-----------------------------------------------------------------------------
LEMMA NextCut ==
  ASSUME Serial, Faults \subseteq {"email"}
  PROVE  CutInv /\ [Next]_vars => CutInv'
<1> SUFFICES ASSUME CutInv, [Next]_vars PROVE PoliciesInv'
    BY NextJournal DEF CutInv
<1>0. "edge" \notin Faults /\ "commit" \notin Faults /\ "influx" \notin Faults /\ "crash" \notin Faults
    OBVIOUS
<1>1. CASE World \/ Clock
    BY <1>0, <1>1, SamePolicies
       DEF World, Clock, Traffic, Crash, CyclePasses, TimerRuns, TimerFires, db
<1>2. CASE Receive
  <2>1. ASSUME NEW s \in Shares, ReportIgnored(s) PROVE PoliciesInv'
      BY <2>1, ReportPolicies DEF ReportIgnored, Report
  <2>2. ASSUME NEW s \in Shares, ReportWarns(s) PROVE PoliciesInv'
    <3> DEFINE a == Account(s)
               c == Selected(s)
    <3>1. a \in Accounts /\ c \in Classes(a) /\ c.action = "warning"
        BY <2>2, SelectedIsClass DEF ReportWarns, NewExcess
    <3>2. /\ agent.pc = "loop" /\ agent' = Cycled /\ UNCHANGED <<share, access, dial, handler>>
          /\ \A h \in Handlers : handler[h] = NoRequest
          /\ journal' = Append(journal, Entry(a, c))
        BY <2>2 DEF ReportWarns, Report, CanBegin, NoTransaction
    <3> HIDE DEF a, c
    <3>3. c.action = "limit" => \A t \in Shares :
             share[t] = "live" /\ Account(t) = a /\ Governs(c, t) => Shut(t)
        BY <3>1
    <3> QED BY <3>1, <3>2, <3>3, RowPolicies
  <2>3. CASE ReportWithoutToken
      BY <2>3, SamePolicies DEF ReportWithoutToken, db
  <2> QED BY <1>2, <2>1, <2>2, <2>3, LimitsPolicies DEF Receive
<1>3. CASE Cut
    BY <1>0, <1>3, CutEnvPolicies, CutSharePolicies, CutCommitPolicies DEF Cut, CutFails
<1>4. CASE AfterReport \/ TimerRelax
    BY <1>4, RelaxBeginPolicies
<1>5. CASE Relax
    BY <1>0, <1>5, RelaxRowPolicies, RestoreEnvPolicies, RestoreSharePolicies,
       RestoreDonePolicies, RelaxCommitPolicies DEF Relax, RelaxFails
<1>6. CASE \E h \in Handlers : Request(h) \/ Finish(h)
    BY <1>0, <1>6, RequestPolicies, ChangePolicies, CommitPolicies DEF Finish, Fail
<1>7. CASE UNCHANGED vars
    BY <1>7, SamePolicies DEF vars, db
<1> QED BY <1>1, <1>2, <1>3, <1>4, <1>5, <1>6, <1>7 DEF Next

\* On sqlite, where transactions come one at a time, and while OpenZiti, the
\* metrics store and the commits do not fail, a live share that a journaled
\* limit governs has no dial policy: enforce has cut what was there
\* (limitAction.go), what is made later is refused (agent.go:91-109 and
\* 175-193), and relaxing another class leaves it alone (relaxAction.go:52-73).
THEOREM LimitedSharesAreCut ==
  ASSUME Serial, Faults \subseteq {"email"}
  PROVE  Spec => []CutWhileLimited
<1>1. CutInv => CutWhileLimited
  <2> SUFFICES ASSUME CutInv, Quiet, NEW s \in Shares, share[s] = "live", LimitInForce(s)
               PROVE  DialPolicies(s) = {}
      BY DEF CutWhileLimited
  <2>1. Standing = DOMAIN journal
      BY DEF Quiet, NoTransaction, Standing
  <2> QED BY <2>1 DEF LimitInForce, CutInv, PoliciesInv, StandingShut, Shut
<1> QED BY <1>1, InitCut, NextCut, PTL DEF Spec
-----------------------------------------------------------------------------
(* What no limit governs is open.                                          *)

LEMMA UnscopedClasses ==
  ASSUME Unscoped, NEW a \in Accounts, NEW c \in Classes(a)
  PROVE  ~IsScoped(c)
  BY ClassKinds DEF Unscoped

LEMMA UnscopedGoverns ==
  ASSUME Unscoped, NEW s \in Shares, NEW c \in Classes(Account(s))
  PROVE  Governs(c, s)
<1>1. Account(s) \in Accounts
    BY AccountType
<1>2. ~IsScoped(c)
    BY <1>1, UnscopedClasses
<1> QED BY <1>1, <1>2 DEF Governs, Unscoped

LEMMA UnscopedRestorable ==
  ASSUME Unscoped, CutInv, agent.pc = "restore"
  PROVE  \A s \in Shares : Restorable(s)
<1>1. agent.account \in Accounts /\ agent.class \in Classes(agent.account)
      /\ agent.kept \subseteq DOMAIN journal
    BY DEF CutInv, JournalInv, Relaxing
<1>2. ~IsScoped(agent.class)
    BY <1>1, UnscopedClasses
<1>3. ASSUME NEW i \in agent.kept PROVE ~IsScoped(ClassOf(journal[i]))
  <2>1. i \in DOMAIN journal
      BY <1>1
  <2>2. journal[i].account \in Accounts /\ ClassOf(journal[i]) \in Classes(journal[i].account)
      BY <2>1, RowClass DEF CutInv, JournalInv
  <2> QED BY <2>2, UnscopedClasses
<1>4. LimitedBackends = {}
    BY <1>3 DEF LimitedBackends
<1> QED BY <1>2, <1>4 DEF Restorable

LEMMA OwnWanted ==
  ASSUME NEW s \in Shares
  PROVE  /\ WantedPolicies(s) \subseteq {s} \cup {f \in Frontends : FeShare[f] = s}
         /\ WantedPolicies(s) \cap dial \subseteq DialPolicies(s)
         /\ \A t \in Shares : t # s => WantedPolicies(s) \cap DialPolicies(t) = {}
                                       /\ t \notin WantedPolicies(s)
<1>1. WantedPolicies(s) \subseteq {s} \cup {f \in Frontends : FeShare[f] = s}
    BY DEF WantedPolicies, LiveAccesses
<1>2. ASSUME NEW t \in Shares, t # s, NEW x \in {s} \cup {f \in Frontends : FeShare[f] = s}
      PROVE  x \notin {t} \cup {f \in Frontends : FeShare[f] = t}
    BY <1>2, LimitsAgentAssumption
<1> QED BY <1>1, <1>2 DEF DialPolicies

LEMMA NoneRemoving ==
  ASSUME \A h \in Handlers : handler[h] = NoRequest
  PROVE  Removing = {}
  BY DEF Removing, NoRequest

LEMMA InitReach == Init => ReachInv
<1> SUFFICES ASSUME Init PROVE ReachInv
    OBVIOUS
<1>1. agent.pc = "loop" /\ \A h \in Handlers : handler[h].step = "none"
    BY Idles DEF Init, NoRequest
<1>2. (\A s \in Shares : share[s] = "none") /\ \A f \in Frontends : access[f] = "none"
    BY DEF Init
<1> QED BY <1>1, <1>2 DEF ReachInv, FreeOpen, OthersOpen, CreatedOpen, AccessedOnce, Restoring

\* Nothing that the invariant speaks about changes.
LEMMA SameReach ==
  ASSUME ReachInv, UNCHANGED <<journal, share, access, dial, agent, handler>>
  PROVE  ReachInv'
<1>1. \A s \in Shares : LimitInForce(s)' <=> LimitInForce(s)
    BY SameRows
<1>2. \A s \in Shares : WantedPolicies(s)' = WantedPolicies(s)
    BY DEF WantedPolicies, LiveAccesses
<1>3. \A s \in Shares : Shut(s)' <=> Shut(s)
    BY DEF Shut, DialPolicies
<1>4. \A s \in Shares : Reachable(s)' <=> Reachable(s)
    BY <1>2 DEF Reachable
<1>5. Removing' = Removing
    BY DEF Removing
<1>6. FreeOpen'
    BY <1>1, <1>2, <1>5 DEF ReachInv, FreeOpen
<1>7. OthersOpen'
    BY <1>1, <1>4 DEF ReachInv, OthersOpen
<1>8. \A i \in DOMAIN journal, s \in Shares : LimitRow(i, s)' <=> LimitRow(i, s)
    BY SameRows
<1>9. \A i \in DOMAIN journal : Exceeded(i)' <=> Exceeded(i)
    BY SameExceeded
<1>10. Restoring'
    BY <1>3, <1>4, <1>8, <1>9 DEF ReachInv, Restoring
<1> QED BY <1>6, <1>7, <1>10 DEF ReachInv, CreatedOpen, AccessedOnce

\* The agent does not work on a limit, before and after.
LEMMA StillReach ==
  ASSUME ReachInv, UNCHANGED <<share, access, dial, handler>>,
         agent.pc # "cut", agent'.pc \in {"loop", "cycle"},
         \A s \in Shares : LimitInForce(s) => LimitInForce(s)' \/ Reachable(s)
  PROVE  ReachInv'
<1>1. Removing' = Removing /\ \A s \in Shares : WantedPolicies(s)' = WantedPolicies(s)
    BY DEF Removing, WantedPolicies, LiveAccesses
<1>2. FreeOpen'
    BY <1>1 DEF ReachInv, FreeOpen, Reachable
<1> QED BY <1>2 DEF ReachInv, OthersOpen, CreatedOpen, AccessedOnce, Restoring

LEMMA WarnsReach == ASSUME OpenInv, NEW s \in Shares, ReportWarns(s) PROVE ReachInv'
<1> DEFINE e == Entry(Account(s), Selected(s))
<1>1. e \in Rows /\ journal \in Seq(Rows) /\ journal' = Append(journal, e)
    BY SelectedIsClass, ClassOfEntry DEF ReportWarns, NewExcess, OpenInv, CutInv, JournalInv, TypeInv
<1> HIDE DEF e
<1>2. \A i \in DOMAIN journal : i \in DOMAIN journal' /\ journal'[i] = journal[i]
    BY <1>1, AppendedStays
<1>3. \A t \in Shares : LimitInForce(t) => LimitInForce(t)'
    BY <1>2, MovedRow DEF LimitInForce
<1>4. agent.pc = "loop" /\ agent'.pc = "cycle" /\ UNCHANGED <<share, access, dial, handler>>
    BY Idles DEF ReportWarns, Report
<1> QED BY <1>3, <1>4, StillReach DEF OpenInv

LEMMA LimitsReach == ASSUME Serial, OpenInv, NEW s \in Shares, ReportLimits(s) PROVE ReachInv'
<1>1. /\ agent.pc = "loop" /\ UNCHANGED <<journal, share, access, dial, handler>>
      /\ \A h \in Handlers : handler[h] = NoRequest
    BY DEF ReportLimits, Report, CanBegin, NoTransaction, db
<1>2. agent'.pc = "cut" /\ agent'.shares = {}
    BY DEF ReportLimits, Idle
<1>3. Removing = {}
    BY <1>1, NoneRemoving
<1>4. \A t \in Shares : /\ LimitInForce(t)' <=> LimitInForce(t)
                        /\ Reachable(t)' <=> Reachable(t)
    BY <1>1, SameRows DEF Reachable, WantedPolicies, LiveAccesses
<1>5. OthersOpen'
    BY <1>1, <1>2, <1>3, <1>4 DEF OpenInv, ReachInv, FreeOpen, OthersOpen, Reachable
<1> QED BY <1>1, <1>2, <1>5
        DEF OpenInv, ReachInv, FreeOpen, CreatedOpen, AccessedOnce, Restoring

LEMMA CutEnvReach == ASSUME OpenInv, NEW e \in Envs, CutEnv(e) PROVE ReachInv'
<1>1. PICK S \in SUBSET LiveShares(e) : agent' = [agent EXCEPT !.envs = @ \ {e}, !.shares = S]
    BY DEF CutEnv
<1>2. /\ agent.pc = "cut" /\ e \in agent.envs /\ agent \in AgentState
      /\ UNCHANGED <<journal, share, access, dial, handler>>
    BY DEF CutEnv, OpenInv, CutInv, JournalInv, TypeInv, db
<1>3. agent'.pc = "cut" /\ agent'.account = agent.account /\ agent'.shares = S
    BY <1>1, <1>2 DEF AgentState
<1>4. \A s \in S : Account(s) = agent.account
    BY <1>2 DEF LiveShares, Account, OpenInv, CutInv, PoliciesInv, EnvsLeft
<1>5. \A t \in Shares : /\ LimitInForce(t)' <=> LimitInForce(t)
                        /\ Reachable(t)' <=> Reachable(t)
    BY <1>2, SameRows DEF Reachable, WantedPolicies, LiveAccesses
<1>6. OthersOpen'
    BY <1>2, <1>3, <1>4, <1>5 DEF OpenInv, ReachInv, OthersOpen
<1> QED BY <1>2, <1>3, <1>6
        DEF OpenInv, ReachInv, FreeOpen, CreatedOpen, AccessedOnce, Restoring

LEMMA CutShareReach == ASSUME OpenInv, NEW s \in Shares, CutShare(s) PROVE ReachInv'
<1>1. /\ agent.pc = "cut" /\ s \in agent.shares /\ agent \in AgentState
      /\ UNCHANGED <<journal, share, access, handler>>
      /\ agent' = [agent EXCEPT !.shares = @ \ {s}] /\ dial' = dial \ DialPolicies(s)
    BY DEF CutShare, OpenInv, CutInv, JournalInv, TypeInv, db
<1>2. agent'.pc = "cut" /\ agent'.account = agent.account /\ agent'.shares = agent.shares \ {s}
    BY <1>1 DEF AgentState
<1>3. Account(s) = agent.account
    BY <1>1 DEF OpenInv, ReachInv, OthersOpen
<1>4. ASSUME NEW t \in Shares, t # s, Reachable(t) PROVE Reachable(t)'
  <2>1. WantedPolicies(t)' = WantedPolicies(t)
      BY <1>1 DEF WantedPolicies, LiveAccesses
  <2>2. WantedPolicies(t) \cap DialPolicies(s) = {}
      BY <1>4, OwnWanted
  <2> QED BY <1>1, <1>4, <2>1, <2>2 DEF Reachable
<1>5. \A t \in Shares : LimitInForce(t)' <=> LimitInForce(t)
    BY <1>1, SameRows
<1>6. OthersOpen'
    BY <1>1, <1>2, <1>3, <1>4, <1>5 DEF OpenInv, ReachInv, OthersOpen
<1>7. CreatedOpen'
    BY <1>1 DEF OpenInv, CutInv, PoliciesInv, Alone, CreatedOpen, NoRequest
<1> QED BY <1>1, <1>2, <1>6, <1>7 DEF OpenInv, ReachInv, FreeOpen, AccessedOnce, Restoring

LEMMA CutCommitReach ==
  ASSUME Unscoped, "commit" \notin Faults, OpenInv, CutCommit
  PROVE  ReachInv'
<1> DEFINE a == agent.account
           c == agent.class
           e == Entry(a, c)
<1>1. /\ agent.pc = "cut" /\ agent' = Cycled /\ UNCHANGED <<share, access, dial, handler>>
      /\ journal' = Append(journal, e)
    BY DEF CutCommit
<1>2. a \in Accounts /\ c \in Classes(a) /\ c.action = "limit" /\ journal \in Seq(Rows)
    BY <1>1 DEF OpenInv, CutInv, JournalInv, Cutting, TypeInv
<1>3. e \in Rows /\ ClassOf(e) = c /\ e.account = a /\ e.action = "limit"
    BY <1>2, ClassOfEntry
<1> HIDE DEF e
<1>4. /\ \A i \in DOMAIN journal : i \in DOMAIN journal' /\ journal'[i] = journal[i]
      /\ \E n \in DOMAIN journal' : journal'[n] = e
    BY <1>1, <1>2, <1>3, AppendedStays
<1>5. ASSUME NEW s \in Shares, share[s] = "live", ~LimitInForce(s)' PROVE Reachable(s)
  <2>1. ~LimitInForce(s)
      BY <1>4, <1>5, MovedRow DEF LimitInForce
  <2>2. Account(s) # a
    <3> SUFFICES ASSUME Account(s) = a PROVE FALSE
        OBVIOUS
    <3>1. PICK n \in DOMAIN journal' : journal'[n] = e
        BY <1>4
    <3>2. Governs(c, s)
        BY <1>2, UnscopedGoverns
    <3>3. ClassOf(journal[n])' = ClassOf(e)
        BY <3>1 DEF ClassOf
    <3>4. LimitRow(n, s)'
        BY <1>3, <3>1, <3>2, <3>3 DEF LimitRow, Governs
    <3> QED BY <1>5, <3>1, <3>4 DEF LimitInForce
  <2> QED BY <1>1, <1>5, <2>1, <2>2 DEF OpenInv, ReachInv, OthersOpen
<1>6. agent'.pc = "cycle" /\ \A s \in Shares : WantedPolicies(s)' = WantedPolicies(s)
    BY <1>1, Idles DEF WantedPolicies, LiveAccesses
<1>7. FreeOpen'
    BY <1>1, <1>5, <1>6 DEF FreeOpen, Reachable
<1> QED BY <1>1, <1>6, <1>7 DEF OpenInv, ReachInv, OthersOpen, CreatedOpen, AccessedOnce, Restoring
-----------------------------------------------------------------------------
(* A relax cycle opens what it relaxes.                                    *)

\* No policy goes away.
LEMMA MoreReach ==
  ASSUME ReachInv, UNCHANGED <<journal, share, access, handler>>, dial \subseteq dial',
         agent.pc # "cut", agent'.pc \in {"relax", "restore"}, Restoring'
  PROVE  ReachInv'
<1>1. \A s \in Shares : /\ LimitInForce(s)' <=> LimitInForce(s)
    BY SameRows
<1>2. \A s \in Shares : WantedPolicies(s)' = WantedPolicies(s)
    BY DEF WantedPolicies, LiveAccesses
<1>3. Removing' = Removing
    BY DEF Removing
<1>4. FreeOpen'
    BY <1>1, <1>2, <1>3 DEF ReachInv, FreeOpen
<1>5. CreatedOpen'
    BY DEF ReachInv, CreatedOpen
<1> QED BY <1>4, <1>5 DEF ReachInv, OthersOpen, AccessedOnce

\* Only the agent's locals change.
LEMMA SameShares ==
  ASSUME UNCHANGED <<journal, share, access, dial>>
  PROVE  /\ \A s \in Shares : Shut(s)' <=> Shut(s)
         /\ \A s \in Shares : Reachable(s)' <=> Reachable(s)
         /\ \A i \in DOMAIN journal, s \in Shares : LimitRow(i, s)' <=> LimitRow(i, s)
<1>1. \A s \in Shares : WantedPolicies(s)' = WantedPolicies(s)
    BY DEF WantedPolicies, LiveAccesses
<1>2. \A s \in Shares : Shut(s)' <=> Shut(s)
    BY DEF Shut, DialPolicies
<1>3. \A s \in Shares : Reachable(s)' <=> Reachable(s)
    BY <1>1 DEF Reachable
<1> QED BY <1>2, <1>3, SameRows

LEMMA RelaxBeginReach ==
  ASSUME Serial, OpenInv, AfterReport \/ TimerRelax
  PROVE  ReachInv'
<1>1. UNCHANGED <<journal, share, access, dial, handler>> /\ agent.pc \in {"loop", "cycle"}
    BY DEF AfterReport, TimerRelax, RelaxBegin, db
<1>2. CASE RelaxBegin
  <2>1. \A h \in Handlers : handler[h] = NoRequest
      BY <1>2 DEF RelaxBegin, CanBegin, NoTransaction
  <2>2. agent'.pc = "relax" /\ agent'.todo = DOMAIN journal
      BY <1>2 DEF RelaxBegin, Idle
  <2>3. ASSUME NEW s \in Shares, share[s] = "live" PROVE Shut(s) \/ Reachable(s)
    <3>1. CASE LimitInForce(s)
      <4>1. Standing = DOMAIN journal
          BY <1>1 DEF Standing
      <4> QED BY <2>3, <3>1, <4>1 DEF LimitInForce, OpenInv, CutInv, PoliciesInv, StandingShut
    <3>2. CASE ~LimitInForce(s)
      <4>1. Removing = {}
          BY <2>1, NoneRemoving
      <4> QED BY <1>1, <2>3, <3>2, <4>1 DEF OpenInv, ReachInv, FreeOpen, Reachable
    <3> QED BY <3>1, <3>2
  <2>4. Restoring'
      BY <1>1, <2>2, <2>3, SameShares DEF Restoring
  <2> QED BY <1>1, <2>2, <2>4, MoreReach DEF OpenInv
<1>3. CASE AfterReport /\ agent' = Idle
  <2>1. agent'.pc = "loop" /\ \A s \in Shares : LimitInForce(s)' <=> LimitInForce(s)
      BY <1>1, <1>3, Idles, SameRows
  <2> QED BY <1>1, <2>1, StillReach DEF OpenInv
<1> QED BY <1>2, <1>3 DEF AfterReport, TimerRelax

\* A row that stays is exceeded; a row to be relaxed is a warning's, or its
\* account is restored.
LEMMA RelaxRowReach ==
  ASSUME OpenInv, NEW i \in DOMAIN journal, RelaxKeeps(i) \/ RelaxWarning(i) \/ RelaxLimit(i)
  PROVE  ReachInv'
<1>1. UNCHANGED <<journal, share, access, dial, handler>> /\ agent.pc = "relax"
    BY DEF RelaxKeeps, RelaxWarning, RelaxLimit, db
<1>2. agent \in AgentState /\ ClassOf(journal[i]).action = journal[i].action
    BY RowClass DEF OpenInv, CutInv, JournalInv, TypeInv
<1>3. agent'.todo = agent.todo \ {i} /\ agent'.used = agent.used
    BY <1>2 DEF RelaxKeeps, RelaxWarning, RelaxLimit, AgentState
<1>4. \/ agent'.pc = "relax" /\ (Exceeded(i) \/ journal[i].action = "warning")
      \/ /\ agent'.pc = "restore" /\ agent'.account = journal[i].account
         /\ agent'.envs = {e \in Envs : EnvAccount[e] = journal[i].account}
    BY <1>1, <1>2 DEF RelaxKeeps, RelaxWarning, RelaxLimit, AgentState
<1>5. \A j \in DOMAIN journal : Exceeded(j)' <=> Exceeded(j)
    BY <1>1, <1>3, SameExceeded
<1>6. ASSUME NEW s \in Shares, share[s] = "live"
      PROVE  /\ Shut(s) \/ Reachable(s)
             /\ \A j \in DOMAIN journal \ agent.todo : LimitRow(j, s) => Exceeded(j) \/ Reachable(s)
    BY <1>1, <1>6 DEF OpenInv, ReachInv, Restoring
<1>7. ASSUME NEW s \in Shares, share[s] = "live",
             ~(agent'.pc = "restore" /\ Account(s) = agent'.account),
             NEW j \in DOMAIN journal \ agent'.todo, LimitRow(j, s)
      PROVE  Exceeded(j) \/ Reachable(s)
  <2>1. CASE j = i
      BY <1>4, <1>7, <2>1 DEF LimitRow
  <2>2. CASE j # i
      BY <1>3, <1>6, <1>7, <2>2
  <2> QED BY <2>1, <2>2
<1>8. ASSUME NEW s \in Shares, agent'.pc = "restore", Account(s) = agent'.account
      PROVE  ShareEnv[s] \in agent'.envs
    BY <1>4, <1>8, LimitsAgentAssumption DEF Account
<1>9. Restoring'
    BY <1>1, <1>5, <1>6, <1>7, <1>8, SameShares DEF Restoring
<1> QED BY <1>1, <1>4, <1>9, MoreReach DEF OpenInv

LEMMA RestoreEnvReach ==
  ASSUME Unscoped, OpenInv, NEW e \in Envs, RestoreEnv(e)
  PROVE  ReachInv'
<1> DEFINE S == {s \in LiveShares(e) : Restorable(s)}
<1>1. /\ UNCHANGED <<journal, share, access, dial, handler>>
      /\ agent.pc = "restore" /\ agent.shares = {}
      /\ agent' = [agent EXCEPT !.envs = @ \ {e}, !.shares = S]
    BY DEF RestoreEnv, db
<1>2. agent \in AgentState
    BY DEF OpenInv, CutInv, JournalInv, TypeInv
<1>3. \A s \in Shares : ShareEnv[s] = e /\ share[s] = "live" => s \in S
    BY <1>1, UnscopedRestorable DEF LiveShares, OpenInv
<1> HIDE DEF S
<1>4. /\ agent'.pc = "restore" /\ agent'.account = agent.account /\ agent'.todo = agent.todo
      /\ agent'.used = agent.used /\ agent'.envs = agent.envs \ {e} /\ agent'.shares = S
    BY <1>1, <1>2 DEF AgentState
<1>5. \A j \in DOMAIN journal : Exceeded(j)' <=> Exceeded(j)
    BY <1>1, <1>4, SameExceeded
<1>6. Restoring'
    BY <1>1, <1>3, <1>4, <1>5, SameShares DEF OpenInv, ReachInv, Restoring
<1> QED BY <1>1, <1>4, <1>6, MoreReach DEF OpenInv

\* A share that is shut gets all its policies back.
LEMMA RestoreShareReach ==
  ASSUME "edge" \notin Faults, OpenInv, NEW s \in Shares, RestoreShare(s)
  PROVE  ReachInv'
<1>1. /\ UNCHANGED <<journal, share, access, handler>>
      /\ agent.pc = "restore" /\ s \in agent.shares
      /\ agent' = [agent EXCEPT !.shares = @ \ {s}]
    BY DEF RestoreShare, db
<1>2. PICK D \in SUBSET (WantedPolicies(s) \ dial) :
         /\ WantedPolicies(s) \cap dial = {} => D = WantedPolicies(s)
         /\ dial' = dial \cup D
    BY DEF RestoreShare
<1>3. agent \in AgentState
    BY DEF OpenInv, CutInv, JournalInv, TypeInv
<1>4. /\ agent'.pc = "restore" /\ agent'.account = agent.account /\ agent'.todo = agent.todo
      /\ agent'.used = agent.used /\ agent'.envs = agent.envs
      /\ agent'.shares = agent.shares \ {s}
    BY <1>1, <1>3 DEF AgentState
<1>5. share[s] = "live"
    BY <1>1 DEF OpenInv, CutInv, PoliciesInv, RestoresOnly
<1>6. \A t \in Shares : WantedPolicies(t)' = WantedPolicies(t)
    BY <1>1 DEF WantedPolicies, LiveAccesses
<1>7. \A t \in Shares : Reachable(t) => Reachable(t)'
    BY <1>2, <1>6 DEF Reachable
<1>8. Reachable(s)'
  <2>1. CASE Shut(s)
    <3>1. WantedPolicies(s) \cap dial = {}
        BY <2>1, OwnWanted DEF Shut
    <3> QED BY <1>2, <1>6, <3>1 DEF Reachable
  <2>2. CASE Reachable(s)
      BY <1>7, <2>2
  <2> QED BY <1>1, <1>5, <2>1, <2>2 DEF OpenInv, ReachInv, Restoring
<1>9. ASSUME NEW t \in Shares, t # s, Shut(t) PROVE Shut(t)'
  <2>1. D \subseteq {s} \cup {f \in Frontends : FeShare[f] = s}
      BY OwnWanted
  <2>2. DialPolicies(t)' = DialPolicies(t)
      BY <1>2, <1>9, <2>1, OwnPolicies
  <2> QED BY <1>9, <2>2 DEF Shut
<1>10. /\ \A j \in DOMAIN journal, t \in Shares : LimitRow(j, t)' <=> LimitRow(j, t)
       /\ \A j \in DOMAIN journal : Exceeded(j)' <=> Exceeded(j)
    BY <1>1, <1>4, SameRows, SameExceeded
<1>11. Restoring'
  <2> SUFFICES ASSUME NEW t \in Shares, share[t] = "live"
               PROVE  /\ Shut(t)' \/ Reachable(t)'
                      /\ Account(t) = agent.account =>
                           ShareEnv[t] \in agent.envs \/ t \in agent'.shares \/ Reachable(t)'
                      /\ Account(t) # agent.account =>
                           \A j \in DOMAIN journal \ agent.todo :
                              LimitRow(j, t) => Exceeded(j) \/ Reachable(t)'
      BY <1>1, <1>4, <1>10 DEF Restoring
  <2>1. CASE t = s
      BY <1>8, <2>1
  <2>2. CASE t # s
    <3>1. /\ Shut(t) \/ Reachable(t)
          /\ Account(t) = agent.account =>
               ShareEnv[t] \in agent.envs \/ t \in agent.shares \/ Reachable(t)
          /\ Account(t) # agent.account =>
               \A j \in DOMAIN journal \ agent.todo :
                  LimitRow(j, t) => Exceeded(j) \/ Reachable(t)
        BY <1>1 DEF OpenInv, ReachInv, Restoring
    <3> QED BY <1>4, <1>7, <1>9, <2>2, <3>1
  <2> QED BY <2>1, <2>2
<1>12. dial \subseteq dial'
    BY <1>2
<1> QED BY <1>1, <1>4, <1>11, <1>12, MoreReach DEF OpenInv

LEMMA RestoreDoneReach == ASSUME OpenInv, RestoreDone PROVE ReachInv'
<1>1. /\ UNCHANGED <<journal, share, access, dial, handler>>
      /\ agent.pc = "restore" /\ agent.envs = {} /\ agent.shares = {}
    BY DEF RestoreDone, db
<1>2. agent \in AgentState
    BY DEF OpenInv, CutInv, JournalInv, TypeInv
<1>3. agent'.pc = "relax" /\ agent'.todo = agent.todo /\ agent'.used = agent.used
    BY <1>2 DEF RestoreDone, AgentState
<1>4. \A j \in DOMAIN journal : Exceeded(j)' <=> Exceeded(j)
    BY <1>1, <1>3, SameExceeded
<1>5. Restoring'
    BY <1>1, <1>3, <1>4, SameShares DEF OpenInv, ReachInv, Restoring
<1> QED BY <1>1, <1>3, <1>5, MoreReach DEF OpenInv

\* A row that is forgotten was not exceeded, and what it limited was restored.
LEMMA RelaxCommitReach == ASSUME OpenInv, RelaxCommit PROVE ReachInv'
<1>1. /\ agent.pc = "relax" /\ agent.todo = {} /\ agent' = Idle
      /\ UNCHANGED <<share, access, dial, handler>> /\ journal' = Keep(agent.kept)
    BY DEF RelaxCommit, RelaxEnds
<1>2. agent.kept \in SUBSET DOMAIN journal /\ journal \in Seq(Rows)
    BY DEF OpenInv, CutInv, JournalInv, TypeInv, Relaxing
<1>3. \A h \in Handlers : handler[h] = NoRequest
    BY <1>1 DEF OpenInv, CutInv, PoliciesInv, Alone
<1>4. Removing = {}
    BY <1>3, NoneRemoving
<1>5. ASSUME NEW s \in Shares, share[s] = "live", ~LimitInForce(s)' PROVE Reachable(s)
  <2>1. CASE ~LimitInForce(s)
      BY <1>1, <1>4, <1>5, <2>1 DEF OpenInv, ReachInv, FreeOpen, Reachable
  <2>2. CASE LimitInForce(s)
    <3>1. PICK i \in DOMAIN journal : LimitRow(i, s)
        BY <2>2 DEF LimitInForce
    <3>2. i \notin agent.kept
      <4> SUFFICES ASSUME i \in agent.kept PROVE FALSE
          OBVIOUS
      <4>1. PICK n \in DOMAIN journal' : journal'[n] = journal[i]
          BY <1>1, <1>2, KeepAll
      <4>2. LimitRow(n, s)'
          BY <3>1, <4>1, MovedRow
      <4> QED BY <1>5, <4>2 DEF LimitInForce
    <3>3. ~Exceeded(i)
        BY <1>1, <3>1, <3>2 DEF OpenInv, ForgetsRelaxed, LimitRow
    <3> QED BY <1>1, <1>5, <3>1, <3>3 DEF OpenInv, ReachInv, Restoring
  <2> QED BY <2>1, <2>2
<1>6. agent'.pc = "loop"
    BY <1>1, Idles
<1>7. FreeOpen'
  <2>1. \A s \in Shares : WantedPolicies(s)' = WantedPolicies(s)
      BY <1>1 DEF WantedPolicies, LiveAccesses
  <2> QED BY <1>1, <1>5, <2>1 DEF FreeOpen, Reachable
<1> QED BY <1>1, <1>6, <1>7 DEF OpenInv, ReachInv, OthersOpen, CreatedOpen, AccessedOnce, Restoring
-----------------------------------------------------------------------------
(* The request handlers leave what is free open.                           *)

LEMMA RequestReach ==
  ASSUME Serial, OpenInv, NEW h \in Handlers, Request(h) PROVE ReachInv'
<1>1. PICK op, id : Begin(h, op, id)
    BY DEF Request, ShareBegin, UnshareBegin, AccessBegin, UnaccessBegin
<1>2. PICK q : q = [op |-> op, id |-> id, step |-> "checked"]
    OBVIOUS
<1>3. /\ UNCHANGED <<journal, share, access, dial, agent>>
      /\ handler' = [handler EXCEPT ![h] = q] /\ q.step = "checked"
      /\ handler \in [Handlers -> HandlerState]
      /\ \A g \in Handlers : handler[g] = NoRequest
      /\ agent.pc \in {"loop", "cycle"}
    BY <1>1, <1>2
       DEF Begin, CanBegin, NoTransaction, db, OpenInv, CutInv, JournalInv, TypeInv
<1>4. \A g \in Handlers : handler'[g].step # "changed"
    BY <1>3 DEF NoRequest
<1>5. Removing' = {} /\ Removing = {}
    BY <1>3, <1>4, NoneRemoving DEF Removing
<1>6. \A s \in Shares : (LimitInForce(s)' <=> LimitInForce(s)) /\ WantedPolicies(s)' = WantedPolicies(s)
    BY <1>3, SameRows DEF WantedPolicies, LiveAccesses
<1>7. FreeOpen'
    BY <1>3, <1>5, <1>6 DEF OpenInv, ReachInv, FreeOpen
<1> QED BY <1>3, <1>4, <1>7
        DEF OpenInv, ReachInv, OthersOpen, CreatedOpen, AccessedOnce, Restoring

LEMMA ChangeReach == ASSUME OpenInv, NEW h \in Handlers, ChangeZiti(h) PROVE ReachInv'
<1>1. PICK q : q = handler[h]
    OBVIOUS
<1>2. /\ q.step = "checked" /\ handler' = [handler EXCEPT ![h] = [q EXCEPT !.step = "changed"]]
      /\ UNCHANGED <<journal, share, access, agent>>
      /\ dial' = DialAfter(q.op, q.id) \/ (q.op = "unaccess" /\ UNCHANGED dial)
    BY <1>1 DEF ChangeZiti, db
<1>3. /\ q \in HandlerState /\ handler \in [Handlers -> HandlerState]
      /\ \/ q.op \in {"share", "unshare"} /\ q.id \in Shares
         \/ q.op \in {"access", "unaccess"} /\ q.id \in Frontends
    BY <1>1, <1>2, BusyHandler DEF OpenInv, CutInv, JournalInv, TypeInv
<1>4. /\ agent.pc \in {"loop", "cycle"}
      /\ \A g \in Handlers : g # h => handler[g] = NoRequest
    BY <1>1, <1>2, HandlerAlone DEF NoRequest, OpenInv
<1>5. PICK r : r = [q EXCEPT !.step = "changed"]
    OBVIOUS
<1>6. /\ r.op = q.op /\ r.id = q.id /\ r.step = "changed" /\ handler'[h] = r
      /\ \A g \in Handlers : g # h => handler'[g] = NoRequest
    BY <1>2, <1>3, <1>4, <1>5 DEF HandlerState
<1>7. Removing = {}
    BY <1>1, <1>2, <1>4 DEF Removing, NoRequest
<1>8. Removing' = IF q.op \in {"unshare", "unaccess"} THEN {q.id} ELSE {}
    BY <1>6 DEF Removing, NoRequest
<1>9. \A s \in Shares : WantedPolicies(s)' = WantedPolicies(s)
    BY <1>2 DEF WantedPolicies, LiveAccesses
<1>10. FreeOpen'
  <2> SUFFICES ASSUME NEW s \in Shares, s \notin Removing', share[s] = "live", ~LimitInForce(s),
                      NEW x \in WantedPolicies(s), x \notin Removing'
               PROVE  x \in dial'
      BY <1>2, <1>9, SameRows DEF FreeOpen
  <2>1. x \in dial
      BY <1>4, <1>7 DEF OpenInv, ReachInv, FreeOpen
  <2>2. CASE q.op \in {"share", "access"}
      BY <1>2, <2>1, <2>2 DEF DialAfter
  <2>3. CASE q.op = "unshare"
    <3>1. q.id # s /\ q.id \in Shares
        BY <1>3, <1>8, <2>3
    <3>2. x \notin DialPolicies(q.id)
        BY <3>1, OwnWanted
    <3> QED BY <1>2, <2>1, <2>3, <3>2 DEF DialAfter
  <2>4. CASE q.op = "unaccess"
      BY <1>2, <1>8, <2>1, <2>4 DEF DialAfter
  <2> QED BY <1>3, <2>2, <2>3, <2>4
<1>11. CreatedOpen'
    BY <1>2, <1>6 DEF CreatedOpen, DialAfter, NoRequest
<1> QED BY <1>2, <1>4, <1>10, <1>11 DEF OpenInv, ReachInv, OthersOpen, AccessedOnce, Restoring

LEMMA CommitReach == ASSUME OpenInv, NEW h \in Handlers, Commit(h) PROVE ReachInv'
<1>1. PICK q : q = handler[h]
    OBVIOUS
<1>2. /\ q.step = "changed" /\ handler' = [handler EXCEPT ![h] = NoRequest]
      /\ UNCHANGED <<journal, dial, agent>>
      /\ share' = CASE q.op = "share" -> [share EXCEPT ![q.id] = "live"]
                    [] q.op = "unshare" -> [share EXCEPT ![q.id] = "deleted"]
                    [] OTHER -> share
      /\ access' = CASE q.op = "access" -> [access EXCEPT ![q.id] = "live"]
                     [] q.op = "unaccess" -> [access EXCEPT ![q.id] = "deleted"]
                     [] OTHER -> access
    BY <1>1 DEF Commit
<1>3. /\ handler \in [Handlers -> HandlerState]
      /\ share \in [Shares -> Status] /\ access \in [Frontends -> Status] /\ Checked(q)
      /\ \/ q.op \in {"share", "unshare"} /\ q.id \in Shares
         \/ q.op \in {"access", "unaccess"} /\ q.id \in Frontends
    BY <1>1, <1>2, BusyHandler DEF OpenInv, CutInv, PoliciesInv, JournalInv, TypeInv
<1>4. /\ agent.pc \in {"loop", "cycle"}
      /\ \A g \in Handlers : g # h => handler[g] = NoRequest
    BY <1>1, <1>2, HandlerAlone DEF NoRequest, OpenInv
<1>5. \A g \in Handlers : handler'[g] = NoRequest
    BY <1>2, <1>3, <1>4
<1>6. Removing' = {}
    BY <1>5 DEF Removing, NoRequest
<1>7. Removing = IF q.op \in {"unshare", "unaccess"} THEN {q.id} ELSE {}
    BY <1>1, <1>2, <1>4 DEF Removing, NoRequest
<1>8. /\ q.op = "share" => {q.id} \cap Public \subseteq dial
      /\ q.op = "access" => q.id \in dial
    BY <1>1, <1>2 DEF OpenInv, ReachInv, CreatedOpen
<1>9. AccessedOnce /\ Shares \cap Frontends = {} /\ FeShare \in [Frontends -> Shares]
    BY LimitsAgentAssumption DEF OpenInv, ReachInv
<1>10. ASSUME NEW s \in Shares, share'[s] = "live", ~LimitInForce(s),
              NEW x \in WantedPolicies(s)'
       PROVE  x \in dial
  <2>1. ASSUME share[s] = "live", s \notin Removing, x \in WantedPolicies(s), x \notin Removing
        PROVE  x \in dial
      BY <1>4, <1>10, <2>1 DEF OpenInv, ReachInv, FreeOpen
  <2>2. CASE q.op = "share"
    <3>1. access' = access /\ q.id \in Shares
        BY <1>2, <1>3, <2>2
    <3>2. WantedPolicies(s)' = WantedPolicies(s)
        BY <3>1 DEF WantedPolicies, LiveAccesses
    <3>3. CASE s = q.id
      <4>1. share[s] = "none"
          BY <1>3, <2>2, <3>3 DEF Checked
      <4>2. LiveAccesses(s) = {}
          BY <1>9, <4>1 DEF AccessedOnce, LiveAccesses
      <4> QED BY <1>8, <1>10, <2>2, <3>2, <3>3, <4>2 DEF WantedPolicies
    <3>4. CASE s # q.id
      <4>1. share[s] = "live"
          BY <1>2, <1>3, <1>10, <2>2, <3>4
      <4> QED BY <1>7, <1>10, <2>1, <2>2, <3>2, <4>1
    <3> QED BY <3>3, <3>4
  <2>3. CASE q.op = "access"
    <3>1. share' = share /\ access' = [access EXCEPT ![q.id] = "live"] /\ q.id \in Frontends
        BY <1>2, <1>3, <2>3
    <3>2. x \in WantedPolicies(s) \/ x = q.id
        BY <1>3, <3>1 DEF WantedPolicies, LiveAccesses
    <3> QED BY <1>7, <1>8, <1>10, <2>1, <2>3, <3>1, <3>2
  <2>4. CASE q.op = "unshare"
    <3>1. share' = [share EXCEPT ![q.id] = "deleted"] /\ access' = access /\ q.id \in Shares
        BY <1>2, <1>3, <2>4
    <3>2. WantedPolicies(s)' = WantedPolicies(s)
        BY <3>1 DEF WantedPolicies, LiveAccesses
    <3>3. s # q.id /\ share[s] = "live"
        BY <1>3, <1>10, <3>1
    <3>4. x # q.id
        BY <3>1, <3>2, <3>3, OwnWanted
    <3> QED BY <1>7, <1>10, <2>1, <2>4, <3>2, <3>3, <3>4
  <2>5. CASE q.op = "unaccess"
    <3>1. share' = share /\ access' = [access EXCEPT ![q.id] = "deleted"] /\ q.id \in Frontends
        BY <1>2, <1>3, <2>5
    <3>2. s # q.id
        BY <1>9, <3>1
    <3>3. x \in WantedPolicies(s) /\ x # q.id
        BY <1>3, <3>1, <3>2 DEF WantedPolicies, LiveAccesses
    <3> QED BY <1>7, <1>10, <2>1, <2>5, <3>1, <3>2, <3>3
  <2> QED BY <1>3, <2>2, <2>3, <2>4, <2>5
<1>11. FreeOpen'
    BY <1>2, <1>6, <1>10, SameRows DEF FreeOpen
<1>12. AccessedOnce'
  <2>1. \A s \in Shares : share[s] # "none" => share'[s] # "none"
      BY <1>2, <1>3
  <2>2. ASSUME NEW f \in Frontends, access'[f] # "none" PROVE share[FeShare[f]] # "none"
    <3>1. CASE access[f] # "none"
        BY <1>9, <3>1 DEF AccessedOnce
    <3>2. CASE access[f] = "none"
      <4>1. q.id = f /\ q.op \in {"access", "unaccess"}
          BY <1>2, <1>3, <2>2, <3>2
      <4> QED BY <1>3, <3>2, <4>1 DEF Checked
    <3> QED BY <3>1, <3>2
  <2> QED BY <1>9, <2>1, <2>2 DEF AccessedOnce
<1>13. CreatedOpen'
    BY <1>5 DEF CreatedOpen, NoRequest
<1> QED BY <1>2, <1>4, <1>11, <1>12, <1>13 DEF ReachInv, OthersOpen, Restoring
-----------------------------------------------------------------------------
LEMMA NextReach ==
  ASSUME Serial, Faults \subseteq {"email"}, Unscoped
  PROVE  OpenInv /\ [Next]_vars => ReachInv'
<1> SUFFICES ASSUME OpenInv, [Next]_vars PROVE ReachInv'
    OBVIOUS
<1>0. "edge" \notin Faults /\ "commit" \notin Faults /\ "influx" \notin Faults /\ "crash" \notin Faults
    OBVIOUS
<1>1. CASE World \/ Clock
    BY <1>0, <1>1, SameReach
       DEF World, Clock, Traffic, Crash, CyclePasses, TimerRuns, TimerFires, db, OpenInv
<1>2. CASE Receive
  <2>1. ASSUME NEW s \in Shares, ReportIgnored(s) PROVE ReachInv'
    <3>1. /\ agent.pc = "loop" /\ agent'.pc = "cycle"
          /\ UNCHANGED <<journal, share, access, dial, handler>>
        BY <2>1, Idles DEF ReportIgnored, Report, db
    <3> QED BY <3>1, SameRows, StillReach DEF OpenInv
  <2>2. CASE ReportWithoutToken
      BY <2>2, SameReach DEF ReportWithoutToken, db, OpenInv
  <2> QED BY <1>2, <2>1, <2>2, WarnsReach, LimitsReach DEF Receive
<1>3. CASE Cut
    BY <1>0, <1>3, CutEnvReach, CutShareReach, CutCommitReach DEF Cut, CutFails
<1>4. CASE AfterReport \/ TimerRelax
    BY <1>4, RelaxBeginReach
<1>5. CASE Relax
    BY <1>0, <1>5, RelaxRowReach, RestoreEnvReach, RestoreShareReach, RestoreDoneReach,
       RelaxCommitReach DEF Relax, RelaxFails
<1>6. CASE \E h \in Handlers : Request(h) \/ Finish(h)
    BY <1>0, <1>6, RequestReach, ChangeReach, CommitReach DEF Finish, Fail
<1>7. CASE UNCHANGED vars
    BY <1>7, SameReach DEF vars, db, OpenInv
<1> QED BY <1>1, <1>2, <1>3, <1>4, <1>5, <1>6, <1>7 DEF Next

\* On sqlite, while OpenZiti, the metrics store and the commits do not fail,
\* and where no class is scoped to a backend mode, a live share that no
\* journaled limit governs has all its dial policies: a relax cycle restores
\* the shares of a limit's account before it forgets the limit
\* (relaxAction.go:52-121), and a handler never leaves a share half made.
THEOREM FreeSharesAreOpen ==
  ASSUME Serial, Faults \subseteq {"email"}, Unscoped, WarnsFirst
  PROVE  Spec => []OpenWhenFree
<1>1. OpenInv => OpenWhenFree
  <2> SUFFICES ASSUME OpenInv, Quiet, NEW s \in Shares, share[s] = "live", ~LimitInForce(s)
               PROVE  WantedPolicies(s) \subseteq dial
      BY DEF OpenWhenFree
  <2>1. Removing = {} /\ agent.pc # "cut"
      BY NoneRemoving DEF Quiet, NoTransaction
  <2> QED BY <2>1 DEF OpenInv, ReachInv, FreeOpen
<1>2. Init => OpenInv
  <2>1. Init => ForgetsRelaxed
      BY Idles DEF Init, ForgetsRelaxed
  <2> QED BY <2>1, InitCut, InitReach DEF OpenInv
<1>3. OpenInv /\ [Next]_vars => OpenInv'
    BY NextCut, NextForgets, NextReach DEF OpenInv, CutInv
<1> QED BY <1>1, <1>2, <1>3, PTL DEF Spec
=============================================================================
