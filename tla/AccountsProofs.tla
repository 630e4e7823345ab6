--------------------------- MODULE AccountsProofs ---------------------------
(***************************************************************************)
(* Theorems about Accounts: for any number of accounts, tokens and         *)
(* transactions, on which store which tokens are spent once and which      *)
(* answers stand.                                                          *)
(***************************************************************************)
EXTENDS Accounts, FiniteSetTheorems, TLAPS

Token == RequestTokens \cup ResetTokens \cup InviteTokens \cup {None}

Transaction ==
  [op : {"none", "invite", "invited", "register", "resetRequest", "reset",
         "changePassword", "regenerateToken"},
   email : Emails \cup {None}, token : Token, row : Row \cup {None},
   previous : RequestTokens \cup {None}]

\* The transactions that read the row of an account.
Changing == {"resetRequest", "reset", "changePassword", "regenerateToken"}

\* What a transaction has read is of its kind.
Legal(x) ==
  /\ x \in Transaction
  /\ x.op \in {"invite", "invited"} => x.email \in Emails /\ x.token \in InviteTokens \cup {None}
  /\ x.op = "register" => x.email \in Emails /\ x.token \in RequestTokens
  /\ x.op = "reset" => x.token \in ResetTokens
  /\ x.op \in Changing => x.email \in Emails /\ x.row \in Row

\* And it is there, for rows are only marked as deleted.
Rooted(x) ==
  /\ x.op = "register" => requests[x.token] # NoRequest /\ requests[x.token].email = x.email
  /\ x.op = "reset" => resets[x.token] # NoRequest
  /\ x.op = "invited" /\ x.previous # None => requests[x.previous] # NoRequest
  /\ x.op \in Changing => accounts[x.email] # None

Written(table) == \A t \in DOMAIN table : table[t] # NoRequest =>
                    table[t].email \in Emails /\ table[t].status \in {"live", "deleted"}

TablesInv ==
  /\ store \in Stores
  /\ accounts \in [Emails -> Row \cup {None}]
  /\ answered \in [Emails -> Row \cup {None}]
  /\ requests \in [RequestTokens -> Record(Emails)] /\ Written(requests)
  /\ resets \in [ResetTokens -> Record(Emails)] /\ Written(resets)
  /\ invites \in [InviteTokens -> {"none", "live", "deleted"}]
  /\ registered \subseteq RequestTokens /\ errors \in 0..Errors
  /\ \A e \in Emails : accounts[e] # None => answered[e] # None
  /\ \A t \in ResetTokens : resets[t] # NoRequest => accounts[resets[t].email] # None
  /\ \A t \in registered :
       requests[t] # NoRequest /\ accounts[Lower[requests[t].email]] # None

RequestsInv ==
  /\ req \in [Requests -> Transaction]
  /\ \A r \in Requests : Legal(req[r]) /\ Rooted(req[r])

Few(S, n) == IsFiniteSet(S) /\ Cardinality(S) <= n

\* On sqlite a transaction is alone, and so what it has read is still so, after n
\* errors.
CurrentAfter(x, n) ==
  /\ x.op \in Changing => x.row = accounts[x.email]
  /\ x.op = "register" => requests[x.token].status = "live"
  /\ x.op = "reset" => resets[x.token].status = "live"
  /\ x.op \in {"invite", "invited"} /\ x.token # None => invites[x.token] = "live"
  /\ x.op = "invited" => Few(LiveOf(requests, x.email) \ {x.previous}, n)

Current(x) == CurrentAfter(x, errors)

FewLive(table) == \A e \in Emails : Few(LiveOf(table, e), 1 + errors)

SqliteInv ==
  store = "sqlite3" =>
    /\ \A r, q \in Requests : r # q => req[r] = Idle \/ req[q] = Idle
    /\ \A r \in Requests : Current(req[r])
    /\ \A e \in Emails : accounts[e] # None => accounts[e] = answered[e]
    /\ FewLive(requests) /\ FewLive(resets)

AccountsInv == TablesInv /\ RequestsInv /\ SqliteInv
-----------------------------------------------------------------------------
(* Tables.                                                                 *)

LEMMA NoneIsNone ==
  /\ None \notin Emails /\ None \notin RequestTokens /\ None \notin ResetTokens
  /\ None \notin InviteTokens /\ NoRequest.email = None /\ NoRequest.status = "none"
  /\ \A e \in Emails : Lower[e] \in Emails
  /\ None \notin Keys /\ None \notin Passwords
  BY AccountsAssumption DEF NoRequest

\* Fewer members, one more, one less.
LEMMA FewOf ==
  ASSUME NEW S, NEW n \in Nat, Few(S, n)
  PROVE  /\ \A T \in SUBSET S : Few(T, n)
         /\ \A x : Few(S \cup {x}, n + 1)
         /\ \A x \in S : \A k \in Nat : n = k + 1 => Few(S \ {x}, k)
<1>1. IsFiniteSet(S) /\ Cardinality(S) \in Nat /\ Cardinality(S) <= n
    BY FS_CardinalityType DEF Few
<1>2. ASSUME NEW T \in SUBSET S PROVE Few(T, n)
  <2>1. IsFiniteSet(T) /\ Cardinality(T) \in Nat /\ Cardinality(T) <= Cardinality(S)
      BY <1>1, FS_Subset, FS_CardinalityType
  <2> QED BY <1>1, <2>1 DEF Few
<1>3. ASSUME NEW x PROVE Few(S \cup {x}, n + 1)
  <2>1. /\ IsFiniteSet(S \cup {x})
        /\ Cardinality(S \cup {x}) \in {Cardinality(S), Cardinality(S) + 1}
      BY <1>1, FS_AddElement
  <2> QED BY <1>1, <2>1 DEF Few
<1>4. ASSUME NEW x \in S, NEW k \in Nat, n = k + 1 PROVE Few(S \ {x}, k)
  <2>1. IsFiniteSet(S \ {x}) /\ Cardinality(S \ {x}) = Cardinality(S) - 1
      BY <1>1, FS_RemoveElement
  <2> QED BY <1>1, <1>4, <2>1 DEF Few
<1> QED BY <1>2, <1>3, <1>4

LEMMA FewerThanMore ==
  ASSUME NEW S, NEW n \in Nat, NEW k \in Nat, n <= k, Few(S, 1 + n)
  PROVE  Few(S, 1 + k)
<1>1. IsFiniteSet(S) /\ Cardinality(S) \in Nat /\ Cardinality(S) <= 1 + n
    BY FS_CardinalityType DEF Few
<1> QED BY <1>1 DEF Few

LEMMA FewNone == ASSUME NEW n \in Nat PROVE Few({}, n)
    BY FS_EmptySet DEF Few

\* Rows of which no more are live.
LEMMA FewerLive ==
  ASSUME NEW T, NEW old \in [T -> Record(Emails)], NEW new \in [T -> Record(Emails)],
         errors \in Nat, FewLive(old),
         \A t \in T : new[t].email = old[t].email /\ new[t].status \in {"deleted", old[t].status}
  PROVE  FewLive(new)
<1>1. ASSUME NEW e \in Emails PROVE Few(LiveOf(new, e), 1 + errors)
  <2>1. LiveOf(new, e) \subseteq LiveOf(old, e)
      BY DEF Live, LiveOf
  <2>2. Few(LiveOf(old, e), 1 + errors) /\ 1 + errors \in Nat
      BY DEF FewLive
  <2> QED BY <2>1, <2>2, FewOf
<1> QED BY <1>1 DEF FewLive

LEMMA RowIsSome == \A x \in Row : x # None
  BY AccountsAssumption DEF Row

LEMMA IdleLegal == Idle \in Transaction /\ Legal(Idle) /\ Rooted(Idle) /\ Current(Idle)
  BY DEF Idle, Transaction, Token, Legal, Rooted, Current, CurrentAfter, Changing

\* Marking rows that are there as deleted.
LEMMA DeletedRows ==
  ASSUME NEW T, NEW table \in [T -> Record(Emails)], Written(table), NEW tokens,
         \A t \in T \cap tokens : table[t] # NoRequest
  PROVE  /\ Deleted(table, tokens) \in [T -> Record(Emails)]
         /\ Written(Deleted(table, tokens))
         /\ \A t \in T : /\ Deleted(table, tokens)[t].email = table[t].email
                         /\ Deleted(table, tokens)[t].status =
                              IF t \in tokens THEN "deleted" ELSE table[t].status
                         /\ Deleted(table, tokens)[t] = NoRequest <=> table[t] = NoRequest
<1> DEFINE D == Deleted(table, tokens)
<1>1. \A t \in T : D[t] = IF t \in tokens THEN [table[t] EXCEPT !.status = "deleted"] ELSE table[t]
    BY DEF Deleted
<1>2. \A t \in T : [table[t] EXCEPT !.status = "deleted"] \in Record(Emails)
    BY DEF Record
<1>3. D \in [T -> Record(Emails)]
    BY <1>2 DEF Deleted
<1>4. ASSUME NEW t \in T
      PROVE  /\ D[t].email = table[t].email
             /\ D[t].status = IF t \in tokens THEN "deleted" ELSE table[t].status
             /\ D[t] = NoRequest <=> table[t] = NoRequest
  <2>1. table[t] \in Record(Emails)
      OBVIOUS
  <2>2. CASE t \in tokens
    <3>1. D[t] = [table[t] EXCEPT !.status = "deleted"]
        BY <1>1, <2>2
    <3>2. D[t].email = table[t].email /\ D[t].status = "deleted"
        BY <2>1, <3>1 DEF Record
    <3> QED BY <2>2, <3>2, NoneIsNone
  <2>3. CASE t \notin tokens
      BY <1>1, <2>3
  <2> QED BY <2>2, <2>3
<1>5. Written(D)
    BY <1>3, <1>4 DEF Written
<1> QED BY <1>3, <1>4, <1>5

\* Writing one that is not.
LEMMA InsertedRow ==
  ASSUME NEW T, NEW table \in [T -> Record(Emails)], Written(table), NEW t \in T, NEW e \in Emails
  PROVE  /\ Inserted(table, t, e) \in [T -> Record(Emails)]
         /\ Written(Inserted(table, t, e))
         /\ Inserted(table, t, e)[t] # NoRequest
         /\ Inserted(table, t, e)[t].email = e /\ Inserted(table, t, e)[t].status = "live"
         /\ \A s \in T : s # t => Inserted(table, t, e)[s] = table[s]
<1> DEFINE row == [email |-> e, status |-> "live", old |-> FALSE]
<1>1. row \in Record(Emails) /\ row # NoRequest /\ row.email = e /\ row.status = "live"
    BY DEF Record, NoRequest
<1> HIDE DEF row
<1>2. Inserted(table, t, e) = [table EXCEPT ![t] = row]
    BY DEF Inserted, row
<1> QED BY <1>1, <1>2 DEF Written

LEMMA AccountsInitInv == AccountsInit => AccountsInv
<1> SUFFICES ASSUME AccountsInit PROVE AccountsInv
    OBVIOUS
<1>1. NoRequest \in Record(Emails)
    BY DEF NoRequest, Record
<1>2. TablesInv
    BY <1>1, AccountsAssumption DEF AccountsInit, TablesInv, Written
<1>3. RequestsInv
    BY IdleLegal DEF AccountsInit, RequestsInv
<1>4. /\ \A e : LiveOf(requests, e) = {} /\ LiveOf(resets, e) = {}
      /\ 1 + errors \in Nat
    BY <1>1, NoneIsNone DEF AccountsInit, Live, LiveOf
<1>5. SqliteInv
  <2>1. FewLive(requests) /\ FewLive(resets)
      BY <1>4, FewNone DEF FewLive
  <2> QED BY <2>1, IdleLegal DEF AccountsInit, SqliteInv
<1> QED BY <1>2, <1>3, <1>5 DEF AccountsInv
-----------------------------------------------------------------------------
(* What every step has to show: rows stay, tables keep their invariant.    *)

Grows ==
  /\ \A e \in Emails : accounts[e] # None => accounts'[e] # None
  /\ \A t \in RequestTokens : requests[t] # NoRequest =>
       requests'[t] # NoRequest /\ requests'[t].email = requests[t].email
  /\ \A t \in ResetTokens : resets[t] # NoRequest =>
       resets'[t] # NoRequest /\ resets'[t].email = resets[t].email

LEMMA RootedStays ==
  ASSUME AccountsInv, Grows, NEW x, Legal(x), Rooted(x)
  PROVE  /\ x.op = "register" => requests'[x.token] # NoRequest /\ requests'[x.token].email = x.email
         /\ x.op = "reset" => resets'[x.token] # NoRequest
         /\ x.op = "invited" /\ x.previous # None => requests'[x.previous] # NoRequest
         /\ x.op \in Changing => accounts'[x.email] # None
<1>1. x.previous \in RequestTokens \cup {None}
    BY DEF Legal, Transaction
<1> QED BY <1>1 DEF Grows, Legal, Rooted

SqliteTables ==
  /\ \A e \in Emails : accounts[e] # None => accounts[e] = answered[e]
  /\ FewLive(requests) /\ FewLive(resets)

\* Tables whose live rows are the same, or fewer.
LEMMA TablesFewer ==
  ASSUME AccountsInv, errors' = errors, SqliteTables,
         requests' \in [RequestTokens -> Record(Emails)], resets' \in [ResetTokens -> Record(Emails)],
         \A t \in RequestTokens : /\ requests'[t].email = requests[t].email
                                  /\ requests'[t].status \in {"deleted", requests[t].status},
         \A t \in ResetTokens : /\ resets'[t].email = resets[t].email
                                /\ resets'[t].status \in {"deleted", resets[t].status}
  PROVE  FewLive(requests)' /\ FewLive(resets)'
<1>1. /\ errors \in Nat /\ requests \in [RequestTokens -> Record(Emails)]
      /\ resets \in [ResetTokens -> Record(Emails)]
    BY AccountsAssumption DEF AccountsInv, TablesInv
<1>2. PICK D, E : D = requests' /\ E = resets'
    OBVIOUS
<1>3. FewLive(D)
    BY <1>1, <1>2, FewerLive DEF SqliteTables
<1>4. FewLive(E)
    BY <1>1, <1>2, FewerLive DEF SqliteTables
<1> QED BY <1>2, <1>3, <1>4 DEF FewLive, LiveOf, Live

\* More errors excuse more.
LEMMA OtherFew ==
  ASSUME errors \in Nat, errors' \in 0..Errors, errors <= errors', Errors \in Nat
  PROVE  /\ requests' = requests => (FewLive(requests) => FewLive(requests)')
         /\ resets' = resets => (FewLive(resets) => FewLive(resets)')
<1>1. errors' \in Nat
    OBVIOUS
<1>2. \A S : Few(S, 1 + errors) => Few(S, 1 + errors')
    BY <1>1, FewerThanMore
<1> QED BY <1>2 DEF FewLive, LiveOf, Live

LEMMA StillFew ==
  ASSUME AccountsInv, UNCHANGED <<requests, resets>>, errors' \in 0..Errors, errors <= errors'
  PROVE  (FewLive(requests) => FewLive(requests)') /\ (FewLive(resets) => FewLive(resets)')
<1>1. errors \in Nat /\ Errors \in Nat
    BY AccountsAssumption DEF AccountsInv, TablesInv
<1> QED BY <1>1, OtherFew

\* A transaction ends.
LEMMA EndsInv ==
  ASSUME AccountsInv, NEW r \in Requests, req[r] # Idle, req' = [req EXCEPT ![r] = Idle],
         store' = store, TablesInv', Grows, store = "sqlite3" => SqliteTables'
  PROVE  AccountsInv'
<1>1. \A q \in Requests : req'[q] = IF q = r THEN Idle ELSE req[q]
    BY DEF AccountsInv, RequestsInv
<1>2. ASSUME NEW q \in Requests PROVE Legal(req[q])' /\ Rooted(req[q])'
  <2>1. CASE q = r
      BY <1>1, <2>1, IdleLegal DEF Legal, Rooted, Idle, Changing
  <2>2. CASE q # r
    <3>1. Legal(req[q]) /\ Rooted(req[q]) /\ req'[q] = req[q]
        BY <1>1, <2>2 DEF AccountsInv, RequestsInv
    <3> QED BY <3>1, RootedStays DEF Legal, Rooted
  <2> QED BY <2>1, <2>2
<1>3. RequestsInv'
    BY <1>2, IdleLegal DEF AccountsInv, RequestsInv
<1>4. SqliteInv'
  <2> SUFFICES ASSUME store = "sqlite3" PROVE SqliteInv'
      BY DEF SqliteInv
  <2>1. \A q \in Requests : req'[q] = Idle
      BY <1>1 DEF AccountsInv, SqliteInv
  <2>2. \A q \in Requests : Current(req[q])'
      BY <2>1 DEF Current, CurrentAfter, Idle, Changing
  <2> QED BY <2>1, <2>2 DEF SqliteInv, SqliteTables
<1> QED BY <1>3, <1>4 DEF AccountsInv

\* A transaction of one step: on sqlite no other is open.
LEMMA GatedInv ==
  ASSUME AccountsInv, CanBegin, UNCHANGED <<store, req>>,
         TablesInv', Grows, store = "sqlite3" => SqliteTables'
  PROVE  AccountsInv'
<1>1. RequestsInv'
  <2>1. ASSUME NEW q \in Requests PROVE Legal(req[q])' /\ Rooted(req[q])'
    <3>1. Legal(req[q]) /\ Rooted(req[q]) /\ req'[q] = req[q]
        BY DEF AccountsInv, RequestsInv
    <3> QED BY <3>1, RootedStays DEF Legal, Rooted
  <2> QED BY <2>1 DEF AccountsInv, RequestsInv
<1>2. SqliteInv'
  <2> SUFFICES ASSUME store = "sqlite3" PROVE SqliteInv'
      BY DEF SqliteInv
  <2>1. \A q \in Requests : req'[q] = Idle
      BY DEF CanBegin
  <2>2. \A q \in Requests : Current(req[q])'
      BY <2>1 DEF Current, CurrentAfter, Idle, Changing
  <2> QED BY <2>1, <2>2 DEF SqliteInv, SqliteTables
<1> QED BY <1>1, <1>2 DEF AccountsInv

\* A transaction begins, or goes on, and writes nothing yet.
LEMMA ReadsInv ==
  ASSUME AccountsInv, NEW r \in Requests, NEW x, req' = [req EXCEPT ![r] = x],
         Legal(x), Rooted(x),
         store = "sqlite3" => CurrentAfter(x, errors') /\ \A q \in Requests \ {r} : req[q] = Idle,
         UNCHANGED <<store, tables, answered, registered>>,
         errors' \in 0..Errors, errors <= errors'
  PROVE  AccountsInv'
<1>1. \A q \in Requests : req'[q] = IF q = r THEN x ELSE req[q]
    BY DEF AccountsInv, RequestsInv
<1>2. TablesInv'
    BY DEF AccountsInv, TablesInv, Written, tables
<1>3. RequestsInv'
  <2>1. ASSUME NEW q \in Requests PROVE Legal(req[q])' /\ Rooted(req[q])'
      BY <1>1 DEF AccountsInv, RequestsInv, Legal, Rooted, tables
  <2>2. x \in Transaction
      BY DEF Legal
  <2> QED BY <2>1, <2>2 DEF AccountsInv, RequestsInv
<1>4. SqliteInv'
  <2> SUFFICES ASSUME store = "sqlite3" PROVE SqliteInv'
      BY DEF SqliteInv
  <2>1. \A q \in Requests \ {r} : req'[q] = Idle
      BY <1>1
  <2>2. ASSUME NEW q \in Requests PROVE Current(req[q])'
    <3>1. req'[q] = x \/ req'[q] = Idle
        BY <1>1, <2>1
    <3>2. Current(Idle)'
        BY DEF Current, CurrentAfter, Idle, Changing
    <3>3. Current(x)'
        BY DEF Current, CurrentAfter, tables, LiveOf, Live
    <3> QED BY <3>1, <3>2, <3>3
  <2>3. SqliteTables'
    <3>1. SqliteTables
        BY DEF AccountsInv, SqliteInv, SqliteTables
    <3> QED BY <3>1, StillFew DEF SqliteTables, tables
  <2> QED BY <1>1, <2>1, <2>2, <2>3 DEF SqliteInv, SqliteTables
<1> QED BY <1>2, <1>3, <1>4 DEF AccountsInv

LEMMA BeginsInv ==
  ASSUME AccountsInv, NEW r \in Requests, NEW op \in {"invite", "register", "reset"} \cup Changing,
         NEW email, NEW token, NEW row, Begins(r, op, email, token, row),
         email \in Emails, token \in Token, row \in Row \cup {None},
         op = "invite" => token \in InviteTokens \cup {None} /\ (token # None => invites[token] = "live"),
         op = "register" => token \in Live(requests) /\ requests[token].email = email,
         op = "reset" => token \in Live(resets),
         op \in Changing => row = accounts[email] /\ row # None
  PROVE  AccountsInv'
<1> DEFINE x == [op |-> op, email |-> email, token |-> token, row |-> row, previous |-> None]
<1>1. /\ req' = [req EXCEPT ![r] = x] /\ UNCHANGED <<store, tables, history>>
      /\ store = "sqlite3" => \A q \in Requests : req[q] = Idle
    BY DEF Begins, CanBegin
<1>2. /\ x.op = op /\ x.email = email /\ x.token = token /\ x.row = row /\ x.previous = None
      /\ x \in Transaction
    BY DEF Transaction, Changing
<1> HIDE DEF x
<1>3. op # "invited"
    BY DEF Changing
<1>4. /\ \A t \in Live(requests) : t \in RequestTokens /\ requests[t] # NoRequest /\ requests[t].status = "live"
      /\ \A t \in Live(resets) : t \in ResetTokens /\ resets[t] # NoRequest /\ resets[t].status = "live"
    BY NoneIsNone DEF Live, AccountsInv, TablesInv
<1>5. Legal(x)
    BY <1>2, <1>3, <1>4 DEF Legal
<1>6. Rooted(x)
    BY <1>2, <1>3, <1>4 DEF Rooted
<1>7. Current(x)
    BY <1>2, <1>3, <1>4 DEF Current, CurrentAfter
<1>8. CurrentAfter(x, errors') /\ UNCHANGED <<answered, registered, errors>>
    BY <1>1, <1>7 DEF Current, history
<1>9. errors' \in 0..Errors /\ errors <= errors'
    BY <1>8, AccountsAssumption DEF AccountsInv, TablesInv
<1> QED BY <1>1, <1>5, <1>6, <1>8, <1>9, ReadsInv
-----------------------------------------------------------------------------
(* The steps.                                                              *)

LEMMA BeginsRequestInv == ASSUME AccountsInv, NEW r \in Requests, BeginsRequest(r) PROVE AccountsInv'
<1>1. /\ None \in Token /\ None \in Row \cup {None} /\ None \in InviteTokens \cup {None}
      /\ InviteTokens \subseteq Token /\ RequestTokens \subseteq Token /\ ResetTokens \subseteq Token
    BY DEF Token
<1>2. /\ \A e \in Emails : accounts[e] \in Row \cup {None}
      /\ \A t \in Live(requests) : t \in RequestTokens /\ requests[t].email \in Emails
      /\ \A t \in Live(resets) : /\ t \in ResetTokens /\ resets[t].email \in Emails
                                 /\ accounts[resets[t].email] # None
    BY NoneIsNone DEF Live, AccountsInv, TablesInv, Written
<1>3. ASSUME NEW e \in Emails, InviteBegins(r, e) PROVE AccountsInv'
  <2>1. PICK i \in InviteTokens \cup {None} :
          Begins(r, "invite", e, i, None) /\ (i # None => invites[i] = "live")
      BY <1>3 DEF InviteBegins, InviteTokensFound
  <2> QED BY <1>1, <2>1, BeginsInv DEF Changing
<1>4. ASSUME NEW e \in Emails, ResetRequestBegins(r, e) \/ ChangePasswordBegins(r, e) PROVE AccountsInv'
  <2>1. PICK op \in {"resetRequest", "changePassword"} :
          Begins(r, op, Lower[e], None, accounts[Lower[e]]) /\ accounts[Lower[e]] # None
      BY <1>4 DEF ResetRequestBegins, ChangePasswordBegins
  <2> QED BY <1>1, <1>2, <2>1, NoneIsNone, BeginsInv DEF Changing
<1>5. ASSUME NEW e \in Emails, RegenerateTokenBegins(r, e) PROVE AccountsInv'
  <2>1. Begins(r, "regenerateToken", e, None, accounts[e]) /\ accounts[e] # None
      BY <1>5 DEF RegenerateTokenBegins
  <2> QED BY <1>1, <1>2, <2>1, BeginsInv DEF Changing
<1>6. ASSUME NEW t \in RequestTokens, RegisterBegins(r, t) PROVE AccountsInv'
  <2>1. Begins(r, "register", requests[t].email, t, None) /\ t \in Live(requests)
      BY <1>6 DEF RegisterBegins
  <2> QED BY <1>1, <1>2, <2>1, BeginsInv DEF Changing
<1>7. ASSUME NEW t \in ResetTokens, ResetBegins(r, t) PROVE AccountsInv'
  <2>1. Begins(r, "reset", resets[t].email, t, accounts[resets[t].email]) /\ t \in Live(resets)
      BY <1>7 DEF ResetBegins
  <2> QED BY <1>1, <1>2, <2>1, BeginsInv DEF Changing
<1> QED BY <1>3, <1>4, <1>5, <1>6, <1>7 DEF BeginsRequest

\* What is live for the email and was not found is there because of an error.
LEMMA FoundPrevious ==
  ASSUME AccountsInv, store = "sqlite3", NEW e \in Emails, NEW t \in Previous(e)
  PROVE  Few(LiveOf(requests, e) \ {t}, errors)
<1>1. errors \in Nat /\ 1 + errors \in Nat /\ 1 + errors = errors + 1
    BY AccountsAssumption DEF AccountsInv, TablesInv
<1>2. Few(LiveOf(requests, e), 1 + errors)
    BY DEF AccountsInv, SqliteInv, FewLive
<1>3. CASE LiveOf(requests, e) = {}
  <2>1. LiveOf(requests, e) \ {t} = {}
      BY <1>3
  <2> QED BY <1>1, <2>1, FewNone
<1>4. CASE LiveOf(requests, e) # {}
  <2>1. t \in LiveOf(requests, e)
      BY <1>4 DEF Previous
  <2> QED BY <1>1, <1>2, <2>1, FewOf
<1> QED BY <1>3, <1>4

LEMMA InviteLooksInv == ASSUME AccountsInv, NEW r \in Requests, InviteLooks(r) PROVE AccountsInv'
<1>1. PICK t \in Previous(req[r].email) \cup {None} :
        /\ req[r].op = "invite" /\ UNCHANGED <<store, tables, answered, registered>>
        /\ \/ t \in Previous(req[r].email) /\ UNCHANGED errors
           \/ PassesOver
        /\ req' = [req EXCEPT ![r].op = "invited", ![r].previous = t]
    BY DEF InviteLooks
<1> DEFINE x == [req[r] EXCEPT !.op = "invited", !.previous = t]
<1>2. Legal(req[r]) /\ req[r] \in Transaction /\ req[r].email \in Emails
    BY <1>1 DEF AccountsInv, RequestsInv, Legal
<1>3. t \in RequestTokens \cup {None} /\ (t # None => requests[t] # NoRequest)
    BY <1>1, NoneIsNone DEF Previous, Live, LiveOf, AccountsInv, TablesInv
<1>4. /\ x.op = "invited" /\ x.previous = t /\ x.email = req[r].email /\ x.token = req[r].token
      /\ x \in Transaction
    BY <1>2, <1>3 DEF Transaction
<1>5. req' = [req EXCEPT ![r] = x]
    BY <1>1
<1> HIDE DEF x
<1>6. Legal(x) /\ Rooted(x)
    BY <1>1, <1>2, <1>3, <1>4 DEF Legal, Rooted, Changing
<1>7. errors \in Nat /\ errors' \in 0..Errors /\ errors <= errors'
    BY <1>1, AccountsAssumption DEF AccountsInv, TablesInv, PassesOver
<1>8. ASSUME store = "sqlite3" PROVE CurrentAfter(x, errors') /\ \A q \in Requests \ {r} : req[q] = Idle
  <2>1. Current(req[r]) /\ \A q \in Requests \ {r} : req[q] = Idle \/ req[r] = Idle
      BY <1>8 DEF AccountsInv, SqliteInv
  <2>2. req[r] # Idle
      BY <1>1 DEF Idle
  <2>3. Few(LiveOf(requests, x.email) \ {t}, errors')
    <3>1. CASE t \in Previous(req[r].email) /\ UNCHANGED errors
        BY <1>2, <1>4, <1>8, <3>1, FoundPrevious
    <3>2. CASE errors' = errors + 1
      <4>1. Few(LiveOf(requests, x.email), 1 + errors)
          BY <1>2, <1>4, <1>8 DEF AccountsInv, SqliteInv, FewLive
      <4>2. 1 + errors = errors' /\ errors' \in Nat
          BY <1>7, <3>2
      <4>3. (LiveOf(requests, x.email) \ {t}) \in SUBSET LiveOf(requests, x.email)
          OBVIOUS
      <4> QED BY <4>1, <4>2, <4>3, FewOf
    <3> QED BY <1>1, <3>1, <3>2 DEF PassesOver
  <2> QED BY <1>1, <1>4, <2>1, <2>2, <2>3 DEF Current, CurrentAfter, Changing
<1> QED BY <1>1, <1>5, <1>6, <1>7, <1>8, ReadsInv

\* An account is made: registered, or by the administrator.
LEMMA CreatedAccount ==
  ASSUME AccountsInv, NEW e \in Emails, CreatesAccount(e)
  PROVE  /\ accounts' \in [Emails -> Row \cup {None}] /\ answered' \in [Emails -> Row \cup {None}]
         /\ accounts[e] = None /\ accounts'[e] # None /\ accounts'[e] = answered'[e]
         /\ \A f \in Emails : f # e => accounts'[f] = accounts[f] /\ answered'[f] = answered[f]
<1>1. PICK p \in Passwords, k \in FreshKeys :
        /\ accounts' = [accounts EXCEPT ![e] = [password |-> p, token |-> k]]
        /\ answered' = [answered EXCEPT ![e] = [password |-> p, token |-> k]]
    BY DEF CreatesAccount
<1> DEFINE row == [password |-> p, token |-> k]
<1>2. row \in Row
    BY DEF FreshKeys, Row
<1>3. row # None
    BY <1>2, RowIsSome
<1> HIDE DEF row
<1>4. /\ accounts' = [accounts EXCEPT ![e] = row] /\ answered' = [answered EXCEPT ![e] = row]
      /\ accounts[e] = None
    BY <1>1 DEF row, CreatesAccount, Insertable
<1> QED BY <1>2, <1>3, <1>4 DEF AccountsInv, TablesInv

\* The tables after accounts were written: the others as they were, or later.
LEMMA TablesLater ==
  ASSUME AccountsInv, Grows, UNCHANGED store,
         accounts' \in [Emails -> Row \cup {None}], answered' \in [Emails -> Row \cup {None}],
         \A e \in Emails : accounts'[e] # None => answered'[e] # None,
         requests' \in [RequestTokens -> Record(Emails)], Written(requests)',
         resets' \in [ResetTokens -> Record(Emails)], Written(resets)',
         \A t \in ResetTokens : resets'[t] # NoRequest => accounts'[resets'[t].email] # None,
         invites' \in [InviteTokens -> {"none", "live", "deleted"}],
         registered' \subseteq RequestTokens, errors' \in 0..Errors,
         \A t \in registered' : t \in registered \/
           (requests'[t] # NoRequest /\ accounts'[Lower[requests'[t].email]] # None)
  PROVE  TablesInv'
<1>1. ASSUME NEW t \in registered
      PROVE  requests'[t] # NoRequest /\ accounts'[Lower[requests'[t].email]] # None
  <2>1. /\ t \in RequestTokens /\ requests[t] # NoRequest /\ requests[t].email \in Emails
        /\ accounts[Lower[requests[t].email]] # None
      BY DEF AccountsInv, TablesInv, Written
  <2> QED BY <2>1, NoneIsNone DEF Grows
<1> QED BY <1>1 DEF AccountsInv, TablesInv

LEMMA CreateAccountInv == ASSUME AccountsInv, NEW e \in Emails, CreateAccount(e) PROVE AccountsInv'
<1>1. CreatesAccount(Lower[e]) /\ CanBegin /\ UNCHANGED <<store, requests, resets, invites, req, registered, errors>>
    BY DEF CreateAccount
<1>2. /\ accounts' \in [Emails -> Row \cup {None}] /\ answered' \in [Emails -> Row \cup {None}]
      /\ \A f \in Emails : f # Lower[e] => accounts'[f] = accounts[f] /\ answered'[f] = answered[f]
      /\ accounts'[Lower[e]] # None /\ accounts'[Lower[e]] = answered'[Lower[e]]
    BY <1>1, NoneIsNone, CreatedAccount
<1>3. Grows
    BY <1>1, <1>2 DEF Grows
<1>4. TablesInv'
  <2>1. \A f \in Emails : accounts'[f] # None => answered'[f] # None
      BY <1>2 DEF AccountsInv, TablesInv
  <2>2. \A t \in ResetTokens : resets'[t] # NoRequest => accounts'[resets'[t].email] # None
      BY <1>1, <1>2 DEF AccountsInv, TablesInv, Written
  <2> QED BY <1>1, <1>2, <1>3, <2>1, <2>2, TablesLater DEF AccountsInv, TablesInv, Written
<1>5. store = "sqlite3" => SqliteTables'
    BY <1>1, <1>2 DEF AccountsInv, SqliteInv, SqliteTables, FewLive, LiveOf, Live
<1> QED BY <1>1, <1>3, <1>4, <1>5, GatedInv

LEMMA RegisterInv == ASSUME AccountsInv, NEW r \in Requests, RegisterCommits(r) PROVE AccountsInv'
<1>1. PICK e \in Emails, t \in RequestTokens :
        req[r].op = "register" /\ req[r].email = e /\ req[r].token = t
    BY DEF RegisterCommits, Commits, AccountsInv, RequestsInv, Legal
<1>2. /\ req' = [req EXCEPT ![r] = Idle] /\ req[r] # Idle /\ CreatesAccount(Lower[e])
      /\ requests' = Deleted(requests, {t}) /\ registered' = registered \cup {t}
      /\ UNCHANGED <<store, resets, invites, errors>>
      /\ requests[t] # NoRequest /\ requests[t].email = e
    BY <1>1 DEF RegisterCommits, Commits, Idle, AccountsInv, RequestsInv, Rooted
<1>3. /\ accounts' \in [Emails -> Row \cup {None}] /\ answered' \in [Emails -> Row \cup {None}]
      /\ \A f \in Emails : f # Lower[e] => accounts'[f] = accounts[f] /\ answered'[f] = answered[f]
      /\ accounts'[Lower[e]] # None /\ accounts'[Lower[e]] = answered'[Lower[e]]
    BY <1>2, NoneIsNone, CreatedAccount
<1>4. /\ requests' \in [RequestTokens -> Record(Emails)] /\ Written(requests)'
      /\ \A s \in RequestTokens : /\ requests'[s].email = requests[s].email
                                  /\ requests'[s].status = IF s = t THEN "deleted" ELSE requests[s].status
                                  /\ requests'[s] = NoRequest <=> requests[s] = NoRequest
  <2> DEFINE D == Deleted(requests, {t})
  <2>1. /\ D \in [RequestTokens -> Record(Emails)] /\ Written(D)
        /\ \A s \in RequestTokens : /\ D[s].email = requests[s].email
                                    /\ D[s].status = IF s \in {t} THEN "deleted" ELSE requests[s].status
                                    /\ D[s] = NoRequest <=> requests[s] = NoRequest
      BY <1>2, DeletedRows DEF AccountsInv, TablesInv
  <2> HIDE DEF D
  <2>2. requests' = D
      BY <1>2 DEF D
  <2> QED BY <2>1, <2>2 DEF Written
<1>5. Grows
    BY <1>2, <1>3, <1>4 DEF Grows
<1>6. TablesInv'
  <2>1. \A f \in Emails : accounts'[f] # None => answered'[f] # None
      BY <1>3 DEF AccountsInv, TablesInv
  <2>2. \A s \in ResetTokens : resets'[s] # NoRequest => accounts'[resets'[s].email] # None
      BY <1>2, <1>3 DEF AccountsInv, TablesInv, Written
  <2>3. requests'[t] # NoRequest /\ accounts'[Lower[requests'[t].email]] # None
      BY <1>2, <1>3, <1>4
  <2> QED BY <1>2, <1>3, <1>4, <1>5, <2>1, <2>2, <2>3, TablesLater DEF AccountsInv, TablesInv, Written
<1>7. store = "sqlite3" => SqliteTables'
  <2> SUFFICES ASSUME store = "sqlite3" PROVE SqliteTables'
      OBVIOUS
  <2>1. SqliteTables
      BY DEF AccountsInv, SqliteInv, SqliteTables
  <2>2. FewLive(requests)' /\ FewLive(resets)'
    <3>1. \A s \in RequestTokens : requests'[s].status \in {"deleted", requests[s].status}
        BY <1>4
    <3>2. resets' \in [ResetTokens -> Record(Emails)]
        BY <1>2 DEF AccountsInv, TablesInv
    <3> QED BY <1>2, <1>4, <2>1, <3>1, <3>2, TablesFewer
  <2> QED BY <1>3, <2>1, <2>2 DEF SqliteTables
<1> QED BY <1>2, <1>5, <1>6, <1>7, EndsInv

LEMMA InviteCommitsInv == ASSUME AccountsInv, NEW r \in Requests, InviteCommits(r) PROVE AccountsInv'
<1>1. PICK e \in Emails, p \in RequestTokens \cup {None}, i \in InviteTokens \cup {None} :
        /\ req[r].op = "invited" /\ req[r].email = e /\ req[r].previous = p /\ req[r].token = i
        /\ p # None => requests[p] # NoRequest
    BY DEF InviteCommits, Commits, AccountsInv, RequestsInv, Legal, Rooted, Transaction
<1>2. PICK t \in Unused(requests) :
        /\ req' = [req EXCEPT ![r] = Idle] /\ req[r] # Idle
        /\ requests' = Inserted(Deleted(requests, {p}), t, e)
        /\ invites' = IF i = None THEN invites ELSE [invites EXCEPT ![i] = "deleted"]
        /\ UNCHANGED <<store, accounts, resets, answered, registered, errors>>
    BY <1>1 DEF InviteCommits, Commits, Idle, history
<1>3. t \in RequestTokens /\ requests[t] = NoRequest
    BY <1>2 DEF Unused, AccountsInv, TablesInv
<1>4. /\ requests' \in [RequestTokens -> Record(Emails)] /\ Written(requests)'
      /\ requests'[t] # NoRequest /\ requests'[t].email = e
      /\ \A s \in RequestTokens : s # t =>
           /\ requests'[s].email = requests[s].email
           /\ requests'[s].status = IF s = p THEN "deleted" ELSE requests[s].status
           /\ requests'[s] = NoRequest <=> requests[s] = NoRequest
  <2> DEFINE D == Deleted(requests, {p})
             I == Inserted(D, t, e)
  <2>1. /\ D \in [RequestTokens -> Record(Emails)] /\ Written(D)
        /\ \A s \in RequestTokens : /\ D[s].email = requests[s].email
                                    /\ D[s].status = IF s \in {p} THEN "deleted" ELSE requests[s].status
                                    /\ D[s] = NoRequest <=> requests[s] = NoRequest
      BY <1>1, NoneIsNone, DeletedRows DEF AccountsInv, TablesInv
  <2> HIDE DEF D
  <2>2. /\ I \in [RequestTokens -> Record(Emails)] /\ Written(I)
        /\ I[t] # NoRequest /\ I[t].email = e
        /\ \A s \in RequestTokens : s # t => I[s] = D[s]
      BY <1>3, <2>1, InsertedRow
  <2> HIDE DEF I
  <2>3. requests' = I
      BY <1>2 DEF D, I
  <2> QED BY <2>1, <2>2, <2>3 DEF Written
<1>5. Grows
    BY <1>2, <1>3, <1>4 DEF Grows
<1>6. TablesInv'
  <2>1. invites' \in [InviteTokens -> {"none", "live", "deleted"}]
      BY <1>2 DEF AccountsInv, TablesInv
  <2> QED BY <1>2, <1>4, <1>5, <2>1, TablesLater DEF AccountsInv, TablesInv, Written
<1>7. store = "sqlite3" => SqliteTables'
  <2> SUFFICES ASSUME store = "sqlite3" PROVE SqliteTables'
      OBVIOUS
  <2>1. SqliteTables /\ Few(LiveOf(requests, e) \ {p}, errors)
      BY <1>1 DEF AccountsInv, SqliteInv, SqliteTables, Current, CurrentAfter
  <2>2. errors \in Nat /\ errors + 1 = 1 + errors /\ 1 + errors \in Nat
      BY AccountsAssumption DEF AccountsInv, TablesInv
  <2>3. ASSUME NEW f \in Emails PROVE Few(LiveOf(requests', f), 1 + errors)
    <3>0. requests \in [RequestTokens -> Record(Emails)]
        BY DEF AccountsInv, TablesInv
    <3>1. CASE f = e
      <4>1. LiveOf(requests', f) \subseteq (LiveOf(requests, e) \ {p}) \cup {t}
          BY <1>4, <3>0, <3>1 DEF LiveOf, Live
      <4>2. Few((LiveOf(requests, e) \ {p}) \cup {t}, 1 + errors)
          BY <2>1, <2>2, FewOf
      <4> QED BY <2>2, <4>1, <4>2, FewOf
    <3>2. CASE f # e
      <4>1. LiveOf(requests', f) \subseteq LiveOf(requests, f)
          BY <1>4, <3>0, <3>2 DEF LiveOf, Live
      <4>2. Few(LiveOf(requests, f), 1 + errors)
          BY <2>1 DEF SqliteTables, FewLive
      <4> QED BY <2>2, <4>1, <4>2, FewOf
    <3> QED BY <3>1, <3>2
  <2>4. FewLive(requests)'
      BY <1>2, <2>3 DEF FewLive, LiveOf, Live
  <2>5. FewLive(resets)'
      BY <1>2, <2>1 DEF SqliteTables, FewLive, LiveOf, Live
  <2> QED BY <1>2, <2>1, <2>4, <2>5 DEF SqliteTables
<1> QED BY <1>2, <1>5, <1>6, <1>7, EndsInv

LEMMA ResetRequestInv == ASSUME AccountsInv, NEW r \in Requests, ResetRequestCommits(r) PROVE AccountsInv'
<1>1. PICK e \in Emails : req[r].op = "resetRequest" /\ req[r].email = e /\ accounts[e] # None
    BY DEF ResetRequestCommits, Commits, AccountsInv, RequestsInv, Legal, Rooted, Changing
<1> DEFINE earlier == {x \in ResetTokens : resets[x].email = e}
<1>2. PICK t \in Unused(resets) :
        /\ req' = [req EXCEPT ![r] = Idle] /\ req[r] # Idle
        /\ \/ resets' = Inserted(Deleted(resets, earlier), t, e) /\ UNCHANGED errors
           \/ resets' = Inserted(resets, t, e) /\ PassesOver
        /\ UNCHANGED <<store, accounts, requests, invites, answered, registered>>
    BY <1>1 DEF ResetRequestCommits, Commits, Idle
<1>3. /\ t \in ResetTokens /\ resets[t] = NoRequest /\ \A s \in ResetTokens \cap earlier : resets[s] # NoRequest
      /\ resets \in [ResetTokens -> Record(Emails)] /\ Written(resets)
    BY <1>2, NoneIsNone DEF Unused, AccountsInv, TablesInv
<1>4. /\ resets' \in [ResetTokens -> Record(Emails)] /\ Written(resets)'
      /\ resets'[t] # NoRequest /\ resets'[t].email = e
      /\ \A s \in ResetTokens : s # t =>
           /\ resets'[s].email = resets[s].email
           /\ resets'[s].status \in {"deleted", resets[s].status}
           /\ resets'[s] = NoRequest <=> resets[s] = NoRequest
      /\ \/ /\ UNCHANGED errors
            /\ \A s \in ResetTokens : s # t /\ resets[s].email = e => resets'[s].status = "deleted"
         \/ PassesOver
  <2>1. CASE resets' = Inserted(Deleted(resets, earlier), t, e) /\ UNCHANGED errors
    <3> DEFINE D == Deleted(resets, earlier)
               I == Inserted(D, t, e)
    <3>1. /\ D \in [ResetTokens -> Record(Emails)] /\ Written(D)
          /\ \A s \in ResetTokens : /\ D[s].email = resets[s].email
                                    /\ D[s].status = IF s \in earlier THEN "deleted" ELSE resets[s].status
                                    /\ D[s] = NoRequest <=> resets[s] = NoRequest
      <4> HIDE DEF earlier
      <4> QED BY <1>3, DeletedRows
    <3> HIDE DEF D
    <3>2. /\ I \in [ResetTokens -> Record(Emails)] /\ Written(I)
          /\ I[t] # NoRequest /\ I[t].email = e
          /\ \A s \in ResetTokens : s # t => I[s] = D[s]
        BY <1>3, <3>1, InsertedRow
    <3> HIDE DEF I
    <3>3. resets' = I
        BY <2>1 DEF D, I
    <3>4. Written(resets)'
        BY <3>2, <3>3 DEF Written
    <3> QED BY <2>1, <3>1, <3>2, <3>3, <3>4
  <2>2. CASE resets' = Inserted(resets, t, e) /\ PassesOver
    <3> DEFINE I == Inserted(resets, t, e)
    <3>1. /\ I \in [ResetTokens -> Record(Emails)] /\ Written(I)
          /\ I[t] # NoRequest /\ I[t].email = e
          /\ \A s \in ResetTokens : s # t => I[s] = resets[s]
        BY <1>3, InsertedRow
    <3> HIDE DEF I
    <3>2. resets' = I
        BY <2>2 DEF I
    <3>3. Written(resets)'
        BY <3>1, <3>2 DEF Written
    <3> QED BY <2>2, <3>1, <3>2, <3>3
  <2> QED BY <1>2, <2>1, <2>2
<1>5. Grows
    BY <1>2, <1>3, <1>4 DEF Grows
<1>6. TablesInv'
  <2>1. ASSUME NEW s \in ResetTokens, resets'[s] # NoRequest PROVE accounts'[resets'[s].email] # None
      BY <1>1, <1>2, <1>4, <2>1 DEF AccountsInv, TablesInv
  <2>2. errors' \in 0..Errors
      BY <1>4, AccountsAssumption DEF AccountsInv, TablesInv, PassesOver
  <2> QED BY <1>2, <1>4, <1>5, <2>1, <2>2, TablesLater DEF AccountsInv, TablesInv, Written
<1>7. store = "sqlite3" => SqliteTables'
  <2> SUFFICES ASSUME store = "sqlite3" PROVE SqliteTables'
      OBVIOUS
  <2>1. SqliteTables
      BY DEF AccountsInv, SqliteInv, SqliteTables
  <2>2. /\ errors \in Nat /\ errors + 1 = 1 + errors /\ 1 + errors \in Nat
        /\ errors' \in 0..Errors /\ errors <= errors' /\ 1 + errors' \in Nat /\ Errors \in Nat
      BY <1>4, AccountsAssumption DEF AccountsInv, TablesInv, PassesOver
  <2>3. FewLive(requests)'
      BY <1>2, <2>1, <2>2, OtherFew DEF SqliteTables
  <2>4. ASSUME NEW f \in Emails PROVE Few(LiveOf(resets', f), 1 + errors')
    <3>1. CASE f # e
      <4>1. LiveOf(resets', f) \subseteq LiveOf(resets, f)
          BY <1>3, <1>4, <3>1 DEF LiveOf, Live
      <4>2. Few(LiveOf(resets, f), 1 + errors)
          BY <2>1 DEF SqliteTables, FewLive
      <4>3. Few(LiveOf(resets', f), 1 + errors)
          BY <2>2, <4>1, <4>2, FewOf
      <4> QED BY <2>2, <4>3, FewerThanMore
    <3>2. CASE /\ f = e /\ UNCHANGED errors
               /\ \A s \in ResetTokens : s # t /\ resets[s].email = e => resets'[s].status = "deleted"
      <4>1. LiveOf(resets', f) \subseteq {} \cup {t}
          BY <1>3, <1>4, <3>2 DEF LiveOf, Live
      <4>2. Few({} \cup {t}, 1 + errors)
        <5>1. Few({}, errors)
            BY <2>2, FewNone
        <5> QED BY <2>2, <5>1, FewOf
      <4> QED BY <2>2, <3>2, <4>1, <4>2, FewOf
    <3>3. CASE f = e /\ PassesOver
      <4>1. LiveOf(resets', f) \subseteq LiveOf(resets, f) \cup {t}
          BY <1>3, <1>4, <3>3 DEF LiveOf, Live
      <4>2. Few(LiveOf(resets, f) \cup {t}, (1 + errors) + 1)
        <5>1. Few(LiveOf(resets, f), 1 + errors)
            BY <2>1 DEF SqliteTables, FewLive
        <5> QED BY <2>2, <5>1, FewOf
      <4>3. (1 + errors) + 1 = 1 + errors'
          BY <2>2, <3>3 DEF PassesOver
      <4> QED BY <2>2, <4>1, <4>2, <4>3, FewOf
    <3> QED BY <1>4, <3>1, <3>2, <3>3
  <2>5. FewLive(resets)'
      BY <2>4 DEF FewLive, LiveOf, Live
  <2> QED BY <1>2, <2>1, <2>3, <2>5 DEF SqliteTables
<1> QED BY <1>2, <1>5, <1>6, <1>7, EndsInv

\* The row that was read, with a new password or token, is written and answered.
LEMMA WrittenRow ==
  ASSUME AccountsInv, NEW e \in Emails, NEW new \in Row, NEW told \in Row,
         accounts[e] # None, accounts' = [accounts EXCEPT ![e] = new],
         answered' = [answered EXCEPT ![e] = told],
         UNCHANGED <<store, requests, invites, registered, errors>>,
         resets' \in [ResetTokens -> Record(Emails)], Written(resets)',
         \A t \in ResetTokens : /\ resets'[t].email = resets[t].email
                                /\ resets'[t].status \in {"deleted", resets[t].status}
                                /\ resets'[t] = NoRequest <=> resets[t] = NoRequest,
         store = "sqlite3" => new = told,
         NEW r \in Requests, req[r] # Idle, req' = [req EXCEPT ![r] = Idle]
  PROVE  AccountsInv'
<1>1. /\ accounts' \in [Emails -> Row \cup {None}] /\ answered' \in [Emails -> Row \cup {None}]
      /\ \A f \in Emails : f # e => accounts'[f] = accounts[f] /\ answered'[f] = answered[f]
      /\ accounts'[e] = new /\ answered'[e] = told /\ new # None /\ told # None
    BY RowIsSome DEF AccountsInv, TablesInv
<1>2. Grows
    BY <1>1 DEF Grows
<1>3. TablesInv'
  <2>1. \A f \in Emails : accounts'[f] # None => answered'[f] # None
      BY <1>1 DEF AccountsInv, TablesInv
  <2>2. \A t \in ResetTokens : resets'[t] # NoRequest => accounts'[resets'[t].email] # None
      BY <1>1 DEF AccountsInv, TablesInv, Written
  <2> QED BY <1>1, <1>2, <2>1, <2>2, TablesLater DEF AccountsInv, TablesInv, Written
<1>4. store = "sqlite3" => SqliteTables'
  <2> SUFFICES ASSUME store = "sqlite3" PROVE SqliteTables'
      OBVIOUS
  <2>1. SqliteTables
      BY DEF AccountsInv, SqliteInv, SqliteTables
  <2>2. FewLive(requests)' /\ FewLive(resets)'
    <3>1. /\ requests' \in [RequestTokens -> Record(Emails)]
          /\ \A t \in RequestTokens : requests'[t] = requests[t]
        BY DEF AccountsInv, TablesInv
    <3> QED BY <2>1, <3>1, TablesFewer
  <2> QED BY <1>1, <2>1, <2>2 DEF SqliteTables
<1> QED BY <1>2, <1>3, <1>4, EndsInv

\* What a transaction that changes an account has read, and what was answered last.
LEMMA ReadRow ==
  ASSUME AccountsInv, NEW r \in Requests, req[r].op \in Changing
  PROVE  \E e \in Emails, row \in Row, told \in Row :
           /\ req[r].email = e /\ req[r].row = row /\ answered[e] = told /\ accounts[e] # None
           /\ req[r] # Idle /\ (store = "sqlite3" => row = told)
<1>1. req[r].email \in Emails /\ req[r].row \in Row /\ accounts[req[r].email] # None /\ req[r] # Idle
    BY DEF AccountsInv, RequestsInv, Legal, Rooted, Changing, Idle
<1>2. answered[req[r].email] \in Row
    BY <1>1 DEF AccountsInv, TablesInv
<1>3. store = "sqlite3" => req[r].row = answered[req[r].email]
    BY <1>1 DEF AccountsInv, SqliteInv, Current, CurrentAfter, CurrentAfter
<1> QED BY <1>1, <1>2, <1>3

LEMMA ResetsStay ==
  ASSUME AccountsInv, resets' = resets
  PROVE  /\ resets' \in [ResetTokens -> Record(Emails)] /\ Written(resets)'
         /\ \A t \in ResetTokens : /\ resets'[t].email = resets[t].email
                                   /\ resets'[t].status \in {"deleted", resets[t].status}
                                   /\ resets'[t] = NoRequest <=> resets[t] = NoRequest
  BY DEF AccountsInv, TablesInv, Written

LEMMA PasswordInv ==
  ASSUME AccountsInv, NEW r \in Requests, ChangePasswordCommits(r) \/ ResetCommits(r)
  PROVE  AccountsInv'
<1>1. /\ req[r].op \in {"changePassword", "reset"} /\ req' = [req EXCEPT ![r] = Idle]
      /\ WritesPassword(r) /\ UNCHANGED <<store, requests, invites, registered, errors>>
      /\ resets' = resets \/ (req[r].op = "reset" /\ resets' = Deleted(resets, {req[r].token}))
    BY DEF ChangePasswordCommits, ResetCommits, Commits
<1>2. PICK e \in Emails, row \in Row, told \in Row :
        /\ req[r].email = e /\ req[r].row = row /\ answered[e] = told /\ accounts[e] # None
        /\ req[r] # Idle /\ (store = "sqlite3" => row = told)
    BY <1>1, ReadRow DEF Changing
<1>3. PICK p \in Passwords :
        /\ accounts' = [accounts EXCEPT ![e] = [row EXCEPT !.password = p]]
        /\ answered' = [answered EXCEPT ![e] = [told EXCEPT !.password = p]]
  <2>1. PICK p \in Passwords :
          /\ accounts' = [accounts EXCEPT ![e] = [row EXCEPT !.password = p]]
          /\ answered' = [answered EXCEPT ![e].password = p]
      BY <1>1, <1>2 DEF WritesPassword
  <2> QED BY <1>2, <2>1 DEF AccountsInv, TablesInv
<1>4. [row EXCEPT !.password = p] \in Row /\ [told EXCEPT !.password = p] \in Row
    BY DEF Row
<1>5. /\ resets' \in [ResetTokens -> Record(Emails)] /\ Written(resets)'
      /\ \A t \in ResetTokens : /\ resets'[t].email = resets[t].email
                                /\ resets'[t].status \in {"deleted", resets[t].status}
                                /\ resets'[t] = NoRequest <=> resets[t] = NoRequest
  <2>1. CASE resets' = resets
      BY <2>1, ResetsStay
  <2>2. CASE req[r].op = "reset" /\ resets' = Deleted(resets, {req[r].token})
    <3>1. PICK t \in ResetTokens : req[r].token = t /\ resets[t] # NoRequest
        BY <2>2 DEF AccountsInv, RequestsInv, Legal, Rooted
    <3> DEFINE D == Deleted(resets, {t})
    <3>2. /\ D \in [ResetTokens -> Record(Emails)] /\ Written(D)
          /\ \A s \in ResetTokens : /\ D[s].email = resets[s].email
                                    /\ D[s].status = IF s \in {t} THEN "deleted" ELSE resets[s].status
                                    /\ D[s] = NoRequest <=> resets[s] = NoRequest
        BY <3>1, DeletedRows DEF AccountsInv, TablesInv
    <3> HIDE DEF D
    <3>3. resets' = D
        BY <2>2, <3>1 DEF D
    <3> QED BY <3>2, <3>3 DEF Written
  <2> QED BY <1>1, <2>1, <2>2
<1>6. store = "sqlite3" => [row EXCEPT !.password = p] = [told EXCEPT !.password = p]
    BY <1>2
<1> DEFINE new == [row EXCEPT !.password = p]
           said == [told EXCEPT !.password = p]
<1> HIDE DEF new, said
<1>7. /\ new \in Row /\ said \in Row /\ (store = "sqlite3" => new = said)
      /\ accounts' = [accounts EXCEPT ![e] = new] /\ answered' = [answered EXCEPT ![e] = said]
    BY <1>3, <1>4, <1>6 DEF new, said
<1> QED BY <1>1, <1>2, <1>5, <1>7, WrittenRow

LEMMA RegenerateInv ==
  ASSUME AccountsInv, NEW r \in Requests, RegenerateTokenCommits(r)
  PROVE  AccountsInv'
<1>1. /\ req[r].op = "regenerateToken" /\ req' = [req EXCEPT ![r] = Idle]
      /\ UNCHANGED <<store, requests, resets, invites, registered, errors>>
    BY DEF RegenerateTokenCommits, Commits
<1>2. PICK e \in Emails, row \in Row, told \in Row :
        /\ req[r].email = e /\ req[r].row = row /\ answered[e] = told /\ accounts[e] # None
        /\ req[r] # Idle /\ (store = "sqlite3" => row = told)
    BY <1>1, ReadRow DEF Changing
<1>3. PICK k \in Keys :
        /\ accounts' = [accounts EXCEPT ![e] = [row EXCEPT !.token = k]]
        /\ answered' = [answered EXCEPT ![e] = [told EXCEPT !.token = k]]
  <2>1. PICK k \in Keys :
          /\ accounts' = [accounts EXCEPT ![e] = [row EXCEPT !.token = k]]
          /\ answered' = [answered EXCEPT ![e].token = k]
      BY <1>1, <1>2 DEF RegenerateTokenCommits, FreshKeys
  <2> QED BY <1>2, <2>1 DEF AccountsInv, TablesInv
<1>4. /\ [row EXCEPT !.token = k] \in Row /\ [told EXCEPT !.token = k] \in Row
      /\ store = "sqlite3" => [row EXCEPT !.token = k] = [told EXCEPT !.token = k]
    BY <1>2 DEF Row
<1> DEFINE new == [row EXCEPT !.token = k]
           said == [told EXCEPT !.token = k]
<1> HIDE DEF new, said
<1>5. /\ new \in Row /\ said \in Row /\ (store = "sqlite3" => new = said)
      /\ accounts' = [accounts EXCEPT ![e] = new] /\ answered' = [answered EXCEPT ![e] = said]
    BY <1>3, <1>4 DEF new, said
<1> QED BY <1>1, <1>2, <1>5, ResetsStay, WrittenRow
-----------------------------------------------------------------------------
(* Steps that touch no account.                                            *)

LEMMA SameTables ==
  ASSUME AccountsInv, UNCHANGED tables
  PROVE  Grows /\ (UNCHANGED history => (store = "sqlite3" => SqliteTables'))
<1>1. Grows
    BY DEF Grows, tables
<1>2. SqliteTables /\ UNCHANGED history => SqliteTables'
    BY DEF SqliteTables, FewLive, LiveOf, Live, tables, history
<1>3. store = "sqlite3" => SqliteTables
    BY DEF AccountsInv, SqliteInv, SqliteTables
<1> QED BY <1>1, <1>2, <1>3

LEMMA RollsBackInv == ASSUME AccountsInv, NEW r \in Requests, RollsBack(r) PROVE AccountsInv'
<1>1. /\ req[r] # Idle /\ req' = [req EXCEPT ![r] = Idle] /\ UNCHANGED <<store, tables, history>>
    BY DEF RollsBack
<1>2. TablesInv'
    BY <1>1 DEF AccountsInv, TablesInv, Written, tables, history
<1> QED BY <1>1, <1>2, SameTables, EndsInv

LEMMA GenerateInv ==
  ASSUME AccountsInv, NEW new \in SUBSET InviteTokens, InviteTokenGenerate(new)
  PROVE  AccountsInv'
<1>1. /\ CanBegin /\ UNCHANGED <<store, accounts, requests, resets, req, answered, registered, errors>>
      /\ invites' = [i \in InviteTokens |-> IF i \in new THEN "live" ELSE invites[i]]
    BY DEF InviteTokenGenerate, history
<1>2. Grows /\ TablesInv'
    BY <1>1 DEF Grows, AccountsInv, TablesInv, Written
<1>3. store = "sqlite3" => SqliteTables'
    BY <1>1 DEF AccountsInv, SqliteInv, SqliteTables, FewLive, LiveOf, Live
<1> QED BY <1>1, <1>2, <1>3, GatedInv

\* A batch of expired rows.
LEMMA BatchRows ==
  ASSUME NEW T, NEW table \in [T -> Record(Emails)], Written(table), NEW batch \in Batches(Expired(table))
  PROVE  LET D == Deleted(table, batch) IN
         /\ D \in [T -> Record(Emails)] /\ Written(D)
         /\ \A t \in T : /\ D[t].email = table[t].email
                         /\ D[t].status \in {"deleted", table[t].status}
                         /\ D[t] = NoRequest <=> table[t] = NoRequest
<1>1. \A t \in T \cap batch : table[t] # NoRequest
    BY NoneIsNone DEF Batches, Expired, Live
<1> QED BY <1>1, DeletedRows

LEMMA DeleteExpiredInv ==
  ASSUME AccountsInv, DeleteExpiredAccountRequests \/ DeleteExpiredForgetPasswordRequests
  PROVE  AccountsInv'
<1>1. /\ CanBegin /\ UNCHANGED <<store, accounts, invites, req, answered, registered, errors>>
      /\ \/ resets' = resets /\ \E batch \in Batches(Expired(requests)) : requests' = Deleted(requests, batch)
         \/ requests' = requests /\ \E batch \in Batches(Expired(resets)) : resets' = Deleted(resets, batch)
    BY DEF DeleteExpiredAccountRequests, DeleteExpiredForgetPasswordRequests, history
<1>2. PICK D, E :
        /\ requests' = D /\ D \in [RequestTokens -> Record(Emails)] /\ Written(D)
        /\ \A t \in RequestTokens : /\ D[t].email = requests[t].email
                                    /\ D[t].status \in {"deleted", requests[t].status}
                                    /\ D[t] = NoRequest <=> requests[t] = NoRequest
        /\ resets' = E /\ E \in [ResetTokens -> Record(Emails)] /\ Written(E)
        /\ \A t \in ResetTokens : /\ E[t].email = resets[t].email
                                  /\ E[t].status \in {"deleted", resets[t].status}
                                  /\ E[t] = NoRequest <=> resets[t] = NoRequest
  <2>1. /\ requests \in [RequestTokens -> Record(Emails)] /\ Written(requests)
        /\ resets \in [ResetTokens -> Record(Emails)] /\ Written(resets)
      BY DEF AccountsInv, TablesInv
  <2>2. CASE resets' = resets /\ \E batch \in Batches(Expired(requests)) : requests' = Deleted(requests, batch)
      BY <2>1, <2>2, BatchRows
  <2>3. CASE requests' = requests /\ \E batch \in Batches(Expired(resets)) : resets' = Deleted(resets, batch)
      BY <2>1, <2>3, BatchRows
  <2> QED BY <1>1, <2>2, <2>3
<1>3. Grows
    BY <1>1, <1>2 DEF Grows
<1>4. Written(requests)' /\ Written(resets)'
    BY <1>2 DEF Written
<1>5. TablesInv'
    BY <1>1, <1>2, <1>3, <1>4, TablesLater DEF AccountsInv, TablesInv
<1>6. store = "sqlite3" => SqliteTables'
  <2> SUFFICES ASSUME store = "sqlite3" PROVE SqliteTables'
      OBVIOUS
  <2>1. /\ SqliteTables /\ requests \in [RequestTokens -> Record(Emails)]
        /\ resets \in [ResetTokens -> Record(Emails)]
      BY DEF AccountsInv, SqliteInv, SqliteTables, TablesInv
  <2>2. FewLive(requests)' /\ FewLive(resets)'
      BY <1>1, <1>2, <2>1, TablesFewer
  <2> QED BY <1>1, <2>1, <2>2 DEF SqliteTables
<1> QED BY <1>1, <1>3, <1>5, <1>6, GatedInv

\* What a table looks like after rows of it have aged.
Aged(T, table, aged) ==
  /\ aged \in [T -> Record(Emails)] /\ Written(aged)
  /\ \A t \in T : /\ aged[t].email = table[t].email
                  /\ aged[t].status = table[t].status
                  /\ aged[t] = NoRequest <=> table[t] = NoRequest

LEMMA AgedRows ==
  ASSUME NEW T, NEW table \in [T -> Record(Emails)], Written(table), NEW x \in Live(table)
  PROVE  Aged(T, table, [table EXCEPT ![x].old = TRUE])
<1> DEFINE row == [table[x] EXCEPT !.old = TRUE]
<1>1. x \in T /\ table[x] \in Record(Emails) /\ table[x].status = "live"
    BY DEF Live
<1>2. row \in Record(Emails) /\ row.email = table[x].email /\ row.status = "live"
    BY <1>1 DEF Record
<1>3. row # NoRequest /\ table[x] # NoRequest
    BY <1>1, <1>2, NoneIsNone
<1>4. [table EXCEPT ![x].old = TRUE] = [table EXCEPT ![x] = row]
    BY <1>1
<1> HIDE DEF row
<1> QED BY <1>1, <1>2, <1>3, <1>4 DEF Aged, Written

LEMMA AgesInv == ASSUME AccountsInv, Ages PROVE AccountsInv'
<1>1. /\ UNCHANGED <<store, accounts, invites, req, answered, registered, errors>>
      /\ \/ resets' = resets /\ \E x \in Live(requests) : requests' = [requests EXCEPT ![x].old = TRUE]
         \/ requests' = requests /\ \E x \in Live(resets) : resets' = [resets EXCEPT ![x].old = TRUE]
    BY DEF Ages, history
<1>2. PICK D, E : /\ requests' = D /\ Aged(RequestTokens, requests, D)
                  /\ resets' = E /\ Aged(ResetTokens, resets, E)
  <2>1. /\ Aged(RequestTokens, requests, requests) /\ Aged(ResetTokens, resets, resets)
        /\ requests \in [RequestTokens -> Record(Emails)] /\ Written(requests)
        /\ resets \in [ResetTokens -> Record(Emails)] /\ Written(resets)
      BY DEF AccountsInv, TablesInv, Aged
  <2>2. CASE resets' = resets /\ \E x \in Live(requests) : requests' = [requests EXCEPT ![x].old = TRUE]
    <3>1. PICK x \in Live(requests) : requests' = [requests EXCEPT ![x].old = TRUE]
        BY <2>2
    <3>2. Aged(RequestTokens, requests, [requests EXCEPT ![x].old = TRUE])
        BY <2>1, AgedRows
    <3> QED BY <2>1, <2>2, <3>1, <3>2
  <2>3. CASE requests' = requests /\ \E x \in Live(resets) : resets' = [resets EXCEPT ![x].old = TRUE]
    <3>1. PICK x \in Live(resets) : resets' = [resets EXCEPT ![x].old = TRUE]
        BY <2>3
    <3>2. Aged(ResetTokens, resets, [resets EXCEPT ![x].old = TRUE])
        BY <2>1, AgedRows
    <3> QED BY <2>1, <2>3, <3>1, <3>2
  <2> QED BY <1>1, <2>2, <2>3
<1>3. Grows
    BY <1>1, <1>2 DEF Grows, Aged
<1>4. Written(requests)' /\ Written(resets)'
    BY <1>2 DEF Written, Aged
<1>5. TablesInv'
    BY <1>1, <1>2, <1>3, <1>4, TablesLater DEF AccountsInv, TablesInv, Aged
<1>6. ASSUME NEW r \in Requests PROVE Legal(req[r])' /\ Rooted(req[r])'
  <2>1. Legal(req[r]) /\ Rooted(req[r]) /\ req'[r] = req[r]
      BY <1>1 DEF AccountsInv, RequestsInv
  <2> QED BY <1>3, <2>1, RootedStays DEF Legal, Rooted
<1>7. RequestsInv'
    BY <1>1, <1>6 DEF AccountsInv, RequestsInv
<1>8. Live(requests)' = Live(requests) /\ Live(resets)' = Live(resets)
    BY <1>2 DEF Live, AccountsInv, TablesInv, Aged
<1>9. SqliteInv'
  <2> SUFFICES ASSUME store = "sqlite3" PROVE SqliteInv'
      BY <1>1 DEF SqliteInv
  <2>1. SqliteInv /\ \A r \in Requests : Current(req[r]) /\ Legal(req[r])
      BY DEF AccountsInv, SqliteInv, RequestsInv
  <2>2. ASSUME NEW r \in Requests PROVE Current(req[r])'
    <3>1. Current(req[r]) /\ Legal(req[r]) /\ req'[r] = req[r]
        BY <1>1, <2>1
    <3>2. \A t \in Live(requests) : t \in RequestTokens
        BY DEF Live, AccountsInv, TablesInv
    <3>3. \A e : LiveOf(requests, e)' = LiveOf(requests, e)
        BY <1>2, <1>8, <3>2 DEF LiveOf, Aged
    <3> QED BY <1>1, <1>2, <3>1, <3>3 DEF Current, CurrentAfter, Legal, Aged
  <2>3. FewLive(requests)' /\ FewLive(resets)'
      BY <1>1, <1>2, <2>1, TablesFewer DEF SqliteInv, SqliteTables, Aged
  <2> QED BY <1>1, <2>1, <2>2, <2>3 DEF SqliteInv
<1> QED BY <1>5, <1>7, <1>9 DEF AccountsInv
-----------------------------------------------------------------------------
LEMMA AccountsInductive == AccountsInv /\ [AccountsNext]_accountVars => AccountsInv'
<1> SUFFICES ASSUME AccountsInv, [AccountsNext]_accountVars PROVE AccountsInv'
    OBVIOUS
<1>1. ASSUME NEW r \in Requests, Ends(r) PROVE AccountsInv'
    BY <1>1, InviteCommitsInv, RegisterInv, ResetRequestInv, PasswordInv, RegenerateInv, RollsBackInv
    DEF Ends
<1>2. ASSUME NEW r \in Requests, BeginsRequest(r) \/ InviteLooks(r) PROVE AccountsInv'
    BY <1>2, BeginsRequestInv, InviteLooksInv
<1>3. CASE Admin
    BY <1>3, GenerateInv, CreateAccountInv DEF Admin
<1>4. CASE UNCHANGED accountVars
  <2>1. TablesInv' /\ RequestsInv'
      BY <1>4 DEF accountVars, tables, history, AccountsInv, TablesInv, Written, RequestsInv, Legal, Rooted
  <2>2. SqliteInv'
      BY <1>4
      DEF accountVars, tables, history, AccountsInv, SqliteInv, Current, CurrentAfter, FewLive, LiveOf, Live
  <2> QED BY <2>1, <2>2 DEF AccountsInv
<1> QED BY <1>1, <1>2, <1>3, <1>4, AgesInv, DeleteExpiredInv DEF AccountsNext

LEMMA AccountsInvariant == AccountsSpec => []AccountsInv
    BY AccountsInitInv, AccountsInductive, PTL DEF AccountsSpec

\* Every row and every open transaction has its type, on either store.
THEOREM AccountsTypeCorrect == AccountsSpec => []AccountsTypeOK
<1>1. AccountsInv => AccountsTypeOK
    BY DEF AccountsInv, TablesInv, RequestsInv, Transaction, Token, AccountsTypeOK
<1> QED BY <1>1, AccountsInvariant, PTL

\* On sqlite no change of an account is lost, whatever runs at once
\* (store/account.go:62).
THEOREM AnswersStand == AccountsSpec => []LastAnswerStands
<1>1. AccountsInv => LastAnswerStands
    BY DEF AccountsInv, SqliteInv, LastAnswerStands
<1> QED BY <1>1, AccountsInvariant, PTL

\* On sqlite asking again leaves one token that can be used, and one more for every
\* error that was passed over at most (invite.go:77-85,
\* store/password_reset_request.go:21-23).
THEOREM EarlierRequestsEnded == AccountsSpec => []EarlierRequestsEnd
<1>1. AccountsInv => EarlierRequestsEnd
    BY DEF AccountsInv, SqliteInv, FewLive, Few, EarlierRequestsEnd
<1> QED BY <1>1, AccountsInvariant, PTL

\* On sqlite only tokens that are still live are spent (register.go:35,
\* resetPassword.go:35, invite.go:46).
THEOREM LiveTokensSpent == AccountsSpec => SpendsLiveTokens
<1>1. AccountsInv /\ [AccountsNext]_accountVars =>
        [\A r \in Requests : store = "sqlite3" =>
           /\ RegisterCommits(r) => req[r].token \in Live(requests)
           /\ ResetCommits(r) => req[r].token \in Live(resets)
           /\ InviteCommits(r) /\ req[r].token # None => invites[req[r].token] = "live"]_accountVars
  <2> SUFFICES ASSUME AccountsInv, NEW r \in Requests, store = "sqlite3"
               PROVE  /\ RegisterCommits(r) => req[r].token \in Live(requests)
                      /\ ResetCommits(r) => req[r].token \in Live(resets)
                      /\ InviteCommits(r) /\ req[r].token # None => invites[req[r].token] = "live"
      OBVIOUS
  <2>1. Current(req[r]) /\ Legal(req[r])
      BY DEF AccountsInv, SqliteInv, RequestsInv
  <2> QED BY <2>1
      DEF Current, CurrentAfter, Legal, Live, RegisterCommits, ResetCommits, InviteCommits, Commits, AccountsInv, TablesInv
<1> QED BY <1>1, AccountsInvariant, PTL DEF AccountsSpec, SpendsLiveTokens

\* On either store an account request is registered once at most: the account that
\* came of it keeps every other registration with it out (register.go:35-68).
THEOREM RegisteredOnce == AccountsSpec => RegistersOnce
<1>1. AccountsInv /\ [AccountsNext]_accountVars =>
        [\A r \in Requests : RegisterCommits(r) => req[r].token \notin registered]_accountVars
  <2> SUFFICES ASSUME AccountsInv, NEW r \in Requests, RegisterCommits(r), req[r].token \in registered
               PROVE  FALSE
      OBVIOUS
  <2>1. requests[req[r].token].email = req[r].email
      BY DEF RegisterCommits, Commits, AccountsInv, RequestsInv, Rooted
  <2>2. accounts[Lower[req[r].email]] # None
      BY <2>1 DEF AccountsInv, TablesInv
  <2> QED BY <2>2 DEF RegisterCommits, CreatesAccount, Insertable
<1> QED BY <1>1, AccountsInvariant, PTL DEF AccountsSpec, RegistersOnce
=============================================================================
