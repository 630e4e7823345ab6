------------------------------ MODULE Accounts ------------------------------
(***************************************************************************)
(* Accounts, the requests that lead to them (invite, register, createAcc-  *)
(* ount) and those that change them (resetPasswordRequest, resetPassword,  *)
(* changePassword, regenerateToken), the tokens that are spent on the way, *)
(* and the maintenance agents that delete expired requests.                *)
(*                                                                         *)
(* A handler reads in one step and writes and commits in another.  On      *)
(* sqlite there is one connection, so that one transaction follows the     *)
(* other; on PostgreSQL a transaction that writes a row another has written *)
(* waits for it, and then writes what it read before.                      *)
(***************************************************************************)
EXTENDS Naturals, FiniteSets

CONSTANTS
  Stores,         \* the stores that are looked at, of "sqlite3", "postgres"
  Emails, Lower,  \* Lower[e]: the email in lower case
  Passwords, Keys,                         \* Keys: the tokens of accounts
  RequestTokens, ResetTokens, InviteTokens,
  TokenStrategy,  \* "store": an invite needs an invite token
  BatchLimit,     \* of the maintenance agents
  Requests,       \* the transactions that may be open at once
  Errors,         \* a bound on the errors that are logged and passed over
  None

ASSUME AccountsAssumption ==
  /\ Stores \subseteq {"sqlite3", "postgres"}
  /\ Lower \in [Emails -> Emails] /\ \A e \in Emails : Lower[Lower[e]] = Lower[e]
  /\ BatchLimit \in Nat \ {0} /\ Errors \in Nat
  /\ None \notin Passwords \cup Keys \cup RequestTokens \cup ResetTokens \cup InviteTokens \cup Emails
  /\ None \notin [password : Passwords, token : Keys]

VARIABLES
  store,       \* the kind of store, which never changes
  accounts,    \* accounts[e]: the row of the account, or None
  requests,    \* requests[t]: the account request with this token
  resets,      \* resets[t]: the password reset request with this token
  invites,     \* invites[t]: whether the invite token is "none", "live" or "deleted"
  req,         \* req[r]: the transaction r is, and what it has read
  answered,    \* history: what the client of an account was last told
  registered,  \* history: the tokens accounts were registered with
  errors       \* history: how many transactions have passed over an error

tables == <<accounts, requests, resets, invites>>
history == <<answered, registered, errors>>
accountVars == <<store, tables, req, history>>

NoRequest == [email |-> None, status |-> "none", old |-> FALSE]
Idle == [op |-> "none", email |-> None, token |-> None, row |-> None, previous |-> None]

AccountsInit ==
  /\ store \in Stores
  /\ accounts = [e \in Emails |-> None]
  /\ requests = [t \in RequestTokens |-> NoRequest]
  /\ resets = [t \in ResetTokens |-> NoRequest]
  /\ invites = [t \in InviteTokens |-> "none"]
  /\ req = [r \in Requests |-> Idle]
  /\ answered = [e \in Emails |-> None]
  /\ registered = {} /\ errors = 0
-----------------------------------------------------------------------------
(* Transactions.                                                           *)

\* Mutant: the pool of the sqlite store is not bounded.
CanAlwaysBegin == TRUE

CanBegin == store = "sqlite3" => \A r \in Requests : req[r] = Idle

Begins(r, op, email, token, row) ==
  /\ req[r] = Idle /\ CanBegin
  /\ req' = [req EXCEPT ![r] = [op |-> op, email |-> email, token |-> token,
                                row |-> row, previous |-> None]]
  /\ UNCHANGED <<store, tables, history>>

Commits(r, op) ==
  /\ req[r].op = op
  /\ req' = [req EXCEPT ![r] = Idle]
  /\ UNCHANGED store

\* What was read is refused, an insert violates a constraint, the commit fails,
\* or the process ends: the transaction is rolled back.
RollsBack(r) ==
  /\ req[r] # Idle
  /\ req' = [req EXCEPT ![r] = Idle]
  /\ UNCHANGED <<store, tables, history>>

\* A statement fails, which is logged, and the transaction goes on.  (On PostgreSQL
\* it cannot: whatever follows a failed statement is refused.)
PassesOver == store = "sqlite3" /\ errors < Errors /\ errors' = errors + 1

\* A token no account has and nobody else is about to write.
FreshKeys ==
  Keys \ ({accounts[e].token : e \in {x \in Emails : accounts[x] # None}}
          \cup {answered[e].token : e \in {x \in Emails : answered[x] # None}}
          \cup {req[r].row.token : r \in {q \in Requests : req[q].row # None}})

Unused(table) == {t \in DOMAIN table : table[t] = NoRequest}

Live(table) == {t \in DOMAIN table : table[t].status = "live"}

LiveOf(table, email) == {t \in Live(table) : table[t].email = email}

Deleted(table, tokens) ==
  [t \in DOMAIN table |-> IF t \in tokens THEN [table[t] EXCEPT !.status = "deleted"] ELSE table[t]]

Inserted(table, t, email) ==
  [table EXCEPT ![t] = [email |-> email, status |-> "live", old |-> FALSE]]
-----------------------------------------------------------------------------
(* Accounts come to be.                                                    *)

\* Tokens the administrator makes; one that exists refuses them all.
InviteTokenGenerate(tokens) ==
  /\ CanBegin
  /\ tokens # {} /\ \A i \in tokens : invites[i] = "none"
  /\ invites' = [i \in InviteTokens |-> IF i \in tokens THEN "live" ELSE invites[i]]
  /\ UNCHANGED <<store, accounts, requests, resets, req, history>>

\* Mutant: a deleted invite token is found too.
InviteTokensFoundAll == {i \in InviteTokens : invites[i] # "none"}

InviteTokensFound == {i \in InviteTokens : invites[i] = "live"}

InviteBegins(r, email) ==
  \E i \in IF TokenStrategy = "store" THEN InviteTokensFound ELSE {None} :
    Begins(r, "invite", email, i, None)

\* Mutant: the request made before is not looked for.
NoPrevious(email) == {None}

\* The account request that is found for the email, as it was written.
Previous(email) ==
  LET found == LiveOf(requests, email)
  IN IF found = {} THEN {None} ELSE found

\* The invite token is deleted, which waits for a transaction that deletes the
\* same; only then accounts and requests are looked up.  A lookup that fails is taken
\* for one that finds nothing, whatever the error.
InviteLooks(r) ==
  /\ req[r].op = "invite"
  /\ req[r].token # None =>
       \A q \in Requests : ~(req[q].op = "invited" /\ req[q].token = req[r].token)
  /\ \E t \in Previous(req[r].email) \cup {None} :
       /\ \/ /\ accounts[Lower[req[r].email]] = None /\ t \in Previous(req[r].email)
             /\ UNCHANGED errors
          \/ PassesOver
       /\ req' = [req EXCEPT ![r].op = "invited", ![r].previous = t]
  /\ UNCHANGED <<store, tables, answered, registered>>

InviteCommits(r) ==
  /\ Commits(r, "invited")
  /\ \E t \in Unused(requests) :
       requests' = Inserted(Deleted(requests, {req[r].previous}), t, req[r].email)
  /\ invites' = IF req[r].token = None THEN invites ELSE [invites EXCEPT ![req[r].token] = "deleted"]
  /\ UNCHANGED <<accounts, resets, history>>

\* Mutant: without the constraint on the emails of accounts.
InsertableAlways(email) == TRUE

Insertable(email) == accounts[email] = None

\* The account and the answer that tells its token.
CreatesAccount(email) ==
  /\ Insertable(email)
  /\ \E p \in Passwords, k \in FreshKeys :
       /\ accounts' = [accounts EXCEPT ![email] = [password |-> p, token |-> k]]
       /\ answered' = [answered EXCEPT ![email] = [password |-> p, token |-> k]]

RegisterBegins(r, t) ==
  /\ t \in Live(requests)
  /\ Begins(r, "register", requests[t].email, t, None)

RegisterCommits(r) ==
  /\ Commits(r, "register")
  /\ CreatesAccount(Lower[req[r].email])
  /\ requests' = Deleted(requests, {req[r].token})
  /\ registered' = registered \cup {req[r].token}
  /\ UNCHANGED <<resets, invites, errors>>

\* By the administrator.  (When its commit fails it answers as if it had not.)
CreateAccount(email) ==
  /\ CanBegin
  /\ CreatesAccount(Lower[email])
  /\ UNCHANGED <<store, requests, resets, invites, req, registered, errors>>
-----------------------------------------------------------------------------
(* Accounts change: the whole row that was read is written.                *)

ResetRequestBegins(r, email) ==
  /\ accounts[Lower[email]] # None
  /\ Begins(r, "resetRequest", Lower[email], None, accounts[Lower[email]])

\* That the earlier ones could not be deleted is logged.
ResetRequestCommits(r) ==
  LET earlier == {x \in ResetTokens : resets[x].email = req[r].email}
  IN /\ Commits(r, "resetRequest")
     /\ \E t \in Unused(resets) :
          \/ resets' = Inserted(Deleted(resets, earlier), t, req[r].email) /\ UNCHANGED errors
          \/ resets' = Inserted(resets, t, req[r].email) /\ PassesOver
     /\ UNCHANGED <<accounts, requests, invites, answered, registered>>

ResetBegins(r, t) ==
  /\ t \in Live(resets)
  /\ Begins(r, "reset", resets[t].email, t, accounts[resets[t].email])

\* A password: the one of the request, and the token that was read.
WritesPassword(r) ==
  \E p \in Passwords :
    /\ accounts' = [accounts EXCEPT ![req[r].email] = [req[r].row EXCEPT !.password = p]]
    /\ answered' = [answered EXCEPT ![req[r].email].password = p]

ResetCommits(r) ==
  /\ Commits(r, "reset")
  /\ WritesPassword(r)
  /\ resets' = Deleted(resets, {req[r].token})
  /\ UNCHANGED <<requests, invites, registered, errors>>

\* The old password was verified with what was read.
ChangePasswordBegins(r, email) ==
  /\ accounts[Lower[email]] # None
  /\ Begins(r, "changePassword", Lower[email], None, accounts[Lower[email]])

ChangePasswordCommits(r) ==
  /\ Commits(r, "changePassword")
  /\ WritesPassword(r)
  /\ UNCHANGED <<requests, resets, invites, registered, errors>>

RegenerateTokenBegins(r, email) ==
  /\ accounts[email] # None
  /\ Begins(r, "regenerateToken", email, None, accounts[email])

RegenerateTokenCommits(r) ==
  /\ Commits(r, "regenerateToken")
  /\ \E k \in FreshKeys :
       /\ accounts' = [accounts EXCEPT ![req[r].email] = [req[r].row EXCEPT !.token = k]]
       /\ answered' = [answered EXCEPT ![req[r].email].token = k]
  /\ UNCHANGED <<requests, resets, invites, registered, errors>>
-----------------------------------------------------------------------------
(* Maintenance.  The rows are selected for update, or on the only connec-  *)
(* tion: nobody writes them in between, and one step is enough.            *)

\* A request reaches the age at which it expires.
Ages ==
  /\ \/ /\ \E t \in Live(requests) : requests' = [requests EXCEPT ![t].old = TRUE]
        /\ UNCHANGED resets
     \/ /\ \E t \in Live(resets) : resets' = [resets EXCEPT ![t].old = TRUE]
        /\ UNCHANGED requests
  /\ UNCHANGED <<store, accounts, invites, req, history>>

Expired(table) == {t \in Live(table) : table[t].old}

\* "limit", without an order.
Batches(expired) ==
  {b \in SUBSET expired : b # {} /\ (b = expired \/ Cardinality(b) = BatchLimit)
                           /\ Cardinality(b) <= BatchLimit}

DeleteExpiredAccountRequests ==
  /\ CanBegin
  /\ \E batch \in Batches(Expired(requests)) : requests' = Deleted(requests, batch)
  /\ UNCHANGED <<store, accounts, resets, invites, req, history>>

DeleteExpiredForgetPasswordRequests ==
  /\ CanBegin
  /\ \E batch \in Batches(Expired(resets)) : resets' = Deleted(resets, batch)
  /\ UNCHANGED <<store, accounts, requests, invites, req, history>>
-----------------------------------------------------------------------------
BeginsRequest(r) ==
  \/ \E e \in Emails :
       InviteBegins(r, e) \/ ResetRequestBegins(r, e) \/ ChangePasswordBegins(r, e)
         \/ RegenerateTokenBegins(r, e)
  \/ \E t \in RequestTokens : RegisterBegins(r, t)
  \/ \E t \in ResetTokens : ResetBegins(r, t)

Ends(r) ==
  \/ InviteCommits(r) \/ RegisterCommits(r) \/ ResetRequestCommits(r) \/ ResetCommits(r)
  \/ ChangePasswordCommits(r) \/ RegenerateTokenCommits(r) \/ RollsBack(r)

Admin ==
  (\E tokens \in SUBSET InviteTokens : InviteTokenGenerate(tokens)) \/ \E e \in Emails : CreateAccount(e)

AccountsNext ==
  \/ \E r \in Requests : BeginsRequest(r) \/ InviteLooks(r) \/ Ends(r)
  \/ Admin \/ Ages
  \/ DeleteExpiredAccountRequests \/ DeleteExpiredForgetPasswordRequests

AccountsSpec == AccountsInit /\ [][AccountsNext]_accountVars
-----------------------------------------------------------------------------
(* Properties.                                                             *)

Row == [password : Passwords, token : Keys]
Record(emails) ==
  [email : emails \cup {None}, status : {"none", "live", "deleted"}, old : BOOLEAN]

AccountsTypeOK ==
  /\ store \in Stores
  /\ accounts \in [Emails -> Row \cup {None}]
  /\ requests \in [RequestTokens -> Record(Emails)]
  /\ resets \in [ResetTokens -> Record(Emails)]
  /\ invites \in [InviteTokens -> {"none", "live", "deleted"}]
  /\ req \in [Requests ->
       [op : {"none", "invite", "invited", "register", "resetRequest", "reset",
              "changePassword", "regenerateToken"},
        email : Emails \cup {None},
        token : RequestTokens \cup ResetTokens \cup InviteTokens \cup {None},
        row : Row \cup {None}, previous : RequestTokens \cup {None}]]
  /\ answered \in [Emails -> Row \cup {None}]
  /\ registered \subseteq RequestTokens /\ errors \in 0..Errors

\* On sqlite the password and the token of an account are those its client was
\* last told of, whatever changes of it run at once: UpdateAccount writes all
\* columns, what it did not change included (store/account.go:62; regenerateToken
\* of the old token, changePassword and resetPassword of the other).
LastAnswerStands ==
  store = "sqlite3" => \A e \in Emails : accounts[e] # None => accounts[e] = answered[e]

\* On sqlite what a transaction spends, the token of an invite, of a request or
\* of a reset, is still live when it commits: it was not spent by another, not
\* replaced by a newer one, and has not expired (register.go:35, invite.go:46,
\* resetPassword.go:35, maintenance.go:56).
SpendsLiveTokens ==
  [][\A r \in Requests : store = "sqlite3" =>
       /\ RegisterCommits(r) => req[r].token \in Live(requests)
       /\ ResetCommits(r) => req[r].token \in Live(resets)
       /\ InviteCommits(r) /\ req[r].token # None => invites[req[r].token] = "live"]_accountVars

\* On either store no account request is registered twice, although on PostgreSQL
\* two transactions may have found it and several live requests may be there for
\* one email in different cases (register.go:35-68).
RegistersOnce ==
  [][\A r \in Requests : RegisterCommits(r) => req[r].token \notin registered]_accountVars

\* On sqlite asking again makes the earlier token useless: an email has one account
\* request and an account one reset request that can be used, and one more for every
\* error on the way that was passed over (invite.go:77-85,
\* store/password_reset_request.go:21-23).
EarlierRequestsEnd ==
  store = "sqlite3" => \A e \in Emails :
    /\ Cardinality(LiveOf(requests, e)) <= 1 + errors
    /\ Cardinality(LiveOf(resets, e)) <= 1 + errors
=============================================================================
