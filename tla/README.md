# Verification of zrok

The repository packages [zrok](../src/containers/zrok-main) (v0.4, Go) as containers
(`flake.nix`, `modules/zrok/docker-compose.nix` describe the deployment: a controller, a
frontend, OpenZiti, PostgreSQL, InfluxDB, RabbitMQ). The program logic is zrok's. This
directory holds TLA+ models of its controller, of its metrics pipeline and of the endpoints that
keep state, TLC configurations that check them, and TLAPS proofs. Paths below are relative to
`src/containers/zrok-main/`.

## 1. Inventory

| Component | State | Operations | Hard part | Module |
| --- | --- | --- | --- | --- |
| **Limits agent** `controller/limits` | `bandwidth_limit_journal`; the queue of reports; `lastCycle` and a `time.After` | `enforce` a transfer report; every cycle `relax`; answers `CanCreateEnvironment/Share`, `CanAccessShare` to the handlers | works in store transactions but cuts and restores OpenZiti dial policies at once; several classes limit one share; timer races reports | `LimitsAgent` |
| **Limit classes** `controller/limits/userLimits.go`, `store/limitClass.go` | `limit_classes`, `applied_limit_classes`, the `limits` stanza | select the classes of an account and share; compare a transfer | precedence of global, unscoped and scoped classes | `LimitClasses` |
| **Resource handlers** `controller/{enable,disable,share,unshare,access,unaccess}.go` | `environments`, `shares`, `frontends`, `limit_check_locks`; OpenZiti identities, services, configs, policies | one REST request each | two stores, only one of them transactional; check-then-insert under read committed; names that are reused | `Controller` |
| **OpenZiti client** `controller/zrokEdgeSdk` | none | create, and delete by tag filter | each call may fail on its own | in `Controller`, `Collector`, `LimitsAgent` |
| **Store** `controller/store` | sqlite or PostgreSQL | transactions | sqlite: `SetMaxOpenConns(1)`, one transaction at a time; PostgreSQL: read committed | in `Controller`, `LimitsAgent`, `Accounts` |
| **Garbage collection** `controller/gc.go` | a snapshot of the live share tokens | deletes from OpenZiti, kind by kind, what is not in it | races the handlers; names that are not share tokens | `Collector` |
| **Accounts** `register.go`, `invite.go`, `resetPassword*.go`, `regenerateToken.go`, ... | `accounts`, `account_requests`, `password_reset_requests`, `invite_tokens` | registration, reset, token changes | single-use tokens, whole-row updates | `Accounts` |
| **Maintenance agents** `maintenance.go` | none | delete old requests in batches | race their use | `Accounts` |
| **Metrics pipeline** `controller/metrics` | pointer file, AMQP queue, InfluxDB, the queue of the limits agent | source -> bridge -> queue -> agent -> sinks | acknowledgement and pointer against crashes, bounded queue, stop | `Metrics` |
| **UDP tunnel** `endpoints/udpTunnel`, `endpoints/txer.go` | the sessions by address, a channel each | forward datagrams, close idle sessions | a loop and two goroutines per session share a map and close a channel | `UdpTunnel` |
| **VPN backend** `endpoints/vpn` | an atomic counter, the clients by address | give out addresses, forward packets | check-then-register, a counter that overflows the subnet | `VpnBackend` |
| **WebDAV server** `drives/davServer` | locks in memory, with reference counts and an expiry heap | LOCK, UNLOCK, refresh; the locks each method takes | nested resources, expiry, temporary locks | `DavLocks` |
| **Other endpoints** `endpoints/{proxy,tcpTunnel,socks,drive,...}` | in libraries | adapters | - | - |
| **Drive synchronisation** `drives/sync` | none | compare two trees, copy one way | a pure comparison | - |
| **Admin operations, read-only handlers** `controller/*.go` | rows | single inserts, queries | - | two in `Accounts` |
| **Client, SDK, generated REST, UI, docs** | local files | - | - | - |

How they interact: the REST handlers call the limits agent **synchronously, inside their own
transaction** (`limits/agent.go:55-214`). The metrics agent hands every transfer report to the
limits agent's queue, and waits when it is full. The limits agent's goroutine and the handlers
share the store and OpenZiti, and nothing else: there is no lock between them besides the
store's. OpenZiti does not take part in a transaction, so whatever it was told stays when the
transaction is rolled back. `gc` is a process of its own; the bridge is another, joined to the
controller by the AMQP queue only. The maintenance agents are goroutines of the controller and
touch the same rows as the account handlers. A client process runs the one endpoint that the
backend mode of its share selects.

What makes each correct:

* limits agent: journal and dial policies agree; a limit that is still exceeded is not
  forgotten; what was cut is restored in the end; a warning does no more than warn;
* handlers: a live row has its resources and nothing else has any; no count is exceeded under
  concurrency; nothing lives in a disabled environment; every request is answered, truthfully;
* garbage collection: it clears what failures leave behind, and nothing that lives;
* accounts: a token is spent once and only while it lives, asking again ends the earlier request, no
  change is lost;
* metrics: events are lost or doubled only for a crash or a failure, one for each, but for a pointer
  that cannot be read, which repeats all behind it; what leaves the queue was recorded; the agents never block each other for good;
* endpoints: one session for an address, and the one that ends is the one that is removed; an
  address of a VPN is one client's; two writes of a drive do not meet.

`PROJECT.json` lists every place in the code where this is hard to test ("hazards").

## 2. Modules

    LimitClasses            no state: classes, their selection, transfer comparison
      LimitsAgent           agent goroutine + handlers as far as they touch it
        LimitsAgentProofs, MCLimitsAgent
      Controller            the six request handlers
        ControllerProofs
          ControllerSqliteProofs
        Collector           gc beside the handlers
          CollectorProofs   (extends ControllerSqliteProofs too)
        MCController        (MCCollector extends it and Collector)
    CountedPool             abstract: a pool joined only while there is room
      CountedPoolProofs     implemented twice by Controller
    Accounts                accounts, their tokens, and the maintenance agents
      AccountsProofs, MCAccounts
    Metrics                 file -> bridge -> AMQP -> agent -> InfluxDB and limits agent
      MetricsProofs, MCMetrics
    PathLocks               abstract: locks in a tree that exclude each other
    DavLocks                the lock system of a drive and its requests; implements PathLocks
    UdpTunnel               the frontend of a UDP tunnel
    VpnBackend              the addresses of a VPN
    Endpoints               a process runs one of the three
      EndpointsProofs, MCEndpoints

`MC...` modules only give values to constants. Every constant is a parameter of its module with a
named assumption that TLC evaluates on each run.

### LimitClasses

`Config` is the `limits` stanza, `Applied[a]` the rows of `applied_limit_classes` joined to
`limit_classes` in the order they are read. `ResourceClass`, `BandwidthClass`, `ScopedClass` are
the loop of `getUserLimits`: each row replaces what was selected before, so the last one of a
kind counts. `BandwidthArray`, `IgnoredBackends`, `ExceededPositions` and `SelectedClass` are
`toBandwidthArray`, `ignoreBackends` and `anyBandwidthLimitExceeded`. `-1` is `store.Unlimited`
as in the code.

### LimitsAgent

| Model | Code |
| --- | --- |
| `agent.pc`: loop, cycle, cut, relax, restore | where the goroutine of `Agent.run` is |
| `timer`, `due`, `TimerRuns`, `TimerFires`, `CyclePasses` | `time.After(cycle)` made anew by every turn of the `select`, and `lastCycle` |
| `ReportIgnored`, `ReportWarns`, `ReportLimits` | the cases of `enforce`, the transaction begun and checked |
| `CutEnv`, `CutShare`, `CutFails`, `CutCommit` | `limitAction.HandleAccount`, share by share, then the commit of `enforce` |
| `RelaxBegin`, `RelaxKeeps`, `RelaxWarning`, `RelaxLimit`, `RestoreEnv`, `RestoreShare`, `RestoreDone`, `RelaxCommit`, `RelaxFails` | `relax` and `relaxAction.HandleAccount` |
| `ShareBegin` ... `Commit`, `Fail` | handlers: check (inside the transaction), OpenZiti, commit |
| `Traffic` | InfluxDB: what a query returns for an account and a period |

`Group` reproduces that the warning and the limit of the configuration share the rows with a
null `limit_class_id`; `Forgotten` that deleting one such row deletes them all. A dial policy is
a member of `dial`: a public share stands for the policy of its frontend, a private frontend for
its own. `ChangeZiti` is what a handler does to them; an unaccess that comes with another share's token
does nothing (`unaccess.go:71`). With `Serial` (sqlite) a transaction begins only when no other is open; without it the
handlers run between any two steps of the agent. `ClassIdsAssumption` says what a row of the journal
can name: the configuration's two classes have no id and one period (`bandwidthClass.go:15-28`), and an id
is that of one class.

### Controller

`env`, `share` and `access` are the **committed** rows (none, live, deleted). `req[r]` is a request
under way: its operation, the row it is about, how far the handler is (`step`), the account whose
`limit_check_locks` row it wrote, and for `disable` the rows it will mark. `ziti` is the set of
OpenZiti resources, as <<kind, owner>>.

| Model | Code |
| --- | --- |
| `EnableBegins`, `ShareBegins`, `AccessBegins` | begin of the transaction and the lookups before the limit check |
| `Admit`, `Refuse` | `checkLimits`: `LimitCheckLock`, `CanCreate...`, the unique-name lookup |
| `Allocate`, `AllocateFails` | `allocateResources`: all resources, or those before the call that fails |
| `UnshareBegins`, `Deallocate` / `UnaccessBegins`, `Revoke` | `unshare.go`, `unaccess.go` |
| `DisableBegins`, `RemoveShares`, `RemoveFrontends`, `RemoveEnvironment`, `RemoveIdentity` | the parts of `disable.go`, which look their rows up twice |
| `Commit`, `CommitFails`, `Crash` | the end of a transaction; a restart rolls everything open back |

`CanCreateShare` compares inside the loop over environments, so with no live environment it
compares nothing; `Account` is the owner of the share for an access; `Exempt` is the limitless
column, which `access.go` does not look at. `Unambiguous` is the partial unique index on share
tokens. Deletion goes by tag filter (`Tagged`), hence hits every share with the token. The filter of
`unaccess` takes the share token from the request and nothing compares it with the share of the access:
`Misnamed` are the accesses given up with the token of another share, of which `Revoked` deletes nothing while the
row is deleted all the same (`unaccess.go:65-76`). Which requests are so is a constant; in the runs it is one access.
`LockFree` is the wait for a row that another transaction wrote.

### CountedPool

The abstract promise of a count limit. `Controller` implements it twice (`EnvironmentPool`,
`AccessPool`), with the capacity taken from the classes.

`PathLocks` plays the same part for drives: a set of locks, each on a resource or on all below it, which
a step may take only when it meets no other, and give up.

### Collector

`gc` is the process of `zrok admin gc`: its stage, the snapshot `live` of the tokens, what its listing
showed to be dead and is still to be deleted (`doomed`), and as history what was created since it began
and whether a call failed.

| Model | Code |
| --- | --- |
| `GC`, `LiveTokens` | `gc`: the transaction, `FindAllShares`, `liveMap` (`gc.go:36-51`) |
| `Dead`, `NameOf` | the four listings, each of which takes the name up to its first `-` for a share token |
| `Collect`, `Collected` | the deletions for one dead resource, each of which may fail: with a service everything tagged with its token |
| `GoOn`, `Finish`, `GiveUp` | the next listing, the end, an error or a kill |
| `HeldUp`, `Busy` | on sqlite the read transaction lasts until the end, so a handler's commit waits, or is answered "database is locked" |

### Accounts

A handler of an account reads in one step (`...Begins`) and writes and commits in another
(`...Commits`), or ends without a trace (`RollsBack`); `req[r].row` is the account as it was read.
`InviteLooks` is between the two: the invite token is deleted first, and that waits for a transaction
deleting the same. `PassesOver` is an error that is logged and gone on from: `InviteLooks` takes a lookup that
fails for one that finds nothing, be it of the account or of the earlier request (`invite.go:71-85`), and
`ResetRequestCommits` inserts a request although the earlier ones could not be deleted
(`store/password_reset_request.go:21-23`). It is on sqlite only: PostgreSQL refuses whatever follows a failed
statement, which is `RollsBack`. `errors` counts them. `WritesPassword` and `RegenerateTokenCommits` write the **whole row**, as
`UpdateAccount` does. `Insertable` is the unique constraint on emails. `CanBegin` is sqlite's single
connection. `DeleteExpiredAccountRequests` and `DeleteExpiredForgetPasswordRequests` take a batch of
at most `BatchLimit` in no order, which is all the query promises; `Ages` stands for the clock.
`store` is a variable chosen at the start, so that one run looks at both stores.

### Metrics

| Model | Code |
| --- | --- |
| `ReadLine`, `HandOver`, `WritePtr` | `fileSource.tail`: a line, the send to the loop, the pointer |
| `Push` | `amqpSink.Handle`, whose error is logged, then the acknowledgement |
| `Stop`, `LinesEnd`, `LoopCloses`, `StartAgain`, `BridgeCrashes` | `Bridge.Stop` with its two joins, and a start from the pointer, or from the first line when it cannot be read (`Restarted`) |
| `Connect`, `Deliver`, `Disconnects`, `NoticesDisconnect` | `amqpSource`: dial, receive, the broken connection, whose messages are delivered again |
| `Take`, `IngestFails`, `Record`, `Enqueue`, `Ack` | one turn of the loop of `Agent`: `usageIngest`, `influxWriter`, the limits agent's `Handle`, `Ack` |
| `Enforce` | the limits agent takes a report: `LimitsAgent` begins there |

`pushed` lists every message there ever was and `place` where it is, so that loss and repetition can be
counted; `reread` is history, the lines that were behind the pointer at the starts that could not read it. A line is `Unreadable` when it is not JSON.

### DavLocks

A call of `memLS` is one action, for its mutex makes it one. `ref` is the reference count
of a node, `held` and `expiring` the flag and the heap of the code. `CanCreate` looks, as the code does, at
the nodes on the way to the root and at `n`'s own count, never below. `StartWithoutIf`,
`LockDestination`, `LockDestinationFails` and `StartWithIf` are `confirmLocks`; `ReleaseHeld` and
`ReleaseTemporary` what it returns to be deferred; `LockResource`, `LockAnswered`, `LockFails`, `Refresh`,
`Unlock` the handlers of LOCK and UNLOCK; `CollectExpired` the expiry that every call begins with.
`Names` with `Up` is any tree: `Up[n]` are the nodes `walkToRoot` visits.

### UdpTunnel

`loop` is the loop of `frontend.Run`, `pc[s]` the two goroutines of a session (`timeout`, and
`endpoints.TXer`, both of which may close it), `active[s]` its channel. `ReadFound`, `MakeClient`, `Store`, `Signal`, `Write`,
`WriteFails` are the steps of the loop between two uses of what is shared; `CloseBegins`, `AlreadyClosed`,
`TakesSignal`, `NotYetClosed`, `CloseActive`, `CloseClient` those of `clientConn.Close` and `closeClient`.
`SignalPanics` and `ClosePanics` are a send on, and a close of, a channel that another has closed: they
end the process. `Forgotten` lets a session be made again when nothing is left of it, so that behaviours
go on for ever with two of them.

### VpnBackend

`Digit` and `Host` are the arithmetic of `nextIP`, with the width of a byte as a parameter: each of four
bytes of the counter modulo 255 (`% 0xff`), the counter itself modulo `Word`. `Count`, `Overflow`,
`Candidate` are the turns of its loop, `Register` and `Disconnect` the rest of `handle`; `WriteFailed` and
`RemoveClient` are the two halves of `readTun`'s deletion of a client it cannot write to. `rivals` is
history: who else had the address when a connection registered.

### Endpoints

The composition: `mode` selects the endpoint a process runs, which then is the only one to step. The three
share nothing in the code, and so nothing here; one run checks what each promises.

## 3. Runs

| Run | Instance | Shows |
| --- | --- | --- |
| `agent_sqlite` (154 000 states) | sqlite; configuration classes; a public proxy share and a private drive share with two accesses; journal up to 3 rows; fair | types, `CutWhileLimited`, `OpenWhenFree`, `LimitKeptWhileOver`, and `RestoredEventually` |
| `agent_scoped` (173 000) | the same with a scoped class for drives | a limited share stays cut whichever of two limits is relaxed first |
| `agent_faults` (283 000) | PostgreSQL; OpenZiti, InfluxDB, mail, commit and process fail at any point | `JournalAlternates` and `LimitKeptWhileOver`: the journal stays sound and forgets no limit that is exceeded |
| `handlers_sqlite` (22 000) | sqlite; two environments; two shares of one unique name and an ephemeral one; three accesses, one of them given up with another share's token | `Backed`, `NoOrphans`, `LiveInLiveEnvironment` |
| `limits_postgres` (337 000) | PostgreSQL with `enable_locking`; two accounts, counts of one; three environments | no count is exceeded; both refinements of `CountedPool`; `Backed`, no two shares having one name |
| `handlers_faults` (84 000) | PostgreSQL with locking; everything fails; fair handlers | `RequestsAnswered` |
| `collector` (1 483 000) | gc and one handler on sqlite; two shares of one name with an access; everything fails | `CollectsLeftovers`, `SparesServices` |
| `endpoints` (129 000) | a drive of three nested resources and two requests; a tunnel with two addresses and two sessions; a VPN of sixteen addresses with bytes of four values and two connections | the lock system's consistency, its exclusion and its refinement of `PathLocks`; one session for an address; who pushes out whom |
| `accounts` (726 000) | both stores; an email in two cases; two transactions at once; two tokens of each kind; one error passed over | `LastAnswerStands`, `EarlierRequestsEnd`, `SpendsLiveTokens`, `RegistersOnce` |
| `metrics` (330 000) | three lines, one of them unreadable; a queue of one; a crash of each process and one failure | `LosesOnePerCrash`, `RepeatsOnlyForFailures`, `AckedIsRecorded`, `Flows` |

`collector` and `accounts` take about two minutes, the others less than one.

Two runs find what the code does against what it, or its documentation, says:

| Run | The code | What is said |
| --- | --- | --- |
| `gc_live` | service policies are named after an environment (`<envZId>-<shrZId>-bind`, for a public share `-dial` too) or an access (`<feToken>-<envZId>-<shrZId>-dial`), but gc takes the name up to the first `-` for a token: it deletes the bind and dial policies of live shares (`gc.go:136`) | "remaining live" (`gc.go:144`) |
| `vpn_server` | `cmp.Equal` compares a `net.IP` with a `[]byte` and is never true: a client is given the server's address (`endpoints/vpn/backend.go:252`) | `vpn` assigns `10.122.0.1` to the host (`docs/guides/vpn/vpn.md:26`) |

Further behaviour that other instances of the same modules show, and no run is spent on. The property
named is stated in its module; TLC violates it with the instance given:

* `WarningOnlyWarns`: a journaled *warning* refuses new shares and accesses (`limits/agent.go:100`),
  in one step of `agent_sqlite`.
* `OpenWhenFree` with `Applied <- DriveApplied`: a scoped limit also cuts shares of unscoped modes, and relaxing
  it does not restore them (`userLimits.go:29`, `relaxAction.go:60`).
* `LimitKeptWhileOver` with `Config <- MixedConfig` and `Levels <- MixedLevels`, where warning and limit bound different directions: relaxing the configuration
  warning deletes the row of the configuration limit, still exceeded (`limits/agent.go:409`).
* `RestoredEventually` with `Faults = {"edge"}`: a failure during `limitAction` leaves policies deleted and
  no journal row, so nothing relaxes (`limits/agent.go:315`). With `Tokenless = TRUE`: reports without
  a share token that arrive more often than the cycle restart the timer and never look at `lastCycle`.
* `CutWhileLimited` with `Serial = FALSE`: a share checked before a limit is journaled and created after
  the policies were cut stays open.
* `CutWhileLimited` with `Faults = {"edge"}`: a relax cycle restores policies and fails before its commit, so the
  journal still limits what is open (`limits/agent.go:404`).
* `DisabledWhenAnswered` with `Faults = {"commit"}`: `disable` logs a failed commit and answers success
  (`disable.go:68`).
* `NoOrphans` and `Backed` with `Faults = {"commit"}` on sqlite: what a share has created in OpenZiti stays when its
  commit fails, and what `unshare` has deleted stays deleted, while the row stays live. gc removes the former.
* PostgreSQL, handlers: a share is committed into an environment that was disabled after the
  lookup (`LiveInLiveEnvironment`); a slow second `unshare` deletes the resources of the next share
  of the same unique name (`Backed`). With names that are never reused `Backed` holds on PostgreSQL (theorem `BackedWithOwnNames`).
* `NoOrphans` on PostgreSQL (its place in the cfg of `limits_postgres`): `disable` looks its rows up a second time and
  marks what was committed in between, whose resources stay (`disable.go:141`).
* PostgreSQL, gc: a share that is committed while gc works loses its service (`SparesServices`).
* PostgreSQL, accounts: of two changes of one account the later undoes the earlier, of which its client
  was told; a reset token or an invite token is spent twice; two requests for one email are live at once. That is
  why `LastAnswerStands`, `EarlierRequestsEnd` and `SpendsLiveTokens` speak of sqlite. `RegistersOnce` needs
  neither: the account itself keeps a second registration out.
* `unaccess` with the token of another share commits the deletion of the row and leaves the policy, which goes on
  allowing the dial until the share is given up (`unaccess.go:71`): without `LeftBehind`, `NoOrphans` is violated in
  `handlers_sqlite`.
* A pointer that cannot be read is logged and the file is tailed from its first line (`metrics/fileSource.go:52-55`):
  every event behind the pointer is recorded twice. `RepeatsOnlyForFailures` without `reread` is violated in `metrics`.
* An error passed over leaves two requests of one address that can be used (`store/password_reset_request.go:21`,
  `invite.go:83`): `EarlierRequestsEnd` without `errors` is violated in `accounts`.
* `SignalsAreRead`: `Close` looks whether the channel is closed by receiving from it, may take the
  signal of a datagram for that, and ends; the session stays in the map and the loop blocks at its next
  signal for ever (`udpTunnel/frontend.go:47`).
* `SparesLocked`: a DELETE or MOVE without an If header changes what others have locked below, since its
  temporary lock has zero depth (`webdav.go:102`); `WritersExclude` fails with `Tagged = TRUE`.
* `Metrics` can stop: `Bridge.Stop` waits for a source that is blocked sending to the loop that has ended
  (`bridge.go:74`). The bridge then has to be killed. Its run does not look for deadlocks for this reason alone.

* The first access of a private share whose policy cannot be restored ends the share's turn; the error is
  ignored and the journal rows are deleted all the same (`relaxAction.go:67-71, 100-116`): `RestoreShare` has this,
  and `OpenWhenFree` is checked where nothing fails.
* Addresses of a VPN are given back only when the host sends to them (`WriteFailed`, `RemoveClient`): when all are
  registered nobody gets one and `nextIP` counts for ever (`backend.go:256`).

Seen in the code, and not checked: accesses to the shares of a limitless account are counted and refused
(`access.go:117`); a report about a reused unique name may find a deleted row (`store/share.go:67`);
`createAccount` answers "created" after a failed commit (`createAccount.go:52`); an invitation whose email cannot
be sent is answered with an error although it is committed and its token spent (`invite.go:97`); messages are published
without persistence and do not survive a restart of the broker (`amqpSink.go:57`).

### Bounds

Two requests are under way at once in `Controller`, `Accounts` and `DavLocks`: a request meets another
only through rows, OpenZiti, one lock row or a node, and every race listed as a hazard is between two of them.
For the counts, accounts and locks the theorems below remove the bound. In `limits_postgres` the counts are one and
there are two candidates in each account or share, so a lost check shows at once. Identities are used once,
so behaviours of `Controller` and `Collector` are finite and end when all are used up: their runs switch
deadlock checking off for that reason alone; `endpoints` does because a process that panicked has ended.
In `LimitsAgent` three transfer levels (nothing, warning, limit) are all the comparison can tell apart with
the two thresholds used, for each of at most two periods; `MaxJournal` (the length at which no further row
is written) admits warning, limit and warning again, the sequence in which rows of one group mask each other.
`agent_faults` and `agent_scoped` use one access and a journal of two rows to keep the faults affordable.

In `collector` one handler works beside gc: what gc does badly it does between two steps of a handler, and two shares
of one name suffice for leftovers to block, or to be confused with, a successor. In `Metrics` `Crashes` and
`Failures` bound what goes wrong, in `Accounts` `Errors` what is passed over (one, which is enough for two live requests); three lines are one before, at and behind any fault, and the theorems hold for
all numbers. In `DavLocks` three nested names give a lock above, at and below another, and four tokens are what two
requests and two clients' locks use. With bytes of four values and sixteen
addresses the VPN counter overflows the subnet, which sets it back before it can wrap, and addresses collide within one run.
Symmetry is used where objects play one part: tokens and requests in `endpoints` (no liveness is checked there), passwords,
tokens and requests in `accounts`.

### Fairness

`Controller!FairSpec` is strong fairness of each handler: a handler waits only for a lock row, which
PostgreSQL hands out in the order of arrival, or for a step of its own. `LimitsAgent!FairSpec` is weak
fairness of the clock, of the agent's own steps and of a handler under way, and strong fairness of
beginning a transaction, for `database/sql` queues those that wait for the connection. Nothing is
assumed of reports, requests or transfers: `RestoredEventually` says that *if* the transfers of an
account stay below every class from some time on, its shares are fully open again and again.
`MetricsSpec` is weak fairness of three goroutines of the controller: the AMQP source, which dials again every ten
seconds; the loop of the agent; the loop of the limits agent. Nothing is assumed of the bridge. The other modules
state safety only.

### Mutants

Each property of a passing run has a mutant, a plausible slip in a mapped definition, under which
TLC finds it violated: a lock is not taken, not waited for, taken for the wrong account, or
outlives its transaction; the new member is not counted; a tag filter is too wide or too narrow; a
snapshot is of ids and not of tokens; the pointer is written too early, or not read; a failed sink is acknowledged;
a deleted token is found too; a lock above, or below, is not looked for; what was held never expires; a session is
taken out of the map before it is closed. The mutated operators stand before the ones they replace, marked `Mutant`.

## 4. Proofs

TLAPS proves the following for every value of the constants that satisfies the named assumptions of the
module, hence for any number of accounts, shares, requests, resources, sessions, connections or lines.

| Module | Theorem | States |
| --- | --- | --- |
| `ControllerProofs` | `TypeCorrect` | `Spec => []TypeOK` |
| | `EnvironmentsNeverExceed`, `AccessesNeverExceed` | the counts hold, if `Serial \/ Locking` |
| | `SharesNeverExceed` | `Spec => SharesAdmitted`, if `Serial \/ Locking` |
| | `EnvironmentsRefine`, `AccessesRefine` | `Controller` implements `CountedPool`, if `Serial \/ Locking` |
| | `BackedWithOwnNames` | `[]Backed` on either store, if `Faults = {}` and `OwnNames` |
| `ControllerSqliteProofs` | `NothingOutlivesItsEnvironment` | `LiveInLiveEnvironment`, if `Serial` |
| | `AlwaysBacked`, `NeverOrphans` | rows and OpenZiti agree, if `Serial` and `Faults = {}`, for any `Misnamed` |
| `CountedPoolProofs` | `PoolWithinCapacity` | `CountedPool` never exceeds its capacity |
| `AccountsProofs` | `AccountsTypeCorrect` | types |
| | `AnswersStand`, `EarlierRequestsEnded`, `LiveTokensSpent` | on sqlite: no change lost, asking again ends the earlier request but for errors passed over, live tokens spent |
| | `RegisteredOnce` | on either store |
| `MetricsProofs` | `MetricsTypeCorrect` | types |
| | `CrashesLoseOne`, `OnlyFailuresRepeat` | the bounds on loss and repetition |
| | `AcknowledgedIsRecorded` | at-least-once delivery to InfluxDB |
| `LimitsAgentProofs` | `LimitsAgentTypes` | types |
| | `JournalAlwaysAlternates` | `[]JournalAlternates`, either store, any fault |
| | `LimitsKeptWhileOver` | `LimitKeptWhileOver`, either store, any fault, if `WarnsFirst` |
| | `LimitedSharesAreCut` | `[]CutWhileLimited`, if `Serial` and only emails fail |
| | `FreeSharesAreOpen` | `[]OpenWhenFree`, if moreover `Unscoped` and `WarnsFirst` |
| `CollectorProofs` | `CollectorTypes` | types |
| | `CollectorSparesServices` | `SparesServices`, if `Serial`, any fault |
| | `CollectorLosesNothing` | `CollectsLeftovers`, either store, any fault, if `TokensAreApart` |
| `EndpointsProofs` | `DavTypeCorrect`, `AlwaysConsistent`, `LocksWillExpire` | the lock system's own consistency |
| | `LocksAlwaysExclude`, `DavRefinesPathLocks` | locks exclude each other; `DavLocks` implements `PathLocks` |
| | `WritersNeverMeet` | writes exclude each other, if `~Tagged` |
| | `UdpTypeCorrect`, `OneOpenSessionAlways`, `AlwaysClosesItself` | types; one session for an address; the right one is removed |
| | `VpnTypeCorrect`, `AlwaysPushedOutByRivals` | types; who pushes out whom |
| | `EndpointsKeepToTheirs`, `EndpointsAreSafe` | `EndpointsSpec` implies each endpoint's specification, and so all of the above |

Each module has an inductive invariant, one lemma for each action or group of actions, and theorems that follow
from the invariant.

**`Controller`.** The condition is needed: on PostgreSQL without `enable_locking` TLC finds two requests that both see
room for one (the mutants of `limits_postgres`). `EnvironmentsWithinLimit` is not inductive: a state in which two
requests are past their check and the pool has room for one satisfies it, and the next two commits break it.
`CountInv` adds what the code relies on:

* `TypeInv`: types, and `AllLegal`: a request of each kind is about an object of its kind and at a step
  of its handler;
* `Exclusive`: with sqlite at most one request is under way; with locking a request that passed a check
  (`Checked`) holds the lock row of the account it counts for, and no lock row has two holders;
* `StillAllowed`: whatever was checked would still be allowed now.

`Follows` captures that a step of a handler never gives its request more than it had, so only `Admit`
needs an argument for `Exclusive` (the lock was free) and for `StillAllowed` (it was just checked).
Only `Commit` writes rows. It adds at most the object of a creating request (`CommitAdds`); another
request past its check counts for another account (`OtherAccount`), so its room is not used up
(`CommitAllowed`); and the committing one had room for one (`RoomForOne`, `CommitCounts`,
`CommitAdmits`). The refinements follow from the same facts: a commit of `enable` is `Add`, of `disable` is `Remove`.

**`Controller`, interleaved.** `BackedWithOwnNames` holds for any number of open transactions, locking or not.
`OwnNames` (no two shares have one token) is needed: two `unshare` requests find one share, the first ends, the name is
shared again, and the second deletes by that name (section 3). `StandInv` lets a live row lack what it needs
only while a request gives the row up (`GivesUpShare`, `GivesUpAccess`): it is past deleting the
resources and its commit will mark the row. For `disable` these are at first all rows of its environment, and from
the second lookup on those that it found (`doomed`); a row added in between is among them, as it is live by then. A
request relies (`Known`) only on what nobody can undo: the row it creates was never there and is no other request's
(`OneCreates`), what it created in OpenZiti is there, and the rows it gives up were there, so that no step takes
anything from a row still to be added. `StepStands` states what a step that leaves the rows alone must
respect, once for all of them; `CommitRows` says what a commit changes; and without
a fault no request that gives something up ends but by its commit (`CommitDoesNotFail`).

**`Controller` on sqlite.** `PlaceInv` says that one request at most is under way (`Solitary`), that what its handler
has looked up is still so (`Placed`), and that the rows fit together (`RowsInv`: live environments, one live share for a token, an
access only to a share that was there). It holds under every fault, since only `Commit` writes rows.
`AgreeInv` compares OpenZiti with the rows in the middle of a request: it holds what live rows need (`Agree`),
with what the request has created (`Born`) and without what it has removed (`Gone`). `Held` says what else OpenZiti may hold:
the grant of an access that was given up with another share's token, but only while its share is live, because the
grants of a share are deleted with it by the share's own token (`DeallocatedGrants`). That tags are matched by token
is where `OneLiveForToken` is needed: deleting all that carries the token of a live share takes nothing from another
(`DeallocatedShare`), and a name is free to be created again (`NoClash`). At the commit `Born` is what becomes live
and `Gone` what is marked deleted, so the rows catch up with OpenZiti (`CommitAgrees`). With faults `Backed` and
`NoOrphans` do not hold (section 3).

**`Accounts`.** `AccountsInv` is `TablesInv` (types; rows are never taken back; a registered request has its
account), `RequestsInv` (`Legal`, and `Rooted`: the rows a transaction has read exist) and `SqliteInv`
(transactions are alone, and so what one has read is `Current`; `FewLive` bounds the live requests of an address). An
invite that found the earlier request leaves `Few` others to it, and one that passed over an error has counted it
(`CurrentAfter`, `FoundPrevious`). `Grows` is all a step has to show for other
transactions to stay rooted; `RegisteredOnce` follows from the third part of `TablesInv` and the unique
constraint, without `SqliteInv`.

**`Metrics`.** The bounds are about sets that no step counts, so the invariant compares cardinalities. `Lost` are
the lines handed over that are neither pushed, dropped nor in the bridge's hand: only a crash with an event in
hand adds one (`LossInv`). For repetition, `RepeatInv` counts the pushed messages, the one in hand and what a
restart would push `Again` (behind the pointer, already carried): handing over moves a line from nowhere to `Again`, writing the pointer
takes it out, a restart turns what is in `Again` into repetitions the failure has paid for, and one that cannot read the
pointer adds what is behind it to `Again` and to `reread` alike.

**`DavLocks`.** Excluding below works by counting although `CanCreate` looks at no descendant: `Consistent` (a node's
count is the number of locks at and below it), with the lemmas on the cardinality of `LockedBelow`, makes a count of
zero mean that nothing is locked below. `DavInv` adds `ZeroAbove` (a lock above another has zero depth), `HeldLocked`, `Apart`
(a claim belongs to one request) and `Sane` (confirmed locks are held, temporary ones neither held nor expiring, a
writer covers what it names). `OneCover` then says that one lock at most covers a resource.

**`UdpTunnel`, `VpnBackend`.** `UdpInv`: an open session is in the map or about to be stored, where nothing is
(`OpenIsKept`, `StoresInPlace`), and one goroutine only is about to remove a closed one (`RemovesKept`, `OneRemoves`).
`VpnInv`: offered addresses are of the subnet, and a connection that has not registered is not in the table.

`EndpointsKeepToTheirs` composes: a process takes the steps of one endpoint and stutters for the others.

**`LimitsAgent`.** Four invariants, each a strengthening of the one before:

* `JournalInv`, under every fault and on either store. `JournalAlternates` is not inductive: the row that `enforce`
  adds was decided on when its transaction began, and the shares are cut in between. `Cutting` says that the class
  is still not the last journaled one (on PostgreSQL too, for only the agent writes the journal and it is one
  goroutine). `JournalSound` says that a row names a class that can be looked up again, `Relaxing` that a relax cycle
  forgets whole groups, so that what is left of the journal alternates because it did before (`KeptRows`).
* `ForgetsRelaxed`: what the cycle has taken off the rows it keeps was not exceeded. Here the condition `WarnsFirst`
  is needed: the configuration's warning and limit share the rows without an id, so relaxing the warning forgets the
  limit as well. Where the limit can be exceeded without the warning (the two bound different directions, which
  nothing in `config.go` refuses) it is forgotten while over; TLC finds that (section 3, `MixedConfig`).
* `CutInv` adds `PoliciesInv`, on sqlite: the agent and the handlers are never both in a transaction (`Alone`),
  so a share that was checked is still not limited (`Checked`); every share under a row that stands is shut
  (`StandingShut`, with `Standing` for the rows a cycle has not forgotten yet); while `enforce` cuts, a share it has
  still to cut is in `envs` or `shares` (`CutSoFar`); and what the cycle opens is under no standing row (`RestoresOnly`).
* `OpenInv` adds `ReachInv`: while a cycle restores, a share that is free of what stands is open or still to be done (`Restoring`),
  and everything that was created has its policies (`CreatedOpen`).

Faults other than emails are excluded for the last two because TLC finds both violated with them: `HandleAccount` returns at
the first failure and leaves shares half cut or half restored (`agent_faults` checks what remains). Without `Unscoped` it
finds `OpenWhenFree` violated: a scoped limit cuts shares that relaxing it does not restore (`DriveApplied`).

**`Collector`.** `SparesServices` rests on `SnapshotLasts`: on sqlite no commit comes between the snapshot and the end,
so the tokens of live shares stay in `gc.live`; `DoomedDead` says that what is to be deleted has not the name of one,
and `CollectsNamesakes` that with it only namesakes go. `CollectsLeftovers` needs `CollectedSoFar`: of the kinds whose stage is
over (`Passed`) nothing is left over, and what is left over of the present kind is still doomed. `AllFit` (resources are of the
kinds of their object) is why a doomed resource is among what is deleted on its account (`CollectsItself`).
`TokensAreApart` says that no share token is the id of an environment or the token of an access, by which gc would take the policy
named after it for a live share's: the first come from OpenZiti, the others are random.

Only model-checked: liveness (`RequestsAnswered`, `RestoredEventually`, `Flows`), which with `ENABLED` is out of the
prover's reach. Every safety property of a passing run is a theorem whose conditions the constants of the run satisfy.
No inductive proof over data is attempted: the selection of classes in `LimitClasses` folds over rows, and the theorems
need only the types of its results and which rows it selects from.

## 5. Not modelled

* In modelled components: access grants of closed shares and closed public frontends (a missing grant is a
  `Refuse`), `updateShare`; `Stop` of the limits agent and of the metrics agent; the websocket source of events, which
  keeps no state; the UDP tunnel's backend and the VPN's frontend, each one connection without shared state; the
  packets of a VPN; files, properties and XML of a drive, a fork of `golang.org/x/net/webdav`; wording of
  errors and emails. Bandwidth limits reach `Controller` only as `Refuse`. A share is identified by its row in
  `LimitsAgent`, while a report carries a token.
* Admin operations and read-only handlers: single inserts or queries in a transaction of their own.
* The other endpoints: adapters between the OpenZiti SDK and `net/http` or `net`, whose state is in those libraries.
* `drives/sync`: a sequential comparison of two inventories and a copy; nothing runs beside it. It would be a
  next step: the comparison as an operator against a reference definition.
* Client environment and SDK: sequential handling of local files and of the command line.
* Generated code is by far the largest part of the repository's lines (`rest_client_zrok`, `rest_server_zrok`,
  `rest_model_zrok`, the SDKs for Node and Python), followed by the WebDAV fork's XML library, the UI and the command line; none of them holds
  behaviour of the system. The models cover the files that keep state; the share of all lines
  they cover is small for this reason.

What a continuation would take up first: access grants and `updateShare` in `Controller`; what remains
of `CutWhileLimited` when OpenZiti fails, as an invariant and a theorem; `drives/sync`.

## 6. Running it

    tlc -config MCLimitsAgentSqlite.cfg MCLimitsAgent
    tlc -config MCControllerLimits.cfg MCController
    tlc -config MCCollector.cfg MCCollector
    tlc -config MCEndpoints.cfg MCEndpoints
    tlc -config MCAccounts.cfg MCAccounts
    tlc -config MCMetrics.cfg MCMetrics
    tlapm ControllerProofs.tla      # and the other ...Proofs modules

The first line of every `.cfg` says what its instance is.
