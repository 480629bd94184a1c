# Licensing Master, in TLA+

LicensingMaster is the control plane that sells, counts and times device
licenses for several products. This directory holds the models of it, the TLC
configurations that check them on small instances, and the proofs that hold for
every instance. Source paths are relative to `src/` of the repository;
`service.py` and the other bare names are in `licensing-master/src/`.

## 1. The system

| Component | Code | State | Operations |
|---|---|---|---|
| Tenants and subscriptions | `service.py`, `tables.py` | `tenants`, `subscriptions` | create, patch, suspend, reactivate, delete, record a payment |
| Batch tokens | `service.py` | `batch_tokens` (quota, `seats_consumed`, expiry, revoked) | issue, revoke, check, consume, give back |
| Devices and seats | `service.py` | `device_activations`, one row per `hardware_uuid` | activate (two doors), consume, release, revoke, reinstate |
| Validity and verdicts | `service.py` | `valid_until` of devices and subscriptions, the clock | heartbeat, status, verify |
| Unit of work | `db.py` | the transaction of each request, a connection pool | begin, commit, roll back |
| Failure limiter | `ratelimit.py`, gates in `routers.py`, `auth.py` | two dictionaries per limiter, in one process | `retry_after`, `record_failure`, `clear`, prune |
| Admin authentication | `admin_auth.py`, `auth.py`, `cli.py` | `admin_users`, `admin_sessions` | login, logout, resolve, six CLI commands |
| License keys and activation | `service.py` (`_do_activate`), terminals outside the repository | `license_key` of a device, the installed configuration | mint, rotate, install, present |
| Service tokens | `auth.py`, `service.py` | `service_tokens` | mint, authenticate |
| HTTP surface | `routers.py`, `main.py`, `errors.py`, `envelope.py` | none | dispatch, gates, CSRF header |
| Signed device config | `signer.py`, `service.py` | the signing key | canonicalise, sign, embed |
| Audit log | `service.py` (`_audit`) | `audit_log` | append |
| Operator portal | `licensing-portal/src` | React state | calls of `/admin/*` |
| Migrations, deployment | `licensing-master/alembic`, `deploy.md` | none | run once |

How they interact: a request arrives at a router, is gated by a limiter and an
identity (each on state of its own), and runs one function of `service.py` or
`admin_auth.py` inside one database transaction that commits when the function
returns and rolls back when it raises. Handlers are synchronous, so requests run
in parallel threads; nothing but the database and the limiters' own lock orders
them. The CLI is a second process on the same tables.

What is hard here:

* **Concurrency through the database.** Only `admin_reinstate_device` takes
  `FOR UPDATE`; the other operations read, decide and write under READ COMMITTED.
  Counts, rows and deadlines may be stale when they are used, and operations
  lock rows in different orders.
* **Accounting in two places.** `seats_consumed` of a token and the live rows of
  the device table count the same thing, and seven operations change one or both.
* **Time.** Whole-day verdicts over instants, deadlines moved by four
  operations, idle and absolute lifetimes, windows and lockouts.
* **Check, then report.** The limiter is asked before and told after the slow
  part of a request; a login is verified before and recorded after it.
* **Failure.** Any statement may be the one that raises.
* **Two pools.** Endpoints wait for threads and connections; writes hold one connection
  while they wait for another.
* **Lost answers.** An activation takes effect whether or not the terminal learns of it,
  and an abandoned one may take effect later.
* **A client that does not wait.** The portal sends requests from components that may be
  gone when the answers come.

What makes each part correct is stated as the properties below; `hazards` in
`PROJECT.json` lists what could go wrong, line by line, with the property that
would show it.

## 2. Modules

| Module | What it models |
|---|---|
| `SeatPool` | The promise: coupons with quotas, tenants with limits, one seat per hardware. No tables, no counters. |
| `Licensing` | The four licensing tables and the clock, each operation one atomic step. |
| `MCLicensing` | Symmetry for the instances of `Licensing`. |
| `LicensingTx` | The same operations as the SQL statements of concurrent transactions. EXTENDS `Licensing`: its tables are the committed ones. |
| `MCLicensingTx` | Symmetry for the instances of `LicensingTx`. |
| `FailureLimiter`, `MCFailureLimiter` | One limiter under the overlapping requests of several threads. |
| `AdminAuth`, `MCAdminAuth` | Accounts, TOTP codes and sessions, logins against each other and against the CLI. |
| `Requests`, `MCRequests` | A request between the socket and the service functions: dependencies, thread pool, connection pool, identity, commit, answer. |
| `Activation` | Terminals, the network and license keys around `Licensing`, which it EXTENDS: each activation is the operation of `Licensing` plus the key it mints. EXTENDS `DeviceConfig` for what terminals install. |
| `DeviceConfig` | Pure operators: the payload, its canonical form, signature and envelope; when a signing key lets the service start; the normalisation of a base URL. |
| `MCActivation` | Instance of `Activation`. |
| `Portal`, `MCPortal` | The portal's page against the API, with answers in any order. EXTENDS `DeviceConfig` for the addresses operators type in. |
| `LicensingProofs` | Theorems: the inductive invariant of `Licensing`, its parts, the action properties; deadlines, standing, verdicts; `Licensing` implements `SeatPool`. |
| `LicensingTxProofs` | Theorems: exclusive locks, counters and references under any interleaving of any number of workers. |
| `LicensingSerialProofs` | Theorems: with one worker, `LicensingTx` implements `Licensing`, crashes only in the PATCH and honours payments. EXTENDS `LicensingTxProofs`. |
| `ActivationProofs` | Theorems: activation over a faulty network takes only steps of `Licensing`; at most one installation per machine verifies; a configuration names the tenant that lets its terminal in. EXTENDS `LicensingProofs`. |
| `RequestsProofs` | Theorems: connections and threads held, answers after commits, how many requests a jam takes. |
| `FailureLimiterProofs` | Theorems: the bound on guesses, the cause and the length of a lockout, the bound on memory. |
| `AdminAuthProofs` | Theorems: codes used once, resets that close sessions, sessions that stay dead. |
| `PortalProofs` | Theorems: the page under answers in any order; a host typed without a path of its own reaches one form, at any length. |

### Licensing

`tenant`, `sub`, `tok` and `dev` are the tables; a row that does not exist is a
null record. One action per operation of `service.py` that changes them
(`CreateTenant` ... `Heartbeat`), enabled exactly where the operation succeeds: a
request that raises is rolled back by `db.py` and changes nothing. Operations that
only read (`cp_status`, `cp_verify_device`, listings) are operators on the state:
`DeviceState`, `VerifyDevice`.

Abstracted: names, e-mails, URLs, license keys, `last_seen_at`, the audit log. A
heartbeat stands for one that presents the stored key. A body field of `0` or left
out is the input 0, which `OrDefault` replaces as `body.get(...) or default` does.
The status `ARCHIVED` is never set by a route. Time is counted in ticks,
`TicksPerDay` to a day. (Keys and the heartbeats that present them are the subject of `Activation`.)

The subscription PATCH is not an action here because it never succeeds (section 6).

### LicensingTx

Each worker is a thread with a connection. `pc` is its next statement, `seen` the
rows it has read and still uses, `draft` the row versions it has written and not
committed, which is also the set of rows it has locked, and `share` the rows its
foreign keys refer to. A SELECT reads the committed tables at that instant; an
UPDATE waits for the holder of the row and then sees the row as committed
(READ COMMITTED re-evaluates its WHERE); a DELETE also waits for those who refer
to its row; a cycle of waiters loses one of its transactions.

* Consecutive statements that only read, with no write between them, are one step,
  except where the device row is read: that read decides what follows and is a
  step of its own (`Lookup`).
* A payment is three statements: the reads, the INSERT of its row (`InsertPayment`, which
  only takes a share of the subscription's row for its foreign key; the rows are counted by
  `ledger` when they commit), and the UPDATE of the subscription (`Pay`).
* The clock stands still during a request: `_now()` is read once per operation in
  the code, and a tick is long against a request. Time is the subject of `Licensing`.
* A tenant's or token's slot of the model is not reused while a request for the
  old row is under way (`SlotFree`): the database gives new rows new ids.
* The locking rules (`Wanted`, `Referred`, `Holders`, `WaitsFor`, `Deadlocked`) are
  PostgreSQL's, not the repository's; they are marked external in the map.

### FailureLimiter

`hits` and `locked` are the two dictionaries and `older` the insertion order that
`next(iter(...))` evicts by. Each method runs under the limiter's lock and is one
step: `Enter` is `retry_after`, `Fail` is `record_failure` with its prune,
`Succeed` is `clear`. `trying` holds the attempts that have passed the gate and not
reported yet. The four limiters of the program differ in thresholds, keys and
whether success clears (`Succeed`, the login e-mail) or not (`Pass`), so one model
covers them. `log` is a history variable.

### AdminAuth

A login is three steps: the account is read and both factors verified
(`CheckFactors`), the conditional UPDATE consumes the code and locks the row
(`ConsumeCode`), session and commit (`OpenSession`). A CLI command starts with an
UPDATE of the account's row, so it is one step that waits for a login holding that
row (`Unlocked`); `RevokeSessions` only reads the row and waits for nobody. `Resolve` is the
session's SELECT and the UPDATE of `last_seen_at` in one step: the UPDATE writes that column alone,
so a revocation between the two leaves the row that one after them leaves. Passwords
and secrets are numbered per account, up to `MaxSecrets`. Failed logins write only
an audit row. The fields `pw`, `secret`, `step` and `raced` of a session are history:
what it was opened with, and whether a command on the account came between the
login's check and its session.

### Requests

A request has a list of steps left (`todo`): one `connect` per connection its
dependencies take, `identify`, `handle`. `Steps` is read off the signatures in
`routers.py`: FastAPI enters parameters in order, caches a dependency per request, and
runs each synchronous one on a thread of its pool, so between two steps a request holds
its connections and no thread. `Connect` waits for the engine's pool, `PoolTimeout` is
its limit; after the handler, `Close` and `CommitFails` are the teardown of `db.py` and
`Answer` the response. Whether the answer leaves before or after the teardown differs
between the FastAPI versions that `requirements.txt` admits, so `early` is chosen once
and for all in `Init`. The operation is one step that succeeds or raises. `Revoke` stands
for every way a credential ends: logout, the CLI, a timeout, and for a service token
only the deletion of its tenant, since no operation sets its `is_revoked`. The gate of
`/activate` and `csrf_guard` run on a thread before all this; they hold no connection and
wait for none, so a request enters the model once it has passed them.

### Activation and DeviceConfig

`key` adds the column `license_key` to the device table of `Licensing`: `Ext` for a
device booked by `cp_consume_seat`, otherwise one of the keys `Keys[i]` that stand for
the random strings minted for terminal `i` (`FreshKey` takes one that is neither stored
nor known to it, which `token_urlsafe(32)` does for all purposes). A request of a
terminal is carried out (`Execute`), or given up and then lost or carried out later
(`ExecuteGhost`). `settings` is the environment and signing key the service was started
with, one that passes the check of `config.py` (`Starts`).

What an activation is answered with, and what a terminal has installed, is a configuration: the tenant
it names, the key, and the signed file (`Config`). Of the file the model keeps who signed it and
whether that was over the bytes embedded (`Signed`), computed from the payload of that very
activation. When the signer raises, the request is rolled back (`Signs` in `Accepts`). A terminal
loads its configuration only if the signature is over its bytes and by Ed25519, or by the digest in a
development build (`Genuine`), and works if the tenant it names lets it in (`Works`). The terminal itself is not
in the repository: it behaves as `docs/INTEGRATION.md` sections 4.1, 5 and 6 and
`docs/FRONTEND-REQUIREMENTS.md` section 2.4 ask. Operators and backends go on with the other
operations of `Licensing` (`OthersAct`).

`DeviceConfig` has no state of its own; `Activation` uses it for what is signed and `Portal` for
addresses. A dict is the sequence of its fields in insertion order,
serialisation keeps or sorts it, and a string of an address is a sequence of the pieces
that `_norm_base_url` tells apart.

### Portal

The page is the state of three components; `net` are the requests in flight, each with
the cookie it was sent with, and whether the view (`view`) and the dashboard (`dash`)
that asked are still mounted. `Serve` is the API, `Deliver` what the code after each
`await` does with the answer: state set by an unmounted component is dropped by React,
but what its callbacks ask of components still mounted is done (`onBack`,
`onUnauthorized`, `onLoggedOut`). Forms, modals and messages are left out; the ten
buttons behind `guard()` are one `ChangeClick`, which carries an address when it is the
one that saves the base URL. The session of a login counts from the delivery of its
answer, where the browser has its cookie; it cannot be used before.

## 3. What the runs check

| Run | Shows |
|---|---|
| `Licensing_seats` | `SeatConservation`: counter and table agree through activation, revocation, reinstatement, moves between tenants, deletion. `CapsRespected`, `ReferencesIntact`, `LiveBindingStable`. `ImplementsSeatPool`: the tables refine the abstract pool, a seat being the token a live device is booked on. |
| `Licensing_time` | `HorizonBounded`: no order of payments, heartbeats, activations buys more than one window from now. `StandingConsistent`. `VerdictMatchesDeadline`: the floor over days gives the verdict the instants mean. `RevokedIsFrozen`. |
| `Tx_serial` | One request at a time, the statements of all fourteen operations implement `Licensing!Spec`; only the PATCH answers 500; payments add up. |
| `Tx_seats` | Two requests at a time: row locks are exclusive; `NeverUndercounted`: races lose seats, they never hand one out twice or beyond the quota; `ReferencesIntact`: deleting and re-registering a tenant under activations leaves no orphan. |
| `Tx_live` | `RequestAnswered`: every request ends, in spite of different lock orders. |
| `FailureLimiter` | `GuessesBounded`, `LockedForCause`, `LockoutServed`, `MemoryBounded`. |
| `AdminAuth_login` | `CodeUsedOnce`, `OnlyRacesOutliveReset`. |
| `AdminAuth_sessions` | `DeadStaysDead`: idle, expired, revoked or disabled sessions never come back. |
| `Requests` | `EveryRequestEnds`, `JamNeedsCrowd`: the hold-and-wait of writes ends by the pool's timeout and needs as many requests as there are connections (or one more than threads). `RevocationDrains`: a credential outlives its revocation only in the requests under way. `ToldIsCommitted`, where the framework tears down first. |
| `Activation` | `OneInstallation`: of several installations on one machine at most one verifies, whatever is lost, late or repeated. `TerminalRecovers`: a lost answer does not lock a terminal out; by asking again it gets a key that verifies and a configuration it can load, whichever signing key the service was started with. |
| `Portal` | `SeenIsActedOn`: the buttons act on the tenant shown. `SessionLossNoticed`: nobody goes on working with an ended session. `PortalTypeOK`: nothing of the dashboard survives behind Login. `AddressSettled`: a host typed in with blanks, slashes or the API path is kept as `https://host`, and saving what is shown changes nothing. |
| `Tx_seat_limit` | Ends in a counterexample to `CapsRespected` on purpose: two first activations count before either commits (section 6). |

Every property of a passing run has a mutant next to the definition it changes (`..._OffByOne`,
`..._NoSeat` and so on): the same run refutes the property when the definition is
replaced by its mutant.

### Bounds

* `Licensing_seats`: two tenants, two tokens, three devices; seat limits 1 and 2
  (0 is the default, 1), quotas 1 and 2. Enough for a device to move between tenants, for one tenant with
  two tokens, for a cap to be full while another is not. Time stands still.
* `Licensing_time`: one tenant, one token, one device, ten half-day ticks, windows
  of one and two days, grace of one and two. The device goes through ACTIVE, GRACE
  and EXPIRED, and instants fall inside days. `MaxUntil` stops payments.
* `Tx_*`: two workers (a race of two reads needs two). `Tx_serial` starts from
  empty tables; the concurrent runs start from registered tenants and issued
  tokens (`Stocked`), since creating them first only multiplies states. `Ops` names the
  operations a run mixes: `Tx_seats` those that book and unbook a device, with two
  devices to compete for a token; `Tx_live` those that lock rows in different orders,
  on one row of each table. Suspension and reactivation run only in `Tx_serial`.
* `FailureLimiter`: three keys with room for two, so eviction happens; two threads;
  a lockout of two over a window of one, so an expired key may still be locked;
  `MaxAttempts` and `MaxNow` cap the run.
* `AdminAuth_*`: one account (accounts share nothing but housekeeping), two sessions.
  `AdminAuth_login` has two logins over two TOTP steps; `AdminAuth_sessions` one login
  at a time and a clock long enough for a session to expire and be forgotten.

* `Requests`: three callers on three connections and two threads, so that either pool
  can run out: two writes may hold a connection each while a third request takes the last,
  and threads may all wait for connections. The program has 15 connections and 40 threads;
  what counts is which runs out first and by how many requests. One credential: they
  share nothing.
* `Activation`: one tenant, one token, one seat, one machine with two installations, one at
  each door; four keys each (stored, on its way, installed, and a fresh one); one
  abandoned request at a time; every setting of the signing key. Machines that move between tenants
  are the subject of the theorem `ConfigsNameTheBinding`. Time stands still and payments are out of bounds:
  deadlines are the subject of `Licensing_time`.
* `Portal`: two products with a tenant each, two requests in flight (a late answer and
  the one that overtakes it), two sessions, one address with every blemish typed in;
  `EveryAddressSettles` covers all addresses of up to five pieces.

The runs of `FailureLimiter` and `AdminAuth` stop at their bounds, so deadlock is not
checked there.

### Fairness

`FairSpec` assumes strong fairness of `Serve(p)` for each worker: a thread that has
a request keeps executing statements, and PostgreSQL queues lock requests, so a
statement that keeps becoming able to take its lock gets it in the end. Weak
fairness would be too little, since a lock may be released and taken again. Nothing is assumed of `Begin`: clients need not call.

`Requests`: weak fairness of what follows once a request has its thread (threads run, and
the wait for a connection ends by one or by the timeout), strong fairness of getting
a thread, since threads are handed out in turn and one may be free only now and again.
Nothing is assumed of clients, logins or revocations.

`Activation`: the specification assumes none. `TerminalRecovers` has it as a premise,
`Insists(i)`: the terminal in question asks again while it does not work, and the network does not
lose its every request and every answer (strong fairness of `Ask` while it does not work, `Execute` and
`Receive`). It is not assumed of all terminals at once: two that insist on one machine
take it from each other for ever, and no behaviour would satisfy the rest of the premise.
The retries are the documents' demand on clients, not the repository's code.
The other premises are that operators, other terminals and abandoned requests
leave the terminal alone from some point on, and that it is entitled; until then anything may happen.

`Portal`: every request in flight is answered and the answer handled, if only as an
error of the network. Nothing is assumed of the operator; `SessionLossNoticed` is about one who
keeps asking, over a network that does not turn every refusal into an error.

No other run assumes fairness.

## 4. What is proved

For any number of tenants, tokens, devices, and any inputs (`LicensingProofs`), from
the assumptions in `Licensing` that the null value is no identity, that there are
finitely many devices, and that inputs, defaults and the clock are numbers:

* `TypeCorrect`, `SeatsConserved`, `CapsHold`, `ReferencesHold`: the four invariants of
  `Licensing_seats`. Their conjunction `IInv` is the inductive invariant. None but the
  first is inductive alone: the token cap follows from the guard on
  `seats_consumed` only if the counter equals the set of live devices; a release
  gives the seat back only if the counter is positive, which again is
  `SeatConservation`; and that a deletion keeps it takes `ReferencesIntact`, because
  the tokens that vanish must be exactly those of the devices that vanish. The
  lemmas follow the code: taking a seat (`TakeSeat`), giving it back (`GiveSeat`), moving
  a deadline (`MoveDeadline`), and one lemma per remaining operation.
* `BindingIsStable`, `RevokedStaysFrozen`: the two action properties, from `StepFate`: in one
  step a device takes a seat, gives it back, has its deadline moved while live,
  goes with its tenant, or is left alone.

On top of `IInv`:

* `HorizonHolds`: no deadline lies more than one granted window ahead. Deadlines are set
  from `sub[t].window`, so the strengthening is `WindowsGranted` (a window was given on
  creation or is the default), and `DeadlineFate` says what a step can do to a deadline:
  keep it, set it to a window from now, or drop the row. Only the clock moves `now`,
  and forwards, which keeps every older deadline inside.
* `StandingHolds`: by the five operations on a tenant; `OnlyTenantOps` says that no other step
  touches the standing columns.
* `VerdictHolds`: follows from types alone, but not at sight: `WholeDays` relates the floor of a
  possibly negative quotient to the instants, for any length of a day in ticks.

And the refinement:

* `ImplementsPool`: `Spec => Pool!PoolSpec` under the mapping of `Licensing` (the seat a device holds
  is the token of its live row). `LimitsPositive` strengthens `IInv`, since the pool knows
  a tenant only by its limit. `StepSimulation` has one lemma per kind of step: booking and
  reinstating grant a seat (`GrantsSeat`, where `SeatConservation` turns the guard on the
  counter into the pool's guard on the set of holders), releasing gives it back,
  creation opens, deletion closes, issuing issues; all else is a stutter.

For any number of workers, tenants, tokens and devices, any mix of operations, from empty
tables and from a service in operation (`LicensingTxProofs`), with the additional
assumption `RowsAssumption` that the rows of the four tables have different names:

* `TxTypeCorrect`, `SeatsNeverOversold`, `ReferencesSurviveRaces`: the invariants of
  `Tx_seats`. What they say of committed rows is decided long before a commit, by statements of
  requests that know nothing of each other, so the inductive invariant `IInv` says three
  more things. `Draft(p)`: what each uncommitted row version is next to the row it will replace (a
  counter moves by one, up only within the quota, down only with a live device of that
  token; a device comes to life only with the seat that was taken for it). `Local(p)`: what
  a worker knows at its next statement (the tenant of the token it judged, the device
  it locked, how far a deletion has come). `Apart(p, q)`: no row has two holders, a
  row that somebody's foreign key refers to is not deleted, and a token that is being
  inserted is in nobody's hands. A step that drafts keeps `Draft` and `Local` of the others because
  they speak of committed rows only (`Elsewhere`); a commit keeps them because the rows they
  speak of are locked (`CommitDrafts`, `CommitLocals`). There is one lemma per statement
  of the program, and the commit is argued row by row: `TenantFate`, `TokenFate`,
  `DeviceFate`, then `CommitReferences` and, counting live devices, `CommitCounters`.
* Two details of the code carry this: the conditional UPDATE of `seats_consumed` is
  evaluated under the row's lock, and a release matches only a live row
  (`AND NOT is_revoked`), so a seat goes back once. Without either, `NeverUndercounted` has
  counterexamples; its mutants are of that kind.

For any tenants, tokens, devices and operations, but one worker (`LicensingSerialProofs`; the
hypothesis `Single` is stated in each theorem, since all three fail of two workers):

* `SerialRefinement`, `OnlyPatchCrashes`, `PaymentsAreHonoured`: the properties of `Tx_serial`.
  `IInv` says of a draft only what others rely on; here its exact content matters. `Serial(p)` says it, statement
  by statement, in terms of the tables as they are: what was read still holds (`Judged`:
  the token, the tenant, the subscription), and which row versions are drafted (`Booked`,
  `Released`, `Reinstated`, `Beaten`, and one predicate per operator's request). No lock keeps
  this true; it survives because nobody else commits. One lemma per statement
  leads to the next, and `CommitImplements` finds the operation of `Licensing` in the finished
  draft. That a step finds what it read is also why it does not crash (`StatementKeeps`). For
  payments `Honoured` adds that a tenant that is not there has an empty ledger.
* Together with `SerialRefinement` the theorems about `Licensing` hold of its statements run
  one request at a time. What is left of them when requests overlap is `NeverUndercounted` and
  `ReferencesIntact`; section 6 lists what is lost.

For any terminals, machines and tenants (`ActivationProofs`), from `TerminalAssumption` and
`KeysAssumption` (a terminal's keys are its own, and it never runs out of fresh ones):

* `ActivationRunsLicensing`: `ActSpec => Spec`, so all theorems about `Licensing` hold of it.
* `ActTypeCorrect`, `AtMostOneInstallation`: keys of different terminals are disjoint, so
  two terminals cannot both hold the stored one; that the stored key is one of the terminal's
  at all is the part of `ActTypeOK` that needs every action, `ActInv` with the types
  of `Licensing`.
* `ConfigsNameTheBinding`. It is not inductive: what is on its way to a terminal has to name
  the right tenant before it is installed. `ConfigsBound` says so of replies and installations
  alike: where a key is the stored one, the tenant named is the tenant of the device's row. An activation may
  bind the device elsewhere because it leaves no older configuration with a key that verifies
  (`ActivateSends`, where the disjointness of keys is needed); nobody else moves a device without
  taking the key away (`OthersSend`). With the gate of `cp_verify_device` the theorem follows.
  `ConfigNamesBinding` is stated next to the theorem; the run has one tenant, of which it says nothing.

For any callers and sizes of the two pools (`RequestsProofs`), from `RequestsAssumption`
and finitely many clients:

* `TypeCorrect`, `ToldAfterCommit`, `JamsNeedACrowd`. The strengthening `Staged` ties the
  steps a request has ahead of it to the connections it holds (`Stage`): who waits for a
  connection holds at most one, and a handler that runs holds all it will ever need. The last
  theorem counts: a jam holds every connection or every thread, each by a request in progress.

For any thresholds, keys and threads (`FailureLimiterProofs`), from `SetsAssumption` and
`LimiterAssumption`:

* `GuessesStayBounded`. The strengthening `NotLockedYet` says that a key outside
  `_locked_until` has fewer failures than the maximum, so whoever passes the gate
  leaves room for one attempt of every thread.
* `TypeCorrect`, `MemoryStaysBounded`, `OnlyLockedForCause`, `LockoutsServed`, from a second
  invariant (`DictionariesSound`): the insertion order of the dictionaries is a
  total order of the tracked keys, so evicting its oldest makes room for one, and the
  failures counted for a key are matched one to one with attempts in the log, in the order
  of time, so `max_failures` of them in a window are as many real ones.

For any accounts, sessions and overlapping logins (`AdminAuthProofs`), from `ConstantsAssumption`:

* `TypeCorrect`, `CodesUsedOnce`, `ResetsCloseSessions`, `TheDeadStayDead`. A code is checked and
  consumed in different steps; what makes it safe is that a login that holds the row still has a
  later step than the row (`LoginsSound`), and that no session of the secret in force
  is ahead of `totp_last_step` (`SessionsSound`). A login or session no command has
  raced was checked against the row as it is, which is what the other two need.

For any tenants, products, sessions and number of requests in flight (`PortalProofs`), from
`PortalAssumption`:

* `PortalTypeCorrect`, `WhatIsSeenIsActedOn`. An answer changes the page long after it was asked
  for, so neither is inductive. `PInv` says of each request in flight what the component
  waiting for it shows by now (`Consistent`): where nobody is in, no dashboard waits
  (`Unmounted`); a view that is still mounted waits only for requests about the open tenant
  (`AboutOpen`); a login let in and not yet delivered leaves room for its session
  (`HasRoom`), of which there is one at a time (`OneLogin`). There is one lemma per action, and for
  `Deliver` one per way an answer is handled.
* `AllAddressesSettle`, and with it `AddressesSettle`: what TLC checks of addresses of up to
  `MaxPieces` pieces, for any length. Stripping from either end never reaches the host
  (`StripsFull`), and what is uncovered when the API path is cut off is not another one, since a
  well-formed address has at most one. `AddressesSettle` has the hypothesis `OneHost`, that
  operators type well-formed addresses only: a host, with an optional scheme, blanks, slashes and at
  most one API path, but no path of its own. The run's `Addresses` satisfies it; without it the
  statement is false (section 6). `Addressed` of `PInv` is needed here:
  no tenant is registered without an address.

## 5. Model-checked only, and not modelled

Every invariant and every action property of the passing runs is also a theorem of section 4,
`SerialImplementsLicensing`, `AloneOnlyPatchCrashes` and `PaymentsHonoured` for one worker as
in the run, `AddressSettled` under `OneHost`. Only model-checked:

* Liveness (`RequestAnswered`, `EveryRequestEnds`, `RevocationDrains`, `TerminalRecovers`,
  `SessionLossNoticed`), on the instances of section 3: the prover has neither ENABLED nor the
  proof rules of fairness, so nothing is shown of it for more workers or larger pools.
* The race of `Tx_seat_limit` is a counterexample, found by TLC.

Not modelled:

* The audit log: rows are appended and listed, nothing decides on them. The one place
  where an audit row changes an outcome, the subscription PATCH, is in `LicensingTx`.
* Migrations, container and deployment scripts, which run before the service does.
* The offline cache that `INTEGRATION.md` section 6 asks of clients: there is no code of it here.
* Ed25519, SHA-256 and argon2 themselves; envelopes, error texts, CORS, the CSRF header;
  forms, modals and messages of the portal.

## 6. Where code and documents disagree

One run ends in a violation, `Tx_seat_limit`; `findings` in `PROJECT.json` quotes the sentence
it contradicts. The others show in the models without a run of their own.

In the service:

* Two first activations pass the same count and the tenant exceeds its
  `seat_limit`, which `INTEGRATION.md:25-26` calls "a hard `409`".
* Two activations of one revoked device both consume a seat of the token, and only
  one is ever given back (`INTEGRATION.md:114-115`: "`seats_consumed` ticks up. A revoked device hands
  its seat back."). `SeatConservation` holds in `Licensing` and only its half
  `NeverUndercounted` in `LicensingTx`.
* A row read as revoked is overwritten after another tenant's activation has made it
  live (`Store` matches by `hardware_uuid` alone). The comment at `service.py:688-689`
  says "never hand out (or rotate) the key of a device bound to a different tenant".
  `LiveBindingStable` holds in `Licensing`, not of two overlapping activations.
* Two overlapping payments read the same `valid_until` and one window is lost, although
  `INTEGRATION.md:81` says "`valid_until += window_days`" of each. `PaymentsHonoured`
  holds with one worker.
* The subscription PATCH puts a `datetime` in the JSON payload of its audit row, so it
  always answers 500 and saves nothing (`AuditPatch`); the portal offers it as "Guardar
  cupo" (`App.tsx:429-435`), and `INTEGRATION.md:31` promises a trail. Hence
  `AloneOnlyPatchCrashes`.
* `CpActivate` does not look at the tenant's status, so re-activation through `/cp`
  gives a suspended tenant's device a full window; `INTEGRATION.md:83-84` calls
  suspension a hard stop.
* "Every `/cp/*` call it makes is implicitly that tenant"
  (`INTEGRATION.md:95-96`), but `cp_heartbeat` (`service.py:809-831`) and `cp_release_seat` (`service.py:588-590`)
  act on any `hardware_uuid`, and so does `cp_consume_seat` where it finds a live row and only
  touches `last_seen_at`. A heartbeat gives another tenant's device the caller's window; a
  release takes another tenant's seat away, though from the right token (`SeatConservation`).
* A login past its checks survives the reset that "revokes the admin's sessions"
  (`deploy.md:116-117`): `OnlyRacesOutliveReset` has to except `raced` sessions, and
  `CodeUsedOnce` the codes of a replaced secret.
* `_norm_base_url` says "scheme + host, no trailing slash, no /api/v1"
  (`service.py:85`), but any path other than the API's is kept, also one behind it
  (`https://host/api/v1/x`), and goes into the signed configuration. An address that ends in
  `/api/v1/api/v1` keeps one of the two, and `/` becomes `https:`. `WellFormed` leaves these out of
  `AddressSettled`.
* A heartbeat that has read its device before a revocation commits moves the deadline of the
  revoked device (`Beat` matches by `hardware_uuid` alone). `RevokedIsFrozen` holds in
  `Licensing`, not of overlapping requests; the verdict stays `REVOKED`. A
  reinstatement of an unpaid or suspended tenant's device keeps the deadline it finds, the moved one included.
* No action sets `PAST_DUE`, which `deploy.md:192-193` promises after a missed payment.
* `INTEGRATION.md:31` speaks of "an operator audit trail for every
  tenant/subscription/device mutation". A first activation (`service.py:715-739`) and a
  release through `/cp` (`service.py:588-590`) write no row.
* Where the framework answers before it tears down (`early`), a success may be told of
  a transaction whose commit then fails; `ToldIsCommitted` holds only otherwise.

In the portal:

* "The session is dropped either way" (`App.tsx:122`): when the logout request fails, the
  page shows Login and the session stays alive (`ShowLogin` after an answer other than
  ok leaves `alive` and `cookie`).
* A 401 to a request of an earlier session, or a logout answered late, shows Login to an
  operator who has logged in again; the late logout also deletes the new cookie.
* The list of one tab may be shown under another when their answers change places.
* After a deletion `onBack` closes the view that is open by then, whichever tenant's,
  and loads the list of the tab of the time of the click.
* `guard()` leaves its button enabled: a double click on "Registrar" records two payments.

## 7. Plan

Done: the seat pool, licensing, its transactions, requests and their pools, activation with
keys and a faulty network, the signed configuration, the limiter, admin sessions, the
portal, and the proofs of section 4. Nothing of the plan is left. When the code changes:

* A fix of the races section 6 lists under "In the service" should let `SeatConservation` and
  `CapsRespected` join the invariants of `Tx_seats`, and `LicensingTxProofs` after it.
* If the portal comes to abort its requests or to ignore answers of another session, `Deliver` and
  `ShowLogin` lose the cases section 6 lists under "In the portal".
