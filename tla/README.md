# DBInsight in TLA+

DBInsight watches Prisma applications, stores what their operations execute,
analyses code, SQL, schemas and data, and shows the findings in a dashboard.
This directory holds TLA+ models of the parts of it that have state and
concurrency, the TLC configurations that check them, and proofs checked by
TLAPS. Paths below are relative to the repository.

Run everything from this directory:

    tlc -workers 2 -config Collector.cfg MCCollector.tla
    tlc -workers 2 -config Parts.cfg MCParts.tla
    tlapm CollectorProofs.tla      # and the other *Proofs modules, EventLedger

## 1. The system

| part | state it keeps | operations | talks to | what makes it correct |
|---|---|---|---|---|
| Collector client, `packages/collector` | buffer, timer, queued immediates, batches being sent, counters | `runOperation`, recording of statements, `emit`, `flush`, `stats` | collector service (one POST per batch) | the traced query is untouched; each event is sent at most once, none is stranded, `stats()` adds up, memory is bounded |
| Collector service, `services/api/app.py`, `storage.py` | one connection, a lock, tables `operation` and `statement` | `POST /v1/operations`, reads | collector, results database | 202 means stored; a batch is stored whole; repeating it changes nothing |
| Desktop shell, `apps/desktop` | child processes, `starting` flag, page shown | start, watch, adopt, restart, stop, quit | Docker, API, dashboard (processes and ports) | stops what it started and only that; a failed start can be retried |
| Dashboard API, scans: `services/api/dashboard/app.py`, `scan.py`, `store.py`, `services/api/dbconn.py` | `_scan_lock`, one reconnecting connection, tables `scan` and `finding` | scan, rescan, delete, read | web UI, results database, project fetching | one scan at a time; a scan concludes as `ok` with its findings or as `failed`; deleted stays deleted |
| Project fetching, `project.py` | one folder per user and project | clone, pull, choose a schema | git, scans | a scan reads a whole working copy of the URL it was given |
| Accounts, `services/api/dashboard/auth` | users, codes, sessions, events | register, verify, sign in, reset, resend, sign out | results database, mail | a code is used once, counters never run backwards, sessions end |
| Explanations, `services/api/explain` | cache | look up, ask the model, retry, store | language model | a text is paid for once and shown under the version that wrote it |
| Web UI, `apps/dashboard` | the session cookie, the URL, component state (folder browser, explanation, countdown) | navigate, sign in and out, choose a folder, select a finding, ask for a code | dashboard API | what is on screen belongs to what was last asked for; every request ends with a page |
| Core, `packages/core` and `packages/cli` | none (pure) | parse a schema, locate ORM calls, apply the rules R1 to R5 | analyzers | what is reported is true of the source under analysis, in every run of it |
| Analyzers, `services/analyzers` | none, but for stored profiles and series | fingerprint, N+1, schema divergence, correlation, anomalies, data quality | results database | order-independent grouping, no double counting |
| Experiments, `services/experiments` | sessions, results, ground truth labels | load, ablation, scoring, statistics | everything above | measures what it says it measures |
| Test applications, `apps/blog`, `apps/ecommerce` | their PostgreSQL tables | GET routes with seeded problems, seed scripts | collector, static analysis | each seeded problem is the only one of its route; data is seeded whole or not at all |

Hard behaviours, with their lines in `PROJECT.json` ("hazards"): several
suspended flushes of one collector; replies lost after a commit; a service that
dies inside a transaction; threads that share a child list, or a database
connection with an open transaction; retries that cannot know whether the first
attempt counted; statements and files touched outside a lock; a page put together from several
reads while scans come and go; browser state that outlives the thing it
describes; a static reader that gives up at a depth and must not take that for
an answer.

## 2. Modules

    EventLedger  <--implements--  Collector  (CollectorProofs)
         ^                            ^
      extends                      extends
         |                            |
    DeliveryLedger  <--implements--  RuntimePipeline  (PipelineProofs)

    ScanLedger  <--implements--  ScanService  (ScanProofs)     the scan routes

    DesktopServices (DesktopProofs)                  the desktop shell
    ProjectFiles (ApiProofs)                         working copies of projects
    Explainer (ApiProofs)                            the explanation cache
    AwaitGroups, ArgReader (AnalysisProofs)          the static analysis
    OrmCalls <- BlogApp, EcommerceApp <- TestApps    calls, handlers, requests
                                (AnalysisProofs)
    Seeding (AnalysisProofs)                         the seed scripts
    FolderBrowser, SignIn, FindingsView (WebProofs)  the web UI
    ResendCode

A module in brackets holds the theorems about the one before it (`EventLedger`
has its own).
`MC<name>.tla` holds the instances TLC runs, one `.cfg` for each run.
`MCParts` composes the nine parts of the last lines that share no state
(`ResendCode` has a run of its own).

### EventLedger: what the collector promises

An operation is captured, and settled exactly once, as sent or dropped; it may
be refused only while `MaxBuffer` events are held; the counters of
`CollectorStats` (`types.ts:36-42`) follow the outcomes. Nothing is said about
buffers, timers and flushes.

### Collector: `packages/collector/src/collector.ts`

JavaScript runs to completion, so one action is everything between two returns
to the event loop.

| in the model | in the code |
|---|---|
| `phase`, `statements` | a running `runOperation` and `event.statements` |
| `buffer`, `timer`, `counters` | the fields of those names |
| `immediates` | callbacks queued by `setImmediate` in `emit` |
| `inflight` | one element for each `flush()` suspended on `await this.send(batch)` |
| `drain` | an application's own `await collector.flush()` |
| `fate`, `ended`, `shipped` | history: outcome, statements at the end, statements in the request body |
| `StartOp`, `RecordStatement`, `FinishOp` | `runOperation`, `record`, the `finally` with all of `emit` |
| `TimerFire`, `ImmediateFire`, `FlushCall` | the three callers of `flush`; each clears the timer and takes a batch |
| `SettleBatch` | `send` settles, counters move, the loop takes its next turn |
| `Exit` | the process ends; the timer is unref'd |

A driver call that the operation did not await may record its statement after
the operation ended, even after the event was serialised: `RecordStatement` is
enabled in phase `done`.

### RuntimePipeline: collector, network and collector service

Extends `Collector`: its actions are taken unchanged, and a batch a flush takes
is also put on the wire (`Post`). A send may resolve only if the service
committed the batch and answered (`Answered`); it may reject at any time,
because of the five-second abort. The service side is `storage.py:116-139`, one
action for each statement of the transaction: `BeginIngest`,
`InsertOperations`, `InsertStatements`, `Commit`, with `Rollback`,
`ConnectionLost` and `ServerCrash` between any two. A connection lost while
committing may or may not have committed. `_lock` is the one transaction
`txn`. `/health` and the read API are left out. The collector never retries;
`Redeliver` is the duplicate the service's tests post
(`services/tests/api/test_collector_api.py:67`).

### DeliveryLedger: what collector and service promise together

`EventLedger` and, beside it, the results database: `Store` adds the operations
of one request, at most `MaxBatch` of them, none stored before, each with all the
statements it had executed when it ended; nothing else touches the tables;
`SettleStored` counts an event as sent only if it is stored. A request may be
stored whose events were given up already: the reply was lost. There is no
network in it, no transaction and no repetition: a `Redeliver`, a `Rollback` and
a second commit of the same batch are steps that do not show.

### DesktopServices: `apps/desktop`

`thread` is the thread `begin_start` spawns, with the step of `start_all` it is
at; `processes` every process that was ever started, by the app or by the user;
`children` the list under the Mutex. A step of the thread is one probe, wait or
lock acquisition. The menu (`Restart`), the page (`BeginStart`,
`StopServices`) and quitting (`Quit`, then `Gone`) interleave with it. Services
the user started before the app are in `Init`; a service that finds its port
taken exits (`Boot`). The configured folder is valid and the mode is the
default one, not `dev_server`. The two `docker compose up -d` of a start are
processes of the app as well: the one for PostgreSQL is waited for (`Compose`);
the one for the test applications is "best effort and not waited for"
(`TestApps`): its handle goes to a thread that only waits, it is never in
`children`, and it ends when its containers are up (`TestAppsDone`). Nothing the
app does can stop it, so the two properties about what is held and what a quit
stops name it as the one exception.

### ScanLedger: what the dashboard API promises about scans

What a reader of the tables sees. `life` of a scan is `new`, `running`, `ok`,
`failed` or `gone`; only the active scan makes progress (`Progress`), its
findings are there from the step that makes it `ok` and only then; scans may be
removed at any moment, and nothing leads back from `gone`. `ok` may still become
`failed`: a handler that never heard of its commit reports a failure
(`scan.py:98`), and the findings stay with the row.

### ScanService: the scan routes of the dashboard API

`pc` is the position of each request's handler thread. The centre is the one
connection all handlers share (`dbconn.py`): `Execute` is a statement by
`ReconnectingConnection.execute`, including the second attempt after a lost
connection, of which nobody knows whether the first one counted. While
`ScanStore.finish` has its transaction open, a statement of any other handler
becomes part of it (`View`, `ExecuteOnce`), an error aborts it, and a COMMIT of
an aborted transaction silently rolls back (`CommitTxn`).
`finish` itself is one action per statement; its first step, `BeginTxn`, fails
when the connection cannot be opened again. `Release` is the `finally` of the
routes. Every user has at most one project; evidence layers return or raise.
Reads that cannot change or abort anything are left out.

### ProjectFiles: `services/api/dashboard/project.py`, beside the scan lock

The working copies of one user's Git projects. `resolve` runs before the scan
lock is asked for, so `LookForCopy`, `BeginClone`, `CloneDone`, `CloneFailed`,
`Pull` and `ChooseSchema` of several requests interleave with each other, with
the layers that read the copy (`RunLayersOn`) and with a delete, which removes
the rows and then the folder (`DeleteRows`, `RemoveTree`). `GitTimedOut` is the
kill of `subprocess.run`, `ApiDies` the end of the API, in a clone, a pull or a
removal; all three, and a removal that meets an error, which `rmtree` ignores,
may leave a part of a copy (`CutShort`). A copy is reduced to where it came from,
whether it is whole and who is writing it; the rows of `ScanService` to the
source of the latest scan. `cut` and, of a request, `seen`, `spoilt`, `cloned`,
`unfinished` and `beside` are history: what `CopiesAreWhole` needs to tell the
copies it promises from those the code takes as it finds them.

### Explainer: `services/api/explain`

`cache` has for each rule and evidence the version (prompt and model) its text
was written under. `LookUp`, `CallModel` and `Put` are the three steps of
`_explain_view`; a reply that is no explanation costs one of `1 + retries`
calls; each step may raise, and a write that failed may have been executed.
`RestartApi` starts the API with the same or another version. `answered` and
`again` are history: what was shown, and who asks for it again.

### AwaitGroups: `packages/core/src/analyze/await-groups.ts`

The walk over one statement list, one action for each turn of the loop:
`Interrupt` (no awaited read: the run ends), `Split` (a read that uses a binding
of the run: it ends and the next begins), `Extend`, and `Close`, the `flush()`
after the loop. `chunk`, `bound` and `groups` are the variables of those names.
A statement is its form, what it awaits and the bindings it uses, as plain
identifiers or as shorthand properties; for the latter TypeScript's
`getSymbol` gives the property, so `ReferencesAny` does not see them.

### ArgReader: `readObject`, `readArgs`, R3 and R5

An argument is a stack program: `Push`, `Wrap`, `AddProperty` and `Combine`
build every expression from the forms `readObject` distinguishes. Each
expression carries two meanings, what the reader returns at each depth (`reads`)
and which objects it can be when the program runs (`gives`). The properties
relate the two: soundness and completeness of "has no `take`" and "has no
`where`" over spreads, conditions, constants and the depth limit.

### OrmCalls, BlogApp, EcommerceApp, TestApps

`BlogApp` and `EcommerceApp` give, for each route handler, the calls it issues,
and for each application the indexes of its Prisma schema and the labels of its
ground truth manifest. `OrmCalls` says which statements a call executes and when
R1, R2 and R5 and the run-time detector (`n_plus_one.py`) speak. `TestApps` runs
requests side by side: `Issue`, `Iterate` (one more row of a loop), `NoRows`,
`NotFound` (the handler answers 404 and stops); the detector sees the requests
at every moment. Relations are loaded or not, depending on the rows.

### Seeding: `apps/*/prisma/seed.ts`

Several seeders, each counting one table, then inserting all tables in one
transaction. `Waits` and `Refused` are PostgreSQL's unique and foreign keys as
those inserts meet them; `Interrupted` is a process or a connection that ends.

### FolderBrowser, FindingsView, SignIn, ResendCode: `apps/dashboard`

*FolderBrowser:* `Load` is the effect of `[path, hidden]`, including the abort of
the request before it; `Answer` is the `then`, `catch` and `finally` of a
request. *FindingsView:* a render reads the API in several steps (`ResolveScan`,
`LoadScan`, `LoadFindings`) while scans start, conclude, are abandoned by a
dying API or are removed; `Explain` and `Explained` are the component in the
browser, which stays mounted. *SignIn:* one request goes through `Proxy`,
`RequireUser` and `ReadPage`, or the sign-in, registration and verification
pages; all tabs share the cookie, and a session ends at any moment. The API may
be out of reach, which shows as such, or answer with an error, which
`currentUser` takes for "signed out" (`MeFails`): a live session is then sent to
`/login?expired=1`. `ReturnsWhereHeaded` is about the way over the proxy and the
forms that carry `next`; once the app gives `next` up (that redirect, a
registration, a logout) it says nothing. `NavigationSettles` allows one endless
way: `/v1/auth/me` that fails for the app's pages and answers the sign-in page,
again and again. *ResendCode:* the server's
cooldown and the browser's countdown tick together.

## 3. Runs

| run | instance and bounds | question |
|---|---|---|
| `collector` | 4 operations, batches of 2, buffer 3 | TypeOK, nothing stranded, one holder, limits, exact counters, an awaited flush leaves nothing it owes in the buffer, the ledger is implemented; every event settles and an awaited flush returns |
| `pipeline` | 2 operations, batches of 2, 0 to 2 statements | what is counted as sent is stored; operations and SQL together; batches whole; collector, network and service implement the delivery ledger |
| `desktop` | up to 4 processes, 2 crashes | no service and no awaited command is lost, only own processes are stopped, a quit with no start under way stops all but the background `docker compose`, a retry adopts what runs |
| `scan` | 3 requests of a user, 1 fault | findings match the status, undisturbed scans conclude, one transaction, the scan ledger is implemented, the lock is given back |
| `parts` | 4 statements; arguments of 7 nodes, depth 3; 2 requests, 3 rows; 2 seeders; 5 clicks; 2 findings, 4 scans, listings of 3; 2 tabs, 2 sessions; 2 scanners, 2 URLs of one name, 3 requests; 2 askers, 2 findings, 2 models | R4 moves no read across anything and misses no pair; R3 and R5 speak the truth about absence; the static rules, the run-time detector and the ground truth name the same queries of the test applications; a skipped seeding is complete; the browser chooses what it asked for; the comparison is with the previous scan; signing in leads where the visitor was headed; loading and navigation end; a scan reads a whole copy unless it took a part that another was cloning or that something cut short left; what was explained is not paid for again |

Seven runs show where a sentence of the repository and the code part; each
checks one property that states the sentence, and each is listed under
"findings" with its quotation:

| run | the sentence | what happens |
|---|---|---|
| `desktop_retry` | `services.rs:123`, `main.js:21` "fix it, and try again" | `died` finds the dead child of an earlier start; the live one is reported as not started |
| `desktop_quit` | `lib.rs:4-5` "It stops what it started when it quits." | a quit between `spawn` and `track`, or during the build, leaves a process |
| `scan_delete` | `app.py:227` "Remove one of your projects: its scans, findings" | the delete joins another request's transaction and is rolled back with it |
| `shorthand` | `await-groups.ts:53-54` "no statement uses a binding produced by an earlier one in the run" | a use as a shorthand property, `{ where: { id } }`, is not seen, and R4 suggests `Promise.all` for two dependent reads |
| `explanation` | `Explanation.tsx:32` "Written from the evidence only." | selecting another finding leaves the explanation of the one before next to it |
| `resend` | `parts.tsx:158` "waits out the cooldown the server enforces" | after a second code was sent, the button is offered again at once |
| `project_source` | `dashboard/app.py:180` "Scan a project given as [...] an https Git URL" | a second URL whose name is taken: the folder of the first is read, and the second is recorded as its origin |

A further observation has no run: after a lost reply `dbconn.py` executes a
statement again, and `dbconn.py:12-13` calls that safe; a delete that succeeded
is then answered 404. The model of the scans has this behaviour.
Nor has this one: an error of `/v1/auth/me` sends a live session to a form that
says "Your session ended" (`api.ts:226`, `login/page.tsx:18`), while
`api.ts:221` calls the result null "when signed out (no cookie, expired, or
revoked)"; `MeFails` of `SignIn` is that step.

Two more, on the collector, are not kept as runs because the
sentences can be read either way: the limit `maxBuffer`
(`collector.ts:17`) looks at the buffer, so batches being sent are held on top of
it; and `flush()` (`collector.ts:148`) returns when the buffer is empty although
another flush may still be sending. `ReturnedFlushEmptied` and `WithinLimits`
state what does hold.

Why the bounds suffice. *Collector:* with four operations, batches of two and a
buffer of three there are two concurrent full flushes, a partial batch, an
overflow, and an awaited flush that meets both kinds of other flush. Statements
do not influence the queues, so that run has `MaxStatements = 0`; `pipeline`
has two. *Pipeline:* two operations give both a batch of two, which can be torn,
and two batches that overlap at the service. Faults there are not counted: any
number of crashes, losses and redeliveries is explored, the state space is
finite without a bound. Operations are interchangeable and the run checks only
safety, so symmetry is sound. *Desktop:* four processes are two attempts at
two services, or a build, a failed attempt and its retries; two crashes let both
services fail. The bound on processes makes `Spawn` wait, then the thread can
only fail. *Scan:* three requests give a scan, a request that
falls into its transaction and one that meets the lock or the result; one
fault already reaches every state in which a retry is ambiguous.

*Parts:* a behaviour of `MCParts` is one of one part, while the others rest in
one initial state, so the state spaces add up and each part is explored as it
would be alone. Four statements allow two runs, a split in the middle and a use
that reaches back over a statement. Seven nodes build an object within four
levels of names, conditions or spreads, one more than `MAX_RESOLVE_DEPTH = 3`
allows, beside a second operand (`MaxPending = 2` is what a binary form needs).
Three rows exceed the detector's threshold of two, two and one do not; with two
requests the same route can run twice. Two seeders overlap at each table. Five
clicks allow a request to be overtaken and the dialog to be reopened. With four
scans and a listing of three (50 in the code) the scan on screen, or the one
before it, can fall off the end of the list. Two tabs and two sessions give a
tab a cookie that another tab replaced or cleared.

Two scanners are two clones, a clone and a pull, or a scan and a removal of one
name, and the third request is a scan that follows what they left; two URLs share a
name. Two askers meet on one finding, and two models alternate over restarts.

Deadlock checking is off everywhere: applications exit, the desktop app ends,
requests are all answered, a statement list ends, clicks and scans are
bounded, and then nothing has to happen.

## 4. Fairness

Only where liveness is checked, and weak only.

* `Collector`: due timers and immediates fire (the event loop runs), and every
  `send` settles, by `AbortSignal.timeout(5_000)` at the latest. New operations
  and the application's flushes are not assumed. All of it ends with the process.
* `DesktopServices`: the start thread runs (each of its waits has a deadline),
  and someone who sees the splash screen presses "Try again". Services, Docker
  and the menu are not assumed to do anything.
* `ScanService`: the threads of the handlers run, and an evidence layer returns
  or raises.
* `FolderBrowser`: a `fetch` answers or fails (`BrowserFairness`); the visitor
  does nothing that must happen.
* `SignIn`: the server goes on with every request it was sent (`SignFairness`,
  one condition for each tab: Next.js serves them independently). Nothing is
  assumed of the API's answers; the one endless way is in the property.

## 5. Proofs

Every safety property of the passing runs is also a theorem, and each of the
three refinements; the end of this section says what is left to TLC. Each
proof has the same shape: an inductive invariant, a lemma per action, and the
property as its consequence. The theorems assume nothing but the named
assumptions in the modules of the model.

Proved for every finite set of operations, every `maxBatch >= 1` and
`maxBuffer >= 0` (`CollectorAssumption`, the weakest under which `flush`
terminates: with `maxBatch = 0` its loop takes empty batches for ever):

* `EventLedger`: `LedgerTypeCorrect`, `LedgerAccounted`. The counters are a
  function of the outcomes; the proof counts, step by step, the operations that
  move from one outcome to another (`OneMore`, `Moved`).
* `CollectorProofs`: `CollectorTypeCorrect`, `NothingStranded`, `HeldOnce`,
  `LimitsHold`, `FlushEmpties`, then `CollectorImplementsLedger`, and from it
  and `LedgerAccounted`, `StatsExact`. The refinement is stated with
  `Ledger == INSTANCE EventLedger WITH ...`, whose outcomes and counters are the
  collector's own.

The inductive invariant is `CollectorInv`. The four queue invariants need each
other: that a settled batch leaves no trace needs `OneHolder` (no other flush
holds any of its events), and that `Append` keeps the buffer free of
repetitions needs to know that an operation that is still running is nowhere
yet, which is `FateFollowsPhase`. `ReturnedFlushEmptied` is inductive only with
`OwedWereCaptured`: an event emitted after the call is not one the flush owes.
`NoStrandedEvents` needs no more than the types, but the case of
`SettleBatch` shows why: a loop that leaves events in the buffer has put its
next batch in flight.

The step lemmas are split by action, and a flush's loop turn, which three
actions share, has its own lemma about the queues (`LoopTurnKeepsQueues`) on
top of a lemma on splicing sequences without repetition (`Splice`).

Proved for the same constants and any bound on crashes of the service:

* `PipelineProofs`: `PipelineTypeCorrect`, `PipelineImplementsCollector`,
  `SentIsStoredHolds`, `StoredWholeHolds`, `StoredIsFinalHolds`,
  `PipelineImplementsDelivery`.

`PipelineImplementsCollector` says that the network and the service show the
collector nothing it does not meet alone, so every theorem of `CollectorProofs`
is one of the composition. The inductive invariant is `PipelineInv`. None of the
three storage properties is inductive: a late copy of a batch might bring other
rows than the first. `PostedOnce` rules it out: an operation that was taken from
the buffer is in one batch only, whether that batch is awaited, on the wire, being
inserted or acknowledged, and its request has the SQL it had executed when it
ended (`Taken`; `StepFreezes` is the lemma about the collector). So table
`statement` is a function of table `operation` (`TablesAgree`), and what an open
transaction sees is the committed tables, as the lock leaves them, with its own
batch added (`TxnSeesTables`); a commit then adds a whole batch and takes nothing
away.

`PipelineImplementsDelivery` (`ImplementsDelivery`) sums this up: each step of the
composition is one of `DeliveryLedger` or does not show there (`StepIsDelivery`).
It needs two more invariants: no request holds more than `maxBatch` operations
(`RequestsWithinLimit`), and, of each batch a flush takes, that its loss leaves
the others alone, which is `SettleSettles` of `CollectorProofs`. The step
worth reading is the commit (`PublishStores`): the first of a batch stores it
whole, any later one nothing. `StoredIsFinal` is a consequence, and so is proved
but no longer given to TLC, which checks `ImplementsDelivery`.

Proved for any bounds on processes and crashes:

* `DesktopProofs`: `DesktopTypeCorrect`, `NoProcessIsLost`,
  `UserProcessesAreLeftAlone`, `QuietQuitIsClean`.

The inductive invariant is `DesktopInv`. `OwnProcessesHeld` alone is not
inductive: a second start thread would overwrite the handle of a process the
first has spawned and not yet tracked. `StartingIsThread` rules it out: the flag
`starting` is set exactly while a thread runs, so `begin_start` replaces only an
idle one. `ChildrenAreOwn` and `ThreadHoldsOwn` carry
`OnlyOwnStopped` (`stop_all` reaches nothing else), and `QuietlyGone` says that
after a quiet quit there is no thread left that could spawn anything before the
process has ended. The background `docker compose` is exempted where it is
named, in the properties and in `QuietlyGone`; nothing else is. The steps of the start thread that touch no process share
the lemma `SameProcesses`.

Proved for any requests and users and any number of lost connections and crashes:

* `ScanProofs`: `ScanTypeCorrect`, `OneTransactionHolds`,
  `FindingsMatchStatusHolds`, `UndisturbedScansConcludeHolds`,
  `DeletedNeverReturnsHolds`, `ScanImplementsLedger`.

The inductive invariant is `ScanInv`. The handler inside `ScanStore.finish` holds
`_scan_lock`, so only handlers that take no lock reach its transaction, and they
can only remove rows or make it fail. `TxnInv` says how far the uncommitted table
may then be from the committed one: other scans only deleted, its own row by the
stage of the handler (`OwnRow`), and what is gone from the committed table gone
there too. The last part is what `DeletedNeverReturns` needs, since a commit
replaces the table; `OnlyStartInserts` does the rest.

`UndisturbedScansConclude` leaves out two kinds of scans, the set `disturbed`.
One had its insert or its mark as failed tried twice and the second attempt
raised. The other had its transaction aborted by another request's failing
statement between its last update and its COMMIT, which then rolls back in
silence and leaves the row `running` behind a 201 (the hazard of `app.py:81`).
Without either exemption TLC finds a counterexample. A connection or transaction
lost anywhere else is not exempted: `TxnInv` says that an aborted transaction at
its COMMIT belongs to a disturbed scan, and every earlier step of an aborted one
raises, so its handler marks the row. `FindingsMatchStatus` is about rows that
are ok, running or gone; a failed row may keep findings, when the reply to its
COMMIT was lost.

`ScanImplementsLedger` (`ImplementsScanLedger`) is about committed tables only,
and the whole argument is in one sentence: a step changes the row of the lock's
holder in a way the ledger knows (`OwnMove`), and every other row it leaves alone
or removes (`OnlyHolderWrites`). For the steps inside a transaction the row is
the one its handler left at the stage it has reached, which is `OwnRow` again; for
the others it needs that the lock is in use by whoever is in its critical section
(`LockInUse`), so that the active scan is the one that writes, and that a handler
that has started never comes to an earlier step (`NoneReturns`), so that `gone`
is for good. TLC checks it in place of `DeletedNeverReturns`, which follows.

Proved in `AnalysisProofs`:

* for lists of any length, `NothingIsReorderedHolds`, `SuggestionIsRunnableHolds`,
  `SplitOnlyByDependencyHolds`. The invariant, `AwaitInv`, describes the walk
  half-way: the run under way is an unbroken stretch of awaited reads that reaches
  the last statement walked, `bound` is exactly what that stretch declares, and
  every pair of neighbouring reads is already in a group, still in the run, or
  separated by a use that can be named. The first two together give the third at
  a `Split`: a statement that refers to something bound refers into the unbroken
  stretch above it. Without "exactly" in the second part neither direction is
  inductive: too few bindings let a dependent read in, too many split reads that
  belong together;
* for any resolve depth and arguments of any size, `AbsenceIsRealHolds` and
  `UnboundedIsReportedHolds`. The invariant, `ArgInv`, is about the pending
  expressions: what `readObject` returns for one, at every depth it may be reached
  at, `Covers` the objects the expression can be at run time: no run has a key
  that was not read, and each value read is the one of some run. The induction
  over the expression is the induction over the steps that build it, so it is an
  invariance proof like the others; the lemmas are one for each way to build an
  expression, on top of two on merging (`MergeCovers`) and on branches
  (`BranchCovers`);
* for any number of requests and rows, `FanOutIsSeededHolds` and
  `LayersAgreeHolds`. The invariant, `AppsInv`, accounts for what was counted: a
  statement that is in no loop has a call of its own for each of its first three
  executions (`Attributed`), and the query of a loop ran once for each row walked
  (`LoopCounted`). With it goes a lemma on the handlers, `RouteKinds`: each of
  the 45 either is a list with a query per row, and is labelled as an N+1, or runs
  no statement three times (the threshold is two). Whoever adds a route has to
  prove it of that route, too;
* for the routes as they are, `StaticFindsTheSeededHolds`. Nothing moves here; the
  proof is the reading of the 45 handlers that the ground truth calls for:
  which columns lead an index (`BlogColumns`, `EcommerceColumns`), what the rules
  make of each form of a call by its first indexed column (`IndexedFilter`,
  `UnindexedFilter`, `NoFilter`, `ByKey`), and from it the report of each route.
  `Orders` is the one handler whose filter is not read (`OrdersUnread`);
* for any set of seeders, `SkippedMeansCompleteHolds`. The invariant is the
  property and the types; its one step worth a lemma is `Commit`
  (`CommitStoresAll`), the only one that changes `stored`: it needs the last table
  inserted, and then adds all of them at once.

Proved in `WebProofs`:

* for any number of clicks, `ChooseIsCurrentHolds`: there is at most one request,
  it carries the current `path` and `hidden`, and when nothing is loading or
  failed the listing is that of `path`; the abort keeps the first part, which the
  second needs;
* for any tabs and sessions, `ReturnsWhereHeadedHolds`: while a tab is on the way,
  `headed` is the page it asked for or the `next` it carries, at each of the
  stages of a request. It ends with `next`, at the redirect to
  `/login?expired=1` and at a logout, and never begins at a form that was opened
  without one: the registration form, from which the verification page is reached
  without `next`, has nothing to lose (`RegisterIsPlain`);
* for any number of scans and any limit of the listing, `ComparedIsPreviousHolds`.
  A page resolves its scan, and reads list and findings, while scans start, end
  and go. The invariant, `ViewInv`, rests on `Settled(p, s)`: as long as both are
  there, both succeeded and no scan between them did. Once true it stays true,
  because a scan that is over does not change and the one under way is the
  newest; `ListingSettles` shows that a listing, limited as it is, makes it true
  of what `Previous` picks: scans that were pushed out of the listing are older
  than all it shows (`NewerAreListed`).

Proved in `ApiProofs`:

* for any requests, models and number of retries, `ExplanationsAreKeptHolds`. The
  invariant adds that what the running version has explained is cached under it
  (`AnsweredIsCached`): only a `Put` of the same version can overwrite such a row;
* for any requests, URLs and names, `CopiesAreWholeHolds`. A copy that is not
  whole has somebody cloning it or was cut short (`Accounted`), so a request takes
  a whole copy but for those two causes, and the copy stays so while it waits for
  the lock (`Ready`). Beside no removal, git has the folder it clones into for
  itself (`OwnClone`), and what a request has cloned stays there with its URL
  (`Kept`): the other clone of the same name is refused, and a pull follows the
  remote of the copy. `BesideTogether` keeps scans beside a removal, which the
  property leaves out, apart from the others. `MoveInv` says once for all actions
  what a step of one request must leave to the rest.

Only model-checked:

* the liveness properties, `EveryEventSettles`, `AwaitedFlushReturns`,
  `RetryUsesWhatRuns`, `LockIsReleased`, `LoadingEnds` and `NavigationSettles`:
  fairness and ENABLED are out of the prover's reach;
* `ResendCode`, and the other properties of runs that expect a violation: they
  do not hold.

## 6. Not modelled, and the plan

By size, most of the TypeScript under `apps` is the generated Prisma clients of
the two test applications (21,000 of 29,500 lines): type declarations with no
behaviour of the repository's own, so they have no model and never will.

Of the rest, out of reach or of no use here: the TypeScript compiler's and
SQLGlot's syntax trees, floating-point statistics, page rendering, command lines
that only print, the batch scripts of the studies. `PROJECT.json` gives each
part's status and reason.

Seen while modelling, and left without a property because no text of the
repository says what should happen: `findings/[id]/page.tsx:20` answers "There is
no finding" also when the session ended or the API is out of reach; the scan
dialog picks a schema after two awaits without looking whether the folder is
still the chosen one; the sidebar's status (`app/(app)/layout.tsx:6-10`) shows a running or
failed scan as clean; signing out clears the cookie though the API may still
know the session; listings end at 50 scans.

Next, in this order:

1. `Explainer` against an abstract store (a text is written once per version),
   as `Collector`, `RuntimePipeline` and `ScanService` implement theirs.
2. `Harness`: `poll_until_stable` and `overhead_session` over the collector's
   delivery. `Accounts`: codes, attempts, sessions and throttles as separate statements.
3. Algorithms over small inputs against a reference definition: dataflow of
   `packages/core`, `readWhereFields`, grouping and scoring of correlation,
   schema divergence, merging of anomaly flags, the scorer, the layer order of
   the ablation.

What a recursive definition computes for every input cannot be proved with the
prover at hand (it has no induction over data), so algorithm modules are for
TLC.
