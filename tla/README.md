# DFIR-Adhkar: TLA+ models, model checking and proofs

Adhkar is a case-management platform for incident response: a FastAPI backend
over PostgreSQL and Redis, background tasks in every server process, and a
React frontend. This directory holds TLA+ models of the backend's core, the TLC
runs that check them on small instances, and theorems about them that TLAPS
proves for every instance. Paths below are relative to `src/`;
`backend/adhkar/` is left out where it is clear.

## 1. The system

### How it runs

One uvicorn process serves HTTP and websockets on one event loop
(`backend/Dockerfile`), and `main.py` starts five tasks beside it: outbox
publisher, analyzer runner, notification dispatcher, embedding indexer, MaxMind
downloader. Several processes may run against the same database, each with its
own five tasks. Four facts shape every model:

- **A request is a transaction.** `api/deps.py:get_db` opens a session per
  request and commits after the `yield`. PostgreSQL runs at READ COMMITTED: a
  statement sees what is committed when it starts, and requests interleave
  between statements. An UPDATE waits for the transaction that has updated the
  row, and then sees its result. A unique key makes the later of two inserts
  fail once the first commits.
- **The ORM writes differences.** SQLAlchemy sends a column only if it differs
  from the loaded value, and raises `StaleDataError` if the row of an UPDATE is
  gone (of a DELETE it only warns). A decision made on a loaded row may be stale
  when it is written.
- **The database is what looks at most values.** The schemas of the bodies let
  null, long and dangling values through that the tables do not take; the
  flush then fails. What does not *fit* is therefore part of every body below.
- **Redis is outside of the transaction.** A denylist entry or a pub/sub
  message survives the rollback of the transaction that caused it.

### Components

| Component | State | Operations | Module |
|---|---|---|---|
| Case and alert intake (`api/v1/alerts.py`, `cases.py`, `audit.py`) | cases with numbers, alerts with dedup keys and links, audit and outbox rows | ingest, patch, bulk patch, delete, promote, merge; create and delete a case | `CaseIntake` |
| Outbox publisher, live feed (`workers/outbox_publisher.py`, `api/v1/live.py`) | outbox rows, pub/sub subscriptions | poll, publish, commit; connect, forward | `OutboxPublisher` |
| Notifications (`notifications/dispatcher.py`, `api/v1/notifications.py`) | endpoints, rules, deliveries | create, patch, delete, test; dispatch | `NotificationDispatcher` |
| Analyzer jobs (`workers/analyzer_runner.py`, `api/v1/analyzer_jobs.py`) | jobs with status, report, error | enqueue; claim, run, finish | `AnalyzerJobs` |
| Sessions and tokens (`auth/tokens.py`, `api/v1/auth.py`, `api/deps.py`) | sessions, denylists, user, membership | login, refresh, switch, logout, bearer check, account changes | `Sessions` |
| Work in a case (`cases.py`, `attachments.py`, `observables.py`, `case_observables.py`, `observable_import.py`, `case_comments.py`, `portal.py`) | stage and end date; tasks and logs; files with scan status and quarantine; observables; comments, links, shares | patch, bulk patch, delete a case; task calls; register, verdict, delete; import, attach, detach; comment, link, grant, revoke | `CaseWork` |
| Accounts (`users.py`, `mfa.py`, `profiles.py`, `organizations.py`, `api_keys.py`, `gdpr.py`) | users, memberships, MFA secrets, profiles, organizations and what they share, keys | invite, accept, patch, lock, unlock, delete; enrol, confirm, disable, regenerate, reset; profiles, sharings, keys; erase | `Accounts` |
| Library (`kb.py`, `taxonomies.py`, `ttps.py`, `case_pages.py`, `case_comments.py`, `mentions.py`) | runbooks, templates, tags, techniques, pages, comments and mentions | create, patch, clone, delete, apply; import tag by tag; comment, edit, look at mentions | `Library` |
| Views (every GET of `api/v1`, `stats.py`, `search.py`, `audit.py`, exports, reports) | none | one action per statement | `Views`, `CaseViews` |
| Embedding indexer and similar cases (`workers/embedding_indexer.py`, `similarity.py`) | embeddings of closed cases | query, embed, backfill; search | `Indexer` |

How they interact: every mutation of a case or an alert that calls
`audit_and_emit` leaves an outbox row in its own transaction; the publisher
sends it to a Redis channel of its organization; the websocket of a client and
the dispatcher of each process hear the channel. The models meet at these
interfaces: a row that `CaseIntake` commits is a `BeginMutation`/`EndMutation`
of `OutboxPublisher`, and the messages that reach `NotificationDispatcher` are
what `OutboxPublisher` promises through `EventFeed`: at least once, possibly
more often.

Every writer and every view works on the same tables, which `Tables` has as one
set of rows; `BackOffice` puts the requests of accounts, library and views and
the indexers beside each other on it. `CaseIntake`, `CaseWork` and `Sessions`
model the same kind of request in more detail (statements and locks in
`CaseIntake` and `Sessions`, all columns of a case in `CaseWork`), each for its
own tables.

### What is hard here

- Read, decide, write in several statements without locks: case numbers, dedup
  keys, promotion, claims of jobs, selection of outbox rows.
- Two stores that are not committed together: marks and messages, sessions and
  denylist.
- One transaction for several outside effects: a batch of messages, the POSTs
  of an event, a batch of jobs.
- Rows read before an await and used after it: rules and endpoints during
  POSTs, jobs during an analysis, permissions in a token.
- Views that make several statements, and clients that put several answers
  together: a poll by `updated_since`, pages by offset, a count of what is new.
- A rollback in the middle of a handler that goes on (`import_misp_taxonomy`).
- Rules between rows that only some calls check: a child of a deleted case, a
  log of a deleted task, a comment behind a revoked share.
- The response leaves before the commit. FastAPI 0.137.1 (`backend/uv.lock`)
  runs the exit of a `yield` dependency after the response was sent, so a
  client may use what it received before it is committed.

## 2. Modules

Every process (a request, a publisher, a dispatcher, a runner) has a program
counter and local variables; an action is what runs between two awaits that let
others see or change shared state. Every specification has an inductive
invariant `IInv`, a conjunction of named parts, and its proofs are in
`<Module>Proofs`; `MC<Module>` has the instance TLC checks.

### CaseIntake, implementing CaseRegister

A request is loaded (`...Load`, with the guards of its handler), then numbers a
case if it must (`NextNumber`), and its last step does the remaining writes,
the audit row and the commit (`...Write`). `create_case` retries a taken number
at most `MaxAttempts` times (three in the code), `promote_alert` does not. An
UPDATE of a row that was deleted meanwhile ends the request as `stale`, a taken
unique key as `clash`. `Dirty` is the ORM's comparison with the loaded value.

`Bodies` is what the tables make of a body. `create_case` takes any
`IntegrityError` for a lost race (`Violates`): an assignee who is no user breaks
a foreign key in every attempt, and the call ends with
`case_number_assignment_failed` on a quiet organization. A value that a column
refuses (a null in `patch_alert` and `bulk_patch_alerts`; a status, title or
outcome longer than its column; a NUL) is caught by nobody (`RefusedWrite`).

`CaseRegister` is the promise: each organization has a register, an entry gets
the next number in the step that creates it, and no entry changes. `CaseIntake`
refines it, although the number is read in an earlier statement.

Properties: `Deduplicated`, dense numbers and tenant links (parts of `IInv`),
`FailuresHaveReasons` (giving up needs as many winners as attempts or an unknown
assignee, and a call whose body fits never sees a race when it is alone),
`TransactionalOutbox`, `LinksAndDeletionsStick`.

### OutboxPublisher, implementing EventFeed

`Poll` selects the oldest unpublished rows without a lock, `Publish` sends one
to Redis, `CommitBatch` commits the marks; `FailBatch` and `Crash` roll them
back after messages have left. `created_at` is the start of the mutation's
transaction, so a row may commit late. A websocket task is accepted,
subscribes (`Connect`), and forwards what Redis has queued for it.

`EventFeed` is the promise: record, send what is recorded at least once, close
what was sent, and everything recorded is sent in the end.

Properties: published implies sent and sent implies committed (in `IInv`),
`RealTimeOrder`, `ResentOnlyIfLost`, `ImplementsFeed` (with its liveness: what
is recorded is sent and closed in the end), `ConnectedClientHears`.

### NotificationDispatcher

`Take` selects the rules of the organization that are on; for each matching
rule and endpoint `Lookup` selects the endpoint and `Post` sends. Delivery rows
are added to the session and inserted by the autoflush of the next select or by
the commit; only an inserted row is checked against, and locks, its rule and
endpoint. Administrators create, patch, delete and test meanwhile. `PostRaises`
is a configuration on which httpx raises something other than an `HTTPError`,
which is all `_post_webhook` catches; the event is then rolled back
(`AbortEvent`).

Properties: deliveries keep their rule and endpoint and stay in their
organization (in `IInv`), `LostWithReason`, `NeverRepeated`, `OffStaysSilent`,
`Notified`.

### AnalyzerJobs

`SelectBatch`, `Claim`, then per job `Load` and `Finish`. `Unsaved` is an
outcome the database refuses (`error_message` has 2000 characters), which
raises out of the batch. `window` remembers which runners had selected a job
when it was first claimed.

Properties: outcomes are kept, jobs are shared only in the claim window (in
`IInv`), `StuckWithReason`, `ResultsMixOnlyIfShared`, `EveryJobSettles`.

### Sessions, implementing SessionRegister

A request issues at most one pair of tokens, so the pair carries its name.
`Gate` is the denylist check; `Rotate` is the conditional UPDATE of
`rotate_refresh`, whose row count decides between two refreshes; `DenyAccess`
and `DenyRefresh` write to Redis; `Answer` sends the response and `Commit`
commits, in that order. `Die` is a failure at any point: the database rolls
back, Redis does not. Account requests load a row, wait for its lock and write
what differs. `switch_org` denies the access token only: its session stays
active.

`SessionRegister` is the promise: a session opens once and ends once, and one
that continues another opens in the step that ends its predecessor.

Properties: one holder per row, one exchange per refresh token, permissions of
the token's own organization (in `IInv`), `LogoutEnds` (final once answered,
even if never committed), `RefusedWithReason` (a client that waits for each
commit is never refused), `EveryRequestEnds` (no deadlock on rows).

### CaseWork

The calls of analysts, of the virus scanner and of invited outsiders on the
cases of one organization. All committed rows are one record `db`. A request
checks the case in its path (`CheckCase`), reads the rows it is about (`Read`,
with `Wanted` for the 404 and 403 of its handler), and writes and commits in
one step (one action per handler), computing from `seen`, the rows as it read
them. `Updated` sends only what differs from `seen`. One step for write and
commit loses no behaviour: a handler here writes in one flush, a second writer
of a row waits for the first to commit, nobody reads what is not committed,
and so the order of writes to a row is the order of commits.

Rows are named after the request that inserts them. Cases and observables are
deleted by `deleted_at`, so their later UPDATE succeeds; of other rows an
UPDATE fails, unless it was a batch (`Batch`: the ORM checks the count of a
batch only with drivers that report it, so both outcomes are allowed). A task
cannot be deleted while logs or files refer to it (`Unreferenced`), nor get one
when it is gone. `trail` is what the audit records say of the place of
observables; a record holds the first `AuditedIds` ids only (50 in the code,
and at least one, which the record of a single move needs); the lists of ids
are of any finite length.
An import is modelled with one row of its CSV. It looks for the whole value but
stores what the columns hold of it (`Stored`, any function that changes nothing
the second time), so a longer value never finds its twin. `log`, `checkedAt` and
`readAt` are history: the order of commits, and how many there were when a
request looked.

A body that does not fit (`Fits`) fails at the flush with 500 (`RefusedBody`),
unless no row gets it (`UnwrittenBody`). `stage`, `order_index` and the other
columns that must be set may be sent as null (`cases.py:80`, 807), an assignee
may be no user (`cases.py:83`, 794, 805; `models/case.py:35`,
`models/task.py:28`), a `group` or an observable too long (`cases.py:791`,
`observables.py:45`), an `order_index` or the size of a file too large
(`cases.py:796`, `attachments.py:154`, both 32 bits), and a text may have a NUL.

Each property says what holds and names its exceptions, all of which TLC
reaches:

- `ClosedIsDated`: a closed case has an end date, unless a call cleared it
  after the closing, or overtook a closing that had read the old date.
- `ReorderIsKept`: the tasks of a list are in the order of their last places in
  it, as long as no other change of an index overtook the reorder.
- `InfectedIsQuarantined`: unless the last word was a person's (`set_av_scan`
  does not quarantine), or a clean and an infected verdict overlapped.
- `PlacementFollowsAudit`: an observable is where its last record says, unless
  it was in a list too long for the record; and what is taken out of a case was
  put there.
- `ImportsDoNotRepeat`: two imports of one observable into a case overlapped
  (no unique key forbids the second), or the later is of a value longer than
  its column.
- `NothingJoinsADeletedCase`: a row joins a deleted case only if its call found
  the case before. Task routes and the portal do not look at the case; they are
  outside of the property.
- `OutsidersAreInvited`: a portal comment follows a grant that allowed it, and
  no revocation before the share was checked. The unique key makes a revoked
  share final: it is not granted again but refused with 409.
- `ErrorsHaveReasons`: a 500 or 409 has another call, before or at once, that
  explains it; only a body that does not fit fails alone.
- `IInv`: types, foreign keys and the parts the proofs need (section 4).

### BackOffice: Tables, Accounts, Library, Views, CaseViews, Indexer

`Tables` is what is common to the requests. A row has the columns that handlers
and queries tell apart (`table`, `org`, `under`: the row it belongs to, `name`:
what is unique about it, `state`: what handlers change, `gone`, `at`:
`updated_at`, `by`). `UniqueOn` has the unique constraints of the migrations,
`ForeignKeys` the references.

- *A request that writes* takes two steps. `Read` is the part of its handler
  that loads what the call is about (`seen`); the second step decides on what
  was seen, in the order of the handler's conditions, and flushes and commits on
  what is in the tables by then. Others commit in between. One step for flush
  and commit loses no behaviour, for the reasons given for `CaseWork`. `Insert`
  is refused by a unique key or a foreign key (`clash` is what the handler
  answers then: 409 where it catches `IntegrityError`, 500 where it does not)
  and fails with 500 on a value that does not fit (`Fits`); `Update` sends what
  differs from `seen`, with `updated_at` of the tables that have `onupdate`;
  `Delete` is refused while a row refers to the one that goes.
- *What does not fit* depends on the handler: in patches a null for a column that
  must be set (`kb.py:53-57`, 318-328; `observables.py:57-64`; `cases.py:80`), in
  `patch_case` an unknown assignee too, and everywhere what is longer than its
  column or has a NUL: labels, names and display names that no schema bounds, the
  title of a clone with its "(copy)" (`kb.py`), the title that `apply_template`
  makes with the prefix and the groups of its tasks, the tags of an import. No
  handler catches these errors: where one catches `IntegrityError`
  (`kb.py:160`, `ttps.py:213`, `case_pages.py:126`, `taxonomies.py:107`), a value
  that is too long is a `DataError`. `patch_user` writes its name before it reads
  the profile, so the SELECT flushes it. A view whose filter has a NUL fails at
  the statement that has it (`RefuseView`), if it comes to that.
- *A request that only reads* takes a step per statement, each on what is
  committed by then (`Answer`). A statement is the set of the results it may
  have: a LIMIT without ORDER BY, or one that cuts through equal times, leaves
  the database a choice (`Some`, `Page`). `AnswerIf` is a view that looks a row
  up first and answers 404 without it. Filters of the query string are
  `call.match`: any set of rows. A CSV, a count or a report is modelled by the
  rows it is made of, since that is what the properties are about.
- `import_misp_taxonomy` is the one writer with more steps: it flushes tag by
  tag, and its `rollback` for a tag that is there undoes the tags before it
  (`Staged`), while they stay counted (`Counted`). A tag that is too long ends the
  import, after others may have waited for it (`GiveUp`). Another insert of the
  same tag waits for it (`Waits`); of two imports that wait for each other
  PostgreSQL ends one (`ImportDeadlock`).
- `Indexer`: each process selects the closed cases changed last (`Query`:
  `Window` of them, of which `Batch` without an embedding are taken) and
  commits their embeddings at once (`Index`): the unique key undoes the batch
  if another process has embedded one of them. `LoseRound` is a round that
  fails. `Backfill` is the script that migration 0014 leaves to the operator.
  Where that migration found no pgvector (`vectors = Null`), the first
  statement of `search_similar_cases` fails, and its second is sent in the
  transaction that the failure aborted: 500.

Which module has which handlers is said in the head of each; `map` in
`PROJECT.json` has the lines. Properties:

- `IInv`: types; no two rows with the same unique columns, no row that refers
  to one that is not there, what is written about a case is of its
  organization; and the parts the proof needs.
- `AnswersAreConfined`: whatever is committed between its statements, a view
  answers with rows of the caller's organization, with nothing that was deleted
  before it began and, if it is about one case, only if that was not. Its
  exceptions are sets of views that do not ask (`AnyOrganization`, `Anyhow`),
  and the caller, whose access token outlives the deletion of the account.
- `NothingIsMissed`: what a client follows by asking again. A poll by
  `updated_since` misses a row only if the row's writer began before the
  latest `updated_at` of the earlier answer and committed after that answer; a
  mention is not counted as unread only if a look at the mentions ended after
  its transaction began; of two pages of
  the audit log nothing is on neither, but for ties and the limit. The
  exceptions are what the code does, and TLC reaches them.
- `OverwritesNeedOverlap`: a lock, an erasure and an enrolment are undone only
  by requests that were meant to, or that overlapped them.
- `AnswersAreTrue`: a request that fits fails with 500 only if another was under
  way; it is told that its name is taken only if it saw a row of that table with
  the name, or another was under way; a tag counted as imported is there, unless
  a later one of the same import was taken or it was deleted. `Uncaught` names
  the handlers that fail alone with a request that fits (section 5).
- `Indexed`: a closed case that stays among the `Window` changed last gets its
  embedding.

## 3. Runs

Passing runs; "states" are distinct states.

| Run | Instance | States |
|---|---|---|
| `MCCaseIntake` | 3 requests of any kind, 2 organizations, 2 dedup keys, 2 attempts, bodies that fit or not, symmetry | 429,482 |
| `MCOutboxPublisher` | 2 rows of 2 organizations, 2 processes, batch of 1, 1 client, 2 failures | 104,906 |
| `MCNotificationDispatcher` | 1 rule, 2 endpoints, 2 events, 1 dispatcher, 5 administrator calls, 1 failure | 474,893 |
| `MCAnalyzerJobs` | 3 jobs, 2 runners, batch of 2, 1 failure | 334,563 |
| `MCCaseWork` | 3 requests of one of 10 kinds of traffic, 2 cases, 3 tasks, 1 file, 2 observables, 3 values of which one is too long, 2 users, 1 id per audit record, symmetry | 1,041,026 |
| `MCBackOffice` | 2 to 4 requests of kinds that meet, 2 organizations with a row or two in every table, 3 rows a request, 2 indexers with a window of 2 and batches of 1, 1 lost round | 45,076 |
| `MCSessions` | 3 requests (any kind; refresh, logout or reset; refresh or call), 2 organizations, 1 death | 245,956 |

Why the bounds are enough for the interesting cases:

- Intake: three requests are one alert and two racing writers of it, or a
  number taken twice so that two attempts are exhausted. A second organization
  is there to be crossed. The real three attempts change only how many winners
  giving up needs; the theorems hold for any number.
- Outbox: batch 1 of 2 rows makes the limit bite, two processes make
  duplicates, two failures let the second undo the recovery from the first.
- Notifications: two endpoints are a POST that is recorded and one that fails
  after it; five calls create both, the rule, and leave two to race. A second
  dispatcher would only share the tables; the theorems cover any number.
- Analyzer: three jobs in batches of two leave one that can be overtaken.
- Sessions: two requests race for a cookie while the third presents a token one
  of them has used up or just issued. The organizations are interchangeable, so
  `MCInit` keeps one of each two mirror images of the start.

- Back office: `Traffic` is the list of calls made together, 994 of them. Every
  view runs beside each of five writers that change, hide or add what it lists
  (a deleted case, a comment with mentions, a changed and a deleted observable,
  a deleted user), so that the writer falls between any two of its statements;
  every poll has the earlier poll, a writer and the next; pages of the audit log
  have two that write; handlers of one table run in pairs, each two of a list
  once, since the interleaving decides who is first; erasures, imports,
  invitations, locks and enrolments in threes and fours; every kind of body that
  may not fit alone and beside the same call that does. Four is what a property
  needs at most (two imports, a single entry and a deletion). Every
  organization-wide table has a row of the other organization or one that refers
  to it, so that a dropped condition shows. Window 2 of up to three closed cases
  leaves one out, batch 1 makes the unique key and the limit bite, two processes
  race. The database without the vector column (`MCInit`) is there only in the
  traffic with a search, the one that asks for it. The theorems assume none of
  this.
- Work in a case: each property has at most three actors (two that race and one
  that shows it). A request is chosen from one kind of traffic together with the
  others (`Traffic`: closing, ordering, tasks, references to tasks, files,
  observables, imports, comments, shares, links), since calls of different kinds
  write different rows; the deletion of the case is in most of them. One id per
  audit record makes a list of two too long. The theorems assume none of this.

Symmetry is used in `MCCaseIntake` and, over the two requests that no call names,
in `MCCaseWork`; neither checks liveness. Deadlock
checking is off in all runs: requests, events and jobs are finite, and a system
that has answered them stops.

Violation runs, each one property that a document, comment or test of the
repository states and the code does not keep:

| Run | What TLC finds |
|---|---|
| `IntakeOnePromotion` | two overlapping promotions of an alert both succeed; the first case loses its alert |
| `IntakeUpsert` | two overlapping ingestions of a new key: the second fails instead of updating |
| `NotifyEachRecorded` | an endpoint whose POST raises, or that is deleted meanwhile, takes the records of the whole event with it |
| `SessionsRefreshPermissions` | the access token a refresh answers with has no permissions |
| `SessionsPasswordChange` | the right current password is refused: the arguments of `verify_password` are swapped |

### Fairness

- Requests: weak fairness on each step of a request that has begun (the event
  loop runs it, database and Redis answer). Nothing is assumed about which
  requests are sent, and none about `Die`.
- Tasks: weak fairness on the steps of each loop; statements, POSTs (10 s) and
  analyzers have timeouts, and the loops catch what an iteration raises and
  sleep.
- `Restart`: a process that crashed comes back. `deploy/docker-compose.yml`
  does not set a restart policy for the backend, so this is the orchestrator's
  or the operator's part. Crashes are bounded.
- Indexer: weak fairness on `Query` and `Index` of each process: its loop has a
  round every minute and catches what a round raises. None on `Backfill`, which
  is a person's, and none on the requests of `BackOffice`, whose only liveness
  property is about the indexer.
- No strong fairness, and none for websocket clients to connect.

### Modelling assumptions

- Two transactions do not start in the same microsecond (`created_at`).
- A re-ingested alert carries new content, so its row is written.
- The rows of one bulk call are modelled with one event per type.
- A handler that answers with a row it has updated succeeds
  (`backend/tests/integration/test_cases_crud.py` patches and reads back).
- What fits is said of a call as a whole, once and for all: of the rows it copies
  from (a template, a page that is cloned) as well as of its body. A body that
  does not fit may fail as late as the flush or as early as a lookup that has its
  value, so a view or an import that does not fit may also answer. Names by which
  rows are told apart (slugs, addresses, techniques) are such as the database
  takes. An import of tags that does not fit has its bad tag after the others,
  since nothing that would follow is reached.
- Sessions: one user; tokens do not expire during the run; a bearer is a JWT;
  signatures are right; the password policy (length, strength, breach list) is
  a nondeterministic answer; a reset link exists. Password hashing is injective
  and `Verify(stored, plain)` compares with the hash, so a plain password in
  the place of the hash verifies nothing.
- What an analyzer or a webhook answers is nondeterministic.
- Back office: a code proves the seed of one enrolment, or nothing; an
  invitation token is not expired; passwords are right or wrong; the mentions in
  a text are an input; the score of a similar case is left out, and with it the
  order it gives, since any choice of the limit is allowed. Two requests do not
  begin at the same time. Callers are users that were there at the start, of
  whom `PlacesStay` says that their row is never removed; what was there at the
  start is older than the first request (`FirstAssumption`), and there are
  finitely many such rows and requests (`IdsAssumption`), so that a limit can
  cut them. A foreign key of such a row leads to a table that the migrations let
  foreign keys refer to (`Referred`), and the address that an erased user is left
  with, in the domain `redacted.invalid`, is none that `EmailStr` takes for an
  invitation (`EmailAssumption`).

## 4. Proofs

The proof modules have no bound: any number of requests, organizations,
processes, batch sizes, attempts and failures. Each proves `Init => IInv`, one
lemma per action that it preserves `IInv`, and from these `Spec => []IInv`; the
other theorems follow from a conjunct of it or, for action properties and
refinements, from `IInv` and one case per action. The assumptions are the named
ones on the constants in each module.

Why the invariants are strengthened:

- `CaseIntake`: unique numbers alone are not inductive. A request about to
  insert number n has seen 1..n-1 taken (`Numbering`), numbers are never taken
  back, and so what it inserts is either refused by the unique key or is the
  next number: no gaps, and a step of `CaseRegister`. `Linking` keeps the rows
  a request holds in its organization (`TablesInv`). That a failure has a reason
  is about what overlapped: `HistoryInv` says that requests in flight together
  overlap (`Meeting`), that what a request loaded or counted is as it was or was
  changed by one that overlaps it (`Loading`), that a link has the request that
  made it and the others that wanted the alert overlapped that one
  (`LinksHaveAuthors`), and that each number a create tried was taken and is
  above the one before (`Attempts`); the rows that took them are counted by an
  injection from the interval of numbers into the rows. In the proofs `Fits`
  says what a commit may do to the tables and the outbox, `Tries` what a step
  without a commit may do, and each action is one of the two (`StepExplained`).
- `OutboxPublisher`: a batch that holds a row holds every never-sent row that
  committed before that row's transaction began (`Holding`), since it took the
  oldest; that gives the real-time order. `Counted` ties sends to lost
  iterations.
- `NotificationDispatcher`: what a dispatcher works on belongs to its event's
  organization and has been on since it was taken (`AtWork`); inserted rows
  have parents because they lock them. A bound on POSTs is not inductive:
  `Counted` says that each publication a process was handed is in its inbox, is
  the event at hand and still due for the rule and the endpoint, or has had its
  POST; `NamedOnce`, that no rule is taken twice.
- `AnalyzerJobs`: `OneRun` says that a job nobody shares has one runner in its
  window and no outcome while that one runs.
- `Sessions`: `OneHolder` makes the conditional UPDATE exclusive until its
  commit; `WhatRequestsLeave` gives each revoked row and each denied token the
  request that did it, and `WhereRequestsAre` what a request has done by the
  label it is at (a logout has denied both tokens before it answers).

- `CaseWork`: that a request found its case before the deletion is a statement
  about the past; it is inductive together with `HistoryShows` (what was
  deleted, revoked or granted shows in the rows, since `gone` and `revoked` are
  never undone) and `CommitOrder` (the log lists each commit once, so a place
  in it never changes). `Written` in the proofs reduces the writing actions
  to what they do to deletions and shares. This is `CoreInv`.

  The other properties say that something is so unless calls of certain kinds
  came in a certain order. The invariant for them has two parts. `Grounded`: of
  any commits one is the last (an invariant, since the set of commits grows by
  one at a time), what a row says was put there by a request that is done, and
  what a request is about was there when it read. `Explained`: if a row is not
  as a waiting request read it, a commit since made the difference, and if an
  effect of a request that is done is gone, a commit since *its read* undid it.
  From the last of all calls that quarantined a file, say, follows the clean
  verdict that released it, and from that one either an overlap or nothing that
  called the file infected later but a person. For the audit log, what is read
  and what is written are joined by `MovedSince`: the last record of the
  observable is newer than the read. For imports, `Lasting` rows are seen by
  every request that reads after their commit, so a second import that read
  later would have found its twin. In the proofs every step is `Calm` (it
  commits nothing, and what it reads are the rows of now) or `Grown` (one
  commit) with the `Effects` of its handler, so each part needs two lemmas.
  `IInv` is `CoreInv`, `Grounded` and `Explained`, and TLC checks all three.

- `BackOffice`: that rows keep to their constraints is not inductive alone. A
  deletion or an update is decided on what was read, so the proof needs that a
  row that was read stays in its table, organization and place as long as it is
  there, and that some tables lose no rows (`PlacesStay`): a member of an
  organization, a case or an observable that a handler found is still there
  when it writes. An import commits without a check of its own, because each
  row was checked when it was flushed; that this is enough is `StagedAreFresh`:
  what it has staged is unlike what is committed and what any other import has
  staged, which holds because the others wait for it. `AtHome` (comments, logs
  and tasks are of the organization of what they are under) is what the views
  rely on that ask by the case alone.

  That a view answers with rows of the caller's organization compares what was
  answered with what was read then, while rows change and go. `TenantIInv` says
  of each answered row that it is the caller, or that it once was there, so that
  its place is never used again (`Known`), and is of the tenant both as it was
  and, if still there, as it is. For the views that ask by the case or the task
  alone it adds that this was found and is of the organization (`Entered`), and
  for the similarity search that only cases have an embedding
  (`EmbeddedAreCases`). What others commit disturbs none of this, because no
  handler moves a row.

  That it answers with nothing deleted before it began compares times of
  several requests, and a deleted row is one more row with `gone` set. Three
  facts carry it. `Follows` (in `PlacesStay`): a row that was read and is gone
  stays gone, so what a waiting request has decided to write cannot bring it
  back. `DeletionsShow`: when a request that deletes is done, its row is marked
  as gone from then on, so a statement that asks for it leaves the row out.
  `BegunByNow`, and `Punctual` for each step: no request began later than the
  clock says, and a deletion ends when it is committed. `TenantIInv` then says of
  each answered row (`Proper`), and of the case a view is about, that no request
  deleted it before the view began; a later commit cannot make this false,
  because it ends after the view began.

  That an overwritten state needs an overlap is about rows that a request read
  before others committed. `OverwriteIInv` says what a row that a waiting request
  read still tells. An account seen locked is locked, unless somebody reopened it
  since (`LockHolds`): the ORM sends no UPDATE for a column that already had its
  value, so a lock may commit without one. An invitation that can be accepted was
  read before every lock of the account that nobody undid (`AcceptsAreEarly`). A
  seed is the one that was read, unless another enrolment committed since, and is
  confirmed only if a confirmation did (`SeedsAreSeen`). What an erased user wrote
  is erased, unless it is newer or was edited since (`ErasedStays`). A seed's name
  is a request that enrolled and is done (`SeedsAreDrawn`), which is the one place
  where the proof needs an assumption on what there is at the start
  (`SeedAssumption`). Each handler is first reduced to what it does to accounts,
  seeds and texts (`Tells`: it is `Idle`, or `Committed` with these `Effects`), and
  each part of the invariant then has one lemma for a commit and one for the
  steps that commit nothing (`Passive`).

  That a client misses nothing compares the answers of two requests, and they
  are done: no invariant of what is there now says anything about them.
  `FollowIInv` keeps in mind what a request `p` read, next to the rows of now
  and to those that a later request read which was asked to go on from `p`
  (`Recalls`). A row is where `p` read it; an audit record that `p` read is
  there; a row whose `updated_at` is maintained (`Stamped`) and that is not as
  `p` read it has the time at which a request began that committed after `p`
  began. That last part is the heart of it: `onupdate=now()` is the time of the
  transaction, so the mark a poll goes by is older than the commit it marks.
  For mentions, the time of a user's last look is that of the start or not
  later than the end of a request that looked (`Visited`), in the rows of now
  and in those that anybody read. What an answer has is said by `Replied`: a
  list that is not full has every match, but for what is older than a row the
  client already had (`Lists`); an unread count leaves out only mentions made
  before a look (`Counts`); a page is one of the records that were there
  (`Pages`). `TwoPages` is the counting argument: of two pages of the size of
  the limit, over rows of which none went, what is on neither has both pages
  before it. A step that commits nothing is covered by `Rests`, a commit by the
  `Effects` of its handler (`Dates`: what it changes has its time), and of the
  views the fourteen that clients follow have a lemma for each kind; that the
  others have other names is `OnlyFollowed`.

  That a request which is alone does not fail is about a step that is not taken,
  so the proof shows of every handler which of its answers are open to it
  (`Told`): a refusal that is `Excused`, a commit that is `Allowed`, the tag of
  an import, or the rollback of one that does not fit. `AnswerIInv` carries it.
  A request that reads has the rows of now, or another committed since
  (`ReadsAreFresh`); so where nobody did, what the handler looked for before it
  wrote is what the constraints look at, and they refuse nothing. Two
  constraints need more than that. No foreign key refers to a table whose rows
  are deleted (`LeavesAreFree`: all that refer lead to `Referred`), so a DELETE
  succeeds; and an erased user takes an address no invitation had
  (`EmailsAreOwn`). An UPDATE keeps what is unique about its row, or sets it
  where nobody catches the error (`Renames`, `Uncaught`). What was told stays
  true because `ended` of an overtaker never goes back, and an import that was
  under way still is, has committed or given up since (`GiveUp`: an import that
  others waited for leaves its time), or was ended because of yet another. A
  call that does not fit is told nothing that needs an excuse. For imports
  `TagsAreThere` says that a tag is answered by its row or by nothing, and that
  a row which is staged is committed with the others; only
  `delete_taxonomy_entry` takes such a row away. TLC checked `AnswerIInv` on the
  instance of `MCBackOffice` before it was proved.

Theorems: `CaseIntakeProofs` (Invariance, TypeCorrect, NumbersAreDense,
LinksStayInTenant, Deduplication, OutboxAgrees, FailuresExplained, LinksStick,
IntakeImplementsRegister), `OutboxPublisherProofs`
(Invariance, NothingLostNothingInvented, OrderIsKept, DuplicatesAreBounded,
OutboxImplementsFeed), `NotificationDispatcherProofs` (Invariance, TypeCorrect,
HistoryKept, LossesHaveReasons, EventsStayInTenant, OffIsSilent,
PostsAreNotRepeated),
`AnalyzerJobsProofs` (Invariance, TypeCorrect, RunningHasReason,
SingleRunsDoNotMix, ClaimsCloseTheWindow, OutcomesAreKept), `SessionsProofs`
(Invariance, TypeCorrect, RotationIsExclusive, LogoutIsFinal,
RefusalHasReason, PermissionsStayInTenant, Implements), `CaseWorkProofs`
(Invariance, NoOrphans, DeletedCasesGrowOld, GuestsAreInvited, ClosingDates,
InfectedStaysIn, OrderIsKept, AuditIsTrue, NoRepeatedImports, ErrorsExplained),
`BackOfficeProofs` (Invariance, RowsKeepTheirPlace, TrueAnswers), `BackOfficeSafetyProofs`
(TenantIsolation, Confinement, Overwrites, Following).

In `BackOfficeProofs` handlers are reduced to the few ways in which they write:
what an `Insert`, an `Update` or a `Delete` must fit (`Lawful`) so that the step
keeps `IInv` and moves no row (`Keeps`). The lemma of a handler then says no more
than that it writes in one of these ways. For `TrueAnswers` the same ways are
asked a second time when they refuse (`InsertTells`, `UpdateTells`,
`DeleteTells`), and each handler has a second lemma.

In `CaseWorkProofs` the rows of a case are one record of eighteen columns.
`DatabaseColumns` says what each column holds, `DatabaseExcept` that the rows
stay well-typed when one column is set, and `DatabaseCell` when one cell of a
column is; the proof of an action cites them instead of expanding the record.

Only model-checked: everything under fairness (`ImplementsFeed` as far as it is
liveness, `ConnectedClientHears`, `Notified`, `EveryJobSettles`,
`EveryRequestEnds`, `Indexed`), which is out of the prover's reach. Every safety
and action property that a passing run checks is stated by a theorem.

## 5. Divergences without a run

Met while reading; each needs no interleaving or repeats a finding.

- `db/repositories/cases.py:14` says the callers of `next_number` retry on
  conflict; `promote_alert` does not (`clash` with a number in `CaseIntake`).
- `docs/data-model.md:17` says a mutation emits an audit row; `delete_alert`
  and the single `patch_alert` emit none.
- `notifications/dispatcher.py:5` says "with retry/backoff"; there is one POST
  and `attempts` is always 1.
- `db/models/notification.py:65` documents a filter by `{entity, action,
  when?}`; the filter is compared with the published keys, which are others.
- The identity design (`docs/superpowers/specs/
  2026-06-17-adhkar-phase1a-identity-rbac-design.md`) lets a password change or
  reset revoke all sessions, makes reset links single-use, and asks for MFA at
  login; the code does none of these. `switch_org` leaves the previous session
  active, and a refresh does not look at the status of the user.
- `api/v1/profiles.py:147` reads memberships with `scalar_one_or_none`, which
  raises when two or more use the profile: the call then fails instead of
  answering `profile_in_use` (`DeleteProfile`). A name that is taken ends
  `create_profile`, `patch_profile`, `patch_org` and `create_sharing` with 500.
- `create_case` says "Retry on unique(organization_id, number) race"
  (`api/v1/cases.py:501`), but retries any `IntegrityError`: an assignee who is
  no user is answered `case_number_assignment_failed` (`FailuresHaveReasons`).
- `api/v1/observable_import.py:10` says that rows that exist are skipped "to keep
  imports idempotent". It compares the whole value with one that was cut to its
  column, so a longer value is inserted again by every import
  (`ImportsDoNotRepeat`).
- Values that the schemas accept and the tables do not are answered with 500,
  not 422 (`RefusedWrite`, `RefusedBody`, `Fits`; section 2 has the lines).
- `api/v1/gdpr.py:6` says the actor of audit records is scrubbed; the code does
  not touch them (`EraseUser`).
- `unlock_user` and `accept_invite` set the status without a condition on the
  one they overwrite, or with one that is stale: a locked or erased account may
  be active again (`OverwritesNeedOverlap` has when).
- `db/models/taxonomy.py:16` says imports are idempotent. A tag that is there
  makes `import_misp_taxonomy` roll back the tags before it
  (`api/v1/taxonomies.py:182`): they are counted as imported and are not there;
  the import must be repeated (`AnswersAreTrue`).
- `list_observables` is "useful for delta sync" (`api/v1/observables.py`), but
  orders by `created_at` under a limit: the changes it cuts off are the later
  ones of older rows, and a client that goes on from the latest `updated_at` of
  its answer misses them (`Full` in `PollMissesLateCommits`). Every poll by
  `updated_since` misses what commits late.
- The pages of the audit log are cut by an offset over `created_at`, which the
  records of one transaction share.
- `mark_mentions_seen` takes the clock, a mention has the time of its
  transaction: a mention that commits late was never unread.
- The docstring of `workers/embedding_indexer.py` says it catches up; a round
  looks at the closed cases changed last, with or without an embedding, and never
  at older ones. An embedding is not renewed when its case is reopened or edited.
- `search_similar_cases` asks the vector column first and the others only if
  that finds nothing: what was embedded after the backfill is not found.
- Lists over an organization show tasks and observables of deleted cases.
- `api/deps.py:get_engine` creates an engine per request that nothing disposes.

## 6. Not modelled

- *OIDC and SAML login*: other ways into `issue_tokens`, which `Sessions` has.
  What is theirs is the checking of signatures and metadata; the only state is a
  replay cache of one atomic SET NX.
- *Responders*: one outgoing call per request, nothing stored that others read.
- *AI and MCP*: a bounded loop over a provider that answers text; no state but a
  row per call, which `ExportUser` and `EraseUser` have.
- *Feeders*: nothing in the repository calls their `poll`.
- *Analyzer plugins*: what they answer is a choice of `AnalyzerJobs`.
- *MaxMind downloader*: one file, replaced atomically.
- *Middleware and rate limit*: headers, and one Redis counter on which no other
  state depends.
- *Errors, logging, telemetry*: formatting.
- *`meta.py`*: constants and two health probes.
- *Command line, seed, migrations*: run while nothing else runs. What the
  migrations create (keys, columns) is in the models.
- *Web frontend*: presentation, except its API client, which is the environment
  of `Sessions` and `OutboxPublisher`.
- *Deployment*: not a program; it is quoted where fairness rests on it.
- Left out of modelled parts: expiry of tokens and invitations, API keys as
  bearers, `presign_upload` (it signs a URL), what is in the object store.
