# OpenMIRA: TLA+ specifications

OpenMIRA ("radar") turns incoming chat messages into business opportunities. A
FastAPI backend with PostgreSQL (SQLModel), Celery on Redis, a Node analysis
runtime, a Next.js front end and a React Native app with an on-device agent share
the work. These modules specify the parts in which several actors act on the same
state: phones, request handlers, Celery tasks and the beat sweep on an analysis;
writers, sync endpoints and the phone's SQLite store on the sync feed; offline
commands, manual and automatic replies and other writers on an opportunity; the
app's tasks and the server on a device's credentials; the phone, the model gateway
and the approval ledger on a turn of the interactive agent. They are written from
the code under `src/backend/app` and `src/mobile/radar/src`; every definition is
listed with its source lines in `PROJECT.json` under `map`.

## The system

Abbreviations: *uc* = `backend/app/application/use_cases`, *db* =
`backend/app/infrastructure/db`.

| Component | State | Operations | What makes it hard | Correct when |
|---|---|---|---|---|
| Analysis runs (`uc/analysis_run.py`) | `analysis_runs`: status, lease, lock version, bound message version and ledger row, link evidence | claim, claim-next, claim-shadow, heartbeat, complete, fail, expire, sweep, inspect links | `claim` commits an expiry in its middle; links are fetched between two transactions; leases race results | one active run per message, one committer per analysis, ended runs stay ended, a vanished phone loses the message |
| Usage ledger (`SubscriptionRepository`) | `usage_ledger`: reserved, consumed, released, unique key per user | reserve, consume, release | shared by scheduler, devices, tasks; a release reads before it locks | never more than the plan; billed once per delivered analysis; failed runs are free |
| Scheduler (`uc/schedule_agent_analysis.py`) | none of its own | reserve, mark queued, enqueue, compensate | up to five commits, each may be overtaken or the last | no reservation is billed without a result |
| Server analysis (`worker/tasks.py`, `uc/analyze_message.py`) | the task: message, ledger id, retries | claim message, attach opportunity, complete or fail, settle usage | minutes of model work between claim and commit; retries; late delivery | never projects over another holder |
| Manual replies (`uc/manual_reply.py`) | `manual_reply_deliveries`: pending, sending, delivered, completed, failed, uncertain | reserve, claim attempt, send, record, project | the provider call sits between two commits; same key retried in parallel | the customer gets a reply at most once per key; a delivered reply is projected |
| AI auto reply (`uc/ai_reply.py`) | `auto_reply_deliveries` | reserve, claim candidate, decide, send, settle | provider call between commits, daily limit, policy changed meanwhile | sent at most once, never above the limit |
| Opportunities (`OpportunityRepository`) | status, assignment, archive flag, version | transition, claim, archive, restore, internal commands | commands queued offline against an old version | only allowed transitions; a command takes effect once |
| Interactive agent (`uc/interactive_agent_*.py`) | turns, provider streams, actions and grants | create, approve, deny, execute, settle, expire | approvals bound to an arguments hash and a version; uncertain outcomes | an action runs at most once and only as approved |
| Sync feed (`db/sync_feed.py`, `uc/sync_feed.py`, `mobile/radar/src/sync`) | per-owner change log, cursor, local store, command outbox | append, bootstrap, changes, reset, ack; apply page, enqueue and flush commands | identity order is not commit order; reset during a page; retry after an unknown outcome | the store converges to the server, no change is skipped |
| Device sessions (`uc/device_session.py`) | refresh token families | login, refresh, revoke | two refreshes of the same token | one live token per family, replay revokes |
| Push, billing, WeCom, Telegram | registrations, billing events, event inboxes, connections | see `PROJECT.json` | duplicated and reordered external events | each event is applied once |

Interaction. A message is ingested, which schedules an automatic analysis:
quota is reserved, the message is marked QUEUED and a Celery task is sent,
delayed when a phone may take the message first. A phone claims the message with
a lease, taking over the reservation; it heartbeats, may ask the server to fetch
links, and completes or fails. When it fails, or its lease runs out, the handler
schedules the server as a fallback. The owner may ask for a new analysis at any
time. All of them meet in four tables: `messages`, `analysis_runs`,
`usage_ledger` and the sync feed, whose unique (aggregate, version) row acts as
an optimistic lock on the message.

## Modules

| Module | Kind | Contents |
|---|---|---|
| `AnalysisRuns` | specification | analysis runs, scheduler, server task and ledger of one owner |
| `SyncFeed` | specification | change feed of one owner, sync endpoints, engine and store of one phone |
| `SyncReplica` | abstract specification | what the feed promises of the phone's replica; `SyncFeed` implements it, `CommandOutbox` is built on it |
| `OpportunityState` | definitions | the statuses of an opportunity and their transitions |
| `StatusChanges` | abstract specification | what a user who changes a status is promised; `CommandOutbox` implements it |
| `CommandOutbox` | composition | offline status commands, their drain, the server's receipts, over a replica |
| `CustomerReplies` | abstract specification | what the replies to one customer promise; `OutboundReplies` implements it |
| `OutboundReplies` | composition | manual and automatic replies to one customer beside other writers |
| `DeviceCredentials` | abstract specification | the server's transactions on the credentials of a device, each in one step; `DeviceSessions` implements it |
| `DeviceSessions` | specification | rotating credentials on the server, tokens and tasks of the app |
| `AgentTurns` | composition | turns of the interactive agent: phone, lease and usage, model gateway, approvals |
| `MC...` | model checking | symmetry and finite sets of each specification |
| `...Proofs` | proofs | inductive invariant and theorems of each specification; `AnalysisBillingProofs` and `DeviceReplayProofs` continue `AnalysisRunsProofs` and `DeviceSessionsProofs` |

How they fit together. `SyncFeed` implements `SyncReplica` (property `ReplicaSpec`
of `sync_core`, theorem `FeedIsReplica`): while the replica is readable it holds
committed versions and never goes back; it may be lost and filled again at any
time. `CommandOutbox` instantiates `SyncReplica` for its view of opportunities
instead of repeating the feed, so what it shows holds of every replica of that kind.
What `CommandOutbox` adds up to is `StatusChanges` (property `StatusChangesSpec` of
`outbox_core`, theorem `OutboxKeepsPromise`): asked for on a version, changed in one
step over that version or not at all, and reported truly, with no phone, network or
receipt in sight. `DeviceSessions` implements `DeviceCredentials` (property
`CredentialsSpec` of `device_core`, theorem `TransactionsAtomic`), in which no
transaction has two halves. `OutboundReplies` implements `CustomerReplies` (property
`RepliesSpec` of `replies_core`, theorem `RepliesAsPromised`): the opportunity, the
customer and the messages on record, without ledgers, copies and workers.
`CommandOutbox` and `OutboundReplies` are two views of the same row of
`opportunities` and share `OpportunityState`. `AgentTurns` takes the outcome of the
reply it may send as a choice of the outcomes `OutboundReplies` has: sent once or
not, recorded, projected.

### AnalysisRuns

State: `message` (the column `agent_analysis_status`), `run` (`analysis_runs`),
`ledger` (`usage_ledger`), `proc` (request handlers and Celery tasks in flight)
and two auxiliary variables: `current`, and `delivered`, the history of
projected analyses.

* **One action is one transaction.** PostgreSQL row locks serialise what happens
  inside a transaction; between two transactions of a handler anything else may
  happen. A handler that commits several times is a process in `proc` with a
  program counter: the ingestion between its two commits is `ingested`; the
  scheduler is `reserve`, `mark`, `enqueue` (or `quota`), and on a broker error
  `failmark`, `release`, `releasing`; the task is `queued`, `analysing` (`attached`
  once it has written the opportunity it created), `consume`; `claim` after an
  expiry it has committed is `claim`, or `keep` when the expired run was a shadow and
  its copy stays; link inspection is `inspect`.
* **Refreshes.** Most commits are followed by a refresh, a transaction of its own that
  may load what others wrote in between. Here it is part of the action that commits;
  a fault makes it late (`RefreshesLate`: the handler stalled between the two) or makes
  it fail (`RefreshFails`). A handler that stalls goes on with what it finds: a scheduler
  or a claim with another status, a task with a version it did not claim (`overtaken`), a
  result that is gone is not billed.
* **Copies.** A SQLAlchemy session keeps attributes it has loaded; a later
  `with_for_update` locks the row and does not reload them. Where the code decides
  by such a copy, so does the model: `seen` holds the status a process read
  (`LeavesAlone`, `MayInsert`, `ReleaseUsage`). A rollback expires the copies, and an
  asyncio session refuses to load them again implicitly; where the handler goes on
  to read such a copy (`QuotaUnmarked`), the model lets it fail as well as go on.
* **Versions.** Every write of a message inserts the sync change of the next
  version, unique per message, so a write from an outdated copy fails to commit.
  `current[m]` is the set of processes and runs whose copy (or whose
  `source_message_version`) is the version in the database. This replaces an
  unbounded counter by a finite set with the same comparisons.
* **Time.** `LeaseElapses` ends a lease. The ten minutes after which a RUNNING
  message counts as abandoned exceed the 150 seconds after which Celery kills a
  task, so `ServerClaim` may take a RUNNING message only when no task analyses it.
* **Ledger keys.** The idempotency keys of the code: `auto` per message, `manual`
  per message and request, `fallback` and `run` per run. A manual key is used with
  one message: the front end creates it per request.
* **Faults.** `Faults` names what may go wrong in a run: `crash` (a process ends
  between two transactions; a task is acknowledged when it starts, so it is not
  delivered again), `enqueue` (the broker refuses), `database` (billing or a refresh
  fails and the task is retried), `disabled` (the agent is switched off before the task
  runs), `stall` (a refresh comes late).

Two things hold only without stalls. An ingestion that stalls after storing a message
may find it analysed by a device; it marks it processed with this copy, reserves again,
and the task it queues finds a result and bills it once more (`ChargedOnlyForDelivered`
is checked and proved without `stall`). And a handler that finds a status it would leave
alone after a stall leaves its work to nobody, which `AnalysisSettles` does not cover.

Left out: which device holds a run and calls that are rejected (they change
nothing), the content of an analysis, the opportunity's copy of the status, the
delay before a task starts (any delay is a behaviour of the model already), the
provider gateway that meters the stream of a run. A transaction PostgreSQL aborts
to resolve a deadlock is a transaction that did not happen.

### SyncFeed

State: on the server `row` (the `aggregate_version` of each tracked row), `feed`
(committed `sync_changes`), `open` (changes flushed by transactions in flight),
`last` (the identity column), `expired` (the retention edge) and `acked`
(`last_sync_cursor` of the device); on the phone `store` (the projections), `local`
(`sync_state` and `sync_bootstrap_state`) and `client` (the local variables of
`runOwnerSync`). `overtaken` is a history: the changes that committed after a higher
cursor. `faults` counts faults.

* **Writers.** `Flush` is the `before_flush` listener: it bumps the row and appends
  a change with the next identity; `Commit` publishes, `Rollback` discards, and the
  identity is spent either way. A transaction that waits for a row or for the unique
  (aggregate, version) is modelled from when it gets on; that it may hold a cursor
  given before the wait is left out, and would only add overtaken changes. One that
  loaded an older version fails: a `Rollback`.
* **Requests.** `ReadWatermark`, `ReadSnapshot`, `ReadChanges` and `Acknowledge` are
  the statements of the endpoints. The first page reads the latest cursor and the
  rows in two statements, at read committed isolation, so two steps; the statements
  of the changes endpoint are one step because a later one only sees more changes.
* **The phone.** `ApplySnapshot` and `ApplyChanges` are the two SQLite transactions
  with their checks, `RejectConflict` and `RejectContent` their failures, which mark
  the stream. `StartReady`, `StartResume` and `StartFresh` are the three ways a run
  begins. One run at a time: `inFlight` of `installedSync.ts`. For that reason the
  branch of `applyChangePage` for a store that is already further is never taken;
  it is part of the action all the same.
* **Faults.** An answer is lost or the app killed (`Drop`), the continuation token
  is too old (`TokenRefused`), an item is unsupported (`RejectContent`), the owner
  signs out, which wipes the store under a run that has no abort signal (`SignOut`).

A row's content is its version, since content changes only with the version. Left
out: tombstones (no code deletes a tracked row), the budget of 10,000 pages, the
check that an event delivered twice has the same content, the re-read of the local
state after a bootstrap (a sign-out just before it ends the run, as `Drop` does),
and cursor hints, which only start a run.

### CommandOutbox

State: `opp` (the committed contents of each opportunity; the length of the sequence
is the `aggregate_version`), `receipts` (`internal_command_receipts`), the replica
(`store`, `ready`), `outbox` and `overdue` (`command_outbox`), `drain` (the local
variables of the running drain), `requests` (on the network or in a handler), and the
history `applied`: the versions each command was applied over.

* **Two looks.** A request first loads the opportunity (`Load`) and later locks the
  row (`Execute`). The lock does not reload what the session holds, so version and
  status are judged on the copy; `Current` is the unique (aggregate, version) of the
  change the write appends, the only thing that stops a write over a newer version.
* **Settling.** `Check` is the phone's own comparison with its replica before it
  sends, `Mark` the transaction that records the answer, `Timeout` the end of a request
  nobody answers. A row of a killed drain is `running` until five minutes have passed
  (`GoesStale`).
* **Time.** A receipt lives 30 days from its insertion and a command 7 days from
  queueing, so `ForgetReceipt` needs a command that is settled or overdue.

Left out: a drain stops after 50 commands; a key used with another payload is refused,
which no client does.

### OutboundReplies

State: `opp`, the ledgers `manual` (per key) and `auto`, `accepted` (what the provider
accepted), `messages` (outgoing messages on record), and `procs`: request handlers and
workers, with the copy of the opportunity their session holds.

One action is one transaction or one call of the provider. A write of the opportunity
fails if the copy is not the committed version; a write of a delivery does not, so two
tasks can claim one candidate and what sorts them out is the opportunity. After a
rollback every copy is expired, and reading one ends the request. The refreshes after a
commit that can bring later writes into a copy that is used again are steps: `MarkReady`
begins with the one of `save_ai_draft`, `LoadClaimed` is the one of `claim_ready_for_send`.
After the claim nothing looks at the copy, so `MarkReplied` writes `replied` over whatever
status it has.

Left out: texts, adapters, the gates of the automatic reply that do not read the
opportunity (one choice in `Evaluate`), the daily limit (one reply of one opportunity
is modelled), the refusal of archive-only conversations, which behaves as `Crash`.

### DeviceSessions

State on the server: `version` (`auth_version`), `device`, `creds`; on the phone
`access` and `refresh` in SecureStore, `session`, `leaving`, `tasks` (enrollments and
restores, each a program counter); `requests` between them. Every transaction locks the
device first, except the rotation, which locks its credential and, when that is used up,
goes on to the device (`Rotate`, `CommitRotation`, `CommitReplay`): these are two steps
each, so that a replay can wait for a rotation of its family and miss the row it inserts.

Left out: the device limit, an inactive owner, a transaction the deadlock detector
aborts (it did not happen), a late 401 for a token that has been replaced since, push
registrations.

### AgentTurns

State on the server: `turn` and `ledger` (`interactive_agent_turns` and the usage of
each), `audit` (`interactive_agent_provider_requests`), `streams` (gateway handlers),
`approval`, `execution` and `sent` (the approval ledger, the handler that sends the
reply, and the provider), `opp` (the version of the opportunity; closing it to replies
changes the version), `available` (device and gates); on the phone `phone`
(`runInteractiveTurn`), `main` and `beat` (the call it waits for, the heartbeat beside
it), and what outlives a run: `session`, `proposal`, `stored`, `shown`. `late` holds
calls that were given up and may still be handled.

* **One action is one transaction**, under the row lock of the turn, in a session that
  has loaded nothing before. The stream and the send go on after their first
  transaction: `Open`, then `Finalize` (a transaction of its own), then `StreamEnds`
  (the last event); `Execute`, then the provider and `MarkDelivered`, `ProjectReply`,
  `FinishExecution`.
* **Calls.** `Answer` handles a call that is waited for, or a late one, whose answer
  nobody reads. Losing, repeating and killing are `LoseMain`, `LoseBeat`, `Repeat`,
  `Kill`; a cancelled run leaves its call behind as well (`Cancel`, `BeatFails`).
* **Time.** `LeaseElapses` ends a lease and with it the grants of the turn, whose
  `expires_at` the code bounds by the lease; `ApprovalElapses` ends a grant earlier.
* **What is one outcome.** All refusals of a call are `"refused"`: the phone treats
  them alike. `available` gates what every handler checks of device and configuration.

Left out: a commit of `Finalize` that succeeds while the refresh after it fails
(`interactive_agent_gateway.py:507-514`), after which the error path may write FAILED over
the audit of a stream that was completed (`SettledForGood` speaks of commits that report
their success); the appetite tool and the other local tools (they end in `UseTool`), the
transcript, tokens, contracts and costs, and texts: an approval is bound to a tool call,
which stands for its arguments hash.

## Runs

Deadlock checking is off everywhere: a system whose messages, runs, commands, logins
and faults are used up has stopped, as it may.

| Run | Instance | Checks | States |
|---|---|---|---|
| `analysis_core` | 1 message, 2 runs of either mode, 2 processes, 1 request, quota 2, 1 retry, stalls | `TypeOK`, `OneActiveRun`, `QuotaRespected`, `OneCommitter`, `ShadowOnlyObserves` | 1.82 million |
| `analysis_faults` | 1 message with links, 1 primary run, 2 processes, 1 request, quota 2, 1 retry, lock version up to 2, all faults but stalls | `FailedRunNotCharged`, `ChargedOnlyForDelivered`, `SettledIsFinal` | 1.95 million |
| `analysis_liveness` | fair, 2 messages, 1 primary run, 2 processes, quota 1, 1 retry, broker refusals, analysis switched off | `AnalysisSettles` | 40 thousand |
| `late_worker_bills_device` | as `analysis_core`, primary runs only, no faults | refutes `ActivePrimaryReserved` | |
| `sync_core` | fair, 2 rows, 2 writers, page size 1, 4 cursors, 1 fault | `TypeOK`, `OnlyOvertakenMissed`, `AckedIsDurable`, `NothingInvented`, `VisibleNeverGoesBack`, `ReplicaSpec`, `CatchesUp` | 827 thousand |
| `change_overtaken` | 3 cursors, no faults | refutes `StoreCoversCursor` | |
| `outbox_core` | fair, 1 opportunity, 2 commands, 2 statuses, 2 versions of others, 1 active command, 2 attempts, 1 fault | `TypeOK`, `OnlyOverSeen`, `ConflictMeansUntouched`, `SucceededMeansApplied`, `StatusChangesSpec`, `QueuedSettles` | 875 thousand |
| `replies_core` | 1 key, 3 processes, 2 statuses, 3 requests or tasks, 4 versions, 2 faults | `TypeOK`, `EachSentOnce`, `HeldWhileSending`, `ClaimedWhenOpen`, `RepliesSpec` | 1.50 million |
| `stale_manual_reply` | 2 processes, no faults | refutes `LegalWhenClaimed` | |
| `device_core` | fair, 2 tasks, 2 logins, 1 password change, 4 credentials, 1 fault | `TypeOK`, `OneLiveCredential`, `ExchangedOnce`, `ReplayNeedsFault`, `CredentialsSpec`, `GetsCredential` | 731 thousand |
| `password_change_locks_out` | 2 credentials, no faults | refutes `NewTokenAccepted` | |
| `turns_core` | fair, 2 turns of 1 session, 1 reply, quota 1, 2 model requests and 1 approval a turn, lock version up to 3, 3 turns, tools, replies, foreign writes and faults together | `TypeOK`, `ApprovalTellsTruth`, `ChargedForAnswer`, `NeverBlocked`, `LockKnown`, `SettledForGood`, `TurnSettles` | 349 thousand |

Why the bounds are enough. Two runs give a run and its successor, so takeover,
retry and late reports occur; two processes give a task together with a scheduler,
a sweep or a second task; one request gives a second ledger row for the same
message, used twice by retries of the request; a quota of two lets both rows be
billed and a third be refused. For `AnalysisSettles` the quota is one and there are two
messages, so that a lapsed lease frees the one analysis and the other message may take
it before the fallback does; without faults it also holds with a second run (526 thousand
states without a retry, 783 thousand with one) and with a manual request (5.7 million
states), which take too long to keep. `MaxLock` bounds heartbeats, `MaxRetries` is 3 in
the code and 1 here: an attempt, a repetition and the last failure occur.
`delivered` counts to the quota, which bounds what it is compared with. Every
bound that appears in a guard is a constant of the module.

For the sync feed, a page of one item interleaves every row of a bootstrap and every
change with everything else; two rows give a continuation and an order between pages;
four cursors give an overtaken change, a replay, and a reset that is asked for twice.
`MaxFaults` of one is one lost answer, refused token, unsupported item or sign-out at
any point of any behaviour; with two the safety properties hold on 1.2 million
states. `MaxCursor` bounds the writes, `MaxFaults` the faults; both appear in guards.

In the outbox, two commands for one opportunity let each overtake the other, as well as
a write from elsewhere; the second of two attempts is the one that meets a receipt, and
the one fault is any late or lost answer, abort, refusal, kill, reset or sign-out. For
replies, a third process lets a manual request, an automatic task and its redelivery
run at once, and the second fault follows a crash by a crash of its repair. Four
credentials give two registrations and a rotation of each. In `turns_core` the single
bound `MaxSpent` lets every pair of a fault with another event occur in one turn, and
two turns with a fault between them; one turn with two faults, and two with a model
request each, also pass. Theorems remove the bounds from every property that is not
liveness.

Symmetry over messages, runs, processes and keys is used in runs without liveness only.

### Properties

* `OneActiveRun`: a message has one active run, although `claim` goes on after
  committing an expiry and inserts later with copies it loaded before.
* `OneCommitter`: of all phones and tasks that think they analyse a message, at
  most one can still commit. This is what the version of the sync feed is for. A task
  that stalled and loaded a version written over its claim (`overtaken`) is not counted.
* `QuotaRespected`: reserved plus consumed stays within the plan, and a message
  holds one live reservation however many requests ask for it.
* `FailedRunNotCharged`: a failed or expired run has given its reservation back,
  for good, although tasks may still carry it.
* `ChargedOnlyForDelivered`: for each message, no more billed rows than analyses
  delivered.
* `SettledIsFinal`: ended runs and released rows do not change again, whatever is
  still under way, in particular a link inspection.
* `ShadowOnlyObserves`: no step of a shadow run touches business rows, also while a
  manual request has the same message analysed again.
* `AnalysisSettles`: a message that is queued or running, and that a device run, a
  handler or a task is at work on (`Attended`), comes to an outcome. Two exceptions are
  stated in the property. Other messages may have used up the plan when the fallback
  wants to reserve again (`OutOfPlan`): the schedule then raises, after the rollback of
  the reservation, where it reads the expired message (`schedule_agent_analysis.py:64`),
  and the message stays QUEUED until its owner asks again. And a run billed under its
  device cannot expire (`BilledUnder`, refuted below). `Attended` leaves out a handler
  whose copy was overtaken and one whose request was settled before: they end without
  touching the message.

Fairness (`FairSpec`): a handler or task goes on when it can (`WF` of `Advance`
for each process); a lease ends, because heartbeats are bounded; and the beat
task sweeps. The sweep is strongly fair: it runs every minute in a process of its
own, while the model lets it run only when one of the few processes is free.

Of the sync feed:

* `OnlyOvertakenMissed`: whatever pages, replays, resets, resumed bootstraps and
  sign-outs happen, a readable store lacks nothing up to its cursor but changes that
  committed after a higher cursor. What the store does lack is exactly the finding.
* `VisibleNeverGoesBack`: while the store stays readable, no row and no cursor goes
  back, although changes older than the snapshot are replayed over it.
* `AckedIsDurable`: the server never records more than the readable store holds,
  across resets that rebuild the store.
* `NothingInvented`: only committed versions reach an answer or the store.
* `ReplicaSpec`: the feed, its engine and its store implement `SyncReplica`.
* `CatchesUp`: the phone ends at the head of the stream.

Fairness there: every transaction ends (`WF` of its commit or rollback), the app
syncs again whenever it comes to the foreground, gets a hint or finds the network
(`WF` of `Start`), and requests are answered (`WF` of `Proceed`). Writes and faults are
not fair; they are bounded, so `CatchesUp` speaks of the time after the last of them.

Of the outbox:

* `OnlyOverSeen`: a command takes effect over the version its user saw and over no
  other, hence at most once, whatever is retried, late, overtaken or forgotten.
* `ConflictMeansUntouched`, `SucceededMeansApplied`: what the phone tells its user is
  true, and stays true while earlier requests of the command are under way.
* `StatusChangesSpec`: the whole is an implementation of `StatusChanges`. `asked` is what
  the rows of the outbox ask for, `done` the commands that were applied, `succeeded` and
  `conflicted` what the rows say. Besides the two promises above this says that every
  change, of the commands and of others, is a legal transition of the row as committed,
  although legality is judged on a copy.
* `QueuedSettles`: every command is settled. Fair are the sync and the drain (they run
  whenever the app does), the server's work on requests, and the passing of backoff and
  stale times; that a command grows overdue, or a receipt old, is not.

Of replies:

* `EachSentOnce`: the provider accepts a reply once at most.
* `ClaimedWhenOpen`: the automatic reply is claimed for sending only while the committed
  opportunity, not just a copy, is open to it; `HeldWhileSending`: from then on, also
  when the outcome is unknown, the opportunity stays assigned to it.
* `RepliesSpec`: the whole is an implementation of `CustomerReplies`. Every write of the
  opportunity, although judged on a copy and sometimes without looking who is assigned,
  is legal on the committed row, but for `Answered`, which makes the opportunity
  `replied` whatever it has become. What the automatic reply holds is given up only by
  `Answered`, once the provider has accepted the reply, or by `ToHuman`, while it has not;
  an opportunity follows a manual reply only after that was accepted, and what is on
  record as outgoing was accepted (`RecordedWasSent`).

There is no liveness here: a delivery whose worker dies waits for a person, by design.

Of device sessions:

* `OneLiveCredential`, `ExchangedOnce`: rotation is one-time, and enrollment and rotation
  leave one active credential between them.
* `CredentialsSpec`: the server's transactions are steps of `DeviceCredentials`. A
  rotation exchanges a credential that is active, on a device that is active, at its
  commit; a replay marks the family up to some credential (`Detect(c, last)`), and
  only members issued since it looked are left out, which the status of the device
  makes worthless. That a revoked device gets nothing more (`RevokedForGood`) follows from it.
* `ReplayNeedsFault`: the detection, which costs the user the device, never turns
  against a phone without a kill, a lost answer or a competing enrollment.
* `GetsCredential`: a phone that is signed in ends up with a credential, unless its
  device has been revoked. Fair are the app's tasks, the server, the end of an expired
  session, the retry of a failed start, and that the app comes to the foreground.

Of agent turns:

* `ApprovalTellsTruth`: a reply goes out once at most and only with the user's consent,
  and no approval ever denies what the customer has read.
* `ChargedForAnswer`: the turns of a month stay within their limit, reservation and
  status agree, and only a turn whose answer is in SQLite is charged.
* `NeverBlocked`: the unique index that allows one request at a time per turn never
  refuses the phone because of its own last request.
* `LockKnown`: without a fault the phone ends an active turn with its very lock version,
  although heartbeats raise it beside the host.
* `SettledForGood`: a late or repeated call changes nothing that has ended.
* `TurnSettles`: no turn holds its session and its reservation for ever. Fair are the
  server's handlers, the stream, the phone's own steps, the sweep of the beat task, and
  the passing of a lease that no run of the phone renews any more.

### What the runs refute

Each of the four states what a document, a comment or a test of the repository says and
shows an execution of the code that breaks it; `findings` in `PROJECT.json` quotes both.

* `late_worker_bills_device`: a task commits its result, and before it bills the usage a
  manual re-analysis shares the reservation, queues the message again, and a device
  claims it with that same reservation: the task then bills what the device run holds.
  From there every expiry of that run rolls back, since its usage cannot be released.
* `change_overtaken`: a change whose transaction was open when a higher cursor was read
  is behind the cursor of the phone when it commits, and no later answer contains it.
  The phone shows the old row until it is written again or the store is rebuilt.
* `stale_manual_reply`: the second look at the opportunity before a manual reply is sent
  gives the copy of the first one.
* `password_change_locks_out`: tokens that enrollment and rotation issue after a password
  change carry the old version and are refused.

Three observations of the same kind have no run. An automatic reply that was accepted ends
with `update_status(current, REPLIED, clear_assignment=True)` (`ai_reply.py:189`), on a copy
that the refresh after the claim may have loaded as closed or following: `replied` is written
over it, although `docs/architecture/overview.md:413` has it that the status only moves along
the allowed transitions. `CustomerReplies` allows this write and promises nothing more. After a logout the device of the
installation is revoked (`repositories.py:370`), and the next login cannot enroll it
again; that is why `GetsCredential` excludes a revoked device. An approval whose worker
died stays `EXECUTING`: nothing turns it into `UNCERTAIN`, as
`docs/plans/completed/2026-07-18-p5-agent-approved-send.md:73` has it;
`ApprovalTellsTruth` therefore allows for both.

## Proofs

`AnalysisRunsProofs` proves, for every finite set of messages, runs and requests,
any processes, quota, retry bound, modes and faults (assumption
`ConstantsAssumption` of `AnalysisRuns`, evaluated by every run); the last two are in
`AnalysisBillingProofs`:

| Theorem | States |
|---|---|
| `TypeCorrect` | `Spec => []TypeOK` |
| `ActiveRunUnique` | `Spec => []OneActiveRun` |
| `FailedRunFree` | `Spec => []FailedRunNotCharged` |
| `CommitterUnique` | `Spec => []OneCommitter` |
| `SettledForGood` | `Spec => SettledIsFinal` |
| `QuotaKept` | `Spec => []QuotaRespected` |
| `ChargedForDelivered` | `Spec => []ChargedOnlyForDelivered`, without stalls |
| `ShadowObserves` | `Spec => ShadowOnlyObserves` |

The inductive invariant is

    IInv == TypeOK /\ Bindings /\ OneActiveRun /\ FailedRunNotCharged /\ OneCommitter

`Bindings` holds the facts the others need from one state to the next: a run has a
ledger row of its own and of its message; a run not yet inserted has no row under
its key (so a fallback or claim key is fresh when first used); a task carries a row
that exists; an inspection refers to an inserted run; a claim in progress holds an
identity that no run and no other claim has (`ClaimIsFresh`). Without them `FailedRunNotCharged` is not inductive:
a released row could be the row a new run is bound to.

The argument goes by what a step does to each table, not action by action. `Effects`
shows that every step of `Next` is a ledger step (a row is opened, consumed or
released), a run step (inserted, kept, ended), one of a few process steps, and
`CommitStep` that every step either leaves one holder of a message's version that can
commit, or none, or only takes holders away. Preservation of each conjunct then
follows from the effects. `QuotaKept` adds the finite cardinality argument: a step
that opens a row does so below the limit, and all others shrink or keep the set of
reserved and consumed rows.

Bills and deliveries are counted in different places and at different times: a task
carries a ledger key from its reservation to its last transaction, through the queue and
past takeovers, and bills it long after it, or somebody else, has delivered. The code
keeps no account of which bill belongs to which delivery, and none is needed:

    BillingInv == Named /\ Decided /\ Earned /\ ChargedOnlyForDelivered

`Earned` says that a task which is going to bill a row still reserved (it has delivered,
or it will find its message analysed) finds fewer rows of its message billed than
deliveries made. Two such tasks do not contradict it, because a message holds one
reserved row at most, as `QuotaKept` has it: they share that row, and it is billed once.
`Named` is what makes rows comparable: a row under the key of a scheduler, a task or a
run was made for their message, which the keys themselves (`auto` per message, `fallback`
per run) have to ensure. `Decided`: no scheduler reserves for a message its copy shows
analysed, unless a manual request insists. The step description is `Account`: a row is
opened, billed or freed, a delivery is made or not, a message becomes analysed only by a
delivery, and a task becomes due only by one. `delivered` counts to the quota; a delivery
beyond changes nothing, and there `QuotaKept` bounds the bills. `ChargedForDelivered`
assumes `"stall" \notin Faults`, which is where `Decided` stands. `ShadowObserves` needs
only that a run keeps its mode and that the runs a step of a handler touches are primary.

`SyncFeedProofs` proves, for every finite set of rows, any writers, page size and
bounds:

| Theorem | States |
|---|---|
| `SyncTypeCorrect` | `Spec => []TypeOK` |
| `NothingElseMissed` | `Spec => []OnlyOvertakenMissed` |
| `AcknowledgedIsDurable` | `Spec => []AckedIsDurable` |
| `OnlyCommitted` | `Spec => []NothingInvented` |
| `VisibleForward` | `Spec => VisibleNeverGoesBack` |
| `FeedIsReplica` | `Spec => ReplicaSpec` |

    IInv == TypeOK /\ FeedInv /\ NothingInvented /\ AckInv
            /\ StoreInv /\ SnapshotInv /\ ChangesInv

The properties speak of a ready store and say nothing of the runs that fill it, so
they are not inductive. `FeedInv` says that cursors are unique and a committed row is
at least at the version of each of its changes. With `Visible(n)` (cursor `n` has been
committed) and `Due(n)` (the changes up to `n` that were not overtaken), a change that
commits later than `Visible(n)` has a cursor above `n` or is overtaken: that is the one
argument about writers, in `CommitIInv`. `StoreInv` extends coverage to a bootstrap
under way (rows up to the last page cover the changes up to the watermark);
`SnapshotInv` and `ChangesInv` say the same of an answer not yet applied, also when a
sign-out has wiped the store it was asked for. The page lemmas (`FirstPage`, `LastOf`,
`Merges`) show that a page leaves out nothing between its ends and that merging keeps
the higher version. `StepForward` derives `VisibleForward` from the same invariant: a
new bootstrap of one page replaces a ready store by rows at least as new. `FeedIsReplica` maps each
step: a commit writes rows, a page that completes or extends a ready store fills it, and
whatever ends readability loses it; everything else stutters.

`CommandOutboxProofs` proves, for any opportunities, commands and bounds:

| Theorem | States |
|---|---|
| `OutboxTypesCorrect` | `Spec => []TypeOK` |
| `AppliedOverSeen` | `Spec => []OnlyOverSeen` |
| `ConflictIsFinal` | `Spec => []ConflictMeansUntouched` |
| `DoneIsDone` | `Spec => []SucceededMeansApplied` |
| `OutboxKeepsPromise` | `Spec => StatusChangesSpec` |

    IInv == TypeOK /\ (\A o : store[o] <= Version(o)) /\ (\A c : CommandOK(c) /\ AttemptsOK(c))
            /\ (\A r \in requests : RequestOK(r)) /\ DrainOK

A conflict is reported while an earlier request may still be under way, so
`ConflictMeansUntouched` needs to know that no such request can succeed. `Doomed(c)`
says that the opportunity is past the version the command expects, or that its content
there forbids the command. It stays true, because versions only grow and contents are
never rewritten; and a request of a doomed command never applies it, because the copy it
loads is never older than the expected version (`RequestOK`). `CommandOK` says of each
command that what it was applied over is the expected version and that a receipt lasts
while the command may still be asked for; `AttemptsOK` bounds attempts by the limit and
the faults, `DrainOK` binds the drain to the row it has claimed.

`OutboxKeepsPromise` maps each step. Only `Execute` commits, as `Take` of its command: the
unique (aggregate, version) makes the copy it judged the row itself, so the transition is
legal and the version is the one the user saw; `CommandOK` excludes that a conflict was
told before. `Write` is a write of others, `Enqueue` an `Ask`, `Mark` is `Succeed`,
`Conflict` or nothing, and dismissed and wiped rows are `Forget`; the replica, the drain,
receipts and requests map to stuttering. A row that was not used is empty (`NeverUsed`), so that a user asks
once with each command.

`OutboundRepliesProofs` proves, for any keys, processes and bounds:

| Theorem | States |
|---|---|
| `ReplyTypesCorrect` | `Spec => []TypeOK` |
| `NoReplySentTwice` | `Spec => []EachSentOnce` |
| `OnlySentRecorded` | `Spec => []RecordedWasSent` |
| `HeldForAutoReply` | `Spec => []HeldWhileSending` |
| `OnlyOpenClaimed` | `Spec => ClaimedWhenOpen` |
| `RepliesAsPromised` | `Spec => RepliesSpec` |

    IInv == TypeOK /\ opp.version >= 1 /\ (\A p : Copied(procs[p]))
            /\ ManualInv /\ AutoInv /\ RecordedWasSent

Every copy a process holds is a committed version, and is the opportunity itself if the
versions agree (`Copied`): so a write that commits was judged on the truth. Of the
processes with one key at most one is past its reservation, and until it sends nothing
was accepted (`ManualInv`). The row of the automatic reply, in contrast, can be claimed
by several tasks; of these at most one has saved its draft, and then the copies of all
others are stale (`AutoInv`), which stops them at their next write of the opportunity.

`RepliesAsPromised` needs a second invariant on top of `IInv`:

    HoldInv == (\A p : HoldOK(procs[p]))
               /\ (\A p, q : PreSend(procs[p]) /\ procs[q].pc = "to_human" => Stale(procs[q]))

A task that returns the opportunity to a human does not ask whether another task holds
it. It cannot harm that other, because its copy was overtaken when the other saved its
draft: that is the second conjunct. `HoldOK` says the rest a write needs: a request that
moves the opportunity along was accepted, a task that has claimed it holds it in the
database, and from its refresh on in its copy, whatever status that copy has, and a task that gives up a hold has a stale copy or nothing was sent. `HoldStep`
proves once that a step which moves one process keeps `HoldInv`, `HoldGoes`,
`HoldEnds` and `HoldWrites` cut it to the three kinds of steps, and each action is then
mapped: the five that write the opportunity to a write of `CustomerReplies` if their
copy is current and to stuttering if not, sends to `Send`, messages to `Record`, and
every other step of a ledger or a process to stuttering.

`DeviceSessionsProofs` and `DeviceReplayProofs` prove, for any tasks and bounds:

| Theorem | States |
|---|---|
| `DeviceTypesCorrect` | `Spec => []TypeOK` |
| `OneCredentialLives` | `Spec => []OneLiveCredential` |
| `NeverExchangedTwice` | `Spec => []ExchangedOnce` |
| `RevokedStaysRevoked` | `Spec => RevokedForGood` |
| `TransactionsAtomic` | `Spec => CredentialsSpec` |
| `ReplayOnlyAfterFault` | `Spec => []ReplayNeedsFault` (in `DeviceReplayProofs`) |

    IInv == TypeOK /\ References /\ RotationsLocked /\ OneLiveCredential
            /\ ParentsSpent /\ ExchangedOnce

`RotationsLocked`: a rotation between its two steps holds the lock of a credential that
is still active, and no other request holds the same. With `ParentsSpent` (a credential
that has a successor is not active) the second step inserts the only successor and
leaves one active credential. `References` keeps tokens, tasks and requests within the
credentials that exist.

For `TransactionsAtomic` a rotation or replay takes effect at its second step, which must
still find what the first one decided on. For the rotation that is `RotationsLocked`. A
replay looks at its family before it gets the lock of the device, and a rotation may
commit in between; `ReplaysNoted` says that its token stays exchanged and that the rows it
noted are the family up to some credential, because families never change and the list
only grows. A revocation waits for every lock, so no replay is halfway when it commits.

`ReplayOnlyAfterFault` is about the phone: why does it never present a credential twice?

    CalmUntilFault == faults = 0 => AppCalm /\ RequestsCalm /\ CredsCalm

Without a fault a restore is alone in the app, which is loading just as long (`AppCalm`);
a rotation is on its way only while a restore waits for it, and what it presents is what
SecureStore holds (`RequestsCalm`); and that is not exchanged yet, unless the restore
already has the successor and is about to write it (`CredsCalm`). An enrollment that
answers late, or puts back what it found before, puts back a credential that was not
exchanged, since no restore ran beside it. Each of the faults breaks one of the three,
and then `ReplayNeedsFault` claims nothing.

`AgentTurnsProofs` proves, for any turns, sessions, replies and bounds:

| Theorem | States |
|---|---|
| `TypesHold` | `Spec => []TypeOK` |
| `ApprovalsTellTruth` | `Spec => []ApprovalTellsTruth` |
| `TurnsChargedForAnswer` | `Spec => []ChargedForAnswer` |
| `TurnsNeverBlocked` | `Spec => []NeverBlocked` |
| `LocksKnown` | `Spec => []LockKnown` |
| `TurnsSettledForGood` | `Spec => SettledForGood` |

    IInv == Types /\ CallsOK /\ PhoneOK /\ UsageOK /\ GatewayOK /\ ActionsOK /\ ClearOK
            /\ Cardinality(Allocated) <= QuotaLimit /\ LocksOK

`CallsOK` and `PhoneOK`: every call under way, the late ones too, refers to a turn and a
decision that exist, and the phone waits for exactly the call of its phase; a call to
complete exists only for a stored answer. `UsageOK`: status, usage and storage of a turn
agree and a session has one active turn. `GatewayOK`: the requests of a turn are numbered
without a gap and at most one is under way. `ActionsOK`: what the ledger says of a reply
follows from how far its sending came (`Reached`). `ClearOK` is what `NeverBlocked`
needs: wherever the phone may come to ask for a stream, no request of its turn is under
way and no late call of that turn can still begin one. `LocksOK` is what `LockKnown`
needs: as long as no fault has happened, the phone, or the call whose answer it waits
for, has the current lock version (`Holds`), so heartbeats and the end of the turn cannot
cross.

Each part is proved from a description of what a step can do to its variables
(`UsageStep`, `GatewayStep`, `MainStep`, `BeatStep`, and `Goes` for how the phone comes
to ask for a stream): one lemma shows that every action is of one of its forms, another
that every form keeps the part. So the many actions are opened once for each group of
variables and not for each conjunct.

Only model-checked: `AnalysisSettles`, `CatchesUp`, `QueuedSettles`, `GetsCredential` and
`TurnSettles`, since liveness under fairness is out of the prover's reach. Every other
property of a passing run is stated by a theorem.

## Plan

Done: `AnalysisRuns`, `SyncFeed` with `SyncReplica`, `CommandOutbox`, `OutboundReplies`,
`DeviceSessions`, `AgentTurns`, each with its runs and its inductive invariant,
and the abstract specifications `StatusChanges`, `DeviceCredentials` and
`CustomerReplies`. Left, in
this order:

1. The push hints (`push_hint` tasks: lease, retry, expiry of a hint and of its
   registration) and the analysis gateway, which has the shape of the interactive one.
2. Billing: RevenueCat events, idempotent and out of order, and the entitlement that
   `AnalysisRuns` and `AgentTurns` take as a constant limit.
3. The event inbox of WeCom and the archive cursor.
4. `AgentTurns` over `CustomerReplies` instead of over a choice of outcomes, and an
   abstract ledger of usage that `AnalysisRuns` and `AgentTurns` both implement.

## Not modelled

Job scoring, detection rules, the statistics and read models, the front ends and the
native shells compute on data or present it. Migrations, scripts, evaluations and CI
are build material. The Node runtime, IM providers, RevenueCat and the push service
are external; where a module meets one, its answers are a nondeterministic choice. The
remaining components are listed in `PROJECT.json` with the reason or the plan for each.
