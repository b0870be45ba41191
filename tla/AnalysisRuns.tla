---------------------------- MODULE AnalysisRuns ----------------------------
(***************************************************************************)
(* The analysis of incoming messages: device runs (leases on a message held *)
(* by a phone), server worker tasks, the scheduler that reserves quota and  *)
(* queues work, and the usage ledger that bills it, for one owner.          *)
(*                                                                         *)
(* One action is one database transaction of the code.  A handler or task   *)
(* that commits several times is a process in `proc' that walks through     *)
(* program counters; any number of other transactions run between two of    *)
(* its steps, and it may die between them.                                  *)
(*                                                                         *)
(* Message versions.  Every write of a Message row bumps aggregate_version  *)
(* from the copy the session loaded and inserts the unique SyncChange of    *)
(* that version, so a write from an outdated copy fails to commit.          *)
(* `current[m]' is the set of processes and runs that hold the version of m *)
(* now in the database: a write by h makes it {h}.                          *)
(***************************************************************************)
EXTENDS Integers, FiniteSets

CONSTANTS
    Messages,    \* incoming messages of the owner
    Runs,        \* identities of analysis runs (bounds how many are created)
    Procs,       \* request handlers and Celery tasks in flight (bounds how many)
    Requests,    \* Idempotency-Keys of manual re-analysis requests
    QuotaLimit,  \* pi_agent_analysis_monthly_limit of the owner's plan
    MaxRetries,  \* max_retries of the Celery task agent.analyze_message
    MaxLock,     \* bound on a run's lock_version, hence on its heartbeats
    Linked,      \* messages that contain links to inspect
    Modes,       \* run modes the deployment's switches allow
    Faults,      \* environment faults that may happen
    None         \* the null reference

FaultKinds == {"crash", "enqueue", "database", "disabled", "stall"}

ASSUME ConstantsAssumption ==
    /\ QuotaLimit \in Nat /\ MaxRetries \in Nat /\ MaxLock \in Nat \ {0}
    /\ IsFiniteSet(Messages) /\ IsFiniteSet(Runs) /\ IsFiniteSet(Requests)
    /\ Linked \subseteq Messages
    /\ Modes \subseteq {"PRIMARY", "SHADOW"}
    /\ Faults \subseteq FaultKinds
    /\ Procs \cap Runs = {}
    /\ None \notin Messages \cup Runs \cup Procs

\* A ledger row is named by its idempotency key, which is unique per user.
Keys == ({"auto"} \X Messages) \cup ({"manual"} \X (Messages \X Requests))
            \cup ({"run", "fallback"} \X Runs)

VARIABLES
    message,    \* agent_analysis_status of each message
    current,    \* who holds the version of the message now in the database
    ledger,     \* usage_ledger rows
    run,        \* analysis_runs rows
    proc,       \* handlers and tasks in flight
    delivered   \* history: analyses projected onto each message

vars == <<message, current, ledger, run, proc, delivered>>

MessageStatus == {"ABSENT", "NOT_REQUESTED", "QUEUED", "RUNNING", "COMPLETED",
                  "FAILED", "QUOTA_EXCEEDED"}
Active == {"CLAIMED", "RUNNING"}
Terminal == {"COMPLETED", "FAILED", "EXPIRED"}

NoLedger == [status |-> "NONE", message |-> None]
NoRun == [status |-> "NONE", message |-> None, key |-> None, mode |-> "PRIMARY",
          lock |-> 1, live |-> FALSE, evidence |-> FALSE]
Idle == [pc |-> "idle", message |-> None, key |-> None, run |-> None,
         force |-> FALSE, seen |-> "NONE", retries |-> 0]

-----------------------------------------------------------------------------
(* Queries the repositories make. *)

ActiveRuns(m) == {r \in Runs : run[r].message = m /\ run[r].status \in Active}

Reserved(m) == {k \in Keys : ledger[k] = [status |-> "RESERVED", message |-> m]}

Allocated == Cardinality({k \in Keys : ledger[k].status \in {"RESERVED", "CONSUMED"}})

\* message_can_be_claimed
Claimable(status) == status \in {"NOT_REQUESTED", "QUEUED", "FAILED"}

\* uuid4() of a new run: an identity no row and no handler has taken.
FreeRun(r) == run[r] = NoRun /\ \A p \in Procs : proc[p].run # r

-----------------------------------------------------------------------------
(* Pieces of transactions. *)

\* Mutant: rows are written without a version, so outdated copies stay valid.
WriteMessageUnversioned(m, holders, status) ==
    /\ message' = [message EXCEPT ![m] = status]
    /\ current' = [current EXCEPT ![m] = @ \cup holders]

\* Message m is written with the given status; `holders' keep the new version.
WriteMessage(m, holders, status) ==
    /\ message' = [message EXCEPT ![m] = status]
    /\ current' = [current EXCEPT ![m] = holders]

Goto(p, pc) == proc' = [proc EXCEPT ![p].pc = pc]

\* Process p ends: its session, with the rows it holds, is gone.
Finish(p) == proc' = [proc EXCEPT ![p] = Idle]
Forget(p) == current' = [m \in Messages |-> current[m] \ {p}]
Leave(p) == Finish(p) /\ Forget(p) /\ UNCHANGED message

\* consume_usage_in_transaction: only a reserved row changes.
Consume(k) ==
    ledger' = IF ledger[k].status = "RESERVED"
              THEN [ledger EXCEPT ![k].status = "CONSUMED"] ELSE ledger

\* release_usage_in_transaction on a row first read under its lock.
Release(k) ==
    ledger' = IF ledger[k].status = "RESERVED"
              THEN [ledger EXCEPT ![k].status = "RELEASED"] ELSE ledger

\* Mutant: one analysis more than the plan allows.
ReserveQuotaOffByOne(m, k, l) ==
    \/ l \in Reserved(m) /\ UNCHANGED ledger
    \/ /\ Reserved(m) = {} /\ Allocated <= QuotaLimit /\ l = k
       /\ ledger' = [ledger EXCEPT ![k] = [status |-> "RESERVED", message |-> m]]

\* Under the owner's row lock: reuse the reservation of the message, or make
\* one under key k if the quota allows.  Either way it is row l.
ReserveQuota(m, k, l) ==
    \/ l \in Reserved(m) /\ UNCHANGED ledger
    \/ /\ Reserved(m) = {} /\ Allocated < QuotaLimit /\ l = k
       /\ ledger' = [ledger EXCEPT ![k] = [status |-> "RESERVED", message |-> m]]

\* Mutant: no unique index on the active run of a message.
InsertRunUnindexed(r, m, k, mode) ==
    /\ \A q \in Runs : run[q].key # k
    /\ run' = [run EXCEPT ![r] = [NoRun EXCEPT !.status = "CLAIMED", !.message = m,
                                  !.key = k, !.mode = mode, !.live = TRUE]]

\* Inserting a run obeys the unique indexes on the ledger row and on the
\* active run of a message.
InsertRun(r, m, k, mode) ==
    /\ ActiveRuns(m) = {}
    /\ \A q \in Runs : run[q].key # k
    /\ run' = [run EXCEPT ![r] = [NoRun EXCEPT !.status = "CLAIMED", !.message = m,
                                  !.key = k, !.mode = mode, !.live = TRUE]]

\* A terminal transition of run r bumps its lock_version.
EndRun(r, status) ==
    run' = [run EXCEPT ![r].status = status, ![r].lock = @ + 1]

\* One more analysis is projected onto m; the history counts up to the quota,
\* which bounds the consumed rows it is compared with.
Deliver(m) ==
    delivered' = [delivered EXCEPT ![m] = IF @ < QuotaLimit THEN @ + 1 ELSE @]

\* The scheduler is called for m, whose row the caller has with this status.
Scheduling(m, k, status, force) ==
    [Idle EXCEPT !.pc = "reserve", !.message = m, !.key = k, !.seen = status,
                 !.force = force]

Queued(m, k, retries) ==
    [Idle EXCEPT !.pc = "queued", !.message = m, !.key = k, !.retries = retries]

-----------------------------------------------------------------------------
(* Device runs: the handlers of AnalysisRunService. *)

\* claim, claim_next, where no active run stands in the way.
Claim(m, r) ==
    /\ "PRIMARY" \in Modes
    /\ FreeRun(r) /\ Claimable(message[m])
    /\ \E l \in Keys : ReserveQuota(m, <<"run", r>>, l) /\ InsertRun(r, m, l, "PRIMARY")
    /\ WriteMessage(m, {r}, "RUNNING")
    /\ UNCHANGED <<proc, delivered>>

\* claim_shadow: an analysis already delivered and billed, not yet observed.
ClaimShadow(m, r) ==
    /\ "SHADOW" \in Modes
    /\ FreeRun(r) /\ message[m] = "COMPLETED"
    /\ \A q \in Runs : ~(run[q].message = m /\ run[q].mode = "SHADOW")
    /\ \E k \in Keys : /\ ledger[k] = [status |-> "CONSUMED", message |-> m]
                       /\ InsertRun(r, m, k, "SHADOW")
    /\ current' = [current EXCEPT ![m] = @ \cup {r}]
    /\ UNCHANGED <<message, ledger, proc, delivered>>

\* Time passes: the lease of an active run is over.
LeaseElapses(r) ==
    /\ run[r].status \in Active /\ run[r].live
    /\ run' = [run EXCEPT ![r].live = FALSE]
    /\ UNCHANGED <<message, current, ledger, proc, delivered>>

HasLease(r) == run[r].status \in Active /\ run[r].live

Lapsed(r) == run[r].status \in Active /\ ~run[r].live

\* heartbeat carrying lock_version e; an older e is acknowledged, nothing more.
Heartbeat(r, e) ==
    /\ HasLease(r) /\ e = run[r].lock /\ e < MaxLock
    /\ run' = [run EXCEPT ![r].status = "RUNNING", ![r].lock = @ + 1]
    /\ UNCHANGED <<message, current, ledger, proc, delivered>>

\* What complete demands: the lease, the current lock_version e, the message
\* version the run was claimed on and evidence for every linked message.
MayComplete(r, e) ==
    /\ HasLease(r) /\ e = run[r].lock
    /\ r \in current[run[r].message]
    /\ run[r].message \in Linked => run[r].evidence

CompletePrimary(r, e) ==
    LET m == run[r].message  k == run[r].key IN
    /\ MayComplete(r, e) /\ run[r].mode = "PRIMARY"
    /\ ledger[k].status \in {"RESERVED", "CONSUMED"}
    /\ Consume(k) /\ EndRun(r, "COMPLETED")
    /\ WriteMessage(m, {}, "COMPLETED") /\ Deliver(m)
    /\ UNCHANGED proc

\* Mutant: a shadow run that differs from the baseline has the message redone.
CompleteShadowRequeues(r, e) ==
    /\ MayComplete(r, e) /\ run[r].mode = "SHADOW"
    /\ EndRun(r, "COMPLETED")
    /\ WriteMessage(run[r].message, {}, "QUEUED")
    /\ UNCHANGED <<ledger, proc, delivered>>

CompleteShadow(r, e) ==
    /\ MayComplete(r, e) /\ run[r].mode = "SHADOW"
    /\ ledger[run[r].key].status = "CONSUMED"
    /\ message[run[r].message] = "COMPLETED"
    /\ EndRun(r, "COMPLETED")
    /\ UNCHANGED <<message, current, ledger, proc, delivered>>

\* Mutant: the reservation is left to the fallback.
FailPrimaryKeepsUsage(r, e, p) ==
    /\ HasLease(r) /\ e = run[r].lock /\ run[r].mode = "PRIMARY"
    /\ EndRun(r, "FAILED")
    /\ WriteMessage(run[r].message, {p}, "FAILED")
    /\ proc[p] = Idle
    /\ proc' = [proc EXCEPT ![p] =
           Scheduling(run[r].message, <<"fallback", r>>, "FAILED", TRUE)]
    /\ UNCHANGED <<ledger, delivered>>

\* fail of a primary run; the same handler, process p, goes on to schedule the
\* server fallback.  A reservation already consumed makes it roll back.
FailPrimary(r, e, p) ==
    LET m == run[r].message  k == run[r].key IN
    /\ HasLease(r) /\ e = run[r].lock /\ run[r].mode = "PRIMARY"
    /\ ledger[k].status # "CONSUMED"
    /\ Release(k) /\ EndRun(r, "FAILED")
    /\ WriteMessage(m, {p}, "FAILED")
    /\ proc[p] = Idle
    /\ proc' = [proc EXCEPT ![p] = Scheduling(m, <<"fallback", r>>, "FAILED", TRUE)]
    /\ UNCHANGED delivered

FailShadow(r, e) ==
    /\ HasLease(r) /\ e = run[r].lock /\ run[r].mode = "SHADOW"
    /\ EndRun(r, "FAILED")
    /\ UNCHANGED <<message, current, ledger, proc, delivered>>

\* _expire_locked of a primary run: the message returns to the queue and the
\* reservation is released; one already consumed makes the transaction roll back.
ExpireRow(r, p) ==
    /\ Lapsed(r) /\ run[r].mode = "PRIMARY"
    /\ ledger[run[r].key].status # "CONSUMED"
    /\ Release(run[r].key) /\ EndRun(r, "EXPIRED")
    /\ WriteMessage(run[r].message, {p}, "QUEUED")
    /\ proc[p] = Idle
    /\ UNCHANGED delivered

\* Mutant: the run expires and nothing takes over.
ExpirePrimaryOnly(r, p) == ExpireRow(r, p) /\ UNCHANGED proc

\* The sweep, expire, heartbeat, complete and fail find the lease over: expire
\* the run, then schedule the server fallback in the same handler.
ExpirePrimary(r, p) ==
    /\ ExpireRow(r, p)
    /\ proc' = [proc EXCEPT ![p] =
           Scheduling(run[r].message, <<"fallback", r>>, "QUEUED", TRUE)]

ExpireShadow(r) ==
    /\ Lapsed(r) /\ run[r].mode = "SHADOW"
    /\ EndRun(r, "EXPIRED")
    /\ UNCHANGED <<message, current, ledger, proc, delivered>>

Claiming(pc, m, n, status) ==
    [Idle EXCEPT !.pc = pc, !.message = m, !.run = n, !.seen = status]

\* claim finds an expired run: it commits the expiry, which drops its locks, and
\* goes on with the message loaded back.  Nothing schedules a fallback here.
ClaimOverPrimary(r, n, p) ==
    /\ "PRIMARY" \in Modes /\ FreeRun(n)
    /\ ExpireRow(r, p)
    /\ proc' = [proc EXCEPT ![p] = Claiming("claim", run[r].message, n, "QUEUED")]

\* After the expiry of a shadow run it keeps the copy it had.
ClaimOverShadow(r, n, p) ==
    LET m == run[r].message IN
    /\ "PRIMARY" \in Modes /\ FreeRun(n)
    /\ Lapsed(r) /\ run[r].mode = "SHADOW"
    /\ EndRun(r, "EXPIRED")
    /\ proc[p] = Idle
    /\ proc' = [proc EXCEPT ![p] = Claiming("keep", m, n, message[m])]
    /\ current' = [current EXCEPT ![m] = @ \cup {p}]
    /\ UNCHANGED <<message, ledger, delivered>>

\* What the rest of claim needs once it has committed an expiry: a copy that is
\* still current, no run inserted meanwhile and room in the quota.
MayInsert(p) ==
    LET m == proc[p].message IN
    /\ Claimable(proc[p].seen) /\ p \in current[m]
    /\ ActiveRuns(m) = {}
    /\ \A q \in Runs : run[q].key \notin Reserved(m)
    /\ Reserved(m) # {} \/ Allocated < QuotaLimit

FinishClaim(p) ==
    LET m == proc[p].message  n == proc[p].run IN
    /\ proc[p].pc \in {"claim", "keep"} /\ MayInsert(p)
    /\ \E l \in Keys : ReserveQuota(m, <<"run", n>>, l) /\ InsertRun(n, m, l, "PRIMARY")
    /\ WriteMessage(m, {n}, "RUNNING")
    /\ Finish(p)
    /\ UNCHANGED delivered

RefuseClaim(p) ==
    /\ proc[p].pc \in {"claim", "keep"} /\ ~MayInsert(p)
    /\ Leave(p)
    /\ UNCHANGED <<ledger, run, delivered>>

\* inspect_links: checked, then committed, then the links are fetched.
BeginInspection(r, p) ==
    /\ HasLease(r) /\ run[r].message \in Linked /\ ~run[r].evidence
    /\ r \in current[run[r].message]
    /\ proc[p] = Idle
    /\ proc' = [proc EXCEPT ![p] =
           [Idle EXCEPT !.pc = "inspect", !.message = run[r].message, !.run = r]]
    /\ UNCHANGED <<message, current, ledger, run, delivered>>

\* Mutant: the whole stale copy of the run is written back.
FinishInspectionOverwrites(p) ==
    /\ proc[p].pc = "inspect"
    /\ run' = [run EXCEPT ![proc[p].run].evidence = TRUE, ![proc[p].run].status = "CLAIMED"]
    /\ Finish(p)
    /\ UNCHANGED <<message, current, ledger, delivered>>

\* After the fetch the rows are locked again but the checks look at the copies
\* loaded before it, so the evidence is written whatever became of the run.
FinishInspection(p) ==
    /\ proc[p].pc = "inspect"
    /\ run' = [run EXCEPT ![proc[p].run].evidence = TRUE]
    /\ Finish(p)
    /\ UNCHANGED <<message, current, ledger, delivered>>

\* The lease in the copy is over by the clock: the handler gives up.
RefuseInspection(p) ==
    /\ proc[p].pc = "inspect"
    /\ Finish(p)
    /\ UNCHANGED <<message, current, ledger, run, delivered>>

-----------------------------------------------------------------------------
(* Scheduling: ScheduleAgentAnalysisUseCase and its callers. *)

\* ingest_message stores a message ...
Ingest(m, p) ==
    /\ message[m] = "ABSENT" /\ proc[p] = Idle
    /\ WriteMessage(m, {p}, "NOT_REQUESTED")
    /\ proc' = [proc EXCEPT ![p] =
           [Scheduling(m, <<"auto", m>>, "NOT_REQUESTED", FALSE) EXCEPT !.pc = "ingested"]]
    /\ UNCHANGED <<ledger, run, delivered>>

\* ... and, once it has looked for an opportunity in it, marks it processed and asks
\* for its automatic analysis, unless somebody has written it by then.
MarkProcessed(p) ==
    LET m == proc[p].message IN
    /\ proc[p].pc = "ingested"
    /\ \/ p \in current[m] /\ WriteMessage(m, {p}, message[m]) /\ Goto(p, "reserve")
       \/ p \notin current[m] /\ Leave(p)
    /\ UNCHANGED <<ledger, run, delivered>>

\* POST .../agent-analysis with Idempotency-Key q, perhaps not for the first time.
RequestAnalysis(q, m, p) ==
    /\ message[m] \notin {"ABSENT", "RUNNING"} /\ proc[p] = Idle
    /\ proc' = [proc EXCEPT ![p] = Scheduling(m, <<"manual", <<m, q>>>>, message[m], TRUE)]
    /\ current' = [current EXCEPT ![m] = @ \cup {p}]
    /\ UNCHANGED <<message, ledger, run, delivered>>

\* reserve_agent_analysis: a row under the same key is used while reserved;
\* once consumed or released the request is answered without work.
ReserveAgain(p) ==
    /\ proc[p].pc = "reserve" /\ ledger[proc[p].key].status = "RESERVED"
    /\ Goto(p, "mark")
    /\ UNCHANGED <<message, current, ledger, run, delivered>>

AnswerSettled(p) ==
    /\ proc[p].pc = "reserve"
    /\ ledger[proc[p].key].status \in {"CONSUMED", "RELEASED"}
    /\ Leave(p)
    /\ UNCHANGED <<ledger, run, delivered>>

ReserveNew(p) ==
    /\ proc[p].pc = "reserve" /\ ledger[proc[p].key].status = "NONE"
    /\ \E l \in Keys :
          /\ ReserveQuota(proc[p].message, proc[p].key, l)
          /\ proc' = [proc EXCEPT ![p].pc = "mark", ![p].key = l]
    /\ UNCHANGED <<message, current, run, delivered>>

OverQuota(p) ==
    /\ proc[p].pc = "reserve" /\ ledger[proc[p].key].status = "NONE"
    /\ Reserved(proc[p].message) = {} /\ Allocated >= QuotaLimit
    /\ Goto(p, "quota")
    /\ UNCHANGED <<message, current, ledger, run, delivered>>

\* mark_agent_quota_exceeded, on a row loaded again after the rollback.
MarkQuotaExceeded(p) ==
    /\ proc[p].pc = "quota"
    /\ WriteMessage(proc[p].message, {}, "QUOTA_EXCEEDED")
    /\ Finish(p)
    /\ UNCHANGED <<ledger, run, delivered>>

\* The rollback expired the caller's copy; an asyncio session refuses to load it
\* implicitly when its id is read, and the handler ends.
QuotaUnmarked(p) ==
    /\ proc[p].pc = "quota"
    /\ Leave(p)
    /\ UNCHANGED <<ledger, run, delivered>>

\* mark_agent_queued decides by the caller's copy of the message.
LeavesAlone(p) ==
    proc[p].seen = "RUNNING" \/ (proc[p].seen = "COMPLETED" /\ ~proc[p].force)

MarkQueued(p) ==
    /\ proc[p].pc = "mark"
    /\ \/ LeavesAlone(p) /\ UNCHANGED <<message, current>>
       \/ /\ ~LeavesAlone(p) /\ p \in current[proc[p].message]
          /\ WriteMessage(proc[p].message, {p}, "QUEUED")
    /\ Goto(p, "enqueue")
    /\ UNCHANGED <<ledger, run, delivered>>

\* The copy is outdated: the commit fails, the reservation stays.
MarkConflict(p) ==
    /\ proc[p].pc = "mark"
    /\ ~LeavesAlone(p) /\ p \notin current[proc[p].message]
    /\ Leave(p)
    /\ UNCHANGED <<ledger, run, delivered>>

\* The broker takes the task, which the process becomes.
Enqueue(p) ==
    /\ proc[p].pc = "enqueue"
    /\ proc' = [proc EXCEPT ![p] = Queued(proc[p].message, proc[p].key, 0)]
    /\ Forget(p)
    /\ UNCHANGED <<message, ledger, run, delivered>>

EnqueueFails(p) ==
    /\ "enqueue" \in Faults
    /\ proc[p].pc = "enqueue"
    /\ Goto(p, "failmark") /\ Forget(p)
    /\ UNCHANGED <<message, ledger, run, delivered>>

\* fail_agent_analysis, on a row locked afresh: not while a run is active.
FailMessage(p) ==
    LET m == proc[p].message IN
    IF ActiveRuns(m) = {} THEN WriteMessage(m, {}, "FAILED")
    ELSE Forget(p) /\ UNCHANGED message

FailMark(p) ==
    /\ proc[p].pc = "failmark"
    /\ FailMessage(p)
    /\ Goto(p, "release")
    /\ UNCHANGED <<ledger, run, delivered>>

\* release_usage reads the ledger row without a lock ...
ReadForRelease(p) ==
    /\ proc[p].pc = "release"
    /\ proc' = [proc EXCEPT ![p].pc = "releasing", ![p].seen = ledger[proc[p].key].status]
    /\ UNCHANGED <<message, current, ledger, run, delivered>>

\* ... then locks the message, looks for an active run that owns the row and,
\* going by the status read before, releases it.
ReleaseUsage(p) ==
    LET k == proc[p].key
        owned == \E r \in Runs : run[r].key = k /\ run[r].status \in Active
    IN  /\ proc[p].pc = "releasing"
        /\ ledger' = IF ~owned /\ proc[p].seen = "RESERVED"
                     THEN [ledger EXCEPT ![k].status = "RELEASED"] ELSE ledger
        /\ Leave(p)
        /\ UNCHANGED <<run, delivered>>

-----------------------------------------------------------------------------
(* The Celery task agent.analyze_message. *)

\* A task at work: on the version it claimed, on the one that attached the
\* opportunity it created, or on a version somebody else wrote over its claim.
Analysing == {"analysing", "attached", "overtaken"}

\* claim_agent_analysis takes the message: no active run, not completed, and
\* not RUNNING unless that attempt started ten minutes ago and so is dead
\* (a task is killed after 150 seconds).
ServerClaim(p) ==
    LET m == proc[p].message IN
    /\ proc[p].pc = "queued"
    /\ ActiveRuns(m) = {} /\ message[m] # "COMPLETED"
    /\ message[m] = "RUNNING" =>
          \A q \in Procs : ~(proc[q].pc \in Analysing /\ proc[q].message = m)
    /\ WriteMessage(m, {p}, "RUNNING")
    /\ Goto(p, "analysing")
    /\ UNCHANGED <<ledger, run, delivered>>

\* The message is someone else's: the task ends and is not sent again.
ServerDefers(p) ==
    LET m == proc[p].message IN
    /\ proc[p].pc = "queued"
    /\ message[m] # "COMPLETED"
    /\ ActiveRuns(m) # {} \/ message[m] = "RUNNING"
    /\ Leave(p)
    /\ UNCHANGED <<ledger, run, delivered>>

\* The message is already analysed: its usage is settled while it is locked.
FindsResult(p) == proc[p].pc = "queued" /\ message[proc[p].message] = "COMPLETED"

ServerFindsResult(p) ==
    /\ FindsResult(p)
    /\ Consume(proc[p].key)
    /\ Leave(p)
    /\ UNCHANGED <<run, delivered>>

\* Creating an opportunity from the result attaches it to the message.
ServerAttach(p) ==
    LET m == proc[p].message IN
    /\ proc[p].pc \in Analysing \ {"attached"} /\ p \in current[m]
    /\ WriteMessage(m, {p}, message[m])
    /\ IF proc[p].pc = "analysing" THEN Goto(p, "attached") ELSE UNCHANGED proc
    /\ UNCHANGED <<ledger, run, delivered>>

\* complete_agent_analysis commits the result from the copy claimed before.
ServerComplete(p) ==
    LET m == proc[p].message IN
    /\ proc[p].pc \in Analysing /\ p \in current[m]
    /\ WriteMessage(m, {}, "COMPLETED") /\ Deliver(m)
    /\ Goto(p, "consume")
    /\ UNCHANGED <<ledger, run>>

\* Mutant: retried without end.
RetriedForever(p) == Queued(proc[p].message, proc[p].key, proc[p].retries + 1)

\* An exception ends the attempt: Celery sends the task again, and after the
\* last retry the reservation is released.
Retried(p) ==
    IF proc[p].retries < MaxRetries
    THEN Queued(proc[p].message, proc[p].key, proc[p].retries + 1)
    ELSE [Idle EXCEPT !.pc = "release", !.message = proc[p].message, !.key = proc[p].key]

\* The analysis fails.  When it is its commit that fails, because the copy is
\* outdated, that rollback expires the copy and marking the message fails too.
ServerFails(p) ==
    /\ proc[p].pc \in Analysing
    /\ \/ FailMessage(p)
       \/ p \notin current[proc[p].message] /\ UNCHANGED <<message, current>>
    /\ proc' = [proc EXCEPT ![p] = Retried(p)]
    /\ UNCHANGED <<ledger, run, delivered>>

\* _analyze_message bills the reservation it was sent with.
ConsumeUsage(p) ==
    /\ proc[p].pc = "consume"
    /\ Consume(proc[p].key)
    /\ Leave(p)
    /\ UNCHANGED <<run, delivered>>

ConsumeFails(p) ==
    /\ "database" \in Faults
    /\ proc[p].pc = "consume" \/ FindsResult(p)
    /\ proc' = [proc EXCEPT ![p] = Retried(p)]
    /\ UNCHANGED <<message, current, ledger, run, delivered>>

-----------------------------------------------------------------------------
(* The refresh that follows a commit: part of the action that commits, except *)
(* when a fault strikes between the two.                                      *)

\* It fails: after a claim the attempt just ends, after a result it is taken for a
\* failed analysis.
RefreshFails(p) ==
    /\ "database" \in Faults
    /\ \/ proc[p].pc = "analysing" /\ Forget(p) /\ UNCHANGED message
       \/ proc[p].pc = "consume" /\ FailMessage(p)
    /\ proc' = [proc EXCEPT ![p] = Retried(p)]
    /\ UNCHANGED <<ledger, run, delivered>>

\* It comes after transactions of others.  The process goes on with what it finds:
\* a scheduler or a claim with another status, a task with a version it did not
\* claim; a result that is gone is not billed.
RefreshesLate(p) ==
    LET m == proc[p].message
        Reload(pc, seen) ==
            /\ proc' = [proc EXCEPT ![p].pc = pc, ![p].seen = seen]
            /\ current' = [current EXCEPT ![m] = @ \cup {p}]
            /\ UNCHANGED message
    IN  /\ "stall" \in Faults
        /\ \/ /\ \/ proc[p].pc \in {"ingested", "claim"}
                 \/ proc[p].pc = "reserve" /\ proc[p].key[1] = "fallback"
              /\ Reload(proc[p].pc, message[m])
           \/ proc[p].pc = "analysing" /\ p \notin current[m] /\ Reload("overtaken", "NONE")
           \/ proc[p].pc = "consume" /\ message[m] # "COMPLETED" /\ Leave(p)
        /\ UNCHANGED <<ledger, run, delivered>>

-----------------------------------------------------------------------------

\* Mutant: the result "disabled" is billed like any other.
ServerDisabledBilled(p) ==
    /\ "disabled" \in Faults
    /\ proc[p].pc = "queued"
    /\ Goto(p, "consume")
    /\ UNCHANGED <<message, current, ledger, run, delivered>>

\* PI_AGENT_ENABLED was switched off after the task was queued.
ServerDisabled(p) ==
    /\ "disabled" \in Faults
    /\ proc[p].pc = "queued"
    /\ Goto(p, "failmark")
    /\ UNCHANGED <<message, current, ledger, run, delivered>>

\* A process dies between two transactions; a Celery task is acknowledged when
\* it starts, so a dead worker's task is not delivered again.
Crash(p) ==
    /\ "crash" \in Faults
    /\ proc[p] # Idle
    /\ Leave(p)
    /\ UNCHANGED <<ledger, run, delivered>>

-----------------------------------------------------------------------------
Init ==
    /\ message = [m \in Messages |-> "ABSENT"]
    /\ current = [m \in Messages |-> {}]
    /\ ledger = [k \in Keys |-> NoLedger]
    /\ run = [r \in Runs |-> NoRun]
    /\ proc = [p \in Procs |-> Idle]
    /\ delivered = [m \in Messages |-> 0]

\* What a device, or time, does to run r.
DeviceStep(r) ==
    \/ \E m \in Messages : Claim(m, r) \/ ClaimShadow(m, r)
    \/ LeaseElapses(r) \/ ExpireShadow(r)
    \/ \E e \in 1..MaxLock : \/ Heartbeat(r, e)
                             \/ CompletePrimary(r, e) \/ CompleteShadow(r, e)
                             \/ FailShadow(r, e)
                             \/ \E p \in Procs : FailPrimary(r, e, p)
    \/ \E p \in Procs : ExpirePrimary(r, p) \/ BeginInspection(r, p)
    \/ \E n \in Runs, p \in Procs : ClaimOverPrimary(r, n, p) \/ ClaimOverShadow(r, n, p)

\* A new request or an inbound message occupies process p.
Arrive(p) ==
    \E m \in Messages : Ingest(m, p) \/ \E q \in Requests : RequestAnalysis(q, m, p)

\* The next transaction of a handler or task, faults aside.
Advance(p) ==
    \/ FinishClaim(p) \/ RefuseClaim(p)
    \/ FinishInspection(p) \/ RefuseInspection(p) \/ MarkProcessed(p)
    \/ ReserveAgain(p) \/ AnswerSettled(p) \/ ReserveNew(p) \/ OverQuota(p)
    \/ MarkQuotaExceeded(p) \/ QuotaUnmarked(p) \/ MarkQueued(p) \/ MarkConflict(p)
    \/ Enqueue(p) \/ FailMark(p) \/ ReadForRelease(p) \/ ReleaseUsage(p)
    \/ ServerClaim(p) \/ ServerDefers(p) \/ ServerFindsResult(p)
    \/ ServerComplete(p) \/ ServerFails(p) \/ ConsumeUsage(p)

Fault(p) ==
    \/ EnqueueFails(p) \/ ConsumeFails(p) \/ ServerDisabled(p) \/ Crash(p)
    \/ RefreshFails(p) \/ RefreshesLate(p)

Next ==
    \/ \E r \in Runs : DeviceStep(r)
    \/ \E p \in Procs : Arrive(p) \/ Advance(p) \/ ServerAttach(p) \/ Fault(p)

Spec == Init /\ [][Next]_vars

\* Handlers and tasks run on; leases end (heartbeats are bounded) and the beat
\* task looks for lapsed runs again and again.  Strong fairness, because a free
\* process to run the sweep in is only there from time to time.
Fairness ==
    /\ \A p \in Procs : WF_vars(Advance(p))
    /\ \A r \in Runs : /\ WF_vars(LeaseElapses(r))
                       /\ SF_vars(ExpireShadow(r) \/ \E p \in Procs : ExpirePrimary(r, p))

FairSpec == Spec /\ Fairness

-----------------------------------------------------------------------------
(* Properties. *)

LedgerRows == [status : {"RESERVED", "CONSUMED", "RELEASED"}, message : Messages]

RunRow(statuses, locks) ==
    [status : statuses, message : Messages, key : Keys, mode : {"PRIMARY", "SHADOW"},
     lock : locks, live : BOOLEAN, evidence : BOOLEAN]

RunRows == RunRow(Active, 1 .. MaxLock) \cup RunRow(Terminal, 2 .. MaxLock + 1)

DevicePcs == {"claim", "keep", "inspect"}
ServerPcs == {"ingested", "reserve", "mark", "quota", "enqueue", "failmark", "release",
              "releasing", "queued", "analysing", "attached", "overtaken", "consume"}

ProcState(pcs, keys, runs) ==
    [pc : pcs, message : Messages, key : keys, run : runs, force : BOOLEAN,
     seen : MessageStatus \cup {"NONE", "RESERVED", "CONSUMED", "RELEASED"},
     retries : 0 .. MaxRetries]

ProcStates == ProcState(DevicePcs, {None}, Runs) \cup ProcState(ServerPcs, Keys, {None})

\* Every table and every process has the shape its columns allow.
TypeOK ==
    /\ message \in [Messages -> MessageStatus]
    /\ current \in [Messages -> SUBSET (Procs \cup Runs)]
    /\ ledger \in [Keys -> LedgerRows \cup {NoLedger}]
    /\ run \in [Runs -> RunRows \cup {NoRun}]
    /\ proc \in [Procs -> ProcStates \cup {Idle}]
    /\ delivered \in [Messages -> Nat]

\* A message has at most one active run, whoever claims it while another
\* handler expires the run before (docs/architecture/overview.md:170).
OneActiveRun ==
    \A r, s \in Runs : /\ run[r].status \in Active /\ run[s].status \in Active
                       /\ run[r].message = run[s].message
                       => r = s

\* The owner never has more analyses reserved or consumed than the plan allows,
\* and a message never holds two reservations at once.
QuotaRespected ==
    /\ Allocated <= QuotaLimit
    /\ \A k, l \in Keys : /\ ledger[k].status = "RESERVED" /\ ledger[l].status = "RESERVED"
                          /\ ledger[k].message = ledger[l].message
                          => k = l

\* A device run that failed or expired has given its reservation back, and no
\* task that still carries that reservation bills it later.
FailedRunNotCharged ==
    \A r \in Runs : run[r].mode = "PRIMARY" /\ run[r].status \in {"FAILED", "EXPIRED"}
                    => ledger[run[r].key].status = "RELEASED"

\* The owner is billed at most once for each analysis delivered, however device
\* runs, queued tasks, retries and repeated requests share reservations.
ChargedOnlyForDelivered ==
    \A m \in Messages :
        Cardinality({k \in Keys : ledger[k] = [status |-> "CONSUMED", message |-> m]})
            <= delivered[m]

\* Of all the devices and worker tasks that believe they are analysing a
\* message, at most one can still commit a result: leases, requeues, retries and
\* late workers never project twice (docs/architecture/overview.md:328).  A task
\* whose claim was overtaken before it was loaded back is left out: it works on a
\* version that somebody else wrote.
Committers(m) ==
    {r \in ActiveRuns(m) : run[r].mode = "PRIMARY" /\ r \in current[m]}
        \cup {p \in Procs : /\ proc[p].pc \in {"analysing", "attached"}
                            /\ proc[p].message = m
                            /\ p \in current[m]}

OneCommitter == \A m \in Messages : \A x, y \in Committers(m) : x = y

\* A run that ended keeps its outcome and the reservation it was bound to, and
\* a released reservation is never billed or reserved again, whatever stale
\* handlers, inspections and tasks still do.
SettledIsFinal ==
    [][/\ \A r \in Runs : run[r].status \in Terminal =>
             /\ run'[r].status = run[r].status
             /\ run'[r].key = run[r].key /\ run'[r].lock = run[r].lock
       /\ \A k \in Keys : ledger[k].status = "RELEASED" => ledger'[k] = ledger[k]]_vars

\* A shadow run only observes: none of its transactions touches the message, the
\* ledger or what was delivered (docs/architecture/overview.md:323).
ShadowOnlyObserves ==
    [][\A r \in Runs : run'[r].mode = "SHADOW" /\ run'[r] # run[r]
          => UNCHANGED <<message, delivered>> /\ ledger' = ledger]_vars

\* A pending message that a device, a handler or a task is at work on comes to an
\* outcome: a device that disappears loses its lease and the server takes over
\* (docs/plans/active/2026-07-17-agent-native-system-refactor.md:286).  There are two
\* ways out.  Other messages may have used up the plan by the time the server wants
\* to reserve again (schedule_agent_analysis.py:64 raises and leaves the message
\* pending), and a late task may bill what an active device run holds, whose expiry
\* then always rolls back (ActivePrimaryReserved below).
Pending(m) == message[m] \in {"QUEUED", "RUNNING"}

\* A handler counts while it can still write the message and has its usage to settle.
Attended(m) ==
    \/ \E r \in ActiveRuns(m) : run[r].mode = "PRIMARY"
    \/ \E p \in Procs :
          /\ proc[p].message = m
          /\ \/ proc[p].pc \in {"enqueue", "queued"} \cup Analysing
             \/ proc[p].pc \in {"claim", "mark"} /\ p \in current[m]
             \/ /\ proc[p].pc = "reserve" /\ p \in current[m]
                /\ ledger[proc[p].key].status \in {"NONE", "RESERVED"}

OutOfPlan(m) == Reserved(m) = {} /\ Allocated >= QuotaLimit

BilledUnder(m) == \E r \in ActiveRuns(m) : /\ run[r].mode = "PRIMARY"
                                         /\ ledger[run[r].key].status # "RESERVED"

AnalysisSettles ==
    \A m \in Messages :
        Pending(m) /\ Attended(m) ~> ~Pending(m) \/ OutOfPlan(m) \/ BilledUnder(m)

\* What the code does not guarantee.

\* A late server worker does not consume the reservation an active device run
\* holds (backend/tests/test_analysis_run_postgres.py:444).
ActivePrimaryReserved ==
    \A r \in Runs : run[r].mode = "PRIMARY" /\ run[r].status \in Active
                    => ledger[run[r].key].status = "RESERVED"

=============================================================================
