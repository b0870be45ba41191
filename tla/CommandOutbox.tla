---------------------------- MODULE CommandOutbox ----------------------------
(***************************************************************************)
(* Status changes made offline: the phone's durable outbox, the drain that  *)
(* sends it between two syncs, the network, and the server that applies a   *)
(* command once, on the version of the opportunity the user saw.            *)
(*                                                                         *)
(* The phone sees opportunities through its replica (SyncReplica, which     *)
(* SyncFeed implements).  opp[o] is the sequence of the opportunity's       *)
(* committed contents: its length is the aggregate_version.                 *)
(*                                                                         *)
(* A request first loads the opportunity and later takes its row lock; the  *)
(* session keeps the copy loaded first, so version and status are judged on *)
(* a copy that may be old.  What stops a write over a newer version is then *)
(* only the unique (aggregate, version) of the change it appends.           *)
(*                                                                         *)
(* One drain runs at a time (inFlight of installedSync.ts), after a sync.   *)
(* A drain stops after 50 commands; instances are smaller.                  *)
(***************************************************************************)
EXTENDS OpportunityState, Integers, Sequences, FiniteSets

CONSTANTS
    Opportunities,  \* opportunities of the owner
    Commands,       \* commands, in the order they are created
    Targets,        \* statuses the users and the server set
    MaxForeign,     \* other writers stop at this version
    MaxActive,      \* maxActiveCommands
    MaxAttempts,    \* maxAttempts
    MaxFaults       \* bound on late and lost answers, aborts, refusals, kills, resets

ASSUME ConstantsAssumption ==
    /\ Commands \subseteq Nat \ {0} /\ IsFiniteSet(Commands)
    /\ Targets \subseteq Statuses
    /\ MaxForeign \in Nat \ {0} /\ MaxActive \in Nat
    /\ MaxAttempts \in Nat \ {0} /\ MaxFaults \in Nat

VARIABLES
    opp,       \* committed contents of each opportunity, oldest first
    receipts,  \* commands with an internal_command_receipts row
    store,     \* version of each opportunity in the replica
    ready,     \* the replica may be read
    outbox,    \* command_outbox
    overdue,   \* commands past their expires_at
    drain,     \* the running drain
    requests,  \* requests on their way or being handled
    applied,   \* history: the versions each command was applied over
    faults     \* how many faults have happened

replica == <<store, ready>>
phone == <<store, ready, outbox, overdue, drain>>
vars == <<opp, receipts, phone, requests, applied, faults>>

Content == [status : Statuses, archived : BOOLEAN]

Version(o) == Len(opp[o])

Replica == INSTANCE SyncReplica WITH
    Aggregates <- Opportunities, Versions <- 0..(MaxForeign + Cardinality(Commands)),
    row <- [o \in Opportunities |-> Version(o)]

\* Commands that still have to be settled.  "stale" is a running row that is
\* older than five minutes, "backoff" and "due" a failed row with a
\* next_attempt_at ahead or passed.
Active == {"pending", "running", "stale", "backoff", "due"}

\* A dismissed or wiped row is "deleted"; its other fields are kept for the
\* properties to speak of.  Only an attempt cut short by a fault is not counted
\* against MaxAttempts.
Command == [state : {"unused", "succeeded", "failed", "deleted"} \cup Active,
            opportunity : Opportunities \cup {"none"}, expected : Nat, status : Statuses,
            attempts : 0..(MaxAttempts + MaxFaults),
            error : {"none", "version_conflict", "rejected", "retry_exhausted", "expired"}]

Unused == [state |-> "unused", opportunity |-> "none", expected |-> 0,
           status |-> "pending_human", attempts |-> 0, error |-> "none"]

\* loaded is the version of the copy the handler has, 0 before it has one.
Request == [command : Commands, attempt : Nat, loaded : Nat]

Verdicts == {"none", "succeeded", "version_conflict", "rejected", "transient", "interrupted"}

Stopped == [pc |-> "idle", command |-> 0, verdict |-> "none"]

Drain == [pc : {"idle", "claim"}, command : {0}, verdict : {"none"}]
         \cup [pc : {"check", "wait", "mark"}, command : Commands, verdict : Verdicts]

Target(c) == outbox[c].opportunity

-----------------------------------------------------------------------------
(* Other writers of an opportunity, and the replica. *)

\* Another session archives or restores it, or writes something else with or
\* without a status change.
Write(o) ==
    /\ Version(o) < MaxForeign
    /\ \E content \in Content :
        /\ content.status \in Targets \cup {opp[o][Version(o)].status}
        /\ Allowed(opp[o][Version(o)].status, content.status)
        /\ \/ content.status = opp[o][Version(o)].status
           \/ ~content.archived /\ ~opp[o][Version(o)].archived
        /\ opp' = [opp EXCEPT ![o] = Append(@, content)]
    /\ UNCHANGED <<receipts, phone, requests, applied, faults>>

\* runOwnerSync: never beside a drain.
Sync ==
    /\ drain.pc = "idle"
    /\ UNCHANGED <<opp, receipts, outbox, overdue, drain, requests, applied, faults>>
    /\ Replica!Fill

\* The replica is marked broken or built anew; the outbox stays.
Reset ==
    /\ faults < MaxFaults /\ faults' = faults + 1
    /\ ready
    /\ UNCHANGED <<opp, receipts, outbox, overdue, drain, requests, applied>>
    /\ Replica!Lose

\* clearLocalUserData wipes the outbox, too, under a drain that goes on.
SignOut ==
    /\ faults < MaxFaults /\ faults' = faults + 1
    /\ ready
    /\ outbox' = [c \in Commands |->
            IF outbox[c].state = "unused" THEN outbox[c]
            ELSE [outbox[c] EXCEPT !.state = "deleted"]]
    /\ store' = [o \in Opportunities |-> 0] /\ ready' = FALSE
    /\ UNCHANGED <<opp, receipts, overdue, drain, requests, applied>>

-----------------------------------------------------------------------------
(* The user. *)

ActiveCommands == {c \in Commands : outbox[c].state \in Active}

\* enqueueOpportunityStatusCommand: on the version the replica shows.  Failed
\* commands of the opportunity are replaced.
Enqueue(c, o, s) ==
    /\ ready
    /\ outbox[c].state = "unused" /\ \A d \in Commands : d < c => outbox[d].state # "unused"
    /\ \A d \in ActiveCommands : Target(d) # o
    /\ Cardinality(ActiveCommands) < MaxActive
    /\ store[o] > 0 /\ ~opp[o][store[o]].archived
    /\ outbox' = [d \in Commands |->
            IF d = c THEN [state |-> "pending", opportunity |-> o, expected |-> store[o],
                           status |-> s, attempts |-> 0, error |-> "none"]
            ELSE IF Target(d) = o /\ outbox[d].state = "failed"
            THEN [outbox[d] EXCEPT !.state = "deleted"]
            ELSE outbox[d]]
    /\ UNCHANGED <<opp, receipts, replica, overdue, drain, requests, applied, faults>>

\* dismissTerminalCommand
Dismiss(c) ==
    /\ outbox[c].state = "failed"
    /\ outbox' = [outbox EXCEPT ![c].state = "deleted"]
    /\ UNCHANGED <<opp, receipts, replica, overdue, drain, requests, applied, faults>>

-----------------------------------------------------------------------------
(* Time. *)

Overdue(c) ==
    /\ outbox[c].state \in Active /\ c \notin overdue
    /\ overdue' = overdue \cup {c}
    /\ UNCHANGED <<opp, receipts, replica, outbox, drain, requests, applied, faults>>

BackoffEnds(c) ==
    /\ outbox[c].state = "backoff"
    /\ outbox' = [outbox EXCEPT ![c].state = "due"]
    /\ UNCHANGED <<opp, receipts, replica, overdue, drain, requests, applied, faults>>

\* A row that was running when the app was killed becomes five minutes old.
GoesStale(c) ==
    /\ outbox[c].state = "running" /\ (drain.pc # "idle" => drain.command # c)
    /\ outbox' = [outbox EXCEPT ![c].state = "stale"]
    /\ UNCHANGED <<opp, receipts, replica, overdue, drain, requests, applied, faults>>

\* A receipt is kept for 30 days, a command for 7.
ForgetReceipt(c) ==
    /\ c \in receipts /\ c \in overdue
    /\ drain.pc # "idle" => drain.command # c
    /\ \A r \in requests : r.command # c
    /\ receipts' = receipts \ {c}
    /\ UNCHANGED <<opp, phone, requests, applied, faults>>

-----------------------------------------------------------------------------
(* The drain. *)

\* Mutant: what was interrupted is not taken up again.
StartDrainKeepsStale ==
    /\ drain.pc = "idle" /\ ready
    /\ outbox' = [c \in Commands |->
            IF c \in ActiveCommands \cap overdue
            THEN [outbox[c] EXCEPT !.state = "failed", !.error = "expired"]
            ELSE outbox[c]]
    /\ drain' = [Stopped EXCEPT !.pc = "claim"]
    /\ UNCHANGED <<opp, receipts, replica, overdue, requests, applied, faults>>

\* prepareOutbox: what is overdue has expired, what was interrupted is due.
StartDrain ==
    /\ drain.pc = "idle" /\ ready
    /\ outbox' = [c \in Commands |->
            IF c \in ActiveCommands \cap overdue
            THEN [outbox[c] EXCEPT !.state = "failed", !.error = "expired"]
            ELSE IF outbox[c].state = "stale" THEN [outbox[c] EXCEPT !.state = "due"]
            ELSE outbox[c]]
    /\ drain' = [Stopped EXCEPT !.pc = "claim"]
    /\ UNCHANGED <<opp, receipts, replica, overdue, requests, applied, faults>>

Claimable == {c \in Commands \ overdue : outbox[c].state \in {"pending", "due"}}

\* claimNextCommand: the oldest one.
Claim ==
    /\ drain.pc = "claim"
    /\ \E c \in Claimable :
        /\ \A d \in Claimable : c <= d
        /\ outbox' = [outbox EXCEPT ![c].state = "running", ![c].attempts = @ + 1]
        /\ drain' = [Stopped EXCEPT !.pc = "check", !.command = c]
    /\ UNCHANGED <<opp, receipts, replica, overdue, requests, applied, faults>>

EndDrain ==
    /\ drain.pc = "claim" /\ Claimable = {}
    /\ drain' = Stopped
    /\ UNCHANGED <<opp, receipts, replica, outbox, overdue, requests, applied, faults>>

\* Before the first attempt the replica must still show the expected version.
Check ==
    /\ drain.pc = "check"
    /\ LET c == drain.command IN
       IF outbox[c].attempts = 1 /\ store[Target(c)] # outbox[c].expected
       THEN /\ drain' = [drain EXCEPT !.pc = "mark", !.verdict = "version_conflict"]
            /\ UNCHANGED requests
       ELSE /\ drain' = [drain EXCEPT !.pc = "wait"]
            /\ requests' = requests \cup
                   {[command |-> c, attempt |-> outbox[c].attempts, loaded |-> 0]}
    /\ UNCHANGED <<opp, receipts, replica, outbox, overdue, applied, faults>>

Awaits(r) ==
    drain.pc = "wait" /\ drain.command = r.command /\ outbox[r.command].attempts = r.attempt

\* An answer ends the wait for it; nobody waits for a late one.
Answer(r, verdict) ==
    drain' = IF Awaits(r) THEN [drain EXCEPT !.pc = "mark", !.verdict = verdict] ELSE drain

\* Mutant: retries are not counted.
MarkForever ==
    /\ drain.pc = "mark"
    /\ LET c == drain.command
           v == drain.verdict
       IN /\ IF outbox[c].state # "running" THEN UNCHANGED outbox
             ELSE outbox' = [outbox EXCEPT
                ![c].state = CASE v = "succeeded" -> "succeeded"
                               [] v \in {"version_conflict", "rejected"} -> "failed"
                               [] v = "interrupted" -> "due"
                               [] v = "transient" -> "backoff",
                ![c].error = IF v \in {"version_conflict", "rejected"} THEN v ELSE "none"]
          /\ drain' = IF v \in {"succeeded", "version_conflict"}
                      THEN [Stopped EXCEPT !.pc = "claim"] ELSE Stopped
    /\ UNCHANGED <<opp, receipts, replica, overdue, requests, applied, faults>>

\* markCommand: only a row that is still running.  What ends a drain and what
\* lets it go on depends on the verdict.
Mark ==
    /\ drain.pc = "mark"
    /\ LET c == drain.command
           v == drain.verdict
           exhausted == outbox[c].attempts >= MaxAttempts
       IN /\ IF outbox[c].state # "running" THEN UNCHANGED outbox
             ELSE outbox' = [outbox EXCEPT
                ![c].state = CASE v = "succeeded" -> "succeeded"
                               [] v \in {"version_conflict", "rejected"} -> "failed"
                               [] v = "interrupted" -> "due"
                               [] v = "transient" -> IF exhausted THEN "failed" ELSE "backoff",
                ![c].error = CASE v \in {"version_conflict", "rejected"} -> v
                               [] v = "transient" /\ exhausted -> "retry_exhausted"
                               [] OTHER -> "none"]
          /\ drain' = IF v \in {"succeeded", "version_conflict"}
                      THEN [Stopped EXCEPT !.pc = "claim"] ELSE Stopped
    /\ UNCHANGED <<opp, receipts, replica, overdue, requests, applied, faults>>

\* No answer comes, or not in time; the request may still be under way.
Timeout ==
    /\ drain.pc = "wait"
    /\ IF \E r \in requests : Awaits(r)
       THEN faults < MaxFaults /\ faults' = faults + 1
       ELSE UNCHANGED faults
    /\ drain' = [drain EXCEPT !.pc = "mark", !.verdict = "transient"]
    /\ UNCHANGED <<opp, receipts, replica, outbox, overdue, requests, applied>>

\* The signal of the drain is aborted during the request.
Abort ==
    /\ faults < MaxFaults /\ faults' = faults + 1
    /\ drain.pc = "wait"
    /\ drain' = [drain EXCEPT !.pc = "mark", !.verdict = "interrupted"]
    /\ UNCHANGED <<opp, receipts, replica, outbox, overdue, requests, applied>>

\* The app is killed.
Kill ==
    /\ faults < MaxFaults /\ faults' = faults + 1
    /\ drain.pc # "idle"
    /\ drain' = Stopped
    /\ UNCHANGED <<opp, receipts, replica, outbox, overdue, requests, applied>>

-----------------------------------------------------------------------------
(* The server. *)

\* The phone is offline or the server is down.
Unreachable(r) ==
    /\ r.loaded = 0
    /\ requests' = requests \ {r}
    /\ Answer(r, "transient")
    /\ UNCHANGED <<opp, receipts, replica, outbox, overdue, applied, faults>>

\* The session, the limit or the key is refused before anything is read.
Refuse(r) ==
    /\ faults < MaxFaults /\ faults' = faults + 1
    /\ r.loaded = 0
    /\ requests' = requests \ {r}
    /\ Answer(r, "rejected")
    /\ UNCHANGED <<opp, receipts, replica, outbox, overdue, applied>>

\* get_opportunity_or_404
Load(r) ==
    /\ r.loaded = 0
    /\ requests' = (requests \ {r}) \cup {[r EXCEPT !.loaded = Version(Target(r.command))]}
    /\ UNCHANGED <<opp, receipts, phone, applied, faults>>

\* Mutant: only the version of the copy is judged.
AcceptsAny(r) == r.loaded = outbox[r.command].expected

\* transition_status judges the copy it has.
Accepts(r) ==
    LET c == outbox[r.command]
        copy == opp[Target(r.command)][r.loaded]
    IN ~copy.archived /\ r.loaded = c.expected /\ Allowed(copy.status, c.status)

\* Mutant: nothing makes the change of a version unique.
NotUnique(r) == TRUE

\* The change appended with the row is the first of its version.
Current(r) == r.loaded = Version(Target(r.command))

\* Mutant: the copy is judged before the receipt is looked up.
ReplyJudgedFirst(r) ==
    IF Accepts(r) /\ (r.command \in receipts \/ Current(r)) THEN "succeeded"
    ELSE IF ~Accepts(r) THEN "version_conflict"
    ELSE "transient"

\* Mutant: a write that another one has overtaken is answered like a repeated one.
ReplyOvertakenSucceeds(r) ==
    IF r.command \in receipts THEN "succeeded"
    ELSE IF ~Accepts(r) THEN "version_conflict"
    ELSE "succeeded"

\* A receipt answers first; then the copy is judged; an overtaken write fails.
Reply(r) ==
    IF r.command \in receipts THEN "succeeded"
    ELSE IF ~Accepts(r) THEN "version_conflict"
    ELSE IF Current(r) THEN "succeeded"
    ELSE "transient"

Applies(r) == r.command \notin receipts /\ Accepts(r) /\ Current(r)

\* transition_status under the row lock: status, change and receipt commit
\* together.  The answer may be lost.
Execute(r) ==
    LET o == Target(r.command) IN
    /\ r.loaded > 0
    /\ IF Applies(r)
       THEN /\ opp' = [opp EXCEPT ![o] = Append(@, [status |-> outbox[r.command].status,
                                                   archived |-> FALSE])]
            /\ receipts' = receipts \cup {r.command}
            /\ applied' = [applied EXCEPT ![r.command] = @ \cup {Version(o)}]
       ELSE UNCHANGED <<opp, receipts, applied>>
    /\ requests' = requests \ {r}
    /\ \/ Answer(r, Reply(r)) /\ UNCHANGED faults
       \/ faults < MaxFaults /\ faults' = faults + 1 /\ UNCHANGED drain
    /\ UNCHANGED <<replica, outbox, overdue>>

-----------------------------------------------------------------------------
Init ==
    /\ opp = [o \in Opportunities |-> <<[status |-> "pending_human", archived |-> FALSE]>>]
    /\ receipts = {} /\ overdue = {} /\ requests = {} /\ faults = 0
    /\ store = [o \in Opportunities |-> 0] /\ ready = FALSE
    /\ outbox = [c \in Commands |-> Unused]
    /\ drain = Stopped
    /\ applied = [c \in Commands |-> {}]

Serve == \E r \in requests : Load(r) \/ Execute(r) \/ Unreachable(r)

Work == StartDrain \/ Claim \/ EndDrain \/ Check \/ Mark \/ Timeout

Time == \E c \in Commands : Overdue(c) \/ BackoffEnds(c) \/ GoesStale(c) \/ ForgetReceipt(c)

User == \E c \in Commands :
    Dismiss(c) \/ \E o \in Opportunities, s \in Targets : Enqueue(c, o, s)

Fault == Reset \/ SignOut \/ Abort \/ Kill \/ \E r \in requests : Refuse(r)

Next == (\E o \in Opportunities : Write(o)) \/ Sync \/ User \/ Time \/ Work \/ Serve \/ Fault

Spec == Init /\ [][Next]_vars

\* The app syncs and drains whenever it runs; the server answers; time passes.
FairSpec ==
    /\ Spec
    /\ WF_vars(Sync) /\ WF_vars(Work)
    /\ \A c \in Commands : WF_vars(BackoffEnds(c)) /\ WF_vars(GoesStale(c))
    /\ WF_vars(Serve)

-----------------------------------------------------------------------------
(* Properties. *)

TypeOK ==
    /\ opp \in [Opportunities -> Seq(Content)] /\ \A o \in Opportunities : Version(o) > 0
    /\ receipts \subseteq Commands /\ overdue \subseteq Commands
    /\ store \in [Opportunities -> Nat] /\ ready \in BOOLEAN
    /\ outbox \in [Commands -> Command] /\ drain \in Drain
    /\ requests \subseteq Request /\ applied \in [Commands -> SUBSET Nat]
    /\ faults \in 0..MaxFaults

\* A command takes effect on exactly the version its user saw, hence at most
\* once: retries, late requests and old copies never put it on top of a change
\* the user did not see.
OnlyOverSeen == \A c \in Commands : applied[c] \subseteq {outbox[c].expected}

\* A command reported as a version conflict has not taken effect and no request
\* still under way will make it so.
ConflictMeansUntouched ==
    \A c \in Commands : outbox[c].error = "version_conflict" => applied[c] = {}

\* A command reported as done is done.
SucceededMeansApplied ==
    \A c \in Commands : outbox[c].state = "succeeded" => applied[c] # {}

\* What StatusChanges speaks of.
Asked == [c \in Commands |->
    [opportunity |-> outbox[c].opportunity, seen |-> outbox[c].expected,
     status |-> outbox[c].status]]

Done == {c \in Commands : applied[c] # {}}

Succeeded == {c \in Commands : outbox[c].state = "succeeded"}

Conflicted == {c \in Commands : outbox[c].error = "version_conflict"}

Changes == INSTANCE StatusChanges WITH
    asked <- Asked, done <- Done, succeeded <- Succeeded, conflicted <- Conflicted

\* Outbox, drain, network and server together are what StatusChanges promises:
\* each command a single change or none, over what its user saw and as
\* ensure_transition_allowed has it, and told as it is.
StatusChangesSpec == Changes!Spec

\* Every queued command is settled in the end: applied, refused, expired, given
\* up, or wiped with its owner's data.
QueuedSettles ==
    \A c \in Commands :
        outbox[c].state \in Active ~> outbox[c].state \in {"succeeded", "failed", "deleted"}
=============================================================================
