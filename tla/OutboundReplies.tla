--------------------------- MODULE OutboundReplies ---------------------------
(***************************************************************************)
(* Replies to the customer of one opportunity: the ones the owner sends     *)
(* (ManualReplyUseCase) and the one the server may send by itself           *)
(* (AIAutoReplyUseCase), with their delivery ledgers, the provider, and the *)
(* other writers of the opportunity.                                        *)
(*                                                                         *)
(* A request or task runs in one database session, which keeps the first    *)
(* copy it loaded of a row: session.get, also FOR UPDATE, gives that copy   *)
(* again, until the session refreshes it.  A write of the opportunity fails *)
(* if its copy is not the committed version, because the change it appends  *)
(* must be the first of its version; a write of a delivery always succeeds. *)
(*                                                                         *)
(* After a rollback every copy of the session is expired, and reading one   *)
(* raises, as the async session cannot load it then: a request or task that *)
(* does so ends there.                                                      *)
(***************************************************************************)
EXTENDS OpportunityState, Integers, FiniteSets

CONSTANTS
    Keys,        \* idempotency keys of manual replies
    Procs,       \* request handlers and workers
    AutoReply,   \* the automatic reply, which is no key
    Targets,     \* statuses the others set
    MaxVersion,  \* other writers stop at this version
    MaxTasks,    \* bound on the deliveries of the task and on manual requests
    MaxFaults    \* bound on crashes, refusals and lost answers

ASSUME ConstantsAssumption ==
    /\ AutoReply \notin Keys /\ Targets \subseteq Statuses
    /\ MaxVersion \in Nat \ {0} /\ MaxTasks \in Nat /\ MaxFaults \in Nat

VARIABLES
    opp,       \* the opportunity: version, status, archived, assigned
    manual,    \* status of the ManualReplyDelivery of each key
    auto,      \* status of the AutoReplyDelivery
    accepted,  \* how often the provider accepted each reply
    messages,  \* outgoing Messages
    procs,     \* the requests and tasks
    starts,    \* how many were started
    faults     \* how many faults have happened

ledgers == <<manual, auto>>
outside == <<accepted, messages>>
vars == <<opp, ledgers, outside, procs, starts, faults>>

Opportunity == [version : Nat, status : Statuses, archived : BOOLEAN,
                assigned : {"nobody", "human", "ai"}]

ManualStatus == {"none", "pending", "sending", "failed", "uncertain", "delivered", "completed"}

AutoStatus == {"none", "candidate", "generating", "ready", "sending", "sent", "blocked", "dry_run"}

Pcs == {"idle", "reserve", "check", "claim", "send", "accepted", "record", "finalize",
        "complete", "lookup", "insert", "candidate", "evaluate", "draft", "ready",
        "claim_ready", "claimed", "send_auto", "sent", "record_auto", "replied", "to_human",
        "reconcile"}

\* copy is the session's copy of the opportunity; target the status a manual
\* reply leads to; expired tells that the session was rolled back.
Proc == [pc : Pcs, key : Keys \cup {AutoReply}, target : Statuses, copy : Opportunity,
         expired : BOOLEAN]

Idle == [pc |-> "idle", key |-> AutoReply, target |-> "replied",
         copy |-> [version |-> 0, status |-> "pending_human", archived |-> FALSE,
                   assigned |-> "nobody"],
         expired |-> FALSE]

-----------------------------------------------------------------------------
(* Steps of a session. *)

Goto(p, pc) == procs' = [procs EXCEPT ![p].pc = pc]

End(p) == procs' = [procs EXCEPT ![p] = Idle]

\* Mutant: nothing makes the change of a version unique.
FreshUnchecked(p) == TRUE

\* The copy is the committed version.
Fresh(p) == procs[p].copy.version = opp.version

\* Commit a changed copy of the opportunity and go on; an overtaken copy fails
\* the flush and ends the request or task.  A refresh of the copy after the
\* commit is a transaction of its own, and a step of its own where the copy is
\* used again.
WriteOpportunity(p, copy, pc) ==
    IF Fresh(p)
    THEN LET written == [copy EXCEPT !.version = @ + 1]
         IN /\ opp' = written
            /\ procs' = IF pc = "idle" THEN [procs EXCEPT ![p] = Idle]
                        ELSE [procs EXCEPT ![p].pc = pc, ![p].copy = written]
    ELSE End(p) /\ UNCHANGED opp

Failing == faults < MaxFaults /\ faults' = faults + 1

-----------------------------------------------------------------------------
(* Other writers: the owner's sessions and the sweep. *)

Change(new) ==
    /\ opp.version < MaxVersion
    /\ opp' = [new EXCEPT !.version = @ + 1]
    /\ UNCHANGED <<ledgers, outside, procs, starts, faults>>

\* transition_status; it does not look at who is assigned.
SetStatus(s) == ~opp.archived /\ Allowed(opp.status, s) /\ Change([opp EXCEPT !.status = s])

Archive == ~opp.archived /\ Change([opp EXCEPT !.archived = TRUE])

Restore == opp.archived /\ Change([opp EXCEPT !.archived = FALSE])

\* Mutant: a human may take what the automatic reply holds.
ClaimAnyway ==
    /\ ~opp.archived
    /\ Change([opp EXCEPT !.assigned = "human"])

\* claim: refused while somebody, or the automatic reply, has it.
ClaimOpportunity ==
    /\ ~opp.archived /\ opp.assigned = "nobody"
    /\ Change([opp EXCEPT !.assigned = "human"])

-----------------------------------------------------------------------------
(* A manual reply. *)

\* The route refuses an archived opportunity.
StartManual(p, k) ==
    /\ procs[p].pc = "idle" /\ starts < MaxTasks /\ starts' = starts + 1
    /\ ~opp.archived
    /\ \E target \in {"following", "replied"} :
        procs' = [procs EXCEPT ![p] = [Idle EXCEPT !.pc = "reserve", !.key = k,
                                                   !.target = target, !.copy = opp]]
    /\ UNCHANGED <<opp, ledgers, outside, faults>>

\* Mutant: a delivery that exists is sent again, whatever its status.
ReserveAgain(p) ==
    /\ procs[p].pc = "reserve"
    /\ manual' = [manual EXCEPT ![procs[p].key] = "pending"] /\ Goto(p, "check")
    /\ UNCHANGED <<opp, auto, outside, starts, faults>>

\* reserve: the key is unique.  For a key that exists the session rolls back,
\* and comparing the delivery with the expired opportunity ends the request.
Reserve(p) ==
    /\ procs[p].pc = "reserve"
    /\ LET k == procs[p].key IN
       IF manual[k] = "none"
       THEN manual' = [manual EXCEPT ![k] = "pending"] /\ Goto(p, "check")
       ELSE End(p) /\ UNCHANGED manual
    /\ UNCHANGED <<opp, auto, outside, starts, faults>>

\* OpportunityRepository.get gives the copy again.
CheckCurrent(p) ==
    /\ procs[p].pc = "check"
    /\ IF ~procs[p].copy.archived /\ Allowed(procs[p].copy.status, procs[p].target)
       THEN Goto(p, "claim") ELSE End(p)
    /\ UNCHANGED <<opp, ledgers, outside, starts, faults>>

\* claim_send_attempt; the version of an approved reply is compared with the
\* copy it was taken from.
ClaimSend(p) ==
    /\ procs[p].pc = "claim"
    /\ manual' = [manual EXCEPT ![procs[p].key] = "sending"]
    /\ Goto(p, "send")
    /\ UNCHANGED <<opp, auto, outside, starts, faults>>

\* The provider accepts the reply and says so.
Send(p) ==
    /\ procs[p].pc = "send"
    /\ accepted' = [accepted EXCEPT ![procs[p].key] = @ + 1]
    /\ Goto(p, "accepted")
    /\ UNCHANGED <<opp, ledgers, messages, starts, faults>>

\* Mutant: a lost answer counts as a failure before the delivery.
SendUncertainRecorded(p) ==
    /\ procs[p].pc = "send" /\ Failing
    /\ \/ manual' = [manual EXCEPT ![procs[p].key] = "failed"] /\ UNCHANGED <<messages, accepted>>
       \/ /\ manual' = [manual EXCEPT ![procs[p].key] = "uncertain"]
          /\ messages' = messages \cup {procs[p].key}
          /\ accepted' \in {accepted, [accepted EXCEPT ![procs[p].key] = @ + 1]}
    /\ End(p)
    /\ UNCHANGED <<opp, auto, starts>>

\* Sending is disabled, or the provider fails, perhaps after accepting.
SendFails(p) ==
    /\ procs[p].pc = "send" /\ Failing
    /\ \/ manual' = [manual EXCEPT ![procs[p].key] = "failed"] /\ UNCHANGED accepted
       \/ /\ manual' = [manual EXCEPT ![procs[p].key] = "uncertain"]
          /\ accepted' \in {accepted, [accepted EXCEPT ![procs[p].key] = @ + 1]}
    /\ End(p)
    /\ UNCHANGED <<opp, auto, messages, starts>>

\* Mutant: the status of the other ledger is used.
MarkDeliveredAsSent(p) ==
    /\ procs[p].pc = "accepted"
    /\ manual' = [manual EXCEPT ![procs[p].key] = "sent"]
    /\ Goto(p, "record")
    /\ UNCHANGED <<opp, auto, outside, starts, faults>>

MarkDelivered(p) ==
    /\ procs[p].pc = "accepted"
    /\ manual' = [manual EXCEPT ![procs[p].key] = "delivered"]
    /\ Goto(p, "record")
    /\ UNCHANGED <<opp, auto, outside, starts, faults>>

\* create_outgoing_idempotent
Record(p) ==
    /\ procs[p].pc = "record"
    /\ messages' = messages \cup {procs[p].key}
    /\ Goto(p, "finalize")
    /\ UNCHANGED <<opp, ledgers, accepted, starts, faults>>

\* finalize_manual_reply: archive and status are judged on the copy.
Finalize(p) ==
    /\ procs[p].pc = "finalize"
    /\ LET c == procs[p].copy
           moves == ~c.archived /\ Allowed(c.status, procs[p].target)
       IN WriteOpportunity(p, [c EXCEPT
              !.assigned = IF @ = "nobody" THEN "human" ELSE @,
              !.status = IF moves THEN procs[p].target ELSE @], "complete")
    /\ UNCHANGED <<ledgers, outside, starts, faults>>

MarkCompleted(p) ==
    /\ procs[p].pc = "complete"
    /\ manual' = [manual EXCEPT ![procs[p].key] = "completed"]
    /\ End(p)
    /\ UNCHANGED <<opp, auto, outside, starts, faults>>

-----------------------------------------------------------------------------
(* The automatic reply. *)

\* A task of the analysis or the sweep, perhaps delivered twice.
StartAuto(p) ==
    /\ procs[p].pc = "idle" /\ starts < MaxTasks /\ starts' = starts + 1
    /\ procs' = [procs EXCEPT ![p] = [Idle EXCEPT !.pc = "lookup", !.copy = opp]]
    /\ UNCHANGED <<opp, ledgers, outside, faults>>

\* What a task does with a delivery it finds.
Found(p, expired) ==
    CASE auto = "sent" /\ ~expired -> Goto(p, "reconcile")
      [] auto = "candidate" -> procs' = [procs EXCEPT ![p].pc = "candidate",
                                                      ![p].expired = expired]
      [] OTHER -> End(p)

\* reserve looks for the delivery first,
Lookup(p) ==
    /\ procs[p].pc = "lookup"
    /\ IF auto = "none" THEN Goto(p, "insert") ELSE Found(p, FALSE)
    /\ UNCHANGED <<opp, ledgers, outside, starts, faults>>

\* and inserts it unless another task has by then.
Insert(p) ==
    /\ procs[p].pc = "insert"
    /\ IF auto = "none" THEN auto' = "candidate" /\ Goto(p, "candidate")
       ELSE Found(p, TRUE) /\ UNCHANGED auto
    /\ UNCHANGED <<opp, manual, outside, starts, faults>>

\* claim_candidate judges the copy of the delivery, a candidate, whatever it
\* has become.  With expired copies the evaluation raises.
ClaimCandidate(p) ==
    /\ procs[p].pc = "candidate"
    /\ auto' = "generating"
    /\ IF procs[p].expired THEN End(p) ELSE Goto(p, "evaluate")
    /\ UNCHANGED <<opp, manual, outside, starts, faults>>

\* The copy is open for an automatic reply.
OpenForAuto(c) == c.status = "ai_auto_reply" /\ ~c.archived /\ c.assigned = "nobody"

\* evaluate_auto_reply or the check of the draft may refuse for other reasons.
Evaluate(p) ==
    /\ procs[p].pc = "evaluate"
    /\ \/ OpenForAuto(procs[p].copy) /\ Goto(p, "draft") /\ UNCHANGED auto
       \/ auto' = "blocked" /\ Goto(p, "to_human")
    /\ UNCHANGED <<opp, manual, outside, starts, faults>>

\* The generator fails: marking the delivery failed raises after the rollback.
GenerationFails(p) ==
    /\ procs[p].pc = "draft" /\ Failing
    /\ End(p)
    /\ UNCHANGED <<opp, ledgers, outside, starts>>

SaveDraft(p) ==
    /\ procs[p].pc = "draft"
    /\ WriteOpportunity(p, procs[p].copy, "ready")
    /\ UNCHANGED <<ledgers, outside, starts, faults>>

\* The refresh after save_ai_draft, which may bring later changes, and
\* mark_ready.
MarkReady(p) ==
    /\ procs[p].pc = "ready"
    /\ auto' = "ready"
    /\ procs' = [procs EXCEPT ![p].pc = "claim_ready", ![p].copy = opp]
    /\ UNCHANGED <<opp, manual, outside, starts, faults>>

\* claim_ready_for_send: the opportunity and the delivery in one transaction.
ClaimReady(p) ==
    /\ procs[p].pc = "claim_ready"
    /\ IF OpenForAuto(procs[p].copy)
       THEN /\ WriteOpportunity(p, [procs[p].copy EXCEPT !.assigned = "ai"], "claimed")
            /\ auto' = IF Fresh(p) THEN "sending" ELSE auto
       ELSE auto' = "blocked" /\ End(p) /\ UNCHANGED opp
    /\ UNCHANGED <<manual, outside, starts, faults>>

\* The refresh after that commit, which may bring later changes too; nothing
\* looks at them.
LoadClaimed(p) ==
    /\ procs[p].pc = "claimed"
    /\ procs' = [procs EXCEPT ![p].pc = "send_auto", ![p].copy = opp]
    /\ UNCHANGED <<opp, ledgers, outside, starts, faults>>

SendAuto(p) ==
    /\ procs[p].pc = "send_auto"
    /\ accepted' = [accepted EXCEPT ![AutoReply] = @ + 1]
    /\ Goto(p, "sent")
    /\ UNCHANGED <<opp, ledgers, messages, starts, faults>>

\* The provider fails, perhaps after accepting: the delivery stays "sending".
SendAutoFails(p) ==
    /\ procs[p].pc = "send_auto" /\ Failing
    /\ accepted' \in {accepted, [accepted EXCEPT ![AutoReply] = @ + 1]}
    /\ End(p)
    /\ UNCHANGED <<opp, ledgers, messages, starts>>

\* The adapter reports a dry run: nothing was sent.
DryRun(p) ==
    /\ procs[p].pc = "send_auto" /\ Failing
    /\ auto' = "dry_run" /\ Goto(p, "to_human")
    /\ UNCHANGED <<opp, manual, outside, starts>>

MarkSent(p) ==
    /\ procs[p].pc = "sent"
    /\ auto' = "sent" /\ Goto(p, "record_auto")
    /\ UNCHANGED <<opp, manual, outside, starts, faults>>

RecordAuto(p) ==
    /\ procs[p].pc = "record_auto"
    /\ messages' = messages \cup {AutoReply} /\ Goto(p, "replied")
    /\ UNCHANGED <<opp, ledgers, accepted, starts, faults>>

\* update_status, which does not ask whether the transition is allowed.
MarkReplied(p) ==
    /\ procs[p].pc = "replied"
    /\ WriteOpportunity(p, [procs[p].copy EXCEPT !.status = "replied", !.assigned = "nobody"],
                        "idle")
    /\ UNCHANGED <<ledgers, outside, starts, faults>>

\* _reconcile_sent_delivery on the copy of the task: the message, then the
\* status.
Reconcile(p) ==
    /\ procs[p].pc = "reconcile"
    /\ LET c == procs[p].copy IN
       IF c.status \in {"ai_auto_reply", "replied"}
       THEN /\ messages' = messages \cup {AutoReply}
            /\ IF c.status = "ai_auto_reply" /\ c.assigned = "ai"
               THEN Goto(p, "replied") ELSE End(p)
       ELSE End(p) /\ UNCHANGED messages
    /\ UNCHANGED <<opp, ledgers, accepted, starts, faults>>

\* _send_to_human on the copy of the task.
SendToHuman(p) ==
    /\ procs[p].pc = "to_human"
    /\ LET c == procs[p].copy IN
       IF c.status = "ai_auto_reply" /\ c.assigned # "human"
       THEN WriteOpportunity(p, [c EXCEPT !.status = "pending_human", !.assigned = "nobody"],
                             "idle")
       ELSE End(p) /\ UNCHANGED opp
    /\ UNCHANGED <<ledgers, outside, starts, faults>>

\* A process dies.
Crash(p) ==
    /\ procs[p].pc # "idle" /\ Failing
    /\ End(p)
    /\ UNCHANGED <<opp, ledgers, outside, starts>>

-----------------------------------------------------------------------------
Init ==
    /\ opp = [version |-> 1, status |-> "ai_auto_reply", archived |-> FALSE,
              assigned |-> "nobody"]
    /\ manual = [k \in Keys |-> "none"] /\ auto = "none"
    /\ accepted = [k \in Keys \cup {AutoReply} |-> 0] /\ messages = {}
    /\ procs = [p \in Procs |-> Idle] /\ starts = 0 /\ faults = 0

Others == Archive \/ Restore \/ ClaimOpportunity \/ \E s \in Targets : SetStatus(s)

ManualStep(p) ==
    \/ Reserve(p) \/ CheckCurrent(p) \/ ClaimSend(p) \/ Send(p) \/ SendFails(p)
    \/ MarkDelivered(p) \/ Record(p) \/ Finalize(p) \/ MarkCompleted(p)

AutoStep(p) ==
    \/ Lookup(p) \/ Insert(p) \/ ClaimCandidate(p) \/ Evaluate(p) \/ GenerationFails(p)
    \/ SaveDraft(p) \/ MarkReady(p) \/ ClaimReady(p) \/ LoadClaimed(p) \/ SendAuto(p)
    \/ SendAutoFails(p) \/ DryRun(p) \/ MarkSent(p) \/ RecordAuto(p) \/ MarkReplied(p)
    \/ Reconcile(p) \/ SendToHuman(p)

Start(p) == StartAuto(p) \/ \E k \in Keys : StartManual(p, k)

Next == Others \/ \E p \in Procs : Start(p) \/ ManualStep(p) \/ AutoStep(p) \/ Crash(p)

Spec == Init /\ [][Next]_vars

-----------------------------------------------------------------------------
(* Properties. *)

TypeOK ==
    /\ opp \in Opportunity /\ manual \in [Keys -> ManualStatus] /\ auto \in AutoStatus
    /\ accepted \in [Keys \cup {AutoReply} -> Nat] /\ messages \subseteq Keys \cup {AutoReply}
    /\ procs \in [Procs -> Proc] /\ starts \in 0..MaxTasks /\ faults \in 0..MaxFaults

\* The provider is asked at most once for a key, and at most once for the
\* automatic reply, although its ledger can be claimed twice: of two tasks that
\* do, only the one that saves its draft first goes on.
EachSentOnce == \A k \in Keys \cup {AutoReply} : accepted[k] <= 1

\* An outgoing message is recorded only for what the provider accepted; a
\* failed or uncertain reply is never shown as sent.
RecordedWasSent == \A k \in messages : accepted[k] > 0

\* The automatic reply goes out only if, when it was claimed, the opportunity
\* itself, and not just the copy, was open for it: a human who claims, answers,
\* moves or archives it first keeps it.
ClaimedWhenOpen ==
    [][auto # "sending" /\ auto' = "sending" => OpenForAuto(opp)]_vars

\* While an automatic reply is being sent, or nobody knows whether it was, the
\* opportunity stays assigned to it, so that no human takes it over unaware.
HeldWhileSending == auto = "sending" => opp.assigned = "ai"

Replies == INSTANCE CustomerReplies

\* Ledgers, copies and workers together are what CustomerReplies promises: what
\* is held for the automatic reply is held until its outcome, and each write of
\* the opportunity, though judged on a copy, is legal on the committed row, but
\* for the status an automatic reply ends with, which nobody judges.
RepliesSpec == Replies!Spec

\* The provider is not contacted after a status change or an archive made the
\* manual reply illegal.
LegalWhenClaimed ==
    [][\A p \in Procs : procs[p].pc = "check" /\ procs'[p].pc = "claim" =>
        ~opp.archived /\ Allowed(opp.status, procs[p].target)]_vars
=============================================================================
