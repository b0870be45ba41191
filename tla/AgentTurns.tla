------------------------------ MODULE AgentTurns ------------------------------
(***************************************************************************)
(* Turns of the interactive agent: the phone that runs the agent loop, the  *)
(* server's lease and usage of each turn, the streams of the model gateway, *)
(* and the approvals by which one reply may be sent to a customer.          *)
(*                                                                         *)
(* Every server handler locks the turn first, or the owner and then the     *)
(* turn, in a new session: what it reads is committed, and one action is    *)
(* one transaction.  The gateway and the send go on after their first       *)
(* transaction; the reply itself is OutboundReplies, here only its outcome. *)
(*                                                                         *)
(* The phone waits for one call (main) and, while the host runs, for a      *)
(* heartbeat beside it (beat).  A call it no longer waits for is late: the  *)
(* server may still handle it.  A key names one turn, a tool call one       *)
(* proposed reply with its arguments.                                       *)
(***************************************************************************)
EXTENDS Integers, FiniteSets

CONSTANTS
    Turns,        \* turns, in the order they begin: their idempotency keys
    Sessions,     \* local sessions
    Replies,      \* replies the model proposes, by tool call
    NoReply,      \* none of them
    QuotaLimit,   \* interactive_agent_beta_monthly_turn_limit
    MaxRequests,  \* interactive_agent_gateway_max_requests_per_turn
    MaxApprovals, \* interactive_agent_max_approvals_per_turn
    MaxLock,      \* no heartbeat is sent from this lock version on
    MaxSpent      \* bound on turns, local tools, replies, writes of others and
                  \* faults together

ASSUME ConstantsAssumption ==
    /\ Turns \subseteq Nat \ {0} /\ IsFiniteSet(Turns) /\ "none" \notin Sessions
    /\ NoReply \notin Replies /\ IsFiniteSet(Replies)
    /\ QuotaLimit \in Nat /\ MaxRequests \in Nat /\ MaxApprovals \in Nat
    /\ MaxLock \in Nat /\ MaxLock > 1 /\ MaxSpent \in Nat

VARIABLES
    turn,       \* interactive_agent_turns
    ledger,     \* usage_ledger row of each turn
    audit,      \* interactive_agent_provider_requests by turn and sequence
    streams,    \* gateway handlers at work
    approval,   \* interactive_agent_action_approvals
    execution,  \* how far the handler that sends each reply has come
    sent,       \* how often the provider accepted each reply
    opp,        \* version of the opportunity
    available,  \* the device is active and the gates are open
    phone,      \* runInteractiveTurn
    main,       \* the call it waits for
    beat,       \* the heartbeat beside it
    late,       \* calls nobody waits for
    session,    \* session of each turn begun
    proposal,   \* what the user decided about each reply
    stored,     \* turns whose answer is in SQLite
    shown,      \* replies the agent was told are sent
    spent,      \* how many of all that there were
    faults      \* calls lost, repeated or failing, deaths and refusals among them

usage == <<turn, ledger>>
gateway == <<audit, streams>>
actions == <<approval, execution, sent, opp>>
calls == <<main, beat, late>>
local == <<session, proposal, stored, shown>>
budget == <<spent, faults>>
vars == <<usage, gateway, actions, available, phone, calls, local, budget>>

-----------------------------------------------------------------------------
(* Rows and calls. *)

Running == {"CLAIMED", "RUNNING"}

\* elapsed: lease_expires_at, or expires_at of a grant, has passed.
Turn == [status : {"none", "COMPLETED", "FAILED", "EXPIRED"} \cup Running,
         lock : 0..(MaxLock + 1), requests : 0..MaxRequests, elapsed : BOOLEAN]

NoTurn == [status |-> "none", lock |-> 0, requests |-> 0, elapsed |-> FALSE]

Approval == [status : {"none", "DENIED", "GRANTED", "EXECUTING", "CONSUMED", "FAILED",
                       "UNCERTAIN", "EXPIRED"}, elapsed : BOOLEAN]

NoProposal == [turn |-> 0, version |-> 0, decision |-> "none"]

\* "open": the gateway streams; "running": the reply is being sent.
Call == [op : {"none", "claim", "heartbeat", "complete", "fail", "open", "decide", "execute"},
         turn : Turns \cup {0}, lock : 0..(MaxLock + 1), reply : Replies \cup {NoReply},
         state : {"none", "sent", "open", "running", "ok", "refused"}]

NoCall == [op |-> "none", turn |-> 0, lock |-> 0, reply |-> NoReply, state |-> "none"]

NewCall(op, t, lock, a) ==
    [op |-> op, turn |-> t, lock |-> lock, reply |-> a, state |-> "sent"]

Spend == spent < MaxSpent /\ spent' = spent + 1

Failing == Spend /\ faults' = faults + 1

Active(t) == turn[t].status \in Running

Started(t) == {n \in 1..MaxRequests : audit[t][n] = "STARTED"}

\* Calls on their way to the server.
Arriving(op) == {c \in {main, beat} \cup late : c.op = op /\ c.state = "sent"}

\* The call is handled; the answer reaches the phone if it waits for it.
Answer(c, state, lock) ==
    \/ c = main /\ main' = [c EXCEPT !.state = state, !.lock = lock] /\ UNCHANGED <<beat, late>>
    \/ c = beat /\ beat' = [c EXCEPT !.state = state, !.lock = lock] /\ UNCHANGED <<main, late>>
    \/ c \in late /\ late' = late \ {c} /\ UNCHANGED <<main, beat>>

Refuse(c) == Answer(c, "refused", c.lock)

-----------------------------------------------------------------------------
(* Turns and usage on the server. *)

Settle(t, status, used) ==
    /\ turn' = [turn EXCEPT ![t].status = status, ![t].lock = @ + 1]
    /\ ledger' = [ledger EXCEPT ![t] = used]

\* _expire_locked: it rolls back if the usage cannot be released.
ExpireLocked(t) ==
    IF ledger[t] = "CONSUMED" THEN UNCHANGED usage ELSE Settle(t, "EXPIRED", "RELEASED")

Allocated == {t \in Turns : ledger[t] \in {"RESERVED", "CONSUMED"}}

ActiveIn(s) == {t \in Turns : session[t] = s /\ Active(t)}

\* The active turn a claim meets: its own, or that of its session.
Met(c) == IF turn[c.turn].status = "none" THEN ActiveIn(session[c.turn])
          ELSE {t \in {c.turn} : Active(t)}

Claimable(c) ==
    /\ turn[c.turn].status = "none" /\ Met(c) = {}
    /\ Cardinality(Allocated) < QuotaLimit

Claim(c) ==
    /\ IF available /\ Claimable(c)
       THEN /\ turn' = [turn EXCEPT ![c.turn] = [NoTurn EXCEPT !.status = "CLAIMED", !.lock = 1]]
            /\ ledger' = [ledger EXCEPT ![c.turn] = "RESERVED"]
            /\ Answer(c, "ok", 1)
       ELSE IF available /\ \E t \in Met(c) : turn[t].elapsed
       THEN Refuse(c) /\ \E t \in Met(c) : turn[t].elapsed /\ ExpireLocked(t)
       ELSE /\ UNCHANGED usage
            /\ IF available /\ c.turn \in Met(c) THEN Answer(c, "ok", turn[c.turn].lock)
               ELSE Refuse(c)
    /\ UNCHANGED <<gateway, actions, available, phone, local, budget>>

\* _lock_token_turn, an active status and a lease that has not ended.
Fresh(c) == available /\ Active(c.turn) /\ ~turn[c.turn].elapsed

Overdue(c) == available /\ Active(c.turn) /\ turn[c.turn].elapsed

\* A heartbeat with an older lock version is told the current one.
Heartbeat(c) ==
    LET t == c.turn IN
    /\ IF Overdue(c) THEN ExpireLocked(t) /\ Refuse(c)
       ELSE IF Fresh(c) /\ c.lock = turn[t].lock
       THEN /\ turn' = [turn EXCEPT ![t].status = "RUNNING", ![t].lock = @ + 1]
            /\ UNCHANGED ledger /\ Answer(c, "ok", turn[t].lock + 1)
       ELSE /\ UNCHANGED usage
            /\ IF Fresh(c) /\ c.lock < turn[t].lock THEN Answer(c, "ok", turn[t].lock)
               ELSE Refuse(c)
    /\ UNCHANGED <<gateway, actions, available, phone, local, budget>>

\* Mutant: the lock version alone decides.
EndUnchecked(c, status, used) ==
    LET t == c.turn IN
    /\ IF Overdue(c) THEN ExpireLocked(t) /\ Refuse(c)
       ELSE IF available /\ c.lock <= turn[t].lock
       THEN Settle(t, status, used) /\ Answer(c, "ok", turn[t].lock + 1)
       ELSE UNCHANGED usage /\ Refuse(c)
    /\ UNCHANGED <<gateway, actions, available, phone, local, budget>>

\* complete and fail: a turn that has ended so already is answered again.
End(c, status, used) ==
    LET t == c.turn IN
    /\ IF Overdue(c) THEN ExpireLocked(t) /\ Refuse(c)
       ELSE IF Fresh(c) /\ c.lock = turn[t].lock /\ ledger[t] \in {"RESERVED", used}
       THEN Settle(t, status, used) /\ Answer(c, "ok", turn[t].lock + 1)
       ELSE /\ UNCHANGED usage
            /\ IF available /\ turn[t].status = status THEN Answer(c, "ok", turn[t].lock)
               ELSE Refuse(c)
    /\ UNCHANGED <<gateway, actions, available, phone, local, budget>>

Complete(c) == End(c, "COMPLETED", "CONSUMED")

Fail(c) == End(c, "FAILED", "RELEASED")

\* The lease passes, and with it every grant of the turn.
LeaseElapses(t) ==
    /\ Active(t) /\ ~turn[t].elapsed
    /\ turn' = [turn EXCEPT ![t].elapsed = TRUE]
    /\ approval' = [a \in Replies |->
            IF proposal[a].turn = t /\ approval[a].status = "GRANTED"
            THEN [approval[a] EXCEPT !.elapsed = TRUE] ELSE approval[a]]
    /\ UNCHANGED <<ledger, gateway, execution, sent, opp, available, phone, calls, local, budget>>

\* Mutant: a device that is not active any more is skipped.
SweepAvailable(t) ==
    /\ available /\ Active(t) /\ turn[t].elapsed
    /\ ExpireLocked(t)
    /\ UNCHANGED <<gateway, actions, available, phone, calls, local, budget>>

\* expire_stale of the beat task, and the expire route.
Sweep(t) ==
    /\ Active(t) /\ turn[t].elapsed
    /\ ExpireLocked(t)
    /\ UNCHANGED <<gateway, actions, available, phone, calls, local, budget>>

\* The device is revoked or a gate closed.
Withdraw ==
    /\ Failing /\ available /\ available' = FALSE
    /\ UNCHANGED <<usage, gateway, actions, phone, calls, local>>

-----------------------------------------------------------------------------
(* The model gateway. *)

\* Mutant: the count of requests is compared after the fact.
OpenableTooLong(c) == Fresh(c) /\ turn[c.turn].requests <= MaxRequests /\ Started(c.turn) = {}

\* One request at a time: the index of active requests is unique per turn.
Openable(c) == Fresh(c) /\ turn[c.turn].requests < MaxRequests /\ Started(c.turn) = {}

\* open_stream up to its commit.
Open(c) ==
    LET t == c.turn
        n == turn[t].requests + 1
    IN
    /\ IF Openable(c)
       THEN /\ turn' = [turn EXCEPT ![t].requests = n]
            /\ audit' = [audit EXCEPT ![t] = [@ EXCEPT ![n] = "STARTED"]]
            /\ streams' = streams \cup {<<t, n>>}
            /\ Answer(c, "open", c.lock)
       ELSE UNCHANGED <<turn, gateway>> /\ Refuse(c)
    /\ UNCHANGED <<ledger, actions, available, phone, local, budget>>

Streaming(t) == main.op = "open" /\ main.state = "open" /\ main.turn = t

\* finalize, for a stream that ended, failed, or whose reader has gone.
Finalize(t, n) ==
    /\ <<t, n>> \in streams /\ streams' = streams \ {<<t, n>>}
    /\ \E end \in {"COMPLETED", "FAILED"} \cup (IF Streaming(t) THEN {} ELSE {"CANCELLED"}) :
        audit' = [audit EXCEPT ![t] = [@ EXCEPT ![n] = end]]
    /\ UNCHANGED <<usage, actions, available, phone, calls, local, budget>>

\* Mutant: the last event is sent before the request is finalized.
StreamEndsEarly ==
    /\ Streaming(main.turn)
    /\ main' = [main EXCEPT !.state =
            IF audit[main.turn][turn[main.turn].requests] \in {"STARTED", "COMPLETED"}
            THEN "ok" ELSE "refused"]
    /\ UNCHANGED <<usage, gateway, actions, available, phone, beat, late, local, budget>>

\* [DONE], or the error event, is sent after finalize.
StreamEnds ==
    /\ Streaming(main.turn) /\ Started(main.turn) = {}
    /\ main' = [main EXCEPT !.state =
            IF audit[main.turn][turn[main.turn].requests] = "COMPLETED" THEN "ok" ELSE "refused"]
    /\ UNCHANGED <<usage, gateway, actions, available, phone, beat, late, local, budget>>

\* The worker dies: the request stays STARTED for good.
StreamDies(t, n) ==
    /\ Failing
    /\ <<t, n>> \in streams /\ streams' = streams \ {<<t, n>>}
    /\ main' = IF Streaming(t) THEN [main EXCEPT !.state = "refused"] ELSE main
    /\ UNCHANGED <<usage, audit, actions, available, phone, beat, late, local>>

-----------------------------------------------------------------------------
(* Approvals, and the one reply each may send. *)

Set(a, status) == approval' = [approval EXCEPT ![a].status = status]

\* Closing the opportunity to replies changes its version.
Current(a) == opp = proposal[a].version

Decided(t) == {a \in Replies : proposal[a].turn = t /\ approval[a].status # "none"}

\* decide: a decision that is on record is given again, or has expired.
Decide(c) ==
    LET a == c.reply
        found == approval[a].status
    IN
    /\ IF Fresh(c) /\ found = "none" /\ Current(a) /\ Cardinality(Decided(c.turn)) < MaxApprovals
       THEN Set(a, proposal[a].decision) /\ Answer(c, "ok", c.lock)
       ELSE IF Fresh(c) /\ found = proposal[a].decision
       THEN IF approval[a].elapsed THEN Set(a, "EXPIRED") /\ Refuse(c)
            ELSE UNCHANGED approval /\ Answer(c, "ok", c.lock)
       ELSE UNCHANGED approval /\ Refuse(c)
    /\ UNCHANGED <<usage, gateway, execution, sent, opp, available, phone, local, budget>>

\* execute_send_reply up to its commit.
Execute(c) ==
    LET a == c.reply
        granted == Fresh(c) /\ approval[a].status = "GRANTED"
    IN
    /\ IF granted /\ ~approval[a].elapsed /\ Current(a)
       THEN /\ Set(a, "EXECUTING") /\ Answer(c, "running", c.lock)
            /\ execution' = [execution EXCEPT ![a] = "reply"]
       ELSE /\ IF granted /\ approval[a].elapsed THEN Set(a, "EXPIRED") ELSE UNCHANGED approval
            /\ Refuse(c) /\ UNCHANGED execution
    /\ UNCHANGED <<usage, gateway, sent, opp, available, phone, local, budget>>

\* The minutes of a grant pass before the lease does.
ApprovalElapses(a) ==
    /\ approval[a].status = "GRANTED" /\ ~approval[a].elapsed
    /\ approval' = [approval EXCEPT ![a].elapsed = TRUE]
    /\ UNCHANGED <<usage, gateway, execution, sent, opp, available, phone, calls, local, budget>>

Reach(a, from, to) == execution[a] = from /\ execution' = [execution EXCEPT ![a] = to]

Accept(a) == sent' = [sent EXCEPT ![a] = @ + 1]

\* ManualReplyUseCase: the provider accepts the reply,
SendReply(a) ==
    /\ Reach(a, "reply", "accepted") /\ Accept(a)
    /\ UNCHANGED <<usage, gateway, approval, opp, available, phone, calls, local, budget>>

\* or sending is disabled, or it fails, perhaps after accepting,
SendFails(a) ==
    /\ Failing
    /\ \/ Reach(a, "reply", "rejected") /\ UNCHANGED sent
       \/ Reach(a, "reply", "unknown") /\ (UNCHANGED sent \/ Accept(a))
    /\ UNCHANGED <<usage, gateway, approval, opp, available, phone, calls, local>>

\* the delivery is marked, or that fails,
MarkDelivered(a) ==
    /\ \/ Reach(a, "accepted", "recorded") /\ UNCHANGED budget
       \/ Reach(a, "accepted", "unknown") /\ Failing
    /\ UNCHANGED <<usage, gateway, approval, sent, opp, available, phone, calls, local>>

\* and the opportunity is written.
ProjectReply(a) ==
    /\ Reach(a, "recorded", "projected")
    /\ opp' = opp + 1
    /\ UNCHANGED <<usage, gateway, approval, sent, available, phone, calls, local, budget>>

\* Mutant: an outcome nobody knows counts as a refusal.
VerdictGuessed(outcome) ==
    IF outcome \in {"recorded", "projected"} THEN "CONSUMED" ELSE "FAILED"

Verdict(outcome) ==
    CASE outcome \in {"recorded", "projected"} -> "CONSUMED"
      [] outcome = "rejected" -> "FAILED"
      [] outcome = "unknown" -> "UNCERTAIN"

\* The caller that waits for reply a.
Told(a, state) ==
    main' = IF main.op = "execute" /\ main.state = "running" /\ main.reply = a
            THEN [main EXCEPT !.state = state] ELSE main

\* _finish_execution; only a reply that is also projected is reported as sent.
FinishExecution(a) ==
    LET outcome == execution[a] IN
    /\ outcome \in {"recorded", "projected", "rejected", "unknown"}
    /\ Reach(a, outcome, "done")
    /\ Set(a, Verdict(outcome))
    /\ Told(a, IF outcome = "projected" THEN "ok" ELSE "refused")
    /\ UNCHANGED <<usage, gateway, sent, opp, available, phone, beat, late, local, budget>>

\* The worker dies, or its last transaction fails: the approval stays EXECUTING.
ExecutionDies(a) ==
    /\ Failing
    /\ execution[a] \notin {"none", "done"} /\ Reach(a, execution[a], "done")
    /\ Told(a, "refused")
    /\ UNCHANGED <<usage, gateway, approval, sent, opp, available, phone, beat, late, local>>

\* The owner, the analysis or an automatic reply writes the opportunity.
ChangeOpportunity ==
    /\ Spend /\ opp' = opp + 1
    /\ UNCHANGED <<usage, gateway, approval, execution, sent, available, phone, calls, local, faults>>

-----------------------------------------------------------------------------
(* The phone. *)

\* The phases in which the host runs, and its signal can end it.
Hosting == {"host", "stream", "act", "decide", "execute"}

Phone == [pc : {"idle", "claim", "start", "stopping", "complete", "failing", "fail"} \cup Hosting,
          turn : Turns \cup {0}, lock : 0..(MaxLock + 1)]

IdlePhone == [pc |-> "idle", turn |-> 0, lock |-> 0]

Goto(pc) == phone' = [phone EXCEPT !.pc = pc]

Ask(op, a) == main' = NewCall(op, phone.turn, phone.lock, a)

\* The server may still handle what the phone gives up.
Abandoned == {c \in {main} : c.state = "sent"}

\* A step of the phone from one phase to another.
Step(from, to) ==
    /\ phone.pc = from /\ Goto(to)
    /\ UNCHANGED <<usage, gateway, actions, available>>

\* runInteractiveTurn: every run has a key of its own.
Begin(t, s) ==
    /\ phone.pc = "idle" /\ session[t] = "none" /\ Spend
    /\ \A u \in Turns : u < t => session[u] # "none"
    /\ phone' = [IdlePhone EXCEPT !.pc = "claim", !.turn = t]
    /\ session' = [session EXCEPT ![t] = s]
    /\ main' = NewCall("claim", t, 0, NoReply)
    /\ UNCHANGED <<usage, gateway, actions, available, beat, late, proposal, stored, shown, faults>>

\* The first heartbeat is awaited before the host begins.
Claimed ==
    /\ phone.pc = "claim" /\ main.state = "ok"
    /\ phone' = [phone EXCEPT !.pc = "start", !.lock = main.lock]
    /\ main' = NewCall("heartbeat", phone.turn, main.lock, NoReply)
    /\ UNCHANGED <<usage, gateway, actions, available, beat, late, local, budget>>

StartedUp ==
    /\ phone.pc = "start" /\ main.state = "ok"
    /\ phone' = [phone EXCEPT !.pc = "host", !.lock = main.lock]
    /\ main' = NoCall
    /\ UNCHANGED <<usage, gateway, actions, available, beat, late, local, budget>>

OpenStream ==
    /\ Step("host", "stream") /\ Ask("open", NoReply)
    /\ UNCHANGED <<beat, late, local, budget>>

StreamRead ==
    /\ Step("stream", "act") /\ main.state = "ok" /\ main' = NoCall
    /\ UNCHANGED <<beat, late, local, budget>>

\* A local tool, or a proposal the phone or the user turns down by itself.
UseTool ==
    /\ Step("act", "host") /\ Spend
    /\ UNCHANGED <<calls, local, faults>>

\* prepare: the version is that of the projection in SQLite; the user decides.
Propose(a, decision, version) ==
    /\ Step("act", "decide") /\ proposal[a] = NoProposal /\ Spend
    /\ proposal' = [proposal EXCEPT ![a] = [turn |-> phone.turn, version |-> version,
                                            decision |-> decision]]
    /\ Ask("decide", a)
    /\ UNCHANGED <<beat, late, session, stored, shown, faults>>

DecisionAnswered ==
    /\ phone.pc = "decide" /\ main.state = "ok"
    /\ IF proposal[main.reply].decision = "GRANTED"
       THEN Step("decide", "execute") /\ Ask("execute", main.reply)
       ELSE Step("decide", "host") /\ main' = NoCall
    /\ UNCHANGED <<beat, late, local, budget>>

\* The agent sees that the reply is sent.
Executed ==
    /\ Step("execute", "host") /\ main.state = "ok" /\ main' = NoCall
    /\ shown' = shown \cup {main.reply}
    /\ UNCHANGED <<beat, late, session, proposal, stored, budget>>

\* A tool that fails is an error the agent sees.
ToolFails ==
    /\ \E pc \in {"decide", "execute"} : Step(pc, "host")
    /\ main.state = "refused" /\ main' = NoCall
    /\ UNCHANGED <<beat, late, local, budget>>

\* The host returns the answer; no further heartbeat starts.
Finish ==
    /\ Step("act", "stopping")
    /\ UNCHANGED <<calls, local, budget>>

\* Mutant: the turn is completed before the answer is stored.
StoreLater ==
    /\ Step("stopping", "complete") /\ beat = NoCall /\ Ask("complete", NoReply)
    /\ UNCHANGED <<beat, late, local, budget>>

\* Mutant: a heartbeat under way is not awaited.
StoreUnawaited ==
    /\ Step("stopping", "complete") /\ Ask("complete", NoReply)
    /\ stored' = stored \cup {phone.turn}
    /\ UNCHANGED <<beat, late, session, proposal, shown, budget>>

\* After the last heartbeat the answer is stored, and then the turn completed.
Store ==
    /\ Step("stopping", "complete") /\ beat = NoCall /\ Ask("complete", NoReply)
    /\ stored' = stored \cup {phone.turn}
    /\ UNCHANGED <<beat, late, session, proposal, shown, budget>>

StoreFails ==
    /\ Failing /\ Step("stopping", "failing")
    /\ UNCHANGED <<calls, local>>

Stop == phone' = IdlePhone /\ main' = NoCall

Completed ==
    /\ phone.pc = "complete" /\ main.state = "ok" /\ Stop
    /\ UNCHANGED <<usage, gateway, actions, available, beat, late, local, budget>>

\* A refused claim leaves nothing to report; any other call is reported.
CallFails ==
    /\ main.state = "refused"
    /\ \/ phone.pc = "claim" /\ Stop
       \/ phone.pc \in {"start", "stream", "complete"} /\ Goto("failing") /\ main' = NoCall
    /\ UNCHANGED <<usage, gateway, actions, available, beat, late, local, budget>>

Report ==
    /\ Step("failing", "fail") /\ beat = NoCall /\ Ask("fail", NoReply)
    /\ UNCHANGED <<beat, late, local, budget>>

\* Whatever the answer, the run is over.
Reported ==
    /\ phone.pc = "fail" /\ main.state \in {"ok", "refused"} /\ Stop
    /\ UNCHANGED <<usage, gateway, actions, available, beat, late, local, budget>>

\* The timer fires while the host runs.
Beat ==
    /\ phone.pc \in Hosting /\ beat = NoCall /\ phone.lock < MaxLock
    /\ beat' = NewCall("heartbeat", phone.turn, phone.lock, NoReply)
    /\ UNCHANGED <<usage, gateway, actions, available, phone, main, late, local, budget>>

BeatAnswered ==
    /\ beat.state = "ok" /\ beat' = NoCall
    /\ phone' = [phone EXCEPT !.lock = beat.lock]
    /\ UNCHANGED <<usage, gateway, actions, available, main, late, local, budget>>

\* The controller ends the host, with the call it waits for.
Abort ==
    /\ Goto("failing") /\ main' = NoCall /\ late' = late \cup Abandoned

\* The lease is lost.
BeatFails ==
    /\ beat.state = "refused" /\ beat' = NoCall
    /\ IF phone.pc \in Hosting THEN Abort ELSE UNCHANGED <<phone, main, late>>
    /\ UNCHANGED <<usage, gateway, actions, available, local, budget>>

\* The user cancels, or the host raises.
Cancel ==
    /\ \/ phone.pc \in Hosting /\ Abort
       \/ phone.pc = "claim" /\ Stop /\ late' = late \cup Abandoned
    /\ UNCHANGED <<usage, gateway, actions, available, beat, local, budget>>

\* A call is lost on its way or on its way back.
LoseMain ==
    /\ Failing /\ main.state \in {"sent", "open", "running", "ok"}
    /\ main' = [main EXCEPT !.state = "refused"]
    /\ late' = late \cup Abandoned
    /\ UNCHANGED <<usage, gateway, actions, available, phone, beat, local>>

LoseBeat ==
    /\ Failing /\ beat.state \in {"sent", "ok"}
    /\ beat' = [beat EXCEPT !.state = "refused"]
    /\ late' = IF beat.state = "sent" THEN late \cup {beat} ELSE late
    /\ UNCHANGED <<usage, gateway, actions, available, phone, main, local>>

\* A call reaches the server twice.
Repeat ==
    /\ Failing
    /\ \E c \in {main, beat} : c.state = "sent" /\ c.op # "open" /\ late' = late \cup {c}
    /\ UNCHANGED <<usage, gateway, actions, available, phone, main, beat, local>>

\* The app is killed; the next run begins with a new key.
Kill ==
    /\ Failing /\ phone.pc # "idle" /\ Stop
    /\ beat' = NoCall
    /\ late' = late \cup {c \in {main, beat} : c.state = "sent"}
    /\ UNCHANGED <<usage, gateway, actions, available, local>>

-----------------------------------------------------------------------------
Init ==
    /\ turn = [t \in Turns |-> NoTurn]
    /\ ledger = [t \in Turns |-> "none"]
    /\ audit = [t \in Turns |-> [n \in 1..MaxRequests |-> "none"]]
    /\ streams = {}
    /\ approval = [a \in Replies |-> [status |-> "none", elapsed |-> FALSE]]
    /\ execution = [a \in Replies |-> "none"]
    /\ sent = [a \in Replies |-> 0]
    /\ opp = 1
    /\ available = TRUE
    /\ phone = IdlePhone
    /\ main = NoCall /\ beat = NoCall /\ late = {}
    /\ session = [t \in Turns |-> "none"]
    /\ proposal = [a \in Replies |-> NoProposal]
    /\ stored = {} /\ shown = {}
    /\ spent = 0 /\ faults = 0

Serve ==
    \/ \E c \in Arriving("claim") : Claim(c)
    \/ \E c \in Arriving("heartbeat") : Heartbeat(c)
    \/ \E c \in Arriving("complete") : Complete(c)
    \/ \E c \in Arriving("fail") : Fail(c)
    \/ \E c \in Arriving("open") : Open(c)
    \/ \E c \in Arriving("decide") : Decide(c)
    \/ \E c \in Arriving("execute") : Execute(c)

Stream == StreamEnds \/ \E t \in Turns : \E n \in 1..MaxRequests : Finalize(t, n)

Send(a) == SendReply(a) \/ MarkDelivered(a) \/ ProjectReply(a) \/ FinishExecution(a)

Time ==
    \/ \E t \in Turns : LeaseElapses(t) \/ Sweep(t)
    \/ \E a \in Replies : ApprovalElapses(a)

\* What the phone does by itself, with a user who answers.
Run ==
    \/ Claimed \/ StartedUp \/ OpenStream \/ StreamRead \/ UseTool
    \/ DecisionAnswered \/ Executed \/ ToolFails \/ Finish \/ Store \/ Completed
    \/ CallFails \/ Report \/ Reported \/ BeatAnswered \/ BeatFails
    \/ \E a \in Replies : \E d \in {"GRANTED", "DENIED"} : \E v \in 1..opp :
            Propose(a, d, v)

Fault ==
    \/ Withdraw \/ StoreFails \/ LoseMain \/ LoseBeat \/ Repeat \/ Kill
    \/ \E t \in Turns : \E n \in 1..MaxRequests : StreamDies(t, n)
    \/ \E a \in Replies : SendFails(a) \/ ExecutionDies(a)

Next ==
    \/ Serve \/ Stream \/ Time \/ Run \/ Fault
    \/ \E a \in Replies : Send(a)
    \/ \E t \in Turns : \E s \in Sessions : Begin(t, s)
    \/ Beat \/ Cancel \/ ChangeOpportunity

Spec == Init /\ [][Next]_vars

\* Handlers run, the beat task comes back, and the phone goes on with its run.
\* Nothing renews the lease of a turn the phone has left, so it passes.
FairSpec ==
    /\ Spec
    /\ WF_vars(Serve) /\ WF_vars(Stream) /\ WF_vars(Run)
    /\ \A a \in Replies : WF_vars(Send(a))
    /\ \A t \in Turns : WF_vars(Sweep(t)) /\ WF_vars(phone.turn # t /\ LeaseElapses(t))

-----------------------------------------------------------------------------
(* Properties. *)

\* Rows, calls and the phone keep their types; the database's checks and
\* unique indexes hold: one active turn per session, one request under way per
\* turn, requests numbered without a gap, none beyond the limit.
TypeOK ==
    /\ turn \in [Turns -> Turn]
    /\ ledger \in [Turns -> {"none", "RESERVED", "CONSUMED", "RELEASED"}]
    /\ audit \in [Turns -> [1..MaxRequests ->
                           {"none", "STARTED", "COMPLETED", "FAILED", "CANCELLED"}]]
    /\ streams \subseteq Turns \X (1..MaxRequests)
    /\ approval \in [Replies -> Approval]
    /\ execution \in [Replies -> {"none", "reply", "accepted", "recorded", "projected",
                                 "rejected", "unknown", "done"}]
    /\ sent \in [Replies -> Nat]
    /\ opp \in Nat \ {0}
    /\ available \in BOOLEAN
    /\ phone \in Phone
    /\ main \in Call /\ beat \in Call /\ late \subseteq Call
    /\ session \in [Turns -> Sessions \cup {"none"}]
    /\ proposal \in [Replies -> [turn : Turns \cup {0}, version : Nat,
                                decision : {"none", "GRANTED", "DENIED"}]]
    /\ stored \subseteq Turns /\ shown \subseteq Replies
    /\ spent \in 0..MaxSpent /\ faults \in 0..spent
    /\ \A s \in Sessions : Cardinality(ActiveIn(s)) <= 1
    /\ \A t \in Turns :
        /\ Cardinality(Started(t)) <= 1
        /\ \A n \in 1..MaxRequests : audit[t][n] # "none" <=> n <= turn[t].requests

\* The approval ledger tells the truth about the customer, whatever is lost,
\* repeated or killed: a reply goes out at most once, only with the user's
\* consent, and then its approval never says that it did not; CONSUMED, and
\* what the agent is told, mean that it went out.
ApprovalTellsTruth ==
    \A a \in Replies :
        /\ sent[a] <= 1
        /\ sent[a] = 1 => /\ proposal[a].decision = "GRANTED"
                          /\ approval[a].status \in {"EXECUTING", "CONSUMED", "UNCERTAIN"}
        /\ approval[a].status = "CONSUMED" => sent[a] = 1
        /\ a \in shown => approval[a].status = "CONSUMED"

\* A turn is charged only if its answer is in SQLite, what ended without one
\* gives its reservation back, and the month's turns stay within the limit.
ChargedForAnswer ==
    /\ Cardinality(Allocated) <= QuotaLimit
    /\ \A t \in Turns :
        /\ ledger[t] = "CONSUMED" => t \in stored
        /\ Active(t) <=> ledger[t] = "RESERVED"
        /\ turn[t].status \in {"FAILED", "EXPIRED"} <=> ledger[t] = "RELEASED"

\* The stream the phone has read has been finalized when it asks for the next:
\* a turn is never refused because of its own last request.
NeverBlocked == main.op = "open" /\ main.state = "sent" => Started(main.turn) = {}

\* Without a fault the phone completes, or fails, a turn that is still active
\* with its very lock version, however heartbeats and the end of the run race.
LockKnown ==
    faults = 0 /\ main.op \in {"complete", "fail"} /\ main.state = "sent" /\ Active(main.turn)
        => main.lock = turn[main.turn].lock

\* A late, repeated or overtaken call changes nothing that has ended: neither
\* a turn and its charge, nor an approval, nor a request's audit.
SettledForGood ==
    [][/\ \A t \in Turns : turn[t].status \in {"COMPLETED", "FAILED", "EXPIRED"} =>
            turn'[t] = turn[t] /\ ledger'[t] = ledger[t]
       /\ \A a \in Replies :
            approval[a].status \in {"DENIED", "CONSUMED", "FAILED", "UNCERTAIN", "EXPIRED"} =>
                approval'[a] = approval[a]
       /\ \A t \in Turns : \A n \in 1..MaxRequests :
            audit[t][n] \in {"COMPLETED", "FAILED", "CANCELLED"} => audit'[t][n] = audit[t][n]
      ]_vars

\* No turn stays active for ever, and with it no session and no reservation:
\* the run ends it, or the lease passes and the sweep expires it, also when the
\* device has been revoked.
TurnSettles == \A t \in Turns : Active(t) ~> ~Active(t)
=============================================================================
