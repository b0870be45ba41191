--------------------------- MODULE AgentTurnsProofs ---------------------------
(***************************************************************************)
(* What is proved of AgentTurns, for any turns, sessions, replies and       *)
(* bounds: every safety property of the module.                             *)
(***************************************************************************)
EXTENDS AgentTurns, FiniteSetTheorems, TLAPS

-----------------------------------------------------------------------------
(* The inductive invariant. *)

\* TypeOK but for its last two conjuncts.
Types ==
    /\ turn \in [Turns -> Turn]
    /\ ledger \in [Turns -> {"none", "RESERVED", "CONSUMED", "RELEASED"}]
    /\ audit \in [Turns -> [1..MaxRequests ->
                           {"none", "STARTED", "COMPLETED", "FAILED", "CANCELLED"}]]
    /\ streams \subseteq Turns \X (1..MaxRequests)
    /\ approval \in [Replies -> Approval]
    /\ execution \in [Replies -> {"none", "reply", "accepted", "recorded", "projected",
                                 "rejected", "unknown", "done"}]
    /\ sent \in [Replies -> Nat]
    /\ opp \in Nat \ {0}
    /\ available \in BOOLEAN
    /\ phone \in Phone
    /\ main \in Call /\ beat \in Call /\ late \subseteq Call
    /\ session \in [Turns -> Sessions \cup {"none"}]
    /\ proposal \in [Replies -> [turn : Turns \cup {0}, version : Nat,
                                decision : {"none", "GRANTED", "DENIED"}]]
    /\ stored \subseteq Turns /\ shown \subseteq Replies
    /\ spent \in 0..MaxSpent /\ faults \in 0..spent

Calls == {main, beat} \cup late

\* A call belongs to a turn that has begun; a completion comes after the
\* answer was stored, a decision after the user's.
CallOK(c) ==
    /\ c.op = "none" => c = NoCall
    /\ c.op # "none" => c.turn \in Turns /\ session[c.turn] # "none" /\ c.state # "none"
    /\ c.op = "complete" => c.turn \in stored
    /\ c.op \in {"decide", "execute"} =>
          c.reply \in Replies /\ proposal[c.reply].decision # "none"
    /\ c.op = "heartbeat" /\ c.state = "sent" => c.lock < MaxLock
    /\ c.op = "heartbeat" => c.lock <= MaxLock
    /\ c.op = "claim" /\ c.state = "ok" => c.lock = 1

CallsOK ==
    /\ \A c \in Calls : CallOK(c)
    /\ \A c \in late : c.op # "none" /\ c.state = "sent"

\* The call the phone waits for in each phase.
Asks(pc) ==
    CASE pc = "claim" -> "claim"
      [] pc = "start" -> "heartbeat"
      [] pc = "stream" -> "open"
      [] pc = "decide" -> "decide"
      [] pc = "execute" -> "execute"
      [] pc = "complete" -> "complete"
      [] pc = "fail" -> "fail"
      [] OTHER -> "none"

PhoneOK ==
    /\ main.op = Asks(phone.pc)
    /\ main # NoCall => main.turn = phone.turn
    /\ beat # NoCall => beat.op = "heartbeat" /\ beat.turn = phone.turn
    /\ beat # NoCall => phone.pc \in Hosting \cup {"stopping", "failing"}
    /\ phone.pc # "idle" => phone.turn \in Turns /\ session[phone.turn] # "none"
    /\ phone.lock <= MaxLock
    /\ main.state = "open" => main.op = "open"
    /\ main.state = "running" => main.op = "execute"

\* Status and usage of a turn agree.
Agree(t) ==
    /\ turn[t].status = "none" <=> ledger[t] = "none"
    /\ Active(t) <=> ledger[t] = "RESERVED"
    /\ turn[t].status = "COMPLETED" <=> ledger[t] = "CONSUMED"

UsageOK ==
    /\ \A t \in Turns :
        /\ Agree(t)
        /\ ledger[t] = "CONSUMED" => t \in stored
        /\ turn[t].status = "none" => turn[t] = NoTurn
        /\ session[t] = "none" => turn[t].status = "none"
        /\ Active(t) => turn[t].lock \in 1..MaxLock
    /\ \A t, u \in Turns : Active(t) /\ Active(u) /\ session[t] = session[u] => t = u

GatewayOK ==
    \A t \in Turns :
        /\ \A n \in 1..MaxRequests : audit[t][n] # "none" <=> n <= turn[t].requests
        /\ \A n \in 1..MaxRequests : <<t, n>> \in streams => audit[t][n] = "STARTED"
        /\ \A m, n \in Started(t) : m = n

\* What is on record of a reply, and what happened, by how far its sending came.
Reached(a) ==
    LET status == approval[a].status IN
    /\ execution[a] = "none" => status \in {"none", "DENIED", "GRANTED", "EXPIRED"}
    /\ execution[a] \notin {"none", "done"} => status = "EXECUTING"
    /\ execution[a] \in {"none", "reply", "rejected"} => sent[a] = 0
    /\ execution[a] \in {"accepted", "recorded", "projected"} => sent[a] = 1
    /\ execution[a] = "done" => status \in {"EXECUTING", "CONSUMED", "FAILED", "UNCERTAIN"}
    /\ status = "CONSUMED" => sent[a] = 1
    /\ status = "FAILED" => sent[a] = 0
    /\ sent[a] <= 1

ActionsOK ==
    /\ \A a \in Replies :
        /\ Reached(a)
        /\ approval[a].status \notin {"none", "DENIED"} => proposal[a].decision = "GRANTED"
        /\ approval[a].status \in {"none", "DENIED"} => ~approval[a].elapsed
        /\ approval[a].status = "DENIED" => proposal[a].decision = "DENIED"
        /\ a \in shown => approval[a].status = "CONSUMED"
    /\ main.op = "execute" /\ main.state = "ok" => approval[main.reply].status = "CONSUMED"

\* The phases in which the phone may come to ask for a stream.
Asking ==
    \/ phone.pc \in {"claim", "start", "host", "act", "decide", "execute"}
    \/ phone.pc = "stream" /\ main.state \in {"sent", "ok"}

\* No request is under way then, nor one to come but the phone's own.
ClearOK ==
    /\ Asking => Started(phone.turn) = {}
    /\ Asking \/ (phone.pc = "stream" /\ main.state = "open") =>
          \A c \in late : ~(c.op = "open" /\ c.turn = phone.turn)
    /\ phone.pc = "claim" => \A c \in Calls : c.turn = phone.turn => c.op = "claim"
    /\ phone.pc = "claim" => turn[phone.turn].lock <= 1 \/ ~Active(phone.turn)

\* The call that answers, or the phone, has lock version l.
Holds(l) ==
    /\ phone.pc = "claim" => main.state # "refused" /\ main.lock = l
    /\ phone.pc \in {"start", "complete", "fail"} => main.state \in {"sent", "ok"} /\ main.lock = l
    /\ phone.pc \in Hosting \cup {"stopping", "failing"} =>
          IF beat = NoCall THEN phone.lock = l ELSE beat.state \in {"sent", "ok"} /\ beat.lock = l

\* Without a fault the phone knows the lock version of a turn that is active.
LocksOK ==
    faults = 0 =>
        /\ available
        /\ \A c \in late : c.turn = phone.turn => c.op \in {"open", "decide", "execute"}
        /\ phone.pc # "idle" /\ Active(phone.turn) => Holds(turn[phone.turn].lock)

IInv ==
    /\ Types /\ CallsOK /\ PhoneOK /\ UsageOK /\ GatewayOK /\ ActionsOK /\ ClearOK
    /\ Cardinality(Allocated) <= QuotaLimit
    /\ LocksOK

-----------------------------------------------------------------------------
(* What a step does to the turns and their usage. *)

\* A call for turn t is answered so.
Asked(op, t, state, lock) ==
    phone' = phone /\ \E c \in Arriving(op) : c.turn = t /\ Answer(c, state, lock)

\* A claim begins turn t; the turn ends; a heartbeat; the lease passes; a request.
Begins(t) ==
    /\ Asked("claim", t, "ok", 1)
    /\ turn[t].status = "none" /\ session[t] # "none" /\ ActiveIn(session[t]) = {}
    /\ Cardinality(Allocated) < QuotaLimit
    /\ turn' = [turn EXCEPT ![t] = [NoTurn EXCEPT !.status = "CLAIMED", !.lock = 1]]
    /\ ledger' = [ledger EXCEPT ![t] = "RESERVED"]

Ends(t) ==
    /\ Active(t)
    /\ \/ Settle(t, "EXPIRED", "RELEASED") \/ Settle(t, "FAILED", "RELEASED")
       \/ Settle(t, "COMPLETED", "CONSUMED") /\ t \in stored

Renews(t) ==
    /\ Active(t) /\ turn[t].lock < MaxLock /\ Asked("heartbeat", t, "ok", turn[t].lock + 1)
    /\ turn' = [turn EXCEPT ![t].status = "RUNNING", ![t].lock = @ + 1] /\ UNCHANGED ledger

Elapses(t) == Active(t) /\ turn' = [turn EXCEPT ![t].elapsed = TRUE] /\ UNCHANGED ledger

Requests(t) ==
    /\ Active(t) /\ turn[t].requests < MaxRequests /\ Started(t) = {}
    /\ \E lock : Asked("open", t, "open", lock)
    /\ turn' = [turn EXCEPT ![t].requests = @ + 1] /\ UNCHANGED ledger
    /\ audit' = [audit EXCEPT ![t] = [@ EXCEPT ![turn[t].requests + 1] = "STARTED"]]
    /\ streams' = streams \cup {<<t, turn[t].requests + 1>>}

UsageStep ==
    \/ UNCHANGED usage
    \/ \E t \in Turns :
        Requests(t) \/ (UNCHANGED gateway /\ (Begins(t) \/ Renews(t) \/ Elapses(t) \/ Ends(t)))

\* An expiry ends a turn that is active.
LEMMA ExpiryEnds ==
    ASSUME UsageOK, NEW t \in Turns, Active(t), ExpireLocked(t)
    PROVE  Ends(t)
BY DEF UsageOK, Agree, ExpireLocked, Ends

\* What is on its way is a good call of a turn that has begun.
LEMMA ArrivingCalls ==
    ASSUME CallsOK, NEW op \in {"claim", "heartbeat", "complete", "fail", "open", "decide", "execute"},
           NEW c \in Arriving(op)
    PROVE  c \in Calls /\ CallOK(c) /\ c.op = op /\ c.state = "sent" /\ c.turn \in Turns
BY DEF Arriving, Calls, CallsOK, CallOK

\* What the handlers do to the turns.
LEMMA ServeUsage ==
    ASSUME Types, CallsOK, UsageOK, Serve
    PROVE  UsageStep
<1>1. ASSUME NEW c \in Arriving("claim"), Claim(c) PROVE UsageStep
  <2>1. c.turn \in Turns /\ session[c.turn] # "none"
    BY <1>1, ArrivingCalls DEF CallOK
  <2>2. CASE available /\ Claimable(c)
    <3>1. Begins(c.turn)
      BY <1>1, <2>1, <2>2 DEF Claim, Claimable, Met, Begins, Asked
    <3> QED
      BY <1>1, <2>1, <3>1 DEF UsageStep, Claim
  <2>3. CASE \E t \in Met(c) : turn[t].elapsed /\ ExpireLocked(t)
    <3>1. PICK t \in Met(c) : ExpireLocked(t)
      BY <2>3
    <3>2. t \in Turns /\ Active(t)
      BY <2>1, <3>1 DEF Met, ActiveIn
    <3> QED
      BY <1>1, <3>1, <3>2, ExpiryEnds DEF UsageStep, Claim
  <2> QED
    BY <1>1, <2>2, <2>3 DEF Claim, UsageStep
<1>2. ASSUME NEW c \in Arriving("heartbeat"), Heartbeat(c) PROVE UsageStep
  <2>1. c.turn \in Turns /\ c.lock < MaxLock
    BY <1>2, ArrivingCalls DEF CallOK
  <2>2. CASE Overdue(c)
    BY <1>2, <2>1, <2>2, ExpiryEnds DEF Heartbeat, Overdue, UsageStep
  <2>3. CASE ~Overdue(c) /\ Fresh(c) /\ c.lock = turn[c.turn].lock
    <3>1. Renews(c.turn)
      BY <1>2, <2>1, <2>3 DEF Heartbeat, Fresh, Renews, Asked
    <3> QED
      BY <1>2, <2>1, <3>1 DEF UsageStep, Heartbeat
  <2> QED
    BY <1>2, <2>2, <2>3 DEF Heartbeat, UsageStep
<1>3. ASSUME NEW c \in Arriving("complete"), Complete(c) PROVE UsageStep
  <2>1. c.turn \in Turns /\ c.turn \in stored
    BY <1>3, ArrivingCalls DEF CallOK
  <2>2. CASE Overdue(c)
    BY <1>3, <2>1, <2>2, ExpiryEnds DEF Complete, End, Overdue, UsageStep
  <2>3. CASE ~Overdue(c) /\ Fresh(c) /\ Settle(c.turn, "COMPLETED", "CONSUMED")
    <3>1. Ends(c.turn)
      BY <2>1, <2>3 DEF Fresh, Ends
    <3> QED
      BY <1>3, <2>1, <3>1 DEF UsageStep, Complete, End
  <2> QED
    BY <1>3, <2>2, <2>3 DEF Complete, End, UsageStep
<1>4. ASSUME NEW c \in Arriving("fail"), Fail(c) PROVE UsageStep
  <2>1. c.turn \in Turns
    BY <1>4, ArrivingCalls
  <2>2. CASE Overdue(c)
    BY <1>4, <2>1, <2>2, ExpiryEnds DEF Fail, End, Overdue, UsageStep
  <2>3. CASE ~Overdue(c) /\ Fresh(c) /\ Settle(c.turn, "FAILED", "RELEASED")
    <3>1. Ends(c.turn)
      BY <2>1, <2>3 DEF Fresh, Ends
    <3> QED
      BY <1>4, <2>1, <3>1 DEF UsageStep, Fail, End
  <2> QED
    BY <1>4, <2>2, <2>3 DEF Fail, End, UsageStep
<1>5. ASSUME NEW c \in Arriving("open"), Open(c) PROVE UsageStep
  <2>1. c.turn \in Turns
    BY <1>5, ArrivingCalls
  <2>2. CASE Openable(c)
    <3>1. Requests(c.turn)
      BY <1>5, <2>1, <2>2 DEF Open, Openable, Fresh, Requests, Asked, Types, Turn
    <3> QED
      BY <2>1, <3>1 DEF UsageStep
  <2> QED
    BY <1>5, <2>2 DEF Open, UsageStep, usage
<1>6. ASSUME NEW c, Decide(c) \/ Execute(c) PROVE UsageStep
  BY <1>6 DEF Decide, Execute, UsageStep
<1> QED
  BY <1>1, <1>2, <1>3, <1>4, <1>5, <1>6 DEF Serve

\* The steps of the phone, and of others, that leave the server's turns alone.
LEMMA OtherUsage ==
    ASSUME Stream \/ Run \/ Fault \/ Beat \/ Cancel \/ ChangeOpportunity
             \/ (\E a \in Replies : Send(a)) \/ (\E t \in Turns, s \in Sessions : Begin(t, s))
    PROVE  UNCHANGED usage
<1>1. CASE Stream
  BY <1>1 DEF Stream, StreamEnds, Finalize
<1>2. CASE Run
  BY <1>2 DEF Run, Claimed, StartedUp, OpenStream, StreamRead, UseTool, DecisionAnswered,
     Executed, ToolFails, Finish, Store, Completed, CallFails, Report, Reported,
     BeatAnswered, BeatFails, Propose, Step
<1>3. CASE Fault
  BY <1>3 DEF Fault, Withdraw, StoreFails, LoseMain, LoseBeat, Repeat, Kill, StreamDies,
     SendFails, ExecutionDies, Step
<1>4. CASE \E a \in Replies : Send(a)
  BY <1>4 DEF Send, SendReply, MarkDelivered, ProjectReply, FinishExecution
<1>5. CASE Beat \/ Cancel \/ ChangeOpportunity \/ \E t \in Turns, s \in Sessions : Begin(t, s)
  BY <1>5 DEF Beat, Cancel, ChangeOpportunity, Begin
<1> QED
  BY <1>1, <1>2, <1>3, <1>4, <1>5

\* A step does one thing to one turn, or leaves all alone.
LEMMA UsageSteps ==
    ASSUME Types, CallsOK, UsageOK, Next
    PROVE  UsageStep
<1>1. CASE Time
  <2>1. ASSUME NEW t \in Turns, LeaseElapses(t) PROVE UsageStep
    BY <2>1 DEF LeaseElapses, Elapses, UsageStep
  <2>2. ASSUME NEW t \in Turns, Sweep(t) PROVE UsageStep
    BY <2>2, ExpiryEnds DEF Sweep, UsageStep
  <2>3. ASSUME NEW a, ApprovalElapses(a) PROVE UsageStep
    BY <2>3 DEF ApprovalElapses, UsageStep
  <2> QED
    BY <1>1, <2>1, <2>2, <2>3 DEF Time
<1> QED
  BY <1>1, ServeUsage, OtherUsage DEF Next, UsageStep

\* What the phone has stored and decided stays; a session is given once.
LEMMA LocalForward ==
    ASSUME Types, Next
    PROVE  /\ stored \subseteq stored'
           /\ \A t \in Turns : session[t] # "none" => session'[t] = session[t]
           /\ \A a \in Replies : proposal[a] # NoProposal => proposal'[a] = proposal[a]
<1>1. ASSUME NEW t \in Turns, NEW s \in Sessions, Begin(t, s)
      PROVE  /\ stored' = stored /\ proposal' = proposal
             /\ session[t] = "none" /\ session' = [session EXCEPT ![t] = s]
  BY <1>1 DEF Begin
<1>2. ASSUME NEW a \in Replies, NEW d, NEW v, Propose(a, d, v)
      PROVE  /\ stored' = stored /\ session' = session /\ proposal[a] = NoProposal
             /\ \E x : proposal' = [proposal EXCEPT ![a] = x]
  BY <1>2 DEF Propose
<1>3. ASSUME Store PROVE stored \subseteq stored' /\ UNCHANGED <<session, proposal>>
  BY <1>3 DEF Store
<1>4. CASE UNCHANGED <<session, proposal, stored>>
  BY <1>4
<1>5. ASSUME Serve \/ Stream \/ Time \/ Fault \/ Beat \/ Cancel \/ ChangeOpportunity
               \/ \E a \in Replies : Send(a)
      PROVE  UNCHANGED <<session, proposal, stored>>
  <2>1. CASE Serve
    BY <2>1 DEF Serve, Claim, Heartbeat, Complete, Fail, End, Open, Decide, Execute, local
  <2>2. CASE Stream \/ Time
    BY <2>2 DEF Stream, Time, StreamEnds, Finalize, LeaseElapses, Sweep, ApprovalElapses, local
  <2>3. CASE Fault
    BY <2>3 DEF Fault, Withdraw, StoreFails, LoseMain, LoseBeat, Repeat, Kill, StreamDies,
       SendFails, ExecutionDies, local
  <2>4. CASE Beat \/ Cancel \/ ChangeOpportunity \/ \E a \in Replies : Send(a)
    BY <2>4 DEF Beat, Cancel, ChangeOpportunity, Send, SendReply, MarkDelivered, ProjectReply,
       FinishExecution, local
  <2> QED
    BY <1>5, <2>1, <2>2, <2>3, <2>4
<1>6. ASSUME Run
      PROVE  \/ UNCHANGED <<session, proposal, stored>> \/ Store
             \/ \E a \in Replies : \E d \in {"GRANTED", "DENIED"} : \E v \in 1..opp :
                    Propose(a, d, v)
  BY <1>6 DEF Run, Claimed, StartedUp, OpenStream, StreamRead, UseTool, DecisionAnswered,
     Executed, ToolFails, Finish, Completed, CallFails, Report, Reported, BeatAnswered,
     BeatFails, local
<1>7. ASSUME NEW a \in Replies, NEW d, NEW v, Propose(a, d, v)
      PROVE  \A b \in Replies : proposal[b] # NoProposal => proposal'[b] = proposal[b]
  BY <1>2, <1>7 DEF Types
<1>8. ASSUME NEW t \in Turns, NEW s \in Sessions, Begin(t, s)
      PROVE  \A u \in Turns : session[u] # "none" => session'[u] = session[u]
  BY <1>1, <1>8 DEF Types
<1> QED
  BY <1>1, <1>2, <1>3, <1>4, <1>5, <1>6, <1>7, <1>8 DEF Next

\* A row with another status and lock version.
Row(r, status, lock) == [r EXCEPT !.status = status, !.lock = lock]

\* The fields of such a row.
LEMMA RowOf ==
    ASSUME NEW r \in Turn, NEW status \in {"none", "COMPLETED", "FAILED", "EXPIRED"} \cup Running,
           NEW lock \in 0..(MaxLock + 1)
    PROVE  /\ Row(r, status, lock) \in Turn /\ Row(r, status, lock).status = status
           /\ Row(r, status, lock).lock = lock /\ Row(r, status, lock).requests = r.requests
BY DEF Turn, Row

\* Turn t is the only one a step changes.
LEMMA UsageFields ==
    ASSUME Types, UsageOK, NEW t \in Turns,
           Begins(t) \/ Renews(t) \/ Elapses(t) \/ Requests(t) \/ Ends(t)
    PROVE  /\ \A u \in Turns \ {t} : turn'[u] = turn[u] /\ ledger'[u] = ledger[u]
           /\ turn' \in [Turns -> Turn] /\ DOMAIN ledger' = Turns
           /\ turn[t].status \in {"none"} \cup Running
           /\ \/ Begins(t) /\ turn'[t].status = "CLAIMED" /\ turn'[t].lock = 1
                 /\ turn'[t].requests = 0 /\ ledger'[t] = "RESERVED"
              \/ Active(t) /\ turn'[t].status \in Running /\ turn'[t].lock \in 1..MaxLock
                 /\ ledger'[t] = ledger[t]
              \/ Ends(t) /\ turn'[t].status \in {"EXPIRED", "FAILED"} /\ ledger'[t] = "RELEASED"
              \/ Ends(t) /\ turn'[t].status = "COMPLETED" /\ ledger'[t] = "CONSUMED"
                 /\ t \in stored
<1>1. /\ turn \in [Turns -> Turn] /\ turn[t] \in Turn
      /\ turn[t].lock \in Int /\ turn[t].requests \in 0..MaxRequests
      /\ turn[t].elapsed \in BOOLEAN /\ DOMAIN ledger = Turns
      /\ MaxLock \in Nat /\ MaxLock > 1 /\ MaxRequests \in Nat
      /\ Active(t) => turn[t].lock \in 1..MaxLock
  BY ConstantsAssumption DEF Types, Turn, UsageOK
<1>2. CASE Begins(t)
  <2> DEFINE x == Row(NoTurn, "CLAIMED", 1)
  <2>1. turn' = [turn EXCEPT ![t] = x] /\ ledger' = [ledger EXCEPT ![t] = "RESERVED"]
    BY <1>2 DEF Begins, Row
  <2>2. NoTurn \in Turn /\ NoTurn.requests = 0 /\ 1 \in 0..(MaxLock + 1)
    BY <1>1 DEF NoTurn, Turn
  <2>3. x \in Turn /\ x.status = "CLAIMED" /\ x.lock = 1 /\ x.requests = 0
    <3>1. "CLAIMED" \in {"none", "COMPLETED", "FAILED", "EXPIRED"} \cup Running
      BY DEF Running
    <3>2. /\ Row(NoTurn, "CLAIMED", 1) \in Turn /\ Row(NoTurn, "CLAIMED", 1).status = "CLAIMED"
          /\ Row(NoTurn, "CLAIMED", 1).lock = 1
          /\ Row(NoTurn, "CLAIMED", 1).requests = NoTurn.requests
      BY <2>2, <3>1, RowOf
    <3> QED
      BY <2>2, <3>2
  <2>4. turn[t].status = "none"
    BY <1>2 DEF Begins
  <2> HIDE DEF x
  <2> QED
    BY <1>1, <1>2, <2>1, <2>3, <2>4
<1>3. CASE Renews(t)
  <2>1. PICK x : /\ x = [turn[t] EXCEPT !.status = "RUNNING", !.lock = @ + 1]
                 /\ turn' = [turn EXCEPT ![t] = x] /\ ledger' = ledger
    BY <1>1, <1>3 DEF Renews
  <2>2. x \in Turn /\ x.status = "RUNNING" /\ x.lock = turn[t].lock + 1
        /\ turn[t].lock < MaxLock /\ Active(t)
    BY <1>1, <1>3, <2>1 DEF Renews, Turn, Running
  <2> QED
    BY <1>1, <2>1, <2>2 DEF Active, Running
<1>4. CASE Elapses(t)
  BY <1>1, <1>4 DEF Elapses, Turn, Running, UsageOK, Active
<1>5. CASE Requests(t)
  <2>1. PICK x : /\ x = [turn[t] EXCEPT !.requests = @ + 1]
                 /\ turn' = [turn EXCEPT ![t] = x] /\ ledger' = ledger
    BY <1>1, <1>5 DEF Requests
  <2>2. x \in Turn /\ x.status = turn[t].status /\ x.lock = turn[t].lock /\ Active(t)
    BY <1>1, <1>5, <2>1 DEF Requests, Turn
  <2> QED
    BY <1>1, <2>1, <2>2 DEF Active, Running
<1>6. CASE Ends(t)
  <2>1. ASSUME NEW status \in {"EXPIRED", "FAILED", "COMPLETED"}, NEW used,
               Settle(t, status, used)
        PROVE  /\ \A u \in Turns \ {t} : turn'[u] = turn[u] /\ ledger'[u] = ledger[u]
               /\ turn' \in [Turns -> Turn] /\ DOMAIN ledger' = Turns
               /\ turn'[t].status = status /\ ledger'[t] = used
    <3> DEFINE x == Row(turn[t], status, turn[t].lock + 1)
    <3>1. turn' = [turn EXCEPT ![t] = x]
      BY <1>1, <2>1 DEF Settle, Row
    <3>2. turn[t].lock + 1 \in 0..(MaxLock + 1)
      BY <1>1, <1>6 DEF Ends
    <3>3. x \in Turn /\ x.status = status
      BY <1>1, <3>2, RowOf
    <3> HIDE DEF x
    <3> QED
      BY <1>1, <2>1, <3>1, <3>3 DEF Settle
  <2> QED
    BY <1>6, <2>1 DEF Ends, Active, Running
<1> QED
  BY <1>2, <1>3, <1>4, <1>5, <1>6

\* Status, usage and storage agree, and one turn of a session is active.
LEMMA UsageKeeps ==
    ASSUME IInv, Next
    PROVE  UsageOK'
<1>1. Types /\ CallsOK /\ UsageOK
  BY DEF IInv
<1>2. UsageStep
  BY <1>1, UsageSteps
<1>3. /\ stored \subseteq stored'
      /\ \A t \in Turns : session[t] # "none" => session'[t] = session[t]
  BY <1>1, LocalForward
<1>4. ASSUME NEW t \in Turns, session'[t] = "none" PROVE session[t] = "none"
  BY <1>3, <1>4
<1>5. CASE UNCHANGED usage
  BY <1>1, <1>3, <1>4, <1>5 DEF usage, UsageOK, Agree, Active, Running
<1>6. ASSUME NEW t \in Turns, Begins(t) \/ Renews(t) \/ Elapses(t) \/ Requests(t) \/ Ends(t)
      PROVE  UsageOK'
  <2> DEFINE Kept(u) ==
          /\ Agree(u)
          /\ ledger[u] = "CONSUMED" => u \in stored
          /\ turn[u].status = "none" => turn[u] = NoTurn
          /\ session[u] = "none" => turn[u].status = "none"
          /\ Active(u) => turn[u].lock \in 1..MaxLock
  <2>1. \A u \in Turns \ {t} : Kept(u)'
    BY <1>1, <1>3, <1>4, <1>6, UsageFields DEF UsageOK, Agree, Active
  <2>2. session[t] # "none"
    BY <1>1, <1>6 DEF UsageOK, Begins, Renews, Elapses, Requests, Ends, Active, Running
  <2>3. session'[t] # "none"
    BY <1>4, <2>2
  <2>4. Kept(t)'
    BY <1>1, <1>3, <1>6, <2>3, UsageFields, ConstantsAssumption
    DEF UsageOK, Agree, Active, Running
  <2>5. \A u \in Turns \ {t} : session'[t] = session'[u] => ~Active(u)'
    <3> SUFFICES ASSUME NEW u \in Turns \ {t}, session'[t] = session'[u], Active(u)'
                 PROVE  FALSE
      OBVIOUS
    <3>1. Active(u) /\ session[u] # "none"
      BY <1>1, <1>6, UsageFields DEF Active, UsageOK, Running
    <3>2. session[t] = session[u]
      BY <1>3, <2>2, <3>1
    <3>3. ~Active(t)
      BY <1>1, <3>1, <3>2 DEF UsageOK
    <3>4. ActiveIn(session[t]) = {}
      BY <1>6, <3>3 DEF Renews, Elapses, Requests, Ends, Begins
    <3> QED
      BY <3>1, <3>2, <3>4 DEF ActiveIn
  <2>6. \A u, v \in Turns \ {t} :
            Active(u)' /\ Active(v)' /\ session'[u] = session'[v] => u = v
    <3> SUFFICES ASSUME NEW u \in Turns \ {t}, NEW v \in Turns \ {t},
                        Active(u)', Active(v)', session'[u] = session'[v]
                 PROVE  u = v
      OBVIOUS
    <3>1. Active(u) /\ Active(v) /\ session[u] # "none" /\ session[v] # "none"
      BY <1>1, <1>6, UsageFields DEF Active, UsageOK, Running
    <3> QED
      BY <1>1, <1>3, <3>1 DEF UsageOK
  <2> QED
    BY <2>1, <2>4, <2>5, <2>6 DEF UsageOK
<1> QED
  BY <1>2, <1>5, <1>6 DEF UsageStep

\* The turns of the month stay within their limit.
LEMMA QuotaKeeps ==
    ASSUME IInv, Next
    PROVE  (Cardinality(Allocated) <= QuotaLimit)'
<1>1. Types /\ CallsOK /\ UsageOK /\ Cardinality(Allocated) <= QuotaLimit
  BY DEF IInv
<1>2. IsFiniteSet(Allocated) /\ Cardinality(Allocated) \in Nat
  BY ConstantsAssumption, FS_Subset, FS_CardinalityType DEF Allocated
<1>3. ASSUME Allocated' \subseteq Allocated PROVE (Cardinality(Allocated) <= QuotaLimit)'
  <2>1. Cardinality(Allocated') <= Cardinality(Allocated) /\ Cardinality(Allocated') \in Nat
    BY <1>2, <1>3, FS_Subset, FS_CardinalityType
  <2> QED
    BY <1>1, <1>2, <2>1, ConstantsAssumption
<1>4. CASE UNCHANGED usage
  BY <1>1, <1>4 DEF usage, Allocated
<1>5. ASSUME NEW t \in Turns, Renews(t) \/ Elapses(t) \/ Requests(t) \/ Ends(t)
      PROVE  Allocated' \subseteq Allocated
  <2>1. \A u \in Turns \ {t} : ledger'[u] = ledger[u]
    BY <1>1, <1>5, UsageFields
  <2>2. ledger[t] = "RESERVED"
    BY <1>1, <1>5 DEF UsageOK, Agree, Renews, Elapses, Requests, Ends
  <2> QED
    BY <2>1, <2>2 DEF Allocated
<1>6. ASSUME NEW t \in Turns, Begins(t) PROVE (Cardinality(Allocated) <= QuotaLimit)'
  <2>1. Allocated' = Allocated \cup {t} /\ t \notin Allocated
    BY <1>1, <1>6, UsageFields DEF Allocated, UsageOK, Agree, Begins, Types
  <2>2. Cardinality(Allocated') = Cardinality(Allocated) + 1
    BY <1>2, <2>1, FS_AddElement
  <2> QED
    BY <1>2, <1>6, <2>2, ConstantsAssumption DEF Begins
<1> QED
  BY <1>1, <1>3, <1>4, <1>5, <1>6, UsageSteps DEF UsageStep

-----------------------------------------------------------------------------
(* The audit of the gateway. *)

\* A stream is finalized, or dies and leaves its request as it is.
Closes(t, n) ==
    /\ <<t, n>> \in streams /\ streams' = streams \ {<<t, n>>}
    /\ \/ \E end \in {"COMPLETED", "FAILED", "CANCELLED"} :
            audit' = [audit EXCEPT ![t] = [@ EXCEPT ![n] = end]]
       \/ audit' = audit

GatewayStep ==
    \/ UNCHANGED gateway
    \/ \E t \in Turns : Requests(t)
    \/ UNCHANGED usage /\ \E t \in Turns : \E n \in 1..MaxRequests : Closes(t, n)

\* A step opens a request, closes a stream, or leaves the gateway alone.
LEMMA GatewaySteps ==
    ASSUME Types, CallsOK, UsageOK, Next
    PROVE  GatewayStep
<1>1. ASSUME NEW c \in Arriving("open"), Open(c) PROVE GatewayStep
  <2>1. c.turn \in Turns
    BY <1>1, ArrivingCalls
  <2>2. CASE Openable(c)
    <3>1. Requests(c.turn)
      BY <1>1, <2>1, <2>2 DEF Open, Openable, Fresh, Requests, Asked, Types, Turn
    <3> QED
      BY <2>1, <3>1 DEF GatewayStep
  <2> QED
    BY <1>1, <2>2 DEF Open, GatewayStep
<1>2. ASSUME NEW t \in Turns, NEW n \in 1..MaxRequests, Finalize(t, n) PROVE GatewayStep
  BY <1>2 DEF Finalize, Closes, GatewayStep
<1>3. ASSUME NEW t \in Turns, NEW n \in 1..MaxRequests, StreamDies(t, n) PROVE GatewayStep
  BY <1>3 DEF StreamDies, Closes, GatewayStep
<1>4. CASE Serve
  BY <1>1, <1>4 DEF Serve, Claim, Heartbeat, Complete, Fail, End, Decide, Execute, GatewayStep
<1>5. CASE Stream
  BY <1>2, <1>5 DEF Stream, StreamEnds, GatewayStep
<1>6. CASE Time
  BY <1>6 DEF Time, LeaseElapses, Sweep, ApprovalElapses, GatewayStep
<1>7. CASE Run
  BY <1>7 DEF Run, Claimed, StartedUp, OpenStream, StreamRead, UseTool, DecisionAnswered,
     Executed, ToolFails, Finish, Store, Completed, CallFails, Report, Reported,
     BeatAnswered, BeatFails, Propose, Step, GatewayStep
<1>8. CASE Fault
  BY <1>3, <1>8 DEF Fault, Withdraw, StoreFails, LoseMain, LoseBeat, Repeat, Kill,
     SendFails, ExecutionDies, Step, GatewayStep
<1>9. CASE \E a \in Replies : Send(a)
  BY <1>9 DEF Send, SendReply, MarkDelivered, ProjectReply, FinishExecution, GatewayStep
<1>10. CASE Beat \/ Cancel \/ ChangeOpportunity \/ \E t \in Turns, s \in Sessions : Begin(t, s)
  BY <1>10 DEF Beat, Cancel, ChangeOpportunity, Begin, GatewayStep
<1> QED
  BY <1>4, <1>5, <1>6, <1>7, <1>8, <1>9, <1>10 DEF Next

\* A step that is no request leaves the number of requests alone.
LEMMA SameRequests ==
    ASSUME Types, UsageOK, UsageStep, \A t \in Turns : ~Requests(t)
    PROVE  \A t \in Turns : turn'[t].requests = turn[t].requests
<1>1. CASE UNCHANGED usage
  BY <1>1 DEF usage
<1>2. ASSUME NEW t \in Turns, Begins(t) \/ Renews(t) \/ Elapses(t) \/ Ends(t)
      PROVE  \A u \in Turns : turn'[u].requests = turn[u].requests
  <2>1. \A u \in Turns \ {t} : turn'[u] = turn[u]
    BY <1>2, UsageFields
  <2>2. turn \in [Turns -> Turn] /\ turn[t] \in Turn
    BY DEF Types
  <2>3. CASE Begins(t)
    <3>1. turn[t] = NoTurn
      BY <2>3 DEF Begins, UsageOK
    <3>2. ~Active(t) /\ ~Ends(t)
      BY <3>1 DEF NoTurn, Active, Running, Ends
    <3>3. turn'[t].requests = 0 /\ turn[t].requests = 0
      BY <1>2, <3>1, <3>2, UsageFields DEF NoTurn
    <3> QED
      BY <2>1, <3>3
  <2>4. CASE Renews(t)
    BY <2>1, <2>2, <2>4 DEF Renews, Turn
  <2>5. CASE Elapses(t)
    BY <2>1, <2>2, <2>5 DEF Elapses, Turn
  <2>6. ASSUME NEW status, NEW used, Settle(t, status, used)
        PROVE  turn'[t].requests = turn[t].requests
    BY <2>2, <2>6 DEF Settle, Turn
  <2> QED
    BY <1>2, <2>1, <2>3, <2>4, <2>5, <2>6 DEF Ends
<1> QED
  BY <1>1, <1>2 DEF UsageStep

\* A stream belongs to the one request that is under way; requests are numbered.
LEMMA GatewayKeeps ==
    ASSUME IInv, Next
    PROVE  GatewayOK' /\ (audit' \in [Turns -> [1..MaxRequests ->
                              {"none", "STARTED", "COMPLETED", "FAILED", "CANCELLED"}]])
           /\ streams' \subseteq Turns \X (1..MaxRequests)
<1> DEFINE Audits == {"none", "STARTED", "COMPLETED", "FAILED", "CANCELLED"}
<1>1. Types /\ CallsOK /\ UsageOK /\ GatewayOK
  BY DEF IInv
<1>2. /\ audit \in [Turns -> [1..MaxRequests -> Audits]]
      /\ streams \subseteq Turns \X (1..MaxRequests)
      /\ \A t \in Turns : turn[t].requests \in 0..MaxRequests
      /\ turn \in [Turns -> Turn]
  BY <1>1 DEF Types, Turn
<1>3. GatewayStep /\ UsageStep
  BY <1>1, GatewaySteps, UsageSteps
<1>4. CASE UNCHANGED gateway /\ \A t \in Turns : ~Requests(t)
  BY <1>1, <1>2, <1>3, <1>4, SameRequests DEF gateway, GatewayOK, Started
<1>5. ASSUME NEW t \in Turns, Requests(t)
      PROVE  GatewayOK' /\ audit' \in [Turns -> [1..MaxRequests -> Audits]]
             /\ streams' \subseteq Turns \X (1..MaxRequests)
  <2> DEFINE m == turn[t].requests + 1
  <2>1. m \in 1..MaxRequests /\ turn'[t].requests = m
        /\ \A u \in Turns \ {t} : turn'[u] = turn[u]
    BY <1>2, <1>5, ConstantsAssumption DEF Requests, Turn
  <2>2. /\ audit' = [audit EXCEPT ![t] = [audit[t] EXCEPT ![m] = "STARTED"]]
        /\ streams' = streams \cup {<<t, m>>} /\ Started(t) = {}
    BY <1>2, <1>5 DEF Requests
  <2>3. audit'[t] = [audit[t] EXCEPT ![m] = "STARTED"]
        /\ \A u \in Turns \ {t} : audit'[u] = audit[u]
    BY <1>2, <2>2
  <2>4. \A n \in 1..MaxRequests : audit'[t][n] = IF n = m THEN "STARTED" ELSE audit[t][n]
    BY <1>2, <2>1, <2>3
  <2>5. audit' \in [Turns -> [1..MaxRequests -> Audits]]
        /\ streams' \subseteq Turns \X (1..MaxRequests)
    BY <1>2, <2>1, <2>2
  <2> HIDE DEF m
  <2>6. \A n \in 1..MaxRequests : audit'[t][n] # "none" <=> n <= turn'[t].requests
    <3>1. m = turn[t].requests + 1 /\ turn[t].requests \in Nat
      BY <1>2 DEF m
    <3>2. \A n \in 1..MaxRequests : audit[t][n] # "none" <=> n <= turn[t].requests
      BY <1>1 DEF GatewayOK
    <3> QED
      BY <2>1, <2>4, <3>1, <3>2
  <2>7. \A n \in 1..MaxRequests : <<t, n>> \in streams' => audit'[t][n] = "STARTED"
    BY <1>1, <2>2, <2>4 DEF GatewayOK
  <2>8. \A n \in Started(t)' : n = m
    BY <2>2, <2>4 DEF Started
  <2>9. \A u \in Turns \ {t} :
            /\ \A n \in 1..MaxRequests : audit'[u][n] # "none" <=> n <= turn'[u].requests
            /\ \A n \in 1..MaxRequests : <<u, n>> \in streams' => audit'[u][n] = "STARTED"
            /\ \A i, n \in Started(u)' : i = n
    BY <1>1, <2>1, <2>2, <2>3 DEF GatewayOK, Started
  <2> QED
    BY <2>5, <2>6, <2>7, <2>8, <2>9 DEF GatewayOK
<1>6. ASSUME UNCHANGED usage, NEW t \in Turns, NEW n \in 1..MaxRequests, Closes(t, n)
      PROVE  GatewayOK' /\ audit' \in [Turns -> [1..MaxRequests -> Audits]]
             /\ streams' \subseteq Turns \X (1..MaxRequests)
  <2>1. audit[t][n] = "STARTED" /\ Started(t) = {n}
    BY <1>1, <1>6 DEF Closes, GatewayOK, Started
  <2>2. CASE audit' = audit
    BY <1>1, <1>2, <1>6, <2>2 DEF Closes, GatewayOK, Started, usage
  <2>3. ASSUME NEW end \in {"COMPLETED", "FAILED", "CANCELLED"},
               audit' = [audit EXCEPT ![t] = [audit[t] EXCEPT ![n] = end]]
        PROVE  GatewayOK' /\ audit' \in [Turns -> [1..MaxRequests -> Audits]]
    <3>1. \A u \in Turns \ {t} : audit'[u] = audit[u]
      BY <1>2, <2>3
    <3>2. \A i \in 1..MaxRequests : audit'[t][i] = IF i = n THEN end ELSE audit[t][i]
      BY <1>2, <2>3
    <3>3. audit' \in [Turns -> [1..MaxRequests -> Audits]]
      BY <1>2, <2>3
    <3> QED
      BY <1>1, <1>6, <2>1, <3>1, <3>2, <3>3 DEF Closes, GatewayOK, Started, usage
  <2> QED
    BY <1>2, <1>6, <2>2, <2>3 DEF Closes
<1> QED
  BY <1>2, <1>3, <1>4, <1>5, <1>6 DEF GatewayStep

-----------------------------------------------------------------------------
(* Calls and the phone. *)

States == {"none", "sent", "open", "running", "ok", "refused"}

\* Call c with its answer.
Answered(c, state, lock) == [c EXCEPT !.state = state, !.lock = lock]

\* The fields of calls and of the phone, so that no later step expands records.
LEMMA AnsweredFields ==
    ASSUME NEW c \in Call, NEW state \in States, NEW lock \in 0..(MaxLock + 1)
    PROVE  /\ Answered(c, state, lock) \in Call
           /\ Answered(c, state, lock).op = c.op /\ Answered(c, state, lock).turn = c.turn
           /\ Answered(c, state, lock).reply = c.reply
           /\ Answered(c, state, lock).state = state /\ Answered(c, state, lock).lock = lock
BY DEF Answered, Call, States

LEMMA StateOnly ==
    ASSUME NEW c \in Call, NEW state
    PROVE  [c EXCEPT !.state = state] = Answered(c, state, c.lock)
BY DEF Answered, Call

Ops == {"claim", "heartbeat", "complete", "fail", "open", "decide", "execute"}

LEMMA NewCallFields ==
    ASSUME NEW op \in Ops, NEW t \in Turns, NEW lock \in 0..(MaxLock + 1),
           NEW a \in Replies \cup {NoReply}
    PROVE  /\ NewCall(op, t, lock, a) \in Call
           /\ NewCall(op, t, lock, a).op = op /\ NewCall(op, t, lock, a).turn = t
           /\ NewCall(op, t, lock, a).lock = lock /\ NewCall(op, t, lock, a).reply = a
           /\ NewCall(op, t, lock, a).state = "sent"
BY DEF NewCall, Call, Ops

LEMMA NoCallFields ==
    /\ NoCall.op = "none" /\ NoCall.turn = 0 /\ NoCall.lock = 0
    /\ NoCall.reply = NoReply /\ NoCall.state = "none" /\ NoCall \in Call
BY ConstantsAssumption DEF NoCall, Call

LEMMA CallFields ==
    ASSUME NEW c \in Call
    PROVE  /\ c.op \in Ops \cup {"none"} /\ c.turn \in Turns \cup {0}
           /\ c.lock \in 0..(MaxLock + 1) /\ c.reply \in Replies \cup {NoReply}
           /\ c.state \in States
BY DEF Call, Ops, States

\* The phone goes to another phase of the same run.
Moves(pc) ==
    phone' \in Phone /\ phone'.pc = pc /\ phone'.turn = phone.turn /\ phone'.lock = phone.lock

Phases == {"idle", "claim", "start", "stopping", "complete", "failing", "fail"} \cup Hosting

LEMMA GotoMoves ==
    ASSUME Types, NEW pc \in Phases, Goto(pc)
    PROVE  Moves(pc)
BY DEF Types, Goto, Moves, Phone, Phases

LEMMA PhoneFields ==
    ASSUME Types
    PROVE  phone.pc \in Phases /\ phone.turn \in Turns \cup {0} /\ phone.lock \in 0..(MaxLock + 1)
BY DEF Types, Phone, Phases

\* A good call stays one: what it refers to stays.
LEMMA CallStays ==
    ASSUME Types, Next, NEW c, CallOK(c)
    PROVE  CallOK(c)'
<1>1. /\ stored \subseteq stored'
      /\ \A t \in Turns : session[t] # "none" => session'[t] = session[t]
      /\ \A a \in Replies : proposal[a] # NoProposal => proposal'[a] = proposal[a]
  BY LocalForward
<1>2. NoProposal.decision = "none"
  BY DEF NoProposal
<1>3. c.op \in {"decide", "execute"} =>
          c.reply \in Replies /\ proposal'[c.reply].decision # "none"
  BY <1>1, <1>2 DEF CallOK
<1>4. c.op # "none" => c.turn \in Turns /\ session'[c.turn] # "none" /\ c.state # "none"
  BY <1>1 DEF CallOK
<1>5. c.op = "complete" => c.turn \in stored'
  BY <1>1 DEF CallOK
<1> QED
  BY <1>3, <1>4, <1>5 DEF CallOK

\* Only calls that were under way become late.
LEMMA LateFrom ==
    ASSUME Next
    PROVE  late' \subseteq late \cup {c \in {main, beat} : c.state = "sent"}
<1>1. CASE Serve
  BY <1>1 DEF Serve, Claim, Heartbeat, Complete, Fail, End, Open, Decide, Execute, Answer,
     Refuse
<1>2. CASE Stream \/ Time
  BY <1>2 DEF Stream, Time, StreamEnds, Finalize, LeaseElapses, Sweep, ApprovalElapses, calls
<1>3. CASE Run
  BY <1>3 DEF Run, Claimed, StartedUp, OpenStream, StreamRead, UseTool, DecisionAnswered,
     Executed, ToolFails, Finish, Store, Completed, CallFails, Report, Reported,
     BeatAnswered, BeatFails, Propose, calls, Abort, Abandoned
<1>4. CASE Fault
  BY <1>4 DEF Fault, Withdraw, StoreFails, LoseMain, LoseBeat, Repeat, Kill, StreamDies,
     SendFails, ExecutionDies, calls, Abandoned
<1>5. CASE Beat \/ Cancel \/ ChangeOpportunity \/ \E a \in Replies : Send(a)
  BY <1>5 DEF Beat, Cancel, ChangeOpportunity, Send, SendReply, MarkDelivered, ProjectReply,
     FinishExecution, calls, Abort, Abandoned
<1>6. CASE \E t \in Turns : \E s \in Sessions : Begin(t, s)
  BY <1>6 DEF Begin
<1> QED
  BY <1>1, <1>2, <1>3, <1>4, <1>5, <1>6 DEF Next

\* What a handler answers.
Served(c, state, lock) ==
    /\ c \in Calls /\ c.op \in Ops /\ c.state = "sent" /\ Answer(c, state, lock)
    /\ state \in {"ok", "refused", "open", "running"} /\ lock \in 0..(MaxLock + 1)
    /\ state = "open" => c.op = "open"
    /\ state = "running" => c.op = "execute"
    /\ state = "ok" => c.op \notin {"open", "execute"}
    /\ c.op = "heartbeat" => lock <= MaxLock
    /\ c.op = "claim" /\ state = "ok" /\ c \in {main, beat} => lock = 1

LEMMA AsksClaim ==
    ASSUME PhoneOK, main.op = "claim"
    PROVE  phone.pc = "claim"
BY DEF PhoneOK, Asks

\* A handler answers one call and leaves the phone alone.
LEMMA ServeAnswers ==
    ASSUME IInv, Serve
    PROVE  /\ \E c, state, lock : Served(c, state, lock)
           /\ UNCHANGED <<phone, local, budget, available>>
<1>1. Types /\ CallsOK /\ UsageOK /\ PhoneOK /\ ClearOK
  BY DEF IInv
<1>2. \A t \in Turns : /\ turn[t].lock \in 0..(MaxLock + 1)
                       /\ Active(t) => turn[t].lock \in 1..MaxLock
  BY <1>1 DEF Types, Turn, UsageOK
<1>3. MaxLock \in Nat /\ MaxLock > 1
  BY ConstantsAssumption
<1>4. ASSUME NEW op \in Ops, NEW c \in Arriving(op)
      PROVE  /\ c \in Calls /\ c \in Call /\ c.op = op /\ c.state = "sent" /\ c.turn \in Turns
             /\ c.lock \in 0..(MaxLock + 1) /\ (op = "heartbeat" => c.lock <= MaxLock)
  BY <1>1, ArrivingCalls DEF Ops, Types, Calls, CallOK, Call
<1>5. ASSUME NEW op \in Ops, NEW c \in Arriving(op), Refuse(c)
      PROVE  Served(c, "refused", c.lock)
  BY <1>4, <1>5 DEF Refuse, Served
<1>6. ASSUME NEW c \in Arriving("claim"), Claim(c)
      PROVE  \E state, lock : Served(c, state, lock)
  <2>1. /\ c \in Calls /\ c.op = "claim" /\ c.state = "sent" /\ c.turn \in Turns
        /\ "claim" \in Ops
    BY <1>4 DEF Ops
  <2>2. CASE Refuse(c)
    BY <1>5, <2>1, <2>2
  <2>3. CASE Answer(c, "ok", 1)
    BY <1>3, <2>1, <2>3 DEF Served
  <2>4. CASE c.turn \in Met(c) /\ Answer(c, "ok", turn[c.turn].lock)
    <3>1. Active(c.turn)
      BY <2>1, <2>4 DEF Met, ActiveIn
    <3>2. c = main => turn[c.turn].lock = 1
      <4>1. CASE c = main
        <5>1. phone.pc = "claim" /\ main.turn = phone.turn
          BY <1>1, <2>1, <4>1, AsksClaim, NoCallFields DEF PhoneOK
        <5> QED
          BY <1>1, <1>2, <2>1, <3>1, <4>1, <5>1 DEF ClearOK
      <4> QED
        BY <4>1
    <3>3. c # beat
      BY <1>1, <2>1, NoCallFields DEF PhoneOK
    <3> QED
      BY <1>2, <2>1, <2>4, <3>2, <3>3 DEF Served
  <2> QED
    BY <1>6, <2>2, <2>3, <2>4 DEF Claim
<1>7. ASSUME NEW c \in Arriving("heartbeat"), Heartbeat(c)
      PROVE  \E state, lock : Served(c, state, lock)
  <2>1. /\ c \in Calls /\ c.op = "heartbeat" /\ c.state = "sent" /\ c.turn \in Turns
        /\ "heartbeat" \in Ops /\ c.lock < MaxLock
    BY <1>1, <1>4, ArrivingCalls DEF Ops, CallOK
  <2>2. CASE Refuse(c)
    BY <1>5, <2>1, <2>2
  <2>3. CASE Fresh(c) /\ Answer(c, "ok", turn[c.turn].lock)
    BY <1>2, <1>3, <2>1, <2>3 DEF Served, Fresh
  <2>4. CASE Fresh(c) /\ c.lock = turn[c.turn].lock /\ Answer(c, "ok", turn[c.turn].lock + 1)
    BY <1>2, <1>3, <2>1, <2>4 DEF Served, Fresh
  <2> QED
    BY <1>7, <2>2, <2>3, <2>4 DEF Heartbeat
<1>8. ASSUME NEW op \in {"complete", "fail"}, NEW c \in Arriving(op),
             NEW status, NEW used, End(c, status, used)
      PROVE  \E state, lock : Served(c, state, lock)
  <2>1. /\ c \in Calls /\ c.op = op /\ c.state = "sent" /\ c.turn \in Turns /\ op \in Ops
    BY <1>4 DEF Ops
  <2>2. CASE Refuse(c)
    BY <1>5, <2>1, <2>2
  <2>3. CASE Answer(c, "ok", turn[c.turn].lock)
    BY <1>2, <2>1, <2>3 DEF Served
  <2>4. CASE Fresh(c) /\ Answer(c, "ok", turn[c.turn].lock + 1)
    BY <1>2, <1>3, <2>1, <2>4 DEF Served, Fresh
  <2> QED
    BY <1>8, <2>2, <2>3, <2>4 DEF End
<1>9. ASSUME NEW op \in {"open", "decide", "execute"}, NEW c \in Arriving(op),
             \/ op = "open" /\ Open(c)
             \/ op = "decide" /\ Decide(c)
             \/ op = "execute" /\ Execute(c)
      PROVE  \E state, lock : Served(c, state, lock)
  <2>1. /\ c \in Calls /\ c.op = op /\ c.state = "sent" /\ c.turn \in Turns /\ op \in Ops
        /\ c.lock \in 0..(MaxLock + 1)
    BY <1>4 DEF Ops
  <2>2. CASE Refuse(c)
    BY <1>5, <2>1, <2>2
  <2>3. CASE \/ op = "open" /\ Answer(c, "open", c.lock)
             \/ op = "decide" /\ Answer(c, "ok", c.lock)
             \/ op = "execute" /\ Answer(c, "running", c.lock)
    BY <2>1, <2>3 DEF Served
  <2> QED
    BY <1>9, <2>2, <2>3 DEF Open, Decide, Execute
<1>10. UNCHANGED <<phone, local, budget, available>>
  BY DEF Serve, Claim, Heartbeat, Complete, Fail, End, Open, Decide, Execute
<1>11. ASSUME \/ \E c \in Arriving("complete") : Complete(c)
              \/ \E c \in Arriving("fail") : Fail(c)
       PROVE  \E c, state, lock : Served(c, state, lock)
  BY <1>8, <1>11 DEF Complete, Fail
<1>12. ASSUME \/ \E c \in Arriving("open") : Open(c)
              \/ \E c \in Arriving("decide") : Decide(c)
              \/ \E c \in Arriving("execute") : Execute(c)
       PROVE  \E c, state, lock : Served(c, state, lock)
  BY <1>9, <1>12
<1>13. ASSUME \/ \E c \in Arriving("claim") : Claim(c)
              \/ \E c \in Arriving("heartbeat") : Heartbeat(c)
       PROVE  \E c, state, lock : Served(c, state, lock)
  BY <1>6, <1>7, <1>13
<1> QED
  BY <1>10, <1>11, <1>12, <1>13 DEF Serve

\* The call the phone waits for is left alone, given up, answered or new.
MainStep ==
    \/ main' = main \/ main' = NoCall
    \/ /\ main.op # "none"
       /\ \E state \in {"ok", "refused", "open", "running"}, lock \in 0..(MaxLock + 1) :
            /\ main' = Answered(main, state, lock)
            /\ main.op = "heartbeat" => lock <= MaxLock
            /\ main.op = "claim" /\ state = "ok" => lock = 1
    \/ /\ phone'.turn \in Turns /\ phone.lock <= MaxLock /\ session'[phone'.turn] # "none"
       /\ \/ main' = NewCall("claim", phone'.turn, 0, NoReply)
          \/ main' = NewCall("heartbeat", phone'.turn, 1, NoReply)
          \/ \E op \in {"open", "fail"} : main' = NewCall(op, phone'.turn, phone.lock, NoReply)
          \/ /\ phone'.turn \in stored'
             /\ main' = NewCall("complete", phone'.turn, phone.lock, NoReply)
          \/ \E op \in {"decide", "execute"}, a \in Replies :
                /\ proposal'[a].decision # "none"
                /\ main' = NewCall(op, phone'.turn, phone.lock, a)

\* How the main call changes, group by group of the actions.
LEMMA ServeMain ==
    ASSUME IInv, Serve
    PROVE  MainStep
<1>1. PICK c, state, lock : Served(c, state, lock)
  BY ServeAnswers
<1>2. CASE main' = main
  BY <1>2 DEF MainStep
<1>3. CASE c = main /\ main' = [main EXCEPT !.state = state, !.lock = lock]
  <2>1. main.op \in Ops /\ main' = Answered(main, state, lock) /\ main \in {main, beat}
    BY <1>1, <1>3 DEF Served, Answered
  <2> QED
    BY <1>1, <1>3, <2>1 DEF Served, MainStep, Ops
<1> QED
  BY <1>1, <1>2, <1>3 DEF Served, Answer

\* The main call changes its state only.
LEMMA StateMain ==
    ASSUME Types, CallsOK, main.op # "none",
           NEW state \in {"ok", "refused"}, main' = [main EXCEPT !.state = state],
           main.op = "claim" => state = "refused"
    PROVE  MainStep
<1>1. main \in Call /\ CallOK(main)
  BY DEF Types, CallsOK, Calls
<1>2. main' = Answered(main, state, main.lock) /\ main.lock \in 0..(MaxLock + 1)
  BY <1>1, StateOnly, CallFields
<1>3. state \in {"ok", "refused", "open", "running"}
      /\ (main.op = "heartbeat" => main.lock <= MaxLock)
      /\ (main.op = "claim" /\ state = "ok" => main.lock = 1)
  BY <1>1 DEF CallOK
<1> QED
  BY <1>2, <1>3 DEF MainStep

LEMMA StreamMain ==
    ASSUME IInv, Stream \/ Time \/ Fault \/ (\E a \in Replies : Send(a))
    PROVE  MainStep
<1>1. Types /\ CallsOK /\ PhoneOK
  BY DEF IInv
<1>2. CASE main' = main \/ main' = NoCall
  BY <1>2 DEF MainStep
<1>3. ASSUME StreamEnds PROVE MainStep
  <2>1. /\ main.op = "open"
        /\ \E state \in {"ok", "refused"} : main' = [main EXCEPT !.state = state]
    BY <1>3 DEF StreamEnds, Streaming
  <2> QED
    BY <1>1, <2>1, StateMain
<1>4. ASSUME NEW t \in Turns, NEW n \in 1..MaxRequests, StreamDies(t, n) PROVE MainStep
  BY <1>1, <1>2, <1>4, StateMain DEF StreamDies, Streaming
<1>5. ASSUME NEW a \in Replies, FinishExecution(a) \/ ExecutionDies(a) PROVE MainStep
  BY <1>1, <1>2, <1>5, StateMain DEF FinishExecution, ExecutionDies, Told
<1>6. ASSUME LoseMain PROVE MainStep
  <2>1. main.op # "none"
    BY <1>1, <1>6, NoCallFields DEF LoseMain, CallsOK, Calls, CallOK
  <2>2. main' = [main EXCEPT !.state = "refused"]
    BY <1>6 DEF LoseMain
  <2> QED
    BY <1>1, <2>1, <2>2, StateMain
<1>7. CASE Stream \/ Time
  BY <1>2, <1>3, <1>7 DEF Stream, Time, Finalize, LeaseElapses, Sweep, ApprovalElapses, calls
<1>8. CASE Fault
  BY <1>2, <1>4, <1>5, <1>6, <1>8 DEF Fault, Withdraw, StoreFails, LoseBeat, Repeat, Kill,
     Stop, SendFails, calls
<1>9. CASE \E a \in Replies : Send(a)
  BY <1>2, <1>5, <1>9 DEF Send, SendReply, MarkDelivered, ProjectReply, calls
<1> QED
  BY <1>7, <1>8, <1>9

LEMMA PhoneMain ==
    ASSUME IInv, Run \/ Beat \/ Cancel \/ ChangeOpportunity
                   \/ \E t \in Turns : \E s \in Sessions : Begin(t, s)
    PROVE  MainStep
<1>1. Types /\ CallsOK /\ PhoneOK
  BY DEF IInv
<1>2. CASE main' = main \/ main' = NoCall
  BY <1>2 DEF MainStep
<1>3. phone \in Phone /\ phone.lock <= MaxLock
      /\ (phone.pc # "idle" => phone.turn \in Turns /\ session[phone.turn] # "none")
  BY <1>1 DEF Types, PhoneOK
<1>4. ASSUME NEW t \in Turns, NEW s \in Sessions, Begin(t, s) PROVE MainStep
  <2>1. /\ phone'.turn = t /\ session' = [session EXCEPT ![t] = s]
        /\ main' = NewCall("claim", t, 0, NoReply)
    BY <1>4 DEF Begin, IdlePhone
  <2>2. session'[t] # "none"
    BY <1>1, <2>1, ConstantsAssumption DEF Types
  <2> QED
    BY <1>3, <2>1, <2>2 DEF MainStep
<1>5. ASSUME Claimed PROVE MainStep
  <2>1. main.op = "claim" /\ main.state = "ok"
    BY <1>1, <1>5 DEF Claimed, PhoneOK, Asks
  <2>2. main.lock = 1
    BY <1>1, <2>1 DEF CallsOK, Calls, CallOK
  <2>3. phone'.turn = phone.turn /\ phone.pc = "claim"
    BY <1>3, <1>5 DEF Claimed, Phone
  <2>4. main' = NewCall("heartbeat", phone.turn, 1, NoReply) /\ session' = session
    BY <1>5, <2>2 DEF Claimed, local
  <2> QED
    BY <1>3, <2>3, <2>4 DEF MainStep
<1>6. ASSUME OpenStream \/ Report PROVE MainStep
  <2>1. phone'.turn = phone.turn /\ phone.pc # "idle"
    BY <1>3, <1>6 DEF OpenStream, Report, Step, Goto, Phone
  <2>2. /\ \E op \in {"open", "fail"} : main' = NewCall(op, phone.turn, phone.lock, NoReply)
        /\ session' = session
    BY <1>6 DEF OpenStream, Report, Ask, local
  <2> QED
    BY <1>3, <2>1, <2>2 DEF MainStep
<1>7. ASSUME Store PROVE MainStep
  <2>1. phone'.turn = phone.turn /\ phone.pc # "idle"
    BY <1>3, <1>7 DEF Store, Step, Goto, Phone
  <2>2. main' = NewCall("complete", phone.turn, phone.lock, NoReply)
        /\ session' = session /\ phone.turn \in stored'
    BY <1>7 DEF Store, Ask
  <2> QED
    BY <1>3, <2>1, <2>2 DEF MainStep
<1>8. ASSUME NEW a \in Replies, NEW d \in {"GRANTED", "DENIED"}, NEW v \in 1..opp,
             Propose(a, d, v)
      PROVE  MainStep
  <2>1. phone'.turn = phone.turn /\ phone.pc # "idle"
    BY <1>3, <1>8 DEF Propose, Step, Goto, Phone
  <2>2. main' = NewCall("decide", phone.turn, phone.lock, a) /\ session' = session
    BY <1>8 DEF Propose, Ask
  <2>3. proposal'[a].decision # "none"
    BY <1>1, <1>8 DEF Propose, Types
  <2> QED
    BY <1>3, <2>1, <2>2, <2>3 DEF MainStep
<1>9. ASSUME DecisionAnswered PROVE MainStep
  <2>1. main.op = "decide"
    BY <1>1, <1>9 DEF DecisionAnswered, PhoneOK, Asks
  <2>2. main.reply \in Replies /\ proposal[main.reply].decision # "none"
    BY <1>1, <2>1 DEF CallsOK, Calls, CallOK
  <2>3. CASE Step("decide", "execute") /\ Ask("execute", main.reply)
    <3>1. phone'.turn = phone.turn /\ phone.pc # "idle"
      BY <1>3, <2>3 DEF Step, Goto, Phone
    <3>2. main' = NewCall("execute", phone.turn, phone.lock, main.reply)
          /\ session' = session /\ proposal' = proposal
      BY <1>9, <2>3 DEF DecisionAnswered, Ask, local
    <3> QED
      BY <1>3, <2>2, <3>1, <3>2 DEF MainStep
  <2> QED
    BY <1>2, <1>9, <2>3 DEF DecisionAnswered
<1>10. CASE Run
  BY <1>2, <1>5, <1>6, <1>7, <1>8, <1>9, <1>10 DEF Run, StartedUp, StreamRead, UseTool, Executed,
     ToolFails, Finish, Completed, Stop, CallFails, Reported, BeatAnswered, BeatFails, Abort,
     calls
<1>11. CASE Beat \/ Cancel \/ ChangeOpportunity
  BY <1>2, <1>11 DEF Beat, Cancel, Abort, Stop, ChangeOpportunity, calls
<1> QED
  BY <1>4, <1>10, <1>11

\* The same of the heartbeat.
BeatStep ==
    \/ beat' = beat \/ beat' = NoCall
    \/ /\ beat.op # "none"
       /\ \E state \in {"ok", "refused", "open", "running"}, lock \in 0..MaxLock :
            beat' = Answered(beat, state, lock)
    \/ /\ phone.turn \in Turns /\ session'[phone.turn] # "none" /\ phone.lock < MaxLock
       /\ beat' = NewCall("heartbeat", phone.turn, phone.lock, NoReply)

\* How the heartbeat changes.
LEMMA BeatSteps ==
    ASSUME IInv, Next
    PROVE  BeatStep
<1>1. Types /\ CallsOK /\ PhoneOK /\ beat \in Call /\ MaxLock \in Nat
  BY ConstantsAssumption DEF IInv, Types
<1>2. beat.lock <= MaxLock /\ (beat.op # "none" => beat.op = "heartbeat")
  BY <1>1, NoCallFields DEF PhoneOK, CallsOK, Calls, CallOK
<1>3. CASE beat' = beat \/ beat' = NoCall
  BY <1>3 DEF BeatStep
<1>4. ASSUME Serve PROVE BeatStep
  <2>1. PICK c, state, lock : Served(c, state, lock)
    BY <1>4, ServeAnswers
  <2>2. CASE c = beat /\ beat' = [beat EXCEPT !.state = state, !.lock = lock]
    <3>1. /\ state \in {"ok", "refused", "open", "running"} /\ lock \in 0..(MaxLock + 1)
          /\ beat.op \in Ops /\ (beat.op = "heartbeat" => lock <= MaxLock)
      BY <2>1, <2>2 DEF Served
    <3>2. beat' = Answered(beat, state, lock) /\ beat.op # "none"
      BY <2>2, <3>1 DEF Answered, Ops
    <3>3. lock \in 0..MaxLock
      BY <1>1, <1>2, <3>1, <3>2
    <3> QED
      BY <3>1, <3>2, <3>3 DEF BeatStep
  <2> QED
    BY <1>3, <2>1, <2>2 DEF Served, Answer
<1>5. ASSUME LoseBeat PROVE BeatStep
  <2>1. beat.op # "none"
    BY <1>1, <1>5, NoCallFields DEF LoseBeat, CallsOK, Calls, CallOK
  <2>2. beat' = Answered(beat, "refused", beat.lock) /\ beat.lock \in 0..MaxLock
    BY <1>1, <1>2, <1>5, StateOnly, CallFields DEF LoseBeat
  <2> QED
    BY <2>1, <2>2 DEF BeatStep
<1>6. ASSUME Beat PROVE BeatStep
  <2>1. phone.turn \in Turns /\ session[phone.turn] # "none"
    BY <1>1, <1>6 DEF Beat, Hosting, PhoneOK
  <2>2. session' = session
    BY <1>6 DEF Beat, local
  <2> QED
    BY <1>6, <2>1, <2>2 DEF Beat, BeatStep
<1>7. CASE Stream \/ Time
  BY <1>3, <1>7 DEF Stream, Time, StreamEnds, Finalize, LeaseElapses, Sweep, ApprovalElapses, calls
<1>8. CASE Run
  BY <1>3, <1>8 DEF Run, Claimed, StartedUp, OpenStream, StreamRead, UseTool, DecisionAnswered,
     Executed, ToolFails, Finish, Store, Completed, CallFails, Report, Reported,
     BeatAnswered, BeatFails, Propose, calls
<1>9. CASE Fault
  BY <1>3, <1>5, <1>9 DEF Fault, Withdraw, StoreFails, LoseMain, Repeat, Kill, StreamDies,
     SendFails, ExecutionDies, calls
<1>10. CASE Cancel \/ ChangeOpportunity \/ \E a \in Replies : Send(a)
  BY <1>3, <1>10 DEF Cancel, ChangeOpportunity, Send, SendReply, MarkDelivered, ProjectReply,
     FinishExecution, calls
<1>11. CASE \E t \in Turns : \E s \in Sessions : Begin(t, s)
  BY <1>3, <1>11 DEF Begin
<1> QED
  BY <1>4, <1>6, <1>7, <1>8, <1>9, <1>10, <1>11 DEF Next

\* Calls stay good calls.
LEMMA CallsKeep ==
    ASSUME IInv, Next
    PROVE  CallsOK' /\ main' \in Call /\ beat' \in Call /\ late' \subseteq Call
<1> DEFINE Good == {c \in Call : CallOK(c)'}
<1>1. /\ Types /\ CallsOK /\ MaxLock \in Nat /\ MaxLock > 1 /\ phone.lock \in 0..(MaxLock + 1)
      /\ Calls \subseteq Call /\ main \in Calls /\ beat \in Calls
  BY ConstantsAssumption, PhoneFields DEF IInv, Types, Calls
<1>2. \A c \in Call : CallOK(c) => c \in Good
  <2> TAKE c \in Call
  <2> HAVE CallOK(c)
  <2> QED
    BY <1>1, CallStays
<1>3. Calls \subseteq Good
  BY <1>1, <1>2 DEF CallsOK
<1>4. NoCall \in Good
  BY NoCallFields DEF CallOK
<1>5. ASSUME NEW c \in Calls, c.op # "none",
             NEW state \in {"ok", "refused", "open", "running"}, NEW lock \in 0..(MaxLock + 1),
             c.op = "heartbeat" => lock <= MaxLock,
             c.op = "claim" /\ state = "ok" => lock = 1
      PROVE  Answered(c, state, lock) \in Good
  <2>1. c \in Call /\ state \in States /\ CallOK(c)'
    BY <1>1, <1>3 DEF States
  <2> DEFINE x == Answered(c, state, lock)
  <2>2. /\ x \in Call /\ x.op = c.op /\ x.turn = c.turn /\ x.reply = c.reply
        /\ x.state = state /\ x.lock = lock
    BY <2>1, AnsweredFields
  <2> HIDE DEF x
  <2>3. CallOK(x)'
    BY <1>5, <2>1, <2>2 DEF CallOK
  <2> QED
    BY <2>2, <2>3 DEF x
<1>6. ASSUME NEW op \in Ops, NEW t \in Turns, NEW lock \in 0..(MaxLock + 1),
             NEW a \in Replies \cup {NoReply},
             session'[t] # "none",
             op = "complete" => t \in stored',
             op \in {"decide", "execute"} => a \in Replies /\ proposal'[a].decision # "none",
             op = "heartbeat" => lock < MaxLock
      PROVE  NewCall(op, t, lock, a) \in Good
  <2> DEFINE x == NewCall(op, t, lock, a)
  <2>1. /\ x \in Call /\ x.op = op /\ x.turn = t /\ x.lock = lock /\ x.reply = a
        /\ x.state = "sent"
    BY NewCallFields
  <2> HIDE DEF x
  <2>2. CallOK(x)'
    BY <1>1, <1>6, <2>1 DEF CallOK, Ops
  <2> QED
    BY <2>1, <2>2 DEF x
<1>7. main' \in Good
  <2>1. MainStep
    BY ServeMain, StreamMain, PhoneMain DEF Next
  <2>2. ASSUME phone'.turn \in Turns, phone.lock <= MaxLock, session'[phone'.turn] # "none"
        PROVE  /\ NewCall("claim", phone'.turn, 0, NoReply) \in Good
               /\ NewCall("heartbeat", phone'.turn, 1, NoReply) \in Good
               /\ \A op \in {"open", "fail"} : NewCall(op, phone'.turn, phone.lock, NoReply) \in Good
               /\ phone'.turn \in stored' =>
                      NewCall("complete", phone'.turn, phone.lock, NoReply) \in Good
               /\ \A op \in {"decide", "execute"}, a \in Replies :
                      proposal'[a].decision # "none" =>
                          NewCall(op, phone'.turn, phone.lock, a) \in Good
    <3>1. PICK t : t = phone'.turn
      OBVIOUS
    <3>2. /\ t \in Turns /\ session'[t] # "none" /\ 0 \in 0..(MaxLock + 1)
          /\ 1 \in 0..(MaxLock + 1) /\ NoReply \in Replies \cup {NoReply}
      BY <1>1, <2>2, <3>1
    <3>3. PICK lock : lock = phone.lock
      OBVIOUS
    <3> HIDE DEF Good
    <3>4. NewCall("claim", t, 0, NoReply) \in Good
      BY <1>6, <3>2 DEF Ops
    <3>5. NewCall("heartbeat", t, 1, NoReply) \in Good
      BY <1>1, <1>6, <3>2 DEF Ops
    <3>6. \A op \in {"open", "fail"} : NewCall(op, t, lock, NoReply) \in Good
      BY <1>1, <1>6, <3>2, <3>3 DEF Ops
    <3>7. t \in stored' => NewCall("complete", t, lock, NoReply) \in Good
      BY <1>1, <1>6, <3>2, <3>3 DEF Ops
    <3>8. \A op \in {"decide", "execute"}, a \in Replies :
              proposal'[a].decision # "none" => NewCall(op, t, lock, a) \in Good
      BY <1>1, <1>6, <3>2, <3>3 DEF Ops
    <3> QED
      BY <3>1, <3>3, <3>4, <3>5, <3>6, <3>7, <3>8
  <2> HIDE DEF Good
  <2> QED
    BY <1>1, <1>3, <1>4, <1>5, <2>1, <2>2 DEF MainStep
<1>8. beat' \in Good
  <2>1. BeatStep /\ (beat.op # "none" => beat.op = "heartbeat")
    BY BeatSteps, NoCallFields DEF IInv, PhoneOK
  <2>2. ASSUME phone.turn \in Turns, session'[phone.turn] # "none", phone.lock < MaxLock
        PROVE  NewCall("heartbeat", phone.turn, phone.lock, NoReply) \in Good
    <3>1. PICK t, lock : t = phone.turn /\ lock = phone.lock
      OBVIOUS
    <3> HIDE DEF Good
    <3>2. NewCall("heartbeat", t, lock, NoReply) \in Good
      BY <1>1, <1>6, <2>2, <3>1 DEF Ops
    <3> QED
      BY <3>1, <3>2
  <2> HIDE DEF Good
  <2>3. ASSUME beat.op # "none", NEW state \in {"ok", "refused", "open", "running"},
               NEW lock \in 0..MaxLock
        PROVE  Answered(beat, state, lock) \in Good
    BY <1>1, <1>5, <2>1, <2>3
  <2> QED
    BY <1>1, <1>3, <1>4, <2>1, <2>2, <2>3 DEF BeatStep
<1>9. late' \subseteq Calls /\ \A c \in late' : c.op # "none" /\ c.state = "sent"
  <2>1. \A c \in late' : c \in late \/ (c \in {main, beat} /\ c.state = "sent")
    BY LateFrom
  <2>2. \A c \in {main, beat} : c.state = "sent" => c.op # "none"
    BY <1>1, NoCallFields DEF CallsOK, Calls, CallOK
  <2> QED
    BY <1>1, <2>1, <2>2 DEF CallsOK, Calls
<1> QED
  BY <1>3, <1>7, <1>8, <1>9 DEF CallsOK, Calls

\* The phone goes to another phase, and from there waits for the call of that phase.
LEMMA MovesKeep ==
    ASSUME Types, PhoneOK, Next, NEW pc \in Phases, Moves(pc), phone.pc # "idle",
           main'.op = Asks(pc), main' = NoCall \/ main'.turn = phone.turn,
           main'.state \in {"none", "sent"},
           beat' \in {beat, NoCall},
           beat' = NoCall \/ pc \in Hosting \cup {"stopping", "failing"}
    PROVE  PhoneOK' /\ phone' \in Phone
<1>1. session'[phone.turn] # "none" /\ phone.turn \in Turns
  BY LocalForward DEF PhoneOK
<1> QED
  BY <1>1 DEF PhoneOK, Moves

\* The run is over.
LEMMA StopKeeps ==
    ASSUME Stop, beat' = NoCall, NoCall.op = "none", NoCall.state = "none"
    PROVE  PhoneOK' /\ phone' \in Phone
<1>1. /\ phone' = IdlePhone /\ IdlePhone.pc = "idle" /\ IdlePhone.lock = 0
      /\ IdlePhone \in Phone /\ main' = NoCall /\ MaxLock \in Nat
  BY ConstantsAssumption DEF Stop, IdlePhone, Phone
<1> QED
  BY <1>1 DEF PhoneOK, Asks

\* The phone stays where it is; its calls go on.
LEMMA WaitKeeps ==
    ASSUME Types, PhoneOK, Next, phone' = phone,
           main' = main \/ (main.op # "none" /\ main'.op = main.op /\ main'.turn = main.turn),
           main'.state = "open" => main.op = "open",
           main'.state = "running" => main.op = "execute",
           \/ beat' \in {beat, NoCall}
           \/ beat # NoCall /\ beat'.op = beat.op /\ beat'.turn = beat.turn
           \/ beat'.op = "heartbeat" /\ beat'.turn = phone.turn /\ phone.pc \in Hosting
    PROVE  PhoneOK' /\ phone' \in Phone
<1>1. phone.pc # "idle" => session'[phone.turn] # "none" /\ phone.turn \in Turns
  BY LocalForward DEF PhoneOK
<1>2. NoCall.op = "none" /\ phone' \in Phone
  BY NoCallFields DEF Types
<1> QED
  BY <1>1, <1>2 DEF PhoneOK

\* A handler leaves the phone where it waits.
LEMMA ServeKeeps ==
    ASSUME IInv, Next, Serve
    PROVE  PhoneOK' /\ phone' \in Phone
<1>1. Types /\ PhoneOK /\ main \in Call /\ beat \in Call
  BY DEF IInv, Types
<1>2. phone' = phone
  BY ServeAnswers
<1>3. PICK c, state, lock : Served(c, state, lock)
  BY ServeAnswers
<1>4. /\ state \in States /\ lock \in 0..(MaxLock + 1) /\ c.op \in Ops
      /\ state = "open" => c.op = "open"
      /\ state = "running" => c.op = "execute"
  BY <1>3 DEF Served, States
<1>5. CASE c = main /\ main' = [main EXCEPT !.state = state, !.lock = lock] /\ beat' = beat
  <2>1. main' = Answered(main, state, lock)
    BY <1>5 DEF Answered
  <2>2. main'.op = main.op /\ main'.turn = main.turn /\ main'.state = state /\ main.op # "none"
    BY <1>1, <1>4, <1>5, <2>1, AnsweredFields DEF Ops
  <2> QED
    BY <1>1, <1>2, <1>4, <1>5, <2>2, WaitKeeps
<1>6. CASE c = beat /\ beat' = [beat EXCEPT !.state = state, !.lock = lock] /\ main' = main
  <2>1. beat' = Answered(beat, state, lock)
    BY <1>6 DEF Answered
  <2>2. beat'.op = beat.op /\ beat'.turn = beat.turn /\ beat # NoCall
    BY <1>1, <1>4, <1>6, <2>1, AnsweredFields, NoCallFields DEF Ops
  <2>3. (main'.state = "open" => main.op = "open") /\ (main'.state = "running" => main.op = "execute")
    BY <1>1, <1>6 DEF PhoneOK
  <2> QED
    BY <1>1, <1>2, <1>6, <2>2, <2>3, WaitKeeps
<1>7. CASE main' = main /\ beat' = beat
  <2>1. (main'.state = "open" => main.op = "open") /\ (main'.state = "running" => main.op = "execute")
    BY <1>1, <1>7 DEF PhoneOK
  <2> QED
    BY <1>1, <1>2, <1>7, <2>1, WaitKeeps
<1> QED
  BY <1>3, <1>5, <1>6, <1>7 DEF Served, Answer

\* Only the state of the main call changes, or nothing.
LEMMA StateKeeps ==
    ASSUME Types, CallsOK, PhoneOK, Next, phone' = phone, beat' \in {beat, NoCall},
           \/ main' = main
           \/ main.op # "none"
              /\ \E state \in {"ok", "refused"} : main' = [main EXCEPT !.state = state]
    PROVE  PhoneOK' /\ phone' \in Phone
<1>1. CASE main' = main
  <2>1. (main'.state = "open" => main.op = "open") /\ (main'.state = "running" => main.op = "execute")
    BY <1>1 DEF PhoneOK
  <2> QED
    BY <1>1, <2>1, WaitKeeps
<1>2. ASSUME NEW state \in {"ok", "refused"}, main' = [main EXCEPT !.state = state],
             main.op # "none"
      PROVE  PhoneOK' /\ phone' \in Phone
  <2>1. main \in Call /\ main' = Answered(main, state, main.lock) /\ state \in States
        /\ main.lock \in 0..(MaxLock + 1)
    BY <1>2, StateOnly, CallFields DEF Types, States
  <2>2. main'.op = main.op /\ main'.turn = main.turn /\ main'.state = state
    BY <2>1, AnsweredFields
  <2> QED
    BY <1>2, <2>2, WaitKeeps
<1> QED
  BY <1>1, <1>2

\* A run, and what ends it.
LEMMA RunKeeps ==
    ASSUME IInv, Next, Run
    PROVE  PhoneOK' /\ phone' \in Phone
<1>1. /\ Types /\ PhoneOK /\ CallsOK /\ main \in Call /\ beat \in Call /\ phone \in Phone
      /\ phone.lock \in 0..(MaxLock + 1) /\ MaxLock \in Nat /\ MaxLock > 1
      /\ phone.pc # "idle" => phone.turn \in Turns
  BY ConstantsAssumption, PhoneFields DEF IInv, Types, PhoneOK
<1>2. /\ NoCall.op = "none" /\ NoCall.state = "none"
      /\ \A c \in {main, beat} : c.op = "none" => c = NoCall
  BY <1>1, NoCallFields DEF CallsOK, Calls, CallOK
<1>3. ASSUME NEW pc \in Phases, Goto(pc), phone.pc # "idle", main' = NoCall, Asks(pc) = "none",
             beat' \in {beat, NoCall},
             beat' = NoCall \/ pc \in Hosting \cup {"stopping", "failing"}
      PROVE  PhoneOK' /\ phone' \in Phone
  BY <1>1, <1>2, <1>3, GotoMoves, MovesKeep
<1>4. ASSUME NEW pc \in Phases, NEW op \in Ops, NEW a \in Replies \cup {NoReply},
             Goto(pc), phone.pc # "idle", Ask(op, a), Asks(pc) = op, beat' = beat,
             beat' = NoCall \/ pc \in Hosting
      PROVE  PhoneOK' /\ phone' \in Phone
  <2>1. main' = NewCall(op, phone.turn, phone.lock, a)
    BY <1>4 DEF Ask
  <2>2. main'.op = op /\ main'.turn = phone.turn /\ main'.state = "sent"
    BY <1>1, <1>4, <2>1, NewCallFields
  <2> QED
    BY <1>1, <1>4, <2>2, GotoMoves, MovesKeep
<1>5. ASSUME Claimed \/ StartedUp PROVE PhoneOK' /\ phone' \in Phone
  <2>1. phone.turn \in Turns /\ session[phone.turn] # "none" /\ session' = session
    BY <1>1, <1>5 DEF Claimed, StartedUp, PhoneOK, local
  <2>2. main.lock \in 0..(MaxLock + 1) /\ main.lock <= MaxLock
    BY <1>1, <1>5, CallFields DEF Claimed, StartedUp, PhoneOK, Asks, CallsOK, Calls, CallOK
  <2>3. CASE Claimed
    <3>1. /\ phone' \in Phone /\ phone'.pc = "start" /\ phone'.turn = phone.turn
          /\ phone'.lock = main.lock
      BY <1>1, <2>2, <2>3 DEF Claimed, Phone
    <3>2. main' = NewCall("heartbeat", phone.turn, main.lock, NoReply)
      BY <2>3 DEF Claimed
    <3>3. main'.op = "heartbeat" /\ main'.turn = phone.turn /\ main'.state = "sent"
      BY <2>1, <2>2, <3>2, NewCallFields DEF Ops
    <3>4. beat' = NoCall /\ phone.pc = "claim"
      BY <1>1, <2>3 DEF Claimed, PhoneOK, Hosting
    <3> QED
      BY <1>2, <2>1, <2>2, <3>1, <3>3, <3>4 DEF PhoneOK, Asks
  <2>4. CASE StartedUp
    <3>1. /\ phone' \in Phone /\ phone'.pc = "host" /\ phone'.turn = phone.turn
          /\ phone'.lock = main.lock
      BY <1>1, <2>2, <2>4 DEF StartedUp, Phone, Hosting
    <3>2. main' = NoCall /\ beat' = NoCall
      BY <1>1, <2>4 DEF StartedUp, PhoneOK, Hosting
    <3> QED
      BY <1>2, <2>1, <2>2, <3>1, <3>2 DEF PhoneOK, Asks
  <2> QED
    BY <1>5, <2>3, <2>4
<1>6. ASSUME OpenStream \/ StreamRead \/ UseTool \/ Executed \/ ToolFails \/ Finish
      PROVE  PhoneOK' /\ phone' \in Phone
  <2>1. CASE OpenStream
    BY <1>4, <2>1 DEF OpenStream, Step, Phases, Hosting, Ops, Asks
  <2>2. CASE StreamRead
    BY <1>3, <2>2 DEF StreamRead, Step, Phases, Hosting, Asks
  <2>3. CASE UseTool
    <3>1. main' = NoCall
      BY <1>1, <1>2, <2>3 DEF UseTool, Step, PhoneOK, Asks, calls
    <3> QED
      BY <1>3, <2>3, <3>1 DEF UseTool, Step, Phases, Hosting, Asks, calls
  <2>4. CASE Executed
    BY <1>3, <2>4 DEF Executed, Step, Phases, Hosting, Asks
  <2>5. CASE ToolFails
    BY <1>3, <2>5 DEF ToolFails, Step, Phases, Hosting, Asks
  <2>6. CASE Finish
    <3>1. main' = NoCall
      BY <1>1, <1>2, <2>6 DEF Finish, Step, PhoneOK, Asks, calls
    <3> QED
      BY <1>3, <2>6, <3>1 DEF Finish, Step, Phases, Hosting, Asks, calls
  <2> QED
    BY <1>6, <2>1, <2>2, <2>3, <2>4, <2>5, <2>6
<1>7. ASSUME DecisionAnswered PROVE PhoneOK' /\ phone' \in Phone
  <2>1. phone.pc = "decide" /\ beat' = beat
    BY <1>7 DEF DecisionAnswered
  <2>2. main.reply \in Replies \cup {NoReply}
    BY <1>1, CallFields
  <2>3. CASE Step("decide", "execute") /\ Ask("execute", main.reply)
    BY <1>4, <2>1, <2>2, <2>3 DEF Step, Phases, Hosting, Ops, Asks
  <2>4. CASE Step("decide", "host") /\ main' = NoCall
    BY <1>3, <2>1, <2>4 DEF Step, Phases, Hosting, Asks
  <2> QED
    BY <1>7, <2>3, <2>4 DEF DecisionAnswered
<1>8. ASSUME NEW a \in Replies, NEW d, NEW v, Propose(a, d, v) PROVE PhoneOK' /\ phone' \in Phone
  BY <1>4, <1>8 DEF Propose, Step, Phases, Hosting, Ops, Asks
<1>9. ASSUME Store \/ Report PROVE PhoneOK' /\ phone' \in Phone
  <2>1. CASE Store
    BY <1>4, <2>1 DEF Store, Step, Phases, Hosting, Ops, Asks
  <2>2. CASE Report
    BY <1>4, <2>2 DEF Report, Step, Phases, Hosting, Ops, Asks
  <2> QED
    BY <1>9, <2>1, <2>2
<1>10. ASSUME Completed \/ Reported \/ (CallFails /\ phone.pc = "claim")
       PROVE  PhoneOK' /\ phone' \in Phone
  <2>1. Stop /\ beat' = beat /\ phone.pc \in {"complete", "fail", "claim"}
    BY <1>10 DEF Completed, Reported, CallFails
  <2>2. beat = NoCall
    BY <1>1, <2>1 DEF PhoneOK, Hosting
  <2> QED
    BY <1>2, <2>1, <2>2, StopKeeps
<1>11. ASSUME CallFails, phone.pc \in {"start", "stream", "complete"}
       PROVE  PhoneOK' /\ phone' \in Phone
  <2>1. Goto("failing") /\ main' = NoCall /\ beat' = beat
    BY <1>11 DEF CallFails
  <2> QED
    BY <1>3, <1>11, <2>1 DEF Phases, Asks
<1>12. ASSUME BeatAnswered PROVE PhoneOK' /\ phone' \in Phone
  <2>1. beat # NoCall /\ beat.lock \in 0..(MaxLock + 1) /\ beat.lock <= MaxLock
    BY <1>1, <1>2, <1>12, CallFields DEF BeatAnswered, PhoneOK, CallsOK, Calls, CallOK
  <2>2. /\ phone' \in Phone /\ phone'.pc = phone.pc /\ phone'.turn = phone.turn
        /\ phone'.lock = beat.lock /\ beat' = NoCall /\ main' = main /\ session' = session
    BY <1>1, <1>12, <2>1 DEF BeatAnswered, Phone, local
  <2> QED
    BY <1>1, <1>2, <2>1, <2>2 DEF PhoneOK
<1>13. ASSUME BeatFails PROVE PhoneOK' /\ phone' \in Phone
  <2>1. beat' = NoCall
    BY <1>13 DEF BeatFails
  <2>2. CASE phone.pc \in Hosting
    <3>1. Goto("failing") /\ main' = NoCall /\ phone.pc # "idle"
      BY <1>13, <2>2 DEF BeatFails, Abort, Hosting
    <3> QED
      BY <1>3, <2>1, <3>1 DEF Phases, Asks
  <2>3. CASE phone.pc \notin Hosting
    BY <1>1, <1>13, <2>1, <2>3, StateKeeps DEF BeatFails
  <2> QED
    BY <2>2, <2>3
<1> QED
  BY <1>5, <1>6, <1>7, <1>8, <1>9, <1>10, <1>11, <1>12, <1>13 DEF Run, CallFails

\* The phone waits for the call of its phase, whatever happens.
LEMMA PhoneKeeps ==
    ASSUME IInv, Next
    PROVE  PhoneOK' /\ phone' \in Phone
<1>1. Types /\ PhoneOK /\ CallsOK /\ main \in Call /\ beat \in Call /\ phone \in Phone
  BY DEF IInv, Types
<1>2. /\ NoCall.op = "none" /\ NoCall.state = "none"
      /\ \A c \in {main, beat} : c.op = "none" => c = NoCall
      /\ \A c \in {main, beat} : c.state # "none" => c.op # "none"
  BY <1>1, NoCallFields DEF CallsOK, Calls, CallOK
<1>3. ASSUME phone' = phone, UNCHANGED calls PROVE PhoneOK' /\ phone' \in Phone
  BY <1>1, <1>3, StateKeeps DEF calls
<1>4. CASE Stream \/ Time
  <2>1. CASE StreamEnds
    BY <1>1, <2>1, StateKeeps DEF StreamEnds, Streaming
  <2> QED
    BY <1>3, <1>4, <2>1 DEF Stream, Time, Finalize, LeaseElapses, Sweep, ApprovalElapses
<1>5. CASE Fault
  <2>1. ASSUME NEW t, NEW n, StreamDies(t, n) PROVE PhoneOK' /\ phone' \in Phone
    BY <1>1, <2>1, StateKeeps DEF StreamDies, Streaming
  <2>2. ASSUME NEW a, ExecutionDies(a) PROVE PhoneOK' /\ phone' \in Phone
    BY <1>1, <2>2, StateKeeps DEF ExecutionDies, Told
  <2>3. ASSUME LoseMain PROVE PhoneOK' /\ phone' \in Phone
    BY <1>1, <1>2, <2>3, StateKeeps DEF LoseMain
  <2>4. ASSUME LoseBeat PROVE PhoneOK' /\ phone' \in Phone
    <3>1. /\ beat # NoCall /\ phone' = phone /\ main' = main
          /\ beat' = Answered(beat, "refused", beat.lock) /\ beat.lock \in 0..(MaxLock + 1)
      BY <1>1, <1>2, <2>4, StateOnly, CallFields DEF LoseBeat
    <3>2. beat'.op = beat.op /\ beat'.turn = beat.turn
      <4>1. "refused" \in States
        BY DEF States
      <4> QED
        BY <1>1, <3>1, <4>1, AnsweredFields
    <3>3. (main'.state = "open" => main.op = "open") /\ (main'.state = "running" => main.op = "execute")
      BY <1>1, <3>1 DEF PhoneOK
    <3> QED
      BY <1>1, <3>1, <3>2, <3>3, WaitKeeps
  <2>5. ASSUME StoreFails PROVE PhoneOK' /\ phone' \in Phone
    <3>1. /\ Goto("failing") /\ phone.pc = "stopping" /\ main' = main /\ beat' = beat
      BY <2>5 DEF StoreFails, Step, calls
    <3>2. main = NoCall
      BY <1>1, <1>2, <3>1 DEF PhoneOK, Asks
    <3> QED
      <4>1. "failing" \in Phases /\ Asks("failing") = "none" /\ Moves("failing")
        BY <1>1, <3>1, GotoMoves DEF Phases, Asks
      <4> QED
        BY <1>1, <1>2, <3>1, <3>2, <4>1, MovesKeep
  <2>6. ASSUME Kill PROVE PhoneOK' /\ phone' \in Phone
    BY <1>2, <2>6, StopKeeps DEF Kill
  <2>7. ASSUME Withdraw \/ Repeat \/ \E a \in Replies : SendFails(a)
        PROVE  PhoneOK' /\ phone' \in Phone
    BY <1>1, <2>7, StateKeeps DEF Withdraw, Repeat, SendFails, calls
  <2> QED
    BY <1>5, <2>1, <2>2, <2>3, <2>4, <2>5, <2>6, <2>7 DEF Fault
<1>6. CASE \E a \in Replies : Send(a)
  <2>1. ASSUME NEW a \in Replies, FinishExecution(a) PROVE PhoneOK' /\ phone' \in Phone
    BY <1>1, <2>1, StateKeeps DEF FinishExecution, Told
  <2> QED
    BY <1>3, <1>6, <2>1 DEF Send, SendReply, MarkDelivered, ProjectReply
<1>7. ASSUME NEW t \in Turns, NEW s \in Sessions, Begin(t, s) PROVE PhoneOK' /\ phone' \in Phone
  <2>1. /\ phone'.pc = "claim" /\ phone'.turn = t /\ phone'.lock = 0 /\ phone' \in Phone
    <3>1. phone' = [pc |-> "claim", turn |-> t, lock |-> 0]
      BY <1>7 DEF Begin, IdlePhone
    <3> QED
      BY <3>1, ConstantsAssumption DEF Phone
  <2>2. session'[t] # "none" /\ main' = NewCall("claim", t, 0, NoReply)
    <3>1. /\ session' = [session EXCEPT ![t] = s] /\ main' = NewCall("claim", t, 0, NoReply)
          /\ DOMAIN session = Turns
      BY <1>1, <1>7 DEF Begin, Types
    <3> QED
      BY <3>1, ConstantsAssumption
  <2>3. main'.op = "claim" /\ main'.turn = t /\ main'.state = "sent"
    BY <2>2, NewCallFields, ConstantsAssumption DEF Ops
  <2>4. beat' = NoCall
    BY <1>1, <1>7 DEF Begin, PhoneOK, Hosting
  <2> QED
    <3>1. Asks("claim") = "claim" /\ MaxLock \in Nat
      BY ConstantsAssumption DEF Asks
    <3> QED
      BY <1>2, <2>1, <2>2, <2>3, <2>4, <3>1 DEF PhoneOK
<1>8. ASSUME Beat PROVE PhoneOK' /\ phone' \in Phone
  <2>1. /\ phone.pc \in Hosting /\ phone' = phone /\ main' = main
        /\ beat' = NewCall("heartbeat", phone.turn, phone.lock, NoReply)
    BY <1>8 DEF Beat
  <2>2. phone.turn \in Turns
    BY <1>1, <2>1 DEF PhoneOK, Hosting
  <2>3. beat'.op = "heartbeat" /\ beat'.turn = phone.turn
    BY <1>1, <2>1, <2>2, NewCallFields, PhoneFields DEF Ops
  <2>4. (main'.state = "open" => main.op = "open") /\ (main'.state = "running" => main.op = "execute")
    BY <1>1, <2>1 DEF PhoneOK
  <2> QED
    BY <1>1, <2>1, <2>3, <2>4, WaitKeeps
<1>9. ASSUME Cancel PROVE PhoneOK' /\ phone' \in Phone
  <2>1. CASE phone.pc \in Hosting /\ Abort
    <3>1. Goto("failing") /\ main' = NoCall /\ phone.pc # "idle" /\ beat' = beat
      BY <1>9, <2>1 DEF Cancel, Abort, Hosting
    <3> QED
      BY <1>1, <1>2, <3>1, GotoMoves, MovesKeep DEF Phases, Asks
  <2>2. CASE phone.pc = "claim" /\ Stop
    <3>1. beat' = NoCall
      BY <1>1, <1>9, <2>2 DEF Cancel, PhoneOK, Hosting
    <3> QED
      BY <1>2, <2>2, <3>1, StopKeeps
  <2> QED
    BY <1>9, <2>1, <2>2 DEF Cancel
<1>10. CASE ChangeOpportunity
  BY <1>3, <1>10 DEF ChangeOpportunity
<1>11. CASE Serve \/ Run
  BY <1>11, ServeKeeps, RunKeeps
<1> QED
  BY <1>4, <1>5, <1>6, <1>7, <1>8, <1>9, <1>10, <1>11 DEF Next

-----------------------------------------------------------------------------
(* Approvals and the replies they let out. *)

Statuses == {"none", "DENIED", "GRANTED", "EXECUTING", "CONSUMED", "FAILED", "UNCERTAIN", "EXPIRED"}

Progress == {"none", "reply", "accepted", "recorded", "projected", "rejected", "unknown", "done"}

SameRow(b) == approval'[b] = approval[b]

SameSending(b) == execution'[b] = execution[b] /\ sent'[b] = sent[b]

Becomes(b, status) ==
    approval'[b].status = status /\ approval'[b].elapsed = approval[b].elapsed

\* The reply is decided, its grant used, expired or over.
Ruled(b) ==
    /\ SameSending(b)
    /\ \/ /\ approval[b].status = "none" /\ proposal[b].decision # "none"
          /\ Becomes(b, proposal[b].decision)
       \/ approval[b].status = "GRANTED" /\ Becomes(b, "EXPIRED")
       \/ approval[b].status = "GRANTED" /\ approval'[b].status = "GRANTED"

Used(b) ==
    /\ approval[b].status = "GRANTED" /\ Becomes(b, "EXECUTING")
    /\ execution'[b] = "reply" /\ sent'[b] = sent[b]

\* The handler comes a step further, or is lost.
Sends(b) ==
    /\ SameRow(b)
    /\ \/ /\ execution[b] = "reply" /\ execution'[b] \in {"accepted", "unknown"}
          /\ sent'[b] = sent[b] + 1
       \/ /\ execution[b] = "reply" /\ execution'[b] \in {"rejected", "unknown"}
          /\ sent'[b] = sent[b]
       \/ /\ execution[b] = "accepted" /\ execution'[b] \in {"recorded", "unknown"}
          /\ sent'[b] = sent[b]
       \/ /\ execution[b] = "recorded" /\ execution'[b] = "projected" /\ sent'[b] = sent[b]
       \/ /\ execution[b] \notin {"none", "done"} /\ execution'[b] = "done"
          /\ sent'[b] = sent[b]

Judged(b) ==
    /\ execution[b] \in {"recorded", "projected", "rejected", "unknown"}
    /\ execution'[b] = "done" /\ sent'[b] = sent[b] /\ Becomes(b, Verdict(execution[b]))

Lives(b) == (SameRow(b) /\ SameSending(b)) \/ Ruled(b) \/ Used(b) \/ Sends(b) \/ Judged(b)

ActionTypes == /\ approval \in [Replies -> Approval] /\ execution \in [Replies -> Progress]
               /\ sent \in [Replies -> Nat]

\* What each update writes.
LEMMA SetFields ==
    ASSUME ActionTypes, NEW a \in Replies, NEW status \in Statuses, Set(a, status)
    PROVE  /\ approval' \in [Replies -> Approval] /\ Becomes(a, status)
           /\ \A b \in Replies \ {a} : SameRow(b)
<1>1. approval[a] \in Approval
  BY DEF ActionTypes
<1>2. PICK x : x = [approval[a] EXCEPT !.status = status]
  OBVIOUS
<1>3. x \in Approval /\ x.status = status /\ x.elapsed = approval[a].elapsed
  BY <1>1, <1>2 DEF Approval, Statuses
<1>4. approval' = [approval EXCEPT ![a] = x]
  BY <1>2 DEF Set
<1> QED
  BY <1>3, <1>4 DEF ActionTypes, Becomes, SameRow

LEMMA ReachFields ==
    ASSUME ActionTypes, NEW a \in Replies, NEW from, NEW to \in Progress, Reach(a, from, to)
    PROVE  /\ execution' \in [Replies -> Progress] /\ execution[a] = from /\ execution'[a] = to
           /\ \A b \in Replies \ {a} : execution'[b] = execution[b]
BY DEF ActionTypes, Reach

LEMMA AcceptFields ==
    ASSUME ActionTypes, NEW a \in Replies, Accept(a)
    PROVE  /\ sent' \in [Replies -> Nat] /\ sent'[a] = sent[a] + 1
           /\ \A b \in Replies \ {a} : sent'[b] = sent[b]
BY DEF ActionTypes, Accept

\* Each row of the ledger of approvals moves as described, or stays.
LEMMA ServeLives ==
    ASSUME IInv, Serve
    PROVE  ActionTypes' /\ \A b \in Replies : Lives(b)
<1>1. ActionTypes /\ CallsOK /\ ActionsOK /\ Types
  BY DEF IInv, Types, ActionTypes, Progress
<1>2. ASSUME UNCHANGED <<approval, execution, sent>>
      PROVE  ActionTypes' /\ \A b \in Replies : Lives(b)
  BY <1>1, <1>2 DEF ActionTypes, Lives, SameRow, SameSending
<1>3. ASSUME NEW a \in Replies, NEW status \in Statuses, Set(a, status),
             UNCHANGED <<execution, sent>>, Becomes(a, status) => Ruled(a)
      PROVE  ActionTypes' /\ \A b \in Replies : Lives(b)
  BY <1>1, <1>3, SetFields DEF ActionTypes, Lives, SameSending
<1>4. ASSUME NEW c \in Arriving("decide"), Decide(c)
      PROVE  ActionTypes' /\ \A b \in Replies : Lives(b)
  <2>1. c.reply \in Replies /\ proposal[c.reply].decision # "none"
    BY <1>1, <1>4, ArrivingCalls DEF CallOK
  <2>2. proposal[c.reply].decision \in {"GRANTED", "DENIED"}
    BY <1>1, <2>1 DEF Types
  <2>3. UNCHANGED <<execution, sent>>
    BY <1>4 DEF Decide
  <2>4. CASE approval[c.reply].status = "none" /\ Set(c.reply, proposal[c.reply].decision)
    BY <1>3, <2>1, <2>2, <2>3, <2>4 DEF Ruled, SameSending, Statuses
  <2>5. CASE /\ approval[c.reply].status = proposal[c.reply].decision
             /\ approval[c.reply].elapsed /\ Set(c.reply, "EXPIRED")
    <3>1. approval[c.reply].status = "GRANTED"
      BY <1>1, <2>1, <2>2, <2>5 DEF ActionsOK
    <3> QED
      BY <1>3, <2>1, <2>3, <2>5, <3>1 DEF Ruled, SameSending, Statuses
  <2> QED
    BY <1>2, <1>4, <2>3, <2>4, <2>5 DEF Decide
<1>5. ASSUME NEW c \in Arriving("execute"), Execute(c)
      PROVE  ActionTypes' /\ \A b \in Replies : Lives(b)
  <2>1. c.reply \in Replies /\ sent' = sent
    BY <1>1, <1>5, ArrivingCalls DEF CallOK, Execute
  <2>2. CASE /\ approval[c.reply].status = "GRANTED" /\ Set(c.reply, "EXECUTING")
             /\ execution' = [execution EXCEPT ![c.reply] = "reply"]
    <3>1. /\ approval' \in [Replies -> Approval] /\ Becomes(c.reply, "EXECUTING")
          /\ \A b \in Replies \ {c.reply} : SameRow(b)
      BY <1>1, <2>1, <2>2, SetFields DEF Statuses
    <3>2. /\ execution' \in [Replies -> Progress] /\ execution'[c.reply] = "reply"
          /\ \A b \in Replies \ {c.reply} : execution'[b] = execution[b]
      BY <1>1, <2>1, <2>2 DEF ActionTypes, Progress
    <3> QED
      BY <1>1, <2>1, <2>2, <3>1, <3>2 DEF ActionTypes, Lives, Used, SameSending
  <2>3. CASE approval[c.reply].status = "GRANTED" /\ Set(c.reply, "EXPIRED") /\ execution' = execution
    BY <1>3, <2>1, <2>3 DEF Ruled, SameSending, Statuses
  <2>4. CASE approval' = approval /\ execution' = execution
    BY <1>2, <2>1, <2>4
  <2> QED
    BY <1>5, <2>2, <2>3, <2>4 DEF Execute
<1> QED
  BY <1>2, <1>4, <1>5 DEF Serve, Claim, Heartbeat, Complete, Fail, End, Open, actions

LEMMA ActionSteps ==
    ASSUME IInv, Next
    PROVE  ActionTypes' /\ \A b \in Replies : Lives(b)
<1>1. ActionTypes /\ ActionsOK /\ Types
  BY DEF IInv, Types, ActionTypes, Progress
<1>2. ASSUME UNCHANGED <<approval, execution, sent>>
      PROVE  ActionTypes' /\ \A b \in Replies : Lives(b)
  BY <1>1, <1>2 DEF ActionTypes, Lives, SameRow, SameSending
<1>3. ASSUME NEW t \in Turns, LeaseElapses(t)
      PROVE  ActionTypes' /\ \A b \in Replies : Lives(b)
  <2>1. approval' = [a \in Replies |->
            IF proposal[a].turn = t /\ approval[a].status = "GRANTED"
            THEN [approval[a] EXCEPT !.elapsed = TRUE] ELSE approval[a]]
        /\ UNCHANGED <<execution, sent>>
    BY <1>3 DEF LeaseElapses
  <2>2. \A a \in Replies : approval[a] \in Approval
    BY <1>1 DEF ActionTypes
  <2>3. ASSUME NEW x \in Approval
        PROVE  [x EXCEPT !.elapsed = TRUE] \in Approval
               /\ [x EXCEPT !.elapsed = TRUE].status = x.status
    BY DEF Approval
  <2>4. approval' \in [Replies -> Approval]
    BY <2>1, <2>2, <2>3
  <2>5. \A b \in Replies :
            SameRow(b) \/ (approval[b].status = "GRANTED" /\ approval'[b].status = "GRANTED")
    BY <2>1, <2>2, <2>3 DEF SameRow
  <2> QED
    BY <1>1, <2>1, <2>4, <2>5 DEF ActionTypes, Lives, Ruled, SameSending
<1>4. ASSUME NEW a \in Replies, ApprovalElapses(a)
      PROVE  ActionTypes' /\ \A b \in Replies : Lives(b)
  <2>1. PICK x : x = [approval[a] EXCEPT !.elapsed = TRUE]
    OBVIOUS
  <2>2. approval' = [approval EXCEPT ![a] = x] /\ UNCHANGED <<execution, sent>>
        /\ approval[a].status = "GRANTED"
    BY <1>4, <2>1 DEF ApprovalElapses
  <2>3. x \in Approval /\ x.status = "GRANTED"
    BY <1>1, <2>1, <2>2 DEF ActionTypes, Approval
  <2> QED
    BY <1>1, <2>2, <2>3 DEF ActionTypes, Lives, Ruled, SameRow, SameSending
<1>5. ASSUME NEW a \in Replies, SendReply(a) \/ SendFails(a) \/ MarkDelivered(a) \/ ProjectReply(a)
      PROVE  ActionTypes' /\ \A b \in Replies : Lives(b)
  <2>1. ASSUME NEW from, NEW to \in Progress, Reach(a, from, to), approval' = approval,
               sent' = sent \/ Accept(a),
               /\ execution[a] = from /\ execution'[a] = to
               /\ sent'[a] = sent[a] \/ sent'[a] = sent[a] + 1
               => Sends(a)
        PROVE  ActionTypes' /\ \A b \in Replies : Lives(b)
    <3>1. /\ execution' \in [Replies -> Progress] /\ execution[a] = from /\ execution'[a] = to
          /\ \A b \in Replies \ {a} : execution'[b] = execution[b]
      BY <1>1, <2>1, ReachFields
    <3>2. /\ sent' \in [Replies -> Nat] /\ (sent'[a] = sent[a] \/ sent'[a] = sent[a] + 1)
          /\ \A b \in Replies \ {a} : sent'[b] = sent[b]
      BY <1>1, <2>1, AcceptFields DEF ActionTypes
    <3> QED
      BY <1>1, <2>1, <3>1, <3>2 DEF ActionTypes, Lives, SameRow, SameSending
  <2>2. Accept(a) => sent'[a] = sent[a] + 1
    BY <1>1, AcceptFields
  <2>3. CASE SendReply(a)
    BY <2>1, <2>2, <2>3 DEF SendReply, Sends, SameRow, Progress
  <2>4. CASE SendFails(a)
    BY <2>1, <2>2, <2>4 DEF SendFails, Sends, SameRow, Progress
  <2>5. CASE MarkDelivered(a)
    BY <2>1, <2>5 DEF MarkDelivered, Sends, SameRow, Progress
  <2>6. CASE ProjectReply(a)
    BY <2>1, <2>6 DEF ProjectReply, Sends, SameRow, Progress
  <2> QED
    BY <1>5, <2>3, <2>4, <2>5, <2>6
<1>6. ASSUME NEW a \in Replies, FinishExecution(a)
      PROVE  ActionTypes' /\ \A b \in Replies : Lives(b)
  <2>1. /\ execution[a] \in {"recorded", "projected", "rejected", "unknown"}
        /\ Reach(a, execution[a], "done") /\ Set(a, Verdict(execution[a])) /\ sent' = sent
    BY <1>6 DEF FinishExecution
  <2>2. Verdict(execution[a]) \in Statuses
    BY <2>1 DEF Verdict, Statuses
  <2>3. /\ approval' \in [Replies -> Approval] /\ Becomes(a, Verdict(execution[a]))
        /\ \A b \in Replies \ {a} : SameRow(b)
    BY <1>1, <2>1, <2>2, SetFields
  <2>4. /\ execution' \in [Replies -> Progress] /\ execution'[a] = "done"
        /\ \A b \in Replies \ {a} : execution'[b] = execution[b]
    BY <1>1, <2>1, ReachFields DEF Progress
  <2> QED
    BY <1>1, <2>1, <2>3, <2>4 DEF ActionTypes, Lives, Judged, SameSending
<1>7. ASSUME NEW a \in Replies, ExecutionDies(a)
      PROVE  ActionTypes' /\ \A b \in Replies : Lives(b)
  <2>1. /\ execution[a] \notin {"none", "done"} /\ Reach(a, execution[a], "done")
        /\ sent' = sent /\ approval' = approval
    BY <1>7 DEF ExecutionDies
  <2>2. /\ execution' \in [Replies -> Progress] /\ execution'[a] = "done"
        /\ \A b \in Replies \ {a} : execution'[b] = execution[b]
    BY <1>1, <2>1, ReachFields DEF Progress
  <2> QED
    BY <1>1, <2>1, <2>2 DEF ActionTypes, Lives, Sends, SameRow, SameSending
<1>8. CASE Time
  BY <1>2, <1>3, <1>4, <1>8 DEF Time, Sweep, actions
<1>9. CASE Fault
  BY <1>2, <1>5, <1>7, <1>9 DEF Fault, Withdraw, StoreFails, LoseMain, LoseBeat, Repeat, Kill,
     StreamDies, Step, actions
<1>10. CASE \E a \in Replies : Send(a)
  BY <1>5, <1>6, <1>10 DEF Send
<1>11. CASE Stream
  BY <1>2, <1>11 DEF Stream, StreamEnds, Finalize, actions
<1>12. CASE Run
  BY <1>2, <1>12 DEF Run, Claimed, StartedUp, OpenStream, StreamRead, UseTool, DecisionAnswered,
     Executed, ToolFails, Finish, Store, Completed, CallFails, Report, Reported,
     BeatAnswered, BeatFails, Propose, Step, actions
<1>13. CASE Beat \/ Cancel \/ ChangeOpportunity \/ \E t \in Turns : \E s \in Sessions : Begin(t, s)
  BY <1>2, <1>13 DEF Beat, Cancel, ChangeOpportunity, Begin, actions
<1> QED
  BY <1>8, <1>9, <1>10, <1>11, <1>12, <1>13, ServeLives DEF Next

\* Only the handler whose reply went out tells the phone so.
ToldSent ==
    main'.op = "execute" /\ main'.state = "ok" =>
        \/ main' = main
        \/ main'.reply \in Replies /\ approval'[main'.reply].status = "CONSUMED"

\* The main call of a send is answered truthfully.
LEMMA TellsTruth ==
    ASSUME IInv, Next
    PROVE  ToldSent
<1>1. /\ Types /\ CallsOK /\ PhoneOK /\ ActionTypes /\ main \in Call /\ phone.lock \in 0..(MaxLock + 1)
      /\ phone.pc # "idle" => phone.turn \in Turns
  BY PhoneFields DEF IInv, Types, ActionTypes, Progress, PhoneOK
<1>2. CASE main' = main \/ main' = NoCall
  BY <1>2, NoCallFields DEF ToldSent
<1>3. ASSUME main' = [main EXCEPT !.state = "refused"] PROVE ToldSent
  BY <1>1, <1>3 DEF ToldSent, Call
<1>4. ASSUME NEW op \in Ops, NEW lock \in 0..(MaxLock + 1), NEW t \in Turns,
             NEW a \in Replies \cup {NoReply}, main' = NewCall(op, t, lock, a)
      PROVE  ToldSent
  BY <1>4, NewCallFields DEF ToldSent
<1>5. ASSUME NEW op \in Ops, NEW a \in Replies \cup {NoReply}, phone.pc # "idle", Ask(op, a)
      PROVE  ToldSent
  BY <1>1, <1>4, <1>5 DEF Ask
<1>6. ASSUME Serve PROVE ToldSent
  <2>1. PICK c, state, lock : Served(c, state, lock)
    BY <1>6, ServeAnswers
  <2>2. CASE c = main /\ main' = [main EXCEPT !.state = state, !.lock = lock]
    <3>1. /\ state \in States /\ lock \in 0..(MaxLock + 1) /\ main' = Answered(main, state, lock)
          /\ state = "ok" => main.op # "execute"
      BY <2>1, <2>2 DEF Served, States, Answered
    <3> QED
      BY <1>1, <3>1, AnsweredFields DEF ToldSent
  <2> QED
    BY <1>2, <2>1, <2>2 DEF Served, Answer
<1>7. ASSUME StreamEnds PROVE ToldSent
  <2>1. main.op = "open" /\ \E state : main' = [main EXCEPT !.state = state]
    BY <1>7 DEF StreamEnds, Streaming
  <2>2. main'.op = "open"
    BY <1>1, <2>1 DEF Call
  <2> QED
    BY <2>2 DEF ToldSent
<1>8. ASSUME NEW a \in Replies, FinishExecution(a) PROVE ToldSent
  <2>1. CASE main' = [main EXCEPT !.state = "ok"] /\ main.reply = a /\ execution[a] = "projected"
    <3>1. Set(a, "CONSUMED")
      BY <1>8, <2>1 DEF FinishExecution, Verdict
    <3>2. approval'[a].status = "CONSUMED"
      BY <1>1, <3>1, SetFields DEF Becomes, Statuses
    <3>3. main'.reply = a
      BY <1>1, <2>1 DEF Call
    <3> QED
      BY <3>2, <3>3 DEF ToldSent
  <2> QED
    BY <1>2, <1>3, <1>8, <2>1 DEF FinishExecution, Told
<1>9. CASE Run
  <2>1. ASSUME Claimed PROVE ToldSent
    BY <1>1, <1>4, <2>1, CallFields DEF Claimed, Ops
  <2>2. ASSUME OpenStream \/ Store \/ Report PROVE ToldSent
    BY <1>5, <2>2 DEF OpenStream, Store, Report, Step, Ops
  <2>3. ASSUME NEW a \in Replies, NEW d, NEW v, Propose(a, d, v) PROVE ToldSent
    BY <1>5, <2>3 DEF Propose, Step, Ops
  <2>4. ASSUME DecisionAnswered PROVE ToldSent
    BY <1>1, <1>2, <1>5, <2>4, CallFields DEF DecisionAnswered, Ops
  <2> QED
    BY <1>2, <1>9, <2>1, <2>2, <2>3, <2>4 DEF Run, StartedUp, StreamRead, UseTool, Executed,
       ToolFails, Finish, Completed, Stop, CallFails, Reported, BeatAnswered, BeatFails, Abort,
       calls
<1>10. CASE Stream \/ Time
  BY <1>2, <1>7, <1>10 DEF Stream, Time, Finalize, LeaseElapses, Sweep, ApprovalElapses, calls
<1>11. CASE Fault
  BY <1>2, <1>3, <1>11 DEF Fault, Withdraw, StoreFails, LoseMain, LoseBeat, Repeat, Kill,
     Stop, StreamDies, SendFails, ExecutionDies, Told, calls
<1>12. CASE \E a \in Replies : Send(a)
  BY <1>2, <1>8, <1>12 DEF Send, SendReply, MarkDelivered, ProjectReply, calls
<1>13. CASE Beat \/ Cancel \/ ChangeOpportunity
  BY <1>2, <1>13 DEF Beat, Cancel, Abort, Stop, ChangeOpportunity, calls
<1>14. ASSUME NEW t \in Turns, NEW s \in Sessions, Begin(t, s) PROVE ToldSent
  <2>1. main' = NewCall("claim", t, 0, NoReply) /\ "claim" \in Ops /\ 0 \in 0..(MaxLock + 1)
    BY <1>14, ConstantsAssumption DEF Begin, Ops
  <2> QED
    BY <1>4, <2>1
<1> QED
  BY <1>6, <1>9, <1>10, <1>11, <1>12, <1>13, <1>14 DEF Next

\* The agent is shown only what it was told.
LEMMA ShownFrom ==
    ASSUME Next
    PROVE  shown' = shown \/ (Executed /\ shown' = shown \cup {main.reply})
<1>1. CASE Serve
  BY <1>1 DEF Serve, Claim, Heartbeat, Complete, Fail, End, Open, Decide, Execute, local
<1>2. CASE Stream \/ Time
  BY <1>2 DEF Stream, Time, StreamEnds, Finalize, LeaseElapses, Sweep, ApprovalElapses, local
<1>3. CASE Run
  BY <1>3 DEF Run, Claimed, StartedUp, OpenStream, StreamRead, UseTool, DecisionAnswered,
     Executed, ToolFails, Finish, Store, Completed, CallFails, Report, Reported,
     BeatAnswered, BeatFails, Propose, local
<1>4. CASE Fault
  BY <1>4 DEF Fault, Withdraw, StoreFails, LoseMain, LoseBeat, Repeat, Kill, StreamDies,
     SendFails, ExecutionDies, local
<1>5. CASE Beat \/ Cancel \/ ChangeOpportunity \/ \E a \in Replies : Send(a)
  BY <1>5 DEF Beat, Cancel, ChangeOpportunity, Send, SendReply, MarkDelivered, ProjectReply,
     FinishExecution, local
<1>6. CASE \E t \in Turns : \E s \in Sessions : Begin(t, s)
  BY <1>6 DEF Begin
<1> QED
  BY <1>1, <1>2, <1>3, <1>4, <1>5, <1>6 DEF Next

\* The ledger of approvals stays true.
LEMMA ActionsKeep ==
    ASSUME IInv, Next
    PROVE  ActionsOK' /\ shown' \subseteq Replies
<1>1. Types /\ PhoneOK /\ ActionsOK /\ CallsOK
  BY DEF IInv
<1>2. ActionTypes /\ ActionTypes' /\ (\A b \in Replies : Lives(b)) /\ ToldSent
  BY <1>1, ActionSteps, TellsTruth DEF Types, ActionTypes, Progress
<1>3. \A b \in Replies : /\ proposal[b].decision # "none" => proposal'[b] = proposal[b]
                         /\ proposal[b].decision \in {"none", "GRANTED", "DENIED"}
  BY <1>1, LocalForward DEF NoProposal, Types
<1>4. \A b \in Replies : approval[b].status = "CONSUMED" => approval'[b].status = "CONSUMED"
  <2> SUFFICES ASSUME NEW b \in Replies, approval[b].status = "CONSUMED"
               PROVE  approval'[b].status = "CONSUMED"
    OBVIOUS
  <2>1. Lives(b) /\ Reached(b)
    BY <1>1, <1>2 DEF ActionsOK
  <2> QED
    BY <2>1 DEF Lives, SameRow, Ruled, Used, Sends, Judged, Reached
<1>5. shown' \subseteq Replies /\ \A b \in shown' : approval'[b].status = "CONSUMED"
  <2>1. ASSUME Executed, shown' = shown \cup {main.reply}
        PROVE  main.reply \in Replies /\ approval[main.reply].status = "CONSUMED"
    <3>1. main.op = "execute" /\ main.state = "ok"
      BY <1>1, <2>1 DEF Executed, Step, PhoneOK, Asks
    <3> QED
      BY <1>1, <3>1 DEF ActionsOK, CallsOK, Calls, CallOK
  <2> QED
    BY <1>1, <1>4, <2>1, ShownFrom DEF Types, ActionsOK
<1>6. main'.op = "execute" /\ main'.state = "ok" => approval'[main'.reply].status = "CONSUMED"
  <2>1. CASE main' = main
    <3>1. main.op = "execute" => main.reply \in Replies
      BY <1>1 DEF CallsOK, Calls, CallOK
    <3> QED
      BY <1>1, <1>4, <2>1, <3>1 DEF ActionsOK
  <2> QED
    BY <1>2, <2>1 DEF ToldSent
<1>7. ASSUME NEW b \in Replies
      PROVE  /\ Reached(b)'
             /\ approval'[b].status \notin {"none", "DENIED"} => proposal'[b].decision = "GRANTED"
             /\ approval'[b].status \in {"none", "DENIED"} => ~approval'[b].elapsed
             /\ approval'[b].status = "DENIED" => proposal'[b].decision = "DENIED"
  <2>1. /\ Lives(b) /\ Reached(b) /\ sent[b] \in Nat /\ sent'[b] \in Nat
        /\ approval[b].status \notin {"none", "DENIED"} => proposal[b].decision = "GRANTED"
        /\ approval[b].status \in {"none", "DENIED"} => ~approval[b].elapsed
        /\ approval[b].status = "DENIED" => proposal[b].decision = "DENIED"
        /\ approval[b].status \in Statuses /\ execution[b] \in Progress
    BY <1>1, <1>2 DEF ActionsOK, ActionTypes, Approval, Statuses
  <2>2. /\ proposal[b].decision # "none" => proposal'[b] = proposal[b]
        /\ proposal[b].decision \in {"none", "GRANTED", "DENIED"}
    BY <1>3
  <2>3. CASE SameRow(b) /\ SameSending(b)
    BY <2>1, <2>2, <2>3 DEF SameRow, SameSending, Reached, Statuses
  <2>4. CASE Ruled(b)
    <3>1. execution[b] = "none" /\ sent[b] = 0
      BY <2>1, <2>4 DEF Reached, Ruled, Progress
    <3>2. execution'[b] = "none" /\ sent'[b] = 0
      BY <2>4, <3>1 DEF Ruled, SameSending
    <3> QED
      BY <2>1, <2>2, <2>4, <3>2 DEF Ruled, Becomes, Reached
  <2>5. CASE Used(b)
    <3>1. sent[b] = 0 /\ proposal[b].decision = "GRANTED"
      BY <2>1, <2>5 DEF Reached, Used, Progress
    <3> QED
      BY <2>2, <2>5, <3>1 DEF Used, Becomes, Reached
  <2>6. CASE Sends(b)
    <3>1. approval'[b] = approval[b] /\ execution[b] \notin {"none", "done"}
      BY <2>6 DEF Sends, SameRow
    <3>2. approval[b].status = "EXECUTING"
      BY <2>1, <2>6, <3>1 DEF Reached, Sends, Progress
    <3>3. Reached(b)'
      BY <2>1, <2>6, <3>1, <3>2 DEF Reached, Sends, Progress
    <3> QED
      BY <2>1, <2>2, <3>1, <3>2, <3>3
  <2>7. CASE Judged(b)
    <3>1. approval[b].status = "EXECUTING"
      BY <2>1, <2>7 DEF Reached, Judged
    <3>2. Reached(b)'
      BY <2>1, <2>7 DEF Reached, Judged, Becomes, Verdict, Progress
    <3>3. approval'[b].status \in {"CONSUMED", "FAILED", "UNCERTAIN"}
      BY <2>7 DEF Judged, Becomes, Verdict
    <3> QED
      BY <2>1, <2>2, <3>1, <3>2, <3>3
  <2> QED
    BY <2>1, <2>3, <2>4, <2>5, <2>6, <2>7 DEF Lives
<1> QED
  BY <1>5, <1>6, <1>7 DEF ActionsOK

-----------------------------------------------------------------------------
(* No request is under way when the phone comes to ask. *)

\* Only a request makes one be under way.
LEMMA StartedFrom ==
    ASSUME IInv, Next, NEW t \in Turns, ~Requests(t)
    PROVE  Started(t)' \subseteq Started(t)
<1>1. Types /\ CallsOK /\ UsageOK
  BY DEF IInv
<1>2. GatewayStep
  BY <1>1, GatewaySteps
<1>3. CASE UNCHANGED gateway
  BY <1>3 DEF gateway, Started
<1>4. ASSUME NEW u \in Turns, Requests(u) PROVE Started(t)' \subseteq Started(t)
  <2>1. t # u /\ (\E x : audit' = [audit EXCEPT ![u] = x]) /\ audit \in [Turns -> [1..MaxRequests ->
            {"none", "STARTED", "COMPLETED", "FAILED", "CANCELLED"}]]
    BY <1>1, <1>4 DEF Requests, Types
  <2>2. audit'[t] = audit[t]
    BY <2>1
  <2> QED
    BY <2>2 DEF Started
<1>5. ASSUME NEW u \in Turns, NEW n \in 1..MaxRequests, Closes(u, n)
      PROVE  Started(t)' \subseteq Started(t)
  <2>1. CASE audit' = audit
    BY <2>1 DEF Started
  <2>2. ASSUME NEW end \in {"COMPLETED", "FAILED", "CANCELLED"},
               audit' = [audit EXCEPT ![u] = [@ EXCEPT ![n] = end]]
        PROVE  Started(t)' \subseteq Started(t)
    <3>1. \A m \in 1..MaxRequests : audit'[t][m] \in {audit[t][m], end}
      BY <1>1, <2>2 DEF Types
    <3> QED
      BY <3>1 DEF Started
  <2> QED
    BY <1>5, <2>1, <2>2 DEF Closes
<1> QED
  BY <1>2, <1>3, <1>4, <1>5 DEF GatewayStep

Opened == phone.pc = "stream" /\ main.state = "open"

\* How the phone comes to ask: by a new run, or from where it asked before.
Goes ==
    \/ \E t \in Turns : \E s \in Sessions : Begin(t, s)
    \/ ~Asking' /\ ~Opened'
    \/ /\ phone'.turn = phone.turn /\ (Asking \/ Opened)
       /\ Asking' /\ ~Asking => Started(phone.turn) = {}
       /\ \A c \in late' : c \in late \/ c.op # "open"
       /\ phone'.pc = "claim" => phone' = phone

\* The phone stays; its main call is the same, or answered.
LEMMA StayGoes ==
    ASSUME phone' = phone, \A c \in late' : c \in late \/ c.op # "open",
           \/ main' = main
           \/ phone.pc = "stream" => main'.state \in {"open", "refused"} /\ main.state \in {"sent", "open"}
           \/ phone.pc = "stream" => main'.state = "refused"
    PROVE  Goes
<1>1. CASE main' = main
  BY <1>1 DEF Goes, Asking, Opened
<1>2. CASE phone.pc # "stream"
  BY <1>2 DEF Goes, Asking, Opened
<1>3. CASE phone.pc = "stream" /\ main'.state \in {"open", "refused"} /\ main.state \in {"sent", "open"}
  BY <1>3 DEF Goes, Asking, Opened
<1>4. CASE phone.pc = "stream" /\ main'.state = "refused"
  BY <1>4 DEF Goes, Asking, Opened
<1> QED
  BY <1>1, <1>2, <1>3, <1>4

\* How the phone comes to ask, group by group of the actions.
LEMMA ServeGoes ==
    ASSUME IInv, Serve
    PROVE  Goes
<1>1. PhoneOK /\ main \in Call /\ phone' = phone
  BY ServeAnswers DEF IInv, Types
<1>2. PICK c, state, lock : Served(c, state, lock)
  BY ServeAnswers
<1>3. late' \subseteq late
  BY <1>2 DEF Served, Answer
<1>4. CASE main' = main
  BY <1>1, <1>3, <1>4, StayGoes
<1>5. CASE c = main /\ main' = [main EXCEPT !.state = state, !.lock = lock]
  <2>1. /\ state \in States /\ lock \in 0..(MaxLock + 1) /\ main.state = "sent"
        /\ state \in {"ok", "refused", "open", "running"}
        /\ state = "ok" => main.op # "open"
        /\ state = "running" => main.op = "execute"
    BY <1>2, <1>5 DEF Served, States
  <2>2. main' = Answered(main, state, lock)
    BY <1>5 DEF Answered
  <2>3. main'.state = state
    BY <1>1, <2>1, <2>2, AnsweredFields
  <2>4. phone.pc = "stream" => main.op = "open"
    BY <1>1 DEF PhoneOK, Asks
  <2> QED
    BY <1>1, <1>3, <2>1, <2>3, <2>4, StayGoes
<1> QED
  BY <1>2, <1>4, <1>5 DEF Served, Answer

LEMMA RunGoes ==
    ASSUME IInv, Run
    PROVE  Goes
<1>1. Types /\ PhoneOK /\ main \in Call /\ phone \in Phone
  BY DEF IInv, Types
<1>2. ASSUME NEW pc, Goto(pc) PROVE phone'.pc = pc /\ phone'.turn = phone.turn
  BY <1>1, <1>2 DEF Goto, Phone
<1>3. ASSUME late' = late, Asking, phone'.turn = phone.turn, phone'.pc # "claim" PROVE Goes
  BY <1>3 DEF Goes
<1>4. ASSUME phone'.pc \in {"idle", "stopping", "complete", "failing", "fail"} PROVE Goes
  BY <1>4 DEF Goes, Asking, Opened
<1>5. ASSUME NEW from, NEW to, Step(from, to), late' = late, to # "claim",
             from \in {"host", "act", "decide", "execute"} \/ (from = "stream" /\ main.state = "ok")
      PROVE  Goes
  BY <1>2, <1>3, <1>5 DEF Step, Asking
<1>6. ASSUME Claimed \/ StartedUp PROVE Goes
  <2>1. late' = late /\ phone.pc \in {"claim", "start"}
        /\ phone'.turn = phone.turn /\ phone'.pc \in {"start", "host"}
    BY <1>1, <1>6 DEF Claimed, StartedUp, Phone
  <2> QED
    BY <1>3, <2>1 DEF Asking
<1>7. ASSUME OpenStream \/ StreamRead \/ UseTool \/ DecisionAnswered \/ Executed \/ ToolFails \/ Finish
      PROVE  Goes
  BY <1>5, <1>7 DEF OpenStream, StreamRead, UseTool, DecisionAnswered, Executed, ToolFails,
     Finish, calls
<1>8. ASSUME NEW a, NEW d, NEW v, Propose(a, d, v) PROVE Goes
  BY <1>5, <1>8 DEF Propose
<1>9. ASSUME Store \/ Report \/ Completed \/ CallFails \/ Reported PROVE Goes
  BY <1>2, <1>4, <1>9 DEF Store, Report, Completed, CallFails, Reported, Step, Stop, IdlePhone
<1>10. ASSUME BeatAnswered PROVE Goes
  <2>1. phone'.pc = phone.pc /\ phone'.turn = phone.turn /\ main' = main /\ late' = late
    BY <1>1, <1>10 DEF BeatAnswered, Phone
  <2>2. phone.pc # "claim"
    BY <1>1, <1>10, NoCallFields DEF BeatAnswered, PhoneOK, Hosting
  <2> QED
    BY <2>1, <2>2 DEF Goes, Asking, Opened
<1>11. ASSUME BeatFails PROVE Goes
  BY <1>2, <1>4, <1>11, StayGoes DEF BeatFails, Abort
<1> QED
  BY <1>6, <1>7, <1>8, <1>9, <1>10, <1>11 DEF Run

LEMMA PhoneGoes ==
    ASSUME IInv, Next
    PROVE  Goes
<1>1. Types /\ PhoneOK /\ CallsOK /\ main \in Call /\ phone \in Phone
  BY DEF IInv, Types
<1>2. ASSUME UNCHANGED <<phone, main, late>> PROVE Goes
  BY <1>2, StayGoes
<1>3. ASSUME phone'.pc \in {"idle", "failing"} PROVE Goes
  BY <1>3 DEF Goes, Asking, Opened
<1>4. CASE Stream \/ Time
  <2>1. ASSUME StreamEnds PROVE Goes
    <3>1. /\ Opened /\ main.turn = phone.turn /\ Started(phone.turn) = {}
          /\ phone' = phone /\ late' = late
      BY <1>1, <2>1, NoCallFields DEF StreamEnds, Streaming, PhoneOK, Asks, Opened
    <3> QED
      BY <3>1 DEF Goes
  <2> QED
    BY <1>2, <1>4, <2>1 DEF Stream, Time, Finalize, LeaseElapses, Sweep, ApprovalElapses, calls
<1>5. CASE Fault
  <2>1. ASSUME main' = [main EXCEPT !.state = "refused"], phone' = phone,
               \A c \in late' : c \in late \/ c.op # "open" \/ phone.pc = "stream"
        PROVE  Goes
    <3>1. main'.state = "refused"
      BY <1>1, <2>1 DEF Call
    <3> QED
      BY <2>1, <3>1, StayGoes DEF Goes, Asking, Opened
  <2>2. ASSUME NEW t, NEW n, StreamDies(t, n) PROVE Goes
    BY <1>2, <2>1, <2>2 DEF StreamDies
  <2>3. ASSUME NEW a, ExecutionDies(a) PROVE Goes
    BY <1>2, <2>1, <2>3 DEF ExecutionDies, Told
  <2>4. ASSUME LoseMain PROVE Goes
    <3>1. main.op = "open" => phone.pc = "stream"
      BY <1>1 DEF PhoneOK, Asks
    <3> QED
      BY <2>1, <2>4, <3>1 DEF LoseMain, Abandoned
  <2>5. ASSUME LoseBeat \/ Repeat PROVE Goes
    <3>1. beat.op # "open"
      BY <1>1, NoCallFields DEF PhoneOK
    <3> QED
      BY <2>5, <3>1, StayGoes DEF LoseBeat, Repeat
  <2>6. ASSUME StoreFails PROVE Goes
    BY <1>1, <1>3, <2>6 DEF StoreFails, Step, Goto, Phone
  <2>7. ASSUME Kill PROVE Goes
    BY <1>3, <2>7 DEF Kill, Stop, IdlePhone
  <2>8. ASSUME Withdraw \/ \E a \in Replies : SendFails(a) PROVE Goes
    BY <1>2, <2>8 DEF Withdraw, SendFails, calls
  <2> QED
    BY <1>5, <2>2, <2>3, <2>4, <2>5, <2>6, <2>7, <2>8 DEF Fault
<1>6. CASE \E a \in Replies : Send(a)
  <2>1. ASSUME NEW a, FinishExecution(a) PROVE Goes
    <3>1. main' = main \/ main.op = "execute"
      BY <2>1 DEF FinishExecution, Told
    <3>2. main.op = "execute" => phone.pc # "stream"
      BY <1>1 DEF PhoneOK, Asks
    <3> QED
      BY <2>1, <3>1, <3>2, StayGoes DEF FinishExecution
  <2> QED
    BY <1>2, <1>6, <2>1 DEF Send, SendReply, MarkDelivered, ProjectReply, calls
<1>7. CASE Beat \/ ChangeOpportunity
  BY <1>2, <1>7 DEF Beat, ChangeOpportunity, calls
<1>8. CASE Cancel
  BY <1>1, <1>3, <1>8 DEF Cancel, Abort, Goto, Stop, Phone, IdlePhone
<1>9. CASE \E t \in Turns : \E s \in Sessions : Begin(t, s)
  BY <1>9 DEF Goes
<1> QED
  BY <1>4, <1>5, <1>6, <1>7, <1>8, <1>9, ServeGoes, RunGoes DEF Next

\* A new turn has no row, and no call but the claim.
LEMMA NewTurn ==
    ASSUME IInv, Next, NEW t \in Turns, NEW s \in Sessions, Begin(t, s)
    PROVE  /\ phone'.turn = t /\ phone'.pc = "claim" /\ turn' = turn
           /\ turn[t].status = "none" /\ Started(t)' = {}
           /\ \A c \in Calls : c.turn # t
           /\ late' = late
<1>1. Types /\ CallsOK /\ UsageOK /\ GatewayOK
  BY DEF IInv
<1>2. /\ phone'.turn = t /\ phone'.pc = "claim" /\ turn' = turn /\ audit' = audit
      /\ session[t] = "none" /\ late' = late
  BY <1>1 DEF Begin, IdlePhone, usage, gateway
<1>3. turn[t].status = "none" /\ turn[t].requests = 0
  BY <1>1, <1>2 DEF UsageOK, NoTurn
<1>4. Started(t)' = {}
  <2>1. \A n \in 1..MaxRequests : audit[t][n] = "none"
    BY <1>1, <1>3 DEF GatewayOK
  <2> QED
    BY <1>2, <2>1 DEF Started
<1>5. ASSUME NEW c \in Calls, c.turn = t PROVE FALSE
  <2>1. c.op = "none" => c.turn = 0
    BY <1>1, NoCallFields DEF CallsOK, CallOK
  <2>2. t # 0
    BY ConstantsAssumption
  <2> QED
    BY <1>1, <1>2, <1>5, <2>1, <2>2 DEF CallsOK, CallOK
<1> QED
  BY <1>2, <1>3, <1>4, <1>5

\* What a step may do to an active turn and its lock version.
LEMMA LockFrom ==
    ASSUME IInv, Next, NEW t \in Turns, Active(t)'
    PROVE  \/ Active(t) /\ turn'[t].lock = turn[t].lock
           \/ turn'[t].lock = 1 /\ Asked("claim", t, "ok", 1)
           \/ Active(t) /\ turn'[t].lock = turn[t].lock + 1
              /\ Asked("heartbeat", t, "ok", turn[t].lock + 1)
<1>1. Types /\ CallsOK /\ UsageOK /\ UsageStep
  BY UsageSteps DEF IInv
<1>2. CASE UNCHANGED usage
  BY <1>2 DEF usage, Active
<1>3. ASSUME NEW u \in Turns, Begins(u) \/ Renews(u) \/ Elapses(u) \/ Requests(u) \/ Ends(u),
             u # t
      PROVE  Active(t) /\ turn'[t].lock = turn[t].lock
  <2>1. turn'[t] = turn[t]
    BY <1>1, <1>3, UsageFields
  <2> QED
    BY <2>1 DEF Active
<1>4. CASE Begins(t)
  <2>1. turn'[t].lock = 1
    <3>1. ~Active(t) /\ ~Ends(t)
      BY <1>4 DEF Begins, Active, Running, Ends
    <3> QED
      BY <1>1, <1>4, <3>1, UsageFields
  <2> QED
    BY <1>4, <2>1 DEF Begins
<1>5. CASE Renews(t)
  <2>1. turn[t] \in Turn /\ turn' = [turn EXCEPT ![t].status = "RUNNING", ![t].lock = @ + 1]
        /\ DOMAIN turn = Turns
    BY <1>1, <1>5 DEF Types, Renews
  <2>2. turn'[t].lock = turn[t].lock + 1
    BY <2>1 DEF Turn
  <2> QED
    BY <1>5, <2>2 DEF Renews
<1>6. CASE Elapses(t) \/ Requests(t)
  <2>1. turn[t] \in Turn /\ DOMAIN turn = Turns
    BY <1>1 DEF Types
  <2>2. turn'[t].lock = turn[t].lock
    BY <1>6, <2>1 DEF Elapses, Requests, Turn
  <2> QED
    BY <1>6, <2>2 DEF Elapses, Requests
<1>7. CASE Ends(t)
  <2>1. ~Begins(t)
    BY <1>7 DEF Begins, Ends, Active, Running
  <2>2. turn \in [Turns -> Turn] /\ turn[t] \in Turn
    BY <1>1 DEF Types
  <2>3. ASSUME NEW status \in {"EXPIRED", "FAILED", "COMPLETED"}, NEW used, Settle(t, status, used)
        PROVE  turn'[t].status = status
    BY <2>2, <2>3 DEF Settle, Turn
  <2> QED
    BY <1>7, <2>3 DEF Ends, Active, Running
<1> QED
  BY <1>1, <1>2, <1>3, <1>4, <1>5, <1>6, <1>7 DEF UsageStep

\* No request is under way when the phone may ask, nor can a late one begin.
LEMMA ClearKeeps ==
    ASSUME IInv, Next
    PROVE  ClearOK'
<1>1. Types /\ CallsOK /\ PhoneOK /\ ClearOK /\ UsageOK
  BY DEF IInv
<1>2. Goes /\ PhoneOK' /\ CallsOK'
  BY PhoneGoes, PhoneKeeps, CallsKeep
<1>3. NoCall.turn = 0 /\ 0 \notin Turns
  BY NoCallFields, ConstantsAssumption
<1>4. late' \subseteq Calls
  BY LateFrom DEF Calls
<1>5. ASSUME phone'.pc = "claim"
      PROVE  \A c \in Calls' : c.turn = phone'.turn =>
                 c.op = "claim" \/ (c \in late' /\ c \in Calls)
  <2>1. main'.op = "claim" /\ beat' = NoCall
    BY <1>2, <1>5 DEF PhoneOK, Asks, Hosting
  <2>2. phone'.turn \in Turns
    BY <1>2, <1>5 DEF PhoneOK
  <2> QED
    BY <1>3, <1>4, <2>1, <2>2 DEF Calls
<1>6. ASSUME NEW t \in Turns, NEW s \in Sessions, Begin(t, s) PROVE ClearOK'
  <2>1. /\ phone'.turn = t /\ phone'.pc = "claim" /\ turn' = turn
        /\ turn[t].status = "none" /\ Started(t)' = {} /\ late' = late
        /\ \A c \in Calls : c.turn # t
    BY <1>6, NewTurn
  <2>2. ~Active(t)'
    BY <2>1 DEF Active, Running
  <2>3. \A c \in late' : c.turn # phone'.turn
    BY <2>1 DEF Calls
  <2>4. \A c \in Calls' : c.turn = phone'.turn => c.op = "claim"
    BY <1>5, <2>1, <2>3
  <2> QED
    BY <2>1, <2>2, <2>3, <2>4 DEF ClearOK
<1>7. CASE ~Asking' /\ ~Opened'
  <2>1. phone'.pc # "claim"
    BY <1>7 DEF Asking
  <2> QED
    BY <1>7, <2>1 DEF ClearOK, Opened
<1>8. ASSUME phone'.turn = phone.turn, Asking \/ Opened,
             Asking' /\ ~Asking => Started(phone.turn) = {},
             \A c \in late' : c \in late \/ c.op # "open",
             phone'.pc = "claim" => phone' = phone
      PROVE  ClearOK'
  <2>1. PICK t \in Turns : t = phone.turn /\ t = phone'.turn
    BY <1>1, <1>8 DEF Asking, Opened, PhoneOK
  <2>2. \A c \in late : ~(c.op = "open" /\ c.turn = t)
    BY <1>1, <1>8, <2>1 DEF ClearOK, Opened
  <2>3. ASSUME Asking' PROVE Started(t)' = {}
    <3>1. Started(t) = {}
      BY <1>1, <1>8, <2>1, <2>3 DEF ClearOK
    <3>2. ASSUME Requests(t) PROVE FALSE
      <4>1. PICK lock : Asked("open", t, "open", lock)
        BY <3>2 DEF Requests
      <4>2. PICK c \in Arriving("open") : c.turn = t /\ Answer(c, "open", lock)
        BY <4>1 DEF Asked
      <4>3. c \in Calls /\ c.op = "open" /\ c.state = "sent"
        BY DEF Arriving, Calls
      <4>4. c # beat
        BY <1>1, <4>3, NoCallFields DEF PhoneOK
      <4>5. c = main /\ main' = [main EXCEPT !.state = "open", !.lock = lock]
        BY <2>2, <4>2, <4>3, <4>4 DEF Calls, Answer
      <4>6. main'.state = "open"
        BY <1>1, <4>5 DEF Types, Call
      <4>7. phone.pc = "stream" /\ phone' = phone
        BY <1>1, <4>1, <4>3, <4>5 DEF PhoneOK, Asks, Asked
      <4> QED
        BY <2>3, <4>6, <4>7 DEF Asking
    <3> QED
      BY <3>1, <3>2, StartedFrom
  <2>4. \A c \in late' : ~(c.op = "open" /\ c.turn = phone'.turn)
    BY <1>8, <2>1, <2>2
  <2>5. ASSUME phone'.pc = "claim" PROVE \A c \in Calls' : c.turn = phone'.turn => c.op = "claim"
    BY <1>1, <1>5, <1>8, <2>5 DEF ClearOK
  <2>6. ASSUME phone'.pc = "claim" PROVE turn'[t].lock <= 1 \/ ~Active(t)'
    <3>1. phone.pc = "claim"
      BY <1>8, <2>6
    <3>2. ~Asked("heartbeat", t, "ok", turn[t].lock + 1)
      BY <1>1, <2>1, <3>1, ArrivingCalls DEF Asked, ClearOK
    <3> QED
      BY <1>1, <2>1, <3>1, <3>2, LockFrom DEF ClearOK
  <2> QED
    BY <2>1, <2>3, <2>4, <2>5, <2>6 DEF ClearOK, Opened, Active, Started
<1> QED
  BY <1>2, <1>6, <1>7, <1>8 DEF Goes

-----------------------------------------------------------------------------
(* The lock version the phone knows. *)

\* A handler at work on call c.
Handles(c) ==
    \/ c.op = "claim" /\ Claim(c)
    \/ c.op = "heartbeat" /\ Heartbeat(c)
    \/ c.op = "complete" /\ Complete(c)
    \/ c.op = "fail" /\ Fail(c)
    \/ c.op = "open" /\ Open(c)
    \/ c.op = "decide" /\ Decide(c)
    \/ c.op = "execute" /\ Execute(c)

\* A handler is at work on one call under way.
LEMMA ServeHandles ==
    ASSUME IInv, Serve
    PROVE  \E c \in Calls : /\ c.state = "sent" /\ Handles(c)
                            /\ \E state, lock : Answer(c, state, lock)
<1>1. \E c \in Calls : c.state = "sent" /\ Handles(c)
  BY DEF Serve, Handles, Arriving, Calls
<1>2. ASSUME NEW c, Handles(c) PROVE \E state, lock : Answer(c, state, lock)
  BY <1>2 DEF Handles, Claim, Heartbeat, Complete, Fail, End, Open, Decide, Execute, Refuse
<1> QED
  BY <1>1, <1>2

\* An expiry leaves the turn inactive.
LEMMA ExpiryLeaves ==
    ASSUME IInv, NEW t \in Turns, Active(t), ExpireLocked(t)
    PROVE  ~Active(t)'
<1>1. turn \in [Turns -> Turn] /\ turn[t] \in Turn /\ ledger[t] # "CONSUMED"
  BY DEF IInv, Types, UsageOK, Agree
<1>2. turn' = [turn EXCEPT ![t].status = "EXPIRED", ![t].lock = @ + 1]
  BY <1>1 DEF ExpireLocked, Settle
<1>3. turn'[t].status = "EXPIRED"
  BY <1>1, <1>2 DEF Turn
<1> QED
  BY <1>3 DEF Active, Running

\* A claim of a turn that is active, and stays so, is told its lock version.
LEMMA ClaimAnswers ==
    ASSUME IInv, available, NEW c, c.turn \in Turns, Claim(c), Active(c.turn), Active(c.turn)'
    PROVE  Answer(c, "ok", turn[c.turn].lock)
<1>1. turn[c.turn].status # "none" /\ Met(c) = {c.turn}
  BY DEF Active, Running, Met
<1>2. CASE turn[c.turn].elapsed
  BY <1>1, <1>2, ExpiryLeaves DEF Claim, Claimable
<1> QED
  BY <1>1, <1>2 DEF Claim, Claimable

\* A heartbeat with the current lock version renews the turn, if that stays active.
LEMMA HeartbeatAnswers ==
    ASSUME IInv, available, NEW c, c.turn \in Turns, Heartbeat(c), c.lock = turn[c.turn].lock,
           Active(c.turn), Active(c.turn)'
    PROVE  turn'[c.turn].lock = turn[c.turn].lock + 1
<1>1. ~Overdue(c)
  BY ExpiryLeaves DEF Heartbeat, Overdue
<1>2. turn' = [turn EXCEPT ![c.turn].status = "RUNNING", ![c.turn].lock = @ + 1]
  BY <1>1 DEF Heartbeat, Overdue, Fresh
<1> QED
  BY <1>2 DEF IInv, Types, Turn

\* A completion or failure with the current lock version ends the turn.
LEMMA EndAnswers ==
    ASSUME IInv, available, NEW c, c.turn \in Turns, Complete(c) \/ Fail(c),
           c.lock = turn[c.turn].lock, Active(c.turn)
    PROVE  ~Active(c.turn)'
<1>1. ledger[c.turn] = "RESERVED" /\ turn \in [Turns -> Turn] /\ turn[c.turn] \in Turn
  BY DEF IInv, Types, UsageOK, Agree
<1>2. CASE Overdue(c)
  BY <1>2, ExpiryLeaves DEF Complete, Fail, End
<1>3. ASSUME NEW status \in {"COMPLETED", "FAILED"}, NEW used, Settle(c.turn, status, used)
      PROVE  ~Active(c.turn)'
  <2>1. turn'[c.turn].status = status
    BY <1>1, <1>3 DEF Settle, Turn
  <2> QED
    BY <2>1 DEF Active, Running
<1> QED
  BY <1>1, <1>2, <1>3 DEF Complete, Fail, End, Overdue, Fresh

\* Every other step leaves the lock version of a turn that stays active.
LEMMA OtherLock ==
    ASSUME IInv, Next, ~Serve, NEW t \in Turns, Active(t)'
    PROVE  Active(t) /\ turn'[t].lock = turn[t].lock
<1>1. turn \in [Turns -> Turn] /\ \A u \in Turns : turn[u] \in Turn
  BY DEF IInv, Types
<1>2. CASE UNCHANGED usage
  BY <1>2 DEF usage, Active
<1>3. ASSUME NEW u \in Turns, LeaseElapses(u) PROVE Active(t) /\ turn'[t].lock = turn[t].lock
  <2>1. turn' = [turn EXCEPT ![u].elapsed = TRUE]
    BY <1>3 DEF LeaseElapses
  <2>2. turn'[t].lock = turn[t].lock /\ turn'[t].status = turn[t].status
    BY <1>1, <2>1 DEF Turn
  <2> QED
    BY <2>2 DEF Active
<1>4. ASSUME NEW u \in Turns, Sweep(u) PROVE Active(t) /\ turn'[t].lock = turn[t].lock
  <2>1. u # t
    BY <1>4, ExpiryLeaves DEF Sweep
  <2>2. turn'[t] = turn[t]
    BY <1>1, <1>4, <2>1 DEF Sweep, ExpireLocked, Settle, usage
  <2> QED
    BY <2>2 DEF Active
<1>5. ASSUME NEW a, ApprovalElapses(a) PROVE UNCHANGED usage
  BY <1>5 DEF ApprovalElapses
<1> QED
  BY <1>2, <1>3, <1>4, <1>5, OtherUsage DEF Next, Time

\* A handler answers with the lock version it leaves.
LEMMA ServeLocks ==
    ASSUME IInv, Serve, LocksOK, faults = 0, NEW t \in Turns, t = phone.turn, phone.pc # "idle",
           Active(t)', phone' = phone, NEW l, l = turn'[t].lock
    PROVE  Holds(l)'
<1>1. /\ Types /\ CallsOK /\ PhoneOK /\ Next /\ available /\ main \in Call /\ beat \in Call
      /\ \A c \in late : c.turn = t => c.op \in {"open", "decide", "execute"}
      /\ Active(t) => Holds(turn[t].lock)
  BY DEF IInv, Types, LocksOK, Next
<1>2. /\ NoCall.op = "none" /\ NoCall.turn = 0 /\ turn[t].lock \in Int
      /\ "ok" \in States /\ 1 \in 0..(MaxLock + 1)
      /\ Active(t) => turn[t].lock + 1 \in 0..(MaxLock + 1)
  BY NoCallFields, ConstantsAssumption DEF IInv, Types, Turn, UsageOK, States
<1>3. ASSUME turn'[t].lock = 1, Asked("claim", t, "ok", 1) PROVE Holds(1)'
  <2>1. PICK c \in Arriving("claim") : c.turn = t /\ Answer(c, "ok", 1)
    BY <1>3 DEF Asked
  <2>2. c \in Calls /\ c.op = "claim" /\ c \notin late /\ c # beat
    BY <1>1, <1>2, <2>1 DEF Arriving, Calls, PhoneOK
  <2>3. c = main /\ main' = Answered(main, "ok", 1)
    BY <2>1, <2>2 DEF Calls, Answer, Answered
  <2>4. main'.state = "ok" /\ main'.lock = 1
    BY <1>1, <1>2, <2>3, AnsweredFields
  <2>5. phone'.pc = "claim"
    BY <1>1, <2>2, <2>3, AsksClaim
  <2> QED
    BY <2>4, <2>5 DEF Holds, Hosting
<1>4. ASSUME Active(t), turn'[t].lock = turn[t].lock + 1,
             Asked("heartbeat", t, "ok", turn[t].lock + 1)
      PROVE  Holds(l)'
  <2>1. PICK c \in Arriving("heartbeat") : c.turn = t /\ Answer(c, "ok", turn[t].lock + 1)
    BY <1>4 DEF Asked
  <2>2. c \in {main, beat} /\ c.op = "heartbeat" /\ c \notin late
    BY <1>1, <2>1 DEF Arriving
  <2>3. CASE c = main /\ main' = Answered(main, "ok", turn[t].lock + 1)
    <3>1. main'.state = "ok" /\ main'.lock = turn[t].lock + 1
      BY <1>1, <1>2, <1>4, <2>3, AnsweredFields
    <3>2. phone'.pc = "start"
      BY <1>1, <2>2, <2>3 DEF PhoneOK, Asks
    <3> QED
      BY <1>4, <3>1, <3>2 DEF Holds, Hosting
  <2>4. CASE c = beat /\ beat' = Answered(beat, "ok", turn[t].lock + 1) /\ main' = main
    <3>1. beat'.state = "ok" /\ beat'.lock = turn[t].lock + 1 /\ beat'.op = "heartbeat"
      BY <1>1, <1>2, <1>4, <2>2, <2>4, AnsweredFields
    <3>2. phone'.pc \in Hosting \cup {"stopping", "failing"} /\ beat' # NoCall
      BY <1>1, <1>2, <2>2, <2>4, <3>1 DEF PhoneOK
    <3> QED
      BY <1>4, <3>1, <3>2 DEF Holds, Hosting
  <2> QED
    BY <2>1, <2>2, <2>3, <2>4 DEF Answer, Answered
<1>5. ASSUME Active(t), turn'[t].lock = turn[t].lock PROVE Holds(l)'
  <2>1. PICK c \in Calls : /\ c.state = "sent" /\ Handles(c)
                           /\ \E state, lock : Answer(c, state, lock)
    BY ServeHandles
  <2>2. Holds(turn[t].lock)
    BY <1>1, <1>5
  <2>3. CASE UNCHANGED <<main, beat>>
    BY <1>5, <2>2, <2>3 DEF Holds
  <2>4. CASE c = beat /\ main' = main
    <3>1. beat # NoCall /\ beat.op = "heartbeat" /\ beat.turn = t
      BY <1>1, <2>1, <2>4, NoCallFields DEF PhoneOK
    <3>2. phone.pc \in Hosting \cup {"stopping", "failing"}
      BY <1>1, <3>1 DEF PhoneOK
    <3>3. beat.lock = turn[t].lock
      BY <2>2, <3>1, <3>2 DEF Holds
    <3>4. Heartbeat(beat)
      BY <2>1, <2>4, <3>1 DEF Handles
    <3>5. turn'[t].lock = turn[t].lock + 1
      BY <1>1, <1>5, <3>1, <3>3, <3>4, HeartbeatAnswers
    <3> QED
      BY <1>2, <1>5, <3>5
  <2>5. CASE c = main /\ beat' = beat
    <3>1. main # NoCall /\ main.turn = t /\ main.op = Asks(phone.pc)
      BY <1>1, <2>1, <2>5, NoCallFields DEF PhoneOK
    <3>2. CASE phone.pc = "claim"
      <4>1. Claim(main) /\ main.op = "claim"
        BY <2>1, <2>5, <3>1, <3>2 DEF Handles, Asks
      <4>2. Answer(main, "ok", turn[t].lock)
        BY <1>1, <1>5, <3>1, <4>1, ClaimAnswers
      <4>3. main \notin late /\ main # beat
        BY <1>1, <3>1, <4>1, NoCallFields DEF PhoneOK
      <4>4. main' = Answered(main, "ok", turn[t].lock)
        BY <4>2, <4>3 DEF Answer, Answered
      <4>5. main'.state = "ok" /\ main'.lock = turn[t].lock
        <5>1. turn[t].lock \in 0..(MaxLock + 1)
          BY <1>1 DEF Types, Turn
        <5> QED
          BY <1>1, <1>2, <4>4, <5>1, AnsweredFields
      <4> QED
        BY <1>5, <3>2, <4>5 DEF Holds, Hosting
    <3>3. CASE phone.pc \in {"start", "complete", "fail"}
      <4>1. main.lock = turn[t].lock
        BY <2>2, <3>3 DEF Holds
      <4>2. Heartbeat(main) \/ Complete(main) \/ Fail(main)
        BY <2>1, <2>5, <3>1, <3>3 DEF Handles, Asks
      <4>3. turn'[t].lock = turn[t].lock + 1
        BY <1>1, <1>5, <3>1, <4>1, <4>2, HeartbeatAnswers, EndAnswers
      <4> QED
        BY <1>2, <1>5, <4>3
    <3>4. CASE phone.pc \notin {"claim", "start", "complete", "fail"}
      BY <1>5, <2>2, <2>5, <3>4 DEF Holds
    <3> QED
      BY <3>2, <3>3, <3>4
  <2> QED
    BY <2>1, <2>3, <2>4, <2>5 DEF Answer
<1> QED
  BY <1>1, <1>3, <1>4, <1>5, LockFrom

\* A step that is no fault, once no fault has happened: what becomes late is a
\* call of the host, or the run is over.
LEMMA LateSafe ==
    ASSUME IInv, Next, ~Fault
    PROVE  \/ \E t \in Turns : \E s \in Sessions : Begin(t, s)
           \/ phone' = IdlePhone
           \/ /\ phone'.turn = phone.turn
              /\ \A c \in late' : c \in late \/ (c = main /\ phone.pc \in Hosting)
<1>1. phone \in Phone
  BY DEF IInv, Types
<1>2. ASSUME NEW pc, Goto(pc) PROVE phone'.turn = phone.turn
  BY <1>1, <1>2 DEF Goto, Phone
<1>3. CASE Serve
  <2>1. late' \subseteq late /\ phone' = phone
    BY <1>3, ServeAnswers DEF Served, Answer
  <2> QED
    BY <2>1
<1>4. CASE Stream \/ Time \/ \E a \in Replies : Send(a)
  BY <1>4 DEF Stream, Time, StreamEnds, Finalize, LeaseElapses, Sweep, ApprovalElapses, calls,
     Send, SendReply, MarkDelivered, ProjectReply, FinishExecution
<1>5. CASE Run
  <2>1. CASE Claimed \/ StartedUp \/ BeatAnswered
    BY <1>1, <2>1 DEF Claimed, StartedUp, BeatAnswered, Phone
  <2>2. CASE BeatFails
    BY <1>2, <2>2 DEF BeatFails, Abort, Abandoned
  <2> QED
    BY <1>2, <1>5, <2>1, <2>2 DEF Run, OpenStream, StreamRead, UseTool, DecisionAnswered,
       Executed, ToolFails, Finish, Store, Completed, CallFails, Report, Reported, Propose,
       Step, Stop, calls
<1>6. CASE Beat \/ Cancel \/ ChangeOpportunity
  BY <1>2, <1>6 DEF Beat, Cancel, ChangeOpportunity, Abort, Abandoned, Stop, calls
<1>7. CASE \E t \in Turns : \E s \in Sessions : Begin(t, s)
  BY <1>7
<1> QED
  BY <1>3, <1>4, <1>5, <1>6, <1>7 DEF Next

\* A step without a fault is none of the faults, and withdraws nothing.
LEMMA NoFault ==
    ASSUME IInv, Next, faults' = 0
    PROVE  faults = 0 /\ ~Fault /\ available' = available
<1>1. faults \in Nat
  BY DEF IInv, Types
<1>2. ~Failing
  BY <1>1 DEF Failing
<1>3. ~Fault
  BY <1>2 DEF Fault, Withdraw, StoreFails, LoseMain, LoseBeat, Repeat, Kill, StreamDies,
     SendFails, ExecutionDies
<1>4. Serve => UNCHANGED <<faults, available>>
  BY ServeAnswers DEF budget
<1>5. Stream \/ Time \/ (\E a \in Replies : Send(a)) => UNCHANGED <<faults, available>>
  BY <1>2 DEF Stream, Time, StreamEnds, Finalize, LeaseElapses, Sweep, ApprovalElapses,
     Send, SendReply, MarkDelivered, ProjectReply, FinishExecution, budget
<1>6. Run => UNCHANGED <<faults, available>>
  BY DEF Run, Claimed, StartedUp, OpenStream, StreamRead, UseTool, DecisionAnswered,
     Executed, ToolFails, Finish, Store, Completed, CallFails, Report, Reported,
     BeatAnswered, BeatFails, Propose, Step, budget
<1>7. Beat \/ Cancel \/ ChangeOpportunity => UNCHANGED <<faults, available>>
  BY DEF Beat, Cancel, ChangeOpportunity, budget
<1>8. (\E t \in Turns : \E s \in Sessions : Begin(t, s)) => UNCHANGED <<faults, available>>
  BY DEF Begin
<1> QED
  BY <1>3, <1>4, <1>5, <1>6, <1>7, <1>8 DEF Next

\* The phone goes on with the lock version it holds.
LEMMA HostHolds ==
    ASSUME NEW l, Holds(l), phone'.lock = phone.lock, beat' = beat,
           phone.pc \in Hosting \cup {"stopping", "failing"},
           phone'.pc \in Hosting \cup {"stopping", "failing"}
    PROVE  Holds(l)'
BY DEF Holds, Hosting

\* It asks for the end of the turn with the lock version it holds.
LEMMA AskHolds ==
    ASSUME NEW l, Holds(l), beat = NoCall, phone.pc \in {"stopping", "failing"},
           phone'.pc \in {"complete", "fail"}, main'.state = "sent", main'.lock = phone.lock
    PROVE  Holds(l)'
BY DEF Holds, Hosting

\* The steps of the run hand the lock version on.
LEMMA RunHolds ==
    ASSUME IInv, Run, NEW l, Holds(l), phone.pc # "idle", phone'.pc # "idle"
    PROVE  Holds(l)'
<1>1. /\ Types /\ PhoneOK /\ CallsOK /\ main \in Call /\ beat \in Call /\ phone \in Phone
      /\ phone.turn \in Turns /\ phone.lock \in 0..(MaxLock + 1)
  BY PhoneFields DEF IInv, Types, PhoneOK
<1>2. ASSUME NEW pc, Goto(pc) PROVE phone'.pc = pc /\ phone'.lock = phone.lock
  BY <1>1, <1>2 DEF Goto, Phone
<1>3. ASSUME NEW op \in {"complete", "fail"}, Ask(op, NoReply)
      PROVE  main'.state = "sent" /\ main'.lock = phone.lock
  BY <1>1, <1>3, NewCallFields DEF Ask, Ops
<1>4. ASSUME Claimed PROVE Holds(l)'
  <2>1. /\ phone.pc = "claim" /\ main.lock = l /\ main.lock \in 0..(MaxLock + 1)
        /\ main' = NewCall("heartbeat", phone.turn, main.lock, NoReply)
    BY <1>1, <1>4, CallFields DEF Claimed, Holds
  <2>2. main'.state = "sent" /\ main'.lock = l
    BY <1>1, <2>1, NewCallFields DEF Ops
  <2>3. phone'.pc = "start"
    BY <1>1, <1>4 DEF Claimed, Phone
  <2> QED
    BY <2>2, <2>3 DEF Holds, Hosting
<1>5. ASSUME StartedUp PROVE Holds(l)'
  <2>1. phone.pc = "start" /\ main.lock = l /\ beat' = NoCall
    BY <1>1, <1>5 DEF StartedUp, Holds, PhoneOK, Hosting
  <2>2. phone'.pc = "host" /\ phone'.lock = main.lock
    BY <1>1, <1>5 DEF StartedUp, Phone
  <2> QED
    BY <2>1, <2>2 DEF Holds, Hosting
<1>6. ASSUME NEW from \in Hosting, NEW to \in Hosting \cup {"stopping"}, Step(from, to), beat' = beat
      PROVE  Holds(l)'
  BY <1>2, <1>6, HostHolds DEF Step
<1>7. CASE OpenStream \/ StreamRead \/ UseTool \/ DecisionAnswered \/ Executed \/ ToolFails \/ Finish
  BY <1>6, <1>7 DEF OpenStream, StreamRead, UseTool, DecisionAnswered, Executed, ToolFails,
     Finish, calls, Hosting
<1>8. ASSUME NEW a, NEW d, NEW v, Propose(a, d, v) PROVE Holds(l)'
  BY <1>6, <1>8 DEF Propose, Hosting
<1>9. CASE Store \/ Report
  BY <1>2, <1>3, <1>9, AskHolds DEF Store, Report, Step
<1>10. CASE CallFails
  <2>1. phone.pc = "stream" /\ Goto("failing") /\ beat' = beat
    <3>1. phone.pc \notin {"start", "complete"}
      BY <1>10 DEF CallFails, Holds
    <3>2. ~Stop
      BY DEF Stop, IdlePhone
    <3> QED
      BY <1>10, <3>1, <3>2 DEF CallFails
  <2> QED
    BY <1>2, <2>1, HostHolds DEF Hosting
<1>11. CASE BeatAnswered
  <2>1. /\ beat # NoCall /\ beat' = NoCall /\ phone'.pc = phone.pc /\ phone'.lock = beat.lock
    BY <1>1, <1>11, NoCallFields DEF BeatAnswered, Phone
  <2>2. phone.pc \in Hosting \cup {"stopping", "failing"}
    BY <1>1, <2>1 DEF PhoneOK
  <2>3. beat.lock = l
    BY <2>1, <2>2 DEF Holds
  <2> QED
    BY <2>1, <2>2, <2>3 DEF Holds, Hosting
<1>12. CASE BeatFails
  <2>1. beat # NoCall /\ beat.state = "refused"
    BY <1>12, NoCallFields DEF BeatFails
  <2>2. phone.pc \in Hosting \cup {"stopping", "failing"}
    BY <1>1, <2>1 DEF PhoneOK
  <2> QED
    BY <2>1, <2>2 DEF Holds
<1>13. CASE Completed \/ Reported
  BY <1>13 DEF Completed, Reported, Stop, IdlePhone
<1> QED
  BY <1>4, <1>5, <1>7, <1>8, <1>9, <1>10, <1>11, <1>12, <1>13 DEF Run

\* So do, or leave alone, all the others.
LEMMA OtherHolds ==
    ASSUME IInv, NEW l, Holds(l), phone.pc # "idle", phone'.pc # "idle",
           Stream \/ Time \/ Beat \/ Cancel \/ ChangeOpportunity \/ \E a \in Replies : Send(a)
    PROVE  Holds(l)'
<1>1. /\ PhoneOK /\ phone \in Phone /\ beat \in Call /\ phone.turn \in Turns
      /\ phone.lock \in 0..(MaxLock + 1)
  BY PhoneFields DEF IInv, Types, PhoneOK
<1>2. ASSUME UNCHANGED <<phone, main, beat>> PROVE Holds(l)'
  BY <1>2 DEF Holds
<1>3. ASSUME phone' = phone, beat' = beat, phone.pc \in Hosting PROVE Holds(l)'
  BY <1>3, HostHolds
<1>4. CASE Stream \/ Time
  <2>1. ASSUME StreamEnds PROVE Holds(l)'
    BY <1>1, <1>3, <2>1 DEF StreamEnds, Streaming, PhoneOK, Asks, Hosting
  <2> QED
    BY <1>2, <1>4, <2>1 DEF Stream, Time, Finalize, LeaseElapses, Sweep, ApprovalElapses, calls
<1>5. CASE \E a \in Replies : Send(a)
  <2>1. ASSUME NEW a, FinishExecution(a) PROVE Holds(l)'
    BY <1>1, <1>2, <1>3, <2>1 DEF FinishExecution, Told, PhoneOK, Asks, Hosting
  <2> QED
    BY <1>2, <1>5, <2>1 DEF Send, SendReply, MarkDelivered, ProjectReply, calls
<1>6. CASE Beat
  <2>1. /\ beat = NoCall /\ phone.pc \in Hosting /\ phone' = phone
        /\ beat' = NewCall("heartbeat", phone.turn, phone.lock, NoReply)
    BY <1>6 DEF Beat
  <2>2. beat'.op = "heartbeat" /\ beat'.state = "sent" /\ beat'.lock = phone.lock
    BY <1>1, <2>1, NewCallFields DEF Ops
  <2>3. phone.lock = l /\ beat' # NoCall
    BY <2>1, <2>2, NoCallFields DEF Holds
  <2> QED
    BY <2>1, <2>2, <2>3 DEF Holds, Hosting
<1>7. CASE Cancel
  <2>1. phone.pc \in Hosting /\ Goto("failing") /\ beat' = beat
    BY <1>7 DEF Cancel, Abort, Stop, IdlePhone
  <2>2. phone'.pc = "failing" /\ phone'.lock = phone.lock
    BY <1>1, <2>1 DEF Goto, Phone
  <2> QED
    BY <2>1, <2>2, HostHolds
<1>8. CASE ChangeOpportunity
  BY <1>2, <1>8 DEF ChangeOpportunity, calls
<1> QED
  BY <1>4, <1>5, <1>6, <1>7, <1>8

\* A phone that is idle only begins a new run.
LEMMA IdleStays ==
    ASSUME IInv, Next, phone.pc = "idle", phone'.pc # "idle"
    PROVE  \E t \in Turns : \E s \in Sessions : Begin(t, s)
<1>1. PhoneOK /\ phone \in Phone
  BY DEF IInv, Types
<1>2. CASE Serve
  BY <1>2, ServeAnswers
<1>3. CASE Stream \/ Time \/ \E a \in Replies : Send(a)
  BY <1>3 DEF Stream, Time, StreamEnds, Finalize, LeaseElapses, Sweep, ApprovalElapses,
     Send, SendReply, MarkDelivered, ProjectReply, FinishExecution
<1>4. CASE Run
  BY <1>1, <1>4, NoCallFields DEF Run, Claimed, StartedUp, OpenStream, StreamRead, UseTool,
     DecisionAnswered, Executed, ToolFails, Finish, Store, Completed, CallFails, Report,
     Reported, BeatAnswered, BeatFails, Propose, Step, PhoneOK, Hosting
<1>5. CASE Fault
  BY <1>5 DEF Fault, Withdraw, StoreFails, LoseMain, LoseBeat, Repeat, Kill, StreamDies,
     SendFails, ExecutionDies, Step
<1>6. CASE Beat \/ Cancel \/ ChangeOpportunity
  BY <1>6 DEF Beat, Cancel, ChangeOpportunity, Hosting
<1> QED
  BY <1>2, <1>3, <1>4, <1>5, <1>6 DEF Next

\* While nothing has failed, the lock version is where it belongs.
LEMMA LocksKeep ==
    ASSUME IInv, Next
    PROVE  LocksOK'
<1> SUFFICES ASSUME faults' = 0 PROVE LocksOK'
  BY DEF LocksOK
<1>1. /\ faults = 0 /\ ~Fault /\ available' = available /\ available
      /\ Types /\ CallsOK /\ PhoneOK /\ CallsOK' /\ PhoneOK'
      /\ \A c \in late : c.turn = phone.turn => c.op \in {"open", "decide", "execute"}
      /\ phone.pc # "idle" /\ Active(phone.turn) => Holds(turn[phone.turn].lock)
  BY NoFault, CallsKeep, PhoneKeeps DEF IInv, LocksOK
<1>2. ASSUME NEW t \in Turns, NEW s \in Sessions, Begin(t, s) PROVE LocksOK'
  <2>1. /\ phone'.turn = t /\ turn' = turn /\ turn[t].status = "none" /\ late' = late
        /\ \A c \in Calls : c.turn # t
    BY <1>2, NewTurn
  <2>2. (~Active(phone.turn))' /\ \A c \in late' : c.turn # phone'.turn
    BY <2>1 DEF Active, Running, Calls
  <2> QED
    BY <1>1, <2>2 DEF LocksOK
<1>3. CASE phone' = IdlePhone
  <2>1. \A c \in late' : c.turn # 0
    BY <1>1, ConstantsAssumption DEF CallsOK, CallOK, Calls
  <2> QED
    BY <1>1, <1>3, <2>1 DEF LocksOK, IdlePhone
<1>4. ASSUME ~(\E t \in Turns : \E s \in Sessions : Begin(t, s)), phone' # IdlePhone
      PROVE  LocksOK'
  <2>1. /\ phone'.turn = phone.turn
        /\ \A c \in late' : c \in late \/ (c = main /\ phone.pc \in Hosting)
    BY <1>1, <1>4, LateSafe
  <2>2. \A c \in late' : c.turn = phone'.turn => c.op \in {"open", "decide", "execute"}
    <3>1. phone.pc \in Hosting => main.op \in {"none", "open", "decide", "execute"}
      BY <1>1 DEF PhoneOK, Asks, Hosting
    <3> QED
      BY <1>1, <2>1, <3>1 DEF CallsOK
  <2>3. ASSUME phone'.pc # "idle", Active(phone.turn)'
        PROVE  Holds(turn[phone.turn].lock)'
    <3>1. PICK t \in Turns : t = phone.turn /\ t = phone'.turn
      BY <1>1, <2>1, <2>3 DEF PhoneOK
    <3>2. Active(t)'
      BY <2>3, <3>1 DEF Active
    <3>3. PICK l : l = turn'[t].lock
      OBVIOUS
    <3>4. phone.pc # "idle"
      BY <1>4, <2>3, IdleStays
    <3>5. ASSUME Serve PROVE Holds(l)'
      BY <1>1, <3>1, <3>2, <3>3, <3>4, <3>5, ServeAnswers, ServeLocks DEF IInv
    <3>6. ASSUME ~Serve PROVE Holds(l)'
      <4>1. Active(t) /\ l = turn[t].lock
        BY <3>2, <3>3, <3>6, OtherLock
      <4>2. Holds(l)
        BY <1>1, <3>1, <3>4, <4>1
      <4>3. CASE Run
        BY <2>3, <3>4, <4>2, <4>3, RunHolds
      <4>4. CASE ~Run
        <5>1. Stream \/ Time \/ Beat \/ Cancel \/ ChangeOpportunity \/ \E a \in Replies : Send(a)
          BY <1>1, <1>4, <3>6, <4>4 DEF Next
        <5> QED
          BY <2>3, <3>4, <4>2, <5>1, OtherHolds
      <4> QED
        BY <4>3, <4>4
    <3>7. Holds(l)'
      BY <3>5, <3>6
    <3> QED
      BY <3>1, <3>3, <3>7 DEF Holds
  <2> QED
    BY <1>1, <2>2, <2>3 DEF LocksOK
<1> QED
  BY <1>1, <1>2, <1>3, <1>4, LateSafe

-----------------------------------------------------------------------------
(* The rest of the types, and the initial state. *)

BudgetStep == UNCHANGED budget \/ (Spend /\ UNCHANGED faults) \/ Failing

\* What is left to show of a step: the budget, and what the phone keeps.
RestStep ==
    /\ BudgetStep
    /\ opp' = opp \/ opp' = opp + 1
    /\ available' = available \/ available' = FALSE
    /\ session' = session \/ \E t \in Turns : \E s \in Sessions :
                                  session' = [session EXCEPT ![t] = s]
    /\ proposal' = proposal \/ \E a \in Replies : \E d \in {"GRANTED", "DENIED"} : \E v \in 1..opp :
            proposal' = [proposal EXCEPT ![a] = [turn |-> phone.turn, version |-> v,
                                                 decision |-> d]]
    /\ stored' = stored \/ (phone.pc = "stopping" /\ stored' = stored \cup {phone.turn})

\* The rest of a step is one of these.
LEMMA RestSteps ==
    ASSUME IInv, Next
    PROVE  RestStep
<1>1. ASSUME NEW t \in Turns, NEW s \in Sessions, Begin(t, s) PROVE RestStep
  <2>1. Spend /\ UNCHANGED <<faults, actions, available, proposal, stored>>
        /\ session' = [session EXCEPT ![t] = s]
    BY <1>1 DEF Begin
  <2> QED
    BY <2>1 DEF RestStep, BudgetStep, actions
<1>2. ASSUME NEW a \in Replies, NEW d \in {"GRANTED", "DENIED"}, NEW v \in 1..opp, Propose(a, d, v)
      PROVE  RestStep
  <2>1. Spend /\ UNCHANGED <<faults, actions, available, session, stored>>
        /\ proposal' = [proposal EXCEPT ![a] = [turn |-> phone.turn, version |-> v,
                                                decision |-> d]]
    BY <1>2 DEF Propose, Step
  <2> QED
    BY <2>1 DEF RestStep, BudgetStep, actions
<1>3. ASSUME Store PROVE RestStep
  BY <1>3 DEF Store, Step, RestStep, BudgetStep, budget, actions
<1>4. CASE BudgetStep /\ UNCHANGED <<opp, available, session, proposal, stored>>
  BY <1>4 DEF RestStep
<1>5. CASE Serve
  <2>1. UNCHANGED <<budget, local, available, opp>>
    BY <1>5, ServeAnswers DEF Serve, Claim, Heartbeat, Complete, Fail, End, Open, Decide, Execute,
       actions
  <2> QED
    BY <1>4, <2>1 DEF BudgetStep, local
<1>6. CASE Stream \/ Time
  BY <1>4, <1>6 DEF Stream, Time, StreamEnds, Finalize, LeaseElapses, Sweep, ApprovalElapses,
     BudgetStep, local, actions
<1>7. CASE \E a \in Replies : Send(a)
  BY <1>7 DEF Send, SendReply, MarkDelivered, ProjectReply, FinishExecution, RestStep,
     BudgetStep, local, budget
<1>8. CASE Run
  BY <1>2, <1>3, <1>4, <1>8 DEF Run, Claimed, StartedUp, OpenStream, StreamRead, UseTool,
     DecisionAnswered, Executed, ToolFails, Finish, Completed, CallFails, Report, Reported,
     BeatAnswered, BeatFails, Step, BudgetStep, local, actions
<1>9. CASE Fault
  BY <1>9 DEF Fault, Withdraw, StoreFails, LoseMain, LoseBeat, Repeat, Kill, StreamDies,
     SendFails, ExecutionDies, Step, RestStep, BudgetStep, local, actions
<1>10. CASE Beat \/ Cancel \/ ChangeOpportunity
  BY <1>10 DEF Beat, Cancel, ChangeOpportunity, RestStep, BudgetStep, local, actions
<1> QED
  BY <1>1, <1>5, <1>6, <1>7, <1>8, <1>9, <1>10 DEF Next

\* Every row, call and counter keeps its type.
LEMMA TypesKeep ==
    ASSUME IInv, Next
    PROVE  Types'
<1>1. Types /\ CallsOK /\ UsageOK /\ PhoneOK
  BY DEF IInv
<1>2. turn' \in [Turns -> Turn]
      /\ ledger' \in [Turns -> {"none", "RESERVED", "CONSUMED", "RELEASED"}]
  <2>1. UsageStep
    BY <1>1, UsageSteps
  <2>2. CASE UNCHANGED usage
    BY <1>1, <2>2 DEF usage, Types
  <2>3. ASSUME NEW t \in Turns, Begins(t) \/ Renews(t) \/ Elapses(t) \/ Requests(t) \/ Ends(t)
        PROVE  turn' \in [Turns -> Turn]
               /\ ledger' \in [Turns -> {"none", "RESERVED", "CONSUMED", "RELEASED"}]
    <3>1. turn' \in [Turns -> Turn]
      BY <1>1, <2>3, UsageFields
    <3>2. ledger \in [Turns -> {"none", "RESERVED", "CONSUMED", "RELEASED"}]
      BY <1>1 DEF Types
    <3>3. ledger' = ledger \/ \E used \in {"RESERVED", "RELEASED", "CONSUMED"} :
                                  ledger' = [ledger EXCEPT ![t] = used]
      BY <2>3 DEF Begins, Renews, Elapses, Requests, Ends, Settle
    <3> QED
      BY <3>1, <3>2, <3>3
  <2> QED
    BY <2>1, <2>2, <2>3 DEF UsageStep
<1>3. /\ audit' \in [Turns -> [1..MaxRequests ->
                                {"none", "STARTED", "COMPLETED", "FAILED", "CANCELLED"}]]
      /\ streams' \subseteq Turns \X (1..MaxRequests)
  BY GatewayKeeps
<1>4. ActionTypes' /\ shown' \subseteq Replies
  BY ActionSteps, ActionsKeep
<1>5. main' \in Call /\ beat' \in Call /\ late' \subseteq Call /\ phone' \in Phone
  BY CallsKeep, PhoneKeeps
<1>6. RestStep
  BY RestSteps
<1>7. spent' \in 0..MaxSpent /\ faults' \in 0..spent'
  <2>1. spent \in 0..MaxSpent /\ faults \in 0..spent /\ MaxSpent \in Nat
    BY <1>1, ConstantsAssumption DEF Types
  <2> QED
    BY <1>6, <2>1 DEF RestStep, BudgetStep, Spend, Failing, budget
<1>8. opp' \in Nat \ {0} /\ available' \in BOOLEAN
  <2>1. opp \in Nat \ {0} /\ available \in BOOLEAN
    BY <1>1 DEF Types
  <2>2. (opp' = opp \/ opp' = opp + 1) /\ (available' = available \/ available' = FALSE)
    BY <1>6 DEF RestStep
  <2>3. opp' \in Nat \ {0}
    BY <2>1, <2>2
  <2>4. available' \in BOOLEAN
    BY <2>1, <2>2, Zenon
  <2> QED
    BY <2>3, <2>4
<1>9. session' \in [Turns -> Sessions \cup {"none"}]
  <2>1. session \in [Turns -> Sessions \cup {"none"}]
    BY <1>1 DEF Types
  <2>2. session' = session \/ \E t \in Turns : \E s \in Sessions :
                                  session' = [session EXCEPT ![t] = s]
    BY <1>6 DEF RestStep
  <2> QED
    BY <2>1, <2>2
<1>10. proposal' \in [Replies -> [turn : Turns \cup {0}, version : Nat,
                                  decision : {"none", "GRANTED", "DENIED"}]]
  <2>1. phone.turn \in Turns \cup {0} /\ opp \in Nat
    BY <1>1, PhoneFields DEF Types
  <2>2. \A d \in {"GRANTED", "DENIED"} : \A v \in 1..opp :
            [turn |-> phone.turn, version |-> v, decision |-> d]
                \in [turn : Turns \cup {0}, version : Nat, decision : {"none", "GRANTED", "DENIED"}]
    BY <2>1
  <2>3. proposal \in [Replies -> [turn : Turns \cup {0}, version : Nat,
                                 decision : {"none", "GRANTED", "DENIED"}]]
    BY <1>1 DEF Types
  <2>4. proposal' = proposal \/ \E a \in Replies : \E d \in {"GRANTED", "DENIED"} : \E v \in 1..opp :
            proposal' = [proposal EXCEPT ![a] = [turn |-> phone.turn, version |-> v,
                                                 decision |-> d]]
    BY <1>6 DEF RestStep
  <2> DEFINE P == [turn : Turns \cup {0}, version : Nat, decision : {"none", "GRANTED", "DENIED"}]
  <2>5. proposal' = proposal \/ \E a \in Replies : \E x \in P : proposal' = [proposal EXCEPT ![a] = x]
    BY <2>2, <2>4
  <2>6. proposal \in [Replies -> P]
    BY <2>3
  <2> HIDE DEF P
  <2>7. proposal' \in [Replies -> P]
    BY <2>5, <2>6
  <2> QED
    BY <2>7 DEF P
<1>11. stored' \subseteq Turns
  BY <1>1, <1>6 DEF RestStep, Types, PhoneOK
<1> QED
  BY <1>2, <1>3, <1>4, <1>5, <1>7, <1>8, <1>9, <1>10, <1>11 DEF Types, ActionTypes, Progress

\* The initial state satisfies the invariant,
LEMMA InitHolds ==
    ASSUME Init
    PROVE  IInv
<1>1. NoCall \in Call /\ NoCall.op = "none" /\ NoCall.state = "none" /\ NoCall.turn = 0
  BY NoCallFields
<1>2. /\ MaxLock \in Nat /\ MaxRequests \in Nat /\ MaxSpent \in Nat /\ QuotaLimit \in Nat
      /\ 0 \notin Turns /\ "none" \notin Sessions
  BY ConstantsAssumption
<1>3. \A t \in Turns : turn[t] = NoTurn /\ ~Active(t)
  BY DEF Init, Active, Running, NoTurn
<1>4. Types
  <2>1. NoTurn \in Turn /\ IdlePhone \in Phone
    BY <1>2 DEF NoTurn, Turn, IdlePhone, Phone, Running
  <2>2. NoProposal \in [turn : Turns \cup {0}, version : Nat, decision : {"none", "GRANTED", "DENIED"}]
    BY DEF NoProposal
  <2>3. [status |-> "none", elapsed |-> FALSE] \in Approval
    BY DEF Approval
  <2> QED
    BY <1>1, <1>2, <2>1, <2>2, <2>3 DEF Init, Types
<1>5. CallsOK
  BY <1>1 DEF Init, CallsOK, Calls, CallOK
<1>6. PhoneOK
  BY <1>1, <1>2 DEF Init, PhoneOK, IdlePhone, Asks
<1>7. UsageOK
  BY <1>3 DEF Init, UsageOK, Agree, NoTurn
<1>8. GatewayOK
  BY <1>2, <1>3 DEF Init, GatewayOK, Started, NoTurn
<1>9. ActionsOK
  BY <1>1 DEF Init, ActionsOK, Reached
<1>10. ClearOK
  BY DEF Init, ClearOK, Asking, IdlePhone
<1>11. Cardinality(Allocated) <= QuotaLimit
  <2>1. Allocated = {}
    BY DEF Init, Allocated
  <2> QED
    BY <1>2, <2>1, FS_EmptySet
<1>12. LocksOK
  BY DEF Init, LocksOK, IdlePhone
<1> QED
  BY <1>4, <1>5, <1>6, <1>7, <1>8, <1>9, <1>10, <1>11, <1>12 DEF IInv

\* and every step keeps it.
LEMMA StepHolds ==
    ASSUME IInv, [Next]_vars
    PROVE  IInv'
<1>1. CASE Next
  BY <1>1, TypesKeep, CallsKeep, PhoneKeeps, UsageKeeps, GatewayKeeps, ActionsKeep, ClearKeeps,
     QuotaKeeps, LocksKeep DEF IInv
<1>2. CASE UNCHANGED vars
  <2>1. /\ UNCHANGED <<turn, ledger, audit, streams, approval, execution, sent, opp, available>>
        /\ UNCHANGED <<phone, main, beat, late, session, proposal, stored, shown, spent, faults>>
    BY <1>2 DEF vars, usage, gateway, actions, calls, local, budget
  <2>2. Types' /\ CallsOK' /\ PhoneOK'
    BY <2>1 DEF IInv, Types, CallsOK, Calls, CallOK, PhoneOK
  <2>3. UsageOK' /\ GatewayOK' /\ (Cardinality(Allocated) <= QuotaLimit)'
    BY <2>1 DEF IInv, UsageOK, Agree, Active, GatewayOK, Started, Allocated
  <2>4. ActionsOK' /\ ClearOK' /\ LocksOK'
    BY <2>1 DEF IInv, ActionsOK, Reached, ClearOK, Asking, Calls, Started, Active, LocksOK, Holds
  <2> QED
    BY <2>2, <2>3, <2>4 DEF IInv
<1> QED
  BY <1>1, <1>2

\* IInv is an invariant.
LEMMA Invariance == Spec => []IInv
<1>1. Init => IInv
  BY InitHolds
<1>2. IInv /\ [Next]_vars => IInv'
  BY StepHolds
<1> QED
  BY <1>1, <1>2, PTL DEF Spec

-----------------------------------------------------------------------------
(* The theorems. *)

\* A finite set whose elements are all the same has at most one.
LEMMA AtMostOne ==
    ASSUME NEW S, IsFiniteSet(S), \A x, y \in S : x = y
    PROVE  Cardinality(S) <= 1
<1>1. CASE S = {}
  BY <1>1, FS_EmptySet
<1>2. CASE S # {}
  <2>1. PICK x \in S : TRUE
    BY <1>2
  <2>2. S = {x}
    BY <2>1
  <2> QED
    BY <2>2, FS_Singleton
<1> QED
  BY <1>1, <1>2

\* Rows, calls and the phone keep their types; at most one turn of a session is
\* active, and at most one request of a turn under way, numbered without a gap.
THEOREM TypesHold == Spec => []TypeOK
<1>1. ASSUME IInv PROVE TypeOK
  <2>1. \A s \in Sessions : Cardinality(ActiveIn(s)) <= 1
    <3> TAKE s \in Sessions
    <3>1. IsFiniteSet(ActiveIn(s))
      BY ConstantsAssumption, FS_Subset DEF ActiveIn
    <3>2. \A t, u \in ActiveIn(s) : t = u
      BY <1>1 DEF IInv, UsageOK, ActiveIn
    <3> QED
      BY <3>1, <3>2, AtMostOne
  <2>2. \A t \in Turns : Cardinality(Started(t)) <= 1
    <3> TAKE t \in Turns
    <3>1. IsFiniteSet(1..MaxRequests) /\ Started(t) \subseteq 1..MaxRequests
      BY ConstantsAssumption, FS_Interval DEF Started
    <3>2. IsFiniteSet(Started(t))
      BY <3>1, FS_Subset
    <3>3. \A m, n \in Started(t) : m = n
      BY <1>1 DEF IInv, GatewayOK
    <3> QED
      BY <3>2, <3>3, AtMostOne
  <2>3. \A t \in Turns : \A n \in 1..MaxRequests : audit[t][n] # "none" <=> n <= turn[t].requests
    BY <1>1 DEF IInv, GatewayOK
  <2> QED
    BY <1>1, <2>1, <2>2, <2>3 DEF IInv, Types, TypeOK
<1> QED
  BY <1>1, Invariance, PTL

\* A reply goes out at most once, only with the user's consent, and its approval
\* never says otherwise, whatever is lost, repeated or killed.
THEOREM ApprovalsTellTruth == Spec => []ApprovalTellsTruth
<1>1. ASSUME IInv PROVE ApprovalTellsTruth
  <2> SUFFICES ASSUME NEW a \in Replies
               PROVE  /\ sent[a] <= 1
                      /\ sent[a] = 1 =>
                            /\ proposal[a].decision = "GRANTED"
                            /\ approval[a].status \in {"EXECUTING", "CONSUMED", "UNCERTAIN"}
                      /\ approval[a].status = "CONSUMED" => sent[a] = 1
                      /\ a \in shown => approval[a].status = "CONSUMED"
    BY DEF ApprovalTellsTruth
  <2>1. /\ Reached(a)
        /\ approval[a].status \notin {"none", "DENIED"} => proposal[a].decision = "GRANTED"
        /\ a \in shown => approval[a].status = "CONSUMED"
        /\ execution[a] \in Progress
    BY <1>1 DEF IInv, ActionsOK, Types, Progress
  <2> QED
    BY <2>1 DEF Reached, Progress
<1> QED
  BY <1>1, Invariance, PTL

\* A turn is charged only for an answer in SQLite, and reservations never stay
\* behind nor exceed the month's limit.
THEOREM TurnsChargedForAnswer == Spec => []ChargedForAnswer
<1>1. ASSUME IInv PROVE ChargedForAnswer
  <2>1. ASSUME NEW t \in Turns
        PROVE  turn[t].status \in {"FAILED", "EXPIRED"} <=> ledger[t] = "RELEASED"
    <3>1. /\ turn[t] \in Turn /\ Agree(t)
          /\ ledger[t] \in {"none", "RESERVED", "CONSUMED", "RELEASED"}
      BY <1>1 DEF IInv, Types, UsageOK
    <3>2. turn[t].status \in {"none", "COMPLETED", "FAILED", "EXPIRED"} \cup Running
      BY <3>1 DEF Turn
    <3> QED
      BY <3>1, <3>2 DEF Agree, Active, Running
  <2> QED
    BY <1>1, <2>1 DEF IInv, UsageOK, Agree, ChargedForAnswer
<1> QED
  BY <1>1, Invariance, PTL

\* A turn is never refused a stream because of its own last request.
THEOREM TurnsNeverBlocked == Spec => []NeverBlocked
<1>1. ASSUME IInv PROVE NeverBlocked
  <2> SUFFICES ASSUME main.op = "open", main.state = "sent"
               PROVE  Started(main.turn) = {}
    BY DEF NeverBlocked
  <2>1. phone.pc = "stream" /\ main.turn = phone.turn
    BY <1>1, NoCallFields DEF IInv, PhoneOK, Asks
  <2> QED
    BY <1>1, <2>1 DEF IInv, ClearOK, Asking
<1> QED
  BY <1>1, Invariance, PTL

\* Without a fault the phone ends an active turn with its very lock version.
THEOREM LocksKnown == Spec => []LockKnown
<1>1. ASSUME IInv PROVE LockKnown
  <2> SUFFICES ASSUME faults = 0, main.op \in {"complete", "fail"}, Active(main.turn)
               PROVE  main.lock = turn[main.turn].lock
    BY DEF LockKnown
  <2>1. phone.pc \in {"complete", "fail"} /\ main.turn = phone.turn
    BY <1>1, NoCallFields DEF IInv, PhoneOK, Asks
  <2>2. Holds(turn[phone.turn].lock)
    BY <1>1, <2>1 DEF IInv, LocksOK
  <2> QED
    BY <2>1, <2>2 DEF Holds
<1> QED
  BY <1>1, Invariance, PTL

\* A late, repeated or overtaken call changes nothing that has ended.
THEOREM TurnsSettledForGood == Spec => SettledForGood
<1> DEFINE Ended == {"COMPLETED", "FAILED", "EXPIRED"}
           Settled == /\ \A t \in Turns : turn[t].status \in Ended =>
                             turn'[t] = turn[t] /\ ledger'[t] = ledger[t]
                      /\ \A a \in Replies :
                             approval[a].status \in
                                 {"DENIED", "CONSUMED", "FAILED", "UNCERTAIN", "EXPIRED"} =>
                             approval'[a] = approval[a]
                      /\ \A t \in Turns : \A n \in 1..MaxRequests :
                             audit[t][n] \in {"COMPLETED", "FAILED", "CANCELLED"} =>
                             audit'[t][n] = audit[t][n]
<1>1. ASSUME IInv, Next PROVE Settled
  <2>1. Types /\ CallsOK /\ UsageOK /\ GatewayOK /\ ActionsOK
    BY <1>1 DEF IInv
  <2>2. ASSUME NEW t \in Turns, turn[t].status \in Ended
        PROVE  turn'[t] = turn[t] /\ ledger'[t] = ledger[t]
    <3>1. ~(Begins(t) \/ Renews(t) \/ Elapses(t) \/ Requests(t) \/ Ends(t))
      BY <2>2 DEF Begins, Renews, Elapses, Requests, Ends, Active, Running
    <3> QED
      BY <1>1, <2>1, <3>1, UsageSteps, UsageFields DEF UsageStep, usage
  <2>3. ASSUME NEW a \in Replies,
               approval[a].status \in {"DENIED", "CONSUMED", "FAILED", "UNCERTAIN", "EXPIRED"}
        PROVE  approval'[a] = approval[a]
    <3>1. Lives(a) /\ Reached(a) /\ execution[a] \in Progress
      BY <1>1, <2>1, ActionSteps DEF ActionsOK, Types, Progress
    <3> QED
      BY <2>3, <3>1 DEF Lives, SameRow, Ruled, Used, Sends, Judged, Reached, Progress
  <2>4. ASSUME NEW t \in Turns, NEW n \in 1..MaxRequests,
               audit[t][n] \in {"COMPLETED", "FAILED", "CANCELLED"}
        PROVE  audit'[t][n] = audit[t][n]
    <3>1. GatewayStep /\ audit \in [Turns -> [1..MaxRequests ->
                             {"none", "STARTED", "COMPLETED", "FAILED", "CANCELLED"}]]
      BY <1>1, <2>1, GatewaySteps DEF Types
    <3>2. ASSUME NEW u \in Turns, Requests(u) PROVE audit'[t][n] = audit[t][n]
      <4>1. audit' = [audit EXCEPT ![u] = [@ EXCEPT ![turn[u].requests + 1] = "STARTED"]]
        BY <3>2 DEF Requests
      <4>2. u = t => n # turn[u].requests + 1
        <5>1. turn[t].requests \in Nat /\ n <= turn[t].requests
          BY <2>1, <2>4 DEF Types, Turn, GatewayOK
        <5> QED
          BY <5>1
      <4> QED
        BY <3>1, <4>1, <4>2
    <3>3. ASSUME NEW u \in Turns, NEW m \in 1..MaxRequests, Closes(u, m)
          PROVE  audit'[t][n] = audit[t][n]
      <4>1. u = t => n # m
        BY <2>1, <2>4, <3>3 DEF Closes, GatewayOK
      <4> QED
        BY <3>1, <3>3, <4>1 DEF Closes
    <3> QED
      BY <3>1, <3>2, <3>3 DEF GatewayStep, gateway
  <2> QED
    BY <2>2, <2>3, <2>4
<1>2. IInv /\ [Next]_vars => [Settled]_vars
  BY <1>1
<1> QED
  BY <1>2, Invariance, PTL DEF Spec, SettledForGood
=============================================================================
