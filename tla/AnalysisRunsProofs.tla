------------------------- MODULE AnalysisRunsProofs -------------------------
(***************************************************************************)
(* Theorems about AnalysisRuns, for any number of messages, runs, processes *)
(* and requests and any quota.                                              *)
(***************************************************************************)
EXTENDS AnalysisRuns, FiniteSetTheorems, TLAPS

-----------------------------------------------------------------------------
(* What TypeOK says of a single row or process. *)

LEMMA ServerType ==
    ASSUME TypeOK, NEW p \in Procs, proc[p].pc \in ServerPcs
    PROVE  proc[p] \in ProcState(ServerPcs, Keys, {None})
  BY DEF TypeOK, Idle, ProcStates, ProcState, DevicePcs, ServerPcs

LEMMA HandlerType ==
    ASSUME TypeOK, NEW p \in Procs, proc[p].pc \in DevicePcs
    PROVE  proc[p] \in ProcState(DevicePcs, {None}, Runs)
  BY DEF TypeOK, Idle, ProcStates, ProcState, DevicePcs, ServerPcs

LEMMA RunType ==
    ASSUME TypeOK, NEW r \in Runs, run[r].status # "NONE"
    PROVE  run[r] \in RunRows
  BY DEF TypeOK, NoRun

LEMMA KeyType ==
    ASSUME NEW m \in Messages, NEW r \in Runs
    PROVE  /\ <<"run", r>> \in Keys /\ <<"fallback", r>> \in Keys
           /\ <<"auto", m>> \in Keys
           /\ \A q \in Requests : <<"manual", <<m, q>>>> \in Keys
  BY DEF Keys

(* Type preservation by the pieces the actions are made of. *)

LEMMA WriteMessageType ==
    ASSUME TypeOK, NEW m \in Messages, NEW s \in MessageStatus,
           NEW H \in SUBSET (Procs \cup Runs), WriteMessage(m, H, s)
    PROVE  /\ message' \in [Messages -> MessageStatus]
           /\ current' \in [Messages -> SUBSET (Procs \cup Runs)]
  BY DEF TypeOK, WriteMessage

LEMMA ForgetType ==
    ASSUME TypeOK, NEW p \in Procs, Forget(p)
    PROVE  current' \in [Messages -> SUBSET (Procs \cup Runs)]
  BY DEF TypeOK, Forget

LEMMA FinishType ==
    ASSUME TypeOK, NEW p \in Procs, Finish(p)
    PROVE  proc' \in [Procs -> ProcStates \cup {Idle}]
  BY DEF TypeOK, Finish

LEMMA GotoType ==
    ASSUME TypeOK, NEW p \in Procs, proc[p].pc \in ServerPcs, NEW pc \in ServerPcs, Goto(p, pc)
    PROVE  proc' \in [Procs -> ProcStates \cup {Idle}]
  <1>1. proc[p] \in ProcState(ServerPcs, Keys, {None})
    BY ServerType
  <1>2. [proc[p] EXCEPT !.pc = pc] \in ProcState(ServerPcs, Keys, {None})
    BY <1>1 DEF ProcState
  <1> QED
    BY <1>2 DEF TypeOK, Goto, ProcStates

LEMMA LedgerStatusType ==
    ASSUME TypeOK, NEW k \in Keys, ledger[k].status # "NONE",
           NEW s \in {"CONSUMED", "RELEASED"},
           ledger' = [ledger EXCEPT ![k].status = s]
    PROVE  ledger' \in [Keys -> LedgerRows \cup {NoLedger}]
  <1>1. ledger[k] \in LedgerRows
    BY DEF TypeOK, NoLedger
  <1>2. [ledger[k] EXCEPT !.status = s] \in LedgerRows
    BY <1>1 DEF LedgerRows
  <1> QED
    BY <1>2 DEF TypeOK

LEMMA ConsumeType ==
    ASSUME TypeOK, NEW k \in Keys, Consume(k)
    PROVE  ledger' \in [Keys -> LedgerRows \cup {NoLedger}]
  BY LedgerStatusType DEF TypeOK, Consume

LEMMA ReleaseType ==
    ASSUME TypeOK, NEW k \in Keys, Release(k)
    PROVE  ledger' \in [Keys -> LedgerRows \cup {NoLedger}]
  BY LedgerStatusType DEF TypeOK, Release

LEMMA ReserveQuotaType ==
    ASSUME TypeOK, NEW m \in Messages, NEW k \in Keys, NEW l \in Keys,
           ReserveQuota(m, k, l)
    PROVE  ledger' \in [Keys -> LedgerRows \cup {NoLedger}]
  BY DEF TypeOK, ReserveQuota, LedgerRows

LEMMA InsertRunType ==
    ASSUME TypeOK, NEW r \in Runs, NEW m \in Messages, NEW k \in Keys,
           NEW mode \in {"PRIMARY", "SHADOW"}, InsertRun(r, m, k, mode)
    PROVE  run' \in [Runs -> RunRows \cup {NoRun}]
  <1> DEFINE row == [NoRun EXCEPT !.status = "CLAIMED", !.message = m,
                                  !.key = k, !.mode = mode, !.live = TRUE]
  <1>1. 1 \in 1 .. MaxLock
    BY ConstantsAssumption
  <1>2. row \in RunRow(Active, 1 .. MaxLock)
    BY <1>1 DEF RunRow, NoRun, Active
  <1> QED
    BY <1>2 DEF TypeOK, InsertRun, RunRows

LEMMA ActiveType ==
    ASSUME TypeOK, NEW r \in Runs, run[r].status \in Active
    PROVE  run[r] \in RunRow(Active, 1 .. MaxLock)
  <1>1. run[r] \in RunRows
    BY RunType DEF Active
  <1> QED
    BY <1>1 DEF RunRows, RunRow, Active, Terminal

LEMMA EndRunType ==
    ASSUME TypeOK, NEW r \in Runs, run[r].status \in Active,
           NEW s \in Terminal, EndRun(r, s)
    PROVE  run' \in [Runs -> RunRows \cup {NoRun}]
  <1> DEFINE row == [run[r] EXCEPT !.status = s, !.lock = @ + 1]
  <1>1. run[r] \in RunRow(Active, 1 .. MaxLock)
    BY ActiveType
  <1>2. run[r].lock + 1 \in 2 .. MaxLock + 1
    BY <1>1, ConstantsAssumption DEF RunRow
  <1>3. row \in RunRow(Terminal, 2 .. MaxLock + 1)
    BY <1>1, <1>2 DEF RunRow, Terminal
  <1>4. run' = [run EXCEPT ![r] = row]
    BY <1>1 DEF EndRun, TypeOK, RunRow
  <1> QED
    BY <1>3, <1>4 DEF TypeOK, RunRows

LEMMA DeliverType ==
    ASSUME TypeOK, NEW m \in Messages, Deliver(m)
    PROVE  delivered' \in [Messages -> Nat]
  <1>1. QuotaLimit \in Nat
    BY ConstantsAssumption
  <1> QED
    BY <1>1 DEF TypeOK, Deliver

LEMMA SchedulingType ==
    ASSUME NEW m \in Messages, NEW k \in Keys, NEW s \in MessageStatus, NEW f \in BOOLEAN
    PROVE  Scheduling(m, k, s, f) \in ProcStates
  <1>1. 0 \in 0 .. MaxRetries
    BY ConstantsAssumption
  <1> QED
    BY <1>1 DEF Scheduling, Idle, ProcStates, ProcState, ServerPcs

LEMMA QueuedType ==
    ASSUME NEW m \in Messages, NEW k \in Keys, NEW n \in 0 .. MaxRetries
    PROVE  Queued(m, k, n) \in ProcStates
  BY DEF Queued, Idle, ProcStates, ProcState, ServerPcs

LEMMA ClaimingType ==
    ASSUME NEW pc \in {"claim", "keep"}, NEW m \in Messages, NEW n \in Runs,
           NEW s \in MessageStatus
    PROVE  Claiming(pc, m, n, s) \in ProcStates
  <1>1. 0 \in 0 .. MaxRetries
    BY ConstantsAssumption
  <1> QED
    BY <1>1 DEF Claiming, Idle, ProcStates, ProcState, DevicePcs

-----------------------------------------------------------------------------
(* The types are not inductive alone: a link inspection writes to its run      *)
(* whatever became of it, which is harmless only because the run exists.  The  *)
(* same goes for the identity and the ledger row of a run yet to be created.   *)

\* A link inspection belongs to a run that was created.
InspectionHasRun ==
    \A p \in Procs : proc[p].pc = "inspect" => run[proc[p].run].status # "NONE"

\* The run a claim is about to create is nobody else's.
ClaimIsFresh ==
    \A p \in Procs : proc[p].pc \in {"claim", "keep"} =>
        /\ run[proc[p].run].status = "NONE"
        /\ \A q \in Procs \ {p} : proc[q].run # proc[p].run

\* A run is billed to an existing ledger row.
RunHasUsage ==
    \A r \in Runs : run[r].status # "NONE" => ledger[run[r].key].status # "NONE"

\* No ledger row bears the key of a run that does not exist yet.
UnbornUnbilled ==
    \A r \in Runs : run[r].status = "NONE" => ledger[<<"run", r>>].status = "NONE"

\* A task past the reservation works on an existing ledger row.
TaskHasUsage ==
    \A p \in Procs : proc[p].pc \in ServerPcs \ {"ingested", "reserve", "quota"} =>
        ledger[proc[p].key].status # "NONE"

\* A scheduler asks for a row under a key of its own, never a run's.
SchedulerKeys ==
    \A p \in Procs : proc[p].pc \in {"ingested", "reserve"} =>
        proc[p].key \notin {"run"} \X Runs

Bindings == /\ InspectionHasRun /\ ClaimIsFresh
            /\ RunHasUsage /\ UnbornUnbilled /\ TaskHasUsage /\ SchedulerKeys

-----------------------------------------------------------------------------
(* Every action preserves the types. *)

LEMMA DeviceType ==
    ASSUME TypeOK, NEW r \in Runs, DeviceStep(r)
    PROVE  TypeOK'
  <1>1. ASSUME NEW m \in Messages, Claim(m, r) PROVE TypeOK'
    <2>1. PICK l \in Keys : /\ ReserveQuota(m, <<"run", r>>, l)
                            /\ InsertRun(r, m, l, "PRIMARY")
      BY <1>1 DEF Claim
    <2>2. WriteMessage(m, {r}, "RUNNING") /\ UNCHANGED <<proc, delivered>>
      BY <1>1 DEF Claim
    <2> QED
      BY <2>1, <2>2, KeyType, ReserveQuotaType, InsertRunType, WriteMessageType
      DEF TypeOK, MessageStatus
  <1>2. ASSUME NEW m \in Messages, ClaimShadow(m, r) PROVE TypeOK'
    <2>1. PICK k \in Keys : InsertRun(r, m, k, "SHADOW")
      BY <1>2 DEF ClaimShadow
    <2> QED
      BY <1>2, <2>1, InsertRunType DEF TypeOK, ClaimShadow
  <1>3. ASSUME LeaseElapses(r) PROVE TypeOK'
    <2>1. [run[r] EXCEPT !.live = FALSE] \in RunRow(Active, 1 .. MaxLock)
      BY <1>3, ActiveType DEF LeaseElapses, RunRow
    <2> QED
      BY <1>3, <2>1 DEF TypeOK, LeaseElapses, RunRows
  <1>4. ASSUME NEW e \in 1 .. MaxLock, Heartbeat(r, e) PROVE TypeOK'
    <2> DEFINE row == [run[r] EXCEPT !.status = "RUNNING", !.lock = @ + 1]
    <2>1. run[r] \in RunRow(Active, 1 .. MaxLock)
      BY <1>4, ActiveType DEF Heartbeat, HasLease
    <2>2. run[r].lock + 1 \in 1 .. MaxLock
      BY <1>4, <2>1, ConstantsAssumption DEF Heartbeat, RunRow
    <2>3. row \in RunRow(Active, 1 .. MaxLock)
      BY <2>1, <2>2 DEF RunRow, Active
    <2>4. run' = [run EXCEPT ![r] = row]
      BY <1>4, <2>1 DEF Heartbeat, TypeOK, RunRow
    <2> QED
      BY <1>4, <2>3, <2>4 DEF TypeOK, Heartbeat, RunRows
  <1>5. ASSUME NEW e \in 1 .. MaxLock, CompletePrimary(r, e) PROVE TypeOK'
    <2>1. run[r].status \in Active /\ run[r] \in RunRow(Active, 1 .. MaxLock)
      BY <1>5, ActiveType DEF CompletePrimary, MayComplete, HasLease
    <2>2. run[r].message \in Messages /\ run[r].key \in Keys
      BY <2>1 DEF RunRow
    <2> QED
      BY <1>5, <2>1, <2>2, ConsumeType, EndRunType, WriteMessageType, DeliverType
      DEF TypeOK, CompletePrimary, Terminal, MessageStatus
  <1>6. ASSUME NEW e \in 1 .. MaxLock, CompleteShadow(r, e) PROVE TypeOK'
    BY <1>6, EndRunType DEF TypeOK, CompleteShadow, MayComplete, HasLease, Terminal
  <1>7. ASSUME NEW e \in 1 .. MaxLock, FailShadow(r, e) PROVE TypeOK'
    BY <1>7, EndRunType DEF TypeOK, FailShadow, HasLease, Terminal
  <1>8. ASSUME NEW e \in 1 .. MaxLock, NEW p \in Procs, FailPrimary(r, e, p)
        PROVE  TypeOK'
    <2>1. run[r].status \in Active /\ run[r] \in RunRow(Active, 1 .. MaxLock)
      BY <1>8, ActiveType DEF FailPrimary, HasLease
    <2>2. run[r].message \in Messages /\ run[r].key \in Keys
      BY <2>1 DEF RunRow
    <2>3. Scheduling(run[r].message, <<"fallback", r>>, "FAILED", TRUE) \in ProcStates
      BY <2>2, KeyType, SchedulingType DEF MessageStatus
    <2>4. proc' \in [Procs -> ProcStates \cup {Idle}]
      BY <1>8, <2>3 DEF TypeOK, FailPrimary
    <2>5. ledger' \in [Keys -> LedgerRows \cup {NoLedger}]
      BY <1>8, <2>2, ReleaseType DEF FailPrimary
    <2>6. run' \in [Runs -> RunRows \cup {NoRun}]
      BY <1>8, <2>1, EndRunType DEF FailPrimary, Terminal
    <2>7. WriteMessage(run[r].message, {p}, "FAILED") /\ UNCHANGED delivered
      BY <1>8 DEF FailPrimary
    <2> QED
      BY <2>2, <2>4, <2>5, <2>6, <2>7, WriteMessageType DEF TypeOK, MessageStatus
  <1>9. ASSUME ExpireShadow(r) PROVE TypeOK'
    BY <1>9, EndRunType DEF TypeOK, ExpireShadow, Lapsed, Terminal
  <1>10. ASSUME NEW p \in Procs, ExpireRow(r, p)
         PROVE  /\ message' \in [Messages -> MessageStatus]
                /\ current' \in [Messages -> SUBSET (Procs \cup Runs)]
                /\ ledger' \in [Keys -> LedgerRows \cup {NoLedger}]
                /\ run' \in [Runs -> RunRows \cup {NoRun}]
                /\ delivered' \in [Messages -> Nat]
                /\ run[r].message \in Messages
    <2>1. run[r].status \in Active /\ run[r] \in RunRow(Active, 1 .. MaxLock)
      BY <1>10, ActiveType DEF ExpireRow, Lapsed
    <2>2. run[r].message \in Messages /\ run[r].key \in Keys
      BY <2>1 DEF RunRow
    <2> QED
      BY <1>10, <2>1, <2>2, ReleaseType, EndRunType, WriteMessageType
      DEF TypeOK, ExpireRow, Terminal, MessageStatus
  <1>11. ASSUME NEW p \in Procs, ExpirePrimary(r, p) PROVE TypeOK'
    <2>1. ExpireRow(r, p)
      BY <1>11 DEF ExpirePrimary
    <2>2. Scheduling(run[r].message, <<"fallback", r>>, "QUEUED", TRUE) \in ProcStates
      BY <1>10, <2>1, KeyType, SchedulingType DEF MessageStatus
    <2> QED
      BY <1>10, <1>11, <2>1, <2>2 DEF TypeOK, ExpirePrimary
  <1>12. ASSUME NEW p \in Procs, BeginInspection(r, p) PROVE TypeOK'
    <2>1. run[r] \in RunRow(Active, 1 .. MaxLock)
      BY <1>12, ActiveType DEF BeginInspection, HasLease
    <2>2. 0 \in 0 .. MaxRetries
      BY ConstantsAssumption
    <2>3. [Idle EXCEPT !.pc = "inspect", !.message = run[r].message, !.run = r]
             \in ProcStates
      BY <2>1, <2>2 DEF Idle, ProcStates, ProcState, DevicePcs, RunRow
    <2> QED
      BY <1>12, <2>3 DEF TypeOK, BeginInspection
  <1>13. ASSUME NEW n \in Runs, NEW p \in Procs, ClaimOverPrimary(r, n, p)
         PROVE  TypeOK'
    <2>1. ExpireRow(r, p)
      BY <1>13 DEF ClaimOverPrimary
    <2>2. Claiming("claim", run[r].message, n, "QUEUED") \in ProcStates
      BY <1>10, <2>1, ClaimingType DEF MessageStatus
    <2> QED
      BY <1>10, <1>13, <2>1, <2>2 DEF TypeOK, ClaimOverPrimary
  <1>14. ASSUME NEW n \in Runs, NEW p \in Procs, ClaimOverShadow(r, n, p)
         PROVE  TypeOK'
    <2>1. run[r].status \in Active /\ run[r].message \in Messages
      BY <1>14, ActiveType DEF ClaimOverShadow, Lapsed, RunRow
    <2>2. Claiming("keep", run[r].message, n, message[run[r].message]) \in ProcStates
      BY <2>1, ClaimingType DEF TypeOK
    <2> QED
      BY <1>14, <2>1, <2>2, EndRunType DEF TypeOK, ClaimOverShadow, Terminal
  <1> QED
    BY <1>1, <1>2, <1>3, <1>4, <1>5, <1>6, <1>7, <1>8, <1>9, <1>11, <1>12, <1>13, <1>14
    DEF DeviceStep

LEMMA ArriveType ==
    ASSUME TypeOK, NEW p \in Procs, Arrive(p)
    PROVE  TypeOK'
  <1>1. ASSUME NEW m \in Messages, Ingest(m, p) PROVE TypeOK'
    <2>1. 0 \in 0 .. MaxRetries
      BY ConstantsAssumption
    <2>2. [Scheduling(m, <<"auto", m>>, "NOT_REQUESTED", FALSE) EXCEPT !.pc = "ingested"]
             \in ProcStates
      BY <2>1 DEF Scheduling, Idle, ProcStates, ProcState, ServerPcs, MessageStatus, Keys
    <2> QED
      BY <1>1, <2>2, WriteMessageType DEF TypeOK, Ingest, MessageStatus
  <1>2. ASSUME NEW m \in Messages, NEW q \in Requests, RequestAnalysis(q, m, p)
        PROVE  TypeOK'
    <2>1. Scheduling(m, <<"manual", <<m, q>>>>, message[m], TRUE) \in ProcStates
      BY SchedulingType DEF TypeOK, Keys
    <2> QED
      BY <1>2, <2>1 DEF TypeOK, RequestAnalysis
  <1> QED
    BY <1>1, <1>2 DEF Arrive

LEMMA AdvanceType ==
    ASSUME TypeOK, Bindings, NEW p \in Procs,
           Advance(p) \/ ServerAttach(p) \/ Fault(p)
    PROVE  TypeOK'
  <1> DEFINE m == proc[p].message
             k == proc[p].key
  <1>s. ASSUME proc[p].pc \in ServerPcs
        PROVE  /\ proc[p] \in ProcState(ServerPcs, Keys, {None})
               /\ m \in Messages /\ k \in Keys
    BY <1>s, ServerType DEF ProcState
  <1>d. ASSUME proc[p].pc \in DevicePcs
        PROVE  m \in Messages /\ proc[p].run \in Runs
    BY <1>d, HandlerType DEF ProcState
  \* Actions that end the process.
  <1>1. ASSUME Leave(p), UNCHANGED <<ledger, run, delivered>> PROVE TypeOK'
    BY <1>1, FinishType, ForgetType DEF Leave, TypeOK
  <1>2. ASSUME FinishClaim(p) PROVE TypeOK'
    <2>1. m \in Messages /\ proc[p].run \in Runs
      BY <1>2, <1>d DEF FinishClaim, DevicePcs
    <2>2. PICK l \in Keys : /\ ReserveQuota(m, <<"run", proc[p].run>>, l)
                            /\ InsertRun(proc[p].run, m, l, "PRIMARY")
      BY <1>2 DEF FinishClaim
    <2>3. ledger' \in [Keys -> LedgerRows \cup {NoLedger}]
      BY <2>1, <2>2, KeyType, ReserveQuotaType
    <2>4. run' \in [Runs -> RunRows \cup {NoRun}]
      BY <2>1, <2>2, InsertRunType
    <2>5. /\ WriteMessage(m, {proc[p].run}, "RUNNING") /\ Finish(p)
          /\ UNCHANGED delivered
      BY <1>2 DEF FinishClaim
    <2> QED
      BY <2>1, <2>3, <2>4, <2>5, WriteMessageType, FinishType DEF TypeOK, MessageStatus
  <1>3. ASSUME FinishInspection(p) PROVE TypeOK'
    <2> DEFINE r == proc[p].run
               row == [run[r] EXCEPT !.evidence = TRUE]
    <2>1. r \in Runs /\ run[r].status # "NONE"
      BY <1>3, <1>d DEF FinishInspection, DevicePcs, Bindings, InspectionHasRun
    <2>2. run[r] \in RunRows
      BY <2>1, RunType
    <2>3. row \in RunRows
      BY <2>2 DEF RunRows, RunRow
    <2>4. run' = [run EXCEPT ![r] = row]
      BY <1>3 DEF FinishInspection
    <2> QED
      BY <1>3, <2>1, <2>3, <2>4, FinishType DEF TypeOK, FinishInspection
  <1>4. ASSUME RefuseInspection(p) PROVE TypeOK'
    BY <1>4, FinishType DEF TypeOK, RefuseInspection
  <1>5. ASSUME ReserveNew(p) PROVE TypeOK'
    <2>1. proc[p] \in ProcState(ServerPcs, Keys, {None}) /\ m \in Messages /\ k \in Keys
      BY <1>5, <1>s DEF ReserveNew, ServerPcs
    <2>2. PICK l \in Keys :
              /\ ReserveQuota(m, k, l)
              /\ proc' = [proc EXCEPT ![p] = [proc[p] EXCEPT !.pc = "mark", !.key = l]]
      BY <1>5 DEF ReserveNew, TypeOK
    <2>3. [proc[p] EXCEPT !.pc = "mark", !.key = l] \in ProcState(ServerPcs, Keys, {None})
      BY <2>1 DEF ProcState, ServerPcs
    <2>4. ledger' \in [Keys -> LedgerRows \cup {NoLedger}]
      BY <2>1, <2>2, ReserveQuotaType
    <2> QED
      BY <1>5, <2>2, <2>3, <2>4 DEF TypeOK, ReserveNew, ProcStates
  <1>6. ASSUME MarkQuotaExceeded(p) PROVE TypeOK'
    BY <1>6, <1>s, WriteMessageType, FinishType
    DEF TypeOK, MarkQuotaExceeded, ServerPcs, MessageStatus
  <1>7. ASSUME MarkQueued(p) PROVE TypeOK'
    BY <1>7, <1>s, WriteMessageType, GotoType
    DEF TypeOK, MarkQueued, ServerPcs, MessageStatus
  \* Actions that only move the counter.
  <1>8. ASSUME ReserveAgain(p) \/ OverQuota(p) \/ ServerDisabled(p)
        PROVE  TypeOK'
    BY <1>8, GotoType DEF TypeOK, ReserveAgain, OverQuota, ServerDisabled, ServerPcs
  <1>9. ASSUME Enqueue(p) PROVE TypeOK'
    <2>1. 0 \in 0 .. MaxRetries
      BY ConstantsAssumption
    <2>2. Queued(m, k, 0) \in ProcStates
      BY <1>9, <2>1, <1>s, QueuedType DEF Enqueue, ServerPcs
    <2> QED
      BY <1>9, <2>2, ForgetType DEF TypeOK, Enqueue
  <1>10. ASSUME EnqueueFails(p) PROVE TypeOK'
    BY <1>10, GotoType, ForgetType DEF TypeOK, EnqueueFails, ServerPcs
  <1>11. ASSUME FailMessage(p), m \in Messages
         PROVE  /\ message' \in [Messages -> MessageStatus]
                /\ current' \in [Messages -> SUBSET (Procs \cup Runs)]
    <2>1. CASE ActiveRuns(m) = {}
      <3>1. WriteMessage(m, {}, "FAILED")
        BY <1>11, <2>1 DEF FailMessage
      <3> QED
        BY <1>11, <3>1, WriteMessageType DEF MessageStatus
    <2>2. CASE ActiveRuns(m) # {}
      BY <1>11, <2>2, ForgetType DEF FailMessage, TypeOK
    <2> QED
      BY <2>1, <2>2
  <1>12. ASSUME FailMark(p) PROVE TypeOK'
    BY <1>12, <1>11, <1>s, GotoType DEF TypeOK, FailMark, ServerPcs
  <1>13. ASSUME ReadForRelease(p) PROVE TypeOK'
    <2>1. proc[p] \in ProcState(ServerPcs, Keys, {None}) /\ k \in Keys
      BY <1>13, <1>s DEF ReadForRelease, ServerPcs
    <2>2. ledger[k].status \in {"NONE", "RESERVED", "CONSUMED", "RELEASED"}
      BY <2>1 DEF TypeOK, LedgerRows, NoLedger
    <2>3. [proc[p] EXCEPT !.pc = "releasing", !.seen = ledger[k].status]
             \in ProcState(ServerPcs, Keys, {None})
      BY <2>1, <2>2 DEF ProcState, ServerPcs
    <2>4. proc' = [proc EXCEPT ![p] =
                      [proc[p] EXCEPT !.pc = "releasing", !.seen = ledger[k].status]]
      BY <1>13 DEF ReadForRelease, TypeOK
    <2> QED
      BY <1>13, <2>3, <2>4 DEF TypeOK, ReadForRelease, ProcStates
  <1>14. ASSUME ReleaseUsage(p) PROVE TypeOK'
    <2>1. k \in Keys /\ ledger[k].status # "NONE"
      BY <1>14, <1>s DEF ReleaseUsage, ServerPcs, Bindings, TaskHasUsage
    <2>2. \/ UNCHANGED ledger
          \/ ledger' = [ledger EXCEPT ![k].status = "RELEASED"]
      BY <1>14 DEF ReleaseUsage
    <2>3. ledger' \in [Keys -> LedgerRows \cup {NoLedger}]
      BY <2>1, <2>2, LedgerStatusType DEF TypeOK
    <2>4. Leave(p) /\ UNCHANGED <<run, delivered>>
      BY <1>14 DEF ReleaseUsage
    <2> QED
      BY <2>3, <2>4, FinishType, ForgetType DEF TypeOK, Leave
  <1>15. ASSUME ServerClaim(p) PROVE TypeOK'
    BY <1>15, <1>s, WriteMessageType, GotoType
    DEF TypeOK, ServerClaim, ServerPcs, MessageStatus
  <1>16. ASSUME ServerComplete(p) PROVE TypeOK'
    BY <1>16, <1>s, WriteMessageType, DeliverType, GotoType
    DEF TypeOK, ServerComplete, Analysing, ServerPcs, MessageStatus
  <1>17. ASSUME ServerAttach(p) PROVE TypeOK'
    <2>1. m \in Messages /\ WriteMessage(m, {p}, message[m])
      BY <1>17, <1>s DEF ServerAttach, Analysing, ServerPcs
    <2>2. proc' \in [Procs -> ProcStates \cup {Idle}]
      BY <1>17, GotoType DEF TypeOK, ServerAttach, Analysing, ServerPcs
    <2> QED
      BY <1>17, <2>1, <2>2, WriteMessageType DEF TypeOK, ServerAttach
  <1>18. ASSUME proc[p].pc \in ServerPcs PROVE Retried(p) \in ProcStates
    <2>1. proc[p] \in ProcState(ServerPcs, Keys, {None}) /\ m \in Messages /\ k \in Keys
      BY <1>18, <1>s
    <2>2. proc[p].retries \in 0 .. MaxRetries
      BY <2>1 DEF ProcState
    <2>3. CASE proc[p].retries < MaxRetries
      <3>1. proc[p].retries + 1 \in 0 .. MaxRetries
        BY <2>2, <2>3, ConstantsAssumption
      <3> QED
        BY <2>1, <2>3, <3>1, QueuedType DEF Retried
    <2>4. CASE ~(proc[p].retries < MaxRetries)
      <3>1. 0 \in 0 .. MaxRetries
        BY ConstantsAssumption
      <3> QED
        BY <2>1, <2>4, <3>1 DEF Retried, Idle, ProcStates, ProcState, ServerPcs
    <2> QED
      BY <2>3, <2>4
  <1>19. ASSUME ServerFails(p) PROVE TypeOK'
    BY <1>19, <1>11, <1>18, <1>s DEF TypeOK, ServerFails, Analysing, ServerPcs
  <1>20. ASSUME ConsumeUsage(p) \/ ServerFindsResult(p) PROVE TypeOK'
    BY <1>20, <1>s, ConsumeType, FinishType, ForgetType
    DEF TypeOK, ConsumeUsage, ServerFindsResult, FindsResult, ServerPcs, Leave
  <1>21. ASSUME ConsumeFails(p) PROVE TypeOK'
    BY <1>21, <1>18 DEF TypeOK, ConsumeFails, FindsResult, ServerPcs
  <1>22. ASSUME RefuseClaim(p) \/ AnswerSettled(p) \/ MarkConflict(p) \/ QuotaUnmarked(p)
                  \/ ServerDefers(p) \/ Crash(p)
         PROVE  TypeOK'
    BY <1>22, <1>1 DEF RefuseClaim, AnswerSettled, MarkConflict, QuotaUnmarked, ServerDefers, Crash
  <1>23. ASSUME MarkProcessed(p) PROVE TypeOK'
    <2>1. CASE p \in current[m]
      <3>1. m \in Messages /\ message[m] \in MessageStatus
        BY <1>23, <1>s DEF MarkProcessed, ServerPcs, TypeOK
      <3>2. WriteMessage(m, {p}, message[m]) /\ Goto(p, "reserve")
        BY <1>23, <2>1 DEF MarkProcessed
      <3> QED
        BY <1>23, <3>1, <3>2, WriteMessageType, GotoType DEF TypeOK, MarkProcessed, ServerPcs
    <2>2. CASE p \notin current[m]
      BY <1>23, <1>1, <2>2 DEF MarkProcessed
    <2> QED
      BY <2>1, <2>2
  <1>24. ASSUME RefreshFails(p) PROVE TypeOK'
    <2>1. proc[p].pc \in ServerPcs /\ m \in Messages
      BY <1>24, <1>s DEF RefreshFails, ServerPcs
    <2>2. proc' \in [Procs -> ProcStates \cup {Idle}]
      BY <1>24, <1>18, <2>1 DEF RefreshFails, TypeOK
    <2> QED
      BY <1>24, <1>11, <2>1, <2>2, ForgetType DEF RefreshFails, TypeOK
  <1>25. ASSUME RefreshesLate(p) PROVE TypeOK'
    <2>1. CASE Leave(p)
      BY <1>25, <1>1, <2>1 DEF RefreshesLate
    <2>2. ASSUME NEW pc, NEW seen,
                 proc' = [proc EXCEPT ![p].pc = pc, ![p].seen = seen],
                 current' = [current EXCEPT ![m] = @ \cup {p}],
                 \/ pc \in ServerPcs /\ proc[p].pc \in ServerPcs
                 \/ pc \in DevicePcs /\ proc[p].pc \in DevicePcs,
                 seen \in {message[m], "NONE"},
                 UNCHANGED <<message, ledger, run, delivered>>
          PROVE  TypeOK'
      <3>1. \/ proc[p] \in ProcState(ServerPcs, Keys, {None}) /\ pc \in ServerPcs
            \/ proc[p] \in ProcState(DevicePcs, {None}, Runs) /\ pc \in DevicePcs
        BY <2>2, ServerType, HandlerType
      <3>2. message[m] \in MessageStatus
        BY <3>1 DEF ProcState, TypeOK
      <3>3. [proc[p] EXCEPT !.pc = pc, !.seen = seen] \in ProcStates
        BY <2>2, <3>1, <3>2 DEF ProcState, ProcStates
      <3>4. proc' = [proc EXCEPT ![p] = [proc[p] EXCEPT !.pc = pc, !.seen = seen]]
        BY <2>2, <3>1 DEF TypeOK, ProcState
      <3> QED
        BY <2>2, <3>3, <3>4 DEF TypeOK
    <2>3. CASE proc[p].pc \in {"ingested", "claim", "reserve"}
      BY <1>25, <2>2, <2>3 DEF RefreshesLate, ServerPcs, DevicePcs
    <2>4. CASE proc[p].pc = "analysing"
      BY <1>25, <2>2, <2>4 DEF RefreshesLate, ServerPcs
    <2> QED
      BY <1>25, <2>1, <2>3, <2>4 DEF RefreshesLate
  <1> QED
    BY <1>2, <1>3, <1>4, <1>5, <1>6, <1>7, <1>8, <1>9, <1>10, <1>12, <1>13, <1>14,
       <1>15, <1>16, <1>17, <1>19, <1>20, <1>21, <1>22, <1>23, <1>24, <1>25
    DEF Advance, Fault

-----------------------------------------------------------------------------
(* What one step of the system may do to a ledger row, a run and a process.  *)

LedgerStep(k) ==
    /\ ledger[k].status # "NONE" => ledger'[k].status # "NONE"
    /\ ledger[k].status = "RELEASED" => ledger'[k] = ledger[k]

RunBorn(r) ==
    /\ run[r].status = "NONE" /\ run'[r].status = "CLAIMED"
    /\ run'[r].key \in Keys /\ ledger'[run'[r].key].status # "NONE"
    /\ ActiveRuns(run'[r].message) = {}
    /\ \A s \in Runs \ {r} : run'[s] = run[s]
    /\ \A p \in Procs : proc'[p].run # r

RunKept(r) ==
    /\ run[r].status # "NONE"
    /\ run'[r].message = run[r].message
    /\ run'[r].key = run[r].key /\ run'[r].mode = run[r].mode
    /\ \/ run'[r].status = run[r].status /\ run'[r].lock = run[r].lock
       \/ run[r].status \in Active /\ run'[r].status \in Active
       \/ /\ run[r].status \in Active /\ run'[r].status \in Terminal
          /\ run[r].mode = "PRIMARY" /\ run'[r].status # "COMPLETED"
               => ledger'[run[r].key].status = "RELEASED"

RunStep(r) == run'[r] = run[r] \/ RunBorn(r) \/ RunKept(r)

UnbornStep(r) ==
    ledger[<<"run", r>>].status = "NONE" =>
        ledger'[<<"run", r>>].status = "NONE" \/ run'[r].status # "NONE"

PastReservation == ServerPcs \ {"ingested", "reserve", "quota"}

ServerStep(p) ==
    /\ proc'[p].run = None /\ proc'[p].pc \notin DevicePcs
    /\ proc'[p].pc \in {"ingested", "reserve"} => proc'[p].key \notin {"run"} \X Runs
    /\ proc'[p].pc \in PastReservation =>
          \/ proc[p].pc \in PastReservation /\ proc'[p].key = proc[p].key
          \/ proc'[p].key \in Keys /\ ledger'[proc'[p].key].status # "NONE"

ClaimerStep(p) ==
    /\ proc'[p].pc \in {"claim", "keep"}
    /\ proc'[p].run \in Runs /\ FreeRun(proc'[p].run)
    /\ run'[proc'[p].run] = run[proc'[p].run]
    /\ \A q \in Procs \ {p} : proc'[q] = proc[q]

InspectorStep(p) ==
    /\ proc'[p].pc = "inspect" /\ UNCHANGED run
    /\ run[proc'[p].run].status # "NONE"
    /\ \A q \in Procs \ {p} : proc'[q] = proc[q]

\* A process that does nothing, or only loads its row again.
StayStep(p) ==
    proc'[p].pc = proc[p].pc /\ proc'[p].run = proc[p].run /\ proc'[p].key = proc[p].key

ProcStep(p) ==
    StayStep(p) \/ ServerStep(p) \/ ClaimerStep(p) \/ InspectorStep(p)

Effects ==
    /\ \A k \in Keys : LedgerStep(k)
    /\ \A r \in Runs : RunStep(r) /\ UnbornStep(r)
    /\ \A p \in Procs : ProcStep(p)

(* The pieces of the actions, one by one. *)

LEMMA UnchangedLedger ==
    ASSUME UNCHANGED ledger
    PROVE  /\ \A k \in Keys : LedgerStep(k)
           /\ \A r \in Runs : UnbornStep(r)
  BY DEF LedgerStep, UnbornStep

LEMMA ConsumeStep ==
    ASSUME TypeOK, NEW k \in Keys, Consume(k)
    PROVE  /\ \A x \in Keys : LedgerStep(x)
           /\ \A r \in Runs : UnbornStep(r)
  BY DEF TypeOK, Consume, LedgerStep, UnbornStep, Keys, LedgerRows, NoLedger

LEMMA ReleaseStep ==
    ASSUME TypeOK, NEW k \in Keys, Release(k)
    PROVE  /\ \A x \in Keys : LedgerStep(x)
           /\ \A r \in Runs : UnbornStep(r)
           /\ ledger[k].status \notin {"NONE", "CONSUMED"}
                 => ledger'[k].status = "RELEASED"
  BY DEF TypeOK, Release, LedgerStep, UnbornStep, Keys, LedgerRows, NoLedger

LEMMA ReserveStep ==
    ASSUME TypeOK, NEW m \in Messages, NEW k \in Keys, NEW l \in Keys,
           ledger[k].status = "NONE", ReserveQuota(m, k, l)
    PROVE  /\ \A x \in Keys : LedgerStep(x)
           /\ \A r \in Runs : k # <<"run", r>> => UnbornStep(r)
           /\ ledger'[l].status = "RESERVED"
  BY DEF TypeOK, ReserveQuota, Reserved, LedgerStep, UnbornStep, Keys

LEMMA InsertStep ==
    ASSUME TypeOK, NEW r \in Runs, NEW m \in Messages, NEW k \in Keys,
           NEW mode \in {"PRIMARY", "SHADOW"},
           run[r].status = "NONE", ledger'[k].status # "NONE", InsertRun(r, m, k, mode),
           \A p \in Procs : proc'[p].run # r
    PROVE  /\ RunBorn(r)
           /\ \A s \in Runs \ {r} : run'[s] = run[s]
  BY DEF TypeOK, InsertRun, RunBorn, NoRun

LEMMA EndStep ==
    ASSUME TypeOK, NEW r \in Runs, run[r].status \in Active,
           NEW s \in Terminal, EndRun(r, s),
           run[r].mode = "PRIMARY" /\ s # "COMPLETED"
               => ledger'[run[r].key].status = "RELEASED"
    PROVE  \A q \in Runs : RunStep(q)
  <1>1. run[r] \in RunRow(Active, 1 .. MaxLock)
    BY ActiveType
  <1> QED
    BY <1>1 DEF TypeOK, EndRun, RunStep, RunKept, RunRow, Active, Terminal

(* The effects of whole actions. *)

LEMMA FreeRunHasNone ==
    ASSUME NEW r \in Runs, FreeRun(r)
    PROVE  run[r].status = "NONE"
  BY DEF FreeRun, NoRun

LEMMA KeyKinds ==
    ASSUME NEW m \in Messages
    PROVE  /\ <<"auto", m>> \notin {"run"} \X Runs
           /\ \A q \in Requests : <<"manual", <<m, q>>>> \notin {"run"} \X Runs
  OBVIOUS

LEMMA ArriveEffects ==
    ASSUME TypeOK, Bindings, NEW p \in Procs, Arrive(p)
    PROVE  Effects
  <1>1. UNCHANGED <<ledger, run>> /\ \A q \in Procs : q # p => proc'[q] = proc[q]
    BY DEF Arrive, Ingest, RequestAnalysis, TypeOK
  <1>2. ASSUME NEW m \in Messages, NEW k, NEW s, NEW f, k \notin {"run"} \X Runs,
               NEW pc \in {"ingested", "reserve"},
               proc' = [proc EXCEPT ![p] = [Scheduling(m, k, s, f) EXCEPT !.pc = pc]]
        PROVE  ServerStep(p)
    BY <1>2 DEF Scheduling, Idle, ServerStep, TypeOK, DevicePcs, PastReservation,
                ServerPcs
  <1>3. ASSUME NEW m \in Messages, Ingest(m, p) PROVE ServerStep(p)
    BY <1>2, <1>3, KeyKinds DEF Ingest
  <1>4. ASSUME NEW m \in Messages, NEW q \in Requests, RequestAnalysis(q, m, p)
        PROVE  ServerStep(p)
    <2> DEFINE row == Scheduling(m, <<"manual", <<m, q>>>>, message[m], TRUE)
    <2>1. [row EXCEPT !.pc = "reserve"] = row
      BY DEF Scheduling, Idle
    <2>2. proc' = [proc EXCEPT ![p] = row]
      BY <1>4 DEF RequestAnalysis
    <2> QED
      BY <1>2, <2>1, <2>2, KeyKinds
  <1>5. ServerStep(p)
    BY <1>3, <1>4 DEF Arrive
  <1> QED
    BY <1>1, <1>5, UnchangedLedger DEF Effects, ProcStep, StayStep, RunStep

LEMMA DeviceEffects ==
    ASSUME TypeOK, Bindings, NEW r \in Runs, DeviceStep(r)
    PROVE  Effects
  <1>1. ASSUME NEW m \in Messages, Claim(m, r) PROVE Effects
    <2>1. PICK l \in Keys : /\ ReserveQuota(m, <<"run", r>>, l)
                            /\ InsertRun(r, m, l, "PRIMARY")
      BY <1>1 DEF Claim
    <2>2. /\ run[r].status = "NONE" /\ UNCHANGED proc
          /\ \A p \in Procs : proc'[p].run # r
      BY <1>1, FreeRunHasNone DEF Claim, FreeRun
    <2>3. ledger[<<"run", r>>].status = "NONE" /\ <<"run", r>> \in Keys
      BY <2>2, KeyType DEF Bindings, UnbornUnbilled, Keys
    <2>4. /\ \A x \in Keys : LedgerStep(x)
          /\ \A s \in Runs : <<"run", r>> # <<"run", s>> => UnbornStep(s)
          /\ ledger'[l].status = "RESERVED"
      BY <2>1, <2>3, ReserveStep
    <2>5. RunBorn(r) /\ \A s \in Runs \ {r} : run'[s] = run[s]
      BY <2>1, <2>2, <2>4, InsertStep
    <2>6. UnbornStep(r)
      BY <2>5 DEF RunBorn, UnbornStep
    <2> QED
      BY <2>2, <2>4, <2>5, <2>6 DEF Effects, RunStep, ProcStep, StayStep
  <1>2. ASSUME NEW m \in Messages, ClaimShadow(m, r) PROVE Effects
    <2>1. PICK k \in Keys : /\ ledger[k] = [status |-> "CONSUMED", message |-> m]
                            /\ InsertRun(r, m, k, "SHADOW")
      BY <1>2 DEF ClaimShadow
    <2>2. /\ run[r].status = "NONE" /\ UNCHANGED <<proc, ledger>>
          /\ \A p \in Procs : proc'[p].run # r
      BY <1>2, FreeRunHasNone DEF ClaimShadow, FreeRun
    <2>3. RunBorn(r) /\ \A s \in Runs \ {r} : run'[s] = run[s]
      BY <2>1, <2>2, InsertStep
    <2> QED
      BY <2>2, <2>3, UnchangedLedger DEF Effects, RunStep, ProcStep, StayStep
  <1>3. ASSUME LeaseElapses(r) PROVE Effects
    <2>1. RunStep(r) /\ \A s \in Runs \ {r} : run'[s] = run[s]
      BY <1>3, ActiveType DEF LeaseElapses, RunStep, RunKept, TypeOK, Active, RunRow
    <2> QED
      BY <1>3, <2>1, UnchangedLedger DEF LeaseElapses, Effects, RunStep, ProcStep, StayStep
  <1>4. ASSUME NEW e \in 1 .. MaxLock, Heartbeat(r, e) PROVE Effects
    <2>1. RunStep(r) /\ \A s \in Runs \ {r} : run'[s] = run[s]
      BY <1>4, ActiveType
      DEF Heartbeat, HasLease, RunStep, RunKept, TypeOK, Active, RunRow
    <2> QED
      BY <1>4, <2>1, UnchangedLedger DEF Heartbeat, Effects, RunStep, ProcStep, StayStep
  <1>5. ASSUME NEW e \in 1 .. MaxLock, CompletePrimary(r, e) PROVE Effects
    <2>1. run[r].status \in Active /\ run[r].key \in Keys
      BY <1>5, ActiveType DEF CompletePrimary, MayComplete, HasLease, RunRow
    <2>2. Consume(run[r].key) /\ EndRun(r, "COMPLETED") /\ UNCHANGED proc
      BY <1>5 DEF CompletePrimary
    <2>3. \A s \in Runs : RunStep(s)
      BY <2>1, <2>2, EndStep DEF Terminal
    <2> QED
      BY <2>1, <2>2, <2>3, ConsumeStep DEF Effects, ProcStep, StayStep
  <1>6. ASSUME NEW e \in 1 .. MaxLock, CompleteShadow(r, e) PROVE Effects
    <2>1. \A s \in Runs : RunStep(s)
      BY <1>6, EndStep DEF CompleteShadow, MayComplete, HasLease, Terminal
    <2> QED
      BY <1>6, <2>1, UnchangedLedger DEF CompleteShadow, Effects, ProcStep, StayStep
  <1>7. ASSUME NEW e \in 1 .. MaxLock, FailShadow(r, e) PROVE Effects
    <2>1. \A s \in Runs : RunStep(s)
      BY <1>7, EndStep DEF FailShadow, HasLease, Terminal
    <2> QED
      BY <1>7, <2>1, UnchangedLedger DEF FailShadow, Effects, ProcStep, StayStep
  <1>8. ASSUME NEW e \in 1 .. MaxLock, NEW p \in Procs, FailPrimary(r, e, p)
        PROVE  Effects
    <2>1. run[r].status \in Active /\ run[r].key \in Keys
      BY <1>8, ActiveType DEF FailPrimary, HasLease, RunRow
    <2>2. Release(run[r].key) /\ EndRun(r, "FAILED")
      BY <1>8 DEF FailPrimary
    <2>3. ledger'[run[r].key].status = "RELEASED"
      BY <1>8, <2>1, <2>2, ReleaseStep
      DEF FailPrimary, Bindings, RunHasUsage, Active
    <2>4. \A s \in Runs : RunStep(s)
      BY <2>1, <2>2, <2>3, EndStep DEF Terminal
    <2>5. ServerStep(p) /\ \A q \in Procs \ {p} : proc'[q] = proc[q]
      BY <1>8 DEF FailPrimary, Scheduling, Idle, ServerStep, TypeOK, DevicePcs,
                  PastReservation, ServerPcs
    <2> QED
      BY <2>1, <2>2, <2>4, <2>5, ReleaseStep DEF Effects, ProcStep, StayStep
  <1>9. ASSUME ExpireShadow(r) PROVE Effects
    <2>1. \A s \in Runs : RunStep(s)
      BY <1>9, EndStep DEF ExpireShadow, Lapsed, Terminal
    <2> QED
      BY <1>9, <2>1, UnchangedLedger DEF ExpireShadow, Effects, ProcStep, StayStep
  <1>10. ASSUME NEW p \in Procs, ExpireRow(r, p)
         PROVE  /\ run[r].status # "NONE"
                /\ \A k \in Keys : LedgerStep(k)
                /\ \A s \in Runs : RunStep(s) /\ UnbornStep(s)
    <2>1. run[r].status \in Active /\ run[r].key \in Keys
      BY <1>10, ActiveType DEF ExpireRow, Lapsed, RunRow
    <2>2. Release(run[r].key) /\ EndRun(r, "EXPIRED")
      BY <1>10 DEF ExpireRow
    <2>3. ledger'[run[r].key].status = "RELEASED"
      BY <1>10, <2>1, <2>2, ReleaseStep
      DEF ExpireRow, Bindings, RunHasUsage, Active
    <2> QED
      BY <2>1, <2>2, <2>3, ReleaseStep, EndStep DEF Terminal, Active
  <1>11. ASSUME NEW p \in Procs, ExpirePrimary(r, p) PROVE Effects
    <2>1. ServerStep(p) /\ \A q \in Procs \ {p} : proc'[q] = proc[q]
      BY <1>11 DEF ExpirePrimary, Scheduling, Idle, ServerStep, TypeOK, DevicePcs,
                   PastReservation, ServerPcs
    <2> QED
      BY <1>10, <1>11, <2>1 DEF ExpirePrimary, Effects, ProcStep, StayStep
  <1>12. ASSUME NEW p \in Procs, BeginInspection(r, p) PROVE Effects
    <2>1. InspectorStep(p) /\ \A q \in Procs \ {p} : proc'[q] = proc[q]
      BY <1>12 DEF BeginInspection, HasLease, Active, Idle, InspectorStep, TypeOK
    <2> QED
      BY <1>12, <2>1, UnchangedLedger DEF BeginInspection, Effects, ProcStep, StayStep, RunStep
  <1>13. ASSUME NEW n \in Runs, NEW p \in Procs, ClaimOverPrimary(r, n, p)
         PROVE  Effects
    <2>1. ExpireRow(r, p) /\ run[n].status = "NONE" /\ FreeRun(n)
      BY <1>13, FreeRunHasNone DEF ClaimOverPrimary
    <2>2. run'[n] = run[n]
      BY <1>10, <2>1 DEF ExpireRow, EndRun, TypeOK
    <2>3. ClaimerStep(p) /\ \A q \in Procs \ {p} : proc'[q] = proc[q]
      BY <1>13, <2>1, <2>2 DEF ClaimOverPrimary, Claiming, Idle, ClaimerStep, TypeOK
    <2> QED
      BY <1>10, <2>1, <2>3 DEF Effects, ProcStep, StayStep
  <1>14. ASSUME NEW n \in Runs, NEW p \in Procs, ClaimOverShadow(r, n, p)
         PROVE  Effects
    <2>1. /\ run[r].status \in Active /\ EndRun(r, "EXPIRED") /\ run[r].mode = "SHADOW"
          /\ run[n].status = "NONE" /\ FreeRun(n) /\ UNCHANGED ledger
      BY <1>14, FreeRunHasNone DEF ClaimOverShadow, Lapsed
    <2>2. run'[n] = run[n]
      BY <2>1 DEF EndRun, TypeOK, Active
    <2>3. ClaimerStep(p) /\ \A q \in Procs \ {p} : proc'[q] = proc[q]
      BY <1>14, <2>1, <2>2 DEF ClaimOverShadow, Claiming, Idle, ClaimerStep, TypeOK
    <2>4. \A s \in Runs : RunStep(s)
      BY <2>1, EndStep DEF Terminal
    <2> QED
      BY <2>1, <2>3, <2>4, UnchangedLedger DEF Effects, ProcStep, StayStep
  <1> QED
    BY <1>1, <1>2, <1>3, <1>4, <1>5, <1>6, <1>7, <1>8, <1>9, <1>11, <1>12, <1>13, <1>14
    DEF DeviceStep

\* Process p moves on with its key; nothing else changes but messages.
LEMMA QuietEffects ==
    ASSUME TypeOK, NEW p \in Procs, UNCHANGED <<ledger, run>>,
           \A q \in Procs \ {p} : proc'[q] = proc[q], ServerStep(p)
    PROVE  Effects
  BY UnchangedLedger DEF Effects, ProcStep, StayStep, RunStep

LEMMA GotoStep ==
    ASSUME TypeOK, NEW p \in Procs, NEW pc \in ServerPcs \ {"ingested", "reserve"}, Goto(p, pc),
           \/ proc[p].pc \in PastReservation
           \/ pc = "quota" /\ proc[p].pc \in ServerPcs
           \/ /\ proc[p].pc \in ServerPcs
              /\ ledger'[proc[p].key].status # "NONE"
    PROVE  ServerStep(p) /\ \A q \in Procs \ {p} : proc'[q] = proc[q]
  <1>1. proc[p] \in ProcState(ServerPcs, Keys, {None})
    BY ServerType DEF PastReservation
  <1>2. proc'[p] = [proc[p] EXCEPT !.pc = pc]
    BY DEF Goto, TypeOK
  <1>3. /\ proc'[p].pc = pc /\ proc'[p].run = None
        /\ proc'[p].key = proc[p].key /\ proc[p].key \in Keys
    BY <1>1, <1>2 DEF ProcState
  <1>4. \A q \in Procs \ {p} : proc'[q] = proc[q]
    BY DEF Goto, TypeOK
  <1> QED
    BY <1>3, <1>4 DEF ServerStep, PastReservation, ServerPcs, DevicePcs

LEMMA FinishStep ==
    ASSUME TypeOK, NEW p \in Procs, Finish(p)
    PROVE  ServerStep(p) /\ \A q \in Procs \ {p} : proc'[q] = proc[q]
  BY DEF TypeOK, Finish, Idle, ServerStep, DevicePcs, PastReservation, ServerPcs

LEMMA AdvanceEffects ==
    ASSUME TypeOK, Bindings, NEW p \in Procs,
           Advance(p) \/ ServerAttach(p) \/ Fault(p)
    PROVE  Effects
  <1> DEFINE m == proc[p].message
             k == proc[p].key
  <1>s. ASSUME proc[p].pc \in ServerPcs
        PROVE  /\ proc[p] \in ProcState(ServerPcs, Keys, {None})
               /\ m \in Messages /\ k \in Keys
    BY <1>s, ServerType DEF ProcState
  <1>1. ASSUME Finish(p), UNCHANGED <<ledger, run>> PROVE Effects
    BY <1>1, FinishStep, QuietEffects
  <1>2. ASSUME RefuseClaim(p) \/ AnswerSettled(p) \/ MarkConflict(p) \/ QuotaUnmarked(p)
                 \/ ServerDefers(p) \/ Crash(p) \/ RefuseInspection(p) \/ MarkQuotaExceeded(p)
        PROVE  Effects
    BY <1>1, <1>2 DEF RefuseClaim, AnswerSettled, MarkConflict, QuotaUnmarked, ServerDefers, Crash,
                      RefuseInspection, MarkQuotaExceeded, Leave
  <1>3. ASSUME ReserveAgain(p) \/ OverQuota(p) \/ MarkQueued(p) \/ EnqueueFails(p)
                 \/ FailMark(p) \/ ServerClaim(p) \/ ServerComplete(p) \/ ServerDisabled(p)
        PROVE  Effects
    <2>1. UNCHANGED <<ledger, run>>
      BY <1>3 DEF ReserveAgain, OverQuota, MarkQueued, EnqueueFails, FailMark,
                  ServerClaim, ServerComplete, ServerDisabled
    <2>2. ServerStep(p) /\ \A q \in Procs \ {p} : proc'[q] = proc[q]
      BY <1>3, <2>1, GotoStep
      DEF ReserveAgain, OverQuota, MarkQueued, EnqueueFails, FailMark,
          ServerClaim, ServerComplete, ServerDisabled, Analysing, PastReservation, ServerPcs
    <2> QED
      BY <2>1, <2>2, QuietEffects
  <1>4. ASSUME FinishClaim(p) PROVE Effects
    <2> DEFINE n == proc[p].run
    <2>1. proc[p].pc \in {"claim", "keep"} /\ m \in Messages /\ n \in Runs
      BY <1>4, HandlerType DEF FinishClaim, DevicePcs, ProcState
    <2>2. run[n].status = "NONE" /\ ledger[<<"run", n>>].status = "NONE"
      BY <2>1 DEF Bindings, ClaimIsFresh, UnbornUnbilled
    <2>3. PICK l \in Keys : /\ ReserveQuota(m, <<"run", n>>, l)
                            /\ InsertRun(n, m, l, "PRIMARY")
      BY <1>4 DEF FinishClaim
    <2>4. /\ \A x \in Keys : LedgerStep(x)
          /\ \A s \in Runs : <<"run", n>> # <<"run", s>> => UnbornStep(s)
          /\ ledger'[l].status = "RESERVED"
      BY <2>1, <2>2, <2>3, ReserveStep, KeyType
    <2>5. ServerStep(p) /\ \A q \in Procs \ {p} : proc'[q] = proc[q]
      BY <1>4, FinishStep DEF FinishClaim
    <2>6. \A q \in Procs : proc'[q].run # n
      BY <2>1, <2>5, ConstantsAssumption DEF ServerStep, Bindings, ClaimIsFresh
    <2>7. RunBorn(n) /\ \A s \in Runs \ {n} : run'[s] = run[s]
      BY <2>1, <2>2, <2>3, <2>4, <2>6, InsertStep
    <2>8. UnbornStep(n)
      BY <2>7 DEF RunBorn, UnbornStep
    <2> QED
      BY <2>4, <2>5, <2>7, <2>8 DEF Effects, RunStep, ProcStep, StayStep
  <1>5. ASSUME FinishInspection(p) PROVE Effects
    <2> DEFINE r == proc[p].run
    <2>1. r \in Runs /\ run[r].status # "NONE"
      BY <1>5, HandlerType DEF FinishInspection, DevicePcs, ProcState, Bindings,
                               InspectionHasRun
    <2>2. run[r] \in RunRows /\ run' = [run EXCEPT ![r] = [run[r] EXCEPT !.evidence = TRUE]]
      BY <1>5, <2>1, RunType DEF FinishInspection
    <2>3. RunKept(r) /\ \A s \in Runs \ {r} : run'[s] = run[s]
      BY <2>1, <2>2 DEF RunKept, RunRows, RunRow, TypeOK
    <2>4. ServerStep(p) /\ \A q \in Procs \ {p} : proc'[q] = proc[q]
      BY <1>5, FinishStep DEF FinishInspection
    <2> QED
      BY <1>5, <2>3, <2>4, UnchangedLedger
      DEF FinishInspection, Effects, RunStep, ProcStep, StayStep
  <1>6. ASSUME ReserveNew(p) PROVE Effects
    <2>1. /\ proc[p] \in ProcState(ServerPcs, Keys, {None}) /\ m \in Messages /\ k \in Keys
          /\ proc[p].pc = "reserve" /\ ledger[k].status = "NONE" /\ UNCHANGED run
          /\ k \notin {"run"} \X Runs
      BY <1>6, <1>s DEF ReserveNew, ServerPcs, Bindings, SchedulerKeys
    <2>2. PICK l \in Keys :
              /\ ReserveQuota(m, k, l)
              /\ proc' = [proc EXCEPT ![p] = [proc[p] EXCEPT !.pc = "mark", !.key = l]]
      BY <1>6 DEF ReserveNew, TypeOK
    <2>3. /\ \A x \in Keys : LedgerStep(x)
          /\ \A r \in Runs : UnbornStep(r)
          /\ ledger'[l].status = "RESERVED"
      BY <2>1, <2>2, ReserveStep
    <2>4. proc'[p].pc = "mark" /\ proc'[p].key = l /\ proc'[p].run = None
      BY <2>1, <2>2 DEF ProcState, TypeOK
    <2>5. ServerStep(p) /\ \A q \in Procs \ {p} : proc'[q] = proc[q]
      BY <2>2, <2>3, <2>4 DEF ServerStep, TypeOK, DevicePcs
    <2> QED
      BY <2>1, <2>3, <2>5 DEF Effects, RunStep, ProcStep, StayStep
  <1>7. ASSUME Enqueue(p) PROVE Effects
    <2>1. UNCHANGED <<ledger, run>> /\ proc[p].pc = "enqueue" /\ k \in Keys
      BY <1>7, <1>s DEF Enqueue, ServerPcs
    <2>2. ServerStep(p) /\ \A q \in Procs \ {p} : proc'[q] = proc[q]
      BY <1>7, <2>1 DEF Enqueue, Queued, Idle, ServerStep, TypeOK, DevicePcs,
                        PastReservation, ServerPcs
    <2> QED
      BY <2>1, <2>2, QuietEffects
  <1>8. ASSUME ReadForRelease(p) PROVE Effects
    <2>1. UNCHANGED <<ledger, run>> /\ proc[p] \in ProcState(ServerPcs, Keys, {None})
      BY <1>8, <1>s DEF ReadForRelease, ServerPcs
    <2>2. proc[p].pc = "release" /\
          proc' = [proc EXCEPT ![p] =
                      [proc[p] EXCEPT !.pc = "releasing", !.seen = ledger[k].status]]
      BY <1>8 DEF ReadForRelease, TypeOK
    <2>3. proc'[p].pc = "releasing" /\ proc'[p].key = k /\ proc'[p].run = None
      BY <2>1, <2>2 DEF ProcState, TypeOK
    <2>4. ServerStep(p) /\ \A q \in Procs \ {p} : proc'[q] = proc[q]
      BY <2>2, <2>3 DEF ServerStep, TypeOK, DevicePcs, PastReservation, ServerPcs
    <2> QED
      BY <2>1, <2>4, QuietEffects
  <1>9. ASSUME ReleaseUsage(p) PROVE Effects
    <2>1. k \in Keys /\ ledger[k].status # "NONE" /\ UNCHANGED run
      BY <1>9, <1>s DEF ReleaseUsage, ServerPcs, Bindings, TaskHasUsage
    <2>2. \/ UNCHANGED ledger
          \/ ledger' = [ledger EXCEPT ![k].status = "RELEASED"]
      BY <1>9 DEF ReleaseUsage
    <2>3. \A x \in Keys : LedgerStep(x)
      BY <2>1, <2>2 DEF LedgerStep, TypeOK, LedgerRows, NoLedger
    <2>4. \A r \in Runs : UnbornStep(r)
      BY <2>1, <2>2 DEF UnbornStep, TypeOK, LedgerRows, NoLedger, Keys
    <2>5. ServerStep(p) /\ \A q \in Procs \ {p} : proc'[q] = proc[q]
      BY <1>9, FinishStep DEF ReleaseUsage, Leave
    <2> QED
      BY <2>1, <2>3, <2>4, <2>5 DEF Effects, RunStep, ProcStep, StayStep
  <1>10. ASSUME ConsumeUsage(p) \/ ServerFindsResult(p) PROVE Effects
    <2>1. k \in Keys /\ Consume(k) /\ UNCHANGED run
      BY <1>10, <1>s DEF ConsumeUsage, ServerFindsResult, FindsResult, ServerPcs
    <2>2. ServerStep(p) /\ \A q \in Procs \ {p} : proc'[q] = proc[q]
      BY <1>10, FinishStep DEF ConsumeUsage, ServerFindsResult, Leave
    <2> QED
      BY <2>1, <2>2, ConsumeStep DEF Effects, RunStep, ProcStep, StayStep
  <1>11. ASSUME ServerFails(p) \/ ConsumeFails(p) \/ RefreshFails(p) PROVE Effects
    <2>1. /\ UNCHANGED <<ledger, run>> /\ proc[p].pc \in PastReservation
          /\ proc' = [proc EXCEPT ![p] = Retried(p)]
      BY <1>11 DEF ServerFails, ConsumeFails, RefreshFails, FindsResult, Analysing,
                   PastReservation, ServerPcs
    <2>2. /\ Retried(p).pc \in PastReservation /\ Retried(p).key = k
          /\ Retried(p).run = None
      BY DEF Retried, Queued, Idle, PastReservation, ServerPcs
    <2>3. ServerStep(p) /\ \A q \in Procs \ {p} : proc'[q] = proc[q]
      BY <2>1, <2>2 DEF ServerStep, TypeOK, DevicePcs, PastReservation, ServerPcs
    <2> QED
      BY <2>1, <2>3, QuietEffects
  <1>12. ASSUME ServerAttach(p) PROVE Effects
    <2>1. CASE UNCHANGED proc
      BY <1>12, <2>1, UnchangedLedger DEF ServerAttach, Effects, RunStep, ProcStep, StayStep
    <2>2. CASE Goto(p, "attached")
      BY <1>12, <2>2, GotoStep, QuietEffects
      DEF ServerAttach, Analysing, PastReservation, ServerPcs
    <2> QED
      BY <1>12, <2>1, <2>2 DEF ServerAttach
  <1>13. ASSUME MarkProcessed(p) PROVE Effects
    <2>1. CASE Leave(p)
      BY <1>1, <1>13, <2>1 DEF MarkProcessed, Leave
    <2>2. CASE Goto(p, "reserve")
      <3>1. /\ proc[p] \in ProcState(ServerPcs, Keys, {None}) /\ UNCHANGED <<ledger, run>>
            /\ k \notin {"run"} \X Runs
        BY <1>13, <1>s DEF MarkProcessed, ServerPcs, Bindings, SchedulerKeys
      <3>2. /\ proc'[p] = [proc[p] EXCEPT !.pc = "reserve"]
            /\ \A q \in Procs \ {p} : proc'[q] = proc[q]
        BY <2>2 DEF Goto, TypeOK
      <3>3. proc'[p].pc = "reserve" /\ proc'[p].key = k /\ proc'[p].run = None
        BY <3>1, <3>2 DEF ProcState
      <3>4. ServerStep(p)
        BY <3>1, <3>3 DEF ServerStep, DevicePcs, PastReservation
      <3> QED
        BY <3>1, <3>2, <3>4, QuietEffects
    <2> QED
      BY <1>13, <2>1, <2>2 DEF MarkProcessed
  <1>14. ASSUME RefreshesLate(p) PROVE Effects
    <2>1. UNCHANGED <<ledger, run>>
      BY <1>14 DEF RefreshesLate
    <2>2. CASE Leave(p)
      BY <1>1, <2>1, <2>2 DEF Leave
    <2>3. CASE /\ proc' = [proc EXCEPT ![p].pc = proc[p].pc, ![p].seen = message[m]]
               /\ proc[p].pc \in ServerPcs \cup DevicePcs
      <3>1. \/ proc[p] \in ProcState(ServerPcs, Keys, {None})
            \/ proc[p] \in ProcState(DevicePcs, {None}, Runs)
        BY <2>3, ServerType, HandlerType
      <3>2. StayStep(p) /\ \A q \in Procs \ {p} : StayStep(q)
        BY <2>3, <3>1 DEF StayStep, ProcState, TypeOK
      <3> QED
        BY <2>1, <3>2, UnchangedLedger DEF Effects, ProcStep, RunStep
    <2>4. CASE /\ proc' = [proc EXCEPT ![p].pc = "overtaken", ![p].seen = "NONE"]
               /\ proc[p].pc = "analysing"
      <3>1. proc[p] \in ProcState(ServerPcs, Keys, {None})
        BY <2>4, <1>s DEF ServerPcs
      <3>2. /\ proc'[p].pc = "overtaken" /\ proc'[p].key = k /\ proc'[p].run = None
            /\ \A q \in Procs \ {p} : proc'[q] = proc[q]
        BY <2>4, <3>1 DEF ProcState, TypeOK
      <3>3. ServerStep(p)
        BY <2>4, <3>2 DEF ServerStep, DevicePcs, PastReservation, ServerPcs
      <3> QED
        BY <2>1, <3>2, <3>3, QuietEffects
    <2> QED
      BY <1>14, <2>2, <2>3, <2>4 DEF RefreshesLate, ServerPcs, DevicePcs
  <1> QED
    BY <1>2, <1>3, <1>4, <1>5, <1>6, <1>7, <1>8, <1>9, <1>10, <1>11, <1>12, <1>13, <1>14
    DEF Advance, Fault

-----------------------------------------------------------------------------
(* Who may still commit a result.  A step either writes the message, which    *)
(* leaves the new version to at most one holder, or adds no committer to it.  *)

SoleHolder(m) == \A x, y \in current'[m] : x = y

QuietRun(r) ==
    run'[r].status \in Active /\ run'[r].mode = "PRIMARY" =>
        /\ run[r].status \in Active /\ run[r].mode = "PRIMARY"
        /\ run'[r].message = run[r].message

Committing(p) == proc[p].pc \in {"analysing", "attached"}

QuietProc(p) ==
    Committing(p)' => Committing(p) /\ proc'[p].message = proc[p].message

\* The holders of m only grow by a row that commits nothing.
QuietHolders(m) ==
    \/ current'[m] \subseteq current[m]
    \/ \E y : current'[m] \subseteq current[m] \cup {y} /\ y \notin Committers(m)'

CommitStep(m) ==
    \/ SoleHolder(m)
    \/ /\ \A r \in Runs : QuietRun(r) \/ run'[r].message # m
       /\ \A p \in Procs : QuietProc(p) \/ proc'[p].message # m
       /\ QuietHolders(m)

LEMMA OneCommitterStep ==
    ASSUME OneCommitter, \A m \in Messages : CommitStep(m)
    PROVE  OneCommitter'
  <1> SUFFICES ASSUME NEW m \in Messages, NEW x \in Committers(m)', NEW y \in Committers(m)'
               PROVE  x = y
    BY DEF OneCommitter
  <1>1. x \in current'[m] /\ y \in current'[m]
    BY DEF Committers
  <1>2. CASE SoleHolder(m)
    BY <1>1, <1>2 DEF SoleHolder
  <1>3. CASE ~SoleHolder(m)
    <2>1. ASSUME NEW z \in Committers(m)' PROVE z \in Committers(m)
      <3>1. z \in current[m]
        BY <1>3, <2>1 DEF CommitStep, QuietHolders, Committers
      <3>2. CASE z \in Runs /\ z \in {r \in ActiveRuns(m)' : run'[r].mode = "PRIMARY"}
        BY <1>3, <3>1, <3>2 DEF CommitStep, QuietRun, Committers, ActiveRuns
      <3>3. CASE z \in Procs /\ Committing(z)' /\ proc'[z].message = m
        BY <1>3, <3>1, <3>3 DEF CommitStep, QuietProc, Committing, Committers
      <3> QED
        BY <2>1, <3>2, <3>3 DEF Committing, Committers, ActiveRuns
    <2> QED
      BY <2>1 DEF OneCommitter
  <1> QED
    BY <1>2, <1>3

LEMMA WriteCommit ==
    ASSUME TypeOK, NEW m \in Messages, NEW H, NEW s, \A x, y \in H : x = y,
           WriteMessage(m, H, s),
           \A r \in Runs : QuietRun(r) \/ run'[r].message = m,
           \A p \in Procs : QuietProc(p) \/ proc'[p].message = m
    PROVE  \A x \in Messages : CommitStep(x)
  <1>1. SoleHolder(m)
    BY DEF WriteMessage, SoleHolder, TypeOK
  <1>2. ASSUME NEW x \in Messages, x # m PROVE CommitStep(x)
    BY <1>2 DEF WriteMessage, CommitStep, QuietHolders, TypeOK
  <1> QED
    BY <1>1, <1>2 DEF CommitStep

LEMMA QuietCommit ==
    ASSUME TypeOK, \A m \in Messages : QuietHolders(m),
           \A r \in Runs : QuietRun(r), \A p \in Procs : QuietProc(p)
    PROVE  \A x \in Messages : CommitStep(x)
  BY DEF CommitStep

LEMMA EndRunQuiet ==
    ASSUME TypeOK, NEW r \in Runs, NEW s \in Terminal, EndRun(r, s)
    PROVE  \A q \in Runs : QuietRun(q)
  <1>1. run'[r].status = s /\ s \notin Active
    BY DEF EndRun, TypeOK, Terminal, Active, RunRows, RunRow, NoRun
  <1>2. \A q \in Runs \ {r} : run'[q] = run[q]
    BY DEF EndRun, TypeOK
  <1> QED
    BY <1>1, <1>2 DEF QuietRun

LEMMA UnchangedQuiet ==
    /\ UNCHANGED run => \A q \in Runs : QuietRun(q)
    /\ UNCHANGED proc => \A q \in Procs : QuietProc(q)
    /\ UNCHANGED current => \A m \in Messages : QuietHolders(m)
  BY DEF QuietRun, QuietProc, Committing, QuietHolders

LEMMA DeviceCommit ==
    ASSUME TypeOK, NEW r \in Runs, DeviceStep(r)
    PROVE  \A m \in Messages : CommitStep(m)
  <1>1. ASSUME NEW m \in Messages, Claim(m, r) PROVE \A x \in Messages : CommitStep(x)
    <2>1. WriteMessage(m, {r}, "RUNNING") /\ UNCHANGED proc
      BY <1>1 DEF Claim
    <2>2. \A q \in Runs : QuietRun(q) \/ run'[q].message = m
      BY <1>1 DEF Claim, InsertRun, TypeOK, QuietRun, NoRun
    <2> QED
      BY <2>1, <2>2, WriteCommit, UnchangedQuiet
  <1>2. ASSUME NEW m \in Messages, ClaimShadow(m, r)
        PROVE  \A x \in Messages : CommitStep(x)
    <2>1. UNCHANGED proc /\ run'[r].mode = "SHADOW" /\ r \notin Procs
      BY <1>2, ConstantsAssumption DEF ClaimShadow, InsertRun, TypeOK, NoRun
    <2>2. \A q \in Runs : QuietRun(q)
      BY <1>2, <2>1 DEF ClaimShadow, InsertRun, TypeOK, QuietRun
    <2>3. \A x \in Messages : QuietHolders(x)
      <3>1. \A x \in Messages : r \notin Committers(x)'
        BY <2>1 DEF Committers
      <3> QED
        BY <1>2, <3>1 DEF ClaimShadow, QuietHolders, TypeOK
    <2> QED
      BY <2>1, <2>2, <2>3, QuietCommit, UnchangedQuiet
  <1>3. ASSUME LeaseElapses(r) \/ \E e \in 1 .. MaxLock : Heartbeat(r, e)
        PROVE  \A x \in Messages : CommitStep(x)
    <2>1. UNCHANGED <<proc, current>>
      BY <1>3 DEF LeaseElapses, Heartbeat
    <2>2. /\ run[r].status \in Active /\ run[r] \in RunRow(Active, 1 .. MaxLock)
          /\ \A q \in Runs \ {r} : run'[q] = run[q]
      BY <1>3, ActiveType DEF LeaseElapses, Heartbeat, HasLease, TypeOK
    <2>3. run'[r].message = run[r].message /\ run'[r].mode = run[r].mode
      BY <1>3, <2>2 DEF LeaseElapses, Heartbeat, TypeOK, RunRow
    <2>4. \A q \in Runs : QuietRun(q)
      BY <2>2, <2>3 DEF QuietRun
    <2> QED
      BY <2>1, <2>4, QuietCommit, UnchangedQuiet
  <1>4. ASSUME NEW e \in 1 .. MaxLock, CompletePrimary(r, e)
        PROVE  \A x \in Messages : CommitStep(x)
    <2>1. /\ run[r].message \in Messages /\ EndRun(r, "COMPLETED")
          /\ WriteMessage(run[r].message, {}, "COMPLETED") /\ UNCHANGED proc
      BY <1>4, ActiveType DEF CompletePrimary, MayComplete, HasLease, RunRow
    <2>2. (\A q \in Runs : QuietRun(q)) /\ (\A q \in Procs : QuietProc(q))
      BY <2>1, EndRunQuiet, UnchangedQuiet DEF Terminal
    <2> QED
      BY <2>1, <2>2, WriteCommit
  <1>5. ASSUME NEW e \in 1 .. MaxLock,
               CompleteShadow(r, e) \/ FailShadow(r, e) \/ ExpireShadow(r)
        PROVE  \A x \in Messages : CommitStep(x)
    <2>1. /\ EndRun(r, "COMPLETED") \/ EndRun(r, "FAILED") \/ EndRun(r, "EXPIRED")
          /\ UNCHANGED <<proc, current>>
      BY <1>5 DEF CompleteShadow, FailShadow, ExpireShadow
    <2> QED
      BY <2>1, QuietCommit, EndRunQuiet, UnchangedQuiet DEF Terminal
  <1>6. ASSUME NEW p \in Procs, NEW s \in {"FAILED", "EXPIRED"}, NEW z,
               run[r].message \in Messages, EndRun(r, s),
               WriteMessage(run[r].message, {p}, z),
               \A q \in Procs \ {p} : proc'[q] = proc[q], ~Committing(p)'
        PROVE  \A x \in Messages : CommitStep(x)
    <2>1. \A q \in Procs : QuietProc(q)
      BY <1>6 DEF QuietProc, Committing
    <2> QED
      BY <1>6, <2>1, WriteCommit, EndRunQuiet DEF Terminal
  <1>7. ASSUME NEW e \in 1 .. MaxLock, NEW p \in Procs, FailPrimary(r, e, p)
        PROVE  \A x \in Messages : CommitStep(x)
    <2>1. run[r].message \in Messages
      BY <1>7, ActiveType DEF FailPrimary, HasLease, RunRow
    <2>2. \A q \in Procs \ {p} : proc'[q] = proc[q]
      BY <1>7 DEF FailPrimary, TypeOK
    <2>3. ~Committing(p)'
      BY <1>7 DEF FailPrimary, Committing, TypeOK, Scheduling, Idle
    <2> QED
      BY <1>6, <1>7, <2>1, <2>2, <2>3 DEF FailPrimary
  <1>8. ASSUME NEW p \in Procs, NEW n \in Runs,
               ExpirePrimary(r, p) \/ ClaimOverPrimary(r, n, p)
        PROVE  \A x \in Messages : CommitStep(x)
    <2>1. ExpireRow(r, p) /\ run[r].message \in Messages
      BY <1>8, ActiveType DEF ExpirePrimary, ClaimOverPrimary, ExpireRow, Lapsed, RunRow
    <2>2. /\ \A q \in Procs \ {p} : proc'[q] = proc[q]
          /\ ~Committing(p)'
      BY <1>8 DEF ExpirePrimary, ClaimOverPrimary, Committing, TypeOK, Scheduling, Claiming,
                  Idle
    <2> QED
      BY <1>6, <2>1, <2>2 DEF ExpireRow
  <1>9. ASSUME NEW p \in Procs, BeginInspection(r, p)
        PROVE  \A x \in Messages : CommitStep(x)
    <2>1. \A q \in Procs : QuietProc(q)
      BY <1>9 DEF BeginInspection, Idle, TypeOK, QuietProc, Committing
    <2> QED
      BY <1>9, <2>1, QuietCommit, UnchangedQuiet DEF BeginInspection
  <1>10. ASSUME NEW p \in Procs, NEW n \in Runs, ClaimOverShadow(r, n, p)
         PROVE  \A x \in Messages : CommitStep(x)
    <2>1. /\ \A q \in Procs \ {p} : proc'[q] = proc[q]
          /\ ~Committing(p)' /\ p \notin Runs
      BY <1>10, ConstantsAssumption DEF ClaimOverShadow, Committing, TypeOK, Claiming, Idle
    <2>2. \A q \in Procs : QuietProc(q)
      BY <2>1 DEF QuietProc, Committing
    <2>3. \A x \in Messages : QuietHolders(x)
      <3>1. \A x \in Messages : p \notin Committers(x)'
        BY <2>1 DEF Committing, Committers, ActiveRuns
      <3> QED
        BY <1>10, <3>1 DEF ClaimOverShadow, QuietHolders, TypeOK
    <2> QED
      BY <1>10, <2>2, <2>3, QuietCommit, EndRunQuiet DEF ClaimOverShadow, Terminal
  <1>11. 1 \in 1 .. MaxLock
    BY ConstantsAssumption
  <1> QED
    BY <1>1, <1>2, <1>3, <1>4, <1>5, <1>7, <1>8, <1>9, <1>10, <1>11 DEF DeviceStep

LEMMA ArriveCommit ==
    ASSUME TypeOK, NEW p \in Procs, Arrive(p)
    PROVE  \A m \in Messages : CommitStep(m)
  <1>1. /\ UNCHANGED run /\ \A q \in Procs \ {p} : proc'[q] = proc[q]
        /\ ~Committing(p)'
    <2>1. ASSUME NEW m \in Messages, Ingest(m, p) PROVE <1>1!:
      BY <2>1 DEF Ingest, Committing, TypeOK, Scheduling, Idle
    <2>2. ASSUME NEW m \in Messages, NEW q \in Requests, RequestAnalysis(q, m, p)
          PROVE  <1>1!:
      BY <2>2 DEF RequestAnalysis, Committing, TypeOK, Scheduling, Idle
    <2> QED
      BY <2>1, <2>2 DEF Arrive
  <1>r. p \notin Runs
    BY ConstantsAssumption
  <1>2. (\A q \in Runs : QuietRun(q)) /\ (\A q \in Procs : QuietProc(q))
    BY <1>1 DEF QuietRun, QuietProc, Committing
  <1>3. ASSUME NEW m \in Messages, Ingest(m, p) PROVE \A x \in Messages : CommitStep(x)
    <2>1. WriteMessage(m, {p}, "NOT_REQUESTED")
      BY <1>3 DEF Ingest
    <2> QED
      BY <1>2, <2>1, WriteCommit
  <1>4. ASSUME NEW m \in Messages, NEW q \in Requests, RequestAnalysis(q, m, p)
        PROVE  \A x \in Messages : CommitStep(x)
    <2>1. \A x \in Messages : p \notin Committers(x)'
      BY <1>1, <1>r DEF Committing, Committers, ActiveRuns
    <2>2. \A x \in Messages : QuietHolders(x)
      BY <1>4, <2>1 DEF RequestAnalysis, QuietHolders, TypeOK
    <2> QED
      BY <1>2, <2>2, QuietCommit
  <1> QED
    BY <1>3, <1>4 DEF Arrive

LEMMA ForgetQuiet ==
    ASSUME NEW p \in Procs, Forget(p)
    PROVE  \A m \in Messages : QuietHolders(m)
  BY DEF Forget, QuietHolders

LEMMA GotoQuiet ==
    ASSUME TypeOK, NEW p \in Procs, NEW pc, pc \notin {"analysing", "attached"},
           Goto(p, pc) \/ Finish(p)
    PROVE  \A q \in Procs : QuietProc(q)
  <1>1. /\ ~Committing(p)'
        /\ \A q \in Procs \ {p} : proc'[q] = proc[q]
    <2>1. CASE Finish(p)
      BY <2>1 DEF Finish, Committing, TypeOK, Idle
    <2>2. CASE Goto(p, pc)
      <3>1. proc'[p] = [proc[p] EXCEPT !.pc = pc] /\ \A q \in Procs \ {p} : proc'[q] = proc[q]
        BY <2>2 DEF Goto, TypeOK
      <3>2. proc[p] = Idle \/ proc[p] \in ProcStates
        BY DEF TypeOK
      <3>3. [proc[p] EXCEPT !.pc = pc].pc = pc
        BY <3>2 DEF Idle, ProcStates, ProcState
      <3> QED
        BY <3>1, <3>3 DEF Committing
    <2> QED
      BY <2>1, <2>2
  <1> QED
    BY <1>1 DEF QuietProc, Committing

LEMMA AdvanceCommit ==
    ASSUME TypeOK, NEW p \in Procs,
           Advance(p) \/ ServerAttach(p) \/ Fault(p)
    PROVE  \A m \in Messages : CommitStep(m)
  <1> DEFINE m == proc[p].message
             quiet == (\A r \in Runs : QuietRun(r)) /\ (\A q \in Procs : QuietProc(q))
  <1>s. ASSUME proc[p].pc \in ServerPcs
        PROVE  /\ proc[p] \in ProcState(ServerPcs, Keys, {None})
               /\ m \in Messages
    BY <1>s, ServerType DEF ProcState
  <1>w. ASSUME m \in Messages, quiet,
               \/ \E h \in Procs : \E s : WriteMessage(m, {h}, s)
               \/ \E s : WriteMessage(m, {}, s)
        PROVE  \A x \in Messages : CommitStep(x)
    <2>1. CASE \E h \in Procs : \E s : WriteMessage(m, {h}, s)
      BY <1>w, <2>1, WriteCommit
    <2>2. CASE \E s : WriteMessage(m, {}, s)
      BY <1>w, <2>2, WriteCommit
    <2> QED
      BY <1>w, <2>1, <2>2
  <1>f. ASSUME FailMessage(p), m \in Messages, quiet
        PROVE  \A x \in Messages : CommitStep(x)
    <2>1. CASE ActiveRuns(m) = {}
      BY <1>f, <1>w, <2>1 DEF FailMessage
    <2>2. CASE ActiveRuns(m) # {}
      BY <1>f, <2>2, ForgetQuiet, QuietCommit DEF FailMessage
    <2> QED
      BY <2>1, <2>2
  \* Steps that write no message and create no run.
  <1>1. ASSUME UNCHANGED run, \A q \in Procs : QuietProc(q), Forget(p) \/ UNCHANGED current
        PROVE  \A x \in Messages : CommitStep(x)
    BY <1>1, UnchangedQuiet, ForgetQuiet, QuietCommit
  <1>2. ASSUME RefuseClaim(p) \/ AnswerSettled(p) \/ MarkConflict(p) \/ QuotaUnmarked(p)
                 \/ ServerDefers(p) \/ Crash(p) \/ ConsumeUsage(p) \/ ReleaseUsage(p)
                 \/ RefuseInspection(p) \/ ServerFindsResult(p)
        PROVE  \A x \in Messages : CommitStep(x)
    <2>1. /\ UNCHANGED run /\ Finish(p) /\ (Forget(p) \/ UNCHANGED current)
          /\ "idle" \notin {"analysing", "attached"}
      BY <1>2 DEF RefuseClaim, AnswerSettled, MarkConflict, QuotaUnmarked, ServerDefers, Crash,
                  ConsumeUsage, ReleaseUsage, RefuseInspection, ServerFindsResult, Leave
    <2> QED
      BY <1>1, <2>1, GotoQuiet
  <1>3. ASSUME ReserveAgain(p) \/ OverQuota(p) \/ EnqueueFails(p)
                 \/ ServerDisabled(p)
        PROVE  \A x \in Messages : CommitStep(x)
    <2>1. /\ UNCHANGED run /\ (Forget(p) \/ UNCHANGED current)
          /\ \E pc : pc \notin {"analysing", "attached"} /\ Goto(p, pc)
      BY <1>3 DEF ReserveAgain, OverQuota, EnqueueFails, ServerDisabled
    <2> QED
      BY <1>1, <2>1, GotoQuiet
  <1>4. ASSUME FinishInspection(p) PROVE \A x \in Messages : CommitStep(x)
    <2>1. \A q \in Runs : QuietRun(q)
      BY <1>4 DEF FinishInspection, TypeOK, QuietRun, RunRows, RunRow, NoRun
    <2> QED
      BY <1>4, <2>1, GotoQuiet, UnchangedQuiet, QuietCommit DEF FinishInspection
  <1>5. ASSUME ReserveNew(p) \/ ReadForRelease(p) \/ Enqueue(p) \/ ConsumeFails(p)
        PROVE  \A x \in Messages : CommitStep(x)
    <2>1. proc[p] \in ProcState(ServerPcs, Keys, {None})
      BY <1>5, <1>s DEF ReserveNew, ReadForRelease, Enqueue, ConsumeFails, FindsResult,
                        ServerPcs
    <2>2. /\ UNCHANGED run /\ (Forget(p) \/ UNCHANGED current)
          /\ \A q \in Procs \ {p} : proc'[q] = proc[q]
      BY <1>5 DEF ReserveNew, ReadForRelease, Enqueue, ConsumeFails, TypeOK
    <2>3. ~Committing(p)'
      <3>1. CASE ReserveNew(p)
        BY <2>1, <3>1 DEF Committing, ReserveNew, TypeOK, ProcState
      <3>2. CASE ReadForRelease(p)
        BY <2>1, <3>2 DEF Committing, ReadForRelease, TypeOK, ProcState
      <3>3. CASE Enqueue(p) \/ ConsumeFails(p)
        BY <3>3 DEF Committing, Enqueue, ConsumeFails, Retried, Queued, Idle, TypeOK
      <3> QED
        BY <1>5, <3>1, <3>2, <3>3
    <2> QED
      BY <1>1, <2>2, <2>3 DEF QuietProc, Committing
  <1>6. ASSUME MarkQuotaExceeded(p) \/ MarkQueued(p) \/ ServerComplete(p)
        PROVE  \A x \in Messages : CommitStep(x)
    <2>1. /\ m \in Messages /\ UNCHANGED run
          /\ Finish(p) \/ \E pc : pc \notin {"analysing", "attached"} /\ Goto(p, pc)
      BY <1>6, <1>s DEF MarkQuotaExceeded, MarkQueued, ServerComplete, Analysing,
                        ServerPcs
    <2>2. quiet
      BY <2>1, GotoQuiet, UnchangedQuiet
    <2>3. \/ \E h \in Procs : \E s : WriteMessage(m, {h}, s)
          \/ \E s : WriteMessage(m, {}, s)
          \/ UNCHANGED current
      BY <1>6 DEF MarkQuotaExceeded, MarkQueued, ServerComplete
    <2> QED
      BY <1>w, <2>1, <2>2, <2>3, UnchangedQuiet, QuietCommit
  <1>7. ASSUME FailMark(p) PROVE \A x \in Messages : CommitStep(x)
    BY <1>7, <1>f, <1>s, GotoQuiet, UnchangedQuiet DEF FailMark, ServerPcs
  <1>8. ASSUME ServerFails(p) \/ RefreshFails(p) PROVE \A x \in Messages : CommitStep(x)
    <2>1. /\ UNCHANGED run /\ m \in Messages
          /\ FailMessage(p) \/ Forget(p) \/ UNCHANGED current
      BY <1>8, <1>s DEF ServerFails, RefreshFails, Analysing, ServerPcs
    <2>2. \A q \in Procs : QuietProc(q)
      <3>1. proc' = [proc EXCEPT ![p] = Retried(p)]
        BY <1>8 DEF ServerFails, RefreshFails
      <3>2. Retried(p).pc \notin {"analysing", "attached"}
        BY DEF Retried, Queued, Idle
      <3> QED
        BY <3>1, <3>2 DEF TypeOK, QuietProc, Committing
    <2> QED
      BY <1>1, <1>f, <2>1, <2>2, UnchangedQuiet
  <1>9. ASSUME ServerAttach(p) PROVE \A x \in Messages : CommitStep(x)
    <2>1. proc[p] \in ProcState(ServerPcs, Keys, {None}) /\ m \in Messages
      BY <1>9, <1>s DEF ServerAttach, Analysing, ServerPcs
    <2>2. \A q \in Procs : QuietProc(q)
      BY <1>9, <2>1 DEF ServerAttach, Goto, TypeOK, ProcState, QuietProc, Committing
    <2> QED
      BY <1>9, <1>w, <2>1, <2>2, UnchangedQuiet DEF ServerAttach
  <1>10. ASSUME ServerClaim(p) PROVE \A x \in Messages : CommitStep(x)
    <2>1. proc[p] \in ProcState(ServerPcs, Keys, {None}) /\ m \in Messages
      BY <1>10, <1>s DEF ServerClaim, ServerPcs
    <2>2. proc'[p].message = m /\ \A q \in Procs \ {p} : proc'[q] = proc[q]
      BY <1>10, <2>1 DEF ServerClaim, Goto, TypeOK, ProcState
    <2>3. \A q \in Procs : QuietProc(q) \/ proc'[q].message = m
      BY <2>2 DEF QuietProc, Committing
    <2> QED
      BY <1>10, <2>1, <2>3, WriteCommit, UnchangedQuiet DEF ServerClaim
  <1>11. ASSUME FinishClaim(p) PROVE \A x \in Messages : CommitStep(x)
    <2>1. m \in Messages /\ proc[p].run \in Runs
      BY <1>11, HandlerType DEF FinishClaim, DevicePcs, ProcState
    <2>2. \A q \in Runs : QuietRun(q) \/ run'[q].message = m
      BY <1>11, <2>1 DEF FinishClaim, InsertRun, TypeOK, QuietRun, NoRun
    <2> QED
      BY <1>11, <2>1, <2>2, WriteCommit, GotoQuiet DEF FinishClaim
  <1>12. ASSUME MarkProcessed(p) PROVE \A x \in Messages : CommitStep(x)
    <2>1. CASE Leave(p)
      BY <1>1, <1>12, <2>1, GotoQuiet DEF MarkProcessed, Leave
    <2>2. CASE WriteMessage(m, {p}, message[m]) /\ Goto(p, "reserve")
      BY <1>12, <1>w, <1>s, <2>2, GotoQuiet, UnchangedQuiet DEF MarkProcessed, ServerPcs
    <2> QED
      BY <1>12, <2>1, <2>2 DEF MarkProcessed
  <1>13. ASSUME RefreshesLate(p) PROVE \A x \in Messages : CommitStep(x)
    <2>1. CASE Leave(p)
      BY <1>1, <1>13, <2>1, GotoQuiet DEF RefreshesLate, Leave
    <2>2. CASE ~Leave(p)
      <3>1. /\ UNCHANGED run /\ current' = [current EXCEPT ![m] = @ \cup {p}]
            /\ \A q \in Procs \ {p} : proc'[q] = proc[q]
        BY <1>13, <2>2 DEF RefreshesLate, TypeOK
      <3>2. ~Committing(p)' /\ p \notin Runs
        <4>1. \/ proc[p] \in ProcState(ServerPcs, Keys, {None})
              \/ proc[p] \in ProcState(DevicePcs, {None}, Runs)
          BY <1>13, <2>2, ServerType, HandlerType DEF RefreshesLate, ServerPcs, DevicePcs
        <4>2. /\ proc'[p].pc \in {"ingested", "claim", "reserve", "overtaken"}
          BY <1>13, <2>2, <4>1 DEF RefreshesLate, TypeOK, ProcState
        <4> QED
          BY <4>2, ConstantsAssumption DEF Committing
      <3>3. \A q \in Procs : QuietProc(q)
        BY <3>1, <3>2 DEF QuietProc, Committing
      <3>4. \A x \in Messages : QuietHolders(x)
        <4>1. \A x \in Messages : p \notin Committers(x)'
          BY <3>2 DEF Committing, Committers, ActiveRuns
        <4> QED
          BY <3>1, <4>1 DEF QuietHolders, TypeOK
      <3> QED
        BY <3>1, <3>3, <3>4, QuietCommit, UnchangedQuiet
    <2> QED
      BY <2>1, <2>2
  <1> QED
    BY <1>2, <1>3, <1>4, <1>5, <1>6, <1>7, <1>8, <1>9, <1>10, <1>11, <1>12, <1>13
    DEF Advance, Fault

-----------------------------------------------------------------------------
(* The inductive invariant and the theorems.                                 *)

IInv == TypeOK /\ Bindings /\ OneActiveRun /\ FailedRunNotCharged /\ OneCommitter

LEMMA NextSplit ==
    ASSUME Next
    PROVE  \/ \E r \in Runs : DeviceStep(r)
           \/ \E p \in Procs : Arrive(p)
           \/ \E p \in Procs : Advance(p) \/ ServerAttach(p) \/ Fault(p)
  BY DEF Next

LEMMA NextType ==
    ASSUME TypeOK, Bindings, Next
    PROVE  TypeOK'
  BY NextSplit, DeviceType, ArriveType, AdvanceType

LEMMA NextEffects ==
    ASSUME TypeOK, Bindings, Next
    PROVE  Effects
  BY NextSplit, DeviceEffects, ArriveEffects, AdvanceEffects

LEMMA NextCommit ==
    ASSUME TypeOK, Next
    PROVE  \A m \in Messages : CommitStep(m)
  BY NextSplit, DeviceCommit, ArriveCommit, AdvanceCommit

LEMMA NextBindings ==
    ASSUME TypeOK, TypeOK', Bindings, Effects
    PROVE  Bindings'
  <1>1. ASSUME NEW r \in Runs, run[r].status # "NONE"
        PROVE  run'[r].status # "NONE" /\ run[r].key \in Keys
    BY <1>1, RunType DEF Effects, RunStep, RunBorn, RunKept, Active, Terminal, RunRows, RunRow
  <1>2. ASSUME NEW p \in Procs, proc[p].run \in Runs
        PROVE  proc[p].pc \in DevicePcs
    BY <1>2, ConstantsAssumption DEF TypeOK, ProcStates, ProcState, Idle
  <1>3. InspectionHasRun'
    <2> SUFFICES ASSUME NEW p \in Procs, proc'[p].pc = "inspect"
                 PROVE  run'[proc'[p].run].status # "NONE"
      BY DEF InspectionHasRun
    <2>1. CASE StayStep(p)
      <3>1. proc[p].run \in Runs /\ run[proc[p].run].status # "NONE"
        BY <2>1, HandlerType DEF StayStep, DevicePcs, ProcState, Bindings, InspectionHasRun
      <3> QED
        BY <1>1, <2>1, <3>1 DEF StayStep
    <2> QED
      BY <2>1 DEF Effects, ProcStep, ServerStep, ClaimerStep, InspectorStep, DevicePcs
  <1>4. ClaimIsFresh'
    <2> SUFFICES ASSUME NEW p \in Procs, proc'[p].pc \in {"claim", "keep"}
                 PROVE  /\ run'[proc'[p].run].status = "NONE"
                        /\ \A q \in Procs \ {p} : proc'[q].run # proc'[p].run
      BY DEF ClaimIsFresh
    <2>1. CASE StayStep(p)
      <3> DEFINE n == proc[p].run
      <3>1. /\ n \in Runs /\ run[n].status = "NONE"
            /\ \A q \in Procs \ {p} : proc[q].run # n
        BY <2>1, HandlerType DEF StayStep, DevicePcs, ProcState, Bindings, ClaimIsFresh
      <3>2. ASSUME NEW q \in Procs \ {p} PROVE proc'[q].run # n
        <4>1. CASE StayStep(q)
          BY <3>1, <4>1 DEF StayStep
        <4>2. CASE ServerStep(q)
          BY <3>1, <4>2, ConstantsAssumption DEF ServerStep
        <4>3. CASE ClaimerStep(q)
          BY <2>1, <4>3 DEF ClaimerStep, FreeRun
        <4>4. CASE InspectorStep(q)
          BY <3>1, <4>4 DEF InspectorStep
        <4> QED
          BY <4>1, <4>2, <4>3, <4>4 DEF Effects, ProcStep
      <3>3. run'[n].status = "NONE"
        BY <2>1, <3>1 DEF Effects, RunStep, RunBorn, RunKept, StayStep
      <3> QED
        BY <2>1, <3>2, <3>3 DEF StayStep
    <2>2. CASE ClaimerStep(p)
      <3>1. run'[proc'[p].run].status = "NONE"
        BY <2>2, FreeRunHasNone DEF ClaimerStep
      <3> QED
        BY <2>2, <3>1 DEF ClaimerStep, FreeRun
    <2> QED
      BY <2>1, <2>2 DEF Effects, ProcStep, ServerStep, InspectorStep, DevicePcs
  <1>5. RunHasUsage'
    <2> SUFFICES ASSUME NEW r \in Runs, run'[r].status # "NONE"
                 PROVE  ledger'[run'[r].key].status # "NONE"
      BY DEF RunHasUsage
    <2>1. CASE RunBorn(r)
      BY <2>1 DEF RunBorn
    <2>2. CASE run[r].status # "NONE" /\ run'[r].key = run[r].key
      BY <1>1, <2>2 DEF Effects, LedgerStep, Bindings, RunHasUsage
    <2> QED
      BY <2>1, <2>2 DEF Effects, RunStep, RunKept
  <1>6. UnbornUnbilled'
    BY <1>1 DEF Effects, UnbornStep, Bindings, UnbornUnbilled
  <1>7. ASSUME NEW p \in Procs, proc'[p].pc \in PastReservation
        PROVE  ledger'[proc'[p].key].status # "NONE"
    <2>1. CASE proc[p].pc \in PastReservation /\ proc'[p].key = proc[p].key
      <3>1. proc[p].key \in Keys /\ ledger[proc[p].key].status # "NONE"
        BY <2>1, ServerType DEF PastReservation, ProcState, Bindings, TaskHasUsage
      <3> QED
        BY <2>1, <3>1 DEF Effects, LedgerStep
    <2> QED
      BY <1>7, <2>1 DEF Effects, ProcStep, StayStep, ServerStep, ClaimerStep, InspectorStep,
                        PastReservation, ServerPcs
  <1>8. SchedulerKeys'
    BY DEF Effects, ProcStep, StayStep, ServerStep, ClaimerStep, InspectorStep, Bindings,
           SchedulerKeys
  <1> QED
    BY <1>3, <1>4, <1>5, <1>6, <1>7, <1>8 DEF Bindings, TaskHasUsage, PastReservation

LEMMA NextOneActive ==
    ASSUME TypeOK, OneActiveRun, Effects
    PROVE  OneActiveRun'
  <1> SUFFICES ASSUME NEW r \in Runs, NEW s \in Runs, run'[r].status \in Active,
                      run'[s].status \in Active, run'[r].message = run'[s].message
               PROVE  r = s
    BY DEF OneActiveRun
  <1>1. CASE RunBorn(r) \/ RunBorn(s)
    BY <1>1 DEF RunBorn, ActiveRuns
  <1>2. CASE ~RunBorn(r) /\ ~RunBorn(s)
    <2>1. ASSUME NEW q \in Runs, ~RunBorn(q), run'[q].status \in Active
          PROVE  run[q].status \in Active /\ run[q].message = run'[q].message
      BY <2>1 DEF Effects, RunStep, RunKept, Active, Terminal
    <2> QED
      BY <1>2, <2>1 DEF OneActiveRun
  <1> QED
    BY <1>1, <1>2

LEMMA NextFailedNotCharged ==
    ASSUME TypeOK, FailedRunNotCharged, Effects
    PROVE  FailedRunNotCharged'
  <1> SUFFICES ASSUME NEW r \in Runs, run'[r].mode = "PRIMARY",
                      run'[r].status \in {"FAILED", "EXPIRED"}
               PROVE  ledger'[run'[r].key].status = "RELEASED"
    BY DEF FailedRunNotCharged
  <1>1. CASE /\ run[r].mode = "PRIMARY" /\ run[r].status = run'[r].status
             /\ run[r].key = run'[r].key
    <2>1. run[r].key \in Keys /\ ledger[run[r].key].status = "RELEASED"
      BY <1>1, RunType DEF FailedRunNotCharged, RunRows, RunRow
    <2> QED
      BY <1>1, <2>1 DEF Effects, LedgerStep
  <1>2. CASE run[r].mode = "PRIMARY" /\ run[r].status \in Active /\ RunKept(r)
    BY <1>2 DEF RunKept, Active
  <1> QED
    BY <1>1, <1>2 DEF Effects, RunStep, RunBorn, RunKept

LEMMA InitInvariant == Init => IInv
  <1> SUFFICES ASSUME Init PROVE IInv
    OBVIOUS
  <1>1. TypeOK
    BY DEF Init, TypeOK, MessageStatus
  <1>2. Bindings
    BY DEF Init, Bindings, InspectionHasRun, ClaimIsFresh, RunHasUsage, UnbornUnbilled,
           TaskHasUsage, SchedulerKeys, Idle, NoRun, NoLedger, ServerPcs, Keys
  <1>3. OneActiveRun /\ FailedRunNotCharged
    BY DEF Init, OneActiveRun, FailedRunNotCharged, NoRun, Active
  <1>4. OneCommitter
    BY DEF Init, OneCommitter, Committers
  <1> QED
    BY <1>1, <1>2, <1>3, <1>4 DEF IInv

LEMMA NextInvariant == IInv /\ [Next]_vars => IInv'
  <1> SUFFICES ASSUME IInv, [Next]_vars PROVE IInv'
    OBVIOUS
  <1>1. CASE Next
    <2>1. TypeOK' /\ Effects /\ \A m \in Messages : CommitStep(m)
      BY <1>1, NextType, NextEffects, NextCommit DEF IInv
    <2> QED
      BY <2>1, NextBindings, NextOneActive, NextFailedNotCharged, OneCommitterStep DEF IInv
  <1>2. CASE UNCHANGED vars
    BY <1>2 DEF vars, IInv, TypeOK, Bindings, InspectionHasRun, ClaimIsFresh, RunHasUsage,
                UnbornUnbilled, TaskHasUsage, SchedulerKeys, OneActiveRun,
                FailedRunNotCharged, OneCommitter, Committers, ActiveRuns
  <1> QED
    BY <1>1, <1>2

LEMMA Invariance == Spec => []IInv
  BY InitInvariant, NextInvariant, PTL DEF Spec

\* Every table and process keeps the shape TypeOK gives it.
THEOREM TypeCorrect == Spec => []TypeOK
  BY Invariance, PTL DEF IInv

\* Claims, expiries and shadow claims never leave two active runs on a message.
THEOREM ActiveRunUnique == Spec => []OneActiveRun
  BY Invariance, PTL DEF IInv

\* Whatever order devices, the sweep and late worker tasks act in, the
\* reservation of a failed or expired device run is released and stays so.
THEOREM FailedRunFree == Spec => []FailedRunNotCharged
  BY Invariance, PTL DEF IInv

\* At most one of the devices and tasks analysing a message can still commit.
THEOREM CommitterUnique == Spec => []OneCommitter
  BY Invariance, PTL DEF IInv

LEMMA SettledStep ==
    IInv /\ [Next]_vars =>
       [/\ \A r \in Runs : run[r].status \in Terminal =>
             /\ run'[r].status = run[r].status
             /\ run'[r].key = run[r].key /\ run'[r].lock = run[r].lock
        /\ \A k \in Keys : ledger[k].status = "RELEASED" => ledger'[k] = ledger[k]]_vars
  <1> SUFFICES ASSUME IInv, Next
               PROVE  /\ \A r \in Runs : run[r].status \in Terminal =>
                            /\ run'[r].status = run[r].status
                            /\ run'[r].key = run[r].key /\ run'[r].lock = run[r].lock
                      /\ \A k \in Keys : ledger[k].status = "RELEASED"
                                            => ledger'[k] = ledger[k]
    OBVIOUS
  <1>1. Effects
    BY NextEffects DEF IInv
  <1> QED
    BY <1>1 DEF Effects, LedgerStep, RunStep, RunBorn, RunKept, Active, Terminal

\* No step of anyone changes the outcome or the billing of a run that ended, or
\* revives a released reservation.
THEOREM SettledForGood == Spec => SettledIsFinal
  BY Invariance, SettledStep, PTL DEF Spec, SettledIsFinal

-----------------------------------------------------------------------------
(* The quota.  A step either takes allocated rows away or, under the owner's  *)
(* lock, adds one for a message without a reservation while there is room.    *)

IsAllocated(k) == ledger[k].status \in {"RESERVED", "CONSUMED"}

AllocatedKeys == {k \in Keys : IsAllocated(k)}

Shrinks ==
    \A k \in Keys : /\ IsAllocated(k)' => IsAllocated(k)
                    /\ ledger'[k].status = "RESERVED" => ledger'[k] = ledger[k]

Grows ==
    \E k \in Keys, m \in Messages :
        /\ Reserved(m) = {} /\ Allocated < QuotaLimit
        /\ ledger' = [ledger EXCEPT ![k] = [status |-> "RESERVED", message |-> m]]

LEMMA KeysFinite == IsFiniteSet(Keys)
  <1>1. IsFiniteSet({"auto"} \X Messages)
    BY FS_Product, FS_Singleton, ConstantsAssumption
  <1>2. IsFiniteSet({"manual"} \X (Messages \X Requests))
    BY FS_Product, FS_Singleton, ConstantsAssumption
  <1>3. IsFiniteSet({"run", "fallback"} \X Runs)
    <2>1. {"run", "fallback"} = {"run"} \cup {"fallback"}
      OBVIOUS
    <2>2. IsFiniteSet({"run"}) /\ IsFiniteSet({"fallback"})
      BY FS_Singleton
    <2>3. IsFiniteSet({"run", "fallback"})
      BY <2>1, <2>2, FS_Union
    <2> QED
      BY <2>3, FS_Product, ConstantsAssumption
  <1>4. IsFiniteSet(({"auto"} \X Messages) \cup ({"manual"} \X (Messages \X Requests)))
    BY <1>1, <1>2, FS_Union
  <1> QED
    BY <1>3, <1>4, FS_Union DEF Keys

LEMMA LedgerShrinks ==
    ASSUME TypeOK, NEW k \in Keys, Consume(k) \/ Release(k) \/ UNCHANGED ledger
    PROVE  Shrinks
  BY DEF TypeOK, Consume, Release, Shrinks, IsAllocated, LedgerRows, NoLedger

LEMMA ReserveGrows ==
    ASSUME TypeOK, NEW m \in Messages, NEW k \in Keys, NEW l \in Keys,
           ReserveQuota(m, k, l)
    PROVE  Shrinks \/ Grows
  BY DEF ReserveQuota, Shrinks, IsAllocated, Grows

LEMMA DeviceQuota ==
    ASSUME TypeOK, NEW r \in Runs, DeviceStep(r)
    PROVE  Shrinks \/ Grows
  <1>1. ASSUME NEW m \in Messages, Claim(m, r) PROVE Shrinks \/ Grows
    BY <1>1, ReserveGrows, KeyType DEF Claim
  <1>2. ASSUME run[r].status \in Active,
               Consume(run[r].key) \/ Release(run[r].key)
        PROVE  Shrinks
    <2>1. run[r].key \in Keys
      BY <1>2, ActiveType DEF RunRow
    <2> QED
      BY <1>2, <2>1, LedgerShrinks
  <1>3. ASSUME NEW e \in 1 .. MaxLock, CompletePrimary(r, e) PROVE Shrinks
    BY <1>2, <1>3 DEF CompletePrimary, MayComplete, HasLease
  <1>4. ASSUME NEW e \in 1 .. MaxLock, NEW p \in Procs, FailPrimary(r, e, p) PROVE Shrinks
    BY <1>2, <1>4 DEF FailPrimary, HasLease
  <1>5. ASSUME NEW p \in Procs, NEW n \in Runs,
               ExpirePrimary(r, p) \/ ClaimOverPrimary(r, n, p)
        PROVE  Shrinks
    BY <1>2, <1>5 DEF ExpirePrimary, ClaimOverPrimary, ExpireRow, Lapsed
  <1>6. ASSUME UNCHANGED ledger PROVE Shrinks
    BY <1>6 DEF Shrinks, IsAllocated
  <1> QED
    BY <1>1, <1>3, <1>4, <1>5, <1>6
    DEF DeviceStep, ClaimShadow, LeaseElapses, ExpireShadow, Heartbeat, CompleteShadow,
        FailShadow, BeginInspection, ClaimOverShadow

LEMMA AdvanceQuota ==
    ASSUME TypeOK, NEW p \in Procs,
           Advance(p) \/ ServerAttach(p) \/ Fault(p)
    PROVE  Shrinks \/ Grows
  <1> DEFINE m == proc[p].message
             k == proc[p].key
  <1>s. ASSUME proc[p].pc \in ServerPcs
        PROVE  m \in Messages /\ k \in Keys
    BY <1>s, ServerType DEF ProcState
  <1>1. ASSUME FinishClaim(p) PROVE Shrinks \/ Grows
    BY <1>1, HandlerType, KeyType, ReserveGrows DEF FinishClaim, DevicePcs, ProcState
  <1>2. ASSUME ReserveNew(p) PROVE Shrinks \/ Grows
    BY <1>2, <1>s, ReserveGrows DEF ReserveNew, ServerPcs
  <1>3. ASSUME ReleaseUsage(p) PROVE Shrinks
    <2>1. \/ UNCHANGED ledger
          \/ ledger' = [ledger EXCEPT ![k].status = "RELEASED"]
      BY <1>3 DEF ReleaseUsage
    <2> QED
      BY <2>1 DEF Shrinks, IsAllocated, TypeOK, LedgerRows, NoLedger
  <1>4. ASSUME ConsumeUsage(p) \/ ServerFindsResult(p) PROVE Shrinks
    BY <1>4, <1>s, LedgerShrinks DEF ConsumeUsage, ServerFindsResult, FindsResult, ServerPcs
  <1>5. ASSUME UNCHANGED ledger PROVE Shrinks
    BY <1>5 DEF Shrinks, IsAllocated
  <1> QED
    BY <1>1, <1>2, <1>3, <1>4, <1>5
    DEF Advance, Fault, RefuseClaim, FinishInspection, RefuseInspection, ReserveAgain,
        AnswerSettled, OverQuota, MarkQuotaExceeded, MarkQueued, MarkConflict, QuotaUnmarked,
        Enqueue,
        FailMark, ReadForRelease, ServerClaim, ServerDefers, MarkProcessed,
        ServerComplete, ServerFails, EnqueueFails, ConsumeFails, ServerDisabled, Crash,
        ServerAttach, RefreshFails, RefreshesLate

LEMMA NextQuota ==
    ASSUME TypeOK, QuotaRespected, Next
    PROVE  QuotaRespected'
  <1>1. Shrinks \/ Grows
    <2>1. ASSUME NEW p \in Procs, Arrive(p) PROVE Shrinks
      BY <2>1 DEF Arrive, Ingest, RequestAnalysis, Shrinks, IsAllocated
    <2> QED
      BY <2>1, NextSplit, DeviceQuota, AdvanceQuota
  <1>2. /\ Allocated = Cardinality(AllocatedKeys)
        /\ Allocated' = Cardinality(AllocatedKeys')
        /\ IsFiniteSet(AllocatedKeys)
        /\ Cardinality(AllocatedKeys) \in Nat /\ QuotaLimit \in Nat
    <2>1. IsFiniteSet(AllocatedKeys)
      BY KeysFinite, FS_Subset DEF AllocatedKeys
    <2> QED
      BY <2>1, FS_CardinalityType, ConstantsAssumption
      DEF Allocated, AllocatedKeys, IsAllocated
  <1>3. CASE Shrinks
    <2>1. AllocatedKeys' \in SUBSET AllocatedKeys
      BY <1>3 DEF Shrinks, AllocatedKeys
    <2>2. Cardinality(AllocatedKeys') \in Nat
          /\ Cardinality(AllocatedKeys') <= Cardinality(AllocatedKeys)
      BY <1>2, <2>1, FS_Subset, FS_CardinalityType
    <2>3. Allocated' <= QuotaLimit
      BY <1>2, <2>2 DEF QuotaRespected
    <2> QED
      BY <1>3, <2>3 DEF QuotaRespected, Shrinks
  <1>4. CASE Grows
    <2>1. PICK k \in Keys, m \in Messages :
              /\ Reserved(m) = {} /\ Allocated < QuotaLimit
              /\ ledger' = [ledger EXCEPT ![k] = [status |-> "RESERVED", message |-> m]]
      BY <1>4 DEF Grows
    <2>2. AllocatedKeys' = AllocatedKeys \cup {k}
      BY <2>1 DEF AllocatedKeys, IsAllocated, TypeOK
    <2>3. /\ Cardinality(AllocatedKeys') \in Nat
          /\ Cardinality(AllocatedKeys') <= Cardinality(AllocatedKeys) + 1
      <3> DEFINE S == AllocatedKeys
      <3>1. /\ IsFiniteSet(S \cup {k})
            /\ Cardinality(S \cup {k}) =
                  IF k \in S THEN Cardinality(S) ELSE Cardinality(S) + 1
        BY <1>2, FS_AddElement
      <3>2. Cardinality(S) \in Nat
        BY <1>2
      <3> HIDE DEF S
      <3> QED
        BY <2>2, <3>1, <3>2 DEF S
    <2>4. Allocated' <= QuotaLimit
      BY <1>2, <2>1, <2>3
    <2>5. \A x \in Keys : x # k /\ ledger[x].status = "RESERVED" => ledger[x].message # m
      BY <2>1 DEF Reserved, TypeOK, LedgerRows, NoLedger
    <2> QED
      BY <2>1, <2>4, <2>5 DEF QuotaRespected, TypeOK
  <1> QED
    BY <1>1, <1>3, <1>4

\* The owner never has more analyses reserved or billed than the plan allows,
\* and no message holds two reservations, however many handlers reserve at once.
THEOREM QuotaKept == Spec => []QuotaRespected
  <1>1. Init => QuotaRespected
    <2> SUFFICES ASSUME Init PROVE QuotaRespected
      OBVIOUS
    <2>1. {k \in Keys : ledger[k].status \in {"RESERVED", "CONSUMED"}} = {}
      BY DEF Init, NoLedger
    <2>2. Allocated <= QuotaLimit
      BY <2>1, FS_EmptySet, ConstantsAssumption DEF Allocated
    <2> QED
      BY <2>2 DEF QuotaRespected, Init, NoLedger
  <1>2. TypeOK /\ QuotaRespected /\ [Next]_vars => QuotaRespected'
    BY NextQuota DEF vars, QuotaRespected, Allocated
  <1> QED
    BY <1>1, <1>2, TypeCorrect, PTL DEF Spec
=============================================================================
