----------------------- MODULE AnalysisBillingProofs -----------------------
(***************************************************************************)
(* What the owner of AnalysisRuns is billed: never more than one analysis   *)
(* for each one delivered; and shadow runs, which bill nothing.             *)
(*                                                                         *)
(* A reservation outlives the handler that made it: it is shared by a later *)
(* request, passed on in a queued task, bound to a run, and it is billed    *)
(* some transactions after the delivery, or never.  The account kept here   *)
(* says when a task may bill the row it carries: the delivery it bills has  *)
(* happened, and fewer rows of the message are billed than were delivered.  *)
(***************************************************************************)
EXTENDS AnalysisRunsProofs

\* The rows billed for message m.
Bills(m) == {k \in Keys : ledger[k] = [status |-> "CONSUMED", message |-> m]}

Charged(m) == Cardinality(Bills(m)) <= delivered[m]

\* One more row may be billed for m.
Owed(m) == Cardinality(Bills(m)) < delivered[m]

\* Task p bills its row sooner or later: it has delivered, or it will find the
\* message analysed.
DueTask(p) ==
    \/ proc[p].pc = "consume"
    \/ /\ proc[p].pc \in {"enqueue", "queued"} \cup Analysing
       /\ message[proc[p].message] = "COMPLETED"

\* A key a scheduler asks for names the message it asks for.
KeyFor(k, m) ==
    \/ k = <<"auto", m>>
    \/ \E q \in Requests : k = <<"manual", <<m, q>>>>
    \/ \E r \in Runs : k = <<"fallback", r>> /\ run[r].status # "NONE" /\ run[r].message = m

-----------------------------------------------------------------------------
(* The parts of the inductive invariant.                                     *)

\* A row under a scheduler's key was made for the message of that key.
RowsNamed ==
    \A k \in Keys, m \in Messages :
        KeyFor(k, m) /\ ledger[k].status # "NONE" => ledger[k].message = m

SchedulersNamed ==
    \A p \in Procs : proc[p].pc \in {"ingested", "reserve"} =>
        KeyFor(proc[p].key, proc[p].message)

\* Tasks and runs work with a row of their own message.
TasksNamed ==
    \A p \in Procs : proc[p].pc \in PastReservation =>
        ledger[proc[p].key].message = proc[p].message

RunsNamed ==
    \A r \in Runs : run[r].status # "NONE" => ledger[run[r].key].message = run[r].message

\* There is no fallback of a run that does not exist.
FallbackOfRun ==
    \A r \in Runs : run[r].status = "NONE" => ledger[<<"fallback", r>>].status = "NONE"

Named == RowsNamed /\ SchedulersNamed /\ TasksNamed /\ RunsNamed /\ FallbackOfRun

\* Whoever reserves goes on to queue the message: no caller schedules one that
\* its copy shows analysed, unless it insists.
DecidedAt(p) == proc[p].pc \in {"ingested", "reserve", "mark"} => ~LeavesAlone(p)

Decided == \A p \in Procs : DecidedAt(p)

\* A task that is to bill a reservation is owed it.
Earned ==
    \A p \in Procs : DueTask(p) /\ ledger[proc[p].key].status = "RESERVED"
                     => Owed(proc[p].message)

\* The inductive invariant; it stands on those of AnalysisRunsProofs.
BillingInv == Named /\ Decided /\ Earned /\ ChargedOnlyForDelivered

-----------------------------------------------------------------------------
(* What one step may do to the account.                                      *)

\* Row k is reserved for m, under a run's key or for a scheduler.
Opens(k, m) ==
    /\ ledger[k].status = "NONE"
    /\ \/ k \in {"run"} \X Runs
       \/ \E p \in Procs : /\ proc[p].pc = "reserve"
                           /\ k = proc[p].key /\ m = proc[p].message
    /\ ledger' = [ledger EXCEPT ![k] = [status |-> "RESERVED", message |-> m]]

\* Row k is billed, by the delivery itself or by a task it is due from.
Bill(k) ==
    /\ ledger[k].status = "RESERVED"
    /\ ledger' = [ledger EXCEPT ![k].status = "CONSUMED"]
    /\ \/ Deliver(ledger[k].message)
       \/ /\ UNCHANGED delivered
          /\ \E p \in Procs : DueTask(p) /\ proc[p].key = k

Frees(k) ==
    /\ ledger[k].status # "NONE"
    /\ ledger' = [ledger EXCEPT ![k].status = "RELEASED"]

LedgerMove ==
    \/ UNCHANGED ledger
    \/ \E k \in Keys : Bill(k) \/ Frees(k) \/ \E m \in Messages : Opens(k, m)

DeliveryMove == UNCHANGED delivered \/ \E m \in Messages : Deliver(m)

\* A message becomes analysed only by a delivery.
Completes(m) == message'[m] = "COMPLETED" => message[m] = "COMPLETED" \/ Deliver(m)

\* The row and the message of a task stay what they were.
Carries(p) ==
    /\ proc[p].pc \in PastReservation
    /\ proc'[p].key = proc[p].key /\ proc'[p].message = proc[p].message

TaskMove(p) ==
    /\ proc'[p].pc \in {"ingested", "reserve"} =>
          \/ /\ proc[p].pc \in {"ingested", "reserve"}
             /\ proc'[p].key = proc[p].key /\ proc'[p].message = proc[p].message
          \/ KeyFor(proc[p].key, proc[p].message)'
    /\ DecidedAt(p)'
    /\ proc'[p].pc \in PastReservation =>
          Carries(p) \/ ledger'[proc'[p].key].message = proc'[p].message
    /\ DueTask(p)' => /\ Carries(p)
                      /\ DueTask(p) \/ Deliver(proc[p].message)

RunMove(r) ==
    run[r].status = "NONE" /\ run'[r].status # "NONE" =>
        ledger'[run'[r].key].message = run'[r].message

Account ==
    /\ LedgerMove /\ DeliveryMove
    /\ \A m \in Messages : Completes(m)
    /\ \A p \in Procs : TaskMove(p)
    /\ \A r \in Runs : RunMove(r)

-----------------------------------------------------------------------------
(* Lemmas about the pieces of the actions.                                   *)

LEMMA DeliverOnly ==
    ASSUME TypeOK, NEW m \in Messages, Deliver(m)
    PROVE  /\ delivered' \in [Messages -> Nat]
           /\ \A x \in Messages : x # m => delivered'[x] = delivered[x]
           /\ delivered'[m] = IF delivered[m] < QuotaLimit THEN delivered[m] + 1
                              ELSE delivered[m]
  BY ConstantsAssumption DEF TypeOK, Deliver

\* A message written with a status other than COMPLETED, or its own.
LEMMA WriteCompletes ==
    ASSUME TypeOK, NEW m \in Messages, NEW H, NEW s, WriteMessage(m, H, s),
           s = "COMPLETED" => Deliver(m) \/ message[m] = "COMPLETED"
    PROVE  \A x \in Messages : Completes(x)
  BY DEF TypeOK, WriteMessage, Completes

LEMMA QuietCompletes ==
    ASSUME UNCHANGED message
    PROVE  \A x \in Messages : Completes(x)
  BY DEF Completes

\* A process that does not move may find its message analysed meanwhile.
LEMMA StillMove ==
    ASSUME TypeOK, Decided, \A m \in Messages : Completes(m),
           NEW p \in Procs, proc'[p] = proc[p]
    PROVE  TaskMove(p)
  <1>1. DecidedAt(p)'
    BY DEF Decided, DecidedAt, LeavesAlone
  <1>2. proc'[p].pc \in PastReservation => Carries(p)
    BY DEF Carries
  <1>3. ASSUME DueTask(p)' PROVE Carries(p) /\ (DueTask(p) \/ Deliver(proc[p].message))
    <2>1. proc[p].pc \in PastReservation
      BY <1>3 DEF DueTask, Analysing, PastReservation, ServerPcs
    <2>2. proc[p].message \in Messages
      BY <2>1, ServerType DEF PastReservation, ProcState
    <2> QED
      BY <1>3, <1>2, <2>1, <2>2 DEF DueTask, Completes
  <1> QED
    BY <1>1, <1>2, <1>3 DEF TaskMove

\* A process that leaves the scheduler and the server task.
LEMMA AwayMove ==
    ASSUME NEW p \in Procs, proc'[p].pc \notin ServerPcs
    PROVE  TaskMove(p)
  BY DEF TaskMove, DecidedAt, DueTask, Analysing, PastReservation, ServerPcs

LEMMA FinishMove ==
    ASSUME TypeOK, NEW p \in Procs, Finish(p)
    PROVE  TaskMove(p) /\ \A q \in Procs \ {p} : proc'[q] = proc[q]
  <1>1. proc'[p].pc \notin ServerPcs
    BY DEF TypeOK, Finish, Idle, ServerPcs
  <1> QED
    BY <1>1, AwayMove DEF TypeOK, Finish

LEMMA SchedulingFields ==
    ASSUME NEW m, NEW k, NEW s, NEW f
    PROVE  /\ Scheduling(m, k, s, f).pc = "reserve" /\ Scheduling(m, k, s, f).key = k
           /\ Scheduling(m, k, s, f).message = m /\ Scheduling(m, k, s, f).seen = s
  BY DEF Scheduling, Idle

\* A scheduler begins: it names the message and intends to queue it.
LEMMA BeginMove ==
    ASSUME TypeOK, NEW p \in Procs, NEW m \in Messages, KeyFor(proc[p].key, m)',
           proc'[p].pc \in {"ingested", "reserve"}, proc'[p].message = m,
           proc'[p].seen # "RUNNING", proc'[p].force \/ proc'[p].seen # "COMPLETED"
    PROVE  TaskMove(p)
  <1>1. KeyFor(proc[p].key, proc[p].message)'
    BY DEF KeyFor
  <1>2. DecidedAt(p)'
    BY DEF DecidedAt, LeavesAlone
  <1> QED
    BY <1>1, <1>2 DEF TaskMove, DueTask, Analysing, PastReservation

LEMMA SchedulingMove ==
    ASSUME TypeOK, NEW p \in Procs, NEW m \in Messages, NEW k, NEW s, NEW f \in BOOLEAN,
           proc' = [proc EXCEPT ![p] = Scheduling(m, k, s, f)], KeyFor(k, m)',
           s # "RUNNING", f = TRUE \/ s # "COMPLETED"
    PROVE  TaskMove(p) /\ \A q \in Procs \ {p} : proc'[q] = proc[q]
  <1>1. proc'[p] = Scheduling(m, k, s, f)
    BY DEF TypeOK
  <1>2. /\ proc'[p].pc = "reserve" /\ proc'[p].key = k /\ proc'[p].message = m
        /\ proc'[p].seen = s
    BY <1>1, SchedulingFields
  <1>3. f = TRUE => proc'[p].force
    BY <1>1, Zenon DEF Scheduling, Idle
  <1>4. KeyFor(proc[p].key, m)'
    BY <1>2 DEF KeyFor
  <1> QED
    BY <1>1, <1>2, <1>3, <1>4, BeginMove DEF TypeOK

\* Process p goes on with the row and the message it has.
LEMMA CarryMove ==
    ASSUME TypeOK, NEW p \in Procs,
           proc'[p].pc \in PastReservation \ {"mark"}, Carries(p),
           proc'[p].pc = "consume" => DueTask(p) \/ Deliver(proc[p].message),
           proc'[p].pc \in {"enqueue", "queued"} \cup Analysing =>
               \/ proc[p].pc \in {"enqueue", "queued", "consume"} \cup Analysing
               \/ message'[proc[p].message] # "COMPLETED",
           \A m \in Messages : Completes(m)
    PROVE  TaskMove(p)
  <1>1. proc[p].message \in Messages
    BY ServerType DEF Carries, PastReservation, ProcState
  <1>2. DueTask(p)' => DueTask(p) \/ Deliver(proc[p].message)
    BY <1>1 DEF DueTask, Completes, Carries
  <1>3. DecidedAt(p)'
    BY DEF DecidedAt, PastReservation
  <1> QED
    BY <1>2, <1>3 DEF TaskMove, PastReservation

LEMMA GotoCarries ==
    ASSUME TypeOK, NEW p \in Procs, NEW pc, Goto(p, pc), proc[p].pc \in ServerPcs
    PROVE  /\ proc'[p].pc = pc
           /\ proc'[p].key = proc[p].key /\ proc'[p].message = proc[p].message
           /\ \A q \in Procs \ {p} : proc'[q] = proc[q]
  <1>1. proc[p] \in ProcState(ServerPcs, Keys, {None})
    BY ServerType
  <1>2. proc'[p] = [proc[p] EXCEPT !.pc = pc] /\ \A q \in Procs \ {p} : proc'[q] = proc[q]
    BY DEF Goto, TypeOK
  <1> QED
    BY <1>1, <1>2 DEF ProcState

\* What a process has seen, and whether it insists, go with it into "mark".
LEMMA ChoiceKept ==
    ASSUME NEW p \in Procs, proc[p] \in ProcState(ServerPcs, Keys, {None}),
           DecidedAt(p), proc[p].pc = "reserve", NEW l,
           proc'[p] = [proc[p] EXCEPT !.pc = "mark", !.key = l]
    PROVE  DecidedAt(p)'
  <1>1. /\ proc'[p].seen = proc[p].seen
        /\ proc'[p].force = proc[p].force
    BY DEF ProcState
  <1>2. LeavesAlone(p)' <=> LeavesAlone(p)
    BY <1>1 DEF LeavesAlone
  <1> QED
    BY <1>2 DEF DecidedAt

LEMMA ConsumeMove ==
    ASSUME TypeOK, NEW k \in Keys, Consume(k),
           \/ Deliver(ledger[k].message)
           \/ UNCHANGED delivered /\ \E p \in Procs : DueTask(p) /\ proc[p].key = k
    PROVE  LedgerMove
  BY DEF Consume, LedgerMove, Bill

LEMMA ReleaseMove ==
    ASSUME NEW k \in Keys, Release(k)
    PROVE  LedgerMove
  BY DEF Release, LedgerMove, Frees

LEMMA ReserveMove ==
    ASSUME TypeOK, NEW m \in Messages, NEW k \in Keys, NEW l \in Keys, ReserveQuota(m, k, l),
           ledger[k].status = "NONE",
           \/ k \in {"run"} \X Runs
           \/ \E p \in Procs : proc[p].pc = "reserve" /\ k = proc[p].key /\ m = proc[p].message
    PROVE  LedgerMove /\ ledger'[l].message = m
  BY DEF ReserveQuota, Reserved, LedgerMove, Opens, TypeOK

\* Runs that change their state but were there before.
LEMMA OldRuns ==
    ASSUME \A s \in Runs : run'[s] = run[s] \/ run[s].status # "NONE"
    PROVE  \A s \in Runs : RunMove(s)
  BY DEF RunMove

LEMMA EndOld ==
    ASSUME TypeOK, NEW r \in Runs, NEW s, EndRun(r, s), run[r].status \in Active
    PROVE  \A x \in Runs : RunMove(x)
  BY DEF TypeOK, EndRun, RunMove, Active

LEMMA InsertMove ==
    ASSUME TypeOK, NEW r \in Runs, NEW m \in Messages, NEW k \in Keys, NEW mode,
           InsertRun(r, m, k, mode), ledger'[k].message = m
    PROVE  \A x \in Runs : RunMove(x)
  BY DEF TypeOK, InsertRun, RunMove, NoRun

-----------------------------------------------------------------------------
(* Every action keeps the account.                                           *)

\* The row a run bears is the row of its message.
LEMMA RunRowNamed ==
    ASSUME TypeOK, Named, NEW r \in Runs, run[r].status \in Active
    PROVE  /\ run[r].key \in Keys /\ run[r].message \in Messages
           /\ ledger[run[r].key].message = run[r].message
  BY ActiveType DEF Named, RunsNamed, RunRow, Active

LEMMA ArriveAccount ==
    ASSUME TypeOK, Decided, NEW p \in Procs, Arrive(p)
    PROVE  Account
  <1>1. UNCHANGED <<ledger, run, delivered>>
    BY DEF Arrive, Ingest, RequestAnalysis
  <1>2. ASSUME NEW m \in Messages, Ingest(m, p)
        PROVE  /\ \A x \in Messages : Completes(x)
               /\ TaskMove(p) /\ \A q \in Procs \ {p} : proc'[q] = proc[q]
    <2>1. /\ WriteMessage(m, {p}, "NOT_REQUESTED")
          /\ proc'[p] = [Scheduling(m, <<"auto", m>>, "NOT_REQUESTED", FALSE)
                            EXCEPT !.pc = "ingested"]
          /\ \A q \in Procs \ {p} : proc'[q] = proc[q]
      BY <1>2 DEF Ingest, TypeOK
    <2>2. /\ proc'[p].pc = "ingested" /\ proc'[p].key = <<"auto", m>>
          /\ proc'[p].message = m /\ proc'[p].seen = "NOT_REQUESTED"
      BY <2>1 DEF Scheduling, Idle
    <2>3. KeyFor(proc[p].key, m)'
      BY <2>2 DEF KeyFor
    <2>4. TaskMove(p)
      BY <2>2, <2>3, BeginMove
    <2> QED
      BY <2>1, <2>4, WriteCompletes
  <1>3. ASSUME NEW m \in Messages, NEW q \in Requests, RequestAnalysis(q, m, p)
        PROVE  /\ \A x \in Messages : Completes(x)
               /\ TaskMove(p) /\ \A o \in Procs \ {p} : proc'[o] = proc[o]
    <2>1. KeyFor(<<"manual", <<m, q>>>>, m)'
      BY DEF KeyFor
    <2>2. message[m] # "RUNNING" /\ UNCHANGED message
          /\ proc' = [proc EXCEPT ![p] =
                        Scheduling(m, <<"manual", <<m, q>>>>, message[m], TRUE)]
      BY <1>3 DEF RequestAnalysis
    <2> QED
      BY <2>1, <2>2, QuietCompletes, SchedulingMove
  <1>4. /\ \A x \in Messages : Completes(x)
        /\ TaskMove(p) /\ \A q \in Procs \ {p} : proc'[q] = proc[q]
    BY <1>2, <1>3 DEF Arrive
  <1> QED
    BY <1>1, <1>4, StillMove, OldRuns DEF Account, LedgerMove, DeliveryMove

\* A step of a device that leaves the ledger and the messages alone.
LEMMA QuietDevice ==
    ASSUME TypeOK, Decided, UNCHANGED <<message, ledger, delivered>>,
           \A p \in Procs : proc'[p] = proc[p] \/ proc'[p].pc \notin ServerPcs,
           \A s \in Runs : RunMove(s)
    PROVE  Account
  BY QuietCompletes, StillMove, AwayMove DEF Account, LedgerMove, DeliveryMove

LEMMA DeviceAccount ==
    ASSUME TypeOK, Bindings, Named, Decided, NEW r \in Runs, DeviceStep(r)
    PROVE  Account
  <1>1. ASSUME NEW m \in Messages, Claim(m, r) PROVE Account
    <2>1. PICK l \in Keys : /\ ReserveQuota(m, <<"run", r>>, l)
                            /\ InsertRun(r, m, l, "PRIMARY")
      BY <1>1 DEF Claim
    <2>2. <<"run", r>> \in Keys /\ ledger[<<"run", r>>].status = "NONE"
      BY <1>1, FreeRunHasNone, KeyType DEF Claim, Bindings, UnbornUnbilled
    <2>3. LedgerMove /\ ledger'[l].message = m
      BY <2>1, <2>2, ReserveMove
    <2>4. \A x \in Messages : Completes(x)
      BY <1>1, WriteCompletes DEF Claim
    <2>5. UNCHANGED <<proc, delivered>>
      BY <1>1 DEF Claim
    <2> QED
      BY <2>1, <2>3, <2>4, <2>5, InsertMove, StillMove DEF Account, DeliveryMove
  <1>2. ASSUME NEW m \in Messages, ClaimShadow(m, r) PROVE Account
    <2>1. PICK k \in Keys : /\ ledger[k] = [status |-> "CONSUMED", message |-> m]
                            /\ InsertRun(r, m, k, "SHADOW")
      BY <1>2 DEF ClaimShadow
    <2>2. UNCHANGED <<message, ledger, proc, delivered>>
      BY <1>2 DEF ClaimShadow
    <2>3. ledger'[k].message = m
      BY <2>1, <2>2
    <2> QED
      BY <2>1, <2>2, <2>3, InsertMove, QuietDevice
  <1>3. ASSUME LeaseElapses(r) \/ \E e \in 1 .. MaxLock : Heartbeat(r, e)
        PROVE  Account
    <2>1. /\ UNCHANGED <<message, ledger, proc, delivered>>
          /\ \A s \in Runs : run'[s] = run[s] \/ run[s].status # "NONE"
      BY <1>3 DEF LeaseElapses, Heartbeat, HasLease, Active, TypeOK
    <2> QED
      BY <2>1, OldRuns, QuietDevice
  <1>4. ASSUME NEW e \in 1 .. MaxLock, CompletePrimary(r, e) PROVE Account
    <2> DEFINE m == run[r].message
               k == run[r].key
    <2>1. run[r].status \in Active
      BY <1>4 DEF CompletePrimary, MayComplete, HasLease
    <2>2. /\ Consume(k) /\ EndRun(r, "COMPLETED") /\ WriteMessage(m, {}, "COMPLETED")
          /\ Deliver(m) /\ UNCHANGED proc
      BY <1>4 DEF CompletePrimary
    <2>3. k \in Keys /\ m \in Messages /\ ledger[k].message = m
      BY <2>1, RunRowNamed
    <2>4. LedgerMove
      BY <2>2, <2>3, ConsumeMove
    <2>5. \A x \in Messages : Completes(x)
      BY <2>2, <2>3, WriteCompletes
    <2>6. DeliveryMove
      BY <2>2, <2>3 DEF DeliveryMove
    <2> QED
      BY <2>1, <2>2, <2>4, <2>5, <2>6, EndOld, StillMove DEF Account
  <1>5. ASSUME \/ \E e \in 1 .. MaxLock : CompleteShadow(r, e) \/ FailShadow(r, e)
               \/ ExpireShadow(r)
        PROVE  Account
    <2>1. /\ UNCHANGED <<message, ledger, proc, delivered>>
          /\ run[r].status \in Active /\ \E s \in Terminal : EndRun(r, s)
      BY <1>5 DEF CompleteShadow, FailShadow, ExpireShadow, MayComplete, HasLease, Lapsed,
                  Terminal
    <2> QED
      BY <2>1, EndOld, QuietDevice
  \* A primary run gives its reservation back and m goes to status s.
  <1>6. ASSUME NEW p \in Procs, NEW s, s \in {"FAILED", "QUEUED"}, NEW t,
               run[r].status \in Active, Release(run[r].key), EndRun(r, t),
               WriteMessage(run[r].message, {p}, s), UNCHANGED delivered
        PROVE  /\ LedgerMove /\ DeliveryMove
               /\ \A m \in Messages : Completes(m)
               /\ \A x \in Runs : RunMove(x)
    <2>1. run[r].key \in Keys /\ run[r].message \in Messages
      BY <1>6, RunRowNamed
    <2> QED
      BY <1>6, <2>1, ReleaseMove, WriteCompletes, EndOld DEF DeliveryMove
  <1>7. ASSUME NEW s, s \in {"FAILED", "QUEUED"}, NEW t \in Terminal, NEW p \in Procs,
               run[r].status \in Active, EndRun(r, t),
               \A m \in Messages : Completes(m),
               proc' = [proc EXCEPT ![p] =
                          Scheduling(run[r].message, <<"fallback", r>>, s, TRUE)]
        PROVE  \A q \in Procs : TaskMove(q)
    <2>1. PICK m \in Messages : run[r].message = m
      BY <1>7, RunRowNamed
    <2>2. run'[r].message = m /\ run'[r].status # "NONE"
      BY <1>7, <2>1 DEF EndRun, TypeOK, Terminal, RunRows, RunRow, NoRun
    <2>3. KeyFor(<<"fallback", r>>, m)'
      BY <2>2 DEF KeyFor
    <2>4. proc' = [proc EXCEPT ![p] = Scheduling(m, <<"fallback", r>>, s, TRUE)]
      BY <1>7, <2>1
    <2>5. TaskMove(p) /\ \A q \in Procs \ {p} : proc'[q] = proc[q]
      BY <1>7, <2>3, <2>4, SchedulingMove
    <2> QED
      BY <1>7, <2>5, StillMove
  <1>8. ASSUME NEW e \in 1 .. MaxLock, NEW p \in Procs, FailPrimary(r, e, p)
        PROVE  Account
    <2>1. /\ run[r].status \in Active /\ Release(run[r].key) /\ EndRun(r, "FAILED")
          /\ WriteMessage(run[r].message, {p}, "FAILED") /\ UNCHANGED delivered
          /\ proc' = [proc EXCEPT ![p] =
                         Scheduling(run[r].message, <<"fallback", r>>, "FAILED", TRUE)]
      BY <1>8 DEF FailPrimary, HasLease
    <2> QED
      BY <1>6, <1>7, <2>1 DEF Account, Terminal
  <1>9. ASSUME NEW p \in Procs, ExpireRow(r, p)
        PROVE  /\ run[r].status \in Active /\ Release(run[r].key) /\ EndRun(r, "EXPIRED")
               /\ WriteMessage(run[r].message, {p}, "QUEUED") /\ UNCHANGED delivered
    BY <1>9 DEF ExpireRow, Lapsed
  <1>10. ASSUME NEW p \in Procs, ExpirePrimary(r, p) PROVE Account
    BY <1>6, <1>7, <1>9, <1>10 DEF ExpirePrimary, Account, Terminal
  <1>11. ASSUME NEW p \in Procs, BeginInspection(r, p) PROVE Account
    <2>1. /\ UNCHANGED <<message, ledger, run, delivered>>
          /\ \A q \in Procs : proc'[q] = proc[q] \/ proc'[q].pc \notin ServerPcs
      BY <1>11 DEF BeginInspection, Idle, ServerPcs, TypeOK
    <2> QED
      BY <2>1, OldRuns, QuietDevice
  <1>12. ASSUME NEW n \in Runs, NEW p \in Procs, NEW m, NEW s, NEW pc \in {"claim", "keep"},
                proc' = [proc EXCEPT ![p] = Claiming(pc, m, n, s)]
         PROVE  \A q \in Procs : proc'[q] = proc[q] \/ proc'[q].pc \notin ServerPcs
    BY <1>12 DEF Claiming, Idle, ServerPcs, TypeOK
  <1>13. ASSUME NEW n \in Runs, NEW p \in Procs, ClaimOverPrimary(r, n, p) PROVE Account
    <2>1. \A q \in Procs : proc'[q] = proc[q] \/ proc'[q].pc \notin ServerPcs
      BY <1>12, <1>13 DEF ClaimOverPrimary
    <2> QED
      BY <1>6, <1>9, <1>13, <2>1, StillMove, AwayMove DEF ClaimOverPrimary, Account
  <1>14. ASSUME NEW n \in Runs, NEW p \in Procs, ClaimOverShadow(r, n, p) PROVE Account
    <2>1. \A q \in Procs : proc'[q] = proc[q] \/ proc'[q].pc \notin ServerPcs
      BY <1>12, <1>14 DEF ClaimOverShadow
    <2>2. /\ UNCHANGED <<message, ledger, delivered>>
          /\ run[r].status \in Active /\ EndRun(r, "EXPIRED")
      BY <1>14 DEF ClaimOverShadow, Lapsed
    <2> QED
      BY <2>1, <2>2, EndOld, QuietDevice
  <1> QED
    BY <1>1, <1>2, <1>3, <1>4, <1>5, <1>8, <1>10, <1>11, <1>13, <1>14 DEF DeviceStep

\* A step of process p that leaves the ledger, the runs and the history alone.
LEMMA QuietAdvance ==
    ASSUME TypeOK, Decided, UNCHANGED <<ledger, run, delivered>>,
           \A m \in Messages : Completes(m),
           NEW p \in Procs, TaskMove(p), \A q \in Procs \ {p} : proc'[q] = proc[q]
    PROVE  Account
  BY StillMove, OldRuns DEF Account, LedgerMove, DeliveryMove

LEMMA AdvanceAccount ==
    ASSUME "stall" \notin Faults, TypeOK, Bindings, Named, Decided, NEW p \in Procs,
           Advance(p) \/ ServerAttach(p) \/ Fault(p)
    PROVE  Account
  <1> DEFINE m == proc[p].message
             k == proc[p].key
  <1>s. ASSUME proc[p].pc \in ServerPcs
        PROVE  m \in Messages /\ k \in Keys
    BY <1>s, ServerType DEF ProcState
  <1>1. ASSUME RefuseClaim(p) \/ AnswerSettled(p) \/ MarkConflict(p) \/ QuotaUnmarked(p)
                 \/ ServerDefers(p) \/ Crash(p) \/ RefuseInspection(p)
        PROVE  Account
    <2>1. Finish(p) /\ UNCHANGED <<message, ledger, run, delivered>>
      BY <1>1 DEF RefuseClaim, AnswerSettled, MarkConflict, QuotaUnmarked, ServerDefers,
                  Crash, RefuseInspection, Leave
    <2> QED
      BY <2>1, FinishMove, QuietCompletes, QuietAdvance
  <1>2. ASSUME MarkQuotaExceeded(p) PROVE Account
    <2>1. /\ Finish(p) /\ UNCHANGED <<ledger, run, delivered>>
          /\ WriteMessage(m, {}, "QUOTA_EXCEEDED") /\ m \in Messages
      BY <1>2, <1>s DEF MarkQuotaExceeded, ServerPcs
    <2> QED
      BY <2>1, FinishMove, WriteCompletes, QuietAdvance
  <1>3. ASSUME FinishClaim(p) PROVE Account
    <2> DEFINE n == proc[p].run
    <2>1. proc[p].pc \in {"claim", "keep"} /\ m \in Messages /\ n \in Runs
      BY <1>3, HandlerType DEF FinishClaim, DevicePcs, ProcState
    <2>2. <<"run", n>> \in Keys /\ ledger[<<"run", n>>].status = "NONE"
      BY <2>1, KeyType DEF Bindings, ClaimIsFresh, UnbornUnbilled
    <2>3. PICK l \in Keys : /\ ReserveQuota(m, <<"run", n>>, l)
                            /\ InsertRun(n, m, l, "PRIMARY")
      BY <1>3 DEF FinishClaim
    <2>4. LedgerMove /\ ledger'[l].message = m
      BY <2>1, <2>2, <2>3, ReserveMove
    <2>5. \A x \in Runs : RunMove(x)
      BY <2>1, <2>3, <2>4, InsertMove
    <2>6. WriteMessage(m, {n}, "RUNNING") /\ Finish(p) /\ UNCHANGED delivered
      BY <1>3 DEF FinishClaim
    <2>7. \A x \in Messages : Completes(x)
      BY <2>1, <2>6, WriteCompletes
    <2> QED
      BY <2>4, <2>5, <2>6, <2>7, FinishMove, StillMove DEF Account, DeliveryMove
  <1>4. ASSUME FinishInspection(p) PROVE Account
    <2>1. Finish(p) /\ UNCHANGED <<message, ledger, delivered>>
      BY <1>4 DEF FinishInspection
    <2>2. \A s \in Runs : run'[s] = run[s] \/ run[s].status # "NONE"
      BY <1>4, HandlerType DEF FinishInspection, DevicePcs, ProcState, Bindings,
                               InspectionHasRun, TypeOK
    <2> QED
      BY <2>1, <2>2, FinishMove, QuietCompletes, StillMove, OldRuns
      DEF Account, LedgerMove, DeliveryMove
  <1>5. ASSUME ReserveAgain(p) PROVE Account
    <2>1. /\ proc[p].pc = "reserve" /\ ledger[k].status = "RESERVED" /\ Goto(p, "mark")
          /\ UNCHANGED <<message, ledger, run, delivered>>
      BY <1>5 DEF ReserveAgain
    <2>2. m \in Messages /\ k \in Keys /\ proc[p].pc \in ServerPcs
      BY <2>1, <1>s DEF ServerPcs
    <2>3. ledger[k].message = m
      BY <2>1, <2>2 DEF Named, RowsNamed, SchedulersNamed
    <2>4. proc'[p].pc = "mark" /\ proc'[p].key = k /\ proc'[p].message = m
      BY <2>1, <2>2, GotoCarries
    <2>7. proc[p] \in ProcState(ServerPcs, Keys, {None})
      BY <2>2, ServerType
    <2>8. proc'[p] = [proc[p] EXCEPT !.pc = "mark", !.key = k]
      BY <2>1, <2>7 DEF Goto, ProcState, TypeOK
    <2>5. DecidedAt(p)'
      BY <2>1, <2>7, <2>8, ChoiceKept DEF Decided
    <2>6. TaskMove(p)
      BY <2>1, <2>3, <2>4, <2>5 DEF TaskMove, DueTask, Analysing
    <2> QED
      BY <2>1, <2>6, QuietCompletes, QuietAdvance DEF Goto, TypeOK
  <1>6. ASSUME ReserveNew(p) PROVE Account
    <2>1. /\ proc[p].pc = "reserve" /\ ledger[k].status = "NONE"
          /\ UNCHANGED <<message, run, delivered>>
      BY <1>6 DEF ReserveNew
    <2>2. /\ proc[p] \in ProcState(ServerPcs, Keys, {None})
          /\ m \in Messages /\ k \in Keys
      BY <2>1, <1>s, ServerType DEF ServerPcs
    <2>3. PICK l \in Keys :
              /\ ReserveQuota(m, k, l)
              /\ proc' = [proc EXCEPT ![p] = [proc[p] EXCEPT !.pc = "mark", !.key = l]]
      BY <1>6 DEF ReserveNew, TypeOK
    <2>4. LedgerMove /\ ledger'[l].message = m
      BY <2>1, <2>2, <2>3, ReserveMove
    <2>5. /\ proc'[p].pc = "mark" /\ proc'[p].key = l /\ proc'[p].message = m
          /\ proc'[p] = [proc[p] EXCEPT !.pc = "mark", !.key = l]
      BY <2>2, <2>3 DEF ProcState, TypeOK
    <2>6. DecidedAt(p)'
      BY <2>1, <2>2, <2>5, ChoiceKept DEF Decided
    <2>7. TaskMove(p)
      BY <2>4, <2>5, <2>6 DEF TaskMove, DueTask, Analysing
    <2>8. \A q \in Procs \ {p} : proc'[q] = proc[q]
      BY <2>3 DEF TypeOK
    <2> QED
      BY <2>1, <2>4, <2>7, <2>8, QuietCompletes, StillMove, OldRuns
      DEF Account, DeliveryMove
  <1>7. ASSUME OverQuota(p) PROVE Account
    <2>1. Goto(p, "quota") /\ UNCHANGED <<message, ledger, run, delivered>>
      BY <1>7 DEF OverQuota
    <2>2. proc[p].pc \in ServerPcs
      BY <1>7 DEF OverQuota, ServerPcs
    <2>3. proc'[p].pc = "quota" /\ \A q \in Procs \ {p} : proc'[q] = proc[q]
      BY <2>1, <2>2, GotoCarries
    <2>4. TaskMove(p)
      BY <2>3 DEF TaskMove, DecidedAt, DueTask, Analysing, PastReservation
    <2> QED
      BY <2>1, <2>3, <2>4, QuietCompletes, QuietAdvance
  \* A task that goes on to counter pc.
  <1>8. ASSUME NEW pc \in PastReservation \ {"mark"}, Goto(p, pc),
               proc[p].pc \in PastReservation,
               \A x \in Messages : Completes(x),
               pc = "consume" => DueTask(p) \/ Deliver(m),
               pc \in {"enqueue", "queued"} \cup Analysing =>
                   \/ proc[p].pc \in {"enqueue", "queued", "consume"} \cup Analysing
                   \/ message'[m] # "COMPLETED"
        PROVE  TaskMove(p) /\ \A q \in Procs \ {p} : proc'[q] = proc[q]
    <2>1. Carries(p) /\ proc'[p].pc = pc
      BY <1>8, GotoCarries DEF Carries, PastReservation
    <2>2. \A q \in Procs \ {p} : proc'[q] = proc[q]
      BY <1>8 DEF Goto, TypeOK
    <2> QED
      BY <1>8, <2>1, <2>2, CarryMove
  <1>9. ASSUME MarkQueued(p) PROVE Account
    <2>1. /\ proc[p].pc = "mark" /\ Goto(p, "enqueue")
          /\ WriteMessage(m, {p}, "QUEUED") /\ UNCHANGED <<ledger, run, delivered>>
      BY <1>9 DEF MarkQueued, Decided, DecidedAt
    <2>2. m \in Messages
      BY <2>1, <1>s DEF ServerPcs
    <2>3. message'[m] # "COMPLETED" /\ \A x \in Messages : Completes(x)
      BY <2>1, <2>2, WriteCompletes DEF WriteMessage, TypeOK
    <2> QED
      BY <2>1, <2>3, <1>8, QuietAdvance DEF Analysing, PastReservation, ServerPcs
  <1>10. ASSUME Enqueue(p) PROVE Account
    <2>1. /\ proc[p].pc = "enqueue" /\ proc' = [proc EXCEPT ![p] = Queued(m, k, 0)]
          /\ UNCHANGED <<message, ledger, run, delivered>>
      BY <1>10 DEF Enqueue
    <2>2. /\ proc'[p].pc = "queued" /\ proc'[p].key = k /\ proc'[p].message = m
          /\ \A q \in Procs \ {p} : proc'[q] = proc[q]
      BY <2>1 DEF Queued, Idle, TypeOK
    <2>3. \A x \in Messages : Completes(x)
      BY <2>1, QuietCompletes
    <2>4. TaskMove(p)
      BY <2>1, <2>2, <2>3, CarryMove DEF Carries, PastReservation, ServerPcs
    <2> QED
      BY <2>1, <2>2, <2>3, <2>4, QuietAdvance
  <1>11. ASSUME EnqueueFails(p) \/ ServerDisabled(p) PROVE Account
    <2>1. /\ proc[p].pc \in {"enqueue", "queued"} /\ Goto(p, "failmark")
          /\ UNCHANGED <<message, ledger, run, delivered>>
      BY <1>11 DEF EnqueueFails, ServerDisabled
    <2> QED
      BY <2>1, <1>8, QuietCompletes, QuietAdvance DEF Analysing, PastReservation, ServerPcs
  <1>12. ASSUME FailMessage(p), m \in Messages PROVE \A x \in Messages : Completes(x)
    BY <1>12, WriteCompletes, QuietCompletes DEF FailMessage
  <1>13. ASSUME FailMark(p) PROVE Account
    <2>1. /\ proc[p].pc = "failmark" /\ Goto(p, "release") /\ FailMessage(p)
          /\ UNCHANGED <<ledger, run, delivered>>
      BY <1>13 DEF FailMark
    <2>2. m \in Messages
      BY <2>1, <1>s DEF ServerPcs
    <2> QED
      BY <2>1, <2>2, <1>8, <1>12, QuietAdvance DEF Analysing, PastReservation, ServerPcs
  <1>14. ASSUME ReadForRelease(p) PROVE Account
    <2>1. /\ proc[p].pc = "release" /\ UNCHANGED <<message, ledger, run, delivered>>
          /\ proc' = [proc EXCEPT ![p] =
                         [proc[p] EXCEPT !.pc = "releasing", !.seen = ledger[k].status]]
      BY <1>14 DEF ReadForRelease, TypeOK
    <2>2. proc[p] \in ProcState(ServerPcs, Keys, {None})
      BY <2>1, ServerType DEF ServerPcs
    <2>3. /\ proc'[p].pc = "releasing" /\ proc'[p].key = k /\ proc'[p].message = m
          /\ \A q \in Procs \ {p} : proc'[q] = proc[q]
      BY <2>1, <2>2 DEF ProcState, TypeOK
    <2>4. TaskMove(p)
      BY <2>1, <2>3, CarryMove, QuietCompletes
      DEF Carries, Analysing, PastReservation, ServerPcs
    <2> QED
      BY <2>1, <2>3, <2>4, QuietCompletes, QuietAdvance
  <1>15. ASSUME ReleaseUsage(p) PROVE Account
    <2>1. k \in Keys /\ ledger[k].status # "NONE"
      BY <1>15, <1>s DEF ReleaseUsage, ServerPcs, Bindings, TaskHasUsage
    <2>2. /\ \/ UNCHANGED ledger
             \/ ledger' = [ledger EXCEPT ![k].status = "RELEASED"]
          /\ Finish(p) /\ UNCHANGED <<message, run, delivered>>
      BY <1>15 DEF ReleaseUsage, Leave
    <2>3. LedgerMove
      BY <2>1, <2>2 DEF LedgerMove, Frees
    <2> QED
      BY <2>2, <2>3, FinishMove, QuietCompletes, StillMove, OldRuns DEF Account, DeliveryMove
  <1>16. ASSUME ServerClaim(p) PROVE Account
    <2>1. /\ proc[p].pc = "queued" /\ Goto(p, "analysing")
          /\ WriteMessage(m, {p}, "RUNNING") /\ UNCHANGED <<ledger, run, delivered>>
      BY <1>16 DEF ServerClaim
    <2>2. \A x \in Messages : Completes(x)
      BY <2>1, <1>s, WriteCompletes DEF ServerPcs
    <2> QED
      BY <2>1, <2>2, <1>8, QuietAdvance DEF PastReservation, ServerPcs
  <1>17. ASSUME ServerAttach(p) PROVE Account
    <2>1. /\ WriteMessage(m, {p}, message[m]) /\ m \in Messages
          /\ proc[p].pc \in Analysing /\ UNCHANGED <<ledger, run, delivered>>
          /\ UNCHANGED proc \/ Goto(p, "attached")
      BY <1>17, <1>s DEF ServerAttach, Analysing, ServerPcs
    <2>2. \A x \in Messages : Completes(x)
      BY <2>1, WriteCompletes
    <2>3. CASE UNCHANGED proc
      BY <2>1, <2>2, <2>3, StillMove, OldRuns DEF Account, LedgerMove, DeliveryMove
    <2>4. CASE Goto(p, "attached")
      BY <2>1, <2>2, <2>4, <1>8, QuietAdvance DEF Analysing, PastReservation, ServerPcs
    <2> QED
      BY <2>1, <2>3, <2>4
  <1>18. ASSUME ServerComplete(p) PROVE Account
    <2>1. /\ proc[p].pc \in Analysing /\ Goto(p, "consume") /\ Deliver(m)
          /\ WriteMessage(m, {}, "COMPLETED") /\ UNCHANGED <<ledger, run>>
      BY <1>18 DEF ServerComplete
    <2>2. m \in Messages /\ \A x \in Messages : Completes(x)
      BY <2>1, <1>s, WriteCompletes DEF Analysing, ServerPcs
    <2>3. TaskMove(p) /\ \A q \in Procs \ {p} : proc'[q] = proc[q]
      BY <2>1, <2>2, <1>8 DEF Analysing, PastReservation, ServerPcs
    <2> QED
      BY <2>1, <2>2, <2>3, StillMove, OldRuns DEF Account, LedgerMove, DeliveryMove
  <1>19. /\ Retried(p).pc \in {"queued", "release"}
         /\ Retried(p).key = k /\ Retried(p).message = m
    BY DEF Retried, Queued, Idle
  <1>20. ASSUME ServerFails(p) \/ ConsumeFails(p) \/ RefreshFails(p) PROVE Account
    <2>1. /\ proc[p].pc \in {"queued", "consume"} \cup Analysing
          /\ proc' = [proc EXCEPT ![p] = Retried(p)]
          /\ UNCHANGED <<ledger, run, delivered>>
          /\ FailMessage(p) \/ UNCHANGED message
      BY <1>20 DEF ServerFails, ConsumeFails, RefreshFails, FindsResult, Analysing
    <2>2. \A x \in Messages : Completes(x)
      BY <2>1, <1>s, <1>12, QuietCompletes DEF Analysing, ServerPcs
    <2>3. /\ proc'[p] = Retried(p)
          /\ \A q \in Procs \ {p} : proc'[q] = proc[q]
      BY <2>1 DEF TypeOK
    <2>4. TaskMove(p)
      BY <2>1, <2>2, <2>3, <1>19, CarryMove
      DEF Carries, Analysing, PastReservation, ServerPcs
    <2> QED
      BY <2>1, <2>2, <2>3, <2>4, QuietAdvance
  <1>21. ASSUME ConsumeUsage(p) \/ ServerFindsResult(p) PROVE Account
    <2>1. /\ proc[p].pc \in {"queued", "consume"} /\ Consume(k) /\ Finish(p)
          /\ DueTask(p) /\ UNCHANGED <<message, run, delivered>>
      BY <1>21 DEF ConsumeUsage, ServerFindsResult, FindsResult, DueTask, Leave
    <2>2. k \in Keys
      BY <2>1, <1>s DEF ServerPcs
    <2>3. LedgerMove
      BY <2>1, <2>2, ConsumeMove
    <2> QED
      BY <2>1, <2>3, FinishMove, QuietCompletes, StillMove, OldRuns DEF Account, DeliveryMove
  <1>22. ASSUME MarkProcessed(p) PROVE Account
    <2>1. proc[p] \in ProcState(ServerPcs, Keys, {None}) /\ m \in Messages
      BY <1>22, <1>s, ServerType DEF MarkProcessed, ServerPcs
    <2>2. proc[p].pc = "ingested" /\ UNCHANGED <<ledger, run, delivered>>
      BY <1>22 DEF MarkProcessed
    <2>3. CASE Leave(p)
      BY <2>2, <2>3, FinishMove, QuietCompletes, QuietAdvance DEF Leave
    <2>4. CASE WriteMessage(m, {p}, message[m]) /\ Goto(p, "reserve")
      <3>1. \A x \in Messages : Completes(x)
        BY <2>1, <2>4, WriteCompletes
      <3>2. /\ proc'[p] = [proc[p] EXCEPT !.pc = "reserve"]
            /\ \A q \in Procs \ {p} : proc'[q] = proc[q]
        BY <2>4 DEF Goto, TypeOK
      <3>3. /\ proc'[p].pc = "reserve" /\ proc'[p].key = k /\ proc'[p].message = m
            /\ proc'[p].seen = proc[p].seen /\ proc'[p].force = proc[p].force
        BY <2>1, <3>2 DEF ProcState
      <3>4. DecidedAt(p)'
        <4>1. LeavesAlone(p)' <=> LeavesAlone(p)
          BY <3>3 DEF LeavesAlone
        <4> QED
          BY <2>2, <4>1 DEF Decided, DecidedAt
      <3>5. TaskMove(p)
        BY <2>2, <3>3, <3>4 DEF TaskMove, DueTask, Analysing, PastReservation
      <3> QED
        BY <2>2, <3>1, <3>2, <3>5, QuietAdvance
    <2> QED
      BY <1>22, <2>3, <2>4 DEF MarkProcessed
  <1>23. ~RefreshesLate(p)
    BY DEF RefreshesLate
  <1> QED
    BY <1>1, <1>2, <1>3, <1>4, <1>5, <1>6, <1>7, <1>9, <1>10, <1>11, <1>13, <1>14, <1>15,
       <1>16, <1>17, <1>18, <1>20, <1>21, <1>22, <1>23
    DEF Advance, Fault

LEMMA NextAccount ==
    ASSUME "stall" \notin Faults, TypeOK, Bindings, Named, Decided, Next
    PROVE  Account
  BY NextSplit, DeviceAccount, ArriveAccount, AdvanceAccount

-----------------------------------------------------------------------------
(* Names.                                                                    *)

LEMMA KeyForOne ==
    ASSUME NEW k, NEW m \in Messages, NEW n \in Messages, KeyFor(k, m), KeyFor(k, n)
    PROVE  m = n
  BY DEF KeyFor

LEMMA KeyForKinds ==
    ASSUME NEW k, NEW m \in Messages, KeyFor(k, m)
    PROVE  k \notin {"run"} \X Runs
  BY DEF KeyFor

\* A run keeps its message and its row once it exists.
LEMMA RunStays ==
    ASSUME Effects, NEW r \in Runs, run[r].status # "NONE"
    PROVE  /\ run'[r].status # "NONE"
           /\ run'[r].message = run[r].message /\ run'[r].key = run[r].key
  BY DEF Effects, RunStep, RunBorn, RunKept, Active, Terminal

LEMMA KeyForStays ==
    ASSUME Effects, NEW k, NEW m \in Messages, KeyFor(k, m)
    PROVE  KeyFor(k, m)'
  BY RunStays DEF KeyFor

\* A row keeps its message, and is reserved once.
LEMMA RowStays ==
    ASSUME TypeOK, LedgerMove, NEW k \in Keys, ledger[k].status # "NONE"
    PROVE  /\ ledger'[k].message = ledger[k].message
           /\ ledger'[k].status = "RESERVED" => ledger'[k] = ledger[k]
  <1>1. ledger[k] \in LedgerRows
    BY DEF TypeOK, NoLedger
  <1> QED
    BY <1>1 DEF LedgerMove, Bill, Frees, Opens, TypeOK, LedgerRows

\* A row that appears was opened.
LEMMA RowAppears ==
    ASSUME TypeOK, LedgerMove, NEW k \in Keys, ledger[k].status = "NONE",
           ledger'[k].status # "NONE"
    PROVE  \E m \in Messages : Opens(k, m) /\ ledger'[k].message = m
  BY DEF LedgerMove, Bill, Frees, Opens, TypeOK, NoLedger, LedgerRows

LEMMA NextNamed ==
    ASSUME TypeOK, TypeOK', Bindings, Named, Effects, Account
    PROVE  Named'
  <1>1. LedgerMove /\ (\A p \in Procs : TaskMove(p)) /\ \A r \in Runs : RunMove(r)
    BY DEF Account
  <1>2. ASSUME NEW k \in Keys, NEW m \in Messages, Opens(k, m),
               k \notin {"run"} \X Runs
        PROVE  KeyFor(k, m)
    BY <1>2 DEF Opens, Named, SchedulersNamed
  <1>3. FallbackOfRun'
    <2> SUFFICES ASSUME NEW r \in Runs, run'[r].status = "NONE"
                 PROVE  ledger'[<<"fallback", r>>].status = "NONE"
      BY DEF FallbackOfRun
    <2> DEFINE k == <<"fallback", r>>
    <2>1. k \in Keys /\ k \notin {"run"} \X Runs
      BY DEF Keys
    <2>2. run[r].status = "NONE" /\ ledger[k].status = "NONE"
      BY RunStays DEF Named, FallbackOfRun
    <2>3. ASSUME NEW m \in Messages PROVE ~KeyFor(k, m)
      BY <2>2 DEF KeyFor
    <2> QED
      BY <1>1, <1>2, <2>1, <2>2, <2>3, RowAppears
  <1>4. RowsNamed'
    <2> SUFFICES ASSUME NEW k \in Keys, NEW m \in Messages,
                        KeyFor(k, m)', ledger'[k].status # "NONE"
                 PROVE  ledger'[k].message = m
      BY DEF RowsNamed
    <2>1. CASE KeyFor(k, m)
      <3>1. CASE ledger[k].status # "NONE"
        BY <1>1, <2>1, <3>1, RowStays DEF Named, RowsNamed
      <3>2. CASE ledger[k].status = "NONE"
        <4>1. PICK n \in Messages : Opens(k, n) /\ ledger'[k].message = n
          BY <1>1, <3>2, RowAppears
        <4> QED
          BY <1>2, <2>1, <4>1, KeyForOne, KeyForKinds
      <3> QED
        BY <3>1, <3>2
    <2>2. CASE ~KeyFor(k, m)
      <3>1. PICK r \in Runs : /\ k = <<"fallback", r>> /\ run[r].status = "NONE"
                              /\ run'[r].message = m
        BY <2>2, RunStays DEF KeyFor
      <3>2. ledger[k].status = "NONE" /\ k \notin {"run"} \X Runs
        BY <3>1 DEF Named, FallbackOfRun
      <3>3. PICK n \in Messages : Opens(k, n)
        BY <1>1, <3>2, RowAppears
      <3>4. KeyFor(k, n)
        BY <1>2, <3>2, <3>3
      <3> QED
        BY <3>1, <3>4 DEF KeyFor
    <2> QED
      BY <2>1, <2>2
  <1>5. SchedulersNamed'
    <2> SUFFICES ASSUME NEW p \in Procs, proc'[p].pc \in {"ingested", "reserve"}
                 PROVE  KeyFor(proc[p].key, proc[p].message)'
      BY DEF SchedulersNamed
    <2>1. CASE /\ proc[p].pc \in {"ingested", "reserve"}
               /\ proc'[p].key = proc[p].key /\ proc'[p].message = proc[p].message
      <3>1. KeyFor(proc[p].key, proc[p].message)
        BY <2>1 DEF Named, SchedulersNamed
      <3> QED
        BY <2>1, <3>1, RunStays DEF KeyFor
    <2> QED
      BY <1>1, <2>1 DEF TaskMove
  <1>6. TasksNamed'
    <2> SUFFICES ASSUME NEW p \in Procs, proc'[p].pc \in PastReservation
                 PROVE  ledger'[proc'[p].key].message = proc'[p].message
      BY DEF TasksNamed
    <2>1. CASE Carries(p)
      <3>1. proc[p].key \in Keys /\ ledger[proc[p].key].status # "NONE"
        BY <2>1, ServerType DEF Carries, PastReservation, ProcState, Bindings, TaskHasUsage
      <3>2. ledger[proc[p].key].message = proc[p].message
        BY <2>1 DEF Carries, Named, TasksNamed
      <3> QED
        BY <1>1, <2>1, <3>1, <3>2, RowStays DEF Carries
    <2> QED
      BY <1>1, <2>1 DEF TaskMove
  <1>7. RunsNamed'
    <2> SUFFICES ASSUME NEW r \in Runs, run'[r].status # "NONE"
                 PROVE  ledger'[run'[r].key].message = run'[r].message
      BY DEF RunsNamed
    <2>1. CASE run[r].status # "NONE"
      <3>1. run[r].key \in Keys /\ ledger[run[r].key].status # "NONE"
        BY <2>1, RunType DEF RunRows, RunRow, Bindings, RunHasUsage
      <3>2. ledger[run[r].key].message = run[r].message
        BY <2>1 DEF Named, RunsNamed
      <3> QED
        BY <1>1, <2>1, <3>1, <3>2, RowStays, RunStays
    <2> QED
      BY <1>1, <2>1 DEF RunMove
  <1> QED
    BY <1>3, <1>4, <1>5, <1>6, <1>7 DEF Named

-----------------------------------------------------------------------------
(* Counting.                                                                 *)

LEMMA BillsFinite ==
    ASSUME NEW m
    PROVE  /\ IsFiniteSet(Bills(m)) /\ Cardinality(Bills(m)) \in Nat
  BY KeysFinite, FS_Subset, FS_CardinalityType DEF Bills

\* A reservation of m leaves room for one more bill of m.
LEMMA Room ==
    ASSUME TypeOK, QuotaRespected, NEW m \in Messages, NEW k \in Keys,
           ledger[k].status = "RESERVED"
    PROVE  Cardinality(Bills(m)) < QuotaLimit
  <1> DEFINE S == Bills(m)
  <1>1. /\ IsFiniteSet(S) /\ Cardinality(S) \in Nat /\ k \notin S
    BY BillsFinite DEF Bills
  <1>2. Cardinality(S \cup {k}) = Cardinality(S) + 1
    BY <1>1, FS_AddElement
  <1>3. S \cup {k} \subseteq AllocatedKeys /\ IsFiniteSet(AllocatedKeys)
    BY KeysFinite, FS_Subset DEF Bills, AllocatedKeys, IsAllocated
  <1>4. Cardinality(S \cup {k}) <= Cardinality(AllocatedKeys)
    BY <1>3, FS_Subset
  <1>5. Allocated = Cardinality(AllocatedKeys) /\ Allocated <= QuotaLimit
    BY DEF Allocated, AllocatedKeys, IsAllocated, QuotaRespected
  <1>6. Cardinality(AllocatedKeys) \in Nat /\ QuotaLimit \in Nat
    BY <1>3, FS_CardinalityType, ConstantsAssumption
  <1> QED
    BY <1>1, <1>2, <1>4, <1>5, <1>6

\* The bills of a message grow only by a bill of that message.
LEMMA BillsStep ==
    ASSUME TypeOK, LedgerMove, NEW m \in Messages
    PROVE  \/ Bills(m)' \subseteq Bills(m)
           \/ \E k \in Keys : /\ Bill(k) /\ ledger[k].message = m
                              /\ Bills(m)' = Bills(m) \cup {k}
  <1>1. CASE UNCHANGED ledger
    BY <1>1 DEF Bills
  <1>2. ASSUME NEW k \in Keys, Frees(k) PROVE Bills(m)' \subseteq Bills(m)
    BY <1>2 DEF Frees, Bills, TypeOK, LedgerRows, NoLedger
  <1>3. ASSUME NEW k \in Keys, NEW n \in Messages, Opens(k, n)
        PROVE  Bills(m)' \subseteq Bills(m)
    BY <1>3 DEF Opens, Bills, TypeOK
  <1>4. ASSUME NEW k \in Keys, Bill(k)
        PROVE  \/ Bills(m)' \subseteq Bills(m)
               \/ ledger[k].message = m /\ Bills(m)' = Bills(m) \cup {k}
    <2>1. ledger[k] \in LedgerRows
      BY <1>4 DEF Bill, TypeOK, NoLedger
    <2>2. ledger'[k] = [status |-> "CONSUMED", message |-> ledger[k].message]
      BY <1>4, <2>1 DEF Bill, LedgerRows, TypeOK
    <2>3. \A x \in Keys \ {k} : ledger'[x] = ledger[x]
      BY <1>4 DEF Bill, TypeOK
    <2> QED
      BY <2>2, <2>3 DEF Bills
  <1> QED
    BY <1>1, <1>2, <1>3, <1>4 DEF LedgerMove

LEMMA CountShrinks ==
    ASSUME NEW m, Bills(m)' \subseteq Bills(m)
    PROVE  /\ Cardinality(Bills(m))' <= Cardinality(Bills(m))
           /\ Cardinality(Bills(m))' \in Nat /\ Cardinality(Bills(m)) \in Nat
  BY BillsFinite, FS_Subset, FS_CardinalityType

LEMMA DeliveredGrows ==
    ASSUME TypeOK, DeliveryMove, NEW m \in Messages
    PROVE  delivered'[m] \in Nat /\ delivered[m] \in Nat /\ delivered[m] <= delivered'[m]
  BY DeliverOnly DEF DeliveryMove, TypeOK

LEMMA NextCharged ==
    ASSUME TypeOK, QuotaRespected, Named, Earned, ChargedOnlyForDelivered, Account
    PROVE  ChargedOnlyForDelivered'
  <1> SUFFICES ASSUME NEW m \in Messages PROVE Charged(m)'
    BY DEF ChargedOnlyForDelivered, Charged, Bills
  <1>1. Charged(m)
    BY DEF ChargedOnlyForDelivered, Charged, Bills
  <1>2. CASE Bills(m)' \subseteq Bills(m)
    BY <1>1, <1>2, CountShrinks, DeliveredGrows DEF Charged, Account
  <1>3. ASSUME NEW k \in Keys, Bill(k), ledger[k].message = m,
               Bills(m)' = Bills(m) \cup {k}
        PROVE  Charged(m)'
    <2>1. Cardinality(Bills(m)) < QuotaLimit
      BY <1>3, Room DEF Bill
    <2>2. Cardinality(Bills(m)') <= Cardinality(Bills(m)) + 1
          /\ Cardinality(Bills(m)) \in Nat /\ Cardinality(Bills(m)') \in Nat
      <3>1. k \notin Bills(m) /\ IsFiniteSet(Bills(m)) /\ Cardinality(Bills(m)) \in Nat
        BY <1>3, BillsFinite DEF Bill, Bills
      <3> DEFINE S == Bills(m)
      <3>2. Cardinality(S \cup {k}) = Cardinality(S) + 1
        BY <3>1, FS_AddElement
      <3> HIDE DEF S
      <3> QED
        BY <1>3, <3>1, <3>2 DEF S
    <2>3. CASE Deliver(m)
      BY <1>1, <2>1, <2>2, <2>3, DeliverOnly, ConstantsAssumption DEF Charged, TypeOK
    <2>4. CASE UNCHANGED delivered /\ \E p \in Procs : DueTask(p) /\ proc[p].key = k
      <3>1. PICK p \in Procs : DueTask(p) /\ proc[p].key = k
        BY <2>4
      <3>2. proc[p].message = m
        BY <1>3, <3>1 DEF Named, TasksNamed, DueTask, Analysing, PastReservation, ServerPcs
      <3>3. Owed(m)
        BY <1>3, <3>1, <3>2 DEF Earned, Bill
      <3> QED
        BY <2>2, <2>4, <3>3 DEF Owed, Charged, TypeOK
    <2> QED
      BY <1>3, <2>3, <2>4 DEF Bill
  <1> QED
    BY <1>2, <1>3, BillsStep DEF Account

LEMMA NextEarned ==
    ASSUME TypeOK, Bindings, QuotaRespected, Named, Earned, ChargedOnlyForDelivered, Account
    PROVE  Earned'
  <1> SUFFICES ASSUME NEW p \in Procs, DueTask(p)', ledger'[proc'[p].key].status = "RESERVED"
               PROVE  Owed(proc[p].message)'
    BY DEF Earned
  <1>1. PICK m \in Messages, k \in Keys :
            /\ proc[p].pc \in PastReservation /\ proc[p].key = k /\ proc[p].message = m
            /\ proc'[p].key = k /\ proc'[p].message = m
            /\ DueTask(p) \/ Deliver(m)
    <2>1. Carries(p) /\ (DueTask(p) \/ Deliver(proc[p].message))
      BY DEF Account, TaskMove
    <2>2. proc[p].message \in Messages /\ proc[p].key \in Keys
      BY <2>1, ServerType DEF Carries, PastReservation, ProcState
    <2> QED
      BY <2>1, <2>2 DEF Carries
  <1>2. ledger[k].status = "RESERVED" /\ ledger[k].message = m
    <2>1. ledger[k].status # "NONE" /\ ledger[k].message = m
      BY <1>1 DEF PastReservation, Bindings, TaskHasUsage, Named, TasksNamed
    <2> QED
      BY <1>1, <2>1, RowStays DEF Account
  <1>3. Bills(m)' \subseteq Bills(m)
    <2>1. ASSUME NEW x \in Keys, Bill(x), ledger[x].message = m PROVE FALSE
      <3>1. x = k
        BY <1>2, <2>1 DEF QuotaRespected, Bill
      <3> QED
        BY <1>1, <2>1, <3>1 DEF Bill, TypeOK, LedgerRows, NoLedger
    <2> QED
      BY <2>1, BillsStep DEF Account
  <1>4. /\ Cardinality(Bills(m))' <= Cardinality(Bills(m))
        /\ Cardinality(Bills(m))' \in Nat /\ Cardinality(Bills(m)) \in Nat
        /\ delivered[m] <= delivered'[m] /\ delivered[m] \in Nat /\ delivered'[m] \in Nat
    BY <1>3, CountShrinks, DeliveredGrows DEF Account
  <1>5. CASE DueTask(p)
    <2>1. Owed(m)
      BY <1>1, <1>2, <1>5 DEF Earned
    <2>2. Owed(m)'
      BY <1>4, <2>1 DEF Owed
    <2> QED
      BY <1>1, <2>2 DEF Owed, Bills
  <1>6. CASE Deliver(m)
    <2>1. Cardinality(Bills(m)) < QuotaLimit
      BY <1>2, Room
    <2>2. Cardinality(Bills(m)) <= delivered[m]
      BY DEF ChargedOnlyForDelivered, Bills
    <2>3. Owed(m)'
      BY <1>4, <1>6, <2>1, <2>2, DeliverOnly, ConstantsAssumption DEF Owed
    <2> QED
      BY <1>1, <2>3 DEF Owed, Bills
  <1> QED
    BY <1>1, <1>5, <1>6

LEMMA InitBilling == Init => BillingInv
  <1> SUFFICES ASSUME Init PROVE BillingInv
    OBVIOUS
  <1>1. Named /\ Decided /\ Earned
    BY DEF Init, Named, RowsNamed, SchedulersNamed, TasksNamed, RunsNamed, FallbackOfRun,
           Decided, DecidedAt, Earned, DueTask, Analysing, Idle, NoRun, NoLedger, PastReservation,
           ServerPcs, Keys
  <1>2. ASSUME NEW m \in Messages
        PROVE  Cardinality({k \in Keys : ledger[k] = [status |-> "CONSUMED", message |-> m]})
                  <= delivered[m]
    <2>1. {k \in Keys : ledger[k] = [status |-> "CONSUMED", message |-> m]} = {}
      BY DEF Init, NoLedger
    <2> QED
      BY <2>1, FS_EmptySet DEF Init
  <1> QED
    BY <1>1, <1>2 DEF BillingInv, ChargedOnlyForDelivered

LEMMA NextBilling ==
    ASSUME "stall" \notin Faults
    PROVE  IInv /\ IInv' /\ QuotaRespected /\ BillingInv /\ [Next]_vars => BillingInv'
  <1> SUFFICES ASSUME IInv, IInv', QuotaRespected, BillingInv, [Next]_vars
               PROVE  BillingInv'
    OBVIOUS
  <1>1. CASE Next
    <2>1. Effects /\ Account
      BY <1>1, NextEffects, NextAccount DEF IInv, BillingInv
    <2>2. Decided'
      BY <2>1 DEF Account, TaskMove, Decided
    <2> QED
      BY <2>1, <2>2, NextNamed, NextCharged, NextEarned DEF IInv, BillingInv
  <1>2. CASE UNCHANGED vars
    BY <1>2 DEF vars, BillingInv, Named, RowsNamed, SchedulersNamed, TasksNamed, RunsNamed,
                FallbackOfRun, KeyFor, Decided, DecidedAt, LeavesAlone, Earned, DueTask,
                Owed, Bills, ChargedOnlyForDelivered
  <1> QED
    BY <1>1, <1>2

\* The owner is billed at most once for each analysis delivered, however device
\* runs, queued tasks, retries and repeated requests share reservations, and
\* whatever handlers die in between; provided that a handler loads a row back
\* before others write to it.
THEOREM ChargedForDelivered ==
    ASSUME "stall" \notin Faults
    PROVE  Spec => []ChargedOnlyForDelivered
  <1>1. IInv /\ IInv' /\ QuotaRespected /\ BillingInv /\ [Next]_vars => BillingInv'
    BY NextBilling
  <1>2. BillingInv => ChargedOnlyForDelivered
    BY DEF BillingInv
  <1> QED
    BY <1>1, <1>2, Invariance, QuotaKept, InitBilling, PTL DEF Spec

-----------------------------------------------------------------------------
(* Shadow runs.  A step either leaves messages, ledger and history alone, or  *)
(* the only run it writes is a primary one.                                   *)

Apart ==
    \/ UNCHANGED <<message, ledger, delivered>>
    \/ \E r \in Runs : /\ run'[r].mode = "PRIMARY"
                       /\ \A s \in Runs \ {r} : run'[s] = run[s]

LEMMA InsertApart ==
    ASSUME TypeOK, NEW r \in Runs, NEW m, NEW k, InsertRun(r, m, k, "PRIMARY")
    PROVE  Apart
  BY DEF TypeOK, InsertRun, NoRun, Apart

LEMMA EndApart ==
    ASSUME TypeOK, NEW r \in Runs, NEW s, run[r].status \in Active, run[r].mode = "PRIMARY",
           EndRun(r, s)
    PROVE  Apart
  <1>1. run[r] \in RunRow(Active, 1 .. MaxLock)
    BY ActiveType
  <1>2. run'[r].mode = "PRIMARY" /\ \A x \in Runs \ {r} : run'[x] = run[x]
    BY <1>1 DEF TypeOK, EndRun, RunRow
  <1> QED
    BY <1>2 DEF Apart

LEMMA DeviceApart ==
    ASSUME TypeOK, NEW r \in Runs, DeviceStep(r)
    PROVE  Apart
  <1>1. ASSUME NEW m \in Messages, Claim(m, r) PROVE Apart
    BY <1>1, InsertApart DEF Claim
  <1>2. ASSUME NEW e \in 1 .. MaxLock, CompletePrimary(r, e) PROVE Apart
    BY <1>2, EndApart DEF CompletePrimary, MayComplete, HasLease
  <1>3. ASSUME NEW e \in 1 .. MaxLock, NEW p \in Procs, FailPrimary(r, e, p) PROVE Apart
    BY <1>3, EndApart DEF FailPrimary, HasLease
  <1>4. ASSUME NEW p \in Procs, NEW n \in Runs,
               ExpirePrimary(r, p) \/ ClaimOverPrimary(r, n, p)
        PROVE  Apart
    BY <1>4, EndApart DEF ExpirePrimary, ClaimOverPrimary, ExpireRow, Lapsed
  <1> QED
    BY <1>1, <1>2, <1>3, <1>4
    DEF DeviceStep, ClaimShadow, LeaseElapses, ExpireShadow, Heartbeat, CompleteShadow,
        FailShadow, BeginInspection, ClaimOverShadow, Apart

\* Of what handlers and tasks do, only the claim and the inspection of links
\* write to a run.
LEMMA AdvanceApart ==
    ASSUME TypeOK, NEW p \in Procs, Advance(p) \/ ServerAttach(p) \/ Fault(p)
    PROVE  Apart \/ UNCHANGED run
  <1>1. ASSUME FinishClaim(p) PROVE Apart
    BY <1>1, HandlerType, InsertApart DEF FinishClaim, DevicePcs, ProcState
  <1> QED
    BY <1>1
    DEF Advance, Fault, RefuseClaim, FinishInspection, RefuseInspection, ReserveAgain,
        AnswerSettled, ReserveNew, OverQuota, MarkQuotaExceeded, QuotaUnmarked, MarkQueued,
        MarkConflict, Enqueue, FailMark, ReadForRelease, ReleaseUsage, ServerClaim,
        ServerDefers, ServerFindsResult, ServerComplete, ServerFails, ConsumeUsage,
        EnqueueFails, ConsumeFails, ServerDisabled, Crash, ServerAttach, MarkProcessed,
        RefreshFails, RefreshesLate, Apart

LEMMA ShadowStep ==
    IInv /\ [Next]_vars =>
       [\A r \in Runs : run'[r].mode = "SHADOW" /\ run'[r] # run[r]
          => UNCHANGED <<message, delivered>> /\ ledger' = ledger]_vars
  <1> SUFFICES ASSUME IInv, Next, NEW r \in Runs, run'[r].mode = "SHADOW", run'[r] # run[r]
               PROVE  UNCHANGED <<message, delivered>> /\ ledger' = ledger
    OBVIOUS
  <1>1. Apart \/ UNCHANGED run
    <2>1. ASSUME NEW p \in Procs, Arrive(p) PROVE UNCHANGED run
      BY <2>1 DEF Arrive, Ingest, RequestAnalysis
    <2> QED
      BY <2>1, NextSplit, DeviceApart, AdvanceApart DEF IInv
  <1> QED
    BY <1>1 DEF Apart

\* Nothing a shadow run does, from its claim to its end or expiry, touches a
\* message, a reservation or what was delivered.
THEOREM ShadowObserves == Spec => ShadowOnlyObserves
  BY Invariance, ShadowStep, PTL DEF Spec, ShadowOnlyObserves

=============================================================================
