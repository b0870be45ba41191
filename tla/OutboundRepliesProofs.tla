------------------------ MODULE OutboundRepliesProofs ------------------------
(***************************************************************************)
(* What is proved of OutboundReplies, for any keys, processes and bounds:   *)
(* every reply is sent once at most and recorded only when it was sent, an  *)
(* automatic reply goes out only while the opportunity is held for it, and  *)
(* the whole is what CustomerReplies promises.                              *)
(***************************************************************************)
EXTENDS OutboundReplies, TLAPS

-----------------------------------------------------------------------------
(* The inductive invariant. *)

\* A copy is a committed version, and the current one is the current state.
Copied(x) ==
    /\ x.copy.version <= opp.version
    /\ x.copy.version = opp.version => x.copy = opp

Stale(x) == x.copy.version < opp.version

\* A request that has the delivery of its key.
Holding(x) == x.pc \in {"check", "claim", "send", "accepted", "record", "finalize", "complete"}

ManualOK(x) ==
    /\ x.pc = "reserve" \/ Holding(x) => x.key \in Keys
    /\ Holding(x) => manual[x.key] # "none"
    /\ x.pc \in {"check", "claim", "send"} => accepted[x.key] = 0
    /\ x.pc \in {"accepted", "record"} => accepted[x.key] >= 1

ManualInv ==
    /\ \A p \in Procs : ManualOK(procs[p])
    /\ \A p, q \in Procs :
          Holding(procs[p]) /\ Holding(procs[q]) /\ procs[p].key = procs[q].key => p = q
    /\ \A k \in Keys : accepted[k] <= 1 /\ (manual[k] = "none" => accepted[k] = 0)

\* A task that has not saved its draft but may, and one that has.
Contender(x) == x.pc \in {"evaluate", "draft"} \/ (x.pc = "candidate" /\ ~x.expired)

PreSend(x) == x.pc \in {"ready", "claim_ready", "claimed", "send_auto"}

AutoOK(x) ==
    /\ x.pc \in {"evaluate", "draft"} \/ PreSend(x) => auto \notin {"none", "candidate"}
    /\ PreSend(x) => accepted[AutoReply] = 0
    /\ x.pc \in {"sent", "record_auto", "reconcile", "replied"} => accepted[AutoReply] >= 1
    /\ x.pc \in {"record_auto", "reconcile", "replied"} => auto # "sending"
    /\ x.pc = "to_human" /\ auto = "sending" => Stale(x)
    /\ Contender(x) /\ accepted[AutoReply] > 0 => Stale(x)

\* Of the tasks that claimed the delivery only the one that saved its draft
\* first goes on: the copies of the others are overtaken.
AutoInv ==
    /\ \A p \in Procs : AutoOK(procs[p])
    /\ \A p, q \in Procs : PreSend(procs[p]) /\ PreSend(procs[q]) => p = q
    /\ \A p, q \in Procs : PreSend(procs[p]) /\ Contender(procs[q]) => Stale(procs[q])
    /\ accepted[AutoReply] <= 1
    /\ auto \in {"none", "candidate"} => accepted[AutoReply] = 0
    /\ auto = "sent" => accepted[AutoReply] >= 1
    /\ HeldWhileSending

IInv ==
    /\ TypeOK /\ opp.version >= 1
    /\ \A p \in Procs : Copied(procs[p])
    /\ ManualInv
    /\ AutoInv
    /\ RecordedWasSent

-----------------------------------------------------------------------------
(* What a step does to the processes. *)

\* Only p moves, to x.
Moves(p, x) == x \in Proc /\ procs' = [procs EXCEPT ![p] = x]

\* As before, but for where it is.
At(x, y, pc) ==
    x.pc = pc /\ x.key = y.key /\ x.target = y.target /\ x.copy = y.copy /\ x.expired = y.expired

LEMMA ProcFields ==
    ASSUME NEW x \in Proc
    PROVE  /\ x.pc \in Pcs /\ x.key \in Keys \cup {AutoReply} /\ x.target \in Statuses
           /\ x.copy \in Opportunity /\ x.expired \in BOOLEAN
BY DEF Proc

LEMMA IdleProc == Idle \in Proc
<1>1. Idle.copy \in Opportunity
  BY DEF Idle, Opportunity, Statuses
<1> QED
  BY <1>1 DEF Idle, Proc, Statuses, Pcs

LEMMA GotoMoves ==
    ASSUME TypeOK, NEW p \in Procs, NEW pc \in Pcs, Goto(p, pc)
    PROVE  \E x : Moves(p, x) /\ At(x, procs[p], pc)
<1> DEFINE x == [procs[p] EXCEPT !.pc = pc]
<1>1. procs[p] \in Proc
  BY DEF TypeOK
<1>2. x \in Proc /\ At(x, procs[p], pc)
  BY <1>1 DEF Proc, At
<1>3. procs' = [procs EXCEPT ![p] = x]
  BY DEF Goto
<1> QED
  BY <1>2, <1>3 DEF Moves

LEMMA EndMoves ==
    ASSUME TypeOK, NEW p \in Procs, End(p)
    PROVE  Moves(p, Idle)
BY IdleProc DEF End, Moves

\* What a write of the opportunity does, if the copy is current.
LEMMA WriteMoves ==
    ASSUME IInv, NEW p \in Procs, NEW c \in Opportunity, NEW pc \in Pcs \ {"idle"},
           c.version = opp.version, WriteOpportunity(p, c, pc), Fresh(p)
    PROVE  /\ opp' = [c EXCEPT !.version = @ + 1] /\ opp' \in Opportunity
           /\ opp'.version = opp.version + 1
           /\ \E x : /\ Moves(p, x) /\ x.pc = pc /\ x.copy = opp'
                    /\ x.key = procs[p].key /\ x.target = procs[p].target
<1> DEFINE w == [c EXCEPT !.version = @ + 1]
           x == [procs[p] EXCEPT !.pc = pc, !.copy = w]
<1>1. procs[p] \in Proc /\ procs \in [Procs -> Proc] /\ opp \in Opportunity
  BY DEF IInv, TypeOK
<1>2. w \in Opportunity /\ w.version = opp.version + 1
  BY <1>1 DEF Opportunity
<1>3. opp' = w /\ procs' = [procs EXCEPT ![p].pc = pc, ![p].copy = w]
  BY DEF WriteOpportunity
<1> HIDE DEF w
<1>4. x \in Proc /\ x.pc = pc /\ x.copy = w
      /\ x.key = procs[p].key /\ x.target = procs[p].target
  BY <1>1, <1>2 DEF Proc
<1>5. procs' = [procs EXCEPT ![p] = x]
  BY <1>1, <1>3 DEF Proc
<1> QED
  BY <1>2, <1>3, <1>4, <1>5 DEF Moves, w

LEMMA Typed ==
    ASSUME TypeOK, ConstantsAssumption
    PROVE  /\ opp \in Opportunity /\ opp.version \in Nat /\ AutoReply \notin Keys
           /\ accepted \in [Keys \cup {AutoReply} -> Nat] /\ procs \in [Procs -> Proc]
           /\ \A p \in Procs : procs[p] \in Proc /\ procs[p].copy.version \in Nat
BY DEF TypeOK, ConstantsAssumption, Opportunity, Proc

-----------------------------------------------------------------------------
(* Copies. *)

LEMMA CopiesKept ==
    ASSUME ConstantsAssumption, IInv, opp' = opp, NEW p \in Procs, NEW x, Moves(p, x),
           x = Idle \/ x.copy = procs[p].copy \/ x.copy = opp
    PROVE  \A q \in Procs : Copied(procs[q])'
<1>1. Copied(x)
  <2>1. Idle.copy.version = 0
    BY DEF Idle
  <2>2. opp.version >= 1
    BY DEF IInv
  <2> QED
    BY <2>1, <2>2, Typed DEF IInv, Copied
<1> QED
  BY <1>1, Typed DEF IInv, Copied, Moves

\* The opportunity is written by p, or by nobody modelled here.
LEMMA CopiesOvertaken ==
    ASSUME ConstantsAssumption, IInv, opp'.version = opp.version + 1,
           \/ procs' = procs
           \/ \E p \in Procs : \E x : Moves(p, x) /\ (x = Idle \/ x.copy = opp')
    PROVE  \A q \in Procs : Copied(procs[q])'
<1>1. \A q \in Procs : procs[q].copy.version <= opp.version /\ procs[q].copy.version \in Nat
  BY Typed DEF IInv, Copied
<1>2. CASE procs' = procs
  BY <1>1, <1>2, Typed DEF IInv, Copied
<1>3. ASSUME NEW p \in Procs, NEW x, Moves(p, x), x = Idle \/ x.copy = opp'
      PROVE  \A q \in Procs : Copied(procs[q])'
  <2>1. Copied(x)'
    <3>1. Idle.copy.version = 0
      BY DEF Idle
    <3> QED
      BY <1>3, <3>1, Typed DEF IInv, Copied
  <2>2. ASSUME NEW q \in Procs, q # p PROVE Copied(procs[q])'
    BY <1>1, <1>3, <2>2, Typed DEF IInv, Copied, Moves
  <2>3. procs'[p] = x
    BY <1>3, Typed DEF IInv, Moves
  <2> QED
    BY <2>1, <2>2, <2>3 DEF Copied
<1> QED
  BY <1>2, <1>3

-----------------------------------------------------------------------------
(* What leaves the other half of the invariant alone. *)

InManual(x) == x.pc = "idle" \/ x.pc = "reserve" \/ Holding(x)

InAuto(x) == x.pc # "reserve" /\ ~Holding(x)

\* Manual replies and other writers do not disturb the automatic reply.
LEMMA AutoKept ==
    ASSUME ConstantsAssumption, IInv, opp'.version \in Nat, opp'.version >= opp.version,
           auto' = auto, accepted'[AutoReply] = accepted[AutoReply],
           opp.assigned = "ai" => opp'.assigned = "ai",
           procs' = procs \/ \E p \in Procs : \E x : Moves(p, x) /\ InManual(x)
    PROVE  AutoInv'
<1>1. /\ AutoInv /\ procs \in [Procs -> Proc] /\ opp.version \in Nat
      /\ \A q \in Procs : procs[q].copy.version \in Nat
  BY Typed DEF IInv
<1>2. ASSUME NEW x, InManual(x)
      PROVE  /\ ~PreSend(x) /\ ~Contender(x)
             /\ x.pc \notin {"sent", "record_auto", "reconcile", "replied", "to_human",
                            "evaluate", "draft"}
  BY <1>2 DEF InManual, Holding, PreSend, Contender
<1>3. HeldWhileSending'
  BY DEF IInv, AutoInv, HeldWhileSending
<1>4. ASSUME NEW q \in Procs, procs'[q] = procs[q]
      PROVE  AutoOK(procs[q])' /\ (Stale(procs[q]) => Stale(procs[q])')
  BY <1>1, <1>4 DEF AutoInv, AutoOK, PreSend, Contender, Stale
<1>5. CASE procs' = procs
  BY <1>1, <1>3, <1>4, <1>5 DEF AutoInv, PreSend, Contender
<1>6. ASSUME NEW p \in Procs, NEW x, Moves(p, x), InManual(x) PROVE AutoInv'
  <2>1. procs'[p] = x /\ \A q \in Procs \ {p} : procs'[q] = procs[q]
    BY <1>1, <1>6 DEF Moves
  <2>2. AutoOK(procs[p])' /\ ~PreSend(procs[p])' /\ ~Contender(procs[p])'
    BY <1>2, <1>6, <2>1 DEF AutoOK, PreSend, Contender
  <2>3. \A q \in Procs : AutoOK(procs[q])'
    BY <1>4, <2>1, <2>2
  <2>4. ASSUME NEW q \in Procs
        PROVE  /\ PreSend(procs[q])' => PreSend(procs[q])
               /\ Contender(procs[q])' => Contender(procs[q])
               /\ (Contender(procs[q])' /\ Stale(procs[q])) => Stale(procs[q])'
    BY <1>4, <2>1, <2>2 DEF PreSend, Contender
  <2> QED
    BY <1>1, <1>3, <2>3, <2>4 DEF AutoInv
<1> QED
  BY <1>5, <1>6

\* The automatic reply and other writers do not disturb manual replies.
LEMMA ManualKept ==
    ASSUME ConstantsAssumption, IInv, manual' = manual,
           \A k \in Keys : accepted'[k] = accepted[k],
           \/ procs' = procs
           \/ \E p \in Procs : \E x : Moves(p, x) /\ ~Holding(x) /\ (x.pc = "reserve" => x.key \in Keys)
    PROVE  ManualInv'
<1>1. ManualInv /\ procs \in [Procs -> Proc]
  BY Typed DEF IInv
<1>2. ASSUME NEW q \in Procs, procs'[q] = procs[q] PROVE ManualOK(procs[q])'
  BY <1>1, <1>2 DEF ManualInv, ManualOK, Holding
<1>3. CASE procs' = procs
  BY <1>1, <1>2, <1>3 DEF ManualInv, Holding
<1>4. ASSUME NEW p \in Procs, NEW x, Moves(p, x), ~Holding(x), x.pc = "reserve" => x.key \in Keys
      PROVE  ManualInv'
  <2>1. procs'[p] = x /\ \A q \in Procs \ {p} : procs'[q] = procs[q]
    BY <1>1, <1>4 DEF Moves
  <2>2. ManualOK(procs[p])' /\ ~Holding(procs[p])'
    BY <1>4, <2>1 DEF ManualOK, Holding
  <2>3. \A q \in Procs : Holding(procs[q])' => Holding(procs[q]) /\ procs'[q] = procs[q]
    BY <2>1, <2>2 DEF Holding
  <2> QED
    BY <1>1, <1>2, <2>1, <2>2, <2>3 DEF ManualInv
<1> QED
  BY <1>3, <1>4

-----------------------------------------------------------------------------
(* Manual replies. *)

\* A step of the request with key k.
LEMMA ManualStepInv ==
    ASSUME ConstantsAssumption, IInv, NEW p \in Procs, NEW x, Moves(p, x), NEW k \in Keys,
           k = procs[p].key, Holding(x) => x.key = k, x.pc # "reserve",
           Holding(x) => Holding(procs[p]) \/ manual[k] = "none",
           manual' = manual
           \/ \E status \in ManualStatus \ {"none"} : manual' = [manual EXCEPT ![k] = status],
           Holding(x) => manual'[k] # "none",
           \A j \in Keys \ {k} : accepted'[j] = accepted[j],
           accepted'[k] = accepted[k] \/ Holding(procs[p]),
           accepted'[k] <= 1, manual'[k] = "none" => accepted'[k] = 0,
           x.pc \in {"check", "claim", "send"} => accepted'[k] = 0,
           x.pc \in {"accepted", "record"} => accepted'[k] >= 1
    PROVE  ManualInv'
<1>1. ManualInv /\ procs \in [Procs -> Proc] /\ manual \in [Keys -> ManualStatus]
  BY Typed DEF IInv, TypeOK
<1>2. procs'[p] = x /\ \A q \in Procs \ {p} : procs'[q] = procs[q]
  BY <1>1 DEF Moves
<1>3. ASSUME NEW q \in Procs \ {p}, Holding(procs[q]), procs[q].key = k PROVE ~Holding(x)
  BY <1>1, <1>3 DEF ManualInv, ManualOK
<1>4. \A j \in Keys : (j # k => manual'[j] = manual[j]) /\ (manual[j] # "none" => manual'[j] # "none")
  BY <1>1
<1>5. ManualOK(procs[p])'
  BY <1>2 DEF ManualOK, Holding
<1>6. ASSUME NEW q \in Procs \ {p} PROVE ManualOK(procs[q])'
  <2>1. ManualOK(procs[q]) /\ procs'[q] = procs[q]
    BY <1>1, <1>2 DEF ManualInv
  <2>2. CASE ~Holding(procs[q])
    BY <2>1, <2>2 DEF ManualOK, Holding
  <2>3. CASE Holding(procs[q])
    <3>1. procs[q].key \in Keys /\ manual'[procs[q].key] # "none"
      BY <1>4, <2>1, <2>3 DEF ManualOK
    <3>2. accepted'[procs[q].key] = accepted[procs[q].key]
      BY <1>1, <2>3, <3>1 DEF ManualInv
    <3> QED
      BY <2>1, <3>1, <3>2 DEF ManualOK, Holding
  <2> QED
    BY <2>2, <2>3
<1>7. ASSUME NEW q \in Procs, NEW r \in Procs, Holding(procs[q])', Holding(procs[r])',
             procs'[q].key = procs'[r].key
      PROVE  q = r
  <2>1. CASE q # p /\ r # p
    BY <1>1, <1>2, <1>7, <2>1 DEF ManualInv, Holding
  <2>2. CASE q = p /\ r # p
    BY <1>2, <1>3, <1>7, <2>2 DEF Holding
  <2>3. CASE r = p /\ q # p
    BY <1>2, <1>3, <1>7, <2>3 DEF Holding
  <2> QED
    BY <2>1, <2>2, <2>3
<1>8. \A j \in Keys : accepted'[j] <= 1 /\ (manual'[j] = "none" => accepted'[j] = 0)
  BY <1>1, <1>4 DEF ManualInv
<1> QED
  BY <1>5, <1>6, <1>7, <1>8 DEF ManualInv

\* Types, copies and the automatic reply through a step of a manual reply that
\* does not write the opportunity.
LEMMA ManualSide ==
    ASSUME ConstantsAssumption, IInv, NEW p \in Procs, NEW x, Moves(p, x), InManual(x),
           x = Idle \/ x.copy = procs[p].copy, opp' = opp, auto' = auto,
           starts' \in 0..MaxTasks, faults' \in 0..MaxFaults, manual' \in [Keys -> ManualStatus],
           accepted' \in [Keys \cup {AutoReply} -> Nat],
           accepted'[AutoReply] = accepted[AutoReply], messages' \subseteq Keys \cup {AutoReply},
           ManualInv', RecordedWasSent'
    PROVE  IInv'
<1>1. TypeOK'
  BY DEF IInv, TypeOK, Moves
<1>2. AutoInv'
  BY AutoKept, Typed DEF IInv
<1>3. \A q \in Procs : Copied(procs[q])'
  BY CopiesKept
<1> QED
  BY <1>1, <1>2, <1>3 DEF IInv

LEMMA ReserveKeeps ==
    ASSUME ConstantsAssumption, IInv, NEW p \in Procs, Reserve(p)
    PROVE  IInv'
<1> DEFINE k == procs[p].key
<1>1. /\ procs[p].pc = "reserve" /\ k \in Keys /\ TypeOK /\ accepted[k] <= 1
      /\ UNCHANGED <<opp, auto, accepted, messages, starts, faults>>
  BY DEF IInv, Reserve, ManualInv, ManualOK, outside
<1>2. RecordedWasSent'
  BY <1>1 DEF IInv, RecordedWasSent
<1>3. CASE manual[k] = "none"
  <2>1. manual' = [manual EXCEPT ![k] = "pending"] /\ Goto(p, "check")
    BY <1>3 DEF Reserve
  <2>2. PICK x : Moves(p, x) /\ At(x, procs[p], "check")
    BY <1>1, <2>1, GotoMoves DEF Pcs
  <2>3. accepted[k] = 0
    BY <1>1, <1>3 DEF IInv, ManualInv
  <2>4. manual' \in [Keys -> ManualStatus] /\ manual'[k] = "pending"
    BY <1>1, <2>1 DEF TypeOK, ManualStatus
  <2>5. ManualInv'
    BY <1>1, <1>3, <2>1, <2>2, <2>3, <2>4, ManualStepInv DEF At, Holding, ManualStatus
  <2> QED
    BY <1>1, <1>2, <2>2, <2>4, <2>5, ManualSide DEF At, InManual, Holding, TypeOK
<1>4. CASE manual[k] # "none"
  <2>1. End(p) /\ manual' = manual
    BY <1>4 DEF Reserve
  <2>2. Moves(p, Idle)
    BY <1>1, <2>1, EndMoves
  <2>3. ~Holding(Idle) /\ Idle.pc = "idle"
    BY DEF Idle, Holding
  <2>4. ManualInv'
    BY <1>1, <1>4, <2>1, <2>2, <2>3, ManualStepInv
  <2> QED
    BY <1>1, <1>2, <2>1, <2>2, <2>3, <2>4, ManualSide DEF InManual, TypeOK
<1> QED
  BY <1>3, <1>4

\* A step of a request that has the delivery of its key: it goes to pc, or
\* ends, and may set the status of the delivery.
LEMMA HolderKeeps ==
    ASSUME ConstantsAssumption, IInv, NEW p \in Procs, Holding(procs[p]),
           NEW pc \in {"idle", "claim", "send", "accepted", "record", "finalize"},
           IF pc = "idle" THEN End(p) ELSE Goto(p, pc),
           manual' = manual \/ \E status \in ManualStatus \ {"none"} :
               manual' = [manual EXCEPT ![procs[p].key] = status],
           \/ accepted' = accepted
           \/ /\ accepted[procs[p].key] = 0
              /\ accepted' = [accepted EXCEPT ![procs[p].key] = @ + 1],
           pc \in {"claim", "send"} => accepted'[procs[p].key] = 0,
           pc \in {"accepted", "record"} => accepted'[procs[p].key] >= 1,
           \/ messages' = messages
           \/ messages' = messages \cup {procs[p].key} /\ accepted[procs[p].key] >= 1,
           UNCHANGED <<opp, auto, starts>>, faults' \in 0..MaxFaults
    PROVE  IInv'
<1> DEFINE k == procs[p].key
<1>1. /\ TypeOK /\ k \in Keys /\ manual[k] # "none" /\ accepted[k] <= 1 /\ AutoReply \notin Keys
      /\ accepted \in [Keys \cup {AutoReply} -> Nat]
  BY Typed DEF IInv, ManualInv, ManualOK
<1>2. \E x : Moves(p, x) /\ x.pc = pc /\ (x = Idle \/ (x.key = k /\ x.copy = procs[p].copy))
  <2>1. CASE pc = "idle"
    BY <1>1, <2>1, EndMoves DEF Idle
  <2>2. CASE pc # "idle"
    <3>1. pc \in Pcs /\ Goto(p, pc)
      BY <2>2 DEF Pcs
    <3> QED
      BY <1>1, <3>1, GotoMoves DEF At
  <2> QED
    BY <2>1, <2>2
<1>3. PICK x : Moves(p, x) /\ x.pc = pc /\ (x = Idle \/ (x.key = k /\ x.copy = procs[p].copy))
  BY <1>2
<1>4. Holding(x) => x.key = k /\ x.pc # "idle"
  BY <1>3 DEF Holding, Idle
<1>5. /\ accepted' \in [Keys \cup {AutoReply} -> Nat] /\ accepted'[AutoReply] = accepted[AutoReply]
      /\ \A j \in Keys \ {k} : accepted'[j] = accepted[j]
      /\ accepted'[k] <= 1 /\ \A j \in Keys \cup {AutoReply} : accepted'[j] >= accepted[j]
  BY <1>1
<1>6. manual' \in [Keys -> ManualStatus] /\ manual'[k] # "none"
  BY <1>1 DEF TypeOK
<1>7. ManualInv'
  <2>1. x.pc # "reserve" /\ x.pc # "check"
    BY <1>3
  <2> HIDE DEF k
  <2> QED
    BY <1>1, <1>3, <1>4, <1>5, <1>6, <2>1, ManualStepInv DEF k
<1>8. messages' \subseteq Keys \cup {AutoReply} /\ RecordedWasSent'
  BY <1>1, <1>5 DEF IInv, RecordedWasSent, TypeOK
<1>9. InManual(x)
  BY <1>3 DEF InManual, Holding
<1> QED
  BY <1>1, <1>3, <1>5, <1>6, <1>7, <1>8, <1>9, ManualSide DEF TypeOK

\* The steps of a manual reply but its first and the one that writes the
\* opportunity.
LEMMA HolderSteps ==
    ASSUME ConstantsAssumption, IInv, NEW p \in Procs,
           \/ CheckCurrent(p) \/ ClaimSend(p) \/ Send(p) \/ SendFails(p)
           \/ MarkDelivered(p) \/ Record(p) \/ MarkCompleted(p)
    PROVE  IInv'
<1> DEFINE k == procs[p].key
<1>1. /\ ManualOK(procs[p]) /\ faults \in 0..MaxFaults /\ MaxFaults \in Nat
      /\ accepted \in [Keys \cup {AutoReply} -> Nat]
  BY Typed DEF IInv, ManualInv, TypeOK, ConstantsAssumption
<1> USE DEF Holding
<1>2. CASE CheckCurrent(p)
  <2>1. procs[p].pc = "check" /\ UNCHANGED <<opp, manual, auto, accepted, messages, starts, faults>>
    BY <1>2 DEF CheckCurrent, ledgers, outside
  <2>2. accepted[k] = 0
    BY <1>1, <2>1 DEF ManualOK
  <2>3. Goto(p, "claim") \/ End(p)
    BY <1>2 DEF CheckCurrent
  <2> QED
    BY <1>1, <2>1, <2>2, <2>3, HolderKeeps
<1>3. CASE ClaimSend(p)
  <2>1. /\ procs[p].pc = "claim" /\ UNCHANGED <<opp, auto, accepted, messages, starts, faults>>
        /\ manual' = [manual EXCEPT ![k] = "sending"] /\ Goto(p, "send")
    BY <1>3 DEF ClaimSend, outside
  <2>2. accepted[k] = 0 /\ "sending" \in ManualStatus \ {"none"}
    BY <1>1, <2>1 DEF ManualOK, ManualStatus
  <2> QED
    BY <1>1, <2>1, <2>2, HolderKeeps
<1>4. CASE Send(p)
  <2>1. /\ procs[p].pc = "send" /\ UNCHANGED <<opp, manual, auto, messages, starts, faults>>
        /\ accepted' = [accepted EXCEPT ![k] = @ + 1] /\ Goto(p, "accepted")
    BY <1>4 DEF Send, ledgers
  <2>2. k \in Keys /\ accepted[k] = 0
    BY <1>1, <2>1 DEF ManualOK
  <2>3. accepted'[k] >= 1
    BY <1>1, <2>1, <2>2
  <2> QED
    BY <1>1, <2>1, <2>2, <2>3, HolderKeeps
<1>5. CASE SendFails(p)
  <2>1. /\ procs[p].pc = "send" /\ UNCHANGED <<opp, auto, messages, starts>> /\ End(p)
        /\ faults' \in 0..MaxFaults
        /\ \E status \in {"failed", "uncertain"} : manual' = [manual EXCEPT ![k] = status]
        /\ accepted' = accepted \/ accepted' = [accepted EXCEPT ![k] = @ + 1]
    BY <1>1, <1>5 DEF SendFails, Failing
  <2>2. accepted[k] = 0 /\ {"failed", "uncertain"} \subseteq ManualStatus \ {"none"}
    BY <1>1, <2>1 DEF ManualOK, ManualStatus
  <2> QED
    BY <2>1, <2>2, HolderKeeps
<1>6. CASE MarkDelivered(p)
  <2>1. /\ procs[p].pc = "accepted" /\ UNCHANGED <<opp, auto, accepted, messages, starts, faults>>
        /\ manual' = [manual EXCEPT ![k] = "delivered"] /\ Goto(p, "record")
    BY <1>6 DEF MarkDelivered, outside
  <2>2. accepted[k] >= 1 /\ "delivered" \in ManualStatus \ {"none"}
    BY <1>1, <2>1 DEF ManualOK, ManualStatus
  <2> QED
    BY <1>1, <2>1, <2>2, HolderKeeps
<1>7. CASE Record(p)
  <2>1. /\ procs[p].pc = "record" /\ UNCHANGED <<opp, manual, auto, accepted, starts, faults>>
        /\ messages' = messages \cup {k} /\ Goto(p, "finalize")
    BY <1>7 DEF Record, ledgers
  <2>2. accepted[k] >= 1
    BY <1>1, <2>1 DEF ManualOK
  <2> QED
    BY <1>1, <2>1, <2>2, HolderKeeps
<1>8. CASE MarkCompleted(p)
  <2>1. /\ procs[p].pc = "complete" /\ UNCHANGED <<opp, auto, accepted, messages, starts, faults>>
        /\ manual' = [manual EXCEPT ![k] = "completed"] /\ End(p)
    BY <1>8 DEF MarkCompleted, outside
  <2>2. "completed" \in ManualStatus \ {"none"}
    BY DEF ManualStatus
  <2> QED
    BY <1>1, <2>1, <2>2, HolderKeeps
<1> QED
  BY <1>2, <1>3, <1>4, <1>5, <1>6, <1>7, <1>8

LEMMA FinalizeKeeps ==
    ASSUME ConstantsAssumption, IInv, NEW p \in Procs, Finalize(p)
    PROVE  IInv'
<1> DEFINE k == procs[p].key
           y == procs[p].copy
           c == [y EXCEPT !.assigned = IF @ = "nobody" THEN "human" ELSE @,
                          !.status = IF ~y.archived /\ Allowed(y.status, procs[p].target)
                                     THEN procs[p].target ELSE @]
<1>1. /\ procs[p].pc = "finalize" /\ WriteOpportunity(p, c, "complete")
      /\ UNCHANGED <<manual, auto, accepted, messages, starts, faults>>
  BY DEF Finalize, ledgers, outside
<1>2. /\ y \in Opportunity /\ procs[p].target \in Statuses /\ TypeOK /\ k \in Keys
      /\ manual[k] # "none" /\ accepted[k] <= 1
      /\ Holding(procs[p]) /\ opp \in Opportunity /\ opp.version \in Nat
  BY <1>1, Typed DEF IInv, TypeOK, Proc, ManualInv, ManualOK, Holding
<1>3. CASE ~Fresh(p)
  <2>1. End(p) /\ opp' = opp
    BY <1>1, <1>3 DEF WriteOpportunity
  <2> QED
    BY <1>1, <1>2, <2>1, HolderKeeps DEF TypeOK
<1>4. CASE Fresh(p)
  <2>1. c \in Opportunity /\ c.version = y.version /\ (y.assigned = "ai" => c.assigned = "ai")
    BY <1>2 DEF Opportunity
  <2> HIDE DEF c
  <2>2. y = opp /\ y.version = opp.version
    BY <1>4 DEF IInv, Copied, Fresh
  <2>3. "complete" \in Pcs \ {"idle"}
    BY DEF Pcs
  <2>4. /\ opp' \in Opportunity /\ opp'.version = opp.version + 1
        /\ opp' = [c EXCEPT !.version = @ + 1]
        /\ \E x : Moves(p, x) /\ x.pc = "complete" /\ x.copy = opp' /\ x.key = k
    BY <1>1, <1>4, <2>1, <2>2, <2>3, WriteMoves
  <2>5. PICK x : Moves(p, x) /\ x.pc = "complete" /\ x.copy = opp' /\ x.key = k
    BY <2>4
  <2>6. opp'.assigned = c.assigned
    BY <2>1, <2>4 DEF Opportunity
  <2>7. InManual(x) /\ Holding(x)
    BY <2>5 DEF InManual, Holding
  <2>8. AutoInv'
    BY <1>1, <1>2, <2>1, <2>2, <2>4, <2>5, <2>6, <2>7, AutoKept
  <2>9. ManualInv'
    BY <1>1, <1>2, <2>5, <2>7, ManualStepInv DEF IInv, ManualInv
  <2>10. \A q \in Procs : Copied(procs[q])'
    BY <2>4, <2>5, CopiesOvertaken
  <2>11. TypeOK' /\ RecordedWasSent' /\ opp'.version >= 1
    BY <1>1, <1>2, <2>4, <2>5 DEF TypeOK, Moves, IInv, RecordedWasSent
  <2> QED
    BY <2>8, <2>9, <2>10, <2>11 DEF IInv
<1> QED
  BY <1>3, <1>4

-----------------------------------------------------------------------------
(* The automatic reply. *)

LEMMA AutoStepInv ==
    ASSUME ConstantsAssumption, IInv, NEW p \in Procs, NEW x, Moves(p, x),
           opp'.version \in Nat, opp'.version >= opp.version,
           AutoOK(x)',
           PreSend(x) => \/ PreSend(procs[p])
                         \/ /\ opp'.version > opp.version
                            /\ \A q \in Procs : ~PreSend(procs[q]),
           Contender(x) => \/ Contender(procs[p]) /\ x.copy = procs[p].copy
                           \/ \A q \in Procs : ~PreSend(procs[q]),
           auto' \in {"none", "candidate"} => auto \in {"none", "candidate"},
           \/ accepted'[AutoReply] = accepted[AutoReply]
           \/ /\ accepted'[AutoReply] = accepted[AutoReply] + 1
              /\ PreSend(procs[p]) /\ ~PreSend(x),
           auto' = "sending" => \/ auto = "sending"
                                \/ accepted'[AutoReply] = 0 /\ opp'.version > opp.version,
           auto' = "sent" => accepted'[AutoReply] >= 1,
           HeldWhileSending'
    PROVE  AutoInv'
<1>1. /\ AutoInv /\ procs \in [Procs -> Proc] /\ opp.version \in Nat
      /\ \A q \in Procs : procs[q].copy.version \in Nat /\ procs[q].copy.version <= opp.version
      /\ accepted[AutoReply] \in Nat
  BY Typed DEF IInv, Copied
<1>2. procs'[p] = x /\ \A q \in Procs \ {p} : procs'[q] = procs[q]
  BY <1>1 DEF Moves
<1>3. accepted'[AutoReply] \in Nat /\ accepted'[AutoReply] >= accepted[AutoReply]
  BY <1>1
<1>4. ASSUME NEW q \in Procs \ {p}
      PROVE  /\ AutoOK(procs[q])' /\ (Stale(procs[q]) => Stale(procs[q])')
             /\ opp'.version > opp.version => Stale(procs[q])'
  <2>1. AutoOK(procs[q]) /\ procs'[q] = procs[q]
    BY <1>1, <1>2 DEF AutoInv
  <2>2. /\ Stale(procs[q]) => Stale(procs[q])'
        /\ opp'.version > opp.version => Stale(procs[q])'
    BY <1>1, <2>1 DEF Stale
  <2>3. ASSUME accepted'[AutoReply] # accepted[AutoReply]
        PROVE  ~PreSend(procs[q]) /\ (Contender(procs[q]) => Stale(procs[q]))
    BY <1>1, <2>3 DEF AutoInv
  <2>4. PreSend(procs[q]) => accepted'[AutoReply] = 0
    BY <2>1, <2>3 DEF AutoOK
  <2>5. Contender(procs[q]) /\ accepted'[AutoReply] > 0 => Stale(procs[q])'
    BY <2>1, <2>2, <2>3 DEF AutoOK
  <2>6. procs[q].pc \in {"sent", "record_auto", "reconcile", "replied"} =>
          accepted'[AutoReply] >= 1
    BY <1>1, <1>3, <2>1 DEF AutoOK
  <2>7. procs[q].pc \in {"record_auto", "reconcile", "replied"} => auto' # "sending"
    BY <2>1, <2>6 DEF AutoOK
  <2>8. procs[q].pc = "to_human" /\ auto' = "sending" => Stale(procs[q])'
    BY <2>1, <2>2 DEF AutoOK
  <2>9. procs[q].pc \in {"evaluate", "draft"} \/ PreSend(procs[q]) =>
          auto' \notin {"none", "candidate"}
    BY <2>1 DEF AutoOK
  <2>10. AutoOK(procs[q])'
    BY <2>1, <2>4, <2>5, <2>6, <2>7, <2>8, <2>9 DEF AutoOK, PreSend, Contender
  <2> QED
    BY <2>2, <2>10
<1>5. \A q \in Procs : AutoOK(procs[q])'
  BY <1>2, <1>4 DEF AutoOK, PreSend, Contender, Stale
<1>6. ASSUME NEW q \in Procs, NEW r \in Procs, PreSend(procs[q])', PreSend(procs[r])'
      PROVE  q = r
  <2>1. CASE q # p /\ r # p
    BY <1>1, <1>2, <1>6, <2>1 DEF AutoInv, PreSend
  <2>2. CASE (q = p) # (r = p)
    BY <1>1, <1>2, <1>6, <2>2 DEF AutoInv, PreSend
  <2> QED
    BY <2>1, <2>2
<1>7. ASSUME NEW q \in Procs, NEW r \in Procs, PreSend(procs[q])', Contender(procs[r])'
      PROVE  Stale(procs[r])'
  <2>1. CASE q # p /\ r # p
    BY <1>1, <1>2, <1>4, <1>7, <2>1 DEF AutoInv, PreSend, Contender
  <2>2. CASE q = p /\ r # p
    <3>1. PreSend(x) /\ Contender(procs[r])
      BY <1>2, <1>7, <2>2 DEF PreSend, Contender
    <3> QED
      BY <1>1, <1>4, <2>2, <3>1 DEF AutoInv
  <2>3. CASE q # p /\ r = p
    <3>1. PreSend(procs[q]) /\ Contender(x)
      BY <1>2, <1>7, <2>3 DEF PreSend, Contender
    <3>2. Stale(procs[p]) /\ x.copy = procs[p].copy
      BY <1>1, <3>1 DEF AutoInv
    <3> QED
      BY <1>1, <1>2, <2>3, <3>2 DEF Stale
  <2>4. CASE q = p /\ r = p
    BY <1>7, <2>4 DEF PreSend, Contender
  <2> QED
    BY <2>1, <2>2, <2>3, <2>4
<1>8. accepted'[AutoReply] <= 1 /\ (auto' \in {"none", "candidate"} => accepted'[AutoReply] = 0)
  BY <1>1 DEF AutoInv, AutoOK
<1> QED
  BY <1>5, <1>6, <1>7, <1>8 DEF AutoInv

\* Types, copies and manual replies through a step of the automatic reply.
LEMMA AutoSide ==
    ASSUME ConstantsAssumption, IInv, NEW p \in Procs, NEW x, Moves(p, x), InAuto(x),
           \/ opp' = opp /\ (x = Idle \/ x.copy = procs[p].copy \/ x.copy = opp)
           \/ /\ opp' \in Opportunity /\ opp'.version = opp.version + 1
              /\ x = Idle \/ x.copy = opp',
           manual' = manual, auto' \in AutoStatus,
           \/ accepted' = accepted
           \/ accepted' = [accepted EXCEPT ![AutoReply] = @ + 1],
           \/ messages' = messages
           \/ messages' = messages \cup {AutoReply} /\ accepted[AutoReply] >= 1,
           starts' \in 0..MaxTasks, faults' \in 0..MaxFaults,
           AutoInv'
    PROVE  IInv'
<1>1. /\ TypeOK /\ accepted \in [Keys \cup {AutoReply} -> Nat] /\ AutoReply \notin Keys
      /\ opp \in Opportunity /\ opp.version \in Nat
  BY Typed DEF IInv
<1>2. /\ accepted' \in [Keys \cup {AutoReply} -> Nat]
      /\ \A k \in Keys : accepted'[k] = accepted[k]
      /\ \A k \in Keys \cup {AutoReply} : accepted'[k] >= accepted[k]
  BY <1>1
<1>3. ManualInv'
  BY <1>2, ManualKept DEF InAuto
<1>4. \A q \in Procs : Copied(procs[q])'
  BY CopiesKept, CopiesOvertaken
<1>5. messages' \subseteq Keys \cup {AutoReply} /\ RecordedWasSent'
  BY <1>1, <1>2 DEF IInv, RecordedWasSent, TypeOK
<1>6. opp' \in Opportunity /\ opp'.version >= 1
  BY <1>1 DEF IInv
<1>7. TypeOK'
  BY <1>1, <1>2, <1>5, <1>6 DEF TypeOK, Moves
<1> QED
  BY <1>3, <1>4, <1>5, <1>6, <1>7 DEF IInv

\* A step of the automatic reply that does not write the opportunity.
LEMMA AutoMove ==
    ASSUME ConstantsAssumption, IInv, NEW p \in Procs, NEW x, Moves(p, x), InAuto(x),
           opp' = opp, x = Idle \/ x.copy = procs[p].copy \/ x.copy = opp,
           manual' = manual, auto' \in AutoStatus,
           \/ accepted' = accepted
           \/ /\ accepted' = [accepted EXCEPT ![AutoReply] = @ + 1]
              /\ PreSend(procs[p]) /\ ~PreSend(x),
           \/ messages' = messages
           \/ messages' = messages \cup {AutoReply} /\ accepted[AutoReply] >= 1,
           starts' \in 0..MaxTasks, faults' \in 0..MaxFaults,
           AutoOK(x)',
           PreSend(x) => PreSend(procs[p]),
           Contender(x) => \/ Contender(procs[p]) /\ x.copy = procs[p].copy
                           \/ \A q \in Procs : ~PreSend(procs[q]),
           auto' \in {"none", "candidate"} => auto \in {"none", "candidate"},
           auto' = "sending" => auto = "sending",
           auto' = "sent" => accepted[AutoReply] >= 1
    PROVE  IInv'
<1>1. /\ TypeOK /\ accepted \in [Keys \cup {AutoReply} -> Nat] /\ opp.version \in Nat
  BY Typed DEF IInv
<1>2. HeldWhileSending'
  BY DEF IInv, AutoInv, HeldWhileSending
<1>3. /\ accepted'[AutoReply] >= accepted[AutoReply]
      /\ \/ accepted'[AutoReply] = accepted[AutoReply]
         \/ /\ accepted'[AutoReply] = accepted[AutoReply] + 1
            /\ PreSend(procs[p]) /\ ~PreSend(x)
      /\ accepted[AutoReply] \in Nat /\ accepted'[AutoReply] \in Nat
  BY <1>1
<1>4. auto' = "sent" => accepted'[AutoReply] >= 1
  BY <1>3
<1>5. opp'.version \in Nat /\ opp'.version >= opp.version
  BY <1>1
<1>6. AutoInv'
  BY <1>2, <1>3, <1>4, <1>5, AutoStepInv
<1> QED
  BY <1>6, AutoSide

LEMMA IdleOK ==
    /\ InAuto(Idle) /\ InManual(Idle) /\ ~PreSend(Idle) /\ ~Contender(Idle) /\ ~Holding(Idle)
    /\ Idle.pc = "idle" /\ AutoOK(Idle) /\ ManualOK(Idle) /\ AutoOK(Idle)'
BY DEF Idle, InAuto, InManual, PreSend, Contender, Holding, AutoOK, ManualOK

\* A request or task ends and changes nothing, or just the status auto.
LEMMA AutoEnds ==
    ASSUME ConstantsAssumption, IInv, NEW p \in Procs, End(p), opp' = opp,
           manual' = manual, auto' \in AutoStatus, starts' = starts, faults' \in 0..MaxFaults,
           \/ messages' = messages
           \/ messages' = messages \cup {AutoReply} /\ accepted[AutoReply] >= 1,
           \/ accepted' = accepted
           \/ /\ accepted' = [accepted EXCEPT ![AutoReply] = @ + 1]
              /\ PreSend(procs[p]),
           auto' = auto \/ auto' \in {"blocked", "generating"}
    PROVE  IInv'
<1>1. Moves(p, Idle) /\ starts \in 0..MaxTasks
  BY EndMoves DEF IInv, TypeOK
<1>2. auto' = "sent" => accepted[AutoReply] >= 1
  BY DEF IInv, AutoInv
<1> QED
  BY <1>1, <1>2, IdleOK, AutoMove

\* A task goes on to pc with the copy it has.
LEMMA AutoGoes ==
    ASSUME ConstantsAssumption, IInv, NEW p \in Procs, NEW pc \in Pcs, Goto(p, pc), opp' = opp,
           manual' = manual, auto' \in AutoStatus, starts' = starts, faults' \in 0..MaxFaults,
           \/ accepted' = accepted
           \/ /\ accepted' = [accepted EXCEPT ![AutoReply] = @ + 1]
              /\ PreSend(procs[p]) /\ pc = "sent",
           \/ messages' = messages
           \/ messages' = messages \cup {AutoReply} /\ accepted[AutoReply] >= 1,
           \/ /\ procs[p].pc = "lookup" /\ pc = "insert" /\ auto' = auto
           \/ /\ procs[p].pc = "lookup" /\ pc = "reconcile" /\ auto = "sent" /\ auto' = auto
           \/ /\ procs[p].pc = "insert" /\ pc = "candidate" /\ auto = "none"
              /\ auto' = "candidate"
           \/ /\ procs[p].pc = "candidate" /\ ~procs[p].expired /\ pc = "evaluate"
              /\ auto' = "generating"
           \/ /\ procs[p].pc = "evaluate" /\ pc = "draft" /\ auto' = auto
           \/ /\ pc = "to_human" /\ auto' \in {"blocked", "dry_run"}
           \/ /\ procs[p].pc = "send_auto" /\ pc = "sent" /\ auto' = auto
              /\ accepted' = [accepted EXCEPT ![AutoReply] = @ + 1]
           \/ /\ procs[p].pc = "sent" /\ pc = "record_auto" /\ auto' = "sent"
           \/ /\ procs[p].pc \in {"record_auto", "reconcile"} /\ pc = "replied" /\ auto' = auto
    PROVE  IInv'
<1>1. PICK x : Moves(p, x) /\ At(x, procs[p], pc)
  BY GotoMoves DEF IInv
<1>2. /\ AutoOK(procs[p]) /\ starts \in 0..MaxTasks /\ auto \in AutoStatus
      /\ accepted \in [Keys \cup {AutoReply} -> Nat]
  BY Typed DEF IInv, AutoInv, TypeOK
<1>3. InAuto(x) /\ x.copy = procs[p].copy /\ x.expired = procs[p].expired /\ x.pc = pc
  BY <1>1 DEF At, InAuto, Holding
<1>4. auto = "sent" => accepted[AutoReply] >= 1
  BY DEF IInv, AutoInv
<1>5. PreSend(x) => PreSend(procs[p])
  BY <1>3 DEF PreSend
<1>6. Contender(x) => \/ Contender(procs[p]) /\ x.copy = procs[p].copy
                      \/ \A q \in Procs : ~PreSend(procs[q])
  <2>1. CASE auto = "none"
    BY <2>1 DEF IInv, AutoInv, AutoOK
  <2>2. CASE auto # "none"
    BY <1>3, <2>2 DEF Contender
  <2> QED
    BY <2>1, <2>2
<1>7. AutoOK(x)'
  <2>1. ~PreSend(x)
    BY <1>3 DEF PreSend
  <2>2. CASE pc \in {"insert", "to_human"}
    BY <1>3, <2>1, <2>2 DEF AutoOK, Contender
  <2>3. CASE pc = "candidate"
    <3>1. accepted[AutoReply] = 0 /\ accepted' = accepted
      BY <2>3 DEF IInv, AutoInv
    <3> QED
      BY <1>3, <2>1, <2>3, <3>1 DEF AutoOK, Contender
  <2>4. CASE pc \in {"evaluate", "draft"}
    <3>1. Contender(procs[p]) /\ accepted' = accepted /\ auto' \notin {"none", "candidate"}
      BY <1>2, <2>4 DEF Contender, AutoOK
    <3> QED
      BY <1>2, <1>3, <2>1, <2>4, <3>1 DEF AutoOK, Stale
  <2>5. CASE pc \in {"sent", "record_auto", "reconcile", "replied"}
    <3>1. accepted'[AutoReply] >= 1
      BY <1>2, <1>4, <2>5 DEF AutoOK
    <3>2. pc # "sent" => auto' # "sending"
      BY <1>2, <2>5 DEF AutoOK
    <3> QED
      BY <1>3, <2>1, <2>5, <3>1, <3>2 DEF AutoOK, Contender
  <2> QED
    BY <2>2, <2>3, <2>4, <2>5
<1>8. auto' = "sent" => accepted[AutoReply] >= 1
  BY <1>2, <1>4 DEF AutoOK
<1>9. /\ auto' \in {"none", "candidate"} => auto \in {"none", "candidate"}
      /\ auto' = "sending" => auto = "sending"
  OBVIOUS
<1>10. accepted' = accepted
       \/ (accepted' = [accepted EXCEPT ![AutoReply] = @ + 1] /\ PreSend(procs[p]) /\ ~PreSend(x))
  BY <1>3 DEF PreSend
<1> QED
  BY <1>1, <1>2, <1>3, <1>5, <1>6, <1>7, <1>8, <1>9, <1>10, AutoMove

LEMMA FoundKeeps ==
    ASSUME ConstantsAssumption, IInv, NEW p \in Procs, NEW expired \in BOOLEAN,
           Found(p, expired), procs[p].pc = IF expired THEN "insert" ELSE "lookup",
           UNCHANGED <<opp, manual, auto, accepted, messages, starts, faults>>
    PROVE  IInv'
<1>1. faults \in 0..MaxFaults /\ starts \in 0..MaxTasks /\ auto \in AutoStatus
  BY DEF IInv, TypeOK
<1>2. CASE auto = "sent" /\ ~expired
  BY <1>1, <1>2, AutoGoes DEF Found, Pcs
<1>3. CASE auto = "candidate"
  <2>1. procs[p] \in Proc /\ procs \in [Procs -> Proc]
    BY DEF IInv, TypeOK
  <2>2. PICK x : x = [procs[p] EXCEPT !.pc = "candidate", !.expired = expired]
    OBVIOUS
  <2>3. /\ x \in Proc /\ x.pc = "candidate" /\ x.copy = procs[p].copy
        /\ procs' = [procs EXCEPT ![p] = x]
    BY <1>3, <2>1, <2>2 DEF Found, Proc, Pcs
  <2>4. Moves(p, x) /\ InAuto(x) /\ ~PreSend(x)
    BY <2>3 DEF Moves, InAuto, Holding, PreSend
  <2>5. accepted[AutoReply] = 0 /\ \A q \in Procs : ~PreSend(procs[q])
    BY <1>3 DEF IInv, AutoInv, AutoOK
  <2>6. AutoOK(x)'
    BY <2>3, <2>4, <2>5 DEF AutoOK
  <2> QED
    BY <1>1, <1>3, <2>3, <2>4, <2>5, <2>6, AutoMove
<1>4. CASE ~(auto = "sent" /\ ~expired) /\ auto # "candidate"
  <2>1. End(p)
    BY <1>4 DEF Found
  <2> QED
    BY <1>1, <2>1, AutoEnds
<1> QED
  BY <1>2, <1>3, <1>4

LEMMA SimpleAutoSteps ==
    ASSUME ConstantsAssumption, IInv, NEW p \in Procs,
           \/ Lookup(p) \/ Insert(p) \/ ClaimCandidate(p) \/ Evaluate(p) \/ GenerationFails(p)
           \/ SendAuto(p) \/ SendAutoFails(p) \/ DryRun(p) \/ MarkSent(p) \/ RecordAuto(p)
           \/ Reconcile(p) \/ Crash(p)
    PROVE  IInv'
<1>1. /\ AutoOK(procs[p]) /\ faults \in 0..MaxFaults /\ MaxFaults \in Nat /\ auto \in AutoStatus
      /\ {"candidate", "generating", "sending", "sent", "blocked", "dry_run"} \subseteq AutoStatus
  BY DEF IInv, AutoInv, TypeOK, ConstantsAssumption, AutoStatus
<1> USE DEF ledgers, outside
<1>2. CASE Lookup(p)
  <2>1. /\ procs[p].pc = "lookup"
        /\ UNCHANGED <<opp, manual, auto, accepted, messages, starts, faults>>
    BY <1>2 DEF Lookup
  <2>2. CASE Goto(p, "insert")
    BY <1>1, <2>1, <2>2, AutoGoes DEF Pcs
  <2>3. CASE Found(p, FALSE)
    BY <2>1, <2>3, FoundKeeps
  <2> QED
    BY <1>2, <2>2, <2>3 DEF Lookup
<1>3. CASE Insert(p)
  <2>1. /\ procs[p].pc = "insert"
        /\ UNCHANGED <<opp, manual, accepted, messages, starts, faults>>
    BY <1>3 DEF Insert
  <2>2. CASE auto = "none"
    <3>1. auto' = "candidate" /\ Goto(p, "candidate")
      BY <1>3, <2>2 DEF Insert
    <3> QED
      BY <1>1, <2>1, <2>2, <3>1, AutoGoes DEF Pcs
  <2>3. CASE auto # "none"
    <3>1. Found(p, TRUE) /\ auto' = auto
      BY <1>3, <2>3 DEF Insert
    <3> QED
      BY <2>1, <3>1, FoundKeeps
  <2> QED
    BY <2>2, <2>3
<1>4. CASE ClaimCandidate(p)
  <2>1. /\ procs[p].pc = "candidate" /\ auto' = "generating"
        /\ UNCHANGED <<opp, manual, accepted, messages, starts, faults>>
    BY <1>4 DEF ClaimCandidate
  <2>2. CASE procs[p].expired
    <3>1. End(p)
      BY <1>4, <2>2 DEF ClaimCandidate
    <3> QED
      BY <1>1, <2>1, <3>1, AutoEnds
  <2>3. CASE ~procs[p].expired
    <3>1. Goto(p, "evaluate")
      BY <1>4, <2>3 DEF ClaimCandidate
    <3> QED
      BY <1>1, <2>1, <2>3, <3>1, AutoGoes DEF Pcs
  <2> QED
    BY <2>2, <2>3
<1>5. CASE Evaluate(p)
  <2>1. /\ procs[p].pc = "evaluate"
        /\ UNCHANGED <<opp, manual, accepted, messages, starts, faults>>
    BY <1>5 DEF Evaluate
  <2>2. (Goto(p, "draft") /\ auto' = auto) \/ (Goto(p, "to_human") /\ auto' = "blocked")
    BY <1>5 DEF Evaluate
  <2> QED
    BY <1>1, <2>1, <2>2, AutoGoes DEF Pcs
<1>6. CASE GenerationFails(p) \/ Crash(p)
  <2>1. /\ End(p) /\ UNCHANGED <<opp, manual, auto, accepted, messages, starts>>
        /\ faults' \in 0..MaxFaults
    BY <1>1, <1>6 DEF GenerationFails, Crash, Failing
  <2> QED
    BY <1>1, <2>1, AutoEnds
<1>7. CASE SendAuto(p)
  <2>1. /\ procs[p].pc = "send_auto" /\ Goto(p, "sent")
        /\ accepted' = [accepted EXCEPT ![AutoReply] = @ + 1]
        /\ UNCHANGED <<opp, manual, auto, messages, starts, faults>>
    BY <1>7 DEF SendAuto
  <2>2. PreSend(procs[p])
    BY <2>1 DEF PreSend
  <2> QED
    BY <1>1, <2>1, <2>2, AutoGoes DEF Pcs
<1>8. CASE SendAutoFails(p)
  <2>1. /\ procs[p].pc = "send_auto" /\ End(p) /\ faults' \in 0..MaxFaults
        /\ accepted' = accepted \/ accepted' = [accepted EXCEPT ![AutoReply] = @ + 1]
        /\ UNCHANGED <<opp, manual, auto, messages, starts>>
    BY <1>1, <1>8 DEF SendAutoFails, Failing
  <2>2. PreSend(procs[p])
    BY <2>1 DEF PreSend
  <2> QED
    BY <1>1, <2>1, <2>2, AutoEnds
<1>9. CASE DryRun(p)
  <2>1. /\ Goto(p, "to_human") /\ auto' = "dry_run" /\ faults' \in 0..MaxFaults
        /\ UNCHANGED <<opp, manual, accepted, messages, starts>>
    BY <1>1, <1>9 DEF DryRun, Failing
  <2> QED
    BY <1>1, <2>1, AutoGoes DEF Pcs
<1>10. CASE MarkSent(p)
  <2>1. /\ procs[p].pc = "sent" /\ Goto(p, "record_auto") /\ auto' = "sent"
        /\ UNCHANGED <<opp, manual, accepted, messages, starts, faults>>
    BY <1>10 DEF MarkSent
  <2> QED
    BY <1>1, <2>1, AutoGoes DEF Pcs
<1>11. CASE RecordAuto(p)
  <2>1. /\ procs[p].pc = "record_auto" /\ Goto(p, "replied")
        /\ messages' = messages \cup {AutoReply}
        /\ UNCHANGED <<opp, manual, auto, accepted, starts, faults>>
    BY <1>11 DEF RecordAuto
  <2>2. accepted[AutoReply] >= 1
    BY <1>1, <2>1 DEF AutoOK
  <2> QED
    BY <1>1, <2>1, <2>2, AutoGoes DEF Pcs
<1>12. CASE Reconcile(p)
  <2>1. /\ procs[p].pc = "reconcile" /\ (Goto(p, "replied") \/ End(p))
        /\ messages' = messages \/ messages' = messages \cup {AutoReply}
        /\ UNCHANGED <<opp, manual, auto, accepted, starts, faults>>
    BY <1>12 DEF Reconcile
  <2>2. accepted[AutoReply] >= 1
    BY <1>1, <2>1 DEF AutoOK
  <2>3. CASE Goto(p, "replied")
    BY <1>1, <2>1, <2>2, <2>3, AutoGoes DEF Pcs
  <2>4. CASE End(p)
    BY <1>1, <2>1, <2>2, <2>4, AutoEnds
  <2> QED
    BY <2>1, <2>3, <2>4
<1> QED
  BY <1>2, <1>3, <1>4, <1>5, <1>6, <1>7, <1>8, <1>9, <1>10, <1>11, <1>12

\* A task writes c over the current version and goes on, or is done.
LEMMA AutoWrites ==
    ASSUME ConstantsAssumption, IInv, NEW p \in Procs, NEW c \in Opportunity, NEW pc \in Pcs,
           WriteOpportunity(p, c, pc), Fresh(p), c.version = opp.version,
           UNCHANGED <<manual, accepted, messages, starts, faults>>,
           auto' \in {auto, "sending"}, auto' = "sending" => c.assigned = "ai",
           \/ pc = "idle" /\ auto' = auto
           \/ pc = "ready" /\ procs[p].pc = "draft" /\ auto' = auto
           \/ pc = "claimed" /\ procs[p].pc = "claim_ready" /\ auto' = "sending"
    PROVE  IInv'
<1>1. /\ AutoOK(procs[p]) /\ starts \in 0..MaxTasks /\ faults \in 0..MaxFaults
      /\ auto \in AutoStatus /\ opp.version \in Nat /\ accepted[AutoReply] \in Nat
      /\ procs[p].copy.version = opp.version
      /\ accepted \in [Keys \cup {AutoReply} -> Nat]
      /\ "sending" \in AutoStatus
  BY Typed DEF IInv, AutoInv, TypeOK, Fresh, AutoStatus
<1>2. /\ opp' \in Opportunity /\ opp'.version = opp.version + 1
      /\ opp'.assigned = c.assigned
  <2>1. opp' = [c EXCEPT !.version = @ + 1]
    BY DEF WriteOpportunity
  <2> QED
    BY <1>1, <2>1 DEF Opportunity
<1>3. HeldWhileSending'
  BY <1>2 DEF HeldWhileSending
<1>4. CASE pc = "idle"
  <2>1. Moves(p, Idle)
    BY <1>4, IdleProc DEF WriteOpportunity, Moves
  <2>2. AutoInv'
    <3>1. auto' = "sent" => accepted'[AutoReply] >= 1
      BY <1>4 DEF IInv, AutoInv
    <3>2. opp'.version \in Nat /\ opp'.version >= opp.version
      BY <1>1, <1>2
    <3> QED
      BY <1>3, <1>4, <2>1, <3>1, <3>2, IdleOK, AutoStepInv
  <2> QED
    BY <1>1, <1>2, <1>4, <2>1, <2>2, IdleOK, AutoSide
<1>5. CASE pc # "idle"
  <2>1. PICK x : Moves(p, x) /\ x.pc = pc /\ x.copy = opp'
    BY <1>5, WriteMoves
  <2>2. PreSend(x) /\ InAuto(x) /\ ~Contender(x)
    BY <1>5, <2>1 DEF PreSend, InAuto, Holding, Contender
  <2>3. accepted[AutoReply] = 0 /\ auto \notin {"none", "candidate"}
    BY <1>1, <1>5 DEF AutoOK, Contender, PreSend, Stale
  <2>4. PreSend(procs[p]) \/ \A q \in Procs : ~PreSend(procs[q])
    BY <1>1, <1>5 DEF IInv, AutoInv, PreSend, Contender, Stale
  <2>5. AutoOK(x)'
    BY <1>5, <2>1, <2>2, <2>3 DEF AutoOK
  <2>6. auto' = "sent" => accepted'[AutoReply] >= 1
    BY DEF IInv, AutoInv
  <2>7. opp'.version \in Nat /\ opp'.version >= opp.version /\ opp'.version > opp.version
    BY <1>1, <1>2
  <2>8. AutoInv'
    BY <1>3, <2>1, <2>2, <2>3, <2>4, <2>5, <2>6, <2>7, AutoStepInv
  <2> QED
    BY <1>1, <1>2, <2>1, <2>2, <2>8, AutoSide
<1> QED
  BY <1>4, <1>5

\* The copy of a task that may write is the opportunity.
LEMMA FreshCopy ==
    ASSUME IInv, NEW p \in Procs, Fresh(p)
    PROVE  procs[p].copy = opp
BY DEF IInv, Copied, Fresh

LEMMA WritingAutoSteps ==
    ASSUME ConstantsAssumption, IInv, NEW p \in Procs,
           SaveDraft(p) \/ ClaimReady(p) \/ MarkReplied(p) \/ SendToHuman(p)
    PROVE  IInv'
<1> DEFINE y == procs[p].copy
<1>1. /\ AutoOK(procs[p]) /\ faults \in 0..MaxFaults /\ auto \in AutoStatus
      /\ opp \in Opportunity /\ HeldWhileSending
  BY Typed DEF IInv, AutoInv, TypeOK
<1> USE DEF ledgers, outside
<1>2. CASE SaveDraft(p)
  <2>1. /\ procs[p].pc = "draft" /\ WriteOpportunity(p, y, "ready")
        /\ UNCHANGED <<manual, auto, accepted, messages, starts, faults>>
    BY <1>2 DEF SaveDraft
  <2>2. CASE Fresh(p)
    <3>1. auto' = "sending" => y.assigned = "ai"
      BY <1>1, <2>1, <2>2, FreshCopy DEF HeldWhileSending
    <3> QED
      BY <1>1, <2>1, <2>2, <3>1, FreshCopy, AutoWrites DEF Pcs
  <2>3. CASE ~Fresh(p)
    BY <1>1, <2>1, <2>3, AutoEnds DEF WriteOpportunity
  <2> QED
    BY <2>2, <2>3
<1>3. CASE ClaimReady(p)
  <2> DEFINE c == [y EXCEPT !.assigned = "ai"]
  <2>1. /\ procs[p].pc = "claim_ready"
        /\ UNCHANGED <<manual, accepted, messages, starts, faults>>
    BY <1>3 DEF ClaimReady
  <2>2. CASE ~OpenForAuto(y)
    <3>1. auto' = "blocked" /\ End(p) /\ opp' = opp
      BY <1>3, <2>2 DEF ClaimReady
    <3> QED
      BY <1>1, <2>1, <3>1, AutoEnds DEF AutoStatus
  <2>3. CASE OpenForAuto(y)
    <3>1. WriteOpportunity(p, c, "claimed") /\ auto' = IF Fresh(p) THEN "sending" ELSE auto
      BY <1>3, <2>3 DEF ClaimReady
    <3>2. CASE Fresh(p)
      <4>1. c \in Opportunity /\ c.version = opp.version /\ c.assigned = "ai"
        BY <1>1, <3>2, FreshCopy DEF Opportunity
      <4> QED
        BY <2>1, <3>1, <3>2, <4>1, AutoWrites DEF Pcs
    <3>3. CASE ~Fresh(p)
      BY <1>1, <2>1, <3>1, <3>3, AutoEnds DEF WriteOpportunity
    <3> QED
      BY <3>2, <3>3
  <2> QED
    BY <2>2, <2>3
<1>4. CASE MarkReplied(p)
  <2> DEFINE c == [y EXCEPT !.status = "replied", !.assigned = "nobody"]
  <2>1. /\ procs[p].pc = "replied" /\ WriteOpportunity(p, c, "idle")
        /\ UNCHANGED <<manual, auto, accepted, messages, starts, faults>>
    BY <1>4 DEF MarkReplied
  <2>2. CASE Fresh(p)
    <3>1. c \in Opportunity /\ c.version = opp.version
      BY <1>1, <2>2, FreshCopy DEF Opportunity, Statuses
    <3>2. auto # "sending"
      BY <1>1, <2>1 DEF AutoOK
    <3> QED
      BY <2>1, <2>2, <3>1, <3>2, AutoWrites DEF Pcs
  <2>3. CASE ~Fresh(p)
    BY <1>1, <2>1, <2>3, AutoEnds DEF WriteOpportunity
  <2> QED
    BY <2>2, <2>3
<1>5. CASE SendToHuman(p)
  <2> DEFINE c == [y EXCEPT !.status = "pending_human", !.assigned = "nobody"]
  <2>1. /\ procs[p].pc = "to_human"
        /\ WriteOpportunity(p, c, "idle") \/ (End(p) /\ opp' = opp)
        /\ UNCHANGED <<manual, auto, accepted, messages, starts, faults>>
    BY <1>5 DEF SendToHuman
  <2>2. CASE WriteOpportunity(p, c, "idle") /\ Fresh(p)
    <3>1. c \in Opportunity /\ c.version = opp.version
      BY <1>1, <2>2, FreshCopy DEF Opportunity, Statuses
    <3>2. auto # "sending"
      BY <1>1, <2>1, <2>2, FreshCopy, Typed DEF AutoOK, Stale, IInv
    <3> QED
      BY <2>1, <2>2, <3>1, <3>2, AutoWrites DEF Pcs
  <2>3. CASE ~(WriteOpportunity(p, c, "idle") /\ Fresh(p))
    <3>1. End(p) /\ opp' = opp
      BY <2>1, <2>3 DEF WriteOpportunity
    <3> QED
      BY <1>1, <2>1, <3>1, AutoEnds
  <2> QED
    BY <2>2, <2>3
<1> QED
  BY <1>2, <1>3, <1>4, <1>5

\* The refreshes of a task that has saved its draft.
LEMMA RefreshKeeps ==
    ASSUME ConstantsAssumption, IInv, NEW p \in Procs, MarkReady(p) \/ LoadClaimed(p)
    PROVE  IInv'
<1>1. /\ procs[p] \in Proc /\ procs \in [Procs -> Proc] /\ opp \in Opportunity
      /\ AutoOK(procs[p]) /\ starts \in 0..MaxTasks /\ faults \in 0..MaxFaults
      /\ auto \in AutoStatus /\ (auto = "sent" => accepted[AutoReply] >= 1)
  BY DEF IInv, AutoInv, TypeOK
<1>2. /\ procs[p].pc \in {"ready", "claimed"} /\ auto' \in {auto, "ready"}
      /\ UNCHANGED <<opp, manual, accepted, messages, starts, faults>>
  BY DEF MarkReady, LoadClaimed, ledgers, outside
<1>3. PICK pc \in {"claim_ready", "send_auto"} :
          procs' = [procs EXCEPT ![p].pc = pc, ![p].copy = opp]
  BY DEF MarkReady, LoadClaimed
<1>4. PICK x : x = [procs[p] EXCEPT !.pc = pc, !.copy = opp]
  OBVIOUS
<1>5. x \in Proc /\ x.pc = pc /\ x.copy = opp /\ procs' = [procs EXCEPT ![p] = x]
  BY <1>1, <1>3, <1>4 DEF Proc, Pcs
<1>6. Moves(p, x) /\ InAuto(x) /\ PreSend(x) /\ PreSend(procs[p]) /\ ~Contender(x)
  BY <1>2, <1>5 DEF Moves, InAuto, Holding, PreSend, Contender
<1>7. AutoOK(x)'
  BY <1>1, <1>2, <1>5, <1>6 DEF AutoOK
<1>8. auto' \in AutoStatus
  BY <1>1, <1>2 DEF AutoStatus
<1> QED
  BY <1>1, <1>2, <1>5, <1>6, <1>7, <1>8, AutoMove

LEMMA StartKeeps ==
    ASSUME ConstantsAssumption, IInv, NEW p \in Procs, Start(p)
    PROVE  IInv'
<1>1. /\ procs \in [Procs -> Proc] /\ opp \in Opportunity /\ auto \in AutoStatus /\ TypeOK
      /\ starts \in 0..MaxTasks /\ faults \in 0..MaxFaults /\ MaxTasks \in Nat
      /\ auto = "sent" => accepted[AutoReply] >= 1
      /\ accepted \in [Keys \cup {AutoReply} -> Nat]
  BY DEF IInv, AutoInv, TypeOK, ConstantsAssumption
<1>2. CASE StartAuto(p)
  <2>1. /\ procs' = [procs EXCEPT ![p] = [Idle EXCEPT !.pc = "lookup", !.copy = opp]]
        /\ starts' \in 0..MaxTasks
        /\ UNCHANGED <<opp, manual, auto, accepted, messages, faults>>
    BY <1>1, <1>2 DEF StartAuto, ledgers, outside
  <2>2. PICK x : x = [Idle EXCEPT !.pc = "lookup", !.copy = opp]
    OBVIOUS
  <2>3. x \in Proc /\ x.pc = "lookup" /\ x.copy = opp
    BY <1>1, <2>2, IdleProc DEF Proc, Pcs
  <2>4. Moves(p, x) /\ InAuto(x) /\ ~PreSend(x) /\ ~Contender(x)
    BY <2>1, <2>2, <2>3 DEF Moves, InAuto, Holding, PreSend, Contender
  <2>5. AutoOK(x)'
    BY <2>3, <2>4 DEF AutoOK
  <2> QED
    BY <1>1, <2>1, <2>3, <2>4, <2>5, AutoMove
<1>3. ASSUME NEW k \in Keys, StartManual(p, k) PROVE IInv'
  <2>1. PICK target \in {"following", "replied"} :
          procs' = [procs EXCEPT ![p] = [Idle EXCEPT !.pc = "reserve", !.key = k,
                                                     !.target = target, !.copy = opp]]
    BY <1>3 DEF StartManual
  <2>2. starts' \in 0..MaxTasks /\ UNCHANGED <<opp, manual, auto, accepted, messages, faults>>
    BY <1>1, <1>3 DEF StartManual, ledgers, outside
  <2>3. PICK x : x = [Idle EXCEPT !.pc = "reserve", !.key = k, !.target = target, !.copy = opp]
    OBVIOUS
  <2>4. x \in Proc /\ x.pc = "reserve" /\ x.copy = opp /\ x.key = k
    BY <1>1, <2>3, IdleProc DEF Proc, Pcs, Statuses
  <2>5. Moves(p, x) /\ InManual(x) /\ ~Holding(x)
    BY <2>1, <2>3, <2>4 DEF Moves, InManual, Holding
  <2>6. ManualInv'
    BY <2>2, <2>4, <2>5, ManualKept
  <2>7. AutoInv'
    BY <2>2, <2>5, AutoKept, Typed DEF IInv
  <2>8. \A q \in Procs : Copied(procs[q])'
    BY <2>2, <2>4, <2>5, CopiesKept
  <2>9. TypeOK' /\ RecordedWasSent'
    BY <1>1, <2>2, <2>5 DEF TypeOK, Moves, IInv, RecordedWasSent
  <2> QED
    BY <2>2, <2>6, <2>7, <2>8, <2>9 DEF IInv
<1> QED
  BY <1>2, <1>3 DEF Start

LEMMA OthersKeep ==
    ASSUME ConstantsAssumption, IInv, Others
    PROVE  IInv'
<1>1. PICK new \in Opportunity :
          /\ Change(new) /\ new.version = opp.version
          /\ opp.assigned = "ai" => new.assigned = "ai"
  <2>1. opp \in Opportunity /\ Targets \subseteq Statuses
    BY DEF IInv, TypeOK, ConstantsAssumption
  <2>2. CASE Archive
    <3>1. /\ Change([opp EXCEPT !.archived = TRUE]) /\ [opp EXCEPT !.archived = TRUE] \in Opportunity
          /\ [opp EXCEPT !.archived = TRUE].version = opp.version
          /\ [opp EXCEPT !.archived = TRUE].assigned = opp.assigned
      BY <2>1, <2>2 DEF Archive, Opportunity
    <3> QED
      BY <3>1
  <2>3. CASE Restore
    <3>1. /\ Change([opp EXCEPT !.archived = FALSE])
          /\ [opp EXCEPT !.archived = FALSE] \in Opportunity
          /\ [opp EXCEPT !.archived = FALSE].version = opp.version
          /\ [opp EXCEPT !.archived = FALSE].assigned = opp.assigned
      BY <2>1, <2>3 DEF Restore, Opportunity
    <3> QED
      BY <3>1
  <2>4. CASE ClaimOpportunity
    <3>1. /\ Change([opp EXCEPT !.assigned = "human"]) /\ opp.assigned = "nobody"
          /\ [opp EXCEPT !.assigned = "human"] \in Opportunity
          /\ [opp EXCEPT !.assigned = "human"].version = opp.version
      BY <2>1, <2>4 DEF ClaimOpportunity, Opportunity
    <3> QED
      BY <3>1
  <2>5. ASSUME NEW s \in Targets, SetStatus(s)
        PROVE  \E new \in Opportunity :
                   /\ Change(new) /\ new.version = opp.version
                   /\ opp.assigned = "ai" => new.assigned = "ai"
    <3>1. /\ Change([opp EXCEPT !.status = s]) /\ [opp EXCEPT !.status = s] \in Opportunity
          /\ [opp EXCEPT !.status = s].version = opp.version
          /\ [opp EXCEPT !.status = s].assigned = opp.assigned
      BY <2>1, <2>5 DEF SetStatus, Opportunity
    <3> QED
      BY <3>1
  <2> QED
    BY <2>2, <2>3, <2>4, <2>5 DEF Others
<1>2. /\ opp' = [new EXCEPT !.version = @ + 1]
      /\ UNCHANGED <<manual, auto, accepted, messages, procs, starts, faults>>
  BY <1>1 DEF Change, ledgers, outside
<1>3. /\ opp' \in Opportunity /\ opp'.version = opp.version + 1 /\ opp.version \in Nat
      /\ opp.assigned = "ai" => opp'.assigned = "ai"
  BY <1>1, <1>2, Typed DEF IInv, Opportunity
<1>4. AutoInv'
  BY <1>2, <1>3, AutoKept
<1>5. ManualInv'
  BY <1>2, ManualKept
<1>6. \A q \in Procs : Copied(procs[q])'
  BY <1>2, <1>3, CopiesOvertaken
<1>7. TypeOK' /\ RecordedWasSent' /\ opp'.version >= 1
  BY <1>2, <1>3 DEF IInv, TypeOK, RecordedWasSent
<1> QED
  BY <1>4, <1>5, <1>6, <1>7 DEF IInv

-----------------------------------------------------------------------------
(* The theorems. *)

LEMMA InitIInv == ConstantsAssumption /\ Init => IInv
<1> SUFFICES ASSUME ConstantsAssumption, Init PROVE IInv
  OBVIOUS
<1>1. opp \in Opportunity /\ opp.version = 1
  BY DEF Init, Opportunity, Statuses
<1>2. /\ manual \in [Keys -> ManualStatus] /\ auto = "none" /\ messages = {}
      /\ accepted \in [Keys \cup {AutoReply} -> Nat]
      /\ \A k \in Keys \cup {AutoReply} : accepted[k] = 0
      /\ starts \in 0..MaxTasks /\ faults \in 0..MaxFaults
  BY DEF Init, ManualStatus, ConstantsAssumption
<1>3. procs \in [Procs -> Proc] /\ \A p \in Procs : procs[p] = Idle
  BY IdleProc DEF Init
<1>4. TypeOK
  BY <1>1, <1>2, <1>3 DEF TypeOK, AutoStatus
<1>5. \A p \in Procs : Copied(procs[p])
  <2>1. Idle.copy.version = 0
    BY DEF Idle
  <2> QED
    BY <1>1, <1>3, <2>1 DEF Copied
<1>6. ManualInv
  BY <1>2, <1>3, IdleOK DEF ManualInv
<1>7. AutoInv
  BY <1>2, <1>3, IdleOK DEF AutoInv, HeldWhileSending
<1> QED
  BY <1>1, <1>2, <1>4, <1>5, <1>6, <1>7 DEF IInv, RecordedWasSent

LEMMA StepIInv == ConstantsAssumption /\ IInv /\ [Next]_vars => IInv'
<1> SUFFICES ASSUME ConstantsAssumption, IInv, [Next]_vars PROVE IInv'
  OBVIOUS
<1>1. CASE Others
  BY <1>1, OthersKeep
<1>2. ASSUME NEW p \in Procs, Start(p) \/ Crash(p) PROVE IInv'
  BY <1>2, StartKeeps, SimpleAutoSteps
<1>3. ASSUME NEW p \in Procs, ManualStep(p) PROVE IInv'
  BY <1>3, ReserveKeeps, HolderSteps, FinalizeKeeps DEF ManualStep
<1>4. ASSUME NEW p \in Procs, AutoStep(p) PROVE IInv'
  BY <1>4, SimpleAutoSteps, WritingAutoSteps, RefreshKeeps DEF AutoStep
<1>5. CASE UNCHANGED vars
  <2>1. UNCHANGED <<opp, manual, auto, accepted, messages, procs, starts, faults>>
    BY <1>5 DEF vars, ledgers, outside
  <2> QED
    BY <2>1
    DEF IInv, TypeOK, Copied, ManualInv, ManualOK, Holding, AutoInv, AutoOK, Contender, PreSend,
        Stale, HeldWhileSending, RecordedWasSent
<1> QED
  BY <1>1, <1>2, <1>3, <1>4, <1>5 DEF Next

LEMMA Invariant == Spec => []IInv
BY InitIInv, StepIInv, ConstantsAssumption, PTL DEF Spec

\* Ledgers, copies and processes keep their shape.
THEOREM ReplyTypesCorrect == Spec => []TypeOK
BY Invariant, PTL DEF IInv

\* However often a key is retried and a task delivered, the provider is asked
\* once at most for each reply.
THEOREM NoReplySentTwice == Spec => []EachSentOnce
<1>1. IInv => EachSentOnce
  BY DEF IInv, ManualInv, AutoInv, EachSentOnce
<1> QED
  BY <1>1, Invariant, PTL

\* No message is recorded that the provider did not accept.
THEOREM OnlySentRecorded == Spec => []RecordedWasSent
BY Invariant, PTL DEF IInv

\* While an automatic reply is being sent the opportunity is assigned to it.
THEOREM HeldForAutoReply == Spec => []HeldWhileSending
BY Invariant, PTL DEF IInv, AutoInv

LEMMA StepClaims ==
    IInv /\ [Next]_vars => (auto # "sending" /\ auto' = "sending" => OpenForAuto(opp))
<1> SUFFICES ASSUME IInv, Next, auto # "sending", auto' = "sending" PROVE OpenForAuto(opp)
  BY DEF vars, ledgers
<1> USE DEF ledgers
<1>1. ~Others
  BY DEF Others, Archive, Restore, ClaimOpportunity, SetStatus, Change
<1>2. ASSUME NEW p \in Procs PROVE ~Start(p) /\ ~Crash(p)
  BY DEF Start, StartAuto, StartManual, Crash
<1>3. ASSUME NEW p \in Procs PROVE ~ManualStep(p)
  BY DEF ManualStep, Reserve, CheckCurrent, ClaimSend, Send, SendFails, MarkDelivered, Record,
         Finalize, MarkCompleted
<1>4. ASSUME NEW p \in Procs, AutoStep(p) PROVE ClaimReady(p)
  BY <1>4 DEF AutoStep, Lookup, Insert, ClaimCandidate, Evaluate, GenerationFails, SaveDraft,
             MarkReady, LoadClaimed, SendAuto, SendAutoFails, DryRun, MarkSent, RecordAuto,
             MarkReplied,
             Reconcile, SendToHuman
<1>5. ASSUME NEW p \in Procs, ClaimReady(p) PROVE OpenForAuto(opp)
  <2>1. OpenForAuto(procs[p].copy) /\ Fresh(p)
    BY <1>5 DEF ClaimReady
  <2> QED
    BY <2>1, FreshCopy
<1> QED
  BY <1>1, <1>2, <1>3, <1>4, <1>5 DEF Next

\* The automatic reply is claimed for sending only over a current copy that is
\* open for it.
THEOREM OnlyOpenClaimed == Spec => ClaimedWhenOpen
<1>1. IInv /\ [Next]_vars =>
        [auto # "sending" /\ auto' = "sending" => OpenForAuto(opp)]_vars
  BY StepClaims
<1> QED
  BY <1>1, Invariant, PTL DEF Spec, ClaimedWhenOpen

-----------------------------------------------------------------------------
(* OutboundReplies implements CustomerReplies. *)

\* A task that holds the opportunity and has not asked the provider.
Claimed(x) == x.pc \in {"claimed", "send_auto"}

\* What the task with the automatic reply knows of who has the opportunity (its
\* status may be any by then), and what a request that has sent knows of the
\* provider.
HoldOK(x) ==
    /\ x.target \in {"following", "replied"}
    /\ x.pc = "finalize" => accepted[x.key] >= 1
    /\ Claimed(x) => opp.assigned = "ai"
    /\ x.pc \in {"send_auto", "sent", "record_auto", "replied"} => x.copy.assigned = "ai"
    /\ x.pc = "to_human" /\ x.copy.assigned = "ai" => Stale(x) \/ accepted[AutoReply] = 0

\* Nobody gives the opportunity to a human while the reply is about to be sent.
HoldInv ==
    /\ \A p \in Procs : HoldOK(procs[p])
    /\ \A p, q \in Procs : PreSend(procs[p]) /\ procs[q].pc = "to_human" => Stale(procs[q])

\* What every step keeps and is.
Implements == HoldInv' /\ [Replies!Next]_(Replies!vars)

LEMMA Kinds ==
    ASSUME ConstantsAssumption, IInv
    PROVE  /\ opp \in Opportunity /\ opp.version \in Nat /\ AutoReply \notin Keys
           /\ accepted \in [Keys \cup {AutoReply} -> Nat] /\ procs \in [Procs -> Proc]
           /\ \A p \in Procs : /\ procs[p] \in Proc /\ procs[p].copy.version \in Nat
                               /\ procs[p].copy.version <= opp.version
                               /\ procs[p].key \in Keys \cup {AutoReply}
           /\ \A k \in Keys \cup {AutoReply} : accepted[k] <= 1 /\ accepted[k] \in Nat
BY Typed DEF IInv, Copied, ManualInv, AutoInv, Proc

\* One process moves; the provider is asked for the automatic reply only by the
\* task that saved its draft.
LEMMA HoldStep ==
    ASSUME ConstantsAssumption, IInv, HoldInv, NEW p \in Procs, NEW x, Moves(p, x),
           opp'.version \in Nat, opp'.version >= opp.version,
           \A k \in Keys \cup {AutoReply} : accepted'[k] \in Nat /\ accepted'[k] >= accepted[k],
           HoldOK(x)',
           \A q \in Procs \ {p} : Claimed(procs[q]) => opp'.assigned = "ai",
           accepted'[AutoReply] = accepted[AutoReply] \/ PreSend(procs[p]),
           PreSend(x) => PreSend(procs[p]) \/ opp'.version > opp.version,
           x.pc = "to_human" =>
               \A q \in Procs \ {p} : PreSend(procs[q]) => x.copy.version < opp'.version
    PROVE  HoldInv'
<1>1. procs'[p] = x /\ \A q \in Procs \ {p} : procs'[q] = procs[q]
  BY Kinds DEF Moves
<1>2. ASSUME NEW q \in Procs, q # p PROVE HoldOK(procs[q])'
  <2>1. HoldOK(procs[q]) /\ procs[q].key \in Keys \cup {AutoReply} /\ procs[q].copy.version \in Nat
    BY Kinds DEF HoldInv
  <2>2. procs'[q] = procs[q]
    BY <1>1, <1>2
  <2>3. procs[q].pc = "finalize" => accepted'[procs[q].key] >= 1
    BY <2>1, Kinds DEF HoldOK
  <2>4. procs[q].pc = "to_human" /\ procs[q].copy.assigned = "ai" =>
            procs[q].copy.version < opp'.version \/ accepted'[AutoReply] = 0
    <3>1. CASE accepted'[AutoReply] = accepted[AutoReply]
      BY <2>1, <3>1, Kinds DEF HoldOK, Stale
    <3>2. CASE PreSend(procs[p])
      BY <2>1, <3>2, Kinds DEF HoldInv, Stale
    <3> QED
      BY <3>1, <3>2
  <2> QED
    BY <1>2, <2>1, <2>2, <2>3, <2>4 DEF HoldOK, Stale
<1>3. ASSUME NEW q \in Procs, NEW r \in Procs, PreSend(procs'[q]), procs'[r].pc = "to_human"
      PROVE  procs'[r].copy.version < opp'.version
  <2>1. CASE r = p
    <3>1. q # p
      BY <1>1, <1>3, <2>1 DEF PreSend
    <3> QED
      BY <1>1, <1>3, <2>1, <3>1
  <2>2. CASE r # p
    <3>1. procs'[r] = procs[r] /\ procs[r].copy.version \in Nat
          /\ procs[r].copy.version <= opp.version
      BY <1>1, <2>2, Kinds
    <3>2. PreSend(procs[q]) => procs[r].copy.version < opp.version
      BY <1>3, <3>1 DEF HoldInv, Stale
    <3>3. PreSend(procs[p]) => procs[r].copy.version < opp.version
      BY <1>3, <3>1 DEF HoldInv, Stale
    <3>4. q # p => PreSend(procs[q])
      BY <1>1, <1>3
    <3> QED
      BY <1>1, <1>3, <3>1, <3>2, <3>3, <3>4, Kinds
  <2> QED
    BY <2>1, <2>2
<1>4. HoldOK(procs[p])'
  BY <1>1 DEF HoldOK, Stale
<1> QED
  BY <1>2, <1>3, <1>4 DEF HoldInv, Stale

LEMMA IdleHolds == HoldOK(Idle)' /\ ~PreSend(Idle) /\ Idle.pc = "idle"
BY DEF HoldOK, Idle, PreSend, Claimed

\* What the provider accepts is one more reply, or none.
Asks(k) ==
    \/ accepted' = accepted
    \/ accepted[k] = 0 /\ accepted' = [accepted EXCEPT ![k] = @ + 1]

\* Process p asks it, for the automatic reply only after its draft was saved.
AsksAs(p) ==
    \/ accepted' = accepted
    \/ \E k \in Keys \cup {AutoReply} : Asks(k) /\ (k = AutoReply => PreSend(procs[p]))

LEMMA AsksCounts ==
    ASSUME ConstantsAssumption, IInv, NEW p, AsksAs(p)
    PROVE  /\ \A j \in Keys \cup {AutoReply} : accepted'[j] \in Nat /\ accepted'[j] >= accepted[j]
           /\ accepted'[AutoReply] = accepted[AutoReply] \/ PreSend(procs[p])
BY Kinds DEF Asks, AsksAs

LEMMA AsksSends ==
    ASSUME ConstantsAssumption, IInv, NEW k \in Keys \cup {AutoReply}, Asks(k),
           k = AutoReply => opp.assigned = "ai", UNCHANGED <<opp, messages>>
    PROVE  [Replies!Next]_(Replies!vars)
<1>1. CASE accepted' = accepted
  BY <1>1 DEF Replies!vars
<1>2. CASE accepted[k] = 0 /\ accepted' = [accepted EXCEPT ![k] = @ + 1]
  <2>1. accepted' = [accepted EXCEPT ![k] = 1]
    BY <1>2, Kinds
  <2> QED
    BY <1>2, <2>1 DEF Replies!Send, Replies!Next
<1> QED
  BY <1>1, <1>2 DEF Asks

\* Steps that leave the opportunity alone.
LEMMA HoldGoes ==
    ASSUME ConstantsAssumption, IInv, HoldInv, NEW p \in Procs, opp' = opp,
           AsksAs(p),
           NEW pc \in Pcs \ {"ready", "claim_ready", "claimed", "send_auto"}, Goto(p, pc),
           pc \in {"sent", "record_auto", "replied"} => procs[p].copy.assigned = "ai",
           pc = "finalize" => accepted[procs[p].key] >= 1,
           pc = "to_human" =>
               /\ procs[p].copy.assigned = "ai" => Stale(procs[p]) \/ accepted'[AutoReply] = 0
               /\ \A q \in Procs \ {p} : PreSend(procs[q]) => Stale(procs[p])
    PROVE  HoldInv'
<1>1. PICK x : Moves(p, x) /\ At(x, procs[p], pc)
  BY GotoMoves DEF IInv
<1>2. HoldOK(procs[p]) /\ procs[p].key \in Keys \cup {AutoReply}
  BY Kinds DEF HoldInv
<1>3. pc = "finalize" => accepted'[x.key] >= 1
  BY <1>1, <1>2, AsksCounts, Kinds DEF At
<1>4. HoldOK(x)'
  BY <1>1, <1>2, <1>3 DEF HoldOK, At, Stale, Claimed
<1>5. \A q \in Procs \ {p} : Claimed(procs[q]) => opp'.assigned = "ai"
  BY DEF HoldInv, HoldOK
<1>6. ~PreSend(x)
  BY <1>1 DEF PreSend, At
<1> QED
  BY <1>1, <1>4, <1>5, <1>6, AsksCounts, Kinds, HoldStep DEF At, Stale

LEMMA HoldEnds ==
    ASSUME ConstantsAssumption, IInv, HoldInv, NEW p \in Procs, opp' = opp,
           AsksAs(p), End(p)
    PROVE  HoldInv'
<1>1. Moves(p, Idle)
  BY EndMoves DEF IInv
<1>2. \A q \in Procs \ {p} : Claimed(procs[q]) => opp'.assigned = "ai"
  BY DEF HoldInv, HoldOK
<1> QED
  BY <1>1, <1>2, IdleHolds, AsksCounts, Kinds, HoldStep

\* A write of the opportunity, which the copy must be up to.
LEMMA HoldWrites ==
    ASSUME ConstantsAssumption, IInv, HoldInv, NEW p \in Procs, UNCHANGED <<accepted, messages>>,
           NEW c \in Opportunity, c.version = procs[p].copy.version, NEW pc \in Pcs,
           WriteOpportunity(p, c, pc),
           pc \notin {"send_auto", "sent", "record_auto", "replied", "finalize", "to_human",
                      "claim_ready"},
           pc = "claimed" => c.assigned = "ai",
           Fresh(p) => \A q \in Procs \ {p} : Claimed(procs[q]) => c.assigned = "ai"
    PROVE  /\ HoldInv'
           /\ ~Fresh(p) => UNCHANGED <<opp, accepted, messages>>
           /\ Fresh(p) => /\ procs[p].copy = opp /\ opp' = [c EXCEPT !.version = @ + 1]
<1>1. CASE ~Fresh(p)
  <2>1. End(p) /\ opp' = opp
    BY <1>1 DEF WriteOpportunity
  <2>2. HoldInv'
    BY <2>1, IdleHolds, EndMoves, Kinds, HoldStep DEF IInv, HoldInv, HoldOK
  <2> QED
    BY <1>1, <2>1, <2>2
<1>2. CASE Fresh(p)
  <2>1. procs[p].copy = opp /\ c.version = opp.version /\ opp' = [c EXCEPT !.version = @ + 1]
    BY <1>2, FreshCopy DEF WriteOpportunity, Fresh
  <2>2. /\ opp'.version = opp.version + 1 /\ opp'.version \in Nat
        /\ opp'.assigned = c.assigned /\ opp'.status = c.status
    BY <2>1, Kinds DEF Opportunity
  <2>3. \E x : /\ Moves(p, x) /\ HoldOK(x)' /\ x.pc # "to_human"
    <3>1. CASE pc = "idle"
      <4>1. End(p)
        BY <1>2, <3>1 DEF WriteOpportunity, End
      <4> QED
        BY <4>1, EndMoves, IdleHolds DEF IInv
    <3>2. CASE pc # "idle"
      <4>1. PICK x : /\ Moves(p, x) /\ x.pc = pc /\ x.copy = opp' /\ x.target = procs[p].target
        BY <1>2, <2>1, <3>2, WriteMoves
      <4>2. HoldOK(x)'
        BY <2>2, <4>1 DEF HoldOK, HoldInv, Claimed
      <4> QED
        BY <4>1, <4>2
    <3> QED
      BY <3>1, <3>2
  <2>4. HoldInv'
    BY <1>2, <2>2, <2>3, Kinds, HoldStep
  <2> QED
    BY <1>2, <2>1, <2>4
<1> QED
  BY <1>1, <1>2

\* A step the customer and the opportunity see nothing of.
LEMMA UnseenStep == UNCHANGED <<opp, accepted, messages>> => [Replies!Next]_(Replies!vars)
BY DEF Replies!vars

\* A message of a reply that was accepted.
LEMMA RecordStep ==
    ASSUME ConstantsAssumption, IInv, NEW k \in Keys \cup {AutoReply}, accepted[k] >= 1,
           messages' = messages \cup {k}, UNCHANGED <<opp, accepted>>
    PROVE  [Replies!Next]_(Replies!vars)
<1>1. accepted[k] = 1
  BY Kinds
<1> QED
  BY <1>1 DEF Replies!Record, Replies!Next

LEMMA ManualImplements ==
    ASSUME ConstantsAssumption, IInv, HoldInv, NEW p \in Procs,
           \/ Reserve(p) \/ CheckCurrent(p) \/ ClaimSend(p) \/ Send(p) \/ SendFails(p)
           \/ MarkDelivered(p) \/ Record(p) \/ MarkCompleted(p)
    PROVE  Implements
<1> DEFINE k == procs[p].key
<1>1. ManualOK(procs[p])
  BY DEF IInv, ManualInv
<1>2. CASE Reserve(p) \/ CheckCurrent(p) \/ ClaimSend(p) \/ MarkDelivered(p) \/ MarkCompleted(p)
  <2>1. UNCHANGED <<opp, accepted, messages>>
    BY <1>2 DEF Reserve, CheckCurrent, ClaimSend, MarkDelivered, MarkCompleted, outside
  <2>2. End(p) \/ \E pc \in {"check", "claim", "send", "record"} : Goto(p, pc)
    BY <1>2 DEF Reserve, CheckCurrent, ClaimSend, MarkDelivered, MarkCompleted
  <2>3. HoldInv'
    BY <2>1, <2>2, HoldGoes, HoldEnds DEF AsksAs, Pcs
  <2> QED
    BY <2>1, <2>3, UnseenStep DEF Implements
<1>3. CASE Send(p) \/ SendFails(p)
  <2>1. k \in Keys /\ accepted[k] = 0 /\ k # AutoReply
    BY <1>1, <1>3, Kinds DEF Send, SendFails, ManualOK, Holding
  <2>2. Asks(k) /\ UNCHANGED <<opp, messages>>
    BY <1>3, <2>1 DEF Send, SendFails, Asks
  <2>3. End(p) \/ Goto(p, "accepted")
    BY <1>3 DEF Send, SendFails
  <2>4. HoldInv'
    BY <2>1, <2>2, <2>3, HoldGoes, HoldEnds DEF AsksAs, Pcs
  <2> QED
    BY <2>1, <2>2, <2>4, AsksSends DEF Implements
<1>4. CASE Record(p)
  <2>1. k \in Keys /\ accepted[k] >= 1
    BY <1>1, <1>4 DEF Record, ManualOK, Holding
  <2>2. messages' = messages \cup {k} /\ UNCHANGED <<opp, accepted>> /\ Goto(p, "finalize")
    BY <1>4 DEF Record
  <2>3. HoldInv'
    BY <2>1, <2>2, HoldGoes DEF AsksAs, Pcs
  <2> QED
    BY <2>1, <2>2, <2>3, RecordStep DEF Implements
<1> QED
  BY <1>2, <1>3, <1>4

\* A manual reply that was sent moves the opportunity along, if it may.
LEMMA FinalizeImplements ==
    ASSUME ConstantsAssumption, IInv, HoldInv, NEW p \in Procs, Finalize(p)
    PROVE  Implements
<1> DEFINE y == procs[p].copy
           k == procs[p].key
           moves == ~y.archived /\ Allowed(y.status, procs[p].target)
           s == IF moves THEN procs[p].target ELSE y.status
           c == [y EXCEPT !.assigned = IF @ = "nobody" THEN "human" ELSE @, !.status = s]
<1>1. /\ procs[p] \in Proc /\ y \in Opportunity /\ HoldOK(procs[p]) /\ ManualOK(procs[p])
      /\ procs[p].pc = "finalize"
  BY Kinds DEF Proc, HoldInv, IInv, ManualInv, Finalize
<1>2. k \in Keys /\ accepted[k] = 1 /\ procs[p].target \in {"following", "replied"}
  BY <1>1, Kinds DEF HoldOK, ManualOK, Holding
<1>3. s \in Statuses /\ s \in {y.status, "following", "replied"}
      /\ (s # y.status => ~y.archived /\ Allowed(y.status, s))
  BY <1>1, <1>2 DEF Opportunity, Statuses
<1>4. WriteOpportunity(p, c, "complete") /\ UNCHANGED <<accepted, messages>>
  BY DEF Finalize, outside
<1> HIDE DEF s
<1>5. /\ c \in Opportunity /\ c.version = y.version
      /\ y.assigned = "ai" => c.assigned = "ai"
  BY <1>1, <1>3 DEF Opportunity
<1>6. Fresh(p) => \A q \in Procs \ {p} : Claimed(procs[q]) => c.assigned = "ai"
  BY <1>5, FreshCopy DEF HoldInv, HoldOK
<1>7. /\ HoldInv'
      /\ ~Fresh(p) => UNCHANGED <<opp, accepted, messages>>
      /\ Fresh(p) => y = opp /\ opp' = [c EXCEPT !.version = @ + 1]
  <2> HIDE DEF c
  <2> QED
    BY <1>4, <1>5, <1>6, HoldWrites DEF Pcs
<1>8. Fresh(p) => Replies!Follow(k)
  <2> DEFINE d == [opp EXCEPT !.assigned = IF @ = "nobody" THEN "human" ELSE @, !.status = s]
  <2> SUFFICES ASSUME Fresh(p) PROVE Replies!Follow(k)
    OBVIOUS
  <2>1. c = d /\ opp' = [c EXCEPT !.version = @ + 1]
    BY <1>7
  <2>2. Replies!Write(d)
    BY <1>4, <2>1 DEF Replies!Write
  <2>3. /\ accepted[k] = 1 /\ s \in {opp.status, "following", "replied"}
        /\ s # opp.status => ~opp.archived /\ Allowed(opp.status, s)
    BY <1>2, <1>3, <1>7
  <2> QED
    BY <2>2, <2>3 DEF Replies!Follow, Replies!Allowed, Allowed
<1> QED
  BY <1>2, <1>7, <1>8, UnseenStep DEF Implements, Replies!Next

\* The task with the automatic reply, where it does not write the opportunity.
LEMMA AutoImplements ==
    ASSUME ConstantsAssumption, IInv, HoldInv, NEW p \in Procs,
           \/ Lookup(p) \/ Insert(p) \/ ClaimCandidate(p) \/ Evaluate(p) \/ GenerationFails(p)
           \/ DryRun(p) \/ MarkSent(p) \/ Crash(p)
    PROVE  Implements
<1> DEFINE x == procs[p]
<1>1. AutoOK(x) /\ HoldOK(x)
  BY DEF IInv, AutoInv, HoldInv
<1>2. UNCHANGED <<opp, accepted, messages>>
  BY DEF Lookup, Insert, ClaimCandidate, Evaluate, GenerationFails, DryRun, MarkSent, Crash, outside
<1>3. CASE Lookup(p) \/ Insert(p)
  <2>1. CASE \E b \in BOOLEAN : Found(p, b)
    <3>1. PICK b \in BOOLEAN : Found(p, b)
      BY <2>1
    <3>2. CASE auto = "candidate" /\ ~(auto = "sent" /\ ~b)
      <4>1. procs' = [procs EXCEPT ![p].pc = "candidate", ![p].expired = b]
        BY <3>1, <3>2 DEF Found
      <4>2. PICK y : y = [x EXCEPT !.pc = "candidate", !.expired = b]
        OBVIOUS
      <4>3. x \in Proc /\ procs \in [Procs -> Proc]
        BY Kinds
      <4>4. y \in Proc /\ y.pc = "candidate" /\ y.target = x.target /\ y.copy = x.copy
        BY <4>2, <4>3 DEF Proc, Pcs
      <4>5. Moves(p, y)
        BY <4>1, <4>2, <4>3, <4>4 DEF Moves
      <4>6. HoldOK(y)' /\ ~PreSend(y)
        BY <1>1, <4>4 DEF HoldOK, PreSend, Claimed
      <4>7. HoldInv'
        BY <1>2, <4>4, <4>5, <4>6, Kinds, HoldStep DEF HoldInv, HoldOK
      <4> QED
        BY <1>2, <4>7, UnseenStep DEF Implements
    <3>3. CASE ~(auto = "candidate" /\ ~(auto = "sent" /\ ~b))
      <4>1. End(p) \/ Goto(p, "reconcile")
        BY <3>1, <3>3 DEF Found
      <4>2. HoldInv'
        BY <1>2, <4>1, HoldGoes, HoldEnds DEF AsksAs, Pcs
      <4> QED
        BY <1>2, <4>2, UnseenStep DEF Implements
    <3> QED
      BY <3>2, <3>3
  <2>2. CASE \E pc \in {"insert", "candidate"} : Goto(p, pc)
    <3>1. HoldInv'
      BY <1>2, <2>2, HoldGoes DEF AsksAs, Pcs
    <3> QED
      BY <1>2, <3>1, UnseenStep DEF Implements
  <2> QED
    BY <1>3, <2>1, <2>2 DEF Lookup, Insert
<1>4. CASE ClaimCandidate(p) \/ GenerationFails(p) \/ Crash(p)
  <2>1. End(p) \/ Goto(p, "evaluate")
    BY <1>4 DEF ClaimCandidate, GenerationFails, Crash
  <2>2. HoldInv'
    BY <1>2, <2>1, HoldGoes, HoldEnds DEF AsksAs, Pcs
  <2> QED
    BY <1>2, <2>2, UnseenStep DEF Implements
<1>5. CASE Evaluate(p)
  <2>1. Contender(x)
    BY <1>5 DEF Evaluate, Contender
  <2>2. \A q \in Procs \ {p} : PreSend(procs[q]) => Stale(x)
    BY <2>1 DEF IInv, AutoInv
  <2>3. Stale(x) \/ accepted'[AutoReply] = 0
    BY <1>1, <1>2, <2>1, Kinds DEF AutoOK
  <2>4. \E pc \in {"draft", "to_human"} : Goto(p, pc)
    BY <1>5 DEF Evaluate
  <2>5. HoldInv'
    BY <1>2, <2>2, <2>3, <2>4, HoldGoes DEF AsksAs, Pcs
  <2> QED
    BY <1>2, <2>5, UnseenStep DEF Implements
<1>6. CASE DryRun(p)
  <2>1. PreSend(x) /\ Goto(p, "to_human")
    BY <1>6 DEF DryRun, PreSend
  <2>2. \A q \in Procs \ {p} : ~PreSend(procs[q])
    BY <2>1 DEF IInv, AutoInv
  <2>3. accepted'[AutoReply] = 0
    BY <1>1, <1>2, <2>1 DEF AutoOK
  <2>4. HoldInv'
    BY <1>2, <2>1, <2>2, <2>3, HoldGoes DEF AsksAs, Pcs
  <2> QED
    BY <1>2, <2>4, UnseenStep DEF Implements
<1>7. CASE MarkSent(p)
  <2>1. HoldInv'
    BY <1>1, <1>2, <1>7, HoldGoes DEF AsksAs, Pcs, MarkSent, HoldOK
  <2> QED
    BY <1>2, <2>1, UnseenStep DEF Implements
<1> QED
  BY <1>3, <1>4, <1>5, <1>6, <1>7

\* Where it sends or records the reply.
LEMMA SendingImplements ==
    ASSUME ConstantsAssumption, IInv, HoldInv, NEW p \in Procs,
           SendAuto(p) \/ SendAutoFails(p) \/ RecordAuto(p) \/ Reconcile(p)
    PROVE  Implements
<1> DEFINE x == procs[p]
<1>1. AutoOK(x) /\ HoldOK(x)
  BY DEF IInv, AutoInv, HoldInv
<1>2. CASE SendAuto(p) \/ SendAutoFails(p)
  <2>1. PreSend(x) /\ opp.assigned = "ai" /\ accepted[AutoReply] = 0
    BY <1>1, <1>2 DEF SendAuto, SendAutoFails, PreSend, HoldOK, AutoOK, Claimed
  <2>2. Asks(AutoReply) /\ UNCHANGED <<opp, messages>>
    BY <1>2, <2>1 DEF SendAuto, SendAutoFails, Asks
  <2>3. End(p) \/ Goto(p, "sent")
    BY <1>2 DEF SendAuto, SendAutoFails
  <2>4. x.copy.assigned = "ai"
    BY <1>1, <1>2 DEF SendAuto, SendAutoFails, HoldOK
  <2>5. HoldInv'
    BY <2>1, <2>2, <2>3, <2>4, HoldGoes, HoldEnds DEF AsksAs, Pcs
  <2> QED
    BY <2>1, <2>2, <2>5, AsksSends DEF Implements
<1>3. CASE RecordAuto(p) \/ Reconcile(p)
  <2>1. /\ accepted[AutoReply] >= 1 /\ UNCHANGED <<opp, accepted>>
        /\ messages' \in {messages, messages \cup {AutoReply}}
    BY <1>1, <1>3 DEF RecordAuto, Reconcile, AutoOK
  <2>2. \/ End(p)
        \/ Goto(p, "replied") /\ x.copy.assigned = "ai"
    BY <1>1, <1>3 DEF RecordAuto, Reconcile, HoldOK
  <2>3. HoldInv'
    BY <2>1, <2>2, HoldGoes, HoldEnds DEF AsksAs, Pcs
  <2> QED
    BY <2>1, <2>3, RecordStep, UnseenStep DEF Implements
<1> QED
  BY <1>2, <1>3

\* Where it writes the opportunity: its draft, the claim, and how it ends.
LEMMA WritingImplements ==
    ASSUME ConstantsAssumption, IInv, HoldInv, NEW p \in Procs,
           SaveDraft(p) \/ ClaimReady(p) \/ MarkReplied(p) \/ SendToHuman(p)
    PROVE  Implements
<1> DEFINE x == procs[p]
           y == procs[p].copy
<1>1. /\ AutoOK(x) /\ HoldOK(x) /\ y \in Opportunity /\ opp \in Opportunity
      /\ Fresh(p) => y = opp /\ ~Stale(x)
  BY Kinds, FreshCopy DEF IInv, AutoInv, HoldInv, Proc, Stale, Fresh
<1>2. UNCHANGED <<accepted, messages>>
  BY DEF SaveDraft, ClaimReady, MarkReplied, SendToHuman, outside
<1>3. CASE SaveDraft(p)
  <2>1. WriteOpportunity(p, y, "ready")
    BY <1>3 DEF SaveDraft
  <2>2. Fresh(p) => \A q \in Procs \ {p} : Claimed(procs[q]) => y.assigned = "ai"
    BY <1>1 DEF HoldInv, HoldOK
  <2>3. /\ HoldInv'
        /\ ~Fresh(p) => UNCHANGED <<opp, accepted, messages>>
        /\ Fresh(p) => y = opp /\ opp' = [y EXCEPT !.version = @ + 1]
    BY <1>1, <1>2, <2>1, <2>2, HoldWrites DEF Pcs
  <2>4. Fresh(p) => Replies!Touch
    BY <1>2, <2>3 DEF Replies!Touch, Replies!Write
  <2> QED
    BY <2>3, <2>4, UnseenStep DEF Implements, Replies!Next
<1>4. CASE ClaimReady(p)
  <2> DEFINE c == [y EXCEPT !.assigned = "ai"]
  <2>1. CASE ~OpenForAuto(y)
    <3>1. End(p) /\ opp' = opp
      BY <1>4, <2>1 DEF ClaimReady
    <3>2. HoldInv'
      BY <1>2, <3>1, HoldEnds DEF AsksAs
    <3> QED
      BY <1>2, <3>1, <3>2, UnseenStep DEF Implements
  <2>2. CASE OpenForAuto(y)
    <3>1. WriteOpportunity(p, c, "claimed")
      BY <1>4, <2>2 DEF ClaimReady
    <3>2. c \in Opportunity /\ c.version = y.version /\ c.assigned = "ai"
      BY <1>1, <2>2 DEF Opportunity, OpenForAuto
    <3>3. /\ HoldInv'
          /\ ~Fresh(p) => UNCHANGED <<opp, accepted, messages>>
          /\ Fresh(p) => y = opp /\ opp' = [c EXCEPT !.version = @ + 1]
      <4> HIDE DEF c
      <4> QED
        BY <1>2, <3>1, <3>2, HoldWrites DEF Pcs
    <3>4. accepted[AutoReply] = 0
      BY <1>1, <1>4 DEF ClaimReady, AutoOK, PreSend
    <3>5. Fresh(p) => Replies!Hold
      BY <1>2, <2>2, <3>3, <3>4 DEF Replies!Hold, Replies!Write, OpenForAuto
    <3> QED
      BY <3>3, <3>5, UnseenStep DEF Implements, Replies!Next
  <2> QED
    BY <2>1, <2>2
<1>5. CASE MarkReplied(p)
  <2> DEFINE c == [y EXCEPT !.status = "replied", !.assigned = "nobody"]
  <2>1. WriteOpportunity(p, c, "idle")
    BY <1>5 DEF MarkReplied
  <2>2. c \in Opportunity /\ c.version = y.version
    BY <1>1 DEF Opportunity, Statuses
  <2>3. accepted[AutoReply] = 1 /\ y.assigned = "ai"
    BY <1>1, <1>5, Kinds DEF MarkReplied, AutoOK, HoldOK
  <2>4. \A q \in Procs : ~Claimed(procs[q])
    BY <2>3 DEF IInv, AutoInv, AutoOK, PreSend, Claimed
  <2>5. /\ HoldInv'
        /\ ~Fresh(p) => UNCHANGED <<opp, accepted, messages>>
        /\ Fresh(p) => y = opp /\ opp' = [c EXCEPT !.version = @ + 1]
    <3> HIDE DEF c
    <3> QED
      BY <1>2, <2>1, <2>2, <2>4, HoldWrites DEF Pcs
  <2>6. Fresh(p) => Replies!Answered
    BY <1>2, <2>3, <2>5 DEF Replies!Answered, Replies!Write
  <2> QED
    BY <2>5, <2>6, UnseenStep DEF Implements, Replies!Next
<1>6. CASE SendToHuman(p)
  <2> DEFINE c == [y EXCEPT !.status = "pending_human", !.assigned = "nobody"]
  <2>1. CASE ~(y.status = "ai_auto_reply" /\ y.assigned # "human")
    <3>1. End(p) /\ opp' = opp
      BY <1>6, <2>1 DEF SendToHuman
    <3>2. HoldInv'
      BY <1>2, <3>1, HoldEnds DEF AsksAs
    <3> QED
      BY <1>2, <3>1, <3>2, UnseenStep DEF Implements
  <2>2. CASE y.status = "ai_auto_reply" /\ y.assigned # "human"
    <3>1. WriteOpportunity(p, c, "idle") /\ x.pc = "to_human"
      BY <1>6, <2>2 DEF SendToHuman
    <3>2. c \in Opportunity /\ c.version = y.version
      BY <1>1 DEF Opportunity, Statuses
    <3>3. Fresh(p) => \A q \in Procs : ~Claimed(procs[q])
      BY <1>1, <3>1 DEF HoldInv, PreSend, Claimed
    <3>4. /\ HoldInv'
          /\ ~Fresh(p) => UNCHANGED <<opp, accepted, messages>>
          /\ Fresh(p) => y = opp /\ opp' = [c EXCEPT !.version = @ + 1]
      <4> HIDE DEF c
      <4> QED
        BY <1>2, <3>1, <3>2, <3>3, HoldWrites DEF Pcs
    <3>5. Fresh(p) => opp.assigned = "nobody" \/ (opp.assigned = "ai" /\ accepted[AutoReply] = 0)
      BY <1>1, <2>2, <3>1 DEF HoldOK, Opportunity
    <3>6. Fresh(p) => Replies!ToHuman
      BY <1>2, <2>2, <3>4, <3>5 DEF Replies!ToHuman, Replies!Write
    <3> QED
      BY <3>4, <3>6, UnseenStep DEF Implements, Replies!Next
  <2> QED
    BY <2>1, <2>2
<1> QED
  BY <1>3, <1>4, <1>5, <1>6

\* Where a session takes the committed row: at its start and at a refresh.
LEMMA LoadImplements ==
    ASSUME ConstantsAssumption, IInv, HoldInv, NEW p \in Procs,
           MarkReady(p) \/ LoadClaimed(p) \/ Start(p)
    PROVE  Implements
<1>1. UNCHANGED <<opp, accepted, messages>>
  BY DEF MarkReady, LoadClaimed, Start, StartAuto, StartManual, outside
<1>2. procs \in [Procs -> Proc] /\ procs[p] \in Proc /\ HoldOK(procs[p]) /\ opp \in Opportunity
  BY Kinds DEF HoldInv
<1>3. \E x : /\ Moves(p, x) /\ x.target \in {"following", "replied"}
             /\ x.pc \in {"lookup", "reserve", "claim_ready", "send_auto"}
             /\ x.pc = "send_auto" => opp.assigned = "ai" /\ x.copy = opp
             /\ PreSend(x) => PreSend(procs[p])
  <2>1. CASE MarkReady(p) \/ LoadClaimed(p)
    <3>1. PICK pc \in {"claim_ready", "send_auto"} :
            /\ procs' = [procs EXCEPT ![p].pc = pc, ![p].copy = opp]
            /\ procs[p].pc = IF pc = "send_auto" THEN "claimed" ELSE "ready"
      BY <2>1 DEF MarkReady, LoadClaimed
    <3>2. PICK x : x = [procs[p] EXCEPT !.pc = pc, !.copy = opp]
      OBVIOUS
    <3>3. /\ x \in Proc /\ x.pc = pc /\ x.target = procs[p].target /\ x.copy = opp
          /\ procs' = [procs EXCEPT ![p] = x]
      BY <1>2, <3>1, <3>2 DEF Proc, Pcs
    <3> QED
      BY <1>2, <3>1, <3>3 DEF Moves, HoldOK, PreSend, Claimed
  <2>2. CASE StartAuto(p)
    <3>1. PICK x : x = [Idle EXCEPT !.pc = "lookup", !.copy = opp]
      OBVIOUS
    <3>2. procs' = [procs EXCEPT ![p] = x]
      BY <2>2, <3>1 DEF StartAuto
    <3>3. x \in Proc /\ x.pc = "lookup"
      BY <1>2, <3>1, IdleProc DEF Proc, Pcs
    <3>4. x.target = "replied"
      BY <3>1 DEF Idle
    <3> QED
      BY <3>2, <3>3, <3>4 DEF Moves, PreSend
  <2>3. ASSUME NEW k \in Keys, StartManual(p, k)
        PROVE  \E x : /\ Moves(p, x) /\ x.target \in {"following", "replied"}
                      /\ x.pc = "reserve"
    <3>1. PICK target \in {"following", "replied"} :
            procs' = [procs EXCEPT ![p] = [Idle EXCEPT !.pc = "reserve", !.key = k,
                                                       !.target = target, !.copy = opp]]
      BY <2>3 DEF StartManual
    <3>2. PICK x : x = [Idle EXCEPT !.pc = "reserve", !.key = k, !.target = target, !.copy = opp]
      OBVIOUS
    <3>3. x \in Proc /\ x.pc = "reserve" /\ x.target = target
      BY <1>2, <3>2, IdleProc DEF Proc, Pcs, Statuses
    <3> QED
      BY <3>1, <3>2, <3>3 DEF Moves
  <2>4. CASE \E k \in Keys : StartManual(p, k)
    BY <2>3, <2>4 DEF PreSend
  <2> QED
    BY <2>1, <2>2, <2>4 DEF Start
<1>4. PICK x : /\ Moves(p, x) /\ x.target \in {"following", "replied"}
               /\ x.pc \in {"lookup", "reserve", "claim_ready", "send_auto"}
               /\ x.pc = "send_auto" => opp.assigned = "ai" /\ x.copy = opp
               /\ PreSend(x) => PreSend(procs[p])
  BY <1>3
<1>5. HoldOK(x)'
  BY <1>1, <1>4 DEF HoldOK, Claimed
<1>6. \A q \in Procs \ {p} : Claimed(procs[q]) => opp'.assigned = "ai"
  BY <1>1 DEF HoldInv, HoldOK
<1>7. HoldInv'
  BY <1>1, <1>4, <1>5, <1>6, Kinds, HoldStep
<1> QED
  BY <1>1, <1>7, UnseenStep DEF Implements

\* The other writers take nothing from the automatic reply.
LEMMA OthersImplement ==
    ASSUME ConstantsAssumption, IInv, HoldInv, Others
    PROVE  Implements
<1>1. opp \in Opportunity /\ opp.version \in Nat /\ Targets \subseteq Statuses
  BY Kinds DEF ConstantsAssumption
<1>2. /\ opp'.version = opp.version + 1 /\ (opp.assigned = "ai" => opp'.assigned = "ai")
      /\ UNCHANGED <<accepted, messages, procs>>
  BY <1>1 DEF Others, Archive, Restore, ClaimOpportunity, SetStatus, Change, Opportunity, outside
<1>3. HoldInv'
  <2>1. ASSUME NEW q \in Procs PROVE HoldOK(procs[q])' /\ (Stale(procs[q]) => Stale(procs[q])')
    BY <1>1, <1>2, Kinds DEF HoldInv, HoldOK, Stale
  <2> QED
    BY <1>2, <2>1 DEF HoldInv, PreSend
<1>4. CASE Archive
  <2>1. Replies!Write([opp EXCEPT !.archived = TRUE])
    BY <1>4 DEF Archive, Change, outside, Replies!Write
  <2> QED
    BY <1>3, <2>1 DEF Replies!Archive, Replies!Next, Implements
<1>5. CASE Restore
  <2>1. Replies!Write([opp EXCEPT !.archived = FALSE])
    BY <1>5 DEF Restore, Change, outside, Replies!Write
  <2> QED
    BY <1>3, <2>1 DEF Replies!Archive, Replies!Next, Implements
<1>6. CASE ClaimOpportunity
  <2>1. Replies!Claim
    BY <1>6 DEF ClaimOpportunity, Change, outside, Replies!Claim, Replies!Write
  <2> QED
    BY <1>3, <2>1 DEF Replies!Next, Implements
<1>7. ASSUME NEW s \in Targets, SetStatus(s) PROVE Implements
  <2>1. Replies!Move(s)
    BY <1>7 DEF SetStatus, Change, outside, Replies!Move, Replies!Write, Replies!Allowed, Allowed
  <2>2. s \in Replies!Statuses
    BY <1>1, <1>7 DEF Statuses, Replies!Statuses
  <2> QED
    BY <1>3, <2>1, <2>2 DEF Replies!Next, Implements
<1> QED
  BY <1>4, <1>5, <1>6, <1>7 DEF Others

LEMMA InitReplies == Init => HoldInv /\ Replies!Init
<1> SUFFICES ASSUME Init PROVE HoldInv /\ Replies!Init
  OBVIOUS
<1>1. \A p \in Procs : procs[p] = Idle
  BY DEF Init
<1>2. HoldOK(Idle) /\ Idle.pc = "idle"
  BY DEF HoldOK, Idle, Claimed
<1>3. Replies!Init
  BY DEF Init, Replies!Init
<1> QED
  BY <1>1, <1>2, <1>3 DEF HoldInv, PreSend

LEMMA StepReplies == ConstantsAssumption /\ IInv /\ HoldInv /\ [Next]_vars => Implements
<1> SUFFICES ASSUME ConstantsAssumption, IInv, HoldInv, [Next]_vars PROVE Implements
  OBVIOUS
<1>1. CASE Others
  BY <1>1, OthersImplement
<1>2. ASSUME NEW p \in Procs, Start(p) \/ Crash(p) PROVE Implements
  BY <1>2, LoadImplements, AutoImplements
<1>3. ASSUME NEW p \in Procs, ManualStep(p) PROVE Implements
  BY <1>3, ManualImplements, FinalizeImplements DEF ManualStep
<1>4. ASSUME NEW p \in Procs, AutoStep(p) PROVE Implements
  BY <1>4, AutoImplements, SendingImplements, WritingImplements, LoadImplements DEF AutoStep
<1>5. CASE UNCHANGED vars
  <2>1. UNCHANGED <<opp, accepted, messages, procs>>
    BY <1>5 DEF vars, outside
  <2>2. HoldInv'
    BY <2>1 DEF HoldInv, HoldOK, PreSend, Stale
  <2> QED
    BY <2>1, <2>2, UnseenStep DEF Implements
<1> QED
  BY <1>1, <1>2, <1>3, <1>4, <1>5 DEF Next

\* Whatever copies, retries and crashes do, each write of the opportunity is one
\* CustomerReplies allows: made over the committed row, and legal on it but for
\* the status an automatic reply ends with; what is held for the automatic reply
\* is given up only by it, answered or unsent.
THEOREM RepliesAsPromised == Spec => RepliesSpec
<1>1. Init => HoldInv /\ Replies!Init
  BY InitReplies
<1>2. ConstantsAssumption /\ IInv /\ HoldInv /\ [Next]_vars =>
          HoldInv' /\ [Replies!Next]_(Replies!vars)
  BY StepReplies DEF Implements
<1> QED
  BY <1>1, <1>2, Invariant, ConstantsAssumption, PTL DEF Spec, RepliesSpec, Replies!Spec
=============================================================================
