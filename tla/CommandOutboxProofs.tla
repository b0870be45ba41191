------------------------- MODULE CommandOutboxProofs -------------------------
(***************************************************************************)
(* What is proved of CommandOutbox, for any opportunities, commands and     *)
(* bounds: a command takes effect on the version its user saw or not at     *)
(* all, what the phone reports of it is true, and together phone, network   *)
(* and server implement StatusChanges.                                      *)
(***************************************************************************)
EXTENDS CommandOutbox, FiniteSetTheorems, SequenceTheorems, TLAPS

\* A request of the command is on its way or being handled.
Requested(c) == \E r \in requests : r.command = c

Busy(c) == drain.command = c \/ Requested(c)

\* No request can apply the command: the opportunity has moved on, or the
\* version it expects does not admit it.
Doomed(c) ==
    LET o == Target(c)
        seen == opp[o][outbox[c].expected]
    IN Version(o) > outbox[c].expected \/ seen.archived \/ ~Allowed(seen.status, outbox[c].status)

Untouched(c) == applied[c] = {} /\ (Requested(c) => Doomed(c))

CommandOK(c) ==
    /\ outbox[c].state # "unused" =>
          Target(c) \in Opportunities /\ outbox[c].expected \in 1..Version(Target(c))
    /\ outbox[c].error = "version_conflict" =>
          outbox[c].state \in {"failed", "deleted"} /\ Untouched(c)
    /\ applied[c] \subseteq {outbox[c].expected}
    /\ applied[c] # {} =>
          /\ outbox[c].state # "unused" /\ outbox[c].attempts >= 1
          /\ c \in receipts \/ (c \in overdue /\ ~Busy(c))
    /\ c \in receipts => applied[c] # {}
    /\ outbox[c].state = "succeeded" => applied[c] # {}

\* Every attempt beyond MaxAttempts was cut short by a fault.
AttemptsOK(c) ==
    /\ outbox[c].attempts <= MaxAttempts + faults
    /\ outbox[c].state \in Active /\ drain.command # c => outbox[c].attempts < MaxAttempts + faults
    /\ drain.command = c /\ drain.verdict = "interrupted" =>
          outbox[c].attempts < MaxAttempts + faults

\* An earlier copy than the one the user saw is never loaded.
RequestOK(r) ==
    LET c == r.command IN
    /\ outbox[c].state # "unused" /\ outbox[c].attempts >= 1
    /\ r.loaded = 0 \/ r.loaded \in outbox[c].expected..Version(Target(c))

DrainOK ==
    /\ drain.command \in Commands =>
          /\ outbox[drain.command].state \in {"running", "deleted"}
          /\ outbox[drain.command].error # "version_conflict"
          /\ outbox[drain.command].attempts >= 1
    /\ drain.pc = "check" /\ outbox[drain.command].attempts = 1 =>
          applied[drain.command] = {} /\ ~Requested(drain.command)
    /\ drain.pc = "mark" => drain.verdict # "none"
    /\ drain.pc = "mark" /\ drain.verdict = "succeeded" => applied[drain.command] # {}
    /\ drain.pc = "mark" /\ drain.verdict = "version_conflict" => Untouched(drain.command)
    /\ drain.pc \in {"check", "wait"} => drain.verdict = "none"

IInv ==
    /\ TypeOK
    /\ \A o \in Opportunities : store[o] <= Version(o)
    /\ \A c \in Commands : CommandOK(c) /\ AttemptsOK(c)
    /\ \A r \in requests : RequestOK(r)
    /\ DrainOK

-----------------------------------------------------------------------------
(* The opportunities. *)

\* Contents are only added.
Grows ==
    \A o \in Opportunities :
        /\ Len(opp'[o]) \in Nat /\ Version(o) <= Len(opp'[o])
        /\ \A n \in 1..Version(o) : opp'[o][n] = opp[o][n]

LEMMA GrowsIfSame == ASSUME TypeOK, opp' = opp PROVE Grows
BY LenProperties DEF TypeOK, Grows, Version

LEMMA GrowsIfAppended ==
    ASSUME TypeOK, NEW o \in Opportunities, NEW content \in Content,
           opp' = [opp EXCEPT ![o] = Append(@, content)]
    PROVE  /\ Grows /\ Len(opp'[o]) = Version(o) + 1
           /\ opp' \in [Opportunities -> Seq(Content)]
           /\ \A q \in Opportunities : Len(opp'[q]) > 0
<1>1. opp \in [Opportunities -> Seq(Content)] /\ \A q \in Opportunities : Len(opp[q]) \in Nat /\ Len(opp[q]) > 0
  BY LenProperties DEF TypeOK, Version
<1>2. /\ Append(opp[o], content) \in Seq(Content)
      /\ Len(Append(opp[o], content)) = Len(opp[o]) + 1
      /\ \A n \in 1..Len(opp[o]) : Append(opp[o], content)[n] = opp[o][n]
  BY <1>1, AppendProperties
<1>3. opp'[o] = Append(opp[o], content) /\ \A q \in Opportunities \ {o} : opp'[q] = opp[q]
  BY <1>1
<1>4. opp' \in [Opportunities -> Seq(Content)]
  BY <1>1, <1>2
<1> QED
  BY <1>1, <1>2, <1>3, <1>4 DEF Grows, Version

\* What a step keeps of a command.
Kept(c) ==
    /\ outbox'[c].opportunity = outbox[c].opportunity
    /\ outbox'[c].expected = outbox[c].expected
    /\ outbox'[c].status = outbox[c].status
    /\ outbox[c].attempts <= outbox'[c].attempts
    /\ outbox[c].state # "unused" => outbox'[c].state # "unused"

LEMMA CommandTypes ==
    ASSUME TypeOK, NEW c \in Commands
    PROVE  /\ outbox[c] \in Command
           /\ outbox[c].state \in {"unused", "succeeded", "failed", "deleted"} \cup Active
           /\ outbox[c].opportunity \in Opportunities \cup {"none"}
           /\ outbox[c].expected \in Nat /\ outbox[c].status \in Statuses
           /\ outbox[c].attempts \in 0..(MaxAttempts + MaxFaults)
           /\ outbox[c].error \in {"none", "version_conflict", "rejected", "retry_exhausted", "expired"}
           /\ c \in Nat /\ c # 0 /\ applied[c] \subseteq Nat
BY ConstantsAssumption DEF TypeOK, Command

LEMMA RequestTypes ==
    ASSUME TypeOK, NEW r \in requests
    PROVE  r \in Request /\ r.command \in Commands /\ r.attempt \in Nat /\ r.loaded \in Nat
BY DEF TypeOK, Request

LEMMA CounterTypes ==
    ASSUME TypeOK
    PROVE  /\ faults \in 0..MaxFaults /\ faults \in Nat /\ MaxFaults \in Nat /\ MaxAttempts \in Nat
           /\ requests \subseteq Request
BY ConstantsAssumption DEF TypeOK

LEMMA DrainTypes ==
    ASSUME TypeOK
    PROVE  /\ drain.pc \in {"idle", "claim", "check", "wait", "mark"}
           /\ drain.verdict \in Verdicts
           /\ drain.pc \in {"idle", "claim"} =>
                 drain.command = 0 /\ drain.command \notin Commands /\ drain.verdict = "none"
           /\ drain.pc \in {"check", "wait", "mark"} => drain.command \in Commands
           /\ \A v \in Verdicts : drain.pc \in {"check", "wait"} =>
                 [drain EXCEPT !.pc = "mark", !.verdict = v] \in Drain
           /\ drain.pc = "check" => [drain EXCEPT !.pc = "wait"] \in Drain
           /\ Stopped \in Drain /\ [Stopped EXCEPT !.pc = "claim"] \in Drain
BY ConstantsAssumption DEF TypeOK, Drain, Stopped, Verdicts

LEMMA Versions ==
    ASSUME TypeOK, NEW o \in Opportunities
    PROVE  Version(o) \in Nat /\ Version(o) > 0
BY LenProperties DEF TypeOK, Version

-----------------------------------------------------------------------------
(* What a step that keeps a command leaves true of it. *)

\* A command that is doomed stays so.
LEMMA StaysDoomed ==
    ASSUME TypeOK, NEW c \in Commands, Target(c) \in Opportunities,
           outbox[c].expected \in 1..Version(Target(c)), Doomed(c), Grows, Kept(c)
    PROVE  Doomed(c)'
<1> DEFINE o == Target(c)
           e == outbox[c].expected
<1>1. /\ Version(o) <= Len(opp'[o]) /\ opp'[o][e] = opp[o][e] /\ Len(opp'[o]) \in Nat
      /\ Version(o) \in Nat /\ e \in Nat /\ Target(c)' = o /\ Version(o)' = Len(opp'[o])
  BY Versions, CommandTypes DEF Grows, Target, Kept, Version
<1>2. Version(o) > e => Version(o)' > e
  BY <1>1
<1> QED
  BY <1>1, <1>2 DEF Doomed, Version, Kept

LEMMA StaysUntouched ==
    ASSUME TypeOK, NEW c \in Commands, CommandOK(c), outbox[c].state # "unused", Untouched(c),
           Grows, Kept(c), applied'[c] = applied[c], Requested(c)' => Requested(c)
    PROVE  Untouched(c)'
<1>1. Requested(c) => Doomed(c)'
  BY StaysDoomed DEF CommandOK, Untouched
<1> QED
  BY <1>1 DEF Untouched

LEMMA CommandKept ==
    ASSUME TypeOK, NEW c \in Commands, CommandOK(c), Grows, Kept(c),
           outbox'[c].state # "unused" => outbox[c].state # "unused",
           outbox'[c].attempts \in Nat,
           applied'[c] = applied[c], c \in receipts' <=> c \in receipts,
           c \in overdue => c \in overdue' /\ (Busy(c)' => Busy(c)),
           outbox'[c].error = "version_conflict" =>
              outbox'[c].state \in {"failed", "deleted"} /\ Untouched(c)',
           outbox'[c].state = "succeeded" => applied[c] # {}
    PROVE  CommandOK(c)'
<1>1. ASSUME outbox[c].state # "unused"
      PROVE  Target(c)' \in Opportunities /\ outbox'[c].expected \in 1..Version(Target(c))'
  <2>1. /\ Target(c) \in Opportunities /\ outbox[c].expected \in 1..Version(Target(c))
        /\ Target(c)' = Target(c) /\ outbox'[c].expected = outbox[c].expected
    BY <1>1 DEF CommandOK, Kept, Target
  <2>2. /\ Version(Target(c)) <= Len(opp'[Target(c)]) /\ Len(opp'[Target(c)]) \in Nat
        /\ Version(Target(c)) \in Nat
    BY <2>1, Versions DEF Grows
  <2> QED
    BY <2>1, <2>2 DEF Version
<1>2. applied[c] # {} => outbox'[c].state # "unused" /\ outbox'[c].attempts >= 1
  BY CommandTypes DEF CommandOK, Kept
<1> QED
  BY <1>1, <1>2 DEF CommandOK, Kept

LEMMA RequestKept ==
    ASSUME TypeOK, NEW r \in requests, CommandOK(r.command), RequestOK(r), Grows,
           Kept(r.command), outbox'[r.command].attempts \in Nat
    PROVE  RequestOK(r)'
<1> DEFINE c == r.command
<1>1. /\ c \in Commands /\ r.loaded \in Nat /\ outbox[c].attempts \in Nat
      /\ outbox[c].expected \in Nat
  BY RequestTypes, CommandTypes
<1>2. /\ Target(c) \in Opportunities /\ Target(c)' = Target(c)
      /\ Version(Target(c)) <= Len(opp'[Target(c)]) /\ Len(opp'[Target(c)]) \in Nat
      /\ Version(Target(c)) \in Nat
  BY <1>1, Versions DEF RequestOK, CommandOK, Grows, Kept, Target
<1>3. outbox'[c].state # "unused" /\ outbox'[c].attempts >= 1
  BY <1>1 DEF RequestOK, Kept
<1>4. r.loaded = 0 \/ r.loaded \in outbox'[c].expected..Version(Target(c))'
  BY <1>1, <1>2 DEF RequestOK, Kept, Version
<1> QED
  BY <1>3, <1>4 DEF RequestOK

LEMMA DrainKept ==
    ASSUME IInv, drain' = drain, Grows,
           ASSUME NEW c \in Commands, c = drain.command
           PROVE  /\ Kept(c) /\ outbox'[c].state \in {outbox[c].state, "deleted"}
                  /\ outbox'[c].attempts = outbox[c].attempts
                  /\ outbox'[c].error = outbox[c].error
                  /\ applied'[c] = applied[c] /\ (Requested(c)' => Requested(c))
    PROVE  DrainOK'
<1> DEFINE c == drain.command
<1>1. CASE c \notin Commands
  BY <1>1, DrainTypes DEF IInv, DrainOK
<1>2. CASE c \in Commands
  <2>1. /\ Kept(c) /\ outbox'[c].state \in {outbox[c].state, "deleted"}
        /\ outbox'[c].attempts = outbox[c].attempts
        /\ outbox'[c].error = outbox[c].error
        /\ applied'[c] = applied[c] /\ (Requested(c)' => Requested(c))
    BY <1>2
  <2>2. TypeOK /\ DrainOK /\ CommandOK(c) /\ outbox[c].state # "unused"
    BY <1>2 DEF IInv, DrainOK
  <2>3. Untouched(c) => Untouched(c)'
    BY <1>2, <2>1, <2>2, StaysUntouched
  <2>4. /\ outbox'[c].state \in {"running", "deleted"} /\ outbox'[c].attempts >= 1
        /\ outbox'[c].error # "version_conflict"
    BY <1>2, <2>1, <2>2 DEF DrainOK
  <2>5. drain.pc = "check" /\ outbox'[c].attempts = 1 => applied'[c] = {} /\ ~Requested(c)'
    BY <2>1, <2>2 DEF DrainOK
  <2> QED
    BY <2>1, <2>2, <2>3, <2>4, <2>5 DEF DrainOK
<1> QED
  BY <1>1, <1>2

-----------------------------------------------------------------------------
(* Steps that leave the commands alone. *)

LEMMA Quiet ==
    ASSUME IInv, TypeOK', Grows, UNCHANGED <<outbox, applied, receipts, requests, drain>>,
           overdue \subseteq overdue', faults <= faults',
           \A o \in Opportunities : store'[o] <= Len(opp'[o])
    PROVE  IInv'
<1>1. TypeOK /\ faults \in Nat /\ faults' \in Nat
  BY ConstantsAssumption DEF IInv, TypeOK
<1>2. ASSUME NEW c \in Commands PROVE CommandOK(c)' /\ AttemptsOK(c)'
  <2>1. Kept(c) /\ outbox[c].attempts \in Nat /\ CommandOK(c) /\ AttemptsOK(c)
    BY <1>1, CommandTypes, ConstantsAssumption DEF Kept, IInv
  <2>2. (Requested(c)' <=> Requested(c)) /\ (Busy(c)' <=> Busy(c))
    BY DEF Requested, Busy
  <2>3. outbox[c].error = "version_conflict" =>
            outbox'[c].state \in {"failed", "deleted"} /\ Untouched(c)'
    BY <1>1, <2>1, <2>2, StaysUntouched DEF CommandOK
  <2>4. CommandOK(c)'
    BY <1>1, <2>1, <2>2, <2>3, CommandKept DEF CommandOK
  <2>5. AttemptsOK(c)'
    BY <1>1, <2>1, ConstantsAssumption DEF AttemptsOK
  <2> QED
    BY <2>4, <2>5
<1>3. ASSUME NEW r \in requests PROVE RequestOK(r)'
  <2>1. r.command \in Commands /\ CommandOK(r.command) /\ RequestOK(r)
    BY <1>1, RequestTypes DEF IInv
  <2>2. Kept(r.command) /\ outbox'[r.command].attempts \in Nat
    BY <1>1, <2>1, CommandTypes, ConstantsAssumption DEF Kept
  <2> QED
    BY <1>1, <2>1, <2>2, RequestKept
<1>4. DrainOK'
  <2>1. ASSUME NEW c \in Commands
        PROVE  Kept(c) /\ (Requested(c)' => Requested(c))
    BY <1>1, CommandTypes DEF Kept, Requested
  <2> QED
    BY <2>1, DrainKept
<1>5. \A o \in Opportunities : store'[o] <= Version(o)'
  BY DEF Version
<1> QED
  BY <1>2, <1>3, <1>4, <1>5 DEF IInv

LEMMA StoreKept ==
    ASSUME TypeOK, Grows, \A o \in Opportunities : store[o] <= Version(o), store' = store
    PROVE  \A o \in Opportunities : store'[o] <= Len(opp'[o])
<1> TAKE o \in Opportunities
<1>1. /\ store[o] \in Nat /\ Version(o) \in Nat /\ store[o] <= Version(o)
      /\ Len(opp'[o]) \in Nat /\ Version(o) <= Len(opp'[o])
  BY Versions DEF TypeOK, Grows
<1> QED
  BY <1>1

LEMMA WriteStep == ASSUME IInv, NEW o \in Opportunities, Write(o) PROVE IInv'
<1>1. PICK content \in Content : opp' = [opp EXCEPT ![o] = Append(@, content)]
  BY DEF Write
<1>2. /\ Grows /\ opp' \in [Opportunities -> Seq(Content)]
      /\ \A q \in Opportunities : Len(opp'[q]) > 0
  BY <1>1, GrowsIfAppended DEF IInv
<1>3. UNCHANGED <<receipts, store, ready, outbox, overdue, drain, requests, applied, faults>>
  BY DEF Write, phone
<1>4. TypeOK'
  BY <1>2, <1>3 DEF IInv, TypeOK, Version
<1>5. \A q \in Opportunities : store'[q] <= Len(opp'[q])
  BY <1>2, <1>3, StoreKept DEF IInv
<1> QED
  BY <1>2, <1>3, <1>4, <1>5, Quiet DEF IInv, TypeOK

\* The replica takes versions the server has.
LEMMA ReplicaStep ==
    ASSUME IInv, Sync \/ Reset PROVE IInv'
<1> DEFINE Rows == [Opportunities -> 0..(MaxForeign + Cardinality(Commands))]
<1>1. /\ UNCHANGED <<opp, receipts, outbox, overdue, drain, requests, applied>>
      /\ faults' \in 0..MaxFaults /\ faults <= faults' /\ ready' \in BOOLEAN
      /\ store' \in Rows /\ \A o \in Opportunities : store'[o] <= Version(o)
  <2>1. CASE Sync
    BY <2>1, ConstantsAssumption DEF Sync, IInv, TypeOK, Replica!Fill, Replica!Rows, Replica!AtMost
  <2>2. CASE Reset
    <3>1. faults' \in 0..MaxFaults /\ faults <= faults'
      BY <2>2, ConstantsAssumption DEF Reset, IInv, TypeOK
    <3>2. Replica!Lose /\ UNCHANGED <<opp, receipts, outbox, overdue, drain, requests, applied>>
      BY <2>2 DEF Reset
    <3>3. ready' \in BOOLEAN /\ store' \in Rows /\ \A o \in Opportunities : store'[o] <= Version(o)
      BY <3>2 DEF Replica!Lose, Replica!Rows, Replica!AtMost
    <3> QED
      BY <3>1, <3>2, <3>3
  <2> QED
    BY <2>1, <2>2
<1>2. store' \in [Opportunities -> Nat]
  BY <1>1, ConstantsAssumption, FS_CardinalityType
<1>3. TypeOK'
  BY <1>1, <1>2 DEF IInv, TypeOK, Version
<1>4. Grows /\ \A o \in Opportunities : store'[o] <= Len(opp'[o])
  BY <1>1, GrowsIfSame DEF IInv, Version
<1> QED
  BY <1>1, <1>3, <1>4, Quiet

LEMMA OverdueStep == ASSUME IInv, NEW c \in Commands, Overdue(c) PROVE IInv'
<1>1. /\ UNCHANGED <<opp, receipts, store, ready, outbox, drain, requests, applied, faults>>
      /\ overdue' = overdue \cup {c}
  BY DEF Overdue, replica
<1>2. TypeOK'
  BY <1>1 DEF IInv, TypeOK, Version
<1>3. Grows /\ \A o \in Opportunities : store'[o] <= Len(opp'[o])
  BY <1>1, GrowsIfSame DEF IInv, Version
<1> QED
  BY <1>1, <1>2, <1>3, Quiet DEF IInv, TypeOK

-----------------------------------------------------------------------------
(* The phone changes rows of its outbox, the server nothing. *)

LEMMA RowCarries ==
    ASSUME IInv, UNCHANGED <<opp, receipts, overdue, applied>>, NEW c \in Commands, Kept(c),
           outbox'[c].attempts \in Nat,
           outbox'[c].state # "unused" => outbox[c].state # "unused",
           Requested(c)' => Requested(c),
           drain'.command = c => drain.command = c \/ c \notin overdue,
           outbox'[c].error = "version_conflict" =>
              /\ outbox'[c].state \in {"failed", "deleted"} /\ outbox[c].state # "unused"
              /\ Untouched(c),
           outbox'[c].state = "succeeded" => applied[c] # {}
    PROVE  CommandOK(c)'
<1>1. TypeOK /\ Grows /\ CommandOK(c)
  BY GrowsIfSame DEF IInv
<1>2. outbox'[c].error = "version_conflict" =>
          outbox'[c].state \in {"failed", "deleted"} /\ Untouched(c)'
  BY <1>1, StaysUntouched
<1>3. c \in overdue => c \in overdue' /\ (Busy(c)' => Busy(c))
  BY DEF Busy
<1> QED
  BY <1>1, <1>2, <1>3, CommandKept

\* What a step that is not the drain's may do to a row.
Settles(c) ==
    /\ Kept(c) /\ outbox'[c].attempts = outbox[c].attempts
    /\ outbox'[c].state # "unused" => outbox[c].state # "unused"
    /\ outbox'[c].error = "version_conflict" =>
          outbox[c].error = "version_conflict" /\ outbox'[c].state \in {outbox[c].state, "deleted"}
    /\ outbox'[c].state = "succeeded" => outbox[c].state = "succeeded"
    /\ outbox'[c].state \in Active => outbox[c].state \in Active

LEMMA RowsSettle ==
    ASSUME IInv, TypeOK', UNCHANGED <<opp, receipts, overdue, requests, applied>>,
           faults <= faults', \A o \in Opportunities : store'[o] <= Version(o),
           \A c \in Commands : Settles(c),
           \/ /\ drain' = drain
              /\ \A c \in Commands : c = drain.command =>
                    outbox'[c].error = outbox[c].error /\ outbox'[c].state \in {outbox[c].state, "deleted"}
           \/ drain.command = 0 /\ drain' \in {Stopped, [Stopped EXCEPT !.pc = "claim"]}
    PROVE  IInv'
<1>1. /\ TypeOK /\ faults \in Nat /\ faults' \in Nat /\ Grows /\ 0 \notin Commands
      /\ drain'.command = drain.command
  BY ConstantsAssumption, GrowsIfSame DEF IInv, TypeOK, Stopped
<1>2. ASSUME NEW c \in Commands PROVE CommandOK(c)' /\ AttemptsOK(c)'
  <2>1. /\ CommandOK(c) /\ AttemptsOK(c) /\ Settles(c)
        /\ outbox[c].attempts \in Nat /\ outbox'[c].attempts \in Nat
        /\ Requested(c)' <=> Requested(c)
    BY <1>1, CommandTypes, ConstantsAssumption DEF IInv, Requested, Settles
  <2>2. CommandOK(c)'
    <3>1. outbox'[c].error = "version_conflict" =>
              /\ outbox'[c].state \in {"failed", "deleted"} /\ outbox[c].state # "unused"
              /\ Untouched(c)
      BY <2>1 DEF CommandOK, Settles
    <3>2. outbox'[c].state = "succeeded" => applied[c] # {}
      BY <2>1 DEF CommandOK, Settles
    <3> QED
      BY <1>1, <2>1, <3>1, <3>2, RowCarries DEF Settles
  <2>3. AttemptsOK(c)'
    <3>1. drain'.verdict = "interrupted" => drain' = drain
      BY DEF Stopped
    <3> QED
      BY <1>1, <2>1, <3>1, ConstantsAssumption DEF AttemptsOK, Settles
  <2> QED
    BY <2>2, <2>3
<1>3. ASSUME NEW r \in requests PROVE RequestOK(r)'
  <2>1. r.command \in Commands /\ CommandOK(r.command) /\ RequestOK(r) /\ Settles(r.command)
    BY <1>1, RequestTypes DEF IInv
  <2>2. Kept(r.command) /\ outbox'[r.command].attempts \in Nat
    BY <1>1, <2>1, CommandTypes, ConstantsAssumption DEF Settles
  <2> QED
    BY <1>1, <2>1, <2>2, RequestKept
<1>4. DrainOK'
  <2>1. CASE drain' = drain /\ drain.command \in Commands
    BY <1>1, <2>1, DrainKept DEF Settles, Requested
  <2>2. CASE drain' = drain /\ drain.command \notin Commands
    BY <2>2, <1>1, DrainTypes DEF DrainOK
  <2>3. CASE drain' \in {Stopped, [Stopped EXCEPT !.pc = "claim"]}
    BY <2>3, <1>1 DEF DrainOK, Stopped
  <2> QED
    BY <1>1, <2>1, <2>2, <2>3
<1>5. \A o \in Opportunities : store'[o] <= Version(o)'
  BY DEF Version
<1> QED
  BY <1>2, <1>3, <1>4, <1>5 DEF IInv

LEMMA TypesKept ==
    ASSUME TypeOK, UNCHANGED <<opp, receipts, overdue, applied>>,
           store' \in [Opportunities -> Nat], ready' \in BOOLEAN,
           outbox' \in [Commands -> Command], drain' \in Drain, requests' \subseteq Request,
           faults' \in 0..MaxFaults
    PROVE  TypeOK'
BY DEF TypeOK, Version

LEMMA StoppedTypes == Stopped \in Drain /\ [Stopped EXCEPT !.pc = "claim"] \in Drain
BY DEF Drain, Stopped

\* A row whose state alone changes stays a row.
LEMMA StateChanges ==
    ASSUME TypeOK, NEW c \in Commands,
           NEW s \in {"unused", "succeeded", "failed", "deleted"} \cup Active
    PROVE  /\ [outbox[c] EXCEPT !.state = s] \in Command
           /\ [outbox EXCEPT ![c].state = s] \in [Commands -> Command]
<1>1. outbox \in [Commands -> Command] /\ outbox[c] \in Command
  BY DEF TypeOK
<1>2. [outbox[c] EXCEPT !.state = s] \in Command
  BY <1>1 DEF Command
<1>3. [outbox EXCEPT ![c].state = s] = [outbox EXCEPT ![c] = [outbox[c] EXCEPT !.state = s]]
  BY <1>1
<1> QED
  BY <1>1, <1>2, <1>3

LEMMA SignOutStep == ASSUME IInv, SignOut PROVE IInv'
<1>1. TypeOK /\ \A c \in Commands : CommandOK(c)
  BY DEF IInv
<1>2. /\ UNCHANGED <<opp, receipts, overdue, requests, applied, drain>>
      /\ faults' \in 0..MaxFaults /\ faults <= faults'
      /\ store' = [o \in Opportunities |-> 0] /\ ready' = FALSE
  <2>1. faults \in 0..MaxFaults /\ faults < MaxFaults /\ faults' = faults + 1 /\ MaxFaults \in Nat
    BY <1>1, ConstantsAssumption DEF SignOut, TypeOK
  <2> QED
    BY <2>1 DEF SignOut
<1>3. ASSUME NEW c \in Commands
      PROVE  outbox'[c] = IF outbox[c].state = "unused" THEN outbox[c]
                          ELSE [outbox[c] EXCEPT !.state = "deleted"]
  BY DEF SignOut
<1>4. outbox' \in [Commands -> Command]
  <2>1. \A c \in Commands : outbox[c] \in Command /\ [outbox[c] EXCEPT !.state = "deleted"] \in Command
    BY <1>1, StateChanges, CommandTypes
  <2> QED
    BY <2>1 DEF SignOut
<1>5. TypeOK' /\ \A o \in Opportunities : store'[o] <= Version(o)
  <2>1. store' \in [Opportunities -> Nat] /\ \A o \in Opportunities : store'[o] <= Version(o)
    BY <1>1, <1>2, Versions
  <2>2. drain' \in Drain /\ requests' \subseteq Request
    BY <1>1, <1>2 DEF TypeOK
  <2> QED
    BY <1>1, <1>2, <1>4, <2>1, <2>2, TypesKept
<1>6. ASSUME NEW c \in Commands
      PROVE  /\ Settles(c) /\ outbox'[c].error = outbox[c].error
             /\ outbox'[c].state \in {outbox[c].state, "deleted"}
  <2>1. outbox[c] \in Command /\ outbox[c].attempts \in Nat
    BY <1>1, CommandTypes, ConstantsAssumption
  <2>2. CASE outbox[c].state = "unused"
    <3>1. outbox'[c] = outbox[c]
      BY <1>3, <2>2
    <3> QED
      BY <2>1, <3>1, SMTT(30) DEF Settles, Kept
  <2>3. CASE outbox[c].state # "unused"
    <3>1. outbox'[c] = [outbox[c] EXCEPT !.state = "deleted"]
      BY <1>3, <2>3
    <3>2. /\ outbox'[c].state = "deleted" /\ outbox'[c].error = outbox[c].error
          /\ outbox'[c].opportunity = outbox[c].opportunity
          /\ outbox'[c].expected = outbox[c].expected /\ outbox'[c].status = outbox[c].status
          /\ outbox'[c].attempts = outbox[c].attempts
      BY <2>1, <3>1 DEF Command
    <3> QED
      BY <2>1, <2>3, <3>2 DEF Settles, Kept, Active
  <2> QED
    BY <2>2, <2>3
<1> QED
  BY <1>2, <1>5, <1>6, RowsSettle

\* The user or the time changes the state of one row.
LEMMA OneRowStep ==
    ASSUME IInv, NEW c \in Commands, Dismiss(c) \/ BackoffEnds(c) \/ GoesStale(c) PROVE IInv'
<1>1. TypeOK /\ DrainOK
  BY DEF IInv
<1>2. PICK s \in {"deleted", "due", "stale"} :
      /\ outbox' = [outbox EXCEPT ![c].state = s]
      /\ UNCHANGED <<opp, receipts, store, ready, overdue, requests, applied, drain, faults>>
      /\ s = "deleted" \/ outbox[c].state \in {"backoff", "running"}
      /\ c # drain.command /\ outbox[c].state # "unused"
  <2>1. CASE Dismiss(c)
    BY <2>1, <1>1 DEF Dismiss, replica, DrainOK
  <2>2. CASE BackoffEnds(c)
    BY <2>2, <1>1 DEF BackoffEnds, replica, DrainOK
  <2>3. CASE GoesStale(c)
    BY <2>3, <1>1, DrainTypes DEF GoesStale, replica
  <2> QED
    BY <2>1, <2>2, <2>3
<1>3. outbox' \in [Commands -> Command]
  BY <1>1, <1>2, StateChanges DEF Active
<1>4. TypeOK' /\ (\A o \in Opportunities : store'[o] <= Version(o)) /\ faults <= faults'
  BY <1>1, <1>2, <1>3, ConstantsAssumption DEF IInv, TypeOK, Version
<1>5. ASSUME NEW d \in Commands
      PROVE  Settles(d) /\ (d = drain.command => outbox'[d] = outbox[d])
  <2>1. CASE d = c
    <3>1. outbox'[c] = [outbox[c] EXCEPT !.state = s]
      BY <1>1, <1>2 DEF TypeOK
    <3>2. outbox[c].error = "version_conflict" => s = "deleted"
      BY <1>2 DEF IInv, CommandOK
    <3> QED
      BY <1>1, <1>2, <2>1, <3>1, <3>2, CommandTypes DEF Settles, Kept, Command, Active
  <2>2. CASE d # c
    <3>1. outbox'[d] = outbox[d]
      BY <1>1, <1>2, <2>2 DEF TypeOK
    <3> QED
      BY <1>1, <3>1, CommandTypes DEF Settles, Kept
  <2> QED
    BY <2>1, <2>2
<1> QED
  BY <1>2, <1>4, <1>5, RowsSettle

LEMMA StartDrainStep == ASSUME IInv, StartDrain PROVE IInv'
<1>1. TypeOK /\ \A c \in Commands : CommandOK(c)
  BY DEF IInv
<1>2. /\ UNCHANGED <<opp, receipts, store, ready, overdue, requests, applied, faults>>
      /\ drain.command = 0 /\ drain' = [Stopped EXCEPT !.pc = "claim"]
  <2>1. /\ UNCHANGED <<opp, receipts, store, ready, overdue, requests, applied, faults>>
        /\ drain.pc = "idle" /\ drain' = [Stopped EXCEPT !.pc = "claim"]
    BY DEF StartDrain, replica
  <2> QED
    BY <1>1, <2>1, DrainTypes
<1>3. ASSUME NEW c \in Commands
      PROVE  \/ /\ outbox[c].state \in Active
                /\ outbox'[c] = [outbox[c] EXCEPT !.state = "failed", !.error = "expired"]
             \/ outbox[c].state \in Active /\ outbox'[c] = [outbox[c] EXCEPT !.state = "due"]
             \/ outbox'[c] = outbox[c]
  <2>1. outbox'[c] = IF c \in ActiveCommands \cap overdue
                     THEN [outbox[c] EXCEPT !.state = "failed", !.error = "expired"]
                     ELSE IF outbox[c].state = "stale" THEN [outbox[c] EXCEPT !.state = "due"]
                     ELSE outbox[c]
    BY Zenon DEF StartDrain
  <2> QED
    BY <2>1, Zenon DEF ActiveCommands, Active
<1>4. ASSUME NEW c \in Commands
      PROVE  outbox'[c] \in Command /\ Settles(c)
  <2>1. /\ outbox[c] \in Command /\ CommandOK(c) /\ outbox[c].attempts \in Nat
    BY <1>1, CommandTypes, ConstantsAssumption
  <2>2. CASE /\ outbox[c].state \in Active
             /\ outbox'[c] = [outbox[c] EXCEPT !.state = "failed", !.error = "expired"]
    <3>1. outbox'[c] \in Command
      BY <2>1, <2>2 DEF Command
    <3>2. /\ outbox'[c].state = "failed" /\ outbox'[c].error = "expired"
          /\ outbox'[c].opportunity = outbox[c].opportunity
          /\ outbox'[c].expected = outbox[c].expected /\ outbox'[c].status = outbox[c].status
          /\ outbox'[c].attempts = outbox[c].attempts
      BY <2>1, <2>2 DEF Command
    <3> QED
      BY <2>1, <2>2, <3>1, <3>2 DEF Active, Settles, Kept
  <2>3. CASE outbox[c].state \in Active /\ outbox'[c] = [outbox[c] EXCEPT !.state = "due"]
    <3>1. outbox[c].error # "version_conflict"
      BY <2>1, <2>3 DEF CommandOK, Active
    <3> QED
      BY <2>1, <2>3, <3>1 DEF Command, Active, Settles, Kept
  <2>4. CASE outbox'[c] = outbox[c]
    BY <2>1, <2>4 DEF Settles, Kept
  <2> QED
    BY <1>3, <2>2, <2>3, <2>4
<1>5. outbox' \in [Commands -> Command]
  <2> DEFINE After(c) == IF c \in ActiveCommands \cap overdue
                         THEN [outbox[c] EXCEPT !.state = "failed", !.error = "expired"]
                         ELSE IF outbox[c].state = "stale" THEN [outbox[c] EXCEPT !.state = "due"]
                         ELSE outbox[c]
  <2>1. outbox' = [c \in Commands |-> After(c)]
    BY Zenon DEF StartDrain
  <2>2. \A c \in Commands : outbox'[c] \in Command
    BY <1>4
  <2> HIDE DEF After
  <2> QED
    BY <2>1, <2>2
<1>6. TypeOK' /\ (\A o \in Opportunities : store'[o] <= Version(o)) /\ faults <= faults'
  <2>1. store' \in [Opportunities -> Nat] /\ ready' \in BOOLEAN /\ requests' \subseteq Request
    BY <1>1, <1>2 DEF TypeOK
  <2>2. faults' \in 0..MaxFaults /\ faults <= faults'
    BY <1>1, <1>2, ConstantsAssumption DEF TypeOK
  <2>3. TypeOK'
    BY <1>1, <1>2, <1>5, <2>1, <2>2, StoppedTypes, TypesKept
  <2>4. \A o \in Opportunities : store'[o] <= Version(o)
    BY <1>2 DEF IInv
  <2> QED
    BY <2>2, <2>3, <2>4
<1> QED
  BY <1>2, <1>4, <1>6, RowsSettle

LEMMA EndDrainStep == ASSUME IInv, EndDrain PROVE IInv'
<1>1. TypeOK
  BY DEF IInv
<1>2. /\ UNCHANGED <<opp, receipts, store, ready, overdue, outbox, requests, applied, faults>>
      /\ drain.command = 0 /\ drain' = Stopped
  BY <1>1, DrainTypes DEF EndDrain, replica
<1>3. TypeOK' /\ (\A o \in Opportunities : store'[o] <= Version(o)) /\ faults <= faults'
  <2>1. /\ store' \in [Opportunities -> Nat] /\ ready' \in BOOLEAN /\ requests' \subseteq Request
        /\ outbox' \in [Commands -> Command]
    BY <1>1, <1>2 DEF TypeOK
  <2>2. faults' \in 0..MaxFaults /\ faults <= faults'
    BY <1>1, <1>2, ConstantsAssumption DEF TypeOK
  <2>3. TypeOK'
    BY <1>1, <1>2, <2>1, <2>2, StoppedTypes, TypesKept
  <2>4. \A o \in Opportunities : store'[o] <= Version(o)
    BY <1>2 DEF IInv
  <2> QED
    BY <2>2, <2>3, <2>4
<1>4. ASSUME NEW c \in Commands PROVE Settles(c)
  BY <1>1, <1>2, CommandTypes DEF Settles, Kept
<1> QED
  BY <1>2, <1>3, <1>4, RowsSettle

LEMMA EnqueueStep ==
    ASSUME IInv, NEW c \in Commands, NEW o \in Opportunities, NEW s \in Targets, Enqueue(c, o, s)
    PROVE  IInv'
<1> DEFINE new == [state |-> "pending", opportunity |-> o, expected |-> store[o],
                   status |-> s, attempts |-> 0, error |-> "none"]
           After(d) == IF d = c THEN new
                       ELSE IF Target(d) = o /\ outbox[d].state = "failed"
                       THEN [outbox[d] EXCEPT !.state = "deleted"]
                       ELSE outbox[d]
<1>1. /\ TypeOK /\ DrainOK /\ (\A d \in Commands : CommandOK(d) /\ AttemptsOK(d))
      /\ (\A r \in requests : RequestOK(r))
      /\ MaxAttempts \in Nat \ {0} /\ faults \in Nat /\ MaxFaults \in Nat /\ faults \in 0..MaxFaults
  BY ConstantsAssumption DEF IInv, TypeOK
<1>2. /\ UNCHANGED <<opp, receipts, store, ready, overdue, drain, requests, applied, faults>>
      /\ outbox[c].state = "unused" /\ store[o] > 0 /\ Grows
      /\ outbox' = [d \in Commands |-> After(d)]
  <2>1. outbox' = [d \in Commands |-> After(d)]
    BY DEF Enqueue
  <2> HIDE DEF After
  <2> QED
    BY <1>1, <2>1, GrowsIfSame DEF Enqueue, replica
<1>3. outbox'[c] = new /\ \A d \in Commands \ {c} :
        \/ outbox[d].state = "failed" /\ outbox'[d] = [outbox[d] EXCEPT !.state = "deleted"]
        \/ outbox'[d] = outbox[d]
  BY <1>2
<1> HIDE DEF After
<1>4. new \in Command
  <2>1. s \in Statuses /\ store[o] \in Nat
    BY <1>1, ConstantsAssumption DEF TypeOK
  <2> QED
    BY <1>1, <2>1 DEF Command, Active
<1>5. ASSUME NEW d \in Commands \ {c}
      PROVE  /\ outbox'[d] \in Command /\ Settles(d)
             /\ outbox[d].state # "failed" => outbox'[d] = outbox[d]
  <2>1. outbox[d] \in Command /\ outbox[d].attempts \in Nat
    BY <1>1, CommandTypes, ConstantsAssumption
  <2>2. CASE outbox[d].state = "failed" /\ outbox'[d] = [outbox[d] EXCEPT !.state = "deleted"]
    <3>1. outbox'[d] \in Command
      BY <1>1, <2>2, StateChanges
    <3>2. /\ outbox'[d].state = "deleted" /\ outbox'[d].error = outbox[d].error
          /\ outbox'[d].opportunity = outbox[d].opportunity
          /\ outbox'[d].expected = outbox[d].expected /\ outbox'[d].status = outbox[d].status
          /\ outbox'[d].attempts = outbox[d].attempts
      BY <2>1, <2>2 DEF Command
    <3> QED
      BY <2>1, <2>2, <3>1, <3>2 DEF Settles, Kept, Active
  <2>3. CASE outbox'[d] = outbox[d]
    BY <2>1, <2>3 DEF Settles, Kept
  <2> QED
    BY <1>3, <2>2, <2>3
<1>6. outbox' \in [Commands -> Command] /\ TypeOK'
  <2>1. \A d \in Commands : outbox'[d] \in Command
    BY <1>3, <1>4, <1>5
  <2>2. outbox' \in [Commands -> Command]
    BY <1>2, <2>1
  <2>3. /\ store' \in [Opportunities -> Nat] /\ ready' \in BOOLEAN /\ requests' \subseteq Request
        /\ drain' \in Drain /\ faults' \in 0..MaxFaults
    BY <1>1, <1>2 DEF TypeOK
  <2> QED
    BY <1>1, <1>2, <2>2, <2>3, TypesKept
<1>7. CommandOK(c)' /\ AttemptsOK(c)'
  <2>1. store[o] \in 1..Version(o) /\ Target(c)' = o /\ Version(o)' = Version(o)
    BY <1>1, <1>2, <1>3, Versions DEF IInv, TypeOK, Target, Version
  <2>2. applied'[c] = {} /\ c \notin receipts'
    BY <1>1, <1>2 DEF CommandOK
  <2>3. CommandOK(c)'
    BY <1>2, <1>3, <2>1, <2>2 DEF CommandOK
  <2>4. drain'.command # c
    BY <1>1, <1>2 DEF DrainOK
  <2> QED
    BY <1>1, <1>2, <1>3, <2>3, <2>4 DEF AttemptsOK
<1>8. ASSUME NEW d \in Commands \ {c} PROVE CommandOK(d)' /\ AttemptsOK(d)'
  <2>1. /\ CommandOK(d) /\ AttemptsOK(d) /\ Settles(d) /\ d \in Commands
        /\ outbox[d].attempts \in Nat /\ outbox'[d].attempts \in Nat
        /\ Requested(d)' <=> Requested(d)
    BY <1>1, <1>2, <1>5, CommandTypes, ConstantsAssumption DEF Requested, Settles
  <2>2. outbox'[d].error = "version_conflict" =>
            /\ outbox'[d].state \in {"failed", "deleted"} /\ outbox[d].state # "unused"
            /\ Untouched(d)
    BY <2>1 DEF CommandOK, Settles
  <2>3. outbox'[d].state = "succeeded" => applied[d] # {}
    BY <2>1 DEF CommandOK, Settles
  <2>4. CommandOK(d)'
    BY <1>2, <2>1, <2>2, <2>3, RowCarries DEF Settles
  <2> QED
    BY <1>1, <1>2, <2>1, <2>4 DEF AttemptsOK, Settles
<1>9. ASSUME NEW r \in requests PROVE RequestOK(r)'
  <2>1. r.command \in Commands \ {c}
    BY <1>1, <1>2, RequestTypes DEF RequestOK
  <2>2. Kept(r.command) /\ outbox'[r.command].attempts \in Nat /\ CommandOK(r.command)
    BY <1>1, <1>5, <2>1, CommandTypes, ConstantsAssumption DEF Settles
  <2> QED
    BY <1>1, <1>2, <2>2, RequestKept
<1>10. DrainOK'
  <2>1. ASSUME NEW d \in Commands, d = drain.command
        PROVE  d # c /\ outbox'[d] = outbox[d] /\ Kept(d) /\ (Requested(d)' => Requested(d))
    BY <1>1, <1>2, <1>5, <2>1 DEF DrainOK, Settles, Requested
  <2> QED
    BY <1>2, <2>1, DrainKept
<1>11. \A q \in Opportunities : store'[q] <= Version(q)'
  BY <1>2 DEF IInv, Version
<1> QED
  BY <1>2, <1>6, <1>7, <1>8, <1>9, <1>10, <1>11 DEF IInv

LEMMA ForgetStep == ASSUME IInv, NEW c \in Commands, ForgetReceipt(c) PROVE IInv'
<1>1. /\ TypeOK /\ (\A d \in Commands : CommandOK(d) /\ AttemptsOK(d))
      /\ (\A r \in requests : RequestOK(r))
  BY DEF IInv
<1>2. /\ UNCHANGED <<opp, store, ready, outbox, overdue, drain, requests, applied, faults>>
      /\ receipts' = receipts \ {c} /\ c \in overdue /\ ~Busy(c) /\ Grows
  BY <1>1, DrainTypes, GrowsIfSame DEF ForgetReceipt, phone, Busy, Requested
<1>3. TypeOK'
  BY <1>1, <1>2 DEF TypeOK, Version
<1>4. ASSUME NEW d \in Commands PROVE CommandOK(d)' /\ AttemptsOK(d)'
  <2>1. CommandOK(d) /\ AttemptsOK(d) /\ (Busy(d)' <=> Busy(d)) /\ (Untouched(d)' <=> Untouched(d))
    BY <1>1, <1>2 DEF Busy, Untouched, Requested, Doomed, Target, Version
  <2>2. Target(d)' = Target(d) /\ Version(Target(d))' = Version(Target(d))
    BY <1>2 DEF Target, Version
  <2>3. CommandOK(d)'
    BY <1>2, <2>1, <2>2 DEF CommandOK
  <2>4. AttemptsOK(d)'
    BY <1>2, <2>1 DEF AttemptsOK
  <2> QED
    BY <2>3, <2>4
<1>5. ASSUME NEW r \in requests PROVE RequestOK(r)'
  BY <1>1, <1>2 DEF RequestOK, Target, Version
<1>6. DrainOK'
  BY <1>2 DEF IInv, DrainOK, Untouched, Requested, Doomed, Target, Version
<1>7. \A q \in Opportunities : store'[q] <= Version(q)'
  BY <1>2 DEF IInv, Version
<1> QED
  BY <1>2, <1>3, <1>4, <1>5, <1>6, <1>7 DEF IInv

-----------------------------------------------------------------------------
(* The drain and the requests move, the rows stay. *)

LEMMA DrainMoves ==
    ASSUME IInv, TypeOK', DrainOK',
           UNCHANGED <<opp, receipts, overdue, applied, outbox, store>>, faults <= faults',
           drain'.command \in {drain.command, 0},
           drain'.command = drain.command \/ faults' = faults + 1,
           drain'.verdict = "interrupted" => drain' = drain \/ faults' = faults + 1,
           \A d \in Commands : Requested(d)' => Requested(d) \/ drain.command = d,
           \A r \in requests' \ requests : RequestOK(r)'
    PROVE  IInv'
<1>1. /\ TypeOK /\ DrainOK /\ Grows /\ MaxAttempts \in Nat
      /\ faults \in Nat /\ faults' \in Nat
  BY ConstantsAssumption, GrowsIfSame DEF IInv, TypeOK
<1>2. ASSUME NEW d \in Commands PROVE CommandOK(d)' /\ AttemptsOK(d)'
  <2>1. /\ CommandOK(d) /\ AttemptsOK(d) /\ outbox[d].attempts \in Nat /\ d # 0 /\ Kept(d)
    BY <1>1, CommandTypes, ConstantsAssumption DEF IInv, Kept
  <2>2. Busy(d)' => Busy(d)
    BY <2>1 DEF Busy
  <2>3. outbox[d].error = "version_conflict" => Untouched(d)' /\ outbox[d].state # "unused"
    <3> SUFFICES ASSUME outbox[d].error = "version_conflict"
                 PROVE  Untouched(d)' /\ outbox[d].state # "unused"
      OBVIOUS
    <3>1. Untouched(d) /\ outbox[d].state # "unused" /\ (Requested(d)' => Requested(d))
      BY <1>1, <2>1 DEF CommandOK, DrainOK
    <3> QED
      BY <1>1, <2>1, <3>1, StaysUntouched
  <2>4. CommandOK(d)'
    BY <1>1, <2>1, <2>2, <2>3, CommandKept DEF CommandOK
  <2>5. AttemptsOK(d)'
    <3>1. outbox[d].attempts <= MaxAttempts + faults'
      BY <1>1, <2>1 DEF AttemptsOK
    <3>2. outbox[d].state \in Active /\ drain'.command # d =>
              outbox[d].attempts < MaxAttempts + faults'
      BY <1>1, <2>1 DEF AttemptsOK
    <3>3. drain'.command = d /\ drain'.verdict = "interrupted" =>
              outbox[d].attempts < MaxAttempts + faults'
      BY <1>1, <2>1 DEF AttemptsOK
    <3> QED
      BY <3>1, <3>2, <3>3 DEF AttemptsOK
  <2> QED
    BY <2>4, <2>5
<1>3. ASSUME NEW r \in requests PROVE RequestOK(r)'
  BY <1>1, RequestTypes DEF IInv, RequestOK, Target, Version
<1>4. \A q \in Opportunities : store'[q] <= Version(q)'
  BY DEF IInv, Version
<1> QED
  BY <1>2, <1>3, <1>4 DEF IInv

\* With the row the drain works on unchanged, what it knows stays true.
LEMMA DrainStepTypes ==
    ASSUME TypeOK, UNCHANGED <<opp, receipts, overdue, applied, outbox, store, ready>>,
           drain' \in Drain, requests' \subseteq Request, faults' \in 0..MaxFaults
    PROVE  TypeOK'
BY DEF TypeOK, Version

LEMMA KillStep == ASSUME IInv, Kill PROVE IInv'
<1>1. /\ TypeOK /\ drain' = Stopped /\ faults' = faults + 1 /\ faults < MaxFaults
      /\ UNCHANGED <<opp, receipts, overdue, applied, outbox, store, ready, requests>>
      /\ faults \in Nat /\ MaxFaults \in Nat /\ requests \subseteq Request
  BY ConstantsAssumption DEF Kill, IInv, TypeOK, replica
<1>2. TypeOK'
  BY <1>1, StoppedTypes, DrainStepTypes
<1>3. DrainOK'
  BY <1>1, ConstantsAssumption DEF DrainOK, Stopped
<1>4. \A d \in Commands : Requested(d)' => Requested(d)
  BY <1>1 DEF Requested
<1> QED
  BY <1>1, <1>2, <1>3, <1>4, DrainMoves DEF Stopped

\* No answer comes in time, or the signal is aborted.
LEMMA GivesUp ==
    ASSUME IInv, drain.pc = "wait", NEW v \in {"transient", "interrupted"},
           drain' = [drain EXCEPT !.pc = "mark", !.verdict = v],
           UNCHANGED <<opp, receipts, overdue, applied, outbox, store, ready, requests>>,
           faults' \in 0..MaxFaults,
           faults' = faults \/ faults' = faults + 1, v = "interrupted" => faults' = faults + 1
    PROVE  IInv'
<1>1. TypeOK /\ faults \in Nat /\ DrainOK
  BY ConstantsAssumption DEF IInv, TypeOK
<1>2. /\ drain' \in Drain /\ drain'.command = drain.command /\ drain'.pc = "mark"
      /\ drain'.verdict = v /\ drain.command \in Commands
  <2>1. drain \in Drain /\ drain.command \in Commands /\ v \in Verdicts
    BY <1>1, DrainTypes DEF TypeOK, Verdicts
  <2>2. drain \in [pc : {"check", "wait", "mark"}, command : Commands, verdict : Verdicts]
    BY <2>1 DEF Drain
  <2> QED
    BY <2>1, <2>2 DEF Drain
<1>3. TypeOK'
  BY <1>1, <1>2, DrainStepTypes DEF TypeOK
<1>4. DrainOK'
  BY <1>1, <1>2 DEF DrainOK
<1>5. \A d \in Commands : Requested(d)' => Requested(d)
  BY DEF Requested
<1> QED
  BY <1>1, <1>2, <1>3, <1>4, <1>5, DrainMoves

LEMMA WaitEnds == ASSUME IInv, Timeout \/ Abort PROVE IInv'
<1>1. faults \in 0..MaxFaults /\ MaxFaults \in Nat
  BY ConstantsAssumption DEF IInv, TypeOK
<1>2. CASE Timeout
  <2>1. faults' \in 0..MaxFaults /\ (faults' = faults \/ faults' = faults + 1)
    <3>1. faults' = faults \/ (faults < MaxFaults /\ faults' = faults + 1)
      BY <1>2 DEF Timeout
    <3> QED
      BY <1>1, <3>1
  <2>2. /\ drain.pc = "wait" /\ drain' = [drain EXCEPT !.pc = "mark", !.verdict = "transient"]
        /\ UNCHANGED <<opp, receipts, overdue, applied, outbox, store, ready, requests>>
    BY <1>2 DEF Timeout, replica
  <2> QED
    BY <2>1, <2>2, GivesUp
<1>3. CASE Abort
  <2>1. faults' \in 0..MaxFaults /\ faults' = faults + 1
    BY <1>1, <1>3 DEF Abort
  <2>2. /\ drain.pc = "wait" /\ drain' = [drain EXCEPT !.pc = "mark", !.verdict = "interrupted"]
        /\ UNCHANGED <<opp, receipts, overdue, applied, outbox, store, ready, requests>>
    BY <1>3 DEF Abort, replica
  <2> QED
    BY <2>1, <2>2, GivesUp
<1> QED
  BY <1>2, <1>3

LEMMA CheckStep == ASSUME IInv, Check PROVE IInv'
<1> DEFINE c == drain.command
           q == [command |-> c, attempt |-> outbox[c].attempts, loaded |-> 0]
<1>1. /\ TypeOK /\ DrainOK /\ faults \in 0..MaxFaults /\ drain.pc = "check"
      /\ UNCHANGED <<opp, receipts, overdue, applied, outbox, store, ready, faults>>
      /\ c \in Commands /\ requests \subseteq Request
  BY DrainTypes DEF IInv, TypeOK, Check, replica
<1>2. drain \in [pc : {"check", "wait", "mark"}, command : Commands, verdict : Verdicts]
  BY <1>1 DEF TypeOK, Drain
<1>3. CASE /\ outbox[c].attempts = 1 /\ store[Target(c)] # outbox[c].expected
           /\ drain' = [drain EXCEPT !.pc = "mark", !.verdict = "version_conflict"]
           /\ requests' = requests
  <2>1. /\ drain'.command = c /\ drain'.pc = "mark" /\ drain'.verdict = "version_conflict"
        /\ drain' \in Drain
    BY <1>2, <1>3 DEF Drain, Verdicts
  <2>2. TypeOK'
    BY <1>1, <1>3, <2>1, DrainStepTypes
  <2>3. applied[c] = {} /\ ~Requested(c)
    BY <1>1, <1>3 DEF DrainOK
  <2>4. DrainOK'
    BY <1>1, <1>3, <2>1, <2>3 DEF DrainOK, Untouched, Requested
  <2>5. \A d \in Commands : Requested(d)' => Requested(d)
    BY <1>3 DEF Requested
  <2> QED
    BY <1>1, <1>3, <2>1, <2>2, <2>4, <2>5, DrainMoves, ConstantsAssumption
<1>4. CASE drain' = [drain EXCEPT !.pc = "wait"] /\ requests' = requests \cup {q}
  <2>1. /\ drain'.command = c /\ drain'.pc = "wait" /\ drain'.verdict = drain.verdict
        /\ drain' \in Drain /\ drain.verdict = "none"
    BY <1>1, <1>2, <1>4 DEF Drain, DrainOK
  <2>2. q \in Request /\ outbox[c].attempts >= 1
    <3>1. outbox[c].attempts \in Nat /\ outbox[c].attempts >= 1
      BY <1>1, CommandTypes, ConstantsAssumption DEF DrainOK
    <3> QED
      BY <1>1, <3>1 DEF Request
  <2>3. TypeOK'
    BY <1>1, <1>4, <2>1, <2>2, DrainStepTypes
  <2>4. DrainOK'
    BY <1>1, <2>1 DEF DrainOK
  <2>5. \A d \in Commands : Requested(d)' => Requested(d) \/ drain.command = d
    BY <1>4 DEF Requested
  <2>6. ASSUME NEW r \in requests' \ requests PROVE RequestOK(r)'
    <3>1. r.command = c /\ r.loaded = 0
      BY <1>4
    <3>2. outbox'[c].state # "unused" /\ outbox'[c].attempts >= 1
      BY <1>1, <2>2 DEF DrainOK
    <3> QED
      BY <1>1, <3>1, <3>2 DEF RequestOK
  <2> QED
    BY <1>1, <1>4, <2>1, <2>3, <2>4, <2>5, <2>6, DrainMoves, ConstantsAssumption
<1> QED
  BY <1>3, <1>4 DEF Check

-----------------------------------------------------------------------------
(* The drain changes the row it works on. *)

\* Every other row is as it was; of the drain's own the step says what it must.
LEMMA RowMoves ==
    ASSUME IInv, TypeOK', DrainOK', NEW c \in Commands,
           UNCHANGED <<opp, receipts, overdue, applied, requests, store, faults>>,
           \A d \in Commands \ {c} : outbox'[d] = outbox[d],
           drain.command \in {0, c}, drain'.command \in {0, c},
           Kept(c), outbox'[c].state # "unused" => outbox[c].state # "unused",
           drain'.command = c => drain.command = c \/ c \notin overdue,
           outbox'[c].error = "version_conflict" =>
              /\ outbox'[c].state \in {"failed", "deleted"} /\ outbox[c].state # "unused"
              /\ Untouched(c),
           outbox'[c].state = "succeeded" => applied[c] # {},
           AttemptsOK(c)'
    PROVE  IInv'
<1>1. /\ TypeOK /\ DrainOK /\ Grows /\ MaxAttempts \in Nat /\ faults \in Nat /\ c # 0
  BY ConstantsAssumption, GrowsIfSame DEF IInv, TypeOK
<1>2. ASSUME NEW d \in Commands
      PROVE  Kept(d) /\ outbox'[d].attempts \in Nat /\ CommandOK(d) /\ AttemptsOK(d) /\ d # 0
             /\ (Requested(d)' <=> Requested(d))
  <2>1. outbox[d].attempts \in Nat /\ outbox'[d] \in Command
    BY <1>1, CommandTypes, ConstantsAssumption DEF TypeOK
  <2>2. outbox'[d].attempts \in Nat
    BY <2>1, ConstantsAssumption DEF Command
  <2>3. Kept(d)
    BY <2>1 DEF Kept
  <2> QED
    BY <2>2, <2>3, ConstantsAssumption DEF IInv, Requested
<1>3. CommandOK(c)'
  BY <1>1, <1>2, RowCarries
<1>4. ASSUME NEW d \in Commands \ {c} PROVE CommandOK(d)' /\ AttemptsOK(d)'
  <2>1. outbox'[d] = outbox[d] /\ drain'.command # d /\ drain.command # d /\ CommandOK(d)
    BY <1>1, <1>2
  <2>2. outbox'[d].error = "version_conflict" =>
            /\ outbox'[d].state \in {"failed", "deleted"} /\ outbox[d].state # "unused"
            /\ Untouched(d)
    BY <2>1 DEF CommandOK
  <2>3. CommandOK(d)'
    BY <1>1, <1>2, <2>1, <2>2, RowCarries DEF CommandOK
  <2>4. AttemptsOK(d)'
    BY <1>2, <2>1 DEF AttemptsOK
  <2> QED
    BY <2>3, <2>4
<1>5. ASSUME NEW r \in requests PROVE RequestOK(r)'
  <2>1. r.command \in Commands /\ RequestOK(r)
    BY <1>1, RequestTypes DEF IInv
  <2> QED
    BY <1>1, <1>2, <2>1, RequestKept
<1>6. \A q \in Opportunities : store'[q] <= Version(q)'
  BY DEF IInv, Version
<1> QED
  BY <1>3, <1>4, <1>5, <1>6 DEF IInv

LEMMA ClaimStep == ASSUME IInv, Claim PROVE IInv'
<1>1. PICK c \in Commands \ overdue :
        /\ outbox[c].state \in {"pending", "due"} /\ drain.pc = "claim"
        /\ outbox' = [outbox EXCEPT ![c].state = "running", ![c].attempts = @ + 1]
        /\ drain' = [Stopped EXCEPT !.pc = "check", !.command = c]
        /\ UNCHANGED <<opp, receipts, overdue, applied, requests, store, ready, faults>>
  BY DEF Claim, Claimable, replica
<1>2. /\ TypeOK /\ c \in Commands /\ CommandOK(c) /\ AttemptsOK(c) /\ drain.command = 0 /\ c # 0
      /\ faults \in 0..MaxFaults /\ MaxFaults \in Nat /\ MaxAttempts \in Nat
      /\ outbox \in [Commands -> Command] /\ outbox[c] \in Command /\ outbox[c].attempts \in Nat
  BY <1>1, DrainTypes, CommandTypes, ConstantsAssumption DEF IInv, TypeOK
<1>3. /\ outbox'[c].state = "running" /\ outbox'[c].attempts = outbox[c].attempts + 1
      /\ outbox'[c].error = outbox[c].error /\ outbox'[c].opportunity = outbox[c].opportunity
      /\ outbox'[c].expected = outbox[c].expected /\ outbox'[c].status = outbox[c].status
      /\ outbox[c].attempts < MaxAttempts + faults
      /\ \A d \in Commands \ {c} : outbox'[d] = outbox[d]
  <2>1. outbox[c].attempts < MaxAttempts + faults
    BY <1>1, <1>2 DEF AttemptsOK, Active
  <2>2. outbox' = [outbox EXCEPT ![c] =
                     [outbox[c] EXCEPT !.state = "running", !.attempts = outbox[c].attempts + 1]]
    BY <1>1, <1>2
  <2> QED
    BY <1>2, <2>1, <2>2 DEF Command
<1>4. outbox' \in [Commands -> Command]
  <2>1. outbox[c].attempts + 1 \in 0..(MaxAttempts + MaxFaults)
    BY <1>2, <1>3
  <2>2. [outbox[c] EXCEPT !.state = "running", !.attempts = outbox[c].attempts + 1] \in Command
    BY <1>2, <2>1 DEF Command, Active
  <2>3. outbox' = [outbox EXCEPT ![c] =
                     [outbox[c] EXCEPT !.state = "running", !.attempts = outbox[c].attempts + 1]]
    BY <1>1, <1>2
  <2> QED
    BY <1>2, <2>2, <2>3
<1>5. /\ drain' \in Drain /\ drain'.pc = "check" /\ drain'.command = c /\ drain'.verdict = "none"
  BY <1>1, <1>2 DEF Drain, Stopped, Verdicts
<1>6. TypeOK'
  <2>1. /\ store' \in [Opportunities -> Nat] /\ ready' \in BOOLEAN /\ requests' \subseteq Request
        /\ faults' \in 0..MaxFaults
    BY <1>1, <1>2 DEF TypeOK
  <2> QED
    BY <1>1, <1>2, <1>4, <1>5, <2>1, TypesKept
<1>7. outbox[c].attempts = 0 => applied[c] = {} /\ ~Requested(c)
  BY <1>2 DEF IInv, CommandOK, RequestOK, Requested
<1>8. outbox[c].error # "version_conflict"
  BY <1>1, <1>2 DEF CommandOK
<1>9. DrainOK'
  BY <1>1, <1>2, <1>3, <1>5, <1>7, <1>8 DEF DrainOK, Requested
<1>10. AttemptsOK(c)'
  BY <1>1, <1>2, <1>3, <1>5 DEF AttemptsOK
<1>11. Kept(c)
  BY <1>1, <1>2, <1>3 DEF Kept
<1> QED
  BY <1>1, <1>2, <1>3, <1>5, <1>6, <1>8, <1>9, <1>10, <1>11, RowMoves

LEMMA MarkStep == ASSUME IInv, Mark PROVE IInv'
<1>0. PICK c, v : c = drain.command /\ v = drain.verdict
  OBVIOUS
<1> DEFINE exhausted == outbox[c].attempts >= MaxAttempts
           state == CASE v = "succeeded" -> "succeeded"
                      [] v \in {"version_conflict", "rejected"} -> "failed"
                      [] v = "interrupted" -> "due"
                      [] v = "transient" -> IF exhausted THEN "failed" ELSE "backoff"
           error == CASE v \in {"version_conflict", "rejected"} -> v
                      [] v = "transient" /\ exhausted -> "retry_exhausted"
                      [] OTHER -> "none"
<1>1. /\ TypeOK /\ DrainOK /\ drain.pc = "mark" /\ c \in Commands /\ v \in Verdicts \ {"none"}
      /\ UNCHANGED <<opp, receipts, overdue, applied, requests, store, ready, faults>>
      /\ drain' \in {Stopped, [Stopped EXCEPT !.pc = "claim"]}
  BY <1>0, DrainTypes DEF Mark, replica, IInv, DrainOK
<1>2. /\ IF outbox[c].state # "running" THEN outbox' = outbox
         ELSE outbox' = [outbox EXCEPT ![c].state = state, ![c].error = error]
  BY <1>0 DEF Mark
<1>3. /\ CommandOK(c) /\ AttemptsOK(c) /\ c # 0 /\ outbox[c].attempts \in Nat
      /\ faults \in Nat /\ MaxAttempts \in Nat
      /\ outbox \in [Commands -> Command] /\ outbox[c] \in Command
  BY <1>1, CommandTypes, ConstantsAssumption DEF IInv, TypeOK
<1>4. /\ v = "succeeded" => state = "succeeded" /\ error = "none"
      /\ v \in {"version_conflict", "rejected"} => state = "failed" /\ error = v
      /\ v = "interrupted" => state = "due" /\ error = "none"
      /\ v = "transient" => \/ state = "failed" /\ error = "retry_exhausted"
                            \/ state = "backoff" /\ error = "none" /\ ~exhausted
  OBVIOUS
<1> HIDE DEF state, error
<1>5. drain'.command = 0 /\ drain'.verdict = "none" /\ DrainOK' /\ drain' \in Drain
  BY <1>0, <1>1, <1>3, ConstantsAssumption, StoppedTypes DEF DrainOK, Stopped
<1>6. CASE outbox' = outbox /\ outbox[c].state # "running"
  <2>1. Kept(c) /\ outbox[c].error # "version_conflict" /\ TypeOK'
    BY <1>0, <1>1, <1>3, <1>5, <1>6, DrainStepTypes DEF Kept, DrainOK, TypeOK
  <2>2. AttemptsOK(c)'
    BY <1>0, <1>1, <1>3, <1>5, <1>6 DEF AttemptsOK, DrainOK, Active
  <2> QED
    BY <1>0, <1>1, <1>3, <1>5, <1>6, <2>1, <2>2, RowMoves DEF DrainOK
<1>7. CASE outbox' = [outbox EXCEPT ![c].state = state, ![c].error = error]
  <2>1. outbox' = [outbox EXCEPT ![c] = [outbox[c] EXCEPT !.state = state, !.error = error]]
    BY <1>3, <1>7
  <2>2. /\ outbox'[c].state = state /\ outbox'[c].error = error
        /\ outbox'[c].attempts = outbox[c].attempts
        /\ outbox'[c].opportunity = outbox[c].opportunity
        /\ outbox'[c].expected = outbox[c].expected /\ outbox'[c].status = outbox[c].status
        /\ \A d \in Commands \ {c} : outbox'[d] = outbox[d]
    BY <1>1, <1>3, <2>1 DEF Command
  <2>3. [outbox[c] EXCEPT !.state = state, !.error = error] \in Command
    BY <1>1, <1>3, <1>4 DEF Command, Active, Verdicts
  <2>4. TypeOK'
    <3>1. outbox' \in [Commands -> Command]
      BY <1>1, <1>3, <2>1, <2>3
    <3>2. /\ store' \in [Opportunities -> Nat] /\ ready' \in BOOLEAN /\ requests' \subseteq Request
          /\ faults' \in 0..MaxFaults
      BY <1>1 DEF TypeOK
    <3> QED
      BY <1>1, <1>5, <3>1, <3>2, TypesKept
  <2>5. state # "unused" /\ outbox[c].state # "unused"
    BY <1>0, <1>1, <1>4 DEF DrainOK, Verdicts
  <2>6. error = "version_conflict" => state = "failed" /\ Untouched(c)
    BY <1>0, <1>1, <1>4 DEF DrainOK, Verdicts
  <2>7. state = "succeeded" => applied[c] # {}
    BY <1>0, <1>1, <1>4 DEF DrainOK, Verdicts
  <2>8. state \in Active => outbox[c].attempts < MaxAttempts + faults
    BY <1>0, <1>1, <1>3, <1>4 DEF AttemptsOK, Verdicts, Active
  <2>9. AttemptsOK(c)'
    BY <1>0, <1>1, <1>3, <1>5, <2>2, <2>8 DEF AttemptsOK
  <2>10. Kept(c)
    BY <1>3, <2>2, <2>5 DEF Kept
  <2> QED
    BY <1>0, <1>1, <1>3, <1>5, <2>2, <2>4, <2>5, <2>6, <2>7, <2>9, <2>10, RowMoves
<1> QED
  BY <1>2, <1>6, <1>7

-----------------------------------------------------------------------------
(* The server. *)

\* What the drain knows survives an answer that tells the truth.
LEMMA AnswerTold ==
    ASSUME IInv, UNCHANGED outbox, NEW r \in requests, NEW v \in Verdicts \ {"none"},
           drain' = drain \/ Answer(r, v),
           \A d \in Commands :
              /\ applied[d] \subseteq applied'[d] /\ (Requested(d)' => Requested(d))
              /\ ~Requested(d) => applied'[d] = applied[d]
              /\ Untouched(d) => Untouched(d)',
           v = "succeeded" => applied'[r.command] # {},
           v = "version_conflict" => Untouched(r.command)'
    PROVE  DrainOK' /\ drain' \in Drain /\ drain'.command = drain.command
           /\ (drain' = drain \/ drain'.verdict = v)
<1> DEFINE c == drain.command
<1>1. TypeOK /\ DrainOK
  BY DEF IInv
<1>2. CASE drain' = drain
  <2>1. CASE c \in Commands
    BY <1>1, <1>2, <2>1 DEF DrainOK, TypeOK
  <2>2. CASE c \notin Commands
    BY <1>1, <1>2, <2>2, DrainTypes DEF DrainOK, TypeOK
  <2> QED
    BY <2>1, <2>2
<1>3. CASE Awaits(r) /\ drain' = [drain EXCEPT !.pc = "mark", !.verdict = v]
  <2>1. /\ drain \in [pc : {"check", "wait", "mark"}, command : Commands, verdict : Verdicts]
        /\ c = r.command /\ c \in Commands
    BY <1>1, <1>3, DrainTypes DEF TypeOK, Drain, Awaits
  <2>2. /\ drain' \in Drain /\ drain'.command = c /\ drain'.pc = "mark" /\ drain'.verdict = v
    BY <1>3, <2>1 DEF Drain
  <2>3. DrainOK'
    BY <1>1, <2>1, <2>2 DEF DrainOK
  <2> QED
    BY <2>2, <2>3
<1> QED
  BY <1>2, <1>3 DEF Answer

\* A request goes away, or becomes one that has loaded its copy.
LEMMA RequestMoves ==
    ASSUME IInv, NEW r \in requests, NEW v \in Verdicts \ {"none", "interrupted"},
           UNCHANGED <<opp, receipts, overdue, applied, outbox, store, ready>>,
           drain' = drain \/ Answer(r, v),
           faults' \in 0..MaxFaults, faults <= faults',
           requests' \subseteq Request, \A d \in Commands : Requested(d)' => Requested(d),
           \A q \in requests' \ requests : RequestOK(q)',
           v = "succeeded" => applied[r.command] # {},
           v = "version_conflict" => Untouched(r.command)
    PROVE  IInv'
<1>1. TypeOK /\ r.command \in Commands
  BY RequestTypes DEF IInv
<1>2. \A d \in Commands : Untouched(d) => Untouched(d)'
  BY DEF Untouched, Doomed, Target, Version
<1>3. /\ DrainOK' /\ drain' \in Drain /\ drain'.command = drain.command
      /\ drain' = drain \/ drain'.verdict = v
  BY <1>1, <1>2, AnswerTold
<1>4. TypeOK'
  BY <1>1, <1>3, DrainStepTypes
<1> QED
  BY <1>3, <1>4, DrainMoves

LEMMA LostStep ==
    ASSUME IInv, NEW r \in requests, Unreachable(r) \/ Refuse(r) PROVE IInv'
<1>1. PICK v \in {"transient", "rejected"} : Answer(r, v)
  BY DEF Unreachable, Refuse
<1>2. /\ requests' = requests \ {r}
      /\ UNCHANGED <<opp, receipts, overdue, applied, outbox, store, ready>>
      /\ faults' = faults \/ (faults < MaxFaults /\ faults' = faults + 1)
  BY DEF Unreachable, Refuse, replica
<1>3. faults' \in 0..MaxFaults /\ faults <= faults'
  <2>1. faults \in 0..MaxFaults /\ MaxFaults \in Nat
    BY ConstantsAssumption DEF IInv, TypeOK
  <2> QED
    BY <1>2, <2>1
<1>4. requests' \subseteq Request /\ \A d \in Commands : Requested(d)' => Requested(d)
  BY <1>2 DEF IInv, TypeOK, Requested
<1>5. v \in Verdicts \ {"none", "interrupted"}
  BY DEF Verdicts
<1> QED
  BY <1>1, <1>2, <1>3, <1>4, <1>5, RequestMoves

LEMMA LoadStep == ASSUME IInv, NEW r \in requests, Load(r) PROVE IInv'
<1> DEFINE c == r.command
           q == [r EXCEPT !.loaded = Version(Target(r.command))]
<1>1. /\ TypeOK /\ r \in Request /\ c \in Commands /\ RequestOK(r) /\ CommandOK(c)
      /\ faults \in 0..MaxFaults /\ faults \in Nat /\ requests \subseteq Request
  <2>1. TypeOK
    BY DEF IInv
  <2> QED
    BY <2>1, RequestTypes, CounterTypes DEF IInv
<1>2. /\ UNCHANGED <<opp, receipts, overdue, applied, outbox, store, ready, drain, faults>>
      /\ requests' = (requests \ {r}) \cup {q}
  BY DEF Load, phone
<1>3. /\ Version(Target(c)) \in Nat /\ outbox[c].expected \in 1..Version(Target(c))
      /\ outbox[c].expected \in Nat
  BY <1>1, Versions, CommandTypes DEF RequestOK, CommandOK
<1>4. q \in Request /\ q.command = c /\ q.loaded = Version(Target(c))
  BY <1>1, <1>3 DEF Request
<1>5. requests' \subseteq Request /\ \A d \in Commands : Requested(d)' => Requested(d)
  BY <1>1, <1>2, <1>4 DEF Requested
<1>6. ASSUME NEW p \in requests' \ requests PROVE RequestOK(p)'
  <2>1. p.command = c /\ p.loaded = Version(Target(c))
    BY <1>2, <1>4
  <2>2. p.loaded \in outbox'[c].expected..Version(Target(c))'
    BY <1>2, <1>3, <2>1 DEF Target, Version
  <2> QED
    BY <1>1, <1>2, <2>1, <2>2 DEF RequestOK
<1>7. "transient" \in Verdicts \ {"none", "interrupted"} /\ faults' \in 0..MaxFaults /\ faults <= faults'
  BY <1>1, <1>2 DEF Verdicts
<1> QED
  BY <1>2, <1>5, <1>6, <1>7, RequestMoves

\* The copy a request loaded decides the same as the version the user saw.
LEMMA AcceptedIsSeen ==
    ASSUME IInv, NEW r \in requests, r.loaded > 0
    PROVE  /\ Doomed(r.command) => ~(Accepts(r) /\ Current(r))
           /\ ~Accepts(r) => Doomed(r.command)
<1> DEFINE c == r.command
<1>1. /\ TypeOK /\ c \in Commands /\ RequestOK(r) /\ r.loaded \in Nat /\ outbox[c].expected \in Nat
  BY RequestTypes, CommandTypes DEF IInv
<1>2. Version(Target(c)) \in Nat
  BY <1>1, Versions DEF IInv, RequestOK, CommandOK
<1>3. r.loaded \in outbox[c].expected..Version(Target(c))
  BY <1>1 DEF RequestOK
<1>4. r.loaded # outbox[c].expected => Version(Target(c)) > outbox[c].expected
  BY <1>1, <1>2, <1>3
<1>5. Doomed(c) => ~(Accepts(r) /\ Current(r))
  BY <1>1, <1>2 DEF Doomed, Accepts, Current
<1>6. ~Accepts(r) => Doomed(c)
  BY <1>4 DEF Doomed, Accepts
<1> QED
  BY <1>5, <1>6

\* While a request for a command is under way its receipt is not forgotten.
LEMMA RequestedMeansReceipt ==
    ASSUME IInv, NEW r \in requests, r.command \notin receipts PROVE applied[r.command] = {}
BY RequestTypes DEF IInv, CommandOK, Busy, Requested

\* A request that applies nothing.
LEMMA AnswerStep ==
    ASSUME IInv, NEW r \in requests, Execute(r), ~Applies(r) PROVE IInv'
<1> DEFINE c == r.command
<1>1. /\ TypeOK /\ c \in Commands /\ CommandOK(c) /\ faults \in 0..MaxFaults /\ MaxFaults \in Nat
      /\ faults \in Nat /\ r.loaded > 0 /\ requests \subseteq Request
  <2>1. TypeOK /\ r.loaded > 0
    BY DEF IInv, Execute
  <2> QED
    BY <2>1, RequestTypes, CounterTypes DEF IInv
<1>2. /\ UNCHANGED <<opp, receipts, overdue, applied, outbox, store, ready>>
      /\ requests' = requests \ {r}
      /\ drain' = drain \/ Answer(r, Reply(r))
      /\ faults' = faults \/ (faults < MaxFaults /\ faults' = faults + 1)
  BY DEF Execute, replica
<1>3. faults' \in 0..MaxFaults /\ faults <= faults'
  BY <1>1, <1>2
<1>4. requests' \subseteq Request /\ \A d \in Commands : Requested(d)' => Requested(d)
  BY <1>1, <1>2 DEF Requested
<1>5. Reply(r) \in {"succeeded", "version_conflict", "transient"}
  BY DEF Reply
<1>6. Reply(r) = "succeeded" => applied[c] # {}
  BY <1>1 DEF Reply, Applies, CommandOK
<1>7. Reply(r) = "version_conflict" => Untouched(c)
  BY <1>1, AcceptedIsSeen, RequestedMeansReceipt DEF Reply, Untouched
<1>8. Reply(r) \in Verdicts \ {"none", "interrupted"}
  BY <1>5 DEF Verdicts
<1> QED
  BY <1>2, <1>3, <1>4, <1>6, <1>7, <1>8, RequestMoves

\* A request that applies its command: over the version the user saw.
LEMMA ApplyStep ==
    ASSUME IInv, NEW r \in requests, Execute(r), Applies(r) PROVE IInv'
<1> DEFINE c == r.command
           o == Target(r.command)
           e == outbox[r.command].expected
           content == [status |-> outbox[r.command].status, archived |-> FALSE]
<1>1. /\ TypeOK /\ c \in Commands /\ CommandOK(c) /\ RequestOK(r) /\ r.loaded \in Nat
      /\ faults \in 0..MaxFaults /\ MaxFaults \in Nat /\ faults \in Nat /\ MaxAttempts \in Nat
      /\ outbox[c].status \in Statuses /\ e \in Nat /\ outbox[c].attempts \in Nat
  <2>1. TypeOK /\ c \in Commands
    BY RequestTypes DEF IInv
  <2>2. outbox[c].attempts \in Nat
    BY <2>1, CommandTypes, CounterTypes
  <2> QED
    BY <2>1, <2>2, RequestTypes, CommandTypes, CounterTypes DEF IInv
<1>2. /\ UNCHANGED <<overdue, outbox, store, ready>>
      /\ opp' = [opp EXCEPT ![o] = Append(@, content)]
      /\ receipts' = receipts \cup {c}
      /\ applied' = [applied EXCEPT ![c] = @ \cup {Version(o)}]
      /\ requests' = requests \ {r}
      /\ drain' = drain \/ Answer(r, Reply(r))
      /\ faults' = faults \/ (faults < MaxFaults /\ faults' = faults + 1)
      /\ r.loaded > 0
  BY DEF Execute, replica
<1>3. /\ o \in Opportunities /\ outbox[c].state # "unused" /\ outbox[c].attempts >= 1
      /\ Version(o) = e /\ c \notin receipts /\ Reply(r) = "succeeded"
  BY <1>1, Versions DEF RequestOK, CommandOK, Applies, Accepts, Current, Reply
<1>4. faults' \in 0..MaxFaults /\ faults <= faults' /\ faults' \in Nat
  BY <1>1, <1>2
<1>5. content \in Content
  BY <1>1 DEF Content
<1>6. /\ Grows /\ opp' \in [Opportunities -> Seq(Content)] /\ \A q \in Opportunities : Len(opp'[q]) > 0
  BY <1>1, <1>2, <1>3, <1>5, GrowsIfAppended
<1>7. /\ applied[c] = {} /\ applied'[c] = {e} /\ ~Untouched(c)
      /\ \A d \in Commands \ {c} : applied'[d] = applied[d]
      /\ applied' \in [Commands -> SUBSET Nat]
  <2>1. applied[c] = {}
    BY <1>3, RequestedMeansReceipt
  <2>2. ~Untouched(c)
    BY <1>2, AcceptedIsSeen DEF Applies, Untouched, Requested
  <2>3. applied \in [Commands -> SUBSET Nat]
    BY <1>1 DEF TypeOK
  <2> QED
    BY <1>1, <1>2, <1>3, <2>1, <2>2, <2>3
<1>8. ASSUME NEW d \in Commands
      PROVE  /\ Requested(d)' => Requested(d)
             /\ applied[d] \subseteq applied'[d] /\ (~Requested(d) => applied'[d] = applied[d])
             /\ Kept(d) /\ outbox[d].attempts \in Nat
             /\ CommandOK(d) /\ AttemptsOK(d)
  <2>1. Requested(c)
    BY DEF Requested
  <2>2. Requested(d)' => Requested(d)
    BY <1>2 DEF Requested
  <2>3. outbox[d].attempts \in Nat
    BY <1>1, CommandTypes, ConstantsAssumption
  <2> QED
    BY <1>1, <1>2, <1>7, <2>1, <2>2, <2>3 DEF Kept, IInv
<1>9. ASSUME NEW d \in Commands, Untouched(d) PROVE Untouched(d)'
  <2>1. d # c /\ applied'[d] = applied[d]
    BY <1>7, <1>9
  <2>2. CASE outbox[d].state = "unused"
    <3>1. ~Requested(d)
      BY <2>2 DEF IInv, RequestOK, Requested
    <3> QED
      BY <1>8, <1>9, <2>1, <3>1 DEF Untouched
  <2>3. CASE outbox[d].state # "unused"
    BY <1>1, <1>6, <1>8, <1>9, <2>1, <2>3, StaysUntouched
  <2> QED
    BY <2>2, <2>3
<1>10. /\ DrainOK' /\ drain' \in Drain /\ drain'.command = drain.command
       /\ drain' = drain \/ drain'.verdict = "succeeded"
  <2>1. "succeeded" \in Verdicts \ {"none"} /\ (drain' = drain \/ Answer(r, "succeeded"))
    BY <1>2, <1>3 DEF Verdicts
  <2>2. applied'[c] # {}
    BY <1>7
  <2> QED
    BY <1>2, <1>8, <1>9, <2>1, <2>2, AnswerTold
<1>11. TypeOK'
  <2>1. requests' \subseteq Request /\ receipts' \subseteq Commands
    BY <1>1, <1>2 DEF TypeOK
  <2> QED
    BY <1>1, <1>2, <1>4, <1>6, <1>7, <1>10, <2>1 DEF TypeOK, Version
<1>12. CommandOK(c)'
  <2>1. Target(c)' = o /\ Version(o)' = Len(opp'[o]) /\ Version(o) <= Len(opp'[o]) /\ Len(opp'[o]) \in Nat
    BY <1>2, <1>3, <1>6 DEF Target, Version, Grows
  <2>2. e \in 1..Version(Target(c))
    BY <1>1, <1>3 DEF CommandOK
  <2>3. e \in 1..Version(Target(c))'
    BY <1>1, <1>3, <2>1, <2>2
  <2>4. outbox[c].error # "version_conflict"
    BY <1>1, <1>7 DEF CommandOK
  <2> QED
    BY <1>1, <1>2, <1>3, <1>7, <2>1, <2>3, <2>4 DEF CommandOK
<1>13. ASSUME NEW d \in Commands \ {c} PROVE CommandOK(d)'
  <2>1. /\ applied'[d] = applied[d] /\ (d \in receipts' <=> d \in receipts)
        /\ (Busy(d)' => Busy(d))
    BY <1>2, <1>7, <1>8, <1>10 DEF Busy
  <2>2. outbox'[d].error = "version_conflict" =>
            outbox'[d].state \in {"failed", "deleted"} /\ Untouched(d)'
    BY <1>2, <1>8, <1>9 DEF CommandOK
  <2>3. outbox'[d].state = "succeeded" => applied[d] # {}
    BY <1>2, <1>8 DEF CommandOK
  <2> QED
    BY <1>1, <1>2, <1>6, <1>8, <2>1, <2>2, <2>3, CommandKept
<1>14. ASSUME NEW d \in Commands PROVE AttemptsOK(d)'
  BY <1>1, <1>2, <1>4, <1>8, <1>10 DEF AttemptsOK
<1>15. ASSUME NEW q \in requests' PROVE RequestOK(q)'
  <2>1. q \in requests /\ q.command \in Commands /\ RequestOK(q)
    BY <1>1, <1>2, RequestTypes DEF IInv
  <2> QED
    BY <1>1, <1>2, <1>6, <1>8, <2>1, RequestKept
<1>16. \A q \in Opportunities : store'[q] <= Version(q)'
  BY <1>1, <1>2, <1>6, StoreKept DEF IInv, Version
<1> QED
  BY <1>10, <1>11, <1>12, <1>13, <1>14, <1>15, <1>16 DEF IInv

-----------------------------------------------------------------------------
(* The theorems. *)

LEMMA Start == Init => IInv
<1> SUFFICES ASSUME Init PROVE IInv
  OBVIOUS
<1> DEFINE first == [status |-> "pending_human", archived |-> FALSE]
<1>1. first \in Content /\ <<first>> \in Seq(Content) /\ Len(<<first>>) = 1
  BY DEF Content, Statuses
<1>2. opp \in [Opportunities -> Seq(Content)] /\ \A o \in Opportunities : Version(o) = 1
  BY <1>1 DEF Init, Version
<1>3. Unused \in Command /\ Stopped \in Drain /\ MaxAttempts \in Nat \ {0} /\ MaxFaults \in Nat
  BY ConstantsAssumption, StoppedTypes DEF Unused, Command, Statuses
<1>4. TypeOK
  <2>1. /\ store \in [Opportunities -> Nat] /\ ready \in BOOLEAN
        /\ applied \in [Commands -> SUBSET Nat]
    BY DEF Init
  <2>2. outbox \in [Commands -> Command] /\ drain \in Drain /\ faults \in 0..MaxFaults
    BY <1>3 DEF Init
  <2>3. receipts \subseteq Commands /\ overdue \subseteq Commands /\ requests \subseteq Request
    BY DEF Init
  <2> QED
    BY <1>2, <2>1, <2>2, <2>3 DEF TypeOK
<1>5. \A c \in Commands : CommandOK(c) /\ AttemptsOK(c)
  BY <1>3, ConstantsAssumption DEF Init, CommandOK, AttemptsOK, Unused, Active, Stopped
<1>6. DrainOK /\ \A r \in requests : RequestOK(r)
  BY ConstantsAssumption DEF Init, DrainOK, Stopped
<1>7. \A o \in Opportunities : store[o] <= Version(o)
  BY <1>2 DEF Init
<1> QED
  BY <1>4, <1>5, <1>6, <1>7 DEF IInv

LEMMA Step == IInv /\ [Next]_vars => IInv'
<1> SUFFICES ASSUME IInv, [Next]_vars PROVE IInv'
  OBVIOUS
<1>1. CASE \E o \in Opportunities : Write(o)
  BY <1>1, WriteStep
<1>2. CASE Sync
  BY <1>2, ReplicaStep
<1>3. CASE User
  BY <1>3, OneRowStep, EnqueueStep DEF User
<1>4. CASE Time
  BY <1>4, OverdueStep, OneRowStep, ForgetStep DEF Time
<1>5. CASE Work
  BY <1>5, StartDrainStep, ClaimStep, EndDrainStep, CheckStep, MarkStep, WaitEnds DEF Work
<1>6. CASE Serve
  BY <1>6, LoadStep, AnswerStep, ApplyStep, LostStep DEF Serve
<1>7. CASE Fault
  BY <1>7, ReplicaStep, SignOutStep, WaitEnds, KillStep, LostStep DEF Fault
<1>8. CASE UNCHANGED vars
  <2>1. /\ UNCHANGED <<opp, receipts, store, ready, outbox, overdue, drain, requests, applied, faults>>
        /\ Grows /\ TypeOK
    BY <1>8, GrowsIfSame DEF vars, phone, IInv
  <2>2. TypeOK' /\ faults <= faults'
    BY <2>1, ConstantsAssumption DEF TypeOK, Version
  <2>3. \A o \in Opportunities : store'[o] <= Len(opp'[o])
    BY <2>1, StoreKept DEF IInv
  <2> QED
    BY <2>1, <2>2, <2>3, Quiet
<1> QED
  BY <1>1, <1>2, <1>3, <1>4, <1>5, <1>6, <1>7, <1>8 DEF Next

LEMMA Inductive == Spec => []IInv
BY Start, Step, PTL DEF Spec

\* The outbox, the drain, the requests and the server keep their types; no
\* command is tried more often than its limit and the faults allow.
THEOREM OutboxTypesCorrect == Spec => []TypeOK
<1>1. IInv => TypeOK
  BY DEF IInv
<1> QED
  BY <1>1, Inductive, PTL

\* However often a command is sent, repeated, late or overtaken, it takes effect
\* over no version but the one its user saw: transition_status applies at most
\* once and never on top of a change the user did not see.
THEOREM AppliedOverSeen == Spec => []OnlyOverSeen
<1>1. IInv => OnlyOverSeen
  BY DEF IInv, CommandOK, OnlyOverSeen
<1> QED
  BY <1>1, Inductive, PTL

\* What the phone shows as a version conflict has not happened and never will,
\* though requests for it may still be under way.
THEOREM ConflictIsFinal == Spec => []ConflictMeansUntouched
<1>1. IInv => ConflictMeansUntouched
  BY DEF IInv, CommandOK, Untouched, ConflictMeansUntouched
<1> QED
  BY <1>1, Inductive, PTL

\* What the phone shows as done has happened.
THEOREM DoneIsDone == Spec => []SucceededMeansApplied
<1>1. IInv => SucceededMeansApplied
  BY DEF IInv, CommandOK, SucceededMeansApplied
<1> QED
  BY <1>1, Inductive, PTL

-----------------------------------------------------------------------------
(* CommandOutbox implements StatusChanges. *)

\* A row that was not used has nothing in it.
NeverUsed == \A c \in Commands : outbox[c].state = "unused" => outbox[c] = Unused

\* What StatusChanges speaks of in a row.
Carried(c) ==
    /\ outbox'[c].opportunity = outbox[c].opportunity
    /\ outbox'[c].expected = outbox[c].expected
    /\ outbox'[c].status = outbox[c].status
    /\ outbox'[c].state = "unused" => outbox'[c] = outbox[c]
    /\ outbox'[c].error = "version_conflict" <=> outbox[c].error = "version_conflict"

\* Rows are settled, tried again, dismissed or wiped.
Carries ==
    /\ opp' = opp /\ applied' = applied
    /\ \A c \in Commands :
        Carried(c) /\ (outbox'[c].state = "succeeded" => outbox[c].state = "succeeded")

LEMMA CarriesKeeps ==
    ASSUME NeverUsed, \A c \in Commands : Carried(c)
    PROVE  NeverUsed'
BY DEF NeverUsed, Carried

LEMMA AskedSame ==
    ASSUME \A c \in Commands : Carried(c)
    PROVE  Asked' = Asked
BY DEF Asked, Carried

\* To the user nothing happens, or what was done is shown no longer.
LEMMA CarriesForgets ==
    ASSUME Carries
    PROVE  Changes!Forget
<1>1. Asked' = Asked
  BY AskedSame DEF Carries
<1>2. Done' = Done
  BY DEF Carries, Done
<1>3. Conflicted' = Conflicted
  BY DEF Carries, Conflicted, Carried
<1>4. Succeeded' \in SUBSET Succeeded
  BY DEF Carries, Succeeded
<1> QED
  BY <1>1, <1>2, <1>3, <1>4 DEF Changes!Forget, Carries

LEMMA SameCarries ==
    ASSUME UNCHANGED <<opp, applied, outbox>>
    PROVE  Carries
BY DEF Carries, Carried

\* One row changes its state, without an error or with another one.
LEMMA RowCarried ==
    ASSUME TypeOK, NEW c \in Commands, UNCHANGED <<opp, applied>>,
           outbox[c].state # "unused",
           NEW row \in Command, outbox' = [outbox EXCEPT ![c] = row],
           row.opportunity = outbox[c].opportunity, row.expected = outbox[c].expected,
           row.status = outbox[c].status, row.state \notin {"unused", "succeeded"},
           row.error = "version_conflict" <=> outbox[c].error = "version_conflict"
    PROVE  Carries
<1>1. outbox \in [Commands -> Command]
  BY DEF TypeOK
<1> QED
  BY <1>1 DEF Carries, Carried

LEMMA QuietCarries ==
    ASSUME \/ Sync \/ Reset \/ EndDrain \/ Check \/ Timeout \/ Abort \/ Kill
           \/ \E c \in Commands : Overdue(c) \/ ForgetReceipt(c)
           \/ \E r \in requests : Unreachable(r) \/ Refuse(r) \/ Load(r)
           \/ \E r \in requests : Execute(r) /\ ~Applies(r)
           \/ UNCHANGED vars
    PROVE  Carries
<1>1. CASE Sync \/ Reset \/ EndDrain \/ Check \/ Timeout \/ Abort \/ Kill \/ UNCHANGED vars
  BY <1>1, SameCarries DEF Sync, Reset, EndDrain, Check, Timeout, Abort, Kill, vars, phone
<1>2. CASE \E c \in Commands : Overdue(c) \/ ForgetReceipt(c)
  BY <1>2, SameCarries DEF Overdue, ForgetReceipt, phone
<1>3. CASE \E r \in requests : Unreachable(r) \/ Refuse(r) \/ Load(r)
  BY <1>3, SameCarries DEF Unreachable, Refuse, Load, phone
<1>4. CASE \E r \in requests : Execute(r) /\ ~Applies(r)
  BY <1>4, SameCarries DEF Execute
<1> QED
  BY <1>1, <1>2, <1>3, <1>4

LEMMA TimeCarries ==
    ASSUME IInv, NEW c \in Commands, Dismiss(c) \/ BackoffEnds(c) \/ GoesStale(c)
    PROVE  Carries
<1>1. PICK s \in {"deleted", "due", "stale"} :
        /\ outbox' = [outbox EXCEPT ![c].state = s] /\ UNCHANGED <<opp, applied>>
        /\ outbox[c].state # "unused"
  BY DEF Dismiss, BackoffEnds, GoesStale
<1>2. TypeOK /\ outbox[c] \in Command
  BY CommandTypes DEF IInv
<1>3. [outbox[c] EXCEPT !.state = s] \in Command
  BY <1>2 DEF Command, Active
<1>4. outbox' = [outbox EXCEPT ![c] = [outbox[c] EXCEPT !.state = s]]
  BY <1>1
<1> QED
  BY <1>1, <1>2, <1>3, <1>4, RowCarried DEF Command

LEMMA WipeCarries ==
    ASSUME IInv, SignOut
    PROVE  Carries
<1>1. \A c \in Commands : outbox[c] \in Command
  BY CommandTypes DEF IInv
<1>2. ASSUME NEW c \in Commands
      PROVE  Carried(c) /\ (outbox'[c].state = "succeeded" => outbox[c].state = "succeeded")
  BY <1>1 DEF SignOut, Carried, Command
<1> QED
  BY <1>2 DEF SignOut, Carries

\* What expires was not in conflict.
LEMMA StartDrainCarries ==
    ASSUME IInv, StartDrain
    PROVE  Carries
<1>1. \A c \in Commands : outbox[c] \in Command /\ CommandOK(c)
  BY CommandTypes DEF IInv
<1>2. ASSUME NEW c \in Commands
      PROVE  Carried(c) /\ (outbox'[c].state = "succeeded" => outbox[c].state = "succeeded")
  <2>1. CASE c \in ActiveCommands \cap overdue
    <3>1. outbox[c].error # "version_conflict"
      BY <1>1, <2>1 DEF ActiveCommands, Active, CommandOK
    <3>2. outbox'[c] = [outbox[c] EXCEPT !.state = "failed", !.error = "expired"]
      BY <2>1 DEF StartDrain
    <3> QED
      BY <1>1, <3>1, <3>2 DEF Carried, Command
  <2>2. CASE c \notin ActiveCommands \cap overdue
    <3>1. outbox'[c] = IF outbox[c].state = "stale" THEN [outbox[c] EXCEPT !.state = "due"]
                       ELSE outbox[c]
      BY <2>2 DEF StartDrain
    <3> QED
      BY <1>1, <3>1 DEF Carried, Command
  <2> QED
    BY <2>1, <2>2
<1> QED
  BY <1>2 DEF StartDrain, Carries

LEMMA ClaimCarries ==
    ASSUME IInv, IInv', Claim
    PROVE  Carries
<1>1. PICK c \in Claimable :
        outbox' = [outbox EXCEPT ![c].state = "running", ![c].attempts = @ + 1]
  BY DEF Claim
<1>2. /\ c \in Commands /\ TypeOK /\ outbox[c] \in Command /\ outbox \in [Commands -> Command]
      /\ outbox[c].state # "unused" /\ UNCHANGED <<opp, applied>>
  BY CommandTypes DEF IInv, TypeOK, Claimable, Claim
<1>3. outbox' = [outbox EXCEPT ![c] = outbox'[c]]
  BY <1>1, <1>2
<1>4. PICK row \in Command : row = outbox'[c]
  BY <1>2 DEF IInv, TypeOK
<1>5. /\ row.opportunity = outbox[c].opportunity /\ row.expected = outbox[c].expected
      /\ row.status = outbox[c].status /\ row.state = "running" /\ row.error = outbox[c].error
  BY <1>1, <1>2, <1>4 DEF Command
<1> QED
  BY <1>2, <1>3, <1>4, <1>5, RowCarried

\* Both speak of the same statuses.
LEMMA SameStatuses ==
    /\ Changes!Statuses = Statuses
    /\ \A from, to : Changes!Allowed(from, to) <=> Allowed(from, to)
BY DEF Statuses, Allowed, Changes!Statuses, Changes!Allowed

LEMMA WriteChanges ==
    ASSUME IInv, NEW o \in Opportunities, Write(o)
    PROVE  Changes!Write(o) /\ \A c \in Commands : Carried(c)
<1>1. UNCHANGED <<applied, outbox>>
  BY DEF Write, phone
<1>2. Asked' = Asked /\ Done' = Done /\ Succeeded' = Succeeded /\ Conflicted' = Conflicted
  BY <1>1 DEF Asked, Done, Succeeded, Conflicted
<1>3. PICK content \in Content :
        /\ Allowed(opp[o][Version(o)].status, content.status)
        /\ \/ content.status = opp[o][Version(o)].status
           \/ ~content.archived /\ ~opp[o][Version(o)].archived
        /\ opp' = [opp EXCEPT ![o] = Append(@, content)]
  BY DEF Write
<1>4. content \in Changes!Content /\ Changes!Commit(o, content)
  BY <1>3, SameStatuses
  DEF Content, Changes!Content, Changes!Commit, Changes!Follows, Version
<1> QED
  BY <1>1, <1>2, <1>4 DEF Changes!Write, Carried

\* The user asks for what the replica shows.
LEMMA EnqueueChanges ==
    ASSUME IInv, NeverUsed, NEW c \in Commands, NEW o \in Opportunities, NEW s \in Targets,
           Enqueue(c, o, s)
    PROVE  Changes!Ask(c, o) /\ NeverUsed'
<1> DEFINE new == [state |-> "pending", opportunity |-> o, expected |-> store[o],
                   status |-> s, attempts |-> 0, error |-> "none"]
<1>1. /\ outbox[c] = Unused /\ store[o] > 0 /\ ~opp[o][store[o]].archived
      /\ UNCHANGED <<opp, applied>> /\ outbox \in [Commands -> Command]
      /\ \A d \in Commands : outbox[d] \in Command
      /\ store[o] <= Version(o) /\ store[o] \in Nat /\ Version(o) \in Nat
      /\ s \in Statuses
  BY CommandTypes, Versions, ConstantsAssumption DEF Enqueue, NeverUsed, IInv, TypeOK
<1>2. /\ outbox'[c] = new
      /\ \A d \in Commands \ {c} :
            outbox'[d] = outbox[d] \/
            (outbox[d].state = "failed" /\ outbox'[d] = [outbox[d] EXCEPT !.state = "deleted"])
  BY DEF Enqueue
<1>3. \A d \in Commands \ {c} :
        Carried(d) /\ (outbox'[d].state = "succeeded" <=> outbox[d].state = "succeeded")
  BY <1>1, <1>2 DEF Carried, Command
<1>4. Done' = Done /\ Succeeded' = Succeeded /\ Conflicted' = Conflicted
  <2>1. Done' = Done
    BY <1>1 DEF Done
  <2>2. outbox'[c].state # "succeeded" /\ outbox[c].state # "succeeded"
        /\ outbox'[c].error # "version_conflict" /\ outbox[c].error # "version_conflict"
    BY <1>1, <1>2 DEF Unused
  <2>3. Succeeded' = Succeeded
    BY <1>3, <2>2 DEF Succeeded
  <2>4. Conflicted' = Conflicted
    BY <1>3, <2>2 DEF Conflicted, Carried
  <2> QED
    BY <2>1, <2>3, <2>4
<1>5. Asked[c] = Changes!Unasked
  BY <1>1 DEF Asked, Unused, Changes!Unasked
<1>6. Asked' = [Asked EXCEPT ![c] = [opportunity |-> o, seen |-> store[o], status |-> s]]
  <2>1. outbox'[c].opportunity = o /\ outbox'[c].expected = store[o] /\ outbox'[c].status = s
    BY <1>2
  <2>2. \A d \in Commands \ {c} : Asked'[d] = Asked[d]
    BY <1>3 DEF Asked, Carried
  <2>3. Asked'[c] = [opportunity |-> o, seen |-> store[o], status |-> s]
    BY <2>1 DEF Asked
  <2> QED
    BY <2>2, <2>3 DEF Asked
<1>7. store[o] \in 1..Len(opp[o])
  BY <1>1 DEF Version
<1>8. Changes!Ask(c, o)
  BY <1>1, <1>4, <1>5, <1>6, <1>7, SameStatuses DEF Changes!Ask
<1>9. NeverUsed'
  BY <1>2, <1>3 DEF NeverUsed, Carried
<1> QED
  BY <1>8, <1>9

LEMMA MarkChanges ==
    ASSUME IInv, NeverUsed, Mark
    PROVE  /\ \A c \in Commands : Carried(c) \/ outbox'[c].state # "unused"
           /\ Changes!Forget \/ \E c \in Commands : Changes!Succeed(c) \/ Changes!Conflict(c)
<1> DEFINE c == drain.command
           v == drain.verdict
           exhausted == outbox[c].attempts >= MaxAttempts
           s == CASE v = "succeeded" -> "succeeded"
                  [] v \in {"version_conflict", "rejected"} -> "failed"
                  [] v = "interrupted" -> "due"
                  [] v = "transient" -> IF exhausted THEN "failed" ELSE "backoff"
           e == CASE v \in {"version_conflict", "rejected"} -> v
                  [] v = "transient" /\ exhausted -> "retry_exhausted"
                  [] OTHER -> "none"
<1>1. /\ c \in Commands /\ v \in Verdicts \ {"none"} /\ outbox[c] \in Command
      /\ outbox \in [Commands -> Command] /\ UNCHANGED <<opp, applied>>
      /\ outbox[c].error # "version_conflict"
      /\ v = "succeeded" => applied[c] # {}
      /\ v = "version_conflict" => applied[c] = {}
  BY DrainTypes, CommandTypes DEF Mark, IInv, TypeOK, DrainOK, Untouched
<1>2. CASE outbox[c].state # "running"
  <2>1. outbox' = outbox
    BY <1>2 DEF Mark
  <2> QED
    BY <1>1, <2>1, SameCarries, CarriesForgets DEF Carries
<1>3. CASE outbox[c].state = "running"
  <2>1. outbox' = [outbox EXCEPT ![c].state = s, ![c].error = e]
    BY <1>3 DEF Mark
  <2>2. s \in {"succeeded", "failed", "due", "backoff"}
        /\ (v = "succeeded" => s = "succeeded" /\ e = "none")
        /\ (v = "version_conflict" => s = "failed" /\ e = "version_conflict")
        /\ (v \notin {"succeeded", "version_conflict"} => s # "succeeded" /\ e # "version_conflict")
    BY <1>1 DEF Verdicts
  <2> HIDE DEF s, e
  <2>3. /\ outbox'[c].opportunity = outbox[c].opportunity
        /\ outbox'[c].expected = outbox[c].expected /\ outbox'[c].status = outbox[c].status
        /\ outbox'[c].state = s /\ outbox'[c].error = e
        /\ \A d \in Commands \ {c} : outbox'[d] = outbox[d]
    BY <1>1, <2>1 DEF Command
  <2>4. Asked' = Asked /\ Done' = Done
    BY <1>1, <2>3 DEF Asked, Done
  <2>5. \A d \in Commands : Carried(d) \/ outbox'[d].state # "unused"
    BY <2>2, <2>3 DEF Carried
  <2>6. CASE v = "succeeded"
    <3>1. Succeeded' = Succeeded \cup {c} /\ c \in Done
      BY <1>1, <2>2, <2>3, <2>6 DEF Succeeded, Done
    <3>2. Conflicted' = Conflicted
      BY <1>1, <2>2, <2>3, <2>6 DEF Conflicted
    <3>3. Changes!Succeed(c)
      BY <1>1, <2>4, <3>1, <3>2 DEF Changes!Succeed
    <3> QED
      BY <1>1, <2>5, <3>3
  <2>7. CASE v = "version_conflict"
    <3>1. Succeeded' = Succeeded
      BY <1>3, <2>2, <2>3, <2>7 DEF Succeeded
    <3>2. Conflicted' = Conflicted \cup {c} /\ c \notin Done
      BY <1>1, <2>2, <2>3, <2>7 DEF Conflicted, Done
    <3>3. Asked[c] # Changes!Unasked
      <4>1. outbox[c].expected \in 1..Version(Target(c)) /\ Target(c) \in Opportunities
        BY <1>1, <1>3 DEF IInv, CommandOK
      <4>2. outbox[c].expected # 0
        BY <4>1
      <4>3. Asked[c].seen = outbox[c].expected /\ Changes!Unasked.seen = 0
        BY <1>1 DEF Asked, Changes!Unasked
      <4> QED
        BY <4>2, <4>3
    <3>4. Changes!Conflict(c)
      BY <1>1, <2>4, <3>1, <3>2, <3>3 DEF Changes!Conflict
    <3> QED
      BY <1>1, <2>5, <3>4
  <2>8. CASE v \notin {"succeeded", "version_conflict"}
    <3>1. Carries
      BY <1>1, <2>2, <2>3, <2>8 DEF Carries, Carried
    <3> QED
      BY <2>5, <3>1, CarriesForgets
  <2> QED
    BY <2>6, <2>7, <2>8
<1> QED
  BY <1>2, <1>3

\* A command takes effect: on the version its user saw, which admits it.
LEMMA ApplyChanges ==
    ASSUME IInv, NEW r \in requests, Execute(r), Applies(r)
    PROVE  /\ \A c \in Commands : Carried(c)
           /\ r.command \in Commands /\ Target(r.command) \in Opportunities
           /\ Changes!Take(r.command, Target(r.command))
<1> DEFINE c == r.command
           o == Target(r.command)
           content == [status |-> outbox[r.command].status, archived |-> FALSE]
<1>1. /\ c \in Commands /\ o \in Opportunities /\ applied \in [Commands -> SUBSET Nat]
      /\ UNCHANGED outbox
      /\ opp' = [opp EXCEPT ![o] = Append(@, content)]
      /\ applied' = [applied EXCEPT ![c] = @ \cup {Version(o)}]
  BY RequestTypes DEF IInv, RequestOK, CommandOK, Execute, Applies, TypeOK
<1>2. /\ Version(o) = outbox[c].expected /\ ~opp[o][Version(o)].archived
      /\ Allowed(opp[o][Version(o)].status, outbox[c].status)
  BY DEF Applies, Accepts, Current
<1>3. applied[c] = {} /\ outbox[c].error # "version_conflict"
  <2>1. applied[c] = {}
    BY RequestedMeansReceipt DEF Applies
  <2>2. ~Untouched(c)
    <3>1. r.loaded > 0 /\ Accepts(r) /\ Current(r) /\ Requested(c)
      BY DEF Execute, Applies, Requested
    <3> QED
      BY <3>1, AcceptedIsSeen DEF Untouched
  <2> QED
    BY <1>1, <2>1, <2>2 DEF IInv, CommandOK
<1>4. Asked' = Asked /\ Succeeded' = Succeeded /\ Conflicted' = Conflicted
  BY <1>1 DEF Asked, Succeeded, Conflicted
<1>5. Done' = Done \cup {c} /\ c \notin Done \cup Conflicted
  BY <1>1, <1>3 DEF Done, Conflicted
<1>6. /\ Asked[c].opportunity = o /\ Asked[c].seen = Len(opp[o])
      /\ Asked[c].status = outbox[c].status
  BY <1>1, <1>2 DEF Asked, Target, Version
<1>7. Changes!Commit(o, content)
  BY <1>1, <1>2, SameStatuses DEF Changes!Commit, Changes!Follows, Version
<1> QED
  BY <1>1, <1>4, <1>5, <1>6, <1>7 DEF Changes!Take, Carried

LEMMA InitChanges == Init => NeverUsed /\ Changes!Init
<1> SUFFICES ASSUME Init PROVE NeverUsed /\ Changes!Init
  OBVIOUS
<1>1. \A o \in Opportunities : Len(opp[o]) = 1
  BY DEF Init
<1>2. /\ Asked = [c \in Commands |-> Changes!Unasked]
      /\ Done = {} /\ Succeeded = {} /\ Conflicted = {}
  BY DEF Init, Asked, Done, Succeeded, Conflicted, Unused, Changes!Unasked
<1> QED
  BY <1>1, <1>2 DEF Init, NeverUsed, Changes!Init

LEMMA StepChanges ==
    IInv /\ IInv' /\ NeverUsed /\ [Next]_vars => NeverUsed' /\ [Changes!Next]_(Changes!vars)
<1> SUFFICES ASSUME IInv, IInv', NeverUsed, [Next]_vars PROVE NeverUsed' /\ Changes!Next
  OBVIOUS
<1>1. ASSUME Carries PROVE NeverUsed' /\ Changes!Next
  BY <1>1, CarriesKeeps, CarriesForgets DEF Carries, Changes!Next
<1>2. CASE \E o \in Opportunities : Write(o)
  BY <1>2, WriteChanges, CarriesKeeps DEF Changes!Next
<1>3. CASE Sync \/ UNCHANGED vars
  BY <1>1, <1>3, QuietCarries
<1>4. CASE User
  BY <1>1, <1>4, TimeCarries, EnqueueChanges DEF User, Changes!Next
<1>5. CASE Time
  BY <1>1, <1>5, TimeCarries, QuietCarries DEF Time
<1>6. CASE Work
  <2>1. CASE Mark
    <3>1. NeverUsed'
      BY <2>1, MarkChanges DEF NeverUsed, Carried
    <3> QED
      BY <2>1, <3>1, MarkChanges DEF Changes!Next
  <2>2. CASE StartDrain \/ Claim \/ EndDrain \/ Check \/ Timeout
    BY <1>1, <2>2, StartDrainCarries, ClaimCarries, QuietCarries
  <2> QED
    BY <1>6, <2>1, <2>2 DEF Work
<1>7. CASE Serve
  <2>1. PICK r \in requests : Load(r) \/ Execute(r) \/ Unreachable(r)
    BY <1>7 DEF Serve
  <2>2. CASE Execute(r) /\ Applies(r)
    BY <2>2, ApplyChanges, CarriesKeeps DEF Changes!Next
  <2>3. CASE ~(Execute(r) /\ Applies(r))
    BY <1>1, <2>1, <2>3, QuietCarries
  <2> QED
    BY <2>2, <2>3
<1>8. CASE Fault
  BY <1>1, <1>8, WipeCarries, QuietCarries DEF Fault
<1> QED
  BY <1>2, <1>3, <1>4, <1>5, <1>6, <1>7, <1>8 DEF Next

\* The promise to the user: whatever the drain, its retries, the network, the
\* other writers, kills and sign-outs do, a command is one legal change of the
\* opportunity over the version the user saw, or none, and the app never says
\* otherwise: the detailed specification implements StatusChanges.
THEOREM OutboxKeepsPromise == Spec => StatusChangesSpec
BY InitChanges, StepChanges, Start, Step, PTL DEF Spec, StatusChangesSpec, Changes!Spec
=============================================================================
