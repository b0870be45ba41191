------------------------- MODULE DeviceSessionsProofs -------------------------
(***************************************************************************)
(* What is proved of DeviceSessions, for any tasks and any bounds: the      *)
(* device has one active credential at most, a credential is exchanged at   *)
(* most once, and a revoked device gets no other; and the transactions of   *)
(* the server are atomic, so that DeviceCredentials is implemented.         *)
(***************************************************************************)
EXTENDS DeviceSessions, FiniteSetTheorems, SequenceTheorems, TLAPS

\* A request names credentials that exist.
Named(r, n) ==
    /\ r.kind = "rotate" => r.token \in 1..n
    /\ r.pc # "sent" => r.kind = "rotate"
    /\ r.seen \subseteq 1..n

TaskNamed(k, n) == k.got \in 0..n /\ k.prev.refresh \in 0..n

References ==
    /\ IsFiniteSet(requests)
    /\ \A r \in requests : Named(r, Len(creds))
    /\ \A t \in Tasks : TaskNamed(tasks[t], Len(creds))

\* A rotation has locked an active credential, and no other rotation has it.
RotationsLocked ==
    /\ \A r \in requests : r.pc = "rotating" => Live(r.token)
    /\ \A q, r \in requests : q.pc = "rotating" /\ r.pc = "rotating" /\ q.token = r.token => q = r

\* A credential that was exchanged is older than its successor, and spent.
ParentsSpent ==
    \A c \in Creds : creds[c].parent # 0 =>
        creds[c].parent \in 1..(c - 1) /\ ~Live(creds[c].parent)

IInv ==
    /\ TypeOK /\ References /\ RotationsLocked
    /\ OneLiveCredential /\ ParentsSpent /\ ExchangedOnce

-----------------------------------------------------------------------------
(* Requests. *)

\* There is an identity no request has.
LEMMA FreshId ==
    ASSUME References
    PROVE  NewId \in Nat
<1> DEFINE n == Cardinality(requests)
           Ids == {r.id : r \in requests}
           f == [r \in requests |-> r.id]
<1>1. IsFiniteSet(requests) /\ n \in Nat
  BY FS_CardinalityType DEF References
<1>2. f \in Surjection(requests, Ids)
  BY DEF Surjection
<1>3. IsFiniteSet(Ids) /\ Cardinality(Ids) <= n
  <2> HIDE DEF Ids, f, n
  <2>1. IsFiniteSet(requests)
    BY <1>1
  <2> QED
    BY <1>2, <2>1, FS_Surjection DEF n
<1>4. \E m \in 1..(n + 1) : m \notin Ids
  <2>1. SUFFICES ASSUME 1..(n + 1) \subseteq Ids PROVE FALSE
    OBVIOUS
  <2>2. Cardinality(1..(n + 1)) = n + 1
    BY <1>1, FS_Interval
  <2>3. Cardinality(1..(n + 1)) <= Cardinality(Ids)
    <3> HIDE DEF Ids, n
    <3> QED
      BY <1>3, <2>1, FS_Subset
  <2>4. Cardinality(Ids) \in Nat
    <3> HIDE DEF Ids
    <3> QED
      BY <1>3, FS_CardinalityType
  <2> QED
    BY <1>1, <1>3, <2>2, <2>3, <2>4
<1>5. \E m \in 1..(Cardinality(requests) + 1) : \A r \in requests : r.id # m
  BY <1>4
<1> QED
  BY <1>1, <1>5 DEF NewId

\* A new request is well formed.
LEMMA NewCall ==
    ASSUME TypeOK, References, NEW kind \in {"register", "rotate", "revoke"},
           NEW by \in Tasks \cup {"logout", "nobody"}, NEW token \in 0..Len(creds),
           kind = "rotate" => token # 0
    PROVE  /\ Call(kind, by, token) \in Request
           /\ Named(Call(kind, by, token), Len(creds))
           /\ Call(kind, by, token).pc = "sent"
<1>1. NewId \in Nat
  BY FreshId
<1>2. Len(creds) \in Nat /\ access \in Access
  BY LenProperties DEF TypeOK
<1> QED
  BY <1>1, <1>2 DEF Call, Request, Named

\* Forgetting who waits changes nothing else of a request.
LEMMA DetachedSame ==
    ASSUME requests \subseteq Request, NEW S, NEW r \in Detached(S)
    PROVE  /\ r \in Request
           /\ \E q \in requests :
                /\ r = IF q.by \in S THEN [q EXCEPT !.by = "nobody"] ELSE q
                /\ r.pc = q.pc /\ r.token = q.token /\ r.seen = q.seen /\ r.kind = q.kind
<1>1. PICK q \in requests : r = IF q.by \in S THEN [q EXCEPT !.by = "nobody"] ELSE q
  BY DEF Detached
<1>2. q \in Request
  OBVIOUS
<1> QED
  BY <1>1, <1>2 DEF Request

LEMMA DetachedFinite ==
    ASSUME IsFiniteSet(requests), NEW S
    PROVE  IsFiniteSet(Detached(S))
<1> DEFINE f == [r \in requests |-> IF r.by \in S THEN [r EXCEPT !.by = "nobody"] ELSE r]
<1>1. f \in Surjection(requests, Detached(S))
  BY DEF Surjection, Detached
<1> HIDE DEF f
<1> QED
  BY <1>1, FS_Surjection

\* With nobody to forget, nothing changes.
LEMMA DetachedNone == Detached({}) = requests
BY DEF Detached

-----------------------------------------------------------------------------
(* Steps that neither write a credential nor lock one. *)

\* Requests may be forgotten by their tasks, answered or added.
Quiet ==
    /\ creds' = creds
    /\ \E S : \E New \in SUBSET {r \in Request : r.pc = "sent" /\ Named(r, Len(creds))} :
          IsFiniteSet(New) /\ requests' \subseteq Detached(S) \cup New

LEMMA QuietKeeps ==
    ASSUME IInv, Quiet, TypeOK', \A t \in Tasks : TaskNamed(tasks'[t], Len(creds))
    PROVE  IInv'
<1>1. PICK S : \E New \in SUBSET {r \in Request : r.pc = "sent" /\ Named(r, Len(creds))} :
          IsFiniteSet(New) /\ requests' \subseteq Detached(S) \cup New
  BY DEF Quiet
<1>2. PICK New \in SUBSET {r \in Request : r.pc = "sent" /\ Named(r, Len(creds))} :
          IsFiniteSet(New) /\ requests' \subseteq Detached(S) \cup New
  BY <1>1
<1>3. creds' = creds
  BY DEF Quiet
<1>4. requests \subseteq Request
  BY DEF IInv, TypeOK
<1>5. IsFiniteSet(requests')
  <2>1. IsFiniteSet(Detached(S))
    BY DetachedFinite DEF IInv, References
  <2>2. IsFiniteSet(Detached(S) \cup New)
    BY <1>2, <2>1, FS_Union
  <2> QED
    BY <1>2, <2>2, FS_Subset
<1>6. ASSUME NEW r \in requests' PROVE Named(r, Len(creds))
  <2>1. CASE r \in New
    BY <1>2, <2>1
  <2>2. CASE r \in Detached(S)
    BY <1>4, <2>2, DetachedSame DEF IInv, References, Named
  <2> QED
    BY <1>2, <2>1, <2>2
<1>7. References'
  BY <1>3, <1>5, <1>6 DEF References
<1>8. RotationsLocked'
  <2>1. ASSUME NEW r \in requests', r.pc = "rotating" PROVE r \in Detached(S)
    BY <1>2, <2>1
  <2>2. ASSUME NEW r \in requests', r.pc = "rotating" PROVE Live(r.token)
    BY <1>4, <2>1, <2>2, DetachedSame DEF IInv, RotationsLocked
  <2>3. ASSUME NEW q \in requests', NEW r \in requests', q.pc = "rotating", r.pc = "rotating",
               q.token = r.token
        PROVE  q = r
    <3>1. PICK a \in requests :
            /\ q = IF a.by \in S THEN [a EXCEPT !.by = "nobody"] ELSE a
            /\ q.pc = a.pc /\ q.token = a.token
      BY <1>4, <2>1, <2>3, DetachedSame
    <3>2. PICK b \in requests :
            /\ r = IF b.by \in S THEN [b EXCEPT !.by = "nobody"] ELSE b
            /\ r.pc = b.pc /\ r.token = b.token
      BY <1>4, <2>1, <2>3, DetachedSame
    <3>3. a = b
      BY <2>3, <3>1, <3>2 DEF IInv, RotationsLocked
    <3> QED
      BY <3>1, <3>2, <3>3
  <2> QED
    BY <1>3, <2>2, <2>3 DEF RotationsLocked, Live, Status
<1> QED
  BY <1>3, <1>7, <1>8
  DEF IInv, OneLiveCredential, ParentsSpent, ExchangedOnce, Live, Status, Creds

LEMMA QuietDetach ==
    ASSUME creds' = creds, NEW S, requests' \subseteq Detached(S)
    PROVE  Quiet
<1>1. IsFiniteSet({})
  BY FS_EmptySet
<1>2. {} \in SUBSET {r \in Request : r.pc = "sent" /\ Named(r, Len(creds))}
  OBVIOUS
<1>3. requests' \subseteq Detached(S) \cup {}
  OBVIOUS
<1> QED
  BY <1>1, <1>2, <1>3 DEF Quiet

LEMMA QuietShrink ==
    ASSUME creds' = creds, requests' \subseteq requests
    PROVE  Quiet
BY QuietDetach, DetachedNone

LEMMA QuietCall ==
    ASSUME creds' = creds, NEW S, NEW q \in Request, q.pc = "sent", Named(q, Len(creds)),
           requests' \subseteq Detached(S) \cup {q}
    PROVE  Quiet
<1>1. IsFiniteSet({q})
  BY FS_Singleton
<1>2. {q} \in SUBSET {r \in Request : r.pc = "sent" /\ Named(r, Len(creds))}
  OBVIOUS
<1> QED
  BY <1>1, <1>2 DEF Quiet

LEMMA QuietTyped ==
    ASSUME requests \subseteq Request, Quiet
    PROVE  requests' \subseteq Request
<1>1. PICK S : \E New \in SUBSET {r \in Request : r.pc = "sent" /\ Named(r, Len(creds))} :
          requests' \subseteq Detached(S) \cup New
  BY DEF Quiet
<1>2. Detached(S) \subseteq Request
  BY DetachedSame
<1> QED
  BY <1>1, <1>2

-----------------------------------------------------------------------------
(* The steps of the app. *)

\* The types of everything but the requests, and the references of the tasks.
Rest ==
    /\ version \in 0..MaxVersion /\ device \in {"none", "active", "revoked"}
    /\ creds \in Seq(Credential)
    /\ access \in Access /\ refresh \in 0..Len(creds)
    /\ session \in {"loading", "anonymous", "authenticated", "requires_login", "unavailable"}
    /\ leaving \in BOOLEAN
    /\ tasks \in [Tasks -> Task] /\ \A t \in Tasks : TaskNamed(tasks[t], Len(creds))
    /\ logins \in 0..MaxLogins /\ faults \in 0..MaxFaults

LEMMA RestOfTypes == TypeOK /\ References => Rest
BY DEF TypeOK, References, Rest

LEMMA TypesOfRest == Rest /\ requests \subseteq Request => TypeOK
BY DEF TypeOK, Rest

LEMMA IdleTyped ==
    ASSUME Rest
    PROVE  Len(creds) \in Nat /\ Idle \in Task /\ TaskNamed(Idle, Len(creds)) /\ NoAccess \in Access
<1>1. Len(creds) \in Nat
  BY LenProperties DEF Rest
<1>2. NoAccess \in Access
  BY DEF NoAccess, Access
<1> QED
  BY <1>1, <1>2 DEF Idle, Task, TaskNamed

LEMMA AbortedTyped ==
    ASSUME Rest
    PROVE  Aborted \in [Tasks -> Task] /\ \A t \in Tasks : TaskNamed(Aborted[t], Len(creds))
BY IdleTyped DEF Rest, Aborted

LEMMA Begins ==
    ASSUME Rest, NEW t \in Tasks, BeginEnrollment(t), creds' = creds
    PROVE  /\ Quiet
           /\ tasks' \in [Tasks -> Task]
           /\ \A u \in Tasks : TaskNamed(tasks'[u], Len(creds))
<1>1. Quiet
  BY QuietDetach DEF BeginEnrollment
<1>2. [Idle EXCEPT !.kind = "enroll", !.pc = "start"] \in Task
      /\ TaskNamed([Idle EXCEPT !.kind = "enroll", !.pc = "start"], Len(creds))
  BY IdleTyped DEF Task, TaskNamed, Idle
<1> QED
  BY <1>1, <1>2, AbortedTyped DEF BeginEnrollment

\* The steps in which the app does not wait for the server.
LEMMA LocalSteps ==
    ASSUME ConstantsAssumption, TypeOK, References,
           \/ \E t \in Tasks : Login(t) \/ Foreground(t) \/ Store(t) \/ Verify(t)
           \/ Offline \/ Retry \/ ExpireSession \/ Kill \/ ExpireAccess \/ ChangePassword
    PROVE  Rest' /\ Quiet
<1>1. Rest
  BY RestOfTypes
<1> USE DEF ConstantsAssumption, Rest, server, tokens, app, bounds
<1>2. ASSUME NEW t \in Tasks, Login(t) PROVE Rest' /\ Quiet
  <2>1. [kind |-> "plain", version |-> version, expired |-> FALSE] \in Access
    BY <1>1 DEF Access
  <2> QED
    BY <1>1, <1>2, <2>1, Begins DEF Login
<1>3. ASSUME NEW t \in Tasks, Foreground(t) PROVE Rest' /\ Quiet
  BY <1>1, <1>3, Begins DEF Foreground, Failing
<1>4. ASSUME NEW t \in Tasks, Store(t) PROVE Rest' /\ Quiet
  <2>1. Quiet
    BY <1>4, QuietShrink DEF Store
  <2>2. [tasks[t] EXCEPT !.pc = "verify"] \in Task
        /\ TaskNamed([tasks[t] EXCEPT !.pc = "verify"], Len(creds))
    BY <1>1 DEF Task, TaskNamed
  <2>3. tasks[t].got \in 0..Len(creds)
    BY <1>1 DEF TaskNamed
  <2> QED
    BY <1>1, <1>4, <2>1, <2>2, <2>3 DEF Store
<1>5. ASSUME NEW t \in Tasks, Verify(t) PROVE Rest' /\ Quiet
  <2>1. Quiet
    BY <1>5, QuietShrink DEF Verify
  <2>2. /\ [kind |-> "bound", version |-> 0, expired |-> FALSE] \in Access
        /\ tasks[t].prev.access \in Access /\ tasks[t].prev.refresh \in 0..Len(creds)
    BY <1>1 DEF Task, TaskNamed, Access
  <2> QED
    BY <1>1, <1>5, <2>1, <2>2, IdleTyped DEF Verify
<1>6. ASSUME Offline \/ Retry PROVE Rest' /\ Quiet
  BY <1>1, <1>6, QuietShrink DEF Offline, Retry, Failing
<1>7. ASSUME ExpireSession PROVE Rest' /\ Quiet
  <2>1. Quiet
    BY <1>7, QuietDetach DEF ExpireSession
  <2> QED
    BY <1>1, <1>7, <2>1, IdleTyped, AbortedTyped DEF ExpireSession, Clear
<1>8. ASSUME Kill PROVE Rest' /\ Quiet
  <2>1. Quiet
    BY <1>8, QuietDetach DEF Kill
  <2>2. faults' \in 0..MaxFaults
    BY <1>1, <1>8 DEF Kill, Failing
  <2>3. /\ tasks' \in [Tasks -> Task]
        /\ \A t \in Tasks : TaskNamed(tasks'[t], Len(creds))
    BY <1>1, <1>8, IdleTyped DEF Kill
  <2> QED
    BY <1>1, <1>8, <2>1, <2>2, <2>3 DEF Kill
<1>9. ASSUME ExpireAccess PROVE Rest' /\ Quiet
  <2>1. [access EXCEPT !.expired = TRUE] \in Access
    BY <1>1 DEF Access
  <2> QED
    BY <1>1, <1>9, <2>1, QuietShrink DEF ExpireAccess
<1>10. ASSUME ChangePassword PROVE Rest' /\ Quiet
  BY <1>1, <1>10, QuietShrink DEF ChangePassword
<1> QED
  BY <1>2, <1>3, <1>4, <1>5, <1>6, <1>7, <1>8, <1>9, <1>10

\* The steps in which it begins or stops waiting for the server.
LEMMA CallSteps ==
    ASSUME ConstantsAssumption, TypeOK, References,
           \/ \E t \in Tasks : Enroll(t) \/ Restore(t)
           \/ Logout
           \/ \E r \in requests : Unanswered(r)
    PROVE  Rest' /\ Quiet
<1>1. Rest /\ requests \subseteq Request
  BY RestOfTypes DEF TypeOK
<1> USE DEF ConstantsAssumption, Rest, server, tokens, app, bounds
<1>2. ASSUME NEW t \in Tasks, Enroll(t) PROVE Rest' /\ Quiet
  <2>1. CASE refresh # 0
    <3>1. Quiet
      BY <1>2, <2>1, QuietShrink DEF Enroll
    <3> QED
      BY <1>1, <1>2, <2>1, <3>1, IdleTyped DEF Enroll
  <2>2. CASE refresh = 0
    <3> DEFINE q == Call("register", t, 0)
    <3>1. 0 \in 0..Len(creds)
      BY <1>1, IdleTyped
    <3>2. q \in Request /\ Named(q, Len(creds)) /\ q.pc = "sent"
      BY <3>1, NewCall
    <3> HIDE DEF q
    <3>3. requests' = requests \cup {q} /\ creds' = creds
      BY <1>2, <2>2 DEF Enroll, q
    <3>4. Quiet
      BY <3>2, <3>3, DetachedNone, QuietCall
    <3>5. [tasks[t] EXCEPT !.pc = "call"] \in Task
          /\ TaskNamed([tasks[t] EXCEPT !.pc = "call"], Len(creds))
      BY <1>1 DEF Task, TaskNamed
    <3> QED
      BY <1>1, <1>2, <2>2, <3>4, <3>5 DEF Enroll
  <2> QED
    BY <2>1, <2>2
<1>3. ASSUME NEW t \in Tasks, Restore(t) PROVE Rest' /\ Quiet
  <2>1. CASE Accepted(access)
    BY <1>1, <1>3, <2>1, Begins DEF Restore
  <2>2. CASE ~Accepted(access) /\ refresh = 0
    <3>1. Quiet
      BY <1>3, <2>2, QuietShrink DEF Restore
    <3> QED
      BY <1>1, <1>3, <2>2, <3>1, IdleTyped DEF Restore, Clear
  <2>3. CASE ~Accepted(access) /\ refresh # 0
    <3> DEFINE q == Call("rotate", t, refresh)
    <3>1. q \in Request /\ Named(q, Len(creds)) /\ q.pc = "sent"
      BY <1>1, <2>3, NewCall
    <3> HIDE DEF q
    <3>2. requests' = requests \cup {q} /\ creds' = creds
      BY <1>3, <2>3 DEF Restore, q
    <3>3. Quiet
      BY <3>1, <3>2, DetachedNone, QuietCall
    <3>4. [Idle EXCEPT !.kind = "restore", !.pc = "call"] \in Task
          /\ TaskNamed([Idle EXCEPT !.kind = "restore", !.pc = "call"], Len(creds))
      BY <1>1, IdleTyped DEF Task, TaskNamed, Idle
    <3> QED
      BY <1>1, <1>3, <2>3, <3>3, <3>4 DEF Restore
  <2> QED
    BY <2>1, <2>2, <2>3
<1>4. ASSUME Logout PROVE Rest' /\ Quiet
  <2>1. /\ tasks' \in [Tasks -> Task]
        /\ \A t \in Tasks : TaskNamed(tasks'[t], Len(creds))
    BY <1>1, <1>4, AbortedTyped DEF Logout
  <2>2. CASE refresh = 0
    <3>1. Quiet
      BY <1>4, <2>2, QuietDetach DEF Logout
    <3> QED
      BY <1>1, <1>4, <2>1, <2>2, <3>1, IdleTyped DEF Logout, Clear
  <2>3. CASE refresh # 0
    <3> DEFINE q == Call("revoke", "logout", 0)
    <3>1. 0 \in 0..Len(creds)
      BY <1>1, IdleTyped
    <3>2. q \in Request /\ Named(q, Len(creds)) /\ q.pc = "sent"
      BY <3>1, NewCall
    <3> HIDE DEF q
    <3>3. requests' = Detached(Abortable) \cup {q} /\ creds' = creds
      BY <1>4, <2>3 DEF Logout, q
    <3>4. Quiet
      BY <3>2, <3>3, QuietCall
    <3> QED
      BY <1>1, <1>4, <2>1, <2>3, <3>4 DEF Logout
  <2> QED
    BY <2>2, <2>3
<1>5. ASSUME NEW r \in requests, Unanswered(r) PROVE Rest' /\ Quiet
  <2>1. Quiet
    BY <1>5, QuietDetach DEF Unanswered
  <2>2. /\ tasks' \in [Tasks -> Task]
        /\ \A t \in Tasks : TaskNamed(tasks'[t], Len(creds))
    BY <1>1, <1>5, IdleTyped DEF Unanswered
  <2>3. faults' \in 0..MaxFaults
    BY <1>1, <1>5 DEF Unanswered, Failing
  <2>4. access' \in Access /\ refresh' \in 0..Len(creds)
    <3>1. CASE r.by = "logout"
      BY <1>5, <3>1, IdleTyped, <1>1 DEF Unanswered, Clear
    <3>2. CASE r.by # "logout"
      BY <1>1, <1>5, <3>2 DEF Unanswered
    <3> QED
      BY <3>1, <3>2
  <2>5. /\ leaving' \in BOOLEAN
        /\ session' \in {session, "anonymous", "unavailable"}
    BY <1>1, <1>5 DEF Unanswered
  <2> QED
    BY <1>1, <1>5, <2>1, <2>2, <2>3, <2>4, <2>5 DEF Unanswered
<1> QED
  BY <1>2, <1>3, <1>4, <1>5

-----------------------------------------------------------------------------
(* The steps of the server. *)

\* The types and references when the list of credentials becomes longer.
LEMMA TasksGrow ==
    ASSUME Rest, creds' \in Seq(Credential), Len(creds) <= Len(creds'), NEW t \in Tasks
    PROVE  TaskNamed(tasks[t], Len(creds'))
BY LenProperties, IdleTyped DEF Rest, TaskNamed

LEMMA IssuedTyped ==
    ASSUME Rest, NEW r \in Request, NEW c \in 0..Len(creds'), Issued(r, c),
           creds' \in Seq(Credential), Len(creds) <= Len(creds'),
           device' \in {"none", "active", "revoked"}, UNCHANGED <<version, bounds>>
    PROVE  Rest'
<1>1. Len(creds) \in Nat /\ Len(creds') \in Nat
  BY IdleTyped, LenProperties
<1>2. /\ tasks' \in [Tasks -> Task]
      /\ \A t \in Tasks : TaskNamed(tasks'[t], Len(creds'))
  <2>1. CASE r.by \notin Tasks
    BY <2>1, TasksGrow DEF Issued, Rest
  <2>2. CASE r.by \in Tasks
    <3> DEFINE k == [tasks[r.by] EXCEPT !.pc = "write", !.got = c,
                        !.prev = [access |-> access, refresh |-> refresh]]
    <3>1. tasks[r.by] \in Task /\ access \in Access /\ refresh \in 0..Len(creds')
      BY <1>1, <2>2 DEF Rest
    <3>2. k \in Task /\ TaskNamed(k, Len(creds'))
      <4> DEFINE old == [access |-> access, refresh |-> refresh]
      <4>1. /\ old \in [access : Access, refresh : Nat]
            /\ old.refresh \in 0..Len(creds') /\ c \in Nat
        BY <1>1, <3>1
      <4> HIDE DEF old
      <4>2. [tasks[r.by] EXCEPT !.pc = "write", !.got = c, !.prev = old] \in Task
        BY <3>1, <4>1 DEF Task
      <4>3. TaskNamed([tasks[r.by] EXCEPT !.pc = "write", !.got = c, !.prev = old], Len(creds'))
        BY <3>1, <4>1 DEF Task, TaskNamed
      <4> QED
        BY <4>2, <4>3 DEF old
    <3>3. tasks' = [tasks EXCEPT ![r.by] = k]
      BY <2>2, <3>1 DEF Issued, Task, Rest
    <3> HIDE DEF k
    <3> QED
      BY <3>2, <3>3, TasksGrow DEF Rest
  <2> QED
    BY <2>1, <2>2
<1>3. refresh' \in 0..Len(creds')
  BY <1>1 DEF Issued, Rest, tokens
<1> QED
  BY <1>2, <1>3 DEF Issued, Rest, tokens, bounds

LEMMA RefusedTyped ==
    ASSUME Rest, NEW r \in Request, Refused(r),
           creds' \in Seq(Credential), Len(creds) <= Len(creds'),
           device' \in {"none", "active", "revoked"}, UNCHANGED <<version, bounds>>
    PROVE  Rest'
<1>1. Len(creds) \in Nat /\ Len(creds') \in Nat
  BY IdleTyped, LenProperties
<1>2. Idle \in Task /\ TaskNamed(Idle, Len(creds'))
  BY <1>1, IdleTyped DEF Idle, TaskNamed
<1>3. /\ tasks' \in [Tasks -> Task]
      /\ \A t \in Tasks : TaskNamed(tasks'[t], Len(creds'))
  BY <1>2, TasksGrow DEF Refused, Rest
<1>4. access' \in Access /\ refresh' \in 0..Len(creds')
  <2>1. CASE Clear
    BY <1>1, <2>1, IdleTyped DEF Clear
  <2>2. CASE UNCHANGED tokens
    BY <1>1, <2>2 DEF Rest, tokens
  <2> QED
    BY <2>1, <2>2 DEF Refused
<1>5. leaving' \in BOOLEAN /\ session' \in {session, "anonymous", "requires_login"}
  BY DEF Refused, Rest
<1> QED
  BY <1>3, <1>4, <1>5 DEF Rest, bounds

\* A list of as many credentials is a list of credentials.
LEMMA SameLength ==
    ASSUME creds \in Seq(Credential), NEW f \in [Creds -> Credential]
    PROVE  f \in Seq(Credential) /\ Len(f) = Len(creds)
<1>1. Len(creds) \in Nat /\ f \in [1..Len(creds) -> Credential]
  BY LenProperties DEF Creds
<1>2. f \in Seq(Credential)
  BY <1>1, SeqDef
<1>3. Len(f) \in Nat /\ DOMAIN f = 1..Len(f)
  BY <1>2, LenProperties
<1>4. 1..Len(f) = 1..Len(creds)
  BY <1>1, <1>3
<1> QED
  BY <1>1, <1>2, <1>3, <1>4

\* Credentials keep their parents and never become active again.  When one is
\* issued no other is active, and the one it was exchanged for, if any, was.
Ages ==
    /\ creds' \in Seq(Credential)
    /\ Len(creds') \in {Len(creds), Len(creds) + 1}
    /\ \A c \in Creds : /\ creds'[c].parent = creds[c].parent
                        /\ creds'[c].status = "ACTIVE" => Live(c)
    /\ Len(creds') = Len(creds) + 1 =>
          /\ \A c \in Creds : creds'[c].status # "ACTIVE"
          /\ LET p == creds'[Len(creds) + 1].parent
             IN  p = 0 \/ (p \in Creds /\ Live(p))

LEMMA AgesKeeps ==
    ASSUME IInv, Ages
    PROVE  OneLiveCredential' /\ ParentsSpent' /\ ExchangedOnce'
<1> DEFINE n == Len(creds)
<1>1. n \in Nat /\ Creds = 1..n /\ Creds' = 1..Len(creds')
  BY LenProperties DEF IInv, TypeOK, Creds
<1>2. ASSUME NEW c \in Creds PROVE creds[c].parent # 0 =>
          creds[c].parent \in 1..(c - 1) /\ creds'[creds[c].parent].status # "ACTIVE"
  <2>1. SUFFICES ASSUME creds[c].parent # 0
                 PROVE  creds[c].parent \in 1..(c - 1)
                        /\ creds'[creds[c].parent].status # "ACTIVE"
    OBVIOUS
  <2>2. creds[c].parent \in 1..(c - 1) /\ ~Live(creds[c].parent)
    BY <2>1 DEF IInv, ParentsSpent
  <2>3. creds[c].parent \in Creds
    BY <1>1, <2>2
  <2> QED
    BY <2>2, <2>3 DEF Ages
<1>3. CASE Len(creds') = n
  <2>1. OneLiveCredential'
    BY <1>1, <1>3 DEF IInv, Ages, OneLiveCredential, Live, Status
  <2>2. ParentsSpent'
    BY <1>1, <1>2, <1>3 DEF Ages, ParentsSpent, Live, Status
  <2>3. ExchangedOnce'
    BY <1>1, <1>3 DEF IInv, Ages, ExchangedOnce
  <2> QED
    BY <2>1, <2>2, <2>3
<1>4. CASE Len(creds') = n + 1
  <2> DEFINE p == creds'[n + 1].parent
  <2>1. Creds' = Creds \cup {n + 1} /\ n + 1 \notin Creds
    BY <1>1, <1>4
  <2>2. /\ \A c \in Creds : creds'[c].status # "ACTIVE"
        /\ p = 0 \/ (p \in Creds /\ Live(p))
    BY <1>4 DEF Ages
  <2>3. OneLiveCredential'
    BY <2>1, <2>2 DEF OneLiveCredential, Live, Status
  <2>4. ParentsSpent'
    <3>1. ASSUME NEW c \in Creds', creds'[c].parent # 0
          PROVE  creds'[c].parent \in 1..(c - 1) /\ creds'[creds'[c].parent].status # "ACTIVE"
      <4>1. CASE c \in Creds
        BY <1>2, <3>1, <4>1 DEF Ages
      <4>2. CASE c = n + 1
        BY <1>1, <2>2, <3>1, <4>2
      <4> QED
        BY <2>1, <4>1, <4>2
    <3> QED
      BY <3>1 DEF ParentsSpent, Live, Status
  <2>5. ExchangedOnce'
    <3>1. \A c \in Creds : creds[c].parent = p => p = 0
      <4>1. SUFFICES ASSUME NEW c \in Creds, creds[c].parent = p, p # 0 PROVE FALSE
        OBVIOUS
      <4> QED
        BY <2>2, <4>1 DEF IInv, ParentsSpent
    <3>2. \A c \in Creds : creds'[c].parent = creds[c].parent
      BY DEF Ages
    <3> HIDE DEF p
    <3>3. creds'[n + 1].parent = p
      BY DEF p
    <3> QED
      BY <2>1, <3>1, <3>2, <3>3 DEF IInv, ExchangedOnce
  <2> QED
    BY <2>3, <2>4, <2>5
<1> QED
  BY <1>3, <1>4 DEF Ages

\* With fewer requests and more credentials every reference still holds.
LEMMA ReferencesKept ==
    ASSUME IInv, Ages, requests' \subseteq requests, Rest'
    PROVE  References' /\ TypeOK'
<1>1. IsFiniteSet(requests')
  BY FS_Subset DEF IInv, References
<1>2. Len(creds) \in Nat /\ Len(creds') >= Len(creds)
  BY LenProperties DEF IInv, TypeOK, Ages
<1>3. \A r \in requests' : Named(r, Len(creds'))
  BY <1>2 DEF IInv, References, Named
<1>4. requests' \subseteq Request
  BY DEF IInv, TypeOK
<1> QED
  BY <1>1, <1>3, <1>4 DEF References, TypeOK, Rest

\* Nothing is being rotated while every active credential is free.
LEMMA NothingRotates ==
    ASSUME IInv, \A c \in Creds : Live(c) => ~Locked(c)
    PROVE  \A r \in requests : r.pc # "rotating"
<1>1. SUFFICES ASSUME NEW r \in requests, r.pc = "rotating" PROVE FALSE
  OBVIOUS
<1>2. r.token \in Creds /\ Live(r.token)
  BY <1>1 DEF IInv, References, Named, RotationsLocked, Creds
<1>3. Locked(r.token)
  BY <1>1 DEF Locked
<1> QED
  BY <1>2, <1>3

\* A credential keeps its place when only statuses change.
LEMMA Restated ==
    ASSUME creds \in Seq(Credential), NEW f \in [Creds -> Credential],
           \A c \in Creds : f[c].parent = creds[c].parent /\ (f[c].status = "ACTIVE" => Live(c)),
           creds' = f
    PROVE  Ages
<1>1. Len(creds) \in Nat
  BY LenProperties
<1> QED
  BY <1>1, SameLength DEF Ages

LEMMA RegisterKeeps ==
    ASSUME ConstantsAssumption, IInv, NEW r \in requests, Register(r)
    PROVE  IInv'
<1> DEFINE n == Len(creds)
           given == [c \in Creds |-> [creds[c] EXCEPT
                        !.status = IF @ = "ACTIVE" THEN "REVOKED" ELSE @]]
           new == [family |-> n + 1, parent |-> 0, status |-> "ACTIVE"]
<1>1. /\ Rest /\ r \in Request /\ n \in Nat /\ creds \in Seq(Credential) /\ Creds = 1..n
      /\ \A c \in Creds : creds[c] \in Credential
  BY RestOfTypes, LenProperties, ElementOfSeq DEF IInv, TypeOK, Creds
<1>2. \A q \in requests : q.pc # "rotating"
  BY NothingRotates DEF Register
<1>3. requests' = requests \ {r}
  BY DEF Register, Done
<1>4. RotationsLocked'
  BY <1>2, <1>3 DEF RotationsLocked
<1>5. CASE Accepted(r.access) /\ device # "revoked"
  <2>1. given \in [Creds -> Credential]
    BY <1>1 DEF Credential
  <2>2. given \in Seq(Credential) /\ Len(given) = n
    BY <1>1, <2>1, SameLength
  <2>3. new \in Credential
    BY <1>1 DEF Credential
  <2>4. creds' = Append(given, new) /\ Issued(r, n + 1)
    BY <1>5 DEF Register
  <2>5. \A c \in Creds : given[c].parent = creds[c].parent /\ given[c].status # "ACTIVE"
    BY <1>1 DEF Credential
  <2>6. /\ creds' \in Seq(Credential) /\ Len(creds') = n + 1
        /\ \A c \in Creds : creds'[c] = given[c]
        /\ creds'[n + 1] = new
    <3> HIDE DEF given, new
    <3> QED
      BY <1>1, <2>2, <2>3, <2>4, AppendProperties
  <2>7. Ages
    <3> HIDE DEF given
    <3> QED
      BY <1>1, <2>5, <2>6 DEF Ages
  <2>8. Rest'
    BY <1>1, <1>5, <2>4, <2>6, IssuedTyped DEF Register
  <2> QED
    BY <1>3, <1>4, <2>7, <2>8, AgesKeeps, ReferencesKept DEF IInv
<1>6. CASE ~(Accepted(r.access) /\ device # "revoked")
  <2>1. UNCHANGED <<device, creds>> /\ Refused(r)
    BY <1>6 DEF Register
  <2>2. Rest'
    BY <1>1, <2>1, RefusedTyped DEF Register, Rest
  <2>3. TypeOK'
    BY <1>3, <2>2, TypesOfRest DEF IInv, TypeOK, Rest
  <2> QED
    BY <1>3, <2>1, <2>2, <2>3, QuietShrink, QuietKeeps DEF Rest
<1> QED
  BY <1>5, <1>6

\* A request that has found its token used remembers the family it will revoke.
LEMMA ReplayTyped ==
    ASSUME NEW r \in Request, NEW n \in Nat, NEW seen \in SUBSET (1..n),
           r.kind = "rotate", r.token \in 1..n
    PROVE  /\ [r EXCEPT !.pc = "replaying", !.seen = seen] \in Request
           /\ Named([r EXCEPT !.pc = "replaying", !.seen = seen], n)
<1> DEFINE q == [r EXCEPT !.pc = "replaying"]
<1>1. q \in Request /\ q.kind = "rotate" /\ q.pc = "replaying" /\ q.token = r.token
  BY DEF Request
<1>2. [r EXCEPT !.pc = "replaying", !.seen = seen] = [q EXCEPT !.seen = seen]
  BY DEF Request
<1>3. seen \in SUBSET Nat
  OBVIOUS
<1>4. /\ [q EXCEPT !.seen = seen] \in Request
      /\ [q EXCEPT !.seen = seen].kind = q.kind /\ [q EXCEPT !.seen = seen].pc = q.pc
      /\ [q EXCEPT !.seen = seen].token = q.token /\ [q EXCEPT !.seen = seen].seen = seen
  <2> HIDE DEF q
  <2> QED
    BY <1>1, <1>3 DEF Request
<1> QED
  BY <1>1, <1>2, <1>4 DEF Named

LEMMA RotateKeeps ==
    ASSUME ConstantsAssumption, IInv, NEW r \in requests, Rotate(r)
    PROVE  IInv'
<1> DEFINE n == Len(creds)
<1>1. /\ Rest /\ r \in Request /\ n \in Nat /\ creds \in Seq(Credential) /\ Creds = 1..n
      /\ \A c \in Creds : creds[c] \in Credential
      /\ r.kind = "rotate" /\ r.token \in Creds
  BY RestOfTypes, LenProperties, ElementOfSeq
  DEF IInv, TypeOK, Creds, References, Named, Rotate
<1>2. \A q \in requests : q.pc = "rotating" => q.token # r.token
  BY DEF Rotate, Free, Locked
<1>3. ASSUME UNCHANGED <<creds, tokens, app>>,
             NEW q \in Request, requests' = (requests \ {r}) \cup {q},
             Named(q, n), q.pc = "rotating" => Live(r.token) /\ q.token = r.token
      PROVE  IInv'
  <2>1. Rest'
    BY <1>1, <1>3 DEF Rotate, Rest, tokens, app, bounds
  <2>2. requests' \subseteq Request
    BY <1>3 DEF IInv, TypeOK
  <2>3. TypeOK'
    BY <2>1, <2>2 DEF TypeOK, Rest
  <2>4. IsFiniteSet(requests')
    BY <1>3, FS_RemoveElement, FS_AddElement DEF IInv, References
  <2>5. References'
    BY <1>3, <2>1, <2>4 DEF IInv, References, Rest
  <2>6. RotationsLocked'
    BY <1>2, <1>3 DEF IInv, RotationsLocked, Live, Status
  <2> QED
    BY <1>3, <2>3, <2>5, <2>6
    DEF IInv, OneLiveCredential, ParentsSpent, ExchangedOnce, Live, Status, Creds
<1>4. CASE /\ UNCHANGED <<creds, tokens, app>>
           /\ requests' = (requests \ {r}) \cup
                  {[r EXCEPT !.pc = "replaying", !.seen = Family(r.token)]}
  <2>1. Family(r.token) \subseteq 1..n
    BY <1>1 DEF Family
  <2>2. /\ [r EXCEPT !.pc = "replaying", !.seen = Family(r.token)] \in Request
        /\ Named([r EXCEPT !.pc = "replaying", !.seen = Family(r.token)], n)
    BY <1>1, <2>1, ReplayTyped
  <2>3. [r EXCEPT !.pc = "replaying", !.seen = Family(r.token)].pc # "rotating"
    BY <1>1 DEF Request
  <2> QED
    BY <1>3, <1>4, <2>2, <2>3
<1>5. CASE /\ UNCHANGED <<creds, tokens, app>> /\ Live(r.token)
           /\ requests' = (requests \ {r}) \cup {[r EXCEPT !.pc = "rotating"]}
  <2>1. /\ [r EXCEPT !.pc = "rotating"] \in Request
        /\ [r EXCEPT !.pc = "rotating"].token = r.token
        /\ Named([r EXCEPT !.pc = "rotating"], n)
    <3>1. Named(r, n)
      BY DEF IInv, References
    <3> QED
      BY <1>1, <3>1 DEF Request, Named
  <2> QED
    BY <1>3, <1>5, <2>1
<1>6. CASE /\ Status(r.token) # "ROTATED"
           /\ creds' = IF Live(r.token)
                       THEN [creds EXCEPT ![r.token].status = "REVOKED"] ELSE creds
           /\ Done(r) /\ Refused(r)
  <2> DEFINE f == IF Live(r.token) THEN [creds EXCEPT ![r.token].status = "REVOKED"] ELSE creds
  <2>1. creds \in [Creds -> Credential]
    BY <1>1, LenProperties
  <2>2. f \in [Creds -> Credential]
    BY <1>1, <2>1 DEF Credential
  <2>3. \A c \in Creds : f[c].parent = creds[c].parent /\ (f[c].status = "ACTIVE" => Live(c))
    BY <1>1, <2>1 DEF Credential, Live, Status
  <2>4. creds' = f
    BY <1>6
  <2>5. Ages /\ Len(creds') = n /\ creds' \in Seq(Credential)
    <3> HIDE DEF f
    <3> QED
      BY <1>1, <2>2, <2>3, <2>4, Restated, SameLength
  <2>6. Rest'
    <3>1. UNCHANGED <<version, device, bounds>>
      BY DEF Rotate
    <3>2. Len(creds) <= Len(creds')
      BY <1>1, <2>5
    <3> QED
      BY <1>1, <1>6, <2>5, <3>1, <3>2, RefusedTyped DEF Rest
  <2>7. requests' = requests \ {r}
    BY <1>6 DEF Done
  <2>8. RotationsLocked'
    <3>1. ASSUME NEW q \in requests', q.pc = "rotating" PROVE creds'[q.token].status = "ACTIVE"
      <4>1. q.token # r.token /\ q.token \in Creds /\ Live(q.token)
        BY <1>2, <2>7, <3>1 DEF IInv, References, Named, RotationsLocked, Creds
      <4> QED
        BY <2>1, <2>4, <4>1 DEF Live, Status
    <3> QED
      BY <2>7, <3>1 DEF IInv, RotationsLocked, Live, Status
  <2> QED
    BY <2>5, <2>6, <2>7, <2>8, AgesKeeps, ReferencesKept DEF IInv
<1> QED
  BY <1>4, <1>5, <1>6 DEF Rotate

LEMMA CommitRotationKeeps ==
    ASSUME ConstantsAssumption, IInv, NEW r \in requests, CommitRotation(r)
    PROVE  IInv'
<1> DEFINE n == Len(creds)
           f(status) == [creds EXCEPT ![r.token].status = status]
           new == [family |-> creds[r.token].family, parent |-> r.token, status |-> "ACTIVE"]
<1>1. /\ Rest /\ r \in Request /\ n \in Nat /\ creds \in Seq(Credential) /\ Creds = 1..n
      /\ creds \in [Creds -> Credential]
      /\ r.pc = "rotating" /\ r.token \in Creds /\ Live(r.token)
  BY RestOfTypes, LenProperties
  DEF IInv, TypeOK, Creds, References, Named, CommitRotation, RotationsLocked
<1>2. requests' = requests \ {r} /\ UNCHANGED <<version, device, bounds>>
  BY DEF CommitRotation, Done
<1>3. ASSUME \A c \in Creds \ {r.token} : creds'[c] = creds[c] PROVE RotationsLocked'
  <2>1. ASSUME NEW q \in requests', q.pc = "rotating" PROVE creds'[q.token].status = "ACTIVE"
    <3>1. q.token \in Creds /\ Live(q.token) /\ q.token # r.token
      BY <1>1, <1>2, <2>1 DEF IInv, References, Named, RotationsLocked, Creds
    <3> QED
      BY <1>3, <3>1 DEF Live, Status
  <2> QED
    BY <1>2, <2>1 DEF IInv, RotationsLocked, Live, Status
<1>4. ASSUME NEW status \in {"ROTATED", "REVOKED"}
      PROVE  /\ f(status) \in [Creds -> Credential]
             /\ \A c \in Creds : f(status)[c].parent = creds[c].parent
             /\ \A c \in Creds : f(status)[c].status = "ACTIVE" => Live(c) /\ c # r.token
             /\ \A c \in Creds \ {r.token} : f(status)[c] = creds[c]
  BY <1>1 DEF Credential, Live, Status
<1>5. CASE device = "active"
  <2> DEFINE g == f("ROTATED")
  <2>1. creds' = Append(g, new) /\ Issued(r, n + 1)
    BY <1>5 DEF CommitRotation, Replace
  <2>2. new \in Credential
    BY <1>1 DEF Credential
  <2>3. /\ g \in [Creds -> Credential]
        /\ \A c \in Creds : g[c].parent = creds[c].parent
        /\ \A c \in Creds : g[c].status = "ACTIVE" => Live(c) /\ c # r.token
        /\ \A c \in Creds \ {r.token} : g[c] = creds[c]
    BY <1>4
  <2>4. new.parent = r.token
    OBVIOUS
  <2> HIDE DEF g, new
  <2>5. g \in Seq(Credential) /\ Len(g) = n
    BY <1>1, <2>3, SameLength
  <2>6. /\ creds' \in Seq(Credential) /\ Len(creds') = n + 1
        /\ \A c \in Creds : creds'[c] = g[c]
        /\ creds'[n + 1] = new
    BY <1>1, <2>1, <2>2, <2>5, AppendProperties
  <2>7. \A c \in Creds : g[c].status # "ACTIVE"
    BY <1>1, <2>3 DEF IInv, OneLiveCredential
  <2>8. Ages
    BY <1>1, <2>3, <2>4, <2>6, <2>7 DEF Ages
  <2>9. Rest'
    <3>1. device' \in {"none", "active", "revoked"}
      BY <1>1, <1>2 DEF Rest
    <3>2. n + 1 \in 0..Len(creds') /\ Len(creds) <= Len(creds')
      BY <1>1, <2>6
    <3> QED
      BY <1>1, <1>2, <2>1, <2>6, <3>1, <3>2, IssuedTyped
  <2>10. RotationsLocked'
    BY <1>3, <2>3, <2>6
  <2> QED
    BY <1>2, <2>8, <2>9, <2>10, AgesKeeps, ReferencesKept DEF IInv
<1>6. CASE device # "active"
  <2> DEFINE g == f("REVOKED")
  <2>1. creds' = g /\ Refused(r)
    BY <1>6 DEF CommitRotation
  <2>2. /\ g \in [Creds -> Credential]
        /\ \A c \in Creds : g[c].parent = creds[c].parent
        /\ \A c \in Creds : g[c].status = "ACTIVE" => Live(c) /\ c # r.token
        /\ \A c \in Creds \ {r.token} : g[c] = creds[c]
    BY <1>4
  <2> HIDE DEF g
  <2>3. Ages
    BY <1>1, <2>1, <2>2, Restated
  <2>4. creds' \in Seq(Credential) /\ Len(creds') = n
    BY <1>1, <2>1, <2>2, SameLength
  <2>5. Rest'
    <3>1. device' \in {"none", "active", "revoked"}
      BY <1>1, <1>2 DEF Rest
    <3>2. Len(creds) <= Len(creds')
      BY <1>1, <2>4
    <3> QED
      BY <1>1, <1>2, <2>1, <2>4, <3>1, <3>2, RefusedTyped
  <2>6. RotationsLocked'
    BY <1>3, <2>1, <2>2
  <2> QED
    BY <1>2, <2>3, <2>5, <2>6, AgesKeeps, ReferencesKept DEF IInv
<1> QED
  BY <1>5, <1>6

LEMMA CommitReplayKeeps ==
    ASSUME ConstantsAssumption, IInv, NEW r \in requests, CommitReplay(r)
    PROVE  IInv'
<1> DEFINE n == Len(creds)
           f == [c \in Creds |-> IF c \in r.seen
                    THEN [creds[c] EXCEPT !.status = "REUSE_DETECTED"] ELSE creds[c]]
<1>1. /\ Rest /\ r \in Request /\ n \in Nat /\ creds \in Seq(Credential) /\ Creds = 1..n
      /\ \A c \in Creds : creds[c] \in Credential
  BY RestOfTypes, LenProperties, ElementOfSeq DEF IInv, TypeOK, Creds
<1>2. /\ requests' = requests \ {r} /\ UNCHANGED <<version, bounds>>
      /\ creds' = f /\ device' = "revoked" /\ Refused(r)
      /\ \A q \in requests : q.pc = "rotating" => q.token \notin r.seen
  BY DEF CommitReplay, Done
<1>3. /\ f \in [Creds -> Credential]
      /\ \A c \in Creds : f[c].parent = creds[c].parent /\ (f[c].status = "ACTIVE" => Live(c))
      /\ \A c \in Creds \ r.seen : f[c] = creds[c]
  BY <1>1 DEF Credential, Live, Status
<1> HIDE DEF f
<1>4. Ages
  BY <1>1, <1>2, <1>3, Restated
<1>5. creds' \in Seq(Credential) /\ Len(creds) <= Len(creds')
  BY <1>1, <1>2, <1>3, SameLength
<1>6. Rest'
  <2>1. device' \in {"none", "active", "revoked"}
    BY <1>2
  <2> QED
    BY <1>1, <1>2, <1>5, <2>1, RefusedTyped
<1>7. RotationsLocked'
  <2>1. ASSUME NEW q \in requests', q.pc = "rotating" PROVE creds'[q.token].status = "ACTIVE"
    <3>1. q.token \in Creds \ r.seen /\ Live(q.token)
      BY <1>2, <2>1 DEF IInv, References, Named, RotationsLocked, Creds
    <3> QED
      BY <1>2, <1>3, <3>1 DEF Live, Status
  <2> QED
    BY <1>2, <2>1 DEF IInv, RotationsLocked, Live, Status
<1> QED
  BY <1>2, <1>4, <1>6, <1>7, AgesKeeps, ReferencesKept DEF IInv

LEMMA RevokeRecordsKeeps ==
    ASSUME ConstantsAssumption, IInv, RevokeRecords, requests' \subseteq requests,
           (creds' \in Seq(Credential) /\ Len(creds) <= Len(creds')) => Rest'
    PROVE  IInv'
<1> DEFINE n == Len(creds)
           f == [c \in Creds |-> [creds[c] EXCEPT
                    !.status = IF @ = "REUSE_DETECTED" THEN @ ELSE "REVOKED"]]
<1>1. /\ n \in Nat /\ creds \in Seq(Credential) /\ Creds = 1..n
      /\ \A c \in Creds : creds[c] \in Credential
  BY LenProperties, ElementOfSeq DEF IInv, TypeOK, Creds
<1>2. creds' = f /\ \A q \in requests : q.pc # "rotating"
  BY NothingRotates DEF RevokeRecords
<1>3. /\ f \in [Creds -> Credential]
      /\ \A c \in Creds : f[c].parent = creds[c].parent /\ f[c].status # "ACTIVE"
  BY <1>1 DEF Credential
<1> HIDE DEF f
<1>4. Ages
  BY <1>1, <1>2, <1>3, Restated
<1>5. creds' \in Seq(Credential) /\ Len(creds) <= Len(creds')
  BY <1>1, <1>2, <1>3, SameLength
<1>6. RotationsLocked'
  BY <1>2 DEF RotationsLocked
<1> QED
  BY <1>4, <1>5, <1>6, AgesKeeps, ReferencesKept DEF IInv

LEMMA RevokeKeeps ==
    ASSUME ConstantsAssumption, IInv,
           RevokeElsewhere \/ \E r \in requests : Revoke(r)
    PROVE  IInv'
<1>1. Rest /\ requests \subseteq Request
  BY RestOfTypes DEF IInv, TypeOK
<1>2. CASE RevokeElsewhere
  <2>1. RevokeRecords /\ device' = "revoked" /\ faults' \in 0..MaxFaults
        /\ UNCHANGED <<version, requests, tokens, app, logins>>
    BY <1>1, <1>2 DEF RevokeElsewhere, RevokeRecords, Failing, Rest, ConstantsAssumption
  <2>2. ASSUME creds' \in Seq(Credential), Len(creds) <= Len(creds') PROVE Rest'
    <3>1. refresh \in 0..Len(creds')
      BY <1>1, <2>2, LenProperties DEF Rest
    <3>2. \A t \in Tasks : TaskNamed(tasks[t], Len(creds'))
      BY <1>1, <2>2, TasksGrow
    <3> QED
      BY <1>1, <2>1, <2>2, <3>1, <3>2 DEF Rest, tokens, app
  <2> QED
    BY <2>1, <2>2, RevokeRecordsKeeps
<1>3. ASSUME NEW r \in requests, Revoke(r) PROVE IInv'
  <2>1. /\ requests' = requests \ {r} /\ Refused(r) /\ UNCHANGED <<version, bounds>>
        /\ RevokeRecords \/ UNCHANGED <<device, creds>>
    BY <1>3 DEF Revoke, Done
  <2>2. device' \in {"none", "active", "revoked"}
    BY <1>1, <2>1 DEF RevokeRecords, Rest
  <2>3. (creds' \in Seq(Credential) /\ Len(creds) <= Len(creds')) => Rest'
    BY <1>1, <2>1, <2>2, RefusedTyped
  <2>4. CASE RevokeRecords
    BY <2>1, <2>3, <2>4, RevokeRecordsKeeps
  <2>5. CASE UNCHANGED <<device, creds>>
    <3>1. Rest'
      BY <1>1, <2>3, <2>5, LenProperties DEF Rest
    <3>2. TypeOK'
      BY <1>1, <2>1, <3>1, TypesOfRest DEF TypeOK, Rest
    <3> QED
      BY <2>1, <2>5, <3>1, <3>2, QuietShrink, QuietKeeps DEF Rest
  <2> QED
    BY <2>1, <2>4, <2>5
<1> QED
  BY <1>2, <1>3

-----------------------------------------------------------------------------
(* The theorems. *)

LEMMA InitIInv == ConstantsAssumption /\ Init => IInv
<1> SUFFICES ASSUME ConstantsAssumption, Init PROVE IInv
  OBVIOUS
<1>1. creds \in Seq(Credential) /\ Len(creds) = 0 /\ Creds = {}
  BY EmptySeq DEF Init, Creds
<1>2. NoAccess \in Access
  BY DEF NoAccess, Access
<1>3. Idle \in Task /\ TaskNamed(Idle, 0)
  BY <1>2 DEF Idle, Task, TaskNamed
<1>4. TypeOK
  <2>1. tasks \in [Tasks -> Task] /\ requests \subseteq Request
    BY <1>3 DEF Init
  <2>2. /\ version \in 0..MaxVersion /\ refresh \in 0..Len(creds)
        /\ logins \in 0..MaxLogins /\ faults \in 0..MaxFaults
    BY <1>1 DEF Init, ConstantsAssumption
  <2>3. device \in {"none"} /\ session \in {"anonymous"} /\ access \in Access
    BY <1>2 DEF Init
  <2> QED
    BY <1>1, <2>1, <2>2, <2>3 DEF Init, TypeOK
<1>5. References
  BY <1>1, <1>3, FS_EmptySet DEF Init, References
<1> QED
  BY <1>1, <1>4, <1>5
  DEF Init, IInv, RotationsLocked, OneLiveCredential, ParentsSpent, ExchangedOnce

LEMMA StepIInv == ConstantsAssumption /\ IInv /\ [Next]_vars => IInv'
<1> SUFFICES ASSUME ConstantsAssumption, IInv, [Next]_vars PROVE IInv'
  OBVIOUS
<1>1. TypeOK /\ References /\ requests \subseteq Request
  BY DEF IInv, TypeOK
<1>2. ASSUME Rest', Quiet PROVE IInv'
  <2>1. TypeOK'
    BY <1>1, <1>2, QuietTyped, TypesOfRest DEF TypeOK, Rest
  <2>2. \A t \in Tasks : TaskNamed(tasks'[t], Len(creds))
    BY <1>2 DEF Rest, Quiet
  <2> QED
    BY <1>2, <2>1, <2>2, QuietKeeps
<1>3. CASE Proceed
  <2>1. PICK t \in Tasks : Enroll(t) \/ Restore(t) \/ Store(t) \/ Verify(t)
    BY <1>3 DEF Proceed
  <2>2. CASE Enroll(t) \/ Restore(t)
    BY <1>1, <1>2, <2>2, CallSteps
  <2>3. CASE Store(t) \/ Verify(t)
    BY <1>1, <1>2, <2>3, LocalSteps
  <2> QED
    BY <2>1, <2>2, <2>3
<1>4. CASE Handle
  <2>1. PICK r \in requests :
          Register(r) \/ Rotate(r) \/ CommitRotation(r) \/ CommitReplay(r) \/ Revoke(r)
    BY <1>4 DEF Handle
  <2> QED
    BY <2>1, RegisterKeeps, RotateKeeps, CommitRotationKeeps, CommitReplayKeeps, RevokeKeeps
<1>5. CASE User
  <2>1. CASE Logout
    BY <1>1, <1>2, <2>1, CallSteps
  <2>2. CASE RevokeElsewhere
    BY <2>2, RevokeKeeps
  <2>3. CASE Retry \/ ChangePassword \/ \E t \in Tasks : Login(t)
    BY <1>1, <1>2, <2>3, LocalSteps
  <2> QED
    BY <1>5, <2>1, <2>2, <2>3 DEF User
<1>6. CASE Fault
  <2>1. CASE Kill \/ Offline \/ ExpireAccess
    BY <1>1, <1>2, <2>1, LocalSteps
  <2>2. CASE \E r \in requests : Unanswered(r)
    BY <1>1, <1>2, <2>2, CallSteps
  <2> QED
    BY <1>6, <2>1, <2>2 DEF Fault
<1>7. CASE ExpireSession \/ \E t \in Tasks : Foreground(t)
  BY <1>1, <1>2, <1>7, LocalSteps
<1>8. CASE UNCHANGED vars
  <2>1. UNCHANGED <<version, device, creds, requests, access, refresh, session, leaving, tasks,
                    logins, faults>>
    BY <1>8 DEF vars, server, tokens, app, bounds
  <2> QED
    BY <2>1
    DEF IInv, TypeOK, References, RotationsLocked, OneLiveCredential, ParentsSpent,
        ExchangedOnce, Live, Status, Creds
<1> QED
  BY <1>3, <1>4, <1>5, <1>6, <1>7, <1>8 DEF Next

LEMMA Invariant == Spec => []IInv
BY InitIInv, StepIInv, ConstantsAssumption, PTL DEF Spec

\* Tokens, requests and tasks keep their shape, and what SecureStore holds was
\* issued by the server.
THEOREM DeviceTypesCorrect == Spec => []TypeOK
BY Invariant, PTL DEF IInv

\* The device never has two active credentials: the locks of the rotation and
\* of the registration are enough, in every order.
THEOREM OneCredentialLives == Spec => []OneLiveCredential
BY Invariant, PTL DEF IInv

\* No credential is exchanged for two others, also when two requests bring it
\* together.
THEOREM NeverExchangedTwice == Spec => []ExchangedOnce
BY Invariant, PTL DEF IInv

\* A revoked device gets no credential from any step.
LEMMA StepRevoked ==
    IInv /\ [Next]_vars => (device = "revoked" => device' = "revoked" /\ Len(creds') = Len(creds))
<1> SUFFICES ASSUME IInv, [Next]_vars, device = "revoked"
             PROVE  device' = "revoked" /\ Len(creds') = Len(creds)
  OBVIOUS
<1>1. /\ creds \in Seq(Credential) /\ creds \in [Creds -> Credential]
      /\ \A c \in Creds : creds[c] \in Credential
  BY LenProperties, ElementOfSeq DEF IInv, TypeOK, Creds
<1>2. CASE Proceed
  BY <1>2 DEF Proceed, Enroll, Restore, Store, Verify, server
<1>3. CASE User
  BY <1>3
  DEF User, Logout, Retry, ChangePassword, RevokeElsewhere, RevokeRecords, Login, server
<1>4. CASE Fault
  BY <1>4 DEF Fault, Kill, Offline, ExpireAccess, Unanswered, server
<1>5. CASE ExpireSession \/ \E t \in Tasks : Foreground(t)
  BY <1>5 DEF ExpireSession, Foreground, server
<1>6. CASE UNCHANGED vars
  BY <1>6 DEF vars, server
<1>7. CASE Handle
  <2>1. PICK r \in requests :
          Register(r) \/ Rotate(r) \/ CommitRotation(r) \/ CommitReplay(r) \/ Revoke(r)
    BY <1>7 DEF Handle
  <2>2. CASE Register(r)
    BY <2>2 DEF Register
  <2>3. CASE Revoke(r)
    BY <2>3 DEF Revoke, RevokeRecords
  <2>4. CASE Rotate(r)
    <3>1. device' = device
      BY <2>4 DEF Rotate
    <3>2. CASE creds' = creds
      BY <3>1, <3>2
    <3>3. CASE creds' = [creds EXCEPT ![r.token].status = "REVOKED"]
      <4>1. Len([creds EXCEPT ![r.token].status = "REVOKED"]) = Len(creds)
        BY <1>1
      <4> QED
        BY <3>1, <3>3, <4>1
    <3> QED
      BY <2>4, <3>2, <3>3 DEF Rotate
  <2>5. CASE CommitRotation(r)
    <3>1. device' = device /\ creds' = [creds EXCEPT ![r.token].status = "REVOKED"]
      BY <2>5 DEF CommitRotation
    <3>2. Len([creds EXCEPT ![r.token].status = "REVOKED"]) = Len(creds)
      BY <1>1
    <3> QED
      BY <3>1, <3>2
  <2>6. CASE CommitReplay(r)
    <3> DEFINE f == [c \in Creds |-> IF c \in r.seen
                    THEN [creds[c] EXCEPT !.status = "REUSE_DETECTED"] ELSE creds[c]]
    <3>1. f \in [Creds -> Credential]
      BY <1>1 DEF Credential
    <3>2. creds' = f /\ device' = "revoked"
      BY <2>6 DEF CommitReplay
    <3> HIDE DEF f
    <3> QED
      BY <1>1, <3>1, <3>2, SameLength
  <2> QED
    BY <2>1, <2>2, <2>3, <2>4, <2>5, <2>6
<1> QED
  BY <1>2, <1>3, <1>4, <1>5, <1>6, <1>7 DEF Next

\* Once revoked, a device stays revoked and no credential is issued for it.
THEOREM RevokedStaysRevoked == Spec => RevokedForGood
<1>1. IInv /\ [Next]_vars =>
        [device = "revoked" => device' = "revoked" /\ Len(creds') = Len(creds)]_vars
  BY StepRevoked
<1> QED
  BY <1>1, Invariant, PTL DEF Spec, RevokedForGood

-----------------------------------------------------------------------------
(* The transactions of the server are atomic: DeviceCredentials. *)

Exchanged == {"ROTATED", "REUSE_DETECTED"}

\* A replay that has not committed has seen the family up to some credential.
Noted(r) ==
    r.pc = "replaying" =>
        /\ Status(r.token) \in Exchanged
        /\ \E last \in Creds :
            /\ r.token <= last
            /\ r.seen = {d \in 1..last : creds[d].family = creds[r.token].family}

ReplaysNoted == \A r \in requests : Noted(r)

\* The types of the credentials and of what the requests name.
LEMMA Named1 ==
    ASSUME IInv
    PROVE  /\ Len(creds) \in Nat /\ creds \in Seq(Credential) /\ creds \in [Creds -> Credential]
           /\ Creds = 1..Len(creds) /\ \A c \in Creds : creds[c] \in Credential
           /\ requests \subseteq Request
           /\ \A r \in requests : r.pc # "sent" => r.token \in Creds
           /\ \A r \in requests : r.kind = "rotate" => r.token \in Creds
           /\ \A r \in requests : r.seen \subseteq Creds
BY LenProperties, ElementOfSeq DEF IInv, TypeOK, Creds, References, Named

\* Families are kept, and what was exchanged stays so.
LEMMA NotedKept ==
    ASSUME IInv, ReplaysNoted, Len(creds') \in Nat, Len(creds) <= Len(creds'),
           \A c \in Creds : creds'[c].family = creds[c].family,
           \A r \in requests : r.pc = "replaying" =>
              creds'[r.token].status \in Exchanged \/ creds'[r.token] = creds[r.token],
           \A q \in requests' : q.pc = "replaying" =>
              \E r \in requests : r.pc = "replaying" /\ r.token = q.token /\ r.seen = q.seen
    PROVE  ReplaysNoted'
<1>1. SUFFICES ASSUME NEW q \in requests', q.pc = "replaying" PROVE Noted(q)'
  BY DEF ReplaysNoted, Noted
<1>2. PICK r \in requests : r.pc = "replaying" /\ r.token = q.token /\ r.seen = q.seen
  BY <1>1
<1>3. PICK last \in Creds :
        /\ r.token <= last
        /\ r.seen = {d \in 1..last : creds[d].family = creds[r.token].family}
  BY <1>2 DEF ReplaysNoted, Noted
<1>4. Len(creds) \in Nat /\ Creds = 1..Len(creds) /\ r.token \in Creds
  BY <1>2, Named1
<1>5. last \in Creds' /\ \A d \in 1..last : creds'[d].family = creds[d].family
  BY <1>3, <1>4 DEF Creds
<1>6. creds'[q.token].status \in Exchanged
  BY <1>2 DEF ReplaysNoted, Noted, Status
<1>7. q.seen = {d \in 1..last : creds'[d].family = creds'[q.token].family}
  BY <1>2, <1>3, <1>4, <1>5
<1> QED
  BY <1>2, <1>3, <1>5, <1>6, <1>7 DEF Noted, Status

\* Steps of the app are none of the server.
LEMMA QuietCredentials ==
    ASSUME IInv, ReplaysNoted, Quiet, device' = device
    PROVE  ReplaysNoted' /\ UNCHANGED <<device, creds>>
<1>1. creds' = creds
  BY DEF Quiet
<1>2. PICK S : \E New \in SUBSET {r \in Request : r.pc = "sent" /\ Named(r, Len(creds))} :
          requests' \subseteq Detached(S) \cup New
  BY DEF Quiet
<1>3. ASSUME NEW q \in requests', q.pc = "replaying"
      PROVE  \E r \in requests : r.pc = "replaying" /\ r.token = q.token /\ r.seen = q.seen
  <2>1. q \in Detached(S)
    BY <1>2, <1>3
  <2> QED
    BY <1>3, <2>1, Named1, DetachedSame
<1> QED
  BY <1>1, <1>3, Named1, NotedKept

LEMMA RegisterCredentials ==
    ASSUME IInv, ReplaysNoted, NEW r \in requests, Register(r)
    PROVE  ReplaysNoted' /\ (Credentials!Issue \/ UNCHANGED <<device, creds>>)
<1> DEFINE given == [c \in Creds |-> [creds[c] EXCEPT
                        !.status = IF @ = "ACTIVE" THEN "REVOKED" ELSE @]]
           new == [family |-> Len(creds) + 1, parent |-> 0, status |-> "ACTIVE"]
<1>1. requests' \subseteq requests
  BY DEF Register, Done
<1>2. CASE UNCHANGED <<device, creds>>
  BY <1>1, <1>2, Named1, NotedKept
<1>3. CASE /\ device # "revoked" /\ device' = "active" /\ creds' = Append(given, new)
  <2>1. given \in [Creds -> Credential] /\ new \in Credential
    BY Named1 DEF Credential
  <2>2. \A c \in Creds : /\ given[c].family = creds[c].family
                         /\ creds[c].status = "ACTIVE" \/ given[c] = creds[c]
    BY Named1 DEF Credential
  <2>3. Credentials!Issue
    BY <1>3 DEF Credentials!Issue, Credentials!Creds, Creds
  <2> HIDE DEF given, new
  <2>4. given \in Seq(Credential) /\ Len(given) = Len(creds)
    BY <2>1, Named1, SameLength
  <2>5. /\ Len(creds') = Len(creds) + 1 /\ \A c \in Creds : creds'[c] = given[c]
    BY <1>3, <2>1, <2>4, Named1, AppendProperties
  <2>6. ReplaysNoted'
    <3>1. \A q \in requests : q.pc = "replaying" => creds'[q.token] = creds[q.token]
      BY <2>2, <2>5, Named1 DEF ReplaysNoted, Noted, Status, Exchanged
    <3> QED
      BY <1>1, <2>2, <2>5, <3>1, Named1, NotedKept
  <2> QED
    BY <2>3, <2>6
<1> QED
  BY <1>2, <1>3 DEF Register

\* One credential changes its status, not one a replay was begun for.
LEMMA StatusCredentials ==
    ASSUME IInv, ReplaysNoted, NEW c \in Creds, Live(c),
           creds' = [creds EXCEPT ![c].status = "REVOKED"], device' = device,
           requests' \subseteq requests
    PROVE  ReplaysNoted' /\ Credentials!Refuse(c)
<1> DEFINE f == [creds EXCEPT ![c].status = "REVOKED"]
<1>1. f \in [Creds -> Credential] /\ \A d \in Creds : f[d].family = creds[d].family
  BY Named1 DEF Credential
<1>2. \A d \in Creds : d # c => f[d] = creds[d]
  BY Named1
<1>3. Credentials!Refuse(c)
  BY DEF Credentials!Refuse, Live, Status
<1> HIDE DEF f
<1>4. creds' = f /\ Len(f) = Len(creds)
  BY <1>1, Named1, SameLength DEF f
<1>5. \A q \in requests : q.pc = "replaying" => creds'[q.token] = creds[q.token]
  BY <1>2, <1>4, Named1 DEF ReplaysNoted, Noted, Live, Status, Exchanged
<1> QED
  BY <1>1, <1>3, <1>4, <1>5, Named1, NotedKept

LEMMA RotateCredentials ==
    ASSUME IInv, ReplaysNoted, NEW r \in requests, Rotate(r)
    PROVE  ReplaysNoted' /\ (Credentials!Refuse(r.token) \/ UNCHANGED <<device, creds>>)
<1>1. r.token \in Creds /\ r \in Request /\ device' = device
  BY Named1 DEF Rotate
<1>2. ASSUME creds' = creds, NEW q \in Request, requests' = (requests \ {r}) \cup {q}, Noted(q)
      PROVE  ReplaysNoted' /\ UNCHANGED <<device, creds>>
  BY <1>1, <1>2 DEF ReplaysNoted, Noted, Status, Creds
<1>3. CASE /\ Status(r.token) = "ROTATED" /\ creds' = creds
           /\ requests' = (requests \ {r}) \cup
                  {[r EXCEPT !.pc = "replaying", !.seen = Family(r.token)]}
  <2>1. PICK q : q = [r EXCEPT !.pc = "replaying", !.seen = Family(r.token)]
    OBVIOUS
  <2>2. q \in Request /\ q.token = r.token /\ q.seen = Family(r.token)
    <3>1. Family(r.token) \in SUBSET Nat
      BY Named1 DEF Family
    <3> QED
      BY <1>1, <2>1, <3>1 DEF Request
  <2>3. Noted(q)
    <3>1. Len(creds) \in Creds /\ r.token <= Len(creds) /\ Creds = 1..Len(creds)
      BY <1>1, Named1
    <3> QED
      BY <1>3, <2>2, <3>1 DEF Noted, Family, Exchanged
  <2> QED
    BY <1>2, <1>3, <2>1, <2>2, <2>3
<1>4. CASE /\ creds' = creds
           /\ requests' = (requests \ {r}) \cup {[r EXCEPT !.pc = "rotating"]}
  <2>1. PICK q : q = [r EXCEPT !.pc = "rotating"]
    OBVIOUS
  <2>2. q \in Request /\ q.pc = "rotating"
    BY <1>1, <2>1 DEF Request
  <2> QED
    BY <1>2, <1>4, <2>1, <2>2 DEF Noted
<1>5. CASE /\ requests' \subseteq requests
           /\ creds' = IF Live(r.token)
                       THEN [creds EXCEPT ![r.token].status = "REVOKED"] ELSE creds
  <2>1. CASE Live(r.token)
    BY <1>1, <1>5, <2>1, StatusCredentials
  <2>2. CASE ~Live(r.token)
    BY <1>1, <1>5, <2>2, Named1, NotedKept
  <2> QED
    BY <2>1, <2>2
<1> QED
  BY <1>3, <1>4, <1>5 DEF Rotate, Done

\* What a rotation found active when it locked it, it exchanges when it commits.
LEMMA CommitRotationCredentials ==
    ASSUME IInv, ReplaysNoted, NEW r \in requests, CommitRotation(r)
    PROVE  ReplaysNoted' /\ (Credentials!Exchange(r.token) \/ Credentials!Refuse(r.token))
<1> DEFINE spent == [creds EXCEPT ![r.token].status = "ROTATED"]
           new == [family |-> creds[r.token].family, parent |-> r.token, status |-> "ACTIVE"]
<1>1. r.token \in Creds /\ Live(r.token) /\ requests' \subseteq requests /\ device' = device
  BY Named1 DEF CommitRotation, IInv, RotationsLocked, Done
<1>2. CASE device = "active"
  <2>1. creds' = Append(spent, new)
    BY <1>2 DEF CommitRotation, Replace
  <2>2. spent \in [Creds -> Credential] /\ new \in Credential
    BY <1>1, Named1 DEF Credential
  <2>3. /\ \A d \in Creds : spent[d].family = creds[d].family
        /\ \A d \in Creds : d # r.token => spent[d] = creds[d]
    BY <1>1, Named1 DEF Credential
  <2>4. Credentials!Exchange(r.token)
    BY <1>1, <1>2, <2>1 DEF Credentials!Exchange, Live, Status
  <2> HIDE DEF spent, new
  <2>5. spent \in Seq(Credential) /\ Len(spent) = Len(creds)
    BY <2>2, Named1, SameLength
  <2>6. Len(creds') = Len(creds) + 1 /\ \A d \in Creds : creds'[d] = spent[d]
    BY <2>1, <2>2, <2>5, Named1, AppendProperties
  <2>7. \A q \in requests : q.pc = "replaying" => creds'[q.token] = creds[q.token]
    BY <1>1, <2>3, <2>6, Named1 DEF ReplaysNoted, Noted, Live, Status, Exchanged
  <2>8. ReplaysNoted'
    BY <1>1, <2>3, <2>6, <2>7, Named1, NotedKept
  <2> QED
    BY <2>4, <2>8
<1>3. CASE device # "active"
  <2>1. creds' = [creds EXCEPT ![r.token].status = "REVOKED"]
    BY <1>3 DEF CommitRotation
  <2> QED
    BY <1>1, <2>1, StatusCredentials
<1> QED
  BY <1>2, <1>3

\* The rows a replay found are the family up to the last credential there was.
LEMMA CommitReplayCredentials ==
    ASSUME IInv, ReplaysNoted, NEW r \in requests, CommitReplay(r)
    PROVE  ReplaysNoted' /\ \E last \in Creds : Credentials!Detect(r.token, last)
<1> DEFINE f == [c \in Creds |-> IF c \in r.seen
                    THEN [creds[c] EXCEPT !.status = "REUSE_DETECTED"] ELSE creds[c]]
<1>1. /\ r.pc = "replaying" /\ r.token \in Creds /\ requests' \subseteq requests
      /\ creds' = f /\ device' = "revoked"
  BY Named1 DEF CommitReplay, Done
<1>2. PICK last \in Creds :
        /\ r.token <= last
        /\ r.seen = {d \in 1..last : creds[d].family = creds[r.token].family}
  BY <1>1 DEF ReplaysNoted, Noted
<1>3. creds[r.token].status \in {"ROTATED", "REUSE_DETECTED"}
  BY <1>1 DEF ReplaysNoted, Noted, Status, Exchanged
<1>4. \A d \in Creds : d \in r.seen <=>
          d <= last /\ creds[d].family = creds[r.token].family
  BY <1>2, Named1
<1>5. f = [d \in Creds |->
            IF d <= last /\ creds[d].family = creds[r.token].family
            THEN [creds[d] EXCEPT !.status = "REUSE_DETECTED"] ELSE creds[d]]
  BY <1>4
<1>6. Credentials!Detect(r.token, last)
  BY <1>1, <1>2, <1>3, <1>5 DEF Credentials!Detect, Credentials!Creds, Creds
<1>7. f \in [Creds -> Credential] /\ \A d \in Creds : f[d].family = creds[d].family
  BY Named1 DEF Credential
<1>8. \A d \in Creds : f[d].status = "REUSE_DETECTED" \/ f[d] = creds[d]
  BY Named1 DEF Credential
<1> HIDE DEF f
<1>9. Len(f) = Len(creds)
  BY <1>7, Named1, SameLength
<1>10. ReplaysNoted'
  BY <1>1, <1>7, <1>8, <1>9, Named1, NotedKept DEF Exchanged
<1> QED
  BY <1>2, <1>6, <1>10

\* A revocation waits for every lock, so that no replay is halfway.
LEMMA RevokeCredentials ==
    ASSUME IInv, ReplaysNoted, RevokeElsewhere \/ \E r \in requests : Revoke(r)
    PROVE  ReplaysNoted' /\ (Credentials!Revoke \/ UNCHANGED <<device, creds>>)
<1>1. requests' \subseteq requests /\ (RevokeRecords \/ UNCHANGED <<device, creds>>)
  BY DEF RevokeElsewhere, Revoke, Done
<1>2. CASE RevokeRecords
  <2>1. \A r \in requests : r.pc # "replaying"
    <3>1. SUFFICES ASSUME NEW r \in requests, r.pc = "replaying" PROVE FALSE
      OBVIOUS
    <3>2. r.token \in Creds /\ Locked(r.token)
      BY <3>1, Named1 DEF Locked
    <3> QED
      BY <1>2, <3>2 DEF RevokeRecords
  <2>2. Credentials!Revoke
    BY <1>2 DEF RevokeRecords, Credentials!Revoke, Credentials!Creds, Creds
  <2> QED
    BY <1>1, <2>1, <2>2 DEF ReplaysNoted, Noted
<1>3. CASE UNCHANGED <<device, creds>>
  BY <1>1, <1>3, Named1, NotedKept
<1> QED
  BY <1>1, <1>2, <1>3

LEMMA InitCredentials == Init => ReplaysNoted /\ Credentials!Init
BY DEF Init, ReplaysNoted, Credentials!Init

LEMMA StepCredentials ==
    ConstantsAssumption /\ IInv /\ ReplaysNoted /\ [Next]_vars
        => ReplaysNoted' /\ [Credentials!Next]_(Credentials!vars)
<1> SUFFICES ASSUME ConstantsAssumption, IInv, ReplaysNoted, [Next]_vars
             PROVE  ReplaysNoted' /\ [Credentials!Next]_(Credentials!vars)
  OBVIOUS
<1>1. TypeOK /\ References
  BY DEF IInv
<1>2. ASSUME UNCHANGED <<device, creds>> PROVE [Credentials!Next]_(Credentials!vars)
  BY <1>2 DEF Credentials!vars
<1>3. Credentials!Creds = Creds
  BY DEF Credentials!Creds, Creds
<1>4. CASE Proceed
  <2>1. device' = device
    BY <1>4 DEF Proceed, Enroll, Restore, Store, Verify, server
  <2>2. PICK t \in Tasks : Enroll(t) \/ Restore(t) \/ Store(t) \/ Verify(t)
    BY <1>4 DEF Proceed
  <2>3. Quiet
    BY <1>1, <2>2, LocalSteps, CallSteps
  <2> QED
    BY <1>2, <2>1, <2>3, QuietCredentials
<1>5. CASE User
  <2>1. CASE Logout \/ Retry \/ ChangePassword \/ \E t \in Tasks : Login(t)
    <3>1. device' = device
      BY <2>1 DEF Logout, Retry, ChangePassword, Login, server
    <3>2. Quiet
      BY <1>1, <2>1, LocalSteps, CallSteps
    <3> QED
      BY <1>2, <3>1, <3>2, QuietCredentials
  <2>2. CASE RevokeElsewhere
    BY <1>2, <2>2, RevokeCredentials DEF Credentials!Next
  <2> QED
    BY <1>5, <2>1, <2>2 DEF User
<1>6. CASE Fault
  <2>1. device' = device
    BY <1>6 DEF Fault, Kill, Offline, ExpireAccess, Unanswered, server
  <2>2. Quiet
    BY <1>1, <1>6, LocalSteps, CallSteps DEF Fault
  <2> QED
    BY <1>2, <2>1, <2>2, QuietCredentials
<1>7. CASE ExpireSession \/ \E t \in Tasks : Foreground(t)
  <2>1. device' = device
    BY <1>7 DEF ExpireSession, Foreground, server
  <2>2. Quiet
    BY <1>1, <1>7, LocalSteps
  <2> QED
    BY <1>2, <2>1, <2>2, QuietCredentials
<1>8. CASE Handle
  <2>1. PICK r \in requests :
          Register(r) \/ Rotate(r) \/ CommitRotation(r) \/ CommitReplay(r) \/ Revoke(r)
    BY <1>8 DEF Handle
  <2>2. CASE Register(r)
    BY <1>2, <2>2, RegisterCredentials DEF Credentials!Next
  <2>3. CASE Rotate(r)
    <3>1. r.token \in Creds
      BY <2>3, Named1 DEF Rotate
    <3> QED
      BY <1>2, <1>3, <2>3, <3>1, RotateCredentials DEF Credentials!Next
  <2>4. CASE CommitRotation(r)
    <3>1. r.token \in Creds
      BY <2>4, Named1 DEF CommitRotation
    <3> QED
      BY <1>3, <2>4, <3>1, CommitRotationCredentials DEF Credentials!Next
  <2>5. CASE CommitReplay(r)
    <3>1. r.token \in Creds
      BY <2>5, Named1 DEF CommitReplay
    <3> QED
      BY <1>3, <2>5, <3>1, CommitReplayCredentials DEF Credentials!Next
  <2>6. CASE Revoke(r)
    BY <1>2, <2>6, RevokeCredentials DEF Credentials!Next
  <2> QED
    BY <2>1, <2>2, <2>3, <2>4, <2>5, <2>6
<1>9. CASE UNCHANGED vars
  <2>1. UNCHANGED <<device, creds, requests>>
    BY <1>9 DEF vars, server
  <2> QED
    BY <1>2, <2>1 DEF ReplaysNoted, Noted, Status, Creds
<1> QED
  BY <1>4, <1>5, <1>6, <1>7, <1>8, <1>9 DEF Next

\* In every order of the two locks, and with requests of the phone that come
\* late, twice or never, the server's registrations, rotations, refusals,
\* detected replays and revocations are single steps of DeviceCredentials.
THEOREM TransactionsAtomic == Spec => CredentialsSpec
BY InitCredentials, StepCredentials, Invariant, ConstantsAssumption, PTL
DEF Spec, CredentialsSpec, Credentials!Spec
=============================================================================
