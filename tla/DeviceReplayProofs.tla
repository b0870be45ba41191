------------------------- MODULE DeviceReplayProofs -------------------------
(***************************************************************************)
(* The replay detection never turns against a phone that was not            *)
(* interrupted: proved of DeviceSessions for any tasks and any bounds.      *)
(*                                                                         *)
(* While there was no fault, the credential in SecureStore is one that was  *)
(* not exchanged, unless a restore has its successor in hand and is about   *)
(* to write it; and only a restore, alone in the app, presents it.          *)
(***************************************************************************)
EXTENDS DeviceSessionsProofs

Restoring(t) == tasks[t].kind = "restore"

\* A task that has its answer.
Answering(t) == tasks[t].pc \in {"write", "verify"}

\* No credential, or one that was not exchanged.
Unspent(c, cs) == c = 0 \/ cs[c].status # "ROTATED"

\* The app restores its session alone, and is loading only then.
AppCalm ==
    /\ session # "unavailable"
    /\ session = "loading" => ~leaving /\ \A t \in Tasks : tasks[t] = Idle \/ Restoring(t)
    /\ \A t \in Tasks : Restoring(t) =>
          session = "loading" /\ tasks[t].pc \in {"call", "write", "verify"}
    /\ \A t, u \in Tasks : Restoring(t) /\ Restoring(u) => t = u
    /\ \A t \in Tasks : tasks[t].kind = "none" => tasks[t] = Idle

\* A rotation is on its way only while a task waits for it, and presents what
\* SecureStore holds.
Placed(r) ==
    /\ r.pc # "replaying"
    /\ r.kind = "register" =>
          \/ r.by = "nobody"
          \/ r.by \in Tasks /\ tasks[r.by].kind = "enroll" /\ tasks[r.by].pc = "call"
    /\ r.kind = "rotate" =>
          r.by \in Tasks /\ Restoring(r.by) /\ tasks[r.by].pc = "call" /\ r.token = refresh
    /\ r.kind = "revoke" => r.by = "nobody" \/ (r.by = "logout" /\ leaving)

RequestsCalm ==
    /\ \A r \in requests : Placed(r)
    /\ \A q, r \in requests : q.by = r.by /\ r.by # "nobody" => q = r

Unreplayed(cs) == \A c \in 1..Len(cs) : cs[c].status # "REUSE_DETECTED"

CredsCalm ==
    /\ Unreplayed(creds)
    /\ Unspent(refresh, creds) \/ \E t \in Tasks : Restoring(t) /\ tasks[t].pc = "write"
    /\ \A t \in Tasks : Answering(t) =>
          /\ Unspent(tasks[t].got, creds)
          /\ ~Restoring(t) => Unspent(tasks[t].prev.refresh, creds)
    /\ \A t \in Tasks : Restoring(t) /\ tasks[t].pc = "verify" => refresh = tasks[t].got

Calm == AppCalm /\ RequestsCalm /\ CredsCalm

CalmUntilFault == faults = 0 => Calm

-----------------------------------------------------------------------------
(* Who is there. *)

LEMMA NotTasks == "logout" \notin Tasks /\ "nobody" \notin Tasks
BY ConstantsAssumption DEF ConstantsAssumption

\* The types the steps below look at.
LEMMA Shapes ==
    ASSUME IInv
    PROVE  /\ Rest /\ requests \subseteq Request /\ tasks \in [Tasks -> Task]
           /\ \A r \in requests : r \in Request /\ Named(r, Len(creds))
           /\ Len(creds) \in Nat /\ creds \in Seq(Credential) /\ Creds = 1..Len(creds)
           /\ \A c \in Creds : creds[c] \in Credential
           /\ refresh \in 0..Len(creds)
           /\ \A t \in Tasks : /\ tasks[t] \in Task /\ tasks[t].got \in 0..Len(creds)
                               /\ tasks[t].prev.refresh \in 0..Len(creds)
BY RestOfTypes, LenProperties, ElementOfSeq
DEF IInv, TypeOK, References, Creds, Rest, TaskNamed

\* Where a rotation is on its way, its task is alone in the app and waits.
LEMMA RotationAlone ==
    ASSUME Calm, NEW r \in requests, r.kind = "rotate"
    PROVE  /\ r.by \in Tasks /\ Restoring(r.by) /\ tasks[r.by].pc = "call"
           /\ r.token = refresh /\ session = "loading"
           /\ \A t \in Tasks \ {r.by} : tasks[t] = Idle
           /\ \A q \in requests : q.kind = "rotate" => q = r
           /\ Unspent(refresh, creds)
<1>1. Placed(r)
  BY DEF Calm, RequestsCalm
<1>2. /\ r.by \in Tasks /\ Restoring(r.by) /\ tasks[r.by].pc = "call"
      /\ r.token = refresh
  BY <1>1 DEF Placed
<1>3. session = "loading"
  BY <1>2 DEF Calm, AppCalm
<1>4. \A t \in Tasks : Restoring(t) => t = r.by
  BY <1>2 DEF Calm, AppCalm
<1>5. \A t \in Tasks \ {r.by} : tasks[t] = Idle
  BY <1>3, <1>4 DEF Calm, AppCalm
<1>6. ASSUME NEW q \in requests, q.kind = "rotate" PROVE q = r
  <2>1. Placed(q)
    BY DEF Calm, RequestsCalm
  <2>2. q.by \in Tasks /\ Restoring(q.by)
    BY <1>6, <2>1 DEF Placed
  <2> QED
    BY <1>2, <1>4, <2>2, NotTasks DEF Calm, RequestsCalm
<1>7. Unspent(refresh, creds)
  BY <1>2, <1>4 DEF Calm, CredsCalm
<1> QED
  BY <1>2, <1>3, <1>5, <1>6, <1>7

\* Away from a restart nobody restores, and no rotation is on its way.
LEMMA NobodyRestores ==
    ASSUME Calm, session # "loading" \/ \A t \in Tasks : ~Restoring(t)
    PROVE  /\ \A t \in Tasks : ~Restoring(t)
           /\ \A r \in requests : r.kind # "rotate"
           /\ Unspent(refresh, creds)
<1>1. \A t \in Tasks : ~Restoring(t)
  BY DEF Calm, AppCalm
<1> QED
  BY <1>1 DEF Calm, CredsCalm, RequestsCalm, Placed

\* Nothing the invariant speaks of changes.
LEMMA Untouched ==
    ASSUME Calm, UNCHANGED <<session, leaving, tasks, requests, refresh, creds>>
    PROVE  Calm'
BY DEF Calm, AppCalm, RequestsCalm, CredsCalm, Placed, Restoring, Answering, Unspent, Unreplayed

-----------------------------------------------------------------------------
(* What the steps do to the requests. *)

\* A request is forgotten or stays as it is; it goes on waiting alone.
LEMMA DetachedCalm ==
    ASSUME IInv, Calm, NEW S, NEW q \in Detached(S)
    PROVE  /\ q \in Request /\ q.pc # "replaying"
           /\ q.by = "nobody" \/ (q \in requests /\ q.by \notin S)
           /\ q.kind = "rotate" => \E r \in requests : r.kind = "rotate" /\ r.token = q.token
           /\ \A r \in Detached(S) : q.by = r.by /\ r.by # "nobody" => q = r
<1>1. requests \subseteq Request
  BY Shapes
<1>2. q \in Request /\ \E r \in requests : q.pc = r.pc /\ q.token = r.token /\ q.kind = r.kind
  BY <1>1, DetachedSame
<1>3. ASSUME NEW r \in Detached(S)
      PROVE  r.by = "nobody" \/ (r \in requests /\ r.by \notin S)
  <2>1. PICK a \in requests : r = IF a.by \in S THEN [a EXCEPT !.by = "nobody"] ELSE a
    BY DEF Detached
  <2>2. a \in Request
    BY <1>1
  <2> QED
    BY <2>1, <2>2 DEF Request
<1> QED
  BY <1>2, <1>3 DEF Calm, RequestsCalm, Placed

\* While nobody restores, what remains of the requests when the enrollments
\* are aborted waits for nobody, or for the logout.
LEMMA AbortCalm ==
    ASSUME IInv, Calm, \A t \in Tasks : ~Restoring(t), NEW q \in Detached(Abortable)
    PROVE  /\ q \in Request /\ q.pc # "replaying" /\ q.kind # "rotate"
           /\ q.by = "nobody" \/ (q.kind = "revoke" /\ q.by = "logout" /\ leaving)
           /\ \A r \in Detached(Abortable) : q.by = r.by /\ r.by # "nobody" => q = r
<1>1. /\ q \in Request /\ q.pc # "replaying"
      /\ q.by = "nobody" \/ (q \in requests /\ q.by \notin Abortable)
      /\ q.kind = "rotate" => \E r \in requests : r.kind = "rotate" /\ r.token = q.token
      /\ \A r \in Detached(Abortable) : q.by = r.by /\ r.by # "nobody" => q = r
  BY DetachedCalm
<1>2. q.kind # "rotate"
  BY <1>1, NobodyRestores
<1>3. ASSUME q \in requests, q.by \notin Abortable, q.by # "nobody"
      PROVE  q.kind = "revoke" /\ q.by = "logout" /\ leaving
  <2>1. Placed(q)
    BY <1>3 DEF Calm, RequestsCalm
  <2>2. q.kind \in {"register", "revoke"}
    BY <1>1, <1>2 DEF Request
  <2> QED
    BY <1>3, <2>1, <2>2 DEF Placed, Abortable
<1> QED
  BY <1>1, <1>2, <1>3

\* A request is done with: the others lose nobody who waits for them.
LEMMA DoneCalm ==
    ASSUME IInv, Calm, NEW r \in requests, requests' = requests \ {r},
           \A t \in Tasks : t # r.by => tasks'[t] = tasks[t],
           leaving' = leaving \/ r.by = "logout",
           refresh' = refresh \/ \A q \in requests \ {r} : q.kind # "rotate"
    PROVE  RequestsCalm'
<1>1. ASSUME NEW q \in requests' PROVE Placed(q)'
  <2>1. q \in requests /\ q # r /\ Placed(q)
    BY DEF Calm, RequestsCalm
  <2>2. q.by = "nobody" \/ q.by # r.by
    BY <2>1 DEF Calm, RequestsCalm
  <2>3. ASSUME q.by \in Tasks PROVE tasks'[q.by] = tasks[q.by]
    BY <2>2, <2>3, NotTasks
  <2>4. q.pc # "replaying"
    BY <2>1 DEF Placed
  <2>5. q.kind = "register" =>
          \/ q.by = "nobody"
          \/ q.by \in Tasks /\ tasks'[q.by].kind = "enroll" /\ tasks'[q.by].pc = "call"
    BY <2>1, <2>3 DEF Placed
  <2>6. q.kind = "rotate" =>
          /\ q.by \in Tasks /\ tasks'[q.by].kind = "restore" /\ tasks'[q.by].pc = "call"
          /\ q.token = refresh'
    BY <2>1, <2>3 DEF Placed, Restoring
  <2>7. q.kind = "revoke" => q.by = "nobody" \/ (q.by = "logout" /\ leaving')
    BY <2>1, <2>2 DEF Placed
  <2> QED
    BY <2>4, <2>5, <2>6, <2>7 DEF Placed, Restoring
<1> QED
  BY <1>1 DEF Calm, RequestsCalm

-----------------------------------------------------------------------------
(* What they do to the credentials. *)

\* No credential is spent, and no replay is noted.
Settles ==
    /\ Unreplayed(creds')
    /\ \A c \in 0..Len(creds) : Unspent(c, creds) => Unspent(c, creds')

LEMMA SettlesSame ==
    ASSUME Calm, creds' = creds
    PROVE  Settles
BY DEF Settles, Calm, CredsCalm, Unspent, Unreplayed

\* Credentials may be revoked,
LEMMA SettlesRestated ==
    ASSUME IInv, Calm, NEW f \in [Creds -> Credential], creds' = f,
           \A c \in Creds : f[c].status \in {creds[c].status, "REVOKED"}
    PROVE  Settles
<1>1. Creds = 1..Len(creds) /\ Len(creds) \in Nat
  BY Shapes
<1>2. creds' \in Seq(Credential) /\ Len(creds') = Len(creds)
  BY <1>1, SameLength
<1> QED
  BY <1>1, <1>2 DEF Settles, Calm, CredsCalm, Unspent, Unreplayed

\* and another may be issued.
LEMMA SettlesAppended ==
    ASSUME IInv, Calm, NEW f \in [Creds -> Credential], NEW new \in Credential,
           creds' = Append(f, new), new.status = "ACTIVE",
           \A c \in Creds : f[c].status \in {creds[c].status, "REVOKED"}
    PROVE  Settles /\ Unspent(Len(creds) + 1, creds')
<1>1. Creds = 1..Len(creds) /\ Len(creds) \in Nat
  BY Shapes
<1>2. f \in Seq(Credential) /\ Len(f) = Len(creds)
  BY <1>1, SameLength
<1>3. /\ Len(creds') = Len(creds) + 1
      /\ \A c \in Creds : creds'[c] = f[c]
      /\ creds'[Len(creds) + 1] = new
  BY <1>1, <1>2, AppendProperties
<1> QED
  BY <1>1, <1>3 DEF Settles, Calm, CredsCalm, Unspent, Unreplayed

\* Tasks that have their answer keep it, or end.
LEMMA SettledCalm ==
    ASSUME IInv, Calm, Settles,
           Unspent(refresh', creds') \/
              (refresh' = refresh /\ \A t \in Tasks : Restoring(t) => tasks'[t] = tasks[t]),
           \A t \in Tasks :
              \/ tasks'[t].pc \notin {"write", "verify"}
              \/ tasks'[t] = tasks[t] /\ (Restoring(t) => refresh' = refresh)
    PROVE  CredsCalm'
<1>1. \A c \in 0..Len(creds) : Unspent(c, creds) => Unspent(c, creds')
  BY DEF Settles
<1>2. refresh \in 0..Len(creds)
  BY Shapes
<1>3. Unspent(refresh', creds') \/
        \E t \in Tasks : tasks'[t].kind = "restore" /\ tasks'[t].pc = "write"
  BY <1>1, <1>2 DEF Calm, CredsCalm, Restoring
<1>4. ASSUME NEW t \in Tasks, tasks'[t].pc \in {"write", "verify"}
      PROVE  /\ Unspent(tasks'[t].got, creds')
             /\ tasks'[t].kind # "restore" => Unspent(tasks'[t].prev.refresh, creds')
             /\ tasks'[t].kind = "restore" /\ tasks'[t].pc = "verify" =>
                   refresh' = tasks'[t].got
  <2>1. tasks'[t] = tasks[t] /\ Answering(t) /\ (Restoring(t) => refresh' = refresh)
    BY <1>4 DEF Answering
  <2>2. tasks[t].got \in 0..Len(creds) /\ tasks[t].prev.refresh \in 0..Len(creds)
    BY Shapes
  <2>3. /\ Unspent(tasks[t].got, creds)
        /\ ~Restoring(t) => Unspent(tasks[t].prev.refresh, creds)
        /\ Restoring(t) /\ tasks[t].pc = "verify" => refresh = tasks[t].got
    BY <2>1 DEF Calm, CredsCalm
  <2> QED
    BY <1>1, <2>1, <2>2, <2>3 DEF Restoring
<1> QED
  BY <1>3, <1>4 DEF CredsCalm, Settles, Answering, Restoring

-----------------------------------------------------------------------------
(* The steps of the app. *)

LEMMA BeginCalm ==
    ASSUME IInv, Calm, NEW t \in Tasks, BeginEnrollment(t), \A u \in Tasks : ~Restoring(u),
           session' = "authenticated", UNCHANGED <<creds, refresh, leaving>>
    PROVE  Calm'
<1>1. tasks \in [Tasks -> Task] /\ \A r \in requests : r.kind # "rotate"
  BY Shapes, NobodyRestores
<1>2. /\ requests' = Detached(Abortable)
      /\ tasks'[t].kind = "enroll" /\ tasks'[t].pc = "start"
      /\ \A u \in Tasks \ {t} : tasks'[u] = tasks[u] \/ tasks'[u] = Idle
  BY <1>1 DEF BeginEnrollment, Aborted, Idle
<1>3. \A u \in Tasks : tasks'[u].kind # "restore"
  BY <1>2 DEF Restoring, Idle
<1>4. AppCalm'
  <2>1. \A u \in Tasks : tasks'[u].kind = "none" => tasks'[u] = Idle
    BY <1>2 DEF Calm, AppCalm
  <2> QED
    BY <1>3, <2>1 DEF AppCalm, Restoring
<1>5. RequestsCalm'
  BY <1>2, AbortCalm DEF RequestsCalm, Placed
<1>6. CredsCalm'
  <2>1. Settles /\ Unspent(refresh', creds')
    BY SettlesSame, NobodyRestores
  <2>2. \A u \in Tasks : tasks'[u].pc \notin {"write", "verify"} \/ tasks'[u] = tasks[u]
    BY <1>2 DEF Idle
  <2> QED
    BY <2>1, <2>2, SettledCalm
<1> QED
  BY <1>4, <1>5, <1>6 DEF Calm

LEMMA LoginCalm ==
    ASSUME IInv, Calm, NEW t \in Tasks, Login(t) \/ Foreground(t)
    PROVE  Calm'
<1>1. session # "loading" /\ session' = "authenticated" /\ BeginEnrollment(t)
  BY DEF Login, Foreground
<1>2. UNCHANGED <<creds, refresh, leaving>>
  BY DEF Login, Foreground, server, tokens
<1> QED
  BY <1>1, <1>2, BeginCalm, NobodyRestores

LEMMA EnrollCalm ==
    ASSUME IInv, Calm, NEW t \in Tasks, Enroll(t)
    PROVE  Calm'
<1>1. /\ tasks \in [Tasks -> Task] /\ tasks[t].pc = "start"
      /\ UNCHANGED <<creds, refresh, session, leaving>>
  BY Shapes DEF Enroll, server, tokens
<1>2. tasks[t].kind = "enroll" /\ ~Restoring(t) /\ session # "loading"
  BY <1>1 DEF Calm, AppCalm, Idle, Task, Restoring
<1>3. /\ \A u \in Tasks : ~Restoring(u)
      /\ \A r \in requests : r.kind # "rotate"
      /\ Unspent(refresh, creds)
  BY <1>2, NobodyRestores
<1>4. \A r \in requests : r.by # t
  BY <1>1, <1>3, Shapes, NotTasks DEF Calm, RequestsCalm, Placed, Request
<1>5. /\ \A u \in Tasks \ {t} : tasks'[u] = tasks[u]
      /\ \/ tasks'[t] = Idle /\ requests' = requests
         \/ /\ tasks'[t].kind = "enroll" /\ tasks'[t].pc = "call"
            /\ requests' = requests \cup {Call("register", t, 0)}
  BY <1>1, <1>2 DEF Enroll, Task
<1>6. AppCalm'
  BY <1>1, <1>2, <1>3, <1>5 DEF Calm, AppCalm, Restoring, Idle
<1>7. CredsCalm'
  <2>1. \A u \in Tasks : tasks'[u].pc \notin {"write", "verify"} \/ tasks'[u] = tasks[u]
    BY <1>5 DEF Idle
  <2>2. Settles /\ Unspent(refresh', creds')
    BY <1>1, <1>3, SettlesSame
  <2> QED
    BY <1>1, <2>1, <2>2, SettledCalm
<1>8. ASSUME NEW r \in requests PROVE Placed(r)' /\ r.by # t
  <2>1. Placed(r) /\ r.by # t /\ r.kind # "rotate"
    BY <1>3, <1>4 DEF Calm, RequestsCalm
  <2>2. r.by \in Tasks => tasks'[r.by] = tasks[r.by]
    BY <1>5, <2>1
  <2> QED
    BY <1>1, <2>1, <2>2 DEF Placed
<1>9. RequestsCalm'
  <2>1. CASE requests' = requests
    BY <1>8, <2>1 DEF Calm, RequestsCalm
  <2>2. CASE /\ tasks'[t].kind = "enroll" /\ tasks'[t].pc = "call"
             /\ requests' = requests \cup {Call("register", t, 0)}
    <3>1. PICK q : q = Call("register", t, 0)
      OBVIOUS
    <3>2. q.kind = "register" /\ q.by = t /\ q.pc = "sent"
      BY <3>1 DEF Call
    <3>3. Placed(q)'
      BY <2>2, <3>2 DEF Placed
    <3> QED
      BY <1>8, <2>2, <3>1, <3>2, <3>3 DEF Calm, RequestsCalm
  <2> QED
    BY <1>5, <2>1, <2>2
<1> QED
  BY <1>6, <1>7, <1>9 DEF Calm

\* The session of a restart: an accepted token, nothing to restore, or a
\* rotation.
LEMMA RestoreCalm ==
    ASSUME IInv, Calm, NEW t \in Tasks, Restore(t)
    PROVE  Calm'
<1>1. /\ session = "loading" /\ \A u \in Tasks : ~Restoring(u)
      /\ tasks \in [Tasks -> Task] /\ UNCHANGED <<creds, leaving>>
  BY Shapes DEF Restore, server, Restoring
<1>2. ~leaving /\ \A u \in Tasks : tasks[u] = Idle
  BY <1>1 DEF Calm, AppCalm
<1>3. /\ \A r \in requests : r.kind # "rotate"
      /\ Unspent(refresh, creds)
  BY <1>1, NobodyRestores
<1>4. CASE Accepted(access)
  <2>1. BeginEnrollment(t) /\ session' = "authenticated" /\ refresh' = refresh
    BY <1>4 DEF Restore, tokens
  <2> QED
    BY <1>1, <2>1, BeginCalm
<1>5. CASE ~Accepted(access) /\ refresh = 0
  <2>1. /\ session' \in {"anonymous", "requires_login"}
        /\ UNCHANGED <<creds, leaving, tasks, requests, refresh>>
    BY <1>1, <1>5 DEF Restore, Clear
  <2>2. AppCalm'
    BY <1>1, <2>1 DEF Calm, AppCalm, Restoring
  <2> QED
    BY <2>1, <2>2
    DEF Calm, RequestsCalm, CredsCalm, Placed, Restoring, Answering, Unspent, Unreplayed
<1>6. CASE ~Accepted(access) /\ refresh # 0
  <2>1. PICK q : q = Call("rotate", t, refresh)
    OBVIOUS
  <2>2. q.kind = "rotate" /\ q.by = t /\ q.pc = "sent" /\ q.token = refresh
    BY <2>1 DEF Call
  <2>3. /\ tasks'[t].kind = "restore" /\ tasks'[t].pc = "call"
        /\ \A u \in Tasks \ {t} : tasks'[u] = Idle
        /\ requests' = requests \cup {q} /\ UNCHANGED <<session, refresh>>
    BY <1>1, <1>2, <1>6, <2>1 DEF Restore, tokens, Idle
  <2>4. AppCalm'
    BY <1>1, <1>2, <2>3 DEF AppCalm, Restoring, Idle
  <2>5. CredsCalm'
    <3>1. Settles /\ Unspent(refresh', creds')
      BY <1>1, <1>3, <2>3, SettlesSame
    <3>2. \A u \in Tasks : tasks'[u].pc \notin {"write", "verify"}
      BY <2>3 DEF Idle
    <3> QED
      BY <3>1, <3>2, SettledCalm
  <2>6. ASSUME NEW r \in requests PROVE Placed(r)' /\ r.by # t
    <3>1. Placed(r) /\ r.kind \in {"register", "revoke"} /\ r.by \notin Tasks
      BY <1>2, <1>3, Shapes, NotTasks DEF Calm, RequestsCalm, Placed, Request, Idle
    <3> QED
      BY <1>1, <3>1 DEF Placed
  <2>7. Placed(q)'
    BY <2>2, <2>3 DEF Placed, Restoring
  <2>8. RequestsCalm'
    BY <2>2, <2>3, <2>6, <2>7 DEF Calm, RequestsCalm
  <2> QED
    BY <2>4, <2>5, <2>8 DEF Calm
<1> QED
  BY <1>4, <1>5, <1>6

\* While a task has its answer, no rotation is on its way.
LEMMA AnswerAlone ==
    ASSUME IInv, Calm, NEW t \in Tasks, Answering(t)
    PROVE  /\ \A r \in requests : r.kind # "rotate"
           /\ \A r \in requests : r.by # t
           /\ tasks[t].kind \in {"enroll", "restore"}
           /\ \A u \in Tasks : Restoring(u) => u = t
<1>1. tasks[t].kind \in {"enroll", "restore"}
  BY Shapes DEF Calm, AppCalm, Answering, Idle, Task
<1>2. \A r \in requests : r.kind # "rotate"
  BY RotationAlone DEF Answering, Idle
<1>3. ASSUME NEW r \in requests PROVE r.by # t
  <2>1. Placed(r) /\ r.kind \in {"register", "revoke"}
    BY <1>2, Shapes DEF Calm, RequestsCalm, Request
  <2> QED
    BY <2>1, NotTasks DEF Placed, Answering
<1>4. ASSUME NEW u \in Tasks, Restoring(u) PROVE u = t
  <2>1. session = "loading"
    BY <1>4 DEF Calm, AppCalm
  <2>2. tasks[t] = Idle \/ Restoring(t)
    BY <2>1 DEF Calm, AppCalm
  <2>3. Restoring(t)
    BY <2>2 DEF Answering, Idle
  <2> QED
    BY <1>4, <2>3 DEF Calm, AppCalm
<1> QED
  BY <1>1, <1>2, <1>3, <1>4

\* The requests of others stay where they are when one task goes on.
LEMMA OthersPlaced ==
    ASSUME IInv, Calm, NEW t \in Tasks, \A u \in Tasks : u # t => tasks'[u] = tasks[u],
           \A r \in requests : r.kind # "rotate", \A r \in requests : r.by # t,
           UNCHANGED <<requests, leaving>>
    PROVE  RequestsCalm'
<1>1. ASSUME NEW r \in requests PROVE Placed(r)'
  <2>1. Placed(r) /\ r.kind # "rotate" /\ (r.by \in Tasks => tasks'[r.by] = tasks[r.by])
    BY DEF Calm, RequestsCalm
  <2> QED
    BY <2>1 DEF Placed
<1> QED
  BY <1>1 DEF Calm, RequestsCalm

LEMMA StoreCalm ==
    ASSUME IInv, Calm, NEW t \in Tasks, Store(t)
    PROVE  Calm'
<1>1. /\ tasks \in [Tasks -> Task] /\ tasks[t] \in Task /\ tasks[t].pc = "write"
      /\ refresh' = tasks[t].got
      /\ UNCHANGED <<creds, requests, session, leaving>>
  BY Shapes DEF Store, server
<1>2. /\ \A r \in requests : r.kind # "rotate"
      /\ \A r \in requests : r.by # t
      /\ tasks[t].kind \in {"enroll", "restore"}
      /\ \A u \in Tasks : Restoring(u) => u = t
  BY <1>1, AnswerAlone DEF Answering
<1>3. /\ \A u \in Tasks \ {t} : tasks'[u] = tasks[u]
      /\ tasks'[t].kind = tasks[t].kind /\ tasks'[t].pc = "verify"
      /\ tasks'[t].got = tasks[t].got /\ tasks'[t].prev = tasks[t].prev
  BY <1>1 DEF Store, Task
<1>4. AppCalm'
  <2>1. \A u \in Tasks : tasks'[u].kind = tasks[u].kind
    BY <1>3
  <2>2. session = "loading" => \A u \in Tasks : tasks'[u] = Idle \/ tasks'[u].kind = "restore"
    BY <1>1, <1>3, <2>1 DEF Calm, AppCalm, Restoring, Idle
  <2>3. \A u \in Tasks : tasks'[u].kind = "none" => tasks'[u] = Idle
    BY <1>2, <1>3 DEF Calm, AppCalm
  <2>4. \A u \in Tasks : tasks'[u].kind = "restore" =>
          session = "loading" /\ tasks'[u].pc \in {"call", "write", "verify"}
    BY <1>3, <2>1 DEF Calm, AppCalm, Restoring
  <2> QED
    BY <1>1, <2>1, <2>2, <2>3, <2>4 DEF Calm, AppCalm, Restoring
<1>5. CredsCalm'
  <2>1. /\ Unspent(tasks[t].got, creds)
        /\ ~Restoring(t) => Unspent(tasks[t].prev.refresh, creds)
    BY <1>1 DEF Calm, CredsCalm, Answering
  <2>2. ASSUME NEW u \in Tasks, tasks'[u].pc \in {"write", "verify"}
        PROVE  /\ Unspent(tasks'[u].got, creds)
               /\ tasks'[u].kind # "restore" => Unspent(tasks'[u].prev.refresh, creds)
               /\ tasks'[u].kind = "restore" => refresh' = tasks'[u].got
    <3>1. CASE u = t
      BY <1>1, <1>3, <2>1, <3>1 DEF Restoring
    <3>2. CASE u # t
      BY <1>2, <1>3, <2>2, <3>2 DEF Calm, CredsCalm, Answering, Restoring
    <3> QED
      BY <3>1, <3>2
  <2> QED
    BY <1>1, <2>1, <2>2 DEF Calm, CredsCalm, Answering, Restoring, Unspent, Unreplayed
<1> QED
  BY <1>1, <1>2, <1>3, <1>4, <1>5, OthersPlaced DEF Calm

LEMMA VerifyCalm ==
    ASSUME IInv, Calm, NEW t \in Tasks, Verify(t)
    PROVE  Calm'
<1>1. /\ tasks \in [Tasks -> Task] /\ tasks[t].pc = "verify"
      /\ UNCHANGED <<creds, requests, leaving>>
  BY Shapes DEF Verify, server
<1>2. /\ \A r \in requests : r.kind # "rotate"
      /\ \A r \in requests : r.by # t
      /\ tasks[t].kind \in {"enroll", "restore"}
      /\ \A u \in Tasks : Restoring(u) => u = t
  BY <1>1, AnswerAlone DEF Answering
<1>3. /\ tasks'[t] = Idle /\ \A u \in Tasks \ {t} : tasks'[u] = tasks[u]
  BY <1>1 DEF Verify
<1>4. \A u \in Tasks : tasks'[u].kind # "restore"
  BY <1>2, <1>3 DEF Restoring, Idle
<1>5. CASE Restoring(t)
  <2>1. refresh = tasks[t].got /\ session = "loading" /\ Unspent(tasks[t].got, creds)
    BY <1>1, <1>5 DEF Calm, AppCalm, CredsCalm, Answering
  <2>2. refresh' = refresh /\ session' = "authenticated"
    BY <1>5, <2>1 DEF Verify, Restoring
  <2>3. AppCalm'
    BY <1>2, <1>3, <1>4, <2>2 DEF Calm, AppCalm, Restoring
  <2>4. CredsCalm'
    <3>1. Settles /\ Unspent(refresh', creds')
      BY <1>1, <2>1, <2>2, SettlesSame
    <3>2. \A u \in Tasks : tasks'[u].pc \notin {"write", "verify"} \/ tasks'[u] = tasks[u]
      BY <1>3 DEF Idle
    <3> QED
      BY <2>2, <3>1, <3>2, SettledCalm
  <2> QED
    BY <1>1, <1>2, <1>3, <2>3, <2>4, OthersPlaced DEF Calm
<1>6. CASE ~Restoring(t)
  <2>1. session # "loading"
    BY <1>1, <1>6 DEF Calm, AppCalm, Idle
  <2>2. /\ \A u \in Tasks : ~Restoring(u)
        /\ Unspent(refresh, creds) /\ Unspent(tasks[t].prev.refresh, creds)
    BY <1>1, <1>6, <2>1, NobodyRestores DEF Calm, CredsCalm, Answering
  <2>3. refresh' \in {refresh, tasks[t].prev.refresh} /\ session' = session
    BY <1>6 DEF Verify, Restoring
  <2>4. AppCalm'
    BY <1>2, <1>3, <1>4, <2>1, <2>3 DEF Calm, AppCalm, Restoring
  <2>5. CredsCalm'
    <3>1. Settles /\ Unspent(refresh', creds')
      BY <1>1, <2>2, <2>3, SettlesSame
    <3>2. \A u \in Tasks : tasks'[u].pc \notin {"write", "verify"} \/ tasks'[u] = tasks[u]
      BY <1>3 DEF Idle
    <3> QED
      BY <2>2, <3>1, <3>2, SettledCalm
  <2> QED
    BY <1>1, <1>2, <1>3, <2>4, <2>5, OthersPlaced DEF Calm
<1> QED
  BY <1>5, <1>6

\* What remains of the tasks when the enrollments are aborted.
LEMMA AbortedTasks ==
    ASSUME IInv, Calm, \A t \in Tasks : ~Restoring(t)
    PROVE  /\ \A t \in Tasks : Aborted[t] = tasks[t] \/ Aborted[t] = Idle
           /\ \A t \in Tasks : Aborted[t].kind # "restore"
           /\ \A t \in Tasks : Aborted[t].kind = "none" => Aborted[t] = Idle
BY DEF Aborted, Restoring, Idle, Calm, AppCalm

LEMMA ExpireSessionCalm ==
    ASSUME IInv, Calm, ExpireSession
    PROVE  Calm'
<1>1. /\ session = "authenticated" /\ session' = "requires_login" /\ refresh' = 0
      /\ tasks' = Aborted /\ requests' = Detached(Abortable) /\ UNCHANGED <<creds, leaving>>
  BY DEF ExpireSession, Clear, server
<1>2. \A t \in Tasks : ~Restoring(t)
  BY <1>1, NobodyRestores
<1>3. /\ \A t \in Tasks : tasks'[t] = tasks[t] \/ tasks'[t] = Idle
      /\ \A t \in Tasks : tasks'[t].kind # "restore"
      /\ \A t \in Tasks : tasks'[t].kind = "none" => tasks'[t] = Idle
  BY <1>1, <1>2, AbortedTasks
<1>4. AppCalm'
  BY <1>1, <1>3 DEF AppCalm, Restoring
<1>5. RequestsCalm'
  BY <1>1, <1>2, AbortCalm DEF RequestsCalm, Placed
<1>6. CredsCalm'
  <2>1. Settles /\ Unspent(refresh', creds')
    BY <1>1, SettlesSame DEF Unspent
  <2>2. \A t \in Tasks : tasks'[t].pc \notin {"write", "verify"} \/ tasks'[t] = tasks[t]
    BY <1>3 DEF Idle
  <2> QED
    BY <1>2, <2>1, <2>2, SettledCalm
<1> QED
  BY <1>4, <1>5, <1>6 DEF Calm

LEMMA LogoutCalm ==
    ASSUME IInv, Calm, Logout
    PROVE  Calm'
<1>1. /\ session = "authenticated" /\ ~leaving /\ tasks' = Aborted /\ creds' = creds
  BY DEF Logout, server
<1>2. (\A t \in Tasks : ~Restoring(t)) /\ Unspent(refresh, creds)
  BY <1>1, NobodyRestores
<1>3. /\ \A t \in Tasks : tasks'[t] = tasks[t] \/ tasks'[t] = Idle
      /\ \A t \in Tasks : tasks'[t].kind # "restore"
      /\ \A t \in Tasks : tasks'[t].kind = "none" => tasks'[t] = Idle
  BY <1>1, <1>2, AbortedTasks
<1>4. AppCalm'
  <2>1. session' \in {"anonymous", "authenticated"}
    BY <1>1 DEF Logout, tokens
  <2> QED
    BY <1>3, <2>1 DEF AppCalm, Restoring
<1>5. CredsCalm'
  <2>1. refresh' = refresh \/ refresh' = 0
    BY DEF Logout, tokens, Clear
  <2>2. Settles /\ Unspent(refresh', creds')
    BY <1>1, <1>2, <2>1, SettlesSame DEF Unspent
  <2>3. \A t \in Tasks : tasks'[t].pc \notin {"write", "verify"} \/ tasks'[t] = tasks[t]
    BY <1>3 DEF Idle
  <2> QED
    BY <1>2, <2>2, <2>3, SettledCalm
<1>6. \A q \in Detached(Abortable) :
        /\ q.pc # "replaying" /\ q.kind # "rotate" /\ q.by = "nobody"
  BY <1>1, <1>2, AbortCalm
<1>7. RequestsCalm'
  <2>1. CASE refresh = 0
    <3>1. requests' = Detached(Abortable)
      BY <2>1 DEF Logout
    <3> QED
      BY <1>6, <3>1 DEF RequestsCalm, Placed
  <2>2. CASE refresh # 0
    <3>1. PICK r : r = Call("revoke", "logout", 0)
      OBVIOUS
    <3>2. r.kind = "revoke" /\ r.by = "logout" /\ r.pc = "sent"
      BY <3>1 DEF Call
    <3>3. requests' = Detached(Abortable) \cup {r} /\ leaving'
      BY <2>2, <3>1 DEF Logout
    <3> QED
      BY <1>6, <3>2, <3>3 DEF RequestsCalm, Placed
  <2> QED
    BY <2>1, <2>2
<1> QED
  BY <1>4, <1>5, <1>7 DEF Calm

\* The app is closed while it has nothing to do.
LEMMA KillCalm ==
    ASSUME IInv, Calm, Kill, faults' = faults, faults \in Nat
    PROVE  Calm'
<1>1. /\ ~leaving /\ \A t \in Tasks : tasks[t] = Idle
      /\ session' = "loading" /\ leaving' = FALSE /\ tasks' = [t \in Tasks |-> Idle]
      /\ requests' = Detached(Tasks \cup {"logout"}) /\ UNCHANGED <<creds, refresh>>
  BY DEF Kill, Failing, server, tokens
<1>2. \A t \in Tasks : ~Restoring(t)
  BY <1>1 DEF Restoring, Idle
<1>3. (\A r \in requests : r.kind # "rotate") /\ Unspent(refresh, creds)
  BY <1>2, NobodyRestores
<1>4. AppCalm'
  BY <1>1 DEF AppCalm, Restoring, Idle
<1>5. ASSUME NEW q \in requests'
      PROVE  q.pc # "replaying" /\ q.kind # "rotate" /\ q.by = "nobody"
  <2>1. /\ q \in Request /\ q.pc # "replaying"
        /\ q.by = "nobody" \/ q.by \notin Tasks \cup {"logout"}
        /\ q.kind = "rotate" => \E r \in requests : r.kind = "rotate" /\ r.token = q.token
    BY <1>1, DetachedCalm
  <2> QED
    BY <1>3, <2>1 DEF Request
<1>6. CredsCalm'
  <2>1. Settles /\ Unspent(refresh', creds')
    BY <1>1, <1>3, SettlesSame
  <2>2. \A t \in Tasks : tasks'[t].pc \notin {"write", "verify"}
    BY <1>1 DEF Idle
  <2> QED
    BY <2>1, <2>2, SettledCalm
<1> QED
  BY <1>4, <1>5, <1>6 DEF Calm, RequestsCalm, Placed

\* The steps of the app, all but those that are faults.
LEMMA AppStepCalm ==
    ASSUME IInv, Calm, faults \in Nat, faults' = faults,
           \/ Proceed
           \/ Logout \/ Retry \/ ChangePassword \/ \E t \in Tasks : Login(t)
           \/ Fault \/ ExpireSession \/ \E t \in Tasks : Foreground(t)
    PROVE  Calm'
<1>1. CASE Proceed
  BY <1>1, EnrollCalm, RestoreCalm, StoreCalm, VerifyCalm DEF Proceed
<1>2. CASE Logout \/ ExpireSession
  BY <1>2, LogoutCalm, ExpireSessionCalm
<1>3. CASE Retry
  BY <1>3 DEF Retry, Calm, AppCalm
<1>4. CASE ChangePassword \/ ExpireAccess
  <2>1. UNCHANGED <<session, leaving, tasks, requests, refresh, creds>>
    BY <1>4 DEF ChangePassword, ExpireAccess, tokens, app, server
  <2> QED
    BY <2>1, Untouched
<1>5. CASE \E t \in Tasks : Login(t) \/ Foreground(t)
  BY <1>5, LoginCalm
<1>6. CASE Kill
  BY <1>6, KillCalm
<1>7. CASE Offline \/ \E r \in requests : Unanswered(r)
  <2>1. Failing
    BY <1>7 DEF Offline, Unanswered
  <2> QED
    BY <2>1 DEF Failing
<1> QED
  BY <1>1, <1>2, <1>3, <1>4, <1>5, <1>6, <1>7 DEF Fault

-----------------------------------------------------------------------------
(* The steps of the server. *)

\* A refusal of what nobody, or an enrollment, or the logout asked for.
LEMMA RefusedCalm ==
    ASSUME IInv, Calm, NEW r \in requests, r.kind # "rotate", Settles,
           Refused(r), requests' = requests \ {r}
    PROVE  Calm'
<1>1. tasks \in [Tasks -> Task] /\ Placed(r) /\ r.kind \in {"register", "revoke"}
  BY Shapes DEF Calm, RequestsCalm, Request
<1>2. CASE r.by = "nobody"
  <2>1. UNCHANGED <<tasks, session, leaving, refresh>>
    BY <1>2, NotTasks DEF Refused, tokens
  <2>2. AppCalm'
    BY <2>1 DEF Calm, AppCalm, Restoring
  <2>3. RequestsCalm'
    BY <2>1, DoneCalm
  <2>4. CredsCalm'
    BY <2>1, SettledCalm
  <2> QED
    BY <2>2, <2>3, <2>4 DEF Calm
<1>3. CASE r.by = "logout"
  <2>1. r.kind = "revoke" /\ leaving
    BY <1>1, <1>3, NotTasks DEF Placed
  <2>2. session # "loading"
    BY <2>1 DEF Calm, AppCalm
  <2>3. (\A t \in Tasks : ~Restoring(t)) /\ \A q \in requests : q.kind # "rotate"
    BY <2>2, NobodyRestores
  <2>4. tasks' = tasks /\ session' = "anonymous" /\ leaving' = FALSE /\ refresh' = 0
    BY <1>3, NotTasks DEF Refused, Clear
  <2>5. AppCalm'
    BY <2>3, <2>4 DEF Calm, AppCalm, Restoring
  <2>6. RequestsCalm'
    BY <1>3, <2>3, <2>4, DoneCalm
  <2>7. CredsCalm'
    BY <2>3, <2>4, SettledCalm DEF Unspent
  <2> QED
    BY <2>5, <2>6, <2>7 DEF Calm
<1>4. CASE r.by \in Tasks
  <2>1. r.kind = "register" /\ tasks[r.by].kind = "enroll" /\ tasks[r.by].pc = "call"
    BY <1>1, <1>4, NotTasks DEF Placed
  <2>2. session # "loading"
    BY <1>4, <2>1 DEF Calm, AppCalm, Restoring, Idle
  <2>3. (\A t \in Tasks : ~Restoring(t)) /\ \A q \in requests : q.kind # "rotate"
    BY <2>2, NobodyRestores
  <2>4. /\ tasks'[r.by] = Idle /\ \A t \in Tasks \ {r.by} : tasks'[t] = tasks[t]
        /\ UNCHANGED <<session, leaving, refresh>>
    BY <1>1, <1>4, <2>1, NotTasks DEF Refused, tokens
  <2>5. AppCalm'
    BY <2>2, <2>3, <2>4 DEF Calm, AppCalm, Restoring, Idle
  <2>6. RequestsCalm'
    BY <2>4, DoneCalm
  <2>7. CredsCalm'
    <3>1. \A t \in Tasks : tasks'[t].pc \notin {"write", "verify"} \/ tasks'[t] = tasks[t]
      BY <2>4 DEF Idle
    <3>2. \A t \in Tasks : Restoring(t) => tasks'[t] = tasks[t]
      BY <2>3
    <3> QED
      BY <2>4, <3>1, <3>2, SettledCalm
  <2> QED
    BY <2>5, <2>6, <2>7 DEF Calm
<1> QED
  BY <1>1, <1>2, <1>3, <1>4 DEF Placed

\* Its own rotation is refused: the session ends.
LEMMA RotationRefusedCalm ==
    ASSUME IInv, Calm, NEW r \in requests, r.kind = "rotate", Settles,
           Refused(r), requests' = requests \ {r}
    PROVE  Calm'
<1>1. /\ r.by \in Tasks /\ Restoring(r.by)
      /\ \A t \in Tasks \ {r.by} : tasks[t] = Idle
      /\ \A q \in requests : q.kind = "rotate" => q = r
      /\ session = "loading" /\ tasks \in [Tasks -> Task]
  BY RotationAlone, Shapes
<1>2. \A t \in Tasks : tasks'[t] = Idle
  BY <1>1 DEF Refused
<1>3. session' = "requires_login" /\ leaving' = leaving /\ refresh' = 0
  BY <1>1, NotTasks DEF Refused, Clear
<1>4. AppCalm'
  BY <1>2, <1>3 DEF AppCalm, Restoring, Idle
<1>5. RequestsCalm'
  <2>1. \A t \in Tasks : t # r.by => tasks'[t] = tasks[t]
    BY <1>1, <1>2
  <2> QED
    BY <1>1, <1>3, <2>1, DoneCalm
<1>6. CredsCalm'
  <2>1. \A t \in Tasks : tasks'[t].pc \notin {"write", "verify"}
    BY <1>2 DEF Idle
  <2> QED
    BY <1>3, <2>1, SettledCalm DEF Unspent
<1> QED
  BY <1>4, <1>5, <1>6 DEF Calm

\* An enrollment that still waits gets its credential.
LEMMA RegisterCalm ==
    ASSUME IInv, Calm, NEW r \in requests, Register(r)
    PROVE  Calm'
<1> DEFINE f == [c \in Creds |-> [creds[c] EXCEPT
                                    !.status = IF @ = "ACTIVE" THEN "REVOKED" ELSE @]]
           new == [family |-> Len(creds) + 1, parent |-> 0, status |-> "ACTIVE"]
<1>1. /\ r.kind = "register" /\ requests' = requests \ {r}
      /\ \/ creds' = Append(f, new) /\ Issued(r, Len(creds) + 1)
         \/ creds' = creds /\ Refused(r)
  BY DEF Register, Done
<1>2. CASE creds' = creds /\ Refused(r)
  BY <1>1, <1>2, SettlesSame, RefusedCalm
<1>3. CASE creds' = Append(f, new) /\ Issued(r, Len(creds) + 1)
  <2>1. /\ tasks \in [Tasks -> Task] /\ Placed(r) /\ Len(creds) \in Nat
        /\ \A t \in Tasks : tasks[t] \in Task
    BY Shapes DEF Calm, RequestsCalm
  <2>2. new \in Credential /\ new.status = "ACTIVE"
    BY <2>1 DEF Credential
  <2>3. /\ f \in [Creds -> Credential]
        /\ \A c \in Creds : f[c].status \in {creds[c].status, "REVOKED"}
    BY Shapes DEF Credential
  <2> HIDE DEF f, new
  <2>4. Settles /\ Unspent(Len(creds) + 1, creds')
    BY <1>3, <2>2, <2>3, SettlesAppended
  <2>5. UNCHANGED <<session, leaving, access, refresh>>
    BY <1>3 DEF Issued, tokens
  <2>6. CASE r.by \notin Tasks
    <3>1. tasks' = tasks
      BY <1>3, <2>6 DEF Issued
    <3>2. AppCalm'
      BY <2>5, <3>1 DEF Calm, AppCalm, Restoring
    <3>3. RequestsCalm'
      BY <1>1, <2>5, <3>1, DoneCalm
    <3>4. CredsCalm'
      BY <2>4, <2>5, <3>1, SettledCalm
    <3> QED
      BY <3>2, <3>3, <3>4 DEF Calm
  <2>7. CASE r.by \in Tasks
    <3>1. tasks[r.by].kind = "enroll"
      BY <1>1, <2>1, <2>7, NotTasks DEF Placed
    <3>2. session # "loading"
      BY <2>7, <3>1 DEF Calm, AppCalm, Restoring, Idle
    <3>3. (\A t \in Tasks : ~Restoring(t)) /\ Unspent(refresh, creds)
      BY <3>2, NobodyRestores
    <3>4. /\ tasks'[r.by].kind = "enroll" /\ tasks'[r.by].pc = "write"
          /\ tasks'[r.by].got = Len(creds) + 1 /\ tasks'[r.by].prev.refresh = refresh
          /\ \A t \in Tasks \ {r.by} : tasks'[t] = tasks[t]
      BY <1>3, <2>1, <2>7, <3>1 DEF Issued, Task
    <3>5. AppCalm'
      BY <2>5, <3>2, <3>3, <3>4 DEF Calm, AppCalm, Restoring
    <3>6. RequestsCalm'
      BY <1>1, <2>5, <3>4, DoneCalm
    <3>7. CredsCalm'
      <4>1. Unspent(refresh, creds')
        BY <2>4, <3>3, Shapes DEF Settles
      <4>2. ASSUME NEW t \in Tasks, tasks'[t].pc \in {"write", "verify"}
            PROVE  /\ Unspent(tasks'[t].got, creds')
                   /\ Unspent(tasks'[t].prev.refresh, creds')
        <5>1. CASE t = r.by
          BY <2>4, <3>4, <4>1, <5>1
        <5>2. CASE t # r.by
          <6>1. tasks'[t] = tasks[t] /\ Answering(t) /\ ~Restoring(t)
            BY <3>3, <3>4, <4>2, <5>2 DEF Answering
          <6>2. /\ Unspent(tasks[t].got, creds)
                /\ Unspent(tasks[t].prev.refresh, creds)
            BY <6>1 DEF Calm, CredsCalm
          <6>3. tasks[t].got \in 0..Len(creds) /\ tasks[t].prev.refresh \in 0..Len(creds)
            BY Shapes
          <6> QED
            BY <2>4, <6>1, <6>2, <6>3 DEF Settles
        <5> QED
          BY <5>1, <5>2
      <4>3. \A t \in Tasks : tasks'[t].kind # "restore"
        BY <3>3, <3>4 DEF Restoring
      <4> QED
        BY <2>4, <2>5, <4>1, <4>2, <4>3 DEF CredsCalm, Settles, Answering, Restoring
    <3> QED
      BY <3>5, <3>6, <3>7 DEF Calm
  <2> QED
    BY <2>6, <2>7
<1> QED
  BY <1>1, <1>2, <1>3

\* The credential a restart presents was not exchanged: the rotation takes it,
\* or refuses it for what else it is.
LEMMA RotateCalm ==
    ASSUME IInv, Calm, NEW r \in requests, Rotate(r)
    PROVE  Calm'
<1>1. /\ r.kind = "rotate" /\ r.token = refresh /\ Unspent(refresh, creds)
      /\ r \in Request /\ r.token \in Creds /\ Len(creds) \in Nat /\ Creds = 1..Len(creds)
  BY RotationAlone, Shapes DEF Rotate, Named
<1>2. Status(r.token) # "ROTATED"
  BY <1>1 DEF Unspent, Status
<1>3. CASE /\ Live(r.token)
           /\ requests' = (requests \ {r}) \cup {[r EXCEPT !.pc = "rotating"]}
           /\ UNCHANGED <<creds, tokens, app>>
  <2>1. PICK q : q = [r EXCEPT !.pc = "rotating"]
    OBVIOUS
  <2>2. q.pc = "rotating" /\ q.kind = r.kind /\ q.by = r.by /\ q.token = r.token
    BY <1>1, <2>1 DEF Request
  <2>3. requests' = (requests \ {r}) \cup {q} /\ UNCHANGED <<session, leaving, tasks, refresh, creds>>
    BY <1>3, <2>1 DEF tokens, app
  <2>4. Placed(r)
    BY DEF Calm, RequestsCalm
  <2>5. Placed(q)'
    BY <1>1, <2>2, <2>3, <2>4 DEF Placed, Restoring
  <2>6. \A a \in requests : Placed(a)'
    BY <2>3 DEF Calm, RequestsCalm, Placed, Restoring
  <2>7. RequestsCalm'
    BY <2>2, <2>3, <2>5, <2>6 DEF Calm, RequestsCalm
  <2>8. AppCalm' /\ CredsCalm'
    BY <2>3 DEF Calm, AppCalm, CredsCalm, Restoring, Answering, Unspent, Unreplayed
  <2> QED
    BY <2>7, <2>8 DEF Calm
<1>4. CASE /\ creds' = IF Live(r.token)
                       THEN [creds EXCEPT ![r.token].status = "REVOKED"] ELSE creds
           /\ Done(r) /\ Refused(r)
  <2>1. requests' = requests \ {r}
    BY <1>4 DEF Done
  <2>2. Settles
    <3>1. CASE creds' = creds
      BY <3>1, SettlesSame
    <3>2. CASE creds' = [creds EXCEPT ![r.token].status = "REVOKED"]
      <4> DEFINE f == [creds EXCEPT ![r.token].status = "REVOKED"]
      <4>1. /\ f \in [Creds -> Credential]
            /\ \A c \in Creds : f[c].status \in {creds[c].status, "REVOKED"}
        <5>1. /\ creds \in [Creds -> Credential] /\ \A c \in Creds : creds[c] \in Credential
          BY <1>1, Shapes
        <5> QED
          BY <1>1, <5>1 DEF Credential
      <4> HIDE DEF f
      <4>2. creds' = f
        BY <3>2 DEF f
      <4> QED
        BY <4>1, <4>2, SettlesRestated
    <3> QED
      BY <1>4, <3>1, <3>2
  <2> QED
    BY <1>1, <1>4, <2>1, <2>2, RotationRefusedCalm
<1> QED
  BY <1>2, <1>3, <1>4 DEF Rotate

\* The restore has the successor of what is in SecureStore, or is refused.
LEMMA CommitRotationCalm ==
    ASSUME IInv, Calm, NEW r \in requests, CommitRotation(r)
    PROVE  Calm'
<1> DEFINE n == Len(creds)
           f(status) == [creds EXCEPT ![r.token].status = status]
           new == [family |-> creds[r.token].family, parent |-> r.token, status |-> "ACTIVE"]
<1>1. /\ r.kind = "rotate" /\ r.token \in Creds /\ n \in Nat /\ Creds = 1..n
      /\ creds \in [Creds -> Credential] /\ \A c \in Creds : creds[c] \in Credential
      /\ requests' = requests \ {r}
      /\ Unreplayed(creds)
  BY Shapes DEF CommitRotation, Named, Done, Calm, CredsCalm
<1>2. /\ r.by \in Tasks /\ Restoring(r.by) /\ r.token = refresh
      /\ session = "loading" /\ \A t \in Tasks \ {r.by} : tasks[t] = Idle
      /\ \A q \in requests : q.kind = "rotate" => q = r
      /\ tasks \in [Tasks -> Task] /\ tasks[r.by] \in Task
  BY <1>1, RotationAlone, Shapes
<1>3. ASSUME NEW status \in {"ROTATED", "REVOKED"}
      PROVE  /\ f(status) \in [Creds -> Credential]
             /\ \A c \in Creds : f(status)[c].status \in {creds[c].status, status}
  BY <1>1 DEF Credential
<1>4. CASE device = "active"
  <2> DEFINE g == f("ROTATED")
  <2>1. creds' = Append(g, new) /\ Issued(r, n + 1)
    BY <1>4 DEF CommitRotation, Replace
  <2>2. new \in Credential /\ new.status = "ACTIVE"
    BY <1>1 DEF Credential
  <2>3. /\ g \in [Creds -> Credential]
        /\ \A c \in Creds : g[c].status \in {creds[c].status, "ROTATED"}
    BY <1>3
  <2> HIDE DEF g, new
  <2>4. g \in Seq(Credential) /\ Len(g) = n
    BY <1>1, <2>3, SameLength
  <2>5. /\ Len(creds') = n + 1
        /\ \A c \in Creds : creds'[c] = g[c]
        /\ creds'[n + 1] = new
    BY <1>1, <2>1, <2>2, <2>4, AppendProperties
  <2>6. Unreplayed(creds') /\ Unspent(n + 1, creds')
    BY <1>1, <2>2, <2>3, <2>5 DEF Unreplayed, Unspent
  <2>7. /\ tasks'[r.by].kind = "restore" /\ tasks'[r.by].pc = "write"
        /\ tasks'[r.by].got = n + 1
        /\ \A t \in Tasks \ {r.by} : tasks'[t] = tasks[t] /\ tasks'[t] = Idle
        /\ UNCHANGED <<session, leaving, refresh>>
    BY <1>2, <2>1 DEF Issued, Task, Restoring, tokens
  <2>8. AppCalm'
    BY <1>2, <2>7 DEF Calm, AppCalm, Restoring, Idle
  <2>9. RequestsCalm'
    BY <1>1, <2>7, DoneCalm
  <2>10. CredsCalm'
    BY <1>2, <2>6, <2>7 DEF CredsCalm, Answering, Restoring, Idle
  <2> QED
    BY <2>8, <2>9, <2>10 DEF Calm
<1>5. CASE device # "active"
  <2> DEFINE g == f("REVOKED")
  <2>1. creds' = g /\ Refused(r)
    BY <1>5 DEF CommitRotation
  <2>2. /\ g \in [Creds -> Credential]
        /\ \A c \in Creds : g[c].status \in {creds[c].status, "REVOKED"}
    BY <1>3
  <2> HIDE DEF g
  <2>3. Settles
    BY <2>1, <2>2, SettlesRestated
  <2> QED
    BY <1>1, <2>1, <2>3, RotationRefusedCalm
<1> QED
  BY <1>4, <1>5

LEMMA RevokeCalm ==
    ASSUME IInv, Calm, NEW r \in requests, Revoke(r)
    PROVE  Calm'
<1>1. r.kind = "revoke" /\ requests' = requests \ {r} /\ Refused(r)
  BY DEF Revoke, Done
<1>2. Settles
  <2>1. CASE creds' = creds
    BY <2>1, SettlesSame
  <2>2. CASE RevokeRecords
    <3> DEFINE f == [c \in Creds |-> [creds[c] EXCEPT
                    !.status = IF @ = "REUSE_DETECTED" THEN @ ELSE "REVOKED"]]
    <3>1. /\ f \in [Creds -> Credential]
          /\ \A c \in Creds : f[c].status \in {creds[c].status, "REVOKED"}
      BY Shapes DEF Credential
    <3> HIDE DEF f
    <3>2. creds' = f
      BY <2>2 DEF RevokeRecords, f
    <3> QED
      BY <3>1, <3>2, SettlesRestated
  <2> QED
    BY <2>1, <2>2 DEF Revoke
<1> QED
  BY <1>1, <1>2, RefusedCalm

LEMMA HandleCalm ==
    ASSUME IInv, Calm, Handle
    PROVE  Calm'
<1>1. PICK r \in requests :
        Register(r) \/ Rotate(r) \/ CommitRotation(r) \/ CommitReplay(r) \/ Revoke(r)
  BY DEF Handle
<1>2. ~CommitReplay(r)
  BY DEF CommitReplay, Calm, RequestsCalm, Placed
<1> QED
  BY <1>1, <1>2, RegisterCalm, RotateCalm, CommitRotationCalm, RevokeCalm

-----------------------------------------------------------------------------
(* The theorem. *)

LEMMA InitCalm == Init => CalmUntilFault
<1> SUFFICES ASSUME Init PROVE Calm
  BY DEF CalmUntilFault
<1>1. Len(creds) = 0
  BY EmptySeq DEF Init
<1> QED
  BY <1>1
  DEF Init, Calm, AppCalm, RequestsCalm, CredsCalm, Unreplayed, Unspent, Restoring, Answering, Idle

\* A step counts a fault, or none.
LEMMA FaultsStay ==
    ASSUME IInv, [Next]_vars
    PROVE  faults \in Nat /\ (faults' = faults \/ faults' = faults + 1)
<1>1. faults \in Nat
  BY ConstantsAssumption DEF IInv, TypeOK, ConstantsAssumption
<1>2. SUFFICES faults' = faults \/ faults' = faults + 1
  BY <1>1
<1> USE DEF Failing
<1>3. CASE Proceed \/ ExpireSession
  BY <1>3 DEF Proceed, Enroll, Restore, Store, Verify, ExpireSession, bounds
<1>4. CASE Handle
  <2>1. PICK r \in requests :
          Register(r) \/ Rotate(r) \/ CommitRotation(r) \/ CommitReplay(r) \/ Revoke(r)
    BY <1>4 DEF Handle
  <2>2. UNCHANGED bounds
    BY <2>1 DEF Register, Rotate, CommitRotation, CommitReplay, Revoke
  <2> QED
    BY <2>2 DEF bounds
<1>5. CASE User
  <2>1. ASSUME NEW t \in Tasks, Login(t) PROVE faults' = faults
    BY <2>1 DEF Login
  <2>2. CASE Logout \/ Retry \/ ChangePassword
    BY <2>2 DEF Logout, Retry, ChangePassword, bounds
  <2>3. CASE RevokeElsewhere
    BY <2>3 DEF RevokeElsewhere
  <2> QED
    BY <1>5, <2>1, <2>2, <2>3 DEF User
<1>6. ASSUME NEW t \in Tasks, Foreground(t) PROVE faults' = faults \/ faults' = faults + 1
  BY <1>6 DEF Foreground
<1>7. CASE Fault
  <2>1. CASE Kill
    BY <2>1 DEF Kill
  <2>2. CASE ExpireAccess
    BY <2>2 DEF ExpireAccess, bounds
  <2>3. CASE Offline \/ \E r \in requests : Unanswered(r)
    BY <2>3 DEF Offline, Unanswered
  <2> QED
    BY <1>7, <2>1, <2>2, <2>3 DEF Fault
<1>8. CASE UNCHANGED vars
  BY <1>8 DEF vars, bounds
<1> QED
  BY <1>3, <1>4, <1>5, <1>6, <1>7, <1>8 DEF Next

LEMMA StepCalm == IInv /\ CalmUntilFault /\ [Next]_vars => CalmUntilFault'
<1> SUFFICES ASSUME IInv, CalmUntilFault, [Next]_vars, faults' = 0 PROVE Calm'
  BY DEF CalmUntilFault
<1>1. faults = 0 /\ faults' = faults /\ faults \in Nat
  BY FaultsStay
<1>2. Calm
  BY <1>1 DEF CalmUntilFault
<1>3. CASE Handle
  BY <1>2, <1>3, HandleCalm
<1>4. CASE RevokeElsewhere
  BY <1>1, <1>4 DEF RevokeElsewhere, Failing
<1>5. CASE UNCHANGED vars
  <2>1. UNCHANGED <<session, leaving, tasks, requests, refresh, creds>>
    BY <1>5 DEF vars, server, tokens, app
  <2> QED
    BY <1>2, <2>1, Untouched
<1> QED
  BY <1>1, <1>2, <1>3, <1>4, <1>5, AppStepCalm DEF Next, User

LEMMA CalmInvariant == Spec => []CalmUntilFault
<1>1. IInv /\ CalmUntilFault /\ [Next]_vars => CalmUntilFault'
  BY StepCalm
<1> QED
  BY <1>1, InitCalm, Invariant, PTL DEF Spec

\* A phone that is never killed, never left without an answer, and revoked from
\* nowhere else never has a credential marked as reused, however its restarts,
\* logins, enrollments and logouts meet the registrations and rotations of the
\* server: what a restart presents was not exchanged before.
THEOREM ReplayOnlyAfterFault == Spec => []ReplayNeedsFault
<1>1. IInv /\ CalmUntilFault => ReplayNeedsFault
  <2> SUFFICES ASSUME IInv, CalmUntilFault, NEW c \in Creds, Status(c) = "REUSE_DETECTED"
               PROVE  faults > 0
    BY DEF ReplayNeedsFault
  <2>1. faults \in Nat
    BY ConstantsAssumption DEF IInv, TypeOK, ConstantsAssumption
  <2>2. faults # 0
    BY DEF CalmUntilFault, Calm, CredsCalm, Unreplayed, Status, Creds
  <2> QED
    BY <2>1, <2>2
<1> QED
  BY <1>1, CalmInvariant, Invariant, PTL
=============================================================================
