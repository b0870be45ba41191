--------------------------- MODULE DeviceSessions ---------------------------
(***************************************************************************)
(* The session of one installation of the app: its tokens in SecureStore,   *)
(* the enrollments and restarts that replace them, and the device with its  *)
(* rotating refresh credentials on the server (DeviceRepository).           *)
(*                                                                         *)
(* A task of the app that waits for an answer stops waiting when it is      *)
(* aborted or the app is killed; its request is handled all the same.  A    *)
(* task that has its answer stores it and no longer looks at the signal.    *)
(*                                                                         *)
(* The server's transactions are single steps except the rotation and the   *)
(* replay, which meet halfway: each locks the credential, and only then the *)
(* device, while every other transaction locks the device first.            *)
(***************************************************************************)
EXTENDS Integers, Sequences, FiniteSets

CONSTANTS
    Tasks,       \* tasks of the app that may run at once
    MaxLogins,   \* bound on logins
    MaxVersion,  \* bound on password changes
    MaxCreds,    \* tokens expire and the app restarts while it had fewer credentials
    MaxFaults    \* bound on kills, lost answers, enrollments begun beside another,
                 \* and revocations from elsewhere

ASSUME ConstantsAssumption ==
    /\ MaxLogins \in Nat /\ MaxVersion \in Nat /\ MaxCreds \in Nat /\ MaxFaults \in Nat
    /\ \A t \in Tasks : t \notin {"logout", "nobody"}

VARIABLES
    version,   \* auth_version of the user
    device,    \* status of the Device of the installation
    creds,     \* its DeviceCredentials, in the order they were issued
    requests,  \* requests on their way or being handled
    access,    \* access token in SecureStore
    refresh,   \* credential in SecureStore, 0 if none; the device ID is beside it
    session,   \* status of the session state
    leaving,   \* a logout waits for the revocation
    tasks,     \* running enrollments and restores
    logins,    \* how many logins there were
    faults     \* how many faults have happened

server == <<version, device, creds>>
tokens == <<access, refresh>>
app == <<session, leaving, tasks>>
bounds == <<logins, faults>>
vars == <<server, requests, tokens, app, bounds>>

Credential == [family : Nat, parent : Nat,
               status : {"ACTIVE", "ROTATED", "REVOKED", "REUSE_DETECTED"}]

\* A "bound" token names the device.
Access == [kind : {"none", "plain", "bound"}, version : Nat, expired : BOOLEAN]

NoAccess == [kind |-> "none", version |-> 0, expired |-> FALSE]

\* prev is what SecureStore held before the answer is stored.
Task == [kind : {"none", "enroll", "restore"}, pc : {"idle", "start", "call", "write", "verify"},
         got : Nat, prev : [access : Access, refresh : Nat]]

Idle == [kind |-> "none", pc |-> "idle", got |-> 0,
         prev |-> [access |-> NoAccess, refresh |-> 0]]

\* by is who waits for the answer; token is a credential; seen are the rows the
\* update of a replay finds.
Request == [id : Nat, kind : {"register", "rotate", "revoke"},
            by : Tasks \cup {"logout", "nobody"}, access : Access, token : Nat,
            pc : {"sent", "rotating", "replaying"}, seen : SUBSET Nat]

Creds == 1..Len(creds)

Status(c) == creds[c].status

Live(c) == Status(c) = "ACTIVE"

\* _principal_from_token
Accepted(a) ==
    /\ a.kind # "none" /\ ~a.expired /\ a.version = version
    /\ a.kind = "bound" => device = "active"

-----------------------------------------------------------------------------
(* Tasks and requests of the app. *)

NewId == CHOOSE n \in 1..(Cardinality(requests) + 1) : \A r \in requests : r.id # n

Call(kind, by, token) ==
    [id |-> NewId, kind |-> kind, by |-> by, access |-> access, token |-> token,
     pc |-> "sent", seen |-> {}]

\* Requests nobody in S waits for any longer.
Detached(S) == {IF r.by \in S THEN [r EXCEPT !.by = "nobody"] ELSE r : r \in requests}

Abortable == {t \in Tasks : tasks[t].kind = "enroll" /\ tasks[t].pc \in {"start", "call"}}

Aborted == [t \in Tasks |-> IF t \in Abortable THEN Idle ELSE tasks[t]]

\* beginDeviceEnrollment: abort the running one and start another.
BeginEnrollment(t) ==
    /\ t \in Abortable \/ tasks[t] = Idle
    /\ tasks' = [Aborted EXCEPT ![t] = [Idle EXCEPT !.kind = "enroll", !.pc = "start"]]
    /\ requests' = Detached(Abortable)

Clear == access' = NoAccess /\ refresh' = 0

Failing == faults < MaxFaults /\ faults' = faults + 1

Login(t) ==
    /\ session \in {"anonymous", "requires_login"} /\ logins < MaxLogins
    /\ logins' = logins + 1
    /\ access' = [kind |-> "plain", version |-> version, expired |-> FALSE]
    /\ session' = "authenticated"
    /\ BeginEnrollment(t)
    /\ UNCHANGED <<server, refresh, leaving, faults>>

\* The app comes to the foreground or finds the network.
Foreground(t) ==
    /\ session = "authenticated"
    /\ IF \A u \in Tasks : tasks[u] = Idle THEN UNCHANGED faults ELSE Failing
    /\ BeginEnrollment(t)
    /\ UNCHANGED <<server, tokens, session, leaving, logins>>

\* ensureDeviceRegistration
Enroll(t) ==
    /\ tasks[t].pc = "start"
    /\ IF refresh # 0 THEN tasks' = [tasks EXCEPT ![t] = Idle] /\ UNCHANGED requests
       ELSE /\ tasks' = [tasks EXCEPT ![t].pc = "call"]
            /\ requests' = requests \cup {Call("register", t, 0)}
    /\ UNCHANGED <<server, tokens, session, leaving, bounds>>

\* restoreDeviceAwareSession
Restore(t) ==
    /\ session = "loading" /\ \A u \in Tasks : tasks[u].kind # "restore"
    /\ tasks[t] = Idle
    /\ IF Accepted(access)
       THEN /\ session' = "authenticated" /\ UNCHANGED tokens
            /\ BeginEnrollment(t)
       ELSE IF refresh = 0
       THEN /\ session' = IF access.kind = "none" THEN "anonymous" ELSE "requires_login"
            /\ Clear /\ UNCHANGED <<tasks, requests>>
       ELSE /\ tasks' = [tasks EXCEPT ![t] = [Idle EXCEPT !.kind = "restore", !.pc = "call"]]
            /\ requests' = requests \cup {Call("rotate", t, refresh)}
            /\ UNCHANGED <<session, tokens>>
    /\ UNCHANGED <<server, leaving, bounds>>

\* Mutant: a credential that is there is kept.
StoreFirst(t) ==
    /\ tasks[t].pc = "write"
    /\ refresh' = IF refresh = 0 THEN tasks[t].got ELSE refresh
    /\ tasks' = [tasks EXCEPT ![t].pc = "verify"]
    /\ UNCHANGED <<server, requests, access, session, leaving, bounds>>

\* The user could not be loaded, for want of an answer.
Offline ==
    /\ session = "loading" /\ \A u \in Tasks : tasks[u].kind # "restore"
    /\ access.kind # "none" /\ Failing
    /\ session' = "unavailable"
    /\ UNCHANGED <<server, requests, tokens, leaving, tasks, logins>>

\* persistDeviceSessionCredentials writes the credential,
Store(t) ==
    /\ tasks[t].pc = "write"
    /\ refresh' = tasks[t].got
    /\ tasks' = [tasks EXCEPT ![t].pc = "verify"]
    /\ UNCHANGED <<server, requests, access, session, leaving, bounds>>

\* reads it back, and writes the access token, which create_access_token gave
\* version 0; or it puts back what it found before.
Verify(t) ==
    /\ tasks[t].pc = "verify"
    /\ LET stored == refresh = tasks[t].got
       IN /\ access' = IF stored THEN [kind |-> "bound", version |-> 0, expired |-> FALSE]
                       ELSE tasks[t].prev.access
          /\ refresh' = IF stored THEN refresh ELSE tasks[t].prev.refresh
          /\ session' = IF tasks[t].kind # "restore" THEN session
                        ELSE IF stored THEN "authenticated" ELSE "unavailable"
    /\ tasks' = [tasks EXCEPT ![t] = Idle]
    /\ UNCHANGED <<server, requests, leaving, bounds>>

Retry ==
    /\ session = "unavailable" /\ session' = "loading"
    /\ UNCHANGED <<server, requests, tokens, leaving, tasks, bounds>>

\* expireSession: a screen got a 401.
ExpireSession ==
    /\ session = "authenticated" /\ ~Accepted(access)
    /\ session' = "requires_login" /\ Clear
    /\ tasks' = Aborted /\ requests' = Detached(Abortable)
    /\ UNCHANGED <<server, leaving, bounds>>

\* logout: first the device is revoked, if the app knows of it.
Logout ==
    /\ session = "authenticated" /\ ~leaving
    /\ tasks' = Aborted
    /\ IF refresh = 0
       THEN /\ session' = "anonymous" /\ Clear
            /\ requests' = Detached(Abortable) /\ UNCHANGED leaving
       ELSE /\ leaving' = TRUE
            /\ requests' = Detached(Abortable) \cup {Call("revoke", "logout", 0)}
            /\ UNCHANGED <<session, tokens>>
    /\ UNCHANGED <<server, bounds>>

\* The app is closed or killed, and started again.
Kill ==
    /\ Len(creds) < MaxCreds
    /\ IF ~leaving /\ \A t \in Tasks : tasks[t] = Idle THEN UNCHANGED faults ELSE Failing
    /\ session' = "loading" /\ leaving' = FALSE /\ tasks' = [t \in Tasks |-> Idle]
    /\ requests' = Detached(Tasks \cup {"logout"})
    /\ UNCHANGED <<server, tokens, logins>>

ExpireAccess ==
    /\ access.kind # "none" /\ Len(creds) < MaxCreds
    /\ access' = [access EXCEPT !.expired = TRUE]
    /\ UNCHANGED <<server, requests, refresh, app, bounds>>

-----------------------------------------------------------------------------
(* Answers. *)

\* What the app does when the request ends with a new credential, with a
\* refusal, or with no answer.
Issued(r, c) ==
    /\ tasks' = IF r.by \notin Tasks THEN tasks
                ELSE [tasks EXCEPT ![r.by].pc = "write", ![r.by].got = c,
                        ![r.by].prev = [access |-> access, refresh |-> refresh]]
    /\ UNCHANGED <<tokens, session, leaving>>

Refused(r) ==
    /\ tasks' = IF r.by \in Tasks THEN [tasks EXCEPT ![r.by] = Idle] ELSE tasks
    /\ IF r.by = "logout" THEN session' = "anonymous" /\ leaving' = FALSE /\ Clear
       ELSE IF r.by \in Tasks /\ r.kind = "rotate"
       THEN session' = "requires_login" /\ Clear /\ UNCHANGED leaving
       ELSE UNCHANGED <<session, leaving, tokens>>

Unanswered(r) ==
    /\ Failing /\ r.by # "nobody"
    /\ requests' = Detached({r.by})
    /\ tasks' = IF r.by \in Tasks THEN [tasks EXCEPT ![r.by] = Idle] ELSE tasks
    /\ IF r.by = "logout" THEN session' = "anonymous" /\ leaving' = FALSE /\ Clear
       ELSE /\ session' = IF r.kind = "rotate" THEN "unavailable" ELSE session
            /\ UNCHANGED <<leaving, tokens>>
    /\ UNCHANGED <<server, logins>>

-----------------------------------------------------------------------------
(* The server. *)

Done(r) == requests' = requests \ {r}

Locked(c) == \E r \in requests : r.pc # "sent" /\ c \in r.seen \cup {r.token}

\* Mutant: the credentials issued before stay.
RegisterBeside(r) ==
    /\ r.kind = "register" /\ \A c \in Creds : Live(c) => ~Locked(c)
    /\ IF Accepted(r.access) /\ device # "revoked"
       THEN /\ device' = "active"
            /\ creds' = Append(creds, [family |-> Len(creds) + 1, parent |-> 0,
                                       status |-> "ACTIVE"])
            /\ Issued(r, Len(creds) + 1)
       ELSE Refused(r) /\ UNCHANGED <<device, creds>>
    /\ Done(r)
    /\ UNCHANGED <<version, bounds>>

\* Mutant: a known installation is refused.
RegisterOnce(r) ==
    /\ r.kind = "register" /\ \A c \in Creds : Live(c) => ~Locked(c)
    /\ IF Accepted(r.access) /\ device = "none"
       THEN /\ device' = "active"
            /\ creds' = <<[family |-> 1, parent |-> 0, status |-> "ACTIVE"]>>
            /\ Issued(r, 1)
       ELSE Refused(r) /\ UNCHANGED <<device, creds>>
    /\ Done(r)
    /\ UNCHANGED <<version, bounds>>

\* register: a known installation gives up the credentials it has.
Register(r) ==
    /\ r.kind = "register" /\ \A c \in Creds : Live(c) => ~Locked(c)
    /\ IF Accepted(r.access) /\ device # "revoked"
       THEN /\ device' = "active"
            /\ creds' = Append([c \in Creds |-> [creds[c] EXCEPT
                                    !.status = IF @ = "ACTIVE" THEN "REVOKED" ELSE @]],
                               [family |-> Len(creds) + 1, parent |-> 0, status |-> "ACTIVE"])
            /\ Issued(r, Len(creds) + 1)
       ELSE Refused(r) /\ UNCHANGED <<device, creds>>
    /\ Done(r)
    /\ UNCHANGED <<version, bounds>>

Family(c) == {d \in Creds : creds[d].family = creds[c].family}

\* Mutant: the credential is not locked.
FreeToUse(r) == TRUE

Free(r) == ~Locked(r.token)

\* rotate_credential, up to the lock of the device.  The credential may have
\* passed its expiry.
Rotate(r) ==
    /\ r.kind = "rotate" /\ r.pc = "sent" /\ Free(r)
    /\ \/ /\ Status(r.token) = "ROTATED"
          /\ requests' = (requests \ {r}) \cup
                 {[r EXCEPT !.pc = "replaying", !.seen = Family(r.token)]}
          /\ UNCHANGED <<creds, tokens, app>>
       \/ /\ Live(r.token)
          /\ requests' = (requests \ {r}) \cup {[r EXCEPT !.pc = "rotating"]}
          /\ UNCHANGED <<creds, tokens, app>>
       \/ /\ Status(r.token) # "ROTATED"
          /\ creds' = IF Live(r.token)
                      THEN [creds EXCEPT ![r.token].status = "REVOKED"] ELSE creds
          /\ Done(r) /\ Refused(r)
    /\ UNCHANGED <<version, device, bounds>>

Replace(c, status) ==
    Append([creds EXCEPT ![c].status = "ROTATED"],
           [family |-> creds[c].family, parent |-> c, status |-> status])

\* Mutant: the replacement stays pending.
CommitRotationPending(r) ==
    /\ r.pc = "rotating"
    /\ IF device = "active"
       THEN creds' = Replace(r.token, "PENDING") /\ Issued(r, Len(creds) + 1)
       ELSE creds' = [creds EXCEPT ![r.token].status = "REVOKED"] /\ Refused(r)
    /\ Done(r)
    /\ UNCHANGED <<version, device, bounds>>

\* Mutant: the status of the device is not looked at.
CommitRotationUnchecked(r) ==
    /\ r.pc = "rotating"
    /\ creds' = Replace(r.token, "ACTIVE") /\ Issued(r, Len(creds) + 1)
    /\ Done(r)
    /\ UNCHANGED <<version, device, bounds>>

\* The rest of it.  The replacement is pending only inside the transaction.
CommitRotation(r) ==
    /\ r.pc = "rotating"
    /\ IF device = "active"
       THEN creds' = Replace(r.token, "ACTIVE") /\ Issued(r, Len(creds) + 1)
       ELSE creds' = [creds EXCEPT ![r.token].status = "REVOKED"] /\ Refused(r)
    /\ Done(r)
    /\ UNCHANGED <<version, device, bounds>>

\* _mark_credential_reuse: the rows its update found, once they are free, and
\* the device.
CommitReplay(r) ==
    /\ r.pc = "replaying"
    /\ \A q \in requests : q.pc = "rotating" => q.token \notin r.seen
    /\ creds' = [c \in Creds |-> IF c \in r.seen
                    THEN [creds[c] EXCEPT !.status = "REUSE_DETECTED"] ELSE creds[c]]
    /\ device' = "revoked"
    /\ Done(r) /\ Refused(r)
    /\ UNCHANGED <<version, bounds>>

\* _revoke_device_records
RevokeRecords ==
    /\ device = "active" /\ \A c \in Creds : ~Locked(c)
    /\ device' = "revoked"
    /\ creds' = [c \in Creds |-> [creds[c] EXCEPT
                    !.status = IF @ = "REUSE_DETECTED" THEN @ ELSE "REVOKED"]]

\* The logout reaches the server.
Revoke(r) ==
    /\ r.kind = "revoke"
    /\ IF Accepted(r.access) THEN RevokeRecords ELSE UNCHANGED <<device, creds>>
    /\ Done(r) /\ Refused(r)
    /\ UNCHANGED <<version, bounds>>

\* The owner revokes the device from elsewhere.
RevokeElsewhere ==
    /\ Failing /\ RevokeRecords
    /\ UNCHANGED <<version, requests, tokens, app, logins>>

\* replace_password
ChangePassword ==
    /\ version < MaxVersion
    /\ version' = version + 1
    /\ UNCHANGED <<device, creds, requests, tokens, app, bounds>>

-----------------------------------------------------------------------------
Init ==
    /\ version = 0 /\ device = "none" /\ creds = <<>> /\ requests = {}
    /\ access = NoAccess /\ refresh = 0
    /\ session = "anonymous" /\ leaving = FALSE /\ tasks = [t \in Tasks |-> Idle]
    /\ logins = 0 /\ faults = 0

Proceed == \E t \in Tasks : Enroll(t) \/ Restore(t) \/ Store(t) \/ Verify(t)

Handle ==
    \E r \in requests :
        Register(r) \/ Rotate(r) \/ CommitRotation(r) \/ CommitReplay(r) \/ Revoke(r)

User == Logout \/ Retry \/ ChangePassword \/ RevokeElsewhere \/ \E t \in Tasks : Login(t)

Fault == Kill \/ Offline \/ ExpireAccess \/ \E r \in requests : Unanswered(r)

Next == Proceed \/ Handle \/ User \/ Fault \/ ExpireSession \/ \E t \in Tasks : Foreground(t)

Spec == Init /\ [][Next]_vars

\* The app and the server go on; the app comes to the foreground again, and an
\* enrollment that is under way is then left alone.
FairSpec ==
    /\ Spec
    /\ WF_vars(Proceed) /\ WF_vars(Handle) /\ WF_vars(ExpireSession) /\ WF_vars(Retry)
    /\ WF_vars((\A u \in Tasks : tasks[u] = Idle) /\ \E t \in Tasks : Foreground(t))

-----------------------------------------------------------------------------
(* Properties. *)

TypeOK ==
    /\ version \in 0..MaxVersion /\ device \in {"none", "active", "revoked"}
    /\ creds \in Seq(Credential) /\ requests \subseteq Request
    /\ access \in Access /\ refresh \in 0..Len(creds)
    /\ session \in {"loading", "anonymous", "authenticated", "requires_login", "unavailable"}
    /\ leaving \in BOOLEAN /\ tasks \in [Tasks -> Task]
    /\ logins \in 0..MaxLogins /\ faults \in 0..MaxFaults

\* The device has one active credential at most, whatever registrations and
\* rotations, also late ones, happen in whatever order.
OneLiveCredential == \A c, d \in Creds : Live(c) /\ Live(d) => c = d

\* A credential is exchanged once, also when two requests bring it together.
ExchangedOnce ==
    \A c, d \in Creds : creds[c].parent = creds[d].parent /\ creds[c].parent # 0 => c = d

\* The replay detection never turns against a phone that was not interrupted:
\* without a kill or a lost answer no credential is presented twice.
ReplayNeedsFault ==
    (\E c \in Creds : Status(c) = "REUSE_DETECTED") => faults > 0

\* Once the device is revoked no request, however late, issues a credential for
\* it, not even one the family update of a replay has missed.
RevokedForGood ==
    [][device = "revoked" => device' = "revoked" /\ Len(creds') = Len(creds)]_vars

Credentials == INSTANCE DeviceCredentials

\* The transactions of the server are atomic, in every order of the two locks:
\* a rotation exchanges what it found active when it committed, and a replay
\* marks all of the family there was when it looked.
CredentialsSpec == Credentials!Spec

\* A signed-in phone gets a credential for its device, unless that was revoked.
GetsCredential ==
    session = "authenticated" ~>
        refresh # 0 \/ device = "revoked" \/ session # "authenticated"

\* The access token of a restored or enrolled session is accepted while the
\* device is active and the password has not been changed since.
NewTokenAccepted ==
    [][access' # access /\ access'.kind = "bound" /\ device = "active"
        => access'.version = version]_vars
=============================================================================
