------------------------------ MODULE SyncFeed ------------------------------
(***************************************************************************)
(* The sync feed of one owner and the replica one phone keeps of it: the    *)
(* transactions that append changes, the bootstrap, changes and ack         *)
(* endpoints, and the client's sync engine with its SQLite store.           *)
(*                                                                         *)
(* A change gets its cursor, a database identity, when its transaction      *)
(* flushes, and becomes visible when the transaction commits.  No lock      *)
(* orders the transactions of an owner, so a change may become visible      *)
(* after one with a higher cursor; `overtaken' remembers those changes.     *)
(*                                                                         *)
(* A row is represented by its aggregate_version: the content of a version  *)
(* never changes, and 0 is the row that does not exist (for a setting, the  *)
(* default the bootstrap sends as version 0).  No code deletes a tracked    *)
(* row, so every change is an upsert.                                       *)
(*                                                                         *)
(* The client runs one sync at a time (inFlight of installedSync.ts).       *)
(* Between a request and the transaction that applies its answer anything   *)
(* else may happen, including a sign-out that wipes the store.              *)
(***************************************************************************)
EXTENDS Integers, FiniteSets

CONSTANTS
    Aggregates,  \* rows of the owner, in the order of the bootstrap
    Writers,     \* transactions in flight that change rows of the owner
    PageSize,    \* page limit
    MaxCursor,   \* bound on the cursors allocated, hence on the writes
    MaxFaults    \* bound on lost answers, refusals and sign-outs

ASSUME ConstantsAssumption ==
    /\ Aggregates \subseteq Nat \ {0} /\ IsFiniteSet(Aggregates)
    /\ PageSize \in Nat \ {0} /\ MaxCursor \in Nat /\ MaxFaults \in Nat

VARIABLES
    row,        \* aggregate_version of each committed row
    feed,       \* committed sync_changes
    open,       \* changes flushed by each transaction in flight
    last,       \* the last cursor the identity column has given out
    expired,    \* changes up to this cursor are older than the retention
    acked,      \* last_sync_cursor of the device
    store,      \* the client's projections: the version of each row
    local,      \* sync_state and sync_bootstrap_state
    client,     \* the sync run: its local variables
    overtaken,  \* history: changes committed after a higher cursor
    faults      \* how many faults have happened

server == <<row, feed, open, last, expired, overtaken>>
vars == <<server, acked, store, local, client, faults>>

Change == [cursor : Nat, aggregate : Aggregates, version : Nat]

\* No sync_state row: before the first page, and after a sign-out.
NoState == [phase |-> "none", cursor |-> 0, watermark |-> 0, after |-> 0]

Idle == [pc |-> "idle", restart |-> FALSE, resume |-> FALSE, watermark |-> 0,
         after |-> 0, cursor |-> 0, page |-> {}, next |-> 0, more |-> FALSE,
         resets |-> 0]

Empty == [a \in Aggregates |-> 0]

SyncState == [phase : {"none", "bootstrapping", "ready", "error"}, cursor : Nat,
              watermark : Nat, after : Nat]

SyncRun == [pc : {"idle", "watermark", "snapshot", "apply_snapshot", "changes",
                  "apply_changes", "ack"},
            restart : BOOLEAN, resume : BOOLEAN, watermark : Nat, after : Nat,
            cursor : Nat, page : SUBSET Change, next : Nat, more : BOOLEAN,
            resets : {0, 1}]

-----------------------------------------------------------------------------
(* Queries. *)

\* latest_cursor: the maximum over the visible changes, 0 if there are none.
IsLatest(n) == n \in {0} \cup {c.cursor : c \in feed} /\ \A c \in feed : c.cursor <= n

\* ORDER BY ... LIMIT: P is the first page of the numbers S.
FirstPage(S, P) ==
    /\ P \subseteq S
    /\ \A x \in P, y \in S \ P : x < y
    /\ Cardinality(P) <= PageSize
    /\ P # S => Cardinality(P) = PageSize

\* The last number of a page, or n if the page is empty.
LastOf(P, n, l) == IF P = {} THEN l = n ELSE l \in P /\ \A x \in P : x <= l

\* Mutant: a projection takes what arrives last, whatever its version.
MergesAnyVersion(page, from, to) ==
    \A a \in Aggregates :
        LET changes == {c \in page : c.aggregate = a}
        IN IF changes = {} THEN to[a] = from[a]
           ELSE \E c \in changes : /\ to[a] = c.version
                                   /\ \A d \in changes : d.cursor <= c.cursor

\* applyProjection of each item of a page: a row takes a higher version only.
Merges(page, from, to) ==
    \A a \in Aggregates :
        LET versions == {from[a]} \cup {c.version : c \in {d \in page : d.aggregate = a}}
        IN to[a] \in versions /\ \A v \in versions : v <= to[a]

-----------------------------------------------------------------------------
(* The server: transactions that write rows. *)

OwnChanges(w, a) == {c \in open[w] : c.aggregate = a}

\* before_flush: the row's version is bumped and its change inserted.  The row
\* lock, or the unique (aggregate, version), keeps other transactions off it;
\* one that loaded an older version fails and rolls back.
Flush(w, a) ==
    /\ last < MaxCursor
    /\ \A v \in Writers \ {w} : OwnChanges(v, a) = {}
    /\ open' = [open EXCEPT ![w] = @ \cup
            {[cursor |-> last + 1, aggregate |-> a,
              version |-> row[a] + Cardinality(OwnChanges(w, a)) + 1]}]
    /\ last' = last + 1
    /\ UNCHANGED <<row, feed, expired, overtaken, acked, store, local, client, faults>>

Commit(w) ==
    /\ open[w] # {}
    /\ feed' = feed \cup open[w]
    /\ row' = [a \in Aggregates |-> row[a] + Cardinality(OwnChanges(w, a))]
    /\ overtaken' = overtaken \cup {c \in open[w] : \E d \in feed : d.cursor > c.cursor}
    /\ open' = [open EXCEPT ![w] = {}]
    /\ UNCHANGED <<last, expired, acked, store, local, client, faults>>

\* Mutant: the changes of a transaction outlive its rollback.
RollbackKeepsChanges(w) ==
    /\ open[w] # {}
    /\ feed' = feed \cup open[w]
    /\ open' = [open EXCEPT ![w] = {}]
    /\ UNCHANGED <<row, last, expired, overtaken, acked, store, local, client, faults>>

\* The cursors of a transaction that rolls back are never used again.
Rollback(w) ==
    /\ open[w] # {}
    /\ open' = [open EXCEPT ![w] = {}]
    /\ UNCHANGED <<row, feed, last, expired, overtaken, acked, store, local, client, faults>>

\* Time passes: changes up to c leave the retention window, which is days
\* longer than any transaction.
Expire(c) ==
    /\ expired < c.cursor
    /\ \A w \in Writers : \A d \in open[w] : c.cursor < d.cursor
    /\ expired' = c.cursor
    /\ UNCHANGED <<row, feed, open, last, overtaken, acked, store, local, client, faults>>

-----------------------------------------------------------------------------
(* The client: runOwnerSync. *)

StartReady ==
    /\ client.pc = "idle" /\ local.phase = "ready"
    /\ client' = [Idle EXCEPT !.pc = "changes", !.cursor = local.cursor]
    /\ UNCHANGED <<server, acked, store, local, faults>>

\* An interrupted bootstrap continues with the stored page token.
StartResume ==
    /\ client.pc = "idle" /\ local.phase = "bootstrapping"
    /\ client' = [Idle EXCEPT !.pc = "snapshot", !.resume = TRUE, !.after = local.after,
                              !.watermark = local.watermark]
    /\ UNCHANGED <<server, acked, store, local, faults>>

StartFresh ==
    /\ client.pc = "idle" /\ local.phase \in {"none", "error"}
    /\ client' = [Idle EXCEPT !.pc = "watermark", !.restart = TRUE]
    /\ UNCHANGED <<server, acked, store, local, faults>>

\* Mutant: the watermark is the last cursor given out, visible or not.
ReadWatermarkFromSequence ==
    /\ client.pc = "watermark"
    /\ client' = [client EXCEPT !.pc = "snapshot", !.watermark = last]
    /\ UNCHANGED <<server, acked, store, local, faults>>

\* GET /sync/bootstrap without a token: the latest cursor is read first.
ReadWatermark ==
    /\ client.pc = "watermark"
    /\ \E n \in 0..last :
        /\ IsLatest(n)
        /\ client' = [client EXCEPT !.pc = "snapshot", !.watermark = n]
    /\ UNCHANGED <<server, acked, store, local, faults>>

\* The rows of a page as they are now; the token carries the watermark and
\* the last row.
ReadSnapshot ==
    /\ client.pc = "snapshot"
    /\ LET rows == {a \in Aggregates : row[a] > 0 /\ a > client.after}
       IN \E P \in SUBSET rows, l \in rows \cup {client.after} :
            /\ FirstPage(rows, P) /\ LastOf(P, client.after, l)
            /\ client' = [client EXCEPT !.pc = "apply_snapshot", !.next = l,
                    !.more = (P # rows),
                    !.page = {[cursor |-> 0, aggregate |-> a, version |-> row[a]] : a \in P}]
    /\ UNCHANGED <<server, acked, store, local, faults>>

\* 422: the token is too old.  A resumed bootstrap begins again, any other
\* run gives up.
TokenRefused ==
    /\ faults < MaxFaults /\ faults' = faults + 1
    /\ client.pc = "snapshot" /\ client.after # 0
    /\ client' = IF client.resume
                 THEN [Idle EXCEPT !.pc = "watermark", !.restart = TRUE]
                 ELSE Idle
    /\ UNCHANGED <<server, acked, store, local>>

\* applyBootstrapPage does not find the bootstrap it continues.
SnapshotConflicts ==
    ~client.restart /\ (local.phase # "bootstrapping" \/ local.watermark # client.watermark)

\* applyBootstrapPage: one SQLite transaction.
ApplySnapshot ==
    /\ client.pc = "apply_snapshot" /\ ~SnapshotConflicts
    /\ store' \in [Aggregates -> 0..MaxCursor]
    /\ Merges(client.page, IF client.restart THEN Empty ELSE store, store')
    /\ IF client.more
       THEN /\ local' = [phase |-> "bootstrapping", cursor |-> 0,
                         watermark |-> client.watermark, after |-> client.next]
            /\ client' = [client EXCEPT !.pc = "snapshot", !.restart = FALSE,
                                        !.after = client.next, !.page = {}]
       ELSE /\ local' = [NoState EXCEPT !.phase = "ready", !.cursor = client.watermark]
            /\ client' = [Idle EXCEPT !.pc = "changes", !.cursor = client.watermark,
                                      !.resets = client.resets]
    /\ UNCHANGED <<server, acked, faults>>

\* Mutant: a cursor at the edge of the retention window is refused, too.
MustResetAtEdge(latest) == client.cursor > latest \/ client.cursor <= expired

MustReset(latest) == client.cursor > latest \/ client.cursor < expired

\* Mutant: a run resets as often as it is told to.
ReadChangesResetsAgain ==
    /\ client.pc = "changes"
    /\ \E latest \in 0..last :
        /\ IsLatest(latest)
        /\ \/ /\ MustReset(latest)
              /\ client' = [Idle EXCEPT !.pc = "watermark", !.restart = TRUE,
                                        !.resets = client.resets + 1]
           \/ /\ ~MustReset(latest)
              /\ LET cursors == {c.cursor : c \in {d \in feed : d.cursor > client.cursor
                                                                 /\ d.cursor > expired}}
                 IN \E P \in SUBSET cursors, l \in cursors \cup {client.cursor} :
                      /\ FirstPage(cursors, P) /\ LastOf(P, client.cursor, l)
                      /\ client' = [client EXCEPT !.pc = "apply_changes", !.next = l,
                              !.more = (P # cursors), !.page = {c \in feed : c.cursor \in P}]
    /\ UNCHANGED <<server, acked, store, local, faults>>

\* GET /sync/changes.
ReadChanges ==
    /\ client.pc = "changes"
    /\ \E latest \in 0..last :
        /\ IsLatest(latest)
        /\ \/ /\ MustReset(latest)
              /\ client' = IF client.resets = 0
                           THEN [Idle EXCEPT !.pc = "watermark", !.restart = TRUE, !.resets = 1]
                           ELSE Idle
           \/ /\ ~MustReset(latest)
              /\ LET cursors == {c.cursor : c \in {d \in feed : d.cursor > client.cursor
                                                                 /\ d.cursor > expired}}
                 IN \E P \in SUBSET cursors, l \in cursors \cup {client.cursor} :
                      /\ FirstPage(cursors, P) /\ LastOf(P, client.cursor, l)
                      /\ client' = [client EXCEPT !.pc = "apply_changes", !.next = l,
                              !.more = (P # cursors), !.page = {c \in feed : c.cursor \in P}]
    /\ UNCHANGED <<server, acked, store, local, faults>>

\* applyChangePage finds a store that is not ready, or not where it was.
ChangesConflict ==
    \/ local.phase # "ready"
    \/ local.cursor # client.cursor /\ local.cursor < client.next

\* applyChangePage: inbox, projections and cursor in one SQLite transaction.
\* The inbox only detects a change that arrives twice with other content.
ApplyChanges ==
    /\ client.pc = "apply_changes" /\ ~ChangesConflict
    /\ IF local.cursor = client.cursor
       THEN /\ store' \in [Aggregates -> 0..MaxCursor] /\ Merges(client.page, store, store')
            /\ local' = [local EXCEPT !.cursor = client.next]
       ELSE UNCHANGED <<store, local>>
    /\ client' = [client EXCEPT !.pc = IF client.more THEN "changes" ELSE "ack",
                                !.cursor = client.next, !.page = {}]
    /\ UNCHANGED <<server, acked, faults>>

\* An error of the store ends the run; a sync_state row is marked.
Reject ==
    /\ client' = Idle
    /\ local' = IF local.phase = "none" THEN local ELSE [local EXCEPT !.phase = "error"]

\* The page does not fit what a sign-out has left.
RejectConflict ==
    /\ \/ client.pc = "apply_snapshot" /\ SnapshotConflicts
       \/ client.pc = "apply_changes" /\ ChangesConflict
    /\ Reject
    /\ UNCHANGED <<server, acked, store, faults>>

\* The page holds something this version of the app does not support.
RejectContent ==
    /\ faults < MaxFaults /\ faults' = faults + 1
    /\ client.pc \in {"apply_snapshot", "apply_changes"} /\ client.page # {}
    /\ Reject
    /\ UNCHANGED <<server, acked, store>>

\* Mutant: the head of the stream is acknowledged, applied or not.
AcknowledgeHead ==
    /\ client.pc = "ack"
    /\ \E latest \in 0..last : IsLatest(latest) /\ acked' = latest
    /\ client' = Idle
    /\ UNCHANGED <<server, store, local, faults>>

\* POST /sync/ack, refused beyond the head of the stream.
Acknowledge ==
    /\ client.pc = "ack"
    /\ \E latest \in 0..last :
        /\ IsLatest(latest)
        /\ acked' = IF acked < client.cursor /\ client.cursor <= latest
                    THEN client.cursor ELSE acked
    /\ client' = Idle
    /\ UNCHANGED <<server, store, local, faults>>

\* An answer is lost, the run is aborted, or the app is killed.
Drop ==
    /\ faults < MaxFaults /\ faults' = faults + 1
    /\ client.pc # "idle"
    /\ client' = Idle
    /\ UNCHANGED <<server, acked, store, local>>

\* Mutant: a sign-out wipes the projections and leaves the sync_state row.
SignOutKeepsState ==
    /\ faults < MaxFaults /\ faults' = faults + 1
    /\ local.phase # "none"
    /\ store' = Empty
    /\ UNCHANGED <<server, acked, local, client>>

\* clearLocalUserData: sign-out wipes the owner's store.  A run without abort
\* signal goes on; the owner may sign in again.
SignOut ==
    /\ faults < MaxFaults /\ faults' = faults + 1
    /\ local.phase # "none"
    /\ store' = Empty /\ local' = NoState
    /\ UNCHANGED <<server, acked, client>>

-----------------------------------------------------------------------------
Init ==
    /\ row = Empty /\ feed = {} /\ open = [w \in Writers |-> {}]
    /\ last = 0 /\ expired = 0 /\ acked = 0 /\ overtaken = {}
    /\ store = Empty /\ local = NoState /\ client = Idle /\ faults = 0

Write == \E w \in Writers : (\E a \in Aggregates : Flush(w, a)) \/ Commit(w) \/ Rollback(w)

Start == StartReady \/ StartResume \/ StartFresh

Proceed ==
    \/ ReadWatermark \/ ReadSnapshot \/ ApplySnapshot
    \/ ReadChanges \/ ApplyChanges \/ RejectConflict \/ Acknowledge

Fault == TokenRefused \/ RejectContent \/ Drop \/ SignOut

Next == Write \/ (\E c \in feed : Expire(c)) \/ Start \/ Proceed \/ Fault

Spec == Init /\ [][Next]_vars

\* Transactions end; the app syncs whenever it comes to the foreground, gets a
\* hint or finds the network again; requests are answered.
FairSpec ==
    /\ Spec
    /\ \A w \in Writers : WF_vars(Commit(w) \/ Rollback(w))
    /\ WF_vars(Start) /\ WF_vars(Proceed)

-----------------------------------------------------------------------------
(* Properties. *)

\* Every variable holds values of its type.
TypeOK ==
    /\ row \in [Aggregates -> Nat] /\ store \in [Aggregates -> Nat]
    /\ feed \subseteq Change /\ overtaken \subseteq feed
    /\ open \in [Writers -> SUBSET Change]
    /\ last \in 0..MaxCursor /\ expired \in Nat /\ acked \in Nat /\ faults \in 0..MaxFaults
    /\ local \in SyncState /\ client \in SyncRun

Covered(c) == store[c.aggregate] >= c.version

\* A ready store has, for every visible change up to its cursor, that version
\* of the row or a later one, unless the change was overtaken: pages, resets,
\* resumed bootstraps and sign-outs lose nothing else.
OnlyOvertakenMissed ==
    local.phase = "ready" =>
        \A c \in feed \ overtaken : c.cursor <= local.cursor => Covered(c)

\* What the plan says of the watermark: the changes after it complete what was
\* written meanwhile, so a ready store lacks nothing up to its cursor.
StoreCoversCursor ==
    local.phase = "ready" => \A c \in feed : c.cursor <= local.cursor => Covered(c)

\* While a store stays readable its rows and its cursor never go back, although
\* changes the bootstrap has already covered are replayed.
VisibleNeverGoesBack ==
    [][local.phase = "ready" /\ local'.phase = "ready" =>
        /\ local'.cursor >= local.cursor
        /\ \A a \in Aggregates : store'[a] >= store[a]]_vars

\* The device is never recorded as further than the store it has: a reset
\* brings the store at least to what was acknowledged before.
AckedIsDurable == local.phase = "ready" => acked <= local.cursor

\* The store shows committed versions only, and an answer under way does not
\* know more than the server.
NothingInvented ==
    /\ \A a \in Aggregates : store[a] <= row[a]
    /\ \A c \in client.page : c.version <= row[c.aggregate]

\* The whole feed, seen through its rows and the readable store, is the
\* replica the outbox and the screens rely on.
Replica == INSTANCE SyncReplica WITH Versions <- Nat, ready <- (local.phase = "ready")

\* Every step of a transaction, the engine, the store or a fault is a write, a
\* fill or a loss of that replica, or leaves it alone.
ReplicaSpec == Replica!Spec

\* Once writes and faults end, the client reaches the head of the stream and
\* stays: no refused token, reset or leftover state keeps it away for ever.
CatchesUp == <>[](local.phase = "ready" /\ IsLatest(local.cursor))
=============================================================================
