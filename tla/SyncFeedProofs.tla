--------------------------- MODULE SyncFeedProofs ---------------------------
(***************************************************************************)
(* What is proved of SyncFeed, for any rows, transactions, page size and    *)
(* bounds: a readable store lacks overtaken changes only, never goes back,  *)
(* and is never behind what the device acknowledged.                        *)
(***************************************************************************)
EXTENDS SyncFeed, FiniteSetTheorems, TLAPS

\* A cursor the client can have: 0 or that of a visible change.
Visible(n) == n = 0 \/ \E d \in feed : d.cursor = n

\* The changes a reader at cursor n should have seen.
Due(n) == {c \in feed \ overtaken : c.cursor <= n}

\* Cursors are given out once, and versions of a row in flight follow the
\* committed one.
FeedInv ==
    /\ \A w \in Writers : IsFiniteSet(open[w])
    /\ \A c \in feed : c.cursor \in 1..last /\ c.version \in 1..row[c.aggregate]
    /\ \A w \in Writers : \A c \in open[w] :
          c.cursor \in 1..last /\ c.version >= 1
          /\ c.version <= row[c.aggregate] + Cardinality(OwnChanges(w, c.aggregate))
    /\ \A w \in Writers : \A c \in open[w] : \A d \in feed : c.cursor # d.cursor
    /\ \A v, w \in Writers : v # w =>
          \A c \in open[v] : \A d \in open[w] : c.cursor # d.cursor

\* What was acknowledged is not beyond the head of the stream.
AckInv == acked = 0 \/ \E d \in feed : d.cursor >= acked

\* The store covers what lies behind its cursor, or behind the watermark and
\* the last row of the pages it has so far.
StoreInv ==
    /\ local.phase = "ready" =>
          /\ Visible(local.cursor) /\ acked <= local.cursor
          /\ \A c \in Due(local.cursor) : Covered(c)
    /\ local.phase = "bootstrapping" =>
          /\ Visible(local.watermark) /\ acked <= local.watermark
          /\ \A c \in Due(local.watermark) : c.aggregate <= local.after => Covered(c)

\* The rows a page of the bootstrap accounts for.
InPage(a) == ~client.more \/ a <= client.next

SnapshotInv ==
    /\ client.pc = "watermark" => client.restart /\ client.after = 0
    /\ client.pc \in {"snapshot", "apply_snapshot"} =>
          /\ Visible(client.watermark) /\ acked <= client.watermark
          /\ client.restart => client.after = 0
          /\ local.phase = "ready" => client.restart /\ local.cursor <= client.watermark
          /\ local.phase = "bootstrapping" /\ ~client.restart => local.after = client.after
    /\ client.pc = "apply_snapshot" =>
          /\ \A c \in Due(client.watermark) : c.aggregate > client.after /\ InPage(c.aggregate) =>
                \E p \in client.page : p.aggregate = c.aggregate /\ p.version >= c.version
          /\ client.restart => \A a \in Aggregates : InPage(a) /\ store[a] > 0 =>
                \E p \in client.page : p.aggregate = a /\ p.version >= store[a]

ChangesInv ==
    /\ client.pc \in {"changes", "apply_changes", "ack"} =>
          local.phase \in {"ready", "none"} /\ Visible(client.cursor)
    /\ client.pc = "apply_changes" =>
          /\ Visible(client.next) /\ client.cursor <= client.next
          /\ \A c \in Due(client.next) : c.cursor > client.cursor => c \in client.page
    /\ client.pc = "ack" /\ local.phase = "ready" => client.cursor <= local.cursor

IInv ==
    /\ TypeOK /\ FeedInv /\ NothingInvented /\ AckInv
    /\ StoreInv /\ SnapshotInv /\ ChangesInv

-----------------------------------------------------------------------------
LEMMA InitIInv == Init => IInv
<1> SUFFICES ASSUME Init PROVE IInv
  OBVIOUS
<1> USE ConstantsAssumption DEF Init, Empty, NoState, Idle
<1>1. TypeOK
  BY DEF TypeOK, Change, SyncRun, SyncState
<1>2. FeedInv
  BY FS_EmptySet DEF FeedInv, OwnChanges
<1>3. NothingInvented /\ AckInv
  BY DEF NothingInvented, AckInv
<1>4. StoreInv /\ SnapshotInv /\ ChangesInv
  BY DEF StoreInv, SnapshotInv, ChangesInv
<1> QED
  BY <1>1, <1>2, <1>3, <1>4 DEF IInv

-----------------------------------------------------------------------------
(* Types. *)

LEMMA FlushTypes == ASSUME IInv, NEW w \in Writers, NEW a \in Aggregates, Flush(w, a)
                    PROVE  TypeOK'
<1> USE DEF IInv
<1>1. OwnChanges(w, a) \subseteq open[w] /\ IsFiniteSet(open[w])
  BY DEF FeedInv, OwnChanges
<1>2. Cardinality(OwnChanges(w, a)) \in Nat
  BY <1>1, FS_Subset, FS_CardinalityType
<1>3. [cursor |-> last + 1, aggregate |-> a,
       version |-> row[a] + Cardinality(OwnChanges(w, a)) + 1] \in Change
  BY <1>2 DEF TypeOK, Change
<1>4. open' \in [Writers -> SUBSET Change]
  BY <1>3 DEF TypeOK, Flush
<1>5. last' \in 0..MaxCursor
  BY ConstantsAssumption DEF TypeOK, Flush
<1> QED
  BY <1>4, <1>5 DEF TypeOK, Flush

LEMMA CommitTypes == ASSUME IInv, NEW w \in Writers, Commit(w) PROVE TypeOK'
<1> USE DEF IInv
<1>1. \A a \in Aggregates : Cardinality(OwnChanges(w, a)) \in Nat
  <2> TAKE a \in Aggregates
  <2>1. OwnChanges(w, a) \subseteq open[w] /\ IsFiniteSet(open[w])
    BY DEF FeedInv, OwnChanges
  <2> QED
    BY <2>1, FS_Subset, FS_CardinalityType
<1>2. row' \in [Aggregates -> Nat]
  BY <1>1 DEF TypeOK, Commit
<1>3. feed' \subseteq Change /\ overtaken' \subseteq feed'
  BY DEF TypeOK, Commit
<1>4. open' \in [Writers -> SUBSET Change]
  BY DEF TypeOK, Commit
<1> QED
  BY <1>2, <1>3, <1>4 DEF TypeOK, Commit

LEMMA LastOfType == ASSUME NEW S, S \subseteq Nat, NEW n \in Nat, NEW P, P \subseteq S,
                           NEW l, LastOf(P, n, l)
                    PROVE  l \in Nat
BY DEF LastOf

LEMMA ClientTypes == ASSUME TypeOK, Start \/ Proceed \/ Fault PROVE TypeOK'
<1>1. /\ client \in SyncRun /\ local \in SyncState /\ last \in Nat /\ acked \in Nat
      /\ store \in [Aggregates -> Nat] /\ row \in [Aggregates -> Nat] /\ feed \subseteq Change
      /\ faults \in 0..MaxFaults /\ MaxFaults \in Nat /\ Aggregates \subseteq Nat
  BY ConstantsAssumption DEF TypeOK
<1>2. UNCHANGED server
  BY DEF Start, Proceed, Fault, StartReady, StartResume, StartFresh, ReadWatermark,
         ReadSnapshot, ApplySnapshot, ReadChanges, ApplyChanges, RejectConflict, Acknowledge,
         TokenRefused, RejectContent, Drop, SignOut
<1>3. SUFFICES /\ client' \in SyncRun /\ local' \in SyncState /\ acked' \in Nat
               /\ store' \in [Aggregates -> Nat] /\ faults' \in 0..MaxFaults
  BY <1>2 DEF TypeOK, server
<1>4. Idle \in SyncRun /\ NoState \in SyncState
  BY DEF Idle, NoState, SyncRun, SyncState
<1>5. [Idle EXCEPT !.pc = "watermark", !.restart = TRUE] \in SyncRun
  BY DEF Idle, SyncRun
<1>6. CASE Start
  <2>1. local.cursor \in Nat /\ local.after \in Nat /\ local.watermark \in Nat
    BY <1>1 DEF SyncState
  <2>2. \A n \in Nat : [Idle EXCEPT !.pc = "changes", !.cursor = n] \in SyncRun
    BY DEF Idle, SyncRun
  <2>3. \A n, m \in Nat : [Idle EXCEPT !.pc = "snapshot", !.resume = TRUE, !.after = n,
                                       !.watermark = m] \in SyncRun
    BY DEF Idle, SyncRun
  <2>4. client' \in SyncRun
    BY <1>5, <1>6, <2>1, <2>2, <2>3 DEF Start, StartReady, StartResume, StartFresh
  <2> QED
    BY <1>1, <1>6, <2>4 DEF Start, StartReady, StartResume, StartFresh
<1>7. CASE ReadWatermark
  <2>1. PICK n \in 0..last : client' = [client EXCEPT !.pc = "snapshot", !.watermark = n]
    BY <1>7 DEF ReadWatermark
  <2>2. n \in Nat
    BY <1>1
  <2>3. client' \in SyncRun
    BY <1>1, <2>1, <2>2 DEF SyncRun
  <2> QED
    BY <1>1, <1>7, <2>3 DEF ReadWatermark
<1>8. CASE ReadSnapshot
  <2> DEFINE rows == {a \in Aggregates : row[a] > 0 /\ a > client.after}
             items(P) == {[cursor |-> 0, aggregate |-> a, version |-> row[a]] : a \in P}
  <2>1. PICK P \in SUBSET rows, l \in rows \cup {client.after} :
           client' = [client EXCEPT !.pc = "apply_snapshot", !.next = l,
                    !.more = (P # rows), !.page = items(P)]
    BY <1>8 DEF ReadSnapshot
  <2>2. items(P) \in SUBSET Change
    BY <1>1, <2>1 DEF Change
  <2>3. l \in Nat /\ (P # rows) \in BOOLEAN
    BY <1>1, <2>1 DEF SyncRun
  <2> HIDE DEF items, rows
  <2>4. client' \in SyncRun
    BY <1>1, <2>1, <2>2, <2>3 DEF SyncRun
  <2> QED
    BY <1>1, <1>8, <2>4 DEF ReadSnapshot
<1>9. CASE ApplySnapshot
  <2> DEFINE going == [client EXCEPT !.pc = "snapshot", !.restart = FALSE,
                                      !.after = client.next, !.page = {}]
             done == [Idle EXCEPT !.pc = "changes", !.cursor = client.watermark,
                                  !.resets = client.resets]
  <2>0. client.next \in Nat /\ client.watermark \in Nat /\ client.resets \in {0, 1}
    BY <1>1 DEF SyncRun
  <2>4. going \in SyncRun
    BY <1>1, <2>0 DEF SyncRun
  <2>5. done \in SyncRun
    BY <2>0 DEF Idle, SyncRun
  <2>1. client' \in SyncRun
    BY <1>9, <2>4, <2>5 DEF ApplySnapshot
  <2>6. /\ [phase |-> "bootstrapping", cursor |-> 0, watermark |-> client.watermark,
            after |-> client.next] \in SyncState
        /\ [NoState EXCEPT !.phase = "ready", !.cursor = client.watermark] \in SyncState
    BY <2>0 DEF SyncState, NoState
  <2>2. local' \in SyncState
    BY <1>9, <2>6 DEF ApplySnapshot
  <2>3. store' \in [Aggregates -> Nat]
    BY <1>9 DEF ApplySnapshot
  <2> QED
    BY <1>1, <1>9, <2>1, <2>2, <2>3 DEF ApplySnapshot
<1>10. CASE ReadChanges
  <2>1. ASSUME NEW P, NEW l \in Nat, NEW m \in BOOLEAN
        PROVE  [client EXCEPT !.pc = "apply_changes", !.next = l, !.more = m,
                              !.page = {c \in feed : c.cursor \in P}] \in SyncRun
    <3>1. {c \in feed : c.cursor \in P} \in SUBSET Change
      BY <1>1
    <3> QED
      BY <1>1, <3>1 DEF SyncRun
  <2>2. [Idle EXCEPT !.pc = "watermark", !.restart = TRUE, !.resets = 1] \in SyncRun
    BY DEF Idle, SyncRun
  <2>3. ASSUME NEW l \in {c.cursor : c \in {d \in feed : d.cursor > client.cursor
                                                 /\ d.cursor > expired}} \cup {client.cursor}
        PROVE  l \in Nat
    BY <1>1 DEF Change, SyncRun
  <2> DEFINE cursors == {c.cursor : c \in {d \in feed : d.cursor > client.cursor
                                                        /\ d.cursor > expired}}
  <2>4. client' \in SyncRun
    <3>1. CASE client' = Idle \/ client' = [Idle EXCEPT !.pc = "watermark", !.restart = TRUE,
                                                       !.resets = 1]
      BY <1>4, <2>2, <3>1
    <3>2. CASE \E P \in SUBSET cursors, l \in cursors \cup {client.cursor} :
                 client' = [client EXCEPT !.pc = "apply_changes", !.next = l,
                                !.more = (P # cursors), !.page = {c \in feed : c.cursor \in P}]
      <4>1. PICK P \in SUBSET cursors, l \in cursors \cup {client.cursor} :
                 client' = [client EXCEPT !.pc = "apply_changes", !.next = l,
                                !.more = (P # cursors), !.page = {c \in feed : c.cursor \in P}]
        BY <3>2
      <4>2. l \in Nat
        BY <2>3
      <4>3. PICK m \in BOOLEAN : m = (P # cursors)
        OBVIOUS
      <4> HIDE DEF cursors
      <4> QED
        BY <2>1, <4>1, <4>2, <4>3
    <3> QED
      BY <1>10, <3>1, <3>2 DEF ReadChanges
  <2> QED
    BY <1>1, <1>10, <2>4 DEF ReadChanges
<1>11. CASE ApplyChanges
  <2>1. client' \in SyncRun
    BY <1>1, <1>11 DEF ApplyChanges, SyncRun
  <2>2. local' \in SyncState
    BY <1>1, <1>11 DEF ApplyChanges, SyncRun, SyncState
  <2>3. store' \in [Aggregates -> Nat]
    BY <1>1, <1>11 DEF ApplyChanges
  <2> QED
    BY <1>1, <1>11, <2>1, <2>2, <2>3 DEF ApplyChanges
<1>12. CASE RejectConflict \/ RejectContent
  <2>1. local' \in SyncState
    BY <1>1, <1>12 DEF RejectConflict, RejectContent, Reject, SyncState
  <2> QED
    BY <1>1, <1>4, <1>12, <2>1 DEF RejectConflict, RejectContent, Reject
<1>13. CASE Acknowledge
  BY <1>1, <1>4, <1>13 DEF Acknowledge, SyncRun
<1>14. CASE TokenRefused \/ Drop
  BY <1>1, <1>4, <1>5, <1>14 DEF TokenRefused, Drop
<1>15. CASE SignOut
  BY <1>1, <1>4, <1>15 DEF SignOut, Empty
<1> QED
  BY <1>6, <1>7, <1>8, <1>9, <1>10, <1>11, <1>12, <1>13, <1>14, <1>15 DEF Proceed, Fault

-----------------------------------------------------------------------------
(* Transactions of the server. *)

\* A page, a cursor or a watermark stays right while transactions come and go:
\* a change that appears behind a visible cursor is overtaken.
LEMMA ServerKeeps ==
    ASSUME IInv, UNCHANGED <<acked, store, local, client>>, feed \subseteq feed',
           \A a \in Aggregates : row'[a] >= row[a], row' \in [Aggregates -> Nat],
           \A n \in Nat : Visible(n) => Due(n)' \subseteq Due(n)
    PROVE  NothingInvented' /\ AckInv' /\ StoreInv' /\ SnapshotInv' /\ ChangesInv'
<1>1. /\ TypeOK /\ client \in SyncRun /\ local \in SyncState /\ row \in [Aggregates -> Nat]
      /\ store \in [Aggregates -> Nat] /\ feed \subseteq Change /\ client.page \subseteq Change
  BY DEF IInv, TypeOK, SyncRun
<1>2. \A n \in Nat : Visible(n) => Visible(n)'
  BY DEF Visible
<1>3. \A n \in Nat : Visible(n) => \A c \in Due(n)' : c \in Due(n)
  OBVIOUS
<1>4. /\ client.cursor \in Nat /\ client.watermark \in Nat /\ client.next \in Nat
      /\ local.cursor \in Nat /\ local.watermark \in Nat
  BY <1>1 DEF SyncRun, SyncState
<1>5. NothingInvented'
  <2>1. \A a \in Aggregates : row[a] \in Nat /\ row'[a] \in Nat /\ store[a] \in Nat
    BY <1>1
  <2>2. \A c \in client.page : c.aggregate \in Aggregates /\ c.version \in Nat
    BY <1>1 DEF Change
  <2> QED
    BY <2>1, <2>2 DEF IInv, NothingInvented
<1>6. AckInv'
  BY DEF IInv, AckInv
<1>7. StoreInv'
  <2>1. ASSUME local.phase = "ready"
        PROVE  Visible(local.cursor)' /\ \A c \in Due(local.cursor)' : Covered(c)'
    BY <1>2, <1>3, <1>4, <2>1 DEF IInv, StoreInv, Covered
  <2>2. ASSUME local.phase = "bootstrapping"
        PROVE  /\ Visible(local.watermark)'
               /\ \A c \in Due(local.watermark)' : c.aggregate <= local.after => Covered(c)'
    BY <1>2, <1>3, <1>4, <2>2 DEF IInv, StoreInv, Covered
  <2> QED
    BY <2>1, <2>2 DEF IInv, StoreInv
<1>8. SnapshotInv'
  <2>1. ASSUME client.pc \in {"snapshot", "apply_snapshot"} PROVE Visible(client.watermark)'
    BY <1>2, <1>4, <2>1 DEF IInv, SnapshotInv
  <2>2. ASSUME client.pc = "apply_snapshot"
        PROVE  \A c \in Due(client.watermark)' :
                  c.aggregate > client.after /\ InPage(c.aggregate) =>
                    \E p \in client.page : p.aggregate = c.aggregate /\ p.version >= c.version
    BY <1>3, <1>4, <2>2 DEF IInv, SnapshotInv, InPage
  <2> QED
    BY <2>1, <2>2 DEF IInv, SnapshotInv, InPage
<1>9. ChangesInv'
  <2>1. ASSUME client.pc \in {"changes", "apply_changes", "ack"} PROVE Visible(client.cursor)'
    BY <1>2, <1>4, <2>1 DEF IInv, ChangesInv
  <2>2. ASSUME client.pc = "apply_changes"
        PROVE  /\ Visible(client.next)'
               /\ \A c \in Due(client.next)' : c.cursor > client.cursor => c \in client.page
    BY <1>2, <1>3, <1>4, <2>2 DEF IInv, ChangesInv
  <2> QED
    BY <2>1, <2>2 DEF IInv, ChangesInv
<1> QED
  BY <1>5, <1>6, <1>7, <1>8, <1>9

LEMMA FlushIInv == ASSUME IInv, NEW w \in Writers, NEW a \in Aggregates, Flush(w, a)
                   PROVE  IInv'
<1> DEFINE own == OwnChanges(w, a)
           new == [cursor |-> last + 1, aggregate |-> a, version |-> row[a] + Cardinality(own) + 1]
<1>1. TypeOK /\ FeedInv /\ row[a] \in Nat /\ last \in Nat /\ open \in [Writers -> SUBSET Change]
      /\ feed \subseteq Change
  BY ConstantsAssumption DEF IInv, TypeOK
<1>2. /\ open' = [open EXCEPT ![w] = @ \cup {new}] /\ last' = last + 1
      /\ UNCHANGED <<row, feed, overtaken, acked, store, local, client>>
  BY DEF Flush
<1>3. IsFiniteSet(open[w]) /\ own \subseteq open[w]
  BY <1>1 DEF FeedInv, OwnChanges
<1>4. IsFiniteSet(own) /\ Cardinality(own) \in Nat
  BY <1>3, FS_Subset, FS_CardinalityType
<1>5. new \notin open[w] /\ new \notin own
  BY <1>1, <1>3 DEF FeedInv
<1>6. open'[w] = open[w] \cup {new} /\ \A v \in Writers \ {w} : open'[v] = open[v]
  BY <1>1, <1>2
<1>7. new.aggregate = a /\ IsFiniteSet(open'[w])
  <2>1. new.aggregate = a
    OBVIOUS
  <2> HIDE DEF new
  <2> QED
    BY <1>3, <1>6, <2>1, FS_AddElement
<1>8. OwnChanges(w, a)' = own \cup {new}
  <2> HIDE DEF new
  <2> QED
    BY <1>6, <1>7 DEF OwnChanges
<1>9. Cardinality(OwnChanges(w, a)') = Cardinality(own) + 1
  BY <1>4, <1>5, <1>8, FS_AddElement
<1>10. \A v \in Writers, b \in Aggregates : v # w \/ b # a =>
          OwnChanges(v, b)' = OwnChanges(v, b)
  <2> HIDE DEF new
  <2> QED
    BY <1>6, <1>7 DEF OwnChanges
<1> HIDE DEF own
<1>11. ASSUME NEW v \in Writers, NEW c \in open'[v]
       PROVE  /\ c.cursor \in 1..last' /\ c.version >= 1
              /\ c.version <= row'[c.aggregate] + Cardinality(OwnChanges(v, c.aggregate)')
  <2>1. CASE v = w /\ c = new
    BY <1>1, <1>2, <1>4, <1>9, <2>1
  <2>2. CASE c \in open[v]
    <3>1. /\ c.cursor \in 1..last /\ c.version >= 1 /\ c.aggregate \in Aggregates
          /\ c.version \in Nat
          /\ c.version <= row[c.aggregate] + Cardinality(OwnChanges(v, c.aggregate))
      BY <1>1, <2>2 DEF FeedInv, Change
    <3>2. row[c.aggregate] \in Nat
      BY <1>1, <3>1 DEF TypeOK
    <3>3. CASE v = w /\ c.aggregate = a
      BY <1>1, <1>2, <1>4, <1>9, <3>1, <3>2, <3>3 DEF own
    <3>4. CASE v # w \/ c.aggregate # a
      BY <1>1, <1>2, <1>10, <3>1, <3>4
    <3> QED
      BY <3>3, <3>4
  <2> QED
    BY <1>6, <2>1, <2>2
<1>12. FeedInv'
  <2>1. \A v \in Writers : IsFiniteSet(open'[v])
    BY <1>1, <1>6, <1>7 DEF FeedInv
  <2>2. \A c \in feed : c.cursor \in 1..last' /\ c.version \in 1..row[c.aggregate]
    BY <1>1, <1>2 DEF FeedInv
  <2>3. \A v \in Writers : \A c \in open'[v] : \A d \in feed : c.cursor # d.cursor
    BY <1>1, <1>6 DEF FeedInv
  <2>4. \A u, v \in Writers : u # v =>
          \A c \in open'[u] : \A d \in open'[v] : c.cursor # d.cursor
    BY <1>1, <1>6 DEF FeedInv
  <2> QED
    BY <1>2, <1>11, <2>1, <2>2, <2>3, <2>4 DEF FeedInv
<1>13. NothingInvented' /\ AckInv' /\ StoreInv' /\ SnapshotInv' /\ ChangesInv'
  <2>1. \A n \in Nat : Due(n)' \subseteq Due(n)
    BY <1>2 DEF Due
  <2>2. row \in [Aggregates -> Nat] /\ \A b \in Aggregates : row'[b] >= row[b]
    BY <1>1, <1>2 DEF TypeOK
  <2> QED
    BY <1>2, <2>1, <2>2, ServerKeeps
<1> QED
  BY <1>12, <1>13, FlushTypes DEF IInv

LEMMA CommitIInv == ASSUME IInv, NEW w \in Writers, Commit(w) PROVE IInv'
<1>1. TypeOK /\ FeedInv /\ row \in [Aggregates -> Nat] /\ open \in [Writers -> SUBSET Change]
      /\ feed \subseteq Change
  BY DEF IInv, TypeOK
<1>2. \A a \in Aggregates : Cardinality(OwnChanges(w, a)) \in Nat
  <2> TAKE a \in Aggregates
  <2>1. OwnChanges(w, a) \subseteq open[w] /\ IsFiniteSet(open[w])
    BY <1>1 DEF FeedInv, OwnChanges
  <2> QED
    BY <2>1, FS_Subset, FS_CardinalityType
<1>3. /\ feed' = feed \cup open[w]
      /\ \A a \in Aggregates : row'[a] = row[a] + Cardinality(OwnChanges(w, a))
      /\ overtaken' = overtaken \cup {c \in open[w] : \E d \in feed : d.cursor > c.cursor}
      /\ open'[w] = {} /\ \A v \in Writers \ {w} : open'[v] = open[v]
      /\ UNCHANGED <<last, acked, store, local, client>>
  BY <1>1 DEF Commit
<1>4. \A a \in Aggregates : row[a] \in Nat /\ row'[a] \in Nat /\ row'[a] >= row[a]
  BY <1>1, <1>2, <1>3
<1>5. FeedInv'
  <2>1. \A v \in Writers : IsFiniteSet(open'[v])
    BY <1>1, <1>3, FS_EmptySet DEF FeedInv
  <2>2. ASSUME NEW c \in feed' PROVE c.cursor \in 1..last' /\ c.version \in 1..row'[c.aggregate]
    <3>1. c.aggregate \in Aggregates /\ c.version \in Nat
      BY <1>1, <1>3 DEF Change
    <3>2. CASE c \in feed
      BY <1>1, <1>3, <1>4, <3>1, <3>2 DEF FeedInv
    <3>3. CASE c \in open[w]
      BY <1>1, <1>3, <1>4, <3>1, <3>3 DEF FeedInv
    <3> QED
      BY <1>3, <3>2, <3>3
  <2>3. ASSUME NEW v \in Writers, NEW c \in open'[v]
        PROVE  /\ c.cursor \in 1..last' /\ c.version >= 1
               /\ c.version <= row'[c.aggregate] + Cardinality(OwnChanges(v, c.aggregate)')
    <3>1. v # w /\ c \in open[v] /\ c.aggregate \in Aggregates /\ c.version \in Nat
      BY <1>1, <1>3 DEF Change
    <3>2. OwnChanges(v, c.aggregate)' = OwnChanges(v, c.aggregate)
      BY <1>3, <3>1 DEF OwnChanges
    <3>3. /\ c.cursor \in 1..last /\ c.version >= 1
          /\ c.version <= row[c.aggregate] + Cardinality(OwnChanges(v, c.aggregate))
      BY <1>1, <3>1 DEF FeedInv
    <3>4. OwnChanges(v, c.aggregate) \subseteq open[v] /\ IsFiniteSet(open[v])
      BY <1>1 DEF FeedInv, OwnChanges
    <3>5. Cardinality(OwnChanges(v, c.aggregate)) \in Nat
      BY <3>4, FS_Subset, FS_CardinalityType
    <3> QED
      BY <1>3, <1>4, <3>1, <3>2, <3>3, <3>5
  <2>4. \A v \in Writers : \A c \in open'[v] : \A d \in feed' : c.cursor # d.cursor
    BY <1>1, <1>3 DEF FeedInv
  <2>5. \A u, v \in Writers : u # v =>
          \A c \in open'[u] : \A d \in open'[v] : c.cursor # d.cursor
    BY <1>1, <1>3 DEF FeedInv
  <2> QED
    BY <2>1, <2>2, <2>3, <2>4, <2>5 DEF FeedInv
<1>6. ASSUME NEW n \in Nat, Visible(n) PROVE Due(n)' \subseteq Due(n)
  <2> SUFFICES ASSUME NEW c \in Due(n)' PROVE c \in Due(n)
    OBVIOUS
  <2>1. c \in feed' /\ c \notin overtaken' /\ c.cursor <= n
    BY DEF Due
  <2>2. ASSUME c \in open[w] PROVE FALSE
    <3>1. c.cursor \in Nat /\ c.cursor >= 1 /\ \A d \in feed : c.cursor # d.cursor
      BY <1>1, <2>2 DEF FeedInv, Change
    <3>2. PICK d \in feed : d.cursor = n
      BY <1>6, <2>1, <3>1 DEF Visible
    <3>3. d.cursor > c.cursor
      BY <2>1, <3>1, <3>2
    <3> QED
      BY <1>3, <2>1, <2>2, <3>3
  <2> QED
    BY <1>3, <2>1, <2>2 DEF Due
<1>7. NothingInvented' /\ AckInv' /\ StoreInv' /\ SnapshotInv' /\ ChangesInv'
  <2>1. row' \in [Aggregates -> Nat]
    BY CommitTypes DEF TypeOK
  <2> QED
    BY <1>3, <1>4, <1>6, <2>1, ServerKeeps
<1> QED
  BY <1>5, <1>7, CommitTypes DEF IInv

LEMMA RollbackIInv == ASSUME IInv, NEW w \in Writers, Rollback(w) PROVE IInv'
<1>1. /\ TypeOK /\ FeedInv /\ open \in [Writers -> SUBSET Change]
  BY DEF IInv, TypeOK
<1>2. /\ open'[w] = {} /\ \A v \in Writers \ {w} : open'[v] = open[v]
      /\ UNCHANGED <<row, feed, last, overtaken, acked, store, local, client>>
  BY <1>1 DEF Rollback
<1>3. TypeOK'
  BY <1>1 DEF Rollback, TypeOK
<1>4. FeedInv'
  <2>1. \A v \in Writers : IsFiniteSet(open'[v])
    BY <1>1, <1>2, FS_EmptySet DEF FeedInv
  <2>2. ASSUME NEW v \in Writers, NEW c \in open'[v]
        PROVE  /\ c.cursor \in 1..last' /\ c.version >= 1
               /\ c.version <= row'[c.aggregate] + Cardinality(OwnChanges(v, c.aggregate)')
    <3>1. v # w /\ c \in open[v]
      BY <1>2
    <3>2. OwnChanges(v, c.aggregate)' = OwnChanges(v, c.aggregate)
      BY <1>2, <3>1 DEF OwnChanges
    <3> QED
      BY <1>1, <1>2, <3>1, <3>2 DEF FeedInv
  <2> QED
    BY <1>1, <1>2, <2>1, <2>2 DEF FeedInv
<1>5. NothingInvented' /\ AckInv' /\ StoreInv' /\ SnapshotInv' /\ ChangesInv'
  <2>1. \A n \in Nat : Due(n)' \subseteq Due(n)
    BY <1>2 DEF Due
  <2>2. row \in [Aggregates -> Nat] /\ \A b \in Aggregates : row'[b] >= row[b]
    BY <1>1, <1>2 DEF TypeOK
  <2> QED
    BY <1>2, <2>1, <2>2, ServerKeeps
<1> QED
  BY <1>3, <1>4, <1>5 DEF IInv

LEMMA ExpireIInv == ASSUME IInv, NEW c \in feed, Expire(c) PROVE IInv'
<1>1. UNCHANGED <<row, feed, open, last, overtaken, acked, store, local, client, faults>>
  BY DEF Expire
<1>2. TypeOK'
  BY <1>1 DEF IInv, TypeOK, Expire, Change
<1>3. FeedInv'
  BY <1>1 DEF IInv, FeedInv, OwnChanges
<1>4. NothingInvented' /\ AckInv' /\ StoreInv' /\ SnapshotInv' /\ ChangesInv'
  <2>1. \A n \in Nat : Due(n)' \subseteq Due(n)
    BY <1>1 DEF Due
  <2>2. row \in [Aggregates -> Nat] /\ \A b \in Aggregates : row'[b] >= row[b]
    BY <1>1 DEF IInv, TypeOK
  <2> QED
    BY <1>1, <2>1, <2>2, ServerKeeps
<1> QED
  BY <1>2, <1>3, <1>4 DEF IInv

-----------------------------------------------------------------------------
(* Steps of the client. *)

LEMMA ServerStill == ASSUME FeedInv, UNCHANGED server PROVE FeedInv'
BY DEF FeedInv, OwnChanges, server

\* The facts the client steps share.
LEMMA ClientFacts ==
    ASSUME TypeOK
    PROVE  /\ client \in SyncRun /\ local \in SyncState /\ acked \in Nat /\ feed \subseteq Change
           /\ store \in [Aggregates -> Nat] /\ row \in [Aggregates -> Nat]
           /\ client.cursor \in Nat /\ client.watermark \in Nat /\ client.next \in Nat
           /\ client.after \in Nat /\ client.page \subseteq Change
           /\ local.cursor \in Nat /\ local.watermark \in Nat /\ local.after \in Nat
BY DEF TypeOK, SyncRun, SyncState

\* A run that ends, or begins again from nothing, keeps the store.
LEMMA RunEnds ==
    ASSUME IInv, UNCHANGED <<server, acked, store>>, TypeOK',
           client'.pc = "idle" \/ (client'.pc = "watermark" /\ client'.restart /\ client'.after = 0),
           client'.page = {},
           local' = local \/ local'.phase = "error"
    PROVE  IInv'
<1>1. FeedInv' /\ AckInv'
  BY ServerStill DEF IInv, AckInv, server
<1>2. NothingInvented'
  BY DEF IInv, NothingInvented, server
<1>3. StoreInv'
  BY DEF IInv, StoreInv, Visible, Due, Covered, server
<1>4. SnapshotInv' /\ ChangesInv'
  BY DEF SnapshotInv, ChangesInv
<1> QED
  BY <1>1, <1>2, <1>3, <1>4 DEF IInv

LEMMA StartIInv == ASSUME IInv, Start PROVE IInv'
<1>1. TypeOK'
  BY ClientTypes DEF IInv
<1>2. UNCHANGED <<server, acked, store, local>>
  BY DEF Start, StartReady, StartResume, StartFresh
<1>3. CASE StartFresh
  BY <1>1, <1>2, <1>3, RunEnds DEF StartFresh, Idle
<1>4. CASE StartReady \/ StartResume
  <2>1. FeedInv' /\ AckInv'
    BY <1>2, ServerStill DEF IInv, AckInv, server
  <2>2. NothingInvented'
    <3>1. client'.page = {}
      BY <1>4 DEF StartReady, StartResume, Idle
    <3> QED
      BY <1>2, <3>1 DEF IInv, NothingInvented, server
  <2>3. StoreInv'
    BY <1>2 DEF IInv, StoreInv, Visible, Due, Covered, server
  <2>4. SnapshotInv'
    <3>1. CASE StartReady
      <4>1. client'.pc = "changes"
        BY <3>1 DEF StartReady, Idle
      <4> QED
        BY <4>1 DEF SnapshotInv
    <3>2. CASE StartResume
      <4>1. /\ client'.pc = "snapshot" /\ client'.watermark = local.watermark
            /\ client'.after = local.after /\ client'.restart = FALSE
            /\ local.phase = "bootstrapping"
        BY <3>2 DEF StartResume, Idle
      <4>2. Visible(local.watermark)' /\ acked <= local.watermark
        BY <1>2, <4>1 DEF IInv, StoreInv, Visible, server
      <4> QED
        BY <1>2, <4>1, <4>2 DEF SnapshotInv
    <3> QED
      BY <1>4, <3>1, <3>2
  <2>5. ChangesInv'
    BY <1>2, <1>4 DEF IInv, StoreInv, ChangesInv, Visible, server, StartReady, StartResume, Idle
  <2> QED
    BY <1>1, <2>1, <2>2, <2>3, <2>4, <2>5 DEF IInv
<1> QED
  BY <1>3, <1>4 DEF Start

\* The latest cursor is a visible one, and nobody can have gone beyond it.
LEMMA ReadWatermarkIInv == ASSUME IInv, ReadWatermark PROVE IInv'
<1>1. TypeOK'
  BY ClientTypes DEF IInv, Proceed
<1>2. UNCHANGED <<server, acked, store, local>> /\ client.pc = "watermark"
  BY DEF ReadWatermark
<1>3. PICK n \in 0..last : IsLatest(n) /\ client' = [client EXCEPT !.pc = "snapshot", !.watermark = n]
  BY DEF ReadWatermark
<1>4. client \in SyncRun /\ local \in SyncState /\ feed \subseteq Change /\ acked \in Nat /\ last \in Nat
  BY DEF IInv, TypeOK
<1>5. /\ client'.pc = "snapshot" /\ client'.watermark = n /\ client'.restart = client.restart
      /\ client'.after = client.after /\ client'.page = client.page
  BY <1>3, <1>4 DEF SyncRun
<1>6. n \in Nat /\ Visible(n) /\ \A m \in Nat : Visible(m) => m <= n
  BY <1>3, <1>4 DEF IsLatest, Visible
<1>7. acked <= n
  BY <1>3, <1>4, <1>6 DEF IInv, AckInv, IsLatest, Change
<1>8. FeedInv' /\ AckInv'
  BY <1>2, ServerStill DEF IInv, AckInv, server
<1>9. NothingInvented'
  BY <1>2, <1>5 DEF IInv, NothingInvented, server
<1>10. StoreInv'
  BY <1>2 DEF IInv, StoreInv, Visible, Due, Covered, server
<1>11. Visible(n)'
  BY <1>2, <1>6 DEF Visible, server
<1>12. local.phase = "ready" => local.cursor <= n
  BY <1>4, <1>6 DEF IInv, StoreInv, SyncState
<1>13. client.restart /\ client.after = 0
  BY <1>2 DEF IInv, SnapshotInv
<1>14. SnapshotInv'
  BY <1>2, <1>5, <1>7, <1>11, <1>12, <1>13 DEF SnapshotInv
<1>15. ChangesInv'
  BY <1>5 DEF ChangesInv
<1> QED
  BY <1>1, <1>8, <1>9, <1>10, <1>14, <1>15 DEF IInv

\* A page of the snapshot holds every row up to its last, at least as new as
\* any visible change.
LEMMA ReadSnapshotIInv == ASSUME IInv, ReadSnapshot PROVE IInv'
<1> DEFINE rows == {a \in Aggregates : row[a] > 0 /\ a > client.after}
           items(P) == {[cursor |-> 0, aggregate |-> a, version |-> row[a]] : a \in P}
<1>1. TypeOK'
  BY ClientTypes DEF IInv, Proceed
<1>2. UNCHANGED <<server, acked, store, local>> /\ client.pc = "snapshot"
  BY DEF ReadSnapshot
<1>3. PICK P \in SUBSET rows, l \in rows \cup {client.after} :
         /\ FirstPage(rows, P) /\ LastOf(P, client.after, l)
         /\ client' = [client EXCEPT !.pc = "apply_snapshot", !.next = l,
                              !.more = (P # rows), !.page = items(P)]
  BY DEF ReadSnapshot
<1>4. TypeOK /\ client \in SyncRun /\ feed \subseteq Change /\ row \in [Aggregates -> Nat]
      /\ store \in [Aggregates -> Nat] /\ client.after \in Nat /\ Aggregates \subseteq Nat
  BY ClientFacts, ConstantsAssumption DEF IInv
<1>5. /\ client'.pc = "apply_snapshot" /\ client'.next = l /\ client'.more = (P # rows)
      /\ client'.page = items(P) /\ client'.watermark = client.watermark
      /\ client'.restart = client.restart /\ client'.after = client.after
  <2> HIDE DEF rows, items
  <2> QED
    BY <1>3, <1>4 DEF SyncRun
<1>6. FeedInv' /\ AckInv'
  BY <1>2, ServerStill DEF IInv, AckInv, server
<1>7. NothingInvented'
  <2>1. \A c \in items(P) : c.version <= row[c.aggregate]
    BY <1>4
  <2> HIDE DEF items
  <2> QED
    BY <1>2, <1>5, <2>1 DEF IInv, NothingInvented, server
<1>8. StoreInv'
  BY <1>2 DEF IInv, StoreInv, Visible, Due, Covered, server
<1>9. ASSUME NEW a \in rows, InPage(a)' PROVE a \in P
  <2>1. CASE P = rows
    BY <2>1
  <2>2. CASE P # rows
    <3>1. a <= l
      BY <1>5, <1>9, <2>2 DEF InPage
    <3>2. CASE P = {}
      BY <1>3, <1>4, <3>1, <3>2 DEF LastOf
    <3>3. CASE P # {}
      <4>1. l \in P /\ (\A x \in P, y \in rows \ P : x < y)
        BY <1>3, <3>3 DEF LastOf, FirstPage
      <4> QED
        BY <1>4, <3>1, <4>1
    <3> QED
      BY <3>2, <3>3
  <2> QED
    BY <2>1, <2>2
<1>10. ASSUME NEW a \in P
       PROVE  \E p \in client'.page : p.aggregate = a /\ p.version = row[a]
  <2> DEFINE item == [cursor |-> 0, aggregate |-> a, version |-> row[a]]
  <2>1. item \in items(P) /\ item.aggregate = a /\ item.version = row[a]
    OBVIOUS
  <2> HIDE DEF item, items, rows
  <2> QED
    BY <1>5, <2>1
<1>11. ASSUME NEW a \in Aggregates, NEW v \in 1..row[a], a > client.after, InPage(a)'
       PROVE  \E p \in client'.page : p.aggregate = a /\ p.version >= v
  <2>1. a \in rows
    BY <1>4, <1>11
  <2>2. a \in P
    BY <1>9, <1>11, <2>1
  <2> QED
    BY <1>4, <1>10, <2>2
<1> HIDE DEF rows, items
<1>12. SnapshotInv'
  <2>1. /\ Visible(client.watermark)' /\ acked' <= client'.watermark
        /\ client'.restart => client'.after = 0
        /\ local'.phase = "ready" => client'.restart /\ local'.cursor <= client'.watermark
        /\ local'.phase = "bootstrapping" /\ ~client'.restart => local'.after = client'.after
    BY <1>2, <1>5 DEF IInv, SnapshotInv, Visible, server
  <2>2. ASSUME NEW c \in Due(client.watermark)', c.aggregate > client.after, InPage(c.aggregate)'
        PROVE  \E p \in client'.page : p.aggregate = c.aggregate /\ p.version >= c.version
    <3>1. c \in feed /\ c.aggregate \in Aggregates /\ c.version \in 1..row[c.aggregate]
      BY <1>2, <1>4 DEF IInv, FeedInv, Due, Change, server
    <3> QED
      BY <1>11, <2>2, <3>1
  <2>3. ASSUME client'.restart, NEW a \in Aggregates, InPage(a)', store[a] > 0
        PROVE  \E p \in client'.page : p.aggregate = a /\ p.version >= store[a]
    <3>1. store[a] \in 1..row[a]
      BY <1>4, <2>3 DEF IInv, NothingInvented
    <3>2. a > client.after
      BY <1>2, <1>4, <1>5, <2>3, ConstantsAssumption DEF IInv, SnapshotInv
    <3> QED
      BY <1>11, <2>3, <3>1, <3>2
  <2> QED
    BY <1>2, <1>5, <2>1, <2>2, <2>3 DEF SnapshotInv
<1>13. ChangesInv'
  BY <1>5 DEF ChangesInv
<1> QED
  BY <1>1, <1>6, <1>7, <1>8, <1>12, <1>13 DEF IInv

\* Applying a page brings every row at least to the page's version, takes none
\* back, and stays within what both sides knew.
LEMMA MergeFacts ==
    ASSUME NEW page, page \subseteq Change, NEW from \in [Aggregates -> Nat],
           NEW to \in [Aggregates -> Nat], Merges(page, from, to)
    PROVE  /\ \A a \in Aggregates : to[a] >= from[a]
           /\ \A c \in page : to[c.aggregate] >= c.version
           /\ \A a \in Aggregates : to[a] = from[a]
                 \/ \E c \in page : c.aggregate = a /\ to[a] = c.version
<1>1. ASSUME NEW a \in Aggregates
      PROVE  /\ to[a] >= from[a]
             /\ \A c \in page : c.aggregate = a => to[a] >= c.version
             /\ to[a] = from[a] \/ \E c \in page : c.aggregate = a /\ to[a] = c.version
  <2> DEFINE versions == {from[a]} \cup {c.version : c \in {d \in page : d.aggregate = a}}
  <2>1. to[a] \in versions /\ \A v \in versions : v <= to[a]
    BY DEF Merges
  <2>2. \A c \in page : c.version \in Nat
    BY DEF Change
  <2> QED
    BY <2>1, <2>2
<1>2. \A c \in page : c.aggregate \in Aggregates
  BY DEF Change
<1> QED
  BY <1>1, <1>2

LEMMA ApplySnapshotIInv == ASSUME IInv, ApplySnapshot PROVE IInv'
<1> DEFINE from == IF client.restart THEN Empty ELSE store
<1>1. TypeOK'
  BY ClientTypes DEF IInv, Proceed
<1>2. /\ UNCHANGED <<server, acked>> /\ client.pc = "apply_snapshot" /\ ~SnapshotConflicts
      /\ Merges(client.page, from, store')
  BY DEF ApplySnapshot
<1>3. TypeOK /\ client \in SyncRun /\ feed \subseteq Change /\ row \in [Aggregates -> Nat]
      /\ store \in [Aggregates -> Nat] /\ store' \in [Aggregates -> Nat]
      /\ client.page \subseteq Change /\ from \in [Aggregates -> Nat] /\ Aggregates \subseteq Nat \ {0}
      /\ client.after \in Nat /\ client.next \in Nat /\ client.watermark \in Nat
  BY <1>1, ClientFacts, ConstantsAssumption DEF IInv, TypeOK, Empty
<1>4. /\ \A a \in Aggregates : store'[a] >= from[a]
      /\ \A c \in client.page : store'[c.aggregate] >= c.version
      /\ \A a \in Aggregates : store'[a] = from[a]
            \/ \E c \in client.page : c.aggregate = a /\ store'[a] = c.version
  BY <1>2, <1>3, MergeFacts
<1>5. FeedInv' /\ AckInv'
  BY <1>2, ServerStill DEF IInv, AckInv, server
<1>6. /\ Visible(client.watermark) /\ acked <= client.watermark
      /\ client.restart => client.after = 0
      /\ ~client.restart => /\ local.phase = "bootstrapping" /\ local.after = client.after
                            /\ local.watermark = client.watermark
  BY <1>2 DEF IInv, SnapshotInv, SnapshotConflicts
<1>7. client'.page = {}
  BY <1>3 DEF ApplySnapshot, SyncRun, Idle
<1>8. NothingInvented'
  <2>1. ASSUME NEW a \in Aggregates PROVE from[a] <= row[a]
    <3>1. row[a] \in Nat /\ store[a] <= row[a]
      BY <1>3 DEF IInv, NothingInvented
    <3>2. CASE client.restart
      BY <3>1, <3>2 DEF Empty
    <3>3. CASE ~client.restart
      BY <3>1, <3>3
    <3> QED
      BY <3>2, <3>3
  <2> HIDE DEF from
  <2>2. ASSUME NEW a \in Aggregates PROVE store'[a] <= row[a]
    BY <1>3, <1>4, <2>1 DEF IInv, NothingInvented
  <2> QED
    BY <1>2, <1>7, <2>2 DEF NothingInvented, server
<1>9. ASSUME NEW c \in Due(client.watermark), InPage(c.aggregate)
      PROVE  store'[c.aggregate] >= c.version
  <2>1. c \in feed /\ c.aggregate \in Aggregates /\ c.version \in Nat
    BY <1>3 DEF Due, Change
  <2>2. CASE c.aggregate > client.after
    <3>1. PICK p \in client.page : p.aggregate = c.aggregate /\ p.version >= c.version
      BY <1>2, <1>9, <2>2 DEF IInv, SnapshotInv
    <3>2. p.version \in Nat /\ store'[c.aggregate] \in Nat
      BY <1>3, <2>1 DEF Change
    <3> QED
      BY <1>4, <2>1, <3>1, <3>2
  <2>3. CASE ~(c.aggregate > client.after)
    <3>1. c.aggregate <= client.after /\ client.after # 0
      <4>1. c.aggregate \in Nat \ {0} /\ client.after \in Nat
        BY <1>3, <2>1
      <4> QED
        BY <2>3, <4>1
    <3>2. ~client.restart /\ local.phase = "bootstrapping" /\ local.after = client.after
          /\ local.watermark = client.watermark
      BY <1>6, <3>1
    <3>3. store[c.aggregate] >= c.version
      BY <1>9, <3>1, <3>2 DEF IInv, StoreInv, Covered
    <3>4. store'[c.aggregate] >= store[c.aggregate]
      BY <1>4, <2>1, <3>2
    <3>5. store'[c.aggregate] \in Nat /\ store[c.aggregate] \in Nat
      BY <1>3, <2>1
    <3> QED
      BY <2>1, <3>3, <3>4, <3>5
  <2> QED
    BY <2>2, <2>3
<1>10. CASE client.more
  <2>1. /\ local'.phase = "bootstrapping" /\ local'.watermark = client.watermark
        /\ local'.after = client.next
        /\ client'.pc = "snapshot" /\ client'.restart = FALSE /\ client'.after = client.next
        /\ client'.watermark = client.watermark
    <3>1. local' = [phase |-> "bootstrapping", cursor |-> 0,
                    watermark |-> client.watermark, after |-> client.next]
      BY <1>10 DEF ApplySnapshot
    <3>2. client' = [client EXCEPT !.pc = "snapshot", !.restart = FALSE,
                                   !.after = client.next, !.page = {}]
      BY <1>10 DEF ApplySnapshot
    <3>3. client \in SyncRun
      BY <1>3
    <3>4. /\ client'.pc = "snapshot" /\ client'.restart = FALSE
          /\ client'.after = client.next /\ client'.watermark = client.watermark
      BY <3>2, <3>3 DEF SyncRun
    <3> QED
      BY <3>1, <3>4
  <2>2. StoreInv'
    <3>1. ASSUME NEW c \in Due(client.watermark), c.aggregate <= client.next
          PROVE  store'[c.aggregate] >= c.version
      BY <1>9, <1>10, <3>1 DEF InPage
    <3> QED
      BY <1>2, <1>6, <2>1, <3>1 DEF StoreInv, Visible, Due, Covered, server
  <2>3. SnapshotInv'
    BY <1>2, <1>6, <2>1 DEF SnapshotInv, Visible, server
  <2>4. ChangesInv'
    BY <2>1 DEF ChangesInv
  <2> QED
    BY <1>1, <1>5, <1>8, <2>2, <2>3, <2>4 DEF IInv
<1>11. CASE ~client.more
  <2>1. /\ local'.phase = "ready" /\ local'.cursor = client.watermark
        /\ client'.pc = "changes" /\ client'.cursor = client.watermark
    BY <1>11 DEF ApplySnapshot, NoState, Idle
  <2>2. StoreInv'
    <3>1. ASSUME NEW c \in Due(client.watermark) PROVE store'[c.aggregate] >= c.version
      BY <1>9, <1>11 DEF InPage
    <3> QED
      BY <1>2, <1>6, <2>1, <3>1 DEF StoreInv, Visible, Due, Covered, server
  <2>3. SnapshotInv'
    BY <2>1 DEF SnapshotInv
  <2>4. ChangesInv'
    BY <1>2, <1>6, <2>1 DEF ChangesInv, Visible, server
  <2> QED
    BY <1>1, <1>5, <1>8, <2>2, <2>3, <2>4 DEF IInv
<1> QED
  BY <1>10, <1>11

\* A page of changes holds everything due between its ends.
LEMMA ReadChangesIInv == ASSUME IInv, ReadChanges PROVE IInv'
<1>1. TypeOK' /\ TypeOK
  BY ClientTypes DEF IInv, Proceed
<1>2. UNCHANGED <<server, acked, store, local>> /\ client.pc = "changes"
  BY DEF ReadChanges
<1>3. CASE client'.pc \in {"watermark", "idle"} /\ client'.page = {}
           /\ (client'.pc = "watermark" => client'.restart /\ client'.after = 0)
  BY <1>1, <1>2, <1>3, RunEnds
<1> DEFINE cursors == {c.cursor : c \in {d \in feed : d.cursor > client.cursor
                                                       /\ d.cursor > expired}}
<1>4. CASE ~(client.cursor < expired) /\ \E P \in SUBSET cursors, l \in cursors \cup {client.cursor} :
             /\ FirstPage(cursors, P) /\ LastOf(P, client.cursor, l)
             /\ client' = [client EXCEPT !.pc = "apply_changes", !.next = l,
                              !.more = (P # cursors), !.page = {c \in feed : c.cursor \in P}]
  <2>1. PICK P \in SUBSET cursors, l \in cursors \cup {client.cursor} :
             /\ FirstPage(cursors, P) /\ LastOf(P, client.cursor, l)
             /\ client' = [client EXCEPT !.pc = "apply_changes", !.next = l,
                              !.more = (P # cursors), !.page = {c \in feed : c.cursor \in P}]
    BY <1>4
  <2>2. client \in SyncRun /\ feed \subseteq Change /\ client.cursor \in Nat /\ expired \in Nat
    BY <1>1, ClientFacts DEF TypeOK
  <2>3. /\ client'.pc = "apply_changes" /\ client'.next = l /\ client'.cursor = client.cursor
        /\ client'.page = {c \in feed : c.cursor \in P}
    <3> HIDE DEF cursors
    <3> QED
      BY <2>1, <2>2 DEF SyncRun
  <2>4. l \in Nat /\ client.cursor <= l
    BY <2>1, <2>2 DEF Change
  <2>5. Visible(client.cursor) /\ local.phase \in {"ready", "none"}
    BY <1>2 DEF IInv, ChangesInv
  <2>6. Visible(l)
    BY <2>1, <2>5 DEF Visible
  <2>7. ASSUME NEW c \in Due(l), c.cursor > client.cursor PROVE c \in client'.page
    <3>1. c \in feed /\ c.cursor \in Nat /\ c.cursor <= l
      BY <2>2 DEF Due, Change
    <3>2. c.cursor \in cursors
      BY <1>4, <2>2, <2>7, <3>1
    <3>3. P # {}
      BY <2>1, <2>2, <2>7, <3>1 DEF LastOf
    <3>4. l \in P /\ \A x \in P, y \in cursors \ P : x < y
      BY <2>1, <3>3 DEF LastOf, FirstPage
    <3>5. c.cursor \in P
      <4> HIDE DEF cursors
      <4> QED
        BY <2>4, <3>1, <3>2, <3>4
    <3> QED
      BY <2>3, <3>1, <3>5
  <2>8. FeedInv' /\ AckInv'
    BY <1>2, ServerStill DEF IInv, AckInv, server
  <2>9. NothingInvented'
    <3>1. \A c \in client'.page : c \in feed /\ c.aggregate \in Aggregates
      BY <2>2, <2>3 DEF Change
    <3>2. \A c \in feed : c.version <= row[c.aggregate]
      BY <1>1, <2>2 DEF IInv, FeedInv, Change, TypeOK
    <3> QED
      BY <1>2, <3>1, <3>2 DEF IInv, NothingInvented, server
  <2>10. StoreInv'
    BY <1>2 DEF IInv, StoreInv, Visible, Due, Covered, server
  <2>11. SnapshotInv'
    BY <2>3 DEF SnapshotInv
  <2> HIDE DEF cursors
  <2>12. ChangesInv'
    BY <1>2, <2>3, <2>4, <2>5, <2>6, <2>7 DEF ChangesInv, Visible, Due, server
  <2> QED
    BY <1>1, <2>8, <2>9, <2>10, <2>11, <2>12 DEF IInv
<1>5. \/ /\ client'.pc \in {"watermark", "idle"} /\ client'.page = {}
         /\ client'.pc = "watermark" => client'.restart /\ client'.after = 0
      \/ /\ ~(client.cursor < expired)
         /\ \E P \in SUBSET cursors, l \in cursors \cup {client.cursor} :
             /\ FirstPage(cursors, P) /\ LastOf(P, client.cursor, l)
             /\ client' = [client EXCEPT !.pc = "apply_changes", !.next = l,
                              !.more = (P # cursors), !.page = {c \in feed : c.cursor \in P}]
  <2>1. PICK latest \in 0..last :
           \/ client' = Idle
           \/ client' = [Idle EXCEPT !.pc = "watermark", !.restart = TRUE, !.resets = 1]
           \/ /\ ~MustReset(latest)
              /\ \E P \in SUBSET cursors, l \in cursors \cup {client.cursor} :
                   /\ FirstPage(cursors, P) /\ LastOf(P, client.cursor, l)
                   /\ client' = [client EXCEPT !.pc = "apply_changes", !.next = l,
                              !.more = (P # cursors), !.page = {c \in feed : c.cursor \in P}]
    <3> HIDE DEF cursors
    <3>1. PICK latest \in 0..last :
           \/ client' = IF client.resets = 0
                        THEN [Idle EXCEPT !.pc = "watermark", !.restart = TRUE, !.resets = 1]
                        ELSE Idle
           \/ /\ ~MustReset(latest)
              /\ \E P \in SUBSET cursors, l \in cursors \cup {client.cursor} :
                   /\ FirstPage(cursors, P) /\ LastOf(P, client.cursor, l)
                   /\ client' = [client EXCEPT !.pc = "apply_changes", !.next = l,
                              !.more = (P # cursors), !.page = {c \in feed : c.cursor \in P}]
      BY Zenon DEF ReadChanges, cursors
    <3> QED
      BY <3>1, Zenon
  <2>2. CASE client' = Idle
    BY <2>2 DEF Idle
  <2>3. CASE client' = [Idle EXCEPT !.pc = "watermark", !.restart = TRUE, !.resets = 1]
    BY <2>3 DEF Idle
  <2> HIDE DEF cursors
  <2> QED
    BY <2>1, <2>2, <2>3 DEF MustReset
<1> QED
  BY <1>3, <1>4, <1>5

LEMMA ApplyChangesIInv == ASSUME IInv, ApplyChanges PROVE IInv'
<1>1. TypeOK' /\ TypeOK
  BY ClientTypes DEF IInv, Proceed
<1>2. /\ UNCHANGED <<server, acked>> /\ client.pc = "apply_changes" /\ local.phase = "ready"
      /\ local.cursor = client.cursor \/ local.cursor >= client.next
  BY <1>1, ClientFacts DEF ApplyChanges, ChangesConflict
<1>3. /\ client \in SyncRun /\ local \in SyncState /\ feed \subseteq Change
      /\ row \in [Aggregates -> Nat] /\ store \in [Aggregates -> Nat]
      /\ store' \in [Aggregates -> Nat] /\ client.page \subseteq Change
      /\ client.cursor \in Nat /\ client.next \in Nat /\ local.cursor \in Nat /\ acked \in Nat
  BY <1>1, ClientFacts DEF TypeOK
<1>4. /\ client'.pc \in {"changes", "ack"} /\ client'.cursor = client.next /\ client'.page = {}
  BY <1>3 DEF ApplyChanges, SyncRun
<1>5. /\ Visible(client.next) /\ client.cursor <= client.next
      /\ \A c \in Due(client.next) : c.cursor > client.cursor => c \in client.page
      /\ Visible(local.cursor) /\ acked <= local.cursor
      /\ \A c \in Due(local.cursor) : Covered(c)
  BY <1>2 DEF IInv, ChangesInv, StoreInv
<1>6. FeedInv' /\ AckInv'
  BY <1>2, ServerStill DEF IInv, AckInv, server
<1>7. SnapshotInv'
  BY <1>4 DEF SnapshotInv
<1>8. CASE local.cursor = client.cursor
  <2>1. Merges(client.page, store, store') /\ local' = [local EXCEPT !.cursor = client.next]
    BY <1>8 DEF ApplyChanges
  <2>2. /\ \A a \in Aggregates : store'[a] >= store[a]
        /\ \A c \in client.page : store'[c.aggregate] >= c.version
        /\ \A a \in Aggregates : store'[a] = store[a]
              \/ \E c \in client.page : c.aggregate = a /\ store'[a] = c.version
    BY <1>3, <2>1, MergeFacts
  <2>3. local'.phase = "ready" /\ local'.cursor = client.next
    BY <1>2, <1>3, <2>1 DEF SyncState
  <2>4. NothingInvented'
    <3>1. ASSUME NEW a \in Aggregates PROVE store'[a] <= row[a]
      BY <1>3, <2>2 DEF IInv, NothingInvented
    <3> QED
      BY <1>2, <1>4, <3>1 DEF NothingInvented, server
  <2>5. ASSUME NEW c \in Due(client.next) PROVE store'[c.aggregate] >= c.version
    <3>1. c \in feed /\ c \notin overtaken /\ c.cursor \in Nat /\ c.version \in Nat
          /\ c.aggregate \in Aggregates
      BY <1>3 DEF Due, Change
    <3>2. CASE c.cursor > client.cursor
      BY <1>5, <2>2, <3>2
    <3>3. CASE ~(c.cursor > client.cursor)
      <4>1. c \in Due(local.cursor)
        BY <1>3, <1>8, <3>1, <3>3 DEF Due
      <4>2. store[c.aggregate] >= c.version
        BY <1>5, <4>1 DEF Covered
      <4>3. store'[c.aggregate] \in Nat /\ store[c.aggregate] \in Nat
        BY <1>3, <3>1
      <4> QED
        BY <2>2, <3>1, <4>2, <4>3
    <3> QED
      BY <3>2, <3>3
  <2>6. acked <= client.next
    BY <1>3, <1>5, <1>8
  <2>7. StoreInv'
    BY <1>2, <1>5, <2>3, <2>5, <2>6 DEF StoreInv, Visible, Due, Covered, server
  <2>8. ChangesInv'
    BY <1>2, <1>3, <1>4, <1>5, <2>3 DEF ChangesInv, Visible, server
  <2> QED
    BY <1>1, <1>6, <1>7, <2>4, <2>7, <2>8 DEF IInv
<1>9. CASE local.cursor # client.cursor
  <2>1. UNCHANGED <<store, local>>
    BY <1>9 DEF ApplyChanges
  <2>2. NothingInvented'
    BY <1>2, <1>4, <2>1 DEF IInv, NothingInvented, server
  <2>3. StoreInv'
    BY <1>2, <2>1 DEF IInv, StoreInv, Visible, Due, Covered, server
  <2>4. ChangesInv'
    BY <1>2, <1>4, <1>5, <1>9, <2>1 DEF ChangesInv, Visible, server
  <2> QED
    BY <1>1, <1>6, <1>7, <2>2, <2>3, <2>4 DEF IInv
<1> QED
  BY <1>8, <1>9

LEMMA AcknowledgeIInv == ASSUME IInv, Acknowledge PROVE IInv'
<1>1. TypeOK' /\ TypeOK
  BY ClientTypes DEF IInv, Proceed
<1>2. UNCHANGED <<server, store, local>> /\ client' = Idle /\ client.pc = "ack"
  BY DEF Acknowledge
<1>3. acked' = acked \/ acked' = client.cursor
  BY DEF Acknowledge
<1>4. Visible(client.cursor) /\ local.phase \in {"ready", "none"}
      /\ (local.phase = "ready" => client.cursor <= local.cursor)
  BY <1>2 DEF IInv, ChangesInv
<1>5. client.cursor \in Nat
  BY <1>1, ClientFacts
<1>6. FeedInv'
  BY <1>2, ServerStill DEF IInv
<1>7. AckInv'
  BY <1>2, <1>3, <1>4, <1>5 DEF IInv, AckInv, Visible, server
<1>8. NothingInvented'
  BY <1>2 DEF IInv, NothingInvented, server, Idle
<1>9. StoreInv'
  BY <1>2, <1>3, <1>4 DEF IInv, StoreInv, Visible, Due, Covered, server
<1>10. SnapshotInv' /\ ChangesInv'
  BY <1>2 DEF SnapshotInv, ChangesInv, Idle
<1> QED
  BY <1>1, <1>6, <1>7, <1>8, <1>9, <1>10 DEF IInv

\* After a sign-out the page under way, if any, finds nothing to continue.
LEMMA SignOutIInv == ASSUME IInv, SignOut PROVE IInv'
<1>1. TypeOK' /\ TypeOK
  BY ClientTypes DEF IInv, Fault
<1>2. UNCHANGED <<server, acked, client>> /\ store' = Empty /\ local' = NoState
  BY DEF SignOut
<1>3. FeedInv' /\ AckInv'
  BY <1>2, ServerStill DEF IInv, AckInv, server
<1>4. NothingInvented'
  BY <1>1, <1>2 DEF IInv, NothingInvented, server, Empty, TypeOK
<1>5. StoreInv'
  BY <1>2 DEF StoreInv, NoState
<1>6. SnapshotInv'
  BY <1>2 DEF IInv, SnapshotInv, NoState, Empty, Visible, Due, InPage, server
<1>7. ChangesInv'
  BY <1>2 DEF IInv, ChangesInv, NoState, Visible, Due, server
<1> QED
  BY <1>1, <1>3, <1>4, <1>5, <1>6, <1>7 DEF IInv

LEMMA EndIInv == ASSUME IInv, RejectConflict \/ RejectContent \/ TokenRefused \/ Drop PROVE IInv'
<1>1. TypeOK'
  BY ClientTypes DEF IInv, Proceed, Fault
<1>2. UNCHANGED <<server, acked, store>>
  BY DEF RejectConflict, RejectContent, TokenRefused, Drop
<1>3. /\ client'.pc = "idle" \/ (client'.pc = "watermark" /\ client'.restart /\ client'.after = 0)
      /\ client'.page = {}
  <2>1. client' = Idle \/ client' = [Idle EXCEPT !.pc = "watermark", !.restart = TRUE]
    BY DEF RejectConflict, RejectContent, TokenRefused, Drop, Reject
  <2>2. CASE client' = Idle
    BY <2>2 DEF Idle
  <2>3. CASE client' = [Idle EXCEPT !.pc = "watermark", !.restart = TRUE]
    BY <2>3 DEF Idle
  <2> QED
    BY <2>1, <2>2, <2>3
<1>4. local' = local \/ local'.phase = "error"
  BY DEF IInv, TypeOK, SyncState, RejectConflict, RejectContent, TokenRefused, Drop, Reject
<1> QED
  BY <1>1, <1>2, <1>3, <1>4, RunEnds

-----------------------------------------------------------------------------
(* A readable store never goes back: only a page of changes and the last page *)
(* of a bootstrap that replaces a ready store lead from ready to ready.       *)

Forward == /\ local'.cursor >= local.cursor
           /\ \A a \in Aggregates : store'[a] >= store[a]

LEMMA ApplySnapshotForward ==
    ASSUME IInv, ApplySnapshot, local.phase = "ready", local'.phase = "ready" PROVE Forward
<1>1. /\ client.pc = "apply_snapshot" /\ ~SnapshotConflicts
      /\ Merges(client.page, IF client.restart THEN Empty ELSE store, store')
  BY DEF ApplySnapshot
<1>2. client.restart
  BY <1>1 DEF SnapshotConflicts
<1>3. TypeOK' /\ TypeOK
  BY ClientTypes DEF IInv, Proceed
<1>4. /\ store \in [Aggregates -> Nat] /\ store' \in [Aggregates -> Nat]
      /\ Empty \in [Aggregates -> Nat] /\ client.page \subseteq Change
  BY <1>3, ClientFacts DEF TypeOK, Empty
<1>5. ~client.more
  BY DEF ApplySnapshot
<1>6. local'.cursor = client.watermark
  BY <1>5 DEF ApplySnapshot, NoState
<1>7. \A c \in client.page : store'[c.aggregate] >= c.version
  BY <1>1, <1>2, <1>4, MergeFacts
<1>8. ASSUME NEW a \in Aggregates PROVE store'[a] >= store[a]
  <2>1. store[a] \in Nat /\ store'[a] \in Nat
    BY <1>4
  <2>2. CASE store[a] > 0
    <3>1. PICK p \in client.page : p.aggregate = a /\ p.version >= store[a]
      BY <1>1, <1>2, <1>5, <2>2 DEF IInv, SnapshotInv, InPage
    <3>2. p.version \in Nat
      BY <1>4 DEF Change
    <3> QED
      BY <1>7, <2>1, <3>1, <3>2
  <2> QED
    BY <2>1, <2>2
<1>9. local.cursor <= client.watermark
  BY <1>1 DEF IInv, SnapshotInv
<1>10. local.cursor \in Nat /\ client.watermark \in Nat
  BY <1>3, ClientFacts
<1> QED
  BY <1>6, <1>8, <1>9, <1>10 DEF Forward

LEMMA ApplyChangesForward ==
    ASSUME IInv, ApplyChanges, local.phase = "ready", local'.phase = "ready" PROVE Forward
<1>1. TypeOK' /\ TypeOK
  BY ClientTypes DEF IInv, Proceed
<1>2. /\ local \in SyncState /\ store \in [Aggregates -> Nat] /\ store' \in [Aggregates -> Nat]
      /\ client.page \subseteq Change /\ client.cursor \in Nat /\ client.next \in Nat
      /\ local.cursor \in Nat
  BY <1>1, ClientFacts DEF TypeOK
<1>3. client.cursor <= client.next
  BY DEF IInv, ChangesInv, ApplyChanges
<1>4. CASE local.cursor = client.cursor
  <2>1. Merges(client.page, store, store') /\ local' = [local EXCEPT !.cursor = client.next]
    BY <1>4 DEF ApplyChanges
  <2>2. \A a \in Aggregates : store'[a] >= store[a]
    BY <1>2, <2>1, MergeFacts
  <2>3. local'.cursor = client.next
    BY <1>2, <2>1 DEF SyncState
  <2> QED
    BY <1>2, <1>3, <1>4, <2>2, <2>3 DEF Forward
<1>5. CASE local.cursor # client.cursor
  <2>1. UNCHANGED <<store, local>>
    BY <1>5 DEF ApplyChanges
  <2> QED
    BY <1>2, <2>1 DEF Forward
<1> QED
  BY <1>4, <1>5

LEMMA StepForward ==
    ASSUME IInv, Next, local.phase = "ready", local'.phase = "ready" PROVE Forward
<1>1. ASSUME UNCHANGED <<store, local>> PROVE Forward
  BY <1>1, ClientFacts DEF IInv, TypeOK, Forward
<1>2. CASE Write \/ (\E c \in feed : Expire(c)) \/ Start
  BY <1>1, <1>2 DEF Write, Flush, Commit, Rollback, Expire, Start, StartReady, StartResume,
     StartFresh
<1>3. CASE Proceed
  <2>1. CASE RejectConflict
    BY <2>1 DEF RejectConflict, Reject, IInv, TypeOK, SyncState
  <2>2. CASE ReadWatermark \/ ReadSnapshot \/ ReadChanges \/ Acknowledge
    BY <1>1, <2>2 DEF ReadWatermark, ReadSnapshot, ReadChanges, Acknowledge
  <2> QED
    BY <1>3, <2>1, <2>2, ApplySnapshotForward, ApplyChangesForward DEF Proceed
<1>4. CASE Fault
  <2>1. CASE RejectContent
    BY <2>1 DEF RejectContent, Reject, IInv, TypeOK, SyncState
  <2>2. CASE SignOut
    BY <2>2 DEF SignOut, NoState
  <2>3. CASE TokenRefused \/ Drop
    BY <1>1, <2>3 DEF TokenRefused, Drop
  <2> QED
    BY <1>4, <2>1, <2>2, <2>3 DEF Fault
<1> QED
  BY <1>2, <1>3, <1>4 DEF Next

-----------------------------------------------------------------------------
(* Theorems. *)

LEMMA StepIInv == IInv /\ [Next]_vars => IInv'
<1> SUFFICES ASSUME IInv, [Next]_vars PROVE IInv'
  OBVIOUS
<1>1. CASE Write
  BY <1>1, FlushIInv, CommitIInv, RollbackIInv DEF Write
<1>2. CASE \E c \in feed : Expire(c)
  BY <1>2, ExpireIInv
<1>3. CASE Start
  BY <1>3, StartIInv
<1>4. CASE Proceed
  BY <1>4, ReadWatermarkIInv, ReadSnapshotIInv, ApplySnapshotIInv, ReadChangesIInv,
     ApplyChangesIInv, AcknowledgeIInv, EndIInv DEF Proceed
<1>5. CASE Fault
  BY <1>5, EndIInv, SignOutIInv DEF Fault
<1>6. CASE UNCHANGED vars
  BY <1>6 DEF vars, server, IInv, TypeOK, FeedInv, NothingInvented, AckInv, StoreInv,
     SnapshotInv, ChangesInv, Visible, Due, Covered, InPage, OwnChanges
<1> QED
  BY <1>1, <1>2, <1>3, <1>4, <1>5, <1>6 DEF Next

LEMMA Invariance == Spec => []IInv
BY InitIInv, StepIInv, PTL DEF Spec

\* Every variable keeps its type.
THEOREM SyncTypeCorrect == Spec => []TypeOK
<1>1. IInv => TypeOK
  BY DEF IInv
<1> QED
  BY Invariance, <1>1, PTL

\* A readable store lacks nothing up to its cursor but overtaken changes,
\* whatever pages, resets, refused tokens, lost answers and sign-outs come.
THEOREM NothingElseMissed == Spec => []OnlyOvertakenMissed
<1>1. IInv => OnlyOvertakenMissed
  BY DEF IInv, StoreInv, OnlyOvertakenMissed, Due
<1> QED
  BY Invariance, <1>1, PTL

\* The device is never recorded beyond what its store holds.
THEOREM AcknowledgedIsDurable == Spec => []AckedIsDurable
<1>1. IInv => AckedIsDurable
  BY DEF IInv, StoreInv, AckedIsDurable
<1> QED
  BY Invariance, <1>1, PTL

\* Stores and answers hold committed versions only.
THEOREM OnlyCommitted == Spec => []NothingInvented
<1>1. IInv => NothingInvented
  BY DEF IInv
<1> QED
  BY Invariance, <1>1, PTL

\* From one readable state to the next neither a row nor the cursor goes back,
\* though replayed pages and new bootstraps bring old versions again.
THEOREM VisibleForward == Spec => VisibleNeverGoesBack
<1>1. IInv /\ [Next]_vars => [local.phase = "ready" /\ local'.phase = "ready" =>
        /\ local'.cursor >= local.cursor
        /\ \A a \in Aggregates : store'[a] >= store[a]]_vars
  BY StepForward DEF Forward
<1> QED
  BY Invariance, <1>1, PTL DEF Spec, VisibleNeverGoesBack

LEMMA InitReplica == Init => Replica!Init
BY DEF Init, Replica!Init, Replica!Rows, Empty, NoState

\* Each step is a write, a fill or a loss of the replica, or leaves it alone.
LEMMA StepReplica == IInv /\ IInv' /\ [Next]_vars => [Replica!Next]_(Replica!vars)
<1> SUFFICES ASSUME IInv, IInv', [Next]_vars PROVE [Replica!Next]_(Replica!vars)
  OBVIOUS
<1> USE DEF Replica!vars, Replica!Next, Replica!Rows, Replica!AtMost
<1>1. row \in [Aggregates -> Nat] /\ row' \in [Aggregates -> Nat]
  BY DEF IInv, TypeOK
<1>2. store \in [Aggregates -> Nat] /\ store' \in [Aggregates -> Nat]
  BY DEF IInv, TypeOK
<1>3. \A a \in Aggregates : store'[a] <= row'[a]
  BY DEF IInv, NothingInvented
<1>4. CASE UNCHANGED <<row, store, local>>
  BY <1>4
<1>5. CASE \E w \in Writers : Commit(w)
  <2>1. PICK w \in Writers : Commit(w)
    BY <1>5
  <2>2. UNCHANGED <<store, local>>
    BY <2>1 DEF Commit
  <2>3. \A a \in Aggregates : row[a] <= row'[a]
    <3> TAKE a \in Aggregates
    <3>1. IsFiniteSet(open[w]) /\ OwnChanges(w, a) \subseteq open[w]
      BY DEF IInv, FeedInv, OwnChanges
    <3>2. Cardinality(OwnChanges(w, a)) \in Nat
      BY <3>1, FS_Subset, FS_CardinalityType
    <3>3. row'[a] = row[a] + Cardinality(OwnChanges(w, a))
      BY <2>1 DEF Commit
    <3> QED
      BY <1>1, <3>2, <3>3
  <2> QED
    BY <1>1, <2>2, <2>3 DEF Replica!Write
<1>6. CASE UNCHANGED row /\ local'.phase # "ready"
  BY <1>1, <1>2, <1>3, <1>6 DEF Replica!Lose
<1>7. CASE UNCHANGED row /\ local'.phase = "ready"
  <2>1. ASSUME local.phase = "ready", NEW a \in Aggregates PROVE store[a] <= store'[a]
    <3>1. CASE Next
      <4>1. store'[a] >= store[a]
        BY <1>7, <2>1, <3>1, StepForward DEF Forward
      <4> QED
        BY <1>2, <4>1
    <3>2. CASE UNCHANGED vars
      BY <1>2, <3>2 DEF vars
    <3> QED
      BY <3>1, <3>2
  <2> QED
    BY <1>1, <1>2, <1>3, <1>7, <2>1 DEF Replica!Fill
<1>8. (\E w \in Writers : Commit(w)) \/ UNCHANGED row
  <2>1. CASE Write \/ (\E c \in feed : Expire(c)) \/ UNCHANGED vars
    BY <2>1 DEF Write, Flush, Rollback, Expire, vars, server
  <2>2. CASE Start
    BY <2>2 DEF Start, StartReady, StartResume, StartFresh, server
  <2>3. CASE Proceed
    <3>1. CASE ReadWatermark \/ ReadSnapshot \/ ReadChanges
      BY <3>1 DEF ReadWatermark, ReadSnapshot, ReadChanges, server
    <3>2. CASE ApplySnapshot \/ ApplyChanges
      BY <3>2 DEF ApplySnapshot, ApplyChanges, server
    <3>3. CASE RejectConflict \/ Acknowledge
      BY <3>3 DEF RejectConflict, Acknowledge, server
    <3> QED
      BY <2>3, <3>1, <3>2, <3>3 DEF Proceed
  <2>4. CASE Fault
    BY <2>4 DEF Fault, TokenRefused, RejectContent, Drop, SignOut, server
  <2> QED
    BY <2>1, <2>2, <2>3, <2>4 DEF Next
<1> QED
  BY <1>5, <1>6, <1>7, <1>8

\* The feed, the engine and the store together are the replica that the outbox
\* and the screens rely on: the detailed specification implements SyncReplica.
THEOREM FeedIsReplica == Spec => ReplicaSpec
BY InitReplica, StepReplica, StepIInv, InitIInv, PTL DEF Spec, ReplicaSpec, Replica!Spec

=============================================================================
