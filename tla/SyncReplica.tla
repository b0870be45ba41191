---------------------------- MODULE SyncReplica ----------------------------
(***************************************************************************)
(* What the sync feed promises the rest of the app about the replica of     *)
(* the owner's rows: while it is readable it holds versions the server has  *)
(* committed, none of them newer than the server's and none older than what *)
(* it has shown before.  It may lag behind, and it may be lost (a sign-out, *)
(* an error, a new bootstrap) and filled again.                             *)
(*                                                                         *)
(* SyncFeed implements this specification; CommandOutbox is built on it.    *)
(***************************************************************************)
EXTENDS Naturals

CONSTANTS
    Aggregates,  \* rows of the owner
    Versions     \* version numbers, natural numbers that include 0

VARIABLES
    row,    \* committed version of each row
    store,  \* version of each row in the replica, 0 if it has none
    ready   \* the replica may be read

vars == <<row, store, ready>>

Rows == [Aggregates -> Versions]

AtMost(f, g) == \A a \in Aggregates : f[a] <= g[a]

Init ==
    /\ row \in Rows
    /\ store = [a \in Aggregates |-> 0]
    /\ ready = FALSE

\* Transactions commit new versions.
Write ==
    /\ row' \in Rows /\ AtMost(row, row')
    /\ UNCHANGED <<store, ready>>

\* The replica takes what some moment of the feed offers.
Fill ==
    /\ store' \in Rows /\ AtMost(store', row)
    /\ ready => AtMost(store, store')
    /\ ready' = TRUE
    /\ UNCHANGED row

\* The replica can no longer be read; it may be wiped or half rebuilt.
Lose ==
    /\ store' \in Rows /\ AtMost(store', row)
    /\ ready' = FALSE
    /\ UNCHANGED row

Next == Write \/ Fill \/ Lose

Spec == Init /\ [][Next]_vars
=============================================================================
