---------------------------- MODULE StatusChanges ----------------------------
(***************************************************************************)
(* What the app promises a user who changes the status of an opportunity,   *)
(* online or not: the change happens in one step, on the version the user   *)
(* saw, once or never; told that it happened, it has; told that it          *)
(* conflicts, it never will.  The changes of everybody together are a legal *)
(* life of the opportunity.                                                 *)
(*                                                                         *)
(* CommandOutbox implements this specification.                             *)
(***************************************************************************)
EXTENDS OpportunityState, Naturals, Sequences

CONSTANTS Opportunities, Commands

VARIABLES
    opp,         \* committed contents of each opportunity, oldest first
    asked,       \* what the user asked for with each command
    done,        \* commands that took effect
    succeeded,   \* commands the app shows as done
    conflicted   \* commands the app has shown as a version conflict

vars == <<opp, asked, done, succeeded, conflicted>>

Content == [status : Statuses, archived : BOOLEAN]

Unasked == [opportunity |-> "none", seen |-> 0, status |-> "pending_human"]

\* One content may follow another: an archived one keeps its status.
Follows(from, to) ==
    /\ Allowed(from.status, to.status)
    /\ from.status = to.status \/ (~from.archived /\ ~to.archived)

Init ==
    /\ \A o \in Opportunities : Len(opp[o]) = 1
    /\ asked = [c \in Commands |-> Unasked]
    /\ done = {} /\ succeeded = {} /\ conflicted = {}

Commit(o, content) ==
    /\ Follows(opp[o][Len(opp[o])], content)
    /\ opp' = [opp EXCEPT ![o] = Append(@, content)]

\* Somebody else changes the opportunity.
Write(o) ==
    /\ \E content \in Content : Commit(o, content)
    /\ UNCHANGED <<asked, done, succeeded, conflicted>>

\* The user asks for a status on a version that is shown.
Ask(c, o) ==
    /\ asked[c] = Unasked
    /\ \E seen \in 1..Len(opp[o]), s \in Statuses :
        /\ ~opp[o][seen].archived
        /\ asked' = [asked EXCEPT ![c] = [opportunity |-> o, seen |-> seen, status |-> s]]
    /\ UNCHANGED <<opp, done, succeeded, conflicted>>

\* It happens: nothing has happened to the opportunity since.
Take(c, o) ==
    /\ asked[c].opportunity = o /\ asked[c].seen = Len(opp[o])
    /\ c \notin done \cup conflicted
    /\ Commit(o, [status |-> asked[c].status, archived |-> FALSE])
    /\ done' = done \cup {c}
    /\ UNCHANGED <<asked, succeeded, conflicted>>

\* The user is told.
Succeed(c) ==
    /\ c \in done
    /\ succeeded' = succeeded \cup {c}
    /\ UNCHANGED <<opp, asked, done, conflicted>>

Conflict(c) ==
    /\ asked[c] # Unasked /\ c \notin done
    /\ conflicted' = conflicted \cup {c}
    /\ UNCHANGED <<opp, asked, done, succeeded>>

\* The rows of commands are wiped.
Forget ==
    /\ succeeded' \in SUBSET succeeded
    /\ UNCHANGED <<opp, asked, done, conflicted>>

Next ==
    \/ \E o \in Opportunities : Write(o)
    \/ \E c \in Commands, o \in Opportunities : Ask(c, o) \/ Take(c, o)
    \/ \E c \in Commands : Succeed(c) \/ Conflict(c)
    \/ Forget

Spec == Init /\ [][Next]_vars
=============================================================================
