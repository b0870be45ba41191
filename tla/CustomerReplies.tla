-------------------------- MODULE CustomerReplies --------------------------
(***************************************************************************)
(* What the replies to one customer promise, seen from the opportunity and  *)
(* from the customer, who knows nothing of ledgers, sessions and workers:   *)
(* each reply arrives once at most, the automatic one only while the        *)
(* opportunity is held for it, and nobody but the automatic reply itself    *)
(* gives up what it holds, after it arrived or without having been sent.    *)
(*                                                                         *)
(* OutboundReplies implements this specification.                           *)
(***************************************************************************)
EXTENDS OpportunityState, Naturals

CONSTANTS
    Keys,      \* manual replies
    AutoReply  \* the automatic reply

VARIABLES
    opp,       \* the opportunity: version, status, archived, assigned
    accepted,  \* how often the provider accepted each reply
    messages   \* outgoing Messages

vars == <<opp, accepted, messages>>

Init ==
    /\ opp.assigned = "nobody"
    /\ accepted = [k \in Keys \cup {AutoReply} |-> 0] /\ messages = {}

Write(new) ==
    /\ opp' = [new EXCEPT !.version = @ + 1]
    /\ UNCHANGED <<accepted, messages>>

-----------------------------------------------------------------------------
(* The opportunity. *)

\* A legal change, by whoever works with it; a draft changes nothing else.
Touch == Write(opp)

Move(s) == ~opp.archived /\ Allowed(opp.status, s) /\ Write([opp EXCEPT !.status = s])

Archive == \E b \in BOOLEAN : Write([opp EXCEPT !.archived = b])

Claim == opp.assigned = "nobody" /\ Write([opp EXCEPT !.assigned = "human"])

\* The automatic reply takes what is open to it,
Hold ==
    /\ opp.status = "ai_auto_reply" /\ ~opp.archived /\ opp.assigned = "nobody"
    /\ accepted[AutoReply] = 0
    /\ Write([opp EXCEPT !.assigned = "ai"])

\* and gives it up: it has arrived, and the opportunity becomes replied, whatever
\* others made of its status while the reply was on its way,
Answered ==
    /\ opp.assigned = "ai" /\ accepted[AutoReply] = 1
    /\ Write([opp EXCEPT !.status = "replied", !.assigned = "nobody"])

\* or a human shall answer.
ToHuman ==
    /\ opp.status = "ai_auto_reply"
    /\ opp.assigned = "nobody" \/ (opp.assigned = "ai" /\ accepted[AutoReply] = 0)
    /\ Write([opp EXCEPT !.status = "pending_human", !.assigned = "nobody"])

\* After a manual reply: whoever sent it takes the opportunity if it is free,
\* and it follows the reply if it may.
Follow(k) ==
    /\ accepted[k] = 1
    /\ \E s \in {opp.status, "following", "replied"} :
        /\ s # opp.status => ~opp.archived /\ Allowed(opp.status, s)
        /\ Write([opp EXCEPT !.assigned = IF @ = "nobody" THEN "human" ELSE @, !.status = s])

-----------------------------------------------------------------------------
(* The customer. *)

Send(k) ==
    /\ k = AutoReply => opp.assigned = "ai"
    /\ accepted[k] = 0 /\ accepted' = [accepted EXCEPT ![k] = 1]
    /\ UNCHANGED <<opp, messages>>

Record(k) ==
    /\ accepted[k] = 1 /\ messages' = messages \cup {k}
    /\ UNCHANGED <<opp, accepted>>

Next ==
    \/ Touch \/ Archive \/ Claim \/ Hold \/ Answered \/ ToHuman
    \/ \E s \in Statuses : Move(s)
    \/ \E k \in Keys : Follow(k)
    \/ \E k \in Keys \cup {AutoReply} : Send(k) \/ Record(k)

Spec == Init /\ [][Next]_vars
=============================================================================
