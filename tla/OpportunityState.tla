--------------------------- MODULE OpportunityState ---------------------------
(***************************************************************************)
(* The status of an opportunity and the transitions every use case checks   *)
(* before it writes one.                                                    *)
(***************************************************************************)

Statuses == {"pending_human", "ai_auto_reply", "replied", "following", "ignored", "closed"}

\* ensure_transition_allowed: ALLOWED_TRANSITIONS, or no change.
Allowed(from, to) ==
    \/ from = to
    \/ from = "pending_human"
    \/ from = "ai_auto_reply" /\ to # "ignored"
    \/ from = "replied" /\ to \in {"following", "closed", "ignored"}
    \/ from = "following" /\ to \in {"replied", "closed", "ignored"}
    \/ from = "ignored" /\ to \in {"pending_human", "closed"}
=============================================================================
