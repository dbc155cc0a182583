--------------------------- MODULE RefundContract ---------------------------
(***************************************************************************)
(* What the refund queue promises to a campaign that has been executed:    *)
(* its undelivered messages are refunded at most once, its case is closed  *)
(* once and for all, and it is closed as completed only when nothing is    *)
(* owed any more.  RefundQueue implements this.                            *)
(***************************************************************************)
EXTENDS Naturals

CONSTANT Campaigns

VARIABLES executed,   \* campaigns that were executed
          claim,      \* what an executed campaign can claim
          refunded,   \* completed refunds of undelivered messages
          verdict     \* how the case of a campaign stands

vars == <<executed, claim, refunded, verdict>>

\* What a refund attempt finds: no delivery report yet, undelivered messages,
\* everything delivered, an inconsistent ledger, or no schedule at all.
Claims == {"unreported", "owed", "nothing", "broken", "unscheduled"}
Closed == {"completed", "manual_review"}

Init ==
    /\ executed \in SUBSET Campaigns
    /\ claim \in [Campaigns -> Claims]
    /\ refunded = [c \in Campaigns |-> 0]
    /\ verdict = [c \in Campaigns |-> "open"]

Owed(c) == claim[c] = "owed" /\ refunded[c] = 0

Finish(c) ==
    /\ c \notin executed
    /\ executed' = executed \cup {c}
    /\ \/ UNCHANGED verdict
       \/ claim[c] = "unscheduled"
          /\ verdict' = [verdict EXCEPT ![c] = "manual_review"]
    /\ UNCHANGED <<claim, refunded>>

Report(c, what) ==
    /\ claim[c] = "unreported"
    /\ claim' = [claim EXCEPT ![c] = what]
    /\ UNCHANGED <<executed, refunded, verdict>>

\* A refund needs a case that is not completed; an attempt that lost its
\* lease may still pay after the case went to manual review.
Refund(c) ==
    /\ c \in executed
    /\ verdict[c] # "completed"
    /\ Owed(c)
    /\ refunded' = [refunded EXCEPT ![c] = 1]
    /\ UNCHANGED <<executed, claim, verdict>>

Close(c) ==
    /\ c \in executed
    /\ verdict[c] = "open"
    /\ \/ (claim[c] = "nothing" \/ refunded[c] = 1)
          /\ verdict' = [verdict EXCEPT ![c] = "completed"]
       \/ verdict' = [verdict EXCEPT ![c] = "manual_review"]
    /\ UNCHANGED <<executed, claim, refunded>>

\* One pass of discovery files several historical campaigns without schedule.
Backfill(S) ==
    /\ S \subseteq executed
    /\ \A c \in S : verdict[c] = "open" /\ claim[c] = "unscheduled"
    /\ verdict' = [c \in Campaigns |-> IF c \in S THEN "manual_review" ELSE verdict[c]]
    /\ UNCHANGED <<executed, claim, refunded>>

Next ==
    \/ \E c \in Campaigns : Finish(c) \/ Refund(c) \/ Close(c)
    \/ \E c \in Campaigns, what \in {"owed", "nothing", "broken"} : Report(c, what)
    \/ \E S \in SUBSET Campaigns : Backfill(S)

Spec == Init /\ [][Next]_vars

=============================================================================
