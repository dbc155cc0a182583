-------------------------- MODULE DeliveryContract --------------------------
(***************************************************************************)
(* What the execution of campaigns promises.  A recipient is messaged once *)
(* at most and only while her campaign is running; a campaign is executed  *)
(* when all of its audience was messaged; one whose run came to nothing    *)
(* may run again only if nobody was, and is interrupted for good           *)
(* otherwise.  CampaignExecution implements this.                          *)
(***************************************************************************)
EXTENDS Naturals

CONSTANTS Campaigns, Batch

VARIABLES status,    \* how the execution of a campaign stands
          audience,  \* number of batches of a campaign
          calls      \* how often each batch was given to the provider

vars == <<status, audience, calls>>

Sent(c) == {b \in Batch : calls[c][b] # 0}

Init ==
    /\ status = [c \in Campaigns |-> "approved"]
    /\ audience \in [Campaigns -> Nat]
    /\ calls = [c \in Campaigns |-> [b \in Batch |-> 0]]

Start(c) ==
    /\ status[c] = "approved"
    /\ status' = [status EXCEPT ![c] = "running"]
    /\ UNCHANGED <<audience, calls>>

Send(c, b) ==
    /\ status[c] = "running"
    /\ b \in 1 .. audience[c]
    /\ calls[c][b] = 0
    /\ calls' = [calls EXCEPT ![c][b] = 1]
    /\ UNCHANGED <<status, audience>>

Finish(c) ==
    /\ status[c] = "running"
    /\ Sent(c) = 1 .. audience[c]
    /\ status' = [status EXCEPT ![c] = "executed"]
    /\ UNCHANGED <<audience, calls>>

\* The runs of several campaigns may be given up at a time.
Abandon(requeued, interrupted) ==
    /\ \A c \in requeued \cup interrupted : status[c] = "running"
    /\ \A c \in requeued : Sent(c) = {}
    /\ status' = [c \in Campaigns |-> IF c \in requeued THEN "approved"
                                      ELSE IF c \in interrupted THEN "interrupted"
                                      ELSE status[c]]
    /\ UNCHANGED <<audience, calls>>

Next ==
    \/ \E c \in Campaigns : Start(c) \/ Finish(c) \/ \E b \in Batch : Send(c, b)
    \/ \E requeued, interrupted \in SUBSET Campaigns : Abandon(requeued, interrupted)

Spec == Init /\ [][Next]_vars

=============================================================================
