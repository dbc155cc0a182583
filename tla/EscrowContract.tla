--------------------------- MODULE EscrowContract ---------------------------
(***************************************************************************)
(* What a customer who pays for campaigns may rely on.  Each campaign has  *)
(* an escrow of its own: its budget is set aside out of what is available, *)
(* spent when the campaign is accepted, and given back once: in full until *)
(* the campaign is under way, at most in part after it was carried out.    *)
(* Nothing that happens to one campaign touches the money of another.      *)
(* CampaignFunds implements this when its handlers run undisturbed.        *)
(***************************************************************************)
EXTENDS Naturals

CONSTANT Campaigns

VARIABLES available,  \* money the customer may still plan with
          held,       \* what is set aside for a campaign
          paid,       \* what was spent on a campaign and not returned
          phase       \* how the escrow of a campaign stands

vars == <<available, held, paid, phase>>

Init ==
    /\ available = 0
    /\ held = [c \in Campaigns |-> 0]
    /\ paid = [c \in Campaigns |-> 0]
    /\ phase = [c \in Campaigns |-> "open"]

Advance(c, from, to) ==
    /\ phase[c] = from
    /\ phase' = [phase EXCEPT ![c] = to]

Deposit ==
    /\ available' \in Nat
    /\ available' > available
    /\ UNCHANGED <<held, paid, phase>>

Reserve(c, amount) ==
    /\ Advance(c, "open", "reserved")
    /\ available' = available - amount
    /\ held' = [held EXCEPT ![c] = amount]
    /\ UNCHANGED paid

Spend(c) ==
    /\ Advance(c, "reserved", "paid")
    /\ held' = [held EXCEPT ![c] = 0]
    /\ paid' = [paid EXCEPT ![c] = held[c]]
    /\ UNCHANGED available

Release(c) ==
    /\ Advance(c, "reserved", "closed")
    /\ available' = available + held[c]
    /\ held' = [held EXCEPT ![c] = 0]
    /\ UNCHANGED paid

GiveBack(c) ==
    /\ Advance(c, "paid", "closed")
    /\ available' = available + paid[c]
    /\ paid' = [paid EXCEPT ![c] = 0]
    /\ UNCHANGED held

\* A campaign is carried out, or taken back while nothing was sent.
Progress(c) ==
    /\ \/ Advance(c, "paid", "under way")
       \/ Advance(c, "under way", "paid")
       \/ Advance(c, "under way", "used")
    /\ UNCHANGED <<available, held, paid>>

GiveBackPart(c, amount) ==
    /\ Advance(c, "used", "closed")
    /\ available' = available + amount
    /\ paid' = [paid EXCEPT ![c] = @ - amount]
    /\ UNCHANGED held

Next ==
    \/ Deposit
    \/ \E c \in Campaigns :
          \/ \E amount \in 0 .. available : Reserve(c, amount)
          \/ Spend(c) \/ Release(c) \/ GiveBack(c) \/ Progress(c)
          \/ \E amount \in 0 .. paid[c] : GiveBackPart(c, amount)

Spec == Init /\ [][Next]_vars

=============================================================================
