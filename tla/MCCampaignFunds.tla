--------------------------- MODULE MCCampaignFunds ---------------------------
(* Bounded instances of CampaignFunds. *)
EXTENDS CampaignFunds

MCDeposits == {[free |-> 2, credit |-> 1]}

\* Writers of the wallet take turns: what was recharged is in the wallet,
\* whatever the recharges interleave with.
NothingLost == Total(wallet) = deposited
=============================================================================
