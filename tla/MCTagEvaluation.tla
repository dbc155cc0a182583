-------------------------- MODULE MCTagEvaluation --------------------------
(* Model values for TLC: a run of one bundle, in batches of two tags and   *)
(* of one, which may be deactivated on the way.                            *)
EXTENDS TagEvaluation

CONSTANTS b1, c1

MCOwner == [b \in Bundles |-> c1]
MCEdits == {<<3, "active", "inactive">>}

=============================================================================
