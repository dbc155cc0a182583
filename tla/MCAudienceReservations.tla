----------------------- MODULE MCAudienceReservations -----------------------
(***************************************************************************)
(* Model values for TLC: campaigns of the three kinds ask for one of the   *)
(* same two audiences.                                                     *)
(***************************************************************************)
EXTENDS AudienceReservations, TLC

CONSTANTS a1, a2

Ask(kind, pool, n) == [kind |-> kind, pool |-> pool, count |-> n]
MCInputs == {Ask("execution", {a1, a2}, 1), Ask("test", {a1, a2}, 1),
             Ask("standard", {a1, a2}, 1)}

Symmetry == Permutations(Campaigns) \cup Permutations(Audiences)
                \cup Permutations(Workers)

=============================================================================
