---------------------------- MODULE MCRecharges -----------------------------
(***************************************************************************)
(* Model values for TLC: two transactions for the invoice, one for the     *)
(* address.  Handlers, payloads and the two transactions are               *)
(* interchangeable.                                                        *)
(***************************************************************************)
EXTENDS Recharges, TLC

CONSTANTS x1, x2, d3

MCPaidFor == [d \in Deposits |-> IF d = d3 THEN x2 ELSE x1]
MCSymmetry == Permutations(Handlers) \cup Permutations(Payloads)
              \cup Permutations(Deposits \ {d3})

=============================================================================
