---------------------------- MODULE MCClickSync -----------------------------
(***************************************************************************)
(* Model values for TLC: requests for a single link each; the destinations *)
(* of some have a percent sign that begins no escape.                      *)
(***************************************************************************)
EXTENDS ClickSync

CONSTANT Uneven  \* keys, and codes of older rows, with such a destination

MCSize == [k \in Keys |-> 1]
MCDestination ==
    [k \in Keys \cup Codes |->
        [scheme |-> "none", host |-> "plain", escaped |-> k \notin Uneven,
         fits |-> TRUE]]

=============================================================================
