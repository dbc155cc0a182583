---------------------------- MODULE MCShortLinks ----------------------------
(***************************************************************************)
(* Model values for TLC: an upload for two links, one whose CSV is         *)
(* refused, one whose destination the redirect service refuses, and        *)
(* requests for one link.                                                  *)
(***************************************************************************)
EXTENDS ShortLinks

CONSTANTS q1, j1,
          Refused  \* keys whose destination the redirect service refuses

MCSize == [k \in Keys |-> IF k = j1 THEN 2 ELSE 1]
MCDestination ==
    [k \in Keys \cup Codes |->
        [scheme |-> "http", host |-> "plain", escaped |-> TRUE,
         fits |-> k \notin Refused]]

=============================================================================
