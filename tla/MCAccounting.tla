---------------------------- MODULE MCAccounting ----------------------------
(* Two sessions, two dates, two periods, one of them still to be created.    *)
EXTENDS Reports, TLC

CONSTANTS cash, sales, petty

\* A cash sale of one unit, and a request that does not balance.
Requested == {cash :> 1 @@ sales :> -1 @@ petty :> 0, cash :> 1 @@ sales :> 0 @@ petty :> 0}

Types == cash :> "ASSET" @@ petty :> "ASSET" @@ sales :> "REVENUE"

Symmetric == Permutations(Entry) \cup Permutations(Session)
=============================================================================
