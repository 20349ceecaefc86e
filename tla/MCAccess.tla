------------------------------ MODULE MCAccess ------------------------------
(* Two members, one of them an owner or a manager, a third account, and    *)
(* requests that run at once.                                              *)
EXTENDS Access, TLC

Interchangeable == Permutations(Request \ Reader) \cup Permutations(Branch)
=============================================================================
