------------------------------- MODULE MCTrade -------------------------------
(* One tracked product; selling price 5 and unit cost 3 halves, so that one    *)
(* unit and two units round differently.                                       *)
EXTENDS Trade, TLC

CONSTANTS goods

Sold == {goods :> [qty |-> 2, price |-> 5, disc |-> 0, tax |-> 1]}
Bought == {goods :> [qty |-> 2, price |-> 3, disc |-> 0, tax |-> 5]}
Interchangeable == Permutations(Warehouse)
Quarters == {<<1, 1>>, <<1, 2>>}
==============================================================================
