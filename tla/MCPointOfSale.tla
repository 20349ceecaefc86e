---------------------------- MODULE MCPointOfSale ----------------------------
(* One cart of two rates: two discounted units whose net 3 and tax 1 do not   *)
(* divide by two, and one unit free of tax that is not kept in stock.  Each   *)
(* terminal has a warehouse of its own, which bears the terminal's name.      *)
EXTENDS PointOfSale, TLC

CONSTANTS goods, service

Carts == {goods :> [qty |-> 2, price |-> 2, disc |-> 3, tax |-> 5]
          @@ service :> [qty |-> 1, price |-> 2, disc |-> 0, tax |-> 0]}
Shelves == [t \in Terminal |-> t]
Deliveries == {<<1, 7>>}
Interchangeable == Permutations(Request) \cup Permutations(Terminal)
==============================================================================
