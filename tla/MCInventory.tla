----------------------------- MODULE MCInventory -----------------------------
(* Small instances of Inventory.                                            *)
EXTENDS Inventory, TLC

MCProduct1 == {1}
MCProduct2 == {1, 2}
Sessions == Permutations(Txn)
Interchangeable == Permutations(Txn) \cup Permutations(Reservation)

\* The operations offered by each run.
StockOps == {"receipt", "issue", "adjust", "reserve", "release", "sweep", "fulfil",
             "goods_receipt", "restock", "checkout", "refund", "update_product"}
LedgerOps == {"receipt", "create", "ship", "receive", "deactivate_product"}
DocumentCostOps == {"receipt", "goods_receipt", "fulfil"}
=============================================================================
