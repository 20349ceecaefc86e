----------------------------- MODULE MCNumbering -----------------------------
(* Two document series, one journal series, one fiscal period and one entry  *)
(* to reverse: every plan of the operations competes with every other.       *)
EXTENDS Numbering, TLC

=============================================================================
