------------------------------ MODULE MCOutbox ------------------------------
(* Three events and two workers: batches overlap, and a batch has two rows.  *)
EXTENDS Outbox, TLC
=============================================================================
