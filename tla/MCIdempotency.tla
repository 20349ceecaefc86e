---------------------------- MODULE MCIdempotency ----------------------------
(* Two clients with different requests; their keys may collide.               *)
EXTENDS Idempotency, TLC

CONSTANTS i1, i2, b1, b2

TwoBodies == (i1 :> b1) @@ (i2 :> b2)
ThreeAndTwo == (i1 :> 3) @@ (i2 :> 2)
=============================================================================
