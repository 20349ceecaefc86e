-------------------------- MODULE MCSessionRefresh --------------------------
(* Two requests of one browser, which has selected a tenant; timeout, lock   *)
(* and wait are 2, 3 and 4 ticks, as the defaults are 10, 15 and 20 seconds. *)
EXTENDS SessionRefresh, TLC

=============================================================================
