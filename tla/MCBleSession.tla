--------------------------- MODULE MCBleSession ---------------------------
(* A small instance of BleSession for TLC. *)
EXTENDS BleSession

TwoFaults == [fault |-> 2, chatter |-> 1]
=============================================================================
