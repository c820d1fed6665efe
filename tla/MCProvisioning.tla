-------------------------- MODULE MCProvisioning --------------------------
(* Small instances of Provisioning for TLC. *)
EXTENDS Provisioning

TwoFaults == [fault |-> 2, restart |-> 1]
=============================================================================
