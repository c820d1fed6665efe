------------------------- MODULE MCAddressRecovery -------------------------
(* Small instances of AddressRecovery for TLC. *)
EXTENDS AddressRecovery

OneOfEach == [k \in Cause |-> 1]
=============================================================================
