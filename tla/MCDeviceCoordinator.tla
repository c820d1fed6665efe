------------------------ MODULE MCDeviceCoordinator ------------------------
(* Small instances of DeviceCoordinator for TLC. *)
EXTENDS DeviceCoordinator

CONSTANTS c1, c2, temp, mode, lo, hi

Set(a, v) == [attr |-> a, value |-> v]

\* climate.set_temperature with a mode: two changes, two applies.
TwoSteps == [c \in Cmd |-> <<Set(temp, hi), Set(mode, hi)>>]

\* Two entities changed at the same time, one change each.
TwoCalls == c1 :> <<Set(temp, hi)>> @@ c2 :> <<Set(mode, hi)>>

OneOfEach == [remote |-> 1, push |-> 1, fault |-> 1]
=============================================================================
