---------------------------- MODULE DirectCalls ----------------------------
(***************************************************************************)
(* The service calls that talk to the appliance without the coordinator's  *)
(* lock, beside the ones DeviceCoordinator models: the display switch      *)
(* (switch.py) toggles the display, and a button (button.py) calls a       *)
(* method of the device.  Both go through the proxy straight to msmart.    *)
(***************************************************************************)
EXTENDS DeviceCoordinator

CONSTANTS
    Toggler,    \* display.turn_on calls in flight
    Presser,    \* button presses in flight
    Display,    \* the attribute that says whether the display is lit
    On          \* its value when it is

Direct == Toggler \cup Presser

ASSUME DirectAssumption ==
    /\ Direct \cap Task = {} /\ Toggler \cap Presser = {}
    /\ Display \in Attr
    /\ On \in Value

VARIABLE direct     \* where each of these calls is suspended

directVars == <<vars, direct>>

Move(d, place) == direct' = [direct EXCEPT ![d] = place]

-----------------------------------------------------------------------------
(* turn_on looks at the state Home Assistant knows and toggles or returns.  *)
TurnOn(d) ==
    /\ direct[d] = "idle"
    /\ online /\ ~ShuttingDown
    /\ Move(d, IF View[Display] = On THEN "done" ELSE "exchange")
    /\ UNCHANGED vars

Press(d) ==
    /\ direct[d] = "idle"
    /\ online /\ ~ShuttingDown
    /\ Move(d, "exchange")
    /\ UNCHANGED vars

(* Connection set-up, by the same library, without the lock. *)
DirectConnect(d) ==
    /\ direct[d] = "exchange"
    /\ conn \in {"closed", "open"}
    /\ conn' = IF conn = "closed" THEN "open" ELSE "ready"
    /\ queue' = IF conn = "closed" THEN <<>> ELSE queue
    /\ UNCHANGED <<lockVars, pc, step, staged, device, appliance, frame, online,
                   received, spent, fate, direct>>

(* The request_refresh after a toggle: the call waits for the refresh it    *)
(* starts, which is all it does, so it is done here.                       *)
RequestRefresh ==
    \/ /\ pc["poll"] = "idle" /\ ~ShuttingDown
       /\ pc' = [pc EXCEPT !["poll"] = "waiting"]
       /\ waiters' = Append(waiters, "poll")
    \/ UNCHANGED <<pc, waiters>>

(* The appliance lights the display when it is dark, and the other way      *)
(* round.  The model lets the library read the new state back before the   *)
(* call goes on.                                                           *)
Flip ==
    \E v \in Value :
        /\ (v = On) # (appliance[Display] = On)
        /\ appliance' = [appliance EXCEPT ![Display] = v]

ToggleAnswered(d) ==
    /\ direct[d] = "exchange"
    /\ conn = "ready"
    /\ ~FaultQueued
    /\ Flip
    /\ device' = appliance'
    /\ RequestRefresh
    /\ Move(d, "done")
    /\ UNCHANGED <<holder, step, staged, frame, online, lanVars, spent, fate>>

PressAnswered(d) ==
    /\ direct[d] = "exchange"
    /\ conn = "ready"
    /\ ~FaultQueued
    /\ Move(d, "done")
    /\ UNCHANGED vars

DirectFailed(d) ==
    /\ direct[d] = "exchange"
    /\ LanFails
    /\ appliance' = appliance \/ (d \in Toggler /\ conn = "ready" /\ Flip)
    /\ Move(d, "failed")
    /\ UNCHANGED <<lockVars, pc, step, staged, device, frame, online, fate>>

-----------------------------------------------------------------------------
DirectInit == Init /\ direct = [d \in Direct |-> "idle"]

DirectNext ==
    \/ Next /\ UNCHANGED direct
    \/ \E d \in Toggler : TurnOn(d) \/ ToggleAnswered(d)
    \/ \E d \in Presser : Press(d) \/ PressAnswered(d)
    \/ \E d \in Direct : DirectConnect(d) \/ DirectFailed(d)

DirectSpec == DirectInit /\ [][DirectNext]_directVars

-----------------------------------------------------------------------------
(* "There are never competing readers" (lan_push.py:5): at most one task    *)
(* reads the protocol's queue.                                             *)
Readers == {t \in LanTask : pc[t] = "exchange"}
             \cup {t \in {"listen"} : pc[t] = "draining"}
             \cup {d \in Direct : direct[d] = "exchange"}

NoCompetingReaders == \A t, u \in Readers : t = u

(* async_shutdown closes the socket (coordinator.py:116); of the calls that *)
(* make one change, only one beside the lock opens it again, during its     *)
(* own exchange.                                                           *)
ClosedUnlessDirect ==
    [][ClosedAfterShutdown /\ ~ClosedAfterShutdown'
         => \E d \in Direct : direct[d] = "exchange"]_directVars
=============================================================================
