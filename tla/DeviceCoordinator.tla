------------------------- MODULE DeviceCoordinator -------------------------
(***************************************************************************)
(* MideaDeviceUpdateCoordinator (coordinator.py) with the device proxy     *)
(* (device_proxy.py) and the LAN report queue (lan_push.py) it serialises: *)
(* user commands, the polling refresh, the idle report listener and the    *)
(* shutdown, all running as tasks of one asyncio loop and sharing one lock.*)
(*                                                                         *)
(* A step is the code between two awaits, so whatever the code does        *)
(* without awaiting is one action.  The appliance, the msmart transport,   *)
(* asyncio and the DataUpdateCoordinator base class are modelled from the  *)
(* way this code uses them.                                                *)
(***************************************************************************)
EXTENDS Integers, Sequences, SequencesExt

CONSTANTS
    Cmd,      \* service calls in flight; each one makes its changes in order
    Attr,     \* controllable attributes of the device
    Value,    \* values of an attribute
    Script,   \* Script[c]: the changes call c makes, one coordinator.apply() each
    Unset,    \* "this attribute is not staged"
    NoTask,   \* "the lock is free"
    Budget    \* bound on each kind of event the environment causes

EnvEvent == {"remote", "push", "fault"}
Change   == [attr : Attr, value : Value]

ASSUME CmdAssumption ==
    Cmd \cap {"poll", "listen", "shutdown"} = {}
ASSUME ScriptAssumption == Script \in [Cmd -> Seq(Change)]
ASSUME ValueAssumption  == Value # {} /\ Unset \notin Value
ASSUME NoTaskAssumption == NoTask \notin Cmd \cup {"poll", "listen", "shutdown"}
ASSUME BudgetAssumption == Budget \in [EnvEvent -> Nat]

Task    == Cmd \cup {"poll", "listen", "shutdown"}
LanTask == Cmd \cup {"poll"}

VARIABLES
    holder,     \* the task inside `async with self._lock`
    waiters,    \* tasks suspended in the lock's acquire(), first come first
    pc,         \* where each task is suspended
    step,       \* the change each service call is at
    staged,     \* MideaDeviceProxy._staged
    device,     \* attributes of the msmart device object
    appliance,  \* state of the air conditioner itself
    frame,      \* the state in the frame of the running device.apply()
    online,     \* device._online
    conn,       \* "closed", "open" (connected) or "ready" (authenticated)
    queue,      \* packets in the protocol's receive queue
    received,   \* PushLAN.received
    spent,      \* environment events so far
    fate        \* history: what became of the change each call made last

lockVars == <<holder, waiters>>
lanVars  == <<conn, queue, received>>
vars == <<holder, waiters, pc, step, staged, device, appliance, frame, online,
          conn, queue, received, spent, fate>>

Holding == {"exchange", "draining", "recovering"}
Fates   == {"none", "pending", "carried", "sent", "replaced", "failed", "dropped"}
Packet  == [kind : {"report"}, attr : Attr, value : Value]
             \cup [kind : {"other", "fault"}]

-----------------------------------------------------------------------------
(* The lock.  A task that finds the lock free gets it at once: it queues    *)
(* and is granted with no step between.  Release only wakes the first      *)
(* waiter, which takes the lock when the loop runs it.                     *)

\* Slip: the lock is not respected.
GrantedUnlocked(t) ==
    /\ pc[t] = "waiting"
    /\ waiters # <<>>
    /\ Head(waiters) = t
    /\ waiters' = Tail(waiters)

Granted(t) ==
    /\ holder = NoTask
    /\ pc[t] = "waiting"
    /\ waiters # <<>>
    /\ Head(waiters) = t
    /\ waiters' = Tail(waiters)

\* Slip: a cancelled acquire() leaves its entry behind.
StayQueued(t) == UNCHANGED waiters

(* A cancelled acquire() takes its task out of the queue. *)
LeaveQueue(t) ==
    IF pc[t] = "waiting"
    THEN \E i \in DOMAIN waiters : waiters[i] = t /\ waiters' = RemoveAt(waiters, i)
    ELSE UNCHANGED waiters

\* Slip: only a finished shutdown stops new work.
ShutDown == pc["shutdown"] = "done"

ShuttingDown == pc["shutdown"] # "idle"

\* Slip: the frame is built from what is staged only.
StagedView == staged

(* The value the proxy shows for each attribute. *)
View == [a \in Attr |-> IF staged[a] # Unset THEN staged[a] ELSE device[a]]

NoChange == [a \in Attr |-> Unset]
NoFrame  == CHOOSE f \in [Attr -> Value] : TRUE

(* A finite number of faults, pushed packets and remote-control changes.    *)
Spend(kind) ==
    /\ spent[kind] < Budget[kind]
    /\ spent' = [spent EXCEPT ![kind] = @ + 1]

FaultQueued == \E i \in DOMAIN queue : queue[i].kind = "fault"

(* A LAN operation fails when its reader meets a lost connection, or when   *)
(* connecting, authenticating or waiting for an answer does.               *)
\* Slip: the failed transport is kept, with what is in its queue.
LanFailsOpen ==
    /\ \/ FaultQueued /\ UNCHANGED spent
       \/ Spend("fault")
    /\ UNCHANGED lanVars

LanFails ==
    /\ \/ FaultQueued /\ UNCHANGED spent
       \/ Spend("fault")
    /\ conn' = "closed"
    /\ queue' = <<>>
    /\ UNCHANGED received

-----------------------------------------------------------------------------
(* Service calls *)

Running(c) == Script[c][step[c]]

(* An entity stages its next change through the proxy and awaits            *)
(* coordinator.apply(), which suspends in the lock.  No call starts while   *)
(* the entity is unavailable or the entry is being unloaded; one that has   *)
(* started goes on.                                                        *)
Stage(c) ==
    /\ pc[c] = "idle"
    /\ step[c] <= Len(Script[c])
    /\ step[c] = 1 => online /\ ~ShuttingDown
    /\ staged' = [staged EXCEPT ![Running(c).attr] = Running(c).value]
    /\ waiters' = Append(waiters, c)
    /\ pc' = [pc EXCEPT ![c] = "waiting"]
    /\ fate' = [d \in Cmd |->
                  IF d = c THEN "pending"
                  ELSE IF fate[d] = "pending" /\ Running(d).attr = Running(c).attr
                  THEN "replaced" ELSE fate[d]]
    /\ UNCHANGED <<holder, step, device, appliance, frame, online, spent, lanVars>>

(* proxy.apply() copies every staged value onto the device and hands the    *)
(* whole device state to device.apply().                                   *)
BeginApply(c) ==
    /\ Granted(c)
    /\ holder' = c
    /\ device' = View
    /\ frame' = View
    /\ pc' = [pc EXCEPT ![c] = "exchange"]
    /\ fate' = [d \in Cmd |-> IF fate[d] = "pending" THEN "carried" ELSE fate[d]]
    /\ UNCHANGED <<step, staged, appliance, online, spent, lanVars>>

(* device.apply() returned: everything staged is cleared, the lock is       *)
(* released and a refresh is requested.  The request starts one and awaits  *)
(* it, or returns at once: one is running, the debouncer is cooling down,   *)
(* or it was shut down.                                                    *)
FinishApply(c) ==
    /\ staged' = NoChange
    /\ frame' = NoFrame
    /\ holder' = NoTask
    /\ step' = [step EXCEPT ![c] = @ + 1]
    /\ fate' = [d \in Cmd |-> CASE fate[d] = "carried" -> "sent"
                                [] fate[d] = "pending" -> "dropped"
                                [] OTHER -> fate[d]]
    /\ \/ /\ pc["poll"] = "idle" /\ ~ShuttingDown
          /\ pc' = [pc EXCEPT ![c] = "settling", !["poll"] = "waiting"]
          /\ waiters' = Append(waiters, "poll")
       \/ /\ pc' = [pc EXCEPT ![c] = "idle"]
          /\ UNCHANGED waiters

ApplyAnswered(c) ==
    /\ pc[c] = "exchange"
    /\ conn = "ready"
    /\ ~FaultQueued
    /\ appliance' = frame
    /\ device' = frame
    /\ online' = TRUE \/ UNCHANGED online
    /\ queue' = <<>>
    /\ FinishApply(c)
    /\ UNCHANGED <<conn, received, spent>>

(* The frame goes out only on an authenticated connection, and what is lost *)
(* may be the frame or its answer.                                         *)
MayReachAppliance ==
    \/ UNCHANGED appliance
    \/ conn = "ready" /\ appliance' = frame

(* The library reports a time-out by marking the device, not by raising.    *)
ApplyUnanswered(c) ==
    /\ pc[c] = "exchange"
    /\ LanFails
    /\ MayReachAppliance
    /\ online' = FALSE \/ UNCHANGED online
    /\ FinishApply(c)
    /\ UNCHANGED device

(* Other errors leave coordinator.apply(): what was staged stays staged and *)
(* the service call ends with the error.                                   *)
ApplyRaised(c) ==
    /\ pc[c] = "exchange"
    /\ LanFails
    /\ MayReachAppliance
    /\ holder' = NoTask
    /\ pc' = [pc EXCEPT ![c] = "idle"]
    /\ step' = [step EXCEPT ![c] = Len(Script[c]) + 1]
    /\ fate' = [d \in Cmd |->
                  CASE d = c -> "failed"
                    [] d # c /\ fate[d] = "carried" ->
                         IF staged[Running(d).attr] = Running(d).value
                         THEN "pending" ELSE "replaced"
                    [] OTHER -> fate[d]]
    /\ frame' = NoFrame
    /\ UNCHANGED <<waiters, staged, device, online>>

-----------------------------------------------------------------------------
(* Connection set-up inside an exchange *)

(* PushLAN._connect: a new protocol with a new, empty queue. *)
Connect(t) ==
    /\ pc[t] = "exchange"
    /\ conn = "closed"
    /\ conn' = "open"
    /\ queue' = <<>>
    /\ UNCHANGED <<lockVars, pc, step, staged, device, appliance, frame, online,
                   received, spent, fate>>

Authenticate(t) ==
    /\ pc[t] = "exchange"
    /\ conn = "open"
    /\ conn' = "ready"
    /\ UNCHANGED <<lockVars, pc, step, staged, device, appliance, frame, online,
                   queue, received, spent, fate>>

-----------------------------------------------------------------------------
(* The refresh *)

(* The polling timer fires; one refresh runs at a time. *)
PollStart ==
    /\ pc["poll"] = "idle"
    /\ ~ShuttingDown
    /\ waiters' = Append(waiters, "poll")
    /\ pc' = [pc EXCEPT !["poll"] = "waiting"]
    /\ UNCHANGED <<holder, step, staged, device, appliance, frame, online,
                   lanVars, spent, fate>>

BeginRefresh ==
    /\ Granted("poll")
    /\ holder' = "poll"
    /\ pc' = [pc EXCEPT !["poll"] = "exchange"]
    /\ UNCHANGED <<step, staged, device, appliance, frame, online, lanVars,
                   spent, fate>>

(* The refresh is over, and so is the wait of the calls that requested it.  *)
\* Slip: the calls that requested the refresh are not woken.
FinishRefreshAlone ==
    /\ holder' = NoTask
    /\ pc' = [pc EXCEPT !["poll"] = "idle"]

FinishRefresh ==
    /\ holder' = NoTask
    /\ pc' = [t \in Task |-> IF t = "poll" \/ pc[t] = "settling"
                             THEN "idle" ELSE pc[t]]

\* Slip: a refresh resets what is staged to the answer.
RefreshResets ==
    /\ pc["poll"] = "exchange"
    /\ conn = "ready"
    /\ ~FaultQueued
    /\ device' = appliance
    /\ staged' = NoChange
    /\ online' = TRUE
    /\ queue' = <<>>
    /\ FinishRefresh
    /\ UNCHANGED <<waiters, step, appliance, frame, conn, received, spent, fate>>

RefreshAnswered ==
    /\ pc["poll"] = "exchange"
    /\ conn = "ready"
    /\ ~FaultQueued
    /\ device' = appliance
    /\ online' = TRUE
    /\ queue' = <<>>
    /\ FinishRefresh
    /\ UNCHANGED <<waiters, step, staged, appliance, frame, conn, received,
                   spent, fate>>

(* No answer (the device is offline) or an error: look for a new address    *)
(* without letting go of the lock.                                         *)
RefreshFailed ==
    /\ pc["poll"] = "exchange"
    /\ LanFails
    /\ online' = FALSE \/ UNCHANGED online
    /\ pc' = [pc EXCEPT !["poll"] = "recovering"]
    /\ UNCHANGED <<lockVars, step, staged, device, appliance, frame, fate>>

RecoverAddress ==
    /\ pc["poll"] = "recovering"
    /\ FinishRefresh
    /\ UNCHANGED <<waiters, step, staged, device, appliance, frame, online,
                   lanVars, spent, fate>>

-----------------------------------------------------------------------------
(* The idle report listener, _async_listen *)

ListenerWake ==
    /\ pc["listen"] = "idle"
    /\ ~ShuttingDown
    /\ received
    /\ waiters' = Append(waiters, "listen")
    /\ pc' = [pc EXCEPT !["listen"] = "waiting"]
    /\ UNCHANGED <<holder, step, staged, device, appliance, frame, online,
                   lanVars, spent, fate>>

(* It clears the signal, and goes back to wait when nobody is connected. *)
ListenerBegin ==
    /\ Granted("listen")
    /\ ~ShuttingDown
    /\ received' = FALSE
    /\ \/ /\ conn = "ready"
          /\ holder' = "listen"
          /\ pc' = [pc EXCEPT !["listen"] = "draining"]
       \/ /\ conn # "ready"
          /\ pc' = [pc EXCEPT !["listen"] = "idle"]
          /\ UNCHANGED holder
    /\ UNCHANGED <<step, staged, device, appliance, frame, online, conn, queue,
                   spent, fate>>

ListenerDone ==
    /\ holder' = NoTask
    /\ pc' = [pc EXCEPT !["listen"] = "idle"]

(* One report: a partial update of the device, which is then online. *)
ListenerReport ==
    /\ pc["listen"] = "draining" /\ ~ShuttingDown
    /\ queue # <<>>
    /\ Head(queue).kind = "report"
    /\ device' = [device EXCEPT ![Head(queue).attr] = Head(queue).value]
    /\ online' = TRUE
    /\ queue' = Tail(queue)
    /\ UNCHANGED <<lockVars, pc, step, staged, appliance, frame, conn, received,
                   spent, fate>>

(* An unknown report or an invalid frame is counted and skipped. *)
ListenerSkip ==
    /\ pc["listen"] = "draining" /\ ~ShuttingDown
    /\ queue # <<>>
    /\ Head(queue).kind = "other"
    /\ queue' = Tail(queue)
    /\ UNCHANGED <<lockVars, pc, step, staged, device, appliance, frame, online,
                   conn, received, spent, fate>>

(* Any other error ends the drain, the connection and the availability. *)
ListenerFault ==
    /\ pc["listen"] = "draining" /\ ~ShuttingDown
    /\ queue # <<>>
    /\ Head(queue).kind = "fault"
    /\ conn' = "closed"
    /\ queue' = <<>>
    /\ online' = FALSE
    /\ ListenerDone
    /\ UNCHANGED <<waiters, step, staged, device, appliance, frame, received,
                   spent, fate>>

\* Slip: the listener stops before the queue is empty.
ListenerStops ==
    /\ pc["listen"] = "draining" /\ ~ShuttingDown
    /\ ListenerDone
    /\ UNCHANGED <<waiters, step, staged, device, appliance, frame, online,
                   lanVars, spent, fate>>

ListenerDrained ==
    /\ pc["listen"] = "draining" /\ ~ShuttingDown
    /\ queue = <<>>
    /\ ListenerDone
    /\ UNCHANGED <<waiters, step, staged, device, appliance, frame, online,
                   lanVars, spent, fate>>

-----------------------------------------------------------------------------
(* async_shutdown *)

(* The base class stops polling and refresh requests, and the listener is   *)
(* cancelled: from here its only step is ListenerCancelled.                *)
ShutdownRequest ==
    /\ pc["shutdown"] = "idle"
    /\ pc' = [pc EXCEPT !["shutdown"] = "cancelling"]
    /\ UNCHANGED <<lockVars, step, staged, device, appliance, frame, online,
                   lanVars, spent, fate>>

(* Wherever it was suspended: a cancelled acquire() leaves the lock's queue *)
(* and `async with` releases the lock.                                     *)
ListenerCancelled ==
    /\ pc["shutdown"] = "cancelling"
    /\ pc["listen"] # "done"
    /\ pc' = [pc EXCEPT !["listen"] = "done"]
    /\ holder' = IF holder = "listen" THEN NoTask ELSE holder
    /\ LeaveQueue("listen")
    /\ UNCHANGED <<step, staged, device, appliance, frame, online, lanVars,
                   spent, fate>>

(* The listener was gathered; the shutdown queues for the lock. *)
ShutdownWait ==
    /\ pc["shutdown"] = "cancelling"
    /\ pc["listen"] = "done"
    /\ waiters' = Append(waiters, "shutdown")
    /\ pc' = [pc EXCEPT !["shutdown"] = "waiting"]
    /\ UNCHANGED <<holder, step, staged, device, appliance, frame, online,
                   lanVars, spent, fate>>

ShutdownDisconnect ==
    /\ Granted("shutdown")
    /\ conn' = "closed"
    /\ queue' = <<>>
    /\ pc' = [pc EXCEPT !["shutdown"] = "done"]
    /\ UNCHANGED <<holder, step, staged, device, appliance, frame, online,
                   received, spent, fate>>

-----------------------------------------------------------------------------
(* The appliance and the network *)

Arrives(packet) ==
    /\ conn # "closed"
    /\ queue' = Append(queue, packet)
    /\ received' = TRUE
    /\ UNCHANGED <<lockVars, pc, step, staged, device, appliance, frame, online,
                   conn, fate>>

PushReport(a) ==
    /\ Spend("push")
    /\ Arrives([kind |-> "report", attr |-> a, value |-> appliance[a]])

PushOther == Spend("push") /\ Arrives([kind |-> "other"])

(* The protocol queues the exception its next reader raises. *)
ConnectionLost == Spend("fault") /\ Arrives([kind |-> "fault"])

(* Someone uses the infrared remote control. *)
RemoteControl(a, v) ==
    /\ appliance[a] # v
    /\ Spend("remote")
    /\ appliance' = [appliance EXCEPT ![a] = v]
    /\ UNCHANGED <<lockVars, pc, step, staged, device, frame, online, lanVars, fate>>

-----------------------------------------------------------------------------
(* After the shutdown every call has returned and no task is left. *)
Stopped ==
    /\ pc["shutdown"] = "done"
    /\ \A t \in LanTask : pc[t] = "idle"
    /\ \A c \in Cmd : step[c] = 1 \/ step[c] > Len(Script[c])
    /\ UNCHANGED vars

(* Setup ends after a first refresh: answered, or left without an answer.   *)
Init ==
    /\ holder = NoTask
    /\ waiters = <<>>
    /\ pc = [t \in Task |-> "idle"]
    /\ step = [c \in Cmd |-> 1]
    /\ staged = NoChange
    /\ appliance \in [Attr -> Value]
    /\ \/ online = TRUE /\ conn = "ready" /\ device = appliance
       \/ online = FALSE /\ conn = "closed" /\ device \in [Attr -> Value]
    /\ frame = NoFrame
    /\ queue = <<>>
    /\ received = FALSE
    /\ spent = [k \in EnvEvent |-> 0]
    /\ fate = [c \in Cmd |-> "none"]

Apply(c) ==
    \/ BeginApply(c)
    \/ ApplyAnswered(c)
    \/ ApplyUnanswered(c)
    \/ ApplyRaised(c)

Refresh == BeginRefresh \/ RefreshAnswered \/ RefreshFailed \/ RecoverAddress

Listen ==
    \/ ListenerWake
    \/ ListenerBegin
    \/ ListenerReport
    \/ ListenerSkip
    \/ ListenerFault
    \/ ListenerDrained

Shutdown == ListenerCancelled \/ ShutdownWait \/ ShutdownDisconnect

Environment ==
    \/ \E a \in Attr : PushReport(a)
    \/ PushOther
    \/ ConnectionLost
    \/ \E a \in Attr, v \in Value : RemoteControl(a, v)

Next ==
    \/ \E c \in Cmd : Stage(c) \/ Apply(c)
    \/ \E t \in LanTask : Connect(t) \/ Authenticate(t)
    \/ PollStart
    \/ Refresh
    \/ Listen
    \/ ShutdownRequest
    \/ Shutdown
    \/ Environment
    \/ Stopped

Spec == Init /\ [][Next]_vars

(* The event loop runs every task that can run, the library bounds every    *)
(* exchange and every recovery by time-outs, and the polling timer fires.   *)
(* Users, the network and the unload owe nothing.                          *)
Fairness ==
    /\ \A c \in Cmd : WF_vars(Apply(c)) /\ WF_vars(step[c] > 1 /\ Stage(c))
    /\ \A t \in LanTask : WF_vars(Connect(t) \/ Authenticate(t))
    /\ WF_vars(PollStart)
    /\ WF_vars(Refresh)
    /\ WF_vars(Listen)
    /\ WF_vars(Shutdown)

FairSpec == Spec /\ Fairness
-----------------------------------------------------------------------------
(* Properties *)

TaskTypes ==
    /\ holder \in Task \cup {NoTask}
    /\ waiters \in Seq(Task)
    /\ pc \in [Task -> Holding \cup {"idle", "waiting", "settling", "cancelling", "done"}]
    /\ step \in [Cmd -> Nat \ {0}]
    /\ fate \in [Cmd -> Fates]

DeviceTypes ==
    /\ staged \in [Attr -> Value \cup {Unset}]
    /\ device \in [Attr -> Value]
    /\ appliance \in [Attr -> Value]
    /\ frame \in [Attr -> Value]

LanTypes ==
    /\ conn \in {"closed", "open", "ready"}
    /\ queue \in Seq(Packet)
    /\ spent \in [EnvEvent -> Nat]

FlagTypes == online \in BOOLEAN /\ received \in BOOLEAN

(* Every variable keeps its type. *)
TypeOK == TaskTypes /\ DeviceTypes /\ LanTypes /\ FlagTypes

(* Commands, refreshes, address recovery and idle reading never overlap on  *)
(* the LAN: whoever is between two awaits of a locked section holds the     *)
(* lock (coordinator.py:78, "share the same lock").                         *)
LanExclusive == \A t \in Task : pc[t] \in Holding <=> holder = t

(* Every suspended task is in the lock's queue exactly once, also after a   *)
(* cancellation took one out: nobody waits for a lock that will never wake  *)
(* it, and nobody is woken twice.                                           *)
WaitersQueued ==
    /\ ToSet(waiters) = {t \in Task : pc[t] = "waiting"}
    /\ IsInjective(waiters)

(* No report is stranded: while packets lie in the queue of a live          *)
(* connection, the signal is set or the listener is already draining, even  *)
(* though commands consume packets without clearing the signal and the      *)
(* listener clears it without consuming any.                                *)
NoLostWakeup ==
    (conn # "closed" /\ queue # <<>> /\ pc["listen"] \notin {"draining", "done"})
        => received

(* A change that waits stays staged until an apply carries it in its frame, *)
(* a later call asks for something else, or another call's apply clears it  *)
(* (which is NoLostChange's question): no refresh, report or failed         *)
(* exchange may overwrite it, and a carried one is in the frame             *)
(* (test_coordinator.py:163, test_lan_push.py:241).                        *)
PendingKept ==
    \A c \in Cmd :
        /\ fate[c] = "pending" => staged[Running(c).attr] = Running(c).value
        /\ fate[c] = "carried" => frame[Running(c).attr] = Running(c).value

(* "Apply changes to the device" (coordinator.py:149): no staged change is  *)
(* thrown away before some frame carried it.                                *)
NoLostChange == \A c \in Cmd : fate[c] # "dropped"

(* async_shutdown closes the socket (coordinator.py:116), and nothing opens *)
(* it again.                                                                *)
ClosedAfterShutdown == pc["shutdown"] = "done" => conn = "closed"

(* A service call that queued for the lock returns. *)
CallsReturn == \A c \in Cmd : pc[c] # "idle" ~> pc[c] = "idle"

(* A shutdown completes whatever the listener and the lock were doing. *)
ShutdownCompletes == ShuttingDown ~> pc["shutdown"] = "done"

(* An apply that raised left this attribute shown as it was asked for.      *)
LeftStaged(a) ==
    \E c \in Cmd :
        /\ fate[c] = "failed"
        /\ [attr |-> a, value |-> staged[a]] \in ToSet(Script[c])

(* Once the network behaves, polling brings the device back, and what the   *)
(* entities show becomes and stays the state of the appliance, whatever was *)
(* staged, carried, reported and changed by hand before.  Only a change     *)
(* whose apply raised may stay shown (device_proxy.py:53 is then not        *)
(* followed by the clear), until another call's apply clears it.            *)
Converges ==
    <>[](\/ ShuttingDown
         \/ /\ online /\ device = appliance
            /\ \A a \in Attr : View[a] # appliance[a] => LeftStaged(a))
=============================================================================
