---------------------- MODULE DeviceCoordinatorProofs ----------------------
(***************************************************************************)
(* Theorems about DeviceCoordinator, for any set of service calls, any     *)
(* scripts and any number of environment events.                           *)
(***************************************************************************)
EXTENDS DeviceCoordinator, SequenceTheorems, TLAPS

(* The tasks that are not service calls are tasks. *)
LEMMA TaskFacts ==
    /\ Cmd \subseteq LanTask
    /\ LanTask \subseteq Task
    /\ {"poll", "listen", "shutdown"} \subseteq Task
    /\ "poll" \in LanTask
    /\ "poll" \notin Cmd /\ "listen" \notin LanTask /\ "shutdown" \notin LanTask
    /\ NoTask \notin Task
BY CmdAssumption, NoTaskAssumption DEF Task, LanTask

(* A change that a service call is at has the type of a change. *)
LEMMA RunningType ==
    ASSUME NEW c \in Cmd, step[c] \in Nat \ {0}, step[c] <= Len(Script[c])
    PROVE  Running(c) \in Change
BY ScriptAssumption DEF Running

(* Taking a waiter out of the lock's queue leaves a queue of tasks. *)
LEMMA RemoveAtType ==
    ASSUME NEW S, NEW s \in Seq(S), NEW i \in DOMAIN s
    PROVE  RemoveAt(s, i) \in Seq(S)
<1>1. SubSeq(s, 1, i-1) \in Seq(S)
  BY SubSeqProperties
<1>2. SubSeq(s, i+1, Len(s)) \in Seq(S)
  BY SubSeqProperties
<1>3. QED
  BY <1>1, <1>2, ConcatProperties DEF RemoveAt

LEMMA EmptyQueue == <<>> \in Seq(Packet)
BY EmptySeq

LEMMA NoFrameType == NoFrame \in [Attr -> Value]
<1>1. PICK v \in Value : TRUE
  BY ValueAssumption
<1>2. [a \in Attr |-> v] \in [Attr -> Value]
  OBVIOUS
<1>3. QED
  BY <1>2 DEF NoFrame

-----------------------------------------------------------------------------
(* Type correctness *)

(* What every action that ends a service call's exchange does to the tasks. *)
LEMMA FinishApplyTypes ==
    ASSUME TypeOK, NEW c \in Cmd, FinishApply(c)
    PROVE  TaskTypes'
<1> USE TaskFacts DEF TypeOK, TaskTypes, FinishApply
<1>1. holder' \in Task \cup {NoTask} /\ step' \in [Cmd -> Nat \ {0}]
  OBVIOUS
<1>2. waiters' \in Seq(Task)
  <2>1. Append(waiters, "poll") \in Seq(Task)
    BY AppendProperties
  <2>2. QED
    BY <2>1
<1>3. pc' \in [Task -> Holding \cup {"idle", "waiting", "settling", "cancelling", "done"}]
  OBVIOUS
<1>4. fate' \in [Cmd -> Fates]
  BY DEF Fates
<1>5. QED
  BY <1>1, <1>2, <1>3, <1>4

(* A fault that is charged to the budget leaves a count. *)
LEMMA SpendType ==
    ASSUME TypeOK, NEW k \in EnvEvent, Spend(k)
    PROVE  spent' \in [EnvEvent -> Nat]
BY BudgetAssumption DEF TypeOK, LanTypes, Spend

LEMMA LanFailsTypes ==
    ASSUME TypeOK, LanFails
    PROVE  LanTypes'
<1>1. spent' \in [EnvEvent -> Nat]
  BY SpendType DEF LanFails, TypeOK, LanTypes, EnvEvent
<1>2. QED
  BY <1>1, EmptyQueue DEF LanTypes, LanFails

LEMMA TypeInit == Init => TypeOK
<1> SUFFICES ASSUME Init PROVE TypeOK
  OBVIOUS
<1> USE DEF Init
<1>1. TaskTypes
  BY DEF TaskTypes, Fates
<1>2. DeviceTypes
  BY NoFrameType DEF DeviceTypes, NoChange
<1>3. LanTypes
  BY DEF LanTypes
<1>4. FlagTypes
  BY DEF FlagTypes
<1>5. QED
  BY <1>1, <1>2, <1>3, <1>4 DEF TypeOK

LEMMA TypeStep == TypeOK /\ [Next]_vars => TypeOK'
<1> SUFFICES ASSUME TypeOK, [Next]_vars PROVE TypeOK'
  OBVIOUS
<1> USE TaskFacts, EmptyQueue, NoFrameType DEF TypeOK, lockVars, lanVars
<1>1. ASSUME NEW c \in Cmd, Stage(c) PROVE TypeOK'
  <2>1. Running(c) \in Change
    BY <1>1, RunningType DEF Stage, TaskTypes
  <2>2. TaskTypes'
    BY <1>1 DEF TaskTypes, Stage, Fates
  <2>3. DeviceTypes'
    BY <1>1, <2>1 DEF DeviceTypes, Stage, Change
  <2>4. LanTypes'
    BY <1>1 DEF LanTypes, Stage
  <2>5. FlagTypes'
    BY <1>1 DEF FlagTypes, Stage
  <2>6. QED
    BY <2>2, <2>3, <2>4, <2>5
<1>2. ASSUME NEW c \in Cmd, BeginApply(c) PROVE TypeOK'
  <2>1. TaskTypes'
    BY <1>2 DEF TaskTypes, Holding, Fates, BeginApply, Granted
  <2>2. DeviceTypes'
    BY <1>2 DEF DeviceTypes, BeginApply, View
  <2>3. LanTypes'
    BY <1>2 DEF LanTypes, BeginApply
  <2>4. FlagTypes'
    BY <1>2 DEF FlagTypes, BeginApply
  <2>5. QED
    BY <2>1, <2>2, <2>3, <2>4
<1>3. ASSUME NEW c \in Cmd, ApplyAnswered(c) PROVE TypeOK'
  <2>1. TaskTypes'
    BY <1>3, FinishApplyTypes DEF ApplyAnswered
  <2>2. DeviceTypes'
    BY <1>3 DEF DeviceTypes, ApplyAnswered, FinishApply, NoChange
  <2>3. LanTypes'
    BY <1>3 DEF LanTypes, ApplyAnswered
  <2>4. FlagTypes'
    BY <1>3 DEF FlagTypes, ApplyAnswered
  <2>5. QED
    BY <2>1, <2>2, <2>3, <2>4
<1>4. ASSUME NEW c \in Cmd, ApplyUnanswered(c) PROVE TypeOK'
  <2>1. TaskTypes'
    BY <1>4, FinishApplyTypes DEF ApplyUnanswered
  <2>2. DeviceTypes'
    BY <1>4 DEF DeviceTypes, ApplyUnanswered, FinishApply, NoChange, MayReachAppliance
  <2>3. LanTypes'
    BY <1>4, LanFailsTypes DEF ApplyUnanswered
  <2>4. FlagTypes'
    BY <1>4 DEF FlagTypes, ApplyUnanswered, LanFails
  <2>5. QED
    BY <2>1, <2>2, <2>3, <2>4
<1>5. ASSUME NEW c \in Cmd, ApplyRaised(c) PROVE TypeOK'
  <2>1. TaskTypes'
    BY <1>5, ScriptAssumption DEF TaskTypes, Holding, Fates, ApplyRaised
  <2>2. DeviceTypes'
    BY <1>5 DEF DeviceTypes, ApplyRaised, MayReachAppliance
  <2>3. LanTypes'
    BY <1>5, LanFailsTypes DEF ApplyRaised
  <2>4. FlagTypes'
    BY <1>5 DEF FlagTypes, ApplyRaised, LanFails
  <2>5. QED
    BY <2>1, <2>2, <2>3, <2>4
<1>6. ASSUME NEW t \in LanTask, Connect(t) \/ Authenticate(t) PROVE TypeOK'
  <2>1. TaskTypes'
    BY <1>6 DEF TaskTypes, Holding, Fates, Connect, Authenticate
  <2>2. DeviceTypes'
    BY <1>6 DEF DeviceTypes, Connect, Authenticate
  <2>3. LanTypes'
    BY <1>6 DEF LanTypes, Connect, Authenticate
  <2>4. FlagTypes'
    BY <1>6 DEF FlagTypes, Connect, Authenticate
  <2>5. QED
    BY <2>1, <2>2, <2>3, <2>4
<1>7. CASE PollStart
  <2>1. TaskTypes'
    BY <1>7 DEF TaskTypes, Holding, Fates, PollStart
  <2>2. DeviceTypes'
    BY <1>7 DEF DeviceTypes, PollStart
  <2>3. LanTypes'
    BY <1>7 DEF LanTypes, PollStart
  <2>4. FlagTypes'
    BY <1>7 DEF FlagTypes, PollStart
  <2>5. QED
    BY <2>1, <2>2, <2>3, <2>4
<1>8. CASE Refresh
  <2> USE DEF TaskTypes, DeviceTypes, FlagTypes, Holding
  <2>1. CASE BeginRefresh
    BY <2>1 DEF BeginRefresh, Granted, LanTypes
  <2>2. CASE RefreshAnswered
    <3>1. TaskTypes'
      BY <2>2 DEF RefreshAnswered, FinishRefresh
    <3>2. LanTypes'
      BY <2>2 DEF RefreshAnswered, LanTypes
    <3>3. QED
      BY <2>2, <3>1, <3>2 DEF RefreshAnswered
  <2>3. CASE RefreshFailed
    <3>1. LanTypes'
      BY <2>3, LanFailsTypes DEF RefreshFailed
    <3>2. QED
      BY <2>3, <3>1 DEF RefreshFailed, LanFails
  <2>4. CASE RecoverAddress
    <3>1. TaskTypes'
      BY <2>4 DEF RecoverAddress, FinishRefresh
    <3>2. QED
      BY <2>4, <3>1 DEF RecoverAddress, LanTypes
  <2>5. QED
    BY <1>8, <2>1, <2>2, <2>3, <2>4 DEF Refresh
<1>9. CASE Listen
  <2> USE DEF TaskTypes, DeviceTypes, FlagTypes, Holding
  <2>1. CASE ListenerWake
    BY <2>1 DEF ListenerWake, LanTypes
  <2>2. CASE ListenerBegin
    <3>1. Tail(waiters) \in Seq(Task)
      BY <2>2, HeadTailProperties DEF ListenerBegin, Granted
    <3>2. TaskTypes'
      BY <2>2, <3>1 DEF ListenerBegin, Granted
    <3>3. QED
      BY <2>2, <3>2 DEF ListenerBegin, LanTypes
  <2>3. CASE ListenerReport
    <3>1. Head(queue) \in Packet /\ Tail(queue) \in Seq(Packet)
      BY <2>3, HeadTailProperties DEF ListenerReport, LanTypes
    <3>2. Head(queue).attr \in Attr /\ Head(queue).value \in Value
      BY <2>3, <3>1 DEF ListenerReport, Packet
    <3>3. LanTypes'
      BY <2>3, <3>1 DEF ListenerReport, LanTypes
    <3>4. QED
      BY <2>3, <3>2, <3>3 DEF ListenerReport
  <2>4. CASE ListenerSkip
    <3>1. Tail(queue) \in Seq(Packet)
      BY <2>4, HeadTailProperties DEF ListenerSkip, LanTypes
    <3>2. QED
      BY <2>4, <3>1 DEF ListenerSkip, LanTypes
  <2>5. CASE ListenerFault
    <3>1. LanTypes'
      BY <2>5 DEF ListenerFault, LanTypes
    <3>2. QED
      BY <2>5, <3>1 DEF ListenerFault, ListenerDone
  <2>6. CASE ListenerDrained
    BY <2>6 DEF ListenerDrained, ListenerDone, LanTypes
  <2>7. QED
    BY <1>9, <2>1, <2>2, <2>3, <2>4, <2>5, <2>6 DEF Listen
<1>10. CASE ShutdownRequest
  <2>1. TaskTypes'
    BY <1>10 DEF TaskTypes, Holding, Fates, ShutdownRequest
  <2>2. DeviceTypes'
    BY <1>10 DEF DeviceTypes, ShutdownRequest
  <2>3. LanTypes'
    BY <1>10 DEF LanTypes, ShutdownRequest
  <2>4. FlagTypes'
    BY <1>10 DEF FlagTypes, ShutdownRequest
  <2>5. QED
    BY <2>1, <2>2, <2>3, <2>4
<1>11. CASE Shutdown
  <2>1. TaskTypes'
    <3>1. CASE ListenerCancelled
      <4>1. waiters' \in Seq(Task)
        BY <3>1, RemoveAtType DEF ListenerCancelled, LeaveQueue, TaskTypes
      <4>2. QED
        BY <3>1, <4>1 DEF TaskTypes, Holding, ListenerCancelled, LeaveQueue
    <3>2. CASE ShutdownWait
      BY <3>2 DEF TaskTypes, ShutdownWait
    <3>3. CASE ShutdownDisconnect
      BY <3>3 DEF TaskTypes, ShutdownDisconnect, Granted
    <3>4. QED
      BY <1>11, <3>1, <3>2, <3>3 DEF Shutdown
  <2>2. DeviceTypes'
    BY <1>11 DEF DeviceTypes, Shutdown, ListenerCancelled, ShutdownWait,
       ShutdownDisconnect
  <2>3. LanTypes'
    BY <1>11 DEF LanTypes, Shutdown, ListenerCancelled, ShutdownWait, ShutdownDisconnect
  <2>4. FlagTypes'
    BY <1>11 DEF FlagTypes, Shutdown, ListenerCancelled, ShutdownWait, ShutdownDisconnect
  <2>5. QED
    BY <2>1, <2>2, <2>3, <2>4
<1>12. CASE Environment
  <2> USE SpendType DEF EnvEvent
  <2>1. ASSUME NEW p \in Packet, Arrives(p), spent' \in [EnvEvent -> Nat] PROVE TypeOK'
    BY <2>1, AppendProperties DEF Arrives, TaskTypes, DeviceTypes, LanTypes, FlagTypes
  <2>2. ASSUME NEW a \in Attr, PushReport(a) PROVE TypeOK'
    <3>1. [kind |-> "report", attr |-> a, value |-> appliance[a]] \in Packet
      BY DEF Packet, DeviceTypes
    <3>2. QED
      BY <2>1, <2>2, <3>1 DEF PushReport
  <2>3. CASE PushOther
    BY <2>1, <2>3 DEF PushOther, Packet
  <2>4. CASE ConnectionLost
    BY <2>1, <2>4 DEF ConnectionLost, Packet
  <2>5. ASSUME NEW a \in Attr, NEW v \in Value, RemoteControl(a, v) PROVE TypeOK'
    BY <2>5 DEF RemoteControl, TaskTypes, DeviceTypes, LanTypes, FlagTypes
  <2>6. QED
    BY <1>12, <2>2, <2>3, <2>4, <2>5 DEF Environment
<1>13. CASE UNCHANGED vars
  BY <1>13 DEF vars, TaskTypes, DeviceTypes, LanTypes, FlagTypes
<1>14. QED
  BY <1>1, <1>2, <1>3, <1>4, <1>5, <1>6, <1>7, <1>8, <1>9, <1>10, <1>11, <1>12, <1>13
  DEF Next, Apply, Stopped

(* Every variable keeps its type, whatever the scripts and the budget. *)
THEOREM TypeCorrect == Spec => []TypeOK
BY TypeInit, TypeStep, PTL DEF Spec

-----------------------------------------------------------------------------
(* One task at a time on the LAN *)

LEMMA ExclusiveInit == Init => LanExclusive
BY TaskFacts DEF Init, LanExclusive, Holding

LEMMA ExclusiveStep == TypeOK /\ LanExclusive /\ [Next]_vars => LanExclusive'
<1> SUFFICES ASSUME TypeOK, LanExclusive, [Next]_vars PROVE LanExclusive'
  OBVIOUS
<1> USE TaskFacts DEF TypeOK, TaskTypes, LanExclusive, lockVars, Holding
<1>1. ASSUME NEW c \in Cmd, Stage(c) PROVE LanExclusive'
  BY <1>1 DEF Stage
<1>2. ASSUME NEW c \in Cmd, BeginApply(c) PROVE LanExclusive'
  BY <1>2 DEF BeginApply, Granted
<1>3. ASSUME NEW c \in Cmd, pc[c] = "exchange", FinishApply(c) PROVE LanExclusive'
  BY <1>3 DEF FinishApply
<1>4. ASSUME NEW c \in Cmd, ApplyRaised(c) PROVE LanExclusive'
  BY <1>4 DEF ApplyRaised
<1>5. ASSUME NEW t \in LanTask, Connect(t) \/ Authenticate(t) PROVE LanExclusive'
  BY <1>5 DEF Connect, Authenticate
<1>6. CASE PollStart
  BY <1>6 DEF PollStart
<1>7. CASE BeginRefresh
  BY <1>7 DEF BeginRefresh, Granted
<1>8. CASE RefreshFailed
  BY <1>8 DEF RefreshFailed
<1>9. CASE RefreshAnswered \/ RecoverAddress
  BY <1>9 DEF RefreshAnswered, RecoverAddress, FinishRefresh
<1>10. CASE ListenerWake \/ ListenerReport \/ ListenerSkip
  BY <1>10 DEF ListenerWake, ListenerReport, ListenerSkip
<1>11. CASE ListenerBegin
  BY <1>11 DEF ListenerBegin, Granted
<1>12. CASE ListenerFault \/ ListenerDrained
  BY <1>12 DEF ListenerFault, ListenerDrained, ListenerDone
<1>13. CASE ShutdownRequest \/ ShutdownWait
  BY <1>13 DEF ShutdownRequest, ShutdownWait
<1>14. CASE ListenerCancelled
  BY <1>14 DEF ListenerCancelled, LeaveQueue
<1>15. CASE ShutdownDisconnect
  BY <1>15 DEF ShutdownDisconnect, Granted
<1>16. CASE Environment
  BY <1>16 DEF Environment, PushReport, PushOther, ConnectionLost, Arrives, RemoteControl
<1>17. CASE UNCHANGED vars
  BY <1>17 DEF vars
<1>18. QED
  BY <1>1, <1>2, <1>3, <1>4, <1>5, <1>6, <1>7, <1>8, <1>9, <1>10, <1>11, <1>12, <1>13,
     <1>14, <1>15, <1>16, <1>17
  DEF Next, Apply, ApplyAnswered, ApplyUnanswered, Refresh, Listen, Shutdown, Stopped

(* Commands, refreshes, address recovery and idle reading never overlap,    *)
(* for any number of service calls.                                         *)
THEOREM LanExclusiveAlways == Spec => []LanExclusive
BY TypeCorrect, ExclusiveInit, ExclusiveStep, PTL DEF Spec

-----------------------------------------------------------------------------
(* No stranded report.  The listener clears the signal whenever it gets the *)
(* lock, so the argument needs what the state of the connection is then:    *)
(* half set up only inside an exchange, and without a queue when closed.    *)

WakeupInv ==
    /\ conn = "open" => holder # NoTask
    /\ conn = "closed" => queue = <<>>
    /\ holder = "listen" => conn = "ready"
    /\ pc["poll"] = "recovering" => conn = "closed"
    /\ NoLostWakeup

LEMMA WakeupInit == Init => WakeupInv
BY TaskFacts DEF Init, WakeupInv, NoLostWakeup

LEMMA WakeupStep ==
    TypeOK /\ LanExclusive /\ WakeupInv /\ [Next]_vars => WakeupInv'
<1> SUFFICES ASSUME TypeOK, LanExclusive, WakeupInv, [Next]_vars PROVE WakeupInv'
  OBVIOUS
<1> USE TaskFacts
    DEF TypeOK, TaskTypes, LanExclusive, WakeupInv, NoLostWakeup, lockVars, lanVars, Holding
<1>1. ASSUME NEW c \in Cmd, Stage(c) PROVE WakeupInv'
  BY <1>1 DEF Stage
<1>2. ASSUME NEW c \in Cmd, BeginApply(c) PROVE WakeupInv'
  BY <1>2 DEF BeginApply, Granted
<1>3. ASSUME NEW c \in Cmd, ApplyAnswered(c) PROVE WakeupInv'
  BY <1>3 DEF ApplyAnswered, FinishApply
<1>4. ASSUME NEW c \in Cmd, ApplyUnanswered(c) PROVE WakeupInv'
  BY <1>4 DEF ApplyUnanswered, FinishApply, LanFails
<1>5. ASSUME NEW c \in Cmd, ApplyRaised(c) PROVE WakeupInv'
  BY <1>5 DEF ApplyRaised, LanFails
<1>6. ASSUME NEW t \in LanTask, Connect(t) \/ Authenticate(t) PROVE WakeupInv'
  BY <1>6 DEF Connect, Authenticate
<1>7. CASE PollStart
  BY <1>7 DEF PollStart
<1>8. CASE Refresh
  <2>1. CASE BeginRefresh
    BY <2>1 DEF BeginRefresh, Granted
  <2>2. CASE RefreshAnswered
    BY <2>2 DEF RefreshAnswered, FinishRefresh
  <2>3. CASE RefreshFailed
    BY <2>3 DEF RefreshFailed, LanFails
  <2>4. CASE RecoverAddress
    BY <2>4 DEF RecoverAddress, FinishRefresh
  <2>5. QED
    BY <1>8, <2>1, <2>2, <2>3, <2>4 DEF Refresh
<1>9. CASE ListenerWake \/ ListenerReport \/ ListenerSkip
  BY <1>9 DEF ListenerWake, ListenerReport, ListenerSkip
<1>10. CASE ListenerBegin
  <2>1. conn = "ready" \/ conn = "closed"
    BY <1>10 DEF ListenerBegin, Granted, LanTypes
  <2>2. QED
    BY <1>10, <2>1 DEF ListenerBegin, Granted
<1>11. CASE ListenerFault \/ ListenerDrained
  BY <1>11 DEF ListenerFault, ListenerDrained, ListenerDone
<1>12. CASE ShutdownRequest \/ ShutdownWait
  BY <1>12 DEF ShutdownRequest, ShutdownWait
<1>13. CASE ListenerCancelled
  BY <1>13 DEF ListenerCancelled, LeaveQueue
<1>14. CASE ShutdownDisconnect
  BY <1>14 DEF ShutdownDisconnect, Granted
<1>15. CASE Environment
  BY <1>15 DEF Environment, PushReport, PushOther, ConnectionLost, Arrives, RemoteControl
<1>16. CASE UNCHANGED vars
  BY <1>16 DEF vars
<1>17. QED
  BY <1>1, <1>2, <1>3, <1>4, <1>5, <1>6, <1>7, <1>8, <1>9, <1>10, <1>11, <1>12, <1>13,
     <1>14, <1>15, <1>16
  DEF Next, Apply, Listen, Shutdown, Stopped

(* Packets in the queue of a live connection always have a reader on its    *)
(* way.                                                                     *)
THEOREM NoLostWakeupAlways == Spec => []NoLostWakeup
<1>1. Spec => []WakeupInv
  BY TypeCorrect, LanExclusiveAlways, WakeupInit, WakeupStep, PTL DEF Spec
<1>2. WakeupInv => NoLostWakeup
  BY DEF WakeupInv
<1>3. QED
  BY <1>1, <1>2, PTL

-----------------------------------------------------------------------------
(* Pending changes.  A change is pending only while its call waits for the  *)
(* lock, and carried only while some call's exchange is running; Running(c) *)
(* is then the change the call staged.                                      *)

PendingInv ==
    /\ PendingKept
    /\ \A c \in Cmd :
        /\ pc[c] \in {"waiting", "exchange"} => step[c] <= Len(Script[c])
        /\ fate[c] = "pending" => pc[c] = "waiting"
        /\ fate[c] = "carried" => pc[c] \in {"waiting", "exchange"} /\ holder \in Cmd

LEMMA PendingInit == Init => PendingInv
BY TaskFacts DEF Init, PendingInv, PendingKept

(* Steps of the refresh, the listener, the shutdown and the environment.    *)
LEMMA PendingUntouched ==
    ASSUME PendingInv,
           UNCHANGED <<step, staged, frame, fate>>,
           \A c \in Cmd : pc[c] # "settling" => pc'[c] = pc[c],
           \A c \in Cmd : pc[c] = "settling" => pc'[c] \in {"settling", "idle"},
           holder \in Cmd => holder' = holder
    PROVE  PendingInv'
BY DEF PendingInv, PendingKept, Running

LEMMA PendingStep ==
    TypeOK /\ LanExclusive /\ PendingInv /\ [Next]_vars => PendingInv'
<1> SUFFICES ASSUME TypeOK, LanExclusive, PendingInv, [Next]_vars PROVE PendingInv'
  OBVIOUS
<1> USE TaskFacts DEF TypeOK, TaskTypes, LanExclusive, lockVars, Holding
<1>1. ASSUME NEW c \in Cmd, Stage(c) PROVE PendingInv'
  <2>1. Running(c) \in Change
    BY <1>1, RunningType DEF Stage
  <2>2. \A d \in Cmd : Running(d)' = Running(d)
    BY <1>1 DEF Stage, Running
  <2>3. fate[c] \notin {"pending", "carried"}
    BY <1>1 DEF Stage, PendingInv
  <2>4. \A d \in Cmd : fate'[d] = "pending" =>
          /\ staged'[Running(d).attr] = Running(d).value
          /\ pc'[d] = "waiting"
    <3> SUFFICES ASSUME NEW d \in Cmd, fate'[d] = "pending"
                 PROVE  staged'[Running(d).attr] = Running(d).value /\ pc'[d] = "waiting"
      OBVIOUS
    <3>1. CASE d = c
      BY <1>1, <2>1, <3>1 DEF Stage, DeviceTypes, Change
    <3>2. CASE d # c
      <4>1. fate[d] = "pending" /\ Running(d).attr # Running(c).attr
        BY <1>1, <3>2 DEF Stage
      <4>2. staged[Running(d).attr] = Running(d).value /\ pc[d] = "waiting"
        BY <4>1 DEF PendingInv, PendingKept
      <4>3. QED
        BY <1>1, <2>1, <3>2, <4>1, <4>2 DEF Stage, DeviceTypes
    <3>3. QED
      BY <3>1, <3>2
  <2>5. \A d \in Cmd : fate'[d] = "carried" =>
          /\ frame'[Running(d).attr] = Running(d).value
          /\ pc'[d] \in {"waiting", "exchange"} /\ holder' \in Cmd
    BY <1>1 DEF Stage, PendingInv, PendingKept
  <2>6. QED
    BY <1>1, <2>2, <2>4, <2>5 DEF Stage, PendingInv, PendingKept
<1>2. ASSUME NEW c \in Cmd, BeginApply(c) PROVE PendingInv'
  <2>1. \A d \in Cmd : fate[d] # "carried"
    BY <1>2, NoTaskAssumption DEF BeginApply, Granted, PendingInv
  <2>2. \A d \in Cmd : fate[d] = "pending" =>
          /\ Running(d) \in Change
          /\ staged[Running(d).attr] = Running(d).value
          /\ pc[d] = "waiting"
    BY RunningType DEF PendingInv, PendingKept
  <2>3. \A d \in Cmd : fate[d] = "pending" => frame'[Running(d).attr] = Running(d).value
    BY <1>2, <2>2, ValueAssumption DEF BeginApply, View, Change
  <2>4. \A d \in Cmd : Running(d)' = Running(d)
    BY <1>2 DEF BeginApply, Running
  <2>5. QED
    BY <1>2, <2>1, <2>2, <2>3, <2>4 DEF BeginApply, Granted, PendingInv, PendingKept
<1>3. ASSUME NEW c \in Cmd, pc[c] = "exchange", FinishApply(c) PROVE PendingInv'
  <2>1. \A d \in Cmd : fate'[d] \notin {"pending", "carried"}
    BY <1>3 DEF FinishApply
  <2>2. \A d \in Cmd : pc'[d] \in {"waiting", "exchange"} => d # c /\ pc'[d] = pc[d] /\ step'[d] = step[d]
    BY <1>3 DEF FinishApply
  <2>3. QED
    BY <2>1, <2>2 DEF PendingInv, PendingKept
<1>4. ASSUME NEW c \in Cmd, ApplyRaised(c) PROVE PendingInv'
  <2>1. holder = c
    BY <1>4 DEF ApplyRaised
  <2>2. \A d \in Cmd \ {c} : Running(d)' = Running(d) /\ pc'[d] = pc[d] /\ step'[d] = step[d]
    BY <1>4 DEF ApplyRaised, Running
  <2>3. \A d \in Cmd : fate'[d] = "pending" =>
          /\ d # c
          /\ staged[Running(d).attr] = Running(d).value
          /\ pc[d] = "waiting"
    BY <1>4, <2>1 DEF ApplyRaised, PendingInv, PendingKept
  <2>4. \A d \in Cmd : fate'[d] # "carried"
    BY <1>4 DEF ApplyRaised
  <2>5. UNCHANGED staged /\ pc'[c] = "idle"
    BY <1>4 DEF ApplyRaised
  <2>6. QED
    BY <2>2, <2>3, <2>4, <2>5 DEF PendingInv, PendingKept
<1>5. ASSUME NEW t \in LanTask, Connect(t) \/ Authenticate(t) PROVE PendingInv'
  BY <1>5, PendingUntouched DEF Connect, Authenticate
<1>6. CASE PollStart
  BY <1>6, PendingUntouched DEF PollStart
<1>7. CASE BeginRefresh \/ RefreshFailed
  BY <1>7, PendingUntouched DEF BeginRefresh, Granted, RefreshFailed
<1>8. CASE RefreshAnswered \/ RecoverAddress
  BY <1>8, PendingUntouched DEF RefreshAnswered, RecoverAddress, FinishRefresh
<1>9. CASE ListenerWake \/ ListenerReport \/ ListenerSkip
  BY <1>9, PendingUntouched DEF ListenerWake, ListenerReport, ListenerSkip
<1>10. CASE ListenerBegin
  BY <1>10, PendingUntouched DEF ListenerBegin, Granted
<1>11. CASE ListenerFault \/ ListenerDrained
  BY <1>11, PendingUntouched DEF ListenerFault, ListenerDrained, ListenerDone
<1>12. CASE ShutdownRequest \/ ShutdownWait
  BY <1>12, PendingUntouched DEF ShutdownRequest, ShutdownWait
<1>13. CASE ListenerCancelled
  BY <1>13, PendingUntouched DEF ListenerCancelled, LeaveQueue
<1>14. CASE ShutdownDisconnect
  BY <1>14, PendingUntouched DEF ShutdownDisconnect, Granted
<1>15. CASE Environment
  BY <1>15, PendingUntouched
  DEF Environment, PushReport, PushOther, ConnectionLost, Arrives, RemoteControl
<1>16. CASE UNCHANGED vars
  BY <1>16, PendingUntouched DEF vars
<1>17. QED
  BY <1>1, <1>2, <1>3, <1>4, <1>5, <1>6, <1>7, <1>8, <1>9, <1>10, <1>11, <1>12, <1>13,
     <1>14, <1>15, <1>16
  DEF Next, Apply, ApplyAnswered, ApplyUnanswered, Refresh, Listen, Shutdown, Stopped

(* No refresh, report, failure or shutdown, in any interleaving of any      *)
(* number of calls, overwrites a change that waits to be sent.              *)
THEOREM PendingKeptAlways == Spec => []PendingKept
<1>1. Spec => []PendingInv
  BY TypeCorrect, LanExclusiveAlways, PendingInit, PendingStep, PTL DEF Spec
<1>2. PendingInv => PendingKept
  BY DEF PendingInv
<1>3. QED
  BY <1>1, <1>2, PTL

-----------------------------------------------------------------------------
(* Where a change can be lost (the finding coordinator_lost_change)         *)

(* Only the end of a call's exchange drops changes.                         *)
LEMMA DroppedByFinish ==
    ASSUME [Next]_vars, NEW c \in Cmd, fate[c] # "dropped", fate'[c] = "dropped"
    PROVE  \E d \in Cmd : pc[d] = "exchange" /\ FinishApply(d) /\ fate[c] = "pending"
<1>1. ASSUME NEW d \in Cmd, Stage(d) PROVE FALSE
  BY <1>1 DEF Stage
<1>2. ASSUME NEW d \in Cmd, BeginApply(d) \/ ApplyRaised(d) PROVE FALSE
  BY <1>2 DEF BeginApply, ApplyRaised
<1>3. ASSUME NEW d \in Cmd, pc[d] = "exchange", FinishApply(d)
      PROVE  fate[c] = "pending"
  BY <1>3 DEF FinishApply
<1>4. ASSUME UNCHANGED fate PROVE FALSE
  BY <1>4
<1>5. CASE \E d \in Cmd : Stage(d) \/ Apply(d)
  BY <1>1, <1>2, <1>3, <1>5 DEF Apply, ApplyAnswered, ApplyUnanswered
<1>6. CASE \E t \in LanTask : Connect(t) \/ Authenticate(t)
  BY <1>4, <1>6 DEF Connect, Authenticate
<1>7. CASE PollStart \/ Refresh
  BY <1>4, <1>7
  DEF PollStart, Refresh, BeginRefresh, RefreshAnswered, RefreshFailed, RecoverAddress
<1>8. CASE Listen
  BY <1>4, <1>8 DEF Listen, ListenerWake, ListenerBegin, ListenerReport, ListenerSkip,
                    ListenerFault, ListenerDrained
<1>9. CASE ShutdownRequest \/ Shutdown
  BY <1>4, <1>9
  DEF ShutdownRequest, Shutdown, ListenerCancelled, ShutdownWait, ShutdownDisconnect
<1>10. CASE Environment
  BY <1>4, <1>10 DEF Environment, PushReport, PushOther, ConnectionLost, Arrives, RemoteControl
<1>11. CASE UNCHANGED vars
  BY <1>4, <1>11 DEF vars
<1>12. QED
  BY <1>5, <1>6, <1>7, <1>8, <1>9, <1>10, <1>11 DEF Next, Stopped

(* The change of a call is thrown away only while that call waits for the   *)
(* lock and another call ends the exchange during which it was staged.      *)
DroppedByAnother ==
    [][\A c \in Cmd : fate[c] # "dropped" /\ fate'[c] = "dropped" =>
          pc[c] = "waiting" /\ \E d \in Cmd \ {c} : pc[d] = "exchange" /\ pc'[d] # "exchange"]_fate

(* The clearing of all that is staged (device_proxy.py:56) hits nothing but *)
(* what another call staged meanwhile: the exchange of a refresh, a report, *)
(* a failure or a shutdown drops nothing.                                   *)
THEOREM LossTakesAnother == Spec => DroppedByAnother
<1>1. ASSUME TypeOK, PendingInv, [Next]_vars
      PROVE  [\A c \in Cmd : fate[c] # "dropped" /\ fate'[c] = "dropped" =>
                pc[c] = "waiting"
                /\ \E d \in Cmd \ {c} : pc[d] = "exchange" /\ pc'[d] # "exchange"]_fate
  <2> SUFFICES ASSUME NEW c \in Cmd, fate[c] # "dropped", fate'[c] = "dropped"
               PROVE  pc[c] = "waiting"
                      /\ \E d \in Cmd \ {c} : pc[d] = "exchange" /\ pc'[d] # "exchange"
    OBVIOUS
  <2>1. PICK d \in Cmd : pc[d] = "exchange" /\ FinishApply(d) /\ fate[c] = "pending"
    BY <1>1, DroppedByFinish
  <2>2. pc[c] = "waiting"
    BY <1>1, <2>1 DEF PendingInv
  <2>3. pc'[d] # "exchange"
    BY <1>1, <2>1, TaskFacts DEF FinishApply, TypeOK, TaskTypes
  <2>4. QED
    BY <2>1, <2>2, <2>3
<1>2. Spec => []PendingInv
  BY TypeCorrect, LanExclusiveAlways, PendingInit, PendingStep, PTL DEF Spec
<1>3. QED
  BY <1>1, <1>2, TypeCorrect, PTL DEF Spec, DroppedByAnother

(* At most one service call is under way: the next may only begin when the  *)
(* one before has returned.                                                *)
Apart == \A c, d \in Cmd : pc[c] # "idle" /\ pc[d] # "idle" => c = d

(* "Apply changes to the device" (coordinator.py:149) keeps its promise to  *)
(* calls that do not overlap, however many are made one after another and   *)
(* whatever polls, reports, failures and shutdown run beside them.          *)
THEOREM NoLossAlone == Spec /\ []Apart => []NoLostChange
<1>1. Init => NoLostChange
  BY DEF Init, NoLostChange
<1>2. ASSUME PendingInv, NoLostChange, Apart, [Next]_vars
      PROVE  NoLostChange'
  <2> SUFFICES ASSUME NEW c \in Cmd, fate'[c] = "dropped" PROVE FALSE
    BY DEF NoLostChange
  <2>1. PICK d \in Cmd : pc[d] = "exchange" /\ fate[c] = "pending"
    BY <1>2, DroppedByFinish DEF NoLostChange
  <2>2. pc[c] = "waiting"
    BY <1>2, <2>1 DEF PendingInv
  <2>3. QED
    BY <1>2, <2>1, <2>2 DEF Apart
<1>3. Spec => []PendingInv
  BY TypeCorrect, LanExclusiveAlways, PendingInit, PendingStep, PTL DEF Spec
<1>4. QED
  BY <1>1, <1>2, <1>3, PTL DEF Spec

-----------------------------------------------------------------------------
(* The lock's queue.  First what the three operations on it do to the set   *)
(* of queued tasks, and that they keep its elements distinct.               *)

LEMMA AppendQueued ==
    ASSUME NEW s \in Seq(Task), NEW t \in Task, t \notin ToSet(s), IsInjective(s)
    PROVE  ToSet(Append(s, t)) = ToSet(s) \cup {t} /\ IsInjective(Append(s, t))
<1> DEFINE r == Append(s, t)
<1>1. /\ Len(r) = Len(s) + 1
      /\ \A i \in 1..Len(s) : r[i] = s[i]
      /\ r[Len(s) + 1] = t
      /\ DOMAIN r = 1..(Len(s) + 1)
      /\ DOMAIN s = 1..Len(s)
      /\ Len(s) \in Nat
  BY AppendProperties, LenProperties
<1> HIDE DEF r
<1>2. ToSet(r) = ToSet(s) \cup {t}
  BY <1>1 DEF ToSet
<1>3. IsInjective(r)
  BY <1>1 DEF ToSet, IsInjective
<1>4. QED
  BY <1>2, <1>3 DEF r

LEMMA TailQueued ==
    ASSUME NEW s \in Seq(Task), s # <<>>, IsInjective(s)
    PROVE  ToSet(Tail(s)) = ToSet(s) \ {Head(s)} /\ IsInjective(Tail(s))
<1> DEFINE r == Tail(s)
<1>1. /\ r \in Seq(Task)
      /\ Len(r) = Len(s) - 1
      /\ \A i \in 1..Len(r) : r[i] = s[i+1]
      /\ DOMAIN r = 1..(Len(s) - 1)
      /\ DOMAIN s = 1..Len(s)
      /\ Len(s) \in Nat \ {0}
      /\ Head(s) = s[1]
  BY HeadTailProperties, LenProperties, EmptySeq
<1> HIDE DEF r
<1>2. \A i \in 2..Len(s) : s[i] = r[i-1] /\ s[i] # s[1]
  BY <1>1 DEF IsInjective
<1>3. ToSet(r) = ToSet(s) \ {Head(s)}
  <2>1. ASSUME NEW i \in DOMAIN r PROVE r[i] \in ToSet(s) \ {Head(s)}
    <3>1. i+1 \in 2..Len(s) /\ r[i] = s[i+1]
      BY <1>1
    <3>2. QED
      BY <1>1, <1>2, <3>1 DEF ToSet
  <2>2. ASSUME NEW x \in ToSet(s), x # Head(s) PROVE x \in ToSet(r)
    <3>1. PICK i \in 1..Len(s) : s[i] = x
      BY <1>1 DEF ToSet
    <3>2. i \in 2..Len(s) /\ i-1 \in DOMAIN r /\ r[i-1] = x
      BY <1>1, <1>2, <2>2, <3>1
    <3>3. QED
      BY <3>2 DEF ToSet
  <2>3. QED
    BY <2>1, <2>2 DEF ToSet
<1>4. IsInjective(r)
  BY <1>1 DEF IsInjective
<1>5. QED
  BY <1>3, <1>4 DEF r

LEMMA RemoveQueued ==
    ASSUME NEW s \in Seq(Task), NEW k \in DOMAIN s, IsInjective(s)
    PROVE  ToSet(RemoveAt(s, k)) = ToSet(s) \ {s[k]} /\ IsInjective(RemoveAt(s, k))
<1> DEFINE r == RemoveAt(s, k)
<1>1. DOMAIN s = 1..Len(s) /\ Len(s) \in Nat /\ k \in 1..Len(s)
  BY LenProperties
<1>2. /\ r \in Seq(Task)
      /\ Len(r) = Len(s) - 1
      /\ \A i \in 1..Len(r) : r[i] = IF i < k THEN s[i] ELSE s[i+1]
  <2> DEFINE a == SubSeq(s, 1, k-1)
             b == SubSeq(s, k+1, Len(s))
  <2>1. \A i \in 1..Len(s) : s[i] \in Task
    BY ElementOfSeq
  <2>2. /\ a \in Seq(Task)
        /\ Len(a) = k - 1
        /\ \A i \in 1..(k-1) : a[i] = s[i]
    <3>1. \A i \in 1..(k-1) : s[i] \in Task
      BY <1>1, <2>1
    <3>2. /\ a \in Seq(Task)
          /\ Len(a) = IF 1 <= k-1 THEN k-1-1+1 ELSE 0
          /\ \A i \in 1..(k-1-1+1) : a[i] = s[1+i-1]
      BY <1>1, <3>1, SubSeqProperties
    <3>3. k \in Int /\ k-1-1+1 = k-1 /\ \A i \in 1..(k-1) : 1+i-1 = i
      BY <1>1
    <3> HIDE DEF a
    <3>4. Len(a) = k-1
      BY <1>1, <3>2
    <3>5. \A i \in 1..(k-1) : a[i] = s[i]
      BY <3>2, <3>3
    <3>6. QED
      BY <3>2, <3>4, <3>5
  <2>3. /\ b \in Seq(Task)
        /\ Len(b) = Len(s) - k
        /\ \A i \in 1..(Len(s)-k) : b[i] = s[k+i]
    <3>1. \A i \in (k+1)..Len(s) : s[i] \in Task
      BY <1>1, <2>1
    <3>2. /\ b \in Seq(Task)
          /\ Len(b) = IF k+1 <= Len(s) THEN Len(s)-(k+1)+1 ELSE 0
          /\ \A i \in 1..(Len(s)-(k+1)+1) : b[i] = s[(k+1)+i-1]
      BY <1>1, <3>1, SubSeqProperties
    <3>3. /\ Len(s)-(k+1)+1 = Len(s)-k
          /\ \A i \in 1..(Len(s)-k) : (k+1)+i-1 = k+i
      BY <1>1
    <3> HIDE DEF b
    <3>4. Len(b) = Len(s)-k
      BY <1>1, <3>2
    <3>5. \A i \in 1..(Len(s)-k) : b[i] = s[k+i]
      BY <3>2, <3>3
    <3>6. QED
      BY <3>2, <3>4, <3>5
  <2>4. r = a \o b
    BY DEF RemoveAt
  <2> HIDE DEF a, b, r
  <2>5. /\ a \o b \in Seq(Task)
        /\ Len(a \o b) = Len(a) + Len(b)
        /\ \A i \in 1..(Len(a) + Len(b)) :
              (a \o b)[i] = IF i <= Len(a) THEN a[i] ELSE b[i - Len(a)]
    BY <2>2, <2>3, ConcatProperties
  <2>6. ASSUME NEW i \in 1..(Len(s)-1) PROVE r[i] = IF i < k THEN s[i] ELSE s[i+1]
    <3>1. i \in 1..(Len(a) + Len(b))
      BY <1>1, <2>2, <2>3
    <3>2. CASE i < k
      <4>1. i \in 1..(k-1) /\ i <= Len(a)
        BY <1>1, <2>2, <3>2
      <4>2. r[i] = a[i]
        BY <2>4, <2>5, <3>1, <4>1
      <4>3. QED
        BY <2>2, <3>2, <4>1, <4>2
    <3>3. CASE ~(i < k)
      <4>1. /\ ~(i <= Len(a))
            /\ i - Len(a) = i - (k-1)
            /\ i - (k-1) \in 1..(Len(s)-k)
            /\ k + (i - (k-1)) = i + 1
        BY <1>1, <2>2, <3>3
      <4>2. r[i] = b[i - (k-1)]
        BY <2>4, <2>5, <3>1, <4>1
      <4>3. QED
        BY <2>3, <3>3, <4>1, <4>2
    <3>4. QED
      BY <3>2, <3>3
  <2>7. QED
    BY <1>1, <2>2, <2>3, <2>4, <2>5, <2>6
<1> HIDE DEF r
<1>3. DOMAIN r = 1..(Len(s)-1)
  BY <1>2, LenProperties
<1>4. IsInjective(r)
  <2>1. ASSUME NEW i \in 1..(Len(s)-1), NEW j \in 1..(Len(s)-1), r[i] = r[j]
        PROVE  i = j
    <3> DEFINE Old(n) == IF n < k THEN n ELSE n+1
    <3>1. r[i] = s[Old(i)] /\ r[j] = s[Old(j)]
      BY <1>2
    <3>2. Old(i) \in DOMAIN s /\ Old(j) \in DOMAIN s
      BY <1>1
    <3>3. Old(i) = Old(j)
      BY <1>1, <2>1, <3>1, <3>2 DEF IsInjective
    <3>4. QED
      BY <1>1, <3>3
  <2>2. QED
    BY <1>3, <2>1 DEF IsInjective
<1>5. ToSet(r) = ToSet(s) \ {s[k]}
  <2>1. ASSUME NEW i \in DOMAIN r PROVE r[i] \in ToSet(s) \ {s[k]}
    BY <1>1, <1>2, <1>3 DEF ToSet, IsInjective
  <2>2. ASSUME NEW i \in DOMAIN s, s[i] # s[k] PROVE s[i] \in ToSet(r)
    <3>1. CASE i < k
      <4>1. i \in DOMAIN r /\ r[i] = s[i]
        BY <1>1, <1>2, <1>3, <3>1
      <4>2. QED
        BY <4>1 DEF ToSet
    <3>2. CASE i > k
      <4>1. i-1 \in DOMAIN r /\ r[i-1] = s[i]
        BY <1>1, <1>2, <1>3, <3>2
      <4>2. QED
        BY <4>1 DEF ToSet
    <3>3. QED
      BY <1>1, <2>2, <3>1, <3>2
  <2>3. QED
    BY <2>1, <2>2 DEF ToSet
<1>6. QED
  BY <1>4, <1>5 DEF r

LEMMA QueuedInit == Init => WaitersQueued
BY TaskFacts, EmptySeq DEF Init, WaitersQueued, ToSet, IsInjective

(* A task that starts to wait joins the queue, and one that is granted the  *)
(* lock leaves it.                                                          *)
LEMMA JoinsQueue ==
    ASSUME TypeOK, WaitersQueued, NEW t \in Task, pc[t] # "waiting",
           waiters' = Append(waiters, t), pc'[t] = "waiting",
           \A u \in Task \ {t} : pc'[u] = "waiting" <=> pc[u] = "waiting"
    PROVE  WaitersQueued'
<1>1. t \notin ToSet(waiters)
  BY DEF WaitersQueued
<1>2. ToSet(waiters') = ToSet(waiters) \cup {t} /\ IsInjective(waiters')
  BY <1>1, AppendQueued DEF WaitersQueued, TypeOK, TaskTypes
<1>3. QED
  BY <1>2 DEF WaitersQueued

LEMMA LeavesQueue ==
    ASSUME TypeOK, WaitersQueued, NEW t \in Task, Granted(t), pc'[t] # "waiting",
           \A u \in Task \ {t} : pc'[u] = "waiting" <=> pc[u] = "waiting"
    PROVE  WaitersQueued'
<1>1. ToSet(waiters') = ToSet(waiters) \ {t} /\ IsInjective(waiters')
  BY TailQueued DEF Granted, WaitersQueued, TypeOK, TaskTypes
<1>2. QED
  BY <1>1 DEF WaitersQueued

LEMMA QueueUntouched ==
    ASSUME WaitersQueued, UNCHANGED waiters,
           \A u \in Task : pc'[u] = "waiting" <=> pc[u] = "waiting"
    PROVE  WaitersQueued'
BY DEF WaitersQueued

LEMMA QueuedStep == TypeOK /\ WaitersQueued /\ [Next]_vars => WaitersQueued'
<1> SUFFICES ASSUME TypeOK, WaitersQueued, [Next]_vars PROVE WaitersQueued'
  OBVIOUS
<1> USE TaskFacts DEF TypeOK, TaskTypes, lockVars
<1>1. ASSUME NEW c \in Cmd, Stage(c) PROVE WaitersQueued'
  BY <1>1, JoinsQueue DEF Stage
<1>2. ASSUME NEW c \in Cmd, BeginApply(c) PROVE WaitersQueued'
  BY <1>2, LeavesQueue DEF BeginApply, Granted
<1>3. ASSUME NEW c \in Cmd, pc[c] = "exchange", FinishApply(c) PROVE WaitersQueued'
  <2>1. CASE waiters' = Append(waiters, "poll") /\ pc["poll"] = "idle" /\
             pc' = [pc EXCEPT ![c] = "settling", !["poll"] = "waiting"]
    BY <1>3, <2>1, JoinsQueue
  <2>2. CASE UNCHANGED waiters /\ pc' = [pc EXCEPT ![c] = "idle"]
    BY <1>3, <2>2, QueueUntouched
  <2>3. QED
    BY <1>3, <2>1, <2>2 DEF FinishApply
<1>4. ASSUME NEW c \in Cmd, ApplyRaised(c) PROVE WaitersQueued'
  BY <1>4, QueueUntouched DEF ApplyRaised
<1>5. ASSUME NEW t \in LanTask, Connect(t) \/ Authenticate(t) PROVE WaitersQueued'
  BY <1>5, QueueUntouched DEF Connect, Authenticate
<1>6. CASE PollStart
  BY <1>6, JoinsQueue DEF PollStart
<1>7. CASE BeginRefresh
  BY <1>7, LeavesQueue DEF BeginRefresh, Granted
<1>8. CASE RefreshFailed
  BY <1>8, QueueUntouched DEF RefreshFailed
<1>9. CASE RefreshAnswered \/ RecoverAddress
  BY <1>9, QueueUntouched DEF RefreshAnswered, RecoverAddress, FinishRefresh
<1>10. CASE ListenerWake
  BY <1>10, JoinsQueue DEF ListenerWake
<1>11. CASE ListenerBegin
  BY <1>11, LeavesQueue DEF ListenerBegin, Granted
<1>12. CASE ListenerReport \/ ListenerSkip
  BY <1>12, QueueUntouched DEF ListenerReport, ListenerSkip
<1>13. CASE ListenerFault \/ ListenerDrained
  BY <1>13, QueueUntouched DEF ListenerFault, ListenerDrained, ListenerDone
<1>14. CASE ShutdownRequest
  BY <1>14, QueueUntouched DEF ShutdownRequest
<1>15. CASE ListenerCancelled
  <2>1. CASE pc["listen"] = "waiting"
    <3>1. PICK i \in DOMAIN waiters :
            waiters[i] = "listen" /\ waiters' = RemoveAt(waiters, i)
      BY <1>15, <2>1 DEF ListenerCancelled, LeaveQueue
    <3>2. ToSet(waiters') = ToSet(waiters) \ {"listen"} /\ IsInjective(waiters')
      BY <3>1, RemoveQueued DEF WaitersQueued
    <3>3. QED
      BY <1>15, <3>2 DEF ListenerCancelled, LeaveQueue, WaitersQueued
  <2>2. CASE pc["listen"] # "waiting"
    BY <1>15, <2>2, QueueUntouched DEF ListenerCancelled, LeaveQueue
  <2>3. QED
    BY <2>1, <2>2
<1>16. CASE ShutdownWait
  BY <1>16, JoinsQueue DEF ShutdownWait
<1>17. CASE ShutdownDisconnect
  BY <1>17, LeavesQueue DEF ShutdownDisconnect, Granted
<1>18. CASE Environment
  BY <1>18, QueueUntouched
  DEF Environment, PushReport, PushOther, ConnectionLost, Arrives, RemoteControl
<1>19. CASE UNCHANGED vars
  BY <1>19, QueueUntouched DEF vars
<1>20. QED
  BY <1>1, <1>2, <1>3, <1>4, <1>5, <1>6, <1>7, <1>8, <1>9, <1>10, <1>11, <1>12, <1>13,
     <1>14, <1>15, <1>16, <1>17, <1>18, <1>19
  DEF Next, Apply, ApplyAnswered, ApplyUnanswered, Refresh, Listen, Shutdown, Stopped

(* The tasks suspended in acquire() are exactly the elements of the lock's  *)
(* queue, each once.                                                        *)
THEOREM WaitersQueuedAlways == Spec => []WaitersQueued
BY TypeCorrect, QueuedInit, QueuedStep, PTL DEF Spec

-----------------------------------------------------------------------------
(* The shutdown is the last to use the connection when every service call   *)
(* makes one change: the lock is first come first served, nothing may queue *)
(* behind the shutdown, and whatever queued before it is done when it gets  *)
(* the lock.                                                                *)

SingleChanges == \A c \in Cmd : Len(Script[c]) <= 1

ShutdownLast ==
    /\ pc["shutdown"] = "waiting" =>
          waiters # <<>> /\ waiters[Len(waiters)] = "shutdown"
    /\ pc["shutdown"] = "done" => holder = NoTask /\ waiters = <<>>
    /\ pc["shutdown"] \in {"waiting", "done"} => pc["listen"] = "done"

LEMMA ShutdownInit == Init => ShutdownLast /\ ClosedAfterShutdown
BY TaskFacts DEF Init, ShutdownLast, ClosedAfterShutdown

(* Granting the lock to anyone but the shutdown leaves the shutdown last.   *)
LEMMA LastStays ==
    ASSUME TypeOK, NEW t \in Task, t # "shutdown", Granted(t),
           waiters # <<>>, waiters[Len(waiters)] = "shutdown"
    PROVE  waiters' # <<>> /\ waiters'[Len(waiters')] = "shutdown"
<1>1. /\ waiters' \in Seq(Task)
      /\ Len(waiters') = Len(waiters) - 1
      /\ \A i \in 1..Len(waiters') : waiters'[i] = waiters[i+1]
      /\ Head(waiters) = waiters[1]
      /\ Len(waiters) \in Nat \ {0}
  BY HeadTailProperties, EmptySeq DEF TypeOK, TaskTypes, Granted
<1>2. Len(waiters) # 1
  BY <1>1 DEF Granted
<1>3. Len(waiters') \in Nat \ {0} /\ Len(waiters') \in 1..Len(waiters') /\ Len(waiters') + 1 = Len(waiters)
  BY <1>1, <1>2
<1>4. QED
  BY <1>1, <1>3, EmptySeq

(* Steps that queue nobody and grant nothing. *)
LEMMA ShutdownUntouched ==
    ASSUME ShutdownLast, UNCHANGED waiters,
           pc'["shutdown"] = pc["shutdown"], pc'["listen"] = pc["listen"],
           pc["shutdown"] = "done" => holder' = NoTask
    PROVE  ShutdownLast'
BY DEF ShutdownLast

LEMMA ShutdownStep ==
    ASSUME SingleChanges
    PROVE  TypeOK /\ LanExclusive /\ WaitersQueued /\ ShutdownLast /\ [Next]_vars
              => ShutdownLast'
<1> SUFFICES ASSUME TypeOK, LanExclusive, WaitersQueued, ShutdownLast, [Next]_vars
             PROVE  ShutdownLast'
  OBVIOUS
<1> USE TaskFacts DEF TypeOK, TaskTypes, LanExclusive, lockVars, lanVars, Holding
<1>1. ASSUME ~ShuttingDown, pc'["shutdown"] = pc["shutdown"] PROVE ShutdownLast'
  BY <1>1 DEF ShuttingDown, ShutdownLast
<1>2. ASSUME NEW t \in Task, t # "shutdown", t # "listen", Granted(t),
             pc' = [pc EXCEPT ![t] = "exchange"]
      PROVE  ShutdownLast'
  BY <1>2, LastStays DEF ShutdownLast, Granted
<1>3. ASSUME NEW c \in Cmd, Stage(c) PROVE ShutdownLast'
  <2>1. step[c] = 1
    BY <1>3, ScriptAssumption DEF Stage, SingleChanges
  <2>2. QED
    BY <1>1, <1>3, <2>1 DEF Stage
<1>4. ASSUME NEW c \in Cmd, BeginApply(c) PROVE ShutdownLast'
  BY <1>2, <1>4 DEF BeginApply
<1>5. ASSUME NEW c \in Cmd, pc[c] = "exchange", FinishApply(c) PROVE ShutdownLast'
  <2>1. pc["shutdown"] # "done"
    BY <1>5 DEF ShutdownLast
  <2>2. CASE ShuttingDown
    BY <1>5, <2>1, <2>2, ShutdownUntouched DEF FinishApply
  <2>3. CASE ~ShuttingDown
    BY <1>1, <1>5, <2>3 DEF FinishApply
  <2>4. QED
    BY <2>2, <2>3
<1>6. ASSUME NEW c \in Cmd, ApplyRaised(c) PROVE ShutdownLast'
  BY <1>6, ShutdownUntouched DEF ApplyRaised, ShutdownLast
<1>7. ASSUME NEW t \in LanTask, Connect(t) \/ Authenticate(t) PROVE ShutdownLast'
  BY <1>7, ShutdownUntouched DEF Connect, Authenticate, ShutdownLast
<1>8. CASE PollStart
  BY <1>1, <1>8 DEF PollStart
<1>9. CASE BeginRefresh
  BY <1>2, <1>9 DEF BeginRefresh
<1>10. CASE RefreshFailed
  BY <1>10, ShutdownUntouched DEF RefreshFailed, ShutdownLast
<1>11. CASE RefreshAnswered \/ RecoverAddress
  BY <1>11, ShutdownUntouched DEF RefreshAnswered, RecoverAddress, FinishRefresh, ShutdownLast
<1>12. CASE Listen
  BY <1>1, <1>12
  DEF Listen, ListenerWake, ListenerBegin, ListenerReport, ListenerSkip, ListenerFault,
      ListenerDrained, ListenerDone
<1>13. CASE ShutdownRequest
  BY <1>13 DEF ShutdownRequest, ShutdownLast
<1>14. CASE ListenerCancelled
  BY <1>14 DEF ListenerCancelled, LeaveQueue, ShutdownLast
<1>15. CASE ShutdownWait
  <2>1. waiters' # <<>> /\ waiters'[Len(waiters')] = "shutdown"
    BY <1>15, AppendProperties DEF ShutdownWait
  <2>2. QED
    BY <1>15, <2>1 DEF ShutdownWait, ShutdownLast
<1>16. CASE ShutdownDisconnect
  <2>1. /\ Head(waiters) = waiters[1]
        /\ Len(waiters) \in Nat \ {0}
        /\ DOMAIN waiters = 1..Len(waiters)
    BY <1>16, HeadTailProperties, EmptySeq, LenProperties DEF ShutdownDisconnect, Granted
  <2>2. Len(waiters) = 1
    <3>1. waiters[1] = "shutdown"
      BY <1>16, <2>1 DEF ShutdownDisconnect, Granted
    <3>2. waiters[Len(waiters)] = "shutdown"
      BY <1>16 DEF ShutdownDisconnect, Granted, ShutdownLast
    <3>3. \A i, j \in DOMAIN waiters : waiters[i] = waiters[j] => i = j
      BY DEF WaitersQueued, IsInjective
    <3>4. 1 \in DOMAIN waiters /\ Len(waiters) \in DOMAIN waiters
      BY <2>1
    <3>5. QED
      BY <3>1, <3>2, <3>3, <3>4
  <2>3. waiters' \in Seq(Task) /\ Len(waiters') = 0
    BY <1>16, <2>2, HeadTailProperties DEF ShutdownDisconnect, Granted
  <2>4. waiters' = <<>>
    BY <2>3, EmptySeq
  <2>5. QED
    BY <1>16, <2>4 DEF ShutdownDisconnect, Granted, ShutdownLast
<1>17. CASE Environment
  BY <1>17, ShutdownUntouched
  DEF Environment, PushReport, PushOther, ConnectionLost, Arrives, RemoteControl, ShutdownLast
<1>18. CASE UNCHANGED vars
  BY <1>18, ShutdownUntouched DEF vars, ShutdownLast
<1>19. QED
  BY <1>3, <1>4, <1>5, <1>6, <1>7, <1>8, <1>9, <1>10, <1>11, <1>12, <1>13, <1>14, <1>15,
     <1>16, <1>17, <1>18
  DEF Next, Apply, ApplyAnswered, ApplyUnanswered, Refresh, Shutdown, Stopped

(* Once it is done nobody holds the lock, and whoever changes the           *)
(* connection holds it.                                                     *)
LEMMA ClosedStep ==
    TypeOK /\ LanExclusive /\ ShutdownLast /\ ClosedAfterShutdown /\ [Next]_vars
       => ClosedAfterShutdown'
<1> SUFFICES ASSUME TypeOK, LanExclusive, ShutdownLast, ClosedAfterShutdown, [Next]_vars
             PROVE  ClosedAfterShutdown'
  OBVIOUS
<1> USE TaskFacts DEF TypeOK, TaskTypes, LanExclusive, lockVars, lanVars, Holding,
                      ShutdownLast, ClosedAfterShutdown
<1>1. ASSUME NEW c \in Cmd, Stage(c) \/ Apply(c) PROVE ClosedAfterShutdown'
  BY <1>1 DEF Stage, Apply, BeginApply, Granted, ApplyAnswered, ApplyUnanswered, ApplyRaised,
              FinishApply, LanFails
<1>2. ASSUME NEW t \in LanTask, Connect(t) \/ Authenticate(t) PROVE ClosedAfterShutdown'
  BY <1>2 DEF Connect, Authenticate
<1>3. CASE PollStart \/ Refresh
  BY <1>3 DEF PollStart, Refresh, BeginRefresh, RefreshAnswered, RefreshFailed, LanFails,
              RecoverAddress, FinishRefresh
<1>4. CASE Listen
  BY <1>4 DEF Listen, ListenerWake, ListenerBegin, ListenerReport, ListenerSkip, ListenerFault,
              ListenerDrained, ListenerDone
<1>5. CASE ShutdownRequest \/ Shutdown
  BY <1>5 DEF ShutdownRequest, Shutdown, ListenerCancelled, ShutdownWait, ShutdownDisconnect
<1>6. CASE Environment
  BY <1>6 DEF Environment, PushReport, PushOther, ConnectionLost, Arrives, RemoteControl
<1>7. CASE UNCHANGED vars
  BY <1>7 DEF vars
<1>8. QED
  BY <1>1, <1>2, <1>3, <1>4, <1>5, <1>6, <1>7 DEF Next, Stopped

(* async_shutdown closes the socket for good, for any number of calls of    *)
(* one change each.  (A call of two changes can reopen it.)                 *)
THEOREM ShutdownCloses ==
    ASSUME SingleChanges
    PROVE  Spec => []ClosedAfterShutdown
<1>1. TypeOK /\ LanExclusive /\ WaitersQueued /\ ShutdownLast /\ [Next]_vars => ShutdownLast'
  BY ShutdownStep
<1>2. Spec => []ShutdownLast
  BY <1>1, TypeCorrect, LanExclusiveAlways, WaitersQueuedAlways, ShutdownInit, PTL DEF Spec
<1>3. QED
  BY <1>2, TypeCorrect, LanExclusiveAlways, ShutdownInit, ClosedStep, PTL DEF Spec
=============================================================================
