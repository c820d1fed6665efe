------------------------- MODULE DirectCallsProofs -------------------------
(***************************************************************************)
(* What the calls beside the lock leave of the coordinator's promises, for  *)
(* any number of them and of service calls: the lock and the changes that   *)
(* wait for it are safe from them, the closed socket is not.               *)
(***************************************************************************)
EXTENDS DirectCalls, DeviceCoordinatorProofs

Places == {"idle", "exchange", "done", "failed"}

DirectTypes == TypeOK /\ direct \in [Direct -> Places]

(* What a call beside the lock does to the tasks: at most it requests a     *)
(* refresh.                                                                *)
Aside == RequestRefresh \/ UNCHANGED <<pc, waiters>>

(* What it never does. *)
Beside ==
    /\ UNCHANGED <<holder, step, staged, frame, fate>>
    /\ Aside

(* A step of one of these calls. *)
DirectStep ==
    \/ \E d \in Toggler : TurnOn(d) \/ ToggleAnswered(d)
    \/ \E d \in Presser : Press(d) \/ PressAnswered(d)
    \/ \E d \in Direct : DirectConnect(d) \/ DirectFailed(d)

(* A step is one of the coordinator's, or one beside the lock. *)
LEMMA DirectCases ==
    ASSUME [DirectNext]_directVars
    PROVE  ([Next]_vars /\ UNCHANGED direct) \/ DirectStep
BY DEF DirectNext, directVars, DirectStep

LEMMA DirectBeside == ASSUME DirectStep PROVE Beside
<1> USE DEF DirectStep, Beside, Aside, vars, lockVars, lanVars
<1>1. ASSUME NEW d \in Toggler, TurnOn(d) \/ ToggleAnswered(d) PROVE Beside
  BY <1>1 DEF TurnOn, ToggleAnswered
<1>2. ASSUME NEW d \in Presser, Press(d) \/ PressAnswered(d) PROVE Beside
  BY <1>2 DEF Press, PressAnswered
<1>3. ASSUME NEW d \in Direct, DirectConnect(d) \/ DirectFailed(d) PROVE Beside
  BY <1>3 DEF DirectConnect, DirectFailed
<1>4. QED
  BY <1>1, <1>2, <1>3

-----------------------------------------------------------------------------
(* Types *)

(* A toggle leaves the appliance with a value for each attribute. *)
LEMMA FlipType == ASSUME TypeOK, Flip PROVE appliance' \in [Attr -> Value]
BY DEF Flip, TypeOK, DeviceTypes

LEMMA AsideTypes == ASSUME TypeOK, Beside PROVE TaskTypes'
<1> USE TaskFacts DEF TypeOK, TaskTypes, Beside, Aside, RequestRefresh
<1>1. Append(waiters, "poll") \in Seq(Task)
  BY AppendProperties
<1>2. QED
  BY <1>1

LEMMA DirectTypeStep == DirectTypes /\ [DirectNext]_directVars => DirectTypes'
<1> SUFFICES ASSUME DirectTypes, [DirectNext]_directVars PROVE DirectTypes'
  OBVIOUS
<1> USE DEF DirectTypes
<1>1. CASE [Next]_vars /\ UNCHANGED direct
  BY <1>1, TypeStep
<1>2. CASE DirectStep
  <2>1. TaskTypes'
    BY <1>2, DirectBeside, AsideTypes
  <2>2. direct' \in [Direct -> Places]
    BY <1>2 DEF DirectStep, TurnOn, ToggleAnswered, Press, PressAnswered, DirectConnect,
                DirectFailed, Move, Places, Direct
  <2>3. ASSUME UNCHANGED vars PROVE TypeOK'
    BY <2>3, TypeStep
  <2>4. ASSUME NEW d, ToggleAnswered(d) PROVE TypeOK'
    BY <2>1, <2>4, FlipType
    DEF ToggleAnswered, TypeOK, DeviceTypes, LanTypes, FlagTypes, lanVars
  <2>5. ASSUME NEW d, DirectConnect(d) PROVE TypeOK'
    BY <2>1, <2>5, EmptyQueue DEF DirectConnect, TypeOK, DeviceTypes, LanTypes, FlagTypes
  <2>6. ASSUME NEW d, DirectFailed(d) PROVE TypeOK'
    <3>1. LanTypes' /\ appliance' \in [Attr -> Value]
      BY <2>6, LanFailsTypes, FlipType DEF DirectFailed, TypeOK, DeviceTypes
    <3>2. QED
      BY <2>1, <2>6, <3>1 DEF DirectFailed, LanFails, TypeOK, DeviceTypes, FlagTypes
  <2>7. TypeOK'
    BY <1>2, <2>3, <2>4, <2>5, <2>6 DEF DirectStep, TurnOn, Press, PressAnswered
  <2>8. QED
    BY <2>2, <2>7
<1>3. QED
  BY <1>1, <1>2, DirectCases

(* The types of the coordinator, and where each call beside the lock is.    *)
THEOREM DirectTypesAlways == DirectSpec => []DirectTypes
<1>1. DirectInit => DirectTypes
  BY TypeInit DEF DirectInit, DirectTypes, Places
<1>2. QED
  BY <1>1, DirectTypeStep, PTL DEF DirectSpec

-----------------------------------------------------------------------------
(* The lock and the pending changes *)

DirectSafe == LanExclusive /\ WaitersQueued /\ PendingInv

(* The calls beside the lock take nothing out of its queue. *)
LEMMA AsideQueued == ASSUME TypeOK, WaitersQueued, Beside PROVE WaitersQueued'
<1>1. CASE UNCHANGED <<pc, waiters>>
  BY <1>1, QueueUntouched
<1>2. CASE ~UNCHANGED <<pc, waiters>>
  <2>1. /\ pc["poll"] = "idle" /\ waiters' = Append(waiters, "poll")
        /\ pc' = [pc EXCEPT !["poll"] = "waiting"]
    BY <1>2 DEF Beside, Aside, RequestRefresh
  <2>2. QED
    BY <2>1, JoinsQueue, TaskFacts DEF TypeOK, TaskTypes
<1>3. QED
  BY <1>1, <1>2

LEMMA AsideSafe == ASSUME TypeOK, DirectSafe, Beside PROVE DirectSafe'
<1> USE TaskFacts DEF DirectSafe, TypeOK, TaskTypes, Beside, Aside, RequestRefresh
<1>1. LanExclusive'
  BY DEF LanExclusive, Holding
<1>2. PendingInv'
  <2>1. \A c \in Cmd : pc'[c] = pc[c]
    OBVIOUS
  <2>2. QED
    BY <2>1, PendingUntouched
<1>3. QED
  BY <1>1, <1>2, AsideQueued

LEMMA SafeStep == DirectTypes /\ DirectSafe /\ [DirectNext]_directVars => DirectSafe'
<1> SUFFICES ASSUME DirectTypes, DirectSafe, [DirectNext]_directVars PROVE DirectSafe'
  OBVIOUS
<1>1. TypeOK
  BY DEF DirectTypes
<1>2. CASE [Next]_vars
  BY <1>1, <1>2, ExclusiveStep, QueuedStep, PendingStep DEF DirectSafe
<1>3. QED
  BY <1>1, <1>2, DirectCases, DirectBeside, AsideSafe

LEMMA SafeInit == DirectInit => DirectSafe
BY ExclusiveInit, QueuedInit, PendingInit DEF DirectInit, DirectSafe

(* However many toggles and buttons go beside the lock, no change that      *)
(* waits for it is overwritten (device_proxy.py: they stage nothing).       *)
THEOREM PendingKeptBeside == DirectSpec => []PendingKept
<1>1. DirectSafe => PendingKept
  BY DEF DirectSafe, PendingInv
<1>2. QED
  BY <1>1, SafeInit, SafeStep, DirectTypesAlways, PTL DEF DirectSpec

(* Nor do they disturb the lock: its queue stays exact, and the tasks that  *)
(* use it never overlap.                                                   *)
THEOREM LockKeptBeside == DirectSpec => [](LanExclusive /\ WaitersQueued)
<1>1. DirectSafe => LanExclusive /\ WaitersQueued
  BY DEF DirectSafe
<1>2. QED
  BY <1>1, SafeInit, SafeStep, DirectTypesAlways, PTL DEF DirectSpec

(* Two tasks that read the protocol's queue at once, which lan_push.py:5    *)
(* rules out, are never both of those that take the lock: the finding       *)
(* direct_readers needs a toggle or a button.                               *)
CompetitorIsDirect == \A t, u \in Readers : t = u \/ t \in Direct \/ u \in Direct

THEOREM CompetitorIsDirectAlways == DirectSpec => []CompetitorIsDirect
<1>1. ASSUME LanExclusive PROVE CompetitorIsDirect
  <2> SUFFICES ASSUME NEW t \in Readers, NEW u \in Readers, t \notin Direct, u \notin Direct
               PROVE  t = u
    BY DEF CompetitorIsDirect
  <2>1. \A r \in Readers \ Direct : r \in Task /\ pc[r] \in Holding
    BY TaskFacts DEF Readers, Holding
  <2>2. holder = t /\ holder = u
    BY <1>1, <2>1 DEF LanExclusive
  <2>3. QED
    BY <2>2
<1>2. QED
  BY <1>1, LockKeptBeside, PTL

-----------------------------------------------------------------------------
(* The socket after the shutdown *)

(* Nothing of it changes once the shutdown has begun, but the connection.   *)
LEMMA AsideLast == ASSUME TypeOK, ShutdownLast, Beside PROVE ShutdownLast'
BY TaskFacts DEF TypeOK, TaskTypes, ShutdownLast, Beside, Aside, RequestRefresh, ShuttingDown

(* Only an exchange beside the lock touches the connection.                 *)
LEMMA DirectOpens ==
    ASSUME DirectStep, ~\E d \in Direct : direct[d] = "exchange"
    PROVE  UNCHANGED vars
BY DEF DirectStep, TurnOn, ToggleAnswered, Press, PressAnswered, DirectConnect,
       DirectFailed, Direct

(* What opens a closed socket after the shutdown. *)
OpensBeside ==
    ClosedAfterShutdown /\ ~ClosedAfterShutdown' => \E d \in Direct : direct[d] = "exchange"

LEMMA UnlessStep ==
    DirectTypes /\ DirectSafe /\ ShutdownLast /\ [DirectNext]_directVars => OpensBeside
<1> SUFFICES ASSUME DirectTypes, DirectSafe, ShutdownLast, [DirectNext]_directVars,
                    ClosedAfterShutdown, ~\E d \in Direct : direct[d] = "exchange"
             PROVE  ClosedAfterShutdown'
  BY DEF OpensBeside
<1>1. [Next]_vars
  BY DirectCases, DirectOpens
<1>2. QED
  BY <1>1, ClosedStep DEF DirectTypes, DirectSafe

(* async_shutdown closes the socket (coordinator.py:116), and of service    *)
(* calls of one change each only those beside the lock (switch.py,          *)
(* button.py) can find it open again.                                       *)
THEOREM ClosedUnlessDirectAlways ==
    ASSUME SingleChanges
    PROVE  DirectSpec => ClosedUnlessDirect
<1>1. DirectTypes /\ DirectSafe /\ ShutdownLast /\ [DirectNext]_directVars => ShutdownLast'
  <2> SUFFICES ASSUME DirectTypes, DirectSafe, ShutdownLast, [DirectNext]_directVars
               PROVE  ShutdownLast'
    OBVIOUS
  <2>1. TypeOK /\ LanExclusive /\ WaitersQueued
    BY DEF DirectTypes, DirectSafe
  <2>2. CASE [Next]_vars
    BY <2>1, <2>2, ShutdownStep
  <2>3. QED
    BY <2>1, <2>2, DirectCases, DirectBeside, AsideLast
<1>2. DirectInit => ShutdownLast
  BY ShutdownInit DEF DirectInit
<1>3. DirectSpec => []DirectSafe
  BY SafeInit, SafeStep, DirectTypesAlways, PTL DEF DirectSpec
<1>4. DirectSpec => [][OpensBeside]_directVars
  BY <1>1, <1>2, <1>3, UnlessStep, DirectTypesAlways, PTL DEF DirectSpec
<1>5. QED
  BY <1>4 DEF ClosedUnlessDirect, OpensBeside
=============================================================================
