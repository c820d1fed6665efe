------------------------- MODULE ProvisioningProofs -------------------------
(***************************************************************************)
(* Proofs about provisioning, for any accounts, credentials and budgets:    *)
(* what it never does, and that it implements Pairing.                     *)
(***************************************************************************)
EXTENDS Provisioning, TLAPS

(* What makes the properties inductive.                                     *)

(* A task runs exactly behind the screen that shows its progress. *)
TaskInv == stage # "none" => screen = "working"

AfterWrite == {"acking", "network", "joining", "owned", "lookup", "binding",
               "recheck", "expiring", "status", "starting", "verify"}

(* The mark of a write outlives whatever the appliance may do with it. *)
WriteInv ==
    /\ stage = "bluetooth" => ~state.writeStarted
    /\ stage \in AfterWrite => state.writeStarted
    /\ given # None => state.writeStarted
    /\ report = "refused" => given = None

(* Only an account without the appliance looks it up to bind it. *)
LookupInv ==
    /\ stage = "network" => account \notin Smart
    /\ stage = "lookup" /\ account \in Smart => owner # account

AskedInv == asked => state.confirming

(* A bound pairing never shows a screen that offers another account. *)
BoundInv ==
    state.bound =>
        /\ owner = account
        /\ state.writeStarted
        /\ screen \notin {"connect", "setup", "lan"}
        /\ stage \in {"none", "login", "lan", "credentials"}

IInv == TypeOK /\ TaskInv /\ WriteInv /\ LookupInv /\ AskedInv /\ BoundInv

-----------------------------------------------------------------------------
(* The steps that are not the user's, the set-up's or the linking's. *)
Rest ==
    \/ Interrupted
    \/ Appliance
    \/ Confirm
    \/ \E a \in Account : LinkElsewhere(a)
    \/ Ended

LEMMA NextCases == Next => User \/ Setup \/ Link \/ Rest
BY DEF Next, Rest

(* Initially every variable has its type. *)
LEMMA InitType == Init => TypeOK
<1> SUFFICES ASSUME Init PROVE TypeOK
  OBVIOUS
<1>1. FlowTypes
  BY BudgetAssumption DEF Init, FlowTypes, Fresh, Progress, Screens, Stages
<1>2. WorldTypes
  BY DEF Init, WorldTypes
<1>3. FlagTypes
  BY Zenon DEF Init, FlagTypes
<1>4. QED
  BY <1>1, <1>2, <1>3 DEF TypeOK

(* A task that fails leaves the flow typed. *)
LEMMA FailType ==
    ASSUME FlowTypes, NEW error, Fail(error), state' \in Progress,
           spent' \in [Cause -> Nat]
    PROVE  FlowTypes'
BY DEF FlowTypes, Fail, Screens, Stages

(* Types are kept by the user's steps. *)
LEMMA UserType == ASSUME TypeOK, User PROVE TypeOK'
<1> USE DEF User, ChooseLan, ChooseSetup, Submit, Offered, Retry,
            RestartConfirmation, Restart, Leave,
            At, To, Fail, Spend, flowVars, taskVars, acVars,
            cloudVars, vars
<1>1. spent' \in [Cause -> Nat]
  BY DEF TypeOK, FlowTypes, Cause
<1>2. state' \in Progress
  <2>1. CASE Restart
    BY <2>1 DEF Progress, Fresh
  <2>2. CASE RestartConfirmation
    BY <2>2 DEF TypeOK, FlowTypes, Progress
  <2>3. CASE state' = state
    BY <2>3 DEF TypeOK, FlowTypes
  <2>4. QED
    BY Zenon, <2>1, <2>2, <2>3
<1>3. FlowTypes'
  BY <1>1, <1>2 DEF TypeOK, FlowTypes, Screens, Stages
<1>4. WorldTypes'
  BY DEF TypeOK, FlowTypes, WorldTypes
<1>5. FlagTypes'
  BY Zenon DEF TypeOK, FlagTypes
<1>6. QED
  BY <1>3, <1>4, <1>5 DEF TypeOK

(* Types are kept by the set-up's steps. *)
LEMMA SetupType == ASSUME TypeOK, Setup PROVE TypeOK'
<1> USE DEF Setup, Probed, ProbeFails, LanCredentials, LoggedIn, WriteWifi,
            WifiAcked, WifiRejected, NetworkRefused, NetworkWaited,
            FoundOnLan, NotOnLan, Acquired,
            At, To, Fail, Spend, flowVars, taskVars, acVars,
            cloudVars, vars
<1>1. spent' \in [Cause -> Nat]
  BY DEF TypeOK, FlowTypes, Cause
<1>2. state' \in Progress
  BY DEF TypeOK, FlowTypes, Progress
<1>3. FlowTypes'
  BY <1>1, <1>2 DEF TypeOK, FlowTypes, Screens, Stages
<1>4. WorldTypes'
  BY DEF TypeOK, FlowTypes, WorldTypes
<1>5. FlagTypes'
  BY Zenon DEF TypeOK, FlagTypes
<1>6. QED
  BY <1>3, <1>4, <1>5 DEF TypeOK

(* Types are kept by the linking's steps. *)
LEMMA LinkType == ASSUME TypeOK, Link PROVE TypeOK'
<1> USE DEF Link, OwnershipChecked, OwnershipRefused, Bind, LookupFails,
            BindAccepted, BindUnclear, Rechecked, NotOwned, StatusRead,
            StartConfirmation, ConfirmationNeeded, ConfirmedMeanwhile,
            StartRejected, Verified, OwnershipPending,
            At, To, Fail, Spend, flowVars, taskVars, acVars,
            cloudVars, vars
<1>1. spent' \in [Cause -> Nat]
  BY DEF TypeOK, FlowTypes, Cause
<1>2. state' \in Progress
  BY DEF TypeOK, FlowTypes, Progress
<1>3. FlowTypes'
  BY <1>1, <1>2 DEF TypeOK, FlowTypes, Screens, Stages
<1>4. WorldTypes'
  BY DEF TypeOK, FlowTypes, WorldTypes
<1>5. FlagTypes'
  BY Zenon DEF TypeOK, FlagTypes
<1>6. QED
  BY <1>3, <1>4, <1>5 DEF TypeOK

(* Types are kept by the other steps. *)
LEMMA RestType == ASSUME TypeOK, Rest PROVE TypeOK'
<1> USE DEF Rest, Interrupted, Unanswered, Appliance, Join, CannotJoin, Confirm,
            LinkElsewhere, Ended,
            At, To, Fail, Spend, flowVars, taskVars, acVars,
            cloudVars, vars
<1>1. spent' \in [Cause -> Nat]
  BY DEF TypeOK, FlowTypes, Cause
<1>2. state' \in Progress
  BY DEF TypeOK, FlowTypes, Progress
<1>3. FlowTypes'
  BY <1>1, <1>2 DEF TypeOK, FlowTypes, Screens, Stages
<1>4. WorldTypes'
  BY DEF TypeOK, FlowTypes, WorldTypes
<1>5. FlagTypes'
  BY Zenon DEF TypeOK, FlagTypes
<1>6. QED
  BY <1>3, <1>4, <1>5 DEF TypeOK

(* Type correctness, for any accounts, networks, credentials and budgets:   *)
(* every variable keeps its type.                                          *)
THEOREM TypeCorrect == Spec => []TypeOK
<1>1. TypeOK /\ [Next]_vars => TypeOK'
  <2> SUFFICES ASSUME TypeOK, [Next]_vars PROVE TypeOK'
    OBVIOUS
  <2>1. CASE Next
    BY <2>1, NextCases, UserType, SetupType, LinkType, RestType
  <2>2. CASE UNCHANGED vars
    <3>1. FlowTypes' /\ WorldTypes'
      BY <2>2 DEF TypeOK, FlowTypes, WorldTypes, vars, flowVars, taskVars, acVars, cloudVars
    <3>2. FlagTypes'
      BY Zenon, <2>2 DEF TypeOK, FlagTypes, vars, flowVars, taskVars, acVars, cloudVars
    <3>3. QED
      BY <3>1, <3>2 DEF TypeOK
  <2>3. QED
    BY <2>1, <2>2
<1>2. QED
  BY InitType, <1>1, PTL DEF Spec

-----------------------------------------------------------------------------
(* The inductive invariant holds at first. *)
LEMMA InitInv == Init => IInv
BY InitType DEF Init, IInv, TaskInv, WriteInv, LookupInv, AskedInv, BoundInv,
            AfterWrite, Fresh

(* The inductive invariant is kept by the user's steps. *)
LEMMA UserInv == ASSUME IInv, User PROVE IInv'
<1> USE DEF User, ChooseLan, ChooseSetup, Submit, Offered, Retry,
            RestartConfirmation, Restart, Leave,
            At, To, Fail, Spend, flowVars, taskVars, acVars,
            cloudVars, vars
<1>1. TypeOK'
  BY UserType DEF IInv
<1>2. TaskInv'
  BY DEF IInv, TaskInv
<1>3. WriteInv'
  BY DEF IInv, TaskInv, WriteInv, TypeOK, FlowTypes, Progress, AfterWrite, Fresh
<1>4. LookupInv'
  BY AccountAssumption DEF IInv, TaskInv, LookupInv, TypeOK, FlowTypes, Progress
<1>5. AskedInv'
  BY DEF IInv, AskedInv, TypeOK, FlowTypes, Progress, Fresh
<1>6. BoundInv'
  BY DEF IInv, TaskInv, WriteInv, BoundInv, AfterWrite, TypeOK, FlowTypes, Progress, Fresh
<1>7. QED
  BY <1>1, <1>2, <1>3, <1>4, <1>5, <1>6 DEF IInv

(* The inductive invariant is kept by the set-up's steps. *)
LEMMA SetupInv == ASSUME IInv, Setup PROVE IInv'
<1> USE DEF Setup, Probed, ProbeFails, LanCredentials, LoggedIn, WriteWifi,
            WifiAcked, WifiRejected, NetworkRefused, NetworkWaited,
            FoundOnLan, NotOnLan, Acquired,
            At, To, Fail, Spend, flowVars, taskVars, acVars,
            cloudVars, vars
<1>1. TypeOK'
  BY SetupType DEF IInv
<1>2. TaskInv'
  BY DEF IInv, TaskInv
<1>3. WriteInv'
  BY DEF IInv, TaskInv, WriteInv, TypeOK, FlowTypes, Progress, AfterWrite, Fresh
<1>4. LookupInv'
  BY AccountAssumption DEF IInv, TaskInv, LookupInv, TypeOK, FlowTypes, Progress
<1>5. AskedInv'
  BY DEF IInv, AskedInv, TypeOK, FlowTypes, Progress, Fresh
<1>6. BoundInv'
  BY DEF IInv, TaskInv, WriteInv, BoundInv, AfterWrite, TypeOK, FlowTypes, Progress, Fresh
<1>7. QED
  BY <1>1, <1>2, <1>3, <1>4, <1>5, <1>6 DEF IInv

(* The inductive invariant is kept by the linking's steps. *)
LEMMA LinkInv == ASSUME IInv, Link PROVE IInv'
<1> USE DEF Link, OwnershipChecked, OwnershipRefused, Bind, LookupFails,
            BindAccepted, BindUnclear, Rechecked, NotOwned, StatusRead,
            StartConfirmation, ConfirmationNeeded, ConfirmedMeanwhile,
            StartRejected, Verified, OwnershipPending,
            At, To, Fail, Spend, flowVars, taskVars, acVars,
            cloudVars, vars
<1>1. TypeOK'
  BY LinkType DEF IInv
<1>2. TaskInv'
  BY DEF IInv, TaskInv
<1>3. WriteInv'
  BY DEF IInv, TaskInv, WriteInv, TypeOK, FlowTypes, Progress, AfterWrite, Fresh
<1>4. LookupInv'
  BY AccountAssumption DEF IInv, TaskInv, LookupInv, TypeOK, FlowTypes, Progress
<1>5. AskedInv'
  BY DEF IInv, AskedInv, TypeOK, FlowTypes, Progress, Fresh
<1>6. BoundInv'
  BY DEF IInv, TaskInv, WriteInv, BoundInv, AfterWrite, TypeOK, FlowTypes, Progress, Fresh
<1>7. QED
  BY <1>1, <1>2, <1>3, <1>4, <1>5, <1>6 DEF IInv

(* The inductive invariant is kept by the other steps. *)
LEMMA RestInv == ASSUME IInv, Rest PROVE IInv'
<1> USE DEF Rest, Interrupted, Unanswered, Appliance, Join, CannotJoin, Confirm,
            LinkElsewhere, Ended,
            At, To, Fail, Spend, flowVars, taskVars, acVars,
            cloudVars, vars
<1>1. TypeOK'
  BY RestType DEF IInv
<1>2. TaskInv'
  BY DEF IInv, TaskInv
<1>3. WriteInv'
  BY DEF IInv, TaskInv, WriteInv, TypeOK, FlowTypes, Progress, AfterWrite, Fresh
<1>4. LookupInv'
  BY AccountAssumption DEF IInv, TaskInv, LookupInv, TypeOK, FlowTypes, Progress
<1>5. AskedInv'
  BY DEF IInv, AskedInv, TypeOK, FlowTypes, Progress, Fresh
<1>6. BoundInv'
  BY DEF IInv, TaskInv, WriteInv, BoundInv, AfterWrite, TypeOK, FlowTypes, Progress, Fresh
<1>7. QED
  BY <1>1, <1>2, <1>3, <1>4, <1>5, <1>6 DEF IInv

(* The inductive invariant is one. *)
LEMMA Inductive == Spec => []IInv
<1>1. IInv /\ UNCHANGED vars => IInv'
  <2> SUFFICES ASSUME IInv, UNCHANGED vars PROVE IInv'
    OBVIOUS
  <2> USE DEF vars, flowVars, taskVars, acVars, cloudVars
  <2>1. FlowTypes' /\ WorldTypes'
    BY DEF IInv, TypeOK, FlowTypes, WorldTypes
  <2>2. FlagTypes'
    BY Zenon DEF IInv, TypeOK, FlagTypes
  <2>3. TaskInv' /\ WriteInv' /\ LookupInv' /\ AskedInv' /\ BoundInv'
    BY DEF IInv, TaskInv, WriteInv, LookupInv, AskedInv, BoundInv
  <2>4. QED
    BY <2>1, <2>2, <2>3 DEF IInv, TypeOK
<1>2. IInv /\ [Next]_vars => IInv'
  BY <1>1, NextCases, UserInv, SetupInv, LinkInv, RestInv
<1>3. QED
  BY InitInv, <1>2, PTL DEF Spec

-----------------------------------------------------------------------------
(* A pairing that counts as bound is bound to the selected account          *)
(* (bluetooth_provision.py:350), for any accounts and budgets.             *)
THEOREM BoundOwnedAlways == Spec => []BoundOwned
<1>1. IInv => BoundOwned
  BY DEF IInv, BoundInv, BoundOwned
<1>2. QED
  BY Inductive, <1>1, PTL

(* Credentials the appliance has, and has not failed to join with, are not   *)
(* written again (bluetooth_provision.py:74).                              *)
THEOREM NoResendAlways == Spec => NoResend
<1> DEFINE Step == stage = "bluetooth" /\ stage' = "acking" => given = None
<1>1. IInv /\ [Next]_vars => [Step]_vars
  BY DEF IInv, WriteInv
<1> HIDE DEF Step
<1>2. Spec => [][Step]_vars
  BY Inductive, <1>1, PTL DEF Spec
<1>3. QED
  BY <1>2 DEF NoResend, Step

(* SmartHome is never asked to bind an appliance that the selected account  *)
(* owns already (bluetooth_provision.py:268).                              *)
THEOREM NoRebindAlways == Spec => NoRebind
<1> DEFINE Step == stage = "lookup" /\ stage' = "binding" /\ account \in Smart => owner # account
<1>1. IInv /\ [Next]_vars => [Step]_vars
  BY DEF IInv, LookupInv
<1> HIDE DEF Step
<1>2. Spec => [][Step]_vars
  BY Inductive, <1>1, PTL DEF Spec
<1>3. QED
  BY <1>2 DEF NoRebind, Step

(* A lost answer does not start the confirmation at the appliance again     *)
(* (bluetooth_provision.py:327).                                           *)
THEOREM ConfirmOnceAlways == Spec => ConfirmOnce
<1> DEFINE Step == stage = "status" /\ stage' = "starting" => ~asked
<1>1. IInv /\ [Next]_vars => [Step]_vars
  <2> SUFFICES ASSUME IInv, [Next]_vars, stage = "status", stage' = "starting", asked
               PROVE  FALSE
    BY Zenon
  <2>1. Next
    BY DEF vars, taskVars
  <2>2. StartConfirmation
    BY <2>1 DEF Next, User, ChooseLan, ChooseSetup, Submit, Offered, Retry,
            RestartConfirmation, Restart, Leave,
            Setup, Probed, ProbeFails, LanCredentials, LoggedIn, WriteWifi,
            WifiAcked, WifiRejected, NetworkRefused, NetworkWaited,
            FoundOnLan, NotOnLan, Acquired,
            Link, OwnershipChecked, OwnershipRefused, Bind, LookupFails,
            BindAccepted, BindUnclear, Rechecked, NotOwned, StatusRead,
            ConfirmationNeeded, ConfirmedMeanwhile,
            StartRejected, Verified, OwnershipPending,
            Interrupted, Unanswered, Appliance, Join, CannotJoin, Confirm,
            LinkElsewhere, Ended,
            At, To, Fail, Spend, flowVars, taskVars, acVars,
            cloudVars, vars
  <2>3. QED
    BY <2>2 DEF StartConfirmation, IInv, AskedInv
<1> HIDE DEF Step
<1>2. Spec => [][Step]_vars
  BY Inductive, <1>1, PTL DEF Spec
<1>3. QED
  BY <1>2 DEF ConfirmOnce, Step

-----------------------------------------------------------------------------
(* Provisioning implements Pairing.  First what that needs beyond IInv.     *)

(* Whoever works on a pairing has chosen an account. *)
ChosenInv == screen \in {"working", "finish", "confirm"} => account \in Account

(* The credentials last until they are written. *)
WifiInv ==
    /\ screen \in {"finish", "confirm"} => state.writeStarted
    /\ stage \in {"login", "bluetooth"} /\ ~state.writeStarted => wifi \in Wifi

(* An appliance that is left as it was found was given nothing. *)
FoundInv == screen \in {"connect", "lan"} \/ stage = "lanCredentials" => given = None

(* The questions that end with the link. *)
EndInv ==
    /\ stage = "verify" => confirmed
    /\ stage \in {"lan", "credentials"} => state.bound
    /\ screen \in {"confirm", "expired"} => ~state.bound

PInv == ChosenInv /\ WifiInv /\ FoundInv /\ EndInv

-----------------------------------------------------------------------------
(* It holds at first. *)
LEMMA InitPInv == Init => PInv
BY DEF Init, PInv, ChosenInv, WifiInv, FoundInv, EndInv, Fresh

(* It is kept by the user's steps. *)
LEMMA UserPInv == ASSUME IInv, PInv, User PROVE PInv'
<1> USE DEF User, ChooseLan, ChooseSetup, Submit, Offered, Retry,
            RestartConfirmation, Restart, Leave,
            At, To, Fail, Spend, flowVars, taskVars, acVars,
            cloudVars, vars
<1>1. ChosenInv'
  BY DEF PInv, ChosenInv
<1>2. WifiInv'
  BY DEF IInv, TaskInv, TypeOK, FlowTypes, Progress, Fresh, PInv, WifiInv
<1>3. FoundInv'
  BY DEF IInv, TaskInv, PInv, FoundInv
<1>4. EndInv'
  BY DEF IInv, TaskInv, BoundInv, TypeOK, FlowTypes, Progress, Fresh, PInv, EndInv
<1>5. QED
  BY <1>1, <1>2, <1>3, <1>4 DEF PInv

(* It is kept by the set-up's steps. *)
LEMMA SetupPInv == ASSUME IInv, PInv, Setup PROVE PInv'
<1> USE DEF Setup, Probed, ProbeFails, LanCredentials, LoggedIn, WriteWifi,
            WifiAcked, WifiRejected, NetworkRefused, NetworkWaited,
            FoundOnLan, NotOnLan, Acquired,
            At, To, Fail, Spend, flowVars, taskVars, acVars,
            cloudVars, vars
<1>1. ChosenInv'
  BY DEF PInv, ChosenInv
<1>2. WifiInv'
  BY DEF IInv, TaskInv, WriteInv, AfterWrite, BoundInv, TypeOK, FlowTypes, Progress, PInv, WifiInv
<1>3. FoundInv'
  BY DEF IInv, TaskInv, WriteInv, BoundInv, PInv, FoundInv
<1>4. EndInv'
  BY DEF IInv, TaskInv, BoundInv, TypeOK, FlowTypes, Progress, PInv, EndInv
<1>5. QED
  BY <1>1, <1>2, <1>3, <1>4 DEF PInv

(* It is kept by the linking's steps. *)
LEMMA LinkPInv == ASSUME IInv, PInv, Link PROVE PInv'
<1> USE DEF Link, OwnershipChecked, OwnershipRefused, Bind, LookupFails,
            BindAccepted, BindUnclear, Rechecked, NotOwned, StatusRead,
            StartConfirmation, ConfirmationNeeded, ConfirmedMeanwhile,
            StartRejected, Verified, OwnershipPending,
            At, To, Fail, Spend, flowVars, taskVars, acVars,
            cloudVars, vars
<1>1. ChosenInv'
  BY DEF PInv, ChosenInv
<1>2. WifiInv'
  BY DEF IInv, TaskInv, WriteInv, AfterWrite, TypeOK, FlowTypes, Progress, PInv, WifiInv
<1>3. FoundInv'
  BY DEF IInv, TaskInv, WriteInv, PInv, FoundInv
<1>4. EndInv'
  BY DEF IInv, TaskInv, BoundInv, TypeOK, FlowTypes, Progress, PInv, EndInv
<1>5. QED
  BY <1>1, <1>2, <1>3, <1>4 DEF PInv

(* It is kept by the other steps. *)
LEMMA RestPInv == ASSUME IInv, PInv, Rest PROVE PInv'
<1> USE DEF Rest, Interrupted, Unanswered, Appliance, Join, CannotJoin, Confirm,
            LinkElsewhere, Ended,
            At, To, Fail, Spend, flowVars, taskVars, acVars,
            cloudVars, vars
<1>1. ChosenInv'
  BY DEF PInv, ChosenInv
<1>2. WifiInv'
  BY DEF IInv, TaskInv, TypeOK, FlowTypes, Progress, PInv, WifiInv
<1>3. FoundInv'
  BY DEF IInv, TaskInv, PInv, FoundInv
<1>4. EndInv'
  BY DEF IInv, TaskInv, BoundInv, TypeOK, FlowTypes, Progress, PInv, EndInv
<1>5. QED
  BY <1>1, <1>2, <1>3, <1>4 DEF PInv

(* Every step keeps it. *)
LEMMA PInvStep == IInv /\ PInv /\ [Next]_vars => PInv'
<1>1. IInv /\ PInv /\ UNCHANGED vars => PInv'
  BY DEF vars, flowVars, taskVars, acVars, cloudVars, PInv, ChosenInv, WifiInv,
         FoundInv, EndInv
<1>2. QED
  BY <1>1, NextCases, UserPInv, SetupPInv, LinkPInv, RestPInv

-----------------------------------------------------------------------------
(* A step that changes neither the appliance nor the cloud, nor whether the *)
(* pairing counts as bound, is not seen.                                   *)
LEMMA SilentStep ==
    ASSUME UNCHANGED <<acVars, cloudVars>>,
           state'.bound <=> state.bound,
           state.bound => account' = account,
           screen = "created" <=> screen' = "created"
    PROVE  UNCHANGED Steps!vars
BY Zenon DEF Steps!vars, acVars, cloudVars

(* A pairing at work is open. *)
LEMMA OpenAtWork ==
    ASSUME IInv, screen = "working", stage \notin {"none", "login", "lan", "credentials"}
    PROVE  Steps!Open
BY Zenon DEF IInv, BoundInv, Steps!Open

(* The user only ever starts over. *)
LEMMA UserSteps == ASSUME IInv, PInv, User PROVE [Steps!Next]_(Steps!vars)
<1> USE DEF taskVars, flowVars
<1>1. CASE \E a \in Account : ChooseLan(a) \/ ChooseSetup(a)
  BY <1>1, SilentStep DEF ChooseLan, ChooseSetup, IInv, BoundInv
<1>2. CASE \E a \in Account, w \in Wifi : Submit(a, w)
  BY <1>2, SilentStep DEF Submit, IInv, BoundInv
<1>3. CASE Retry
  BY <1>3, SilentStep DEF Retry
<1>4. CASE RestartConfirmation
  <2>1. Steps!StartOver
    BY <1>4 DEF RestartConfirmation, IInv, TypeOK, FlowTypes, Progress, PInv, EndInv,
                acVars, Steps!StartOver, Steps!Open
  <2>2. QED
    BY <2>1 DEF Steps!Next
<1>5. CASE Restart
  <2>1. ~state.bound /\ screen # "created" /\ screen' # "created" /\ ~state'.bound
    BY <1>5 DEF Restart, IInv, BoundInv, PInv, EndInv, Fresh
  <2>2. Steps!StartOver
    BY <1>5, <2>1 DEF Restart, Steps!StartOver, Steps!Open
  <2>3. QED
    BY <2>2 DEF Steps!Next
<1>6. CASE Leave
  BY <1>6, SilentStep DEF Leave
<1>7. QED
  BY <1>1, <1>2, <1>3, <1>4, <1>5, <1>6 DEF User

(* The set-up gives the appliance credentials and creates the entry. *)
LEMMA SetupSteps == ASSUME IInv, PInv, Setup PROVE [Steps!Next]_(Steps!vars)
<1> USE DEF taskVars, flowVars, At, To, Fail
<1>1. CASE WriteWifi
  <2>1. CASE UNCHANGED given
    BY <1>1, <2>1, Zenon DEF WriteWifi, Steps!vars, cloudVars, IInv, TypeOK, FlowTypes, Progress
  <2>2. CASE given' = wifi /\ ~UNCHANGED given
    <3>1. Steps!Open /\ wifi \in Wifi /\ given = None
      BY <1>1, OpenAtWork DEF WriteWifi, IInv, WriteInv, PInv, WifiInv
    <3>2. Steps!Give(wifi)
      BY <1>1, <2>2, <3>1 DEF WriteWifi, Steps!Give, cloudVars, IInv, TypeOK, FlowTypes, Progress
    <3>3. QED
      BY <3>1, <3>2 DEF Steps!Next
  <2>3. QED
    BY <1>1, <2>1, <2>2 DEF WriteWifi
<1>2. CASE LanCredentials
  <2>1. CASE screen' = "lan"
    BY <1>2, <2>1, SilentStep DEF LanCredentials
  <2>2. CASE screen' = "created"
    <3>1. Steps!Create
      BY <1>2, <2>2 DEF LanCredentials, PInv, FoundInv, Steps!Create, acVars, cloudVars
    <3>2. QED
      BY <3>1 DEF Steps!Next
  <2>3. QED
    BY <1>2, <2>1, <2>2 DEF LanCredentials
<1>3. CASE Acquired
  <2>1. account \in Account /\ account # None /\ state.bound
    BY <1>3, AccountAssumption DEF Acquired, PInv, ChosenInv, EndInv
  <2>2. Steps!Create
    BY <1>3, <2>1 DEF Acquired, Steps!Create, acVars, cloudVars
  <2>3. QED
    BY <2>2 DEF Steps!Next
<1>4. CASE \/ Probed \/ ProbeFails \/ LoggedIn \/ WifiAcked \/ NetworkWaited
          \/ FoundOnLan \/ NotOnLan
  BY <1>4, SilentStep DEF Probed, ProbeFails, LoggedIn, WifiAcked, NetworkWaited,
                          FoundOnLan, NotOnLan
<1>5. CASE WifiRejected \/ NetworkRefused
  <2>1. state'.bound <=> state.bound
    BY <1>5 DEF WifiRejected, NetworkRefused, IInv, TypeOK, FlowTypes, Progress
  <2>2. QED
    BY <1>5, <2>1, SilentStep DEF WifiRejected, NetworkRefused
<1>6. QED
  BY <1>1, <1>2, <1>3, <1>4, <1>5 DEF Setup

(* Linking owns, asks and links. *)
LEMMA LinkSteps == ASSUME IInv, PInv, Link PROVE [Steps!Next]_(Steps!vars)
<1> USE DEF taskVars, flowVars, At, To, Fail
<1>1. CASE Bind
  <2>1. Steps!Open /\ account \in Account
    BY <1>1, OpenAtWork DEF Bind, PInv, ChosenInv
  <2>2. CASE owner' = owner
    BY <1>1, <2>2, Zenon DEF Bind, Steps!vars, acVars
  <2>3. CASE owner' # owner
    <3>1. Steps!Own(account)
      BY <1>1, <2>1, <2>3 DEF Bind, Steps!Own, Steps!Open, acVars
    <3>2. QED
      BY <2>1, <3>1 DEF Steps!Next
  <2>4. QED
    BY <2>2, <2>3
<1>2. CASE StartConfirmation
  <2>1. Steps!Open
    BY <1>2, OpenAtWork DEF StartConfirmation
  <2>2. state'.bound <=> state.bound
    BY <1>2 DEF StartConfirmation, IInv, TypeOK, FlowTypes, Progress
  <2>3. CASE asked'
    <3>1. ~asked /\ ~confirmed
      BY <1>2 DEF StartConfirmation, IInv, AskedInv
    <3>2. Steps!Ask
      BY <1>2, <2>1, <2>2, <2>3, <3>1 DEF StartConfirmation, Steps!Ask, Steps!Open, acVars
    <3>3. QED
      BY <3>2 DEF Steps!Next
  <2>4. CASE ~asked'
    <3>1. UNCHANGED asked
      BY <1>2, <2>4, Zenon DEF StartConfirmation
    <3>2. QED
      BY <1>2, <2>2, <3>1, SilentStep DEF StartConfirmation, cloudVars
  <2>5. QED
    BY <2>3, <2>4
<1>3. CASE Verified
  <2>1. Steps!Open /\ account \in Account /\ confirmed
    BY <1>3, OpenAtWork DEF Verified, PInv, ChosenInv, EndInv
  <2>2. Steps!Link(account)
    BY <1>3, <2>1 DEF Verified, Steps!Link, Steps!Open, acVars, cloudVars,
                      IInv, TypeOK, FlowTypes, Progress
  <2>3. QED
    BY <2>1, <2>2 DEF Steps!Next
<1>4. CASE BindAccepted
  <2>1. Steps!Open /\ account \in Account
    BY <1>4, OpenAtWork DEF BindAccepted, PInv, ChosenInv
  <2>2. CASE account \in Smart
    <3>1. state'.bound <=> state.bound
      BY <1>4, <2>2 DEF BindAccepted, IInv, TypeOK, FlowTypes, Progress
    <3>2. QED
      BY <1>4, <2>2, <3>1, SilentStep DEF BindAccepted
  <2>3. CASE account \notin Smart
    <3>1. Steps!Link(account)
      BY <1>4, <2>1, <2>3 DEF BindAccepted, Steps!Link, Steps!Open, acVars, cloudVars,
                              IInv, TypeOK, FlowTypes, Progress
    <3>2. QED
      BY <2>1, <3>1 DEF Steps!Next
  <2>4. QED
    BY <2>2, <2>3
<1>5. CASE OwnershipChecked \/ Rechecked \/ NotOwned \/ StartRejected
  <2>1. state'.bound <=> state.bound
    BY <1>5 DEF OwnershipChecked, Rechecked, NotOwned, StartRejected,
                IInv, TypeOK, FlowTypes, Progress
  <2>2. QED
    BY <1>5, <2>1, SilentStep DEF OwnershipChecked, Rechecked, NotOwned, StartRejected
<1>6. CASE \/ OwnershipRefused \/ LookupFails \/ BindUnclear \/ StatusRead
          \/ ConfirmationNeeded \/ ConfirmedMeanwhile \/ OwnershipPending
  BY <1>6, SilentStep DEF OwnershipRefused, LookupFails, BindUnclear, StatusRead,
                          ConfirmationNeeded, ConfirmedMeanwhile, OwnershipPending
<1>7. QED
  BY <1>1, <1>2, <1>3, <1>4, <1>5, <1>6 DEF Link

(* The appliance refuses or confirms, and its owner may change elsewhere. *)
LEMMA RestSteps == ASSUME IInv, PInv, Rest PROVE [Steps!Next]_(Steps!vars)
<1> USE DEF taskVars, flowVars
<1>1. CASE Interrupted
  BY <1>1, SilentStep DEF Interrupted, Fail
<1>2. CASE Join
  BY <1>2, Zenon DEF Join, Steps!vars, cloudVars
<1>3. CASE CannotJoin
  <2>1. Steps!Refuse
    BY <1>3, Zenon DEF CannotJoin, Steps!Refuse, cloudVars
  <2>2. QED
    BY <2>1 DEF Steps!Next
<1>4. CASE Confirm
  <2>1. Steps!Confirm
    BY <1>4, Zenon DEF Confirm, Steps!Confirm, acVars
  <2>2. QED
    BY <2>1 DEF Steps!Next
<1>5. CASE \E a \in Account : LinkElsewhere(a)
  <2>1. PICK a \in Account : LinkElsewhere(a)
    BY <1>5
  <2>2. Steps!Own(a)
    BY <2>1, Zenon DEF LinkElsewhere, Steps!Own, acVars
  <2>3. QED
    BY <2>2 DEF Steps!Next
<1>6. CASE Ended
  BY <1>6, SilentStep DEF Ended, vars
<1>7. QED
  BY <1>1, <1>2, <1>3, <1>4, <1>5, <1>6 DEF Rest, Appliance

(* Provisioning implements Pairing: "Wi-Fi settings and completed account   *)
(* linking will not be repeated" (translations/en.json:347), for any        *)
(* accounts, credentials and budgets.                                      *)
THEOREM PairingImplemented == Spec => OncePerPairing
<1>1. Init => Steps!Init
  BY AccountAssumption DEF Init, Steps!Init, Fresh
<1>2. IInv /\ PInv /\ [Next]_vars => [Steps!Next]_(Steps!vars)
  <2>1. ASSUME UNCHANGED vars PROVE UNCHANGED Steps!vars
    BY <2>1, SilentStep DEF vars, flowVars
  <2>2. QED
    BY <2>1, NextCases, UserSteps, SetupSteps, LinkSteps, RestSteps
<1>3. Spec => []PInv
  BY Inductive, InitPInv, PInvStep, PTL DEF Spec
<1>4. QED
  BY <1>1, <1>2, <1>3, Inductive, PTL DEF Spec, OncePerPairing, Steps!Spec
-----------------------------------------------------------------------------
(* Which password is saved: how far the disagreement goes that the run      *)
(* provisioning_saved shows.                                               *)

(* What the appliance was given it has yet to try, or is on. *)
GivenInv == given # None => told = given \/ (told = None /\ net = given)

(* What is to be saved is what the appliance is given. *)
ToSaveInv ==
    /\ given # None /\ toSave # None => toSave = given
    /\ stage \in {"login", "bluetooth"} /\ ~state.writeStarted => toSave = wifi
    /\ screen = "setup" => given = None

SInv == GivenInv /\ ToSaveInv

(* It holds at first. *)
LEMMA InitSInv == Init => SInv
BY DEF Init, SInv, GivenInv, ToSaveInv

(* It is kept by the user's steps. *)
LEMMA UserSInv == ASSUME IInv, PInv, SInv, User PROVE SInv'
<1> USE DEF User, ChooseLan, ChooseSetup, Submit, Offered, Retry,
            RestartConfirmation, Restart, Leave,
            At, To, Fail, Spend, flowVars, taskVars, acVars,
            cloudVars, vars
<1>1. GivenInv'
  BY WifiAssumption DEF IInv, TypeOK, WorldTypes, PInv, WifiInv, SInv, GivenInv
<1>2. ToSaveInv'
  BY DEF IInv, TaskInv, WriteInv, AfterWrite, BoundInv, TypeOK, FlowTypes, Progress, Fresh,
         PInv, WifiInv, FoundInv, SInv, ToSaveInv
<1>3. QED
  BY <1>1, <1>2 DEF SInv

(* It is kept by the set-up's steps. *)
LEMMA SetupSInv == ASSUME IInv, PInv, SInv, Setup PROVE SInv'
<1> USE DEF Setup, Probed, ProbeFails, LanCredentials, LoggedIn, WriteWifi,
            WifiAcked, WifiRejected, NetworkRefused, NetworkWaited,
            FoundOnLan, NotOnLan, Acquired,
            At, To, Fail, Spend, flowVars, taskVars, acVars,
            cloudVars, vars
<1>1. GivenInv'
  BY WifiAssumption DEF IInv, TypeOK, WorldTypes, PInv, WifiInv, SInv, GivenInv
<1>2. ToSaveInv'
  BY DEF IInv, TaskInv, WriteInv, AfterWrite, BoundInv, TypeOK, FlowTypes, Progress, Fresh,
         PInv, WifiInv, FoundInv, SInv, ToSaveInv
<1>3. QED
  BY <1>1, <1>2 DEF SInv

(* It is kept by the linking's steps. *)
LEMMA LinkSInv == ASSUME IInv, PInv, SInv, Link PROVE SInv'
<1> USE DEF Link, OwnershipChecked, OwnershipRefused, Bind, LookupFails,
            BindAccepted, BindUnclear, Rechecked, NotOwned, StatusRead,
            StartConfirmation, ConfirmationNeeded, ConfirmedMeanwhile,
            StartRejected, Verified, OwnershipPending,
            At, To, Fail, Spend, flowVars, taskVars, acVars,
            cloudVars, vars
<1>1. GivenInv'
  BY WifiAssumption DEF IInv, TypeOK, WorldTypes, PInv, WifiInv, SInv, GivenInv
<1>2. ToSaveInv'
  BY DEF IInv, TaskInv, WriteInv, AfterWrite, BoundInv, TypeOK, FlowTypes, Progress, Fresh,
         PInv, WifiInv, FoundInv, SInv, ToSaveInv
<1>3. QED
  BY <1>1, <1>2 DEF SInv

(* It is kept by the other steps. *)
LEMMA RestSInv == ASSUME IInv, PInv, SInv, Rest PROVE SInv'
<1> USE DEF Rest, Interrupted, Unanswered, Appliance, Join, CannotJoin, Confirm,
            LinkElsewhere, Ended,
            At, To, Fail, Spend, flowVars, taskVars, acVars,
            cloudVars, vars
<1>1. GivenInv'
  BY WifiAssumption DEF IInv, TypeOK, WorldTypes, PInv, WifiInv, SInv, GivenInv
<1>2. ToSaveInv'
  BY DEF IInv, TaskInv, WriteInv, AfterWrite, BoundInv, TypeOK, FlowTypes, Progress, Fresh,
         PInv, WifiInv, FoundInv, SInv, ToSaveInv
<1>3. QED
  BY <1>1, <1>2 DEF SInv

(* Every step keeps it. *)
LEMMA SInvStep == IInv /\ PInv /\ SInv /\ [Next]_vars => SInv'
<1>1. SInv /\ UNCHANGED vars => SInv'
  BY DEF vars, flowVars, taskVars, acVars, cloudVars, SInv, GivenInv, ToSaveInv
<1>2. QED
  BY <1>1, NextCases, UserSInv, SetupSInv, LinkSInv, RestSInv

(* "Replace a network password only after successful provisioning"          *)
(* (wifi_credentials.py:52) is broken in one way only: if the appliance     *)
(* has the credentials of this pairing and has not failed to join with     *)
(* them, the password saved is theirs, and it is on that network or about   *)
(* to try it.                                                              *)
SavedIsGiven ==
    [][store' # store /\ given # None => store' = given /\ given \in {net, told}]_vars

(* A password that is not used is saved only if the write of it was lost or *)
(* the appliance refused it.                                               *)
THEOREM SavedUnlessLost == Spec => SavedIsGiven
<1> DEFINE Step == store' # store /\ given # None => store' = given /\ given \in {net, told}
<1>1. SInv /\ [Next]_vars => [Step]_vars
  <2> SUFFICES ASSUME SInv, [Next]_vars, store' # store, given # None
               PROVE  store' = given /\ given \in {net, told}
    BY Zenon
  <2>1. Next
    BY DEF vars
  <2>2. Acquired
    BY <2>1 DEF Next, User, ChooseLan, ChooseSetup, Submit, Offered, Retry,
            RestartConfirmation, Restart, Leave, Setup, Probed, ProbeFails,
            LanCredentials, LoggedIn, WriteWifi, WifiAcked, WifiRejected,
            NetworkRefused, NetworkWaited, FoundOnLan, NotOnLan, Link,
            OwnershipChecked, OwnershipRefused, Bind, LookupFails,
            BindAccepted, BindUnclear, Rechecked, NotOwned, StatusRead,
            StartConfirmation, ConfirmationNeeded, ConfirmedMeanwhile,
            StartRejected, Verified, OwnershipPending, Interrupted,
            Unanswered, Appliance, Join, CannotJoin, Confirm, LinkElsewhere,
            Ended, At, To, Fail, Spend, flowVars, taskVars, acVars, cloudVars,
            vars
  <2>3. QED
    BY <2>2 DEF Acquired, SInv, GivenInv, ToSaveInv
<1> HIDE DEF Step
<1>2. Spec => []SInv
  BY Inductive, InitPInv, PInvStep, InitSInv, SInvStep, PTL DEF Spec
<1>3. Spec => [][Step]_vars
  BY <1>1, <1>2, PTL DEF Spec
<1>4. QED
  BY <1>3 DEF SavedIsGiven, Step
=============================================================================
