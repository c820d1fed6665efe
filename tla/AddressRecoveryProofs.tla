----------------------- MODULE AddressRecoveryProofs -----------------------
(***************************************************************************)
(* Proofs about address recovery, for any entries, addresses and interval. *)
(***************************************************************************)
EXTENDS AddressRecovery, TLAPS

(* Initially every variable has its type. *)
LEMMA InitType == Init => TypeOK
<1> SUFFICES ASSUME Init PROVE TypeOK
  OBVIOUS
<1>1. EntryTypes
  BY DEF Init, EntryTypes, Lives, Data
<1>2. FlagTypes
  BY Zenon DEF Init, FlagTypes
<1>3. RecoveryTypes
  BY DEF Init, RecoveryTypes, Verifying
<1>4. ClockTypes
  BY IntervalAssumption DEF Init, ClockTypes
<1>5. QED
  BY <1>1, <1>2, <1>3, <1>4 DEF TypeOK

(* Spending keeps the budget's counters natural. *)
LEMMA SpendType ==
    ASSUME spent \in [Cause -> Nat], NEW k \in Cause, Spend(k)
    PROVE  spent' \in [Cause -> Nat]
BY DEF Spend

(* So does a device that gives no answer. *)
LEMMA NoAnswerType ==
    ASSUME spent \in [Cause -> Nat], NEW e \in Entry, NoAnswer(e)
    PROVE  spent' \in [Cause -> Nat]
BY SpendType DEF NoAnswer, Cause

(* What a recovery returns to keeps the types. *)
LEMMA ReturnType ==
    ASSUME TypeOK, NEW t \in Task, NEW b \in BOOLEAN, Return(t, b),
           devices' \in SUBSET Advert
    PROVE  /\ RecoveryTypes' /\ life' \in [Entry -> Lives]
           /\ changed' \in [Task -> BOOLEAN]
<1>1. RecoveryTypes'
  BY DEF Return, TypeOK, RecoveryTypes, Verifying
<1>2. life' \in [Entry -> Lives]
  BY DEF Return, Go, TypeOK, EntryTypes, Lives, SettingUp, Task
<1>3. changed' \in [Task -> BOOLEAN]
  BY Zenon DEF Return, TypeOK, FlagTypes
<1>4. QED
  BY <1>1, <1>2, <1>3

(* Choosing an advertisement to verify keeps the types. *)
LEMMA ConsiderType ==
    ASSUME TypeOK, NEW t \in Task, NEW adverts \in SUBSET Advert, Consider(t, adverts),
           devices' \in SUBSET Advert
    PROVE  /\ RecoveryTypes' /\ life' \in [Entry -> Lives]
           /\ changed' \in [Task -> BOOLEAN]
<1>1. CASE Return(t, FALSE)
  BY <1>1, ReturnType
<1>2. CASE ~Return(t, FALSE)
  <2>1. t[1] \in Entry
    BY DEF Task
  <2>2. saved[t[1]] \in Data
    BY <2>1 DEF TypeOK, EntryTypes
  <2>3. \A d \in adverts : d.host \in Host
    BY DEF Advert
  <2>4. /\ rec' \in [Task -> {"none", "waiting"} \cup Inside]
        /\ original' \in [Task -> Data \cup {None}]
        /\ candidate' \in [Task -> Host \cup {None}]
        /\ \A u \in Task : rec'[u] \in Verifying => original'[u] \in Data /\ candidate'[u] \in Host
    BY <1>2, <2>2, <2>3 DEF TypeOK, RecoveryTypes, Consider, Inside, Verifying
  <2>5. UNCHANGED <<life, changed>>
    BY <1>2 DEF Consider
  <2>6. QED
    BY <2>4, <2>5, Zenon DEF RecoveryTypes, TypeOK, EntryTypes, FlagTypes
<1>3. QED
  BY <1>1, <1>2

(* The life of an entry. *)
LEMMA LifecycleType ==
    ASSUME TypeOK, NEW e \in Entry, Lifecycle(e) \/ PollFails(e) \/ User(e)
    PROVE  TypeOK'
<1>1. <<e, "setup">> \in Task /\ <<e, "poll">> \in Task
  BY DEF Task
<1>2. spent' \in [Cause -> Nat]
  BY SpendType, NoAnswerType DEF Lifecycle, User, Setup, Authenticated, Queried,
     CapabilitiesFail, SetupFails, FirstRefreshed, Listening, PollFails, Reconfigure,
     Remove, TypeOK, ClockTypes, Cause
<1>3. ClockTypes'
  BY <1>2 DEF Lifecycle, User, Setup, Authenticated, Queried, CapabilitiesFail, SetupFails,
     FirstRefreshed, Listening, PollFails, Reconfigure, Remove, TypeOK, ClockTypes, waitVars
<1>4. RecoveryTypes'
  <2>1. UNCHANGED <<original, candidate, devices>>
    BY DEF Lifecycle, User, Setup, Authenticated, Queried, CapabilitiesFail, SetupFails,
       FirstRefreshed, Listening, PollFails, Reconfigure, Remove, recVars
  <2>2. rec' = rec \/ \E t \in Task : Ask(t)
    BY <1>1 DEF Lifecycle, User, Setup, Authenticated, Queried, CapabilitiesFail, SetupFails,
       FirstRefreshed, Listening, PollFails, Reconfigure, Remove, recVars
  <2>3. QED
    BY <2>1, <2>2 DEF Ask, TypeOK, RecoveryTypes, Verifying
<1>5. EntryTypes'
  <2>1. CASE Reconfigure(e)
    <3>1. \E keys \in {"first", "renewed"} :
            saved' = [saved EXCEPT ![e] = [host |-> at[e], keys |-> keys]]
      BY <2>1 DEF Reconfigure, TypeOK, EntryTypes, Data
    <3>2. UNCHANGED <<at, target, life>>
      BY <2>1 DEF Reconfigure
    <3>3. QED
      BY <3>1, <3>2 DEF TypeOK, EntryTypes, Data
  <2>2. CASE ~Reconfigure(e)
    BY <2>2 DEF Lifecycle, User, Setup, Authenticated, Queried, CapabilitiesFail, SetupFails,
       FirstRefreshed, Listening, PollFails, Remove, TypeOK, EntryTypes, Go, Lives,
       SettingUp, Data
  <2>3. QED
    BY <2>1, <2>2
<1>6. reload' \in [Entry -> BOOLEAN] /\ missed' \in [Entry -> BOOLEAN]
  BY Zenon DEF Lifecycle, User, Setup, Authenticated, Queried, CapabilitiesFail, SetupFails,
     FirstRefreshed, Listening, PollFails, Reconfigure, Remove, TypeOK, FlagTypes, pastVars
<1>7. changed' \in [Task -> BOOLEAN]
  <2>1. CASE User(e)
    <3>1. PICK what \in [Task -> BOOLEAN] : Noted(e, what)
      <4>1. [t \in Task |-> saved'[e] # original[t]] \in [Task -> BOOLEAN]
        OBVIOUS
      <4>2. [t \in Task |-> TRUE] \in [Task -> BOOLEAN]
        OBVIOUS
      <4>3. QED
        BY <2>1, <4>1, <4>2, Zenon DEF User, Reconfigure, Remove
    <3>2. changed \in [Task -> BOOLEAN]
      BY DEF TypeOK, FlagTypes
    <3>3. QED
      BY <3>1, <3>2 DEF Noted
  <2>2. CASE ~User(e)
    BY <2>2, Zenon DEF Lifecycle, Setup, Authenticated, Queried, CapabilitiesFail, SetupFails,
       FirstRefreshed, Listening, PollFails, TypeOK, FlagTypes, pastVars
  <2>3. QED
    BY <2>1, <2>2
<1>8. QED
  BY <1>3, <1>4, <1>5, <1>6, <1>7 DEF TypeOK, FlagTypes

(* The steps of a recovery. *)
LEMMA RecoverType ==
    ASSUME TypeOK, NEW t \in Task, Enter(t) \/ GoOn(t)
    PROVE  TypeOK'
<1>1. t[1] \in Entry
  BY DEF Task
<1>2. spent' \in [Cause -> Nat]
  BY SpendType DEF Enter, GoOn, Throttled, StartScan, ShareScan, ScanAnswered, ScanFailed,
     Answered, NotAnswered, NoneAt, Verified, NotVerified, TypeOK, ClockTypes, Cause
<1>3. ClockTypes'
  <2>1. CASE StartScan(t) \/ ShareScan(t)
    BY <1>1, <1>2, <2>1, IntervalAssumption DEF StartScan, ShareScan, TypeOK, ClockTypes
  <2>2. CASE ~(StartScan(t) \/ ShareScan(t))
    BY <1>2, <2>2 DEF Enter, GoOn, Throttled, ScanAnswered, ScanFailed, Answered,
       NotAnswered, Verified, NotVerified, TypeOK, ClockTypes, waitVars
  <2>3. QED
    BY <2>1, <2>2
<1>4. devices' \in SUBSET Advert
  <2>1. CASE ScanAnswered(t)
    <3>1. Present \in SUBSET Advert
      BY DEF Present, Advert, TypeOK, EntryTypes
    <3>2. QED
      BY <2>1, <3>1 DEF ScanAnswered
  <2>2. CASE ~ScanAnswered(t)
    BY <2>2 DEF Enter, GoOn, Throttled, StartScan, ShareScan, ScanFailed, Answered,
       NotAnswered, Verified, NotVerified, TypeOK, RecoveryTypes
  <2>3. QED
    BY <2>1, <2>2
<1>5. /\ RecoveryTypes' /\ life' \in [Entry -> Lives]
      /\ changed' \in [Task -> BOOLEAN]
  <2>1. CASE ShareScan(t) \/ ScanAnswered(t)
    BY <2>1, <1>4, ConsiderType DEF ShareScan, ScanAnswered, TypeOK, RecoveryTypes
  <2>2. CASE StartScan(t) \/ Answered(t)
    <3>1. RecoveryTypes'
      BY <2>2, <1>4 DEF StartScan, Answered, TypeOK, RecoveryTypes, Inside, Verifying
    <3>2. QED
      BY <2>2, <3>1, Zenon DEF StartScan, Answered, pastVars, TypeOK, EntryTypes, FlagTypes
  <2>3. CASE \E b \in BOOLEAN : Return(t, b)
    BY <2>3, <1>4, ReturnType
  <2>4. QED
    BY <2>1, <2>2, <2>3 DEF Enter, GoOn, Throttled, ScanFailed, NotAnswered, Verified,
       NotVerified
<1>6. EntryTypes'
  <2>1. CASE Verified(t)
    <3>1. original[t] \in Data /\ candidate[t] \in Host
      BY <2>1 DEF Verified, TypeOK, RecoveryTypes, Verifying
    <3>2. [original[t] EXCEPT !.host = candidate[t]] \in Data
      BY <3>1 DEF Data
    <3>3. QED
      BY <2>1, <3>2, <1>5 DEF Verified, TypeOK, EntryTypes
  <2>2. CASE ~Verified(t)
    BY <2>2, <1>5 DEF Enter, GoOn, Throttled, StartScan, ShareScan, ScanAnswered, ScanFailed,
       Answered, NotAnswered, NotVerified, TypeOK, EntryTypes
  <2>3. QED
    BY <2>1, <2>2
<1>7. reload' \in [Entry -> BOOLEAN] /\ missed' \in [Entry -> BOOLEAN]
  <2>1. CASE Verified(t)
    <3>1. (reload[t[1]] \/ life[t[1]] = "loaded") \in BOOLEAN
      OBVIOUS
    <3>2. (missed[t[1]] \/ (t[2] = "poll" /\ life[t[1]] \in SettingUp)) \in BOOLEAN
      OBVIOUS
    <3>3. QED
      BY <2>1, <3>1, <3>2, Zenon DEF Verified, TypeOK, FlagTypes
  <2>2. CASE ~Verified(t)
    BY <2>2, Zenon DEF Enter, GoOn, Throttled, StartScan, ShareScan, ScanAnswered, ScanFailed,
       Answered, NotAnswered, NotVerified, TypeOK, FlagTypes, pastVars
  <2>3. QED
    BY <2>1, <2>2
<1>8. QED
  BY <1>3, <1>5, <1>6, <1>7 DEF TypeOK, FlagTypes

(* Every step keeps the types. *)
LEMMA NextType == TypeOK /\ [Next]_vars => TypeOK'
<1> SUFFICES ASSUME TypeOK, [Next]_vars PROVE TypeOK'
  OBVIOUS
<1>1. ASSUME NEW e \in Entry, NEW h \in Host, Move(e, h) PROVE TypeOK'
  <2>1. ClockTypes'
    BY <1>1, SpendType DEF Move, TypeOK, ClockTypes, waitVars, Cause
  <2>2. EntryTypes' /\ RecoveryTypes'
    BY <1>1 DEF Move, TypeOK, EntryTypes, RecoveryTypes, recVars
  <2>3. FlagTypes'
    BY <1>1, Zenon DEF Move, TypeOK, FlagTypes, pastVars
  <2>4. QED
    BY <2>1, <2>2, <2>3 DEF TypeOK
<1>2. CASE Tick
  <2>1. ClockTypes'
    BY <1>2, IntervalAssumption DEF Tick, Left, TypeOK, ClockTypes
  <2>2. EntryTypes' /\ RecoveryTypes'
    BY <1>2 DEF Tick, TypeOK, EntryTypes, RecoveryTypes, recVars
  <2>3. FlagTypes'
    BY <1>2, Zenon DEF Tick, TypeOK, FlagTypes, pastVars
  <2>4. QED
    BY <2>1, <2>2, <2>3 DEF TypeOK
<1>3. CASE UNCHANGED vars
  <2>1. EntryTypes' /\ RecoveryTypes' /\ ClockTypes'
    BY <1>3 DEF vars, recVars, waitVars, TypeOK, EntryTypes, RecoveryTypes, ClockTypes
  <2>2. FlagTypes'
    BY <1>3, Zenon DEF vars, pastVars, TypeOK, FlagTypes
  <2>3. QED
    BY <2>1, <2>2 DEF TypeOK
<1>4. QED
  BY <1>1, <1>2, <1>3, LifecycleType, RecoverType DEF Next

(* Type correctness. *)
THEOREM TypeCorrect == Spec => []TypeOK
BY InitType, NextType, PTL DEF Spec
-----------------------------------------------------------------------------
(* What the user does meanwhile *)

(* One recovery at a time is inside the lock, and one that verifies finds   *)
(* out whatever the user changed since it read the entry.                   *)
KeptInv ==
    /\ \A t, u \in Task : rec[t] \in Inside /\ rec[u] \in Inside => t = u
    /\ \A t \in Task : changed[t] => rec[t] \in Verifying /\ Meddled(t)

(* A step that changes nothing the invariant reads keeps it. *)
LEMMA KeptUntouched ==
    KeptInv /\ UNCHANGED <<life, saved, rec, original, changed>> => KeptInv'
BY DEF KeptInv, Meddled

(* So does one outside the lock that moves an entry on in its life. *)
LEMMA KeptBeside ==
    ASSUME KeptInv, TypeOK, UNCHANGED <<saved, original, changed>>,
           \A d \in Entry : life[d] = "gone" => life'[d] = "gone",
           \A t \in Task : rec'[t] # rec[t] => rec[t] = "none" /\ rec'[t] = "waiting"
    PROVE  KeptInv'
<1>1. \A t \in Task : t[1] \in Entry
  BY DEF Task
<1>2. \A t \in Task : /\ rec'[t] \in Inside => rec[t] \in Inside
                      /\ rec[t] \in Verifying => rec'[t] \in Verifying
  BY DEF Inside, Verifying
<1>3. QED
  BY <1>1, <1>2 DEF KeptInv, Meddled

(* The life of an entry, and its user. *)
LEMMA KeptLifecycle ==
    ASSUME KeptInv, TypeOK, NEW e \in Entry, Lifecycle(e) \/ PollFails(e) \/ User(e)
    PROVE  KeptInv'
<1>1. CASE Lifecycle(e) \/ PollFails(e)
  <2>1. /\ UNCHANGED <<saved, original, changed>>
        /\ \A d \in Entry : life[d] = "gone" => life'[d] = "gone"
        /\ \A t \in Task : rec'[t] # rec[t] => rec[t] = "none" /\ rec'[t] = "waiting"
    BY <1>1 DEF Lifecycle, Setup, Authenticated, Queried, CapabilitiesFail, SetupFails,
       FirstRefreshed, Listening, PollFails, Go, Ask, recVars, pastVars, TypeOK, EntryTypes,
       RecoveryTypes, SettingUp
  <2>2. QED
    BY <2>1, KeptBeside
<1>2. CASE Reconfigure(e)
  <2>1. /\ UNCHANGED <<life, rec, original>>
        /\ \A d \in Entry \ {e} : saved'[d] = saved[d]
        /\ changed' = [t \in Task |-> IF t[1] = e /\ rec[t] \in Verifying
                                      THEN saved'[e] # original[t] ELSE changed[t]]
    BY <1>2 DEF Reconfigure, Noted, recVars, TypeOK, EntryTypes
  <2>2. \A t \in Task : t[1] \in Entry
    BY DEF Task
  <2>3. ASSUME NEW t \in Task, changed'[t] PROVE rec'[t] \in Verifying /\ Meddled(t)'
    <3>1. CASE t[1] = e /\ rec[t] \in Verifying
      <4>1. saved'[e] # original[t]
        BY <2>1, <2>3, <3>1
      <4>2. QED
        BY <2>1, <3>1, <4>1 DEF Meddled
    <3>2. CASE ~(t[1] = e /\ rec[t] \in Verifying)
      <4>1. changed[t]
        BY <2>1, <2>3, <3>2
      <4>2. rec[t] \in Verifying /\ Meddled(t) /\ t[1] # e
        BY <3>2, <4>1 DEF KeptInv
      <4>3. QED
        BY <2>1, <2>2, <4>2 DEF Meddled
    <3>3. QED
      BY <3>1, <3>2
  <2>4. QED
    BY <2>1, <2>3 DEF KeptInv
<1>3. CASE Remove(e)
  <2>1. /\ UNCHANGED <<saved, rec, original>>
        /\ life' = [life EXCEPT ![e] = "gone"]
        /\ \A t \in Task : changed'[t] => changed[t] \/ (t[1] = e /\ rec[t] \in Verifying)
    BY <1>3 DEF Remove, Noted, Go, recVars
  <2>2. \A t \in Task : t[1] \in Entry
    BY DEF Task
  <2>3. QED
    BY <2>1, <2>2 DEF KeptInv, Meddled, TypeOK, EntryTypes
<1>4. QED
  BY <1>1, <1>2, <1>3 DEF User

(* A recovery that returns leaves nobody inside the lock. *)
LEMMA KeptReturn ==
    ASSUME KeptInv, TypeOK, NEW t \in Task, NEW b \in BOOLEAN, Return(t, b),
           rec[t] \in Inside \/ LockFree
    PROVE  KeptInv'
<1>1. /\ rec' = [rec EXCEPT ![t] = "none"]
      /\ changed' = [changed EXCEPT ![t] = FALSE]
  BY DEF Return
<1>2. \A u \in Task : rec'[u] \notin Inside
  BY <1>1 DEF KeptInv, LockFree, Inside, Verifying, TypeOK, RecoveryTypes
<1>3. \A u \in Task : ~changed'[u]
  <2> TAKE u \in Task
  <2>1. CASE u = t
    BY <1>1, <2>1 DEF TypeOK, FlagTypes
  <2>2. CASE u # t
    <3>1. rec[u] \notin Verifying
      BY <2>2 DEF KeptInv, LockFree, Inside
    <3>2. ~changed[u]
      BY <3>1 DEF KeptInv
    <3>3. QED
      BY <1>1, <2>2, <3>2
  <2>3. QED
    BY <2>1, <2>2
<1>4. QED
  BY <1>2, <1>3 DEF KeptInv

(* One that goes on inside has not been meddled with yet, or was before. *)
LEMMA KeptInside ==
    ASSUME KeptInv, TypeOK, NEW t \in Task, NEW r \in Inside,
           rec' = [rec EXCEPT ![t] = r], rec[t] \in Inside \/ LockFree,
           UNCHANGED <<life, saved, changed>>,
           \/ rec[t] \notin Verifying
           \/ r \in Verifying /\ UNCHANGED original,
           \A u \in Task \ {t} : original'[u] = original[u]
    PROVE  KeptInv'
<1>1. \A u \in Task : rec'[u] \in Inside => u = t
  BY DEF KeptInv, LockFree, TypeOK, RecoveryTypes
<1>2. ASSUME NEW u \in Task, changed'[u] PROVE rec'[u] \in Verifying /\ Meddled(u)'
  <2>1. rec[u] \in Verifying /\ Meddled(u)
    BY <1>2 DEF KeptInv
  <2>2. CASE u = t
    BY <2>1, <2>2 DEF Meddled, TypeOK, RecoveryTypes
  <2>3. CASE u # t
    BY <2>1, <2>3 DEF Meddled, TypeOK, RecoveryTypes
  <2>4. QED
    BY <2>2, <2>3
<1>3. QED
  BY <1>1, <1>2 DEF KeptInv

(* The steps of a recovery. *)
LEMMA KeptRecover ==
    ASSUME KeptInv, TypeOK, NEW t \in Task, Enter(t) \/ GoOn(t)
    PROVE  KeptInv'
<1>1. rec[t] \in Inside \/ LockFree
  BY DEF Enter, GoOn, Throttled, StartScan, ShareScan, ScanAnswered, ScanFailed, Answered,
     NotAnswered, Verified, NotVerified, Inside, Verifying
<1>2. CASE \E b \in BOOLEAN : Return(t, b)
  BY <1>1, <1>2, KeptReturn
<1>3. CASE StartScan(t)
  BY <1>1, <1>3, KeptInside DEF StartScan, pastVars, Inside, Verifying
<1>4. CASE Answered(t)
  BY <1>1, <1>4, KeptInside DEF Answered, pastVars, Inside, Verifying
<1>5. CASE (ShareScan(t) \/ ScanAnswered(t)) /\ ~Return(t, FALSE)
  <2>1. /\ rec' = [rec EXCEPT ![t] = "verifying"]
        /\ UNCHANGED <<life, saved, changed>>
        /\ rec[t] \notin Verifying
        /\ \A u \in Task \ {t} : original'[u] = original[u]
    BY <1>5 DEF ShareScan, ScanAnswered, Consider, Verifying, TypeOK, RecoveryTypes
  <2>2. QED
    BY <1>1, <2>1, KeptInside DEF Inside, Verifying
<1>6. QED
  BY <1>2, <1>3, <1>4, <1>5 DEF Enter, GoOn, Throttled, ScanFailed, NotAnswered, Verified,
     NotVerified

(* Every step keeps the invariant. *)
LEMMA NextKept == TypeOK /\ KeptInv /\ [Next]_vars => KeptInv'
<1> SUFFICES ASSUME TypeOK, KeptInv, [Next]_vars PROVE KeptInv'
  OBVIOUS
<1>1. CASE Tick \/ UNCHANGED vars \/ (\E e \in Entry, h \in Host : Move(e, h))
  BY <1>1, KeptUntouched DEF Tick, Move, vars, recVars, pastVars
<1>2. QED
  BY <1>1, KeptLifecycle, KeptRecover DEF Next

(* A verification that ends with an update was not meddled with. *)
LEMMA StepKeeps ==
    ASSUME TypeOK, KeptInv, [Next]_vars, NEW t \in Task,
           rec[t] = "answered", rec'[t] = "none", saved'[t[1]] # saved[t[1]]
    PROVE  ~ changed[t]
<1>1. \E u \in Task : Verified(u)
  <2>1. ASSUME ~(\E u \in Task : Verified(u)) PROVE rec'[t] = rec[t] \/ saved' = saved
    BY <2>1 DEF Next, vars, recVars, Lifecycle, User, Setup, Authenticated, Queried,
       CapabilitiesFail, SetupFails, FirstRefreshed, Listening, PollFails, Reconfigure, Remove,
       Enter, GoOn, Throttled, StartScan, ShareScan, ScanAnswered, ScanFailed, Answered,
       NotAnswered, NotVerified, Move, Tick
  <2>2. QED
    BY <2>1
<1>2. PICK u \in Task : Verified(u)
  BY <1>1
<1>3. u = t
  BY <1>2 DEF Verified, KeptInv, Inside, Verifying
<1>4. QED
  BY <1>2, <1>3 DEF Verified, KeptInv

(* A recovery never overwrites what the user saved since it read the entry, *)
(* nor a removed entry, for any number of entries and addresses.            *)
THEOREM UserKeptAlways == Spec => UserKept
<1>1. Init => KeptInv
  BY DEF Init, KeptInv, Inside, Verifying
<1>2. TypeOK /\ KeptInv /\ [Next]_vars =>
        [\A t \in Task :
           /\ rec[t] = "answered" /\ rec'[t] = "none"
           /\ saved'[t[1]] # saved[t[1]]
           => ~ changed[t]]_vars
  BY StepKeeps
<1>3. QED
  BY <1>1, <1>2, NextKept, TypeCorrect, PTL DEF Spec, UserKept
-----------------------------------------------------------------------------
(* Scans *)

(* The cool-down ends no earlier than an interval after the last scan. *)
ScanInv == scanWait + scanAge >= Interval

(* Every step keeps the cool-down long enough. *)
LEMMA NextScan == TypeOK /\ ScanInv /\ [Next]_vars => ScanInv'
<1> SUFFICES ASSUME TypeOK, ScanInv, [Next]_vars PROVE ScanInv'
  OBVIOUS
<1>1. CASE \E t \in Task : StartScan(t)
  BY <1>1, IntervalAssumption DEF StartScan, ScanInv
<1>2. CASE Tick
  BY <1>2, IntervalAssumption DEF Tick, Left, ScanInv, TypeOK, ClockTypes
<1>3. CASE ~Tick /\ ~(\E t \in Task : StartScan(t))
  <2>1. UNCHANGED <<scanWait, scanAge>>
    BY <1>3 DEF Next, vars, waitVars, Lifecycle, User, Setup, Authenticated, Queried,
       CapabilitiesFail, SetupFails, FirstRefreshed, Listening, PollFails, Remove,
       Reconfigure, Enter, GoOn, Throttled, ShareScan, ScanAnswered, ScanFailed, Answered,
       NotAnswered, Verified, NotVerified, Move
  <2>2. QED
    BY <2>1 DEF ScanInv
<1>4. QED
  BY <1>1, <1>2, <1>3

(* A scan begins only when its cool-down is over. *)
LEMMA StepLimited ==
    ASSUME TypeOK, ScanInv, [Next]_vars,
           NEW t \in Task, rec[t] = "waiting", rec'[t] = "scanning"
    PROVE  scanAge >= Interval
<1>1. \E u \in Task : StartScan(u)
  <2> SUFFICES ASSUME ~(\E u \in Task : StartScan(u)) PROVE rec'[t] # "scanning"
    OBVIOUS
  <2>1. CASE \E u \in Task : Enter(u) \/ GoOn(u)
    <3>1. \E u \in Task, r \in {"none", "verifying", "answered"} : rec' = [rec EXCEPT ![u] = r]
      BY <2>1 DEF Enter, GoOn, Throttled, ShareScan, ScanAnswered, ScanFailed, Answered,
         NotAnswered, Verified, NotVerified, Consider, Return
    <3>2. QED
      BY <3>1 DEF TypeOK, RecoveryTypes
  <2>2. CASE ~(\E u \in Task : Enter(u) \/ GoOn(u))
    <3>1. rec' = rec \/ \E u \in Task : Ask(u)
      BY <2>2 DEF Next, vars, recVars, Lifecycle, User, Setup, Authenticated, Queried,
         CapabilitiesFail, SetupFails, FirstRefreshed, Listening, PollFails, Remove,
         Reconfigure, Move, Tick, Task
    <3>2. QED
      BY <3>1 DEF Ask, TypeOK, RecoveryTypes
  <2>3. QED
    BY <2>1, <2>2
<1>2. scanWait = 0
  BY <1>1 DEF StartScan
<1>3. QED
  BY <1>2, IntervalAssumption DEF ScanInv, TypeOK, ClockTypes

(* Scans begin at least an interval apart, whoever asks for them and        *)
(* however they end.                                                       *)
THEOREM ScanLimitedAlways == Spec => ScanLimited
<1>1. Init => ScanInv
  BY IntervalAssumption DEF Init, ScanInv
<1>2. TypeOK /\ ScanInv /\ [Next]_vars =>
        [(\E t \in Task : rec[t] = "waiting" /\ rec'[t] = "scanning")
            => scanAge >= Interval]_vars
  BY StepLimited
<1>3. QED
  BY <1>1, <1>2, NextScan, TypeCorrect, PTL DEF Spec, ScanLimited
-----------------------------------------------------------------------------
(* Reloads *)

Using == SettingUp \cup {"loaded"}

(* An entry whose device object has an old address is about to be reloaded, *)
(* or was updated by a refresh during its set-up; and only a set-up that is *)
(* at its authentication or first refresh waits for a recovery.             *)
ReloadInv(e) ==
    /\ life[e] \in Using /\ target[e] # saved[e].host => reload[e] \/ missed[e]
    /\ rec[<<e, "setup">>] # "none" => life[e] \in {"connecting", "refreshing"}

ReloadsInv == \A e \in Entry : ReloadInv(e)

(* A step that touches nothing the invariant reads keeps it. *)
LEMMA ReloadUntouched ==
    ReloadsInv /\ UNCHANGED <<life, target, saved, reload, missed, rec>> => ReloadsInv'
BY DEF ReloadsInv, ReloadInv

(* What happens to one entry is invisible to the others. *)
LEMMA ReloadElsewhere ==
    ASSUME ReloadsInv, NEW e \in Entry, ReloadInv(e)',
           \A d \in Entry \ {e} :
              /\ life'[d] = life[d] /\ target'[d] = target[d] /\ saved'[d] = saved[d]
              /\ reload'[d] = reload[d] /\ missed'[d] = missed[d]
              /\ rec'[<<d, "setup">>] = rec[<<d, "setup">>]
    PROVE  ReloadsInv'
BY DEF ReloadsInv, ReloadInv

(* The life of an entry, its polling and its user. *)
LEMMA ReloadLifecycle ==
    ASSUME ReloadsInv, TypeOK, NEW e \in Entry, Lifecycle(e) \/ PollFails(e) \/ User(e)
    PROVE  ReloadsInv'
<1> USE DEF TypeOK, EntryTypes, RecoveryTypes
<1>1. /\ <<e, "setup">> \in Task /\ <<e, "poll">> \in Task
      /\ \A d \in Entry \ {e} : <<d, "setup">> \in Task
  BY DEF Task
<1>2. \A d \in Entry \ {e} :
         /\ life'[d] = life[d] /\ target'[d] = target[d] /\ saved'[d] = saved[d]
         /\ reload'[d] = reload[d] /\ missed'[d] = missed[d]
         /\ rec'[<<d, "setup">>] = rec[<<d, "setup">>]
  BY <1>1 DEF Lifecycle, User, Setup, Authenticated, Queried, CapabilitiesFail, SetupFails,
     FirstRefreshed, Listening, PollFails, Reconfigure, Remove, Go, Ask, recVars, pastVars,
     FlagTypes
<1>3. ReloadInv(e)'
  <2>1. ReloadInv(e)
    BY DEF ReloadsInv
  <2>2. CASE Setup(e)
    BY <1>1, <2>1, <2>2 DEF Setup, Go, recVars, ReloadInv
  <2>3. CASE Reconfigure(e)
    BY <1>1, <2>1, <2>3 DEF Reconfigure, recVars, ReloadInv, FlagTypes
  <2>4. CASE ~Setup(e) /\ ~Reconfigure(e)
    <3>1. UNCHANGED <<target, saved, reload, missed>>
      BY <2>4 DEF Lifecycle, User, Authenticated, Queried, CapabilitiesFail, SetupFails,
         FirstRefreshed, Listening, PollFails, Remove, pastVars
    <3>2. life'[e] \in Using => life[e] \in Using
      BY <2>4 DEF Lifecycle, User, Authenticated, Queried, CapabilitiesFail, SetupFails,
         FirstRefreshed, Listening, PollFails, Remove, Go, Using, SettingUp
    <3>3. rec'[<<e, "setup">>] # "none" => life'[e] \in {"connecting", "refreshing"}
      BY <1>1, <2>1, <2>4 DEF Lifecycle, User, Authenticated, Queried, CapabilitiesFail,
         SetupFails, FirstRefreshed, Listening, PollFails, Remove, Go, Ask, recVars, ReloadInv
    <3>4. QED
      BY <2>1, <3>1, <3>2, <3>3 DEF ReloadInv
  <2>5. QED
    BY <2>2, <2>3, <2>4
<1>4. QED
  BY <1>2, <1>3, ReloadElsewhere

(* What a recovery does to the life of an entry when it returns. *)
LEMMA ReturnLife ==
    ASSUME TypeOK, NEW t \in Task, NEW b \in BOOLEAN, Return(t, b)
    PROVE  \E e \in Entry :
              /\ t[1] = e
              /\ \A d \in Entry \ {e} : /\ life'[d] = life[d]
                                       /\ rec'[<<d, "setup">>] = rec[<<d, "setup">>]
              /\ \/ t = <<e, "poll">> /\ life' = life
                      /\ rec'[<<e, "setup">>] = rec[<<e, "setup">>]
                 \/ t = <<e, "setup">> /\ life'[e] = "retry"
                      /\ rec'[<<e, "setup">>] = "none"
                 \/ t = <<e, "setup">> /\ life[e] = "refreshing" /\ life'[e] = "platforms"
                      /\ b = FALSE /\ rec'[<<e, "setup">>] = "none"
<1>1. PICK e \in Entry, k \in {"setup", "poll"} : t = <<e, k>>
  BY DEF Task
<1>2. t[1] = e /\ t[2] = k
  BY <1>1
<1>3. /\ <<e, "setup">> \in Task /\ \A d \in Entry \ {e} : <<d, "setup">> \in Task
      /\ \A d \in Entry \ {e} : <<d, "setup">> # t
      /\ k = "poll" => <<e, "setup">> # t
  BY <1>1 DEF Task
<1>4. rec' = [rec EXCEPT ![t] = "none"]
  BY DEF Return
<1>5. \A d \in Entry \ {e} : rec'[<<d, "setup">>] = rec[<<d, "setup">>]
  BY <1>3, <1>4 DEF TypeOK, RecoveryTypes
<1>6. CASE k = "poll"
  BY <1>1, <1>2, <1>3, <1>4, <1>5, <1>6 DEF Return, TypeOK, RecoveryTypes
<1>7. CASE k = "setup"
  BY <1>1, <1>2, <1>3, <1>4, <1>5, <1>7 DEF Return, Go, TypeOK, RecoveryTypes, EntryTypes
<1>8. QED
  BY <1>6, <1>7

(* A recovery that returns without an update. *)
LEMMA ReloadReturn ==
    ASSUME ReloadsInv, TypeOK, NEW t \in Task, Return(t, FALSE),
           UNCHANGED <<target, saved, reload, missed>>
    PROVE  ReloadsInv'
<1>1. PICK e \in Entry :
         /\ \A d \in Entry \ {e} : /\ life'[d] = life[d]
                                  /\ rec'[<<d, "setup">>] = rec[<<d, "setup">>]
         /\ \/ life' = life /\ rec'[<<e, "setup">>] = rec[<<e, "setup">>]
            \/ life'[e] = "retry" /\ rec'[<<e, "setup">>] = "none"
            \/ life[e] = "refreshing" /\ life'[e] = "platforms"
                 /\ rec'[<<e, "setup">>] = "none"
  BY ReturnLife
<1>2. ReloadInv(e)'
  BY <1>1 DEF ReloadsInv, ReloadInv, Using, SettingUp
<1>3. QED
  BY <1>1, <1>2, ReloadElsewhere

(* The steps of a recovery. *)
LEMMA ReloadRecover ==
    ASSUME ReloadsInv, TypeOK, NEW t \in Task, Enter(t) \/ GoOn(t)
    PROVE  ReloadsInv'
<1>1. CASE Throttled(t) \/ ScanFailed(t) \/ NotAnswered(t) \/ NotVerified(t)
           \/ ((ShareScan(t) \/ ScanAnswered(t)) /\ Return(t, FALSE))
  BY <1>1, ReloadReturn DEF Throttled, ScanFailed, NotAnswered, NotVerified, ShareScan,
     ScanAnswered
<1>2. CASE StartScan(t) \/ Answered(t)
           \/ ((ShareScan(t) \/ ScanAnswered(t)) /\ ~Return(t, FALSE))
  <2>1. /\ UNCHANGED <<life, target, saved, reload, missed>>
        /\ rec[t] # "none"
        /\ \A u \in Task \ {t} : rec'[u] = rec[u]
    BY <1>2 DEF StartScan, Answered, ShareScan, ScanAnswered, Consider, pastVars, TypeOK,
       RecoveryTypes
  <2>2. \A e \in Entry : <<e, "setup">> \in Task
    BY DEF Task
  <2>3. \A e \in Entry : rec'[<<e, "setup">>] # "none" => rec[<<e, "setup">>] # "none"
    BY <2>1, <2>2
  <2>4. QED
    BY <2>1, <2>3 DEF ReloadsInv, ReloadInv
<1>3. CASE Verified(t)
  <2>1. Return(t, TRUE)
    BY <1>3 DEF Verified
  <2>2. PICK e \in Entry :
          /\ t[1] = e
          /\ \A d \in Entry \ {e} : /\ life'[d] = life[d]
                                   /\ rec'[<<d, "setup">>] = rec[<<d, "setup">>]
          /\ \/ t = <<e, "poll">> /\ life' = life
                  /\ rec'[<<e, "setup">>] = rec[<<e, "setup">>]
             \/ t = <<e, "setup">> /\ life'[e] = "retry"
                  /\ rec'[<<e, "setup">>] = "none"
    BY <2>1, ReturnLife
  <2>3. /\ target' = target
        /\ \A d \in Entry \ {e} : /\ saved'[d] = saved[d] /\ reload'[d] = reload[d]
                                 /\ missed'[d] = missed[d]
        /\ reload'[e] = (reload[e] \/ life[e] = "loaded")
        /\ missed'[e] = (missed[e] \/ (t[2] = "poll" /\ life[e] \in SettingUp))
    BY <1>3, <2>2, Zenon DEF Verified, TypeOK, EntryTypes, FlagTypes
  <2>4. ReloadInv(e)'
    <3>1. CASE t = <<e, "poll">> /\ life' = life /\ rec'[<<e, "setup">>] = rec[<<e, "setup">>]
      <4>1. life'[e] \in Using => reload'[e] \/ missed'[e]
        BY <2>3, <3>1 DEF Using
      <4>2. QED
        BY <3>1, <4>1 DEF ReloadsInv, ReloadInv
    <3>2. CASE life'[e] = "retry" /\ rec'[<<e, "setup">>] = "none"
      BY <3>2 DEF ReloadInv, Using, SettingUp
    <3>3. QED
      BY <2>2, <3>1, <3>2
  <2>5. QED
    BY <2>2, <2>3, <2>4, ReloadElsewhere
<1>4. QED
  BY <1>1, <1>2, <1>3 DEF Enter, GoOn

(* An entry whose saved address changed is reloaded, or was updated by a    *)
(* refresh while its set-up was under way.                                  *)
THEOREM UpdateReloadsAlways == Spec => []UpdateReloads
<1>1. Init => ReloadsInv
  <2> SUFFICES ASSUME Init, NEW e \in Entry PROVE ReloadInv(e)
    BY DEF ReloadsInv
  <2>1. <<e, "setup">> \in Task
    BY DEF Task
  <2>2. life[e] = "retry" /\ rec[<<e, "setup">>] = "none"
    BY <2>1 DEF Init
  <2>3. QED
    BY <2>2 DEF ReloadInv, Using, SettingUp
<1>2. TypeOK /\ ReloadsInv /\ [Next]_vars => ReloadsInv'
  <2> SUFFICES ASSUME TypeOK, ReloadsInv, [Next]_vars PROVE ReloadsInv'
    OBVIOUS
  <2>1. CASE Tick \/ UNCHANGED vars \/ (\E e \in Entry, h \in Host : Move(e, h))
    BY <2>1, ReloadUntouched DEF Tick, Move, vars, recVars, pastVars
  <2>2. QED
    BY <2>1, ReloadLifecycle, ReloadRecover DEF Next
<1>3. ReloadsInv => UpdateReloads
  BY DEF ReloadsInv, ReloadInv, UpdateReloads, Using
<1>4. QED
  BY <1>1, <1>2, <1>3, TypeCorrect, PTL DEF Spec
=============================================================================
