-------------------------- MODULE AddressRecovery --------------------------
(***************************************************************************)
(* Address recovery (lan_discovery.py, AddressDiscovery.recover) together  *)
(* with the life of the entries it serves (__init__.py): setup, the first  *)
(* refresh, polling and the reload that follows an update of the entry.    *)
(* One AddressDiscovery serves every entry and lets one recovery in at a   *)
(* time.  A minute is Interval ticks; a cool-down counts the ticks left.   *)
(***************************************************************************)
EXTENDS Integers, FiniteSets

CONSTANTS
    Entry,      \* configuration entries, each for one air conditioner
    Host,       \* LAN addresses
    None,       \* "nothing": a local that is not set
    Interval,   \* _SCAN_INTERVAL
    Budget      \* bound on moves, faults and user actions

Cause == {"move", "fault", "user"}
Task  == Entry \X {"setup", "poll"}   \* who asks for a recovery
Advert == [id : Entry, host : Host]
Data   == [host : Host, keys : {"first", "renewed"}]

ASSUME IntervalAssumption == Interval \in Nat \ {0}
ASSUME BudgetAssumption   == Budget \in [Cause -> Nat]

VARIABLES
    at,         \* where each air conditioner really is
    saved,      \* the entry's data: an address, and token and key
    target,     \* the address of the entry's device object
    life,       \* where the entry is in its life
    reload,     \* a reload of the entry is due
    rec,        \* where each recovery is
    original,   \* the data a verification started from
    candidate,  \* the address it verifies
    devices,    \* the answers of the last scan
    scanWait,   \* ticks until the next scan is allowed
    verifyWait, \* ticks until the next recovery of an entry is allowed
    scanAge,    \* history: ticks since the last scan began, up to Interval
    missed,     \* history: the address in use was updated before the listener
    changed,    \* history: the user changed or removed what is being verified
    spent

recVars  == <<rec, original, candidate>>
waitVars == <<scanWait, verifyWait, scanAge>>
pastVars == <<missed, changed>>
vars == <<at, saved, target, life, reload, recVars, devices, waitVars, pastVars, spent>>

Verifying == {"verifying", "answered"}
Inside == {"scanning"} \cup Verifying
SettingUp == {"connecting", "querying", "refreshing", "platforms"}

Spend(kind) ==
    /\ spent[kind] < Budget[kind]
    /\ spent' = [spent EXCEPT ![kind] = @ + 1]

(* The device at the address an entry uses is not there, or does not answer.*)
NoAnswer(e) == (target[e] # at[e] /\ UNCHANGED spent) \/ Spend("fault")

Ask(t) == rec[t] = "none" /\ rec' = [rec EXCEPT ![t] = "waiting"]
Go(e, stage) == life' = [life EXCEPT ![e] = stage]

-----------------------------------------------------------------------------
(* Setup *)

(* async_setup_entry reads the address: a retry, or the reload that is due. *)
(* A refresh that began before the reload may still be at its recovery.     *)
Setup(e) ==
    /\ life[e] = "retry" \/ (life[e] \in {"loaded", "failed"} /\ reload[e])
    /\ Go(e, "connecting")
    /\ target' = [target EXCEPT ![e] = saved[e].host]
    /\ reload' = [reload EXCEPT ![e] = FALSE]
    /\ missed' = [missed EXCEPT ![e] = FALSE]
    /\ UNCHANGED <<at, saved, recVars, devices, waitVars, changed, spent>>

(* device.authenticate() *)
Authenticated(e) ==
    /\ life[e] = "connecting"
    /\ rec[<<e, "setup">>] = "none"
    /\ target[e] = at[e]
    /\ Go(e, "querying")
    /\ UNCHANGED <<at, saved, target, reload, recVars, devices, waitVars, pastVars, spent>>

(* device.get_capabilities() returns, also without an answer; *)
Queried(e) ==
    /\ life[e] = "querying"
    /\ Go(e, "refreshing")
    /\ UNCHANGED <<at, saved, target, reload, recVars, devices, waitVars, pastVars, spent>>

(* an error of it ends the set-up for good: there is neither recovery nor   *)
(* retry.                                                                  *)
CapabilitiesFail(e) ==
    /\ life[e] = "querying"
    /\ NoAnswer(e)
    /\ Go(e, "failed")
    /\ UNCHANGED <<at, saved, target, reload, recVars, devices, waitVars, pastVars>>

(* No authentication, or no answer to the first refresh: look for the       *)
(* device.                                                                 *)
SetupFails(e) ==
    /\ life[e] \in {"connecting", "refreshing"}
    /\ NoAnswer(e)
    /\ Ask(<<e, "setup">>)
    /\ UNCHANGED <<at, saved, target, life, reload, original, candidate, devices, waitVars,
                   pastVars>>

(* The coordinator is stored and the platforms are set up. *)
FirstRefreshed(e) ==
    /\ life[e] = "refreshing"
    /\ rec[<<e, "setup">>] = "none"
    /\ target[e] = at[e]
    /\ Go(e, "platforms")
    /\ UNCHANGED <<at, saved, target, reload, recVars, devices, waitVars, pastVars, spent>>

(* Only then is the listener registered that reloads an updated entry. *)
Listening(e) ==
    /\ life[e] = "platforms"
    /\ Go(e, "loaded")
    /\ UNCHANGED <<at, saved, target, reload, recVars, devices, waitVars, pastVars, spent>>

-----------------------------------------------------------------------------
(* A refresh fails and asks for a recovery while it holds the coordinator's *)
(* lock; a coordinator that is being unloaded finishes what it has begun.   *)
PollFails(e) ==
    /\ life[e] \in {"platforms", "loaded"}
    /\ NoAnswer(e)
    /\ Ask(<<e, "poll">>)
    /\ UNCHANGED <<at, saved, target, life, reload, original, candidate, devices, waitVars, pastVars>>

-----------------------------------------------------------------------------
(* AddressDiscovery.recover, inside `async with self._lock` *)

(* It returns, and whoever asked goes on with no await between: a refresh   *)
(* ends; set-up is retried, except after a first refresh that had no answer *)
(* and found no new address: the entry is then set up, its device offline.  *)
Return(t, recovered) ==
    /\ rec' = [rec EXCEPT ![t] = "none"]
    /\ original' = [original EXCEPT ![t] = None]
    /\ candidate' = [candidate EXCEPT ![t] = None]
    /\ changed' = [changed EXCEPT ![t] = FALSE]
    /\ \/ t[2] = "poll" /\ UNCHANGED life
       \/ t[2] = "setup" /\ Go(t[1], "retry")
       \/ /\ t[2] = "setup" /\ life[t[1]] = "refreshing"
          /\ ~ recovered
          /\ Go(t[1], "platforms")

(* Exactly one advertisement of this device, at another address, is worth   *)
(* verifying.                                                              *)
Consider(t, adverts) ==
    LET matches == {d \in adverts : d.id = t[1]} IN
    \/ \E d \in matches :
         /\ matches = {d}
         /\ d.host # saved[t[1]].host
         /\ rec' = [rec EXCEPT ![t] = "verifying"]
         /\ original' = [original EXCEPT ![t] = saved[t[1]]]
         /\ candidate' = [candidate EXCEPT ![t] = d.host]
         /\ UNCHANGED <<life, changed>>
    \/ /\ \A d \in matches : matches # {d} \/ d.host = saved[t[1]].host
       /\ Return(t, FALSE)

LockFree == \A u \in Task : rec[u] \notin Inside

(* Too early for this entry: nothing happens. *)
Throttled(t) ==
    /\ rec[t] = "waiting"
    /\ LockFree
    /\ verifyWait[t[1]] > 0
    /\ Return(t, FALSE)
    /\ UNCHANGED <<at, saved, target, reload, devices, waitVars, missed, spent>>

\* Slip: the time of the scan is not noted.
ScanUncounted(t) ==
    /\ rec[t] = "waiting"
    /\ LockFree
    /\ verifyWait[t[1]] = 0
    /\ scanWait = 0
    /\ verifyWait' = [verifyWait EXCEPT ![t[1]] = Interval]
    /\ scanAge' = 0
    /\ devices' = {}
    /\ rec' = [rec EXCEPT ![t] = "scanning"]
    /\ UNCHANGED <<at, saved, target, life, reload, original, candidate, scanWait, pastVars, spent>>

StartScan(t) ==
    /\ rec[t] = "waiting"
    /\ LockFree
    /\ verifyWait[t[1]] = 0
    /\ scanWait = 0
    /\ verifyWait' = [verifyWait EXCEPT ![t[1]] = Interval]
    /\ scanWait' = Interval
    /\ scanAge' = 0
    /\ devices' = {}
    /\ rec' = [rec EXCEPT ![t] = "scanning"]
    /\ UNCHANGED <<at, saved, target, life, reload, original, candidate, pastVars, spent>>

(* The last scan is recent enough to be shared. *)
ShareScan(t) ==
    /\ rec[t] = "waiting"
    /\ LockFree
    /\ verifyWait[t[1]] = 0
    /\ scanWait > 0
    /\ verifyWait' = [verifyWait EXCEPT ![t[1]] = Interval]
    /\ Consider(t, devices)
    /\ UNCHANGED <<at, saved, target, reload, devices, scanWait, scanAge, missed, spent>>

(* Every device answers where it is; or one does not, or one is also seen   *)
(* at an address that is not its own.                                      *)
Present == {[id |-> e, host |-> at[e]] : e \in Entry}

ScanAnswered(t) ==
    /\ rec[t] = "scanning"
    /\ \/ devices' = Present /\ UNCHANGED spent
       \/ /\ \E d \in Advert : devices' \in {Present \ {d}, Present \cup {d}}
          /\ Spend("fault")
    /\ Consider(t, devices')
    /\ UNCHANGED <<at, saved, target, reload, waitVars, missed>>

ScanFailed(t) ==
    /\ rec[t] = "scanning"
    /\ Spend("fault")
    /\ Return(t, FALSE)
    /\ UNCHANGED <<at, saved, target, reload, devices, waitVars, missed>>

(* The device is not at the candidate, or does not answer. *)
NoneAt(t) == (at[t[1]] # candidate[t] /\ UNCHANGED spent) \/ Spend("fault")

(* The device is at the candidate and answers with the saved keys. *)
Answered(t) ==
    /\ rec[t] = "verifying"
    /\ at[t[1]] = candidate[t]
    /\ rec' = [rec EXCEPT ![t] = "answered"]
    /\ UNCHANGED <<at, saved, target, life, reload, original, candidate, devices, waitVars,
                   pastVars, spent>>

NotAnswered(t) ==
    /\ rec[t] = "verifying"
    /\ NoneAt(t)
    /\ Return(t, FALSE)
    /\ UNCHANGED <<at, saved, target, reload, devices, waitVars, missed>>

\* Slip: only a removal is noticed.
Removed(t) == life[t[1]] = "gone"

(* The entry was removed, or is not as it was when the verification began. *)
Meddled(t) == life[t[1]] = "gone" \/ saved[t[1]] # original[t]

\* Slip: the update is not followed by a reload.
VerifiedQuietly(t) ==
    /\ rec[t] = "answered"
    /\ ~ Meddled(t)
    /\ saved' = [saved EXCEPT ![t[1]] = [original[t] EXCEPT !.host = candidate[t]]]
    /\ Return(t, TRUE)
    /\ UNCHANGED <<at, target, reload, devices, waitVars, missed, spent>>

(* The recovery resumes, and nobody has changed the entry meanwhile: its    *)
(* address is updated, and its listener, if any, reloads it.  A refresh     *)
(* that updates the entry while a new set-up already uses the old address   *)
(* is heard by nobody.                                                     *)
Verified(t) ==
    /\ rec[t] = "answered"
    /\ ~ Meddled(t)
    /\ saved' = [saved EXCEPT ![t[1]] = [original[t] EXCEPT !.host = candidate[t]]]
    /\ reload' = [reload EXCEPT ![t[1]] = @ \/ life[t[1]] = "loaded"]
    /\ missed' = [missed EXCEPT ![t[1]] =
                     @ \/ (t[2] = "poll" /\ life[t[1]] \in SettingUp)]
    /\ Return(t, TRUE)
    /\ UNCHANGED <<at, target, devices, waitVars, spent>>

NotVerified(t) ==
    /\ rec[t] = "answered"
    /\ Meddled(t)
    /\ Return(t, FALSE)
    /\ UNCHANGED <<at, saved, target, reload, devices, waitVars, missed, spent>>

-----------------------------------------------------------------------------
(* Time, the network and the user *)

\* Slip: a cool-down that has ended goes on counting.
TickOn ==
    /\ scanWait' = scanWait - 1
    /\ verifyWait' = [e \in Entry |-> verifyWait[e] - 1]
    /\ scanAge' = IF scanAge < Interval THEN scanAge + 1 ELSE scanAge
    /\ UNCHANGED <<at, saved, target, life, reload, recVars, devices, pastVars, spent>>

\* Slip: a cool-down never ends.
LeftForever(n) == n

(* A cool-down counts down to zero. *)
Left(n) == IF n > 0 THEN n - 1 ELSE 0

Tick ==
    /\ scanWait' = Left(scanWait)
    /\ verifyWait' = [e \in Entry |-> Left(verifyWait[e])]
    /\ scanAge' = IF scanAge < Interval THEN scanAge + 1 ELSE scanAge
    /\ UNCHANGED <<at, saved, target, life, reload, recVars, devices, pastVars, spent>>

(* DHCP gives an air conditioner another free address. *)
Move(e, h) ==
    /\ \A other \in Entry : at[other] # h
    /\ Spend("move")
    /\ at' = [at EXCEPT ![e] = h]
    /\ UNCHANGED <<saved, target, life, reload, recVars, devices, waitVars, pastVars>>

(* What a verification under way will find of this entry. *)
Noted(e, what) ==
    changed' = [t \in Task |-> IF t[1] = e /\ rec[t] \in Verifying
                               THEN what[t] ELSE changed[t]]

(* A reconfiguration tests the address and the keys it saves, the old or    *)
(* new ones, then reloads the entry.  One that changes neither would only   *)
(* reload it, and is left out.                                             *)
Reconfigure(e) ==
    /\ life[e] # "gone"
    /\ Spend("user")
    /\ \E keys \in {saved[e].keys, "renewed"} :
         saved' = [saved EXCEPT ![e] = [host |-> at[e], keys |-> keys]]
    /\ saved'[e] # saved[e]
    /\ reload' = [reload EXCEPT ![e] = TRUE]
    /\ Noted(e, [t \in Task |-> saved'[e] # original[t]])
    /\ UNCHANGED <<at, target, life, recVars, devices, waitVars, missed>>

Remove(e) ==
    /\ life[e] \in {"loaded", "retry", "failed"}
    /\ Spend("user")
    /\ Go(e, "gone")
    /\ Noted(e, [t \in Task |-> TRUE])
    /\ UNCHANGED <<at, saved, target, reload, recVars, devices, waitVars, missed>>

-----------------------------------------------------------------------------
Init ==
    /\ at \in [Entry -> Host] /\ \A d, e \in Entry : at[d] = at[e] => d = e
    /\ saved = [e \in Entry |-> [host |-> at[e], keys |-> "first"]]
    /\ target = at
    /\ life = [e \in Entry |-> "retry"]
    /\ reload = [e \in Entry |-> FALSE]
    /\ rec = [t \in Task |-> "none"]
    /\ original = [t \in Task |-> None]
    /\ candidate = [t \in Task |-> None]
    /\ devices = {}
    /\ scanWait = 0
    /\ verifyWait = [e \in Entry |-> 0]
    /\ scanAge = Interval
    /\ missed = [e \in Entry |-> FALSE]
    /\ changed = [t \in Task |-> FALSE]
    /\ spent = [k \in Cause |-> 0]

Lifecycle(e) ==
    \/ Setup(e)
    \/ Authenticated(e)
    \/ Queried(e)
    \/ CapabilitiesFail(e)
    \/ SetupFails(e)
    \/ FirstRefreshed(e)
    \/ Listening(e)

(* The lock lets in one recovery at a time, first come first. *)
Enter(t) == Throttled(t) \/ StartScan(t) \/ ShareScan(t)

GoOn(t) ==
    \/ ScanAnswered(t)
    \/ ScanFailed(t)
    \/ Answered(t)
    \/ NotAnswered(t)
    \/ Verified(t)
    \/ NotVerified(t)

User(e) == Reconfigure(e) \/ Remove(e)

Next ==
    \/ \E e \in Entry : Lifecycle(e) \/ PollFails(e) \/ User(e)
    \/ \E t \in Task : Enter(t) \/ GoOn(t)
    \/ \E e \in Entry, h \in Host : Move(e, h)
    \/ Tick

Spec == Init /\ [][Next]_vars

(* The loop runs what can run, set-up is retried, polls go on, time passes, *)
(* and a lock that wakes its waiters in their order passes over nobody.     *)
Fairness ==
    /\ \A e \in Entry : WF_vars(Lifecycle(e)) /\ WF_vars(PollFails(e))
    /\ \A t \in Task : SF_vars(Enter(t)) /\ WF_vars(GoOn(t))
    /\ WF_vars(Tick)

FairSpec == Spec /\ Fairness
-----------------------------------------------------------------------------
(* Properties *)

Lives == {"retry", "failed", "loaded", "gone"} \cup SettingUp

EntryTypes ==
    /\ at \in [Entry -> Host]
    /\ saved \in [Entry -> Data]
    /\ target \in [Entry -> Host]
    /\ life \in [Entry -> Lives]

FlagTypes ==
    /\ reload \in [Entry -> BOOLEAN]
    /\ missed \in [Entry -> BOOLEAN]
    /\ changed \in [Task -> BOOLEAN]

RecoveryTypes ==
    /\ rec \in [Task -> {"none", "waiting"} \cup Inside]
    /\ original \in [Task -> Data \cup {None}]
    /\ candidate \in [Task -> Host \cup {None}]
    /\ \A t \in Task : rec[t] \in Verifying => original[t] \in Data /\ candidate[t] \in Host
    /\ devices \in SUBSET Advert

ClockTypes ==
    /\ scanWait \in 0 .. Interval
    /\ verifyWait \in [Entry -> 0 .. Interval]
    /\ scanAge \in 0 .. Interval
    /\ spent \in [Cause -> Nat]

(* Every variable keeps its type. *)
TypeOK == EntryTypes /\ FlagTypes /\ RecoveryTypes /\ ClockTypes

(* "Do not overwrite a concurrent reconfiguration or a deleted entry"       *)
(* (lan_discovery.py:64): between the moment a recovery reads the entry and *)
(* the moment it writes that data back with a new address lie the awaits of *)
(* a whole verification, and what the user saved meanwhile (an address, new *)
(* keys) or a removal stands.  Only a reconfiguration that leaves the entry *)
(* as it was read goes unnoticed.                                          *)
UserKept ==
    [][\A t \in Task :
         /\ rec[t] = "answered" /\ rec'[t] = "none"
         /\ saved'[t[1]] # saved[t[1]]
         => ~ changed[t]]_vars

(* "Scans are shared and limited to once per minute" (README.md): two scans *)
(* never begin within the interval, whichever entries ask and however the   *)
(* first one ended.                                                        *)
ScanLimited ==
    [][(\E t \in Task : rec[t] = "waiting" /\ rec'[t] = "scanning")
         => scanAge >= Interval]_vars

(* A loaded entry uses the saved address, or is about to be reloaded,       *)
(* unless a refresh updated it while a set-up was under way (missed).       *)
UpdateReloads ==
    \A e \in Entry :
        life[e] = "loaded" /\ target[e] # saved[e].host => reload[e] \/ missed[e]

(* "Reload entry when its updated" (__init__.py:128), whenever that is.     *)
UpdateHeard ==
    \A e \in Entry : life[e] = "loaded" /\ target[e] # saved[e].host => reload[e]

(* An air conditioner that moved is found again: in the end every entry is  *)
(* loaded and talks to its own device.  Two ways out are the code's own:    *)
(* an error of the capability query, which nothing retries, and an update   *)
(* nobody heard, which lasts until the next one.                           *)
Reconnects ==
    \A e \in Entry :
        <>[](\/ life[e] \in {"gone", "failed"}
             \/ life[e] = "loaded" /\ target[e] = at[e]
             \/ missed[e] /\ target[e] # saved[e].host)
=============================================================================
