---------------------------- MODULE Provisioning ----------------------------
(***************************************************************************)
(* Bringing one air conditioner into Home Assistant over Bluetooth: the    *)
(* screens of the config flow (bluetooth_flow.py) around the stages of     *)
(* provision_device (bluetooth_provision.py), with retries that resume.    *)
(*                                                                         *)
(* Between two screens one task runs; `stage` is the await it is at.  Any   *)
(* await can fail or run into the time limit of the task.  A request that   *)
(* changes the appliance or the cloud takes effect, or not, when it is      *)
(* sent; its answer is a later step and can be lost.                       *)
(***************************************************************************)
EXTENDS Integers

CONSTANTS
    Account,    \* set-up accounts in Home Assistant
    Smart,      \* those of SmartHome; the others are of NetHome Plus
    Wifi,       \* network names with a password, as the user may enter them
    Good,       \* those the air conditioner can join
    None,       \* "no such thing"
    Budget      \* bound on failures, on restarts and on changes of mind

Cause == {"fault", "restart"}

ASSUME AccountAssumption == Smart \subseteq Account /\ None \notin Account
ASSUME WifiAssumption    == Good \subseteq Wifi /\ None \notin Wifi
ASSUME BudgetAssumption  == Budget \in [Cause -> Nat]

VARIABLES
    screen,     \* the screen the user sees
    stage,      \* where the task is suspended, or "none"
    session,    \* is the task inside `async with MideaBluetoothSession`?
    account,    \* _setup_account_entry_id
    wifi,       \* _ble_wifi
    toSave,     \* _ble_wifi_to_save
    force,      \* _ble_force_setup
    state,      \* ProvisioningState
    told,       \* credentials the appliance has received and not yet tried
    net,        \* the network the appliance is on
    report,     \* what it reports over Bluetooth: "none", "joined", "refused"
    proof,      \* it logged in to the cloud with the current random code
    given,      \* history: credentials of this pairing it has not refused
    owner,      \* the account it is bound to in the cloud
    confirmed,  \* was the binding confirmed at the appliance?
    asked,      \* history: a confirmation was started that nobody gave up
    store,      \* the password in the Wi-Fi store
    spent

flowVars  == <<screen, account, wifi, toSave, force>>
taskVars  == <<stage, session>>
acVars    == <<told, net, report, proof, given>>
cloudVars == <<owner, confirmed, asked>>
vars == <<flowVars, taskVars, state, acVars, cloudVars, store, spent>>

Fresh == [writeStarted |-> FALSE, bound |-> FALSE, code |-> None,
          confirming |-> FALSE, expired |-> FALSE]

Spend(kind) ==
    /\ spent[kind] < Budget[kind]
    /\ spent' = [spent EXCEPT ![kind] = @ + 1]

At(place) == screen = "working" /\ stage = place
To(place) == stage' = place /\ UNCHANGED session

-----------------------------------------------------------------------------
(* The end of a task: its error selects the next screen, the credentials    *)
(* are cleared, and the ones to save only wait while a write is under way.  *)
Fail(error) ==
    /\ screen' = CASE ~state'.writeStarted -> "setup"
                   [] state'.writeStarted /\ error \in {"confirm", "expired"} -> error
                   [] OTHER -> "finish"
    /\ stage' = "none"
    /\ session' = FALSE
    /\ wifi' = None
    /\ toSave' = IF state'.writeStarted THEN toSave ELSE None
    /\ UNCHANGED <<account, force, store>>

(* What was sent never arrived, so no answer comes. *)
Unanswered ==
    \/ stage = "acking" /\ given = None
    \/ stage = "binding" /\ owner # account
    \/ stage = "starting" /\ ~asked

\* Slip: an interrupted write counts as not begun.
InterruptedResets ==
    /\ screen = "working"
    /\ stage # "lanCredentials"
    /\ (Unanswered /\ UNCHANGED spent) \/ Spend("fault")
    /\ state' = [state EXCEPT !.writeStarted = FALSE]
    /\ UNCHANGED <<acVars, cloudVars>>
    /\ Fail("other")

(* A timeout, a lost connection or an error of the cloud. *)
Interrupted ==
    /\ screen = "working"
    /\ stage # "lanCredentials"
    /\ (Unanswered /\ UNCHANGED spent) \/ Spend("fault")
    /\ UNCHANGED <<state, acVars, cloudVars>>
    /\ Fail("other")

-----------------------------------------------------------------------------
(* Finding the appliance *)

(* The Bluetooth probe answers and says which appliance it is. *)
Probed ==
    /\ screen = "connect"
    /\ screen' = "setup"
    /\ toSave' = IF state.writeStarted THEN toSave ELSE None
    /\ UNCHANGED <<account, wifi, force, taskVars, state, acVars, cloudVars, store, spent>>

(* It fails: an appliance already on the LAN can be added from there. *)
ProbeFails ==
    /\ screen = "connect"
    /\ Spend("fault")
    /\ \/ ~force /\ net # None /\ screen' = "lan"
       \/ UNCHANGED screen
    /\ toSave' = IF state.writeStarted THEN toSave ELSE None
    /\ UNCHANGED <<account, wifi, force, taskVars, state, acVars, cloudVars, store>>

(* The user chooses among the accounts of one provider, asked for once. *)
Offered(a) == account # None => (a \in Smart <=> account \in Smart)

ChooseLan(a) ==
    /\ screen = "lan"
    /\ Offered(a)
    /\ screen' = "working"
    /\ stage' = "lanCredentials"
    /\ account' = a
    /\ UNCHANGED <<wifi, toSave, force, session, state, acVars, cloudVars, store, spent>>

(* acquire_credentials at the address found. *)
LanCredentials ==
    /\ At("lanCredentials")
    /\ stage' = "none"
    /\ \/ screen' = "created" /\ UNCHANGED spent
       \/ screen' = "lan" /\ Spend("fault")
    /\ UNCHANGED <<account, wifi, toSave, force, session, state, acVars, cloudVars, store>>

(* The user wants the Wi-Fi set up although the appliance is on the LAN. *)
ChooseSetup(a) ==
    /\ screen = "lan"
    /\ Offered(a)
    /\ screen' = "connect"
    /\ account' = a
    /\ force' = TRUE
    /\ UNCHANGED <<wifi, toSave, taskVars, state, acVars, cloudVars, store, spent>>

(* The form with the account and the network. *)
Submit(a, w) ==
    /\ screen = "setup"
    /\ Offered(a)
    /\ screen' = "working"
    /\ stage' = "login"
    /\ account' = a
    /\ wifi' = w
    /\ toSave' = w
    /\ UNCHANGED <<force, session, state, acVars, cloudVars, store, spent>>

-----------------------------------------------------------------------------
(* provision_device runs only what is incomplete. *)

LoggedIn ==
    /\ At("login")
    /\ To(CASE state.bound -> "lan"
            [] ~state.bound /\ ~state.writeStarted -> "bluetooth"
            [] ~state.bound /\ state.writeStarted /\ account \in Smart -> "owned"
            [] OTHER -> "lookup")
    /\ UNCHANGED <<flowVars, state, acVars, cloudVars, store, spent>>

(* The session is open and the appliance identified.  The write is marked   *)
(* before its first byte leaves; the frame arrives or it does not.          *)
WriteWifi ==
    /\ At("bluetooth")
    /\ stage' = "acking"
    /\ session' = TRUE
    /\ state' = [state EXCEPT !.writeStarted = TRUE]
    /\ wifi' = None
    /\ proof' = FALSE
    /\ report' = "none"
    /\ \/ told' = wifi /\ given' = wifi /\ UNCHANGED spent
       \/ Spend("fault") /\ UNCHANGED <<told, given>>
    /\ UNCHANGED <<screen, account, toSave, force, net, cloudVars, store>>

WifiAcked ==
    /\ At("acking")
    /\ given # None
    /\ To(IF account \in Smart THEN "owned" ELSE "network")
    /\ UNCHANGED <<flowVars, state, acVars, cloudVars, store, spent>>

(* An explicit rejection is not a lost acknowledgement. *)
WifiRejected ==
    /\ At("acking")
    /\ given = None
    /\ state' = [state EXCEPT !.writeStarted = FALSE]
    /\ UNCHANGED <<acVars, cloudVars, spent>>
    /\ Fail("other")

(* _wait_for_network: the appliance says that it cannot join. *)
NetworkRefused ==
    /\ \/ At("network") \/ At("joining")
       \/ At("lookup") /\ session
    /\ report = "refused"
    /\ state' = [state EXCEPT !.writeStarted = FALSE]
    /\ UNCHANGED <<acVars, cloudVars, spent>>
    /\ Fail("other")

(* It has tried, and joined or its status is unavailable: go on without it. *)
NetworkWaited ==
    /\ At("network") \/ At("joining")
    /\ told = None
    /\ (report # "refused" /\ UNCHANGED spent) \/ Spend("fault")
    /\ IF stage = "network"
       THEN stage' = "lookup" /\ session' = FALSE
       ELSE To("status")
    /\ UNCHANGED <<flowVars, state, acVars, cloudVars, store>>

-----------------------------------------------------------------------------
(* _link_smarthome and wait_for_device *)

\* Slip: a retry looks for its own identifier only.
OwnershipUnread ==
    /\ At("owned")
    /\ To(IF state.code = None THEN "lookup" ELSE "status")
    /\ UNCHANGED <<flowVars, state, acVars, cloudVars, store, spent>>

(* Whoever owns the appliance already is not bound again. *)
OwnershipChecked ==
    LET mine == owner = account
        code == IF state.code = None /\ mine THEN account ELSE state.code
    IN
    /\ At("owned")
    /\ ~(mine /\ state.code \notin {None, account})
    /\ code = None => ~state.expired
    /\ state' = [state EXCEPT !.code = code]
    /\ To(CASE code = None -> "lookup"
            [] code # None /\ mine /\ session -> "joining"
            [] OTHER -> "status")
    /\ UNCHANGED <<flowVars, acVars, cloudVars, store, spent>>

OwnershipRefused ==
    /\ At("owned")
    /\ \/ owner = account /\ state.code \notin {None, account}
       \/ owner # account /\ state.code = None /\ state.expired
    /\ UNCHANGED <<state, acVars, cloudVars, spent>>
    /\ Fail(IF owner = account THEN "other" ELSE "expired")

(* The cloud has seen the appliance with this pairing's random code; the    *)
(* request to bind it is sent.                                             *)
Bind ==
    /\ At("lookup")
    /\ proof
    /\ To("binding")
    /\ (owner' = account /\ UNCHANGED spent) \/ (Spend("fault") /\ UNCHANGED owner)
    /\ IF owner' = owner THEN UNCHANGED confirmed ELSE confirmed' \in BOOLEAN
    /\ UNCHANGED <<flowVars, state, acVars, asked, store>>

(* It never was seen. *)
LookupFails ==
    /\ At("lookup")
    /\ told = None /\ ~proof
    /\ UNCHANGED <<state, acVars, cloudVars, spent>>
    /\ Fail("other")

\* Slip: the identifier in a malformed reply is kept.
BindUnchecked ==
    /\ At("binding")
    /\ owner = account
    /\ IF account \in Smart
       THEN state' = [state EXCEPT !.code = "malformed"] /\ To("status")
       ELSE state' = [state EXCEPT !.code = account, !.bound = TRUE] /\ To("lan")
    /\ UNCHANGED <<flowVars, acVars, cloudVars, store, spent>>

BindAccepted ==
    /\ At("binding")
    /\ owner = account
    /\ IF account \in Smart
       THEN state' = [state EXCEPT !.code = account] /\ To("status")
       ELSE state' = [state EXCEPT !.code = account, !.bound = TRUE] /\ To("lan")
    /\ UNCHANGED <<flowVars, acVars, cloudVars, store, spent>>

(* An error may hide a successful bind: SmartHome is asked again.  1383     *)
(* says that the time for binding has run out.                             *)
BindUnclear ==
    /\ At("binding")
    /\ account \in Smart
    /\ (Unanswered /\ UNCHANGED spent) \/ Spend("fault")
    /\ To("recheck") \/ To("expiring")
    /\ UNCHANGED <<flowVars, state, acVars, cloudVars, store>>

Rechecked ==
    /\ At("recheck") \/ At("expiring")
    /\ owner = account
    /\ state' = [state EXCEPT !.code = account]
    /\ To("status")
    /\ UNCHANGED <<flowVars, acVars, cloudVars, store, spent>>

NotOwned ==
    /\ At("recheck") \/ At("expiring")
    /\ (owner # account /\ UNCHANGED spent) \/ Spend("fault")
    /\ state' = [state EXCEPT !.expired = @ \/ stage = "expiring"]
    /\ UNCHANGED <<acVars, cloudVars>>
    /\ Fail(IF stage = "expiring" THEN "expired" ELSE "other")

(* The confirmation at the appliance is started once: its start is noted    *)
(* before the request is sent.                                             *)
\* Slip: a window that is still open counts as confirmed.
StatusMisread ==
    /\ At("status")
    /\ confirmed \/ state.confirming
    /\ To("verify")
    /\ UNCHANGED <<flowVars, state, acVars, cloudVars, store, spent>>

StatusRead ==
    /\ At("status")
    /\ confirmed
    /\ To("verify")
    /\ UNCHANGED <<flowVars, state, acVars, cloudVars, store, spent>>

\* Slip: the start of a confirmation is not noted.
StartUnmarked ==
    /\ At("status")
    /\ ~confirmed
    /\ ~state.confirming
    /\ To("starting")
    /\ (asked' = TRUE /\ UNCHANGED spent) \/ (Spend("fault") /\ UNCHANGED asked)
    /\ UNCHANGED <<flowVars, state, acVars, owner, confirmed, store>>

StartConfirmation ==
    /\ At("status")
    /\ ~confirmed
    /\ ~state.confirming
    /\ state' = [state EXCEPT !.confirming = TRUE]
    /\ To("starting")
    /\ (asked' = TRUE /\ UNCHANGED spent) \/ (Spend("fault") /\ UNCHANGED asked)
    /\ UNCHANGED <<flowVars, acVars, owner, confirmed, store>>

ConfirmationNeeded ==
    /\ \/ At("status") /\ state.confirming
       \/ At("starting") /\ asked
    /\ ~confirmed
    /\ UNCHANGED <<state, acVars, cloudVars, spent>>
    /\ Fail("confirm")

ConfirmedMeanwhile ==
    /\ At("starting")
    /\ confirmed
    /\ To("verify")
    /\ UNCHANGED <<flowVars, state, acVars, cloudVars, store, spent>>

(* The cloud answers the start with an error code. *)
StartRejected ==
    /\ At("starting")
    /\ ~asked
    /\ state' = [state EXCEPT !.confirming = FALSE]
    /\ UNCHANGED <<acVars, cloudVars, spent>>
    /\ Fail("other")

\* Slip: the identifier of a bind alone is accepted.
VerifiedBlindly ==
    /\ At("verify")
    /\ state' = [state EXCEPT !.bound = TRUE]
    /\ stage' = "lan"
    /\ session' = FALSE
    /\ UNCHANGED <<flowVars, acVars, cloudVars, store, spent>>

(* The identifier of a bind alone is not accepted as ownership. *)
Verified ==
    /\ At("verify")
    /\ owner = account /\ state.code = account
    /\ state' = [state EXCEPT !.bound = TRUE]
    /\ stage' = "lan"
    /\ session' = FALSE
    /\ UNCHANGED <<flowVars, acVars, cloudVars, store, spent>>

OwnershipPending ==
    /\ At("verify")
    /\ ~(owner = account /\ state.code = account)
    /\ UNCHANGED <<state, acVars, cloudVars, spent>>
    /\ Fail("other")

-----------------------------------------------------------------------------
(* The rest: local discovery, credentials, the Wi-Fi store, the entry. *)

FoundOnLan ==
    /\ At("lan")
    /\ net # None
    /\ To("credentials")
    /\ UNCHANGED <<flowVars, state, acVars, cloudVars, store, spent>>

NotOnLan ==
    /\ At("lan")
    /\ net = None
    /\ UNCHANGED <<state, acVars, cloudVars, spent>>
    /\ Fail("other")

Acquired ==
    /\ At("credentials")
    /\ store' = IF toSave # None THEN toSave ELSE store
    /\ toSave' = None
    /\ stage' = "none"
    /\ screen' = "created"
    /\ UNCHANGED <<account, wifi, force, session, state, acVars, cloudVars, spent>>

-----------------------------------------------------------------------------
(* The screens after a task that failed *)

Retry ==
    /\ screen \in {"finish", "confirm"}
    /\ screen' = "working"
    /\ stage' = "login"
    /\ UNCHANGED <<account, wifi, toSave, force, session, state, acVars,
                   cloudVars, store, spent>>

\* Slip: the confirmation is not started again.
RestartIgnored ==
    /\ screen = "confirm"
    /\ screen' = "working"
    /\ stage' = "login"
    /\ asked' = FALSE
    /\ UNCHANGED <<account, wifi, toSave, force, session, state, acVars, owner,
                   confirmed, store, spent>>

RestartConfirmation ==
    /\ screen = "confirm"
    /\ screen' = "working"
    /\ stage' = "login"
    /\ state' = [state EXCEPT !.confirming = FALSE]
    /\ asked' = FALSE
    /\ UNCHANGED <<account, wifi, toSave, force, session, acVars, owner,
                   confirmed, store, spent>>

(* _restart_bluetooth_pairing: a new pairing. *)
Restart ==
    /\ \/ screen = "expired"
       \/ screen = "finish" /\ ~state.bound
       \/ screen = "lan"
    /\ Spend("restart")
    /\ screen' = "connect"
    /\ state' = Fresh
    /\ force' = TRUE
    /\ given' = None
    /\ asked' = FALSE
    /\ UNCHANGED <<account, wifi, toSave, taskVars, told, net, report, proof,
                   owner, confirmed, store>>

(* async_remove: the user closes the flow, which cancels the task. *)
Leave ==
    /\ screen \notin {"created", "closed"}
    /\ screen' = "closed"
    /\ stage' = "none"
    /\ session' = FALSE
    /\ wifi' = None
    /\ toSave' = None
    /\ UNCHANGED <<account, force, state, acVars, cloudVars, store, spent>>

-----------------------------------------------------------------------------
(* The appliance and the vendor's application *)

Join ==
    /\ told \in Good
    /\ net' = told
    /\ told' = None
    /\ report' = "joined"
    /\ proof' = TRUE
    /\ UNCHANGED <<flowVars, taskVars, state, given, cloudVars, store, spent>>

CannotJoin ==
    /\ told \in Wifi \ Good
    /\ net' = None
    /\ told' = None
    /\ report' = "refused"
    /\ given' = None
    /\ UNCHANGED <<flowVars, taskVars, state, proof, cloudVars, store, spent>>

(* Between two attempts the user links the appliance with the application. *)
LinkElsewhere(a) ==
    /\ screen # "working" /\ ~state.bound
    /\ owner # a
    /\ Spend("restart")
    /\ owner' = a
    /\ confirmed' = TRUE
    /\ UNCHANGED <<flowVars, taskVars, state, acVars, asked, store>>

(* Somebody confirms at the appliance, if a confirmation is under way. *)
Confirm ==
    /\ asked /\ ~confirmed
    /\ confirmed' = TRUE
    /\ UNCHANGED <<flowVars, taskVars, state, acVars, owner, asked, store, spent>>

-----------------------------------------------------------------------------
Init ==
    /\ screen = "connect"
    /\ stage = "none"
    /\ session = FALSE
    /\ account = None
    /\ wifi = None
    /\ toSave = None
    /\ force = FALSE
    /\ state = Fresh
    /\ told = None
    /\ net \in Good \cup {None}
    /\ report = "none"
    /\ proof = FALSE
    /\ given = None
    /\ owner \in Account \cup {None}
    /\ confirmed \in BOOLEAN
    /\ asked = FALSE
    /\ store = None
    /\ spent = [k \in Cause |-> 0]

User ==
    \/ \E a \in Account : ChooseLan(a) \/ ChooseSetup(a)
    \/ \E a \in Account, w \in Wifi : Submit(a, w)
    \/ Retry
    \/ RestartConfirmation
    \/ Restart
    \/ Leave

Setup ==
    \/ Probed
    \/ ProbeFails
    \/ LanCredentials
    \/ LoggedIn
    \/ WriteWifi
    \/ WifiAcked
    \/ WifiRejected
    \/ NetworkRefused
    \/ NetworkWaited
    \/ FoundOnLan
    \/ NotOnLan
    \/ Acquired

Link ==
    \/ OwnershipChecked
    \/ OwnershipRefused
    \/ Bind
    \/ LookupFails
    \/ BindAccepted
    \/ BindUnclear
    \/ Rechecked
    \/ NotOwned
    \/ StatusRead
    \/ StartConfirmation
    \/ ConfirmationNeeded
    \/ ConfirmedMeanwhile
    \/ StartRejected
    \/ Verified
    \/ OwnershipPending

Appliance == Join \/ CannotJoin

(* A flow that ended stays as it is. *)
Ended == screen \in {"created", "closed"} /\ UNCHANGED vars

Next ==
    \/ User
    \/ Setup
    \/ Link
    \/ Interrupted
    \/ Appliance
    \/ Confirm
    \/ \E a \in Account : LinkElsewhere(a)
    \/ Ended

Spec == Init /\ [][Next]_vars

(* Every await of a task ends and the appliance tries what it was told.  A  *)
(* user who does not give up retries, confirms when asked, and starts a    *)
(* confirmation again that never comes to an end.                          *)
Fairness ==
    /\ WF_vars(Setup \/ Link \/ Interrupted)
    /\ WF_vars(Appliance)
    /\ WF_vars(Retry)
    /\ SF_vars(Confirm)
    /\ SF_vars(RestartConfirmation)

FairSpec == Spec /\ Fairness
-----------------------------------------------------------------------------
(* Properties *)

Screens == {"connect", "setup", "lan", "working", "finish", "confirm",
            "expired", "created", "closed"}
Stages  == {"none", "login", "bluetooth", "acking", "network", "joining", "owned",
            "lookup", "binding", "recheck", "expiring", "status", "starting",
            "verify", "lan", "credentials", "lanCredentials"}
Progress == [writeStarted : BOOLEAN, bound : BOOLEAN, code : Account \cup {None},
             confirming : BOOLEAN, expired : BOOLEAN]

FlowTypes ==
    /\ screen \in Screens
    /\ stage \in Stages
    /\ account \in Account \cup {None}
    /\ wifi \in Wifi \cup {None}
    /\ toSave \in Wifi \cup {None}
    /\ store \in Wifi \cup {None}
    /\ state \in Progress
    /\ spent \in [Cause -> Nat]

WorldTypes ==
    /\ told \in Wifi \cup {None}
    /\ given \in Wifi \cup {None}
    /\ net \in Good \cup {None}
    /\ report \in {"none", "joined", "refused"}
    /\ owner \in Account \cup {None}

FlagTypes ==
    /\ session \in BOOLEAN
    /\ force \in BOOLEAN
    /\ proof \in BOOLEAN
    /\ confirmed \in BOOLEAN
    /\ asked \in BOOLEAN

(* Every variable keeps its type. *)
TypeOK == FlowTypes /\ WorldTypes /\ FlagTypes

(* "Transient progress survives Retry without resending Wi-Fi credentials"  *)
(* (bluetooth_provision.py:74): as long as the appliance has credentials of *)
(* this pairing and has not failed to join with them, none are written.    *)
NoResend == [][stage = "bluetooth" /\ stage' = "acking" => given = None]_vars

(* "Resume linking/confirmation without repeating successful mutations"     *)
(* (bluetooth_provision.py:268): SmartHome is never asked to bind an        *)
(* appliance the account owns.                                             *)
NoRebind ==
    [][stage = "lookup" /\ stage' = "binding" /\ account \in Smart
         => owner # account]_vars

(* "A lost response must not restart the physical confirmation window on an *)
(* ordinary Retry" (bluetooth_provision.py:327).                            *)
ConfirmOnce == [][stage = "status" /\ stage' = "starting" => ~asked]_vars

(* "Do not accept a bind ID alone as ownership" (bluetooth_provision.py:350):*)
(* a pairing that counts as bound is bound to the selected account, which   *)
(* the user cannot change any more.                                        *)
BoundOwned == state.bound => owner = account

(* "Submit to retry the remaining cloud and LAN steps" (translations/en.json,*)
(* bluetooth_finish): once the appliance has good credentials, retrying is  *)
(* enough to finish, unless the time for binding ran out or the flow holds  *)
(* the identifier of a link the selected account does not have.            *)
Misled == state.code # None /\ (owner # account \/ state.code # account)

RetryFinishes ==
    (given \in Good)
        ~> (given = None \/ screen \in {"created", "closed", "expired"} \/ Misled)

(* The pairing as Pairing describes it. *)
Steps == INSTANCE Pairing WITH
    linked <- IF state.bound THEN account ELSE None,
    entry  <- screen = "created"

(* "Wi-Fi settings and completed account linking will not be repeated"      *)
(* (translations/en.json:347): whatever is lost and retried, the appliance  *)
(* and the cloud see one pairing after another, each change of it made     *)
(* once, in order, and none after the appliance counts as linked.          *)
OncePerPairing == Steps!Spec

(* "Replace a network password only after successful provisioning"          *)
(* (wifi_credentials.py:52): what is saved is what the appliance uses.      *)
SavedIsUsed == [][store' # store => store' = net]_vars
=============================================================================
