---------------------------- MODULE AccountFlow ----------------------------
(***************************************************************************)
(* Creating a set-up account, or logging in to one, from the screens of    *)
(* account_flow.py (NetHome Plus) and smarthome_flow.py (SmartHome), with   *)
(* the requests of nethome_account.py and smarthome_account.py.  Several    *)
(* flows are open for one email address.  A handler sends one request at a  *)
(* time; the request takes effect at the cloud when it is sent, or is lost, *)
(* and its answer is a later step that can be lost as well.  What the user *)
(* types is well-formed, and the regions are loaded.                       *)
(***************************************************************************)
EXTENDS Integers

CONSTANTS
    Flow,       \* config flows for one email address
    Password,   \* passwords the user may choose or type
    None,       \* "no such thing"
    Cooldown,   \* the 60 seconds between two email codes, in ticks
    Budget      \* bound on lost messages and rejections

Provider == {"nethome", "smarthome"}

ASSUME PasswordAssumption == None \notin Password
ASSUME CooldownAssumption == Cooldown \in Nat \ {0}
ASSUME BudgetAssumption   == Budget \in Nat

VARIABLES
    provider,   \* _account_provider
    screen,     \* the step the user sees
    call,       \* the request a handler awaits
    claimed,    \* the flow's unique id is set
    wait,       \* ticks until _smarthome_next_send
    account,    \* the cloud's account of the address, for each provider
    mailed,     \* the address got a code that SmartHome will accept
    saved,      \* the password in the account's config entry
    mayExist,   \* history: the flow asked for an account and was not refused
    since,      \* history: ticks since the flow sent a code, up to Cooldown
    spent

cloudVars == <<account, mailed>>
codeVars  == <<wait, since>>
vars == <<provider, screen, call, claimed, codeVars, cloudVars, saved, mayExist, spent>>

NoCall  == [kind |-> "none", result |-> "lost", password |-> None]
Idle(f) == call[f].kind = "none"

Spend == spent < Budget /\ spent' = spent + 1

Send(f, kind, result, w) ==
    call' = [call EXCEPT ![f] = [kind |-> kind, result |-> result, password |-> w]]
Done(f) == call' = [call EXCEPT ![f] = NoCall]

(* A dialog that is closed shows no other screen, but its handler goes on. *)
Closed(f) == screen[f] \in {"saved", "ended"}
Go(f, s) == screen' = [screen EXCEPT ![f] = IF Closed(f) THEN @ ELSE s]

(* The answer to a request of the flow: what the cloud said, or nothing. *)
Answer(f, kind, result) ==
    /\ call[f].kind = kind
    /\ \/ result = call[f].result /\ UNCHANGED spent
       \/ result = "lost" /\ call[f].result # "lost" /\ Spend

-----------------------------------------------------------------------------
(* _account_unique_id: one flow at a time for each account, and none for an *)
(* account that is saved.                                                  *)

\* Slip: only the flows in progress are looked at.
MayClaimAgain(f) == \A g \in Flow \ {f} : ~(claimed[g] /\ provider[g] = provider[f])

MayClaim(f) ==
    /\ \A g \in Flow \ {f} : ~(claimed[g] /\ provider[g] = provider[f])
    /\ saved[provider[f]] = None

Claim(f) == MayClaim(f) /\ claimed' = [claimed EXCEPT ![f] = TRUE]

Aborted(f) ==
    /\ Go(f, "ended")
    /\ claimed' = [claimed EXCEPT ![f] = FALSE]

(* The form is submitted for an address that another flow or entry has. *)
Refused(f) ==
    /\ Idle(f)
    /\ \/ screen[f] = "login"
       \/ screen[f] = "register" /\ (provider[f] = "smarthome" => wait[f] = 0)
    /\ ~MayClaim(f)
    /\ Aborted(f)
    /\ UNCHANGED <<provider, call, codeVars, cloudVars, saved, mayExist, spent>>

-----------------------------------------------------------------------------
(* The menus, and closing the dialog *)

Choose(f, p, s) ==
    /\ screen[f] = "menu"
    /\ provider' = [provider EXCEPT ![f] = p]
    /\ Go(f, s)
    /\ UNCHANGED <<call, claimed, codeVars, cloudVars, saved, mayExist, spent>>

(* async_remove; a request that is awaited is not cancelled. *)
Leave(f) ==
    /\ ~Closed(f)
    /\ Aborted(f)
    /\ UNCHANGED <<provider, call, codeVars, cloudVars, saved, mayExist, spent>>

-----------------------------------------------------------------------------
(* Registration.  A new NetHome account waits for its activation.           *)

Register(f, w) ==
    LET p == provider[f] IN
    /\ mayExist' = [mayExist EXCEPT ![f] = TRUE]
    /\ \/ /\ account[p] = None
          /\ account' = [account EXCEPT ![p] = [password |-> w, active |-> p = "smarthome"]]
          /\ Send(f, "register", "ok", w)
          /\ UNCHANGED spent
       \/ /\ account[p] # None
          /\ Send(f, "register", "exists", w)
          /\ UNCHANGED <<account, spent>>
       \/ /\ Spend
          /\ Send(f, "register", "rejected", w) \/ Send(f, "register", "lost", w)
          /\ UNCHANGED account

(* NetHome asks for everything at once. *)
SubmitDetails(f, w) ==
    /\ screen[f] = "register" /\ provider[f] = "nethome"
    /\ Idle(f)
    /\ Claim(f)
    /\ Register(f, w)
    /\ UNCHANGED <<provider, screen, codeVars, mailed, saved>>

(* SmartHome asks for the password once the address is verified. *)
SubmitPassword(f, w) ==
    /\ screen[f] = "password"
    /\ Idle(f)
    /\ Register(f, w)
    /\ UNCHANGED <<provider, screen, claimed, codeVars, mailed, saved>>

\* Slip: a lost answer is taken for a rejection.
LostIsRejected(f) ==
    /\ \/ Answer(f, "register", "lost")
       \/ Answer(f, "register", "rejected")
       \/ Answer(f, "register", "exists") /\ provider[f] = "nethome"
    /\ Done(f)
    /\ mayExist' = [mayExist EXCEPT ![f] = call[f].result \notin {"rejected", "exists"}]
    /\ UNCHANGED <<provider, screen, claimed, codeVars, cloudVars, saved>>

(* A definite answer permits editing and trying again. *)
RegisterRejected(f) ==
    /\ \/ Answer(f, "register", "rejected")
       \/ Answer(f, "register", "exists") /\ provider[f] = "nethome"
    /\ Done(f)
    /\ mayExist' = [mayExist EXCEPT ![f] = FALSE]
    /\ UNCHANGED <<provider, screen, claimed, codeVars, cloudVars, saved>>

(* Otherwise the account may exist: only logging in to it is left.          *)
RegisterUncertain(f) ==
    /\ \/ Answer(f, "register", "lost")
       \/ Answer(f, "register", "exists") /\ provider[f] = "smarthome"
    /\ Done(f)
    /\ Go(f, "check")
    /\ UNCHANGED <<provider, claimed, codeVars, cloudVars, saved, mayExist>>

-----------------------------------------------------------------------------
(* Logging in.  The cloud accepts the password of an activated account.     *)

Accepts(p, w) == account[p] # None /\ account[p].active /\ account[p].password = w

Login(f, w) ==
    Send(f, "login", IF Accepts(provider[f], w) THEN "ok" ELSE "rejected", w)

\* Slip: what was registered is saved at once.
RegisteredSaved(f) ==
    /\ Answer(f, "register", "ok")
    /\ Go(f, "saved")
    /\ saved' = [saved EXCEPT ![provider[f]] = call[f].password]
    /\ claimed' = [claimed EXCEPT ![f] = FALSE]
    /\ Done(f)
    /\ UNCHANGED <<provider, codeVars, cloudVars, mayExist>>

(* SmartHome logs in at once, unless the dialog was closed and the address   *)
(* forgotten; NetHome's user has a link to follow first.                   *)
Registered(f) ==
    /\ Answer(f, "register", "ok")
    /\ Go(f, "check")
    /\ IF provider[f] = "smarthome" /\ ~Closed(f)
       THEN Login(f, call[f].password)
       ELSE Done(f)
    /\ UNCHANGED <<provider, claimed, codeVars, cloudVars, saved, mayExist>>

SubmitLogin(f, w) ==
    /\ Idle(f)
    /\ \/ screen[f] = "login" /\ Claim(f)
       \/ screen[f] = "check" /\ UNCHANGED claimed
    /\ Login(f, w)
    /\ UNCHANGED <<provider, screen, codeVars, cloudVars, saved, mayExist, spent>>

\* Slip: the account is registered again after a failed login.
LoginRestarts(f) ==
    /\ Answer(f, "login", "lost") \/ Answer(f, "login", "rejected")
    /\ Done(f)
    /\ Go(f, "menu")
    /\ UNCHANGED <<provider, claimed, codeVars, cloudVars, saved, mayExist>>

LoginFails(f) ==
    /\ Answer(f, "login", "lost") \/ Answer(f, "login", "rejected")
    /\ Done(f)
    /\ UNCHANGED <<provider, screen, claimed, codeVars, cloudVars, saved, mayExist>>

(* _save_account.  What a closed dialog returns is dropped. *)
Save(f) ==
    /\ Answer(f, "login", "ok")
    /\ Done(f)
    /\ IF MayClaim(f) /\ ~Closed(f)
       THEN /\ Go(f, "saved")
            /\ saved' = [saved EXCEPT ![provider[f]] = call[f].password]
            /\ claimed' = [claimed EXCEPT ![f] = FALSE]
       ELSE Aborted(f) /\ UNCHANGED saved
    /\ UNCHANGED <<provider, codeVars, cloudVars, mayExist>>

-----------------------------------------------------------------------------
(* SmartHome verifies the address first. *)

(* The user enters the address; the cloud is asked whether it has it. *)
SubmitEmail(f) ==
    /\ screen[f] = "register" /\ provider[f] = "smarthome"
    /\ Idle(f)
    /\ wait[f] = 0
    /\ Claim(f)
    /\ Send(f, "prepare", IF account["smarthome"] = None THEN "ok" ELSE "exists", None)
    /\ UNCHANGED <<provider, screen, codeVars, cloudVars, saved, mayExist, spent>>

PrepareFails(f) ==
    /\ Answer(f, "prepare", "lost") \/ Answer(f, "prepare", "exists")
    /\ Done(f)
    /\ UNCHANGED <<provider, screen, claimed, codeVars, cloudVars, saved, mayExist>>

(* _send_smarthome_code: the next one is put off before this one is sent.   *)
SendCode(f) ==
    /\ wait' = [wait EXCEPT ![f] = Cooldown]
    /\ since' = [since EXCEPT ![f] = 0]
    /\ \/ Send(f, "send", "ok", None) /\ mailed' = TRUE /\ UNCHANGED spent
       \/ /\ Spend
          /\ Send(f, "send", "rejected", None) \/ Send(f, "send", "lost", None)
          /\ UNCHANGED mailed
    /\ UNCHANGED account

Prepared(f) ==
    /\ call[f].kind = "prepare" /\ call[f].result = "ok"
    /\ SendCode(f)
    /\ UNCHANGED <<provider, screen, claimed, saved, mayExist>>

\* Slip: a code can be had whenever the user asks.
ResendAtOnce(f) ==
    /\ screen[f] = "verify"
    /\ Idle(f)
    /\ SendCode(f)
    /\ UNCHANGED <<provider, screen, claimed, saved, mayExist>>

Resend(f) ==
    /\ screen[f] = "verify"
    /\ Idle(f)
    /\ wait[f] = 0
    /\ SendCode(f)
    /\ UNCHANGED <<provider, screen, claimed, saved, mayExist>>

(* A lost answer counts as sent: the code may have arrived. *)
CodeSent(f) ==
    /\ Answer(f, "send", "ok") \/ Answer(f, "send", "lost")
    /\ Done(f)
    /\ Go(f, "verify")
    /\ UNCHANGED <<provider, claimed, codeVars, cloudVars, saved, mayExist>>

SendRejected(f) ==
    /\ Answer(f, "send", "rejected")
    /\ Done(f)
    /\ UNCHANGED <<provider, screen, claimed, codeVars, cloudVars, saved, mayExist>>

(* The user enters the code that arrived, or another one. *)
EnterCode(f) ==
    /\ screen[f] = "verify"
    /\ Idle(f)
    /\ (mailed /\ Send(f, "code", "ok", None)) \/ Send(f, "code", "rejected", None)
    /\ UNCHANGED <<provider, screen, claimed, codeVars, cloudVars, saved, mayExist, spent>>

CodeVerified(f) ==
    /\ Answer(f, "code", "ok")
    /\ Done(f)
    /\ Go(f, "password")
    /\ UNCHANGED <<provider, claimed, codeVars, cloudVars, saved, mayExist>>

CodeRefused(f) ==
    /\ Answer(f, "code", "lost") \/ Answer(f, "code", "rejected")
    /\ Done(f)
    /\ UNCHANGED <<provider, screen, claimed, codeVars, cloudVars, saved, mayExist>>

-----------------------------------------------------------------------------
(* The owner of the address, and time *)

Activate ==
    /\ account["nethome"] # None /\ ~account["nethome"].active
    /\ account' = [account EXCEPT !["nethome"].active = TRUE]
    /\ UNCHANGED <<provider, screen, call, claimed, codeVars, mailed, saved, mayExist, spent>>

\* Slip: the wait goes on below zero.
TickOn ==
    /\ wait' = [f \in Flow |-> wait[f] - 1]
    /\ UNCHANGED <<provider, screen, call, claimed, since, cloudVars, saved, mayExist, spent>>

Tick ==
    /\ wait' = [f \in Flow |-> IF wait[f] > 0 THEN wait[f] - 1 ELSE 0]
    /\ since' = [f \in Flow |-> IF since[f] < Cooldown THEN since[f] + 1 ELSE since[f]]
    /\ UNCHANGED <<provider, screen, call, claimed, cloudVars, saved, mayExist, spent>>

-----------------------------------------------------------------------------
(* The address may have accounts from elsewhere. *)
Init ==
    /\ provider = [f \in Flow |-> "nethome"]
    /\ screen = [f \in Flow |-> "menu"]
    /\ call = [f \in Flow |-> NoCall]
    /\ claimed = [f \in Flow |-> FALSE]
    /\ wait = [f \in Flow |-> 0]
    /\ account \in [Provider -> {None} \cup [password : Password, active : {TRUE}]]
    /\ mailed = FALSE
    /\ saved = [p \in Provider |-> None]
    /\ mayExist = [f \in Flow |-> FALSE]
    /\ since = [f \in Flow |-> Cooldown]
    /\ spent = 0

User(f) ==
    \/ \E p \in Provider, s \in {"register", "login"} : Choose(f, p, s)
    \/ \E w \in Password : SubmitDetails(f, w) \/ SubmitPassword(f, w) \/ SubmitLogin(f, w)
    \/ SubmitEmail(f)
    \/ Resend(f)
    \/ EnterCode(f)
    \/ Refused(f)
    \/ Leave(f)

Handler(f) ==
    \/ RegisterRejected(f)
    \/ RegisterUncertain(f)
    \/ Registered(f)
    \/ LoginFails(f)
    \/ Save(f)
    \/ PrepareFails(f)
    \/ Prepared(f)
    \/ CodeSent(f)
    \/ SendRejected(f)
    \/ CodeVerified(f)
    \/ CodeRefused(f)

Next ==
    \/ \E f \in Flow : User(f) \/ Handler(f)
    \/ Activate
    \/ Tick

Spec == Init /\ [][Next]_vars

(* Every request ends within its time limit, the owner of the address       *)
(* follows the link, and a user whose account may exist goes on entering    *)
(* its password.                                                           *)
Fairness ==
    /\ \A f \in Flow :
         /\ WF_vars(Handler(f))
         /\ SF_vars(\E w \in Password : Accepts(provider[f], w) /\ SubmitLogin(f, w))
    /\ WF_vars(Activate)

FairSpec == Spec /\ Fairness

-----------------------------------------------------------------------------
Call == [kind     : {"none", "register", "login", "prepare", "send", "code"},
         result   : {"ok", "exists", "rejected", "lost"},
         password : Password \cup {None}]

(* Every variable stays in its type. *)
TypeOK ==
    /\ provider \in [Flow -> Provider]
    /\ screen \in [Flow -> {"menu", "register", "login", "verify", "password",
                            "check", "saved", "ended"}]
    /\ call \in [Flow -> Call]
    /\ claimed \in [Flow -> BOOLEAN]
    /\ wait \in [Flow -> 0..Cooldown]
    /\ account \in [Provider -> {None} \cup [password : Password, active : BOOLEAN]]
    /\ mailed \in BOOLEAN
    /\ saved \in [Provider -> Password \cup {None}]
    /\ mayExist \in [Flow -> BOOLEAN]
    /\ since \in [Flow -> 0..Cooldown]
    /\ spent \in 0..Budget

(* A flow whose request may have created an account never sends another:    *)
(* account_flow.py must "not repeat a mutation after a lost/invalid         *)
(* response", and in smarthome_flow.py retries "never register again".      *)
RegistersOnce ==
    [][\A f \in Flow :
         call'[f].kind = "register" /\ call[f].kind # "register" => ~mayExist[f]]_vars

(* What is saved can be used: the account is active, with that password,    *)
(* however its registration and activation went.                           *)
SavedWorks ==
    \A p \in Provider : saved[p] # None => Accepts(p, saved[p])

(* Flows that are open at the same time save one entry for an account, the  *)
(* unique id of which is taken and looked up around the login's await.      *)
OneEntry ==
    \A f, g \in Flow :
        screen[f] = "saved" /\ screen[g] = "saved" /\ provider[f] = provider[g] => f = g

(* A flow requests no code within the cooldown of the last one, whether the *)
(* last request was answered, rejected or lost.                            *)
SendsApart ==
    [][\A f \in Flow :
         call'[f].kind = "send" /\ call[f].kind # "send" => since[f] = Cooldown]_vars

(* Once an account exists, a flow that only checks logins gets it saved,    *)
(* whatever was lost before, unless the user leaves.                       *)
Finishes ==
    \A f \in Flow :
        screen[f] = "check" /\ account[provider[f]] # None ~> Closed(f)

=============================================================================
