------------------------- MODULE AccountFlowProofs -------------------------
(***************************************************************************)
(* Proofs about the account flows, for any flows, passwords, cooldown and  *)
(* number of faults.                                                       *)
(***************************************************************************)
EXTENDS AccountFlow, TLAPS

(* What makes the properties inductive.                                     *)

(* A request is awaited behind the screen that sent it, or a closed one. *)
CallInv ==
    \A f \in Flow :
        /\ call[f].kind = "register" => screen[f] \in {"register", "password", "ended"}
        /\ call[f].kind = "login"    => screen[f] \in {"login", "check", "ended"}
        /\ call[f].kind = "prepare"  => screen[f] \in {"register", "ended"}
        /\ call[f].kind = "send"     => screen[f] \in {"register", "verify", "ended"}
        /\ call[f].kind = "code"     => screen[f] \in {"verify", "ended"}

(* After a registration that may have worked no screen offers another. *)
OnceInv ==
    \A f \in Flow :
        /\ call[f].kind = "register" => mayExist[f]
        /\ mayExist[f] =>
             call[f].kind = "register" \/ screen[f] \in {"check", "saved", "ended"}

(* A login that succeeded still would. *)
LoginInv ==
    \A f \in Flow :
        call[f].kind = "login" /\ call[f].result = "ok" =>
            Accepts(provider[f], call[f].password)

EntryInv == \A f \in Flow : screen[f] = "saved" => saved[provider[f]] # None

(* The wait covers what is left of the cooldown. *)
SendInv ==
    \A f \in Flow :
        /\ since[f] + wait[f] >= Cooldown
        /\ call[f].kind = "prepare" => since[f] = Cooldown

IInv == /\ TypeOK
        /\ CallInv
        /\ OnceInv
        /\ LoginInv
        /\ SavedWorks
        /\ EntryInv
        /\ OneEntry
        /\ SendInv

-----------------------------------------------------------------------------
(* The invariant holds initially. *)
LEMMA InitInv == Init => IInv
<1> SUFFICES ASSUME Init PROVE IInv
  OBVIOUS
<1>1. TypeOK
  <2>1. account \in [Provider -> {None} \cup [password : Password, active : BOOLEAN]]
    <3>1. [password : Password, active : {TRUE}] \subseteq
            [password : Password, active : BOOLEAN]
      OBVIOUS
    <3>2. QED
      BY <3>1 DEF Init
  <2>2. call \in [Flow -> Call]
    BY DEF Init, NoCall, Call
  <2>3. wait \in [Flow -> 0..Cooldown] /\ since \in [Flow -> 0..Cooldown] /\ spent \in 0..Budget
    BY CooldownAssumption, BudgetAssumption DEF Init
  <2>4. claimed \in [Flow -> BOOLEAN] /\ mayExist \in [Flow -> BOOLEAN] /\ mailed \in BOOLEAN
    BY Zenon DEF Init
  <2>5. provider \in [Flow -> Provider] /\ saved \in [Provider -> Password \cup {None}]
    BY DEF Init, Provider
  <2>6. QED
    BY <2>1, <2>2, <2>3, <2>4, <2>5 DEF Init, TypeOK
<1>2. CallInv /\ OnceInv /\ LoginInv /\ EntryInv /\ OneEntry
  BY DEF Init, CallInv, OnceInv, LoginInv, EntryInv, OneEntry, NoCall
<1>3. SavedWorks /\ SendInv
  BY CooldownAssumption DEF Init, SavedWorks, SendInv, NoCall
<1>4. QED
  BY <1>1, <1>2, <1>3 DEF IInv

(* Stuttering keeps the invariant. *)
LEMMA StutterInv == ASSUME IInv, UNCHANGED vars PROVE IInv'
<1> USE DEF vars, codeVars, cloudVars
<1>1. TypeOK'
  BY DEF IInv, TypeOK
<1>2. CallInv' /\ OnceInv' /\ LoginInv' /\ SendInv'
  BY DEF IInv, CallInv, OnceInv, LoginInv, SendInv, Accepts
<1>3. SavedWorks' /\ EntryInv' /\ OneEntry'
  BY DEF IInv, SavedWorks, EntryInv, OneEntry, Accepts
<1>4. QED
  BY <1>1, <1>2, <1>3 DEF IInv

Kinds   == {"none", "register", "login", "prepare", "send", "code"}
Results == {"ok", "exists", "rejected", "lost"}

(* What is sent is a request. *)
LEMMA SendType ==
    ASSUME call \in [Flow -> Call], NEW f \in Flow, NEW kind \in Kinds, NEW result \in Results,
           NEW w \in Password \cup {None}, Send(f, kind, result, w)
    PROVE  call' \in [Flow -> Call]
<1> DEFINE new == [kind |-> kind, result |-> result, password |-> w]
<1>1. new \in Call
  BY DEF Call, Kinds, Results
<1>2. call' = [call EXCEPT ![f] = new]
  BY DEF Send
<1> HIDE DEF new
<1>3. QED
  BY <1>1, <1>2

(* Every step keeps the types. *)
LEMMA TypeStep == ASSUME TypeOK, Next PROVE TypeOK'
<1> USE CooldownAssumption, BudgetAssumption DEF TypeOK, Call, Provider, codeVars, cloudVars
<1>a. ASSUME NEW f \in Flow, User(f) \/ Handler(f) PROVE TypeOK'
  <2>1. ASSUME NEW p \in Provider, NEW s \in {"register", "login"}, Choose(f, p, s) PROVE TypeOK'
    BY <2>1, <1>a DEF Choose, Go, Closed
  <2>2. ASSUME NEW w \in Password, SubmitDetails(f, w) PROVE TypeOK'
    <3>1. account' \in [Provider -> {None} \cup [password : Password, active : BOOLEAN]]
      <4>1. \A b \in BOOLEAN :
              [password |-> w, active |-> b] \in [password : Password, active : BOOLEAN]
        BY <2>2
      <4>2. (provider[f] = "smarthome") \in BOOLEAN
        OBVIOUS
      <4>3. [password |-> w, active |-> provider[f] = "smarthome"]
              \in [password : Password, active : BOOLEAN]
        BY <4>1, <4>2, Zenon
      <4> DEFINE new == [password |-> w, active |-> provider[f] = "smarthome"]
      <4>4. account' = account \/ account' = [account EXCEPT ![provider[f]] = new]
        BY <2>2, Zenon DEF SubmitDetails, Register
      <4>5. new \in [password : Password, active : BOOLEAN]
        BY <4>3
      <4> HIDE DEF new
      <4>6. QED
        BY <4>4, <4>5
    <3>2. call' \in [Flow -> Call]
      <4>1. \E result \in Results : Send(f, "register", result, w)
        BY <2>2 DEF SubmitDetails, Register, Results
      <4>2. QED
        BY <4>1, SendType DEF Kinds
    <3>3. mayExist' \in [Flow -> BOOLEAN] /\ spent' \in 0..Budget
      BY <2>2 DEF SubmitDetails, Register, Spend
    <3>4. QED
      BY <2>2, <3>1, <3>2, <3>3 DEF SubmitDetails, Claim
  <2>3. ASSUME NEW w \in Password, SubmitPassword(f, w) PROVE TypeOK'
    <3>1. account' \in [Provider -> {None} \cup [password : Password, active : BOOLEAN]]
      <4>1. \A b \in BOOLEAN :
              [password |-> w, active |-> b] \in [password : Password, active : BOOLEAN]
        BY <2>3
      <4>2. (provider[f] = "smarthome") \in BOOLEAN
        OBVIOUS
      <4>3. [password |-> w, active |-> provider[f] = "smarthome"]
              \in [password : Password, active : BOOLEAN]
        BY <4>1, <4>2, Zenon
      <4> DEFINE new == [password |-> w, active |-> provider[f] = "smarthome"]
      <4>4. account' = account \/ account' = [account EXCEPT ![provider[f]] = new]
        BY <2>3, Zenon DEF SubmitPassword, Register
      <4>5. new \in [password : Password, active : BOOLEAN]
        BY <4>3
      <4> HIDE DEF new
      <4>6. QED
        BY <4>4, <4>5
    <3>2. call' \in [Flow -> Call]
      <4>1. \E result \in Results : Send(f, "register", result, w)
        BY <2>3 DEF SubmitPassword, Register, Results
      <4>2. QED
        BY <4>1, SendType DEF Kinds
    <3>3. mayExist' \in [Flow -> BOOLEAN] /\ spent' \in 0..Budget
      BY <2>3 DEF SubmitPassword, Register, Spend
    <3>4. QED
      BY <2>3, <3>1, <3>2, <3>3 DEF SubmitPassword
  <2>4. ASSUME NEW w \in Password, SubmitLogin(f, w) PROVE TypeOK'
    BY <2>4, <1>a DEF SubmitLogin, Idle, Claim, Login, Send
  <2>5. CASE SubmitEmail(f)
    BY <2>5, <1>a DEF SubmitEmail, Idle, Claim, Send
  <2>6. CASE Resend(f)
    <3>1. wait' \in [Flow -> 0..Cooldown] /\ since' \in [Flow -> 0..Cooldown]
      BY <2>6 DEF Resend, SendCode
    <3>2. call' \in [Flow -> Call]
      <4>1. \E result \in Results : Send(f, "send", result, None)
        BY <2>6 DEF Resend, SendCode, Results
      <4>2. QED
        BY <4>1, SendType DEF Kinds
    <3>3. mailed' \in BOOLEAN
      BY <2>6, Zenon DEF Resend, SendCode
    <3>4. spent' \in 0..Budget
      BY <2>6 DEF Resend, SendCode, Spend
    <3>5. QED
      BY <2>6, <3>1, <3>2, <3>3, <3>4 DEF Resend, SendCode
  <2>7. CASE EnterCode(f)
    BY <2>7, <1>a DEF EnterCode, Idle, Send
  <2>8. CASE Refused(f)
    BY <2>8, <1>a DEF Refused, Idle, Aborted, Go, Closed
  <2>9. CASE Leave(f)
    BY <2>9, <1>a DEF Leave, Aborted, Go, Closed
  <2>10. CASE RegisterRejected(f)
    BY <2>10, <1>a DEF RegisterRejected, Answer, Spend, Done, NoCall
  <2>11. CASE RegisterUncertain(f)
    BY <2>11, <1>a DEF RegisterUncertain, Answer, Spend, Done, NoCall, Go, Closed
  <2>12. CASE Registered(f)
    BY <2>12, <1>a DEF Registered, Answer, Spend, Done, NoCall, Go, Closed, Login, Send
  <2>13. CASE LoginFails(f)
    BY <2>13, <1>a DEF LoginFails, Answer, Spend, Done, NoCall
  <2>14. CASE Save(f)
    <3>1. saved' \in [Provider -> Password \cup {None}] /\ spent' \in 0..Budget
      BY <2>14 DEF Save, Answer, Spend
    <3>2. call' \in [Flow -> Call]
      BY <2>14 DEF Save, Done, NoCall
    <3>3. screen' \in [Flow -> {"menu", "register", "login", "verify", "password",
                               "check", "saved", "ended"}]
      BY <2>14 DEF Save, Aborted, Go
    <3>4. claimed' \in [Flow -> BOOLEAN]
      BY <2>14 DEF Save, Aborted
    <3>5. QED
      BY <2>14, <3>1, <3>2, <3>3, <3>4 DEF Save
  <2>15. CASE PrepareFails(f)
    BY <2>15, <1>a DEF PrepareFails, Answer, Spend, Done, NoCall
  <2>16. CASE Prepared(f)
    <3>1. wait' \in [Flow -> 0..Cooldown] /\ since' \in [Flow -> 0..Cooldown]
      BY <2>16 DEF Prepared, SendCode
    <3>2. call' \in [Flow -> Call]
      <4>1. \E result \in Results : Send(f, "send", result, None)
        BY <2>16 DEF Prepared, SendCode, Results
      <4>2. QED
        BY <4>1, SendType DEF Kinds
    <3>3. mailed' \in BOOLEAN
      BY <2>16, Zenon DEF Prepared, SendCode
    <3>4. spent' \in 0..Budget
      BY <2>16 DEF Prepared, SendCode, Spend
    <3>5. QED
      BY <2>16, <3>1, <3>2, <3>3, <3>4 DEF Prepared, SendCode
  <2>17. CASE CodeSent(f)
    BY <2>17, <1>a DEF CodeSent, Answer, Spend, Done, NoCall, Go, Closed
  <2>18. CASE SendRejected(f)
    BY <2>18, <1>a DEF SendRejected, Answer, Spend, Done, NoCall
  <2>19. CASE CodeVerified(f)
    BY <2>19, <1>a DEF CodeVerified, Answer, Spend, Done, NoCall, Go, Closed
  <2>20. CASE CodeRefused(f)
    BY <2>20, <1>a DEF CodeRefused, Answer, Spend, Done, NoCall
  <2> QED
    BY <1>a, <2>1, <2>2, <2>3, <2>4, <2>5, <2>6, <2>7, <2>8, <2>9, <2>10, <2>11, <2>12, <2>13, <2>14, <2>15, <2>16, <2>17, <2>18, <2>19, <2>20
       DEF User, Handler
<1>b. CASE Activate
  BY <1>b DEF Activate
<1>c. CASE Tick
  BY <1>c DEF Tick
<1> QED
  BY <1>a, <1>b, <1>c DEF Next

(* A flow that awaits an answer changes its screen with the answer. *)
LEMMA CallStep == ASSUME TypeOK, CallInv, Next PROVE CallInv'
<1> USE DEF TypeOK, CallInv, codeVars, cloudVars
<1>a. ASSUME NEW f \in Flow, User(f) \/ Handler(f) PROVE CallInv'
  <2>1. ASSUME NEW p \in Provider, NEW s \in {"register", "login"}, Choose(f, p, s) PROVE CallInv'
    BY <2>1, <1>a DEF Choose, Go, Closed
  <2>2. ASSUME NEW w \in Password, SubmitDetails(f, w) PROVE CallInv'
    BY <2>2, <1>a DEF SubmitDetails, Idle, Claim, Register, Send, Spend
  <2>3. ASSUME NEW w \in Password, SubmitPassword(f, w) PROVE CallInv'
    BY <2>3, <1>a DEF SubmitPassword, Idle, Register, Send, Spend
  <2>4. ASSUME NEW w \in Password, SubmitLogin(f, w) PROVE CallInv'
    BY <2>4, <1>a DEF SubmitLogin, Idle, Claim, Login, Send
  <2>5. CASE SubmitEmail(f)
    BY <2>5, <1>a DEF SubmitEmail, Idle, Claim, Send
  <2>6. CASE Resend(f)
    BY <2>6, <1>a DEF Resend, Idle, SendCode, Send, Spend
  <2>7. CASE EnterCode(f)
    BY <2>7, <1>a DEF EnterCode, Idle, Send
  <2>8. CASE Refused(f)
    BY <2>8, <1>a DEF Refused, Idle, Aborted, Go, Closed
  <2>9. CASE Leave(f)
    BY <2>9, <1>a DEF Leave, Aborted, Go, Closed
  <2>10. CASE RegisterRejected(f)
    BY <2>10, <1>a DEF RegisterRejected, Answer, Spend, Done, NoCall
  <2>11. CASE RegisterUncertain(f)
    BY <2>11, <1>a DEF RegisterUncertain, Answer, Spend, Done, NoCall, Go, Closed
  <2>12. CASE Registered(f)
    BY <2>12, <1>a DEF Registered, Answer, Spend, Done, NoCall, Go, Closed, Login, Send
  <2>13. CASE LoginFails(f)
    BY <2>13, <1>a DEF LoginFails, Answer, Spend, Done, NoCall
  <2>14. CASE Save(f)
    BY <2>14, <1>a DEF Save, Answer, Spend, Done, NoCall, Aborted, Go, Closed
  <2>15. CASE PrepareFails(f)
    BY <2>15, <1>a DEF PrepareFails, Answer, Spend, Done, NoCall
  <2>16. CASE Prepared(f)
    BY <2>16, <1>a DEF Prepared, SendCode, Send, Spend
  <2>17. CASE CodeSent(f)
    BY <2>17, <1>a DEF CodeSent, Answer, Spend, Done, NoCall, Go, Closed
  <2>18. CASE SendRejected(f)
    BY <2>18, <1>a DEF SendRejected, Answer, Spend, Done, NoCall
  <2>19. CASE CodeVerified(f)
    BY <2>19, <1>a DEF CodeVerified, Answer, Spend, Done, NoCall, Go, Closed
  <2>20. CASE CodeRefused(f)
    BY <2>20, <1>a DEF CodeRefused, Answer, Spend, Done, NoCall
  <2> QED
    BY <1>a, <2>1, <2>2, <2>3, <2>4, <2>5, <2>6, <2>7, <2>8, <2>9, <2>10, <2>11, <2>12, <2>13, <2>14, <2>15, <2>16, <2>17, <2>18, <2>19, <2>20
       DEF User, Handler
<1>b. CASE Activate
  BY <1>b DEF Activate
<1>c. CASE Tick
  BY <1>c DEF Tick
<1> QED
  BY <1>a, <1>b, <1>c DEF Next

(* A lost registration leads to the login, and nothing leads back. *)
LEMMA OnceStep == ASSUME TypeOK, CallInv, OnceInv, Next PROVE OnceInv'
<1> USE DEF TypeOK, CallInv, OnceInv, codeVars, cloudVars
<1>a. ASSUME NEW f \in Flow, User(f) \/ Handler(f) PROVE OnceInv'
  <2>1. ASSUME NEW p \in Provider, NEW s \in {"register", "login"}, Choose(f, p, s) PROVE OnceInv'
    BY <2>1, <1>a DEF Choose, Go, Closed
  <2>2. ASSUME NEW w \in Password, SubmitDetails(f, w) PROVE OnceInv'
    BY <2>2, <1>a DEF SubmitDetails, Idle, Claim, Register, Send, Spend
  <2>3. ASSUME NEW w \in Password, SubmitPassword(f, w) PROVE OnceInv'
    BY <2>3, <1>a DEF SubmitPassword, Idle, Register, Send, Spend
  <2>4. ASSUME NEW w \in Password, SubmitLogin(f, w) PROVE OnceInv'
    BY <2>4, <1>a DEF SubmitLogin, Idle, Claim, Login, Send
  <2>5. CASE SubmitEmail(f)
    BY <2>5, <1>a DEF SubmitEmail, Idle, Claim, Send
  <2>6. CASE Resend(f)
    BY <2>6, <1>a DEF Resend, Idle, SendCode, Send, Spend
  <2>7. CASE EnterCode(f)
    BY <2>7, <1>a DEF EnterCode, Idle, Send
  <2>8. CASE Refused(f)
    BY <2>8, <1>a DEF Refused, Idle, Aborted, Go, Closed
  <2>9. CASE Leave(f)
    BY <2>9, <1>a DEF Leave, Aborted, Go, Closed
  <2>10. CASE RegisterRejected(f)
    BY <2>10, <1>a DEF RegisterRejected, Answer, Spend, Done, NoCall
  <2>11. CASE RegisterUncertain(f)
    BY <2>11, <1>a DEF RegisterUncertain, Answer, Spend, Done, NoCall, Go, Closed
  <2>12. CASE Registered(f)
    BY <2>12, <1>a DEF Registered, Answer, Spend, Done, NoCall, Go, Closed, Login, Send
  <2>13. CASE LoginFails(f)
    BY <2>13, <1>a DEF LoginFails, Answer, Spend, Done, NoCall
  <2>14. CASE Save(f)
    BY <2>14, <1>a DEF Save, Answer, Spend, Done, NoCall, Aborted, Go, Closed
  <2>15. CASE PrepareFails(f)
    BY <2>15, <1>a DEF PrepareFails, Answer, Spend, Done, NoCall
  <2>16. CASE Prepared(f)
    BY <2>16, <1>a DEF Prepared, SendCode, Send, Spend
  <2>17. CASE CodeSent(f)
    BY <2>17, <1>a DEF CodeSent, Answer, Spend, Done, NoCall, Go, Closed
  <2>18. CASE SendRejected(f)
    BY <2>18, <1>a DEF SendRejected, Answer, Spend, Done, NoCall
  <2>19. CASE CodeVerified(f)
    BY <2>19, <1>a DEF CodeVerified, Answer, Spend, Done, NoCall, Go, Closed
  <2>20. CASE CodeRefused(f)
    BY <2>20, <1>a DEF CodeRefused, Answer, Spend, Done, NoCall
  <2> QED
    BY <1>a, <2>1, <2>2, <2>3, <2>4, <2>5, <2>6, <2>7, <2>8, <2>9, <2>10, <2>11, <2>12, <2>13, <2>14, <2>15, <2>16, <2>17, <2>18, <2>19, <2>20
       DEF User, Handler
<1>b. CASE Activate
  BY <1>b DEF Activate
<1>c. CASE Tick
  BY <1>c DEF Tick
<1> QED
  BY <1>a, <1>b, <1>c DEF Next

(* An account keeps accepting its password. *)
LEMMA LoginStep == ASSUME TypeOK, CallInv, LoginInv, Next PROVE LoginInv'
<1> USE DEF TypeOK, CallInv, LoginInv, Accepts, codeVars, cloudVars
<1>a. ASSUME NEW f \in Flow, User(f) \/ Handler(f) PROVE LoginInv'
  <2>1. ASSUME NEW p \in Provider, NEW s \in {"register", "login"}, Choose(f, p, s) PROVE LoginInv'
    BY <2>1, <1>a DEF Choose, Go, Closed
  <2>2. ASSUME NEW w \in Password, SubmitDetails(f, w) PROVE LoginInv'
    BY <2>2, <1>a DEF SubmitDetails, Idle, Claim, Register, Send, Spend
  <2>3. ASSUME NEW w \in Password, SubmitPassword(f, w) PROVE LoginInv'
    BY <2>3, <1>a DEF SubmitPassword, Idle, Register, Send, Spend
  <2>4. ASSUME NEW w \in Password, SubmitLogin(f, w) PROVE LoginInv'
    BY <2>4, <1>a DEF SubmitLogin, Idle, Claim, Login, Send
  <2>5. CASE SubmitEmail(f)
    BY <2>5, <1>a DEF SubmitEmail, Idle, Claim, Send
  <2>6. CASE Resend(f)
    BY <2>6, <1>a DEF Resend, Idle, SendCode, Send, Spend
  <2>7. CASE EnterCode(f)
    BY <2>7, <1>a DEF EnterCode, Idle, Send
  <2>8. CASE Refused(f)
    BY <2>8, <1>a DEF Refused, Idle, Aborted, Go, Closed
  <2>9. CASE Leave(f)
    BY <2>9, <1>a DEF Leave, Aborted, Go, Closed
  <2>10. CASE RegisterRejected(f)
    BY <2>10, <1>a DEF RegisterRejected, Answer, Spend, Done, NoCall
  <2>11. CASE RegisterUncertain(f)
    BY <2>11, <1>a DEF RegisterUncertain, Answer, Spend, Done, NoCall, Go, Closed
  <2>12. CASE Registered(f)
    BY <2>12, <1>a DEF Registered, Answer, Spend, Done, NoCall, Go, Closed, Login, Send
  <2>13. CASE LoginFails(f)
    BY <2>13, <1>a DEF LoginFails, Answer, Spend, Done, NoCall
  <2>14. CASE Save(f)
    BY <2>14, <1>a DEF Save, Answer, Spend, Done, NoCall, Aborted, Go, Closed
  <2>15. CASE PrepareFails(f)
    BY <2>15, <1>a DEF PrepareFails, Answer, Spend, Done, NoCall
  <2>16. CASE Prepared(f)
    BY <2>16, <1>a DEF Prepared, SendCode, Send, Spend
  <2>17. CASE CodeSent(f)
    BY <2>17, <1>a DEF CodeSent, Answer, Spend, Done, NoCall, Go, Closed
  <2>18. CASE SendRejected(f)
    BY <2>18, <1>a DEF SendRejected, Answer, Spend, Done, NoCall
  <2>19. CASE CodeVerified(f)
    BY <2>19, <1>a DEF CodeVerified, Answer, Spend, Done, NoCall, Go, Closed
  <2>20. CASE CodeRefused(f)
    BY <2>20, <1>a DEF CodeRefused, Answer, Spend, Done, NoCall
  <2> QED
    BY <1>a, <2>1, <2>2, <2>3, <2>4, <2>5, <2>6, <2>7, <2>8, <2>9, <2>10, <2>11, <2>12, <2>13, <2>14, <2>15, <2>16, <2>17, <2>18, <2>19, <2>20
       DEF User, Handler
<1>b. CASE Activate
  BY <1>b DEF Activate
<1>c. CASE Tick
  BY <1>c DEF Tick
<1> QED
  BY <1>a, <1>b, <1>c DEF Next

(* Only a successful login is saved. *)
LEMMA SavedStep == ASSUME TypeOK, LoginInv, SavedWorks, Next PROVE SavedWorks'
<1> USE DEF TypeOK, LoginInv, SavedWorks, Accepts, codeVars, cloudVars
<1>a. ASSUME NEW f \in Flow, User(f) \/ Handler(f) PROVE SavedWorks'
  <2>1. ASSUME NEW p \in Provider, NEW s \in {"register", "login"}, Choose(f, p, s) PROVE SavedWorks'
    BY <2>1, <1>a DEF Choose, Go, Closed
  <2>2. ASSUME NEW w \in Password, SubmitDetails(f, w) PROVE SavedWorks'
    BY <2>2, <1>a DEF SubmitDetails, Idle, Claim, Register, Send, Spend
  <2>3. ASSUME NEW w \in Password, SubmitPassword(f, w) PROVE SavedWorks'
    BY <2>3, <1>a DEF SubmitPassword, Idle, Register, Send, Spend
  <2>4. ASSUME NEW w \in Password, SubmitLogin(f, w) PROVE SavedWorks'
    BY <2>4, <1>a DEF SubmitLogin, Idle, Claim, Login, Send
  <2>5. CASE SubmitEmail(f)
    BY <2>5, <1>a DEF SubmitEmail, Idle, Claim, Send
  <2>6. CASE Resend(f)
    BY <2>6, <1>a DEF Resend, Idle, SendCode, Send, Spend
  <2>7. CASE EnterCode(f)
    BY <2>7, <1>a DEF EnterCode, Idle, Send
  <2>8. CASE Refused(f)
    BY <2>8, <1>a DEF Refused, Idle, Aborted, Go, Closed
  <2>9. CASE Leave(f)
    BY <2>9, <1>a DEF Leave, Aborted, Go, Closed
  <2>10. CASE RegisterRejected(f)
    BY <2>10, <1>a DEF RegisterRejected, Answer, Spend, Done, NoCall
  <2>11. CASE RegisterUncertain(f)
    BY <2>11, <1>a DEF RegisterUncertain, Answer, Spend, Done, NoCall, Go, Closed
  <2>12. CASE Registered(f)
    BY <2>12, <1>a DEF Registered, Answer, Spend, Done, NoCall, Go, Closed, Login, Send
  <2>13. CASE LoginFails(f)
    BY <2>13, <1>a DEF LoginFails, Answer, Spend, Done, NoCall
  <2>14. CASE Save(f)
    BY <2>14, <1>a DEF Save, Answer, Spend, Done, NoCall, Aborted, Go, Closed
  <2>15. CASE PrepareFails(f)
    BY <2>15, <1>a DEF PrepareFails, Answer, Spend, Done, NoCall
  <2>16. CASE Prepared(f)
    BY <2>16, <1>a DEF Prepared, SendCode, Send, Spend
  <2>17. CASE CodeSent(f)
    BY <2>17, <1>a DEF CodeSent, Answer, Spend, Done, NoCall, Go, Closed
  <2>18. CASE SendRejected(f)
    BY <2>18, <1>a DEF SendRejected, Answer, Spend, Done, NoCall
  <2>19. CASE CodeVerified(f)
    BY <2>19, <1>a DEF CodeVerified, Answer, Spend, Done, NoCall, Go, Closed
  <2>20. CASE CodeRefused(f)
    BY <2>20, <1>a DEF CodeRefused, Answer, Spend, Done, NoCall
  <2> QED
    BY <1>a, <2>1, <2>2, <2>3, <2>4, <2>5, <2>6, <2>7, <2>8, <2>9, <2>10, <2>11, <2>12, <2>13, <2>14, <2>15, <2>16, <2>17, <2>18, <2>19, <2>20
       DEF User, Handler
<1>b. CASE Activate
  BY <1>b DEF Activate
<1>c. CASE Tick
  BY <1>c DEF Tick
<1> QED
  BY <1>a, <1>b, <1>c DEF Next

(* An entry is saved only where there is none. *)
LEMMA EntryStep == ASSUME TypeOK, LoginInv, EntryInv, OneEntry, Next PROVE (EntryInv /\ OneEntry)'
<1> USE PasswordAssumption DEF TypeOK, EntryInv, OneEntry, MayClaim, codeVars, cloudVars
<1>a. ASSUME NEW f \in Flow, User(f) \/ Handler(f) PROVE (EntryInv /\ OneEntry)'
  <2>1. ASSUME NEW p \in Provider, NEW s \in {"register", "login"}, Choose(f, p, s) PROVE (EntryInv /\ OneEntry)'
    BY <2>1, <1>a DEF Choose, Go, Closed
  <2>2. ASSUME NEW w \in Password, SubmitDetails(f, w) PROVE (EntryInv /\ OneEntry)'
    BY <2>2, <1>a DEF SubmitDetails, Idle, Claim, Register, Send, Spend
  <2>3. ASSUME NEW w \in Password, SubmitPassword(f, w) PROVE (EntryInv /\ OneEntry)'
    BY <2>3, <1>a DEF SubmitPassword, Idle, Register, Send, Spend
  <2>4. ASSUME NEW w \in Password, SubmitLogin(f, w) PROVE (EntryInv /\ OneEntry)'
    BY <2>4, <1>a DEF SubmitLogin, Idle, Claim, Login, Send
  <2>5. CASE SubmitEmail(f)
    BY <2>5, <1>a DEF SubmitEmail, Idle, Claim, Send
  <2>6. CASE Resend(f)
    BY <2>6, <1>a DEF Resend, Idle, SendCode, Send, Spend
  <2>7. CASE EnterCode(f)
    BY <2>7, <1>a DEF EnterCode, Idle, Send
  <2>8. CASE Refused(f)
    BY <2>8, <1>a DEF Refused, Idle, Aborted, Go, Closed
  <2>9. CASE Leave(f)
    BY <2>9, <1>a DEF Leave, Aborted, Go, Closed
  <2>10. CASE RegisterRejected(f)
    BY <2>10, <1>a DEF RegisterRejected, Answer, Spend, Done, NoCall
  <2>11. CASE RegisterUncertain(f)
    BY <2>11, <1>a DEF RegisterUncertain, Answer, Spend, Done, NoCall, Go, Closed
  <2>12. CASE Registered(f)
    BY <2>12, <1>a DEF Registered, Answer, Spend, Done, NoCall, Go, Closed, Login, Send
  <2>13. CASE LoginFails(f)
    BY <2>13, <1>a DEF LoginFails, Answer, Spend, Done, NoCall
  <2>14. CASE Save(f)
    <3>1. call[f].password # None
      BY <2>14, <1>a DEF Save, Answer, LoginInv, Accepts
    <3>2. QED
      BY <2>14, <3>1, <1>a DEF Save, Aborted, Go, Closed
  <2>15. CASE PrepareFails(f)
    BY <2>15, <1>a DEF PrepareFails, Answer, Spend, Done, NoCall
  <2>16. CASE Prepared(f)
    BY <2>16, <1>a DEF Prepared, SendCode, Send, Spend
  <2>17. CASE CodeSent(f)
    BY <2>17, <1>a DEF CodeSent, Answer, Spend, Done, NoCall, Go, Closed
  <2>18. CASE SendRejected(f)
    BY <2>18, <1>a DEF SendRejected, Answer, Spend, Done, NoCall
  <2>19. CASE CodeVerified(f)
    BY <2>19, <1>a DEF CodeVerified, Answer, Spend, Done, NoCall, Go, Closed
  <2>20. CASE CodeRefused(f)
    BY <2>20, <1>a DEF CodeRefused, Answer, Spend, Done, NoCall
  <2> QED
    BY <1>a, <2>1, <2>2, <2>3, <2>4, <2>5, <2>6, <2>7, <2>8, <2>9, <2>10, <2>11, <2>12, <2>13, <2>14, <2>15, <2>16, <2>17, <2>18, <2>19, <2>20
       DEF User, Handler
<1>b. CASE Activate
  BY <1>b DEF Activate
<1>c. CASE Tick
  BY <1>c DEF Tick
<1> QED
  BY <1>a, <1>b, <1>c DEF Next

(* Time passes for the wait and for the history alike. *)
LEMMA SendStep == ASSUME TypeOK, SendInv, Next PROVE SendInv'
<1> USE CooldownAssumption DEF TypeOK, SendInv, codeVars, cloudVars
<1>a. ASSUME NEW f \in Flow, User(f) \/ Handler(f) PROVE SendInv'
  <2>1. ASSUME NEW p \in Provider, NEW s \in {"register", "login"}, Choose(f, p, s) PROVE SendInv'
    BY <2>1, <1>a DEF Choose, Go, Closed
  <2>2. ASSUME NEW w \in Password, SubmitDetails(f, w) PROVE SendInv'
    BY <2>2, <1>a DEF SubmitDetails, Idle, Claim, Register, Send, Spend
  <2>3. ASSUME NEW w \in Password, SubmitPassword(f, w) PROVE SendInv'
    BY <2>3, <1>a DEF SubmitPassword, Idle, Register, Send, Spend
  <2>4. ASSUME NEW w \in Password, SubmitLogin(f, w) PROVE SendInv'
    BY <2>4, <1>a DEF SubmitLogin, Idle, Claim, Login, Send
  <2>5. CASE SubmitEmail(f)
    <3>0. since' = since /\ wait' = wait /\ wait[f] = 0
      BY <2>5, Zenon DEF SubmitEmail
    <3>1. since[f] = Cooldown /\ since' = since /\ wait' = wait
      <4>1. since[f] \in 0..Cooldown /\ since[f] + wait[f] >= Cooldown
        OBVIOUS
      <4>2. QED
        BY <3>0, <4>1
    <3>2. call' = [call EXCEPT ![f] = call'[f]]
      BY <2>5 DEF SubmitEmail, Send
    <3>3. QED
      BY <3>1, <3>2
  <2>6. CASE Resend(f)
    BY <2>6, <1>a DEF Resend, Idle, SendCode, Send, Spend
  <2>7. CASE EnterCode(f)
    BY <2>7, <1>a DEF EnterCode, Idle, Send
  <2>8. CASE Refused(f)
    BY <2>8, <1>a DEF Refused, Idle, Aborted, Go, Closed
  <2>9. CASE Leave(f)
    BY <2>9, <1>a DEF Leave, Aborted, Go, Closed
  <2>10. CASE RegisterRejected(f)
    BY <2>10, <1>a DEF RegisterRejected, Answer, Spend, Done, NoCall
  <2>11. CASE RegisterUncertain(f)
    BY <2>11, <1>a DEF RegisterUncertain, Answer, Spend, Done, NoCall, Go, Closed
  <2>12. CASE Registered(f)
    BY <2>12, <1>a DEF Registered, Answer, Spend, Done, NoCall, Go, Closed, Login, Send
  <2>13. CASE LoginFails(f)
    BY <2>13, <1>a DEF LoginFails, Answer, Spend, Done, NoCall
  <2>14. CASE Save(f)
    BY <2>14, <1>a DEF Save, Answer, Spend, Done, NoCall, Aborted, Go, Closed
  <2>15. CASE PrepareFails(f)
    BY <2>15, <1>a DEF PrepareFails, Answer, Spend, Done, NoCall
  <2>16. CASE Prepared(f)
    BY <2>16, <1>a DEF Prepared, SendCode, Send, Spend
  <2>17. CASE CodeSent(f)
    BY <2>17, <1>a DEF CodeSent, Answer, Spend, Done, NoCall, Go, Closed
  <2>18. CASE SendRejected(f)
    BY <2>18, <1>a DEF SendRejected, Answer, Spend, Done, NoCall
  <2>19. CASE CodeVerified(f)
    BY <2>19, <1>a DEF CodeVerified, Answer, Spend, Done, NoCall, Go, Closed
  <2>20. CASE CodeRefused(f)
    BY <2>20, <1>a DEF CodeRefused, Answer, Spend, Done, NoCall
  <2> QED
    BY <1>a, <2>1, <2>2, <2>3, <2>4, <2>5, <2>6, <2>7, <2>8, <2>9, <2>10, <2>11, <2>12, <2>13, <2>14, <2>15, <2>16, <2>17, <2>18, <2>19, <2>20
       DEF User, Handler
<1>b. CASE Activate
  BY <1>b DEF Activate
<1>c. CASE Tick
  BY <1>c DEF Tick
<1> QED
  BY <1>a, <1>b, <1>c DEF Next

(* Who sends a registration or asks for a code. *)
LEMMA Senders ==
    ASSUME TypeOK, NEW f \in Flow, NEW g \in Flow, User(f) \/ Handler(f),
           call'[g].kind # call[g].kind
    PROVE  /\ call'[g].kind = "register" =>
                g = f /\ Idle(f) /\ screen[f] \in {"register", "password"}
           /\ call'[g].kind = "send" =>
                g = f /\ (wait[f] = 0 \/ call[f].kind = "prepare")
<1> DEFINE Goal == /\ call'[g].kind = "register" =>
                        g = f /\ Idle(f) /\ screen[f] \in {"register", "password"}
                   /\ call'[g].kind = "send" =>
                        g = f /\ (wait[f] = 0 \/ call[f].kind = "prepare")
<1> USE DEF TypeOK
<1> SUFFICES Goal
  OBVIOUS
<1>1. ASSUME NEW p \in Provider, NEW s \in {"register", "login"}, Choose(f, p, s) PROVE Goal
  BY <1>1 DEF Choose
<1>2. ASSUME NEW w \in Password, SubmitDetails(f, w) PROVE Goal
  BY <1>2 DEF SubmitDetails, Idle, Register, Send
<1>3. ASSUME NEW w \in Password, SubmitPassword(f, w) PROVE Goal
  BY <1>3 DEF SubmitPassword, Idle, Register, Send
<1>4. ASSUME NEW w \in Password, SubmitLogin(f, w) PROVE Goal
  BY <1>4 DEF SubmitLogin, Idle, Login, Send
<1>5. CASE SubmitEmail(f)
  BY <1>5 DEF SubmitEmail, Idle, Send
<1>6. CASE Resend(f)
  BY <1>6 DEF Resend, Idle, SendCode, Send
<1>7. CASE EnterCode(f)
  BY <1>7 DEF EnterCode, Idle, Send
<1>8. CASE Refused(f)
  BY <1>8 DEF Refused, Idle
<1>9. CASE Leave(f)
  BY <1>9 DEF Leave
<1>10. CASE RegisterRejected(f)
  BY <1>10 DEF RegisterRejected, Done, NoCall
<1>11. CASE RegisterUncertain(f)
  BY <1>11 DEF RegisterUncertain, Done, NoCall
<1>12. CASE Registered(f)
  BY <1>12 DEF Registered, Login, Send, Done, NoCall
<1>13. CASE LoginFails(f)
  BY <1>13 DEF LoginFails, Done, NoCall
<1>14. CASE Save(f)
  BY <1>14 DEF Save, Done, NoCall
<1>15. CASE PrepareFails(f)
  BY <1>15 DEF PrepareFails, Done, NoCall
<1>16. CASE Prepared(f)
  BY <1>16 DEF Prepared, SendCode, Send
<1>17. CASE CodeSent(f)
  BY <1>17 DEF CodeSent, Done, NoCall
<1>18. CASE SendRejected(f)
  BY <1>18 DEF SendRejected, Done, NoCall
<1>19. CASE CodeVerified(f)
  BY <1>19 DEF CodeVerified, Done, NoCall
<1>20. CASE CodeRefused(f)
  BY <1>20 DEF CodeRefused, Done, NoCall
<1> QED
  BY <1>1, <1>2, <1>3, <1>4, <1>5, <1>6, <1>7, <1>8, <1>9, <1>10, <1>11, <1>12, <1>13, <1>14, <1>15, <1>16, <1>17, <1>18, <1>19, <1>20
     DEF User, Handler

(* Every step keeps the invariant. *)
LEMMA StepInv == ASSUME IInv, [Next]_vars PROVE IInv'
<1>1. CASE Next
  BY <1>1, TypeStep, CallStep, OnceStep, LoginStep, SavedStep, EntryStep, SendStep DEF IInv
<1>2. CASE UNCHANGED vars
  BY <1>2, StutterInv
<1>3. QED
  BY <1>1, <1>2

-----------------------------------------------------------------------------
(* The invariant holds always. *)
LEMMA Inductive == Spec => []IInv
<1>1. IInv /\ [Next]_vars => IInv'
  BY StepInv
<1>2. QED
  BY InitInv, <1>1, PTL DEF Spec

(* Every variable of the account flows keeps its type. *)
THEOREM TypeCorrect == Spec => []TypeOK
<1>1. IInv => TypeOK
  BY DEF IInv
<1>2. QED
  BY Inductive, <1>1, PTL

(* What is saved can be used: a saved password is that of an activated      *)
(* account, through any interleaving of flows and lost answers.            *)
THEOREM SavedWorksAlways == Spec => []SavedWorks
<1>1. IInv => SavedWorks
  BY DEF IInv
<1>2. QED
  BY Inductive, <1>1, PTL

(* No two flows save an entry for one account. *)
THEOREM OneEntryAlways == Spec => []OneEntry
<1>1. IInv => OneEntry
  BY DEF IInv
<1>2. QED
  BY Inductive, <1>1, PTL

(* Only the two forms register, and neither is shown again after a          *)
(* registration that may have worked.                                      *)
THEOREM RegistersOnceAlways == Spec => RegistersOnce
<1>1. ASSUME IInv, [Next]_vars
      PROVE  [\A f \in Flow :
                call'[f].kind = "register" /\ call[f].kind # "register" => ~mayExist[f]]_vars
  <2> USE DEF IInv
  <2>1. CASE UNCHANGED vars
    BY <2>1
  <2>2. ASSUME NEW f \in Flow, User(f) \/ Handler(f)
        PROVE  \A g \in Flow :
                 call'[g].kind = "register" /\ call[g].kind # "register" => ~mayExist[g]
    <3> SUFFICES ASSUME NEW g \in Flow, call'[g].kind = "register", call[g].kind # "register"
                 PROVE  ~mayExist[g]
      OBVIOUS
    <3>1. g = f /\ Idle(f) /\ screen[f] \in {"register", "password"}
      BY <1>1, <2>2, Senders
    <3>2. QED
      BY <1>1, <3>1 DEF Idle, OnceInv
  <2>3. CASE Activate \/ Tick
    BY <2>3 DEF Activate, Tick
  <2>4. QED
    BY <1>1, <2>1, <2>2, <2>3 DEF Next
<1>2. QED
  BY Inductive, <1>1, PTL DEF Spec, RegistersOnce

(* A code is requested only when the wait, and so the cooldown, is over. *)
THEOREM SendsApartAlways == Spec => SendsApart
<1>1. ASSUME IInv, [Next]_vars
      PROVE  [\A f \in Flow :
                call'[f].kind = "send" /\ call[f].kind # "send" => since[f] = Cooldown]_vars
  <2> USE DEF IInv
  <2>1. CASE UNCHANGED vars
    BY <2>1
  <2>2. ASSUME NEW f \in Flow, User(f) \/ Handler(f)
        PROVE  \A g \in Flow :
                 call'[g].kind = "send" /\ call[g].kind # "send" => since[g] = Cooldown
    <3> SUFFICES ASSUME NEW g \in Flow, call'[g].kind = "send", call[g].kind # "send"
                 PROVE  since[g] = Cooldown
      OBVIOUS
    <3>1. g = f /\ (wait[f] = 0 \/ call[f].kind = "prepare")
      BY <1>1, <2>2, Senders
    <3>2. since[f] \in 0..Cooldown /\ since[f] + wait[f] >= Cooldown
      BY <1>1 DEF TypeOK, SendInv
    <3>3. CASE wait[f] = 0
      BY <3>1, <3>2, <3>3, CooldownAssumption
    <3>4. CASE call[f].kind = "prepare"
      BY <1>1, <3>1, <3>4 DEF SendInv
    <3>5. QED
      BY <3>1, <3>3, <3>4
  <2>3. CASE Activate \/ Tick
    BY <2>3 DEF Activate, Tick
  <2>4. QED
    BY <1>1, <2>1, <2>2, <2>3 DEF Next
<1>2. QED
  BY Inductive, <1>1, PTL DEF Spec, SendsApart

=============================================================================
