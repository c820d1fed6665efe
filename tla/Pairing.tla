------------------------------ MODULE Pairing ------------------------------
(***************************************************************************)
(* What bringing an air conditioner into Home Assistant comes to, without  *)
(* screens, stages, lost messages and retries: each change of the          *)
(* appliance or of the cloud is made once, and what is linked stays as it  *)
(* is until its entry is created.                                          *)
(***************************************************************************)
CONSTANTS
    Account,    \* accounts the appliance can be linked to
    Smart,      \* those that want a confirmation at the appliance
    Wifi,       \* credentials it can be given
    None

VARIABLES
    given,      \* credentials of this pairing the appliance has not refused
    owner,      \* the account the cloud has it linked to
    confirmed,  \* was that link confirmed at the appliance?
    asked,      \* a confirmation is under way
    linked,     \* the account the pairing counts as linked to
    entry       \* was the entry created?

vars == <<given, owner, confirmed, asked, linked, entry>>

Open == linked = None /\ ~entry

Give(w) ==
    /\ Open /\ given = None
    /\ given' = w
    /\ UNCHANGED <<owner, confirmed, asked, linked, entry>>

Refuse ==
    /\ given' = None
    /\ UNCHANGED <<owner, confirmed, asked, linked, entry>>

(* By this pairing, or with the vendor's application. *)
Own(a) ==
    /\ linked = None /\ owner # a
    /\ owner' = a
    /\ confirmed' \in BOOLEAN
    /\ UNCHANGED <<given, asked, linked, entry>>

Ask ==
    /\ Open /\ ~asked /\ ~confirmed
    /\ asked' = TRUE
    /\ UNCHANGED <<given, owner, confirmed, linked, entry>>

Confirm ==
    /\ asked /\ ~confirmed
    /\ confirmed' = TRUE
    /\ UNCHANGED <<given, owner, asked, linked, entry>>

Link(a) ==
    /\ Open /\ owner = a
    /\ a \in Smart => confirmed
    /\ linked' = a
    /\ UNCHANGED <<given, owner, confirmed, asked, entry>>

(* An entry is for an appliance that was linked, or left as it was found. *)
Create ==
    /\ ~entry
    /\ linked # None \/ given = None
    /\ entry' = TRUE
    /\ UNCHANGED <<given, owner, confirmed, asked, linked>>

(* The user gives up the confirmation, or the pairing, for a new one. *)
StartOver ==
    /\ Open
    /\ asked' = FALSE
    /\ given' \in {given, None}
    /\ UNCHANGED <<owner, confirmed, linked, entry>>

Init ==
    /\ given = None
    /\ owner \in Account \cup {None}
    /\ confirmed \in BOOLEAN
    /\ asked = FALSE
    /\ linked = None
    /\ entry = FALSE

Next ==
    \/ \E w \in Wifi : Give(w)
    \/ Refuse
    \/ \E a \in Account : Own(a) \/ Link(a)
    \/ Ask
    \/ Confirm
    \/ Create
    \/ StartOver

Spec == Init /\ [][Next]_vars
=============================================================================
