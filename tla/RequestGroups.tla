--------------------------- MODULE RequestGroups ---------------------------
(***************************************************************************)
(* Which optional data a refresh asks the device for (coordinator.py): an  *)
(* entity registers its group (energy, or group 1, 2, 5, 7 or 11) when it  *)
(* is added to Home Assistant and unregisters it when it is removed.  The  *)
(* coordinator counts the entities and keeps the device's flag.            *)
(***************************************************************************)
EXTENDS Integers, FiniteSets

CONSTANTS
    Entity,     \* entities that rely on optional data
    Group,      \* groups of optional data
    GroupOf,    \* GroupOf[e]: the group entity e relies on
    Supported   \* the groups the device class has a flag for

ASSUME EntityAssumption == IsFiniteSet(Entity)
ASSUME GroupAssumption  == GroupOf \in [Entity -> Group]
ASSUME SupportedAssumption == Supported \subseteq Group

VARIABLES
    phase,      \* "absent", "adding", "added" or "removing", for each entity
    count,      \* _energy_sensors, _group<n>_entities
    enabled     \* device.enable_..._requests

vars == <<phase, count, enabled>>

Init ==
    /\ phase = [e \in Entity |-> "absent"]
    /\ count = [g \in Group |-> 0]
    /\ enabled = [g \in Group |-> FALSE]

Shift(e, from, to) == phase[e] = from /\ phase' = [phase EXCEPT ![e] = to]

(* async_added_to_hass and async_will_remove_from_hass first await the base *)
(* class; then they register or unregister, which raises TypeError for a    *)
(* group the device does not have.                                         *)
Add(e) == Shift(e, "absent", "adding") /\ UNCHANGED <<count, enabled>>

Register(e) ==
    /\ Shift(e, "adding", "added")
    /\ IF GroupOf[e] \in Supported
       THEN /\ count' = [count EXCEPT ![GroupOf[e]] = @ + 1]
            /\ enabled' = [enabled EXCEPT ![GroupOf[e]] = TRUE]
       ELSE UNCHANGED <<count, enabled>>

Remove(e) == Shift(e, "added", "removing") /\ UNCHANGED <<count, enabled>>

\* Slip: the first entity to go turns the requests off.
UnregisterFirst(e) ==
    /\ Shift(e, "removing", "absent")
    /\ IF GroupOf[e] \in Supported
       THEN /\ count' = [count EXCEPT ![GroupOf[e]] = @ - 1]
            /\ enabled' = [enabled EXCEPT ![GroupOf[e]] = FALSE]
       ELSE UNCHANGED <<count, enabled>>

Unregister(e) ==
    /\ Shift(e, "removing", "absent")
    /\ IF GroupOf[e] \in Supported
       THEN /\ count' = [count EXCEPT ![GroupOf[e]] = @ - 1]
            /\ enabled' = [enabled EXCEPT ![GroupOf[e]] = count[GroupOf[e]] - 1 > 0]
       ELSE UNCHANGED <<count, enabled>>

Next == \E e \in Entity : Add(e) \/ Register(e) \/ Remove(e) \/ Unregister(e)

Spec == Init /\ [][Next]_vars
-----------------------------------------------------------------------------
(* The registered entities of a group. *)
Users(g) ==
    {e \in Entity : phase[e] \in {"added", "removing"} /\ GroupOf[e] = g /\ g \in Supported}

(* Every variable keeps its type: no count goes below zero. *)
TypeOK ==
    /\ phase \in [Entity -> {"absent", "adding", "added", "removing"}]
    /\ count \in [Group -> Nat]
    /\ enabled \in [Group -> BOOLEAN]

(* A refresh asks for a group exactly while some entity is registered for   *)
(* it, in whatever order entities come and go (test_coordinator.py:230).    *)
RequestsFollowEntities ==
    \A g \in Group : enabled[g] <=> Users(g) # {}

(* What makes it inductive: the counts are exact. *)
CountsExact == \A g \in Group : count[g] = Cardinality(Users(g))

IInv ==
    /\ TypeOK
    /\ RequestsFollowEntities
    /\ CountsExact
=============================================================================
