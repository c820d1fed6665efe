------------------------ MODULE RequestGroupsProofs ------------------------
(***************************************************************************)
(* The refresh asks for a group exactly while somebody needs it, for any   *)
(* finite set of entities and any groups.                                  *)
(***************************************************************************)
EXTENDS RequestGroups, FiniteSetTheorems, TLAPS

(* A group has finitely many users. *)
LEMMA UsersFinite ==
    \A g : IsFiniteSet(Users(g))
<1>1. \A g : Users(g) \subseteq Entity
  BY DEF Users
<1>2. QED
  BY <1>1, EntityAssumption, FS_Subset

(* The empty configuration satisfies the inductive invariant. *)
LEMMA GroupsInit == Init => IInv
<1>1. ASSUME Init PROVE \A g : Users(g) = {}
  BY <1>1 DEF Init, Users
<1>2. ASSUME Init PROVE IInv
  BY <1>1, <1>2, FS_EmptySet DEF Init, IInv, TypeOK, RequestsFollowEntities, CountsExact
<1>3. QED
  BY <1>2

(* A step that leaves every group's users, the counts and the flags alone   *)
(* keeps the invariant.                                                    *)
LEMMA GroupsUntouched ==
    ASSUME IInv, UNCHANGED <<count, enabled>>,
           \A g \in Group : Users(g)' = Users(g),
           phase' \in [Entity -> {"absent", "adding", "added", "removing"}]
    PROVE  IInv'
<1>1. TypeOK'
  BY DEF IInv, TypeOK
<1>2. RequestsFollowEntities'
  BY DEF IInv, RequestsFollowEntities
<1>3. CountsExact'
  BY DEF IInv, CountsExact
<1>4. QED
  BY <1>1, <1>2, <1>3 DEF IInv

(* Every step keeps the counts exact and the flags in line with them. *)
LEMMA GroupsStep == IInv /\ [Next]_vars => IInv'
<1> SUFFICES ASSUME IInv, [Next]_vars PROVE IInv'
  OBVIOUS
<1> USE GroupAssumption, SupportedAssumption
<1>1. ASSUME NEW e \in Entity, Add(e) PROVE IInv'
  <2>1. \A g \in Group : Users(g)' = Users(g)
    BY <1>1 DEF Add, Shift, Users, IInv, TypeOK
  <2>2. QED
    BY <1>1, <2>1, GroupsUntouched DEF Add, Shift, IInv, TypeOK
<1>2. ASSUME NEW e \in Entity, Register(e) PROVE IInv'
  <2> DEFINE h == GroupOf[e]
  <2>1. CASE h \notin Supported
    <3>1. \A g \in Group : Users(g)' = Users(g)
      BY <1>2, <2>1 DEF Register, Shift, Users, IInv, TypeOK
    <3>2. QED
      BY <1>2, <2>1, <3>1, GroupsUntouched DEF Register, Shift, IInv, TypeOK
  <2>2. CASE h \in Supported
    <3>1. Users(h)' = Users(h) \cup {e} /\ e \notin Users(h)
      BY <1>2, <2>2 DEF Register, Shift, Users, IInv, TypeOK
    <3>2. \A g \in Group \ {h} : Users(g)' = Users(g)
      BY <1>2, <2>2 DEF Register, Shift, Users, IInv, TypeOK
    <3>3. Cardinality(Users(h)') = Cardinality(Users(h)) + 1
      BY <3>1, UsersFinite, FS_AddElement
    <3>4. TypeOK'
      <4>1. enabled' \in [Group -> BOOLEAN]
        BY <1>2, <2>2, Zenon DEF Register, IInv, TypeOK
      <4>2. QED
        BY <1>2, <2>2, <4>1 DEF Register, Shift, IInv, TypeOK
    <3>5. RequestsFollowEntities'
      BY <1>2, <2>2, <3>1, <3>2 DEF Register, IInv, TypeOK, RequestsFollowEntities
    <3>6. CountsExact'
      BY <1>2, <2>2, <3>2, <3>3 DEF Register, IInv, TypeOK, CountsExact
    <3>7. QED
      BY <3>4, <3>5, <3>6 DEF IInv
  <2>3. QED
    BY <2>1, <2>2
<1>3. ASSUME NEW e \in Entity, Remove(e) PROVE IInv'
  <2>1. \A g \in Group : Users(g)' = Users(g)
    BY <1>3 DEF Remove, Shift, Users, IInv, TypeOK
  <2>2. QED
    BY <1>3, <2>1, GroupsUntouched DEF Remove, Shift, IInv, TypeOK
<1>4. ASSUME NEW e \in Entity, Unregister(e) PROVE IInv'
  <2> DEFINE h == GroupOf[e]
  <2>1. CASE h \notin Supported
    <3>1. \A g \in Group : Users(g)' = Users(g)
      BY <1>4, <2>1 DEF Unregister, Shift, Users, IInv, TypeOK
    <3>2. QED
      BY <1>4, <2>1, <3>1, GroupsUntouched DEF Unregister, Shift, IInv, TypeOK
  <2>2. CASE h \in Supported
    <3>1. Users(h)' = Users(h) \ {e} /\ e \in Users(h)
      BY <1>4, <2>2 DEF Unregister, Shift, Users, IInv, TypeOK
    <3>2. \A g \in Group \ {h} : Users(g)' = Users(g)
      BY <1>4, <2>2 DEF Unregister, Shift, Users, IInv, TypeOK
    <3>3. Cardinality(Users(h)') = Cardinality(Users(h)) - 1
      BY <3>1, UsersFinite, FS_RemoveElement
    <3>4. /\ Cardinality(Users(h)) \in Nat \ {0}
          /\ Cardinality(Users(h)) - 1 = 0 <=> Users(h)' = {}
      <4>1. IsFiniteSet(Users(h)) /\ IsFiniteSet(Users(h)')
        BY <3>1, UsersFinite, FS_RemoveElement
      <4>2. Cardinality(Users(h)) \in Nat /\ Cardinality(Users(h)') \in Nat
        BY <4>1, FS_CardinalityType
      <4>3. Cardinality(Users(h)') = 0 <=> Users(h)' = {}
        BY <4>1, FS_EmptySet
      <4>4. QED
        BY <3>1, <3>3, <4>1, <4>2, <4>3, FS_EmptySet
    <3>5. count[h] = Cardinality(Users(h))
      BY <2>2 DEF IInv, CountsExact
    <3>6. TypeOK'
      <4>1. enabled' \in [Group -> BOOLEAN]
        <5>1. (count[h] - 1 > 0) \in BOOLEAN
          BY <3>4, <3>5
        <5>2. enabled' = [enabled EXCEPT ![h] = count[h] - 1 > 0]
          BY <1>4, <2>2 DEF Unregister
        <5>3. enabled \in [Group -> BOOLEAN]
          BY DEF IInv, TypeOK
        <5>4. QED
          BY <5>1, <5>2, <5>3, Zenon
      <4>2. count' \in [Group -> Nat]
        BY <1>4, <2>2, <3>4, <3>5 DEF Unregister, IInv, TypeOK
      <4>3. QED
        BY <1>4, <4>1, <4>2 DEF Unregister, Shift, IInv, TypeOK
    <3>7. RequestsFollowEntities'
      <4>1. enabled'[h] <=> Users(h)' # {}
        <5>1. enabled'[h] <=> count[h] - 1 > 0
          BY <1>4, <2>2, Zenon DEF Unregister, IInv, TypeOK
        <5>2. count[h] - 1 > 0 <=> Users(h)' # {}
          BY <3>4, <3>5
        <5>3. QED
          BY <5>1, <5>2
      <4>2. QED
        BY <1>4, <2>2, <3>2, <4>1 DEF Unregister, IInv, TypeOK, RequestsFollowEntities
    <3>8. CountsExact'
      BY <1>4, <2>2, <3>2, <3>3, <3>5 DEF Unregister, IInv, TypeOK, CountsExact
    <3>9. QED
      BY <3>6, <3>7, <3>8 DEF IInv
  <2>3. QED
    BY <2>1, <2>2
<1>5. CASE UNCHANGED vars
  BY <1>5 DEF vars, IInv, TypeOK, RequestsFollowEntities, CountsExact, Users
<1>6. QED
  BY <1>1, <1>2, <1>3, <1>4, <1>5 DEF Next

(* For any finite set of entities, no count goes below zero and a refresh   *)
(* asks for a group exactly while some entity is registered for it.         *)
THEOREM RequestsFollowAlways == Spec => [](TypeOK /\ RequestsFollowEntities)
<1>1. IInv => TypeOK /\ RequestsFollowEntities
  BY DEF IInv
<1>2. QED
  BY <1>1, GroupsInit, GroupsStep, PTL DEF Spec
=============================================================================
