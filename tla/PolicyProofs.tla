---------------------------- MODULE PolicyProofs ----------------------------
(***************************************************************************)
(* The permission resolver computes its declarative definition, for every  *)
(* policy, subject, page and action, and what follows from that.           *)
(***************************************************************************)
EXTENDS Policy, TLAPS

-----------------------------------------------------------------------------
(* The lists and the maps built from them.                                 *)

\* The lists of a policy are lists of role policies.
LEMMA Lists ==
  ASSUME TypeOK
  PROVE  /\ input \in PolicyInput
         /\ input.roles \in Seq(RolePolicy)
         /\ input.category_overrides \in Seq(RolePolicy)
         /\ subject \in PolicySubject
         /\ subject.role_ids \subseteq Nat
BY PolicyAssumption DEF TypeOK, PolicyInput, PolicySubject

\* A map built from a whole list says of a role what the list says of it.
LEMMA BuiltMeaning ==
  ASSUME NEW entries \in Seq(RolePolicy), NEW map, Built(map, entries, Len(entries)),
         NEW id, NEW a
  PROVE  /\ id \in DOMAIN map =>
              /\ map[id] \in RolePolicy
              /\ Allows(entries, id, a) <=> a \in map[id].allows
              /\ Restricts(entries, id, a) <=> a \in map[id].restrictions
         /\ id \notin DOMAIN map => ~Allows(entries, id, a) /\ ~Restricts(entries, id, a)
<1>1. DOMAIN entries = 1 .. Len(entries)
  OBVIOUS
<1>2. \A i \in DOMAIN entries : entries[i] \in RolePolicy
  OBVIOUS
<1>3. \A i \in DOMAIN entries : map[entries[i].role_id] = entries[i]
  BY <1>1 DEF Built
<1>4. id \in DOMAIN map <=> \E i \in DOMAIN entries : entries[i].role_id = id
  BY <1>1 DEF Built
<1> QED
  BY <1>2, <1>3, <1>4 DEF Allows, Restricts

\* One more entry, of a role that the map does not have.
LEMMA BuiltInsert ==
  ASSUME NEW entries \in Seq(RolePolicy), NEW map, NEW n \in 1 .. Len(entries),
         Built(map, entries, n - 1), entries[n].role_id \notin DOMAIN map
  PROVE  Built(Insert(map, entries[n].role_id, entries[n]), entries, n)
<1> DEFINE bigger == Insert(map, entries[n].role_id, entries[n])
<1>1. 1 .. n = (1 .. n - 1) \cup {n}
  OBVIOUS
<1>2. DOMAIN bigger = {entries[i].role_id : i \in 1 .. n}
  BY <1>1 DEF Built, Insert
<1>3. ~Repeats(entries, n)
  BY DEF Built, Repeats
<1>4. \A i \in 1 .. n : bigger[entries[i].role_id] = entries[i] /\ ~Repeats(entries, i)
  BY <1>1, <1>3 DEF Built, Insert
<1> QED
  BY <1>2, <1>4 DEF Built

\* A map knows the roles of the list it was built from.
LEMMA RolesKnown ==
  ASSUME TypeOK, RolesBuilt, NEW id
  PROVE  id \in DOMAIN roles <=> Known(input, id)
<1>1. DOMAIN input.roles = 1 .. Len(input.roles)
  BY Lists
<1> QED
  BY <1>1 DEF RolesBuilt, Built, Known

\* The grants that the code gives to a role are those it is defined to have.
LEMMA RoleGrantsMeaning ==
  ASSUME TypeOK, RolesBuilt, OverridesBuilt, NEW id \in DOMAIN roles
  PROVE  RoleGrants(id) = {a \in Action : Grants(input, id, a)}
<1>1. /\ input.roles \in Seq(RolePolicy)
      /\ input.category_overrides \in Seq(RolePolicy)
  BY Lists
<1>2. \A a : /\ Allows(input.roles, id, a) <=> a \in roles[id].allows
             /\ Restricts(input.roles, id, a) <=> a \in roles[id].restrictions
  BY <1>1, BuiltMeaning DEF RolesBuilt
<1>3. roles[id].allows \subseteq Action
  BY DEF TypeOK, IsMap, RolePolicy
<1>4. CASE id \in DOMAIN overrides
  <2>1. \A a : /\ Allows(input.category_overrides, id, a) <=> a \in overrides[id].allows
               /\ Restricts(input.category_overrides, id, a) <=> a \in overrides[id].restrictions
    BY <1>1, <1>4, BuiltMeaning DEF OverridesBuilt
  <2>2. overrides[id].allows \subseteq Action
    BY <1>4 DEF TypeOK, IsMap, RolePolicy
  <2> QED
    BY <1>2, <1>3, <1>4, <2>1, <2>2 DEF RoleGrants, Grants
<1>5. CASE id \notin DOMAIN overrides
  <2>1. \A a : /\ ~Allows(input.category_overrides, id, a)
               /\ ~Restricts(input.category_overrides, id, a)
    BY <1>1, <1>5, BuiltMeaning DEF OverridesBuilt
  <2> QED
    BY <1>2, <1>3, <1>5, <2>1 DEF RoleGrants, Grants
<1> QED
  BY <1>4, <1>5

\* The least element of a set of numbers is its Min.
LEMMA LeastIsMin ==
  ASSUME NEW S \in SUBSET Nat, NEW n \in S, \A m \in S : n <= m
  PROVE  Min(S) = n
<1>1. \E x \in S : \A y \in S : x <= y
  OBVIOUS
<1>2. PICK m : m = Min(S) /\ m \in S /\ \A y \in S : m <= y
  BY <1>1, Zenon DEF Min
<1>3. m <= n /\ n <= m
  BY <1>2
<1>4. m = n
  BY <1>2, <1>3
<1> QED
  BY <1>2, <1>4, Zenon

-----------------------------------------------------------------------------
(* The types.                                                              *)

\* Every decision that the code returns is a decision.
LEMMA Decisions ==
  /\ \A kind \in {"InactiveAccount", "Superuser", "AuthorGrant", "PageLocked", "NoGrant"} :
       Allow(Because(kind)) \in Decision /\ Deny(Because(kind)) \in Decision
  /\ \A id \in GroupId : Allow(BecauseOf("RoleGrant", id)) \in Decision
  /\ \A id \in GroupId, kind \in InvalidReasons : Deny(BecauseOf(kind, id)) \in Decision
BY DEF Allow, Deny, Because, BecauseOf, Decision, Reasons, InvalidReasons

\* A return keeps everything but the decision.
LEMMA ReturnType ==
  ASSUME TypeOK, NEW d \in Decision, Return(d)
  PROVE  TypeOK'
BY DEF Return, TypeOK, arguments, maps, IsMap

\* An entry of a list is a role policy with an identifier.
LEMMA EntryType ==
  ASSUME NEW entries \in Seq(RolePolicy), NEW n \in 1 .. Len(entries)
  PROVE  entries[n] \in RolePolicy /\ entries[n].role_id \in GroupId
<1>1. entries[n] \in RolePolicy
  OBVIOUS
<1> QED
  BY <1>1 DEF RolePolicy

\* TypeOK is preserved by every step.
LEMMA TypeStep ==
  ASSUME TypeOK, [Next]_vars
  PROVE  TypeOK'
<1> USE DEF arguments, maps
<1>1. CASE CheckAccount
  <2>1. CASE Return(Deny(Because("InactiveAccount"))) \/ Return(Allow(Because("Superuser")))
    BY <2>1, ReturnType, Decisions
  <2>2. CASE pc' = "roles" /\ UNCHANGED <<arguments, next, maps, unvisited, grants, decision>>
    BY <2>2 DEF TypeOK, IsMap
  <2> QED
    BY <1>1, <2>1, <2>2 DEF CheckAccount
<1>2. CASE InsertRole
  <2> DEFINE role == input.roles[next]
  <2>1. role \in RolePolicy /\ role.role_id \in GroupId
    BY <1>2, Lists, EntryType DEF InsertRole, TypeOK
  <2>2. CASE role.role_id \in DOMAIN roles
    BY <1>2, <2>1, <2>2, ReturnType, Decisions DEF InsertRole, InvalidReasons
  <2>3. CASE role.role_id \notin DOMAIN roles
    <3>1. roles' = Insert(roles, role.role_id, role)
      BY <1>2, <2>3 DEF InsertRole
    <3>2. IsMap(roles)'
      BY <2>1, <3>1 DEF TypeOK, IsMap, Insert
    <3> QED
      BY <1>2, <2>3, <3>2 DEF InsertRole, TypeOK, IsMap
  <2> QED
    BY <2>2, <2>3
<1>3. CASE InsertOverride
  <2> DEFINE override == input.category_overrides[next]
  <2>1. override \in RolePolicy /\ override.role_id \in GroupId
    BY <1>3, Lists, EntryType DEF InsertOverride, TypeOK
  <2>2. CASE override.role_id \notin DOMAIN roles
    BY <1>3, <2>1, <2>2, ReturnType, Decisions DEF InsertOverride, InvalidReasons
  <2>3. CASE override.role_id \in DOMAIN roles /\ override.role_id \in DOMAIN overrides
    BY <1>3, <2>1, <2>3, ReturnType, Decisions DEF InsertOverride, InvalidReasons
  <2>4. CASE override.role_id \in DOMAIN roles /\ override.role_id \notin DOMAIN overrides
    <3>1. overrides' = Insert(overrides, override.role_id, override)
      BY <1>3, <2>4 DEF InsertOverride
    <3>2. IsMap(overrides)'
      BY <2>1, <3>1 DEF TypeOK, IsMap, Insert
    <3> QED
      BY <1>3, <2>4, <3>2 DEF InsertOverride, TypeOK, IsMap
  <2> QED
    BY <2>2, <2>3, <2>4
<1>4. CASE RolesDone \/ OverridesDone \/ SubjectDone
  BY <1>4 DEF RolesDone, OverridesDone, SubjectDone, TypeOK, IsMap
<1>5. ASSUME NEW id \in GroupId, CheckSubjectRole(id)
      PROVE  TypeOK'
  <2>1. CASE id \notin DOMAIN roles
    BY <1>5, <2>1, ReturnType, Decisions DEF CheckSubjectRole, InvalidReasons
  <2>2. CASE id \in DOMAIN roles
    BY <1>5, <2>2 DEF CheckSubjectRole, TypeOK, IsMap
  <2> QED
    BY <2>1, <2>2
<1>6. ASSUME NEW id \in GroupId, MergeRole(id)
      PROVE  TypeOK'
  <2>1. CASE id \in DOMAIN roles
    <3>1. RoleGrants(id) \subseteq Action
      BY <2>1 DEF RoleGrants, TypeOK, IsMap, RolePolicy
    <3>2. grants' = [a \in DOMAIN grants \cup RoleGrants(id) |->
                       IF a \in DOMAIN grants THEN grants[a] ELSE id]
      BY <1>6, <2>1 DEF MergeRole
    <3>3. DOMAIN grants' \subseteq Action /\ \A a \in DOMAIN grants' : grants'[a] \in GroupId
      BY <3>1, <3>2 DEF TypeOK
    <3> QED
      BY <1>6, <3>3 DEF MergeRole, TypeOK, IsMap
  <2>2. CASE id \notin DOMAIN roles
    BY <1>6, <2>2 DEF MergeRole, TypeOK, IsMap
  <2> QED
    BY <2>1, <2>2
<1>7. CASE Decide
  <2>1. CASE action \in DOMAIN grants
    <3>1. grants[action] \in GroupId
      BY <2>1 DEF TypeOK
    <3> QED
      BY <1>7, <2>1, <3>1, ReturnType, Decisions DEF Decide
  <2>2. CASE action \notin DOMAIN grants
    BY <1>7, <2>2, ReturnType, Decisions DEF Decide
  <2> QED
    BY <2>1, <2>2
<1>8. ASSUME NEW id \in GroupId, AskAgain(id)
      PROVE  TypeOK'
  <2>1. subject' \in PolicySubject
    BY <1>8, Lists DEF AskAgain, PolicySubject
  <2>2. decision' \in Decision
    BY <1>8, Decisions DEF AskAgain
  <2>3. earlier' \in BOOLEAN
    BY <1>8 DEF AskAgain, TypeOK, Decision
  <2> QED
    BY <1>8, <2>1, <2>2, <2>3 DEF AskAgain, TypeOK, IsMap, NoMap
<1>9. CASE UNCHANGED vars
  BY <1>9 DEF vars, TypeOK, IsMap
<1> QED
  BY <1>1, <1>2, <1>3, <1>4, <1>5, <1>6, <1>7, <1>8, <1>9 DEF Next

-----------------------------------------------------------------------------
(* The loops.                                                              *)

\* Returning the declarative decision completes the proof of a step.
LEMMA ReturnResolved ==
  ASSUME TypeOK, Return(Resolved(input, subject, page, action))
  PROVE  LoopInv' /\ ComputesResolved'
BY DEF Return, arguments, maps, LoopInv, ComputesResolved, Done

\* The least index of a list at which something is wrong is its Min.
LEMMA FirstIndex ==
  ASSUME NEW entries \in Seq(RolePolicy), NEW n \in 1 .. Len(entries),
         NEW S \in SUBSET (DOMAIN entries), n \in S, \A i \in 1 .. n - 1 : i \notin S
  PROVE  Min(S) = n
<1>1. DOMAIN entries = 1 .. Len(entries)
  OBVIOUS
<1>2. S \in SUBSET Nat
  BY <1>1
<1>3. \A m \in S : n <= m
  BY <1>1
<1> QED
  BY <1>2, <1>3, LeastIsMin

\* A list that has been read to its end has no repeated entry.
LEMMA NoRepeats ==
  ASSUME NEW entries \in Seq(RolePolicy), NEW map, Built(map, entries, Len(entries))
  PROVE  {i \in DOMAIN entries : Repeats(entries, i)} = {}
BY DEF Built

\* unique_roles()
LEMMA InsertRoleStep ==
  ASSUME TypeOK, LoopInv, InsertRole
  PROVE  LoopInv' /\ ComputesResolved'
<1> DEFINE role == input.roles[next]
<1>1. /\ input.roles \in Seq(RolePolicy) /\ next \in 1 .. Len(input.roles)
      /\ DOMAIN input.roles = 1 .. Len(input.roles)
  BY Lists DEF InsertRole, TypeOK
<1>2. /\ pc = "roles" /\ subject.is_active /\ ~subject.is_superuser
      /\ Built(roles, input.roles, next - 1) /\ overrides = NoMap /\ grants = NoMap
  BY DEF LoopInv, InsertRole
<1>3. CASE role.role_id \in DOMAIN roles
  <2>1. PICK j \in 1 .. next - 1 : input.roles[j].role_id = role.role_id
    BY <1>2, <1>3 DEF Built
  <2>2. next \in RepeatedRoles(input)
    BY <1>1, <2>1 DEF RepeatedRoles, Repeats
  <2>3. \A i \in 1 .. next - 1 : i \notin RepeatedRoles(input)
    BY <1>2 DEF Built, RepeatedRoles
  <2>4. RepeatedRoles(input) \subseteq DOMAIN input.roles
    BY DEF RepeatedRoles
  <2>5. Min(RepeatedRoles(input)) = next
    BY <1>1, <2>2, <2>3, <2>4, FirstIndex
  <2>6. Resolved(input, subject, page, action) =
          Deny(BecauseOf("DuplicateRole", role.role_id))
    BY <1>2, <2>2, <2>5 DEF Resolved, WellFormed, Issue
  <2> QED
    BY <1>3, <2>6, ReturnResolved DEF InsertRole
<1>4. CASE role.role_id \notin DOMAIN roles
  <2>1. Built(Insert(roles, role.role_id, role), input.roles, next)
    BY <1>1, <1>2, <1>4, BuiltInsert
  <2>2. /\ roles' = Insert(roles, role.role_id, role) /\ next' = next + 1
        /\ UNCHANGED <<arguments, pc, overrides, unvisited, grants, decision>>
    BY <1>4 DEF InsertRole
  <2>3. next' - 1 = next /\ next' \in 1 .. Len(input.roles) + 1
    BY <1>1, <2>2
  <2> QED
    BY <1>2, <2>1, <2>2, <2>3 DEF LoopInv, ComputesResolved, Done, arguments
<1> QED
  BY <1>3, <1>4

\* unique_overrides()
LEMMA InsertOverrideStep ==
  ASSUME TypeOK, LoopInv, InsertOverride
  PROVE  LoopInv' /\ ComputesResolved'
<1> DEFINE list == input.category_overrides
           override == list[next]
<1>1. /\ list \in Seq(RolePolicy) /\ next \in 1 .. Len(list)
      /\ DOMAIN list = 1 .. Len(list)
  BY Lists DEF InsertOverride, TypeOK
<1>2. /\ pc = "overrides" /\ subject.is_active /\ ~subject.is_superuser
      /\ RolesBuilt /\ grants = NoMap
      /\ Built(overrides, list, next - 1)
      /\ \A i \in 1 .. next - 1 : Known(input, list[i].role_id)
  BY DEF LoopInv, InsertOverride
<1>3. RepeatedRoles(input) = {}
  BY <1>2, Lists, NoRepeats DEF RolesBuilt, RepeatedRoles
<1>4. \A i \in 1 .. next - 1 : i \notin BadOverrides(input)
  BY <1>2 DEF Built, BadOverrides
<1>5. Known(input, override.role_id) <=> override.role_id \in DOMAIN roles
  BY <1>2, RolesKnown
<1>6. BadOverrides(input) \subseteq DOMAIN list
  BY DEF BadOverrides
<1>7. ASSUME next \in BadOverrides(input),
             NEW kind, kind = IF Known(input, override.role_id)
                                THEN "DuplicateOverride" ELSE "UnknownOverrideRole",
             Return(Deny(BecauseOf(kind, override.role_id)))
      PROVE  LoopInv' /\ ComputesResolved'
  <2>1. Min(BadOverrides(input)) = next
    BY <1>1, <1>4, <1>6, <1>7, FirstIndex
  <2>2. Resolved(input, subject, page, action) = Deny(BecauseOf(kind, override.role_id))
    BY <1>2, <1>3, <1>7, <2>1 DEF Resolved, WellFormed, Issue
  <2> QED
    BY <1>7, <2>2, ReturnResolved
<1>8. CASE override.role_id \notin DOMAIN roles
  <2>1. next \in BadOverrides(input)
    BY <1>1, <1>5, <1>8 DEF BadOverrides
  <2> QED
    BY <1>5, <1>7, <1>8, <2>1 DEF InsertOverride
<1>9. CASE override.role_id \in DOMAIN roles /\ override.role_id \in DOMAIN overrides
  <2>1. next \in BadOverrides(input)
    BY <1>1, <1>2, <1>9 DEF BadOverrides, Built, Repeats
  <2> QED
    BY <1>5, <1>7, <1>9, <2>1 DEF InsertOverride
<1>10. CASE override.role_id \in DOMAIN roles /\ override.role_id \notin DOMAIN overrides
  <2>1. Built(Insert(overrides, override.role_id, override), list, next)
    BY <1>1, <1>2, <1>10, BuiltInsert
  <2>2. /\ overrides' = Insert(overrides, override.role_id, override) /\ next' = next + 1
        /\ UNCHANGED <<arguments, pc, roles, unvisited, grants, decision>>
    BY <1>10 DEF InsertOverride
  <2>3. next' - 1 = next /\ next' \in 1 .. Len(list) + 1
    BY <1>1, <2>2
  <2>4. \A i \in 1 .. next : Known(input, list[i].role_id)
    BY <1>1, <1>2, <1>5, <1>10
  <2> QED
    BY <1>2, <2>1, <2>2, <2>3, <2>4 DEF LoopInv, ComputesResolved, Done, arguments, RolesBuilt
<1> QED
  BY <1>8, <1>9, <1>10

\* The loop over the subject's roles.
LEMMA CheckSubjectRoleStep ==
  ASSUME TypeOK, LoopInv, NEW id \in GroupId, CheckSubjectRole(id)
  PROVE  LoopInv' /\ ComputesResolved'
<1>1. /\ pc = "subject" /\ subject.is_active /\ ~subject.is_superuser
      /\ RolesBuilt /\ OverridesBuilt /\ grants = NoMap
      /\ RepeatedRoles(input) = {} /\ BadOverrides(input) = {}
      /\ InOrder /\ \A v \in Visited : Known(input, v)
  BY DEF LoopInv, CheckSubjectRole
<1>2. id \in DOMAIN roles <=> Known(input, id)
  BY <1>1, RolesKnown
<1>3. /\ id \in unvisited /\ \A other \in unvisited : id <= other
      /\ unvisited \subseteq subject.role_ids /\ subject.role_ids \subseteq Nat
  BY Lists DEF CheckSubjectRole, Visits, TypeOK
<1>4. CASE id \notin DOMAIN roles
  <2>1. id \in UnknownRoles(input, subject) /\ UnknownRoles(input, subject) \subseteq unvisited
    BY <1>1, <1>2, <1>3, <1>4 DEF UnknownRoles, Visited
  <2>2. Min(UnknownRoles(input, subject)) = id
    BY <1>3, <2>1, LeastIsMin
  <2>3. Resolved(input, subject, page, action) = Deny(BecauseOf("UnknownSubjectRole", id))
    BY <1>1, <2>1, <2>2 DEF Resolved, WellFormed, Issue
  <2> QED
    BY <1>4, <2>3, ReturnResolved DEF CheckSubjectRole
<1>5. CASE id \in DOMAIN roles
  <2>1. /\ unvisited' = unvisited \ {id}
        /\ UNCHANGED <<arguments, pc, next, maps, grants, decision>>
    BY <1>5 DEF CheckSubjectRole
  <2>2. Visited' = Visited \cup {id}
    BY <1>3, <2>1 DEF Visited, arguments
  <2>3. InOrder'
    BY <1>1, <1>3, <2>1, <2>2 DEF InOrder
  <2>4. \A v \in Visited' : Known(input, v)
    BY <1>1, <1>2, <1>5, <2>2
  <2> QED
    BY <1>1, <2>1, <2>3, <2>4
       DEF LoopInv, ComputesResolved, Done, arguments, maps, RolesBuilt, OverridesBuilt
<1> QED
  BY <1>4, <1>5

\* effective_grants()
LEMMA MergeRoleStep ==
  ASSUME TypeOK, LoopInv, NEW id \in GroupId, MergeRole(id)
  PROVE  LoopInv' /\ ComputesResolved'
<1>1. /\ pc = "grants" /\ subject.is_active /\ ~subject.is_superuser
      /\ RolesBuilt /\ OverridesBuilt
      /\ RepeatedRoles(input) = {} /\ BadOverrides(input) = {}
      /\ InOrder /\ UnknownRoles(input, subject) = {} /\ Credited
  BY DEF LoopInv, MergeRole
<1>2. /\ id \in unvisited /\ \A other \in unvisited : id <= other
      /\ unvisited \subseteq subject.role_ids /\ subject.role_ids \subseteq Nat
  BY Lists DEF MergeRole, Visits, TypeOK
<1>3. id \in DOMAIN roles
  BY <1>1, <1>2, RolesKnown DEF UnknownRoles
<1>4. RoleGrants(id) = {a \in Action : Grants(input, id, a)}
  BY <1>1, <1>3, RoleGrantsMeaning
<1>5. /\ unvisited' = unvisited \ {id}
      /\ grants' = [a \in DOMAIN grants \cup RoleGrants(id) |->
                      IF a \in DOMAIN grants THEN grants[a] ELSE id]
      /\ UNCHANGED <<arguments, pc, next, maps, decision>>
  BY <1>3 DEF MergeRole
<1>6. Visited' = Visited \cup {id} /\ Visited \subseteq Nat
  BY <1>2, <1>5 DEF Visited, arguments
<1>7. \A v \in Visited : v < id
  BY <1>1, <1>2 DEF InOrder
<1>8. InOrder'
  <2> SUFFICES ASSUME NEW v \in Visited \cup {id}, NEW other \in unvisited \ {id}
               PROVE  v < other
    BY <1>5, <1>6 DEF InOrder
  <2>1. v \in Nat /\ other \in Nat /\ id \in Nat /\ id <= other /\ id # other
    BY <1>2, <1>6
  <2> QED
    BY <1>1, <2>1 DEF InOrder
<1>9. DOMAIN grants' = {a \in Action : \E v \in Visited' : Grants(input, v, a)}
  BY <1>1, <1>4, <1>5, <1>6 DEF Credited
<1>10. ASSUME NEW a \in DOMAIN grants'
       PROVE  /\ grants'[a] \in Visited'
              /\ Grants(input, grants'[a], a)
              /\ \A v \in Visited' : Grants(input, v, a) => grants'[a] <= v
  <2>1. CASE a \in DOMAIN grants
    <3>1. grants'[a] = grants[a]
      BY <1>5, <1>10, <2>1
    <3>2. grants[a] \in Visited /\ Grants(input, grants[a], a)
      BY <1>1, <2>1 DEF Credited
    <3>3. \A v \in Visited : Grants(input, v, a) => grants[a] <= v
      BY <1>1, <2>1 DEF Credited
    <3>4. grants[a] <= id
      <4>1. grants[a] < id /\ grants[a] \in Nat /\ id \in Nat
        BY <1>2, <1>6, <1>7, <3>2
      <4> QED
        BY <4>1
    <3> QED
      BY <1>6, <3>1, <3>2, <3>3, <3>4
  <2>2. CASE a \notin DOMAIN grants
    <3>1. grants'[a] = id /\ Grants(input, id, a)
      BY <1>4, <1>5, <1>10, <2>2
    <3>2. a \in Action /\ \A v \in Visited : ~Grants(input, v, a)
      BY <1>1, <1>9, <1>10, <2>2 DEF Credited
    <3> QED
      BY <1>2, <1>6, <3>1, <3>2
  <2> QED
    BY <2>1, <2>2
<1>11. Credited'
  BY <1>5, <1>9, <1>10 DEF Credited, arguments
<1> QED
  BY <1>1, <1>5, <1>8, <1>11
     DEF LoopInv, ComputesResolved, Done, arguments, maps, RolesBuilt, OverridesBuilt

\* The decision.
LEMMA DecideStep ==
  ASSUME TypeOK, LoopInv, Decide
  PROVE  LoopInv' /\ ComputesResolved'
<1>1. /\ subject.is_active /\ ~subject.is_superuser
      /\ WellFormed(input, subject) /\ Credited
  BY DEF LoopInv, Decide, WellFormed
<1>2. Visited = subject.role_ids /\ subject.role_ids \subseteq Nat
  BY Lists DEF Decide, Visited
<1>3. \A a \in Action : a \in DOMAIN grants <=> Grantors(input, subject, a) # {}
  BY <1>1, <1>2 DEF Credited, Grantors
<1>4. \A a \in DOMAIN grants : grants[a] = Min(Grantors(input, subject, a))
  <2> SUFFICES ASSUME NEW a \in DOMAIN grants
               PROVE  Min(Grantors(input, subject, a)) = grants[a]
    BY Zenon
  <2>1. grants[a] \in Grantors(input, subject, a)
    BY <1>1, <1>2 DEF Credited, Grantors
  <2>2. \A id \in Grantors(input, subject, a) : grants[a] <= id
    BY <1>1, <1>2 DEF Credited, Grantors
  <2>3. Grantors(input, subject, a) \in SUBSET Nat
    BY <1>2 DEF Grantors
  <2> QED
    BY <2>1, <2>2, <2>3, LeastIsMin
<1>5. action \in Action /\ "lock" \in Action
  BY PolicyAssumption DEF TypeOK, Action
<1>6. Return(Judge(input, subject, page, action))
  <2>1. CASE page.locked /\ RemovedByPageLock(action) /\ "lock" \notin DOMAIN grants
    BY <1>3, <1>5, <2>1 DEF Decide, Judge
  <2>2. CASE /\ ~(page.locked /\ RemovedByPageLock(action) /\ "lock" \notin DOMAIN grants)
             /\ action = "manage_authors" /\ page.subject_is_author /\ ~page.locked
    BY <1>3, <1>5, <2>2 DEF Decide, Judge
  <2>3. CASE /\ ~(page.locked /\ RemovedByPageLock(action) /\ "lock" \notin DOMAIN grants)
             /\ ~(action = "manage_authors" /\ page.subject_is_author /\ ~page.locked)
    <3>1. CASE action \in DOMAIN grants
      BY <1>3, <1>4, <1>5, <2>3, <3>1 DEF Decide, Judge
    <3>2. CASE action \notin DOMAIN grants
      BY <1>3, <1>5, <2>3, <3>2 DEF Decide, Judge
    <3> QED
      BY <3>1, <3>2
  <2> QED
    BY <2>1, <2>2, <2>3
<1>7. Resolved(input, subject, page, action) = Judge(input, subject, page, action)
  BY <1>1 DEF Resolved
<1> QED
  BY <1>6, <1>7, ReturnResolved

\* The steps between the loops.
LEMMA BetweenLoops ==
  ASSUME TypeOK, LoopInv, CheckAccount \/ RolesDone \/ OverridesDone \/ SubjectDone
  PROVE  LoopInv' /\ ComputesResolved'
<1> USE DEF arguments, maps
<1>1. CASE CheckAccount
  <2>1. CASE ~subject.is_active \/ subject.is_superuser
    <3>1. Return(Resolved(input, subject, page, action))
      BY <1>1, <2>1 DEF CheckAccount, Resolved
    <3> QED
      BY <3>1, ReturnResolved
  <2>2. CASE subject.is_active /\ ~subject.is_superuser
    <3>1. /\ pc = "account" /\ next = 1 /\ roles = NoMap /\ overrides = NoMap /\ grants = NoMap
      BY <1>1 DEF CheckAccount, LoopInv
    <3>2. /\ pc' = "roles" /\ UNCHANGED <<arguments, next, maps, unvisited, grants, decision>>
      BY <1>1, <2>2 DEF CheckAccount
    <3>3. Len(input.roles) \in Nat
      BY Lists
    <3>4. Built(roles, input.roles, 0)
      BY <3>1 DEF Built, NoMap
    <3> QED
      BY <2>2, <3>1, <3>2, <3>3, <3>4 DEF LoopInv, ComputesResolved, Done
  <2> QED
    BY <2>1, <2>2 DEF TypeOK
<1>2. CASE RolesDone
  <2>1. /\ pc = "roles" /\ subject.is_active /\ ~subject.is_superuser
        /\ overrides = NoMap /\ grants = NoMap /\ next \in 1 .. Len(input.roles) + 1
        /\ Built(roles, input.roles, next - 1)
    BY <1>2 DEF RolesDone, LoopInv
  <2>2. /\ next > Len(input.roles) /\ pc' = "overrides" /\ next' = 1
        /\ UNCHANGED <<arguments, maps, unvisited, grants, decision>>
    BY <1>2 DEF RolesDone
  <2>3. Len(input.roles) \in Nat /\ Len(input.category_overrides) \in Nat
    BY Lists
  <2>4. next - 1 = Len(input.roles)
    BY <2>1, <2>2, <2>3
  <2>5. RolesBuilt
    BY <2>1, <2>4 DEF RolesBuilt
  <2>6. Built(overrides, input.category_overrides, 0)
    BY <2>1 DEF Built, NoMap
  <2> QED
    BY <2>1, <2>2, <2>3, <2>5, <2>6 DEF LoopInv, ComputesResolved, Done, RolesBuilt
<1>3. CASE OverridesDone
  <2> DEFINE list == input.category_overrides
  <2>1. /\ pc = "overrides" /\ subject.is_active /\ ~subject.is_superuser
        /\ RolesBuilt /\ grants = NoMap /\ next \in 1 .. Len(list) + 1
        /\ Built(overrides, list, next - 1)
        /\ \A i \in 1 .. next - 1 : Known(input, list[i].role_id)
    BY <1>3 DEF OverridesDone, LoopInv
  <2>2. /\ next > Len(list) /\ pc' = "subject" /\ unvisited' = subject.role_ids
        /\ UNCHANGED <<arguments, next, maps, grants, decision>>
    BY <1>3 DEF OverridesDone
  <2>3. Len(list) \in Nat /\ DOMAIN list = 1 .. Len(list)
    BY Lists
  <2>4. next - 1 = Len(list)
    BY <2>1, <2>2, <2>3
  <2>5. OverridesBuilt
    BY <2>1, <2>4 DEF OverridesBuilt
  <2>6. RepeatedRoles(input) = {}
    BY <2>1, Lists, NoRepeats DEF RolesBuilt, RepeatedRoles
  <2>7. BadOverrides(input) = {}
    BY <2>1, <2>3, <2>4 DEF BadOverrides, Built
  <2>8. Visited' = {}
    BY <2>2 DEF Visited
  <2> QED
    BY <2>1, <2>2, <2>5, <2>6, <2>7, <2>8
       DEF LoopInv, ComputesResolved, Done, RolesBuilt, OverridesBuilt, InOrder
<1>4. CASE SubjectDone
  <2>1. /\ pc = "subject" /\ subject.is_active /\ ~subject.is_superuser
        /\ RolesBuilt /\ OverridesBuilt /\ grants = NoMap
        /\ RepeatedRoles(input) = {} /\ BadOverrides(input) = {}
        /\ \A id \in Visited : Known(input, id)
    BY <1>4 DEF SubjectDone, LoopInv
  <2>2. /\ unvisited = {} /\ pc' = "grants" /\ unvisited' = subject.role_ids
        /\ UNCHANGED <<arguments, next, maps, grants, decision>>
    BY <1>4 DEF SubjectDone
  <2>3. UnknownRoles(input, subject) = {}
    BY <2>1, <2>2 DEF UnknownRoles, Visited
  <2>4. Visited' = {}
    BY <2>2 DEF Visited
  <2>5. Credited'
    BY <2>1, <2>2, <2>4 DEF Credited, NoMap
  <2> QED
    BY <2>1, <2>2, <2>3, <2>4, <2>5
       DEF LoopInv, ComputesResolved, Done, RolesBuilt, OverridesBuilt, InOrder
<1> QED
  BY <1>1, <1>2, <1>3, <1>4

-----------------------------------------------------------------------------
(* What the declarative decision says.                                     *)

\* An active subject that is not a superuser is allowed an action only under a
\* well-formed policy, by its verdict.
LEMMA AllowedByJudge ==
  ASSUME NEW in, NEW who, NEW where, NEW act,
         Resolved(in, who, where, act).allowed, ~who.is_superuser
  PROVE  /\ WellFormed(in, who) /\ Judge(in, who, where, act).allowed
         /\ who.is_active
BY DEF Resolved, Deny

\* The verdict of a well-formed policy, without its reason.
LEMMA Verdict ==
  ASSUME NEW in, NEW who, NEW where, NEW act
  PROVE  Judge(in, who, where, act).allowed <=>
           /\ ~(where.locked /\ RemovedByPageLock(act) /\ Grantors(in, who, "lock") = {})
           /\ \/ act = "manage_authors" /\ where.subject_is_author /\ ~where.locked
              \/ Grantors(in, who, act) # {}
BY DEF Judge, Allow, Deny

\* A further role of the policy takes nothing away.
LEMMA MoreRoles ==
  ASSUME NEW in \in PolicyInput, NEW who \in PolicySubject, NEW where, NEW act,
         NEW id, Known(in, id), Resolved(in, who, where, act).allowed
  PROVE  Resolved(in, [who EXCEPT !.role_ids = @ \cup {id}], where, act).allowed
<1> DEFINE more == [who EXCEPT !.role_ids = @ \cup {id}]
<1>1. /\ more.is_active = who.is_active /\ more.is_superuser = who.is_superuser
      /\ more.role_ids = who.role_ids \cup {id}
  BY DEF PolicySubject
<1>2. who.is_active
  BY DEF Resolved, Deny
<1>3. CASE who.is_superuser
  BY <1>1, <1>2, <1>3 DEF Resolved, Allow
<1>4. CASE ~who.is_superuser
  <2>1. WellFormed(in, who) /\ Judge(in, who, where, act).allowed
    BY <1>4, AllowedByJudge
  <2>2. WellFormed(in, more)
    BY <1>1, <2>1 DEF WellFormed, UnknownRoles
  <2>3. \A a : Grantors(in, who, a) \subseteq Grantors(in, more, a)
    BY <1>1 DEF Grantors
  <2>4. Judge(in, more, where, act).allowed
    <3> HIDE DEF more
    <3> QED
      BY <2>1, <2>3, Verdict
  <2>5. Resolved(in, more, where, act) = Judge(in, more, where, act)
    BY <1>1, <1>2, <1>4, <2>2 DEF Resolved
  <2> QED
    BY <2>4, <2>5
<1> QED
  BY <1>3, <1>4

\* The decisions of resolve() satisfy the properties of the declarative decision.
LEMMA Consequences ==
  ASSUME TypeOK, ComputesResolved, EarlierInv
  PROVE  FailsClosed /\ RolesOnlyAdd /\ LockHolds
<1>1. RolesOnlyAdd
  BY DEF ComputesResolved, EarlierInv, RolesOnlyAdd
<1>2. SUFFICES ASSUME Done, decision.allowed
               PROVE  FailsClosed /\ LockHolds
  BY <1>1 DEF FailsClosed, LockHolds
<1>3. Resolved(input, subject, page, action).allowed
  BY <1>2 DEF ComputesResolved
<1>4. FailsClosed
  BY <1>3, AllowedByJudge DEF FailsClosed
<1>5. LockHolds
  <2> SUFFICES ASSUME page.locked, RemovedByPageLock(action), ~subject.is_superuser
               PROVE  /\ Grantors(input, subject, "lock") # {}
                      /\ Grantors(input, subject, action) # {}
    BY DEF LockHolds
  <2>1. Judge(input, subject, page, action).allowed
    BY <1>3, AllowedByJudge
  <2> QED
    BY <2>1, Verdict
<1> QED
  BY <1>4, <1>5

-----------------------------------------------------------------------------
(* The theorems.                                                           *)

\* Nothing has been decided at the start.
LEMMA InitIInv == Init => IInv
<1> SUFFICES ASSUME Init PROVE IInv
  OBVIOUS
<1>1. Deny(Because("NoGrant")) \in Decision
  BY Decisions
<1>2. subject \in PolicySubject
  BY PolicyAssumption DEF Init
<1>3. TypeOK
  <2>1. /\ IsMap(roles) /\ IsMap(overrides)
        /\ DOMAIN grants \subseteq Action /\ \A a \in DOMAIN grants : grants[a] \in GroupId
    BY DEF Init, IsMap, NoMap
  <2>2. earlier \in BOOLEAN /\ decision \in Decision
    BY <1>1, Zenon DEF Init
  <2>3. /\ input \in Inputs /\ page \in PagePolicyState /\ action \in Asked
        /\ unvisited \subseteq subject.role_ids /\ pc = "account" /\ next = 1
    BY DEF Init
  <2> QED
    BY <1>2, <2>1, <2>2, <2>3 DEF TypeOK
<1> QED
  BY <1>3 DEF Init, IInv, LoopInv, ComputesResolved, Done, EarlierInv

\* A further call starts afresh, and owes its subject what the calls before it allowed.
LEMMA AskAgainStep ==
  ASSUME IInv, NEW id \in GroupId, AskAgain(id)
  PROVE  LoopInv' /\ ComputesResolved' /\ EarlierInv'
<1>1. LoopInv' /\ ComputesResolved'
  BY DEF AskAgain, LoopInv, ComputesResolved, Done
<1>2. ASSUME earlier'
      PROVE  Resolved(input, subject, page, action).allowed
  BY <1>2 DEF AskAgain, IInv, EarlierInv, ComputesResolved, Done
<1>3. ASSUME earlier'
      PROVE  Resolved(input, [subject EXCEPT !.role_ids = @ \cup {id}], page, action).allowed
  BY <1>2, <1>3, Lists, MoreRoles DEF AskAgain, IInv
<1>4. EarlierInv'
  BY <1>3 DEF AskAgain, EarlierInv
<1> QED
  BY <1>1, <1>4

\* The other steps are within one call.
LEMMA SameCall ==
  ASSUME [Next]_vars, ~ \E id \in GroupId : AskAgain(id)
  PROVE  UNCHANGED arguments
BY DEF Next, vars, arguments, maps, CheckAccount, InsertRole, RolesDone, InsertOverride,
       OverridesDone, CheckSubjectRole, SubjectDone, MergeRole, Decide, Return

\* One step keeps what the loops have established.
LEMMA NextIInv == IInv /\ [Next]_vars => IInv'
<1>1. SUFFICES ASSUME IInv, [Next]_vars, ~ \E id \in GroupId : AskAgain(id)
               PROVE  LoopInv' /\ ComputesResolved' /\ EarlierInv'
  BY TypeStep, AskAgainStep DEF IInv
<1>2. TypeOK /\ LoopInv /\ ComputesResolved
  BY <1>1 DEF IInv
<1>3. LoopInv' /\ ComputesResolved'
  <2>1. CASE CheckAccount \/ RolesDone \/ OverridesDone \/ SubjectDone
    BY <1>2, <2>1, BetweenLoops
  <2>2. CASE InsertRole
    BY <1>2, <2>2, InsertRoleStep
  <2>3. CASE InsertOverride
    BY <1>2, <2>3, InsertOverrideStep
  <2>4. CASE \E id \in GroupId : CheckSubjectRole(id)
    BY <1>2, <2>4, CheckSubjectRoleStep
  <2>5. CASE \E id \in GroupId : MergeRole(id)
    BY <1>2, <2>5, MergeRoleStep
  <2>6. CASE Decide
    BY <1>2, <2>6, DecideStep
  <2>7. CASE UNCHANGED vars
    BY <1>2, <2>7 DEF vars, LoopInv, ComputesResolved, Done, Built, RolesBuilt, OverridesBuilt,
                      Visited, InOrder, Credited
  <2> QED
    BY <1>1, <2>1, <2>2, <2>3, <2>4, <2>5, <2>6, <2>7 DEF Next
<1>4. EarlierInv'
  BY <1>1, SameCall DEF IInv, EarlierInv, arguments
<1> QED
  BY <1>3, <1>4

\* The inductive invariant: what every loop of resolve() has established so far,
\* and with it the decision of a run that is over.
THEOREM Invariance == Spec => []IInv
  BY InitIInv, NextIInv, PTL DEF Spec

\* Every state is well typed, for every policy; in particular every decision
\* names the role that it owes to, and only a role of the policy.
THEOREM TypeCorrect == Spec => []TypeOK
<1>1. IInv => TypeOK
  BY DEF IInv
<1> QED
  BY <1>1, Invariance, PTL

\* resolve() computes its declarative definition: for every policy, however
\* damaged, every subject, page state and action.
THEOREM Computes == Spec => []ComputesResolved
<1>1. IInv => ComputesResolved
  BY DEF IInv
<1> QED
  BY <1>1, Invariance, PTL

\* A damaged policy lets nobody in but superusers.
THEOREM DamagedPolicyFailsClosed == Spec => []FailsClosed
<1>1. IInv => FailsClosed
  BY Consequences DEF IInv
<1> QED
  BY <1>1, Invariance, PTL

\* A further role never takes a permission away: resolve(), called again for a subject with
\* one more role, allows all that it allowed before.
THEOREM RolesAreMonotone == Spec => []RolesOnlyAdd
<1>1. IInv => RolesOnlyAdd
  BY Consequences DEF IInv
<1> QED
  BY <1>1, Invariance, PTL

\* A locked page is closed to everybody without the permission to lock.
THEOREM LockIsHeld == Spec => []LockHolds
<1>1. IInv => LockHolds
  BY Consequences DEF IInv
<1> QED
  BY <1>1, Invariance, PTL

-----------------------------------------------------------------------------
(* Comparisons of policies.                                                *)

\* What a list has of a role, wherever it has it.
EntriesOf(entries, id) == {entries[i] : i \in {j \in DOMAIN entries : entries[j].role_id = id}}

\* What a role is given or denied is all in its entries.
LEMMA EntriesDecide ==
  ASSUME NEW entries, NEW id, NEW a
  PROVE  /\ Allows(entries, id, a) <=> \E entry \in EntriesOf(entries, id) : a \in entry.allows
         /\ Restricts(entries, id, a) <=> \E entry \in EntriesOf(entries, id) : a \in entry.restrictions
BY DEF Allows, Restricts, EntriesOf

\* Neither the roles that the subject does not have, nor their overrides, nor any entry's
\* place in its list have a say, in the decision or in its reason: what one role is given
\* or denied, everywhere or in a category, stays a matter of that role.
THEOREM OnlyOwnRolesMatter ==
  ASSUME NEW in, NEW other, NEW who \in PolicySubject, NEW where, NEW act \in Action,
         WellFormed(in, who), WellFormed(other, who),
         \A id \in who.role_ids :
           /\ EntriesOf(in.roles, id) = EntriesOf(other.roles, id)
           /\ EntriesOf(in.category_overrides, id) = EntriesOf(other.category_overrides, id)
  PROVE  Resolved(in, who, where, act) = Resolved(other, who, where, act)
<1>1. ASSUME NEW id \in who.role_ids, NEW a PROVE Grants(in, id, a) <=> Grants(other, id, a)
  <2>1. /\ Allows(in.roles, id, a) <=> Allows(other.roles, id, a)
        /\ Restricts(in.roles, id, a) <=> Restricts(other.roles, id, a)
    BY EntriesDecide
  <2>2. /\ Allows(in.category_overrides, id, a) <=> Allows(other.category_overrides, id, a)
        /\ Restricts(in.category_overrides, id, a) <=> Restricts(other.category_overrides, id, a)
    BY EntriesDecide
  <2> QED
    BY <2>1, <2>2 DEF Grants
<1>2. \A a : Grantors(in, who, a) = Grantors(other, who, a)
  BY <1>1 DEF Grantors
<1>3. Judge(in, who, where, act) = Judge(other, who, where, act)
  BY <1>2 DEF Judge
<1> QED
  BY <1>3 DEF Resolved

\* The entries of a list that is as long, for the same roles, with nothing more allowed and
\* nothing less restricted.
Stricter(strict, entries) ==
  /\ DOMAIN strict = DOMAIN entries
  /\ \A i \in DOMAIN entries :
       /\ strict[i].role_id = entries[i].role_id
       /\ strict[i].allows \subseteq entries[i].allows
       /\ entries[i].restrictions \subseteq strict[i].restrictions

\* Such a list allows no more.
LEMMA StricterAllowsLess ==
  ASSUME NEW strict, NEW entries, Stricter(strict, entries), NEW id, NEW a
  PROVE  /\ Allows(strict, id, a) => Allows(entries, id, a)
         /\ Restricts(entries, id, a) => Restricts(strict, id, a)
BY DEF Stricter, Allows, Restricts

\* A policy that is made stricter lets nobody do what they could not do before, whichever
\* roles and overrides take a permission away or restrict it, the one to lock included.
THEOREM StrictnessIsSafe ==
  ASSUME NEW in \in PolicyInput, NEW strict \in PolicyInput,
         Stricter(strict.roles, in.roles), Stricter(strict.category_overrides, in.category_overrides),
         NEW who \in PolicySubject, NEW where, NEW act,
         Resolved(strict, who, where, act).allowed
  PROVE  Resolved(in, who, where, act).allowed
<1>1. who.is_active
  BY DEF Resolved, Deny
<1>2. CASE who.is_superuser
  BY <1>1, <1>2 DEF Resolved, Allow
<1>3. CASE ~who.is_superuser
  <2>1. WellFormed(strict, who) /\ Judge(strict, who, where, act).allowed
    BY <1>3, AllowedByJudge
  <2>2. \A a : Grantors(strict, who, a) \subseteq Grantors(in, who, a)
    BY StricterAllowsLess DEF Grantors, Grants
  <2>3. Judge(in, who, where, act).allowed
    BY <2>1, <2>2, Verdict
  <2>4. WellFormed(in, who)
    <3>1. \A id : Known(in, id) <=> Known(strict, id)
      BY DEF Known, Stricter
    <3>2. /\ \A i \in DOMAIN in.roles : Repeats(in.roles, i) <=> Repeats(strict.roles, i)
          /\ \A i \in DOMAIN in.category_overrides :
               Repeats(in.category_overrides, i) <=> Repeats(strict.category_overrides, i)
      <4>1. ASSUME NEW entries \in Seq(RolePolicy), NEW other, Stricter(other, entries),
                   NEW i \in DOMAIN entries
            PROVE  Repeats(entries, i) <=> Repeats(other, i)
        <5>1. 1 .. i - 1 \subseteq DOMAIN entries
          OBVIOUS
        <5> QED
          BY <4>1, <5>1 DEF Stricter, Repeats
      <4> QED
        BY <4>1 DEF PolicyInput
    <3>3. /\ DOMAIN in.roles = DOMAIN strict.roles
          /\ DOMAIN in.category_overrides = DOMAIN strict.category_overrides
          /\ \A i \in DOMAIN in.category_overrides :
               in.category_overrides[i].role_id = strict.category_overrides[i].role_id
      BY DEF Stricter
    <3>4. RepeatedRoles(in) = RepeatedRoles(strict) /\ BadOverrides(in) = BadOverrides(strict)
      BY <3>1, <3>2, <3>3 DEF RepeatedRoles, BadOverrides
    <3>5. UnknownRoles(in, who) = UnknownRoles(strict, who)
      BY <3>1 DEF UnknownRoles
    <3> QED
      BY <2>1, <3>4, <3>5 DEF WellFormed
  <2> QED
    BY <1>1, <1>3, <2>3, <2>4 DEF Resolved
<1> QED
  BY <1>2, <1>3

=============================================================================
