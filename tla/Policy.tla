------------------------------- MODULE Policy -------------------------------
(***************************************************************************)
(* Permission resolution: resolve() of crates/core/src/policy.rs, one      *)
(* action per iteration of each of its loops, beside a definition of what  *)
(* it computes that has no loops, maps or order of evaluation.             *)
(*                                                                         *)
(* Roles and category overrides arrive as lists (Vec) that may name a role *)
(* twice; the resolver builds maps from them.  The subject's roles are an  *)
(* ordered set (BTreeSet), visited in ascending order.                     *)
(*                                                                         *)
(* A behaviour is one call after another: the same question is asked for a *)
(* subject that has been given a further role of the policy, and a history *)
(* variable remembers what the earlier calls have answered.                *)
(***************************************************************************)
EXTENDS Naturals, Sequences, FiniteSetsExt

CONSTANTS
  GroupId,   \* role identifiers, ordered
  Inputs,    \* the policies that may be resolved
  Subjects,  \* the subjects that may ask
  Asked      \* the actions they may ask for

\* enum Action
Action == {"read", "edit", "create", "delete", "restore", "rename", "manage_files",
           "manage_authors", "tag", "rate", "comment", "moderate", "manage_acl", "lock",
           "admin"}

\* struct RolePolicy, and RoleOverride, which has the same fields
RolePolicy == [role_id : GroupId, allows : SUBSET Action, restrictions : SUBSET Action]

PolicyInput == [roles : Seq(RolePolicy), category_overrides : Seq(RolePolicy)]

\* struct PolicySubject, without the user_id, which resolve() does not read
PolicySubject == [is_active : BOOLEAN, is_superuser : BOOLEAN, role_ids : SUBSET GroupId]

PagePolicyState == [locked : BOOLEAN, subject_is_author : BOOLEAN]

ASSUME PolicyAssumption ==
  /\ GroupId \subseteq Nat
  /\ Inputs \subseteq PolicyInput
  /\ Subjects \subseteq PolicySubject
  /\ Asked \subseteq Action

-----------------------------------------------------------------------------
(* Decisions.                                                              *)

InvalidReasons ==
  {"DuplicateRole", "DuplicateOverride", "UnknownSubjectRole", "UnknownOverrideRole"}

\* A reason that names no role carries no identifier.
Reasons ==
  [kind : {"InactiveAccount", "Superuser", "AuthorGrant", "PageLocked", "NoGrant"}]
    \cup [kind : {"RoleGrant"} \cup InvalidReasons, role_id : GroupId]

Decision == [allowed : BOOLEAN, reason : Reasons]

Because(kind) == [kind |-> kind]

\* Mutant of BecauseOf: the role is not named.
BecauseOfNobody(kind, role_id) == [kind |-> kind]

BecauseOf(kind, role_id) == [kind |-> kind, role_id |-> role_id]

Allow(reason) == [allowed |-> TRUE, reason |-> reason]
Deny(reason) == [allowed |-> FALSE, reason |-> reason]

RemovedByPageLock(act) ==
  act \in {"edit", "delete", "rename", "manage_files", "manage_authors", "tag"}

-----------------------------------------------------------------------------
(* What is computed: rules 3 to 9 of docs/compat/rufoundation-acl.md, as   *)
(* the code has them.                                                      *)

Allows(entries, id, act) ==
  \E i \in DOMAIN entries : entries[i].role_id = id /\ act \in entries[i].allows

Restricts(entries, id, act) ==
  \E i \in DOMAIN entries : entries[i].role_id = id /\ act \in entries[i].restrictions

\* A role grants what it allows and does not restrict, or what its override
\* allows, unless its override restricts it.
Grants(in, id, act) ==
  /\ \/ Allows(in.roles, id, act) /\ ~Restricts(in.roles, id, act)
     \/ Allows(in.category_overrides, id, act)
  /\ ~Restricts(in.category_overrides, id, act)

Grantors(in, who, act) == {id \in who.role_ids : Grants(in, id, act)}

Known(in, id) == \E i \in DOMAIN in.roles : in.roles[i].role_id = id

Repeats(entries, i) == \E j \in 1 .. i - 1 : entries[j].role_id = entries[i].role_id

RepeatedRoles(in) == {i \in DOMAIN in.roles : Repeats(in.roles, i)}

BadOverrides(in) ==
  {i \in DOMAIN in.category_overrides :
     \/ ~Known(in, in.category_overrides[i].role_id)
     \/ Repeats(in.category_overrides, i)}

UnknownRoles(in, who) == {id \in who.role_ids : ~Known(in, id)}

WellFormed(in, who) ==
  RepeatedRoles(in) = {} /\ BadOverrides(in) = {} /\ UnknownRoles(in, who) = {}

\* The issue that is reported: the first of the first list that has any.
Issue(in, who) ==
  IF RepeatedRoles(in) # {}
    THEN BecauseOf("DuplicateRole", in.roles[Min(RepeatedRoles(in))].role_id)
  ELSE IF BadOverrides(in) # {}
    THEN LET id == in.category_overrides[Min(BadOverrides(in))].role_id
         IN  BecauseOf(IF Known(in, id) THEN "DuplicateOverride" ELSE "UnknownOverrideRole",
                       id)
  ELSE BecauseOf("UnknownSubjectRole", Min(UnknownRoles(in, who)))

\* The decision of an active subject under a well-formed policy.
Judge(in, who, where, act) ==
  IF where.locked /\ RemovedByPageLock(act) /\ Grantors(in, who, "lock") = {}
    THEN Deny(Because("PageLocked"))
  ELSE IF act = "manage_authors" /\ where.subject_is_author /\ ~where.locked
    THEN Allow(Because("AuthorGrant"))
  ELSE IF Grantors(in, who, act) # {}
    THEN Allow(BecauseOf("RoleGrant", Min(Grantors(in, who, act))))
  ELSE Deny(Because("NoGrant"))

Resolved(in, who, where, act) ==
  IF ~who.is_active THEN Deny(Because("InactiveAccount"))
  ELSE IF who.is_superuser THEN Allow(Because("Superuser"))
  ELSE IF ~WellFormed(in, who) THEN Deny(Issue(in, who))
  ELSE Judge(in, who, where, act)

-----------------------------------------------------------------------------
(* How it is computed.                                                     *)

VARIABLES
  input, subject, page, action,   \* the arguments of resolve()
  earlier,                        \* whether a call for fewer roles has allowed the same
  pc,                             \* the loop that is running
  next,                           \* its position in a list
  roles, overrides,               \* the maps built from the two lists
  unvisited,                      \* the subject's roles that a loop has yet to visit
  grants,                         \* effective grants: action to the role that grants it
  decision                        \* the result

arguments == <<input, subject, page, action, earlier>>
maps == <<roles, overrides>>
vars == <<input, subject, page, action, earlier, pc, next, roles, overrides, unvisited,
          grants, decision>>

NoMap == [key \in {} |-> {}]

Insert(map, key, value) ==
  [k \in DOMAIN map \cup {key} |-> IF k = key THEN value ELSE map[k]]

\* Return from resolve().
Return(d) ==
  /\ pc' = "done"
  /\ decision' = d
  /\ UNCHANGED <<arguments, next, maps, unvisited, grants>>

Init ==
  /\ input \in Inputs
  /\ subject \in Subjects
  /\ page \in PagePolicyState
  /\ action \in Asked
  /\ earlier = FALSE
  /\ pc = "account"
  /\ next = 1
  /\ roles = NoMap
  /\ overrides = NoMap
  /\ unvisited = {}
  /\ grants = NoMap
  /\ decision = Deny(Because("NoGrant"))   \* read only when done

\* The checks that need no policy.
CheckAccount ==
  /\ pc = "account"
  /\ IF ~subject.is_active THEN Return(Deny(Because("InactiveAccount")))
     ELSE IF subject.is_superuser THEN Return(Allow(Because("Superuser")))
     ELSE /\ pc' = "roles"
          /\ UNCHANGED <<arguments, next, maps, unvisited, grants, decision>>

\* Mutant of InsertRole: a role that is named again replaces the first.
InsertRoleAgain ==
  /\ pc = "roles"
  /\ next <= Len(input.roles)
  /\ roles' = Insert(roles, input.roles[next].role_id, input.roles[next])
  /\ next' = next + 1
  /\ UNCHANGED <<arguments, pc, overrides, unvisited, grants, decision>>

\* unique_roles()
InsertRole ==
  /\ pc = "roles"
  /\ next <= Len(input.roles)
  /\ LET role == input.roles[next]
     IN  IF role.role_id \in DOMAIN roles
           THEN Return(Deny(BecauseOf("DuplicateRole", role.role_id)))
           ELSE /\ roles' = Insert(roles, role.role_id, role)
                /\ next' = next + 1
                /\ UNCHANGED <<arguments, pc, overrides, unvisited, grants, decision>>

RolesDone ==
  /\ pc = "roles"
  /\ next > Len(input.roles)
  /\ pc' = "overrides"
  /\ next' = 1
  /\ UNCHANGED <<arguments, maps, unvisited, grants, decision>>

\* unique_overrides()
InsertOverride ==
  /\ pc = "overrides"
  /\ next <= Len(input.category_overrides)
  /\ LET override == input.category_overrides[next]
     IN  IF override.role_id \notin DOMAIN roles
           THEN Return(Deny(BecauseOf("UnknownOverrideRole", override.role_id)))
         ELSE IF override.role_id \in DOMAIN overrides
           THEN Return(Deny(BecauseOf("DuplicateOverride", override.role_id)))
         ELSE /\ overrides' = Insert(overrides, override.role_id, override)
              /\ next' = next + 1
              /\ UNCHANGED <<arguments, pc, roles, unvisited, grants, decision>>

OverridesDone ==
  /\ pc = "overrides"
  /\ next > Len(input.category_overrides)
  /\ pc' = "subject"
  /\ unvisited' = subject.role_ids
  /\ UNCHANGED <<arguments, next, maps, grants, decision>>

\* The next role that iterating over the subject's roles yields.
Visits(id) == id \in unvisited /\ \A other \in unvisited : id <= other

\* The loop of resolve() over the subject's roles.
CheckSubjectRole(id) ==
  /\ pc = "subject"
  /\ Visits(id)
  /\ IF id \notin DOMAIN roles
       THEN Return(Deny(BecauseOf("UnknownSubjectRole", id)))
       ELSE /\ unvisited' = unvisited \ {id}
            /\ UNCHANGED <<arguments, pc, next, maps, grants, decision>>

SubjectDone ==
  /\ pc = "subject"
  /\ unvisited = {}
  /\ pc' = "grants"
  /\ unvisited' = subject.role_ids
  /\ UNCHANGED <<arguments, next, maps, grants, decision>>

\* Mutant of RoleGrants: an override restricts before it allows.
RoleGrantsSwapped(id) ==
  LET role == roles[id]
      own  == role.allows \ role.restrictions
  IN  IF id \in DOMAIN overrides
        THEN (own \ overrides[id].restrictions) \cup overrides[id].allows
        ELSE own

\* The grants of one role, with its override.
RoleGrants(id) ==
  LET role == roles[id]
      own  == role.allows \ role.restrictions
  IN  IF id \in DOMAIN overrides
        THEN (own \cup overrides[id].allows) \ overrides[id].restrictions
        ELSE own

\* Mutant of MergeRole: what a role restricts is taken from the other roles too.
MergeRoleRestrictingAll(id) ==
  /\ pc = "grants"
  /\ Visits(id)
  /\ unvisited' = unvisited \ {id}
  /\ IF id \in DOMAIN roles
       THEN LET kept == DOMAIN grants \ roles[id].restrictions
            IN  grants' = [a \in kept \cup RoleGrants(id) |-> IF a \in kept THEN grants[a] ELSE id]
       ELSE UNCHANGED grants
  /\ UNCHANGED <<arguments, pc, next, maps, decision>>

\* effective_grants(): the first role that grants an action keeps the credit.
MergeRole(id) ==
  /\ pc = "grants"
  /\ Visits(id)
  /\ unvisited' = unvisited \ {id}
  /\ IF id \in DOMAIN roles
       THEN grants' = [a \in DOMAIN grants \cup RoleGrants(id) |->
                         IF a \in DOMAIN grants THEN grants[a] ELSE id]
       ELSE UNCHANGED grants
  /\ UNCHANGED <<arguments, pc, next, maps, decision>>

\* Mutant of Decide: the author's exception comes before the lock.
DecideAuthorFirst ==
  /\ pc = "grants"
  /\ unvisited = {}
  /\ IF action = "manage_authors" /\ page.subject_is_author
       THEN Return(Allow(Because("AuthorGrant")))
     ELSE IF page.locked /\ RemovedByPageLock(action) /\ "lock" \notin DOMAIN grants
       THEN Return(Deny(Because("PageLocked")))
     ELSE IF action \in DOMAIN grants
       THEN Return(Allow(BecauseOf("RoleGrant", grants[action])))
     ELSE Return(Deny(Because("NoGrant")))

\* The lock, the author's exception and the grants, in this order.
Decide ==
  /\ pc = "grants"
  /\ unvisited = {}
  /\ IF page.locked /\ RemovedByPageLock(action) /\ "lock" \notin DOMAIN grants
       THEN Return(Deny(Because("PageLocked")))
     ELSE IF action = "manage_authors" /\ page.subject_is_author /\ ~page.locked
       THEN Return(Allow(Because("AuthorGrant")))
     ELSE IF action \in DOMAIN grants
       THEN Return(Allow(BecauseOf("RoleGrant", grants[action])))
     ELSE Return(Deny(Because("NoGrant")))

\* resolve() is called again with the same policy, page and action, for the subject with one
\* more role of the policy.
AskAgain(id) ==
  /\ pc = "done"
  /\ Known(input, id)
  /\ id \notin subject.role_ids
  /\ subject' = [subject EXCEPT !.role_ids = @ \cup {id}]
  /\ earlier' = (earlier \/ decision.allowed)
  /\ pc' = "account"
  /\ next' = 1
  /\ roles' = NoMap
  /\ overrides' = NoMap
  /\ unvisited' = {}
  /\ grants' = NoMap
  /\ decision' = Deny(Because("NoGrant"))
  /\ UNCHANGED <<input, page, action>>

Next ==
  \/ CheckAccount
  \/ InsertRole
  \/ RolesDone
  \/ InsertOverride
  \/ OverridesDone
  \/ \E id \in GroupId : CheckSubjectRole(id)
  \/ SubjectDone
  \/ \E id \in GroupId : MergeRole(id)
  \/ Decide
  \/ \E id \in GroupId : AskAgain(id)

Spec == Init /\ [][Next]_vars

-----------------------------------------------------------------------------
(* Correctness.                                                            *)

IsMap(map) == DOMAIN map \subseteq GroupId /\ \A id \in DOMAIN map : map[id] \in RolePolicy

TypeOK ==
  /\ input \in Inputs /\ subject \in PolicySubject
  /\ page \in PagePolicyState /\ action \in Asked
  /\ earlier \in BOOLEAN
  /\ pc \in {"account", "roles", "overrides", "subject", "grants", "done"}
  /\ next \in Nat \ {0}
  /\ IsMap(roles) /\ IsMap(overrides)
  /\ unvisited \subseteq subject.role_ids
  /\ DOMAIN grants \subseteq Action /\ \A a \in DOMAIN grants : grants[a] \in GroupId
  /\ decision \in Decision

Done == pc = "done"

\* The loops, the maps and the early returns compute the declarative decision:
\* which answer, on whose credit, and for a damaged policy which of its defects
\* is reported.
ComputesResolved == Done => decision = Resolved(input, subject, page, action)

\* A policy with a role or an override named twice, an override of an unknown
\* role, or a subject with one, lets nobody in but superusers, whichever part is
\* damaged and whether or not this subject's roles use it.
FailsClosed == Done /\ decision.allowed /\ ~WellFormed(input, subject) => subject.is_superuser

\* Restrictions are local to a role, and no grant of one role hides another's: what
\* resolve() has allowed to a subject it still allows, called again after the subject was
\* given one more role of the policy, or several, whatever these restrict.
RolesOnlyAdd == Done /\ earlier => decision.allowed

\* A lock holds against everybody, the authors of the page included, except a
\* superuser and those who may lock and have been granted the action itself.
LockHolds ==
  Done /\ decision.allowed /\ page.locked /\ RemovedByPageLock(action) =>
    \/ subject.is_superuser
    \/ /\ Grantors(input, subject, "lock") # {}
       /\ Grantors(input, subject, action) # {}

\* crates/core/src/policy.rs:115: "Invalid or incomplete input always produces a
\* denial".
InvalidIsDenied == Done /\ ~WellFormed(input, subject) => ~decision.allowed

-----------------------------------------------------------------------------
(* The inductive invariant: what each loop has established so far.         *)

\* The first n entries are all different and make up the map.
Built(map, entries, n) ==
  /\ DOMAIN map = {entries[i].role_id : i \in 1 .. n}
  /\ \A i \in 1 .. n : map[entries[i].role_id] = entries[i] /\ ~Repeats(entries, i)

Visited == subject.role_ids \ unvisited

InOrder == \A id \in Visited, other \in unvisited : id < other

\* The grants are those of the visited roles, each to the credit of the first.
Credited ==
  /\ DOMAIN grants = {a \in Action : \E id \in Visited : Grants(input, id, a)}
  /\ \A a \in DOMAIN grants :
       /\ grants[a] \in Visited
       /\ Grants(input, grants[a], a)
       /\ \A id \in Visited : Grants(input, id, a) => grants[a] <= id

RolesBuilt == Built(roles, input.roles, Len(input.roles))

OverridesBuilt == Built(overrides, input.category_overrides, Len(input.category_overrides))

LoopInv ==
  /\ pc \notin {"account", "done"} => subject.is_active /\ ~subject.is_superuser
  /\ pc \in {"account", "roles", "overrides", "subject"} => grants = NoMap
  /\ pc = "account" => next = 1 /\ roles = NoMap
  /\ pc \in {"account", "roles"} => overrides = NoMap
  /\ pc = "roles" =>
       next \in 1 .. Len(input.roles) + 1 /\ Built(roles, input.roles, next - 1)
  /\ pc = "overrides" =>
       /\ RolesBuilt
       /\ next \in 1 .. Len(input.category_overrides) + 1
       /\ Built(overrides, input.category_overrides, next - 1)
       /\ \A i \in 1 .. next - 1 : Known(input, input.category_overrides[i].role_id)
  /\ pc \in {"subject", "grants"} =>
       /\ RolesBuilt /\ OverridesBuilt
       /\ RepeatedRoles(input) = {} /\ BadOverrides(input) = {}
       /\ InOrder
  /\ pc = "subject" => \A id \in Visited : Known(input, id)
  /\ pc = "grants" => UnknownRoles(input, subject) = {} /\ Credited

\* What was allowed to fewer roles, the call that is running is to allow.
EarlierInv == earlier => Resolved(input, subject, page, action).allowed

IInv == TypeOK /\ LoopInv /\ ComputesResolved /\ EarlierInv

=============================================================================
