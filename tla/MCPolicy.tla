------------------------------ MODULE MCPolicy ------------------------------
(***************************************************************************)
(* Policy instantiated for TLC: well-formed policies of two roles with at  *)
(* most one override each, and policies with one defect or several.        *)
(***************************************************************************)
EXTENDS Policy

Ids == 1 .. 3

Entry(id, allows, restrictions) ==
  [role_id |-> id, allows |-> allows, restrictions |-> restrictions]

\* What one role or override can say of the actions that are asked for.
Rules ==
  {<<{"edit"}, {}>>, <<{"edit"}, {"edit"}>>, <<{}, {"edit"}>>, <<{"lock"}, {}>>,
   <<{"edit", "lock", "manage_authors"}, {"lock"}>>}

Entries(id) == {Entry(id, rule[1], rule[2]) : rule \in Rules}

TwoRoles == {<<a, b>> : a \in Entries(1), b \in Entries(2)}

UpToTwoOverrides ==
  {<<>>} \cup {<<a>> : a \in Entries(1)} \cup {<<b, a>> : a \in Entries(1), b \in Entries(2)}

SoundPolicies == [roles : TwoRoles, category_overrides : UpToTwoOverrides]

Open(id) == Entry(id, {"edit"}, {})

\* Lists with a role named twice, a role that is not there, or both.
DamagedPolicies ==
  [roles : {<<Open(1), Open(1), Open(2)>>, <<Open(2), Open(1), Open(2), Open(1)>>,
            <<Open(1)>>, <<Open(2), Open(1)>>},
   category_overrides : {<<>>, <<Open(3)>>, <<Open(1), Open(1)>>, <<Open(2), Open(3), Open(2)>>,
                         <<Open(1), Open(2), Open(1), Open(3)>>}]

Policies == SoundPolicies \cup DamagedPolicies

Subject(active, superuser, ids) ==
  [is_active |-> active, is_superuser |-> superuser, role_ids |-> ids]

Askers ==
  {Subject(TRUE, FALSE, ids) : ids \in {{}, {1}, {1, 2}, {2, 3}}}
    \cup {Subject(FALSE, TRUE, {1}), Subject(TRUE, TRUE, {2})}

AskedActions == {"edit", "manage_authors"}

=============================================================================
