---------------------------- MODULE MCSupervision ----------------------------
(***************************************************************************)
(* Instances of Supervision for TLC.                                       *)
(***************************************************************************)
EXTENDS Supervision, TLC

Symmetry ==
  Permutations(Guards) \cup Permutations(Employees) \cup Permutations(Users)
    \cup Permutations(Roles) \cup Permutations(Locations) \cup Permutations(Postings)
    \cup Permutations(ServiceNumbers) \cup Permutations(Cnics) \cup Permutations(Callers)

\* A bound: a behaviour has at most one of these troubles: a row is deleted,
\* with its cascade; the person of an account gets other unique columns; the
\* roles are other than one by the name of supervisor and one by another name.
Deleted(table) == {x \in DOMAIN table : table[x] = Gone}
Named(name) == {q \in Roles : Present(role[q]) /\ role[q].name = name}
RolesInOrder == Cardinality(Named("supervisor")) = 1 /\ Cardinality(Named("other")) = 1
MaxTroubles == 1
FewTroubles ==
  Cardinality(Deleted(guard)) + Cardinality(Deleted(employee)) + Cardinality(Deleted(user))
    + Cardinality(Locations \ site) + Cardinality(renumbered \cup recarded)
    + (IF RolesInOrder THEN 0 ELSE 1) <= MaxTroubles

\* A bound: at most one of two requests is an assignment, which is asked for when
\* the roles are in order, as it does not look at them, and one makes an account,
\* as there is one user to be made.
Assignments == {c \in Callers : call[c].goal \in {"subject", "superior", "update"}}
NewAccounts == {c \in Callers : call[c].op = "account"}
OneOfAKind ==
  /\ Cardinality(Assignments) + Cardinality(NewAccounts) <= 1
  /\ Assignments # {} => RolesInOrder

\* A bound: guards and employees are two between them.
Made(table) == {x \in DOMAIN table : table[x] # Unused}
FewPersons == Cardinality(Made(guard)) + Cardinality(Made(employee)) <= 2
==============================================================================
