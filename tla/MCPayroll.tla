------------------------------ MODULE MCPayroll ------------------------------
(***************************************************************************)
(* Instances of Payroll for TLC.                                           *)
(***************************************************************************)
EXTENDS Payroll, TLC

MCSalary == [l \in Locations |-> 3]

Symmetry ==
  Permutations(Guards) \cup Permutations(Locations) \cup Permutations(Entries)
    \cup Permutations(Locks) \cup Permutations(Allowances) \cup Permutations(Callers)

\* One deployment of all days, one that has ended and one that goes on, none.
MCRosters ==
  LET row(l, from, till) == [loc |-> l, from |-> from, till |-> till]
  IN {{}} \cup {{row(l, 1, None)} : l \in Locations}
          \cup {{row(l, 1, 1), row(l, 2, None)} : l \in Locations}

\* A bound: at most MaxChanges rows are deleted, rewritten or marked overtime in
\* a state, cascades apart.
MaxChanges == 1
Deleted(table) == Cardinality({x \in DOMAIN table : table[x] = Gone})
Rewritten == Cardinality({r \in Locks : lock[r] \in LockRow /\ lock[r].moved})
Overtime == Cardinality({e \in Entries : Present(attendance[e]) /\ attendance[e].overtime})
FewChanges ==
  Deleted(attendance) + Deleted(lock) + Deleted(deduction) + Rewritten + Overtime <= MaxChanges

\* A bound: at most MaxRows rows are created, in all tables together.
MaxRows == 3
Created(table) == Cardinality({x \in DOMAIN table : table[x] # Unused})
FewRows == Created(attendance) + Created(lock) + Created(allowance) + Created(deduction) <= MaxRows
==============================================================================
