----------------------------- MODULE MCCatalogue -----------------------------
(***************************************************************************)
(* Instances of Catalogue for TLC.                                         *)
(***************************************************************************)
EXTENDS Catalogue, TLC

Symmetry ==
  Permutations(Organizations) \cup Permutations(Offices) \cup Permutations(Users)
    \cup Permutations(Receipts) \cup Permutations(Callers)

\* A bound: at most MaxRemovals rows are deleted in a behaviour by a request,
\* cascades and cards apart.
MaxRemovals == 1
Deleted(table) == Cardinality({x \in DOMAIN table : table[x] = Gone})
FewRemovals ==
  Deleted(office) + Deleted(category) + Deleted(group) + Deleted(vendor)
    + Cardinality(Users \ users) <= MaxRemovals

\* A bound: once there are orders, at most one request is between its steps.
OneRequestWithOrders ==
  (\E p \in Orders : order[p] # Unused) =>
    Cardinality({c \in Callers : call[c] # Idle}) <= 1

\* A bound: a behaviour has cards or orders, which have nothing in common but
\* the items and stores they hang on.
CardsOrOrders ==
  (\A d \in Cards : card[d] = Unused) \/ (\A p \in Orders : order[p] = Unused)
==============================================================================
