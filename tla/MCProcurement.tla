---------------------------- MODULE MCProcurement ----------------------------
(***************************************************************************)
(* Instances of Procurement for TLC.  Clients, order items, receipts and   *)
(* items are interchangeable.                                              *)
(***************************************************************************)
EXTENDS Procurement, FiniteSets, TLC

\* Accepted and rejected quantities: negative ones are among them.
AnyPortions == {-1, 1, 2}
SomePortions == {-1, 1}

Symmetry ==
  Permutations(Clients) \cup Permutations(LineIds) \cup Permutations(Receipts)
    \cup Permutations(Items)

\* A bound: an order lists at most one quantity of zero, and has one receipt
\* then; receipts list none.
Zeros == {l \in LineIds : line[l].status = "LIVE" /\ line[l].ordered = 0}
FewZeros ==
  /\ \A c \in Clients : call[c].op = "createReceipt" =>
       \A i \in DOMAIN call[c].items : call[c].items[i].quantity # 0
  /\ Zeros # {} => /\ Cardinality(Zeros) = 1
                   /\ Cardinality({g \in Receipts : Exists(receipt[g])}) <= 1

\* A bound: requests are approved, and may be deleted, before there are receipts.
DecidedFirst ==
  (\E g \in Receipts : Exists(receipt[g])) =>
    \A p \in Requests : request[p] \in {"APPROVED", "DELETED"}

\* A bound: two receipts bring one item between them, one receipt any items.
OneItemTwice ==
  LET made == {g \in Receipts : Exists(receipt[g])} IN
    Cardinality(made) > 1 =>
      Cardinality(UNION {DOMAIN receipt[g].items : g \in made}) <= 1
==============================================================================
