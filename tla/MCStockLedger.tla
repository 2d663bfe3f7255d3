---------------------------- MODULE MCStockLedger ----------------------------
(***************************************************************************)
(* Instances of StockLedger for TLC.  The documents of one kind are        *)
(* interchangeable, and so are the two stores.                             *)
(***************************************************************************)
EXTENDS StockLedger, FiniteSets, TLC

\* Quantities no DTO bounds from below: a negative one is among them.
AnyQuantities == {-1, 1, 2}

Symmetry ==
  Permutations(Stores) \cup Permutations(Issuances) \cup Permutations(Returns)
    \cup Permutations(Receipts) \cup Permutations(Transfers)

\* A bound: four documents, and beside two issuances one that is no return.
Made(docs) == Cardinality({d \in DOMAIN docs : docs[d].status # "NONE"})
FewDocuments ==
  LET others == Made(transfer) + Cardinality(posted) IN
    /\ Made(issuance) + Made(returned) + others <= 4
    /\ Made(issuance) > 1 => others <= 1

\* A bound: three documents when one of them has a negative line.
Negative(docs) ==
  \E d \in DOMAIN docs : Exists(docs[d]) /\ \E i \in DOMAIN docs[d].items : docs[d].items[i] < 0
FewNegatives ==
  Negative(transfer) \/ Negative(issuance) \/ Negative(returned) \/ misbooked # {} =>
    /\ Made(transfer) + Made(issuance) + Made(returned) + Cardinality(posted) <= 3
    /\ Cardinality(purged) <= 1
==============================================================================
