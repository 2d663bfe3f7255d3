------------------------------ MODULE StockRows ------------------------------
(***************************************************************************)
(* The row of the Inventory table of one store and one item, and the four  *)
(* ways the services of src/src/inventory write it.  The column            *)
(* quantityAvailable is stored, not computed: every writer has to keep it  *)
(* equal to quantityOnHand - quantityReserved by itself, and the writers   *)
(* do so in two styles, by adding the same amount to two columns (goods    *)
(* receipt, transfer) or by recomputing the difference (issuance, return). *)
(***************************************************************************)
EXTENDS Integers, Functions

CONSTANTS Items,       \* the items of the organization's catalogue
          Quantities,  \* the quantities a request may carry
          NoRow        \* no row for this store and item

\* The request DTOs declare quantities as integers, without a lower bound.
ASSUME QuantitiesAssumption == Quantities \subseteq Int

Row == [onHand : Int, reserved : Int, available : Int]

ASSUME NoRowAssumption == NoRow \notin Row

\* The lines of a document: the items it lists, each with its quantity.
Lines == UNION {[S -> Quantities] : S \in SUBSET Items}

NoLines == [i \in {} |-> 0]

RowOf(onHand, reserved, available) ==
  [onHand |-> onHand, reserved |-> reserved, available |-> available]

EmptyRow == RowOf(0, 0, 0)

\* Mutant of PutIn: an existing row's availability is not updated.
PutInOnHandOnly(row, q) ==
  IF row = NoRow THEN RowOf(q, 0, q)
  ELSE RowOf(row.onHand + q, row.reserved, row.available)

\* Goods come into a store: the row is created with the quantity, or both
\* columns grow by it.  A goods receipt does it with atomic increments, a
\* transfer by writing the sums.
PutIn(row, q) ==
  IF row = NoRow THEN RowOf(q, 0, q)
  ELSE RowOf(row.onHand + q, row.reserved, row.available + q)

\* A transfer takes goods out of its source store.
TakeOut(row, q) == RowOf(row.onHand - q, row.reserved, row.available - q)

\* An issuance reserves goods for a guard.
Reserve(row, q) ==
  RowOf(row.onHand, row.reserved + q, row.onHand - (row.reserved + q))

\* Mutant of Release: returned goods are also counted as goods come in.
ReleaseAndPutIn(row, q) ==
  RowOf(row.onHand + q, row.reserved - q, row.onHand - row.reserved + 2 * q)

\* A return gives reserved goods back.
Release(row, q) ==
  RowOf(row.onHand, row.reserved - q, row.onHand - (row.reserved - q))

StatusAfterReturn(issued, returned) ==
  LET both          == DOMAIN issued \cap DOMAIN returned
      totalIssued   == SumFunction(issued)
      totalReturned == SumFunction(Restrict(returned, both))
      partial       == \E i \in DOMAIN issued :
                          i \notin both \/ returned[i] < issued[i]
  IN IF totalReturned >= totalIssued THEN "FULL_RETURN"
     ELSE IF partial \/ totalReturned > 0 THEN "PARTIAL_RETURN"
     ELSE "ISSUED"
==============================================================================
