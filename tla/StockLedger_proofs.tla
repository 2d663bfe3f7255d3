------------------------- MODULE StockLedger_proofs -------------------------
(***************************************************************************)
(* What the stock ledger guarantees for every finite set of stores and     *)
(* every set of items, documents and quantities.  The first half is about  *)
(* one cell of the inventory at a time, so the lemmas about the four row   *)
(* operations carry the arithmetic and the step from a cell to the tables  *)
(* is the same for every handler.  The second half is about the sums over  *)
(* the stores: transfers conserve them, and the ledger implements the pool *)
(* of the organization (StockPool).                                        *)
(***************************************************************************)
EXTENDS StockLedger, FiniteSetTheorems, TLAPS

\* The lines of a document list items of the catalogue with integer quantities.
LEMMA LinesAreInt ==
  ASSUME NEW lines \in Lines
  PROVE  /\ DOMAIN lines \subseteq Items
         /\ \A i \in DOMAIN lines : lines[i] \in Int
BY QuantitiesAssumption DEF Lines

\* A document books nothing negative on a cell that it leaves as it was booked.
LEMMA BookedIsNatural ==
  ASSUME NEW s, NEW lines, \A i \in DOMAIN lines : lines[i] \in Int,
         NEW d \in Cells, d \notin Misbooked(s, lines), Touches(s, lines, d)
  PROVE  lines[d[2]] >= 0
BY DEF Misbooked, Touches

\* Each operation on a row yields a row.
LEMMA RowOperations ==
  ASSUME NEW row \in Row, NEW q \in Int
  PROVE  /\ PutIn(row, q) \in Row
         /\ PutIn(NoRow, q) \in Row
         /\ TakeOut(row, q) \in Row
         /\ Reserve(row, q) \in Row
         /\ Release(row, q) \in Row
         /\ EmptyRow \in Row
         /\ row # NoRow
<1>1. row # NoRow
  BY NoRowAssumption
<1>2. PutIn(row, q) \in Row
  BY <1>1 DEF PutIn, RowOf, Row
<1>3. PutIn(NoRow, q) \in Row
  BY DEF PutIn, RowOf, Row
<1>4. TakeOut(row, q) \in Row
  BY DEF TakeOut, RowOf, Row
<1>5. Reserve(row, q) \in Row
  BY DEF Reserve, RowOf, Row
<1>6. Release(row, q) \in Row
  BY DEF Release, RowOf, Row
<1>7. EmptyRow \in Row
  BY DEF EmptyRow, RowOf, Row
<1> QED
  BY <1>1, <1>2, <1>3, <1>4, <1>5, <1>6, <1>7

-----------------------------------------------------------------------------
(* Documents.                                                                *)

\* A document that exists has all its columns, and keeps its type when its
\* status or its lines change.
LEMMA LiveTransfer ==
  ASSUME NEW d \in TransferDoc, Exists(d)
  PROVE  /\ d.from \in Stores /\ d.to \in Stores /\ d.items \in Lines
         /\ \A st \in {"DRAFT", "IN_TRANSIT", "RECEIVED", "CANCELLED"} :
              [d EXCEPT !.status = st] \in TransferDoc
         /\ \A lines \in Lines : [d EXCEPT !.items = lines] \in TransferDoc
BY DEF TransferDoc, Exists

LEMMA LiveIssuance ==
  ASSUME NEW d \in IssuanceDoc, Exists(d)
  PROVE  /\ d.store \in Stores /\ d.items \in Lines
         /\ \A st \in IssuanceStatus : [d EXCEPT !.status = st] \in IssuanceDoc
BY DEF IssuanceDoc, IssuanceStatus, Exists

\* A document may always be absent.
LEMMA AbsentDocument ==
  ASSUME NEW st \in {"NONE", "DELETED"}
  PROVE  /\ Absent(st) \in TransferDoc
         /\ Absent(st) \in IssuanceDoc
         /\ Absent(st) \in ReturnDoc
BY DEF Absent, TransferDoc, IssuanceDoc, ReturnDoc

LEMMA NoLinesIsLines == NoLines \in Lines
BY DEF NoLines, Lines

\* A return gives its issuance one of the statuses of the table.
LEMMA ReturnStatus ==
  ASSUME NEW issued, NEW back
  PROVE  StatusAfterReturn(issued, back) \in IssuanceStatus
BY DEF StatusAfterReturn, IssuanceStatus
-----------------------------------------------------------------------------
(* Tables.                                                                   *)

\* Putting goods into a store keeps the type of the inventory.
LEMMA ApplyPutIn ==
  ASSUME NEW inv \in [Cells -> Row \cup {NoRow}], NEW s \in Stores,
         NEW lines, DOMAIN lines \subseteq Items,
         \A i \in DOMAIN lines : lines[i] \in Int
  PROVE  PutInAll(inv, s, lines) \in [Cells -> Row \cup {NoRow}]
<1> SUFFICES ASSUME NEW c \in Cells, Touches(s, lines, c)
             PROVE  PutIn(inv[c], lines[c[2]]) \in Row
  BY DEF PutInAll, Apply
<1>1. lines[c[2]] \in Int
  BY DEF Touches
<1>2. CASE inv[c] = NoRow
  BY <1>1, <1>2 DEF PutIn, RowOf, Row
<1>3. CASE inv[c] \in Row
  BY <1>1, <1>3, RowOperations
<1> QED
  BY <1>2, <1>3

\* So do the operations that need a row, when every line has one.
LEMMA ApplyToStocked ==
  ASSUME NEW inv \in [Cells -> Row \cup {NoRow}], NEW s \in Stores,
         NEW lines \in Lines, \A i \in DOMAIN lines : inv[<<s, i>>] # NoRow
  PROVE  /\ TakeOutAll(inv, s, lines) \in [Cells -> Row \cup {NoRow}]
         /\ ReserveAll(inv, s, lines) \in [Cells -> Row \cup {NoRow}]
         /\ ReleaseAll(inv, s, lines) \in [Cells -> Row \cup {NoRow}]
<1>1. ASSUME NEW c \in Cells, Touches(s, lines, c)
      PROVE  /\ lines[c[2]] \in Int
             /\ inv[c] \in Row
  BY <1>1, LinesAreInt DEF Touches, Cells
<1>2. TakeOutAll(inv, s, lines) \in [Cells -> Row \cup {NoRow}]
  BY <1>1, RowOperations DEF TakeOutAll, Apply
<1>3. ReserveAll(inv, s, lines) \in [Cells -> Row \cup {NoRow}]
  BY <1>1, RowOperations DEF ReserveAll, Apply
<1>4. ReleaseAll(inv, s, lines) \in [Cells -> Row \cup {NoRow}]
  BY <1>1, RowOperations DEF ReleaseAll, Apply
<1> QED
  BY <1>2, <1>3, <1>4

MovementType == {"inbound", "transferIn", "transferOut", "issued", "returned"}

\* Recording lines keeps the type of the movements.
LEMMA RecordLines ==
  ASSUME NEW mov \in [Cells -> Movement], NEW s \in Stores,
         NEW type \in MovementType, NEW lines,
         \A i \in DOMAIN lines : lines[i] \in Int
  PROVE  Record(type, mov, s, lines) \in [Cells -> Movement]
BY DEF Record, Touches, Movement, MovementType
-----------------------------------------------------------------------------
(* Type correctness.                                                         *)

\* Every handler keeps every table within its columns' ranges.
THEOREM TypeCorrect == Spec => []TypeOK
<1>1. Init => TypeOK
  BY AbsentDocument DEF Init, TypeOK, NoMovement, Movement
<1>2. TypeOK /\ [Next]_vars => TypeOK'
  <2> SUFFICES ASSUME TypeOK, [Next]_vars
               PROVE  TypeOK'
    OBVIOUS
  <2> USE DEF TypeOK, history, Misbooked
  <2>1. ASSUME NEW c \in Cells, CreateInventory(c)
        PROVE  TypeOK'
    BY <2>1 DEF CreateInventory, EmptyRow, RowOf, Row
  <2>2. ASSUME NEW c \in Cells, RemoveInventory(c)
        PROVE  TypeOK'
    BY <2>2 DEF RemoveInventory
  <2>3. ASSUME NEW g \in Receipts, NEW s \in Stores, NEW accepted \in Lines,
               PostInbound(g, s, accepted)
        PROVE  TypeOK'
    <3> DEFINE lines == Restrict(accepted, {i \in DOMAIN accepted : accepted[i] > 0})
    <3>1. /\ DOMAIN lines \subseteq Items
          /\ \A i \in DOMAIN lines : lines[i] \in Int
      BY LinesAreInt DEF Restrict
    <3>2. /\ inventory' = PutInAll(inventory, s, lines)
          /\ movement' = Record("inbound", movement, s, lines)
          /\ posted' = posted \cup {g}
          /\ UNCHANGED <<transfer, issuance, returned, history>>
      BY <2>3 DEF PostInbound
    <3> HIDE DEF lines
    <3>3. inventory' \in [Cells -> Row \cup {NoRow}]
      BY <3>1, <3>2, ApplyPutIn
    <3>4. movement' \in [Cells -> Movement]
      BY <3>1, <3>2, RecordLines DEF MovementType
    <3> QED
      BY <3>2, <3>3, <3>4
  <2>4. ASSUME NEW t \in Transfers, NEW from \in Stores, NEW to \in Stores,
               NEW lines \in Lines, CreateTransfer(t, from, to, lines)
        PROVE  TypeOK'
    BY <2>4 DEF CreateTransfer, TransferDoc
  <2>5. ASSUME NEW t \in Transfers, NEW from \in Stores, NEW to \in Stores,
               NEW lines \in Lines, UpdateTransfer(t, from, to, lines)
        PROVE  TypeOK'
    BY <2>5 DEF UpdateTransfer, TransferDoc
  <2>6. ASSUME NEW t \in Transfers, UpdateTransferFails(t)
        PROVE  TypeOK'
    BY <2>6, LiveTransfer, NoLinesIsLines DEF UpdateTransferFails, Exists
  <2>7. ASSUME NEW t \in Transfers, RemoveTransfer(t)
        PROVE  TypeOK'
    BY <2>7, AbsentDocument DEF RemoveTransfer
  <2>8. ASSUME NEW t \in Transfers, SubmitTransfer(t)
        PROVE  TypeOK'
    BY <2>8, LiveTransfer DEF SubmitTransfer, Exists
  <2>9. ASSUME NEW t \in Transfers, CancelTransfer(t)
        PROVE  TypeOK'
    BY <2>9, LiveTransfer DEF CancelTransfer, Exists
  <2>10. ASSUME NEW t \in Transfers, ReceiveTransfer(t)
         PROVE  TypeOK'
    <3> DEFINE doc == transfer[t]
    <3>1. /\ doc.from \in Stores /\ doc.to \in Stores /\ doc.items \in Lines
          /\ [doc EXCEPT !.status = "RECEIVED"] \in TransferDoc
          /\ \A i \in DOMAIN doc.items : inventory[<<doc.from, i>>] # NoRow
      BY <2>10, LiveTransfer DEF ReceiveTransfer, Exists, CanReceive, AllStocked
    <3>2. /\ inventory' = MoveStock(inventory, doc)
          /\ movement' = RecordTransfer(movement, doc)
          /\ transfer' = [transfer EXCEPT ![t] = [doc EXCEPT !.status = "RECEIVED"]]
          /\ UNCHANGED <<issuance, returned, posted, purged>>
          /\ misbooked' \subseteq Cells
      BY <2>10 DEF ReceiveTransfer
    <3> HIDE DEF doc
    <3>3. inventory' \in [Cells -> Row \cup {NoRow}]
      BY <3>1, <3>2, ApplyToStocked, ApplyPutIn, LinesAreInt DEF MoveStock
    <3>4. movement' \in [Cells -> Movement]
      BY <3>1, <3>2, RecordLines, LinesAreInt DEF RecordTransfer, MovementType
    <3> QED
      BY <3>1, <3>2, <3>3, <3>4
  <2>11. ASSUME NEW n \in Issuances, NEW s \in Stores, NEW lines \in Lines,
                CreateIssuance(n, s, lines)
         PROVE  TypeOK'
    <3>1. inventory' \in [Cells -> Row \cup {NoRow}]
      BY <2>11, ApplyToStocked DEF CreateIssuance, CanIssue, AllStocked
    <3>2. movement' \in [Cells -> Movement]
      BY <2>11, RecordLines, LinesAreInt DEF CreateIssuance, MovementType
    <3>3. issuance' \in [Issuances -> IssuanceDoc]
      BY <2>11 DEF CreateIssuance, IssuanceDoc, IssuanceStatus
    <3> QED
      BY <2>11, <3>1, <3>2, <3>3 DEF CreateIssuance
  <2>12. ASSUME NEW n \in Issuances, NEW st \in IssuanceStatus,
                UpdateIssuance(n, st)
         PROVE  TypeOK'
    BY <2>12, LiveIssuance DEF UpdateIssuance
  <2>13. ASSUME NEW n \in Issuances, DeleteIssuance(n)
         PROVE  TypeOK'
    BY <2>13, AbsentDocument DEF DeleteIssuance
  <2>14. ASSUME NEW r \in Returns, NEW n \in Issuances, NEW lines \in Lines,
                CreateReturn(r, n, lines)
         PROVE  TypeOK'
    <3>1. /\ issuance[n].store \in Stores
          /\ \A st \in IssuanceStatus : [issuance[n] EXCEPT !.status = st] \in IssuanceDoc
      BY <2>14, LiveIssuance DEF CreateReturn
    <3>2. inventory' \in [Cells -> Row \cup {NoRow}]
      BY <2>14, <3>1, ApplyToStocked DEF CreateReturn, CanReturn, AllStocked
    <3>3. movement' \in [Cells -> Movement]
      BY <2>14, <3>1, RecordLines, LinesAreInt DEF CreateReturn, MovementType
    <3>4. issuance' \in [Issuances -> IssuanceDoc]
      BY <2>14, <3>1, ReturnStatus DEF CreateReturn
    <3>5. returned' \in [Returns -> ReturnDoc]
      BY <2>14 DEF CreateReturn, ReturnDoc
    <3> QED
      BY <2>14, <3>2, <3>3, <3>4, <3>5 DEF CreateReturn
  <2>15. ASSUME NEW r \in Returns, DeleteReturn(r)
         PROVE  TypeOK'
    BY <2>15, AbsentDocument DEF DeleteReturn
  <2>16. CASE UNCHANGED vars
    BY <2>16 DEF vars
  <2> QED
    BY <2>1, <2>2, <2>3, <2>4, <2>5, <2>6, <2>7, <2>8, <2>9, <2>10, <2>11,
       <2>12, <2>13, <2>14, <2>15, <2>16
       DEF Next, RowStep, InboundStep, TransferStep, IssuanceStep, ReturnStep
<1> QED
  BY <1>1, <1>2, PTL DEF Spec
-----------------------------------------------------------------------------
(* The books of one cell.                                                    *)

\* The row's three columns agree with each other and, unless a request
\* deleted the row, with the movements.
CellBalanced(row, mov, d, gone) ==
  /\ row # NoRow => row.available = row.onHand - row.reserved
  /\ d \notin gone =>
       IF row = NoRow THEN mov = NoMovement
       ELSE /\ row.onHand = mov.inbound + mov.transferIn - mov.transferOut
            /\ row.reserved = mov.issued - mov.returned

\* Neither stock nor reservations are negative, and only where goods were
\* transferred out may less be on hand than is reserved.
CellSolvent(row, mov) ==
  /\ mov.transferOut >= 0
  /\ row # NoRow => /\ row.onHand >= 0
                    /\ row.reserved >= 0
                    /\ row.available < 0 => mov.transferOut > 0

Balanced == \A c \in Cells : CellBalanced(inventory[c], movement[c], c, purged)

Solvent == \A c \in Cells \ misbooked : CellSolvent(inventory[c], movement[c])

Plus1(mov, type, q) == [mov EXCEPT ![type] = @ + q]

\* Goods that come in, with their movement, keep the books of a cell.
LEMMA PutInKeepsBooks ==
  ASSUME NEW row \in Row \cup {NoRow}, NEW mov \in Movement, NEW q \in Int,
         NEW d, NEW gone, NEW type \in {"inbound", "transferIn"},
         CellBalanced(row, mov, d, gone)
  PROVE  /\ CellBalanced(PutIn(row, q), Plus1(mov, type, q), d, gone)
         /\ CellSolvent(row, mov) /\ q >= 0
              => CellSolvent(PutIn(row, q), Plus1(mov, type, q))
<1>1. CASE row = NoRow
  BY <1>1, NoRowAssumption
     DEF CellBalanced, CellSolvent, PutIn, RowOf, Row, Plus1, Movement, NoMovement
<1>2. CASE row \in Row
  BY <1>2, NoRowAssumption
     DEF CellBalanced, CellSolvent, PutIn, RowOf, Row, Plus1, Movement
<1> QED
  BY <1>1, <1>2

\* So do goods a transfer takes out, within what is on hand.
LEMMA TakeOutKeepsBooks ==
  ASSUME NEW row \in Row, NEW mov \in Movement, NEW q \in Int,
         NEW d, NEW gone, CellBalanced(row, mov, d, gone)
  PROVE  /\ CellBalanced(TakeOut(row, q), Plus1(mov, "transferOut", q), d, gone)
         /\ CellSolvent(row, mov) /\ q >= 0 /\ row.onHand >= q
              => CellSolvent(TakeOut(row, q), Plus1(mov, "transferOut", q))
BY NoRowAssumption
   DEF CellBalanced, CellSolvent, TakeOut, RowOf, Row, Plus1, Movement

\* So do goods reserved, within what is on hand and not reserved yet.
LEMMA ReserveKeepsBooks ==
  ASSUME NEW row \in Row, NEW mov \in Movement, NEW q \in Int,
         NEW d, NEW gone, CellBalanced(row, mov, d, gone)
  PROVE  /\ CellBalanced(Reserve(row, q), Plus1(mov, "issued", q), d, gone)
         /\ CellSolvent(row, mov) /\ q >= 0 /\ row.onHand - row.reserved >= q
              => CellSolvent(Reserve(row, q), Plus1(mov, "issued", q))
BY NoRowAssumption
   DEF CellBalanced, CellSolvent, Reserve, RowOf, Row, Plus1, Movement

\* So do goods given back, within what is reserved.
LEMMA ReleaseKeepsBooks ==
  ASSUME NEW row \in Row, NEW mov \in Movement, NEW q \in Int,
         NEW d, NEW gone, CellBalanced(row, mov, d, gone)
  PROVE  /\ CellBalanced(Release(row, q), Plus1(mov, "returned", q), d, gone)
         /\ CellSolvent(row, mov) /\ q >= 0 /\ row.reserved >= q
              => CellSolvent(Release(row, q), Plus1(mov, "returned", q))
BY NoRowAssumption
   DEF CellBalanced, CellSolvent, Release, RowOf, Row, Plus1, Movement
-----------------------------------------------------------------------------
(* The books of every cell, when lines are applied and recorded.             *)

\* Lines put into a store, as a receipt or as the arrival of a transfer.
LEMMA LinesPutIn ==
  ASSUME NEW inv \in [Cells -> Row \cup {NoRow}], NEW mov \in [Cells -> Movement],
         NEW s \in Stores, NEW type \in {"inbound", "transferIn"}, NEW lines,
         \A i \in DOMAIN lines : lines[i] \in Int,
         NEW d \in Cells, NEW gone, CellBalanced(inv[d], mov[d], d, gone)
  PROVE  /\ CellBalanced(PutInAll(inv, s, lines)[d], Record(type, mov, s, lines)[d], d, gone)
         /\ /\ CellSolvent(inv[d], mov[d])
            /\ Touches(s, lines, d) => lines[d[2]] >= 0
            => CellSolvent(PutInAll(inv, s, lines)[d], Record(type, mov, s, lines)[d])
<1>1. CASE ~Touches(s, lines, d)
  BY <1>1 DEF PutInAll, Apply, Record
<1>2. CASE Touches(s, lines, d)
  <2> DEFINE q == lines[d[2]]
  <2>1. d = <<s, d[2]>> /\ d[2] \in DOMAIN lines
    BY <1>2 DEF Touches, Cells
  <2>2. q \in Int /\ inv[d] \in Row \cup {NoRow} /\ mov[d] \in Movement
    BY <2>1
  <2>3. /\ PutInAll(inv, s, lines)[d] = PutIn(inv[d], q)
        /\ Record(type, mov, s, lines)[d] = Plus1(mov[d], type, q)
    BY <1>2 DEF PutInAll, Apply, Record, Plus1
  <2> HIDE DEF q
  <2>4. /\ CellBalanced(PutIn(inv[d], q), Plus1(mov[d], type, q), d, gone)
        /\ CellSolvent(inv[d], mov[d]) /\ q >= 0
             => CellSolvent(PutIn(inv[d], q), Plus1(mov[d], type, q))
    BY <2>2, PutInKeepsBooks
  <2> QED
    BY <1>2, <2>1, <2>3, <2>4 DEF q
<1> QED
  BY <1>1, <1>2

\* Lines a transfer takes out of a store.
LEMMA LinesTakenOut ==
  ASSUME NEW inv \in [Cells -> Row \cup {NoRow}], NEW mov \in [Cells -> Movement],
         NEW s \in Stores, NEW lines, \A i \in DOMAIN lines : lines[i] \in Int,
         \A i \in DOMAIN lines : inv[<<s, i>>] # NoRow,
         NEW d \in Cells, NEW gone, CellBalanced(inv[d], mov[d], d, gone)
  PROVE  /\ CellBalanced(TakeOutAll(inv, s, lines)[d], Record("transferOut", mov, s, lines)[d], d, gone)
         /\ /\ CellSolvent(inv[d], mov[d])
            /\ Touches(s, lines, d) => lines[d[2]] >= 0
            /\ \A i \in DOMAIN lines : inv[<<s, i>>].onHand >= lines[i]
            => CellSolvent(TakeOutAll(inv, s, lines)[d], Record("transferOut", mov, s, lines)[d])
<1>1. CASE ~Touches(s, lines, d)
  BY <1>1 DEF TakeOutAll, Apply, Record
<1>2. CASE Touches(s, lines, d)
  <2> DEFINE q == lines[d[2]]
  <2>1. d = <<s, d[2]>> /\ d[2] \in DOMAIN lines
    BY <1>2 DEF Touches, Cells
  <2>2. q \in Int /\ inv[d] \in Row /\ mov[d] \in Movement
    BY <2>1
  <2>3. /\ TakeOutAll(inv, s, lines)[d] = TakeOut(inv[d], q)
        /\ Record("transferOut", mov, s, lines)[d] = Plus1(mov[d], "transferOut", q)
    BY <1>2 DEF TakeOutAll, Apply, Record, Plus1
  <2> HIDE DEF q
  <2>4. /\ CellBalanced(TakeOut(inv[d], q), Plus1(mov[d], "transferOut", q), d, gone)
        /\ CellSolvent(inv[d], mov[d]) /\ q >= 0 /\ inv[d].onHand >= q
             => CellSolvent(TakeOut(inv[d], q), Plus1(mov[d], "transferOut", q))
    BY <2>2, TakeOutKeepsBooks
  <2> QED
    BY <1>2, <2>1, <2>3, <2>4 DEF q
<1> QED
  BY <1>1, <1>2

\* Lines reserved by an issuance.
LEMMA LinesReserved ==
  ASSUME NEW inv \in [Cells -> Row \cup {NoRow}], NEW mov \in [Cells -> Movement],
         NEW s \in Stores, NEW lines, \A i \in DOMAIN lines : lines[i] \in Int,
         \A i \in DOMAIN lines : inv[<<s, i>>] # NoRow,
         NEW d \in Cells, NEW gone, CellBalanced(inv[d], mov[d], d, gone)
  PROVE  /\ CellBalanced(ReserveAll(inv, s, lines)[d], Record("issued", mov, s, lines)[d], d, gone)
         /\ /\ CellSolvent(inv[d], mov[d])
            /\ Touches(s, lines, d) => lines[d[2]] >= 0
            /\ \A i \in DOMAIN lines : inv[<<s, i>>].onHand - inv[<<s, i>>].reserved >= lines[i]
            => CellSolvent(ReserveAll(inv, s, lines)[d], Record("issued", mov, s, lines)[d])
<1>1. CASE ~Touches(s, lines, d)
  BY <1>1 DEF ReserveAll, Apply, Record
<1>2. CASE Touches(s, lines, d)
  <2> DEFINE q == lines[d[2]]
  <2>1. d = <<s, d[2]>> /\ d[2] \in DOMAIN lines
    BY <1>2 DEF Touches, Cells
  <2>2. q \in Int /\ inv[d] \in Row /\ mov[d] \in Movement
    BY <2>1
  <2>3. /\ ReserveAll(inv, s, lines)[d] = Reserve(inv[d], q)
        /\ Record("issued", mov, s, lines)[d] = Plus1(mov[d], "issued", q)
    BY <1>2 DEF ReserveAll, Apply, Record, Plus1
  <2> HIDE DEF q
  <2>4. /\ CellBalanced(Reserve(inv[d], q), Plus1(mov[d], "issued", q), d, gone)
        /\ CellSolvent(inv[d], mov[d]) /\ q >= 0
             /\ inv[d].onHand - inv[d].reserved >= q
             => CellSolvent(Reserve(inv[d], q), Plus1(mov[d], "issued", q))
    BY <2>2, ReserveKeepsBooks
  <2> QED
    BY <1>2, <2>1, <2>3, <2>4 DEF q
<1> QED
  BY <1>1, <1>2

\* Lines given back by a return.
LEMMA LinesReleased ==
  ASSUME NEW inv \in [Cells -> Row \cup {NoRow}], NEW mov \in [Cells -> Movement],
         NEW s \in Stores, NEW lines, \A i \in DOMAIN lines : lines[i] \in Int,
         \A i \in DOMAIN lines : inv[<<s, i>>] # NoRow,
         NEW d \in Cells, NEW gone, CellBalanced(inv[d], mov[d], d, gone)
  PROVE  /\ CellBalanced(ReleaseAll(inv, s, lines)[d], Record("returned", mov, s, lines)[d], d, gone)
         /\ /\ CellSolvent(inv[d], mov[d])
            /\ Touches(s, lines, d) => lines[d[2]] >= 0
            /\ \A i \in DOMAIN lines : inv[<<s, i>>].reserved >= lines[i]
            => CellSolvent(ReleaseAll(inv, s, lines)[d], Record("returned", mov, s, lines)[d])
<1>1. CASE ~Touches(s, lines, d)
  BY <1>1 DEF ReleaseAll, Apply, Record
<1>2. CASE Touches(s, lines, d)
  <2> DEFINE q == lines[d[2]]
  <2>1. d = <<s, d[2]>> /\ d[2] \in DOMAIN lines
    BY <1>2 DEF Touches, Cells
  <2>2. q \in Int /\ inv[d] \in Row /\ mov[d] \in Movement
    BY <2>1
  <2>3. /\ ReleaseAll(inv, s, lines)[d] = Release(inv[d], q)
        /\ Record("returned", mov, s, lines)[d] = Plus1(mov[d], "returned", q)
    BY <1>2 DEF ReleaseAll, Apply, Record, Plus1
  <2> HIDE DEF q
  <2>4. /\ CellBalanced(Release(inv[d], q), Plus1(mov[d], "returned", q), d, gone)
        /\ CellSolvent(inv[d], mov[d]) /\ q >= 0 /\ inv[d].reserved >= q
             => CellSolvent(Release(inv[d], q), Plus1(mov[d], "returned", q))
    BY <2>2, ReleaseKeepsBooks
  <2> QED
    BY <1>2, <2>1, <2>3, <2>4 DEF q
<1> QED
  BY <1>1, <1>2
-----------------------------------------------------------------------------
(* The books of every cell, handler by handler.                              *)

\* What a handler has to show of every cell: it stays balanced, and also solvent
\* when nothing negative was booked on it.
CellKept(d) ==
  /\ CellBalanced(inventory'[d], movement'[d], d, purged')
  /\ d \notin misbooked' => /\ d \notin misbooked
                            /\ CellSolvent(inventory[d], movement[d])
                                 => CellSolvent(inventory'[d], movement'[d])

BooksKept == \A d \in Cells : CellKept(d)

LEMMA BooksStayKept ==
  ASSUME BooksKept
  PROVE  Balanced' /\ (Solvent => Solvent')
BY DEF BooksKept, CellKept, Balanced, Solvent

LEMMA BooksUntouched ==
  ASSUME Balanced, UNCHANGED <<inventory, movement, history>>
  PROVE  BooksKept
BY DEF BooksKept, CellKept, Balanced, history

LEMMA RowCreated ==
  ASSUME TypeOK, Balanced, NEW c \in Cells, CreateInventory(c)
  PROVE  BooksKept
<1> SUFFICES ASSUME NEW d \in Cells
             PROVE  CellKept(d)
  BY DEF BooksKept
<1>1. CellBalanced(inventory[d], movement[d], d, purged)
  BY DEF Balanced
<1> QED
  BY <1>1, NoRowAssumption
     DEF CreateInventory, TypeOK, EmptyRow, RowOf, Row, NoMovement, history,
         CellKept, CellBalanced, CellSolvent

LEMMA RowRemoved ==
  ASSUME TypeOK, Balanced, NEW c \in Cells, RemoveInventory(c)
  PROVE  BooksKept
<1> SUFFICES ASSUME NEW d \in Cells
             PROVE  CellKept(d)
  BY DEF BooksKept
<1>1. CellBalanced(inventory[d], movement[d], d, purged)
  BY DEF Balanced
<1> QED
  BY <1>1 DEF RemoveInventory, TypeOK, CellKept, CellBalanced, CellSolvent

LEMMA GoodsPosted ==
  ASSUME TypeOK, Balanced, NEW g \in Receipts, NEW s \in Stores,
         NEW accepted \in Lines, PostInbound(g, s, accepted)
  PROVE  BooksKept
<1> DEFINE lines == Restrict(accepted, {i \in DOMAIN accepted : accepted[i] > 0})
<1> SUFFICES ASSUME NEW d \in Cells
             PROVE  CellKept(d)
  BY DEF BooksKept
<1>1. CellBalanced(inventory[d], movement[d], d, purged)
  BY DEF Balanced
<1>2. /\ inventory' = PutInAll(inventory, s, lines)
      /\ movement' = Record("inbound", movement, s, lines)
      /\ purged' = purged /\ misbooked' = misbooked
  BY DEF PostInbound, history
<1>3. \A i \in DOMAIN lines : lines[i] \in Int /\ lines[i] >= 0
  BY LinesAreInt DEF Restrict
<1>5. Touches(s, lines, d) => lines[d[2]] >= 0
  BY <1>3 DEF Touches
<1> HIDE DEF lines
<1>4. inventory \in [Cells -> Row \cup {NoRow}] /\ movement \in [Cells -> Movement]
  BY DEF TypeOK
<1> QED
  BY <1>1, <1>2, <1>3, <1>4, <1>5, LinesPutIn DEF CellKept

LEMMA TransferReceived ==
  ASSUME TypeOK, Balanced, NEW t \in Transfers, ReceiveTransfer(t)
  PROVE  BooksKept
<1> DEFINE from  == transfer[t].from
           to    == transfer[t].to
           lines == transfer[t].items
           inv   == TakeOutAll(inventory, from, lines)
           mov   == Record("transferOut", movement, from, lines)
<1> SUFFICES ASSUME NEW d \in Cells
             PROVE  CellKept(d)
  BY DEF BooksKept
<1>1. CellBalanced(inventory[d], movement[d], d, purged)
  BY DEF Balanced
<1>2. /\ from \in Stores /\ to \in Stores /\ lines \in Lines
      /\ \A i \in DOMAIN lines : inventory[<<from, i>>] # NoRow
      /\ \A i \in DOMAIN lines : inventory[<<from, i>>].onHand >= lines[i]
  BY LiveTransfer DEF ReceiveTransfer, Exists, CanReceive, AllStocked, TypeOK
<1>3. /\ inventory' = PutInAll(inv, to, lines)
      /\ movement' = Record("transferIn", mov, to, lines)
      /\ purged' = purged
      /\ misbooked' = misbooked \cup Misbooked(from, lines) \cup Misbooked(to, lines)
  BY DEF ReceiveTransfer, MoveStock, RecordTransfer
<1>4. \A i \in DOMAIN lines : lines[i] \in Int
  BY <1>2, LinesAreInt
<1>8. d \notin misbooked' =>
        /\ d \notin misbooked
        /\ Touches(from, lines, d) => lines[d[2]] >= 0
        /\ Touches(to, lines, d) => lines[d[2]] >= 0
  BY <1>3, <1>4, BookedIsNatural
<1> HIDE DEF from, to, lines
<1>5. inv \in [Cells -> Row \cup {NoRow}] /\ mov \in [Cells -> Movement]
  BY <1>2, <1>4, ApplyToStocked, RecordLines DEF TypeOK, MovementType
<1>6. inventory \in [Cells -> Row \cup {NoRow}] /\ movement \in [Cells -> Movement]
  BY DEF TypeOK
<1>7. /\ CellBalanced(inv[d], mov[d], d, purged)
      /\ d \notin misbooked' /\ CellSolvent(inventory[d], movement[d])
           => CellSolvent(inv[d], mov[d])
  BY <1>1, <1>2, <1>4, <1>6, <1>8, LinesTakenOut
<1> HIDE DEF inv, mov
<1>9. /\ CellBalanced(inventory'[d], movement'[d], d, purged)
      /\ d \notin misbooked' /\ CellSolvent(inv[d], mov[d])
           => CellSolvent(inventory'[d], movement'[d])
  BY <1>2, <1>3, <1>4, <1>5, <1>7, <1>8, LinesPutIn
<1> QED
  BY <1>3, <1>7, <1>8, <1>9 DEF CellKept

LEMMA GoodsIssued ==
  ASSUME TypeOK, Balanced, NEW n \in Issuances, NEW s \in Stores,
         NEW lines \in Lines, CreateIssuance(n, s, lines)
  PROVE  BooksKept
<1> SUFFICES ASSUME NEW d \in Cells
             PROVE  CellKept(d)
  BY DEF BooksKept
<1>1. CellBalanced(inventory[d], movement[d], d, purged)
  BY DEF Balanced
<1>2. /\ \A i \in DOMAIN lines : inventory[<<s, i>>] # NoRow
      /\ \A i \in DOMAIN lines :
           inventory[<<s, i>>].onHand - inventory[<<s, i>>].reserved >= lines[i]
      /\ inventory' = ReserveAll(inventory, s, lines)
      /\ movement' = Record("issued", movement, s, lines)
      /\ purged' = purged
      /\ misbooked' = misbooked \cup Misbooked(s, lines)
  BY DEF CreateIssuance, CanIssue, AllStocked
<1>3. \A i \in DOMAIN lines : lines[i] \in Int
  BY LinesAreInt
<1>5. d \notin misbooked' =>
        /\ d \notin misbooked
        /\ Touches(s, lines, d) => lines[d[2]] >= 0
  BY <1>2, <1>3, BookedIsNatural
<1>4. inventory \in [Cells -> Row \cup {NoRow}] /\ movement \in [Cells -> Movement]
  BY DEF TypeOK
<1> QED
  BY <1>1, <1>2, <1>3, <1>4, <1>5, LinesReserved DEF CellKept

LEMMA GoodsReturned ==
  ASSUME TypeOK, Balanced, NEW r \in Returns, NEW n \in Issuances,
         NEW lines \in Lines, CreateReturn(r, n, lines)
  PROVE  BooksKept
<1> DEFINE s == issuance[n].store
<1> SUFFICES ASSUME NEW d \in Cells
             PROVE  CellKept(d)
  BY DEF BooksKept
<1>1. CellBalanced(inventory[d], movement[d], d, purged)
  BY DEF Balanced
<1>2. /\ s \in Stores
      /\ \A i \in DOMAIN lines : inventory[<<s, i>>] # NoRow
      /\ \A i \in DOMAIN lines : inventory[<<s, i>>].reserved >= lines[i]
      /\ inventory' = ReleaseAll(inventory, s, lines)
      /\ movement' = Record("returned", movement, s, lines)
      /\ purged' = purged
      /\ misbooked' = misbooked \cup Misbooked(s, lines)
  BY LiveIssuance DEF CreateReturn, CanReturn, AllStocked, TypeOK
<1>3. \A i \in DOMAIN lines : lines[i] \in Int
  BY LinesAreInt
<1>5. d \notin misbooked' =>
        /\ d \notin misbooked
        /\ Touches(s, lines, d) => lines[d[2]] >= 0
  BY <1>2, <1>3, BookedIsNatural
<1> HIDE DEF s
<1>4. inventory \in [Cells -> Row \cup {NoRow}] /\ movement \in [Cells -> Movement]
  BY DEF TypeOK
<1> QED
  BY <1>1, <1>2, <1>3, <1>4, <1>5, LinesReleased DEF CellKept

\* Every step of the ledger keeps the books of every cell.
LEMMA BooksStep ==
  ASSUME TypeOK, Balanced, [Next]_vars
  PROVE  BooksKept
<1>1. CASE RowStep
  BY <1>1, RowCreated, RowRemoved DEF RowStep
<1>2. CASE InboundStep
  BY <1>2, GoodsPosted DEF InboundStep
<1>3. CASE TransferStep
  BY <1>3, TransferReceived, BooksUntouched
     DEF TransferStep, CreateTransfer, UpdateTransfer, UpdateTransferFails,
         RemoveTransfer, SubmitTransfer, CancelTransfer
<1>4. CASE IssuanceStep
  BY <1>4, GoodsIssued, BooksUntouched
     DEF IssuanceStep, UpdateIssuance, DeleteIssuance
<1>5. CASE ReturnStep
  BY <1>5, GoodsReturned, BooksUntouched DEF ReturnStep, DeleteReturn
<1>6. CASE UNCHANGED vars
  BY <1>6, BooksUntouched DEF vars
<1> QED
  BY <1>1, <1>2, <1>3, <1>4, <1>5, <1>6 DEF Next
-----------------------------------------------------------------------------
(* The theorems.                                                             *)

\* Every cell is balanced in every reachable state.
THEOREM AlwaysBalanced == Spec => []Balanced
<1>1. Init => Balanced
  BY DEF Init, Balanced, CellBalanced
<1>2. TypeOK /\ Balanced /\ [Next]_vars => Balanced'
  BY BooksStep, BooksStayKept
<1> QED
  BY <1>1, <1>2, TypeCorrect, PTL DEF Spec

\* The stored availability of every row is the difference of its two other
\* columns: what the comment on the column promises, request by request.
THEOREM AvailableIsAlwaysDifference == Spec => []AvailableIsDifference
<1>1. Balanced => AvailableIsDifference
  BY DEF Balanced, CellBalanced, AvailableIsDifference
<1> QED
  BY <1>1, AlwaysBalanced, PTL

\* The StockMovement table explains the Inventory table.
THEOREM AuditTrailAlwaysExplains == Spec => []AuditTrailExplainsStock
<1>1. Balanced => AuditTrailExplainsStock
  BY DEF Balanced, CellBalanced, AuditTrailExplainsStock
<1> QED
  BY <1>1, AlwaysBalanced, PTL

\* Every cell that no negative quantity was booked on is solvent.
THEOREM AlwaysSolvent == Spec => []Solvent
<1>1. Init => Solvent
  BY DEF Init, Solvent, CellSolvent, NoMovement
<1>2. TypeOK /\ Balanced /\ Solvent /\ [Next]_vars => Solvent'
  BY BooksStep, BooksStayKept
<1> QED
  BY <1>1, <1>2, TypeCorrect, AlwaysBalanced, PTL DEF Spec

\* No sequence of requests drives the stock or the reservations of a cell below
\* zero unless one of them booked a negative quantity on that cell, whatever
\* was booked elsewhere.
THEOREM StockNeverNegative == Spec => []StockNonNegative
<1>1. Solvent => StockNonNegative
  BY DEF Solvent, CellSolvent, StockNonNegative
<1> QED
  BY <1>1, AlwaysSolvent, PTL

\* Only a transfer, or a negative quantity, can leave less on hand than is
\* reserved.
THEOREM OversoldByTransferOnly == Spec => []OversoldOnlyByTransfer
<1>1. Solvent => OversoldOnlyByTransfer
  BY DEF Solvent, CellSolvent, OversoldOnlyByTransfer
<1> QED
  BY <1>1, AlwaysSolvent, PTL
-----------------------------------------------------------------------------
(* Sums over finite sets.                                                    *)
(*                                                                           *)
(* The library defines a sum by recursion over the subsets of its domain,    *)
(* with an element chosen to be taken out first.  That such a function       *)
(* exists is shown by the least size of a subset without one, and what it    *)
(* yields by the smallest subset that is an exception: both are instances of *)
(* the minimal element of a well-founded relation.                           *)

\* The element that the sum over s takes out first.
One(s) == CHOOSE x \in s : TRUE

\* It is one of them.
LEMMA OneIsIn == ASSUME NEW s, s # {} PROVE One(s) \in s
BY DEF One

\* What the sum of an element and of the rest is, F giving the sums of the rests.
SumBy(F, f, s) == IF s = {} THEN 0 ELSE f[One(s)] + F[s \ {One(s)}]

\* F sums f up over the subsets of D.
Sums(F, f, D) == F = [s \in SUBSET D |-> SumBy(F, f, s)]

\* The sum of the library is the value of the function that sums up.
LEMMA SumIsChosen ==
  ASSUME NEW f
  PROVE  SumFunction(f) = (CHOOSE F : Sums(F, f, DOMAIN f))[DOMAIN f]
BY DEF SumFunction, SumFunctionOnSet, FoldFunctionOnSet, MapThenFoldSet, Sums, SumBy, One

\* The sums over the subsets of at most n elements.
UpTo(D, n) == {s \in SUBSET D : Cardinality(s) <= n}

SumsUpTo(F, f, D, n) ==
  F \in [UpTo(D, n) -> Int] /\ \A s \in UpTo(D, n) : F[s] = SumBy(F, f, s)

\* There are sums over the empty set.
LEMMA FirstSums ==
  ASSUME NEW D, IsFiniteSet(D), NEW f
  PROVE  \E F : SumsUpTo(F, f, D, 0)
<1> DEFINE F == [s \in UpTo(D, 0) |-> 0]
<1>1. \A s \in UpTo(D, 0) : s = {}
  BY FS_Subset, FS_EmptySet, FS_CardinalityType DEF UpTo
<1>2. F \in [UpTo(D, 0) -> Int]
  OBVIOUS
<1>3. \A s \in UpTo(D, 0) : F[s] = SumBy(F, f, s)
  BY <1>1 DEF SumBy
<1> HIDE DEF F
<1> QED
  BY <1>2, <1>3 DEF SumsUpTo

\* Sums over sets of n elements give the sums over sets of one more.
LEMMA MoreSums ==
  ASSUME NEW D, IsFiniteSet(D), NEW f \in [D -> Int], NEW n \in Nat,
         NEW F, SumsUpTo(F, f, D, n)
  PROVE  \E G : SumsUpTo(G, f, D, n + 1)
<1> DEFINE G == [s \in UpTo(D, n + 1) |-> SumBy(F, f, s)]
<1>1. ASSUME NEW s \in UpTo(D, n + 1), s # {}
      PROVE  s \ {One(s)} \in UpTo(D, n) /\ s \ {One(s)} \in UpTo(D, n + 1) /\ One(s) \in D
  <2>1. IsFiniteSet(s) /\ s \subseteq D /\ Cardinality(s) <= n + 1 /\ Cardinality(s) \in Nat
    BY FS_Subset, FS_CardinalityType DEF UpTo
  <2>2. One(s) \in s
    BY <1>1, OneIsIn
  <2>3. Cardinality(s \ {One(s)}) = Cardinality(s) - 1
    BY <2>1, <2>2, FS_RemoveElement
  <2> QED
    BY <2>1, <2>2, <2>3 DEF UpTo
<1>2. \A s \in UpTo(D, n) : F[s] = SumBy(F, f, s) /\ F[s] \in Int
  BY DEF SumsUpTo
<1>3. ASSUME NEW s \in UpTo(D, n + 1)
      PROVE  SumBy(F, f, s) \in Int /\ G[s] = SumBy(G, f, s)
  <2>1. CASE s = {}
    BY <2>1 DEF SumBy
  <2>2. CASE s # {}
    <3>1. f[One(s)] \in Int /\ F[s \ {One(s)}] \in Int
      BY <1>1, <1>2, <2>2
    <3>2. G[s \ {One(s)}] = F[s \ {One(s)}]
      BY <1>1, <1>2, <2>2
    <3>3. SumBy(F, f, s) \in Int
      BY <2>2, <3>1 DEF SumBy
    <3> HIDE DEF G
    <3>4. SumBy(G, f, s) = SumBy(F, f, s)
      BY <2>2, <3>2 DEF SumBy
    <3> QED
      BY <3>3, <3>4 DEF G
  <2> QED
    BY <2>1, <2>2
<1>4. G \in [UpTo(D, n + 1) -> Int]
  BY <1>3
<1> HIDE DEF G
<1> QED
  BY <1>3, <1>4 DEF SumsUpTo

\* So there are sums over the subsets of every size: the least size without
\* them would be zero or follow one that has them.
LEMMA SumsOfAnySize ==
  ASSUME NEW D, IsFiniteSet(D), NEW f \in [D -> Int], NEW n \in Nat
  PROVE  \E F : SumsUpTo(F, f, D, n)
<1> DEFINE Bad == {m \in Nat : ~ \E F : SumsUpTo(F, f, D, m)}
<1> SUFFICES ASSUME Bad # {} PROVE FALSE
  OBVIOUS
<1>1. PICK m \in Bad : \A k \in Bad : ~ (<<k, m>> \in OpToRel(<, Nat))
  BY NatLessThanWellFounded, WFMin
<1>2. m # 0
  BY FirstSums
<1>3. m - 1 \in Nat /\ m - 1 < m /\ (m - 1) + 1 = m
  BY <1>2
<1>4. m - 1 \notin Bad
  BY <1>1, <1>3 DEF OpToRel
<1>5. PICK F : SumsUpTo(F, f, D, m - 1)
  BY <1>3, <1>4
<1>6. \E G : SumsUpTo(G, f, D, (m - 1) + 1)
  BY <1>3, <1>5, MoreSums
<1> QED
  BY <1>1, <1>3, <1>6

\* A set of subsets of D that has the empty one, and each that it has without
\* the element taken out first, has all.
LEMMA AllSubsets ==
  ASSUME NEW D, IsFiniteSet(D), NEW T, {} \in T,
         \A s \in SUBSET D : s # {} /\ s \ {One(s)} \in T => s \in T
  PROVE  SUBSET D \subseteq T
<1> DEFINE Bad == {s \in SUBSET D : s \notin T}
<1> SUFFICES ASSUME Bad # {} PROVE FALSE
  OBVIOUS
<1>1. Bad \subseteq FiniteSubsetsOf(D)
  BY FS_Subset DEF FiniteSubsetsOf
<1>2. PICK m \in Bad : \A k \in Bad : ~ (<<k, m>> \in StrictSubsetOrdering(D))
  BY <1>1, FS_StrictSubsetOrderingWellFounded, WFMin
<1>3. m # {} /\ m \in SUBSET D
  BY <1>2
<1>4. m \ {One(m)} \in T
  BY <1>2, <1>3, OneIsIn DEF StrictSubsetOrdering
<1> QED
  BY <1>2, <1>3, <1>4

\* What is known of the sum of an integer function over a finite domain: it is
\* what some sums over the subsets of the domain end with.
SummedBy(F, f, D) ==
  /\ F \in [SUBSET D -> Int] /\ SumFunction(f) = F[D] /\ F[{}] = 0
  /\ \A s \in SUBSET D : s # {} => F[s] = f[One(s)] + F[s \ {One(s)}]

\* Every sum of integers over a finite set is of that kind.
LEMMA SumIsSummed ==
  ASSUME NEW D, IsFiniteSet(D), NEW f \in [D -> Int]
  PROVE  \E F : SummedBy(F, f, D)
<1> DEFINE F == CHOOSE F : Sums(F, f, D)
<1>1. Cardinality(D) \in Nat
  BY FS_CardinalityType
<1>2. UpTo(D, Cardinality(D)) = SUBSET D
  BY FS_Subset DEF UpTo
<1>3. PICK G : SumsUpTo(G, f, D, Cardinality(D))
  BY <1>1, SumsOfAnySize
<1>4. Sums(G, f, D) /\ G \in [SUBSET D -> Int]
  BY <1>2, <1>3 DEF SumsUpTo, Sums
<1>5. Sums(F, f, D)
  BY <1>4
<1>6. SumFunction(f) = F[D]
  BY SumIsChosen
<1> HIDE DEF F
<1>7. \A s \in SUBSET D : F[s] = SumBy(F, f, s)
  BY <1>5 DEF Sums
<1>11. F[{}] = 0 /\ \A s \in SUBSET D : s # {} => F[s] = f[One(s)] + F[s \ {One(s)}]
  BY <1>7 DEF SumBy
<1> DEFINE T == {s \in SUBSET D : F[s] \in Int}
<1>8. SUBSET D \subseteq T
  <2>1. {} \in T
    BY <1>11
  <2>2. \A s \in SUBSET D : s # {} /\ s \ {One(s)} \in T => s \in T
    <3> SUFFICES ASSUME NEW s \in SUBSET D, s # {}, F[s \ {One(s)}] \in Int
                 PROVE  F[s] \in Int
      OBVIOUS
    <3>1. f[One(s)] \in Int
      BY OneIsIn
    <3>2. F[s] = f[One(s)] + F[s \ {One(s)}]
      BY <1>11
    <3> QED
      BY <3>1, <3>2
  <2> HIDE DEF T
  <2> QED
    BY <2>1, <2>2, AllSubsets
<1>9. DOMAIN F = SUBSET D /\ F = [s \in SUBSET D |-> F[s]]
  BY <1>5 DEF Sums
<1>10. F \in [SUBSET D -> Int]
  BY <1>8, <1>9
<1> QED
  BY <1>6, <1>10, <1>11 DEF SummedBy

\* The sum is an integer.
LEMMA SumIsInt ==
  ASSUME NEW D, IsFiniteSet(D), NEW f \in [D -> Int]
  PROVE  SumFunction(f) \in Int
<1>1. PICK F : SummedBy(F, f, D)
  BY SumIsSummed
<1> QED
  BY <1>1 DEF SummedBy

\* h is f plus g at each point of D.
PointwiseSum(h, f, g, D) == \A x \in D : h[x] = f[x] + g[x]

\* The sum of two functions, point by point, sums up to the two sums.
LEMMA SumOfSums ==
  ASSUME NEW D, IsFiniteSet(D), NEW f \in [D -> Int], NEW g \in [D -> Int],
         NEW h \in [D -> Int], PointwiseSum(h, f, g, D)
  PROVE  SumFunction(h) = SumFunction(f) + SumFunction(g)
<1>1. PICK F : SummedBy(F, f, D)
  BY SumIsSummed
<1>2. PICK G : SummedBy(G, g, D)
  BY SumIsSummed
<1>3. PICK H : SummedBy(H, h, D)
  BY SumIsSummed
<1> DEFINE T == {s \in SUBSET D : H[s] = F[s] + G[s]}
<1>4. {} \in T
  BY <1>1, <1>2, <1>3 DEF SummedBy
<1>5. ASSUME NEW s \in SUBSET D, s # {}, s \ {One(s)} \in T
      PROVE  s \in T
  <2>1. One(s) \in D
    BY <1>5, OneIsIn
  <2>2. h[One(s)] = f[One(s)] + g[One(s)] /\ f[One(s)] \in Int /\ g[One(s)] \in Int
    BY <2>1 DEF PointwiseSum
  <2>3. H[s] = h[One(s)] + H[s \ {One(s)}]
    BY <1>3, <1>5 DEF SummedBy
  <2>4. F[s] = f[One(s)] + F[s \ {One(s)}] /\ F[s \ {One(s)}] \in Int
    BY <1>1, <1>5 DEF SummedBy
  <2>5. G[s] = g[One(s)] + G[s \ {One(s)}] /\ G[s \ {One(s)}] \in Int
    BY <1>2, <1>5 DEF SummedBy
  <2>6. H[s \ {One(s)}] = F[s \ {One(s)}] + G[s \ {One(s)}]
    BY <1>5
  <2> QED
    BY <2>2, <2>3, <2>4, <2>5, <2>6
<1>6. D \in T
  <2>1. \A s \in SUBSET D : s # {} /\ s \ {One(s)} \in T => s \in T
    BY <1>5
  <2> HIDE DEF T
  <2>2. SUBSET D \subseteq T
    BY <1>4, <2>1, AllSubsets
  <2> QED
    BY <2>2
<1> QED
  BY <1>1, <1>2, <1>3, <1>6 DEF SummedBy

\* A function that is zero but for one point sums up to its value there.
LEMMA SumOfOne ==
  ASSUME NEW D, IsFiniteSet(D), NEW f \in [D -> Int], NEW x \in D,
         \A y \in D : y # x => f[y] = 0
  PROVE  SumFunction(f) = f[x]
<1>1. PICK F : SummedBy(F, f, D)
  BY SumIsSummed
<1> DEFINE T == {s \in SUBSET D : F[s] = IF x \in s THEN f[x] ELSE 0}
<1>2. {} \in T
  BY <1>1 DEF SummedBy
<1>3. ASSUME NEW s \in SUBSET D, s # {}, s \ {One(s)} \in T
      PROVE  s \in T
  <2>1. One(s) \in D /\ One(s) \in s
    BY <1>3, OneIsIn
  <2>2. F[s] = f[One(s)] + F[s \ {One(s)}]
    BY <1>1, <1>3 DEF SummedBy
  <2>3. F[s \ {One(s)}] = IF x \in s \ {One(s)} THEN f[x] ELSE 0
    BY <1>3
  <2>4. f[x] \in Int
    OBVIOUS
  <2>5. CASE One(s) = x
    <3>1. F[s \ {One(s)}] = 0
      BY <2>3, <2>5
    <3> QED
      BY <2>1, <2>2, <2>4, <2>5, <3>1
  <2>6. CASE One(s) # x
    <3>1. f[One(s)] = 0 /\ (x \in s \ {One(s)} <=> x \in s)
      BY <2>1, <2>6
    <3> QED
      BY <2>2, <2>3, <2>4, <3>1
  <2> QED
    BY <2>5, <2>6
<1>4. D \in T
  <2>1. \A s \in SUBSET D : s # {} /\ s \ {One(s)} \in T => s \in T
    BY <1>3
  <2> HIDE DEF T
  <2>2. SUBSET D \subseteq T
    BY <1>2, <2>1, AllSubsets
  <2> QED
    BY <2>2
<1> QED
  BY <1>1, <1>4 DEF SummedBy

\* Changing a function at one point changes its sum by as much.
LEMMA SumChanges ==
  ASSUME NEW D, IsFiniteSet(D), NEW f \in [D -> Int], NEW g \in [D -> Int],
         NEW x \in D, \A y \in D : y # x => g[y] = f[y]
  PROVE  SumFunction(g) = SumFunction(f) + (g[x] - f[x])
<1> DEFINE h == [y \in D |-> IF y = x THEN g[x] - f[x] ELSE 0]
<1>1. h \in [D -> Int] /\ h[x] = g[x] - f[x] /\ \A y \in D : y # x => h[y] = 0
  OBVIOUS
<1>2. \A y \in D : g[y] = f[y] + h[y]
  OBVIOUS
<1>3. SumFunction(h) = h[x]
  <2> HIDE DEF h
  <2> QED
    BY <1>1, SumOfOne
<1>4. SumFunction(g) = SumFunction(f) + SumFunction(h)
  <2> HIDE DEF h
  <2>1. h \in [D -> Int] /\ PointwiseSum(g, f, h, D)
    BY <1>1, <1>2 DEF PointwiseSum
  <2> QED
    BY <2>1, SumOfSums
<1> QED
  BY <1>1, <1>3, <1>4

\* Naturals sum up to no less than each of them.
LEMMA SumIsAtLeast ==
  ASSUME NEW D, IsFiniteSet(D), NEW f \in [D -> Int], NEW x \in D,
         \A y \in D : f[y] >= 0
  PROVE  SumFunction(f) >= f[x]
<1>1. PICK F : SummedBy(F, f, D)
  BY SumIsSummed
<1> DEFINE T == {s \in SUBSET D : F[s] >= 0 /\ (x \in s => F[s] >= f[x])}
<1>2. {} \in T
  BY <1>1 DEF SummedBy
<1>3. ASSUME NEW s \in SUBSET D, s # {}, s \ {One(s)} \in T
      PROVE  s \in T
  <2>1. One(s) \in D /\ One(s) \in s
    BY <1>3, OneIsIn
  <2>2. F[s] = f[One(s)] + F[s \ {One(s)}] /\ F[s \ {One(s)}] \in Int
    BY <1>1, <1>3 DEF SummedBy
  <2>3. F[s \ {One(s)}] >= 0 /\ (x \in s \ {One(s)} => F[s \ {One(s)}] >= f[x])
    BY <1>3
  <2>4. f[One(s)] \in Int /\ f[One(s)] >= 0 /\ f[x] \in Int /\ f[x] >= 0
    BY <2>1
  <2>5. x \in s => x = One(s) \/ x \in s \ {One(s)}
    OBVIOUS
  <2> QED
    BY <2>2, <2>3, <2>4, <2>5
<1>4. D \in T
  <2>1. \A s \in SUBSET D : s # {} /\ s \ {One(s)} \in T => s \in T
    BY <1>3
  <2> HIDE DEF T
  <2>2. SUBSET D \subseteq T
    BY <1>2, <2>1, AllSubsets
  <2> QED
    BY <2>2
<1> QED
  BY <1>1, <1>4 DEF SummedBy
-----------------------------------------------------------------------------
(* What the organization has of an item, over its stores.                    *)

Columns == {"onHand", "reserved"}

\* What store s has of item i in this column of an inventory.
Amount(inv, column, s, i) == IF inv[<<s, i>>] = NoRow THEN 0 ELSE inv[<<s, i>>][column]

Amounts(inv, column, i) == [s \in Stores |-> Amount(inv, column, s, i)]

TotalIn(inv, column, i) == SumFunction(Amounts(inv, column, i))

Inventory == [Cells -> Row \cup {NoRow}]

\* The model's total is that of the present inventory.
LEMMA TotalIsTotalIn ==
  \A column, i : Total(column, i) = TotalIn(inventory, column, i)
BY DEF Total, TotalIn, Amounts, Amount

\* Amounts are integers.
LEMMA AmountIsInt ==
  ASSUME NEW inv \in Inventory, NEW column \in Columns, NEW i \in Items
  PROVE  Amounts(inv, column, i) \in [Stores -> Int]
BY DEF Inventory, Columns, Amounts, Amount, Cells, Row

\* So are the totals, there being finitely many stores.
LEMMA TotalIsInt ==
  ASSUME NEW inv \in Inventory, NEW column \in Columns, NEW i \in Items
  PROVE  TotalIn(inv, column, i) \in Int
<1>1. Amounts(inv, column, i) \in [Stores -> Int]
  BY AmountIsInt
<1> QED
  BY <1>1, StoresAssumption, SumIsInt DEF TotalIn

\* Writing one store's row of an item changes the total by as much.
LEMMA OneStoreChanges ==
  ASSUME NEW inv \in Inventory, NEW new \in Inventory, NEW column \in Columns,
         NEW s \in Stores, NEW i \in Items,
         \A u \in Stores : u # s => new[<<u, i>>] = inv[<<u, i>>]
  PROVE  TotalIn(new, column, i) =
           TotalIn(inv, column, i) + (Amount(new, column, s, i) - Amount(inv, column, s, i))
<1> DEFINE f == Amounts(inv, column, i)
           g == Amounts(new, column, i)
<1>1. f \in [Stores -> Int] /\ g \in [Stores -> Int]
  BY AmountIsInt
<1>2. \A u \in Stores : u # s => g[u] = f[u]
  BY DEF Amounts, Amount
<1>3. f[s] = Amount(inv, column, s, i) /\ g[s] = Amount(new, column, s, i)
  BY DEF Amounts
<1>4. TotalIn(inv, column, i) = SumFunction(f) /\ TotalIn(new, column, i) = SumFunction(g)
  BY DEF TotalIn
<1> HIDE DEF f, g
<1>5. SumFunction(g) = SumFunction(f) + (g[s] - f[s])
  BY <1>1, <1>2, StoresAssumption, SumChanges
<1> QED
  BY <1>3, <1>4, <1>5

\* A store's amount is part of the total, where no row is negative.
LEMMA TotalCovers ==
  ASSUME NEW inv \in Inventory, NEW column \in Columns, NEW s \in Stores, NEW i \in Items,
         \A c \in Cells : inv[c] # NoRow => inv[c].onHand >= 0 /\ inv[c].reserved >= 0
  PROVE  TotalIn(inv, column, i) >= Amount(inv, column, s, i)
<1> DEFINE f == Amounts(inv, column, i)
<1>1. f \in [Stores -> Int]
  BY AmountIsInt
<1>2. \A u \in Stores : f[u] >= 0
  <2> SUFFICES ASSUME NEW u \in Stores PROVE f[u] >= 0
    OBVIOUS
  <2>1. <<u, i>> \in Cells
    BY DEF Cells
  <2> QED
    BY <2>1 DEF Amounts, Amount, Columns
<1>3. f[s] = Amount(inv, column, s, i)
  BY DEF Amounts
<1> HIDE DEF f
<1>4. SumFunction(f) >= f[s]
  BY <1>1, <1>2, StoresAssumption, SumIsAtLeast
<1> QED
  BY <1>3, <1>4 DEF TotalIn, f

\* What a document's lines do to a total.
Raised(total, lines, i) == IF i \in DOMAIN lines THEN total + lines[i] ELSE total

Lowered(total, lines, i) == IF i \in DOMAIN lines THEN total - lines[i] ELSE total

\* An item whose rows are the same in every store has the same total.
LEMMA ItemUntouched ==
  ASSUME NEW inv, NEW new, NEW column, NEW i,
         \A u \in Stores : new[<<u, i>>] = inv[<<u, i>>]
  PROVE  TotalIn(new, column, i) = TotalIn(inv, column, i)
<1>1. Amounts(new, column, i) = Amounts(inv, column, i)
  BY DEF Amounts, Amount
<1> QED
  BY <1>1 DEF TotalIn

\* Goods put into a store add to what the organization owns, and to nothing else.
LEMMA TotalsPutIn ==
  ASSUME NEW inv \in Inventory, NEW s \in Stores, NEW i \in Items,
         NEW lines, DOMAIN lines \subseteq Items, \A j \in DOMAIN lines : lines[j] \in Int
  PROVE  /\ PutInAll(inv, s, lines) \in Inventory
         /\ TotalIn(PutInAll(inv, s, lines), "onHand", i) = Raised(TotalIn(inv, "onHand", i), lines, i)
         /\ TotalIn(PutInAll(inv, s, lines), "reserved", i) = TotalIn(inv, "reserved", i)
<1> DEFINE new == PutInAll(inv, s, lines)
<1>1. new \in Inventory
  BY ApplyPutIn DEF Inventory
<1>2. \A u \in Stores : <<u, i>> \in Cells
  BY DEF Cells
<1>3. \A u \in Stores : u # s \/ i \notin DOMAIN lines => new[<<u, i>>] = inv[<<u, i>>]
  BY <1>2 DEF PutInAll, Apply, Touches
<1>4. i \in DOMAIN lines => new[<<s, i>>] = PutIn(inv[<<s, i>>], lines[i])
  BY <1>2 DEF PutInAll, Apply, Touches
<1>5. inv[<<s, i>>] \in Row \cup {NoRow} /\ new[<<s, i>>] \in Row \cup {NoRow}
  BY <1>1, <1>2 DEF Inventory
<1> HIDE DEF new
<1>6. CASE i \notin DOMAIN lines
  BY <1>1, <1>3, <1>6, ItemUntouched DEF Raised, new
<1>7. CASE i \in DOMAIN lines
  <2>1. lines[i] \in Int
    BY <1>7
  <2>2. /\ Amount(new, "onHand", s, i) - Amount(inv, "onHand", s, i) = lines[i]
        /\ Amount(new, "reserved", s, i) - Amount(inv, "reserved", s, i) = 0
    <3>1. CASE inv[<<s, i>>] = NoRow
      <4>1. RowOf(lines[i], 0, lines[i]) # NoRow
        BY <2>1, NoRowAssumption DEF RowOf, Row
      <4> QED
        BY <1>4, <1>7, <2>1, <3>1, <4>1 DEF Amount, PutIn, RowOf
    <3>2. CASE inv[<<s, i>>] \in Row
      <4>1. new[<<s, i>>] \in Row /\ inv[<<s, i>>] # NoRow /\ new[<<s, i>>] # NoRow
        BY <1>4, <1>7, <2>1, <3>2, RowOperations
      <4> QED
        BY <1>4, <1>7, <2>1, <3>2, <4>1 DEF Amount, PutIn, RowOf, Row
    <3> QED
      BY <1>5, <3>1, <3>2
  <2>3. \A column \in Columns : TotalIn(inv, column, i) \in Int
    BY TotalIsInt
  <2>4. \A column \in Columns : TotalIn(new, column, i) =
          TotalIn(inv, column, i) + (Amount(new, column, s, i) - Amount(inv, column, s, i))
    BY <1>1, <1>3, OneStoreChanges
  <2> QED
    BY <1>1, <1>7, <2>1, <2>2, <2>3, <2>4 DEF Raised, Columns, new
<1> QED
  BY <1>6, <1>7

\* A write of one store's row that has to be there moves the totals by what it
\* adds to the row's columns.
LEMMA TotalsOfRowWritten ==
  ASSUME NEW inv \in Inventory, NEW new \in Inventory, NEW s \in Stores, NEW i \in Items,
         \A u \in Stores : u # s => new[<<u, i>>] = inv[<<u, i>>],
         inv[<<s, i>>] \in Row, new[<<s, i>>] \in Row,
         NEW p \in Int, NEW q \in Int,
         new[<<s, i>>].onHand = inv[<<s, i>>].onHand + p,
         new[<<s, i>>].reserved = inv[<<s, i>>].reserved + q
  PROVE  /\ TotalIn(new, "onHand", i) = TotalIn(inv, "onHand", i) + p
         /\ TotalIn(new, "reserved", i) = TotalIn(inv, "reserved", i) + q
<1>1. /\ inv[<<s, i>>].onHand \in Int /\ inv[<<s, i>>].reserved \in Int
      /\ inv[<<s, i>>] # NoRow /\ new[<<s, i>>] # NoRow
  BY NoRowAssumption DEF Row
<1>2. /\ Amount(new, "onHand", s, i) - Amount(inv, "onHand", s, i) = p
      /\ Amount(new, "reserved", s, i) - Amount(inv, "reserved", s, i) = q
  BY <1>1 DEF Amount
<1>3. \A column \in Columns : TotalIn(new, column, i) =
        TotalIn(inv, column, i) + (Amount(new, column, s, i) - Amount(inv, column, s, i))
  BY OneStoreChanges
<1> QED
  BY <1>2, <1>3 DEF Columns

\* Goods a transfer takes out of a store are taken from what is owned; goods an
\* issuance reserves are added to what is held, and goods of a return taken
\* from it.
LEMMA TotalsWritten ==
  ASSUME NEW inv \in Inventory, NEW s \in Stores, NEW i \in Items, NEW lines \in Lines,
         \A j \in DOMAIN lines : inv[<<s, j>>] # NoRow
  PROVE  /\ TotalIn(TakeOutAll(inv, s, lines), "onHand", i) = Lowered(TotalIn(inv, "onHand", i), lines, i)
         /\ TotalIn(TakeOutAll(inv, s, lines), "reserved", i) = TotalIn(inv, "reserved", i)
         /\ TotalIn(ReserveAll(inv, s, lines), "onHand", i) = TotalIn(inv, "onHand", i)
         /\ TotalIn(ReserveAll(inv, s, lines), "reserved", i) = Raised(TotalIn(inv, "reserved", i), lines, i)
         /\ TotalIn(ReleaseAll(inv, s, lines), "onHand", i) = TotalIn(inv, "onHand", i)
         /\ TotalIn(ReleaseAll(inv, s, lines), "reserved", i) = Lowered(TotalIn(inv, "reserved", i), lines, i)
<1> DEFINE out  == TakeOutAll(inv, s, lines)
           kept == ReserveAll(inv, s, lines)
           back == ReleaseAll(inv, s, lines)
<1>1. out \in Inventory /\ kept \in Inventory /\ back \in Inventory
  BY ApplyToStocked DEF Inventory
<1>2. \A u \in Stores : <<u, i>> \in Cells
  BY DEF Cells
<1>3. \A u \in Stores : u # s \/ i \notin DOMAIN lines =>
        /\ out[<<u, i>>] = inv[<<u, i>>]
        /\ kept[<<u, i>>] = inv[<<u, i>>]
        /\ back[<<u, i>>] = inv[<<u, i>>]
  BY <1>2 DEF TakeOutAll, ReserveAll, ReleaseAll, Apply, Touches
<1>4. i \in DOMAIN lines => /\ out[<<s, i>>] = TakeOut(inv[<<s, i>>], lines[i])
                            /\ kept[<<s, i>>] = Reserve(inv[<<s, i>>], lines[i])
                            /\ back[<<s, i>>] = Release(inv[<<s, i>>], lines[i])
  BY <1>2 DEF TakeOutAll, ReserveAll, ReleaseAll, Apply, Touches
<1>5. CASE i \notin DOMAIN lines
  <2> HIDE DEF out, kept, back
  <2>1. \A u \in Stores : /\ out[<<u, i>>] = inv[<<u, i>>]
                          /\ kept[<<u, i>>] = inv[<<u, i>>]
                          /\ back[<<u, i>>] = inv[<<u, i>>]
    BY <1>3, <1>5
  <2>2. \A column : /\ TotalIn(out, column, i) = TotalIn(inv, column, i)
                    /\ TotalIn(kept, column, i) = TotalIn(inv, column, i)
                    /\ TotalIn(back, column, i) = TotalIn(inv, column, i)
    BY <2>1, ItemUntouched
  <2> QED
    BY <1>5, <2>2 DEF Raised, Lowered, out, kept, back
<1>6. CASE i \in DOMAIN lines
  <2>1. lines[i] \in Int /\ -lines[i] \in Int /\ 0 \in Int
    BY <1>6, LinesAreInt
  <2>2. inv[<<s, i>>] \in Row
    BY <1>2, <1>6 DEF Inventory
  <2> DEFINE row == inv[<<s, i>>]
  <2>3. /\ out[<<s, i>>] \in Row /\ kept[<<s, i>>] \in Row /\ back[<<s, i>>] \in Row
    BY <1>4, <1>6, <2>1, <2>2, RowOperations
  <2>4. /\ out[<<s, i>>].onHand = row.onHand + (-lines[i])
        /\ out[<<s, i>>].reserved = row.reserved + 0
        /\ kept[<<s, i>>].onHand = row.onHand + 0
        /\ kept[<<s, i>>].reserved = row.reserved + lines[i]
        /\ back[<<s, i>>].onHand = row.onHand + 0
        /\ back[<<s, i>>].reserved = row.reserved + (-lines[i])
    <3>1. row.onHand \in Int /\ row.reserved \in Int
      BY <2>2 DEF Row
    <3> HIDE DEF row
    <3> QED
      BY <1>4, <1>6, <2>1, <3>1 DEF TakeOut, Reserve, Release, RowOf, row
  <2> HIDE DEF out, kept, back
  <2>5. \A column \in Columns : TotalIn(inv, column, i) \in Int
    BY TotalIsInt
  <2>6. /\ TotalIn(out, "onHand", i) = TotalIn(inv, "onHand", i) + (-lines[i])
        /\ TotalIn(out, "reserved", i) = TotalIn(inv, "reserved", i) + 0
    BY <1>1, <1>3, <2>1, <2>2, <2>3, <2>4, TotalsOfRowWritten
  <2>7. /\ TotalIn(kept, "onHand", i) = TotalIn(inv, "onHand", i) + 0
        /\ TotalIn(kept, "reserved", i) = TotalIn(inv, "reserved", i) + lines[i]
    BY <1>1, <1>3, <2>1, <2>2, <2>3, <2>4, TotalsOfRowWritten
  <2>8. /\ TotalIn(back, "onHand", i) = TotalIn(inv, "onHand", i) + 0
        /\ TotalIn(back, "reserved", i) = TotalIn(inv, "reserved", i) + (-lines[i])
    BY <1>1, <1>3, <2>1, <2>2, <2>3, <2>4, TotalsOfRowWritten
  <2> QED
    BY <1>6, <2>1, <2>5, <2>6, <2>7, <2>8 DEF Raised, Lowered, Columns, out, kept, back
<1> QED
  BY <1>5, <1>6

\* Moving stock between two stores, or from a store to itself, leaves what the
\* organization owns and holds of each item.
LEMMA TotalsMoved ==
  ASSUME NEW inv \in Inventory, NEW doc, doc.from \in Stores, doc.to \in Stores,
         doc.items \in Lines, \A j \in DOMAIN doc.items : inv[<<doc.from, j>>] # NoRow,
         NEW i \in Items
  PROVE  /\ TotalIn(MoveStock(inv, doc), "onHand", i) = TotalIn(inv, "onHand", i)
         /\ TotalIn(MoveStock(inv, doc), "reserved", i) = TotalIn(inv, "reserved", i)
<1> DEFINE lines == doc.items
           between == TakeOutAll(inv, doc.from, lines)
<1>1. DOMAIN lines \subseteq Items /\ \A j \in DOMAIN lines : lines[j] \in Int
  BY LinesAreInt
<1>2. between \in Inventory
  BY ApplyToStocked DEF Inventory
<1>3. /\ TotalIn(between, "onHand", i) = Lowered(TotalIn(inv, "onHand", i), lines, i)
      /\ TotalIn(between, "reserved", i) = TotalIn(inv, "reserved", i)
  BY TotalsWritten
<1>4. MoveStock(inv, doc) = PutInAll(between, doc.to, lines)
  BY DEF MoveStock
<1>5. TotalIn(inv, "onHand", i) \in Int
  BY TotalIsInt DEF Columns
<1> HIDE DEF lines, between
<1>6. /\ TotalIn(PutInAll(between, doc.to, lines), "onHand", i) = Raised(TotalIn(between, "onHand", i), lines, i)
      /\ TotalIn(PutInAll(between, doc.to, lines), "reserved", i) = TotalIn(between, "reserved", i)
  BY <1>1, <1>2, TotalsPutIn
<1>7. Raised(Lowered(TotalIn(inv, "onHand", i), lines, i), lines, i) = TotalIn(inv, "onHand", i)
  BY <1>1, <1>5 DEF Raised, Lowered
<1> QED
  BY <1>3, <1>4, <1>6, <1>7

\* A transfer that becomes received is received by its handler.
LEMMA ReceivedByHandler ==
  ASSUME TypeOK, [Next]_vars, NEW t \in Transfers,
         transfer[t].status # "RECEIVED", transfer'[t].status = "RECEIVED"
  PROVE  ReceiveTransfer(t)
<1>1. transfer \in [Transfers -> TransferDoc]
  BY DEF TypeOK
<1>2. ~UNCHANGED transfer
  OBVIOUS
<1>3. PICK u \in Transfers :
        \/ \E from, to \in Stores, lines \in Lines :
             CreateTransfer(u, from, to, lines) \/ UpdateTransfer(u, from, to, lines)
        \/ UpdateTransferFails(u)
        \/ RemoveTransfer(u)
        \/ SubmitTransfer(u)
        \/ CancelTransfer(u)
        \/ ReceiveTransfer(u)
  BY <1>2 DEF vars, Next, RowStep, InboundStep, TransferStep, IssuanceStep, ReturnStep,
     CreateInventory, RemoveInventory, PostInbound, CreateIssuance, UpdateIssuance,
     DeleteIssuance, CreateReturn, DeleteReturn
<1>4. PICK doc : transfer' = [transfer EXCEPT ![u] = doc]
  BY <1>3 DEF CreateTransfer, UpdateTransfer, UpdateTransferFails, RemoveTransfer,
     SubmitTransfer, CancelTransfer, ReceiveTransfer
<1>5. u = t
  BY <1>1, <1>4
<1>6. PICK old : old = transfer[t]
  OBVIOUS
<1>7. old \in TransferDoc /\ old.status # "RECEIVED"
  BY <1>1, <1>6
<1>8. ASSUME NEW from \in Stores, NEW to \in Stores, NEW lines \in Lines,
             CreateTransfer(t, from, to, lines) \/ UpdateTransfer(t, from, to, lines)
      PROVE  FALSE
  <2>1. CASE CreateTransfer(t, from, to, lines)
    BY <1>1, <2>1 DEF CreateTransfer
  <2>2. CASE UpdateTransfer(t, from, to, lines)
    <3>1. transfer'[t] = [old EXCEPT !.from = from, !.to = to, !.items = lines]
      BY <1>1, <1>6, <2>2 DEF UpdateTransfer
    <3>2. old.status = "DRAFT"
      BY <1>6, <2>2 DEF UpdateTransfer
    <3> QED
      BY <1>7, <3>1, <3>2 DEF TransferDoc
  <2> QED
    BY <1>8, <2>1, <2>2
<1>9. ASSUME UpdateTransferFails(t) PROVE FALSE
  <2>1. transfer'[t] = [old EXCEPT !.items = NoLines] /\ old.status = "DRAFT"
    BY <1>1, <1>6, <1>9 DEF UpdateTransferFails
  <2> QED
    BY <1>7, <2>1 DEF TransferDoc
<1>10. ~RemoveTransfer(t)
  BY <1>1 DEF RemoveTransfer, Absent
<1>11. ASSUME SubmitTransfer(t) PROVE FALSE
  <2>1. transfer'[t] = [old EXCEPT !.status = "IN_TRANSIT"] /\ old.status = "DRAFT"
    BY <1>1, <1>6, <1>11 DEF SubmitTransfer
  <2> QED
    BY <1>7, <2>1 DEF TransferDoc
<1>12. ASSUME CancelTransfer(t) PROVE FALSE
  <2>1. transfer'[t] = [old EXCEPT !.status = "CANCELLED"] /\ old.status \in {"DRAFT", "IN_TRANSIT"}
    BY <1>1, <1>6, <1>12 DEF CancelTransfer
  <2> QED
    BY <1>7, <2>1 DEF TransferDoc
<1> QED
  BY <1>3, <1>5, <1>8, <1>9, <1>10, <1>11, <1>12

\* What receiving a transfer needs of its document.
LEMMA ReceivedDocument ==
  ASSUME TypeOK, NEW t \in Transfers, ReceiveTransfer(t)
  PROVE  /\ transfer[t].from \in Stores /\ transfer[t].to \in Stores /\ transfer[t].items \in Lines
         /\ \A i \in DOMAIN transfer[t].items : inventory[<<transfer[t].from, i>>] # NoRow
         /\ inventory' = MoveStock(inventory, transfer[t])
<1>1. transfer[t] \in TransferDoc
  BY DEF TypeOK
<1> QED
  BY <1>1, LiveTransfer DEF ReceiveTransfer, Exists, CanReceive, AllStocked

\* Receiving a transfer leaves every total as it was.
LEMMA TransferMoves ==
  ASSUME TypeOK, NEW t \in Transfers, ReceiveTransfer(t), NEW i \in Items
  PROVE  /\ TotalIn(inventory', "onHand", i) = TotalIn(inventory, "onHand", i)
         /\ TotalIn(inventory', "reserved", i) = TotalIn(inventory, "reserved", i)
<1>1. inventory \in Inventory
  BY DEF TypeOK, Inventory
<1>2. PICK doc : doc = transfer[t]
  OBVIOUS
<1> QED
  BY <1>1, <1>2, ReceivedDocument, TotalsMoved

\* Receiving a transfer makes and loses nothing, whatever the stores, the lines
\* and the quantities are, negative ones included.
THEOREM TransfersConserve == Spec => TransferConserves
<1>1. ASSUME TypeOK, [Next]_vars
      PROVE  \A t \in Transfers :
               transfer[t].status # "RECEIVED" /\ transfer'[t].status = "RECEIVED" =>
                 \A i \in Items : /\ Total("onHand", i)' = Total("onHand", i)
                                  /\ Total("reserved", i)' = Total("reserved", i)
  <2> SUFFICES ASSUME NEW t \in Transfers, transfer[t].status # "RECEIVED",
                      transfer'[t].status = "RECEIVED", NEW i \in Items
               PROVE  /\ Total("onHand", i)' = Total("onHand", i)
                      /\ Total("reserved", i)' = Total("reserved", i)
    OBVIOUS
  <2>1. ReceiveTransfer(t)
    BY <1>1, ReceivedByHandler
  <2>2. \A column : Total(column, i) = TotalIn(inventory, column, i)
    BY TotalIsTotalIn
  <2>3. \A column : Total(column, i)' = TotalIn(inventory', column, i)
    BY DEF Total, TotalIn, Amounts, Amount
  <2> QED
    BY <1>1, <2>1, <2>2, <2>3, TransferMoves
<1> QED
  BY <1>1, TypeCorrect, PTL DEF Spec, TransferConserves
-----------------------------------------------------------------------------
(* The ledger implements the pool.                                           *)

Owned(inv) == [i \in Items |-> TotalIn(inv, "onHand", i)]
Held(inv) == [i \in Items |-> TotalIn(inv, "reserved", i)]

\* What the refinement mapping says of this state and of the next.
LEMMA PoolIsTotals ==
  /\ [i \in Items |-> Total("onHand", i)] = Owned(inventory)
  /\ [i \in Items |-> Total("reserved", i)] = Held(inventory)
  /\ [i \in Items |-> Total("onHand", i)]' = Owned(inventory')
  /\ [i \in Items |-> Total("reserved", i)]' = Held(inventory')
BY DEF Owned, Held, Total, TotalIn, Amounts, Amount

\* The step cannot be seen in the pool.
PoolUnseen == Owned(inventory') = Owned(inventory) /\ Held(inventory') = Held(inventory)

\* A step of the pool, from one inventory to the next.
PoolStep(inv, new) ==
  \/ \E lines \in Lines :
       \/ /\ Owned(new) = [i \in Items |-> Raised(Owned(inv)[i], lines, i)]
          /\ Held(new) = Held(inv)
       \/ /\ Held(new) = [i \in Items |-> Raised(Held(inv)[i], lines, i)]
          /\ Owned(new) = Owned(inv)
       \/ /\ \A i \in DOMAIN lines : Held(inv)[i] >= lines[i]
          /\ Held(new) = [i \in Items |-> Lowered(Held(inv)[i], lines, i)]
          /\ Owned(new) = Owned(inv)
  \/ \E i \in Items :
       /\ Owned(new) = [Owned(inv) EXCEPT ![i] = Owned(new)[i]] /\ Owned(new)[i] <= Owned(inv)[i]
       /\ Held(new) = [Held(inv) EXCEPT ![i] = Held(new)[i]] /\ Held(new)[i] <= Held(inv)[i]

\* Nothing negative was booked, then or now.
Unspoilt == misbooked = {} /\ misbooked' = {}

\* Under the refinement mapping it is a step of StockPool.
LEMMA PoolStepIsPoolNext ==
  ASSUME PoolStep(inventory, inventory'), Unspoilt
  PROVE  Pool!PoolNext
<1> DEFINE owned == [i \in Items |-> Total("onHand", i)]
           held == [i \in Items |-> Total("reserved", i)]
<1>1. owned = Owned(inventory) /\ held = Held(inventory) /\ owned' = Owned(inventory') /\ held' = Held(inventory')
  BY PoolIsTotals
<1>2. CASE \E lines \in Lines :
         \/ /\ Owned(inventory') = [i \in Items |-> Raised(Owned(inventory)[i], lines, i)]
            /\ Held(inventory') = Held(inventory)
         \/ /\ Held(inventory') = [i \in Items |-> Raised(Held(inventory)[i], lines, i)]
            /\ Owned(inventory') = Owned(inventory)
         \/ /\ \A i \in DOMAIN lines : Held(inventory)[i] >= lines[i]
            /\ Held(inventory') = [i \in Items |-> Lowered(Held(inventory)[i], lines, i)]
            /\ Owned(inventory') = Owned(inventory)
  <2>1. PICK lines \in Lines :
         \/ /\ Owned(inventory') = [i \in Items |-> Raised(Owned(inventory)[i], lines, i)]
            /\ Held(inventory') = Held(inventory)
         \/ /\ Held(inventory') = [i \in Items |-> Raised(Held(inventory)[i], lines, i)]
            /\ Owned(inventory') = Owned(inventory)
         \/ /\ \A i \in DOMAIN lines : Held(inventory)[i] >= lines[i]
            /\ Held(inventory') = [i \in Items |-> Lowered(Held(inventory)[i], lines, i)]
            /\ Owned(inventory') = Owned(inventory)
    BY <1>2
  <2>2. Pool!Plus(Owned(inventory), lines) = [i \in Items |-> Raised(Owned(inventory)[i], lines, i)]
    BY DEF Pool!Plus, Raised
  <2>3. Pool!Plus(Held(inventory), lines) = [i \in Items |-> Raised(Held(inventory)[i], lines, i)]
    BY DEF Pool!Plus, Raised
  <2>4. Pool!Minus(Held(inventory), lines) = [i \in Items |-> Lowered(Held(inventory)[i], lines, i)]
    BY DEF Pool!Minus, Lowered
  <2>5. Pool!Buy(lines) <=> /\ owned' = Pool!Plus(owned, lines)
                            /\ held' = held /\ misbooked' = misbooked
    BY DEF Pool!Buy
  <2>6. Pool!Issue(lines) <=> /\ held' = Pool!Plus(held, lines)
                              /\ owned' = owned /\ misbooked' = misbooked
    BY DEF Pool!Issue
  <2>7. Pool!TakeBack(lines) <=> /\ \A i \in DOMAIN lines : held[i] >= lines[i]
                                 /\ held' = Pool!Minus(held, lines)
                                 /\ owned' = owned /\ misbooked' = misbooked
    BY DEF Pool!TakeBack
  <2> HIDE DEF owned, held
  <2>8. Pool!Buy(lines) \/ Pool!Issue(lines) \/ Pool!TakeBack(lines)
    BY <1>1, <2>1, <2>2, <2>3, <2>4, <2>5, <2>6, <2>7 DEF Unspoilt
  <2> QED
    BY <2>8 DEF Pool!PoolNext, Pool!Lines, Lines
<1>3. CASE \E i \in Items :
       /\ Owned(inventory') = [Owned(inventory) EXCEPT ![i] = Owned(inventory')[i]]
       /\ Owned(inventory')[i] <= Owned(inventory)[i]
       /\ Held(inventory') = [Held(inventory) EXCEPT ![i] = Held(inventory')[i]]
       /\ Held(inventory')[i] <= Held(inventory)[i]
  <2>1. \A i : Pool!WriteOff(i) <=>
          /\ owned' = [owned EXCEPT ![i] = owned'[i]] /\ owned'[i] <= owned[i]
          /\ held' = [held EXCEPT ![i] = held'[i]] /\ held'[i] <= held[i]
          /\ misbooked' = misbooked
    BY DEF Pool!WriteOff
  <2> HIDE DEF owned, held
  <2>2. \E i \in Items : Pool!WriteOff(i)
    BY <1>1, <1>3, <2>1 DEF Unspoilt
  <2> QED
    BY <2>2 DEF Pool!PoolNext
<1> QED
  BY <1>2, <1>3 DEF PoolStep

\* The pool of an item.
LEMMA TotalsAtItem ==
  ASSUME NEW inv, NEW i \in Items
  PROVE  Owned(inv)[i] = TotalIn(inv, "onHand", i) /\ Held(inv)[i] = TotalIn(inv, "reserved", i)
BY DEF Owned, Held

\* Two inventories with the same totals are the same pool.
LEMMA SamePool ==
  ASSUME NEW inv, NEW new,
         \A i \in Items : /\ TotalIn(new, "onHand", i) = TotalIn(inv, "onHand", i)
                          /\ TotalIn(new, "reserved", i) = TotalIn(inv, "reserved", i)
  PROVE  Owned(new) = Owned(inv) /\ Held(new) = Held(inv)
BY DEF Owned, Held

\* A new row has nothing of any item.
LEMMA CreatedRowUnseen ==
  ASSUME TypeOK, NEW c \in Cells, CreateInventory(c)
  PROVE  PoolUnseen
<1>1. inventory \in Inventory /\ inventory[c] = NoRow /\ inventory' = [inventory EXCEPT ![c] = EmptyRow]
  BY DEF TypeOK, Inventory, CreateInventory
<1>2. EmptyRow \in Row /\ EmptyRow # NoRow /\ EmptyRow.onHand = 0 /\ EmptyRow.reserved = 0
  BY NoRowAssumption DEF EmptyRow, RowOf, Row
<1>3. ASSUME NEW column \in Columns, NEW i \in Items
      PROVE  Amounts(inventory', column, i) = Amounts(inventory, column, i)
  <2>1. ASSUME NEW s \in Stores
        PROVE  Amount(inventory', column, s, i) = Amount(inventory, column, s, i)
    <3>1. <<s, i>> \in Cells
      BY DEF Cells
    <3>2. CASE <<s, i>> = c
      BY <1>1, <1>2, <3>1, <3>2 DEF Amount, Columns, Inventory
    <3>3. CASE <<s, i>> # c
      BY <1>1, <3>1, <3>3 DEF Amount, Inventory
    <3> QED
      BY <3>2, <3>3
  <2> QED
    BY <2>1 DEF Amounts
<1>4. \A column \in Columns, i \in Items :
        TotalIn(inventory', column, i) = TotalIn(inventory, column, i)
  BY <1>3 DEF TotalIn
<1> QED
  BY <1>4, SamePool DEF Columns, PoolUnseen

\* What StockNonNegative says when nothing negative was booked.
NoRowNegative ==
  \A c \in Cells : inventory[c] # NoRow =>
    inventory[c].onHand >= 0 /\ inventory[c].reserved >= 0

\* A deleted row is written off.
LEMMA DeletedRowWrittenOff ==
  ASSUME TypeOK, NoRowNegative, NEW c \in Cells, RemoveInventory(c)
  PROVE  PoolStep(inventory, inventory')
<1>1. inventory \in Inventory /\ inventory[c] # NoRow /\ inventory' = [inventory EXCEPT ![c] = NoRow]
  BY DEF TypeOK, Inventory, RemoveInventory
<1>2. inventory' \in Inventory
  BY <1>1 DEF Inventory
<1>3. PICK s \in Stores, i \in Items : c = <<s, i>>
  BY DEF Cells
<1>4. \A u \in Stores, j \in Items : <<u, j>> \in Cells /\ (<<u, j>> = c <=> u = s /\ j = i)
  BY <1>3 DEF Cells
<1>5. ASSUME NEW column \in Columns
      PROVE  TotalIn(inventory', column, i) <= TotalIn(inventory, column, i)
  <2>1. \A u \in Stores : u # s => inventory'[<<u, i>>] = inventory[<<u, i>>]
    BY <1>1, <1>4 DEF Inventory
  <2>2. TotalIn(inventory', column, i) = TotalIn(inventory, column, i)
          + (Amount(inventory', column, s, i) - Amount(inventory, column, s, i))
    BY <1>1, <1>2, <2>1, OneStoreChanges
  <2>3. Amount(inventory', column, s, i) = 0
    BY <1>1, <1>3, <1>4 DEF Amount, Inventory
  <2>4. Amount(inventory, column, s, i) \in Int /\ Amount(inventory, column, s, i) >= 0
    <3>1. inventory[c] \in Row /\ inventory[c].onHand >= 0 /\ inventory[c].reserved >= 0
      BY <1>1 DEF Inventory, NoRowNegative
    <3> QED
      BY <1>1, <1>3, <3>1 DEF Amount, Columns, Row
  <2>5. TotalIn(inventory, column, i) \in Int
    BY <1>1, TotalIsInt
  <2> QED
    BY <2>2, <2>3, <2>4, <2>5
<1>6. ASSUME NEW column \in Columns, NEW j \in Items, j # i
      PROVE  TotalIn(inventory', column, j) = TotalIn(inventory, column, j)
  <2>1. \A u \in Stores : inventory'[<<u, j>>] = inventory[<<u, j>>]
    BY <1>1, <1>4, <1>6 DEF Inventory
  <2> QED
    BY <2>1, ItemUntouched
<1>7. \A j \in Items \ {i} : Owned(inventory')[j] = Owned(inventory)[j] /\ Held(inventory')[j] = Held(inventory)[j]
  BY <1>6, TotalsAtItem DEF Columns
<1>8. Owned(inventory')[i] <= Owned(inventory)[i] /\ Held(inventory')[i] <= Held(inventory)[i]
  BY <1>5, TotalsAtItem DEF Columns
<1>9. /\ Owned(inventory) = [j \in Items |-> Owned(inventory)[j]]
      /\ Held(inventory) = [j \in Items |-> Held(inventory)[j]]
      /\ Owned(inventory') = [j \in Items |-> Owned(inventory')[j]]
      /\ Held(inventory') = [j \in Items |-> Held(inventory')[j]]
  BY DEF Owned, Held
<1>10. /\ Owned(inventory') = [Owned(inventory) EXCEPT ![i] = Owned(inventory')[i]]
       /\ Held(inventory') = [Held(inventory) EXCEPT ![i] = Held(inventory')[i]]
  BY <1>7, <1>9
<1> QED
  BY <1>8, <1>10 DEF PoolStep

\* A posted receipt buys the lines something was accepted of.
LEMMA PostedGoodsBought ==
  ASSUME TypeOK, NEW g \in Receipts, NEW s \in Stores, NEW accepted \in Lines,
         PostInbound(g, s, accepted)
  PROVE  PoolStep(inventory, inventory')
<1> DEFINE lines == Restrict(accepted, {i \in DOMAIN accepted : accepted[i] > 0})
<1>1. lines \in Lines
  <2>1. DOMAIN accepted \in SUBSET Items /\ \A i \in DOMAIN accepted : accepted[i] \in Quantities
    BY DEF Lines
  <2> DEFINE T == {i \in DOMAIN accepted : accepted[i] > 0}
  <2>2. T \in SUBSET Items /\ \A i \in T : accepted[i] \in Quantities
    BY <2>1
  <2>3. lines = [i \in T |-> accepted[i]]
    BY DEF Restrict
  <2> HIDE DEF T, lines
  <2>4. lines \in [T -> Quantities]
    BY <2>2, <2>3
  <2> QED
    BY <2>2, <2>4 DEF Lines
<1>2. inventory' = PutInAll(inventory, s, lines) /\ inventory \in Inventory
  BY DEF PostInbound, TypeOK, Inventory
<1> HIDE DEF lines
<1>3. DOMAIN lines \subseteq Items /\ \A i \in DOMAIN lines : lines[i] \in Int
  BY <1>1, LinesAreInt
<1>4. \A i \in Items :
        /\ TotalIn(inventory', "onHand", i) = Raised(TotalIn(inventory, "onHand", i), lines, i)
        /\ TotalIn(inventory', "reserved", i) = TotalIn(inventory, "reserved", i)
  BY <1>2, <1>3, TotalsPutIn
<1>5. Owned(inventory') = [i \in Items |-> Raised(Owned(inventory)[i], lines, i)]
  BY <1>4, TotalsAtItem DEF Owned
<1>6. Held(inventory') = Held(inventory)
  BY <1>4 DEF Held
<1> QED
  BY <1>1, <1>5, <1>6 DEF PoolStep

\* An issuance issues its lines.
LEMMA IssuedFromPool ==
  ASSUME TypeOK, NEW n \in Issuances, NEW s \in Stores, NEW lines \in Lines,
         CreateIssuance(n, s, lines)
  PROVE  PoolStep(inventory, inventory')
<1>1. /\ inventory' = ReserveAll(inventory, s, lines) /\ inventory \in Inventory
      /\ \A i \in DOMAIN lines : inventory[<<s, i>>] # NoRow
  BY DEF CreateIssuance, CanIssue, AllStocked, TypeOK, Inventory
<1>2. \A i \in Items :
        /\ TotalIn(inventory', "onHand", i) = TotalIn(inventory, "onHand", i)
        /\ TotalIn(inventory', "reserved", i) = Raised(TotalIn(inventory, "reserved", i), lines, i)
  BY <1>1, TotalsWritten
<1>3. Held(inventory') = [i \in Items |-> Raised(Held(inventory)[i], lines, i)]
  BY <1>2, TotalsAtItem DEF Held
<1>4. Owned(inventory') = Owned(inventory)
  BY <1>2 DEF Owned
<1> QED
  BY <1>3, <1>4 DEF PoolStep

\* A return takes its lines back: guards hold no less of an item than the
\* issuance's store has reserved of it.
LEMMA ReturnedToPool ==
  ASSUME TypeOK, NoRowNegative, NEW r \in Returns, NEW n \in Issuances, NEW lines \in Lines,
         CreateReturn(r, n, lines)
  PROVE  PoolStep(inventory, inventory')
<1>1. PICK s : s = issuance[n].store
  OBVIOUS
<1>2. s \in Stores
  BY <1>1, LiveIssuance DEF CreateReturn, TypeOK
<1>3. /\ inventory' = ReleaseAll(inventory, s, lines) /\ inventory \in Inventory
      /\ \A i \in DOMAIN lines : inventory[<<s, i>>] # NoRow
      /\ \A i \in DOMAIN lines : inventory[<<s, i>>].reserved >= lines[i]
  BY <1>1 DEF CreateReturn, CanReturn, AllStocked, TypeOK, Inventory
<1>4. \A i \in Items :
        /\ TotalIn(inventory', "onHand", i) = TotalIn(inventory, "onHand", i)
        /\ TotalIn(inventory', "reserved", i) = Lowered(TotalIn(inventory, "reserved", i), lines, i)
  BY <1>2, <1>3, TotalsWritten
<1>5. ASSUME NEW i \in DOMAIN lines
      PROVE  Held(inventory)[i] >= lines[i]
  <2>1. i \in Items /\ lines[i] \in Int
    BY LinesAreInt
  <2>2. <<s, i>> \in Cells
    BY <1>2, <2>1 DEF Cells
  <2>3. inventory[<<s, i>>] \in Row
    BY <1>3, <2>2 DEF Inventory
  <2>4. /\ Amount(inventory, "reserved", s, i) = inventory[<<s, i>>].reserved
        /\ inventory[<<s, i>>].reserved \in Int
    BY <1>3, <2>3 DEF Amount, Row
  <2>5. \A c \in Cells : inventory[c] # NoRow => inventory[c].onHand >= 0 /\ inventory[c].reserved >= 0
    BY DEF NoRowNegative
  <2>6. TotalIn(inventory, "reserved", i) >= Amount(inventory, "reserved", s, i)
    BY <1>2, <1>3, <2>1, <2>5, TotalCovers DEF Columns
  <2>7. TotalIn(inventory, "reserved", i) \in Int
    BY <1>3, <2>1, TotalIsInt DEF Columns
  <2> QED
    BY <1>3, <2>1, <2>4, <2>6, <2>7, TotalsAtItem
<1>6. Held(inventory') = [i \in Items |-> Lowered(Held(inventory)[i], lines, i)]
  BY <1>4, TotalsAtItem DEF Held
<1>7. Owned(inventory') = Owned(inventory)
  BY <1>4 DEF Owned
<1> QED
  BY <1>5, <1>6, <1>7 DEF PoolStep

\* A received transfer cannot be seen.
LEMMA TransferUnseen ==
  ASSUME TypeOK, NEW t \in Transfers, ReceiveTransfer(t)
  PROVE  PoolUnseen
BY TransferMoves, SamePool DEF PoolUnseen

\* Nor can a step that writes no row.
LEMMA SameInventoryUnseen ==
  ASSUME inventory' = inventory
  PROVE  PoolUnseen
BY DEF PoolUnseen

\* Every step is one of the pool, or cannot be seen.
LEMMA StepOfPool ==
  ASSUME TypeOK, NoRowNegative, [Next]_vars
  PROVE  PoolStep(inventory, inventory') \/ PoolUnseen
<1>1. ASSUME NEW c \in Cells, CreateInventory(c) \/ RemoveInventory(c)
      PROVE  PoolStep(inventory, inventory') \/ PoolUnseen
  BY <1>1, CreatedRowUnseen, DeletedRowWrittenOff
<1>2. ASSUME NEW g \in Receipts, NEW s \in Stores, NEW lines \in Lines, PostInbound(g, s, lines)
      PROVE  PoolStep(inventory, inventory') \/ PoolUnseen
  BY <1>2, PostedGoodsBought
<1>3. ASSUME TransferStep
      PROVE  PoolStep(inventory, inventory') \/ PoolUnseen
  <2>1. ASSUME NEW t \in Transfers, ReceiveTransfer(t)
        PROVE  PoolUnseen
    BY <2>1, TransferUnseen
  <2>2. (\E t \in Transfers : ReceiveTransfer(t)) \/ inventory' = inventory
    BY <1>3 DEF TransferStep, CreateTransfer, UpdateTransfer, UpdateTransferFails,
       RemoveTransfer, SubmitTransfer, CancelTransfer
  <2> QED
    BY <2>1, <2>2, SameInventoryUnseen
<1>4. ASSUME IssuanceStep
      PROVE  PoolStep(inventory, inventory') \/ PoolUnseen
  <2>1. ASSUME NEW n \in Issuances, NEW s \in Stores, NEW lines \in Lines, CreateIssuance(n, s, lines)
        PROVE  PoolStep(inventory, inventory')
    BY <2>1, IssuedFromPool
  <2>2. \/ \E n \in Issuances, s \in Stores, lines \in Lines : CreateIssuance(n, s, lines)
        \/ inventory' = inventory
    BY <1>4 DEF IssuanceStep, UpdateIssuance, DeleteIssuance
  <2> QED
    BY <2>1, <2>2, SameInventoryUnseen
<1>5. ASSUME ReturnStep
      PROVE  PoolStep(inventory, inventory') \/ PoolUnseen
  <2>1. ASSUME NEW r \in Returns, NEW n \in Issuances, NEW lines \in Lines, CreateReturn(r, n, lines)
        PROVE  PoolStep(inventory, inventory')
    BY <2>1, ReturnedToPool
  <2>2. \/ \E r \in Returns, n \in Issuances, lines \in Lines : CreateReturn(r, n, lines)
        \/ inventory' = inventory
    BY <1>5 DEF ReturnStep, DeleteReturn
  <2> QED
    BY <2>1, <2>2, SameInventoryUnseen
<1>6. CASE UNCHANGED vars
  BY <1>6, SameInventoryUnseen DEF vars
<1> QED
  BY <1>1, <1>2, <1>3, <1>4, <1>5, <1>6 DEF Next, RowStep, InboundStep

\* What was booked stays on record.
LEMMA MisbookedStays ==
  ASSUME [Next]_vars
  PROVE  misbooked \subseteq misbooked'
<1>1. CASE RowStep \/ InboundStep
  BY <1>1 DEF RowStep, InboundStep, CreateInventory, RemoveInventory, PostInbound, history
<1>2. CASE TransferStep
  BY <1>2 DEF TransferStep, CreateTransfer, UpdateTransfer, UpdateTransferFails,
     RemoveTransfer, SubmitTransfer, CancelTransfer, ReceiveTransfer, history
<1>3. CASE IssuanceStep \/ ReturnStep
  BY <1>3 DEF IssuanceStep, ReturnStep, CreateIssuance, UpdateIssuance, DeleteIssuance,
     CreateReturn, DeleteReturn, history
<1>4. CASE UNCHANGED vars
  BY <1>4 DEF vars, history
<1> QED
  BY <1>1, <1>2, <1>3, <1>4 DEF Next

\* An organization without rows owns and holds nothing.
LEMMA EmptyPool ==
  ASSUME Init
  PROVE  Pool!PoolInit
<1>1. inventory \in Inventory /\ \A c \in Cells : inventory[c] = NoRow
  BY DEF Init, Inventory
<1>2. ASSUME NEW column \in Columns, NEW i \in Items
      PROVE  TotalIn(inventory, column, i) = 0
  <2>1. Amounts(inventory, column, i) \in [Stores -> Int]
    BY <1>1, AmountIsInt
  <2>2. \A s \in Stores : Amounts(inventory, column, i)[s] = 0
    BY <1>1 DEF Amounts, Amount, Cells
  <2> DEFINE f == Amounts(inventory, column, i)
  <2> HIDE DEF f
  <2>3. f \in [Stores -> Int] /\ PointwiseSum(f, f, f, Stores)
    BY <2>1, <2>2 DEF f, PointwiseSum
  <2>4. SumFunction(f) = SumFunction(f) + SumFunction(f) /\ SumFunction(f) \in Int
    BY <2>3, StoresAssumption, SumOfSums, SumIsInt
  <2>5. \A n \in Int : n = n + n => n = 0
    OBVIOUS
  <2>6. SumFunction(f) = 0
    BY <2>4, <2>5
  <2> QED
    BY <2>6 DEF TotalIn, f
<1>3. Owned(inventory) = [i \in Items |-> 0] /\ Held(inventory) = [i \in Items |-> 0]
  BY <1>2 DEF Owned, Held, Columns
<1> QED
  BY <1>3, PoolIsTotals DEF Pool!PoolInit, Init

\* The ledger of the stores implements the pool of the organization, until a
\* negative quantity is booked: its steps are purchases, issues, takings back of
\* no more than what guards hold, and write-offs.  A return is checked only
\* against what its store has reserved, so this rests on no store's
\* reservations being negative.
THEOREM LedgerImplementsPool == Spec => ImplementsPool
<1>1. TypeOK /\ StockNonNegative /\ [Next]_vars => [Pool!PoolNext]_(Pool!pool)
  <2> SUFFICES ASSUME TypeOK, StockNonNegative, [Next]_vars
               PROVE  [Pool!PoolNext]_(Pool!pool)
    OBVIOUS
  <2>1. CASE misbooked' # {}
    <3>1. Pool!Spoil
      BY <2>1 DEF Pool!Spoil
    <3> QED
      BY <3>1 DEF Pool!PoolNext
  <2>2. CASE misbooked' = {}
    <3>1. Unspoilt
      BY <2>2, MisbookedStays DEF Unspoilt
    <3>2. NoRowNegative
      BY <3>1 DEF Unspoilt, NoRowNegative, StockNonNegative
    <3>3. CASE PoolStep(inventory, inventory')
      BY <3>1, <3>3, PoolStepIsPoolNext
    <3>4. CASE PoolUnseen
      <4>1. UNCHANGED Pool!pool
        BY <3>1, <3>4, PoolIsTotals DEF Unspoilt, PoolUnseen, Pool!pool
      <4> QED
        BY <4>1
    <3> QED
      BY <3>2, <3>3, <3>4, StepOfPool
  <2> QED
    BY <2>1, <2>2
<1>2. Init => Pool!PoolInit
  BY EmptyPool
<1> QED
  BY <1>1, <1>2, TypeCorrect, StockNeverNegative, PTL DEF Spec, ImplementsPool, Pool!PoolSpec
=============================================================================
