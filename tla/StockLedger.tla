----------------------------- MODULE StockLedger -----------------------------
(***************************************************************************)
(* The live stock of one organization and the documents that move it:      *)
(* stock transfers between stores, issuances to guards, returns from       *)
(* guards, and the stock half of a goods receipt.  Source:                 *)
(* src/src/inventory/{inventory,stock-transfers,issuances,returns}.        *)
(*                                                                         *)
(* Every action is one whole request handler.  The handlers that write     *)
(* stock do so inside one database transaction, so a handler that throws   *)
(* leaves no trace and its checks are conjuncts of the guard.  Handlers    *)
(* whose statements interleave are not the subject of this module: those   *)
(* of a goods receipt are in Procurement.  Nor is the deletion of a user,  *)
(* which takes the movements with it that the user made: see Catalogue.    *)
(***************************************************************************)
EXTENDS StockRows, FiniteSets

CONSTANTS Stores,     \* the organization's stores
          Transfers,  \* identities of stock transfers
          Issuances,  \* identities of issuance registers
          Returns,    \* identities of return registers
          Receipts    \* identities of goods receipt notes

ASSUME StoresAssumption == IsFiniteSet(Stores)

Cells == Stores \X Items

VARIABLES
  inventory,  \* the Inventory table: a row or NoRow for every store and item
  movement,   \* the StockMovement table, summed up per store, item and type
  transfer,   \* the StockTransfer table
  issuance,   \* the IssuanceRegister table
  returned,   \* the ReturnRegister table
  posted,     \* the goods receipts whose accepted goods were put into stock
  purged,     \* history: the cells whose row a request deleted
  misbooked   \* history: the cells a negative quantity was booked on

history == <<purged, misbooked>>

vars == <<inventory, movement, transfer, issuance, returned, posted, history>>

NoMovement == [inbound |-> 0, transferIn |-> 0, transferOut |-> 0,
               issued |-> 0, returned |-> 0]

Movement == [inbound : Int, transferIn : Int, transferOut : Int,
             issued : Int, returned : Int]

\* A document that does not exist, because it was not created yet ("NONE") or
\* because it was deleted ("DELETED"), has no columns.
Absent(status) == [status |-> status]

TransferDoc ==
  [status : {"NONE", "DELETED"}] \cup
  [status : {"DRAFT", "IN_TRANSIT", "RECEIVED", "CANCELLED"},
   from : Stores, to : Stores, items : Lines]

IssuanceStatus == {"ISSUED", "PARTIAL_RETURN", "FULL_RETURN", "DAMAGED"}

IssuanceDoc ==
  [status : {"NONE", "DELETED"}] \cup
  [status : IssuanceStatus, store : Stores, items : Lines]

ReturnDoc ==
  [status : {"NONE", "DELETED"}] \cup
  [status : {"FILED"}, of : Issuances, items : Lines]

Exists(doc) == doc.status \notin {"NONE", "DELETED"}

\* Every invariant below starts from these ranges.
TypeOK ==
  /\ inventory \in [Cells -> Row \cup {NoRow}]
  /\ movement \in [Cells -> Movement]
  /\ transfer \in [Transfers -> TransferDoc]
  /\ issuance \in [Issuances -> IssuanceDoc]
  /\ returned \in [Returns -> ReturnDoc]
  /\ posted \subseteq Receipts
  /\ purged \subseteq Cells
  /\ misbooked \subseteq Cells

Init ==
  /\ inventory = [c \in Cells |-> NoRow]
  /\ movement = [c \in Cells |-> NoMovement]
  /\ transfer = [t \in Transfers |-> Absent("NONE")]
  /\ issuance = [n \in Issuances |-> Absent("NONE")]
  /\ returned = [r \in Returns |-> Absent("NONE")]
  /\ posted = {}
  /\ purged = {}
  /\ misbooked = {}
-----------------------------------------------------------------------------
(* Lines applied to a store.                                                 *)

\* Cell c is touched by a document of store s with these lines.
Touches(s, lines, c) == c[1] = s /\ c[2] \in DOMAIN lines

\* The inventory after every line of a document was applied to store s.
Apply(Op(_, _), inv, s, lines) ==
  [c \in Cells |-> IF Touches(s, lines, c) THEN Op(inv[c], lines[c[2]]) ELSE inv[c]]

PutInAll(inv, s, lines) == Apply(PutIn, inv, s, lines)
TakeOutAll(inv, s, lines) == Apply(TakeOut, inv, s, lines)
ReserveAll(inv, s, lines) == Apply(Reserve, inv, s, lines)
ReleaseAll(inv, s, lines) == Apply(Release, inv, s, lines)

\* The movements after one StockMovement row of this type per line.
Record(type, mov, s, lines) ==
  [c \in Cells |-> IF Touches(s, lines, c)
                   THEN [mov[c] EXCEPT ![type] = @ + lines[c[2]]] ELSE mov[c]]

\* The cells that these lines, none of which a DTO bounds from below, book a
\* negative quantity on.
Misbooked(s, lines) == {c \in Cells : Touches(s, lines, c) /\ lines[c[2]] < 0}

\* Every line has a row in store s.
AllStocked(s, lines) == \A i \in DOMAIN lines : inventory[<<s, i>>] # NoRow
-----------------------------------------------------------------------------
(* Inventory rows.                                                           *)

CreateInventory(c) ==
  /\ inventory[c] = NoRow
  /\ inventory' = [inventory EXCEPT ![c] = EmptyRow]
  /\ UNCHANGED <<movement, transfer, issuance, returned, posted, history>>

\* The row goes whatever it holds; the movements stay.
RemoveInventory(c) ==
  /\ inventory[c] # NoRow
  /\ inventory' = [inventory EXCEPT ![c] = NoRow]
  /\ purged' = purged \cup {c}
  /\ UNCHANGED <<movement, transfer, issuance, returned, posted, misbooked>>

\* The stock half of GrnService.receiveGoods: lines with nothing accepted are
\* left out, the others are put into the receipt's store.
PostInbound(g, s, accepted) ==
  LET lines == Restrict(accepted, {i \in DOMAIN accepted : accepted[i] > 0})
  IN  /\ g \notin posted
      /\ posted' = posted \cup {g}
      /\ inventory' = PutInAll(inventory, s, lines)
      /\ movement' = Record("inbound", movement, s, lines)
      /\ UNCHANGED <<transfer, issuance, returned, history>>
-----------------------------------------------------------------------------
(* Stock transfers.                                                          *)

CreateTransfer(t, from, to, lines) ==
  /\ transfer[t].status = "NONE"
  /\ from # to
  /\ transfer' = [transfer EXCEPT ![t] =
       [status |-> "DRAFT", from |-> from, to |-> to, items |-> lines]]
  /\ UNCHANGED <<inventory, movement, issuance, returned, posted, history>>

\* An update may name new stores and new lines; neither is validated, and the
\* stores may come to be the same one.
UpdateTransfer(t, from, to, lines) ==
  /\ transfer[t].status = "DRAFT"
  /\ transfer' = [transfer EXCEPT ![t] =
       [@ EXCEPT !.from = from, !.to = to, !.items = lines]]
  /\ UNCHANGED <<inventory, movement, issuance, returned, posted, history>>

\* The old lines are deleted by a statement of their own.  When the new ones
\* name an unknown item the second statement fails, and the transfer is left
\* without lines.
UpdateTransferFails(t) ==
  /\ transfer[t].status = "DRAFT"
  /\ transfer' = [transfer EXCEPT ![t].items = NoLines]
  /\ UNCHANGED <<inventory, movement, issuance, returned, posted, history>>

RemoveTransfer(t) ==
  /\ transfer[t].status = "DRAFT"
  /\ transfer' = [transfer EXCEPT ![t] = Absent("DELETED")]
  /\ UNCHANGED <<inventory, movement, issuance, returned, posted, history>>

SubmitTransfer(t) ==
  /\ transfer[t].status = "DRAFT"
  /\ transfer' = [transfer EXCEPT ![t].status = "IN_TRANSIT"]
  /\ UNCHANGED <<inventory, movement, issuance, returned, posted, history>>

CancelTransfer(t) ==
  /\ transfer[t].status \in {"DRAFT", "IN_TRANSIT"}
  /\ transfer' = [transfer EXCEPT ![t].status = "CANCELLED"]
  /\ UNCHANGED <<inventory, movement, issuance, returned, posted, history>>

\* Mutant of CanReceive: a row is enough.
CanReceiveUnchecked(doc) == AllStocked(doc.from, doc.items)

\* The source's quantityOnHand has to cover each line; what it holds reserved
\* is not asked.  The destination's row is read after the source's is written.
CanReceive(doc) ==
  /\ AllStocked(doc.from, doc.items)
  /\ \A i \in DOMAIN doc.items : inventory[<<doc.from, i>>].onHand >= doc.items[i]

\* Mutant of MoveStock: both rows are read before either is written.
MoveStockReadFirst(inv, doc) ==
  [c \in Cells |-> IF Touches(doc.to, doc.items, c)
                   THEN PutIn(inv[c], doc.items[c[2]])
                   ELSE TakeOutAll(inv, doc.from, doc.items)[c]]

MoveStock(inv, doc) ==
  PutInAll(TakeOutAll(inv, doc.from, doc.items), doc.to, doc.items)

\* Mutant of RecordTransfer: only the departure is recorded.
RecordDeparture(mov, doc) == Record("transferOut", mov, doc.from, doc.items)

RecordTransfer(mov, doc) ==
  Record("transferIn", Record("transferOut", mov, doc.from, doc.items),
         doc.to, doc.items)

ReceiveTransfer(t) ==
  /\ transfer[t].status = "IN_TRANSIT"
  /\ CanReceive(transfer[t])
  /\ inventory' = MoveStock(inventory, transfer[t])
  /\ movement' = RecordTransfer(movement, transfer[t])
  /\ transfer' = [transfer EXCEPT ![t].status = "RECEIVED"]
  /\ misbooked' = misbooked \cup Misbooked(transfer[t].from, transfer[t].items)
                            \cup Misbooked(transfer[t].to, transfer[t].items)
  /\ UNCHANGED <<issuance, returned, posted, purged>>
-----------------------------------------------------------------------------
(* Issuances and returns.                                                    *)

\* Mutant of CanIssue: what is reserved already may be issued again.
CanIssueReserved(s, lines) ==
  /\ AllStocked(s, lines)
  /\ \A i \in DOMAIN lines : inventory[<<s, i>>].onHand >= lines[i]

\* On hand minus reserved has to cover each line.
CanIssue(s, lines) ==
  /\ AllStocked(s, lines)
  /\ \A i \in DOMAIN lines :
       inventory[<<s, i>>].onHand - inventory[<<s, i>>].reserved >= lines[i]

CreateIssuance(n, s, lines) ==
  /\ issuance[n].status = "NONE"
  /\ CanIssue(s, lines)
  /\ issuance' = [issuance EXCEPT ![n] =
       [status |-> "ISSUED", store |-> s, items |-> lines]]
  /\ inventory' = ReserveAll(inventory, s, lines)
  /\ movement' = Record("issued", movement, s, lines)
  /\ misbooked' = misbooked \cup Misbooked(s, lines)
  /\ UNCHANGED <<transfer, returned, posted, purged>>

\* The status may be set to any value by hand.
UpdateIssuance(n, status) ==
  /\ Exists(issuance[n])
  /\ issuance' = [issuance EXCEPT ![n].status = status]
  /\ UNCHANGED <<inventory, movement, transfer, returned, posted, history>>

\* Deleting an issuance deletes its returns with it and releases nothing.
DeleteIssuance(n) ==
  /\ issuance[n].status = "ISSUED"
  /\ issuance' = [issuance EXCEPT ![n] = Absent("DELETED")]
  /\ returned' = [r \in Returns |->
       IF Exists(returned[r]) /\ returned[r].of = n THEN Absent("DELETED")
       ELSE returned[r]]
  /\ UNCHANGED <<inventory, movement, transfer, posted, history>>

\* Each line has to be of an item of the issuance, and its quantity within
\* what the store holds reserved: not within what this issuance took.
CanReturn(n, lines) ==
  /\ DOMAIN lines \subseteq DOMAIN issuance[n].items
  /\ AllStocked(issuance[n].store, lines)
  /\ \A i \in DOMAIN lines :
       inventory[<<issuance[n].store, i>>].reserved >= lines[i]

CreateReturn(r, n, lines) ==
  /\ returned[r].status = "NONE"
  /\ Exists(issuance[n])
  /\ CanReturn(n, lines)
  /\ returned' = [returned EXCEPT ![r] =
       [status |-> "FILED", of |-> n, items |-> lines]]
  /\ inventory' = ReleaseAll(inventory, issuance[n].store, lines)
  /\ movement' = Record("returned", movement, issuance[n].store, lines)
  /\ issuance' = [issuance EXCEPT ![n].status =
       StatusAfterReturn(issuance[n].items, lines)]
  /\ misbooked' = misbooked \cup Misbooked(issuance[n].store, lines)
  /\ UNCHANGED <<transfer, posted, purged>>

\* Deleting a return takes nothing out of stock again.
DeleteReturn(r) ==
  /\ Exists(returned[r])
  /\ returned' = [returned EXCEPT ![r] = Absent("DELETED")]
  /\ UNCHANGED <<inventory, movement, transfer, issuance, posted, history>>
-----------------------------------------------------------------------------
RowStep ==
  \E c \in Cells : CreateInventory(c) \/ RemoveInventory(c)

InboundStep ==
  \E g \in Receipts, s \in Stores, lines \in Lines : PostInbound(g, s, lines)

TransferStep ==
  \E t \in Transfers :
    \/ \E from, to \in Stores, lines \in Lines :
         CreateTransfer(t, from, to, lines) \/ UpdateTransfer(t, from, to, lines)
    \/ UpdateTransferFails(t)
    \/ RemoveTransfer(t)
    \/ SubmitTransfer(t)
    \/ CancelTransfer(t)
    \/ ReceiveTransfer(t)

IssuanceStep ==
  \E n \in Issuances :
    \/ \E s \in Stores, lines \in Lines : CreateIssuance(n, s, lines)
    \/ \E status \in IssuanceStatus : UpdateIssuance(n, status)
    \/ DeleteIssuance(n)

ReturnStep ==
  \E r \in Returns :
    \/ \E n \in Issuances, lines \in Lines : CreateReturn(r, n, lines)
    \/ DeleteReturn(r)

Next == RowStep \/ InboundStep \/ TransferStep \/ IssuanceStep \/ ReturnStep

Spec == Init /\ [][Next]_vars
-----------------------------------------------------------------------------
(* Properties.                                                               *)

\* The stored quantityAvailable of every row is quantityOnHand minus
\* quantityReserved, although two of its writers add to the column and two
\* recompute it (the comment of the column in schema.prisma says so).
AvailableIsDifference ==
  \A c \in Cells : inventory[c] # NoRow =>
    inventory[c].available = inventory[c].onHand - inventory[c].reserved

\* No sequence of receipts, transfers, issuances and returns drives the stock or
\* the reservations of a cell below zero, unless one of them booked a negative
\* quantity on it: each handler checks only one of the two columns before it
\* subtracts.
StockNonNegative ==
  \A c \in Cells \ misbooked : inventory[c] # NoRow =>
    inventory[c].onHand >= 0 /\ inventory[c].reserved >= 0

\* The movements are an audit trail: unless a request deleted the row, they
\* add up to what the row holds, and a cell without a row has none.
AuditTrailExplainsStock ==
  \A c \in Cells \ purged :
    IF inventory[c] = NoRow THEN movement[c] = NoMovement
    ELSE /\ inventory[c].onHand = movement[c].inbound + movement[c].transferIn
                                    - movement[c].transferOut
         /\ inventory[c].reserved = movement[c].issued - movement[c].returned

\* A row is promised to guards beyond what it holds only where a transfer was
\* taken out of the store, or where a negative quantity was booked: issuances
\* and returns of natural quantities never oversell.
OversoldOnlyByTransfer ==
  \A c \in Cells \ misbooked : inventory[c] # NoRow /\ inventory[c].available < 0 =>
    movement[c].transferOut > 0

\* What the organization has of an item, over its stores.
Total(column, i) ==
  SumFunction([s \in Stores |->
    IF inventory[<<s, i>>] = NoRow THEN 0 ELSE inventory[<<s, i>>][column]])

\* Receiving a transfer moves goods and neither makes nor loses any, also when
\* the destination has no row yet, or is the source itself.
TransferConserves ==
  [][\A t \in Transfers :
       transfer[t].status # "RECEIVED" /\ transfer'[t].status = "RECEIVED" =>
         \A i \in Items : /\ Total("onHand", i)' = Total("onHand", i)
                          /\ Total("reserved", i)' = Total("reserved", i)]_vars

\* What the organization promises about an item, whatever store holds it.
Pool == INSTANCE StockPool
          WITH owned <- [i \in Items |-> Total("onHand", i)],
               held  <- [i \in Items |-> Total("reserved", i)],
               spoilt <- misbooked

\* The ledger implements the pool, until a negative quantity is booked: every
\* handler is a purchase, an issue, a taking back, a write-off, or cannot be
\* seen (transfers).
ImplementsPool == Pool!PoolSpec
-----------------------------------------------------------------------------
(* The report of the movements of an item in a store, getMovementHistory.    *)

\* Both movements of a transfer have the type TRANSFER, which counts as inbound.
TotalInbound(c) ==
  movement[c].inbound + movement[c].transferIn + movement[c].transferOut + movement[c].returned

TotalOutbound(c) == movement[c].issued

NetMovement(c) == TotalInbound(c) - TotalOutbound(c)
-----------------------------------------------------------------------------
(* A statement of the repository that the handlers do not keep.              *)

\* "Create outbound stock movement for source store" and "Calculate
\* inbound/outbound totals": the net movement reported for an item in a store is
\* what came into the row and is available there.
NetMovementIsAvailable ==
  \A c \in Cells \ purged : inventory[c] # NoRow =>
    NetMovement(c) = inventory[c].available
==============================================================================
