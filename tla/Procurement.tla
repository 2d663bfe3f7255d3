----------------------------- MODULE Procurement -----------------------------
(***************************************************************************)
(* From a purchase request (PR) over a purchase order (PO) to the goods    *)
(* receipt note (GRN) that puts the bought goods into stock.  Source:      *)
(* src/src/inventory/{purchase-requests,purchase-orders,grn}.              *)
(*                                                                         *)
(* A handler reads the rows it needs, checks them, and writes by primary   *)
(* key in a later statement: nothing ties the write to what was read.  So  *)
(* a request in flight is a call record that holds what its handler read,  *)
(* and every handler is a Begin action (reads and checks) and a Commit     *)
(* action (writes).  Receiving goods has three steps: the reads before the *)
(* transaction, the statements of the transaction up to its last read      *)
(* (their writes are locked and not yet visible), and its commit.          *)
(*                                                                         *)
(* With one client the handlers run one after the other.                   *)
(***************************************************************************)
EXTENDS Integers, Functions, FiniteSets

CONSTANTS Clients,     \* the requests the server works on at a time
          Requests,    \* identities of purchase requests
          Orders,      \* identities of purchase orders
          LineIds,     \* identities of purchase order items, never reused
          Receipts,    \* identities of goods receipt notes
          Items,       \* the items a receipt may list
          Quantities,  \* the quantities a document may list
          Portions,    \* the quantities a request may accept or reject of an item
          MaxEntries,  \* the most entries a request to receive goods has
          NoRequest,   \* an order that belongs to no request
          NoLine       \* a receipt item that belongs to no order item

\* The DTOs ask for numbers, not for natural ones.
ASSUME ProcurementAssumption ==
  /\ Quantities \subseteq Int /\ Portions \subseteq Int /\ MaxEntries \in Nat
  /\ NoRequest \notin Requests /\ NoLine \notin LineIds

ASSUME FiniteAssumption == IsFiniteSet(Receipts) /\ IsFiniteSet(Items)

VARIABLES
  request,  \* the status of each purchase request
  order,    \* the PurchaseOrder table
  line,     \* the PurchaseOrderItem table
  receipt,  \* the Grn table, with the GrnItem rows of each
  posted,   \* history: what was put into stock for each receipt and item, and
            \* whether every request that did so was a regular one
  call      \* what each client's handler is doing, and what it has read

tables == <<request, order, line, receipt, posted>>
vars == <<request, order, line, receipt, posted, call>>

PRStatus == {"DRAFT", "SUBMITTED", "APPROVED", "REJECTED", "CANCELLED"}

POStatus == {"DRAFT", "SUBMITTED", "CONFIRMED", "PARTIALLY_RECEIVED",
             "RECEIVED", "CANCELLED"}

\* No handler gives a receipt the status REJECTED.
GRNStatus == {"PENDING", "INSPECTING", "RECEIVED", "PARTIAL"}

Missing == {"NONE", "DELETED"}
Absent(status) == [status |-> status]
Exists(row) == row.status \notin Missing

OrderDoc ==
  [status : Missing] \cup [status : POStatus, pr : Requests \cup {NoRequest}]

LineRow ==
  [status : Missing] \cup
  [status : {"LIVE"}, of : Orders, ordered : Quantities, received : Int]

ReceiptItem ==
  [quantity : Quantities, line : LineIds \cup {NoLine}, accepted : {0} \cup Portions]

ReceiptItems == UNION {[S -> ReceiptItem] : S \in SUBSET Items}

ReceiptDoc ==
  [status : Missing] \cup
  [status : GRNStatus, of : Orders, items : ReceiptItems]

\* A request to receive goods lists what is accepted of items of the receipt, in
\* an order, and nothing keeps it from listing an item twice.
Entry == [item : Items, accepted : Portions]
Entries == UNION {[1..n -> Entry] : n \in 1..MaxEntries}

\* The rows a handler read of the order items it will write.
LinesRead == [LineIds -> LineRow]

Idle == [op |-> "idle"]

Call ==
  {Idle} \cup
  [op : {"moveRequest"}, id : Requests, to : PRStatus \cup {"DELETED"}] \cup
  [op : {"createOrder"}, pr : Requests \cup {NoRequest}] \cup
  [op : {"moveOrder"}, id : Orders, to : POStatus] \cup
  [op : {"updateOrder", "insertLines", "removeOrder"}, id : Orders] \cup
  [op : {"createReceipt"}, of : Orders, items : ReceiptItems] \cup
  [op : {"inspect", "removeReceipt"}, id : Receipts] \cup
  [op : {"receive"}, id : Receipts, of : Orders, items : ReceiptItems,
   entries : Entries, read : LinesRead] \cup
  [op : {"received"}, id : Receipts, of : Orders, items : ReceiptItems,
   entries : Entries, read : LinesRead, status : POStatus]

TypeOK ==
  /\ request \in [Requests -> PRStatus \cup Missing]
  /\ order \in [Orders -> OrderDoc]
  /\ line \in [LineIds -> LineRow]
  /\ receipt \in [Receipts -> ReceiptDoc]
  /\ posted \in [Receipts -> [stock : [Items -> Nat], regular : BOOLEAN]]
  /\ call \in [Clients -> Call]

Init ==
  /\ request = [p \in Requests |-> "NONE"]
  /\ order = [o \in Orders |-> Absent("NONE")]
  /\ line = [l \in LineIds |-> Absent("NONE")]
  /\ receipt = [g \in Receipts |-> Absent("NONE")]
  /\ posted = [g \in Receipts |-> [stock |-> [i \in Items |-> 0], regular |-> TRUE]]
  /\ call = [c \in Clients |-> Idle]
-----------------------------------------------------------------------------
(* Calls.                                                                    *)

\* The handler of client c has read and checked, and goes on as r.
Begin(c, r) ==
  /\ call[c] = Idle
  /\ call' = [call EXCEPT ![c] = r]
  /\ UNCHANGED tables

Done(c) == call' = [call EXCEPT ![c] = Idle]

\* A handler throws: the row it wants is gone, a unique or foreign key
\* objects, a check inside the transaction fails, the database aborts it.
Fail(c) ==
  /\ call[c] # Idle
  /\ Done(c)
  /\ UNCHANGED tables
-----------------------------------------------------------------------------
(* Purchase requests.                                                        *)

\* The statuses from which a request may be given status to.
RequestMoves(to) ==
  CASE to = "SUBMITTED"               -> {"DRAFT"}
    [] to \in {"APPROVED", "REJECTED"} -> {"SUBMITTED"}
    [] to = "CANCELLED"               -> {"DRAFT", "SUBMITTED"}
    [] to = "DELETED"                 -> PRStatus
    [] OTHER                          -> {}

CreateRequest(c, p) ==
  /\ call[c] = Idle
  /\ request[p] = "NONE"
  /\ request' = [request EXCEPT ![p] = "DRAFT"]
  /\ UNCHANGED <<order, line, receipt, posted, call>>

BeginMoveRequest(c, p, to) ==
  /\ request[p] \in RequestMoves(to)
  /\ Begin(c, [op |-> "moveRequest", id |-> p, to |-> to])

\* Deleting a request leaves its orders without one.
CommitMoveRequest(c) ==
  LET r == call[c] IN
  /\ r.op = "moveRequest"
  /\ request[r.id] \notin Missing
  /\ request' = [request EXCEPT ![r.id] = r.to]
  /\ order' = [o \in Orders |->
       IF r.to = "DELETED" /\ Exists(order[o]) /\ order[o].pr = r.id
       THEN [order[o] EXCEPT !.pr = NoRequest] ELSE order[o]]
  /\ Done(c)
  /\ UNCHANGED <<line, receipt, posted>>
-----------------------------------------------------------------------------
(* Purchase orders.                                                          *)

LinesOf(o) == {l \in LineIds : line[l].status = "LIVE" /\ line[l].of = o}

\* The rows of order items the transaction of a receipt has written and not
\* yet committed: whoever wants to write or delete one waits.
Listed(entries) == {entries[k].item : k \in DOMAIN entries}

ItemsOf(r, l) == {i \in Listed(r.entries) : r.items[i].line = l}

Writes(r) == {l \in LineIds : ItemsOf(r, l) # {}}

Locks(r) == IF r.op = "received" THEN Writes(r) ELSE {}

Unlocked(lines) == \A d \in Clients : Locks(call[d]) \cap lines = {}

\* New order items with new identities.
InsertLines(o, quantity) ==
  /\ \A l \in DOMAIN quantity : line[l].status = "NONE"
  /\ line' = [l \in LineIds |->
       IF l \in DOMAIN quantity
       THEN [status |-> "LIVE", of |-> o, ordered |-> quantity[l], received |-> 0]
       ELSE line[l]]

\* The order items are deleted; receipt items that name them name none.
DeleteLines(gone) ==
  line' = [l \in LineIds |-> IF l \in gone THEN Absent("DELETED") ELSE line[l]]

Unlinked(items, gone) ==
  [i \in DOMAIN items |->
     IF items[i].line \in gone THEN [items[i] EXCEPT !.line = NoLine] ELSE items[i]]

\* An order that names a request may be made only when it is approved, with
\* lines of its own or with the lines of the request.
BeginCreateOrder(c, p) ==
  /\ p # NoRequest => request[p] = "APPROVED"
  /\ Begin(c, [op |-> "createOrder", pr |-> p])

CommitCreateOrder(c, o, quantity) ==
  LET r == call[c] IN
  /\ r.op = "createOrder"
  /\ r.pr # NoRequest => request[r.pr] \notin Missing
  /\ order[o].status = "NONE"
  /\ order' = [order EXCEPT ![o] = [status |-> "DRAFT", pr |-> r.pr]]
  /\ InsertLines(o, quantity)
  /\ Done(c)
  /\ UNCHANGED <<request, receipt, posted>>

\* Mutant of AllowedTransitions: a cancelled order may be taken up again.
TransitionsReopening(from) ==
  CASE from \in {"DRAFT", "CANCELLED"} -> {"SUBMITTED", "CANCELLED"}
    [] from = "SUBMITTED"          -> {"CONFIRMED", "CANCELLED"}
    [] from = "CONFIRMED"          -> {"PARTIALLY_RECEIVED", "RECEIVED"}
    [] from = "PARTIALLY_RECEIVED" -> {"RECEIVED", "CANCELLED"}
    [] OTHER                       -> {}

\* updateStatus's table of transitions.
AllowedTransitions(from) ==
  CASE from = "DRAFT"              -> {"SUBMITTED", "CANCELLED"}
    [] from = "SUBMITTED"          -> {"CONFIRMED", "CANCELLED"}
    [] from = "CONFIRMED"          -> {"PARTIALLY_RECEIVED", "RECEIVED"}
    [] from = "PARTIALLY_RECEIVED" -> {"RECEIVED", "CANCELLED"}
    [] OTHER                       -> {}

\* submit is the transition from DRAFT to SUBMITTED.
BeginMoveOrder(c, o, to) ==
  /\ Exists(order[o])
  /\ to \in AllowedTransitions(order[o].status)
  /\ Begin(c, [op |-> "moveOrder", id |-> o, to |-> to])

CommitMoveOrder(c) ==
  LET r == call[c] IN
  /\ r.op = "moveOrder"
  /\ Exists(order[r.id])
  /\ order' = [order EXCEPT ![r.id].status = r.to]
  /\ Done(c)
  /\ UNCHANGED <<request, line, receipt, posted>>

BeginUpdateOrder(c, o) ==
  /\ order[o].status = "DRAFT"
  /\ Begin(c, [op |-> "updateOrder", id |-> o])

\* An update that brings items first deletes the old ones, for good.
DeleteOldLines(c) ==
  LET r == call[c] IN
  /\ r.op = "updateOrder"
  /\ Unlocked(LinesOf(r.id))
  /\ DeleteLines(LinesOf(r.id))
  /\ receipt' = [g \in Receipts |->
       IF Exists(receipt[g])
       THEN [receipt[g] EXCEPT !.items = Unlinked(@, LinesOf(r.id))] ELSE receipt[g]]
  /\ call' = [call EXCEPT ![c].op = "insertLines"]
  /\ UNCHANGED <<request, order, posted>>

\* Then it inserts the new ones and writes the other columns, among them a
\* request nobody validates.
CommitUpdateOrder(c, p, quantity) ==
  LET r == call[c] IN
  /\ r.op = "insertLines" \/ (r.op = "updateOrder" /\ DOMAIN quantity = {})
  /\ Exists(order[r.id])
  /\ p # NoRequest => request[p] \notin Missing
  /\ order' = [order EXCEPT ![r.id].pr = p]
  /\ InsertLines(r.id, quantity)
  /\ Done(c)
  /\ UNCHANGED <<request, receipt, posted>>

BeginRemoveOrder(c, o) ==
  /\ order[o].status = "DRAFT"
  /\ Begin(c, [op |-> "removeOrder", id |-> o])

\* Mutant of CommitRemoveOrder: the delete does not wait for transactions that
\* have written the order's rows.
RemoveOrderAtOnce(c) ==
  LET r == call[c] IN
  /\ r.op = "removeOrder"
  /\ Exists(order[r.id])
  /\ order' = [order EXCEPT ![r.id] = Absent("DELETED")]
  /\ UNCHANGED <<request, line, receipt, posted>>
  /\ Done(c)

\* The delete cascades to the order's items and to its receipts.
CommitRemoveOrder(c) ==
  LET r == call[c] IN
  /\ r.op = "removeOrder"
  /\ Exists(order[r.id])
  /\ \A d \in Clients : call[d].op = "received" => call[d].of # r.id
  /\ order' = [order EXCEPT ![r.id] = Absent("DELETED")]
  /\ DeleteLines(LinesOf(r.id))
  /\ receipt' = [g \in Receipts |->
       IF Exists(receipt[g]) /\ receipt[g].of = r.id THEN Absent("DELETED")
       ELSE receipt[g]]
  /\ Done(c)
  /\ UNCHANGED <<request, posted>>
-----------------------------------------------------------------------------
(* Goods receipt notes.                                                      *)

\* Each item that names an order item has to name one of this order, and fit
\* into what it asks for and into what is still open of it, each looked at alone.
FitsOrder(o, items) ==
  \A i \in DOMAIN items : items[i].line # NoLine =>
    /\ items[i].line \in LinesOf(o)
    /\ items[i].quantity <= line[items[i].line].ordered
    /\ line[items[i].line].received + items[i].quantity <= line[items[i].line].ordered

\* The order may have any status.
BeginCreateReceipt(c, o, items) ==
  /\ Exists(order[o])
  /\ FitsOrder(o, items)
  /\ Begin(c, [op |-> "createReceipt", of |-> o, items |-> items])

CommitCreateReceipt(c, g) ==
  LET r == call[c] IN
  /\ r.op = "createReceipt"
  /\ Exists(order[r.of])
  /\ \A i \in DOMAIN r.items :
       r.items[i].line # NoLine => line[r.items[i].line].status = "LIVE"
  /\ receipt[g].status = "NONE"
  /\ receipt' = [receipt EXCEPT ![g] =
       [status |-> "PENDING", of |-> r.of, items |-> r.items]]
  /\ Done(c)
  /\ UNCHANGED <<request, order, line, posted>>

BeginInspect(c, g) ==
  /\ receipt[g].status = "PENDING"
  /\ Begin(c, [op |-> "inspect", id |-> g])

CommitInspect(c) ==
  LET r == call[c] IN
  /\ r.op = "inspect"
  /\ Exists(receipt[r.id])
  /\ receipt' = [receipt EXCEPT ![r.id].status = "INSPECTING"]
  /\ Done(c)
  /\ UNCHANGED <<request, order, line, posted>>

\* Mutant of BeginRemoveReceipt: a receipt of part of the goods can be deleted.
BeginRemovePartial(c, g) ==
  /\ receipt[g].status \in {"PENDING", "PARTIAL"}
  /\ Begin(c, [op |-> "removeReceipt", id |-> g])

BeginRemoveReceipt(c, g) ==
  /\ receipt[g].status = "PENDING"
  /\ Begin(c, [op |-> "removeReceipt", id |-> g])

CommitRemoveReceipt(c) ==
  LET r == call[c] IN
  /\ r.op = "removeReceipt"
  /\ Exists(receipt[r.id])
  /\ \A d \in Clients : call[d].op = "received" => call[d].id # r.id
  /\ receipt' = [receipt EXCEPT ![r.id] = Absent("DELETED")]
  /\ Done(c)
  /\ UNCHANGED <<request, order, line, posted>>

\* The receipt, its items and their order items are read before the
\* transaction begins.  Each entry is compared alone with what the item brings,
\* less what it rejects, which may be negative as well.
BeginReceive(c, g, entries) ==
  /\ receipt[g].status \in {"PENDING", "INSPECTING"}
  /\ Listed(entries) \subseteq DOMAIN receipt[g].items
  /\ \A k \in DOMAIN entries : \E rejected \in Portions \cup {0} :
       entries[k].accepted + rejected <= receipt[g].items[entries[k].item].quantity
  /\ LET items == receipt[g].items
         named == {items[i].line : i \in Listed(entries)}
     IN Begin(c, [op |-> "receive", id |-> g, of |-> receipt[g].of,
                  items |-> items, entries |-> entries,
                  read |-> [l \in LineIds |->
                    IF l \in named THEN line[l] ELSE Absent("NONE")]])

\* What the first and the last entry for one of the items accept.
First(entries, items) ==
  entries[CHOOSE k \in DOMAIN entries : /\ entries[k].item \in items
            /\ \A m \in DOMAIN entries : entries[m].item \in items => k <= m].accepted

Last(entries, items) ==
  entries[CHOOSE k \in DOMAIN entries : /\ entries[k].item \in items
            /\ \A m \in DOMAIN entries : entries[m].item \in items => m <= k].accepted

\* Mutant of NewReceived: earlier receipts are forgotten.
NewReceivedOnly(r, l) == Last(r.entries, ItemsOf(r, l))

\* quantityReceived is written for each entry, as the sum of what was read before
\* and what the entry accepts: the last write stays.
NewReceived(r, l) == r.read[l].received + Last(r.entries, ItemsOf(r, l))

\* Mutant of WithinOrdered: what has come in so far is compared.
WithinOrderedBefore(r) == \A l \in Writes(r) : r.read[l].received <= r.read[l].ordered

\* Every entry fits, looked at alone.
WithinOrdered(r) ==
  \A k \in DOMAIN r.entries : LET row == r.read[r.items[r.entries[k].item].line] IN
    r.items[r.entries[k].item].line # NoLine =>
      row.received + r.entries[k].accepted <= row.ordered

\* What the transaction sees of an order item: its own write or the last
\* committed value.
Seen(r, l) == IF l \in Writes(r) THEN NewReceived(r, l) ELSE line[l].received

\* Mutant of StatusOfOrder: items nothing has come in of are overlooked.
StatusOfStarted(r) ==
  IF \E l \in LinesOf(r.of) : 0 < Seen(r, l) /\ Seen(r, l) < line[l].ordered
  THEN "PARTIALLY_RECEIVED" ELSE "RECEIVED"

StatusOfOrder(r) ==
  LET partially == \E l \in LinesOf(r.of) : 0 < Seen(r, l) /\ Seen(r, l) < line[l].ordered
      pending   == \E l \in LinesOf(r.of) : Seen(r, l) = 0
  IN IF partially \/ (pending /\ ~partially) THEN "PARTIALLY_RECEIVED" ELSE "RECEIVED"

\* The statements of the transaction, up to reading the order's items back.
\* The writes by primary key wait for each other's locks, on receipt items
\* and on order items; an item read before that has gone makes it fail.
ExecuteReceive(c) ==
  LET r == call[c] IN
  /\ r.op = "receive"
  /\ Exists(receipt[r.id])
  /\ \A l \in Writes(r) : line[l].status = "LIVE"
  /\ WithinOrdered(r)
  /\ Unlocked(Writes(r))
  /\ \A d \in Clients : call[d].op = "received" /\ call[d].id = r.id =>
       Listed(call[d].entries) \cap Listed(r.entries) = {}
  /\ call' = [call EXCEPT ![c] =
       [op |-> "received", id |-> r.id, of |-> r.of, items |-> r.items,
        entries |-> r.entries, read |-> r.read, status |-> StatusOfOrder(r)]]
  /\ UNCHANGED tables

\* An item is looked up in the request: the first entry for it is found.
FullyAccepted(r) ==
  \A i \in DOMAIN r.items :
    i \in Listed(r.entries) /\ First(r.entries, {i}) = r.items[i].quantity

\* The receipt and its items once the goods are accepted.
Accepted(doc, r) ==
  [status |-> IF FullyAccepted(r) THEN "RECEIVED" ELSE "PARTIAL",
   of     |-> doc.of,
   items  |-> [i \in DOMAIN doc.items |->
                 IF i \in Listed(r.entries)
                 THEN [doc.items[i] EXCEPT !.accepted = Last(r.entries, {i})]
                 ELSE doc.items[i]]]

\* What goes into stock of item i: every entry that accepts something adds to it.
PutIn(entries, i) ==
  SumFunction([k \in DOMAIN entries |->
    IF entries[k].item = i /\ entries[k].accepted > 0 THEN entries[k].accepted ELSE 0])

\* History: a regular request lists each item once and accepts what it brings.
Regular(entries) ==
  \A k, m \in DOMAIN entries :
    entries[k].accepted >= 0 /\ (entries[k].item = entries[m].item => k = m)

\* The transaction writes the statuses of order and receipt and commits.
CommitReceive(c) ==
  LET r == call[c] IN
  /\ r.op = "received"
  /\ receipt' = [receipt EXCEPT ![r.id] = Accepted(@, r)]
  /\ line' = [l \in LineIds |->
       IF l \in Writes(r) THEN [line[l] EXCEPT !.received = NewReceived(r, l)]
       ELSE line[l]]
  /\ order' = [order EXCEPT ![r.of].status = r.status]
  /\ posted' = [posted EXCEPT ![r.id] =
       [stock   |-> [i \in Items |-> @.stock[i] + PutIn(r.entries, i)],
        regular |-> @.regular /\ Regular(r.entries)]]
  /\ Done(c)
  /\ UNCHANGED request
-----------------------------------------------------------------------------
NewLines == UNION {[S -> Quantities] : S \in SUBSET LineIds}

NewItems == UNION {[S -> [quantity : Quantities, line : LineIds \cup {NoLine},
                          accepted : {0}]] : S \in SUBSET Items}

RequestStep(c) ==
  \/ \E p \in Requests :
       \/ CreateRequest(c, p)
       \/ \E to \in PRStatus \cup {"DELETED"} : BeginMoveRequest(c, p, to)
  \/ CommitMoveRequest(c)

OrderStep(c) ==
  \/ \E p \in Requests \cup {NoRequest} : BeginCreateOrder(c, p)
  \/ \E o \in Orders, quantity \in NewLines : CommitCreateOrder(c, o, quantity)
  \/ \E o \in Orders : \/ \E to \in POStatus : BeginMoveOrder(c, o, to)
                       \/ BeginUpdateOrder(c, o)
                       \/ BeginRemoveOrder(c, o)
  \/ CommitMoveOrder(c)
  \/ DeleteOldLines(c)
  \/ \E p \in Requests \cup {NoRequest}, quantity \in NewLines :
       CommitUpdateOrder(c, p, quantity)
  \/ CommitRemoveOrder(c)

ReceiptStep(c) ==
  \/ \E o \in Orders, items \in NewItems : BeginCreateReceipt(c, o, items)
  \/ \E g \in Receipts : \/ CommitCreateReceipt(c, g)
                         \/ BeginInspect(c, g)
                         \/ BeginRemoveReceipt(c, g)
                         \/ \E entries \in Entries : BeginReceive(c, g, entries)
  \/ CommitInspect(c)
  \/ CommitRemoveReceipt(c)
  \/ ExecuteReceive(c)
  \/ CommitReceive(c)

Next == \E c \in Clients : RequestStep(c) \/ OrderStep(c) \/ ReceiptStep(c) \/ Fail(c)

Spec == Init /\ [][Next]_vars
-----------------------------------------------------------------------------
(* Properties.                                                               *)

\* No order item receives more than was ordered, however many handlers work on
\* the order at a time and however often requests name it: each writes a sum it
\* checked against the row it read.  (Nothing has come in of one that asks for
\* less than nothing, or a negative quantity.)
ReceivedWithinOrdered ==
  \A l \in LineIds : line[l].status = "LIVE" =>
    line[l].received <= line[l].ordered \/ line[l].received = 0

\* The foreign keys hold: a receipt belongs to an order that exists, and its
\* items name items of that order.
ReferencesIntact ==
  \A g \in Receipts : Exists(receipt[g]) =>
    /\ Exists(order[receipt[g].of])
    /\ \A i \in DOMAIN receipt[g].items : receipt[g].items[i].line # NoLine =>
         /\ line[receipt[g].items[i].line].status = "LIVE"
         /\ line[receipt[g].items[i].line].of = receipt[g].of

\* What the schema promises, whatever a handler has read and another one has
\* deleted or written since: columns in their ranges, foreign keys that hold.
SchemaKept == TypeOK /\ ReferencesIntact

\* A receipt about to be created names items that are, or were, of its order.
CreatesInStep(r) ==
  \A i \in DOMAIN r.items : r.items[i].line # NoLine =>
    LET row == line[r.items[i].line] IN
      row.status # "NONE" /\ (row.status = "LIVE" => row.of = r.of)

\* Goods about to be received: the order items that were read either are
\* unchanged, up to what they have received, or are gone.
ReceivesInStep(r) ==
  /\ Listed(r.entries) \subseteq DOMAIN r.items
  /\ receipt[r.id].status # "NONE"
  /\ Exists(receipt[r.id]) =>
       receipt[r.id].of = r.of /\ DOMAIN receipt[r.id].items = DOMAIN r.items
  /\ \A l \in Writes(r) :
       /\ r.read[l].status = "LIVE"
       /\ line[l].status # "NONE"
       /\ line[l].status = "LIVE" =>
            line[l].of = r.of /\ line[l].ordered = r.read[l].ordered

\* Goods received in a transaction that is not committed yet: its locks keep
\* every row it wrote, and no sum it wrote exceeds what was ordered.
LocksHeld(r) ==
  /\ Exists(receipt[r.id])
  /\ \A l \in Writes(r) : line[l].status = "LIVE"
  /\ WithinOrdered(r)

CallInStep(r) ==
  /\ r.op = "createReceipt" => CreatesInStep(r)
  /\ r.op \in {"receive", "received"} => ReceivesInStep(r)
  /\ r.op = "received" => LocksHeld(r)

\* What the handlers in flight have read and locked agrees with the tables, as
\* far as they rely on it.
CallsInStep == \A c \in Clients : CallInStep(call[c])

\* What the receipts that exist accepted of order item l.
AcceptedOf(l) ==
  SumFunction([g \in Receipts |->
    IF Exists(receipt[g])
    THEN SumFunction([i \in DOMAIN receipt[g].items |->
           IF receipt[g].items[i].line = l THEN receipt[g].items[i].accepted ELSE 0])
    ELSE 0])

Settled(doc) == doc.status \in {"RECEIVED", "PARTIAL"}

\* Of each receipt whose goods came in, at most one item names order item l.
NamedOnce(l) ==
  \A g \in Receipts : Settled(receipt[g]) =>
    \A i, j \in DOMAIN receipt[g].items :
      receipt[g].items[i].line = l /\ receipt[g].items[j].line = l => i = j

\* An order item has received what its receipts accepted, whatever requests
\* repeat and whatever negative quantities they accept: receiving adds to what
\* it read, deletes and updates of the order cut the link between the two only
\* while nothing is received.  Excepted are order items that two items of one
\* receipt name: there the last of two sums stays.
OrderAccountsForReceipts ==
  \A l \in LineIds : line[l].status = "LIVE" /\ NamedOnce(l) =>
    line[l].received = AcceptedOf(l)

\* Goods are in stock only for receipts that were received and still exist, and
\* for no less than the receipt says: for exactly that when the request that
\* received it lists each item once and accepts no negative quantity.
StockMatchesReceipts ==
  \A g \in Receipts, i \in Items :
    LET accepted == IF Exists(receipt[g]) /\ i \in DOMAIN receipt[g].items
                    THEN receipt[g].items[i].accepted ELSE 0
        stock == posted[g].stock[i]
    IN /\ stock # 0 => Settled(receipt[g])
       /\ stock >= accepted
       /\ posted[g].regular => stock = accepted

\* "Update PurchaseOrder status based on all items received": receiving goods
\* leaves the order RECEIVED exactly when all that was ordered has come in and no
\* item asks for nothing: an item of quantity zero counts as pending for good.
\* An item whose sum a negative acceptance has taken below zero counts as
\* neither pending nor partially received.
ReceiptSettlesOrder ==
  [][\A g \in Receipts : ~Settled(receipt[g]) /\ Settled(receipt[g])' =>
       LET o == receipt[g].of IN
         order'[o].status = "RECEIVED" <=>
           \A l \in LinesOf(o) :
             \/ line'[l].received = line[l].ordered /\ line[l].ordered # 0
             \/ line'[l].received < 0]_vars

\* "Validate: accepted + rejected <= received": no more of an item comes into
\* stock than the receipt brings.  Two handlers that receive one receipt break it.
NoMoreThanBrought ==
  \A g \in Receipts : Exists(receipt[g]) =>
    \A i \in DOMAIN receipt[g].items :
      posted[g].stock[i] <= receipt[g].items[i].quantity

\* One handler at a time: an order that is RECEIVED or CANCELLED gets another
\* status only by goods received of it, which write the status they compute
\* whatever the order's is, and none goes back to DRAFT, where it could be
\* deleted with its receipts.
ClosedOrdersStay ==
  [][\A o \in Orders :
       Exists(order[o]) /\ Exists(order[o])' /\ order'[o].status # order[o].status =>
         /\ order'[o].status # "DRAFT"
         /\ order[o].status \in {"RECEIVED", "CANCELLED"} =>
              \E g \in Receipts : /\ Exists(receipt[g]) /\ receipt[g].of = o
                                   /\ ~Settled(receipt[g]) /\ Settled(receipt[g])']_vars
==============================================================================
