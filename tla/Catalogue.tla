------------------------------- MODULE Catalogue -------------------------------
(***************************************************************************)
(* What the inventory is made of: categories, groups, vendors, items,      *)
(* stores and inventory cards of several organizations, and what their     *)
(* deletion takes along: stock, movements, orders and receipts.  Source:   *)
(* src/src/inventory/{categories,groups,vendors,items,stores,              *)
(* inventory-cards,purchase-orders,grn}/ and the onDelete rules of         *)
(* src/prisma/schema.prisma.                                               *)
(*                                                                         *)
(* Creating an item, a store or a card, moving a store, and deleting an    *)
(* order or a receipt read first and write in a later statement: a request *)
(* in between is a row of `call'.  isActive is stored and never read, and  *)
(* left out; so are the guard of a card and what only describes a row.  An *)
(* order and a receipt are kept for what takes them along: a receipt is of *)
(* one unit of one item and is received once (module Procurement has the   *)
(* quantities, and two requests that receive one receipt).                 *)
(***************************************************************************)
EXTENDS Integers, FiniteSets, FiniteSetsExt

CONSTANTS Organizations, Offices, Users,
          Categories, Groups, Vendors, Items, Stores, Cards,
          Orders,    \* identities of purchase orders
          Receipts,  \* identities of goods receipts
          Callers,   \* the requests the server works on at the same time
          None       \* null

\* Identities are UUIDs: what is an item or a store is nothing else.
ASSUME IdentitiesAssumption ==
  /\ None \notin UNION {Offices, Users, Categories, Groups, Vendors, Items, Stores, Orders}
  /\ Items \cap UNION {Offices, Users, Categories, Groups, Vendors, Stores} = {}
  /\ Stores \cap UNION {Offices, Users, Categories, Groups, Vendors} = {}
  /\ Orders \cap UNION {Offices, Users, Categories, Groups, Vendors, Items, Stores} = {}

ASSUME NullAssumption == None \notin Nat
ASSUME FiniteAssumption == IsFiniteSet(Stores) /\ IsFiniteSet(Receipts)

VARIABLES
  office, users,                        \* what other parts of the system keep
  category, group, vendor, item, store, \* the tables of the catalogue
  card,       \* the InventoryCard table
  stock,      \* quantityOnHand of each store and item, or None
  order,      \* the PurchaseOrder table
  receipt,    \* the Grn table
  movement,   \* the StockMovement row of each receipt
  call        \* what each request in progress has read

catalogue == <<category, group, vendor, item, store>>
goods == <<stock, order, receipt, movement>>
tables == <<office, users, catalogue, card, goods>>
vars == <<tables, call>>

Unused == [status |-> "NONE"]
Gone == [status |-> "GONE"]

\* What is left of a receipt that a request deleted.
Withdrawn == [status |-> "WITHDRAWN"]
Absent == {Unused, Gone, Withdrawn}
Present(row) == row \notin Absent

Owned == [status : {"KEPT"}, org : Organizations]
GroupRow == [status : {"KEPT"}, org : Organizations, category : Categories \cup {None}]

\* edited: whether the row has been updated since it was created.
ItemRow == [status : {"KEPT"}, org : Organizations, category : Categories,
            group : Groups, vendor : Vendors \cup {None}, edited : BOOLEAN]
StoreRow == [status : {"KEPT"}, org : Organizations, office : Offices]
CardRow == [status : {"ISSUED", "RETURNED"}, org : Organizations, store : Stores,
            items : SUBSET Items]

\* An order leaves DRAFT and never comes back; a receipt may be deleted while
\* it is PENDING, and INSPECTING ones are taken for that.
OrderRow == [status : {"DRAFT", "PLACED"}, org : Organizations, user : Users]
ReceiptRow == [status : {"PENDING", "RECEIVED"}, vendor : Vendors, order : Orders,
               store : Stores, user : Users, item : Items \cup {None}]

\* FORGOTTEN: deleted along with the user who moved the goods.  The vendor, the
\* order and the creator of the receipt are history, and not columns.
MovementRow == [status : {"KEPT", "FORGOTTEN"}, store : Stores, item : Items, user : Users,
                vendor : Vendors, order : Orders, creator : Users]

Idle == [op |-> "idle"]
Call ==
  {Idle}
  \cup [op : {"item"}, org : Organizations, category : Categories, group : Groups,
        vendor : Vendors \cup {None}]
  \cup [op : {"store"}, org : Organizations, office : Offices]
  \cup [op : {"move"}, store : Stores, office : Offices]
  \cup [op : {"card"}, org : Organizations, store : Stores, items : SUBSET Items]
  \cup [op : {"cancel"}, order : Orders]
  \cup [op : {"withdraw"}, receipt : Receipts]

\* The tables and the requests in progress stay in their ranges.
TypeOK ==
  /\ office \in [Offices -> Absent \cup Owned]
  /\ users \subseteq Users
  /\ category \in [Categories -> Absent \cup Owned]
  /\ group \in [Groups -> Absent \cup GroupRow]
  /\ vendor \in [Vendors -> Absent \cup Owned]
  /\ item \in [Items -> Absent \cup ItemRow]
  /\ store \in [Stores -> Absent \cup StoreRow]
  /\ card \in [Cards -> Absent \cup CardRow]
  /\ stock \in [Stores \X Items -> Nat \cup {None}]
  /\ order \in [Orders -> Absent \cup OrderRow]
  /\ receipt \in [Receipts -> Absent \cup ReceiptRow]
  /\ movement \in [Receipts -> Absent \cup MovementRow]
  /\ call \in [Callers -> Call]

Init ==
  /\ office \in [Offices -> Owned]
  /\ users = Users
  /\ category = [k \in Categories |-> Unused]
  /\ group = [g \in Groups |-> Unused]
  /\ vendor = [v \in Vendors |-> Unused]
  /\ item = [i \in Items |-> Unused]
  /\ store = [s \in Stores |-> Unused]
  /\ card = [d \in Cards |-> Unused]
  /\ stock = [c \in Stores \X Items |-> None]
  /\ order = [p \in Orders |-> Unused]
  /\ receipt = [r \in Receipts |-> Unused]
  /\ movement = [r \in Receipts |-> Unused]
  /\ call = [c \in Callers |-> Idle]

Proceed(c, next) == call' = [call EXCEPT ![c] = next]
Return(c) == Proceed(c, Idle)

\* findFirst({ id, organizationId })
BelongsTo(row, o) == Present(row) /\ row.org = o
-----------------------------------------------------------------------------
(* Categories, groups and vendors.                                           *)

CreateCategory(k, o) ==
  /\ category[k] = Unused
  /\ category' = [category EXCEPT ![k] = [status |-> "KEPT", org |-> o]]
  /\ UNCHANGED <<office, users, group, vendor, item, store, card, goods, call>>

CreateVendor(v, o) ==
  /\ vendor[v] = Unused
  /\ vendor' = [vendor EXCEPT ![v] = [status |-> "KEPT", org |-> o]]
  /\ UNCHANGED <<office, users, category, group, item, store, card, goods, call>>

\* The category of a group may be anybody's, when it is created and later.
Filed(k) == k = None \/ k \in {x \in Categories : Present(category[x])}

CreateGroup(g, o, k) ==
  /\ group[g] = Unused /\ Filed(k)
  /\ group' = [group EXCEPT ![g] = [status |-> "KEPT", org |-> o, category |-> k]]
  /\ UNCHANGED <<office, users, category, vendor, item, store, card, goods, call>>

UpdateGroup(g, k) ==
  /\ Present(group[g]) /\ Filed(k)
  /\ group' = [group EXCEPT ![g].category = k]
  /\ UNCHANGED <<office, users, category, vendor, item, store, card, goods, call>>
-----------------------------------------------------------------------------
(* Items.                                                                    *)

\* Category and group are looked up in the organization, the vendor is not.
BeginItem(c, o, k, g, v) ==
  /\ call[c] = Idle
  /\ BelongsTo(category[k], o) /\ BelongsTo(group[g], o)
  /\ Proceed(c, [op |-> "item", org |-> o, category |-> k, group |-> g, vendor |-> v])
  /\ UNCHANGED tables

\* What the foreign keys of an item ask for.
Referable(k, g, v) ==
  Present(category[k]) /\ Present(group[g]) /\ (v # None => Present(vendor[v]))

\* Mutant of InsertItem: the row goes in whatever was deleted since.
InsertItemUnreferenced(c, i) ==
  /\ call[c].op = "item" /\ item[i] = Unused
  /\ item' = [item EXCEPT ![i] =
       [status |-> "KEPT", org |-> call[c].org, category |-> call[c].category,
        group |-> call[c].group, vendor |-> call[c].vendor, edited |-> FALSE]]
  /\ Return(c)
  /\ UNCHANGED <<office, users, category, group, vendor, store, card, goods>>

InsertItem(c, i) ==
  /\ call[c].op = "item" /\ item[i] = Unused
  /\ IF Referable(call[c].category, call[c].group, call[c].vendor)
     THEN item' = [item EXCEPT ![i] =
            [status |-> "KEPT", org |-> call[c].org, category |-> call[c].category,
             group |-> call[c].group, vendor |-> call[c].vendor, edited |-> FALSE]]
     ELSE UNCHANGED item
  /\ Return(c)
  /\ UNCHANGED <<office, users, category, group, vendor, store, card, goods>>

\* Only that the rows exist is asked of an update, by the database.
UpdateItem(i, k, g, v) ==
  /\ Present(item[i]) /\ Referable(k, g, v)
  /\ item' = [item EXCEPT ![i].category = k, ![i].group = g, ![i].vendor = v,
                          ![i].edited = TRUE]
  /\ UNCHANGED <<office, users, category, group, vendor, store, card, goods, call>>
-----------------------------------------------------------------------------
(* Stores.                                                                   *)

BeginStore(c, o, f) ==
  /\ call[c] = Idle /\ BelongsTo(office[f], o)
  /\ Proceed(c, [op |-> "store", org |-> o, office |-> f])
  /\ UNCHANGED tables

InsertStore(c, s) ==
  /\ call[c].op = "store" /\ store[s] = Unused
  /\ IF Present(office[call[c].office])
     THEN store' = [store EXCEPT ![s] =
            [status |-> "KEPT", org |-> call[c].org, office |-> call[c].office]]
     ELSE UNCHANGED store
  /\ Return(c)
  /\ UNCHANGED <<office, users, category, group, vendor, item, card, goods>>

\* Mutant of BeginMoveStore: the office may be anybody's.
BeginMoveStoreAnywhere(c, s, f) ==
  /\ call[c] = Idle /\ Present(store[s]) /\ Present(office[f])
  /\ Proceed(c, [op |-> "move", store |-> s, office |-> f])
  /\ UNCHANGED tables

BeginMoveStore(c, s, f) ==
  /\ call[c] = Idle /\ Present(store[s]) /\ BelongsTo(office[f], store[s].org)
  /\ Proceed(c, [op |-> "move", store |-> s, office |-> f])
  /\ UNCHANGED tables

\* The update fails when the store or the office was deleted since.
CommitMoveStore(c) ==
  /\ call[c].op = "move"
  /\ IF Present(store[call[c].store]) /\ Present(office[call[c].office])
     THEN store' = [store EXCEPT ![call[c].store].office = call[c].office]
     ELSE UNCHANGED store
  /\ Return(c)
  /\ UNCHANGED <<office, users, category, group, vendor, item, card, goods>>
-----------------------------------------------------------------------------
(* Inventory cards.                                                          *)

\* The store and every item are the organization's.
BeginCard(c, o, s, items) ==
  /\ call[c] = Idle
  /\ BelongsTo(store[s], o) /\ \A i \in items : BelongsTo(item[i], o)
  /\ Proceed(c, [op |-> "card", org |-> o, store |-> s, items |-> items])
  /\ UNCHANGED tables

InsertCard(c, d) ==
  /\ call[c].op = "card" /\ card[d] = Unused
  /\ IF Present(store[call[c].store]) /\ \A i \in call[c].items : Present(item[i])
     THEN card' = [card EXCEPT ![d] =
            [status |-> "ISSUED", org |-> call[c].org, store |-> call[c].store,
             items |-> call[c].items]]
     ELSE UNCHANGED card
  /\ Return(c)
  /\ UNCHANGED <<office, users, catalogue, goods>>

\* update and markAsReturned: no stock moves with a card.
UpdateCard(d, status) ==
  /\ Present(card[d])
  /\ card' = [card EXCEPT ![d].status = status]
  /\ UNCHANGED <<office, users, catalogue, goods, call>>

DeleteCard(d) ==
  /\ Present(card[d])
  /\ card' = [card EXCEPT ![d] = Gone]
  /\ UNCHANGED <<office, users, catalogue, goods, call>>
-----------------------------------------------------------------------------
(* Goods.                                                                    *)

\* create of a purchase order.
CreateOrder(p, o, u) ==
  /\ order[p] = Unused /\ u \in users
  /\ order' = [order EXCEPT ![p] = [status |-> "DRAFT", org |-> o, user |-> u]]
  /\ UNCHANGED <<office, users, catalogue, card, stock, receipt, movement, call>>

\* submit and updateStatus: the order is not a draft any more.
PlaceOrder(p) ==
  /\ Present(order[p])
  /\ order' = [order EXCEPT ![p].status = "PLACED"]
  /\ UNCHANGED <<office, users, catalogue, card, stock, receipt, movement, call>>

\* create of a receipt.  The rows were looked up in one organization, which a
\* row never changes, and the insertion needs them: so they are there now.
CreateReceipt(r, v, p, s, i, u) ==
  /\ receipt[r] = Unused /\ u \in users
  /\ Present(vendor[v]) /\ Present(order[p]) /\ Present(store[s]) /\ Present(item[i])
  /\ {vendor[v].org, store[s].org, item[i].org} = {order[p].org}
  /\ receipt' = [receipt EXCEPT ![r] =
       [status |-> "PENDING", vendor |-> v, order |-> p, store |-> s, user |-> u, item |-> i]]
  /\ UNCHANGED <<office, users, catalogue, card, stock, order, movement, call>>

\* receiveGoods: whoever receives the unit is in its movement.
ReceiveGoods(r, u) ==
  /\ Present(receipt[r]) /\ receipt[r].status = "PENDING" /\ receipt[r].item # None
  /\ Present(order[receipt[r].order]) /\ u \in users
  /\ LET g == receipt[r] IN
       /\ movement' = [movement EXCEPT ![r] =
            [status |-> "KEPT", store |-> g.store, item |-> g.item, user |-> u,
             vendor |-> g.vendor, order |-> g.order, creator |-> g.user]]
       /\ stock' = [stock EXCEPT ![<<g.store, g.item>>] = IF @ = None THEN 1 ELSE @ + 1]
       /\ order' = [order EXCEPT ![g.order].status = "PLACED"]
  /\ receipt' = [receipt EXCEPT ![r].status = "RECEIVED"]
  /\ UNCHANGED <<office, users, catalogue, card, call>>

\* remove of an order and of a receipt: the status is looked at, and the row
\* deleted by its id in a later statement.
BeginCancel(c, p) ==
  /\ call[c] = Idle /\ Present(order[p]) /\ order[p].status = "DRAFT"
  /\ Proceed(c, [op |-> "cancel", order |-> p])
  /\ UNCHANGED tables

CommitCancel(c) ==
  /\ call[c].op = "cancel"
  /\ IF Present(order[call[c].order])
     THEN /\ order' = [order EXCEPT ![call[c].order] = Gone]
          /\ receipt' = [r \in Receipts |->
               IF Present(receipt[r]) /\ receipt[r].order = call[c].order
               THEN Gone ELSE receipt[r]]
     ELSE UNCHANGED <<order, receipt>>
  /\ Return(c)
  /\ UNCHANGED <<office, users, catalogue, card, stock, movement>>

BeginWithdraw(c, r) ==
  /\ call[c] = Idle /\ Present(receipt[r]) /\ receipt[r].status = "PENDING"
  /\ Proceed(c, [op |-> "withdraw", receipt |-> r])
  /\ UNCHANGED tables

CommitWithdraw(c) ==
  /\ call[c].op = "withdraw"
  /\ IF Present(receipt[call[c].receipt])
     THEN receipt' = [receipt EXCEPT ![call[c].receipt] = Withdrawn]
     ELSE UNCHANGED receipt
  /\ Return(c)
  /\ UNCHANGED <<office, users, catalogue, card, stock, order, movement>>

\* What is deleted along with x, before what hangs on items and stores.
Doomed(x) ==
  {x} \cup {i \in Items : Present(item[i]) /\ x \in {item[i].category, item[i].group}}
      \cup {s \in Stores : Present(store[s]) /\ store[s].office = x}
      \cup {p \in Orders : Present(order[p]) /\ order[p].user = x}

Rows(table, dead) == [x \in DOMAIN table |-> IF x \in dead THEN Gone ELSE table[x]]

DeleteCatalogue(dead) ==
  /\ category' = Rows(category, dead)
  /\ vendor' = Rows(vendor, dead)
  /\ store' = Rows(store, dead)
  /\ group' = [g \in Groups |->
       IF Present(group[g]) /\ group[g].category \in dead /\ g \notin dead
       THEN [group[g] EXCEPT !.category = None] ELSE Rows(group, dead)[g]]
  /\ item' = [i \in Items |->
       IF Present(item[i]) /\ item[i].vendor \in dead /\ i \notin dead
       THEN [item[i] EXCEPT !.vendor = None] ELSE Rows(item, dead)[i]]

MovementsWithout(dead) ==
  [r \in Receipts |->
     LET m == movement[r] IN
     IF Present(m) /\ {m.store, m.item} \cap dead # {} THEN Gone
     ELSE IF Present(m) /\ m.user \in dead THEN [m EXCEPT !.status = "FORGOTTEN"]
     ELSE m]

\* Mutant of StockWithout: the stock of the goods a user moved goes along.
StockWithoutUser(dead) ==
  [c \in Stores \X Items |->
     IF {c[1], c[2]} \cap dead # {} \/ Users \cap dead # {} THEN None ELSE stock[c]]

StockWithout(dead) ==
  [c \in Stores \X Items |-> IF {c[1], c[2]} \cap dead # {} THEN None ELSE stock[c]]

ReceiptsWithout(dead) ==
  [r \in Receipts |->
     LET g == receipt[r] IN
     IF Present(g) /\ {g.vendor, g.order, g.store, g.user} \cap dead # {} THEN Gone
     ELSE IF Present(g) /\ g.item \in dead THEN [g EXCEPT !.item = None]
     ELSE g]

CardsWithout(dead) ==
  [d \in Cards |->
     IF ~Present(card[d]) THEN card[d]
     ELSE IF card[d].store \in dead THEN Gone
     ELSE [card[d] EXCEPT !.items = @ \ dead]]

Kept(x) ==
  \/ x \in users
  \/ \E table \in {office, category, group, vendor, item, store} :
       x \in DOMAIN table /\ Present(table[x])

\* remove of any of the services, and of those that keep offices and users.
Remove(x) ==
  /\ Kept(x)
  /\ LET dead == Doomed(x) IN
       /\ office' = Rows(office, dead) /\ users' = users \ dead
       /\ DeleteCatalogue(dead)
       /\ card' = CardsWithout(dead)
       /\ stock' = StockWithout(dead)
       /\ movement' = MovementsWithout(dead)
       /\ order' = Rows(order, dead)
       /\ receipt' = ReceiptsWithout(dead)
  /\ UNCHANGED call
-----------------------------------------------------------------------------
Requests(c) ==
  \/ \E o \in Organizations :
       \/ \E k \in Categories, g \in Groups, v \in Vendors \cup {None} :
            BeginItem(c, o, k, g, v)
       \/ \E f \in Offices : BeginStore(c, o, f)
       \/ \E s \in Stores, items \in SUBSET Items : BeginCard(c, o, s, items)
  \/ \E s \in Stores : InsertStore(c, s) \/ \E f \in Offices : BeginMoveStore(c, s, f)
  \/ \E i \in Items : InsertItem(c, i)
  \/ \E d \in Cards : InsertCard(c, d)
  \/ \E p \in Orders : BeginCancel(c, p)
  \/ \E r \in Receipts : BeginWithdraw(c, r)
  \/ CommitMoveStore(c) \/ CommitCancel(c) \/ CommitWithdraw(c)

Next ==
  \/ \E c \in Callers : Requests(c)
  \/ \E o \in Organizations :
       \/ \E k \in Categories : CreateCategory(k, o)
       \/ \E v \in Vendors : CreateVendor(v, o)
       \/ \E g \in Groups, k \in Categories \cup {None} : CreateGroup(g, o, k)
  \/ \E g \in Groups, k \in Categories \cup {None} : UpdateGroup(g, k)
  \/ \E i \in Items, k \in Categories, g \in Groups, v \in Vendors \cup {None} :
       UpdateItem(i, k, g, v)
  \/ \E d \in Cards :
       DeleteCard(d) \/ \E status \in {"ISSUED", "RETURNED"} : UpdateCard(d, status)
  \/ \E p \in Orders :
       PlaceOrder(p) \/ \E o \in Organizations, u \in Users : CreateOrder(p, o, u)
  \/ \E r \in Receipts, u \in Users :
       \/ ReceiveGoods(r, u)
       \/ \E v \in Vendors, p \in Orders, s \in Stores, i \in Items :
            CreateReceipt(r, v, p, s, i, u)
  \/ \E x \in UNION {Offices, Users, Categories, Groups, Vendors, Items, Stores} : Remove(x)

Spec == Init /\ [][Next]_vars
-----------------------------------------------------------------------------
(* Properties.                                                               *)

\* Whatever is deleted while requests are in progress, no item, card, order,
\* receipt, movement or stock is left that refers to a row that is not there.
ReferencesExist ==
  /\ \A g \in Groups : Present(group[g]) => Filed(group[g].category)
  /\ \A i \in Items : Present(item[i]) =>
       Referable(item[i].category, item[i].group, item[i].vendor)
  /\ \A s \in Stores : Present(store[s]) => Present(office[store[s].office])
  /\ \A d \in Cards : Present(card[d]) =>
       Present(store[card[d].store]) /\ \A i \in card[d].items : Present(item[i])
  /\ \A p \in Orders : Present(order[p]) => order[p].user \in users
  /\ \A r \in Receipts : Present(receipt[r]) =>
       /\ Present(vendor[receipt[r].vendor]) /\ Present(store[receipt[r].store])
       /\ Present(order[receipt[r].order]) /\ receipt[r].user \in users
       /\ receipt[r].item # None => Present(item[receipt[r].item])
  /\ \A r \in Receipts : Present(movement[r]) =>
       /\ Present(store[movement[r].store]) /\ Present(item[movement[r].item])
       /\ movement[r].status = "KEPT" => movement[r].user \in users
  /\ \A s \in Stores, i \in Items : stock[<<s, i>>] # None =>
       Present(store[s]) /\ Present(item[i])

\* "Multi-tenant support with organizationId filtering": a store stays with an
\* office of its organization, however it is moved, a card with a store and
\* items of its own, and an item with its category and group ("Verify category
\* and group belong to organization") until an update files it elsewhere.
TenantsApart ==
  /\ \A s \in Stores : Present(store[s]) => office[store[s].office].org = store[s].org
  /\ \A d \in Cards : Present(card[d]) =>
       /\ store[card[d].store].org = card[d].org
       /\ \A i \in card[d].items : item[i].org = card[d].org
  /\ \A i \in Items : Present(item[i]) /\ ~item[i].edited =>
       {category[item[i].category].org, group[item[i].group].org} = {item[i].org}

\* getStockLevels: the stock of an item over all stores.
TotalStockOnHand(i) ==
  MapThenSumSet(LAMBDA s : IF stock[<<s, i>>] = None THEN 0 ELSE stock[<<s, i>>], Stores)

\* The movements of an item say how its stock came in, those deleted along with
\* the user who moved the goods included.  The receipt that one comes from
\* (referenceId, no foreign key) is there, unless a request deleted it that had
\* found it pending, or its vendor, its order or the user who created it was
\* deleted: no deletion of a category, a group, an item, an office, a store or
\* another user takes the one without the other.
LedgerExplained ==
  /\ \A i \in Items :
       TotalStockOnHand(i) =
         Cardinality({r \in Receipts : Present(movement[r]) /\ movement[r].item = i})
  /\ \A r \in Receipts :
       Present(movement[r]) /\ ~Present(receipt[r]) =>
         \/ receipt[r] = Withdrawn
         \/ vendor[movement[r].vendor] = Gone \/ order[movement[r].order] = Gone
         \/ movement[r].creator \notin users

\* What the schema promises: columns in their ranges and no reference that
\* dangles.
SchemaKept == TypeOK /\ ReferencesExist
==============================================================================
