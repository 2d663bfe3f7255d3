--------------------------- MODULE Catalogue_proofs ---------------------------
(***************************************************************************)
(* What holds of the catalogue for every set of organizations, rows and    *)
(* requests: no reference dangles and tenants stay apart, although what a  *)
(* request has looked up may be deleted before it writes.                  *)
(*                                                                         *)
(* Whether a row is fine depends on the rows it refers to (GroupFine to    *)
(* ReceiptFine), and only on their being there and on their organization.  *)
(* A step spares the rows that it does not delete in both respects         *)
(* (AllSpared), and a deletion takes or cuts what refers to a dead row.    *)
(*                                                                         *)
(* The stock of a cell is the number of its movements (LInv), and the      *)
(* stock of an item over all stores is the number of its movements, as the *)
(* stores do not share any.  So the store and the item of a movement are   *)
(* there: its cell is not empty.                                           *)
(***************************************************************************)
EXTENDS Catalogue, FiniteSetTheorems, TLAPS

\* The rows are there that a row of a table refers to, and of its organization.
GroupFine(row, ks) == row.category = None \/ Present(ks[row.category])

ItemFine(row, ks, gs, vs) ==
  /\ Present(ks[row.category]) /\ Present(gs[row.group])
  /\ row.vendor # None => Present(vs[row.vendor])
  /\ ~row.edited => ks[row.category].org = row.org /\ gs[row.group].org = row.org

StoreFine(row, fs) == BelongsTo(fs[row.office], row.org)

CardFine(row, ss, is) ==
  BelongsTo(ss[row.store], row.org) /\ \A i \in row.items : BelongsTo(is[i], row.org)

ReceiptFine(row, vs, ss, is) ==
  /\ Present(vs[row.vendor]) /\ Present(ss[row.store])
  /\ row.item # None => Present(is[row.item])

Fine ==
  /\ \A g \in Groups : Present(group[g]) => GroupFine(group[g], category)
  /\ \A i \in Items : Present(item[i]) => ItemFine(item[i], category, group, vendor)
  /\ \A s \in Stores : Present(store[s]) => StoreFine(store[s], office)
  /\ \A d \in Cards : Present(card[d]) => CardFine(card[d], store, item)
  /\ \A r \in Receipts : Present(receipt[r]) => ReceiptFine(receipt[r], vendor, store, item)
  /\ \A s \in Stores, i \in Items : stock[<<s, i>>] # None => Present(store[s]) /\ Present(item[i])

\* A row that a request has found in organization o: gone, or still there.
Found(row, o) == row # Unused /\ (Present(row) => row.org = o)

CallFine(k, fs, ks, gs, is, ss) ==
  /\ k.op = "item" => Found(ks[k.category], k.org) /\ Found(gs[k.group], k.org)
  /\ k.op = "store" => Found(fs[k.office], k.org)
  /\ k.op = "move" =>
       ss[k.store] # Unused /\ (Present(ss[k.store]) => Found(fs[k.office], ss[k.store].org))
  /\ k.op = "card" => Found(ss[k.store], k.org) /\ \A i \in k.items : Found(is[i], k.org)

CallsFine == \A c \in Callers : CallFine(call[c], office, category, group, item, store)

IInv == TypeOK /\ Fine /\ CallsFine

TablesOK ==
  /\ office \in [Offices -> Absent \cup Owned]
  /\ users \subseteq Users
  /\ category \in [Categories -> Absent \cup Owned]
  /\ group \in [Groups -> Absent \cup GroupRow]
  /\ vendor \in [Vendors -> Absent \cup Owned]
  /\ item \in [Items -> Absent \cup ItemRow]
  /\ store \in [Stores -> Absent \cup StoreRow]
  /\ card \in [Cards -> Absent \cup CardRow]
  /\ stock \in [Stores \X Items -> Nat \cup {None}]
  /\ order \in [Orders -> Absent \cup OrderRow]
  /\ receipt \in [Receipts -> Absent \cup ReceiptRow]
  /\ movement \in [Receipts -> Absent \cup MovementRow]

\* Rows are not made twice and never change their organization.
Lasts(old, new, S) ==
  \A x \in S : old[x] # Unused =>
    new[x] # Unused /\ (Present(new[x]) => Present(old[x]) /\ new[x].org = old[x].org)

Steady ==
  /\ Lasts(office, office', Offices) /\ Lasts(category, category', Categories)
  /\ Lasts(group, group', Groups) /\ Lasts(item, item', Items) /\ Lasts(store, store', Stores)

\* All but the dead rows of a table stay, in their organization.
Spared(old, new, S, dead) ==
  \A x \in S : x \notin dead /\ Present(old[x]) => Present(new[x]) /\ new[x].org = old[x].org

AllSpared(dead) ==
  /\ Spared(office, office', Offices, dead) /\ Spared(category, category', Categories, dead)
  /\ Spared(group, group', Groups, dead) /\ Spared(vendor, vendor', Vendors, dead)
  /\ Spared(item, item', Items, dead) /\ Spared(store, store', Stores, dead)
-----------------------------------------------------------------------------
(* Rows and calls.                                                           *)

LEMMA AbsentRows ==
  /\ Gone # Unused /\ ~Present(Gone) /\ ~Present(Unused)
  /\ Withdrawn # Unused /\ ~Present(Withdrawn)
BY DEF Present, Absent, Unused, Gone, Withdrawn

AnyRow ==
  Owned \cup GroupRow \cup ItemRow \cup StoreRow \cup CardRow \cup OrderRow \cup ReceiptRow
    \cup MovementRow

\* A row with columns is there.
LEMMA KeptRows == \A x \in AnyRow : Present(x) /\ x # Unused
<1>1. \A x \in AnyRow :
        x.status \in {"KEPT", "ISSUED", "RETURNED", "FORGOTTEN", "DRAFT", "PLACED", "PENDING", "RECEIVED"}
  BY DEF AnyRow, Owned, GroupRow, ItemRow, StoreRow, CardRow, OrderRow, ReceiptRow, MovementRow
<1>2. \A x \in Absent : x.status \in {"NONE", "GONE", "WITHDRAWN"}
  BY DEF Absent, Unused, Gone, Withdrawn
<1>3. Unused \in Absent
  BY DEF Absent
<1> QED BY <1>1, <1>2, <1>3 DEF Present

\* A row that is there has the columns of its table.
LEMMA PresentRows ==
  ASSUME TypeOK
  PROVE  /\ \A f \in Offices : Present(office[f]) <=> office[f] \in Owned
         /\ \A k \in Categories : Present(category[k]) <=> category[k] \in Owned
         /\ \A g \in Groups : Present(group[g]) <=> group[g] \in GroupRow
         /\ \A v \in Vendors : Present(vendor[v]) <=> vendor[v] \in Owned
         /\ \A i \in Items : Present(item[i]) <=> item[i] \in ItemRow
         /\ \A s \in Stores : Present(store[s]) <=> store[s] \in StoreRow
         /\ \A d \in Cards : Present(card[d]) <=> card[d] \in CardRow
         /\ \A q \in Orders : Present(order[q]) <=> order[q] \in OrderRow
         /\ \A r \in Receipts : Present(receipt[r]) <=> receipt[r] \in ReceiptRow
         /\ \A r \in Receipts : Present(movement[r]) <=> movement[r] \in MovementRow
BY KeptRows DEF TypeOK, Present, AnyRow

LEMMA CallShape ==
  ASSUME NEW k \in Call
  PROVE  /\ k.op = "item" =>
              /\ k.org \in Organizations /\ k.category \in Categories /\ k.group \in Groups
              /\ k.vendor \in Vendors \cup {None}
         /\ k.op = "store" => k.org \in Organizations /\ k.office \in Offices
         /\ k.op = "move" => k.store \in Stores /\ k.office \in Offices
         /\ k.op = "card" => k.org \in Organizations /\ k.store \in Stores /\ k.items \subseteq Items
         /\ k.op = "cancel" => k.order \in Orders
         /\ k.op = "withdraw" => k.receipt \in Receipts
BY DEF Call, Idle

LEMMA IdleFine ==
  Idle \in Call /\ \A fs, ks, gs, is, ss : CallFine(Idle, fs, ks, gs, is, ss)
BY DEF Idle, Call, CallFine

\* The columns that refer to a row.
LEMMA RowShape ==
  /\ \A row \in GroupRow : row.category \in Categories \cup {None} /\ row.org \in Organizations
  /\ \A row \in ItemRow :
       /\ row.category \in Categories /\ row.group \in Groups /\ row.vendor \in Vendors \cup {None}
       /\ row.org \in Organizations
  /\ \A row \in StoreRow : row.office \in Offices /\ row.org \in Organizations
  /\ \A row \in CardRow : row.store \in Stores /\ row.items \subseteq Items
  /\ \A row \in ReceiptRow :
       row.vendor \in Vendors /\ row.store \in Stores /\ row.item \in Items \cup {None}
BY DEF GroupRow, ItemRow, StoreRow, CardRow, ReceiptRow
-----------------------------------------------------------------------------
(* What a step preserves.                                                    *)

LEMMA FoundStays ==
  ASSUME NEW old, NEW new, NEW S, Lasts(old, new, S), NEW x \in S, NEW o, Found(old[x], o)
  PROVE  Found(new[x], o)
BY DEF Lasts, Found

LEMMA CallStays ==
  ASSUME NEW k \in Call, CallFine(k, office, category, group, item, store), Steady
  PROVE  CallFine(k, office', category', group', item', store')
<1>1. CASE k.op = "item"
  BY <1>1, CallShape, FoundStays DEF CallFine, Steady
<1>2. CASE k.op = "store"
  BY <1>2, CallShape, FoundStays DEF CallFine, Steady
<1>3. CASE k.op = "move"
  <2>1. k.store \in Stores /\ k.office \in Offices /\ store[k.store] # Unused
    BY <1>3, CallShape DEF CallFine
  <2>2. store'[k.store] # Unused
    BY <2>1 DEF Steady, Lasts
  <2>3. ASSUME Present(store'[k.store]) PROVE Found(office'[k.office], store'[k.store].org)
    <3>1. Present(store[k.store]) /\ store'[k.store].org = store[k.store].org
      BY <2>1, <2>3 DEF Steady, Lasts
    <3> QED BY <1>3, <2>1, <3>1, FoundStays DEF CallFine, Steady
  <2> QED BY <1>3, <2>2, <2>3 DEF CallFine
<1>4. CASE k.op = "card"
  BY <1>4, CallShape, FoundStays DEF CallFine, Steady
<1> QED BY <1>1, <1>2, <1>3, <1>4 DEF CallFine

\* A step that writes and starts no request.
LEMMA WriteKeeps ==
  ASSUME IInv, TablesOK', Fine', Steady, call' = call
  PROVE  IInv'
BY CallStays DEF IInv, TypeOK, TablesOK, CallsFine

\* A step of caller c, which goes on as k.
LEMMA CallerKeeps ==
  ASSUME IInv, TablesOK', Fine', Steady, NEW c \in Callers, NEW k \in Call,
         CallFine(k, office', category', group', item', store'), Proceed(c, k)
  PROVE  IInv'
<1>1. call' = [call EXCEPT ![c] = k] /\ call \in [Callers -> Call]
  BY DEF Proceed, IInv, TypeOK
<1>2. \A d \in Callers : CallFine(call[d], office', category', group', item', store')
  BY <1>1, CallStays DEF IInv, CallsFine
<1>3. CallsFine'
  BY <1>1, <1>2 DEF CallsFine
<1> QED BY <1>1, <1>3 DEF IInv, TypeOK, TablesOK

LEMMA ReadKeeps ==
  ASSUME IInv, UNCHANGED tables, NEW c \in Callers, NEW k \in Call,
         CallFine(k, office, category, group, item, store), Proceed(c, k)
  PROVE  IInv'
<1>1. TablesOK' /\ Fine'
  BY DEF IInv, TypeOK, TablesOK, Fine, tables, catalogue, goods
<1>2. Steady
  BY DEF Steady, Lasts, tables, catalogue
<1> QED BY <1>1, <1>2, CallerKeeps DEF tables, catalogue

\* A row is fine as long as the rows it refers to are spared.
LEMMA StillFine ==
  ASSUME NEW dead, AllSpared(dead)
  PROVE  /\ \A row \in GroupRow : GroupFine(row, category) /\ row.category \notin dead =>
              GroupFine(row, category')
         /\ \A row \in ItemRow :
              ItemFine(row, category, group, vendor) /\ {row.category, row.group, row.vendor} \cap dead = {} =>
                ItemFine(row, category', group', vendor')
         /\ \A row \in StoreRow : StoreFine(row, office) /\ row.office \notin dead =>
              StoreFine(row, office')
         /\ \A row \in CardRow :
              CardFine(row, store, item) /\ row.store \notin dead /\ row.items \cap dead = {} =>
                CardFine(row, store', item')
         /\ \A row \in ReceiptRow :
              ReceiptFine(row, vendor, store, item) /\ {row.vendor, row.store, row.item} \cap dead = {} =>
                ReceiptFine(row, vendor', store', item')
<1>1. \A row \in GroupRow : GroupFine(row, category) /\ row.category \notin dead =>
        GroupFine(row, category')
  BY RowShape DEF AllSpared, Spared, GroupFine
<1>2. \A row \in ItemRow :
        ItemFine(row, category, group, vendor) /\ {row.category, row.group, row.vendor} \cap dead = {} =>
          ItemFine(row, category', group', vendor')
  BY RowShape DEF AllSpared, Spared, ItemFine
<1>3. \A row \in StoreRow : StoreFine(row, office) /\ row.office \notin dead =>
        StoreFine(row, office')
  BY RowShape DEF AllSpared, Spared, StoreFine, BelongsTo
<1>4. \A row \in CardRow :
        CardFine(row, store, item) /\ row.store \notin dead /\ row.items \cap dead = {} =>
          CardFine(row, store', item')
  BY RowShape DEF AllSpared, Spared, CardFine, BelongsTo
<1>5. \A row \in ReceiptRow :
        ReceiptFine(row, vendor, store, item) /\ {row.vendor, row.store, row.item} \cap dead = {} =>
          ReceiptFine(row, vendor', store', item')
  BY RowShape DEF AllSpared, Spared, ReceiptFine
<1> QED BY <1>1, <1>2, <1>3, <1>4, <1>5
-----------------------------------------------------------------------------
(* Writes that delete nothing.                                               *)

\* A row that is new or changed is fine in the tables as they were.
NewFine ==
  /\ \A g \in Groups : Present(group'[g]) =>
       group'[g] = group[g] \/ GroupFine(group'[g], category)
  /\ \A i \in Items : Present(item'[i]) =>
       item'[i] = item[i] \/ ItemFine(item'[i], category, group, vendor)
  /\ \A s \in Stores : Present(store'[s]) =>
       store'[s] = store[s] \/ StoreFine(store'[s], office)
  /\ \A d \in Cards : Present(card'[d]) =>
       card'[d] = card[d] \/ CardFine(card'[d], store, item)
  /\ \A r \in Receipts : Present(receipt'[r]) =>
       receipt'[r] = receipt[r] \/ ReceiptFine(receipt'[r], vendor, store, item)
  /\ \A s \in Stores, i \in Items : stock'[<<s, i>>] # None =>
       stock'[<<s, i>>] = stock[<<s, i>>] \/ (Present(store[s]) /\ Present(item[i]))

LEMMA FineAfter ==
  ASSUME IInv, TablesOK', AllSpared({}), NewFine
  PROVE  Fine'
<1>1. /\ \A g \in Groups : Present(group'[g]) => group'[g] \in GroupRow
      /\ \A i \in Items : Present(item'[i]) => item'[i] \in ItemRow
      /\ \A s \in Stores : Present(store'[s]) => store'[s] \in StoreRow
      /\ \A d \in Cards : Present(card'[d]) => card'[d] \in CardRow
      /\ \A r \in Receipts : Present(receipt'[r]) => receipt'[r] \in ReceiptRow
  BY DEF TablesOK, Present
<1>2. /\ \A g \in Groups : Present(group'[g]) => GroupFine(group'[g], category)
      /\ \A i \in Items : Present(item'[i]) => ItemFine(item'[i], category, group, vendor)
      /\ \A s \in Stores : Present(store'[s]) => StoreFine(store'[s], office)
      /\ \A d \in Cards : Present(card'[d]) => CardFine(card'[d], store, item)
      /\ \A r \in Receipts : Present(receipt'[r]) => ReceiptFine(receipt'[r], vendor, store, item)
  BY DEF NewFine, IInv, Fine
<1>3. /\ \A g \in Groups : Present(group'[g]) => GroupFine(group'[g], category')
      /\ \A i \in Items : Present(item'[i]) => ItemFine(item'[i], category', group', vendor')
      /\ \A s \in Stores : Present(store'[s]) => StoreFine(store'[s], office')
      /\ \A d \in Cards : Present(card'[d]) => CardFine(card'[d], store', item')
      /\ \A r \in Receipts : Present(receipt'[r]) => ReceiptFine(receipt'[r], vendor', store', item')
  BY <1>1, <1>2, StillFine
<1>4. \A s \in Stores, i \in Items : stock'[<<s, i>>] # None => Present(store'[s]) /\ Present(item'[i])
  BY DEF NewFine, IInv, Fine, AllSpared, Spared
<1> QED BY <1>3, <1>4 DEF Fine

\* A write that deletes nothing, as a whole.
Writes == TablesOK' /\ Steady /\ AllSpared({}) /\ NewFine

LEMMA SameTable == \A T, S : Lasts(T, T, S) /\ Spared(T, T, S, {})
BY DEF Lasts, Spared

\* U is table T with row written at x.
Written(T, U, S, R, x, row) ==
  T \in [S -> R] /\ x \in S /\ row \in AnyRow /\ row \in R /\ U = [T EXCEPT ![x] = row]

LEMMA NewRow ==
  ASSUME NEW T, NEW U, NEW S, NEW R, NEW x, NEW row, Written(T, U, S, R, x, row), T[x] = Unused
  PROVE  U \in [S -> R] /\ Lasts(T, U, S) /\ Spared(T, U, S, {})
BY KeptRows, AbsentRows DEF Lasts, Spared, Written

\* A row rewritten in its organization.
LEMMA ChangedRow ==
  ASSUME NEW T, NEW U, NEW S, NEW R, NEW x, NEW row, Written(T, U, S, R, x, row),
         Present(T[x]), row.org = T[x].org
  PROVE  U \in [S -> R] /\ Lasts(T, U, S) /\ Spared(T, U, S, {})
BY KeptRows, AbsentRows DEF Lasts, Spared, Written

LEMMA CategoryStep ==
  ASSUME IInv, NEW k \in Categories, NEW o \in Organizations, CreateCategory(k, o)
  PROVE  IInv'
<1> DEFINE row == [status |-> "KEPT", org |-> o]
<1>1. row \in Owned /\ row \in AnyRow
  BY DEF Owned, AnyRow
<1>2. category' = [category EXCEPT ![k] = row] /\ category[k] = Unused
  BY DEF CreateCategory
<1> HIDE DEF row
<1>3. Written(category, category', Categories, Absent \cup Owned, k, row)
  BY <1>1, <1>2 DEF Written, IInv, TypeOK
<1>4. /\ category' \in [Categories -> Absent \cup Owned] /\ Lasts(category, category', Categories)
      /\ Spared(category, category', Categories, {})
  BY <1>1, <1>2, <1>3, NewRow
<1>5. Writes
  <2>1. TablesOK'
    BY <1>4 DEF TablesOK, IInv, TypeOK, CreateCategory, goods
  <2>2. Steady /\ AllSpared({})
    BY <1>4, SameTable DEF Steady, AllSpared, CreateCategory
  <2>3. NewFine
    BY <1>4 DEF NewFine, CreateCategory, goods
  <2> QED BY <2>1, <2>2, <2>3 DEF Writes
<1> QED BY <1>5, FineAfter, WriteKeeps DEF Writes, CreateCategory

LEMMA VendorStep ==
  ASSUME IInv, NEW v \in Vendors, NEW o \in Organizations, CreateVendor(v, o)
  PROVE  IInv'
<1> DEFINE row == [status |-> "KEPT", org |-> o]
<1>1. row \in Owned /\ row \in AnyRow
  BY DEF Owned, AnyRow
<1>2. vendor' = [vendor EXCEPT ![v] = row] /\ vendor[v] = Unused
  BY DEF CreateVendor
<1> HIDE DEF row
<1>3. Written(vendor, vendor', Vendors, Absent \cup Owned, v, row)
  BY <1>1, <1>2 DEF Written, IInv, TypeOK
<1>4. vendor' \in [Vendors -> Absent \cup Owned] /\ Spared(vendor, vendor', Vendors, {})
  BY <1>1, <1>2, <1>3, NewRow
<1>5. Writes
  <2>1. TablesOK'
    BY <1>4 DEF TablesOK, IInv, TypeOK, CreateVendor, goods
  <2>2. Steady /\ AllSpared({})
    BY <1>4, SameTable DEF Steady, AllSpared, CreateVendor
  <2>3. NewFine
    BY <1>4 DEF NewFine, CreateVendor, goods
  <2> QED BY <2>1, <2>2, <2>3 DEF Writes
<1> QED BY <1>5, FineAfter, WriteKeeps DEF Writes, CreateVendor

LEMMA CreateGroupStep ==
  ASSUME IInv, NEW g \in Groups, NEW o \in Organizations, NEW k \in Categories \cup {None},
         CreateGroup(g, o, k)
  PROVE  IInv'
<1> DEFINE row == [status |-> "KEPT", org |-> o, category |-> k]
<1>1. row \in GroupRow /\ row \in AnyRow /\ row.category = k
  BY DEF GroupRow, AnyRow
<1>2. group' = [group EXCEPT ![g] = row] /\ group[g] = Unused /\ Filed(k)
  BY DEF CreateGroup
<1> HIDE DEF row
<1>3. Written(group, group', Groups, Absent \cup GroupRow, g, row)
  BY <1>1, <1>2 DEF Written, IInv, TypeOK
<1>4. /\ group' \in [Groups -> Absent \cup GroupRow] /\ Lasts(group, group', Groups)
      /\ Spared(group, group', Groups, {})
  BY <1>1, <1>2, <1>3, NewRow
<1>5. GroupFine(row, category)
  BY <1>1, <1>2 DEF Filed, GroupFine
<1>6. \A y \in Groups : group'[y] = group[y] \/ GroupFine(group'[y], category)
  BY <1>3, <1>5 DEF Written
<1>7. Writes
  <2>1. TablesOK'
    BY <1>4, <1>6 DEF TablesOK, IInv, TypeOK, CreateGroup, goods
  <2>2. Steady /\ AllSpared({})
    BY <1>4, <1>6, SameTable DEF Steady, AllSpared, CreateGroup
  <2>3. NewFine
    BY <1>4, <1>6 DEF NewFine, CreateGroup, goods
  <2> QED BY <2>1, <2>2, <2>3 DEF Writes
<1> QED BY <1>7, FineAfter, WriteKeeps DEF Writes, CreateGroup

LEMMA UpdateGroupStep ==
  ASSUME IInv, NEW g \in Groups, NEW k \in Categories \cup {None}, UpdateGroup(g, k)
  PROVE  IInv'
<1>0. PICK old : old = group[g]
  OBVIOUS
<1> DEFINE row == [old EXCEPT !.category = k]
<1>1. old \in GroupRow
  BY <1>0, PresentRows DEF UpdateGroup, IInv
<1>2. row \in GroupRow /\ row \in AnyRow /\ row.category = k /\ row.org = old.org
  BY <1>1 DEF GroupRow, AnyRow
<1>3. group' = [group EXCEPT ![g] = row] /\ Present(group[g]) /\ Filed(k)
  BY <1>0 DEF UpdateGroup
<1> HIDE DEF row
<1>4. Written(group, group', Groups, Absent \cup GroupRow, g, row)
  BY <1>2, <1>3 DEF Written, IInv, TypeOK
<1>5. /\ group' \in [Groups -> Absent \cup GroupRow] /\ Lasts(group, group', Groups)
      /\ Spared(group, group', Groups, {})
  BY <1>0, <1>2, <1>3, <1>4, ChangedRow
<1>6. GroupFine(row, category)
  BY <1>2, <1>3 DEF Filed, GroupFine
<1>7. \A y \in Groups : group'[y] = group[y] \/ GroupFine(group'[y], category)
  BY <1>4, <1>6 DEF Written
<1>8. Writes
  <2>1. TablesOK'
    BY <1>5, <1>7 DEF TablesOK, IInv, TypeOK, UpdateGroup, goods
  <2>2. Steady /\ AllSpared({})
    BY <1>5, <1>7, SameTable DEF Steady, AllSpared, UpdateGroup
  <2>3. NewFine
    BY <1>5, <1>7 DEF NewFine, UpdateGroup, goods
  <2> QED BY <2>1, <2>2, <2>3 DEF Writes
<1> QED BY <1>8, FineAfter, WriteKeeps DEF Writes, UpdateGroup

LEMMA UpdateItemStep ==
  ASSUME IInv, NEW i \in Items, NEW k \in Categories, NEW g \in Groups,
         NEW v \in Vendors \cup {None}, UpdateItem(i, k, g, v)
  PROVE  IInv'
<1>0. PICK old : old = item[i]
  OBVIOUS
<1> DEFINE row == [old EXCEPT !.category = k, !.group = g, !.vendor = v, !.edited = TRUE]
<1>1. old \in ItemRow
  BY <1>0, PresentRows DEF UpdateItem, IInv
<1>2. /\ row \in ItemRow /\ row \in AnyRow /\ row.org = old.org
      /\ row.category = k /\ row.group = g /\ row.vendor = v /\ row.edited
  BY <1>1 DEF ItemRow, AnyRow
<1>3. item' = [item EXCEPT ![i] = row] /\ Present(item[i]) /\ Referable(k, g, v)
  BY <1>0 DEF UpdateItem, IInv, TypeOK
<1> HIDE DEF row
<1>4. Written(item, item', Items, Absent \cup ItemRow, i, row)
  BY <1>2, <1>3 DEF Written, IInv, TypeOK
<1>5. /\ item' \in [Items -> Absent \cup ItemRow] /\ Lasts(item, item', Items)
      /\ Spared(item, item', Items, {})
  BY <1>0, <1>2, <1>3, <1>4, ChangedRow
<1>6. ItemFine(row, category, group, vendor)
  BY <1>2, <1>3 DEF Referable, ItemFine
<1>7. \A y \in Items : item'[y] = item[y] \/ ItemFine(item'[y], category, group, vendor)
  BY <1>4, <1>6 DEF Written
<1>8. Writes
  <2>1. TablesOK'
    BY <1>5, <1>7 DEF TablesOK, IInv, TypeOK, UpdateItem, goods
  <2>2. Steady /\ AllSpared({})
    BY <1>5, <1>7, SameTable DEF Steady, AllSpared, UpdateItem
  <2>3. NewFine
    BY <1>5, <1>7 DEF NewFine, UpdateItem, goods
  <2> QED BY <2>1, <2>2, <2>3 DEF Writes
<1> QED BY <1>8, FineAfter, WriteKeeps DEF Writes, UpdateItem

\* Only cards are written.
LEMMA CardsWritten ==
  ASSUME IInv, UNCHANGED <<office, users, catalogue, goods>>,
         card' \in [Cards -> Absent \cup CardRow],
         \A d \in Cards : Present(card'[d]) => card'[d] = card[d] \/ CardFine(card'[d], store, item)
  PROVE  Writes
<1>1. TablesOK'
  BY DEF TablesOK, IInv, TypeOK, catalogue, goods
<1>2. Steady /\ AllSpared({})
  BY SameTable DEF Steady, AllSpared, catalogue
<1>3. NewFine
  BY DEF NewFine, catalogue, goods
<1> QED BY <1>1, <1>2, <1>3 DEF Writes

LEMMA DeleteCardStep ==
  ASSUME IInv, NEW d \in Cards, DeleteCard(d)
  PROVE  IInv'
<1>1. card' = [card EXCEPT ![d] = Gone] /\ card \in [Cards -> Absent \cup CardRow]
  BY DEF DeleteCard, IInv, TypeOK
<1>2. card' \in [Cards -> Absent \cup CardRow] /\ \A e \in Cards : Present(card'[e]) => card'[e] = card[e]
  BY <1>1, AbsentRows DEF Absent
<1>3. Writes
  BY <1>2, CardsWritten DEF DeleteCard
<1> QED BY <1>3, FineAfter, WriteKeeps DEF Writes, DeleteCard

LEMMA UpdateCardStep ==
  ASSUME IInv, NEW d \in Cards, NEW status \in {"ISSUED", "RETURNED"}, UpdateCard(d, status)
  PROVE  IInv'
<1>0. PICK old : old = card[d]
  OBVIOUS
<1> DEFINE row == [old EXCEPT !.status = status]
<1>1. old \in CardRow /\ CardFine(old, store, item)
  BY <1>0, PresentRows DEF UpdateCard, IInv, Fine
<1>2. row \in CardRow /\ row.org = old.org /\ row.store = old.store /\ row.items = old.items
  BY <1>1 DEF CardRow
<1>3. card' = [card EXCEPT ![d] = row] /\ card \in [Cards -> Absent \cup CardRow]
  BY <1>0 DEF UpdateCard, IInv, TypeOK
<1> HIDE DEF row
<1>4. CardFine(row, store, item)
  BY <1>1, <1>2 DEF CardFine
<1>5. /\ card' \in [Cards -> Absent \cup CardRow]
      /\ \A e \in Cards : card'[e] = card[e] \/ CardFine(card'[e], store, item)
  BY <1>2, <1>3, <1>4
<1>6. Writes
  BY <1>5, CardsWritten DEF UpdateCard
<1> QED BY <1>6, FineAfter, WriteKeeps DEF Writes, UpdateCard

\* Only goods are written.
LEMMA GoodsWritten ==
  ASSUME IInv, UNCHANGED <<office, users, catalogue, card>>,
         stock' \in [Stores \X Items -> Nat \cup {None}], order' \in [Orders -> Absent \cup OrderRow],
         receipt' \in [Receipts -> Absent \cup ReceiptRow],
         movement' \in [Receipts -> Absent \cup MovementRow],
         \A r \in Receipts : Present(receipt'[r]) =>
           receipt'[r] = receipt[r] \/ ReceiptFine(receipt'[r], vendor, store, item),
         \A s \in Stores, i \in Items : stock'[<<s, i>>] # None =>
           stock'[<<s, i>>] = stock[<<s, i>>] \/ (Present(store[s]) /\ Present(item[i]))
  PROVE  Writes
<1>1. TablesOK'
  BY DEF TablesOK, IInv, TypeOK, catalogue
<1>2. Steady /\ AllSpared({})
  BY SameTable DEF Steady, AllSpared, catalogue
<1>3. NewFine
  BY DEF NewFine, catalogue
<1> QED BY <1>1, <1>2, <1>3 DEF Writes

\* The tables of goods as they are.
LEMMA GoodsTables ==
  ASSUME IInv
  PROVE  /\ stock \in [Stores \X Items -> Nat \cup {None}] /\ order \in [Orders -> Absent \cup OrderRow]
         /\ receipt \in [Receipts -> Absent \cup ReceiptRow]
         /\ movement \in [Receipts -> Absent \cup MovementRow]
BY DEF IInv, TypeOK

\* The rows that the steps of orders and receipts write.
LEMMA PlacedRow ==
  ASSUME NEW row \in OrderRow
  PROVE  LET placed == [row EXCEPT !.status = "PLACED"]
         IN  placed \in OrderRow /\ placed.user = row.user /\ placed.org = row.org
BY DEF OrderRow

LEMMA ReceivedRow ==
  ASSUME NEW row \in ReceiptRow
  PROVE  LET received == [row EXCEPT !.status = "RECEIVED"]
         IN  /\ received \in ReceiptRow /\ received.status = "RECEIVED"
             /\ received.vendor = row.vendor /\ received.order = row.order
             /\ received.store = row.store /\ received.item = row.item /\ received.user = row.user
BY DEF ReceiptRow

LEMMA CreateOrderStep ==
  ASSUME IInv, NEW p \in Orders, NEW o \in Organizations, NEW u \in Users, CreateOrder(p, o, u)
  PROVE  IInv'
<1> DEFINE row == [status |-> "DRAFT", org |-> o, user |-> u]
<1>1. row \in OrderRow
  BY DEF OrderRow
<1>2. order' = [order EXCEPT ![p] = row]
  BY DEF CreateOrder
<1> HIDE DEF row
<1>3. order' \in [Orders -> Absent \cup OrderRow]
  BY <1>1, <1>2, GoodsTables
<1>4. Writes
  BY <1>3, GoodsTables, GoodsWritten DEF CreateOrder
<1> QED BY <1>4, FineAfter, WriteKeeps DEF Writes, CreateOrder

LEMMA PlaceOrderStep ==
  ASSUME IInv, NEW p \in Orders, PlaceOrder(p)
  PROVE  IInv'
<1>0. PICK old : old = order[p]
  OBVIOUS
<1> DEFINE row == [old EXCEPT !.status = "PLACED"]
<1>1. row \in OrderRow
  BY <1>0, PresentRows, PlacedRow DEF PlaceOrder, IInv
<1>2. order' = [order EXCEPT ![p] = row]
  BY <1>0 DEF PlaceOrder
<1> HIDE DEF row
<1>3. order' \in [Orders -> Absent \cup OrderRow]
  BY <1>1, <1>2, GoodsTables
<1>4. Writes
  BY <1>3, GoodsTables, GoodsWritten DEF PlaceOrder
<1> QED BY <1>4, FineAfter, WriteKeeps DEF Writes, PlaceOrder

LEMMA CreateReceiptStep ==
  ASSUME IInv, NEW r \in Receipts, NEW v \in Vendors, NEW p \in Orders, NEW s \in Stores,
         NEW i \in Items, NEW u \in Users, CreateReceipt(r, v, p, s, i, u)
  PROVE  IInv'
<1> DEFINE row == [status |-> "PENDING", vendor |-> v, order |-> p, store |-> s, user |-> u, item |-> i]
<1>1. row \in ReceiptRow /\ row.vendor = v /\ row.store = s /\ row.item = i
  BY DEF ReceiptRow
<1>2. receipt' = [receipt EXCEPT ![r] = row] /\ Present(vendor[v]) /\ Present(store[s]) /\ Present(item[i])
  BY DEF CreateReceipt
<1> HIDE DEF row
<1>3. ReceiptFine(row, vendor, store, item)
  BY <1>1, <1>2 DEF ReceiptFine
<1>4. /\ receipt' \in [Receipts -> Absent \cup ReceiptRow]
      /\ \A x \in Receipts : receipt'[x] = receipt[x] \/ ReceiptFine(receipt'[x], vendor, store, item)
  BY <1>1, <1>2, <1>3, GoodsTables
<1>5. Writes
  BY <1>4, GoodsTables, GoodsWritten DEF CreateReceipt
<1> QED BY <1>5, FineAfter, WriteKeeps DEF Writes, CreateReceipt

\* What receiving goods writes, in terms of the receipt that was there.
Received(r, u, old, new, moved, placed) ==
  /\ old = receipt[r] /\ old.status = "PENDING" /\ old.item \in Items
  /\ new.status = "RECEIVED" /\ new.vendor = old.vendor /\ new.order = old.order
  /\ new.store = old.store /\ new.item = old.item /\ new.user = old.user
  /\ moved.store = old.store /\ moved.item = old.item /\ moved.user = u
  /\ moved.vendor = old.vendor /\ moved.order = old.order /\ moved.creator = old.user
  /\ Present(order[old.order]) /\ placed.user = order[old.order].user
  /\ receipt' = [receipt EXCEPT ![r] = new]
  /\ movement' = [movement EXCEPT ![r] = moved]
  /\ order' = [order EXCEPT ![old.order] = placed]
  /\ stock' = [stock EXCEPT ![<<old.store, old.item>>] = IF @ = None THEN 1 ELSE @ + 1]
  /\ ReceiptFine(old, vendor, store, item)

LEMMA ReceiveWrites ==
  ASSUME IInv, NEW r \in Receipts, NEW u \in Users, ReceiveGoods(r, u)
  PROVE  \E old \in ReceiptRow, new \in ReceiptRow, moved \in MovementRow, placed \in OrderRow :
           Received(r, u, old, new, moved, placed)
<1>1. PICK old : old = receipt[r]
  OBVIOUS
<1>2. PICK place : place = order[old.order]
  OBVIOUS
<1>3. old \in ReceiptRow /\ place \in OrderRow /\ ReceiptFine(old, vendor, store, item)
  <2>1. Present(old) /\ Present(place)
    BY <1>1, <1>2 DEF ReceiveGoods
  <2>2. old \in ReceiptRow /\ ReceiptFine(old, vendor, store, item)
    BY <1>1, <2>1, PresentRows DEF IInv, Fine
  <2>3. old.order \in Orders
    BY <2>2 DEF ReceiptRow
  <2> QED BY <1>2, <2>1, <2>2, <2>3, PresentRows DEF IInv
<1> DEFINE new == [old EXCEPT !.status = "RECEIVED"]
           placed == [place EXCEPT !.status = "PLACED"]
           moved == [status |-> "KEPT", store |-> old.store, item |-> old.item, user |-> u,
                     vendor |-> old.vendor, order |-> old.order, creator |-> old.user]
<1>4. /\ new \in ReceiptRow /\ new.status = "RECEIVED" /\ new.vendor = old.vendor
      /\ new.order = old.order /\ new.store = old.store /\ new.item = old.item /\ new.user = old.user
  BY <1>3, ReceivedRow
<1>5. placed \in OrderRow /\ placed.user = place.user
  BY <1>3, PlacedRow
<1>6. old.item \in Items
  BY <1>1, <1>3 DEF ReceiptRow, ReceiveGoods
<1>7. /\ moved \in MovementRow /\ moved.store = old.store /\ moved.item = old.item /\ moved.user = u
      /\ moved.vendor = old.vendor /\ moved.order = old.order /\ moved.creator = old.user
  BY <1>3, <1>6 DEF ReceiptRow, MovementRow
<1>8. /\ old.status = "PENDING" /\ Present(order[old.order])
      /\ receipt' = [receipt EXCEPT ![r] = new] /\ movement' = [movement EXCEPT ![r] = moved]
      /\ order' = [order EXCEPT ![old.order] = placed]
      /\ stock' = [stock EXCEPT ![<<old.store, old.item>>] = IF @ = None THEN 1 ELSE @ + 1]
  BY <1>1, <1>2 DEF ReceiveGoods
<1> HIDE DEF new, placed, moved
<1>9. Received(r, u, old, new, moved, placed)
  BY <1>1, <1>2, <1>3, <1>4, <1>5, <1>6, <1>7, <1>8 DEF Received
<1> QED BY <1>3, <1>4, <1>5, <1>7, <1>9

LEMMA ReceiveStep ==
  ASSUME IInv, NEW r \in Receipts, NEW u \in Users, ReceiveGoods(r, u)
  PROVE  IInv'
<1>0. PICK old \in ReceiptRow, new \in ReceiptRow, moved \in MovementRow, placed \in OrderRow :
        Received(r, u, old, new, moved, placed)
  BY ReceiveWrites
<1>1. /\ old.item \in Items
      /\ new.vendor = old.vendor /\ new.store = old.store /\ new.item = old.item
      /\ receipt' = [receipt EXCEPT ![r] = new]
      /\ movement' = [movement EXCEPT ![r] = moved]
      /\ order' = [order EXCEPT ![old.order] = placed]
      /\ stock' = [stock EXCEPT ![<<old.store, old.item>>] = IF @ = None THEN 1 ELSE @ + 1]
      /\ ReceiptFine(old, vendor, store, item)
  BY <1>0 DEF Received
<1>2. /\ receipt' \in [Receipts -> Absent \cup ReceiptRow]
      /\ movement' \in [Receipts -> Absent \cup MovementRow]
      /\ order' \in [Orders -> Absent \cup OrderRow]
  BY <1>1, GoodsTables
<1>3. <<old.store, old.item>> \in Stores \X Items
  BY <1>1, RowShape
<1>4. PICK cell \in Stores \X Items : cell = <<old.store, old.item>>
  BY <1>3
<1>5. stock' = [stock EXCEPT ![cell] = IF stock[cell] = None THEN 1 ELSE stock[cell] + 1]
  BY <1>1, <1>4
<1>6. stock' \in [Stores \X Items -> Nat \cup {None}]
  BY <1>5, GoodsTables
<1>7. ReceiptFine(new, vendor, store, item)
  BY <1>1 DEF ReceiptFine
<1>8. \A x \in Receipts : receipt'[x] = receipt[x] \/ ReceiptFine(receipt'[x], vendor, store, item)
  BY <1>1, <1>7, GoodsTables
<1>9. \A s \in Stores, i \in Items : stock'[<<s, i>>] = stock[<<s, i>>] \/ (s = old.store /\ i = old.item)
  BY <1>4, <1>5, GoodsTables
<1>10. Present(store[old.store]) /\ Present(item[old.item])
  BY <1>1, NullAssumption, IdentitiesAssumption DEF ReceiptFine
<1>11. Writes
  BY <1>2, <1>6, <1>8, <1>9, <1>10, GoodsWritten DEF ReceiveGoods
<1> QED BY <1>11, FineAfter, WriteKeeps DEF Writes, ReceiveGoods
-----------------------------------------------------------------------------
(* Requests.                                                                 *)

LEMMA FoundNow == \A row, o : BelongsTo(row, o) => Found(row, o)
BY AbsentRows DEF BelongsTo, Found

LEMMA BeginItemStep ==
  ASSUME IInv, NEW c \in Callers, NEW o \in Organizations, NEW k \in Categories, NEW g \in Groups,
         NEW v \in Vendors \cup {None}, BeginItem(c, o, k, g, v)
  PROVE  IInv'
<1> DEFINE new == [op |-> "item", org |-> o, category |-> k, group |-> g, vendor |-> v]
<1>1. new \in Call
  BY DEF Call
<1>2. CallFine(new, office, category, group, item, store)
  BY FoundNow DEF CallFine, BeginItem
<1>3. Proceed(c, new) /\ UNCHANGED tables
  BY DEF BeginItem
<1> HIDE DEF new
<1> QED BY <1>1, <1>2, <1>3, ReadKeeps

LEMMA BeginStoreStep ==
  ASSUME IInv, NEW c \in Callers, NEW o \in Organizations, NEW f \in Offices, BeginStore(c, o, f)
  PROVE  IInv'
<1> DEFINE new == [op |-> "store", org |-> o, office |-> f]
<1>1. new \in Call
  BY DEF Call
<1>2. CallFine(new, office, category, group, item, store)
  BY FoundNow DEF CallFine, BeginStore
<1>3. Proceed(c, new) /\ UNCHANGED tables
  BY DEF BeginStore
<1> HIDE DEF new
<1> QED BY <1>1, <1>2, <1>3, ReadKeeps

LEMMA BeginMoveStep ==
  ASSUME IInv, NEW c \in Callers, NEW s \in Stores, NEW f \in Offices, BeginMoveStore(c, s, f)
  PROVE  IInv'
<1> DEFINE new == [op |-> "move", store |-> s, office |-> f]
<1>1. new \in Call
  BY DEF Call
<1>2. CallFine(new, office, category, group, item, store)
  BY FoundNow, AbsentRows DEF CallFine, BeginMoveStore
<1>3. Proceed(c, new) /\ UNCHANGED tables
  BY DEF BeginMoveStore
<1> HIDE DEF new
<1> QED BY <1>1, <1>2, <1>3, ReadKeeps

LEMMA BeginCardStep ==
  ASSUME IInv, NEW c \in Callers, NEW o \in Organizations, NEW s \in Stores,
         NEW items \in SUBSET Items, BeginCard(c, o, s, items)
  PROVE  IInv'
<1> DEFINE new == [op |-> "card", org |-> o, store |-> s, items |-> items]
<1>1. new \in Call
  BY DEF Call
<1>2. CallFine(new, office, category, group, item, store)
  BY FoundNow DEF CallFine, BeginCard
<1>3. Proceed(c, new) /\ UNCHANGED tables
  BY DEF BeginCard
<1> HIDE DEF new
<1> QED BY <1>1, <1>2, <1>3, ReadKeeps

\* A request that writes, or finds that it cannot, and ends.
LEMMA ReturnKeeps ==
  ASSUME IInv, Writes, NEW c \in Callers, Return(c)
  PROVE  IInv'
BY FineAfter, CallerKeeps, IdleFine DEF Writes, Return

LEMMA SameTables ==
  ASSUME IInv, UNCHANGED tables
  PROVE  Writes
<1>1. TablesOK'
  BY DEF TablesOK, IInv, TypeOK, tables, catalogue, goods
<1>2. Steady /\ AllSpared({})
  BY SameTable DEF Steady, AllSpared, tables, catalogue
<1>3. NewFine
  BY DEF NewFine, tables, catalogue, goods
<1> QED BY <1>1, <1>2, <1>3 DEF Writes

LEMMA BeginCancelStep ==
  ASSUME IInv, NEW c \in Callers, NEW p \in Orders, BeginCancel(c, p)
  PROVE  IInv'
<1> DEFINE new == [op |-> "cancel", order |-> p]
<1>1. new \in Call
  BY DEF Call
<1>2. CallFine(new, office, category, group, item, store)
  BY DEF CallFine
<1>3. Proceed(c, new) /\ UNCHANGED tables
  BY DEF BeginCancel
<1> HIDE DEF new
<1> QED BY <1>1, <1>2, <1>3, ReadKeeps

LEMMA BeginWithdrawStep ==
  ASSUME IInv, NEW c \in Callers, NEW r \in Receipts, BeginWithdraw(c, r)
  PROVE  IInv'
<1> DEFINE new == [op |-> "withdraw", receipt |-> r]
<1>1. new \in Call
  BY DEF Call
<1>2. CallFine(new, office, category, group, item, store)
  BY DEF CallFine
<1>3. Proceed(c, new) /\ UNCHANGED tables
  BY DEF BeginWithdraw
<1> HIDE DEF new
<1> QED BY <1>1, <1>2, <1>3, ReadKeeps

\* Orders and receipts are deleted, and nothing else is written.
LEMMA ReceiptsDeleted ==
  ASSUME IInv, UNCHANGED <<office, users, catalogue, card, stock, movement>>,
         order' \in [Orders -> Absent \cup OrderRow],
         receipt' \in [Receipts -> Absent \cup ReceiptRow],
         \A r \in Receipts : Present(receipt'[r]) => receipt'[r] = receipt[r]
  PROVE  Writes
BY GoodsTables, GoodsWritten

LEMMA CommitCancelStep ==
  ASSUME IInv, NEW c \in Callers, CommitCancel(c)
  PROVE  IInv'
<1>0. PICK p : p = call[c].order
  OBVIOUS
<1>1. Return(c) /\ UNCHANGED <<office, users, catalogue, card, stock, movement>>
  BY DEF CommitCancel
<1>2. CASE ~Present(order[p])
  BY <1>0, <1>1, <1>2, SameTables, ReturnKeeps DEF CommitCancel, tables, goods
<1>3. CASE Present(order[p])
  <2>1. /\ order' = [order EXCEPT ![p] = Gone]
        /\ receipt' = [r \in Receipts |->
             IF Present(receipt[r]) /\ receipt[r].order = p THEN Gone ELSE receipt[r]]
    BY <1>0, <1>3 DEF CommitCancel
  <2>2. Gone \in Absent
    BY DEF Absent
  <2>3. order' \in [Orders -> Absent \cup OrderRow] /\ receipt' \in [Receipts -> Absent \cup ReceiptRow]
    BY <2>1, <2>2, GoodsTables
  <2>4. \A r \in Receipts : Present(receipt'[r]) => receipt'[r] = receipt[r]
    BY <2>1, AbsentRows
  <2> QED BY <1>1, <2>3, <2>4, ReceiptsDeleted, ReturnKeeps
<1> QED BY <1>2, <1>3

LEMMA CommitWithdrawStep ==
  ASSUME IInv, NEW c \in Callers, CommitWithdraw(c)
  PROVE  IInv'
<1>0. PICK r : r = call[c].receipt
  OBVIOUS
<1>1. Return(c) /\ UNCHANGED <<office, users, catalogue, card, stock, order, movement>>
  BY DEF CommitWithdraw
<1>2. CASE ~Present(receipt[r])
  BY <1>0, <1>1, <1>2, SameTables, ReturnKeeps DEF CommitWithdraw, tables, goods
<1>3. CASE Present(receipt[r])
  <2>1. receipt' = [receipt EXCEPT ![r] = Withdrawn]
    BY <1>0, <1>3 DEF CommitWithdraw
  <2>2. Withdrawn \in Absent
    BY DEF Absent
  <2>3. receipt' \in [Receipts -> Absent \cup ReceiptRow]
    BY <2>1, <2>2, GoodsTables
  <2>4. \A q \in Receipts : Present(receipt'[q]) => receipt'[q] = receipt[q]
    BY <2>1, AbsentRows, GoodsTables
  <2> QED BY <1>1, <2>3, <2>4, GoodsTables, ReceiptsDeleted, ReturnKeeps
<1> QED BY <1>2, <1>3

LEMMA InsertItemStep ==
  ASSUME IInv, NEW c \in Callers, NEW i \in Items, InsertItem(c, i)
  PROVE  IInv'
<1>0. PICK k \in Call : k = call[c]
  BY DEF IInv, TypeOK
<1>1. Return(c) /\ k.op = "item" /\ UNCHANGED <<office, users, category, group, vendor, store, card, goods>>
  BY <1>0 DEF InsertItem
<1>2. CASE ~Referable(k.category, k.group, k.vendor)
  BY <1>0, <1>1, <1>2, SameTables, ReturnKeeps DEF InsertItem, tables, catalogue
<1>3. CASE Referable(k.category, k.group, k.vendor)
  <2> DEFINE row == [status |-> "KEPT", org |-> k.org, category |-> k.category,
                     group |-> k.group, vendor |-> k.vendor, edited |-> FALSE]
  <2>1. /\ row.org = k.org /\ row.category = k.category /\ row.group = k.group
        /\ row.vendor = k.vendor /\ row \in ItemRow /\ row \in AnyRow
    BY <1>1, CallShape DEF ItemRow, AnyRow
  <2>2. item' = [item EXCEPT ![i] = row] /\ item[i] = Unused
    BY <1>0, <1>3 DEF InsertItem
  <2> HIDE DEF row
  <2>3. Written(item, item', Items, Absent \cup ItemRow, i, row)
    BY <2>1, <2>2 DEF Written, IInv, TypeOK
  <2>4. /\ item' \in [Items -> Absent \cup ItemRow] /\ Lasts(item, item', Items)
        /\ Spared(item, item', Items, {})
    BY <2>2, <2>3, NewRow
  <2>5. Found(category[k.category], k.org) /\ Found(group[k.group], k.org)
    BY <1>0, <1>1 DEF IInv, CallsFine, CallFine
  <2>6. ItemFine(row, category, group, vendor)
    BY <1>3, <2>1, <2>5 DEF Referable, ItemFine, Found
  <2>7. \A y \in Items : item'[y] = item[y] \/ ItemFine(item'[y], category, group, vendor)
    BY <2>3, <2>6 DEF Written
  <2>8. TablesOK'
    BY <1>1, <2>4 DEF TablesOK, IInv, TypeOK, goods
  <2>9. Steady /\ AllSpared({})
    BY <1>1, <2>4, SameTable DEF Steady, AllSpared
  <2>10. NewFine
    BY <1>1, <2>7 DEF NewFine, goods
  <2> QED BY <1>1, <2>8, <2>9, <2>10, ReturnKeeps DEF Writes
<1> QED BY <1>2, <1>3

LEMMA InsertStoreStep ==
  ASSUME IInv, NEW c \in Callers, NEW s \in Stores, InsertStore(c, s)
  PROVE  IInv'
<1>0. PICK k \in Call : k = call[c]
  BY DEF IInv, TypeOK
<1>1. Return(c) /\ k.op = "store" /\ UNCHANGED <<office, users, category, group, vendor, item, card, goods>>
  BY <1>0 DEF InsertStore
<1>2. CASE ~Present(office[k.office])
  BY <1>0, <1>1, <1>2, SameTables, ReturnKeeps DEF InsertStore, tables, catalogue
<1>3. CASE Present(office[k.office])
  <2> DEFINE row == [status |-> "KEPT", org |-> k.org, office |-> k.office]
  <2>1. row.org = k.org /\ row.office = k.office /\ row \in StoreRow /\ row \in AnyRow
    BY <1>1, CallShape DEF StoreRow, AnyRow
  <2>2. store' = [store EXCEPT ![s] = row] /\ store[s] = Unused
    BY <1>0, <1>3 DEF InsertStore
  <2> HIDE DEF row
  <2>3. Written(store, store', Stores, Absent \cup StoreRow, s, row)
    BY <2>1, <2>2 DEF Written, IInv, TypeOK
  <2>4. /\ store' \in [Stores -> Absent \cup StoreRow] /\ Lasts(store, store', Stores)
        /\ Spared(store, store', Stores, {})
    BY <2>2, <2>3, NewRow
  <2>5. Found(office[k.office], k.org)
    BY <1>0, <1>1 DEF IInv, CallsFine, CallFine
  <2>6. StoreFine(row, office)
    BY <1>3, <2>1, <2>5 DEF StoreFine, BelongsTo, Found
  <2>7. \A y \in Stores : store'[y] = store[y] \/ StoreFine(store'[y], office)
    BY <2>3, <2>6 DEF Written
  <2>8. TablesOK'
    BY <1>1, <2>4 DEF TablesOK, IInv, TypeOK, goods
  <2>9. Steady /\ AllSpared({})
    BY <1>1, <2>4, SameTable DEF Steady, AllSpared
  <2>10. NewFine
    BY <1>1, <2>7 DEF NewFine, goods
  <2> QED BY <1>1, <2>8, <2>9, <2>10, ReturnKeeps DEF Writes
<1> QED BY <1>2, <1>3

\* The office a store moves to was its organization's when the request looked,
\* and neither the office nor the store has changed hands since.
LEMMA CommitMoveStep ==
  ASSUME IInv, NEW c \in Callers, CommitMoveStore(c)
  PROVE  IInv'
<1>0. PICK k \in Call : k = call[c]
  BY DEF IInv, TypeOK
<1>1. Return(c) /\ k.op = "move" /\ UNCHANGED <<office, users, category, group, vendor, item, card, goods>>
  BY <1>0 DEF CommitMoveStore
<1>2. CASE ~(Present(store[k.store]) /\ Present(office[k.office]))
  BY <1>0, <1>1, <1>2, SameTables, ReturnKeeps DEF CommitMoveStore, tables, catalogue
<1>3. CASE Present(store[k.store]) /\ Present(office[k.office])
  <2>0. PICK old, f, s : old = store[k.store] /\ f = k.office /\ s = k.store
    OBVIOUS
  <2> DEFINE row == [old EXCEPT !.office = f]
  <2>a. old \in StoreRow /\ f \in Offices /\ s \in Stores
    BY <1>1, <1>3, <2>0, CallShape, PresentRows DEF IInv
  <2>1. row.org = old.org /\ row.office = f /\ row \in StoreRow /\ row \in AnyRow
    BY <2>a DEF StoreRow, AnyRow
  <2>2. store' = [store EXCEPT ![s] = row] /\ Present(store[s]) /\ old = store[s]
    BY <1>0, <1>3, <2>0 DEF CommitMoveStore
  <2> HIDE DEF row
  <2>3. Written(store, store', Stores, Absent \cup StoreRow, s, row)
    BY <2>1, <2>2, <2>a DEF Written, IInv, TypeOK
  <2>4. /\ store' \in [Stores -> Absent \cup StoreRow] /\ Lasts(store, store', Stores)
        /\ Spared(store, store', Stores, {})
    BY <2>1, <2>2, <2>3, ChangedRow
  <2>5. Found(office[f], old.org)
    BY <1>0, <1>1, <1>3, <2>0 DEF IInv, CallsFine, CallFine
  <2>6. StoreFine(row, office)
    BY <1>3, <2>0, <2>1, <2>5 DEF StoreFine, BelongsTo, Found
  <2>7. \A y \in Stores : store'[y] = store[y] \/ StoreFine(store'[y], office)
    BY <2>3, <2>6 DEF Written
  <2>8. TablesOK'
    BY <1>1, <2>4 DEF TablesOK, IInv, TypeOK, goods
  <2>9. Steady /\ AllSpared({})
    BY <1>1, <2>4, SameTable DEF Steady, AllSpared
  <2>10. NewFine
    BY <1>1, <2>7 DEF NewFine, goods
  <2> QED BY <1>1, <2>8, <2>9, <2>10, ReturnKeeps DEF Writes
<1> QED BY <1>2, <1>3

LEMMA InsertCardStep ==
  ASSUME IInv, NEW c \in Callers, NEW d \in Cards, InsertCard(c, d)
  PROVE  IInv'
<1>0. PICK k \in Call : k = call[c]
  BY DEF IInv, TypeOK
<1>1. Return(c) /\ k.op = "card" /\ UNCHANGED <<office, users, catalogue, goods>>
  BY <1>0 DEF InsertCard
<1>2. CASE ~(Present(store[k.store]) /\ \A i \in k.items : Present(item[i]))
  BY <1>0, <1>1, <1>2, SameTables, ReturnKeeps DEF InsertCard, tables
<1>3. CASE Present(store[k.store]) /\ \A i \in k.items : Present(item[i])
  <2> DEFINE row == [status |-> "ISSUED", org |-> k.org, store |-> k.store, items |-> k.items]
  <2>1. row.org = k.org /\ row.store = k.store /\ row.items = k.items /\ row \in CardRow
    BY <1>1, CallShape DEF CardRow
  <2>2. card' = [card EXCEPT ![d] = row] /\ card \in [Cards -> Absent \cup CardRow]
    BY <1>0, <1>3 DEF InsertCard, IInv, TypeOK
  <2> HIDE DEF row
  <2>3. Found(store[k.store], k.org) /\ \A i \in k.items : Found(item[i], k.org)
    BY <1>0, <1>1 DEF IInv, CallsFine, CallFine
  <2>4. CardFine(row, store, item)
    BY <1>3, <2>1, <2>3 DEF CardFine, BelongsTo, Found
  <2>5. /\ card' \in [Cards -> Absent \cup CardRow]
        /\ \A e \in Cards : card'[e] = card[e] \/ CardFine(card'[e], store, item)
    BY <2>1, <2>2, <2>4
  <2> QED BY <1>1, <2>5, CardsWritten, ReturnKeeps
<1> QED BY <1>2, <1>3
-----------------------------------------------------------------------------
(* Deletions.                                                                *)

Everything == UNION {Offices, Users, Categories, Groups, Vendors, Items, Stores}

\* With a category or group go its items, with an office its stores.
LEMMA DoomedTogether ==
  ASSUME IInv, NEW x \in Everything
  PROVE  /\ None \notin Doomed(x)
         /\ \A i \in Items : Present(item[i]) /\ {item[i].category, item[i].group} \cap Doomed(x) # {} =>
              i \in Doomed(x)
         /\ \A s \in Stores : Present(store[s]) /\ store[s].office \in Doomed(x) => s \in Doomed(x)
<1>1. /\ Categories \subseteq Everything /\ Groups \subseteq Everything /\ Offices \subseteq Everything
      /\ Items \subseteq Everything /\ Stores \subseteq Everything
      /\ None \notin Everything /\ None \notin Orders
  BY IdentitiesAssumption DEF Everything
<1>2. \A y \in Categories \cup Groups \cup Offices : y \notin Items /\ y \notin Stores /\ y \notin Orders
  BY IdentitiesAssumption
<1>3. \A y : y \in Doomed(x) => y = x \/ y \in Items \/ y \in Stores \/ y \in Orders
  BY DEF Doomed
<1>4. None \notin Doomed(x)
  BY <1>1, <1>3
<1>5. ASSUME NEW i \in Items, Present(item[i]), {item[i].category, item[i].group} \cap Doomed(x) # {}
      PROVE  i \in Doomed(x)
  <2>1. item[i].category \in Categories /\ item[i].group \in Groups
    BY <1>5, PresentRows, RowShape DEF IInv
  <2>2. x \in {item[i].category, item[i].group}
    BY <1>2, <1>3, <1>5, <2>1
  <2> QED BY <1>5, <2>2 DEF Doomed
<1>6. ASSUME NEW s \in Stores, Present(store[s]), store[s].office \in Doomed(x)
      PROVE  s \in Doomed(x)
  <2>1. store[s].office \in Offices
    BY <1>6, PresentRows, RowShape DEF IInv
  <2>2. store[s].office = x
    BY <1>2, <1>3, <1>6, <2>1
  <2> QED BY <1>6, <2>2 DEF Doomed
<1> QED BY <1>4, <1>5, <1>6

LEMMA RowsKeep ==
  ASSUME NEW S, NEW R, NEW T \in [S -> Absent \cup R], NEW dead
  PROVE  /\ Rows(T, dead) \in [S -> Absent \cup R]
         /\ Lasts(T, Rows(T, dead), S) /\ Spared(T, Rows(T, dead), S, dead)
BY AbsentRows DEF Rows, Lasts, Spared, Absent

\* Cutting a row off what it refers to leaves it in its table.
LEMMA CutRows ==
  /\ \A row \in GroupRow :
       LET cut == [row EXCEPT !.category = None]
       IN  cut \in GroupRow /\ cut.org = row.org /\ cut.category = None
  /\ \A row \in ItemRow :
       LET cut == [row EXCEPT !.vendor = None]
       IN  /\ cut \in ItemRow /\ cut.org = row.org /\ cut.vendor = None
           /\ cut.category = row.category /\ cut.group = row.group /\ cut.edited = row.edited
  /\ \A row \in ReceiptRow :
       LET cut == [row EXCEPT !.item = None]
       IN  /\ cut \in ReceiptRow /\ cut.item = None
           /\ cut.vendor = row.vendor /\ cut.store = row.store
  /\ \A row \in CardRow : \A dead :
       LET cut == [row EXCEPT !.items = @ \ dead]
       IN  /\ cut \in CardRow /\ cut.org = row.org /\ cut.store = row.store
           /\ cut.items = row.items \ dead
  /\ \A row \in MovementRow : [row EXCEPT !.status = "FORGOTTEN"] \in MovementRow
<1>1. ASSUME NEW row \in GroupRow
      PROVE  LET cut == [row EXCEPT !.category = None]
             IN  cut \in GroupRow /\ cut.org = row.org /\ cut.category = None
  BY DEF GroupRow
<1>2. ASSUME NEW row \in ItemRow
      PROVE  LET cut == [row EXCEPT !.vendor = None]
             IN  /\ cut \in ItemRow /\ cut.org = row.org /\ cut.vendor = None
                 /\ cut.category = row.category /\ cut.group = row.group /\ cut.edited = row.edited
  BY DEF ItemRow
<1>3. ASSUME NEW row \in ReceiptRow
      PROVE  LET cut == [row EXCEPT !.item = None]
             IN  /\ cut \in ReceiptRow /\ cut.item = None
                 /\ cut.vendor = row.vendor /\ cut.store = row.store
  BY DEF ReceiptRow
<1>4. ASSUME NEW row \in CardRow, NEW dead
      PROVE  LET cut == [row EXCEPT !.items = @ \ dead]
             IN  /\ cut \in CardRow /\ cut.org = row.org /\ cut.store = row.store
                 /\ cut.items = row.items \ dead
  BY DEF CardRow
<1>5. ASSUME NEW row \in MovementRow
      PROVE  [row EXCEPT !.status = "FORGOTTEN"] \in MovementRow
  BY DEF MovementRow
<1> QED BY <1>1, <1>2, <1>3, <1>4, <1>5

\* What a deletion leaves of each table: rows that referred to nothing deleted,
\* or no longer do, and are fine in the tables as they were.
LEMMA GroupsLeft ==
  ASSUME IInv, NEW dead, None \notin dead, DeleteCatalogue(dead)
  PROVE  /\ group' \in [Groups -> Absent \cup GroupRow]
         /\ Lasts(group, group', Groups) /\ Spared(group, group', Groups, dead)
         /\ \A g \in Groups : Present(group'[g]) =>
              GroupFine(group'[g], category) /\ group'[g].category \notin dead
<1> DEFINE Left(g) ==
      /\ group'[g] \in Absent \cup GroupRow
      /\ group[g] # Unused => group'[g] # Unused
      /\ Present(group'[g]) =>
           /\ Present(group[g]) /\ group'[g].org = group[g].org
           /\ GroupFine(group'[g], category) /\ group'[g].category \notin dead
      /\ Present(group[g]) /\ g \notin dead => Present(group'[g])
<1>1. ASSUME NEW g \in Groups PROVE Left(g)
  <2>0. PICK old : old = group[g]
    OBVIOUS
  <2>1. group'[g] = IF Present(old) /\ old.category \in dead /\ g \notin dead
                    THEN [old EXCEPT !.category = None]
                    ELSE IF g \in dead THEN Gone ELSE old
    BY <2>0 DEF DeleteCatalogue, Rows, IInv, TypeOK
  <2>2. Present(old) => old \in GroupRow /\ GroupFine(old, category)
    BY <2>0, PresentRows DEF IInv, Fine
  <2>3. old \in Absent \cup GroupRow
    BY <2>0 DEF IInv, TypeOK
  <2>4. CASE Present(old) /\ old.category \in dead /\ g \notin dead
    <3> DEFINE cut == [old EXCEPT !.category = None]
    <3>1. cut \in GroupRow /\ cut.org = old.org /\ cut.category = None
      BY <2>2, <2>4, CutRows
    <3>2. group'[g] = cut
      BY <2>1, <2>4
    <3> HIDE DEF cut
    <3>3. Present(cut) /\ cut # Unused
      BY <3>1, KeptRows DEF AnyRow
    <3> QED BY <2>0, <2>4, <3>1, <3>2, <3>3 DEF GroupFine
  <2>5. CASE ~(Present(old) /\ old.category \in dead /\ g \notin dead)
    BY <2>0, <2>1, <2>2, <2>3, <2>5, AbsentRows DEF Absent
  <2> QED BY <2>4, <2>5
<1>2. group' \in [Groups -> Absent \cup GroupRow]
  <2>1. DOMAIN group' = Groups /\ group' = [g \in Groups |-> group'[g]]
    BY DEF DeleteCatalogue
  <2> QED BY <1>1, <2>1
<1> QED BY <1>1, <1>2 DEF Lasts, Spared

LEMMA ItemsLeft ==
  ASSUME IInv, NEW dead, None \notin dead, DeleteCatalogue(dead),
         \A i \in Items : Present(item[i]) /\ {item[i].category, item[i].group} \cap dead # {} => i \in dead
  PROVE  /\ item' \in [Items -> Absent \cup ItemRow]
         /\ Lasts(item, item', Items) /\ Spared(item, item', Items, dead)
         /\ \A i \in Items : Present(item'[i]) =>
              /\ i \notin dead /\ ItemFine(item'[i], category, group, vendor)
              /\ {item'[i].category, item'[i].group, item'[i].vendor} \cap dead = {}
<1> DEFINE Left(i) ==
      /\ item'[i] \in Absent \cup ItemRow
      /\ item[i] # Unused => item'[i] # Unused
      /\ Present(item'[i]) =>
           /\ Present(item[i]) /\ item'[i].org = item[i].org
           /\ i \notin dead /\ ItemFine(item'[i], category, group, vendor)
           /\ {item'[i].category, item'[i].group, item'[i].vendor} \cap dead = {}
      /\ Present(item[i]) /\ i \notin dead => Present(item'[i])
<1>1. ASSUME NEW i \in Items PROVE Left(i)
  <2>0. PICK old : old = item[i]
    OBVIOUS
  <2>1. item'[i] = IF Present(old) /\ old.vendor \in dead /\ i \notin dead
                   THEN [old EXCEPT !.vendor = None]
                   ELSE IF i \in dead THEN Gone ELSE old
    BY <2>0 DEF DeleteCatalogue, Rows, IInv, TypeOK
  <2>2. Present(old) => old \in ItemRow /\ ItemFine(old, category, group, vendor)
    BY <2>0, PresentRows DEF IInv, Fine
  <2>3. old \in Absent \cup ItemRow
    BY <2>0 DEF IInv, TypeOK
  <2>4. CASE Present(old) /\ old.vendor \in dead /\ i \notin dead
    <3> DEFINE cut == [old EXCEPT !.vendor = None]
    <3>1. /\ cut \in ItemRow /\ cut.org = old.org /\ cut.vendor = None
          /\ cut.category = old.category /\ cut.group = old.group /\ cut.edited = old.edited
      BY <2>2, <2>4, CutRows
    <3>2. item'[i] = cut
      BY <2>1, <2>4
    <3> HIDE DEF cut
    <3>3. Present(cut) /\ cut # Unused
      BY <3>1, KeptRows DEF AnyRow
    <3>4. ItemFine(cut, category, group, vendor)
      BY <2>2, <2>4, <3>1 DEF ItemFine
    <3>5. {cut.category, cut.group, cut.vendor} \cap dead = {}
      BY <2>0, <2>4, <3>1
    <3> QED BY <2>0, <2>4, <3>1, <3>2, <3>3, <3>4, <3>5
  <2>5. CASE ~(Present(old) /\ old.vendor \in dead /\ i \notin dead)
    <3>1. CASE i \in dead
      BY <2>0, <2>1, <2>5, <3>1, AbsentRows DEF Absent
    <3>2. CASE i \notin dead
      <4>1. item'[i] = old
        BY <2>1, <2>5, <3>2
      <4>2. Present(old) => {old.category, old.group, old.vendor} \cap dead = {}
        BY <2>0, <2>5, <3>2
      <4> QED BY <2>0, <2>2, <2>3, <3>2, <4>1, <4>2
    <3> QED BY <3>1, <3>2
  <2> QED BY <2>4, <2>5
<1>2. item' \in [Items -> Absent \cup ItemRow]
  <2>1. DOMAIN item' = Items /\ item' = [i \in Items |-> item'[i]]
    BY DEF DeleteCatalogue
  <2> QED BY <1>1, <2>1
<1> QED BY <1>1, <1>2 DEF Lasts, Spared

LEMMA CardsLeft ==
  ASSUME IInv, NEW dead, card' = CardsWithout(dead)
  PROVE  /\ card' \in [Cards -> Absent \cup CardRow]
         /\ \A d \in Cards : Present(card'[d]) =>
              /\ CardFine(card'[d], store, item)
              /\ card'[d].store \notin dead /\ card'[d].items \cap dead = {}
<1> DEFINE Left(d) ==
      /\ card'[d] \in Absent \cup CardRow
      /\ Present(card'[d]) =>
           /\ CardFine(card'[d], store, item)
           /\ card'[d].store \notin dead /\ card'[d].items \cap dead = {}
<1>1. ASSUME NEW d \in Cards PROVE Left(d)
  <2>0. PICK old : old = card[d]
    OBVIOUS
  <2>1. card'[d] = IF ~Present(old) THEN old
                   ELSE IF old.store \in dead THEN Gone ELSE [old EXCEPT !.items = @ \ dead]
    BY <2>0 DEF CardsWithout
  <2>2. Present(old) => old \in CardRow /\ CardFine(old, store, item)
    BY <2>0, PresentRows DEF IInv, Fine
  <2>3. old \in Absent \cup CardRow
    BY <2>0 DEF IInv, TypeOK
  <2>4. CASE Present(old) /\ old.store \notin dead
    <3> DEFINE cut == [old EXCEPT !.items = @ \ dead]
    <3>1. /\ cut \in CardRow /\ cut.org = old.org /\ cut.store = old.store
          /\ cut.items = old.items \ dead
      BY <2>2, <2>4, CutRows
    <3>2. card'[d] = cut
      BY <2>1, <2>4
    <3> HIDE DEF cut
    <3>3. CardFine(cut, store, item)
      BY <2>2, <2>4, <3>1 DEF CardFine
    <3> QED BY <2>4, <3>1, <3>2, <3>3
  <2>5. CASE ~(Present(old) /\ old.store \notin dead)
    BY <2>1, <2>3, <2>5, AbsentRows DEF Absent
  <2> QED BY <2>4, <2>5
<1>2. card' = [d \in Cards |-> card'[d]]
  BY DEF CardsWithout
<1> QED BY <1>1, <1>2

LEMMA ReceiptsLeft ==
  ASSUME IInv, NEW dead, None \notin dead, receipt' = ReceiptsWithout(dead)
  PROVE  /\ receipt' \in [Receipts -> Absent \cup ReceiptRow]
         /\ \A r \in Receipts : Present(receipt'[r]) =>
              /\ ReceiptFine(receipt'[r], vendor, store, item)
              /\ {receipt'[r].vendor, receipt'[r].store, receipt'[r].item} \cap dead = {}
<1> DEFINE Left(r) ==
      /\ receipt'[r] \in Absent \cup ReceiptRow
      /\ Present(receipt'[r]) =>
           /\ ReceiptFine(receipt'[r], vendor, store, item)
           /\ {receipt'[r].vendor, receipt'[r].store, receipt'[r].item} \cap dead = {}
<1>1. ASSUME NEW r \in Receipts PROVE Left(r)
  <2>0. PICK old : old = receipt[r]
    OBVIOUS
  <2>1. receipt'[r] = IF Present(old) /\ {old.vendor, old.order, old.store, old.user} \cap dead # {} THEN Gone
                      ELSE IF Present(old) /\ old.item \in dead THEN [old EXCEPT !.item = None]
                      ELSE old
    BY <2>0 DEF ReceiptsWithout
  <2>2. Present(old) => old \in ReceiptRow /\ ReceiptFine(old, vendor, store, item)
    BY <2>0, PresentRows DEF IInv, Fine
  <2>3. old \in Absent \cup ReceiptRow
    BY <2>0 DEF IInv, TypeOK
  <2>4. CASE Present(old) /\ {old.vendor, old.order, old.store, old.user} \cap dead # {}
    BY <2>1, <2>4, AbsentRows DEF Absent
  <2>5. CASE Present(old) /\ {old.vendor, old.order, old.store, old.user} \cap dead = {} /\ old.item \in dead
    <3> DEFINE cut == [old EXCEPT !.item = None]
    <3>1. cut \in ReceiptRow /\ cut.item = None /\ cut.vendor = old.vendor /\ cut.store = old.store
      BY <2>2, <2>5, CutRows
    <3>2. receipt'[r] = cut
      BY <2>1, <2>5
    <3> HIDE DEF cut
    <3>3. ReceiptFine(cut, vendor, store, item)
      BY <2>2, <2>5, <3>1 DEF ReceiptFine
    <3>4. {cut.vendor, cut.store, cut.item} \cap dead = {}
      BY <2>5, <3>1
    <3> QED BY <3>1, <3>2, <3>3, <3>4
  <2>6. CASE Present(old) /\ {old.vendor, old.order, old.store, old.user} \cap dead = {} /\ old.item \notin dead
    BY <2>1, <2>2, <2>6
  <2>7. CASE ~Present(old)
    BY <2>1, <2>3, <2>7
  <2> QED BY <2>4, <2>5, <2>6, <2>7
<1>2. receipt' = [r \in Receipts |-> receipt'[r]]
  BY DEF ReceiptsWithout
<1> QED BY <1>1, <1>2

LEMMA MovementsLeft ==
  ASSUME IInv, NEW dead, movement' = MovementsWithout(dead)
  PROVE  movement' \in [Receipts -> Absent \cup MovementRow]
<1>1. ASSUME NEW r \in Receipts PROVE movement'[r] \in Absent \cup MovementRow
  <2>0. PICK old : old = movement[r]
    OBVIOUS
  <2>1. movement'[r] = IF Present(old) /\ {old.store, old.item} \cap dead # {} THEN Gone
                       ELSE IF Present(old) /\ old.user \in dead THEN [old EXCEPT !.status = "FORGOTTEN"]
                       ELSE old
    BY <2>0 DEF MovementsWithout
  <2>2. (Present(old) => old \in MovementRow) /\ old \in Absent \cup MovementRow
    BY <2>0, PresentRows DEF IInv, TypeOK
  <2> QED BY <2>1, <2>2, CutRows DEF Absent
<1>2. movement' = [r \in Receipts |-> movement'[r]]
  BY DEF MovementsWithout
<1> QED BY <1>1, <1>2

LEMMA StockLeft ==
  ASSUME IInv, NEW dead, stock' = StockWithout(dead)
  PROVE  /\ stock' \in [Stores \X Items -> Nat \cup {None}]
         /\ \A s \in Stores, i \in Items : stock'[<<s, i>>] # None =>
              Present(store[s]) /\ Present(item[i]) /\ s \notin dead /\ i \notin dead
<1>1. stock \in [Stores \X Items -> Nat \cup {None}]
  BY DEF IInv, TypeOK
<1>2. stock' \in [Stores \X Items -> Nat \cup {None}]
  BY <1>1 DEF StockWithout
<1>3. ASSUME NEW s \in Stores, NEW i \in Items, stock'[<<s, i>>] # None
      PROVE  Present(store[s]) /\ Present(item[i]) /\ s \notin dead /\ i \notin dead
  <2>1. stock'[<<s, i>>] = IF {s, i} \cap dead # {} THEN None ELSE stock[<<s, i>>]
    BY DEF StockWithout
  <2>2. {s, i} \cap dead = {} /\ stock[<<s, i>>] # None
    BY <1>3, <2>1
  <2> QED BY <2>2 DEF IInv, Fine
<1> QED BY <1>2, <1>3

LEMMA RemoveStep ==
  ASSUME IInv, NEW x \in Everything, Remove(x)
  PROVE  IInv'
<1>0. PICK dead : dead = Doomed(x)
  OBVIOUS
<1>1. /\ office' = Rows(office, dead) /\ users' = users \ dead /\ DeleteCatalogue(dead)
      /\ card' = CardsWithout(dead) /\ stock' = StockWithout(dead)
      /\ movement' = MovementsWithout(dead) /\ order' = Rows(order, dead)
      /\ receipt' = ReceiptsWithout(dead) /\ call' = call
  BY <1>0 DEF Remove
<1>2. /\ None \notin dead
      /\ \A i \in Items : Present(item[i]) /\ {item[i].category, item[i].group} \cap dead # {} => i \in dead
      /\ \A s \in Stores : Present(store[s]) /\ store[s].office \in dead => s \in dead
  BY <1>0, DoomedTogether
<1>3. category' = Rows(category, dead) /\ vendor' = Rows(vendor, dead) /\ store' = Rows(store, dead)
  BY <1>1 DEF DeleteCatalogue
<1>4. /\ office \in [Offices -> Absent \cup Owned] /\ category \in [Categories -> Absent \cup Owned]
      /\ vendor \in [Vendors -> Absent \cup Owned] /\ store \in [Stores -> Absent \cup StoreRow]
  BY DEF IInv, TypeOK
<1>5. /\ office' \in [Offices -> Absent \cup Owned] /\ Lasts(office, office', Offices)
      /\ Spared(office, office', Offices, dead)
  BY <1>1, <1>4, RowsKeep
<1>6. /\ category' \in [Categories -> Absent \cup Owned] /\ Lasts(category, category', Categories)
      /\ Spared(category, category', Categories, dead)
  BY <1>3, <1>4, RowsKeep
<1>7. vendor' \in [Vendors -> Absent \cup Owned] /\ Spared(vendor, vendor', Vendors, dead)
  BY <1>3, <1>4, RowsKeep
<1>8. /\ store' \in [Stores -> Absent \cup StoreRow] /\ Lasts(store, store', Stores)
      /\ Spared(store, store', Stores, dead)
  BY <1>3, <1>4, RowsKeep
<1>placed. order' \in [Orders -> Absent \cup OrderRow]
  BY <1>1, GoodsTables, RowsKeep
<1>left. \A s \in Stores : Present(store'[s]) => s \notin dead /\ store'[s] = store[s]
  BY <1>3, <1>4, AbsentRows DEF Rows
<1>9. TablesOK'
  BY <1>1, <1>2, <1>5, <1>6, <1>7, <1>8, <1>placed, GroupsLeft, ItemsLeft, CardsLeft, ReceiptsLeft,
     MovementsLeft, StockLeft DEF TablesOK, IInv, TypeOK
<1>10. Steady /\ AllSpared(dead)
  BY <1>1, <1>2, <1>5, <1>6, <1>7, <1>8, GroupsLeft, ItemsLeft DEF Steady, AllSpared
<1>11. Fine'
  <2>1. \A g \in Groups : Present(group'[g]) => GroupFine(group'[g], category')
    BY <1>1, <1>2, <1>9, <1>10, GroupsLeft, StillFine DEF TablesOK, Present
  <2>2. \A i \in Items : Present(item'[i]) => ItemFine(item'[i], category', group', vendor')
    BY <1>1, <1>2, <1>9, <1>10, ItemsLeft, StillFine DEF TablesOK, Present
  <2>3. \A s \in Stores : Present(store'[s]) => StoreFine(store'[s], office')
    <3>1. \A s \in Stores : Present(store'[s]) =>
            store'[s] \in StoreRow /\ StoreFine(store'[s], office) /\ store'[s].office \notin dead
      BY <1>2, <1>left, PresentRows DEF IInv, Fine
    <3> QED BY <1>10, <3>1, StillFine
  <2>4. \A d \in Cards : Present(card'[d]) => CardFine(card'[d], store', item')
    BY <1>1, <1>9, <1>10, CardsLeft, StillFine DEF TablesOK, Present
  <2>5. \A r \in Receipts : Present(receipt'[r]) => ReceiptFine(receipt'[r], vendor', store', item')
    BY <1>1, <1>2, <1>9, <1>10, ReceiptsLeft, StillFine DEF TablesOK, Present
  <2>6. \A s \in Stores, i \in Items : stock'[<<s, i>>] # None => Present(store'[s]) /\ Present(item'[i])
    BY <1>1, <1>10, StockLeft DEF AllSpared, Spared
  <2> QED BY <2>1, <2>2, <2>3, <2>4, <2>5, <2>6 DEF Fine
<1> QED BY <1>1, <1>9, <1>10, <1>11, WriteKeeps
-----------------------------------------------------------------------------
(* The theorems.                                                             *)

LEMMA InitIInv == Init => IInv
<1> SUFFICES ASSUME Init PROVE IInv
  OBVIOUS
<1>1. Owned \cap Absent = {}
  BY KeptRows DEF AnyRow, Present
<1>2. /\ \A g \in Groups : ~Present(group[g])
      /\ \A i \in Items : ~Present(item[i])
      /\ \A s \in Stores : ~Present(store[s])
      /\ \A d \in Cards : ~Present(card[d])
      /\ \A r \in Receipts : ~Present(receipt[r])
  BY AbsentRows DEF Init
<1>3. \A s \in Stores, i \in Items : stock[<<s, i>>] = None
  BY DEF Init
<1>4. TypeOK
  BY IdleFine DEF Init, TypeOK, Absent
<1>5. Fine
  BY <1>2, <1>3 DEF Fine
<1>6. CallsFine
  BY IdleFine DEF Init, CallsFine
<1> QED BY <1>4, <1>5, <1>6 DEF IInv

LEMMA RequestStep ==
  ASSUME IInv, NEW c \in Callers, Requests(c)
  PROVE  IInv'
BY BeginItemStep, BeginStoreStep, BeginMoveStep, BeginCardStep, InsertItemStep, InsertStoreStep,
   CommitMoveStep, InsertCardStep, BeginCancelStep, BeginWithdrawStep, CommitCancelStep,
   CommitWithdrawStep DEF Requests

LEMMA IInvStep == IInv /\ [Next]_vars => IInv'
<1> SUFFICES ASSUME IInv, [Next]_vars PROVE IInv'
  OBVIOUS
<1>1. ASSUME NEW c \in Callers, Requests(c) PROVE IInv'
  BY <1>1, RequestStep
<1>2. CASE \E o \in Organizations :
             \/ \E k \in Categories : CreateCategory(k, o)
             \/ \E v \in Vendors : CreateVendor(v, o)
             \/ \E g \in Groups, k \in Categories \cup {None} : CreateGroup(g, o, k)
  BY <1>2, CategoryStep, VendorStep, CreateGroupStep
<1>3. CASE \E g \in Groups, k \in Categories \cup {None} : UpdateGroup(g, k)
  BY <1>3, UpdateGroupStep
<1>4. CASE \E i \in Items, k \in Categories, g \in Groups, v \in Vendors \cup {None} :
             UpdateItem(i, k, g, v)
  BY <1>4, UpdateItemStep
<1>5. CASE \E d \in Cards :
             DeleteCard(d) \/ \E status \in {"ISSUED", "RETURNED"} : UpdateCard(d, status)
  BY <1>5, DeleteCardStep, UpdateCardStep
<1>6. CASE \/ \E p \in Orders :
                PlaceOrder(p) \/ \E o \in Organizations, u \in Users : CreateOrder(p, o, u)
           \/ \E r \in Receipts, u \in Users :
                \/ ReceiveGoods(r, u)
                \/ \E v \in Vendors, p \in Orders, s \in Stores, i \in Items :
                     CreateReceipt(r, v, p, s, i, u)
  BY <1>6, PlaceOrderStep, CreateOrderStep, ReceiveStep, CreateReceiptStep
<1>7. CASE \E x \in UNION {Offices, Users, Categories, Groups, Vendors, Items, Stores} : Remove(x)
  BY <1>7, RemoveStep DEF Everything
<1>8. CASE UNCHANGED vars
  <2>1. Writes /\ call' = call
    BY <1>8, SameTables DEF vars
  <2> QED BY <2>1, FineAfter, WriteKeeps DEF Writes
<1> QED BY <1>1, <1>2, <1>3, <1>4, <1>5, <1>6, <1>7, <1>8 DEF Next

\* Whatever is deleted while requests are in progress, the tables stay in their
\* ranges, the rows a row refers to are there and of its organization, and what
\* a request has looked up is gone by then or what it was.
THEOREM Invariant == Spec => []IInv
<1> QED BY InitIInv, IInvStep, PTL DEF Spec

\* A store stays with an office of its organization, a card with a store and
\* items of its own, and an item with its category and group until an update
\* files it elsewhere.
THEOREM TenantsStayApart == Spec => []TenantsApart
<1>1. IInv => TenantsApart
  BY DEF IInv, Fine, ItemFine, StoreFine, CardFine, BelongsTo, TenantsApart
<1> QED BY <1>1, Invariant, PTL
-----------------------------------------------------------------------------
(* Stock and movements.                                                      *)

Held(c) == IF stock[c] = None THEN 0 ELSE stock[c]

\* The movements of item i into store s that are there, KEPT or FORGOTTEN.
MovedInto(s, i) ==
  {r \in Receipts : Present(movement[r]) /\ movement[r].store = s /\ movement[r].item = i}

\* Each store holds as much of an item as its movements say.
CellsExplained ==
  \A s \in Stores, i \in Items : Held(<<s, i>>) = Cardinality(MovedInto(s, i))

\* A movement is that of its receipt, which has been received, or has lost it to
\* a request or to the deletion of its vendor, its order or its creator.
Traced(r) ==
  Present(movement[r]) =>
    /\ receipt[r] # Unused
    /\ Present(receipt[r]) =>
         /\ receipt[r].status = "RECEIVED" /\ receipt[r].store = movement[r].store
         /\ receipt[r].vendor = movement[r].vendor /\ receipt[r].order = movement[r].order
         /\ receipt[r].user = movement[r].creator
    /\ ~Present(receipt[r]) =>
         \/ receipt[r] = Withdrawn
         \/ vendor[movement[r].vendor] = Gone \/ order[movement[r].order] = Gone
         \/ movement[r].creator \notin users

MovementsTraced == \A r \in Receipts : Traced(r)

\* The order and the users that orders, receipts and movements name are there.
UsersKnown ==
  /\ \A p \in Orders : Present(order[p]) => order[p].user \in users
  /\ \A r \in Receipts : Present(receipt[r]) =>
       Present(order[receipt[r].order]) /\ receipt[r].user \in users
  /\ \A r \in Receipts : Present(movement[r]) /\ movement[r].status = "KEPT" =>
       movement[r].user \in users

LInv == IInv /\ CellsExplained /\ MovementsTraced /\ UsersKnown

Explained == CellsExplained /\ MovementsTraced /\ UsersKnown

\* A step that moves no goods.
LEMMA GoodsStay ==
  ASSUME LInv, UNCHANGED <<users, goods>>, \A v \in Vendors : vendor[v] = Gone => vendor'[v] = Gone
  PROVE  Explained'
<1>1. stock' = stock /\ order' = order /\ receipt' = receipt /\ movement' = movement /\ users' = users
  BY DEF goods
<1>2. CellsExplained'
  BY <1>1 DEF LInv, CellsExplained, Held, MovedInto
<1>3. ASSUME NEW r \in Receipts PROVE Traced(r)'
  <2>1. Traced(r) /\ (Present(movement[r]) => movement[r].vendor \in Vendors)
    BY PresentRows DEF LInv, MovementsTraced, IInv, MovementRow
  <2> QED BY <1>1, <2>1 DEF Traced
<1>4. UsersKnown'
  BY <1>1 DEF LInv, UsersKnown
<1> QED BY <1>2, <1>3, <1>4 DEF MovementsTraced, Explained

\* No vendor is made of a deleted one.
LEMMA VendorsStayGone ==
  ASSUME vendor' = vendor \/ \E v \in Vendors, o \in Organizations : CreateVendor(v, o),
         vendor \in [Vendors -> Absent \cup Owned]
  PROVE  \A v \in Vendors : vendor[v] = Gone => vendor'[v] = Gone
BY AbsentRows DEF CreateVendor

\* A step that changes orders and receipts only: movements and stock are what
\* they were, and what has been received is not received again.
LEMMA PapersStay ==
  ASSUME LInv, UNCHANGED <<users, vendor, stock, movement>>,
         \A p \in Orders : order[p] = Gone => order'[p] = Gone,
         \A r \in Receipts :
           \/ receipt'[r] = receipt[r]
           \/ receipt[r] = Unused
           \/ Present(receipt[r]) /\ receipt'[r] = Withdrawn
           \/ Present(receipt[r]) /\ receipt'[r] = Gone /\ order'[receipt[r].order] = Gone
  PROVE  CellsExplained' /\ MovementsTraced'
<1>1. CellsExplained'
  BY DEF LInv, CellsExplained, Held, MovedInto
<1>2. ASSUME NEW r \in Receipts PROVE Traced(r)'
  <2> SUFFICES ASSUME Present(movement[r]) PROVE Traced(r)'
    BY DEF Traced
  <2>1. Traced(r) /\ receipt[r] # Unused
    BY DEF LInv, MovementsTraced, Traced
  <2>2. movement[r].vendor \in Vendors /\ movement[r].order \in Orders
    BY PresentRows DEF LInv, IInv, MovementRow
  <2>3. CASE receipt'[r] = receipt[r]
    BY <2>1, <2>2, <2>3 DEF Traced
  <2>4. CASE Present(receipt[r]) /\ receipt'[r] = Withdrawn
    BY <2>1, <2>4, AbsentRows DEF Traced
  <2>5. CASE Present(receipt[r]) /\ receipt'[r] = Gone /\ order'[receipt[r].order] = Gone
    BY <2>1, <2>5, AbsentRows DEF Traced
  <2> QED BY <2>1, <2>3, <2>4, <2>5
<1> QED BY <1>1, <1>2 DEF MovementsTraced

LEMMA CreateOrderExplained ==
  ASSUME LInv, NEW p \in Orders, NEW o \in Organizations, NEW u \in Users, CreateOrder(p, o, u)
  PROVE  Explained'
<1>1. PICK row : row = [status |-> "DRAFT", org |-> o, user |-> u]
  OBVIOUS
<1>2. row \in OrderRow /\ row.user = u
  BY <1>1 DEF OrderRow
<1>3. Present(row)
  BY <1>2, KeptRows DEF AnyRow
<1>4. /\ order' = [order EXCEPT ![p] = row] /\ order[p] = Unused /\ u \in users
      /\ UNCHANGED <<users, vendor, stock, receipt, movement>>
  BY <1>1 DEF CreateOrder, catalogue
<1>5. order'[p] = row /\ \A q \in Orders \ {p} : order'[q] = order[q]
  BY <1>4, GoodsTables DEF LInv
<1>6. \A q \in Orders : order[q] = Gone => order'[q] = Gone
  BY <1>4, <1>5, AbsentRows
<1>7. CellsExplained' /\ MovementsTraced'
  BY <1>4, <1>6, PapersStay
<1>8. UsersKnown'
  <2>1. \A q \in Orders : Present(order[q]) => Present(order'[q])
    BY <1>3, <1>5
  <2>2. \A r \in Receipts : Present(receipt[r]) => receipt[r].order \in Orders
    BY PresentRows DEF LInv, IInv, ReceiptRow
  <2>3. \A q \in Orders : Present(order'[q]) => order'[q].user \in users
    BY <1>2, <1>4, <1>5 DEF LInv, UsersKnown
  <2> QED BY <1>4, <2>1, <2>2, <2>3 DEF LInv, UsersKnown
<1> QED BY <1>7, <1>8 DEF Explained

LEMMA PlaceOrderExplained ==
  ASSUME LInv, NEW p \in Orders, PlaceOrder(p)
  PROVE  Explained'
<1>1. PICK old : old = order[p]
  OBVIOUS
<1>2. PICK row : row = [old EXCEPT !.status = "PLACED"]
  OBVIOUS
<1>3. /\ order' = [order EXCEPT ![p] = row] /\ Present(order[p])
      /\ UNCHANGED <<users, vendor, stock, receipt, movement>>
  BY <1>1, <1>2 DEF PlaceOrder, catalogue
<1>4. row \in OrderRow /\ row.user = old.user
  BY <1>1, <1>2, <1>3, PresentRows, PlacedRow DEF LInv, IInv
<1>5. Present(row)
  BY <1>4, KeptRows DEF AnyRow
<1>6. order'[p] = row /\ \A q \in Orders \ {p} : order'[q] = order[q]
  BY <1>3, GoodsTables DEF LInv
<1>7. \A q \in Orders : order[q] = Gone => order'[q] = Gone
  BY <1>3, <1>6, AbsentRows
<1>8. CellsExplained' /\ MovementsTraced'
  BY <1>3, <1>7, PapersStay
<1>9. UsersKnown'
  <2>1. \A q \in Orders : Present(order[q]) => Present(order'[q])
    BY <1>5, <1>6
  <2>2. \A r \in Receipts : Present(receipt[r]) => receipt[r].order \in Orders
    BY PresentRows DEF LInv, IInv, ReceiptRow
  <2>3. \A q \in Orders : Present(order'[q]) => order'[q].user \in users
    BY <1>1, <1>3, <1>4, <1>6 DEF LInv, UsersKnown
  <2> QED BY <1>3, <2>1, <2>2, <2>3 DEF LInv, UsersKnown
<1> QED BY <1>8, <1>9 DEF Explained

LEMMA CreateReceiptExplained ==
  ASSUME LInv, NEW r \in Receipts, NEW v \in Vendors, NEW p \in Orders, NEW s \in Stores,
         NEW i \in Items, NEW u \in Users, CreateReceipt(r, v, p, s, i, u)
  PROVE  Explained'
<1>1. PICK row : row = [status |-> "PENDING", vendor |-> v, order |-> p, store |-> s, user |-> u, item |-> i]
  OBVIOUS
<1>2. row.order = p /\ row.user = u
  BY <1>1
<1>3. /\ receipt' = [receipt EXCEPT ![r] = row] /\ receipt[r] = Unused
      /\ Present(order[p]) /\ u \in users
      /\ UNCHANGED <<users, vendor, order, stock, movement>>
  BY <1>1 DEF CreateReceipt, catalogue
<1>4. receipt'[r] = row /\ \A q \in Receipts \ {r} : receipt'[q] = receipt[q]
  BY <1>3, GoodsTables DEF LInv
<1>5. CellsExplained' /\ MovementsTraced'
  BY <1>3, <1>4, PapersStay
<1>6. UsersKnown'
  BY <1>2, <1>3, <1>4 DEF LInv, UsersKnown
<1> QED BY <1>5, <1>6 DEF Explained

LEMMA CommitCancelExplained ==
  ASSUME LInv, NEW c \in Callers, CommitCancel(c)
  PROVE  Explained'
<1>0. PICK p : p = call[c].order
  OBVIOUS
<1>1. UNCHANGED <<users, vendor, stock, movement>>
  BY DEF CommitCancel, catalogue
<1>2. CASE ~Present(order[p])
  BY <1>0, <1>1, <1>2, GoodsStay DEF CommitCancel, goods
<1>3. CASE Present(order[p])
  <2>1. /\ order' = [order EXCEPT ![p] = Gone]
        /\ receipt' = [r \in Receipts |->
             IF Present(receipt[r]) /\ receipt[r].order = p THEN Gone ELSE receipt[r]]
    BY <1>0, <1>3 DEF CommitCancel
  <2>2. \A r \in Receipts : Present(receipt[r]) => receipt[r].order \in Orders
    BY PresentRows DEF LInv, IInv, ReceiptRow
  <2>3. \A q \in Orders : order'[q] = IF q = p THEN Gone ELSE order[q]
    BY <2>1, GoodsTables DEF LInv
  <2>4. CellsExplained' /\ MovementsTraced'
    BY <1>1, <2>1, <2>2, <2>3, PapersStay
  <2>5. UsersKnown'
    <3>1. \A r \in Receipts : Present(receipt'[r]) =>
            receipt'[r] = receipt[r] /\ receipt[r].order # p /\ Present(receipt[r])
      BY <2>1, AbsentRows
    <3>2. \A q \in Orders : Present(order'[q]) => order'[q] = order[q]
      BY <2>3, AbsentRows
    <3>3. \A r \in Receipts : Present(receipt'[r]) =>
            Present(order'[receipt'[r].order]) /\ receipt'[r].user \in users
      BY <2>2, <2>3, <3>1 DEF LInv, UsersKnown
    <3> QED BY <1>1, <3>2, <3>3 DEF LInv, UsersKnown
  <2> QED BY <2>4, <2>5 DEF Explained
<1> QED BY <1>2, <1>3

LEMMA CommitWithdrawExplained ==
  ASSUME LInv, NEW c \in Callers, CommitWithdraw(c)
  PROVE  Explained'
<1>0. PICK r : r = call[c].receipt
  OBVIOUS
<1>1. UNCHANGED <<users, vendor, stock, order, movement>>
  BY DEF CommitWithdraw, catalogue
<1>2. CASE ~Present(receipt[r])
  BY <1>0, <1>1, <1>2, GoodsStay DEF CommitWithdraw, goods
<1>3. CASE Present(receipt[r])
  <2>1. receipt' = [receipt EXCEPT ![r] = Withdrawn]
    BY <1>0, <1>3 DEF CommitWithdraw
  <2>2. \A q \in Receipts : receipt'[q] = IF q = r THEN Withdrawn ELSE receipt[q]
    BY <2>1, GoodsTables DEF LInv
  <2>3. CellsExplained' /\ MovementsTraced'
    BY <1>1, <1>3, <2>2, PapersStay
  <2>4. UsersKnown'
    BY <1>1, <2>2, AbsentRows DEF LInv, UsersKnown
  <2> QED BY <2>3, <2>4 DEF Explained
<1> QED BY <1>2, <1>3

\* The movements that are kept are finitely many.
LEMMA MovedFinite == \A s, i : IsFiniteSet(MovedInto(s, i)) /\ Cardinality(MovedInto(s, i)) \in Nat
BY FiniteAssumption, FS_Subset, FS_CardinalityType DEF MovedInto

\* Receiving goods adds one unit and one movement.
LEMMA ReceiveExplained ==
  ASSUME LInv, NEW r \in Receipts, NEW u \in Users, ReceiveGoods(r, u)
  PROVE  Explained'
<1>a. PICK old \in ReceiptRow, row \in ReceiptRow, moved \in MovementRow, placed \in OrderRow :
        Received(r, u, old, row, moved, placed)
  BY ReceiveWrites DEF LInv
<1>0. /\ old = receipt[r] /\ old.status = "PENDING" /\ old.item \in Items
      /\ row.status = "RECEIVED" /\ row.vendor = old.vendor /\ row.order = old.order
      /\ row.store = old.store /\ row.item = old.item /\ row.user = old.user
      /\ moved.store = old.store /\ moved.item = old.item /\ moved.user = u
      /\ moved.vendor = old.vendor /\ moved.order = old.order /\ moved.creator = old.user
      /\ Present(order[old.order]) /\ placed.user = order[old.order].user
      /\ receipt' = [receipt EXCEPT ![r] = row]
      /\ movement' = [movement EXCEPT ![r] = moved]
      /\ order' = [order EXCEPT ![old.order] = placed]
      /\ stock' = [stock EXCEPT ![<<old.store, old.item>>] = IF @ = None THEN 1 ELSE @ + 1]
  BY <1>a DEF Received
<1>1. /\ stock \in [Stores \X Items -> Nat \cup {None}] /\ order \in [Orders -> Absent \cup OrderRow]
      /\ receipt \in [Receipts -> Absent \cup ReceiptRow]
      /\ movement \in [Receipts -> Absent \cup MovementRow]
  BY GoodsTables DEF LInv
<1>2. PICK s \in Stores : s = old.store
  BY RowShape
<1>3. PICK i \in Items : i = old.item
  BY <1>0
<1>4. users' = users /\ vendor' = vendor /\ u \in users
  BY DEF ReceiveGoods, catalogue
<1>5. moved.store = s /\ moved.item = i
  BY <1>0, <1>2, <1>3
<1>6. Present(old) /\ Present(row) /\ row # Unused /\ Present(moved) /\ Present(placed)
  BY KeptRows DEF AnyRow
<1>7. ~Present(movement[r])
  BY <1>0, <1>6 DEF LInv, MovementsTraced, Traced
<1>8. /\ receipt'[r] = row /\ movement'[r] = moved
      /\ \A q \in Receipts \ {r} : receipt'[q] = receipt[q] /\ movement'[q] = movement[q]
  BY <1>0, <1>1
<1>b. \A p \in Orders : order'[p] = IF p = old.order THEN placed ELSE order[p]
  BY <1>0, <1>1
<1>9. MovementsTraced'
  <2>1. ASSUME NEW q \in Receipts \ {r} PROVE Traced(q)'
    <3>1. Traced(q)
      BY DEF LInv, MovementsTraced
    <3>2. \A p \in Orders : order[p] = Gone => order'[p] = Gone
      BY <1>0, <1>b, AbsentRows
    <3>3. Present(movement[q]) => movement[q].order \in Orders
      BY PresentRows DEF LInv, IInv, MovementRow
    <3> QED BY <1>4, <1>8, <3>1, <3>2, <3>3 DEF Traced
  <2>2. Traced(r)'
    BY <1>0, <1>6, <1>8 DEF Traced
  <2> QED BY <2>1, <2>2 DEF MovementsTraced
<1>c. UsersKnown'
  <2>1. \A p \in Orders : Present(order'[p]) => order'[p].user \in users
    BY <1>0, <1>b DEF LInv, UsersKnown
  <2>2. \A p \in Orders : Present(order[p]) => Present(order'[p])
    BY <1>6, <1>b
  <2>3. \A q \in Receipts : Present(receipt[q]) => receipt[q].order \in Orders
    BY PresentRows DEF LInv, IInv, ReceiptRow
  <2>4. ASSUME NEW q \in Receipts, Present(receipt'[q])
        PROVE  Present(order'[receipt'[q].order]) /\ receipt'[q].user \in users
    <3>1. CASE q = r
      BY <1>0, <1>6, <1>8, <2>2, <2>3, <3>1 DEF LInv, UsersKnown
    <3>2. CASE q # r
      BY <1>8, <2>2, <2>3, <2>4, <3>2 DEF LInv, UsersKnown
    <3> QED BY <3>1, <3>2
  <2>5. ASSUME NEW q \in Receipts, Present(movement'[q]), movement'[q].status = "KEPT"
        PROVE  movement'[q].user \in users
    <3>1. CASE q = r
      BY <1>0, <1>4, <1>8, <3>1
    <3>2. CASE q # r
      BY <1>8, <2>5, <3>2 DEF LInv, UsersKnown
    <3> QED BY <3>1, <3>2
  <2> QED BY <1>4, <2>1, <2>4, <2>5 DEF UsersKnown
<1>10. ASSUME NEW t \in Stores, NEW j \in Items
       PROVE  Held(<<t, j>>)' = Cardinality(MovedInto(t, j)')
  <2>1. Held(<<t, j>>) = Cardinality(MovedInto(t, j))
    BY DEF LInv, CellsExplained
  <2>2. IsFiniteSet(MovedInto(t, j)) /\ Cardinality(MovedInto(t, j)) \in Nat /\ r \notin MovedInto(t, j)
    <3>1. r \notin MovedInto(t, j)
      BY <1>7 DEF MovedInto
    <3> QED BY <3>1, MovedFinite
  <2>3. <<t, j>> \in Stores \X Items /\ <<s, i>> \in Stores \X Items
    OBVIOUS
  <2>4. PICK c \in Stores \X Items : c = <<t, j>>
    BY <2>3
  <2>5. CASE t = s /\ j = i
    <3>1. MovedInto(t, j)' = MovedInto(t, j) \cup {r}
      BY <1>5, <1>6, <1>8, <2>5 DEF MovedInto
    <3>2. Cardinality(MovedInto(t, j)') = Cardinality(MovedInto(t, j)) + 1
      BY <2>2, <3>1, FS_AddElement
    <3>3. stock' = [stock EXCEPT ![c] = IF stock[c] = None THEN 1 ELSE stock[c] + 1]
      BY <1>0, <1>2, <1>3, <2>4, <2>5
    <3>4. stock'[c] = IF stock[c] = None THEN 1 ELSE stock[c] + 1
      BY <1>1, <2>4, <3>3
    <3>5. stock[c] \in Nat \cup {None}
      BY <1>1
    <3>6. stock'[c] # None /\ stock'[c] = Held(c) + 1
      BY <3>4, <3>5, NullAssumption DEF Held
    <3> QED BY <2>1, <2>4, <3>2, <3>6 DEF Held
  <2>6. CASE ~(t = s /\ j = i)
    <3>1. MovedInto(t, j)' = MovedInto(t, j)
      BY <1>5, <1>7, <1>8, <2>6 DEF MovedInto
    <3>2. stock'[<<t, j>>] = stock[<<t, j>>]
      BY <1>0, <1>1, <1>2, <1>3, <2>3, <2>6
    <3> QED BY <2>1, <3>1, <3>2 DEF Held
  <2> QED BY <2>5, <2>6
<1> QED BY <1>9, <1>c, <1>10 DEF CellsExplained, Explained

\* What a deletion leaves of a movement and of its receipt.
SameMovement(new, old) ==
  /\ new.store = old.store /\ new.item = old.item /\ new.user = old.user
  /\ new.vendor = old.vendor /\ new.order = old.order /\ new.creator = old.creator

LEMMA MovementLeft ==
  ASSUME IInv, NEW dead, movement' = MovementsWithout(dead), NEW r \in Receipts
  PROVE  /\ Present(movement'[r]) <=>
              Present(movement[r]) /\ {movement[r].store, movement[r].item} \cap dead = {}
         /\ Present(movement'[r]) =>
              /\ SameMovement(movement'[r], movement[r])
              /\ movement'[r].status = "KEPT" =>
                   movement[r].status = "KEPT" /\ movement[r].user \notin dead
<1>1. PICK old : old = movement[r]
  OBVIOUS
<1>2. movement'[r] = IF Present(old) /\ {old.store, old.item} \cap dead # {} THEN Gone
                     ELSE IF Present(old) /\ old.user \in dead THEN [old EXCEPT !.status = "FORGOTTEN"]
                     ELSE old
  BY <1>1 DEF MovementsWithout
<1>3. Present(old) => old \in MovementRow
  BY <1>1, PresentRows DEF IInv
<1>4. CASE ~Present(old)
  BY <1>1, <1>2, <1>4
<1>5. CASE Present(old) /\ {old.store, old.item} \cap dead # {}
  BY <1>1, <1>2, <1>5, AbsentRows
<1>6. CASE Present(old) /\ {old.store, old.item} \cap dead = {} /\ old.user \in dead
  <2>1. PICK new : new = [old EXCEPT !.status = "FORGOTTEN"]
    OBVIOUS
  <2>2. new \in MovementRow /\ SameMovement(new, old) /\ new.status = "FORGOTTEN"
    BY <1>3, <1>6, <2>1 DEF MovementRow, SameMovement
  <2>3. Present(new)
    BY <2>2, KeptRows DEF AnyRow
  <2>4. movement'[r] = new
    BY <1>2, <1>6, <2>1
  <2> QED BY <1>1, <1>6, <2>2, <2>3, <2>4
<1>7. CASE Present(old) /\ {old.store, old.item} \cap dead = {} /\ old.user \notin dead
  BY <1>1, <1>2, <1>7 DEF SameMovement
<1> QED BY <1>4, <1>5, <1>6, <1>7

SameReceipt(new, old) ==
  /\ new.status = old.status /\ new.vendor = old.vendor /\ new.order = old.order
  /\ new.store = old.store /\ new.user = old.user

LEMMA ReceiptLeft ==
  ASSUME IInv, NEW dead, receipt' = ReceiptsWithout(dead), NEW r \in Receipts
  PROVE  /\ receipt[r] # Unused => receipt'[r] # Unused
         /\ Present(receipt'[r]) =>
              /\ Present(receipt[r]) /\ SameReceipt(receipt'[r], receipt[r])
              /\ {receipt[r].order, receipt[r].user} \cap dead = {}
         /\ Present(receipt[r]) /\ ~Present(receipt'[r]) =>
              {receipt[r].vendor, receipt[r].order, receipt[r].store, receipt[r].user} \cap dead # {}
         /\ ~Present(receipt[r]) => receipt'[r] = receipt[r]
<1>1. PICK old : old = receipt[r]
  OBVIOUS
<1>2. receipt'[r] = IF Present(old) /\ {old.vendor, old.order, old.store, old.user} \cap dead # {} THEN Gone
                    ELSE IF Present(old) /\ old.item \in dead THEN [old EXCEPT !.item = None]
                    ELSE old
  BY <1>1 DEF ReceiptsWithout
<1>3. Present(old) => old \in ReceiptRow
  BY <1>1, PresentRows DEF IInv
<1>4. CASE ~Present(old)
  BY <1>1, <1>2, <1>4
<1>5. CASE Present(old) /\ {old.vendor, old.order, old.store, old.user} \cap dead # {}
  BY <1>1, <1>2, <1>5, AbsentRows
<1>6. CASE Present(old) /\ {old.vendor, old.order, old.store, old.user} \cap dead = {} /\ old.item \in dead
  <2>1. PICK new : new = [old EXCEPT !.item = None]
    OBVIOUS
  <2>2. new \in ReceiptRow /\ SameReceipt(new, old)
    BY <1>3, <1>6, <2>1 DEF ReceiptRow, SameReceipt
  <2>3. Present(new) /\ new # Unused
    BY <2>2, KeptRows DEF AnyRow
  <2>4. receipt'[r] = new
    BY <1>2, <1>6, <2>1
  <2> QED BY <1>1, <1>6, <2>2, <2>3, <2>4
<1>7. CASE Present(old) /\ {old.vendor, old.order, old.store, old.user} \cap dead = {} /\ old.item \notin dead
  BY <1>1, <1>2, <1>7 DEF SameReceipt
<1> QED BY <1>4, <1>5, <1>6, <1>7

\* A deletion takes the stock of a cell and its movements, or neither.
LEMMA RemoveExplained ==
  ASSUME LInv, NEW x, Remove(x)
  PROVE  Explained'
<1>1. PICK dead : dead = Doomed(x)
  OBVIOUS
<1>2. /\ vendor' = Rows(vendor, dead) /\ stock' = StockWithout(dead) /\ order' = Rows(order, dead)
      /\ movement' = MovementsWithout(dead) /\ receipt' = ReceiptsWithout(dead)
      /\ users' = users \ dead
  BY <1>1 DEF Remove, DeleteCatalogue
<1>3. IInv /\ vendor \in [Vendors -> Absent \cup Owned] /\ order \in [Orders -> Absent \cup OrderRow]
  BY DEF LInv, IInv, TypeOK
<1>4. /\ \A v \in Vendors : vendor'[v] = IF v \in dead THEN Gone ELSE vendor[v]
      /\ \A p \in Orders : order'[p] = IF p \in dead THEN Gone ELSE order[p]
  BY <1>2, <1>3 DEF Rows
<1>5. ASSUME NEW r \in Receipts, Present(movement'[r]) PROVE Traced(r)'
  <2>1. PICK m : m = movement[r]
    OBVIOUS
  <2>2. Present(m) /\ m.store \notin dead /\ SameMovement(movement'[r], m)
    BY <1>2, <1>3, <1>5, <2>1, MovementLeft
  <2>3. m.vendor \in Vendors /\ m.order \in Orders
    BY <1>3, <2>1, <2>2, PresentRows DEF IInv, MovementRow
  <2>4. /\ receipt[r] # Unused
        /\ Present(receipt[r]) =>
             /\ receipt[r].status = "RECEIVED" /\ receipt[r].store = m.store
             /\ receipt[r].vendor = m.vendor /\ receipt[r].order = m.order
             /\ receipt[r].user = m.creator
        /\ ~Present(receipt[r]) =>
             \/ receipt[r] = Withdrawn
             \/ vendor[m.vendor] = Gone \/ order[m.order] = Gone \/ m.creator \notin users
    BY <2>1, <2>2 DEF LInv, MovementsTraced, Traced
  <2>5. CASE Present(receipt'[r])
    <3>1. Present(receipt[r]) /\ SameReceipt(receipt'[r], receipt[r])
      BY <1>2, <1>3, <2>5, ReceiptLeft
    <3> QED BY <2>2, <2>4, <2>5, <3>1, AbsentRows DEF Traced, SameReceipt, SameMovement
  <2>6. CASE Present(receipt[r]) /\ ~Present(receipt'[r])
    <3>1. {m.vendor, m.order, m.creator} \cap dead # {}
      BY <1>2, <1>3, <2>2, <2>4, <2>6, ReceiptLeft
    <3>2. vendor'[m.vendor] = Gone \/ order'[m.order] = Gone \/ m.creator \notin users'
      BY <1>2, <1>4, <2>3, <3>1
    <3>3. receipt'[r] # Unused
      BY <1>2, <1>3, <2>4, ReceiptLeft
    <3> QED BY <2>2, <2>6, <3>2, <3>3 DEF Traced, SameMovement
  <2>7. CASE ~Present(receipt[r]) /\ ~Present(receipt'[r])
    <3>1. receipt'[r] = receipt[r]
      BY <1>2, <1>3, <2>7, ReceiptLeft
    <3>2. \/ receipt'[r] = Withdrawn
          \/ vendor'[m.vendor] = Gone \/ order'[m.order] = Gone \/ m.creator \notin users'
      BY <1>2, <1>4, <2>3, <2>4, <2>7, <3>1
    <3> QED BY <2>2, <2>4, <2>7, <3>1, <3>2 DEF Traced, SameMovement
  <2> QED BY <2>5, <2>6, <2>7
<1>7. UsersKnown'
  <2>1. ASSUME NEW p \in Orders, Present(order'[p]) PROVE order'[p].user \in users'
    <3>1. p \notin dead /\ order'[p] = order[p]
      BY <1>4, <2>1, AbsentRows
    <3>2. order[p].user \in users
      BY <2>1, <3>1 DEF LInv, UsersKnown
    <3>3. order[p].user # x
      BY <1>1, <2>1, <3>1 DEF Doomed
    <3>4. order[p].user \notin dead
      <4>1. order[p].user \in Users
        BY <1>3, <2>1, <3>1, PresentRows DEF IInv, OrderRow
      <4>2. \A y \in Users : y \notin Items /\ y \notin Stores /\ y \notin Orders
        BY IdentitiesAssumption
      <4> QED BY <1>1, <3>3, <4>1, <4>2 DEF Doomed
    <3> QED BY <1>2, <3>1, <3>2, <3>4
  <2>2. ASSUME NEW r \in Receipts, Present(receipt'[r])
        PROVE  Present(order'[receipt'[r].order]) /\ receipt'[r].user \in users'
    <3>1. /\ Present(receipt[r]) /\ SameReceipt(receipt'[r], receipt[r])
          /\ {receipt[r].order, receipt[r].user} \cap dead = {}
      BY <1>2, <1>3, <2>2, ReceiptLeft
    <3>2. Present(order[receipt[r].order]) /\ receipt[r].user \in users
      BY <3>1 DEF LInv, UsersKnown
    <3>3. receipt[r].order \in Orders
      BY <1>3, <3>1, PresentRows DEF IInv, ReceiptRow
    <3> QED BY <1>2, <1>4, <3>1, <3>2, <3>3 DEF SameReceipt
  <2>3. ASSUME NEW r \in Receipts, Present(movement'[r]), movement'[r].status = "KEPT"
        PROVE  movement'[r].user \in users'
    <3>1. /\ Present(movement[r]) /\ movement[r].status = "KEPT" /\ movement[r].user \notin dead
          /\ movement'[r].user = movement[r].user
      BY <1>2, <1>3, <2>3, MovementLeft DEF SameMovement
    <3> QED BY <1>2, <3>1 DEF LInv, UsersKnown
  <2> QED BY <2>1, <2>2, <2>3 DEF UsersKnown
<1>6. ASSUME NEW s \in Stores, NEW i \in Items
      PROVE  Held(<<s, i>>)' = Cardinality(MovedInto(s, i)')
  <2>1. \A r \in Receipts :
          r \in MovedInto(s, i)' <=> r \in MovedInto(s, i) /\ {s, i} \cap dead = {}
    BY <1>2, <1>3, MovementLeft DEF MovedInto, SameMovement
  <2>2. stock'[<<s, i>>] = IF {s, i} \cap dead # {} THEN None ELSE stock[<<s, i>>]
    BY <1>2 DEF StockWithout
  <2>3. MovedInto(s, i) \subseteq Receipts /\ MovedInto(s, i)' \subseteq Receipts
    BY DEF MovedInto
  <2>4. CASE {s, i} \cap dead # {}
    <3>1. MovedInto(s, i)' = {}
      BY <2>1, <2>3, <2>4
    <3>2. Held(<<s, i>>)' = 0
      BY <2>2, <2>4 DEF Held
    <3> QED BY <3>1, <3>2, FS_EmptySet
  <2>5. CASE {s, i} \cap dead = {}
    <3>1. MovedInto(s, i)' = MovedInto(s, i)
      BY <2>1, <2>3, <2>5
    <3>2. Held(<<s, i>>)' = Held(<<s, i>>)
      BY <2>2, <2>5 DEF Held
    <3> QED BY <3>1, <3>2 DEF LInv, CellsExplained
  <2> QED BY <2>4, <2>5
<1>8. MovementsTraced'
  BY <1>5 DEF MovementsTraced, Traced
<1> QED BY <1>6, <1>7, <1>8 DEF CellsExplained, Explained

\* Nobody but receipts and deletions moves goods.
LEMMA LedgerStep == LInv /\ [Next]_vars => LInv'
<1> SUFFICES ASSUME LInv, [Next]_vars PROVE LInv'
  OBVIOUS
<1>1. IInv' /\ vendor \in [Vendors -> Absent \cup Owned]
  BY IInvStep DEF LInv, IInv, TypeOK
<1>2. ASSUME UNCHANGED <<users, goods>>,
             vendor' = vendor \/ \E v \in Vendors, o \in Organizations : CreateVendor(v, o)
      PROVE  LInv'
  BY <1>1, <1>2, GoodsStay, VendorsStayGone DEF LInv, Explained
<1>3. ASSUME NEW c \in Callers, Requests(c) PROVE LInv'
  <2>1. CASE CommitCancel(c)
    BY <1>1, <2>1, CommitCancelExplained DEF LInv, Explained
  <2>2. CASE CommitWithdraw(c)
    BY <1>1, <2>2, CommitWithdrawExplained DEF LInv, Explained
  <2>3. CASE ~CommitCancel(c) /\ ~CommitWithdraw(c)
    <3>1. UNCHANGED <<users, goods, vendor>>
      BY <1>3, <2>3 DEF Requests, BeginItem, BeginStore, BeginCard, InsertStore, BeginMoveStore,
         InsertItem, InsertCard, CommitMoveStore, BeginCancel, BeginWithdraw, tables, catalogue
    <3> QED BY <1>2, <3>1
  <2> QED BY <2>1, <2>2, <2>3
<1>4. CASE \E o \in Organizations :
             \/ \E k \in Categories : CreateCategory(k, o)
             \/ \E v \in Vendors : CreateVendor(v, o)
             \/ \E g \in Groups, k \in Categories \cup {None} : CreateGroup(g, o, k)
  <2>1. UNCHANGED <<users, goods>> /\ (vendor' = vendor \/ \E v \in Vendors, o \in Organizations : CreateVendor(v, o))
    BY <1>4 DEF CreateCategory, CreateVendor, CreateGroup
  <2> QED BY <1>2, <2>1
<1>5. CASE \E g \in Groups, k \in Categories \cup {None} : UpdateGroup(g, k)
  BY <1>2, <1>5 DEF UpdateGroup
<1>6. CASE \E i \in Items, k \in Categories, g \in Groups, v \in Vendors \cup {None} :
             UpdateItem(i, k, g, v)
  BY <1>2, <1>6 DEF UpdateItem
<1>7. CASE \E d \in Cards :
             DeleteCard(d) \/ \E status \in {"ISSUED", "RETURNED"} : UpdateCard(d, status)
  BY <1>2, <1>7 DEF DeleteCard, UpdateCard, catalogue
<1>8. CASE \/ \E p \in Orders :
                PlaceOrder(p) \/ \E o \in Organizations, u \in Users : CreateOrder(p, o, u)
           \/ \E r \in Receipts, u \in Users :
                \/ ReceiveGoods(r, u)
                \/ \E v \in Vendors, p \in Orders, s \in Stores, i \in Items :
                     CreateReceipt(r, v, p, s, i, u)
  <2>1. Explained'
    BY <1>8, PlaceOrderExplained, CreateOrderExplained, ReceiveExplained, CreateReceiptExplained
  <2> QED BY <1>1, <2>1 DEF LInv, Explained
<1>9. CASE \E x \in UNION {Offices, Users, Categories, Groups, Vendors, Items, Stores} : Remove(x)
  BY <1>1, <1>9, RemoveExplained DEF LInv, Explained
<1>10. CASE UNCHANGED vars
  BY <1>2, <1>10 DEF vars, tables, catalogue
<1> QED BY <1>2, <1>3, <1>4, <1>5, <1>6, <1>7, <1>8, <1>9, <1>10 DEF Next
-----------------------------------------------------------------------------
(* The stock of an item over all stores.                                     *)

\* The element that the sum over s takes out first.
One(s) == CHOOSE x \in s : TRUE

\* It is one of them.
LEMMA OneIsIn == ASSUME NEW s, s # {} PROVE One(s) \in s
BY DEF One

\* A set of subsets of D that has the empty one, and each that it has without
\* the element taken out first, has all.
LEMMA AllSubsets ==
  ASSUME NEW D, IsFiniteSet(D), NEW T, {} \in T,
         \A s \in SUBSET D : s # {} /\ s \ {One(s)} \in T => s \in T
  PROVE  SUBSET D \subseteq T
<1> DEFINE Bad == {s \in SUBSET D : s \notin T}
<1> SUFFICES ASSUME Bad # {} PROVE FALSE
  OBVIOUS
<1>1. Bad \subseteq FiniteSubsetsOf(D)
  BY FS_Subset DEF FiniteSubsetsOf
<1>2. PICK m \in Bad : \A k \in Bad : ~ (<<k, m>> \in StrictSubsetOrdering(D))
  BY <1>1, FS_StrictSubsetOrderingWellFounded, WFMin
<1>3. m # {} /\ m \in SUBSET D
  BY <1>2
<1>4. m \ {One(m)} \in T
  BY <1>2, <1>3, OneIsIn DEF StrictSubsetOrdering
<1> QED
  BY <1>2, <1>3, <1>4

\* F sums the stock of item i up over the subsets of the stores.
StockSums(F, i) ==
  F = [s \in SUBSET Stores |-> IF s = {} THEN 0 ELSE Held(<<One(s), i>>) + F[s \ {One(s)}]]

\* The sum of the library is the value of the function that sums up.
LEMMA TotalIsChosen ==
  ASSUME NEW i PROVE TotalStockOnHand(i) = (CHOOSE F : StockSums(F, i))[Stores]
BY DEF TotalStockOnHand, MapThenSumSet, MapThenFoldSet, StockSums, Held, One

\* The movements of an item into some stores.
MovedIntoAny(S, i) ==
  {r \in Receipts : Present(movement[r]) /\ movement[r].store \in S /\ movement[r].item = i}

\* Counting the movements sums the stock up, so the total is their number: the
\* stores are disjoint.
LEMMA TotalIsMoved ==
  ASSUME CellsExplained, NEW i \in Items
  PROVE  TotalStockOnHand(i) = Cardinality(MovedIntoAny(Stores, i))
<1> DEFINE G == [S \in SUBSET Stores |-> Cardinality(MovedIntoAny(S, i))]
           F == CHOOSE H : StockSums(H, i)
<1>1. \A S : IsFiniteSet(MovedIntoAny(S, i))
  BY FiniteAssumption, FS_Subset DEF MovedIntoAny
<1>2. ASSUME NEW S \in SUBSET Stores, S # {}
      PROVE  /\ Cardinality(MovedIntoAny(S, i)) =
                  Held(<<One(S), i>>) + Cardinality(MovedIntoAny(S \ {One(S)}, i))
  <2>1. PICK s \in S : s = One(S)
    BY <1>2 DEF One
  <2>2. /\ MovedIntoAny(S, i) = MovedInto(s, i) \cup MovedIntoAny(S \ {s}, i)
        /\ MovedInto(s, i) \cap MovedIntoAny(S \ {s}, i) = {}
    BY DEF MovedInto, MovedIntoAny
  <2>3. /\ IsFiniteSet(MovedInto(s, i)) /\ Cardinality(MovedInto(s, i)) \in Nat
        /\ IsFiniteSet(MovedIntoAny(S \ {s}, i))
    BY <1>1, MovedFinite
  <2>4. Cardinality(MovedIntoAny(S \ {s}, i)) \in Nat
    BY <2>3, FS_CardinalityType
  <2>5. /\ Cardinality(MovedInto(s, i) \cup MovedIntoAny(S \ {s}, i)) =
             Cardinality(MovedInto(s, i)) + Cardinality(MovedIntoAny(S \ {s}, i))
               - Cardinality(MovedInto(s, i) \cap MovedIntoAny(S \ {s}, i))
    BY <2>3, FS_Union
  <2>6. Cardinality(MovedInto(s, i) \cap MovedIntoAny(S \ {s}, i)) = 0
    BY <2>2, FS_EmptySet
  <2>7. Cardinality(MovedIntoAny(S, i)) =
          Cardinality(MovedInto(s, i)) + Cardinality(MovedIntoAny(S \ {s}, i))
    BY <2>2, <2>3, <2>4, <2>5, <2>6
  <2>8. Held(<<s, i>>) = Cardinality(MovedInto(s, i))
    BY <2>1 DEF CellsExplained
  <2> QED BY <2>1, <2>7, <2>8
<1>3. MovedIntoAny({}, i) = {} /\ Cardinality({}) = 0
  BY FS_EmptySet DEF MovedIntoAny
<1>4. StockSums(G, i)
  <2>1. ASSUME NEW S \in SUBSET Stores
        PROVE  G[S] = IF S = {} THEN 0 ELSE Held(<<One(S), i>>) + G[S \ {One(S)}]
    BY <1>2, <1>3
  <2>2. G = [S \in SUBSET Stores |-> G[S]]
    OBVIOUS
  <2> HIDE DEF G
  <2>3. G = [S \in SUBSET Stores |-> IF S = {} THEN 0 ELSE Held(<<One(S), i>>) + G[S \ {One(S)}]]
    BY <2>1, <2>2
  <2> QED BY <2>3 DEF StockSums
<1>5. StockSums(F, i)
  <2> HIDE DEF G
  <2> QED BY <1>4
<1>6. TotalStockOnHand(i) = F[Stores]
  BY TotalIsChosen
<1>7. \A S \in SUBSET Stores : G[S] = Cardinality(MovedIntoAny(S, i))
  OBVIOUS
<1> HIDE DEF F, G
<1>8. /\ F[{}] = 0 /\ G[{}] = 0
      /\ \A S \in SUBSET Stores : S # {} =>
           /\ F[S] = Held(<<One(S), i>>) + F[S \ {One(S)}]
           /\ G[S] = Held(<<One(S), i>>) + G[S \ {One(S)}]
  BY <1>4, <1>5 DEF StockSums
<1> DEFINE T == {S \in SUBSET Stores : F[S] = G[S]}
<1>9. {} \in T
  BY <1>8
<1>10. \A S \in SUBSET Stores : S # {} /\ S \ {One(S)} \in T => S \in T
  BY <1>8
<1>11. \A S \in T : F[S] = G[S]
  OBVIOUS
<1> HIDE DEF T
<1>12. SUBSET Stores \subseteq T
  BY <1>9, <1>10, FiniteAssumption, AllSubsets
<1>13. F[Stores] = G[Stores]
  BY <1>11, <1>12
<1> QED BY <1>6, <1>7, <1>13

\* Each store holds what its movements say, and movements are traced.
THEOREM LedgerInvariant == Spec => []LInv
<1>1. Init => LInv
  <2> SUFFICES ASSUME Init PROVE LInv
    OBVIOUS
  <2>1. /\ \A r \in Receipts : ~Present(movement[r]) /\ ~Present(receipt[r])
        /\ \A p \in Orders : ~Present(order[p])
    BY AbsentRows DEF Init
  <2>2. ASSUME NEW s \in Stores, NEW i \in Items
        PROVE  Held(<<s, i>>) = Cardinality(MovedInto(s, i))
    <3>1. stock[<<s, i>>] = None
      BY DEF Init
    <3>2. MovedInto(s, i) = {}
      BY <2>1 DEF MovedInto
    <3> QED BY <3>1, <3>2, FS_EmptySet DEF Held
  <2> QED BY <2>1, <2>2, InitIInv DEF LInv, CellsExplained, MovementsTraced, Traced, UsersKnown
<1> QED BY <1>1, LedgerStep, PTL DEF Spec

\* A movement is of a cell that is not empty, so its store and item are there.
LEMMA CellsAreThere ==
  ASSUME LInv, NEW r \in Receipts, Present(movement[r])
  PROVE  Present(store[movement[r].store]) /\ Present(item[movement[r].item])
<1>1. PICK s \in Stores : s = movement[r].store
  BY PresentRows DEF LInv, IInv, MovementRow
<1>2. PICK i \in Items : i = movement[r].item
  BY PresentRows DEF LInv, IInv, MovementRow
<1>3. r \in MovedInto(s, i)
  BY <1>1, <1>2 DEF MovedInto
<1>4. Cardinality(MovedInto(s, i)) # 0
  BY <1>3, MovedFinite, FS_EmptySet
<1>5. stock[<<s, i>>] # None
  BY <1>4 DEF LInv, CellsExplained, Held
<1> QED BY <1>1, <1>2, <1>5 DEF LInv, IInv, Fine

\* What the schema promises: columns in their ranges and no reference that
\* dangles, whichever rows are deleted between the lookups of create, update and
\* remove in the services of the catalogue and their writes.
THEOREM SchemaStaysKept == Spec => []SchemaKept
<1>1. ASSUME LInv PROVE SchemaKept
  <2>1. IInv /\ UsersKnown /\ TypeOK
    BY <1>1 DEF LInv, IInv
  <2>2. \A r \in Receipts : Present(movement[r]) =>
          Present(store[movement[r].store]) /\ Present(item[movement[r].item])
    BY <1>1, CellsAreThere
  <2>3. ReferencesExist
    BY <2>1, <2>2, PresentRows, RowShape DEF IInv, Fine, GroupFine, ItemFine, StoreFine, CardFine,
       ReceiptFine, BelongsTo, UsersKnown, ReferencesExist, Filed, Referable
  <2> QED BY <2>1, <2>3 DEF SchemaKept
<1>2. LInv => SchemaKept
  BY <1>1
<1> QED BY <1>2, LedgerInvariant, PTL

\* The stock of an item over all stores is the number of its movements, and a
\* movement without its receipt has lost it to a request that had found it
\* pending, or to the deletion of its vendor, its order or its creator.
THEOREM LedgerStaysExplained == Spec => []LedgerExplained
<1>1. ASSUME LInv, NEW i \in Items
      PROVE  TotalStockOnHand(i) =
               Cardinality({r \in Receipts : Present(movement[r]) /\ movement[r].item = i})
  <2>1. \A r \in Receipts : Present(movement[r]) => movement[r].store \in Stores
    BY <1>1, PresentRows DEF LInv, IInv, MovementRow
  <2>2. MovedIntoAny(Stores, i) = {r \in Receipts : Present(movement[r]) /\ movement[r].item = i}
    BY <2>1 DEF MovedIntoAny
  <2> QED BY <1>1, <2>2, TotalIsMoved DEF LInv
<1>2. LInv => LedgerExplained
  BY <1>1 DEF LInv, MovementsTraced, Traced, LedgerExplained
<1> QED BY <1>2, LedgerInvariant, PTL
=============================================================================
