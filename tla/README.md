# Verification of the guard management backend

This directory holds TLA+ models of the backend in `src/`, the configurations
that check them with TLC, and theorems about them that TLAPS checks. The backend
is a NestJS server over one PostgreSQL database, reached through Prisma. It
manages security companies (organizations): their guards and where these are
deployed, attendance and payroll, and an inventory from purchase request to the
uniform on a guard's back.

Nothing in the server is shared between requests except the database. Several
requests are worked on at a time (each `await` lets another handler run, and
there may be several server processes), most handlers read rows, check them in
JavaScript and write by primary key in a later statement, and only some wrap
their writes in `prisma.$transaction`, at PostgreSQL's default isolation level
READ COMMITTED. No handler locks a row on purpose or repeats its check in the
`where` of its write. That shape is what the models are about.

Contents: [the system](#the-system), [the modules](#the-modules), [the
runs](#the-runs), [what the code does not keep](#what-the-code-does-not-keep),
[the proofs](#the-proofs), [abstractions](#abstractions-and-bounds), [not
modelled](#not-modelled), [the plan](#the-plan).

## The system

Each component is listed with the state it keeps, its operations, its hard
behaviours and what makes it correct. `PROJECT.json` says which are modelled.

### Stock ledger: `inventory/{inventory,stock-transfers,issuances,returns}`

- **State**: `Inventory`, one row per store and item with `quantityOnHand`,
  `quantityReserved` and the redundant `quantityAvailable`; `StockMovement`, an
  audit trail that is only appended to; `StockTransfer`, `IssuanceRegister` and
  `ReturnRegister` with their item lines.
- **Operations**: create and delete a row; create, update, delete, submit,
  cancel and receive a transfer; create, update and delete an issuance; create
  and delete a return; and the stock half of a goods receipt.
- **Interaction**: four services write the same rows, each in its own way: two
  recompute `quantityAvailable`, two increment it. Goods receipts create rows,
  transfers create the destination's row, and anybody may delete a row.
- **Hard**: checks look at different columns (a transfer at on hand, an issuance
  at on hand minus reserved, a return at reserved); deletes leave movements and
  reservations behind; an update of a transfer deletes and inserts its lines in
  two statements; a transfer may have one store as both ends; quantities are
  integers, and no DTO asks for natural ones.
- **Correct when** the three columns agree, neither on hand nor reserved is
  negative where no negative quantity was booked, movements explain rows,
  transfers conserve goods, and over all stores stock appears and leaves only as
  an abstract pool allows.

### Procurement: `inventory/{purchase-requests,purchase-orders,grn}`

- **State**: `PurchaseRequest`, `PurchaseOrder`, `PurchaseOrderItem`
  (`quantityOrdered`, `quantityReceived`), `Grn`, `GrnItem`.
- **Operations**: a request is created, updated, submitted, approved, rejected,
  cancelled and deleted; an order is created (alone or from an approved
  request), updated, submitted, given a status, deleted; a receipt is created,
  inspected, deleted, and its goods are received.
- **Interaction**: receiving goods writes the receipt, the order's items, the
  order's status and the stock; foreign keys cascade from orders to items and
  receipts, and from a deleted item or request a reference is set to null.
- **Hard**: every handler checks what it read earlier; `receiveGoods` reads
  before its transaction, writes sums it computed from that, and decides the
  order's status from rows that concurrent transactions are writing; each line of
  a receipt and each entry of a request to receive is checked alone, so that two
  of them may be about one order item or one receipt item, and be negative.
- **Correct when** no item receives more than was ordered, references stay
  intact, items, receipts and stock agree, and the status machines are kept.

### Inventory cards and catalogue: `inventory/{inventory-cards,stores,vendors,items,groups,categories,stock-movements}`

- **State**: categories, groups, vendors, items, stores and cards, each of an
  organization, the latter three with references to the others.
- **Operations**: create, update, delete each; issue and return a card; reports
  over movements.
- **Hard**: creation looks rows up and inserts later; a delete cascades along
  foreign keys of several kinds through stock, movements, orders, receipts and
  cards; orders and receipts are deleted after a look at their status.
- **Correct when** no reference dangles, rows of two organizations do not mix,
  and no delete removes what explains the stock without the stock.

### Payroll and attendance: `payroll`, `attendance`, `accounts`

- **State**: `GuardsAttendance` per guard, location and day, without a unique
  key; `LocationPayRollDuration`, an attendance lock of a location with start,
  end and `isFinalLocked`; `GuardAllowances` of a lock; deductions.
- **Operations**: single and batch attendance, overtime, deletion; lock, change,
  delete and list attendance locks; create, update and delete allowances; the
  final lock; computation of net pay, of the attendance and allowance pages and
  of the bank transfer list.
- **Hard**: attendance is checked and created in two statements, a batch in
  parallel; locks are checked for overlap and created in two statements, and
  moved without a check; completeness compares numbers of records and of days;
  the final lock counts allowances, then writes; nobody asks for a lock before
  changing attendance or allowances; four handlers compute salaries apart, each
  with a selection of guards of its own.
- **Correct when** duplicates and overlaps come from races only, nobody is paid
  more than their salary and their overtime, all pages tell the same amount, and
  the bank pays those who are on the payroll of some office, each once.

### Guards, employees, locations: `guard`, `employee`, `location`, `guard-category`, `file`

- **State**: `Guard` and `Employee` files with the rows that hang on them,
  `Location` with its `RequestedGuard` posts, `AssignedGuard` and
  `AssignedSupervisor` rows with dates that end them.
- **Operations**: create (single, bulk, from CSV), update, delete a file; assign
  a guard to a post; promote a guard to supervisor; assign a supervisor, change
  or end it; locations and categories with their posts.
- **Hard**: `assignGuard` counts, ends another assignment and creates one, in
  separate statements; promotion gives the role, if it finds one of the name,
  before it validates the rest, and may create an employee record for a guard,
  which only the unique service number and CNIC keep from being a second; a
  location's update replaces its posts; deleting one takes four statements; an
  update of a file takes up to nine, any of which may throw; service numbers are
  the greatest plus one, read in a statement before.
- **Correct when** a post is filled beyond its quantity by races only, nothing
  dangles, a supervisor sees the locations of their postings, numbers are
  unique, an update that says it succeeded is in the file.

### Users, clients, organizations: `user`, `auth`, `role`, `client`, `organization`

User accounts are made for employees and guards by service number, for clients
and for the first user of an organization; login puts organization, role and
client into a token that nothing looks up again. **Hard**: look-up and creation
in several statements, accounts as links between tables, old tokens. **Correct
when** an account serves one person or client, and neither memberships nor
tokens leave the organization.

### Fingerprint capture: `biometric`

The server calls an agent beside a reader with a time limit, repeats the call
with a growing pause, stores images in a bucket, and keeps where each user's
agent listens. **Hard**: an answer after the time limit, a repeated capture while
the agent is still busy, a silent agent. **Correct when** every request ends,
with the answer to its own last call.

### HTTP layer: `main.ts`, `common`

Controllers, guards, pipes, filters. They keep no state. The models take
requests that passed validation.

## The modules

| module | models | checked by | proved in |
|---|---|---|---|
| `StockRows` | rows of the inventory and what a line of a document does to one | with `StockLedger` | |
| `StockLedger` | inventory, movements, transfers, issuances, returns | `MCStockLedger` | `StockLedger_proofs` |
| `StockPool` | abstract: what the organization owns and guards hold, over all stores | refined by `StockLedger` | `StockLedger_proofs` |
| `Procurement` | purchase requests, orders, receipts | `MCProcurement` | `Procurement_proofs` |
| `Catalogue` | reference data, cards, and what a deletion takes along | `MCCatalogue` | `Catalogue_proofs` |
| `Deployment` | locations, posts, assignments of guards | `MCDeployment` | `Deployment_proofs` |
| `Supervision` | accounts of guards and employees, promotion, supervisors | `MCSupervision` | `Supervision_proofs` |
| `PersonnelFiles` | files of guards and employees: create, upload, import, update | `MCPersonnelFiles` | `FingerprintCapture_proofs` |
| `Accounts` | organizations, offices, users, clients, tokens | `MCAccounts` | `Accounts_proofs` |
| `Payroll` | attendance, locks, allowances, salaries | `MCPayroll` | `Payroll_proofs` |
| `FingerprintCapture` | requests to the agent, saved images, agent configurations | `MCFingerprintCapture` | `FingerprintCapture_proofs` |

All modules have one shape. A variable is a table: a function from identities to
rows, where a row was not inserted yet (`Unused`), is there, or was deleted
(`Gone`); identities (UUIDs) are not used again. `call[c]` is what request `c`
has read so far. A handler that does everything in one transaction, or in one
statement, is one action; any other handler is a `Begin` action for its look-ups
and an action for every later statement that reads or writes what another
request may change. A statement that throws (a unique or a foreign key, a row
that is gone) ends the request and undoes nothing but its transaction. Foreign
keys are guards of inserts and cascades of deletes, as `schema.prisma` has them.

**StockLedger.** `inventory`, `movement`, `transfer`, `issuance` and `returned`
are the tables (`movement` summed up per cell and type), `posted` the receipts
whose goods are in stock. Two history variables say where less is promised:
`purged`, the cells whose row a request deleted, and `misbooked`, the cells a
negative quantity was booked on (the DTOs of issuances, returns and transfers
say `@IsInt()` and nothing else); `StockPool` calls it `spoilt`, and promises
nothing any more from its step `Spoil` on. `PutIn`, `TakeOut`, `Reserve` and
`Release` of `StockRows` are the four ways the services write a row, with the
columns each one recomputes or increments. Each action is a whole handler: the
handlers that write stock do so in one transaction, so a thrown exception undoes
it all and its checks are guards. The exception is the update of a transfer, two
statements of which the second can fail (`UpdateTransferFails`). How statements
of two stock transactions interleave is not part of this module, nor is the
deletion of a user, which takes the movements along that the user made
(`Catalogue`).

**Procurement.** `request`, `order`, `line` and `receipt` are the tables,
`posted` the history of what was put into stock for each receipt and item
(`stock`), and whether all requests that did it were `regular`. A request to
receive goods is a sequence of `entries`, which may name an item twice and accept
negative quantities, as `receive-grn.dto.ts` lets them; two items of a receipt may
name one order item (`FitsOrder` compares each alone). The handler looks at the
entries in three ways, and so does the model: the receipt's status is computed
from the first entry for an item (`First`, `grn.service.ts:773-786`), the columns
of receipt items and order items are written for each entry, so that the last one
stays (`Last`, 744-770), and every positive entry adds to the stock (`PutIn`).
Updating an order deletes and inserts items in two statements
(`DeleteOldLines`, `CommitUpdateOrder`). Receiving goods has three steps:
`BeginReceive` reads before the transaction, `ExecuteReceive` stands for its
statements up to its last read, whose writes are locked and unseen, and
`CommitReceive` makes them visible. Row locks are modelled where a later step
relies on them: writes and deletes of rows a transaction has written wait
(`Unlocked`, the guards of `CommitRemoveOrder` and `CommitRemoveReceipt`).
`Fail` is a handler that throws after its checks.

**Catalogue.** Creation of items, stores and cards as look-up and insert, the
move of a store, updates that file an item anywhere, and `Remove(x)`, one action
for the deletion of any row: `Doomed` is the first wave of the cascade (items,
stores, and the orders a user made), and `StockWithout`, `MovementsWithout`,
`ReceiptsWithout` and `CardsWithout` what it takes of the rest. Orders and
receipts are kept for what takes them along: `CreateOrder`, `PlaceOrder` (any way
out of `DRAFT`), `CreateReceipt` by one user and `ReceiveGoods` by another, one
unit of one item. The receipt names its creator (`grn.service.ts:154`), the
movement whoever received (683). A draft order is deleted in two steps
(`BeginCancel`, `CommitCancel`), and so is a pending receipt (`BeginWithdraw`,
`CommitWithdraw`): what was read may be stale, and goods may have come in. A
movement that goes with the user who moved the goods stays in `movement` as
`FORGOTTEN`, and keeps the vendor, the order and the creator of its receipt, as
history.

**Deployment.** `assignGuard` is `BeginAssign` (look-ups and the count),
`FindExisting`, `EndExisting` and `InsertAssigned` or `InsertFails`. Removing a
location is `BeginRemoveLocation` (finances), `RemovePosts`,
`CommitRemoveLocation`; updating one with posts is `ReplacePosts`.

**Supervision.** `promoteGuardToSupervisor`, `assignSupervisor`,
`updateAssignedSupervisor` and `createServiceNumberUser` as programs over
`call[c].op`; the goal of a call says which handler it is in, as they share
`getOrCreateEmployeeForGuard`. `role` is the table of roles, which requests
create, rename and remove; `FindRole` takes any role by the name of supervisor
and goes on without one where there is none (`guard.service.ts:1362`), `ReadRole`
asks whether the account has it, `GrantRole` gives it. Service number and CNIC
(`card`) are written by one statement, `UpdateGuard` or `UpdateEmployee`; the
histories `renumbered` and `recarded` are the users whose person got another of
either. `LocationFilters` is what the office filter lets a supervisor see.

**PersonnelFiles.** An update is the set of statements it has left (`todo`),
known by their places in the `Order` of the code; the first of them runs next
(`RunStatement`). Any of them may fail, also when it finds what it is to change:
a column refuses a value the DTO let pass (`serviceYears` of 1.5), or the
database fails. A `createMany` that throws after its `deleteMany` leaves the list
empty (`guard.service.ts:964-971`). History variables are `due`, what the updates
that succeeded supplied, `torn`, who had one fail or overlap, and `lost`, the
lists of guards whose insert failed and has not succeeded since. Insertions of
creates, uploads and imports may fail in the same way (`Refused`). `report` is the
answer of an upload or an import that just ended (`Imported` for an import, whose
rows are statements of their own).

**Accounts.** Registration and creation of users as look-up and transaction,
login as one step that puts what it reads into a token, tokens that stay until
they expire or the user logs in again, deletions with the cascade through the
administrator to the organization.

**Payroll.** Recording attendance, locking a period and the final lock as steps;
an entry of a batch is a request of its own, as `Promise.all` runs them side by
side. `office` is the office of each guard, which `MoveGuard` changes: the net
payroll is that of one office or of the guards without one (`OnPayroll(l, f)`,
`payroll.service.ts:884-886`), the bank list that of a location
(`Transferred(l)`, 1170). The organization in either filter selects nothing
more, because `assignGuard` takes guard and location from one organization
(`guard.service.ts:1014-1055`). What the pages show is computed by operators
from the tables: `OnPayroll`, `DaysPresent`, `NetPayable`, `DaysShown`,
`AllowancesShown`, `Transferred`, `TransferAmount`, each from its own handler,
in whole numbers scaled by the length of the period, because the code divides
first.

**FingerprintCapture.** A request asks (`ASK`), pauses (`SLEEP`), or has ended.
The agent is external: it takes messages off `wire`, scans, answers to
`answers`, may go down, lose its reader, refuse while busy or never answer. The
server can take the answer to the attempt it is waiting for, a network error or
its time limit. Limits are kept in halves, because `maxRetries` comes from the
request as any number.

## The runs

| run | asks | size |
|---|---|---|
| `StockLedger` | are rows consistent with themselves and with movements, never negative, oversold only by transfers; does the ledger implement the pool | 2 stores, 1 item, 2 issuances, 1 transfer, 1 return, 1 receipt, quantities -1, 1, 2 |
| `Procurement` | one handler at a time: do items, receipts and stock agree, does a receipt settle its order, also with repeated entries, negative acceptances or an item of quantity zero | 1 request, 1 order, 2 order items, 2 receipts of 2 items, quantities 0, 2, portions -1, 1, 2, 2 entries |
| `ConcurrentReceipts` | two handlers at a time: nothing over-received, references intact | 1 order, 1 order item, 2 receipts of 1 item, quantity 1, portions -1, 1, 2 entries |
| `Deployment` | do assignments follow the cascades, how far is a post overfilled, whose deployment ends | 2 locations, 2 posts, 2 guards, 3 assignments, 2 requests |
| `Supervision` | one person per account, does a supervisor see the posting, who has the role | 1 guard, 2 employees, 1 user, 2 roles, 1 location, 1 posting, 2 service numbers, 2 CNICs, 2 requests |
| `Accounts` | do accounts, memberships, clients and tokens stay at home | 3 users, 2 organizations, 1 office, 1 client, 2 requests |
| `Payroll` | duplicates and overlaps by races only, pay within the salary, pages agree | 1 guard, 1 location, 1 office or none, 2 days, 2 records, 2 locks, 1 allowance, 1 deduction, 2 requests |
| `FingerprintCapture` | is every request answered, by its own last attempt; when is it told busy; which image stays | 2 requests, limits 1 and 2.5, 2 instants |
| `Catalogue` | does nothing dangle, do tenants stay apart, is the stock explained | 2 organizations, 2 offices, 2 users, 1 of each other kind, 2 receipts, 2 requests |
| `PersonnelFiles` | numbers unique, updates whole, history kept, uploads truthful | 2 persons, 2 numbers, 2 updates, 2 requests |
| `DoubleReceipt` | "Validate: accepted + rejected <= received": no more in stock than the receipt brings, violated | 1 order, 1 receipt, 1 entry, 2 handlers |
| `MovementReport` | inbound less outbound is what is there, violated | 2 stores, 1 transfer, quantities 1, 2 |

Each passing property has a mutant in `PROJECT.json`: an operator beside the
original (`Mutant of ...`) that makes a plausible mistake, and with which the
run finds the property violated. `SchemaKept` (`FileSchemaKept` in
`PersonnelFiles`) is the type invariant of a module with the unique and foreign
keys that concern it.

*Bounds.* Constants bound the number of identities; behaviours are bounded by
constraints of the `MC` modules, each with a comment that says what it leaves:

| run | constraints |
|---|---|
| `StockLedger` | `FewDocuments`: four documents, and beside two issuances one more that is no return; `FewNegatives`: three documents when one of them has a negative line |
| `Procurement` | `FewZeros`: one order item of quantity zero, with one receipt, and none in a receipt; `DecidedFirst`: requests are decided before there are receipts; `OneItemTwice`: two receipts bring one item between them, one receipt any items |
| `Supervision` | `FewTroubles`: one deletion, or one change of a person's columns, or roles that are other than one supervisor and one other; `OneOfAKind`: of two requests one at most is an assignment, with these roles only, and one makes an account; `FewPersons`: guards and employees are two between them |
| `Accounts` | `FewRemovals`: one deletion; `FewTokens`: one user with a token; `FewPairs`: a registration or login crosses no other request, and of two that create users one makes a client's account |
| `Payroll` | `FewChanges`: one row deleted, rewritten or marked overtime; `FewRows`: three rows in all tables together |
| `Catalogue` | `FewRemovals`: one deletion of an office, category, group, vendor or user; items, stores, orders and receipts are not counted; `OneRequestWithOrders`: once there are orders, one request is between its steps |
| `PersonnelFiles` | `FewRows`: files of two rows for different persons, of one row once there are updates, one upload or import at a time; `OnePerson`: two updates are of one person; `OneTable`: guards or employees |

A deletion counts once, with its cascade. `MaxEditions` bounds updates of a
file, `MaxNumber` service numbers, and `MaxNow` instants.

*Why they are enough.* Two requests are enough for a pair of handlers to meet,
one deletion for every look-up to become stale; in `Catalogue` items, stores,
orders and receipts can be deleted beside it, so that one cascade meets another.
What the constraints keep apart, the proofs cover: the pairs of requests that
`FewPairs` excludes are in `Accounts_proofs`, the uploads and updates of
`PersonnelFiles` in `FingerprintCapture_proofs`, the combinations of troubles in
`Supervision_proofs`, two requests beside orders in `Catalogue_proofs`. With two
entries a request can repeat an item, and with portions of -1, 1 and 2 the first
and the last of them differ and an order item can fall below zero. One office
and none are two payrolls. Stores interact only in pairs (a transfer), rows of
different items never. Two posts at two locations tell the deployments of a post
from those of its location; three assignments let a post be overfilled by a
race. Three users are a client's, an administrator's and another; two days with
a period of both are the least with which the excluded last day shows. Limits 1
and 2.5 are the limit without a retry and one the loop's comparison never meets.
The properties about numbers of requests are proved for any number of them where
a proof is listed.

*Deadlock* is checked in `StockLedger`, `Procurement`, `ConcurrentReceipts`,
`DoubleReceipt` and `MovementReport`, where something can always happen. In the
other runs identities, instants or messages run out and the program really rests.

*Fairness.* `FingerprintCapture` assumes `WF_vars(Serve(r))` for each request:
the server's timers run out, Node runs their callbacks, and the bucket and the
database answer their clients, be it with an error. Nothing is assumed of the
agent, which may be silent for ever, nor of clients, who need not send anything.
Under it `EveryRequestIsAnswered`. Nothing else waits: in the other modules a
request ends because its handler returns, or PostgreSQL ends its transaction.

## What the code does not keep

Two runs end with a counterexample and are findings in `PROJECT.json`, which
quotes the line that says otherwise:

- `DoubleReceipt`: two requests that both read a receipt as `PENDING` both put
  its goods into stock, the second after the first has committed
  (`grn.service.ts:609`): more is in stock than the receipt brings.
- `MovementReport`: a transfer counts as inbound for the store the goods leave
  (`stock-movements.service.ts:148`).

The models behave like the code in these as well; the properties are stated so
that they say exactly how far the promise holds:

- A transfer takes goods that are reserved in its source
  (`stock-transfers.service.ts:285` asks on hand): `OversoldOnlyByTransfer`.
- A negative quantity passes the checks of issuances, returns and transfers and
  turns the movement around: it can make a row negative or oversell it. Columns
  and movements of the row agree all the same, and transfers conserve; what is
  said of signs and of overselling excepts the rows in `misbooked`, and the pool
  promises nothing from there on.
- `returns.service.ts:144` computes the issuance's status from the present
  return alone: what came back in two parts stays `PARTIAL_RETURN`.
- Two receipts of one order item received at a time: the later write of
  `quantityReceived` forgets the earlier (`grn.service.ts:750`); of different
  items, neither sees the other's and the complete order stays
  `PARTIALLY_RECEIVED` (`grn.service.ts:789`). `OrderAccountsForReceipts` and
  `ReceiptSettlesOrder` hold with one handler at a time. An order item of
  quantity zero is never settled (`grn.service.ts:799`), and one whose sum a
  negative acceptance took below zero counts neither as pending nor as partial,
  so that its order may be `RECEIVED`.
- Two items of a receipt may name one order item (`grn.service.ts:95-122` looks at
  each alone). Both then write `quantityReceived` as a sum with what was read
  before, and the second write stays (750-765): `OrderAccountsForReceipts` excepts
  such order items (`NamedOnce`).
- A request to receive may list an item twice (627-733): both entries go into
  stock, and the receipt keeps the last. A negative acceptance is kept in the
  receipt and taken from the order item, but not from the stock (639, 691).
  `StockMatchesReceipts` says that stock is then no less than the receipt says,
  and exactly that for `regular` requests.
- Receiving goods sets the order's status whatever it was, also `CANCELLED`
  (`grn.service.ts:807`): `ClosedOrdersStay` excepts it. Updating an order ties
  it to a request nobody approved (`purchase-orders.service.ts:201`). A
  cancellation that read the request before its approval cancels the approved
  request (`purchase-requests.service.ts:388`).
- Assignments that have ended count against a post's quantity
  (`guard.service.ts:1073`), and racing requests overfill it:
  `OverfilledOnlyByRaces`. Removing a location always reports a failure
  (`location.service.ts:395` deletes it a second time).
- Attendance is recorded twice and periods are locked twice when requests
  overlap, and locks are moved over each other (`payroll.service.ts:173`):
  `DuplicatesOnlyByRaces`, `OverlapOnlyByRaces`. Locked attendance changes;
  `isFinalLocked` is asked by `lockFinalPayroll` alone. A lock includes its last
  day, salaries computed from it do not, and for one day they divide by zero.
  Days are counted over all locations, and the allowance page filters by
  period while net pay does not. The bank list is of all offices while a payroll
  is of one, or of the guards without an office. It has title and number of an
  account swapped (`payroll.service.ts:1307`), which the models do not show.
  `AttendanceService.update` passes an array where a record is meant and never
  writes. Which of a guard's assignments to a location counts is not ordered.
- Tokens carry the organization, role and client of the time of login;
  `TokenStaysAtHome` says what remains true. The location filters read
  `user.role`, which the registered strategy does not set. Creating an account
  for an employee or a guard who has one links the new one
  (`user.service.ts:466-496` asks only clients).
- A guard's update may change service number and CNIC in one statement
  (`guard.service.ts:929-932`), after which a promotion that had read the old ones
  makes a second employee record for the account, and the filter by the first
  record found (`office-filter.ts:48`) can hide the posting: `SchemaKept` and
  `OpenPostingsVisible` except accounts whose person got both (`Reissued`). A
  promotion that finds no role by the name of supervisor succeeds without it.
- Updating an item or a group files it under anybody's category
  (`items.service.ts:158`): `TenantsApart` excepts it. Deleting a vendor, an order
  or the user who created either the order or the receipt takes the receipt and
  leaves movement and stock; deleting the user who received takes the movement
  and leaves the stock; a deletion of an order or a receipt that had found it
  draft or pending takes a receipt that came in meanwhile: the exceptions of
  `LedgerExplained`. `getVendorPurchaseHistory` does not look at the vendor.
- Updating an employee keys the rows it writes by `guardId`
  (`employee.service.ts:650-717`): forms and references are never written, the
  experience is deleted, and the request fails; `FilesAsUpdated` excepts updates
  that fail. An update of a guard whose `createMany` throws has deleted the
  experience or the references before (`guard.service.ts:964-971`):
  `GuardHistoryKept` excepts these lists, until an update fills them.
  `bulkUploadGuards` calls a method of the error before it looks at its kind
  (`guard.service.ts:483`), so that a duplicate ends as a server error.
  `uploadGuards` answers at the first failure, while others were or will be
  inserted. Documents given to an update of a guard are dropped.
- A capture that timed out keeps the reader busy, and its retry is then refused
  for good: `BusyOnlyByOverlap`. Capture and health check do not use the stored
  configuration of the agent.

## The proofs

The theorems hold for every value of the constants. They assume the `ASSUME`s of
their modules and what a theorem states beside: quantities are integers, as in
the DTOs, and nowhere natural numbers by assumption (salaries are), values for
"no row" are not rows, and the sets that are counted or summed over are finite:
stores, receipts, items, deductions and allowances are rows of tables or lines
of requests, and the retry limits are those of the configurations there are.

Each run checks the invariants on a small instance first, and the theorem of the
same property holds for any instance; where an invariant is not inductive, the
paragraphs below say what is added to it.

**`StockLedger_proofs`.** All theorems are about all integer quantities, also
negative ones, which the data transfer objects do not exclude. `TypeCorrect`,
`AvailableIsAlwaysDifference` and `AuditTrailAlwaysExplains` make no exception
for them. The invariant `Balanced` of the latter two is one statement about a
cell (`CellBalanced`): the three columns of its row and its five movement sums
agree, unless its row was deleted once. No handler looks at two cells together
except a transfer, so it is enough that each way of writing a row (`PutIn`,
`TakeOut`, `Reserve`, `Release`) together with the movement it records keeps a
cell balanced; a transfer from a store to itself writes one cell twice, which
the order of `MoveStock` makes right. `StockNeverNegative` and
`OversoldByTransferOnly` need a second invariant, `Solvent`, of the cells on
which no negative quantity was booked: on hand and reserved are not negative,
and a row out of which no transfer took anything holds at least what is
reserved. Neither half is inductive alone, since each handler checks one column
and changes another. A negative line of a document spoils the cells it is booked
on and no others. `TransfersConserve` and `LedgerImplementsPool` are about sums
over all stores. A row that is written changes the sum by what it changes itself
(`TotalsOfRowWritten`), a transfer writes two rows (`TotalsMoved`), and so each
handler is a step of the pool or cannot be seen (`PostedGoodsBought`,
`IssuedFromPool`, `ReturnedToPool`, `DeletedRowWrittenOff`, `TransferUnseen`).
The pool takes back no more than guards hold, while a return is checked against
one store only: `Solvent` is what makes the one follow from the other. The
refinement holds up to the first negative quantity: from there on every step is
`Spoil`.

**Sums.** The sums are folds, whose definition in the community modules recurses
over a set, and no theorem of the library that takes an operator can be
instantiated. The induction is done on sets instead: a set of exceptions that has
a member has a least one, and a family of finite sets a smallest
(`NatLessThanWellFounded`, `FS_StrictSubsetOrderingWellFounded` and `WFMin`, which
speak of relations). `SumsOfAnySize` shows that the function the fold defines
exists, because the least size of a subset without one would be zero or follow a
size that has it; `SumOfSums`, `SumOfOne` and `SumChanges` then say what it
yields. The four modules that sum each prove the few lemmas they need.

**`Procurement_proofs`.** `IInv` is the conjunction of `TypeOK`,
`ReceivedWithinOrdered`, `ReferencesIntact` and `CallsInStep`. The bound on an
order item is checked by a handler against
a row it read long ago, so it is an invariant only together with what connects
that reading to the table: an order item's `ordered` and `of` never change while
it lives (`LinesEvolve`), a receipt stays one of its order (`ReceiptsEvolve`),
and what an open transaction has written is still there at its commit
(`RowsKept`, from the row locks). `CallKept` shows that these three keep any call
in step; then every handler that writes has a lemma that it evolves the tables
so and keeps ranges, references and the bound. `SchemaAlwaysKept` is more than
ranges: that `CommitReceive` writes the status of an order which exists rests on
the locks.

Four theorems of the same module assume `Serial`, that there is one client at
most; two break all four. `SInv` adds to `IInv` that what a handler has checked
is still so when it writes (`StillSo`), that nothing is accepted of a receipt
that is not settled, and that an order with a settled receipt is no draft. The
last part is what makes the cascade of an order's deletion harmless to stock in
`StockOnceWhenSerial`: a draft has no goods in stock, because no transition of
the table leads back to `DRAFT`. That stock is no less than what the receipt
keeps comes from one entry at a time: the last entry for an item is among those
that are put in, if it is positive, and for a regular request it is the only
one. `OrderSettledWhenSerial` says of quantity zero what the code does with it,
that an order with such an item never becomes `RECEIVED`, and of sums below zero
that they do not keep it from that. `ClosedWhenSerial` rests on the check of a
status change still being true at its write, so that only `CommitReceive`, which
asks for no status, leaves `RECEIVED` or `CANCELLED`.
`ReceiptsAccountedWhenSerial` needs `AInv` beside `SInv`: what the handler of a
receipt has read is what the tables still say (`Fresh`), so that, where one item
of a receipt names an order item (`NamedOnce`), its write adds one share to one
sum, of whatever entry is the last; deleting or replacing the items of an order
is harmless because nothing was received of them.

**`Deployment_proofs`.** `IInv` adds `CallsPlaced` to the schema: the post and
the assignment a request has read are gone or where they were. It holds because
a post or an assignment never becomes another one (`PostsEvolve`, `RowsEvolve`),
and it is what `InsertAssigned` needs, which checks that its post exists but not
that it is of the location it names. Most steps are `Quiet`: they delete
assignments at most, and promise none. `FilledOnlyByRaces` counts assignments
and promises of a post together: a request that finds fewer assignments than
the quantity raises the sum to at most quantity - 1 + |Callers|, and inserting
moves one from promises to assignments; a new post has neither.
`EndOnTheirPost` and `LostOnlyInRemoval` follow from the same analysis of steps.

**`Payroll_proofs`.** The schema is inductive as it stands. The two counting
theorems, `RecordedTwiceOnlyByRaces` and `LockedTwiceOnlyByRaces`, have the
shape of `FilledOnlyByRaces`: records (or locks that cover a day) and the
requests that are about to make one are counted together, every step but two
lets both sets shrink (`AttendanceFalls`, `LocksFall`), a request that finds
nothing starts from zero, and writing moves one element across. That the look-up
of overlapping locks finds every lock that covers a day of the new period is the
step where its comparison of the dates matters. `NeverPaidTooMuch` and
`PayslipsAlwaysAgree`, which also says that the payrolls of all offices together
are the guards the bank pays and that none of them is on two, need the schema
alone, because they compare what handlers compute from the same tables: records
are the days they are of and the records too many, the deductions are a sum of
integers over a finite set and so an integer (`DeductedIsInt`), and an allowance
that is paid is at most the largest there is (`ExtrasPaid`).

**`FingerprintCapture_proofs`.** What a request ends with depends on messages in
flight, so `IInv` follows a message from the wire through the reader to its
answer: it belongs to an attempt its request has come to (`Sent`), it is not on
the wire and in the reader at once, an answer with an image is in `taken`, and a
refusal has a reason (`Overlapped`), which no later step takes away because
attempts only count up (`Evolves`). The refusal of a first attempt then is the
work of another request: the reader holds another message, and if that were of
the same request the attempt would not be the first any more. The attempts and
pauses have an invariant of their own, `TInv`: a request that asks is within its
limit and has paused for less than two to the number of attempts before it
(`Paced`), and only who asked for the agent's health is told of it
(`HealthAnswered`). The prover knows nothing of powers, so the model's are a
recursive function, `PowerOfTwo`, whose two equations `PowersDouble` proves like
the sums above. No proof uses fairness.

The second part of the module is about `PersonnelFiles`, which it extends beside
`FingerprintCapture`: both are records of the same people, share no variable,
and the names of `PersonnelFiles` (`FilesSpec`, `FilesInit`, `fileVars`) keep
them apart. `FilesInv` says of an update which statements it can have left
(`Progress`). For one that runs alone `InStep` relates the file to what it was:
parts whose statement is to come are as before, parts whose statement has run
are the update's own, and a list in between is empty; when nothing is left this
is `FilesAsUpdated`. `Refilled` is for updates that overlap, about which
`InStep` says nothing: whenever a list of a guard was given and is empty, and is
not `lost`, some update has cleared it and is to insert it. That update is at
this statement (`ClearedIsNext`): it fills the list, or fails and puts it into
`lost`, where it stays until an insert of another update succeeds. Updates that
end or fail elsewhere leave the list with somebody who will fill it. New files are
of people without one, whom no update is about (`AsideOfUpdates`).

**`Supervision_proofs`.** Two requests can both find that a guard has no
employee record, and both go on to create one with the guard's account. `IInv`
says of each request in flight (`Sound`) which of its fields are filled
(`Formed`), that the account of a promotion has the role from that statement on
(`Promoted`), and, of one about to create an employee with an account, that the
account's only guard is the one it holds and that every employee the account has
got meanwhile has the service number and the CNIC it has read, up to the columns
that were changed since (`Owned`, with `Same` and the two histories): as long as
one of the two is unchanged, a unique column refuses the second employee.
`SameGuard` extends this to two such requests, and `LinksUnique` is what the
unique columns keep of the tables, but for accounts whose person got both columns
changed (`Reissued`). A step that gives nobody an account (`Steady`) disturbs none
of it. `PostingsStayVisible` follows because the filter looks at all employee
records of a user and `LinksUnique` leaves one. `Promoted` needs no assumption
about roles: there may be none of the name, several, or one that is renamed after
it was found; a deleted one is taken from everybody at once
(`GrantsReferToRoles`).

**`Accounts_proofs`.** A request that creates a user or a client's account has
compared office, client and organization before its transaction, and a token is
as old as its login. `CallsHomed` says what is left of a comparison: an office or
a client is gone or still of the organization that was compared. Only a new user
gets an organization and none gets a second (`OneOrganization`), so that what a
user belongs to shrinks, and with it what a token has to agree with.
`AccountsStay` is the action property of the same steps; the conditional update
of a client's account is where it could fail.

**`Catalogue_proofs`.** `Fine` is the schema and the separation of tenants as
one statement about each row and the rows it refers to, which depends only on
those rows being there and on their organization. `CallsFine` says that what a
request has looked up is gone or of the same organization. A write that deletes
nothing leaves every row in its organization (`Writes`), so only the row it
writes has to be looked at. For `Remove` the lemmas `GroupsLeft` to `StockLeft`
show that what a deletion leaves refers to nothing deleted: `DoomedTogether` says
that the first wave of the cascade is complete, for which an item must not be
taken for a store or an office (`IdentitiesAssumption`: identities are UUIDs).
`LedgerStaysExplained` adds three statements to `IInv` (`LInv`): each cell of the
stock is the number of movements into it, kept or forgotten with their user
(`CellsExplained`), a movement is that of its receipt or has lost it in one of
the ways the property names (`MovementsTraced`), and orders, receipts and kept
movements name users that are there (`UsersKnown`), so that a deleted user is
neither behind them nor named again. Only receiving goods and deletions touch
these, and a deletion takes stock and movements of a store together
(`RemoveExplained`).

Only model-checked:

- `EveryRequestIsAnswered`, which is liveness under fairness and out of the
  prover's reach.
- The two violations, which are counterexamples.

The modules declare no `RECURSIVE` operator.

## Abstractions and bounds

- `StockLedger` and `Procurement` have one organization: its documents and rows
  are looked up by its identity. `Catalogue` and `Accounts` have several.
- An order, a transfer, an issuance or a return lists an item at most once. The
  handlers accept repeated lines and apply one after the other. The items of a
  receipt are different ones, which its creation checks (it compares the number
  of items found with the number listed); the entries of a request to receive
  may repeat one.
- A negative rejected quantity makes room for accepted ones, and is chosen in
  `BeginReceive`; it is not kept.
- `MovementType` has one value for both ends of a transfer; the model keeps the
  two sums apart, which the stored store of each movement does.
- Prices, taxes, amounts of orders, notes, names, payment status, document and
  contract numbers, files of documents, features and bank
  accounts are left out: no guard of the modelled handlers that matters here
  reads them, or only the check of a row against itself.
- `GRNStatus` `REJECTED` is never written. `InventoryService.updateQuantity` has
  no route and no caller. `isActive` and `toggleStatus` are never read.
- A person with two requests in flight counts as two callers.

## Not modelled

- *Statements of two stock transactions in one another*: under READ COMMITTED
  sums written absolutely lose updates (`stock-transfers.service.ts:295`), and a
  cancellation meets a receive in progress (line 400). The first candidate for a
  module of its own, together with the composition of `StockLedger` and
  `Procurement`, whose common step is now in both (`PostInbound`,
  `CommitReceive`).
- *Document numbers*: per organization in a column that is unique over all of
  them; a collision is one of the failures the models let happen.
- *Queries*: lists, searches, reports other than the movement report.
- *`processTransferTesting`* (`payroll.service.ts:1080`) empties tables for a
  test; the ZKTeco controller and the health check of the server pass a call on.
- *The HTTP layer*, the CSV parser, presigned URLs: no state.

## The plan

Every safety property of the runs is proved. What comes next, the most valuable
first: `StockConcurrency`, the interleaved stock transactions of two requests, as
a refinement of one cell of `StockLedger`; the composition with `Procurement`;
document numbers.
