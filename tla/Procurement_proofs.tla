------------------------- MODULE Procurement_proofs -------------------------
(***************************************************************************)
(* What holds of procurement for every set of clients, documents, items    *)
(* and integer quantities, whatever the order in which the handlers read   *)
(* and write, and however often a request names an item.                   *)
(*                                                                         *)
(* That no order item receives too much rests on an invariant about the    *)
(* handlers in flight: what each has read agrees with the tables as far as *)
(* it relies on it (CallInStep).  A handler's own write puts an end to its *)
(* call; what has to be shown is that it leaves the others in step.  The   *)
(* tables evolve in a way no handler in flight minds (LinesEvolve,         *)
(* ReceiptsEvolve), and the rows a transaction has locked stay (RowsKept). *)
(*                                                                         *)
(* What holds only when the handlers run one after the other (Serial) is   *)
(* in the second half: stock and order items agree with the receipts, a    *)
(* receipt settles its order, and closed orders stay closed.               *)
(***************************************************************************)
EXTENDS Procurement, FiniteSetTheorems, TLAPS

IInv == TypeOK /\ ReceivedWithinOrdered /\ ReferencesIntact /\ CallsInStep

\* An order item that was there once is never another one.
LinesEvolve ==
  \A l \in LineIds : line[l].status # "NONE" =>
    /\ line'[l].status # "NONE"
    /\ line'[l].status = "LIVE" =>
         /\ line[l].status = "LIVE"
         /\ line'[l].of = line[l].of
         /\ line'[l].ordered = line[l].ordered

\* A receipt that was there once is never another one.
ReceiptsEvolve ==
  \A g \in Receipts : receipt[g].status # "NONE" =>
    /\ receipt'[g].status # "NONE"
    /\ Exists(receipt'[g]) =>
         /\ Exists(receipt[g])
         /\ receipt'[g].of = receipt[g].of
         /\ DOMAIN receipt'[g].items = DOMAIN receipt[g].items

\* The rows locked by the transaction of call r are still there.
RowsKept(r) ==
  /\ Exists(receipt'[r.id])
  /\ \A l \in Writes(r) : line'[l].status = "LIVE"

-----------------------------------------------------------------------------
(* Sums over finite sets.                                                    *)
(*                                                                           *)
(* The library defines a sum by recursion over the subsets of its domain,    *)
(* with an element chosen to be taken out first.  That such a function       *)
(* exists is shown by the least size of a subset without one, and what it    *)
(* yields by the smallest subset that is an exception: both are instances of *)
(* the minimal element of a well-founded relation.                           *)

\* The element that the sum over s takes out first.
One(s) == CHOOSE x \in s : TRUE

\* It is one of them.
LEMMA OneIsIn == ASSUME NEW s, s # {} PROVE One(s) \in s
BY DEF One

\* What the sum of an element and of the rest is, F giving the sums of the rests.
SumBy(F, f, s) == IF s = {} THEN 0 ELSE f[One(s)] + F[s \ {One(s)}]

\* F sums f up over the subsets of D.
Sums(F, f, D) == F = [s \in SUBSET D |-> SumBy(F, f, s)]

\* The sum of the library is the value of the function that sums up.
LEMMA SumIsChosen ==
  ASSUME NEW f
  PROVE  SumFunction(f) = (CHOOSE F : Sums(F, f, DOMAIN f))[DOMAIN f]
BY DEF SumFunction, SumFunctionOnSet, FoldFunctionOnSet, MapThenFoldSet, Sums, SumBy, One

\* The sums over the subsets of at most n elements.
UpTo(D, n) == {s \in SUBSET D : Cardinality(s) <= n}

SumsUpTo(F, f, D, n) ==
  F \in [UpTo(D, n) -> Int] /\ \A s \in UpTo(D, n) : F[s] = SumBy(F, f, s)

\* There are sums over the empty set.
LEMMA FirstSums ==
  ASSUME NEW D, IsFiniteSet(D), NEW f
  PROVE  \E F : SumsUpTo(F, f, D, 0)
<1> DEFINE F == [s \in UpTo(D, 0) |-> 0]
<1>1. \A s \in UpTo(D, 0) : s = {}
  BY FS_Subset, FS_EmptySet, FS_CardinalityType DEF UpTo
<1>2. F \in [UpTo(D, 0) -> Int]
  OBVIOUS
<1>3. \A s \in UpTo(D, 0) : F[s] = SumBy(F, f, s)
  BY <1>1 DEF SumBy
<1> HIDE DEF F
<1> QED
  BY <1>2, <1>3 DEF SumsUpTo

\* Sums over sets of n elements give the sums over sets of one more.
LEMMA MoreSums ==
  ASSUME NEW D, IsFiniteSet(D), NEW f \in [D -> Int], NEW n \in Nat,
         NEW F, SumsUpTo(F, f, D, n)
  PROVE  \E G : SumsUpTo(G, f, D, n + 1)
<1> DEFINE G == [s \in UpTo(D, n + 1) |-> SumBy(F, f, s)]
<1>1. ASSUME NEW s \in UpTo(D, n + 1), s # {}
      PROVE  s \ {One(s)} \in UpTo(D, n) /\ s \ {One(s)} \in UpTo(D, n + 1) /\ One(s) \in D
  <2>1. IsFiniteSet(s) /\ s \subseteq D /\ Cardinality(s) <= n + 1 /\ Cardinality(s) \in Nat
    BY FS_Subset, FS_CardinalityType DEF UpTo
  <2>2. One(s) \in s
    BY <1>1, OneIsIn
  <2>3. Cardinality(s \ {One(s)}) = Cardinality(s) - 1
    BY <2>1, <2>2, FS_RemoveElement
  <2> QED
    BY <2>1, <2>2, <2>3 DEF UpTo
<1>2. \A s \in UpTo(D, n) : F[s] = SumBy(F, f, s) /\ F[s] \in Int
  BY DEF SumsUpTo
<1>3. ASSUME NEW s \in UpTo(D, n + 1)
      PROVE  SumBy(F, f, s) \in Int /\ G[s] = SumBy(G, f, s)
  <2>1. CASE s = {}
    BY <2>1 DEF SumBy
  <2>2. CASE s # {}
    <3>1. f[One(s)] \in Int /\ F[s \ {One(s)}] \in Int
      BY <1>1, <1>2, <2>2
    <3>2. G[s \ {One(s)}] = F[s \ {One(s)}]
      BY <1>1, <1>2, <2>2
    <3>3. SumBy(F, f, s) \in Int
      BY <2>2, <3>1 DEF SumBy
    <3> HIDE DEF G
    <3>4. SumBy(G, f, s) = SumBy(F, f, s)
      BY <2>2, <3>2 DEF SumBy
    <3> QED
      BY <3>3, <3>4 DEF G
  <2> QED
    BY <2>1, <2>2
<1>4. G \in [UpTo(D, n + 1) -> Int]
  BY <1>3
<1> HIDE DEF G
<1> QED
  BY <1>3, <1>4 DEF SumsUpTo

\* So there are sums over the subsets of every size: the least size without
\* them would be zero or follow one that has them.
LEMMA SumsOfAnySize ==
  ASSUME NEW D, IsFiniteSet(D), NEW f \in [D -> Int], NEW n \in Nat
  PROVE  \E F : SumsUpTo(F, f, D, n)
<1> DEFINE Bad == {m \in Nat : ~ \E F : SumsUpTo(F, f, D, m)}
<1> SUFFICES ASSUME Bad # {} PROVE FALSE
  OBVIOUS
<1>1. PICK m \in Bad : \A k \in Bad : ~ (<<k, m>> \in OpToRel(<, Nat))
  BY NatLessThanWellFounded, WFMin
<1>2. m # 0
  BY FirstSums
<1>3. m - 1 \in Nat /\ m - 1 < m /\ (m - 1) + 1 = m
  BY <1>2
<1>4. m - 1 \notin Bad
  BY <1>1, <1>3 DEF OpToRel
<1>5. PICK F : SumsUpTo(F, f, D, m - 1)
  BY <1>3, <1>4
<1>6. \E G : SumsUpTo(G, f, D, (m - 1) + 1)
  BY <1>3, <1>5, MoreSums
<1> QED
  BY <1>1, <1>3, <1>6

\* A set of subsets of D that has the empty one, and each that it has without
\* the element taken out first, has all.
LEMMA AllSubsets ==
  ASSUME NEW D, IsFiniteSet(D), NEW T, {} \in T,
         \A s \in SUBSET D : s # {} /\ s \ {One(s)} \in T => s \in T
  PROVE  SUBSET D \subseteq T
<1> DEFINE Bad == {s \in SUBSET D : s \notin T}
<1> SUFFICES ASSUME Bad # {} PROVE FALSE
  OBVIOUS
<1>1. Bad \subseteq FiniteSubsetsOf(D)
  BY FS_Subset DEF FiniteSubsetsOf
<1>2. PICK m \in Bad : \A k \in Bad : ~ (<<k, m>> \in StrictSubsetOrdering(D))
  BY <1>1, FS_StrictSubsetOrderingWellFounded, WFMin
<1>3. m # {} /\ m \in SUBSET D
  BY <1>2
<1>4. m \ {One(m)} \in T
  BY <1>2, <1>3, OneIsIn DEF StrictSubsetOrdering
<1> QED
  BY <1>2, <1>3, <1>4

\* What is known of the sum of an integer function over a finite domain: it is
\* what some sums over the subsets of the domain end with.
SummedBy(F, f, D) ==
  /\ F \in [SUBSET D -> Int] /\ SumFunction(f) = F[D] /\ F[{}] = 0
  /\ \A s \in SUBSET D : s # {} => F[s] = f[One(s)] + F[s \ {One(s)}]

\* Every sum of integers over a finite set is of that kind.
LEMMA SumIsSummed ==
  ASSUME NEW D, IsFiniteSet(D), NEW f \in [D -> Int]
  PROVE  \E F : SummedBy(F, f, D)
<1> DEFINE F == CHOOSE F : Sums(F, f, D)
<1>1. Cardinality(D) \in Nat
  BY FS_CardinalityType
<1>2. UpTo(D, Cardinality(D)) = SUBSET D
  BY FS_Subset DEF UpTo
<1>3. PICK G : SumsUpTo(G, f, D, Cardinality(D))
  BY <1>1, SumsOfAnySize
<1>4. Sums(G, f, D) /\ G \in [SUBSET D -> Int]
  BY <1>2, <1>3 DEF SumsUpTo, Sums
<1>5. Sums(F, f, D)
  BY <1>4
<1>6. SumFunction(f) = F[D]
  BY SumIsChosen
<1> HIDE DEF F
<1>7. \A s \in SUBSET D : F[s] = SumBy(F, f, s)
  BY <1>5 DEF Sums
<1>11. F[{}] = 0 /\ \A s \in SUBSET D : s # {} => F[s] = f[One(s)] + F[s \ {One(s)}]
  BY <1>7 DEF SumBy
<1> DEFINE T == {s \in SUBSET D : F[s] \in Int}
<1>8. SUBSET D \subseteq T
  <2>1. {} \in T
    BY <1>11
  <2>2. \A s \in SUBSET D : s # {} /\ s \ {One(s)} \in T => s \in T
    <3> SUFFICES ASSUME NEW s \in SUBSET D, s # {}, F[s \ {One(s)}] \in Int
                 PROVE  F[s] \in Int
      OBVIOUS
    <3>1. f[One(s)] \in Int
      BY OneIsIn
    <3>2. F[s] = f[One(s)] + F[s \ {One(s)}]
      BY <1>11
    <3> QED
      BY <3>1, <3>2
  <2> HIDE DEF T
  <2> QED
    BY <2>1, <2>2, AllSubsets
<1>9. DOMAIN F = SUBSET D /\ F = [s \in SUBSET D |-> F[s]]
  BY <1>5 DEF Sums
<1>10. F \in [SUBSET D -> Int]
  BY <1>8, <1>9
<1> QED
  BY <1>6, <1>10, <1>11 DEF SummedBy

\* The sum is an integer.
LEMMA SumIsInt ==
  ASSUME NEW D, IsFiniteSet(D), NEW f \in [D -> Int]
  PROVE  SumFunction(f) \in Int
<1>1. PICK F : SummedBy(F, f, D)
  BY SumIsSummed
<1> QED
  BY <1>1 DEF SummedBy

\* h is f plus g at each point of D.
PointwiseSum(h, f, g, D) == \A x \in D : h[x] = f[x] + g[x]

\* The sum of two functions, point by point, sums up to the two sums.
LEMMA SumOfSums ==
  ASSUME NEW D, IsFiniteSet(D), NEW f \in [D -> Int], NEW g \in [D -> Int],
         NEW h \in [D -> Int], PointwiseSum(h, f, g, D)
  PROVE  SumFunction(h) = SumFunction(f) + SumFunction(g)
<1>1. PICK F : SummedBy(F, f, D)
  BY SumIsSummed
<1>2. PICK G : SummedBy(G, g, D)
  BY SumIsSummed
<1>3. PICK H : SummedBy(H, h, D)
  BY SumIsSummed
<1> DEFINE T == {s \in SUBSET D : H[s] = F[s] + G[s]}
<1>4. {} \in T
  BY <1>1, <1>2, <1>3 DEF SummedBy
<1>5. ASSUME NEW s \in SUBSET D, s # {}, s \ {One(s)} \in T
      PROVE  s \in T
  <2>1. One(s) \in D
    BY <1>5, OneIsIn
  <2>2. h[One(s)] = f[One(s)] + g[One(s)] /\ f[One(s)] \in Int /\ g[One(s)] \in Int
    BY <2>1 DEF PointwiseSum
  <2>3. H[s] = h[One(s)] + H[s \ {One(s)}]
    BY <1>3, <1>5 DEF SummedBy
  <2>4. F[s] = f[One(s)] + F[s \ {One(s)}] /\ F[s \ {One(s)}] \in Int
    BY <1>1, <1>5 DEF SummedBy
  <2>5. G[s] = g[One(s)] + G[s \ {One(s)}] /\ G[s \ {One(s)}] \in Int
    BY <1>2, <1>5 DEF SummedBy
  <2>6. H[s \ {One(s)}] = F[s \ {One(s)}] + G[s \ {One(s)}]
    BY <1>5
  <2> QED
    BY <2>2, <2>3, <2>4, <2>5, <2>6
<1>6. D \in T
  <2>1. \A s \in SUBSET D : s # {} /\ s \ {One(s)} \in T => s \in T
    BY <1>5
  <2> HIDE DEF T
  <2>2. SUBSET D \subseteq T
    BY <1>4, <2>1, AllSubsets
  <2> QED
    BY <2>2
<1> QED
  BY <1>1, <1>2, <1>3, <1>6 DEF SummedBy

\* A function that is zero but for one point sums up to its value there.
LEMMA SumOfOne ==
  ASSUME NEW D, IsFiniteSet(D), NEW f \in [D -> Int], NEW x \in D,
         \A y \in D : y # x => f[y] = 0
  PROVE  SumFunction(f) = f[x]
<1>1. PICK F : SummedBy(F, f, D)
  BY SumIsSummed
<1> DEFINE T == {s \in SUBSET D : F[s] = IF x \in s THEN f[x] ELSE 0}
<1>2. {} \in T
  BY <1>1 DEF SummedBy
<1>3. ASSUME NEW s \in SUBSET D, s # {}, s \ {One(s)} \in T
      PROVE  s \in T
  <2>1. One(s) \in D /\ One(s) \in s
    BY <1>3, OneIsIn
  <2>2. F[s] = f[One(s)] + F[s \ {One(s)}]
    BY <1>1, <1>3 DEF SummedBy
  <2>3. F[s \ {One(s)}] = IF x \in s \ {One(s)} THEN f[x] ELSE 0
    BY <1>3
  <2>4. f[x] \in Int
    OBVIOUS
  <2>5. CASE One(s) = x
    <3>1. F[s \ {One(s)}] = 0
      BY <2>3, <2>5
    <3> QED
      BY <2>1, <2>2, <2>4, <2>5, <3>1
  <2>6. CASE One(s) # x
    <3>1. f[One(s)] = 0 /\ (x \in s \ {One(s)} <=> x \in s)
      BY <2>1, <2>6
    <3> QED
      BY <2>2, <2>3, <2>4, <3>1
  <2> QED
    BY <2>5, <2>6
<1>4. D \in T
  <2>1. \A s \in SUBSET D : s # {} /\ s \ {One(s)} \in T => s \in T
    BY <1>3
  <2> HIDE DEF T
  <2>2. SUBSET D \subseteq T
    BY <1>2, <2>1, AllSubsets
  <2> QED
    BY <2>2
<1> QED
  BY <1>1, <1>4 DEF SummedBy

\* Changing a function at one point changes its sum by as much.
LEMMA SumChanges ==
  ASSUME NEW D, IsFiniteSet(D), NEW f \in [D -> Int], NEW g \in [D -> Int],
         NEW x \in D, \A y \in D : y # x => g[y] = f[y]
  PROVE  SumFunction(g) = SumFunction(f) + (g[x] - f[x])
<1> DEFINE h == [y \in D |-> IF y = x THEN g[x] - f[x] ELSE 0]
<1>1. h \in [D -> Int] /\ h[x] = g[x] - f[x] /\ \A y \in D : y # x => h[y] = 0
  OBVIOUS
<1>2. \A y \in D : g[y] = f[y] + h[y]
  OBVIOUS
<1>3. SumFunction(h) = h[x]
  <2> HIDE DEF h
  <2> QED
    BY <1>1, SumOfOne
<1>4. SumFunction(g) = SumFunction(f) + SumFunction(h)
  <2> HIDE DEF h
  <2>1. h \in [D -> Int] /\ PointwiseSum(g, f, h, D)
    BY <1>1, <1>2 DEF PointwiseSum
  <2> QED
    BY <2>1, SumOfSums
<1> QED
  BY <1>1, <1>3, <1>4

\* Natural numbers sum up to a natural number, not less than any of them.
LEMMA SumOfNaturals ==
  ASSUME NEW D, IsFiniteSet(D), NEW f \in [D -> Nat]
  PROVE  SumFunction(f) \in Nat /\ \A x \in D : SumFunction(f) >= f[x]
<1>1. f \in [D -> Int]
  OBVIOUS
<1>2. PICK F : SummedBy(F, f, D)
  BY <1>1, SumIsSummed
<1> DEFINE T == {s \in SUBSET D : F[s] \in Nat /\ \A x \in s : F[s] >= f[x]}
<1>3. {} \in T
  BY <1>2 DEF SummedBy
<1>4. ASSUME NEW s \in SUBSET D, s # {}, s \ {One(s)} \in T
      PROVE  s \in T
  <2>1. f[One(s)] \in Nat
    BY <1>4, OneIsIn
  <2>2. F[s] = f[One(s)] + F[s \ {One(s)}]
    BY <1>2, <1>4 DEF SummedBy
  <2>3. F[s \ {One(s)}] \in Nat
    BY <1>4
  <2>4. \A x \in s : x # One(s) => F[s \ {One(s)}] >= f[x]
    BY <1>4
  <2>5. ASSUME NEW x \in s PROVE F[s] >= f[x]
    <3>1. f[x] \in Nat
      BY <1>4
    <3>2. PICK a, n, y : a = f[One(s)] /\ n = F[s \ {One(s)}] /\ y = f[x] /\ F[s] = a + n
      BY <2>2
    <3>3. a \in Nat /\ n \in Nat /\ y \in Nat /\ (y = a \/ n >= y)
      BY <2>1, <2>3, <2>4, <3>1, <3>2
    <3> QED BY <3>2, <3>3
  <2> QED
    BY <2>1, <2>2, <2>3, <2>5
<1>5. D \in T
  <2>1. \A s \in SUBSET D : s # {} /\ s \ {One(s)} \in T => s \in T
    BY <1>4
  <2> HIDE DEF T
  <2>2. SUBSET D \subseteq T
    BY <1>3, <2>1, AllSubsets
  <2> QED
    BY <2>2
<1> QED
  BY <1>2, <1>5 DEF SummedBy

\* Zeros sum up to zero.
LEMMA SumOfZeros ==
  ASSUME NEW D, IsFiniteSet(D), NEW f \in [D -> Int], \A x \in D : f[x] = 0
  PROVE  SumFunction(f) = 0
<1>1. PointwiseSum(f, f, f, D)
  BY DEF PointwiseSum
<1>2. SumFunction(f) = SumFunction(f) + SumFunction(f)
  BY <1>1, SumOfSums
<1> QED
  BY <1>2, SumIsInt
-----------------------------------------------------------------------------
(* The ranges of rows and calls.                                             *)

\* A call has the fields of its kind.
LEMMA CallShape ==
  ASSUME NEW r \in Call
  PROVE  /\ r.op = "moveRequest" =>
              r.id \in Requests /\ r.to \in PRStatus \cup {"DELETED"}
         /\ r.op = "createOrder" => r.pr \in Requests \cup {NoRequest}
         /\ r.op = "moveOrder" => r.id \in Orders /\ r.to \in POStatus
         /\ r.op \in {"updateOrder", "insertLines", "removeOrder"} =>
              r \in [op : {"updateOrder", "insertLines", "removeOrder"}, id : Orders]
         /\ r.op = "createReceipt" => r.of \in Orders /\ r.items \in ReceiptItems
         /\ r.op \in {"inspect", "removeReceipt"} => r.id \in Receipts
         /\ r.op \in {"receive", "received"} =>
              /\ r.id \in Receipts /\ r.of \in Orders
              /\ r.items \in ReceiptItems /\ r.entries \in Entries
              /\ r.read \in LinesRead
         /\ r.op = "received" => r.status \in POStatus
BY DEF Call, Idle

\* A row that exists has all its columns.
LEMMA OrderShape ==
  ASSUME NEW doc \in OrderDoc, Exists(doc)
  PROVE  doc \in [status : POStatus, pr : Requests \cup {NoRequest}]
BY DEF OrderDoc, Exists

LEMMA LineShape ==
  ASSUME NEW row \in LineRow, row.status = "LIVE"
  PROVE  row \in [status : {"LIVE"}, of : Orders, ordered : Quantities, received : Int]
BY DEF LineRow, Missing

LEMMA ReceiptShape ==
  ASSUME NEW doc \in ReceiptDoc, Exists(doc)
  PROVE  doc \in [status : GRNStatus, of : Orders, items : ReceiptItems]
BY DEF ReceiptDoc, Exists

\* The items of a receipt are a function on some of the items.
LEMMA ItemsShape ==
  ASSUME NEW items
  PROVE  items \in ReceiptItems <=>
           DOMAIN items \subseteq Items /\ items \in [DOMAIN items -> ReceiptItem]
<1>1. ASSUME items \in ReceiptItems
      PROVE  DOMAIN items \subseteq Items /\ items \in [DOMAIN items -> ReceiptItem]
  <2>1. PICK S \in SUBSET Items : items \in [S -> ReceiptItem]
    BY <1>1 DEF ReceiptItems
  <2> QED BY <2>1
<1>2. ASSUME DOMAIN items \subseteq Items, items \in [DOMAIN items -> ReceiptItem]
      PROVE  items \in ReceiptItems
  BY <1>2 DEF ReceiptItems
<1> QED BY <1>1, <1>2

\* A request lists at least one item, and finitely many.
LEMMA EntriesShape ==
  ASSUME NEW entries \in Entries
  PROVE  /\ entries \in [DOMAIN entries -> Entry]
         /\ \E n \in Nat : DOMAIN entries = 1..n
         /\ IsFiniteSet(DOMAIN entries)
         /\ Listed(entries) \subseteq Items
         /\ \A k \in DOMAIN entries :
              entries[k].item \in Items /\ entries[k].accepted \in Portions /\ entries[k].accepted \in Int
<1>1. PICK n \in 1..MaxEntries : entries \in [1..n -> Entry]
  BY DEF Entries
<1>2. n \in Nat /\ DOMAIN entries = 1..n /\ entries \in [DOMAIN entries -> Entry]
  BY <1>1
<1>3. IsFiniteSet(1..n)
  BY <1>2, FS_Interval
<1>4. \A k \in DOMAIN entries :
        entries[k].item \in Items /\ entries[k].accepted \in Portions /\ entries[k].accepted \in Int
  BY <1>2, ProcurementAssumption DEF Entry
<1>5. Listed(entries) \subseteq Items
  BY <1>4 DEF Listed
<1> QED BY <1>2, <1>3, <1>4, <1>5

\* A set of positions that is not empty has a last one.
LEMMA LastPosition ==
  ASSUME NEW n \in Nat, NEW K \in SUBSET (1..n), K # {}
  PROVE  \E k \in K : \A m \in K : m <= k
<1> DEFINE T == {n - k : k \in K}
<1>1. T \subseteq Nat /\ T # {}
  <2>1. \A k \in K : n - k \in Nat
    OBVIOUS
  <2>2. PICK k \in K : TRUE
    OBVIOUS
  <2>3. n - k \in T
    BY <2>2
  <2>4. T \subseteq Nat
    BY <2>1
  <2> QED BY <2>3, <2>4
<1>2. PICK x \in T : \A y \in T : ~ (<<y, x>> \in OpToRel(<, Nat))
  BY <1>1, WFMin, NatLessThanWellFounded
<1>3. \A y \in T : ~ (y < x)
  BY <1>1, <1>2 DEF OpToRel
<1>4. PICK k \in K : x = n - k
  OBVIOUS
<1> QED BY <1>3, <1>4

\* The last entry for one of the items is an entry for one of them.
LEMMA LastIsEntry ==
  ASSUME NEW entries \in Entries, NEW items, items \cap Listed(entries) # {}
  PROVE  \E k \in DOMAIN entries :
           entries[k].item \in items /\ Last(entries, items) = entries[k].accepted
<1> DEFINE K == {k \in DOMAIN entries : entries[k].item \in items}
<1>1. PICK n \in Nat : DOMAIN entries = 1..n
  BY EntriesShape
<1>2. K # {} /\ K \in SUBSET (1..n)
  BY <1>1 DEF Listed
<1>3. \E k \in K : \A m \in K : m <= k
  <2> HIDE DEF K
  <2> QED BY <1>2, LastPosition
<1>4. \E k \in DOMAIN entries :
        /\ entries[k].item \in items
        /\ \A m \in DOMAIN entries : entries[m].item \in items => m <= k
  BY <1>3
<1> QED BY <1>4 DEF Last

\* What it accepts is a portion.
LEMMA LastIsPortion ==
  ASSUME NEW entries \in Entries, NEW items, items \cap Listed(entries) # {}
  PROVE  Last(entries, items) \in Portions /\ Last(entries, items) \in Int
<1>1. PICK k \in DOMAIN entries : Last(entries, items) = entries[k].accepted
  BY LastIsEntry
<1> QED BY <1>1, EntriesShape

\* What the entries put into stock of an item is a natural number, nothing for
\* an item that is not listed, no less than the last entry says, and just that
\* in a regular request.
LEMMA PutInShape ==
  ASSUME NEW entries \in Entries, NEW i
  PROVE  /\ PutIn(entries, i) \in Nat
         /\ i \notin Listed(entries) => PutIn(entries, i) = 0
         /\ i \in Listed(entries) => PutIn(entries, i) >= Last(entries, {i})
         /\ i \in Listed(entries) /\ Regular(entries) => PutIn(entries, i) = Last(entries, {i})
<1> DEFINE D == DOMAIN entries
           f == [k \in D |-> IF entries[k].item = i /\ entries[k].accepted > 0
                             THEN entries[k].accepted ELSE 0]
<1>1. IsFiniteSet(D) /\ \A k \in D : entries[k].accepted \in Int
  BY EntriesShape
<1>2. f \in [D -> Nat] /\ f \in [D -> Int]
  BY <1>1
<1>3. PutIn(entries, i) = SumFunction(f)
  BY DEF PutIn
<1>4. \A k \in D : entries[k].item = i => f[k] >= entries[k].accepted
  BY <1>1
<1>5. \A k \in D : entries[k].item # i => f[k] = 0
  OBVIOUS
<1>6. \A k \in D : entries[k].item = i /\ entries[k].accepted >= 0 => f[k] = entries[k].accepted
  BY <1>1
<1> HIDE DEF f
<1>7. SumFunction(f) \in Nat /\ \A k \in D : SumFunction(f) >= f[k]
  BY <1>1, <1>2, SumOfNaturals
<1>8. i \notin Listed(entries) => SumFunction(f) = 0
  <2>1. i \notin Listed(entries) => \A k \in D : f[k] = 0
    BY <1>5 DEF Listed
  <2> QED BY <1>1, <1>2, <2>1, SumOfZeros
<1>9. ASSUME i \in Listed(entries)
      PROVE  /\ SumFunction(f) >= Last(entries, {i})
             /\ Regular(entries) => SumFunction(f) = Last(entries, {i})
  <2>1. PICK k \in D : entries[k].item = i /\ Last(entries, {i}) = entries[k].accepted
    BY <1>9, LastIsEntry
  <2>2. SumFunction(f) >= Last(entries, {i})
    BY <1>1, <1>2, <1>4, <1>7, <2>1
  <2>3. ASSUME Regular(entries) PROVE SumFunction(f) = Last(entries, {i})
    <3>1. entries[k].accepted >= 0 /\ \A m \in D : m # k => entries[m].item # i
      BY <2>1, <2>3 DEF Regular
    <3>2. f[k] = entries[k].accepted /\ \A m \in D : m # k => f[m] = 0
      BY <1>5, <1>6, <2>1, <3>1
    <3> QED BY <1>1, <1>2, <2>1, <3>2, SumOfOne
  <2> QED BY <2>2, <2>3
<1> QED BY <1>3, <1>7, <1>8, <1>9

LEMMA StatusesDiffer ==
  /\ PRStatus \cap Missing = {} /\ POStatus \cap Missing = {}
  /\ GRNStatus \cap Missing = {} /\ "LIVE" \notin Missing
BY DEF PRStatus, POStatus, GRNStatus, Missing
-----------------------------------------------------------------------------
(* Calls in flight.                                                          *)

\* The step of a handler ends its call or replaces it.
LEMMA CallUpdate ==
  ASSUME call \in [Clients -> Call], NEW c \in Clients, NEW r,
         call' = [call EXCEPT ![c] = r]
  PROVE  /\ r \in Call => call' \in [Clients -> Call]
         /\ \A d \in Clients : call'[d] = IF d = c THEN r ELSE call[d]
OBVIOUS

\* An idle handler relies on nothing.
LEMMA IdleInStep == Idle \in Call /\ CallInStep(Idle)'
BY DEF Idle, Call, CallInStep

\* A call stays in step when the tables evolve and its locks are respected.
LEMMA CallKept ==
  ASSUME NEW r \in Call, CallInStep(r), LinesEvolve, ReceiptsEvolve,
         r.op = "received" => RowsKept(r)
  PROVE  CallInStep(r)'
<1>1. CASE r.op = "createReceipt"
  <2>1. r.items \in [DOMAIN r.items -> ReceiptItem]
    BY <1>1, CallShape, ItemsShape
  <2>2. \A i \in DOMAIN r.items : r.items[i].line \in LineIds \cup {NoLine}
    BY <2>1 DEF ReceiptItem
  <2>3. CreatesInStep(r)'
    BY <1>1, <2>2 DEF CallInStep, CreatesInStep, LinesEvolve
  <2> QED BY <1>1, <2>3 DEF CallInStep
<1>2. CASE r.op \in {"receive", "received"}
  <2>1. r.id \in Receipts
    BY <1>2, CallShape
  <2>2. ReceivesInStep(r)
    BY <1>2 DEF CallInStep
  <2>3. ReceivesInStep(r)'
    BY <2>1, <2>2 DEF ReceivesInStep, LinesEvolve, ReceiptsEvolve, Writes, ItemsOf, Listed
  <2>4. r.op = "received" => LocksHeld(r)'
    BY <1>2 DEF CallInStep, LocksHeld, RowsKept, WithinOrdered, Writes, ItemsOf, Listed
  <2> QED BY <1>2, <2>3, <2>4 DEF CallInStep
<1>3. CASE r.op \notin {"createReceipt", "receive", "received"}
  BY <1>3 DEF CallInStep
<1> QED BY <1>1, <1>2, <1>3

\* The step of a handler leaves all calls in step.
LEMMA CallsKept ==
  ASSUME TypeOK, CallsInStep, NEW c \in Clients, NEW r \in Call, CallInStep(r)',
         call' = [call EXCEPT ![c] = r], LinesEvolve, ReceiptsEvolve,
         \A d \in Clients \ {c} : call[d].op = "received" => RowsKept(call[d])
  PROVE  CallsInStep'
<1>1. \A d \in Clients : call'[d] = IF d = c THEN r ELSE call[d]
  BY CallUpdate DEF TypeOK
<1> SUFFICES ASSUME NEW d \in Clients PROVE CallInStep(call[d])'
  BY DEF CallsInStep
<1>2. PICK q : q = call'[d] /\ q = IF d = c THEN r ELSE call[d]
  BY <1>1
<1>3. CallInStep(q)'
  <2>1. CASE d = c
    BY <1>2, <2>1
  <2>2. CASE d # c
    <3>1. q \in Call /\ CallInStep(q)
      BY <1>2, <2>2 DEF CallsInStep, TypeOK
    <3>2. q.op = "received" => RowsKept(q)
      BY <1>2, <2>2
    <3> QED BY <3>1, <3>2, CallKept
  <2> QED BY <2>1, <2>2
<1> QED BY <1>2, <1>3

\* A handler that reads changes no table: all is well when what it read is in
\* step with the tables.
LEMMA OnlyCallChanges ==
  ASSUME IInv, NEW c \in Clients, NEW r \in Call, CallInStep(r),
         call' = [call EXCEPT ![c] = r], UNCHANGED tables
  PROVE  IInv'
<1>1. TypeOK'
  BY CallUpdate DEF IInv, TypeOK, tables
<1>2. ReceivedWithinOrdered' /\ ReferencesIntact'
  BY DEF IInv, ReceivedWithinOrdered, ReferencesIntact, Exists, Missing, tables
<1>3. LinesEvolve /\ ReceiptsEvolve
  BY DEF LinesEvolve, ReceiptsEvolve, tables
<1>4. ASSUME NEW q \in Call, CallInStep(q) PROVE q.op = "received" => RowsKept(q)
  BY <1>4 DEF CallInStep, LocksHeld, RowsKept, tables
<1>5. CallInStep(r)'
  BY <1>3, <1>4, CallKept
<1>6. CallsInStep'
  <2>1. ASSUME NEW d \in Clients \ {c}
        PROVE  call[d].op = "received" => RowsKept(call[d])
    BY <1>4 DEF IInv, TypeOK, CallsInStep
  <2> QED BY <1>3, <1>5, <2>1, CallsKept DEF IInv
<1> QED BY <1>1, <1>2, <1>6 DEF IInv
-----------------------------------------------------------------------------
(* The handlers that only read.                                              *)

\* Reading the rows for a handler that relies on none of them.
LEMMA BeginPlain ==
  ASSUME IInv, NEW c \in Clients, NEW r \in Call, Begin(c, r),
         r.op \notin {"createReceipt", "receive", "received"}
  PROVE  IInv'
<1>1. CallInStep(r)
  BY DEF CallInStep
<1> QED BY <1>1, OnlyCallChanges DEF Begin

LEMMA BeginRequestOrOrder ==
  ASSUME IInv, NEW c \in Clients
  PROVE  /\ \A p \in Requests, to \in PRStatus \cup {"DELETED"} :
              BeginMoveRequest(c, p, to) => IInv'
         /\ \A p \in Requests \cup {NoRequest} : BeginCreateOrder(c, p) => IInv'
         /\ \A o \in Orders, to \in POStatus : BeginMoveOrder(c, o, to) => IInv'
         /\ \A o \in Orders : BeginUpdateOrder(c, o) \/ BeginRemoveOrder(c, o) => IInv'
         /\ \A g \in Receipts : BeginInspect(c, g) \/ BeginRemoveReceipt(c, g) => IInv'
<1>1. ASSUME NEW p \in Requests, NEW to \in PRStatus \cup {"DELETED"},
             BeginMoveRequest(c, p, to)
      PROVE  IInv'
  <2> DEFINE r == [op |-> "moveRequest", id |-> p, to |-> to]
  <2>1. r \in Call /\ r.op \notin {"createReceipt", "receive", "received"}
    BY DEF Call
  <2>2. Begin(c, r)
    BY <1>1 DEF BeginMoveRequest
  <2> QED BY <2>1, <2>2, BeginPlain
<1>2. ASSUME NEW p \in Requests \cup {NoRequest}, BeginCreateOrder(c, p)
      PROVE  IInv'
  <2> DEFINE r == [op |-> "createOrder", pr |-> p]
  <2>1. r \in Call /\ r.op \notin {"createReceipt", "receive", "received"}
    BY DEF Call
  <2>2. Begin(c, r)
    BY <1>2 DEF BeginCreateOrder
  <2> QED BY <2>1, <2>2, BeginPlain
<1>3. ASSUME NEW o \in Orders, NEW to \in POStatus, BeginMoveOrder(c, o, to)
      PROVE  IInv'
  <2> DEFINE r == [op |-> "moveOrder", id |-> o, to |-> to]
  <2>1. r \in Call /\ r.op \notin {"createReceipt", "receive", "received"}
    BY DEF Call
  <2>2. Begin(c, r)
    BY <1>3 DEF BeginMoveOrder
  <2> QED BY <2>1, <2>2, BeginPlain
<1>4. ASSUME NEW o \in Orders, BeginUpdateOrder(c, o) \/ BeginRemoveOrder(c, o)
      PROVE  IInv'
  <2>1. PICK op \in {"updateOrder", "removeOrder"} : Begin(c, [op |-> op, id |-> o])
    BY <1>4 DEF BeginUpdateOrder, BeginRemoveOrder
  <2> DEFINE r == [op |-> op, id |-> o]
  <2>2. r \in Call /\ r.op \notin {"createReceipt", "receive", "received"}
    BY DEF Call
  <2> QED BY <2>1, <2>2, BeginPlain
<1>5. ASSUME NEW g \in Receipts, BeginInspect(c, g) \/ BeginRemoveReceipt(c, g)
      PROVE  IInv'
  <2>1. PICK op \in {"inspect", "removeReceipt"} : Begin(c, [op |-> op, id |-> g])
    BY <1>5 DEF BeginInspect, BeginRemoveReceipt
  <2> DEFINE r == [op |-> op, id |-> g]
  <2>2. r \in Call /\ r.op \notin {"createReceipt", "receive", "received"}
    BY DEF Call
  <2> QED BY <2>1, <2>2, BeginPlain
<1> QED BY <1>1, <1>2, <1>3, <1>4, <1>5

\* A handler that throws.
LEMMA FailKeeps ==
  ASSUME IInv, NEW c \in Clients, Fail(c) PROVE IInv'
<1>1. Idle \in Call /\ CallInStep(Idle)
  BY DEF Idle, Call, CallInStep
<1> QED BY <1>1, OnlyCallChanges DEF Fail, Done

\* A receipt about to be created names items of its order.
LEMMA BeginCreateReceiptKeeps ==
  ASSUME IInv, NEW c \in Clients, NEW o \in Orders, NEW items \in NewItems,
         BeginCreateReceipt(c, o, items)
  PROVE  IInv'
<1> DEFINE r == [op |-> "createReceipt", of |-> o, items |-> items]
<1>1. items \in ReceiptItems
  <2>1. PICK S \in SUBSET Items :
          items \in [S -> [quantity : Quantities, line : LineIds \cup {NoLine},
                           accepted : {0}]]
    BY DEF NewItems
  <2>2. items \in [S -> ReceiptItem]
    BY <2>1 DEF ReceiptItem
  <2> QED BY <2>2 DEF ReceiptItems
<1>2. r \in Call
  BY <1>1 DEF Call
<1>3. CreatesInStep(r)
  BY DEF CreatesInStep, BeginCreateReceipt, FitsOrder, LinesOf
<1>4. CallInStep(r)
  BY <1>3 DEF CallInStep
<1>5. Begin(c, r)
  BY DEF BeginCreateReceipt
<1> QED BY <1>2, <1>4, <1>5, OnlyCallChanges DEF Begin


\* What is read of a receipt and its order items is in step with them.
LEMMA BeginReceiveKeeps ==
  ASSUME IInv, NEW c \in Clients, NEW g \in Receipts, NEW entries \in Entries,
         BeginReceive(c, g, entries)
  PROVE  IInv'
<1> DEFINE items == receipt[g].items
           named == {items[i].line : i \in Listed(entries)}
           read == [l \in LineIds |-> IF l \in named THEN line[l] ELSE Absent("NONE")]
           r == [op |-> "receive", id |-> g, of |-> receipt[g].of, items |-> items,
                 entries |-> entries, read |-> read]
<1>1. Exists(receipt[g]) /\ Listed(entries) \subseteq DOMAIN items /\ Begin(c, r)
  BY DEF BeginReceive, Exists, Missing
<1>2. receipt[g] \in [status : GRNStatus, of : Orders, items : ReceiptItems]
  BY <1>1, ReceiptShape DEF IInv, TypeOK
<1>3. items \in [DOMAIN items -> ReceiptItem]
  BY <1>2, ItemsShape
<1>4. read \in LinesRead
  <2>1. line \in [LineIds -> LineRow]
    BY DEF IInv, TypeOK
  <2>2. Absent("NONE") \in LineRow
    BY DEF Absent, LineRow, Missing
  <2> HIDE DEF named
  <2> QED BY <2>1, <2>2 DEF LinesRead
<1>5. r \in Call
  <2> HIDE DEF read
  <2> QED BY <1>2, <1>4 DEF Call
<1>6. \A l \in named \cap LineIds : line[l].status = "LIVE" /\ line[l].of = receipt[g].of
  <2>1. ASSUME NEW i \in DOMAIN items, items[i].line # NoLine
        PROVE  /\ line[items[i].line].status = "LIVE"
               /\ line[items[i].line].of = receipt[g].of
    BY <1>1, <2>1 DEF IInv, ReferencesIntact
  <2> QED BY <1>1, <2>1, ProcurementAssumption
<1>7. Writes(r) = named \cap LineIds
  BY DEF Writes, ItemsOf
<1>8. ReceivesInStep(r)
  <2>1. receipt[g].status # "NONE"
    BY <1>1 DEF Exists, Missing
  <2>2. \A l \in named \cap LineIds : read[l] = line[l]
    OBVIOUS
  <2> HIDE DEF read, named
  <2> QED BY <1>1, <1>6, <1>7, <2>1, <2>2 DEF ReceivesInStep
<1>9. CallInStep(r)
  BY <1>8 DEF CallInStep
<1> HIDE DEF r
<1> QED BY <1>1, <1>5, <1>9, OnlyCallChanges DEF Begin

\* The open transaction holds the rows it wrote, none of them over its order.
LEMMA ExecuteReceiveKeeps ==
  ASSUME IInv, NEW c \in Clients, ExecuteReceive(c) PROVE IInv'
<1> DEFINE q == call[c]
           r == [op |-> "received", id |-> q.id, of |-> q.of, items |-> q.items,
                 entries |-> q.entries, read |-> q.read, status |-> StatusOfOrder(q)]
<1>1. q \in Call /\ q.op = "receive" /\ CallInStep(q)
  BY DEF IInv, TypeOK, CallsInStep, ExecuteReceive
<1>2. StatusOfOrder(q) \in POStatus
  BY DEF StatusOfOrder, POStatus
<1>3. r \in Call
  BY <1>1, <1>2, CallShape DEF Call
<1>4. Writes(r) = Writes(q) /\ WithinOrdered(r) = WithinOrdered(q)
  BY DEF Writes, ItemsOf, WithinOrdered
<1>5. ReceivesInStep(r)
  BY <1>1, <1>4 DEF CallInStep, ReceivesInStep
<1>6. LocksHeld(r)
  BY <1>4 DEF ExecuteReceive, LocksHeld
<1>7. CallInStep(r)
  BY <1>5, <1>6 DEF CallInStep
<1>8. call' = [call EXCEPT ![c] = r] /\ UNCHANGED tables
  BY DEF ExecuteReceive
<1> HIDE DEF r
<1> QED BY <1>3, <1>7, <1>8, OnlyCallChanges
-----------------------------------------------------------------------------
(* The handlers that write.                                                  *)

\* A call that ends leaves the others in step.
LEMMA DoneKeeps ==
  ASSUME TypeOK, CallsInStep, NEW c \in Clients, Done(c), LinesEvolve,
         ReceiptsEvolve,
         \A d \in Clients \ {c} : call[d].op = "received" => RowsKept(call[d])
  PROVE  CallsInStep' /\ call' \in [Clients -> Call]
<1>1. Idle \in Call /\ CallInStep(Idle)'
  BY IdleInStep
<1>2. call' = [call EXCEPT ![c] = Idle]
  BY DEF Done
<1>3. CallsInStep'
  BY <1>1, <1>2, CallsKept
<1>4. call' \in [Clients -> Call]
  BY <1>1, <1>2 DEF TypeOK
<1> QED BY <1>3, <1>4

\* When order items and receipts stay, nothing a transaction locked goes.
LEMMA UnchangedEvolve ==
  ASSUME IInv
  PROVE  /\ UNCHANGED line => LinesEvolve
         /\ UNCHANGED receipt => ReceiptsEvolve
         /\ UNCHANGED <<line, receipt>> =>
              \A d \in Clients : call[d].op = "received" => RowsKept(call[d])
<1>1. UNCHANGED line => LinesEvolve
  BY DEF LinesEvolve
<1>2. UNCHANGED receipt => ReceiptsEvolve
  BY DEF ReceiptsEvolve
<1>3. ASSUME NEW d \in Clients, call[d].op = "received", UNCHANGED <<line, receipt>>
      PROVE  RowsKept(call[d])
  BY <1>3 DEF IInv, CallsInStep, CallInStep, LocksHeld, RowsKept
<1> QED BY <1>1, <1>2, <1>3


\* New order items take new identities and have received nothing.
LEMMA InsertLinesKeeps ==
  ASSUME IInv, NEW o \in Orders, NEW quantity \in NewLines, InsertLines(o, quantity)
  PROVE  /\ line' \in [LineIds -> LineRow]
         /\ LinesEvolve /\ ReceivedWithinOrdered'
         /\ \A l \in LineIds : line[l].status = "LIVE" => line'[l] = line[l]
<1> DEFINE new(l) == [status |-> "LIVE", of |-> o, ordered |-> quantity[l], received |-> 0]
<1>1. PICK S \in SUBSET LineIds : quantity \in [S -> Quantities]
  BY DEF NewLines
<1>2. \A l \in S : new(l) \in LineRow
  BY <1>1, ProcurementAssumption DEF LineRow
<1>3. \A l \in LineIds : line'[l] = IF l \in S THEN new(l) ELSE line[l]
  BY <1>1 DEF InsertLines
<1>4. \A l \in S : line[l].status = "NONE"
  BY <1>1 DEF InsertLines
<1>5. line' \in [LineIds -> LineRow]
  <2>1. line \in [LineIds -> LineRow]
    BY DEF IInv, TypeOK
  <2>2. line' = [l \in LineIds |-> IF l \in S THEN new(l) ELSE line[l]]
    BY <1>1 DEF InsertLines
  <2> HIDE DEF new
  <2> QED BY <1>2, <2>1, <2>2
<1>6. \A l \in S : new(l).received = 0 /\ new(l).ordered = quantity[l]
  OBVIOUS
<1> HIDE DEF new
<1>7. LinesEvolve
  BY <1>3, <1>4 DEF LinesEvolve
<1>8. ReceivedWithinOrdered'
  BY <1>2, <1>3, <1>6 DEF IInv, ReceivedWithinOrdered
<1>9. \A l \in LineIds : line[l].status = "LIVE" => line'[l] = line[l]
  BY <1>3, <1>4
<1> QED BY <1>5, <1>7, <1>8, <1>9

\* Deleting order items leaves the others alone.
LEMMA DeleteLinesKeeps ==
  ASSUME IInv, NEW gone, DeleteLines(gone)
  PROVE  /\ line' \in [LineIds -> LineRow]
         /\ LinesEvolve /\ ReceivedWithinOrdered'
         /\ \A l \in LineIds \ gone : line'[l] = line[l]
<1>1. Absent("DELETED") \in LineRow /\ Absent("DELETED").status = "DELETED"
  BY DEF Absent, LineRow, Missing
<1>2. line \in [LineIds -> LineRow]
  BY DEF IInv, TypeOK
<1>3. \A l \in LineIds : line'[l] = IF l \in gone THEN Absent("DELETED") ELSE line[l]
  BY DEF DeleteLines
<1>4. line' \in [LineIds -> LineRow]
  BY <1>1, <1>2 DEF DeleteLines
<1>5. LinesEvolve
  BY <1>1, <1>3 DEF LinesEvolve
<1>6. ReceivedWithinOrdered'
  BY <1>1, <1>3 DEF IInv, ReceivedWithinOrdered
<1> QED BY <1>3, <1>4, <1>5, <1>6

\* A request that is created changes nothing else.
LEMMA CreateRequestKeeps ==
  ASSUME IInv, NEW c \in Clients, NEW p \in Requests, CreateRequest(c, p)
  PROVE  IInv'
<1>1. TypeOK'
  <2>1. request' \in [Requests -> PRStatus \cup Missing]
    BY DEF IInv, TypeOK, CreateRequest, PRStatus
  <2> QED BY <2>1 DEF IInv, TypeOK, CreateRequest
<1>2. ReceivedWithinOrdered' /\ ReferencesIntact'
  BY DEF IInv, ReceivedWithinOrdered, ReferencesIntact, Exists, CreateRequest
<1>3. CallsInStep'
  <2>1. call[c] \in Call /\ call' = [call EXCEPT ![c] = call[c]]
    BY DEF IInv, TypeOK, CreateRequest
  <2>2. PICK q : q = call[c]
    OBVIOUS
  <2>3. LinesEvolve /\ ReceiptsEvolve
    BY UnchangedEvolve DEF CreateRequest
  <2>4. \A d \in Clients : call[d].op = "received" => RowsKept(call[d])
    BY UnchangedEvolve DEF CreateRequest
  <2>5. CallInStep(q)'
    BY <2>1, <2>2, <2>3, <2>4, CallKept DEF IInv, CallsInStep
  <2> QED BY <2>1, <2>2, <2>3, <2>4, <2>5, CallsKept DEF IInv
<1> QED BY <1>1, <1>2, <1>3 DEF IInv

\* A request that moves, or is deleted and leaves its orders without one.
LEMMA CommitMoveRequestKeeps ==
  ASSUME IInv, NEW c \in Clients, CommitMoveRequest(c) PROVE IInv'
<1> DEFINE r == call[c]
<1>1. r \in Call /\ r.op = "moveRequest"
  BY DEF IInv, TypeOK, CommitMoveRequest
<1>2. r.id \in Requests /\ r.to \in PRStatus \cup {"DELETED"}
  BY <1>1, CallShape
<1>3. request' \in [Requests -> PRStatus \cup Missing]
  BY <1>2 DEF IInv, TypeOK, CommitMoveRequest, Missing
<1>4. /\ order' \in [Orders -> OrderDoc]
      /\ \A o \in Orders : order'[o].status = order[o].status
  <2>1. ASSUME NEW o \in Orders, Exists(order[o])
        PROVE  /\ [order[o] EXCEPT !.pr = NoRequest] \in OrderDoc
               /\ [order[o] EXCEPT !.pr = NoRequest].status = order[o].status
    <3>1. order[o] \in [status : POStatus, pr : Requests \cup {NoRequest}]
      BY <2>1, OrderShape DEF IInv, TypeOK
    <3> QED BY <3>1 DEF OrderDoc
  <2>2. order \in [Orders -> OrderDoc]
    BY DEF IInv, TypeOK
  <2> QED BY <2>1, <2>2 DEF CommitMoveRequest
<1>5. UNCHANGED <<line, receipt, posted>> /\ Done(c)
  BY DEF CommitMoveRequest
<1>6. CallsInStep' /\ call' \in [Clients -> Call]
  BY <1>5, UnchangedEvolve, DoneKeeps DEF IInv
<1>7. ReferencesIntact'
  <2>1. ASSUME NEW g \in Receipts, Exists(receipt[g]) PROVE receipt[g].of \in Orders
    BY <2>1, ReceiptShape DEF IInv, TypeOK
  <2> QED BY <1>4, <1>5, <2>1 DEF IInv, ReferencesIntact, Exists
<1> QED BY <1>3, <1>4, <1>5, <1>6, <1>7 DEF IInv, TypeOK, ReceivedWithinOrdered


\* What a receipt that exists refers to.
LEMMA ReceiptRefers ==
  ASSUME TypeOK, NEW g \in Receipts, Exists(receipt[g])
  PROVE  /\ receipt[g].of \in Orders
         /\ DOMAIN receipt[g].items \subseteq Items
         /\ receipt[g].items \in [DOMAIN receipt[g].items -> ReceiptItem]
         /\ \A i \in DOMAIN receipt[g].items :
              receipt[g].items[i].line \in LineIds \cup {NoLine}
<1>1. receipt[g] \in [status : GRNStatus, of : Orders, items : ReceiptItems]
  BY ReceiptShape DEF TypeOK
<1>2. receipt[g].items \in [DOMAIN receipt[g].items -> ReceiptItem]
  BY <1>1, ItemsShape
<1> QED BY <1>1, <1>2, ItemsShape DEF ReceiptItem

\* References survive when orders and order items that exist do.
LEMMA ReferencesKept ==
  ASSUME IInv, UNCHANGED receipt,
         \A o \in Orders : Exists(order[o]) => Exists(order'[o]),
         \A l \in LineIds : line[l].status = "LIVE" =>
           line'[l].status = "LIVE" /\ line'[l].of = line[l].of
  PROVE  ReferencesIntact'
<1> SUFFICES ASSUME NEW g \in Receipts, Exists(receipt[g])
    PROVE  /\ Exists(order'[receipt[g].of])
           /\ \A i \in DOMAIN receipt[g].items : receipt[g].items[i].line # NoLine =>
                /\ line'[receipt[g].items[i].line].status = "LIVE"
                /\ line'[receipt[g].items[i].line].of = receipt[g].of
  BY DEF ReferencesIntact, Exists
<1> QED BY ReceiptRefers DEF IInv, ReferencesIntact

\* A new order with lines of its own or with those of a request.
LEMMA CommitCreateOrderKeeps ==
  ASSUME IInv, NEW c \in Clients, NEW o \in Orders, NEW quantity \in NewLines,
         CommitCreateOrder(c, o, quantity)
  PROVE  IInv'
<1> DEFINE r == call[c]
           doc == [status |-> "DRAFT", pr |-> r.pr]
<1>1. r \in Call /\ r.op = "createOrder"
  BY DEF IInv, TypeOK, CommitCreateOrder
<1>2. doc \in OrderDoc /\ Exists(doc)
  BY <1>1, CallShape DEF OrderDoc, POStatus, Exists, Missing
<1>3. UNCHANGED <<request, receipt, posted>> /\ Done(c) /\ InsertLines(o, quantity)
  BY DEF CommitCreateOrder
<1>4. order' = [order EXCEPT ![o] = doc]
  BY DEF CommitCreateOrder
<1> HIDE DEF doc
<1>5. /\ order' \in [Orders -> OrderDoc]
      /\ \A p \in Orders : Exists(order[p]) => Exists(order'[p])
  BY <1>2, <1>4 DEF IInv, TypeOK
<1>6. /\ line' \in [LineIds -> LineRow]
      /\ LinesEvolve /\ ReceivedWithinOrdered'
      /\ \A l \in LineIds : line[l].status = "LIVE" => line'[l] = line[l]
  BY <1>3, InsertLinesKeeps
<1>7. ReferencesIntact'
  BY <1>3, <1>5, <1>6, ReferencesKept
<1>8. ASSUME NEW d \in Clients, call[d].op = "received" PROVE RowsKept(call[d])
  BY <1>3, <1>6, <1>8 DEF IInv, CallsInStep, CallInStep, LocksHeld, RowsKept, Writes
<1>9. CallsInStep' /\ call' \in [Clients -> Call]
  BY <1>3, <1>6, <1>8, UnchangedEvolve, DoneKeeps DEF IInv
<1> QED BY <1>3, <1>5, <1>6, <1>7, <1>9 DEF IInv, TypeOK

\* An order that is given another status.
LEMMA CommitMoveOrderKeeps ==
  ASSUME IInv, NEW c \in Clients, CommitMoveOrder(c) PROVE IInv'
<1> DEFINE r == call[c]
<1>1. r \in Call /\ r.op = "moveOrder"
  BY DEF IInv, TypeOK, CommitMoveOrder
<1>2. r.id \in Orders /\ r.to \in POStatus
  BY <1>1, CallShape
<1>3. UNCHANGED <<request, line, receipt, posted>> /\ Done(c)
  BY DEF CommitMoveOrder
<1>4. /\ order' \in [Orders -> OrderDoc]
      /\ \A p \in Orders : Exists(order[p]) => Exists(order'[p])
  <2>1. order[r.id] \in [status : POStatus, pr : Requests \cup {NoRequest}]
    BY <1>2, OrderShape DEF CommitMoveOrder, IInv, TypeOK
  <2> DEFINE doc == [order[r.id] EXCEPT !.status = r.to]
  <2>2. doc \in OrderDoc /\ Exists(doc)
    BY <1>2, <2>1, StatusesDiffer DEF OrderDoc, Exists
  <2>3. order' = [order EXCEPT ![r.id] = doc]
    BY DEF CommitMoveOrder
  <2> HIDE DEF doc
  <2> QED BY <1>2, <2>2, <2>3 DEF IInv, TypeOK
<1>5. ReferencesIntact'
  BY <1>3, <1>4, ReferencesKept
<1>6. CallsInStep' /\ call' \in [Clients -> Call]
  BY <1>3, UnchangedEvolve, DoneKeeps DEF IInv
<1> QED BY <1>3, <1>4, <1>5, <1>6 DEF IInv, TypeOK, ReceivedWithinOrdered


\* Cutting the link to deleted order items changes nothing else of the items.
LEMMA UnlinkedShape ==
  ASSUME NEW items \in ReceiptItems, NEW gone
  PROVE  /\ Unlinked(items, gone) \in ReceiptItems
         /\ DOMAIN Unlinked(items, gone) = DOMAIN items
         /\ \A i \in DOMAIN items :
              Unlinked(items, gone)[i].line =
                IF items[i].line \in gone THEN NoLine ELSE items[i].line
<1> DEFINE new(i) == IF items[i].line \in gone THEN [items[i] EXCEPT !.line = NoLine]
                     ELSE items[i]
<1>1. DOMAIN items \subseteq Items /\ items \in [DOMAIN items -> ReceiptItem]
  BY ItemsShape
<1>2. \A i \in DOMAIN items :
        /\ new(i) \in ReceiptItem
        /\ new(i).line = IF items[i].line \in gone THEN NoLine ELSE items[i].line
  BY <1>1 DEF ReceiptItem
<1>3. Unlinked(items, gone) = [i \in DOMAIN items |-> new(i)]
  BY DEF Unlinked
<1> HIDE DEF new
<1>4. Unlinked(items, gone) \in [DOMAIN items -> ReceiptItem]
  BY <1>2, <1>3
<1> QED BY <1>1, <1>2, <1>3, <1>4, ItemsShape

\* The old items of an order are deleted while nobody has written one.
LEMMA DeleteOldLinesKeeps ==
  ASSUME IInv, NEW c \in Clients, DeleteOldLines(c) PROVE IInv'
<1> DEFINE r == call[c]
           gone == LinesOf(r.id)
           next == [r EXCEPT !.op = "insertLines"]
           doc(g) == [receipt[g] EXCEPT !.items = Unlinked(receipt[g].items, gone)]
<1>1. r \in Call /\ r.op = "updateOrder"
  BY DEF IInv, TypeOK, DeleteOldLines
<1>2. next \in Call /\ next.op = "insertLines"
  BY <1>1, CallShape DEF Call
<1>3. UNCHANGED <<request, order, posted>> /\ DeleteLines(gone) /\ Unlocked(gone)
  BY DEF DeleteOldLines
<1>4. call' = [call EXCEPT ![c] = next]
  BY DEF DeleteOldLines
<1>5. /\ line' \in [LineIds -> LineRow]
      /\ LinesEvolve /\ ReceivedWithinOrdered'
      /\ \A l \in LineIds \ gone : line'[l] = line[l]
  BY <1>3, DeleteLinesKeeps
<1>6. ASSUME NEW g \in Receipts, Exists(receipt[g])
      PROVE  /\ receipt'[g] = doc(g) /\ doc(g) \in ReceiptDoc
             /\ doc(g).of = receipt[g].of /\ doc(g).status = receipt[g].status
             /\ doc(g).items = Unlinked(receipt[g].items, gone)
             /\ receipt[g].items \in ReceiptItems
  <2>1. receipt[g] \in [status : GRNStatus, of : Orders, items : ReceiptItems]
    BY <1>6, ReceiptShape DEF IInv, TypeOK
  <2>2. Unlinked(receipt[g].items, gone) \in ReceiptItems
    BY <2>1, UnlinkedShape
  <2>3. receipt'[g] = doc(g)
    BY <1>6 DEF DeleteOldLines
  <2> QED BY <2>1, <2>2, <2>3 DEF ReceiptDoc
<1>7. ASSUME NEW g \in Receipts, ~Exists(receipt[g]) PROVE receipt'[g] = receipt[g]
  BY <1>7 DEF DeleteOldLines
<1>8. receipt' = [g \in Receipts |-> receipt'[g]]
  BY DEF DeleteOldLines
<1> HIDE DEF doc, gone, next
<1>9. receipt' \in [Receipts -> ReceiptDoc]
  BY <1>6, <1>7, <1>8 DEF IInv, TypeOK
<1>10. ReceiptsEvolve
  BY <1>6, <1>7, UnlinkedShape DEF ReceiptsEvolve, Exists
<1>11. ReferencesIntact'
  <2> SUFFICES ASSUME NEW g \in Receipts, Exists(receipt'[g])
      PROVE  /\ Exists(order[receipt'[g].of])
             /\ \A i \in DOMAIN receipt'[g].items : receipt'[g].items[i].line # NoLine =>
                  /\ line'[receipt'[g].items[i].line].status = "LIVE"
                  /\ line'[receipt'[g].items[i].line].of = receipt'[g].of
    BY <1>3 DEF ReferencesIntact, Exists
  <2>1. Exists(receipt[g])
    BY <1>7
  <2>2. \A i \in DOMAIN receipt[g].items :
          receipt[g].items[i].line \in LineIds \cup {NoLine}
    BY <2>1, ReceiptRefers DEF IInv
  <2> QED BY <1>5, <1>6, <2>1, <2>2, UnlinkedShape DEF IInv, ReferencesIntact
<1>12. ASSUME NEW d \in Clients, call[d].op = "received" PROVE RowsKept(call[d])
  <2>1. Writes(call[d]) \cap gone = {} /\ Writes(call[d]) \subseteq LineIds
    BY <1>3, <1>12 DEF Unlocked, Locks, Writes
  <2>2. call[d].id \in Receipts /\ LocksHeld(call[d])
    BY <1>12, CallShape DEF IInv, TypeOK, CallsInStep, CallInStep
  <2>3. Exists(receipt'[call[d].id])
    BY <1>6, <2>2 DEF LocksHeld, Exists
  <2> QED BY <1>5, <2>1, <2>2, <2>3 DEF LocksHeld, RowsKept
<1>13. PICK q : q = next
  OBVIOUS
<1>14. CallsInStep'
  <2>1. q \in Call /\ CallInStep(q)'
    BY <1>2, <1>13 DEF CallInStep
  <2>2. call' = [call EXCEPT ![c] = q]
    BY <1>4, <1>13
  <2> QED BY <1>5, <1>10, <1>12, <2>1, <2>2, CallsKept DEF IInv
<1>15. call' \in [Clients -> Call]
  BY <1>2, <1>4 DEF IInv, TypeOK
<1> QED BY <1>3, <1>5, <1>9, <1>11, <1>14, <1>15 DEF IInv, TypeOK

\* An order whose columns and items are written.
LEMMA CommitUpdateOrderKeeps ==
  ASSUME IInv, NEW c \in Clients, NEW p \in Requests \cup {NoRequest},
         NEW quantity \in NewLines, CommitUpdateOrder(c, p, quantity)
  PROVE  IInv'
<1> DEFINE r == call[c]
<1>1. r \in Call /\ r.op \in {"updateOrder", "insertLines"}
  BY DEF IInv, TypeOK, CommitUpdateOrder
<1>2. r.id \in Orders
  BY <1>1, CallShape
<1>3. UNCHANGED <<request, receipt, posted>> /\ Done(c) /\ InsertLines(r.id, quantity)
  BY DEF CommitUpdateOrder
<1>4. /\ order' \in [Orders -> OrderDoc]
      /\ \A o \in Orders : Exists(order[o]) => Exists(order'[o])
  <2>1. order[r.id] \in [status : POStatus, pr : Requests \cup {NoRequest}]
    BY <1>2, OrderShape DEF CommitUpdateOrder, IInv, TypeOK
  <2> DEFINE doc == [order[r.id] EXCEPT !.pr = p]
  <2>2. doc \in OrderDoc /\ Exists(doc)
    BY <2>1, StatusesDiffer DEF OrderDoc, Exists
  <2>3. order' = [order EXCEPT ![r.id] = doc]
    BY DEF CommitUpdateOrder
  <2> HIDE DEF doc
  <2> QED BY <1>2, <2>2, <2>3 DEF IInv, TypeOK
<1>5. /\ line' \in [LineIds -> LineRow]
      /\ LinesEvolve /\ ReceivedWithinOrdered'
      /\ \A l \in LineIds : line[l].status = "LIVE" => line'[l] = line[l]
  BY <1>2, <1>3, InsertLinesKeeps
<1>6. ReferencesIntact'
  BY <1>3, <1>4, <1>5, ReferencesKept
<1>7. ASSUME NEW d \in Clients, call[d].op = "received" PROVE RowsKept(call[d])
  BY <1>3, <1>5, <1>7 DEF IInv, CallsInStep, CallInStep, LocksHeld, RowsKept, Writes
<1>8. CallsInStep' /\ call' \in [Clients -> Call]
  BY <1>3, <1>5, <1>7, UnchangedEvolve, DoneKeeps DEF IInv
<1> QED BY <1>3, <1>4, <1>5, <1>6, <1>8 DEF IInv, TypeOK


\* An order that is deleted with its items and receipts, when no transaction
\* has written its row.
LEMMA CommitRemoveOrderKeeps ==
  ASSUME IInv, NEW c \in Clients, CommitRemoveOrder(c) PROVE IInv'
<1> DEFINE r == call[c]
           gone == LinesOf(r.id)
           hit(g) == Exists(receipt[g]) /\ receipt[g].of = r.id
<1>1. r \in Call /\ r.op = "removeOrder"
  BY DEF IInv, TypeOK, CommitRemoveOrder
<1>2. r.id \in Orders
  BY <1>1, CallShape
<1>3. UNCHANGED <<request, posted>> /\ DeleteLines(gone) /\ Done(c)
  BY DEF CommitRemoveOrder
<1>4. /\ line' \in [LineIds -> LineRow]
      /\ LinesEvolve /\ ReceivedWithinOrdered'
      /\ \A l \in LineIds \ gone : line'[l] = line[l]
  BY <1>3, DeleteLinesKeeps
<1>5. /\ Absent("DELETED") \in OrderDoc /\ Absent("DELETED") \in ReceiptDoc
      /\ Absent("DELETED").status = "DELETED"
  BY DEF Absent, OrderDoc, ReceiptDoc, Missing
<1>6. order' \in [Orders -> OrderDoc] /\ \A o \in Orders \ {r.id} : order'[o] = order[o]
  BY <1>5 DEF IInv, TypeOK, CommitRemoveOrder
<1>7. \A g \in Receipts : receipt'[g] = IF hit(g) THEN Absent("DELETED") ELSE receipt[g]
  BY DEF CommitRemoveOrder
<1>8. receipt' \in [Receipts -> ReceiptDoc]
  BY <1>5 DEF IInv, TypeOK, CommitRemoveOrder
<1>9. ReceiptsEvolve
  BY <1>5, <1>7 DEF ReceiptsEvolve, Exists, Missing
<1>10. ReferencesIntact'
  <2> SUFFICES ASSUME NEW g \in Receipts, Exists(receipt'[g])
      PROVE  /\ Exists(order'[receipt'[g].of])
             /\ \A i \in DOMAIN receipt'[g].items : receipt'[g].items[i].line # NoLine =>
                  /\ line'[receipt'[g].items[i].line].status = "LIVE"
                  /\ line'[receipt'[g].items[i].line].of = receipt'[g].of
    BY DEF ReferencesIntact, Exists
  <2>1. receipt'[g] = receipt[g] /\ Exists(receipt[g]) /\ receipt[g].of # r.id
    BY <1>5, <1>7 DEF Exists, Missing
  <2>2. /\ receipt[g].of \in Orders
        /\ \A i \in DOMAIN receipt[g].items :
             receipt[g].items[i].line \in LineIds \cup {NoLine}
    BY <2>1, ReceiptRefers DEF IInv
  <2>3. \A i \in DOMAIN receipt[g].items : receipt[g].items[i].line # NoLine =>
          receipt[g].items[i].line \in LineIds \ gone
    BY <2>1, <2>2 DEF IInv, ReferencesIntact, LinesOf
  <2>4. Exists(order'[receipt[g].of])
    BY <1>6, <2>1, <2>2 DEF IInv, ReferencesIntact
  <2> HIDE DEF gone
  <2> QED BY <1>4, <2>1, <2>3, <2>4 DEF IInv, ReferencesIntact
<1>11. ASSUME NEW d \in Clients, call[d].op = "received" PROVE RowsKept(call[d])
  <2>1. call[d].of # r.id
    BY <1>11 DEF CommitRemoveOrder
  <2>2. /\ call[d].id \in Receipts /\ LocksHeld(call[d]) /\ ReceivesInStep(call[d])
    BY <1>11, CallShape DEF IInv, TypeOK, CallsInStep, CallInStep
  <2>3. Exists(receipt'[call[d].id])
    BY <1>7, <2>1, <2>2 DEF LocksHeld, ReceivesInStep
  <2>4. \A l \in Writes(call[d]) : l \in LineIds \ gone
    BY <2>1, <2>2 DEF LocksHeld, ReceivesInStep, LinesOf, Writes
  <2> HIDE DEF gone
  <2> QED BY <1>4, <2>2, <2>3, <2>4 DEF LocksHeld, RowsKept
<1>12. CallsInStep' /\ call' \in [Clients -> Call]
  BY <1>3, <1>4, <1>9, <1>11, DoneKeeps DEF IInv
<1> QED BY <1>3, <1>4, <1>6, <1>8, <1>10, <1>12 DEF IInv, TypeOK
-----------------------------------------------------------------------------
(* The handlers that write receipts.                                         *)

\* References survive a change of receipts that keeps what they refer to.
LEMMA ReferencesKeptByReceipts ==
  ASSUME IInv, UNCHANGED <<order, line>>,
         \A g \in Receipts : Exists(receipt'[g]) =>
           /\ Exists(receipt[g])
           /\ receipt'[g].of = receipt[g].of
           /\ DOMAIN receipt'[g].items = DOMAIN receipt[g].items
           /\ \A i \in DOMAIN receipt[g].items :
                receipt'[g].items[i].line = receipt[g].items[i].line
  PROVE  ReferencesIntact'
BY DEF IInv, ReferencesIntact, Exists

\* A receipt of an order that still exists, of items that still exist.
LEMMA CommitCreateReceiptKeeps ==
  ASSUME IInv, NEW c \in Clients, NEW g \in Receipts, CommitCreateReceipt(c, g)
  PROVE  IInv'
<1> DEFINE r == call[c]
           doc == [status |-> "PENDING", of |-> r.of, items |-> r.items]
<1>1. r \in Call /\ r.op = "createReceipt" /\ CreatesInStep(r)
  BY DEF IInv, TypeOK, CallsInStep, CallInStep, CommitCreateReceipt
<1>2. r.of \in Orders /\ r.items \in ReceiptItems
  BY <1>1, CallShape
<1>3. doc \in ReceiptDoc /\ Exists(doc)
  BY <1>2 DEF ReceiptDoc, GRNStatus, Exists, Missing
<1>4. UNCHANGED <<request, order, line, posted>> /\ Done(c)
  BY DEF CommitCreateReceipt
<1>5. receipt' = [receipt EXCEPT ![g] = doc] /\ receipt[g].status = "NONE"
  BY DEF CommitCreateReceipt
<1>6. receipt' \in [Receipts -> ReceiptDoc]
  <2> HIDE DEF doc
  <2> QED BY <1>3, <1>5 DEF IInv, TypeOK
<1>7. \A h \in Receipts : receipt'[h] = IF h = g THEN doc ELSE receipt[h]
  BY <1>5 DEF IInv, TypeOK
<1>8. ReceiptsEvolve
  BY <1>5, <1>7 DEF ReceiptsEvolve
<1>9. ReferencesIntact'
  <2>1. /\ Exists(order[doc.of])
        /\ \A i \in DOMAIN doc.items : doc.items[i].line # NoLine =>
             line[doc.items[i].line].status = "LIVE" /\ line[doc.items[i].line].of = doc.of
    BY <1>1 DEF CommitCreateReceipt, CreatesInStep
  <2> HIDE DEF doc
  <2> QED BY <1>4, <1>7, <2>1 DEF IInv, ReferencesIntact, Exists
<1>10. ASSUME NEW d \in Clients, call[d].op = "received" PROVE RowsKept(call[d])
  <2>1. call[d].id \in Receipts /\ LocksHeld(call[d])
    BY <1>10, CallShape DEF IInv, TypeOK, CallsInStep, CallInStep
  <2>2. call[d].id # g
    BY <1>5, <2>1 DEF LocksHeld, Exists, Missing
  <2> QED BY <1>4, <1>7, <2>1, <2>2 DEF LocksHeld, RowsKept
<1>11. CallsInStep' /\ call' \in [Clients -> Call]
  BY <1>4, <1>8, <1>10, UnchangedEvolve, DoneKeeps DEF IInv
<1> QED BY <1>4, <1>6, <1>9, <1>11 DEF IInv, TypeOK, ReceivedWithinOrdered

\* A receipt that is inspected.
LEMMA CommitInspectKeeps ==
  ASSUME IInv, NEW c \in Clients, CommitInspect(c) PROVE IInv'
<1> DEFINE r == call[c]
           doc == [receipt[r.id] EXCEPT !.status = "INSPECTING"]
<1>1. r \in Call /\ r.op = "inspect" /\ Exists(receipt[r.id])
  BY DEF IInv, TypeOK, CommitInspect
<1>2. r.id \in Receipts
  BY <1>1, CallShape
<1>3. receipt[r.id] \in [status : GRNStatus, of : Orders, items : ReceiptItems]
  BY <1>1, <1>2, ReceiptShape DEF IInv, TypeOK
<1>4. /\ doc \in ReceiptDoc /\ Exists(doc)
      /\ doc.of = receipt[r.id].of /\ doc.items = receipt[r.id].items
  BY <1>3 DEF ReceiptDoc, GRNStatus, Exists, Missing
<1>5. UNCHANGED <<request, order, line, posted>> /\ Done(c)
  BY DEF CommitInspect
<1>6. receipt' = [receipt EXCEPT ![r.id] = doc]
  BY DEF CommitInspect
<1> HIDE DEF doc
<1>7. receipt' \in [Receipts -> ReceiptDoc]
  BY <1>4, <1>6 DEF IInv, TypeOK
<1>8. \A g \in Receipts : receipt'[g] = IF g = r.id THEN doc ELSE receipt[g]
  BY <1>6 DEF IInv, TypeOK
<1>9. ReceiptsEvolve /\ ReferencesIntact'
  BY <1>1, <1>4, <1>5, <1>8, ReferencesKeptByReceipts DEF ReceiptsEvolve, Exists, Missing
<1>10. ASSUME NEW d \in Clients, call[d].op = "received" PROVE RowsKept(call[d])
  <2>1. call[d].id \in Receipts /\ LocksHeld(call[d])
    BY <1>10, CallShape DEF IInv, TypeOK, CallsInStep, CallInStep
  <2> QED BY <1>4, <1>5, <1>8, <2>1 DEF LocksHeld, RowsKept
<1>11. CallsInStep' /\ call' \in [Clients -> Call]
  BY <1>5, <1>9, <1>10, UnchangedEvolve, DoneKeeps DEF IInv
<1> QED BY <1>5, <1>7, <1>9, <1>11 DEF IInv, TypeOK, ReceivedWithinOrdered


\* A receipt that is deleted when no transaction has written its row.
LEMMA CommitRemoveReceiptKeeps ==
  ASSUME IInv, NEW c \in Clients, CommitRemoveReceipt(c) PROVE IInv'
<1> DEFINE r == call[c]
<1>1. r \in Call /\ r.op = "removeReceipt" /\ Exists(receipt[r.id])
  BY DEF IInv, TypeOK, CommitRemoveReceipt
<1>2. r.id \in Receipts
  BY <1>1, CallShape
<1>3. Absent("DELETED") \in ReceiptDoc /\ Absent("DELETED").status = "DELETED"
  BY DEF Absent, ReceiptDoc, Missing
<1>4. UNCHANGED <<request, order, line, posted>> /\ Done(c)
  BY DEF CommitRemoveReceipt
<1>5. receipt' = [receipt EXCEPT ![r.id] = Absent("DELETED")]
  BY DEF CommitRemoveReceipt
<1>6. receipt' \in [Receipts -> ReceiptDoc]
  BY <1>3, <1>5 DEF IInv, TypeOK
<1>7. \A g \in Receipts : receipt'[g] = IF g = r.id THEN Absent("DELETED") ELSE receipt[g]
  BY <1>5 DEF IInv, TypeOK
<1>8. ReceiptsEvolve /\ ReferencesIntact'
  BY <1>3, <1>4, <1>7, ReferencesKeptByReceipts DEF ReceiptsEvolve, Exists, Missing
<1>9. ASSUME NEW d \in Clients, call[d].op = "received" PROVE RowsKept(call[d])
  <2>1. call[d].id # r.id
    BY <1>9 DEF CommitRemoveReceipt
  <2>2. call[d].id \in Receipts /\ LocksHeld(call[d])
    BY <1>9, CallShape DEF IInv, TypeOK, CallsInStep, CallInStep
  <2> QED BY <1>4, <1>7, <2>1, <2>2 DEF LocksHeld, RowsKept
<1>10. CallsInStep' /\ call' \in [Clients -> Call]
  BY <1>4, <1>8, <1>9, UnchangedEvolve, DoneKeeps DEF IInv
<1> QED BY <1>4, <1>6, <1>8, <1>10 DEF IInv, TypeOK, ReceivedWithinOrdered

\* The sum a receipt writes to an order item is an integer, not over what was
\* ordered when every entry fits.
LEMMA NewReceivedInt ==
  ASSUME NEW r \in Call, r.op = "received", ReceivesInStep(r), NEW l \in Writes(r)
  PROVE  /\ NewReceived(r, l) \in Int
         /\ WithinOrdered(r) => NewReceived(r, l) <= r.read[l].ordered
<1>1. r.entries \in Entries /\ r.read \in LinesRead
  BY CallShape
<1>2. l \in LineIds /\ l # NoLine /\ ItemsOf(r, l) \cap Listed(r.entries) # {}
  BY ProcurementAssumption DEF Writes, ItemsOf
<1>3. PICK k \in DOMAIN r.entries :
        /\ r.entries[k].item \in ItemsOf(r, l)
        /\ Last(r.entries, ItemsOf(r, l)) = r.entries[k].accepted
  BY <1>1, <1>2, LastIsEntry
<1>4. r.items[r.entries[k].item].line = l /\ r.entries[k].accepted \in Int
  BY <1>1, <1>3, EntriesShape DEF ItemsOf
<1>5. r.read[l] \in LineRow /\ r.read[l].status = "LIVE"
  BY <1>1, <1>2 DEF ReceivesInStep, LinesRead
<1>6. r.read[l].received \in Int
  BY <1>5, LineShape
<1>7. WithinOrdered(r) => r.read[l].received + r.entries[k].accepted <= r.read[l].ordered
  BY <1>2, <1>4 DEF WithinOrdered
<1> QED BY <1>3, <1>4, <1>6, <1>7 DEF NewReceived

\* Accepting goods changes quantities and the status of a receipt only.
LEMMA AcceptedShape ==
  ASSUME TypeOK, NEW r \in Call, r.op = "received", Exists(receipt[r.id]),
         r.id \in Receipts
  PROVE  LET doc == Accepted(receipt[r.id], r) IN
         /\ doc \in ReceiptDoc /\ Exists(doc) /\ doc.of = receipt[r.id].of
         /\ DOMAIN doc.items = DOMAIN receipt[r.id].items
         /\ \A i \in DOMAIN doc.items : doc.items[i].line = receipt[r.id].items[i].line
<1> DEFINE old == receipt[r.id].items
           item(i) == IF i \in Listed(r.entries)
                      THEN [old[i] EXCEPT !.accepted = Last(r.entries, {i})] ELSE old[i]
           items == [i \in DOMAIN old |-> item(i)]
           status == IF FullyAccepted(r) THEN "RECEIVED" ELSE "PARTIAL"
           doc == Accepted(receipt[r.id], r)
<1>1. /\ receipt[r.id].of \in Orders /\ DOMAIN old \subseteq Items
      /\ old \in [DOMAIN old -> ReceiptItem]
  BY ReceiptRefers
<1>2. \A i \in Listed(r.entries) : Last(r.entries, {i}) \in Portions
  BY CallShape, LastIsPortion
<1>3. \A i \in DOMAIN old : item(i) \in ReceiptItem /\ item(i).line = old[i].line
  BY <1>1, <1>2 DEF ReceiptItem
<1>4. doc = [status |-> status, of |-> receipt[r.id].of, items |-> items]
  BY DEF Accepted
<1> HIDE DEF item
<1>5. items \in ReceiptItems
  BY <1>1, <1>3, ItemsShape
<1>6. status \in GRNStatus /\ status \notin Missing
  BY DEF GRNStatus, Missing
<1> QED BY <1>1, <1>3, <1>4, <1>5, <1>6 DEF ReceiptDoc, Exists

\* The commit writes rows its transaction has locked, and no sum over what was
\* ordered.
LEMMA CommitReceiveKeeps ==
  ASSUME IInv, NEW c \in Clients, CommitReceive(c) PROVE IInv'
<1> DEFINE r == call[c]
           doc == Accepted(receipt[r.id], r)
           row(l) == [line[l] EXCEPT !.received = NewReceived(r, l)]
           odoc == [order[r.of] EXCEPT !.status = r.status]
           in(g) == [stock   |-> [i \in Items |-> posted[g].stock[i] + PutIn(r.entries, i)],
                     regular |-> posted[g].regular /\ Regular(r.entries)]
<1>1. /\ r \in Call /\ r.op = "received"
      /\ ReceivesInStep(r) /\ LocksHeld(r)
  BY DEF IInv, TypeOK, CallsInStep, CallInStep, CommitReceive
<1>2. /\ r.id \in Receipts /\ r.of \in Orders /\ r.status \in POStatus
      /\ r.entries \in Entries
  BY <1>1, CallShape
<1>3. Exists(receipt[r.id]) /\ receipt[r.id].of = r.of /\ Exists(order[r.of])
  BY <1>1, <1>2 DEF LocksHeld, ReceivesInStep, IInv, ReferencesIntact
<1>4. Done(c) /\ UNCHANGED request
  BY DEF CommitReceive
<1>5. /\ doc \in ReceiptDoc /\ Exists(doc) /\ doc.of = receipt[r.id].of
      /\ DOMAIN doc.items = DOMAIN receipt[r.id].items
      /\ \A i \in DOMAIN doc.items : doc.items[i].line = receipt[r.id].items[i].line
  BY <1>1, <1>2, <1>3, AcceptedShape DEF IInv
<1>6. receipt' = [receipt EXCEPT ![r.id] = doc]
  BY DEF CommitReceive
<1>7. \A l \in Writes(r) :
        /\ row(l) \in LineRow
        /\ row(l).status = "LIVE" /\ row(l).of = line[l].of
        /\ row(l).ordered = line[l].ordered /\ row(l).received <= line[l].ordered
  <2> SUFFICES ASSUME NEW l \in Writes(r)
      PROVE  /\ row(l) \in LineRow
             /\ row(l).status = "LIVE" /\ row(l).of = line[l].of
             /\ row(l).ordered = line[l].ordered /\ row(l).received <= line[l].ordered
    OBVIOUS
  <2>1. l \in LineIds /\ line[l].status = "LIVE" /\ line[l].ordered = r.read[l].ordered
    BY <1>1 DEF LocksHeld, ReceivesInStep, Writes
  <2>2. line[l] \in [status : {"LIVE"}, of : Orders, ordered : Quantities, received : Int]
    BY <2>1, LineShape DEF IInv, TypeOK
  <2>3. NewReceived(r, l) \in Int /\ NewReceived(r, l) <= r.read[l].ordered
    BY <1>1, NewReceivedInt DEF LocksHeld
  <2> QED BY <2>1, <2>2, <2>3 DEF LineRow
<1>8. line' = [l \in LineIds |-> IF l \in Writes(r) THEN row(l) ELSE line[l]]
  BY DEF CommitReceive
<1>9. odoc \in OrderDoc /\ Exists(odoc)
  <2>1. order[r.of] \in [status : POStatus, pr : Requests \cup {NoRequest}]
    BY <1>2, <1>3, OrderShape DEF IInv, TypeOK
  <2> QED BY <1>2, <2>1, StatusesDiffer DEF OrderDoc, Exists
<1>10. order' = [order EXCEPT ![r.of] = odoc]
  BY DEF CommitReceive
<1>11. posted' = [posted EXCEPT ![r.id] = in(r.id)]
  BY DEF CommitReceive
<1>12. in(r.id) \in [stock : [Items -> Nat], regular : BOOLEAN]
  <2>1. \A i \in Items : PutIn(r.entries, i) \in Nat
    BY <1>2, PutInShape
  <2>2. posted[r.id] \in [stock : [Items -> Nat], regular : BOOLEAN]
    BY <1>2 DEF IInv, TypeOK
  <2>3. [i \in Items |-> posted[r.id].stock[i] + PutIn(r.entries, i)] \in [Items -> Nat]
    BY <2>1, <2>2
  <2>4. (posted[r.id].regular /\ Regular(r.entries)) \in BOOLEAN
    BY DEF Regular
  <2> QED BY <2>3, <2>4
<1> HIDE DEF doc, row, odoc, in
<1>13. posted' \in [Receipts -> [stock : [Items -> Nat], regular : BOOLEAN]]
  BY <1>2, <1>11, <1>12 DEF IInv, TypeOK
<1>14. order' \in [Orders -> OrderDoc] /\ \A o \in Orders : Exists(order[o]) => Exists(order'[o])
  BY <1>2, <1>9, <1>10 DEF IInv, TypeOK
<1>15. /\ receipt' \in [Receipts -> ReceiptDoc]
       /\ \A g \in Receipts : receipt'[g] = IF g = r.id THEN doc ELSE receipt[g]
  BY <1>2, <1>5, <1>6 DEF IInv, TypeOK
<1>16. line' \in [LineIds -> LineRow]
  BY <1>7, <1>8 DEF IInv, TypeOK
<1>17. LinesEvolve
  BY <1>7, <1>8, <1>1 DEF LinesEvolve, LocksHeld
<1>18. ReceiptsEvolve
  BY <1>3, <1>5, <1>15 DEF ReceiptsEvolve, Exists, Missing
<1>19. ReceivedWithinOrdered'
  BY <1>7, <1>8 DEF IInv, ReceivedWithinOrdered
<1>20. \A l \in LineIds : line[l].status = "LIVE" =>
         line'[l].status = "LIVE" /\ line'[l].of = line[l].of
  BY <1>7, <1>8
<1>21. ReferencesIntact'
  <2> SUFFICES ASSUME NEW g \in Receipts, Exists(receipt'[g])
      PROVE  /\ Exists(order'[receipt'[g].of])
             /\ \A i \in DOMAIN receipt'[g].items : receipt'[g].items[i].line # NoLine =>
                  /\ line'[receipt'[g].items[i].line].status = "LIVE"
                  /\ line'[receipt'[g].items[i].line].of = receipt'[g].of
    BY DEF ReferencesIntact, Exists
  <2>1. /\ Exists(receipt[g]) /\ receipt'[g].of = receipt[g].of
        /\ DOMAIN receipt'[g].items = DOMAIN receipt[g].items
        /\ \A i \in DOMAIN receipt[g].items :
             receipt'[g].items[i].line = receipt[g].items[i].line
    BY <1>3, <1>5, <1>15
  <2>2. /\ receipt[g].of \in Orders
        /\ \A i \in DOMAIN receipt[g].items :
             receipt[g].items[i].line \in LineIds \cup {NoLine}
    BY <2>1, ReceiptRefers DEF IInv
  <2> QED BY <1>14, <1>20, <2>1, <2>2 DEF IInv, ReferencesIntact
<1>22. ASSUME NEW d \in Clients, call[d].op = "received" PROVE RowsKept(call[d])
  <2>1. call[d].id \in Receipts /\ LocksHeld(call[d])
    BY <1>22, CallShape DEF IInv, TypeOK, CallsInStep, CallInStep
  <2>2. Exists(receipt'[call[d].id])
    BY <1>5, <1>15, <2>1 DEF LocksHeld
  <2> QED BY <1>20, <2>1, <2>2 DEF LocksHeld, RowsKept, Writes
<1>23. CallsInStep' /\ call' \in [Clients -> Call]
  BY <1>4, <1>17, <1>18, <1>22, DoneKeeps DEF IInv
<1> QED BY <1>4, <1>13, <1>14, <1>15, <1>16, <1>19, <1>21, <1>23 DEF IInv, TypeOK

-----------------------------------------------------------------------------
(* The theorems.                                                             *)

LEMMA InitHolds == Init => IInv
<1> SUFFICES ASSUME Init PROVE IInv
  OBVIOUS
<1>1. /\ Absent("NONE").status = "NONE"
      /\ Absent("NONE") \in OrderDoc /\ Absent("NONE") \in LineRow
      /\ Absent("NONE") \in ReceiptDoc
  BY DEF Absent, OrderDoc, LineRow, ReceiptDoc, Missing
<1>2. Idle \in Call
  BY DEF Call
<1>3. TypeOK
  BY <1>1, <1>2 DEF Init, TypeOK, Missing
<1>4. ReceivedWithinOrdered /\ ReferencesIntact
  BY <1>1 DEF Init, ReceivedWithinOrdered, ReferencesIntact, Exists, Missing
<1>5. CallsInStep
  BY DEF Init, CallsInStep, CallInStep, Idle
<1> QED BY <1>3, <1>4, <1>5 DEF IInv

LEMMA RequestStepKeeps ==
  ASSUME IInv, NEW c \in Clients, RequestStep(c) PROVE IInv'
<1>1. CASE \E p \in Requests : CreateRequest(c, p)
  BY <1>1, CreateRequestKeeps
<1>2. CASE \E p \in Requests, to \in PRStatus \cup {"DELETED"} : BeginMoveRequest(c, p, to)
  BY <1>2, BeginRequestOrOrder
<1>3. CASE CommitMoveRequest(c)
  BY <1>3, CommitMoveRequestKeeps
<1> QED BY <1>1, <1>2, <1>3 DEF RequestStep

LEMMA OrderStepKeeps ==
  ASSUME IInv, NEW c \in Clients, OrderStep(c) PROVE IInv'
<1>1. CASE \E p \in Requests \cup {NoRequest} : BeginCreateOrder(c, p)
  BY <1>1, BeginRequestOrOrder
<1>2. CASE \E o \in Orders, quantity \in NewLines : CommitCreateOrder(c, o, quantity)
  BY <1>2, CommitCreateOrderKeeps
<1>3. CASE \E o \in Orders, to \in POStatus : BeginMoveOrder(c, o, to)
  BY <1>3, BeginRequestOrOrder
<1>4. CASE \E o \in Orders : BeginUpdateOrder(c, o) \/ BeginRemoveOrder(c, o)
  BY <1>4, BeginRequestOrOrder
<1>5. CASE CommitMoveOrder(c)
  BY <1>5, CommitMoveOrderKeeps
<1>6. CASE DeleteOldLines(c)
  BY <1>6, DeleteOldLinesKeeps
<1>7. CASE \E p \in Requests \cup {NoRequest}, quantity \in NewLines :
             CommitUpdateOrder(c, p, quantity)
  BY <1>7, CommitUpdateOrderKeeps
<1>8. CASE CommitRemoveOrder(c)
  BY <1>8, CommitRemoveOrderKeeps
<1> QED BY <1>1, <1>2, <1>3, <1>4, <1>5, <1>6, <1>7, <1>8 DEF OrderStep

LEMMA ReceiptStepKeeps ==
  ASSUME IInv, NEW c \in Clients, ReceiptStep(c) PROVE IInv'
<1>1. CASE \E o \in Orders, items \in NewItems : BeginCreateReceipt(c, o, items)
  BY <1>1, BeginCreateReceiptKeeps
<1>2. CASE \E g \in Receipts : CommitCreateReceipt(c, g)
  BY <1>2, CommitCreateReceiptKeeps
<1>3. CASE \E g \in Receipts : BeginInspect(c, g) \/ BeginRemoveReceipt(c, g)
  BY <1>3, BeginRequestOrOrder
<1>4. CASE \E g \in Receipts, entries \in Entries : BeginReceive(c, g, entries)
  BY <1>4, BeginReceiveKeeps
<1>5. CASE CommitInspect(c)
  BY <1>5, CommitInspectKeeps
<1>6. CASE CommitRemoveReceipt(c)
  BY <1>6, CommitRemoveReceiptKeeps
<1>7. CASE ExecuteReceive(c)
  BY <1>7, ExecuteReceiveKeeps
<1>8. CASE CommitReceive(c)
  BY <1>8, CommitReceiveKeeps
<1> QED BY <1>1, <1>2, <1>3, <1>4, <1>5, <1>6, <1>7, <1>8 DEF ReceiptStep

LEMMA StutterKeeps ==
  ASSUME IInv, UNCHANGED vars PROVE IInv'
<1>1. TypeOK' /\ ReceivedWithinOrdered' /\ ReferencesIntact'
  BY DEF IInv, vars, TypeOK, ReceivedWithinOrdered, ReferencesIntact, Exists
<1>2. LinesEvolve /\ ReceiptsEvolve
  BY UnchangedEvolve DEF vars
<1>3. \A d \in Clients : call[d].op = "received" => RowsKept(call[d])
  BY UnchangedEvolve DEF vars
<1>4. CallsInStep'
  <2> SUFFICES ASSUME NEW d \in Clients PROVE CallInStep(call[d])'
    BY DEF CallsInStep
  <2>1. PICK q : q = call[d]
    OBVIOUS
  <2>2. CallInStep(q)'
    BY <1>2, <1>3, <2>1, CallKept DEF IInv, TypeOK, CallsInStep
  <2>3. q = call'[d]
    BY <2>1 DEF vars
  <2> QED BY <2>2, <2>3
<1> QED BY <1>1, <1>4 DEF IInv

\* Every step of every handler keeps the invariant.
THEOREM InvariantHolds == Spec => []IInv
<1>1. Init => IInv
  BY InitHolds
<1>2. IInv /\ [Next]_vars => IInv'
  <2> SUFFICES ASSUME IInv, [Next]_vars PROVE IInv'
    OBVIOUS
  <2>1. ASSUME NEW c \in Clients, RequestStep(c) PROVE IInv'
    BY <2>1, RequestStepKeeps
  <2>2. ASSUME NEW c \in Clients, OrderStep(c) PROVE IInv'
    BY <2>2, OrderStepKeeps
  <2>3. ASSUME NEW c \in Clients, ReceiptStep(c) PROVE IInv'
    BY <2>3, ReceiptStepKeeps
  <2>4. ASSUME NEW c \in Clients, Fail(c) PROVE IInv'
    BY <2>4, FailKeeps
  <2>5. CASE UNCHANGED vars
    BY <2>5, StutterKeeps
  <2> QED BY <2>1, <2>2, <2>3, <2>4, <2>5 DEF Next
<1> QED BY <1>1, <1>2, PTL DEF Spec

\* Every table and every handler in flight stays in its range.
THEOREM TypeCorrect == Spec => []TypeOK
<1>1. IInv => TypeOK
  BY DEF IInv
<1> QED BY <1>1, InvariantHolds, PTL

\* No order item receives more than was ordered, whatever the number of
\* handlers that receive goods for it at a time.
THEOREM NeverMoreThanOrdered == Spec => []ReceivedWithinOrdered
<1>1. IInv => ReceivedWithinOrdered
  BY DEF IInv
<1> QED BY <1>1, InvariantHolds, PTL

\* A receipt always belongs to an order that exists, its items to items of it.
THEOREM ReferencesAlwaysIntact == Spec => []ReferencesIntact
<1>1. IInv => ReferencesIntact
  BY DEF IInv
<1> QED BY <1>1, InvariantHolds, PTL

\* What the schema promises holds however many handlers write at a time.
THEOREM SchemaAlwaysKept == Spec => []SchemaKept
<1>1. IInv => SchemaKept
  BY DEF IInv, SchemaKept
<1> QED BY <1>1, InvariantHolds, PTL

\* What handlers in flight rely on is always true of the tables.
THEOREM CallsAlwaysInStep == Spec => []CallsInStep
<1>1. IInv => CallsInStep
  BY DEF IInv
<1> QED BY <1>1, InvariantHolds, PTL
-----------------------------------------------------------------------------
(* When the handlers run one after the other, what was put into stock for a  *)
(* receipt is what the receipt says.  Two handlers at a time break it (run   *)
(* DoubleReceipt).                                                           *)
(*                                                                           *)
(* A receipt's goods are accepted once because its status leaves PENDING and *)
(* INSPECTING for good, and stay accounted for because a receipt in any      *)
(* other status cannot be deleted: not by itself, and not with its order,    *)
(* which has not been a draft since.                                         *)

\* There is one client at most.
Serial == \A c, d \in Clients : c = d

\* Nothing is accepted of a receipt before its goods are received.
NothingAcceptedYet ==
  \A g \in Receipts : Exists(receipt[g]) /\ ~Settled(receipt[g]) =>
    \A i \in DOMAIN receipt[g].items : receipt[g].items[i].accepted = 0

\* An order goods were received for is no draft.
ReceivedIsNoDraft ==
  \A g \in Receipts : Exists(receipt[g]) /\ Settled(receipt[g]) =>
    order[receipt[g].of].status # "DRAFT"

\* What the handler has checked is still so.
StillSo(r) ==
  /\ r.op \in {"receive", "received"} =>
       Exists(receipt[r.id]) /\ ~Settled(receipt[r.id])
  /\ r.op = "received" => r.status = StatusOfOrder(r)
  /\ r.op = "createReceipt" => \A i \in DOMAIN r.items : r.items[i].accepted = 0
  /\ r.op \in {"inspect", "removeReceipt"} => ~Settled(receipt[r.id])
  /\ r.op = "removeOrder" => order[r.id].status = "DRAFT"
  /\ r.op = "moveOrder" =>
       r.to # "DRAFT" /\ order[r.id].status \notin {"RECEIVED", "CANCELLED"}

AllStillSo == \A c \in Clients : StillSo(call[c])

\* Stock of item i for a receipt agrees with it.
StockMatches(doc, put, i) ==
  LET accepted == IF Exists(doc) /\ i \in DOMAIN doc.items THEN doc.items[i].accepted ELSE 0
  IN /\ put.stock[i] # 0 => Settled(doc)
     /\ put.stock[i] >= accepted
     /\ put.regular => put.stock[i] = accepted

Books == StockMatchesReceipts /\ NothingAcceptedYet /\ ReceivedIsNoDraft

SInv == IInv /\ Books /\ AllStillSo

-----------------------------------------------------------------------------
(* The only call.                                                            *)

\* The client that steps is the only one: what becomes of its call is all
\* there is to show of calls.
LEMMA OnlyCall ==
  ASSUME Serial, TypeOK, NEW c \in Clients, NEW r, StillSo(r)',
         call' = [call EXCEPT ![c] = r]
  PROVE  AllStillSo'
<1> SUFFICES ASSUME NEW d \in Clients PROVE StillSo(call[d])'
  BY DEF AllStillSo
<1>1. d = c
  BY DEF Serial
<1>2. r = call'[d]
  BY <1>1 DEF TypeOK
<1> QED BY <1>2

\* A handler that is done relies on nothing.
LEMMA DoneStillSo ==
  ASSUME Serial, TypeOK, NEW c \in Clients, Done(c) PROVE AllStillSo'
<1>1. StillSo(Idle)'
  BY DEF StillSo, Idle
<1>2. call' = [call EXCEPT ![c] = Idle]
  BY DEF Done
<1>3. PICK r : r = Idle
  OBVIOUS
<1>4. StillSo(r)'
  BY <1>1, <1>3
<1> QED BY <1>2, <1>3, <1>4, OnlyCall

\* What a transaction found out about an order only depends on the tables.
LEMMA StatusKept ==
  ASSUME NEW r, UNCHANGED <<line, receipt, order>>, StillSo(r)
  PROVE  StillSo(r)'
<1>1. LinesOf(r.of)' = LinesOf(r.of)
  BY DEF LinesOf
<1>2. \A l : Seen(r, l)' = Seen(r, l)
  BY DEF Seen, Writes, ItemsOf, NewReceived
<1>3. StatusOfOrder(r)' = StatusOfOrder(r)
  BY <1>1, <1>2 DEF StatusOfOrder
<1> QED BY <1>3 DEF StillSo, Exists, Settled
-----------------------------------------------------------------------------
(* The books.                                                                *)

\* A receipt keeps its status, its order and what it has accepted.
SameReceipt(g) ==
  /\ receipt'[g].status = receipt[g].status
  /\ Exists(receipt[g]) =>
       /\ receipt'[g].of = receipt[g].of
       /\ DOMAIN receipt'[g].items = DOMAIN receipt[g].items
       /\ \A i \in DOMAIN receipt[g].items :
            receipt'[g].items[i].accepted = receipt[g].items[i].accepted

\* No order that exists becomes a draft.
NoNewDraft ==
  \A o \in Orders : Exists(order[o]) /\ order'[o].status = "DRAFT" =>
    order[o].status = "DRAFT"

\* Steps that leave receipts alone.
LEMMA QuietKeepsBooks ==
  ASSUME IInv, Books, UNCHANGED posted, \A g \in Receipts : SameReceipt(g), NoNewDraft
  PROVE  Books'
<1>1. \A g \in Receipts : Exists(receipt'[g]) <=> Exists(receipt[g])
  BY DEF SameReceipt, Exists
<1>2. StockMatchesReceipts'
  BY <1>1 DEF Books, StockMatchesReceipts, SameReceipt, Exists, Settled
<1>3. NothingAcceptedYet'
  BY <1>1 DEF Books, NothingAcceptedYet, SameReceipt, Exists, Settled
<1>4. ReceivedIsNoDraft'
  <2> SUFFICES ASSUME NEW g \in Receipts, Exists(receipt'[g]), Settled(receipt'[g])
      PROVE  order'[receipt'[g].of].status # "DRAFT"
    BY DEF ReceivedIsNoDraft, Exists, Settled
  <2>1. /\ Exists(receipt[g]) /\ Settled(receipt[g])
        /\ receipt'[g].of = receipt[g].of
    BY <1>1 DEF SameReceipt, Settled
  <2>2. receipt[g].of \in Orders
    BY <2>1, ReceiptRefers DEF IInv
  <2>3. Exists(order[receipt[g].of]) /\ order[receipt[g].of].status # "DRAFT"
    BY <2>1 DEF IInv, ReferencesIntact, Books, ReceivedIsNoDraft
  <2> QED BY <2>1, <2>2, <2>3 DEF NoNewDraft
<1> QED BY <1>2, <1>3, <1>4 DEF Books

LEMMA SameTables ==
  ASSUME IInv, Books
  PROVE  /\ UNCHANGED receipt => \A g \in Receipts : SameReceipt(g)
         /\ UNCHANGED order => NoNewDraft
         /\ UNCHANGED tables => Books'
<1>1. UNCHANGED receipt => \A g \in Receipts : SameReceipt(g)
  BY DEF SameReceipt
<1>2. UNCHANGED order => NoNewDraft
  BY DEF NoNewDraft
<1> QED BY <1>1, <1>2, QuietKeepsBooks DEF tables

\* Of a receipt whose goods are not received nothing is in stock.
LEMMA NothingInStock ==
  ASSUME Books, NEW g \in Receipts, ~Settled(receipt[g]), NEW i \in Items
  PROVE  posted[g].stock[i] = 0
BY DEF Books, StockMatchesReceipts, NothingAcceptedYet

-----------------------------------------------------------------------------
(* Requests and orders.                                                      *)

LEMMA ReadsStill ==
  ASSUME Serial, SInv, NEW c \in Clients, NEW r, Begin(c, r), StillSo(r)
  PROVE  Books' /\ AllStillSo'
<1>1. Books'
  BY SameTables DEF SInv, Begin
<1>2. StillSo(r)'
  BY StatusKept DEF Begin, tables
<1> QED BY <1>1, <1>2, OnlyCall DEF SInv, IInv, Begin

LEMMA RequestStepStill ==
  ASSUME Serial, SInv, NEW c \in Clients, RequestStep(c)
  PROVE  Books' /\ AllStillSo'
<1>1. ASSUME NEW p \in Requests, CreateRequest(c, p) PROVE Books' /\ AllStillSo'
  <2>1. Books'
    BY <1>1, SameTables, QuietKeepsBooks DEF SInv, CreateRequest
  <2>2. PICK r : r = call[c]
    OBVIOUS
  <2>3. StillSo(r)'
    BY <1>1, <2>2, StatusKept DEF SInv, AllStillSo, CreateRequest
  <2>4. call' = [call EXCEPT ![c] = r]
    BY <1>1, <2>2 DEF SInv, IInv, TypeOK, CreateRequest
  <2> QED BY <2>1, <2>3, <2>4, OnlyCall DEF SInv, IInv
<1>2. ASSUME NEW p \in Requests, NEW to \in PRStatus \cup {"DELETED"},
             BeginMoveRequest(c, p, to)
      PROVE  Books' /\ AllStillSo'
  <2> DEFINE r == [op |-> "moveRequest", id |-> p, to |-> to]
  <2>1. Begin(c, r) /\ StillSo(r)
    BY <1>2 DEF BeginMoveRequest, StillSo
  <2> QED BY <2>1, ReadsStill
<1>3. CASE CommitMoveRequest(c)
  <2>1. \A o \in Orders : order'[o].status = order[o].status
    <3>1. ASSUME NEW o \in Orders, Exists(order[o])
          PROVE  [order[o] EXCEPT !.pr = NoRequest].status = order[o].status
      <4>1. order[o] \in [status : POStatus, pr : Requests \cup {NoRequest}]
        BY <3>1, OrderShape DEF SInv, IInv, TypeOK
      <4> QED BY <4>1
    <3> QED BY <1>3, <3>1 DEF CommitMoveRequest
  <2>2. UNCHANGED <<line, receipt, posted>> /\ Done(c)
    BY <1>3 DEF CommitMoveRequest
  <2>3. NoNewDraft
    BY <2>1 DEF NoNewDraft
  <2> QED BY <2>2, <2>3, SameTables, QuietKeepsBooks, DoneStillSo DEF SInv, IInv
<1> QED BY <1>1, <1>2, <1>3 DEF RequestStep

\* Cutting the link to deleted order items leaves what was accepted.
LEMMA UnlinkedKeepsAccepted ==
  ASSUME NEW items \in ReceiptItems, NEW gone
  PROVE  \A i \in DOMAIN items :
           Unlinked(items, gone)[i].accepted = items[i].accepted
<1>1. items \in [DOMAIN items -> ReceiptItem]
  BY ItemsShape
<1>2. \A i \in DOMAIN items :
        [items[i] EXCEPT !.line = NoLine].accepted = items[i].accepted
  BY <1>1 DEF ReceiptItem
<1> QED BY <1>2 DEF Unlinked

LEMMA OrderBeginsStill ==
  ASSUME Serial, SInv, NEW c \in Clients
  PROVE  /\ \A p \in Requests \cup {NoRequest} :
              BeginCreateOrder(c, p) => Books' /\ AllStillSo'
         /\ \A o \in Orders, to \in POStatus :
              BeginMoveOrder(c, o, to) => Books' /\ AllStillSo'
         /\ \A o \in Orders : BeginUpdateOrder(c, o) \/ BeginRemoveOrder(c, o) =>
              Books' /\ AllStillSo'
<1>1. ASSUME NEW p \in Requests \cup {NoRequest}, BeginCreateOrder(c, p)
      PROVE  Books' /\ AllStillSo'
  <2> DEFINE r == [op |-> "createOrder", pr |-> p]
  <2>1. Begin(c, r) /\ StillSo(r)
    BY <1>1 DEF BeginCreateOrder, StillSo
  <2> QED BY <2>1, ReadsStill
<1>2. ASSUME NEW o \in Orders, NEW to \in POStatus, BeginMoveOrder(c, o, to)
      PROVE  Books' /\ AllStillSo'
  <2> DEFINE r == [op |-> "moveOrder", id |-> o, to |-> to]
  <2>1. to # "DRAFT" /\ order[o].status \notin {"RECEIVED", "CANCELLED"}
    BY <1>2 DEF BeginMoveOrder, AllowedTransitions
  <2>2. Begin(c, r) /\ StillSo(r)
    BY <1>2, <2>1 DEF BeginMoveOrder, StillSo
  <2> QED BY <2>2, ReadsStill
<1>3. ASSUME NEW o \in Orders, BeginUpdateOrder(c, o) PROVE Books' /\ AllStillSo'
  <2> DEFINE r == [op |-> "updateOrder", id |-> o]
  <2>1. Begin(c, r) /\ StillSo(r)
    BY <1>3 DEF BeginUpdateOrder, StillSo
  <2> QED BY <2>1, ReadsStill
<1>4. ASSUME NEW o \in Orders, BeginRemoveOrder(c, o) PROVE Books' /\ AllStillSo'
  <2> DEFINE r == [op |-> "removeOrder", id |-> o]
  <2>1. Begin(c, r) /\ StillSo(r)
    BY <1>4 DEF BeginRemoveOrder, StillSo
  <2> QED BY <2>1, ReadsStill
<1> QED BY <1>1, <1>2, <1>3, <1>4

\* The writes of orders that leave receipts alone: none makes an order a draft
\* that was there before.
LEMMA OrderWritesStill ==
  ASSUME Serial, SInv, NEW c \in Clients
  PROVE  /\ \A o \in Orders, quantity \in NewLines :
              CommitCreateOrder(c, o, quantity) => Books' /\ AllStillSo'
         /\ CommitMoveOrder(c) => Books' /\ AllStillSo'
         /\ \A p \in Requests \cup {NoRequest}, quantity \in NewLines :
              CommitUpdateOrder(c, p, quantity) => Books' /\ AllStillSo'
<1>1. ASSUME NEW o \in Orders, NEW quantity \in NewLines,
             CommitCreateOrder(c, o, quantity)
      PROVE  Books' /\ AllStillSo'
  <2>1. UNCHANGED <<receipt, posted>> /\ Done(c)
    BY <1>1 DEF CommitCreateOrder
  <2>2. ~Exists(order[o]) /\ \A p \in Orders \ {o} : order'[p] = order[p]
    BY <1>1 DEF CommitCreateOrder, SInv, IInv, TypeOK, Exists, Missing
  <2>3. NoNewDraft
    BY <2>2 DEF NoNewDraft
  <2> QED BY <2>1, <2>3, SameTables, QuietKeepsBooks, DoneStillSo DEF SInv, IInv
<1>2. ASSUME CommitMoveOrder(c) PROVE Books' /\ AllStillSo'
  <2>1. UNCHANGED <<receipt, posted>> /\ Done(c)
    BY <1>2 DEF CommitMoveOrder
  <2>2. call[c] \in Call /\ call[c].op = "moveOrder" /\ StillSo(call[c])
    BY <1>2 DEF CommitMoveOrder, SInv, IInv, TypeOK, AllStillSo
  <2>3. call[c].id \in Orders /\ call[c].to # "DRAFT"
    BY <2>2, CallShape DEF StillSo
  <2>4. order[call[c].id] \in [status : POStatus, pr : Requests \cup {NoRequest}]
    BY <1>2, <2>3, OrderShape DEF CommitMoveOrder, SInv, IInv, TypeOK
  <2>5. NoNewDraft
    BY <1>2, <2>3, <2>4 DEF CommitMoveOrder, NoNewDraft, SInv, IInv, TypeOK
  <2> QED BY <2>1, <2>5, SameTables, QuietKeepsBooks, DoneStillSo DEF SInv, IInv
<1>3. ASSUME NEW p \in Requests \cup {NoRequest}, NEW quantity \in NewLines,
             CommitUpdateOrder(c, p, quantity)
      PROVE  Books' /\ AllStillSo'
  <2>1. UNCHANGED <<receipt, posted>> /\ Done(c)
    BY <1>3 DEF CommitUpdateOrder
  <2>2. call[c] \in Call /\ call[c].op \in {"updateOrder", "insertLines"}
    BY <1>3 DEF CommitUpdateOrder, SInv, IInv, TypeOK
  <2>3. call[c].id \in Orders
    BY <2>2, CallShape
  <2>4. order[call[c].id] \in [status : POStatus, pr : Requests \cup {NoRequest}]
    BY <1>3, <2>3, OrderShape DEF CommitUpdateOrder, SInv, IInv, TypeOK
  <2>5. NoNewDraft
    BY <1>3, <2>3, <2>4 DEF CommitUpdateOrder, NoNewDraft, SInv, IInv, TypeOK
  <2> QED BY <2>1, <2>5, SameTables, QuietKeepsBooks, DoneStillSo DEF SInv, IInv
<1> QED BY <1>1, <1>2, <1>3

\* Deleting order items changes no quantity of a receipt.
LEMMA DeleteOldLinesStill ==
  ASSUME Serial, SInv, NEW c \in Clients, DeleteOldLines(c)
  PROVE  Books' /\ AllStillSo'
<1> DEFINE gone == LinesOf(call[c].id)
<1>1. \A g \in Receipts : SameReceipt(g)
  <2> SUFFICES ASSUME NEW g \in Receipts PROVE SameReceipt(g)
    OBVIOUS
  <2>1. CASE Exists(receipt[g])
    <3>1. receipt[g] \in [status : GRNStatus, of : Orders, items : ReceiptItems]
      BY <2>1, ReceiptShape DEF SInv, IInv, TypeOK
    <3>2. receipt'[g] = [receipt[g] EXCEPT !.items = Unlinked(receipt[g].items, gone)]
      BY <2>1 DEF DeleteOldLines
    <3> HIDE DEF gone
    <3>3. /\ receipt'[g].status = receipt[g].status
          /\ receipt'[g].of = receipt[g].of
          /\ receipt'[g].items = Unlinked(receipt[g].items, gone)
      BY <3>1, <3>2
    <3> QED BY <3>1, <3>3, UnlinkedShape, UnlinkedKeepsAccepted DEF SameReceipt
  <2>2. CASE ~Exists(receipt[g])
    BY <2>2 DEF DeleteOldLines, SameReceipt
  <2> QED BY <2>1, <2>2
<1>2. Books'
  BY <1>1, SameTables, QuietKeepsBooks DEF SInv, DeleteOldLines
<1>3. PICK r : r = [call[c] EXCEPT !.op = "insertLines"]
  OBVIOUS
<1>4. r.op = "insertLines" /\ call' = [call EXCEPT ![c] = r]
  <2>1. call[c] \in Call /\ call[c].op = "updateOrder"
    BY DEF DeleteOldLines, SInv, IInv, TypeOK
  <2>2. call[c] \in [op : {"updateOrder", "insertLines", "removeOrder"}, id : Orders]
    BY <2>1, CallShape
  <2> QED BY <1>3, <2>2 DEF DeleteOldLines
<1>5. StillSo(r)'
  BY <1>4 DEF StillSo
<1> QED BY <1>2, <1>4, <1>5, OnlyCall DEF SInv, IInv

\* An order that is deleted is a draft: nothing of it is in stock.
LEMMA CommitRemoveOrderStill ==
  ASSUME Serial, SInv, NEW c \in Clients, CommitRemoveOrder(c)
  PROVE  Books' /\ AllStillSo'
<1> DEFINE r == call[c]
           hit(g) == Exists(receipt[g]) /\ receipt[g].of = r.id
<1>1. r \in Call /\ r.op = "removeOrder" /\ order[r.id].status = "DRAFT"
  BY DEF SInv, IInv, TypeOK, AllStillSo, StillSo, CommitRemoveOrder
<1>2. r.id \in Orders
  BY <1>1, CallShape
<1>3. UNCHANGED posted /\ Done(c)
  BY DEF CommitRemoveOrder
<1>4. \A g \in Receipts : receipt'[g] = IF hit(g) THEN Absent("DELETED") ELSE receipt[g]
  BY DEF CommitRemoveOrder
<1>5. Absent("DELETED").status = "DELETED"
  BY DEF Absent
<1>6. \A g \in Receipts : hit(g) => ~Settled(receipt[g])
  BY <1>1 DEF SInv, Books, ReceivedIsNoDraft
<1>7. \A g \in Receipts : hit(g) =>
        ~Exists(receipt'[g]) /\ \A i \in Items : posted[g].stock[i] = 0
  BY <1>4, <1>5, <1>6, NothingInStock DEF SInv, Exists, Missing
<1>8. \A g \in Receipts : ~hit(g) => receipt'[g] = receipt[g]
  BY <1>4
<1> HIDE DEF hit
<1>9. StockMatchesReceipts'
  BY <1>3, <1>7, <1>8 DEF SInv, Books, StockMatchesReceipts, Exists
<1>10. NothingAcceptedYet'
  BY <1>7, <1>8 DEF SInv, Books, NothingAcceptedYet, Exists, Settled
<1>11. ReceivedIsNoDraft'
  <2> SUFFICES ASSUME NEW g \in Receipts, Exists(receipt'[g]), Settled(receipt'[g])
      PROVE  order'[receipt'[g].of].status # "DRAFT"
    BY DEF ReceivedIsNoDraft, Exists, Settled
  <2>1. receipt'[g] = receipt[g] /\ Exists(receipt[g]) /\ ~hit(g)
    BY <1>7, <1>8
  <2>2. receipt[g].of \in Orders /\ receipt[g].of # r.id
    BY <2>1, ReceiptRefers DEF SInv, IInv, hit
  <2>3. order'[receipt[g].of] = order[receipt[g].of]
    BY <2>2 DEF CommitRemoveOrder, SInv, IInv, TypeOK
  <2> QED BY <2>1, <2>3 DEF SInv, Books, ReceivedIsNoDraft
<1> QED BY <1>3, <1>9, <1>10, <1>11, DoneStillSo DEF SInv, IInv, Books

LEMMA OrderStepStill ==
  ASSUME Serial, SInv, NEW c \in Clients, OrderStep(c)
  PROVE  Books' /\ AllStillSo'
<1>1. CASE \E p \in Requests \cup {NoRequest} : BeginCreateOrder(c, p)
  BY <1>1, OrderBeginsStill
<1>2. CASE \E o \in Orders, quantity \in NewLines : CommitCreateOrder(c, o, quantity)
  BY <1>2, OrderWritesStill
<1>3. CASE \E o \in Orders, to \in POStatus : BeginMoveOrder(c, o, to)
  BY <1>3, OrderBeginsStill
<1>4. CASE \E o \in Orders : BeginUpdateOrder(c, o) \/ BeginRemoveOrder(c, o)
  BY <1>4, OrderBeginsStill
<1>5. CASE CommitMoveOrder(c)
  BY <1>5, OrderWritesStill
<1>6. CASE DeleteOldLines(c)
  BY <1>6, DeleteOldLinesStill
<1>7. CASE \E p \in Requests \cup {NoRequest}, quantity \in NewLines :
             CommitUpdateOrder(c, p, quantity)
  BY <1>7, OrderWritesStill
<1>8. CASE CommitRemoveOrder(c)
  BY <1>8, CommitRemoveOrderStill
<1> QED BY <1>1, <1>2, <1>3, <1>4, <1>5, <1>6, <1>7, <1>8 DEF OrderStep
-----------------------------------------------------------------------------
(* Receipts.                                                                 *)

LEMMA ReceiptReadsStill ==
  ASSUME Serial, SInv, NEW c \in Clients
  PROVE  /\ \A o \in Orders, items \in NewItems :
              BeginCreateReceipt(c, o, items) => Books' /\ AllStillSo'
         /\ \A g \in Receipts : BeginInspect(c, g) \/ BeginRemoveReceipt(c, g) =>
              Books' /\ AllStillSo'
         /\ \A g \in Receipts, entries \in Entries :
              BeginReceive(c, g, entries) => Books' /\ AllStillSo'
         /\ ExecuteReceive(c) => Books' /\ AllStillSo'
<1>1. ASSUME NEW o \in Orders, NEW items \in NewItems,
             BeginCreateReceipt(c, o, items)
      PROVE  Books' /\ AllStillSo'
  <2> DEFINE r == [op |-> "createReceipt", of |-> o, items |-> items]
  <2>1. PICK S \in SUBSET Items :
          items \in [S -> [quantity : Quantities, line : LineIds \cup {NoLine},
                           accepted : {0}]]
    BY DEF NewItems
  <2>2. \A i \in DOMAIN items : items[i].accepted = 0
    BY <2>1
  <2>3. Begin(c, r) /\ StillSo(r)
    BY <1>1, <2>2 DEF BeginCreateReceipt, StillSo
  <2> QED BY <2>3, ReadsStill
<1>2. ASSUME NEW g \in Receipts, BeginInspect(c, g) \/ BeginRemoveReceipt(c, g)
      PROVE  Books' /\ AllStillSo'
  <2>1. PICK op \in {"inspect", "removeReceipt"} : Begin(c, [op |-> op, id |-> g])
    BY <1>2 DEF BeginInspect, BeginRemoveReceipt
  <2> DEFINE r == [op |-> op, id |-> g]
  <2>2. ~Settled(receipt[g])
    BY <1>2 DEF BeginInspect, BeginRemoveReceipt, Settled
  <2>3. StillSo(r)
    BY <2>2 DEF StillSo
  <2> QED BY <2>1, <2>3, ReadsStill
<1>3. ASSUME NEW g \in Receipts, NEW entries \in Entries,
             BeginReceive(c, g, entries)
      PROVE  Books' /\ AllStillSo'
  <2>1. Exists(receipt[g]) /\ ~Settled(receipt[g])
    BY <1>3 DEF BeginReceive, Exists, Missing, Settled
  <2>2. PICK r : r.op = "receive" /\ r.id = g /\ Begin(c, r)
    BY <1>3 DEF BeginReceive
  <2>3. StillSo(r)
    BY <2>1, <2>2 DEF StillSo
  <2> QED BY <2>2, <2>3, ReadsStill
<1>4. ASSUME ExecuteReceive(c) PROVE Books' /\ AllStillSo'
  <2> DEFINE q == call[c]
             r == [op |-> "received", id |-> q.id, of |-> q.of, items |-> q.items,
                   entries |-> q.entries, read |-> q.read, status |-> StatusOfOrder(q)]
  <2>1. Exists(receipt[q.id]) /\ ~Settled(receipt[q.id])
    BY <1>4 DEF ExecuteReceive, SInv, AllStillSo, StillSo
  <2>2. StatusOfOrder(r) = StatusOfOrder(q)
    <3>1. r.items = q.items /\ r.entries = q.entries /\ r.read = q.read /\ r.of = q.of
      OBVIOUS
    <3> HIDE DEF r, q
    <3>2. Writes(r) = Writes(q)
      BY <3>1 DEF Writes, ItemsOf
    <3>3. \A l : Seen(r, l) = Seen(q, l)
      BY <3>1, <3>2 DEF Seen, NewReceived, ItemsOf
    <3> QED BY <3>1, <3>3 DEF StatusOfOrder
  <2>3. call' = [call EXCEPT ![c] = r] /\ UNCHANGED tables
    BY <1>4 DEF ExecuteReceive
  <2>4. StillSo(r)
    BY <2>1, <2>2 DEF StillSo
  <2> HIDE DEF r
  <2>5. PICK s : s = r
    OBVIOUS
  <2>6. StillSo(s)'
    BY <2>3, <2>4, <2>5, StatusKept DEF tables
  <2>7. Books'
    BY <2>3, SameTables DEF SInv
  <2> QED BY <2>3, <2>5, <2>6, <2>7, OnlyCall DEF SInv, IInv
<1> QED BY <1>1, <1>2, <1>3, <1>4

\* A new receipt has accepted nothing yet.
LEMMA CommitCreateReceiptStill ==
  ASSUME Serial, SInv, NEW c \in Clients, NEW g \in Receipts, CommitCreateReceipt(c, g)
  PROVE  Books' /\ AllStillSo'
<1> DEFINE r == call[c]
           doc == [status |-> "PENDING", of |-> r.of, items |-> r.items]
<1>1. \A i \in DOMAIN doc.items : doc.items[i].accepted = 0
  BY DEF SInv, AllStillSo, StillSo, CommitCreateReceipt
<1>2. UNCHANGED <<order, posted>> /\ Done(c) /\ receipt[g].status = "NONE"
  BY DEF CommitCreateReceipt
<1>3. \A h \in Receipts : receipt'[h] = IF h = g THEN doc ELSE receipt[h]
  BY DEF CommitCreateReceipt, SInv, IInv, TypeOK
<1>4. ~Settled(doc) /\ ~Settled(receipt[g])
  BY <1>2 DEF Settled
<1> HIDE DEF doc
<1>5. \A i \in Items : posted[g].stock[i] = 0
  BY <1>4, NothingInStock DEF SInv
<1>6. StockMatchesReceipts'
  BY <1>1, <1>2, <1>3, <1>5 DEF SInv, Books, StockMatchesReceipts, Exists
<1>7. NothingAcceptedYet' /\ ReceivedIsNoDraft'
  BY <1>1, <1>2, <1>3, <1>4
     DEF SInv, Books, NothingAcceptedYet, ReceivedIsNoDraft, Exists, Settled
<1> QED BY <1>2, <1>6, <1>7, DoneStillSo DEF SInv, IInv, Books

\* A receipt that is inspected has accepted nothing before or after.
LEMMA CommitInspectStill ==
  ASSUME Serial, SInv, NEW c \in Clients, CommitInspect(c)
  PROVE  Books' /\ AllStillSo'
<1> DEFINE r == call[c]
           doc == [receipt[r.id] EXCEPT !.status = "INSPECTING"]
<1>1. r \in Call /\ r.op = "inspect" /\ Exists(receipt[r.id]) /\ ~Settled(receipt[r.id])
  BY DEF SInv, IInv, TypeOK, AllStillSo, StillSo, CommitInspect
<1>2. r.id \in Receipts
  BY <1>1, CallShape
<1>3. receipt[r.id] \in [status : GRNStatus, of : Orders, items : ReceiptItems]
  BY <1>1, <1>2, ReceiptShape DEF SInv, IInv, TypeOK
<1>4. Exists(doc) /\ ~Settled(doc) /\ doc.items = receipt[r.id].items
  BY <1>3 DEF Exists, Missing, Settled
<1>5. UNCHANGED <<order, posted>> /\ Done(c)
  BY DEF CommitInspect
<1>6. receipt' = [receipt EXCEPT ![r.id] = doc]
  BY DEF CommitInspect
<1> HIDE DEF doc
<1>7. \A g \in Receipts : receipt'[g] = IF g = r.id THEN doc ELSE receipt[g]
  BY <1>6 DEF SInv, IInv, TypeOK
<1>8. StockMatchesReceipts'
  BY <1>1, <1>4, <1>5, <1>7 DEF SInv, Books, StockMatchesReceipts, Exists
<1>9. NothingAcceptedYet' /\ ReceivedIsNoDraft'
  BY <1>1, <1>4, <1>5, <1>7
     DEF SInv, Books, NothingAcceptedYet, ReceivedIsNoDraft, Exists, Settled
<1> QED BY <1>5, <1>8, <1>9, DoneStillSo DEF SInv, IInv, Books

\* A receipt that is deleted has nothing in stock.
LEMMA CommitRemoveReceiptStill ==
  ASSUME Serial, SInv, NEW c \in Clients, CommitRemoveReceipt(c)
  PROVE  Books' /\ AllStillSo'
<1> DEFINE r == call[c]
<1>1. r \in Call /\ r.op = "removeReceipt" /\ ~Settled(receipt[r.id])
  BY DEF SInv, IInv, TypeOK, AllStillSo, StillSo, CommitRemoveReceipt
<1>2. r.id \in Receipts
  BY <1>1, CallShape
<1>3. \A i \in Items : posted[r.id].stock[i] = 0
  BY <1>1, <1>2, NothingInStock DEF SInv
<1>4. UNCHANGED <<order, posted>> /\ Done(c)
  BY DEF CommitRemoveReceipt
<1>5. \A g \in Receipts : receipt'[g] = IF g = r.id THEN Absent("DELETED") ELSE receipt[g]
  BY DEF CommitRemoveReceipt, SInv, IInv, TypeOK
<1>6. ~Exists(Absent("DELETED"))
  BY DEF Absent, Exists, Missing
<1>7. StockMatchesReceipts'
  BY <1>3, <1>4, <1>5, <1>6 DEF SInv, Books, StockMatchesReceipts, Exists
<1>8. NothingAcceptedYet' /\ ReceivedIsNoDraft'
  BY <1>4, <1>5, <1>6
     DEF SInv, Books, NothingAcceptedYet, ReceivedIsNoDraft, Exists, Settled
<1> QED BY <1>4, <1>7, <1>8, DoneStillSo DEF SInv, IInv, Books

\* The goods of a receipt come into stock as the receipt accepts them: nothing
\* of it was in stock before.
LEMMA CommitReceiveStill ==
  ASSUME Serial, SInv, NEW c \in Clients, CommitReceive(c)
  PROVE  Books' /\ AllStillSo'
<1> DEFINE r == call[c]
           old == receipt[r.id]
           doc == Accepted(old, r)
<1>1. /\ r \in Call /\ r.op = "received" /\ ReceivesInStep(r) /\ LocksHeld(r)
      /\ Exists(old) /\ ~Settled(old) /\ r.status # "DRAFT"
  BY DEF SInv, IInv, TypeOK, AllStillSo, StillSo, CallsInStep, CallInStep, CommitReceive,
         StatusOfOrder
<1>2. /\ r.id \in Receipts /\ r.of \in Orders /\ old.of = r.of
      /\ Listed(r.entries) \subseteq DOMAIN old.items /\ r.entries \in Entries
  BY <1>1, CallShape DEF ReceivesInStep
<1>3. /\ \A i \in Items : PutIn(r.entries, i) \in Nat
      /\ \A i \in Items : i \notin Listed(r.entries) => PutIn(r.entries, i) = 0
      /\ \A i \in Listed(r.entries) : PutIn(r.entries, i) >= Last(r.entries, {i})
      /\ Regular(r.entries) =>
           \A i \in Listed(r.entries) : PutIn(r.entries, i) = Last(r.entries, {i})
  BY <1>2, PutInShape
<1>4. \A i \in DOMAIN old.items : old.items[i].accepted = 0
  BY <1>1, <1>2 DEF SInv, Books, NothingAcceptedYet
<1>5. \A i \in Items : posted[r.id].stock[i] = 0
  BY <1>1, <1>2, NothingInStock DEF SInv
<1>6. /\ Exists(doc) /\ Settled(doc) /\ doc.of = r.of
      /\ DOMAIN doc.items = DOMAIN old.items
      /\ \A i \in DOMAIN old.items :
           doc.items[i].accepted =
             IF i \in Listed(r.entries) THEN Last(r.entries, {i}) ELSE 0
  <2>1. old.items \in [DOMAIN old.items -> ReceiptItem]
    BY <1>1, <1>2, ReceiptRefers DEF SInv, IInv
  <2>2. \A i \in DOMAIN old.items :
          [old.items[i] EXCEPT !.accepted = Last(r.entries, {i})].accepted = Last(r.entries, {i})
    BY <2>1 DEF ReceiptItem
  <2>3. /\ doc.status = IF FullyAccepted(r) THEN "RECEIVED" ELSE "PARTIAL"
        /\ doc.of = old.of
        /\ doc.items = [i \in DOMAIN old.items |->
             IF i \in Listed(r.entries)
             THEN [old.items[i] EXCEPT !.accepted = Last(r.entries, {i})] ELSE old.items[i]]
    BY DEF Accepted
  <2> HIDE DEF doc, old
  <2> QED BY <1>2, <1>4, <2>2, <2>3 DEF Exists, Missing, Settled
<1>7. \A g \in Receipts : receipt'[g] = IF g = r.id THEN doc ELSE receipt[g]
  BY DEF CommitReceive, SInv, IInv, TypeOK
<1>8. /\ \A g \in Receipts \ {r.id} : posted'[g] = posted[g]
      /\ \A i \in Items : posted'[r.id].stock[i] = PutIn(r.entries, i)
      /\ posted'[r.id].regular => Regular(r.entries)
  <2>1. posted'[r.id] = [stock   |-> [i \in Items |-> posted[r.id].stock[i] + PutIn(r.entries, i)],
                         regular |-> posted[r.id].regular /\ Regular(r.entries)]
    BY <1>2 DEF CommitReceive, SInv, IInv, TypeOK
  <2>2. \A g \in Receipts \ {r.id} : posted'[g] = posted[g]
    BY <1>2 DEF CommitReceive, SInv, IInv, TypeOK
  <2>3. \A i \in Items : posted'[r.id].stock[i] = 0 + PutIn(r.entries, i)
    BY <1>5, <2>1
  <2>4. posted'[r.id].regular = (posted[r.id].regular /\ Regular(r.entries))
    BY <2>1
  <2>5. \A i \in Items : posted'[r.id].stock[i] = PutIn(r.entries, i)
    BY <1>3, <2>3
  <2>6. posted'[r.id].regular => Regular(r.entries)
    BY <2>4, Zenon
  <2> QED BY <2>2, <2>5, <2>6
<1>9. Done(c)
  BY DEF CommitReceive
<1>10. \A o \in Orders : order'[o].status = IF o = r.of THEN r.status ELSE order[o].status
  <2>1. Exists(order[r.of])
    BY <1>1, <1>2 DEF SInv, IInv, ReferencesIntact
  <2>2. order[r.of] \in [status : POStatus, pr : Requests \cup {NoRequest}]
    BY <1>2, <2>1, OrderShape DEF SInv, IInv, TypeOK
  <2> QED BY <1>2, <2>2 DEF CommitReceive, SInv, IInv, TypeOK
<1> HIDE DEF doc, old
<1>11. StockMatchesReceipts'
  <2> SUFFICES ASSUME NEW g \in Receipts, NEW i \in Items
      PROVE  StockMatches(receipt'[g], posted'[g], i)
    BY DEF StockMatchesReceipts, StockMatches, Exists, Settled
  <2>1. CASE g = r.id
    <3>1. receipt'[g] = doc
      BY <1>2, <1>7, <2>1
    <3>2. i \in DOMAIN doc.items \/ i \notin Listed(r.entries)
      BY <1>2, <1>6
    <3>3. CASE i \in Listed(r.entries)
      <4>1. i \in DOMAIN doc.items /\ doc.items[i].accepted = Last(r.entries, {i})
        BY <1>2, <1>6, <3>3
      <4>2. /\ posted'[g].stock[i] >= Last(r.entries, {i})
            /\ posted'[g].regular => posted'[g].stock[i] = Last(r.entries, {i})
        BY <1>3, <1>8, <2>1, <3>3
      <4> QED BY <1>6, <3>1, <4>1, <4>2 DEF StockMatches
    <3>4. CASE i \notin Listed(r.entries)
      <4>1. posted'[g].stock[i] = 0
        BY <1>3, <1>8, <2>1, <3>4
      <4>2. i \in DOMAIN doc.items => doc.items[i].accepted = 0
        BY <1>6, <3>4
      <4> QED BY <1>6, <3>1, <4>1, <4>2 DEF StockMatches
    <3> QED BY <3>3, <3>4
  <2>2. CASE g # r.id
    BY <1>7, <1>8, <2>2 DEF SInv, Books, StockMatchesReceipts, StockMatches
  <2> QED BY <2>1, <2>2
<1>12. NothingAcceptedYet'
  BY <1>6, <1>7 DEF SInv, Books, NothingAcceptedYet, Exists, Settled
<1>13. ReceivedIsNoDraft'
  <2> SUFFICES ASSUME NEW g \in Receipts, Exists(receipt'[g]), Settled(receipt'[g])
      PROVE  order'[receipt'[g].of].status # "DRAFT"
    BY DEF ReceivedIsNoDraft, Exists, Settled
  <2>1. CASE g = r.id
    BY <1>1, <1>2, <1>6, <1>7, <1>10, <2>1
  <2>2. CASE g # r.id
    <3>1. receipt'[g] = receipt[g]
      BY <1>7, <2>2
    <3>2. receipt[g].of \in Orders /\ order[receipt[g].of].status # "DRAFT"
      BY <3>1, ReceiptRefers DEF SInv, IInv, Books, ReceivedIsNoDraft
    <3> QED BY <1>1, <1>10, <3>1, <3>2
  <2> QED BY <2>1, <2>2
<1> QED BY <1>9, <1>11, <1>12, <1>13, DoneStillSo DEF SInv, IInv, Books

LEMMA ReceiptStepStill ==
  ASSUME Serial, SInv, NEW c \in Clients, ReceiptStep(c)
  PROVE  Books' /\ AllStillSo'
<1>1. CASE \E o \in Orders, items \in NewItems : BeginCreateReceipt(c, o, items)
  BY <1>1, ReceiptReadsStill
<1>2. CASE \E g \in Receipts : CommitCreateReceipt(c, g)
  BY <1>2, CommitCreateReceiptStill
<1>3. CASE \E g \in Receipts : BeginInspect(c, g) \/ BeginRemoveReceipt(c, g)
  BY <1>3, ReceiptReadsStill
<1>4. CASE \E g \in Receipts, entries \in Entries : BeginReceive(c, g, entries)
  BY <1>4, ReceiptReadsStill
<1>5. CASE CommitInspect(c)
  BY <1>5, CommitInspectStill
<1>6. CASE CommitRemoveReceipt(c)
  BY <1>6, CommitRemoveReceiptStill
<1>7. CASE ExecuteReceive(c)
  BY <1>7, ReceiptReadsStill
<1>8. CASE CommitReceive(c)
  BY <1>8, CommitReceiveStill
<1> QED BY <1>1, <1>2, <1>3, <1>4, <1>5, <1>6, <1>7, <1>8 DEF ReceiptStep
-----------------------------------------------------------------------------
(* The theorem.                                                              *)

LEMMA SerialStep ==
  ASSUME Serial, SInv, IInv', [Next]_vars
  PROVE  SInv'
<1>1. ASSUME NEW c \in Clients, RequestStep(c) PROVE Books' /\ AllStillSo'
  BY <1>1, RequestStepStill
<1>2. ASSUME NEW c \in Clients, OrderStep(c) PROVE Books' /\ AllStillSo'
  BY <1>2, OrderStepStill
<1>3. ASSUME NEW c \in Clients, ReceiptStep(c) PROVE Books' /\ AllStillSo'
  BY <1>3, ReceiptStepStill
<1>4. ASSUME NEW c \in Clients, Fail(c) PROVE Books' /\ AllStillSo'
  BY <1>4, SameTables, DoneStillSo DEF Fail, SInv, IInv
<1>5. ASSUME UNCHANGED vars PROVE Books' /\ AllStillSo'
  <2>1. Books'
    BY <1>5, SameTables DEF SInv, vars, tables
  <2>2. ASSUME NEW c \in Clients PROVE StillSo(call[c])'
    <3>1. PICK r : r = call[c]
      OBVIOUS
    <3>2. StillSo(r)'
      BY <1>5, <3>1, StatusKept DEF SInv, AllStillSo, vars
    <3>3. r = call'[c]
      BY <1>5, <3>1 DEF vars
    <3> QED BY <3>2, <3>3
  <2> QED BY <2>1, <2>2 DEF AllStillSo
<1> QED BY <1>1, <1>2, <1>3, <1>4, <1>5 DEF Next, SInv

LEMMA SerialInvariant == ASSUME Serial PROVE Spec => []SInv
<1>1. Init => SInv
  BY InitHolds DEF SInv, Init, Books, StockMatchesReceipts, NothingAcceptedYet,
     ReceivedIsNoDraft, AllStillSo, StillSo, Exists, Missing, Absent, Idle
<1>2. SInv /\ IInv' /\ [Next]_vars => SInv'
  BY SerialStep
<1> QED BY <1>1, <1>2, InvariantHolds, PTL DEF Spec

\* When the handlers run one after the other, no less is put into stock for a
\* receipt than it says it accepted, and just that by a request that lists each
\* item once and accepts no negative quantity.  A receipt that is deleted, alone
\* or with its order, has put nothing there.
THEOREM StockOnceWhenSerial ==
  ASSUME Serial
  PROVE  Spec => []StockMatchesReceipts
<1>1. SInv => StockMatchesReceipts
  BY DEF SInv, Books
<1> QED BY <1>1, SerialInvariant, PTL

-----------------------------------------------------------------------------
(* A receipt settles its order.                                              *)

\* Only receiving goods gives a receipt a final status.
LEMMA OnlyReceiveSettles ==
  ASSUME SInv, NEW c \in Clients, NEW g \in Receipts,
         RequestStep(c) \/ OrderStep(c) \/ ReceiptStep(c) \/ Fail(c),
         ~Settled(receipt[g]), Settled(receipt'[g])
  PROVE  CommitReceive(c) /\ g = call[c].id
<1>1. ~Settled(Absent("DELETED"))
  BY DEF Settled, Absent
<1>2. receipt'[g] # receipt[g]
  OBVIOUS
<1>3. receipt \in [Receipts -> ReceiptDoc]
  BY DEF SInv, IInv, TypeOK
<1>4. ~(RequestStep(c) \/ Fail(c))
  BY <1>2 DEF RequestStep, CreateRequest, BeginMoveRequest, Begin, CommitMoveRequest,
              Fail, tables
<1>5. ~OrderStep(c)
  <2>1. ~DeleteOldLines(c)
    <3> SUFFICES ASSUME DeleteOldLines(c) PROVE FALSE
      OBVIOUS
    <3> DEFINE gone == LinesOf(call[c].id)
    <3>1. Exists(receipt[g])
      BY <1>2 DEF DeleteOldLines
    <3>2. receipt'[g] = [receipt[g] EXCEPT !.items = Unlinked(receipt[g].items, gone)]
      BY <3>1 DEF DeleteOldLines
    <3>3. receipt[g] \in [status : GRNStatus, of : Orders, items : ReceiptItems]
      BY <1>3, <3>1, ReceiptShape
    <3> HIDE DEF gone
    <3>4. receipt'[g].status = receipt[g].status
      BY <3>2, <3>3
    <3> QED BY <3>4 DEF Settled
  <2>2. ~CommitRemoveOrder(c)
    BY <1>1, <1>2 DEF CommitRemoveOrder
  <2> QED BY <1>2, <2>1, <2>2
          DEF OrderStep, BeginCreateOrder, CommitCreateOrder, BeginMoveOrder,
              BeginUpdateOrder, BeginRemoveOrder, Begin, CommitMoveOrder,
              CommitUpdateOrder, tables
<1>6. \A h \in Receipts : ~CommitCreateReceipt(c, h)
  BY <1>2, <1>3 DEF CommitCreateReceipt, Settled
<1>7. ~CommitInspect(c)
  <2> SUFFICES ASSUME CommitInspect(c) PROVE FALSE
    OBVIOUS
  <2>1. call[c].id = g /\ Exists(receipt[g])
    BY <1>2, <1>3 DEF CommitInspect
  <2>2. receipt[g] \in [status : GRNStatus, of : Orders, items : ReceiptItems]
    BY <1>3, <2>1, ReceiptShape
  <2>3. receipt'[g] = [receipt[g] EXCEPT !.status = "INSPECTING"]
    BY <1>3, <2>1 DEF CommitInspect
  <2>4. receipt'[g].status = "INSPECTING"
    BY <2>2, <2>3
  <2> QED BY <2>4 DEF Settled
<1>8. ~CommitRemoveReceipt(c)
  BY <1>1, <1>2, <1>3 DEF CommitRemoveReceipt
<1>9. CommitReceive(c)
  BY <1>2, <1>4, <1>5, <1>6, <1>7, <1>8
     DEF ReceiptStep, BeginCreateReceipt, BeginInspect, BeginRemoveReceipt,
         BeginReceive, ExecuteReceive, Begin, tables
<1>10. g = call[c].id
  BY <1>2, <1>3, <1>9 DEF CommitReceive
<1> QED BY <1>9, <1>10

\* The status the transaction found out is the one the order deserves when it
\* commits.
LEMMA StatusDeserved ==
  ASSUME SInv, NEW c \in Clients, CommitReceive(c)
  PROVE  LET o == receipt[call[c].id].of IN
         order'[o].status = "RECEIVED" <=>
           \A l \in LinesOf(o) :
             \/ line'[l].received = line[l].ordered /\ line[l].ordered # 0
             \/ line'[l].received < 0
<1> DEFINE r == call[c]
<1>1. /\ r \in Call /\ r.op = "received" /\ ReceivesInStep(r) /\ LocksHeld(r)
      /\ r.status = StatusOfOrder(r)
  BY DEF SInv, IInv, TypeOK, AllStillSo, StillSo, CallsInStep, CallInStep, CommitReceive
<1>2. r.id \in Receipts /\ r.of \in Orders /\ Exists(receipt[r.id])
  BY <1>1, CallShape DEF LocksHeld
<1>3. receipt[r.id].of = r.of /\ Exists(order[r.of])
  BY <1>1, <1>2 DEF ReceivesInStep, SInv, IInv, ReferencesIntact
<1>4. order'[r.of].status = r.status
  <2>1. order[r.of] \in [status : POStatus, pr : Requests \cup {NoRequest}]
    BY <1>2, <1>3, OrderShape DEF SInv, IInv, TypeOK
  <2> QED BY <1>2, <2>1 DEF CommitReceive, SInv, IInv, TypeOK
<1>5. \A l \in LinesOf(r.of) :
        /\ line'[l].received = Seen(r, l)
        /\ Seen(r, l) \in Int /\ (Seen(r, l) <= line[l].ordered \/ Seen(r, l) = 0)
        /\ line[l].ordered \in Int
  <2> SUFFICES ASSUME NEW l \in LinesOf(r.of)
      PROVE  /\ line'[l].received = Seen(r, l)
             /\ Seen(r, l) \in Int /\ (Seen(r, l) <= line[l].ordered \/ Seen(r, l) = 0)
             /\ line[l].ordered \in Int
    OBVIOUS
  <2>1. l \in LineIds /\ line[l].status = "LIVE"
    BY DEF LinesOf
  <2>2. line[l] \in [status : {"LIVE"}, of : Orders, ordered : Quantities, received : Int]
    BY <2>1, LineShape DEF SInv, IInv, TypeOK
  <2>3. line[l].ordered \in Int
    BY <2>2, ProcurementAssumption
  <2>4. CASE l \in Writes(r)
    <3>1. NewReceived(r, l) \in Int /\ NewReceived(r, l) <= r.read[l].ordered
      BY <1>1, <2>4, NewReceivedInt DEF LocksHeld
    <3>2. line[l].ordered = r.read[l].ordered
      BY <1>1, <2>1, <2>4 DEF ReceivesInStep
    <3>3. line'[l] = [line[l] EXCEPT !.received = NewReceived(r, l)]
      BY <2>1, <2>4 DEF CommitReceive
    <3>4. line'[l].received = NewReceived(r, l)
      BY <2>2, <3>3
    <3> QED BY <2>3, <2>4, <3>1, <3>2, <3>4 DEF Seen
  <2>5. CASE l \notin Writes(r)
    <3>1. line'[l] = line[l] /\ (line[l].received <= line[l].ordered \/ line[l].received = 0)
      BY <2>1, <2>5 DEF CommitReceive, SInv, IInv, ReceivedWithinOrdered
    <3> QED BY <2>2, <2>3, <2>5, <3>1 DEF Seen
  <2> QED BY <2>4, <2>5
<1>6. StatusOfOrder(r) = "RECEIVED" <=>
        ~ \E l \in LinesOf(r.of) :
            Seen(r, l) = 0 \/ (0 < Seen(r, l) /\ Seen(r, l) < line[l].ordered)
  BY DEF StatusOfOrder
<1> HIDE DEF r
<1>7. StatusOfOrder(r) = "RECEIVED" <=>
        \A l \in LinesOf(r.of) :
          (Seen(r, l) = line[l].ordered /\ line[l].ordered # 0) \/ Seen(r, l) < 0
  BY <1>5, <1>6
<1> QED BY <1>1, <1>3, <1>4, <1>5, <1>7 DEF r

\* When the handlers run one after the other, receiving goods leaves the order
\* RECEIVED exactly when all that was ordered has come in and no item of the
\* order asks for nothing, but for items whose sum is below zero.
THEOREM OrderSettledWhenSerial ==
  ASSUME Serial
  PROVE  Spec => ReceiptSettlesOrder
<1>1. ASSUME SInv, [Next]_vars
      PROVE  [\A g \in Receipts : ~Settled(receipt[g]) /\ Settled(receipt[g])' =>
                LET o == receipt[g].of IN
                  order'[o].status = "RECEIVED" <=>
                    \A l \in LinesOf(o) :
                      \/ line'[l].received = line[l].ordered /\ line[l].ordered # 0
                      \/ line'[l].received < 0]_vars
  <2> SUFFICES ASSUME Next, NEW g \in Receipts,
                      ~Settled(receipt[g]), Settled(receipt[g])'
      PROVE  LET o == receipt[g].of IN
               order'[o].status = "RECEIVED" <=>
                 \A l \in LinesOf(o) :
                   \/ line'[l].received = line[l].ordered /\ line[l].ordered # 0
                   \/ line'[l].received < 0
    BY <1>1
  <2>1. Settled(receipt'[g])
    BY DEF Settled
  <2>2. PICK c \in Clients :
          RequestStep(c) \/ OrderStep(c) \/ ReceiptStep(c) \/ Fail(c)
    BY DEF Next
  <2>3. CommitReceive(c) /\ g = call[c].id
    BY <1>1, <2>1, <2>2, OnlyReceiveSettles
  <2> QED BY <1>1, <2>3, StatusDeserved
<1> QED BY <1>1, SerialInvariant, PTL DEF Spec, ReceiptSettlesOrder
-----------------------------------------------------------------------------
(* Closed orders.                                                            *)

\* What a step may do to the status of an order that stays.
StaysClosed(o) ==
  Exists(order[o]) /\ Exists(order[o])' /\ order'[o].status # order[o].status =>
    /\ order'[o].status # "DRAFT"
    /\ order[o].status \in {"RECEIVED", "CANCELLED"} =>
         \E g \in Receipts : /\ Exists(receipt[g]) /\ receipt[g].of = o
                              /\ ~Settled(receipt[g]) /\ Settled(receipt[g])'

\* Writing its other column keeps the status of an order.
LEMMA OtherColumn ==
  ASSUME NEW doc \in OrderDoc, Exists(doc), NEW p
  PROVE  [doc EXCEPT !.pr = p].status = doc.status
BY OrderShape

LEMMA MoveStaysClosed ==
  ASSUME SInv, NEW c \in Clients, CommitMoveOrder(c), NEW o \in Orders
  PROVE  StaysClosed(o)
<1>1. PICK r \in Call : r = call[c]
  BY DEF SInv, IInv, TypeOK
<1>2. /\ r.op = "moveOrder" /\ r.id \in Orders /\ Exists(order[r.id])
      /\ r.to # "DRAFT" /\ order[r.id].status \notin {"RECEIVED", "CANCELLED"}
  BY <1>1, CallShape DEF CommitMoveOrder, SInv, AllStillSo, StillSo
<1>3. order \in [Orders -> OrderDoc] /\ order' = [order EXCEPT ![r.id].status = r.to]
  BY <1>1 DEF CommitMoveOrder, SInv, IInv, TypeOK
<1>4. CASE o = r.id
  <2>1. order[o] \in [status : POStatus, pr : Requests \cup {NoRequest}]
    BY <1>2, <1>3, <1>4, OrderShape
  <2>2. order'[o].status = r.to
    BY <1>2, <1>3, <1>4, <2>1
  <2> QED BY <1>2, <1>4, <2>2 DEF StaysClosed
<1>5. CASE o # r.id
  BY <1>3, <1>5 DEF StaysClosed
<1> QED BY <1>4, <1>5

LEMMA ReceiveStaysClosed ==
  ASSUME SInv, NEW c \in Clients, CommitReceive(c), NEW o \in Orders
  PROVE  StaysClosed(o)
<1>1. PICK r \in Call : r = call[c]
  BY DEF SInv, IInv, TypeOK
<1>2. /\ r.op = "received" /\ ReceivesInStep(r) /\ Exists(receipt[r.id])
      /\ ~Settled(receipt[r.id]) /\ r.status # "DRAFT"
  BY <1>1 DEF SInv, IInv, AllStillSo, StillSo, CallsInStep, CallInStep, CommitReceive,
              StatusOfOrder
<1>3. r.id \in Receipts /\ r.of \in Orders /\ receipt[r.id].of = r.of
  BY <1>2, CallShape DEF ReceivesInStep
<1>4. order \in [Orders -> OrderDoc] /\ order' = [order EXCEPT ![r.of].status = r.status]
  BY <1>1 DEF CommitReceive, SInv, IInv, TypeOK
<1>5. Settled(receipt'[r.id])
  <2>1. receipt'[r.id] = Accepted(receipt[r.id], r)
    BY <1>1, <1>3 DEF CommitReceive, SInv, IInv, TypeOK
  <2>2. Accepted(receipt[r.id], r).status \in {"RECEIVED", "PARTIAL"}
    BY DEF Accepted
  <2> QED BY <2>1, <2>2 DEF Settled
<1>6. CASE o = r.of
  <2>1. Exists(order[r.of])
    BY <1>2, <1>3 DEF SInv, IInv, ReferencesIntact
  <2>2. order[o] \in [status : POStatus, pr : Requests \cup {NoRequest}]
    BY <1>3, <1>4, <1>6, <2>1, OrderShape
  <2>3. order'[o].status = r.status
    BY <1>3, <1>4, <1>6, <2>2
  <2>4. Settled(receipt[r.id])'
    BY <1>5 DEF Settled
  <2> QED BY <1>2, <1>3, <1>6, <2>3, <2>4 DEF StaysClosed
<1>7. CASE o # r.of
  BY <1>4, <1>7 DEF StaysClosed
<1> QED BY <1>6, <1>7

LEMMA StepStaysClosed ==
  ASSUME SInv, NEW c \in Clients, NEW o \in Orders,
         RequestStep(c) \/ OrderStep(c) \/ ReceiptStep(c) \/ Fail(c)
  PROVE  StaysClosed(o)
<1>0. order \in [Orders -> OrderDoc]
  BY DEF SInv, IInv, TypeOK
<1>1. ASSUME UNCHANGED order PROVE StaysClosed(o)
  BY <1>1 DEF StaysClosed
<1>2. ASSUME CommitMoveRequest(c) PROVE StaysClosed(o)
  <2> DEFINE left == [order[o] EXCEPT !.pr = NoRequest]
             hit == call[c].to = "DELETED" /\ Exists(order[o]) /\ order[o].pr = call[c].id
  <2>1. order'[o] = IF hit THEN left ELSE order[o]
    BY <1>2 DEF CommitMoveRequest
  <2>2. Exists(order[o]) => left.status = order[o].status
    BY <1>0, OtherColumn
  <2> HIDE DEF left
  <2> QED BY <2>1, <2>2 DEF StaysClosed
<1>3. ASSUME NEW p \in Orders, NEW quantity \in NewLines, CommitCreateOrder(c, p, quantity)
      PROVE  StaysClosed(o)
  BY <1>0, <1>3 DEF CommitCreateOrder, StaysClosed, Exists, Missing
<1>4. ASSUME NEW p \in Requests \cup {NoRequest}, NEW quantity \in NewLines,
             CommitUpdateOrder(c, p, quantity)
      PROVE  StaysClosed(o)
  <2> DEFINE x == call[c].id
             written == [order[x] EXCEPT !.pr = p]
  <2>1. order' = [order EXCEPT ![x] = written] /\ Exists(order[x])
    BY <1>4 DEF CommitUpdateOrder
  <2>2. x \in Orders => written.status = order[x].status
    BY <1>0, <2>1, OtherColumn
  <2> HIDE DEF x, written
  <2>3. order'[o] = order[o] \/ (o = x /\ order'[o] = written)
    BY <1>0, <2>1
  <2> QED BY <2>2, <2>3 DEF StaysClosed
<1>5. ASSUME CommitRemoveOrder(c) PROVE StaysClosed(o)
  <2>1. order'[o] = order[o] \/ order'[o] = Absent("DELETED")
    BY <1>0, <1>5 DEF CommitRemoveOrder
  <2>2. ~Exists(Absent("DELETED"))
    BY DEF Exists, Absent, Missing
  <2>3. Exists(order[o])' <=> Exists(order'[o])
    BY DEF Exists
  <2> QED BY <2>1, <2>2, <2>3 DEF StaysClosed
<1>6. CASE RequestStep(c) \/ Fail(c)
  BY <1>1, <1>2, <1>6 DEF RequestStep, CreateRequest, BeginMoveRequest, Begin, Fail, tables
<1>7. CASE OrderStep(c)
  <2>1. \/ UNCHANGED order
        \/ \E p \in Orders, quantity \in NewLines : CommitCreateOrder(c, p, quantity)
        \/ CommitMoveOrder(c) \/ CommitRemoveOrder(c)
        \/ \E p \in Requests \cup {NoRequest}, quantity \in NewLines : CommitUpdateOrder(c, p, quantity)
    <3>1. \A k : Begin(c, k) => UNCHANGED order
      BY DEF Begin, tables
    <3>2. /\ \A p : BeginCreateOrder(c, p) => UNCHANGED order
          /\ \A p, to : BeginMoveOrder(c, p, to) => UNCHANGED order
          /\ \A p : BeginUpdateOrder(c, p) => UNCHANGED order
          /\ \A p : BeginRemoveOrder(c, p) => UNCHANGED order
      BY <3>1, Zenon DEF BeginCreateOrder, BeginMoveOrder, BeginUpdateOrder, BeginRemoveOrder
    <3>3. DeleteOldLines(c) => UNCHANGED order
      BY Zenon DEF DeleteOldLines
    <3> QED BY <1>7, <3>2, <3>3, Zenon DEF OrderStep
  <2> QED BY <1>1, <1>3, <1>4, <1>5, <2>1, MoveStaysClosed, Zenon
<1>8. CASE ReceiptStep(c)
  BY <1>1, <1>8, ReceiveStaysClosed
     DEF ReceiptStep, BeginCreateReceipt, CommitCreateReceipt, BeginInspect, BeginRemoveReceipt,
         BeginReceive, CommitInspect, CommitRemoveReceipt, ExecuteReceive, Begin, tables
<1> QED BY <1>6, <1>7, <1>8

\* When the handlers run one after the other, an order that is RECEIVED or
\* CANCELLED gets another status only by goods received of it, which updateStatus's
\* table of transitions does not know of, and no order is a draft again.
THEOREM ClosedWhenSerial ==
  ASSUME Serial
  PROVE  Spec => ClosedOrdersStay
<1>1. SInv /\ [Next]_vars => [\A o \in Orders : StaysClosed(o)]_vars
  BY StepStaysClosed DEF Next
<1> QED BY <1>1, SerialInvariant, PTL DEF Spec, ClosedOrdersStay, StaysClosed
-----------------------------------------------------------------------------
(* When the handlers run one after the other, an order item has received     *)
(* what its receipts accepted.                                               *)
(*                                                                           *)
(* The sum over the receipts changes only when goods are received: then one  *)
(* receipt, of which nothing was accepted before, comes to account for what  *)
(* each of its items brings.  It brings one item's goods to an order item    *)
(* that is named once.  One that two items of a receipt name stays that way  *)
(* as long as it is there, so nothing has to be known of it.                 *)

\* What the items of a receipt accepted of order item l, item by item.
Parts(items, l) ==
  [i \in DOMAIN items |-> IF items[i].line = l THEN items[i].accepted ELSE 0]

\* What each receipt of a table accepted of it.
Shares(table, l) ==
  [g \in Receipts |->
     IF Exists(table[g]) THEN SumFunction(Parts(table[g].items, l)) ELSE 0]

\* What all receipts of a table accepted of it.
AcceptedIn(table, l) == SumFunction(Shares(table, l))

\* Of each receipt of a table whose goods came in, one item at most names it.
OnceIn(table, l) ==
  \A g \in Receipts : Settled(table[g]) =>
    \A i, j \in DOMAIN table[g].items :
      table[g].items[i].line = l /\ table[g].items[j].line = l => i = j

\* The model's sum is that of the present receipts.
LEMMA AcceptedIsIn ==
  /\ \A l : AcceptedOf(l) = AcceptedIn(receipt, l)
  /\ OrderAccountsForReceipts <=>
       \A l \in LineIds : line[l].status = "LIVE" /\ OnceIn(receipt, l) =>
         line[l].received = AcceptedIn(receipt, l)
  /\ OrderAccountsForReceipts' <=>
       \A l \in LineIds : line'[l].status = "LIVE" /\ OnceIn(receipt', l) =>
         line'[l].received = AcceptedIn(receipt', l)
<1>1. \A l : AcceptedOf(l) = AcceptedIn(receipt, l) /\ (NamedOnce(l) <=> OnceIn(receipt, l))
  BY DEF AcceptedOf, AcceptedIn, Shares, Parts, NamedOnce, OnceIn
<1>2. \A l \in LineIds :
        AcceptedOf(l)' = AcceptedIn(receipt', l) /\ (NamedOnce(l)' <=> OnceIn(receipt', l))
  BY DEF AcceptedOf, AcceptedIn, Shares, Parts, NamedOnce, OnceIn, Exists, Settled
<1> QED BY <1>1, <1>2 DEF OrderAccountsForReceipts

\* What the handler of a receipt has read is still what the tables say.
Fresh(r) ==
  r.op \in {"receive", "received"} =>
    receipt[r.id].items = r.items /\ \A l \in Writes(r) : r.read[l] = line[l]

\* All that any handler has read.
AllFresh == \A c \in Clients : Fresh(call[c])

\* The accounts are inductive together with what the handlers have read.
AInv == OrderAccountsForReceipts /\ AllFresh

-----------------------------------------------------------------------------
(* Sums over receipts.                                                       *)

\* Each item accepted an integer of an order item.
LEMMA PartsAreInt ==
  ASSUME NEW items \in ReceiptItems, NEW l
  PROVE  /\ IsFiniteSet(DOMAIN items)
         /\ Parts(items, l) \in [DOMAIN items -> Int]
         /\ SumFunction(Parts(items, l)) \in Int
<1>1. DOMAIN items \subseteq Items /\ items \in [DOMAIN items -> ReceiptItem]
  BY ItemsShape
<1>2. IsFiniteSet(DOMAIN items)
  BY <1>1, FiniteAssumption, FS_Subset
<1>3. Parts(items, l) \in [DOMAIN items -> Int]
  BY <1>1, ProcurementAssumption DEF Parts, ReceiptItem
<1> QED
  BY <1>2, <1>3, SumIsInt

\* Where nothing is accepted, the parts sum up to nothing.
LEMMA NoPart ==
  ASSUME NEW items \in ReceiptItems, NEW l,
         \A i \in DOMAIN items : items[i].line = l => items[i].accepted = 0
  PROVE  SumFunction(Parts(items, l)) = 0
<1>1. \A i \in DOMAIN items : Parts(items, l)[i] = 0
  BY DEF Parts
<1> QED
  BY <1>1, PartsAreInt, SumOfZeros

\* Where one item names l, the parts sum up to what it accepted.
LEMMA OnePart ==
  ASSUME NEW items \in ReceiptItems, NEW l, NEW i \in DOMAIN items, items[i].line = l,
         \A j \in DOMAIN items : j # i => items[j].line # l
  PROVE  SumFunction(Parts(items, l)) = items[i].accepted
<1>1. Parts(items, l)[i] = items[i].accepted /\ \A j \in DOMAIN items : j # i => Parts(items, l)[j] = 0
  BY DEF Parts
<1> QED
  BY <1>1, PartsAreInt, SumOfOne

\* The shares of a table of receipts are integers.
LEMMA SharesAreInt ==
  ASSUME NEW table \in [Receipts -> ReceiptDoc], NEW l
  PROVE  Shares(table, l) \in [Receipts -> Int]
<1>1. ASSUME NEW g \in Receipts, Exists(table[g])
      PROVE  SumFunction(Parts(table[g].items, l)) \in Int
  <2>1. table[g] \in [status : GRNStatus, of : Orders, items : ReceiptItems]
    BY <1>1, ReceiptShape
  <2>2. table[g].items \in ReceiptItems
    BY <2>1
  <2> QED
    BY <2>2, PartsAreInt
<1> QED
  BY <1>1 DEF Shares

\* A receipt whose goods are not received has no share of any order item.
LEMMA UnsettledHasNoShare ==
  ASSUME TypeOK, NothingAcceptedYet, NEW g \in Receipts, ~Settled(receipt[g]), NEW l
  PROVE  Shares(receipt, l)[g] = 0
<1>1. CASE ~Exists(receipt[g])
  BY <1>1 DEF Shares
<1>2. CASE Exists(receipt[g])
  <2>1. receipt[g] \in [status : GRNStatus, of : Orders, items : ReceiptItems]
    BY <1>2, ReceiptShape DEF TypeOK
  <2>2. receipt[g].items \in ReceiptItems
    BY <2>1
  <2>3. \A i \in DOMAIN receipt[g].items : receipt[g].items[i].accepted = 0
    BY <1>2 DEF NothingAcceptedYet
  <2>4. SumFunction(Parts(receipt[g].items, l)) = 0
    BY <2>2, <2>3, NoPart
  <2> QED
    BY <1>2, <2>4 DEF Shares
<1> QED
  BY <1>1, <1>2

\* Nothing was accepted of an order item that is not there.
LEMMA NothingOfMissingLine ==
  ASSUME TypeOK, ReferencesIntact, NEW l \in LineIds, line[l].status # "LIVE"
  PROVE  AcceptedIn(receipt, l) = 0
<1>1. ASSUME NEW g \in Receipts
      PROVE  Shares(receipt, l)[g] = 0
  <2>1. CASE ~Exists(receipt[g])
    BY <2>1 DEF Shares
  <2>2. CASE Exists(receipt[g])
    <3>1. receipt[g] \in [status : GRNStatus, of : Orders, items : ReceiptItems]
      BY <2>2, ReceiptShape DEF TypeOK
    <3>2. receipt[g].items \in ReceiptItems
      BY <3>1
    <3>3. \A i \in DOMAIN receipt[g].items : receipt[g].items[i].line # l
      BY <2>2, ProcurementAssumption DEF ReferencesIntact
    <3>4. SumFunction(Parts(receipt[g].items, l)) = 0
      BY <3>2, <3>3, NoPart
    <3> QED
      BY <2>2, <3>4 DEF Shares
  <2> QED
    BY <2>1, <2>2
<1>2. Shares(receipt, l) \in [Receipts -> Int]
  BY SharesAreInt DEF TypeOK
<1> QED
  BY <1>1, <1>2, FiniteAssumption, SumOfZeros DEF AcceptedIn
-----------------------------------------------------------------------------
(* Steps that receive no goods.                                              *)

\* The handler of a receipt is the only one: what it has read is all there is.
LEMMA OnlyFresh ==
  ASSUME Serial, TypeOK, NEW c \in Clients, NEW r, Fresh(r)',
         call' = [call EXCEPT ![c] = r]
  PROVE  AllFresh'
<1> SUFFICES ASSUME NEW d \in Clients PROVE Fresh(call[d])'
  BY DEF AllFresh
<1>1. d = c
  BY DEF Serial
<1>2. r = call'[d]
  BY <1>1 DEF TypeOK
<1> QED BY <1>2

\* A handler that is done has nothing read.
LEMMA DoneFresh ==
  ASSUME Serial, TypeOK, NEW c \in Clients, Done(c) PROVE AllFresh'
<1>1. PICK r : r = Idle
  OBVIOUS
<1>2. Fresh(r)'
  BY <1>1 DEF Fresh, Idle
<1>3. call' = [call EXCEPT ![c] = r]
  BY <1>1 DEF Done
<1> QED BY <1>2, <1>3, OnlyFresh

\* Nor has one that begins without reading order items.
LEMMA BeginFresh ==
  ASSUME Serial, TypeOK, NEW c \in Clients, NEW r, Begin(c, r),
         r.op \notin {"receive", "received"}
  PROVE  AllFresh'
<1>1. Fresh(r)'
  BY DEF Fresh
<1> QED
  BY <1>1, OnlyFresh DEF Begin

\* What was read stays fresh while receipts and order items stay.
LEMMA FreshKept ==
  ASSUME NEW r, UNCHANGED <<receipt, line>>, Fresh(r)
  PROVE  Fresh(r)'
BY DEF Fresh, Writes, ItemsOf

\* A receipt stays, or is one whose goods were not received and are not now.
ReceiptKept(g) ==
  \/ receipt'[g] = receipt[g]
  \/ ~Settled(receipt[g]) /\ ~Settled(receipt'[g])

\* Order items keep what they have received; a new one has received nothing.
LinesQuiet ==
  \A l \in LineIds : line'[l].status = "LIVE" =>
    \/ line[l].status = "LIVE" /\ line'[l].received = line[l].received
    \/ line[l].status # "LIVE" /\ line'[l].received = 0

\* A step that changes no share of a receipt keeps the accounts.
LEMMA QuietAccounts ==
  ASSUME SInv, OrderAccountsForReceipts, LinesQuiet, TypeOK',
         \A l \in LineIds, g \in Receipts : line'[l].status = "LIVE" =>
           Shares(receipt', l)[g] = Shares(receipt, l)[g],
         \A l \in LineIds : line'[l].status = "LIVE" /\ OnceIn(receipt', l) => OnceIn(receipt, l)
  PROVE  OrderAccountsForReceipts'
<1> SUFFICES ASSUME NEW l \in LineIds, line'[l].status = "LIVE", OnceIn(receipt', l)
             PROVE  line'[l].received = AcceptedIn(receipt', l)
  BY AcceptedIsIn
<1>1. Shares(receipt, l) \in [Receipts -> Int] /\ Shares(receipt', l) \in [Receipts -> Int]
  BY SharesAreInt DEF SInv, IInv, TypeOK
<1>2. Shares(receipt', l) = Shares(receipt, l)
  BY <1>1
<1>3. AcceptedIn(receipt', l) = AcceptedIn(receipt, l)
  BY <1>2 DEF AcceptedIn
<1>4. CASE line[l].status = "LIVE"
  <2>1. line'[l].received = line[l].received
    BY <1>4 DEF LinesQuiet
  <2> QED
    BY <1>3, <1>4, <2>1, AcceptedIsIn
<1>5. CASE line[l].status # "LIVE"
  <2>1. line'[l].received = 0
    BY <1>5 DEF LinesQuiet
  <2>2. AcceptedIn(receipt, l) = 0
    BY <1>5, NothingOfMissingLine DEF SInv, IInv
  <2> QED
    BY <1>3, <2>1, <2>2
<1> QED
  BY <1>4, <1>5

\* So does one that leaves every receipt or changes one without goods.
LEMMA KeptAccounts ==
  ASSUME SInv, SInv', OrderAccountsForReceipts, LinesQuiet, \A g \in Receipts : ReceiptKept(g)
  PROVE  OrderAccountsForReceipts'
<1>1. ASSUME NEW l \in LineIds, NEW g \in Receipts
      PROVE  Shares(receipt', l)[g] = Shares(receipt, l)[g]
  <2>1. CASE receipt'[g] = receipt[g]
    BY <2>1 DEF Shares
  <2>2. CASE ~Settled(receipt[g]) /\ ~Settled(receipt'[g])
    <3>1. Shares(receipt, l)[g] = 0
      BY <2>2, UnsettledHasNoShare DEF SInv, IInv, Books
    <3>2. Shares(receipt', l)[g] = 0
      <4>1. TypeOK' /\ NothingAcceptedYet'
        BY DEF SInv, IInv, Books
      <4>2. CASE ~Exists(receipt'[g])
        BY <4>2 DEF Shares
      <4>3. CASE Exists(receipt'[g])
        <5>1. receipt'[g] \in [status : GRNStatus, of : Orders, items : ReceiptItems]
          BY <4>1, <4>3, ReceiptShape DEF TypeOK
        <5>2. receipt'[g].items \in ReceiptItems
          BY <5>1
        <5>3. \A i \in DOMAIN receipt'[g].items : receipt'[g].items[i].accepted = 0
          BY <2>2, <4>1, <4>3 DEF NothingAcceptedYet, Exists, Settled
        <5>4. SumFunction(Parts(receipt'[g].items, l)) = 0
          BY <5>2, <5>3, NoPart
        <5> QED
          BY <4>3, <5>4 DEF Shares
      <4> QED
        BY <4>2, <4>3
    <3> QED
      BY <3>1, <3>2
  <2> QED
    BY <2>1, <2>2 DEF ReceiptKept
<1>2. ASSUME NEW l \in LineIds, OnceIn(receipt', l)
      PROVE  OnceIn(receipt, l)
  BY <1>2 DEF OnceIn, ReceiptKept
<1> QED
  BY <1>1, <1>2, QuietAccounts DEF SInv, IInv

\* A table that stays as it is changes nothing.
LEMMA UntouchedTables ==
  /\ UNCHANGED line => LinesQuiet
  /\ UNCHANGED receipt => \A g \in Receipts : ReceiptKept(g)
<1>1. UNCHANGED receipt => \A g \in Receipts : ReceiptKept(g)
  BY DEF ReceiptKept
<1>2. UNCHANGED line => LinesQuiet
  <2> SUFFICES ASSUME UNCHANGED line, NEW l \in LineIds, line'[l].status = "LIVE"
               PROVE  line[l].status = "LIVE" /\ line'[l].received = line[l].received
    BY DEF LinesQuiet
  <2> QED
    OBVIOUS
<1> QED
  BY <1>1, <1>2

\* Inserting and deleting order items changes no quantity received.
LEMMA LinesInserted ==
  ASSUME NEW o, NEW quantity, InsertLines(o, quantity)
  PROVE  LinesQuiet
<1> SUFFICES ASSUME NEW l \in LineIds, line'[l].status = "LIVE"
             PROVE  \/ line[l].status = "LIVE" /\ line'[l].received = line[l].received
                    \/ line[l].status # "LIVE" /\ line'[l].received = 0
  BY DEF LinesQuiet
<1>1. CASE l \in DOMAIN quantity
  <2>1. line[l].status = "NONE"
    BY <1>1 DEF InsertLines
  <2>2. line'[l] = [status |-> "LIVE", of |-> o, ordered |-> quantity[l], received |-> 0]
    BY <1>1 DEF InsertLines
  <2>3. line'[l].received = 0
    BY <2>2
  <2> QED
    BY <2>1, <2>3
<1>2. CASE l \notin DOMAIN quantity
  BY <1>2 DEF InsertLines
<1> QED
  BY <1>1, <1>2

\* An order item that is deleted is not there to account for.
LEMMA LinesDeleted ==
  ASSUME NEW gone, DeleteLines(gone)
  PROVE  LinesQuiet
<1> SUFFICES ASSUME NEW l \in LineIds, line'[l].status = "LIVE"
             PROVE  line[l].status = "LIVE" /\ line'[l].received = line[l].received
  BY DEF LinesQuiet
<1>1. l \notin gone
  BY DEF DeleteLines, Absent
<1> QED
  BY <1>1 DEF DeleteLines

\* Handlers of requests change neither order items nor receipts.
LEMMA RequestStepAccounts ==
  ASSUME Serial, SInv, SInv', AInv, NEW c \in Clients, RequestStep(c)
  PROVE  AInv'
<1>1. UNCHANGED <<line, receipt>>
  BY DEF RequestStep, CreateRequest, BeginMoveRequest, Begin, CommitMoveRequest, tables
<1>2. OrderAccountsForReceipts'
  BY <1>1, KeptAccounts, UntouchedTables DEF AInv
<1>3. CASE UNCHANGED call
  <2>1. ASSUME NEW d \in Clients PROVE Fresh(call[d])'
    <3>1. PICK r : r = call[d]
      OBVIOUS
    <3>2. Fresh(r)'
      BY <1>1, <3>1, FreshKept DEF AInv, AllFresh
    <3>3. r = call'[d]
      BY <1>3, <3>1
    <3> QED
      BY <3>2, <3>3
  <2> QED
    BY <1>2, <2>1 DEF AInv, AllFresh
<1>4. ASSUME NEW p \in Requests, NEW to, BeginMoveRequest(c, p, to)
      PROVE  AllFresh'
  <2>1. PICK r : r.op = "moveRequest" /\ call' = [call EXCEPT ![c] = r]
    BY <1>4 DEF BeginMoveRequest, Begin
  <2>2. Fresh(r)'
    BY <2>1 DEF Fresh
  <2> QED
    BY <2>1, <2>2, OnlyFresh DEF SInv, IInv
<1>5. Done(c) => AllFresh'
  BY DoneFresh DEF SInv, IInv
<1> QED
  BY <1>2, <1>3, <1>4, <1>5 DEF AInv, RequestStep, CreateRequest, CommitMoveRequest

\* Order steps, but for the two that delete order items.
LEMMA OrderStepAccounts ==
  ASSUME Serial, SInv, SInv', AInv, NEW c \in Clients, OrderStep(c),
         ~DeleteOldLines(c), ~CommitRemoveOrder(c)
  PROVE  AInv'
<1>1. UNCHANGED receipt
  BY DEF OrderStep, BeginCreateOrder, CommitCreateOrder, BeginMoveOrder, BeginUpdateOrder,
     BeginRemoveOrder, Begin, CommitMoveOrder, CommitUpdateOrder, tables
<1>2. UNCHANGED line \/ \E o, quantity : InsertLines(o, quantity)
  BY DEF OrderStep, BeginCreateOrder, CommitCreateOrder, BeginMoveOrder, BeginUpdateOrder,
     BeginRemoveOrder, Begin, CommitMoveOrder, CommitUpdateOrder, tables
<1>3. OrderAccountsForReceipts'
  BY <1>1, <1>2, KeptAccounts, UntouchedTables, LinesInserted DEF AInv
<1>4. ASSUME NEW p, BeginCreateOrder(c, p) PROVE AllFresh'
  <2>1. Begin(c, [op |-> "createOrder", pr |-> p])
    BY <1>4 DEF BeginCreateOrder
  <2> QED
    BY <2>1, BeginFresh DEF SInv, IInv
<1>5. ASSUME NEW o, NEW to, BeginMoveOrder(c, o, to) PROVE AllFresh'
  <2>1. Begin(c, [op |-> "moveOrder", id |-> o, to |-> to])
    BY <1>5 DEF BeginMoveOrder
  <2> QED
    BY <2>1, BeginFresh DEF SInv, IInv
<1>6. ASSUME NEW o, BeginUpdateOrder(c, o) PROVE AllFresh'
  <2>1. Begin(c, [op |-> "updateOrder", id |-> o])
    BY <1>6 DEF BeginUpdateOrder
  <2> QED
    BY <2>1, BeginFresh DEF SInv, IInv
<1>7. ASSUME NEW o, BeginRemoveOrder(c, o) PROVE AllFresh'
  <2>1. Begin(c, [op |-> "removeOrder", id |-> o])
    BY <1>7 DEF BeginRemoveOrder
  <2> QED
    BY <2>1, BeginFresh DEF SInv, IInv
<1>8. Done(c) => AllFresh'
  BY DoneFresh DEF SInv, IInv
<1>9. ASSUME NEW o, NEW quantity, CommitCreateOrder(c, o, quantity) PROVE AllFresh'
  BY <1>8, <1>9 DEF CommitCreateOrder
<1>10. ASSUME NEW p, NEW quantity, CommitUpdateOrder(c, p, quantity) PROVE AllFresh'
  BY <1>8, <1>10 DEF CommitUpdateOrder
<1>11. CommitMoveOrder(c) => AllFresh'
  BY <1>8 DEF CommitMoveOrder
<1> QED
  BY <1>3, <1>4, <1>5, <1>6, <1>7, <1>9, <1>10, <1>11 DEF AInv, OrderStep

\* Deleting an order takes receipts with it whose goods were not received.
LEMMA RemoveOrderAccounts ==
  ASSUME Serial, SInv, SInv', AInv, NEW c \in Clients, CommitRemoveOrder(c)
  PROVE  AInv'
<1> DEFINE r == call[c]
<1>1. r \in Call /\ r.op = "removeOrder" /\ order[r.id].status = "DRAFT"
  BY DEF SInv, IInv, TypeOK, AllStillSo, StillSo, CommitRemoveOrder
<1>2. DeleteLines(LinesOf(r.id)) /\ Done(c)
  BY DEF CommitRemoveOrder
<1>3. ASSUME NEW g \in Receipts PROVE ReceiptKept(g)
  <2>1. CASE Exists(receipt[g]) /\ receipt[g].of = r.id
    <3>1. ~Settled(receipt[g])
      BY <1>1, <2>1 DEF SInv, Books, ReceivedIsNoDraft
    <3>2. receipt'[g] = Absent("DELETED")
      BY <2>1 DEF CommitRemoveOrder
    <3>3. ~Settled(receipt'[g]) /\ ~Exists(receipt'[g])
      BY <3>2 DEF Settled, Exists, Missing, Absent
    <3> QED
      BY <3>1, <3>3 DEF ReceiptKept
  <2>2. CASE ~(Exists(receipt[g]) /\ receipt[g].of = r.id)
    <3>1. receipt'[g] = receipt[g]
      BY <2>2 DEF CommitRemoveOrder
    <3> QED
      BY <3>1 DEF ReceiptKept
  <2> QED
    BY <2>1, <2>2
<1>4. OrderAccountsForReceipts'
  BY <1>2, <1>3, KeptAccounts, LinesDeleted DEF AInv
<1> QED
  BY <1>2, <1>4, DoneFresh DEF AInv, SInv, IInv

\* Deleting the order's old items cuts only links to items that are gone.
LEMMA DeleteOldLinesAccounts ==
  ASSUME Serial, SInv, SInv', AInv, NEW c \in Clients, DeleteOldLines(c)
  PROVE  AInv'
<1>1. PICK gone : gone = LinesOf(call[c].id)
  OBVIOUS
<1>2. LinesQuiet
  BY <1>1, LinesDeleted DEF DeleteOldLines
<1>3. \A l \in LineIds : line'[l].status = "LIVE" => l \notin gone
  BY <1>1 DEF DeleteOldLines, DeleteLines, Absent
<1>4. ASSUME NEW g \in Receipts, Exists(receipt[g])
      PROVE  /\ receipt[g].items \in ReceiptItems
             /\ Exists(receipt'[g]) /\ receipt'[g].items = Unlinked(receipt[g].items, gone)
             /\ receipt'[g].status = receipt[g].status
  <2>1. receipt[g] \in [status : GRNStatus, of : Orders, items : ReceiptItems]
    BY <1>4, ReceiptShape DEF SInv, IInv, TypeOK
  <2>2. receipt'[g] = [receipt[g] EXCEPT !.items = Unlinked(receipt[g].items, gone)]
    BY <1>1, <1>4 DEF DeleteOldLines
  <2>3. receipt'[g].status = receipt[g].status /\ receipt'[g].items = Unlinked(receipt[g].items, gone)
    BY <2>1, <2>2
  <2> QED
    BY <1>4, <2>1, <2>3 DEF Exists
<1>5. \A g \in Receipts : ~Exists(receipt[g]) => receipt'[g] = receipt[g]
  BY DEF DeleteOldLines
<1>6. ASSUME NEW items \in ReceiptItems
      PROVE  /\ DOMAIN Unlinked(items, gone) = DOMAIN items
             /\ \A i \in DOMAIN items :
                  /\ Unlinked(items, gone)[i].line =
                       IF items[i].line \in gone THEN NoLine ELSE items[i].line
                  /\ Unlinked(items, gone)[i].accepted = items[i].accepted
  <2>1. items \in [DOMAIN items -> ReceiptItem]
    BY ItemsShape
  <2>2. \A i \in DOMAIN items :
          /\ [items[i] EXCEPT !.line = NoLine].accepted = items[i].accepted
          /\ [items[i] EXCEPT !.line = NoLine].line = NoLine
    BY <2>1 DEF ReceiptItem
  <2> QED
    BY <2>2 DEF Unlinked
<1>7. ASSUME NEW l \in LineIds, NEW g \in Receipts, line'[l].status = "LIVE"
      PROVE  Shares(receipt', l)[g] = Shares(receipt, l)[g]
  <2>1. CASE ~Exists(receipt[g])
    BY <1>5, <2>1 DEF Shares
  <2>2. CASE Exists(receipt[g])
    <3>1. PICK items : items = receipt[g].items
      OBVIOUS
    <3>2. items \in ReceiptItems /\ receipt'[g].items = Unlinked(items, gone) /\ Exists(receipt'[g])
      BY <1>4, <2>2, <3>1
    <3>3. l \notin gone /\ l # NoLine
      BY <1>3, <1>7, ProcurementAssumption
    <3>4. Parts(Unlinked(items, gone), l) = Parts(items, l)
      BY <1>6, <3>2, <3>3 DEF Parts
    <3> QED
      BY <2>2, <3>1, <3>2, <3>4 DEF Shares
  <2> QED
    BY <2>1, <2>2
<1>8. ASSUME NEW l \in LineIds, line'[l].status = "LIVE", OnceIn(receipt', l)
      PROVE  OnceIn(receipt, l)
  <2> SUFFICES ASSUME NEW g \in Receipts, Settled(receipt[g])
      PROVE  \A i, j \in DOMAIN receipt[g].items :
               receipt[g].items[i].line = l /\ receipt[g].items[j].line = l => i = j
    BY DEF OnceIn
  <2>1. Exists(receipt[g])
    BY DEF Settled, Exists, Missing
  <2>2. PICK items : items = receipt[g].items
    OBVIOUS
  <2>3. /\ items \in ReceiptItems /\ receipt'[g].items = Unlinked(items, gone)
        /\ receipt'[g].status = receipt[g].status
    BY <1>4, <2>1, <2>2
  <2>4. l \notin gone /\ l # NoLine
    BY <1>3, <1>8, ProcurementAssumption
  <2>5. \A i, j \in DOMAIN Unlinked(items, gone) :
          Unlinked(items, gone)[i].line = l /\ Unlinked(items, gone)[j].line = l => i = j
    BY <1>8, <2>3 DEF OnceIn, Settled
  <2> QED
    BY <1>6, <2>2, <2>3, <2>4, <2>5
<1>9. OrderAccountsForReceipts'
  BY <1>2, <1>7, <1>8, QuietAccounts DEF SInv, IInv, AInv
<1>10. AllFresh'
  <2>1. PICK r : r = [call[c] EXCEPT !.op = "insertLines"]
    OBVIOUS
  <2>2. call[c] \in Call /\ call[c].op = "updateOrder"
    BY DEF DeleteOldLines, SInv, IInv, TypeOK
  <2>3. call[c] \in [op : {"updateOrder", "insertLines", "removeOrder"}, id : Orders]
    BY <2>2, CallShape
  <2>4. r.op = "insertLines" /\ call' = [call EXCEPT ![c] = r]
    BY <2>1, <2>3 DEF DeleteOldLines
  <2>5. Fresh(r)'
    BY <2>4 DEF Fresh
  <2> QED
    BY <2>4, <2>5, OnlyFresh DEF SInv, IInv
<1> QED
  BY <1>9, <1>10 DEF AInv

-----------------------------------------------------------------------------
(* Steps of receipts.                                                        *)

\* Nothing that begins or is under way changes a table: what remains to show
\* is what the handler has read.
LEMMA BeginAccounts ==
  ASSUME Serial, SInv, SInv', AInv, NEW c \in Clients, NEW r, Fresh(r)',
         call' = [call EXCEPT ![c] = r], UNCHANGED tables
  PROVE  AInv'
<1>1. UNCHANGED line /\ UNCHANGED receipt
  BY DEF tables
<1>2. OrderAccountsForReceipts'
  BY <1>1, KeptAccounts, UntouchedTables DEF AInv
<1> QED
  BY <1>2, OnlyFresh DEF AInv, SInv, IInv

\* The rows read before goods are received are those of the tables.
LEMMA ReceiptReadsAccount ==
  ASSUME Serial, SInv, SInv', AInv, NEW c \in Clients
  PROVE  /\ \A o, items : BeginCreateReceipt(c, o, items) => AInv'
         /\ \A g : BeginInspect(c, g) \/ BeginRemoveReceipt(c, g) => AInv'
         /\ \A g, entries : BeginReceive(c, g, entries) => AInv'
         /\ ExecuteReceive(c) => AInv'
<1>1. ASSUME NEW o, NEW items, BeginCreateReceipt(c, o, items) PROVE AInv'
  <2>1. PICK r : r = [op |-> "createReceipt", of |-> o, items |-> items]
    OBVIOUS
  <2>2. r.op = "createReceipt"
    BY <2>1
  <2>3. Fresh(r)'
    BY <2>2 DEF Fresh
  <2>4. call' = [call EXCEPT ![c] = r] /\ UNCHANGED tables
    BY <1>1, <2>1 DEF BeginCreateReceipt, Begin
  <2> QED
    BY <2>3, <2>4, BeginAccounts
<1>2. ASSUME NEW g, BeginInspect(c, g) \/ BeginRemoveReceipt(c, g) PROVE AInv'
  <2>1. PICK op \in {"inspect", "removeReceipt"} : Begin(c, [op |-> op, id |-> g])
    BY <1>2 DEF BeginInspect, BeginRemoveReceipt
  <2>2. PICK r : r = [op |-> op, id |-> g]
    OBVIOUS
  <2>3. Fresh(r)'
    BY <2>2 DEF Fresh
  <2>4. call' = [call EXCEPT ![c] = r] /\ UNCHANGED tables
    BY <2>1, <2>2 DEF Begin
  <2> QED
    BY <2>3, <2>4, BeginAccounts
<1>3. ASSUME NEW g, NEW entries, BeginReceive(c, g, entries) PROVE AInv'
  <2> DEFINE items == receipt[g].items
             named == {items[i].line : i \in Listed(entries)}
             read == [l \in LineIds |-> IF l \in named THEN line[l] ELSE Absent("NONE")]
  <2>1. PICK r : r = [op |-> "receive", id |-> g, of |-> receipt[g].of, items |-> items,
                      entries |-> entries, read |-> read]
    OBVIOUS
  <2>2. call' = [call EXCEPT ![c] = r] /\ UNCHANGED <<line, receipt>> /\ UNCHANGED tables
    BY <1>3, <2>1 DEF BeginReceive, Begin, tables
  <2>3. r.op = "receive" /\ r.id = g /\ r.items = items /\ r.entries = entries /\ r.read = read
    BY <2>1
  <2>4. \A l \in Writes(r) : l \in named /\ l \in LineIds
    BY <2>3 DEF Writes, ItemsOf
  <2>5. \A l \in Writes(r) : r.read[l] = line[l]
    BY <2>3, <2>4
  <2> HIDE DEF items, named, read
  <2>6. Fresh(r)
    BY <2>3, <2>5 DEF Fresh, items
  <2>7. Fresh(r)'
    BY <2>2, <2>6, FreshKept
  <2> QED
    BY <2>2, <2>7, BeginAccounts
<1>4. ASSUME ExecuteReceive(c) PROVE AInv'
  <2>1. PICK q : q = call[c]
    OBVIOUS
  <2>2. PICK r : r = [op |-> "received", id |-> q.id, of |-> q.of, items |-> q.items,
                      entries |-> q.entries, read |-> q.read, status |-> StatusOfOrder(q)]
    OBVIOUS
  <2>3. q.op = "receive" /\ Fresh(q)
    BY <1>4, <2>1 DEF ExecuteReceive, AInv, AllFresh
  <2>4. call' = [call EXCEPT ![c] = r] /\ UNCHANGED <<line, receipt>> /\ UNCHANGED tables
    BY <1>4, <2>1, <2>2 DEF ExecuteReceive, tables
  <2>5. Fresh(r)
    BY <2>2, <2>3 DEF Fresh, Writes, ItemsOf
  <2>6. Fresh(r)'
    BY <2>4, <2>5, FreshKept
  <2> QED
    BY <2>4, <2>6, BeginAccounts
<1> QED
  BY <1>1, <1>2, <1>3, <1>4

\* A receipt that is created, inspected or deleted has received no goods.
LEMMA ReceiptWritesAccount ==
  ASSUME Serial, SInv, SInv', AInv, NEW c \in Clients,
         \/ \E g \in Receipts : CommitCreateReceipt(c, g)
         \/ CommitInspect(c)
         \/ CommitRemoveReceipt(c)
  PROVE  AInv'
<1>1. UNCHANGED line /\ Done(c)
  BY DEF CommitCreateReceipt, CommitInspect, CommitRemoveReceipt
<1>2. ASSUME NEW g \in Receipts, NEW doc, receipt' = [receipt EXCEPT ![g] = doc],
             ~Settled(receipt[g]), ~Settled(doc)
      PROVE  \A h \in Receipts : ReceiptKept(h)
  <2>1. \A h \in Receipts : receipt'[h] = IF h = g THEN doc ELSE receipt[h]
    BY <1>2 DEF SInv, IInv, TypeOK
  <2> QED
    BY <1>2, <2>1 DEF ReceiptKept
<1>3. ASSUME NEW g \in Receipts, CommitCreateReceipt(c, g)
      PROVE  \A h \in Receipts : ReceiptKept(h)
  <2>1. PICK r : r = call[c]
    OBVIOUS
  <2>2. PICK doc : doc = [status |-> "PENDING", of |-> r.of, items |-> r.items]
    OBVIOUS
  <2>3. ~Settled(doc)
    BY <2>2 DEF Settled
  <2>4. receipt' = [receipt EXCEPT ![g] = doc] /\ ~Settled(receipt[g])
    BY <1>3, <2>1, <2>2 DEF CommitCreateReceipt, Settled
  <2> QED
    BY <1>2, <2>3, <2>4
<1>4. ASSUME CommitInspect(c) PROVE \A h \in Receipts : ReceiptKept(h)
  <2>1. PICK r : r = call[c]
    OBVIOUS
  <2>2. r \in Call /\ r.op = "inspect" /\ Exists(receipt[r.id]) /\ ~Settled(receipt[r.id])
    BY <1>4, <2>1 DEF SInv, IInv, TypeOK, AllStillSo, StillSo, CommitInspect
  <2>3. r.id \in Receipts
    BY <2>2, CallShape
  <2>4. PICK old : old = receipt[r.id]
    OBVIOUS
  <2>5. old \in [status : GRNStatus, of : Orders, items : ReceiptItems]
    BY <2>2, <2>3, <2>4, ReceiptShape DEF SInv, IInv, TypeOK
  <2>6. PICK doc : doc = [old EXCEPT !.status = "INSPECTING"]
    OBVIOUS
  <2>7. ~Settled(doc)
    BY <2>5, <2>6 DEF Settled
  <2>8. receipt' = [receipt EXCEPT ![r.id] = doc]
    BY <1>4, <2>1, <2>4, <2>6 DEF CommitInspect
  <2> QED
    BY <1>2, <2>2, <2>3, <2>7, <2>8
<1>5. ASSUME CommitRemoveReceipt(c) PROVE \A h \in Receipts : ReceiptKept(h)
  <2>1. PICK r : r = call[c]
    OBVIOUS
  <2>2. r \in Call /\ r.op = "removeReceipt" /\ ~Settled(receipt[r.id])
    BY <1>5, <2>1 DEF SInv, IInv, TypeOK, AllStillSo, StillSo, CommitRemoveReceipt
  <2>3. r.id \in Receipts
    BY <2>2, CallShape
  <2>4. PICK doc : doc = Absent("DELETED")
    OBVIOUS
  <2>5. ~Settled(doc)
    BY <2>4 DEF Settled, Absent
  <2>6. receipt' = [receipt EXCEPT ![r.id] = doc]
    BY <1>5, <2>1, <2>4 DEF CommitRemoveReceipt
  <2> QED
    BY <1>2, <2>2, <2>3, <2>5, <2>6
<1>6. OrderAccountsForReceipts'
  BY <1>1, <1>3, <1>4, <1>5, KeptAccounts, UntouchedTables DEF AInv
<1> QED
  BY <1>1, <1>6, DoneFresh DEF AInv, SInv, IInv

\* Receiving goods adds to an order item what the receipt comes to account for.
LEMMA CommitReceiveAccounts ==
  ASSUME Serial, SInv, SInv', AInv, NEW c \in Clients, CommitReceive(c)
  PROVE  AInv'
<1> DEFINE r == call[c]
           old == receipt[r.id]
           doc == Accepted(old, r)
<1>1. /\ r \in Call /\ r.op = "received" /\ ReceivesInStep(r) /\ LocksHeld(r)
      /\ Exists(old) /\ ~Settled(old) /\ Fresh(r)
  BY DEF SInv, IInv, TypeOK, AllStillSo, StillSo, CallsInStep, CallInStep, CommitReceive,
         AInv, AllFresh
<1>2. /\ r.id \in Receipts /\ old.items = r.items
      /\ Listed(r.entries) \subseteq DOMAIN r.items /\ r.entries \in Entries
      /\ \A l \in Writes(r) : r.read[l] = line[l]
  BY <1>1, CallShape DEF ReceivesInStep, Fresh
<1>3. r.items \in ReceiptItems /\ r.items \in [DOMAIN r.items -> ReceiptItem]
  BY <1>1, CallShape, ItemsShape
<1>4. \A i \in Listed(r.entries) : Last(r.entries, {i}) \in Int
  BY <1>2, LastIsPortion
<1>5. \A i \in DOMAIN r.items : r.items[i].accepted = 0
  BY <1>1, <1>2 DEF SInv, Books, NothingAcceptedYet
<1>7. \A g \in Receipts : receipt'[g] = IF g = r.id THEN doc ELSE receipt[g]
  BY DEF CommitReceive, SInv, IInv, TypeOK
<1>8. /\ Exists(doc) /\ Settled(doc) /\ DOMAIN doc.items = DOMAIN r.items
      /\ \A i \in DOMAIN r.items :
           /\ doc.items[i].line = r.items[i].line
           /\ doc.items[i].accepted =
                IF i \in Listed(r.entries) THEN Last(r.entries, {i}) ELSE 0
  <2>1. \A i \in DOMAIN r.items :
          /\ [r.items[i] EXCEPT !.accepted = Last(r.entries, {i})].accepted = Last(r.entries, {i})
          /\ [r.items[i] EXCEPT !.accepted = Last(r.entries, {i})].line = r.items[i].line
    BY <1>3 DEF ReceiptItem
  <2>2. /\ doc.status = IF FullyAccepted(r) THEN "RECEIVED" ELSE "PARTIAL"
        /\ doc.items = [i \in DOMAIN r.items |->
             IF i \in Listed(r.entries)
             THEN [r.items[i] EXCEPT !.accepted = Last(r.entries, {i})] ELSE r.items[i]]
    BY <1>2 DEF Accepted
  <2> HIDE DEF doc, old, r
  <2> QED
    BY <1>5, <2>1, <2>2 DEF Exists, Missing, Settled
<1>9. Done(c)
  BY DEF CommitReceive
<1>10. \A l \in LineIds : line'[l] =
         IF l \in Writes(r) THEN [line[l] EXCEPT !.received = NewReceived(r, l)] ELSE line[l]
  BY DEF CommitReceive
<1>11. \A l \in Writes(r) : line[l] \in [status : {"LIVE"}, of : Orders,
                                         ordered : Quantities, received : Int]
  BY <1>1, LineShape DEF LocksHeld, SInv, IInv, TypeOK, Writes
<1>12. doc.items \in ReceiptItems
  <2>1. receipt'[r.id] = doc
    BY <1>2, <1>7
  <2>2. doc \in ReceiptDoc
    BY <1>2, <2>1 DEF SInv, IInv, TypeOK
  <2> HIDE DEF doc, old, r
  <2>3. doc \in [status : GRNStatus, of : Orders, items : ReceiptItems]
    BY <1>8, <2>2, ReceiptShape
  <2> QED
    BY <2>3
<1> HIDE DEF doc, old
<1>13. ASSUME NEW l \in LineIds, line'[l].status = "LIVE", OnceIn(receipt', l)
       PROVE  line'[l].received = AcceptedIn(receipt', l)
  <2>0. /\ \A i, j \in DOMAIN doc.items :
             doc.items[i].line = l /\ doc.items[j].line = l => i = j
        /\ OnceIn(receipt, l)
    BY <1>1, <1>2, <1>7, <1>8, <1>13 DEF OnceIn, old
  <2> DEFINE f == Shares(receipt, l)
             g == Shares(receipt', l)
  <2>1. f \in [Receipts -> Int] /\ g \in [Receipts -> Int]
    BY SharesAreInt DEF SInv, IInv, TypeOK
  <2>2. \A y \in Receipts : y # r.id => g[y] = f[y]
    BY <1>7 DEF Shares
  <2>3. f[r.id] = 0
    BY <1>1, <1>2, UnsettledHasNoShare DEF SInv, IInv, Books, old
  <2>4. g[r.id] = SumFunction(Parts(doc.items, l))
    BY <1>2, <1>7, <1>8 DEF Shares
  <2> HIDE DEF f, g
  <2>5. SumFunction(g) = SumFunction(f) + g[r.id]
    <3>1. SumFunction(g) = SumFunction(f) + (g[r.id] - f[r.id])
      BY <1>2, <2>1, <2>2, FiniteAssumption, SumChanges
    <3> QED
      BY <1>2, <2>1, <2>3, <3>1
  <2>6. CASE l \in Writes(r)
    <3>1. PICK i \in Listed(r.entries) : r.items[i].line = l
      BY <2>6 DEF Writes, ItemsOf
    <3>2. /\ i \in DOMAIN doc.items /\ doc.items[i].line = l
          /\ doc.items[i].accepted = Last(r.entries, {i})
      BY <1>2, <1>8, <3>1
    <3>3. \A j \in DOMAIN doc.items : j # i => doc.items[j].line # l
      BY <2>0, <3>2
    <3>4. ItemsOf(r, l) = {i}
      BY <1>2, <1>8, <3>1, <3>3 DEF ItemsOf
    <3>5. SumFunction(Parts(doc.items, l)) = Last(r.entries, {i})
      BY <1>12, <3>2, <3>3, OnePart
    <3>6. line'[l].received = line[l].received + Last(r.entries, {i})
      BY <1>2, <1>10, <1>11, <2>6, <3>4 DEF NewReceived
    <3>7. line[l].received = SumFunction(f)
      BY <1>11, <2>0, <2>6, AcceptedIsIn DEF AInv, AcceptedIn, f
    <3> QED
      BY <2>4, <2>5, <3>5, <3>6, <3>7 DEF AcceptedIn, g
  <2>7. CASE l \notin Writes(r)
    <3>1. \A i \in DOMAIN doc.items : doc.items[i].line = l => doc.items[i].accepted = 0
      BY <1>8, <2>7 DEF Writes, ItemsOf
    <3>2. g[r.id] = 0
      BY <1>12, <2>4, <3>1, NoPart
    <3>3. line'[l] = line[l] /\ line[l].received = SumFunction(f)
      BY <1>10, <1>13, <2>0, <2>7, AcceptedIsIn DEF AInv, AcceptedIn, f
    <3>4. SumFunction(f) \in Int
      BY <2>1, FiniteAssumption, SumIsInt
    <3> QED
      BY <2>5, <3>2, <3>3, <3>4 DEF AcceptedIn, g
  <2> QED
    BY <2>6, <2>7
<1>14. OrderAccountsForReceipts'
  BY <1>13, AcceptedIsIn
<1> QED
  BY <1>9, <1>14, DoneFresh DEF AInv, SInv, IInv

\* Every handler of a receipt keeps the accounts.
LEMMA ReceiptStepAccounts ==
  ASSUME Serial, SInv, SInv', AInv, NEW c \in Clients, ReceiptStep(c)
  PROVE  AInv'
<1>1. CASE \E o \in Orders, items \in NewItems : BeginCreateReceipt(c, o, items)
  BY <1>1, ReceiptReadsAccount
<1>2. CASE \E g \in Receipts : BeginInspect(c, g) \/ BeginRemoveReceipt(c, g)
  BY <1>2, ReceiptReadsAccount
<1>3. CASE \E g \in Receipts, entries \in Entries : BeginReceive(c, g, entries)
  BY <1>3, ReceiptReadsAccount
<1>4. CASE ExecuteReceive(c)
  BY <1>4, ReceiptReadsAccount
<1>5. CASE \/ \E g \in Receipts : CommitCreateReceipt(c, g)
           \/ CommitInspect(c)
           \/ CommitRemoveReceipt(c)
  BY <1>5, ReceiptWritesAccount
<1>6. CASE CommitReceive(c)
  BY <1>6, CommitReceiveAccounts
<1> QED
  BY <1>1, <1>2, <1>3, <1>4, <1>5, <1>6 DEF ReceiptStep

\* So does every step.
LEMMA AccountsStep ==
  ASSUME Serial, SInv, SInv', AInv, [Next]_vars
  PROVE  AInv'
<1>1. ASSUME NEW c \in Clients, RequestStep(c) PROVE AInv'
  BY <1>1, RequestStepAccounts
<1>2. ASSUME NEW c \in Clients, OrderStep(c) PROVE AInv'
  BY <1>2, OrderStepAccounts, RemoveOrderAccounts, DeleteOldLinesAccounts
<1>3. ASSUME NEW c \in Clients, ReceiptStep(c) PROVE AInv'
  BY <1>3, ReceiptStepAccounts
<1>4. ASSUME NEW c \in Clients, Fail(c) PROVE AInv'
  <2>1. UNCHANGED line /\ UNCHANGED receipt /\ Done(c)
    BY <1>4 DEF Fail, tables
  <2>2. OrderAccountsForReceipts'
    BY <2>1, KeptAccounts, UntouchedTables DEF AInv
  <2> QED
    BY <2>1, <2>2, DoneFresh DEF AInv, SInv, IInv
<1>5. ASSUME UNCHANGED vars PROVE AInv'
  <2>1. UNCHANGED line /\ UNCHANGED receipt /\ UNCHANGED call
    BY <1>5 DEF vars
  <2>2. OrderAccountsForReceipts'
    BY <2>1, KeptAccounts, UntouchedTables DEF AInv
  <2>3. ASSUME NEW d \in Clients PROVE Fresh(call[d])'
    <3>1. PICK r : r = call[d]
      OBVIOUS
    <3>2. Fresh(r)'
      BY <2>1, <3>1, FreshKept DEF AInv, AllFresh
    <3>3. r = call'[d]
      BY <2>1, <3>1
    <3> QED
      BY <3>2, <3>3
  <2> QED
    BY <2>2, <2>3 DEF AInv, AllFresh
<1> QED
  BY <1>1, <1>2, <1>3, <1>4, <1>5 DEF Next

\* Before the first step there is nothing to account for.
LEMMA InitAccounts == Init => AInv
<1> SUFFICES ASSUME Init PROVE AInv
  OBVIOUS
<1>1. \A l \in LineIds : line[l].status # "LIVE"
  BY DEF Init, Absent
<1>2. OrderAccountsForReceipts
  BY <1>1 DEF OrderAccountsForReceipts
<1>4. AllFresh
  BY DEF Init, AllFresh, Fresh, Idle
<1> QED
  BY <1>2, <1>4 DEF AInv

\* When the handlers run one after the other, every order item that no two items
\* of a receipt name has received what the receipts that exist accepted of it.
THEOREM ReceiptsAccountedWhenSerial ==
  ASSUME Serial PROVE Spec => []OrderAccountsForReceipts
<1>1. SInv /\ SInv' /\ AInv /\ [Next]_vars => AInv'
  BY AccountsStep
<1>2. AInv => OrderAccountsForReceipts
  BY DEF AInv
<1> QED
  BY <1>1, <1>2, InitAccounts, SerialInvariant, PTL DEF Spec
=============================================================================
