-------------------------- MODULE Deployment_proofs --------------------------
(***************************************************************************)
(* What holds of deployments for every set of locations, posts, guards and *)
(* requests.                                                               *)
(*                                                                         *)
(* A request inserts an assignment long after it looked up guard, post and *)
(* location.  It relies on two facts about the identities it holds         *)
(* (Placed): a post or an assignment it has read is never another one, *)
(* since identities are not used again (PostsEvolve, RowsEvolve), so that  *)
(* it is either gone or still where it was.                                *)
(***************************************************************************)
EXTENDS Deployment, FiniteSetTheorems, TLAPS

\* A post that was there once is never another one.
PostsEvolve ==
  \A p \in Posts : post[p] # Unused =>
    /\ post'[p] # Unused
    /\ Present(post'[p]) =>
         /\ Present(post[p])
         /\ post'[p].loc = post[p].loc
         /\ post'[p].quantity = post[p].quantity

\* An assignment that was there once is never another one.
RowsEvolve ==
  \A r \in Rows : assigned[r] # Unused =>
    /\ assigned'[r] # Unused
    /\ Present(assigned'[r]) => Present(assigned[r]) /\ assigned'[r].post = assigned[r].post

\* What most steps do to the assignments: nothing but delete some.
RowsFall ==
  \A r \in Rows :
    /\ assigned'[r] \in {assigned[r], Gone}
    /\ assigned[r] = Unused => assigned'[r] = Unused

\* A call that has counted the assignments to a post and will add one.
Promises(k) == k.op \in {"find", "end", "insert"}

\* No step but the one that counts the assignments makes a new promise.
PromisesFall ==
  \A c \in Callers : Promises(call'[c]) => Promises(call[c]) /\ call'[c].post = call[c].post

\* The post and the assignment a request has read are gone or where they were.
Placed(k, posts, rows) ==
  /\ Promises(k) =>
       /\ posts[k.post] # Unused
       /\ Present(posts[k.post]) => posts[k.post].loc = k.loc
  /\ k.op = "end" =>
       /\ rows[k.row] # Unused
       /\ Present(rows[k.row]) => rows[k.row].post = k.post

CallsPlaced == \A c \in Callers : Placed(call[c], post, assigned)

IInv == TypeOK /\ CallsPlaced /\ AssignmentsReferToPosts
-----------------------------------------------------------------------------
(* The ranges of rows and calls.                                             *)

\* A call has the fields of its kind.
LEMMA CallShape ==
  ASSUME NEW k \in Call
  PROVE  /\ k.op \in {"createLocation", "createCategory"} => k.name \in Names
         /\ k.op \in {"find", "end", "insert"} =>
              k.guard \in Guards /\ k.post \in Posts /\ k.loc \in Locations /\ k.category \in Categories
         /\ k.op = "end" => k.row \in Rows
         /\ k.op \in {"removePosts", "removeLocation"} => k.loc \in Locations
BY DEF Call, Idle

\* A row is present exactly when it has the columns of its table.
LEMMA PresentRows ==
  ASSUME TypeOK
  PROVE  /\ \A l \in Locations : Present(location[l]) <=> location[l] \in Named
         /\ \A k \in Categories : Present(category[k]) <=> category[k] \in Named
         /\ \A p \in Posts : Present(post[p]) <=> post[p] \in PostRow
         /\ \A r \in Rows : Present(assigned[r]) <=> assigned[r] \in AssignedRow
         /\ \A r \in Rows : Present(assigned[r]) <=> assigned[r].status \in {"OPEN", "ENDED"}
<1>1. \A x \in Named : Present(x)
  BY DEF Named, Present, Absent, Unused, Gone
<1>2. \A x \in PostRow : Present(x)
  BY DEF PostRow, Present, Absent, Unused, Gone
<1>3. \A x \in AssignedRow : Present(x) /\ x.status \in {"OPEN", "ENDED"}
  BY DEF AssignedRow, Present, Absent, Unused, Gone
<1>4. \A x \in Absent : ~Present(x) /\ x.status \notin {"OPEN", "ENDED"}
  BY DEF Present, Absent, Unused, Gone
<1> QED BY <1>1, <1>2, <1>3, <1>4 DEF TypeOK

\* Gone is a row that was there, and is not any more.
LEMMA GoneIsAbsent == Gone # Unused /\ ~Present(Gone) /\ ~Present(Unused)
BY DEF Present, Absent, Unused, Gone

\* The posts a request may insert are fresh and of the location it names.
LEMMA NewPostRows ==
  ASSUME NEW l \in Locations, NEW new \in NewPosts(l, {"NONE", "KEPT"}) \cup NewPosts(l, {"KEPT"})
  PROVE  \A p \in DOMAIN new :
           /\ p \in Posts /\ post[p] = Unused
           /\ new[p] \in PostRow /\ new[p].loc = l /\ new[p].finances # "LOST"
BY DEF NewPosts, PostRow
-----------------------------------------------------------------------------
(* What a step preserves of the calls.                                       *)

LEMMA FallingRowsEvolve == ASSUME RowsFall PROVE RowsEvolve
BY GoneIsAbsent DEF RowsFall, RowsEvolve

LEMMA PlacedStays ==
  ASSUME NEW k \in Call, Placed(k, post, assigned), PostsEvolve, RowsEvolve
  PROVE  Placed(k, post', assigned')
BY CallShape DEF Placed, Promises, PostsEvolve, RowsEvolve

LEMMA CallsStayPlaced ==
  ASSUME IInv, PostsEvolve, RowsEvolve, call' = call
  PROVE  CallsPlaced'
BY PlacedStays DEF IInv, TypeOK, CallsPlaced

LEMMA CallerMoves ==
  ASSUME IInv, PostsEvolve, RowsEvolve, NEW c \in Callers, NEW k \in Call,
         Placed(k, post', assigned'), Proceed(c, k)
  PROVE  call' \in [Callers -> Call] /\ CallsPlaced'
<1>1. call' = [call EXCEPT ![c] = k] /\ call \in [Callers -> Call]
  BY DEF Proceed, IInv, TypeOK
<1>2. \A b \in Callers : Placed(call[b], post', assigned')
  BY PlacedStays, <1>1 DEF IInv, CallsPlaced
<1> QED BY <1>1, <1>2 DEF CallsPlaced

\* A call without a promise is placed anywhere.
LEMMA IdlePlaced ==
  ASSUME NEW k, ~Promises(k), NEW posts, NEW rows
  PROVE  Placed(k, posts, rows)
BY DEF Placed, Promises

LEMMA CallMembers ==
  /\ Idle \in Call /\ ~Promises(Idle)
  /\ \A n \in Names, o \in {"createLocation", "createCategory"} :
       LET k == [op |-> o, name |-> n] IN k \in Call /\ ~Promises(k)
  /\ \A l \in Locations, o \in {"removePosts", "removeLocation"} :
       LET k == [op |-> o, loc |-> l] IN k \in Call /\ ~Promises(k)
BY DEF Call, Idle, Promises
-----------------------------------------------------------------------------
(* Each step: the tables stay in their ranges, posts and assignments are the *)
(* ones they were, and no assignment dangles.                                *)

\* A step that leaves the tables alone.
LEMMA TablesStay ==
  ASSUME IInv, UNCHANGED tables
  PROVE  PostsEvolve /\ RowsFall /\ AssignmentsReferToPosts'
         /\ (call' \in [Callers -> Call] => TypeOK')
BY DEF IInv, TypeOK, tables, PostsEvolve, RowsFall, AssignmentsReferToPosts, Referable

\* A step that deletes posts of D and their assignments.
LEMMA DeletionOfPosts ==
  ASSUME IInv, NEW D \in SUBSET Posts, DeletePosts(D), UNCHANGED <<location, category, guard>>
  PROVE  PostsEvolve /\ RowsFall /\ AssignmentsReferToPosts'
         /\ (call' \in [Callers -> Call] => TypeOK')
<1> USE DEF IInv, TypeOK
<1>1. PostsEvolve
  BY GoneIsAbsent DEF DeletePosts, PostsEvolve
<1>2. RowsFall
  BY GoneIsAbsent DEF DeletePosts, RowsFall
<1>3. AssignmentsReferToPosts'
  BY GoneIsAbsent, PresentRows DEF DeletePosts, AssignmentsReferToPosts, Referable, AssignedRow
<1>4. post' \in [Posts -> Absent \cup PostRow] /\ assigned' \in [Rows -> Absent \cup AssignedRow]
  BY DEF DeletePosts, Absent
<1> QED BY <1>1, <1>2, <1>3, <1>4
\* A step that is neither the counting of assignments, nor the end of one, nor
\* the insertion of one.
Quiet == IInv' /\ PostsEvolve /\ RowsFall /\ PromisesFall

\* A request that reads, or returns, or writes no table of the invariant.
LEMMA QuietCall ==
  ASSUME IInv, NEW c \in Callers, NEW k \in Call,
         Proceed(c, k), UNCHANGED tables, Placed(k, post, assigned),
         Promises(k) => Promises(call[c]) /\ k.post = call[c].post
  PROVE  Quiet
<1>1. PostsEvolve /\ RowsFall /\ AssignmentsReferToPosts' /\ (call' \in [Callers -> Call] => TypeOK')
  BY TablesStay
<1>2. Placed(k, post', assigned')
  BY DEF tables
<1>3. call' \in [Callers -> Call] /\ CallsPlaced'
  BY <1>1, <1>2, CallerMoves, FallingRowsEvolve
<1>4. PromisesFall
  BY DEF PromisesFall, Proceed, IInv, TypeOK
<1> QED BY <1>1, <1>3, <1>4 DEF Quiet, IInv

\* A step that makes no promise and leaves guards and assignments alone.
LEMMA QuietTables ==
  ASSUME IInv, TypeOK', PostsEvolve, RowsFall, AssignmentsReferToPosts',
         call' = call \/ \E c \in Callers, k \in Call : Proceed(c, k) /\ ~Promises(k)
  PROVE  Quiet
<1>1. CASE call' = call
  BY <1>1, CallsStayPlaced, FallingRowsEvolve DEF Quiet, IInv, PromisesFall
<1>2. ASSUME NEW c \in Callers, NEW k \in Call, Proceed(c, k), ~Promises(k)
      PROVE  Quiet
  <2>1. CallsPlaced'
    BY <1>2, CallerMoves, FallingRowsEvolve, IdlePlaced
  <2>2. PromisesFall
    BY <1>2 DEF PromisesFall, Proceed, IInv, TypeOK
  <2> QED BY <2>1, <2>2 DEF Quiet, IInv
<1> QED BY <1>1, <1>2

LEMMA QuietStutter == ASSUME IInv, UNCHANGED vars PROVE Quiet
<1>1. UNCHANGED tables /\ call' = call
  BY DEF vars, tables
<1> QED BY <1>1, TablesStay, QuietTables DEF IInv, TypeOK

LEMMA QuietHireGuard == ASSUME IInv, NEW g \in Guards, HireGuard(g) PROVE Quiet
<1>1. TypeOK' /\ PostsEvolve /\ RowsFall /\ AssignmentsReferToPosts'
  BY DEF HireGuard, IInv, TypeOK, PostsEvolve, RowsFall, AssignmentsReferToPosts, Referable
<1> QED BY <1>1, QuietTables DEF HireGuard

LEMMA QuietRemoveGuard == ASSUME IInv, NEW g \in Guards, RemoveGuard(g) PROVE Quiet
<1>1. TypeOK'
  BY DEF RemoveGuard, IInv, TypeOK, Absent
<1>2. PostsEvolve /\ RowsFall
  BY GoneIsAbsent DEF RemoveGuard, PostsEvolve, RowsFall
<1>3. AssignmentsReferToPosts'
  BY GoneIsAbsent, PresentRows DEF RemoveGuard, IInv, TypeOK, AssignmentsReferToPosts, Referable, AssignedRow
<1> QED BY <1>1, <1>2, <1>3, QuietTables DEF RemoveGuard

\* Naming or renaming a row of a table neither makes nor breaks a reference.
LEMMA QuietNames ==
  ASSUME IInv,
         \/ \E l \in Locations, n \in Names : RenameLocation(l, n)
         \/ \E k \in Categories, n \in Names : RenameCategory(k, n)
         \/ \E c \in Callers, k \in Categories : CommitCreateCategory(c, k)
  PROVE  Quiet
<1>1. ASSUME NEW l \in Locations, NEW n \in Names, RenameLocation(l, n)
      PROVE  Quiet
  <2>1. location' \in [Locations -> Absent \cup Named] /\ \A x \in Locations : Present(location[x]) => Present(location'[x])
    BY <1>1, PresentRows DEF RenameLocation, IInv, TypeOK, Named, Present, Absent, Unused, Gone
  <2>2. TypeOK' /\ PostsEvolve /\ RowsFall
    BY <1>1, <2>1 DEF RenameLocation, IInv, TypeOK, PostsEvolve, RowsFall
  <2>3. AssignmentsReferToPosts'
    BY <1>1, <2>1, PresentRows DEF RenameLocation, IInv, AssignmentsReferToPosts, Referable, AssignedRow
  <2> QED BY <1>1, <2>2, <2>3, QuietTables DEF RenameLocation
<1>2. ASSUME NEW k \in Categories, NEW n \in Names, RenameCategory(k, n)
      PROVE  Quiet
  <2>1. category' \in [Categories -> Absent \cup Named] /\ \A x \in Categories : Present(category[x]) => Present(category'[x])
    BY <1>2, PresentRows DEF RenameCategory, IInv, TypeOK, Named, Present, Absent, Unused, Gone
  <2>2. TypeOK' /\ PostsEvolve /\ RowsFall
    BY <1>2, <2>1 DEF RenameCategory, IInv, TypeOK, PostsEvolve, RowsFall
  <2>3. AssignmentsReferToPosts'
    BY <1>2, <2>1, PresentRows DEF RenameCategory, IInv, AssignmentsReferToPosts, Referable, AssignedRow
  <2> QED BY <1>2, <2>2, <2>3, QuietTables DEF RenameCategory
<1>3. ASSUME NEW c \in Callers, NEW k \in Categories, CommitCreateCategory(c, k)
      PROVE  Quiet
  <2>1. call[c].name \in Names /\ Idle \in Call /\ ~Promises(Idle)
    BY <1>3, CallShape, CallMembers DEF CommitCreateCategory, IInv, TypeOK
  <2>2. category' \in [Categories -> Absent \cup Named] /\ \A x \in Categories : Present(category[x]) => Present(category'[x])
    BY <1>3, <2>1 DEF CommitCreateCategory, IInv, TypeOK, Named, Present, Absent, Unused, Gone
  <2>3. TypeOK' /\ PostsEvolve /\ RowsFall
    BY <1>3, <2>1, <2>2 DEF CommitCreateCategory, Return, Proceed, IInv, TypeOK, PostsEvolve, RowsFall
  <2>4. AssignmentsReferToPosts'
    BY <1>3, <2>2, PresentRows DEF CommitCreateCategory, IInv, AssignmentsReferToPosts, Referable, AssignedRow
  <2> QED BY <1>3, <2>1, <2>3, <2>4, QuietTables DEF CommitCreateCategory, Return
<1> QED BY <1>1, <1>2, <1>3

LEMMA QuietRemoveCategory == ASSUME IInv, NEW k \in Categories, RemoveCategory(k) PROVE Quiet
<1>1. TypeOK'
  BY DEF RemoveCategory, IInv, TypeOK, Absent
<1>2. PostsEvolve /\ RowsFall
  BY GoneIsAbsent DEF RemoveCategory, PostsEvolve, RowsFall, IInv, TypeOK
<1>3. AssignmentsReferToPosts'
  BY GoneIsAbsent, PresentRows DEF RemoveCategory, IInv, TypeOK, AssignmentsReferToPosts, Referable, AssignedRow
<1> QED BY <1>1, <1>2, <1>3, QuietTables DEF RemoveCategory
\* Inserting posts, and deleting the ones of location l that were there.
LEMMA PostsInserted ==
  ASSUME IInv, NEW l \in Locations, Present(location'[l]), UNCHANGED <<category, guard>>,
         location' \in [Locations -> Absent \cup Named],
         \A x \in Locations : Present(location[x]) => Present(location'[x]),
         NEW new \in NewPosts(l, {"NONE", "KEPT"}) \cup NewPosts(l, {"KEPT"}),
         NEW D \in SUBSET Posts,
         post' = [p \in Posts |-> IF p \in DOMAIN new THEN new[p]
                                  ELSE IF p \in D THEN Gone ELSE post[p]],
         assigned' = [r \in Rows |->
           IF Present(assigned[r]) /\ assigned[r].post \in D THEN Gone ELSE assigned[r]]
  PROVE  PostsEvolve /\ RowsFall /\ AssignmentsReferToPosts'
         /\ (call' \in [Callers -> Call] => TypeOK')
<1>1. \A p \in DOMAIN new : p \in Posts /\ post[p] = Unused /\ new[p] \in PostRow
  BY NewPostRows
<1>2. PostsEvolve
  BY <1>1, GoneIsAbsent DEF PostsEvolve
<1>3. RowsFall
  BY GoneIsAbsent DEF RowsFall, IInv, TypeOK
<1>4. AssignmentsReferToPosts'
  BY <1>1, GoneIsAbsent, PresentRows DEF IInv, TypeOK, AssignmentsReferToPosts, Referable, AssignedRow
<1>5. post' \in [Posts -> Absent \cup PostRow] /\ assigned' \in [Rows -> Absent \cup AssignedRow]
  BY <1>1 DEF IInv, TypeOK, Absent
<1> QED BY <1>2, <1>3, <1>4, <1>5 DEF IInv, TypeOK

LEMMA QuietReplacePosts ==
  ASSUME IInv, NEW l \in Locations, NEW new \in NewPosts(l, {"NONE", "KEPT"}), ReplacePosts(l, new)
  PROVE  Quiet
<1>1. PICK D \in SUBSET Posts : D = PostsOf(l)
  BY DEF PostsOf
<1>2. /\ post' = [p \in Posts |-> IF p \in DOMAIN new THEN new[p]
                                   ELSE IF p \in D THEN Gone ELSE post[p]]
      /\ assigned' = [r \in Rows |->
            IF Present(assigned[r]) /\ assigned[r].post \in D THEN Gone ELSE assigned[r]]
  BY <1>1 DEF ReplacePosts
<1>3. /\ location' \in [Locations -> Absent \cup Named]
      /\ \A x \in Locations : Present(location[x]) => Present(location'[x])
      /\ Present(location'[l]) /\ UNCHANGED <<category, guard>>
      /\ call' = call /\ call' \in [Callers -> Call]
  BY DEF ReplacePosts, IInv, TypeOK
<1>4. PostsEvolve /\ RowsFall /\ AssignmentsReferToPosts' /\ (call' \in [Callers -> Call] => TypeOK')
  BY <1>2, <1>3, PostsInserted
<1> QED BY <1>3, <1>4, QuietTables

LEMMA QuietCommitCreateLocation ==
  ASSUME IInv, NEW c \in Callers, NEW l \in Locations, NEW new \in NewPosts(l, {"KEPT"}),
         CommitCreateLocation(c, l, new)
  PROVE  Quiet
<1>1. call[c].name \in Names /\ Idle \in Call /\ ~Promises(Idle)
  BY CallShape, CallMembers DEF CommitCreateLocation, IInv, TypeOK
<1>2. /\ location' \in [Locations -> Absent \cup Named]
      /\ \A x \in Locations : Present(location[x]) => Present(location'[x])
      /\ Present(location'[l])
  BY <1>1 DEF CommitCreateLocation, IInv, TypeOK, Named, Present, Absent, Unused, Gone
<1>3. PICK D \in SUBSET Posts : D = {}
  OBVIOUS
<1>4. /\ post' = [p \in Posts |-> IF p \in DOMAIN new THEN new[p]
                                   ELSE IF p \in D THEN Gone ELSE post[p]]
      /\ assigned' = [r \in Rows |->
            IF Present(assigned[r]) /\ assigned[r].post \in D THEN Gone ELSE assigned[r]]
  BY <1>3 DEF CommitCreateLocation, IInv, TypeOK
<1>5. PostsEvolve /\ RowsFall /\ AssignmentsReferToPosts' /\ (call' \in [Callers -> Call] => TypeOK')
  <2>1. UNCHANGED <<category, guard>>
    BY DEF CommitCreateLocation
  <2>2. new \in NewPosts(l, {"NONE", "KEPT"}) \cup NewPosts(l, {"KEPT"})
    OBVIOUS
  <2> QED BY <1>2, <1>3, <1>4, <2>1, <2>2, PostsInserted, Zenon
<1>6. call' \in [Callers -> Call]
  BY <1>1 DEF CommitCreateLocation, Return, Proceed, IInv, TypeOK
<1> QED BY <1>1, <1>5, <1>6, QuietTables DEF CommitCreateLocation, Return

LEMMA QuietBeginRemoveLocation ==
  ASSUME IInv, NEW c \in Callers, NEW l \in Locations, BeginRemoveLocation(c, l)
  PROVE  Quiet
<1> DEFINE k == [op |-> "removePosts", loc |-> l]
<1>1. k \in Call /\ ~Promises(k) /\ Proceed(c, k)
  BY CallMembers DEF BeginRemoveLocation
<1>2. \A p \in Posts : \/ post'[p] = post[p]
                         \/ /\ post[p] \in PostRow /\ post'[p] = [post[p] EXCEPT !.finances = "LOST"]
  BY PresentRows DEF BeginRemoveLocation, PostsOf, IInv
<1>3. \A row \in PostRow : LET new == [row EXCEPT !.finances = "LOST"] IN
        /\ new \in PostRow /\ Present(new) /\ Present(row) /\ new # Unused
        /\ new.loc = row.loc /\ new.quantity = row.quantity
  BY DEF PostRow, Present, Absent, Unused, Gone
<1>4. post' \in [Posts -> Absent \cup PostRow]
  BY <1>2, <1>3 DEF BeginRemoveLocation, IInv, TypeOK
<1>5. TypeOK'
  BY <1>1, <1>4 DEF BeginRemoveLocation, Proceed, IInv, TypeOK
<1>6. PostsEvolve
  BY <1>2, <1>3 DEF PostsEvolve
<1>7. RowsFall
  BY DEF BeginRemoveLocation, RowsFall
<1>8. AssignmentsReferToPosts'
  BY <1>2, <1>3, PresentRows DEF BeginRemoveLocation, IInv, AssignmentsReferToPosts, Referable, AssignedRow
<1> QED BY <1>1, <1>5, <1>6, <1>7, <1>8, QuietTables

LEMMA QuietRemovePosts == ASSUME IInv, NEW c \in Callers, RemovePosts(c) PROVE Quiet
<1> DEFINE k == [op |-> "removeLocation", loc |-> call[c].loc]
<1>1. call[c].loc \in Locations
  BY CallShape DEF RemovePosts, IInv, TypeOK
<1>2. k \in Call /\ ~Promises(k) /\ Proceed(c, k)
  BY <1>1, CallMembers DEF RemovePosts
<1>3. PostsEvolve /\ RowsFall /\ AssignmentsReferToPosts' /\ (call' \in [Callers -> Call] => TypeOK')
  BY DeletionOfPosts, PostsOf(call[c].loc) \in SUBSET Posts DEF RemovePosts, PostsOf
<1>4. call' \in [Callers -> Call]
  BY <1>2 DEF Proceed, IInv, TypeOK
<1> QED BY <1>2, <1>3, <1>4, QuietTables

LEMMA QuietCommitRemoveLocation ==
  ASSUME IInv, NEW c \in Callers, CommitRemoveLocation(c) PROVE Quiet
<1>1. Idle \in Call /\ ~Promises(Idle) /\ Proceed(c, Idle) /\ call' \in [Callers -> Call]
  BY CallMembers DEF CommitRemoveLocation, Return, Proceed, IInv, TypeOK
<1>2. PICK l : l = call[c].loc
  OBVIOUS
<1>3. l \in Locations
  BY <1>2, CallShape DEF CommitRemoveLocation, IInv, TypeOK
<1>4. CASE ~Present(location[l])
  <2>1. UNCHANGED tables
    BY <1>2, <1>4 DEF CommitRemoveLocation, tables
  <2> QED BY <1>1, <2>1, TablesStay, QuietTables
<1>5. CASE Present(location[l])
  <2>1. location' = [location EXCEPT ![l] = Gone] /\ DeletePosts(PostsOf(l)) /\ UNCHANGED <<category, guard>>
    BY <1>2, <1>5 DEF CommitRemoveLocation
  <2>2. TypeOK'
    BY <1>1, <2>1 DEF DeletePosts, IInv, TypeOK, Absent
  <2>3. PostsEvolve /\ RowsFall
    BY <2>1, GoneIsAbsent DEF DeletePosts, PostsEvolve, RowsFall, IInv, TypeOK
  <2>4. ASSUME NEW r \in Rows, Present(assigned'[r])
        PROVE  /\ assigned'[r] = assigned[r] /\ Present(assigned[r])
               /\ assigned[r].post \notin PostsOf(l)
    BY <2>1, <2>4, GoneIsAbsent DEF DeletePosts
  <2>5. AssignmentsReferToPosts'
    <3> SUFFICES ASSUME NEW r \in Rows, Present(assigned'[r])
                 PROVE  /\ Referable(assigned[r].guard, assigned[r].loc, assigned[r].post, assigned[r].category)'
                        /\ post'[assigned[r].post].loc = assigned[r].loc
      BY <2>4 DEF AssignmentsReferToPosts, Referable
    <3>1. /\ assigned[r] \in AssignedRow
          /\ Referable(assigned[r].guard, assigned[r].loc, assigned[r].post, assigned[r].category)
          /\ post[assigned[r].post].loc = assigned[r].loc
      BY <2>4, PresentRows DEF IInv, AssignmentsReferToPosts
    <3>2. assigned[r].loc # l
      BY <2>4, <3>1 DEF PostsOf, Referable, AssignedRow
    <3>3. /\ location'[assigned[r].loc] = location[assigned[r].loc]
          /\ post'[assigned[r].post] = post[assigned[r].post]
      BY <2>1, <2>4, <3>1, <3>2 DEF DeletePosts, IInv, TypeOK, AssignedRow
    <3> QED BY <2>1, <2>4, <3>1, <3>3 DEF Referable
  <2> QED BY <1>1, <2>2, <2>3, <2>5, QuietTables
<1> QED BY <1>4, <1>5
LEMMA QuietLookups ==
  ASSUME IInv, NEW c \in Callers,
         \/ \E n \in Names : BeginCreateCategory(c, n) \/ BeginCreateLocation(c, n)
         \/ InsertFails(c)
  PROVE  Quiet
<1>1. ASSUME NEW n \in Names, BeginCreateCategory(c, n) \/ BeginCreateLocation(c, n)
      PROVE  Quiet
  <2>1. PICK o \in {"createCategory", "createLocation"} : Proceed(c, [op |-> o, name |-> n])
    BY <1>1 DEF BeginCreateCategory, BeginCreateLocation
  <2>2. [op |-> o, name |-> n] \in Call /\ ~Promises([op |-> o, name |-> n])
    BY CallMembers
  <2> QED BY <1>1, <2>1, <2>2, QuietCall, IdlePlaced DEF BeginCreateCategory, BeginCreateLocation
<1>2. CASE InsertFails(c)
  BY <1>2, QuietCall, IdlePlaced, CallMembers DEF InsertFails, Return
<1> QED BY <1>1, <1>2

\* The assignment found is one of the post, and stays that or disappears.
LEMMA QuietFindExisting == ASSUME IInv, NEW c \in Callers, FindExisting(c) PROVE Quiet
<1>1. /\ call[c] \in Call /\ call[c].op = "find" /\ Placed(call[c], post, assigned)
      /\ call[c].guard \in Guards /\ call[c].post \in Posts
      /\ call[c].loc \in Locations /\ call[c].category \in Categories
  BY CallShape DEF FindExisting, IInv, TypeOK, CallsPlaced
<1> DEFINE next == Deploying(c, "insert")
<1>2. CASE Proceed(c, next)
  <2>1. next \in Call /\ next.post = call[c].post /\ Placed(next, post, assigned)
    BY <1>1 DEF Deploying, Call, Placed, Promises
  <2> QED BY <1>1, <1>2, <2>1, QuietCall DEF FindExisting, Promises
<1>3. ASSUME NEW r \in AssignedTo(call[c].post),
             Proceed(c, [op |-> "end", guard |-> call[c].guard, post |-> call[c].post,
                         loc |-> call[c].loc, category |-> call[c].category, row |-> r])
      PROVE  Quiet
  <2> DEFINE k == [op |-> "end", guard |-> call[c].guard, post |-> call[c].post,
                   loc |-> call[c].loc, category |-> call[c].category, row |-> r]
  <2>1. r \in Rows /\ Present(assigned[r]) /\ assigned[r].post = call[c].post
    BY DEF AssignedTo
  <2>2. k \in Call
    BY <1>1, <2>1 DEF Call
  <2>3. Placed(k, post, assigned)
    BY <1>1, <2>1, GoneIsAbsent DEF Placed, Promises
  <2>4. Quiet
    BY <1>1, <1>3, <2>2, <2>3, QuietCall DEF FindExisting, Promises
  <2> QED BY <2>4
<1> QED BY <1>2, <1>3 DEF FindExisting
-----------------------------------------------------------------------------
(* The steps that are not quiet.                                             *)

LEMMA AssignBegun ==
  ASSUME IInv, NEW c \in Callers, NEW g \in Guards, NEW l \in Locations, NEW p \in Posts,
         NEW k \in Categories, BeginAssign(c, g, l, p, k)
  PROVE  /\ IInv' /\ PostsEvolve /\ RowsFall /\ Vacant(p) /\ call'[c].post = p
         /\ \A b \in Callers \ {c} : call'[b] = call[b]
<1> DEFINE new == [op |-> "find", guard |-> g, post |-> p, loc |-> l, category |-> k]
<1>1. new \in Call
  BY DEF Call
<1>2. Placed(new, post', assigned')
  BY GoneIsAbsent DEF BeginAssign, PostsOf, Placed, Promises, tables
<1>3. Proceed(c, new) /\ UNCHANGED tables /\ Vacant(p)
  BY DEF BeginAssign
<1>4. PostsEvolve /\ RowsFall /\ AssignmentsReferToPosts' /\ (call' \in [Callers -> Call] => TypeOK')
  BY <1>3, TablesStay
<1>5. call' \in [Callers -> Call] /\ CallsPlaced'
  BY <1>1, <1>2, <1>3, <1>4, CallerMoves, FallingRowsEvolve
<1>6. call'[c].post = p /\ \A b \in Callers \ {c} : call'[b] = call[b]
  BY <1>3 DEF Proceed, IInv, TypeOK
<1> QED BY <1>3, <1>4, <1>5, <1>6 DEF IInv

\* The assignment that is ended is one of the post of the request.
LEMMA ExistingEnded ==
  ASSUME IInv, NEW c \in Callers, EndExisting(c)
  PROVE  \/ Quiet
         \/ /\ IInv' /\ PostsEvolve /\ RowsEvolve /\ PromisesFall
            /\ \E r \in Rows :
                 /\ assigned[r].post = call[c].post /\ Present(assigned[r])
                 /\ assigned' = [assigned EXCEPT ![r].status = "ENDED"]
                 /\ call'[c].op = "insert" /\ call'[c].post = call[c].post
<1>1. /\ call[c] \in Call /\ call[c].op = "end" /\ Placed(call[c], post, assigned)
      /\ call[c].guard \in Guards /\ call[c].post \in Posts /\ call[c].row \in Rows
      /\ call[c].loc \in Locations /\ call[c].category \in Categories
  BY CallShape DEF EndExisting, IInv, TypeOK, CallsPlaced
<1>2. PICK r \in Rows : r = call[c].row
  BY <1>1
<1>3. CASE ~Present(assigned[r])
  <2>1. Proceed(c, Idle) /\ UNCHANGED tables
    BY <1>2, <1>3 DEF EndExisting, Return, tables
  <2> QED BY <2>1, QuietCall, IdlePlaced, CallMembers
<1>4. CASE Present(assigned[r])
  <2> DEFINE next == Deploying(c, "insert")
  <2>1. /\ assigned' = [assigned EXCEPT ![r].status = "ENDED"]
        /\ Proceed(c, next) /\ UNCHANGED <<location, category, post, guard>>
    BY <1>2, <1>4 DEF EndExisting
  <2>2. next \in Call /\ next.op = "insert" /\ next.post = call[c].post /\ next.loc = call[c].loc
    BY <1>1 DEF Deploying, Call
  <2>3. assigned[r] \in AssignedRow /\ assigned[r].post = call[c].post
    BY <1>1, <1>2, <1>4, PresentRows DEF IInv, Placed
  <2>4. \A row \in AssignedRow : LET x == [row EXCEPT !.status = "ENDED"] IN
          /\ x \in AssignedRow /\ Present(x) /\ Present(row) /\ x # Unused /\ x.post = row.post
          /\ x.guard = row.guard /\ x.loc = row.loc /\ x.category = row.category
    BY DEF AssignedRow, Present, Absent, Unused, Gone
  <2>5. \A x \in Rows : assigned'[x] = IF x = r THEN [assigned[r] EXCEPT !.status = "ENDED"] ELSE assigned[x]
    BY <2>1 DEF IInv, TypeOK
  <2>6. assigned' \in [Rows -> Absent \cup AssignedRow]
    BY <2>1, <2>3, <2>4 DEF IInv, TypeOK
  <2>7. PostsEvolve /\ RowsEvolve
    BY <2>1, <2>3, <2>4, <2>5 DEF PostsEvolve, RowsEvolve
  <2>8. Placed(next, post', assigned')
    BY <1>1, <2>1, <2>2 DEF Placed, Promises
  <2>9. call' \in [Callers -> Call] /\ CallsPlaced'
    BY <2>1, <2>2, <2>7, <2>8, CallerMoves
  <2>10. AssignmentsReferToPosts'
    BY <2>1, <2>3, <2>4, <2>5 DEF IInv, AssignmentsReferToPosts, Referable
  <2>11. PromisesFall /\ call'[c] = next
    BY <1>1, <2>1, <2>2 DEF PromisesFall, Promises, Proceed, IInv, TypeOK
  <2>12. IInv'
    BY <2>1, <2>6, <2>9, <2>10 DEF IInv, TypeOK
  <2> QED BY <1>4, <2>1, <2>2, <2>3, <2>7, <2>11, <2>12
<1> QED BY <1>3, <1>4

\* The new assignment is to the post the request was counted for, which is at
\* the location it named.
LEMMA AssignedInserted ==
  ASSUME IInv, NEW c \in Callers, NEW r \in Rows, InsertAssigned(c, r)
  PROVE  /\ IInv' /\ UNCHANGED post
         /\ Promises(call[c]) /\ call[c].post \in Posts /\ Present(post[call[c].post])
         /\ call' = [call EXCEPT ![c] = Idle]
         /\ assigned[r] = Unused /\ assigned'[r].post = call[c].post /\ assigned'[r].status = "OPEN"
         /\ \A x \in Rows \ {r} : assigned'[x] = assigned[x]
<1>1. /\ call[c] \in Call /\ call[c].op = "insert" /\ Placed(call[c], post, assigned)
      /\ call[c].guard \in Guards /\ call[c].post \in Posts
      /\ call[c].loc \in Locations /\ call[c].category \in Categories
  BY CallShape DEF InsertAssigned, IInv, TypeOK, CallsPlaced
<1> DEFINE new == [status |-> "OPEN", guard |-> call[c].guard, loc |-> call[c].loc,
                   post |-> call[c].post, category |-> call[c].category]
<1>2. new \in AssignedRow
  BY <1>1 DEF AssignedRow
<1>3. /\ assigned[r] = Unused /\ assigned' = [assigned EXCEPT ![r] = new]
      /\ Proceed(c, Idle) /\ UNCHANGED <<location, category, post, guard>>
      /\ Referable(call[c].guard, call[c].loc, call[c].post, call[c].category)
  BY DEF InsertAssigned, Return
<1>4. assigned'[r] = new /\ \A x \in Rows \ {r} : assigned'[x] = assigned[x]
  BY <1>3 DEF IInv, TypeOK
<1>5. PostsEvolve /\ RowsEvolve
  <2>1. PostsEvolve
    BY <1>3 DEF PostsEvolve
  <2>2. RowsEvolve
    BY <1>3, <1>4 DEF RowsEvolve
  <2> QED BY <2>1, <2>2
<1>6. call' \in [Callers -> Call] /\ CallsPlaced'
  BY <1>3, <1>5, CallerMoves, IdlePlaced, CallMembers
<1>7. Present(post[call[c].post]) /\ post[call[c].post].loc = call[c].loc
  BY <1>1, <1>3 DEF Referable, Placed, Promises
<1>8. AssignmentsReferToPosts'
  <2> SUFFICES ASSUME NEW x \in Rows, Present(assigned'[x])
               PROVE  /\ Referable(assigned[x].guard, assigned[x].loc, assigned[x].post, assigned[x].category)'
                      /\ post'[assigned'[x].post].loc = assigned'[x].loc
    BY DEF AssignmentsReferToPosts
  <2>1. CASE x = r
    BY <1>3, <1>4, <1>7, <2>1 DEF Referable
  <2>2. CASE x # r
    BY <1>3, <1>4, <2>2 DEF IInv, AssignmentsReferToPosts, Referable
  <2> QED BY <2>1, <2>2
<1>9. TypeOK'
  BY <1>2, <1>3, <1>6 DEF IInv, TypeOK
<1> QED BY <1>1, <1>3, <1>4, <1>6, <1>7, <1>8, <1>9 DEF IInv, Proceed, Promises
-----------------------------------------------------------------------------
(* All steps together.                                                       *)

LEMMA StepKinds ==
  ASSUME IInv, [Next]_vars
  PROVE  \/ Quiet
         \/ \E c \in Callers, g \in Guards, l \in Locations, p \in Posts, k \in Categories :
              BeginAssign(c, g, l, p, k)
         \/ \E c \in Callers : EndExisting(c) \/ \E r \in Rows : InsertAssigned(c, r)
<1>1. CASE UNCHANGED vars
  BY <1>1, QuietStutter
<1>2. CASE \E g \in Guards : HireGuard(g) \/ RemoveGuard(g)
  BY <1>2, QuietHireGuard, QuietRemoveGuard
<1>3. CASE \E k \in Categories : RemoveCategory(k) \/ \E n \in Names : RenameCategory(k, n)
  BY <1>3, QuietRemoveCategory, QuietNames
<1>4. CASE \E l \in Locations :
             \/ \E n \in Names : RenameLocation(l, n)
             \/ \E new \in NewPosts(l, {"NONE", "KEPT"}) : ReplacePosts(l, new)
  BY <1>4, QuietNames, QuietReplacePosts
<1>5. ASSUME NEW c \in Callers,
             \/ \E n \in Names : BeginCreateCategory(c, n) \/ BeginCreateLocation(c, n)
             \/ \E k \in Categories : CommitCreateCategory(c, k)
             \/ \E l \in Locations :
                  \/ BeginRemoveLocation(c, l)
                  \/ \E new \in NewPosts(l, {"KEPT"}) : CommitCreateLocation(c, l, new)
             \/ RemovePosts(c) \/ CommitRemoveLocation(c)
             \/ FindExisting(c) \/ InsertFails(c)
      PROVE  Quiet
  BY <1>5, QuietLookups, QuietNames, QuietBeginRemoveLocation, QuietCommitCreateLocation,
     QuietRemovePosts, QuietCommitRemoveLocation, QuietFindExisting
<1> QED BY <1>1, <1>2, <1>3, <1>4, <1>5 DEF Next

LEMMA InvariantStep ==
  ASSUME IInv, [Next]_vars
  PROVE  IInv'
BY StepKinds, AssignBegun, ExistingEnded, AssignedInserted DEF Quiet

LEMMA InitInvariant == Init => IInv
<1> SUFFICES ASSUME Init PROVE IInv
  OBVIOUS
<1>1. TypeOK
  BY DEF Init, TypeOK, Absent, Call
<1>2. CallsPlaced
  BY IdlePlaced, CallMembers DEF Init, CallsPlaced
<1>3. AssignmentsReferToPosts
  BY GoneIsAbsent DEF Init, AssignmentsReferToPosts
<1> QED BY <1>1, <1>2, <1>3 DEF IInv

LEMMA Invariant == Spec => []IInv
BY InitInvariant, InvariantStep, PTL DEF Spec

\* Tables and requests in progress stay in their ranges.
THEOREM TypeCorrect == Spec => []TypeOK
<1>1. IInv => TypeOK
  BY DEF IInv
<1> QED BY <1>1, Invariant, PTL

\* No assignment dangles, for any number of requests at a time: what a request
\* looked up may be gone when it inserts, but it is never something else.
THEOREM SchemaAlwaysKept == Spec => []SchemaKept
<1>1. IInv => SchemaKept
  BY DEF IInv, SchemaKept
<1> QED BY <1>1, Invariant, PTL

LEMMA EndStep ==
  ASSUME IInv, [Next]_vars
  PROVE  \A r \in Rows :
           /\ assigned[r].status = "OPEN" /\ assigned'[r].status = "ENDED" =>
                \E c \in Callers : call'[c].op = "insert" /\ call'[c].post = assigned[r].post
           /\ assigned[r].status = "ENDED" => assigned'[r] \in {assigned[r], Gone}
<1> DEFINE Kept(r) ==
      /\ assigned[r].status = "OPEN" /\ assigned'[r].status = "ENDED" =>
           \E c \in Callers : call'[c].op = "insert" /\ call'[c].post = assigned[r].post
      /\ assigned[r].status = "ENDED" => assigned'[r] \in {assigned[r], Gone}
<1>1. CASE RowsFall
  BY <1>1 DEF RowsFall, Gone
<1>2. ASSUME NEW c \in Callers, EndExisting(c), ~RowsFall
      PROVE  \A r \in Rows : Kept(r)
  <2>1. PICK r \in Rows :
          /\ assigned[r].post = call[c].post /\ Present(assigned[r])
          /\ assigned' = [assigned EXCEPT ![r].status = "ENDED"]
          /\ call'[c].op = "insert" /\ call'[c].post = call[c].post
    BY <1>2, ExistingEnded DEF Quiet
  <2>2. \A x \in Rows \ {r} : assigned'[x] = assigned[x]
    BY <2>1 DEF IInv, TypeOK
  <2>3. assigned[r] \in AssignedRow /\ assigned'[r] = [assigned[r] EXCEPT !.status = "ENDED"]
    BY <2>1, PresentRows DEF IInv, TypeOK
  <2>4. assigned[r].status = "ENDED" => assigned'[r] = assigned[r]
    BY <2>3 DEF AssignedRow
  <2> QED BY <2>1, <2>2, <2>4
<1>3. ASSUME NEW c \in Callers, NEW r \in Rows, InsertAssigned(c, r)
      PROVE  \A x \in Rows : Kept(x)
  <2>1. /\ assigned[r] = Unused /\ assigned'[r].status = "OPEN"
        /\ \A x \in Rows \ {r} : assigned'[x] = assigned[x]
    BY <1>3, AssignedInserted
  <2> QED BY <2>1 DEF Unused
<1>4. \A r \in Rows : Kept(r)
  BY <1>1, <1>2, <1>3, StepKinds, AssignBegun DEF Quiet
<1> QED BY <1>4

\* A deployment ends only by a request that is about to deploy to the same post.
THEOREM EndOnTheirPost == Spec => DeploymentsEndOnTheirPost
<1>1. IInv /\ [Next]_vars =>
        [\A r \in Rows :
          /\ assigned[r].status = "OPEN" /\ assigned'[r].status = "ENDED" =>
               \E c \in Callers : call'[c].op = "insert" /\ call'[c].post = assigned[r].post
          /\ assigned[r].status = "ENDED" => assigned'[r] \in {assigned[r], Gone}]_vars
  BY EndStep
<1> QED BY <1>1, Invariant, PTL DEF Spec, DeploymentsEndOnTheirPost
-----------------------------------------------------------------------------
(* How many guards a post may get.  The assignments to a post and the        *)
(* promises of requests are counted together: a request that counted fewer   *)
(* assignments than the post asked for raises the sum to at most quantity -  *)
(* 1 + |Callers|, and keeping a promise moves it from one side to the other. *)

\* The bound for one post.
Bounded(p) ==
  Cardinality(AssignedTo(p)) + Cardinality(Committed(p)) < post[p].quantity + Cardinality(Callers)

LEMMA FiniteCounts ==
  ASSUME NEW p
  PROVE  /\ IsFiniteSet(AssignedTo(p)) /\ Cardinality(AssignedTo(p)) \in Nat
         /\ IsFiniteSet(Committed(p)) /\ Cardinality(Committed(p)) \in Nat
         /\ IsFiniteSet(AssignedTo(p)') /\ Cardinality(AssignedTo(p)') \in Nat
         /\ IsFiniteSet(Committed(p)') /\ Cardinality(Committed(p)') \in Nat
         /\ Cardinality(Committed(p)') <= Cardinality(Callers)
         /\ Cardinality(Callers) \in Nat
<1>1. /\ AssignedTo(p) \subseteq Rows /\ AssignedTo(p)' \subseteq Rows
      /\ Committed(p) \subseteq Callers /\ Committed(p)' \subseteq Callers
  BY DEF AssignedTo, Committed
<1> QED BY <1>1, CallersAssumption, RowsAssumption, FS_Subset, FS_CardinalityType

LEMMA OneMore ==
  ASSUME NEW S, IsFiniteSet(S), NEW x
  PROVE  /\ IsFiniteSet(S \cup {x}) /\ Cardinality(S \cup {x}) \in Nat
         /\ Cardinality(S \cup {x}) <= Cardinality(S) + 1
<1>1. Cardinality(S) \in Nat
  BY FS_CardinalityType
<1> QED BY <1>1, FS_AddElement, FS_CardinalityType

\* Nobody is deployed, or about to be, to a post that is not there yet.
LEMMA NewPostsEmpty ==
  ASSUME IInv, NEW p \in Posts, post[p] = Unused
  PROVE  AssignedTo(p) = {} /\ Committed(p) = {}
<1>1. AssignedTo(p) = {}
  BY GoneIsAbsent DEF AssignedTo, IInv, AssignmentsReferToPosts, Referable
<1>2. Committed(p) = {}
  BY DEF Committed, IInv, CallsPlaced, Placed, Promises
<1> QED BY <1>1, <1>2

\* The bound of a post to which nothing is added.
LEMMA CountsFall ==
  ASSUME IInv, OverfilledOnlyByRaces, NEW p \in Posts,
         AssignedTo(p)' \subseteq AssignedTo(p), Committed(p)' \subseteq Committed(p),
         PostsEvolve, Present(post'[p]), AssignedTo(p)' \cup Committed(p)' # {}
  PROVE  Bounded(p)'
<1>1. AssignedTo(p) \cup Committed(p) # {}
  OBVIOUS
<1>2. Present(post[p]) /\ post'[p].quantity = post[p].quantity
  BY <1>1, NewPostsEmpty DEF PostsEvolve
<1>3. Bounded(p)
  BY <1>1, <1>2 DEF OverfilledOnlyByRaces, Bounded
<1>4. /\ Cardinality(AssignedTo(p)') <= Cardinality(AssignedTo(p))
      /\ Cardinality(Committed(p)') <= Cardinality(Committed(p))
  BY FiniteCounts, FS_Subset
<1>5. post[p].quantity \in Int
  BY <1>2, PresentRows, QuantitiesAssumption DEF PostRow, IInv
<1>6. Cardinality(AssignedTo(p)') + Cardinality(Committed(p)') < post'[p].quantity + Cardinality(Callers)
  BY <1>2, <1>3, <1>4, <1>5, FiniteCounts DEF Bounded
<1> QED BY <1>6 DEF Bounded

LEMMA FallingRows == ASSUME NEW p, RowsFall PROVE AssignedTo(p)' \subseteq AssignedTo(p)
BY GoneIsAbsent DEF RowsFall, AssignedTo

LEMMA FallingPromises == ASSUME NEW p, PromisesFall PROVE Committed(p)' \subseteq Committed(p)
BY DEF PromisesFall, Promises, Committed

\* A request begins when the post is vacant.
LEMMA BoundedWhenBegun ==
  ASSUME IInv, OverfilledOnlyByRaces, NEW c \in Callers, NEW g \in Guards, NEW l \in Locations,
         NEW p \in Posts, NEW k \in Categories, BeginAssign(c, g, l, p, k)
  PROVE  OverfilledOnlyByRaces'
<1>1. /\ IInv' /\ PostsEvolve /\ RowsFall /\ Vacant(p) /\ call'[c].post = p
      /\ \A b \in Callers \ {c} : call'[b] = call[b]
  BY AssignBegun
<1>2. /\ Present(post[p]) /\ UNCHANGED tables
  BY DEF BeginAssign, PostsOf
<1>3. Bounded(p)'
  <2>1. AssignedTo(p)' = AssignedTo(p) /\ post'[p].quantity = post[p].quantity
    BY <1>2 DEF AssignedTo, tables
  <2>2. post[p].quantity \in Int
    BY <1>2, PresentRows, QuantitiesAssumption DEF PostRow, IInv
  <2>3. Cardinality(AssignedTo(p)') < post'[p].quantity
    BY <1>1, <2>1 DEF Vacant
  <2>4. Cardinality(AssignedTo(p)') + Cardinality(Committed(p)') < post'[p].quantity + Cardinality(Callers)
    BY <2>1, <2>2, <2>3, FiniteCounts
  <2> QED BY <2>4 DEF Bounded
<1>4. ASSUME NEW q \in Posts, q # p, Present(post'[q]), AssignedTo(q)' \cup Committed(q)' # {}
      PROVE  Bounded(q)'
  <2>1. Committed(q)' \subseteq Committed(q)
    BY <1>1, <1>4 DEF Committed
  <2> QED BY <1>1, <1>4, <2>1, FallingRows, CountsFall
<1> QED BY <1>3, <1>4 DEF OverfilledOnlyByRaces, Bounded

\* A promise that is kept is one less, and the assignment one more.
LEMMA BoundedWhenInserted ==
  ASSUME IInv, OverfilledOnlyByRaces, NEW c \in Callers, NEW r \in Rows, InsertAssigned(c, r)
  PROVE  OverfilledOnlyByRaces'
<1>1. /\ IInv' /\ UNCHANGED post
      /\ Promises(call[c]) /\ call[c].post \in Posts /\ Present(post[call[c].post])
      /\ call' = [call EXCEPT ![c] = Idle]
      /\ assigned[r] = Unused /\ assigned'[r].post = call[c].post /\ assigned'[r].status = "OPEN"
      /\ \A x \in Rows \ {r} : assigned'[x] = assigned[x]
  BY AssignedInserted
<1>2. PICK p \in Posts : p = call[c].post
  BY <1>1
<1>3. call'[c] = Idle /\ ~Promises(Idle) /\ \A b \in Callers \ {c} : call'[b] = call[b]
  BY <1>1, CallMembers DEF IInv, TypeOK
<1>4. Bounded(p)'
  <2>1. c \in Committed(p) /\ Committed(p)' = Committed(p) \ {c}
    BY <1>1, <1>2, <1>3 DEF Committed, Promises
  <2>2. Cardinality(Committed(p)') = Cardinality(Committed(p)) - 1
    BY <2>1, FiniteCounts, FS_RemoveElement
  <2>3. AssignedTo(p)' \subseteq AssignedTo(p) \cup {r}
    BY <1>1 DEF AssignedTo
  <2>4. Cardinality(AssignedTo(p)') <= Cardinality(AssignedTo(p)) + 1
    <3>1. /\ IsFiniteSet(AssignedTo(p) \cup {r})
          /\ Cardinality(AssignedTo(p) \cup {r}) \in Nat
          /\ Cardinality(AssignedTo(p) \cup {r}) <= Cardinality(AssignedTo(p)) + 1
      BY FiniteCounts, OneMore
    <3> QED BY <2>3, <3>1, FiniteCounts, FS_Subset
  <2>5. post[p].quantity \in Int
    BY <1>1, <1>2, PresentRows, QuantitiesAssumption DEF PostRow, IInv
  <2>6. Bounded(p)
    BY <1>1, <1>2, <2>1 DEF OverfilledOnlyByRaces, Bounded
  <2>7. Cardinality(AssignedTo(p)') + Cardinality(Committed(p)') < post'[p].quantity + Cardinality(Callers)
    BY <1>1, <2>2, <2>4, <2>5, <2>6, FiniteCounts DEF Bounded
  <2> QED BY <2>7 DEF Bounded
<1>5. ASSUME NEW q \in Posts, q # p, Present(post'[q]), AssignedTo(q)' \cup Committed(q)' # {}
      PROVE  Bounded(q)'
  <2>1. Committed(q)' \subseteq Committed(q)
    BY <1>3 DEF Committed, Promises
  <2>2. AssignedTo(q)' \subseteq AssignedTo(q)
    BY <1>1, <1>2, <1>5 DEF AssignedTo
  <2>3. PostsEvolve
    BY <1>1 DEF PostsEvolve
  <2> QED BY <1>5, <2>1, <2>2, <2>3, CountsFall
<1> QED BY <1>4, <1>5 DEF OverfilledOnlyByRaces, Bounded

LEMMA BoundedStep ==
  ASSUME IInv, OverfilledOnlyByRaces, [Next]_vars
  PROVE  OverfilledOnlyByRaces'
<1>1. CASE Quiet
  <2> SUFFICES ASSUME NEW p \in Posts, Present(post'[p]), AssignedTo(p)' \cup Committed(p)' # {}
               PROVE  Bounded(p)'
    BY DEF OverfilledOnlyByRaces, Bounded
  <2> QED BY <1>1, FallingRows, FallingPromises, CountsFall DEF Quiet
<1>2. ASSUME NEW c \in Callers, EndExisting(c), ~Quiet
      PROVE  OverfilledOnlyByRaces'
  <2>1. PostsEvolve /\ PromisesFall
    BY <1>2, ExistingEnded
  <2>2. PICK r \in Rows : Present(assigned[r]) /\ assigned' = [assigned EXCEPT ![r].status = "ENDED"]
    BY <1>2, ExistingEnded
  <2>3. /\ assigned[r] \in AssignedRow /\ assigned'[r] = [assigned[r] EXCEPT !.status = "ENDED"]
        /\ \A x \in Rows \ {r} : assigned'[x] = assigned[x]
    BY <2>2, PresentRows DEF IInv, TypeOK
  <2>4. assigned'[r].post = assigned[r].post
    BY <2>3 DEF AssignedRow
  <2> SUFFICES ASSUME NEW p \in Posts, Present(post'[p]), AssignedTo(p)' \cup Committed(p)' # {}
               PROVE  Bounded(p)'
    BY DEF OverfilledOnlyByRaces, Bounded
  <2>5. AssignedTo(p)' \subseteq AssignedTo(p)
    BY <2>2, <2>3, <2>4 DEF AssignedTo
  <2> QED BY <2>1, <2>5, FallingPromises, CountsFall
<1> QED BY <1>1, <1>2, StepKinds, BoundedWhenBegun, BoundedWhenInserted

\* A post takes more guards than it asked for only through requests that race,
\* and by fewer than there are requests at a time.
THEOREM FilledOnlyByRaces == Spec => []OverfilledOnlyByRaces
<1>1. Init => OverfilledOnlyByRaces
  BY GoneIsAbsent DEF Init, OverfilledOnlyByRaces
<1> QED BY <1>1, BoundedStep, Invariant, PTL DEF Spec
-----------------------------------------------------------------------------
(* The removal of a location between its statements.                         *)

\* No request that will delete posts gives that up, and no post loses finances.
Undisturbed ==
  /\ \A c \in Callers : call[c].op = "removePosts" => call'[c] = call[c]
  /\ \A p \in Posts : Present(post'[p]) /\ post'[p].finances = "LOST" => post'[p] = post[p]

LEMMA StillLost ==
  ASSUME FinancesLostOnlyInRemoval, Undisturbed
  PROVE  FinancesLostOnlyInRemoval'
BY DEF FinancesLostOnlyInRemoval, Undisturbed

LEMMA LostStep ==
  ASSUME IInv, FinancesLostOnlyInRemoval, [Next]_vars
  PROVE  FinancesLostOnlyInRemoval'
<1> USE DEF IInv, TypeOK
<1>1. CASE UNCHANGED vars
  BY <1>1, StillLost DEF Undisturbed, vars
<1>2. ASSUME NEW g \in Guards, HireGuard(g) \/ RemoveGuard(g)
      PROVE  Undisturbed
  BY <1>2 DEF HireGuard, RemoveGuard, Undisturbed
<1>3. ASSUME NEW k \in Categories, RemoveCategory(k) \/ \E n \in Names : RenameCategory(k, n)
      PROVE  Undisturbed
  BY <1>3, GoneIsAbsent DEF RemoveCategory, RenameCategory, Undisturbed
<1>4. ASSUME NEW l \in Locations,
             \/ \E n \in Names : RenameLocation(l, n)
             \/ \E new \in NewPosts(l, {"NONE", "KEPT"}) : ReplacePosts(l, new)
      PROVE  Undisturbed
  BY <1>4, GoneIsAbsent, NewPostRows DEF RenameLocation, ReplacePosts, Undisturbed
<1>5. ASSUME NEW c \in Callers, NEW l \in Locations, NEW new \in NewPosts(l, {"KEPT"}),
             CommitCreateLocation(c, l, new)
      PROVE  Undisturbed
  <2>1. \A p \in DOMAIN new : new[p].finances # "LOST"
    BY NewPostRows
  <2>2. \A b \in Callers : call[b].op = "removePosts" => call'[b] = call[b]
    BY <1>5 DEF CommitCreateLocation, Return, Proceed
  <2>3. \A p \in Posts : post'[p] = IF p \in DOMAIN new THEN new[p] ELSE post[p]
    BY <1>5 DEF CommitCreateLocation
  <2> QED BY <2>1, <2>2, <2>3 DEF Undisturbed
<1>6. ASSUME NEW c \in Callers, CommitRemoveLocation(c)
      PROVE  Undisturbed
  <2>1. \A b \in Callers : call[b].op = "removePosts" => call'[b] = call[b]
    BY <1>6 DEF CommitRemoveLocation, Return, Proceed
  <2>2. \A p \in Posts : post'[p] \in {post[p], Gone}
    BY <1>6 DEF CommitRemoveLocation, DeletePosts
  <2> QED BY <2>1, <2>2, GoneIsAbsent DEF Undisturbed
<1>7. ASSUME NEW c \in Callers,
             \/ \E n \in Names : BeginCreateCategory(c, n) \/ BeginCreateLocation(c, n)
             \/ \E k \in Categories : CommitCreateCategory(c, k)
             \/ \E g \in Guards, l \in Locations, p \in Posts, k \in Categories :
                  BeginAssign(c, g, l, p, k)
             \/ FindExisting(c) \/ EndExisting(c) \/ InsertFails(c)
             \/ \E r \in Rows : InsertAssigned(c, r)
      PROVE  Undisturbed
  <2>1. UNCHANGED post /\ call[c].op # "removePosts"
    <3>1. Idle.op # "removePosts" /\ (UNCHANGED tables => UNCHANGED post)
      BY DEF Idle, tables
    <3> HIDE DEF IInv, TypeOK
    <3>2. UNCHANGED post
      BY <1>7, <3>1 DEF BeginCreateCategory, BeginCreateLocation, CommitCreateCategory,
         BeginAssign, FindExisting, EndExisting, InsertFails, InsertAssigned
    <3>3. call[c].op # "removePosts"
      BY <1>7, <3>1 DEF BeginCreateCategory, BeginCreateLocation, CommitCreateCategory,
         BeginAssign, FindExisting, EndExisting, InsertFails, InsertAssigned
    <3> QED BY <3>2, <3>3
  <2>2. \A b \in Callers \ {c} : call'[b] = call[b]
    <3>1. \A k : Proceed(c, k) => \A b \in Callers \ {c} : call'[b] = call[b]
      BY DEF Proceed
    <3> QED BY <1>7, <3>1 DEF BeginCreateCategory, BeginCreateLocation, CommitCreateCategory,
           BeginAssign, FindExisting, EndExisting, InsertFails, InsertAssigned, Return
  <2> QED BY <2>1, <2>2 DEF Undisturbed
<1>8. ASSUME NEW c \in Callers, NEW l \in Locations, BeginRemoveLocation(c, l)
      PROVE  FinancesLostOnlyInRemoval'
  <2>1. /\ call'[c].op = "removePosts" /\ call'[c].loc = l
        /\ \A b \in Callers : call[b].op = "removePosts" => call'[b] = call[b]
    BY <1>8 DEF BeginRemoveLocation, Proceed, Idle
  <2>2. \A p \in Posts : p \notin PostsOf(l) => post'[p] = post[p]
    BY <1>8 DEF BeginRemoveLocation
  <2>3. \A p \in PostsOf(l) : post'[p].loc = l
    <3> SUFFICES ASSUME NEW p \in PostsOf(l) PROVE post'[p].loc = l
      OBVIOUS
    <3>1. p \in Posts /\ post[p] \in PostRow /\ post[p].loc = l
      BY PresentRows DEF PostsOf
    <3>2. post'[p] \in {post[p], [post[p] EXCEPT !.finances = "LOST"]}
      BY <1>8, <3>1 DEF BeginRemoveLocation
    <3> QED BY <3>1, <3>2 DEF PostRow
  <2> QED BY <2>1, <2>2, <2>3 DEF FinancesLostOnlyInRemoval
<1>9. ASSUME NEW c \in Callers, RemovePosts(c)
      PROVE  FinancesLostOnlyInRemoval'
  <2>1. \A b \in Callers \ {c} : call'[b] = call[b]
    BY <1>9 DEF RemovePosts, Proceed
  <2>2. \A p \in Posts : Present(post'[p]) =>
          post'[p] = post[p] /\ p \notin PostsOf(call[c].loc)
    BY <1>9, GoneIsAbsent DEF RemovePosts, DeletePosts
  <2> SUFFICES ASSUME NEW p \in Posts, Present(post'[p]), post'[p].finances = "LOST"
               PROVE  \E b \in Callers : call'[b].op = "removePosts" /\ call'[b].loc = post'[p].loc
    BY DEF FinancesLostOnlyInRemoval
  <2>3. PICK b \in Callers : call[b].op = "removePosts" /\ call[b].loc = post[p].loc
    BY <2>2 DEF FinancesLostOnlyInRemoval
  <2>4. b # c
    BY <2>2, <2>3 DEF PostsOf
  <2> QED BY <2>1, <2>2, <2>3, <2>4
<1> QED BY <1>1, <1>2, <1>3, <1>4, <1>5, <1>6, <1>7, <1>8, <1>9, StillLost DEF Next

\* A post is without finances only while the removal of its location, which
\* will delete it, is between two of its statements.
THEOREM LostOnlyInRemoval == Spec => []FinancesLostOnlyInRemoval
<1>1. Init => FinancesLostOnlyInRemoval
  BY GoneIsAbsent DEF Init, FinancesLostOnlyInRemoval
<1> QED BY <1>1, LostStep, Invariant, PTL DEF Spec
=============================================================================
