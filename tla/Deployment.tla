------------------------------ MODULE Deployment ------------------------------
(***************************************************************************)
(* The locations of an organization, the posts requested for them          *)
(* (RequestedGuard) and the guards deployed to those posts                 *)
(* (AssignedGuard).  Source: src/src/{location,guard-category}/ and        *)
(* assignGuard of src/src/guard/guard.service.ts.                          *)
(*                                                                         *)
(* assignGuard, the creations that first look for a name, and the removal  *)
(* of a location are sequences of statements outside a transaction: each   *)
(* statement that reads or writes what another request changes is an       *)
(* action, and a request in progress is a row of `call'.  A statement that *)
(* throws ends its request and undoes nothing.  The foreign keys of the    *)
(* schema delete in cascade: category and location to posts, and each of   *)
(* those, like a guard, to assignments.                                    *)
(***************************************************************************)
EXTENDS Integers, FiniteSets

CONSTANTS Locations,   \* identities of locations
          Categories,  \* identities of guard categories
          Posts,       \* identities of requested guards (posts)
          Guards,      \* identities of guards
          Rows,        \* identities of assignments of a guard to a post
          Names,       \* the names a location or a category may be given
          Quantities,  \* the quantities of guards a post may ask for
          Callers      \* the requests the server works on at the same time

ASSUME QuantitiesAssumption == Quantities \subseteq Int
ASSUME CallersAssumption == IsFiniteSet(Callers)
ASSUME RowsAssumption == IsFiniteSet(Rows)

VARIABLES
  location,  \* the Location table
  category,  \* the GuardCategory table
  post,      \* the RequestedGuard table, with its RequestedGuardFinance row
  guard,     \* the Guard table
  assigned,  \* the AssignedGuard table
  call       \* what each request in progress has read

vars == <<location, category, post, guard, assigned, call>>
tables == <<location, category, post, guard, assigned>>

\* A row that was not inserted yet, and one that was deleted.
Unused == [status |-> "NONE"]
Gone == [status |-> "GONE"]
Absent == {Unused, Gone}
Present(row) == row \notin Absent

Named == [status : {"KEPT"}, name : Names]

\* finances: the post's salary row was never given, exists, or was deleted.
PostRow == [status : {"KEPT"}, loc : Locations, category : Categories,
            quantity : Quantities, finances : {"NONE", "KEPT", "LOST"}]

\* deploymentTill is null (OPEN) or a time that has passed (ENDED).
AssignedRow == [status : {"OPEN", "ENDED"}, guard : Guards, loc : Locations,
                post : Posts, category : Categories]

Idle == [op |-> "idle"]
Call ==
  {Idle}
  \cup [op : {"createLocation", "createCategory"}, name : Names]
  \cup [op : {"find", "insert"}, guard : Guards, post : Posts, loc : Locations,
        category : Categories]
  \cup [op : {"end"}, guard : Guards, post : Posts, loc : Locations,
        category : Categories, row : Rows]
  \cup [op : {"removePosts", "removeLocation"}, loc : Locations]

\* The tables and the requests in progress stay in their ranges.
TypeOK ==
  /\ location \in [Locations -> Absent \cup Named]
  /\ category \in [Categories -> Absent \cup Named]
  /\ post \in [Posts -> Absent \cup PostRow]
  /\ guard \in [Guards -> {"NONE", "HIRED", "GONE"}]
  /\ assigned \in [Rows -> Absent \cup AssignedRow]
  /\ call \in [Callers -> Call]

Init ==
  /\ location = [l \in Locations |-> Unused]
  /\ category = [k \in Categories |-> Unused]
  /\ post = [p \in Posts |-> Unused]
  /\ guard = [g \in Guards |-> "NONE"]
  /\ assigned = [r \in Rows |-> Unused]
  /\ call = [c \in Callers |-> Idle]

\* Mutant of AssignedTo: the assignments of the post's location.
AssignedAtLocation(p) ==
  {r \in Rows : Present(assigned[r]) /\ Present(post[p]) /\ assigned[r].loc = post[p].loc}

\* The assignments to a post, ended ones included, as assignGuard reads them.
AssignedTo(p) == {r \in Rows : Present(assigned[r]) /\ assigned[r].post = p}

PostsOf(l) == {p \in Posts : Present(post[p]) /\ post[p].loc = l}

Proceed(c, next) == call' = [call EXCEPT ![c] = next]
Return(c) == Proceed(c, Idle)

\* Deleting posts, with the assignments that refer to them.
DeletePosts(D) ==
  /\ post' = [p \in Posts |-> IF p \in D THEN Gone ELSE post[p]]
  /\ assigned' = [r \in Rows |->
       IF Present(assigned[r]) /\ assigned[r].post \in D THEN Gone ELSE assigned[r]]

\* What a request may ask to be inserted as posts of location l: fresh rows,
\* each for an existing category, with finances or (finances = "NONE") without.
NewPosts(l, finances) ==
  UNION {[S -> [status : {"KEPT"}, loc : {l}, quantity : Quantities, finances : finances,
                category : {k \in Categories : Present(category[k])}]] :
         S \in SUBSET {p \in Posts : post[p] = Unused}}
-----------------------------------------------------------------------------
(* Guards and categories.                                                    *)

HireGuard(g) ==
  /\ guard[g] = "NONE"
  /\ guard' = [guard EXCEPT ![g] = "HIRED"]
  /\ UNCHANGED <<location, category, post, assigned, call>>

\* GuardService.remove: the guard goes, and its assignments with it.
RemoveGuard(g) ==
  /\ guard[g] = "HIRED"
  /\ guard' = [guard EXCEPT ![g] = "GONE"]
  /\ assigned' = [r \in Rows |->
       IF Present(assigned[r]) /\ assigned[r].guard = g THEN Gone ELSE assigned[r]]
  /\ UNCHANGED <<location, category, post, call>>

Taken(table, n) == \E x \in DOMAIN table : Present(table[x]) /\ table[x].name = n

BeginCreateCategory(c, n) ==
  /\ call[c] = Idle /\ ~Taken(category, n)
  /\ Proceed(c, [op |-> "createCategory", name |-> n])
  /\ UNCHANGED tables

CommitCreateCategory(c, k) ==
  /\ call[c].op = "createCategory" /\ category[k] = Unused
  /\ category' = [category EXCEPT ![k] = [status |-> "KEPT", name |-> call[c].name]]
  /\ Return(c)
  /\ UNCHANGED <<location, post, guard, assigned>>

\* A new name is not compared with the names in use.
RenameCategory(k, n) ==
  /\ Present(category[k])
  /\ category' = [category EXCEPT ![k].name = n]
  /\ UNCHANGED <<location, post, guard, assigned, call>>

\* The posts of the category go with it, and so do the assignments to those
\* posts and the assignments that name the category themselves.
RemoveCategory(k) ==
  /\ Present(category[k])
  /\ category' = [category EXCEPT ![k] = Gone]
  /\ LET D == {p \in Posts : Present(post[p]) /\ post[p].category = k}
     IN /\ post' = [p \in Posts |-> IF p \in D THEN Gone ELSE post[p]]
        /\ assigned' = [r \in Rows |->
             IF Present(assigned[r]) /\ (assigned[r].post \in D \/ assigned[r].category = k)
             THEN Gone ELSE assigned[r]]
  /\ UNCHANGED <<location, guard, call>>
-----------------------------------------------------------------------------
(* Locations and their posts.                                                *)

BeginCreateLocation(c, n) ==
  /\ call[c] = Idle /\ ~Taken(location, n)
  /\ Proceed(c, [op |-> "createLocation", name |-> n])
  /\ UNCHANGED tables

\* The location, its posts and their finances are one nested insert.
CommitCreateLocation(c, l, new) ==
  /\ call[c].op = "createLocation" /\ location[l] = Unused
  /\ location' = [location EXCEPT ![l] = [status |-> "KEPT", name |-> call[c].name]]
  /\ post' = [p \in Posts |-> IF p \in DOMAIN new THEN new[p] ELSE post[p]]
  /\ Return(c)
  /\ UNCHANGED <<category, guard, assigned>>

\* An update that carries no posts: the name is not compared with the others.
RenameLocation(l, n) ==
  /\ Present(location[l])
  /\ location' = [location EXCEPT ![l].name = n]
  /\ UNCHANGED <<category, post, guard, assigned, call>>

\* An update that carries posts deletes the old ones, with the assignments to
\* them, and inserts new ones, in one statement.
ReplacePosts(l, new) ==
  /\ Present(location[l])
  /\ post' = [p \in Posts |-> IF p \in DOMAIN new THEN new[p]
                              ELSE IF p \in PostsOf(l) THEN Gone ELSE post[p]]
  /\ assigned' = [r \in Rows |->
       IF Present(assigned[r]) /\ assigned[r].post \in PostsOf(l) THEN Gone ELSE assigned[r]]
  /\ UNCHANGED <<location, category, guard, call>>

\* remove deletes the finances of the posts it found, then the posts, then the
\* location.
BeginRemoveLocation(c, l) ==
  /\ call[c] = Idle /\ location[l] # Unused
  /\ post' = [p \in Posts |->
       IF p \in PostsOf(l) /\ post[p].finances = "KEPT"
       THEN [post[p] EXCEPT !.finances = "LOST"] ELSE post[p]]
  /\ Proceed(c, [op |-> "removePosts", loc |-> l])
  /\ UNCHANGED <<location, category, guard, assigned>>

RemovePosts(c) ==
  /\ call[c].op = "removePosts"
  /\ DeletePosts(PostsOf(call[c].loc))
  /\ Proceed(c, [op |-> "removeLocation", loc |-> call[c].loc])
  /\ UNCHANGED <<location, category, guard>>

\* Deleting the location takes along posts inserted since.  The statement that
\* follows deletes it again and throws: the request reports "Record not found"
\* whether the location existed or not.
CommitRemoveLocation(c) ==
  /\ call[c].op = "removeLocation"
  /\ LET l == call[c].loc IN
       IF Present(location[l])
       THEN location' = [location EXCEPT ![l] = Gone] /\ DeletePosts(PostsOf(l))
       ELSE UNCHANGED <<location, post, assigned>>
  /\ Return(c)
  /\ UNCHANGED <<category, guard>>
-----------------------------------------------------------------------------
(* assignGuard.                                                              *)

\* Mutant of Vacant: the check lets one guard too many through.
VacantAtLimit(p) == Cardinality(AssignedTo(p)) <= post[p].quantity

\* "Quantity constraint": every assignment counts, also one that has ended.
Vacant(p) == Cardinality(AssignedTo(p)) < post[p].quantity

\* The guard, the location and the post are looked up and the post's
\* assignments counted.
BeginAssign(c, g, l, p, k) ==
  /\ call[c] = Idle
  /\ guard[g] = "HIRED" /\ Present(location[l]) /\ p \in PostsOf(l)
  /\ Vacant(p)
  /\ Proceed(c, [op |-> "find", guard |-> g, post |-> p, loc |-> l, category |-> k])
  /\ UNCHANGED tables

Deploying(c, op) ==
  [op |-> op, guard |-> call[c].guard, post |-> call[c].post, loc |-> call[c].loc,
   category |-> call[c].category]

\* "Location constraint": some assignment of the POST is read, in no
\* particular order and whoever's it is; if it has not ended it will be.
FindExisting(c) ==
  /\ call[c].op = "find"
  /\ \/ \E r \in AssignedTo(call[c].post) :
          IF assigned[r].status = "OPEN"
          THEN Proceed(c, [op |-> "end", guard |-> call[c].guard, post |-> call[c].post,
                           loc |-> call[c].loc, category |-> call[c].category, row |-> r])
          ELSE Proceed(c, Deploying(c, "insert"))
     \/ AssignedTo(call[c].post) = {} /\ Proceed(c, Deploying(c, "insert"))
  /\ UNCHANGED tables

\* The update throws when the assignment was deleted since.
EndExisting(c) ==
  /\ call[c].op = "end"
  /\ LET r == call[c].row IN
       IF Present(assigned[r])
       THEN /\ assigned' = [assigned EXCEPT ![r].status = "ENDED"]
            /\ Proceed(c, Deploying(c, "insert"))
       ELSE Return(c) /\ UNCHANGED assigned
  /\ UNCHANGED <<location, category, post, guard>>

\* The rows the foreign keys of an assignment demand.
Referable(g, l, p, k) ==
  guard[g] = "HIRED" /\ Present(location[l]) /\ Present(post[p]) /\ Present(category[k])

\* Mutant of InsertAssigned: the schema has no foreign key to the post.
InsertUnreferenced(c, r) ==
  /\ call[c].op = "insert" /\ assigned[r] = Unused
  /\ assigned' = [assigned EXCEPT ![r] =
       [status |-> "OPEN", guard |-> call[c].guard, loc |-> call[c].loc,
        post |-> call[c].post, category |-> call[c].category]]
  /\ Return(c)
  /\ UNCHANGED <<location, category, post, guard>>

InsertAssigned(c, r) ==
  /\ call[c].op = "insert" /\ assigned[r] = Unused
  /\ Referable(call[c].guard, call[c].loc, call[c].post, call[c].category)
  /\ assigned' = [assigned EXCEPT ![r] =
       [status |-> "OPEN", guard |-> call[c].guard, loc |-> call[c].loc,
        post |-> call[c].post, category |-> call[c].category]]
  /\ Return(c)
  /\ UNCHANGED <<location, category, post, guard>>

InsertFails(c) ==
  /\ call[c].op = "insert"
  /\ ~Referable(call[c].guard, call[c].loc, call[c].post, call[c].category)
  /\ Return(c)
  /\ UNCHANGED tables
-----------------------------------------------------------------------------

Next ==
  \/ \E g \in Guards : HireGuard(g) \/ RemoveGuard(g)
  \/ \E k \in Categories : RemoveCategory(k) \/ \E n \in Names : RenameCategory(k, n)
  \/ \E l \in Locations :
       \/ \E n \in Names : RenameLocation(l, n)
       \/ \E new \in NewPosts(l, {"NONE", "KEPT"}) : ReplacePosts(l, new)
  \/ \E c \in Callers :
       \/ \E n \in Names : BeginCreateCategory(c, n) \/ BeginCreateLocation(c, n)
       \/ \E k \in Categories : CommitCreateCategory(c, k)
       \/ \E l \in Locations :
            \/ BeginRemoveLocation(c, l)
            \/ \E new \in NewPosts(l, {"KEPT"}) : CommitCreateLocation(c, l, new)
       \/ RemovePosts(c) \/ CommitRemoveLocation(c)
       \/ \E g \in Guards, l \in Locations, p \in Posts, k \in Categories :
            BeginAssign(c, g, l, p, k)
       \/ FindExisting(c) \/ EndExisting(c) \/ InsertFails(c)
       \/ \E r \in Rows : InsertAssigned(c, r)

Spec == Init /\ [][Next]_vars
-----------------------------------------------------------------------------
(* Properties.                                                               *)

\* An assignment is of an existing guard to an existing post of an existing
\* category, at the location that post belongs to: what a request looked up
\* may be gone when it inserts, and only the cascades keep the tables together.
AssignmentsReferToPosts ==
  \A r \in Rows : Present(assigned[r]) =>
    /\ Referable(assigned[r].guard, assigned[r].loc, assigned[r].post, assigned[r].category)
    /\ post[assigned[r].post].loc = assigned[r].loc

\* What the schema promises, whatever requests have looked up and others have
\* removed since: columns in their ranges and no assignment that dangles.
SchemaKept == TypeOK /\ AssignmentsReferToPosts

\* The requests that have counted the assignments to post p and will add one.
Committed(p) == {c \in Callers : call[c].op \in {"find", "end", "insert"} /\ call[c].post = p}

\* A post takes more guards than it asked for only when requests race, and
\* then by no more than the other requests that were in progress: assignments
\* and promised assignments stay below the quantity plus the callers.
OverfilledOnlyByRaces ==
  \A p \in Posts : Present(post[p]) /\ (AssignedTo(p) \cup Committed(p) # {}) =>
    Cardinality(AssignedTo(p)) + Cardinality(Committed(p))
      < post[p].quantity + Cardinality(Callers)

\* A post is without the salaries payroll needs only while the removal of its
\* location is between two of its statements: posts an update inserts in
\* between are not affected, and the rest of the removal deletes the others.
FinancesLostOnlyInRemoval ==
  \A p \in Posts : Present(post[p]) /\ post[p].finances = "LOST" =>
    \E c \in Callers : call[c].op = "removePosts" /\ call[c].loc = post[p].loc

\* A deployment ends only by a request that is about to deploy a guard to the
\* same post, and is never taken up again: no request reaches the deployments
\* of another post of the location, whatever it read before.
DeploymentsEndOnTheirPost ==
  [][\A r \in Rows :
       /\ assigned[r].status = "OPEN" /\ assigned'[r].status = "ENDED" =>
            \E c \in Callers : call'[c].op = "insert" /\ call'[c].post = assigned[r].post
       /\ assigned[r].status = "ENDED" => assigned'[r] \in {assigned[r], Gone}]_vars
==============================================================================
