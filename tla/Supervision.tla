------------------------------ MODULE Supervision ------------------------------
(***************************************************************************)
(* Who supervises where, and whose account that is: guards and employees   *)
(* with their service numbers and CNICs, the user accounts created for     *)
(* them, the roles, and the postings (AssignedSupervisor) that             *)
(* promoteGuardToSupervisor, assignSupervisor and updateAssignedSupervisor *)
(* write.  Source: src/src/{user,role,employee,guard}/ and                 *)
(* src/src/common/utils/office-filter.ts.                                  *)
(*                                                                         *)
(* Only the creation of an account is a transaction.  The other handlers   *)
(* are sequences of statements, and every statement that reads or writes   *)
(* what another request changes is an action.  A guard supervises through  *)
(* an employee record that is looked up or created on the way.  Locations  *)
(* stand for themselves and their client.                                  *)
(***************************************************************************)
EXTENDS Integers, FiniteSets

CONSTANTS Guards, Employees, Users, Roles, Locations,
          Postings,        \* identities of AssignedSupervisor rows
          ServiceNumbers,  \* the service numbers of the organization
          Cnics,           \* the numbers of identity cards
          Callers,         \* the requests the server works on at the same time
          None             \* null

\* The unique columns of guards and of employees.
Cards == [sn : ServiceNumbers, cnic : Cnics]

ASSUME NoneAssumption ==
  /\ None \notin Guards \cup Employees \cup Users \cup Roles \cup Locations
                 \cup Postings \cup ServiceNumbers \cup Cards
  /\ None \notin {"promote", "subject", "superior", "update"}

VARIABLES
  guard,       \* the Guard table: unique columns and user
  employee,    \* the Employee table: the same columns
  user,        \* the User table with its UserRole rows
  role,        \* the Role table
  site,        \* the locations that exist
  posting,     \* the AssignedSupervisor table
  call,        \* what each request in progress has read
  renumbered,  \* history: the users whose person got another service number
  recarded     \* history: the users whose person got another CNIC

vars == <<guard, employee, user, role, site, posting, call, renumbered, recarded>>
history == <<renumbered, recarded>>
tables == <<guard, employee, user, role, site, posting, history>>

Unused == [status |-> "NONE"]
Gone == [status |-> "GONE"]
Absent == {Unused, Gone}
Present(row) == row \notin Absent

GuardRow == [status : {"KEPT"}, card : Cards, user : Users \cup {None}]

EmployeeRow == [status : {"KEPT"}, card : Cards, user : Users \cup {None}]

UserRow == [status : {"KEPT"}, roles : SUBSET Roles]

\* The name of a role is not unique.
RoleRow == [status : {"KEPT"}, name : {"supervisor", "other"}]

\* deploymentTill is null (OPEN) or any date (ENDED), also one to come.
PostingRow == [status : {"OPEN", "ENDED"}, employee : Employees,
               supervisor : Employees, loc : Locations]

Idle == [op |-> "idle", goal |-> None, person |-> None, sn |-> None, user |-> None,
         owner |-> None, card |-> None, role |-> None, loc |-> None, subject |-> None,
         found |-> None, row |-> None]

Call ==
  [op : {"idle", "account", "role", "held", "grant", "place", "lookup", "resolve", "create",
         "fallback", "superior", "check", "insert", "update"},
   goal : {"promote", "subject", "superior", "update", None},
   person : Guards \cup Employees \cup {None},
   sn : ServiceNumbers \cup {None},
   user : Users \cup {None},   \* the account of the person to promote
   owner : Users \cup {None},  \* the account of the guard an employee is created for
   card : Cards \cup {None},   \* and the guard's unique columns
   role : Roles \cup {None}, loc : Locations \cup {None},
   subject : Employees \cup {None}, found : Employees \cup {None},
   row : Postings \cup {None}]

\* The tables and the requests in progress stay in their ranges.
TypeOK ==
  /\ guard \in [Guards -> Absent \cup GuardRow]
  /\ employee \in [Employees -> Absent \cup EmployeeRow]
  /\ user \in [Users -> Absent \cup UserRow]
  /\ role \in [Roles -> Absent \cup RoleRow]
  /\ site \subseteq Locations
  /\ posting \in [Postings -> Absent \cup PostingRow]
  /\ call \in [Callers -> Call]
  /\ renumbered \subseteq Users /\ recarded \subseteq Users

\* The roles are those the deployment was seeded with.
Init ==
  /\ guard = [g \in Guards |-> Unused]
  /\ employee = [e \in Employees |-> Unused]
  /\ user = [u \in Users |-> Unused]
  /\ role \in [Roles -> {Unused} \cup RoleRow]
  /\ site = Locations
  /\ posting = [r \in Postings |-> Unused]
  /\ call = [c \in Callers |-> Idle]
  /\ renumbered = {} /\ recarded = {}

Proceed(c, next) == call' = [call EXCEPT ![c] = next]
Return(c) == Proceed(c, Idle)

EmployeesOf(u) == {e \in Employees : Present(employee[e]) /\ employee[e].user = u}

OpenPostings(e) == {r \in Postings : posting[r].status = "OPEN" /\ posting[r].supervisor = e}

\* The locations a supervisor's requests are confined to: those of the open
\* postings of the employee found for the user, whichever is found.
LocationFilters(u) ==
  {{posting[r].loc : r \in OpenPostings(e)} : e \in EmployeesOf(u)}
-----------------------------------------------------------------------------
(* Records come and go.                                                      *)

\* Another row of the table has neither the service number nor the CNIC.
Distinct(table, x, card) ==
  \A y \in DOMAIN table : y # x /\ Present(table[y]) =>
    table[y].card.sn # card.sn /\ table[y].card.cnic # card.cnic

\* Mutant of Insertable: the schema declares no unique columns.
AnyInsertable(card) == TRUE

\* The unique columns of Employee.
Insertable(card) == Distinct(employee, None, card)

HireGuard(g, card) ==
  /\ guard[g] = Unused /\ Distinct(guard, g, card)
  /\ guard' = [guard EXCEPT ![g] = [status |-> "KEPT", card |-> card, user |-> None]]
  /\ UNCHANGED <<employee, user, role, site, posting, call, history>>

HireEmployee(e, card) ==
  /\ employee[e] = Unused /\ Insertable(card)
  /\ employee' = [employee EXCEPT ![e] = [status |-> "KEPT", card |-> card, user |-> None]]
  /\ UNCHANGED <<guard, user, role, site, posting, call, history>>

Remember(row, card) ==
  /\ renumbered' = renumbered \cup {u \in Users : u = row.user /\ row.card.sn # card.sn}
  /\ recarded' = recarded \cup {u \in Users : u = row.user /\ row.card.cnic # card.cnic}

\* The update of a guard or an employee writes both columns in one statement.
UpdateGuard(g, card) ==
  /\ Present(guard[g]) /\ Distinct(guard, g, card)
  /\ guard' = [guard EXCEPT ![g].card = card]
  /\ Remember(guard[g], card)
  /\ UNCHANGED <<employee, user, role, site, posting, call>>

UpdateEmployee(e, card) ==
  /\ Present(employee[e]) /\ Distinct(employee, e, card)
  /\ employee' = [employee EXCEPT ![e].card = card]
  /\ Remember(employee[e], card)
  /\ UNCHANGED <<guard, user, role, site, posting, call>>

\* Whether the name is taken was asked in an earlier statement, and no key
\* repeats the question.
CreateRole(q, name) ==
  /\ role[q] = Unused
  /\ role' = [role EXCEPT ![q] = [status |-> "KEPT", name |-> name]]
  /\ UNCHANGED <<guard, employee, user, site, posting, call, history>>

RenameRole(q, name) ==
  /\ Present(role[q])
  /\ role' = [role EXCEPT ![q].name = name]
  /\ UNCHANGED <<guard, employee, user, site, posting, call, history>>

\* A role is taken from whoever has it.
RemoveRole(q) ==
  /\ Present(role[q])
  /\ role' = [role EXCEPT ![q] = Gone]
  /\ user' = [u \in Users |->
       IF Present(user[u]) THEN [user[u] EXCEPT !.roles = @ \ {q}] ELSE user[u]]
  /\ UNCHANGED <<guard, employee, site, posting, call, history>>

\* Mutant of DeleteEmployees: only the postings of the supervised go along.
DeleteSubjects(D) ==
  /\ employee' = [e \in Employees |-> IF e \in D THEN Gone ELSE employee[e]]
  /\ posting' = [r \in Postings |->
       IF Present(posting[r]) /\ posting[r].employee \in D THEN Gone ELSE posting[r]]

\* Deleting employees, with their postings on either side.
DeleteEmployees(D) ==
  /\ employee' = [e \in Employees |-> IF e \in D THEN Gone ELSE employee[e]]
  /\ posting' = [r \in Postings |->
       IF Present(posting[r]) /\ (posting[r].employee \in D \/ posting[r].supervisor \in D)
       THEN Gone ELSE posting[r]]

RemoveGuard(g) ==
  /\ Present(guard[g])
  /\ guard' = [guard EXCEPT ![g] = Gone]
  /\ UNCHANGED <<employee, user, role, site, posting, call, history>>

RemoveEmployee(e) ==
  /\ Present(employee[e])
  /\ DeleteEmployees({e})
  /\ UNCHANGED <<guard, user, role, site, call, history>>

\* The user's guard and employee records go with the user.
RemoveUser(u) ==
  /\ Present(user[u])
  /\ user' = [user EXCEPT ![u] = Gone]
  /\ DeleteEmployees(EmployeesOf(u))
  /\ guard' = [g \in Guards |->
       IF Present(guard[g]) /\ guard[g].user = u THEN Gone ELSE guard[g]]
  /\ UNCHANGED <<role, site, call, history>>

RemoveLocation(l) ==
  /\ l \in site
  /\ site' = site \ {l}
  /\ posting' = [r \in Postings |->
       IF Present(posting[r]) /\ posting[r].loc = l THEN Gone ELSE posting[r]]
  /\ UNCHANGED <<guard, employee, user, role, call, history>>
-----------------------------------------------------------------------------
(* Accounts: createEmployeeUser and createServiceNumberUser.                 *)

\* The person has no account yet.
Unlinked(x) ==
  \/ x \in Guards /\ Present(guard[x]) /\ guard[x].user = None
  \/ x \in Employees /\ Present(employee[x]) /\ employee[x].user = None

BeginAccount(c, x, q) ==
  /\ call[c] = Idle /\ Present(role[q]) /\ Unlinked(x)
  /\ Proceed(c, [Idle EXCEPT !.op = "account", !.person = x, !.role = q])
  /\ UNCHANGED tables

\* The person is written by id, whatever account they have by now.
Link(x, u) ==
  \/ /\ x \in Guards /\ Present(guard[x])
     /\ guard' = [guard EXCEPT ![x].user = u] /\ UNCHANGED employee
  \/ /\ x \in Employees /\ Present(employee[x])
     /\ employee' = [employee EXCEPT ![x].user = u] /\ UNCHANGED guard

\* One transaction inserts the user with its role and office, and links it.
CommitAccount(c, u) ==
  /\ call[c].op = "account" /\ user[u] = Unused /\ Present(role[call[c].role])
  /\ user' = [user EXCEPT ![u] = [status |-> "KEPT", roles |-> {call[c].role}]]
  /\ Link(call[c].person, u)
  /\ Return(c)
  /\ UNCHANGED <<role, site, posting, history>>

\* A step of the transaction throws: a row is gone or the office is foreign.
AbortAccount(c) ==
  /\ call[c].op = "account"
  /\ Return(c)
  /\ UNCHANGED tables
-----------------------------------------------------------------------------
(* The employee record behind a service number or a guard.                   *)

\* What has been read of the person on the way is not used again.
Forgotten(k) == [k EXCEPT !.person = None, !.owner = None, !.card = None]

Found(c, e) ==
  LET k == [Forgotten(call[c]) EXCEPT !.sn = None] IN
  CASE k.goal = "promote"  -> Proceed(c, [k EXCEPT !.op = "check", !.found = e])
    [] k.goal = "subject"  -> Proceed(c, [k EXCEPT !.op = "superior", !.subject = e])
    [] k.goal = "superior" -> Proceed(c, [k EXCEPT !.op = "insert", !.found = e])
    [] k.goal = "update"   -> Proceed(c, [k EXCEPT !.op = "update", !.found = e])

\* In assignSupervisor and updateAssignedSupervisor an error while a guard is
\* resolved is caught, and an employee with the service number is looked for;
\* promoteGuardToSupervisor fails.
Unresolved(c) ==
  IF call[c].goal = "promote" THEN Return(c)
  ELSE Proceed(c, [Forgotten(call[c]) EXCEPT !.op = "fallback"])

LookUpGuard(c) ==
  /\ call[c].op = "lookup"
  /\ \/ \E g \in Guards : /\ Present(guard[g]) /\ guard[g].card.sn = call[c].sn
                          /\ Proceed(c, [call[c] EXCEPT !.op = "resolve", !.person = g])
     \/ /\ \A g \in Guards : Present(guard[g]) => guard[g].card.sn # call[c].sn
        /\ Unresolved(c)
  /\ UNCHANGED tables

LookUpEmployee(c) ==
  /\ call[c].op = "fallback"
  /\ \/ \E e \in Employees : /\ Present(employee[e]) /\ employee[e].card.sn = call[c].sn
                             /\ Found(c, e)
     \/ /\ \A e \in Employees : Present(employee[e]) => employee[e].card.sn # call[c].sn
        /\ Return(c)
  /\ UNCHANGED tables

\* getOrCreateEmployeeForGuard: an employee of the guard's user, if the guard
\* has a user and the user an employee.
ResolveGuard(c) ==
  LET g == call[c].person IN
  /\ call[c].op = "resolve"
  /\ IF ~Present(guard[g]) THEN Unresolved(c)
     ELSE IF guard[g].user # None /\ EmployeesOf(guard[g].user) # {}
     THEN \E e \in EmployeesOf(guard[g].user) : Found(c, e)
     ELSE Proceed(c, [call[c] EXCEPT !.op = "create", !.owner = guard[g].user,
                                     !.card = guard[g].card])
  /\ UNCHANGED tables

\* Otherwise a new employee with the columns and the user read of the guard.
CanCreate(c) ==
  /\ Insertable(call[c].card)
  /\ call[c].owner # None => Present(user[call[c].owner])

CreateEmployee(c, e) ==
  /\ call[c].op = "create" /\ employee[e] = Unused /\ CanCreate(c)
  /\ employee' = [employee EXCEPT ![e] = [status |-> "KEPT", card |-> call[c].card,
                                          user |-> call[c].owner]]
  /\ Found(c, e)
  /\ UNCHANGED <<guard, user, role, site, posting, history>>

CreateEmployeeFails(c) ==
  /\ call[c].op = "create" /\ ~CanCreate(c)
  /\ Unresolved(c)
  /\ UNCHANGED tables
-----------------------------------------------------------------------------
(* promoteGuardToSupervisor.                                                 *)

BeginPromote(c, x, l) ==
  /\ call[c] = Idle
  /\ \/ x \in Guards /\ Present(guard[x])
        /\ Proceed(c, [Idle EXCEPT !.op = "role", !.goal = "promote", !.person = x,
                                   !.user = guard[x].user, !.loc = l])
     \/ x \in Employees /\ Present(employee[x])
        /\ Proceed(c, [Idle EXCEPT !.op = "role", !.goal = "promote", !.person = x,
                                   !.user = employee[x].user, !.loc = l])
  /\ UNCHANGED tables

\* A person without account gets no role.  Otherwise any role of the name is
\* taken; where there is none, the promotion goes on without it.
FindRole(c) ==
  /\ call[c].op = "role"
  /\ \/ \E q \in Roles :
          /\ call[c].user # None /\ Present(role[q]) /\ role[q].name = "supervisor"
          /\ Proceed(c, [call[c] EXCEPT !.op = "held", !.role = q])
     \/ /\ \/ call[c].user = None
           \/ \A q \in Roles : Present(role[q]) => role[q].name # "supervisor"
        /\ Proceed(c, [call[c] EXCEPT !.op = "place"])
  /\ UNCHANGED tables

Holds(u, q) == Present(user[u]) /\ q \in user[u].roles

\* Who has the role keeps it.
ReadRole(c) ==
  /\ call[c].op = "held"
  /\ Proceed(c, [call[c] EXCEPT
       !.op = IF Holds(call[c].user, call[c].role) THEN "place" ELSE "grant"])
  /\ UNCHANGED tables

\* Mutant of GrantRole: the role is left for later.
GrantNothing(c) ==
  /\ call[c].op = "grant"
  /\ Proceed(c, [call[c] EXCEPT !.op = "place"])
  /\ UNCHANGED tables

\* The role is given before the location is looked at.  The insert fails when
\* the user or the role is gone, or when another request has given it meanwhile.
GrantRole(c) ==
  /\ call[c].op = "grant"
  /\ LET u == call[c].user
         q == call[c].role
     IN IF Present(user[u]) /\ Present(role[q]) /\ ~Holds(u, q)
        THEN /\ user' = [user EXCEPT ![u].roles = @ \cup {q}]
             /\ Proceed(c, [call[c] EXCEPT !.op = "place"])
        ELSE Return(c) /\ UNCHANGED user
  /\ UNCHANGED <<guard, employee, role, site, posting, history>>

\* An unknown location ends the request; the role stays.
CheckPlace(c) ==
  /\ call[c].op = "place"
  /\ IF call[c].loc \notin site THEN Return(c)
     ELSE IF call[c].person \in Guards THEN Proceed(c, [call[c] EXCEPT !.op = "resolve"])
     ELSE Proceed(c, [Forgotten(call[c]) EXCEPT !.op = "check", !.found = call[c].person])
  /\ UNCHANGED tables

\* A person who already has an open posting there is not posted again.
CheckPosted(c) ==
  /\ call[c].op = "check"
  /\ IF \E r \in OpenPostings(call[c].found) : posting[r].loc = call[c].loc THEN Return(c)
     ELSE Proceed(c, [call[c] EXCEPT !.op = "insert", !.subject = call[c].found])
  /\ UNCHANGED tables

Referable(e, s, l) == Present(employee[e]) /\ Present(employee[s]) /\ l \in site

\* The posting of a promoted person names the person twice.
InsertPosting(c, r) ==
  /\ call[c].op = "insert" /\ posting[r] = Unused
  /\ Referable(call[c].subject, call[c].found, call[c].loc)
  /\ \E till \in IF call[c].goal = "promote" THEN {"OPEN"} ELSE {"OPEN", "ENDED"} :
       posting' = [posting EXCEPT ![r] =
         [status |-> till, employee |-> call[c].subject, supervisor |-> call[c].found,
          loc |-> call[c].loc]]
  /\ Return(c)
  /\ UNCHANGED <<guard, employee, user, role, site, history>>

InsertPostingFails(c) ==
  /\ call[c].op = "insert" /\ ~Referable(call[c].subject, call[c].found, call[c].loc)
  /\ Return(c)
  /\ UNCHANGED tables
-----------------------------------------------------------------------------
(* assignSupervisor and updateAssignedSupervisor.                            *)

\* The person supervised is named by service number or by employee id.
BeginAssign(c, l) ==
  /\ call[c] = Idle /\ l \in site
  /\ \/ \E s \in ServiceNumbers :
          Proceed(c, [Idle EXCEPT !.op = "lookup", !.goal = "subject", !.sn = s, !.loc = l])
     \/ \E e \in Employees : Present(employee[e]) /\
          Proceed(c, [Idle EXCEPT !.op = "superior", !.goal = "subject", !.subject = e,
                                  !.loc = l])
  /\ UNCHANGED tables

\* And then the supervisor.
NameSupervisor(c) ==
  /\ call[c].op = "superior"
  /\ \/ \E s \in ServiceNumbers :
          Proceed(c, [call[c] EXCEPT !.op = "lookup", !.goal = "superior", !.sn = s])
     \/ \E e \in Employees : Present(employee[e]) /\
          Proceed(c, [call[c] EXCEPT !.op = "insert", !.goal = "superior", !.found = e])
     \/ Return(c)
  /\ UNCHANGED tables

\* A supervisor named by service number is resolved; one named by employee id
\* is not taken over, and the posting keeps its supervisor.
BeginUpdate(c, r, l) ==
  /\ call[c] = Idle /\ Present(posting[r])
  /\ \/ \E s \in ServiceNumbers :
          Proceed(c, [Idle EXCEPT !.op = "lookup", !.goal = "update", !.sn = s,
                                  !.row = r, !.loc = l])
     \/ Proceed(c, [Idle EXCEPT !.op = "update", !.goal = "update", !.row = r, !.loc = l])
  /\ UNCHANGED tables

\* An end date, once set, is never taken back: null is not written.
ApplyUpdate(c) ==
  LET r == call[c].row
      e == IF call[c].found # None THEN call[c].found ELSE posting[r].supervisor
      l == IF call[c].loc # None THEN call[c].loc ELSE posting[r].loc
  IN /\ call[c].op = "update"
     /\ IF Present(posting[r]) /\ Referable(posting[r].employee, e, l)
        THEN \E till \in {posting[r].status, "ENDED"} :
               posting' = [posting EXCEPT ![r].status = till, ![r].supervisor = e, ![r].loc = l]
        ELSE UNCHANGED posting
     /\ Return(c)
     /\ UNCHANGED <<guard, employee, user, role, site, history>>
-----------------------------------------------------------------------------
Records ==
  \/ \E g \in Guards : \/ RemoveGuard(g)
                       \/ \E card \in Cards : HireGuard(g, card) \/ UpdateGuard(g, card)
  \/ \E e \in Employees :
       \/ RemoveEmployee(e)
       \/ \E card \in Cards : HireEmployee(e, card) \/ UpdateEmployee(e, card)
  \/ \E q \in Roles :
       \/ RemoveRole(q)
       \/ \E name \in {"supervisor", "other"} : CreateRole(q, name) \/ RenameRole(q, name)
  \/ \E u \in Users : RemoveUser(u)
  \/ \E l \in Locations : RemoveLocation(l)

Accounts(c) ==
  \/ \E x \in Guards \cup Employees, q \in Roles : BeginAccount(c, x, q)
  \/ \E u \in Users : CommitAccount(c, u)
  \/ AbortAccount(c)

Supervisors(c) ==
  \/ \E x \in Guards \cup Employees, l \in Locations : BeginPromote(c, x, l)
  \/ FindRole(c) \/ ReadRole(c) \/ GrantRole(c) \/ CheckPlace(c) \/ CheckPosted(c)
  \/ LookUpGuard(c) \/ LookUpEmployee(c) \/ ResolveGuard(c) \/ CreateEmployeeFails(c)
  \/ \E e \in Employees : CreateEmployee(c, e)
  \/ \E l \in Locations : BeginAssign(c, l)
  \/ NameSupervisor(c)
  \/ \E r \in Postings, l \in Locations \cup {None} : BeginUpdate(c, r, l)
  \/ \E r \in Postings : InsertPosting(c, r)
  \/ ApplyUpdate(c) \/ InsertPostingFails(c)

Next == Records \/ \E c \in Callers : Accounts(c) \/ Supervisors(c)

Spec == Init /\ [][Next]_vars
-----------------------------------------------------------------------------
(* Properties.                                                               *)

\* The user whose person got both another service number and another CNIC,
\* when neither unique column tells the person's records apart any more.
Reissued(u) == u \in renumbered \cap recarded

\* A user is the account of one guard at most, and of one employee record
\* unless both unique columns were changed: two promotions of a guard at the
\* same time both find no employee, and only these columns keep the second from
\* creating another, as userId is not unique.
UserServesOnePerson ==
  \A u \in Users :
    /\ Reissued(u) \/ Cardinality(EmployeesOf(u)) <= 1
    /\ Cardinality({g \in Guards : Present(guard[g]) /\ guard[g].user = u}) <= 1

\* A supervisor sees every location of the postings of an employee record of
\* theirs, whichever of the user's records the filter happens to find, unless
\* both unique columns of their person were changed.
OpenPostingsVisible ==
  \A r \in Postings : posting[r].status = "OPEN" =>
    LET u == employee[posting[r].supervisor].user IN
      u = None \/ Reissued(u) \/ \A seen \in LocationFilters(u) : posting[r].loc \in seen

\* A promotion that has passed the role has left the user, if the person had
\* one and it still exists, with the role it found, unless there was none or
\* the role was deleted.
PromotedHoldRole ==
  \A c \in Callers :
    \/ call[c].goal # "promote" \/ call[c].op \in {"role", "held", "grant"}
    \/ call[c].role = None \/ ~Present(role[call[c].role])
    \/ ~Present(user[call[c].user])
    \/ Holds(call[c].user, call[c].role)

\* No user has a role that is gone: the role found at the start of a request
\* may have been deleted when it is given.
GrantsReferToRoles ==
  \A u \in Users : Present(user[u]) => \A q \in user[u].roles : Present(role[q])

\* Postings name existing employees at an existing location: the records found
\* at the start of a request may be gone when it inserts.
PostingsReferToRecords ==
  \A r \in Postings : Present(posting[r]) =>
    Referable(posting[r].employee, posting[r].supervisor, posting[r].loc)

\* What the schema promises, however the statements of several requests mix:
\* columns in their ranges, accounts of one person, no posting and no grant of a
\* role that dangles.
SchemaKept == TypeOK /\ UserServesOnePerson /\ PostingsReferToRecords /\ GrantsReferToRoles
==============================================================================
