-------------------------- MODULE Supervision_proofs --------------------------
(***************************************************************************)
(* What holds of accounts, roles and postings for every set of people,     *)
(* locations and requests.                                                 *)
(*                                                                         *)
(* Two requests may find at the same time that a guard has no employee     *)
(* record and both go on to create one.  That a user still serves one      *)
(* person rests on what such requests hold (Sound): whoever creates an     *)
(* employee with a user holds the only guard with that user, and every     *)
(* employee the user has got meanwhile has the service number or the CNIC  *)
(* that the request has read of the guard, unless both were changed, and   *)
(* the unique columns refuse it.                                           *)
(***************************************************************************)
EXTENDS Supervision, FiniteSetTheorems, TLAPS

\* The fields a statement reads of its request were filled by an earlier one.
Formed(k) ==
  /\ k.op \in {"idle", "account"} => k.goal = None
  /\ k.op = "account" => k.person # None /\ k.role # None
  /\ k.op \in {"role", "held", "grant", "place"} => k.goal = "promote" /\ k.person # None
  /\ k.op = "role" => k.role = None
  /\ k.op \in {"held", "grant"} => k.user # None /\ k.role # None
  /\ k.op \in {"lookup", "fallback"} =>
       k.goal \in {"subject", "superior", "update"} /\ k.sn # None
  /\ k.op \in {"resolve", "create"} => k.goal # None /\ k.person \in Guards
  /\ k.op = "create" => k.card # None
  /\ k.op \in {"resolve", "create"} /\ k.goal # "promote" => k.sn # None
  /\ k.op = "check" => k.goal = "promote" /\ k.found # None
  /\ k.op = "superior" => k.goal = "subject" /\ k.subject # None
  /\ k.op = "insert" =>
       k.goal \in {"promote", "superior"} /\ k.subject # None /\ k.found # None
  /\ k.op = "update" => k.goal = "update"
  /\ k.goal \in {"promote", "subject", "superior"} => k.loc # None
  /\ k.goal = "superior" => k.subject # None
  /\ k.goal = "update" => k.row # None

\* A promotion has the role behind it in these operations.
PastRole == {"place", "resolve", "create", "check", "insert"}

\* The user and the role a promotion has read existed once, and the user has the
\* role after it.
Promoted(k, us, rs) ==
  /\ k.goal = "promote" /\ k.user # None => us[k.user] # Unused
  /\ k.goal = "promote" /\ k.role # None =>
       /\ k.user # None /\ rs[k.role] # Unused
       /\ k.op \in PastRole /\ Present(us[k.user]) /\ Present(rs[k.role]) =>
            k.role \in us[k.user].roles

Creates(k) == k.op = "create" /\ k.owner # None

\* Equal in the columns that were not changed for the user.
Same(u, a, b, rn, rc) ==
  /\ u \notin rn => a.sn = b.sn
  /\ u \notin rc => a.cnic = b.cnic

\* The user of an employee to be created has no guard and no employee but those
\* with the columns the request has read.
Owned(k, gs, es, us, rn, rc) ==
  Creates(k) =>
    /\ us[k.owner] # Unused
    /\ \A g \in Guards : Present(gs[g]) /\ gs[g].user = k.owner =>
         g = k.person /\ Same(k.owner, gs[g].card, k.card, rn, rc)
    /\ \A e \in Employees : Present(es[e]) /\ es[e].user = k.owner =>
         Same(k.owner, es[e].card, k.card, rn, rc)

Sound(k, gs, es, us, rs, rn, rc) ==
  Formed(k) /\ Promoted(k, us, rs) /\ Owned(k, gs, es, us, rn, rc)

\* Requests that create employees for one user do so for one guard.
SameGuard(k, j, rn, rc) ==
  Creates(k) /\ Creates(j) /\ k.owner = j.owner =>
    k.person = j.person /\ Same(k.owner, k.card, j.card, rn, rc)

CallsSound ==
  /\ \A c \in Callers : Sound(call[c], guard, employee, user, role, renumbered, recarded)
  /\ \A c, d \in Callers : SameGuard(call[c], call[d], renumbered, recarded)

\* A user that was never inserted is nobody's, and any other one person's.
LinksUnique ==
  /\ \A g \in Guards : Present(guard[g]) /\ guard[g].user # None => user[guard[g].user] # Unused
  /\ \A e \in Employees :
       Present(employee[e]) /\ employee[e].user # None => user[employee[e].user] # Unused
  /\ \A g, h \in Guards :
       Present(guard[g]) /\ Present(guard[h]) /\ guard[g].user # None
         /\ guard[g].user = guard[h].user => g = h
  /\ \A e, f \in Employees :
       Present(employee[e]) /\ Present(employee[f]) /\ employee[e].user # None
         /\ employee[e].user = employee[f].user /\ ~Reissued(employee[e].user) => e = f

IInv == TypeOK /\ CallsSound /\ LinksUnique /\ PostingsReferToRecords /\ GrantsReferToRoles

\* No guard or employee gets the account u or, unseen, other columns, and u does
\* not come back or lose a role that stays.
Steady(u) ==
  /\ user[u] # Unused => user'[u] # Unused
  /\ user[u] # Unused /\ Present(user'[u]) =>
       Present(user[u]) /\ \A q \in user[u].roles : Present(role'[q]) => q \in user'[u].roles
  /\ \A g \in Guards : Present(guard'[g]) /\ guard'[g].user = u =>
       /\ Present(guard[g]) /\ guard[g].user = u
       /\ Same(u, guard'[g].card, guard[g].card, renumbered', recarded')
  /\ \A e \in Employees : Present(employee'[e]) /\ employee'[e].user = u =>
       /\ Present(employee[e]) /\ employee[e].user = u
       /\ Same(u, employee'[e].card, employee[e].card, renumbered', recarded')

\* What was changed stays remembered, and no role comes back.
Growing ==
  /\ renumbered \subseteq renumbered' /\ recarded \subseteq recarded'
  /\ \A q \in Roles : role[q] # Unused =>
       role'[q] # Unused /\ (Present(role'[q]) => Present(role[q]))

TablesOK ==
  /\ guard \in [Guards -> Absent \cup GuardRow]
  /\ employee \in [Employees -> Absent \cup EmployeeRow]
  /\ user \in [Users -> Absent \cup UserRow]
  /\ role \in [Roles -> Absent \cup RoleRow]
  /\ site \subseteq Locations
  /\ posting \in [Postings -> Absent \cup PostingRow]
  /\ renumbered \subseteq Users /\ recarded \subseteq Users
-----------------------------------------------------------------------------
(* Rows and calls.                                                           *)

\* A row is present exactly when it has the columns of its table.
LEMMA PresentRows ==
  ASSUME TypeOK
  PROVE  /\ \A g \in Guards : Present(guard[g]) <=> guard[g] \in GuardRow
         /\ \A e \in Employees : Present(employee[e]) <=> employee[e] \in EmployeeRow
         /\ \A u \in Users : Present(user[u]) <=> user[u] \in UserRow
         /\ \A q \in Roles : Present(role[q]) <=> role[q] \in RoleRow
         /\ \A r \in Postings : Present(posting[r]) <=> posting[r] \in PostingRow
<1>1. \A x \in GuardRow \cup EmployeeRow \cup UserRow \cup RoleRow : x.status = "KEPT"
  BY DEF GuardRow, EmployeeRow, UserRow, RoleRow
<1>2. \A x \in PostingRow : x.status \in {"OPEN", "ENDED"}
  BY DEF PostingRow
<1>3. \A x \in Absent : x.status \in {"NONE", "GONE"}
  BY DEF Absent, Unused, Gone
<1> QED BY <1>1, <1>2, <1>3 DEF TypeOK, Present

LEMMA AbsentRows == Gone # Unused /\ ~Present(Gone) /\ ~Present(Unused)
BY DEF Present, Absent, Unused, Gone

LEMMA IdleSound ==
  /\ Idle \in Call
  /\ \A gs, es, us, rs, rn, rc : Sound(Idle, gs, es, us, rs, rn, rc)
  /\ ~Creates(Idle)
BY NoneAssumption DEF Idle, Call, Sound, Formed, Promoted, Owned, Creates, PastRole

\* A request that is not idle has the fields its next statement reads.
LEMMA FormedFields ==
  ASSUME NEW k \in Call, Formed(k)
  PROVE  /\ k.op = "account" => k.person \in Guards \cup Employees /\ k.role \in Roles
         /\ k.op \in {"held", "grant"} => k.user \in Users /\ k.role \in Roles
         /\ k.op \in {"lookup", "fallback"} => k.sn \in ServiceNumbers
         /\ k.op = "create" => k.card \in Cards
         /\ k.op = "check" => k.found \in Employees
         /\ k.op = "insert" => k.subject \in Employees /\ k.found \in Employees
         /\ k.goal \in {"promote", "subject", "superior"} => k.loc \in Locations
         /\ k.op = "place" => k.person \in Guards \cup Employees
         /\ k.goal = "update" => k.row \in Postings
BY DEF Call, Formed
-----------------------------------------------------------------------------
(* What a step preserves.                                                    *)

LEMMA SoundStays ==
  ASSUME NEW k \in Call, Sound(k, guard, employee, user, role, renumbered, recarded), Growing,
         \A u \in Users : user[u] # Unused => Steady(u)
  PROVE  Sound(k, guard', employee', user', role', renumbered', recarded')
<1>1. Promoted(k, user', role')
  <2>1. ASSUME k.goal = "promote", k.user # None
        PROVE  k.user \in Users /\ user[k.user] # Unused /\ user'[k.user] # Unused
    BY <2>1 DEF Sound, Promoted, Call, Steady
  <2>2. ASSUME k.goal = "promote", k.role # None
        PROVE  /\ k.user # None /\ role'[k.role] # Unused
               /\ k.op \in PastRole /\ Present(user'[k.user]) /\ Present(role'[k.role]) =>
                    k.role \in user'[k.user].roles
    <3>1. k.user # None /\ k.role \in Roles /\ role[k.role] # Unused
      BY <2>2 DEF Sound, Promoted, Call
    <3>2. k.user \in Users /\ user[k.user] # Unused /\ Steady(k.user)
      BY <2>1, <2>2, <3>1
    <3>3. role'[k.role] # Unused /\ (Present(role'[k.role]) => Present(role[k.role]))
      BY <3>1 DEF Growing
    <3>4. ASSUME k.op \in PastRole, Present(user'[k.user]), Present(role'[k.role])
          PROVE  k.role \in user'[k.user].roles
      <4>1. Present(user[k.user])
              /\ \A q \in user[k.user].roles : Present(role'[q]) => q \in user'[k.user].roles
        BY <3>2, <3>4 DEF Steady
      <4> QED BY <2>2, <3>3, <3>4, <4>1 DEF Sound, Promoted
    <3> QED BY <3>1, <3>3, <3>4
  <2> QED BY <2>1, <2>2 DEF Promoted
<1>2. Owned(k, guard', employee', user', renumbered', recarded')
  <2> SUFFICES ASSUME Creates(k)
               PROVE  /\ user'[k.owner] # Unused
                      /\ \A g \in Guards : Present(guard'[g]) /\ guard'[g].user = k.owner =>
                           /\ g = k.person
                           /\ Same(k.owner, guard'[g].card, k.card, renumbered', recarded')
                      /\ \A e \in Employees : Present(employee'[e]) /\ employee'[e].user = k.owner
                           => Same(k.owner, employee'[e].card, k.card, renumbered', recarded')
    BY DEF Owned
  <2>1. k.owner \in Users /\ user[k.owner] # Unused /\ Steady(k.owner)
    BY DEF Sound, Owned, Creates, Call
  <2>2. \A a, b : Same(k.owner, a, k.card, renumbered, recarded)
                    /\ Same(k.owner, b, a, renumbered', recarded')
                    => Same(k.owner, b, k.card, renumbered', recarded')
    BY DEF Same, Growing
  <2> QED BY <2>1, <2>2 DEF Sound, Owned, Steady
<1> QED BY <1>1, <1>2 DEF Sound

LEMMA CallsHeld ==
  ASSUME IInv, Growing, \A u \in Users : user[u] # Unused => Steady(u)
  PROVE  \A d \in Callers : Sound(call[d], guard', employee', user', role', renumbered', recarded')
BY SoundStays DEF IInv, TypeOK, CallsSound

LEMMA SameGuardStays ==
  ASSUME Growing, NEW k, NEW j, SameGuard(k, j, renumbered, recarded)
  PROVE  SameGuard(k, j, renumbered', recarded')
BY DEF Growing, SameGuard, Same

\* A request goes on as k, and what the others hold stays sound.
LEMMA CallerMoves ==
  ASSUME IInv, NEW c \in Callers, NEW k \in Call, Proceed(c, k), Growing,
         \A d \in Callers :
           Sound(call[d], guard', employee', user', role', renumbered', recarded'),
         Sound(k, guard', employee', user', role', renumbered', recarded'),
         \A d \in Callers : /\ SameGuard(k, call[d], renumbered', recarded')
                            /\ SameGuard(call[d], k, renumbered', recarded')
  PROVE  call' \in [Callers -> Call] /\ CallsSound'
<1>1. call' = [call EXCEPT ![c] = k] /\ call \in [Callers -> Call]
  BY DEF Proceed, IInv, TypeOK
<1>2. \A d \in Callers : Sound(call'[d], guard', employee', user', role', renumbered', recarded')
  BY <1>1
<1>3. SameGuard(k, k, renumbered', recarded')
  BY DEF SameGuard, Same
<1>4. \A d, e \in Callers : SameGuard(call[d], call[e], renumbered', recarded')
  BY SameGuardStays DEF IInv, CallsSound
<1>5. \A d, e \in Callers : SameGuard(call'[d], call'[e], renumbered', recarded')
  BY <1>1, <1>3, <1>4
<1> QED BY <1>1, <1>2, <1>5 DEF CallsSound

\* Who creates nothing differs from nobody.
LEMMA Alone ==
  ASSUME NEW k, ~Creates(k), NEW rn, NEW rc
  PROVE  \A j : SameGuard(k, j, rn, rc) /\ SameGuard(j, k, rn, rc)
BY DEF SameGuard

LEMMA CallsStay ==
  ASSUME IInv, call' = call, Growing, \A u \in Users : Steady(u)
  PROVE  CallsSound'
BY CallsHeld, SameGuardStays DEF IInv, CallsSound

LEMMA LinksStay ==
  ASSUME IInv, TablesOK', Growing, \A u \in Users : Steady(u)
  PROVE  LinksUnique'
<1>1. \A g \in Guards : Present(guard'[g]) /\ guard'[g].user # None =>
        guard'[g].user \in Users /\ Present(guard[g]) /\ guard[g].user = guard'[g].user
  <2>1. \A g \in Guards : Present(guard'[g]) => guard'[g] \in GuardRow
    BY DEF TablesOK, Present
  <2> QED BY <2>1 DEF GuardRow, Steady
<1>2. \A e \in Employees : Present(employee'[e]) /\ employee'[e].user # None =>
        employee'[e].user \in Users /\ Present(employee[e]) /\ employee[e].user = employee'[e].user
  <2>1. \A e \in Employees : Present(employee'[e]) => employee'[e] \in EmployeeRow
    BY DEF TablesOK, Present
  <2> QED BY <2>1 DEF EmployeeRow, Steady
<1>3. \A u \in Users : user[u] # Unused => user'[u] # Unused
  BY DEF Steady
<1>4. \A u : Reissued(u) => u \in renumbered' \cap recarded'
  BY DEF Reissued, Growing
<1> QED BY <1>1, <1>2, <1>3, <1>4 DEF IInv, LinksUnique, Reissued

LEMMA NothingMoves ==
  ASSUME UNCHANGED <<role, renumbered, recarded>>
  PROVE  Growing
BY DEF Growing

\* When no table changes, a request may go on as anything sound.
LEMMA CallMoves ==
  ASSUME IInv, NEW c \in Callers, NEW k \in Call, Proceed(c, k), UNCHANGED tables,
         Sound(k, guard, employee, user, role, renumbered, recarded),
         Creates(k) => \A d \in Callers : SameGuard(k, call[d], renumbered, recarded)
  PROVE  IInv'
<1>1. UNCHANGED <<guard, employee, user, role, site, posting, renumbered, recarded>>
  BY DEF tables, history
<1>2. \A u \in Users : Steady(u)
  BY <1>1 DEF Steady, Same
<1>3. \A d \in Callers : SameGuard(k, call[d], renumbered, recarded)
                           /\ SameGuard(call[d], k, renumbered, recarded)
  BY DEF SameGuard, Same
<1>4. call' \in [Callers -> Call] /\ CallsSound'
  BY <1>1, <1>2, <1>3, NothingMoves, CallsHeld, CallerMoves
<1>5. TypeOK' /\ LinksUnique' /\ PostingsReferToRecords' /\ GrantsReferToRoles'
  BY <1>1, <1>4
  DEF IInv, TypeOK, LinksUnique, PostingsReferToRecords, Referable, GrantsReferToRoles, Reissued
<1> QED BY <1>4, <1>5 DEF IInv

LEMMA CallEnds ==
  ASSUME IInv, NEW c \in Callers, Return(c), UNCHANGED tables
  PROVE  IInv'
BY CallMoves, IdleSound DEF Return
-----------------------------------------------------------------------------
(* Records come and go.                                                      *)

LEMMA TablesMove ==
  ASSUME IInv, call' = call, TablesOK', PostingsReferToRecords', GrantsReferToRoles',
         Growing, \A u \in Users : Steady(u)
  PROVE  IInv'
<1>1. TypeOK'
  BY DEF IInv, TypeOK, TablesOK
<1> QED BY <1>1, CallsStay, LinksStay DEF IInv

LEMMA GrantsStay ==
  ASSUME IInv, UNCHANGED <<user, role>>
  PROVE  GrantsReferToRoles'
BY DEF IInv, GrantsReferToRoles

LEMMA HireGuardStep ==
  ASSUME IInv, NEW g \in Guards, NEW card \in Cards, HireGuard(g, card)
  PROVE  IInv'
<1>1. /\ UNCHANGED <<employee, user, role, site, posting, call, renumbered, recarded>>
      /\ TypeOK /\ guard[g] = Unused
  BY DEF HireGuard, IInv, history
<1> DEFINE row == [status |-> "KEPT", card |-> card, user |-> None]
<1>2. row \in GuardRow /\ row.user = None /\ guard' = [guard EXCEPT ![g] = row]
  BY DEF GuardRow, HireGuard
<1> HIDE DEF row
<1>3. TablesOK' /\ PostingsReferToRecords'
  BY <1>1, <1>2 DEF TablesOK, TypeOK, IInv, PostingsReferToRecords, Referable
<1>4. \A u \in Users : Steady(u)
  BY <1>1, <1>2, NoneAssumption DEF Steady, Same, TypeOK
<1> QED BY <1>1, <1>3, <1>4, NothingMoves, GrantsStay, TablesMove

LEMMA HireEmployeeStep ==
  ASSUME IInv, NEW e \in Employees, NEW card \in Cards, HireEmployee(e, card)
  PROVE  IInv'
<1>1. /\ UNCHANGED <<guard, user, role, site, posting, call, renumbered, recarded>>
      /\ TypeOK /\ employee[e] = Unused
  BY DEF HireEmployee, IInv, history
<1> DEFINE row == [status |-> "KEPT", card |-> card, user |-> None]
<1>2. row \in EmployeeRow /\ row.user = None
  BY DEF EmployeeRow
<1>3. employee' = [employee EXCEPT ![e] = row]
  BY DEF HireEmployee
<1> HIDE DEF row
<1>4. TablesOK'
  BY <1>1, <1>2, <1>3 DEF TablesOK, TypeOK
<1>5. \A u \in Users : Steady(u)
  BY <1>1, <1>2, <1>3, NoneAssumption DEF Steady, Same, TypeOK
<1>6. \A f \in Employees : Present(employee[f]) => employee'[f] = employee[f]
  BY <1>1, <1>3, AbsentRows DEF TypeOK
<1>7. PostingsReferToRecords'
  <2>1. \A r \in Postings : Present(posting[r]) =>
          posting[r].employee \in Employees /\ posting[r].supervisor \in Employees
    BY <1>1, PresentRows DEF PostingRow
  <2> QED BY <2>1, <1>1, <1>6 DEF IInv, PostingsReferToRecords, Referable
<1> QED BY <1>1, <1>4, <1>5, <1>7, NothingMoves, GrantsStay, TablesMove

\* What is written over a row's card is remembered for the row's user.
LEMMA Remembered ==
  ASSUME TypeOK, NEW row, NEW card, Remember(row, card)
  PROVE  /\ renumbered' \subseteq Users /\ recarded' \subseteq Users
         /\ renumbered \subseteq renumbered' /\ recarded \subseteq recarded'
         /\ \A u \in Users : row.user = u => Same(u, card, row.card, renumbered', recarded')
BY DEF Remember, TypeOK, Same

LEMMA UpdateGuardStep ==
  ASSUME IInv, NEW g \in Guards, NEW card \in Cards, UpdateGuard(g, card)
  PROVE  IInv'
<1>1. /\ UNCHANGED <<employee, user, role, site, posting, call>> /\ TypeOK
      /\ Present(guard[g]) /\ Remember(guard[g], card)
  BY DEF UpdateGuard, IInv
<1>2. PICK old \in GuardRow : old = guard[g]
  BY <1>1, PresentRows
<1> DEFINE row == [old EXCEPT !.card = card]
<1>3. row \in GuardRow /\ row.user = old.user /\ row.card = card
  BY <1>2 DEF GuardRow
<1>4. guard' = [guard EXCEPT ![g] = row]
  BY <1>2 DEF UpdateGuard
<1> HIDE DEF row
<1>5. Growing
  BY <1>1, Remembered DEF Growing
<1>6. TablesOK' /\ PostingsReferToRecords'
  BY <1>1, <1>3, <1>4, Remembered
  DEF TablesOK, TypeOK, IInv, PostingsReferToRecords, Referable
<1>7. \A h \in Guards : guard'[h] = IF h = g THEN row ELSE guard[h]
  BY <1>1, <1>4 DEF TypeOK
<1>8. \A u \in Users : Steady(u)
  <2> TAKE u \in Users
  <2>1. \A a : Same(u, a, a, renumbered', recarded')
    BY DEF Same
  <2>2. old.user = u => Same(u, row.card, old.card, renumbered', recarded')
    BY <1>1, <1>2, <1>3, Remembered
  <2>3. \A h \in Guards : Present(guard'[h]) /\ guard'[h].user = u =>
          /\ Present(guard[h]) /\ guard[h].user = u
          /\ Same(u, guard'[h].card, guard[h].card, renumbered', recarded')
    BY <1>1, <1>2, <1>3, <1>7, <2>1, <2>2
  <2> QED BY <1>1, <2>1, <2>3 DEF Steady
<1> QED BY <1>1, <1>5, <1>6, <1>8, GrantsStay, TablesMove

LEMMA UpdateEmployeeStep ==
  ASSUME IInv, NEW e \in Employees, NEW card \in Cards, UpdateEmployee(e, card)
  PROVE  IInv'
<1>1. /\ UNCHANGED <<guard, user, role, site, posting, call>> /\ TypeOK
      /\ Present(employee[e]) /\ Remember(employee[e], card)
  BY DEF UpdateEmployee, IInv
<1>2. PICK old \in EmployeeRow : old = employee[e]
  BY <1>1, PresentRows
<1> DEFINE row == [old EXCEPT !.card = card]
<1>3. row \in EmployeeRow /\ row.user = old.user /\ row.card = card /\ row.status = "KEPT"
  BY <1>2 DEF EmployeeRow
<1>4. employee' = [employee EXCEPT ![e] = row]
  BY <1>2 DEF UpdateEmployee
<1> HIDE DEF row
<1>5. Growing
  BY <1>1, Remembered DEF Growing
<1>6. \A f \in Employees : employee'[f] = IF f = e THEN row ELSE employee[f]
  BY <1>1, <1>4 DEF TypeOK
<1>7. TablesOK'
  BY <1>1, <1>3, <1>4, Remembered DEF TablesOK, TypeOK
<1>8. PostingsReferToRecords'
  <2>1. Present(row)
    BY <1>3 DEF Present, Absent, Unused, Gone
  <2>2. \A r \in Postings : Present(posting[r]) =>
          posting[r].employee \in Employees /\ posting[r].supervisor \in Employees
    BY <1>1, PresentRows DEF PostingRow
  <2> QED BY <1>1, <1>6, <2>1, <2>2 DEF IInv, PostingsReferToRecords, Referable
<1>9. \A u \in Users : Steady(u)
  <2> TAKE u \in Users
  <2>1. \A a : Same(u, a, a, renumbered', recarded')
    BY DEF Same
  <2>2. old.user = u => Same(u, row.card, old.card, renumbered', recarded')
    BY <1>1, <1>2, <1>3, Remembered
  <2>3. \A f \in Employees : Present(employee'[f]) /\ employee'[f].user = u =>
          /\ Present(employee[f]) /\ employee[f].user = u
          /\ Same(u, employee'[f].card, employee[f].card, renumbered', recarded')
    BY <1>1, <1>2, <1>3, <1>6, <2>1, <2>2
  <2> QED BY <1>1, <2>1, <2>3 DEF Steady
<1> QED BY <1>1, <1>5, <1>7, <1>8, <1>9, GrantsStay, TablesMove

\* The Role table changes in one row, which all users keep or lose.
RoleWritten(q, row) ==
  /\ role' = [role EXCEPT ![q] = row] /\ row # Unused
  /\ \/ Present(row) /\ user' = user
     \/ /\ row = Gone
        /\ user' = [u \in Users |->
             IF Present(user[u]) THEN [user[u] EXCEPT !.roles = @ \ {q}] ELSE user[u]]
  /\ Present(role[q]) \/ role[q] = Unused

LEMMA RoleRowPresent ==
  ASSUME NEW row \in RoleRow
  PROVE  Present(row) /\ row # Unused
<1>1. row.status = "KEPT"
  BY DEF RoleRow
<1> QED BY <1>1 DEF Present, Absent, Unused, Gone

LEMMA RoleStep ==
  ASSUME IInv, NEW q \in Roles,
         \/ RemoveRole(q)
         \/ \E name \in {"supervisor", "other"} : CreateRole(q, name) \/ RenameRole(q, name)
  PROVE  IInv'
<1>1. /\ UNCHANGED <<guard, employee, site, posting, call, renumbered, recarded>> /\ TypeOK
  BY DEF RemoveRole, CreateRole, RenameRole, IInv, history
<1>0. PICK row \in Absent \cup RoleRow : RoleWritten(q, row)
  <2>1. CASE RemoveRole(q)
    <3>1. RoleWritten(q, Gone)
      BY <2>1, AbsentRows DEF RemoveRole, RoleWritten
    <3> QED BY <3>1 DEF Absent
  <2>2. ASSUME NEW name \in {"supervisor", "other"}, CreateRole(q, name)
        PROVE  \E row \in Absent \cup RoleRow : RoleWritten(q, row)
    <3> DEFINE new == [status |-> "KEPT", name |-> name]
    <3>1. new \in RoleRow
      BY DEF RoleRow
    <3>2. role' = [role EXCEPT ![q] = new] /\ user' = user /\ role[q] = Unused
      BY <2>2 DEF CreateRole
    <3> HIDE DEF new
    <3>3. RoleWritten(q, new)
      BY <3>1, <3>2, RoleRowPresent DEF RoleWritten
    <3> QED BY <3>1, <3>3
  <2>3. ASSUME NEW name \in {"supervisor", "other"}, RenameRole(q, name)
        PROVE  \E row \in Absent \cup RoleRow : RoleWritten(q, row)
    <3>1. PICK old \in RoleRow : old = role[q]
      BY <1>1, <2>3, PresentRows DEF RenameRole
    <3> DEFINE new == [old EXCEPT !.name = name]
    <3>2. new \in RoleRow
      BY DEF RoleRow
    <3>3. role' = [role EXCEPT ![q] = new] /\ user' = user /\ Present(role[q])
      BY <2>3, <3>1 DEF RenameRole
    <3> HIDE DEF new
    <3>4. RoleWritten(q, new)
      BY <3>2, <3>3, RoleRowPresent DEF RoleWritten
    <3> QED BY <3>2, <3>4
  <2> QED BY <2>1, <2>2, <2>3
<1>2. /\ role' = [role EXCEPT ![q] = row] /\ row # Unused
      /\ \/ Present(row) /\ user' = user
         \/ /\ row = Gone
            /\ user' = [u \in Users |->
                 IF Present(user[u]) THEN [user[u] EXCEPT !.roles = @ \ {q}] ELSE user[u]]
      /\ Present(role[q]) \/ role[q] = Unused
  BY <1>0 DEF RoleWritten
<1>3. \A p \in Roles : role'[p] = IF p = q THEN row ELSE role[p]
  BY <1>1, <1>2 DEF TypeOK
<1>4. Growing
  BY <1>1, <1>2, <1>3, AbsentRows DEF Growing
<1>5. \A u \in Users :
        /\ user'[u] \in Absent \cup UserRow
        /\ user'[u] = Unused <=> user[u] = Unused
        /\ Present(user'[u]) <=> Present(user[u])
        /\ Present(user[u]) =>
             /\ user'[u].roles \subseteq user[u].roles
             /\ \A p \in user[u].roles : p # q \/ Present(row) => p \in user'[u].roles
             /\ Present(row) \/ q \notin user'[u].roles
  <2> TAKE u \in Users
  <2>1. CASE Present(row) /\ user' = user
    BY <1>1, <1>2, <2>1, AbsentRows, PresentRows DEF TypeOK
  <2>2. CASE /\ row = Gone
             /\ user'[u] = IF Present(user[u]) THEN [user[u] EXCEPT !.roles = @ \ {q}]
                           ELSE user[u]
    <3>1. CASE Present(user[u])
      <4>1. PICK old \in UserRow : old = user[u]
        BY <1>1, <3>1, PresentRows
      <4>2. user'[u] = [old EXCEPT !.roles = old.roles \ {q}]
        BY <2>2, <3>1, <4>1
      <4>3. user'[u] \in UserRow /\ user'[u].roles = old.roles \ {q} /\ user'[u].status = "KEPT"
        BY <4>1, <4>2 DEF UserRow
      <4>4. Present(user'[u]) /\ user'[u] # Unused
        BY <4>3 DEF Present, Absent, Unused, Gone
      <4> QED BY <2>2, <3>1, <4>1, <4>3, <4>4, AbsentRows
    <3>2. CASE ~Present(user[u])
      BY <1>1, <2>2, <3>2 DEF TypeOK
    <3> QED BY <3>1, <3>2
  <2> QED BY <1>2, <2>1, <2>2
<1>6. user' \in [Users -> Absent \cup UserRow]
  BY <1>1, <1>2, <1>5 DEF TypeOK
<1>7. TablesOK' /\ PostingsReferToRecords'
  BY <1>1, <1>2, <1>6 DEF TablesOK, TypeOK, IInv, PostingsReferToRecords, Referable
<1>8. GrantsReferToRoles'
  <2>1. \A u \in Users : Present(user[u]) => user[u].roles \subseteq Roles
    BY <1>1, PresentRows DEF UserRow
  <2> QED BY <1>3, <1>5, <2>1 DEF IInv, GrantsReferToRoles
<1>9. \A u \in Users : Steady(u)
  <2> TAKE u \in Users
  <2>1. \A p \in Roles : p # q \/ Present(row) \/ ~Present(role'[p])
    BY <1>3
  <2>2. Present(user[u]) => user[u].roles \subseteq Roles
    BY <1>1, PresentRows DEF UserRow
  <2> QED BY <1>1, <1>5, <2>1, <2>2 DEF Steady, Same
<1> QED BY <1>1, <1>4, <1>7, <1>8, <1>9, TablesMove

LEMMA PostingFields ==
  ASSUME TypeOK
  PROVE  \A r \in Postings : Present(posting[r]) =>
           posting[r].employee \in Employees /\ posting[r].supervisor \in Employees
             /\ posting[r].loc \in Locations
BY PresentRows DEF PostingRow

\* The foreign keys of postings cascade.
LEMMA EmployeesDeleted ==
  ASSUME IInv, NEW D \in SUBSET Employees, DeleteEmployees(D), site' = site
  PROVE  /\ employee' \in [Employees -> Absent \cup EmployeeRow]
         /\ posting' \in [Postings -> Absent \cup PostingRow]
         /\ PostingsReferToRecords'
         /\ \A e \in Employees : employee'[e] \in {employee[e], Gone}
<1>1. TypeOK
  BY DEF IInv
<1>2. /\ \A e \in Employees : employee'[e] = IF e \in D THEN Gone ELSE employee[e]
      /\ \A r \in Postings : Present(posting'[r]) =>
           posting'[r] = posting[r] /\ posting[r].employee \notin D /\ posting[r].supervisor \notin D
  BY AbsentRows DEF DeleteEmployees
<1>3. PostingsReferToRecords'
  BY <1>1, <1>2, PostingFields DEF IInv, PostingsReferToRecords, Referable
<1> QED BY <1>1, <1>2, <1>3 DEF DeleteEmployees, TypeOK, Absent

LEMMA Removals ==
  ASSUME IInv,
         \/ \E e \in Employees : RemoveEmployee(e)
         \/ \E u \in Users : RemoveUser(u)
  PROVE  IInv'
<1>1. PICK D \in SUBSET Employees : DeleteEmployees(D)
  BY DEF RemoveEmployee, RemoveUser, EmployeesOf
<1>2. /\ UNCHANGED <<role, site, call, renumbered, recarded>>
      /\ guard' \in [Guards -> Absent \cup GuardRow]
      /\ user' \in [Users -> Absent \cup UserRow]
      /\ \A g \in Guards : guard'[g] \in {guard[g], Gone}
      /\ \A u \in Users : user'[u] \in {user[u], Gone}
  BY DEF RemoveEmployee, RemoveUser, IInv, TypeOK, Absent, history
<1>3. TablesOK' /\ PostingsReferToRecords'
  BY <1>1, <1>2, EmployeesDeleted DEF TablesOK, IInv, TypeOK
<1>4. \A u \in Users : Steady(u)
  BY <1>1, <1>2, EmployeesDeleted, AbsentRows DEF Steady, Same
<1>5. GrantsReferToRoles'
  BY <1>2, AbsentRows DEF IInv, GrantsReferToRoles
<1> QED BY <1>2, <1>3, <1>4, <1>5, NothingMoves, TablesMove

LEMMA RemoveLocationStep ==
  ASSUME IInv, NEW l \in Locations, RemoveLocation(l)
  PROVE  IInv'
<1>1. /\ UNCHANGED <<guard, employee, user, role, call, renumbered, recarded>>
      /\ TypeOK /\ site' = site \ {l}
  BY DEF RemoveLocation, IInv, history
<1>2. \A r \in Postings : Present(posting'[r]) => posting'[r] = posting[r] /\ posting[r].loc # l
  BY AbsentRows DEF RemoveLocation
<1>3. TablesOK'
  BY <1>1 DEF RemoveLocation, TablesOK, TypeOK, Absent
<1>4. PostingsReferToRecords'
  BY <1>1, <1>2 DEF IInv, PostingsReferToRecords, Referable
<1>5. \A u \in Users : Steady(u)
  BY <1>1 DEF Steady, Same
<1> QED BY <1>1, <1>3, <1>4, <1>5, NothingMoves, GrantsStay, TablesMove

LEMMA RecordSteps ==
  ASSUME IInv, Records
  PROVE  IInv'
<1>1. ASSUME NEW g \in Guards, RemoveGuard(g) PROVE IInv'
  <2>1. UNCHANGED <<employee, user, role, site, posting, call, renumbered, recarded>> /\ TypeOK
    BY <1>1 DEF RemoveGuard, IInv, history
  <2>2. /\ guard' \in [Guards -> Absent \cup GuardRow]
        /\ \A h \in Guards : guard'[h] \in {guard[h], Gone}
    BY <1>1, <2>1 DEF RemoveGuard, TypeOK, Absent
  <2>3. \A u \in Users : Steady(u)
    BY <2>1, <2>2, AbsentRows DEF Steady, Same
  <2>4. TablesOK' /\ PostingsReferToRecords'
    BY <2>1, <2>2 DEF TablesOK, TypeOK, IInv, PostingsReferToRecords, Referable
  <2> QED BY <2>1, <2>3, <2>4, NothingMoves, GrantsStay, TablesMove
<1> QED BY <1>1, HireGuardStep, HireEmployeeStep, UpdateGuardStep, UpdateEmployeeStep, RoleStep,
           Removals, RemoveLocationStep DEF Records

-----------------------------------------------------------------------------
(* Accounts.                                                                 *)

LEMMA BeginAccountStep ==
  ASSUME IInv, NEW c \in Callers, NEW x \in Guards \cup Employees,
         NEW q \in Roles, BeginAccount(c, x, q)
  PROVE  IInv'
<1> DEFINE k == [Idle EXCEPT !.op = "account", !.person = x, !.role = q]
<1>1. Proceed(c, k) /\ UNCHANGED tables
  BY DEF BeginAccount
<1>2. k \in Call
  BY IdleSound DEF Call, Idle
<1>3. Sound(k, guard, employee, user, role, renumbered, recarded) /\ ~Creates(k)
  BY NoneAssumption DEF Idle, Sound, Formed, Promoted, Owned, Creates, PastRole
<1> QED BY <1>1, <1>2, <1>3, CallMoves

\* The account of a new user goes to one person; nobody had it before.
LEMMA LinkStep ==
  ASSUME IInv, NEW x \in Guards \cup Employees, NEW u \in Users, user[u] = Unused, Link(x, u),
         \A v \in Users : user[v] # Unused => user'[v] = user[v],
         user'[u] # Unused, UNCHANGED <<role, renumbered, recarded>>
  PROVE  /\ guard' \in [Guards -> Absent \cup GuardRow]
         /\ employee' \in [Employees -> Absent \cup EmployeeRow]
         /\ \A e \in Employees : Present(employee[e]) => Present(employee'[e])
         /\ \A v \in Users : user[v] # Unused => Steady(v)
         /\ LinksUnique'
<1>0. TypeOK /\ LinksUnique
  BY DEF IInv
<1>1. \A g \in Guards : Present(guard[g]) => guard[g].user # u
  BY <1>0, NoneAssumption DEF LinksUnique
<1>2. \A e \in Employees : Present(employee[e]) => employee[e].user # u
  BY <1>0, NoneAssumption DEF LinksUnique
<1>3. CASE x \in Guards /\ Present(guard[x]) /\ guard' = [guard EXCEPT ![x].user = u] /\ UNCHANGED employee
  <2>1. guard[x] \in GuardRow
    BY <1>0, <1>3, PresentRows
  <2> DEFINE row == [guard[x] EXCEPT !.user = u]
  <2>2. row \in GuardRow /\ row.user = u
    BY <2>1 DEF GuardRow
  <2>3. guard' = [guard EXCEPT ![x] = row]
    BY <1>3
  <2> HIDE DEF row
  <2>4. guard' \in [Guards -> Absent \cup GuardRow]
    BY <1>0, <2>2, <2>3 DEF TypeOK
  <2>5. \A g \in Guards : Present(guard'[g]) =>
          \/ g = x /\ guard'[g].user = u
          \/ g # x /\ guard'[g] = guard[g] /\ Present(guard[g])
    BY <1>0, <2>2, <2>3 DEF TypeOK
  <2>6. \A v \in Users : user[v] # Unused => Steady(v)
    BY <1>3, <2>5 DEF Steady, Same
  <2>7. LinksUnique'
    BY <1>0, <1>1, <1>2, <1>3, <2>5, PresentRows, NoneAssumption
    DEF LinksUnique, Reissued, GuardRow, EmployeeRow
  <2> QED BY <1>0, <1>3, <2>4, <2>6, <2>7 DEF TypeOK
<1>4. CASE x \in Employees /\ Present(employee[x]) /\ employee' = [employee EXCEPT ![x].user = u] /\ UNCHANGED guard
  <2>1. employee[x] \in EmployeeRow
    BY <1>0, <1>4, PresentRows
  <2> DEFINE row == [employee[x] EXCEPT !.user = u]
  <2>2. row \in EmployeeRow /\ row.user = u
    BY <2>1 DEF EmployeeRow
  <2>3. employee' = [employee EXCEPT ![x] = row]
    BY <1>4
  <2> HIDE DEF row
  <2>4. employee' \in [Employees -> Absent \cup EmployeeRow] /\ Present(row)
    <3>1. row.status = "KEPT"
      BY <2>2 DEF EmployeeRow
    <3>2. Present(row)
      BY <3>1 DEF Present, Absent, Unused, Gone
    <3> QED BY <1>0, <2>2, <2>3, <3>2 DEF TypeOK
  <2>5. \A e \in Employees : Present(employee'[e]) =>
          \/ e = x /\ employee'[e].user = u
          \/ e # x /\ employee'[e] = employee[e] /\ Present(employee[e])
    BY <1>0, <2>2, <2>3 DEF TypeOK
  <2>6. \A v \in Users : user[v] # Unused => Steady(v)
    BY <1>4, <2>5 DEF Steady, Same
  <2>7. LinksUnique'
    BY <1>0, <1>1, <1>2, <1>4, <2>5, PresentRows, NoneAssumption
    DEF LinksUnique, Reissued, GuardRow, EmployeeRow
  <2> QED BY <1>0, <1>4, <2>3, <2>4, <2>6, <2>7 DEF TypeOK
<1> QED BY <1>3, <1>4 DEF Link

LEMMA CommitAccountStep ==
  ASSUME IInv, NEW c \in Callers, NEW u \in Users, CommitAccount(c, u)
  PROVE  IInv'
<1>1. /\ TypeOK /\ UNCHANGED <<role, site, posting, renumbered, recarded>> /\ Return(c)
      /\ user[u] = Unused /\ Link(call[c].person, u) /\ Present(role[call[c].role])
  BY DEF CommitAccount, IInv, history
<1>2. call[c].person \in Guards \cup Employees /\ call[c].role \in Roles
  BY <1>1, FormedFields DEF CommitAccount, IInv, TypeOK, CallsSound, Sound
<1> DEFINE row == [status |-> "KEPT", roles |-> {call[c].role}]
<1>3. row \in UserRow /\ row.roles = {call[c].role}
  BY <1>2 DEF UserRow
<1>4. row # Unused
  BY <1>3 DEF UserRow, Unused
<1>5. user' = [user EXCEPT ![u] = row]
  BY DEF CommitAccount
<1> HIDE DEF row
<1>6. user' \in [Users -> Absent \cup UserRow] /\ user'[u] # Unused /\ user'[u] = row
  BY <1>1, <1>3, <1>4, <1>5 DEF TypeOK
<1>7. \A v \in Users : (user[v] # Unused \/ v # u) => user'[v] = user[v]
  BY <1>1, <1>5 DEF TypeOK
<1>8. /\ guard' \in [Guards -> Absent \cup GuardRow]
      /\ employee' \in [Employees -> Absent \cup EmployeeRow]
      /\ \A e \in Employees : Present(employee[e]) => Present(employee'[e])
      /\ \A v \in Users : user[v] # Unused => Steady(v)
      /\ LinksUnique'
  BY <1>1, <1>2, <1>6, <1>7, LinkStep
<1>9. call' \in [Callers -> Call] /\ CallsSound'
  BY <1>1, <1>8, IdleSound, NothingMoves, CallsHeld, CallerMoves, Alone DEF Return
<1>10. TypeOK' /\ PostingsReferToRecords' /\ GrantsReferToRoles'
  <2>1. PostingsReferToRecords'
    BY <1>1, <1>8, PostingFields DEF IInv, PostingsReferToRecords, Referable
  <2>2. GrantsReferToRoles'
    BY <1>1, <1>3, <1>6, <1>7 DEF IInv, GrantsReferToRoles
  <2> QED BY <2>1, <2>2, <1>1, <1>6, <1>8, <1>9 DEF TypeOK
<1> QED BY <1>8, <1>9, <1>10 DEF IInv

LEMMA AccountSteps ==
  ASSUME IInv, NEW c \in Callers, Accounts(c)
  PROVE  IInv'
BY BeginAccountStep, CommitAccountStep, CallEnds DEF Accounts, AbortAccount
-----------------------------------------------------------------------------
(* The employee record behind a service number or a guard.                   *)

\* What Found makes of a request.
FoundAs(k, e) ==
  LET j == [Forgotten(k) EXCEPT !.sn = None] IN
  CASE j.goal = "promote"  -> [j EXCEPT !.op = "check", !.found = e]
    [] j.goal = "subject"  -> [j EXCEPT !.op = "superior", !.subject = e]
    [] j.goal = "superior" -> [j EXCEPT !.op = "insert", !.found = e]
    [] j.goal = "update"   -> [j EXCEPT !.op = "update", !.found = e]

Goals == {"promote", "subject", "superior", "update"}

\* A call with another value in a field.
LEMMA CallWith ==
  /\ \A k \in Call : \A x \in {"idle", "account", "role", "held", "grant", "place", "lookup",
                              "resolve", "create", "fallback", "superior", "check", "insert", "update"} :
       [k EXCEPT !.op = x] \in Call
  /\ \A k \in Call : \A x \in {"promote", "subject", "superior", "update", None} :
       [k EXCEPT !.goal = x] \in Call
  /\ \A k \in Call : \A x \in Guards \cup Employees \cup {None} : [k EXCEPT !.person = x] \in Call
  /\ \A k \in Call : \A x \in ServiceNumbers \cup {None} : [k EXCEPT !.sn = x] \in Call
  /\ \A k \in Call : \A x \in Users \cup {None} : [k EXCEPT !.owner = x] \in Call
  /\ \A k \in Call : \A x \in Cards \cup {None} : [k EXCEPT !.card = x] \in Call
  /\ \A k \in Call : \A x \in Roles \cup {None} : [k EXCEPT !.role = x] \in Call
  /\ \A k \in Call : \A x \in Employees \cup {None} : [k EXCEPT !.subject = x] \in Call
  /\ \A k \in Call : \A x \in Employees \cup {None} : [k EXCEPT !.found = x] \in Call
BY DEF Call

\* What is forgotten of a request leaves the rest as it was.
LEMMA ForgottenCall ==
  ASSUME NEW k \in Call
  PROVE  /\ Forgotten(k) \in Call
         /\ Forgotten(k).person = None /\ Forgotten(k).owner = None
         /\ Forgotten(k).op = k.op /\ Forgotten(k).goal = k.goal /\ Forgotten(k).sn = k.sn
         /\ Forgotten(k).user = k.user /\ Forgotten(k).role = k.role
         /\ Forgotten(k).loc = k.loc /\ Forgotten(k).subject = k.subject
         /\ Forgotten(k).found = k.found /\ Forgotten(k).row = k.row
<1> DEFINE h == [k EXCEPT !.person = None]
           i == [h EXCEPT !.owner = None]
           j == [i EXCEPT !.card = None]
<1>1. h \in Call
  BY CallWith
<1>2. i \in Call
  BY <1>1, CallWith
<1>3. j \in Call
  BY <1>2, CallWith
<1>4. j = Forgotten(k)
  BY DEF Forgotten
<1> QED BY <1>3, <1>4 DEF Call, Forgotten

LEMMA FoundProceeds ==
  ASSUME NEW c \in Callers, NEW e \in Employees, Found(c, e), call[c] \in Call,
         call[c].goal \in Goals
  PROVE  Proceed(c, FoundAs(call[c], e))
<1> DEFINE j == [Forgotten(call[c]) EXCEPT !.sn = None]
<1>1. j.goal = call[c].goal
  BY ForgottenCall DEF Call
<1> QED BY <1>1 DEF Found, FoundAs, Goals

\* Whoever has found the employee creates none, and is past the role only if it
\* was when it looked.
LEMMA FoundSound ==
  ASSUME NEW k \in Call, NEW e \in Employees, k.op \in {"fallback", "resolve", "create"},
         NEW gs, NEW es, NEW us, NEW rs, NEW rn, NEW rc, Formed(k), Promoted(k, us, rs)
  PROVE  /\ FoundAs(k, e) \in Call
         /\ Sound(FoundAs(k, e), gs, es, us, rs, rn, rc)
         /\ ~Creates(FoundAs(k, e))
<1>1. k.goal \in Goals
  BY DEF Formed, Call, Goals
<1>2. PICK i \in Call : i = [Forgotten(k) EXCEPT !.sn = None]
  BY ForgottenCall, CallWith
<1>3. /\ i.op = k.op /\ i.goal = k.goal /\ i.user = k.user /\ i.role = k.role
      /\ i.loc = k.loc /\ i.subject = k.subject /\ i.row = k.row
  BY <1>2, ForgottenCall DEF Call
<1>4. CASE k.goal = "promote"
  <2> DEFINE j == [i EXCEPT !.op = "check", !.found = e]
  <2>1. FoundAs(k, e) = j
    BY <1>2, <1>3, <1>4 DEF FoundAs
  <2>2. j \in Call /\ j.op = "check" /\ j.found = e /\ j.goal = k.goal /\ j.loc = k.loc
          /\ j.role = k.role /\ j.user = k.user
    <3>1. j \in Call
      BY CallWith
    <3> QED BY <3>1, <1>3 DEF Call
  <2> HIDE DEF j
  <2> QED BY <1>4, <2>1, <2>2, NoneAssumption DEF Sound, Formed, Promoted, Owned, Creates, PastRole
<1>5. CASE k.goal = "subject"
  <2> DEFINE j == [i EXCEPT !.op = "superior", !.subject = e]
  <2>1. FoundAs(k, e) = j
    BY <1>2, <1>3, <1>5 DEF FoundAs
  <2>2. j \in Call /\ j.op = "superior" /\ j.subject = e /\ j.goal = k.goal /\ j.loc = k.loc
    <3>1. j \in Call
      BY CallWith
    <3> QED BY <3>1, <1>3 DEF Call
  <2> HIDE DEF j
  <2> QED BY <1>5, <2>1, <2>2, NoneAssumption DEF Sound, Formed, Promoted, Owned, Creates, PastRole
<1>6. CASE k.goal = "superior"
  <2> DEFINE j == [i EXCEPT !.op = "insert", !.found = e]
  <2>1. FoundAs(k, e) = j
    BY <1>2, <1>3, <1>6 DEF FoundAs
  <2>2. j \in Call /\ j.op = "insert" /\ j.found = e /\ j.goal = k.goal /\ j.loc = k.loc
          /\ j.subject = k.subject
    <3>1. j \in Call
      BY CallWith
    <3> QED BY <3>1, <1>3 DEF Call
  <2> HIDE DEF j
  <2> QED BY <1>6, <2>1, <2>2, NoneAssumption DEF Sound, Formed, Promoted, Owned, Creates, PastRole
<1>7. CASE k.goal = "update"
  <2> DEFINE j == [i EXCEPT !.op = "update", !.found = e]
  <2>1. FoundAs(k, e) = j
    BY <1>2, <1>3, <1>7 DEF FoundAs
  <2>2. j \in Call /\ j.op = "update" /\ j.found = e /\ j.goal = k.goal /\ j.row = k.row
    <3>1. j \in Call
      BY CallWith
    <3> QED BY <3>1, <1>3 DEF Call
  <2> HIDE DEF j
  <2> QED BY <1>7, <2>1, <2>2, NoneAssumption DEF Sound, Formed, Promoted, Owned, Creates, PastRole
<1> QED BY <1>1, <1>4, <1>5, <1>6, <1>7 DEF Goals

\* The request of a caller, as an invariant state has it.
LEMMA HeldCall ==
  ASSUME IInv, NEW c \in Callers
  PROVE  /\ call[c] \in Call
         /\ Sound(call[c], guard, employee, user, role, renumbered, recarded)
         /\ Formed(call[c]) /\ Promoted(call[c], user, role) /\ Owned(call[c], guard, employee, user, renumbered, recarded)
BY DEF IInv, TypeOK, CallsSound, Sound

LEMMA FoundStep ==
  ASSUME IInv, NEW c \in Callers, NEW e \in Employees, UNCHANGED tables,
         call[c].op \in {"fallback", "resolve"}, Found(c, e)
  PROVE  IInv'
<1> PICK k \in Call : k = call[c]
  BY HeldCall
<1>1. k.goal \in Goals
  BY HeldCall DEF Formed, Call, Goals
<1>2. Proceed(c, FoundAs(k, e))
  BY <1>1, HeldCall, FoundProceeds
<1>3. FoundAs(k, e) \in Call /\ Sound(FoundAs(k, e), guard, employee, user, role, renumbered, recarded) /\ ~Creates(FoundAs(k, e))
  BY HeldCall, FoundSound
<1> QED BY <1>2, <1>3, CallMoves

\* A change of operation alone, of a promotion.
LEMMA Redirected ==
  ASSUME IInv, NEW c \in Callers, UNCHANGED tables, NEW o \in {"place", "grant", "resolve"},
         NEW k \in Call, k = call[c], Proceed(c, [k EXCEPT !.op = o]),
         k.op \in {"role", "held", "place"},
         o = "grant" => k.op = "held",
         o = "place" => k.role = None \/ Holds(k.user, k.role),
         o = "resolve" => k.op = "place" /\ k.person \in Guards
  PROVE  IInv'
<1> DEFINE j == [k EXCEPT !.op = o]
<1>1. j \in Call /\ j.op = o /\ j.goal = k.goal /\ j.person = k.person /\ j.user = k.user
        /\ j.sn = k.sn /\ j.loc = k.loc /\ j.subject = k.subject /\ j.row = k.row /\ j.role = k.role
  <2>1. j \in Call
    BY CallWith
  <2> QED BY <2>1 DEF Call
<1>2. Proceed(c, j)
  OBVIOUS
<1> HIDE DEF j
<1>3. Formed(k) /\ Promoted(k, user, role)
  BY HeldCall
<1>4. Formed(j) /\ ~Creates(j)
  BY <1>1, <1>3, NoneAssumption DEF Formed, Creates, Call
<1>5. Promoted(j, user, role)
  BY <1>1, <1>3 DEF Promoted, PastRole, Holds
<1> QED BY <1>1, <1>2, <1>4, <1>5, CallMoves DEF Sound, Owned

LEMMA UnresolvedStep ==
  ASSUME IInv, NEW c \in Callers, UNCHANGED tables, Unresolved(c),
         call[c].op \in {"lookup", "resolve", "create"}
  PROVE  IInv'
<1>1. CASE call[c].goal = "promote"
  BY <1>1, CallEnds DEF Unresolved
<1>2. CASE call[c].goal # "promote"
  <2> PICK k \in Call : k = call[c]
    BY HeldCall
  <2> PICK i \in Call : i = Forgotten(k)
    BY ForgottenCall
  <2>1. i.goal = k.goal /\ i.sn = k.sn /\ i.loc = k.loc /\ i.subject = k.subject /\ i.row = k.row
    BY ForgottenCall
  <2> DEFINE j == [i EXCEPT !.op = "fallback"]
  <2>2. j \in Call /\ j.op = "fallback" /\ j.goal = k.goal /\ j.sn = k.sn /\ j.loc = k.loc
          /\ j.subject = k.subject /\ j.row = k.row
    <3>1. j \in Call
      BY CallWith
    <3> QED BY <2>1, <3>1 DEF Call
  <2>3. Proceed(c, j)
    BY <1>2 DEF Unresolved
  <2> HIDE DEF j
  <2>4. Formed(k)
    BY HeldCall
  <2>5. Sound(j, guard, employee, user, role, renumbered, recarded) /\ ~Creates(j)
    BY <1>2, <2>2, <2>4, NoneAssumption DEF Sound, Formed, Promoted, Owned, Creates, Call
  <2> QED BY <2>2, <2>3, <2>5, CallMoves
<1> QED BY <1>1, <1>2

LEMMA LookUps ==
  ASSUME IInv, NEW c \in Callers, LookUpGuard(c) \/ LookUpEmployee(c)
  PROVE  IInv'
<1> PICK k \in Call : k = call[c]
  BY HeldCall
<1>1. UNCHANGED tables /\ Formed(k) /\ Promoted(k, user, role)
  BY HeldCall DEF LookUpGuard, LookUpEmployee
<1>2. ASSUME NEW g \in Guards, k.op = "lookup", Proceed(c, [k EXCEPT !.op = "resolve", !.person = g])
      PROVE  IInv'
  <2> DEFINE j == [k EXCEPT !.op = "resolve", !.person = g]
  <2>1. j \in Call /\ j.op = "resolve" /\ j.person = g /\ j.goal = k.goal /\ j.sn = k.sn
          /\ j.loc = k.loc /\ j.subject = k.subject /\ j.row = k.row
          /\ j.user = k.user /\ j.role = k.role
    <3>1. j \in Call
      BY CallWith
    <3> QED BY <3>1 DEF Call
  <2>2. Proceed(c, j)
    BY <1>2
  <2> HIDE DEF j
  <2>3. Formed(j) /\ ~Creates(j) /\ Promoted(j, user, role)
    BY <1>1, <1>2, <2>1, NoneAssumption DEF Formed, Creates, Promoted
  <2> QED BY <1>1, <2>1, <2>2, <2>3, CallMoves DEF Sound, Owned
<1>3. CASE LookUpGuard(c)
  BY <1>1, <1>2, <1>3, UnresolvedStep DEF LookUpGuard
<1>4. CASE LookUpEmployee(c)
  BY <1>1, <1>4, CallEnds, FoundStep DEF LookUpEmployee
<1> QED BY <1>3, <1>4

LEMMA WillCreate ==
  ASSUME NEW k \in Call, NEW u \in Users \cup {None}, NEW card \in Cards
  PROVE  [k EXCEPT !.op = "create", !.owner = u, !.card = card] \in Call
<1> DEFINE h == [k EXCEPT !.op = "create"]
           i == [h EXCEPT !.owner = u]
           j == [i EXCEPT !.card = card]
<1>1. h \in Call
  BY CallWith
<1>2. i \in Call
  BY <1>1, CallWith
<1>3. j \in Call
  BY <1>2, CallWith
<1> QED BY <1>3

\* The guard's user, if there is one, has no employee when the request decides
\* to create one, and whoever else decided so for this user holds this guard.
LEMMA DecideToCreate ==
  ASSUME IInv, NEW c \in Callers, UNCHANGED tables, NEW k \in Call, k = call[c],
         k.op = "resolve", NEW g \in Guards, g = k.person, Present(guard[g]),
         NEW u \in Users \cup {None}, u = guard[g].user, u # None => EmployeesOf(u) = {},
         NEW card \in Cards, card = guard[g].card,
         Proceed(c, [k EXCEPT !.op = "create", !.owner = u, !.card = card])
  PROVE  IInv'
<1> DEFINE j == [k EXCEPT !.op = "create", !.owner = u, !.card = card]
<1>1. j \in Call /\ Proceed(c, j)
  BY WillCreate
<1>2. j.op = "create" /\ j.owner = u /\ j.card = card /\ j.person = g /\ j.goal = k.goal
        /\ j.loc = k.loc /\ j.subject = k.subject /\ j.row = k.row /\ j.user = k.user
        /\ j.sn = k.sn /\ j.role = k.role
  BY DEF Call
<1> HIDE DEF j
<1>3. Formed(k) /\ Promoted(k, user, role)
  BY HeldCall
<1>4. Formed(j)
  BY <1>2, <1>3, NoneAssumption DEF Formed
<1>5. Promoted(j, user, role)
  BY <1>2, <1>3 DEF Promoted, PastRole
<1>6. Owned(j, guard, employee, user, renumbered, recarded)
  BY <1>2 DEF IInv, LinksUnique, Owned, Creates, EmployeesOf, Same
<1>7. \A d \in Callers : SameGuard(j, call[d], renumbered, recarded)
  <2> SUFFICES ASSUME NEW d \in Callers, Creates(j), Creates(call[d]), u = call[d].owner
               PROVE  g = call[d].person /\ Same(u, card, call[d].card, renumbered, recarded)
    BY <1>2 DEF SameGuard
  <2>1. Owned(call[d], guard, employee, user, renumbered, recarded)
    BY HeldCall
  <2> QED BY <2>1 DEF Owned
<1> QED BY <1>1, <1>4, <1>5, <1>6, <1>7, CallMoves DEF Sound

LEMMA ResolveStep ==
  ASSUME IInv, NEW c \in Callers, ResolveGuard(c)
  PROVE  IInv'
<1> PICK k \in Call : k = call[c]
  BY HeldCall
<1>1. UNCHANGED tables /\ Formed(k) /\ k.op = "resolve"
  BY HeldCall DEF ResolveGuard
<1>2. PICK g \in Guards : g = k.person
  BY <1>1 DEF Formed
<1>3. CASE ~Present(guard[g])
  BY <1>1, <1>2, <1>3, UnresolvedStep DEF ResolveGuard
<1>4. CASE Present(guard[g]) /\ guard[g].user # None /\ EmployeesOf(guard[g].user) # {}
  BY <1>1, <1>2, <1>4, FoundStep DEF ResolveGuard, EmployeesOf
<1>5. CASE Present(guard[g]) /\ ~(guard[g].user # None /\ EmployeesOf(guard[g].user) # {})
  <2>1. guard[g].user \in Users \cup {None} /\ guard[g].card \in Cards
    BY <1>5, PresentRows DEF IInv, GuardRow
  <2>2. Proceed(c, [k EXCEPT !.op = "create", !.owner = guard[g].user, !.card = guard[g].card])
    BY <1>2, <1>5 DEF ResolveGuard
  <2> QED BY <1>1, <1>2, <1>5, <2>1, <2>2, DecideToCreate
<1> QED BY <1>3, <1>4, <1>5

LEMMA CreateStep ==
  ASSUME IInv, NEW c \in Callers, NEW e \in Employees, CreateEmployee(c, e)
  PROVE  IInv'
<1> PICK k \in Call : k = call[c]
  BY HeldCall
<1>1. /\ UNCHANGED <<guard, user, role, site, posting, renumbered, recarded>>
      /\ TypeOK /\ LinksUnique
      /\ employee[e] = Unused /\ Found(c, e) /\ k.op = "create"
      /\ Insertable(k.card)
  BY DEF CreateEmployee, CanCreate, IInv, history
<1>2. /\ Formed(k) /\ Promoted(k, user, role)
      /\ Owned(k, guard, employee, user, renumbered, recarded)
      /\ k.goal \in Goals /\ k.person \in Guards /\ k.card \in Cards
  BY <1>1, HeldCall, FormedFields DEF Formed, Goals, Call
<1> DEFINE row == [status |-> "KEPT", card |-> k.card, user |-> k.owner]
<1>3. row \in EmployeeRow /\ row.user = k.owner /\ row.card = k.card
  BY <1>1, <1>2 DEF EmployeeRow, Call
<1>4. employee' = [employee EXCEPT ![e] = row]
  BY DEF CreateEmployee
<1> HIDE DEF row
\* The unique columns: the user has no employee yet.
<1>5. \A f \in Employees : Present(employee[f]) /\ k.owner # None /\ employee[f].user = k.owner
        => Reissued(k.owner)
  <2> SUFFICES ASSUME NEW f \in Employees, Present(employee[f]), k.owner # None,
                      employee[f].user = k.owner
               PROVE  Reissued(k.owner)
    OBVIOUS
  <2>1. Same(k.owner, employee[f].card, k.card, renumbered, recarded)
    BY <1>1, <1>2 DEF Owned, Creates
  <2>2. employee[f].card.sn # k.card.sn /\ employee[f].card.cnic # k.card.cnic
    <3>1. DOMAIN employee = Employees /\ f # None
      BY <1>1, NoneAssumption DEF TypeOK
    <3> QED BY <1>1, <3>1 DEF Insertable, Distinct
  <2> QED BY <2>1, <2>2 DEF Same, Reissued
<1>6. /\ employee' \in [Employees -> Absent \cup EmployeeRow]
      /\ \A f \in Employees : Present(employee[f]) => employee'[f] = employee[f]
      /\ \A f \in Employees : f # e => employee'[f] = employee[f]
      /\ employee'[e] = row
  BY <1>1, <1>3, <1>4, AbsentRows DEF TypeOK
<1>7. \A d \in Callers : Sound(call[d], guard', employee', user', role', renumbered', recarded')
  <2> SUFFICES ASSUME NEW d \in Callers
               PROVE  Sound(call[d], guard', employee', user', role', renumbered', recarded')
    OBVIOUS
  <2>1. /\ Sound(call[d], guard, employee, user, role, renumbered, recarded)
        /\ SameGuard(k, call[d], renumbered, recarded)
    BY HeldCall DEF IInv, CallsSound
  <2> QED BY <1>1, <1>3, <1>6, <2>1 DEF Sound, Owned, SameGuard, Creates
<1>8. call' \in [Callers -> Call] /\ CallsSound'
  <2>1. Proceed(c, FoundAs(k, e))
    BY <1>1, <1>2, HeldCall, FoundProceeds
  <2>2. /\ FoundAs(k, e) \in Call /\ ~Creates(FoundAs(k, e))
        /\ Sound(FoundAs(k, e), guard', employee', user', role', renumbered', recarded')
    BY <1>1, <1>2, FoundSound
  <2> QED BY <1>1, <1>7, <2>1, <2>2, NothingMoves, CallerMoves, Alone
<1>9. LinksUnique'
  BY <1>1, <1>2, <1>3, <1>5, <1>6 DEF LinksUnique, Owned, Creates, Reissued
<1>10. TypeOK' /\ PostingsReferToRecords' /\ GrantsReferToRoles'
  <2>1. PostingsReferToRecords'
    BY <1>1, <1>6, PostingFields DEF IInv, PostingsReferToRecords, Referable
  <2> QED BY <2>1, <1>1, <1>6, <1>8, GrantsStay DEF TypeOK
<1> QED BY <1>8, <1>9, <1>10 DEF IInv
-----------------------------------------------------------------------------
(* Promotions.                                                               *)

\* A promotion starts with the account its person has.
LEMMA BeginPromoteStep ==
  ASSUME IInv, NEW c \in Callers, NEW x \in Guards \cup Employees, NEW l \in Locations,
         BeginPromote(c, x, l)
  PROVE  IInv'
<1>1. UNCHANGED tables
  BY DEF BeginPromote
<1>2. PICK u : /\ Proceed(c, [Idle EXCEPT !.op = "role", !.goal = "promote", !.person = x,
                                          !.user = u, !.loc = l])
               /\ \/ x \in Guards /\ Present(guard[x]) /\ u = guard[x].user
                  \/ x \in Employees /\ Present(employee[x]) /\ u = employee[x].user
  BY DEF BeginPromote
<1>3. u \in Users \cup {None} /\ (u # None => user[u] # Unused)
  BY <1>2, PresentRows DEF IInv, LinksUnique, GuardRow, EmployeeRow
<1> DEFINE j == [Idle EXCEPT !.op = "role", !.goal = "promote", !.person = x, !.user = u, !.loc = l]
<1>4. j \in Call /\ j.op = "role" /\ j.goal = "promote" /\ j.person = x /\ j.user = u /\ j.loc = l
        /\ j.role = None
  BY <1>3 DEF Idle, Call
<1>5. Proceed(c, j)
  BY <1>2
<1> HIDE DEF j
<1>6. Sound(j, guard, employee, user, role, renumbered, recarded) /\ ~Creates(j)
  BY <1>3, <1>4, NoneAssumption DEF Sound, Formed, Promoted, Owned, Creates, PastRole
<1> QED BY <1>1, <1>4, <1>5, <1>6, CallMoves

LEMMA FindRoleStep ==
  ASSUME IInv, NEW c \in Callers, FindRole(c)
  PROVE  IInv'
<1> PICK k \in Call : k = call[c]
  BY HeldCall
<1>1. UNCHANGED tables /\ k.op = "role" /\ Formed(k) /\ Promoted(k, user, role)
  BY HeldCall DEF FindRole
<1>2. CASE Proceed(c, [k EXCEPT !.op = "place"])
  BY <1>1, <1>2, Redirected DEF Formed
<1>3. ASSUME NEW q \in Roles, k.user # None, Present(role[q]),
             Proceed(c, [k EXCEPT !.op = "held", !.role = q])
      PROVE  IInv'
  <2> DEFINE j == [k EXCEPT !.op = "held", !.role = q]
  <2>1. j \in Call /\ j.op = "held" /\ j.role = q /\ j.goal = k.goal /\ j.person = k.person
          /\ j.user = k.user /\ j.loc = k.loc
    <3>1. j \in Call
      BY CallWith
    <3> QED BY <3>1 DEF Call
  <2>2. Proceed(c, j)
    BY <1>3
  <2> HIDE DEF j
  <2>3. role[q] # Unused
    BY <1>3, AbsentRows
  <2>4. Sound(j, guard, employee, user, role, renumbered, recarded) /\ ~Creates(j)
    BY <1>1, <1>3, <2>1, <2>3, NoneAssumption DEF Sound, Formed, Promoted, Owned, Creates, PastRole
  <2> QED BY <1>1, <2>1, <2>2, <2>4, CallMoves
<1> QED BY <1>2, <1>3 DEF FindRole

LEMMA ReadRoleStep ==
  ASSUME IInv, NEW c \in Callers, ReadRole(c)
  PROVE  IInv'
<1> PICK k \in Call : k = call[c]
  BY HeldCall
<1>1. UNCHANGED tables /\ k.op = "held"
  BY DEF ReadRole
<1>2. CASE Holds(k.user, k.role)
  <2>1. Proceed(c, [k EXCEPT !.op = "place"])
    BY <1>2 DEF ReadRole
  <2> QED BY <1>1, <1>2, <2>1, Redirected
<1>3. CASE ~Holds(k.user, k.role)
  <2>1. Proceed(c, [k EXCEPT !.op = "grant"])
    BY <1>3 DEF ReadRole
  <2> QED BY <1>1, <1>3, <2>1, Redirected
<1> QED BY <1>2, <1>3

LEMMA GrantStep ==
  ASSUME IInv, NEW c \in Callers, GrantRole(c)
  PROVE  IInv'
<1> PICK k \in Call : k = call[c]
  BY HeldCall
<1>1. /\ UNCHANGED <<guard, employee, role, site, posting, renumbered, recarded>> /\ TypeOK
      /\ k.op = "grant" /\ k.user \in Users /\ k.role \in Roles
      /\ Formed(k) /\ Promoted(k, user, role)
  BY HeldCall, FormedFields DEF GrantRole, Formed, IInv, history
<1>2. CASE ~(Present(user[k.user]) /\ Present(role[k.role]) /\ ~Holds(k.user, k.role))
  <2>1. Return(c) /\ UNCHANGED tables
    BY <1>1, <1>2 DEF GrantRole, tables, history
  <2> QED BY <2>1, CallEnds
<1>3. CASE Present(user[k.user]) /\ Present(role[k.role]) /\ ~Holds(k.user, k.role)
  <2> PICK u \in Users : u = k.user
    BY <1>1
  <2> PICK q \in Roles : q = k.role
    BY <1>1
  <2> PICK old \in UserRow : old = user[u]
    BY <1>1, <1>3, PresentRows
  <2> DEFINE row == [old EXCEPT !.roles = old.roles \cup {q}]
             j == [k EXCEPT !.op = "place"]
  <2>2. row \in UserRow /\ row.roles = old.roles \cup {q}
    BY DEF UserRow
  <2>3. row # Unused
    BY <2>2 DEF UserRow, Unused
  <2>4. user' = [user EXCEPT ![u] = row] /\ Proceed(c, j)
    BY <1>3 DEF GrantRole
  <2>5. j \in Call /\ j.op = "place" /\ j.goal = k.goal /\ j.person = k.person /\ j.user = u
          /\ j.role = q /\ j.loc = k.loc
    BY DEF Call
  <2> HIDE DEF row, j
  <2>6. user' \in [Users -> Absent \cup UserRow] /\ user'[u] = row
    BY <1>1, <2>2, <2>4 DEF TypeOK
  <2>7. \A v \in Users : v # u => user'[v] = user[v]
    BY <1>1, <2>4 DEF TypeOK
  <2>8. \A v \in Users : Steady(v)
    BY <1>1, <1>3, <2>2, <2>3, <2>6, <2>7 DEF Steady, Same
  <2>9. Sound(j, guard', employee', user', role', renumbered', recarded') /\ ~Creates(j)
    <3>1. Formed(j) /\ ~Creates(j)
      BY <1>1, <2>5, NoneAssumption DEF Formed, Creates
    <3>2. user'[j.user] # Unused /\ j.role \in user'[j.user].roles
      BY <2>2, <2>3, <2>5, <2>6
    <3>3. role'[j.role] # Unused
      BY <1>1, <1>3, <2>5 DEF Present, Absent
    <3>4. Promoted(j, user', role')
      BY <2>5, <3>2, <3>3, NoneAssumption DEF Promoted
    <3> QED BY <3>1, <3>4 DEF Sound, Owned
  <2>10. call' \in [Callers -> Call] /\ CallsSound'
    <3>1. Growing
      BY <1>1, NothingMoves
    <3>2. \A d \in Callers :
            Sound(call[d], guard', employee', user', role', renumbered', recarded')
      BY <2>8, <3>1, CallsHeld
    <3>3. \A d \in Callers : /\ SameGuard(j, call[d], renumbered', recarded')
                             /\ SameGuard(call[d], j, renumbered', recarded')
      BY <2>9, Alone
    <3> QED BY <2>4, <2>5, <2>9, <3>1, <3>2, <3>3, CallerMoves
  <2>11. TablesOK' /\ TypeOK'
    BY <1>1, <2>6, <2>10 DEF TablesOK, TypeOK
  <2>12. PostingsReferToRecords'
    BY <1>1 DEF IInv, PostingsReferToRecords, Referable
  <2>13. GrantsReferToRoles'
    BY <1>1, <1>3, <2>2, <2>6, <2>7 DEF IInv, GrantsReferToRoles
  <2> QED BY <1>1, <2>8, <2>10, <2>11, <2>12, <2>13, NothingMoves, LinksStay DEF IInv
<1> QED BY <1>2, <1>3

LEMMA CheckPlaceStep ==
  ASSUME IInv, NEW c \in Callers, CheckPlace(c)
  PROVE  IInv'
<1> PICK k \in Call : k = call[c]
  BY HeldCall
<1>1. /\ UNCHANGED tables /\ k.op = "place" /\ k.goal = "promote" /\ k.loc \in Locations
      /\ Formed(k) /\ Promoted(k, user, role) /\ k.person \in Guards \cup Employees
  BY HeldCall, FormedFields DEF CheckPlace, Formed
<1>2. CASE k.loc \notin site
  BY <1>1, <1>2, CallEnds DEF CheckPlace
<1>3. CASE k.loc \in site /\ k.person \in Guards
  <2>1. Proceed(c, [k EXCEPT !.op = "resolve"])
    BY <1>3 DEF CheckPlace
  <2> QED BY <1>1, <1>3, <2>1, Redirected
<1>4. CASE k.loc \in site /\ k.person \notin Guards
  <2> PICK e \in Employees : e = k.person
    BY <1>1, <1>4
  <2> PICK i \in Call : i = Forgotten(k)
    BY ForgottenCall
  <2> DEFINE j == [i EXCEPT !.op = "check", !.found = e]
  <2>1. j \in Call /\ j.op = "check" /\ j.found = e /\ j.goal = k.goal /\ j.loc = k.loc
          /\ j.role = k.role /\ j.user = k.user
    <3>1. j \in Call
      BY CallWith
    <3> QED BY <3>1, ForgottenCall DEF Call
  <2>2. Proceed(c, j)
    BY <1>4 DEF CheckPlace
  <2> HIDE DEF j
  <2>3. Sound(j, guard, employee, user, role, renumbered, recarded) /\ ~Creates(j)
    BY <1>1, <2>1, NoneAssumption DEF Sound, Formed, Promoted, Owned, Creates, PastRole
  <2> QED BY <1>1, <2>1, <2>2, <2>3, CallMoves
<1> QED BY <1>2, <1>3, <1>4

LEMMA CheckPostedStep ==
  ASSUME IInv, NEW c \in Callers, CheckPosted(c)
  PROVE  IInv'
<1> PICK k \in Call : k = call[c]
  BY HeldCall
<1>1. /\ UNCHANGED tables /\ k.op = "check" /\ k.goal = "promote"
      /\ Formed(k) /\ Promoted(k, user, role) /\ k.found \in Employees
  BY HeldCall, FormedFields DEF CheckPosted, Formed
<1>2. CASE Return(c)
  BY <1>1, <1>2, CallEnds
<1>3. CASE Proceed(c, [k EXCEPT !.op = "insert", !.subject = k.found])
  <2> DEFINE j == [k EXCEPT !.op = "insert", !.subject = k.found]
  <2>1. j \in Call /\ j.op = "insert" /\ j.found = k.found /\ j.subject = k.found
          /\ j.goal = k.goal /\ j.loc = k.loc /\ j.role = k.role /\ j.user = k.user
    <3>1. j \in Call
      BY <1>1, CallWith
    <3> QED BY <1>1, <3>1 DEF Call
  <2>2. Proceed(c, j)
    BY <1>3
  <2> HIDE DEF j
  <2>3. Sound(j, guard, employee, user, role, renumbered, recarded) /\ ~Creates(j)
    BY <1>1, <2>1, NoneAssumption DEF Sound, Formed, Promoted, Owned, Creates, PastRole
  <2> QED BY <1>1, <2>1, <2>2, <2>3, CallMoves
<1> QED BY <1>2, <1>3 DEF CheckPosted
-----------------------------------------------------------------------------
(* Postings.                                                                 *)

\* A posting is written when what it names is there.
LEMMA PostingWritten ==
  ASSUME IInv, NEW c \in Callers, Return(c),
         UNCHANGED <<guard, employee, user, role, site, renumbered, recarded>>,
         NEW r \in Postings, NEW row \in PostingRow, posting' = [posting EXCEPT ![r] = row],
         Referable(row.employee, row.supervisor, row.loc)
  PROVE  IInv'
<1>1. \A u \in Users : Steady(u)
  BY DEF Steady, Same
<1>2. call' \in [Callers -> Call] /\ CallsSound'
  BY <1>1, IdleSound, NothingMoves, CallsHeld, CallerMoves, Alone DEF Return
<1>3. TypeOK'
  BY <1>2 DEF IInv, TypeOK
<1>4. PostingsReferToRecords'
  <2>1. \A q \in Postings : posting'[q] = IF q = r THEN row ELSE posting[q]
    BY DEF IInv, TypeOK
  <2> QED BY <2>1 DEF IInv, PostingsReferToRecords, Referable
<1>5. LinksUnique'
  BY DEF IInv, LinksUnique, Reissued
<1> QED BY <1>2, <1>3, <1>4, <1>5, GrantsStay DEF IInv

LEMMA InsertSteps ==
  ASSUME IInv, NEW c \in Callers, InsertPostingFails(c) \/ \E r \in Postings : InsertPosting(c, r)
  PROVE  IInv'
<1>1. CASE InsertPostingFails(c)
  BY <1>1, CallEnds DEF InsertPostingFails
<1>2. ASSUME NEW r \in Postings, InsertPosting(c, r) PROVE IInv'
  <2> PICK k \in Call : k = call[c]
    BY HeldCall
  <2>1. /\ UNCHANGED <<guard, employee, user, role, site, renumbered, recarded>> /\ Return(c)
        /\ k.op = "insert" /\ Referable(k.subject, k.found, k.loc)
    BY <1>2 DEF InsertPosting, history
  <2>2. k.subject \in Employees /\ k.found \in Employees /\ k.loc \in Locations
    BY <2>1, HeldCall, FormedFields DEF Referable, Formed
  <2>3. PICK till \in {"OPEN", "ENDED"} : posting' = [posting EXCEPT ![r] =
          [status |-> till, employee |-> k.subject, supervisor |-> k.found, loc |-> k.loc]]
    BY <1>2 DEF InsertPosting
  <2> DEFINE row == [status |-> till, employee |-> k.subject, supervisor |-> k.found, loc |-> k.loc]
  <2>4. row \in PostingRow /\ Referable(row.employee, row.supervisor, row.loc)
    BY <2>1, <2>2 DEF PostingRow
  <2>5. posting' = [posting EXCEPT ![r] = row]
    BY <2>3
  <2> HIDE DEF row
  <2> QED BY <2>1, <2>4, <2>5, PostingWritten
<1> QED BY <1>1, <1>2

LEMMA ApplyUpdateStep ==
  ASSUME IInv, NEW c \in Callers, ApplyUpdate(c)
  PROVE  IInv'
<1> PICK k \in Call : k = call[c]
  BY HeldCall
<1>1. /\ UNCHANGED <<guard, employee, user, role, site, renumbered, recarded>>
      /\ Return(c) /\ k.op = "update" /\ TypeOK
  BY DEF ApplyUpdate, IInv, history
<1>2. PICK r \in Postings : r = k.row
  BY <1>1, HeldCall, FormedFields DEF Formed
<1>3. PICK e : e = IF k.found # None THEN k.found ELSE posting[r].supervisor
  OBVIOUS
<1>4. PICK l : l = IF k.loc # None THEN k.loc ELSE posting[r].loc
  OBVIOUS
<1>5. CASE Present(posting[r]) /\ Referable(posting[r].employee, e, l)
  <2>1. PICK till \in {posting[r].status, "ENDED"} :
          posting' = [posting EXCEPT ![r].status = till, ![r].supervisor = e, ![r].loc = l]
    BY <1>2, <1>3, <1>4, <1>5 DEF ApplyUpdate
  <2>2. posting[r] \in PostingRow
    BY <1>1, <1>5, PresentRows
  <2> PICK old \in PostingRow : old = posting[r]
    BY <2>2
  <2>3. k.found \in Employees \cup {None} /\ k.loc \in Locations \cup {None}
    BY DEF Call
  <2>4. e \in Employees /\ l \in Locations /\ till \in {"OPEN", "ENDED"}
    BY <1>3, <1>4, <2>1, <2>3 DEF PostingRow
  <2> DEFINE row == [old EXCEPT !.status = till, !.supervisor = e, !.loc = l]
  <2>5. row \in PostingRow /\ row.employee = old.employee /\ row.supervisor = e /\ row.loc = l
    BY <2>4 DEF PostingRow
  <2>6. posting' = [posting EXCEPT ![r] = row]
    BY <1>1, <2>1 DEF TypeOK
  <2> HIDE DEF row
  <2> QED BY <1>1, <1>5, <2>5, <2>6, PostingWritten
<1>6. CASE ~(Present(posting[r]) /\ Referable(posting[r].employee, e, l))
  <2>1. UNCHANGED tables
    BY <1>1, <1>2, <1>3, <1>4, <1>6 DEF ApplyUpdate, tables, history
  <2> QED BY <1>1, <2>1, CallEnds, Zenon
<1> QED BY <1>5, <1>6

LEMMA BeginAssignStep ==
  ASSUME IInv, NEW c \in Callers, NEW l \in Locations, BeginAssign(c, l)
  PROVE  IInv'
<1>1. UNCHANGED tables
  BY DEF BeginAssign
<1>2. ASSUME NEW s \in ServiceNumbers,
             Proceed(c, [Idle EXCEPT !.op = "lookup", !.goal = "subject", !.sn = s, !.loc = l])
      PROVE  IInv'
  <2> DEFINE j == [Idle EXCEPT !.op = "lookup", !.goal = "subject", !.sn = s, !.loc = l]
  <2>1. j \in Call /\ j.op = "lookup" /\ j.goal = "subject" /\ j.sn = s /\ j.loc = l
    BY DEF Idle, Call
  <2>2. Proceed(c, j)
    BY <1>2
  <2> HIDE DEF j
  <2>3. Sound(j, guard, employee, user, role, renumbered, recarded) /\ ~Creates(j)
    BY <2>1, NoneAssumption DEF Sound, Formed, Promoted, Owned, Creates, PastRole
  <2> QED BY <1>1, <2>1, <2>2, <2>3, CallMoves
<1>3. ASSUME NEW e \in Employees,
             Proceed(c, [Idle EXCEPT !.op = "superior", !.goal = "subject", !.subject = e, !.loc = l])
      PROVE  IInv'
  <2> DEFINE j == [Idle EXCEPT !.op = "superior", !.goal = "subject", !.subject = e, !.loc = l]
  <2>1. j \in Call /\ j.op = "superior" /\ j.goal = "subject" /\ j.subject = e /\ j.loc = l
    BY DEF Idle, Call
  <2>2. Proceed(c, j)
    BY <1>3
  <2> HIDE DEF j
  <2>3. Sound(j, guard, employee, user, role, renumbered, recarded) /\ ~Creates(j)
    BY <2>1, NoneAssumption DEF Sound, Formed, Promoted, Owned, Creates, PastRole
  <2> QED BY <1>1, <2>1, <2>2, <2>3, CallMoves
<1> QED BY <1>2, <1>3 DEF BeginAssign

LEMMA NameSupervisorStep ==
  ASSUME IInv, NEW c \in Callers, NameSupervisor(c)
  PROVE  IInv'
<1> PICK k \in Call : k = call[c]
  BY HeldCall
<1>1. UNCHANGED tables /\ k.op = "superior" /\ Formed(k)
  BY HeldCall DEF NameSupervisor
<1>2. ASSUME NEW s \in ServiceNumbers,
             Proceed(c, [k EXCEPT !.op = "lookup", !.goal = "superior", !.sn = s])
      PROVE  IInv'
  <2> DEFINE j == [k EXCEPT !.op = "lookup", !.goal = "superior", !.sn = s]
  <2>1. j \in Call /\ j.op = "lookup" /\ j.goal = "superior" /\ j.sn = s /\ j.loc = k.loc
          /\ j.subject = k.subject
    <3>1. j \in Call
      BY CallWith
    <3> QED BY <3>1 DEF Call
  <2>2. Proceed(c, j)
    BY <1>2
  <2> HIDE DEF j
  <2>3. Sound(j, guard, employee, user, role, renumbered, recarded) /\ ~Creates(j)
    BY <1>1, <2>1, NoneAssumption DEF Sound, Formed, Promoted, Owned, Creates, PastRole
  <2> QED BY <1>1, <2>1, <2>2, <2>3, CallMoves
<1>3. ASSUME NEW e \in Employees,
             Proceed(c, [k EXCEPT !.op = "insert", !.goal = "superior", !.found = e])
      PROVE  IInv'
  <2> DEFINE j == [k EXCEPT !.op = "insert", !.goal = "superior", !.found = e]
  <2>1. j \in Call /\ j.op = "insert" /\ j.goal = "superior" /\ j.found = e /\ j.loc = k.loc
          /\ j.subject = k.subject
    <3>1. j \in Call
      BY CallWith
    <3> QED BY <3>1 DEF Call
  <2>2. Proceed(c, j)
    BY <1>3
  <2> HIDE DEF j
  <2>3. Sound(j, guard, employee, user, role, renumbered, recarded) /\ ~Creates(j)
    BY <1>1, <2>1, NoneAssumption DEF Sound, Formed, Promoted, Owned, Creates, PastRole
  <2> QED BY <1>1, <2>1, <2>2, <2>3, CallMoves
<1> QED BY <1>1, <1>2, <1>3, CallEnds DEF NameSupervisor

LEMMA BeginUpdateStep ==
  ASSUME IInv, NEW c \in Callers, NEW r \in Postings, NEW l \in Locations \cup {None},
         BeginUpdate(c, r, l)
  PROVE  IInv'
<1>1. UNCHANGED tables
  BY DEF BeginUpdate
<1>2. ASSUME NEW s \in ServiceNumbers,
             Proceed(c, [Idle EXCEPT !.op = "lookup", !.goal = "update", !.sn = s,
                                     !.row = r, !.loc = l])
      PROVE  IInv'
  <2> DEFINE j == [Idle EXCEPT !.op = "lookup", !.goal = "update", !.sn = s, !.row = r, !.loc = l]
  <2>1. j \in Call /\ j.op = "lookup" /\ j.goal = "update" /\ j.sn = s /\ j.row = r
    BY DEF Idle, Call
  <2>2. Proceed(c, j)
    BY <1>2
  <2> HIDE DEF j
  <2>3. Sound(j, guard, employee, user, role, renumbered, recarded) /\ ~Creates(j)
    BY <2>1, NoneAssumption DEF Sound, Formed, Promoted, Owned, Creates, PastRole
  <2> QED BY <1>1, <2>1, <2>2, <2>3, CallMoves
<1>3. CASE Proceed(c, [Idle EXCEPT !.op = "update", !.goal = "update", !.row = r, !.loc = l])
  <2> DEFINE j == [Idle EXCEPT !.op = "update", !.goal = "update", !.row = r, !.loc = l]
  <2>1. j \in Call /\ j.op = "update" /\ j.goal = "update" /\ j.row = r
    BY DEF Idle, Call
  <2>2. Proceed(c, j)
    BY <1>3
  <2> HIDE DEF j
  <2>3. Sound(j, guard, employee, user, role, renumbered, recarded) /\ ~Creates(j)
    BY <2>1, NoneAssumption DEF Sound, Formed, Promoted, Owned, Creates, PastRole
  <2> QED BY <1>1, <2>1, <2>2, <2>3, CallMoves
<1> QED BY <1>2, <1>3 DEF BeginUpdate

LEMMA CreateFailsStep ==
  ASSUME IInv, NEW c \in Callers, CreateEmployeeFails(c)
  PROVE  IInv'
BY UnresolvedStep DEF CreateEmployeeFails

LEMMA SupervisorSteps ==
  ASSUME IInv, NEW c \in Callers, Supervisors(c)
  PROVE  IInv'
BY BeginPromoteStep, FindRoleStep, ReadRoleStep, GrantStep, CheckPlaceStep, CheckPostedStep, LookUps,
   ResolveStep, CreateFailsStep, CreateStep, BeginAssignStep, NameSupervisorStep,
   BeginUpdateStep, InsertSteps, ApplyUpdateStep
DEF Supervisors
-----------------------------------------------------------------------------
(* The theorems.                                                             *)

LEMMA InitIInv == ASSUME Init PROVE IInv
<1>1. TypeOK
  BY IdleSound DEF Init, TypeOK, Absent
<1>2. CallsSound
  BY IdleSound DEF Init, CallsSound, SameGuard
<1>3. LinksUnique /\ PostingsReferToRecords /\ GrantsReferToRoles
  BY AbsentRows DEF Init, LinksUnique, PostingsReferToRecords, GrantsReferToRoles
<1> QED BY <1>1, <1>2, <1>3 DEF IInv

LEMMA IInvStep == ASSUME IInv, [Next]_vars PROVE IInv'
<1>1. CASE UNCHANGED vars
  BY <1>1 DEF vars, history, IInv, TypeOK, CallsSound, LinksUnique, Reissued,
              PostingsReferToRecords, Referable, GrantsReferToRoles
<1> QED BY <1>1, RecordSteps, AccountSteps, SupervisorSteps DEF Next

\* The inductive invariant: what a request holds of the person it is about stays
\* true while other requests run.
THEOREM Invariant == Spec => []IInv
BY InitIInv, IInvStep, PTL DEF Spec

LEMMA AtMostOne ==
  ASSUME NEW S, \A x, y \in S : x = y
  PROVE  Cardinality(S) <= 1
<1>1. CASE S = {}
  BY <1>1, FS_EmptySet
<1>2. CASE S # {}
  <2>1. PICK x : S = {x}
    BY <1>2
  <2> QED BY <2>1, FS_Singleton
<1> QED BY <1>1, <1>2

\* Accounts serve one guard and, unless both unique columns were changed, one
\* employee record, however promotions of a guard cross, and no posting names an
\* employee or a location, and no user has a role, that is gone.
THEOREM SchemaStaysKept == Spec => []SchemaKept
<1>1. ASSUME IInv PROVE SchemaKept
  <2>1. \A u \in Users : u # None
    BY NoneAssumption
  <2>2. ASSUME NEW u \in Users, ~Reissued(u) PROVE Cardinality(EmployeesOf(u)) <= 1
    <3>1. \A e, f \in EmployeesOf(u) : e = f
      BY <1>1, <2>1, <2>2 DEF EmployeesOf, IInv, LinksUnique
    <3> QED BY <3>1, AtMostOne
  <2>3. ASSUME NEW u \in Users
        PROVE  Cardinality({g \in Guards : Present(guard[g]) /\ guard[g].user = u}) <= 1
    BY <1>1, <2>1, AtMostOne DEF IInv, LinksUnique
  <2> QED BY <1>1, <2>2, <2>3 DEF SchemaKept, UserServesOnePerson, IInv
<1> QED BY <1>1, Invariant, PTL

\* The supervisor of an open posting sees its location, whichever of the user's
\* records the filter finds, unless both unique columns were changed.
THEOREM PostingsStayVisible == Spec => []OpenPostingsVisible
<1>1. ASSUME IInv PROVE OpenPostingsVisible
  <2> SUFFICES ASSUME NEW r \in Postings, posting[r].status = "OPEN",
                      NEW u, u = employee[posting[r].supervisor].user, u # None,
                      ~Reissued(u),
                      NEW e \in EmployeesOf(u)
               PROVE  posting[r].loc \in {posting[q].loc : q \in OpenPostings(e)}
    BY DEF OpenPostingsVisible, LocationFilters
  <2>1. Present(posting[r])
    BY DEF Present, Absent, Unused, Gone
  <2>2. posting[r].supervisor \in Employees /\ Present(employee[posting[r].supervisor])
    BY <1>1, <2>1, PostingFields DEF IInv, PostingsReferToRecords, Referable
  <2>3. e = posting[r].supervisor
    BY <1>1, <2>2 DEF IInv, LinksUnique, EmployeesOf
  <2> QED BY <2>3 DEF OpenPostings
<1> QED BY <1>1, Invariant, PTL

\* A promotion that is past the role has left the person's account with the role
\* it found, as long as both are kept.
THEOREM RolesStayHeld == Spec => []PromotedHoldRole
<1>1. ASSUME IInv PROVE PromotedHoldRole
  <2> SUFFICES ASSUME NEW c \in Callers, call[c].goal = "promote",
                      call[c].op \notin {"role", "held", "grant"},
                      call[c].role # None, Present(role[call[c].role]),
                      Present(user[call[c].user])
               PROVE  Holds(call[c].user, call[c].role)
    BY DEF PromotedHoldRole
  <2>1. call[c] \in Call /\ Formed(call[c]) /\ Promoted(call[c], user, role)
    BY <1>1, HeldCall
  <2>2. call[c].op \in PastRole
    BY <2>1, NoneAssumption DEF Call, Formed, PastRole
  <2> QED BY <2>1, <2>2 DEF Promoted, Holds
<1> QED BY <1>1, Invariant, PTL
=============================================================================
