-------------------------------- MODULE Payroll --------------------------------
(***************************************************************************)
(* Attendance, the locks that close a period of a location, allowances,    *)
(* deductions, and the salaries computed from them.  Source:               *)
(* src/src/attendance/attendance.service.ts,                               *)
(* src/src/payroll/payroll.service.ts, src/src/accounts/accounts.service.ts*)
(*                                                                         *)
(* Nothing here is a transaction.  Recording attendance, locking a period  *)
(* and locking it for good read first and write in a later statement: a    *)
(* request in between is a row of `call'.  The entries of one batch are    *)
(* recorded side by side, so that each of them is a request of its own.    *)
(* Deployments are those of one payroll run and do not change; a location  *)
(* stands for its post.  Days are consecutive numbers and Today is the     *)
(* last of them.                                                           *)
(***************************************************************************)
EXTENDS Integers, FiniteSets, FiniteSetsExt

CONSTANTS Guards, Locations, Offices,
          Entries,     \* identities of attendance records
          Locks,       \* identities of LocationPayRollDuration rows
          Allowances,  \* identities of GuardAllowances rows
          Deductions,  \* identities of GuardDeductions rows
          Today,       \* the days are 1 .. Today
          Rosters,     \* what deployments a guard may have
          Salary,      \* salaryPerMonth of the post of each location
          Extras,      \* what the counts of an allowance may amount to
          Amounts,     \* the amounts of a deduction
          EnforcePresentOnly,  \* ENFORCE_PRESENT_ONLY_OVERTIME
          Callers,     \* the requests the server works on at the same time
          None         \* null

Days == 1 .. Today

ASSUME TodayAssumption == Today \in Nat
AssignedRow == [loc : Locations, from : Days, till : Days \cup {None}]

ASSUME RostersAssumption == Rosters \subseteq SUBSET AssignedRow
ASSUME SalaryAssumption == Salary \in [Locations -> Nat]
ASSUME AmountsAssumption == Extras \subseteq Int /\ Amounts \subseteq Int
ASSUME FiniteAssumption ==
  /\ IsFiniteSet(Callers) /\ IsFiniteSet(Entries) /\ IsFiniteSet(Locks)
  /\ IsFiniteSet(Deductions) /\ IsFiniteSet(Extras)
ASSUME EnforceAssumption == EnforcePresentOnly \in BOOLEAN
ASSUME NoneAssumption == None \notin Int

VARIABLES
  assigned,    \* the deployments of each guard
  office,      \* officeId of each guard
  attendance,  \* the GuardsAttendance table
  lock,        \* the LocationPayRollDuration table
  allowance,   \* the GuardAllowances table
  deduction,   \* the GuardDeductions table
  call         \* what each request in progress has read

vars == <<assigned, office, attendance, lock, allowance, deduction, call>>
tables == <<assigned, office, attendance, lock, allowance, deduction>>

Unused == [status |-> "NONE"]
Gone == [status |-> "GONE"]
Absent == {Unused, Gone}
Present(row) == row \notin Absent

\* "P" is paid; "A" stands for absent, relieved and on leave.
EntryRow == [status : {"KEPT"}, guard : Guards, loc : Locations, day : Days,
             type : {"P", "A"}, overtime : BOOLEAN]

\* moved: updatedAt is later than createdAt, other than by the final lock.
LockRow == [status : {"LOCKED", "FINAL"}, loc : Locations, start : Days, end : Days,
            moved : BOOLEAN]

AllowanceRow == [status : {"KEPT"}, lock : Locks, post : Locations, extra : Extras]
DeductionRow == [status : {"KEPT"}, guard : Guards, loc : Locations, amount : Amounts]

Idle == [op |-> "idle"]
Call ==
  {Idle}
  \cup [op : {"record"}, guard : Guards, loc : Locations, day : Days]
  \cup [op : {"check", "lock"}, loc : Locations, start : Days, end : Days]
  \cup [op : {"count", "final"}, lock : Locks]

\* The tables and the requests in progress stay in their ranges.
TypeOK ==
  /\ assigned \in [Guards -> Rosters]
  /\ office \in [Guards -> Offices \cup {None}]
  /\ attendance \in [Entries -> Absent \cup EntryRow]
  /\ lock \in [Locks -> Absent \cup LockRow]
  /\ allowance \in [Allowances -> Absent \cup AllowanceRow]
  /\ deduction \in [Deductions -> Absent \cup DeductionRow]
  /\ call \in [Callers -> Call]

Init ==
  /\ assigned \in [Guards -> Rosters]
  /\ office \in [Guards -> Offices \cup {None}]
  /\ attendance = [e \in Entries |-> Unused]
  /\ lock = [r \in Locks |-> Unused]
  /\ allowance = [x \in Allowances |-> Unused]
  /\ deduction = [x \in Deductions |-> Unused]
  /\ call = [c \in Callers |-> Idle]

Proceed(c, next) == call' = [call EXCEPT ![c] = next]
Return(c) == Proceed(c, Idle)

Lesser(a, b) == IF a < b THEN a ELSE b
Greater(a, b) == IF a > b THEN a ELSE b

EntriesOf(g, l, d) ==
  {e \in Entries : Present(attendance[e]) /\ attendance[e].guard = g
                   /\ attendance[e].loc = l /\ attendance[e].day = d}

\* The records of a guard from one day to another, wherever they were made.
Recorded(g, first, last) ==
  {e \in Entries : Present(attendance[e]) /\ attendance[e].guard = g
                   /\ attendance[e].day \in first .. last}
-----------------------------------------------------------------------------
(* Attendance.                                                               *)

\* Mutant of BeginRecord: an existing record is not looked for.
BeginRecordAgain(c, g, l, d) ==
  /\ call[c] = Idle
  /\ Proceed(c, [op |-> "record", guard |-> g, loc |-> l, day |-> d])
  /\ UNCHANGED tables

\* validateAttendanceEntry: no record of the guard at the location on the day.
\* The guard need not be deployed there.
BeginRecord(c, g, l, d) ==
  /\ call[c] = Idle /\ EntriesOf(g, l, d) = {}
  /\ Proceed(c, [op |-> "record", guard |-> g, loc |-> l, day |-> d])
  /\ UNCHANGED tables

CommitRecord(c, e) ==
  /\ call[c].op = "record" /\ attendance[e] = Unused
  /\ \E type \in {"P", "A"} :
       attendance' = [attendance EXCEPT ![e] =
         [status |-> "KEPT", guard |-> call[c].guard, loc |-> call[c].loc,
          day |-> call[c].day, type |-> type, overtime |-> FALSE]]
  /\ Return(c)
  /\ UNCHANGED <<assigned, office, lock, allowance, deduction>>

DeleteRecord(e) ==
  /\ Present(attendance[e])
  /\ attendance' = [attendance EXCEPT ![e] = Gone]
  /\ UNCHANGED <<assigned, office, lock, allowance, deduction, call>>

\* updateOvertimeSingle; updateOvertimeBatch does the same for each of its rows
\* on its own.  The type of a record is never rewritten: `update' hands Prisma a
\* list for the columns of one row and fails.
SetOvertime(e, overtime) ==
  /\ Present(attendance[e])
  /\ overtime /\ EnforcePresentOnly => attendance[e].type = "P"
  /\ attendance' = [attendance EXCEPT ![e].overtime = overtime]
  /\ UNCHANGED <<assigned, office, lock, allowance, deduction, call>>

\* findGuardAttendanceByLocationId: the days of type P on the page of a period,
\* its last day included.
DaysShown(g, from, to) ==
  Cardinality({e \in Recorded(g, from, to) : attendance[e].type = "P"})
-----------------------------------------------------------------------------
(* Locks.                                                                    *)

LocksOverlapping(l, first, last) ==
  {r \in Locks : Present(lock[r]) /\ lock[r].loc = l
                 /\ lock[r].start <= last /\ lock[r].end >= first}

\* Mutant of BeginLock: a period that ends where another starts is let through.
BeginLockTouching(c, l, first, last) ==
  /\ call[c] = Idle
  /\ \A r \in LocksOverlapping(l, first, last) : lock[r].start = last
  /\ Proceed(c, [op |-> "check", loc |-> l, start |-> first, end |-> last])
  /\ UNCHANGED tables

\* The dates come from the request and may be in the wrong order.
BeginLock(c, l, first, last) ==
  /\ call[c] = Idle /\ LocksOverlapping(l, first, last) = {}
  /\ Proceed(c, [op |-> "check", loc |-> l, start |-> first, end |-> last])
  /\ UNCHANGED tables

\* A guard's records of the period, wherever made, are as many as the days of
\* a deployment to the location that fall into it.
Complete(g, l, first, last) ==
  \E a \in assigned[g] :
    /\ a.loc = l
    /\ Cardinality(Recorded(g, first, last)) =
         Lesser(IF a.till = None THEN Today ELSE a.till, last) - Greater(a.from, first) + 1

GuardsAt(l) == {g \in Guards : \E a \in assigned[g] : a.loc = l}

CheckLock(c) ==
  /\ call[c].op = "check"
  /\ LET l == call[c].loc IN
       IF \A g \in GuardsAt(l) : Complete(g, l, call[c].start, call[c].end)
       THEN Proceed(c, [call[c] EXCEPT !.op = "lock"])
       ELSE Return(c)
  /\ UNCHANGED tables

CommitLock(c, r) ==
  /\ call[c].op = "lock" /\ lock[r] = Unused
  /\ lock' = [lock EXCEPT ![r] =
       [status |-> "LOCKED", loc |-> call[c].loc, start |-> call[c].start,
        end |-> call[c].end, moved |-> FALSE]]
  /\ Return(c)
  /\ UNCHANGED <<assigned, office, attendance, allowance, deduction>>

\* updateAttendanceLock writes the dates and the location it is given, whatever
\* other locks there are, and also after the final lock.
MoveLock(r, l, first, last) ==
  /\ Present(lock[r])
  /\ lock' = [lock EXCEPT ![r] = [status |-> @.status, loc |-> l, start |-> first,
                                  end |-> last, moved |-> TRUE]]
  /\ UNCHANGED <<assigned, office, attendance, allowance, deduction, call>>

\* Mutant of DeleteLock: the allowances of the period stay.
DeleteLockOnly(r) ==
  /\ Present(lock[r])
  /\ lock' = [lock EXCEPT ![r] = Gone]
  /\ UNCHANGED <<assigned, office, attendance, allowance, deduction, call>>

\* The allowances of the period go with it.
DeleteLock(r) ==
  /\ Present(lock[r])
  /\ lock' = [lock EXCEPT ![r] = Gone]
  /\ allowance' = [x \in Allowances |->
       IF Present(allowance[x]) /\ allowance[x].lock = r THEN Gone ELSE allowance[x]]
  /\ UNCHANGED <<assigned, office, attendance, deduction, call>>

BeginFinalLock(c, r) ==
  /\ call[c] = Idle /\ Present(lock[r]) /\ lock[r].status # "FINAL"
  /\ Proceed(c, [op |-> "count", lock |-> r])
  /\ UNCHANGED tables

\* "Allowances must be set first".
CountAllowances(c) ==
  /\ call[c].op = "count"
  /\ IF \E x \in Allowances : Present(allowance[x]) /\ allowance[x].lock = call[c].lock
     THEN Proceed(c, [call[c] EXCEPT !.op = "final"])
     ELSE Return(c)
  /\ UNCHANGED tables

\* The update throws when the lock was deleted since.
CommitFinalLock(c) ==
  /\ call[c].op = "final"
  /\ IF Present(lock[call[c].lock])
     THEN lock' = [lock EXCEPT ![call[c].lock].status = "FINAL"]
     ELSE UNCHANGED lock
  /\ Return(c)
  /\ UNCHANGED <<assigned, office, attendance, allowance, deduction>>
-----------------------------------------------------------------------------
(* Allowances and deductions.                                                *)

CreateAllowance(x, r, l, extra) ==
  /\ allowance[x] = Unused /\ Present(lock[r])
  /\ allowance' = [allowance EXCEPT ![x] =
       [status |-> "KEPT", lock |-> r, post |-> l, extra |-> extra]]
  /\ UNCHANGED <<assigned, office, attendance, lock, deduction, call>>

\* Any column may be given another value, the period and the post too.
UpdateAllowance(x, r, l, extra) ==
  /\ Present(allowance[x]) /\ Present(lock[r])
  /\ allowance' = [allowance EXCEPT ![x] =
       [status |-> "KEPT", lock |-> r, post |-> l, extra |-> extra]]
  /\ UNCHANGED <<assigned, office, attendance, lock, deduction, call>>

DeleteAllowance(x) ==
  /\ Present(allowance[x])
  /\ allowance' = [allowance EXCEPT ![x] = Gone]
  /\ UNCHANGED <<assigned, office, attendance, lock, deduction, call>>

\* A deduction is booked on a location the guard is deployed to; without one
\* the request fails.
CreateDeduction(x, g, amount) ==
  /\ deduction[x] = Unused
  /\ \E a \in assigned[g] :
       deduction' = [deduction EXCEPT ![x] =
         [status |-> "KEPT", guard |-> g, loc |-> a.loc, amount |-> amount]]
  /\ UNCHANGED <<assigned, office, attendance, lock, allowance, call>>

UpdateDeduction(x, g, amount) ==
  /\ Present(deduction[x])
  /\ deduction' = [deduction EXCEPT ![x].guard = g, ![x].amount = amount]
  /\ UNCHANGED <<assigned, office, attendance, lock, allowance, call>>

DeleteDeduction(x) ==
  /\ Present(deduction[x])
  /\ deduction' = [deduction EXCEPT ![x] = Gone]
  /\ UNCHANGED <<assigned, office, attendance, lock, allowance, call>>
-----------------------------------------------------------------------------
(* Guards.                                                                   *)

\* An update of a guard's file may name another office.
MoveGuard(g, f) ==
  /\ office' = [office EXCEPT ![g] = f]
  /\ UNCHANGED <<assigned, attendance, lock, allowance, deduction, call>>
-----------------------------------------------------------------------------
(* The salaries of a location's guards for [from, to): all amounts are in    *)
(* units of 1 / (to - from).  Where the code takes the first of several rows *)
(* the result is a set.                                                      *)

\* Mutant of DaysPresent: the day `to' is counted as well.
DaysPresentInclusive(g, from, to) ==
  Cardinality({e \in Recorded(g, from, to) : attendance[e].type = "P"})

\* The records of type P, at any location.
DaysPresent(g, from, to) ==
  Cardinality({e \in Recorded(g, from, to - 1) : attendance[e].type = "P"})

\* findGuardAllowanceForPayRoll: the salary of the first deployment, at any
\* location, for the days present.
NetSalary(g, from, to) == {Salary[a.loc] * DaysPresent(g, from, to) : a \in assigned[g]}

\* The allowances on that page: of the post, and of a period with these dates.
AllowancesShown(l, from, to) ==
  {x \in Allowances :
     /\ Present(allowance[x]) /\ allowance[x].post = l
     /\ lock[allowance[x].lock].start = from /\ lock[allowance[x].lock].end = to}

\* The first allowance of the post, of any period and guard.
ExtraOf(l) ==
  LET found == {x \in Allowances : Present(allowance[x]) /\ allowance[x].post = l}
  IN IF found = {} THEN {0} ELSE {allowance[x].extra : x \in found}

\* generateLocationGrossPayRoll: and what the allowances of its post amount to.
GrossSalary(g, from, to) ==
  UNION {{Salary[a.loc] * DaysPresent(g, from, to) + (to - from) * extra :
            extra \in ExtraOf(a.loc)} : a \in assigned[g]}

DeductionsOf(g, l) ==
  {x \in Deductions : Present(deduction[x]) /\ deduction[x].guard = g /\ deduction[x].loc = l}

\* getGuardsDeductions: the guard's deductions at the location, of any month.
Deducted(g, l) == MapThenSumSet(LAMBDA x : deduction[x].amount, DeductionsOf(g, l))

\* generateLocationNetPayRoll, for one guard.
NetPayable(g, l, from, to) ==
  LET deducted == (to - from) * Deducted(g, l)
  IN {gross - deducted : gross \in GrossSalary(g, from, to)}

\* The guards on the net payroll of a location for an office, or for no office:
\* all of it that were ever deployed to the location, also when the deployment
\* ended before the period.
OnPayroll(l, f) == {g \in Guards : office[g] = f /\ \E a \in assigned[g] : a.loc = l}

\* processBankTransfer (IBFT) selects the guards of the location again, whatever
\* their office,
Transferred(l) == {g \in Guards : \E a \in assigned[g] : a.loc = l}

\* Mutant of TransferAmount: the day `to' is paid as well.
TransferAmountInclusive(g, l, from, to) ==
  LET deducted == Deducted(g, l)
      present == DaysShown(g, from, to)
  IN UNION {{Salary[a.loc] * present + (to - from) * (extra - deducted) :
               extra \in ExtraOf(a.loc)} : a \in assigned[g]}

\* and computes what each of them gets again.
TransferAmount(g, l, from, to) ==
  LET deducted == Deducted(g, l)
      present == DaysPresent(g, from, to)
  IN UNION {{Salary[a.loc] * present + (to - from) * (extra - deducted) :
               extra \in ExtraOf(a.loc)} : a \in assigned[g]}
-----------------------------------------------------------------------------
Requests(c) ==
  \/ \E g \in Guards, l \in Locations, d \in Days : BeginRecord(c, g, l, d)
  \/ \E e \in Entries : CommitRecord(c, e)
  \/ \E l \in Locations, first, last \in Days : BeginLock(c, l, first, last)
  \/ CheckLock(c) \/ CountAllowances(c) \/ CommitFinalLock(c)
  \/ \E r \in Locks : CommitLock(c, r) \/ BeginFinalLock(c, r)

Next ==
  \/ \E c \in Callers : Requests(c)
  \/ \E g \in Guards, f \in Offices : MoveGuard(g, f)
  \/ \E e \in Entries : DeleteRecord(e) \/ \E overtime \in BOOLEAN : SetOvertime(e, overtime)
  \/ \E r \in Locks :
       \/ DeleteLock(r)
       \/ \E l \in Locations, first, last \in Days : MoveLock(r, l, first, last)
  \/ \E x \in Allowances :
       \/ DeleteAllowance(x)
       \/ \E r \in Locks, l \in Locations, extra \in Extras :
            CreateAllowance(x, r, l, extra) \/ UpdateAllowance(x, r, l, extra)
  \/ \E x \in Deductions :
       \/ DeleteDeduction(x)
       \/ \E g \in Guards, amount \in Amounts :
            CreateDeduction(x, g, amount) \/ UpdateDeduction(x, g, amount)

Spec == Init /\ [][Next]_vars
-----------------------------------------------------------------------------
(* Properties.                                                               *)

\* The requests that have found no record of g at l on day d and will make one.
Recording(g, l, d) ==
  {c \in Callers : call[c] = [op |-> "record", guard |-> g, loc |-> l, day |-> d]}

\* "Attendance record already exists": a guard is recorded twice on a day at
\* one location only by requests, or entries of a batch, that overlap, and by
\* no more than those: nothing in the schema forbids it.
DuplicatesOnlyByRaces ==
  \A g \in Guards, l \in Locations, d \in Days :
    Cardinality(EntriesOf(g, l, d)) + Cardinality(Recording(g, l, d)) <= Cardinality(Callers)

Covering(l, d) ==
  {r \in Locks : Present(lock[r]) /\ ~lock[r].moved /\ lock[r].loc = l
                 /\ d \in lock[r].start .. lock[r].end}

Locking(l, d) ==
  {c \in Callers : call[c].op \in {"check", "lock"} /\ call[c].loc = l
                   /\ d \in call[c].start .. call[c].end}

\* "Payroll for this month already exists for this location": apart from locks
\* whose dates were rewritten, a day is locked twice only by overlapping
\* requests.
OverlapOnlyByRaces ==
  \A l \in Locations, d \in Days :
    Cardinality(Covering(l, d)) + Cardinality(Locking(l, d)) <= Cardinality(Callers)

\* An allowance belongs to a period that exists, also when the period is
\* deleted while it is locked for good or the allowance is moved to it.
AllowancesHavePeriod ==
  \A x \in Allowances : Present(allowance[x]) => Present(lock[allowance[x].lock])

\* What the schema promises while locks are deleted under requests that have
\* found them: columns in their ranges and no allowance without its period.
SchemaKept == TypeOK /\ AllowancesHavePeriod

\* The records beyond one for each day, from several requests or locations.
DoubleRecords(g, from, to) ==
  LET found == Recorded(g, from, to - 1)
  IN Cardinality(found) - Cardinality({attendance[e].day : e \in found})

\* For a locked period nobody is to get more, before deductions, than the
\* monthly salary of their post and the most an allowance amounts to; only
\* days that were recorded twice are paid twice.
PaidWithinSalary ==
  \A r \in Locks, g \in Guards : Present(lock[r]) =>
    LET days == lock[r].end - lock[r].start
        twice == DoubleRecords(g, lock[r].start, lock[r].end)
    IN \A a \in assigned[g], l \in Locations :
         (assigned[g] = {a} /\ days > 0) =>
           LET most == Salary[a.loc] * (days + twice)
                         + days * (Max(Extras \cup {0}) - Deducted(g, l))
           IN \A payable \in NetPayable(g, l, lock[r].start, lock[r].end) : payable <= most

\* The payroll page is one for each office and one for the guards without one;
\* the list for the bank has no office.  The bank is told to pay the guards of
\* all pages together, each of whom is on one page only, and the amounts on
\* them, also after a guard has changed the office; the days paid are those the
\* attendance page shows up to the day before the last; and an allowance on the
\* allowance page is among those that may be paid.  Each handler computes this
\* from the tables on its own.
PayslipsAgree ==
  \A r \in Locks : Present(lock[r]) =>
    LET l == lock[r].loc
        from == lock[r].start
        to == lock[r].end
    IN /\ \A x \in AllowancesShown(l, from, to) : allowance[x].extra \in ExtraOf(l)
       /\ Transferred(l) = UNION {OnPayroll(l, f) : f \in Offices \cup {None}}
       /\ \A f \in Offices \cup {None} : \A g \in OnPayroll(l, f) :
            /\ \A h \in Offices \cup {None} : g \in OnPayroll(l, h) => h = f
            /\ TransferAmount(g, l, from, to) = NetPayable(g, l, from, to)
            /\ DaysPresent(g, from, to) = DaysShown(g, from, to - 1)
==============================================================================
