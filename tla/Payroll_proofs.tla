---------------------------- MODULE Payroll_proofs ----------------------------
(***************************************************************************)
(* What holds of attendance and locks for every set of guards, locations,  *)
(* days and requests.                                                      *)
(*                                                                         *)
(* A record (or a lock) and the request that has found none and will make  *)
(* one are counted together.  Every step but two lets the sum fall.  A     *)
(* request that finds nothing raises it to at most the number of requests, *)
(* and making the record moves the request from one side to the other.     *)
(*                                                                         *)
(* What guards are paid depends on the tables alone.  It is compared term  *)
(* by term once the deductions, a sum over a finite set, are known to be   *)
(* an integer.                                                             *)
(***************************************************************************)
EXTENDS Payroll, FiniteSetTheorems, TLAPS

\* No record appears or is rewritten, and no request starts to make one.
AttendanceFalls ==
  /\ \A e \in Entries : Present(attendance'[e]) =>
       /\ Present(attendance[e])
       /\ attendance'[e].guard = attendance[e].guard
       /\ attendance'[e].loc = attendance[e].loc
       /\ attendance'[e].day = attendance[e].day
  /\ \A c \in Callers : call'[c].op = "record" => call'[c] = call[c]

Closing(k) == k.op \in {"check", "lock"}

\* No lock appears, those that are rewritten are marked, and no request starts
\* to make one.
LocksFall ==
  /\ \A r \in Locks : Present(lock'[r]) /\ ~lock'[r].moved =>
       /\ Present(lock[r]) /\ ~lock[r].moved
       /\ lock'[r].loc = lock[r].loc
       /\ lock'[r].start = lock[r].start /\ lock'[r].end = lock[r].end
  /\ \A c \in Callers : Closing(call'[c]) =>
       /\ Closing(call[c]) /\ call'[c].loc = call[c].loc
       /\ call'[c].start = call[c].start /\ call'[c].end = call[c].end

IInv == TypeOK /\ AllowancesHavePeriod
-----------------------------------------------------------------------------
(* Ranges.                                                                   *)

\* A row is present exactly when it has the columns of its table.
LEMMA PresentRows ==
  ASSUME TypeOK
  PROVE  /\ \A e \in Entries : Present(attendance[e]) <=> attendance[e] \in EntryRow
         /\ \A r \in Locks : Present(lock[r]) <=> lock[r] \in LockRow
         /\ \A x \in Allowances : Present(allowance[x]) <=> allowance[x] \in AllowanceRow
         /\ \A x \in Deductions : Present(deduction[x]) <=> deduction[x] \in DeductionRow
<1>1. \A k \in EntryRow : Present(k)
  BY DEF EntryRow, Present, Absent, Unused, Gone
<1>2. \A k \in LockRow : Present(k)
  BY DEF LockRow, Present, Absent, Unused, Gone
<1>3. \A k \in AllowanceRow : Present(k)
  BY DEF AllowanceRow, Present, Absent, Unused, Gone
<1>4. \A k \in DeductionRow : Present(k)
  BY DEF DeductionRow, Present, Absent, Unused, Gone
<1> QED BY <1>1, <1>2, <1>3, <1>4 DEF TypeOK, Present

LEMMA GoneIsAbsent ==
  Gone \in Absent /\ Unused \in Absent /\ ~Present(Gone) /\ ~Present(Unused)
BY DEF Present, Absent

\* A call has the fields of its kind.
LEMMA CallShape ==
  ASSUME NEW k \in Call
  PROVE  /\ k.op = "record" => /\ k = [op |-> "record", guard |-> k.guard, loc |-> k.loc, day |-> k.day]
                               /\ k.guard \in Guards /\ k.loc \in Locations /\ k.day \in Days
         /\ Closing(k) => k.loc \in Locations /\ k.start \in Days /\ k.end \in Days
         /\ k.op = "check" => /\ [k EXCEPT !.op = "lock"] \in Call
                              /\ [k EXCEPT !.op = "lock"].op = "lock"
                              /\ [k EXCEPT !.op = "lock"].loc = k.loc
                              /\ [k EXCEPT !.op = "lock"].start = k.start
                              /\ [k EXCEPT !.op = "lock"].end = k.end
         /\ k.op = "count" => [k EXCEPT !.op = "final"] \in Call /\ [k EXCEPT !.op = "final"].op = "final"
         /\ k.op \in {"count", "final"} => k.lock \in Locks
<1>1. CASE k = Idle
  BY <1>1 DEF Idle, Closing
<1>2. CASE k \in [op : {"record"}, guard : Guards, loc : Locations, day : Days]
  BY <1>2 DEF Closing
<1>3. CASE k \in [op : {"check", "lock"}, loc : Locations, start : Days, end : Days]
  BY <1>3 DEF Closing, Call
<1>4. CASE k \in [op : {"count", "final"}, lock : Locks]
  BY <1>4 DEF Closing, Call
<1> QED BY <1>1, <1>2, <1>3, <1>4 DEF Call

LEMMA CallMembers ==
  /\ Idle \in Call /\ Idle.op = "idle"
  /\ \A g \in Guards, l \in Locations, d \in Days :
       [op |-> "record", guard |-> g, loc |-> l, day |-> d] \in Call
  /\ \A l \in Locations, first, last \in Days :
       [op |-> "check", loc |-> l, start |-> first, end |-> last] \in Call
  /\ \A r \in Locks : [op |-> "count", lock |-> r] \in Call
BY DEF Call, Idle

\* The call of one request changes, to one of the right kind.
LEMMA CallerMoves ==
  ASSUME TypeOK, NEW c \in Callers, NEW k \in Call, Proceed(c, k)
  PROVE  /\ call' \in [Callers -> Call] /\ call'[c] = k
         /\ \A b \in Callers \ {c} : call'[b] = call[b]
BY DEF Proceed, TypeOK
-----------------------------------------------------------------------------
(* Each step.                                                                *)

LEMMA TablesStay ==
  ASSUME IInv, UNCHANGED tables, call' \in [Callers -> Call]
  PROVE  IInv'
BY DEF IInv, TypeOK, tables, AllowancesHavePeriod

LEMMA StutterStep == ASSUME IInv, UNCHANGED vars PROVE IInv' /\ AttendanceFalls /\ LocksFall
<1>1. UNCHANGED tables /\ call' = call /\ call' \in [Callers -> Call]
  BY DEF vars, tables, IInv, TypeOK
<1> QED BY <1>1, TablesStay DEF AttendanceFalls, LocksFall, tables

LEMMA BeginRecordStep ==
  ASSUME IInv, NEW c \in Callers, NEW g \in Guards, NEW l \in Locations, NEW d \in Days,
         BeginRecord(c, g, l, d)
  PROVE  IInv' /\ LocksFall
<1> DEFINE k == [op |-> "record", guard |-> g, loc |-> l, day |-> d]
<1>1. k \in Call /\ Proceed(c, k) /\ UNCHANGED tables
  BY CallMembers DEF BeginRecord
<1> HIDE DEF k
<1>2. /\ call' \in [Callers -> Call] /\ call'[c] = k
      /\ \A b \in Callers \ {c} : call'[b] = call[b]
  BY <1>1, CallerMoves DEF IInv
<1>3. ~Closing(k)
  BY DEF Closing, k
<1> QED BY <1>1, <1>2, <1>3, TablesStay DEF LocksFall, tables

LEMMA CommitRecordStep ==
  ASSUME IInv, NEW c \in Callers, NEW e \in Entries, CommitRecord(c, e)
  PROVE  IInv' /\ LocksFall
<1>1. /\ call' \in [Callers -> Call] /\ call'[c] = Idle
      /\ \A b \in Callers \ {c} : call'[b] = call[b]
  BY CallMembers, CallerMoves DEF CommitRecord, Return, IInv
<1>2. call[c].guard \in Guards /\ call[c].loc \in Locations /\ call[c].day \in Days
  BY CallShape DEF CommitRecord, IInv, TypeOK
<1>3. attendance' \in [Entries -> Absent \cup EntryRow]
  BY <1>2 DEF CommitRecord, IInv, TypeOK, EntryRow
<1>4. IInv'
  BY <1>1, <1>3 DEF CommitRecord, IInv, TypeOK, AllowancesHavePeriod
<1>5. ~Closing(Idle)
  BY CallMembers DEF Closing
<1> QED BY <1>1, <1>4, <1>5 DEF LocksFall, CommitRecord

\* A step on the attendance table alone that only deletes and rewrites.
LEMMA AttendanceStep ==
  ASSUME IInv, NEW e \in Entries, DeleteRecord(e) \/ \E overtime \in BOOLEAN : SetOvertime(e, overtime)
  PROVE  IInv' /\ AttendanceFalls /\ LocksFall
<1>1. /\ UNCHANGED <<assigned, office, lock, allowance, deduction, call>> /\ Present(attendance[e])
      /\ attendance[e] \in EntryRow
  BY PresentRows DEF DeleteRecord, SetOvertime, IInv
<1>2. PICK row \in {Gone} \cup EntryRow :
        /\ attendance' = [attendance EXCEPT ![e] = row]
        /\ row = Gone \/ (row.guard = attendance[e].guard /\ row.loc = attendance[e].loc
                          /\ row.day = attendance[e].day)
  <2>1. CASE DeleteRecord(e)
    BY <2>1 DEF DeleteRecord
  <2>2. ASSUME NEW overtime \in BOOLEAN, SetOvertime(e, overtime)
        PROVE  /\ attendance' = [attendance EXCEPT ![e] = [attendance[e] EXCEPT !.overtime = overtime]]
               /\ [attendance[e] EXCEPT !.overtime = overtime] \in EntryRow
               /\ [attendance[e] EXCEPT !.overtime = overtime].guard = attendance[e].guard
               /\ [attendance[e] EXCEPT !.overtime = overtime].loc = attendance[e].loc
               /\ [attendance[e] EXCEPT !.overtime = overtime].day = attendance[e].day
    BY <1>1, <2>2 DEF SetOvertime, EntryRow
  <2> QED BY <2>1, <2>2
<1>3. attendance' \in [Entries -> Absent \cup EntryRow]
  BY <1>2, GoneIsAbsent DEF IInv, TypeOK
<1>4. IInv'
  BY <1>1, <1>3 DEF IInv, TypeOK, AllowancesHavePeriod
<1>5. AttendanceFalls
  BY <1>1, <1>2, GoneIsAbsent DEF AttendanceFalls, IInv, TypeOK
<1> QED BY <1>1, <1>4, <1>5 DEF LocksFall

LEMMA BeginLockStep ==
  ASSUME IInv, NEW c \in Callers, NEW l \in Locations, NEW first \in Days, NEW last \in Days,
         BeginLock(c, l, first, last)
  PROVE  IInv' /\ AttendanceFalls
<1> DEFINE k == [op |-> "check", loc |-> l, start |-> first, end |-> last]
<1>1. k \in Call /\ Proceed(c, k) /\ UNCHANGED tables
  BY CallMembers DEF BeginLock
<1>2. k.op # "record"
  OBVIOUS
<1> HIDE DEF k
<1>3. /\ call' \in [Callers -> Call] /\ call'[c] = k
      /\ \A b \in Callers \ {c} : call'[b] = call[b]
  BY <1>1, CallerMoves DEF IInv
<1> QED BY <1>1, <1>2, <1>3, TablesStay DEF AttendanceFalls, tables

LEMMA CommitLockStep ==
  ASSUME IInv, NEW c \in Callers, NEW r \in Locks, CommitLock(c, r)
  PROVE  IInv' /\ AttendanceFalls
<1>1. /\ call' \in [Callers -> Call] /\ call'[c] = Idle
      /\ \A b \in Callers \ {c} : call'[b] = call[b]
  BY CallMembers, CallerMoves DEF CommitLock, Return, IInv
<1>2. call[c].loc \in Locations /\ call[c].start \in Days /\ call[c].end \in Days
  BY CallShape DEF CommitLock, IInv, TypeOK, Closing
<1>3. PICK row \in LockRow : lock' = [lock EXCEPT ![r] = row]
  BY <1>2 DEF CommitLock, LockRow
<1>4. lock' \in [Locks -> Absent \cup LockRow] /\ \A q \in Locks : Present(lock[q]) => Present(lock'[q])
  BY <1>3, GoneIsAbsent DEF CommitLock, IInv, TypeOK
<1>5. IInv'
  BY <1>1, <1>4, PresentRows DEF CommitLock, IInv, TypeOK, AllowancesHavePeriod, AllowanceRow
<1> QED BY <1>1, <1>5, CallMembers DEF AttendanceFalls, CommitLock

\* The checks of a request that locks, and those of one that locks for good.
LEMMA CheckSteps ==
  ASSUME IInv, NEW c \in Callers,
         CheckLock(c) \/ CountAllowances(c) \/ \E r \in Locks : BeginFinalLock(c, r)
  PROVE  IInv' /\ AttendanceFalls /\ LocksFall
<1>1. UNCHANGED tables /\ call[c] \in Call
  BY DEF CheckLock, CountAllowances, BeginFinalLock, IInv, TypeOK
<1>2. PICK k \in Call :
        /\ Proceed(c, k) /\ k.op # "record"
        /\ Closing(k) => /\ Closing(call[c]) /\ k.loc = call[c].loc
                         /\ k.start = call[c].start /\ k.end = call[c].end
  <2>1. CASE CheckLock(c)
    <3>1. call[c].op = "check" /\ (Proceed(c, Idle) \/ Proceed(c, [call[c] EXCEPT !.op = "lock"]))
      BY <2>1 DEF CheckLock, Return
    <3>2. Idle.op # "record" /\ ~Closing(Idle) /\ Closing(call[c])
      BY <3>1, CallMembers DEF Closing
    <3> QED BY <1>1, <3>1, <3>2, CallShape, CallMembers
  <2>2. CASE CountAllowances(c)
    BY <1>1, <2>2, CallShape, CallMembers DEF CountAllowances, Return, Closing
  <2>3. ASSUME NEW r \in Locks, BeginFinalLock(c, r)
        PROVE  /\ [op |-> "count", lock |-> r] \in Call /\ Proceed(c, [op |-> "count", lock |-> r])
               /\ ~Closing([op |-> "count", lock |-> r])
    BY <2>3, CallMembers DEF BeginFinalLock, Closing
  <2> QED BY <2>1, <2>2, <2>3
<1>3. /\ call' \in [Callers -> Call] /\ call'[c] = k
      /\ \A b \in Callers \ {c} : call'[b] = call[b]
  BY <1>2, CallerMoves DEF IInv
<1> QED BY <1>1, <1>2, <1>3, TablesStay DEF AttendanceFalls, LocksFall, tables

LEMMA CommitFinalLockStep ==
  ASSUME IInv, NEW c \in Callers, CommitFinalLock(c)
  PROVE  IInv' /\ AttendanceFalls /\ LocksFall
<1>1. /\ call' \in [Callers -> Call] /\ call'[c] = Idle
      /\ \A b \in Callers \ {c} : call'[b] = call[b]
  BY CallMembers, CallerMoves DEF CommitFinalLock, Return, IInv
<1>2. /\ lock' \in [Locks -> Absent \cup LockRow]
      /\ \A q \in Locks : /\ Present(lock[q]) <=> Present(lock'[q])
                          /\ Present(lock'[q]) => /\ lock'[q].moved = lock[q].moved
                                                  /\ lock'[q].loc = lock[q].loc
                                                  /\ lock'[q].start = lock[q].start
                                                  /\ lock'[q].end = lock[q].end
  <2>1. CASE ~Present(lock[call[c].lock])
    BY <2>1 DEF CommitFinalLock, IInv, TypeOK
  <2>2. CASE Present(lock[call[c].lock])
    <3>1. PICK r \in Locks : r = call[c].lock
      BY CallShape DEF CommitFinalLock, IInv, TypeOK
    <3>2. lock[r] \in LockRow /\ lock' = [lock EXCEPT ![r] = [lock[r] EXCEPT !.status = "FINAL"]]
      BY <2>2, <3>1, PresentRows DEF CommitFinalLock, IInv
    <3>3. PICK row \in LockRow :
            /\ lock' = [lock EXCEPT ![r] = row]
            /\ row.moved = lock[r].moved /\ row.loc = lock[r].loc
            /\ row.start = lock[r].start /\ row.end = lock[r].end
      <4>1. /\ [lock[r] EXCEPT !.status = "FINAL"] \in LockRow
            /\ [lock[r] EXCEPT !.status = "FINAL"].moved = lock[r].moved
            /\ [lock[r] EXCEPT !.status = "FINAL"].loc = lock[r].loc
            /\ [lock[r] EXCEPT !.status = "FINAL"].start = lock[r].start
            /\ [lock[r] EXCEPT !.status = "FINAL"].end = lock[r].end
        BY <3>2 DEF LockRow
      <4> QED BY <3>2, <4>1
    <3>4. Present(row) /\ Present(lock[r])
      BY <2>2, <3>1 DEF LockRow, Present, Absent, Unused, Gone
    <3> QED BY <3>3, <3>4 DEF IInv, TypeOK
  <2> QED BY <2>1, <2>2
<1>3. IInv'
  BY <1>1, <1>2, PresentRows DEF CommitFinalLock, IInv, TypeOK, AllowancesHavePeriod, AllowanceRow
<1> QED BY <1>1, <1>2, <1>3, CallMembers DEF AttendanceFalls, LocksFall, CommitFinalLock, Closing

LEMMA MoveLockStep ==
  ASSUME IInv, NEW r \in Locks, NEW l \in Locations, NEW first \in Days, NEW last \in Days,
         MoveLock(r, l, first, last)
  PROVE  IInv' /\ AttendanceFalls /\ LocksFall
<1>1. lock[r] \in LockRow /\ Present(lock[r])
  BY PresentRows DEF MoveLock, IInv
<1>2. PICK row \in LockRow : lock' = [lock EXCEPT ![r] = row] /\ row.moved
  <2>1. lock' = [lock EXCEPT ![r] = [status |-> lock[r].status, loc |-> l, start |-> first,
                                     end |-> last, moved |-> TRUE]]
    BY DEF MoveLock
  <2>2. [status |-> lock[r].status, loc |-> l, start |-> first, end |-> last, moved |-> TRUE]
          \in LockRow
    BY <1>1 DEF LockRow
  <2> QED BY <2>1, <2>2
<1>3. lock' \in [Locks -> Absent \cup LockRow] /\ Present(row)
  BY <1>2 DEF IInv, TypeOK, LockRow, Present, Absent, Unused, Gone
<1>4. \A q \in Locks : /\ Present(lock[q]) => Present(lock'[q])
                       /\ q # r => lock'[q] = lock[q]
                       /\ lock'[r].moved
  BY <1>2, <1>3 DEF IInv, TypeOK
<1>5. IInv'
  BY <1>3, <1>4, PresentRows DEF MoveLock, IInv, TypeOK, AllowancesHavePeriod, AllowanceRow
<1> QED BY <1>4, <1>5 DEF AttendanceFalls, LocksFall, MoveLock

LEMMA DeleteLockStep ==
  ASSUME IInv, NEW r \in Locks, DeleteLock(r)
  PROVE  IInv' /\ AttendanceFalls /\ LocksFall
<1>1. /\ lock' \in [Locks -> Absent \cup LockRow]
      /\ allowance' \in [Allowances -> Absent \cup AllowanceRow]
      /\ lock'[r] = Gone /\ \A q \in Locks \ {r} : lock'[q] = lock[q]
  BY GoneIsAbsent DEF DeleteLock, IInv, TypeOK
<1>2. \A x \in Allowances : Present(allowance'[x]) =>
        allowance'[x] = allowance[x] /\ Present(allowance[x]) /\ allowance[x].lock # r
  BY GoneIsAbsent DEF DeleteLock
<1>3. AllowancesHavePeriod'
  BY <1>1, <1>2, PresentRows DEF IInv, AllowancesHavePeriod, AllowanceRow
<1>4. IInv'
  BY <1>1, <1>3 DEF DeleteLock, IInv, TypeOK
<1> QED BY <1>1, <1>4, GoneIsAbsent DEF AttendanceFalls, LocksFall, DeleteLock

LEMMA AllowanceStep ==
  ASSUME IInv, NEW x \in Allowances,
         \/ DeleteAllowance(x)
         \/ \E r \in Locks, l \in Locations, extra \in Extras :
              CreateAllowance(x, r, l, extra) \/ UpdateAllowance(x, r, l, extra)
  PROVE  IInv' /\ AttendanceFalls /\ LocksFall
<1>1. UNCHANGED <<assigned, office, attendance, lock, deduction, call>>
  BY DEF DeleteAllowance, CreateAllowance, UpdateAllowance
<1>2. PICK row \in {Gone} \cup AllowanceRow :
        /\ allowance' = [allowance EXCEPT ![x] = row]
        /\ row # Gone => Present(lock[row.lock])
  <2>1. CASE DeleteAllowance(x)
    BY <2>1 DEF DeleteAllowance
  <2>2. ASSUME NEW r \in Locks, NEW l \in Locations, NEW extra \in Extras,
               CreateAllowance(x, r, l, extra) \/ UpdateAllowance(x, r, l, extra)
        PROVE  \E row \in AllowanceRow :
                 allowance' = [allowance EXCEPT ![x] = row] /\ Present(lock[row.lock])
    <3>1. [status |-> "KEPT", lock |-> r, post |-> l, extra |-> extra] \in AllowanceRow
      BY DEF AllowanceRow
    <3> QED BY <2>2, <3>1 DEF CreateAllowance, UpdateAllowance
  <2> QED BY <2>1, <2>2
<1>3. allowance' \in [Allowances -> Absent \cup AllowanceRow]
  BY <1>2, GoneIsAbsent DEF IInv, TypeOK
<1>4. AllowancesHavePeriod'
  BY <1>1, <1>2, GoneIsAbsent DEF IInv, TypeOK, AllowancesHavePeriod
<1>5. IInv'
  BY <1>1, <1>3, <1>4 DEF IInv, TypeOK
<1> QED BY <1>1, <1>5 DEF AttendanceFalls, LocksFall

LEMMA DeductionStep ==
  ASSUME IInv, NEW x \in Deductions,
         \/ DeleteDeduction(x)
         \/ \E g \in Guards, amount \in Amounts :
              CreateDeduction(x, g, amount) \/ UpdateDeduction(x, g, amount)
  PROVE  IInv' /\ AttendanceFalls /\ LocksFall
<1>1. UNCHANGED <<assigned, office, attendance, lock, allowance, call>>
  BY DEF DeleteDeduction, CreateDeduction, UpdateDeduction
<1>2. deduction' \in [Deductions -> Absent \cup DeductionRow]
  <2>1. CASE DeleteDeduction(x)
    BY <2>1, GoneIsAbsent DEF DeleteDeduction, IInv, TypeOK
  <2>2. ASSUME NEW g \in Guards, NEW amount \in Amounts, CreateDeduction(x, g, amount)
        PROVE  deduction' \in [Deductions -> Absent \cup DeductionRow]
    <3>1. assigned[g] \subseteq AssignedRow
      BY RostersAssumption DEF IInv, TypeOK
    <3>2. PICK a \in assigned[g] :
            deduction' = [deduction EXCEPT ![x] =
              [status |-> "KEPT", guard |-> g, loc |-> a.loc, amount |-> amount]]
      BY <2>2 DEF CreateDeduction
    <3>3. a.loc \in Locations
      BY <3>1 DEF AssignedRow
    <3> QED BY <3>2, <3>3 DEF IInv, TypeOK, DeductionRow
  <2>3. ASSUME NEW g \in Guards, NEW amount \in Amounts, UpdateDeduction(x, g, amount)
        PROVE  deduction' \in [Deductions -> Absent \cup DeductionRow]
    <3>1. deduction[x] \in DeductionRow
      BY <2>3, PresentRows DEF UpdateDeduction, IInv
    <3> QED BY <2>3, <3>1 DEF UpdateDeduction, IInv, TypeOK, DeductionRow
  <2> QED BY <2>1, <2>2, <2>3
<1>3. IInv'
  BY <1>1, <1>2 DEF IInv, TypeOK, AllowancesHavePeriod
<1> QED BY <1>1, <1>3 DEF AttendanceFalls, LocksFall

LEMMA MoveGuardStep ==
  ASSUME IInv, NEW g \in Guards, NEW f \in Offices, MoveGuard(g, f)
  PROVE  IInv' /\ AttendanceFalls /\ LocksFall
<1>1. office' \in [Guards -> Offices \cup {None}]
  BY DEF MoveGuard, IInv, TypeOK
<1>2. IInv'
  BY <1>1 DEF MoveGuard, IInv, TypeOK, AllowancesHavePeriod
<1> QED BY <1>2 DEF MoveGuard, AttendanceFalls, LocksFall

\* Every step keeps the invariant; the steps that make records and locks, and
\* those that prepare them, are the only ones that do not let the sums fall.
LEMMA StepKinds ==
  ASSUME IInv, [Next]_vars
  PROVE  /\ IInv'
         /\ \/ AttendanceFalls
            \/ \E c \in Callers, g \in Guards, l \in Locations, d \in Days : BeginRecord(c, g, l, d)
            \/ \E c \in Callers, e \in Entries : CommitRecord(c, e)
         /\ \/ LocksFall
            \/ \E c \in Callers, l \in Locations, first, last \in Days : BeginLock(c, l, first, last)
            \/ \E c \in Callers, r \in Locks : CommitLock(c, r)
<1>1. CASE UNCHANGED vars
  BY <1>1, StutterStep
<1>2. ASSUME NEW c \in Callers, NEW g \in Guards, NEW l \in Locations, NEW d \in Days,
             BeginRecord(c, g, l, d)
      PROVE  IInv' /\ LocksFall
  BY <1>2, BeginRecordStep
<1>3. ASSUME NEW c \in Callers, NEW e \in Entries, CommitRecord(c, e)
      PROVE  IInv' /\ LocksFall
  BY <1>3, CommitRecordStep
<1>4. ASSUME NEW c \in Callers, NEW l \in Locations, NEW first \in Days, NEW last \in Days,
             BeginLock(c, l, first, last)
      PROVE  IInv' /\ AttendanceFalls
  BY <1>4, BeginLockStep
<1>5. ASSUME NEW c \in Callers, NEW r \in Locks, CommitLock(c, r)
      PROVE  IInv' /\ AttendanceFalls
  BY <1>5, CommitLockStep
<1>6. ASSUME NEW c \in Callers, Requests(c)
      PROVE  \/ \E g \in Guards, l \in Locations, d \in Days : BeginRecord(c, g, l, d)
             \/ \E e \in Entries : CommitRecord(c, e)
             \/ \E l \in Locations, first, last \in Days : BeginLock(c, l, first, last)
             \/ \E r \in Locks : CommitLock(c, r)
             \/ IInv' /\ AttendanceFalls /\ LocksFall
  BY <1>6, CheckSteps, CommitFinalLockStep DEF Requests
<1>7. ASSUME NEW r \in Locks, DeleteLock(r) \/ \E l \in Locations, first, last \in Days : MoveLock(r, l, first, last)
      PROVE  IInv' /\ AttendanceFalls /\ LocksFall
  BY <1>7, DeleteLockStep, MoveLockStep
<1>8. CASE \E c \in Callers : Requests(c)
  BY <1>2, <1>3, <1>4, <1>5, <1>6, <1>8
<1> QED BY <1>1, <1>7, <1>8, AttendanceStep, AllowanceStep, DeductionStep, MoveGuardStep DEF Next

\* Columns in their ranges and allowances with their periods, in every state.
THEOREM Invariant == Spec => []IInv
<1>1. Init => IInv
  <2> SUFFICES ASSUME Init PROVE IInv
    OBVIOUS
  <2>1. TypeOK
    BY GoneIsAbsent, CallMembers DEF Init, TypeOK
  <2>2. AllowancesHavePeriod
    BY GoneIsAbsent DEF Init, AllowancesHavePeriod
  <2> QED BY <2>1, <2>2 DEF IInv
<1>2. IInv /\ [Next]_vars => IInv'
  BY StepKinds
<1> QED BY <1>1, <1>2, PTL DEF Spec

\* The columns stay in their ranges.
THEOREM TypeCorrect == Spec => []TypeOK
<1>1. IInv => TypeOK
  BY DEF IInv
<1> QED BY <1>1, Invariant, PTL

\* No allowance outlives its period, whichever is deleted or rewritten when.
THEOREM SchemaAlwaysKept == Spec => []SchemaKept
<1>1. IInv => SchemaKept
  BY DEF IInv, SchemaKept
<1> QED BY <1>1, Invariant, PTL
-----------------------------------------------------------------------------
(* Counting.                                                                 *)

LEMMA SumFalls ==
  ASSUME NEW A, IsFiniteSet(A), NEW B, IsFiniteSet(B), NEW C \in SUBSET A, NEW D \in SUBSET B,
         NEW n \in Nat, Cardinality(A) + Cardinality(B) <= n
  PROVE  Cardinality(C) + Cardinality(D) <= n
<1>1. /\ Cardinality(C) <= Cardinality(A) /\ Cardinality(D) <= Cardinality(B)
      /\ IsFiniteSet(C) /\ IsFiniteSet(D)
  BY FS_Subset
<1> QED BY <1>1, FS_CardinalityType

LEMMA OneMore ==
  ASSUME NEW A, IsFiniteSet(A), NEW x, NEW C, C \subseteq A \cup {x}
  PROVE  Cardinality(C) \in Nat /\ Cardinality(C) <= Cardinality(A) + 1
<1>1. Cardinality(A) \in Nat
  BY FS_CardinalityType
<1>2. IsFiniteSet(A \cup {x}) /\ Cardinality(A \cup {x}) \in Nat
      /\ Cardinality(A \cup {x}) <= Cardinality(A) + 1
  BY <1>1, FS_AddElement, FS_CardinalityType
<1>3. Cardinality(C) <= Cardinality(A \cup {x}) /\ IsFiniteSet(C)
  BY <1>2, FS_Subset
<1> QED BY <1>1, <1>2, <1>3, FS_CardinalityType

LEMMA OneLess ==
  ASSUME NEW B, IsFiniteSet(B), NEW b \in B, NEW D, D \subseteq B \ {b}
  PROVE  Cardinality(D) \in Nat /\ Cardinality(D) + 1 <= Cardinality(B)
<1>1. IsFiniteSet(B \ {b}) /\ Cardinality(B \ {b}) = Cardinality(B) - 1
  BY FS_RemoveElement
<1>2. Cardinality(D) <= Cardinality(B \ {b}) /\ IsFiniteSet(D)
  BY <1>1, FS_Subset
<1> QED BY <1>1, <1>2, FS_CardinalityType

LEMMA CallersAreFinite ==
  /\ Cardinality(Callers) \in Nat /\ Cardinality({}) = 0
  /\ \A S \in SUBSET Callers : IsFiniteSet(S) /\ Cardinality(S) <= Cardinality(Callers)
  /\ \A S \in SUBSET Entries : IsFiniteSet(S)
  /\ \A S \in SUBSET Locks : IsFiniteSet(S)
BY FiniteAssumption, FS_Subset, FS_CardinalityType, FS_EmptySet
-----------------------------------------------------------------------------
(* A guard recorded twice.                                                   *)

OfRecord(g, l, d) == [op |-> "record", guard |-> g, loc |-> l, day |-> d]

\* The records of a guard, place and day are finitely many, and so are the
\* requests that are to make one.
LEMMA RecordsAreFinite ==
  ASSUME NEW g, NEW l, NEW d
  PROVE  /\ IsFiniteSet(EntriesOf(g, l, d)) /\ IsFiniteSet(Recording(g, l, d))
         /\ IsFiniteSet(EntriesOf(g, l, d)') /\ IsFiniteSet(Recording(g, l, d)')
         /\ Cardinality(Recording(g, l, d)') <= Cardinality(Callers)
<1>1. /\ EntriesOf(g, l, d) \subseteq Entries /\ EntriesOf(g, l, d)' \subseteq Entries
      /\ Recording(g, l, d) \subseteq Callers /\ Recording(g, l, d)' \subseteq Callers
  BY DEF EntriesOf, Recording
<1> QED BY <1>1, CallersAreFinite

\* The bound when neither side gains.
LEMMA RecordsFall ==
  ASSUME NEW g \in Guards, NEW l \in Locations, NEW d \in Days, DuplicatesOnlyByRaces,
         EntriesOf(g, l, d)' \subseteq EntriesOf(g, l, d),
         Recording(g, l, d)' \subseteq Recording(g, l, d)
  PROVE  Cardinality(EntriesOf(g, l, d)') + Cardinality(Recording(g, l, d)') <= Cardinality(Callers)
BY RecordsAreFinite, CallersAreFinite, SumFalls DEF DuplicatesOnlyByRaces

LEMMA DuplicatesStep ==
  ASSUME IInv, DuplicatesOnlyByRaces, [Next]_vars
  PROVE  DuplicatesOnlyByRaces'
<1> SUFFICES ASSUME NEW g \in Guards, NEW l \in Locations, NEW d \in Days
             PROVE  Cardinality(EntriesOf(g, l, d)') + Cardinality(Recording(g, l, d)')
                      <= Cardinality(Callers)
  BY DEF DuplicatesOnlyByRaces
<1>1. CASE AttendanceFalls
  <2>1. EntriesOf(g, l, d)' \subseteq EntriesOf(g, l, d)
    BY <1>1 DEF AttendanceFalls, EntriesOf
  <2>2. Recording(g, l, d)' \subseteq Recording(g, l, d)
    BY <1>1 DEF AttendanceFalls, Recording
  <2> QED BY <2>1, <2>2, RecordsFall
<1>2. ASSUME NEW c \in Callers, NEW g1 \in Guards, NEW l1 \in Locations, NEW d1 \in Days,
             BeginRecord(c, g1, l1, d1)
      PROVE  Cardinality(EntriesOf(g, l, d)') + Cardinality(Recording(g, l, d)') <= Cardinality(Callers)
  <2>1. EntriesOf(g, l, d)' = EntriesOf(g, l, d)
    BY <1>2 DEF BeginRecord, tables, EntriesOf
  <2>2. CASE g1 = g /\ l1 = l /\ d1 = d
    <3>1. Cardinality(EntriesOf(g, l, d)') = 0
      BY <1>2, <2>1, <2>2, CallersAreFinite DEF BeginRecord
    <3> QED BY <3>1, RecordsAreFinite, FS_CardinalityType
  <2>3. CASE ~(g1 = g /\ l1 = l /\ d1 = d)
    <3>1. OfRecord(g1, l1, d1) # OfRecord(g, l, d)
      BY <2>3 DEF OfRecord
    <3>2. call' = [call EXCEPT ![c] = OfRecord(g1, l1, d1)] /\ call \in [Callers -> Call]
      BY <1>2 DEF BeginRecord, Proceed, OfRecord, IInv, TypeOK
    <3>3. Recording(g, l, d)' \subseteq Recording(g, l, d)
      BY <3>1, <3>2 DEF Recording, OfRecord
    <3> QED BY <2>1, <3>3, RecordsFall
  <2> QED BY <2>2, <2>3
<1>3. ASSUME NEW c \in Callers, NEW e \in Entries, CommitRecord(c, e)
      PROVE  Cardinality(EntriesOf(g, l, d)') + Cardinality(Recording(g, l, d)') <= Cardinality(Callers)
  <2>1. /\ call'[c] = Idle /\ Idle.op # "record"
        /\ \A b \in Callers \ {c} : call'[b] = call[b]
    BY <1>3, CallMembers, CallerMoves DEF CommitRecord, Return, IInv
  <2>2. Recording(g, l, d)' \subseteq Recording(g, l, d) \ {c}
    BY <2>1 DEF Recording
  <2>3. PICK type \in {"P", "A"} :
          attendance' = [attendance EXCEPT ![e] =
            [status |-> "KEPT", guard |-> call[c].guard, loc |-> call[c].loc,
             day |-> call[c].day, type |-> type, overtime |-> FALSE]]
    BY <1>3 DEF CommitRecord
  <2>4. /\ attendance'[e].guard = call[c].guard /\ attendance'[e].loc = call[c].loc
        /\ attendance'[e].day = call[c].day
        /\ \A x \in Entries \ {e} : attendance'[x] = attendance[x]
    BY <2>3 DEF IInv, TypeOK
  <2>5. EntriesOf(g, l, d)' \subseteq EntriesOf(g, l, d) \cup {e}
    BY <2>4 DEF EntriesOf
  <2>6. call[c] = OfRecord(call[c].guard, call[c].loc, call[c].day)
    BY <1>3, CallShape DEF CommitRecord, OfRecord, IInv, TypeOK
  <2>7. CASE call[c] = OfRecord(g, l, d)
    <3>1. c \in Recording(g, l, d)
      BY <2>7 DEF Recording, OfRecord
    <3>2. /\ Cardinality(EntriesOf(g, l, d)') \in Nat
          /\ Cardinality(EntriesOf(g, l, d)') <= Cardinality(EntriesOf(g, l, d)) + 1
      BY <2>5, RecordsAreFinite, OneMore
    <3>3. /\ Cardinality(Recording(g, l, d)') \in Nat
          /\ Cardinality(Recording(g, l, d)') + 1 <= Cardinality(Recording(g, l, d))
      BY <2>2, <3>1, RecordsAreFinite, OneLess
    <3>4. Cardinality(EntriesOf(g, l, d)) \in Nat /\ Cardinality(Recording(g, l, d)) \in Nat
      BY RecordsAreFinite, FS_CardinalityType
    <3> QED BY <3>2, <3>3, <3>4, CallersAreFinite DEF DuplicatesOnlyByRaces
  <2>8. CASE call[c] # OfRecord(g, l, d)
    <3>1. EntriesOf(g, l, d)' \subseteq EntriesOf(g, l, d)
      BY <2>4, <2>6, <2>8 DEF EntriesOf
    <3> QED BY <2>2, <3>1, RecordsFall
  <2> QED BY <2>7, <2>8
<1> QED BY <1>1, <1>2, <1>3, StepKinds

\* A guard is recorded at most as often on a day at one location as requests
\* overlap.
THEOREM RecordedTwiceOnlyByRaces == Spec => []DuplicatesOnlyByRaces
<1>1. Init => DuplicatesOnlyByRaces
  <2> SUFFICES ASSUME Init, NEW g \in Guards, NEW l \in Locations, NEW d \in Days
               PROVE  Cardinality(EntriesOf(g, l, d)) + Cardinality(Recording(g, l, d))
                        <= Cardinality(Callers)
    BY DEF DuplicatesOnlyByRaces
  <2>1. EntriesOf(g, l, d) = {} /\ Recording(g, l, d) = {}
    BY GoneIsAbsent, CallMembers DEF Init, EntriesOf, Recording
  <2> QED BY <2>1, CallersAreFinite
<1> QED BY <1>1, DuplicatesStep, Invariant, PTL DEF Spec
-----------------------------------------------------------------------------
(* A day locked twice.                                                       *)

LEMMA LocksAreFinite ==
  ASSUME NEW l, NEW d
  PROVE  /\ IsFiniteSet(Covering(l, d)) /\ IsFiniteSet(Locking(l, d))
         /\ IsFiniteSet(Covering(l, d)') /\ IsFiniteSet(Locking(l, d)')
         /\ Cardinality(Locking(l, d)') <= Cardinality(Callers)
<1>1. /\ Covering(l, d) \subseteq Locks /\ Covering(l, d)' \subseteq Locks
      /\ Locking(l, d) \subseteq Callers /\ Locking(l, d)' \subseteq Callers
  BY DEF Covering, Locking
<1> QED BY <1>1, CallersAreFinite

LEMMA CoverageFalls ==
  ASSUME NEW l \in Locations, NEW d \in Days, OverlapOnlyByRaces,
         Covering(l, d)' \subseteq Covering(l, d), Locking(l, d)' \subseteq Locking(l, d)
  PROVE  Cardinality(Covering(l, d)') + Cardinality(Locking(l, d)') <= Cardinality(Callers)
BY LocksAreFinite, CallersAreFinite, SumFalls DEF OverlapOnlyByRaces

LEMMA OverlapStep ==
  ASSUME IInv, OverlapOnlyByRaces, [Next]_vars
  PROVE  OverlapOnlyByRaces'
<1> SUFFICES ASSUME NEW l \in Locations, NEW d \in Days
             PROVE  Cardinality(Covering(l, d)') + Cardinality(Locking(l, d)') <= Cardinality(Callers)
  BY DEF OverlapOnlyByRaces
<1>1. CASE LocksFall
  <2>1. Covering(l, d)' \subseteq Covering(l, d)
    BY <1>1 DEF LocksFall, Covering
  <2>2. Locking(l, d)' \subseteq Locking(l, d)
    BY <1>1 DEF LocksFall, Locking, Closing
  <2> QED BY <2>1, <2>2, CoverageFalls
<1>2. ASSUME NEW c \in Callers, NEW l1 \in Locations, NEW first \in Days, NEW last \in Days,
             BeginLock(c, l1, first, last)
      PROVE  Cardinality(Covering(l, d)') + Cardinality(Locking(l, d)') <= Cardinality(Callers)
  <2>1. Covering(l, d)' = Covering(l, d)
    BY <1>2 DEF BeginLock, tables, Covering
  <2>2. /\ call'[c] = [op |-> "check", loc |-> l1, start |-> first, end |-> last]
        /\ \A b \in Callers \ {c} : call'[b] = call[b]
    BY <1>2, CallMembers, CallerMoves DEF BeginLock, IInv
  <2>3. CASE l1 = l /\ d \in first .. last
    <3>1. Covering(l, d) \subseteq LocksOverlapping(l, first, last)
      <4> SUFFICES ASSUME NEW r \in Covering(l, d)
                   PROVE  lock[r].start <= last /\ lock[r].end >= first
        BY DEF Covering, LocksOverlapping
      <4>1. lock[r].start \in Int /\ lock[r].end \in Int
        BY PresentRows DEF Covering, IInv, LockRow, Days
      <4>2. d \in lock[r].start .. lock[r].end
        BY DEF Covering
      <4> QED BY <2>3, <4>1, <4>2 DEF Days
    <3>2. Cardinality(Covering(l, d)') = 0
      BY <1>2, <2>1, <2>3, <3>1, CallersAreFinite DEF BeginLock
    <3> QED BY <3>2, LocksAreFinite, FS_CardinalityType
  <2>4. CASE ~(l1 = l /\ d \in first .. last)
    <3>1. Locking(l, d)' \subseteq Locking(l, d)
      BY <2>2, <2>4 DEF Locking
    <3> QED BY <2>1, <3>1, CoverageFalls
  <2> QED BY <2>3, <2>4
<1>3. ASSUME NEW c \in Callers, NEW r \in Locks, CommitLock(c, r)
      PROVE  Cardinality(Covering(l, d)') + Cardinality(Locking(l, d)') <= Cardinality(Callers)
  <2>1. /\ call'[c] = Idle /\ ~Closing(Idle) /\ Closing(call[c])
        /\ \A b \in Callers \ {c} : call'[b] = call[b]
    BY <1>3, CallMembers, CallerMoves DEF CommitLock, Return, IInv, Closing
  <2>2. Locking(l, d)' \subseteq Locking(l, d) \ {c}
    BY <2>1 DEF Locking, Closing
  <2>3. /\ lock'[r].loc = call[c].loc /\ lock'[r].start = call[c].start /\ lock'[r].end = call[c].end
        /\ \A q \in Locks \ {r} : lock'[q] = lock[q]
    BY <1>3 DEF CommitLock, IInv, TypeOK
  <2>4. Covering(l, d)' \subseteq Covering(l, d) \cup {r}
    BY <2>3 DEF Covering
  <2>5. CASE c \in Locking(l, d)
    <3>1. /\ Cardinality(Covering(l, d)') \in Nat
          /\ Cardinality(Covering(l, d)') <= Cardinality(Covering(l, d)) + 1
      BY <2>4, LocksAreFinite, OneMore
    <3>2. /\ Cardinality(Locking(l, d)') \in Nat
          /\ Cardinality(Locking(l, d)') + 1 <= Cardinality(Locking(l, d))
      BY <2>2, <2>5, LocksAreFinite, OneLess
    <3>3. Cardinality(Covering(l, d)) \in Nat /\ Cardinality(Locking(l, d)) \in Nat
      BY LocksAreFinite, FS_CardinalityType
    <3> QED BY <3>1, <3>2, <3>3, CallersAreFinite DEF OverlapOnlyByRaces
  <2>6. CASE c \notin Locking(l, d)
    <3>1. Covering(l, d)' \subseteq Covering(l, d)
      BY <2>1, <2>3, <2>6 DEF Covering, Locking, Closing
    <3> QED BY <2>2, <3>1, CoverageFalls
  <2> QED BY <2>5, <2>6
<1> QED BY <1>1, <1>2, <1>3, StepKinds

\* A day of a location is locked at most as often as requests overlap, apart
\* from locks that were rewritten.
THEOREM LockedTwiceOnlyByRaces == Spec => []OverlapOnlyByRaces
<1>1. Init => OverlapOnlyByRaces
  <2> SUFFICES ASSUME Init, NEW l \in Locations, NEW d \in Days
               PROVE  Cardinality(Covering(l, d)) + Cardinality(Locking(l, d)) <= Cardinality(Callers)
    BY DEF OverlapOnlyByRaces
  <2>1. Covering(l, d) = {} /\ Locking(l, d) = {}
    BY GoneIsAbsent, CallMembers DEF Init, Covering, Locking
  <2> QED BY <2>1, CallersAreFinite
<1> QED BY <1>1, OverlapStep, Invariant, PTL DEF Spec
-----------------------------------------------------------------------------
(* Sums over finite sets.                                                    *)
(*                                                                           *)
(* The library defines a sum by recursion over the subsets of a set, with an *)
(* element chosen to be taken out first.  That such a function exists is     *)
(* shown by the least size of a subset without one, and what it yields by    *)
(* the smallest subset that is an exception: both are instances of the       *)
(* minimal element of a well-founded relation.                               *)

\* The element that the sum over s takes out first.
One(s) == CHOOSE x \in s : TRUE

\* It is one of them.
LEMMA OneIsIn == ASSUME NEW s, s # {} PROVE One(s) \in s
BY DEF One

\* What the sum of an element and of the rest is, F giving the sums of the rests.
SumBy(F, f, s) == IF s = {} THEN 0 ELSE f[One(s)] + F[s \ {One(s)}]

\* The sums over the subsets of at most n elements.
UpTo(D, n) == {s \in SUBSET D : Cardinality(s) <= n}

SumsUpTo(F, f, D, n) ==
  F \in [UpTo(D, n) -> Int] /\ \A s \in UpTo(D, n) : F[s] = SumBy(F, f, s)

\* There are sums over the empty set.
LEMMA FirstSums ==
  ASSUME NEW D, IsFiniteSet(D), NEW f
  PROVE  \E F : SumsUpTo(F, f, D, 0)
<1> DEFINE F == [s \in UpTo(D, 0) |-> 0]
<1>1. \A s \in UpTo(D, 0) : s = {}
  BY FS_Subset, FS_EmptySet, FS_CardinalityType DEF UpTo
<1>2. F \in [UpTo(D, 0) -> Int]
  OBVIOUS
<1>3. \A s \in UpTo(D, 0) : F[s] = SumBy(F, f, s)
  BY <1>1 DEF SumBy
<1> HIDE DEF F
<1> QED
  BY <1>2, <1>3 DEF SumsUpTo

\* Sums over sets of n elements give the sums over sets of one more.
LEMMA MoreSums ==
  ASSUME NEW D, IsFiniteSet(D), NEW f \in [D -> Int], NEW n \in Nat,
         NEW F, SumsUpTo(F, f, D, n)
  PROVE  \E G : SumsUpTo(G, f, D, n + 1)
<1> DEFINE G == [s \in UpTo(D, n + 1) |-> SumBy(F, f, s)]
<1>1. ASSUME NEW s \in UpTo(D, n + 1), s # {}
      PROVE  s \ {One(s)} \in UpTo(D, n) /\ s \ {One(s)} \in UpTo(D, n + 1) /\ One(s) \in D
  <2>1. IsFiniteSet(s) /\ s \subseteq D /\ Cardinality(s) <= n + 1 /\ Cardinality(s) \in Nat
    BY FS_Subset, FS_CardinalityType DEF UpTo
  <2>2. One(s) \in s
    BY <1>1, OneIsIn
  <2>3. Cardinality(s \ {One(s)}) = Cardinality(s) - 1
    BY <2>1, <2>2, FS_RemoveElement
  <2> QED
    BY <2>1, <2>2, <2>3 DEF UpTo
<1>2. \A s \in UpTo(D, n) : F[s] = SumBy(F, f, s) /\ F[s] \in Int
  BY DEF SumsUpTo
<1>3. ASSUME NEW s \in UpTo(D, n + 1)
      PROVE  SumBy(F, f, s) \in Int /\ G[s] = SumBy(G, f, s)
  <2>1. CASE s = {}
    BY <2>1 DEF SumBy
  <2>2. CASE s # {}
    <3>1. f[One(s)] \in Int /\ F[s \ {One(s)}] \in Int
      BY <1>1, <1>2, <2>2
    <3>2. G[s \ {One(s)}] = F[s \ {One(s)}]
      BY <1>1, <1>2, <2>2
    <3>3. SumBy(F, f, s) \in Int
      BY <2>2, <3>1 DEF SumBy
    <3> HIDE DEF G
    <3>4. SumBy(G, f, s) = SumBy(F, f, s)
      BY <2>2, <3>2 DEF SumBy
    <3> QED
      BY <3>3, <3>4 DEF G
  <2> QED
    BY <2>1, <2>2
<1>4. G \in [UpTo(D, n + 1) -> Int]
  BY <1>3
<1> HIDE DEF G
<1> QED
  BY <1>3, <1>4 DEF SumsUpTo

\* So there are sums over the subsets of every size: the least size without
\* them would be zero or follow one that has them.
LEMMA SumsOfAnySize ==
  ASSUME NEW D, IsFiniteSet(D), NEW f \in [D -> Int], NEW n \in Nat
  PROVE  \E F : SumsUpTo(F, f, D, n)
<1> DEFINE Bad == {m \in Nat : ~ \E F : SumsUpTo(F, f, D, m)}
<1> SUFFICES ASSUME Bad # {} PROVE FALSE
  OBVIOUS
<1>1. PICK m \in Bad : \A k \in Bad : ~ (<<k, m>> \in OpToRel(<, Nat))
  BY NatLessThanWellFounded, WFMin
<1>2. m # 0
  BY FirstSums
<1>3. m - 1 \in Nat /\ m - 1 < m /\ (m - 1) + 1 = m
  BY <1>2
<1>4. m - 1 \notin Bad
  BY <1>1, <1>3 DEF OpToRel
<1>5. PICK F : SumsUpTo(F, f, D, m - 1)
  BY <1>3, <1>4
<1>6. \E G : SumsUpTo(G, f, D, (m - 1) + 1)
  BY <1>3, <1>5, MoreSums
<1> QED
  BY <1>1, <1>3, <1>6

\* A set of subsets of D that has the empty one, and each that it has without
\* the element taken out first, has all.
LEMMA AllSubsets ==
  ASSUME NEW D, IsFiniteSet(D), NEW T, {} \in T,
         \A s \in SUBSET D : s # {} /\ s \ {One(s)} \in T => s \in T
  PROVE  SUBSET D \subseteq T
<1> DEFINE Bad == {s \in SUBSET D : s \notin T}
<1> SUFFICES ASSUME Bad # {} PROVE FALSE
  OBVIOUS
<1>1. Bad \subseteq FiniteSubsetsOf(D)
  BY FS_Subset DEF FiniteSubsetsOf
<1>2. PICK m \in Bad : \A k \in Bad : ~ (<<k, m>> \in StrictSubsetOrdering(D))
  BY <1>1, FS_StrictSubsetOrderingWellFounded, WFMin
<1>3. m # {} /\ m \in SUBSET D
  BY <1>2
<1>4. m \ {One(m)} \in T
  BY <1>2, <1>3, OneIsIn DEF StrictSubsetOrdering
<1> QED
  BY <1>2, <1>3, <1>4
-----------------------------------------------------------------------------
(* What the deductions of a guard sum up to.                                 *)

\* F sums the amounts up over the subsets of D.
AmountSums(F, D) ==
  F = [s \in SUBSET D |-> IF s = {} THEN 0 ELSE deduction[One(s)].amount + F[s \ {One(s)}]]

\* The sum of the library is the value of the function that sums up.
LEMMA DeductedIsChosen ==
  ASSUME NEW g, NEW l
  PROVE  Deducted(g, l) = (CHOOSE F : AmountSums(F, DeductionsOf(g, l)))[DeductionsOf(g, l)]
BY DEF Deducted, MapThenSumSet, MapThenFoldSet, AmountSums, One

\* What a guard is deducted is an integer.
LEMMA DeductedIsInt ==
  ASSUME TypeOK, NEW g, NEW l
  PROVE  Deducted(g, l) \in Int
<1> DEFINE D == DeductionsOf(g, l)
           f == [x \in D |-> deduction[x].amount]
           F == CHOOSE F : AmountSums(F, D)
<1>1. IsFiniteSet(D)
  BY FiniteAssumption, FS_Subset DEF DeductionsOf
<1>2. f \in [D -> Int]
  BY PresentRows, AmountsAssumption DEF DeductionsOf, DeductionRow
<1>3. \A x \in D : f[x] = deduction[x].amount
  OBVIOUS
<1>4. Deducted(g, l) = F[D]
  BY DeductedIsChosen
<1> HIDE DEF D, f
<1>5. Cardinality(D) \in Nat /\ UpTo(D, Cardinality(D)) = SUBSET D
  BY <1>1, FS_Subset, FS_CardinalityType DEF UpTo
<1>6. PICK G : SumsUpTo(G, f, D, Cardinality(D))
  BY <1>1, <1>2, <1>5, SumsOfAnySize
<1>7. AmountSums(G, D)
  <2>1. G \in [SUBSET D -> Int] /\ \A s \in SUBSET D : G[s] = SumBy(G, f, s)
    BY <1>5, <1>6 DEF SumsUpTo
  <2>2. \A s \in SUBSET D : s # {} => One(s) \in D
    BY OneIsIn
  <2>3. \A s \in SUBSET D :
          G[s] = IF s = {} THEN 0 ELSE deduction[One(s)].amount + G[s \ {One(s)}]
    BY <1>3, <2>1, <2>2 DEF SumBy
  <2> QED
    BY <2>1, <2>3 DEF AmountSums
<1>8. AmountSums(F, D)
  BY <1>7
<1> HIDE DEF F
<1>9. /\ F[{}] = 0
      /\ \A s \in SUBSET D : s # {} => F[s] = deduction[One(s)].amount + F[s \ {One(s)}]
  BY <1>8 DEF AmountSums
<1> DEFINE T == {s \in SUBSET D : F[s] \in Int}
<1>10. {} \in T
  BY <1>9
<1>11. \A s \in SUBSET D : s # {} /\ s \ {One(s)} \in T => s \in T
  <2> SUFFICES ASSUME NEW s \in SUBSET D, s # {}, F[s \ {One(s)}] \in Int
               PROVE  F[s] \in Int
    OBVIOUS
  <2>1. One(s) \in D
    BY OneIsIn
  <2>2. deduction[One(s)].amount \in Int
    BY <1>2, <1>3, <2>1
  <2> QED
    BY <1>9, <2>2
<1>12. D \in SUBSET D /\ \A s \in T : F[s] \in Int
  OBVIOUS
<1> HIDE DEF T
<1>13. SUBSET D \subseteq T
  BY <1>1, <1>10, <1>11, AllSubsets
<1> QED
  BY <1>4, <1>12, <1>13
-----------------------------------------------------------------------------
(* What guards are paid.                                                     *)

\* A finite set of integers that has a member has a greatest one.
LEMMA GreatestMember ==
  ASSUME NEW D \in SUBSET Int, IsFiniteSet(D), D # {}
  PROVE  Max(D) \in D /\ \A y \in D : Max(D) >= y
<1> DEFINE Greatest(s) == \E x \in s : \A y \in s : x >= y
           Bad == {s \in SUBSET D : s # {} /\ ~Greatest(s)}
<1>1. Bad = {}
  <2> SUFFICES ASSUME Bad # {} PROVE FALSE
    OBVIOUS
  <2>1. Bad \subseteq FiniteSubsetsOf(D)
    BY FS_Subset DEF FiniteSubsetsOf
  <2>2. PICK m \in Bad : \A k \in Bad : ~ (<<k, m>> \in StrictSubsetOrdering(D))
    BY <2>1, FS_StrictSubsetOrderingWellFounded, WFMin
  <2>3. m \in SUBSET D /\ m # {} /\ ~Greatest(m)
    BY <2>2
  <2>4. PICK x \in m : TRUE
    BY <2>3
  <2>5. m \ {x} \notin Bad
    BY <2>2, <2>3, <2>4 DEF StrictSubsetOrdering
  <2>6. CASE m \ {x} = {}
    <3>1. \A y \in m : x >= y
      BY <2>3, <2>4, <2>6
    <3> QED
      BY <2>3, <2>4, <3>1
  <2>7. CASE m \ {x} # {}
    <3>1. PICK z \in m \ {x} : \A y \in m \ {x} : z >= y
      BY <2>3, <2>5, <2>7
    <3>2. x \in Int /\ z \in Int /\ z \in m /\ \A y \in m : y \in Int
      BY <2>3, <2>4, <3>1
    <3>3. x >= z => \A y \in m : x >= y
      BY <3>1, <3>2
    <3>4. ~(x >= z) => \A y \in m : z >= y
      BY <3>1, <3>2
    <3> QED
      BY <2>3, <2>4, <3>2, <3>3, <3>4
  <2> QED
    BY <2>6, <2>7
<1>2. \E x \in D : \A y \in D : x >= y
  BY <1>1
<1> QED
  BY <1>2 DEF Max

\* Products distribute and are monotone.
LEMMA Products ==
  /\ \A n, a, b \in Int : n * (a - b) = n * a - n * b
  /\ \A n \in Nat, a, b \in Int : a <= b => n * a <= n * b
OBVIOUS

\* The extras that are paid are those a table of allowances may hold, or none.
LEMMA ExtrasPaid ==
  ASSUME TypeOK, NEW l
  PROVE  \A e \in ExtraOf(l) : e \in Extras \cup {0} /\ e \in Int
<1> DEFINE found == {x \in Allowances : Present(allowance[x]) /\ allowance[x].post = l}
<1>1. \A x \in found : allowance[x].extra \in Extras
  BY PresentRows DEF AllowanceRow
<1>2. ExtraOf(l) \subseteq {0} \cup {allowance[x].extra : x \in found}
  BY DEF ExtraOf
<1> HIDE DEF found
<1>3. ExtraOf(l) \subseteq Extras \cup {0}
  BY <1>1, <1>2
<1>4. Extras \subseteq Int /\ 0 \in Int
  BY AmountsAssumption
<1> QED BY <1>3, <1>4, Zenon

\* The days paid are at most those between the dates and the double records.
LEMMA DaysPaid ==
  ASSUME TypeOK, NEW g \in Guards, NEW from \in Int, NEW to \in Int, to > from
  PROVE  /\ DaysPresent(g, from, to) \in Nat
         /\ DoubleRecords(g, from, to) \in Int
         /\ DaysPresent(g, from, to) <= to - from + DoubleRecords(g, from, to)
<1> DEFINE found == Recorded(g, from, to - 1)
           paid == {e \in found : attendance[e].type = "P"}
           days == {attendance[e].day : e \in found}
<1>1. IsFiniteSet(found) /\ Cardinality(found) \in Nat
  BY FiniteAssumption, FS_Subset, FS_CardinalityType DEF Recorded
<1>2. Cardinality(paid) \in Nat /\ Cardinality(paid) <= Cardinality(found)
  BY <1>1, FS_Subset, FS_CardinalityType
<1>3. days \subseteq from .. (to - 1)
  BY DEF Recorded
<1>4. IsFiniteSet(from .. (to - 1)) /\ Cardinality(from .. (to - 1)) = to - from
  <2>1. /\ IsFiniteSet(from .. (to - 1))
        /\ Cardinality(from .. (to - 1)) = IF from > to - 1 THEN 0 ELSE (to - 1) - from + 1
    BY FS_Interval
  <2> QED
    BY <2>1
<1> HIDE DEF days
<1>5. Cardinality(days) \in Nat /\ Cardinality(days) <= to - from
  BY <1>3, <1>4, FS_Subset, FS_CardinalityType
<1>6. DaysPresent(g, from, to) = Cardinality(paid)
  BY DEF DaysPresent
<1>7. DoubleRecords(g, from, to) = Cardinality(found) - Cardinality(days)
  BY DEF DoubleRecords, days
<1> HIDE DEF found, paid
<1> QED
  BY <1>1, <1>2, <1>5, <1>6, <1>7

\* For a locked period nobody gets more than the salary of the post, the most an
\* allowance amounts to, and a day's pay for each double record.
THEOREM NeverPaidTooMuch == Spec => []PaidWithinSalary
<1>1. ASSUME TypeOK PROVE PaidWithinSalary
  <2> SUFFICES ASSUME NEW r \in Locks, NEW g \in Guards, Present(lock[r]),
                      NEW a \in assigned[g], NEW l \in Locations,
                      assigned[g] = {a}, lock[r].end - lock[r].start > 0,
                      NEW payable \in NetPayable(g, l, lock[r].start, lock[r].end)
               PROVE  payable <=
                        Salary[a.loc] * ((lock[r].end - lock[r].start)
                                           + DoubleRecords(g, lock[r].start, lock[r].end))
                          + (lock[r].end - lock[r].start)
                              * (Max(Extras \cup {0}) - Deducted(g, l))
    BY DEF PaidWithinSalary
  <2> DEFINE from == lock[r].start
             to == lock[r].end
             days == to - from
             twice == DoubleRecords(g, from, to)
             present == DaysPresent(g, from, to)
             most == Max(Extras \cup {0})
             deducted == Deducted(g, l)
             salary == Salary[a.loc]
  <2>1. from \in Int /\ to \in Int
    BY <1>1, PresentRows, TodayAssumption DEF LockRow, Days
  <2>2. salary \in Nat
    <3>1. a \in AssignedRow
      BY <1>1, RostersAssumption DEF TypeOK
    <3> QED
      BY <3>1, SalaryAssumption DEF AssignedRow
  <2>3. deducted \in Int
    BY <1>1, DeductedIsInt
  <2>4. present \in Nat /\ twice \in Int /\ present <= days + twice
    BY <1>1, <2>1, DaysPaid
  <2>5. PICK extra \in ExtraOf(a.loc) :
          payable = (salary * present + days * extra) - days * deducted
    BY DEF NetPayable, GrossSalary
  <2>6. most \in Int /\ extra \in Int /\ extra <= most
    <3> DEFINE E == Extras \cup {0}
    <3>1. E \in SUBSET Int /\ IsFiniteSet(E) /\ E # {}
      BY AmountsAssumption, FiniteAssumption, FS_AddElement
    <3>2. extra \in E
      BY <1>1, ExtrasPaid
    <3> HIDE DEF E
    <3>3. Max(E) \in E /\ \A y \in E : Max(E) >= y
      BY <3>1, GreatestMember
    <3> QED
      BY <3>1, <3>2, <3>3 DEF E
  <2> HIDE DEF from, to, twice, present, most, deducted, salary
  <2>7. days \in Nat
    BY <2>1 DEF from, to
  <2>8. salary * present <= salary * (days + twice)
    BY <2>2, <2>4, <2>7, Products
  <2>9. days * extra <= days * most
    BY <2>6, <2>7, Products
  <2>10. days * (most - deducted) = days * most - days * deducted
    BY <2>3, <2>6, <2>7, Products
  <2> HIDE DEF days
  <2>11. /\ salary * present \in Int /\ salary * (days + twice) \in Int
         /\ days * extra \in Int /\ days * most \in Int /\ days * deducted \in Int
    BY <2>2, <2>3, <2>4, <2>6, <2>7
  <2>12. payable <= salary * (days + twice) + days * (most - deducted)
    BY <2>5, <2>8, <2>9, <2>10, <2>11
  <2> QED
    BY <2>12 DEF from, to, days, twice, most, deducted, salary
<1> QED
  BY <1>1, TypeCorrect, PTL

\* The bank is told to pay the guards on the payroll pages of all offices what
\* the pages say, whichever deductions and allowances there are and wherever
\* guards have moved.
THEOREM PayslipsAlwaysAgree == Spec => []PayslipsAgree
<1>1. ASSUME TypeOK PROVE PayslipsAgree
  <2> SUFFICES ASSUME NEW r \in Locks, Present(lock[r])
               PROVE  /\ \A x \in AllowancesShown(lock[r].loc, lock[r].start, lock[r].end) :
                           allowance[x].extra \in ExtraOf(lock[r].loc)
                      /\ Transferred(lock[r].loc)
                           = UNION {OnPayroll(lock[r].loc, f) : f \in Offices \cup {None}}
                      /\ \A g \in Guards :
                           /\ TransferAmount(g, lock[r].loc, lock[r].start, lock[r].end)
                                = NetPayable(g, lock[r].loc, lock[r].start, lock[r].end)
                           /\ DaysPresent(g, lock[r].start, lock[r].end)
                                = DaysShown(g, lock[r].start, lock[r].end - 1)
    BY DEF PayslipsAgree, OnPayroll
  <2> DEFINE l == lock[r].loc
             from == lock[r].start
             to == lock[r].end
  <2>1. from \in Int /\ to \in Int
    BY <1>1, PresentRows, TodayAssumption DEF LockRow, Days
  <2>2. \A x \in AllowancesShown(l, from, to) : allowance[x].extra \in ExtraOf(l)
    BY DEF AllowancesShown, ExtraOf
  <2>3. \A g \in Guards : DaysPresent(g, from, to) = DaysShown(g, from, to - 1)
    BY DEF DaysPresent, DaysShown
  <2>4. ASSUME NEW g \in Guards
        PROVE  TransferAmount(g, l, from, to) = NetPayable(g, l, from, to)
    <3> DEFINE days == to - from
               deducted == Deducted(g, l)
               present == DaysPresent(g, from, to)
               gross(a, e) == Salary[a.loc] * present + days * e
               paid(a, e) == Salary[a.loc] * present + days * (e - deducted)
    <3>1. deducted \in Int /\ days \in Int
      BY <1>1, <2>1, DeductedIsInt
    <3>2. present \in Int
      BY FiniteAssumption, FS_Subset, FS_CardinalityType DEF DaysPresent, Recorded
    <3>3. ASSUME NEW a \in assigned[g], NEW e \in ExtraOf(a.loc)
          PROVE  paid(a, e) = gross(a, e) - days * deducted
      <4>1. a \in AssignedRow
        BY <1>1, RostersAssumption DEF TypeOK
      <4>2. Salary[a.loc] \in Int
        BY <4>1, SalaryAssumption DEF AssignedRow
      <4>3. e \in Int
        BY ExtrasPaid, <1>1
      <4> HIDE DEF days, deducted, present
      <4>4. days * (e - deducted) = days * e - days * deducted
        BY <3>1, <4>3, Products
      <4>5. Salary[a.loc] * present \in Int /\ days * e \in Int /\ days * deducted \in Int
        BY <3>1, <3>2, <4>2, <4>3
      <4> QED
        BY <4>4, <4>5
    <3>4. TransferAmount(g, l, from, to) =
            UNION {{paid(a, e) : e \in ExtraOf(a.loc)} : a \in assigned[g]}
      BY DEF TransferAmount
    <3>5. NetPayable(g, l, from, to) =
            {p - days * deducted :
               p \in UNION {{gross(a, e) : e \in ExtraOf(a.loc)} : a \in assigned[g]}}
      BY DEF NetPayable, GrossSalary
    <3> HIDE DEF days, deducted, gross, paid
    <3> QED
      BY <3>3, <3>4, <3>5
  <2>5. Transferred(l) = UNION {OnPayroll(l, f) : f \in Offices \cup {None}}
    <3>1. \A g \in Guards : office[g] \in Offices \cup {None}
      BY <1>1 DEF TypeOK
    <3> HIDE DEF l
    <3> QED BY <3>1 DEF Transferred, OnPayroll
  <2> QED
    BY <2>2, <2>3, <2>4, <2>5
<1> QED
  BY <1>1, TypeCorrect, PTL
=============================================================================
