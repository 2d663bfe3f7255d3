---------------------------- MODULE PersonnelFiles ----------------------------
(***************************************************************************)
(* The files of guards and employees: the main row and the rows that hang  *)
(* on it (academic record, driving licence, bank account, biometrics,      *)
(* experience, references), as they are created, uploaded in bulk, updated *)
(* and removed.  Source: create, bulkUploadGuards, update and remove of    *)
(* src/src/guard/guard.service.ts; create, bulkUploadEmployees, update and *)
(* remove of src/src/employee/employee.service.ts; uploadGuards of         *)
(* src/src/file/file.service.ts.                                           *)
(*                                                                         *)
(* No transaction is open in any of them: an update is a sequence of       *)
(* statements, and other requests run between them.  A person is known by  *)
(* the CNIC number, which is unique in either table, is left as it is by   *)
(* the updates modelled, and is not registered again once its row is       *)
(* deleted.  Documents are left out: create stores them, and update        *)
(* takes them and drops them.                                              *)
(***************************************************************************)
EXTENDS Integers, FiniteSets

CONSTANTS Organizations,
          Persons,     \* the CNIC numbers
          MaxNumber,   \* the highest service number
          MaxEditions, \* how many updates there are
          Creations,   \* sets of parts: what a request to create may supply
          Changes,     \* sets of parts: what a request to update may supply
          Callers, NoNumber

VARIABLES
  file,     \* the Guard and Employee tables and what hangs on them
  call,     \* the requests in progress
  editions, \* the number of updates begun
  due,      \* the parts as the updates that succeeded left them, one at a time
  torn,     \* who had an update fail half-way, or two at the same time
  lost,     \* the lists of guards an update failed to fill, until one does
  report    \* what the step just done answered, when it ended an upload

fileVars == <<file, call, editions, due, torn, lost, report>>

Tables == {"guard", "employee"}
Numbers == 1 .. MaxNumber
Forms == {"academic", "drivingLicense", "bankAccount", "biometric"}
Lists == {"experience", "references"}
Parts == {"main"} \cup Forms \cup Lists
Contents == [Parts -> SUBSET (0 .. MaxEditions)]  \* by the edition that wrote them

\* Requests supply parts of a file, and null is no number.
Constants ==
  /\ MaxNumber \in Nat /\ MaxEditions \in Nat /\ NoNumber \notin Nat
  /\ Creations \subseteq SUBSET Parts /\ Changes \subseteq SUBSET Parts

ASSUME ConstantsAssumption == Constants

Unused == [status |-> "NONE"]
Gone == [status |-> "GONE"]
Kept == [status : {"KEPT"}, org : Organizations, number : Numbers, parts : Contents]
Present(t, p) == file[t][p].status = "KEPT"

Row == [person : Persons, number : Numbers]

Idle == [op |-> "idle"]
Call ==
  {Idle}
  \cup [op : {"create"}, table : Tables, org : Organizations, person : Persons,
        number : 1 .. MaxNumber + 1, parts : SUBSET Parts]
  \cup [op : {"upload"}, table : Tables, org : Organizations, rows : SUBSET Row]
  \cup [op : {"import"}, org : Organizations, rows : SUBSET Row, left : SUBSET Row,
        inserted : SUBSET Row]
  \cup [op : {"update"}, table : Tables, person : Persons, edition : 1 .. MaxEditions,
        number : Numbers \cup {NoNumber}, parts : SUBSET Parts, todo : SUBSET (1 .. 9)]

Report == [op : {"none", "upload", "import"}, rows : SUBSET Row, inserted : SUBSET Row,
           success : BOOLEAN]

NoReport == [op |-> "none", rows |-> {}, inserted |-> {}, success |-> TRUE]

\* Files, requests in progress and what is recorded of them stay in their ranges.
FilesTypeOK ==
  /\ file \in [Tables -> [Persons -> {Unused, Gone} \cup Kept]]
  /\ call \in [Callers -> Call]
  /\ editions \in 0 .. MaxEditions
  /\ due \in [Tables -> [Persons -> Contents]]
  /\ torn \subseteq Tables \X Persons
  /\ lost \subseteq Persons \X Lists
  /\ report \in Report

Nothing == [part \in Parts |-> {}]

FilesInit ==
  /\ file = [t \in Tables |-> [p \in Persons |-> Unused]]
  /\ call = [c \in Callers |-> Idle]
  /\ editions = 0
  /\ due = [t \in Tables |-> [p \in Persons |-> Nothing]]
  /\ torn = {}
  /\ lost = {}
  /\ report = NoReport

Proceed(c, next) == call' = [call EXCEPT ![c] = next]
Return(c) == Proceed(c, Idle)
Silent == report' = NoReport

NumbersOf(t, o) == {file[t][p].number : p \in {q \in Persons : Present(t, q) /\ file[t][q].org = o}}

\* The unique keys: a CNIC number in the table, a service number in the organization.
Free(t, o, row) == file[t][row.person] = Unused /\ row.number \notin NumbersOf(t, o)

\* A new row and, at once, the rows that hang on it.
NewFile(o, row, parts) ==
  [status |-> "KEPT", org |-> o, number |-> row.number,
   parts |-> [part \in Parts |-> IF part \in parts \cup {"main"} THEN {0} ELSE {}]]

\* Mutant of Add: a row whose number is taken goes in as well.
AddAnyNumber(t, o, rows, parts) ==
  LET new == {row \in rows : file[t][row.person] = Unused}
      Of(p) == CHOOSE row \in new : row.person = p
      added == {row.person : row \in new}
  IN /\ file' = [file EXCEPT ![t] = [p \in Persons |->
            IF p \in added THEN NewFile(o, Of(p), parts) ELSE @[p]]]
     /\ due' = [due EXCEPT ![t] = [p \in Persons |->
            IF p \in added THEN NewFile(o, Of(p), parts).parts ELSE @[p]]]

\* One statement inserts all the rows, if the keys let it.
Add(t, o, rows, parts) ==
  LET Of(p) == CHOOSE row \in rows : row.person = p
      added == {row.person : row \in rows}
  IN /\ \A row \in rows : Free(t, o, row)
     /\ file' = [file EXCEPT ![t] = [p \in Persons |->
          IF p \in added THEN NewFile(o, Of(p), parts) ELSE @[p]]]
     /\ due' = [due EXCEPT ![t] = [p \in Persons |->
          IF p \in added THEN NewFile(o, Of(p), parts).parts ELSE @[p]]]

\* Or it fails and inserts none: for a key, for a value that a column refuses, or
\* with the database.
Refused == UNCHANGED <<file, due>>
-----------------------------------------------------------------------------
(* Create: the number after the highest is read, and used in a later         *)
(* statement.                                                                *)

Highest(t, o) ==
  LET numbers == {0} \cup NumbersOf(t, o)
  IN  CHOOSE n \in numbers : \A m \in numbers : m <= n

\* number: the service number the request asks for, or NoNumber.
BeginCreateGuard(c, o, p, number, parts) ==
  /\ call[c] = Idle
  /\ Proceed(c, [op |-> "create", table |-> "guard", org |-> o, person |-> p,
                 number |-> IF number = NoNumber THEN Highest("guard", o) + 1 ELSE number,
                 parts |-> parts])
  /\ UNCHANGED <<file, editions, due, torn, lost>> /\ Silent

\* An employee gets the next number whatever the request asks for.
BeginCreateEmployee(c, o, p, parts) ==
  /\ call[c] = Idle
  /\ Proceed(c, [op |-> "create", table |-> "employee", org |-> o, person |-> p,
                 number |-> Highest("employee", o) + 1, parts |-> parts])
  /\ UNCHANGED <<file, editions, due, torn, lost>> /\ Silent

CommitCreate(c) ==
  /\ call[c].op = "create" /\ call[c].number <= MaxNumber
  /\ \/ Add(call[c].table, call[c].org,
            {[person |-> call[c].person, number |-> call[c].number]}, call[c].parts)
     \/ Refused
  /\ Return(c)
  /\ UNCHANGED <<editions, torn, lost>> /\ Silent
-----------------------------------------------------------------------------
(* Uploads.                                                                  *)

\* No CNIC number and no service number appears twice in the file.
Distinct(rows) ==
  \A a, b \in rows : a # b => a.person # b.person /\ a.number # b.number

\* existingByCnic and existingByServiceInOrg.
GuardsTaken(o, row) ==
  Present("guard", row.person) \/ row.number \in NumbersOf("guard", o)

\* existingEmployees are found by either, and each gives both its numbers: also
\* an employee of another organization, found by the CNIC number.
EmployeesTaken(o, rows, row) ==
  \E p \in Persons :
    /\ Present("employee", p)
    /\ LET e == file["employee"][p] IN
         /\ \/ p \in {r.person : r \in rows}
            \/ e.org = o /\ e.number \in {r.number : r \in rows}
         /\ row.person = p \/ row.number = e.number

\* Any row that repeats another, or is taken, rejects the whole file.
UploadGuards(c, o, rows) ==
  /\ call[c] = Idle /\ rows # {}
  /\ Distinct(rows) /\ \A row \in rows : ~GuardsTaken(o, row)
  /\ Proceed(c, [op |-> "upload", table |-> "guard", org |-> o, rows |-> rows])
  /\ UNCHANGED <<file, editions, due, torn, lost>> /\ Silent

UploadEmployees(c, o, rows) ==
  /\ call[c] = Idle /\ rows # {}
  /\ Distinct(rows) /\ \A row \in rows : ~EmployeesTaken(o, rows, row)
  /\ Proceed(c, [op |-> "upload", table |-> "employee", org |-> o, rows |-> rows])
  /\ UNCHANGED <<file, editions, due, torn, lost>> /\ Silent

\* Rows of the file that are in the table.
Stored(t, o, rows) ==
  {row \in rows : file'[t][row.person].status = "KEPT" /\ file'[t][row.person].org = o
                    /\ file'[t][row.person].number = row.number}

\* Mutant of CommitUpload: skipDuplicates: true.
CommitUploadSkipping(c) ==
  /\ call[c].op = "upload"
  /\ LET t == call[c].table  o == call[c].org  rows == call[c].rows IN
       /\ Add(t, o, {row \in rows : Free(t, o, row)}, {})
       /\ report' = [op |-> "upload", rows |-> rows, success |-> TRUE,
                     inserted |-> Stored(t, o, rows)]
  /\ Return(c)
  /\ UNCHANGED <<editions, torn, lost>>

\* createMany inserts the main rows alone.
CommitUpload(c) ==
  /\ call[c].op = "upload"
  /\ LET t == call[c].table  o == call[c].org  rows == call[c].rows IN
       \/ /\ Add(t, o, rows, {})
          /\ report' = [op |-> "upload", rows |-> rows, success |-> TRUE,
                        inserted |-> Stored(t, o, rows)]
       \/ /\ Refused
          /\ report' = [op |-> "upload", rows |-> rows, success |-> FALSE, inserted |-> {}]
  /\ Return(c)
  /\ UNCHANGED <<editions, torn, lost>>

\* files/upload-guards looks nothing up.
BeginImport(c, o, rows) ==
  /\ call[c] = Idle /\ rows # {}
  /\ Proceed(c, [op |-> "import", org |-> o, rows |-> rows, left |-> rows, inserted |-> {}])
  /\ UNCHANGED <<file, editions, due, torn, lost>> /\ Silent

\* One row is done with, and these were inserted; the last ends the import.
Imported(c, row, inserted) ==
  LET left == call[c].left \ {row} IN
    \/ /\ left # {}
       /\ Proceed(c, [call[c] EXCEPT !.left = left, !.inserted = inserted])
       /\ Silent
    \/ /\ left = {}
       /\ report' = [op |-> "import", rows |-> call[c].rows, inserted |-> inserted,
                     success |-> inserted = call[c].rows]
       /\ Return(c)

\* Each row is a statement of its own, with its reference; one that fails stops
\* no other.
ImportRow(c, row) ==
  /\ call[c].op = "import" /\ row \in call[c].left
  /\ \/ /\ Add("guard", call[c].org, {row}, {"references"})
        /\ Imported(c, row, call[c].inserted \cup {row})
     \/ Refused /\ Imported(c, row, call[c].inserted)
  /\ UNCHANGED <<editions, torn, lost>>
-----------------------------------------------------------------------------
(* Update.                                                                   *)

\* Mutant of Order: the new rows are inserted before the old are deleted.
OrderInsertFirst ==
  <<<<"write", "main">>,
    <<"write", "academic">>, <<"write", "drivingLicense">>,
    <<"write", "bankAccount">>, <<"write", "biometric">>,
    <<"insert", "experience">>, <<"clear", "experience">>,
    <<"insert", "references">>, <<"clear", "references">> >>

\* The statements of an update that supplies all parts.
Order ==
  <<<<"write", "main">>,
    <<"write", "academic">>, <<"write", "drivingLicense">>,
    <<"write", "bankAccount">>, <<"write", "biometric">>,
    <<"clear", "experience">>, <<"insert", "experience">>,
    <<"clear", "references">>, <<"insert", "references">> >>

\* Mutant of Statements: the old rows are not deleted.
StatementsAppending(parts) ==
  {i \in 1 .. 9 : Order[i][2] \in parts \cup {"main"} /\ Order[i][1] # "clear"}

\* Those of an update that supplies these parts, by their places in the order.
Statements(parts) == {i \in 1 .. 9 : Order[i][2] \in parts \cup {"main"}}

First(u) == CHOOSE i \in u.todo : \A j \in u.todo : i <= j
Upcoming(u) == Order[First(u)]

Updates(t, p) == {c \in Callers : call[c].op = "update" /\ call[c].table = t /\ call[c].person = p}

BeginUpdate(c, t, p, number, parts) ==
  /\ call[c] = Idle /\ editions < MaxEditions
  /\ editions' = editions + 1
  /\ Proceed(c, [op |-> "update", table |-> t, person |-> p, edition |-> editions',
                 number |-> number, parts |-> parts \cup {"main"},
                 todo |-> Statements(parts)])
  /\ torn' = IF Updates(t, p) # {} THEN torn \cup {<<t, p>>} ELSE torn
  /\ UNCHANGED <<file, due, lost>> /\ Silent

\* The guard must be of the user's organization.
BeginUpdateGuard(c, o, p, number, parts) ==
  /\ Present("guard", p) /\ file["guard"][p].org = o
  /\ BeginUpdate(c, "guard", p, number, parts)

BeginUpdateEmployee(c, p, parts) ==
  /\ file["employee"][p] # Unused
  /\ BeginUpdate(c, "employee", p, NoNumber, parts)

\* The statement finds what it is to change, and the keys let it.
GuardStatementRuns(u) ==
  LET s == Upcoming(u)  f == file["guard"][u.person] IN
    CASE s[1] = "clear" -> TRUE
      [] s[1] = "insert" -> Present("guard", u.person)
      [] s[2] = "main" ->
           /\ Present("guard", u.person)
           /\ u.number # NoNumber =>
                u.number \notin NumbersOf("guard", f.org) \ {f.number}
      [] OTHER -> Present("guard", u.person) /\ f.parts[s[2]] # {}

\* The forms and the references are looked for, and inserted, under guardId: an
\* employee's identity is no guard's, and so is none found and none inserted.
\* The main row and the experience to delete are found by the right key.
EmployeeStatementRuns(u) ==
  LET s == Upcoming(u) IN
    \/ s[1] = "clear"
    \/ s = <<"write", "main">> /\ Present("employee", u.person)

\* What is in the part the statement is about, once it has run.  The references
\* of an employee are looked for under guardId.
Content(f, u) ==
  LET s == Upcoming(u) IN
    CASE s[1] = "write" -> {u.edition}
      [] s[1] = "insert" -> f.parts[s[2]] \cup {u.edition}
      [] s = <<"clear", "references">> /\ u.table = "employee" -> f.parts[s[2]]
      [] OTHER -> {}

\* What the statement makes of the file f.
Changed(f, u) ==
  LET part == Upcoming(u)[2] IN
    [f EXCEPT !.parts[part] = Content(f, u),
              !.number = IF part = "main" /\ u.number # NoNumber THEN u.number ELSE @]

Apply(u) ==
  IF Present(u.table, u.person)
  THEN file' = [file EXCEPT ![u.table][u.person] = Changed(@, u)]
  ELSE UNCHANGED file

\* The exception ends the request; what was written before stays, and a list
\* that was cleared stays empty.
StatementFails(c) ==
  LET u == call[c]  s == Upcoming(u) IN
    /\ torn' = IF s[2] = "main" THEN torn ELSE torn \cup {<<u.table, u.person>>}
    /\ lost' = IF u.table = "guard" /\ s[1] = "insert" THEN lost \cup {<<u.person, s[2]>>}
               ELSE lost
    /\ Return(c)
    /\ UNCHANGED <<file, due>>

StatementSucceeds(c) ==
  LET u == call[c]  left == u.todo \ {First(u)} IN
    /\ Apply(u)
    /\ IF left # {}
       THEN Proceed(c, [u EXCEPT !.todo = left]) /\ UNCHANGED due
       ELSE /\ Return(c)
            /\ due' = [due EXCEPT ![u.table][u.person] =
                 [part \in Parts |-> IF part \in u.parts THEN {u.edition} ELSE @[part]]]
    /\ lost' = IF Upcoming(u)[1] = "insert" THEN lost \ {<<u.person, Upcoming(u)[2]>>} ELSE lost
    /\ UNCHANGED torn

\* The next statement of an update.  It may fail also when it finds what it is to
\* change: the column refuses a value the request may bring, or the database
\* fails.
RunStatement(c) ==
  /\ call[c].op = "update"
  /\ \/ /\ \/ call[c].table = "guard" /\ GuardStatementRuns(call[c])
           \/ call[c].table = "employee" /\ EmployeeStatementRuns(call[c])
        /\ StatementSucceeds(c)
     \/ StatementFails(c)
  /\ UNCHANGED editions /\ Silent

Remove(t, p) ==
  /\ Present(t, p)
  /\ file' = [file EXCEPT ![t][p] = Gone]
  /\ due' = [due EXCEPT ![t][p] = Nothing]
  /\ UNCHANGED <<call, editions, torn, lost>> /\ Silent
-----------------------------------------------------------------------------
Uploaded == SUBSET Row

FilesNext ==
  \/ \E c \in Callers, o \in Organizations :
       \/ \E p \in Persons, parts \in Creations :
            \/ \E n \in Numbers \cup {NoNumber} : BeginCreateGuard(c, o, p, n, parts)
            \/ BeginCreateEmployee(c, o, p, parts)
       \/ \E rows \in Uploaded :
            \/ UploadGuards(c, o, rows) \/ UploadEmployees(c, o, rows)
            \/ BeginImport(c, o, rows)
       \/ \E p \in Persons, n \in Numbers \cup {NoNumber}, parts \in Changes :
            BeginUpdateGuard(c, o, p, n, parts)
  \/ \E c \in Callers :
       \/ CommitCreate(c) \/ CommitUpload(c) \/ RunStatement(c)
       \/ \E row \in Row : ImportRow(c, row)
       \/ \E p \in Persons, parts \in Changes : BeginUpdateEmployee(c, p, parts)
  \/ \E t \in Tables, p \in Persons : Remove(t, p)

FilesSpec == FilesInit /\ [][FilesNext]_fileVars
-----------------------------------------------------------------------------
(* Properties.                                                               *)

\* No service number is given twice in an organization, whatever creations,
\* uploads, imports and renumberings cross.
ServiceNumbersApart ==
  \A t \in Tables : \A p, q \in Persons :
    Present(t, p) /\ Present(t, q) /\ p # q /\ file[t][p].org = file[t][q].org
      => file[t][p].number # file[t][q].number

\* What the schema promises: columns in their ranges and unique keys unique.
FileSchemaKept == FilesTypeOK /\ ServiceNumbersApart

\* A file that no update is at work on holds what the updates that succeeded
\* supplied, one after the other, unless one failed half-way or two overlapped:
\* an update that runs alone either says that it failed or is complete.
FilesAsUpdated ==
  \A t \in Tables, p \in Persons :
    Present(t, p) /\ Updates(t, p) = {} /\ <<t, p>> \notin torn
      => file[t][p].parts = due[t][p]

\* Experience and references of a guard, once given, are lost only with an update
\* that fails at the very statement that is to fill the list again, and no longer
\* than until one succeeds there: not by updates that fail elsewhere, and not by
\* updates that overlap, each clearing what the other has inserted.
GuardHistoryKept ==
  \A p \in Persons, l \in Lists :
    Present("guard", p) /\ Updates("guard", p) = {} /\ due["guard"][p][l] # {} =>
      <<p, l>> \in lost \/ file["guard"][p].parts[l] # {}

\* An upload answers success when all of its rows were inserted and only then;
\* a bulk upload that answers failure inserted none, and an import may have
\* inserted some.
UploadsWhole ==
  /\ report.success <=> report.inserted = report.rows
  /\ report.op = "upload" /\ ~report.success => report.inserted = {}
==============================================================================
