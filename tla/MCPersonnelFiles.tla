--------------------------- MODULE MCPersonnelFiles ---------------------------
(***************************************************************************)
(* Instances of PersonnelFiles for TLC.                                    *)
(***************************************************************************)
EXTENDS PersonnelFiles, TLC

Symmetry == Permutations(Organizations) \cup Permutations(Persons) \cup Permutations(Callers)

\* What requests supply: a create all but the biometrics, an update lists or forms.
MCCreations == {{"academic", "experience", "references"}}
MCChanges == {{"experience", "references"}, {"academic", "biometric"}}

\* A bound: files of at most two rows, for different persons, or of one row once
\* there are updates, and one such request at a time.
FewRows ==
  LET inserting == {c \in Callers : call[c].op \in {"upload", "import"}}
  IN /\ Cardinality(inserting) <= 1
     /\ \A c \in inserting : Cardinality(call[c].rows) <= (IF editions = 0 THEN 2 ELSE 1)
     /\ \A c \in inserting : \A x, y \in call[c].rows : x.person = y.person => x = y

\* A bound: two updates at a time are of one person.
OnePerson ==
  \A c, d \in Callers : call[c].op = "update" /\ call[d].op = "update" =>
    call[c].person = call[d].person

\* A bound: a behaviour has guards or employees.  No request reads one table and
\* writes the other.
OneTable ==
  \E t \in Tables :
    /\ \A p \in Persons : file[t][p] = Unused
    /\ \A c \in Callers : call[c].op \in {"create", "upload"} => call[c].table # t
    /\ t = "guard" => \A c \in Callers : call[c].op # "import"
==============================================================================
