SPECIFICATION FilesSpec
CONSTANTS
  Organizations = {o1}
  Persons = {p1, p2}
  MaxNumber = 2
  MaxEditions = 2
  Creations <- MCCreations
  Changes <- MCChanges
  Callers = {c1, c2}
  NoNumber = NoNumber
SYMMETRY Symmetry
INVARIANTS
  FileSchemaKept
  FilesAsUpdated
  GuardHistoryKept
  UploadsWhole
CONSTRAINTS FewRows OnePerson OneTable
CHECK_DEADLOCK FALSE
