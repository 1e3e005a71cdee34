SPECIFICATION Spec
CONSTANTS
  HeaderOrder <- OneHeader
  ProjectOrder <- OneProject
  ProjectOf <- InOneProject
  Texts <- NewBase
  Absent = Absent
  None = None
  Unnamed = Unnamed
  NoDatabase = NoDatabase
  Torn = Torn
  Asserted = Asserted
INVARIANTS
  ProgramStarts
