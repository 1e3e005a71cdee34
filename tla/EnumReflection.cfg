SPECIFICATION Spec
CONSTANTS
  HeaderOrder <- TwoHeaders
  ProjectOrder <- Projects
  ProjectOf <- InProjects
  Texts <- AnyTexts
  Absent = Absent
  None = None
  Unnamed = Unnamed
  NoDatabase = NoDatabase
  Torn = Torn
  Asserted = Asserted
INVARIANTS
  TypeOK
  DatabaseIsCurrent
  OwnEnumsAreRegistered
  ProgramStarts
PROPERTIES
  QuietRun
