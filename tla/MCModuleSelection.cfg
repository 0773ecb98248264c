SPECIFICATION Spec
CONSTANTS
  Path <- MCPath
  Name <- MCName
  BadPath = "bad"
  NameOf <- MCNameOf
  FormatOf <- MCFormatOf
  PlainOf <- MCPlainOf
  ParentsOf <- MCParentsOf
  Request <- MCRequest
INVARIANTS
  VerdictIsExact
  ArchiveIsWhatIsNeeded
  SearchesAreSafe
  ReturnsLeastClosedSet
  CycleVerdictIsExact
PROPERTIES
  DependenciesFirst
  SelectionTerminates
