SPECIFICATION Spec
CONSTANTS
  b1 = b1
  b2 = b2
  b3 = b3
  edit = edit
  reader = reader
  Proc <- MCProc
  Kind <- MCKind
  PmiOf <- MCPmiOf
  DtbOf <- MCDtbOf
  Path = {"pmi", "dtb", "other"}
  Inode = {1, 2, 3, 4, 5, 6, 7, 8}
  CHUNKS = 2
  Reader = {reader}
  Exclusive = TRUE
  None = None
INVARIANTS
  ReaderNeverSeesHalfWrittenFile
  MismatchOnlyFromUnfinishedBuild
PROPERTIES
  OpenFileNeverChanges
  ReplacesWholeFiles
