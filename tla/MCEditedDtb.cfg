SPECIFICATION Spec
CONSTANTS
  CAPACITY = 6
  NEWC_HEADER = 2
  FIELD_MAX = 255
  U32_MAX = 255
  FILE_ALIGNMENT = 4
  LARGE = 32
  HEADERS = 6
  SECTION_HDR_SIZE = 1
  STRTAB_NAME = 2
  BOOTINFO_SIZE = 4
  U64_MAX = 1023
  DTB_FIXED = 3
  CBOR_SIZE = 5
  NameLen <- MCNameLen
  Inputs <- MCInputs
  NewCmdlines <- MCNewCmdlines
INVARIANT
  EditedTreeIsParsedWhole
