SPECIFICATION Spec
CONSTANTS
  Space <- MCSpace
  PGSIZE = 32
  PHYS_BASE = 192
  AddressSpace = 256
  NumPages = 4
  FileLength = 70
  Header <- MCHeader
  MaxHeaders = 2
  CommandLine <- MCCommandLine
INVARIANTS TypeOK UserSpaceOnly PagesAccounted ImageIsExact ArgumentsAreWords
CHECK_DEADLOCK FALSE
