SPECIFICATION Spec
CONSTANTS
  prog = prog
  Proc = {p, q}
  Path = {prog, data}
  Inode = {i1, i2}
  Handle = {h1, h2, h3, h4}
  Fd = {3, 4}
  program <- MCProgram
  NoProc = noproc
  NoPath = nopath
  NoInode = noinode
  NoHandle = nohandle
SYMMETRY Symmetry
INVARIANTS TypeOK LockIsGivenBack DescriptorsOpen FilesAccounted OwnProgramDenied
PROPERTIES TablesArePrivate
CHECK_DEADLOCK FALSE
