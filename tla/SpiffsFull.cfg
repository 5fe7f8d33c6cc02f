SPECIFICATION Spec
CONSTANTS
  Names = {A, B}
  NoName = NoName
  NoHdr = NoHdr
  Ids = {f1, f2}
  NoId = NoId
  CPages = {p1, p2, p3, p4}
  NoPage = NoPage
  NumFds = 2
  LogPage = 2
  IxStarts = {2}
  MaxLen = 3
  Bufs <- Ones
  Lens <- OneAndAll
  Modes <- AllModes
  MayFill = TRUE
  Careful = TRUE
SYMMETRY Symmetry
VIEW CarefulView
INVARIANTS FdCacheOwned OnePagePerFile ReadPagesLeft 
