CONSTANTS
  Sessions = {s1, s2}
  Names = {"x", "y"}
  MaxDepth = 2
  Contents = {"tiny", "medium", "big", "huge"}
  UploadLen <- MCUploadLen
  DownloadLen <- MCDownloadLen
  CatLen <- MCCatLen
  ListHead = 100
  EntryLen = 20000
  Home <- MCHome
  ServerDir <- MCServerDir
  Protected <- MCProtected
  InitialTree <- MCInitialTree
  Asked <- MCAsked
  Nowhere = Nowhere
  WordSize = 65536
  MaxParts = 4
  MaxBytes = 4
SPECIFICATION MCSpec
SYMMETRY Symmetry
INVARIANT
  StoredAsReported
CHECK_DEADLOCK FALSE
