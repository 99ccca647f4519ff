CONSTANTS
  a = a
  b = b
  Nobody = Nobody
  Item = {a, b}
  Call = {1, 2, 3}
  Orders <- Lists
SPECIFICATION FairSpec
INVARIANT TypeOK
INVARIANT PlaysShown
INVARIANT OnlyWholeFiles
PROPERTY FlagEnds
PROPERTY DownloadedOnce
CHECK_DEADLOCK FALSE
