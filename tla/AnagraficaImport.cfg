SPECIFICATION Spec
CONSTANTS
  f1 = f1
  f2 = f2
  x1 = x1
  k1 = k1
  k2 = k2
  s1 = s1
  s2 = s2
  t1 = t1
  t2 = t2
  h1 = h1
  everyone = everyone
  None = None
  Folders <- TwoFolders
  NameOf <- Names
  Files <- OneFile
  FolderOf <- InFirst
  MatchesOf <- LooksLikeVisura
  ChosenTypes <- Picked
  Keys <- TwoKeys
  SubjectIds <- TwoSubjects
  Copies <- TwoCopies
  Importers <- TwoImporters
  Handlers <- OneHandler
  Scopes <- OneScope
  FoldersIn <- FirstOnly
  Rank <- Ranked
  MaxCalls = 1
  MaxJobs = 1
  MaxCrashes = 1
SYMMETRY Alike
INVARIANTS DocumentsFiledOnce DetailsMatchType CompletedJobsAreSettled GoingOnIsAttended
PROPERTIES ImportsOnlyAdd CommitsAreSerial
CHECK_DEADLOCK FALSE
