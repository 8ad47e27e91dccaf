SPECIFICATION Spec
CONSTANTS
  b1 = b1
  b2 = b2
  n1 = n1
  cable = cable
  adapter = adapter
  r1 = r1
  r2 = r2
  None = None
  Bins = {b1, b2}
  NewCodes = {n1}
  Items = {cable, adapter}
  Tokens <- Words
  Starts <- TwoRuns
  Foundings <- Cluster
  Sessions = {s1, s2}
  Agenda <- ChangeOfMind
  MaxCrashes = 1
SYMMETRY AlikeSessions
INVARIANTS
  TypeOK
  IInv
  ReceiptsAllOrNone
  StopAnswersAreTrue
  FoundingIsWhole
  FeedbackNamesOneBin
PROPERTIES
  OverruledNeverReturns
