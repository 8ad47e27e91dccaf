SPECIFICATION Spec
CONSTANTS
  b1 = b1
  b2 = b2
  n1 = n1
  cable = cable
  adapter = adapter
  r1 = r1
  r2 = r2
  None = None
  Bins = {b1, b2}
  NewCodes = {n1}
  Items = {cable, adapter}
  Tokens <- Words
  Starts <- OneRun
  Foundings <- NoCluster
  Sessions = {s1}
  Agenda <- StartAgain
  MaxCrashes = 1
INVARIANTS
  ReplayReturnsReceipts
