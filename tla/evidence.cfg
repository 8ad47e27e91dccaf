SPECIFICATION EvidenceSpec
CONSTANTS
  None = None
  Photos = {p1, p2}
  Writers = {w1, w2}
  MaxAge = 1
  MaxClock = 4
  MaxEnvelopes = 3
  MaxFailures = 1
  Parts <- AllParts
  Rehearse = FALSE
  Sites = {garage, cabin}
  Orders = {order}
  Keyed = {"create", "clear"}
  Window = 2
  MaxEvents = 3
  LastInstant = 6
  Requests = {request}
  MaxCopies = 3
  MaxHalts = 1
SYMMETRY Alike
INVARIANTS
  ArrivedMeansCurrent
  OrdersFollowTheOwner
  LinkedPhotoOpens
  FreshBackupHoldsAll
  ImportedIsWhole
