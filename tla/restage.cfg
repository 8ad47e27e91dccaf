SPECIFICATION EvidenceSpec
CONSTANTS
  None = None
  Photos = {p1, p2}
  Writers = {w1, w2}
  MaxAge = 1
  MaxClock = 4
  MaxEnvelopes = 3
  MaxFailures = 1
  Parts <- Transfers
  Rehearse = TRUE
  Sites = {garage, cabin}
  Orders = {order}
  Keyed = {"create", "clear"}
  Window = 2
  MaxEvents = 3
  LastInstant = 6
  Requests = {request}
  MaxCopies = 4
  MaxHalts = 1
SYMMETRY Alike
INVARIANTS
  RehearsalKeepsPhotos
