SPECIFICATION Spec
CONSTANTS
  b1 = b1
  b2 = b2
  b3 = b3
  b4 = b4
  home = home
  cabin = cabin
  t1 = t1
  k1 = k1
  k2 = k2
  k3 = k3
  k4 = k4
  k5 = k5
  k6 = k6
  None = None
  Bins = {b1, b2, b3, b4}
  Sites = {home, cabin}
  Trips = {t1}
  Keys = {k1, k2, k3, k4, k5, k6}
  Sessions = {s1}
  Home <- NewBin
  Requests <- StalePage
  MaxTripSeq = 3
  MaxCrashes = 1
PROPERTIES
  RetrievalNeverRelocates
