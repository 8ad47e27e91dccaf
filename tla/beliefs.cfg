SPECIFICATION MCSpec
CONSTANTS
  b1 = b1
  b2 = b2
  garage = garage
  cabin = cabin
  t1 = t1
  gps = gps
  gpsAgain = gpsAgain
  ocr = ocr
  None = None
  Bins = {b1, b2}
  Sites = {garage, cabin}
  Trips = {t1}
  Home <- Unplaced
  Sources = {"photo_gps", "peripheral_ocr"}
  Prior <- Priors
  DefaultHalfLife = 2
  Passes = {gps, gpsAgain, ocr}
  SourceOf <- TwoSources
  Autocommit = {ocr}
  Fixes <- AwayOrEdge
  Dates = {3}
  MaxTripSeq = 5
  MaxNestSeq = 2
  MaxCaptures = 2
  MaxClock = 5
  MaxPasses = 2
  MaxCrashes = 1
SYMMETRY Symmetry
INVARIANTS
  EvidenceCountsOnce
  AsOfIsWhatWasServed
PROPERTIES
  HarvestNeverRelocates
