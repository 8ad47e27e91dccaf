SPECIFICATION FairSpec
CONSTANTS
  garage = garage
  storage = storage
  a1 = a1
  a2 = a2
  d1 = d1
  d2 = d2
  None = None
  Sites = {garage, storage}
  Actions = {a1, a2}
  Details = {d1, d2}
  Sessions = {s1, s2}
  Requests <- Queue
  Earlier <- OnFile
  Contained <- AtStorage
  Moved <- AtGarage
  LastDay = 2
  MaxPlaceSeq = 1
  MaxCrashes = 1
PROPERTIES
  EverySubmissionAnswered
