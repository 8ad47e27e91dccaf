SPECIFICATION LabelsSpec
CONSTANTS
  garage = garage
  storage = storage
  a1 = a1
  a2 = a2
  d1 = d1
  d2 = d2
  None = None
  Sites = {garage, storage}
  Actions = {a1, a2}
  Details = {d1, d2}
  Sessions = {s1, s2}
  Requests <- AllKinds
  Earlier <- OnFile
  Contained <- AtStorage
  Moved <- AtGarage
  LastDay = 2
  MaxPlaceSeq = 2
  MaxCrashes = 1
  Handlers = {h1, h2}
  Shots = {p1, p2}
  Items = {drill, saw}
  theme = theme
  Profiles <- OneProfile
  Nothing = None
  Horizon = 3
  MaxInstants = 5
  MaxForms = 2
  MaxStops = 1
SYMMETRY Alike
INVARIANTS
  TypeOK
  IInv
  RegisteredIsPlaced
  CodesIdentifyActions
  LabelsNameRegistrations
  OneLabelPerRegistration
  AnswersMatchRequests
  DismissedStaysDown
  OneAttemptPerForm
PROPERTIES
  ImplementsCodeBook
