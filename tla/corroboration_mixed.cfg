CONSTANTS
  docs = docs
  api = api
  mirror = mirror
  page1 = page1
  page2 = page2
  v1 = v1
  None = None
  StatusPage = StatusPage
  AttachWindow = 6
  DampingDefault = 4
  DampingStatus = 2
  DayLength = 2
  Trait <- MCTrait
  Covers <- MCCovers
  Baseline <- MCBaseline
  Collectors <- MCCollectors
  Sources = {docs, api, mirror, page1}
  Registered = {docs, api, mirror, page1}
  LimitTracks = {}
  ModelTracks = {m1}
  IncidentTracks = {inc1, inc2}
  Values = {v1, v2}
  PublishBlocked = {docs}
  MayBeInvalid = {m1}
  Instants = {0, 1, 6}
  StopTimes = {0}
  MaxFiles = 3
SPECIFICATION Spec
SYMMETRY MCSymmetry
CHECK_DEADLOCK FALSE
INVARIANTS
  ClaimNeedsPair
  AnnotatedInWindow
PROPERTIES
  LedgerSpec
