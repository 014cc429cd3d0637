CONSTANTS
  docs = docs
  api = api
  mirror = mirror
  page1 = page1
  page2 = page2
  v1 = v1
  None = None
  StatusPage = StatusPage
  AttachWindow = 6
  DampingDefault = 4
  DampingStatus = 2
  DayLength = 2
  Trait <- MCTrait
  Covers <- MCCovers
  Baseline <- MCBaseline
  Collectors <- MCCollectors
  Sources = {page1, page2}
  Registered = {page1, page2}
  LimitTracks = {}
  ModelTracks = {}
  IncidentTracks = {inc1, inc2}
  Values = {v1}
  PublishBlocked = {}
  MayBeInvalid = {}
  Instants = {0, 1, 5, 6}
  StopTimes = {}
  MaxFiles = 3
SPECIFICATION Spec
CHECK_DEADLOCK FALSE
INVARIANTS
  ConflictsAreDiscrepancies
