CONSTANTS
  docs = docs
  api = api
  mirror = mirror
  page1 = page1
  page2 = page2
  v1 = v1
  None = None
  StatusPage = StatusPage
  AttachWindow = 6
  DampingDefault = 4
  DampingStatus = 2
  DayLength = 2
  Trait <- MCTrait
  Covers <- MCCovers
  Baseline <- MCBaseline
  Collectors <- MCCollectors
  Sources = {docs, api, mirror}
  Registered = {docs, api, mirror}
  LimitTracks = {price}
  ModelTracks = {}
  IncidentTracks = {}
  Values = {v1, v2, v3}
  PublishBlocked = {}
  MayBeInvalid = {}
  Instants = {0, 1, 5, 6}
  StopTimes = {}
  MaxFiles = 3
SPECIFICATION Spec
CHECK_DEADLOCK FALSE
PROPERTIES
  ReversalLeavesRecord
