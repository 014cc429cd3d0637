CONSTANTS
  docs = docs
  api = api
  mirror = mirror
  page1 = page1
  page2 = page2
  v1 = v1
  None = None
  StatusPage = StatusPage
  AttachWindow = 2
  DampingDefault = 1
  DampingStatus = 1
  DayLength = 1
  Trait <- MCTrait
  Covers <- MCCovers
  Baseline <- MCBaseline
  Collectors <- MCCollectors
  Sources = {docs, api}
  Registered = {docs, api}
  LimitTracks = {price}
  ModelTracks = {}
  IncidentTracks = {}
  Values = {v1, v2}
  PublishBlocked = {}
  MayBeInvalid = {}
  Branches = {ingest1, ingest2}
  Staged = {"events", "snapshots"}
  Instants = {0, 1, 2}
  StopTimes = {}
  MaxFiles = 12
  MaxChanges = 2
  MaxFaults = 1
SPECIFICATION IngestSpec
INVARIANTS
  SnapshotsBacked
