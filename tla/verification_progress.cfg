CONSTANTS
  docs = docs
  api = api
  mirror = mirror
  probe = probe
  None = None
  AttachWindow = 2
  DampingDefault = 1
  DampingStatus = 1
  Trait <- MCTrait
  Candidates <- MCStatements
  Sources = {docs, api, probe}
  Registered = {docs, api, probe}
  Excluded = {}
  Evidence = {{api}, {probe}}
  Collects = {ingest1}
  Sweeps = {sweep1}
  Reviews = {review}
  ConfirmedOnly = {x}
  AnyStatus = {tracker}
  MaxTime = 2
  MaxAnnotations = 2
  MaxReviews = 1
  MaxPublications = 1
SPECIFICATION Spec
CHECK_DEADLOCK FALSE
PROPERTIES
  CorroboratedIsDecided
  StandingSpec
