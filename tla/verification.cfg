CONSTANTS
  docs = docs
  api = api
  mirror = mirror
  probe = probe
  None = None
  AttachWindow = 2
  DampingDefault = 1
  DampingStatus = 1
  Trait <- MCTrait
  Candidates <- MCCandidates
  Sources = {docs, api, mirror}
  Registered = {docs, api, mirror}
  Excluded = {}
  Evidence = {{docs}, {mirror}}
  Collects = {ingest1, ingest2}
  Sweeps = {sweep1}
  Reviews = {review}
  ConfirmedOnly = {x}
  AnyStatus = {tracker}
  MaxTime = 1
  MaxAnnotations = 2
  MaxReviews = 1
  MaxPublications = 0
SPECIFICATION Spec
CHECK_DEADLOCK FALSE
SYMMETRY MCSymmetry
INVARIANTS
  TypeInvariant
  VerifierNeverOverrules
  VerdictsInOrder
  OneSerialChain
  ConfirmEarned
