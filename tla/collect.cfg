CONSTANTS
  azure = azure
  mirror = mirror
  parity = parity
  docsHost = docsHost
  elsewhere = elsewhere
  p1 = p1
  p2 = p2
  garbled = garbled
  index = index
  shorter = shorter
  nothing = nothing
  gpt = gpt
  grok = grok
  mini = mini
  large = large
  None = None
  Sources = {azure, mirror, parity}
  HostOf <- MCHostOf
  Registered = {docsHost}
  Hosts = {docsHost, elsewhere}
  ExcludedHosts = {}
  Excluded = {}
  Rulings = {{azure, mirror, parity}, {azure}}
  EveryFetch = {parity}
  Large = {}
  Chains <- MCChains
  Blank = nothing
  MaxAttempts = 2
  MaxPublications = 1
  Plan <- PlanOfTwo
  Task <- MCTask
  Raw <- MCRaw
  Numbered <- MCNumbered
  MaxPages = 2
  Canonical <- MCCanonical
  PrefixOf <- MCPrefixOf
  PrefixMap <- MCPrefixMap
SPECIFICATION Spec
INVARIANTS
  TypeInvariant
  OkIsInStep
  ChangesAccountedFor
  NothingInvented
  SnapshotsAreWhole
  SuccessMeansHeard
PROPERTIES
  ReadsSpec
  RunsEnd
