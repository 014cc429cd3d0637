CONSTANTS
  pinned = pinned
  feed = feed
  None = None
  Hosts = {pinned}
  SourcesOn <- MCSourcesOn
  Pins <- MCPins
  RobotsFiles <- MCRobotsFiles
  Quotes = {q1}
  NoQuote = NoQuote
  Policies = {a1, a2}
  DocumentSets = {d1, d2}
  Passes <- MCPasses
  MaxChanges = 1
  MaxStops = 1
SPECIFICATION Spec
INVARIANTS
  TypeInvariant
  AdoptionsQueued
  DriftIsQueued
PROPERTIES
  LapseIsHeard
