---------------------------- MODULE Corroboration ---------------------------
(***************************************************************************)
(* The corroboration engine over the event store: collectors observe their *)
(* sources, the diff engine turns a changed snapshot into one candidate    *)
(* event, and the engine decides -- mint, attach, damp or hold -- and      *)
(* writes the outcome (collectors/.../corroborate.py, dispatched from      *)
(* runner.py).                                                             *)
(*                                                                         *)
(* What a source publishes is split into tracks: a modelled value (a limit *)
(* or a price), a model's presence in a listing, or an incident on a       *)
(* status page.  A collector fetches its sources one after the other, each *)
(* at its own time, and merges their candidates; only then it dispatches   *)
(* them, in the order of their ids.  Ids sort by day, and within a day by  *)
(* a hash: what was observed later that day may be dispatched earlier.     *)
(***************************************************************************)
EXTENDS Independence, FiniteSets, Sequences

CONSTANTS
  LimitTracks,      \* (model, field) pairs that carry a value
  ModelTracks,      \* canonical model ids that appear in listings
  IncidentTracks,   \* incident ids of the status page
  StatusPage,       \* the status page's field path incidents[].id
  Values,           \* what a limit may be
  Covers,           \* the tracks each source's snapshot holds
  Collectors,       \* the sources of each collector, in the order fetched
  MayBeInvalid,     \* subjects whose events may fail a schema
  Baseline,         \* the state of every track at the seeding run
  PublishBlocked,   \* sources whose registry caveat blocks publishing
  DayLength,        \* 24h
  Instants,         \* bound: the times at which anything happens
  StopTimes,        \* bound: the times at which a collector may stop
  MaxFiles          \* bound: event and annotation files in the store

Tracks == LimitTracks \union ModelTracks \union IncidentTracks

TrackStates(t) ==
  CASE t \in LimitTracks -> Values
    [] t \in ModelTracks -> {None, t}
    [] OTHER             -> {None, "open", "resolved"}

ASSUME TrackAssumption ==
  /\ \A t \in Tracks : Baseline[t] \in TrackStates(t)
  /\ DOMAIN Baseline = Tracks
  /\ LimitTracks \intersect ModelTracks = {}
  /\ IncidentTracks \intersect (LimitTracks \union ModelTracks) = {}
  /\ Covers \in [Sources -> SUBSET Tracks]
  /\ PublishBlocked \subseteq Sources
  /\ DayLength \in Nat \ {0}
  /\ Instants \subseteq Nat

ASSUME CollectorAssumption ==
  \A c \in Collectors : c \in Seq(Registered) /\ c # <<>>

VARIABLES
  now,          \* wall clock
  seen,         \* seen[s][t]: snapshots/<s>/latest.json, the diff baseline
  left,         \* the sources the running collector has still to fetch
  staged,       \* its merged candidates that were not dispatched yet
  events,       \* event id -> event file
  sidecars,     \* event ids with an identity-keys/<id>.json
  annotations   \* event id -> annotations/<id>/1.json, 2.json, ...

vars == <<now, seen, left, staged, events, sidecars, annotations>>

storeVars == <<events, sidecars, annotations>>

-----------------------------------------------------------------------------
(* Identity keys and candidate events: the diff engine and build_outputs.  *)

(* Does the change of track t from old to new classify as an event?  An    *)
(* incident that leaves the page, or reopens, is dropped.                  *)
Material(t, old, new) ==
  /\ old # new
  /\ t \in IncidentTracks =>
       \/ old = None
       \/ old = "open" /\ new = "resolved"

KeyOf(t, old, new) ==
  CASE t \in LimitTracks ->
         [subject |-> t, type |-> "limits.changed", old |-> old, new |-> new]
    [] t \in ModelTracks ->
         [subject |-> t, old |-> old, new |-> new,
          type |-> IF new = t THEN "model.released" ELSE "model.deprecated"]
    [] t \in IncidentTracks /\ old = None ->
         [subject |-> StatusPage, type |-> "outage.started",
          old |-> None, new |-> t]
    [] OTHER ->
         [subject |-> t, type |-> "outage.resolved", old |-> old, new |-> new]

(* A disappearance from a listing is a negative inference; only a docs     *)
(* page states it.                                                         *)
IsAbsence(s, k) ==
  k.type = "model.deprecated" /\ Trait[s].class # "provider-docs"

Candidate(s, t, old, new) ==
  LET k == KeyOf(t, old, new)
  IN  [key |-> k, observed |-> now, evidence |-> {s}, absence |-> IsAbsence(s, k)]

Day(time) == time \div DayLength

EventId(c) == <<Day(c.observed), c.key>>

-----------------------------------------------------------------------------
(* Candidate lookup.                                                       *)

(* Fault: the window closes one unit before the linter's.                  *)
CandidatesNarrow(obs) ==
  {i \in DOMAIN events : /\ events[i].observed <= obs
                         /\ obs - events[i].observed < AttachWindow - 1}

CandidatesWithin(obs) ==
  {i \in DOMAIN events : /\ events[i].observed <= obs
                         /\ obs - events[i].observed < AttachWindow}

(* Several candidates may share the latest instant: the code takes the one *)
(* whose hash8 sorts last, which here may be any of them.                  *)
Latest(ids) ==
  {i \in ids : \A j \in ids : events[j].observed <= events[i].observed}

HashMatches(k, obs) == {i \in CandidatesWithin(obs) : events[i].key = k}

(* A candidate without an identity-key sidecar cannot be compared.         *)
PartialMatches(k, obs) ==
  {i \in CandidatesWithin(obs) \intersect sidecars :
     PartialKey(events[i].key) = PartialKey(k)}

(* Fault: an open reversal is damped however old it is.                    *)
ReversalOfAnyAge(k, obs) == Latest(HashMatches(InverseKey(k), obs))

(* The open event that k reverses inside its damping window, if any.       *)
DampedReversal(k, obs) ==
  {i \in Latest(HashMatches(InverseKey(k), obs)) :
     obs - events[i].observed < DampingWindow(events[i].key.type)}

(* Fault: only the event file says which sources are attached.             *)
EvidenceOnly(i) == events[i].evidence

KnownSources(i) ==
  events[i].evidence
    \union UNION {annotations[i][n].sources : n \in DOMAIN annotations[i]}

Flappish == {"rollback", "flap"}

(* Fault: a first rollback does not count as an oscillation yet.           *)
FlappedTwice(i) == \E n \in DOMAIN annotations[i] : annotations[i][n].kind = "flap"

Flapped(i) == \E n \in DOMAIN annotations[i] : annotations[i][n].kind \in Flappish

-----------------------------------------------------------------------------
(* Store writes.                                                           *)

Files == UNION {{i} \X (0 .. Len(annotations[i])) : i \in DOMAIN events}

RoomFor(n) == Cardinality(Files) + n <= MaxFiles

Annotate(i, kind, srcs, at) ==
  /\ RoomFor(1)
  /\ annotations' =
       [annotations EXCEPT
          ![i] = Append(@, [kind |-> kind, sources |-> srcs, at |-> at])]
  /\ UNCHANGED <<events, sidecars>>

(* The chain a minted event starts with: the publish block, if any of its  *)
(* sources carries one.                                                    *)
FirstChain(c) ==
  IF c.evidence \intersect PublishBlocked = {}
  THEN <<>>
  ELSE <<[kind |-> "note", sources |-> c.evidence, at |-> c.observed]>>

Extend(f, i, v) == [j \in DOMAIN f \union {i} |-> IF j = i THEN v ELSE f[j]]

(* An event file that exists is never rewritten.                           *)
Mint(c) ==
  IF EventId(c) \in DOMAIN events
  THEN UNCHANGED storeVars
  ELSE /\ RoomFor(1 + Len(FirstChain(c)))
       /\ events' = Extend(events, EventId(c), c)
       /\ sidecars' = sidecars \union {EventId(c)}
       /\ annotations' = Extend(annotations, EventId(c), FirstChain(c))

(* The collector stops after write_event, before the identity key or, when *)
(* there is one to write, before the publish block.                        *)
MintTorn(c) ==
  /\ EventId(c) \notin DOMAIN events
  /\ RoomFor(1)
  /\ events' = Extend(events, EventId(c), c)
  /\ annotations' = Extend(annotations, EventId(c), <<>>)
  /\ \/ UNCHANGED sidecars
     \/ FirstChain(c) # <<>> /\ sidecars' = sidecars \union {EventId(c)}

-----------------------------------------------------------------------------
(* Outcomes.                                                               *)

Novel(i, c) == c.evidence \ KnownSources(i)

(* Fault: the absence carve-out is forgotten.                              *)
CorroboratesAnyClass(i, c) == AnyIndependent(Novel(i, c), KnownSources(i))

Corroborates(i, c) ==
  \E s \in Novel(i, c) :
    /\ events[i].absence => ConfirmsAbsence(s)
    /\ AnyIndependent({s}, KnownSources(i))

AttachFlap(i, c) ==
  /\ Flapped(i)
  /\ Annotate(i, "flap", IF Novel(i, c) # {} THEN Novel(i, c) ELSE c.evidence,
              c.observed)

AttachKnown(i, c) ==
  /\ ~Flapped(i)
  /\ Novel(i, c) = {}
  /\ UNCHANGED storeVars

AttachNovel(i, c) ==
  /\ ~Flapped(i)
  /\ Novel(i, c) # {}
  /\ Annotate(i, IF Corroborates(i, c) THEN "corroboration"
                                       ELSE "mirror-corroborated",
              Novel(i, c), c.observed)

Attach(i, c) == AttachFlap(i, c) \/ AttachKnown(i, c) \/ AttachNovel(i, c)

Damp(i, c) ==
  Annotate(i, IF Flapped(i) THEN "flap" ELSE "rollback", c.evidence, c.observed)

(* Fault: the annotation carries the kind of the exceptions-queue item.    *)
DiscrepancyMisnamed(i, c) == Annotate(i, "value-conflict", c.evidence, c.observed)

Discrepancy(i, c) == Annotate(i, "discrepancy", c.evidence, c.observed)

-----------------------------------------------------------------------------
(* Dispatch: exactly one outcome per candidate.                            *)

SameKey(c) == HashMatches(c.key, c.observed)

Reversed(c) == DampedReversal(c.key, c.observed)

SameField(c) == PartialMatches(c.key, c.observed)

DispatchSameKey(c) == \E i \in Latest(SameKey(c)) : Attach(i, c)

DispatchReversal(c) ==
  /\ SameKey(c) = {}
  /\ \E i \in Reversed(c) : Damp(i, c)

(* Same field, same end state, reached from a stale baseline.              *)
DispatchEndState(c) ==
  /\ SameKey(c) = {} /\ Reversed(c) = {}
  /\ \E i \in Latest(SameField(c)) :
       /\ c.key.old # events[i].key.new
       /\ c.key.new = events[i].key.new
       /\ Attach(i, c)

DispatchConflict(c) ==
  /\ SameKey(c) = {} /\ Reversed(c) = {}
  /\ \E i \in Latest(SameField(c)) :
       /\ c.key.old # events[i].key.new
       /\ c.key.new # events[i].key.new
       /\ Discrepancy(i, c)

(* Fault: a conflicting value mints unless it reverses an open event.      *)
MintsOverConflict(c) == SameKey(c) = {} /\ Reversed(c) = {}

Mints(c) ==
  /\ SameKey(c) = {} /\ Reversed(c) = {}
  /\ SameField(c) # {} =>
       \E i \in Latest(SameField(c)) : c.key.old = events[i].key.new

DispatchMint(c) == Mints(c) /\ Mint(c)

Dispatch(c) ==
  \/ DispatchSameKey(c)
  \/ DispatchReversal(c)
  \/ DispatchEndState(c)
  \/ DispatchConflict(c)
  \/ DispatchMint(c)

-----------------------------------------------------------------------------
(* The system.                                                             *)

Init ==
  /\ now = 0
  /\ seen = [s \in Sources |-> [t \in Covers[s] |-> Baseline[t]]]
  /\ left = <<>> /\ staged = {}
  /\ events = [i \in {} |-> None]
  /\ sidecars = {}
  /\ annotations = [i \in {} |-> None]

Tick ==
  /\ now' \in {time \in Instants : now < time}
  /\ UNCHANGED <<seen, left, staged, storeVars>>

(* The candidates of source s, whose snapshot becomes new.                 *)
Candidates(s, new) ==
  {Candidate(s, t, seen[s][t], new[t]) :
     t \in {u \in Covers[s] : Material(u, seen[s][u], new[u])}}

Twins(c, found) == {d \in found : EventId(d) = EventId(c)}

(* Two sources that come to one event id make one candidate: that of the   *)
(* first, with the evidence of both.                                       *)
Joined(c, found) ==
  [c EXCEPT !.evidence = @ \union UNION {d.evidence : d \in Twins(c, found)}]

MergedWith(found) ==
  {Joined(c, found) : c \in staged}
    \union {d \in found : \A c \in staged : EventId(c) # EventId(d)}

(* The collector is done, or none is running.                              *)
Done == left = <<>> /\ staged = {}

(* The running collector, or else a new one, comes to source s.            *)
TakeSource(s) ==
  \/ left # <<>> /\ s = Head(left) /\ left' = Tail(left)
  \/ Done /\ \E c \in Collectors : s = Head(c) /\ left' = Tail(c)

(* What the snapshot of source s may be.                                   *)
Readings(s) ==
  {new \in [Covers[s] -> UNION {TrackStates(t) : t \in Covers[s]}] :
     \A t \in Covers[s] : new[t] \in TrackStates(t)}

(* Source s, fetched now, shows new.  A source that fails shows nothing    *)
(* new: the runner goes on with the next.                                  *)
FetchSource(s, new) ==
  /\ RoomFor(1 + Cardinality(staged))
  /\ TakeSource(s)
  /\ seen' = [seen EXCEPT ![s] = new]
  /\ staged' = MergedWith(Candidates(s, new))
  /\ UNCHANGED <<now, storeVars>>

(* Fault: ids do not name the day first.                                   *)
NextInLine(c) == TRUE

(* In the order of ids no candidate of an earlier day is before c.         *)
FirstInLine(c) == \A d \in staged : Day(c.observed) <= Day(d.observed)

(* All sources are fetched, and c is next.                                 *)
Turn(c) == left = <<>> /\ FirstInLine(c)

DispatchNext(c) ==
  /\ Turn(c)
  /\ Dispatch(c)
  /\ staged' = staged \ {c}
  /\ UNCHANGED <<now, seen, left>>

(* The event, its key or the annotation fails its schema: nothing is       *)
(* written, and the run report lists the id.                               *)
DropInvalid(c) ==
  /\ Turn(c)
  /\ c.key.subject \in MayBeInvalid
  /\ staged' = staged \ {c}
  /\ UNCHANGED <<now, seen, left, storeVars>>

(* The collector stops: what it holds in memory is gone, what it wrote     *)
(* stays.                                                                  *)
Stop ==
  /\ now \in StopTimes
  /\ ~Done
  /\ left' = <<>> /\ staged' = {}
  /\ UNCHANGED <<now, seen, storeVars>>

StopTorn(c) ==
  /\ now \in StopTimes
  /\ Turn(c)
  /\ Mints(c) /\ MintTorn(c)
  /\ left' = <<>> /\ staged' = {}
  /\ UNCHANGED <<now, seen>>

Next ==
  \/ Tick
  \/ \E s \in Registered : \E new \in Readings(s) : FetchSource(s, new)
  \/ \E c \in staged : DispatchNext(c) \/ DropInvalid(c) \/ StopTorn(c)
  \/ Stop

Spec == Init /\ [][Next]_vars

-----------------------------------------------------------------------------
(* Properties.                                                             *)

AnnotationKinds ==
  {"corroboration", "mirror-corroborated", "rollback", "flap", "discrepancy",
   "note"}

EventKey ==
  [subject: Tracks \union {StatusPage}, type: EventTypes,
   old: Values \union Tracks \union {None, "open", "resolved"},
   new: Values \union Tracks \union {None, "open", "resolved"}]

Event ==
  [key: EventKey, observed: Nat, evidence: SUBSET Sources, absence: BOOLEAN]

Annotation == [kind: AnnotationKinds, sources: SUBSET Sources, at: Nat]

(* Every file of the store has the shape its schema pins, each event lies  *)
(* under the id minted from its own content, and a sidecar or a chain      *)
(* belongs to an event that exists.                                        *)
TypeOK ==
  /\ now \in Nat
  /\ DOMAIN seen = Sources
  /\ \A s \in Sources : /\ DOMAIN seen[s] = Covers[s]
                        /\ \A t \in Covers[s] : seen[s][t] \in TrackStates(t)
  /\ left \in Seq(Registered)
  /\ staged \subseteq Event
  /\ events = [i \in DOMAIN events |-> events[i]]
  /\ \A i \in DOMAIN events : events[i] \in Event /\ i = EventId(events[i])
  /\ sidecars \subseteq DOMAIN events
  /\ annotations = [i \in DOMAIN annotations |-> annotations[i]]
  /\ DOMAIN annotations = DOMAIN events
  /\ \A i \in DOMAIN events : annotations[i] \in Seq(Annotation)

(* Two events minted from one identity key are at least a whole attach     *)
(* window apart: what check_duplicate_candidates (E-DUP) demands of every  *)
(* store a collector proposes.                                             *)
NoDuplicateCandidates ==
  \A i, j \in DOMAIN events :
    /\ i # j
    /\ events[i].key = events[j].key
    /\ events[i].observed <= events[j].observed
    => events[j].observed - events[i].observed >= AttachWindow

SharesField(i, j) ==
  /\ PartialKey(events[i].key) = PartialKey(events[j].key)
  /\ events[i].observed <= events[j].observed
  /\ events[j].observed - events[i].observed < AttachWindow

Fetches(c) == {c[n] : n \in DOMAIN c}

(* One run of a collector may have brought both: they are of one day, and  *)
(* all their sources are among its own.                                    *)
OneRun(i, j) ==
  /\ Day(events[i].observed) = Day(events[j].observed)
  /\ \E c \in Collectors :
       events[i].evidence \union events[j].evidence \subseteq Fetches(c)

(* An event minted while another event of the same field is open continues *)
(* the state some open event of that field ended in: conflicting values    *)
(* never become two events, even after a torn mint.  Within one run of a   *)
(* collector it is the hash of the ids that decides which is looked at     *)
(* first, and the code gives no such guarantee (ConflictsAreDiscrepancies).*)
NoForkInWindow ==
  \A j \in DOMAIN events :
    (\E i \in sidecars : /\ SharesField(i, j)
                         /\ events[i].observed < events[j].observed
                         /\ ~OneRun(i, j))
    => \E i \in sidecars : SharesField(i, j) /\ events[i].key.new = events[j].key.old

(* Flap damping surfaces a pair once: at most one rollback per event, no   *)
(* flap before it, and nothing after it that counts toward confirmation.   *)
SurfacedOnce ==
  \A i \in DOMAIN events :
    \A n \in DOMAIN annotations[i] :
      LET kind == annotations[i][n].kind
          after == {m \in DOMAIN annotations[i] : m > n}
      IN  /\ kind = "flap" =>
               \E m \in DOMAIN annotations[i] :
                 m < n /\ annotations[i][m].kind = "rollback"
          /\ kind = "rollback" =>
               \A m \in after :
                 annotations[i][m].kind \notin
                   {"rollback", "corroboration", "mirror-corroborated"}

(* An event is annotated within its attach window, and rolled back within  *)
(* its damping window.  Its chain is in the order of the days of its       *)
(* created_at, though a run of the collector does not look at its          *)
(* candidates in the order of their times.                                 *)
AnnotatedInWindow ==
  \A i \in DOMAIN events :
    \A n \in DOMAIN annotations[i] :
      LET a == annotations[i][n]
      IN  /\ events[i].observed <= a.at
          /\ a.at - events[i].observed < AttachWindow
          /\ a.kind = "rollback" =>
               a.at - events[i].observed < DampingWindow(events[i].key.type)
          /\ \A m \in DOMAIN annotations[i] :
               m <= n => Day(annotations[i][m].at) <= Day(a.at)

(* A corroboration claim rests on a pair of independent sources among      *)
(* those on record for the event, so mirrors of one lineage can never make *)
(* one between them; and on an absence it cites a positive statement.      *)
ClaimNeedsPair ==
  \A i \in DOMAIN events :
    \A n \in DOMAIN annotations[i] :
      annotations[i][n].kind = "corroboration" =>
        /\ AnyIndependent(KnownSources(i), KnownSources(i))
        /\ events[i].absence =>
             \E s \in annotations[i][n].sources : ConfirmsAbsence(s)

Attaching == {"corroboration", "mirror-corroborated"}

(* A source attaches to an event once: no source of the evidence, or of an *)
(* earlier annotation, is cited again as corroboration or mirror.          *)
CountedOnce ==
  \A i \in DOMAIN events :
    \A n \in DOMAIN annotations[i] :
      annotations[i][n].kind \in Attaching =>
        /\ annotations[i][n].sources \intersect events[i].evidence = {}
        /\ \A m \in DOMAIN annotations[i] :
             m < n => annotations[i][m].sources
                        \intersect annotations[i][n].sources = {}

-----------------------------------------------------------------------------
(* The store implements the ledger of claims.                              *)

(* The annotations of these kinds: the event, and the time of the source's *)
(* observation.                                                            *)
Marks(kinds) ==
  UNION {{<<i, annotations[i][n].at>> :
            n \in {m \in DOMAIN annotations[i] : annotations[i][m].kind \in kinds}} :
         i \in DOMAIN events}

Ledger == INSTANCE ClaimLedger WITH
  Window    <- AttachWindow,
  clock     <- now,
  claims    <- [i \in DOMAIN events |->
                  [key |-> events[i].key, at |-> events[i].observed]],
  supported <- Marks({"corroboration"}),
  damped    <- Marks({"rollback", "flap"}),
  held      <- Marks({"discrepancy"})

(* The files the collectors write are a ledger of claims: events are never *)
(* rewritten or minted twice per window, and whatever is annotated happens *)
(* inside the window, with no support for a claim already taken back.      *)
LedgerSpec == Ledger!Spec

-----------------------------------------------------------------------------
(* What the documentation says and the code does not do.                   *)

(* collectors/README.md:43 "Mirror-lineage sources (OpenRouter / LiteLLM / *)
(* docs pages all share provider-docs lineage) append mirror-corroborated",*)
(* and the linter's E-CORR: a corroboration annotation cites a source      *)
(* independent of the event's own evidence.  The engine compares with      *)
(* every source on record, so after one genuine corroboration a mirror of  *)
(* the evidence is filed as a corroboration too.                           *)
ClaimIndependentOfEvidence ==
  \A i \in DOMAIN events :
    \A n \in DOMAIN annotations[i] :
      annotations[i][n].kind = "corroboration" =>
        AnyIndependent(annotations[i][n].sources, events[i].evidence)

(* The sources whose changes can be about a subject.                       *)
Voices(subject) ==
  {s \in Registered : \E t \in Covers[s] :
     t = subject \/ (t \in IncidentTracks /\ subject = StatusPage)}

(* No subject has a voice that is independent of one of the others and not *)
(* of another: it is told by at most two sources, by sources of which no   *)
(* two are independent, or by sources of which every two are.  With a docs *)
(* page, a models API and an aggregator a subject is mixed.                *)
Unmixed ==
  \A subject \in Tracks \union {StatusPage} :
    \A s, k, e \in Voices(subject) :
      Independent(s, k) /\ s # e => Independent(s, e)

(* corroborate.py:38-40 "Same partial key (provider, model, type,          *)
(* field_path) inside the window but a CONFLICTING new value: append a     *)
(* discrepancy annotation to the open candidate".  An event whose field    *)
(* another event observed earlier has open continues what that one says.   *)
(* When a run comes to the later observation first, the earlier one does   *)
(* not see it: both are minted, with no annotation on either.              *)
ConflictsAreDiscrepancies ==
  \A j \in DOMAIN events :
    (\E i \in sidecars : SharesField(i, j) /\ events[i].observed < events[j].observed)
    => \E i \in sidecars : SharesField(i, j) /\ events[i].key.new = events[j].key.old

(* collectors/README.md:45 "Equal-and-opposite reversal within 48h [...]   *)
(* appends a rollback annotation to the original".  A change that reverses *)
(* an open event inside its damping window leaves a record on that event.  *)
(* The engine looks for the same identity key first: when an older event   *)
(* of that key is still open too, its source is already known there and    *)
(* the change is dropped.                                                  *)
ReversalLeavesRecord ==
  [][\A c \in staged :
       DispatchNext(c) =>
         \A i \in Reversed(c) : Len(annotations'[i]) > Len(annotations[i])]_vars

=============================================================================
