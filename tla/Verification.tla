---------------------------- MODULE Verification ----------------------------
(***************************************************************************)
(* One candidate event from the moment it is on main until it is decided.  *)
(* Collectors annotate it, the verifier's sweep confirms it (pipeline.py), *)
(* people review it, a publisher shows it.  None of them writes main: each *)
(* works on a branch cut from main and lands it through the merge queue,   *)
(* which refuses a branch that adds a file main already has, and one that  *)
(* makes the store linter red (lint.py).  Status is folded from the merged *)
(* chains by the time each record was made (status.py), not by the time it *)
(* landed.                                                                 *)
(***************************************************************************)
EXTENDS Independence, FiniteSets, Sequences

CONSTANTS
  Candidates,       \* what the event may be: [source, absence, type]
  Excluded,         \* sources the registry excludes
  Evidence,         \* the sources a candidate of a later run may come from
  Collects,         \* ingest/collect-* branches open at one time
  Sweeps,           \* ingest/verify-* branches open at one time
  Reviews,          \* branches of human reviewers open at one time
  ConfirmedOnly,    \* surfaces that never show an unconfirmed event
  AnyStatus,        \* the other surfaces
  MaxTime,          \* bound: the clock
  MaxAnnotations,   \* bound: annotation files
  MaxReviews,       \* bound: verdicts of human reviewers
  MaxPublications   \* bound: publication records

Branches == Collects \union Sweeps \union Reviews

Surfaces == ConfirmedOnly \union AnyStatus

ASSUME CandidateAssumption ==
  /\ Candidates \subseteq [source: Registered, absence: BOOLEAN, type: EventTypes]
  /\ Evidence \subseteq SUBSET Registered

ASSUME BranchAssumption ==
  /\ Collects \intersect Sweeps = {} /\ Collects \intersect Reviews = {}
  /\ Sweeps \intersect Reviews = {}
  /\ ConfirmedOnly \intersect AnyStatus = {}

VARIABLES
  now,            \* wall clock; the event was observed at 0
  event,          \* the event file, immutable
  annotations,    \* main: annotations/<event>/1.json, 2.json, ...
  verdicts,       \* main: verdicts/<event>/1.json, 2.json, ...
  publications,   \* main: publications/<event>/*
  branch          \* the open branches: [seq, since, chain], or None

vars == <<now, event, annotations, verdicts, publications, branch>>

mainVars == <<annotations, verdicts, publications>>

-----------------------------------------------------------------------------
(* Effective status at instant t, folded from the records made by then.    *)

Closers(vs, t) ==
  {n \in DOMAIN vs : vs[n].verdict \in {"confirm", "reject"} /\ vs[n].at <= t}

(* Fault: the verdicts of one instant are left in reverse.                 *)
LaterReversed(vs, m, n) == vs[m].at > vs[n].at \/ (vs[m].at = vs[n].at /\ m < n)

(* Verdicts are sorted by verified_at, and by seq within an instant.       *)
Later(vs, m, n) == vs[m].at > vs[n].at \/ (vs[m].at = vs[n].at /\ m > n)

Status(vs, t) ==
  IF Closers(vs, t) = {} THEN "unconfirmed"
  ELSE LET last == CHOOSE n \in Closers(vs, t) :
                     \A m \in Closers(vs, t) \ {n} : Later(vs, n, m)
       IN  IF vs[last].verdict = "confirm" THEN "confirmed" ELSE "retracted"

(* A verdict closes what was recorded up to its own instant.               *)
DiscrepancyOpen(vs, as, t) ==
  \/ \E n \in DOMAIN vs :
       /\ vs[n].verdict = "discrepancy" /\ vs[n].at <= t
       /\ \A c \in Closers(vs, t) : Later(vs, n, c)
  \/ \E n \in DOMAIN as :
       /\ as[n].kind = "discrepancy" /\ as[n].at <= t
       /\ \A c \in Closers(vs, t) : as[n].at > vs[c].at

-----------------------------------------------------------------------------
(* The store linter, as far as it judges one event's chains.               *)

LintAnnotations(as) ==
  \A n \in DOMAIN as :
    as[n].kind = "corroboration" =>
      /\ AnyIndependent(as[n].sources, {event.source})
      /\ event.absence => \E s \in as[n].sources : ConfirmsAbsence(s)

LintVerdicts(vs) ==
  \A n \in DOMAIN vs :
    vs[n].verdict = "confirm" =>
      /\ vs[n].rule = "provider-official" => ~event.absence
      /\ vs[n].rule = "two-source" =>
           /\ AnyIndependent(vs[n].cited, vs[n].cited \union {event.source})
           /\ event.absence => \E s \in vs[n].cited : ConfirmsAbsence(s)

(* A publication is judged by the records made up to its own instant.      *)
LintPublications(as, vs, ps) ==
  \A p \in ps :
    /\ ~DiscrepancyOpen(vs, as, p.at)
    /\ Status(vs, p.at) # "retracted"
    /\ p.surface \in ConfirmedOnly => Status(vs, p.at) = "confirmed"

Green(as, vs, ps) ==
  LintAnnotations(as) /\ LintVerdicts(vs) /\ LintPublications(as, vs, ps)

-----------------------------------------------------------------------------
(* Branches and the merge queue.  A branch has the chain of its checkout,  *)
(* which had no file seq yet, and what was added to it since then.         *)

Main(b) == IF b \in Collects THEN annotations ELSE verdicts

Added(b) == SubSeq(branch[b].chain, branch[b].seq, Len(branch[b].chain))

(* Fault: a file of the very next name is taken for the branch's own.      *)
ConflictsBeyondNext(b) == branch[b].seq < Len(Main(b))

(* Main has got a file of that name since.                                 *)
Conflicts(b) == branch[b].seq <= Len(Main(b))

MergedAnnotations(b) ==
  IF b \in Collects THEN annotations \o Added(b) ELSE annotations

MergedVerdicts(b) ==
  IF b \in Collects THEN verdicts ELSE verdicts \o Added(b)

(* Fault: the branch is rebased and its files renumbered behind main's.    *)
LandsRenumbered(b) ==
  /\ Added(b) # <<>>
  /\ Green(MergedAnnotations(b), MergedVerdicts(b), publications)

Lands(b) ==
  /\ Added(b) # <<>>
  /\ ~Conflicts(b)
  /\ Green(MergedAnnotations(b), MergedVerdicts(b), publications)

CutWith(b, chain) ==
  /\ branch[b] = None
  /\ branch' = [branch EXCEPT
       ![b] = [seq |-> Len(Main(b)) + 1, since |-> now, chain |-> chain]]
  /\ UNCHANGED <<now, event, mainVars>>

Propose(b, record) == CutWith(b, Append(verdicts, record))

Merge(b) ==
  /\ branch[b] # None
  /\ Lands(b)
  /\ annotations' = MergedAnnotations(b)
  /\ verdicts' = MergedVerdicts(b)
  /\ branch' = [branch EXCEPT ![b] = None]
  /\ UNCHANGED <<now, event, publications>>

(* A branch that cannot land is closed; the job of a collector may also be *)
(* killed.                                                                 *)
Abandon(b) ==
  /\ branch[b] # None
  /\ ~Lands(b) \/ b \in Collects
  /\ branch' = [branch EXCEPT ![b] = None]
  /\ UNCHANGED <<now, event, mainVars>>

-----------------------------------------------------------------------------
(* Collectors: what dispatch adds to the chain of an event in the store.   *)

Flappish == {"rollback", "flap"}

Flapped(as) == \E n \in DOMAIN as : as[n].kind \in Flappish

KnownSources(as) == {event.source} \union UNION {as[n].sources : n \in DOMAIN as}

Corroborates(as, from) ==
  \E s \in from \ KnownSources(as) :
    /\ event.absence => ConfirmsAbsence(s)
    /\ AnyIndependent({s}, KnownSources(as))

(* Sources report the event too: nothing is added if all did so before.    *)
Attach(as, from) ==
  LET novel == from \ KnownSources(as)
  IN  IF Flapped(as)
      THEN {[kind |-> "flap", sources |-> IF novel = {} THEN from ELSE novel]}
      ELSE {[kind |-> IF Corroborates(as, from) THEN "corroboration"
                                                ELSE "mirror-corroborated",
             sources |-> novel] : any \in {n \in {novel} : n # {}}}

(* Sources reverse the event.                                              *)
Damp(as, from, at) ==
  {[kind |-> IF Flapped(as) THEN "flap" ELSE "rollback", sources |-> f] :
     f \in {g \in {from} : at < DampingWindow(event.type)}}

Start(b) == CutWith(b, annotations)

(* The run comes to what the sources of from showed at the instant `at':   *)
(* within a run the hash of the ids decides what it looks at first.        *)
Collect(b, from, at) ==
  LET as == branch[b].chain
  IN  /\ branch[b] # None
      /\ at >= branch[b].since
      /\ at < AttachWindow
      /\ Len(as) < MaxAnnotations
      /\ \E a \in Attach(as, from) \union Damp(as, from, at)
                    \union {[kind |-> "discrepancy", sources |-> from]} :
           branch' = [branch EXCEPT
             ![b].chain = Append(@, [kind |-> a.kind, sources |-> a.sources, at |-> at])]
      /\ UNCHANGED <<now, event, mainVars>>

-----------------------------------------------------------------------------
(* The verifier's sweep.                                                   *)

Undecided ==
  /\ Status(verdicts, now) = "unconfirmed"
  /\ ~DiscrepancyOpen(verdicts, annotations, now)
  /\ ~Flapped(annotations)

Corroborations == {n \in DOMAIN annotations : annotations[n].kind = "corroboration"}

Cited ==
  {event.source} \union UNION {annotations[n].sources : n \in Corroborations}

(* Fault: more than one corroboration is taken for a conflict.             *)
TwoSourceSingle ==
  /\ \E n \in DOMAIN annotations : Corroborations = {n}
  /\ \E s \in Cited : Independent(s, event.source)

TwoSource ==
  /\ Corroborations # {}
  /\ Cited \subseteq Registered
  /\ \E s \in Cited : Independent(s, event.source)
  /\ event.absence =>
       \E s \in Cited : ConfirmsAbsence(s) /\ Independent(s, event.source)

OfficialClasses == {"official-api", "statuspage"}

ProviderOfficial ==
  /\ ~event.absence
  /\ event.source \notin Excluded
  /\ Trait[event.source].class \in OfficialClasses
  /\ Trait[event.source].lineage = "provider-primary"
  /\ ~Trait[event.source].corroborationOnly

(* Fault: the verdict carries the name of the status it leads to.          *)
ConfirmAsStatus(rule, cited) ==
  [verdict |-> "confirmed", by |-> "verifier", at |-> now, rule |-> rule,
   cited |-> cited]

Confirm(rule, cited) ==
  [verdict |-> "confirm", by |-> "verifier", at |-> now, rule |-> rule,
   cited |-> cited]

(* The second rule is tried when the first does not apply.                 *)
Review(b) ==
  /\ Undecided
  /\ \/ TwoSource /\ Propose(b, Confirm("two-source", Cited))
     \/ /\ ~TwoSource /\ ProviderOfficial
        /\ Propose(b, Confirm("provider-official", {event.source}))

-----------------------------------------------------------------------------
(* People, the publisher and time.                                         *)

Human(verdict, rule, cited) ==
  [verdict |-> verdict, by |-> "review", at |-> now, rule |-> rule, cited |-> cited]

Judge(b) ==
  /\ Len(SelectSeq(verdicts, LAMBDA v : v.by = "review")) < MaxReviews
  /\ \/ Propose(b, Human("reject", None, {}))
     \/ Propose(b, Human("discrepancy", None, {}))
     \/ Propose(b, Human("confirm", "two-source", KnownSources(annotations)))
     \/ Propose(b, Human("confirm", "direct-probe", KnownSources(annotations)))

(* The publisher shows what main allows now.                               *)
Publish(surface) ==
  LET p == [surface |-> surface, at |-> now]
  IN  /\ Cardinality(publications) < MaxPublications
      /\ LintPublications(annotations, verdicts, {p})
      /\ publications' = publications \union {p}
      /\ UNCHANGED <<now, event, annotations, verdicts, branch>>

Tick ==
  /\ now < MaxTime
  /\ now' = now + 1
  /\ UNCHANGED <<event, mainVars, branch>>

Init ==
  /\ now = 0
  /\ event \in Candidates
  /\ annotations = <<>>
  /\ verdicts = <<>>
  /\ publications = {}
  /\ branch = [b \in Branches |-> None]

Next ==
  \/ Tick
  \/ \E b \in Branches : Merge(b) \/ Abandon(b)
  \/ \E b \in Collects : Start(b)
  \/ \E b \in Collects, from \in Evidence, at \in 0 .. now :
       Collect(b, from, at)
  \/ \E b \in Sweeps : Review(b)
  \/ \E b \in Reviews : Judge(b)
  \/ \E surface \in Surfaces : Publish(surface)

(* The sweep runs every hour and is never cancelled; its branch enters the *)
(* queue by itself, and one that cannot land is closed.                    *)
Fairness ==
  \A b \in Sweeps : WF_vars(Review(b)) /\ WF_vars(Merge(b) \/ Abandon(b))

Spec == Init /\ [][Next]_vars /\ Fairness

-----------------------------------------------------------------------------
(* Properties.                                                             *)

AnnotationKinds ==
  {"corroboration", "mirror-corroborated", "rollback", "flap", "discrepancy"}

Annotation == [kind: AnnotationKinds, sources: SUBSET Sources, at: Nat]

Rules == {"two-source", "provider-official", "direct-probe", None}

Verdict ==
  [verdict: {"confirm", "reject", "discrepancy"}, by: {"verifier", "review"},
   at: Nat, rule: Rules, cited: SUBSET Sources]

Branch(b) ==
  [seq: Nat \ {0}, since: Nat,
   chain: IF b \in Collects THEN Seq(Annotation) ELSE Seq(Verdict)]

(* Every record has the shape its schema pins, on main and on a branch.    *)
TypeInvariant ==
  /\ now \in Nat
  /\ event \in Candidates
  /\ annotations \in Seq(Annotation)
  /\ verdicts \in Seq(Verdict)
  /\ publications \subseteq [surface: Surfaces, at: Nat]
  /\ branch = [b \in Branches |-> branch[b]]
  /\ \A b \in Branches : branch[b] \in Branch(b) \union {None}

(* A reject stands, a confirm is given once, and an open discrepancy       *)
(* verdict is for people to close: the verifier's verdict never follows    *)
(* another one, whatever its checkout showed it (pipeline.py:152-163).     *)
VerifierNeverOverrules ==
  \A n \in DOMAIN verdicts : verdicts[n].by = "verifier" => n = 1

(* status.py:4-5 folds the verdict chain "in seq order", and fold_chain    *)
(* sorts by time: on every chain the queue lets through they are the same, *)
(* as a verdict is never older than the one before it.  An annotation may  *)
(* be: one run adds several, not in the order of their times.              *)
VerdictsInOrder ==
  \A n \in DOMAIN verdicts : \A m \in 1 .. n : verdicts[m].at <= verdicts[n].at

Follows(new, old) ==
  /\ old.kind \in Flappish => new.kind \in {"flap", "discrepancy"}
  /\ new.kind \in {"corroboration", "mirror-corroborated"} =>
       old.sources \intersect new.sources = {}

(* Collectors that annotate one event from different checkouts leave the   *)
(* chain that one collector would: flap damping surfaces a pair once, and  *)
(* a source attaches once (corroborate.py:236-257).                        *)
OneSerialChain ==
  \A n \in DOMAIN annotations :
    \A m \in 1 .. n - 1 : Follows(annotations[n], annotations[m])

RepeatsDocs(s) ==
  \/ Trait[s].class = "provider-docs"
  \/ Trait[s].lineage = "third-party-aggregator"
  \/ Trait[s].corroborationOnly

OfficialStatement ==
  ~event.absence /\ Trait[event.source].class \in {"official-api", "statuspage"}

SecondSource(s) ==
  /\ Trait[s].class # Trait[event.source].class
  /\ ~(RepeatsDocs(s) /\ RepeatsDocs(event.source))
  /\ event.absence => Trait[s].class \in {"provider-docs", "own-probe"}

SecondSourceBy(t) ==
  \E k \in DOMAIN annotations :
    /\ annotations[k].kind = "corroboration"
    /\ annotations[k].at <= t
    /\ \E s \in annotations[k].sources : SecondSource(s)

(* What the verifier confirms is the provider's official statement, or     *)
(* main holds a corroboration made by then from a source of another class, *)
(* of which not both repeat the docs: mirrors confirm nothing among them,  *)
(* and an absence needs a positive statement (pipeline.py:16-29).          *)
ConfirmEarned ==
  \A n \in DOMAIN verdicts :
    verdicts[n].by = "verifier" =>
      OfficialStatement \/ SecondSourceBy(verdicts[n].at)

(* A corroborated candidate that nothing holds is decided, or something    *)
(* comes to hold it: the sweep confirms whatever the collectors and the    *)
(* linter agree is corroborated.                                           *)
Waiting ==
  /\ Status(verdicts, now) = "unconfirmed"
  /\ ~DiscrepancyOpen(verdicts, annotations, now)
  /\ \A n \in DOMAIN annotations : annotations[n].kind \notin {"rollback", "flap"}
  /\ \E n \in DOMAIN annotations : annotations[n].kind = "corroboration"

CorroboratedIsDecided == Waiting ~> ~Waiting

-----------------------------------------------------------------------------
(* The merged chains implement the standing of the event.                  *)

Public == INSTANCE Standing WITH
  said   <- [n \in DOMAIN verdicts |->
               [by |-> verdicts[n].by, verdict |-> verdicts[n].verdict]],
  ruling <- Status(verdicts, now),
  held   <- DiscrepancyOpen(verdicts, annotations, now),
  shown  <- {p.surface : p \in publications}

(* Though records land late and are folded by the time they were made, the *)
(* event stands as the last ruling that landed says: none is without       *)
(* effect, and none but a ruling lifts a doubt (status.py:9-20); the       *)
(* verifier only decides first, and what is shown stands as its surface    *)
(* needs.                                                                  *)
StandingSpec == Public!Spec

-----------------------------------------------------------------------------
(* What the documentation says and the code does not do.                   *)

(* pipeline.py:32-37 "rolled-back / flap-damped candidates - the pair is   *)
(* surfaced once and never auto-confirmed": no confirm of the verifier is  *)
(* later than a rollback on record.  The sweep reads its own checkout, so  *)
(* a rollback that is recorded but still on an ingest branch is not seen,  *)
(* and both land.                                                          *)
NeverAutoConfirmed ==
  \A n \in DOMAIN verdicts : \A k \in DOMAIN annotations :
    verdicts[n].by = "verifier" /\ annotations[k].kind \in Flappish =>
      verdicts[n].at <= annotations[k].at

=============================================================================
