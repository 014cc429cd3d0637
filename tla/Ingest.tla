------------------------------- MODULE Ingest -------------------------------
(***************************************************************************)
(* The hourly collect job around the corroboration engine: a checkout of   *)
(* main, one run of the collectors over it, and a branch that lands        *)
(* through the merge queue when no file of it conflicts and the store      *)
(* linter is green on the result (collect.yml, ci.yml, lint.py).  One job  *)
(* runs at a time, but the next one may start while branches are waiting:  *)
(* it then works from a main that lacks what they carry.                   *)
(*                                                                         *)
(* The variables of Corroboration are the checkout the job works on, and   *)
(* its steps are what a run of one collector after the other does there.   *)
(***************************************************************************)
EXTENDS Corroboration

CONSTANTS
  Branches,    \* ingest/collect-* branches that may be open at one time
  Staged,      \* the directories `git add' takes into the branch
  MaxChanges,  \* bound: changes of what the providers publish
  MaxFaults    \* bound: sources that fail and jobs that are killed

ASSUME StagedAssumption == "events" \in Staged

VARIABLES
  main,      \* what has landed: [seen, events, sidecars, annotations]
  base,      \* main as the running job checked it out, or None
  todo,      \* the collectors the job has still to run
  branch,    \* the open branches: [base, head], or None
  shown,     \* shown[s][t]: what source s publishes now
  changes,   \* how often that has changed
  faults     \* how many faults there were

queueVars == <<main, branch>>

worldVars == <<shown, changes>>

runVars == <<left, staged>>

ingestVars == <<vars, main, base, todo, branch, shown, changes, faults>>

Running == base # None

Checkout ==
  [seen |-> seen, events |-> events, sidecars |-> sidecars,
   annotations |-> annotations]

Empty ==
  [seen |-> [s \in Sources |-> [t \in Covers[s] |-> Baseline[t]]],
   events |-> [i \in {} |-> None], sidecars |-> {},
   annotations |-> [i \in {} |-> None]]

CheckOut(store) ==
  /\ seen' = store.seen
  /\ events' = store.events
  /\ sidecars' = store.sidecars
  /\ annotations' = store.annotations

Chain(store, i) ==
  IF i \in DOMAIN store.annotations THEN store.annotations[i] ELSE <<>>

-----------------------------------------------------------------------------
(* The store linter, as far as it judges what collectors write.            *)

(* E-DUP: one identity key minted twice within the window.                 *)
Duplicates(store) ==
  \E i, j \in DOMAIN store.events :
    /\ i # j
    /\ store.events[i].key = store.events[j].key
    /\ store.events[j].observed >= store.events[i].observed
    /\ store.events[j].observed - store.events[i].observed < AttachWindow

(* E-CORR: a corroboration that cites nothing independent of the evidence, *)
(* or on an absence no positive statement.                                 *)
Unearned(store) ==
  \E i \in DOMAIN store.events : \E n \in DOMAIN store.annotations[i] :
    LET a == store.annotations[i][n]
    IN  /\ a.kind = "corroboration"
        /\ \/ ~AnyIndependent(a.sources, store.events[i].evidence)
           \/ store.events[i].absence /\ \A s \in a.sources : ~ConfirmsAbsence(s)

Lint(store) == ~Duplicates(store) /\ ~Unearned(store)

-----------------------------------------------------------------------------
(* Merging a branch: git's three-way merge, file by file.                  *)

(* The annotation files of event i that the branch adds.                   *)
Added(b, i) ==
  LET old == Len(Chain(branch[b].base, i))
      new == Chain(branch[b].head, i)
  IN  SubSeq(new, old + 1, Len(new))

(* Fault: an event is stamped with the time it lands.                      *)
MergedRestamped(b) ==
  LET new == branch[b].head
      ids == DOMAIN main.events \union DOMAIN new.events
  IN  [seen |-> new.seen, sidecars |-> main.sidecars \union new.sidecars,
       events |-> [i \in ids |-> IF i \in DOMAIN main.events THEN main.events[i]
                                ELSE [new.events[i] EXCEPT !.observed = now]],
       annotations |-> [i \in ids |-> Chain(main, i) \o Added(b, i)]]

Merged(b) ==
  LET old == branch[b].base
      new == branch[b].head
      ids == DOMAIN main.events \union DOMAIN new.events
  IN  [seen |-> [s \in Sources |-> [t \in Covers[s] |->
                   IF new.seen[s][t] = old.seen[s][t] THEN main.seen[s][t]
                                                      ELSE new.seen[s][t]]],
       events |-> [i \in ids |-> IF i \in DOMAIN main.events THEN main.events[i]
                                                             ELSE new.events[i]],
       sidecars |-> main.sidecars \union new.sidecars,
       annotations |-> [i \in ids |-> Chain(main, i) \o Added(b, i)]]

(* Both sides added the same event file: the evidence in it carries the    *)
(* instant of the fetch, so that the two always differ.                    *)
SameEventAdded(b) ==
  (DOMAIN branch[b].head.events \ DOMAIN branch[b].base.events)
    \intersect DOMAIN main.events # {}

(* Both sides added the same annotations/<event>/<seq>.json.               *)
SameSeqAdded(b) ==
  \E i \in DOMAIN branch[b].head.events :
    /\ Added(b, i) # <<>>
    /\ Len(Chain(main, i)) > Len(Chain(branch[b].base, i))

(* Both sides changed a track of a snapshot, to different states.          *)
SnapshotsDiffer(b) ==
  \E s \in Sources : \E t \in Covers[s] :
    /\ branch[b].head.seen[s][t] # branch[b].base.seen[s][t]
    /\ main.seen[s][t] # branch[b].base.seen[s][t]
    /\ main.seen[s][t] # branch[b].head.seen[s][t]

(* Fault: a chain file of the same name is no conflict but is renumbered.  *)
ConflictsButForChains(b) == SameEventAdded(b) \/ SnapshotsDiffer(b)

Conflicts(b) == SameEventAdded(b) \/ SameSeqAdded(b) \/ SnapshotsDiffer(b)

(* Both sides changed derived/state.json, which every event and annotation *)
(* does, or one snapshot file: git merges two changes of a file when they  *)
(* lie far enough apart, and otherwise not.                                *)
Overlaps(b) ==
  LET Derived(store) == <<store.events, store.annotations>>
      old == branch[b].base
      new == branch[b].head
  IN  \/ Derived(new) # Derived(old) /\ Derived(main) # Derived(old)
      \/ \E s \in Sources : new.seen[s] # old.seen[s] /\ main.seen[s] # old.seen[s]

Lands(b) == ~Conflicts(b) /\ Lint(Merged(b))

Merge(b) ==
  /\ branch[b] # None
  /\ Lands(b)
  /\ main' = Merged(b)
  /\ branch' = [branch EXCEPT ![b] = None]
  /\ UNCHANGED <<vars, base, todo, worldVars, faults>>

(* A branch that does not land is closed; nothing renumbers or rebuilds it. *)
Close(b) ==
  /\ branch[b] # None
  /\ ~Lands(b) \/ Overlaps(b)
  /\ branch' = [branch EXCEPT ![b] = None]
  /\ UNCHANGED <<vars, main, base, todo, worldVars, faults>>

-----------------------------------------------------------------------------
(* The job.                                                                *)

Start ==
  /\ ~Running
  /\ base' = main
  /\ todo' = Collectors
  /\ CheckOut(main)
  /\ UNCHANGED <<now, runVars, queueVars, worldVars, faults>>

(* The running collector goes on, or the job runs another one.             *)
NextSource(s) ==
  /\ Running
  /\ TakeSource(s)
  /\ \/ left # <<>> /\ UNCHANGED todo
     \/ \E c \in todo : /\ left = <<>> /\ s = Head(c) /\ left' = Tail(c)
                        /\ todo' = todo \ {c}

Fetch(s) ==
  /\ NextSource(s)
  /\ FetchSource(s, shown[s])
  /\ UNCHANGED <<queueVars, base, worldVars, faults>>

(* A source that fails is left out of the run; the others are not.         *)
FetchFails(s) ==
  /\ faults < MaxFaults
  /\ NextSource(s)
  /\ faults' = faults + 1
  /\ UNCHANGED <<now, seen, staged, storeVars, queueVars, base, worldVars>>

DispatchStaged(c) ==
  /\ DispatchNext(c) \/ DropInvalid(c)
  /\ UNCHANGED <<queueVars, base, todo, worldVars, faults>>

(* The runner is ephemeral: what is not pushed is gone.                    *)
JobEnds ==
  /\ base' = None
  /\ todo' = {} /\ left' = <<>> /\ staged' = {}
  /\ CheckOut(Empty)

TakeIf(dir, new, old) == IF dir \in Staged THEN new ELSE old

(* Fault: a run that only annotates is taken to have nothing to commit.    *)
ProposalOfMints ==
  IF events = base.events
  THEN base
  ELSE [Checkout EXCEPT !.seen = TakeIf("snapshots", seen, base.seen)]

Proposal ==
  LET ids == DOMAIN TakeIf("events", events, base.events)
  IN  [seen |-> TakeIf("snapshots", seen, base.seen),
       events |-> TakeIf("events", events, base.events),
       sidecars |-> TakeIf("identity-keys", sidecars, base.sidecars),
       annotations |-> [i \in ids |-> TakeIf("annotations", Chain(Checkout, i),
                                                            Chain(base, i))]]

Ran == Running /\ todo = {} /\ Done

Propose(b) ==
  /\ Ran
  /\ branch[b] = None
  /\ Lint(Checkout)
  /\ Proposal # base
  /\ branch' = [branch EXCEPT ![b] = [base |-> base, head |-> Proposal]]
  /\ JobEnds
  /\ UNCHANGED <<now, main, worldVars, faults>>

(* The linter is red on the checkout, or there is nothing to commit.       *)
ProposeNothing ==
  /\ Ran
  /\ ~Lint(Checkout) \/ Proposal = base
  /\ JobEnds
  /\ UNCHANGED <<now, queueVars, worldVars, faults>>

Kill ==
  /\ Running
  /\ faults < MaxFaults
  /\ faults' = faults + 1
  /\ JobEnds
  /\ UNCHANGED <<now, queueVars, worldVars>>

-----------------------------------------------------------------------------
(* The world.                                                              *)

(* A provider changes what source s shows.                                 *)
Publish(s, t, v) ==
  /\ changes < MaxChanges
  /\ v # shown[s][t]
  /\ shown' = [shown EXCEPT ![s][t] = v]
  /\ changes' = changes + 1
  /\ UNCHANGED <<vars, queueVars, base, todo, faults>>

TimePasses ==
  /\ Tick
  /\ UNCHANGED <<queueVars, base, todo, worldVars, faults>>

IngestInit ==
  /\ Init
  /\ main = Empty
  /\ base = None
  /\ todo = {}
  /\ branch = [b \in Branches |-> None]
  /\ shown = Empty.seen
  /\ changes = 0
  /\ faults = 0

IngestNext ==
  \/ Start
  \/ \E s \in Registered : Fetch(s) \/ FetchFails(s)
  \/ \E c \in staged : DispatchStaged(c)
  \/ ProposeNothing
  \/ Kill
  \/ \E b \in Branches : Propose(b) \/ Merge(b) \/ Close(b)
  \/ \E s \in Registered : \E t \in Covers[s] : \E v \in TrackStates(t) :
       Publish(s, t, v)
  \/ TimePasses

(* The job is scheduled every hour, and takes its steps; a branch enters   *)
(* the queue by itself, and one that does not land is closed.              *)
Fairness ==
  /\ WF_ingestVars(Start)
  /\ WF_ingestVars(\E s \in Registered : Fetch(s))
  /\ WF_ingestVars(\E c \in staged : DispatchStaged(c))
  /\ WF_ingestVars(ProposeNothing \/ \E b \in Branches : Propose(b))
  /\ \A b \in Branches : WF_ingestVars(Merge(b) \/ Close(b))

IngestSpec == IngestInit /\ [][IngestNext]_ingestVars /\ Fairness

-----------------------------------------------------------------------------
(* Properties.                                                             *)

Main == INSTANCE Corroboration WITH
  left        <- <<>>,
  staged      <- {},
  seen        <- main.seen,
  events      <- main.events,
  sidecars    <- main.sidecars,
  annotations <- main.annotations

WellFormed(store) ==
  /\ store = [seen |-> store.seen, events |-> store.events,
              sidecars |-> store.sidecars, annotations |-> store.annotations]
  /\ DOMAIN store.seen = Sources
  /\ \A s \in Sources : /\ DOMAIN store.seen[s] = Covers[s]
                        /\ \A t \in Covers[s] : store.seen[s][t] \in TrackStates(t)
  /\ store.events = [i \in DOMAIN store.events |-> store.events[i]]
  /\ \A i \in DOMAIN store.events :
       store.events[i] \in Event /\ i = EventId(store.events[i])
  /\ store.sidecars \subseteq DOMAIN store.events
  /\ store.annotations = [i \in DOMAIN store.events |-> store.annotations[i]]
  /\ \A i \in DOMAIN store.events : store.annotations[i] \in Seq(Annotation)

(* The checkout, main and both sides of every branch are well-formed       *)
(* stores, whichever files were merged into them from where.               *)
IngestTypeOK ==
  /\ now \in Nat
  /\ WellFormed(Checkout) /\ WellFormed(main)
  /\ Running => WellFormed(base)
  /\ \A b \in Branches :
       branch[b] # None => WellFormed(branch[b].base) /\ WellFormed(branch[b].head)
  /\ branch = [b \in Branches |-> branch[b]]
  /\ todo \subseteq Collectors
  /\ left \in Seq(Registered)
  /\ staged \subseteq Event
  /\ \A s \in Registered : \A t \in Covers[s] : shown[s][t] \in TrackStates(t)

(* A pair is surfaced once on main (collectors/README.md:45-48), whichever *)
(* of the open branches saw the reversal first: the chain of an event on   *)
(* main is one that a single job after the other would have written.       *)
SurfacedOnceOnMain == Main!SurfacedOnce

(* A source counts once for an event on main, though two jobs attached it. *)
CountedOnceOnMain == Main!CountedOnce

(* The chain of an event on main is in the order of the days, and within   *)
(* the windows of the event, though several jobs wrote it: a branch        *)
(* that was overtaken on a chain never lands behind what overtook it, not  *)
(* even under new numbers, of which E-SEQ (lint.py:19) would see nothing.  *)
InWindowOnMain == Main!AnnotatedInWindow

(* When the providers stop changing their pages, main comes to know what   *)
(* they show, whatever was killed, failed, conflicted or refused before.   *)
CaughtUp ==
  <>[](\A s \in Registered : \A t \in Covers[s] : main.seen[s][t] = shown[s][t])

(* What the engine writes over a main that is green, the linter does not   *)
(* refuse: a job that has fetched its sources has a green checkout.  A red *)
(* one costs every source of the run what it brought (collect.yml lints    *)
(* before it proposes), though every source is isolated from the others    *)
(* (collectors/README.md:67-70).  It holds where no subject is mixed; an   *)
(* aggregator that corroborates next to a docs page and an API breaks it,  *)
(* as the engine then cites a source that the linter does not find         *)
(* independent of the evidence (ClaimIndependentOfEvidence).               *)
JobsAreGreen == Lint(Checkout)

-----------------------------------------------------------------------------
(* What the documentation says and the code does not do.                   *)

Known(store, i) ==
  store.events[i].evidence
    \union UNION {store.annotations[i][n].sources : n \in DOMAIN store.annotations[i]}

(* What source s shows of track t is an end of event i, for which s is on  *)
(* record, or the conflict of s with event i is.                           *)
Records(store, i, s, t) ==
  /\ store.events[i].key.subject = t
  /\ \/ /\ store.seen[s][t] \in {store.events[i].key.old, store.events[i].key.new}
        /\ s \in Known(store, i)
     \/ \E n \in DOMAIN store.annotations[i] :
          /\ store.annotations[i][n].kind = "discrepancy"
          /\ s \in store.annotations[i][n].sources

Backed(store) ==
  \A s \in Registered : \A t \in Covers[s] \intersect (LimitTracks \union ModelTracks) :
    store.seen[s][t] # Baseline[t] =>
      \E i \in DOMAIN store.events : Records(store, i, s, t)

(* verify.yml:17-18 "corroboration annotations from the hourly collection  *)
(* land on main via the merge queue before the sweep".  Main knows no      *)
(* state of a source without the record of how it came to be: a run diffs  *)
(* with the snapshot, so a change whose record did not land with it is     *)
(* never seen again.  The flow of collect.yml:99 stages the snapshots and  *)
(* the events, and neither annotations nor identity keys, which            *)
(* path_scope.py:45-52 lets the collector write.                           *)
SnapshotsBacked == Backed(main)

=============================================================================
