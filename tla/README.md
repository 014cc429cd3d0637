# llmreport-data: verification project

llmreport-data is an append-only store of events about LLM providers (prices,
limits, models, incidents), written by unattended collectors and confirmed or
rejected by an unattended verifier. No database and no server holds the state:
it is files on `main`, added by workers whose branches land through a merge
queue. This directory holds TLA+ models of the parts that decide *what the
store ends up saying*, the TLC configurations that check them, and the theorems
TLAPS proves about them.

| file | what it is |
|---|---|
| `Independence.tla` | source independence, identity keys and windows as pure operators |
| `Corroboration.tla` | one store, the collectors of a provider's sources, the corroboration engine that files what they observe in the order of ids |
| `ClaimLedger.tla` | what the store promises, without sources, evidence or files; `Corroboration` implements it |
| `MCCorroboration.tla` | instances for TLC (traits of one source per class, what each covers, baseline, symmetry) |
| `Corroboration_proofs.tla` | the theorems about `Corroboration` and their lemmas |
| `Verification.tla` | one event from candidate to decision: collectors' and verifier's branches, merge queue, status fold |
| `Standing.tla` | how one event stands, without branches or times of record; `Verification` implements it |
| `MCVerification.tla` | instances of it for TLC |
| `Verification_proofs.tla` | the theorems about `Verification` |
| `PageReads.tla` | what a fetch promises its caller; `FetchClient` implements it |
| `FetchClient.tla` | the HTTP client: gates, robots cache, retries, validator cache, page continuations |
| `FetchClient_proofs.tla` | its theorems, the refinement among them |
| `Normalize.tla` | what each normalizer and each docs extraction rule keeps of a page |
| `Normalize_proofs.tla` | the theorems about its price loop and its extraction loops |
| `Diff.tla` | the four differs, and the differences they may drop |
| `Outputs.tla` | alias index and event builder: what becomes of a delta |
| `Collector.tla` | the hourly run: composes `FetchClient`, `Normalize`, `Diff` and `Outputs` with the store |
| `MCCollector.tla` | instances of it for TLC, and the normalizers checked over bounded inputs |
| `Collector_proofs.tla` | the theorems about `Collector` |
| `Watch.tla` | the weekly jobs: sentinels over terms and documents, robots sweep, queue of exceptions |
| `MCWatch.tla` | an instance of it for TLC |
| `Watch_proofs.tla` | the theorems about `Watch` |
| `Ingest.tla` | the hourly job around `Corroboration`: checkout, collectors, branch, merge queue with the linter, several branches open at once |
| `MCIngest.tla` | instances of it for TLC |
| `Ingest_proofs.tla` | the theorems about `Ingest`, on top of `Corroboration_proofs` |
| `LeastNumber.tla` | least and greatest members of sets of numbers, for the proofs about sequences and loops |
| `*.cfg` | one per run |
| `PROJECT.json` | runs, mutants, the map from definitions to source lines, findings, hazards, theorems |

Check a run with `tlc -config corroboration_limits.cfg MCCorroboration.tla`, the
proofs with `tlapm Corroboration_proofs.tla`.

## 1. Inventory

Paths: C = `src/collectors/src/llmreport_collectors`, F =
`src/lib/fetchkit/src/fetchkit`, L = `src/tools/linter/llmreport_linter`, V =
`src/tools/verifier/llmreport_verifier`, W = `src/tools/watch/llmreport_watch`
(exact paths and lines in PROJECT.json).

**The store.** One file per event (`events/...`), immutable once written; an
identity-key sidecar beside each (`identity-keys/`), with the hashed
(provider, model, field, type, old, new) key and its partial key; a chain of
annotations per event (`annotations/<event>/<seq>.json`), a chain of verdicts
(`verdicts/<event>/<seq>.json`), publications and withdrawals; the latest
snapshot per source and manifests of fetched evidence.

| component | state it keeps | operations | interacts with | what is hard | correct when |
|---|---|---|---|---|---|
| fetch client (F) | validator cache (a directory), robots cache (memory), audit log | gated GET, conditional GET, retry, page continuation | called by runner and sentinel | refusal vs. retry, validator stored before the body is used | every answer is one reading of one page; no change hidden by a 304 |
| normalizers, docs extraction (C `normalize.py`, `docs_extract.py`) | none | parsed page -> rows of a snapshot | runner | several entries for one row; repeated headings | the snapshot does not depend on the order of the page; no text is lost |
| aliases (C `aliases.py`) | none | a source's name for a model -> canonical id, provider | event builder | precedence of namespaces | one model, one id |
| diff + event builder (C `diff.py`, `events.py`) | none (reads the snapshot) | pair of snapshots -> deltas -> candidate events, keys, ids, or exceptions | runner | partial keys that are too coarse; ids by day | every difference is an event, an exception, or dropped by a documented rule |
| corroboration engine (C `corroborate.py`) | none of its own: reads all recent events, sidecars, annotation chains | dispatch: attach, damp, discrepancy, mint | runner, store, independence | outcome depends on what other sources did earlier and in which order | see the properties below |
| runner (C `runner.py`) | snapshot baseline, run report | per source: fetch, snapshot, diff, dispatch, apply | all of the above | a stop between two writes; order of dispatch | a change is reported or kept for the next run |
| store (C `store.py`) | the files | write event, key, annotation | runner, verifier | put-if-absent, seq = length of the checkout's chain | nothing rewritten |
| independence, identity (L) | none | lineage, windows, keys | engine, verifier, linter | - | symmetric, mirrors never independent |
| verifier (V) | none of its own: reads a checkout | sweep: two-source and provider-official review, confirm | store, status | stale checkout, late annotations | only corroborated, undisputed candidates are confirmed |
| effective status (L `status.py`) | none | fold verdicts and annotations by time | verifier, linter, publisher | merge order differs from time order | a rejection stands |
| linter, immutability, path scopes (L) | none | checks on the proposed store | merge queue | retroactive rules | a red store never lands, and a good change is never locked out |
| sentinel, robots recheck, watch queue (W) | references in the registry, a state file per host and for the hub, queue files | compare pages and stances with what is kept, write what was seen, queue items | fetch client (sentinel only) | state written as the pass goes, the queue at its end | nothing adopted silently; every drift queued; a lapse reported while it lasts |
| heartbeat (C `runner.py`, W) | none | ping success or fail | runner | a run that loses changes but pings success | success means heard |
| guards (redaction, PII) | none | pattern matching | CI | - | - |
| workflows | branches, merge queue | schedule workers, required checks | everything | two workers on one base | append-only, one at a time |

The workflows under `.github/workflows` are templates; the models take from them
that workers start from a checkout of `main` and that what they add lands in one
piece, after the checks, on a `main` that may have moved.

## 2. What is modelled

### Independence (`independence.py`, `identity.py`)

Each rule is one operator: `EffectiveLineage`, `Independent`, `ConfirmsAbsence`,
`InverseKey` (with `ReversalType`), `PartialKey`, `DampingWindow`. The registry
is the constant `Trait`. The hash of a key is the key: no two keys are taken to
share their 8 hex digits.

### Corroboration (`corroborate.py`, `events.py`, `diff.py`, `store.py`, `runner.py`)

A *track* is one thing that sources report on: a limit or price with a value, a
model that is listed or not, an incident that is absent, open or resolved.
`seen[s][t]` is source s's snapshot of track t; `left` are the sources the
running collector has still to fetch and `staged` its merged candidates that
were not dispatched yet; `events` maps an event id (day of observation, key) to
the event; `sidecars` is the set of events whose identity key was written;
`annotations[i]` is the chain of event i.

| action | code |
|---|---|
| `Tick` | time passes, between two fetches or dispatches too |
| `FetchSource` | `_run_source` of the next source: its snapshot is replaced, its changes become candidates stamped with *its* `fetched_at` (`runner.py:439`) and are merged into those of the run (lines 522-536: one id, the first source's event, the evidence of both) |
| `DispatchNext` | one round of the loop at line 546: the next id, `dispatch`, outcome applied |
| `DropInvalid` | the event, its key or the annotation fails its schema: `events_dropped_invalid`, nothing is written (lines 548-567) |
| `Stop` | the collector stops, what it holds in memory is gone |
| `StopTorn` | it stops between `write_event` and the last of the files that belong to the event |

The order of dispatch is that of ids: `evt_<day>_<hash>`. A candidate of an
earlier day is first (`FirstInLine`), and which of one day is first is up to the
hash, in the model to an existential choice. So a candidate that was observed
*later* may be dispatched first, and an annotation may be older than the one
before it in its chain.

`Dispatch` follows `corroborate.dispatch` line by line: same identity key in the
attach window -> `Attach` (flap, already known, corroboration or mirror);
otherwise the reversal of an event inside its damping window -> `Damp`
(rollback, then flap); otherwise the latest event of the same field -> attach
when it reached the same end state, `Discrepancy` when it did not, and a mint
when the candidate continues from it; otherwise mint. Ties between equally
recent candidates are broken by the order of file names in the code and by an
existential choice in the model.

Abstractions: values, incidents and models are model values; evidence is the set
of its sources; `MayBeInvalid` says whose events may fail a schema.

### ClaimLedger

A ledger of claims opened once per key and window, supported, damped or held
while they are open, never supported once damped. `LedgerSpec` in
`Corroboration` is the ledger over the store's files: an event is a claim, a
corroboration annotation supports, rollback and flap damp, a discrepancy holds.
Each happens at the time of the observation it rests on, which may be before the
time of the one written last.

### Verification (`pipeline.py`, `storeio.py`, `status.py`, `lint.py`, workflows)

One event, observed at 0. `annotations`, `verdicts`, `publications` are its
files on main. `branch[b]` is an open branch: the time of its checkout, the
first seq number its checkout did not have, and the chain as its worker has it.

| action | code |
|---|---|
| `Start` | a collector's job checks out main |
| `Collect` | what `dispatch` adds to this event when sources repeat, reverse or contradict it (`corroborate.py`); several in one run, at any instants since its checkout, in any order |
| `Review` | `Verifier.review` on a fresh checkout: skip if decided, held or flapped; two-source; else provider-official |
| `Judge` | a person's verdict in a pull request (external) |
| `Merge` | the queue: no file of that name on main, and the linter green on the merge result |
| `Abandon` | a branch that cannot land is closed (external) |
| `Publish` | the publisher adds a record (external; there is no code for it here, only its schema and the linter's lifecycle rules) |

`Status` and `DiscrepancyOpen` are `fold_chain` and `status_at` without the
loop: the last confirm or reject in time order decides, and a discrepancy is
open when every decision is older. `Green` is the linter's corroboration,
verdict and lifecycle rules on the merged store.

Abstractions: a review's checkout and its verdict are one step (minutes of a job
against hours in the queue), a collector's run is as many steps as it adds
annotations. Which sources reverse or contradict the event, when, and in which
order a run comes to them is free, which allows more than the order of ids does;
every manifest a record cites is in the store. The pull-request part of the
workflows is a commented reference flow that is not active yet; here collectors
land annotations, which `path_scope.py` (lines 41-57) allows them (`Ingest` has
both readings, `unstaged` shows the other).

### Ingest (`collect.yml`, `ci.yml`, `lint.py`, `store.py`, git)

`Ingest` extends `Corroboration`: that module's variables are the *checkout* of
the job that is running, and its `FetchSource`, `DispatchNext` and `DropInvalid`
are what one collector after the other does there. Around it, `main` is what has
landed, `base` the main the job checked out (`None` when no job runs), `todo`
the collectors it has still to run, `branch[b]` an open branch with the store it
was cut from and the one it proposes, `shown` what the providers publish.

| action | code |
|---|---|
| `Start` | `actions/checkout`; one job at a time (`concurrency: collect`), but branches of earlier ones may still be waiting |
| `Fetch` | the next source of the running collector, or the first of another: `FetchSource` of what it shows |
| `FetchFails` | `_run_source` raised, the runner goes on with the next source |
| `DispatchStaged` | `DispatchNext` or `DropInvalid` |
| `Propose` | the linter is green, `git add` and `commit` of the directories in `Staged`, push, pull request, merge queue |
| `ProposeNothing` | the linter is red, or there is nothing to commit |
| `Kill` | the job is lost, with everything that was not pushed (external) |
| `Merge` | the queue: git finds no conflict and the required checks are green *on the result* (`ci.yml` runs on `merge_group`) |
| `Close` | a branch that does not land is closed; nothing renumbers or rebuilds it (external) |
| `Publish` | a provider changes a page (external) |
| `TimePasses` | `Tick` |

`Merged` is git's three-way merge by file: events and sidecars are united,
chains gain the files the branch adds, a snapshot row is taken from the side
that changed it. `Conflicts` are two sides adding one file or changing one row
differently. Whether git can merge two changes of *one* file
(`derived/state.json`, one snapshot) depends on how close their lines are: a
branch that `Overlaps` may land or be closed. `Duplicates` and `Unearned` are
the rules E-DUP and E-CORR; the rules about verdicts and publications are those
of `Verification`.

`Staged` is a constant, as the source has two readings of it: what `path_scope.py`
(lines 41-57) lets the collector write, which the run `ingest` uses, and the
list of `collect.yml` (line 99), which leaves annotations and identity keys out
and is that of `unstaged` (section 6). The workflow pushes to a branch named
after its run, so the push is never contended and the rebase loop around it
(lines 101-104) changes nothing; `Branches` are the slots such branches can be
in. `exceptions/` and `manifests/` are left out.

### FetchClient, PageReads (`client.py`, `robots.py`, `cache.py`, `registry.py`)

`call` is the one fetch under way (stage `gates`, `request` or `build`, the
attempts made, the content once accepted), `answer` what it returned or raised
until the caller takes it. `validators[s]` is the entry of the cache directory,
which survives the process; `robots[h]` is the verdict cached in memory, which
does not. A page is its content and its entity tag names the content.

| action | code |
|---|---|
| `Ask` | `fetch()` is called for the registered page, or for the continuation the last page linked to |
| `Refuse` | `_refuse_excluded`, `_guard_page_url`: refused before any I/O |
| `RobotsCached`, `RobotsRead`, `RobotsUnreachable` | `RobotsCache.check`, with `robots_recheck` forcing a new read |
| `Unreached`, `Transient` | a transport error or a transient status: `RetryOrFail` |
| `Revoked` | `looks_like_bot_challenge`: never retried |
| `NotModified`, `FinalStatus` | 304; any other status |
| `BodyRejected` | the size guard, or a redirect over a host that is not cleared |
| `Accept`, `Deliver`, `BuildFails` | `_build_success`: validators are stored, then the result is built, which may raise |
| `Exit` | the process ends |

`PageReads` is the abstraction a collector relies on: a fetch reads its page at
one moment between the question and the answer, or truthfully says that the
registered page is the one last remembered, or fails; and nothing but reading
the *registered* page changes what is remembered. `ReadsSpec` is that
specification over the client's variables.

### Normalize, Diff, Outputs (`normalize.py`, `docs_extract.py`, `diff.py`, `aliases.py`, `events.py`)

Pure operators. `Normalize` takes a page as its parser leaves it (the records a
normalizer loops over, the heading and text blocks of a document) and says which
rows the snapshot has: which entries are skipped, and which of several that
compete for one row wins. `Diff` is `Deltas`, one operator per differ, and
beside it `Differences` and `Dropped`, which say what two snapshots differ in
*without* the differs, and `TrueOf`, when a delta says nothing that they do not.
`Outputs` resolves names (`CanonicalFor`, `ProviderFor`) and says of a delta
whether it becomes an event, by its identity key, or an item of the exceptions
queue.

`MCCollector` states what the normalizers are for, as assumptions TLC evaluates
over bounded inputs:

- prices do not depend on the order of the meters (`PricesAreOrderFree`; proved
  for all meters, section 4);
- each heading that opens a section has one item, with its title and the texts
  below it in their order, however headings repeat, nest and close each other
  (`HeadingsAreKept`, up to four blocks), and so has each day of a changelog kept
  as lines (`DaysAreKept`, up to five lines); both proved for all pages, section 4;
- the status feeds agree on what one incident is (`FeedsAgree`);
- a LiteLLM file says each cost once (`CostsAreApart`).

Where one branch of the code is taken before another that would also apply, the
guards of a `CASE` exclude each other: TLA+ leaves open which of two that hold is
meant, and TLC's taking the first would hide it.

### Collector (`runner.py`)

One run of `run_all` over `Plan`, the collectors in order, each with its sources
in order. `run` is where it is; `staged[s]` are the notes (events by key,
exceptions) still in memory, `filed[s]` those that left the process, `dropped[s]`
those the report lists as invalid.

| action | code |
|---|---|
| `StartRun` | `run_all`: new client, new report |
| `Fetch`, `ClientStep` | a call of `client.fetch`, and the client at work |
| `GetException`, `GetNotModified` | `_run_source` raises or returns; `_run_collector` goes on with the next source |
| `BodyUnusable` | the body cannot be parsed, or the chain is longer than `max_pages` |
| `ParityChecked` | a page fetched for its liveness only |
| `PageTaken` | one page of `_fetch_paginated` |
| `Record` | the snapshot is written, *then* `build_outputs` stages the changes |
| `SnapshotRefused` | the whole chain was normalized and fails its schema (lines 415-420) |
| `DispatchCandidate` | one candidate of the collector, when its last source is done |
| `DropInvalid` | the same, but the event, its key or the annotation fails its schema: only its id is kept, in the report |
| `WriteExceptions` | the collector's exceptions file |
| `DispatchRaises` | the engine or the store raises: no source's `try` is around this |
| `FinishRun` | report and ping |
| `Kill` | stopped between any two steps |
| `ProviderPublishes` | at any moment, between two pages of a chain too (external) |

What happens to a candidate in the store is the module `Corroboration`; here a
candidate leaves the process. The order of the candidates of a day is that of
hashes, so any order. Exceptions pass no schema gate, and are never dropped. The
list of dropped events is written with the report when the run ends, so a kill
or a collector that raises loses it too. `origin`, `torn` and `still` are
history: the pages a snapshot was made from, which sources lost notes without a
word, and whether the provider stood still during a reading.

### Watch (`sentinel.py`, `robots_recheck.py`, `queue.py`)

`world[t]` is what is published of a target, `committed[t]` what `main` keeps of
it, `working[t]` what the checkout of the pass has, `pass` the pass under way
with its items and the reference it holds in memory, `filed` its queue file.

| action | code |
|---|---|
| `Begin` | `run()` on a new checkout ("ephemeral", a CI runner) or on one that is kept |
| `Terms`, `Aup` | `_handle_aws_carveout`, page after page |
| `Hub`, `HubStateUnreadable` | `_handle_mistral_hub`: the state is written before the item is made; its file may be unreadable |
| `SentinelFails` | a fetch fails: a critical item, whatever was judged before is dropped |
| `Unhandled` | a sentinel without a handler |
| `WriteRegistry` | when a reference was seeded |
| `SweepHost` | one host: its state file is written, then its items made |
| `WriteQueue` | `queue.write` |
| `Stop` | a kill, or a state file the sweep cannot read: no queue |
| `Accept` | a reviewed pull request commits what the pass wrote (external) |
| `WorldChanges` | terms, documents and robots files change (external) |

## 3. Runs

| run | instance | shows |
|---|---|---|
| `corroboration_limits` | one price, three values; a docs page and its mirror in one collector, a models API in another; stops | `TypeOK`; `NoDuplicateCandidates` (the linter's E-DUP never fires on what the engine writes); `NoForkInWindow` (conflicting values never become two open events, torn mints included, unless one run of a collector brought both); `SurfacedOnce` (one rollback, then only flaps, and no support after it); `CountedOnce` (no source counts twice) |
| `corroboration_mixed` | one model, two incidents of one page; a blocked docs page; events that fail their schema | `ClaimNeedsPair` (a corroboration needs two independent sources on record, and a positive statement when the change is a disappearance); `AnnotatedInWindow` (inside the windows of the event, in the order of days); `LedgerSpec` |
| `third_source`, `lost_reversal`, `fork_in_run` | as above; two feeds of one status page | findings of section 6 |
| `verification` | a docs-page limit, or a model absent from an API's list; two collector branches, a sweep, a reviewer | `VerifierNeverOverrules` (its verdict is always the first of the chain: a reject is never overruled, even unseen); `VerdictsInOrder` (a landed verdict is never older than the one before it, so folding by time and by seq agree); `OneSerialChain` (annotations from several checkouts are those of one collector); `ConfirmEarned` (mirrors never confirm, an absence needs a positive statement) |
| `verification_progress` | a limit stated by the docs or by the API; a probe as third source | `StandingSpec` (the refinement: branches that race, and a fold by time over files that land in another order, still give an event whose last ruling stands and that is shown only while nothing holds it); `CorroboratedIsDecided` under fairness |
| `unseen_rollback` | as above | a finding of section 6 |
| `collect` | a paginated price list; then a model index and its parity page; hourly runs | `OkIsInStep` (a source reported ok has its cache entry and its snapshot of one reading); `ChangesAccountedFor` (every difference between two snapshots is filed, staged, listed as invalid, or dropped by a documented rule, unless a kill or a failed collector lost it); `NothingInvented` (every note is of these two snapshots and states what they say); `SnapshotsAreWhole` (no truncated chain becomes a snapshot); `SuccessMeansHeard` (success: each collector was heard, each change is filed or listed as invalid); `ReadsSpec` (the refinement); `RunsEnd` under fairness |
| `watch` | the terms, the AUP, the Mistral hub and a sentinel without handler in one job; the sweep of a pinned host in the other | `AdoptionsQueued` (what a pass changes in the checkout is in its queue, critical when it blocks a registered URL); `DriftIsQueued` (nothing gets past a pass in a new checkout); `LapseIsHeard` under fairness |
| `ingest` | one price, docs page and models API; two branches open at once, a fault; all directories staged that `path_scope.py` allows | `SurfacedOnceOnMain`, `CountedOnceOnMain`, `InWindowOnMain` (chains on main are those of one job after the other); `JobsAreGreen` (the linter never refuses what the engine writes over a green main, for registries that mix no subject); `CaughtUp` under fairness: when the providers stop, main comes to know what they show |
| `unstaged` | the same with the directories that `collect.yml` stages | a finding of section 6 |

**Bounds.** One unit of time in `Corroboration` is half a day: `DayLength` 2,
`AttachWindow` 6, `DampingDefault` 4 and `DampingStatus` 2 stand for the date in
the event id, 72h, 48h and 24h. Things happen at the `Instants`: 0 and 1 are two
times of one day, so that a run can see its sources at different times and
dispatch them in either order; 6 is the first instant at which an event of 0 is
closed, while one of 1 is open and past its damping window; where a reversal has
to follow on a later event, 5 is added. `StopTimes` {0} has collectors stop, or
tear a mint, on the first day, so that all later instants meet what they left.
`MaxFiles` 3 (events plus annotations) allows a rollback and an attempt at
support on one event, or two events and an annotation; a larger one multiplies
chains that differ only in repeated flaps. Three values give a change, its
reversal, a continuation and a conflict. The sources are one of each class that
independence separates (the docs, a mirror of their lineage, an independent
API); in the mixed instance a status page is added, with two incidents. Values
other than the first, and incidents, are symmetric: no action names one of them.
`Instants`, `StopTimes` and `MaxFiles` are the only bounds in guards; with them
exhausted the model stops, and so `CHECK_DEADLOCK` is off: the real system never
stops because time does not.

No fairness is assumed in `Corroboration`: nothing there is promised to happen,
as a source may never change.

`Verification` counts in half windows: `AttachWindow` 2, both dampings 1. The
safety run has `MaxTime` 1, an instant inside the damping window and one inside
the attach window only, and candidates of a later run from the docs or from a
mirror; the progress run has `MaxTime` 2, after both windows, at which people,
sweep and publisher still act, and candidates from the API or a probe. Two
annotations, one human verdict and two collector branches beside one sweep (one
of each in the progress run, which also has a publication) are enough for every
pair of writers to race for a seq number, for a run that adds two annotations
against the order of their times, and for every order of record time and landing
time. 1 730 000 and 565 000 states. `ConfirmedOnly` and
`AnyStatus` have one surface each. A reviewer with one verdict cannot both hold
and release an event; the fold is still exercised with the sweep's confirm as
the release. The two collector branches are symmetric in the safety run; the
progress run uses no symmetry.

Fairness: the sweep is a scheduled job (`verify.yml` lines 14-26) that is queued
and never cancelled, its branch enters the merge queue by itself
(`gh pr merge --auto`), and one that cannot land is closed, so `Review(b)` and
`Merge(b) \/ Abandon(b)` are weakly fair for sweep branches. That a closed
branch is closed is an assumption about the people who run the repository.
Nothing is assumed of collectors, reviewers, the publisher or time.

`Collector`: `MaxPublications` 1 lets the provider change one source once, at
any moment of any run, so that every reading, retry, kill and 304 falls before,
during or after a change. Runs repeat without bound: the state space is finite
because snapshots, tags and reports range over finite sets, so a change is
followed through every later run. Nor is `Kill` bounded. `MaxAttempts` 2 (3 in
the code) has a first attempt, a retry and the last refusal; `MaxPages` 2 with
chains of 1, 2 and 3 pages gives a chain below, at and beyond the limit, and one
whose second page cannot be parsed. The two pages share a price dimension, so
the merge across pages matters. Both sources and the parity page are on one host
with one robots cache. 288 000 states. Deadlock is checked: a run can always
start.

`Watch`: one change of the world and one stop, in both kinds of checkout, with
nothing or everything accepted at the start. Two values of what can drift (three
robots files: one allows and matches the pin, one forbids and does not, one is
absent) separate all the items. 929 000 states. Deadlock is checked.

`Ingest`: windows as in `Verification` and a day of one unit, so that a key is
minted on a first day, is open and has a new id on the second, and is closed on
the third (`Instants` 0, 1, 2). Two values and `MaxChanges` 2 give two sources
the same change, or one of them a change and its reversal; two branches are the
fewest that can be cut from one main. One fault, a failing source or a killed
job. `MaxFiles` 12 is never reached. No symmetry, as the run has a liveness
property. 149 000 states. Deadlock is checked: a job can always start.

Fairness: a `Collector` run is a process, so `Works` is weakly fair (its next
step is always enabled and it takes it, or is killed, which ends the run as
well); nothing makes a provider publish or a schedule start a run, and `RunsEnd`
needs neither. In `Watch` a pass is weakly fair in the same way, and the weekly
schedule starts every job again and again: `SF` of `Begin(job)`, strong because
`Begin` is disabled while the other job runs. The stops are finitely many in an
instance by their bound: passes that are stopped for ever queue nothing, and
`LapseIsHeard` would be false of them.

In `Ingest` the hourly schedule makes `Start` weakly fair, a job that runs takes
its steps (`Fetch`, `DispatchStaged`, `Propose`, `ProposeNothing`), a branch enters the queue by
itself and lands or is closed (`Merge \/ Close`, per branch). Nothing is assumed
of providers, faults or time; faults are finitely many by their bound, and with
jobs killed for ever `CaughtUp` would be false. It includes that overlapping
branches may be closed again and again: once the providers stand still, a job
that starts with no branch open meets no conflict.

## 4. Proofs

`Corroboration_proofs.tla` proves, for every set of sources, values, models and
incidents, every registry and every length of the windows:

`TypeCorrect`, `OneEventPerWindow` (`NoDuplicateCandidates`), `NoFork`
(`NoForkInWindow`), `FlapsSurfaceOnce` (`SurfacedOnce`), `AnnotationsInWindow`
(`AnnotatedInWindow`), `ClaimsNeedPairs` (`ClaimNeedsPair`), `SourcesCountOnce`
(`CountedOnce`), `StoreIsLedger` (`Spec => LedgerSpec`, the refinement) and
`ClaimsCiteIndependence` (`Unmixed => ClaimIndependentOfEvidence`).

Assumptions: `RegistryAssumption` (registered sources have well-formed traits),
`WindowAssumption` (0 < status damping <= default damping <= attach window: the
values in `independence.py` satisfy it), `TrackAssumption` (the kinds of tracks
are disjoint, a baseline is a state of its track), `CollectorAssumption` (a
collector has registered sources). `Instants`, `StopTimes` and `MaxFiles` occur
in guards only and nothing is assumed of their size.

Argument. None of these invariants is inductive alone: each speaks of the time
an event was observed, and nothing in it says an event is not from the future,
or how what was written stands to what is still staged. The strengthening is
`TypeOK` together with `Past` (no event, annotation or candidate is later than
`now`) and `InOrder`: there is one collector from whose sources everything is
that is staged or still to be fetched, an event observed later than a staged
candidate is of the same day and of that collector, and nothing was filed on a
later day than that of a staged candidate. It holds because candidates leave in
the order of days and nothing is dispatched while sources are still to be
fetched. `NoForkInWindow` needs it for its exception: what a candidate cannot see
in the store, though observed before it, can only be of its own run.

The lemma `Steps` reduces every step of `Next` to one of three shapes: the store
is untouched, one annotation is appended to one chain, or one event is minted;
`Cases` then states, for each kind of annotation, what the dispatch guard
established about the event it went to (which window it is in, whether it was
flapped, whether the source was new). Each invariant is then proved against
these shapes and not against the code's branches again. `StoreIsLedger` maps an
idle step to a stutter or `Advance`, an annotation to `Support`, `Damp`, `Hold`
or a stutter, and a mint to `Open`.

The hypothesis `Unmixed` is about the registry: no subject has a voice that is
independent of one of its other voices and not of a third. Without it the
statement is false, and `third_source` is its counterexample: the engine
compares a new source with *all* the sources on record, the rule E-CORR with the
event's own evidence alone. A subject is unmixed when at most two sources tell
of it, when no two of them are independent, or when every two are. The runner
collects no models API yet, and so no mixed subject.

`Verification_proofs.tla` proves, for every registry, every candidate, any
number of branches, reviewers and surfaces: `RecordsWellFormed`
(`TypeInvariant`), `RejectsStand` (`VerifierNeverOverrules`),
`VerdictsInTimeOrder` (`VerdictsInOrder`), `ChainsSerial` (`OneSerialChain`),
`ConfirmsEarned` (`ConfirmEarned`) and the
refinement `MergedIsStanding` (`Spec => StandingSpec`), from
`RegistryAssumption`, `CandidateAssumption` (a candidate's source is registered)
and `BranchAssumption` (the kinds of branches are disjoint).

The properties speak of main, but what will be on main is decided on branches.
The strengthening is `BranchesFit`: a branch that does not conflict yet has a
chain that begins with main's *exactly as it is now*, and is, with what its
worker added behind it, as one collector would have written it, or, of verdicts,
in the order of their times and with the verifier's in the first place only. It
is inductive because whatever lands on the same chain makes the branch conflict.
`UndecidedIsEmpty` is the reason the verifier always speaks first: with no
decision, the fold holds a discrepancy verdict open. `ConfirmsEarned` needs
`IndependentVoice`: sources of different class and effective lineage do not both
repeat the docs.

`Standing` knows nothing of branches, files and times: what was said of the
event, its ruling, whether it is in doubt, where it was shown. `StandingSpec`
reads the ruling and the doubt off the folds of `status.py`, which go by the
time of record and not by the order of landing. `MergedIsStanding` shows that
the difference never shows. A verdict that lands is the last of its chain in
time too (`BranchesFit`), so the fold over the longer chain rules as it does;
whatever lands as an annotation leaves the ruling alone and can raise a doubt
and settle none; a ruling can settle doubts and raise none; and as every record
is of the past, time alone changes neither. Each `Merge` is then a `Confirm`, a
ruling of people, a `Doubt` or a stutter, each `Publish` a `Show`, and all else
a stutter.

The fairness conjunct plays no part in these proofs.

`FetchClient_proofs.tla` proves `ClientTypeCorrect` and `ClientReadsPages`
(`ReadsSpec`) for every set of sources, hosts, page chains and every bound on
attempts and publications, from `ClientAssumption` (a chain has a first page,
the bounds are numbers) and `NoneAssumption` (None is no page, call or answer).
Each client action is a stutter of `PageReads` except `Ask`, `Accept` (`Read`),
the endings and `TakeAnswer`; the invariant that makes it so says that content
is there exactly in the stage `build`.

`Collector_proofs.tla` proves, for every plan, every task and every set of
pages, `TypeCorrect`, `CollectorReadsPages` (`ReadsSpec`), `OkSourcesInStep`
(`OkIsInStep`), `ChangesAreAccountedFor` (`ChangesAccountedFor`),
`SnapshotsWhole` (`SnapshotsAreWhole`), `SuccessIsHeard` (`SuccessMeansHeard`)
and `NotesAreTrue` (`NothingInvented`), from `PlanAssumption` (no collector is empty, a source
has one place in one collector: `COLLECTORS` in `runner.py`) and the client's
two. The run's position is the key to all of them, and each theorem has a
strengthening of its own:

- `Position`: which call and which answer there may be in which step of the run.
- `Remembers`: what the cache holds of the source under way is the first page of
  the chain that is being read, if it has been accepted. With
  `NothingReportedAhead` (a source has no status before the run is through with
  it) no source reported ok is read again in the run, and so its cache entry
  stays that of its snapshot.
- `Reading`: while the provider stands still, the chain read so far is the
  beginning of what it publishes.
- `NotesKept`: staged, filed and dropped notes together are those of all the
  deltas, for sources that lost none. With the lemmas that the deltas of each of the four
  differs cover all differences that are not dropped, it gives the theorem.
- `Heard`: what the report, the failed collectors and the staged notes say of
  the collectors before, at and behind the run's position; `Settled`: after a
  success nothing is staged and nothing was lost, so that by `NotesKept` each
  change was filed or is listed.
- `NothingFiledAhead`: what is still to be recorded has nothing filed, for a run
  reads a source once. So all notes of a source are of one pair of snapshots, and
  the lemmas that no differ says more than the two snapshots differ in give
  `NotesAreTrue`. `ChangesAccountedFor` and `NothingInvented` together say that
  what a run files and lists is exactly what changed.

`Normalize_proofs.tla` proves what the normalizers compute, for pages of any
length: `PricesOrderFree`, the loop over the meters (`PriceLoop`, lines 524-605
of `normalize.py`) gives for each price dimension the meter that no other
outranks, in whatever order meters come; and `HeadingsAreKept` and `DaysAreKept`,
the extraction gives each opener one item, with its title and the texts that
follow it up to where a section opens or closes.

- `PricesOrderFree` needs `TiesAgree`: meters of one dimension of which none
  outranks the other state one price. Of two that do not, the code keeps the
  first (line 581), and the order matters.
- The docs theorems need `KeysApart`: no slug of the page makes a key like a
  numbered one. Of `foo`, `foo-2`, `foo` the third is numbered to the key of the
  second, and one item is lost (lines 286-289). `DaysAreKept` needs a month to
  have a slug.
- Both extraction loops keep one invariant, `Shelved`: after n blocks there is a
  section for each opener so far, in their order, and it holds what follows its
  opener, up to n. The lemmas `Opens`, `Extends` and `Passes` are the three things
  a round can do to it, whatever the strategy; `StillOpen` says when a text
  belongs to the last section.

These are statements about recursive functions, which would be proved by
induction. The induction theorems of the library take an operator, which the
provers here cannot instantiate; `LeastNumber` states instead that a set of
natural numbers that is not empty has a least member, from
`WellFoundedInduction`. A claim about a loop is then proved by looking at the
first round after which it fails: that is not the start, so it held one round
earlier, and the round keeps it.

`Watch_proofs.tla` proves, for every set of hosts, documents and jobs,
`TypeCorrect`, `NothingAdoptedSilently` (`AdoptionsQueued`) and
`NoDriftGetsPast` (`DriftIsQueued`), from `JobAssumption` (a job names nothing
twice and is one of sentinels or of hosts; no host is called as a sentinel) and
`NothingAssumption` (None is no document, pass or queue). What ends up in the
queue is decided while the pass runs: `InOrder` says what may still be visited,
`Fresh` that what is to be visited is as the pass found it and that the
reference in memory is ahead of the record only with an item about it, `Told`
that what was visited and has drifted is in the items, and that the cache of a
new checkout knows nothing of the pages to come, which is why no 304 can hide a
drift. `SubjectDone` is the step common to all handlers: whatever one handler
does, it is enough that it speaks of its own targets.

`Ingest_proofs.tla` proves, for every registry, every window, any number of
branches and any `Staged` that holds `events`: `IngestTypeCorrect`
(`IngestTypeOK`), `FlapsSurfaceOnceOnMain` (`SurfacedOnceOnMain`),
`SourcesCountOnceOnMain` (`CountedOnceOnMain`), `AnnotationsInWindowOnMain`
(`InWindowOnMain`) and `JobsStayGreen` (`JobsAreGreen`, if no subject is mixed:
`Unmixed`, as above). The assumptions are those of `Corroboration` with
`StagedAssumption`.

What one job does to its checkout is `Corroboration_proofs` again: its step
lemmas are about `[Next]_vars` and hold of any job, whatever it started from
(`EngineInv` collects what they keep; a job starts with nothing staged, so
`InOrder` holds of any main).
What is new is the merge. A store is `Sound` when it is well-formed, on time,
and each of its chains surfaces once and counts once; a store `Extends` another
when it has all of its files unchanged. The invariant (`IngestInv`, `Grown`) says
that main, the checkout and both sides of every branch are sound, and that main
and the branch *both* extend what the branch was cut from. Then, if no file
conflicts, one side of each chain is what both started from (`MergedChain`,
`Regrown`), so each event of the merge is, with its chain, an event of main or
of the branch (`MergedFrom`): whatever is true of an event and its chain
survives the queue. What relates *two* events does not, which is why duplicates
need the linter on the merge result and forks (section 6) do land.
`JobsStayGreen` speaks of a checkout that starts from main and not from an empty
store: `SingleInv` says that main and every checkout are without duplicates
(the linter saw the merge, the engine does not mint twice in a window), and in
an unmixed registry a source that is independent of any one on record is
independent of the event's own.

The fairness conjuncts play no part in these proofs.

Only model-checked: the liveness properties (`CorroboratedIsDecided`, `RunsEnd`,
`LapseIsHeard`, `CaughtUp`), as the prover has no rule for fairness; the two
statements about the other normalizers (`FeedsAgree`, `CostsAreApart`), which are
about what they compute from sample rows; the findings; and that the mutants of
PROJECT.json are caught. Every invariant, action property and refinement that a
passing run checks is a theorem.

## 5. Hazards

PROJECT.json lists, at the line where each bites, what in this code is hard to
test, with the properties that would catch it going wrong, or why none does.

## 6. Findings

- `third_source`: `_attach` compares a new source with *every* source on record.
  Once a models API has corroborated a docs-minted event, an aggregator, which
  shares the lineage of the docs, is independent *of the API* and is filed as a
  corroboration, which the README says it never is, and which the linter's
  E-CORR rule would refuse. No models API is collected yet, so the configuration
  that shows it is one the registry already describes and the runner does not
  yet run.
- `lost_reversal`: the same-key match is tried before the reversal match, over
  all events of the attach window. A change back to a value that an older open
  event already announced is dropped as known, and the newer event it reverses
  keeps no trace of it.
- `fork_in_run`: each candidate keeps the time at which its own source was
  fetched, and a run dispatches its candidates in the order of their ids, within
  a day that of a hash. An incident that the summary shows at t1 and another one
  that the incident feed shows at t2 share one partial key; when the second is
  dispatched first, the first cannot see it, as it is later, and both are minted
  with no discrepancy. In the other order the second becomes a discrepancy on
  the first. `NoForkInWindow` is what remains true: it excepts two events that
  one run of one collector may have brought.
- `unseen_rollback`: the sweep folds its own checkout. A rollback recorded on an
  ingest branch that is still in the queue is not there, and as confirm and
  rollback are files of different chains both land: a rolled-back candidate is
  auto-confirmed. The same holds for a discrepancy annotation, which moreover
  counts as *resolved* by the confirm, because the fold goes by time.
- `unstaged`: the reference flow in `collect.yml` (line 99) stages snapshots and
  not annotations. An attach is lost with its change, as the snapshot that lands
  says there is nothing left to see, while `verify.yml` (lines 17-18) counts on
  the annotations to land. The flow is inactive.

More of the same kind, without a run of their own:

- All incidents of a page share one partial key (`events.py` lines 409-416), so a
  second incident in three days is filed as a discrepancy on the first, or minted
  beside it as in `fork_in_run`; `tables/materiality.json:45-49` says that an
  added incident emits `outage.started`.
- The publish block is noted on the events a blocked source mints, or mints with
  others in one run, not on those it attaches to (`runner.py:574`), though
  lines 519-520 say every event it contributes to.
- A reading that breaks off after its first page was accepted (a later page, the
  parser, a schema, a kill) leaves a cache entry without its snapshot
  (`client.py:441`). The next run is answered 304, reports the source as
  not-modified and pings success, and the change is not seen until that page
  changes again. `OkIsInStep` says what holds of sources reported ok, and claims
  nothing of these.
- An event that fails its schema is dropped after its snapshot has moved on
  (`runner.py:550`), and the run pings success; `SuccessMeansHeard` and
  `ChangesAccountedFor` say that it is at least listed.
- A page in which no section is found is one item, the hash of its text
  (`docs_extract.py` lines 440-450, `ExtractDocs`). A page that loses its
  headings while its visible text stays the same loses all its items at once,
  and on a page whose rule declares model events each is filed as one.
  `tables/materiality.json:63` says that markup-only changes are never surfaced.
- A job knows what is on main and not what is in the queue. Two jobs that see
  two values of one field mint an event each, and both land: linter and git look
  at keys and files, not at partial keys. `NoForkInWindow` holds of one checkout
  and not of main, and neither event has the discrepancy annotation that would
  hold its publication (`collectors/README.md:51`).
- What `third_source` does to the hourly job: the refused annotation makes the
  store red, and the job proposes nothing at all, from no source. `JobsAreGreen`
  is false of a registry with an aggregator beside an API, and proved of those
  without (`JobsStayGreen`).

## 7. Plan

Done, in this order: `Independence`, `Corroboration` and `ClaimLedger`;
`Verification`; `FetchClient` with `PageReads`, `Normalize`, `Diff`, `Outputs`
and `Collector`; `Watch`; `Ingest`, which composes the engine with checkouts,
branches and the queue; the proofs of the safety properties of each.

Left:

1. Verdicts and publications in the store of `Ingest`: `Verification` has them
   for one event, `Ingest` has the collectors' files for all events.
2. Confirms with missing manifests, `derive_state` with corrections, and a
   register written once that `Verification` implements.
3. `Collector` as the job of `Ingest`, step by step: `Ingest` has the order of
   fetches and dispatches, `Collector` the pages, the differs and the notes.

## 8. Not modelled

- Text: parsing of JSON, HTML, feeds and robots.txt, slugs, dates, number
  formats, event titles and evidence items. The models start from what the
  parser leaves.
- Redaction and PII guards: pattern matching, no state.
- Evidence bodies, manifests, audit log, run reports, the prepared lapse
  registry: written once, read by nobody that decides here.
- Waiting: crawl delay, backoff times and `Retry-After` change when a request is
  sent, and no property is about durations.
- `build_outputs` raising after the snapshot was written: the inputs have passed
  the gates that would make it, and the loss it would cause is that of a `Kill`
  after `Record`.
- The heartbeat's HTTP call, which never raises; `ping` says what it reports.
- How a workflow keeps the cache directory next to the snapshots: the models
  keep both or neither, as the workflows are templates that do not say.
- Event ids are taken unique per key and day; hash collisions are not modelled.
  Clock skew between workers is not modelled: one `now`.
- Torn mints are steps of `Corroboration` and not of `Ingest`: a job that stops
  between two writes loses its checkout, so no half-written event is proposed.
- The other checks of `ci.yml` (schemas, guards, path scopes, the immutability
  diff) refuse nothing that an unmodified collector writes. That what lands
  changes no file of main is the shape of a merge without conflicts here, and no
  property.
- Which ids sort before which within a day: the hash is a free choice, so what
  holds here holds for every order, and a violation for some.
