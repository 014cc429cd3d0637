------------------------------ MODULE Collector ------------------------------
(***************************************************************************)
(* The hourly collector run (runner.py) with the client it fetches by and  *)
(* the store it writes: every source is fetched, normalized, written as    *)
(* the new snapshot and compared with the one before; the changes are      *)
(* staged in memory until the collector's last source is done, then the    *)
(* candidate events are dispatched one by one, and last the exceptions     *)
(* are written.  The run may be killed between any two steps; the store    *)
(* and the validator cache stay as they are then.                          *)
(***************************************************************************)
EXTENDS FetchClient

CONSTANTS
    Plan,            \* COLLECTORS: a sequence of collectors, each a sequence of sources
    Task,            \* source -> its SourceTask
    Raw(_),          \* page content -> what the body parser makes of it, None if it cannot
    MaxPages,        \* max_pages of a paginated task
    Numbered(_, _),  \* the key of the n-th section with the same heading
    Canonical,       \* the alias registry: namespace -> its ids -> canonical id
    PrefixOf(_),     \* the prefix of an id, None for a bare one
    PrefixMap        \* the provider of a prefix, by namespace

VARIABLES
    baseline,        \* source -> snapshots/<source>/latest.json, None if there is none
    before,          \* source -> the snapshot the run replaced with it
    filed,           \* source -> the notes of the run that left the process
    staged,          \* source -> the notes still in memory
    dropped,         \* source -> its notes listed in the report as events_dropped_invalid
    run,             \* None, or the run under way
    report,          \* source -> its status in the run's report
    down,            \* the collectors of the run whose status is failed
    ping,            \* the last heartbeat
    origin,          \* history: source -> the pages its snapshot was made from, <<>> if none
    torn             \* history: the sources whose notes were lost from memory

storeVars == <<baseline, before, filed>>
runVars == <<staged, dropped, run, report, down, ping>>
historyVars == <<origin, torn>>
vars == <<clientVars, storeVars, runVars, historyVars>>

INSTANCE Normalize
INSTANCE Outputs

Runs == [step : {"fetch", "wait", "record", "dispatch", "finish"},
         collector : DOMAIN Plan, source : Nat \ {0}, chain : Seq(Contents \cup {Blank}),
         link : Links, still : BOOLEAN]

(* Every collector has sources, and a source has one place in one of them. *)
ASSUME PlanAssumption ==
    /\ Plan # <<>> /\ Plan \in Seq(Seq(Sources) \ {<<>>})
    /\ \A c, d \in DOMAIN Plan : \A i \in DOMAIN Plan[c], j \in DOMAIN Plan[d] :
          Plan[c][i] = Plan[d][j] => c = d /\ i = j
    /\ \A s \in Sources : Task[s].kind \in {"models-api", "pricing-api", "statuspage", "docs-html"}
    /\ None \notin Runs

(* The snapshot of every chain of pages a source may be read as. *)
Parsable(s) ==
    {c \in {Blank} \cup UNION {{pages[n] : n \in DOMAIN pages} : pages \in Chains[s]} : Raw(c) # None}

Readings(s) ==
    IF Task[s].paginate THEN UNION {[1..n -> Parsable(s)] : n \in 1..MaxPages}
    ELSE {<<c>> : c \in Parsable(s) \ {Blank}}

Snapshots ==
    [s \in {t \in Sources : Task[t].role = "content"} |->
        [pages \in Readings(s) |->
            Normalized(Task[s].normalizer, [n \in DOMAIN pages |-> Raw(pages[n])])]]

DeltasBetween(s, old, new) == Deltas(Task[s].kind, Task[s].declared, old, new)

Init == /\ ClientInit
        /\ baseline = [s \in Sources |-> None]
        /\ before = [s \in Sources |-> None]
        /\ filed = [s \in Sources |-> {}]
        /\ staged = [s \in Sources |-> {}]
        /\ dropped = [s \in Sources |-> {}]
        /\ run = None
        /\ report = [s \in Sources |-> "none"]
        /\ down = {}
        /\ ping = "none"
        /\ origin = [s \in Sources |-> <<>>]
        /\ torn = {}

Running(step) == run # None /\ run.step = step
Current == Plan[run.collector][run.source]
CollectorSources == {Plan[run.collector][i] : i \in DOMAIN Plan[run.collector]}

(* run_all: a new client, a new report.  What is kept for the properties    *)
(* starts anew as well, they speak of one run.                             *)
StartRun ==
    /\ run = None
    /\ run' = [step |-> "fetch", collector |-> 1, source |-> 1, chain |-> <<>>,
               link |-> "page", still |-> FALSE]
    /\ report' = [s \in Sources |-> "none"]
    /\ down' = {}
    /\ ping' = "none"
    /\ before' = [s \in Sources |-> None]
    /\ filed' = [s \in Sources |-> {}]
    /\ dropped' = [s \in Sources |-> {}]
    /\ torn' = {}
    /\ UNCHANGED <<clientVars, baseline, staged, origin>>

Fetch ==
    /\ Running("fetch")
    /\ Ask(Current, Len(run.chain) + 1, run.link)
    /\ run' = [run EXCEPT !.step = "wait"]
    /\ UNCHANGED <<storeVars, staged, dropped, report, down, ping, historyVars>>

(* The client at work.  Accepting the registered page begins a reading. *)
ClientStep ==
    /\ Answering
    /\ LET begins == call.page = 1 /\ call' # None /\ call'.stage = "build"
       IN  run' = IF begins THEN [run EXCEPT !.still = TRUE] ELSE run
    /\ UNCHANGED <<storeVars, staged, dropped, report, down, ping, historyVars>>

ProviderPublishes(s) ==
    /\ Publish(s)
    /\ run' = IF run # None /\ run.step # "dispatch" /\ s = Current
                THEN [run EXCEPT !.still = FALSE] ELSE run
    /\ UNCHANGED <<storeVars, staged, dropped, report, down, ping, historyVars>>

(* The source is done: the next one, or the collector's candidates. *)
SourceDone(status) ==
    /\ report' = [report EXCEPT ![Current] = status]
    /\ run' = [run EXCEPT !.step = IF run.source < Len(Plan[run.collector]) THEN "fetch" ELSE "dispatch",
                          !.source = IF run.source < Len(Plan[run.collector]) THEN @ + 1 ELSE @,
                          !.chain = <<>>, !.link = "page", !.still = FALSE]
    /\ UNCHANGED <<down, ping>>

(* One source fails on its own: the others go on (_run_collector). *)
SourceAskedAgain ==
    /\ run' = [run EXCEPT !.step = "fetch", !.chain = <<>>, !.link = "page", !.still = FALSE]
    /\ UNCHANGED <<storeVars, staged, dropped, report, down, ping, historyVars>>

SourceFails ==
    /\ SourceDone("failed")
    /\ UNCHANGED <<storeVars, staged, dropped, historyVars>>

GetException ==
    /\ Running("wait") /\ TakeAnswer
    /\ answer.outcome \in {"revoked", "alert", "error"}
    /\ SourceFails

GetNotModified ==
    /\ Running("wait") /\ TakeAnswer
    /\ answer.outcome = "not-modified"
    /\ SourceDone("not-modified")
    /\ UNCHANGED <<storeVars, staged, dropped, historyVars>>

GetBody == Running("wait") /\ TakeAnswer /\ answer.outcome = "body"

GoesOnInLimit ==
    Task[Current].paginate /\ answer.next # "end" /\ Len(run.chain) + 1 < MaxPages

GoesOn == Task[Current].paginate /\ answer.next # "end"

TooLong == GoesOn /\ Len(run.chain) + 1 >= MaxPages

(* The body cannot be parsed or normalized, or its chain is too long. *)
BodyUnusable ==
    /\ GetBody
    /\ Raw(answer.content) = None \/ TooLong
    /\ SourceFails

(* Fetched for its liveness only: compared with the mirror, never stored. *)
ParityChecked ==
    /\ GetBody /\ Raw(answer.content) # None
    /\ Task[Current].role = "parity"
    /\ SourceDone("ok")
    /\ UNCHANGED <<storeVars, staged, dropped, historyVars>>

(* A page of the chain, the last one of it or not. *)
PageTaken ==
    /\ GetBody /\ Raw(answer.content) # None /\ ~ TooLong
    /\ Task[Current].role = "content"
    /\ run' = [run EXCEPT !.chain = Append(@, answer.content),
                          !.step = IF GoesOn THEN "fetch" ELSE "record",
                          !.link = answer.next]
    /\ UNCHANGED <<storeVars, staged, dropped, report, down, ping, historyVars>>

(* The snapshot is written, and only then are the events of its changes    *)
(* built; they are staged until the collector's last source is done.       *)
Record ==
    /\ Running("record")
    /\ LET s == Current
           new == Snapshots[s][run.chain]
           deltas == DeltasBetween(s, baseline[s], new)
       IN  /\ baseline' = [baseline EXCEPT ![s] = new]
           /\ before' = [before EXCEPT ![s] = baseline[s]]
           /\ staged' = [staged EXCEPT ![s] = EventsOf(Task[s], deltas) \cup ExceptionsOf(Task[s], deltas)]
           /\ origin' = [origin EXCEPT ![s] = run.chain]
    /\ SourceDone("ok")
    /\ UNCHANGED <<clientVars, filed, dropped, torn>>

(* The whole chain was normalized, and fails the schema of its snapshots. *)
SnapshotRefused ==
    /\ Running("record")
    /\ SourceFails
    /\ UNCHANGED clientVars

-----------------------------------------------------------------------------
IsException(note) == "delta" \in DOMAIN note
Candidates == UNION {{n \in staged[s] : ~ IsException(n)} : s \in CollectorSources}

File(notes) ==
    /\ filed' = [s \in Sources |-> filed[s] \cup (staged[s] \cap notes)]
    /\ staged' = [s \in Sources |-> staged[s] \ notes]

(* A candidate, whichever sources stated it, is minted, attached or found  *)
(* already there.  (What the engine does with it is the module             *)
(* Corroboration; event ids are hashes, so their order is any order.)      *)
DispatchCandidate(note) ==
    /\ Running("dispatch")
    /\ note \in Candidates
    /\ File({note})
    /\ UNCHANGED <<clientVars, baseline, before, dropped, run, report, down, ping, historyVars>>

(* What a candidate comes to fails a schema (of the event, its identity    *)
(* key, the annotation): nothing of it is written, and the report lists    *)
(* its id.  The collector is only "partial", which fails no run.           *)
DropInvalid(note) ==
    /\ Running("dispatch")
    /\ note \in Candidates
    /\ dropped' = [s \in Sources |-> dropped[s] \cup (staged[s] \cap {note})]
    /\ staged' = [s \in Sources |-> staged[s] \ {note}]
    /\ UNCHANGED <<clientVars, storeVars, run, report, down, ping, historyVars>>

CollectorPartial(failed) ==
    /\ run' = IF run.collector < Len(Plan)
                THEN [run EXCEPT !.step = "fetch", !.collector = @ + 1, !.source = 1]
                ELSE [run EXCEPT !.step = "finish"]
    /\ UNCHANGED <<down, ping>>

CollectorDone(failed) ==
    /\ down' = IF failed THEN down \cup {run.collector} ELSE down
    /\ run' = IF run.collector < Len(Plan)
                THEN [run EXCEPT !.step = "fetch", !.collector = @ + 1, !.source = 1]
                ELSE [run EXCEPT !.step = "finish"]
    /\ UNCHANGED ping

(* The exceptions of the whole collector, in one file. *)
WriteExceptions ==
    /\ Running("dispatch") /\ Candidates = {}
    /\ File(UNION {staged[s] : s \in CollectorSources})
    /\ CollectorDone(\A s \in CollectorSources : report[s] = "failed")
    /\ UNCHANGED <<clientVars, baseline, before, dropped, report, historyVars>>

(* What the process holds in memory is gone, the list of the invalid too:  *)
(* the report is written when the run ends.                                *)
LoseStaged(lost) ==
    /\ staged' = [s \in Sources |-> IF s \in lost THEN {} ELSE staged[s]]
    /\ dropped' = [s \in Sources |-> IF s \in lost THEN {} ELSE dropped[s]]
    /\ torn' = torn \cup {s \in lost : staged[s] # {} \/ dropped[s] # {}}

(* The engine or the store raises (a file of the store that cannot be      *)
(* read): no source's try is around this, and the collector fails with     *)
(* everything it still had staged.  Its entry in the report names no source.*)
DispatchRaises ==
    /\ Running("dispatch")
    /\ \E s \in CollectorSources : staged[s] # {}
    /\ LoseStaged(CollectorSources)
    /\ report' = [s \in Sources |-> IF s \in CollectorSources THEN "none" ELSE report[s]]
    /\ CollectorDone(TRUE)
    /\ UNCHANGED <<clientVars, storeVars, origin>>

(* The report and the ping, /fail when a collector failed. *)
FinishRun ==
    /\ Running("finish")
    /\ Exit
    /\ run' = None
    /\ ping' = IF down = {} THEN "success" ELSE "fail"
    /\ UNCHANGED <<storeVars, staged, dropped, report, down, historyVars>>

(* Killed between two steps. *)
Kill ==
    /\ run # None
    /\ Exit
    /\ run' = None
    /\ LoseStaged(Sources)
    /\ report' = [s \in Sources |-> "none"]
    /\ down' = {}
    /\ UNCHANGED <<storeVars, ping, origin>>

Works == \/ Fetch \/ ClientStep \/ GetException \/ GetNotModified \/ BodyUnusable
         \/ ParityChecked \/ PageTaken \/ Record \/ SnapshotRefused
         \/ (\E note \in (IF run = None THEN {} ELSE Candidates) :
                DispatchCandidate(note) \/ DropInvalid(note))
         \/ WriteExceptions \/ DispatchRaises \/ FinishRun

Next == \/ StartRun \/ Works \/ Kill
        \/ \E s \in Sources : ProviderPublishes(s)

(* The process runs until it ends; nothing makes a provider publish, a     *)
(* schedule start a run, or anyone kill one.                               *)
Spec == Init /\ [][Next]_vars /\ WF_vars(Works)

-----------------------------------------------------------------------------
TypeInvariant ==
    /\ ClientTypeOK
    /\ DOMAIN baseline = Sources /\ DOMAIN before = Sources
    /\ DOMAIN filed = Sources /\ DOMAIN staged = Sources /\ DOMAIN dropped = Sources
    /\ run \in Runs \cup {None}
    /\ report \in [Sources -> {"none", "ok", "not-modified", "failed"}]
    /\ down \subseteq DOMAIN Plan
    /\ ping \in {"none", "success", "fail"}
    /\ origin \in [Sources -> Seq(Contents \cup {Blank})]
    /\ torn \subseteq Sources

(* A source that the run reports as ok has its cache entry and its         *)
(* snapshot of one reading: the validators the client keeps of it are      *)
(* those of the first page the snapshot was made from, whatever was        *)
(* refused, retried or asked for since.  (Of a reading that is broken off  *)
(* after its validators were stored nothing of the kind can be said.)      *)
OkIsInStep ==
    \A s \in Sources :
        report[s] = "ok" /\ Task[s].role = "content" /\ validators[s] # None =>
            origin[s] # <<>> /\ origin[s][1] = validators[s]

(* Every difference between a snapshot and the one it replaced, said       *)
(* without the differs, is left out by a documented rule, or spoken of by  *)
(* a note that left the process, is still staged, or is listed as invalid  *)
(* in the report; only a kill or a failed collector loses one without a    *)
(* word of it, whatever other sources of the collector do.                 *)
NoteAbout(s, d) ==
    \E delta \in DeltasBetween(s, before[s], baseline[s]) :
        Covers(delta, d) /\ NoteOf(Task[s], delta) \in filed[s] \cup staged[s] \cup dropped[s]

ChangesAccountedFor ==
    \A s \in Sources \ torn :
        before[s] # None =>
            \A d \in Differences(Task[s].kind, before[s], baseline[s]) :
                Dropped(Task[s].kind, before[s], baseline[s], d) \/ NoteAbout(s, d)

(* And no note is invented: each that left the process or is staged is of  *)
(* a difference between the source's snapshot and the one it replaced, all *)
(* that it lists differs and the values it states are those of the two -   *)
(* though the notes wait while other sources are read and recorded, and    *)
(* runs that were killed or failed have left theirs (diff.py:8-13).        *)
NothingInvented ==
    \A s \in Sources : \A note \in filed[s] \cup staged[s] :
        /\ before[s] # None
        /\ \E delta \in DeltasBetween(s, before[s], baseline[s]) :
              /\ note = NoteOf(Task[s], delta)
              /\ TrueOf(Task[s].kind, before[s], baseline[s], delta)

(* A snapshot about to be written is the whole of what the provider        *)
(* publishes when it stood still for the reading: every page of the chain  *)
(* in order, none of another reading, the last one included.               *)
WholePages(s) == IF Task[s].paginate THEN server[s] ELSE <<server[s][1]>>

SnapshotsAreWhole ==
    Running("record") /\ run.still => run.chain = WholePages(Current)

(* A run that pings success heard from at least one source of each         *)
(* collector, and each change of a snapshot it wrote has left the process  *)
(* in a note, but for those its report lists as invalid.                   *)
SuccessMeansHeard ==
    ping = "success" =>
        /\ \A c \in DOMAIN Plan : \E i \in DOMAIN Plan[c] : report[Plan[c][i]] \in {"ok", "not-modified"}
        /\ \A s \in Sources : before[s] # None =>
              \A delta \in DeltasBetween(s, before[s], baseline[s]) :
                  NoteOf(Task[s], delta) \in filed[s] \cup dropped[s]

(* Every run ends: the retries are bounded, the chains too, and every      *)
(* answer of the client leads to the next source.                          *)
RunsEnd == run # None ~> run = None
=============================================================================
