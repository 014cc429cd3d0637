-------------------------------- MODULE Watch --------------------------------
(***************************************************************************)
(* The weekly watch jobs (tools/watch): the sentinels over the terms that  *)
(* clear a source (sentinel.py) and the robots.txt sweep                   *)
(* (robots_recheck.py).  A pass compares what it fetches with what the     *)
(* checkout keeps, writes the new state of each host and of the hub as it  *)
(* goes, and files its items in the exceptions queue (queue.py) at the end.*)
(* Nothing is accepted but by a reviewed commit.  A pass may be stopped    *)
(* anywhere, by a kill or by a state file it cannot read.                  *)
(*                                                                         *)
(* What is watched, the targets: the carve-out sentence of the AWS Site    *)
(* Terms ("quote"), the text of the AWS AUP ("aup"), the document set of   *)
(* the Mistral hub ("hub"), and the robots stance of every swept host.     *)
(***************************************************************************)
EXTENDS Naturals, Sequences, FiniteSets

CONSTANTS
    Hosts,           \* the swept hosts: fetched directly, and not excluded
    SourcesOn,       \* host -> the registered sources fetched there
    Pins,            \* host -> the pinned Content-Signal, None if there is no pin
    RobotsFiles,     \* host -> what its robots.txt may answer: [status, allowed, signal]
    Quotes,          \* the carve-out sentences the Site Terms may have
    NoQuote,         \* terms without one
    Policies,        \* the texts the AUP may have
    DocumentSets,    \* the documents the hub may link to
    Passes,          \* the jobs: sequences of sentinel ids, or of all hosts
    None,
    MaxChanges,      \* bound: how often the world changes
    MaxStops         \* bound: how often a pass is stopped

VARIABLES
    deployment,      \* "ephemeral": a new checkout and output directory for each pass
    world,           \* target -> what is published now
    committed,       \* target -> what the repository has
    working,         \* target -> what the checkout of the pass has
    validators,      \* page -> the tag kept in the output directory, or None
    pass,            \* None, or the pass under way
    filed,           \* None, or the items of the last pass that came to its end
    prior,           \* history: what the checkout had when the pass began
    still,           \* history: nothing was published since then
    lost,            \* history: the targets a stopped pass had written
    changes, stops   \* for the bounds

vars == <<deployment, world, committed, working, validators, pass, filed, prior, still, lost,
          changes, stops>>

Reference == {"quote", "aup"}        \* kept in the record of the sentinel aws-carveout
Pages == Reference \cup {"hub"}
Targets == Pages \cup Hosts

Handlers == {"aws-carveout", "mistral-legal-hub-watch"}

(* parse_stance: no robots.txt allows everything, an unreachable one       *)
(* nothing.                                                                *)
ParseStance(h, r) ==
    CASE r.status = "ok"     -> r
      [] r.status = "absent" -> [status |-> "absent", allowed |-> SourcesOn[h], signal |-> None]
      [] OTHER               -> r

Unreachable == [status |-> "unreachable", allowed |-> {}, signal |-> None]

Published(t) == CASE t = "quote" -> Quotes \cup {NoQuote}
                  [] t = "aup"   -> Policies
                  [] t = "hub"   -> DocumentSets
                  [] OTHER       -> RobotsFiles[t]

Worlds == {w \in [Targets -> UNION {Published(t) : t \in Targets}] :
              \A t \in Targets : w[t] \in Published(t)}

(* What a pass keeps of a target: None, or what it makes of an answer. *)
Observed(t) == IF t \in Hosts THEN ParseStance(t, world[t]) ELSE world[t]

Keepable(t) ==
    {None} \cup IF t \in Hosts THEN {ParseStance(t, r) : r \in RobotsFiles[t] \cup {Unreachable}}
                ELSE Published(t) \ {NoQuote}

Ids == UNION {{job[n] : n \in DOMAIN job} : job \in Passes}

(* A job names nothing twice, and is of the sentinels or of the sweep. *)
ASSUME JobAssumption ==
    /\ Hosts \cap (Pages \cup Handlers) = {}
    /\ \A job \in Passes :
          /\ job \in Seq(Ids)
          /\ \A m, n \in DOMAIN job : job[m] = job[n] => m = n
          /\ (\A n \in DOMAIN job : job[n] \in Hosts) \/ (\A n \in DOMAIN job : job[n] \notin Hosts)
    /\ MaxChanges \in Nat /\ MaxStops \in Nat

Kinds == {"reference-seeded", "verdict-lapse", "state-seeded", "document-appeared", "source.failed",
          "sentinel.error",
          "unhandled", "stance-changed", "unreachable", "content-signals-mismatch"}

AllItems == [kind : Kinds, severity : {"notice", "warning", "critical"}, about : SUBSET Targets]

(* A pass under way, and what one leaves in the queue. *)
PassStates ==
    [job : Passes, todo : Seq(Ids), step : {"visit", "aup"}, items : SUBSET AllItems,
     dirty : BOOLEAN, memory : [Reference -> UNION {Keepable(t) : t \in Targets}],
     seeded : SUBSET Targets, lapsed : SUBSET Reference]

Queues == [job : Passes, items : SUBSET AllItems]

(* None is no page, no pass and no queue, and only terms lack a sentence. *)
ASSUME NothingAssumption ==
    /\ None \notin PassStates /\ None \notin Queues
    /\ \A p \in Pages : None \notin Published(p)
    /\ NoQuote \notin DocumentSets

(* Nothing is kept of a target before its first pass, or its stance then. *)
Init == /\ deployment \in {"ephemeral", "kept"}
        /\ world \in Worlds
        /\ committed \in {[t \in Targets |-> None],
                          [t \in Targets |-> IF world[t] = NoQuote THEN None ELSE Observed(t)]}
        /\ working = committed
        /\ validators = [p \in Pages |-> None]
        /\ pass = None /\ filed = None
        /\ prior = committed /\ still = TRUE /\ lost = {}
        /\ changes = 0 /\ stops = 0

WorldChanges(t) ==
    /\ changes < MaxChanges
    /\ changes' = changes + 1
    /\ \E v \in Published(t) \ {world[t]} : world' = [world EXCEPT ![t] = v]
    /\ still' = FALSE
    /\ UNCHANGED <<deployment, committed, working, validators, pass, filed, prior, lost, stops>>

WatchedBy(job) ==
    UNION {CASE job[n] = "aws-carveout"            -> Reference
             [] job[n] = "mistral-legal-hub-watch" -> {"hub"}
             [] OTHER                              -> {job[n]} \cap Hosts : n \in DOMAIN job}

(* A reviewed PR commits what a pass has written.  (A kept checkout has it *)
(* already, whatever the repository has.)                                  *)
Accept ==
    /\ pass = None /\ filed # None /\ deployment = "ephemeral"
    /\ committed' = [t \in Targets |-> IF t \in WatchedBy(filed.job) THEN working[t] ELSE committed[t]]
    /\ UNCHANGED <<deployment, world, working, validators, pass, filed, prior, still, lost,
                   changes, stops>>

Begin(job) ==
    /\ pass = None
    /\ working' = IF deployment = "ephemeral" THEN committed ELSE working
    /\ pass' = [job |-> job, todo |-> job, step |-> "visit", items |-> {}, dirty |-> FALSE,
                memory |-> [t \in Reference |-> working'[t]], seeded |-> {}, lapsed |-> {}]
    /\ filed' = None
    /\ prior' = working' /\ still' = TRUE /\ lost' = {}
    /\ UNCHANGED <<deployment, world, committed, validators, changes, stops>>

Visiting(subject) == pass # None /\ pass.step = "visit" /\ pass.todo # <<>> /\ Head(pass.todo) = subject
AtAup == pass # None /\ pass.step = "aup"

Item(kind, severity, about) == [kind |-> kind, severity |-> severity, about |-> about]

(* The subject is done, with these items. *)
Next1(p, items) ==
    [p EXCEPT !.todo = Tail(@), !.step = "visit", !.items = @ \cup items]

-----------------------------------------------------------------------------
(* aws-carveout: the terms, then the AUP.  (A page may be sent in full     *)
(* though its tag still holds, so one without a tag adds nothing.)         *)
Unmodified(page) == validators[page] = world[page]

ReadPage(page) == validators' = [validators EXCEPT ![page] = world[page]]

(* Compared with the reference in memory; what has none yet is seeded, but *)
(* terms without the sentence lapse at once.                               *)
JudgedBySeeding(p, t, seen) ==
    IF p.memory[t] = seen THEN p
    ELSE [p EXCEPT !.memory[t] = seen, !.seeded = @ \cup {t}]

Judged(p, t, seen) ==
    CASE p.memory[t] = None /\ seen # NoQuote -> [p EXCEPT !.memory[t] = seen, !.seeded = @ \cup {t}]
      [] p.memory[t] = seen                   -> p
      [] OTHER                                -> [p EXCEPT !.lapsed = @ \cup {t}]

(* The items of both comparisons; the registry is to be written when the   *)
(* reference was seeded, never for a lapse.                                *)
Concluded(p) ==
    [Next1(p, (IF p.seeded = {} THEN {} ELSE {Item("reference-seeded", "notice", p.seeded)})
              \cup (IF p.lapsed = {} THEN {} ELSE {Item("verdict-lapse", "critical", p.lapsed)}))
        EXCEPT !.dirty = @ \/ p.seeded # {}, !.seeded = {}, !.lapsed = {}]

Untouched == UNCHANGED <<deployment, world, committed, filed, prior, still, lost, changes, stops>>

Terms ==
    /\ Visiting("aws-carveout")
    /\ \/ Unmodified("quote") /\ pass' = [pass EXCEPT !.step = "aup"] /\ UNCHANGED validators
       \/ /\ ReadPage("quote")
          /\ pass' = [Judged(pass, "quote", world["quote"]) EXCEPT !.step = "aup"]
    /\ UNCHANGED working /\ Untouched

Aup ==
    /\ AtAup
    /\ \/ Unmodified("aup") /\ pass' = Concluded(pass) /\ UNCHANGED validators
       \/ ReadPage("aup") /\ pass' = Concluded(Judged(pass, "aup", world["aup"]))
    /\ UNCHANGED working /\ Untouched

(* mistral-legal-hub-watch: the state is written before the item is made. *)
HubItems(old, new) ==
    CASE old = None              -> {Item("state-seeded", "notice", {"hub"})}
      [] old \notin {None, new}  -> {Item("document-appeared", "warning", {"hub"})}
      [] OTHER                   -> {}

Hub ==
    /\ Visiting("mistral-legal-hub-watch")
    /\ \/ Unmodified("hub") /\ pass' = Next1(pass, {}) /\ UNCHANGED <<working, validators>>
       \/ /\ ReadPage("hub")
          /\ working' = [working EXCEPT !["hub"] = world["hub"]]
          /\ pass' = Next1(pass, HubItems(working["hub"], world["hub"]))
    /\ Untouched

(* A page cannot be fetched: the sentinel ends with a critical item,       *)
(* whatever it has seen of another page.                                   *)
WarnsOnly(targets) == {Item("source.failed", "warning", targets)}

CannotVerify(targets) == {Item("source.failed", "critical", targets)}

SentinelFails ==
    /\ \/ (Visiting("aws-carveout") \/ AtAup) /\ pass' = [Next1(pass, CannotVerify(Reference))
                                                             EXCEPT !.seeded = {}, !.lapsed = {}]
       \/ Visiting("mistral-legal-hub-watch") /\ pass' = Next1(pass, CannotVerify({"hub"}))
    /\ UNCHANGED <<working, validators>> /\ Untouched

(* The hub's state cannot be read, after the page was: no better. *)
HubStateUnreadable ==
    /\ Visiting("mistral-legal-hub-watch") /\ ~ Unmodified("hub")
    /\ ReadPage("hub")
    /\ pass' = Next1(pass, {Item("sentinel.error", "critical", {"hub"})})
    /\ UNCHANGED working /\ Untouched

Unhandled ==
    /\ \E id \in Ids \ (Handlers \cup Hosts) :
          Visiting(id) /\ pass' = Next1(pass, {Item("unhandled", "warning", {})})
    /\ UNCHANGED <<working, validators>> /\ Untouched

(* The registry, when the reference was seeded. *)
WriteRegistry ==
    /\ pass # None /\ pass.todo = <<>> /\ pass.step = "visit" /\ pass.dirty
    /\ working' = [t \in Targets |-> IF t \in Reference THEN pass.memory[t] ELSE working[t]]
    /\ pass' = [pass EXCEPT !.dirty = FALSE]
    /\ UNCHANGED validators /\ Untouched

-----------------------------------------------------------------------------
(* The sweep: one host.                                                    *)
CollectionBlocking(old, new) == \E s \in old.allowed : s \notin new.allowed

StanceItems(h, old, new) ==
    IF old = None \/ old = new THEN {}
    ELSE {Item("stance-changed", IF CollectionBlocking(old, new) THEN "critical" ELSE "warning", {h})}

RulesOnlyItems(h, old, new) ==
    IF old = None \/ old.allowed = new.allowed THEN {} ELSE StanceItems(h, old, new)

ObservedItems(h, old, new) == StanceItems(h, old, new)

SignalMismatch(h, stance) == Pins[h] # None /\ stance.signal # Pins[h]

SweepHost(h) ==
    /\ Visiting(h)
    /\ \E answer \in {world[h], Unreachable} :
       LET stance == ParseStance(h, answer)
           old == working[h]
       IN  /\ working' = [working EXCEPT ![h] = stance]
           /\ pass' = [Next1(pass, ObservedItems(h, old, stance)
                         \cup (IF stance.status = "unreachable"
                                 THEN {Item("unreachable", "warning", {h})} ELSE {})
                         \cup (IF SignalMismatch(h, stance)
                                 THEN {Item("content-signals-mismatch", "critical", {h})} ELSE {}))
                          EXCEPT !.seeded = IF old = None THEN @ \cup {h} ELSE @]
    /\ UNCHANGED validators /\ Untouched

-----------------------------------------------------------------------------
(* The items leave the process in one file, the hosts seen for the first   *)
(* time in one of them.                                                    *)
ItemsAtTheEnd(p) ==
    p.items \cup (IF p.seeded = {} THEN {} ELSE {Item("state-seeded", "notice", p.seeded)})

(* With the runner of an ephemeral pass goes the cache in its output       *)
(* directory.                                                              *)
PassEnds ==
    /\ pass' = None
    /\ validators' = IF deployment = "ephemeral" THEN [p \in Pages |-> None] ELSE validators

WriteQueue ==
    /\ pass # None /\ pass.todo = <<>> /\ pass.step = "visit" /\ ~ pass.dirty
    /\ filed' = [job |-> pass.job, items |-> ItemsAtTheEnd(pass)]
    /\ PassEnds
    /\ UNCHANGED <<deployment, world, committed, working, prior, still, lost, changes, stops>>

(* Killed, or the sweep cannot read a state file: no queue file. *)
Stop ==
    /\ pass # None
    /\ stops < MaxStops
    /\ stops' = stops + 1
    /\ PassEnds
    /\ lost' = {t \in Targets : working[t] # prior[t]}
    /\ UNCHANGED <<deployment, world, committed, working, filed, prior, still, changes>>

Works == \/ Terms \/ Aup \/ Hub \/ SentinelFails \/ HubStateUnreadable \/ Unhandled \/ WriteRegistry
         \/ (\E h \in Hosts : SweepHost(h))
         \/ WriteQueue

Next == \/ \E t \in Targets : WorldChanges(t)
        \/ Accept
        \/ \E job \in Passes : Begin(job)
        \/ Works
        \/ Stop

(* A pass that runs goes on, and the schedule starts every job each week.  *)
Spec == Init /\ [][Next]_vars /\ WF_vars(Works) /\ \A job \in Passes : SF_vars(Begin(job))

-----------------------------------------------------------------------------
Keeps(f) == /\ DOMAIN f = Targets
            /\ \A t \in Targets : f[t] \in Keepable(t)

TypeInvariant ==
    /\ deployment \in {"ephemeral", "kept"}
    /\ world \in Worlds
    /\ Keeps(committed) /\ Keeps(working) /\ Keeps(prior)
    /\ DOMAIN validators = Pages /\ \A p \in Pages : validators[p] \in Published(p) \cup {None}
    /\ pass \in PassStates \cup {None}
    /\ pass # None => \A t \in Reference : pass.memory[t] \in Keepable(t)
    /\ filed \in Queues \cup {None}
    /\ still \in BOOLEAN /\ lost \subseteq Targets
    /\ changes \in 0..MaxChanges /\ stops \in 0..MaxStops

(* Nothing is adopted silently: whatever a pass changes in the checkout is *)
(* in the queue when it ends, and on its way there before; critical when a *)
(* registered URL that was allowed no longer is.  A stopped pass is the    *)
(* one exception, for the targets it had written.                          *)
Items == CASE pass # None                  -> ItemsAtTheEnd(pass)
           [] pass = None /\ filed # None -> filed.items
           [] OTHER                        -> {}

Blocks(t, old, new) == t \in Hosts /\ old # None /\ new # None /\ CollectionBlocking(old, new)

AdoptionsQueued ==
    \A t \in Targets \ lost :
        working[t] # prior[t] =>
            \E i \in Items : /\ t \in i.about
                             /\ Blocks(t, prior[t], working[t]) => i.severity = "critical"

(* In a new checkout nothing gets past a pass that came to its end: what   *)
(* stood published all the time and is not what the repository has is in   *)
(* the queue, and a lapse of the AWS clearance as critical, also when the  *)
(* documents could not be fetched, and again in every pass until a commit  *)
(* accepts it.                                                             *)
DriftIsQueued ==
    (filed # None /\ still /\ deployment = "ephemeral") =>
        \A t \in WatchedBy(filed.job) :
            prior[t] \notin {None, Observed(t)} =>
                \E i \in filed.items : /\ t \in i.about
                                       /\ t \in Reference => i.severity = "critical"

(* A lapse that lasts is heard of for as long as it lasts: whatever fails  *)
(* or is stopped, critical items about the AWS clearance keep coming.      *)
LapseIsHeard ==
    (deployment = "ephemeral" /\ <>[](committed["quote"] \notin {None, world["quote"]}))
        => []<>(filed # None /\ \E i \in filed.items : "quote" \in i.about /\ i.severity = "critical")
=============================================================================
