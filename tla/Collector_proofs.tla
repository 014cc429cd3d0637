--------------------------- MODULE Collector_proofs ---------------------------
(***************************************************************************)
(* Proofs about the collector run, for every plan, registry and provider.  *)
(* The client's steps are those of FetchClient_proofs.  The invariants are *)
(* strengthened in parts: where the run is (Position), what of a reading   *)
(* is already remembered (Remembers) and true of the provider (Reading),   *)
(* what has become of the notes (NotesKept), which sources were heard      *)
(* (Heard), and which have no status and nothing filed yet                 *)
(* (NothingReportedAhead, NothingFiledAhead).                              *)
(***************************************************************************)
EXTENDS Collector, FetchClient_proofs

Position ==
    /\ call = None \/ answer = None
    /\ run = None => call = None /\ answer = None
    /\ run # None =>
          /\ run.source \in DOMAIN Plan[run.collector]
          /\ run.step # "wait" => call = None /\ answer = None
          /\ call # None => call.source = Current /\ call.page = Len(run.chain) + 1
          /\ answer # None => answer.source = Current /\ answer.page = Len(run.chain) + 1
          /\ run.step = "record" => run.chain # <<>>
          /\ run.step \in {"dispatch", "finish"} => run.still = FALSE /\ run.chain = <<>>

PInv == TypeInvariant /\ ContentIsRead /\ Position

LEMMA PlanFacts ==
    /\ 1 \in DOMAIN Plan
    /\ \A c \in DOMAIN Plan : /\ c \in Nat \ {0}
                              /\ Len(Plan[c]) \in Nat \ {0}
                              /\ DOMAIN Plan[c] = 1..Len(Plan[c])
                              /\ \A i \in DOMAIN Plan[c] : Plan[c][i] \in Sources
    /\ Len(Plan) \in Nat /\ DOMAIN Plan = 1..Len(Plan)
<1>1. Len(Plan) \in Nat /\ DOMAIN Plan = 1..Len(Plan)
  BY PlanAssumption
<1>2. 1 \in DOMAIN Plan
  BY PlanAssumption
<1>3. ASSUME NEW c \in DOMAIN Plan
      PROVE  /\ c \in Nat \ {0}
             /\ Len(Plan[c]) \in Nat \ {0}
             /\ DOMAIN Plan[c] = 1..Len(Plan[c])
             /\ \A i \in DOMAIN Plan[c] : Plan[c][i] \in Sources
  <2>1. Plan[c] \in Seq(Sources) \ {<<>>}
    BY PlanAssumption
  <2>2. Len(Plan[c]) # 0
    BY <2>1
  <2>3. QED BY <1>1, <2>1, <2>2
<1>4. QED BY <1>1, <1>2, <1>3

LEMMA NoRun == None \notin Runs
BY PlanAssumption

LEMMA CurrentIs ==
    ASSUME PInv, run # None
    PROVE  /\ run \in Runs
           /\ run.collector \in DOMAIN Plan
           /\ Current \in Sources /\ Current \in CollectorSources
<1>1. run \in Runs
  BY DEF PInv, TypeInvariant
<1>2. run.collector \in DOMAIN Plan /\ run.source \in DOMAIN Plan[run.collector]
  BY <1>1 DEF PInv, Position, Runs
<1>3. QED BY <1>1, <1>2, PlanFacts DEF Current, CollectorSources

(* The source is done: the next one of the collector, or its dispatch.     *)
LEMMA NextSource ==
    ASSUME PInv, run # None, run.step \in {"wait", "record"},
           NEW status \in {"ok", "not-modified", "failed"}, SourceDone(status)
    PROVE  /\ run' \in Runs /\ run' # None
           /\ run'.collector = run.collector /\ run'.source \in DOMAIN Plan[run.collector]
           /\ run'.step \in {"fetch", "dispatch"}
           /\ run'.step = "fetch" => run'.source = run.source + 1
           /\ run'.step = "dispatch" => run'.source = run.source /\ run.source = Len(Plan[run.collector])
           /\ run'.chain = <<>> /\ run'.still = FALSE
           /\ report' = [report EXCEPT ![Current] = status]
           /\ UNCHANGED <<down, ping>>
<1>1. run \in Runs /\ run.collector \in DOMAIN Plan
  BY CurrentIs
<1>2. run.source \in DOMAIN Plan[run.collector]
  BY DEF PInv, Position
<1>3. run' = [run EXCEPT !.step = IF run.source < Len(Plan[run.collector]) THEN "fetch" ELSE "dispatch",
                         !.source = IF run.source < Len(Plan[run.collector]) THEN @ + 1 ELSE @,
                         !.chain = <<>>, !.link = "page", !.still = FALSE]
  BY DEF SourceDone
<1>4. run.source \in 1..Len(Plan[run.collector]) /\ Len(Plan[run.collector]) \in Nat
  BY <1>1, <1>2, PlanFacts
<1>5. /\ run'.collector = run.collector /\ run'.chain = <<>> /\ run'.still = FALSE /\ run'.link = "page"
      /\ run'.step = IF run.source < Len(Plan[run.collector]) THEN "fetch" ELSE "dispatch"
      /\ run'.source = IF run.source < Len(Plan[run.collector]) THEN run.source + 1 ELSE run.source
      /\ run' \in Runs
  <2>1. <<>> \in Seq(Contents \cup {Blank}) /\ "page" \in Links
    BY DEF Links
  <2>2. /\ run'.collector = run.collector /\ run'.chain = <<>> /\ run'.still = FALSE /\ run'.link = "page"
        /\ run'.step = (IF run.source < Len(Plan[run.collector]) THEN "fetch" ELSE "dispatch")
        /\ run'.source = (IF run.source < Len(Plan[run.collector]) THEN run.source + 1 ELSE run.source)
    BY <1>1, <1>3 DEF Runs
  <2>3. run'.source \in Nat \ {0}
    BY <1>4, <2>2
  <2>4. run' = [step |-> run'.step, collector |-> run'.collector, source |-> run'.source,
                chain |-> run'.chain, link |-> run'.link, still |-> run'.still]
    BY <1>1, <1>3 DEF Runs
  <2>5. QED BY <1>1, <2>1, <2>2, <2>3, <2>4 DEF Runs
<1>6. run'.source \in 1..Len(Plan[run.collector])
  BY <1>4, <1>5
<1>7. run' # None
  BY <1>5, NoRun
<1>8. run'.source \in DOMAIN Plan[run.collector]
  BY <1>1, <1>6, PlanFacts
<1>9. QED BY <1>4, <1>5, <1>7, <1>8 DEF SourceDone

(* Or the collector: the next one, or the end of the run.                  *)
LEMMA NextCollector ==
    ASSUME PInv, run # None, run.step = "dispatch", NEW failed \in BOOLEAN, CollectorDone(failed)
    PROVE  /\ run' \in Runs /\ run' # None /\ run'.still = FALSE /\ run'.chain = run.chain
           /\ \/ /\ run'.step = "fetch" /\ run'.collector = run.collector + 1 /\ run'.source = 1
                 /\ run'.collector \in DOMAIN Plan
              \/ /\ run'.step = "finish" /\ run'.collector = run.collector /\ run'.source = run.source
                 /\ run.collector = Len(Plan)
           /\ run'.source \in DOMAIN Plan[run'.collector]
           /\ down' = (IF failed THEN down \cup {run.collector} ELSE down) /\ ping' = ping
<1>1. run \in Runs /\ run.collector \in DOMAIN Plan /\ run.still = FALSE /\ run.source \in DOMAIN Plan[run.collector]
  BY CurrentIs DEF PInv, Position
<1>2. run.collector \in 1..Len(Plan) /\ Len(Plan) \in Nat
  BY <1>1, PlanFacts
<1>3. CASE run.collector < Len(Plan)
  <2>1. run' = [run EXCEPT !.step = "fetch", !.collector = @ + 1, !.source = 1]
    BY <1>3 DEF CollectorDone
  <2>2. run.collector + 1 \in DOMAIN Plan
    BY <1>2, <1>3, PlanFacts
  <2>3. 1 \in DOMAIN Plan[run.collector + 1]
    BY <2>2, PlanFacts
  <2>4. /\ run' \in Runs /\ run'.step = "fetch" /\ run'.collector = run.collector + 1 /\ run'.source = 1
        /\ run'.still = FALSE /\ run'.chain = run.chain
    <3>1. /\ run'.step = "fetch" /\ run'.collector = run.collector + 1 /\ run'.source = 1
          /\ run'.still = FALSE /\ run'.chain = run.chain
      BY <1>1, <2>1 DEF Runs
    <3>2. run' = [step |-> "fetch", collector |-> run.collector + 1, source |-> 1,
                  chain |-> run.chain, link |-> run.link, still |-> run.still]
      BY <1>1, <2>1 DEF Runs
    <3>3. run' \in Runs
      BY <1>1, <2>2, <3>2 DEF Runs
    <3>4. QED BY <3>1, <3>3
  <2>5. QED BY <2>2, <2>3, <2>4, NoRun DEF CollectorDone
<1>4. CASE ~ (run.collector < Len(Plan))
  <2>1. run' = [run EXCEPT !.step = "finish"]
    BY <1>4 DEF CollectorDone
  <2>2. /\ run' \in Runs /\ run'.step = "finish" /\ run'.collector = run.collector
        /\ run'.source = run.source /\ run'.still = FALSE /\ run'.chain = run.chain
    BY <1>1, <2>1 DEF Runs
  <2>3. QED BY <1>1, <1>2, <1>4, <2>2, NoRun DEF CollectorDone
<1>5. QED BY <1>3, <1>4

-----------------------------------------------------------------------------
(* A candidate leaves memory: for the store, or for the report's list.     *)
Dispatches == \E note \in (IF run = None THEN {} ELSE Candidates) :
                 DispatchCandidate(note) \/ DropInvalid(note)

(* Every step of the run is one of the client, or leaves it alone.         *)
LEMMA ClientPart ==
    ASSUME PInv, [Next]_vars PROVE [ClientNext]_clientVars
<1>1. CASE UNCHANGED vars
  BY <1>1 DEF vars
<1>2. ASSUME Fetch PROVE ClientNext
  <2>1. run \in Runs /\ Current \in Sources
    BY <1>2, CurrentIs DEF Fetch, Running
  <2>2. Len(run.chain) + 1 \in Nat \ {0} /\ run.link \in Links
    BY <2>1 DEF Runs
  <2>3. Ask(Current, Len(run.chain) + 1, run.link)
    BY <1>2 DEF Fetch
  <2>4. QED BY <2>1, <2>2, <2>3 DEF ClientNext
<1>3. ASSUME NEW s \in Sources, ProviderPublishes(s) PROVE ClientNext
  BY <1>3 DEF ProviderPublishes, ClientNext
<1>4. CASE ClientStep
  BY <1>4 DEF ClientStep, ClientNext
<1>5. CASE GetException \/ GetNotModified \/ BodyUnusable \/ ParityChecked \/ PageTaken
  BY <1>5 DEF GetException, GetNotModified, BodyUnusable, ParityChecked, PageTaken, GetBody, ClientNext
<1>6. CASE FinishRun \/ Kill
  BY <1>6 DEF FinishRun, Kill, ClientNext
<1>7. CASE StartRun \/ Record \/ SnapshotRefused \/ WriteExceptions \/ DispatchRaises
  BY <1>7 DEF StartRun, Record, SnapshotRefused, WriteExceptions, DispatchRaises, clientVars
<1>8. CASE Dispatches
  BY <1>8 DEF Dispatches, DispatchCandidate, DropInvalid, clientVars
<1>9. QED BY <1>1, <1>2, <1>3, <1>4, <1>5, <1>6, <1>7, <1>8 DEF Next, Works, Dispatches

(* The answers the run waits for, by what it makes of them.                *)
LEMMA Waits ==
    ASSUME PInv, Running("wait"), TakeAnswer
    PROVE  /\ run # None /\ run.step \in {"wait", "record"} /\ run \in Runs /\ Current \in Sources
           /\ answer \in Answers /\ answer # None /\ answer.source = Current
           /\ answer.page = Len(run.chain) + 1
           /\ answer.outcome = "body" => answer.content \in Contents \cup {Blank}
           /\ call = None /\ call' = None /\ answer' = None
           /\ UNCHANGED <<server, validators>>
<1>1. run # None /\ run.step = "wait" /\ answer # None
  BY DEF Running, TakeAnswer
<1>2. answer \in Answers
  BY <1>1 DEF PInv, TypeInvariant, ClientTypeOK
<1>3. answer.outcome = "body" => answer.content \in Contents \cup {Blank}
  BY <1>1, <1>2 DEF PInv, ContentIsRead, Answers
<1>4. QED BY <1>1, <1>2, <1>3, CurrentIs DEF TakeAnswer, PInv, Position

SourceEnds ==
    /\ \/ Running("wait") /\ TakeAnswer
       \/ Running("record") /\ UNCHANGED clientVars
    /\ \E status \in {"ok", "not-modified", "failed"} :
          SourceDone(status) /\ (status = "ok" => Task[Current].role # "content")
    /\ UNCHANGED <<storeVars, staged, dropped, historyVars>>

LEMMA WaitingEnds ==
    ASSUME GetException \/ GetNotModified \/ BodyUnusable \/ ParityChecked \/ SnapshotRefused
    PROVE  SourceEnds
<1>1. CASE GetException \/ BodyUnusable \/ GetNotModified
  BY <1>1 DEF GetException, GetNotModified, BodyUnusable, GetBody, SourceFails, SourceEnds
<1>2. CASE ParityChecked
  BY <1>2 DEF ParityChecked, GetBody, SourceEnds
<1>3. CASE SnapshotRefused
  BY <1>3 DEF SnapshotRefused, SourceFails, SourceEnds
<1>4. QED BY <1>1, <1>2, <1>3

LEMMA EndsWith ==
    ASSUME PInv, SourceEnds
    PROVE  /\ run # None /\ run.step \in {"wait", "record"} /\ run \in Runs /\ Current \in Sources
           /\ call' = None /\ answer' = None /\ UNCHANGED validators
<1>1. CASE Running("wait") /\ TakeAnswer
  BY <1>1, Waits
<1>2. CASE Running("record") /\ UNCHANGED clientVars
  BY <1>2, CurrentIs DEF Running, clientVars, PInv, Position
<1>3. QED BY <1>1, <1>2 DEF SourceEnds

LEMMA PositionKept ==
    ASSUME PInv, [Next]_vars PROVE run' \in Runs \cup {None} /\ Position'
<1> USE DEF Current
<1>0. run \in Runs \cup {None} /\ Position /\ ClientInv
  BY DEF PInv, TypeInvariant, ClientInv
<1>1. CASE UNCHANGED vars
  BY <1>0, <1>1 DEF vars, runVars, clientVars, Position
<1>2. CASE StartRun
  <2>1. run' = [step |-> "fetch", collector |-> 1, source |-> 1, chain |-> <<>>,
                link |-> "page", still |-> FALSE]
    BY <1>2 DEF StartRun
  <2>2. 1 \in DOMAIN Plan /\ 1 \in DOMAIN Plan[1]
    BY PlanFacts
  <2>3. run' \in Runs
    BY <2>1, <2>2 DEF Runs, Links
  <2>4. QED BY <1>0, <1>2, <2>1, <2>2, <2>3 DEF StartRun, Position, clientVars
<1>3. CASE Fetch
  <2>1. /\ run \in Runs /\ run # None /\ Current \in Sources /\ run.step = "fetch"
        /\ run.source \in DOMAIN Plan[run.collector]
    BY <1>0, <1>3, CurrentIs DEF Fetch, Running, Position
  <2>2. run' = [run EXCEPT !.step = "wait"] /\ Ask(Current, Len(run.chain) + 1, run.link)
    BY <1>3 DEF Fetch
  <2>3. /\ run' \in Runs /\ run'.step = "wait" /\ run'.chain = run.chain
        /\ run'.collector = run.collector /\ run'.source = run.source
    BY <2>1, <2>2 DEF Runs
  <2>4. /\ call'.source = Current /\ call'.page = Len(run.chain) + 1 /\ answer' = None
    BY <2>2 DEF Ask
  <2>5. QED BY <2>1, <2>3, <2>4, NoRun DEF Position
<1>4. CASE ClientStep
  <2>1. /\ call # None
        /\ \/ /\ call' # None /\ call'.source = call.source /\ call'.page = call.page /\ answer' = answer
           \/ /\ call' = None /\ answer'.source = call.source /\ answer'.page = call.page
    BY <1>0, <1>4, Moves DEF ClientStep
  <2>2. run \in Runs /\ run # None /\ run.step = "wait"
    BY <1>0, <2>1 DEF Position
  <2>3. run' = run \/ run' = [run EXCEPT !.still = TRUE]
    BY <1>4 DEF ClientStep
  <2>4. /\ run' \in Runs /\ run'.step = "wait" /\ run'.chain = run.chain
        /\ run'.collector = run.collector /\ run'.source = run.source
    BY <2>2, <2>3 DEF Runs
  <2>5. QED BY <1>0, <2>1, <2>2, <2>4, NoRun DEF Position
<1>5. ASSUME NEW s \in Sources, ProviderPublishes(s) PROVE run' \in Runs \cup {None} /\ Position'
  <2>1. UNCHANGED <<call, answer>>
    BY <1>5 DEF ProviderPublishes, Publish
  <2>2. CASE run = None
    BY <1>0, <1>5, <2>1, <2>2 DEF ProviderPublishes, Position
  <2>3. CASE run # None
    <3>1. run' = run \/ run' = [run EXCEPT !.still = FALSE]
      BY <1>5 DEF ProviderPublishes
    <3>2. /\ run' \in Runs /\ run'.step = run.step /\ run'.chain = run.chain
          /\ run'.collector = run.collector /\ run'.source = run.source
          /\ run'.still \in {run.still, FALSE}
      BY <1>0, <2>3, <3>1 DEF Runs
    <3>3. QED BY <1>0, <2>1, <2>3, <3>2, NoRun DEF Position
  <2>4. QED BY <2>2, <2>3
<1>6. CASE SourceEnds
  <2>1. PICK status \in {"ok", "not-modified", "failed"} : SourceDone(status)
    BY <1>6 DEF SourceEnds
  <2>2. /\ run # None /\ run.step \in {"wait", "record"} /\ run \in Runs
        /\ call' = None /\ answer' = None
    BY <1>6, EndsWith
  <2>3. /\ run' \in Runs /\ run' # None /\ run'.collector = run.collector
        /\ run'.source \in DOMAIN Plan[run.collector]
        /\ run'.step \in {"fetch", "dispatch"} /\ run'.chain = <<>> /\ run'.still = FALSE
    BY <2>1, <2>2, NextSource
  <2>4. QED BY <2>2, <2>3 DEF Position
<1>7. CASE PageTaken
  <2>1. /\ run # None /\ run \in Runs /\ answer \in Answers /\ call' = None /\ answer' = None
        /\ answer.content \in Contents \cup {Blank}
    BY <1>7, Waits DEF PageTaken, GetBody
  <2>2. run' = [run EXCEPT !.chain = Append(@, answer.content),
                           !.step = IF GoesOn THEN "fetch" ELSE "record",
                           !.link = answer.next]
    BY <1>7 DEF PageTaken
  <2>3. Append(run.chain, answer.content) \in Seq(Contents \cup {Blank}) /\ answer.next \in Links
    BY <2>1 DEF Runs, Answers
  <2>4. /\ run'.chain = Append(run.chain, answer.content) /\ run'.step \in {"fetch", "record"}
        /\ run'.collector = run.collector /\ run'.source = run.source
        /\ run' \in Runs
    BY <2>1, <2>2, <2>3 DEF Runs
  <2>5. run'.chain # <<>>
    BY <2>1, <2>4 DEF Runs
  <2>6. QED BY <1>0, <2>1, <2>4, <2>5, NoRun DEF Position
<1>8. CASE Record
  <2>1. run # None /\ run.step \in {"wait", "record"} /\ run.step = "record" /\ SourceDone("ok")
    BY <1>8 DEF Record, Running
  <2>2. /\ run' \in Runs /\ run' # None /\ run'.collector = run.collector
        /\ run'.source \in DOMAIN Plan[run.collector]
        /\ run'.step \in {"fetch", "dispatch"} /\ run'.chain = <<>> /\ run'.still = FALSE
    BY <2>1, NextSource
  <2>3. call' = None /\ answer' = None
    BY <1>0, <1>8, <2>1 DEF Record, clientVars, Position
  <2>4. QED BY <2>2, <2>3 DEF Position
<1>9. CASE Dispatches
  BY <1>0, <1>9 DEF Dispatches, DispatchCandidate, DropInvalid, clientVars, Position
<1>10. CASE WriteExceptions \/ DispatchRaises
  <2>1. /\ run # None /\ run.step = "dispatch" /\ UNCHANGED <<call, answer>>
        /\ \E failed \in BOOLEAN : CollectorDone(failed)
    BY <1>10 DEF WriteExceptions, DispatchRaises, Running, clientVars
  <2>2. /\ run' \in Runs /\ run' # None /\ run'.still = FALSE /\ run'.chain = run.chain
        /\ run'.step \in {"fetch", "finish"}
        /\ run'.source \in DOMAIN Plan[run'.collector]
    BY <2>1, NextCollector
  <2>3. run.chain = <<>> /\ call = None /\ answer = None
    BY <1>0, <2>1 DEF Position
  <2>4. QED BY <2>1, <2>2, <2>3 DEF Position
<1>11. CASE FinishRun \/ Kill
  BY <1>11 DEF FinishRun, Kill, Exit, Position
<1>12. QED
  BY <1>1, <1>2, <1>3, <1>4, <1>5, <1>6, <1>7, <1>8, <1>9, <1>10, <1>11, WaitingEnds DEF Next, Works, Dispatches

(* The store, the report and the history keep their shape.                 *)
Shaped ==
    /\ DOMAIN baseline = Sources /\ DOMAIN before = Sources
    /\ DOMAIN filed = Sources /\ DOMAIN staged = Sources /\ DOMAIN dropped = Sources
    /\ report \in [Sources -> {"none", "ok", "not-modified", "failed"}]
    /\ down \subseteq DOMAIN Plan
    /\ ping \in {"none", "success", "fail"}
    /\ origin \in [Sources -> Seq(Contents \cup {Blank})]
    /\ torn \subseteq Sources

LEMMA ShapedKept ==
    ASSUME PInv, [Next]_vars PROVE Shaped'
<1>0. Shaped
  BY DEF PInv, TypeInvariant, Shaped
<1>1. CASE UNCHANGED vars
  BY <1>0, <1>1 DEF vars, storeVars, runVars, historyVars, Shaped
<1>2. CASE StartRun
  BY <1>0, <1>2 DEF StartRun, Shaped
<1>3. CASE Fetch \/ (\E s \in Sources : ProviderPublishes(s)) \/ PageTaken
  BY <1>0, <1>3 DEF Fetch, ProviderPublishes, PageTaken, storeVars, historyVars, Shaped
<1>4. CASE ClientStep
  BY <1>0, <1>4 DEF ClientStep, storeVars, historyVars, Shaped
<1>5. CASE SourceEnds
  <2>1. PICK status \in {"ok", "not-modified", "failed"} : SourceDone(status)
    BY <1>5 DEF SourceEnds
  <2>2. report' = [report EXCEPT ![Current] = status] /\ UNCHANGED <<down, ping>>
    BY <2>1 DEF SourceDone
  <2>3. QED BY <1>0, <1>5, <2>2 DEF SourceEnds, storeVars, historyVars, Shaped
<1>6. CASE Record
  <2>1. /\ Current \in Sources /\ run \in Runs
    BY <1>6, CurrentIs DEF Record, Running
  <2>2. report' = [report EXCEPT ![Current] = "ok"] /\ UNCHANGED <<down, ping, filed, dropped, torn>>
    BY <1>6 DEF Record, SourceDone
  <2>3. /\ DOMAIN baseline' = Sources /\ DOMAIN before' = Sources /\ DOMAIN staged' = Sources
    BY <1>0, <1>6 DEF Record, Shaped
  <2>4. origin' = [origin EXCEPT ![Current] = run.chain]
    BY <1>6 DEF Record
  <2>5. QED BY <1>0, <2>1, <2>2, <2>3, <2>4 DEF Shaped, Runs
<1>7. CASE Dispatches
  BY <1>0, <1>7 DEF Dispatches, DispatchCandidate, DropInvalid, File, storeVars, historyVars, Shaped
<1>8. CASE WriteExceptions
  <2>1. run # None /\ run.step = "dispatch" /\ \E failed \in BOOLEAN : CollectorDone(failed)
    BY <1>8 DEF WriteExceptions, Running
  <2>2. down' \subseteq DOMAIN Plan /\ ping' = ping
    BY <1>0, <2>1, NextCollector, CurrentIs DEF Shaped
  <2>3. QED BY <1>0, <1>8, <2>2 DEF WriteExceptions, File, historyVars, Shaped
<1>9. CASE DispatchRaises
  <2>1. run # None /\ run.step = "dispatch" /\ \E failed \in BOOLEAN : CollectorDone(failed)
    BY <1>9 DEF DispatchRaises, Running
  <2>2. down' \subseteq DOMAIN Plan /\ ping' = ping
    BY <1>0, <2>1, NextCollector, CurrentIs DEF Shaped
  <2>3. torn' \subseteq Sources /\ DOMAIN staged' = Sources /\ DOMAIN dropped' = Sources
    <3>1. CollectorSources \subseteq Sources
      BY <2>1, CurrentIs, PlanFacts DEF CollectorSources
    <3>2. QED BY <1>0, <1>9, <3>1 DEF DispatchRaises, LoseStaged, Shaped
  <2>4. report' \in [Sources -> {"none", "ok", "not-modified", "failed"}]
    BY <1>0, <1>9 DEF DispatchRaises, Shaped
  <2>5. QED BY <1>0, <1>9, <2>2, <2>3, <2>4 DEF DispatchRaises, storeVars, Shaped
<1>10. CASE FinishRun
  BY <1>0, <1>10 DEF FinishRun, storeVars, historyVars, Shaped
<1>11. CASE Kill
  BY <1>0, <1>11 DEF Kill, LoseStaged, storeVars, Shaped
<1>12. QED
  BY <1>1, <1>2, <1>3, <1>4, <1>5, <1>6, <1>7, <1>8, <1>9, <1>10, <1>11, WaitingEnds DEF Next, Works, Dispatches

LEMMA PInvInit == Init => PInv
<1> SUFFICES ASSUME Init PROVE PInv
  OBVIOUS
<1>1. ClientInv
  BY InitialState DEF Init
<1>2. Shaped
  BY DEF Init, Shaped
<1>3. run = None /\ call = None /\ answer = None
  BY DEF Init, ClientInit
<1>4. QED BY <1>1, <1>2, <1>3 DEF ClientInv, Shaped, PInv, TypeInvariant, Position

LEMMA PInvKept ==
    ASSUME PInv, [Next]_vars PROVE PInv'
<1>1. ClientInv'
  BY ClientPart, ClientKeeps DEF PInv, TypeInvariant, ClientInv
<1>2. QED BY <1>1, PositionKept, ShapedKept DEF PInv, TypeInvariant, ClientInv, Shaped

(* Every variable of the run keeps its shape, for every plan.              *)
THEOREM TypeCorrect == Spec => []TypeInvariant
<1>1. PInv => TypeInvariant
  BY DEF PInv
<1>2. QED BY <1>1, PInvInit, PInvKept, PTL DEF Spec

(* The client a collector uses reads pages as PageReads promises, whatever *)
(* the run does with what it reads.                                        *)
THEOREM CollectorReadsPages == Spec => ReadsSpec
<1>1. Init => Reads!Init
  BY InitialReading DEF Init
<1>2. PInv /\ [Next]_vars => [Reads!Next]_(Reads!vars)
  BY ClientPart, ClientRefines DEF PInv, TypeInvariant, ClientInv
<1>3. QED BY <1>1, <1>2, PInvInit, PInvKept, PTL DEF Spec, ReadsSpec, Reads!Spec

-----------------------------------------------------------------------------
(* The places of the plan that the run has not come to the end of.  A      *)
(* source is read once a run, so its status and its notes are all of one   *)
(* reading.                                                                *)
Ahead(c, i) ==
    \/ c > run.collector
    \/ c = run.collector /\ i >= run.source /\ run.step \notin {"dispatch", "finish"}

(* The run goes on in its place, or to the next source or collector.       *)
GoesForward ==
    /\ run # None /\ run' # None
    /\ \/ /\ run'.collector = run.collector /\ run'.source = run.source
          /\ \/ run'.step = run.step
             \/ {run.step, run'.step} \subseteq {"fetch", "wait", "record"}
       \/ /\ run'.collector = run.collector /\ run.step \notin {"dispatch", "finish"}
          /\ run'.source = run.source + 1 \/ run'.step = "dispatch"
       \/ run.step = "dispatch" /\ run'.collector = run.collector + 1
       \/ run.step = "dispatch" /\ run'.collector = run.collector /\ run'.step = "finish"

LEMMA ForwardLessAhead ==
    ASSUME PInv, GoesForward, NEW c \in DOMAIN Plan, NEW i \in DOMAIN Plan[c], Ahead(c, i)'
    PROVE  Ahead(c, i)
<1>1. /\ c \in Nat /\ i \in Nat /\ run.collector \in Nat /\ run.source \in Nat
      /\ run.step \in {"fetch", "wait", "record", "dispatch", "finish"}
  <2>1. run \in Runs /\ run.collector \in DOMAIN Plan
    BY CurrentIs DEF GoesForward
  <2>2. QED BY <2>1, PlanFacts DEF Runs
<1>2. CASE run'.collector = run.collector /\ run'.source = run.source
            /\ (run'.step = run.step \/ {run.step, run'.step} \subseteq {"fetch", "wait", "record"})
  BY <1>1, <1>2 DEF Ahead
<1>3. CASE run'.collector = run.collector /\ run.step \notin {"dispatch", "finish"}
            /\ (run'.source = run.source + 1 \/ run'.step = "dispatch")
  BY <1>1, <1>3 DEF Ahead
<1>4. CASE run.step = "dispatch" /\ run'.collector = run.collector + 1
  BY <1>1, <1>4 DEF Ahead
<1>5. CASE run.step = "dispatch" /\ run'.collector = run.collector /\ run'.step = "finish"
  BY <1>1, <1>5 DEF Ahead
<1>6. QED BY <1>2, <1>3, <1>4, <1>5 DEF GoesForward

LEMMA Forward ==
    ASSUME PInv, [Next]_vars, run # None, run' # None
    PROVE  GoesForward
<1>1. CASE UNCHANGED vars
  BY <1>1 DEF vars, runVars, GoesForward
<1>2. CASE Fetch \/ PageTaken \/ ClientStep \/ (\E s \in Sources : ProviderPublishes(s))
  <2>1. run \in Runs
    BY CurrentIs
  <2>2. CASE Fetch
    BY <2>1, <2>2 DEF Fetch, Running, Runs, GoesForward
  <2>3. CASE PageTaken
    BY <2>1, <2>3 DEF PageTaken, GetBody, Running, Runs, GoesForward
  <2>4. CASE ClientStep
    BY <2>1, <2>4 DEF ClientStep, Runs, GoesForward
  <2>5. CASE \E s \in Sources : ProviderPublishes(s)
    BY <2>1, <2>5 DEF ProviderPublishes, Runs, GoesForward
  <2>6. QED BY <1>2, <2>2, <2>3, <2>4, <2>5
<1>3. CASE SourceEnds \/ Record
  <2>1. PICK status \in {"ok", "not-modified", "failed"} : SourceDone(status)
    BY <1>3 DEF SourceEnds, Record
  <2>2. run.step \in {"wait", "record"}
    BY <1>3, EndsWith DEF Record, Running
  <2>3. QED BY <2>1, <2>2, NextSource DEF GoesForward
<1>4. CASE Dispatches
  BY <1>4 DEF Dispatches, DispatchCandidate, DropInvalid, GoesForward
<1>5. CASE WriteExceptions \/ DispatchRaises
  <2>1. run.step = "dispatch" /\ \E failed \in BOOLEAN : CollectorDone(failed)
    BY <1>5 DEF WriteExceptions, DispatchRaises, Running
  <2>2. QED BY <2>1, NextCollector DEF GoesForward
<1>6. ~ (StartRun \/ FinishRun \/ Kill)
  BY DEF StartRun, FinishRun, Kill
<1>7. QED
  BY <1>1, <1>2, <1>3, <1>4, <1>5, <1>6, WaitingEnds DEF Next, Works, Dispatches

(* What the run has not come to the end of has no status.                  *)
NothingReportedAhead ==
    run # None =>
        \A c \in DOMAIN Plan : \A i \in DOMAIN Plan[c] : Ahead(c, i) => report[Plan[c][i]] = "none"

LEMMA UnderWay ==
    ASSUME PInv, NothingReportedAhead, run # None, run.step \in {"fetch", "wait", "record"}
    PROVE  report[Current] = "none"
<1>1. run.collector \in DOMAIN Plan /\ run.source \in DOMAIN Plan[run.collector]
  BY CurrentIs DEF PInv, Position
<1>2. Ahead(run.collector, run.source)
  BY <1>1, PlanFacts DEF Ahead
<1>3. QED BY <1>1, <1>2 DEF NothingReportedAhead, Current

LEMMA StatusIsNew ==
    ASSUME PInv, NothingReportedAhead, run # None, run.step \in {"wait", "record"},
           NEW status \in {"ok", "not-modified", "failed"}, SourceDone(status)
    PROVE  NothingReportedAhead'
<1>1. /\ run' # None /\ run'.collector = run.collector /\ run'.step \in {"fetch", "dispatch"}
      /\ run'.step = "fetch" => run'.source = run.source + 1
      /\ run'.step = "dispatch" => run'.source = run.source
      /\ report' = [report EXCEPT ![Current] = status]
  BY NextSource
<1>2. run.collector \in DOMAIN Plan /\ run.source \in DOMAIN Plan[run.collector] /\ Current \in Sources
  BY CurrentIs DEF PInv, Position
<1>3. run.collector \in Nat /\ run.source \in Nat
  BY <1>2, PlanFacts
<1>4. ASSUME NEW c \in DOMAIN Plan, NEW i \in DOMAIN Plan[c], Ahead(c, i)'
      PROVE  report'[Plan[c][i]] = "none"
  <2>1. ~ (c = run.collector /\ i = run.source)
    BY <1>1, <1>3, <1>4 DEF Ahead
  <2>2. Plan[c][i] # Current
    BY <1>2, <2>1, PlanAssumption DEF Current
  <2>3. c \in Nat /\ i \in Nat /\ Plan[c][i] \in Sources
    BY PlanFacts
  <2>4. Ahead(c, i)
    BY <1>1, <1>3, <1>4, <2>3 DEF Ahead
  <2>5. report[Plan[c][i]] = "none"
    BY <2>4 DEF NothingReportedAhead
  <2>6. QED BY <1>1, <2>2, <2>3, <2>5 DEF PInv, TypeInvariant
<1>5. QED BY <1>4 DEF NothingReportedAhead

LEMMA ReportedAheadKept ==
    ASSUME PInv, NothingReportedAhead, [Next]_vars PROVE NothingReportedAhead'
<1>1. CASE \A s \in Sources : report'[s] \in {report[s], "none"}
  <2>1. CASE run = None
    <3>1. CASE StartRun
      BY <3>1, PlanFacts DEF StartRun, NothingReportedAhead
    <3>2. CASE run' = None
      BY <3>2 DEF NothingReportedAhead
    <3>3. CASE ~ StartRun /\ run' # None
      <4>1. ClientStep
        BY <2>1, <3>3, WaitingEnds, EndsWith, Waits
           DEF Next, Works, vars, runVars, Fetch, PageTaken, GetBody, Record, Running,
               WriteExceptions, DispatchRaises, FinishRun, Kill, ProviderPublishes
      <4>2. call # None
        BY <4>1, Moves DEF ClientStep, PInv, TypeInvariant, ClientInv
      <4>3. QED BY <2>1, <4>2 DEF PInv, Position
    <3>4. QED BY <3>1, <3>2, <3>3
  <2>2. CASE run # None
    <3>1. SUFFICES ASSUME run' # None, NEW c \in DOMAIN Plan, NEW i \in DOMAIN Plan[c], Ahead(c, i)'
                   PROVE  report'[Plan[c][i]] = "none"
      BY DEF NothingReportedAhead
    <3>2. Ahead(c, i) /\ Plan[c][i] \in Sources
      BY <2>2, <3>1, Forward, ForwardLessAhead, PlanFacts
    <3>3. report[Plan[c][i]] = "none"
      BY <2>2, <3>2 DEF NothingReportedAhead
    <3>4. QED BY <1>1, <3>2, <3>3
  <2>3. QED BY <2>1, <2>2
<1>2. CASE SourceEnds
  <2>1. PICK status \in {"ok", "not-modified", "failed"} : SourceDone(status)
    BY <1>2 DEF SourceEnds
  <2>2. QED BY <1>2, <2>1, EndsWith, StatusIsNew
<1>3. CASE Record
  <2>1. run # None /\ run.step = "record" /\ SourceDone("ok")
    BY <1>3 DEF Record, Running
  <2>2. QED BY <2>1, StatusIsNew
<1>4. ASSUME ~ SourceEnds, ~ Record PROVE \A s \in Sources : report'[s] \in {report[s], "none"}
  <2>1. CASE UNCHANGED vars
    BY <2>1 DEF vars, runVars
  <2>2. CASE StartRun \/ Kill \/ DispatchRaises
    BY <2>2 DEF StartRun, Kill, DispatchRaises
  <2>3. CASE Fetch \/ ClientStep \/ PageTaken \/ (\E s \in Sources : ProviderPublishes(s))
    BY <2>3 DEF Fetch, ClientStep, PageTaken, ProviderPublishes
  <2>4. CASE Dispatches \/ WriteExceptions \/ FinishRun
    BY <2>4 DEF Dispatches, DispatchCandidate, DropInvalid, WriteExceptions, FinishRun
  <2>5. QED BY <1>4, <2>1, <2>2, <2>3, <2>4, WaitingEnds DEF Next, Works, Dispatches
<1>5. QED BY <1>1, <1>2, <1>3, <1>4

-----------------------------------------------------------------------------
(* What the client remembers of the source under way is the first page of  *)
(* the reading under way, wherever that page has got to.                   *)
Remembers ==
    run # None =>
        /\ run.chain # <<>> => validators[Current] \in {None, run.chain[1]}
        /\ call # None /\ call.page = 1 /\ call.stage = "build" =>
              validators[Current] \in {None, call.content}
        /\ answer # None /\ answer.page = 1 /\ answer.outcome = "body" =>
              validators[Current] \in {None, answer.content}

(* A source under way begins anew, or the run has no source under way.     *)
LEMMA AnewRemembers ==
    ASSUME PInv, [Next]_vars,
           run' # None => run'.chain = <<>> /\ call' = None /\ answer' = None
    PROVE  Remembers'
BY DEF Remembers

LEMMA OthersRemember ==
    ASSUME PInv, OkIsInStep, UNCHANGED <<validators, origin>>,
           \A s \in Sources : report'[s] = "ok" => report[s] = "ok" \/ Task[s].role # "content"
    PROVE  OkIsInStep'
BY DEF OkIsInStep

(* The accepted body of the registered page is what is remembered now.     *)
LEMMA AcceptRemembers ==
    ASSUME PInv, Remembers, OkIsInStep, NothingReportedAhead, ClientStep, Accept
    PROVE  Remembers' /\ OkIsInStep'
<1> USE DEF Current
<1> DEFINE c == PageAt(call.source, call.page)
<1>1. /\ call \in Calls /\ call # None /\ call.stage = "request" /\ answer' = answer
  BY Accepts DEF PInv, TypeInvariant, ClientInv
<1>2. /\ run # None /\ run \in Runs /\ call.source = Current /\ Current \in Sources /\ answer = None
      /\ call.page = Len(run.chain) + 1
  BY <1>1, CurrentIs DEF PInv, Position
<1>3. PICK link \in Links : call' = [call EXCEPT !.stage = "build", !.content = c, !.link = link]
  BY Accepts DEF PInv, TypeInvariant, ClientInv
<1>4. call'.content = c /\ call'.stage = "build" /\ call'.page = call.page /\ call'.source = call.source
  BY <1>1, <1>3 DEF Calls
<1>5. PICK tag \in Remembered(c) : validators' = [validators EXCEPT ![Current] = tag]
  BY <1>2, Accepts DEF PInv, TypeInvariant, ClientInv
<1>6. validators \in [Sources -> Contents \cup {Blank, None}]
  BY DEF PInv, TypeInvariant, ClientTypeOK
<1>7. /\ run' # None /\ run'.chain = run.chain /\ run'.collector = run.collector
      /\ run'.source = run.source
  <2>1. run' = run \/ run' = [run EXCEPT !.still = TRUE]
    BY DEF ClientStep
  <2>2. run'.chain = run.chain /\ run'.collector = run.collector /\ run'.source = run.source /\ run' \in Runs
    BY <1>2, <2>1 DEF Runs
  <2>3. QED BY <2>2, NoRun
<1>8. CASE call.page = 1
  <2>1. validators'[Current] \in {c, None}
    BY <1>2, <1>5, <1>6, <1>8 DEF Remembered
  <2>2. run.chain = <<>>
    BY <1>2, <1>8 DEF Runs
  <2>3. Remembers'
    BY <1>1, <1>2, <1>4, <1>7, <2>1, <2>2 DEF Remembers
  <2>4. report' = report /\ origin' = origin
    BY DEF ClientStep, historyVars
  <2>5. report[Current] = "none"
    BY <1>1, <1>2, UnderWay DEF PInv, Position
  <2>6. \A s \in Sources \ {Current} : validators'[s] = validators[s]
    BY <1>5, <1>6
  <2>7. QED BY <2>3, <2>4, <2>5, <2>6 DEF OkIsInStep
<1>9. CASE call.page # 1
  <2>1. validators' = validators
    BY <1>2, <1>5, <1>6, <1>9 DEF Remembered
  <2>2. report' = report /\ origin' = origin
    BY DEF ClientStep, historyVars
  <2>3. OkIsInStep'
    BY <2>1, <2>2 DEF OkIsInStep
  <2>4. Remembers'
    BY <1>1, <1>2, <1>4, <1>7, <1>9, <2>1 DEF Remembers
  <2>5. QED BY <2>3, <2>4
<1>10. QED BY <1>8, <1>9

LEMMA ClientStepRemembers ==
    ASSUME PInv, Remembers, OkIsInStep, NothingReportedAhead, ClientStep
    PROVE  Remembers' /\ OkIsInStep'
<1> USE DEF Current
<1>0. ClientInv
  BY DEF PInv, TypeInvariant, ClientInv
<1>1. CASE Accept
  BY <1>1, AcceptRemembers
<1>2. CASE ~ Accept
  <2>1. /\ call # None /\ UNCHANGED validators
        /\ \/ call' # None /\ call'.stage # "build" /\ answer' = answer
           \/ /\ call' = None /\ answer' # None /\ answer'.page = call.page
              /\ answer'.outcome = "body" => call.stage = "build" /\ answer'.content = call.content
    BY <1>0, <1>2, Moves DEF ClientStep
  <2>2. /\ run # None /\ answer = None
    BY <2>1 DEF PInv, Position
  <2>3. run' = run /\ report' = report /\ origin' = origin
    BY <2>1 DEF ClientStep, historyVars
  <2>4. Remembers'
    BY <2>1, <2>2, <2>3 DEF Remembers
  <2>5. QED BY <2>1, <2>3, <2>4, OthersRemember
<1>3. QED BY <1>1, <1>2

LEMMA RemembersKept ==
    ASSUME PInv, Remembers, OkIsInStep, NothingReportedAhead, [Next]_vars
    PROVE  Remembers' /\ OkIsInStep'
<1> USE DEF Current
<1>1. CASE UNCHANGED vars
  BY <1>1 DEF vars, clientVars, runVars, historyVars, Remembers, OkIsInStep
<1>2. CASE StartRun
  <2>1. /\ run'.chain = <<>> /\ UNCHANGED <<call, answer, validators, origin>>
        /\ report' = [s \in Sources |-> "none"]
    BY <1>2 DEF StartRun, clientVars
  <2>2. call = None /\ answer = None
    BY <1>2 DEF StartRun, PInv, Position
  <2>3. QED BY <2>1, <2>2, AnewRemembers, OthersRemember
<1>3. CASE Fetch
  <2>1. run \in Runs /\ run # None
    BY <1>3, CurrentIs DEF Fetch, Running
  <2>2. run'.chain = run.chain /\ run'.collector = run.collector /\ run'.source = run.source
    BY <1>3, <2>1 DEF Fetch, Runs
  <2>3. /\ call'.stage = "gates" /\ answer' = None /\ UNCHANGED <<validators, report, origin>>
    BY <1>3 DEF Fetch, Ask, historyVars
  <2>4. QED BY <2>1, <2>2, <2>3, OthersRemember DEF Remembers
<1>4. CASE ClientStep
  BY <1>4, ClientStepRemembers
<1>5. ASSUME NEW s \in Sources, ProviderPublishes(s) PROVE Remembers' /\ OkIsInStep'
  <2>1. UNCHANGED <<call, answer, validators, report, origin>>
    BY <1>5 DEF ProviderPublishes, Publish, historyVars
  <2>2. run = None => run' = None
    BY <1>5 DEF ProviderPublishes
  <2>3. run # None => /\ run'.chain = run.chain /\ run'.collector = run.collector
                      /\ run'.source = run.source
    BY <1>5, CurrentIs DEF ProviderPublishes, Runs
  <2>4. QED BY <2>1, <2>2, <2>3, OthersRemember DEF Remembers
<1>6. CASE SourceEnds
  <2>1. PICK status \in {"ok", "not-modified", "failed"} :
            SourceDone(status) /\ (status = "ok" => Task[Current].role # "content")
    BY <1>6 DEF SourceEnds
  <2>2. /\ run # None /\ run.step \in {"wait", "record"} /\ Current \in Sources
        /\ call' = None /\ answer' = None /\ UNCHANGED <<validators, origin>>
    BY <1>6, EndsWith DEF SourceEnds, historyVars
  <2>3. run'.chain = <<>> /\ report' = [report EXCEPT ![Current] = status]
    BY <2>1, <2>2, NextSource
  <2>4. \A s \in Sources : report'[s] = "ok" => report[s] = "ok" \/ Task[s].role # "content"
    BY <2>1, <2>2, <2>3 DEF PInv, TypeInvariant
  <2>5. QED BY <2>2, <2>3, <2>4, AnewRemembers, OthersRemember
<1>7. CASE PageTaken
  <2>1. /\ run # None /\ run \in Runs /\ call' = None /\ answer' = None
        /\ answer # None /\ answer.page = Len(run.chain) + 1 /\ answer.outcome = "body"
    BY <1>7, Waits DEF PageTaken, GetBody
  <2>2. UNCHANGED <<validators, report, origin>>
    BY <1>7 DEF PageTaken, GetBody, TakeAnswer, historyVars
  <2>3. /\ run'.chain = Append(run.chain, answer.content)
        /\ run'.collector = run.collector /\ run'.source = run.source
    BY <1>7, <2>1 DEF PageTaken, Runs
  <2>4. CASE run.chain = <<>>
    <3>1. run'.chain[1] = answer.content
      BY <2>3, <2>4
    <3>2. QED BY <2>1, <2>2, <2>3, <2>4, <3>1, OthersRemember DEF Remembers
  <2>5. CASE run.chain # <<>>
    <3>1. run'.chain[1] = run.chain[1]
      BY <2>1, <2>3, <2>5 DEF Runs
    <3>2. QED BY <2>1, <2>2, <2>3, <2>5, <3>1, OthersRemember DEF Remembers
  <2>6. QED BY <2>4, <2>5
<1>8. CASE Record
  <2>1. /\ run # None /\ run.step = "record" /\ run \in Runs /\ Current \in Sources
        /\ run.chain # <<>> /\ call = None /\ answer = None /\ SourceDone("ok")
    BY <1>8, CurrentIs DEF Record, Running, PInv, Position
  <2>2. run'.chain = <<>>
    BY <2>1, NextSource
  <2>3. /\ UNCHANGED <<call, answer, validators>>
        /\ report' = [report EXCEPT ![Current] = "ok"] /\ origin' = [origin EXCEPT ![Current] = run.chain]
    BY <1>8 DEF Record, SourceDone, clientVars
  <2>4. /\ origin'[Current] = run.chain
        /\ \A s \in Sources \ {Current} : origin'[s] = origin[s] /\ report'[s] = report[s]
    BY <2>1, <2>3 DEF PInv, TypeInvariant
  <2>5. validators[Current] \in {None, run.chain[1]}
    BY <2>1 DEF Remembers
  <2>6. OkIsInStep'
    BY <2>1, <2>3, <2>4, <2>5 DEF OkIsInStep
  <2>7. QED BY <2>1, <2>2, <2>3, <2>6, AnewRemembers
<1>9. CASE Dispatches
  BY <1>9, OthersRemember DEF Dispatches, DispatchCandidate, DropInvalid, clientVars, historyVars, Remembers
<1>10. CASE WriteExceptions \/ DispatchRaises
  <2>1. /\ run # None /\ run.step = "dispatch" /\ UNCHANGED <<call, answer, validators, origin>>
        /\ \E failed \in BOOLEAN : CollectorDone(failed)
        /\ \A s \in Sources : report'[s] \in {report[s], "none"}
    BY <1>10 DEF WriteExceptions, DispatchRaises, Running, clientVars, historyVars
  <2>2. run.chain = <<>> /\ call = None /\ answer = None
    BY <2>1 DEF PInv, Position
  <2>3. run'.chain = <<>>
    BY <2>1, <2>2, NextCollector
  <2>4. QED BY <2>1, <2>2, <2>3, AnewRemembers, OthersRemember
<1>11. CASE FinishRun \/ Kill
  <2>1. /\ run' = None /\ UNCHANGED <<validators, origin>>
        /\ \A s \in Sources : report'[s] \in {report[s], "none"}
    BY <1>11 DEF FinishRun, Kill, Exit, historyVars
  <2>2. QED BY <2>1, AnewRemembers, OthersRemember
<1>12. QED
  BY <1>1, <1>2, <1>3, <1>4, <1>5, <1>6, <1>7, <1>8, <1>9, <1>10, <1>11, WaitingEnds DEF Next, Works, Dispatches

(* The validators kept of a source that the run reports as ok are those of *)
(* its snapshot's first page, for every plan and provider, so "not         *)
(* modified" will be true of that snapshot as well.                        *)
THEOREM OkSourcesInStep == Spec => []OkIsInStep
<1>1. Init => Remembers /\ NothingReportedAhead /\ OkIsInStep
  BY DEF Init, Remembers, NothingReportedAhead, OkIsInStep
<1>2. QED BY <1>1, PInvInit, PInvKept, ReportedAheadKept, RemembersKept, PTL DEF Spec

-----------------------------------------------------------------------------
(* The differs let nothing fall through: for each difference there is a    *)
(* delta that speaks of it, but for those a documented rule drops.         *)
LEMMA ModelsCover ==
    ASSUME NEW prev, NEW cur, NEW d \in Differences("models-api", prev, cur)
    PROVE  \E delta \in DiffModelsApi(prev, cur) : Covers(delta, d)
<1>1. CASE d \in {<<k, Presence>> : k \in Added(prev, cur)}
  <2>1. PICK m \in Added(prev, cur) : d = <<m, Presence>>
    BY <1>1
  <2>2. Delta("model.released", Presence, "added", m, {m}, None, m) \in DiffModelsApi(prev, cur)
    BY <2>1 DEF DiffModelsApi
  <2>3. QED BY <2>1, <2>2 DEF Covers, Delta
<1>2. CASE d \in {<<k, Presence>> : k \in Removed(prev, cur)}
  <2>1. PICK m \in Removed(prev, cur) : d = <<m, Presence>>
    BY <1>2
  <2>2. Delta("model.deprecated", Presence, "removed", m, {m}, m, None) \in DiffModelsApi(prev, cur)
    BY <2>1 DEF DiffModelsApi
  <2>3. QED BY <2>1, <2>2 DEF Covers, Delta
<1>3. ASSUME NEW f \in ModelFields, NEW m \in Moved(prev, cur, f), d = <<m, f>>
      PROVE  \E delta \in DiffModelsApi(prev, cur) : Covers(delta, d)
  <2> DEFINE Of(g, k) == Delta(ModelFieldEvent(g), g, "modified", k, {k}, prev[k][g], cur[k][g])
             All(g) == {Of(g, k) : k \in Moved(prev, cur, g)}
  <2>1. Of(f, m) \in All(f)
    OBVIOUS
  <2>2. Of(f, m) \in UNION {All(g) : g \in ModelFields}
    <3> HIDE DEF All
    <3>1. QED BY <2>1
  <2>3. Of(f, m) \in DiffModelsApi(prev, cur)
    BY <2>2 DEF DiffModelsApi
  <2>4. QED BY <1>3, <2>3 DEF Covers, Delta
<1>4. QED BY <1>1, <1>2, <1>3 DEF Differences, FieldsOf

LEMMA PricesCover ==
    ASSUME NEW prev, NEW cur, NEW d \in Differences("pricing-api", prev, cur)
    PROVE  \E delta \in DiffPricingApi(prev, cur) : Covers(delta, d)
<1>1. ASSUME NEW k \in Added(prev, cur) \cup Removed(prev, cur), d = <<k, Presence>>
      PROVE  \E delta \in DiffPricingApi(prev, cur) : Covers(delta, d)
  <2> DEFINE delta == Delta(Unclassified, Presence, RowChange(prev, cur, k.model_ref), k.model_ref,
                            RowsOf(Added(prev, cur) \cup Removed(prev, cur), k.model_ref), None, None)
  <2>1. delta \in DiffPricingApi(prev, cur)
    BY <1>1 DEF DiffPricingApi
  <2>2. k \in RowsOf(Added(prev, cur) \cup Removed(prev, cur), k.model_ref)
    BY <1>1 DEF RowsOf
  <2>3. delta.items = RowsOf(Added(prev, cur) \cup Removed(prev, cur), k.model_ref)
        /\ delta.field = Presence
    BY DEF Delta
  <2>4. Covers(delta, d)
    BY <1>1, <2>2, <2>3 DEF Covers
  <2>5. QED BY <2>1, <2>4
<1>2. ASSUME NEW k \in Moved(prev, cur, "value"), d = <<k, "value">>
      PROVE  \E delta \in DiffPricingApi(prev, cur) : Covers(delta, d)
  <2> DEFINE rows == PriceMoves(prev, cur, k)
             rep == Representative(rows)
             delta == Delta("price.changed", "value", "modified", k.model_ref, rows,
                            prev[rep]["value"], cur[rep]["value"])
  <2>1. delta \in DiffPricingApi(prev, cur)
    BY <1>2 DEF DiffPricingApi
  <2>2. k \in rows
    BY <1>2 DEF PriceMoves
  <2>3. delta.items = rows /\ delta.field = "value"
    BY DEF Delta
  <2>4. Covers(delta, d)
    BY <1>2, <2>2, <2>3 DEF Covers
  <2>5. QED BY <2>1, <2>4
<1>3. QED BY <1>1, <1>2 DEF Differences, FieldsOf

LEMMA StatusCovers ==
    ASSUME NEW prev, NEW cur, NEW d \in Differences("statuspage", prev, cur)
    PROVE  \/ Dropped("statuspage", prev, cur, d)
           \/ \E delta \in DiffStatuspage(prev, cur) : Covers(delta, d)
<1>1. ASSUME NEW k \in Added(prev, cur), d = <<k, Presence>>
      PROVE  \E delta \in DiffStatuspage(prev, cur) : Covers(delta, d)
  <2>1. Delta("outage.started", Presence, "added", k, {k}, None, k) \in DiffStatuspage(prev, cur)
    BY DEF DiffStatuspage
  <2>2. QED BY <1>1, <2>1 DEF Covers, Delta
<1>2. ASSUME NEW k \in Removed(prev, cur), d = <<k, Presence>>
      PROVE  Dropped("statuspage", prev, cur, d)
  BY <1>2 DEF Dropped
<1>3. ASSUME NEW k \in Moved(prev, cur, "updated_at"), d = <<k, "updated_at">>
      PROVE  Dropped("statuspage", prev, cur, d)
  BY <1>3 DEF Dropped
<1>4. ASSUME NEW k \in Moved(prev, cur, "components"), d = <<k, "components">>
      PROVE  \E delta \in DiffStatuspage(prev, cur) : Covers(delta, d)
  <2>1. Delta(Unclassified, "components", "modified", k, {k}, prev[k]["components"],
              cur[k]["components"]) \in DiffStatuspage(prev, cur)
    BY DEF DiffStatuspage
  <2>2. QED BY <1>4, <2>1 DEF Covers, Delta
<1>5. ASSUME NEW k \in Moved(prev, cur, "status"), d = <<k, "status">>
      PROVE  \/ Dropped("statuspage", prev, cur, d)
             \/ \E delta \in DiffStatuspage(prev, cur) : Covers(delta, d)
  <2>1. CASE cur[k]["status"] \in Resolved /\ prev[k]["status"] \notin Resolved
    <3>1. Delta("outage.resolved", "status", "modified", k, {k}, prev[k]["status"], cur[k]["status"])
              \in DiffStatuspage(prev, cur)
      BY <2>1 DEF DiffStatuspage
    <3>2. QED BY <1>5, <3>1 DEF Covers, Delta
  <2>2. CASE ~ (cur[k]["status"] \in Resolved /\ prev[k]["status"] \notin Resolved)
    BY <1>5, <2>2 DEF Dropped
  <2>3. QED BY <2>1, <2>2
<1>6. QED BY <1>1, <1>2, <1>3, <1>4, <1>5 DEF Differences, FieldsOf

LEMMA DocsCover ==
    ASSUME NEW declared, NEW prev, NEW cur, NEW d \in Differences("docs-html", prev, cur)
    PROVE  \E delta \in DiffDocsHtml(declared, prev, cur) : Covers(delta, d)
<1>1. ASSUME NEW p \in Added(prev, cur), d = <<p, Presence>>
      PROVE  \E delta \in DiffDocsHtml(declared, prev, cur) : Covers(delta, d)
  <2>1. Delta(DocsEvent(declared, p, "added"), Presence, "added", p.name, {p}, None,
              DocsSide(declared, p, "added", cur[p]["value"])) \in DiffDocsHtml(declared, prev, cur)
    BY DEF DiffDocsHtml
  <2>2. QED BY <1>1, <2>1 DEF Covers, Delta
<1>2. ASSUME NEW p \in Removed(prev, cur), d = <<p, Presence>>
      PROVE  \E delta \in DiffDocsHtml(declared, prev, cur) : Covers(delta, d)
  <2>1. Delta(DocsEvent(declared, p, "removed"), Presence, "removed", p.name, {p},
              DocsSide(declared, p, "removed", prev[p]["value"]), None)
            \in DiffDocsHtml(declared, prev, cur)
    BY DEF DiffDocsHtml
  <2>2. QED BY <1>2, <2>1 DEF Covers, Delta
<1>3. ASSUME NEW p \in Moved(prev, cur, "value"), d = <<p, "value">>
      PROVE  \E delta \in DiffDocsHtml(declared, prev, cur) : Covers(delta, d)
  <2>1. Delta(Unclassified, "value", "modified", p.name, {p}, prev[p]["value"], cur[p]["value"])
            \in DiffDocsHtml(declared, prev, cur)
    BY DEF DiffDocsHtml
  <2>2. QED BY <1>3, <2>1 DEF Covers, Delta
<1>4. QED BY <1>1, <1>2, <1>3 DEF Differences, FieldsOf

LEMMA DifferencesCovered ==
    ASSUME NEW s \in Sources, NEW prev, NEW cur, prev # None,
           NEW d \in Differences(Task[s].kind, prev, cur)
    PROVE  \/ Dropped(Task[s].kind, prev, cur, d)
           \/ \E delta \in DeltasBetween(s, prev, cur) : Covers(delta, d)
<1> DEFINE kind == Task[s].kind
<1>1. kind \in {"models-api", "pricing-api", "statuspage", "docs-html"}
  BY PlanAssumption
<1>2. CASE kind = "models-api"
  BY <1>2, ModelsCover DEF DeltasBetween, Deltas
<1>3. CASE kind = "pricing-api"
  BY <1>3, PricesCover DEF DeltasBetween, Deltas
<1>4. CASE kind = "statuspage"
  BY <1>4, StatusCovers DEF DeltasBetween, Deltas
<1>5. CASE kind = "docs-html"
  BY <1>5, DocsCover DEF DeltasBetween, Deltas
<1>6. QED BY <1>1, <1>2, <1>3, <1>4, <1>5

(* Whatever the deltas of a source's new snapshot, their notes are staged  *)
(* or have left the process, unless the source's notes were lost.          *)
NotesKept ==
    \A s \in Sources \ torn :
        before[s] # None =>
            \A delta \in DeltasBetween(s, before[s], baseline[s]) :
                NoteOf(Task[s], delta) \in filed[s] \cup staged[s] \cup dropped[s]

LEMMA EveryDeltaHasANote ==
    ASSUME NEW task, NEW deltas, NEW delta \in deltas
    PROVE  NoteOf(task, delta) \in EventsOf(task, deltas) \cup ExceptionsOf(task, deltas)
BY DEF NoteOf, EventsOf, ExceptionsOf

LEMMA NotesKeptSame ==
    ASSUME NotesKept, UNCHANGED <<baseline, before, filed, staged, dropped>>, torn \subseteq torn'
    PROVE  NotesKept'
BY DEF NotesKept, DeltasBetween

(* Filing moves notes, it loses none.                                      *)
LEMMA FilingKeeps ==
    ASSUME PInv, NotesKept, NEW notes, File(notes), UNCHANGED <<baseline, before, dropped, torn>>
    PROVE  NotesKept'
<1>1. \A s \in Sources : filed'[s] \cup staged'[s] = filed[s] \cup staged[s]
  BY DEF File
<1>2. QED BY <1>1 DEF NotesKept, DeltasBetween

(* And what is dropped as invalid is on the report's list.                 *)
LEMMA DroppingKeeps ==
    ASSUME PInv, NotesKept, NEW note, DropInvalid(note) PROVE NotesKept'
<1>1. \A s \in Sources : /\ staged'[s] \cup dropped'[s] = staged[s] \cup dropped[s]
                         /\ filed'[s] = filed[s]
  BY DEF DropInvalid, storeVars
<1>2. UNCHANGED <<baseline, before, torn>>
  BY DEF DropInvalid, storeVars, historyVars
<1>3. QED BY <1>1, <1>2 DEF NotesKept, DeltasBetween

LEMMA LosingIsTorn ==
    ASSUME PInv, NotesKept, NEW lost \in SUBSET Sources, LoseStaged(lost),
           UNCHANGED <<baseline, before, filed>>
    PROVE  NotesKept'
<1>1. \A s \in Sources \ torn' : s \in Sources \ torn /\ staged'[s] = staged[s] /\ dropped'[s] = dropped[s]
  BY DEF LoseStaged
<1>2. QED BY <1>1 DEF NotesKept, DeltasBetween

LEMMA NotesKeptKept ==
    ASSUME PInv, NotesKept, [Next]_vars PROVE NotesKept'
<1>1. CASE UNCHANGED vars
  BY <1>1, NotesKeptSame DEF vars, storeVars, runVars, historyVars
<1>2. CASE StartRun
  BY <1>2 DEF StartRun, NotesKept
<1>3. CASE Fetch \/ ClientStep \/ (\E s \in Sources : ProviderPublishes(s)) \/ SourceEnds \/ PageTaken
  <2>1. UNCHANGED <<baseline, before, filed, staged, dropped, torn>>
    BY <1>3 DEF Fetch, ClientStep, ProviderPublishes, SourceEnds, PageTaken, storeVars, historyVars
  <2>2. QED BY <2>1, NotesKeptSame
<1>4. CASE Record
  <2>1. Current \in Sources
    BY <1>4, CurrentIs DEF Record, Running
  <2> DEFINE c == Current
             new == Snapshots[c][run.chain]
             deltas == DeltasBetween(c, baseline[c], new)
  <2>2. /\ baseline' = [baseline EXCEPT ![c] = new]
        /\ before' = [before EXCEPT ![c] = baseline[c]]
        /\ staged' = [staged EXCEPT ![c] = EventsOf(Task[c], deltas) \cup ExceptionsOf(Task[c], deltas)]
        /\ UNCHANGED <<filed, dropped, torn>>
    BY <1>4 DEF Record
  <2>3. DOMAIN baseline = Sources /\ DOMAIN before = Sources /\ DOMAIN staged = Sources
    BY DEF PInv, TypeInvariant
  <2>4. ASSUME NEW s \in Sources \ torn', before'[s] # None,
               NEW delta \in DeltasBetween(s, before'[s], baseline'[s])
        PROVE  NoteOf(Task[s], delta) \in filed'[s] \cup staged'[s] \cup dropped'[s]
    <3>1. CASE s = c
      <4>1. baseline'[s] = new /\ before'[s] = baseline[c]
            /\ staged'[s] = EventsOf(Task[c], deltas) \cup ExceptionsOf(Task[c], deltas)
        BY <2>1, <2>2, <2>3, <3>1
      <4>2. delta \in deltas
        BY <2>4, <3>1, <4>1
      <4>3. QED BY <3>1, <4>1, <4>2, EveryDeltaHasANote
    <3>2. CASE s # c
      BY <2>2, <2>3, <2>4, <3>2 DEF NotesKept
    <3>3. QED BY <3>1, <3>2
  <2>5. QED BY <2>4 DEF NotesKept, DeltasBetween
<1>5. CASE Dispatches
  <2>1. PICK note : DispatchCandidate(note) \/ DropInvalid(note)
    BY <1>5 DEF Dispatches
  <2>2. CASE DispatchCandidate(note)
    BY <2>2, FilingKeeps DEF DispatchCandidate, historyVars
  <2>3. QED BY <2>1, <2>2, DroppingKeeps
<1>6. CASE WriteExceptions
  <2> DEFINE notes == UNION {staged[s] : s \in CollectorSources}
  <2>1. File(notes) /\ UNCHANGED <<baseline, before, dropped, torn>>
    BY <1>6 DEF WriteExceptions, historyVars
  <2>2. QED BY <2>1, FilingKeeps
<1>7. CASE DispatchRaises
  <2>1. CollectorSources \subseteq Sources
    BY <1>7, CurrentIs, PlanFacts DEF DispatchRaises, Running, CollectorSources
  <2>2. QED BY <1>7, <2>1, LosingIsTorn DEF DispatchRaises, storeVars
<1>8. CASE FinishRun
  BY <1>8, NotesKeptSame DEF FinishRun, storeVars, historyVars
<1>9. CASE Kill
  BY <1>9, LosingIsTorn DEF Kill, storeVars
<1>10. QED
  BY <1>1, <1>2, <1>3, <1>4, <1>5, <1>6, <1>7, <1>8, <1>9, WaitingEnds DEF Next, Works, Dispatches

(* No change between two snapshots is lost without a word of it, neither   *)
(* in what was written nor in the report, for every pair of them and every *)
(* plan, unless the run was killed or the collector failed.                *)
THEOREM ChangesAreAccountedFor == Spec => []ChangesAccountedFor
<1>1. Init => NotesKept
  BY DEF Init, NotesKept
<1>2. ASSUME NotesKept PROVE ChangesAccountedFor
  <2>1. ASSUME NEW s \in Sources \ torn, before[s] # None,
               NEW d \in Differences(Task[s].kind, before[s], baseline[s]),
               ~ Dropped(Task[s].kind, before[s], baseline[s], d)
        PROVE  NoteAbout(s, d)
    <3>1. PICK delta \in DeltasBetween(s, before[s], baseline[s]) : Covers(delta, d)
      BY <2>1, DifferencesCovered
    <3>2. QED BY <1>2, <2>1, <3>1 DEF NotesKept, NoteAbout
  <2>2. QED BY <2>1 DEF ChangesAccountedFor
<1>3. QED BY <1>1, <1>2, PInvInit, PInvKept, NotesKeptKept, PTL DEF Spec

-----------------------------------------------------------------------------
(* While the provider stood still since the registered page was read, the  *)
(* pages read are those it publishes, and the links say how it goes on.    *)
Reading ==
    run # None /\ run.still = TRUE =>
        /\ \A i \in 1..Len(run.chain) : i <= Len(server[Current]) /\ run.chain[i] = server[Current][i]
        /\ run.step \in {"fetch", "wait"} => /\ Len(run.chain) < Len(server[Current])
                                             /\ run.chain # <<>> => Task[Current].paginate
        /\ call # None /\ call.stage = "build" =>
              call.content = server[Current][call.page] /\ call.link \in LinksOf(Current, call.page)
        /\ answer # None /\ answer.outcome = "body" =>
              answer.content = server[Current][answer.page] /\ answer.next \in LinksOf(Current, answer.page)
        /\ run.step = "record" => run.chain = WholePages(Current)

LEMMA MovedReads ==
    ASSUME run' # None => run'.still = FALSE PROVE Reading'
BY DEF Reading

LEMMA ServerIs ==
    ASSUME PInv, NEW s \in Sources
    PROVE  server[s] \in Seq(Contents) /\ Len(server[s]) \in Nat \ {0}
<1>1. server[s] \in Chains[s]
  BY DEF PInv, TypeInvariant, ClientTypeOK, Servers
<1>2. server[s] # <<>> /\ server[s] \in Seq({server[s][n] : n \in DOMAIN server[s]})
  BY <1>1, ClientAssumption
<1>3. {server[s][n] : n \in DOMAIN server[s]} \subseteq Contents
  BY <1>1 DEF Contents
<1>4. server[s] \in Seq(Contents)
  BY <1>2, <1>3
<1>5. QED BY <1>2, <1>4

LEMMA AcceptReads ==
    ASSUME PInv, Reading, ClientStep, Accept PROVE Reading'
<1> USE DEF Current
<1> DEFINE c == PageAt(call.source, call.page)
<1>1. /\ call \in Calls /\ call # None /\ call.stage = "request" /\ answer' = answer /\ server' = server
  BY Accepts DEF PInv, TypeInvariant, ClientInv
<1>2. /\ run # None /\ run \in Runs /\ call.source = Current /\ Current \in Sources /\ answer = None
      /\ call.page = Len(run.chain) + 1 /\ run.step = "wait"
  BY <1>1, CurrentIs DEF PInv, Position
<1>3. PICK link \in LinksOf(call.source, call.page) :
          call' = [call EXCEPT !.stage = "build", !.content = c, !.link = link]
  BY Accepts DEF PInv, TypeInvariant, ClientInv
<1>4. /\ call'.content = c /\ call'.stage = "build" /\ call'.page = call.page /\ call'.link = link
  BY <1>1, <1>3 DEF Calls
<1>5. run' = run \/ run' = [run EXCEPT !.still = TRUE]
  BY DEF ClientStep
<1>6. /\ run'.chain = run.chain /\ run'.collector = run.collector /\ run'.source = run.source
      /\ run'.step = run.step /\ run' \in Runs
  BY <1>2, <1>5 DEF Runs
<1>7. Len(server[Current]) \in Nat \ {0} /\ Len(run.chain) \in Nat
  BY <1>2, ServerIs DEF Runs
<1>8. LinksOf(Current, call.page)' = LinksOf(Current, call.page)
  BY <1>1, <1>4, <1>6 DEF LinksOf
<1>9. CASE call.page = 1
  <2>1. Len(run.chain) = 0 /\ run.chain = <<>>
    BY <1>2, <1>7, <1>9 DEF Runs
  <2>2. c = server[Current][1]
    BY <1>2, <1>7, <1>9 DEF PageAt
  <2>3. QED BY <1>1, <1>2, <1>3, <1>4, <1>6, <1>7, <1>8, <1>9, <2>1, <2>2 DEF Reading
<1>10. CASE call.page # 1
  <2>1. run' = run
    BY <1>10 DEF ClientStep
  <2>2. CASE run.still = TRUE
    <3>1. call.page <= Len(server[Current])
      BY <1>2, <1>7, <2>2 DEF Reading
    <3>2. c = server[Current][call.page]
      BY <1>2, <3>1 DEF PageAt
    <3>3. QED BY <1>1, <1>2, <1>3, <1>4, <1>8, <2>1, <2>2, <3>2 DEF Reading
  <2>3. CASE run.still # TRUE
    BY <2>1, <2>3 DEF Reading
  <2>4. QED BY <2>2, <2>3
<1>11. QED BY <1>9, <1>10

LEMMA ClientReads ==
    ASSUME PInv, Reading, ClientStep PROVE Reading'
<1> USE DEF Current
<1>0. ClientInv
  BY DEF PInv, TypeInvariant, ClientInv
<1>1. CASE Accept
  BY <1>1, AcceptReads
<1>2. CASE ~ Accept
  <2>1. /\ call # None /\ UNCHANGED server
        /\ \/ call' # None /\ call'.stage # "build" /\ answer' = answer
           \/ /\ call' = None /\ answer' # None /\ answer'.page = call.page
              /\ answer'.outcome = "body" => /\ call.stage = "build" /\ answer'.content = call.content
                                             /\ answer'.next = call.link
    BY <1>0, <1>2, Moves DEF ClientStep
  <2>2. /\ run # None /\ answer = None /\ run.step = "wait"
    BY <2>1 DEF PInv, Position
  <2>3. run' = run
    BY <2>1 DEF ClientStep
  <2>4. QED BY <2>1, <2>2, <2>3 DEF Reading, LinksOf, WholePages
<1>3. QED BY <1>1, <1>2

LEMMA SameItems ==
    ASSUME NEW S, NEW T, NEW s \in Seq(S), NEW t \in Seq(T), Len(s) = Len(t),
           \A i \in 1..Len(s) : s[i] = t[i]
    PROVE  s = t
OBVIOUS

(* A page taken is the next of the chain, and the last one ends it.        *)
LEMMA TakenReads ==
    ASSUME PInv, Reading, PageTaken PROVE Reading'
<1> USE DEF Current
<1>1. /\ run # None /\ run \in Runs /\ call' = None /\ answer' = None /\ server' = server
      /\ Current \in Sources /\ run.step = "wait"
      /\ answer # None /\ answer.page = Len(run.chain) + 1 /\ answer.outcome = "body"
      /\ answer.content \in Contents \cup {Blank}
  BY Waits DEF PageTaken, GetBody, Running
<1>2. /\ run'.chain = Append(run.chain, answer.content) /\ run'.still = run.still
      /\ run'.collector = run.collector /\ run'.source = run.source
      /\ run'.step = (IF GoesOn THEN "fetch" ELSE "record")
  BY <1>1 DEF PageTaken, Runs
<1>3. CASE run.still # TRUE
  BY <1>2, <1>3 DEF Reading
<1>4. CASE run.still = TRUE
  <2> DEFINE pages == server[Current]
             n == Len(run.chain)
  <2>1. pages \in Seq(Contents) /\ Len(pages) \in Nat \ {0} /\ n \in Nat /\ run.chain \in Seq(Contents \cup {Blank})
    BY <1>1, ServerIs DEF Runs
  <2>2. /\ \A i \in 1..n : i <= Len(pages) /\ run.chain[i] = pages[i]
        /\ n < Len(pages) /\ (run.chain # <<>> => Task[Current].paginate)
        /\ answer.content = pages[n + 1] /\ answer.next \in LinksOf(Current, n + 1)
    BY <1>1, <1>4 DEF Reading
  <2>3. /\ Len(run'.chain) = n + 1 /\ run'.chain \in Seq(Contents \cup {Blank})
        /\ \A i \in 1..n : run'.chain[i] = run.chain[i]
        /\ run'.chain[n + 1] = answer.content
    BY <1>1, <1>2, <2>1
  <2>4. \A i \in 1..(n + 1) : i <= Len(pages) /\ run'.chain[i] = pages[i]
    BY <2>1, <2>2, <2>3
  <2>5. \A i \in 1..Len(run'.chain) :
          i <= Len((server[Current])') /\ run'.chain[i] = (server[Current])'[i]
    BY <1>1, <1>2, <2>3, <2>4
  <2>6. CASE GoesOn
    <3>1. Task[Current].paginate /\ answer.next # "end"
      BY <2>6 DEF GoesOn
    <3>2. n + 1 < Len(pages)
      BY <2>2, <3>1 DEF LinksOf
    <3>3. /\ run'.step = "fetch" /\ Len(run'.chain) < Len((server[Current])')
          /\ Task[Current'].paginate
      BY <1>1, <1>2, <2>3, <2>6, <3>1, <3>2
    <3>4. QED BY <1>1, <2>5, <3>3 DEF Reading
  <2>7. CASE ~ GoesOn
    <3>1. run'.chain = WholePages(Current)
      <4>1. CASE Task[Current].paginate
        <5>1. n + 1 >= Len(pages)
          BY <2>1, <2>2, <2>7, <4>1 DEF GoesOn, LinksOf
        <5>2. Len(pages) = n + 1
          BY <2>1, <2>2, <5>1
        <5>3. /\ run'.chain \in Seq(Contents \cup {Blank}) /\ pages \in Seq(Contents)
              /\ Len(run'.chain) = Len(pages)
              /\ \A i \in 1..Len(run'.chain) : run'.chain[i] = pages[i]
          BY <2>1, <2>3, <2>4, <5>2
        <5>4. run'.chain = pages
          <6> HIDE DEF pages
          <6>1. QED BY <5>3, SameItems
        <5>5. QED BY <4>1, <5>4 DEF WholePages
      <4>2. CASE ~ Task[Current].paginate
        <5>1. run.chain = <<>>
          BY <2>2, <4>2
        <5>2. n = 0 /\ run'.chain = <<pages[1]>>
          BY <1>2, <2>2, <5>1
        <5>3. QED BY <4>2, <5>2 DEF WholePages
      <4>3. QED BY <4>1, <4>2
    <3>2. WholePages(Current)' = WholePages(Current)
      BY <1>1, <1>2 DEF WholePages
    <3>3. run'.step = "record" /\ run'.chain = WholePages(Current)'
      BY <1>2, <2>7, <3>1, <3>2
    <3>4. QED BY <1>1, <2>5, <3>3 DEF Reading
  <2>8. QED BY <2>6, <2>7
<1>5. QED BY <1>3, <1>4

LEMMA ReadingKept ==
    ASSUME PInv, Reading, [Next]_vars PROVE Reading'
<1> USE DEF Current
<1>1. CASE UNCHANGED vars
  BY <1>1 DEF vars, clientVars, runVars, Reading, LinksOf, WholePages
<1>2. CASE StartRun \/ FinishRun \/ Kill
  <2>1. run' # None => run'.still = FALSE
    BY <1>2 DEF StartRun, FinishRun, Kill
  <2>2. QED BY <2>1, MovedReads
<1>3. CASE Fetch
  <2>1. /\ run # None /\ run.step = "fetch" /\ server' = server /\ call'.stage = "gates" /\ answer' = None
    BY <1>3 DEF Fetch, Running, Ask
  <2>2. /\ run'.chain = run.chain /\ run'.collector = run.collector /\ run'.source = run.source
        /\ run'.step = "wait" /\ run'.still = run.still
    BY <1>3, <2>1, CurrentIs DEF Fetch, Runs
  <2>3. QED BY <2>1, <2>2 DEF Reading
<1>4. CASE ClientStep
  BY <1>4, ClientReads
<1>5. ASSUME NEW s \in Sources, ProviderPublishes(s) PROVE Reading'
  <2>1. CASE run = None
    BY <1>5, <2>1, MovedReads DEF ProviderPublishes
  <2>2. CASE run # None /\ run.step # "dispatch" /\ s = Current
    <3>1. run' = [run EXCEPT !.still = FALSE]
      BY <1>5, <2>2 DEF ProviderPublishes
    <3>2. QED BY <2>2, <3>1, CurrentIs, MovedReads DEF Runs
  <2>3. CASE run # None /\ run.step = "dispatch"
    BY <1>5, <2>3, MovedReads DEF ProviderPublishes, PInv, Position
  <2>4. CASE run # None /\ s # Current
    <3>1. /\ run' = run /\ UNCHANGED <<call, answer>> /\ Current \in Sources
      BY <1>5, <2>4, CurrentIs DEF ProviderPublishes, Publish
    <3>2. PICK pages \in Chains[s] : server' = [server EXCEPT ![s] = pages]
      BY <1>5 DEF ProviderPublishes, Publish
    <3>3. server'[Current] = server[Current]
      BY <2>4, <3>1, <3>2 DEF PInv, TypeInvariant, ClientTypeOK, Servers
    <3>4. QED BY <3>1, <3>3 DEF Reading, LinksOf, WholePages
  <2>5. QED BY <2>1, <2>2, <2>3, <2>4
<1>6. CASE SourceEnds
  <2>1. PICK status \in {"ok", "not-modified", "failed"} : SourceDone(status)
    BY <1>6 DEF SourceEnds
  <2>2. run # None /\ run.step \in {"wait", "record"}
    BY <1>6, EndsWith
  <2>3. QED BY <2>1, <2>2, NextSource, MovedReads
<1>7. CASE PageTaken
  BY <1>7, TakenReads
<1>8. CASE Record
  <2>1. run # None /\ run.step \in {"wait", "record"} /\ SourceDone("ok")
    BY <1>8 DEF Record, Running
  <2>2. QED BY <2>1, NextSource, MovedReads
<1>9. CASE Dispatches
  BY <1>9, MovedReads DEF Dispatches, DispatchCandidate, DropInvalid, Running, PInv, Position
<1>10. CASE WriteExceptions \/ DispatchRaises
  <2>1. run # None /\ run.step = "dispatch" /\ \E failed \in BOOLEAN : CollectorDone(failed)
    BY <1>10 DEF WriteExceptions, DispatchRaises, Running
  <2>2. QED BY <2>1, NextCollector, MovedReads
<1>11. QED
  BY <1>1, <1>2, <1>3, <1>4, <1>5, <1>6, <1>7, <1>8, <1>9, <1>10, WaitingEnds DEF Next, Works, Dispatches

(* Whatever the lengths of the chains and wherever publications fall, a    *)
(* snapshot is never made of some of the pages alone.                      *)
THEOREM SnapshotsWhole == Spec => []SnapshotsAreWhole
<1>1. Init => Reading
  BY DEF Init, Reading
<1>2. PInv /\ Reading => SnapshotsAreWhole
  BY CurrentIs DEF Reading, SnapshotsAreWhole, Running, Runs
<1>3. QED BY <1>1, <1>2, PInvInit, PInvKept, ReadingKept, PTL DEF Spec

-----------------------------------------------------------------------------
(* What a run has heard so far: nothing is staged but of the collector     *)
(* under way, a loss fails a collector, and a collector that is done has   *)
(* failed or heard from a source, as each of its sources has a status.     *)
HeardFrom(c) == \E i \in DOMAIN Plan[c] : report[Plan[c][i]] \in {"ok", "not-modified"}

RunHeard ==
    /\ ping = "none"
    /\ torn # {} => down # {}
    /\ \A c \in DOMAIN Plan : c < run.collector \/ run.step = "finish" => down # {} \/ HeardFrom(c)
    /\ run.step # "finish" =>
          \A i \in DOMAIN Plan[run.collector] :
              i < run.source \/ run.step = "dispatch" => report[Plan[run.collector][i]] # "none"

StagedOf ==
    \A s \in Sources :
        staged[s] # {} => run # None /\ run.step # "finish" /\ s \in CollectorSources

(* A run that pings success has nothing left in memory and nothing lost.   *)
Settled ==
    ping = "success" =>
        /\ \A c \in DOMAIN Plan : HeardFrom(c)
        /\ torn = {} /\ \A s \in Sources : staged[s] = {}

Heard == (run # None => RunHeard) /\ StagedOf /\ Settled

(* While the run goes on, nothing is claimed of its end.                   *)
LEMMA NoClaim ==
    ASSUME ping' = "none" PROVE Settled'
BY DEF Settled

LEMMA HeardSame ==
    ASSUME Heard, run # None, run' # None, UNCHANGED <<staged, report, down, ping, torn>>,
           run'.collector = run.collector, run'.source = run.source,
           run'.step = run.step \/ {run.step, run'.step} \cap {"dispatch", "finish"} = {}
    PROVE  Heard'
<1>1. RunHeard'
  BY DEF Heard, RunHeard, HeardFrom
<1>2. StagedOf'
  BY DEF Heard, StagedOf, CollectorSources
<1>3. QED BY <1>1, <1>2, NoClaim DEF Heard, RunHeard

(* A source has its status, and no other source loses one.                 *)
LEMMA HeardSource ==
    ASSUME PInv, Heard, run # None, run.step \in {"wait", "record"},
           NEW status \in {"ok", "not-modified", "failed"}, SourceDone(status),
           torn' = torn, \A s \in Sources \ {Current} : staged'[s] = staged[s]
    PROVE  Heard'
<1>1. /\ run' # None /\ run'.collector = run.collector
      /\ run'.step \in {"fetch", "dispatch"}
      /\ run'.step = "fetch" => run'.source = run.source + 1
      /\ run'.step = "dispatch" => run.source = Len(Plan[run.collector])
      /\ report' = [report EXCEPT ![Current] = status]
      /\ UNCHANGED <<down, ping>>
  BY NextSource
<1>2. /\ run.collector \in DOMAIN Plan /\ run.source \in DOMAIN Plan[run.collector]
      /\ Current \in Sources /\ Current \in CollectorSources
  BY CurrentIs DEF PInv, Position
<1>3. /\ run.source \in 1..Len(Plan[run.collector]) /\ Len(Plan[run.collector]) \in Nat
      /\ DOMAIN Plan[run.collector] = 1..Len(Plan[run.collector]) /\ run.collector \in Nat
  BY <1>2, PlanFacts
<1>4. report'[Current] = status /\ \A s \in Sources \ {Current} : report'[s] = report[s]
  BY <1>1, <1>2 DEF PInv, TypeInvariant
<1>5. RunHeard
  BY DEF Heard
<1>6. \A c \in DOMAIN Plan : c < run'.collector \/ run'.step = "finish" => down' # {} \/ HeardFrom(c)'
  <2>1. SUFFICES ASSUME NEW c \in DOMAIN Plan, c < run.collector, down = {}
                 PROVE  HeardFrom(c)'
    BY <1>1
  <2>2. PICK i \in DOMAIN Plan[c] : report[Plan[c][i]] \in {"ok", "not-modified"}
    BY <1>5, <2>1 DEF RunHeard, HeardFrom
  <2>3. Plan[c][i] # Current
    <3>1. c # run.collector
      BY <1>3, <2>1, PlanFacts
    <3>2. QED BY <1>2, <3>1, PlanAssumption DEF Current
  <2>4. Plan[c][i] \in Sources
    BY PlanFacts
  <2>5. QED BY <1>4, <2>2, <2>3, <2>4 DEF HeardFrom
<1>7. \A i \in DOMAIN Plan[run'.collector] :
          i < run'.source \/ run'.step = "dispatch" => report'[Plan[run'.collector][i]] # "none"
  <2>1. SUFFICES ASSUME NEW i \in DOMAIN Plan[run.collector],
                        i < run'.source \/ run'.step = "dispatch"
                 PROVE  report'[Plan[run.collector][i]] # "none"
    BY <1>1
  <2>2. i < run.source \/ i = run.source
    BY <1>1, <1>3, <2>1
  <2>3. Plan[run.collector][i] \in Sources
    BY <1>2, PlanFacts
  <2>4. CASE Plan[run.collector][i] = Current
    BY <1>4, <2>4
  <2>5. CASE Plan[run.collector][i] # Current
    <3>1. i < run.source
      BY <2>2, <2>5 DEF Current
    <3>2. report[Plan[run.collector][i]] # "none"
      BY <1>5, <3>1 DEF RunHeard
    <3>3. QED BY <1>4, <2>3, <2>5, <3>2
  <2>6. QED BY <2>4, <2>5
<1>8. RunHeard'
  BY <1>1, <1>5, <1>6, <1>7 DEF RunHeard
<1>9. StagedOf'
  <2>1. CollectorSources' = CollectorSources
    BY <1>1 DEF CollectorSources
  <2>2. QED BY <1>1, <1>2, <2>1 DEF Heard, StagedOf
<1>10. QED BY <1>1, <1>8, <1>9, NoClaim DEF Heard, RunHeard

(* The collector is done: what it staged is filed or lost.                 *)
LEMMA HeardCollector ==
    ASSUME PInv, Heard, run # None, run.step = "dispatch",
           NEW failed \in BOOLEAN, CollectorDone(failed),
           \A s \in CollectorSources : staged'[s] = {},
           \A s \in Sources \ CollectorSources : staged'[s] = staged[s],
           torn' # {} => torn # {} \/ failed = TRUE,
           (failed = TRUE \/ (report' = report /\ \E s \in CollectorSources : report[s] # "failed"))
    PROVE  Heard'
<1>1. /\ run' # None
      /\ \/ /\ run'.step = "fetch" /\ run'.collector = run.collector + 1 /\ run'.source = 1
            /\ run'.collector \in DOMAIN Plan
         \/ /\ run'.step = "finish" /\ run'.collector = run.collector
            /\ run.collector = Len(Plan)
      /\ down' = (IF failed THEN down \cup {run.collector} ELSE down) /\ ping' = ping
  BY NextCollector
<1>2. run.collector \in DOMAIN Plan /\ RunHeard
  BY CurrentIs DEF Heard
<1>3. \A c \in DOMAIN Plan : down' # {} \/ (c <= run.collector => HeardFrom(c)')
  <2>1. CASE failed = TRUE
    BY <1>1, <2>1
  <2>2. CASE failed = FALSE
    <3>1. down' = down /\ report' = report
      BY <1>1, <2>2
    <3>2. \A c \in DOMAIN Plan : c < run.collector => down # {} \/ HeardFrom(c)
      BY <1>2 DEF RunHeard
    <3>3. HeardFrom(run.collector)
      <4>1. PICK s \in CollectorSources : report[s] # "failed"
        BY <2>2
      <4>2. PICK i \in DOMAIN Plan[run.collector] : s = Plan[run.collector][i]
        BY DEF CollectorSources
      <4>3. s \in Sources /\ report[s] # "none"
        BY <1>2, <4>2, PlanFacts DEF RunHeard
      <4>4. report[s] \in {"ok", "not-modified"}
        BY <4>1, <4>3 DEF PInv, TypeInvariant
      <4>5. QED BY <4>2, <4>4 DEF HeardFrom
    <3>4. \A c \in DOMAIN Plan : c <= run.collector => down # {} \/ HeardFrom(c)
      <4>1. \A c \in DOMAIN Plan : c <= run.collector => c < run.collector \/ c = run.collector
        BY <1>2, PlanFacts
      <4>2. QED BY <3>2, <3>3, <4>1
    <3>5. QED BY <3>1, <3>4 DEF HeardFrom
  <2>3. QED BY <2>1, <2>2
<1>4. RunHeard'
  <2>1. ping' = "none" /\ (torn' # {} => down' # {})
    BY <1>1, <1>2 DEF RunHeard
  <2>2. \A c \in DOMAIN Plan : c < run'.collector \/ run'.step = "finish" => c <= run.collector
    BY <1>1, <1>2, PlanFacts
  <2>3. run'.step # "finish" =>
            \A i \in DOMAIN Plan[run'.collector] : ~ (i < run'.source) /\ run'.step # "dispatch"
    BY <1>1, PlanFacts
  <2>4. QED BY <1>3, <2>1, <2>2, <2>3 DEF RunHeard
<1>5. StagedOf'
  <2>1. \A s \in Sources : staged'[s] = {}
    BY DEF Heard, StagedOf
  <2>2. QED BY <2>1 DEF StagedOf
<1>6. QED BY <1>4, <1>5, NoClaim DEF Heard, RunHeard

LEMMA HeardKept ==
    ASSUME PInv, Heard, [Next]_vars PROVE Heard'
<1>1. CASE UNCHANGED vars
  BY <1>1 DEF vars, runVars, historyVars, Heard, RunHeard, HeardFrom, StagedOf, Settled,
              CollectorSources
<1>2. CASE StartRun
  <2>1. /\ run' # None /\ run'.collector = 1 /\ run'.source = 1 /\ run'.step = "fetch"
        /\ ping' = "none" /\ torn' = {} /\ staged' = staged
    <3>1. run' \in Runs \cup {None}
      BY PositionKept
    <3>2. run' = [step |-> "fetch", collector |-> 1, source |-> 1, chain |-> <<>>,
                  link |-> "page", still |-> FALSE]
      BY <1>2 DEF StartRun
    <3>3. <<>> \in Seq(Contents \cup {Blank}) /\ "page" \in Links /\ 1 \in DOMAIN Plan
      BY PlanFacts DEF Links
    <3>4. run' \in Runs
      BY <3>2, <3>3 DEF Runs
    <3>5. run'.collector = 1 /\ run'.source = 1 /\ run'.step = "fetch"
      BY <3>2
    <3>6. QED BY <1>2, <3>4, <3>5, NoRun DEF StartRun
  <2>2. \A c \in DOMAIN Plan : ~ (c < 1)
    BY PlanFacts
  <2>3. \A i \in DOMAIN Plan[1] : ~ (i < 1)
    BY PlanFacts
  <2>4. RunHeard'
    BY <2>1, <2>2, <2>3 DEF RunHeard
  <2>5. StagedOf'
    BY <1>2, <2>1 DEF StartRun, Heard, StagedOf
  <2>6. QED BY <2>1, <2>4, <2>5, NoClaim DEF Heard
<1>3. CASE Fetch
  <2>1. /\ run # None /\ run.step = "fetch"
        /\ run' = [run EXCEPT !.step = "wait"] /\ UNCHANGED <<staged, report, down, ping, torn>>
    BY <1>3 DEF Fetch, Running, historyVars
  <2>2. /\ run'.step = "wait" /\ run'.collector = run.collector /\ run'.source = run.source
        /\ run' \in Runs
    BY <2>1, CurrentIs DEF Runs
  <2>3. run' # None
    BY <2>2, NoRun
  <2>4. QED BY <2>1, <2>2, <2>3, HeardSame
<1>4. CASE ClientStep
  <2>1. run # None /\ UNCHANGED <<staged, report, down, ping, torn>>
    <3>1. call # None
      BY <1>4, Moves DEF ClientStep, PInv, TypeInvariant, ClientInv
    <3>2. QED BY <1>4, <3>1 DEF ClientStep, PInv, Position, historyVars
  <2>2. run' = run \/ run' = [run EXCEPT !.still = TRUE]
    BY <1>4 DEF ClientStep
  <2>3. /\ run'.step = run.step /\ run'.collector = run.collector /\ run'.source = run.source
        /\ run' \in Runs
    BY <2>1, <2>2, CurrentIs DEF Runs
  <2>4. QED BY <2>1, <2>3, NoRun, HeardSame
<1>5. ASSUME NEW s \in Sources, ProviderPublishes(s) PROVE Heard'
  <2>1. UNCHANGED <<staged, report, down, ping, torn>>
    BY <1>5 DEF ProviderPublishes, historyVars
  <2>2. CASE run = None
    <3>1. run' = run
      BY <1>5, <2>2 DEF ProviderPublishes
    <3>2. QED BY <2>1, <2>2, <3>1 DEF Heard, StagedOf, Settled, HeardFrom
  <2>3. CASE run # None
    <3>1. run' = run \/ run' = [run EXCEPT !.still = FALSE]
      BY <1>5 DEF ProviderPublishes
    <3>2. /\ run'.step = run.step /\ run'.collector = run.collector /\ run'.source = run.source
          /\ run' \in Runs
      BY <2>3, <3>1, CurrentIs DEF Runs
    <3>3. QED BY <2>1, <2>3, <3>2, NoRun, HeardSame
  <2>4. QED BY <2>2, <2>3
<1>6. CASE SourceEnds
  <2>1. PICK status \in {"ok", "not-modified", "failed"} : SourceDone(status)
    BY <1>6 DEF SourceEnds
  <2>2. run # None /\ run.step \in {"wait", "record"}
    BY <1>6, EndsWith
  <2>3. UNCHANGED <<staged, torn>>
    BY <1>6 DEF SourceEnds, historyVars
  <2>4. QED BY <2>1, <2>2, <2>3, HeardSource
<1>7. CASE PageTaken
  <2>1. /\ run # None /\ run \in Runs /\ run.step = "wait" /\ run' = run'
        /\ UNCHANGED <<staged, report, down, ping, torn>>
    BY <1>7, Waits DEF PageTaken, GetBody, Running, historyVars
  <2>2. /\ run'.collector = run.collector /\ run'.source = run.source
        /\ run'.step \in {"fetch", "record"}
    BY <1>7, <2>1 DEF PageTaken, Runs
  <2>3. run' # None
    <3>1. run' \in Runs \cup {None} /\ Position'
      BY PositionKept
    <3>2. answer.next \in Links /\ answer.content \in Contents \cup {Blank}
      BY <1>7, Waits DEF PageTaken, GetBody, Answers
    <3>3. Append(run.chain, answer.content) \in Seq(Contents \cup {Blank})
      BY <2>1, <3>2 DEF Runs
    <3>4. run' \in Runs
      BY <1>7, <2>1, <3>2, <3>3 DEF PageTaken, Runs
    <3>5. QED BY <3>4, NoRun
  <2>4. QED BY <2>1, <2>2, <2>3, HeardSame
<1>8. CASE Record
  <2>1. run # None /\ run.step = "record" /\ SourceDone("ok") /\ torn' = torn
    BY <1>8 DEF Record, Running
  <2>2. \A s \in Sources \ {Current} : staged'[s] = staged[s]
    BY <1>8 DEF Record, PInv, TypeInvariant
  <2>3. QED BY <2>1, <2>2, HeardSource
<1>9. CASE Dispatches
  <2>1. /\ run # None /\ UNCHANGED <<run, report, down, ping, torn>>
        /\ \A s \in Sources : staged'[s] \subseteq staged[s]
    BY <1>9 DEF Dispatches, DispatchCandidate, DropInvalid, File, Running, historyVars
  <2>2. RunHeard'
    BY <2>1 DEF Heard, RunHeard, HeardFrom
  <2>3. StagedOf'
    BY <2>1 DEF Heard, StagedOf, CollectorSources
  <2>4. QED BY <2>1, <2>2, <2>3, NoClaim DEF Heard, RunHeard
<1>10. CASE WriteExceptions
  <2> DEFINE notes == UNION {staged[s] : s \in CollectorSources}
             all == \A s \in CollectorSources : report[s] = "failed"
  <2>1. /\ run # None /\ run.step = "dispatch" /\ File(notes) /\ CollectorDone(all)
        /\ UNCHANGED <<report, torn>>
    BY <1>10 DEF WriteExceptions, Running, historyVars
  <2>2. CollectorSources \subseteq Sources
    BY <2>1, CurrentIs, PlanFacts DEF CollectorSources
  <2>3. \A s \in CollectorSources : staged'[s] = {}
    BY <2>1, <2>2 DEF File
  <2>4. \A s \in Sources \ CollectorSources : staged'[s] = staged[s]
    <3>1. \A s \in Sources \ CollectorSources : staged[s] = {}
      BY DEF Heard, StagedOf
    <3>2. QED BY <2>1, <3>1 DEF File
  <2>5. CASE all
    <3>1. PICK failed \in BOOLEAN : failed = TRUE /\ CollectorDone(failed)
      BY <2>1, <2>5
    <3>2. QED BY <2>1, <2>3, <2>4, <3>1, HeardCollector
  <2>6. CASE ~ all
    <3>1. CollectorDone(FALSE)
      BY <2>1, <2>6
    <3>2. FALSE \in BOOLEAN /\ \E s \in CollectorSources : report[s] # "failed"
      BY <2>6
    <3>3. QED BY <2>1, <2>3, <2>4, <3>1, <3>2, HeardCollector
  <2>7. QED BY <2>5, <2>6
<1>11. CASE DispatchRaises
  <2>1. run # None /\ run.step = "dispatch" /\ LoseStaged(CollectorSources) /\ CollectorDone(TRUE)
    BY <1>11 DEF DispatchRaises, Running
  <2>2. CollectorSources \subseteq Sources
    BY <2>1, CurrentIs, PlanFacts DEF CollectorSources
  <2>3. /\ \A s \in CollectorSources : staged'[s] = {}
        /\ \A s \in Sources \ CollectorSources : staged'[s] = staged[s]
    BY <2>1, <2>2 DEF LoseStaged
  <2>4. PICK failed \in BOOLEAN : failed = TRUE /\ CollectorDone(failed)
    BY <2>1
  <2>5. QED BY <2>1, <2>3, <2>4, HeardCollector
<1>12. CASE FinishRun
  <2>1. /\ run # None /\ run.step = "finish" /\ run' = None
        /\ UNCHANGED <<staged, report, down, torn>>
        /\ ping' = IF down = {} THEN "success" ELSE "fail"
    BY <1>12 DEF FinishRun, Running, historyVars
  <2>2. \A s \in Sources : staged[s] = {}
    BY <2>1 DEF Heard, StagedOf
  <2>3. ASSUME down = {} PROVE torn = {} /\ \A c \in DOMAIN Plan : HeardFrom(c)
    BY <2>1, <2>3 DEF Heard, RunHeard
  <2>4. Settled'
    BY <2>1, <2>2, <2>3 DEF Settled, HeardFrom
  <2>5. QED BY <2>1, <2>2, <2>4 DEF Heard, StagedOf
<1>13. CASE Kill
  <2>1. run # None /\ run' = None /\ ping' = ping /\ \A s \in Sources : staged'[s] = {}
    BY <1>13 DEF Kill, LoseStaged
  <2>2. QED BY <2>1, NoClaim DEF Heard, RunHeard, StagedOf
<1>14. QED
  BY <1>1, <1>2, <1>3, <1>4, <1>5, <1>6, <1>7, <1>8, <1>9, <1>10, <1>11, <1>12, <1>13,
     WaitingEnds DEF Next, Works, Dispatches

(* A success ping is never sent by a run with a silent collector, nor by   *)
(* one that lost a change other than those its report lists as invalid,    *)
(* however many collectors and sources there are.                          *)
THEOREM SuccessIsHeard == Spec => []SuccessMeansHeard
<1>1. Init => Heard /\ NotesKept
  BY DEF Init, Heard, StagedOf, Settled, NotesKept
<1>2. ASSUME Heard, NotesKept PROVE SuccessMeansHeard
  <2>1. SUFFICES ASSUME ping = "success" PROVE SuccessMeansHeard
    BY DEF SuccessMeansHeard
  <2>2. (\A c \in DOMAIN Plan : HeardFrom(c)) /\ torn = {} /\ \A s \in Sources : staged[s] = {}
    BY <1>2, <2>1 DEF Heard, Settled
  <2>3. ASSUME NEW s \in Sources, before[s] # None, NEW delta \in DeltasBetween(s, before[s], baseline[s])
        PROVE  NoteOf(Task[s], delta) \in filed[s] \cup dropped[s]
    BY <1>2, <2>2, <2>3 DEF NotesKept
  <2>4. QED BY <2>2, <2>3 DEF SuccessMeansHeard, HeardFrom
<1>3. QED BY <1>1, <1>2, PInvInit, PInvKept, HeardKept, NotesKeptKept, PTL DEF Spec

-----------------------------------------------------------------------------
(* The differs invent nothing: each delta is true of the two snapshots.    *)
LEMMA Differs ==
    ASSUME NEW kind, NEW prev, NEW cur
    PROVE  /\ \A k \in Added(prev, cur) \cup Removed(prev, cur) :
                 <<k, Presence>> \in Differences(kind, prev, cur)
           /\ \A f \in FieldsOf(kind) : \A k \in Moved(prev, cur, f) :
                 <<k, f>> \in Differences(kind, prev, cur)
<1>1. ASSUME NEW f \in FieldsOf(kind), NEW k \in Moved(prev, cur, f)
      PROVE  <<k, f>> \in Differences(kind, prev, cur)
  <2> DEFINE All(g) == {<<j, g>> : j \in Moved(prev, cur, g)}
  <2>1. <<k, f>> \in All(f)
    BY <1>1
  <2>2. <<k, f>> \in UNION {All(g) : g \in FieldsOf(kind)}
    <3> HIDE DEF All
    <3>1. QED BY <2>1
  <2>3. QED BY <2>2 DEF Differences
<1>2. QED BY <1>1 DEF Differences

(* The delta of one item's field, and one of items' presence.              *)
LEMMA FieldDelta ==
    ASSUME NEW kind, NEW prev, NEW cur, NEW type, NEW subject, NEW f \in FieldsOf(kind),
           NEW k \in Moved(prev, cur, f)
    PROVE  TrueOf(kind, prev, cur,
                  Delta(type, f, "modified", subject, {k}, prev[k][f], cur[k][f]))
<1> DEFINE delta == Delta(type, f, "modified", subject, {k}, prev[k][f], cur[k][f])
<1>1. delta.items = {k} /\ delta.field = f /\ delta.old = prev[k][f] /\ delta.new = cur[k][f]
  BY DEF Delta
<1> HIDE DEF delta
<1>2. TrueOf(kind, prev, cur, delta)
  BY <1>1, Differs DEF TrueOf
<1>3. QED BY <1>2 DEF delta

LEMMA PresenceDelta ==
    ASSUME NEW kind, NEW prev, NEW cur, NEW type, NEW change, NEW subject, NEW old, NEW new,
           NEW rows \in SUBSET (Added(prev, cur) \cup Removed(prev, cur)), rows # {}
    PROVE  TrueOf(kind, prev, cur, Delta(type, Presence, change, subject, rows, old, new))
<1> DEFINE delta == Delta(type, Presence, change, subject, rows, old, new)
<1>1. delta.items = rows /\ delta.field = Presence
  BY DEF Delta
<1> HIDE DEF delta
<1>2. TrueOf(kind, prev, cur, delta)
  BY <1>1, Differs DEF TrueOf
<1>3. QED BY <1>2 DEF delta

LEMMA ModelsTrue ==
    ASSUME NEW prev, NEW cur, NEW delta \in DiffModelsApi(prev, cur)
    PROVE  TrueOf("models-api", prev, cur, delta)
<1> DEFINE Of(g, k) == Delta(ModelFieldEvent(g), g, "modified", k, {k}, prev[k][g], cur[k][g])
           All(g) == {Of(g, k) : k \in Moved(prev, cur, g)}
<1>1. CASE \E m \in Added(prev, cur) :
               delta = Delta("model.released", Presence, "added", m, {m}, None, m)
  BY <1>1, PresenceDelta
<1>2. CASE \E m \in Removed(prev, cur) :
               delta = Delta("model.deprecated", Presence, "removed", m, {m}, m, None)
  BY <1>2, PresenceDelta
<1>3. CASE delta \in UNION {All(g) : g \in ModelFields}
  <2>1. PICK f \in ModelFields : delta \in All(f)
    <3> HIDE DEF All
    <3>1. QED BY <1>3
  <2>2. PICK k \in Moved(prev, cur, f) : delta = Of(f, k)
    BY <2>1
  <2>3. f \in FieldsOf("models-api")
    BY DEF FieldsOf
  <2>4. QED BY <2>2, <2>3, FieldDelta
<1>4. QED BY <1>1, <1>2, <1>3 DEF DiffModelsApi

LEMMA PricesTrue ==
    ASSUME NEW prev, NEW cur, NEW delta \in DiffPricingApi(prev, cur)
    PROVE  TrueOf("pricing-api", prev, cur, delta)
<1>1. ASSUME NEW k \in Moved(prev, cur, "value")
      PROVE  LET rows == PriceMoves(prev, cur, k)
                 rep  == Representative(rows)
             IN  TrueOf("pricing-api", prev, cur,
                        Delta("price.changed", "value", "modified", k.model_ref, rows,
                              prev[rep]["value"], cur[rep]["value"]))
  <2> DEFINE rows == PriceMoves(prev, cur, k)
             rep == Representative(rows)
             moved == Delta("price.changed", "value", "modified", k.model_ref, rows,
                            prev[rep]["value"], cur[rep]["value"])
  <2>1. k \in rows /\ rows \subseteq Moved(prev, cur, "value")
    BY DEF PriceMoves
  <2>2. rep \in rows
    <3> HIDE DEF rows
    <3>1. QED BY <2>1 DEF Representative
  <2>3. /\ moved.items = rows /\ moved.field = "value"
        /\ moved.old = prev[rep]["value"] /\ moved.new = cur[rep]["value"]
    BY DEF Delta
  <2>4. "value" \in FieldsOf("pricing-api") /\ "value" # Presence
    BY DEF FieldsOf, Presence
  <2>5. TrueOf("pricing-api", prev, cur, moved)
    <3> HIDE DEF moved, rows, rep
    <3>1. QED BY <2>1, <2>2, <2>3, <2>4, Differs DEF TrueOf
  <2>6. QED BY <2>5
<1>2. ASSUME NEW k \in Added(prev, cur) \cup Removed(prev, cur)
      PROVE  LET m == k.model_ref
             IN  TrueOf("pricing-api", prev, cur,
                        Delta(Unclassified, Presence, RowChange(prev, cur, m), m,
                              RowsOf(Added(prev, cur) \cup Removed(prev, cur), m), None, None))
  <2> DEFINE m == k.model_ref
             rows == RowsOf(Added(prev, cur) \cup Removed(prev, cur), m)
  <2>1. rows \in SUBSET (Added(prev, cur) \cup Removed(prev, cur)) /\ rows # {}
    BY DEF RowsOf
  <2>2. TrueOf("pricing-api", prev, cur,
               Delta(Unclassified, Presence, RowChange(prev, cur, m), m, rows, None, None))
    <3> HIDE DEF rows, m
    <3>1. QED BY <2>1, PresenceDelta
  <2>3. QED BY <2>2
<1>3. QED BY <1>1, <1>2 DEF DiffPricingApi

LEMMA StatusTrue ==
    ASSUME NEW prev, NEW cur, NEW delta \in DiffStatuspage(prev, cur)
    PROVE  TrueOf("statuspage", prev, cur, delta)
<1>1. "status" \in FieldsOf("statuspage") /\ "components" \in FieldsOf("statuspage")
  BY DEF FieldsOf
<1>2. CASE \E i \in Added(prev, cur) :
               delta = Delta("outage.started", Presence, "added", i, {i}, None, i)
  BY <1>2, PresenceDelta
<1>3. CASE \E i \in Moved(prev, cur, "status") :
               delta = Delta("outage.resolved", "status", "modified", i, {i},
                             prev[i]["status"], cur[i]["status"])
  BY <1>1, <1>3, FieldDelta
<1>4. CASE \E i \in Moved(prev, cur, "components") :
               delta = Delta(Unclassified, "components", "modified", i, {i},
                             prev[i]["components"], cur[i]["components"])
  BY <1>1, <1>4, FieldDelta
<1>5. QED BY <1>2, <1>3, <1>4 DEF DiffStatuspage

LEMMA DocsTrue ==
    ASSUME NEW declared, NEW prev, NEW cur, NEW delta \in DiffDocsHtml(declared, prev, cur)
    PROVE  TrueOf("docs-html", prev, cur, delta)
<1>1. "value" \in FieldsOf("docs-html")
  BY DEF FieldsOf
<1>2. CASE \E p \in Added(prev, cur) :
               delta = Delta(DocsEvent(declared, p, "added"), Presence, "added", p.name, {p},
                             None, DocsSide(declared, p, "added", cur[p]["value"]))
  BY <1>2, PresenceDelta
<1>3. CASE \E p \in Removed(prev, cur) :
               delta = Delta(DocsEvent(declared, p, "removed"), Presence, "removed", p.name, {p},
                             DocsSide(declared, p, "removed", prev[p]["value"]), None)
  BY <1>3, PresenceDelta
<1>4. CASE \E p \in Moved(prev, cur, "value") :
               delta = Delta(Unclassified, "value", "modified", p.name, {p},
                             prev[p]["value"], cur[p]["value"])
  BY <1>1, <1>4, FieldDelta
<1>5. QED BY <1>2, <1>3, <1>4 DEF DiffDocsHtml

LEMMA DeltasTrue ==
    ASSUME NEW s \in Sources, NEW prev, NEW cur, NEW delta \in DeltasBetween(s, prev, cur)
    PROVE  prev # None /\ TrueOf(Task[s].kind, prev, cur, delta)
<1> DEFINE kind == Task[s].kind
<1>1. kind \in {"models-api", "pricing-api", "statuspage", "docs-html"}
  BY PlanAssumption
<1>2. prev # None
  BY DEF DeltasBetween, Deltas
<1>3. CASE kind = "models-api"
  BY <1>2, <1>3, ModelsTrue DEF DeltasBetween, Deltas
<1>4. CASE kind = "pricing-api"
  BY <1>2, <1>4, PricesTrue DEF DeltasBetween, Deltas
<1>5. CASE kind = "statuspage"
  BY <1>2, <1>5, StatusTrue DEF DeltasBetween, Deltas
<1>6. CASE kind = "docs-html"
  BY <1>2, <1>6, DocsTrue DEF DeltasBetween, Deltas
<1>7. QED BY <1>1, <1>2, <1>3, <1>4, <1>5, <1>6

LEMMA EveryNoteIsOfADelta ==
    ASSUME NEW task, NEW deltas, NEW note \in EventsOf(task, deltas) \cup ExceptionsOf(task, deltas)
    PROVE  \E delta \in deltas : note = NoteOf(task, delta)
BY DEF NoteOf, EventsOf, ExceptionsOf

(* What is still to be recorded has nothing filed.                         *)
NothingFiledAhead ==
    run # None => \A c \in DOMAIN Plan : \A i \in DOMAIN Plan[c] : Ahead(c, i) => filed[Plan[c][i]] = {}

Invents == NothingInvented /\ NothingFiledAhead

(* What is filed was staged, and only the collector under way stages.      *)
FilesStaged == \A s \in Sources : filed'[s] \subseteq filed[s] \cup staged[s]

LEMMA AheadKept ==
    ASSUME PInv, Heard, NothingFiledAhead, [Next]_vars, run # None, FilesStaged,
           filed' = filed \/ run.step = "dispatch"
    PROVE  NothingFiledAhead'
<1>1. SUFFICES ASSUME run' # None, NEW c \in DOMAIN Plan, NEW i \in DOMAIN Plan[c], Ahead(c, i)'
               PROVE  filed'[Plan[c][i]] = {}
  BY DEF NothingFiledAhead
<1>2. Ahead(c, i)
  BY <1>1, Forward, ForwardLessAhead
<1>3. filed[Plan[c][i]] = {}
  BY <1>1, <1>2 DEF NothingFiledAhead
<1>4. CASE filed' = filed
  BY <1>3, <1>4
<1>5. CASE run.step = "dispatch"
  <2>1. c > run.collector
    BY <1>2, <1>5 DEF Ahead
  <2>2. run.collector \in DOMAIN Plan /\ run.collector # c
    <3>1. run.collector \in DOMAIN Plan
      BY CurrentIs
    <3>2. QED BY <2>1, <3>1, PlanFacts
  <2>3. Plan[c][i] \notin CollectorSources
    BY <2>2, PlanAssumption DEF CollectorSources
  <2>4. Plan[c][i] \in Sources
    BY PlanFacts
  <2>5. staged[Plan[c][i]] = {}
    BY <2>3, <2>4 DEF Heard, StagedOf
  <2>6. QED BY <1>3, <2>4, <2>5 DEF FilesStaged
<1>6. QED BY <1>4, <1>5

(* Nothing new is said while the snapshots stay.                           *)
LEMMA SaysNoMore ==
    ASSUME NothingInvented, UNCHANGED <<baseline, before>>,
           \A s \in Sources : filed'[s] \cup staged'[s] \subseteq filed[s] \cup staged[s]
    PROVE  NothingInvented'
<1>1. ASSUME NEW s \in Sources, NEW note \in filed'[s] \cup staged'[s]
      PROVE  /\ before'[s] # None
             /\ \E delta \in DeltasBetween(s, before'[s], baseline'[s]) :
                   /\ note = NoteOf(Task[s], delta)
                   /\ TrueOf(Task[s].kind, before'[s], baseline'[s], delta)
  BY DEF NothingInvented
<1>2. QED BY <1>1 DEF NothingInvented, DeltasBetween

LEMMA InventsSame ==
    ASSUME PInv, Heard, Invents, [Next]_vars, run # None,
           UNCHANGED <<baseline, before, filed, staged>>
    PROVE  Invents'
<1>1. NothingInvented'
  BY SaysNoMore DEF Invents
<1>2. FilesStaged
  BY DEF FilesStaged
<1>3. QED BY <1>1, <1>2, AheadKept DEF Invents

LEMMA FilingInventsNothing ==
    ASSUME PInv, Heard, Invents, [Next]_vars, run # None, run.step = "dispatch",
           NEW notes, File(notes), UNCHANGED <<baseline, before>>
    PROVE  Invents'
<1>1. \A s \in Sources : filed'[s] \cup staged'[s] \subseteq filed[s] \cup staged[s]
  BY DEF File
<1>2. NothingInvented'
  BY <1>1, SaysNoMore DEF Invents
<1>3. FilesStaged
  BY DEF File, FilesStaged
<1>4. QED BY <1>2, <1>3, AheadKept DEF Invents

LEMMA LosingInventsNothing ==
    ASSUME PInv, Heard, Invents, [Next]_vars, run # None,
           NEW lost, LoseStaged(lost), UNCHANGED <<baseline, before, filed>>
    PROVE  Invents'
<1>1. \A s \in Sources : filed'[s] \cup staged'[s] \subseteq filed[s] \cup staged[s]
  BY DEF LoseStaged
<1>2. NothingInvented'
  BY <1>1, SaysNoMore DEF Invents
<1>3. FilesStaged
  BY DEF FilesStaged
<1>4. QED BY <1>2, <1>3, AheadKept DEF Invents

LEMMA RecordInventsNothing ==
    ASSUME PInv, Heard, Invents, [Next]_vars, Record
    PROVE  Invents'
<1> DEFINE c == Current
           new == Snapshots[c][run.chain]
           deltas == DeltasBetween(c, baseline[c], new)
           notes == EventsOf(Task[c], deltas) \cup ExceptionsOf(Task[c], deltas)
<1>1. /\ baseline' = [baseline EXCEPT ![c] = new]
      /\ before' = [before EXCEPT ![c] = baseline[c]]
      /\ staged' = [staged EXCEPT ![c] = notes]
      /\ filed' = filed /\ run # None /\ run.step = "record"
  BY DEF Record, Running
<1>2. c \in Sources /\ run.collector \in DOMAIN Plan /\ run.source \in DOMAIN Plan[run.collector]
  BY <1>1, CurrentIs DEF PInv, Position
<1>3. DOMAIN baseline = Sources /\ DOMAIN before = Sources /\ DOMAIN staged = Sources
  BY DEF PInv, TypeInvariant
<1>4. filed[c] = {}
  <2>1. Ahead(run.collector, run.source)
    BY <1>1, <1>2, PlanFacts DEF Ahead
  <2>2. QED BY <1>1, <1>2, <2>1 DEF Invents, NothingFiledAhead, Current
<1>5. ASSUME NEW s \in Sources, NEW note \in filed'[s] \cup staged'[s]
      PROVE  /\ before'[s] # None
             /\ \E delta \in DeltasBetween(s, before'[s], baseline'[s]) :
                   /\ note = NoteOf(Task[s], delta)
                   /\ TrueOf(Task[s].kind, before'[s], baseline'[s], delta)
  <2>1. CASE s = c
    <3>1. before'[s] = baseline[c] /\ baseline'[s] = new /\ filed'[s] \cup staged'[s] = notes
      BY <1>1, <1>2, <1>3, <1>4, <2>1
    <3>2. PICK delta \in deltas : note = NoteOf(Task[c], delta)
      <4>1. note \in notes
        BY <1>5, <3>1
      <4> HIDE DEF deltas
      <4>2. QED BY <4>1, EveryNoteIsOfADelta
    <3>3. baseline[c] # None /\ TrueOf(Task[c].kind, baseline[c], new, delta)
      BY <1>2, <3>2, DeltasTrue
    <3>4. QED BY <2>1, <3>1, <3>2, <3>3
  <2>2. CASE s # c
    <3>1. /\ before'[s] = before[s] /\ baseline'[s] = baseline[s]
          /\ staged'[s] = staged[s] /\ filed'[s] = filed[s]
      BY <1>1, <1>3, <2>2
    <3>2. QED BY <1>5, <3>1 DEF Invents, NothingInvented
  <2>3. QED BY <2>1, <2>2
<1>6. NothingInvented'
  BY <1>5 DEF NothingInvented, DeltasBetween
<1>7. FilesStaged
  BY <1>1 DEF FilesStaged
<1>8. QED BY <1>1, <1>6, <1>7, AheadKept DEF Invents

LEMMA InventsKept ==
    ASSUME PInv, Heard, Invents, [Next]_vars PROVE Invents'
<1>1. CASE UNCHANGED vars
  BY <1>1, SaysNoMore DEF vars, storeVars, runVars, Invents, NothingFiledAhead, Ahead
<1>2. CASE StartRun
  <2>1. \A s \in Sources : staged'[s] = {} /\ filed'[s] = {}
    BY <1>2 DEF StartRun, Heard, StagedOf
  <2>2. NothingInvented'
    BY <2>1 DEF NothingInvented
  <2>3. NothingFiledAhead'
    BY <2>1, PlanFacts DEF NothingFiledAhead
  <2>4. QED BY <2>2, <2>3 DEF Invents
<1>3. CASE Fetch \/ PageTaken \/ SourceEnds
  <2>1. run # None /\ UNCHANGED <<baseline, before, filed, staged>>
    BY <1>3 DEF Fetch, PageTaken, SourceEnds, GetBody, Running, storeVars
  <2>2. QED BY <2>1, InventsSame
<1>4. CASE ClientStep \/ (\E s \in Sources : ProviderPublishes(s))
  <2>1. UNCHANGED <<baseline, before, filed, staged>>
    BY <1>4 DEF ClientStep, ProviderPublishes, storeVars
  <2>2. CASE run # None
    BY <2>1, <2>2, InventsSame
  <2>3. CASE run = None
    <3>1. run' = None
      <4>1. ~ ClientStep
        <5>1. SUFFICES ASSUME ClientStep PROVE FALSE
          OBVIOUS
        <5>2. call # None
          BY <5>1, Moves DEF ClientStep, PInv, TypeInvariant, ClientInv
        <5>3. QED BY <2>3, <5>2 DEF PInv, Position
      <4>2. QED BY <1>4, <2>3, <4>1 DEF ProviderPublishes
    <3>2. NothingInvented'
      BY <2>1, SaysNoMore DEF Invents
    <3>3. QED BY <3>1, <3>2 DEF Invents, NothingFiledAhead
  <2>4. QED BY <2>2, <2>3
<1>5. CASE Record
  BY <1>5, RecordInventsNothing
<1>6. CASE Dispatches
  <2>1. PICK note : DispatchCandidate(note) \/ DropInvalid(note)
    BY <1>6 DEF Dispatches
  <2>2. CASE DispatchCandidate(note)
    <3>1. /\ run # None /\ run.step = "dispatch" /\ File({note})
          /\ UNCHANGED <<baseline, before>>
      BY <2>2 DEF DispatchCandidate, Running
    <3>2. QED BY <3>1, FilingInventsNothing
  <2>3. CASE DropInvalid(note)
    <3>1. /\ run # None /\ UNCHANGED <<baseline, before, filed>>
          /\ \A s \in Sources : staged'[s] \subseteq staged[s]
      BY <2>3 DEF DropInvalid, Running, storeVars
    <3>2. NothingInvented'
      BY <3>1, SaysNoMore DEF Invents
    <3>3. FilesStaged
      BY <3>1 DEF FilesStaged
    <3>4. QED BY <3>1, <3>2, <3>3, AheadKept DEF Invents
  <2>4. QED BY <2>1, <2>2, <2>3
<1>7. CASE WriteExceptions
  <2> DEFINE notes == UNION {staged[s] : s \in CollectorSources}
  <2>1. /\ run # None /\ run.step = "dispatch" /\ File(notes)
        /\ UNCHANGED <<baseline, before>>
    BY <1>7 DEF WriteExceptions, Running
  <2>2. QED BY <2>1, FilingInventsNothing
<1>8. CASE DispatchRaises
  <2>1. run # None /\ LoseStaged(CollectorSources) /\ UNCHANGED <<baseline, before, filed>>
    BY <1>8 DEF DispatchRaises, Running, storeVars
  <2>2. QED BY <2>1, LosingInventsNothing
<1>9. CASE FinishRun
  <2>1. run # None /\ UNCHANGED <<baseline, before, filed, staged>>
    BY <1>9 DEF FinishRun, Running, storeVars
  <2>2. QED BY <2>1, InventsSame
<1>10. CASE Kill
  <2>1. run # None /\ LoseStaged(Sources) /\ UNCHANGED <<baseline, before, filed>>
    BY <1>10 DEF Kill, storeVars
  <2>2. QED BY <2>1, LosingInventsNothing
<1>11. QED
  BY <1>1, <1>2, <1>3, <1>4, <1>5, <1>6, <1>7, <1>8, <1>9, <1>10, WaitingEnds DEF Next, Works, Dispatches

(* What a run files or stages is of differences that are there, for every  *)
(* pair of snapshots and every plan.                                       *)
THEOREM NotesAreTrue == Spec => []NothingInvented
<1>1. Init => Heard /\ Invents
  BY DEF Init, Heard, StagedOf, Settled, Invents, NothingInvented, NothingFiledAhead
<1>2. Invents => NothingInvented
  BY DEF Invents
<1>3. QED BY <1>1, <1>2, PInvInit, PInvKept, HeardKept, InventsKept, PTL DEF Spec
=============================================================================
