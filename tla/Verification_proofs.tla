------------------------- MODULE Verification_proofs ------------------------
(***************************************************************************)
(* Proofs about one event's chains.  A branch that can still land carries  *)
(* main's chain exactly as it is, with what was added behind it (Fits):    *)
(* that is what the add/add conflict of the next seq file guarantees, and  *)
(* what makes the merged chains those of one serial writer.                *)
(***************************************************************************)
EXTENDS Verification, LeastNumber, SequenceTheorems

Earned(t) == OfficialStatement \/ SecondSourceBy(t)

Serial(as) == \A n \in DOMAIN as : \A m \in 1 .. n - 1 : Follows(as[n], as[m])

InTime(vs) == \A n \in DOMAIN vs : \A m \in 1 .. n : vs[m].at <= vs[n].at

By(records, t) == \A n \in DOMAIN records : records[n].at <= t

(* One chain goes on as another began.                                     *)
Extends(chain, main) ==
  /\ Len(main) <= Len(chain)
  /\ \A n \in 1 .. Len(main) : chain[n] = main[n]

(* What a branch of a verdict adds.                                        *)
Adjudges(f) ==
  /\ Len(f.chain) = f.seq
  /\ InTime(f.chain)
  /\ f.chain[f.seq].by = "verifier" =>
       f.seq = 1 /\ f.chain[f.seq].verdict = "confirm" /\ Earned(f.chain[f.seq].at)

(* What branch f of b must be to land on main.                             *)
Fits(b, f) ==
  /\ f.seq <= Len(Main(b)) + 1
  /\ By(f.chain, now)
  /\ f.seq > Len(Main(b)) => Extends(f.chain, Main(b))
  /\ b \in Collects => Serial(f.chain)
  /\ b \notin Collects => Adjudges(f)

BranchesFit == \A b \in Branches : branch[b] # None => Fits(b, branch[b])

Past == By(annotations, now) /\ By(verdicts, now)

IInv ==
  /\ TypeInvariant
  /\ Past
  /\ BranchesFit
  /\ VerdictsInOrder
  /\ OneSerialChain
  /\ VerifierNeverOverrules
  /\ ConfirmEarned

-----------------------------------------------------------------------------
(* Chains.                                                                 *)

LEMMA MainType ==
  ASSUME TypeInvariant, NEW b
  PROVE  /\ b \in Collects => Main(b) \in Seq(Annotation)
         /\ b \notin Collects => Main(b) \in Seq(Verdict)
         /\ Len(Main(b)) \in Nat
<1>1. annotations \in Seq(Annotation) /\ verdicts \in Seq(Verdict)
  BY DEF TypeInvariant
<1>2. QED BY <1>1 DEF Main

LEMMA BranchType ==
  ASSUME TypeInvariant, NEW b \in Branches, branch[b] # None
  PROVE  /\ branch[b] \in Branch(b)
         /\ branch[b].seq \in Nat \ {0}
         /\ branch[b].since \in Nat
         /\ b \in Collects => branch[b].chain \in Seq(Annotation)
         /\ b \notin Collects => branch[b].chain \in Seq(Verdict)
         /\ Len(branch[b].chain) \in Nat
<1>1. branch[b] \in Branch(b)
  BY DEF TypeInvariant
<1>2. QED BY <1>1 DEF Branch

LEMMA ChainTypes ==
  ASSUME TypeInvariant
  PROVE  /\ \A n \in DOMAIN annotations :
              annotations[n] \in Annotation /\ annotations[n].at \in Nat
         /\ \A n \in DOMAIN verdicts :
              verdicts[n] \in Verdict /\ verdicts[n].at \in Nat
<1>1. \A n \in DOMAIN annotations : annotations[n] \in Annotation
  BY DEF TypeInvariant
<1>2. \A n \in DOMAIN verdicts : verdicts[n] \in Verdict
  BY DEF TypeInvariant
<1>3. QED BY <1>1, <1>2 DEF Annotation, Verdict

(* A chain goes on by what its tail adds.                                  *)
LEMMA Regrown ==
  ASSUME NEW S, NEW main \in Seq(S), NEW chain \in Seq(S), Extends(chain, main)
  PROVE  main \o SubSeq(chain, Len(main) + 1, Len(chain)) = chain
<1> DEFINE tail == SubSeq(chain, Len(main) + 1, Len(chain))
<1>1. /\ Len(main) \in Nat /\ Len(chain) \in Nat /\ Len(main) <= Len(chain)
      /\ \A n \in 1 .. Len(main) : chain[n] = main[n]
  BY DEF Extends
<1>2. tail \in Seq(S) /\ Len(tail) = Len(chain) - Len(main)
  <2>1. \A n \in Len(main) + 1 .. Len(chain) : chain[n] \in S
    BY <1>1, ElementOfSeq
  <2>2. QED BY <1>1, <2>1, SubSeqProperties
<1>3. \A n \in 1 .. Len(chain) - Len(main) : tail[n] = chain[Len(main) + n]
  BY <1>1
<1>4. main \o tail \in Seq(S) /\ Len(main \o tail) = Len(chain)
  BY <1>1, <1>2, ConcatProperties
<1>5. \A n \in 1 .. Len(chain) : (main \o tail)[n] = chain[n]
  <2>1. TAKE n \in 1 .. Len(chain)
  <2>2. (main \o tail)[n] = IF n <= Len(main) THEN main[n] ELSE tail[n - Len(main)]
    BY <1>1, <1>2, ConcatProperties
  <2>3. QED BY <1>1, <1>3, <2>2
<1>6. QED BY <1>4, <1>5, SeqEqual

(* A branch without a conflict lands its own chain.                        *)
LEMMA LandsItsChain ==
  ASSUME TypeInvariant, BranchesFit, NEW b \in Branches, branch[b] # None,
         ~Conflicts(b)
  PROVE  /\ Main(b) \o Added(b) = branch[b].chain
         /\ Added(b) # <<>> => Len(branch[b].chain) > Len(Main(b))
<1>1. /\ branch[b].seq \in Nat /\ Len(Main(b)) \in Nat
      /\ Len(branch[b].chain) \in Nat
  BY MainType, BranchType
<1>2. branch[b].seq = Len(Main(b)) + 1 /\ Extends(branch[b].chain, Main(b))
  BY <1>1 DEF BranchesFit, Fits, Conflicts
<1>3. Added(b) = SubSeq(branch[b].chain, Len(Main(b)) + 1, Len(branch[b].chain))
  BY <1>2 DEF Added
<1>4. Main(b) \o Added(b) = branch[b].chain
  <2>1. CASE b \in Collects
    BY <1>2, <1>3, <2>1, MainType, BranchType, Regrown
  <2>2. CASE b \notin Collects
    BY <1>2, <1>3, <2>2, MainType, BranchType, Regrown
  <2>3. QED BY <2>1, <2>2
<1>5. ASSUME ~(Len(branch[b].chain) > Len(Main(b)))
      PROVE  Added(b) = <<>>
  <2>1. Len(branch[b].chain) < Len(Main(b)) + 1
    BY <1>1, <1>5
  <2>2. QED BY <1>1, <1>3, <2>1
<1>6. QED BY <1>4, <1>5

(* A chain with one record more.                                           *)
LEMMA Longer ==
  ASSUME NEW S, NEW chain \in Seq(S), NEW r \in S
  PROVE  /\ Append(chain, r) \in Seq(S)
         /\ Len(chain) \in Nat
         /\ Len(Append(chain, r)) = Len(chain) + 1
         /\ DOMAIN chain = 1 .. Len(chain)
         /\ DOMAIN Append(chain, r) = 1 .. Len(chain) + 1
         /\ Append(chain, r)[Len(chain) + 1] = r
         /\ \A n \in 1 .. Len(chain) : Append(chain, r)[n] = chain[n]
OBVIOUS

LEMMA LongerBy ==
  ASSUME NEW S, NEW chain \in Seq(S), NEW r \in S, NEW t, By(chain, t), r.at <= t
  PROVE  By(Append(chain, r), t)
BY Longer DEF By

LEMMA LongerSerial ==
  ASSUME NEW chain \in Seq(Annotation), NEW r \in Annotation, Serial(chain),
         \A m \in DOMAIN chain : Follows(r, chain[m])
  PROVE  Serial(Append(chain, r))
<1> DEFINE k == Len(chain)
           longer == Append(chain, r)
<1>1. /\ k \in Nat /\ DOMAIN chain = 1 .. k /\ DOMAIN longer = 1 .. k + 1
      /\ longer[k + 1] = r
      /\ \A n \in 1 .. k : longer[n] = chain[n]
  BY Longer
<1> HIDE DEF k, longer
<1>2. ASSUME NEW n \in 1 .. k + 1, NEW m \in 1 .. n - 1
      PROVE  Follows(longer[n], longer[m])
  <2>1. CASE n = k + 1
    BY <1>1, <2>1
  <2>2. CASE n # k + 1
    <3>1. n \in 1 .. k /\ m \in 1 .. k
      BY <1>1, <2>2
    <3>2. Follows(chain[n], chain[m])
      BY <1>1, <3>1 DEF Serial
    <3>3. QED BY <1>1, <3>1, <3>2
  <2>3. QED BY <2>1, <2>2
<1>3. QED BY <1>1, <1>2 DEF Serial, longer

LEMMA LongerInTime ==
  ASSUME NEW chain \in Seq(Verdict), NEW r \in Verdict, InTime(chain),
         By(chain, r.at)
  PROVE  InTime(Append(chain, r))
<1> DEFINE k == Len(chain)
           longer == Append(chain, r)
<1>1. /\ k \in Nat /\ DOMAIN chain = 1 .. k /\ DOMAIN longer = 1 .. k + 1
      /\ longer[k + 1] = r
      /\ \A n \in 1 .. k : longer[n] = chain[n]
  BY Longer
<1>2. r.at <= r.at
  BY DEF Verdict
<1> HIDE DEF k, longer
<1>3. ASSUME NEW n \in 1 .. k + 1, NEW m \in 1 .. n
      PROVE  longer[m].at <= longer[n].at
  <2>1. CASE n = k + 1 /\ m = k + 1
    BY <1>1, <1>2, <2>1
  <2>2. CASE n = k + 1 /\ m # k + 1
    BY <1>1, <2>2 DEF By
  <2>3. CASE n # k + 1
    BY <1>1, <2>3 DEF InTime
  <2>4. QED BY <2>1, <2>2, <2>3
<1>4. QED BY <1>1, <1>3 DEF InTime, longer

LEMMA LongerExtends ==
  ASSUME NEW S, NEW chain \in Seq(S), NEW main \in Seq(S), NEW r \in S,
         Extends(chain, main)
  PROVE  Extends(Append(chain, r), main)
<1>1. Len(main) \in Nat /\ Len(chain) \in Nat
  OBVIOUS
<1>2. QED BY <1>1, Longer DEF Extends

LEMMA ExtendsItself ==
  ASSUME NEW S, NEW main \in Seq(S)
  PROVE  Extends(main, main)
BY DEF Extends

-----------------------------------------------------------------------------
(* What is cut from main and added to a checkout fits.                     *)

LEMMA IndependentVoice ==
  ASSUME NEW s, event.source \in Registered, Independent(s, event.source),
         event.absence => ConfirmsAbsence(s)
  PROVE  SecondSource(s)
<1>1. /\ s \in Registered
      /\ Trait[s].class # Trait[event.source].class
      /\ EffectiveLineage(s) # EffectiveLineage(event.source)
  BY DEF Independent
<1>2. \A x \in Registered : RepeatsDocs(x) => EffectiveLineage(x) = "provider-docs"
  BY DEF RepeatsDocs, EffectiveLineage
<1>3. ~(RepeatsDocs(s) /\ RepeatsDocs(event.source))
  BY <1>1, <1>2
<1>4. event.absence => Trait[s].class \in {"provider-docs", "own-probe"}
  BY DEF ConfirmsAbsence, AbsenceConfirmingClasses
<1>5. QED BY <1>1, <1>3, <1>4 DEF SecondSource

LEMMA NotItself ==
  ASSUME NEW s PROVE ~Independent(s, s)
BY DEF Independent

(* The sweep speaks only when no verdict has been given.                   *)
LEMMA UndecidedIsEmpty ==
  ASSUME TypeInvariant, Past, Undecided
  PROVE  verdicts = <<>>
<1>1. Closers(verdicts, now) = {}
  <2>1. SUFFICES ASSUME Closers(verdicts, now) # {} PROVE FALSE
    OBVIOUS
  <2>2. Status(verdicts, now) \in {"confirmed", "retracted"}
    BY <2>1 DEF Status
  <2>3. QED BY <2>2 DEF Undecided
<1>2. \A n \in DOMAIN verdicts : FALSE
  <2>1. SUFFICES ASSUME NEW n \in DOMAIN verdicts PROVE FALSE
    OBVIOUS
  <2>2. verdicts[n] \in Verdict /\ verdicts[n].at <= now
    BY DEF TypeInvariant, Past, By
  <2>3. verdicts[n].verdict = "discrepancy"
    BY <1>1, <2>2 DEF Closers, Verdict
  <2>4. DiscrepancyOpen(verdicts, annotations, now)
    BY <1>1, <2>2, <2>3 DEF DiscrepancyOpen
  <2>5. QED BY <2>4 DEF Undecided
<1>3. verdicts \in Seq(Verdict)
  BY DEF TypeInvariant
<1>4. Len(verdicts) \in Nat /\ DOMAIN verdicts = 1 .. Len(verdicts)
  BY <1>3
<1>5. Len(verdicts) = 0
  BY <1>2, <1>4
<1>6. QED BY <1>3, <1>5, EmptySeq

LEMMA TwoSourceEarns ==
  ASSUME TypeInvariant, Past, TwoSource
  PROVE  SecondSourceBy(now)
<1>1. event.source \in Registered
  BY CandidateAssumption DEF TypeInvariant
<1>2. PICK s \in Cited :
        Independent(s, event.source) /\ (event.absence => ConfirmsAbsence(s))
  BY DEF TwoSource
<1>3. s # event.source
  BY <1>2, NotItself
<1>4. PICK k \in Corroborations : s \in annotations[k].sources
  BY <1>2, <1>3 DEF Cited
<1>5. k \in DOMAIN annotations /\ annotations[k].kind = "corroboration"
  BY <1>4 DEF Corroborations
<1>6. annotations[k].at <= now
  BY <1>5 DEF Past, By
<1>7. SecondSource(s)
  BY <1>1, <1>2, IndependentVoice
<1>8. QED BY <1>4, <1>5, <1>6, <1>7 DEF SecondSourceBy

(* A branch cut now.                                                       *)
Cut(b, chain) == [seq |-> Len(Main(b)) + 1, since |-> now, chain |-> chain]

Ready(b, chain) == Cut(b, chain) \in Branch(b) /\ Fits(b, Cut(b, chain))

LEMMA StartReady ==
  ASSUME IInv, NEW b \in Collects, Start(b)
  PROVE  Ready(b, annotations) /\ CutWith(b, annotations)
<1>1. Main(b) = annotations /\ annotations \in Seq(Annotation) /\ now \in Nat
  BY DEF Main, IInv, TypeInvariant
<1>2. Cut(b, annotations) \in Branch(b)
  BY <1>1 DEF Cut, Branch
<1>3. Extends(annotations, annotations)
  BY <1>1, ExtendsItself
<1>4. Serial(annotations) /\ By(annotations, now)
  BY DEF IInv, OneSerialChain, Serial, Past
<1>5. Len(annotations) \in Nat
  BY <1>1
<1>6. Fits(b, Cut(b, annotations))
  BY <1>1, <1>3, <1>4, <1>5 DEF Fits, Cut
<1>7. QED BY <1>2, <1>6 DEF Ready, Start

LEMMA VerdictReady ==
  ASSUME IInv, NEW b, b \notin Collects, NEW r \in Verdict, r.at = now,
         r.by = "verifier" => verdicts = <<>> /\ r.verdict = "confirm" /\ Earned(now)
  PROVE  Ready(b, Append(verdicts, r))
<1> DEFINE chain == Append(verdicts, r)
<1>1. Main(b) = verdicts /\ verdicts \in Seq(Verdict) /\ now \in Nat
  BY DEF Main, IInv, TypeInvariant
<1>2. /\ chain \in Seq(Verdict) /\ Len(verdicts) \in Nat
      /\ Len(chain) = Len(verdicts) + 1 /\ chain[Len(verdicts) + 1] = r
  BY <1>1, Longer
<1>3. By(chain, now)
  <2>1. By(verdicts, now) /\ r.at <= now
    BY <1>1 DEF IInv, Past
  <2>2. QED BY <1>1, <2>1, LongerBy
<1>4. InTime(chain)
  <2>1. InTime(verdicts) /\ By(verdicts, r.at)
    BY DEF IInv, VerdictsInOrder, InTime, Past
  <2>2. QED BY <1>1, <2>1, LongerInTime
<1>5. Extends(chain, verdicts)
  BY <1>1, ExtendsItself, LongerExtends
<1> HIDE DEF chain
<1>6. Cut(b, chain) \in Branch(b)
  BY <1>1, <1>2 DEF Cut, Branch
<1>7. r.by = "verifier" => Len(verdicts) = 0
  OBVIOUS
<1>8. Adjudges(Cut(b, chain))
  BY <1>1, <1>2, <1>4, <1>7 DEF Cut, Adjudges
<1>9. Fits(b, Cut(b, chain))
  BY <1>1, <1>2, <1>3, <1>5, <1>8 DEF Fits, Cut
<1>10. QED BY <1>6, <1>9 DEF Ready, chain

LEMMA ReviewReady ==
  ASSUME IInv, NEW b \in Sweeps, Review(b)
  PROVE  \E chain : Ready(b, chain) /\ CutWith(b, chain)
<1>1. b \notin Collects
  BY BranchAssumption
<1>2. verdicts = <<>>
  BY UndecidedIsEmpty DEF Review, IInv
<1>3. now \in Nat /\ event.source \in Sources
  BY CandidateAssumption, RegistryAssumption DEF IInv, TypeInvariant
<1>4. CASE TwoSource /\ Propose(b, Confirm("two-source", Cited))
  <2>1. Confirm("two-source", Cited) \in Verdict
    BY <1>3, <1>4, RegistryAssumption DEF Confirm, Verdict, Rules, TwoSource
  <2>2. Earned(now)
    BY <1>4, TwoSourceEarns DEF Earned, IInv
  <2>3. Confirm("two-source", Cited).at = now
        /\ Confirm("two-source", Cited).verdict = "confirm"
    BY DEF Confirm
  <2>4. Ready(b, Append(verdicts, Confirm("two-source", Cited)))
    BY <1>1, <1>2, <2>1, <2>2, <2>3, VerdictReady
  <2>5. QED BY <1>4, <2>4 DEF Propose
<1>5. CASE ProviderOfficial /\ Propose(b, Confirm("provider-official", {event.source}))
  <2>1. Confirm("provider-official", {event.source}) \in Verdict
    BY <1>3 DEF Confirm, Verdict, Rules
  <2>2. Earned(now)
    BY <1>5 DEF Earned, ProviderOfficial, OfficialStatement, OfficialClasses
  <2>3. Confirm("provider-official", {event.source}).at = now
        /\ Confirm("provider-official", {event.source}).verdict = "confirm"
    BY DEF Confirm
  <2>4. Ready(b, Append(verdicts, Confirm("provider-official", {event.source})))
    BY <1>1, <1>2, <2>1, <2>2, <2>3, VerdictReady
  <2>5. QED BY <1>5, <2>4 DEF Propose
<1>6. QED BY <1>4, <1>5 DEF Review

LEMMA JudgeReady ==
  ASSUME IInv, NEW b \in Reviews, Judge(b)
  PROVE  \E chain : Ready(b, chain) /\ CutWith(b, chain)
<1> DEFINE known == KnownSources(annotations)
<1>1. b \notin Collects
  BY BranchAssumption
<1>2. now \in Nat /\ event.source \in Sources
  BY CandidateAssumption, RegistryAssumption DEF IInv, TypeInvariant
<1>3. known \subseteq Sources
  <2>1. \A n \in DOMAIN annotations : annotations[n] \in Annotation
    BY DEF IInv, TypeInvariant
  <2>2. QED BY <1>2, <2>1 DEF KnownSources, Annotation
<1>4. PICK verdict \in {"confirm", "reject", "discrepancy"},
           rule \in {"two-source", "direct-probe", None},
           cited \in {{}, known} :
        Propose(b, Human(verdict, rule, cited))
  BY DEF Judge
<1> HIDE DEF known
<1>5. Human(verdict, rule, cited) \in Verdict
  BY <1>2, <1>3 DEF Human, Verdict, Rules
<1>6. Human(verdict, rule, cited).at = now /\ Human(verdict, rule, cited).by = "review"
  BY DEF Human
<1>7. Ready(b, Append(verdicts, Human(verdict, rule, cited)))
  BY <1>1, <1>5, <1>6, VerdictReady
<1>8. QED BY <1>4, <1>7 DEF Propose

(* What a run adds follows all that its checkout has, itself included.     *)
Adds(b, r) ==
  /\ branch[b] # None
  /\ r \in Annotation /\ r.at <= now
  /\ \A m \in DOMAIN branch[b].chain : Follows(r, branch[b].chain[m])
  /\ branch' = [branch EXCEPT ![b].chain = Append(@, r)]
  /\ UNCHANGED <<now, event, mainVars>>

LEMMA CollectAdds ==
  ASSUME IInv, NEW b \in Collects, NEW from \in Evidence, NEW at \in 0 .. now,
         Collect(b, from, at)
  PROVE  \E r : Adds(b, r)
<1> DEFINE as == branch[b].chain
<1>1. PICK a \in Attach(as, from) \union Damp(as, from, at)
                   \union {[kind |-> "discrepancy", sources |-> from]} :
        branch' = [branch EXCEPT
          ![b].chain = Append(@, [kind |-> a.kind, sources |-> a.sources, at |-> at])]
  BY DEF Collect
<1> DEFINE r == [kind |-> a.kind, sources |-> a.sources, at |-> at]
<1>2. from \subseteq Sources /\ now \in Nat /\ at \in Nat /\ at <= now
  BY CandidateAssumption, RegistryAssumption DEF IInv, TypeInvariant
<1>3. a.kind \in AnnotationKinds /\ a.sources \subseteq Sources
  BY <1>1, <1>2 DEF Attach, Damp, AnnotationKinds
<1>4. Flapped(as) => a.kind \in {"flap", "discrepancy"}
  BY <1>1 DEF Attach, Damp
<1>5. a.kind \in {"corroboration", "mirror-corroborated"} =>
        a.sources \intersect KnownSources(as) = {}
  BY <1>1 DEF Attach, Damp
<1> HIDE DEF as
<1>6. r \in Annotation /\ r.at <= now
  BY <1>2, <1>3 DEF Annotation
<1>7. ASSUME NEW m \in DOMAIN as
      PROVE  Follows(r, as[m])
  <2>1. as[m].kind \in Flappish => Flapped(as)
    BY DEF Flapped
  <2>2. as[m].sources \subseteq KnownSources(as)
    BY DEF KnownSources
  <2>3. r.kind = a.kind /\ r.sources = a.sources
    OBVIOUS
  <2> HIDE DEF r
  <2>4. QED BY <1>4, <1>5, <2>1, <2>2, <2>3 DEF Follows
<1>8. branch[b] # None /\ UNCHANGED <<now, event, mainVars>>
  BY DEF Collect
<1>9. QED BY <1>1, <1>6, <1>7, <1>8 DEF Adds, as

-----------------------------------------------------------------------------
(* What a step does to the chains and the branches.                        *)

Quiet ==
  /\ UNCHANGED <<event, annotations, verdicts, branch>>
  /\ publications' \subseteq [surface: Surfaces, at: Nat]
  /\ now' \in Nat /\ now <= now'

Cuts == \E b \in Branches : \E chain : Ready(b, chain) /\ CutWith(b, chain)

LandsAnnotations(b) ==
  b \in Collects /\ annotations' = branch[b].chain /\ UNCHANGED verdicts

LandsVerdict(b) ==
  b \notin Collects /\ verdicts' = branch[b].chain /\ UNCHANGED annotations

Lifts(b) ==
  /\ branch[b] # None
  /\ ~Conflicts(b)
  /\ Len(branch[b].chain) > Len(Main(b))
  /\ LandsAnnotations(b) \/ LandsVerdict(b)
  /\ branch' = [branch EXCEPT ![b] = None]
  /\ UNCHANGED <<now, event, publications>>

Closes(b) ==
  /\ branch' = [branch EXCEPT ![b] = None]
  /\ UNCHANGED <<now, event, mainVars>>

LEMMA MergeLifts ==
  ASSUME IInv, NEW b \in Branches, Merge(b)
  PROVE  Lifts(b)
<1>1. /\ branch[b] # None /\ ~Conflicts(b) /\ Added(b) # <<>>
      /\ annotations' = MergedAnnotations(b) /\ verdicts' = MergedVerdicts(b)
      /\ branch' = [branch EXCEPT ![b] = None]
      /\ UNCHANGED <<now, event, publications>>
  BY DEF Merge, Lands
<1>2. /\ Main(b) \o Added(b) = branch[b].chain
      /\ Len(branch[b].chain) > Len(Main(b))
  BY <1>1, LandsItsChain DEF IInv
<1>3. CASE b \in Collects
  BY <1>1, <1>2, <1>3 DEF Lifts, LandsAnnotations, MergedAnnotations, MergedVerdicts, Main
<1>4. CASE b \notin Collects
  BY <1>1, <1>2, <1>4 DEF Lifts, LandsVerdict, MergedAnnotations, MergedVerdicts, Main
<1>5. QED BY <1>3, <1>4

LEMMA Steps ==
  ASSUME IInv, [Next]_vars
  PROVE  \/ Quiet
         \/ Cuts
         \/ \E b \in Collects : \E r : Adds(b, r)
         \/ \E b \in Branches : Lifts(b) \/ Closes(b)
<1>1. now \in Nat /\ publications \subseteq [surface: Surfaces, at: Nat]
  BY DEF IInv, TypeInvariant
<1>2. CASE UNCHANGED vars
  BY <1>1, <1>2 DEF vars, mainVars, Quiet
<1>3. CASE Tick
  BY <1>1, <1>3 DEF Tick, mainVars, Quiet
<1>4. CASE \E surface \in Surfaces : Publish(surface)
  BY <1>1, <1>4 DEF Publish, Quiet
<1>5. ASSUME NEW b \in Branches, Merge(b)
      PROVE  Lifts(b)
  BY <1>5, MergeLifts
<1>6. ASSUME NEW b \in Branches, Abandon(b)
      PROVE  Closes(b)
  BY <1>6 DEF Abandon, mainVars, Closes
<1>7. ASSUME NEW b \in Collects, Start(b)
      PROVE  Cuts
  BY <1>7, StartReady DEF Cuts, Branches
<1>8. ASSUME NEW b \in Collects, NEW from \in Evidence, NEW at \in 0 .. now,
             Collect(b, from, at)
      PROVE  \E r : Adds(b, r)
  BY <1>8, CollectAdds
<1>9. ASSUME NEW b \in Sweeps, Review(b)
      PROVE  Cuts
  BY <1>9, ReviewReady DEF Cuts, Branches
<1>10. ASSUME NEW b \in Reviews, Judge(b)
       PROVE  Cuts
  BY <1>10, JudgeReady DEF Cuts, Branches
<1>11. QED
  BY <1>2, <1>3, <1>4, <1>5, <1>6, <1>7, <1>8, <1>9, <1>10 DEF Next

(* Evidence on record stays on record.                                     *)
LEMMA EarnedLasts ==
  ASSUME TypeInvariant, TypeInvariant', UNCHANGED event, Extends(annotations', annotations),
         NEW t, Earned(t)
  PROVE  Earned(t)'
<1>1. CASE OfficialStatement
  BY <1>1 DEF OfficialStatement, Earned
<1>2. CASE SecondSourceBy(t)
  <2>1. PICK k \in DOMAIN annotations :
          /\ annotations[k].kind = "corroboration"
          /\ annotations[k].at <= t
          /\ \E s \in annotations[k].sources : SecondSource(s)
    BY <1>2 DEF SecondSourceBy
  <2>2. k \in DOMAIN annotations' /\ annotations'[k] = annotations[k]
    <3>1. annotations \in Seq(Annotation) /\ annotations' \in Seq(Annotation)
      BY DEF TypeInvariant
    <3>2. QED BY <3>1 DEF Extends
  <2>3. \A s : SecondSource(s) => SecondSource(s)'
    BY DEF SecondSource, RepeatsDocs
  <2>4. SecondSourceBy(t)'
    BY <2>1, <2>2, <2>3 DEF SecondSourceBy
  <2>5. QED BY <2>4 DEF Earned
<1>3. QED BY <1>1, <1>2 DEF Earned

-----------------------------------------------------------------------------
(* Preservation.                                                           *)

(* A branch goes on fitting while main is not in its way.                  *)
LEMMA FitsLasts ==
  ASSUME IInv, TypeInvariant', NEW b \in Branches, branch[b] # None,
         branch'[b] = branch[b], now' \in Nat, now <= now', UNCHANGED event,
         Extends(annotations', annotations),
         \/ Main(b)' = Main(b)
         \/ Len(Main(b)') > Len(Main(b))
  PROVE  Fits(b, branch[b])'
<1> DEFINE f == branch[b]
<1>1. /\ f.seq \in Nat /\ now \in Nat
      /\ Len(Main(b)) \in Nat /\ Len(Main(b)') \in Nat
      /\ \A m \in DOMAIN f.chain : f.chain[m].at \in Nat
  <2>1. f.chain \in Seq(Annotation) \/ f.chain \in Seq(Verdict)
    BY BranchType DEF IInv
  <2>2. \A m \in DOMAIN f.chain : f.chain[m] \in Annotation \/ f.chain[m] \in Verdict
    <3> HIDE DEF f
    <3>1. QED BY <2>1
  <2>3. \A m \in DOMAIN f.chain : f.chain[m].at \in Nat
    BY <2>2 DEF Annotation, Verdict
  <2>4. Len(Main(b)') \in Nat
    <3>1. annotations' \in Seq(Annotation) /\ verdicts' \in Seq(Verdict)
      BY DEF TypeInvariant
    <3>2. QED BY <3>1 DEF Main
  <2>5. QED BY <2>3, <2>4, BranchType, MainType DEF IInv, TypeInvariant
<1>2. Fits(b, f)
  BY DEF IInv, BranchesFit
<1>3. f.seq <= Len(Main(b)') + 1
  BY <1>1, <1>2 DEF Fits
<1>4. By(f.chain, now')
  BY <1>1, <1>2 DEF Fits, By
<1>5. f.seq > Len(Main(b)') => Extends(f.chain, Main(b)')
  BY <1>1, <1>2 DEF Fits
<1>6. b \in Collects => Serial(f.chain)
  BY <1>2 DEF Fits
<1>7. b \notin Collects => Adjudges(f)'
  <2>1. SUFFICES ASSUME b \notin Collects PROVE Adjudges(f)'
    OBVIOUS
  <2>2. Adjudges(f)
    BY <1>2, <2>1 DEF Fits
  <2>3. \A t : Earned(t) => Earned(t)'
    BY EarnedLasts DEF IInv
  <2>4. QED BY <2>2, <2>3 DEF Adjudges, InTime
<1>8. QED
  BY <1>3, <1>4, <1>5, <1>6, <1>7 DEF Fits, By, Extends, Serial, Follows

LEMMA QuietKeeps ==
  ASSUME IInv, Quiet
  PROVE  IInv'
<1>1. UNCHANGED <<event, annotations, verdicts, branch>> /\ now' \in Nat /\ now <= now'
      /\ now \in Nat
  BY DEF Quiet, IInv, TypeInvariant
<1>2. Past'
  <2>1. /\ \A n \in DOMAIN annotations : annotations[n].at \in Nat
        /\ \A n \in DOMAIN verdicts : verdicts[n].at \in Nat
    BY ChainTypes DEF IInv
  <2>2. QED BY <1>1, <2>1 DEF IInv, Past, By
<1>3. TypeInvariant'
  BY <1>1 DEF Quiet, IInv, TypeInvariant, Branch
<1>4. BranchesFit'
  <2>1. Extends(annotations', annotations)
    BY <1>1, ExtendsItself DEF IInv, TypeInvariant
  <2>2. \A b \in Branches : Main(b)' = Main(b)
    BY <1>1 DEF Main
  <2>3. ASSUME NEW b \in Branches, branch'[b] # None
        PROVE  Fits(b, branch[b])'
    BY <1>1, <1>3, <2>1, <2>2, <2>3, FitsLasts
  <2>4. QED BY <2>3 DEF BranchesFit
<1>5. QED
  BY <1>1, <1>2, <1>3, <1>4 DEF IInv, VerdictsInOrder, OneSerialChain,
     VerifierNeverOverrules, ConfirmEarned, Follows, OfficialStatement,
     SecondSourceBy, SecondSource, RepeatsDocs

(* A step that leaves main alone keeps what main satisfies.                *)
LEMMA MainKeeps ==
  ASSUME IInv, UNCHANGED <<now, event, annotations, verdicts, publications>>,
         TypeInvariant', BranchesFit'
  PROVE  IInv'
BY DEF IInv, Past, By, VerdictsInOrder, OneSerialChain, VerifierNeverOverrules,
   ConfirmEarned, Follows, OfficialStatement, SecondSourceBy, SecondSource, RepeatsDocs

(* So that it matters only what the step makes of its own branch.          *)
LEMMA OneBranchKeeps ==
  ASSUME IInv, NEW b \in Branches, NEW f,
         f # None => f \in Branch(b) /\ Fits(b, f),
         branch' = [branch EXCEPT ![b] = f],
         UNCHANGED <<now, event, annotations, verdicts, publications>>
  PROVE  IInv'
<1>1. /\ branch' = [c \in Branches |-> branch'[c]]
      /\ branch'[b] = f
      /\ \A c \in Branches \ {b} : branch'[c] = branch[c]
  BY DEF IInv, TypeInvariant
<1>2. TypeInvariant'
  <2>1. \A c \in Branches : branch'[c] \in Branch(c) \union {None}
    BY <1>1 DEF IInv, TypeInvariant
  <2>2. QED BY <1>1, <2>1 DEF IInv, TypeInvariant, Branch
<1>3. BranchesFit'
  <2>1. ASSUME NEW c \in Branches, branch'[c] # None
        PROVE  Fits(c, branch'[c])
    BY <1>1, <2>1 DEF IInv, BranchesFit
  <2>2. \A c : Main(c)' = Main(c)
    BY DEF Main
  <2>3. \A t : Earned(t)' <=> Earned(t)
    BY DEF Earned, OfficialStatement, SecondSourceBy, SecondSource, RepeatsDocs
  <2>4. QED
    BY <2>1, <2>2, <2>3 DEF BranchesFit, Fits, Adjudges, By, Extends, Serial,
       Follows, InTime
<1>4. QED BY <1>2, <1>3, MainKeeps

LEMMA CutKeeps ==
  ASSUME IInv, NEW b \in Branches, NEW chain, Ready(b, chain), CutWith(b, chain)
  PROVE  IInv'
<1>1. /\ Cut(b, chain) \in Branch(b) /\ Fits(b, Cut(b, chain))
      /\ branch' = [branch EXCEPT ![b] = Cut(b, chain)]
      /\ UNCHANGED <<now, event, annotations, verdicts, publications>>
  BY DEF Ready, CutWith, Cut, mainVars
<1>2. QED BY <1>1, OneBranchKeeps

LEMMA AddsKeeps ==
  ASSUME IInv, NEW b \in Collects, NEW r, Adds(b, r)
  PROVE  IInv'
<1> DEFINE old == branch[b]
           new == [old EXCEPT !.chain = Append(@, r)]
<1>1. /\ old # None /\ r \in Annotation /\ r.at <= now
      /\ \A m \in DOMAIN old.chain : Follows(r, old.chain[m])
      /\ branch' = [branch EXCEPT ![b] = new]
      /\ UNCHANGED <<now, event, annotations, verdicts, publications>>
  BY DEF Adds, mainVars
<1>2. b \in Branches /\ Main(b) = annotations
  BY DEF Branches, Main
<1>3. old \in Branch(b) /\ old.chain \in Seq(Annotation) /\ Fits(b, old)
  BY <1>1, <1>2, BranchType DEF IInv, BranchesFit
<1>4. annotations \in Seq(Annotation)
  BY DEF IInv, TypeInvariant
<1>5. /\ new.seq = old.seq /\ new.chain = Append(old.chain, r)
      /\ new \in Branch(b)
  <2>1. Append(old.chain, r) \in Seq(Annotation)
    BY <1>1, <1>3, Longer
  <2>2. QED BY <1>3, <2>1 DEF Branch
<1> HIDE DEF old, new
<1>6. Fits(b, new)
  <2>1. By(new.chain, now)
    BY <1>1, <1>3, <1>5, LongerBy DEF Fits
  <2>2. Serial(new.chain)
    BY <1>1, <1>3, <1>5, LongerSerial DEF Fits
  <2>3. Extends(old.chain, annotations) => Extends(new.chain, annotations)
    BY <1>1, <1>3, <1>4, <1>5, LongerExtends
  <2>4. QED BY <1>2, <1>3, <1>5, <2>1, <2>2, <2>3 DEF Fits
<1>7. QED BY <1>1, <1>2, <1>5, <1>6, OneBranchKeeps

LEMMA ClosesKeeps ==
  ASSUME IInv, NEW b \in Branches, Closes(b)
  PROVE  IInv'
<1>1. /\ branch' = [branch EXCEPT ![b] = None]
      /\ UNCHANGED <<now, event, annotations, verdicts, publications>>
  BY DEF Closes, mainVars
<1>2. QED BY <1>1, OneBranchKeeps

(* What a landing makes of main.                                           *)
LEMMA Landed ==
  ASSUME IInv, NEW b \in Branches, Lifts(b)
  PROVE  /\ TypeInvariant' /\ Past'
         /\ Extends(annotations', annotations) /\ Extends(verdicts', verdicts)
         /\ b \in Collects => Len(annotations') > Len(annotations)
         /\ b \notin Collects =>
              /\ Len(verdicts') = Len(verdicts) + 1
              /\ branch[b].seq = Len(verdicts')
              /\ branch[b].chain = verdicts'
<1>1. /\ UNCHANGED <<now, event, publications>>
      /\ branch[b] # None /\ ~Conflicts(b)
      /\ Len(branch[b].chain) > Len(Main(b))
      /\ LandsAnnotations(b) \/ LandsVerdict(b)
      /\ branch' = [branch EXCEPT ![b] = None]
  BY DEF Lifts
<1>2. annotations \in Seq(Annotation) /\ verdicts \in Seq(Verdict)
  BY DEF IInv, TypeInvariant
<1>3. /\ b \in Collects => branch[b].chain \in Seq(Annotation)
      /\ b \notin Collects => branch[b].chain \in Seq(Verdict)
      /\ branch[b].seq \in Nat /\ Len(Main(b)) \in Nat
  BY <1>1, BranchType, MainType DEF IInv
<1>4. Fits(b, branch[b])
  BY <1>1 DEF IInv, BranchesFit
<1>5. branch[b].seq = Len(Main(b)) + 1 /\ Extends(branch[b].chain, Main(b))
  BY <1>1, <1>3, <1>4 DEF Fits, Conflicts
<1>6. annotations' \in Seq(Annotation) /\ verdicts' \in Seq(Verdict)
  BY <1>1, <1>2, <1>3 DEF LandsAnnotations, LandsVerdict
<1>7. TypeInvariant'
  <2>1. /\ branch' = [c \in Branches |-> branch'[c]]
        /\ \A c \in Branches : branch'[c] \in Branch(c) \union {None}
    BY <1>1 DEF IInv, TypeInvariant
  <2>2. QED BY <1>1, <1>6, <2>1 DEF IInv, TypeInvariant, Branch
<1>8. Past'
  BY <1>1, <1>4 DEF IInv, Past, By, Fits, LandsAnnotations, LandsVerdict
<1>9. CASE b \in Collects
  <2>1. annotations' = branch[b].chain /\ verdicts' = verdicts /\ Main(b) = annotations
    BY <1>1, <1>9 DEF LandsAnnotations, LandsVerdict, Main
  <2>2. Extends(verdicts, verdicts)
    BY <1>2, ExtendsItself
  <2>3. QED BY <1>1, <1>5, <1>7, <1>8, <1>9, <2>1, <2>2
<1>10. CASE b \notin Collects
  <2>1. verdicts' = branch[b].chain /\ annotations' = annotations /\ Main(b) = verdicts
    BY <1>1, <1>10 DEF LandsAnnotations, LandsVerdict, Main
  <2>2. Extends(annotations, annotations)
    BY <1>2, ExtendsItself
  <2>3. Len(branch[b].chain) = branch[b].seq
    BY <1>4, <1>10 DEF Fits, Adjudges
  <2>4. QED BY <1>1, <1>5, <1>7, <1>8, <1>10, <2>1, <2>2, <2>3
<1>11. QED BY <1>9, <1>10

LEMMA OthersStillFit ==
  ASSUME IInv, NEW b \in Branches, Lifts(b)
  PROVE  BranchesFit'
<1>1. /\ UNCHANGED <<now, event>> /\ branch' = [branch EXCEPT ![b] = None]
      /\ LandsAnnotations(b) \/ LandsVerdict(b)
  BY DEF Lifts
<1>2. /\ TypeInvariant' /\ Extends(annotations', annotations)
      /\ b \in Collects => Len(annotations') > Len(annotations)
      /\ b \notin Collects => Len(verdicts') = Len(verdicts) + 1
  BY Landed
<1>3. now \in Nat /\ now <= now' /\ Len(verdicts) \in Nat
  BY <1>1 DEF IInv, TypeInvariant
<1>4. ASSUME NEW c \in Branches, branch'[c] # None
      PROVE  Fits(c, branch[c])'
  <2>1. branch[c] # None /\ branch'[c] = branch[c]
    BY <1>1, <1>4 DEF IInv, TypeInvariant
  <2>2. \/ Main(c)' = Main(c)
        \/ Len(Main(c)') > Len(Main(c))
    BY <1>1, <1>2, <1>3 DEF Main, LandsAnnotations, LandsVerdict
  <2>3. QED BY <1>1, <1>2, <1>3, <2>1, <2>2, FitsLasts
<1>5. QED BY <1>4 DEF BranchesFit

LEMMA LiftsKeeps ==
  ASSUME IInv, NEW b \in Branches, Lifts(b)
  PROVE  IInv'
<1>1. /\ UNCHANGED <<now, event, publications>>
      /\ branch[b] # None
      /\ LandsAnnotations(b) \/ LandsVerdict(b)
  BY DEF Lifts
<1>2. Fits(b, branch[b])
  BY <1>1 DEF IInv, BranchesFit
<1>3. /\ TypeInvariant' /\ Past'
      /\ Extends(annotations', annotations) /\ Extends(verdicts', verdicts)
      /\ b \notin Collects =>
           /\ Len(verdicts') = Len(verdicts) + 1
           /\ branch[b].seq = Len(verdicts')
           /\ branch[b].chain = verdicts'
  BY Landed
<1>4. VerdictsInOrder'
  BY <1>1, <1>2, <1>3 DEF LandsAnnotations, LandsVerdict, Fits, Adjudges, InTime, IInv,
     VerdictsInOrder
<1>5. OneSerialChain'
  BY <1>1, <1>2, <1>3 DEF LandsAnnotations, LandsVerdict, Fits, Serial, IInv,
     OneSerialChain, Follows
<1>6. verdicts \in Seq(Verdict) /\ verdicts' \in Seq(Verdict)
  BY <1>3 DEF IInv, TypeInvariant
<1>7. ASSUME NEW n \in DOMAIN verdicts', verdicts'[n].by = "verifier"
      PROVE  n = 1 /\ Earned(verdicts'[n].at)
  <2>1. CASE n \in DOMAIN verdicts
    <3>1. verdicts'[n] = verdicts[n]
      BY <1>3, <1>6, <2>1 DEF Extends
    <3>2. QED
      BY <1>7, <2>1, <3>1 DEF IInv, VerifierNeverOverrules, ConfirmEarned, Earned
  <2>2. CASE n \notin DOMAIN verdicts
    <3>1. b \notin Collects
      BY <1>1, <2>2, <1>7 DEF LandsAnnotations, LandsVerdict
    <3>2. n = Len(verdicts')
      BY <1>3, <1>6, <2>2, <3>1
    <3>3. Adjudges(branch[b])
      BY <1>2, <3>1 DEF Fits
    <3>4. QED BY <1>3, <1>7, <3>1, <3>2, <3>3 DEF Adjudges
  <2>3. QED BY <2>1, <2>2
<1>8. VerifierNeverOverrules'
  BY <1>7 DEF VerifierNeverOverrules
<1>9. ConfirmEarned'
  <2>1. \A t : Earned(t) => Earned(t)'
    BY <1>1, <1>3, EarnedLasts DEF IInv
  <2>2. \A n \in DOMAIN verdicts' :
          verdicts'[n].by = "verifier" => Earned(verdicts[n].at)'
    BY <1>7, <2>1
  <2>3. QED BY <2>2 DEF ConfirmEarned, Earned
<1>10. QED
  BY <1>3, <1>4, <1>5, <1>8, <1>9, OthersStillFit DEF IInv

-----------------------------------------------------------------------------
(* The theorems.                                                           *)

LEMMA Initially == Init => IInv
<1> SUFFICES ASSUME Init PROVE IInv
  OBVIOUS
<1>1. /\ now = 0 /\ event \in Candidates
      /\ annotations = <<>> /\ verdicts = <<>> /\ publications = {}
      /\ branch = [b \in Branches |-> None]
  BY DEF Init
<1>2. TypeInvariant
  BY <1>1 DEF TypeInvariant
<1>3. Past /\ VerdictsInOrder /\ OneSerialChain /\ VerifierNeverOverrules /\ ConfirmEarned
  BY <1>1 DEF Past, By, VerdictsInOrder, OneSerialChain, VerifierNeverOverrules,
     ConfirmEarned
<1>4. BranchesFit
  BY <1>1 DEF BranchesFit
<1>5. QED BY <1>2, <1>3, <1>4 DEF IInv

LEMMA Preserved == IInv /\ [Next]_vars => IInv'
<1> SUFFICES ASSUME IInv, [Next]_vars PROVE IInv'
  OBVIOUS
<1>1. \/ Quiet
      \/ Cuts
      \/ \E b \in Collects : \E r : Adds(b, r)
      \/ \E b \in Branches : Lifts(b) \/ Closes(b)
  BY Steps
<1>2. CASE Quiet
  BY <1>2, QuietKeeps
<1>3. CASE Cuts
  BY <1>3, CutKeeps DEF Cuts
<1>4. CASE \E b \in Collects : \E r : Adds(b, r)
  BY <1>4, AddsKeeps
<1>5. ASSUME NEW b \in Branches, Lifts(b) \/ Closes(b)
      PROVE  IInv'
  BY <1>5, ClosesKeeps, LiftsKeeps
<1>6. QED BY <1>1, <1>2, <1>3, <1>4, <1>5

(* The inductive invariant: types, no record from the future, and branches *)
(* that fit behind the chains they were cut from.                          *)
THEOREM Invariant == Spec => []IInv
<1>1. Init => IInv
  BY Initially
<1>2. QED BY <1>1, Preserved, PTL DEF Spec

(* Every record on main and on a branch has the shape its schema pins.     *)
THEOREM RecordsWellFormed == Spec => []TypeInvariant
<1>1. IInv => TypeInvariant
  BY DEF IInv
<1>2. QED BY <1>1, Invariant, PTL

(* The verifier's verdict is always the first of its chain, so a reject    *)
(* stands even when the sweep that raced it never saw it.                  *)
THEOREM RejectsStand == Spec => []VerifierNeverOverrules
<1>1. IInv => VerifierNeverOverrules
  BY DEF IInv
<1>2. QED BY <1>1, Invariant, PTL

(* Landed verdicts are in time order, so folding by time is folding by     *)
(* seq.                                                                    *)
THEOREM VerdictsInTimeOrder == Spec => []VerdictsInOrder
<1>1. IInv => VerdictsInOrder
  BY DEF IInv
<1>2. QED BY <1>1, Invariant, PTL

(* Annotations made on several checkouts read as one collector's chain.    *)
THEOREM ChainsSerial == Spec => []OneSerialChain
<1>1. IInv => OneSerialChain
  BY DEF IInv
<1>2. QED BY <1>1, Invariant, PTL

(* The verifier confirms official statements and independently             *)
(* corroborated ones, for every registry.                                  *)
THEOREM ConfirmsEarned == Spec => []ConfirmEarned
<1>1. IInv => ConfirmEarned
  BY DEF IInv
<1>2. QED BY <1>1, Invariant, PTL

-----------------------------------------------------------------------------
(* The merged chains implement the standing of the event.                  *)

Ordered(vs) ==
  vs \in Seq(Verdict) /\ \A n \in DOMAIN vs : \A m \in 1 .. n : vs[m].at <= vs[n].at

Outcome(v) == IF v.verdict = "confirm" THEN "confirmed" ELSE "retracted"

LEMMA OrderedParts ==
  ASSUME NEW vs, Ordered(vs)
  PROVE  /\ Len(vs) \in Nat /\ DOMAIN vs = 1 .. Len(vs)
         /\ \A n \in DOMAIN vs : vs[n] \in Verdict /\ vs[n].at \in Nat
<1>1. vs \in Seq(Verdict)
  BY DEF Ordered
<1>2. \A n \in DOMAIN vs : vs[n] \in Verdict
  BY <1>1
<1>3. QED BY <1>1, <1>2 DEF Verdict

(* In a chain that is in time order, the fold ends with the last closer.   *)
LEMMA StatusOfLast ==
  ASSUME NEW vs, Ordered(vs), NEW t, NEW n \in Closers(vs, t),
         \A m \in Closers(vs, t) : m <= n
  PROVE  Status(vs, t) = Outcome(vs[n])
<1> DEFINE C == Closers(vs, t)
           P(x) == \A m \in C \ {x} : Later(vs, x, m)
<1>1. /\ C \subseteq DOMAIN vs /\ DOMAIN vs = 1 .. Len(vs) /\ Len(vs) \in Nat
      /\ \A m \in C : vs[m].at \in Nat
  BY OrderedParts DEF Closers
<1>2. P(n)
  <2>1. SUFFICES ASSUME NEW m \in C, m # n PROVE Later(vs, n, m)
    OBVIOUS
  <2>2. m \in Nat /\ n \in Nat /\ m < n /\ m \in 1 .. n
    BY <1>1, <2>1
  <2>3. vs[m].at <= vs[n].at
    BY <1>1, <2>2 DEF Ordered
  <2>4. vs[m].at \in Nat /\ vs[n].at \in Nat
    BY <1>1
  <2>5. QED BY <2>2, <2>3, <2>4 DEF Later
<1>3. ASSUME NEW x \in C, P(x)
      PROVE  x = n
  <2>1. SUFFICES ASSUME x # n PROVE FALSE
    OBVIOUS
  <2>2. Later(vs, x, n)
    BY <1>3, <2>1
  <2>3. x \in Nat /\ n \in Nat /\ x < n /\ x \in 1 .. n
    BY <1>1, <2>1
  <2>4. vs[x].at <= vs[n].at
    BY <1>1, <2>3 DEF Ordered
  <2>5. vs[x].at \in Nat /\ vs[n].at \in Nat
    BY <1>1
  <2>6. QED BY <2>2, <2>3, <2>4, <2>5 DEF Later
<1> DEFINE last == CHOOSE x \in C : P(x)
<1>4. last \in C /\ P(last)
  <2> HIDE DEF C, P
  <2>1. \E x \in C : P(x)
    BY <1>2 DEF C
  <2>2. QED BY <2>1
<1>5. last = n
  <2> HIDE DEF last, C, P
  <2>1. QED BY <1>3, <1>4
<1>6. Status(vs, t) = IF vs[last].verdict = "confirm" THEN "confirmed" ELSE "retracted"
  BY DEF Status
<1>7. QED BY <1>5, <1>6 DEF Outcome

(* So that the status depends on what the closers are, not on how late it  *)
(* is or on what else is in the chain.                                     *)
LEMMA StatusAlike ==
  ASSUME NEW vs, NEW ws, NEW t, NEW u, Ordered(vs), Ordered(ws),
         Closers(vs, t) = Closers(ws, u),
         \A n \in Closers(vs, t) : vs[n] = ws[n]
  PROVE  Status(vs, t) = Status(ws, u)
<1>1. CASE Closers(vs, t) = {}
  BY <1>1 DEF Status
<1>2. CASE Closers(vs, t) # {}
  <2>1. Closers(vs, t) \in SUBSET (0 .. Len(vs)) /\ Len(vs) \in Nat
    BY OrderedParts DEF Closers
  <2>2. PICK n \in Closers(vs, t) : \A m \in Closers(vs, t) : m <= n
    BY <1>2, <2>1, Greatest
  <2>3. Status(vs, t) = Outcome(vs[n])
    BY <2>2, StatusOfLast
  <2>4. n \in Closers(ws, u) /\ \A m \in Closers(ws, u) : m <= n
    BY <2>2
  <2>5. Status(ws, u) = Outcome(ws[n])
    BY <2>4, StatusOfLast
  <2>6. QED BY <2>2, <2>3, <2>5
<1>3. QED BY <1>1, <1>2

(* Nothing on main is from the future, so that the folds see all of it.    *)
Rulings(vs) == {n \in DOMAIN vs : vs[n].verdict \in {"confirm", "reject"}}

LEMMA ClosersOfPast ==
  ASSUME NEW vs, NEW t, \A n \in DOMAIN vs : vs[n].at <= t
  PROVE  Closers(vs, t) = Rulings(vs)
BY DEF Closers, Rulings

LEMMA PastOrdered ==
  ASSUME IInv
  PROVE  /\ Ordered(verdicts)
         /\ Closers(verdicts, now) = Rulings(verdicts)
         /\ \A n \in DOMAIN verdicts : verdicts[n].at <= now /\ verdicts[n].at \in Nat
         /\ \A n \in DOMAIN annotations :
              annotations[n].at <= now /\ annotations[n].at \in Nat
<1>1. Past /\ VerdictsInOrder /\ TypeInvariant
  BY DEF IInv
<1>2. QED
  BY <1>1, ClosersOfPast, ChainTypes DEF Past, By, VerdictsInOrder, TypeInvariant, Ordered

LEMMA SaidOfChain ==
  ASSUME NEW vs \in Seq(Verdict), NEW r \in Verdict
  PROVE  LET Said(ws) == [n \in DOMAIN ws |-> [by |-> ws[n].by, verdict |-> ws[n].verdict]]
         IN  Said(Append(vs, r)) = Append(Said(vs), [by |-> r.by, verdict |-> r.verdict])
<1> DEFINE Said(ws) == [n \in DOMAIN ws |-> [by |-> ws[n].by, verdict |-> ws[n].verdict]]
           e == [by |-> r.by, verdict |-> r.verdict]
           S == [by : {"verifier", "review"},
                 verdict : {"confirm", "reject", "discrepancy"}]
<1>1. \A v \in Verdict : [by |-> v.by, verdict |-> v.verdict] \in S
  BY DEF Verdict
<1>2. /\ Len(vs) \in Nat /\ DOMAIN vs = 1 .. Len(vs)
      /\ DOMAIN Append(vs, r) = 1 .. Len(vs) + 1
      /\ \A n \in 1 .. Len(vs) : vs[n] \in Verdict /\ Append(vs, r)[n] = vs[n]
      /\ Append(vs, r)[Len(vs) + 1] = r
  OBVIOUS
<1>3. e \in S
  BY <1>1
<1>4. Said(vs) \in Seq(S) /\ Len(Said(vs)) = Len(vs)
  <2>1. Said(vs) \in [1 .. Len(vs) -> S]
    BY <1>1, <1>2
  <2> HIDE DEF Said, S
  <2>2. QED BY <1>2, <2>1
<1>5. Said(Append(vs, r)) \in Seq(S) /\ Len(Said(Append(vs, r))) = Len(vs) + 1
  <2>1. Said(Append(vs, r)) \in [1 .. Len(vs) + 1 -> S]
    BY <1>1, <1>2
  <2> HIDE DEF Said, S
  <2>2. QED BY <1>2, <2>1
<1>6. /\ Append(Said(vs), e) \in Seq(S)
      /\ Len(Append(Said(vs), e)) = Len(vs) + 1
      /\ \A n \in 1 .. Len(vs) : Append(Said(vs), e)[n] = Said(vs)[n]
      /\ Append(Said(vs), e)[Len(vs) + 1] = e
  <2> HIDE DEF Said, S, e
  <2>1. QED BY <1>3, <1>4, AppendProperties
<1>7. ASSUME NEW n \in 1 .. Len(vs) + 1
      PROVE  Said(Append(vs, r))[n] = Append(Said(vs), e)[n]
  <2>1. CASE n \in 1 .. Len(vs)
    <3>1. Said(Append(vs, r))[n] = Said(vs)[n]
      BY <1>2, <2>1
    <3>2. QED BY <1>6, <2>1, <3>1
  <2>2. CASE n = Len(vs) + 1
    <3>1. Said(Append(vs, r))[n] = e
      BY <1>2, <2>2
    <3>2. QED BY <1>6, <2>2, <3>1
  <2>3. QED BY <1>2, <2>1, <2>2
<1>8. Said(Append(vs, r)) = Append(Said(vs), e)
  <2> HIDE DEF Said, S, e
  <2>1. QED BY <1>5, <1>6, <1>7, SeqEqual
<1>9. QED BY <1>8

(* Time alone changes neither how the event stands nor what is in doubt.   *)
LEMMA TimeStands ==
  ASSUME IInv, UNCHANGED mainVars, now' \in Nat, now <= now'
  PROVE  UNCHANGED Public!standingVars
<1>1. /\ verdicts' = verdicts /\ annotations' = annotations
      /\ publications' = publications /\ now \in Nat
  BY DEF mainVars, IInv, TypeInvariant
<1>2. /\ \A n \in DOMAIN verdicts : verdicts[n].at <= now /\ verdicts[n].at <= now'
      /\ \A n \in DOMAIN annotations :
           annotations[n].at <= now /\ annotations[n].at <= now'
  <2>1. ASSUME NEW x \in Nat, x <= now
        PROVE  x <= now'
    BY <1>1, <2>1
  <2>2. QED BY <2>1, PastOrdered
<1>3. Closers(verdicts, now) = Closers(verdicts, now')
  BY <1>2, ClosersOfPast
<1>4. Status(verdicts, now) = Status(verdicts, now')
  BY <1>3, PastOrdered, StatusAlike
<1>5. DiscrepancyOpen(verdicts, annotations, now) = DiscrepancyOpen(verdicts, annotations, now')
  BY <1>2, <1>3 DEF DiscrepancyOpen
<1>6. QED BY <1>1, <1>4, <1>5 DEF Public!standingVars

LEMMA SurfacesOfMore ==
  ASSUME NEW ps, NEW p
  PROVE  {q.surface : q \in ps \union {p}} = {q.surface : q \in ps} \union {p.surface}
OBVIOUS

LEMMA OpenOrNot ==
  ASSUME NEW vs, NEW as, NEW t
  PROVE  DiscrepancyOpen(vs, as, t) \in BOOLEAN
BY DEF DiscrepancyOpen

(* A publication shows the event.                                          *)
LEMMA PublishShows ==
  ASSUME IInv, NEW surface \in Surfaces, Publish(surface)
  PROVE  Public!Next
<1> DEFINE p == [surface |-> surface, at |-> now]
<1>1. /\ UNCHANGED <<now, annotations, verdicts>>
      /\ publications' = publications \union {p}
      /\ LintPublications(annotations, verdicts, {p})
  BY DEF Publish
<1>2. /\ ~DiscrepancyOpen(verdicts, annotations, now)
      /\ Status(verdicts, now) # "retracted"
      /\ surface \in ConfirmedOnly => Status(verdicts, now) = "confirmed"
  BY <1>1 DEF LintPublications
<1>3. {q.surface : q \in publications'} = {q.surface : q \in publications} \union {surface}
  <2>1. p.surface = surface
    OBVIOUS
  <2> HIDE DEF p
  <2>2. QED BY <1>1, <2>1, SurfacesOfMore
<1>4. Public!Show(surface)
  BY <1>1, <1>2, <1>3 DEF Public!Show
<1>5. QED BY <1>4 DEF Public!Next, Surfaces

(* Landed annotations are a doubt or say nothing.                          *)
LEMMA AnnotationStands ==
  ASSUME IInv, NEW b \in Branches, Lifts(b), LandsAnnotations(b)
  PROVE  [Public!Next]_(Public!standingVars)
<1>1. UNCHANGED <<now, publications, verdicts>>
  BY DEF Lifts, LandsAnnotations
<1>2. /\ annotations \in Seq(Annotation) /\ annotations' \in Seq(Annotation)
      /\ Extends(annotations', annotations)
  BY Landed DEF IInv, TypeInvariant
<1>3. \A n \in DOMAIN annotations :
        n \in DOMAIN annotations' /\ annotations'[n] = annotations[n]
  BY <1>2 DEF Extends
<1>4. DiscrepancyOpen(verdicts, annotations, now)
        => DiscrepancyOpen(verdicts', annotations', now')
  BY <1>1, <1>3 DEF DiscrepancyOpen
<1>5. CASE DiscrepancyOpen(verdicts', annotations', now')
  <2>1. Public!Doubt
    BY <1>1, <1>5 DEF Public!Doubt
  <2>2. QED BY <2>1 DEF Public!Next
<1>6. CASE ~DiscrepancyOpen(verdicts', annotations', now')
  <2>1. DiscrepancyOpen(verdicts', annotations', now')
          = DiscrepancyOpen(verdicts, annotations, now)
    BY <1>4, <1>6, OpenOrNot
  <2>2. QED BY <1>1, <2>1 DEF Public!standingVars
<1>7. QED BY <1>5, <1>6

(* A landed verdict rules from then on, or is a doubt.                     *)
LEMMA VerdictStands ==
  ASSUME IInv, IInv', NEW b \in Branches, Lifts(b), LandsVerdict(b)
  PROVE  Public!Next
<1> DEFINE k == Len(verdicts)
           r == verdicts'[k + 1]
           said == [n \in DOMAIN verdicts |->
                      [by |-> verdicts[n].by, verdict |-> verdicts[n].verdict]]
           held == DiscrepancyOpen(verdicts, annotations, now)
           ruling == Status(verdicts, now)
<1>1. UNCHANGED <<now, publications, annotations>> /\ b \notin Collects
  BY DEF Lifts, LandsVerdict
<1>2. verdicts \in Seq(Verdict) /\ verdicts' \in Seq(Verdict) /\ k \in Nat
  BY DEF IInv, TypeInvariant
<1>3. /\ Len(verdicts') = k + 1 /\ Extends(verdicts', verdicts)
      /\ branch[b].seq = k + 1 /\ branch[b].chain = verdicts'
  BY <1>1, Landed
<1>4. /\ DOMAIN verdicts = 1 .. k
      /\ DOMAIN verdicts' = 1 .. k + 1
      /\ verdicts'[k + 1] = r
      /\ \A n \in 1 .. k : verdicts'[n] = verdicts[n]
      /\ r \in Verdict
  BY <1>2, <1>3 DEF Extends
<1>5. r.at \in Nat /\ r.at <= now
  BY <1>1, <1>2, <1>4 DEF Verdict, IInv, Past, By
<1> HIDE DEF r
<1>6. verdicts' = Append(verdicts, r)
  <2>1. /\ Append(verdicts, r) \in Seq(Verdict) /\ Len(Append(verdicts, r)) = k + 1
        /\ Append(verdicts, r)[k + 1] = r
        /\ \A n \in 1 .. k : Append(verdicts, r)[n] = verdicts[n]
    BY <1>2, <1>4, Longer
  <2>2. \A n \in 1 .. k + 1 : verdicts'[n] = Append(verdicts, r)[n]
    BY <1>2, <1>4, <2>1
  <2>3. QED BY <1>2, <1>3, <2>1, <2>2, SeqEqual
<1>7. \A m \in DOMAIN verdicts : verdicts[m].at <= r.at
  BY <1>2, <1>4 DEF IInv, VerdictsInOrder
<1>8. r.by = "verifier" => verdicts = <<>> /\ r.verdict = "confirm"
  <2>1. branch[b] # None
    BY DEF Lifts
  <2>2. Adjudges(branch[b])
    BY <1>1, <2>1 DEF IInv, BranchesFit, Fits
  <2>3. r.by = "verifier" => k = 0 /\ r.verdict = "confirm"
    BY <1>2, <1>3, <2>2 DEF Adjudges, r
  <2>4. QED BY <1>2, <2>3
<1>9. said' = Append(said, [by |-> r.by, verdict |-> r.verdict])
  BY <1>2, <1>4, <1>6, SaidOfChain
<1>10. UNCHANGED {p.surface : p \in publications}
  BY <1>1
<1>11. /\ Closers(verdicts, now) = Rulings(verdicts)
       /\ Closers(verdicts', now) = Rulings(verdicts')
       /\ Ordered(verdicts) /\ Ordered(verdicts')
       /\ \A n \in DOMAIN verdicts : verdicts[n].at \in Nat
  <2>1. Ordered(verdicts') /\ \A n \in DOMAIN verdicts' : verdicts'[n].at <= now
    <3>1. (Past /\ VerdictsInOrder /\ TypeInvariant)'
      BY DEF IInv
    <3>2. QED
      BY <1>1, <3>1 DEF Past, By, VerdictsInOrder, TypeInvariant, Ordered
  <2>2. Closers(verdicts', now) = Rulings(verdicts')
    BY <2>1, ClosersOfPast
  <2>3. QED BY <2>1, <2>2, PastOrdered
<1>12. CASE r.verdict \in {"confirm", "reject"}
  <2>1. /\ k + 1 \in Closers(verdicts', now)
        /\ \A m \in Closers(verdicts', now) : m <= k + 1
        /\ Closers(verdicts, now) \subseteq Closers(verdicts', now)
    BY <1>2, <1>4, <1>11, <1>12 DEF Rulings
  <2>2. ruling' = Outcome(r)
    <3>1. Status(verdicts', now) = Outcome(verdicts'[k + 1])
      BY <1>11, <2>1, StatusOfLast
    <3>2. QED BY <1>1, <1>4, <3>1
  <2>3. held' => held
    <3>1. SUFFICES ASSUME held' PROVE held
      OBVIOUS
    <3>2. ASSUME NEW n \in DOMAIN verdicts', verdicts'[n].verdict = "discrepancy",
                 \A c \in Closers(verdicts', now) : Later(verdicts', n, c)
          PROVE  FALSE
      <4>1. n \in 1 .. k
        BY <1>2, <1>4, <1>12, <3>2
      <4>2. Later(verdicts', n, k + 1)
        BY <2>1, <3>2
      <4>3. verdicts'[n].at > r.at \/ n > k + 1
        BY <1>4, <4>2 DEF Later
      <4>4. verdicts'[n].at <= r.at /\ verdicts'[n].at \in Nat
        BY <1>7, <1>8, <1>4, <1>11, <4>1
      <4>5. QED BY <1>4, <1>5, <1>2, <4>1, <4>3, <4>4
    <3>3. PICK n \in DOMAIN annotations :
            /\ annotations[n].kind = "discrepancy" /\ annotations[n].at <= now
            /\ \A c \in Closers(verdicts', now) : annotations[n].at > verdicts'[c].at
      BY <1>1, <3>1, <3>2 DEF DiscrepancyOpen
    <3>4. \A c \in Closers(verdicts, now) : annotations[n].at > verdicts[c].at
      BY <1>4, <1>11, <2>1, <3>3 DEF Rulings
    <3>5. QED BY <3>3, <3>4 DEF DiscrepancyOpen
  <2>4. Outcome(r) = IF r.verdict = "confirm" THEN "confirmed" ELSE "retracted"
    BY DEF Outcome
  <2>5. Public!Rule(r.by, r.verdict)
    BY <1>9, <1>10, <2>2, <2>3, <2>4 DEF Public!Rule, Public!Says
  <2>6. CASE r.by = "verifier"
    <3>1. said = <<>> /\ r.verdict = "confirm"
      BY <1>7, <1>8, <2>6
    <3>2. Public!Confirm
      <4>1. Public!Rule("verifier", "confirm")
        BY <2>5, <2>6, <3>1 DEF Public!Rule, Public!Says
      <4>2. QED BY <3>1, <4>1 DEF Public!Confirm
    <3>3. QED BY <3>2 DEF Public!Next
  <2>7. CASE r.by = "review"
    <3>1. Public!Rule("review", r.verdict)
      BY <2>5, <2>7 DEF Public!Rule, Public!Says
    <3>2. QED BY <1>12, <3>1 DEF Public!Next
  <2>8. QED BY <1>4, <1>5, <2>6, <2>7 DEF Verdict
<1>13. CASE r.verdict = "discrepancy"
  <2>1. Closers(verdicts', now) = Closers(verdicts, now)
    BY <1>2, <1>4, <1>11, <1>13 DEF Rulings
  <2>2. UNCHANGED ruling
    <3>1. \A n \in Closers(verdicts, now) : verdicts[n] = verdicts'[n]
      BY <1>4 DEF Closers
    <3>2. Status(verdicts, now) = Status(verdicts', now)
      BY <1>11, <2>1, <3>1, StatusAlike
    <3>3. QED BY <1>1, <3>2
  <2>3. held' = TRUE
    <3>1. ASSUME NEW c \in Closers(verdicts', now)
          PROVE  Later(verdicts', k + 1, c)
      <4>1. c \in 1 .. k /\ verdicts'[c] = verdicts[c]
        BY <1>4, <1>11, <2>1, <3>1 DEF Rulings
      <4>2. verdicts'[c].at <= r.at /\ verdicts'[c].at \in Nat
        BY <1>7, <1>8, <1>4, <1>11, <4>1
      <4>3. QED BY <1>4, <1>5, <1>2, <4>1, <4>2 DEF Later
    <3>2. k + 1 \in DOMAIN verdicts'
      BY <1>2, <1>4
    <3>3. DiscrepancyOpen(verdicts', annotations', now')
      BY <1>1, <1>4, <1>5, <1>13, <3>1, <3>2 DEF DiscrepancyOpen
    <3>4. QED BY <3>3
  <2>4. r.by = "review"
    BY <1>4, <1>5, <1>7, <1>8, <1>13 DEF Verdict
  <2>5. Public!Doubt
    BY <1>9, <1>10, <1>13, <2>2, <2>3, <2>4 DEF Public!Doubt, Public!Says
  <2>6. QED BY <2>5 DEF Public!Next
<1>14. QED BY <1>4, <1>5, <1>12, <1>13 DEF Verdict

LEMMA StandsInitially == Init => Public!Init
<1> SUFFICES ASSUME Init PROVE Public!Init
  OBVIOUS
<1>1. annotations = <<>> /\ verdicts = <<>> /\ publications = {}
  BY DEF Init
<1>2. Closers(verdicts, now) = {}
  BY <1>1 DEF Closers
<1>3. Status(verdicts, now) = "unconfirmed" /\ ~DiscrepancyOpen(verdicts, annotations, now)
  BY <1>1, <1>2 DEF Status, DiscrepancyOpen
<1>4. [n \in DOMAIN verdicts |-> [by |-> verdicts[n].by, verdict |-> verdicts[n].verdict]] = <<>>
  BY <1>1
<1>5. {p.surface : p \in publications} = {}
  BY <1>1
<1>6. QED BY <1>3, <1>4, <1>5 DEF Public!Init

LEMMA Stands == IInv /\ IInv' /\ [Next]_vars => [Public!Next]_(Public!standingVars)
<1> SUFFICES ASSUME IInv, IInv', [Next]_vars
             PROVE  [Public!Next]_(Public!standingVars)
  OBVIOUS
<1>1. now \in Nat
  BY DEF IInv, TypeInvariant
<1>2. UNCHANGED <<now, mainVars>> => UNCHANGED Public!standingVars
  BY <1>1, TimeStands
<1>3. ASSUME NEW b, NEW chain, CutWith(b, chain)
      PROVE  UNCHANGED Public!standingVars
  BY <1>2, <1>3 DEF CutWith
<1>4. ASSUME NEW b, \/ Start(b) \/ Review(b) \/ Judge(b)
                    \/ \E from, at : Collect(b, from, at)
      PROVE  UNCHANGED Public!standingVars
  BY <1>2, <1>3, <1>4 DEF Start, Collect, Review, Judge, Propose
<1>5. CASE Tick
  <2>1. UNCHANGED mainVars /\ now' \in Nat /\ now <= now'
    BY <1>1, <1>5 DEF Tick
  <2>2. QED BY <2>1, TimeStands
<1>6. ASSUME NEW b \in Branches, Merge(b)
      PROVE  [Public!Next]_(Public!standingVars)
  <2>1. Lifts(b)
    BY <1>6, MergeLifts
  <2>2. QED BY <2>1, AnnotationStands, VerdictStands DEF Lifts
<1>7. ASSUME NEW b \in Branches, Abandon(b)
      PROVE  UNCHANGED Public!standingVars
  BY <1>2, <1>7 DEF Abandon
<1>8. CASE \E surface \in Surfaces : Publish(surface)
  BY <1>8, PublishShows
<1>9. CASE UNCHANGED vars
  BY <1>2, <1>9 DEF vars, mainVars
<1>10. QED
  BY <1>4, <1>5, <1>6, <1>7, <1>8, <1>9 DEF Next

(* Branches cut from old checkouts, late landings and folding by time of   *)
(* record amount to one event that is ruled on, doubted and shown.         *)
THEOREM MergedIsStanding == Spec => StandingSpec
<1>1. Init => Public!Init
  BY StandsInitially
<1>2. QED BY <1>1, Stands, Invariant, PTL DEF Spec, StandingSpec, Public!Spec

=============================================================================
