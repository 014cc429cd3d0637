---------------------------- MODULE Ingest_proofs ---------------------------
(***************************************************************************)
(* Proofs about the collect jobs and their branches.  What one job may do  *)
(* to its checkout is known from Corroboration_proofs; what is added here  *)
(* is that a store made of the files of two stores is as sound as they     *)
(* are, event by event, when both grew out of one and no file conflicts.   *)
(***************************************************************************)
EXTENDS Ingest, Corroboration_proofs, SequenceTheorems

-----------------------------------------------------------------------------
(* Sound stores.                                                           *)

(* What Corroboration_proofs knows of a checkout, of one event of it and   *)
(* the chain of that event.                                                *)
SurfacedChain(as) ==
  \A n \in DOMAIN as :
    /\ as[n].kind = "flap" =>
         \E m \in DOMAIN as : m < n /\ as[m].kind = "rollback"
    /\ as[n].kind = "rollback" =>
         \A m \in DOMAIN as :
           m > n => as[m].kind \notin
                      {"rollback", "corroboration", "mirror-corroborated"}

CountedChain(e, as) ==
  \A n \in DOMAIN as :
    as[n].kind \in Attaching =>
      /\ as[n].sources \intersect e.evidence = {}
      /\ \A m \in DOMAIN as :
           m < n => as[m].sources \intersect as[n].sources = {}

InWindowChain(e, as) ==
  \A n \in DOMAIN as :
    /\ e.observed <= as[n].at
    /\ as[n].at - e.observed < AttachWindow
    /\ as[n].kind = "rollback" => as[n].at - e.observed < DampingWindow(e.key.type)
    /\ \A m \in DOMAIN as : m <= n => Day(as[m].at) <= Day(as[n].at)

VoicedChain(e, as) ==
  /\ e.evidence # {}
  /\ e.evidence \union UNION {as[n].sources : n \in DOMAIN as}
       \subseteq Voices(e.key.subject)

EarnedChain(e, as) ==
  Unmixed =>
    \A n \in DOMAIN as :
      as[n].kind = "corroboration" => AnyIndependent(as[n].sources, e.evidence)

PairedChain(e, as) ==
  LET known == e.evidence \union UNION {as[n].sources : n \in DOMAIN as}
  IN  \A n \in DOMAIN as :
        as[n].kind = "corroboration" =>
          /\ AnyIndependent(known, known)
          /\ e.absence => \E s \in as[n].sources : ConfirmsAbsence(s)

(* Nothing in the store is later than t.                                   *)
OnTime(store, t) ==
  \A i \in DOMAIN store.events :
    /\ store.events[i].observed <= t
    /\ \A n \in DOMAIN store.annotations[i] : store.annotations[i][n].at <= t

SoundChain(e, as) ==
  /\ SurfacedChain(as) /\ CountedChain(e, as) /\ InWindowChain(e, as)
  /\ VoicedChain(e, as) /\ EarnedChain(e, as) /\ PairedChain(e, as)

SoundChains(store) ==
  \A i \in DOMAIN store.events : SoundChain(store.events[i], store.annotations[i])

Sound(store) == WellFormed(store) /\ OnTime(store, now) /\ SoundChains(store)

LEMMA EmptyChainSound ==
  ASSUME NEW e, NEW as, SoundChain(e, as)
  PROVE  SoundChain(e, <<>>)
<1>1. e.evidence # {} /\ e.evidence \subseteq Voices(e.key.subject)
  BY DEF SoundChain, VoicedChain
<1>2. VoicedChain(e, <<>>)
  BY <1>1 DEF VoicedChain
<1>3. QED
  BY <1>2 DEF SoundChain, SurfacedChain, CountedChain, InWindowChain, EarnedChain,
     PairedChain

(* big has every file of small, unchanged.                                 *)
Extends(big, small) ==
  /\ small.sidecars \subseteq big.sidecars
  /\ \A i \in DOMAIN small.events :
       /\ i \in DOMAIN big.events
       /\ big.events[i] = small.events[i]
       /\ Len(small.annotations[i]) <= Len(big.annotations[i])
       /\ \A n \in 1 .. Len(small.annotations[i]) :
            big.annotations[i][n] = small.annotations[i][n]

LEMMA CheckoutTyped ==
  TypeOK <=> /\ now \in Nat /\ WellFormed(Checkout)
             /\ left \in Seq(Registered) /\ staged \subseteq Event
BY DEF TypeOK, WellFormed, Checkout

(* What the running collector holds.                                       *)
RunSound ==
  /\ left \in Seq(Registered)
  /\ staged \subseteq Event
  /\ \A c \in staged : c.observed <= now
  /\ InOrder
  /\ AllVoiced

(* What the engine keeps of the checkout.                                  *)
EngineInv ==
  /\ TypeOK /\ Past /\ InOrder /\ AllVoiced
  /\ SurfacedOnce /\ CountedOnce /\ AnnotatedInWindow
  /\ VoicesKnown /\ Earned /\ ClaimNeedsPair

LEMMA EngineNext == EngineInv /\ [Next]_vars => EngineInv'
BY TypeNext, PastNext, InOrderNext, AllVoicedNext, SurfacedNext, CountedNext,
   InWindowNext, VoicesNext, EarnedNext, PairNext DEF EngineInv

LEMMA CheckoutSound == Sound(Checkout) /\ now \in Nat /\ RunSound <=> EngineInv
<1>1. OnTime(Checkout, now) /\ (\A c \in staged : c.observed <= now) <=> Past
  BY DEF OnTime, Past, Checkout
<1>2. /\ (\A i \in DOMAIN events : SurfacedChain(annotations[i])) <=> SurfacedOnce
      /\ (\A i \in DOMAIN events : CountedChain(events[i], annotations[i])) <=> CountedOnce
  BY DEF SurfacedChain, SurfacedOnce, CountedChain, CountedOnce
<1>3. (\A i \in DOMAIN events : InWindowChain(events[i], annotations[i]))
        <=> AnnotatedInWindow
  BY DEF InWindowChain, AnnotatedInWindow
<1>4. (\A i \in DOMAIN events : VoicedChain(events[i], annotations[i])) <=> VoicesKnown
  BY DEF VoicedChain, VoicesKnown, KnownSources
<1>5. (\A i \in DOMAIN events : EarnedChain(events[i], annotations[i])) <=> Earned
  BY DEF EarnedChain, Earned, ClaimIndependentOfEvidence
<1>6. (\A i \in DOMAIN events : PairedChain(events[i], annotations[i])) <=> ClaimNeedsPair
  BY DEF PairedChain, ClaimNeedsPair, KnownSources
<1>7. SoundChains(Checkout) <=>
        /\ SurfacedOnce /\ CountedOnce /\ AnnotatedInWindow
        /\ VoicesKnown /\ Earned /\ ClaimNeedsPair
  BY <1>2, <1>3, <1>4, <1>5, <1>6 DEF SoundChains, SoundChain, Checkout
<1>8. QED BY <1>1, <1>7, CheckoutTyped DEF Sound, RunSound, EngineInv

SoundCheckout == now \in Nat /\ Sound(Checkout) /\ RunSound

LEMMA CheckoutSoundNext == EngineInv' => SoundCheckout'
<1>1. EngineInv => SoundCheckout
  BY CheckoutSound DEF SoundCheckout
<1>2. QED BY <1>1, PTL

LEMMA ExtendsItself ==
  ASSUME NEW store, WellFormed(store)
  PROVE  Extends(store, store)
<1>1. \A i \in DOMAIN store.events : Len(store.annotations[i]) \in Nat
  BY DEF WellFormed
<1>2. QED BY <1>1 DEF Extends

LEMMA ExtendsFurther ==
  ASSUME NEW x, NEW y, NEW z, WellFormed(x), WellFormed(y), WellFormed(z),
         Extends(x, y), Extends(y, z)
  PROVE  Extends(x, z)
<1>1. /\ \A i \in DOMAIN x.events : Len(x.annotations[i]) \in Nat
      /\ \A i \in DOMAIN y.events : Len(y.annotations[i]) \in Nat
      /\ \A i \in DOMAIN z.events : Len(z.annotations[i]) \in Nat
  BY DEF WellFormed
<1>2. QED BY <1>1 DEF Extends

-----------------------------------------------------------------------------
(* Chains that grew out of one.                                            *)

LEMMA Regrown ==
  ASSUME NEW S, NEW p \in Seq(S), NEW q \in Seq(S), Len(p) <= Len(q),
         \A n \in 1 .. Len(p) : q[n] = p[n]
  PROVE  /\ p \o SubSeq(q, Len(p) + 1, Len(q)) = q
         /\ SubSeq(q, Len(p) + 1, Len(q)) = <<>> => q = p
<1> DEFINE r == SubSeq(q, Len(p) + 1, Len(q))
<1>1. Len(p) \in Nat /\ Len(q) \in Nat
  OBVIOUS
<1>2. r \in Seq(S) /\ Len(r) = Len(q) - Len(p)
  <2>1. \A n \in Len(p) + 1 .. Len(q) : q[n] \in S
    BY <1>1, ElementOfSeq
  <2>2. QED BY <1>1, <2>1, SubSeqProperties
<1>3. \A n \in 1 .. Len(q) - Len(p) : r[n] = q[Len(p) + n]
  BY <1>1
<1>4. p \o r \in Seq(S) /\ Len(p \o r) = Len(q)
  BY <1>1, <1>2, ConcatProperties
<1>5. \A n \in 1 .. Len(q) : (p \o r)[n] = q[n]
  <2>1. TAKE n \in 1 .. Len(q)
  <2>2. (p \o r)[n] = IF n <= Len(p) THEN p[n] ELSE r[n - Len(p)]
    BY <1>1, <1>2, ConcatProperties
  <2>3. QED BY <1>1, <1>3, <2>2
<1>6. p \o r = q
  BY <1>4, <1>5, SeqEqual
<1>7. ASSUME r = <<>>
      PROVE  q = p
  <2>1. Len(<<>>) = 0
    OBVIOUS
  <2>2. Len(r) = 0
    BY <1>7, <2>1
  <2>3. Len(p) = Len(q)
    BY <1>1, <1>2, <2>2
  <2>4. QED BY <2>3, SeqEqual
<1>8. QED BY <1>6, <1>7

(* The branch b grew out of its base, and main did too.                    *)
Grown(b) ==
  /\ Sound(branch[b].base) /\ Sound(branch[b].head)
  /\ Extends(branch[b].head, branch[b].base)
  /\ Extends(main, branch[b].base)

LEMMA ChainIn ==
  ASSUME NEW store, WellFormed(store), NEW i
  PROVE  /\ Chain(store, i) \in Seq(Annotation)
         /\ i \in DOMAIN store.events => Chain(store, i) = store.annotations[i]
         /\ i \notin DOMAIN store.events => Chain(store, i) = <<>>
<1>1. DOMAIN store.annotations = DOMAIN store.events
  BY DEF WellFormed
<1>2. <<>> \in Seq(Annotation)
  OBVIOUS
<1>3. QED BY <1>1, <1>2 DEF WellFormed, Chain

LEMMA ChainGrown ==
  ASSUME NEW x, NEW y, WellFormed(x), WellFormed(y), Extends(x, y), NEW i
  PROVE  /\ Len(Chain(y, i)) <= Len(Chain(x, i))
         /\ \A n \in 1 .. Len(Chain(y, i)) : Chain(x, i)[n] = Chain(y, i)[n]
<1>1. CASE i \in DOMAIN y.events
  BY <1>1, ChainIn DEF Extends
<1>2. CASE i \notin DOMAIN y.events
  <2>1. Len(Chain(y, i)) = 0
    BY <1>2, ChainIn
  <2>2. Len(Chain(x, i)) \in Nat
    BY ChainIn
  <2>3. QED BY <2>1, <2>2
<1>3. QED BY <1>1, <1>2

(* One side of the merge has the chain that both started from.             *)
LEMMA MergedChain ==
  ASSUME NEW b \in Branches, Grown(b), Sound(main), ~Conflicts(b),
         NEW i \in DOMAIN main.events \union DOMAIN branch[b].head.events
  PROVE  \/ /\ Chain(main, i) \o Added(b, i) = Chain(main, i)
            /\ Chain(branch[b].head, i) = Chain(branch[b].base, i)
         \/ /\ Chain(main, i) \o Added(b, i) = Chain(branch[b].head, i)
            /\ Chain(main, i) = Chain(branch[b].base, i)
<1> DEFINE old == Chain(branch[b].base, i)
           new == Chain(branch[b].head, i)
           mine == Chain(main, i)
<1>1. old \in Seq(Annotation) /\ new \in Seq(Annotation) /\ mine \in Seq(Annotation)
  BY ChainIn DEF Grown, Sound
<1>2. /\ Len(old) <= Len(new) /\ \A n \in 1 .. Len(old) : new[n] = old[n]
      /\ Len(old) <= Len(mine) /\ \A n \in 1 .. Len(old) : mine[n] = old[n]
  BY ChainGrown DEF Grown, Sound
<1>3. Added(b, i) = SubSeq(new, Len(old) + 1, Len(new))
  BY DEF Added
<1> HIDE DEF old, new, mine
<1>4. old \o Added(b, i) = new /\ (Added(b, i) = <<>> => new = old)
  <2>1. /\ old \o SubSeq(new, Len(old) + 1, Len(new)) = new
        /\ SubSeq(new, Len(old) + 1, Len(new)) = <<>> => new = old
    BY <1>1, <1>2, Regrown
  <2>2. QED BY <1>3, <2>1
<1>5. ASSUME Added(b, i) # <<>>
      PROVE  mine = old
  <2> USE DEF old, new, mine
  <2>1. i \in DOMAIN branch[b].head.events
    <3>1. SUFFICES ASSUME i \notin DOMAIN branch[b].head.events PROVE FALSE
      OBVIOUS
    <3>2. new = <<>>
      BY <3>1, ChainIn DEF Grown, Sound
    <3>3. Len(new) = 0 /\ Len(old) \in Nat
      BY <1>1, <3>2
    <3>4. Added(b, i) = <<>>
      BY <1>3, <3>3, SubSeqEmpty
    <3>5. QED BY <1>5, <3>4
  <2>2. ~(Len(mine) > Len(old))
    BY <1>5, <2>1 DEF Conflicts, SameSeqAdded
  <2>3. Len(mine) = Len(old)
    BY <1>1, <1>2, <2>2
  <2>4. QED BY <1>1, <1>2, <2>3, SeqEqual
<1>6. Added(b, i) = <<>> => mine \o Added(b, i) = mine
  BY <1>1, ConcatEmptySeq
<1>7. QED BY <1>4, <1>5, <1>6 DEF old, new, mine

LEMMA MergedParts ==
  ASSUME NEW b
  PROVE  LET old == branch[b].base
             new == branch[b].head
             ids == DOMAIN main.events \union DOMAIN new.events
         IN  /\ DOMAIN Merged(b).events = ids
             /\ DOMAIN Merged(b).annotations = ids
             /\ Merged(b).sidecars = main.sidecars \union new.sidecars
             /\ DOMAIN Merged(b).seen = Sources
             /\ \A s \in Sources :
                  /\ DOMAIN Merged(b).seen[s] = Covers[s]
                  /\ \A t \in Covers[s] :
                       Merged(b).seen[s][t] \in {main.seen[s][t], new.seen[s][t]}
             /\ \A i \in ids :
                  /\ i \in DOMAIN main.events =>
                       Merged(b).events[i] = main.events[i]
                  /\ i \notin DOMAIN main.events =>
                       Merged(b).events[i] = new.events[i]
                  /\ Merged(b).annotations[i] = Chain(main, i) \o Added(b, i)
BY DEF Merged

LEMMA MergedEvent ==
  ASSUME NEW b \in Branches, Grown(b), Sound(main), ~Conflicts(b),
         NEW i \in DOMAIN branch[b].head.events
  PROVE  Merged(b).events[i] = branch[b].head.events[i]
<1>1. CASE i \in DOMAIN main.events
  <2>1. i \in DOMAIN branch[b].base.events
    BY <1>1 DEF Conflicts, SameEventAdded
  <2>2. main.events[i] = branch[b].head.events[i]
    BY <2>1 DEF Grown, Extends
  <2>3. QED BY <1>1, <2>2, MergedParts
<1>2. QED BY <1>1, MergedParts

(* Each event of the merge is, with its chain, an event of main or of the  *)
(* branch.                                                                 *)
LEMMA MergedFrom ==
  ASSUME NEW b \in Branches, Grown(b), Sound(main), ~Conflicts(b),
         NEW i \in DOMAIN Merged(b).events
  PROVE  \E store \in {main, branch[b].head} :
           /\ i \in DOMAIN store.events
           /\ Merged(b).events[i] = store.events[i]
           /\ Merged(b).annotations[i] = store.annotations[i]
<1> DEFINE old == branch[b].base
           new == branch[b].head
<1>1. i \in DOMAIN main.events \union DOMAIN new.events
  BY MergedParts
<1>2. Merged(b).annotations[i] = Chain(main, i) \o Added(b, i)
  BY <1>1, MergedParts
<1>3. WellFormed(main) /\ WellFormed(old) /\ WellFormed(new)
  BY DEF Grown, Sound
<1>4. ASSUME i \in DOMAIN main.events, Merged(b).annotations[i] = Chain(main, i)
      PROVE  /\ Merged(b).events[i] = main.events[i]
             /\ Merged(b).annotations[i] = main.annotations[i]
  BY <1>1, <1>3, <1>4, MergedParts, ChainIn
<1>5. ASSUME i \in DOMAIN new.events, Merged(b).annotations[i] = Chain(new, i)
      PROVE  /\ Merged(b).events[i] = new.events[i]
             /\ Merged(b).annotations[i] = new.annotations[i]
  BY <1>3, <1>5, MergedEvent, ChainIn
<1>6. \/ Merged(b).annotations[i] = Chain(main, i) /\ Chain(new, i) = Chain(old, i)
      \/ Merged(b).annotations[i] = Chain(new, i) /\ Chain(main, i) = Chain(old, i)
  BY <1>1, <1>2, MergedChain
<1>7. CASE i \notin DOMAIN main.events
  <2>1. i \notin DOMAIN old.events
    BY <1>7 DEF Grown, Extends
  <2>2. Chain(main, i) = Chain(old, i)
    BY <1>3, <1>7, <2>1, ChainIn
  <2>3. QED BY <1>1, <1>5, <1>6, <1>7, <2>2
<1>8. CASE i \notin DOMAIN new.events
  <2>1. i \notin DOMAIN old.events
    BY <1>8 DEF Grown, Extends
  <2>2. Chain(new, i) = Chain(old, i)
    BY <1>3, <1>8, <2>1, ChainIn
  <2>3. QED BY <1>1, <1>4, <1>6, <1>8, <2>2
<1>9. QED BY <1>4, <1>5, <1>6, <1>7, <1>8

LEMMA MergedExtends ==
  ASSUME NEW b \in Branches, Grown(b), Sound(main), ~Conflicts(b)
  PROVE  Extends(Merged(b), main) /\ Extends(Merged(b), branch[b].head)
<1> DEFINE old == branch[b].base
           new == branch[b].head
<1>1. WellFormed(main) /\ WellFormed(old) /\ WellFormed(new)
  BY DEF Grown, Sound
<1>2. ASSUME NEW i \in DOMAIN main.events
      PROVE  /\ Merged(b).events[i] = main.events[i]
             /\ Len(main.annotations[i]) <= Len(Merged(b).annotations[i])
             /\ \A n \in 1 .. Len(main.annotations[i]) :
                  Merged(b).annotations[i][n] = main.annotations[i][n]
  <2>1. Merged(b).annotations[i] = Chain(main, i) \o Added(b, i)
    BY MergedParts
  <2>2. Chain(main, i) = main.annotations[i] /\ main.annotations[i] \in Seq(Annotation)
    BY <1>1, ChainIn
  <2>3. CASE Merged(b).annotations[i] = Chain(main, i)
    BY <2>2, <2>3, MergedParts
  <2>4. CASE /\ Merged(b).annotations[i] = Chain(new, i)
             /\ Chain(main, i) = Chain(old, i)
    <3>1. /\ Len(Chain(old, i)) <= Len(Chain(new, i))
          /\ \A n \in 1 .. Len(Chain(old, i)) : Chain(new, i)[n] = Chain(old, i)[n]
      BY <1>1, ChainGrown DEF Grown
    <3>2. QED BY <2>2, <2>4, <3>1, MergedParts
  <2>5. QED BY <2>1, <2>3, <2>4, MergedChain
<1>3. ASSUME NEW i \in DOMAIN new.events
      PROVE  /\ Len(new.annotations[i]) <= Len(Merged(b).annotations[i])
             /\ \A n \in 1 .. Len(new.annotations[i]) :
                  Merged(b).annotations[i][n] = new.annotations[i][n]
  <2>1. Merged(b).annotations[i] = Chain(main, i) \o Added(b, i)
    BY MergedParts
  <2>2. Chain(new, i) = new.annotations[i] /\ new.annotations[i] \in Seq(Annotation)
    BY <1>1, ChainIn
  <2>3. CASE Merged(b).annotations[i] = Chain(new, i)
    BY <2>2, <2>3
  <2>4. CASE /\ Merged(b).annotations[i] = Chain(main, i)
             /\ Chain(new, i) = Chain(old, i)
    <3>1. /\ Len(Chain(old, i)) <= Len(Chain(main, i))
          /\ \A n \in 1 .. Len(Chain(old, i)) : Chain(main, i)[n] = Chain(old, i)[n]
      BY <1>1, ChainGrown DEF Grown
    <3>2. QED BY <2>2, <2>4, <3>1
  <2>5. QED BY <2>1, <2>3, <2>4, MergedChain
<1>4. Extends(Merged(b), main)
  BY <1>2, MergedParts DEF Extends
<1>5. Extends(Merged(b), new)
  BY <1>3, MergedEvent, MergedParts DEF Extends
<1>6. QED BY <1>4, <1>5

LEMMA MergedSound ==
  ASSUME NEW b \in Branches, Grown(b), Sound(main), ~Conflicts(b)
  PROVE  Sound(Merged(b))
<1> DEFINE new == branch[b].head
<1>1. WellFormed(main) /\ WellFormed(new)
  BY DEF Grown, Sound
<1>2. Sound(main) /\ Sound(new)
  BY DEF Grown
<1>3. \A i \in DOMAIN Merged(b).events :
        /\ Merged(b).events[i] \in Event /\ i = EventId(Merged(b).events[i])
        /\ Merged(b).annotations[i] \in Seq(Annotation)
  <2>1. TAKE i \in DOMAIN Merged(b).events
  <2>2. PICK store \in {main, new} :
          /\ i \in DOMAIN store.events
          /\ Merged(b).events[i] = store.events[i]
          /\ Merged(b).annotations[i] = store.annotations[i]
    BY MergedFrom
  <2>3. WellFormed(store)
    BY <1>1
  <2>4. QED BY <2>2, <2>3 DEF WellFormed
<1>4. WellFormed(Merged(b))
  <2>1. \A s \in Sources : \A t \in Covers[s] : Merged(b).seen[s][t] \in TrackStates(t)
    BY <1>1, MergedParts DEF WellFormed
  <2>2. Merged(b).sidecars \subseteq DOMAIN Merged(b).events
    BY <1>1, MergedParts DEF WellFormed
  <2>3. /\ Merged(b) = [seen |-> Merged(b).seen, events |-> Merged(b).events,
                        sidecars |-> Merged(b).sidecars,
                        annotations |-> Merged(b).annotations]
        /\ Merged(b).events = [i \in DOMAIN Merged(b).events |-> Merged(b).events[i]]
        /\ Merged(b).annotations =
             [i \in DOMAIN Merged(b).events |-> Merged(b).annotations[i]]
    BY DEF Merged
  <2>4. QED BY <1>3, <2>1, <2>2, <2>3, MergedParts DEF WellFormed
<1>5. OnTime(Merged(b), now)
  BY <1>2, MergedFrom DEF OnTime, Sound
<1>6. SoundChains(Merged(b))
  BY <1>2, MergedFrom DEF SoundChains, Sound
<1>7. QED BY <1>4, <1>5, <1>6 DEF Sound

-----------------------------------------------------------------------------
(* The invariant.                                                          *)

IngestInv ==
  /\ now \in Nat
  /\ Sound(Checkout)
  /\ Sound(main)
  /\ Running => Sound(base) /\ Extends(Checkout, base) /\ Extends(main, base)
  /\ \A b \in Branches : branch[b] # None => Grown(b)
  /\ branch = [b \in Branches |-> branch[b]]
  /\ todo \subseteq Collectors
  /\ RunSound
  /\ Running \/ Done
  /\ \A s \in Registered : shown[s] \in Readings(s)

LEMMA SoundLater ==
  ASSUME NEW store, NEW t \in Nat, NEW u \in Nat, t <= u,
         WellFormed(store), OnTime(store, t)
  PROVE  OnTime(store, u)
<1>1. \A i \in DOMAIN store.events :
        /\ store.events[i].observed \in Nat
        /\ \A n \in DOMAIN store.annotations[i] : store.annotations[i][n].at \in Nat
  <2>1. TAKE i \in DOMAIN store.events
  <2>2. store.events[i] \in Event /\ store.annotations[i] \in Seq(Annotation)
    BY DEF WellFormed
  <2>3. \A n \in DOMAIN store.annotations[i] : store.annotations[i][n] \in Annotation
    BY <2>2
  <2>4. QED BY <2>2, <2>3 DEF Event, Annotation
<1>2. QED BY <1>1 DEF OnTime

(* What the engine does to the checkout adds files and changes none.       *)
LEMMA CheckoutGrows ==
  ASSUME TypeOK, [Next]_vars
  PROVE  Extends(Checkout', Checkout)
<1>1. CASE Idle
  <2>1. \A i \in DOMAIN events : Len(annotations[i]) \in Nat
    BY ChainLength
  <2>2. QED BY <1>1, <2>1 DEF Idle, storeVars, Extends, Checkout
<1>2. ASSUME NEW c \in Event, NEW i \in DOMAIN events, NEW a \in Annotation,
             Appended(i, c, a)
      PROVE  Extends(Checkout', Checkout)
  <2>1. Annotated(i, a)
    BY <1>2 DEF Appended
  <2>2. /\ \A j \in DOMAIN events : j # i => annotations'[j] = annotations[j]
        /\ annotations'[i] = Append(annotations[i], a)
    BY <2>1 DEF Annotated, TypeOK
  <2>3. \A j \in DOMAIN events : Len(annotations[j]) \in Nat
    BY ChainLength
  <2>4. /\ Len(annotations'[i]) = Len(annotations[i]) + 1
        /\ \A n \in 1 .. Len(annotations[i]) : annotations'[i][n] = annotations[i][n]
    BY <2>2, AppendProperties DEF TypeOK
  <2>5. QED BY <2>1, <2>2, <2>3, <2>4 DEF Annotated, Extends, Checkout
<1>3. ASSUME NEW c \in Event, Minted(c)
      PROVE  Extends(Checkout', Checkout)
  <2>1. \A i \in DOMAIN events : Len(annotations[i]) \in Nat
    BY ChainLength
  <2>2. /\ sidecars \subseteq sidecars'
        /\ \A i \in DOMAIN events : /\ i \in DOMAIN events'
                                   /\ events'[i] = events[i]
                                   /\ annotations'[i] = annotations[i]
    BY <1>3, MintedAt DEF Minted
  <2>3. QED BY <2>1, <2>2 DEF Extends, Checkout
<1>4. QED BY <1>1, <1>2, <1>3, Cases

(* What the job runs is a step of the engine.                              *)
LEMMA FetchIsStep ==
  ASSUME IngestInv, NEW s \in Registered, Fetch(s)
  PROVE  [Next]_vars /\ todo' \subseteq todo /\ Running
<1>1. shown[s] \in Readings(s)
  BY DEF IngestInv
<1>2. FetchSource(s, shown[s])
  BY DEF Fetch
<1>3. Next
  BY <1>1, <1>2 DEF Next
<1>4. QED BY <1>3 DEF Fetch, NextSource

LEMMA DispatchIsStep ==
  ASSUME IngestInv, NEW c \in staged, DispatchStaged(c)
  PROVE  [Next]_vars /\ todo' \subseteq todo /\ Running
<1>1. Next
  BY DEF DispatchStaged, Next
<1>2. Running
  BY DEF IngestInv, Done
<1>3. QED BY <1>1, <1>2 DEF DispatchStaged

LEMMA EngineKeeps ==
  ASSUME IngestInv, [Next]_vars, now' = now, Running, todo' \subseteq todo,
         UNCHANGED <<queueVars, base, worldVars>>
  PROVE  IngestInv'
<1>1. EngineInv /\ TypeOK
  BY CheckoutSound DEF IngestInv, EngineInv
<1>2. EngineInv'
  BY <1>1, EngineNext
<1>3. Sound(Checkout)' /\ now' \in Nat /\ RunSound'
  BY <1>2, CheckoutSoundNext DEF SoundCheckout
<1>4. Extends(Checkout', Checkout)
  BY <1>1, CheckoutGrows
<1>5. Extends(Checkout', base)
  BY <1>3, <1>4, ExtendsFurther DEF IngestInv, Sound
<1>6. /\ main' = main /\ base' = base /\ branch' = branch /\ shown' = shown
  BY DEF queueVars, worldVars
<1>7. Sound(main)' /\ Sound(base)' /\ Extends(main', base') /\ Running'
  BY <1>6 DEF IngestInv, Sound, Running
<1>8. (\A b \in Branches : branch[b] # None => Grown(b))'
  BY <1>6 DEF IngestInv, Sound, Grown
<1>9. Extends(Checkout', base')
  BY <1>5, <1>6
<1>10. (\A s \in Registered : shown[s] \in Readings(s))'
  BY <1>6 DEF IngestInv, Readings, TrackStates
<1>11. QED BY <1>3, <1>6, <1>7, <1>8, <1>9, <1>10 DEF IngestInv

LEMMA FetchKeeps ==
  ASSUME IngestInv, NEW s \in Registered, Fetch(s)
  PROVE  IngestInv'
<1>1. now' = now /\ UNCHANGED <<queueVars, base, worldVars>>
  BY DEF Fetch, FetchSource
<1>2. QED BY <1>1, FetchIsStep, EngineKeeps

LEMMA DispatchKeeps ==
  ASSUME IngestInv, NEW c \in staged, DispatchStaged(c)
  PROVE  IngestInv'
<1>1. now' = now /\ UNCHANGED <<queueVars, base, worldVars>>
  BY DEF DispatchStaged, DispatchNext, DropInvalid
<1>2. QED BY <1>1, DispatchIsStep, EngineKeeps

LEMMA EmptySound ==
  WellFormed(Empty) /\ SoundChains(Empty) /\ \A u : OnTime(Empty, u)
<1>1. /\ DOMAIN Empty.events = {} /\ DOMAIN Empty.annotations = {}
      /\ Empty.sidecars = {}
      /\ \A s \in Sources : /\ DOMAIN Empty.seen[s] = Covers[s]
                            /\ \A t \in Covers[s] : Empty.seen[s][t] = Baseline[t]
      /\ DOMAIN Empty.seen = Sources
  BY DEF Empty
<1>2. \A s \in Sources : \A t \in Covers[s] : Baseline[t] \in TrackStates(t)
  BY TrackAssumption, RegistryAssumption
<1>3. /\ Empty = [seen |-> Empty.seen, events |-> Empty.events,
                  sidecars |-> Empty.sidecars, annotations |-> Empty.annotations]
      /\ Empty.events = [i \in DOMAIN Empty.events |-> Empty.events[i]]
      /\ Empty.annotations = [i \in DOMAIN Empty.events |-> Empty.annotations[i]]
  BY DEF Empty
<1>4. QED BY <1>1, <1>2, <1>3 DEF WellFormed, OnTime, SoundChains

(* A store checked out is the checkout.                                    *)
LEMMA CheckedOut ==
  ASSUME NEW store, WellFormed(store), CheckOut(store)
  PROVE  Checkout' = store
BY DEF WellFormed, CheckOut, Checkout

(* What no part of the invariant depends on but the queue and the world.   *)
Others ==
  /\ now \in Nat
  /\ Sound(main)
  /\ \A b \in Branches : branch[b] # None => Grown(b)
  /\ branch = [b \in Branches |-> branch[b]]
  /\ \A s \in Registered : shown[s] \in Readings(s)

LEMMA OthersKept ==
  ASSUME IngestInv, UNCHANGED <<now, queueVars, worldVars>>
  PROVE  Others'
<1>1. now' = now /\ main' = main /\ branch' = branch /\ shown' = shown
  BY DEF queueVars, worldVars
<1>2. (\A b \in Branches : branch[b] # None => Grown(b))'
  BY <1>1 DEF IngestInv, Sound, Grown
<1>3. (\A s \in Registered : shown[s] \in Readings(s))'
  BY <1>1 DEF IngestInv, Readings, TrackStates
<1>4. QED BY <1>1, <1>2, <1>3 DEF IngestInv, Others, Sound

(* No collector is running.                                                *)
LEMMA IdleRunSound == Done => RunSound
BY DEF Done, RunSound, InOrder, AllVoiced

LEMMA StartKeeps ==
  ASSUME IngestInv, Start
  PROVE  IngestInv'
<1>1. UNCHANGED <<now, queueVars, worldVars>> /\ base' = main /\ todo' = Collectors
  BY DEF Start
<1>2. now' = now /\ main' = main
  BY <1>1 DEF queueVars
<1>3. WellFormed(main) /\ Sound(main)
  BY DEF IngestInv, Sound
<1>4. Checkout' = main
  BY <1>3, CheckedOut DEF Start
<1>5. Extends(main, main)
  BY <1>3, ExtendsItself
<1>6. Sound(Checkout)' /\ Sound(base)' /\ Extends(Checkout', base') /\ Extends(main', base')
  BY <1>1, <1>2, <1>3, <1>4, <1>5 DEF Sound
<1>7. Done'
  BY DEF Start, IngestInv, Done, runVars
<1>8. RunSound'
  BY <1>7, IdleRunSound, PTL
<1>9. (todo \subseteq Collectors)'
  BY <1>1
<1>10. QED BY <1>1, <1>6, <1>7, <1>8, <1>9, OthersKept DEF Others, IngestInv

LEMMA FetchFailsKeeps ==
  ASSUME IngestInv, NEW s \in Registered, FetchFails(s)
  PROVE  IngestInv'
<1>1. /\ UNCHANGED <<now, seen, staged, storeVars, queueVars, base, worldVars>>
      /\ UNCHANGED <<now, queueVars, worldVars>>
      /\ Running /\ TakeSource(s)
  BY DEF FetchFails, NextSource
<1>2. /\ Checkout' = Checkout /\ base' = base /\ now' = now /\ main' = main
      /\ staged' = staged /\ events' = events /\ annotations' = annotations
  BY <1>1 DEF Checkout, storeVars, queueVars
<1>3. Sound(Checkout)'
  BY <1>2 DEF IngestInv, Sound
<1>4. Running' /\ Sound(base)' /\ Extends(Checkout', base') /\ Extends(main', base')
  BY <1>1, <1>2 DEF IngestInv, Sound, Running
<1>5. todo' \subseteq Collectors
  BY DEF FetchFails, NextSource, IngestInv
<1>6. TypeOK /\ InOrder
  BY CheckoutTyped DEF IngestInv, Sound, RunSound
<1>7. left' \in Seq(Registered)
  BY <1>1, <1>6, TakesType
<1>8. PICK col \in Collectors :
        /\ \A n \in DOMAIN left' : left'[n] \in Fetches(col)
        /\ \A c \in staged : /\ c.evidence \subseteq Fetches(col)
                              /\ After(c, col) /\ NotOutdone(c)
  BY <1>1, <1>6, TakesFrom
<1>9. RunIs(col)'
  BY <1>2, <1>8 DEF RunIs, Holds, After, NotOutdone, Fetches, Day
<1>10. InOrder'
  BY <1>9 DEF InOrder
<1>11. AllVoiced'
  BY <1>2 DEF IngestInv, RunSound, AllVoiced, Voiced, Voices
<1>12. RunSound'
  BY <1>2, <1>7, <1>10, <1>11 DEF IngestInv, RunSound
<1>13. QED BY <1>1, <1>3, <1>4, <1>5, <1>12, OthersKept DEF Others, IngestInv

LEMMA JobEndsKeeps ==
  ASSUME IngestInv, JobEnds, Others'
  PROVE  IngestInv'
<1>1. WellFormed(Empty)
  BY EmptySound
<1>2. Checkout' = Empty /\ base' = None /\ todo' = {}
  BY <1>1, CheckedOut DEF JobEnds
<1>3. Sound(Checkout)'
  BY <1>2, EmptySound DEF Sound
<1>4. ~Running'
  BY <1>2 DEF Running
<1>5. Done'
  BY DEF JobEnds, Done
<1>6. RunSound'
  BY <1>5, IdleRunSound, PTL
<1>7. (todo \subseteq Collectors)'
  BY <1>2
<1>8. QED BY <1>3, <1>4, <1>5, <1>6, <1>7 DEF Others, IngestInv

(* What a job proposes is sound, and grew out of what it checked out.      *)
LEMMA ProposalGrown ==
  ASSUME IngestInv, Running
  PROVE  Sound(Proposal) /\ Extends(Proposal, base)
<1> DEFINE new == Proposal
<1>1. /\ Sound(Checkout) /\ Sound(base) /\ Extends(Checkout, base)
      /\ WellFormed(Checkout) /\ WellFormed(base)
  BY DEF IngestInv, Sound
<1>2. /\ Checkout.events = events /\ Checkout.seen = seen
      /\ Checkout.sidecars = sidecars /\ Checkout.annotations = annotations
  BY DEF Checkout
<1>3. /\ new.events = events
      /\ new.seen \in {seen, base.seen}
      /\ new.sidecars \in {sidecars, base.sidecars}
      /\ DOMAIN new.annotations = DOMAIN events
      /\ \A i \in DOMAIN events :
           new.annotations[i] \in {Chain(Checkout, i), Chain(base, i)}
  BY StagedAssumption DEF Proposal, TakeIf
<1>4. /\ new = [seen |-> new.seen, events |-> new.events,
                sidecars |-> new.sidecars, annotations |-> new.annotations]
      /\ new.annotations = [i \in DOMAIN new.events |-> new.annotations[i]]
  BY StagedAssumption DEF Proposal, TakeIf
<1> HIDE DEF new
<1>5. \A i \in DOMAIN events :
        \/ new.annotations[i] = annotations[i]
        \/ i \in DOMAIN base.events /\ new.annotations[i] = base.annotations[i]
        \/ i \notin DOMAIN base.events /\ new.annotations[i] = <<>>
  BY <1>1, <1>2, <1>3, ChainIn
<1>6. /\ DOMAIN base.events \subseteq DOMAIN events
      /\ \A i \in DOMAIN base.events : base.events[i] = events[i]
  BY <1>1, <1>2 DEF Extends
<1>7. WellFormed(new)
  <2>1. \A s \in Sources : /\ DOMAIN new.seen[s] = Covers[s]
                          /\ \A t \in Covers[s] : new.seen[s][t] \in TrackStates(t)
    BY <1>1, <1>2, <1>3 DEF WellFormed
  <2>2. DOMAIN new.seen = Sources /\ new.sidecars \subseteq DOMAIN new.events
    BY <1>1, <1>2, <1>3, <1>6 DEF WellFormed
  <2>3. \A i \in DOMAIN new.events : new.annotations[i] \in Seq(Annotation)
    BY <1>1, <1>3, ChainIn
  <2>4. /\ new.events = [i \in DOMAIN new.events |-> new.events[i]]
        /\ \A i \in DOMAIN new.events :
             new.events[i] \in Event /\ i = EventId(new.events[i])
    BY <1>1, <1>2, <1>3 DEF WellFormed
  <2>5. QED BY <1>4, <2>1, <2>2, <2>3, <2>4 DEF WellFormed
<1>8. OnTime(new, now)
  BY <1>1, <1>2, <1>3, <1>5, <1>6 DEF Sound, OnTime
<1>9. SoundChains(new)
  <2>1. SUFFICES ASSUME NEW i \in DOMAIN new.events
                 PROVE  SoundChain(new.events[i], new.annotations[i])
    BY DEF SoundChains
  <2>2. CASE new.annotations[i] = annotations[i]
    BY <1>1, <1>2, <1>3, <2>2 DEF Sound, SoundChains
  <2>3. CASE i \in DOMAIN base.events /\ new.annotations[i] = base.annotations[i]
    BY <1>1, <1>3, <1>6, <2>3 DEF Sound, SoundChains
  <2>4. CASE new.annotations[i] = <<>>
    <3>1. SoundChain(events[i], annotations[i])
      BY <1>1, <1>2, <1>3 DEF Sound, SoundChains
    <3>2. QED BY <1>3, <2>4, <3>1, EmptyChainSound
  <2>5. QED BY <1>3, <1>5, <2>2, <2>3, <2>4
<1>10. Extends(new, base)
  <2>1. \A i \in DOMAIN base.events : Len(base.annotations[i]) \in Nat
    BY <1>1 DEF WellFormed
  <2>2. base.sidecars \subseteq new.sidecars
    BY <1>1, <1>2, <1>3 DEF Extends
  <2>3. QED BY <1>1, <1>2, <1>3, <1>5, <1>6, <2>1, <2>2 DEF Extends
<1>11. Sound(new) /\ Extends(new, base)
  BY <1>7, <1>8, <1>9, <1>10 DEF Sound
<1>12. QED BY <1>11 DEF new

LEMMA ProposeKeeps ==
  ASSUME IngestInv, NEW b \in Branches, Propose(b)
  PROVE  IngestInv'
<1>1. /\ Running /\ JobEnds
      /\ branch' = [branch EXCEPT ![b] = [base |-> base, head |-> Proposal]]
      /\ now' = now /\ main' = main /\ shown' = shown
  BY DEF Propose, Ran, worldVars
<1>2. branch'[b] = [base |-> base, head |-> Proposal]
  BY <1>1 DEF IngestInv
<1>3. \A d \in Branches : d # b => branch'[d] = branch[d]
  BY <1>1 DEF IngestInv
<1>4. (\A d \in Branches : branch[d] # None => Grown(d))'
  <2>1. SUFFICES ASSUME NEW d \in Branches, branch'[d] # None
                 PROVE  Grown(d)'
    OBVIOUS
  <2>2. CASE d = b
    <3>1. Sound(Proposal) /\ Extends(Proposal, base)
      BY <1>1, ProposalGrown
    <3>2. Sound(base) /\ Extends(main, base)
      BY <1>1 DEF IngestInv
    <3>3. branch'[d].base = base /\ branch'[d].head = Proposal
      BY <1>2, <2>2
    <3>4. QED BY <1>1, <3>1, <3>2, <3>3 DEF Grown, Sound
  <2>3. CASE d # b
    BY <1>1, <1>3, <2>1, <2>3 DEF IngestInv, Grown, Sound
  <2>4. QED BY <2>2, <2>3
<1>5. (branch = [d \in Branches |-> branch[d]])'
  BY <1>1 DEF IngestInv
<1>6. Others'
  BY <1>1, <1>4, <1>5 DEF IngestInv, Others, Sound
<1>7. QED BY <1>1, <1>6, JobEndsKeeps

(* The branches that are left when b has gone.                             *)
LEMMA BranchGone ==
  ASSUME IngestInv, NEW b \in Branches, branch' = [branch EXCEPT ![b] = None],
         now' = now,
         \A d \in Branches : branch[d] # None => Extends(main', branch[d].base)
  PROVE  /\ (\A d \in Branches : branch[d] # None => Grown(d))'
         /\ (branch = [d \in Branches |-> branch[d]])'
<1>1. (branch = [d \in Branches |-> branch[d]])'
  BY DEF IngestInv
<1>2. SUFFICES ASSUME NEW d \in Branches, branch'[d] # None
               PROVE  Grown(d)'
  BY <1>1
<1>3. branch'[d] = branch[d]
  BY <1>2 DEF IngestInv
<1>4. QED BY <1>2, <1>3 DEF IngestInv, Grown, Sound

LEMMA CheckoutKept ==
  ASSUME IngestInv, UNCHANGED <<vars, base, todo>>
  PROVE  /\ Sound(Checkout)' /\ (todo \subseteq Collectors)'
         /\ RunSound' /\ (Running \/ Done)'
         /\ Running' => Running /\ Sound(base)' /\ Extends(Checkout', base')
<1>1. /\ Checkout' = Checkout /\ base' = base /\ now' = now /\ todo' = todo
      /\ left' = left /\ staged' = staged
      /\ events' = events /\ annotations' = annotations
  BY DEF Checkout, vars
<1>2. RunSound'
  BY <1>1 DEF IngestInv, RunSound, InOrder, Done, RunIs, Holds, After, NotOutdone,
     Fetches, Day, AllVoiced, Voiced, Voices
<1>3. (Running \/ Done)'
  BY <1>1 DEF IngestInv, Running, Done
<1>4. QED BY <1>1, <1>2, <1>3 DEF IngestInv, Sound, Running

LEMMA MergeKeeps ==
  ASSUME IngestInv, NEW b \in Branches, Merge(b)
  PROVE  IngestInv' /\ Extends(main', main)
<1>1. /\ UNCHANGED <<vars, base, todo>>
      /\ main' = Merged(b) /\ branch' = [branch EXCEPT ![b] = None]
      /\ now' = now /\ base' = base /\ shown' = shown
      /\ branch[b] # None /\ ~Conflicts(b)
  BY DEF Merge, Lands, worldVars, vars
<1>2. Grown(b) /\ Sound(main)
  BY <1>1 DEF IngestInv
<1>3. Sound(main') /\ Extends(main', main)
  BY <1>1, <1>2, MergedSound, MergedExtends
<1>4. WellFormed(main) /\ WellFormed(main')
  BY <1>2, <1>3 DEF Sound
<1>5. \A d \in Branches : branch[d] # None => Extends(main', branch[d].base)
  <2>1. SUFFICES ASSUME NEW d \in Branches, branch[d] # None
                 PROVE  Extends(main', branch[d].base)
    OBVIOUS
  <2>2. Extends(main, branch[d].base) /\ WellFormed(branch[d].base)
    BY <2>1 DEF IngestInv, Grown, Sound
  <2>3. QED BY <1>3, <1>4, <2>2, ExtendsFurther
<1>6. Running' => Extends(main', base')
  <2>1. SUFFICES ASSUME Running PROVE Extends(main', base)
    BY <1>1 DEF Running
  <2>2. Extends(main, base) /\ WellFormed(base)
    BY <2>1 DEF IngestInv, Sound
  <2>3. QED BY <1>3, <1>4, <2>2, ExtendsFurther
<1>7. Sound(main)'
  BY <1>1, <1>3 DEF Sound
<1>8. (\A s \in Registered : shown[s] \in Readings(s))'
  BY <1>1 DEF IngestInv, Readings, TrackStates
<1>9. (\A d \in Branches : branch[d] # None => Grown(d))'
      /\ (branch = [d \in Branches |-> branch[d]])'
  BY <1>1, <1>5, BranchGone
<1>10. QED
  BY <1>1, <1>3, <1>6, <1>7, <1>8, <1>9, CheckoutKept DEF IngestInv

LEMMA CloseKeeps ==
  ASSUME IngestInv, NEW b \in Branches, Close(b)
  PROVE  IngestInv'
<1>1. /\ UNCHANGED <<vars, base, todo>>
      /\ main' = main /\ branch' = [branch EXCEPT ![b] = None]
      /\ now' = now /\ base' = base /\ shown' = shown
  BY DEF Close, worldVars, vars
<1>2. \A d \in Branches : branch[d] # None => Extends(main', branch[d].base)
  BY <1>1 DEF IngestInv, Grown
<1>3. Sound(main)' /\ (Running' => Extends(main', base'))
  BY <1>1 DEF IngestInv, Sound, Running
<1>4. (\A s \in Registered : shown[s] \in Readings(s))'
  BY <1>1 DEF IngestInv, Readings, TrackStates
<1>5. (\A d \in Branches : branch[d] # None => Grown(d))'
      /\ (branch = [d \in Branches |-> branch[d]])'
  BY <1>1, <1>2, BranchGone
<1>6. QED
  BY <1>1, <1>3, <1>4, <1>5, CheckoutKept DEF IngestInv

LEMMA PublishKeeps ==
  ASSUME IngestInv, NEW s \in Registered, NEW t \in Covers[s],
         NEW v \in TrackStates(t), Publish(s, t, v)
  PROVE  IngestInv'
<1>1. /\ UNCHANGED <<vars, base, todo>>
      /\ main' = main /\ branch' = branch /\ now' = now /\ base' = base
      /\ shown' = [shown EXCEPT ![s][t] = v]
  BY DEF Publish, vars, queueVars
<1>2. (\A r \in Registered : shown[r] \in Readings(r))'
  <2>1. ASSUME NEW r \in Registered
        PROVE  shown'[r] \in Readings(r)
    <3>1. shown[r] \in Readings(r) /\ shown[s] \in Readings(s)
      BY DEF IngestInv
    <3>2. CASE r # s
      BY <1>1, <3>1, <3>2
    <3>3. CASE r = s /\ s \in DOMAIN shown
      <4>1. shown'[r] = [shown[s] EXCEPT ![t] = v]
        BY <1>1, <3>3
      <4>2. QED BY <3>1, <3>3, <4>1 DEF Readings
    <3>4. CASE s \notin DOMAIN shown
      BY <1>1, <3>1, <3>4
    <3>5. QED BY <3>2, <3>3, <3>4
  <2>2. QED BY <2>1 DEF Readings, TrackStates
<1>3. (\A b \in Branches : branch[b] # None => Grown(b))'
  BY <1>1 DEF IngestInv, Grown, Sound
<1>4. Sound(main)' /\ (Running' => Extends(main', base'))
  BY <1>1 DEF IngestInv, Sound, Running
<1>5. QED
  BY <1>1, <1>2, <1>3, <1>4, CheckoutKept DEF IngestInv

LEMMA TimePassesKeeps ==
  ASSUME IngestInv, TimePasses
  PROVE  IngestInv'
<1>1. /\ now' \in Instants /\ now < now'
      /\ UNCHANGED <<seen, left, staged, events, sidecars, annotations>>
      /\ main' = main /\ branch' = branch /\ base' = base /\ todo' = todo
      /\ shown' = shown
  BY DEF TimePasses, Tick, storeVars, queueVars, worldVars
<1>2. now \in Nat /\ now' \in Nat /\ now <= now'
  BY <1>1, TrackAssumption DEF IngestInv
<1>3. ASSUME NEW store, Sound(store)
      PROVE  WellFormed(store) /\ OnTime(store, now') /\ SoundChains(store)
  BY <1>2, <1>3, SoundLater DEF Sound
<1>4. Checkout' = Checkout
  BY <1>1 DEF Checkout
<1>5. Sound(Checkout)' /\ Sound(main)'
  BY <1>1, <1>3, <1>4 DEF IngestInv, Sound
<1>6. (Running => Sound(base) /\ Extends(Checkout, base) /\ Extends(main, base))'
  BY <1>1, <1>3, <1>4 DEF IngestInv, Running, Sound
<1>7. (\A b \in Branches : branch[b] # None => Grown(b))'
  BY <1>1, <1>3 DEF IngestInv, Grown, Sound
<1>8. RunSound'
  <2>1. \A c \in staged : c.observed \in Nat /\ c.observed <= now
    BY DEF IngestInv, RunSound, Event
  <2>2. \A c \in staged' : c.observed <= now'
    BY <1>1, <1>2, <2>1
  <2>3. InOrder' /\ AllVoiced'
    BY <1>1 DEF IngestInv, RunSound, InOrder, Done, RunIs, Holds, After, NotOutdone,
       Fetches, Day, AllVoiced, Voiced, Voices
  <2>4. QED BY <1>1, <2>2, <2>3 DEF IngestInv, RunSound
<1>9. (Running \/ Done)'
  BY <1>1 DEF IngestInv, Running, Done
<1>10. (\A s \in Registered : shown[s] \in Readings(s))'
  BY <1>1 DEF IngestInv, Readings, TrackStates
<1>11. QED BY <1>1, <1>2, <1>5, <1>6, <1>7, <1>8, <1>9, <1>10 DEF IngestInv

LEMMA IngestKeeps ==
  ASSUME IngestInv, [IngestNext]_ingestVars
  PROVE  IngestInv' /\ (main' = main \/ Extends(main', main))
<1>1. CASE Start
  BY <1>1, StartKeeps DEF Start, queueVars
<1>2. ASSUME NEW s \in Registered, FetchFails(s)
      PROVE  IngestInv' /\ main' = main
  BY <1>2, FetchFailsKeeps DEF FetchFails, queueVars
<1>3. ASSUME NEW s \in Registered, Fetch(s)
      PROVE  IngestInv' /\ main' = main
  BY <1>3, FetchKeeps DEF Fetch, queueVars
<1>13. ASSUME NEW c \in staged, DispatchStaged(c)
       PROVE  IngestInv' /\ main' = main
  BY <1>13, DispatchKeeps DEF DispatchStaged, queueVars
<1>4. CASE ProposeNothing
  <2>1. JobEnds /\ UNCHANGED <<now, queueVars, worldVars>> /\ main' = main
    BY <1>4 DEF ProposeNothing, queueVars
  <2>2. QED BY <2>1, OthersKept, JobEndsKeeps
<1>5. CASE Kill
  <2>1. JobEnds /\ UNCHANGED <<now, queueVars, worldVars>> /\ main' = main
    BY <1>5 DEF Kill, queueVars
  <2>2. QED BY <2>1, OthersKept, JobEndsKeeps
<1>6. ASSUME NEW b \in Branches, Propose(b)
      PROVE  IngestInv' /\ main' = main
  BY <1>6, ProposeKeeps DEF Propose
<1>7. ASSUME NEW b \in Branches, Merge(b)
      PROVE  IngestInv' /\ Extends(main', main)
  BY <1>7, MergeKeeps
<1>8. ASSUME NEW b \in Branches, Close(b)
      PROVE  IngestInv' /\ main' = main
  BY <1>8, CloseKeeps DEF Close
<1>9. ASSUME NEW s \in Registered, NEW t \in Covers[s], NEW v \in TrackStates(t),
             Publish(s, t, v)
      PROVE  IngestInv' /\ main' = main
  BY <1>9, PublishKeeps DEF Publish, queueVars
<1>10. CASE TimePasses
  BY <1>10, TimePassesKeeps DEF TimePasses, queueVars
<1>11. CASE UNCHANGED ingestVars
  <2>1. /\ UNCHANGED <<vars, base, todo>>
        /\ UNCHANGED <<now, queueVars, worldVars>>
        /\ main' = main /\ base' = base
    BY <1>11 DEF ingestVars, vars, queueVars, worldVars
  <2>2. Running' => Extends(main', base')
    BY <2>1 DEF IngestInv, Running
  <2>3. QED BY <2>1, <2>2, OthersKept, CheckoutKept DEF Others, IngestInv
<1>14. QED
  BY <1>1, <1>2, <1>3, <1>4, <1>5, <1>6, <1>7, <1>8, <1>9, <1>10, <1>11, <1>13
  DEF IngestNext

LEMMA IngestStarts == IngestInit => IngestInv
<1> SUFFICES ASSUME IngestInit PROVE IngestInv
  OBVIOUS
<1>1. /\ Checkout = Empty /\ main = Empty /\ ~Running /\ now = 0 /\ todo = {}
      /\ Done
  BY DEF IngestInit, Init, Checkout, Empty, Running, Done
<1>2. Sound(Empty)
  BY EmptySound DEF Sound
<1>3. branch = [b \in Branches |-> None] /\ shown = Empty.seen
  BY DEF IngestInit
<1>4. \A s \in Registered : shown[s] \in Readings(s)
  <2>1. TAKE s \in Registered
  <2>2. s \in Sources /\ shown[s] = [t \in Covers[s] |-> Baseline[t]]
    BY <1>3, RegistryAssumption DEF Empty
  <2>3. \A t \in Covers[s] : Baseline[t] \in TrackStates(t)
    BY <2>2, TrackAssumption
  <2>4. QED BY <2>2, <2>3 DEF Readings
<1>5. RunSound
  BY <1>1, IdleRunSound
<1>6. QED BY <1>1, <1>2, <1>3, <1>4, <1>5 DEF IngestInv

LEMMA IngestInvariant == IngestSpec => []IngestInv
BY IngestStarts, IngestKeeps, PTL DEF IngestSpec

-----------------------------------------------------------------------------
(* What main is.                                                           *)

(* Whatever jobs were killed, refused or overtaken, the checkout, main and *)
(* both sides of every branch are stores of the shape the schemas pin.     *)
THEOREM IngestTypeCorrect == IngestSpec => []IngestTypeOK
<1>1. IngestInv => IngestTypeOK
  BY DEF IngestInv, RunSound, IngestTypeOK, Grown, Sound, Readings
<1>2. QED BY <1>1, IngestInvariant, PTL

(* A pair of reversals is surfaced once on main, whichever of the open     *)
(* branches wrote it: two branches that went on one chain never both land. *)
THEOREM FlapsSurfaceOnceOnMain == IngestSpec => []SurfacedOnceOnMain
<1>1. IngestInv => SurfacedOnceOnMain
  BY DEF IngestInv, Sound, SoundChains, SoundChain, SurfacedChain, SurfacedOnceOnMain,
     Main!SurfacedOnce
<1>2. QED BY <1>1, IngestInvariant, PTL

(* A source counts once for an event of main, whatever branches attached   *)
(* it.                                                                     *)
THEOREM SourcesCountOnceOnMain == IngestSpec => []CountedOnceOnMain
<1>1. IngestInv => CountedOnceOnMain
  BY DEF IngestInv, Sound, SoundChains, SoundChain, CountedChain, CountedOnceOnMain,
     Main!CountedOnce, Attaching, Main!Attaching
<1>2. QED BY <1>1, IngestInvariant, PTL

(* A chain on main is in the order of the days and within the windows of   *)
(* its event, however many branches were open on it.                       *)
THEOREM AnnotationsInWindowOnMain == IngestSpec => []InWindowOnMain
<1>1. \A type : Main!DampingWindow(type) = DampingWindow(type)
  BY DEF Main!DampingWindow, DampingWindow, Main!StatusTypes, StatusTypes
<1>2. \A time : Main!Day(time) = Day(time)
  BY DEF Main!Day, Day
<1>3. IngestInv => InWindowOnMain
  <2>1. SUFFICES ASSUME IngestInv, NEW i \in DOMAIN main.events
                 PROVE  InWindowChain(main.events[i], main.annotations[i])
    BY <1>1, <1>2 DEF InWindowChain, InWindowOnMain, Main!AnnotatedInWindow
  <2>2. QED BY <2>1 DEF IngestInv, Sound, SoundChains, SoundChain
<1>4. QED BY <1>3, IngestInvariant, PTL

-----------------------------------------------------------------------------
(* What the linter finds in the store of a job.                            *)

LEMMA CheckoutDuplicates ==
  TypeOK => (~Duplicates(Checkout) <=> NoDuplicateCandidates)
<1> SUFFICES ASSUME TypeOK
             PROVE  ~Duplicates(Checkout) <=> NoDuplicateCandidates
  OBVIOUS
<1>1. \A i \in DOMAIN events : events[i].observed \in Nat
  BY DEF TypeOK, Event
<1>2. Checkout.events = events
  BY DEF Checkout
<1>3. QED BY <1>1, <1>2, WindowAssumption DEF Duplicates, NoDuplicateCandidates

(* Under the same hypothesis the engine earns what the linter checks.      *)
LEMMA SoundIsEarned ==
  ASSUME NEW store, WellFormed(store), SoundChains(store), Unmixed
  PROVE  ~Unearned(store)
<1>1. SUFFICES ASSUME NEW i \in DOMAIN store.events,
                      NEW n \in DOMAIN store.annotations[i],
                      store.annotations[i][n].kind = "corroboration"
               PROVE  /\ AnyIndependent(store.annotations[i][n].sources,
                                        store.events[i].evidence)
                      /\ store.events[i].absence =>
                           \E s \in store.annotations[i][n].sources : ConfirmsAbsence(s)
  BY DEF Unearned
<1>2. EarnedChain(store.events[i], store.annotations[i])
  BY DEF SoundChains, SoundChain
<1>3. PairedChain(store.events[i], store.annotations[i])
  BY DEF SoundChains, SoundChain
<1>4. QED BY <1>1, <1>2, <1>3 DEF EarnedChain, PairedChain

(* Neither the checkout nor main has one key twice within the window.      *)
SingleInv == ~Duplicates(Checkout) /\ ~Duplicates(main)

LEMMA SingleKept ==
  ASSUME IngestInv, SingleInv, [IngestNext]_ingestVars
  PROVE  SingleInv'
<1>1. ASSUME main' = main, \/ Checkout' \in {Checkout, main}
                           \/ ~Duplicates(Checkout')
      PROVE  SingleInv'
  BY <1>1 DEF SingleInv, Duplicates
<1>2. ASSUME UNCHANGED <<seen, events, sidecars, annotations>>
      PROVE  Checkout' = Checkout
  BY <1>2 DEF Checkout
<1>3. CASE Start
  <2>1. Checkout' = main
    BY <1>3, CheckedOut DEF Start, IngestInv, Sound
  <2>2. QED BY <1>1, <1>3, <2>1 DEF Start, queueVars
<1>4. ASSUME NEW s \in Registered, FetchFails(s)
      PROVE  SingleInv'
  BY <1>1, <1>2, <1>4 DEF FetchFails, queueVars, storeVars
<1>5. ASSUME [Next]_vars, main' = main
      PROVE  SingleInv'
  <2>1. [Next]_vars
    BY <1>5
  <2>2. EngineInv /\ TypeOK /\ Past /\ InOrder
    BY CheckoutSound DEF IngestInv, EngineInv
  <2>3. NoDuplicateCandidates
    BY <2>2, CheckoutDuplicates DEF SingleInv
  <2>4. TypeOK' /\ NoDuplicateCandidates'
    BY <2>1, <2>2, <2>3, TypeNext, NoDuplicateNext
  <2>5. (TypeOK => (~Duplicates(Checkout) <=> NoDuplicateCandidates))'
    BY CheckoutDuplicates, PTL
  <2>6. ~Duplicates(Checkout')
    BY <2>4, <2>5 DEF Duplicates
  <2>7. QED BY <1>1, <1>5, <2>6
<1>14. ASSUME NEW s \in Registered, Fetch(s)
       PROVE  SingleInv'
  BY <1>5, <1>14, FetchIsStep DEF Fetch, queueVars
<1>15. ASSUME NEW c \in staged, DispatchStaged(c)
       PROVE  SingleInv'
  BY <1>5, <1>15, DispatchIsStep DEF DispatchStaged, queueVars
<1>6. ASSUME JobEnds
      PROVE  ~Duplicates(Checkout')
  <2>1. Checkout' = Empty /\ DOMAIN Empty.events = {}
    BY <1>6, CheckedOut, EmptySound DEF JobEnds, Empty
  <2>2. QED BY <2>1 DEF Duplicates
<1>7. CASE ProposeNothing \/ Kill \/ \E b \in Branches : Propose(b)
  BY <1>1, <1>6, <1>7 DEF ProposeNothing, Kill, Propose, queueVars
<1>8. ASSUME NEW b \in Branches, Merge(b)
      PROVE  SingleInv'
  <2>1. ~Duplicates(main')
    BY <1>8 DEF Merge, Lands, Lint
  <2>2. Checkout' = Checkout
    BY <1>2, <1>8 DEF Merge, vars
  <2>3. QED BY <2>1, <2>2 DEF SingleInv, Duplicates
<1>9. ASSUME NEW b \in Branches, Close(b)
      PROVE  SingleInv'
  BY <1>1, <1>2, <1>9 DEF Close, vars
<1>10. ASSUME NEW s \in Registered, NEW t \in Covers[s], NEW v \in TrackStates(t),
              Publish(s, t, v)
       PROVE  SingleInv'
  BY <1>1, <1>2, <1>10 DEF Publish, queueVars, vars
<1>11. CASE TimePasses
  BY <1>1, <1>2, <1>11 DEF TimePasses, Tick, queueVars, storeVars
<1>12. CASE UNCHANGED ingestVars
  BY <1>1, <1>2, <1>12 DEF ingestVars, vars
<1>13. QED
  BY <1>3, <1>4, <1>7, <1>8, <1>9, <1>10, <1>11, <1>12, <1>14, <1>15 DEF IngestNext

(* Where no subject is mixed, the linter never refuses what a job wrote    *)
(* over a main that it had let through: no source is made to pay for what  *)
(* another one brought.  The run that checks JobsAreGreen has such sources *)
(* only; third_source shows what happens to a mixed subject.               *)
THEOREM JobsStayGreen == IngestSpec => [](Unmixed => JobsAreGreen)
<1>1. IngestInit => SingleInv
  <2>1. ASSUME IngestInit
        PROVE  Checkout = Empty /\ main = Empty /\ DOMAIN Empty.events = {}
    BY <2>1 DEF IngestInit, Init, Checkout, Empty
  <2>2. QED BY <2>1 DEF SingleInv, Duplicates
<1>2. IngestInv /\ SingleInv => (Unmixed => JobsAreGreen)
  BY SoundIsEarned DEF IngestInv, Sound, SingleInv, JobsAreGreen, Lint
<1>3. IngestInv /\ SingleInv /\ [IngestNext]_ingestVars => SingleInv'
  BY SingleKept
<1>4. QED BY <1>1, <1>2, <1>3, IngestInvariant, PTL DEF IngestSpec

=============================================================================
