------------------------ MODULE Corroboration_proofs ------------------------
(***************************************************************************)
(* Proofs about the corroboration engine.  Every step of the system leaves *)
(* the store alone, appends one annotation to one open event, or mints one *)
(* event; the lemmas of the first section say so, and each invariant is    *)
(* then a matter of these three cases.                                     *)
(***************************************************************************)
EXTENDS Corroboration, TLAPS

-----------------------------------------------------------------------------
(* What a step writes.                                                     *)

Idle == UNCHANGED storeVars

(* Annotate without its bound: one annotation, on one event.               *)
Annotated(i, a) ==
  /\ annotations' = [annotations EXCEPT ![i] = Append(@, a)]
  /\ UNCHANGED <<events, sidecars>>

Minted(c) ==
  /\ EventId(c) \notin DOMAIN events
  /\ events' = Extend(events, EventId(c), c)
  /\ sidecars' \subseteq sidecars \union {EventId(c)}
  /\ sidecars \subseteq sidecars'
  /\ annotations' \in {Extend(annotations, EventId(c), FirstChain(c)),
                       Extend(annotations, EventId(c), <<>>)}

(* What the engine writes on an open event i for candidate c.              *)
Appended(i, c, a) ==
  /\ i \in CandidatesWithin(c.observed)
  /\ events[i].key.subject = c.key.subject
  /\ a \in Annotation
  /\ a.sources \subseteq c.evidence
  /\ a.at = c.observed
  /\ a.kind = "flap" => Flapped(i)
  /\ a.kind = "rollback" =>
       /\ ~Flapped(i)
       /\ c.observed - events[i].observed < DampingWindow(events[i].key.type)
  /\ a.kind \in Attaching => ~Flapped(i) /\ a.sources = Novel(i, c)
  /\ a.kind = "corroboration" => Corroborates(i, c)
  /\ Annotated(i, a)

Stored(c) ==
  \/ Idle
  \/ \E i \in DOMAIN events, a \in Annotation : Appended(i, c, a)
  \/ Mints(c) /\ Minted(c)

(* Someone said it, and who did covers its subject.                        *)
Voiced(c) == c.evidence # {} /\ c.evidence \subseteq Voices(c.key.subject)

LEMMA CandidateVoiced ==
  ASSUME NEW s \in Registered, NEW t \in Covers[s], NEW old, NEW v
  PROVE  Voiced(Candidate(s, t, old, v))
<1> DEFINE k == KeyOf(t, old, v)
<1>1. t \in Tracks
  BY RegistryAssumption, TrackAssumption
<1>2. k.subject = t \/ (t \in IncidentTracks /\ k.subject = StatusPage)
  <2>1. CASE t \in LimitTracks
    BY <2>1 DEF KeyOf
  <2>2. CASE t \notin LimitTracks /\ t \in ModelTracks
    BY <2>2 DEF KeyOf
  <2>3. CASE t \in IncidentTracks /\ t \notin LimitTracks /\ t \notin ModelTracks
    BY <2>3 DEF KeyOf
  <2>4. QED BY <1>1, <2>1, <2>2, <2>3 DEF Tracks
<1>3. Candidate(s, t, old, v).key = k /\ Candidate(s, t, old, v).evidence = {s}
  BY DEF Candidate
<1> HIDE DEF k
<1>4. s \in Voices(k.subject)
  BY <1>2 DEF Voices
<1>5. QED BY <1>3, <1>4 DEF Voiced

LEMMA CandidateType ==
  ASSUME now \in Nat, NEW s \in Sources, NEW t \in Tracks,
         NEW old \in TrackStates(t), NEW v \in TrackStates(t)
  PROVE  /\ Candidate(s, t, old, v) \in Event
         /\ Candidate(s, t, old, v).observed = now
<1>1. KeyOf(t, old, v) \in EventKey
  <2>1. /\ old \in Values \union Tracks \union {None, "open", "resolved"}
        /\ v \in Values \union Tracks \union {None, "open", "resolved"}
    BY DEF TrackStates, Tracks
  <2>2. CASE t \in LimitTracks
    BY <2>1, <2>2, TrackAssumption DEF KeyOf, EventKey, EventTypes, StatusTypes
  <2>3. CASE t \in ModelTracks
    <3>1. t \notin LimitTracks
      BY <2>3, TrackAssumption
    <3>2. CASE v = t
      BY <2>1, <2>3, <3>1, <3>2 DEF KeyOf, EventKey, EventTypes, StatusTypes
    <3>3. CASE v # t
      BY <2>1, <2>3, <3>1, <3>3 DEF KeyOf, EventKey, EventTypes, StatusTypes
    <3>4. QED BY <3>2, <3>3
  <2>4. CASE t \in IncidentTracks
    <3>1. t \notin LimitTracks /\ t \notin ModelTracks
      BY <2>4, TrackAssumption
    <3>2. QED
      BY <2>1, <3>1 DEF KeyOf, EventKey, EventTypes, StatusTypes
  <2>5. QED BY <2>2, <2>3, <2>4 DEF Tracks
<1>2. QED BY <1>1 DEF Candidate, Event, IsAbsence

LEMMA AttachStores ==
  ASSUME TypeOK, NEW c \in Event, NEW i \in CandidatesWithin(c.observed),
         events[i].key.subject = c.key.subject, Attach(i, c)
  PROVE  Stored(c)
<1>1. i \in DOMAIN events
  BY DEF CandidatesWithin
<1>2. CASE AttachFlap(i, c)
  <2> DEFINE a == [kind |-> "flap", at |-> c.observed,
                   sources |-> IF Novel(i, c) # {} THEN Novel(i, c)
                               ELSE c.evidence]
  <2>1. a \in Annotation
    BY DEF Annotation, AnnotationKinds, Event, Novel
  <2>2. Appended(i, c, a)
    BY <1>2, <2>1 DEF AttachFlap, Annotate, Appended, Annotated, Attaching, Novel
  <2>3. QED BY <1>1, <2>1, <2>2 DEF Stored
<1>3. CASE AttachKnown(i, c)
  BY <1>3 DEF AttachKnown, Stored, Idle
<1>4. CASE AttachNovel(i, c)
  <2> DEFINE a == [kind |-> IF Corroborates(i, c) THEN "corroboration"
                            ELSE "mirror-corroborated",
                   at |-> c.observed, sources |-> Novel(i, c)]
  <2>1. a \in Annotation
    BY DEF Annotation, AnnotationKinds, Event, Novel
  <2>2. Appended(i, c, a)
    BY <1>4, <2>1 DEF AttachNovel, Annotate, Appended, Annotated, Attaching, Novel
  <2>3. QED BY <1>1, <2>1, <2>2 DEF Stored
<1>5. QED BY <1>2, <1>3, <1>4 DEF Attach

LEMMA DispatchStores ==
  ASSUME TypeOK, NEW c \in Event,
         Dispatch(c) \/ (Mints(c) /\ MintTorn(c))
  PROVE  Stored(c)
<1>1. CASE DispatchSameKey(c)
  <2>1. PICK i \in Latest(SameKey(c)) : Attach(i, c)
    BY <1>1 DEF DispatchSameKey
  <2>2. i \in CandidatesWithin(c.observed) /\ events[i].key.subject = c.key.subject
    BY DEF Latest, SameKey, HashMatches
  <2>3. QED BY <2>1, <2>2, AttachStores
<1>2. CASE DispatchReversal(c)
  <2>1. PICK i \in Reversed(c) : Damp(i, c)
    BY <1>2 DEF DispatchReversal
  <2>2. /\ i \in CandidatesWithin(c.observed)
        /\ i \in DOMAIN events
        /\ events[i].key.subject = c.key.subject
        /\ c.observed - events[i].observed < DampingWindow(events[i].key.type)
    BY DEF Reversed, DampedReversal, Latest, HashMatches, CandidatesWithin, InverseKey
  <2> DEFINE a == [kind |-> IF Flapped(i) THEN "flap" ELSE "rollback",
                   at |-> c.observed, sources |-> c.evidence]
  <2>3. a \in Annotation
    BY DEF Annotation, AnnotationKinds, Event
  <2>4. Appended(i, c, a)
    BY <2>1, <2>2, <2>3 DEF Damp, Annotate, Appended, Annotated, Attaching
  <2>5. QED BY <2>2, <2>3, <2>4 DEF Stored
<1>3. CASE DispatchEndState(c)
  <2>1. PICK i \in Latest(SameField(c)) : Attach(i, c)
    BY <1>3 DEF DispatchEndState
  <2>2. i \in CandidatesWithin(c.observed) /\ events[i].key.subject = c.key.subject
    BY DEF Latest, SameField, PartialMatches, PartialKey
  <2>3. QED BY <2>1, <2>2, AttachStores
<1>4. CASE DispatchConflict(c)
  <2>1. PICK i \in Latest(SameField(c)) : Discrepancy(i, c)
    BY <1>4 DEF DispatchConflict
  <2>2. /\ i \in CandidatesWithin(c.observed) /\ i \in DOMAIN events
        /\ events[i].key.subject = c.key.subject
    BY DEF Latest, SameField, PartialMatches, CandidatesWithin, PartialKey
  <2> DEFINE a == [kind |-> "discrepancy", at |-> c.observed,
                   sources |-> c.evidence]
  <2>3. a \in Annotation
    BY DEF Annotation, AnnotationKinds, Event
  <2>4. Appended(i, c, a)
    BY <2>1, <2>2, <2>3 DEF Discrepancy, Annotate, Appended, Annotated, Attaching
  <2>5. QED BY <2>2, <2>3, <2>4 DEF Stored
<1>5. CASE DispatchMint(c)
  BY <1>5 DEF DispatchMint, Mint, Stored, Idle, Minted
<1>6. CASE Mints(c) /\ MintTorn(c)
  BY <1>6 DEF MintTorn, Stored, Minted
<1>7. QED BY <1>1, <1>2, <1>3, <1>4, <1>5, <1>6 DEF Dispatch

(* What a source brings is observed now, and the source covers it.         *)
LEMMA CandidatesNew ==
  ASSUME TypeOK, NEW s \in Registered, NEW new \in Readings(s),
         NEW c \in Candidates(s, new)
  PROVE  /\ c \in Event /\ c.observed = now
         /\ c.evidence = {s}
         /\ Voiced(c)
<1>1. PICK t \in Covers[s] : c = Candidate(s, t, seen[s][t], new[t])
  BY DEF Candidates
<1>2. s \in Sources /\ t \in Tracks
  BY RegistryAssumption, TrackAssumption
<1>3. seen[s][t] \in TrackStates(t) /\ new[t] \in TrackStates(t)
  BY <1>2 DEF TypeOK, Readings
<1>4. c \in Event /\ c.observed = now
  BY <1>1, <1>2, <1>3, CandidateType DEF TypeOK
<1>5. c.evidence = {s}
  BY <1>1 DEF Candidate
<1>6. QED BY <1>1, <1>4, <1>5, CandidateVoiced

(* A candidate merged with its twins keeps its time and its key, and has   *)
(* the evidence of all of them.                                            *)
LEMMA JoinedKeeps ==
  ASSUME NEW c \in Event, NEW found \in SUBSET Event
  PROVE  /\ Joined(c, found) \in Event
         /\ Joined(c, found).observed = c.observed
         /\ Joined(c, found).key = c.key
         /\ c.evidence \subseteq Joined(c, found).evidence
         /\ \A r \in Joined(c, found).evidence :
              \/ r \in c.evidence
              \/ \E d \in found : d.key = c.key /\ r \in d.evidence
<1> DEFINE more == UNION {d.evidence : d \in Twins(c, found)}
<1>1. \A d \in Twins(c, found) : d \in found /\ d.key = c.key
  BY DEF Twins, EventId
<1>2. \A d \in found : d.evidence \subseteq Sources
  BY DEF Event
<1>3. more \subseteq Sources
  BY <1>1, <1>2
<1>4. \A r \in more : \E d \in found : d.key = c.key /\ r \in d.evidence
  BY <1>1
<1>5. Joined(c, found) = [c EXCEPT !.evidence = c.evidence \union more]
  BY DEF Joined
<1> HIDE DEF more
<1>6. QED BY <1>3, <1>4, <1>5 DEF Event

LEMMA MergedKeeps ==
  ASSUME TypeOK, NEW found \in SUBSET Event, NEW e \in MergedWith(found)
  PROVE  /\ e \in Event
         /\ \/ e \in found
            \/ \E c \in staged :
                 /\ e.observed = c.observed /\ e.key = c.key
                 /\ c.evidence \subseteq e.evidence
                 /\ \A r \in e.evidence :
                      \/ r \in c.evidence
                      \/ \E d \in found : d.key = c.key /\ r \in d.evidence
<1>1. CASE e \in found
  BY <1>1
<1>2. ASSUME NEW c \in staged, e = Joined(c, found)
      PROVE  /\ e \in Event
             /\ e.observed = c.observed /\ e.key = c.key
             /\ c.evidence \subseteq e.evidence
             /\ \A r \in e.evidence :
                  \/ r \in c.evidence
                  \/ \E d \in found : d.key = c.key /\ r \in d.evidence
  BY <1>2, JoinedKeeps DEF TypeOK
<1>3. QED BY <1>1, <1>2 DEF MergedWith

LEMMA CandidatesAreEvents ==
  ASSUME TypeOK, NEW s \in Registered, NEW new \in Readings(s)
  PROVE  Candidates(s, new) \in SUBSET Event
BY CandidatesNew

-----------------------------------------------------------------------------
(* The steps.                                                              *)

(* Every step of the system, seen from the store.                          *)
LEMMA Steps ==
  ASSUME TypeOK, [Next]_vars
  PROVE  \/ Idle /\ now' \in Nat /\ now <= now'
         \/ \E c \in staged :
              /\ c \in Event /\ now' = now /\ FirstInLine(c)
              /\ left' = <<>> /\ staged' \subseteq staged \ {c}
              /\ Stored(c)
<1>1. CASE Tick
  BY <1>1, TrackAssumption DEF Tick, Idle, storeVars, TypeOK
<1>2. ASSUME NEW s \in Registered, NEW new \in Readings(s), FetchSource(s, new)
      PROVE  Idle /\ now' \in Nat /\ now <= now'
  BY <1>2 DEF FetchSource, Idle, TypeOK
<1>3. ASSUME NEW c \in staged, DispatchNext(c) \/ StopTorn(c)
      PROVE  /\ c \in Event /\ now' = now /\ FirstInLine(c)
             /\ left' = <<>> /\ staged' \subseteq staged \ {c}
             /\ Stored(c)
  <2>1. c \in Event
    BY DEF TypeOK
  <2>2. CASE DispatchNext(c)
    BY <2>1, <2>2, DispatchStores DEF DispatchNext, Turn
  <2>3. CASE StopTorn(c)
    BY <2>1, <2>3, DispatchStores DEF StopTorn, Turn
  <2>4. QED BY <1>3, <2>2, <2>3
<1>4. ASSUME NEW c \in staged, DropInvalid(c)
      PROVE  Idle /\ now' \in Nat /\ now <= now'
  BY <1>4 DEF DropInvalid, Idle, TypeOK
<1>5. CASE Stop
  BY <1>5 DEF Stop, Idle, TypeOK
<1>6. CASE UNCHANGED vars
  BY <1>6 DEF vars, Idle, storeVars, TypeOK
<1>7. QED BY <1>1, <1>2, <1>3, <1>4, <1>5, <1>6 DEF Next

(* Every step, seen from the running collector.                            *)
LEMMA RunSteps ==
  ASSUME TypeOK, [Next]_vars
  PROVE  \/ Idle /\ left' = left /\ staged' \subseteq staged
         \/ left' = <<>> /\ staged' \subseteq staged
         \/ \E s \in Registered : \E new \in Readings(s) : FetchSource(s, new)
<1>1. CASE Tick
  BY <1>1 DEF Tick, Idle
<1>2. ASSUME NEW c \in staged, DispatchNext(c) \/ StopTorn(c)
      PROVE  left' = <<>> /\ staged' \subseteq staged
  BY <1>2 DEF DispatchNext, StopTorn, Turn
<1>3. ASSUME NEW c \in staged, DropInvalid(c)
      PROVE  left' = <<>> /\ staged' \subseteq staged
  BY <1>3 DEF DropInvalid, Turn
<1>4. CASE Stop
  BY <1>4 DEF Stop
<1>5. CASE UNCHANGED vars
  BY <1>5 DEF vars, Idle, storeVars
<1>6. QED BY <1>1, <1>2, <1>3, <1>4, <1>5 DEF Next

(* The chain of the annotated event gains its last element, no other chain *)
(* changes.                                                                *)
LEMMA ChainGrows ==
  ASSUME TypeOK, NEW i \in DOMAIN events, NEW a \in Annotation, Annotated(i, a)
  PROVE  /\ \A j \in DOMAIN events : j # i => annotations'[j] = annotations[j]
         /\ annotations'[i] \in Seq(Annotation)
         /\ Len(annotations[i]) + 1 \notin DOMAIN annotations[i]
         /\ DOMAIN annotations'[i] =
              DOMAIN annotations[i] \union {Len(annotations[i]) + 1}
         /\ annotations'[i][Len(annotations[i]) + 1] = a
         /\ \A n \in DOMAIN annotations[i] :
              /\ annotations'[i][n] = annotations[i][n]
              /\ n \in Nat
              /\ n < Len(annotations[i]) + 1
<1>1. annotations[i] \in Seq(Annotation)
  BY DEF TypeOK
<1>2. /\ annotations'[i] = Append(annotations[i], a)
      /\ \A j \in DOMAIN events : j # i => annotations'[j] = annotations[j]
  BY DEF Annotated, TypeOK
<1>3. QED BY <1>1, <1>2

-----------------------------------------------------------------------------
(* Type correctness.                                                       *)

LEMMA SeenType ==
  ASSUME TypeOK, [Next]_vars
  PROVE  /\ DOMAIN seen' = Sources
         /\ \A s \in Sources :
              /\ DOMAIN seen'[s] = Covers[s]
              /\ \A t \in Covers[s] : seen'[s][t] \in TrackStates(t)
<1>1. CASE UNCHANGED seen
  BY <1>1 DEF TypeOK
<1>2. ASSUME NEW s \in Registered, NEW new \in Readings(s), FetchSource(s, new)
      PROVE  /\ DOMAIN seen' = Sources
             /\ \A r \in Sources :
                  /\ DOMAIN seen'[r] = Covers[r]
                  /\ \A t \in Covers[r] : seen'[r][t] \in TrackStates(t)
  BY <1>2, RegistryAssumption DEF FetchSource, Readings, TypeOK
<1>3. QED
  BY <1>1, <1>2
  DEF Next, vars, Tick, DispatchNext, DropInvalid, StopTorn, Stop

LEMMA TakesType ==
  ASSUME TypeOK, NEW s, TakeSource(s)
  PROVE  left' \in Seq(Registered)
<1>1. CASE left # <<>> /\ left' = Tail(left)
  BY <1>1 DEF TypeOK
<1>2. ASSUME NEW c \in Collectors, left' = Tail(c)
      PROVE  left' \in Seq(Registered)
  BY <1>2, CollectorAssumption
<1>3. QED BY <1>1, <1>2 DEF TakeSource

LEMMA RunType ==
  ASSUME TypeOK, [Next]_vars
  PROVE  left' \in Seq(Registered) /\ staged' \subseteq Event
<1>1. CASE (left' = left \/ left' = <<>>) /\ staged' \subseteq staged
  <2>1. left \in Seq(Registered) /\ <<>> \in Seq(Registered) /\ staged \subseteq Event
    BY DEF TypeOK
  <2>2. left' \in Seq(Registered)
    BY <1>1, <2>1
  <2>3. QED BY <1>1, <2>1, <2>2
<1>2. ASSUME NEW s \in Registered, NEW new \in Readings(s), FetchSource(s, new)
      PROVE  left' \in Seq(Registered) /\ staged' \subseteq Event
  <2>1. left' \in Seq(Registered)
    BY <1>2, TakesType DEF FetchSource
  <2>2. \A e \in MergedWith(Candidates(s, new)) : e \in Event
    BY CandidatesAreEvents, MergedKeeps
  <2>3. QED BY <1>2, <2>1, <2>2 DEF FetchSource
<1>3. QED BY <1>1, <1>2, RunSteps

LEMMA FirstChainType ==
  ASSUME NEW c \in Event
  PROVE  FirstChain(c) \in Seq(Annotation) /\ <<>> \in Seq(Annotation)
<1>1. [kind |-> "note", sources |-> c.evidence, at |-> c.observed] \in Annotation
  BY DEF Event, Annotation, AnnotationKinds
<1>2. QED BY <1>1 DEF FirstChain

StoreType ==
  /\ events = [i \in DOMAIN events |-> events[i]]
  /\ \A i \in DOMAIN events : events[i] \in Event /\ i = EventId(events[i])
  /\ sidecars \subseteq DOMAIN events
  /\ annotations = [i \in DOMAIN annotations |-> annotations[i]]
  /\ DOMAIN annotations = DOMAIN events
  /\ \A i \in DOMAIN events : annotations[i] \in Seq(Annotation)

LEMMA StoredType ==
  ASSUME TypeOK, NEW c \in Event, Stored(c)
  PROVE  StoreType'
<1>1. CASE Idle
  BY <1>1 DEF Idle, storeVars, TypeOK, StoreType, EventId
<1>2. ASSUME NEW i \in DOMAIN events, NEW a \in Annotation, Appended(i, c, a)
      PROVE  StoreType'
  <2>1. Annotated(i, a)
    BY <1>2 DEF Appended
  <2>2. \A j \in DOMAIN events : annotations'[j] \in Seq(Annotation)
    BY <2>1, ChainGrows DEF TypeOK
  <2>3. QED
    BY <2>1, <2>2 DEF Annotated, TypeOK, StoreType, EventId
<1>3. CASE Minted(c)
  <2>1. events' = Extend(events, EventId(c), c)
    BY <1>3 DEF Minted
  <2>2. PICK chain \in Seq(Annotation) :
          annotations' = Extend(annotations, EventId(c), chain)
    BY <1>3, FirstChainType DEF Minted
  <2>3. /\ events' = [i \in DOMAIN events' |-> events'[i]]
        /\ annotations' = [i \in DOMAIN annotations' |-> annotations'[i]]
    BY <2>1, <2>2 DEF Extend
  <2>4. /\ DOMAIN events' = DOMAIN events \union {EventId(c)}
        /\ DOMAIN annotations' = DOMAIN events'
    BY <2>1, <2>2 DEF Extend, TypeOK
  <2>5. \A i \in DOMAIN events' : events'[i] \in Event /\ i = EventId(events'[i])
    BY <2>1, <2>4 DEF Extend, TypeOK
  <2>6. \A i \in DOMAIN events' : annotations'[i] \in Seq(Annotation)
    BY <2>2, <2>4 DEF Extend, TypeOK
  <2>7. sidecars' \subseteq DOMAIN events'
    BY <1>3, <2>4 DEF Minted, TypeOK
  <2>8. QED
    BY <2>3, <2>4, <2>5, <2>6, <2>7 DEF StoreType, EventId
<1>4. QED BY <1>1, <1>2, <1>3 DEF Stored

LEMMA TypeNext == TypeOK /\ [Next]_vars => TypeOK'
<1> SUFFICES ASSUME TypeOK, [Next]_vars PROVE TypeOK'
  OBVIOUS
<1>1. StoreType'
  <2>1. CASE Idle
    BY <2>1 DEF Idle, storeVars, TypeOK, StoreType, EventId
  <2>2. QED BY <2>1, Steps, StoredType
<1>2. now' \in Nat
  BY Steps DEF TypeOK
<1>3. QED BY <1>1, <1>2, SeenType, RunType DEF TypeOK, StoreType

(* Every file the collectors write has its schema's shape and lies under   *)
(* the id its own content mints, for any registry, windows and tracks.     *)
THEOREM TypeCorrect == Spec => []TypeOK
<1>1. Init => TypeOK
  BY TrackAssumption, RegistryAssumption DEF Init, TypeOK
<1>2. QED BY <1>1, TypeNext, PTL DEF Spec

-----------------------------------------------------------------------------
(* Nothing in the store lies in the future.                                *)

Past ==
  /\ \A i \in DOMAIN events :
       /\ events[i].observed <= now
       /\ \A n \in DOMAIN annotations[i] : annotations[i][n].at <= now
  /\ \A c \in staged : c.observed <= now

LEMMA ChainType ==
  ASSUME TypeOK, NEW i \in DOMAIN events, NEW n \in DOMAIN annotations[i]
  PROVE  annotations[i][n] \in Annotation
<1>1. annotations[i] \in Seq(Annotation)
  BY DEF TypeOK
<1>2. QED BY <1>1

LEMMA ChainLength ==
  ASSUME TypeOK, NEW i \in DOMAIN events
  PROVE  /\ Len(annotations[i]) \in Nat
         /\ DOMAIN annotations[i] = 1 .. Len(annotations[i])
<1>1. annotations[i] \in Seq(Annotation)
  BY DEF TypeOK
<1>2. QED BY <1>1

(* The collector comes to candidate c.                                     *)
Comes(c) ==
  /\ c \in staged /\ now' = now /\ FirstInLine(c)
  /\ left' = <<>> /\ staged' \subseteq staged \ {c}

(* The three ways the store changes, with the chains written out.          *)
LEMMA Cases ==
  ASSUME TypeOK, [Next]_vars
  PROVE  \/ /\ Idle
            /\ now' \in Nat /\ now <= now'
         \/ \E c \in Event, i \in DOMAIN events, a \in Annotation :
              Comes(c) /\ Appended(i, c, a)
         \/ \E c \in Event : Comes(c) /\ Mints(c) /\ Minted(c)
BY Steps DEF Stored, TypeOK, Comes

LEMMA MintedAt ==
  ASSUME TypeOK, NEW c \in Event, Minted(c)
  PROVE  /\ DOMAIN events' = DOMAIN events \union {EventId(c)}
         /\ EventId(c) \notin DOMAIN events
         /\ events'[EventId(c)] = c
         /\ \A i \in DOMAIN events :
              events'[i] = events[i] /\ annotations'[i] = annotations[i]
         /\ \A n \in DOMAIN annotations'[EventId(c)] :
              /\ annotations'[EventId(c)][n].kind = "note"
              /\ annotations'[EventId(c)][n].at = c.observed
              /\ n = 1
<1>1. PICK chain \in {FirstChain(c), <<>>} :
        annotations' = Extend(annotations, EventId(c), chain)
  BY DEF Minted
<1>2. \A n \in DOMAIN chain :
        chain[n].kind = "note" /\ chain[n].at = c.observed /\ n = 1
  BY DEF FirstChain
<1>3. annotations'[EventId(c)] = chain
  BY <1>1 DEF Extend
<1>4. QED BY <1>1, <1>2, <1>3 DEF Minted, Extend, TypeOK

LEMMA StagedPast ==
  ASSUME TypeOK, Past, [Next]_vars
  PROVE  \A c \in staged' : c.observed <= now'
<1>1. now' \in Nat /\ now \in Nat /\ now <= now'
  BY Steps DEF TypeOK
<1>2. \A c \in staged : c.observed \in Nat /\ c.observed <= now
  BY DEF Past, TypeOK, Event
<1>3. CASE staged' \subseteq staged
  BY <1>1, <1>2, <1>3
<1>4. ASSUME NEW s \in Registered, NEW new \in Readings(s), FetchSource(s, new)
      PROVE  \A c \in staged' : c.observed <= now'
  <2>1. \A d \in Candidates(s, new) : d.observed = now
    BY CandidatesNew
  <2>2. ASSUME NEW e \in MergedWith(Candidates(s, new))
        PROVE  e.observed <= now
    BY <1>1, <1>2, <2>1, CandidatesAreEvents, MergedKeeps
  <2>3. QED BY <1>4, <2>2 DEF FetchSource
<1>5. QED BY <1>3, <1>4, RunSteps

LEMMA PastNext == TypeOK /\ Past /\ [Next]_vars => Past'
<1> SUFFICES ASSUME TypeOK, Past, [Next]_vars
             PROVE  \A i \in DOMAIN events' :
                      /\ events'[i].observed <= now'
                      /\ \A n \in DOMAIN annotations'[i] :
                           annotations'[i][n].at <= now'
  BY StagedPast DEF Past
<1>1. CASE Idle /\ now' \in Nat /\ now <= now'
  <2>1. \A i \in DOMAIN events : events[i].observed \in Nat
    BY DEF TypeOK, Event
  <2>2. \A i \in DOMAIN events : \A n \in DOMAIN annotations[i] :
          annotations[i][n].at \in Nat
    BY ChainType DEF Annotation
  <2>3. now \in Nat
    BY DEF TypeOK
  <2>4. SUFFICES ASSUME NEW i \in DOMAIN events
                 PROVE  /\ events[i].observed <= now'
                        /\ \A n \in DOMAIN annotations[i] :
                             annotations[i][n].at <= now'
    BY <1>1 DEF Idle, storeVars
  <2>5. QED BY <1>1, <2>1, <2>2, <2>3 DEF Past
<1>2. ASSUME NEW c \in Event, NEW i \in DOMAIN events, NEW a \in Annotation,
             Comes(c), Appended(i, c, a), NEW j \in DOMAIN events'
      PROVE  /\ events'[j].observed <= now'
             /\ \A n \in DOMAIN annotations'[j] : annotations'[j][n].at <= now'
  <2>1. Annotated(i, a) /\ a.at <= now /\ now' = now
    BY <1>2 DEF Appended, Comes, Past
  <2>2. events' = events
    BY <2>1 DEF Annotated
  <2>3. CASE j # i
    BY <2>1, <2>2, <2>3, ChainGrows DEF Past
  <2>4. CASE j = i
    BY <2>1, <2>2, <2>4, ChainGrows DEF Past
  <2>5. QED BY <2>3, <2>4
<1>3. ASSUME NEW c \in Event, Comes(c), Minted(c), NEW j \in DOMAIN events'
      PROVE  /\ events'[j].observed <= now'
             /\ \A n \in DOMAIN annotations'[j] : annotations'[j][n].at <= now'
  <2>1. now' = now /\ c.observed <= now
    BY <1>3 DEF Comes, Past
  <2>2. CASE j \in DOMAIN events
    BY <1>3, <2>1, <2>2, MintedAt DEF Past
  <2>3. CASE j = EventId(c)
    BY <1>3, <2>1, <2>3, MintedAt
  <2>4. QED BY <1>3, <2>2, <2>3, MintedAt
<1>4. QED BY <1>1, <1>2, <1>3, Cases

LEMMA NothingAhead == Spec => []Past
<1>1. Init => Past
  BY DEF Init, Past
<1>2. QED BY <1>1, TypeCorrect, PastNext, PTL DEF Spec

-----------------------------------------------------------------------------
(* What the running collector still holds, against what it already filed.  *)

LEMMA DayMonotone ==
  ASSUME NEW a \in Nat, NEW b \in Nat, a <= b
  PROVE  Day(a) \in Nat /\ Day(b) \in Nat /\ Day(a) <= Day(b)
<1> DEFINE D == DayLength
<1>1. D \in Nat \ {0}
  BY TrackAssumption
<1> DEFINE x == a \div D
           y == b \div D
<1>2. x \in Nat /\ y \in Nat
  BY <1>1
<1>3. a >= D * x /\ b < D * y + D
  BY <1>1
<1> HIDE DEF x, y, D
<1>4. CASE x >= y + 1
  <2>1. D * x >= D * (y + 1)
    BY <1>1, <1>2, <1>4
  <2>2. D * (y + 1) = D * y + D
    BY <1>1, <1>2
  <2>3. D * x \in Nat /\ D * y \in Nat
    BY <1>1, <1>2
  <2>4. QED BY <1>1, <1>2, <1>3, <2>1, <2>2, <2>3
<1>5. CASE x <= y
  BY <1>2, <1>5 DEF Day, x, y, D
<1>6. QED BY <1>2, <1>4, <1>5

(* All of it is from the sources of col.                                   *)
Holds(col) ==
  /\ \A n \in DOMAIN left : left[n] \in Fetches(col)
  /\ \A c \in staged : c.evidence \subseteq Fetches(col)

(* An event observed later than candidate c was minted in this run, for    *)
(* its id is of the same day.                                              *)
After(c, col) ==
  \A i \in DOMAIN events :
    c.observed < events[i].observed =>
      /\ Day(c.observed) = Day(events[i].observed)
      /\ events[i].evidence \subseteq Fetches(col)

(* Nothing was filed on a later day than that of candidate c.              *)
NotOutdone(c) ==
  \A i \in DOMAIN events : \A n \in DOMAIN annotations[i] :
    Day(annotations[i][n].at) <= Day(c.observed)

RunIs(col) ==
  /\ Holds(col)
  /\ \A c \in staged : After(c, col) /\ NotOutdone(c)

InOrder == Done \/ \E col \in Collectors : RunIs(col)

(* The source that is fetched next belongs to a collector that the rest of *)
(* the run belongs to.                                                     *)
LEMMA TakesFrom ==
  ASSUME TypeOK, InOrder, NEW s \in Registered, TakeSource(s)
  PROVE  \E col \in Collectors :
           /\ s \in Fetches(col)
           /\ \A n \in DOMAIN left' : left'[n] \in Fetches(col)
           /\ \A c \in staged : /\ c.evidence \subseteq Fetches(col)
                                 /\ After(c, col) /\ NotOutdone(c)
<1>1. CASE left # <<>> /\ s = Head(left) /\ left' = Tail(left)
  <2>1. PICK col \in Collectors : RunIs(col)
    BY <1>1 DEF InOrder, Done
  <2>2. \A n \in DOMAIN left : left[n] \in Fetches(col)
    BY <2>1 DEF RunIs, Holds
  <2>3. left \in Seq(Registered)
    BY DEF TypeOK
  <2>4. 1 \in DOMAIN left /\ s = left[1]
    BY <1>1, <2>3
  <2>5. \A n \in DOMAIN left' : n + 1 \in DOMAIN left /\ left'[n] = left[n + 1]
    BY <1>1, <2>3
  <2>6. QED BY <2>1, <2>2, <2>4, <2>5 DEF RunIs, Holds
<1>2. ASSUME NEW col \in Collectors, Done, s = Head(col), left' = Tail(col)
      PROVE  /\ s \in Fetches(col)
             /\ \A n \in DOMAIN left' : left'[n] \in Fetches(col)
             /\ staged = {}
  <2>1. col \in Seq(Registered) /\ col # <<>>
    BY CollectorAssumption
  <2>2. 1 \in DOMAIN col /\ s = col[1]
    BY <1>2, <2>1
  <2>3. \A n \in DOMAIN left' : n + 1 \in DOMAIN col /\ left'[n] = col[n + 1]
    BY <1>2, <2>1
  <2>4. QED BY <1>2, <2>2, <2>3 DEF Fetches, Done
<1>3. QED BY <1>1, <1>2 DEF TakeSource

LEMMA FetchInOrder ==
  ASSUME TypeOK, Past, InOrder, NEW s \in Registered, NEW new \in Readings(s),
         FetchSource(s, new)
  PROVE  InOrder'
<1> DEFINE found == Candidates(s, new)
<1>1. /\ TakeSource(s) /\ staged' = MergedWith(found)
      /\ events' = events /\ annotations' = annotations
  BY DEF FetchSource, storeVars
<1>2. PICK col \in Collectors :
        /\ s \in Fetches(col)
        /\ \A n \in DOMAIN left' : left'[n] \in Fetches(col)
        /\ \A c \in staged : /\ c.evidence \subseteq Fetches(col)
                              /\ After(c, col) /\ NotOutdone(c)
  BY <1>1, TakesFrom
<1>3. \A d \in found : d \in Event /\ d.observed = now /\ d.evidence = {s}
  BY CandidatesNew
<1> HIDE DEF found
<1>4. ASSUME NEW e, e.observed = now
      PROVE  After(e, col) /\ NotOutdone(e)
  <2>1. \A i \in DOMAIN events : events[i].observed \in Nat /\ events[i].observed <= now
    BY DEF TypeOK, Event, Past
  <2>2. now \in Nat
    BY DEF TypeOK
  <2>3. After(e, col)
    BY <1>4, <2>1, <2>2 DEF After
  <2>4. ASSUME NEW i \in DOMAIN events, NEW n \in DOMAIN annotations[i]
        PROVE  Day(annotations[i][n].at) <= Day(e.observed)
    <3>1. annotations[i][n].at \in Nat /\ annotations[i][n].at <= now
      BY ChainType DEF Annotation, Past
    <3>2. QED BY <1>4, <2>2, <3>1, DayMonotone
  <2>5. QED BY <2>3, <2>4 DEF NotOutdone
<1>5. ASSUME NEW e \in MergedWith(found)
      PROVE  e.evidence \subseteq Fetches(col) /\ After(e, col) /\ NotOutdone(e)
  <2>1. CASE e \in found
    BY <1>2, <1>3, <1>4, <2>1
  <2>2. ASSUME NEW c \in staged, e.observed = c.observed,
               \A r \in e.evidence :
                 \/ r \in c.evidence
                 \/ \E d \in found : d.key = c.key /\ r \in d.evidence
        PROVE  e.evidence \subseteq Fetches(col) /\ After(e, col) /\ NotOutdone(e)
    BY <1>2, <1>3, <2>2 DEF After, NotOutdone
  <2>3. found \in SUBSET Event
    BY <1>3
  <2>4. QED BY <2>1, <2>2, <2>3, MergedKeeps
<1>6. RunIs(col)'
  BY <1>1, <1>2, <1>5 DEF RunIs, Holds, After, NotOutdone, Fetches, Day
<1>7. QED BY <1>6 DEF InOrder

(* What is of no later day and not yet filed stays before what is filed.   *)
LEMMA ComesInOrder ==
  ASSUME TypeOK, NEW c \in Event, Comes(c), NEW d \in staged'
  PROVE  /\ d \in staged /\ d \in Event
         /\ c.observed \in Nat /\ d.observed \in Nat
         /\ Day(c.observed) <= Day(d.observed)
         /\ d.observed < c.observed => Day(d.observed) = Day(c.observed)
<1>1. d \in staged /\ d \in Event /\ Day(c.observed) <= Day(d.observed)
  BY DEF Comes, FirstInLine, TypeOK
<1>2. c.observed \in Nat /\ d.observed \in Nat
  BY <1>1 DEF Event
<1>3. ASSUME d.observed < c.observed
      PROVE  Day(d.observed) = Day(c.observed)
  <2>1. d.observed <= c.observed
    BY <1>2, <1>3
  <2>2. /\ Day(d.observed) \in Nat /\ Day(c.observed) \in Nat
        /\ Day(d.observed) <= Day(c.observed)
    BY <1>2, <2>1, DayMonotone
  <2>3. QED BY <1>1, <2>2
<1>4. QED BY <1>1, <1>2, <1>3

LEMMA AppendedInOrder ==
  ASSUME TypeOK, InOrder, NEW c \in Event, NEW i \in DOMAIN events,
         NEW a \in Annotation, Comes(c), Appended(i, c, a)
  PROVE  InOrder'
<1>1. PICK col \in Collectors : RunIs(col)
  BY DEF InOrder, Done, Comes
<1>2. Annotated(i, a) /\ events' = events /\ a.at = c.observed
  BY DEF Appended, Annotated
<1>3. ASSUME NEW d \in staged'
      PROVE  /\ d.evidence \subseteq Fetches(col)
             /\ After(d, col)' /\ NotOutdone(d)'
  <2>1. d \in staged /\ Day(c.observed) <= Day(d.observed)
    BY ComesInOrder
  <2>2. d.evidence \subseteq Fetches(col) /\ After(d, col) /\ NotOutdone(d)
    BY <1>1, <2>1 DEF RunIs, Holds
  <2>3. After(d, col)'
    BY <1>2, <2>2 DEF After, Fetches, Day
  <2>4. ASSUME NEW j \in DOMAIN events, NEW n \in DOMAIN annotations'[j]
        PROVE  Day(annotations'[j][n].at) <= Day(d.observed)
    <3>1. CASE j # i
      BY <1>2, <2>2, <3>1, ChainGrows DEF NotOutdone
    <3>2. CASE j = i
      BY <1>2, <2>1, <2>2, <3>2, ChainGrows DEF NotOutdone
    <3>3. QED BY <3>1, <3>2
  <2>5. NotOutdone(d)'
    BY <1>2, <2>4 DEF NotOutdone, Day
  <2>6. QED BY <2>2, <2>3, <2>5
<1>4. left' = <<>>
  BY DEF Comes
<1>5. RunIs(col)'
  BY <1>3, <1>4 DEF RunIs, Holds, Fetches
<1>6. QED BY <1>5 DEF InOrder

LEMMA MintedInOrder ==
  ASSUME TypeOK, InOrder, NEW c \in Event, Comes(c), Minted(c)
  PROVE  InOrder'
<1>1. PICK col \in Collectors : RunIs(col)
  BY DEF InOrder, Done, Comes
<1> DEFINE id == EventId(c)
<1>2. /\ DOMAIN events' = DOMAIN events \union {id}
      /\ events'[id] = c
      /\ \A n \in DOMAIN annotations'[id] : annotations'[id][n].at = c.observed
      /\ \A i \in DOMAIN events :
           events'[i] = events[i] /\ annotations'[i] = annotations[i]
  BY MintedAt
<1> HIDE DEF id
<1>3. c.evidence \subseteq Fetches(col)
  BY <1>1 DEF RunIs, Holds, Comes
<1>4. ASSUME NEW d \in staged'
      PROVE  /\ d.evidence \subseteq Fetches(col)
             /\ After(d, col)' /\ NotOutdone(d)'
  <2>1. /\ d \in staged /\ Day(c.observed) <= Day(d.observed)
        /\ d.observed < c.observed => Day(d.observed) = Day(c.observed)
    BY ComesInOrder
  <2>2. d.evidence \subseteq Fetches(col) /\ After(d, col) /\ NotOutdone(d)
    BY <1>1, <2>1 DEF RunIs, Holds
  <2>3. \A i \in DOMAIN events' :
          d.observed < events'[i].observed =>
            /\ Day(d.observed) = Day(events'[i].observed)
            /\ events'[i].evidence \subseteq Fetches(col)
    BY <1>2, <1>3, <2>1, <2>2 DEF After
  <2>4. \A i \in DOMAIN events' : \A n \in DOMAIN annotations'[i] :
          Day(annotations'[i][n].at) <= Day(d.observed)
    BY <1>2, <2>1, <2>2 DEF NotOutdone
  <2>5. QED BY <2>2, <2>3, <2>4 DEF After, NotOutdone, Fetches, Day
<1>5. left' = <<>>
  BY DEF Comes
<1>6. RunIs(col)'
  BY <1>4, <1>5 DEF RunIs, Holds, Fetches
<1>7. QED BY <1>6 DEF InOrder

LEMMA IdleInOrder ==
  ASSUME TypeOK, InOrder, Idle, left' = left \/ left' = <<>>, staged' \subseteq staged
  PROVE  InOrder'
<1>1. CASE Done
  BY <1>1 DEF Done, InOrder
<1>2. ASSUME NEW col \in Collectors, RunIs(col)
      PROVE  RunIs(col)'
  <2>1. Holds(col)'
    BY <1>2 DEF RunIs, Holds, Fetches
  <2>2. \A c \in staged' : After(c, col)' /\ NotOutdone(c)'
    BY <1>2 DEF RunIs, After, NotOutdone, Fetches, Day, Idle, storeVars
  <2>3. QED BY <2>1, <2>2 DEF RunIs
<1>3. QED BY <1>1, <1>2 DEF InOrder

LEMMA InOrderNext == TypeOK /\ Past /\ InOrder /\ [Next]_vars => InOrder'
<1> SUFFICES ASSUME TypeOK, Past, InOrder, [Next]_vars PROVE InOrder'
  OBVIOUS
<1>1. CASE Idle /\ (left' = left \/ left' = <<>>) /\ staged' \subseteq staged
  BY <1>1, IdleInOrder
<1>2. ASSUME NEW s \in Registered, NEW new \in Readings(s), FetchSource(s, new)
      PROVE  InOrder'
  BY <1>2, FetchInOrder
<1>3. ASSUME NEW c \in Event, NEW i \in DOMAIN events, NEW a \in Annotation,
             Comes(c), Appended(i, c, a)
      PROVE  InOrder'
  BY <1>3, AppendedInOrder
<1>4. ASSUME NEW c \in Event, Comes(c), Minted(c)
      PROVE  InOrder'
  BY <1>4, MintedInOrder
<1>5. QED BY <1>1, <1>2, <1>3, <1>4, Cases, RunSteps

LEMMA RunInOrder == Spec => []InOrder
<1>1. Init => InOrder
  BY DEF Init, InOrder, Done
<1>2. QED BY <1>1, TypeCorrect, NothingAhead, InOrderNext, PTL DEF Spec

-----------------------------------------------------------------------------
(* One event per identity key and attach window.                           *)

(* A step that mints found no open event of the candidate's own key.       *)
LEMMA MintsIsNew ==
  ASSUME NEW c, Mints(c), NEW i \in DOMAIN events,
         events[i].key = c.key, events[i].observed <= c.observed
  PROVE  ~(c.observed - events[i].observed < AttachWindow)
BY DEF Mints, SameKey, HashMatches, CandidatesWithin

(* Nor can it lie before an event of its own key: both would be of one day *)
(* and so of one id.                                                       *)
LEMMA MintsApart ==
  ASSUME TypeOK, InOrder, NEW c \in Event, Comes(c), Mints(c), Minted(c),
         NEW i \in DOMAIN events, events[i].key = c.key
  PROVE  events[i].observed + AttachWindow <= c.observed
<1>1. /\ events[i].observed \in Nat /\ c.observed \in Nat
      /\ i = EventId(events[i]) /\ EventId(c) \notin DOMAIN events
  BY DEF TypeOK, Event, Minted
<1>2. CASE events[i].observed <= c.observed
  BY <1>1, <1>2, MintsIsNew, WindowAssumption
<1>3. CASE c.observed < events[i].observed
  <2>1. PICK col \in Collectors : RunIs(col)
    BY DEF InOrder, Done, Comes
  <2>2. Day(c.observed) = Day(events[i].observed)
    BY <1>3, <2>1 DEF RunIs, After, Comes
  <2>3. QED BY <1>1, <2>2 DEF EventId
<1>4. QED BY <1>1, <1>2, <1>3

LEMMA NoDuplicateNext ==
  TypeOK /\ InOrder /\ NoDuplicateCandidates /\ [Next]_vars => NoDuplicateCandidates'
<1> SUFFICES ASSUME TypeOK, InOrder, NoDuplicateCandidates, [Next]_vars,
                    NEW i \in DOMAIN events', NEW j \in DOMAIN events', i # j,
                    events'[i].key = events'[j].key,
                    events'[i].observed <= events'[j].observed
             PROVE  events'[j].observed - events'[i].observed >= AttachWindow
  BY DEF NoDuplicateCandidates
<1>1. CASE events' = events
  BY <1>1 DEF NoDuplicateCandidates
<1>2. ASSUME NEW c \in Event, Comes(c), Mints(c), Minted(c)
      PROVE  events'[j].observed - events'[i].observed >= AttachWindow
  <2>1. CASE i \in DOMAIN events /\ j \in DOMAIN events
    BY <1>2, <2>1, MintedAt DEF NoDuplicateCandidates
  <2>2. CASE i \in DOMAIN events /\ j = EventId(c)
    <3>1. events'[i] = events[i] /\ events'[j] = c /\ events[i].key = c.key
      BY <1>2, <2>2, MintedAt
    <3>2. events[i].observed + AttachWindow <= c.observed
      BY <1>2, <2>2, <3>1, MintsApart
    <3>3. events[i].observed \in Nat /\ c.observed \in Nat
      BY <2>2 DEF TypeOK, Event
    <3>4. QED BY <3>1, <3>2, <3>3, WindowAssumption
  <2>3. CASE i = EventId(c) /\ j \in DOMAIN events
    <3>1. events'[i] = c /\ events'[j] = events[j] /\ events[j].key = c.key
      BY <1>2, <2>3, MintedAt
    <3>2. events[j].observed + AttachWindow <= c.observed
      BY <1>2, <2>3, <3>1, MintsApart
    <3>3. events[j].observed \in Nat /\ c.observed \in Nat
      BY <2>3 DEF TypeOK, Event
    <3>4. c.observed <= events[j].observed
      BY <3>1
    <3>5. QED BY <3>2, <3>3, <3>4, WindowAssumption
  <2>4. DOMAIN events' = DOMAIN events \union {EventId(c)}
    BY <1>2, MintedAt
  <2>5. QED BY <2>1, <2>2, <2>3, <2>4
<1>3. QED
  BY <1>1, <1>2, Cases DEF Idle, storeVars, Appended, Annotated

(* E-DUP of the store linter can never fire on a store these collectors    *)
(* wrote, torn mints included, whatever the windows and the registry.      *)
THEOREM OneEventPerWindow == Spec => []NoDuplicateCandidates
<1>1. Init => NoDuplicateCandidates
  BY DEF Init, NoDuplicateCandidates
<1>2. QED
  BY <1>1, TypeCorrect, RunInOrder, NoDuplicateNext, PTL DEF Spec

-----------------------------------------------------------------------------
(* Conflicting values.                                                     *)

LEMMA NoForkNext == TypeOK /\ InOrder /\ NoForkInWindow /\ [Next]_vars => NoForkInWindow'
<1> SUFFICES ASSUME TypeOK, InOrder, NoForkInWindow, [Next]_vars PROVE NoForkInWindow'
  OBVIOUS
<1>1. CASE events' = events /\ sidecars' = sidecars
  BY <1>1 DEF NoForkInWindow, SharesField, OneRun, Day, Fetches
<1>2. ASSUME NEW c \in Event, Comes(c), Mints(c), Minted(c)
      PROVE  NoForkInWindow'
  <2> SUFFICES ASSUME NEW j \in DOMAIN events', NEW i \in sidecars',
                      SharesField(i, j)', events'[i].observed < events'[j].observed,
                      ~OneRun(i, j)'
               PROVE  \E k \in sidecars' :
                        SharesField(k, j)' /\ events'[k].key.new = events'[j].key.old
    BY DEF NoForkInWindow
  <2>1. /\ sidecars \subseteq sidecars'
        /\ sidecars' \subseteq sidecars \union {EventId(c)}
        /\ sidecars \subseteq DOMAIN events
    BY <1>2 DEF Minted, TypeOK
  <2>2. /\ DOMAIN events' = DOMAIN events \union {EventId(c)}
        /\ events'[EventId(c)] = c
        /\ \A k \in DOMAIN events : events'[k] = events[k]
    BY <1>2, MintedAt
  <2>3. CASE j \in DOMAIN events /\ i \in sidecars
    <3>1. i \in DOMAIN events
      BY <2>1, <2>3
    <3>2. SharesField(i, j) /\ events[i].observed < events[j].observed /\ ~OneRun(i, j)
      BY <2>2, <2>3, <3>1 DEF SharesField, OneRun, Day, Fetches
    <3>3. PICK k \in sidecars : SharesField(k, j) /\ events[k].key.new = events[j].key.old
      BY <2>3, <3>2 DEF NoForkInWindow
    <3>4. QED BY <2>1, <2>2, <2>3, <3>3 DEF SharesField
  <2>4. CASE j \in DOMAIN events /\ i = EventId(c)
    <3>1. PICK col \in Collectors : RunIs(col)
      BY <1>2 DEF InOrder, Done, Comes
    <3>2. events'[i] = c /\ events'[j] = events[j] /\ c.observed < events[j].observed
      BY <2>2, <2>4
    <3>3. /\ Day(c.observed) = Day(events[j].observed)
          /\ events[j].evidence \subseteq Fetches(col)
          /\ c.evidence \subseteq Fetches(col)
      BY <1>2, <2>4, <3>1, <3>2 DEF RunIs, After, Holds, Comes
    <3>4. OneRun(i, j)'
      BY <3>2, <3>3 DEF OneRun, Day, Fetches
    <3>5. QED BY <3>4
  <2>5. CASE j = EventId(c)
    <3>1. c.observed \in Nat /\ events'[i].observed < c.observed
      BY <2>2, <2>5 DEF Event
    <3>2. i # EventId(c)
      BY <2>2, <3>1
    <3>3. i \in sidecars /\ i \in DOMAIN events
      BY <2>1, <3>2
    <3>4. i \in SameField(c)
      BY <1>2, <2>2, <2>5, <3>3
      DEF SameField, PartialMatches, CandidatesWithin, SharesField
    <3>5. PICK k \in Latest(SameField(c)) : c.key.old = events[k].key.new
      BY <1>2, <3>4 DEF Mints
    <3>6. /\ k \in sidecars /\ k \in DOMAIN events
          /\ PartialKey(events[k].key) = PartialKey(c.key)
          /\ events[k].observed <= c.observed
          /\ c.observed - events[k].observed < AttachWindow
      BY DEF Latest, SameField, PartialMatches, CandidatesWithin
    <3>7. QED BY <2>1, <2>2, <2>5, <3>5, <3>6 DEF SharesField
  <2>6. QED BY <2>1, <2>2, <2>3, <2>4, <2>5
<1>3. QED
  BY <1>1, <1>2, Cases DEF Idle, storeVars, Appended, Annotated

(* Sources that disagree about a field never end as two open events, even  *)
(* when a torn mint has left an event without its identity key -- unless   *)
(* one run of one collector saw both on one day, when the hash of their    *)
(* ids may put the later one first.                                        *)
THEOREM NoFork == Spec => []NoForkInWindow
<1>1. Init => NoForkInWindow
  BY DEF Init, NoForkInWindow
<1>2. QED
  BY <1>1, TypeCorrect, RunInOrder, NoForkNext, PTL DEF Spec

-----------------------------------------------------------------------------
(* Annotation chains.                                                      *)

LEMMA SurfacedNext == TypeOK /\ SurfacedOnce /\ [Next]_vars => SurfacedOnce'
<1> SUFFICES ASSUME TypeOK, SurfacedOnce, [Next]_vars PROVE SurfacedOnce'
  OBVIOUS
<1>1. CASE Idle
  BY <1>1 DEF Idle, storeVars, SurfacedOnce
<1>2. ASSUME NEW c \in Event, NEW i \in DOMAIN events, NEW a \in Annotation,
             Appended(i, c, a)
      PROVE  SurfacedOnce'
  <2> DEFINE new == Len(annotations[i]) + 1
  <2>1. Annotated(i, a) /\ events' = events
    BY <1>2 DEF Appended, Annotated
  <2>2. /\ \A j \in DOMAIN events : j # i => annotations'[j] = annotations[j]
        /\ DOMAIN annotations'[i] = DOMAIN annotations[i] \union {new}
        /\ annotations'[i][new] = a
        /\ \A n \in DOMAIN annotations[i] :
             annotations'[i][n] = annotations[i][n] /\ n \in Nat /\ n < new
        /\ new \in Nat
    BY <2>1, ChainGrows, ChainLength
  <2>3. a.kind = "flap" =>
          \E m \in DOMAIN annotations[i] : annotations[i][m].kind = "rollback"
    BY <1>2 DEF Appended, Flapped, Flappish, SurfacedOnce
  <2>4. \A n \in DOMAIN annotations[i] :
          annotations[i][n].kind = "rollback" =>
            a.kind \notin {"rollback", "corroboration", "mirror-corroborated"}
    BY <1>2 DEF Appended, Flapped, Flappish, Attaching
  <2>5. QED
    BY <2>1, <2>2, <2>3, <2>4 DEF SurfacedOnce
<1>3. ASSUME NEW c \in Event, Minted(c)
      PROVE  SurfacedOnce'
  <2>1. DOMAIN events' = DOMAIN events \union {EventId(c)}
    BY <1>3, MintedAt
  <2>2. /\ \A i \in DOMAIN events : annotations'[i] = annotations[i]
        /\ \A n \in DOMAIN annotations'[EventId(c)] :
             annotations'[EventId(c)][n].kind = "note"
    BY <1>3, MintedAt
  <2>3. QED BY <2>1, <2>2 DEF SurfacedOnce
<1>4. QED BY <1>1, <1>2, <1>3, Cases

(* A flapping pair surfaces once: after its rollback an event gathers no   *)
(* second rollback and nothing that counts toward confirmation.            *)
THEOREM FlapsSurfaceOnce == Spec => []SurfacedOnce
<1>1. Init => SurfacedOnce
  BY DEF Init, SurfacedOnce
<1>2. QED
  BY <1>1, TypeCorrect, SurfacedNext, PTL DEF Spec

LEMMA InWindowNext ==
  TypeOK /\ InOrder /\ AnnotatedInWindow /\ [Next]_vars => AnnotatedInWindow'
<1> SUFFICES ASSUME TypeOK, InOrder, AnnotatedInWindow, [Next]_vars
             PROVE  AnnotatedInWindow'
  OBVIOUS
<1>1. CASE Idle
  BY <1>1 DEF Idle, storeVars, AnnotatedInWindow, Day
<1>2. ASSUME NEW c \in Event, NEW i \in DOMAIN events, NEW a \in Annotation,
             Comes(c), Appended(i, c, a)
      PROVE  AnnotatedInWindow'
  <2> DEFINE new == Len(annotations[i]) + 1
  <2>1. Annotated(i, a) /\ events' = events
    BY <1>2 DEF Appended, Annotated
  <2>2. /\ \A j \in DOMAIN events : j # i => annotations'[j] = annotations[j]
        /\ DOMAIN annotations'[i] = DOMAIN annotations[i] \union {new}
        /\ annotations'[i][new] = a
        /\ \A n \in DOMAIN annotations[i] :
             annotations'[i][n] = annotations[i][n] /\ n \in Nat /\ n < new
        /\ new \in Nat
    BY <2>1, ChainGrows, ChainLength
  <2>3. /\ events[i].observed <= a.at
        /\ a.at - events[i].observed < AttachWindow
        /\ a.kind = "rollback" =>
             a.at - events[i].observed < DampingWindow(events[i].key.type)
    BY <1>2 DEF Appended, CandidatesWithin
  <2>4. a.at = c.observed /\ c.observed \in Nat
    BY <1>2 DEF Appended, Event
  <2>5. PICK col \in Collectors : RunIs(col)
    BY <1>2 DEF InOrder, Done, Comes
  <2>6. \A n \in DOMAIN annotations[i] : Day(annotations[i][n].at) <= Day(a.at)
    BY <1>2, <2>4, <2>5 DEF RunIs, NotOutdone, Comes
  <2>7. Day(a.at) <= Day(a.at)
    BY <2>4, DayMonotone
  <2> DEFINE Good(j, n) ==
        /\ events'[j].observed <= annotations'[j][n].at
        /\ annotations'[j][n].at - events'[j].observed < AttachWindow
        /\ annotations'[j][n].kind = "rollback" =>
             annotations'[j][n].at - events'[j].observed
               < DampingWindow(events'[j].key.type)
        /\ \A m \in DOMAIN annotations'[j] :
             m <= n => Day(annotations'[j][m].at) <= Day(annotations'[j][n].at)
  <2>8. ASSUME NEW j \in DOMAIN events, j # i, NEW n \in DOMAIN annotations'[j]
        PROVE  Good(j, n)
    BY <2>1, <2>2, <2>8 DEF AnnotatedInWindow
  <2>9. ASSUME NEW n \in DOMAIN annotations[i]
        PROVE  Good(i, n)
    <3>1. ~(new <= n)
      BY <2>2
    <3>2. QED BY <2>1, <2>2, <3>1 DEF AnnotatedInWindow
  <2>10. Good(i, new)
    BY <2>1, <2>2, <2>3, <2>6, <2>7
  <2>11. \A j \in DOMAIN events' : \A n \in DOMAIN annotations'[j] : Good(j, n)
    BY <2>1, <2>2, <2>8, <2>9, <2>10
  <2>12. QED BY <2>11 DEF AnnotatedInWindow, Day
<1>3. ASSUME NEW c \in Event, Minted(c)
      PROVE  AnnotatedInWindow'
  <2>1. DOMAIN events' = DOMAIN events \union {EventId(c)}
    BY <1>3, MintedAt
  <2>2. \A i \in DOMAIN events :
          annotations'[i] = annotations[i] /\ events'[i] = events[i]
    BY <1>3, MintedAt
  <2>3. /\ \A n \in DOMAIN annotations'[EventId(c)] :
             /\ annotations'[EventId(c)][n].kind = "note"
             /\ annotations'[EventId(c)][n].at = c.observed
        /\ events'[EventId(c)] = c
    BY <1>3, MintedAt
  <2>4. c.observed \in Nat
    BY DEF Event
  <2>5. Day(c.observed) <= Day(c.observed)
    BY <2>4, DayMonotone
  <2>6. QED
    BY <2>1, <2>2, <2>3, <2>4, <2>5, WindowAssumption DEF AnnotatedInWindow, Day
<1>4. QED BY <1>1, <1>2, <1>3, Cases

(* An event gathers annotations only while it is open, a rollback only     *)
(* inside its damping window, and its chain never goes back to an earlier  *)
(* day; within a day it may go back, for ids sort by hash there.           *)
THEOREM AnnotationsInWindow == Spec => []AnnotatedInWindow
<1>1. Init => AnnotatedInWindow
  BY DEF Init, AnnotatedInWindow
<1>2. QED
  BY <1>1, TypeCorrect, RunInOrder, InWindowNext, PTL DEF Spec

LEMMA KnownGrows ==
  ASSUME TypeOK, NEW i \in DOMAIN events, NEW a \in Annotation, Annotated(i, a)
  PROVE  /\ KnownSources(i) \subseteq KnownSources(i)'
         /\ a.sources \subseteq KnownSources(i)'
         /\ \A j \in DOMAIN events : j # i => KnownSources(j)' = KnownSources(j)
<1> DEFINE new == Len(annotations[i]) + 1
<1>1. /\ \A j \in DOMAIN events : j # i => annotations'[j] = annotations[j]
      /\ DOMAIN annotations'[i] = DOMAIN annotations[i] \union {new}
      /\ annotations'[i][new] = a
      /\ \A n \in DOMAIN annotations[i] : annotations'[i][n] = annotations[i][n]
  BY ChainGrows
<1>2. events' = events
  BY DEF Annotated
<1>3. \A j \in DOMAIN events : j # i => KnownSources(j)' = KnownSources(j)
  BY <1>1, <1>2 DEF KnownSources
<1>4. ASSUME NEW s \in a.sources
      PROVE  s \in KnownSources(i)'
  <2>1. new \in DOMAIN annotations'[i] /\ s \in annotations'[i][new].sources
    BY <1>1
  <2>2. QED BY <2>1 DEF KnownSources
<1>5. ASSUME NEW s \in KnownSources(i)
      PROVE  s \in KnownSources(i)'
  <2>1. CASE s \in events[i].evidence
    BY <1>2, <2>1 DEF KnownSources
  <2>2. CASE \E n \in DOMAIN annotations[i] : s \in annotations[i][n].sources
    <3>1. PICK n \in DOMAIN annotations[i] : s \in annotations[i][n].sources
      BY <2>2
    <3>2. n \in DOMAIN annotations'[i] /\ s \in annotations'[i][n].sources
      BY <1>1, <3>1
    <3>3. QED BY <3>2 DEF KnownSources
  <2>3. QED BY <1>5, <2>1, <2>2 DEF KnownSources
<1>6. QED BY <1>3, <1>4, <1>5

LEMMA PairNext == TypeOK /\ ClaimNeedsPair /\ [Next]_vars => ClaimNeedsPair'
<1> SUFFICES ASSUME TypeOK, ClaimNeedsPair, [Next]_vars PROVE ClaimNeedsPair'
  OBVIOUS
<1>1. CASE Idle
  <2>1. \A i \in DOMAIN events : KnownSources(i)' = KnownSources(i)
    BY <1>1 DEF Idle, storeVars, KnownSources
  <2>2. QED BY <1>1, <2>1 DEF Idle, storeVars, ClaimNeedsPair, AnyIndependent
<1>2. ASSUME NEW c \in Event, NEW i \in DOMAIN events, NEW a \in Annotation,
             Appended(i, c, a)
      PROVE  ClaimNeedsPair'
  <2> DEFINE new == Len(annotations[i]) + 1
  <2>1. Annotated(i, a) /\ events' = events
    BY <1>2 DEF Appended, Annotated
  <2>2. /\ \A j \in DOMAIN events : j # i => annotations'[j] = annotations[j]
        /\ DOMAIN annotations'[i] = DOMAIN annotations[i] \union {new}
        /\ annotations'[i][new] = a
        /\ \A n \in DOMAIN annotations[i] :
             annotations'[i][n] = annotations[i][n] /\ n \in Nat /\ n < new
        /\ new \in Nat
    BY <2>1, ChainGrows, ChainLength
  <2>3. /\ KnownSources(i) \subseteq KnownSources(i)'
        /\ a.sources \subseteq KnownSources(i)'
        /\ \A j \in DOMAIN events : j # i => KnownSources(j)' = KnownSources(j)
    BY <2>1, KnownGrows
  <2>4. AnyIndependent(KnownSources(i), KnownSources(i)) =>
          AnyIndependent(KnownSources(i)', KnownSources(i)')
    BY <2>3 DEF AnyIndependent
  <2>5. a.kind = "corroboration" =>
          /\ AnyIndependent(KnownSources(i)', KnownSources(i)')
          /\ events[i].absence => \E s \in a.sources : ConfirmsAbsence(s)
    BY <1>2, <2>3 DEF Appended, Attaching, Corroborates, AnyIndependent
  <2>6. QED BY <2>1, <2>2, <2>3, <2>4, <2>5 DEF ClaimNeedsPair, AnyIndependent
<1>3. ASSUME NEW c \in Event, Minted(c)
      PROVE  ClaimNeedsPair'
  <2>1. DOMAIN events' = DOMAIN events \union {EventId(c)}
    BY <1>3, MintedAt
  <2>2. /\ \A i \in DOMAIN events :
             annotations'[i] = annotations[i] /\ events'[i] = events[i]
        /\ \A n \in DOMAIN annotations'[EventId(c)] :
             annotations'[EventId(c)][n].kind = "note"
    BY <1>3, MintedAt
  <2>3. \A i \in DOMAIN events : KnownSources(i)' = KnownSources(i)
    BY <2>2 DEF KnownSources
  <2>4. QED BY <2>1, <2>2, <2>3 DEF ClaimNeedsPair, AnyIndependent
<1>4. QED BY <1>1, <1>2, <1>3, Cases

(* Two-source cannot be met within one lineage: a corroboration claim has  *)
(* an independent pair on record, and an absence a positive statement.     *)
THEOREM ClaimsNeedPairs == Spec => []ClaimNeedsPair
<1>1. Init => ClaimNeedsPair
  BY DEF Init, ClaimNeedsPair
<1>2. QED
  BY <1>1, TypeCorrect, PairNext, PTL DEF Spec

LEMMA CountedNext == TypeOK /\ CountedOnce /\ [Next]_vars => CountedOnce'
<1> SUFFICES ASSUME TypeOK, CountedOnce, [Next]_vars PROVE CountedOnce'
  OBVIOUS
<1>1. CASE Idle
  BY <1>1 DEF Idle, storeVars, CountedOnce
<1>2. ASSUME NEW c \in Event, NEW i \in DOMAIN events, NEW a \in Annotation,
             Appended(i, c, a)
      PROVE  CountedOnce'
  <2> DEFINE new == Len(annotations[i]) + 1
  <2>1. Annotated(i, a) /\ events' = events
    BY <1>2 DEF Appended, Annotated
  <2>2. /\ \A j \in DOMAIN events : j # i => annotations'[j] = annotations[j]
        /\ DOMAIN annotations'[i] = DOMAIN annotations[i] \union {new}
        /\ annotations'[i][new] = a
        /\ \A n \in DOMAIN annotations[i] :
             annotations'[i][n] = annotations[i][n] /\ n \in Nat /\ n < new
        /\ new \in Nat
    BY <2>1, ChainGrows, ChainLength
  <2>3. a.kind \in Attaching =>
          /\ a.sources \intersect events[i].evidence = {}
          /\ \A m \in DOMAIN annotations[i] :
               annotations[i][m].sources \intersect a.sources = {}
    BY <1>2 DEF Appended, Novel, KnownSources
  <2>4. ASSUME NEW n \in DOMAIN annotations[i]
        PROVE  ~(new < n)
    BY <2>2
  <2>5. QED BY <2>1, <2>2, <2>3, <2>4 DEF CountedOnce
<1>3. ASSUME NEW c \in Event, Minted(c)
      PROVE  CountedOnce'
  <2>1. DOMAIN events' = DOMAIN events \union {EventId(c)}
    BY <1>3, MintedAt
  <2>2. /\ \A i \in DOMAIN events :
             annotations'[i] = annotations[i] /\ events'[i] = events[i]
        /\ \A n \in DOMAIN annotations'[EventId(c)] :
             annotations'[EventId(c)][n].kind = "note"
    BY <1>3, MintedAt
  <2>3. QED BY <2>1, <2>2 DEF CountedOnce, Attaching
<1>4. QED BY <1>1, <1>2, <1>3, Cases

(* A source's statement about an event counts at most once.                *)
THEOREM SourcesCountOnce == Spec => []CountedOnce
<1>1. Init => CountedOnce
  BY DEF Init, CountedOnce
<1>2. QED
  BY <1>1, TypeCorrect, CountedNext, PTL DEF Spec

-----------------------------------------------------------------------------
(* When the documented claim holds.                                        *)

(* Whoever is on record for an event covers its subject.                   *)
VoicesKnown ==
  \A i \in DOMAIN events :
    /\ events[i].evidence # {}
    /\ KnownSources(i) \subseteq Voices(events[i].key.subject)

LEMMA KnownAfter ==
  ASSUME TypeOK, NEW i \in DOMAIN events, NEW a \in Annotation, Annotated(i, a)
  PROVE  KnownSources(i)' \subseteq KnownSources(i) \union a.sources
<1> DEFINE new == Len(annotations[i]) + 1
<1>1. /\ DOMAIN annotations'[i] = DOMAIN annotations[i] \union {new}
      /\ annotations'[i][new] = a
      /\ \A n \in DOMAIN annotations[i] : annotations'[i][n] = annotations[i][n]
  BY ChainGrows
<1>2. events' = events
  BY DEF Annotated
<1> HIDE DEF new
<1>3. QED BY <1>1, <1>2 DEF KnownSources

LEMMA MintedKnown ==
  ASSUME TypeOK, NEW c \in Event, Minted(c)
  PROVE  KnownSources(EventId(c))' = c.evidence
<1>1. PICK chain \in {FirstChain(c), <<>>} :
        annotations' = Extend(annotations, EventId(c), chain)
  BY DEF Minted
<1>2. \A n \in DOMAIN chain : chain[n].sources = c.evidence
  BY DEF FirstChain
<1>3. annotations'[EventId(c)] = chain /\ events'[EventId(c)] = c
  BY <1>1, MintedAt DEF Extend
<1>4. (EventId(c))' = EventId(c)
  BY DEF EventId
<1>5. QED BY <1>2, <1>3, <1>4 DEF KnownSources

AllVoiced == \A c \in staged : Voiced(c)

LEMMA AllVoicedNext == TypeOK /\ AllVoiced /\ [Next]_vars => AllVoiced'
<1> SUFFICES ASSUME TypeOK, AllVoiced, [Next]_vars PROVE AllVoiced'
  OBVIOUS
<1>1. CASE staged' \subseteq staged
  BY <1>1 DEF AllVoiced, Voiced, Voices
<1>2. ASSUME NEW s \in Registered, NEW new \in Readings(s), FetchSource(s, new)
      PROVE  AllVoiced'
  <2>1. \A d \in Candidates(s, new) : Voiced(d)
    BY CandidatesNew
  <2>2. ASSUME NEW e \in MergedWith(Candidates(s, new))
        PROVE  Voiced(e)
    <3>1. ASSUME NEW c \in staged, e.key = c.key, c.evidence \subseteq e.evidence,
                 \A r \in e.evidence :
                   \/ r \in c.evidence
                   \/ \E d \in Candidates(s, new) : d.key = c.key /\ r \in d.evidence
          PROVE  Voiced(e)
      BY <2>1, <3>1 DEF AllVoiced, Voiced
    <3>2. QED BY <2>1, <3>1, CandidatesAreEvents, MergedKeeps
  <2>3. staged' = MergedWith(Candidates(s, new))
    BY <1>2 DEF FetchSource
  <2>4. QED BY <2>2, <2>3 DEF AllVoiced, Voiced, Voices
<1>3. QED BY <1>1, <1>2, RunSteps

LEMMA VoicesNext == TypeOK /\ AllVoiced /\ VoicesKnown /\ [Next]_vars => VoicesKnown'
<1> SUFFICES ASSUME TypeOK, AllVoiced, VoicesKnown, [Next]_vars PROVE VoicesKnown'
  OBVIOUS
<1> USE DEF Voices
<1>1. CASE Idle
  BY <1>1 DEF Idle, storeVars, VoicesKnown, KnownSources
<1>2. ASSUME NEW c \in Event, NEW i \in DOMAIN events, NEW a \in Annotation,
             Comes(c), Appended(i, c, a)
      PROVE  VoicesKnown'
  <2>1. /\ Annotated(i, a) /\ events' = events
        /\ a.sources \subseteq Voices(events[i].key.subject)
    BY <1>2 DEF Appended, Annotated, Comes, AllVoiced, Voiced
  <2>2. /\ KnownSources(i)' \subseteq KnownSources(i) \union a.sources
        /\ \A j \in DOMAIN events : j # i => KnownSources(j)' = KnownSources(j)
    BY <2>1, KnownAfter, KnownGrows
  <2>3. QED BY <2>1, <2>2 DEF VoicesKnown
<1>3. ASSUME NEW c \in Event, Comes(c), Minted(c)
      PROVE  VoicesKnown'
  <2>1. /\ DOMAIN events' = DOMAIN events \union {EventId(c)}
        /\ events'[EventId(c)] = c
        /\ \A i \in DOMAIN events :
             annotations'[i] = annotations[i] /\ events'[i] = events[i]
    BY <1>3, MintedAt
  <2>2. KnownSources(EventId(c))' = c.evidence
    BY <1>3, MintedKnown
  <2>3. \A i \in DOMAIN events : KnownSources(i)' = KnownSources(i)
    BY <2>1 DEF KnownSources
  <2>4. Voiced(c)
    BY <1>3 DEF Comes, AllVoiced
  <2>5. QED BY <2>1, <2>2, <2>3, <2>4 DEF VoicesKnown, Voiced
<1>4. QED BY <1>1, <1>2, <1>3, Cases

Earned == Unmixed => ClaimIndependentOfEvidence

(* A voice that is independent of one on record is independent of the      *)
(* evidence, when its subject is not mixed.                                *)
LEMMA CorroboratesEvidence ==
  ASSUME TypeOK, VoicesKnown, Unmixed, NEW c \in Event, Voiced(c),
         NEW i \in DOMAIN events, events[i].key.subject = c.key.subject,
         Corroborates(i, c)
  PROVE  AnyIndependent(Novel(i, c), events[i].evidence)
<1>1. PICK s \in Novel(i, c), k \in KnownSources(i) : Independent(s, k)
  BY DEF Corroborates, AnyIndependent
<1>2. PICK e \in events[i].evidence : TRUE
  BY DEF VoicesKnown
<1>3. e \in KnownSources(i) /\ s \notin KnownSources(i) /\ s \in c.evidence
  BY DEF KnownSources, Novel
<1>4. {s, k, e} \subseteq Voices(c.key.subject)
  BY <1>3 DEF VoicesKnown, Voiced
<1>5. c.key.subject \in Tracks \union {StatusPage}
  BY DEF Event, EventKey
<1>6. Independent(s, e)
  BY <1>1, <1>3, <1>4, <1>5 DEF Unmixed
<1>7. QED BY <1>6 DEF AnyIndependent

LEMMA EarnedNext ==
  TypeOK /\ AllVoiced /\ VoicesKnown /\ Earned /\ [Next]_vars => Earned'
<1> SUFFICES ASSUME TypeOK, AllVoiced, VoicesKnown, ClaimIndependentOfEvidence,
                    Unmixed, [Next]_vars
             PROVE  ClaimIndependentOfEvidence'
  BY DEF Earned, Unmixed
<1>1. CASE Idle
  BY <1>1 DEF Idle, storeVars, ClaimIndependentOfEvidence
<1>2. ASSUME NEW c \in Event, NEW i \in DOMAIN events, NEW a \in Annotation,
             Comes(c), Appended(i, c, a)
      PROVE  ClaimIndependentOfEvidence'
  <2> DEFINE new == Len(annotations[i]) + 1
  <2>1. Annotated(i, a) /\ events' = events
    BY <1>2 DEF Appended, Annotated
  <2>2. /\ \A j \in DOMAIN events : j # i => annotations'[j] = annotations[j]
        /\ DOMAIN annotations'[i] = DOMAIN annotations[i] \union {new}
        /\ annotations'[i][new] = a
        /\ \A n \in DOMAIN annotations[i] : annotations'[i][n] = annotations[i][n]
    BY <2>1, ChainGrows
  <2>3. a.kind = "corroboration" => AnyIndependent(a.sources, events[i].evidence)
    BY <1>2, CorroboratesEvidence DEF Appended, Attaching, Comes, AllVoiced
  <2> HIDE DEF new
  <2>4. QED BY <2>1, <2>2, <2>3 DEF ClaimIndependentOfEvidence
<1>3. ASSUME NEW c \in Event, Minted(c)
      PROVE  ClaimIndependentOfEvidence'
  <2>1. DOMAIN events' = DOMAIN events \union {EventId(c)}
    BY <1>3, MintedAt
  <2>2. /\ \A i \in DOMAIN events :
             annotations'[i] = annotations[i] /\ events'[i] = events[i]
        /\ \A n \in DOMAIN annotations'[EventId(c)] :
             annotations'[EventId(c)][n].kind = "note"
    BY <1>3, MintedAt
  <2>3. QED BY <2>1, <2>2 DEF ClaimIndependentOfEvidence
<1>4. QED BY <1>1, <1>2, <1>3, Cases

(* What the documentation says of a corroboration -- that it cites a       *)
(* source independent of the event's own evidence -- the engine keeps for  *)
(* every registry in which no subject is mixed.  Comparing with every      *)
(* source on record goes wrong for mixed subjects only.                    *)
THEOREM ClaimsCiteIndependence == Spec => [](Unmixed => ClaimIndependentOfEvidence)
<1>1. Init => AllVoiced /\ VoicesKnown /\ Earned
  BY DEF Init, AllVoiced, VoicesKnown, Earned, ClaimIndependentOfEvidence
<1>2. Earned => (Unmixed => ClaimIndependentOfEvidence)
  BY DEF Earned
<1>3. QED
  BY <1>1, <1>2, TypeCorrect, AllVoicedNext, VoicesNext, EarnedNext, PTL DEF Spec

-----------------------------------------------------------------------------
(* The store implements the ledger of claims.                              *)

Claims == [i \in DOMAIN events |->
             [key |-> events[i].key, at |-> events[i].observed]]

LEMMA MarksAfter ==
  ASSUME TypeOK, NEW i \in DOMAIN events, NEW a \in Annotation, Annotated(i, a),
         NEW kinds
  PROVE  Marks(kinds)' = Marks(kinds) \union (IF a.kind \in kinds THEN {<<i, a.at>>}
                                              ELSE {})
<1> DEFINE new == Len(annotations[i]) + 1
           Of(j) == {<<j, annotations[j][n].at>> :
                       n \in {m \in DOMAIN annotations[j] :
                                annotations[j][m].kind \in kinds}}
           OfNext(j) == {<<j, annotations'[j][n].at>> :
                           n \in {m \in DOMAIN annotations'[j] :
                                    annotations'[j][m].kind \in kinds}}
           more == IF a.kind \in kinds THEN {<<i, a.at>>} ELSE {}
<1>1. /\ \A j \in DOMAIN events : j # i => annotations'[j] = annotations[j]
      /\ DOMAIN annotations'[i] = DOMAIN annotations[i] \union {new}
      /\ annotations'[i][new] = a
      /\ \A n \in DOMAIN annotations[i] : annotations'[i][n] = annotations[i][n]
  BY ChainGrows
<1>2. events' = events
  BY DEF Annotated
<1> HIDE DEF new
<1>3. \A j \in DOMAIN events : j # i => OfNext(j) = Of(j)
  BY <1>1
<1>4. OfNext(i) = Of(i) \union more
  BY <1>1
<1>5. /\ \A x : x \in Marks(kinds) <=> \E j \in DOMAIN events : x \in Of(j)
      /\ \A x : x \in Marks(kinds)' <=> \E j \in DOMAIN events : x \in OfNext(j)
  BY <1>2 DEF Marks
<1> HIDE DEF Of, OfNext, more
<1>6. \A x : x \in Marks(kinds)' <=> x \in Marks(kinds) \/ x \in more
  BY <1>3, <1>4, <1>5
<1>7. QED BY <1>6 DEF more

LEMMA MarksMinted ==
  ASSUME TypeOK, NEW c \in Event, Minted(c), NEW kinds, "note" \notin kinds
  PROVE  Marks(kinds)' = Marks(kinds)
<1>1. /\ DOMAIN events' = DOMAIN events \union {EventId(c)}
      /\ \A i \in DOMAIN events : annotations'[i] = annotations[i]
      /\ \A n \in DOMAIN annotations'[EventId(c)] :
           annotations'[EventId(c)][n].kind = "note"
  BY MintedAt
<1>2. QED BY <1>1 DEF Marks

LEMMA LedgerStep ==
  TypeOK /\ Past /\ InOrder /\ [Next]_vars => [Ledger!Next]_(Ledger!ledgerVars)
<1> SUFFICES ASSUME TypeOK, Past, InOrder, [Next]_vars
             PROVE  [Ledger!Next]_(Ledger!ledgerVars)
  OBVIOUS
<1> USE DEF Claims
<1>1. CASE Idle /\ now' \in Nat /\ now <= now'
  <2>1. /\ Claims' = Claims
        /\ \A kinds : Marks(kinds)' = Marks(kinds)
    BY <1>1 DEF Idle, storeVars, Marks
  <2>2. CASE now' = now
    BY <2>1, <2>2 DEF Ledger!ledgerVars
  <2>3. CASE now' # now
    BY <1>1, <2>1, <2>3 DEF Ledger!Next, Ledger!Advance, TypeOK
  <2>4. QED BY <2>2, <2>3
<1>2. ASSUME NEW c \in Event, NEW i \in DOMAIN events, NEW a \in Annotation,
             Comes(c), Appended(i, c, a)
      PROVE  [Ledger!Next]_(Ledger!ledgerVars)
  <2>1. Annotated(i, a) /\ Claims' = Claims /\ now' = now
    BY <1>2 DEF Appended, Annotated, Comes
  <2>2. \A kinds : Marks(kinds)' =
          Marks(kinds) \union (IF a.kind \in kinds THEN {<<i, a.at>>} ELSE {})
    BY <2>1, MarksAfter
  <2>3. /\ a.at \in 0 .. now /\ i \in DOMAIN events
        /\ Ledger!Bears(i, a.at)
    BY <1>2 DEF Appended, CandidatesWithin, Ledger!Bears, Comes, Past, Event, TypeOK
  <2>4. ASSUME ~Flapped(i), NEW mark \in Marks({"rollback", "flap"})
        PROVE  mark[1] # i
    BY <2>4 DEF Flapped, Flappish, Marks
  <2>5. CASE a.kind = "corroboration"
    <3>1. ~Flapped(i)
      BY <1>2, <2>5 DEF Appended, Attaching
    <3>2. Ledger!Support(i, a.at)
      BY <2>1, <2>2, <2>3, <2>4, <2>5, <3>1 DEF Ledger!Support
    <3>3. QED BY <2>3, <3>2 DEF Ledger!Next
  <2>6. CASE a.kind \in {"rollback", "flap"}
    <3>1. Ledger!Damp(i, a.at)
      BY <2>1, <2>2, <2>3, <2>6 DEF Ledger!Damp
    <3>2. QED BY <2>3, <3>1 DEF Ledger!Next
  <2>7. CASE a.kind = "discrepancy"
    <3>1. Ledger!Hold(i, a.at)
      BY <2>1, <2>2, <2>3, <2>7 DEF Ledger!Hold
    <3>2. QED BY <2>3, <3>1 DEF Ledger!Next
  <2>8. CASE a.kind \in {"mirror-corroborated", "note"}
    BY <2>1, <2>2, <2>8 DEF Ledger!ledgerVars
  <2>9. QED BY <2>5, <2>6, <2>7, <2>8 DEF Annotation, AnnotationKinds
<1>3. ASSUME NEW c \in Event, Comes(c), Mints(c), Minted(c)
      PROVE  [Ledger!Next]_(Ledger!ledgerVars)
  <2> DEFINE id == EventId(c)
  <2>1. /\ DOMAIN events' = DOMAIN events \union {id}
        /\ id \notin DOMAIN events
        /\ events'[id] = c
        /\ \A i \in DOMAIN events : events'[i] = events[i]
    BY <1>3, MintedAt
  <2>2. /\ Marks({"corroboration"})' = Marks({"corroboration"})
        /\ Marks({"rollback", "flap"})' = Marks({"rollback", "flap"})
        /\ Marks({"discrepancy"})' = Marks({"discrepancy"})
    BY <1>3, MarksMinted
  <2>3. \A old \in DOMAIN events :
          events[old].key = c.key => events[old].observed + AttachWindow <= c.observed
    BY <1>3, MintsApart
  <2>4. now' = now /\ c.observed <= now
    BY <1>3 DEF Comes, Past
  <2> HIDE DEF id
  <2>5. Ledger!Open(id)
    BY <2>1, <2>2, <2>3, <2>4 DEF Ledger!Open
  <2>6. QED BY <2>1, <2>5 DEF Ledger!Next
<1>4. QED BY <1>1, <1>2, <1>3, Cases

(* Events and annotations implement the ledger of claims: what a reader of *)
(* the store may rely on follows from ClaimLedger alone.                   *)
THEOREM StoreIsLedger == Spec => LedgerSpec
<1>1. Init => Ledger!Init
  BY DEF Init, Ledger!Init, Marks
<1>2. QED
  BY <1>1, TypeCorrect, NothingAhead, RunInOrder, LedgerStep, PTL DEF Spec, LedgerSpec, Ledger!Spec

=============================================================================
