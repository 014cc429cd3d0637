----------------------------- MODULE Watch_proofs -----------------------------
(***************************************************************************)
(* Proofs about the watch jobs, for all hosts, jobs, documents and         *)
(* changes.  What a pass has in memory is tied to what the checkout had    *)
(* when it began: a target still to be visited is as it was (Fresh), and   *)
(* the drift of one that was visited is in the items (Told).               *)
(***************************************************************************)
EXTENDS Watch, TLAPS

In(x, s) == \E n \in DOMAIN s : s[n] = x

(* Who visits a target, and whether that is still to come. *)
Owner(t) == CASE t \in Reference -> "aws-carveout"
              [] t = "hub"       -> "mistral-legal-hub-watch"
              [] OTHER           -> t

Waiting(t) == In(Owner(t), pass.todo)

(* The subjects still to be visited. *)
InOrder ==
    /\ \A m, n \in DOMAIN pass.todo : pass.todo[m] = pass.todo[n] => m = n
    /\ \/ \A n \in DOMAIN pass.todo : pass.todo[n] \in Hosts
       \/ (\A n \in DOMAIN pass.todo : pass.todo[n] \notin Hosts) /\ pass.seeded \subseteq Reference
    /\ pass.step = "aup" => pass.todo # <<>> /\ Head(pass.todo) = "aws-carveout"

(* What is still to be visited is as the pass found it; the reference in   *)
(* memory may be ahead of the record between the two documents, and ahead  *)
(* of it afterwards with an item about it.                                 *)
Fresh ==
    /\ \A t \in Targets : Waiting(t) => working[t] = prior[t]
    /\ Waiting("quote") =>
          /\ pass.dirty = FALSE
          /\ pass.memory["aup"] = working["aup"]
          /\ pass.memory["quote"] # working["quote"] => pass.step = "aup" /\ "quote" \in pass.seeded
    /\ pass.dirty = TRUE =>
          \A t \in Reference : pass.memory[t] # working[t] => \E i \in pass.items : t \in i.about

(* In a new checkout: the cache is empty but for what was visited, and     *)
(* what drifted is told of.                                                *)
Drifted(t) == prior[t] \notin {None, Observed(t)}

Said(t, items) == \E i \in items : t \in i.about /\ (t \in Reference => i.severity = "critical")

Told ==
    /\ \A p \in Pages : Waiting(p) => validators[p] = None \/ (pass.step = "aup" /\ p = "quote")
    /\ pass.step = "aup" /\ Drifted("quote") => "quote" \in pass.lapsed
    /\ \A t \in WatchedBy(pass.job) : Waiting(t) \/ (Drifted(t) => Said(t, pass.items))

WatchInv ==
    /\ TypeInvariant
    /\ pass # None => filed = None /\ InOrder /\ Fresh
    /\ pass = None /\ deployment = "ephemeral" => \A p \in Pages : validators[p] = None
    /\ pass # None /\ still = TRUE /\ deployment = "ephemeral" => Told

-----------------------------------------------------------------------------
LEMMA Names ==
    /\ \A t \in Targets : t \in Reference \/ t = "hub" \/ t \in Hosts
    /\ \A h \in Hosts : h \notin Reference /\ h # "hub" /\ h \notin Handlers /\ h \in Targets
    /\ Reference \subseteq Pages /\ Pages \subseteq Targets
    /\ "quote" \in Reference /\ "aup" \in Reference /\ "hub" \in Pages /\ "hub" \notin Reference
    /\ \A t \in Reference : t \in {"quote", "aup"}
BY JobAssumption DEF Targets, Pages, Reference

LEMMA Owners ==
    /\ Owner("quote") = "aws-carveout" /\ Owner("aup") = "aws-carveout"
    /\ Owner("hub") = "mistral-legal-hub-watch"
    /\ \A h \in Hosts : Owner(h) = h
    /\ \A t \in Targets : /\ Owner(t) = "aws-carveout" => t \in Reference
                          /\ Owner(t) = "mistral-legal-hub-watch" => t = "hub"
                          /\ Owner(t) \in Hosts => t = Owner(t)
                          /\ Owner(t) \in Handlers \cup Hosts
<1>1. Owner("quote") = "aws-carveout" /\ Owner("aup") = "aws-carveout"
  BY DEF Owner, Reference
<1>2. Owner("hub") = "mistral-legal-hub-watch"
  BY DEF Owner, Reference
<1>3. ASSUME NEW h \in Hosts PROVE Owner(h) = h
  BY Names DEF Owner
<1>4. ASSUME NEW t \in Targets
      PROVE  /\ Owner(t) = "aws-carveout" => t \in Reference
             /\ Owner(t) = "mistral-legal-hub-watch" => t = "hub"
             /\ Owner(t) \in Hosts => t = Owner(t)
             /\ Owner(t) \in Handlers \cup Hosts
  <2>1. "aws-carveout" \in Handlers /\ "mistral-legal-hub-watch" \in Handlers
    BY DEF Handlers
  <2>2. CASE t \in Reference
    BY <1>1, <2>1, <2>2, Names
  <2>3. CASE t = "hub"
    BY <1>2, <2>1, <2>3, Names
  <2>4. CASE t \in Hosts
    BY <1>3, <2>1, <2>4, Names
  <2>5. QED BY <2>2, <2>3, <2>4, Names
<1>5. QED BY <1>1, <1>2, <1>3, <1>4

(* The subjects after the first one. *)
LEMMA Tails ==
    ASSUME NEW s \in Seq(Ids), s # <<>>,
           \A m, n \in DOMAIN s : s[m] = s[n] => m = n
    PROVE  /\ Tail(s) \in Seq(Ids)
           /\ \A m, n \in DOMAIN Tail(s) : Tail(s)[m] = Tail(s)[n] => m = n
           /\ \A n \in DOMAIN Tail(s) : In(Tail(s)[n], s)
           /\ ~ In(Head(s), Tail(s)) /\ In(Head(s), s)
           /\ \A x : In(x, s) /\ x # Head(s) => In(x, Tail(s))
           /\ \A x : In(x, Tail(s)) => In(x, s)
<1>1. Len(s) \in Nat \ {0} /\ DOMAIN s = 1..Len(s)
  OBVIOUS
<1>2. /\ Tail(s) \in Seq(Ids) /\ Len(Tail(s)) = Len(s) - 1
      /\ \A n \in 1..(Len(s) - 1) : Tail(s)[n] = s[n + 1]
  OBVIOUS
<1>3. DOMAIN Tail(s) = 1..(Len(s) - 1)
  BY <1>1, <1>2
<1>4. \A n \in DOMAIN Tail(s) : n + 1 \in DOMAIN s /\ Tail(s)[n] = s[n + 1] /\ n \in Nat
  BY <1>1, <1>2, <1>3
<1>5. \A n \in DOMAIN s : n # 1 => n - 1 \in DOMAIN Tail(s) /\ Tail(s)[n - 1] = s[n]
  BY <1>1, <1>2, <1>3
<1>6. Head(s) = s[1] /\ 1 \in DOMAIN s
  BY <1>1
<1>7. \A m, n \in DOMAIN Tail(s) : Tail(s)[m] = Tail(s)[n] => m = n
  <2>1. SUFFICES ASSUME NEW m \in DOMAIN Tail(s), NEW n \in DOMAIN Tail(s), Tail(s)[m] = Tail(s)[n]
                 PROVE  m = n
    OBVIOUS
  <2>2. m + 1 = n + 1
    BY <1>4, <2>1
  <2>3. QED BY <1>4, <2>2
<1>8. ~ In(Head(s), Tail(s))
  <2>1. SUFFICES ASSUME NEW n \in DOMAIN Tail(s), Tail(s)[n] = Head(s) PROVE FALSE
    BY DEF In
  <2>2. n + 1 = 1 /\ n \in Nat /\ n \in 1..(Len(s) - 1)
    BY <1>3, <1>4, <1>6, <2>1
  <2>3. QED BY <2>2
<1>9. \A x : In(x, s) /\ x # Head(s) => In(x, Tail(s))
  BY <1>5, <1>6 DEF In
<1>10. (\A x : In(x, Tail(s)) => In(x, s)) /\ \A n \in DOMAIN Tail(s) : In(Tail(s)[n], s)
  BY <1>4 DEF In
<1>11. In(Head(s), s)
  BY <1>6 DEF In
<1>12. QED BY <1>2, <1>7, <1>8, <1>9, <1>10, <1>11

LEMMA StanceKept ==
    ASSUME NEW h \in Hosts, NEW r \in RobotsFiles[h] \cup {Unreachable}
    PROVE  ParseStance(h, r) \in Keepable(h)
BY DEF Keepable

LEMMA PageKept ==
    ASSUME TypeInvariant, NEW t \in Pages, world[t] # NoQuote
    PROVE  world[t] \in Keepable(t)
<1>1. t \in Targets /\ t \notin Hosts
  BY Names, JobAssumption
<1>2. world[t] \in Published(t)
  BY <1>1 DEF TypeInvariant, Worlds
<1>3. QED BY <1>1, <1>2 DEF Keepable

(* One comparison with the reference in memory.                            *)
Remembering(p) == p \in PassStates /\ \A t \in Reference : p.memory[t] \in Keepable(t)

LEMMA JudgedIs ==
    ASSUME TypeInvariant, NEW p, Remembering(p), NEW t \in Reference
    PROVE  LET q == Judged(p, t, world[t])
           IN  /\ Remembering(q)
               /\ q.job = p.job /\ q.todo = p.todo /\ q.step = p.step /\ q.items = p.items
               /\ q.dirty = p.dirty
               /\ \A u \in Reference \ {t} : q.memory[u] = p.memory[u]
               /\ q.memory[t] # p.memory[t] => t \in q.seeded
               /\ p.memory[t] \notin {None, world[t]} => t \in q.lapsed
               /\ p.seeded \subseteq q.seeded /\ p.lapsed \subseteq q.lapsed
               /\ q.seeded \subseteq p.seeded \cup {t}
<1> DEFINE v == world[t]
           q == Judged(p, t, v)
<1>0. t \in Targets /\ t \in Pages
  BY Names
<1> v # None
  BY <1>0, NothingAssumption DEF TypeInvariant, Worlds
<1>1. CASE p.memory[t] = None /\ v # NoQuote
  <2>1. q = [p EXCEPT !.memory[t] = v, !.seeded = @ \cup {t}]
    BY <1>1 DEF Judged
  <2>2. v \in Keepable(t)
    BY <1>0, <1>1, PageKept
  <2>3. q.memory = [p.memory EXCEPT ![t] = v]
    BY <2>1 DEF Remembering, PassStates
  <2>4. /\ q.memory \in [Reference -> UNION {Keepable(u) : u \in Targets}]
        /\ q.memory[t] = v /\ \A u \in Reference \ {t} : q.memory[u] = p.memory[u]
    <3>1. v \in UNION {Keepable(u) : u \in Targets}
      BY <1>0, <2>2
    <3>2. p.memory \in [Reference -> UNION {Keepable(u) : u \in Targets}]
      BY DEF Remembering, PassStates
    <3>3. QED BY <2>3, <3>1, <3>2
  <2>5. /\ q.job = p.job /\ q.todo = p.todo /\ q.step = p.step /\ q.items = p.items
        /\ q.dirty = p.dirty /\ q.seeded = p.seeded \cup {t} /\ q.lapsed = p.lapsed
    BY <2>1 DEF Remembering, PassStates
  <2>6. q = [job |-> q.job, todo |-> q.todo, step |-> q.step, items |-> q.items, dirty |-> q.dirty,
             memory |-> q.memory, seeded |-> q.seeded, lapsed |-> q.lapsed]
    BY <2>1 DEF Remembering, PassStates
  <2>7. q \in PassStates
    BY <1>0, <2>4, <2>5, <2>6 DEF Remembering, PassStates
  <2>8. \A u \in Reference : q.memory[u] \in Keepable(u)
    BY <2>2, <2>4 DEF Remembering
  <2>9. QED BY <1>1, <2>4, <2>5, <2>7, <2>8 DEF Remembering
<1>2. CASE p.memory[t] = v /\ ~ (p.memory[t] = None /\ v # NoQuote)
  <2>1. q = p
    BY <1>2 DEF Judged
  <2>2. QED BY <1>2, <2>1
<1>3. CASE p.memory[t] # v /\ ~ (p.memory[t] = None /\ v # NoQuote)
  <2>1. q = [p EXCEPT !.lapsed = @ \cup {t}]
    BY <1>3 DEF Judged
  <2>2. /\ q.job = p.job /\ q.todo = p.todo /\ q.step = p.step /\ q.items = p.items
        /\ q.dirty = p.dirty /\ q.memory = p.memory /\ q.seeded = p.seeded
        /\ q.lapsed = p.lapsed \cup {t}
    BY <2>1 DEF Remembering, PassStates
  <2>3. q = [job |-> q.job, todo |-> q.todo, step |-> q.step, items |-> q.items, dirty |-> q.dirty,
             memory |-> q.memory, seeded |-> q.seeded, lapsed |-> q.lapsed]
    BY <2>1 DEF Remembering, PassStates
  <2>4. q \in PassStates
    BY <2>2, <2>3 DEF Remembering, PassStates
  <2>5. QED BY <2>2, <2>4 DEF Remembering
<1>4. QED BY <1>1, <1>2, <1>3

(* A subject is done.                                                      *)
LEMMA Next1Is ==
    ASSUME NEW p, Remembering(p), p.todo # <<>>, NEW items \in SUBSET AllItems
    PROVE  LET q == Next1(p, items)
           IN  /\ Remembering(q)
               /\ q.job = p.job /\ q.todo = Tail(p.todo) /\ q.step = "visit"
               /\ q.items = p.items \cup items /\ q.dirty = p.dirty /\ q.memory = p.memory
               /\ q.seeded = p.seeded /\ q.lapsed = p.lapsed
<1> DEFINE q == Next1(p, items)
<1>1. q = [p EXCEPT !.todo = Tail(@), !.step = "visit", !.items = @ \cup items]
  BY DEF Next1
<1>2. /\ q.job = p.job /\ q.todo = Tail(p.todo) /\ q.step = "visit"
      /\ q.items = p.items \cup items /\ q.dirty = p.dirty /\ q.memory = p.memory
      /\ q.seeded = p.seeded /\ q.lapsed = p.lapsed
  BY <1>1 DEF Remembering, PassStates
<1>3. Tail(p.todo) \in Seq(Ids)
  BY DEF Remembering, PassStates
<1>4. q = [job |-> q.job, todo |-> q.todo, step |-> q.step, items |-> q.items, dirty |-> q.dirty,
           memory |-> q.memory, seeded |-> q.seeded, lapsed |-> q.lapsed]
  BY <1>1 DEF Remembering, PassStates
<1>5. q \in PassStates
  BY <1>2, <1>3, <1>4 DEF Remembering, PassStates
<1>6. QED BY <1>2, <1>5 DEF Remembering

(* Both documents were compared.                                           *)
Concludes(p, q) ==
    /\ Remembering(q)
    /\ q.job = p.job /\ q.todo = Tail(p.todo) /\ q.step = "visit" /\ q.memory = p.memory
    /\ q.seeded = {} /\ q.lapsed = {}
    /\ p.items \subseteq q.items
    /\ q.dirty = TRUE => p.dirty = TRUE \/ p.seeded # {}
    /\ \A t \in p.seeded : \E i \in q.items : t \in i.about
    /\ \A t \in p.lapsed : \E i \in q.items : t \in i.about /\ i.severity = "critical"

LEMMA ConcludedIs ==
    ASSUME NEW p, Remembering(p), p.todo # <<>>
    PROVE  Concludes(p, Concluded(p))
<1> DEFINE seed == Item("reference-seeded", "notice", p.seeded)
           lapse == Item("verdict-lapse", "critical", p.lapsed)
           items == (IF p.seeded = {} THEN {} ELSE {seed}) \cup (IF p.lapsed = {} THEN {} ELSE {lapse})
           n == Next1(p, items)
           q == Concluded(p)
<1>1. seed \in AllItems /\ lapse \in AllItems
  BY Names DEF Item, AllItems, Kinds, Remembering, PassStates
<1>2. items \in SUBSET AllItems
  BY <1>1
<1>3. /\ Remembering(n) /\ n.job = p.job /\ n.todo = Tail(p.todo) /\ n.step = "visit"
      /\ n.items = p.items \cup items /\ n.dirty = p.dirty /\ n.memory = p.memory
  <2> HIDE DEF items
  <2>1. QED BY <1>2, Next1Is
<1>4. q = [n EXCEPT !.dirty = @ \/ p.seeded # {}, !.seeded = {}, !.lapsed = {}]
  BY DEF Concluded
<1> HIDE DEF n
<1>5. /\ q.job = n.job /\ q.todo = n.todo /\ q.step = n.step /\ q.items = n.items
      /\ q.memory = n.memory /\ q.seeded = {} /\ q.lapsed = {}
      /\ q.dirty = (n.dirty \/ p.seeded # {})
  BY <1>3, <1>4 DEF Remembering, PassStates
<1>6. q = [job |-> q.job, todo |-> q.todo, step |-> q.step, items |-> q.items, dirty |-> q.dirty,
           memory |-> q.memory, seeded |-> q.seeded, lapsed |-> q.lapsed]
  BY <1>3, <1>4 DEF Remembering, PassStates
<1>7. q.dirty \in BOOLEAN /\ (q.dirty = TRUE => p.dirty = TRUE \/ p.seeded # {})
  BY <1>3, <1>5 DEF Remembering, PassStates
<1>8. q \in PassStates
  BY <1>3, <1>5, <1>6, <1>7 DEF Remembering, PassStates
<1>9. \A t \in p.seeded : \E i \in q.items : t \in i.about
  <2>1. p.seeded # {} => seed \in q.items
    BY <1>3, <1>5
  <2>2. seed.about = p.seeded
    BY DEF Item
  <2>3. QED BY <2>1, <2>2
<1>10. \A t \in p.lapsed : \E i \in q.items : t \in i.about /\ i.severity = "critical"
  <2>1. p.lapsed # {} => lapse \in q.items
    BY <1>3, <1>5
  <2>2. lapse.about = p.lapsed /\ lapse.severity = "critical"
    BY DEF Item
  <2>3. QED BY <2>1, <2>2
<1>11. Remembering(q) /\ p.items \subseteq q.items
  BY <1>3, <1>5, <1>8 DEF Remembering
<1>12. QED BY <1>3, <1>5, <1>7, <1>9, <1>10, <1>11 DEF Concludes

-----------------------------------------------------------------------------
LEMMA TypeStep ==
    ASSUME TypeInvariant, Untouched, Remembering(pass'), Keeps(working'),
           DOMAIN validators' = Pages,
           \A p \in Pages : validators'[p] \in Published(p) \cup {None}
    PROVE  TypeInvariant' /\ pass' # None
<1>1. pass' # None
  BY NothingAssumption DEF Remembering
<1>2. QED BY <1>1 DEF TypeInvariant, Untouched, Remembering, Worlds, Published, Keeps

LEMMA ReadIs ==
    ASSUME TypeInvariant, NEW page \in Pages, UNCHANGED validators \/ ReadPage(page)
    PROVE  /\ DOMAIN validators' = Pages
           /\ \A p \in Pages : validators'[p] \in Published(p) \cup {None}
           /\ \A p \in Pages \ {page} : validators'[p] = validators[p]
<1>1. world[page] \in Published(page)
  BY Names DEF TypeInvariant, Worlds
<1>2. QED BY <1>1 DEF TypeInvariant, ReadPage

(* An item about a target that does not lose what a commit must see.       *)
Evidence(t, p, new) ==
    \E i \in ItemsAtTheEnd(p) : t \in i.about /\ (Blocks(t, prior[t], new) => i.severity = "critical")

LEMMA EvidenceStays ==
    ASSUME NEW p, NEW q, NEW t, NEW new, p.items \subseteq q.items,
           t \in p.seeded => t \in q.seeded, Evidence(t, p, new)
    PROVE  Evidence(t, q, new)
<1>1. PICK i \in ItemsAtTheEnd(p) : t \in i.about /\ (Blocks(t, prior[t], new) => i.severity = "critical")
  BY DEF Evidence
<1>2. CASE i \in p.items
  BY <1>1, <1>2 DEF Evidence, ItemsAtTheEnd
<1>3. CASE i \notin p.items
  <2>1. p.seeded # {} /\ i = Item("state-seeded", "notice", p.seeded)
    BY <1>1, <1>3 DEF ItemsAtTheEnd
  <2>2. i.about = p.seeded /\ i.severity = "notice"
    BY <2>1 DEF Item
  <2> DEFINE j == Item("state-seeded", "notice", q.seeded)
  <2>3. t \in q.seeded /\ ~ Blocks(t, prior[t], new)
    BY <1>1, <2>2
  <2>4. j \in ItemsAtTheEnd(q) /\ j.about = q.seeded
    BY <2>3 DEF ItemsAtTheEnd, Item
  <2>5. QED BY <2>3, <2>4 DEF Evidence
<1>4. QED BY <1>2, <1>3

Safe == WatchInv /\ AdoptionsQueued /\ DriftIsQueued

(* While a pass runs: the queue of the one before is no longer spoken of.  *)
LEMMA Running ==
    ASSUME Safe, pass # None
    PROVE  /\ Remembering(pass) /\ InOrder /\ Fresh /\ filed = None
           /\ pass.todo \in Seq(Ids)
           /\ \A t \in Targets \ lost : working[t] # prior[t] => Evidence(t, pass, working[t])
<1>1. Remembering(pass) /\ InOrder /\ Fresh /\ filed = None
  BY DEF Safe, WatchInv, TypeInvariant, Remembering
<1>2. pass.todo \in Seq(Ids)
  BY <1>1 DEF Remembering, PassStates
<1>3. Items = ItemsAtTheEnd(pass)
  BY DEF Items
<1>4. QED BY <1>1, <1>2, <1>3 DEF Safe, AdoptionsQueued, Evidence

LEMMA AdoptionsNext ==
    ASSUME pass' # None, prior' = prior, lost' = lost,
           \A t \in Targets \ lost : working'[t] # prior[t] => Evidence(t, pass', working'[t])
    PROVE  AdoptionsQueued'
<1>1. Items' = ItemsAtTheEnd(pass')
  BY DEF Items, ItemsAtTheEnd
<1>2. QED BY <1>1 DEF AdoptionsQueued, Evidence, Blocks, CollectionBlocking

(* A subject is done, with what was found of its targets.                  *)
LEMMA SubjectDone ==
    ASSUME Safe, pass # None, pass.todo # <<>>, Untouched,
           Remembering(pass'), pass'.job = pass.job, pass'.todo = Tail(pass.todo),
           pass'.step = "visit", pass.items \subseteq pass'.items,
           Keeps(working'), DOMAIN validators' = Pages,
           \A p \in Pages : validators'[p] \in Published(p) \cup {None},
           pass'.dirty = TRUE =>
               \A t \in Reference : pass'.memory[t] # working'[t] => \E i \in pass'.items : t \in i.about,
           Head(pass.todo) # "aws-carveout" => pass'.memory = pass.memory /\ pass'.dirty = pass.dirty,
           Head(pass.todo) \in Hosts \/ pass'.seeded \subseteq pass.seeded,
           \A t \in Targets : Owner(t) # Head(pass.todo) =>
               working'[t] = working[t] /\ (t \in pass.seeded => t \in pass'.seeded),
           \A t \in Targets : Owner(t) = Head(pass.todo) =>
               working'[t] = prior[t] \/ Evidence(t, pass', working'[t]),
           \A p \in Pages : Owner(p) # Head(pass.todo) => validators'[p] = validators[p],
           still = TRUE /\ deployment = "ephemeral" =>
               \A t \in Targets : Owner(t) = Head(pass.todo) /\ Drifted(t) => Said(t, pass'.items)
    PROVE  Safe'
<1> USE DEF Waiting
<1>1. TypeInvariant' /\ pass' # None
  BY TypeStep DEF Safe, WatchInv
<1>2. /\ InOrder /\ Fresh /\ filed = None /\ filed' = None /\ pass.todo \in Seq(Ids)
      /\ \A t \in Targets \ lost : working[t] # prior[t] => Evidence(t, pass, working[t])
  BY Running DEF Untouched
<1>3. UNCHANGED <<deployment, world, prior, still, lost>>
  BY DEF Untouched
<1>4. /\ \A m, n \in DOMAIN Tail(pass.todo) : Tail(pass.todo)[m] = Tail(pass.todo)[n] => m = n
      /\ \A n \in DOMAIN Tail(pass.todo) : In(Tail(pass.todo)[n], pass.todo)
      /\ ~ In(Head(pass.todo), Tail(pass.todo)) /\ In(Head(pass.todo), pass.todo)
      /\ \A x : In(x, pass.todo) /\ x # Head(pass.todo) => In(x, Tail(pass.todo))
      /\ \A x : In(x, Tail(pass.todo)) => In(x, pass.todo)
  <2>1. \A m, n \in DOMAIN pass.todo : pass.todo[m] = pass.todo[n] => m = n
    BY <1>2 DEF InOrder
  <2>2. QED BY <1>2, <2>1, Tails
<1>5. InOrder'
  <2>1. CASE \A n \in DOMAIN pass.todo : pass.todo[n] \in Hosts
    BY <1>4, <2>1 DEF InOrder, In
  <2>2. CASE (\A n \in DOMAIN pass.todo : pass.todo[n] \notin Hosts) /\ pass.seeded \subseteq Reference
    <3>1. Head(pass.todo) \notin Hosts
      BY <1>4, <2>2 DEF In
    <3>2. pass'.seeded \subseteq Reference
      BY <2>2, <3>1
    <3>3. \A n \in DOMAIN pass'.todo : pass'.todo[n] \notin Hosts
      BY <1>4, <2>2 DEF In
    <3>4. QED BY <1>4, <3>2, <3>3 DEF InOrder
  <2>3. QED BY <1>2, <2>1, <2>2 DEF InOrder
<1>6. Fresh'
  <2>1. \A t \in Targets : Waiting(t)' => working'[t] = prior'[t]
    BY <1>2, <1>3, <1>4 DEF Fresh
  <2>2. ASSUME Waiting("quote")'
        PROVE  /\ pass'.dirty = FALSE /\ pass'.memory["aup"] = working'["aup"]
               /\ pass'.memory["quote"] = working'["quote"]
    <3>1. Head(pass.todo) # "aws-carveout" /\ Waiting("quote")
      BY <1>4, <2>2, Owners
    <3>2. pass'.memory = pass.memory /\ pass'.dirty = pass.dirty /\ pass.step # "aup"
      BY <1>2, <3>1 DEF InOrder
    <3>3. working'["aup"] = working["aup"] /\ working'["quote"] = working["quote"]
      BY <3>1, Owners, Names
    <3>4. QED BY <1>2, <3>1, <3>2, <3>3 DEF Fresh
  <2>3. QED BY <2>1, <2>2 DEF Fresh
<1>7. ASSUME still = TRUE, deployment = "ephemeral" PROVE Told'
  <2>1. Told
    BY <1>7 DEF Safe, WatchInv
  <2>2. ASSUME NEW p \in Pages, Waiting(p)' PROVE validators'[p] = None
    <3>1. Owner(p) # Head(pass.todo) /\ Waiting(p)
      BY <1>4, <2>2
    <3>2. ~ (pass.step = "aup" /\ p = "quote")
      BY <1>2, <3>1, Owners DEF InOrder
    <3>3. QED BY <2>1, <3>1, <3>2 DEF Told
  <2>3. ASSUME NEW t \in WatchedBy(pass.job), ~ Waiting(t)', Drifted(t)
        PROVE  Said(t, pass'.items)
    <3>1. t \in Targets
      BY Names DEF WatchedBy, Targets, Pages
    <3>2. CASE Owner(t) = Head(pass.todo)
      BY <1>7, <2>3, <3>1, <3>2
    <3>3. CASE Owner(t) # Head(pass.todo)
      <4>1. ~ Waiting(t)
        BY <1>4, <2>3, <3>3
      <4>2. Said(t, pass.items)
        BY <2>1, <2>3, <4>1 DEF Told
      <4>3. QED BY <4>2 DEF Said
    <3>4. QED BY <3>2, <3>3
  <2>4. \A t : Drifted(t)' <=> Drifted(t)
    BY <1>3 DEF Drifted, Observed
  <2>5. QED BY <2>2, <2>3, <2>4 DEF Told, Said
<1>8. WatchInv'
  BY <1>1, <1>2, <1>3, <1>5, <1>6, <1>7 DEF WatchInv
<1>9. AdoptionsQueued'
  <2>1. ASSUME NEW t \in Targets \ lost, working'[t] # prior[t] PROVE Evidence(t, pass', working'[t])
    <3>1. CASE Owner(t) = Head(pass.todo)
      BY <2>1, <3>1
    <3>2. CASE Owner(t) # Head(pass.todo)
      <4>1. Evidence(t, pass, working[t]) /\ working'[t] = working[t]
        BY <1>2, <2>1, <3>2
      <4>2. QED BY <3>2, <4>1, EvidenceStays
    <3>3. QED BY <3>1, <3>2
  <2>2. QED BY <1>1, <1>3, <2>1, AdoptionsNext
<1>10. DriftIsQueued'
  BY <1>2 DEF DriftIsQueued
<1>11. QED BY <1>8, <1>9, <1>10 DEF Safe

(* What the subject at the head of the pass has to do with.                *)
LEMMA AtHead ==
    ASSUME Safe, pass # None, pass.todo # <<>>
    PROVE  /\ Remembering(pass)
           /\ \A t : Owner(t) = Head(pass.todo) => Waiting(t)
           /\ \A t \in Targets : Owner(t) = Head(pass.todo) => working[t] = prior[t]
           /\ Head(pass.todo) \notin Hosts => pass.seeded \subseteq Reference
           /\ Head(pass.todo) = "aws-carveout" => pass.dirty = FALSE
           /\ pass.dirty = TRUE =>
                 \A t \in Reference : pass.memory[t] # working[t] => \E i \in pass.items : t \in i.about
           /\ \A p \in Pages : /\ Owner(p) = Head(pass.todo) /\ (pass.step = "visit" \/ p # "quote")
                               /\ still = TRUE /\ deployment = "ephemeral"
                               => ~ Unmodified(p)
<1>1. Remembering(pass) /\ InOrder /\ Fresh /\ pass.todo \in Seq(Ids)
  BY Running
<1>2. In(Head(pass.todo), pass.todo)
  <2>1. 1 \in DOMAIN pass.todo /\ Head(pass.todo) = pass.todo[1]
    BY <1>1
  <2>2. QED BY <2>1 DEF In
<1>3. \A t : Owner(t) = Head(pass.todo) => Waiting(t)
  BY <1>2 DEF Waiting
<1>4. Head(pass.todo) \notin Hosts => pass.seeded \subseteq Reference
  BY <1>1, <1>2 DEF InOrder, In
<1>5. Head(pass.todo) = "aws-carveout" => pass.dirty = FALSE
  BY <1>1, <1>3, Owners DEF Fresh
<1>6. ASSUME NEW p \in Pages, Owner(p) = Head(pass.todo), pass.step = "visit" \/ p # "quote",
             still = TRUE, deployment = "ephemeral"
      PROVE  ~ Unmodified(p)
  <2>1. validators[p] = None
    BY <1>3, <1>6 DEF Safe, WatchInv, Told
  <2>2. world[p] \in Published(p)
    BY Names DEF Safe, WatchInv, TypeInvariant, Worlds
  <2>3. QED BY <2>1, <2>2, NothingAssumption DEF Unmodified
<1>7. \A t \in Targets : Owner(t) = Head(pass.todo) => working[t] = prior[t]
  BY <1>1, <1>3 DEF Fresh
<1>8. QED BY <1>1, <1>3, <1>4, <1>5, <1>6, <1>7 DEF Fresh

LEMMA AupSafe ==
    ASSUME Safe, Aup
    PROVE  Safe'
<1> DEFINE p == Judged(pass, "aup", world["aup"])
<1>1. /\ pass # None /\ pass.todo # <<>> /\ Head(pass.todo) = "aws-carveout" /\ pass.step = "aup"
      /\ Fresh
  BY Running DEF Aup, AtAup, InOrder
<1>2. Remembering(pass) /\ TypeInvariant /\ Keeps(working)
  BY <1>1, AtHead DEF Safe, WatchInv, TypeInvariant
<1>3. UNCHANGED working /\ Untouched
  BY DEF Aup
<1>4. PICK q : /\ pass' = Concluded(q)
               /\ q = p \/ (q = pass /\ Unmodified("aup"))
               /\ ReadPage("aup") \/ UNCHANGED validators
  BY DEF Aup
<1>5. /\ Remembering(q) /\ q.job = pass.job /\ q.todo = pass.todo /\ q.step = pass.step
      /\ q.items = pass.items /\ q.dirty = pass.dirty /\ q.memory["quote"] = pass.memory["quote"]
      /\ q.memory["aup"] # pass.memory["aup"] => "aup" \in q.seeded
      /\ pass.seeded \subseteq q.seeded /\ pass.lapsed \subseteq q.lapsed
  <2>1. /\ Remembering(p) /\ p.job = pass.job /\ p.todo = pass.todo /\ p.step = pass.step
        /\ p.items = pass.items /\ p.dirty = pass.dirty /\ p.memory["quote"] = pass.memory["quote"]
        /\ p.memory["aup"] # pass.memory["aup"] => "aup" \in p.seeded
        /\ pass.seeded \subseteq p.seeded /\ pass.lapsed \subseteq p.lapsed
    BY <1>2, JudgedIs, Names
  <2> HIDE DEF p
  <2>2. QED BY <1>2, <1>4, <2>1
<1>7. /\ Remembering(pass') /\ pass'.job = q.job /\ pass'.todo = Tail(q.todo) /\ pass'.step = "visit"
      /\ pass'.memory = q.memory /\ pass'.seeded = {} /\ q.items \subseteq pass'.items
      /\ pass'.dirty = TRUE => q.dirty = TRUE \/ q.seeded # {}
      /\ \A t \in q.seeded : \E i \in pass'.items : t \in i.about
      /\ \A t \in q.lapsed : \E i \in pass'.items : t \in i.about /\ i.severity = "critical"
  <2>1. Remembering(q) /\ q.todo # <<>> /\ pass' = Concluded(q)
    BY <1>1, <1>4, <1>5
  <2> HIDE DEF p
  <2>2. Concludes(q, Concluded(q))
    BY <2>1, ConcludedIs
  <2>3. Concludes(q, pass')
    BY <2>1, <2>2
  <2>4. QED BY <2>3 DEF Concludes
<1>8. /\ DOMAIN validators' = Pages
      /\ \A x \in Pages : validators'[x] \in Published(x) \cup {None}
      /\ \A x \in Pages \ {"aup"} : validators'[x] = validators[x]
  BY <1>2, <1>4, ReadIs, Names
<1>9. /\ Waiting("quote") /\ Waiting("aup") /\ pass.seeded \subseteq Reference
      /\ working["quote"] = prior["quote"] /\ working["aup"] = prior["aup"]
  BY <1>1, AtHead, Owners, Names, JobAssumption DEF Handlers
<1>10. ASSUME NEW t \in Reference, pass'.memory[t] # working'[t]
       PROVE  \E i \in pass'.items : t \in i.about
  <2>1. CASE t = "quote"
    <3>1. "quote" \in q.seeded
      BY <1>1, <1>3, <1>5, <1>7, <1>9, <1>10, <2>1 DEF Fresh
    <3>2. QED BY <1>7, <2>1, <3>1
  <2>2. CASE t = "aup"
    <3>1. "aup" \in q.seeded
      BY <1>1, <1>3, <1>5, <1>7, <1>9, <1>10, <2>2 DEF Fresh
    <3>2. QED BY <1>7, <2>2, <3>1
  <2>3. QED BY <2>1, <2>2, Names
<1>11. ASSUME still = TRUE, deployment = "ephemeral", NEW t \in Reference, Drifted(t)
       PROVE  Said(t, pass'.items)
  <2>1. CASE t = "quote"
    <3>1. "quote" \in q.lapsed
      BY <1>1, <1>5, <1>11, <2>1 DEF Safe, WatchInv, Told
    <3>2. QED BY <1>7, <2>1, <3>1 DEF Said
  <2>2. CASE t = "aup"
    <3>1. ~ Unmodified("aup")
      BY <1>1, <1>11, AtHead, Owners, Names
    <3>2. q = p
      BY <1>4, <3>1
    <3>3. pass.memory["aup"] \notin {None, world["aup"]}
      BY <1>1, <1>9, <1>11, <2>2, Names DEF Fresh, Drifted, Observed
    <3>4. "aup" \in q.lapsed
      BY <1>2, <3>2, <3>3, JudgedIs, Names
    <3>5. QED BY <1>7, <2>2, <3>4 DEF Said
  <2>3. QED BY <2>1, <2>2, Names
<1>12. \A t \in Targets : Owner(t) = Head(pass.todo) <=> t \in Reference
  BY <1>1, Owners, Names
<1>13. \A t \in Targets : Owner(t) # Head(pass.todo) =>
          working'[t] = working[t] /\ (t \in pass.seeded => t \in pass'.seeded)
  BY <1>3, <1>9, <1>12
<1>14. \A t \in Targets : Owner(t) = Head(pass.todo) => working'[t] = prior[t]
  BY <1>1, <1>3, AtHead
<1>15. \A x \in Pages : Owner(x) # Head(pass.todo) => validators'[x] = validators[x]
  BY <1>8, <1>12, Names
<1>16. Keeps(working') /\ pass.items \subseteq pass'.items /\ pass'.todo = Tail(pass.todo)
       /\ pass'.job = pass.job /\ pass'.seeded \subseteq pass.seeded
  BY <1>2, <1>3, <1>5, <1>7 DEF Keeps
<1>17. QED
  <2> HIDE DEF p
  <2>1. QED BY <1>1, <1>3, <1>7, <1>8, <1>10, <1>11, <1>12, <1>13, <1>14, <1>15, <1>16, SubjectDone

LEMMA HubSafe ==
    ASSUME Safe, Hub \/ HubStateUnreadable
    PROVE  Safe'
<1> DEFINE seen == HubItems(working["hub"], world["hub"])
           bad == {Item("sentinel.error", "critical", {"hub"})}
<1>1. /\ pass # None /\ pass.todo # <<>> /\ Head(pass.todo) = "mistral-legal-hub-watch"
      /\ pass.step = "visit" /\ Untouched
  BY DEF Hub, HubStateUnreadable, Visiting
<1>2. /\ Remembering(pass) /\ TypeInvariant /\ Keeps(working) /\ pass.seeded \subseteq Reference
      /\ working["hub"] = prior["hub"]
  <2>1. Head(pass.todo) \notin Hosts /\ "hub" \in Targets
    BY <1>1, JobAssumption, Names DEF Handlers
  <2>2. QED BY <1>1, <2>1, AtHead, Owners DEF Safe, WatchInv, TypeInvariant
<1>3. world["hub"] \in DocumentSets /\ world["hub"] # None
  <2>1. world["hub"] \in Published("hub") /\ Published("hub") = DocumentSets
    BY <1>2, Names DEF TypeInvariant, Worlds, Published
  <2>2. QED BY <2>1, Names, NothingAssumption
<1>4. PICK items \in SUBSET AllItems :
         /\ pass' = Next1(pass, items)
         /\ \/ Unmodified("hub") /\ UNCHANGED <<working, validators>>
            \/ /\ ReadPage("hub")
               /\ \/ working' = [working EXCEPT !["hub"] = world["hub"]] /\ items = seen
                  \/ working' = working /\ items = bad
  <2>1. {} \in SUBSET AllItems /\ seen \in SUBSET AllItems /\ bad \in SUBSET AllItems
    BY Names DEF HubItems, Item, AllItems, Kinds
  <2> HIDE DEF seen, bad
  <2>2. CASE Hub
    BY <2>1, <2>2 DEF Hub, seen
  <2>3. CASE HubStateUnreadable
    BY <2>1, <2>3 DEF HubStateUnreadable, bad
  <2>4. QED BY <2>2, <2>3
<1>5. /\ Remembering(pass') /\ pass'.job = pass.job /\ pass'.todo = Tail(pass.todo)
      /\ pass'.step = "visit" /\ pass'.items = pass.items \cup items /\ pass'.dirty = pass.dirty
      /\ pass'.memory = pass.memory /\ pass'.seeded = pass.seeded
  BY <1>1, <1>2, <1>4, Next1Is
<1>6. /\ DOMAIN validators' = Pages
      /\ \A x \in Pages : validators'[x] \in Published(x) \cup {None}
      /\ \A x \in Pages \ {"hub"} : validators'[x] = validators[x]
  BY <1>2, <1>4, ReadIs, Names
<1>7. \A t \in Targets : Owner(t) = Head(pass.todo) <=> t = "hub"
  BY <1>1, Owners
<1>8. Keeps(working') /\ \A t \in Targets \ {"hub"} : working'[t] = working[t]
  <2>1. world["hub"] \in Keepable("hub")
    BY <1>2, <1>3, PageKept, Names, NothingAssumption
  <2>2. QED BY <1>2, <1>4, <2>1 DEF Keeps
<1>9. working'["hub"] = prior["hub"] \/ Evidence("hub", pass', working'["hub"])
  <2>1. CASE working' = working
    BY <1>2, <2>1
  <2>2. CASE working' = [working EXCEPT !["hub"] = world["hub"]] /\ items = seen
    <3>1. working'["hub"] = world["hub"]
      BY <1>2, <2>2, Names DEF Keeps
    <3>2. CASE world["hub"] # prior["hub"]
      <4>1. PICK i \in seen : i.about = {"hub"}
        BY <1>2, <1>3, <3>2 DEF HubItems, Item
      <4>2. i \in ItemsAtTheEnd(pass') /\ "hub" \in i.about
        BY <1>5, <2>2, <4>1 DEF ItemsAtTheEnd
      <4>3. ~ Blocks("hub", prior["hub"], working'["hub"])
        BY Names DEF Blocks
      <4>4. QED BY <4>2, <4>3 DEF Evidence
    <3>3. QED BY <3>1, <3>2
  <2>3. QED BY <1>4, <2>1, <2>2
<1>10. ASSUME still = TRUE, deployment = "ephemeral", Drifted("hub")
       PROVE  Said("hub", pass'.items)
  <2>1. ~ Unmodified("hub")
    BY <1>1, <1>10, AtHead, Owners, Names
  <2>2. prior["hub"] \notin {None, world["hub"]}
    BY <1>10, Names DEF Drifted, Observed
  <2>3. PICK i \in items : i.about = {"hub"}
    <3>1. CASE items = bad
      BY <3>1 DEF Item
    <3>2. CASE items = seen
      BY <1>2, <2>2, <3>2 DEF HubItems, Item
    <3>3. QED BY <1>4, <2>1, <3>1, <3>2
  <2>4. QED BY <1>5, <2>3, Names DEF Said
<1>11. pass'.dirty = TRUE =>
          \A t \in Reference : pass'.memory[t] # working'[t] => \E i \in pass'.items : t \in i.about
  <2>1. \A t \in Reference : working'[t] = working[t]
    BY <1>8, Names
  <2>2. QED BY <1>1, <1>5, <2>1, AtHead
<1>12. QED
  <2> HIDE DEF seen, bad
  <2>1. \A t \in Targets : Owner(t) # Head(pass.todo) =>
           working'[t] = working[t] /\ (t \in pass.seeded => t \in pass'.seeded)
    BY <1>5, <1>7, <1>8
  <2>2. \A x \in Pages : Owner(x) # Head(pass.todo) => validators'[x] = validators[x]
    BY <1>6, <1>7, Names
  <2>3. pass.items \subseteq pass'.items /\ pass'.seeded \subseteq pass.seeded
    BY <1>5
  <2>4. QED BY <1>1, <1>5, <1>6, <1>7, <1>8, <1>9, <1>10, <1>11, <2>1, <2>2, <2>3, SubjectDone

LEMMA FailureSafe ==
    ASSUME Safe, SentinelFails \/ Unhandled
    PROVE  Safe'
<1>1. /\ pass # None /\ pass.todo # <<>> /\ UNCHANGED <<working, validators>> /\ Untouched
      /\ Head(pass.todo) \notin Hosts
  <2>1. CASE Unhandled
    BY <2>1 DEF Unhandled, Visiting
  <2>2. CASE SentinelFails
    <3>1. AtAup => pass.todo # <<>> /\ Head(pass.todo) = "aws-carveout"
      BY Running DEF AtAup, InOrder
    <3>2. QED BY <2>2, <3>1, JobAssumption DEF SentinelFails, Visiting, AtAup, Handlers
  <2>3. QED BY <2>1, <2>2
<1>2. Remembering(pass) /\ TypeInvariant /\ Keeps(working) /\ pass.seeded \subseteq Reference
  BY <1>1, AtHead DEF Safe, WatchInv, TypeInvariant
<1>3. ASSUME NEW items \in SUBSET AllItems, NEW clear \in BOOLEAN,
             pass' = IF clear THEN [Next1(pass, items) EXCEPT !.seeded = {}, !.lapsed = {}]
                     ELSE Next1(pass, items),
             clear => Head(pass.todo) = "aws-carveout",
             \A t \in Targets : Owner(t) = Head(pass.todo) =>
                \E i \in items : t \in i.about /\ i.severity = "critical"
      PROVE  Safe'
  <2>1. LET n == Next1(pass, items)
        IN  /\ Remembering(n) /\ n.job = pass.job /\ n.todo = Tail(pass.todo) /\ n.step = "visit"
            /\ n.items = pass.items \cup items /\ n.dirty = pass.dirty /\ n.memory = pass.memory
            /\ n.seeded = pass.seeded
    BY <1>1, <1>2, Next1Is
  <2>2. /\ Remembering(pass') /\ pass'.job = pass.job /\ pass'.todo = Tail(pass.todo)
        /\ pass'.step = "visit" /\ pass'.items = pass.items \cup items /\ pass'.dirty = pass.dirty
        /\ pass'.memory = pass.memory /\ pass'.seeded = IF clear THEN {} ELSE pass.seeded
    <3> DEFINE n == Next1(pass, items)
    <3>1. CASE clear = FALSE
      BY <1>3, <2>1, <3>1
    <3>2. CASE clear = TRUE
      <4>1. pass' = [n EXCEPT !.seeded = {}, !.lapsed = {}]
        BY <1>3, <3>2
      <4> HIDE DEF n
      <4>2. /\ pass'.job = n.job /\ pass'.todo = n.todo /\ pass'.step = n.step
            /\ pass'.items = n.items /\ pass'.dirty = n.dirty /\ pass'.memory = n.memory
            /\ pass'.seeded = {} /\ pass'.lapsed = {}
        BY <2>1, <4>1 DEF Remembering, PassStates, n
      <4>3. pass' = [job |-> n.job, todo |-> n.todo, step |-> n.step, items |-> n.items,
                     dirty |-> n.dirty, memory |-> n.memory, seeded |-> {}, lapsed |-> {}]
        BY <2>1, <4>1 DEF Remembering, PassStates, n
      <4>4. pass' \in PassStates
        BY <2>1, <4>3 DEF Remembering, PassStates, n
      <4>5. QED BY <2>1, <3>2, <4>2, <4>4 DEF Remembering, n
    <3>3. QED BY <3>1, <3>2
  <2>3. /\ DOMAIN validators' = Pages
        /\ \A x \in Pages : validators'[x] \in Published(x) \cup {None}
    BY <1>1, <1>2 DEF TypeInvariant
  <2>4. \A t \in Targets : Owner(t) # Head(pass.todo) =>
           working'[t] = working[t] /\ (t \in pass.seeded => t \in pass'.seeded)
    <3>1. ASSUME clear = TRUE, NEW t \in Targets, Owner(t) # Head(pass.todo) PROVE t \notin pass.seeded
      BY <1>2, <1>3, <3>1, Owners, Names
    <3>2. QED BY <1>1, <2>2, <3>1
  <2>5. \A t \in Targets : Owner(t) = Head(pass.todo) => working'[t] = prior[t]
    BY <1>1, AtHead
  <2>6. \A t \in Targets : Owner(t) = Head(pass.todo) => Said(t, pass'.items)
    BY <1>3, <2>2 DEF Said
  <2>7. pass'.dirty = TRUE =>
           \A t \in Reference : pass'.memory[t] # working'[t] => \E i \in pass'.items : t \in i.about
    BY <1>1, <2>2, AtHead
  <2>8. Keeps(working') /\ pass.items \subseteq pass'.items /\ pass'.seeded \subseteq pass.seeded
    BY <1>1, <1>2, <2>2 DEF Keeps
  <2>9. QED BY <1>1, <2>2, <2>3, <2>4, <2>5, <2>6, <2>7, <2>8, SubjectDone
<1>4. CASE Unhandled
  <2>1. PICK id \in Ids \ (Handlers \cup Hosts) :
           Visiting(id) /\ pass' = Next1(pass, {Item("unhandled", "warning", {})})
    BY <1>4 DEF Unhandled
  <2>2. \A t \in Targets : Owner(t) # Head(pass.todo)
    BY <2>1, Owners DEF Visiting
  <2>3. {Item("unhandled", "warning", {})} \in SUBSET AllItems
    BY DEF Item, AllItems, Kinds
  <2>4. QED BY <1>3, <2>1, <2>2, <2>3
<1>5. CASE SentinelFails
  <2>1. \A ts \in SUBSET Targets : CannotVerify(ts) \in SUBSET AllItems
    BY DEF CannotVerify, Item, AllItems, Kinds
  <2>2. \A ts \in SUBSET Targets : \A t \in ts :
           \E i \in CannotVerify(ts) : t \in i.about /\ i.severity = "critical"
    BY DEF CannotVerify, Item
  <2>3. CASE /\ Visiting("aws-carveout") \/ AtAup
             /\ pass' = [Next1(pass, CannotVerify(Reference)) EXCEPT !.seeded = {}, !.lapsed = {}]
    <3>1. Head(pass.todo) = "aws-carveout"
      BY <1>1, <2>3, Running DEF Visiting, AtAup, InOrder
    <3>2. \A t \in Targets : Owner(t) = Head(pass.todo) => t \in Reference
      BY <3>1, Owners
    <3>3. Reference \in SUBSET Targets
      BY Names
    <3> DEFINE items == CannotVerify(Reference)
    <3>4. /\ items \in SUBSET AllItems
          /\ \A t \in Targets : Owner(t) = Head(pass.todo) =>
                \E i \in items : t \in i.about /\ i.severity = "critical"
      BY <2>1, <2>2, <3>2, <3>3
    <3>5. pass' = IF TRUE THEN [Next1(pass, items) EXCEPT !.seeded = {}, !.lapsed = {}]
                  ELSE Next1(pass, items)
      BY <2>3
    <3> HIDE DEF items
    <3>6. QED BY <1>3, <3>1, <3>4, <3>5
  <2>4. CASE Visiting("mistral-legal-hub-watch") /\ pass' = Next1(pass, CannotVerify({"hub"}))
    <3>1. \A t \in Targets : Owner(t) = Head(pass.todo) => t \in {"hub"}
      BY <2>4, Owners DEF Visiting
    <3>2. {"hub"} \in SUBSET Targets
      BY Names
    <3> DEFINE items == CannotVerify({"hub"})
    <3>3. /\ items \in SUBSET AllItems
          /\ \A t \in Targets : Owner(t) = Head(pass.todo) =>
                \E i \in items : t \in i.about /\ i.severity = "critical"
      BY <2>1, <2>2, <3>1, <3>2
    <3>4. pass' = Next1(pass, items)
      BY <2>4
    <3> HIDE DEF items
    <3>5. QED BY <1>3, <3>3, <3>4
  <2>5. QED BY <1>5, <2>3, <2>4 DEF SentinelFails
<1>6. QED BY <1>4, <1>5

LEMMA SweepSafe ==
    ASSUME Safe, NEW h \in Hosts, SweepHost(h)
    PROVE  Safe'
<1>1. pass # None /\ pass.todo # <<>> /\ Head(pass.todo) = h /\ UNCHANGED validators /\ Untouched
  BY DEF SweepHost, Visiting
<1>2. Remembering(pass) /\ TypeInvariant /\ Keeps(working) /\ h \in Targets /\ working[h] = prior[h]
  BY <1>1, AtHead, Owners, Names DEF Safe, WatchInv, TypeInvariant
<1> DEFINE old == working[h]
           Items4(stance) ==
              ObservedItems(h, old, stance)
                \cup (IF stance.status = "unreachable" THEN {Item("unreachable", "warning", {h})} ELSE {})
                \cup (IF SignalMismatch(h, stance)
                        THEN {Item("content-signals-mismatch", "critical", {h})} ELSE {})
<1>3. PICK answer \in {world[h], Unreachable} :
         /\ working' = [working EXCEPT ![h] = ParseStance(h, answer)]
         /\ pass' = [Next1(pass, Items4(ParseStance(h, answer)))
                       EXCEPT !.seeded = IF old = None THEN @ \cup {h} ELSE @]
  BY DEF SweepHost
<1> DEFINE stance == ParseStance(h, answer)
           items == Items4(stance)
           n == Next1(pass, items)
<1>4. items \in SUBSET AllItems
  <2>1. \A sv \in {"notice", "warning", "critical"} : \A k \in Kinds : Item(k, sv, {h}) \in AllItems
    BY <1>2 DEF Item, AllItems
  <2>2. "stance-changed" \in Kinds /\ "unreachable" \in Kinds /\ "content-signals-mismatch" \in Kinds
    BY DEF Kinds
  <2> HIDE DEF stance
  <2>3. ObservedItems(h, old, stance) \subseteq AllItems
    BY <2>1, <2>2 DEF ObservedItems, StanceItems
  <2>4. QED BY <2>1, <2>2, <2>3
<1>5. ASSUME old # None, old # stance
      PROVE  \E i \in items : h \in i.about /\ (CollectionBlocking(old, stance) => i.severity = "critical")
  <2> HIDE DEF stance
  <2>1. \E i \in ObservedItems(h, old, stance) :
           h \in i.about /\ (CollectionBlocking(old, stance) => i.severity = "critical")
    BY <1>5 DEF ObservedItems, StanceItems, Item
  <2>2. QED BY <2>1
<1>6. stance.status = "unreachable" => \E i \in items : h \in i.about
  <2>1. Item("unreachable", "warning", {h}).about = {h}
    BY DEF Item
  <2> HIDE DEF stance
  <2>2. QED BY <2>1
<1> HIDE DEF Items4
<1>7. /\ Remembering(n) /\ n.job = pass.job /\ n.todo = Tail(pass.todo) /\ n.step = "visit"
      /\ n.items = pass.items \cup items /\ n.dirty = pass.dirty /\ n.memory = pass.memory
      /\ n.seeded = pass.seeded
  <2> HIDE DEF items
  <2>1. QED BY <1>1, <1>2, <1>4, Next1Is
<1>8. /\ Remembering(pass') /\ pass'.job = pass.job /\ pass'.todo = Tail(pass.todo)
      /\ pass'.step = "visit" /\ pass'.items = pass.items \cup items /\ pass'.dirty = pass.dirty
      /\ pass'.memory = pass.memory
      /\ pass'.seeded = IF old = None THEN pass.seeded \cup {h} ELSE pass.seeded
  <2>1. pass' = [n EXCEPT !.seeded = IF old = None THEN @ \cup {h} ELSE @]
    BY <1>3
  <2> HIDE DEF n, old
  <2>2. /\ pass'.job = n.job /\ pass'.todo = n.todo /\ pass'.step = n.step
        /\ pass'.items = n.items /\ pass'.dirty = n.dirty /\ pass'.memory = n.memory
        /\ pass'.lapsed = n.lapsed
        /\ pass'.seeded = IF old = None THEN n.seeded \cup {h} ELSE n.seeded
    BY <1>7, <2>1 DEF Remembering, PassStates
  <2>3. pass' = [job |-> pass'.job, todo |-> pass'.todo, step |-> pass'.step, items |-> pass'.items,
                 dirty |-> pass'.dirty, memory |-> pass'.memory, seeded |-> pass'.seeded,
                 lapsed |-> pass'.lapsed]
    BY <1>7, <2>1 DEF Remembering, PassStates
  <2>4. pass'.seeded \subseteq Targets
    BY <1>2, <1>7, <2>2 DEF Remembering, PassStates
  <2>5. pass' \in PassStates
    BY <1>7, <2>2, <2>3, <2>4 DEF Remembering, PassStates
  <2>6. QED BY <1>7, <2>2, <2>5 DEF Remembering
<1>9. Keeps(working') /\ working'[h] = stance /\ \A t \in Targets \ {h} : working'[t] = working[t]
  <2>1. world[h] \in RobotsFiles[h]
    <3>1. world[h] \in Published(h)
      BY <1>2 DEF TypeInvariant, Worlds
    <3>2. Published(h) = RobotsFiles[h]
      BY Names DEF Published, Reference
    <3>3. QED BY <3>1, <3>2
  <2>2. stance \in Keepable(h)
    BY <1>3, <2>1, StanceKept
  <2> HIDE DEF stance
  <2>3. QED BY <1>2, <1>3, <2>2 DEF Keeps, stance
<1>10. \A t \in Targets : Owner(t) = Head(pass.todo) <=> t = h
  BY <1>1, <1>2, Owners
<1>11. working'[h] = prior[h] \/ Evidence(h, pass', working'[h])
  <2> HIDE DEF items
  <2>1. CASE old = None
    <3>1. h \in pass'.seeded
      BY <1>8, <2>1
    <3>2. Item("state-seeded", "notice", pass'.seeded) \in ItemsAtTheEnd(pass')
      BY <3>1 DEF ItemsAtTheEnd
    <3>3. ~ Blocks(h, prior[h], working'[h])
      BY <1>2, <2>1 DEF Blocks
    <3>4. Item("state-seeded", "notice", pass'.seeded).about = pass'.seeded
      BY DEF Item
    <3>5. QED BY <3>1, <3>2, <3>3, <3>4 DEF Evidence
  <2>2. CASE old # None /\ old # stance
    <3>1. PICK i \in items : h \in i.about /\ (CollectionBlocking(old, stance) => i.severity = "critical")
      BY <1>5, <2>2
    <3>2. i \in ItemsAtTheEnd(pass')
      BY <1>8 DEF ItemsAtTheEnd
    <3>3. Blocks(h, prior[h], working'[h]) => CollectionBlocking(old, stance)
      BY <1>2, <1>9 DEF Blocks
    <3>4. QED BY <3>1, <3>2, <3>3 DEF Evidence
  <2>3. QED BY <1>2, <1>9, <2>1, <2>2
<1>12. ASSUME Drifted(h) PROVE Said(h, pass'.items)
  <2> HIDE DEF items
  <2>1. prior[h] \notin {None, ParseStance(h, world[h])}
    BY <1>12 DEF Drifted, Observed
  <2>2. \E i \in items : h \in i.about
    <3>1. CASE answer = world[h]
      <4>1. old # None /\ old # stance
        BY <1>2, <2>1, <3>1
      <4>2. QED BY <1>5, <4>1
    <3>2. CASE answer = Unreachable
      <4>1. stance.status = "unreachable"
        BY <3>2 DEF ParseStance, Unreachable
      <4>2. QED BY <1>6, <4>1
    <3>3. QED BY <1>3, <3>1, <3>2
  <2>3. QED BY <1>8, <2>2, Names DEF Said
<1>13. pass'.dirty = TRUE =>
          \A t \in Reference : pass'.memory[t] # working'[t] => \E i \in pass'.items : t \in i.about
  <2> HIDE DEF items
  <2>1. \A t \in Reference : working'[t] = working[t]
    BY <1>9, Names
  <2>2. QED BY <1>1, <1>8, <2>1, AtHead
<1>14. QED
  <2> HIDE DEF items, stance
  <2>1. \A t \in Targets : Owner(t) # Head(pass.todo) =>
           working'[t] = working[t] /\ (t \in pass.seeded => t \in pass'.seeded)
    BY <1>8, <1>9, <1>10
  <2>2. /\ DOMAIN validators' = Pages
        /\ \A x \in Pages : validators'[x] \in Published(x) \cup {None}
        /\ \A x \in Pages : validators'[x] = validators[x]
    BY <1>1, <1>2 DEF TypeInvariant
  <2>3. pass.items \subseteq pass'.items
    BY <1>8
  <2>4. /\ \A t \in Targets : Owner(t) = Head(pass.todo) =>
              working'[t] = prior[t] \/ Evidence(t, pass', working'[t])
        /\ \A t \in Targets : Owner(t) = Head(pass.todo) /\ Drifted(t) => Said(t, pass'.items)
    BY <1>10, <1>11, <1>12
  <2>5. QED BY <1>1, <1>8, <1>9, <1>13, <2>1, <2>2, <2>3, <2>4, SubjectDone

LEMMA TermsSafe ==
    ASSUME Safe, Terms
    PROVE  Safe'
<1> DEFINE p == Judged(pass, "quote", world["quote"])
<1>1. /\ pass # None /\ pass.todo # <<>> /\ Head(pass.todo) = "aws-carveout" /\ pass.step = "visit"
      /\ UNCHANGED working /\ Untouched /\ InOrder /\ Fresh /\ filed = None
  BY Running DEF Terms, Visiting
<1>2. /\ Remembering(pass) /\ TypeInvariant /\ Keeps(working) /\ pass.seeded \subseteq Reference
      /\ Waiting("quote") /\ working["quote"] = prior["quote"] /\ pass.dirty = FALSE
  <2>1. Head(pass.todo) \notin Hosts
    BY <1>1, JobAssumption DEF Handlers
  <2>2. QED BY <1>1, <2>1, AtHead, Owners, Names DEF Safe, WatchInv, TypeInvariant
<1>3. pass.memory["quote"] = working["quote"] /\ pass.memory["aup"] = working["aup"]
  BY <1>1, <1>2 DEF Fresh
<1>4. PICK q : /\ pass' = [q EXCEPT !.step = "aup"]
               /\ q = p \/ (q = pass /\ Unmodified("quote"))
               /\ ReadPage("quote") \/ UNCHANGED validators
  BY DEF Terms
<1>5. /\ Remembering(p) /\ p.job = pass.job /\ p.todo = pass.todo
      /\ p.items = pass.items /\ p.dirty = pass.dirty /\ p.memory["aup"] = pass.memory["aup"]
      /\ p.memory["quote"] # pass.memory["quote"] => "quote" \in p.seeded
      /\ pass.seeded \subseteq p.seeded /\ p.seeded \subseteq pass.seeded \cup {"quote"}
      /\ pass.memory["quote"] \notin {None, world["quote"]} => "quote" \in p.lapsed
  BY <1>2, JudgedIs, Names
<1> HIDE DEF p
<1>6. /\ Remembering(q) /\ q.job = pass.job /\ q.todo = pass.todo
      /\ q.items = pass.items /\ q.dirty = pass.dirty /\ q.memory["aup"] = pass.memory["aup"]
      /\ q.memory["quote"] # pass.memory["quote"] => "quote" \in q.seeded
      /\ pass.seeded \subseteq q.seeded /\ q.seeded \subseteq Reference
  BY <1>2, <1>4, <1>5, Names
<1>7. /\ Remembering(pass') /\ pass'.job = pass.job /\ pass'.todo = pass.todo /\ pass'.step = "aup"
      /\ pass'.items = pass.items /\ pass'.dirty = FALSE /\ pass'.memory = q.memory
      /\ pass'.seeded = q.seeded /\ pass'.lapsed = q.lapsed
  <2>1. /\ pass'.job = q.job /\ pass'.todo = q.todo /\ pass'.step = "aup"
        /\ pass'.items = q.items /\ pass'.dirty = q.dirty /\ pass'.memory = q.memory
        /\ pass'.seeded = q.seeded /\ pass'.lapsed = q.lapsed
    BY <1>4, <1>6 DEF Remembering, PassStates
  <2>2. pass' = [job |-> q.job, todo |-> q.todo, step |-> "aup", items |-> q.items,
                 dirty |-> q.dirty, memory |-> q.memory, seeded |-> q.seeded, lapsed |-> q.lapsed]
    BY <1>4, <1>6 DEF Remembering, PassStates
  <2>3. pass' \in PassStates
    BY <1>6, <2>2 DEF Remembering, PassStates
  <2>4. QED BY <1>2, <1>6, <2>1, <2>3 DEF Remembering
<1>8. /\ DOMAIN validators' = Pages
      /\ \A x \in Pages : validators'[x] \in Published(x) \cup {None}
      /\ \A x \in Pages \ {"quote"} : validators'[x] = validators[x]
  BY <1>2, <1>4, ReadIs, Names
<1>9. TypeInvariant' /\ pass' # None
  BY <1>1, <1>2, <1>7, <1>8, TypeStep DEF Keeps
<1>10. \A t : Waiting(t)' <=> Waiting(t)
  BY <1>7 DEF Waiting
<1>11. InOrder'
  BY <1>1, <1>6, <1>7 DEF InOrder
<1>12. Fresh'
  <2>1. \A t \in Targets : Waiting(t)' => working'[t] = prior'[t]
    BY <1>1, <1>10 DEF Fresh, Untouched
  <2>2. QED BY <1>1, <1>3, <1>6, <1>7, <2>1 DEF Fresh
<1>13. ASSUME still = TRUE, deployment = "ephemeral" PROVE Told'
  <2>1. Told
    BY <1>1, <1>13 DEF Safe, WatchInv
  <2>2. \A t : Drifted(t)' <=> Drifted(t)
    BY <1>1 DEF Drifted, Observed, Untouched
  <2>3. \A x \in Pages : Waiting(x)' => validators'[x] = None \/ (pass'.step = "aup" /\ x = "quote")
    BY <1>1, <1>7, <1>8, <1>10, <2>1 DEF Told
  <2>4. ASSUME Drifted("quote") PROVE "quote" \in pass'.lapsed
    <3>1. ~ Unmodified("quote")
      BY <1>1, <1>13, AtHead, Owners, Names
    <3>2. pass.memory["quote"] \notin {None, world["quote"]}
      BY <1>2, <1>3, <2>4, Names DEF Drifted, Observed
    <3>3. QED BY <1>4, <1>5, <1>7, <3>1, <3>2
  <2>5. \A t \in WatchedBy(pass'.job) : Waiting(t)' \/ (Drifted(t)' => Said(t, pass'.items))
    BY <1>7, <1>10, <2>1, <2>2 DEF Told
  <2>6. QED BY <2>2, <2>3, <2>4, <2>5 DEF Told, Said
<1>14. WatchInv'
  BY <1>1, <1>9, <1>11, <1>12, <1>13 DEF WatchInv, Untouched
<1>15. AdoptionsQueued'
  <2>1. ASSUME NEW t \in Targets \ lost, working'[t] # prior[t] PROVE Evidence(t, pass', working'[t])
    <3>1. Evidence(t, pass, working[t]) /\ working'[t] = working[t]
      BY <1>1, <2>1, Running
    <3>2. pass.items \subseteq pass'.items /\ (t \in pass.seeded => t \in pass'.seeded)
      BY <1>6, <1>7
    <3>3. QED BY <3>1, <3>2, EvidenceStays
  <2>2. QED BY <1>1, <1>9, <2>1, AdoptionsNext DEF Untouched
<1>16. DriftIsQueued'
  BY <1>1 DEF DriftIsQueued, Untouched
<1>17. QED BY <1>14, <1>15, <1>16 DEF Safe

LEMMA WriteRegistrySafe ==
    ASSUME Safe, WriteRegistry
    PROVE  Safe'
<1>1. /\ pass # None /\ pass.todo = <<>> /\ pass.step = "visit" /\ pass.dirty
      /\ working' = [t \in Targets |-> IF t \in Reference THEN pass.memory[t] ELSE working[t]]
      /\ pass' = [pass EXCEPT !.dirty = FALSE]
      /\ UNCHANGED validators /\ Untouched
  BY DEF WriteRegistry
<1>2. Remembering(pass) /\ TypeInvariant /\ Keeps(working) /\ Fresh /\ filed = None /\ InOrder
  BY <1>1, Running DEF Safe, WatchInv, TypeInvariant
<1>3. pass.dirty = TRUE
  BY <1>1, <1>2 DEF Remembering, PassStates
<1>4. /\ Remembering(pass') /\ pass'.job = pass.job /\ pass'.todo = <<>> /\ pass'.step = "visit"
      /\ pass'.items = pass.items /\ pass'.dirty = FALSE /\ pass'.seeded = pass.seeded
  <2>1. /\ pass'.job = pass.job /\ pass'.todo = <<>> /\ pass'.step = "visit"
        /\ pass'.items = pass.items /\ pass'.dirty = FALSE /\ pass'.memory = pass.memory
        /\ pass'.seeded = pass.seeded /\ pass'.lapsed = pass.lapsed
    BY <1>1, <1>2 DEF Remembering, PassStates
  <2>2. pass' = [job |-> pass.job, todo |-> pass.todo, step |-> pass.step, items |-> pass.items,
                 dirty |-> FALSE, memory |-> pass.memory, seeded |-> pass.seeded, lapsed |-> pass.lapsed]
    BY <1>1, <1>2 DEF Remembering, PassStates
  <2>3. pass' \in PassStates
    BY <1>2, <2>2 DEF Remembering, PassStates
  <2>4. QED BY <1>2, <2>1, <2>3 DEF Remembering
<1>5. Keeps(working')
  BY <1>1, <1>2 DEF Keeps, Remembering
<1>6. TypeInvariant' /\ pass' # None
  <2>1. /\ DOMAIN validators' = Pages
        /\ \A x \in Pages : validators'[x] \in Published(x) \cup {None}
    BY <1>1, <1>2 DEF TypeInvariant
  <2>2. QED BY <1>1, <1>2, <1>4, <1>5, <2>1, TypeStep
<1>7. DOMAIN pass'.todo = {} /\ DOMAIN pass.todo = {}
  BY <1>1, <1>4
<1>8. \A t : ~ Waiting(t) /\ ~ Waiting(t)'
  BY <1>7 DEF Waiting, In
<1>9. InOrder'
  BY <1>4, <1>7 DEF InOrder
<1>10. Fresh'
  BY <1>4, <1>8 DEF Fresh
<1>11. ASSUME still = TRUE, deployment = "ephemeral" PROVE Told'
  <2>1. Told
    BY <1>1, <1>11 DEF Safe, WatchInv
  <2>2. \A t : Drifted(t)' <=> Drifted(t)
    BY <1>1 DEF Drifted, Observed, Untouched
  <2>3. QED BY <1>4, <1>8, <2>1, <2>2 DEF Told, Said
<1>12. WatchInv'
  BY <1>1, <1>2, <1>6, <1>9, <1>10, <1>11 DEF WatchInv, Untouched
<1>13. AdoptionsQueued'
  <2>1. ASSUME NEW t \in Targets \ lost, working'[t] # prior[t] PROVE Evidence(t, pass', working'[t])
    <3>1. CASE working'[t] = working[t]
      <4>1. Evidence(t, pass, working[t])
        BY <1>1, <2>1, <3>1, Running
      <4>2. QED BY <1>4, <3>1, <4>1, EvidenceStays
    <3>2. CASE working'[t] # working[t]
      <4>1. t \in Reference /\ pass.memory[t] # working[t]
        BY <1>1, <3>2
      <4>2. PICK i \in pass.items : t \in i.about
        BY <1>2, <1>3, <4>1 DEF Fresh
      <4>3. i \in ItemsAtTheEnd(pass')
        BY <1>4 DEF ItemsAtTheEnd
      <4>4. ~ Blocks(t, prior[t], working'[t])
        BY <4>1, Names DEF Blocks
      <4>5. QED BY <4>2, <4>3, <4>4 DEF Evidence
    <3>3. QED BY <3>1, <3>2
  <2>2. QED BY <1>1, <1>6, <2>1, AdoptionsNext DEF Untouched
<1>14. DriftIsQueued'
  BY <1>1, <1>2 DEF DriftIsQueued, Untouched
<1>15. QED BY <1>12, <1>13, <1>14 DEF Safe

-----------------------------------------------------------------------------
LEMMA WriteQueueSafe ==
    ASSUME Safe, WriteQueue
    PROVE  Safe'
<1>1. /\ pass # None /\ pass.todo = <<>>
      /\ filed' = [job |-> pass.job, items |-> ItemsAtTheEnd(pass)] /\ PassEnds /\ pass' = None
      /\ UNCHANGED <<deployment, world, committed, working, prior, still, lost, changes, stops>>
  BY DEF WriteQueue, PassEnds
<1>2. Remembering(pass) /\ TypeInvariant
  BY <1>1, Running DEF Safe, WatchInv
<1>3. filed' \in Queues
  <2>1. Item("state-seeded", "notice", pass.seeded) \in AllItems
    BY <1>2 DEF Item, AllItems, Kinds, Remembering, PassStates
  <2>2. ItemsAtTheEnd(pass) \subseteq AllItems
    BY <1>2, <2>1 DEF ItemsAtTheEnd, Remembering, PassStates
  <2>3. QED BY <1>1, <1>2, <2>2 DEF Queues, Remembering, PassStates
<1>4. filed' # None /\ filed'.job = pass.job /\ filed'.items = ItemsAtTheEnd(pass)
  BY <1>1, <1>3, NothingAssumption
<1>5. /\ DOMAIN validators' = Pages
      /\ \A p \in Pages : validators'[p] \in Published(p) \cup {None}
      /\ deployment = "ephemeral" => \A p \in Pages : validators'[p] = None
  BY <1>1, <1>2 DEF PassEnds, TypeInvariant
<1>6. TypeInvariant'
  BY <1>1, <1>2, <1>3, <1>5 DEF TypeInvariant, Worlds, Published, Keeps
<1>7. AdoptionsQueued'
  <2>1. Items' = ItemsAtTheEnd(pass)
    BY <1>1, <1>4 DEF Items
  <2>2. ASSUME NEW t \in Targets \ lost, working[t] # prior[t] PROVE Evidence(t, pass, working[t])
    BY <1>1, <2>2, Running
  <2>3. QED BY <1>1, <2>1, <2>2 DEF AdoptionsQueued, Evidence, Blocks, CollectionBlocking
<1>8. DriftIsQueued'
  <2>1. ASSUME still, deployment = "ephemeral", NEW t \in WatchedBy(pass.job), Drifted(t)
        PROVE  \E i \in ItemsAtTheEnd(pass) : t \in i.about /\ (t \in Reference => i.severity = "critical")
    <3>1. Told
      BY <1>1, <1>2, <2>1 DEF Safe, WatchInv, TypeInvariant
    <3>2. ~ Waiting(t)
      BY <1>1 DEF Waiting, In
    <3>3. Said(t, pass.items)
      BY <2>1, <3>1, <3>2 DEF Told
    <3>4. QED BY <3>3 DEF Said, ItemsAtTheEnd
  <2>2. \A t : Observed(t)' = Observed(t)
    BY <1>1 DEF Observed
  <2>3. QED BY <1>1, <1>4, <2>1, <2>2 DEF DriftIsQueued, Drifted
<1>9. WatchInv'
  BY <1>1, <1>5, <1>6 DEF WatchInv
<1>10. QED BY <1>7, <1>8, <1>9 DEF Safe

LEMMA StopSafe ==
    ASSUME Safe, Stop
    PROVE  Safe'
<1>1. /\ pass # None /\ stops < MaxStops /\ stops' = stops + 1 /\ PassEnds /\ pass' = None
      /\ lost' = {t \in Targets : working[t] # prior[t]}
      /\ UNCHANGED <<deployment, world, committed, working, filed, prior, still, changes>>
  BY DEF Stop, PassEnds
<1>2. TypeInvariant /\ filed = None
  BY <1>1, Running DEF Safe, WatchInv
<1>3. /\ DOMAIN validators' = Pages
      /\ \A p \in Pages : validators'[p] \in Published(p) \cup {None}
      /\ deployment = "ephemeral" => \A p \in Pages : validators'[p] = None
  BY <1>1, <1>2 DEF PassEnds, TypeInvariant
<1>4. stops' \in 0..MaxStops
  BY <1>1, <1>2, JobAssumption DEF TypeInvariant
<1>5. TypeInvariant'
  BY <1>1, <1>2, <1>3, <1>4 DEF TypeInvariant, Worlds, Published, Keeps
<1>6. AdoptionsQueued' /\ DriftIsQueued'
  BY <1>1, <1>2 DEF AdoptionsQueued, DriftIsQueued
<1>7. QED BY <1>1, <1>3, <1>5, <1>6 DEF Safe, WatchInv

(* A pass visits all that its job watches.                                 *)
LEMMA JobVisits ==
    ASSUME NEW job \in Passes, NEW t \in WatchedBy(job)
    PROVE  In(Owner(t), job) /\ t \in Targets
<1>1. PICK n \in DOMAIN job :
         t \in CASE job[n] = "aws-carveout"            -> Reference
                [] job[n] = "mistral-legal-hub-watch" -> {"hub"}
                [] OTHER                              -> {job[n]} \cap Hosts
  BY DEF WatchedBy
<1>2. Owner(t) = job[n]
  <2>1. CASE job[n] = "aws-carveout"
    BY <1>1, <2>1, Owners, Names
  <2>2. CASE job[n] = "mistral-legal-hub-watch"
    BY <1>1, <2>2, Owners
  <2>3. CASE job[n] \notin {"aws-carveout", "mistral-legal-hub-watch"}
    BY <1>1, <2>3, Owners
  <2>4. QED BY <2>1, <2>2, <2>3
<1>3. t \in Targets
  BY <1>1, Names
<1>4. QED BY <1>2, <1>3 DEF In

LEMMA BeginSafe ==
    ASSUME Safe, NEW job \in Passes, Begin(job)
    PROVE  Safe'
<1>1. /\ pass = None
      /\ working' = IF deployment = "ephemeral" THEN committed ELSE working
      /\ pass' = [job |-> job, todo |-> job, step |-> "visit", items |-> {}, dirty |-> FALSE,
                  memory |-> [t \in Reference |-> working'[t]], seeded |-> {}, lapsed |-> {}]
      /\ filed' = None
      /\ prior' = working' /\ still' = TRUE /\ lost' = {}
      /\ UNCHANGED <<deployment, world, committed, validators, changes, stops>>
  BY DEF Begin
<1>2. TypeInvariant
  BY DEF Safe, WatchInv
<1>3. Keeps(working')
  BY <1>1, <1>2 DEF TypeInvariant, Keeps
<1>4. /\ pass' \in PassStates /\ pass'.todo = job /\ pass'.job = job /\ pass'.step = "visit"
      /\ pass'.dirty = FALSE /\ pass'.seeded = {}
      /\ \A t \in Reference : pass'.memory[t] = working'[t] /\ working'[t] \in Keepable(t)
  <2>1. \A t \in Reference : working'[t] \in Keepable(t) /\ t \in Targets
    BY <1>3, Names DEF Keeps
  <2>2. [t \in Reference |-> working'[t]] \in [Reference -> UNION {Keepable(t) : t \in Targets}]
    <3>1. \A t \in Reference : working'[t] \in UNION {Keepable(u) : u \in Targets}
      BY <2>1
    <3>2. QED BY <3>1
  <2>3. job \in Seq(Ids)
    BY JobAssumption
  <2>4. QED BY <1>1, <2>1, <2>2, <2>3 DEF PassStates
<1>5. pass' # None
  BY <1>4, NothingAssumption
<1>6. TypeInvariant'
  BY <1>1, <1>2, <1>3, <1>4 DEF TypeInvariant, Worlds, Published, Keeps
<1>7. InOrder'
  BY <1>4, JobAssumption DEF InOrder
<1>8. Fresh'
  BY <1>1, <1>4, Names DEF Fresh
<1>9. ASSUME deployment = "ephemeral" PROVE Told'
  <2>1. \A p \in Pages : validators'[p] = None
    BY <1>1, <1>9 DEF Safe, WatchInv
  <2>2. \A t \in WatchedBy(job) : In(Owner(t), job)
    BY JobVisits
  <2>3. QED BY <1>4, <2>1, <2>2 DEF Told, Waiting
<1>10. WatchInv'
  BY <1>1, <1>5, <1>6, <1>7, <1>8, <1>9 DEF WatchInv
<1>11. AdoptionsQueued' /\ DriftIsQueued'
  BY <1>1 DEF AdoptionsQueued, DriftIsQueued
<1>12. QED BY <1>10, <1>11 DEF Safe

LEMMA WorldSafe ==
    ASSUME Safe, NEW t \in Targets, WorldChanges(t)
    PROVE  Safe'
<1>1. /\ changes < MaxChanges /\ changes' = changes + 1 /\ still' = FALSE
      /\ UNCHANGED <<deployment, committed, working, validators, pass, filed, prior, lost, stops>>
  BY DEF WorldChanges
<1>2. PICK v \in Published(t) : world' = [world EXCEPT ![t] = v]
  BY DEF WorldChanges
<1>3. TypeInvariant
  BY DEF Safe, WatchInv
<1>4. world' \in Worlds
  <2>1. v \in UNION {Published(u) : u \in Targets}
    OBVIOUS
  <2>2. /\ world \in [Targets -> UNION {Published(u) : u \in Targets}]
        /\ \A u \in Targets : world[u] \in Published(u)
    BY <1>3 DEF TypeInvariant, Worlds
  <2>3. \A u \in Targets : world'[u] \in Published(u)
    BY <1>2, <2>2
  <2>4. world' \in [Targets -> UNION {Published(u) : u \in Targets}]
    BY <1>2, <2>1, <2>2
  <2>5. QED BY <2>3, <2>4 DEF Worlds
<1>5. changes' \in 0..MaxChanges
  BY <1>1, <1>3, JobAssumption DEF TypeInvariant
<1>6. TypeInvariant'
  BY <1>1, <1>3, <1>4, <1>5 DEF TypeInvariant, Published, Keeps
<1>7. /\ InOrder' <=> InOrder
      /\ Fresh' <=> Fresh
  BY <1>1 DEF InOrder, Fresh, Waiting
<1>8. WatchInv'
  BY <1>1, <1>6, <1>7 DEF WatchInv, Safe
<1>9. AdoptionsQueued'
  <2>1. Items' = Items
    BY <1>1 DEF Items, ItemsAtTheEnd
  <2>2. QED BY <1>1, <2>1 DEF AdoptionsQueued, Safe, Blocks, CollectionBlocking
<1>10. DriftIsQueued'
  BY <1>1 DEF DriftIsQueued
<1>11. QED BY <1>8, <1>9, <1>10 DEF Safe

(* A commit, or no step at all: what the pass goes by is as it was.        *)
LEMMA QuietSafe ==
    ASSUME Safe, Accept \/ UNCHANGED vars
    PROVE  Safe'
<1>1. UNCHANGED <<deployment, world, working, validators, pass, filed, prior, still, lost,
                  changes, stops>>
  BY DEF Accept, vars
<1>2. TypeInvariant
  BY DEF Safe, WatchInv
<1>3. Keeps(committed')
  BY <1>2 DEF TypeInvariant, Keeps, Accept, vars
<1>4. TypeInvariant'
  BY <1>1, <1>2, <1>3 DEF TypeInvariant, Worlds, Published, Keeps
<1>5. /\ InOrder' <=> InOrder
      /\ Fresh' <=> Fresh
      /\ Told' <=> Told
  BY <1>1 DEF InOrder, Fresh, Told, Waiting, Drifted, Observed
<1>6. WatchInv'
  BY <1>1, <1>4, <1>5 DEF WatchInv, Safe
<1>7. AdoptionsQueued'
  <2>1. Items' = Items
    BY <1>1 DEF Items, ItemsAtTheEnd
  <2>2. QED BY <1>1, <2>1 DEF AdoptionsQueued, Safe, Blocks, CollectionBlocking
<1>8. DriftIsQueued'
  BY <1>1 DEF DriftIsQueued, Safe, Observed
<1>9. QED BY <1>6, <1>7, <1>8 DEF Safe

LEMMA InitSafe ==
    ASSUME Init
    PROVE  Safe
<1>1. /\ deployment \in {"ephemeral", "kept"} /\ world \in Worlds
      /\ committed \in {[t \in Targets |-> None],
                        [t \in Targets |-> IF world[t] = NoQuote THEN None ELSE Observed(t)]}
      /\ working = committed /\ validators = [p \in Pages |-> None] /\ pass = None /\ filed = None
      /\ prior = committed /\ still = TRUE /\ lost = {} /\ changes = 0 /\ stops = 0
  BY DEF Init
<1>2. ASSUME NEW t \in Targets, world[t] # NoQuote PROVE Observed(t) \in Keepable(t)
  <2>1. world[t] \in Published(t)
    BY <1>1 DEF Worlds
  <2>2. CASE t \in Hosts
    <3>1. Published(t) = RobotsFiles[t]
      BY <2>2, Names DEF Published
    <3>2. QED BY <2>1, <2>2, <3>1, StanceKept DEF Observed
  <2>3. CASE t \notin Hosts
    BY <1>2, <2>1, <2>3 DEF Observed, Keepable
  <2>4. QED BY <2>2, <2>3
<1>3. \A t \in Targets : None \in Keepable(t)
  BY DEF Keepable
<1>4. Keeps(committed)
  <2>1. CASE committed = [t \in Targets |-> None]
    BY <1>3, <2>1 DEF Keeps
  <2>2. CASE committed = [t \in Targets |-> IF world[t] = NoQuote THEN None ELSE Observed(t)]
    BY <1>2, <1>3, <2>2 DEF Keeps
  <2>3. QED BY <1>1, <2>1, <2>2
<1>5. TypeInvariant
  BY <1>1, <1>4, JobAssumption DEF TypeInvariant
<1>6. QED BY <1>1, <1>5 DEF Safe, WatchInv, AdoptionsQueued, DriftIsQueued

LEMMA AllSafe == Spec => []Safe
<1>1. Safe /\ [Next]_vars => Safe'
  <2>1. SUFFICES ASSUME Safe, [Next]_vars PROVE Safe'
    OBVIOUS
  <2>2. CASE \E t \in Targets : WorldChanges(t)
    BY <2>1, <2>2, WorldSafe
  <2>3. CASE Accept \/ UNCHANGED vars
    BY <2>1, <2>3, QuietSafe
  <2>4. CASE \E job \in Passes : Begin(job)
    BY <2>1, <2>4, BeginSafe
  <2>5. CASE Works
    <3>1. CASE Terms
      BY <2>1, <3>1, TermsSafe
    <3>2. CASE Aup
      BY <2>1, <3>2, AupSafe
    <3>3. CASE Hub \/ HubStateUnreadable
      BY <2>1, <3>3, HubSafe
    <3>4. CASE SentinelFails \/ Unhandled
      BY <2>1, <3>4, FailureSafe
    <3>5. CASE WriteRegistry
      BY <2>1, <3>5, WriteRegistrySafe
    <3>6. CASE \E h \in Hosts : SweepHost(h)
      BY <2>1, <3>6, SweepSafe
    <3>7. CASE WriteQueue
      BY <2>1, <3>7, WriteQueueSafe
    <3>8. QED BY <2>5, <3>1, <3>2, <3>3, <3>4, <3>5, <3>6, <3>7 DEF Works
  <2>6. CASE Stop
    BY <2>1, <2>6, StopSafe
  <2>7. QED BY <2>1, <2>2, <2>3, <2>4, <2>5, <2>6 DEF Next
<1>2. QED BY <1>1, InitSafe, PTL DEF Spec

(* Every state the watch jobs reach is of its type: what is kept of a      *)
(* target is nothing, or what a pass makes of an answer about it.          *)
THEOREM TypeCorrect == Spec => []TypeInvariant
<1>1. Safe => TypeInvariant
  BY DEF Safe, WatchInv
<1>2. QED BY <1>1, AllSafe, PTL

(* Nothing is adopted silently: what a pass writes over the accepted       *)
(* state is in its queue, critical when it blocks a registered URL, unless *)
(* the pass was stopped.                                                   *)
THEOREM NothingAdoptedSilently == Spec => []AdoptionsQueued
<1>1. Safe => AdoptionsQueued
  BY DEF Safe
<1>2. QED BY <1>1, AllSafe, PTL

(* No drift gets past a pass that came to its end in a new checkout, and a *)
(* lapse of the AWS clearance is in its queue as critical.                 *)
THEOREM NoDriftGetsPast == Spec => []DriftIsQueued
<1>1. Safe => DriftIsQueued
  BY DEF Safe
<1>2. QED BY <1>1, AllSafe, PTL
=============================================================================
