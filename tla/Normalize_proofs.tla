--------------------------- MODULE Normalize_proofs ---------------------------
(***************************************************************************)
(* Proofs about what the normalizers compute, for every page: the loop of  *)
(* the price normalizers does not depend on the order of the meters, and   *)
(* the docs extraction keeps every section apart with all of its text.     *)
(* Where a claim is about a loop it is proved by the first round in which  *)
(* it would fail.                                                          *)
(***************************************************************************)
EXTENDS Normalize, LeastNumber, FiniteSetTheorems, SequenceTheorems

-----------------------------------------------------------------------------
(* The loop over the meters.                                               *)

MeterOf(Dimensions, Values) ==
    [id : Nat, primary : Nat, start : Nat, dimension : Dimensions, value : Values]

BestIs(meters, f, N) ==
    f = [n \in 0..N |-> IF n = 0 THEN <<>> ELSE Better(f[n - 1], meters[n])]

LEMMA BestExists ==
    ASSUME NEW meters, NEW N \in Nat
    PROVE  \E f : BestIs(meters, f, N)
<1> DEFINE T == {n \in Nat : ~ \E f : BestIs(meters, f, n)}
<1>1. SUFFICES ASSUME T # {} PROVE FALSE
  OBVIOUS
<1>2. PICK m \in T : \A n \in T : m <= n
  <2> HIDE DEF T
  <2>1. T \in SUBSET Nat
    BY DEF T
  <2>2. QED BY <1>1, <2>1, Least
<1>3. m # 0
  <2>1. BestIs(meters, [n \in 0..0 |-> <<>>], 0)
    BY DEF BestIs
  <2>2. QED BY <2>1
<1>4. m - 1 \in Nat /\ m - 1 \notin T /\ m \in Nat
  BY <1>2, <1>3
<1>5. PICK f : BestIs(meters, f, m - 1)
  BY <1>4
<1> DEFINE g == [n \in 0..m |-> IF n = m THEN Better(f[m - 1], meters[m]) ELSE f[n]]
<1>6. BestIs(meters, g, m)
  <2>1. ASSUME NEW n \in 0..m
        PROVE  g[n] = IF n = 0 THEN <<>> ELSE Better(g[n - 1], meters[n])
    <3>1. CASE n = m
      BY <1>3, <1>4, <3>1
    <3>2. CASE n # m
      <4>1. n \in 0..m - 1
        BY <1>4, <3>2
      <4>2. f[n] = IF n = 0 THEN <<>> ELSE Better(f[n - 1], meters[n])
        BY <1>5, <4>1 DEF BestIs
      <4>3. n # 0 => n - 1 \in 0..m /\ n - 1 # m
        BY <1>4, <4>1
      <4>4. QED BY <3>2, <4>2, <4>3
    <3>3. QED BY <3>1, <3>2
  <2>2. QED BY <2>1 DEF BestIs
<1>7. QED BY <1>2, <1>6

LEMMA BestSteps ==
    ASSUME NEW meters, Len(meters) \in Nat
    PROVE  /\ BestMeters(meters)[0] = <<>>
           /\ \A n \in 1..Len(meters) :
                 BestMeters(meters)[n] = Better(BestMeters(meters)[n - 1], meters[n])
<1> DEFINE N == Len(meters)
           f == CHOOSE f : BestIs(meters, f, N)
<1>1. BestIs(meters, f, N)
  <2>1. \E h : BestIs(meters, h, N)
    BY BestExists
  <2>2. QED BY <2>1
<1>2. BestMeters(meters) = f
  BY DEF BestMeters, BestIs
<1> HIDE DEF f
<1>3. f[0] = <<>>
  BY <1>1 DEF BestIs
<1>4. ASSUME NEW n \in 1..N PROVE f[n] = Better(f[n - 1], meters[n])
  <2>1. n \in 0..N /\ n # 0
    OBVIOUS
  <2>2. QED BY <1>1, <2>1 DEF BestIs
<1>5. QED BY <1>2, <1>3, <1>4

LEMMA RankIsAnOrder ==
    ASSUME NEW D, NEW V, NEW a \in MeterOf(D, V), NEW b \in MeterOf(D, V), NEW c \in MeterOf(D, V)
    PROVE  /\ ~ Outranks(a, a)
           /\ Outranks(a, b) /\ ~ Outranks(c, b) => ~ Outranks(c, a)
BY DEF Outranks, MeterOf

(* After n meters there is a best one of each dimension that one of them   *)
(* prices, and none of them outranks it.                                   *)
Keeps(meters, n, best) ==
    /\ \A d : d \in DOMAIN best <=>
                  \E i \in 1..n : Priced(meters[i]) /\ meters[i].dimension = d
    /\ \A d \in DOMAIN best :
          \E i \in 1..n : Priced(meters[i]) /\ meters[i].dimension = d /\ best[d] = meters[i]
    /\ \A d \in DOMAIN best : \A i \in 1..n :
          Priced(meters[i]) /\ meters[i].dimension = d => ~ Outranks(meters[i], best[d])

LEMMA BetterKeeps ==
    ASSUME NEW D, NEW V, NEW meters \in Seq(MeterOf(D, V)), NEW n \in 1..Len(meters),
           NEW best, Keeps(meters, n - 1, best)
    PROVE  Keeps(meters, n, Better(best, meters[n]))
<1> DEFINE m == meters[n]
           new == Better(best, m)
<1>1. /\ n \in Nat /\ 1..n = (1..n - 1) \cup {n}
      /\ \A i \in 1..n : meters[i] \in MeterOf(D, V)
  OBVIOUS
<1>2. m \in MeterOf(D, V)
  OBVIOUS
<1>3. \A d \in DOMAIN best : best[d] \in MeterOf(D, V)
  BY <1>1 DEF Keeps
<1>4. CASE Priced(m) /\ (m.dimension \in DOMAIN best => Outranks(m, best[m.dimension]))
  <2>1. /\ DOMAIN new = DOMAIN best \cup {m.dimension}
        /\ new[m.dimension] = m
        /\ \A d \in DOMAIN best \ {m.dimension} : new[d] = best[d]
    BY <1>4 DEF Better
  <2> HIDE DEF new, m
  <2>2. \A d : d \in DOMAIN new <=>
                   \E i \in 1..n : Priced(meters[i]) /\ meters[i].dimension = d
    BY <1>1, <1>4, <2>1 DEF Keeps, m
  <2>3. ASSUME NEW d \in DOMAIN new
        PROVE  \E i \in 1..n : Priced(meters[i]) /\ meters[i].dimension = d /\ new[d] = meters[i]
    BY <1>1, <1>4, <2>1 DEF Keeps, m
  <2>4. ASSUME NEW d \in DOMAIN new, NEW i \in 1..n, Priced(meters[i]), meters[i].dimension = d
        PROVE  ~ Outranks(meters[i], new[d])
    <3>1. CASE d # m.dimension
      <4>1. i \in 1..n - 1
        BY <1>1, <2>4, <3>1 DEF m
      <4>2. QED BY <2>1, <2>4, <3>1, <4>1 DEF Keeps
    <3>2. CASE d = m.dimension /\ i = n
      <4>1. ~ Outranks(m, m)
        BY <1>2, RankIsAnOrder
      <4>2. QED BY <2>1, <3>2, <4>1 DEF m
    <3>3. CASE d = m.dimension /\ i # n
      <4>1. i \in 1..n - 1
        BY <1>1, <3>3
      <4>2. d \in DOMAIN best /\ ~ Outranks(meters[i], best[d])
        BY <2>4, <4>1 DEF Keeps
      <4>3. Outranks(m, best[d]) /\ best[d] \in MeterOf(D, V)
        BY <1>3, <1>4, <3>3, <4>2
      <4>4. ~ Outranks(meters[i], m)
        BY <1>1, <1>2, <4>2, <4>3, RankIsAnOrder
      <4>5. QED BY <2>1, <3>3, <4>4
    <3>4. QED BY <3>1, <3>2, <3>3
  <2>5. Keeps(meters, n, new)
    BY <2>2, <2>3, <2>4 DEF Keeps
  <2>6. QED BY <2>5 DEF new, m
<1>5. CASE ~ (Priced(m) /\ (m.dimension \in DOMAIN best => Outranks(m, best[m.dimension])))
  <2>1. new = best
    BY <1>5 DEF Better
  <2> HIDE DEF new, m
  <2>2. Keeps(meters, n, best)
    BY <1>1, <1>5 DEF Keeps, m
  <2>3. QED BY <2>1, <2>2 DEF new, m
<1>6. QED BY <1>4, <1>5

LEMMA LoopKeeps ==
    ASSUME NEW D, NEW V, NEW meters \in Seq(MeterOf(D, V)), NEW n \in 0..Len(meters)
    PROVE  Keeps(meters, n, BestMeters(meters)[n])
<1> DEFINE T == {k \in 0..Len(meters) : ~ Keeps(meters, k, BestMeters(meters)[k])}
<1>1. SUFFICES ASSUME T # {} PROVE FALSE
  OBVIOUS
<1>2. PICK m \in T : \A k \in T : m <= k
  <2> HIDE DEF T
  <2>1. T \in SUBSET Nat
    BY DEF T
  <2>2. QED BY <1>1, <2>1, Least
<1>3. m \in 0..Len(meters) /\ Len(meters) \in Nat
  OBVIOUS
<1>4. Keeps(meters, 0, <<>>)
  BY DEF Keeps
<1>5. m # 0
  BY <1>2, <1>4, BestSteps
<1>6. m \in 1..Len(meters) /\ m - 1 \in 0..Len(meters) /\ m - 1 \notin T
  BY <1>2, <1>3, <1>5
<1>7. Keeps(meters, m - 1, BestMeters(meters)[m - 1])
  BY <1>6
<1>8. BestMeters(meters)[m] = Better(BestMeters(meters)[m - 1], meters[m])
  BY <1>3, <1>6, BestSteps
<1>9. Keeps(meters, m, BestMeters(meters)[m])
  BY <1>6, <1>7, <1>8, BetterKeeps
<1>10. QED BY <1>2, <1>9

(* The price a list of meters gives a dimension does not depend on the     *)
(* order of the list or on how it is cut into pages: it is that of any     *)
(* meter that no other outranks.  Meters that tie must agree; the meters   *)
(* of one id, start and region would else be told apart by their order     *)
(* (normalize.py:573-580).                                                 *)
THEOREM PricesOrderFree ==
    ASSUME NEW D, NEW V, NEW meters \in Seq(MeterOf(D, V)),
           TiesAgree({meters[n] : n \in DOMAIN meters})
    PROVE  PriceLoop(meters) = PriceSnapshot({meters[n] : n \in DOMAIN meters})
<1> DEFINE best == BestMeters(meters)[Len(meters)]
           all == {meters[n] : n \in DOMAIN meters}
           usable == {m \in all : Priced(m)}
           rivals(d) == {m \in usable : m.dimension = d}
           First(d, m) == \A k \in rivals(d) : ~ Outranks(k, m)
           chosen(d) == CHOOSE m \in rivals(d) : First(d, m)
<1>1. /\ Len(meters) \in Nat /\ DOMAIN meters = 1..Len(meters)
      /\ \A m \in all : m \in MeterOf(D, V)
  OBVIOUS
<1>2. Keeps(meters, Len(meters), best)
  BY <1>1, LoopKeeps
<1>3. DOMAIN best = {m.dimension : m \in usable}
  <2>1. \A d : d \in DOMAIN best <=> \E m \in usable : m.dimension = d
    BY <1>1, <1>2 DEF Keeps
  <2> HIDE DEF best, usable
  <2>2. QED BY <2>1
<1>4. ASSUME NEW d \in DOMAIN best
      PROVE  best[d].value = chosen(d).value
  <2>1. best[d] \in rivals(d) /\ First(d, best[d])
    BY <1>1, <1>2 DEF Keeps
  <2>2. chosen(d) \in rivals(d) /\ First(d, chosen(d))
    <3> HIDE DEF rivals, First, best
    <3>1. \E m \in rivals(d) : First(d, m)
      BY <2>1
    <3>2. QED BY <3>1
  <2> HIDE DEF chosen, best
  <2>3. /\ ~ Outranks(best[d], chosen(d)) /\ ~ Outranks(chosen(d), best[d])
        /\ best[d] \in all /\ chosen(d) \in all
        /\ best[d].dimension = chosen(d).dimension
        /\ Priced(best[d]) /\ Priced(chosen(d))
    BY <2>1, <2>2
  <2>4. QED BY <2>3 DEF TiesAgree
<1>5. PriceLoop(meters) = [d \in DOMAIN best |-> [value |-> best[d].value]]
  BY DEF PriceLoop
<1>6. PriceSnapshot(all) = [d \in {m.dimension : m \in usable} |-> [value |-> chosen(d).value]]
  BY DEF PriceSnapshot
<1> HIDE DEF best, all, usable, chosen
<1>7. PriceLoop(meters) = PriceSnapshot(all)
  BY <1>3, <1>4, <1>5, <1>6
<1>8. QED BY <1>7 DEF all

-----------------------------------------------------------------------------
(* The docs extraction.  What a round of its loops does to the sections.   *)

Words(blocks) == {blocks[n].text : n \in DOMAIN blocks}
Models(blocks) == {blocks[n].model : n \in DOMAIN blocks} \cup {None}

AllKeys(blocks, keys) == keys \cup {Numbered(k, m) : k \in keys, m \in 2..Len(blocks)}

SectionsOf(blocks, keys, titles) ==
    [base : keys, key : AllKeys(blocks, keys), heading : titles,
     text : Seq(Words(blocks)), model : Models(blocks)]

(* The key of a section is numbered by the uses of its base so far.        *)
Uses(sections, i) == {k \in 1..i : sections[k].base = sections[i].base}

NumberedByUse(sections, i) ==
    LET uses == Cardinality(Uses(sections, i))
    IN  sections[i].key = IF uses = 1 THEN sections[i].base ELSE Numbered(sections[i].base, uses)

(* After n rounds there is a section for each opener so far, in their      *)
(* order, at[i] being the opener of the i-th, and it has what follows it.  *)
Shelved(blocks, title, ends, texts, n, sections, at) ==
    /\ at \in Seq(Nat)
    /\ Len(at) = Len(sections)
    /\ \A i, l \in 1..Len(at) : i < l => at[i] < at[l]
    /\ \A i \in 1..Len(at) : at[i] \in DOMAIN title /\ at[i] <= n
    /\ \A j \in DOMAIN title : j <= n => \E i \in 1..Len(at) : at[i] = j
    /\ \A i \in 1..Len(at) :
          /\ sections[i].heading = title[at[i]]
          /\ InOrder(sections[i].text, blocks, Following(texts, ends, at[i], n))
          /\ NumberedByUse(sections, i)

(* The last section is open: nothing has ended it.                         *)
StillOpen(ends, n, at) ==
    Len(at) # 0 /\ \A m \in ends : ~ (at[Len(at)] < m /\ m <= n)

Marked(blocks, title, ends, texts) ==
    /\ Len(blocks) \in Nat /\ DOMAIN blocks = 1..Len(blocks)
    /\ DOMAIN title \subseteq ends
    /\ ends \subseteq 1..Len(blocks) /\ texts \subseteq 1..Len(blocks)
    /\ ends \cap texts = {}

(* What follows an opener grows by the texts that come while it is open.   *)
LEMMA FollowingSame ==
    ASSUME NEW blocks, NEW title, NEW ends, NEW texts, Marked(blocks, title, ends, texts),
           NEW n \in 1..Len(blocks), NEW j \in Nat,
           n \notin texts \/ \E m \in ends : j < m /\ m <= n
    PROVE  Following(texts, ends, j, n) = Following(texts, ends, j, n - 1)
<1>1. Len(blocks) \in Nat /\ ends \subseteq Nat /\ texts \subseteq Nat /\ n \in Nat
  BY DEF Marked
<1>2. ASSUME NEW k \in texts
      PROVE  (j < k /\ k <= n /\ \A m \in ends : ~ (j < m /\ m <= k))
                <=> (j < k /\ k <= n - 1 /\ \A m \in ends : ~ (j < m /\ m <= k))
  <2>1. CASE k = n
    BY <1>1, <2>1
  <2>2. CASE k # n
    BY <1>1, <2>2
  <2>3. QED BY <2>1, <2>2
<1>3. QED BY <1>2 DEF Following

LEMMA FollowingMore ==
    ASSUME NEW blocks, NEW title, NEW ends, NEW texts, Marked(blocks, title, ends, texts),
           NEW n \in texts, NEW j \in Nat, j < n,
           \A m \in ends : ~ (j < m /\ m <= n - 1)
    PROVE  Following(texts, ends, j, n) = Following(texts, ends, j, n - 1) \cup {n}
<1>1. Len(blocks) \in Nat /\ ends \subseteq Nat /\ texts \subseteq Nat /\ n \in Nat /\ n \notin ends
  BY DEF Marked
<1>2. \A m \in ends : ~ (j < m /\ m <= n)
  BY <1>1
<1>3. ASSUME NEW k \in texts
      PROVE  (j < k /\ k <= n /\ \A m \in ends : ~ (j < m /\ m <= k))
                <=> \/ (j < k /\ k <= n - 1 /\ \A m \in ends : ~ (j < m /\ m <= k))
                    \/ k = n
  BY <1>1, <1>2
<1>4. QED BY <1>3 DEF Following

LEMMA NothingFollows ==
    ASSUME NEW texts \in SUBSET Nat, NEW ends, NEW n \in Nat
    PROVE  Following(texts, ends, n, n) = {}
<1>1. \A k \in texts : ~ (n < k /\ k <= n)
  OBVIOUS
<1>2. QED BY <1>1 DEF Following

LEMMA InOrderEmpty ==
    ASSUME NEW blocks
    PROVE  InOrder(<<>>, blocks, {})
<1> DEFINE f == [i \in {} |-> 0]
<1>1. DOMAIN <<>> = {}
  OBVIOUS
<1>2. f \in [{} -> {}]
  OBVIOUS
<1>3. QED BY <1>1, <1>2 DEF InOrder

LEMMA InOrderMore ==
    ASSUME NEW blocks, NEW S, NEW list \in Seq(S), NEW places \in SUBSET Nat, NEW n \in Nat,
           InOrder(list, blocks, places), \A k \in places : k < n, blocks[n].text \in S
    PROVE  InOrder(Append(list, blocks[n].text), blocks, places \cup {n})
<1>1. PICK f \in [DOMAIN list -> places] :
          /\ \A k \in places : \E i \in DOMAIN list : f[i] = k
          /\ \A i, l \in DOMAIN list : i < l => f[i] < f[l]
          /\ \A i \in DOMAIN list : list[i] = blocks[f[i]].text
  BY DEF InOrder
<1> DEFINE L == Len(list)
           more == Append(list, blocks[n].text)
           g == [i \in 1..L + 1 |-> IF i = L + 1 THEN n ELSE f[i]]
<1>2. L \in Nat /\ DOMAIN list = 1..L
  OBVIOUS
<1>3. /\ DOMAIN more = 1..L + 1
      /\ more[L + 1] = blocks[n].text
      /\ \A i \in 1..L : more[i] = list[i]
  OBVIOUS
<1> HIDE DEF more, L
<1>4. /\ \A i \in 1..L : i \in 1..L + 1 /\ i # L + 1 /\ g[i] = f[i] /\ f[i] \in places
      /\ L + 1 \in 1..L + 1 /\ g[L + 1] = n
      /\ \A i \in 1..L + 1 : i \in 1..L \/ i = L + 1
  BY <1>2
<1>5. g \in [DOMAIN more -> places \cup {n}]
  BY <1>3, <1>4
<1> HIDE DEF g
<1>6. \A k \in places \cup {n} : \E i \in DOMAIN more : g[i] = k
  BY <1>1, <1>2, <1>3, <1>4
<1>7. ASSUME NEW i \in DOMAIN more, NEW l \in DOMAIN more, i < l
      PROVE  g[i] < g[l]
  <2>1. i \in 1..L
    BY <1>2, <1>3, <1>7
  <2>2. CASE l = L + 1
    BY <1>4, <2>1, <2>2
  <2>3. CASE l # L + 1
    <3>1. l \in 1..L
      BY <1>3, <1>4, <2>3
    <3>2. QED BY <1>1, <1>2, <1>4, <1>7, <2>1, <3>1
  <2>4. QED BY <2>2, <2>3
<1>8. \A i \in DOMAIN more : more[i] = blocks[g[i]].text
  BY <1>1, <1>2, <1>3, <1>4
<1>9. QED BY <1>5, <1>6, <1>7, <1>8 DEF InOrder, more

(* What a round does to the numbers of the keys.                           *)
LEMMA NumbersKept ==
    ASSUME NEW old, NEW new, NEW i \in Nat,
           \A k \in 1..i : new[k].base = old[k].base,
           new[i].key = old[i].key, i # 0, NumberedByUse(old, i)
    PROVE  NumberedByUse(new, i)
<1>1. i \in 1..i
  OBVIOUS
<1>2. Uses(new, i) = Uses(old, i)
  BY DEF Uses
<1>3. QED BY <1>1, <1>2 DEF NumberedByUse

(* A round that opens a section.                                           *)
LEMMA Opens ==
    ASSUME NEW blocks, NEW keys, NEW title, NEW ends, NEW texts, Marked(blocks, title, ends, texts),
           NEW titles, NEW sections \in Seq(SectionsOf(blocks, keys, titles)), NEW at,
           NEW n \in DOMAIN title, NEW key \in keys, title[n] \in titles,
           Len(sections) < n,
           Shelved(blocks, title, ends, texts, n - 1, sections, at)
    PROVE  /\ Opened(sections, key, title[n]) \in Seq(SectionsOf(blocks, keys, titles))
           /\ Shelved(blocks, title, ends, texts, n, Opened(sections, key, title[n]), Append(at, n))
<1> DEFINE new == Opened(sections, key, title[n])
           next == Append(at, n)
           L == Len(at)
           added == [base |-> key, key |-> DedupKey(key, sections), heading |-> title[n],
                     text |-> <<>>, model |-> None]
<1>1. /\ n \in 1..Len(blocks) /\ Len(blocks) \in Nat /\ n \in Nat /\ n \in ends /\ n \notin texts
      /\ texts \in SUBSET Nat /\ ends \subseteq Nat
  <2>1. Len(blocks) \in Nat /\ n \in ends /\ n \notin texts
    BY DEF Marked
  <2>2. texts \subseteq 1..Len(blocks) /\ ends \subseteq 1..Len(blocks)
    BY DEF Marked
  <2>3. QED BY <2>1, <2>2
<1>2. added \in SectionsOf(blocks, keys, titles)
  <2>1. DedupKey(key, sections) \in AllKeys(blocks, keys)
    <3> DEFINE U == {m \in DOMAIN sections : sections[m].base = key}
               uses == Cardinality(U) + 1
    <3>1. Len(sections) \in Nat /\ DOMAIN sections = 1..Len(sections)
      OBVIOUS
    <3>2. IsFiniteSet(1..Len(sections)) /\ Cardinality(1..Len(sections)) = Len(sections)
      <4>1. \A N \in Nat : IsFiniteSet(1..N) /\ Cardinality(1..N) = N
        BY FS_Interval
      <4>2. QED BY <3>1, <4>1
    <3>3. U \subseteq 1..Len(sections)
      BY <3>1
    <3>4. Cardinality(U) \in Nat /\ Cardinality(U) <= Len(sections)
      <4> HIDE DEF U
      <4>1. QED BY <3>2, <3>3, FS_Subset, FS_CardinalityType
    <3>5. uses \in Nat /\ (uses # 1 => uses \in 2..Len(blocks))
      BY <1>1, <3>1, <3>4
    <3>6. DedupKey(key, sections) = IF uses = 1 THEN key ELSE Numbered(key, uses)
      BY DEF DedupKey
    <3> HIDE DEF uses
    <3>7. QED BY <3>5, <3>6 DEF AllKeys
  <2>2. QED BY <2>1 DEF SectionsOf, Models
<1>3. new = Append(sections, added)
  BY DEF Opened
<1>4. L \in Nat /\ L = Len(sections) /\ at \in Seq(Nat)
  BY DEF Shelved
<1>5. /\ new \in Seq(SectionsOf(blocks, keys, titles))
      /\ Len(new) = L + 1
      /\ new[L + 1] = added
      /\ \A i \in 1..L : new[i] = sections[i]
  BY <1>2, <1>3, <1>4
<1>6. /\ next \in Seq(Nat) /\ Len(next) = L + 1 /\ next[L + 1] = n
      /\ \A i \in 1..L : next[i] = at[i]
  BY <1>1, <1>4
<1>7. \A i \in 1..L + 1 : i \in 1..L \/ i = L + 1
  BY <1>4
<1> HIDE DEF new, next, L, added
<1>8. \A i \in 1..L : at[i] \in DOMAIN title /\ at[i] <= n - 1 /\ at[i] \in Nat
  BY <1>4 DEF Shelved, L
<1>9. ASSUME NEW i \in 1..L + 1, NEW l \in 1..L + 1, i < l
      PROVE  next[i] < next[l]
  <2>1. i \in 1..L
    BY <1>4, <1>9
  <2>2. CASE l = L + 1
    BY <1>1, <1>6, <1>8, <2>1, <2>2
  <2>3. CASE l # L + 1
    <3>1. l \in 1..L
      BY <1>7, <2>3
    <3>2. QED BY <1>6, <1>9, <2>1, <3>1 DEF Shelved, L
  <2>4. QED BY <2>2, <2>3
<1>10. \A i \in 1..L + 1 : next[i] \in DOMAIN title /\ next[i] <= n
  BY <1>1, <1>6, <1>7, <1>8
<1>11. ASSUME NEW j \in DOMAIN title, j <= n
       PROVE  \E i \in 1..L + 1 : next[i] = j
  <2>1. CASE j = n
    <3>1. L + 1 \in 1..L + 1
      BY <1>4
    <3>2. QED BY <1>6, <2>1, <3>1
  <2>2. CASE j # n
    <3>1. j <= n - 1
      BY <1>1, <1>11, <2>2 DEF Marked
    <3>2. PICK i \in 1..L : at[i] = j
      BY <3>1 DEF Shelved, L
    <3>3. i \in 1..L + 1
      BY <1>4
    <3>4. QED BY <1>6, <3>2, <3>3
  <2>3. QED BY <2>1, <2>2
<1>12. ASSUME NEW i \in 1..L
       PROVE  /\ new[i].heading = title[next[i]]
              /\ InOrder(new[i].text, blocks, Following(texts, ends, next[i], n))
              /\ NumberedByUse(new, i)
  <2>1. /\ sections[i].heading = title[at[i]]
        /\ InOrder(sections[i].text, blocks, Following(texts, ends, at[i], n - 1))
        /\ NumberedByUse(sections, i)
    BY DEF Shelved, L
  <2>2. Following(texts, ends, at[i], n) = Following(texts, ends, at[i], n - 1)
    BY <1>1, <1>8, FollowingSame
  <2>3. i \in Nat /\ i # 0 /\ \A k \in 1..i : k \in 1..L
    BY <1>4
  <2>4. NumberedByUse(new, i)
    <3>1. new[i].key = sections[i].key /\ \A k \in 1..i : new[k].base = sections[k].base
      BY <1>5, <2>3
    <3>2. QED BY <2>1, <2>3, <3>1, NumbersKept
  <2>5. QED BY <1>5, <1>6, <2>1, <2>2, <2>4
<1>13. /\ new[L + 1].heading = title[next[L + 1]]
       /\ InOrder(new[L + 1].text, blocks, Following(texts, ends, next[L + 1], n))
       /\ NumberedByUse(new, L + 1)
  <2>1. new[L + 1].heading = title[next[L + 1]] /\ new[L + 1].text = <<>>
    BY <1>5, <1>6 DEF added
  <2>2. Following(texts, ends, n, n) = {}
    BY <1>1, NothingFollows
  <2>3. InOrder(<<>>, blocks, {})
    BY InOrderEmpty
  <2>4. DOMAIN sections = 1..L
    BY <1>4
  <2>5. Uses(new, L + 1) = {k \in 1..L : sections[k].base = key} \cup {L + 1}
    <3>1. new[L + 1].base = key
      BY <1>5 DEF added
    <3>2. \A k \in 1..L : new[k].base = sections[k].base
      BY <1>5
    <3>3. 1..L + 1 = (1..L) \cup {L + 1}
      BY <1>4
    <3>4. QED BY <3>1, <3>2, <3>3 DEF Uses
  <2>6. Cardinality(Uses(new, L + 1)) = Cardinality({k \in 1..L : sections[k].base = key}) + 1
    <3>1. IsFiniteSet(1..L)
      BY <1>4, FS_Interval
    <3>2. IsFiniteSet({k \in 1..L : sections[k].base = key})
      BY <3>1, FS_Subset
    <3>3. L + 1 \notin {k \in 1..L : sections[k].base = key}
      BY <1>4
    <3>4. QED BY <2>5, <3>2, <3>3, FS_AddElement
  <2>7. NumberedByUse(new, L + 1)
    <3> DEFINE uses == Cardinality({k \in 1..L : sections[k].base = key}) + 1
    <3>1. DedupKey(key, sections) = IF uses = 1 THEN key ELSE Numbered(key, uses)
      BY <2>4 DEF DedupKey
    <3>2. new[L + 1].key = DedupKey(key, sections) /\ new[L + 1].base = key
      BY <1>5 DEF added
    <3>3. Cardinality(Uses(new, L + 1)) = uses
      BY <2>6
    <3> HIDE DEF uses
    <3>4. QED BY <3>1, <3>2, <3>3 DEF NumberedByUse
  <2>8. QED BY <1>6, <2>1, <2>2, <2>3, <2>7
<1>14. Shelved(blocks, title, ends, texts, n, new, next)
  <2>1. \A i \in 1..L + 1 :
           /\ new[i].heading = title[next[i]]
           /\ InOrder(new[i].text, blocks, Following(texts, ends, next[i], n))
           /\ NumberedByUse(new, i)
    BY <1>7, <1>12, <1>13
  <2>2. QED BY <1>5, <1>6, <1>9, <1>10, <1>11, <2>1 DEF Shelved
<1>15. QED BY <1>5, <1>14 DEF new, next

(* One that adds a text to the open section.                               *)
LEMMA Extends ==
    ASSUME NEW blocks, NEW keys, NEW title, NEW ends, NEW texts, Marked(blocks, title, ends, texts),
           NEW titles, NEW sections \in Seq(SectionsOf(blocks, keys, titles)), NEW at,
           NEW n \in texts,
           Shelved(blocks, title, ends, texts, n - 1, sections, at), StillOpen(ends, n - 1, at)
    PROVE  /\ Extended(sections, blocks[n]) \in Seq(SectionsOf(blocks, keys, titles))
           /\ Len(Extended(sections, blocks[n])) = Len(sections)
           /\ Shelved(blocks, title, ends, texts, n, Extended(sections, blocks[n]), at)
           /\ StillOpen(ends, n, at)
<1> DEFINE new == Extended(sections, blocks[n])
           L == Len(at)
           last == sections[L]
           grown == [last EXCEPT !.text = Append(@, blocks[n].text),
                                 !.model = IF last.model = None THEN blocks[n].model ELSE @]
<1>1. /\ n \in 1..Len(blocks) /\ n \in Nat /\ n \notin ends /\ n \in DOMAIN blocks
      /\ texts \in SUBSET Nat /\ ends \subseteq Nat
      /\ DOMAIN title \subseteq Nat /\ DOMAIN title \subseteq ends
  BY DEF Marked
<1>2. L \in Nat /\ L = Len(sections) /\ at \in Seq(Nat) /\ L # 0 /\ L \in 1..L /\ DOMAIN sections = 1..L
  BY DEF Shelved, StillOpen
<1>3. last \in SectionsOf(blocks, keys, titles)
  BY <1>2
<1>4. blocks[n].text \in Words(blocks)
  BY <1>1 DEF Words
<1>5. /\ grown \in SectionsOf(blocks, keys, titles)
      /\ grown.text = Append(last.text, blocks[n].text)
      /\ grown.base = last.base /\ grown.key = last.key /\ grown.heading = last.heading
  <2>1. /\ last.text \in Seq(Words(blocks))
        /\ last.model \in Models(blocks)
    BY <1>3 DEF SectionsOf
  <2> DEFINE t == Append(last.text, blocks[n].text)
             m == IF last.model = None THEN blocks[n].model ELSE last.model
  <2>2. t \in Seq(Words(blocks))
    BY <1>4, <2>1
  <2>3. m \in Models(blocks)
    BY <1>1, <2>1 DEF Models
  <2>4. grown = [last EXCEPT !.text = t, !.model = m]
    OBVIOUS
  <2> HIDE DEF t, m, grown, last
  <2>5. last \in SectionsOf(blocks, keys, titles)
    BY <1>3
  <2>6. /\ grown \in SectionsOf(blocks, keys, titles) /\ grown.text = t
        /\ grown.base = last.base /\ grown.key = last.key /\ grown.heading = last.heading
    BY <2>2, <2>3, <2>4, <2>5 DEF SectionsOf
  <2>7. QED BY <2>6 DEF t
<1>6. new = [sections EXCEPT ![L] = grown]
  BY <1>2, <1>3 DEF Extended, SectionsOf
<1>7. /\ new \in Seq(SectionsOf(blocks, keys, titles))
      /\ Len(new) = L
      /\ new[L] = grown
      /\ \A i \in 1..L : i # L => new[i] = sections[i]
  <2> HIDE DEF new, grown, L
  <2>1. QED BY <1>2, <1>5, <1>6
<1> HIDE DEF new, L, grown
<1>8. \A i \in 1..L : at[i] \in DOMAIN title /\ at[i] <= n - 1 /\ at[i] \in Nat /\ at[i] \in ends
  BY <1>1 DEF Shelved, L
<1>9. \A i \in 1..L : /\ sections[i].heading = title[at[i]]
                      /\ InOrder(sections[i].text, blocks, Following(texts, ends, at[i], n - 1))
                      /\ NumberedByUse(sections, i)
  BY DEF Shelved, L
<1>10. ASSUME NEW i \in 1..L
       PROVE  NumberedByUse(new, i)
  <2>1. \A k \in 1..L : new[k].base = sections[k].base /\ new[k].key = sections[k].key
    BY <1>5, <1>7 DEF last
  <2>2. i \in Nat /\ i # 0 /\ \A k \in 1..i : k \in 1..L
    BY <1>2
  <2>3. QED BY <1>9, <2>1, <2>2, NumbersKept
<1>11. ASSUME NEW i \in 1..L
       PROVE  /\ new[i].heading = title[at[i]]
              /\ InOrder(new[i].text, blocks, Following(texts, ends, at[i], n))
  <2>1. CASE i = L
    <3>1. \A m \in ends : ~ (at[L] < m /\ m <= n - 1)
      BY DEF StillOpen, L
    <3>2. at[L] \in Nat /\ at[L] < n
      BY <1>1, <1>2, <1>8
    <3>3. Following(texts, ends, at[L], n) = Following(texts, ends, at[L], n - 1) \cup {n}
      BY <3>1, <3>2, FollowingMore
    <3>4. Following(texts, ends, at[L], n - 1) \in SUBSET Nat
      BY <1>1 DEF Following
    <3>5. \A k \in Following(texts, ends, at[L], n - 1) : k < n
      BY <1>1 DEF Following
    <3>6. last.text \in Seq(Words(blocks))
      BY <1>3 DEF SectionsOf
    <3>7. InOrder(last.text, blocks, Following(texts, ends, at[L], n - 1))
      BY <1>2, <1>9 DEF last
    <3>8. InOrder(grown.text, blocks, Following(texts, ends, at[L], n))
      <4> DEFINE F == Following(texts, ends, at[L], n - 1)
      <4> HIDE DEF F
      <4>1. InOrder(Append(last.text, blocks[n].text), blocks, F \cup {n})
        <5> HIDE DEF last
        <5>1. F \in SUBSET Nat /\ (\A k \in F : k < n) /\ InOrder(last.text, blocks, F)
          BY <3>4, <3>5, <3>7 DEF F
        <5>2. QED BY <1>1, <1>4, <3>6, <5>1, InOrderMore
      <4>2. QED BY <1>5, <3>3, <4>1 DEF F
    <3>9. QED BY <1>5, <1>7, <1>9, <2>1, <3>8 DEF last
  <2>2. CASE i # L
    <3>1. at[i] < at[L] /\ at[L] <= n
      <4>1. i < L
        BY <1>2, <2>2
      <4>2. at[i] < at[L]
        BY <1>2, <4>1 DEF Shelved, L
      <4>3. at[L] \in Nat /\ at[L] <= n - 1 /\ n \in Nat
        BY <1>1, <1>2, <1>8
      <4>4. QED BY <4>2, <4>3
    <3>2. Following(texts, ends, at[i], n) = Following(texts, ends, at[i], n - 1)
      BY <1>1, <1>2, <1>8, <3>1, FollowingSame
    <3>3. QED BY <1>7, <1>9, <2>2, <3>2
  <2>3. QED BY <2>1, <2>2
<1>12. \A j \in DOMAIN title : j <= n => j <= n - 1
  BY <1>1
<1>13. Shelved(blocks, title, ends, texts, n, new, at)
  <2>1. \A i \in 1..L : at[i] \in DOMAIN title /\ at[i] <= n
    BY <1>1, <1>8
  <2>2. \A j \in DOMAIN title : j <= n => \E i \in 1..L : at[i] = j
    BY <1>12 DEF Shelved, L
  <2>3. \A i, l \in 1..L : i < l => at[i] < at[l]
    BY DEF Shelved, L
  <2>4. at \in Seq(Nat) /\ Len(at) = Len(new)
    BY <1>2, <1>7 DEF L
  <2>5. QED BY <1>10, <1>11, <2>1, <2>2, <2>3, <2>4 DEF Shelved, L
<1>14. StillOpen(ends, n, at)
  <2>1. \A m \in ends : m <= n => m <= n - 1
    BY <1>1
  <2>2. QED BY <2>1 DEF StillOpen
<1>15. QED BY <1>2, <1>7, <1>13, <1>14 DEF new

(* One that leaves the sections alone.                                     *)
LEMMA Passes ==
    ASSUME NEW blocks, NEW title, NEW ends, NEW texts, Marked(blocks, title, ends, texts),
           NEW sections, NEW at, NEW n \in 1..Len(blocks),
           n \notin DOMAIN title, n \notin texts \/ ~ StillOpen(ends, n - 1, at),
           Shelved(blocks, title, ends, texts, n - 1, sections, at)
    PROVE  /\ Shelved(blocks, title, ends, texts, n, sections, at)
           /\ StillOpen(ends, n, at) <=> n \notin ends /\ StillOpen(ends, n - 1, at)
<1> DEFINE L == Len(at)
<1>1. /\ n \in Nat /\ texts \in SUBSET Nat /\ ends \subseteq Nat /\ Len(blocks) \in Nat
      /\ DOMAIN title \subseteq Nat /\ DOMAIN title \subseteq ends
  BY DEF Marked
<1>2. L \in Nat /\ at \in Seq(Nat)
  BY DEF Shelved
<1>3. \A i \in 1..L : at[i] \in DOMAIN title /\ at[i] <= n - 1 /\ at[i] \in Nat /\ at[i] \in ends
  BY <1>1 DEF Shelved
<1>4. ASSUME NEW i \in 1..L
      PROVE  Following(texts, ends, at[i], n) = Following(texts, ends, at[i], n - 1)
  <2>1. CASE n \notin texts
    BY <1>3, <2>1, FollowingSame
  <2>2. CASE ~ StillOpen(ends, n - 1, at)
    <3>1. L # 0 /\ L \in 1..L
      BY <1>2
    <3>2. PICK m \in ends : at[L] < m /\ m <= n - 1
      BY <2>2, <3>1 DEF StillOpen
    <3>3. at[i] <= at[L]
      <4>1. CASE i = L
        BY <1>3, <4>1
      <4>2. CASE i # L
        <5>1. i < L
          BY <1>2, <4>2
        <5>2. at[i] < at[L]
          BY <3>1, <5>1 DEF Shelved
        <5>3. QED BY <1>3, <3>1, <5>2
      <4>3. QED BY <4>1, <4>2
    <3>4. at[i] < m /\ m <= n
      BY <1>1, <1>3, <3>1, <3>2, <3>3
    <3>5. QED BY <1>3, <3>4, FollowingSame
  <2>3. QED BY <2>1, <2>2
<1>5. Shelved(blocks, title, ends, texts, n, sections, at)
  <2>1. \A i \in 1..L : at[i] \in DOMAIN title /\ at[i] <= n
    BY <1>1, <1>3
  <2>2. \A j \in DOMAIN title : j <= n => j <= n - 1
    BY <1>1
  <2>3. QED BY <1>4, <2>1, <2>2 DEF Shelved
<1>6. StillOpen(ends, n, at) <=> n \notin ends /\ StillOpen(ends, n - 1, at)
  <2>1. ASSUME L # 0
        PROVE  at[L] < n /\ at[L] \in Nat
    BY <1>1, <1>2, <1>3, <2>1
  <2>2. QED BY <1>1, <2>1 DEF StillOpen
<1>7. QED BY <1>5, <1>6

-----------------------------------------------------------------------------
(* The items made of the sections.                                         *)

(* Sections that are numbered by their use have keys of their own.         *)
LEMMA KeysDiffer ==
    ASSUME NEW slugs, NEW N \in Nat, KeysApart(slugs, N), NEW L \in 0..N, NEW sections,
           \A i \in 1..L : sections[i].base \in PageKeys(slugs) /\ NumberedByUse(sections, i),
           NEW i \in 1..L, NEW l \in 1..L, sections[i].key = sections[l].key
    PROVE  i = l
<1> DEFINE use(k) == Cardinality(Uses(sections, k))
<1>1. ASSUME NEW k \in 1..L
      PROVE  /\ IsFiniteSet(Uses(sections, k)) /\ k \in Uses(sections, k)
             /\ use(k) \in 1..N
  <2>1. k \in Nat /\ k \in 1..k /\ Uses(sections, k) \subseteq 1..k
    BY DEF Uses
  <2>2. IsFiniteSet(1..k) /\ Cardinality(1..k) = k
    <3>1. \A M \in Nat : IsFiniteSet(1..M) /\ Cardinality(1..M) = M
      BY FS_Interval
    <3>2. QED BY <2>1, <3>1
  <2>3. IsFiniteSet(Uses(sections, k)) /\ use(k) \in Nat /\ use(k) <= k
    BY <2>1, <2>2, FS_Subset, FS_CardinalityType
  <2>4. k \in Uses(sections, k)
    BY <2>1 DEF Uses
  <2>5. use(k) # 0
    BY <2>3, <2>4, FS_EmptySet
  <2>6. QED BY <2>3, <2>4, <2>5
<1>2. ASSUME NEW k \in 1..L, NEW m \in 1..L, k < m, sections[k].base = sections[m].base
      PROVE  use(k) < use(m)
  <2>1. Uses(sections, k) \subseteq Uses(sections, m)
    <3>1. 1..k \subseteq 1..m
      BY <1>2
    <3>2. QED BY <1>2, <3>1 DEF Uses
  <2>2. m \notin Uses(sections, k) /\ m \in Uses(sections, m)
    BY <1>1, <1>2 DEF Uses
  <2>3. use(k) <= use(m) /\ use(k) # use(m)
    <3>1. IsFiniteSet(Uses(sections, m)) /\ Uses(sections, k) # Uses(sections, m)
      BY <1>1, <2>2
    <3>2. QED BY <2>1, <3>1, FS_Subset
  <2>4. QED BY <1>1, <2>3
<1>3. \A k \in 1..L : sections[k].key = IF use(k) = 1 THEN sections[k].base
                                          ELSE Numbered(sections[k].base, use(k))
  BY DEF NumberedByUse
<1>4. \A k \in 1..L : use(k) # 1 => use(k) \in 2..N
  BY <1>1
<1> HIDE DEF use
<1>5. sections[i].base = sections[l].base /\ use(i) = use(l)
  <2>1. CASE use(i) = 1 /\ use(l) = 1
    BY <1>3, <2>1
  <2>2. CASE use(i) = 1 /\ use(l) # 1
    BY <1>3, <1>4, <2>2 DEF KeysApart
  <2>3. CASE use(i) # 1 /\ use(l) = 1
    BY <1>3, <1>4, <2>3 DEF KeysApart
  <2>4. CASE use(i) # 1 /\ use(l) # 1
    <3>1. Numbered(sections[i].base, use(i)) = Numbered(sections[l].base, use(l))
      BY <1>3, <2>4
    <3>2. QED BY <1>4, <2>4, <3>1 DEF KeysApart
  <2>5. QED BY <2>1, <2>2, <2>3, <2>4
<1>6. ~ (i < l) /\ ~ (l < i)
  <2>1. use(i) \in Nat /\ use(l) \in Nat
    BY <1>1 DEF use
  <2>2. i < l => use(i) < use(l)
    BY <1>2, <1>5 DEF use
  <2>3. l < i => use(l) < use(i)
    BY <1>2, <1>5 DEF use
  <2>4. QED BY <1>5, <2>1, <2>2, <2>3
<1>7. QED BY <1>6

(* Rows of different keys are all in the index.                            *)
LEMMA IndexedApart ==
    ASSUME NEW rows, \A n \in DOMAIN rows : rows[n].key # None,
           \A m, n \in DOMAIN rows : rows[m].key = rows[n].key => m = n
    PROVE  /\ DOMAIN Indexed(rows) = {rows[n].key : n \in DOMAIN rows}
           /\ \A n \in DOMAIN rows : Indexed(rows)[rows[n].key] = rows[n].row
<1>1. DOMAIN Indexed(rows) = {rows[n].key : n \in DOMAIN rows}
  BY DEF Indexed
<1>2. ASSUME NEW n \in DOMAIN rows
      PROVE  Indexed(rows)[rows[n].key] = rows[n].row
  <2> DEFINE P(m) == rows[m].key = rows[n].key /\ \A k \in DOMAIN rows : k > m => rows[k].key # rows[n].key
             c == CHOOSE m \in DOMAIN rows : P(m)
  <2>1. Indexed(rows)[rows[n].key] = rows[c].row
    BY DEF Indexed
  <2>2. c = n
    OBVIOUS
  <2>3. QED BY <2>1, <2>2
<1>3. QED BY <1>1, <1>2

RowEach(rows, sections) ==
    /\ DOMAIN rows = DOMAIN sections
    /\ \A i \in DOMAIN rows :
          /\ rows[i].key # None
          /\ rows[i].row.value = <<sections[i].heading, sections[i].text>>
    /\ \A i, l \in DOMAIN rows : rows[i].key = rows[l].key => i = l

(* Rows made of all the sections, under keys of their own, give each       *)
(* opener its item.                                                        *)
LEMMA SectionsKept ==
    ASSUME NEW blocks, NEW title, NEW ends, NEW texts, Marked(blocks, title, ends, texts),
           NEW S, NEW sections \in Seq(S), NEW at, NEW rows, RowEach(rows, sections),
           Shelved(blocks, title, ends, texts, Len(blocks), sections, at)
    PROVE  OneItemEach(Indexed(rows), blocks, title, ends, texts)
<1> DEFINE items == Indexed(rows)
           L == Len(at)
           of == [j \in DOMAIN title |-> CHOOSE i \in 1..L : at[i] = j]
           path == [j \in DOMAIN title |-> rows[of[j]].key]
<1>1. L \in Nat /\ DOMAIN rows = 1..L
  BY DEF Shelved, RowEach
<1>2. /\ DOMAIN items = {rows[i].key : i \in 1..L}
      /\ \A i \in 1..L : items[rows[i].key] = rows[i].row
  BY <1>1, IndexedApart DEF RowEach
<1>3. ASSUME NEW j \in DOMAIN title
      PROVE  of[j] \in 1..L /\ at[of[j]] = j
  <2>1. j <= Len(blocks)
    <3>1. Len(blocks) \in Nat /\ j \in 1..Len(blocks)
      BY DEF Marked
    <3>2. QED BY <3>1
  <2>2. \E i \in 1..L : at[i] = j
    BY <2>1 DEF Shelved
  <2>3. QED BY <2>2
<1>4. ASSUME NEW i \in 1..L
      PROVE  at[i] \in DOMAIN title /\ of[at[i]] = i
  <2>1. at[i] \in DOMAIN title
    BY DEF Shelved
  <2>2. of[at[i]] \in 1..L /\ at[of[at[i]]] = at[i]
    BY <1>3, <2>1
  <2>3. \A k, l \in 1..L : k < l => at[k] < at[l]
    BY DEF Shelved
  <2>4. L \in Nat /\ \A k \in 1..L : at[k] \in Nat
    BY <1>1 DEF Shelved
  <2> HIDE DEF of, L
  <2>5. QED BY <2>1, <2>2, <2>3, <2>4
<1> HIDE DEF items, L, of
<1>5. path \in [DOMAIN title -> DOMAIN items]
  BY <1>2, <1>3
<1>6. ASSUME NEW p \in DOMAIN items
      PROVE  \E j \in DOMAIN title : path[j] = p
  <2>1. PICK i \in 1..L : p = rows[i].key
    BY <1>2
  <2>2. at[i] \in DOMAIN title /\ path[at[i]] = p
    BY <1>4, <2>1
  <2>3. QED BY <2>2
<1>7. ASSUME NEW j \in DOMAIN title, NEW k \in DOMAIN title, path[j] = path[k]
      PROVE  j = k
  <2>1. of[j] = of[k]
    BY <1>1, <1>3, <1>7 DEF RowEach
  <2>2. QED BY <1>3, <2>1
<1>8. ASSUME NEW j \in DOMAIN title
      PROVE  /\ items[path[j]].value[1] = title[j]
             /\ InOrder(items[path[j]].value[2], blocks, Following(texts, ends, j, Len(blocks)))
  <2>1. of[j] \in 1..L /\ at[of[j]] = j
    BY <1>3
  <2>2. items[path[j]].value = <<sections[of[j]].heading, sections[of[j]].text>>
    BY <1>1, <1>2, <2>1 DEF RowEach
  <2>3. /\ sections[of[j]].heading = title[j]
        /\ InOrder(sections[of[j]].text, blocks, Following(texts, ends, j, Len(blocks)))
    BY <2>1 DEF Shelved, L
  <2>4. QED BY <2>2, <2>3
<1> HIDE DEF path
<1>9. OneItemEach(items, blocks, title, ends, texts)
  BY <1>5, <1>6, <1>7, <1>8 DEF OneItemEach
<1>10. QED BY <1>9 DEF items

LEMMA PathsDiffer ==
    ASSUME NEW name, NEW other
    PROVE  /\ Path(TRUE, name) # Path(FALSE, other)
           /\ Path(TRUE, name) = Path(TRUE, other) => name = other
           /\ Path(FALSE, name) = Path(FALSE, other) => name = other
BY DEF Path

(* Both ways to make rows of the sections do.                              *)
LEMMA RowsOfSections ==
    ASSUME NEW S, NEW sections \in Seq(S),
           \A name : Path(TRUE, name) # None /\ Path(FALSE, name) # None,
           \A i, l \in DOMAIN sections : sections[i].key = sections[l].key => i = l,
           NEW rows, rows \in {ItemsFromSections(sections), ItemsModels(sections)}
    PROVE  RowEach(rows, sections)
<1>1. CASE rows = ItemsFromSections(sections)
  <2>1. DOMAIN rows = DOMAIN sections
    BY <1>1 DEF ItemsFromSections
  <2>2. ASSUME NEW i \in DOMAIN sections
        PROVE  /\ rows[i].key = Path(FALSE, sections[i].key)
               /\ rows[i].row.value = <<sections[i].heading, sections[i].text>>
    BY <1>1 DEF ItemsFromSections, SectionRow
  <2>3. ASSUME NEW i \in DOMAIN sections, NEW l \in DOMAIN sections, rows[i].key = rows[l].key
        PROVE  i = l
    <3>1. Path(FALSE, sections[i].key) = Path(FALSE, sections[l].key)
      BY <2>2, <2>3
    <3>2. sections[i].key = sections[l].key
      BY <3>1, PathsDiffer, Zenon
    <3>3. QED BY <3>2
  <2>4. \A i \in DOMAIN sections : rows[i].key # None
    BY <2>2
  <2>5. QED BY <2>1, <2>2, <2>3, <2>4 DEF RowEach
<1>2. CASE rows = ItemsModels(sections)
  <2>1. DOMAIN rows = DOMAIN sections
    BY <1>2 DEF ItemsModels
  <2>2. ASSUME NEW i \in DOMAIN sections
        PROVE  /\ FirstOfItsModel(sections, i) => rows[i].key = Path(TRUE, sections[i].model)
               /\ ~ FirstOfItsModel(sections, i) => rows[i].key = Path(FALSE, sections[i].key)
               /\ rows[i].row.value = <<sections[i].heading, sections[i].text>>
    BY <1>2 DEF ItemsModels, SectionRow
  <2>3. ASSUME NEW i \in DOMAIN sections, NEW l \in DOMAIN sections,
               FirstOfItsModel(sections, i), FirstOfItsModel(sections, l),
               sections[i].model = sections[l].model
        PROVE  i = l
    <3>1. i \in Nat \ {0} /\ l \in Nat \ {0}
      OBVIOUS
    <3>2. ~ (i < l)
      BY <2>3, <3>1 DEF FirstOfItsModel
    <3>3. ~ (l < i)
      BY <2>3, <3>1 DEF FirstOfItsModel
    <3>4. QED BY <3>1, <3>2, <3>3
  <2>4. ASSUME NEW i \in DOMAIN sections, NEW l \in DOMAIN sections, rows[i].key = rows[l].key
        PROVE  i = l
    <3>1. CASE FirstOfItsModel(sections, i) /\ FirstOfItsModel(sections, l)
      <4>1. Path(TRUE, sections[i].model) = Path(TRUE, sections[l].model)
        BY <2>2, <2>4, <3>1
      <4>2. sections[i].model = sections[l].model
        BY <4>1, PathsDiffer, Zenon
      <4>3. QED BY <2>3, <3>1, <4>2
    <3>2. CASE ~ FirstOfItsModel(sections, i) /\ ~ FirstOfItsModel(sections, l)
      <4>1. Path(FALSE, sections[i].key) = Path(FALSE, sections[l].key)
        BY <2>2, <2>4, <3>2
      <4>2. sections[i].key = sections[l].key
        BY <4>1, PathsDiffer, Zenon
      <4>3. QED BY <4>2
    <3>3. CASE FirstOfItsModel(sections, i) /\ ~ FirstOfItsModel(sections, l)
      <4>1. Path(TRUE, sections[i].model) = Path(FALSE, sections[l].key)
        BY <2>2, <2>4, <3>3
      <4>2. QED BY <4>1, PathsDiffer, Zenon
    <3>4. CASE ~ FirstOfItsModel(sections, i) /\ FirstOfItsModel(sections, l)
      <4>1. Path(TRUE, sections[l].model) = Path(FALSE, sections[i].key)
        BY <2>2, <2>4, <3>4
      <4>2. QED BY <4>1, PathsDiffer, Zenon
    <3>5. QED BY <3>1, <3>2, <3>3, <3>4
  <2>5. \A i \in DOMAIN sections : rows[i].key # None
    BY <2>2
  <2>6. QED BY <2>1, <2>2, <2>4, <2>5 DEF RowEach
<1>3. QED BY <1>1, <1>2

-----------------------------------------------------------------------------
(* The loop over the blocks of a page with headings.                       *)

HeadingTitles(rule, blocks) == [n \in Openers(rule, blocks) |-> blocks[n].text]

Closers(rule, blocks) ==
    {n \in DOMAIN blocks : blocks[n].heading /\ blocks[n].level < Top(rule)}

Plain(blocks) == {n \in DOMAIN blocks : ~ blocks[n].heading}

BlockOf(Names, Strings) ==
    [heading : BOOLEAN, level : Nat, slug : Names, text : Strings, model : Strings \cup {None}]

OutlineIs(rule, blocks, f, N) ==
    f = [n \in 0..N |->
            IF n = 0 THEN [sections |-> <<>>, parent |-> None, open |-> FALSE]
            ELSE Headed(rule, Top(rule), f[n - 1], blocks[n])]

LEMMA OutlineExists ==
    ASSUME NEW rule, NEW blocks, NEW N \in Nat
    PROVE  \E f : OutlineIs(rule, blocks, f, N)
<1> DEFINE T == {n \in Nat : ~ \E f : OutlineIs(rule, blocks, f, n)}
           none == [sections |-> <<>>, parent |-> None, open |-> FALSE]
<1>1. SUFFICES ASSUME T # {} PROVE FALSE
  OBVIOUS
<1>2. PICK m \in T : \A n \in T : m <= n
  <2> HIDE DEF T
  <2>1. T \in SUBSET Nat
    BY DEF T
  <2>2. QED BY <1>1, <2>1, Least
<1>3. m # 0
  <2>1. OutlineIs(rule, blocks, [n \in 0..0 |-> none], 0)
    BY DEF OutlineIs
  <2>2. QED BY <2>1
<1>4. m - 1 \in Nat /\ m - 1 \notin T /\ m \in Nat
  BY <1>2, <1>3
<1>5. PICK f : OutlineIs(rule, blocks, f, m - 1)
  BY <1>4
<1> DEFINE g == [n \in 0..m |->
                    IF n = m THEN Headed(rule, Top(rule), f[m - 1], blocks[m]) ELSE f[n]]
<1>6. OutlineIs(rule, blocks, g, m)
  <2>1. ASSUME NEW n \in 0..m
        PROVE  g[n] = IF n = 0 THEN none ELSE Headed(rule, Top(rule), g[n - 1], blocks[n])
    <3>1. CASE n = m
      BY <1>3, <1>4, <3>1
    <3>2. CASE n # m
      <4>1. n \in 0..m - 1
        BY <1>4, <3>2
      <4>2. f[n] = IF n = 0 THEN none ELSE Headed(rule, Top(rule), f[n - 1], blocks[n])
        BY <1>5, <4>1 DEF OutlineIs
      <4>3. n # 0 => n - 1 \in 0..m /\ n - 1 # m
        BY <1>4, <4>1
      <4>4. QED BY <3>2, <4>2, <4>3
    <3>3. QED BY <3>1, <3>2
  <2>2. QED BY <2>1 DEF OutlineIs
<1>7. QED BY <1>2, <1>6

LEMMA OutlineSteps ==
    ASSUME NEW rule, NEW blocks, Len(blocks) \in Nat
    PROVE  /\ Outline(rule, blocks)[0] = [sections |-> <<>>, parent |-> None, open |-> FALSE]
           /\ \A n \in 1..Len(blocks) :
                 Outline(rule, blocks)[n]
                    = Headed(rule, Top(rule), Outline(rule, blocks)[n - 1], blocks[n])
<1> DEFINE N == Len(blocks)
           f == CHOOSE f : OutlineIs(rule, blocks, f, N)
<1>1. OutlineIs(rule, blocks, f, N)
  <2>1. \E h : OutlineIs(rule, blocks, h, N)
    BY OutlineExists
  <2>2. QED BY <2>1
<1>2. Outline(rule, blocks) = f
  BY DEF Outline, OutlineIs
<1> HIDE DEF f
<1>3. f[0] = [sections |-> <<>>, parent |-> None, open |-> FALSE]
  BY <1>1 DEF OutlineIs
<1>4. ASSUME NEW n \in 1..N PROVE f[n] = Headed(rule, Top(rule), f[n - 1], blocks[n])
  <2>1. n \in 0..N /\ n # 0
    OBVIOUS
  <2>2. QED BY <1>1, <2>1 DEF OutlineIs
<1>5. QED BY <1>2, <1>3, <1>4

LEMMA TopIsLeast ==
    ASSUME NEW rule, rule.levels \in SUBSET Nat, rule.levels # {}
    PROVE  Top(rule) \in Nat /\ \A l \in rule.levels : ~ (l < Top(rule))
<1>1. \E m \in rule.levels : \A n \in rule.levels : m <= n
  BY Least
<1>2. Top(rule) \in rule.levels /\ \A n \in rule.levels : Top(rule) <= n
  BY <1>1 DEF Top
<1>3. QED BY <1>2

LEMMA HeadingsMarked ==
    ASSUME NEW rule, NEW Names, NEW Strings, NEW blocks \in Seq(BlockOf(Names, Strings))
    PROVE  Marked(blocks, HeadingTitles(rule, blocks),
                  Openers(rule, blocks) \cup Closers(rule, blocks), Plain(blocks))
BY DEF Marked, HeadingTitles, Openers, Closers, Plain, BlockOf

(* After n blocks the sections are those of the headings so far, the last  *)
(* is open if nothing has ended it, and the parent is a heading's name.    *)
Outlined(rule, blocks, n, st) ==
    LET title == HeadingTitles(rule, blocks)
        ends  == Openers(rule, blocks) \cup Closers(rule, blocks)
    IN  /\ st \in [sections : Seq(SectionsOf(blocks, PageKeys(HeadingSlugs(blocks)), Words(blocks))),
                   parent : HeadingSlugs(blocks) \cup {None}, open : BOOLEAN]
        /\ Len(st.sections) <= n
        /\ \E at : /\ Shelved(blocks, title, ends, Plain(blocks), n, st.sections, at)
                   /\ st.open <=> StillOpen(ends, n, at)

LEMMA HeadedKeeps ==
    ASSUME NEW rule, rule.levels \in SUBSET Nat, rule.levels # {}, rule.hierarchical \in BOOLEAN,
           NEW Names, NEW Strings, NEW blocks \in Seq(BlockOf(Names, Strings)),
           NEW n \in 1..Len(blocks), NEW st, Outlined(rule, blocks, n - 1, st)
    PROVE  Outlined(rule, blocks, n, Headed(rule, Top(rule), st, blocks[n]))
<1> DEFINE title == HeadingTitles(rule, blocks)
           ends  == Openers(rule, blocks) \cup Closers(rule, blocks)
           texts == Plain(blocks)
           keys  == PageKeys(HeadingSlugs(blocks))
           b     == blocks[n]
           new   == Headed(rule, Top(rule), st, b)
           opens  == b.heading /\ b.level \in rule.levels
           closes == b.heading /\ b.level < Top(rule)
           S == [sections : Seq(SectionsOf(blocks, keys, Words(blocks))),
                 parent : HeadingSlugs(blocks) \cup {None}, open : BOOLEAN]
<1>1. Marked(blocks, title, ends, texts)
  BY HeadingsMarked
<1>2. /\ b \in BlockOf(Names, Strings) /\ n \in DOMAIN blocks /\ n \in Nat /\ Len(blocks) \in Nat
      /\ DOMAIN blocks = 1..Len(blocks)
  OBVIOUS
<1>3. /\ n \in DOMAIN title <=> opens
      /\ n \in ends <=> opens \/ closes
      /\ n \in texts <=> ~ b.heading
  BY <1>2 DEF HeadingTitles, Openers, Closers, Plain
<1>4. ~ (opens /\ closes)
  BY TopIsLeast
<1>5. /\ st.sections \in Seq(SectionsOf(blocks, keys, Words(blocks)))
      /\ Len(st.sections) <= n - 1 /\ Len(st.sections) \in Nat
      /\ st.parent \in HeadingSlugs(blocks) \cup {None}
      /\ st.open \in BOOLEAN
      /\ st \in S
  BY DEF Outlined
<1>6. PICK at : /\ Shelved(blocks, title, ends, texts, n - 1, st.sections, at)
                /\ st.open <=> StillOpen(ends, n - 1, at)
  BY DEF Outlined
<1>7. CASE opens
  <2> DEFINE key == HeadingKey(rule, Top(rule), st.parent, b)
  <2>1. b.slug \in HeadingSlugs(blocks)
    BY <1>2, <1>7 DEF HeadingSlugs
  <2>2. key \in keys
    BY <1>5, <2>1 DEF HeadingKey, PageKeys
  <2>3. new = [sections |-> Opened(st.sections, key, b.text),
               parent |-> IF rule.hierarchical /\ b.level = Top(rule) THEN b.slug ELSE st.parent,
               open |-> TRUE]
    BY <1>4, <1>7 DEF Headed
  <2>4. title[n] = b.text /\ title[n] \in Words(blocks) /\ n \in DOMAIN title
    BY <1>2, <1>3, <1>7 DEF HeadingTitles, Words
  <2>5. Len(st.sections) \in Nat /\ Len(st.sections) < n
    BY <1>2, <1>5
  <2> HIDE DEF title, ends, texts, keys, b, new, key, opens, closes
  <2>6. /\ Opened(st.sections, key, title[n]) \in Seq(SectionsOf(blocks, keys, Words(blocks)))
        /\ Len(Opened(st.sections, key, title[n])) = Len(st.sections) + 1
        /\ Shelved(blocks, title, ends, texts, n, Opened(st.sections, key, title[n]), Append(at, n))
        /\ StillOpen(ends, n, Append(at, n))
    <3>1. /\ st.sections \in Seq(SectionsOf(blocks, keys, Words(blocks)))
          /\ Len(st.sections) < n /\ title[n] \in Words(blocks) /\ n \in DOMAIN title
          /\ Shelved(blocks, title, ends, texts, n - 1, st.sections, at)
      BY <1>5, <1>6, <2>4, <2>5
    <3> HIDE DEF S
    <3>2. Opened(st.sections, key, title[n]) \in Seq(SectionsOf(blocks, keys, Words(blocks)))
      BY <1>1, <2>2, <3>1, Opens, Zenon
    <3>3. Shelved(blocks, title, ends, texts, n, Opened(st.sections, key, title[n]), Append(at, n))
      BY <1>1, <2>2, <3>1, Opens, Zenon
    <3>4. /\ at \in Seq(Nat) /\ Len(at) = Len(st.sections)
          /\ Len(Append(at, n)) = Len(Opened(st.sections, key, title[n]))
      BY <3>1, <3>3 DEF Shelved
    <3>5. Len(Append(at, n)) = Len(at) + 1 /\ Append(at, n)[Len(at) + 1] = n
      BY <1>2, <3>4
    <3>6. StillOpen(ends, n, Append(at, n))
      <4>1. \A m \in ends : ~ (n < m /\ m <= n)
        BY <1>1, <1>2 DEF Marked
      <4>2. Len(at) + 1 # 0
        BY <3>4
      <4>3. QED BY <3>5, <4>1, <4>2 DEF StillOpen
    <3>7. QED BY <3>2, <3>3, <3>4, <3>5, <3>6
  <2>7. /\ new.sections = Opened(st.sections, key, title[n]) /\ new.open = TRUE
        /\ new.parent \in HeadingSlugs(blocks) \cup {None}
    BY <1>5, <2>1, <2>3, <2>4
  <2>8. Len(new.sections) <= n
    BY <1>2, <2>5, <2>6, <2>7
  <2>9. new \in S
    BY <2>3, <2>4, <2>6, <2>7
  <2>10. QED BY <2>6, <2>7, <2>8, <2>9 DEF Outlined, title, ends, texts, keys, new, b
<1>8. CASE closes
  <2>1. new = [st EXCEPT !.open = FALSE, !.parent = None]
    BY <1>4, <1>8 DEF Headed
  <2>2. n \notin DOMAIN title /\ n \notin texts /\ n \in ends
    BY <1>3, <1>4, <1>8
  <2> HIDE DEF title, ends, texts, keys, b, new, opens, closes
  <2>3. /\ new \in S /\ new.sections = st.sections /\ new.open = FALSE
    BY <1>5, <2>1
  <2>4. /\ Shelved(blocks, title, ends, texts, n, st.sections, at)
        /\ ~ StillOpen(ends, n, at)
    BY <1>1, <1>6, <2>2, Passes
  <2>5. Len(new.sections) <= n
    BY <1>2, <1>5, <2>3
  <2>6. QED BY <2>3, <2>4, <2>5 DEF Outlined, title, ends, texts, keys, new, b
<1>9. CASE ~ b.heading /\ st.open
  <2>1. new = [st EXCEPT !.sections = Extended(@, b)]
    BY <1>9 DEF Headed
  <2>2. n \in texts
    BY <1>3, <1>9
  <2> HIDE DEF title, ends, texts, keys, new, opens, closes
  <2>3. /\ Extended(st.sections, b) \in Seq(SectionsOf(blocks, keys, Words(blocks)))
        /\ Len(Extended(st.sections, b)) = Len(st.sections)
        /\ Shelved(blocks, title, ends, texts, n, Extended(st.sections, b), at)
        /\ StillOpen(ends, n, at)
    BY <1>1, <1>5, <1>6, <1>9, <2>2, Extends, Zenon
  <2> HIDE DEF b
  <2>4. /\ new \in S /\ new.sections = Extended(st.sections, b) /\ new.open
    BY <1>5, <1>9, <2>1, <2>3
  <2>5. Len(new.sections) <= n
    BY <1>2, <1>5, <2>3, <2>4
  <2>6. QED BY <2>3, <2>4, <2>5 DEF Outlined, title, ends, texts, keys, new, b
<1>10. CASE ~ opens /\ ~ closes /\ ~ (~ b.heading /\ st.open)
  <2>1. new = st
    BY <1>10 DEF Headed
  <2>2. /\ n \notin DOMAIN title /\ n \notin ends
        /\ n \notin texts \/ ~ StillOpen(ends, n - 1, at)
    BY <1>3, <1>6, <1>10
  <2> HIDE DEF title, ends, texts, keys, b, new, opens, closes
  <2>3. /\ Shelved(blocks, title, ends, texts, n, st.sections, at)
        /\ StillOpen(ends, n, at) <=> StillOpen(ends, n - 1, at)
    BY <1>1, <1>6, <2>2, Passes
  <2>4. Len(st.sections) <= n
    BY <1>2, <1>5
  <2>5. Outlined(rule, blocks, n, st)
    BY <1>5, <1>6, <2>3, <2>4 DEF Outlined, title, ends, texts, keys
  <2>6. QED BY <2>1, <2>5 DEF new, b
<1>11. QED BY <1>7, <1>8, <1>9, <1>10

LEMMA OutlineKeeps ==
    ASSUME NEW rule, rule.levels \in SUBSET Nat, rule.levels # {}, rule.hierarchical \in BOOLEAN,
           NEW Names, NEW Strings, NEW blocks \in Seq(BlockOf(Names, Strings)),
           NEW n \in 0..Len(blocks)
    PROVE  Outlined(rule, blocks, n, Outline(rule, blocks)[n])
<1> DEFINE T == {k \in 0..Len(blocks) : ~ Outlined(rule, blocks, k, Outline(rule, blocks)[k])}
           none == [sections |-> <<>>, parent |-> None, open |-> FALSE]
<1>1. SUFFICES ASSUME T # {} PROVE FALSE
  OBVIOUS
<1>2. PICK m \in T : \A k \in T : m <= k
  <2> HIDE DEF T
  <2>1. T \in SUBSET Nat
    BY DEF T
  <2>2. QED BY <1>1, <2>1, Least
<1>3. m \in 0..Len(blocks) /\ Len(blocks) \in Nat
  OBVIOUS
<1>4. Outlined(rule, blocks, 0, none)
  <2> DEFINE title == HeadingTitles(rule, blocks)
             ends  == Openers(rule, blocks) \cup Closers(rule, blocks)
             texts == Plain(blocks)
  <2>1. Marked(blocks, title, ends, texts)
    BY HeadingsMarked
  <2> HIDE DEF title, ends, texts
  <2>2. ASSUME NEW j \in DOMAIN title PROVE ~ (j <= 0)
    <3>1. Len(blocks) \in Nat /\ j \in 1..Len(blocks)
      BY <2>1 DEF Marked
    <3>2. QED BY <3>1
  <2>3. Shelved(blocks, title, ends, texts, 0, <<>>, <<>>) /\ ~ StillOpen(ends, 0, <<>>)
    BY <2>2 DEF Shelved, StillOpen
  <2>4. QED BY <2>3 DEF Outlined, title, ends, texts
<1>5. m # 0
  BY <1>2, <1>3, <1>4, OutlineSteps
<1>6. m \in 1..Len(blocks) /\ m - 1 \in 0..Len(blocks) /\ m - 1 \notin T
  BY <1>2, <1>3, <1>5
<1>7. Outlined(rule, blocks, m - 1, Outline(rule, blocks)[m - 1])
  BY <1>6
<1>8. Outline(rule, blocks)[m] = Headed(rule, Top(rule), Outline(rule, blocks)[m - 1], blocks[m])
  BY <1>3, <1>6, OutlineSteps
<1>9. Outlined(rule, blocks, m, Outline(rule, blocks)[m])
  BY <1>6, <1>7, <1>8, HeadedKeeps
<1>10. QED BY <1>2, <1>9

(* The base keys of sections are those of the page, and so the sections of *)
(* a page whose numbered keys are apart have keys of their own.            *)
LEMMA ShelvedApart ==
    ASSUME NEW blocks, NEW title, NEW ends, NEW texts, Marked(blocks, title, ends, texts),
           NEW slugs, KeysApart(slugs, Len(blocks)), NEW titles,
           NEW sections \in Seq(SectionsOf(blocks, PageKeys(slugs), titles)),
           Len(sections) <= Len(blocks), NEW at,
           Shelved(blocks, title, ends, texts, Len(blocks), sections, at)
    PROVE  \A i, l \in DOMAIN sections : sections[i].key = sections[l].key => i = l
<1> DEFINE L == Len(sections)
<1>1. Len(blocks) \in Nat /\ L \in 0..Len(blocks) /\ DOMAIN sections = 1..L
  BY DEF Marked
<1>2. ASSUME NEW i \in 1..L
      PROVE  sections[i].base \in PageKeys(slugs) /\ NumberedByUse(sections, i)
  <2>1. sections[i] \in SectionsOf(blocks, PageKeys(slugs), titles)
    BY <1>1
  <2>2. QED BY <2>1 DEF Shelved, SectionsOf
<1> HIDE DEF L
<1>3. ASSUME NEW i \in 1..L, NEW l \in 1..L, sections[i].key = sections[l].key
      PROVE  i = l
  BY <1>1, <1>2, <1>3, KeysDiffer
<1>4. QED BY <1>1, <1>3

(* Every heading of the levels a rule is about has one item, under its     *)
(* text, that holds the texts below it in their order, however headings    *)
(* repeat, nest and close each other; no two share one and there is no     *)
(* other (docs_extract.py:286-323, 352-387).  The page must not itself     *)
(* have a heading that is named like a numbered one.                       *)
THEOREM HeadingsAreKept ==
    ASSUME NEW rule, rule.levels \in SUBSET Nat, rule.levels # {}, rule.hierarchical \in BOOLEAN,
           rule.strategy \in {"headings", "models"},
           \A name : Path(TRUE, name) # None /\ Path(FALSE, name) # None,
           NEW page, NEW Names, NEW Strings, page.blocks \in Seq(BlockOf(Names, Strings)),
           Openers(rule, page.blocks) # {},
           KeysApart(HeadingSlugs(page.blocks), Len(page.blocks))
    PROVE  HeadingsKept(rule, page.blocks, ExtractDocs(rule, page))
<1> DEFINE blocks == page.blocks
           N     == Len(blocks)
           title == HeadingTitles(rule, blocks)
           ends  == Openers(rule, blocks) \cup Closers(rule, blocks)
           texts == Plain(blocks)
           keys  == PageKeys(HeadingSlugs(blocks))
           sections == SectionsFromHeadings(rule, blocks)
           rows  == ItemsOf(rule, page)
<1>1. Marked(blocks, title, ends, texts) /\ N \in Nat
  BY HeadingsMarked
<1>2. Outlined(rule, blocks, N, Outline(rule, blocks)[N])
  <2>1. N \in 0..N
    BY <1>1
  <2>2. QED BY <2>1, OutlineKeeps
<1>3. sections \in Seq(SectionsOf(blocks, keys, Words(blocks))) /\ Len(sections) <= N
  BY <1>2 DEF Outlined, SectionsFromHeadings
<1>4. PICK at : Shelved(blocks, title, ends, texts, N, sections, at)
  BY <1>2 DEF Outlined, SectionsFromHeadings
<1>5. rows \in {ItemsFromSections(sections), ItemsModels(sections)}
  BY DEF ItemsOf
<1>6. DOMAIN title # {}
  BY DEF HeadingTitles
<1> HIDE DEF blocks, N, title, ends, texts, keys, sections, rows
<1>7. \A i, l \in DOMAIN sections : sections[i].key = sections[l].key => i = l
  BY <1>1, <1>3, <1>4, ShelvedApart DEF keys, N, blocks
<1>8. RowEach(rows, sections)
  BY <1>3, <1>5, <1>7, RowsOfSections, Zenon
<1>9. OneItemEach(Indexed(rows), blocks, title, ends, texts)
  BY <1>1, <1>3, <1>4, <1>8, SectionsKept DEF N
<1>10. rows # <<>>
  <2>1. PICK j \in DOMAIN title : j <= N
    BY <1>1, <1>6 DEF Marked, N
  <2>2. \E i \in 1..Len(at) : at[i] = j
    BY <1>4, <2>1 DEF Shelved
  <2>3. DOMAIN sections # {}
    BY <1>3, <1>4, <2>2 DEF Shelved
  <2>4. QED BY <1>8, <2>3 DEF RowEach
<1>11. ExtractDocs(rule, page) = Indexed(rows)
  BY <1>10 DEF ExtractDocs, rows
<1>12. QED BY <1>9, <1>11 DEF HeadingsKept, HeadingTitles, Closers, Plain, title, ends, texts, blocks

-----------------------------------------------------------------------------
(* The loop over the lines of a changelog.                                 *)

DateTitles(lines) == [n \in Days(lines) |-> DateOf(lines, n)]

Said(lines) == {n \in DOMAIN lines : ~ Day(lines[n]) /\ ~ Month(lines[n])}

LineOf(Names, Strings) ==
    [mark : {"month", "day", "text"}, slug : Names \cup {None}, text : Strings,
     model : Strings \cup {None}]

DatedIs(lines, f, N) ==
    f = [n \in 0..N |->
            IF n = 0 THEN [sections |-> <<>>, month |-> None] ELSE Dated(f[n - 1], lines[n])]

LEMMA DatedExists ==
    ASSUME NEW lines, NEW N \in Nat
    PROVE  \E f : DatedIs(lines, f, N)
<1> DEFINE T == {n \in Nat : ~ \E f : DatedIs(lines, f, n)}
           none == [sections |-> <<>>, month |-> None]
<1>1. SUFFICES ASSUME T # {} PROVE FALSE
  OBVIOUS
<1>2. PICK m \in T : \A n \in T : m <= n
  <2> HIDE DEF T
  <2>1. T \in SUBSET Nat
    BY DEF T
  <2>2. QED BY <1>1, <2>1, Least
<1>3. m \in Nat /\ m # 0
  <2>1. DatedIs(lines, [n \in 0..0 |-> none], 0)
    BY DEF DatedIs
  <2>2. 0 \notin T
    BY <2>1
  <2>3. QED BY <1>2, <2>2
<1>4. m - 1 \in Nat /\ m - 1 \notin T
  <2>1. m - 1 \in Nat /\ ~ (m <= m - 1)
    BY <1>3
  <2> HIDE DEF T
  <2>2. QED BY <1>2, <2>1
<1>5. PICK f : DatedIs(lines, f, m - 1)
  BY <1>4
<1> DEFINE g == [n \in 0..m |-> IF n = m THEN Dated(f[m - 1], lines[m]) ELSE f[n]]
<1>6. DatedIs(lines, g, m)
  <2>1. ASSUME NEW n \in 0..m
        PROVE  g[n] = IF n = 0 THEN none ELSE Dated(g[n - 1], lines[n])
    <3>1. CASE n = m
      BY <1>3, <1>4, <3>1
    <3>2. CASE n # m
      <4>1. n \in 0..m - 1
        BY <1>4, <3>2
      <4>2. f[n] = IF n = 0 THEN none ELSE Dated(f[n - 1], lines[n])
        BY <1>5, <4>1 DEF DatedIs
      <4>3. n # 0 => n - 1 \in 0..m /\ n - 1 # m
        BY <1>4, <4>1
      <4>4. QED BY <3>2, <4>2, <4>3
    <3>3. QED BY <3>1, <3>2
  <2>2. QED BY <2>1 DEF DatedIs
<1>7. QED BY <1>2, <1>6

LEMMA DatedSteps ==
    ASSUME NEW lines, Len(lines) \in Nat
    PROVE  /\ DatedOutline(lines)[0] = [sections |-> <<>>, month |-> None]
           /\ \A n \in 1..Len(lines) :
                 DatedOutline(lines)[n] = Dated(DatedOutline(lines)[n - 1], lines[n])
<1> DEFINE N == Len(lines)
           f == CHOOSE f : DatedIs(lines, f, N)
<1>1. DatedIs(lines, f, N)
  <2>1. \E h : DatedIs(lines, h, N)
    BY DatedExists
  <2>2. QED BY <2>1
<1>2. DatedOutline(lines) = f
  BY DEF DatedOutline, DatedIs
<1> HIDE DEF f
<1>3. f[0] = [sections |-> <<>>, month |-> None]
  BY <1>1 DEF DatedIs
<1>4. ASSUME NEW n \in 1..N PROVE f[n] = Dated(f[n - 1], lines[n])
  <2>1. n \in 0..N /\ n # 0
    OBVIOUS
  <2>2. QED BY <1>1, <2>1 DEF DatedIs
<1>5. QED BY <1>2, <1>3, <1>4

(* The month the loop remembers is the one that was named last.            *)
NamedLast(lines, n, m) ==
    m \in 1..n /\ Month(lines[m]) /\ \A k \in 1..n : Month(lines[k]) => k <= m

MonthSoFar(lines, n, month) ==
    \/ month = None /\ \A k \in 1..n : ~ Month(lines[k])
    \/ \E m : NamedLast(lines, n, m) /\ month = lines[m].slug

LEMMA MonthRemembered ==
    ASSUME NEW lines, NEW n \in Nat, n # 0, NEW month, MonthSoFar(lines, n - 1, month),
           ~ Month(lines[n])
    PROVE  MonthSoFar(lines, n, month)
<1>1. \A k : k \in 1..n => k \in 1..(n - 1) \/ k = n
  OBVIOUS
<1>2. \A k : k \in 1..(n - 1) => k \in 1..n
  OBVIOUS
<1>3. QED BY <1>1, <1>2, Zenon DEF MonthSoFar, NamedLast

LEMMA DateIsOfMonth ==
    ASSUME NEW lines, NEW n \in Nat, NEW month, MonthSoFar(lines, n, month),
           \A m \in 1..n : Month(lines[m]) => lines[m].slug # None
    PROVE  DateOf(lines, n) = IF month = None THEN <<lines[n].slug>> ELSE <<month, lines[n].slug>>
<1>1. CASE month = None /\ \A k \in 1..n : ~ Month(lines[k])
  BY <1>1 DEF DateOf
<1>2. CASE \E m : NamedLast(lines, n, m) /\ month = lines[m].slug
  <2>1. PICK m : NamedLast(lines, n, m) /\ month = lines[m].slug
    BY <1>2
  <2>2. m \in 1..n /\ Month(lines[m]) /\ month # None
    BY <2>1 DEF NamedLast
  <2>3. \A k \in 1..n : Month(lines[k]) /\ (\A i \in 1..n : Month(lines[i]) => i <= k) => k = m
    <3>1. ASSUME NEW k \in 1..n, Month(lines[k]), \A i \in 1..n : Month(lines[i]) => i <= k
          PROVE  k = m
      <4>1. k <= m /\ m <= k
        BY <2>1, <2>2, <3>1 DEF NamedLast
      <4>2. QED BY <2>2, <4>1
    <3>2. QED BY <3>1
  <2>4. MonthOf(lines, n) = m
    BY <2>1, <2>3 DEF MonthOf, NamedLast
  <2>5. QED BY <2>1, <2>2, <2>4 DEF DateOf
<1>3. QED BY <1>1, <1>2 DEF MonthSoFar

LEMMA DaysMarked ==
    ASSUME NEW Names, NEW Strings, NEW lines \in Seq(LineOf(Names, Strings))
    PROVE  Marked(lines, DateTitles(lines), Days(lines), Said(lines))
BY DEF Marked, DateTitles, Days, Said

(* After n lines the sections are those of the days so far.                *)
DatedSoFar(lines, n, st) ==
    LET keys == PageKeys(DateSlugs(lines))
    IN  /\ st = [sections |-> st.sections, month |-> st.month]
        /\ st.sections \in Seq(SectionsOf(lines, keys, keys))
        /\ Len(st.sections) <= n
        /\ MonthSoFar(lines, n, st.month)
        /\ \E at : Shelved(lines, DateTitles(lines), Days(lines), Said(lines), n, st.sections, at)

(* No day closes a section: as soon as there is one, the last is open.     *)
LEMMA LastDayOpen ==
    ASSUME NEW lines, NEW title, NEW texts, Marked(lines, title, DOMAIN title, texts),
           NEW n \in Nat, NEW sections, NEW at,
           Shelved(lines, title, DOMAIN title, texts, n, sections, at), Len(sections) # 0
    PROVE  StillOpen(DOMAIN title, n, at)
<1> DEFINE L == Len(at)
<1>1. L \in Nat /\ L # 0 /\ L \in 1..L
  BY DEF Shelved
<1>2. ASSUME NEW m \in DOMAIN title, at[L] < m, m <= n
      PROVE  FALSE
  <2>1. PICK i \in 1..L : at[i] = m
    BY <1>2 DEF Shelved
  <2>2. at[i] \in Nat /\ at[L] \in Nat
    BY <1>1 DEF Shelved
  <2>3. i # L
    BY <1>2, <2>1, <2>2
  <2>4. i < L
    BY <1>1, <2>3
  <2>5. at[i] < at[L]
    BY <1>1, <2>4 DEF Shelved
  <2>6. QED BY <1>2, <2>1, <2>2, <2>5
<1>3. QED BY <1>1, <1>2 DEF StillOpen

LEMMA DatedKeeps ==
    ASSUME NEW Names, NEW Strings, NEW lines \in Seq(LineOf(Names, Strings)),
           None \notin DateSlugs(lines),
           NEW n \in 1..Len(lines), NEW st, DatedSoFar(lines, n - 1, st)
    PROVE  DatedSoFar(lines, n, Dated(st, lines[n]))
<1> DEFINE title == DateTitles(lines)
           ends  == Days(lines)
           texts == Said(lines)
           keys  == PageKeys(DateSlugs(lines))
           line  == lines[n]
           new   == Dated(st, line)
<1>1. Marked(lines, title, ends, texts) /\ ends = DOMAIN title
  BY DaysMarked DEF DateTitles
<1>2. /\ line \in LineOf(Names, Strings) /\ n \in DOMAIN lines /\ n \in Nat /\ n # 0
      /\ Len(lines) \in Nat /\ DOMAIN lines = 1..Len(lines) /\ 1..n \subseteq DOMAIN lines
      /\ n - 1 \in Nat
  OBVIOUS
<1>3. /\ n \in ends <=> Day(line)
      /\ n \in texts <=> ~ Day(line) /\ ~ Month(line)
  BY <1>2 DEF Days, Said
<1>4. /\ st.sections \in Seq(SectionsOf(lines, keys, keys))
      /\ Len(st.sections) <= n - 1 /\ Len(st.sections) \in Nat
      /\ MonthSoFar(lines, n - 1, st.month)
      /\ st = [sections |-> st.sections, month |-> st.month]
  BY DEF DatedSoFar
<1>5. PICK at : Shelved(lines, title, ends, texts, n - 1, st.sections, at)
  BY DEF DatedSoFar
<1>6. \A m \in 1..n : Day(lines[m]) \/ Month(lines[m]) =>
          lines[m].slug \in DateSlugs(lines) /\ lines[m].slug # None
  BY <1>2 DEF DateSlugs
<1>7. ~ Month(line) => MonthSoFar(lines, n, st.month)
  BY <1>2, <1>4, MonthRemembered
<1>8. CASE Month(line)
  <2>1. new = [st EXCEPT !.month = line.slug]
    BY <1>8 DEF Dated, Month
  <2>2. n \notin ends /\ n \notin texts
    BY <1>3, <1>8 DEF Day, Month
  <2>3. MonthSoFar(lines, n, line.slug)
    <3>1. NamedLast(lines, n, n)
      BY <1>2, <1>8 DEF NamedLast
    <3>2. QED BY <3>1 DEF MonthSoFar
  <2> HIDE DEF title, ends, texts, keys, line, new
  <2>4. new.sections = st.sections /\ new.month = line.slug
        /\ new = [sections |-> new.sections, month |-> new.month]
    BY <1>4, <2>1
  <2>5. Shelved(lines, title, ends, texts, n, st.sections, at)
    BY <1>1, <1>5, <2>2, Passes
  <2>6. Len(new.sections) <= n
    BY <1>2, <1>4, <2>4
  <2>7. QED BY <1>4, <2>3, <2>4, <2>5, <2>6 DEF DatedSoFar, title, ends, texts, keys, line, new
<1>9. CASE Day(line)
  <2> DEFINE key == IF st.month = None THEN <<line.slug>> ELSE <<st.month, line.slug>>
  <2>1. new = [st EXCEPT !.sections = Opened(@, key, key)]
    BY <1>9 DEF Dated, Day
  <2>2. ~ Month(line) /\ MonthSoFar(lines, n, st.month)
    BY <1>7, <1>9 DEF Day, Month
  <2>3. title[n] = key /\ n \in DOMAIN title
    <3>1. DateOf(lines, n) = key
      BY <1>2, <1>6, <2>2, DateIsOfMonth
    <3>2. QED BY <1>1, <1>3, <1>9, <3>1 DEF DateTitles
  <2>4. key \in keys
    <3>1. line.slug \in DateSlugs(lines)
      BY <1>2, <1>6, <1>9
    <3>2. st.month = None \/ st.month \in DateSlugs(lines)
      BY <1>6, <2>2 DEF MonthSoFar, NamedLast
    <3>3. QED BY <3>1, <3>2 DEF PageKeys
  <2>5. Len(st.sections) < n
    BY <1>2, <1>4
  <2> HIDE DEF title, ends, texts, keys, line, new, key
  <2>6. new.sections = Opened(st.sections, key, title[n]) /\ new.month = st.month
        /\ new = [sections |-> new.sections, month |-> new.month]
    BY <1>4, <2>1, <2>3
  <2>7. new.sections \in Seq(SectionsOf(lines, keys, keys))
    <3>1. title[n] \in keys
      BY <2>3, <2>4
    <3>2. Opened(st.sections, key, title[n]) \in Seq(SectionsOf(lines, keys, keys))
      BY <1>1, <1>4, <1>5, <2>3, <2>4, <2>5, <3>1, Opens, Zenon
    <3>3. QED BY <2>6, <3>2
  <2>8. Shelved(lines, title, ends, texts, n, new.sections, Append(at, n))
    <3>1. title[n] \in keys
      BY <2>3, <2>4
    <3>2. Shelved(lines, title, ends, texts, n, Opened(st.sections, key, title[n]), Append(at, n))
      BY <1>1, <1>4, <1>5, <2>3, <2>4, <2>5, <3>1, Opens, Zenon
    <3>3. QED BY <2>6, <3>2
  <2>9. Len(new.sections) <= n
    <3>1. Len(new.sections) = Len(st.sections) + 1
      BY <1>4, <2>6 DEF Opened
    <3>2. QED BY <1>2, <1>4, <3>1
  <2>10. QED BY <2>2, <2>6, <2>7, <2>8, <2>9 DEF DatedSoFar, title, ends, texts, keys, line, new
<1>10. CASE ~ Month(line) /\ ~ Day(line) /\ st.sections # <<>>
  <2>1. new = [st EXCEPT !.sections = Extended(@, line)]
    BY <1>2, <1>10 DEF Dated, Day, Month, LineOf
  <2>2. n \in texts
    BY <1>3, <1>10
  <2>3. Len(st.sections) # 0
    BY <1>4, <1>10
  <2> HIDE DEF title, ends, texts, keys, new
  <2>4. StillOpen(ends, n - 1, at)
    BY <1>1, <1>2, <1>5, <2>3, LastDayOpen
  <2>5. /\ Extended(st.sections, line) \in Seq(SectionsOf(lines, keys, keys))
        /\ Len(Extended(st.sections, line)) = Len(st.sections)
        /\ Shelved(lines, title, ends, texts, n, Extended(st.sections, line), at)
    <3>1. Extended(st.sections, lines[n]) \in Seq(SectionsOf(lines, keys, keys))
      BY <1>1, <1>4, <1>5, <2>2, <2>4, Extends, Zenon
    <3>2. Shelved(lines, title, ends, texts, n, Extended(st.sections, lines[n]), at)
      BY <1>1, <1>4, <1>5, <2>2, <2>4, Extends, Zenon
    <3>3. Len(Extended(st.sections, lines[n])) = Len(st.sections)
      BY <1>5, <3>2 DEF Shelved
    <3>4. QED BY <3>1, <3>2, <3>3 DEF line
  <2> HIDE DEF line
  <2>6. new.sections = Extended(st.sections, line) /\ new.month = st.month
        /\ new = [sections |-> new.sections, month |-> new.month]
    BY <1>4, <2>1
  <2>7. Len(new.sections) <= n
    BY <1>2, <1>4, <2>5, <2>6
  <2>8. QED BY <1>7, <1>10, <2>5, <2>6, <2>7 DEF DatedSoFar, title, ends, texts, keys, line, new
<1>11. CASE ~ Month(line) /\ ~ Day(line) /\ st.sections = <<>>
  <2>1. new = st
    BY <1>11 DEF Dated, Day, Month
  <2>2. n \notin ends /\ ~ StillOpen(ends, n - 1, at)
    BY <1>3, <1>5, <1>11 DEF Shelved, StillOpen
  <2> HIDE DEF title, ends, texts, keys, line, new
  <2>3. Shelved(lines, title, ends, texts, n, st.sections, at)
    BY <1>1, <1>5, <2>2, Passes
  <2>4. Len(st.sections) <= n
    BY <1>2, <1>4
  <2>5. DatedSoFar(lines, n, st)
    BY <1>4, <1>7, <1>11, <2>3, <2>4 DEF DatedSoFar, title, ends, texts, keys
  <2>6. QED BY <2>1, <2>5 DEF new, line
<1>12. QED BY <1>8, <1>9, <1>10, <1>11

LEMMA DatedOutlineKeeps ==
    ASSUME NEW Names, NEW Strings, NEW lines \in Seq(LineOf(Names, Strings)),
           None \notin DateSlugs(lines), NEW n \in 0..Len(lines)
    PROVE  DatedSoFar(lines, n, DatedOutline(lines)[n])
<1> DEFINE T == {k \in 0..Len(lines) : ~ DatedSoFar(lines, k, DatedOutline(lines)[k])}
           none == [sections |-> <<>>, month |-> None]
<1>1. SUFFICES ASSUME T # {} PROVE FALSE
  OBVIOUS
<1>2. PICK m \in T : \A k \in T : m <= k
  <2> HIDE DEF T
  <2>1. T \in SUBSET Nat
    BY DEF T
  <2>2. QED BY <1>1, <2>1, Least
<1>3. m \in 0..Len(lines) /\ Len(lines) \in Nat
  OBVIOUS
<1>4. DatedSoFar(lines, 0, none)
  <2> DEFINE title == DateTitles(lines)
             ends  == Days(lines)
             texts == Said(lines)
  <2>1. Marked(lines, title, ends, texts)
    BY DaysMarked
  <2> HIDE DEF title, ends, texts
  <2>2. ASSUME NEW j \in DOMAIN title PROVE ~ (j <= 0)
    <3>1. Len(lines) \in Nat /\ j \in 1..Len(lines)
      BY <2>1 DEF Marked
    <3>2. QED BY <3>1
  <2>3. Shelved(lines, title, ends, texts, 0, <<>>, <<>>)
    BY <2>2 DEF Shelved
  <2>4. MonthSoFar(lines, 0, None)
    BY DEF MonthSoFar
  <2>5. QED BY <2>3, <2>4 DEF DatedSoFar, title, ends, texts
<1>5. m # 0
  BY <1>2, <1>3, <1>4, DatedSteps
<1>6. m \in 1..Len(lines) /\ m - 1 \in 0..Len(lines) /\ m - 1 \notin T
  BY <1>2, <1>3, <1>5
<1>7. DatedSoFar(lines, m - 1, DatedOutline(lines)[m - 1])
  BY <1>6
<1>8. DatedOutline(lines)[m] = Dated(DatedOutline(lines)[m - 1], lines[m])
  BY <1>3, <1>6, DatedSteps
<1>9. DatedSoFar(lines, m, DatedOutline(lines)[m])
  BY <1>6, <1>7, <1>8, DatedKeeps
<1>10. QED BY <1>2, <1>9

(* Every day of a changelog that is kept as lines has one item, under its  *)
(* date and the month that was named last, that holds what is said between *)
(* it and the next day in its order; no two share one and there is no      *)
(* other (docs_extract.py:286-289, 326-349).                               *)
THEOREM DaysAreKept ==
    ASSUME NEW rule, rule.strategy = "date-lines",
           \A name : Path(FALSE, name) # None,
           NEW page, NEW Names, NEW Strings, page.blocks \in Seq(LineOf(Names, Strings)),
           Days(page.blocks) # {}, None \notin DateSlugs(page.blocks),
           KeysApart(DateSlugs(page.blocks), Len(page.blocks))
    PROVE  DaysKept(page.blocks, ExtractDocs(rule, page))
<1> DEFINE lines == page.blocks
           N     == Len(lines)
           title == DateTitles(lines)
           ends  == Days(lines)
           texts == Said(lines)
           keys  == PageKeys(DateSlugs(lines))
           sections == SectionsFromDateLines(lines)
           rows  == ItemsOf(rule, page)
<1>1. Marked(lines, title, ends, texts) /\ N \in Nat
  BY DaysMarked
<1>2. DatedSoFar(lines, N, DatedOutline(lines)[N])
  <2>1. N \in 0..N
    BY <1>1
  <2>2. QED BY <2>1, DatedOutlineKeeps
<1>3. sections \in Seq(SectionsOf(lines, keys, keys)) /\ Len(sections) <= N
  BY <1>2 DEF DatedSoFar, SectionsFromDateLines
<1>4. PICK at : Shelved(lines, title, ends, texts, N, sections, at)
  BY <1>2 DEF DatedSoFar, SectionsFromDateLines
<1>5. rows = ItemsFromSections(sections)
  BY DEF ItemsOf
<1>6. DOMAIN title # {}
  BY DEF DateTitles
<1> HIDE DEF lines, N, title, ends, texts, keys, sections, rows
<1>7. \A i, l \in DOMAIN sections : sections[i].key = sections[l].key => i = l
  BY <1>1, <1>3, <1>4, ShelvedApart DEF keys, N, lines
<1>8. RowEach(rows, sections)
  <2>1. DOMAIN rows = DOMAIN sections
    BY <1>5 DEF ItemsFromSections
  <2>2. \A i \in DOMAIN rows : /\ rows[i].key = Path(FALSE, sections[i].key)
                               /\ rows[i].row.value = <<sections[i].heading, sections[i].text>>
    BY <1>5, <2>1 DEF ItemsFromSections, SectionRow
  <2>3. \A i, l \in DOMAIN rows : rows[i].key = rows[l].key => i = l
    <3>1. ASSUME NEW i \in DOMAIN rows, NEW l \in DOMAIN rows, rows[i].key = rows[l].key
          PROVE  i = l
      <4>1. Path(FALSE, sections[i].key) = Path(FALSE, sections[l].key)
        BY <2>2, <3>1
      <4>2. sections[i].key = sections[l].key
        BY <4>1, PathsDiffer, Zenon
      <4>3. QED BY <1>7, <2>1, <4>2
    <3>2. QED BY <3>1
  <2>4. \A i \in DOMAIN rows : rows[i].key # None
    BY <2>2
  <2>5. QED BY <2>1, <2>2, <2>3, <2>4 DEF RowEach
<1>9. OneItemEach(Indexed(rows), lines, title, ends, texts)
  BY <1>1, <1>3, <1>4, <1>8, SectionsKept DEF N
<1>10. rows # <<>>
  <2>1. PICK j \in DOMAIN title : j \in 1..N
    BY <1>1, <1>6 DEF Marked, N
  <2>2. \E i \in 1..Len(at) : at[i] = j
    BY <1>1, <1>4, <2>1 DEF Shelved
  <2>3. DOMAIN sections # {}
    BY <1>3, <1>4, <2>2 DEF Shelved
  <2>4. QED BY <1>8, <2>3 DEF RowEach
<1>11. ExtractDocs(rule, page) = Indexed(rows)
  BY <1>10 DEF ExtractDocs, rows
<1>12. QED BY <1>9, <1>11 DEF DaysKept, DateTitles, Said, title, ends, texts, lines

===============================================================================
