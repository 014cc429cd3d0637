------------------------------ MODULE Normalize ------------------------------
(***************************************************************************)
(* The normalizers (normalize.py) and the docs extraction (docs_extract.py):*)
(* what a page says -> the snapshot the diff engine compares.  The page is *)
(* taken after parsing, as the records the normalizer loops over; a field  *)
(* it may lack, or that has the wrong type, is None.                       *)
(***************************************************************************)
EXTENDS Naturals, Sequences, FiniteSets

CONSTANTS None,
          Numbered(_, _)    \* "<key>-<n>", the n-th use of a section key

(* A snapshot lists its rows; the differ's index keeps the last row of a   *)
(* key.  A row with the key None was skipped.                              *)
Indexed(rows) ==
    [k \in {rows[n].key : n \in DOMAIN rows} \ {None} |->
        rows[CHOOSE n \in DOMAIN rows :
                rows[n].key = k /\ \A m \in DOMAIN rows : m > n => rows[m].key # k].row]

(* models-api, openrouter-models-v1: items [id, context_length, created].  *)
(* OpenRouter names no owner and no endpoints.                             *)
ModelsSnapshot(items) ==
    Indexed([n \in DOMAIN items |->
        [key |-> items[n].id,
         row |-> [context_window |-> items[n].context_length, created |-> items[n].created,
                  owned_by |-> None, endpoints |-> {}]]])

-----------------------------------------------------------------------------
(* pricing-api.  A dimension is [model_ref, direction, tier, region].      *)
Dimension(model_ref, direction, tier, region) ==
    [model_ref |-> model_ref, direction |-> direction, tier |-> tier, region |-> region]

(* LITELLM_COST_FIELDS: <<direction, tier>> of each cost field. *)
CostFields ==
    [input_cost_per_token            |-> <<"input", "standard">>,
     output_cost_per_token           |-> <<"output", "standard">>,
     cache_read_input_token_cost     |-> <<"input", "cached_read">>,
     cache_creation_input_token_cost |-> <<"input", "cached_write">>,
     input_cost_per_token_batches    |-> <<"input", "batch">>,
     output_cost_per_token_batches   |-> <<"output", "batch">>,
     input_cost_per_token_priority   |-> <<"input", "priority">>,
     output_cost_per_token_priority  |-> <<"output", "priority">>]

(* litellm-prices-v1: model key -> its numeric fields; one key documents   *)
(* the file.                                                               *)
LitellmSnapshot(specs) ==
    LET models == DOMAIN specs \ {"sample_spec"}
        dim(m, f) == Dimension(m, CostFields[f][1], CostFields[f][2], "global")
        rows == UNION {{<<m, f>> : f \in DOMAIN specs[m] \cap DOMAIN CostFields} : m \in models}
    IN  [d \in {dim(r[1], r[2]) : r \in rows} |->
            [value |-> (CHOOSE v \in {specs[r[1]][r[2]] : r \in {q \in rows : dim(q[1], q[2]) = d}} :
                            TRUE)]]

(* azure-retail-prices-v1: the meters that name exactly one direction, at  *)
(* most one tier and a token price; of several for one dimension the one   *)
(* of the primary region, then the later one, then the one of lower id.    *)
Priced(meter) == meter.dimension # None /\ meter.value # None

Outranks(m, n) ==
    \/ m.primary > n.primary
    \/ m.primary = n.primary /\ m.start > n.start
    \/ m.primary = n.primary /\ m.start = n.start /\ m.id < n.id

(* The meters are taken one by one, a better one in the place of the one   *)
(* that its dimension has.                                                 *)
Better(best, meter) ==
    IF Priced(meter) /\ (meter.dimension \in DOMAIN best => Outranks(meter, best[meter.dimension]))
      THEN [d \in DOMAIN best \cup {meter.dimension} |->
               IF d = meter.dimension THEN meter ELSE best[d]]
      ELSE best

BestMeters(meters) ==
    LET best[n \in 0..Len(meters)] ==
            IF n = 0 THEN <<>> ELSE Better(best[n - 1], meters[n])
    IN  best

PriceLoop(meters) ==
    LET best == BestMeters(meters)[Len(meters)]
    IN  [d \in DOMAIN best |-> [value |-> best[d].value]]

(* What the loop leaves, without an order.                                 *)
PriceSnapshot(meters) ==
    LET usable == {m \in meters : Priced(m)}
    IN  [d \in {m.dimension : m \in usable} |->
            LET rivals == {m \in usable : m.dimension = d}
            IN  [value |-> (CHOOSE m \in rivals : \A n \in rivals : ~ Outranks(n, m)).value]]

(* Meters of one dimension of which none outranks the other have one price. *)
TiesAgree(meters) ==
    \A m, n \in meters :
        /\ Priced(m) /\ Priced(n) /\ m.dimension = n.dimension
        /\ ~ Outranks(m, n) /\ ~ Outranks(n, m)
        => m.value = n.value

(* aws-bedrock-offers-v1: products whose inference type is in the map; the *)
(* archived body keeps those only (aws-bedrock-offers-slim-v1).            *)
BedrockSnapshot(products) ==
    PriceSnapshot({[p EXCEPT !.primary = 0] : p \in {q \in products : q.mapped}})

Slim(products) == {p \in products : p.mapped}

-----------------------------------------------------------------------------
(* statuspage *)
IncidentRow(id, status, components, updated_at) ==
    [key |-> IF None \in {status, updated_at} THEN None ELSE id,
     row |-> [status |-> status, components |-> components, updated_at |-> updated_at]]

(* statuspage-summary-v1, statuspage-incidents-v1 *)
StatuspageSnapshot(entries) ==
    Indexed([n \in DOMAIN entries |->
        LET e == entries[n] IN IncidentRow(e.id, e.status, e.components, e.updated_at)])

(* statuspage-atom-v1: an entry's labels, the latest update first; the     *)
(* feed names no components.                                               *)
AtomSnapshot(entries) ==
    Indexed([n \in DOMAIN entries |->
        LET e == entries[n]
        IN  IncidentRow(e.id, IF e.labels = <<>> THEN None ELSE e.labels[1], {}, e.updated)])

(* aws-health-currentevents-v1: the events of all AWS services; an unknown *)
(* code is its own status.                                                 *)
AwsHealthSnapshot(events) ==
    Indexed([n \in DOMAIN events |->
        LET e == events[n]
            status == CASE e.status = "0" -> "resolved" [] e.status = "1" -> "open" [] OTHER -> e.status
        IN  IncidentRow(IF e.bedrock THEN e.arn ELSE None, status, {e.service_name} \ {None}, e.date)])

(* _AZURE_RSS_STATUS_KEYWORDS: the first of them in the text decides. *)
RssKeywords ==
    <<<<"resolved", "resolved">>, <<"mitigated", "resolved">>, <<"restored", "resolved">>,
      <<"investigating", "investigating">>, <<"monitoring", "monitoring">>,
      <<"degradation", "identified">>, <<"degraded", "identified">>>>

RssStatus(words) ==
    LET found == {n \in DOMAIN RssKeywords : RssKeywords[n][1] \in words}
    IN  IF found = {} THEN "active" ELSE RssKeywords[CHOOSE n \in found : \A m \in found : n <= m][2]

(* azure-status-rss-v1: the items that mention Azure OpenAI. *)
AzureRssSnapshot(items) ==
    Indexed([n \in DOMAIN items |->
        LET e == items[n]
            id == IF e.guid # None THEN e.guid ELSE e.link
        IN  IncidentRow(IF e.relevant THEN id ELSE None, RssStatus(e.words), {}, e.pubDate)])

(* mistral-status-payload-v1: the lists of unresolved incidents, one after *)
(* the other; times holds the values of updatedAt, updated_at, createdAt   *)
(* and created_at that are there, in that order.                           *)
MistralStatusSnapshot(items) ==
    Indexed([n \in DOMAIN items |->
        LET e == items[n]
        IN  IncidentRow(e.id, e.status, e.services, IF e.times = <<>> THEN None ELSE e.times[1])])

-----------------------------------------------------------------------------
(* docs-html.  A page is its visible text, the heading and text blocks of  *)
(* its content region, [heading, level, slug, text, model], model None in  *)
(* a text that names no model id, and for a TypeScript index its imports.  *)
(* A path is [model, name].                                                *)
Path(isModel, name) == [model |-> isModel, name |-> name]

(* _dedup_key: the n-th use of a key is numbered from the second on. *)
DedupKey(key, sections) ==
    LET uses == Cardinality({n \in DOMAIN sections : sections[n].base = key}) + 1
    IN  IF uses = 1 THEN key ELSE Numbered(key, uses)

Opened(sections, key, heading) ==
    Append(sections, [base |-> key, key |-> DedupKey(key, sections), heading |-> heading,
                      text |-> <<>>, model |-> None])

(* Text goes to the last section; the first model id in it is the section's.*)
Extended(sections, block) ==
    LET last == sections[Len(sections)]
    IN  [sections EXCEPT ![Len(sections)].text = Append(@, block.text),
                         ![Len(sections)].model = IF last.model = None THEN block.model ELSE @]

(* _sections_from_headings: a heading of the rule's levels opens a section,*)
(* below its parent where the rule is hierarchical; one above them closes  *)
(* the open section.                                                       *)
HeadingKey(rule, top, parent, block) ==
    IF rule.hierarchical /\ block.level # top /\ parent # None
      THEN <<parent, block.slug>> ELSE <<block.slug>>

Headed(rule, top, st, block) ==
    CASE block.heading /\ block.level \in rule.levels ->
             [sections |-> Opened(st.sections, HeadingKey(rule, top, st.parent, block), block.text),
              parent |-> IF rule.hierarchical /\ block.level = top THEN block.slug ELSE st.parent,
              open |-> TRUE]
      [] block.heading /\ block.level < top -> [st EXCEPT !.open = FALSE, !.parent = None]
      [] ~ block.heading /\ st.open -> [st EXCEPT !.sections = Extended(@, block)]
      [] OTHER -> st

Top(rule) == CHOOSE l \in rule.levels : \A m \in rule.levels : l <= m

Outline(rule, blocks) ==
    LET st[n \in 0..Len(blocks)] ==
            IF n = 0 THEN [sections |-> <<>>, parent |-> None, open |-> FALSE]
            ELSE Headed(rule, Top(rule), st[n - 1], blocks[n])
    IN  st

SectionsFromHeadings(rule, blocks) == Outline(rule, blocks)[Len(blocks)].sections

(* _sections_from_date_lines: a line is a month, a day, which opens a      *)
(* section, or text.                                                       *)
Dated(st, line) ==
    CASE line.mark = "month" -> [st EXCEPT !.month = line.slug]
      [] line.mark = "day"   ->
             LET key == IF st.month = None THEN <<line.slug>> ELSE <<st.month, line.slug>>
             IN  [st EXCEPT !.sections = Opened(@, key, key)]
      [] line.mark = "text" /\ st.sections # <<>> -> [st EXCEPT !.sections = Extended(@, line)]
      [] OTHER -> st

DatedOutline(lines) ==
    LET st[n \in 0..Len(lines)] ==
            IF n = 0 THEN [sections |-> <<>>, month |-> None] ELSE Dated(st[n - 1], lines[n])
    IN  st

SectionsFromDateLines(lines) == DatedOutline(lines)[Len(lines)].sections

SectionRow(section) ==
    [key |-> Path(FALSE, section.key), row |-> [value |-> <<section.heading, section.text>>]]

ItemsFromSections(sections) == [n \in DOMAIN sections |-> SectionRow(sections[n])]

(* _items_models: the first section with a model id is that model. *)
FirstOfItsModel(sections, n) ==
    /\ sections[n].model # None
    /\ \A k \in 1..(n - 1) : sections[k].model # sections[n].model

ItemsModels(sections) ==
    [n \in DOMAIN sections |->
        IF FirstOfItsModel(sections, n)
          THEN [SectionRow(sections[n]) EXCEPT !.key = Path(TRUE, sections[n].model)]
          ELSE SectionRow(sections[n])]

(* _items_ts_imports: every import of the index is a model. *)
ItemsTsImports(imports) ==
    [n \in DOMAIN imports |-> [key |-> Path(TRUE, imports[n]), row |-> [value |-> imports[n]]]]

(* Each rule by its strategy; a page with no item is the hash of its text. *)
WholePage(page) == [p \in {Path(FALSE, <<"page">>)} |-> [value |-> page.text]]

ItemsOf(rule, page) ==
    CASE rule.strategy = "ts-imports" -> ItemsTsImports(page.imports)
      [] rule.strategy = "date-lines" -> ItemsFromSections(SectionsFromDateLines(page.blocks))
      [] rule.strategy = "models"     -> ItemsModels(SectionsFromHeadings(rule, page.blocks))
      [] rule.strategy = "headings"   -> ItemsFromSections(SectionsFromHeadings(rule, page.blocks))

ExtractDocs(rule, page) ==
    IF ItemsOf(rule, page) = <<>> THEN WholePage(page) ELSE Indexed(ItemsOf(rule, page))

(* What the extraction of a page is for, without its loops: what opens a   *)
(* section has an item of its own, with its title and the texts that follow*)
(* it up to where a section opens or closes, in their order.               *)
Following(texts, ends, j, n) ==
    {k \in texts : j < k /\ k <= n /\ \A m \in ends : ~ (j < m /\ m <= k)}

InOrder(list, blocks, places) ==
    \E f \in [DOMAIN list -> places] :
        /\ \A k \in places : \E i \in DOMAIN list : f[i] = k
        /\ \A i, l \in DOMAIN list : i < l => f[i] < f[l]
        /\ \A i \in DOMAIN list : list[i] = blocks[f[i]].text

OneItemEach(items, blocks, title, ends, texts) ==
    \E path \in [DOMAIN title -> DOMAIN items] :
        /\ \A p \in DOMAIN items : \E j \in DOMAIN title : path[j] = p
        /\ \A i, j \in DOMAIN title : path[i] = path[j] => i = j
        /\ \A j \in DOMAIN title :
              /\ items[path[j]].value[1] = title[j]
              /\ InOrder(items[path[j]].value[2], blocks, Following(texts, ends, j, Len(blocks)))

Openers(rule, blocks) ==
    {n \in DOMAIN blocks : blocks[n].heading /\ blocks[n].level \in rule.levels}

HeadingsKept(rule, blocks, items) ==
    LET closers == {n \in DOMAIN blocks : blocks[n].heading /\ blocks[n].level < Top(rule)}
    IN  OneItemEach(items, blocks,
                    [n \in Openers(rule, blocks) |-> blocks[n].text],
                    Openers(rule, blocks) \cup closers,
                    {n \in DOMAIN blocks : ~ blocks[n].heading})

(* A day's title is its date, with the month that was named last.          *)
Day(line) == line.mark = "day"
Month(line) == line.mark = "month"

MonthOf(lines, n) ==
    CHOOSE m \in 1..n : Month(lines[m]) /\ \A k \in 1..n : Month(lines[k]) => k <= m

DateOf(lines, n) ==
    IF \E m \in 1..n : Month(lines[m])
      THEN <<lines[MonthOf(lines, n)].slug, lines[n].slug>> ELSE <<lines[n].slug>>

Days(lines) == {n \in DOMAIN lines : Day(lines[n])}

DaysKept(lines, items) ==
    OneItemEach(items, lines, [n \in Days(lines) |-> DateOf(lines, n)], Days(lines),
                {n \in DOMAIN lines : ~ Day(lines[n]) /\ ~ Month(lines[n])})

(* The numbers given to keys that are used again lead to keys that nothing *)
(* else on the page has, as 'foo-2' would be.                              *)
PageKeys(slugs) == {<<s>> : s \in slugs} \cup {<<s, t>> : s, t \in slugs}

KeysApart(slugs, most) ==
    \A k, l \in PageKeys(slugs), m, n \in 2..most :
        /\ Numbered(k, m) \notin PageKeys(slugs)
        /\ Numbered(k, m) = Numbered(l, n) => k = l /\ m = n

HeadingSlugs(blocks) == {blocks[n].slug : n \in {m \in DOMAIN blocks : blocks[m].heading}}
DateSlugs(lines) == {lines[n].slug : n \in {m \in DOMAIN lines : Day(lines[m]) \/ Month(lines[m])}}

(* RULES *)
Rule(strategy, levels, hierarchical) ==
    [strategy |-> strategy, levels |-> levels, hierarchical |-> hierarchical]

Rules(id) ==
    CASE id = "openai-changelog-v1"        -> Rule("date-lines", {2, 3}, FALSE)
      [] id = "anthropic-release-notes-v1" -> Rule("headings", {2, 3}, FALSE)
      [] id = "google-gemini-changelog-v1" -> Rule("headings", {2}, FALSE)
      [] id = "azure-whats-new-v1"         -> Rule("headings", {2, 3}, TRUE)
      [] id = "xai-changelog-v1"           -> Rule("models", {3}, FALSE)
      [] id = "mistral-models-index-v1"    -> Rule("ts-imports", {2, 3}, FALSE)

(* NORMALIZERS, and for a docs task its extraction rule.  What the parser  *)
(* made of the pages comes in order; the pages of a chain are one list.    *)
Normalized(normalizer, parsed) ==
    CASE normalizer = "openrouter-models"       -> ModelsSnapshot(parsed[1])
      [] normalizer = "litellm-prices"          -> LitellmSnapshot(parsed[1])
      [] normalizer = "azure-retail-prices"     -> PriceSnapshot(UNION {parsed[n] : n \in DOMAIN parsed})
      [] normalizer = "aws-bedrock-offers"      -> BedrockSnapshot(parsed[1])
      [] normalizer \in {"statuspage-summary", "statuspage-incidents"} -> StatuspageSnapshot(parsed[1])
      [] normalizer = "statuspage-atom"         -> AtomSnapshot(parsed[1])
      [] normalizer = "aws-health-currentevents" -> AwsHealthSnapshot(parsed[1])
      [] normalizer = "azure-status-rss"        -> AzureRssSnapshot(parsed[1])
      [] normalizer = "mistral-status-payload"  -> MistralStatusSnapshot(parsed[1])
      [] OTHER                                  -> ExtractDocs(Rules(normalizer), parsed[1])
=============================================================================
