-------------------------------- MODULE Diff --------------------------------
(***************************************************************************)
(* The diff engine (collectors diff.py): two snapshots of one source ->    *)
(* the deltas the run has to turn into events or exceptions.  A snapshot   *)
(* is a function from the keys of its items to the items' fields:          *)
(*   models-api    model id        -> created, owned_by, endpoints,        *)
(*                                    context_window                       *)
(*   pricing-api   price dimension -> value; the dimension is a record     *)
(*                 with the fields model_ref, direction, tier, region      *)
(*   statuspage    incident id     -> status, components, updated_at       *)
(*   docs-html     field path      -> value                                *)
(* Values are compared as canonicalize leaves them.                        *)
(***************************************************************************)
EXTENDS FiniteSets

CONSTANT None        \* Python's None: no prior snapshot, no old or new value

Unclassified == "diff.unclassified"      \* Delta.event_type None

(* The presence of an item, as opposed to one of its fields. *)
Presence == "presence"

(* One delta.  "items" are the keys of the rows it speaks of: one key, or  *)
(* for prices every row that moved together.                               *)
Delta(type, field, change, subject, items, old, new) ==
    [type |-> type, field |-> field, change |-> change, subject |-> subject,
     items |-> items, old |-> old, new |-> new]

Added(prev, cur) == DOMAIN cur \ DOMAIN prev
Removed(prev, cur) == DOMAIN prev \ DOMAIN cur
Kept(prev, cur) == DOMAIN prev \cap DOMAIN cur
Moved(prev, cur, f) == {k \in Kept(prev, cur) : prev[k][f] # cur[k][f]}

-----------------------------------------------------------------------------
ModelFields == {"context_window", "endpoints", "created", "owned_by"}

ModelFieldEvent(f) ==
    CASE f = "context_window" -> "limits.changed"
      [] f = "endpoints"      -> "capability.changed"
      [] OTHER                -> Unclassified

DiffModelsApi(prev, cur) ==
    {Delta("model.released", Presence, "added", m, {m}, None, m) : m \in Added(prev, cur)}
    \cup {Delta("model.deprecated", Presence, "removed", m, {m}, m, None) :
             m \in Removed(prev, cur)}
    \cup UNION {{Delta(ModelFieldEvent(f), f, "modified", m, {m}, prev[m][f], cur[m][f]) :
                    m \in Moved(prev, cur, f)} : f \in ModelFields}

(* The representative of the prices that moved together: a standard-tier   *)
(* row where there is one.  (The code takes the first in the order of tier *)
(* and region; which one that is does not matter here.)                    *)
Representative(rows) ==
    IF \E k \in rows : k.tier = "standard"
      THEN CHOOSE k \in rows : k.tier = "standard"
      ELSE CHOOSE k \in rows : TRUE

(* Fault: the group of a moved price takes in the rows that did not move.   *)
PriceMovesAndStays(prev, cur, like) ==
    {k \in Kept(prev, cur) : k.model_ref = like.model_ref /\ k.direction = like.direction}

PriceMoves(prev, cur, like) ==
    {k \in Moved(prev, cur, "value") :
        k.model_ref = like.model_ref /\ k.direction = like.direction}

RowsOf(rows, m) == {k \in rows : k.model_ref = m}

RowChange(prev, cur, m) ==
    CASE RowsOf(Removed(prev, cur), m) = {} -> "added"
      [] RowsOf(Added(prev, cur), m) = {}   -> "removed"
      [] OTHER                              -> "modified"

DiffPricingApi(prev, cur) ==
    {LET rows == PriceMoves(prev, cur, k)
         rep  == Representative(rows)
     IN  Delta("price.changed", "value", "modified", k.model_ref, rows,
               prev[rep]["value"], cur[rep]["value"]) : k \in Moved(prev, cur, "value")}
    \cup {LET m == k.model_ref
          IN  Delta(Unclassified, Presence, RowChange(prev, cur, m), m,
                    RowsOf(Added(prev, cur) \cup Removed(prev, cur), m), None, None) :
             k \in Added(prev, cur) \cup Removed(prev, cur)}

Resolved == {"resolved", "postmortem"}                  \* RESOLVED_STATUSES

DiffStatuspage(prev, cur) ==
    {Delta("outage.started", Presence, "added", i, {i}, None, i) : i \in Added(prev, cur)}
    \cup {Delta("outage.resolved", "status", "modified", i, {i},
                prev[i]["status"], cur[i]["status"]) :
             i \in {j \in Moved(prev, cur, "status") :
                       cur[j]["status"] \in Resolved /\ prev[j]["status"] \notin Resolved}}
    \cup {Delta(Unclassified, "components", "modified", i, {i},
                prev[i]["components"], cur[i]["components"]) :
             i \in Moved(prev, cur, "components")}

(* declared: the changes the page's extraction rule declares as model      *)
(* events (DOCS_MODEL_EVENTS), for the paths that name a model.            *)
DocsEvent(declared, p, change) ==
    IF ~ (p.model /\ change \in declared) THEN Unclassified
    ELSE IF change = "added" THEN "model.released" ELSE "model.deprecated"

(* A typed delta carries the model's id, an unclassified one the text. *)
DocsSide(declared, p, change, value) ==
    IF DocsEvent(declared, p, change) = Unclassified THEN value ELSE p.name

DiffDocsHtml(declared, prev, cur) ==
    {Delta(DocsEvent(declared, p, "added"), Presence, "added", p.name, {p},
           None, DocsSide(declared, p, "added", cur[p]["value"])) : p \in Added(prev, cur)}
    \cup {Delta(DocsEvent(declared, p, "removed"), Presence, "removed", p.name, {p},
                DocsSide(declared, p, "removed", prev[p]["value"]), None) :
             p \in Removed(prev, cur)}
    \cup {Delta(Unclassified, "value", "modified", p.name, {p},
                prev[p]["value"], cur[p]["value"]) : p \in Moved(prev, cur, "value")}

(* DIFFERS; a first snapshot seeds the baseline and yields no delta. *)
Deltas(kind, declared, prev, cur) ==
    IF prev = None THEN {}
    ELSE CASE kind = "models-api"  -> DiffModelsApi(prev, cur)
           [] kind = "pricing-api" -> DiffPricingApi(prev, cur)
           [] kind = "statuspage"  -> DiffStatuspage(prev, cur)
           [] kind = "docs-html"   -> DiffDocsHtml(declared, prev, cur)

-----------------------------------------------------------------------------
(* What two snapshots differ in, said without the differs: the items only  *)
(* one of them has, and the fields the common items do not agree on.       *)
FieldsOf(kind) ==
    CASE kind = "models-api"  -> ModelFields
      [] kind = "statuspage"  -> {"status", "components", "updated_at"}
      [] OTHER                -> {"value"}

Differences(kind, prev, cur) ==
    {<<k, Presence>> : k \in Added(prev, cur) \cup Removed(prev, cur)}
    \cup UNION {{<<k, f>> : k \in Moved(prev, cur, f)} : f \in FieldsOf(kind)}

(* The differences diff.py's docstring says are dropped: an incident that  *)
(* leaves the window, its bookkeeping time, and a status move that does    *)
(* not resolve it.                                                         *)
Dropped(kind, prev, cur, d) ==
    /\ kind = "statuspage"
    /\ \/ d[2] = "updated_at"
       \/ d[2] = Presence /\ d[1] \in Removed(prev, cur)
       \/ d[2] = "status" /\ (cur[d[1]]["status"] \notin Resolved \/ prev[d[1]]["status"] \in Resolved)

Covers(delta, d) == d[1] \in delta.items /\ d[2] = delta.field

(* A delta is true of two snapshots that differ in all it speaks of; the   *)
(* values it states of a field are those of one item in the two.           *)
TrueOf(kind, prev, cur, delta) ==
    /\ delta.items # {}
    /\ \A k \in delta.items : <<k, delta.field>> \in Differences(kind, prev, cur)
    /\ delta.field # Presence =>
          \E k \in delta.items :
             delta.old = prev[k][delta.field] /\ delta.new = cur[k][delta.field]
=============================================================================
