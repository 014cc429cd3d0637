----------------------------- MODULE MCCollector -----------------------------
(***************************************************************************)
(* Small instances of Collector: azure_openai_pricing, with its paginated  *)
(* price list, before mistral_models, with the model index of the mirror   *)
(* and the page fetched for parity only.  All are on one host.             *)
(***************************************************************************)
EXTENDS Collector, TLC

CONSTANTS azure, mirror, parity,                             \* sources
          docsHost, elsewhere,
          p1, p2, garbled, index, shorter, nothing,                 \* page contents
          gpt, grok, mini, large                             \* models

MCHostOf == [s \in Sources |-> docsHost]

MCTask == [s \in Sources |->
    CASE s = azure -> [normalizer |-> "azure-retail-prices", kind |-> "pricing-api", declared |-> {},
                       namespace |-> "azure-openai", fixed_provider |-> None,
                       paginate |-> TRUE, role |-> "content"]
      [] s = mirror -> [normalizer |-> "mistral-models-index-v1", kind |-> "docs-html",
                        declared |-> {"added", "removed"}, namespace |-> "mistral",
                        fixed_provider |-> None, paginate |-> FALSE, role |-> "content"]
      [] OTHER -> [normalizer |-> None, kind |-> "docs-html", declared |-> {},
                   namespace |-> "mistral", fixed_provider |-> None,
                   paginate |-> FALSE, role |-> "parity"]]

Meter(id, tier, value) ==
    [id |-> id, primary |-> 0, start |-> 0, value |-> value,
     dimension |-> Dimension(gpt, "input", tier, "global")]

Heading(level, slug) ==
    [heading |-> TRUE, level |-> level, slug |-> slug, text |-> slug, model |-> None]
Text(text, model) == [heading |-> FALSE, level |-> 0, slug |-> None, text |-> text, model |-> model]

(* p2 outranks p1 on one price and has one of its own; the index loses a   *)
(* model, one that no alias maps.                                          *)
MCRaw(c) ==
    CASE c = p1      -> {Meter(1, "standard", "low"), Meter(2, "batch", "low")}
      [] c = p2      -> {Meter(0, "standard", "high"), Meter(3, "flex", "low")}
      [] c = index   -> [text |-> "both", imports |-> <<large, mini>>]
      [] c = shorter -> [text |-> "one", imports |-> <<large>>]
      [] c = nothing -> {}
      [] OTHER       -> None

MCNumbered(key, n) == [key EXCEPT ![Len(key)] = @ \o "-" \o ToString(n)]

MCCanonical == ("azure-openai" :> (gpt :> gpt))
               @@ ("mistral" :> (large :> large))
MCPrefixOf(ref) == None
MCPrefixMap == ("openrouter" :> <<>>) @@ ("litellm" :> <<>>)

Alone(contents) == {<<c>> : c \in contents}
MCChains == [s \in Sources |-> CASE s = azure  -> {<<p1>>, <<p1, p2>>, <<p1, p2, p1>>, <<p2, garbled>>}
                                 [] s = mirror -> Alone({index, shorter})
                                 [] OTHER      -> Alone({index})]

PlanOfTwo == <<<<azure>>, <<mirror, parity>>>>

-----------------------------------------------------------------------------
(* The normalizers over bounded inputs, against what they are for.         *)

(* The loop of the price normalizers, against what it is for: whatever the *)
(* order of the meters, it ends with the same prices.                      *)
SomeMeters(n) ==
    [1..n -> [id : 1..2, primary : 0..1, start : 0..1, value : {None, "low", "high"},
              dimension : {None, Dimension(gpt, "input", "standard", "global")}]]

ASSUME PricesAreOrderFree ==
    \A n \in 0..2 : \A meters \in SomeMeters(n) :
        TiesAgree({meters[i] : i \in 1..n}) =>
            PriceLoop(meters) = PriceSnapshot({meters[i] : i \in 1..n})

(* Every heading that opens a section has one item of the docs snapshot,   *)
(* with the texts below it, however headings repeat and close each other.  *)
SomeBlocks == {Heading(2, "older"), Heading(3, "grok"), Heading(3, "mini"), Heading(1, "end"),
               Heading(4, "aside"), Text("t1", grok), Text("t2", mini)}

ASSUME HeadingsAreKept ==
    \A n \in 1..4, id \in {"xai-changelog-v1", "azure-whats-new-v1"} :
        \A blocks \in [1..n -> SomeBlocks] :
            Openers(Rules(id), blocks) # {} /\ KeysApart(HeadingSlugs(blocks), n) =>
                HeadingsKept(Rules(id), blocks,
                             ExtractDocs(Rules(id), [text |-> "", blocks |-> blocks, imports |-> <<>>]))

(* And every day of a changelog that is kept as lines.                     *)
Line(mark, slug, text) == [mark |-> mark, slug |-> slug, text |-> text, model |-> None]

SomeLines == {Line("month", "may", "May"), Line("month", "june", "June"), Line("day", "may-2", "May 2"),
              Line("text", None, "t1"), Line("text", None, "t2")}

ASSUME DaysAreKept ==
    \A n \in 1..5 : \A lines \in [1..n -> SomeLines] :
        Days(lines) # {} /\ KeysApart(DateSlugs(lines), n) =>
            DaysKept(lines, ExtractDocs(Rules("openai-changelog-v1"),
                                        [text |-> "", blocks |-> lines, imports |-> <<>>]))

(* One incident is one row, whichever feed tells of it: all but the AWS    *)
(* feed, which has codes, agree on what is over.                           *)
ASSUME FeedsAgree ==
    \A status \in {"investigating", "monitoring", "resolved"}, earlier \in {"monitoring", "degraded"} :
        LET row == "i" :> [status |-> status, components |-> {}, updated_at |-> 1]
            code == IF status = "resolved" THEN "0" ELSE status
        IN  /\ StatuspageSnapshot(<<[id |-> "i", status |-> earlier, components |-> {}, updated_at |-> 0],
                                    [id |-> "i", status |-> status, components |-> {}, updated_at |-> 1]>>) = row
            /\ AtomSnapshot(<<[id |-> "i", labels |-> <<status, earlier>>, updated |-> 1]>>) = row
            /\ MistralStatusSnapshot(<<[id |-> "i", status |-> status, services |-> {}, times |-> <<1, 0>>]>>)
                 = row
            /\ AwsHealthSnapshot(<<[bedrock |-> TRUE, arn |-> "i", status |-> code, service_name |-> None,
                                    date |-> 1]>>) = row
            /\ RssStatus({status, "restored"}) = "resolved"
            /\ RssStatus({"restored"}) \in Resolved

(* A LiteLLM file speaks of every cost once; its sample speaks of none. *)
ASSUME CostsAreApart ==
    \A fields \in SUBSET DOMAIN CostFields :
        LET spec == [f \in fields |-> f]
        IN  /\ Cardinality(DOMAIN LitellmSnapshot(gpt :> spec @@ grok :> spec)) = 2 * Cardinality(fields)
            /\ DOMAIN LitellmSnapshot("sample_spec" :> spec) = {}
=============================================================================
