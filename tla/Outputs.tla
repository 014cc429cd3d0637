------------------------------- MODULE Outputs -------------------------------
(***************************************************************************)
(* What becomes of a delta: the alias index (aliases.py) resolves the      *)
(* source's own name for a model, and build_outputs (events.py) turns the  *)
(* delta into a candidate event, by its identity key, or into an item of   *)
(* the exceptions queue.                                                   *)
(***************************************************************************)
EXTENDS Naturals, Sequences, Diff

CONSTANTS Canonical,     \* registry/model-aliases.json: namespace -> its ids -> canonical id
          PrefixOf(_),   \* the part of an id before its "/", None for a bare id
          PrefixMap      \* OPENROUTER_ and LITELLM_PREFIX_TO_PROVIDER, by namespace

CanonicalFor(ns, ref) ==
    IF ns \in DOMAIN Canonical /\ ref \in DOMAIN Canonical[ns] THEN Canonical[ns][ref] ELSE None

(* NAMESPACE_PRECEDENCE: of the namespaces a model's entry has, the first. *)
Precedence == <<"openai", "anthropic", "google-gemini", "google-vertex", "mistral",
                "xai", "aws-bedrock", "azure-openai">>

(* DIRECT_NAMESPACE_TO_PROVIDER: the two Google namespaces are one provider. *)
DirectProvider(ns) ==
    IF ns \in {"google-gemini", "google-vertex"} THEN "google"
    ELSE IF ns \in {Precedence[n] : n \in DOMAIN Precedence} THEN ns ELSE None

AliasesOf(canonical) ==
    {ns \in DOMAIN Canonical : \E ref \in DOMAIN Canonical[ns] : Canonical[ns][ref] = canonical}

ProviderFromEntry(canonical) ==
    LET present == {n \in DOMAIN Precedence : Precedence[n] \in AliasesOf(canonical)}
    IN  IF present = {} THEN None
        ELSE DirectProvider(Precedence[CHOOSE n \in present : \A o \in present : n <= o])

(* The vendor or runtime a prefixed id names; a bare LiteLLM id goes by    *)
(* its alias entry, and a provider's own namespace names the provider.     *)
ProviderFor(ns, ref) ==
    IF ns \notin {"openrouter", "litellm"} THEN DirectProvider(ns)
    ELSE IF PrefixOf(ref) # None
      THEN IF PrefixOf(ref) \in DOMAIN PrefixMap[ns] THEN PrefixMap[ns][PrefixOf(ref)] ELSE None
      ELSE IF ns = "litellm" /\ CanonicalFor(ns, ref) # None
             THEN ProviderFromEntry(CanonicalFor(ns, ref))
             ELSE None

-----------------------------------------------------------------------------
(* A task is a source's line in COLLECTORS: its snapshot kind, the changes *)
(* its extraction rule declares, its alias namespace or pinned provider.   *)
Resolution(task, ref) ==
    IF task.fixed_provider # None
      THEN [canonical |-> None, provider |-> task.fixed_provider]
      ELSE [canonical |-> CanonicalFor(task.namespace, ref),
            provider  |-> ProviderFor(task.namespace, ref)]

ModelScoped(delta) == delta.type \notin {Unclassified, "outage.started", "outage.resolved"}

(* The kind of the exceptions item a delta becomes, None when it mints. *)
ExceptionKind(task, delta) ==
    LET r == Resolution(task, delta.subject)
    IN  CASE delta.type = Unclassified                    -> Unclassified
          [] ModelScoped(delta) /\ r.canonical = None     -> "alias-unmapped"
          [] /\ ModelScoped(delta) /\ r.canonical # None
             /\ r.provider = None                         -> "provider-unmapped"
          [] OTHER                                        -> None

(* The price path names the direction, which all the rows of a delta share. *)
FieldPath(delta) ==
    IF delta.type = "price.changed"
      THEN <<delta.field, (CHOOSE k \in delta.items : TRUE).direction>>
      ELSE <<delta.field>>

(* The identity key, what the event id is a hash of: a model event speaks  *)
(* of the canonical model, whatever its source calls it.                   *)
Key(task, delta) ==
    LET r == Resolution(task, delta.subject)
    IN  [type     |-> delta.type,
         provider |-> r.provider,
         subject  |-> IF ModelScoped(delta) THEN r.canonical ELSE delta.subject,
         path     |-> FieldPath(delta),
         old      |-> IF delta.type = "model.deprecated" THEN r.canonical ELSE delta.old,
         new      |-> IF delta.type = "model.released" THEN r.canonical ELSE delta.new]

(* build_outputs: each delta's note is the key of the event it mints, two  *)
(* deltas with one key being one event, or the item of the queue.          *)
EventsOf(task, deltas) ==
    {Key(task, d) : d \in {e \in deltas : ExceptionKind(task, e) = None}}

UnmappedOnly(task, deltas) ==
    {[kind |-> ExceptionKind(task, d), delta |-> d] :
        d \in {e \in deltas : ExceptionKind(task, e) \notin {None, Unclassified}}}

ExceptionsOf(task, deltas) ==
    {[kind |-> ExceptionKind(task, d), delta |-> d] :
        d \in {e \in deltas : ExceptionKind(task, e) # None}}

NoteOf(task, delta) ==
    IF ExceptionKind(task, delta) = None THEN Key(task, delta)
    ELSE [kind |-> ExceptionKind(task, delta), delta |-> delta]
=============================================================================
