---------------------------- MODULE Independence ----------------------------
(***************************************************************************)
(* Source independence, identity keys and time windows: the pure rules of  *)
(* tools/linter/llmreport_linter/independence.py, shared by the collector  *)
(* engine, the verifier and the store linter.                              *)
(*                                                                         *)
(* A source is known by the traits the registry pins for it.  An identity  *)
(* key is a record [subject, type, old, new]: `subject' stands for the     *)
(* (provider, canonical model, normalized field path) triple, and hash8 of *)
(* a key is the key itself (no two keys are taken to share their hash).    *)
(* Time is a natural number; every window is a constant of that unit.      *)
(***************************************************************************)
EXTENDS Integers

CONSTANTS
  Sources,          \* every source id an evidence item may carry
  Registered,       \* the sources the registry knows
  Trait,            \* registry record of each registered source
  AttachWindow,     \* 72h
  DampingDefault,   \* 48h: documents and prices
  DampingStatus,    \* 24h: status pages
  None              \* JSON null

Classes ==
  {"provider-docs", "official-api", "statuspage", "third-party-aggregator",
   "policy-page", "own-probe"}

Lineages == {"provider-primary", "third-party-aggregator", "own-probe"}

SourceTrait ==
  [class: Classes, lineage: Lineages, corroborationOnly: BOOLEAN]

ASSUME RegistryAssumption ==
  /\ Registered \subseteq Sources
  /\ Trait \in [Registered -> SourceTrait]

ASSUME WindowAssumption ==
  /\ AttachWindow \in Nat /\ DampingDefault \in Nat /\ DampingStatus \in Nat
  /\ 0 < DampingStatus
  /\ DampingStatus <= DampingDefault
  /\ DampingDefault <= AttachWindow

-----------------------------------------------------------------------------
(* Source independence.                                                    *)

(* Fault: the lineage the registry pins is taken as it stands.             *)
PinnedLineage(s) == Trait[s].lineage

EffectiveLineage(s) ==
  LET t == Trait[s]
  IN  IF \/ t.lineage = "third-party-aggregator"
         \/ t.corroborationOnly
         \/ t.class = "provider-docs"
      THEN "provider-docs"
      ELSE IF t.lineage = "own-probe" \/ t.class = "own-probe"
           THEN "own-probe"
           ELSE t.class

Independent(a, b) ==
  /\ a \in Registered /\ b \in Registered
  /\ Trait[a].class # Trait[b].class
  /\ EffectiveLineage(a) # EffectiveLineage(b)

AnyIndependent(S, T) == \E a \in S, b \in T : Independent(a, b)

AbsenceConfirmingClasses == {"provider-docs", "own-probe"}

ConfirmsAbsence(s) ==
  s \in Registered /\ Trait[s].class \in AbsenceConfirmingClasses

-----------------------------------------------------------------------------
(* Identity keys.                                                          *)

StatusTypes == {"outage.started", "outage.resolved"}

EventTypes ==
  StatusTypes \union
  {"model.released", "model.deprecated", "model.retired", "limits.changed"}

ReversalType(type) ==
  CASE type = "model.released"   -> "model.deprecated"
    [] type = "model.deprecated" -> "model.released"
    [] type = "model.retired"    -> "model.released"
    [] OTHER                     -> type

InverseKey(k) ==
  [subject |-> k.subject, type |-> ReversalType(k.type),
   old |-> k.new, new |-> k.old]

PartialKey(k) == <<k.subject, k.type>>

DampingWindow(type) ==
  IF type \in StatusTypes THEN DampingStatus ELSE DampingDefault

=============================================================================
