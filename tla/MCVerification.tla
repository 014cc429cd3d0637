--------------------------- MODULE MCVerification --------------------------
(***************************************************************************)
(* Small instances of Verification: one source of each class that the      *)
(* rules tell apart, with the traits registry/sources.json pins.           *)
(***************************************************************************)
EXTENDS Verification, TLC

CONSTANTS docs, api, mirror, probe

MCTrait ==
  [s \in Registered |->
     CASE s = docs -> [class |-> "provider-docs", lineage |-> "provider-primary",
                       corroborationOnly |-> FALSE]
       [] s = api -> [class |-> "official-api", lineage |-> "provider-primary",
                      corroborationOnly |-> FALSE]
       [] s = mirror -> [class |-> "third-party-aggregator",
                         lineage |-> "third-party-aggregator",
                         corroborationOnly |-> TRUE]
       [] OTHER -> [class |-> "own-probe", lineage |-> "own-probe",
                    corroborationOnly |-> FALSE]]

Statement(s) == [source |-> s, absence |-> FALSE, type |-> "limits.changed"]

Absence(s) == [source |-> s, absence |-> TRUE, type |-> "model.deprecated"]

(* A limit stated by the docs page, and a model gone from the API's list.  *)
MCCandidates == {Statement(docs), Absence(api)}

(* A limit stated by the docs page, or by the API itself.                  *)
MCStatements == {Statement(docs), Statement(api)}

(* Branches of collectors are interchangeable.                             *)
MCSymmetry == Permutations(Collects)

=============================================================================
