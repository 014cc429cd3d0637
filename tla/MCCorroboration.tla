-------------------------- MODULE MCCorroboration --------------------------
(***************************************************************************)
(* Small instances of Corroboration: one source per class that matters to  *)
(* independence (a docs page, a models API, an aggregator) and two feeds   *)
(* of one status page, with the traits registry/sources.json pins.         *)
(***************************************************************************)
EXTENDS Corroboration, TLC

CONSTANTS docs, api, mirror, page1, page2, v1

MCTrait ==
  [s \in Registered |->
     CASE s = docs -> [class |-> "provider-docs", lineage |-> "provider-primary",
                       corroborationOnly |-> FALSE]
       [] s = api -> [class |-> "official-api", lineage |-> "provider-primary",
                      corroborationOnly |-> FALSE]
       [] s = mirror -> [class |-> "third-party-aggregator",
                         lineage |-> "third-party-aggregator",
                         corroborationOnly |-> TRUE]
       [] OTHER -> [class |-> "statuspage", lineage |-> "provider-primary",
                    corroborationOnly |-> FALSE]]

MCCovers ==
  [s \in Sources |-> IF s \in {page1, page2} THEN IncidentTracks
                     ELSE LimitTracks \union ModelTracks]

(* The two feeds of the status page have one collector, and a docs page    *)
(* and its mirror another.                                                 *)
MCCollectors ==
  {SelectSeq(c, LAMBDA s : s \in Registered) :
     c \in {<<docs, mirror>>, <<api>>, <<page1, page2>>}} \ {<<>>}

(* At the seeding run a limit has its first value, every model is listed   *)
(* and no incident is open.                                                *)
MCBaseline ==
  [t \in Tracks |-> CASE t \in LimitTracks -> v1
                      [] t \in ModelTracks -> t
                      [] OTHER -> None]

(* Incidents are interchangeable, and so are the values but the first.     *)
MCSymmetry == Permutations(IncidentTracks) \union Permutations(Values \ {v1})

============================================================================
