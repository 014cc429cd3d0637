------------------------------ MODULE Standing ------------------------------
(***************************************************************************)
(* What a reader of the tracker relies on for one event, without branches, *)
(* files or times of record: what was said of it, how it stands, and where *)
(* it may be shown.  It stands as the last ruling says.  The verifier      *)
(* speaks only when nobody has, and only to confirm; people may rule at    *)
(* any time.  A doubt holds the event back until there is a ruling, and    *)
(* nothing is shown that is in doubt or retracted.                         *)
(***************************************************************************)
EXTENDS Sequences

CONSTANTS
  ConfirmedOnly,   \* surfaces that never show an unconfirmed event
  AnyStatus        \* the other surfaces

VARIABLES
  said,     \* the verdicts on the event: [by, verdict]
  ruling,   \* how the event stands
  held,     \* is it in doubt?
  shown     \* the surfaces that have shown it

standingVars == <<said, ruling, held, shown>>

Init ==
  /\ said = <<>>
  /\ ruling = "unconfirmed"
  /\ held = FALSE
  /\ shown = {}

Says(who, what) == said' = Append(said, [by |-> who, verdict |-> what])

(* A ruling settles the doubts that it could know of, and raises none.     *)
Rule(who, what) ==
  /\ Says(who, what)
  /\ ruling' = IF what = "confirm" THEN "confirmed" ELSE "retracted"
  /\ held' => held
  /\ UNCHANGED shown

Confirm == said = <<>> /\ Rule("verifier", "confirm")

(* A doubt is a verdict, or a conflict that a source reports.              *)
Doubt ==
  /\ Says("review", "discrepancy") \/ UNCHANGED said
  /\ held' = TRUE
  /\ UNCHANGED <<ruling, shown>>

Show(surface) ==
  /\ ~held
  /\ ruling # "retracted"
  /\ surface \in ConfirmedOnly => ruling = "confirmed"
  /\ shown' = shown \union {surface}
  /\ UNCHANGED <<said, ruling, held>>

Next ==
  \/ Confirm
  \/ \E what \in {"confirm", "reject"} : Rule("review", what)
  \/ Doubt
  \/ \E surface \in ConfirmedOnly \union AnyStatus : Show(surface)

Spec == Init /\ [][Next]_standingVars

=============================================================================
