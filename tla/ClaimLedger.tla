---------------------------- MODULE ClaimLedger -----------------------------
(***************************************************************************)
(* What the event store promises whoever reads it, without sources,        *)
(* evidence or files.  A claim says that something changed (its key) at    *)
(* some time.  Claims are immutable, and one key is claimed at most once   *)
(* per window, the claims of a key in the order of their times.  A mark    *)
(* says that at some time inside the window of a claim somebody supported  *)
(* it, took it back or contradicted it; and a claim once taken back never  *)
(* gains support any more.  Claims and marks may be entered late, never    *)
(* early.                                                                  *)
(***************************************************************************)
EXTENDS Integers

CONSTANT Window   \* how long a claim stays open

VARIABLES
  clock,
  claims,       \* claim id -> [key, at]
  supported,    \* <<id, at>>: a second, independent source confirmed it
  damped,       \* <<id, at>>: the change was taken back
  held          \* <<id, at>>: a source contradicted it

ledgerVars == <<clock, claims, supported, damped, held>>

(* Something observed at this time bears on the claim.                     *)
Bears(id, at) ==
  /\ id \in DOMAIN claims
  /\ at <= clock
  /\ claims[id].at <= at
  /\ at - claims[id].at < Window

Init ==
  /\ clock = 0
  /\ claims = [id \in {} |-> id]
  /\ supported = {} /\ damped = {} /\ held = {}

Advance ==
  /\ clock' \in Nat /\ clock < clock'
  /\ UNCHANGED <<claims, supported, damped, held>>

Open(id) ==
  /\ id \notin DOMAIN claims
  /\ DOMAIN claims' = DOMAIN claims \union {id}
  /\ claims'[id].at <= clock
  /\ \A old \in DOMAIN claims :
       /\ claims'[old] = claims[old]
       /\ claims[old].key = claims'[id].key =>
            claims[old].at + Window <= claims'[id].at
  /\ UNCHANGED <<clock, supported, damped, held>>

Support(id, at) ==
  /\ Bears(id, at)
  /\ \A mark \in damped : mark[1] # id
  /\ supported' = supported \union {<<id, at>>}
  /\ UNCHANGED <<clock, claims, damped, held>>

Damp(id, at) ==
  /\ Bears(id, at)
  /\ damped' = damped \union {<<id, at>>}
  /\ UNCHANGED <<clock, claims, supported, held>>

Hold(id, at) ==
  /\ Bears(id, at)
  /\ held' = held \union {<<id, at>>}
  /\ UNCHANGED <<clock, claims, supported, damped>>

Next ==
  \/ Advance
  \/ \E id \in DOMAIN claims' : Open(id)
  \/ \E id \in DOMAIN claims : \E at \in 0 .. clock :
       Support(id, at) \/ Damp(id, at) \/ Hold(id, at)

Spec == Init /\ [][Next]_ledgerVars

=============================================================================
