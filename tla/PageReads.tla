------------------------------ MODULE PageReads ------------------------------
(***************************************************************************)
(* What fetchkit's client promises a collector: whatever robots files,     *)
(* refusals, retries and redirects happen on the way, one fetch of a page  *)
(* either reads the page at ONE moment between the question and the        *)
(* answer, or truthfully says that the registered page is still the one    *)
(* last read, or fails; and what the client remembers of a source is the   *)
(* registered page as it was last read, never a later page of its chain,   *)
(* and never changed by a fetch that read nothing.                         *)
(***************************************************************************)
EXTENDS Naturals, Sequences

CONSTANTS Sources, Chains, Blank, None

VARIABLES server,       \* source -> the pages its provider publishes now
          remembered,   \* source -> the first page as last read, None if not known
          asked,        \* None, or the fetch under way
          answer        \* None, or the answer waiting for the caller

vars == <<server, remembered, asked, answer>>

(* A continuation past the end of a chain that got shorter is an empty page. *)
PageAt(s, n) == IF n <= Len(server[s]) THEN server[s][n] ELSE Blank

Init == /\ server \in [Sources -> Chains]
        /\ remembered = [s \in Sources |-> None]
        /\ asked = None
        /\ answer = None

(* The provider publishes: anything, at any time. *)
Publish(s) == /\ \E pages \in Chains : server' = [server EXCEPT ![s] = pages]
              /\ UNCHANGED <<remembered, asked, answer>>

(* Any page of the chain: nobody knows how long it is. *)
Ask(s) == /\ asked = None /\ answer = None
          /\ asked' # None /\ asked'.page \in Nat \ {0}
          /\ asked' = [source |-> s, page |-> asked'.page, content |-> None]
          /\ UNCHANGED <<server, remembered, answer>>

(* The page is read, and remembered if it is the registered one; a         *)
(* provider that sends no validator leaves nothing to remember.            *)
Read == /\ asked # None /\ asked.content = None
        /\ LET s == asked.source
               c == PageAt(s, asked.page)
           IN  /\ asked' = [asked EXCEPT !.content = c]
               /\ IF asked.page = 1
                    THEN remembered' \in {[remembered EXCEPT ![s] = v] : v \in {c, None}}
                    ELSE remembered' = remembered
        /\ UNCHANGED <<server, answer>>

Answer(outcome, content) ==
    /\ asked' = None
    /\ \E more \in {"end", "page", "stray"} :
          answer' = [source |-> asked.source, page |-> asked.page, outcome |-> outcome,
                     content |-> content, next |-> more]
    /\ UNCHANGED <<server, remembered>>

Return == /\ asked # None /\ asked.content # None
          /\ Answer("body", asked.content)

NotModified == /\ asked # None /\ asked.content = None /\ asked.page = 1
               /\ remembered[asked.source] = PageAt(asked.source, 1)
               /\ Answer("not-modified", None)

Fail == /\ asked # None
        /\ \E outcome \in {"revoked", "alert", "error"} : Answer(outcome, None)

Take == /\ answer # None
        /\ answer' = None
        /\ UNCHANGED <<server, remembered, asked>>

(* The process is killed: only what is remembered survives. *)
Stop == /\ asked' = None /\ answer' = None
        /\ UNCHANGED <<server, remembered>>

Next == \/ \E s \in Sources : Publish(s) \/ Ask(s)
        \/ Read \/ Return \/ NotModified \/ Fail \/ Take \/ Stop

Spec == Init /\ [][Next]_vars
=============================================================================
