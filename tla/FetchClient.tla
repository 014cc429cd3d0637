----------------------------- MODULE FetchClient -----------------------------
(***************************************************************************)
(* fetchkit: the one HTTP client of every collector (client.py, robots.py, *)
(* cache.py, registry.py).  A fetch passes the registry's refusals and the *)
(* host's robots.txt, sends the request with the validators it has of the  *)
(* source, retries what is transient, and hands over a body, "not          *)
(* modified" or an exception.  The validator cache is a directory and      *)
(* outlives the process; everything else is the process's memory.          *)
(*                                                                         *)
(* A page is its content, and its entity tag names the content.  The       *)
(* provider may publish at any moment.  Waiting (crawl delay, backoff) is  *)
(* left out: it changes when a request is sent, and nothing else.          *)
(***************************************************************************)
EXTENDS Naturals, Sequences, FiniteSets

CONSTANTS
    Sources,         \* the registered sources
    HostOf,          \* source -> the host of its URL
    Registered,      \* the hosts of the registry
    ExcludedHosts,   \* ... and those never to be contacted
    Excluded,        \* the sources whose record says excluded, or has no method
    Rulings,         \* what a robots.txt may rule: the sets of sources it allows
    EveryFetch,      \* the sources whose robots_recheck asks for it at each fetch
    Hosts,           \* the hosts a redirect may lead to
    Large,           \* page contents over the task's size guard
    Chains,          \* source -> the page chains its provider may publish
    Blank,           \* the page after the last one
    None,
    MaxAttempts,     \* max_attempts of the client
    MaxPublications  \* bound: how often providers publish

VARIABLES
    server,          \* source -> the pages its provider publishes now
    published,       \* how often a provider published, for the bound
    validators,      \* the cache directory: source -> the tag kept, or None
    robots,          \* host -> the sources its cached robots.txt allows, or None
    call,            \* None, or the fetch under way
    answer           \* None, or what the fetch returned or raised

clientVars == <<server, published, validators, robots, call, answer>>

Contents == UNION {{pages[n] : n \in DOMAIN pages} : pages \in UNION {Chains[s] : s \in Sources}}

Statuses == {"2xx", "304", "revoking", "transient", "unavailable", "final"}
Signs == {"none", "mitigated", "challenge-page"}
Outcomes == {"body", "not-modified", "revoked", "alert", "error"}
Links == {"end", "page", "stray"}

(* The fetches there may be, and what they may return. *)
Calls == [source : Sources, page : Nat \ {0}, link : Links, stage : {"gates", "request", "build"},
          attempts : 0..(MaxAttempts - 1), content : Contents \cup {Blank, None}]
Answers == [source : Sources, page : Nat \ {0}, outcome : Outcomes,
            content : Contents \cup {Blank, None}, next : Links]
Questions == [source : Sources, page : Nat \ {0}, content : Contents \cup {Blank, None}]

(* A chain has its registered page, and None is nothing else. *)
ASSUME ClientAssumption ==
    /\ HostOf \in [Sources -> Registered]
    /\ Rulings \subseteq SUBSET Sources
    /\ \A s \in Sources : \A pages \in Chains[s] :
          pages # <<>> /\ pages \in Seq({pages[n] : n \in DOMAIN pages})
    /\ MaxAttempts \in Nat \ {0} /\ MaxPublications \in Nat

ASSUME NoneAssumption ==
    None \notin Contents \cup {Blank} \cup Calls \cup Answers \cup Questions

PageAt(s, n) == IF n <= Len(server[s]) THEN server[s][n] ELSE Blank

Servers == {f \in [Sources -> UNION {Chains[s] : s \in Sources}] :
               \A s \in Sources : f[s] \in Chains[s]}

ClientInit ==
    /\ server \in Servers
    /\ published = 0
    /\ validators = [s \in Sources |-> None]
    /\ robots = [h \in Registered |-> None]
    /\ call = None
    /\ answer = None

(* The provider publishes: pages change, come and go. *)
Publish(s) ==
    /\ published < MaxPublications
    /\ published' = published + 1
    /\ \E pages \in Chains[s] \ {server[s]} : server' = [server EXCEPT ![s] = pages]
    /\ UNCHANGED <<validators, robots, call, answer>>

-----------------------------------------------------------------------------
(* The fetch ends: with a result, or with an exception for the caller.     *)
(* "error" is an exception that is no FetchKitError.                       *)
End(outcome, content, next) ==
    /\ call' = None
    /\ answer' = [source |-> call.source, page |-> call.page, outcome |-> outcome,
                  content |-> content, next |-> next]

Fails(outcome) == End(outcome, None, "end")

(* fetch() is called for the registered page, or for the continuation the  *)
(* page before linked to; "link" says whether that stays on the endpoint,  *)
(* and, once the page is read, how it goes on.                             *)
Ask(s, n, link) ==
    /\ call = None /\ answer = None
    /\ call' = [source |-> s, page |-> n, link |-> link, stage |-> "gates",
                attempts |-> 0, content |-> None]
    /\ UNCHANGED <<server, published, validators, robots, answer>>

At(stage) == call # None /\ call.stage = stage

RefusedByRegistry(s) == s \in Excluded \/ HostOf[s] \in ExcludedHosts

(* Before any I/O: an excluded source, or a continuation off the endpoint. *)
Refused == RefusedByRegistry(call.source) \/ call.link = "stray"

Refuse ==
    /\ At("gates") /\ Refused
    /\ Fails("alert")
    /\ UNCHANGED <<server, published, validators, robots>>

MustFetchRobots(s) == robots[HostOf[s]] = None \/ s \in EveryFetch

(* The verdict for this source, by the file that is in the cache now. *)
Judge(allowed) ==
    IF call.source \in allowed
      THEN call' = [call EXCEPT !.stage = "request"] /\ answer' = answer
      ELSE Fails("alert")

RobotsCached ==
    /\ At("gates") /\ ~ Refused /\ ~ MustFetchRobots(call.source)
    /\ Judge(robots[HostOf[call.source]])
    /\ UNCHANGED <<server, published, validators, robots>>

(* Read: it allows some of the sources, all of them when there is no such  *)
(* file (4xx).                                                             *)
RobotsRead ==
    /\ At("gates") /\ ~ Refused /\ MustFetchRobots(call.source)
    /\ \E allowed \in Rulings :
          /\ robots' = [robots EXCEPT ![HostOf[call.source]] = allowed]
          /\ Judge(allowed)
    /\ UNCHANGED <<server, published, validators>>

(* Not to be had (5xx or no connection): refused, and the cache is kept. *)
RobotsUnreachable ==
    /\ At("gates") /\ ~ Refused /\ MustFetchRobots(call.source)
    /\ Fails("alert")
    /\ UNCHANGED <<server, published, validators, robots>>

-----------------------------------------------------------------------------
(* One attempt; another one after it, or the fetch fails. *)
RetryOnceMore ==
    IF call.attempts >= MaxAttempts
      THEN Fails("alert")
      ELSE call' = [call EXCEPT !.attempts = @ + 1] /\ answer' = answer

RetryOrFail ==
    IF call.attempts + 1 >= MaxAttempts
      THEN Fails("alert")
      ELSE call' = [call EXCEPT !.attempts = @ + 1] /\ answer' = answer

(* TransportError *)
Unreached ==
    /\ At("request")
    /\ RetryOrFail
    /\ UNCHANGED <<server, published, validators, robots>>

(* looks_like_bot_challenge: 403 and 429, the mark of a mitigating proxy   *)
(* on any status, a challenge page on a 503.                               *)
LooksLikeBotChallenge(r) ==
    \/ r.status = "revoking"
    \/ r.sign = "mitigated"
    \/ r.status = "unavailable" /\ r.sign = "challenge-page"

(* The registered page is asked for with the validators kept of it, and a  *)
(* provider answers 304 only to one that still holds.  A page that says it *)
(* is a bot challenge comes with any status.                               *)
ConditionalOnAnyPage == validators[call.source] # None

Conditional == call.page = 1 /\ validators[call.source] # None
Responses ==
    {r \in [status : Statuses, sign : Signs] :
        r.status = "304" => Conditional /\ validators[call.source] = PageAt(call.source, 1)}

Revoked ==
    /\ At("request")
    /\ \E r \in Responses : LooksLikeBotChallenge(r)
    /\ Fails("revoked")
    /\ UNCHANGED <<server, published, validators, robots>>

NotModified ==
    /\ At("request")
    /\ \E r \in Responses : r.status = "304" /\ ~ LooksLikeBotChallenge(r)
    /\ Fails("not-modified")
    /\ UNCHANGED <<server, published, validators, robots>>

(* TRANSIENT_STATUSES, 503 without a challenge among them. *)
Transient ==
    /\ At("request")
    /\ \E r \in Responses : r.status \in {"transient", "unavailable"} /\ ~ LooksLikeBotChallenge(r)
    /\ RetryOrFail
    /\ UNCHANGED <<server, published, validators, robots>>

FinalStatus ==
    /\ At("request")
    /\ \E r \in Responses : r.status = "final" /\ ~ LooksLikeBotChallenge(r)
    /\ Fails("alert")
    /\ UNCHANGED <<server, published, validators, robots>>

Served == At("request") /\ \E r \in Responses : r.status = "2xx" /\ ~ LooksLikeBotChallenge(r)

(* Over the size guard, or redirected over a host that is not cleared. *)
Cleared(hops) == hops \subseteq Registered \ ExcludedHosts

BodyRejected ==
    /\ Served
    /\ \/ PageAt(call.source, call.page) \in Large
       \/ \E hops \in SUBSET Hosts : ~ Cleared(hops)
    /\ Fails("alert")
    /\ UNCHANGED <<server, published, validators, robots>>

(* A page with one after it links to it, or to somewhere else altogether. *)
LinksOf(s, n) == IF n < Len(server[s]) THEN {"page", "stray"} ELSE {"end"}

(* The validators kept of the source then: those of the response, if it    *)
(* has any, for the registered page, and unchanged for a continuation.     *)
RememberedOfAnyPage(c) == {c, None}

Remembered(c) == IF call.page = 1 THEN {c, None} ELSE {validators[call.source]}

(* Accepted: the validators are stored before anything is made of the body.*)
Accept ==
    /\ Served
    /\ LET c == PageAt(call.source, call.page)
       IN  /\ c \notin Large
           /\ \E hops \in SUBSET Hosts : Cleared(hops)
           /\ \E link \in LinksOf(call.source, call.page) :
                 call' = [call EXCEPT !.stage = "build", !.content = c, !.link = link]
           /\ \E tag \in Remembered(c) : validators' = [validators EXCEPT ![call.source] = tag]
    /\ UNCHANGED <<server, published, robots, answer>>

(* The body, with its manifest. *)
Deliver ==
    /\ At("build")
    /\ End("body", call.content, call.link)
    /\ UNCHANGED <<server, published, validators, robots>>

(* The truncation rule cannot read the body, or a file cannot be written. *)
BuildFails ==
    /\ At("build")
    /\ Fails("error")
    /\ UNCHANGED <<server, published, validators, robots>>

TakeAnswer == /\ answer # None
              /\ answer' = None
              /\ UNCHANGED <<server, published, validators, robots, call>>

(* The process ends: what it kept in memory is gone. *)
Exit == /\ call' = None /\ answer' = None
        /\ robots' = [h \in Registered |-> None]
        /\ UNCHANGED <<server, published, validators>>

Answering == Refuse \/ RobotsCached \/ RobotsRead \/ RobotsUnreachable \/ Unreached
             \/ Revoked \/ NotModified \/ Transient \/ FinalStatus \/ BodyRejected \/ Accept
             \/ Deliver \/ BuildFails

-----------------------------------------------------------------------------
(* The fetches of any caller, one at a time.  *)
ClientNext ==
    \/ \E s \in Sources : Publish(s) \/ \E n \in Nat \ {0}, link \in Links : Ask(s, n, link)
    \/ Answering
    \/ TakeAnswer
    \/ Exit

ClientSpec == ClientInit /\ [][ClientNext]_clientVars

ClientTypeOK ==
    /\ server \in Servers
    /\ published \in 0..MaxPublications
    /\ validators \in [Sources -> Contents \cup {Blank, None}]
    /\ robots \in [Registered -> (SUBSET Sources) \cup {None}]
    /\ call \in Calls \cup {None}
    /\ answer \in Answers \cup {None}

(* The fetch as a reading at one moment: the page is read, and remembered, *)
(* when its body is accepted.                                              *)
Reads == INSTANCE PageReads WITH
    Chains <- UNION {Chains[s] : s \in Sources},
    remembered <- validators,
    asked <- IF call = None THEN None
             ELSE [source |-> call.source, page |-> call.page, content |-> call.content]

ReadsSpec == Reads!Spec
=============================================================================
