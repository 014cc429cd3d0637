-------------------------- MODULE FetchClient_proofs --------------------------
(***************************************************************************)
(* Proofs about the fetch client: its state is well formed, and it         *)
(* implements PageReads.  Both hold of each step on its own, so that the   *)
(* collector can use them for the client inside it.                        *)
(***************************************************************************)
EXTENDS FetchClient, TLAPS

(* A fetch has content when the body was accepted, and not before; an      *)
(* answer has content when it is a body.                                   *)
ContentIsRead ==
    /\ call # None => (call.stage = "build" <=> call.content # None)
    /\ answer # None => (answer.outcome = "body" <=> answer.content # None)

ClientInv == ClientTypeOK /\ ContentIsRead

LEMMA PageContent ==
    ASSUME ClientTypeOK, NEW s \in Sources, NEW n \in Nat \ {0}
    PROVE  PageAt(s, n) \in Contents \cup {Blank}
<1>1. server[s] \in Chains[s]
  BY DEF ClientTypeOK, Servers
<1>2. server[s] \in Seq({server[s][i] : i \in DOMAIN server[s]})
  BY <1>1, ClientAssumption
<1>3. n <= Len(server[s]) => n \in DOMAIN server[s]
  BY <1>2
<1>4. QED BY <1>1, <1>3 DEF PageAt, Contents

LEMMA NotRead ==
    ASSUME ClientInv, call # None
    PROVE  /\ call \in Calls
           /\ call.stage # "build" => call.content = None
  BY DEF ClientInv, ClientTypeOK, ContentIsRead

(* The kinds of steps a fetch is made of.                                  *)
GivesUp(outcome) ==
    /\ call # None
    /\ Fails(outcome)
    /\ UNCHANGED <<server, published, validators>>
    /\ robots' \in [Registered -> (SUBSET Sources) \cup {None}]

GoesAhead ==
    /\ call # None /\ call.stage # "build"
    /\ \E stage \in {"request", call.stage}, n \in 0..(MaxAttempts - 1) :
          stage # "build" /\ call' = [call EXCEPT !.stage = stage, !.attempts = n]
    /\ UNCHANGED <<server, published, validators, answer>>
    /\ robots' \in [Registered -> (SUBSET Sources) \cup {None}]

(* Every answering step gives up, goes ahead without having read anything, *)
(* says "not modified", accepts the body or delivers it.                   *)
LEMMA Shapes ==
    ASSUME ClientInv, Answering
    PROVE  \/ \E outcome \in {"revoked", "alert", "error"} : GivesUp(outcome)
           \/ GoesAhead
           \/ NotModified \/ Accept \/ Deliver
<1>0. /\ robots \in [Registered -> (SUBSET Sources) \cup {None}]
      /\ call # None => call \in Calls
  BY DEF ClientInv, ClientTypeOK
<1>1. CASE Refuse
  BY <1>0, <1>1 DEF Refuse, At, GivesUp
<1>2. ASSUME At("gates"), NEW allowed \in SUBSET Sources, Judge(allowed),
             UNCHANGED <<server, published, validators>>,
             robots' \in [Registered -> (SUBSET Sources) \cup {None}]
      PROVE  GivesUp("alert") \/ GoesAhead
  <2>1. call \in Calls /\ call # None /\ call.stage = "gates"
    BY <1>0, <1>2 DEF At
  <2>2. CASE call.source \in allowed
    <3>1. call' = [call EXCEPT !.stage = "request"] /\ answer' = answer
      BY <1>2, <2>2 DEF Judge
    <3>2. call.attempts \in 0..(MaxAttempts - 1)
      BY <2>1 DEF Calls
    <3>3. call' = [call EXCEPT !.stage = "request", !.attempts = call.attempts]
      BY <2>1, <3>1 DEF Calls
    <3>4. QED BY <1>2, <2>1, <3>1, <3>2, <3>3 DEF GoesAhead
  <2>3. CASE call.source \notin allowed
    BY <1>2, <2>1, <2>3 DEF Judge, GivesUp
  <2>4. QED BY <2>2, <2>3
<1>3. ASSUME RobotsCached PROVE GivesUp("alert") \/ GoesAhead
  <2>1. At("gates") /\ ~ MustFetchRobots(call.source)
    BY <1>3 DEF RobotsCached
  <2>2. call.source \in Sources
    BY <1>0, <2>1 DEF At, Calls
  <2>3. HostOf[call.source] \in Registered
    BY <2>2, ClientAssumption
  <2>4. robots[HostOf[call.source]] \in SUBSET Sources
    BY <1>0, <2>1, <2>3 DEF MustFetchRobots
  <2>5. QED BY <1>0, <1>2, <1>3, <2>1, <2>4 DEF RobotsCached
<1>4. ASSUME RobotsRead PROVE GivesUp("alert") \/ GoesAhead
  <2>1. PICK allowed \in Rulings :
           /\ robots' = [robots EXCEPT ![HostOf[call.source]] = allowed]
           /\ Judge(allowed)
    BY <1>4 DEF RobotsRead
  <2>2. allowed \in SUBSET Sources
    BY <2>1, ClientAssumption
  <2>3. robots' \in [Registered -> (SUBSET Sources) \cup {None}]
    BY <1>0, <2>1, <2>2
  <2>4. QED BY <1>2, <1>4, <2>1, <2>2, <2>3 DEF RobotsRead
<1>5. CASE RobotsUnreachable
  BY <1>0, <1>5 DEF RobotsUnreachable, At, GivesUp
<1>6. ASSUME At("request"), RetryOrFail, UNCHANGED <<server, published, validators, robots>>
      PROVE  GivesUp("alert") \/ GoesAhead
  <2>1. call \in Calls /\ call # None /\ call.stage = "request"
    BY <1>0, <1>6 DEF At
  <2>2. CASE call.attempts + 1 >= MaxAttempts
    BY <1>0, <1>6, <2>1, <2>2 DEF RetryOrFail, GivesUp
  <2>3. CASE ~ (call.attempts + 1 >= MaxAttempts)
    <3>1. call' = [call EXCEPT !.attempts = @ + 1] /\ answer' = answer
      BY <1>6, <2>3 DEF RetryOrFail
    <3>2. call.attempts + 1 \in 0..(MaxAttempts - 1)
      BY <2>1, <2>3, ClientAssumption DEF Calls
    <3>3. call' = [call EXCEPT !.stage = call.stage, !.attempts = call.attempts + 1]
      BY <2>1, <3>1 DEF Calls
    <3>4. QED BY <1>0, <1>6, <2>1, <3>1, <3>2, <3>3 DEF GoesAhead
  <2>4. QED BY <2>2, <2>3
<1>7. ASSUME Unreached \/ Transient PROVE GivesUp("alert") \/ GoesAhead
  BY <1>6, <1>7 DEF Unreached, Transient
<1>8. CASE Revoked
  BY <1>0, <1>8 DEF Revoked, At, GivesUp
<1>9. CASE FinalStatus \/ BodyRejected
  BY <1>0, <1>9 DEF FinalStatus, BodyRejected, Served, At, GivesUp
<1>10. CASE BuildFails
  BY <1>0, <1>10 DEF BuildFails, At, GivesUp
<1>11. QED
  BY <1>1, <1>3, <1>4, <1>5, <1>7, <1>8, <1>9, <1>10 DEF Answering

-----------------------------------------------------------------------------
LEMMA InitialState == ClientInit => ClientInv
<1> SUFFICES ASSUME ClientInit PROVE ClientInv
  OBVIOUS
<1>1. validators \in [Sources -> Contents \cup {Blank, None}]
  BY DEF ClientInit
<1>2. robots \in [Registered -> (SUBSET Sources) \cup {None}]
  BY DEF ClientInit
<1>3. published \in 0..MaxPublications
  BY ClientAssumption DEF ClientInit
<1>4. QED BY <1>1, <1>2, <1>3 DEF ClientInit, ClientInv, ClientTypeOK, ContentIsRead

(* Accepting a body reads the page.                                        *)
LEMMA Accepts ==
    ASSUME ClientInv, Accept
    PROVE  LET c == PageAt(call.source, call.page)
           IN  /\ call \in Calls /\ call # None /\ call.stage = "request" /\ call.content = None
               /\ c \in Contents \cup {Blank}
               /\ \E link \in LinksOf(call.source, call.page) :
                     /\ link \in Links
                     /\ call' = [call EXCEPT !.stage = "build", !.content = c, !.link = link]
               /\ \E tag \in Remembered(c) :
                     /\ tag \in Contents \cup {Blank, None}
                     /\ validators' = [validators EXCEPT ![call.source] = tag]
               /\ UNCHANGED <<server, published, robots, answer>>
<1> DEFINE c == PageAt(call.source, call.page)
<1>1. call # None /\ call.stage = "request"
  BY DEF Accept, Served, At
<1>2. call \in Calls /\ call.content = None
  BY <1>1, NotRead
<1>3. call.source \in Sources /\ call.page \in Nat \ {0}
  BY <1>2 DEF Calls
<1>4. c \in Contents \cup {Blank}
  BY <1>3, PageContent DEF ClientInv
<1>5. PICK link \in LinksOf(call.source, call.page) :
         call' = [call EXCEPT !.stage = "build", !.content = c, !.link = link]
  BY DEF Accept
<1>6. link \in Links
  BY <1>5 DEF LinksOf, Links
<1>7. PICK tag \in Remembered(c) : validators' = [validators EXCEPT ![call.source] = tag]
  BY DEF Accept
<1>8. tag \in Contents \cup {Blank, None}
  BY <1>3, <1>4, <1>7 DEF Remembered, ClientInv, ClientTypeOK
<1>9. UNCHANGED <<server, published, robots, answer>>
  BY DEF Accept
<1>10. QED BY <1>1, <1>2, <1>4, <1>5, <1>6, <1>7, <1>8, <1>9

(* What a fetch ends with.                                                 *)
LEMMA Ends ==
    ASSUME ClientInv, call # None, NEW outcome \in Outcomes, NEW next \in Links,
           NEW content \in Contents \cup {Blank, None},
           outcome = "body" <=> content # None, End(outcome, content, next)
    PROVE  /\ call' = None
           /\ answer' \in Answers
           /\ answer'.source = call.source /\ answer'.page = call.page
           /\ answer'.outcome = outcome /\ answer'.content = content /\ answer'.next = next
<1>1. call \in Calls
  BY NotRead
<1>2. answer' = [source |-> call.source, page |-> call.page, outcome |-> outcome,
                 content |-> content, next |-> next]
  BY DEF End
<1>3. QED BY <1>1, <1>2 DEF End, Answers, Calls

LEMMA AnsweringKeeps ==
    ASSUME ClientInv, Answering PROVE ClientInv'
<1>1. CASE \E outcome \in {"revoked", "alert", "error"} : GivesUp(outcome)
  <2>1. PICK outcome \in {"revoked", "alert", "error"} : GivesUp(outcome)
    BY <1>1
  <2>2. call' = None /\ answer' \in Answers /\ answer'.outcome # "body" /\ answer'.content = None
    BY <2>1, Ends DEF GivesUp, Fails, Outcomes, Links
  <2>3. QED BY <2>1, <2>2 DEF GivesUp, ClientInv, ClientTypeOK, ContentIsRead
<1>2. CASE GoesAhead
  <2>1. call \in Calls /\ call.content = None
    BY <1>2, NotRead DEF GoesAhead
  <2>2. call' \in Calls /\ call'.stage # "build" /\ call'.content = None
    BY <1>2, <2>1 DEF GoesAhead, Calls
  <2>3. QED BY <1>2, <2>2 DEF GoesAhead, ClientInv, ClientTypeOK, ContentIsRead
<1>3. CASE NotModified
  <2>1. call # None /\ Fails("not-modified") /\ UNCHANGED <<server, published, validators, robots>>
    BY <1>3 DEF NotModified, At
  <2>2. call' = None /\ answer' \in Answers /\ answer'.outcome # "body" /\ answer'.content = None
    BY <2>1, Ends DEF Fails, Outcomes, Links
  <2>3. QED BY <2>1, <2>2 DEF ClientInv, ClientTypeOK, ContentIsRead
<1>4. CASE Accept
  <2> DEFINE c == PageAt(call.source, call.page)
  <2>1. call \in Calls /\ c \in Contents \cup {Blank} /\ UNCHANGED <<server, published, robots, answer>>
    BY <1>4, Accepts
  <2>2. PICK link \in Links : call' = [call EXCEPT !.stage = "build", !.content = c, !.link = link]
    BY <1>4, Accepts
  <2>3. call' \in Calls /\ call'.stage = "build" /\ call'.content = c
    BY <2>1, <2>2 DEF Calls
  <2>4. PICK tag \in Contents \cup {Blank, None} :
           validators' = [validators EXCEPT ![call.source] = tag]
    BY <1>4, Accepts
  <2>5. validators' \in [Sources -> Contents \cup {Blank, None}]
    BY <2>1, <2>4 DEF ClientInv, ClientTypeOK, Calls
  <2>6. c # None
    BY <2>1, NoneAssumption
  <2>7. QED BY <2>1, <2>3, <2>5, <2>6 DEF ClientInv, ClientTypeOK, ContentIsRead
<1>5. CASE Deliver
  <2>1. /\ call # None /\ call.stage = "build" /\ End("body", call.content, call.link)
        /\ UNCHANGED <<server, published, validators, robots>>
    BY <1>5 DEF Deliver, At
  <2>2. call \in Calls /\ call.content # None
    BY <2>1 DEF ClientInv, ClientTypeOK, ContentIsRead
  <2>3. call' = None /\ answer' \in Answers /\ answer'.outcome = "body" /\ answer'.content # None
    BY <2>1, <2>2, Ends DEF Calls, Outcomes
  <2>4. QED BY <2>1, <2>3 DEF ClientInv, ClientTypeOK, ContentIsRead
<1>6. QED BY <1>1, <1>2, <1>3, <1>4, <1>5, Shapes

(* What the caller sees of an answering step: nothing yet, that the body   *)
(* was accepted, that it is here, or another answer.                       *)
LEMMA Moves ==
    ASSUME ClientInv, Answering
    PROVE  /\ call # None
           /\ \/ /\ Accept
                 /\ call' \in Calls /\ call' # None /\ call'.source = call.source /\ call'.page = call.page
                 /\ call.stage # "build" /\ call'.stage = "build" /\ answer' = answer
              \/ /\ GoesAhead
                 /\ call' \in Calls /\ call' # None /\ call'.source = call.source /\ call'.page = call.page
                 /\ call'.stage # "build" /\ answer' = answer
                 /\ UNCHANGED <<server, validators>>
              \/ /\ call' = None /\ answer' \in Answers /\ answer' # None
                 /\ answer'.source = call.source /\ answer'.page = call.page
                 /\ answer'.outcome = "body" => /\ call.stage = "build"
                                                /\ answer'.content = call.content
                                                /\ answer'.next = call.link
                 /\ UNCHANGED <<server, validators>>
<1>1. CASE \E outcome \in {"revoked", "alert", "error"} : GivesUp(outcome)
  <2>1. PICK outcome \in {"revoked", "alert", "error"} : GivesUp(outcome)
    BY <1>1
  <2>2. /\ call' = None /\ answer' \in Answers /\ answer'.outcome # "body"
        /\ answer'.source = call.source /\ answer'.page = call.page
    BY <2>1, Ends DEF GivesUp, Fails, Outcomes, Links
  <2>3. QED BY <2>1, <2>2, NoneAssumption DEF GivesUp
<1>2. CASE GoesAhead
  <2>1. call \in Calls /\ call # None
    BY <1>2, NotRead DEF GoesAhead
  <2>2. call' \in Calls /\ call'.stage # "build" /\ call'.source = call.source /\ call'.page = call.page
    BY <1>2, <2>1 DEF GoesAhead, Calls
  <2>3. QED BY <1>2, <2>1, <2>2, NoneAssumption DEF GoesAhead
<1>3. CASE NotModified
  <2>1. call # None /\ Fails("not-modified") /\ UNCHANGED <<server, published, validators, robots>>
    BY <1>3 DEF NotModified, At
  <2>2. /\ call' = None /\ answer' \in Answers /\ answer'.outcome # "body"
        /\ answer'.source = call.source /\ answer'.page = call.page
    BY <2>1, Ends DEF Fails, Outcomes, Links
  <2>3. QED BY <2>1, <2>2, NoneAssumption
<1>4. CASE Accept
  <2> DEFINE c == PageAt(call.source, call.page)
  <2>1. /\ call \in Calls /\ call # None /\ call.stage = "request"
        /\ c \in Contents \cup {Blank} /\ UNCHANGED <<server, published, robots, answer>>
    BY <1>4, Accepts
  <2>2. PICK link \in Links : call' = [call EXCEPT !.stage = "build", !.content = c, !.link = link]
    BY <1>4, Accepts
  <2>3. /\ call' \in Calls /\ call'.stage = "build"
        /\ call'.source = call.source /\ call'.page = call.page
    BY <2>1, <2>2 DEF Calls
  <2>4. QED BY <1>4, <2>1, <2>3, NoneAssumption
<1>5. CASE Deliver
  <2>1. /\ call # None /\ call.stage = "build" /\ End("body", call.content, call.link)
        /\ UNCHANGED <<server, published, validators, robots>>
    BY <1>5 DEF Deliver, At
  <2>2. call \in Calls /\ call.content # None
    BY <2>1 DEF ClientInv, ClientTypeOK, ContentIsRead
  <2>3. /\ call' = None /\ answer' \in Answers /\ answer'.content = call.content
        /\ answer'.source = call.source /\ answer'.page = call.page /\ answer'.next = call.link
    BY <2>1, <2>2, Ends DEF Calls, Outcomes
  <2>4. QED BY <2>1, <2>3, NoneAssumption
<1>6. QED BY <1>1, <1>2, <1>3, <1>4, <1>5, Shapes

LEMMA PublishKeeps ==
    ASSUME ClientInv, NEW s \in Sources, Publish(s) PROVE ClientInv'
<1>1. PICK pages \in Chains[s] : server' = [server EXCEPT ![s] = pages]
  BY DEF Publish
<1>2. server' \in Servers
  BY <1>1 DEF Servers, ClientInv, ClientTypeOK
<1>3. published' \in 0..MaxPublications
  BY ClientAssumption DEF Publish, ClientInv, ClientTypeOK
<1>4. QED BY <1>2, <1>3 DEF Publish, ClientInv, ClientTypeOK, ContentIsRead

LEMMA AskKeeps ==
    ASSUME ClientInv, NEW s \in Sources, NEW n \in Nat \ {0}, NEW link \in Links, Ask(s, n, link)
    PROVE  ClientInv' /\ call' \in Calls /\ call' # None
<1>1. call' = [source |-> s, page |-> n, link |-> link, stage |-> "gates",
               attempts |-> 0, content |-> None]
  BY DEF Ask
<1>2. 0 \in 0..(MaxAttempts - 1)
  BY ClientAssumption
<1>3. call' \in Calls
  BY <1>1, <1>2 DEF Calls
<1>4. call' # None
  BY <1>3, NoneAssumption
<1>5. QED BY <1>1, <1>3, <1>4 DEF Ask, ClientInv, ClientTypeOK, ContentIsRead

LEMMA TakeKeeps ==
    ASSUME ClientInv, TakeAnswer PROVE ClientInv'
BY DEF TakeAnswer, ClientInv, ClientTypeOK, ContentIsRead

LEMMA ExitKeeps ==
    ASSUME ClientInv, Exit PROVE ClientInv'
<1>1. robots' \in [Registered -> (SUBSET Sources) \cup {None}]
  BY DEF Exit
<1>2. QED BY <1>1 DEF Exit, ClientInv, ClientTypeOK, ContentIsRead

LEMMA ClientKeeps ==
    ASSUME ClientInv, [ClientNext]_clientVars PROVE ClientInv'
<1>1. CASE UNCHANGED clientVars
  BY <1>1 DEF clientVars, ClientInv, ClientTypeOK, ContentIsRead
<1>2. CASE ClientNext
  BY <1>2, AnsweringKeeps, PublishKeeps, AskKeeps, TakeKeeps, ExitKeeps DEF ClientNext
<1>3. QED BY <1>1, <1>2

-----------------------------------------------------------------------------
(* The refinement: what is asked is the fetch without its stages.          *)
Asked == IF call = None THEN None
         ELSE [source |-> call.source, page |-> call.page, content |-> call.content]

LEMMA AskedIs ==
    ASSUME ClientInv
    PROVE  /\ call = None => Asked = None
           /\ call # None => /\ Asked = [source |-> call.source, page |-> call.page,
                                        content |-> call.content]
                             /\ Asked # None
<1>1. ASSUME call # None
      PROVE  [source |-> call.source, page |-> call.page, content |-> call.content] \in Questions
  BY <1>1, NotRead DEF Calls, Questions
<1>2. QED BY <1>1, NoneAssumption DEF Asked

LEMMA AnsweringRefines ==
    ASSUME ClientInv, Answering PROVE [Reads!Next]_(Reads!vars)
<1>0. ClientInv'
  BY AnsweringKeeps
<1> USE DEF Asked
<1>1. CASE \E outcome \in {"revoked", "alert", "error"} : GivesUp(outcome)
  <2>1. PICK outcome \in {"revoked", "alert", "error"} : GivesUp(outcome)
    BY <1>1
  <2>2. call # None /\ Asked # None /\ Asked.source = call.source /\ Asked.page = call.page
    BY <2>1, AskedIs DEF GivesUp
  <2>3. /\ Asked' = None
        /\ answer' = [source |-> Asked.source, page |-> Asked.page, outcome |-> outcome,
                      content |-> None, next |-> "end"]
    BY <2>1, <2>2 DEF GivesUp, Fails, End
  <2>4. Reads!Answer(outcome, None)
    BY <2>1, <2>3 DEF Reads!Answer, GivesUp
  <2>5. Reads!Fail
    BY <2>2, <2>4 DEF Reads!Fail
  <2>6. QED BY <2>5 DEF Reads!Next
<1>2. CASE GoesAhead
  <2>1. call \in Calls
    BY <1>2, NotRead DEF GoesAhead
  <2>2. PICK stage \in {"request", call.stage}, n \in 0..(MaxAttempts - 1) :
           stage # "build" /\ call' = [call EXCEPT !.stage = stage, !.attempts = n]
    BY <1>2 DEF GoesAhead
  <2>3. /\ call'.source = call.source /\ call'.page = call.page /\ call'.content = call.content
        /\ call' \in Calls
    BY <1>2, <2>1, <2>2 DEF Calls, GoesAhead
  <2>4. call # None /\ call' # None
    BY <1>2, <2>3, NoneAssumption DEF GoesAhead
  <2>5. Asked' = Asked
    BY <2>3, <2>4
  <2>6. QED BY <1>2, <2>5 DEF GoesAhead, Reads!vars
<1>3. CASE NotModified
  <2>1. call # None /\ call.stage = "request" /\ call.content = None
    BY <1>3, NotRead DEF NotModified, At
  <2>2. Asked # None /\ Asked.source = call.source /\ Asked.page = call.page /\ Asked.content = None
    BY <2>1, AskedIs
  <2>3. call.page = 1 /\ validators[call.source] = PageAt(call.source, 1)
    BY <1>3 DEF NotModified, Responses, Conditional
  <2>4. /\ Asked' = None
        /\ answer' = [source |-> Asked.source, page |-> Asked.page, outcome |-> "not-modified",
                      content |-> None, next |-> "end"]
    BY <1>3, <2>2 DEF NotModified, Fails, End
  <2>5. Reads!Answer("not-modified", None)
    BY <1>3, <2>4 DEF Reads!Answer, NotModified
  <2>6. Reads!NotModified
    BY <2>2, <2>3, <2>5 DEF Reads!NotModified, Reads!PageAt, PageAt
  <2>7. QED BY <2>6 DEF Reads!Next
<1>4. CASE Accept
  <2> DEFINE c == PageAt(call.source, call.page)
  <2>1. call \in Calls /\ call # None /\ call.content = None
    BY <1>4, Accepts
  <2>2. Asked # None /\ Asked = [source |-> call.source, page |-> call.page, content |-> None]
    BY <2>1, AskedIs
  <2>3. PICK link \in Links : call' = [call EXCEPT !.stage = "build", !.content = c, !.link = link]
    BY <1>4, Accepts
  <2>4. c \in Contents \cup {Blank}
    BY <1>4, Accepts
  <2>5. call' \in Calls /\ call'.source = call.source /\ call'.page = call.page /\ call'.content = c
    BY <2>1, <2>3, <2>4 DEF Calls
  <2>6. Asked' = [source |-> call.source, page |-> call.page, content |-> c]
    BY <2>5, NoneAssumption
  <2>7. Asked' = [Asked EXCEPT !.content = c]
    BY <2>2, <2>6
  <2>8. PICK tag \in Remembered(c) : validators' = [validators EXCEPT ![call.source] = tag]
    BY <1>4, Accepts
  <2>9. call.page = 1 => tag \in {c, None}
    BY <2>8 DEF Remembered
  <2>10. call.page # 1 => validators' = validators
    BY <2>8 DEF Remembered, ClientInv, ClientTypeOK
  <2>11. UNCHANGED <<server, answer>>
    BY <1>4, Accepts
  <2>12. c = Reads!PageAt(Asked.source, Asked.page)
    BY <2>2 DEF PageAt, Reads!PageAt
  <2>13. Asked.content = None /\ Asked.source = call.source /\ Asked.page = call.page
    BY <2>2
  <2>14. Reads!Read
    BY <2>2, <2>7, <2>8, <2>9, <2>10, <2>11, <2>12, <2>13 DEF Reads!Read
  <2>15. QED BY <2>14 DEF Reads!Next
<1>5. CASE Deliver
  <2>1. call # None /\ call.stage = "build" /\ End("body", call.content, call.link)
    BY <1>5 DEF Deliver, At
  <2>2. call \in Calls /\ call.content # None
    BY <2>1 DEF ClientInv, ClientTypeOK, ContentIsRead
  <2>3. Asked # None /\ Asked = [source |-> call.source, page |-> call.page, content |-> call.content]
    BY <2>1, AskedIs
  <2>4. /\ Asked' = None
        /\ answer' = [source |-> Asked.source, page |-> Asked.page, outcome |-> "body",
                      content |-> Asked.content, next |-> call.link]
    BY <2>1, <2>3 DEF End
  <2>5. call.link \in {"end", "page", "stray"}
    BY <2>2 DEF Calls, Links
  <2>6. Reads!Answer("body", Asked.content)
    BY <1>5, <2>4, <2>5 DEF Reads!Answer, Deliver
  <2>7. Reads!Return
    BY <2>2, <2>3, <2>6 DEF Reads!Return
  <2>8. QED BY <2>7 DEF Reads!Next
<1>6. QED BY <1>1, <1>2, <1>3, <1>4, <1>5, Shapes

LEMMA ClientRefines ==
    ASSUME ClientInv, [ClientNext]_clientVars PROVE [Reads!Next]_(Reads!vars)
<1> USE DEF Asked
<1>1. CASE UNCHANGED clientVars
  BY <1>1 DEF clientVars, Reads!vars
<1>2. ASSUME NEW s \in Sources, Publish(s) PROVE Reads!Next
  <2>1. PICK pages \in Chains[s] : server' = [server EXCEPT ![s] = pages]
    BY <1>2 DEF Publish
  <2>2. \E pages2 \in UNION {Chains[t] : t \in Sources} : server' = [server EXCEPT ![s] = pages2]
    BY <2>1
  <2>3. Reads!Publish(s)
    BY <1>2, <2>2 DEF Publish, Reads!Publish
  <2>4. QED BY <2>3 DEF Reads!Next
<1>3. ASSUME NEW s \in Sources, NEW n \in Nat \ {0}, NEW link \in Links, Ask(s, n, link)
      PROVE  Reads!Next
  <2>1. ClientInv' /\ call' # None
    BY <1>3, AskKeeps
  <2>2. Asked' = [source |-> s, page |-> n, content |-> None]
    BY <1>3, <2>1 DEF Ask
  <2>3. Asked' \in Questions
    BY <2>2 DEF Questions
  <2>4. Asked' # None /\ Asked'.page = n
    BY <2>2, <2>3, NoneAssumption
  <2>5. Asked = None
    BY <1>3 DEF Ask
  <2>6. Reads!Ask(s)
    BY <1>3, <2>2, <2>4, <2>5 DEF Ask, Reads!Ask
  <2>7. QED BY <2>6 DEF Reads!Next
<1>4. CASE TakeAnswer
  BY <1>4 DEF TakeAnswer, Reads!Take, Reads!Next
<1>5. CASE Exit
  BY <1>5 DEF Exit, Reads!Stop, Reads!Next
<1>6. CASE Answering
  BY <1>6, AnsweringRefines
<1>7. QED BY <1>1, <1>2, <1>3, <1>4, <1>5, <1>6 DEF ClientNext

LEMMA InitialReading == ClientInit => Reads!Init
<1> SUFFICES ASSUME ClientInit PROVE Reads!Init
  OBVIOUS
<1>1. server \in [Sources -> UNION {Chains[s] : s \in Sources}]
  BY DEF ClientInit, Servers
<1>2. QED BY <1>1 DEF ClientInit, Reads!Init

(* Whatever calls the client, its memory keeps its shape.                  *)
THEOREM ClientTypeCorrect == ClientSpec => []ClientTypeOK
<1>1. ClientInv => ClientTypeOK
  BY DEF ClientInv
<1>2. QED BY <1>1, InitialState, ClientKeeps, PTL DEF ClientSpec

(* One fetch reads its page at one moment, or says truly that the          *)
(* registered page has not changed, or fails; and nothing but reading the  *)
(* registered page changes what is remembered of it.                       *)
THEOREM ClientReadsPages == ClientSpec => ReadsSpec
<1>1. QED
  BY InitialState, ClientKeeps, InitialReading, ClientRefines, PTL
     DEF ClientSpec, ReadsSpec, Reads!Spec

=============================================================================
