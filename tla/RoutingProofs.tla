--------------------------- MODULE RoutingProofs ---------------------------
(***************************************************************************)
(* Proofs about Routing, for every set of routing trees in which a route   *)
(* is a place, and any number of messages: the state keeps its type, the   *)
(* sniffers agree with the wire and one request gets one answer; no route  *)
(* that matches is passed over; no endpoint is dispatched twice, and what  *)
(* each one reads makes sense.                                             *)
(***************************************************************************)
EXTENDS Routing, SequenceTheorems, TLAPS

\* What TreeType gives about a tree, with the routes of all its routers in
\* one set.
LEMMA TreeFacts ==
  ASSUME NEW t \in Trees
  PROVE  /\ t.main \in Routers(t)
         /\ \A r \in Routers(t) : t.routes[r] \in Seq(AllRoutes(t))
         /\ \A x \in Includes(t) : t.into[x] \in Routers(t)
<1>1. TreeType(t)
  BY TreesAssumption
<1>2. ASSUME NEW r \in Routers(t)
      PROVE  t.routes[r] \in Seq(AllRoutes(t))
  <2>1. t.routes[r] \in Seq(RoutesOf(t, r))
    BY <1>1 DEF TreeType
  <2>2. RoutesOf(t, r) \subseteq AllRoutes(t)
    BY DEF AllRoutes
  <2>3. QED
    BY <2>1, <2>2
<1>3. QED
  BY <1>1, <1>2 DEF TreeType

\* The frame of the innermost app() and the frames around it.
LEMMA TopFacts ==
  ASSUME TypeOK, pc # "done"
  PROVE  /\ Len(stack) \in Nat \ {0}
         /\ Top \in FrameType(tree)
         /\ Top.router \in Routers(tree)
         /\ Routes \in Seq(AllRoutes(tree))
         /\ Top.partials \in Seq(AllRoutes(tree))
         /\ ~Exhausted => Route \in AllRoutes(tree)
<1>1. stack \in Seq(FrameType(tree)) /\ stack # <<>> /\ tree \in Trees
  BY DEF TypeOK
<1>2. Len(stack) \in Nat \ {0}
  BY <1>1
<1>3. Top \in FrameType(tree)
  BY <1>1, <1>2 DEF Top
<1>4. Top.router \in Routers(tree) /\ Top.at \in Nat \ {0}
        /\ Top.partials \in Seq(AllRoutes(tree))
  BY <1>3 DEF FrameType
<1>5. Routes \in Seq(AllRoutes(tree))
  BY <1>1, <1>4, TreeFacts DEF Routes
<1>6. ~Exhausted => Route \in AllRoutes(tree)
  BY <1>4, <1>5 DEF Exhausted, Route
<1>7. QED
  BY <1>2, <1>3, <1>4, <1>5, <1>6

\* Replacing the innermost frame.
LEMMA SetTop ==
  ASSUME TypeOK, pc # "done", NEW f \in FrameType(tree),
         NEW s, s = [stack EXCEPT ![Len(stack)] = f]
  PROVE  /\ s \in Seq(FrameType(tree))
         /\ Len(s) = Len(stack)
         /\ s[Len(s)] = f
         /\ s # <<>>
<1>1. stack \in Seq(FrameType(tree)) /\ Len(stack) \in Nat \ {0}
  BY TopFacts DEF TypeOK
<1>2. QED
  BY <1>1

\* NextRoute replaces the innermost frame by the same frame, one route on.
LEMMA NextRouteType ==
  ASSUME TypeOK, pc # "done", NEW b \in BOOLEAN,
         NEW p \in Seq(AllRoutes(tree))
  PROVE  /\ NextRoute(b, p) \in Seq(FrameType(tree))
         /\ Len(NextRoute(b, p)) = Len(stack)
         /\ NextRoute(b, p) # <<>>
<1> DEFINE f == [router |-> Top.router, at |-> Top.at + 1,
                 had |-> Top.had \/ b, partials |-> Top.partials \o p]
<1>1. Top \in FrameType(tree)
  BY TopFacts
<1>2. /\ Top.router \in Routers(tree) /\ Top.at + 1 \in Nat \ {0}
      /\ Top.partials \in Seq(AllRoutes(tree))
  BY <1>1 DEF FrameType
<1>3. (Top.had \/ b) \in BOOLEAN
  OBVIOUS
<1>4. Top.partials \o p \in Seq(AllRoutes(tree))
  BY <1>2
<1>5. f \in FrameType(tree)
  BY <1>2, <1>3, <1>4 DEF FrameType
<1>6. NextRoute(b, p) = [stack EXCEPT ![Len(stack)] = f]
  BY DEF NextRoute
<1> HIDE DEF f
<1>7. QED
  BY <1>5, <1>6, SetTop

\* Leaving an app() drops one frame and its sniffer.
LEMMA LeaveType ==
  ASSUME TypeOK, pc # "done", NEW s \in SignalType(tree),
         NEW sniffers \in Seq(SnifferType), Len(sniffers) = Len(stack),
         Leave(s, sniffers)
  PROVE  /\ stack' \in Seq(FrameType(tree))
         /\ sniffer' \in Seq(SnifferType)
         /\ Len(stack') = Len(stack) - 1 /\ Len(sniffer') = Len(stack) - 1
         /\ signal' \in SignalType(tree)
         /\ \/ pc' = "done" /\ outcome' = "returned"
            \/ pc' = "signal" /\ outcome' = outcome /\ stack' # <<>>
<1>1. stack \in Seq(FrameType(tree)) /\ Len(stack) \in Nat \ {0}
  BY TopFacts DEF TypeOK
<1>2. /\ stack' = SubSeq(stack, 1, Len(stack) - 1)
      /\ sniffer' = SubSeq(sniffers, 1, Len(stack) - 1)
      /\ signal' = s
      /\ \/ Len(stack) = 1 /\ pc' = "done" /\ outcome' = "returned"
         \/ Len(stack) # 1 /\ pc' = "signal" /\ outcome' = outcome
  BY DEF Leave
<1>3. /\ stack' \in Seq(FrameType(tree)) /\ Len(stack') = Len(stack) - 1
      /\ sniffer' \in Seq(SnifferType) /\ Len(sniffer') = Len(stack) - 1
  BY <1>1, <1>2
<1>4. Len(stack) # 1 => stack' # <<>>
  BY <1>1, <1>3
<1>5. QED
  BY <1>2, <1>3, <1>4

\* Sent has one sniffer per frame, and each knows that an answer was sent.
LEMMA SentType ==
  ASSUME TypeOK
  PROVE  /\ Sent \in Seq(SnifferType)
         /\ Len(Sent) = Len(sniffer)
         /\ \A i \in DOMAIN Sent : Sent[i].sent
<1>1. sniffer \in Seq(SnifferType)
  BY DEF TypeOK
<1>2. \A i \in DOMAIN sniffer : sniffer[i] \in SnifferType
  BY <1>1
<1>3. \A i \in DOMAIN sniffer :
        [message |-> sniffer[i].message, repeat |-> sniffer[i].repeat,
         sent |-> TRUE] \in SnifferType
  BY <1>2 DEF SnifferType
<1>4. QED
  BY <1>1, <1>3 DEF Sent

-----------------------------------------------------------------------------
\* The type of the state, one step per action.
LEMMA InitType == Init => TypeOK
<1> SUFFICES ASSUME Init PROVE TypeOK
  OBVIOUS
<1> USE DEF Init
<1>1. tree \in Trees /\ TreeType(tree)
  BY TreesAssumption
<1>2. stack \in Seq(FrameType(tree)) /\ stack # <<>> /\ Len(stack) = 1
  BY <1>1 DEF FrameType, Frame, TreeType
<1>3. sniffer \in Seq(SnifferType) /\ Len(sniffer) = 1
  BY DEF SnifferType, Unsniffed
<1>4. signal \in SignalType(tree)
  BY DEF SignalType, NoSignal
<1>5. seen \in [Endpoints(tree) -> Seq(Nat)]
  OBVIOUS
<1>6. QED
  BY <1>1, <1>2, <1>3, <1>4, <1>5 DEF TypeOK

LEMMA ScanType ==
  ASSUME TypeOK, Skip \/ EnterEndpoint \/ EnterInclude \/ KeepPartial
  PROVE  TypeOK'
<1>0. <<>> \in Seq(AllRoutes(tree))
  OBVIOUS
<1>1. pc # "done"
  BY DEF Skip, EnterEndpoint, EnterInclude, KeepPartial
<1> USE DEF TypeOK, scenario
<1>2. CASE Skip
  BY <1>0, <1>1, <1>2, NextRouteType DEF Skip
<1>3. CASE EnterEndpoint
  <2>1. Route \in Endpoints(tree)
    BY <1>1, <1>3, TopFacts DEF EnterEndpoint, Endpoints
  <2>2. QED
    BY <1>3, <2>1 DEF EnterEndpoint
<1>4. CASE EnterInclude
  <2>1. Frame(tree.into[Route]) \in FrameType(tree)
    <3>1. tree.into[Route] \in Routers(tree)
      BY <1>4, TreeFacts DEF EnterInclude
    <3>2. QED
      BY <3>1 DEF Frame, FrameType
  <2>2. Unsniffed \in SnifferType
    BY DEF Unsniffed, SnifferType
  <2>3. QED
    BY <1>4, <2>1, <2>2 DEF EnterInclude
<1>5. CASE KeepPartial
  <2>1. <<Route>> \in Seq(AllRoutes(tree))
    BY <1>1, <1>5, TopFacts DEF KeepPartial
  <2>2. QED
    BY <1>1, <1>5, <2>1, NextRouteType DEF KeepPartial
<1>6. QED
  BY <1>2, <1>3, <1>4, <1>5

\* What an endpoint does.
LEMMA EndpointType ==
  ASSUME TypeOK,
         \/ ReceiveFromServer \/ ReceiveRepeated \/ EndpointSend
         \/ EndpointRaise \/ EndpointLeave("return") \/ EndpointLeave("continue")
  PROVE  TypeOK'
<1>1. pc = "endpoint" /\ current \in Endpoints(tree)
  BY DEF ReceiveFromServer, ReceiveRepeated, EndpointSend, EndpointRaise,
         EndpointLeave, TypeOK
<1>2. ASSUME NEW n, NEW message \in Nat, Receive(n, message), taken' \in Nat
      PROVE  TypeOK'
  <2>1. sniffer' \in Seq(SnifferType) /\ Len(sniffer') = Len(sniffer)
    <3>1. sniffer \in Seq(SnifferType)
      BY DEF TypeOK
    <3>2. \A i \in DOMAIN sniffer : sniffer[i] \in SnifferType
      BY <3>1
    <3>3. \A i \in DOMAIN sniffer :
            [message |-> message, repeat |-> FALSE, sent |-> sniffer[i].sent]
              \in SnifferType
      BY <3>2 DEF SnifferType
    <3>4. QED
      BY <1>2, <3>1, <3>2, <3>3 DEF Receive
  <2>2. seen' \in [Endpoints(tree) -> Seq(Nat)]
    BY <1>1, <1>2 DEF Receive, TypeOK
  <2>3. QED
    BY <1>2, <2>1, <2>2 DEF TypeOK, Receive, scenario
<1>3. CASE ReceiveFromServer
  BY <1>2, <1>3 DEF ReceiveFromServer, TypeOK
<1>4. CASE ReceiveRepeated
  <2>1. PICK n \in Repeating : Receive(n, sniffer[n].message)
    BY <1>4 DEF ReceiveRepeated
  <2>2. sniffer[n].message \in Nat
    <3>1. n \in DOMAIN sniffer /\ sniffer \in Seq(SnifferType)
      BY DEF Repeating, TypeOK
    <3>2. sniffer[n] \in SnifferType
      BY <3>1
    <3>3. QED
      BY <3>2 DEF SnifferType
  <2>3. taken' \in Nat
    BY <1>4 DEF ReceiveRepeated, TypeOK
  <2>4. QED
    BY <1>2, <2>1, <2>2, <2>3
<1>5. CASE EndpointSend
  BY <1>5, SentType DEF EndpointSend, TypeOK, scenario
<1>6. CASE EndpointRaise
  BY <1>6 DEF EndpointRaise, End, TypeOK, scenario
<1>7. ASSUME NEW kind \in {"return", "continue"}, EndpointLeave(kind)
      PROVE  TypeOK'
  <2>1. [kind |-> kind, partials |-> <<>>] \in SignalType(tree)
    BY DEF SignalType
  <2>2. QED
    BY <1>7, <2>1 DEF EndpointLeave, TypeOK, scenario
<1>8. QED
  BY <1>3, <1>4, <1>5, <1>6, <1>7

\* What a router does with what came back.
LEMMA SignalStepType ==
  ASSUME TypeOK,
         Answered \/ Resume \/ ContinueAfterAnswer \/ CollectPartials
  PROVE  TypeOK'
<1>1. pc # "done" /\ sniffer \in Seq(SnifferType) /\ Len(sniffer) = Len(stack)
  BY DEF Answered, Resume, ContinueAfterAnswer, CollectPartials, TypeOK
<1>2. Return \in SignalType(tree) /\ NoSignal \in SignalType(tree)
  BY DEF Return, NoSignal, SignalType
<1>3. <<>> \in Seq(AllRoutes(tree)) /\ signal.partials \in Seq(AllRoutes(tree))
  BY DEF TypeOK, SignalType
<1>4. CASE Answered
  BY <1>1, <1>2, <1>4, LeaveType DEF Answered, TypeOK, scenario
<1>5. CASE Resume
  <2>1. Sniffer \in SnifferType
    <3>1. Len(stack) \in Nat \ {0} /\ sniffer \in Seq(SnifferType)
            /\ Len(sniffer) = Len(stack)
      BY <1>1, TopFacts
    <3>2. QED
      BY <3>1 DEF Sniffer
  <2>2. [message |-> Sniffer.message, repeat |-> TRUE, sent |-> Sniffer.sent]
          \in SnifferType
    BY <2>1 DEF SnifferType
  <2>3. Repeat \in Seq(SnifferType) /\ Len(Repeat) = Len(sniffer)
    <3>1. Len(stack) \in 1 .. Len(sniffer)
      BY <1>1, TopFacts
    <3>2. QED
      BY <1>1, <2>2, <3>1, ExceptSeq DEF Repeat
  <2>4. QED
    BY <1>1, <1>2, <1>3, <1>5, <2>3, NextRouteType DEF Resume, TypeOK, scenario
<1>6. CASE ContinueAfterAnswer
  BY <1>6 DEF ContinueAfterAnswer, End, TypeOK, scenario
<1>7. CASE CollectPartials
  BY <1>1, <1>2, <1>3, <1>7, NextRouteType DEF CollectPartials, TypeOK, scenario
<1>8. QED
  BY <1>4, <1>5, <1>6, <1>7

\* What a router does when its routes are exhausted.
LEMMA ExhaustedType ==
  ASSUME TypeOK, RedirectSlash \/ PassPartials \/ MethodNotAllowed \/ Default
  PROVE  TypeOK'
<1>1. pc # "done" /\ sniffer \in Seq(SnifferType) /\ Len(sniffer) = Len(stack)
  BY DEF RedirectSlash, PassPartials, MethodNotAllowed, Default, TypeOK
<1>2. ASSUME NEW what \in {"redirect", "404", "405"}, Respond(what)
      PROVE  TypeOK'
  <2>1. Return \in SignalType(tree)
    BY DEF Return, SignalType
  <2>2. wire' \in Seq(Endpoints(tree) \cup {"redirect", "404", "405"})
    BY <1>2 DEF Respond, TypeOK
  <2>3. QED
    BY <1>1, <1>2, <2>1, <2>2, SentType, LeaveType
    DEF Respond, TypeOK, scenario
<1>3. ASSUME NEW how \in {"404", "405"}, Refuse(how)
      PROVE  TypeOK'
  BY <1>2, <1>3 DEF Refuse, End, TypeOK, scenario
<1>4. CASE PassPartials
  <2>1. [kind |-> "pass", partials |-> Top.partials] \in SignalType(tree)
    BY <1>1, TopFacts DEF SignalType
  <2>2. QED
    BY <1>1, <1>4, <2>1, LeaveType DEF PassPartials, TypeOK, scenario
<1>5. QED
  BY <1>2, <1>3, <1>4 DEF RedirectSlash, MethodNotAllowed, Default

LEMMA StepType == TypeOK /\ [Next]_vars => TypeOK'
<1> SUFFICES ASSUME TypeOK, [Next]_vars PROVE TypeOK'
  OBVIOUS
<1>1. CASE UNCHANGED vars \/ Done
  BY <1>1 DEF Done, vars, scenario, TypeOK
<1>2. CASE Next /\ ~Done
  BY <1>2, ScanType, EndpointType, SignalStepType, ExhaustedType DEF Next
<1>3. QED
  BY <1>1, <1>2

\* Every state a router can reach has the type TypeOK describes, whatever the
\* trees, the matches and the endpoints.
THEOREM TypeCorrect == Spec => []TypeOK
BY InitType, StepType, PTL DEF Spec

-----------------------------------------------------------------------------
(* One answer per request.  OneAnswer is not inductive: what makes it hold  *)
(* is that every sniffer in progress knows whether something was sent, and  *)
(* that nothing was while a router is still walking its routes.             *)

Unanswered == wire = <<>>
EndpointAnswered == Len(wire) <= 1

AnswerInv ==
  /\ TypeOK
  /\ SniffersAgree
  /\ OneAnswer
  /\ pc = "scan" => Unanswered
  /\ pc = "endpoint" => wire = <<>> \/ wire = <<current>>
  /\ pc = "signal" /\ signal.kind = "continue" => EndpointAnswered
  /\ pc = "signal" /\ signal.kind = "pass" => Unanswered

LEMMA AnswerInit == Init => AnswerInv
BY InitType DEF Init, AnswerInv, Unanswered, SniffersAgree, OneAnswer, Unsniffed

\* The sniffers around the one that is left keep what they know.
LEMMA LeaveSniffers ==
  ASSUME TypeOK, pc # "done", NEW s \in SignalType(tree),
         NEW sniffers \in Seq(SnifferType), Len(sniffers) = Len(stack),
         Leave(s, sniffers)
  PROVE  /\ pc' \in {"signal", "done"} /\ signal' = s
         /\ \A i \in DOMAIN sniffer' : i \in DOMAIN sniffers
                                       /\ sniffer'[i] = sniffers[i]
<1>1. Len(stack) \in Nat \ {0}
  BY TopFacts
<1>2. QED
  BY <1>1 DEF Leave

\* A response sent by app() itself, when there was none: every router around
\* it learns of it.
LEMMA RespondAnswers ==
  ASSUME TypeOK, pc # "done", NEW what, Respond(what), EndpointAnswered,
         Unanswered \/ (~inApp /\ what = "404")
  PROVE  /\ OneAnswer' /\ SniffersAgree'
         /\ pc' \in {"signal", "done"} /\ signal'.kind = "return"
<1>1. Return \in SignalType(tree) /\ Return.kind = "return"
  BY DEF Return, SignalType
<1>2. Sent \in Seq(SnifferType) /\ Len(Sent) = Len(stack)
        /\ \A i \in DOMAIN Sent : Sent[i].sent
  BY SentType DEF TypeOK
<1>3. /\ pc' \in {"signal", "done"} /\ signal' = Return
      /\ \A i \in DOMAIN sniffer' : sniffer'[i].sent
  BY <1>1, <1>2, LeaveSniffers DEF Respond
<1>4. wire' = Append(wire, what) /\ inApp' = inApp
  BY DEF Respond, scenario
<1>5. Len(wire') = Len(wire) + 1 /\ wire'[Len(wire')] = what
  BY <1>4 DEF TypeOK
<1>6. OneAnswer' /\ wire' # <<>>
  <2>1. Len(wire) \in Nat /\ (Unanswered => Len(wire) = 0)
    BY DEF TypeOK, Unanswered
  <2>2. QED
    BY <1>4, <1>5, <2>1 DEF OneAnswer, EndpointAnswered
<1>7. QED
  BY <1>1, <1>3, <1>6 DEF SniffersAgree

LEMMA AnswerStep == AnswerInv /\ [Next]_vars => AnswerInv'
<1> SUFFICES ASSUME AnswerInv, [Next]_vars PROVE AnswerInv'
  OBVIOUS
<1>1. TypeOK /\ TypeOK'
  BY StepType DEF AnswerInv
<1>2. Return \in SignalType(tree) /\ Return.kind = "return"
  BY DEF Return, SignalType
<1> DEFINE Rest == /\ SniffersAgree /\ OneAnswer
                   /\ pc = "scan" => Unanswered
                   /\ pc = "endpoint" => wire = <<>> \/ wire = <<current>>
                   /\ pc = "signal" /\ signal.kind = "continue"
                        => EndpointAnswered
                   /\ pc = "signal" /\ signal.kind = "pass" => Unanswered
<1> SUFFICES Rest'
  BY <1>1 DEF AnswerInv
<1>3. CASE UNCHANGED vars \/ Done
  BY <1>3 DEF Done, vars, scenario, AnswerInv, SniffersAgree, OneAnswer,
              Unanswered, EndpointAnswered
<1>4. CASE Skip \/ KeepPartial \/ EnterEndpoint
  <2>1. /\ pc = "scan" /\ pc' \in {"scan", "endpoint"}
        /\ UNCHANGED <<inApp, sniffer, wire>>
    BY <1>4 DEF Skip, KeepPartial, EnterEndpoint, scenario
  <2>2. QED
    BY <2>1 DEF AnswerInv, SniffersAgree, OneAnswer, Unanswered,
                EndpointAnswered
<1>5. CASE EnterInclude
  <2>1. \A i \in DOMAIN sniffer' : ~sniffer'[i].sent
    <3>1. sniffer \in Seq(SnifferType) /\ sniffer' = Append(sniffer, Unsniffed)
      BY <1>1, <1>5 DEF EnterInclude, TypeOK
    <3>2. \A i \in DOMAIN sniffer : ~sniffer[i].sent
      BY <1>5 DEF EnterInclude, AnswerInv, SniffersAgree, Unanswered
    <3>3. Unsniffed.sent = FALSE
      BY DEF Unsniffed
    <3>4. QED
      BY <3>1, <3>2, <3>3
  <2>2. QED
    BY <1>5, <2>1 DEF EnterInclude, AnswerInv, SniffersAgree, OneAnswer,
                      Unanswered, EndpointAnswered, scenario
<1>6. ASSUME NEW n, NEW message, Receive(n, message), pc = "endpoint"
      PROVE  Rest'
  <2>1. \A i \in DOMAIN sniffer' :
          i \in DOMAIN sniffer /\ sniffer'[i].sent = sniffer[i].sent
    BY <1>6 DEF Receive
  <2>2. QED
    BY <1>6, <2>1 DEF Receive, AnswerInv, SniffersAgree, OneAnswer,
                      Unanswered, EndpointAnswered, scenario
<1>7. CASE ReceiveFromServer \/ ReceiveRepeated
  BY <1>6, <1>7 DEF ReceiveFromServer, ReceiveRepeated
<1>8. CASE EndpointSend
  <2>0. wire = <<>>
    BY <1>8 DEF EndpointSend, AnswerInv
  <2>1. wire' = <<current'>>
    BY <1>8, <2>0 DEF EndpointSend
  <2>2. \A i \in DOMAIN sniffer' : sniffer'[i].sent
    BY <1>1, <1>8, SentType DEF EndpointSend
  <2>3. pc' = "endpoint"
    BY <1>8 DEF EndpointSend
  <2>4. OneAnswer' /\ SniffersAgree'
    BY <2>1, <2>2 DEF OneAnswer, SniffersAgree
  <2>5. QED
    BY <2>1, <2>3, <2>4 DEF EndpointAnswered
<1>9. CASE \/ EndpointRaise \/ EndpointLeave("return")
           \/ EndpointLeave("continue")
  BY <1>9 DEF EndpointRaise, EndpointLeave, End, AnswerInv, SniffersAgree,
              OneAnswer, Unanswered, EndpointAnswered, scenario
<1>10. CASE Answered
  <2>1. pc # "done" /\ Leave(Return, sniffer) /\ sniffer \in Seq(SnifferType)
          /\ Len(sniffer) = Len(stack) /\ wire' = wire /\ inApp' = inApp
    BY <1>1, <1>10 DEF Answered, TypeOK, scenario
  <2>2. /\ pc' \in {"signal", "done"} /\ signal'.kind = "return"
        /\ \A i \in DOMAIN sniffer' : i \in DOMAIN sniffer
                                      /\ sniffer'[i] = sniffer[i]
    BY <1>1, <1>2, <2>1, LeaveSniffers
  <2>3. QED
    BY <2>1, <2>2 DEF AnswerInv, SniffersAgree, OneAnswer
<1>11. CASE Resume
  <2>1. Len(stack) \in DOMAIN sniffer /\ pc # "done"
    BY <1>1, <1>11, TopFacts DEF TypeOK, Resume
  <2>2. Unanswered
    BY <1>11, <2>1 DEF Resume, Sniffer, AnswerInv, SniffersAgree, Unanswered
  <2>3. \A i \in DOMAIN sniffer' :
          i \in DOMAIN sniffer /\ sniffer'[i].sent = sniffer[i].sent
    BY <1>11, <2>1 DEF Resume, Repeat, Sniffer
  <2>4. QED
    BY <1>11, <2>1, <2>2, <2>3
    DEF Resume, AnswerInv, SniffersAgree, OneAnswer, Unanswered, scenario
<1>12. CASE ContinueAfterAnswer
  BY <1>12 DEF ContinueAfterAnswer, End, AnswerInv, SniffersAgree, OneAnswer,
               scenario
<1>13. CASE CollectPartials
  BY <1>13 DEF CollectPartials, AnswerInv, SniffersAgree, OneAnswer,
               Unanswered, scenario
<1>14. CASE PassPartials
  <2>1. pc # "done" /\ sniffer \in Seq(SnifferType) /\ Len(sniffer) = Len(stack)
          /\ wire' = wire /\ inApp' = inApp /\ Unanswered
    BY <1>1, <1>14 DEF PassPartials, TypeOK, scenario, AnswerInv
  <2>2. [kind |-> "pass", partials |-> Top.partials] \in SignalType(tree)
    BY <1>1, <2>1, TopFacts DEF SignalType
  <2>3. /\ pc' \in {"signal", "done"} /\ signal'.kind = "pass"
        /\ \A i \in DOMAIN sniffer' : i \in DOMAIN sniffer
                                      /\ sniffer'[i] = sniffer[i]
    BY <1>1, <1>14, <2>1, <2>2, LeaveSniffers DEF PassPartials
  <2>4. QED
    BY <2>1, <2>3 DEF AnswerInv, SniffersAgree, OneAnswer, Unanswered
<1>15. ASSUME NEW what, Respond(what), EndpointAnswered, pc # "done",
              Unanswered \/ (~inApp /\ what = "404")
       PROVE  Rest'
  BY <1>1, <1>15, RespondAnswers
<1>16. CASE RedirectSlash
  BY <1>15, <1>16 DEF RedirectSlash, AnswerInv, Unanswered, EndpointAnswered
<1>17. ASSUME NEW how, Refuse(how), EndpointAnswered, pc # "done",
              Unanswered \/ how = "404"
       PROVE  Rest'
  <2>1. CASE inApp /\ End(how) /\ UNCHANGED wire
    BY <2>1 DEF End, AnswerInv, SniffersAgree, OneAnswer, scenario
  <2>2. CASE ~inApp /\ Respond(how)
    BY <1>15, <1>17, <2>2
  <2>3. QED
    BY <1>17, <2>1, <2>2 DEF Refuse
<1>18. CASE MethodNotAllowed \/ Default
  BY <1>17, <1>18
  DEF MethodNotAllowed, Default, AnswerInv, Unanswered, EndpointAnswered
<1>19. QED
  BY <1>3, <1>4, <1>5, <1>7, <1>8, <1>9, <1>10, <1>11, <1>12, <1>13, <1>14,
     <1>16, <1>18 DEF Next

\* One request gets one answer, whatever the routing tree, the matches, the
\* endpoints and the number of messages.
THEOREM AnsweredOnce == Spec => []OneAnswer
<1>1. AnswerInv => OneAnswer
  BY DEF AnswerInv
<1>2. QED
  BY <1>1, AnswerInit, AnswerStep, PTL DEF Spec

\* Every router in progress knows whether the request was answered.
THEOREM SniffersKnow == Spec => []SniffersAgree
<1>1. AnswerInv => SniffersAgree
  BY DEF AnswerInv
<1>2. QED
  BY <1>1, AnswerInit, AnswerStep, PTL DEF Spec

\* No endpoint runs once the request was answered.
THEOREM AnswerIsFinal == Spec => NoDispatchAfterAnswer
<1>1. AnswerInv /\ [Next]_vars => [wire # <<>> => visited' = visited]_vars
  <2> SUFFICES ASSUME AnswerInv, [Next]_vars, wire # <<>>
               PROVE  visited' = visited
    OBVIOUS
  <2>1. CASE UNCHANGED vars \/ Done
    BY <2>1 DEF Done, vars
  <2>2. ~EnterEndpoint
    BY DEF EnterEndpoint, AnswerInv, Unanswered
  <2>3. QED
    BY <2>1, <2>2 DEF Next, Skip, EnterInclude, KeepPartial, ReceiveFromServer,
       ReceiveRepeated, Receive, EndpointSend, EndpointRaise, EndpointLeave,
       End, Answered, Resume, ContinueAfterAnswer, CollectPartials,
       RedirectSlash, PassPartials, MethodNotAllowed, Default, Refuse, Respond
<1>2. QED
  BY <1>1, AnswerInit, AnswerStep, PTL DEF Spec, NoDispatchAfterAnswer

-----------------------------------------------------------------------------
(* Walks through a tree.                                                    *)

LEMMA WalkFacts ==
  ASSUME NEW t \in Trees, NEW from \in SUBSET AllRoutes(t),
         NEW through \in SUBSET Includes(t)
  PROVE  /\ from \subseteq Walk(t, from, through)
         /\ Walk(t, from, through) \subseteq AllRoutes(t)
         /\ \A x \in Walk(t, from, through) \cap through :
              RoutesOf(t, t.into[x]) \subseteq Walk(t, from, through)
         /\ \A S \in SUBSET AllRoutes(t) :
              (from \subseteq S /\ \A x \in S \cap through : RoutesOf(t, t.into[x]) \subseteq S)
                => Walk(t, from, through) \subseteq S
<1>1. \A x \in through : RoutesOf(t, t.into[x]) \subseteq AllRoutes(t)
  BY TreeFacts DEF AllRoutes
<1>2. \A x \in Walk(t, from, through) \cap through :
        RoutesOf(t, t.into[x]) \subseteq Walk(t, from, through)
  <2> SUFFICES ASSUME NEW x \in Walk(t, from, through) \cap through,
                      NEW y \in RoutesOf(t, t.into[x]),
                      NEW S \in SUBSET AllRoutes(t), from \subseteq S,
                      \A z \in S \cap through : RoutesOf(t, t.into[z]) \subseteq S
               PROVE  y \in S
    BY <1>1 DEF Walk
  <2>1. x \in S
    BY DEF Walk
  <2>2. QED
    BY <2>1
<1>3. QED
  BY <1>2 DEF Walk

\* What lies below a route contains it and all that lies below what it contains.
LEMMA BelowFacts ==
  ASSUME NEW t \in Trees, NEW x \in AllRoutes(t)
  PROVE  /\ x \in Below(t, x) /\ Below(t, x) \subseteq AllRoutes(t)
         /\ \A y \in Below(t, x) \cap Includes(t) :
              RoutesOf(t, t.into[y]) \subseteq Below(t, x)
         /\ \A y \in Below(t, x) : Below(t, y) \subseteq Below(t, x)
<1>1. {x} \in SUBSET AllRoutes(t) /\ Includes(t) \in SUBSET Includes(t)
  OBVIOUS
<1>2. /\ {x} \subseteq Below(t, x) /\ Below(t, x) \subseteq AllRoutes(t)
      /\ \A y \in Below(t, x) \cap Includes(t) : RoutesOf(t, t.into[y]) \subseteq Below(t, x)
  BY <1>1, WalkFacts DEF Below
<1>3. ASSUME NEW y \in Below(t, x)
      PROVE  Below(t, y) \subseteq Below(t, x)
  <2>1. {y} \in SUBSET AllRoutes(t) /\ {y} \subseteq Below(t, x)
    BY <1>2
  <2>2. \A S \in SUBSET AllRoutes(t) :
          ({y} \subseteq S /\ \A z \in S \cap Includes(t) : RoutesOf(t, t.into[z]) \subseteq S)
            => Below(t, y) \subseteq S
    BY <1>1, <2>1, WalkFacts DEF Below
  <2>3. QED
    BY <1>2, <2>1, <2>2
<1>4. QED
  BY <1>2, <1>3

-----------------------------------------------------------------------------
(* What the steps do to the app() calls in progress.                        *)

\* The routes of an app() in progress, and the one it is at.
ListOf(i) == tree.routes[stack[i].router]
AtOf(i) == ListOf(i)[stack[i].at]
Tried == {visited[i] : i \in DOMAIN visited}

LEMMA FrameFacts ==
  ASSUME TypeOK, pc # "done"
  PROVE  /\ tree \in Trees /\ Len(stack) \in Nat \ {0} /\ DOMAIN stack = 1 .. Len(stack)
         /\ Len(sniffer) = Len(stack) /\ DOMAIN sniffer = 1 .. Len(stack)
         /\ \A i \in DOMAIN stack :
              /\ stack[i].router \in Routers(tree) /\ stack[i].at \in Nat \ {0}
              /\ ListOf(i) \in Seq(AllRoutes(tree)) /\ Len(ListOf(i)) \in Nat
              /\ DOMAIN ListOf(i) = 1 .. Len(ListOf(i))
              /\ RoutesOf(tree, stack[i].router) = {ListOf(i)[k] : k \in DOMAIN ListOf(i)}
              /\ RoutesOf(tree, stack[i].router) \subseteq AllRoutes(tree)
         /\ Top = stack[Len(stack)] /\ Routes = ListOf(Len(stack))
         /\ Route = AtOf(Len(stack))
         /\ Exhausted <=> stack[Len(stack)].at > Len(ListOf(Len(stack)))
<1>1. stack \in Seq(FrameType(tree)) /\ tree \in Trees /\ Len(stack) \in Nat \ {0}
  BY TopFacts DEF TypeOK
<1>2. sniffer \in Seq(SnifferType) /\ Len(sniffer) = Len(stack)
  BY DEF TypeOK
<1>3. ASSUME NEW i \in DOMAIN stack
      PROVE  /\ stack[i].router \in Routers(tree) /\ stack[i].at \in Nat \ {0}
             /\ ListOf(i) \in Seq(AllRoutes(tree)) /\ Len(ListOf(i)) \in Nat
             /\ DOMAIN ListOf(i) = 1 .. Len(ListOf(i))
             /\ RoutesOf(tree, stack[i].router) = {ListOf(i)[k] : k \in DOMAIN ListOf(i)}
             /\ RoutesOf(tree, stack[i].router) \subseteq AllRoutes(tree)
  <2>1. stack[i] \in FrameType(tree)
    BY <1>1
  <2>2. stack[i].router \in Routers(tree) /\ stack[i].at \in Nat \ {0}
    BY <2>1 DEF FrameType
  <2>3. ListOf(i) \in Seq(AllRoutes(tree))
    BY <1>1, <2>2, TreeFacts DEF ListOf
  <2>4. Len(ListOf(i)) \in Nat /\ DOMAIN ListOf(i) = 1 .. Len(ListOf(i))
    BY <2>3
  <2>5. RoutesOf(tree, stack[i].router) = {ListOf(i)[k] : k \in DOMAIN ListOf(i)}
    BY DEF RoutesOf, ListOf
  <2>6. RoutesOf(tree, stack[i].router) \subseteq AllRoutes(tree)
    BY <2>2 DEF AllRoutes
  <2>7. QED
    BY <2>2, <2>3, <2>4, <2>5, <2>6
<1>4. DOMAIN stack = 1 .. Len(stack) /\ DOMAIN sniffer = 1 .. Len(stack)
  BY <1>1, <1>2
<1>5. /\ Top = stack[Len(stack)] /\ Routes = ListOf(Len(stack))
      /\ Route = AtOf(Len(stack))
      /\ Exhausted <=> stack[Len(stack)].at > Len(ListOf(Len(stack)))
  BY DEF Top, Routes, ListOf, AtOf, Route, Exhausted
<1>6. QED
  BY <1>1, <1>2, <1>3, <1>4, <1>5

\* On to the next route.
LEMMA NextFacts ==
  ASSUME TypeOK, pc # "done", NEW b, NEW p, stack' = NextRoute(b, p)
  PROVE  /\ Len(stack') = Len(stack) /\ DOMAIN stack' = DOMAIN stack
         /\ \A i \in DOMAIN stack :
              /\ stack'[i].router = stack[i].router
              /\ stack'[i].at = IF i = Len(stack) THEN stack[i].at + 1 ELSE stack[i].at
<1>1. stack \in Seq(FrameType(tree)) /\ Len(stack) \in Nat \ {0}
  BY TopFacts DEF TypeOK
<1>2. PICK f : f = [router |-> Top.router, at |-> Top.at + 1,
                    had |-> Top.had \/ b, partials |-> Top.partials \o p]
  OBVIOUS
<1>3. f.router = stack[Len(stack)].router /\ f.at = stack[Len(stack)].at + 1
  BY <1>2 DEF Top
<1>4. stack' = [stack EXCEPT ![Len(stack)] = f]
  BY <1>2 DEF NextRoute
<1>5. QED
  BY <1>1, <1>3, <1>4

\* app() of another router begins.
LEMMA EnterFacts ==
  ASSUME TypeOK, pc # "done", NEW r, stack' = Append(stack, Frame(r)),
         sniffer' = Append(sniffer, Unsniffed)
  PROVE  /\ Len(stack') = Len(stack) + 1 /\ DOMAIN stack' = 1 .. Len(stack) + 1
         /\ DOMAIN sniffer' = 1 .. Len(stack) + 1
         /\ \A i \in DOMAIN stack : stack'[i] = stack[i] /\ sniffer'[i] = sniffer[i]
         /\ stack'[Len(stack) + 1].router = r /\ stack'[Len(stack) + 1].at = 1
         /\ sniffer'[Len(stack) + 1] = Unsniffed
<1>1. /\ stack \in Seq(FrameType(tree)) /\ Len(stack) \in Nat \ {0}
      /\ sniffer \in Seq(SnifferType) /\ Len(sniffer) = Len(stack)
  BY TopFacts DEF TypeOK
<1>2. Frame(r).router = r /\ Frame(r).at = 1
  BY DEF Frame
<1>3. QED
  BY <1>1, <1>2

\* An app() ends, and the one around it goes on; or there is none.
LEMMA LeaveFacts ==
  ASSUME TypeOK, pc # "done", NEW s, NEW sniffers, Leave(s, sniffers),
         sniffers = sniffer \/ sniffers = Sent
  PROVE  /\ Len(stack) = 1 => pc' = "done" /\ outcome' = "returned"
         /\ Len(stack) > 1 =>
              /\ pc' = "signal" /\ outcome' = outcome
              /\ Len(stack') = Len(stack) - 1
         /\ signal' = s
         /\ DOMAIN stack' = 1 .. Len(stack) - 1 /\ DOMAIN sniffer' = 1 .. Len(stack) - 1
         /\ \A i \in 1 .. Len(stack) - 1 :
              /\ stack'[i] = stack[i]
              /\ sniffer'[i].message = sniffer[i].message
              /\ sniffer'[i].repeat = sniffer[i].repeat
<1>1. /\ stack \in Seq(FrameType(tree)) /\ Len(stack) \in Nat \ {0}
      /\ sniffer \in Seq(SnifferType) /\ Len(sniffer) = Len(stack)
      /\ DOMAIN sniffer = 1 .. Len(stack)
  BY TopFacts DEF TypeOK
<1>2. /\ sniffers \in Seq(SnifferType) /\ Len(sniffers) = Len(stack)
      /\ \A i \in DOMAIN sniffer : /\ sniffers[i].message = sniffer[i].message
                                   /\ sniffers[i].repeat = sniffer[i].repeat
  <2>1. CASE sniffers = sniffer
    BY <1>1, <2>1
  <2>2. CASE sniffers = Sent
    <3>1. sniffers \in Seq(SnifferType) /\ Len(sniffers) = Len(stack)
      BY <1>1, <2>2, SentType
    <3>2. ASSUME NEW i \in DOMAIN sniffer
          PROVE  /\ sniffers[i].message = sniffer[i].message
                 /\ sniffers[i].repeat = sniffer[i].repeat
      <4>1. sniffers[i] = [message |-> sniffer[i].message, repeat |-> sniffer[i].repeat,
                           sent |-> TRUE]
        BY <2>2 DEF Sent
      <4>2. QED
        BY <4>1
    <3>3. QED
      BY <3>1, <3>2
  <2>3. QED
    BY <2>1, <2>2
<1>3. /\ stack' = SubSeq(stack, 1, Len(stack) - 1)
      /\ sniffer' = SubSeq(sniffers, 1, Len(stack) - 1)
  BY DEF Leave
<1>4. /\ DOMAIN stack' = 1 .. Len(stack) - 1 /\ DOMAIN sniffer' = 1 .. Len(stack) - 1
      /\ Len(stack') = Len(stack) - 1
      /\ \A i \in 1 .. Len(stack) - 1 : stack'[i] = stack[i] /\ sniffer'[i] = sniffers[i]
  BY <1>1, <1>2, <1>3
<1>5. \A i \in 1 .. Len(stack) - 1 :
        /\ stack'[i] = stack[i]
        /\ sniffer'[i].message = sniffer[i].message
        /\ sniffer'[i].repeat = sniffer[i].repeat
  BY <1>1, <1>2, <1>4
<1>6. /\ Len(stack) = 1 => pc' = "done" /\ outcome' = "returned"
      /\ Len(stack) > 1 => pc' = "signal" /\ outcome' = outcome
      /\ signal' = s
  BY <1>1 DEF Leave
<1>7. QED
  BY <1>4, <1>5, <1>6
-----------------------------------------------------------------------------
(* No endpoint is passed over.  What makes it hold: the routes that the walk *)
(* has passed are done with, and so is all that lies behind them, in every   *)
(* router that their Includes lead to.                                       *)

\* Every app() in progress was entered through the Include that the one around it
\* is at; a dispatch in progress, or what came back of it, belongs to the innermost.
WalkInv ==
  /\ outcome = "none"
  /\ stack[1].router = tree.main
  /\ \A i \in 1 .. Len(stack) - 1 :
       /\ stack[i].at \in DOMAIN ListOf(i)
       /\ AtOf(i) \in Includes(tree) /\ match[AtOf(i)] = "full"
       /\ tree.into[AtOf(i)] = stack[i + 1].router
  /\ pc # "scan" => ~Exhausted
  /\ pc # "scan" => match[Route] = "full"
  /\ pc = "endpoint" => Route \notin Includes(tree)
  /\ pc # "scan" /\ Route \notin Includes(tree) => Route = current /\ current \in Tried
  /\ pc = "signal" /\ Route \notin Includes(tree) => signal.kind # "pass"
  /\ pc = "signal" /\ Route \in Includes(tree) => signal.kind # "continue"

\* A set of routes that are done with: those that match were tried, and those that
\* lead into a router have all of its routes in the set.
Settled(S) ==
  /\ S \subseteq AllRoutes(tree)
  /\ \A x \in S : match[x] = "full" =>
       IF x \in Includes(tree) THEN RoutesOf(tree, tree.into[x]) \subseteq S ELSE x \in Tried

\* What was passed in every app() in progress, and what the innermost hands back.
Passed(S) ==
  /\ \A i \in DOMAIN stack : \A k \in 1 .. stack[i].at - 1 : ListOf(i)[k] \in S
  /\ pc = "signal" /\ signal.kind = "pass" => Route \in S

PassedInv ==
  Routers(tree) = tree.sub \cup {tree.main} =>
    /\ pc = "signal" /\ Route \in Includes(tree) /\ signal.kind = "return" => wire # <<>>
    /\ \E S \in SUBSET AllRoutes(tree) : Settled(S) /\ Passed(S)

SkipInv ==
  /\ pc = "done" => NoRouteSkipped
  /\ pc # "done" => WalkInv /\ PassedInv

LEMMA SkipInit == Init => SkipInv
<1> SUFFICES ASSUME Init PROVE SkipInv
  OBVIOUS
<1>1. /\ pc = "scan" /\ outcome = "none" /\ Len(stack) = 1 /\ DOMAIN stack = {1}
      /\ stack[1].router = tree.main /\ stack[1].at = 1
  BY DEF Init, Frame
<1>2. WalkInv
  BY <1>1 DEF WalkInv
<1>3. Settled({}) /\ Passed({})
  BY <1>1 DEF Settled, Passed
<1>4. QED
  BY <1>1, <1>2, <1>3 DEF SkipInv, PassedInv

\* One more route that is done with.
LEMMA SettledAdd ==
  ASSUME NEW S, Settled(S), NEW x \in AllRoutes(tree),
         match[x] = "full" =>
           IF x \in Includes(tree) THEN RoutesOf(tree, tree.into[x]) \subseteq S
           ELSE x \in Tried
  PROVE  Settled(S \cup {x})
BY DEF Settled

\* What was done with stays done with.
LEMMA SettledKeeps ==
  ASSUME NEW S, Settled(S), UNCHANGED <<tree, match>>, Tried \subseteq Tried'
  PROVE  Settled(S)'
BY DEF Settled

\* The history of dispatches only grows.
LEMMA TriedKeeps ==
  ASSUME UNCHANGED visited PROVE Tried' = Tried
BY DEF Tried

LEMMA TriedGrows ==
  ASSUME TypeOK, NEW e, visited' = Append(visited, e)
  PROVE  Tried' = Tried \cup {e}
<1>1. visited \in Seq(Endpoints(tree))
  BY DEF TypeOK
<1>2. /\ DOMAIN visited' = 1 .. Len(visited) + 1 /\ DOMAIN visited = 1 .. Len(visited)
      /\ Len(visited) \in Nat /\ visited'[Len(visited) + 1] = e
      /\ \A i \in DOMAIN visited : visited'[i] = visited[i]
  BY <1>1
<1>3. QED
  BY <1>2 DEF Tried

\* The walk goes on to the next route.
LEMMA AdvanceSkip ==
  ASSUME TypeOK, pc # "done", SkipInv, ~Exhausted,
         NEW b, NEW p, stack' = NextRoute(b, p), pc' = "scan",
         UNCHANGED <<tree, match, visited, outcome>>,
         Routers(tree) = tree.sub \cup {tree.main} =>
           \A S \in SUBSET AllRoutes(tree) :
             Settled(S) /\ Passed(S) =>
               \E R \in SUBSET AllRoutes(tree) : S \subseteq R /\ Settled(R) /\ Route \in R
  PROVE  SkipInv'
<1>1. /\ DOMAIN stack = 1 .. Len(stack) /\ Len(stack) \in Nat \ {0}
      /\ \A i \in DOMAIN stack : stack[i].at \in Nat \ {0}
      /\ Route = AtOf(Len(stack))
  BY FrameFacts
<1>2. /\ Len(stack') = Len(stack) /\ DOMAIN stack' = DOMAIN stack
      /\ \A i \in DOMAIN stack :
           /\ stack'[i].router = stack[i].router
           /\ stack'[i].at = IF i = Len(stack) THEN stack[i].at + 1 ELSE stack[i].at
  BY NextFacts
<1>3. \A i \in DOMAIN stack : ListOf(i)' = ListOf(i)
  BY <1>2 DEF ListOf
<1>4. \A i \in 1 .. Len(stack) - 1 : stack'[i].at = stack[i].at /\ AtOf(i)' = AtOf(i)
  BY <1>1, <1>2, <1>3 DEF AtOf
<1>5. WalkInv
  BY DEF SkipInv
<1>6. WalkInv'
  <2>1. outcome' = "none" /\ stack'[1].router = tree'.main
    BY <1>1, <1>2, <1>5 DEF WalkInv
  <2>2. ASSUME NEW i \in 1 .. Len(stack') - 1
        PROVE  /\ stack'[i].at \in DOMAIN ListOf(i)'
               /\ AtOf(i)' \in Includes(tree)' /\ match'[AtOf(i)'] = "full"
               /\ tree'.into[AtOf(i)'] = stack'[i + 1].router
    <3>1. i \in 1 .. Len(stack) - 1 /\ i \in DOMAIN stack /\ i + 1 \in DOMAIN stack
      BY <1>1, <1>2
    <3>2. /\ stack[i].at \in DOMAIN ListOf(i)
          /\ AtOf(i) \in Includes(tree) /\ match[AtOf(i)] = "full"
          /\ tree.into[AtOf(i)] = stack[i + 1].router
      BY <1>5, <3>1 DEF WalkInv
    <3>3. Includes(tree)' = Includes(tree)
      OBVIOUS
    <3>4. QED
      BY <1>2, <1>3, <1>4, <3>1, <3>2, <3>3
  <2>3. QED
    BY <2>1, <2>2 DEF WalkInv
<1>7. ASSUME Routers(tree) = tree.sub \cup {tree.main}
      PROVE  \E S \in SUBSET AllRoutes(tree)' : Settled(S)' /\ Passed(S)'
  <2>1. PICK S \in SUBSET AllRoutes(tree) : Settled(S) /\ Passed(S)
    BY <1>7 DEF SkipInv, PassedInv
  <2>2. PICK R \in SUBSET AllRoutes(tree) : S \subseteq R /\ Settled(R) /\ Route \in R
    BY <1>7, <2>1
  <2>3. Settled(R)'
    BY <2>2, TriedKeeps, SettledKeeps
  <2>4. Passed(R)'
    <3>1. ASSUME NEW i \in DOMAIN stack', NEW k \in 1 .. stack'[i].at - 1
          PROVE  ListOf(i)'[k] \in R
      <4>1. i \in DOMAIN stack /\ ListOf(i)' = ListOf(i) /\ stack[i].at \in Nat \ {0}
        BY <1>1, <1>2, <1>3
      <4>2. CASE k \in 1 .. stack[i].at - 1
        BY <2>1, <2>2, <4>1, <4>2 DEF Passed
      <4>3. CASE k \notin 1 .. stack[i].at - 1
        <5>1. i = Len(stack) /\ k = stack[i].at
          BY <1>2, <4>1, <4>3
        <5>2. QED
          BY <1>1, <2>2, <4>1, <5>1 DEF AtOf
      <4>4. QED
        BY <4>2, <4>3
    <3>2. QED
      BY <3>1 DEF Passed
  <2>5. QED
    BY <2>2, <2>3, <2>4
<1>8. PassedInv'
  BY <1>7 DEF PassedInv
<1>9. QED
  BY <1>6, <1>8 DEF SkipInv

\* Nothing moves: an endpoint at work, or its dispatch over.
LEMMA StaySkip ==
  ASSUME TypeOK, pc = "endpoint", SkipInv, pc' \in {"endpoint", "signal"},
         pc' = "signal" => signal'.kind # "pass",
         UNCHANGED <<tree, match, stack, visited, outcome, current>>
  PROVE  SkipInv'
<1>1. /\ Top' = Top /\ Routes' = Routes /\ Route' = Route /\ Exhausted' = Exhausted
      /\ Tried' = Tried /\ Includes(tree)' = Includes(tree)
      /\ \A i \in DOMAIN stack : ListOf(i)' = ListOf(i) /\ AtOf(i)' = AtOf(i)
  BY DEF Top, Routes, Route, Exhausted, Tried, ListOf, AtOf
<1>2. WalkInv /\ PassedInv
  BY DEF SkipInv
<1>3. Len(stack) \in Nat /\ DOMAIN stack = 1 .. Len(stack)
  BY FrameFacts
<1>4. WalkInv'
  BY <1>1, <1>2, <1>3 DEF WalkInv
<1>5. Route \notin Includes(tree)
  BY <1>2 DEF WalkInv
<1>6. ASSUME NEW S, Settled(S) /\ Passed(S)
      PROVE  Settled(S)' /\ Passed(S)'
  <2>1. Settled(S)'
    BY <1>1, <1>6, SettledKeeps
  <2>2. Passed(S)'
    BY <1>1, <1>6 DEF Passed
  <2>3. QED
    BY <2>1, <2>2
<1>7. PassedInv'
  BY <1>1, <1>2, <1>5, <1>6 DEF PassedInv
<1>8. QED
  BY <1>4, <1>7 DEF SkipInv

\* An app() ends, and the walk is back at the Include it was entered through.
LEMMA BackSkip ==
  ASSUME AnswerInv, pc # "done", SkipInv,
         NEW s, NEW sniffers, Leave(s, sniffers), sniffers = sniffer \/ sniffers = Sent,
         s.kind \in {"return", "pass"},
         UNCHANGED <<tree, match, visited>>,
         s.kind = "return" => wire' # <<>> \/ Fast(Top.router),
         s.kind = "pass" => Exhausted
  PROVE  SkipInv'
<1>0. TypeOK
  BY DEF AnswerInv
<1>1. /\ Len(stack) = 1 => pc' = "done" /\ outcome' = "returned"
      /\ Len(stack) > 1 => pc' = "signal" /\ outcome' = outcome
                           /\ Len(stack') = Len(stack) - 1
      /\ signal' = s
      /\ DOMAIN stack' = 1 .. Len(stack) - 1
      /\ \A i \in 1 .. Len(stack) - 1 : stack'[i] = stack[i]
  BY <1>0, LeaveFacts
<1>2. /\ DOMAIN stack = 1 .. Len(stack) /\ Len(stack) \in Nat \ {0} /\ tree \in Trees
      /\ \A i \in DOMAIN stack :
           /\ stack[i].at \in Nat \ {0}
           /\ DOMAIN ListOf(i) = 1 .. Len(ListOf(i)) /\ Len(ListOf(i)) \in Nat
           /\ ListOf(i) \in Seq(AllRoutes(tree))
           /\ RoutesOf(tree, stack[i].router) = {ListOf(i)[k] : k \in DOMAIN ListOf(i)}
           /\ RoutesOf(tree, stack[i].router) \subseteq AllRoutes(tree)
      /\ Top = stack[Len(stack)]
      /\ Exhausted <=> stack[Len(stack)].at > Len(ListOf(Len(stack)))
  BY <1>0, FrameFacts
<1>3. CASE Len(stack) = 1
  BY <1>1, <1>3 DEF SkipInv, NoRouteSkipped
<1>4. CASE Len(stack) # 1
  <2>0. PICK n : n = Len(stack) - 1
    OBVIOUS
  <2>1. /\ n \in 1 .. Len(stack) - 1 /\ n \in DOMAIN stack /\ n + 1 = Len(stack)
        /\ pc' = "signal" /\ Len(stack') = n /\ 1 \in 1 .. Len(stack) - 1
    <3>1. Len(stack) \in Nat \ {0} /\ DOMAIN stack = 1 .. Len(stack)
      BY <1>2
    <3>2. Len(stack) > 1
      BY <1>4, <3>1
    <3>3. pc' = "signal" /\ Len(stack') = Len(stack) - 1
      BY <1>1, <3>2
    <3>4. QED
      BY <2>0, <3>1, <3>2, <3>3
  <2>2. WalkInv
    BY DEF SkipInv
  <2>3. \A i \in 1 .. n : stack'[i] = stack[i] /\ ListOf(i)' = ListOf(i) /\ AtOf(i)' = AtOf(i)
    BY <1>1, <2>0 DEF ListOf, AtOf
  <2>4. \A i \in 1 .. n :
          /\ stack[i].at \in DOMAIN ListOf(i)
          /\ AtOf(i) \in Includes(tree) /\ match[AtOf(i)] = "full"
          /\ tree.into[AtOf(i)] = stack[i + 1].router
    BY <2>0, <2>2 DEF WalkInv
  <2>5. Route' = AtOf(n) /\ ~Exhausted' /\ Includes(tree)' = Includes(tree)
    <3>1. Route' = AtOf(n)'
      BY <2>1 DEF Route, Routes, Top, AtOf, ListOf
    <3>2. Exhausted' <=> stack'[n].at > Len(ListOf(n)')
      BY <2>1 DEF Exhausted, Routes, Top, ListOf
    <3>3. stack[n].at \in 1 .. Len(ListOf(n)) /\ Len(ListOf(n)) \in Nat
      BY <1>2, <2>1, <2>4
    <3>4. QED
      BY <2>1, <2>3, <3>1, <3>2, <3>3
  <2>6. WalkInv'
    <3>1. outcome' = "none" /\ stack'[1].router = tree'.main
      BY <1>1, <1>4, <1>2, <2>1, <2>2 DEF WalkInv
    <3>2. ASSUME NEW i \in 1 .. Len(stack') - 1
          PROVE  /\ stack'[i].at \in DOMAIN ListOf(i)'
                 /\ AtOf(i)' \in Includes(tree)' /\ match'[AtOf(i)'] = "full"
                 /\ tree'.into[AtOf(i)'] = stack'[i + 1].router
      <4>1. i \in 1 .. n /\ i + 1 \in 1 .. n
        BY <1>2, <2>1
      <4>2. QED
        BY <2>3, <2>4, <2>5, <4>1
    <3>3. match'[Route'] = "full" /\ Route' \in Includes(tree)' /\ signal'.kind # "continue"
      BY <1>1, <2>1, <2>4, <2>5
    <3>4. QED
      BY <2>1, <2>5, <3>1, <3>2, <3>3 DEF WalkInv
  <2>7. ASSUME Routers(tree) = tree.sub \cup {tree.main}
        PROVE  /\ signal'.kind = "return" => wire' # <<>>
               /\ \E S \in SUBSET AllRoutes(tree)' : Settled(S)' /\ Passed(S)'
    <3>1. ~Fast(Top.router)
      <4> SUFFICES ASSUME Fast(Top.router) PROVE FALSE
        OBVIOUS
      <4>1. Top.router = tree.main
        <5>1. Top.router \in Routers(tree)
          BY <1>0, TopFacts
        <5>2. QED
          BY <2>7, <5>1 DEF Fast
      <4>2. Len(tree.routes[tree.main]) = 1 /\ tree.routes[tree.main][1] \notin Includes(tree)
        BY <4>1 DEF Fast
      <4>3. ListOf(1) = tree.routes[tree.main]
        BY <2>2 DEF WalkInv, ListOf
      <4>4. stack[1].at \in 1 .. Len(ListOf(1)) /\ AtOf(1) \in Includes(tree)
        BY <1>2, <2>1, <2>4
      <4>5. QED
        BY <4>2, <4>3, <4>4 DEF AtOf
    <3>2. PICK S \in SUBSET AllRoutes(tree) : Settled(S) /\ Passed(S)
      BY <2>7 DEF SkipInv, PassedInv
    <3>3. \A i \in 1 .. n : \A k \in 1 .. stack'[i].at - 1 : ListOf(i)'[k] \in S
      BY <1>2, <2>1, <2>3, <3>2 DEF Passed
    <3>4. \E R \in SUBSET AllRoutes(tree) :
            S \subseteq R /\ Settled(R) /\ (signal'.kind = "pass" => Route' \in R)
      <4>1. CASE signal'.kind # "pass"
        BY <3>2, <4>1
      <4>2. CASE signal'.kind = "pass"
        <5>1. RoutesOf(tree, tree.into[AtOf(n)]) \subseteq S
          <6>1. tree.into[AtOf(n)] = stack[Len(stack)].router /\ Len(stack) \in DOMAIN stack
            BY <1>2, <2>1, <2>4
          <6>2. stack[Len(stack)].at > Len(ListOf(Len(stack)))
            BY <1>1, <1>2, <4>2
          <6>3. \A k \in DOMAIN ListOf(Len(stack)) : k \in 1 .. stack[Len(stack)].at - 1
            BY <1>2, <6>1, <6>2
          <6>4. \A k \in DOMAIN ListOf(Len(stack)) : ListOf(Len(stack))[k] \in S
            BY <3>2, <6>1, <6>3 DEF Passed
          <6>5. QED
            <7>1. RoutesOf(tree, stack[Len(stack)].router)
                    = {ListOf(Len(stack))[k] : k \in DOMAIN ListOf(Len(stack))}
              BY <1>2, <6>1
            <7>2. QED
              BY <6>1, <6>4, <7>1
        <5>2. AtOf(n) \in AllRoutes(tree)
          <6>1. ListOf(n) \in Seq(AllRoutes(tree)) /\ stack[n].at \in DOMAIN ListOf(n)
            BY <1>2, <2>1, <2>4
          <6>2. QED
            BY <6>1 DEF AtOf
        <5>3. Settled(S \cup {AtOf(n)})
          <6>1. n \in 1 .. n
            BY <2>1, <1>2
          <6>2. AtOf(n) \in Includes(tree)
            BY <2>4, <6>1
          <6>3. QED
            BY <3>2, <5>1, <5>2, <6>2, SettledAdd
        <5>4. QED
          BY <2>5, <5>2, <5>3
      <4>3. QED
        BY <4>1, <4>2
    <3>5. PICK R \in SUBSET AllRoutes(tree) :
            S \subseteq R /\ Settled(R) /\ (signal'.kind = "pass" => Route' \in R)
      BY <3>4
    <3>6. Settled(R)' /\ Passed(R)'
      <4>1. Settled(R)'
        BY <3>5, TriedKeeps, SettledKeeps
      <4>2. DOMAIN stack' = 1 .. n
        BY <1>1, <2>0
      <4>3. Passed(R)'
        BY <3>3, <3>5, <4>2 DEF Passed
      <4>4. QED
        BY <4>1, <4>3
    <3>7. QED
      BY <1>1, <3>1, <3>5, <3>6
  <2>8. PassedInv'
    BY <2>7 DEF PassedInv
  <2>9. QED
    BY <2>1, <2>6, <2>8 DEF SkipInv
<1>5. QED
  BY <1>3, <1>4

\* The error of a router that is no sub-router: everything was done with.
LEMMA NothingLeft ==
  ASSUME TypeOK, WalkInv, NEW S \in SUBSET AllRoutes(tree), Settled(S),
         RoutesOf(tree, tree.main) \subseteq S
  PROVE  \A e \in Matched : e \in Tried
<1> DEFINE through == {x \in Includes(tree) : match[x] = "full"}
<1>1. tree \in Trees /\ tree.main \in Routers(tree)
  BY TreeFacts DEF TypeOK
<1>2. RoutesOf(tree, tree.main) \in SUBSET AllRoutes(tree)
  BY <1>1 DEF AllRoutes
<1>3. through \in SUBSET Includes(tree)
  OBVIOUS
<1>4. \A x \in S \cap through : RoutesOf(tree, tree.into[x]) \subseteq S
  BY DEF Settled
<1>5. Matched = {e \in Endpoints(tree) \cap Walk(tree, RoutesOf(tree, tree.main), through) :
                   match[e] = "full"}
  BY DEF Matched
<1> HIDE DEF through
<1>6. Walk(tree, RoutesOf(tree, tree.main), through) \subseteq S
  BY <1>1, <1>2, <1>3, <1>4, WalkFacts
<1>7. QED
  BY <1>5, <1>6 DEF Settled, Endpoints

LEMMA RefuseSkip ==
  ASSUME AnswerInv, pc # "done", SkipInv, NEW how, Refuse(how),
         UNCHANGED visited,
         \/ Exhausted /\ Top.router \notin tree.sub
         \/ pc = "scan" /\ ~Exhausted /\ Fast(Top.router) /\ match[Route] = "partial"
         \/ pc = "signal" /\ signal.kind = "continue" /\ Fast(Top.router)
  PROVE  SkipInv'
<1>0. TypeOK
  BY DEF AnswerInv
<1>1. CASE ~inApp /\ Respond(how)
  <2>1. /\ Leave(Return, Sent) /\ UNCHANGED <<tree, match, visited>>
        /\ wire' = Append(wire, how) /\ Return.kind = "return"
    BY <1>1 DEF Respond, scenario, Return
  <2>2. wire' # <<>>
    BY <1>0, <2>1 DEF TypeOK
  <2>3. QED
    BY <2>1, <2>2, BackSkip
<1>2. CASE inApp /\ End(how)
  <2>1. /\ pc' = "done" /\ UNCHANGED <<tree, match, visited>> /\ WalkInv
    BY <1>2 DEF End, scenario, SkipInv
  <2>2. ASSUME Routers(tree) = tree.sub \cup {tree.main}
        PROVE  \A e \in Matched : e \in Tried
    <3>0. Top.router \in Routers(tree) /\ Top.router \notin tree.sub
      BY <1>0, TopFacts DEF Fast
    <3>1. Top.router = tree.main
      BY <2>2, <3>0
    <3>2. PICK S \in SUBSET AllRoutes(tree) : Settled(S) /\ Passed(S)
      BY <2>2 DEF SkipInv, PassedInv
    <3>3. /\ Len(stack) \in DOMAIN stack /\ Top = stack[Len(stack)]
          /\ Routes = ListOf(Len(stack)) /\ Len(Routes) \in Nat
          /\ Top.at \in Nat \ {0} /\ DOMAIN Routes = 1 .. Len(Routes)
          /\ RoutesOf(tree, tree.main) = {Routes[k] : k \in DOMAIN Routes}
      <4>1. /\ Len(stack) \in DOMAIN stack /\ Top = stack[Len(stack)]
            /\ Routes = ListOf(Len(stack))
        BY <1>0, FrameFacts
      <4>2. QED
        BY <1>0, <3>1, <4>1, FrameFacts
    <3>4. CASE Exhausted
      <4>1. \A k \in DOMAIN Routes : k \in 1 .. Top.at - 1
        BY <3>3, <3>4 DEF Exhausted
      <4>2. \A k \in DOMAIN Routes : Routes[k] \in S
        BY <3>2, <3>3, <4>1 DEF Passed
      <4>3. RoutesOf(tree, tree.main) \subseteq S
        BY <3>3, <4>2
      <4>4. QED
        BY <1>0, <2>1, <3>2, <4>3, NothingLeft
    <3>5. CASE ~Exhausted
      <4>1. Fast(Top.router) /\ (match[Route] = "full" => Route \in Tried /\ Route \notin Includes(tree))
        <5>1. CASE match[Route] = "partial"
          <6>1. Fast(Top.router)
            BY <2>1, <3>5, <5>1 DEF WalkInv
          <6>2. QED
            BY <5>1, <6>1
        <5>2. CASE match[Route] # "partial"
          <6>1. pc = "signal" /\ signal.kind = "continue" /\ Fast(Top.router)
            BY <3>5, <5>2
          <6>2. Route \notin Includes(tree)
            BY <2>1, <6>1 DEF WalkInv
          <6>3. Route \in Tried
            BY <2>1, <6>1, <6>2 DEF WalkInv
          <6>4. QED
            BY <6>1, <6>2, <6>3
        <5>3. QED
          BY <5>1, <5>2
      <4>2. Len(Routes) = 1
        BY <4>1 DEF Fast, Routes
      <4>3. Top.at = 1 /\ DOMAIN Routes = {1}
        BY <3>3, <3>5, <4>2 DEF Exhausted
      <4>4. RoutesOf(tree, tree.main) = {Route}
        BY <3>3, <4>3 DEF Route
      <4>5. Route \in AllRoutes(tree)
        BY <1>0, <3>5, TopFacts
      <4>6. Settled({Route})
        BY <4>1, <4>5 DEF Settled
      <4>7. QED
        BY <1>0, <2>1, <4>4, <4>5, <4>6, NothingLeft
    <3>6. QED
      BY <3>4, <3>5
  <2>3. Matched' = Matched
    BY <2>1 DEF Matched
  <2>4. NoRouteSkipped'
    BY <2>1, <2>2, <2>3 DEF NoRouteSkipped, Tried
  <2>5. QED
    BY <2>1, <2>4 DEF SkipInv
<1>3. QED
  BY <1>1, <1>2 DEF Refuse

LEMMA SkipStep == AnswerInv /\ SkipInv /\ [Next]_vars => SkipInv'
<1> SUFFICES ASSUME AnswerInv, SkipInv, [Next]_vars PROVE SkipInv'
  OBVIOUS
<1>0. TypeOK
  BY DEF AnswerInv
<1>1. CASE UNCHANGED vars \/ Done
  <2>1. UNCHANGED <<tree, match, pc, stack, current, signal, wire, outcome, visited>>
    BY <1>1 DEF Done, vars, scenario
  <2>2. /\ Top' = Top /\ Routes' = Routes /\ Route' = Route /\ Exhausted' = Exhausted
        /\ Tried' = Tried /\ Includes(tree)' = Includes(tree) /\ Matched' = Matched
        /\ \A i : ListOf(i)' = ListOf(i) /\ AtOf(i)' = AtOf(i)
    BY <2>1 DEF Top, Routes, Route, Exhausted, Tried, ListOf, AtOf, Matched
  <2>3. NoRouteSkipped => NoRouteSkipped'
    BY <2>1, <2>2 DEF NoRouteSkipped
  <2>4. WalkInv => WalkInv'
    BY <2>1, <2>2 DEF WalkInv
  <2>5. ASSUME NEW S
        PROVE  Settled(S)' = Settled(S) /\ Passed(S)' = Passed(S)
    BY <2>1, <2>2 DEF Settled, Passed
  <2>6. PassedInv => PassedInv'
    BY <2>1, <2>2, <2>5 DEF PassedInv
  <2>7. QED
    BY <2>1, <2>3, <2>4, <2>6 DEF SkipInv
<1>2. CASE Skip
  <2>1. /\ pc = "scan" /\ ~Exhausted /\ match[Route] = "none"
        /\ stack' = NextRoute(FALSE, <<>>) /\ pc' = "scan"
        /\ UNCHANGED <<tree, match, visited, outcome>>
    BY <1>2 DEF Skip, scenario
  <2>2. Route \in AllRoutes(tree)
    BY <1>0, <2>1, TopFacts
  <2>3. ASSUME NEW S \in SUBSET AllRoutes(tree), Settled(S) /\ Passed(S)
        PROVE  \E R \in SUBSET AllRoutes(tree) : S \subseteq R /\ Settled(R) /\ Route \in R
    <3>1. Settled(S \cup {Route})
      BY <2>1, <2>2, <2>3, SettledAdd
    <3>2. QED
      BY <2>2, <3>1
  <2>4. QED
    BY <1>0, <2>1, <2>3, AdvanceSkip
<1>3. CASE KeepPartial
  <2>1. /\ pc = "scan" /\ ~Exhausted /\ match[Route] = "partial"
        /\ stack' = NextRoute(TRUE, <<Route>>) /\ pc' = "scan"
        /\ UNCHANGED <<tree, match, visited, outcome>>
    BY <1>3 DEF KeepPartial, scenario
  <2>2. Route \in AllRoutes(tree)
    BY <1>0, <2>1, TopFacts
  <2>3. ASSUME NEW S \in SUBSET AllRoutes(tree), Settled(S) /\ Passed(S)
        PROVE  \E R \in SUBSET AllRoutes(tree) : S \subseteq R /\ Settled(R) /\ Route \in R
    <3>1. Settled(S \cup {Route})
      BY <2>1, <2>2, <2>3, SettledAdd
    <3>2. QED
      BY <2>2, <3>1
  <2>4. QED
    BY <1>0, <2>1, <2>3, AdvanceSkip
<1>4. CASE Resume
  <2>1. /\ pc = "signal" /\ signal.kind \in {"return", "continue"} /\ ~Sniffer.sent
        /\ stack' = NextRoute(TRUE, <<>>) /\ pc' = "scan"
        /\ UNCHANGED <<tree, match, visited, outcome>>
    BY <1>4 DEF Resume, scenario
  <2>2. WalkInv /\ ~Exhausted
    BY <2>1 DEF SkipInv, WalkInv
  <2>3. Route \in AllRoutes(tree)
    BY <1>0, <2>1, <2>2, TopFacts
  <2>4. wire = <<>>
    <3>1. Len(stack) \in DOMAIN sniffer
      BY <1>0, <2>1, FrameFacts
    <3>2. QED
      BY <2>1, <3>1 DEF AnswerInv, SniffersAgree, Sniffer
  <2>5. ASSUME NEW S \in SUBSET AllRoutes(tree), Settled(S) /\ Passed(S),
               Routers(tree) = tree.sub \cup {tree.main}
        PROVE  \E R \in SUBSET AllRoutes(tree) : S \subseteq R /\ Settled(R) /\ Route \in R
    <3>1. Route \notin Includes(tree)
      <4>1. Route \in Includes(tree) => signal.kind = "return"
        BY <2>1, <2>2 DEF WalkInv
      <4>2. QED
        BY <2>1, <2>4, <2>5, <4>1 DEF SkipInv, PassedInv
    <3>2. Route \in Tried
      BY <2>1, <2>2, <3>1 DEF WalkInv
    <3>3. Settled(S \cup {Route})
      BY <2>3, <2>5, <3>1, <3>2, SettledAdd
    <3>4. QED
      BY <2>3, <3>3
  <2>6. QED
    BY <1>0, <2>1, <2>2, <2>5, AdvanceSkip
<1>5. CASE CollectPartials
  <2>1. /\ pc = "signal" /\ signal.kind = "pass"
        /\ stack' = NextRoute(TRUE, signal.partials) /\ pc' = "scan"
        /\ UNCHANGED <<tree, match, visited, outcome>>
    BY <1>5 DEF CollectPartials, scenario
  <2>2. ~Exhausted
    BY <2>1 DEF SkipInv, WalkInv
  <2>3. ASSUME NEW S \in SUBSET AllRoutes(tree), Settled(S) /\ Passed(S)
        PROVE  \E R \in SUBSET AllRoutes(tree) : S \subseteq R /\ Settled(R) /\ Route \in R
    BY <2>1, <2>3 DEF Passed
  <2>4. QED
    BY <1>0, <2>1, <2>2, <2>3, AdvanceSkip
<1>6. CASE EnterEndpoint
  <2>1. /\ pc = "scan" /\ ~Exhausted /\ match[Route] = "full" /\ Route \notin Includes(tree)
        /\ pc' = "endpoint" /\ current' = Route /\ visited' = Append(visited, Route)
        /\ UNCHANGED <<tree, match, stack, signal, wire, outcome>>
    BY <1>6 DEF EnterEndpoint, scenario
  <2>2. /\ Top' = Top /\ Routes' = Routes /\ Route' = Route /\ Exhausted' = Exhausted
        /\ Includes(tree)' = Includes(tree)
        /\ \A i : ListOf(i)' = ListOf(i) /\ AtOf(i)' = AtOf(i)
    BY <2>1 DEF Top, Routes, Route, Exhausted, ListOf, AtOf
  <2>3. Tried' = Tried \cup {Route}
    BY <1>0, <2>1, TriedGrows
  <2>4. WalkInv /\ PassedInv
    BY <2>1 DEF SkipInv
  <2>5. WalkInv'
    BY <2>1, <2>2, <2>3, <2>4 DEF WalkInv
  <2>6. ASSUME NEW S, Settled(S) /\ Passed(S)
        PROVE  Settled(S)' /\ Passed(S)'
    <3>1. Settled(S)'
      BY <2>1, <2>3, <2>6, SettledKeeps
    <3>2. Passed(S)'
      BY <2>1, <2>2, <2>6 DEF Passed
    <3>3. QED
      BY <3>1, <3>2
  <2>7. PassedInv'
    BY <2>1, <2>4, <2>6 DEF PassedInv
  <2>8. QED
    BY <2>1, <2>5, <2>7 DEF SkipInv
<1>7. CASE EnterInclude
  <2>1. /\ pc = "scan" /\ ~Exhausted /\ match[Route] = "full" /\ Route \in Includes(tree)
        /\ stack' = Append(stack, Frame(tree.into[Route]))
        /\ sniffer' = Append(sniffer, Unsniffed)
        /\ pc' = "scan" /\ UNCHANGED <<tree, match, visited, outcome>>
    BY <1>7 DEF EnterInclude, scenario
  <2>2. PICK n : n = Len(stack)
    OBVIOUS
  <2>3. PICK r : r = tree.into[Route]
    OBVIOUS
  <2>4. /\ Len(stack') = n + 1 /\ DOMAIN stack' = 1 .. n + 1
        /\ \A i \in DOMAIN stack : stack'[i] = stack[i]
        /\ stack'[n + 1].router = r /\ stack'[n + 1].at = 1
    BY <1>0, <2>1, <2>2, <2>3, EnterFacts
  <2>5. /\ DOMAIN stack = 1 .. n /\ n \in Nat \ {0} /\ Route = AtOf(n)
        /\ \A i \in DOMAIN stack :
             /\ stack[i].at \in Nat \ {0}
             /\ DOMAIN ListOf(i) = 1 .. Len(ListOf(i)) /\ Len(ListOf(i)) \in Nat
        /\ stack[n].at <= Len(ListOf(n))
    BY <1>0, <2>1, <2>2, FrameFacts
  <2>6. \A i \in 1 .. n : ListOf(i)' = ListOf(i) /\ AtOf(i)' = AtOf(i)
    BY <2>1, <2>4, <2>5 DEF ListOf, AtOf
  <2>7. WalkInv /\ PassedInv
    BY <2>1 DEF SkipInv
  <2>8. WalkInv'
    <3>1. outcome' = "none" /\ stack'[1].router = tree'.main
      <4>1. 1 \in DOMAIN stack
        BY <2>5
      <4>2. QED
        BY <2>1, <2>4, <2>7, <4>1 DEF WalkInv
    <3>2. ASSUME NEW i \in 1 .. Len(stack') - 1
          PROVE  /\ stack'[i].at \in DOMAIN ListOf(i)'
                 /\ AtOf(i)' \in Includes(tree)' /\ match'[AtOf(i)'] = "full"
                 /\ tree'.into[AtOf(i)'] = stack'[i + 1].router
      <4>1. i \in 1 .. n /\ i \in DOMAIN stack /\ Includes(tree)' = Includes(tree)
        BY <2>1, <2>4, <2>5
      <4>2. CASE i = n
        <5>1. stack[n].at \in DOMAIN ListOf(n)
          BY <2>5
        <5>2. QED
          BY <2>1, <2>3, <2>4, <2>5, <2>6, <4>1, <4>2, <5>1
      <4>3. CASE i # n
        <5>1. i \in 1 .. Len(stack) - 1 /\ i + 1 \in DOMAIN stack
          BY <2>2, <2>5, <4>1, <4>3
        <5>2. /\ stack[i].at \in DOMAIN ListOf(i)
              /\ AtOf(i) \in Includes(tree) /\ match[AtOf(i)] = "full"
              /\ tree.into[AtOf(i)] = stack[i + 1].router
          BY <2>7, <5>1 DEF WalkInv
        <5>3. QED
          BY <2>1, <2>4, <2>6, <4>1, <5>1, <5>2
      <4>4. QED
        BY <4>2, <4>3
    <3>3. QED
      BY <2>1, <3>1, <3>2 DEF WalkInv
  <2>9. ASSUME NEW S, Settled(S) /\ Passed(S)
        PROVE  Settled(S)' /\ Passed(S)'
    <3>1. Settled(S)'
      BY <2>1, <2>9, TriedKeeps, SettledKeeps
    <3>2. ASSUME NEW i \in DOMAIN stack', NEW k \in 1 .. stack'[i].at - 1
          PROVE  ListOf(i)'[k] \in S
      <4>1. i # n + 1
        BY <2>4
      <4>2. i \in DOMAIN stack /\ i \in 1 .. n
        BY <2>4, <2>5, <4>1
      <4>3. k \in 1 .. stack[i].at - 1 /\ ListOf(i)' = ListOf(i)
        BY <2>4, <2>6, <4>2
      <4>4. QED
        BY <2>9, <4>2, <4>3 DEF Passed
    <3>3. Passed(S)'
      BY <2>1, <3>2 DEF Passed
    <3>4. QED
      BY <3>1, <3>3
  <2>10. PassedInv'
    BY <2>1, <2>7, <2>9 DEF PassedInv
  <2>11. QED
    BY <2>1, <2>8, <2>10 DEF SkipInv
<1>8. ASSUME pc = "endpoint",
             \/ \E n, message : Receive(n, message)
             \/ EndpointSend \/ EndpointLeave("return") \/ EndpointLeave("continue")
      PROVE  SkipInv'
  <2>1. /\ pc' \in {"endpoint", "signal"}
        /\ pc' = "signal" => signal'.kind # "pass"
        /\ UNCHANGED <<tree, match, stack, visited, outcome, current>>
    BY <1>8 DEF Receive, EndpointSend, EndpointLeave, scenario
  <2>2. QED
    BY <1>0, <1>8, <2>1, StaySkip
<1>9. CASE \/ ReceiveFromServer \/ ReceiveRepeated \/ EndpointSend
           \/ EndpointLeave("return") \/ EndpointLeave("continue")
  BY <1>8, <1>9 DEF ReceiveFromServer, ReceiveRepeated, EndpointSend, EndpointLeave
<1>10. CASE EndpointRaise \/ ContinueAfterAnswer
  BY <1>10 DEF EndpointRaise, ContinueAfterAnswer, End, SkipInv, NoRouteSkipped
<1>11. CASE Answered
  <2>1. /\ pc = "signal" /\ Leave(Return, sniffer) /\ Return.kind = "return"
        /\ UNCHANGED <<tree, match, visited, wire>>
        /\ Fast(Top.router) \/ Sniffer.sent
    BY <1>11 DEF Answered, scenario, Return
  <2>2. Sniffer.sent => wire # <<>>
    <3>1. Len(stack) \in DOMAIN sniffer
      BY <1>0, <2>1, FrameFacts
    <3>2. QED
      BY <2>1, <3>1 DEF AnswerInv, SniffersAgree, Sniffer
  <2>3. QED
    BY <2>1, <2>2, BackSkip
<1>12. CASE RedirectSlash
  <2>1. /\ pc = "scan" /\ Leave(Return, Sent) /\ Return.kind = "return"
        /\ UNCHANGED <<tree, match, visited>> /\ wire' = Append(wire, "redirect")
    BY <1>12 DEF RedirectSlash, Respond, scenario, Return
  <2>2. wire' # <<>>
    <3>1. wire \in Seq(Endpoints(tree) \cup {"redirect", "404", "405"})
      BY <1>0 DEF TypeOK
    <3>2. Len(Append(wire, "redirect")) = Len(wire) + 1 /\ Len(wire) \in Nat
      BY <3>1
    <3>3. QED
      BY <2>1, <3>2
  <2>3. QED
    BY <2>1, <2>2, BackSkip
<1>13. CASE PassPartials
  <2>1. PICK s : s = [kind |-> "pass", partials |-> Top.partials]
    OBVIOUS
  <2>2. /\ pc = "scan" /\ Leave(s, sniffer) /\ s.kind = "pass" /\ Exhausted
        /\ UNCHANGED <<tree, match, visited>>
    BY <1>13, <2>1 DEF PassPartials, scenario
  <2>3. QED
    BY <2>2, BackSkip
<1>14. CASE MethodNotAllowed \/ Default
  <2>1. \E how : Refuse(how)
    BY <1>14 DEF MethodNotAllowed, Default
  <2>2. PICK how : Refuse(how)
    BY <2>1
  <2>3. UNCHANGED visited
    BY <2>2 DEF Refuse, End, Respond
  <2>4. /\ pc # "done"
        /\ \/ Exhausted /\ Top.router \notin tree.sub
           \/ pc = "scan" /\ ~Exhausted /\ Fast(Top.router) /\ match[Route] = "partial"
           \/ pc = "signal" /\ signal.kind = "continue" /\ Fast(Top.router)
    BY <1>14 DEF MethodNotAllowed, Default
  <2>5. QED
    BY <2>2, <2>3, <2>4, RefuseSkip
<1>15. QED
  BY <1>1, <1>2, <1>3, <1>4, <1>5, <1>6, <1>7, <1>9, <1>10, <1>11, <1>12, <1>13, <1>14
  DEF Next

\* An error for the whole application means that every endpoint that the request
\* matches, through whatever sub-routers, was tried first.
THEOREM NothingSkipped == Spec => []NoRouteSkipped
<1>1. SkipInv => NoRouteSkipped
  BY DEF SkipInv, WalkInv, NoRouteSkipped
<1>2. Init => AnswerInv /\ SkipInv
  BY AnswerInit, SkipInit
<1>3. AnswerInv /\ SkipInv /\ [Next]_vars => (AnswerInv /\ SkipInv)'
  BY AnswerStep, SkipStep
<1>4. QED
  BY <1>1, <1>2, <1>3, PTL DEF Spec

-----------------------------------------------------------------------------
(* What endpoints read.  Two things make it right: routes are places in the  *)
(* tree, so that no endpoint is dispatched twice and what the walk is still  *)
(* to come to has received nothing; and the message that one endpoint read   *)
(* is kept, armed, by the sniffer of the router that dispatched it, as long  *)
(* as that router is in progress.                                            *)

\* The routers in progress lie one in the other, and nothing of what is ahead was
\* tried.
PlacesInv ==
  /\ \A j \in DOMAIN stack : \A i \in 1 .. j - 1 :
       RoutesOf(tree, stack[j].router) \subseteq Below(tree, AtOf(i))
  /\ \A i \in DOMAIN stack : \A k \in DOMAIN ListOf(i) :
       (k > stack[i].at \/ (k = stack[i].at /\ i = Len(stack) /\ pc = "scan")) =>
         Below(tree, ListOf(i)[k]) \cap Tried = {}

\* No endpoint is tried twice, and one that was not tried has received nothing.
TriedOnce == \A i, j \in DOMAIN visited : visited[i] = visited[j] => i = j
UntriedInv ==
  /\ visited # <<>> => current = visited[Len(visited)]
  /\ \A e \in Endpoints(tree) : e \notin Tried => seen[e] = <<>>

\* The endpoint in dispatch, or the one whose dispatch just came back.
Dispatched == pc = "endpoint" \/ (pc = "signal" /\ Route \notin Includes(tree))

\* A sniffer holds nothing or the last message; at most one of those that hold it
\* is to repeat it, and none once the endpoint in dispatch has received.
SnifferInv ==
  /\ \A i \in DOMAIN sniffer : sniffer[i].message \in {0, taken}
  /\ \A i \in Repeating : \A j \in DOMAIN sniffer : j > i => sniffer[j].message = 0
  /\ Dispatched /\ seen[current] # <<>> =>
       /\ seen[current][Len(seen[current])] = taken /\ taken # 0
       /\ Sniffer.message = taken /\ Repeating = {}

\* What the endpoint received, if anything, was one message, and the router that
\* dispatched it is in progress.
Once(d) ==
  seen[d] # <<>> =>
    Len(seen[d]) = 1 /\ \E i \in DOMAIN stack : d \in RoutesOf(tree, stack[i].router)

\* The next endpoint that receives will receive the first message.
FirstIsNext ==
  \/ taken = 0
  \/ taken = 1 /\ \E i \in Repeating : \E d \in Tried :
                    seen[d] # <<>> /\ d \in RoutesOf(tree, stack[i].router)

ReplayInv ==
  /\ ~Dispatched /\ (\A d \in Tried : Once(d)) => FirstIsNext
  /\ Dispatched /\ (\A d \in Tried \ {current} : Once(d)) =>
       IF seen[current] = <<>> THEN FirstIsNext ELSE seen[current][1] = 1

MessageInv ==
  /\ ContiguousReads /\ TriedOnce
  /\ pc # "done" => PlacesInv /\ UntriedInv /\ SnifferInv /\ ReplayInv

LEMMA MessageInit == Init => MessageInv
<1> SUFFICES ASSUME Init PROVE MessageInv
  OBVIOUS
<1>1. /\ pc = "scan" /\ visited = <<>> /\ DOMAIN visited = {} /\ taken = 0
      /\ Len(stack) = 1 /\ DOMAIN stack = {1} /\ stack[1].at = 1
      /\ DOMAIN sniffer = {1} /\ sniffer[1].message = 0
      /\ seen = [e \in Endpoints(tree) |-> <<>>]
  BY DEF Init, Frame, Unsniffed
<1>2. Tried = {} /\ Repeating = {} /\ ~Dispatched
  BY <1>1 DEF Tried, Repeating, Dispatched
<1>3. ContiguousReads /\ TriedOnce
  BY <1>1 DEF ContiguousReads, TriedOnce
<1>4. PlacesInv /\ UntriedInv
  BY <1>1, <1>2 DEF PlacesInv, UntriedInv
<1>5. SnifferInv /\ ReplayInv
  BY <1>1, <1>2 DEF SnifferInv, ReplayInv, FirstIsNext
<1>6. QED
  BY <1>3, <1>4, <1>5 DEF MessageInv

\* The endpoints that were tried are endpoints.
LEMMA TriedFacts ==
  ASSUME TypeOK
  PROVE  Tried \subseteq Endpoints(tree) /\ DOMAIN visited = 1 .. Len(visited)
         /\ Len(visited) \in Nat
<1>1. visited \in Seq(Endpoints(tree))
  BY DEF TypeOK
<1>2. QED
  BY <1>1 DEF Tried

\* What lies behind one route of a router does not lie behind another.
LEMMA ApartFacts ==
  ASSUME TypeOK, pc # "done", NEW i \in DOMAIN stack, NEW k \in DOMAIN ListOf(i),
         NEW m \in DOMAIN ListOf(i), k # m
  PROVE  Below(tree, ListOf(i)[k]) \cap Below(tree, ListOf(i)[m]) = {}
<1>1. tree \in Trees /\ stack[i].router \in Routers(tree)
  BY FrameFacts
<1>2. Unfolded(tree)
  BY <1>1, PlacesAssumption
<1>3. QED
  BY <1>1, <1>2 DEF Unfolded, ListOf

\* The routers in progress have no endpoint in common.
LEMMA RoutersApart ==
  ASSUME TypeOK, pc # "done", WalkInv, PlacesInv,
         NEW i \in DOMAIN stack, NEW j \in DOMAIN stack, i < j,
         NEW d \in RoutesOf(tree, stack[j].router) \cap RoutesOf(tree, stack[i].router)
  PROVE  d \in Includes(tree)
<1>1. /\ DOMAIN stack = 1 .. Len(stack) /\ Len(stack) \in Nat /\ tree \in Trees
      /\ RoutesOf(tree, stack[i].router) = {ListOf(i)[k] : k \in DOMAIN ListOf(i)}
      /\ RoutesOf(tree, stack[i].router) \subseteq AllRoutes(tree)
  BY FrameFacts
<1>2. i \in 1 .. j - 1 /\ i \in 1 .. Len(stack) - 1
  BY <1>1
<1>3. d \in Below(tree, AtOf(i)) /\ AtOf(i) \in Includes(tree)
      /\ stack[i].at \in DOMAIN ListOf(i)
  BY <1>2 DEF PlacesInv, WalkInv
<1>4. PICK k \in DOMAIN ListOf(i) : d = ListOf(i)[k]
  BY <1>1
<1>5. d \in Below(tree, ListOf(i)[k])
  BY <1>1, <1>4, BelowFacts
<1>6. k = stack[i].at
  BY <1>3, <1>5, ApartFacts DEF AtOf
<1>7. QED
  BY <1>3, <1>4, <1>6 DEF AtOf

-----------------------------------------------------------------------------
\* The endpoint in dispatch receives.
LEMMA ReceiveMessages ==
  ASSUME AnswerInv, WalkInv, MessageInv, pc = "endpoint",
         ReceiveFromServer \/ ReceiveRepeated
  PROVE  MessageInv'
<1>0. /\ TypeOK /\ PlacesInv /\ UntriedInv /\ SnifferInv /\ ReplayInv
      /\ ContiguousReads /\ TriedOnce
  BY DEF AnswerInv, MessageInv
<1>1. /\ sniffer \in Seq(SnifferType) /\ Len(sniffer) = Len(stack) /\ Len(stack) \in Nat \ {0}
      /\ DOMAIN sniffer = 1 .. Len(stack) /\ taken \in Nat
      /\ seen \in [Endpoints(tree) -> Seq(Nat)] /\ current \in Endpoints(tree)
      /\ seen[current] \in Seq(Nat)
  BY <1>0, FrameFacts DEF TypeOK
<1>2. current \in Tried /\ Dispatched
  BY DEF WalkInv, Dispatched
<1>3. \E n, message :
        /\ Receive(n, message) /\ message # 0 /\ taken' = message
        /\ \A i \in DOMAIN sniffer : i < n =>
             sniffer[i].message \in {0, taken'} /\ i \notin Repeating
        /\ n \in Nat /\ n <= Len(stack)
        /\ seen[current] # <<>> => message = seen[current][Len(seen[current])] + 1
        /\ FirstIsNext => message = 1
  <2>1. CASE ReceiveFromServer
    <3>1. Receive(1, taken + 1) /\ taken' = taken + 1 /\ Repeating = {}
      BY <2>1 DEF ReceiveFromServer
    <3>2. FirstIsNext => taken + 1 = 1
      BY <3>1, <1>1 DEF FirstIsNext
    <3>3. seen[current] # <<>> => taken = seen[current][Len(seen[current])]
      BY <1>0, <1>2 DEF SnifferInv
    <3>4. taken + 1 # 0 /\ \A i \in DOMAIN sniffer : ~(i < 1)
      BY <1>1
    <3>5. 1 \in Nat /\ 1 <= Len(stack)
      BY <1>1
    <3>6. QED
      BY <3>1, <3>2, <3>3, <3>4, <3>5
  <2>2. CASE ReceiveRepeated
    <3>1. PICK n \in Repeating :
            (\A i \in Repeating : i <= n) /\ Receive(n, sniffer[n].message)
      BY <2>2 DEF ReceiveRepeated
    <3>2. taken' = taken
      BY <2>2 DEF ReceiveRepeated
    <3>3. n \in 1 .. Len(stack) /\ sniffer[n].message # 0 /\ sniffer[n].message = taken
      BY <1>0, <1>1 DEF Repeating, SnifferInv
    <3>4. \A i \in DOMAIN sniffer : i < n => sniffer[i].message \in {0, taken} /\ i \notin Repeating
      BY <1>0, <1>1, <3>3 DEF SnifferInv
    <3>5. seen[current] = <<>>
      BY <1>0, <1>2 DEF SnifferInv
    <3>6. FirstIsNext => taken = 1
      BY <3>3 DEF FirstIsNext
    <3>7. QED
      BY <1>1, <3>1, <3>2, <3>3, <3>4, <3>5, <3>6
  <2>3. QED
    BY <2>1, <2>2
<1>4. PICK n, message :
        /\ Receive(n, message) /\ message # 0 /\ taken' = message
        /\ \A i \in DOMAIN sniffer : i < n =>
             sniffer[i].message \in {0, taken'} /\ i \notin Repeating
        /\ n \in Nat /\ n <= Len(stack)
        /\ seen[current] # <<>> => message = seen[current][Len(seen[current])] + 1
        /\ FirstIsNext => message = 1
  BY <1>3
<1>5. /\ UNCHANGED <<tree, pc, stack, current, visited>>
      /\ seen' = [seen EXCEPT ![current] = Append(@, message)]
      /\ DOMAIN sniffer' = DOMAIN sniffer
      /\ \A i \in DOMAIN sniffer : IF i >= n
           THEN sniffer'[i].message = message /\ sniffer'[i].repeat = FALSE
           ELSE sniffer'[i] = sniffer[i]
  BY <1>4 DEF Receive, scenario
<1>6. /\ Tried' = Tried /\ Route' = Route /\ Dispatched'
      /\ \A i : ListOf(i)' = ListOf(i) /\ AtOf(i)' = AtOf(i)
  BY <1>2, <1>5 DEF Tried, Route, Routes, Top, Dispatched, ListOf, AtOf
<1>7. message \in Nat
  <2>1. taken' \in Nat
    BY <1>1, StepType, <1>0 DEF ReceiveFromServer, ReceiveRepeated
  <2>2. QED
    BY <1>4, <2>1
<1>8. /\ seen'[current] = Append(seen[current], message)
      /\ \A e \in Endpoints(tree) : e # current => seen'[e] = seen[e]
      /\ Len(seen'[current]) = Len(seen[current]) + 1
      /\ seen'[current] # <<>> /\ seen'[current][Len(seen'[current])] = message
      /\ \A k \in 1 .. Len(seen[current]) : seen'[current][k] = seen[current][k]
      /\ Len(seen[current]) \in Nat /\ (seen[current] = <<>> <=> Len(seen[current]) = 0)
  <2>1. /\ seen'[current] = Append(seen[current], message)
        /\ \A e \in Endpoints(tree) : e # current => seen'[e] = seen[e]
    BY <1>1, <1>5
  <2>2. /\ Len(Append(seen[current], message)) = Len(seen[current]) + 1
        /\ Append(seen[current], message)[Len(seen[current]) + 1] = message
        /\ \A k \in 1 .. Len(seen[current]) :
             Append(seen[current], message)[k] = seen[current][k]
        /\ Len(seen[current]) \in Nat /\ (seen[current] = <<>> <=> Len(seen[current]) = 0)
    BY <1>1, <1>7
  <2>3. Append(seen[current], message) # <<>>
    BY <2>2
  <2>4. QED
    BY <2>1, <2>2, <2>3
<1>9. PlacesInv' /\ TriedOnce'
  BY <1>0, <1>5, <1>6 DEF PlacesInv, TriedOnce
<1>10. UntriedInv'
  BY <1>0, <1>2, <1>5, <1>6, <1>8 DEF UntriedInv
<1>11. ContiguousReads'
  <2> SUFFICES ASSUME NEW e \in Endpoints(tree), NEW i \in 1 .. Len(seen'[e]) - 1
               PROVE  seen'[e][i + 1] = seen'[e][i] + 1
    BY <1>5 DEF ContiguousReads
  <2>1. CASE e # current
    BY <1>0, <1>8, <2>1 DEF ContiguousReads
  <2>2. CASE e = current /\ i \in 1 .. Len(seen[current]) - 1
    <3>1. i \in 1 .. Len(seen[current]) /\ i + 1 \in 1 .. Len(seen[current])
      BY <1>8, <2>2
    <3>2. QED
      BY <1>0, <1>1, <1>8, <2>2, <3>1 DEF ContiguousReads
  <2>3. CASE e = current /\ i \notin 1 .. Len(seen[current]) - 1
    <3>1. i = Len(seen[current]) /\ i \in 1 .. Len(seen[current]) /\ seen[current] # <<>>
      BY <1>8, <2>3
    <3>2. QED
      BY <1>4, <1>8, <2>3, <3>1
  <2>4. QED
    BY <2>1, <2>2, <2>3
<1>12. Repeating' = {}
  <2> SUFFICES ASSUME NEW i \in DOMAIN sniffer, sniffer'[i].repeat, sniffer'[i].message # 0
               PROVE  FALSE
    BY <1>5 DEF Repeating
  <2>1. ~(i >= n)
    BY <1>5
  <2>2. i < n /\ sniffer'[i] = sniffer[i]
    BY <1>1, <1>4, <1>5, <2>1
  <2>3. QED
    BY <1>4, <2>2 DEF Repeating
<1>13. SnifferInv'
  <2>1. \A i \in DOMAIN sniffer' : sniffer'[i].message \in {0, taken'}
    <3>1. \A i \in DOMAIN sniffer : i >= n \/ i < n
      BY <1>1, <1>4
    <3>2. QED
      BY <1>4, <1>5, <3>1
  <2>2. Sniffer'.message = taken'
    <3>1. Len(stack) \in DOMAIN sniffer /\ Len(stack) >= n
      BY <1>1, <1>4
    <3>2. QED
      BY <1>4, <1>5, <3>1 DEF Sniffer
  <2>3. seen'[current'][Len(seen'[current'])] = taken' /\ taken' # 0
    BY <1>4, <1>5, <1>8
  <2>4. QED
    BY <1>12, <2>1, <2>2, <2>3 DEF SnifferInv
<1>14. ReplayInv'
  <2> SUFFICES ASSUME \A d \in Tried \ {current} : Once(d)'
               PROVE  seen'[current][1] = 1
    BY <1>5, <1>6, <1>8 DEF ReplayInv
  <2>1. \A d \in Tried \ {current} : Once(d)
    <3>1. Tried \subseteq Endpoints(tree)
      BY <1>0, TriedFacts
    <3>2. ASSUME NEW d \in Tried \ {current}
          PROVE  Once(d)
      <4>1. seen'[d] = seen[d] /\ Once(d)'
        BY <1>8, <3>1
      <4>2. QED
        BY <1>5, <4>1 DEF Once
    <3>3. QED
      BY <3>2
  <2>2. IF seen[current] = <<>> THEN FirstIsNext ELSE seen[current][1] = 1
    BY <1>0, <1>2, <2>1 DEF ReplayInv
  <2>3. CASE seen[current] = <<>>
    <3>1. message = 1 /\ Len(seen'[current]) = 1
      BY <1>4, <1>8, <2>2, <2>3
    <3>2. QED
      BY <1>8, <3>1
  <2>4. CASE seen[current] # <<>>
    BY <1>8, <2>2, <2>4
  <2>5. QED
    BY <2>3, <2>4
<1>15. QED
  BY <1>9, <1>10, <1>11, <1>13, <1>14 DEF MessageInv

\* What an endpoint does but receive.
LEMMA QuietMessages ==
  ASSUME TypeOK, WalkInv, MessageInv, pc = "endpoint", pc' \in {"endpoint", "signal"},
         UNCHANGED <<tree, stack, taken, current, visited, seen>>,
         DOMAIN sniffer' = DOMAIN sniffer,
         \A i \in DOMAIN sniffer : /\ sniffer'[i].message = sniffer[i].message
                                   /\ sniffer'[i].repeat = sniffer[i].repeat
  PROVE  MessageInv'
<1>1. /\ PlacesInv /\ UntriedInv /\ SnifferInv /\ ReplayInv
      /\ ContiguousReads /\ TriedOnce
  BY DEF MessageInv
<1>2. /\ Tried' = Tried /\ Route' = Route /\ Dispatched /\ Dispatched'
      /\ \A i : ListOf(i)' = ListOf(i) /\ AtOf(i)' = AtOf(i)
  BY DEF Tried, Route, Routes, Top, Dispatched, ListOf, AtOf, WalkInv
<1>3. Repeating' = Repeating /\ Sniffer'.message = Sniffer.message
  <2>1. Len(stack) \in DOMAIN sniffer
    BY FrameFacts
  <2>2. QED
    BY <2>1 DEF Repeating, Sniffer
<1>4. PlacesInv' /\ TriedOnce' /\ UntriedInv' /\ ContiguousReads'
  BY <1>1, <1>2 DEF PlacesInv, TriedOnce, UntriedInv, ContiguousReads
<1>5. SnifferInv'
  BY <1>1, <1>2, <1>3 DEF SnifferInv
<1>6. FirstIsNext' = FirstIsNext /\ \A d : Once(d)' = Once(d)
  BY <1>2, <1>3 DEF FirstIsNext, Once
<1>7. ReplayInv'
  BY <1>1, <1>2, <1>6 DEF ReplayInv
<1>8. QED
  BY <1>4, <1>5, <1>7 DEF MessageInv

\* The endpoint of a full match is dispatched.
LEMMA DispatchMessages ==
  ASSUME TypeOK, WalkInv, MessageInv, EnterEndpoint
  PROVE  MessageInv'
<1>1. /\ PlacesInv /\ UntriedInv /\ SnifferInv /\ ReplayInv
      /\ ContiguousReads /\ TriedOnce
      /\ pc = "scan" /\ ~Exhausted /\ Route \notin Includes(tree)
      /\ pc' = "endpoint" /\ current' = Route /\ visited' = Append(visited, Route)
      /\ UNCHANGED <<tree, stack, sniffer, taken, seen>>
  BY DEF MessageInv, EnterEndpoint, scenario
<1>2. PICK e : e = Route
  OBVIOUS
<1>3. /\ Len(stack) \in DOMAIN stack /\ DOMAIN stack = 1 .. Len(stack) /\ tree \in Trees
      /\ e = AtOf(Len(stack)) /\ stack[Len(stack)].at \in DOMAIN ListOf(Len(stack))
      /\ \A i \in DOMAIN stack :
           RoutesOf(tree, stack[i].router) = {ListOf(i)[k] : k \in DOMAIN ListOf(i)}
  <2>1. /\ DOMAIN stack = 1 .. Len(stack) /\ Len(stack) \in Nat \ {0} /\ tree \in Trees
        /\ e = AtOf(Len(stack))
        /\ \A i \in DOMAIN stack :
             RoutesOf(tree, stack[i].router) = {ListOf(i)[k] : k \in DOMAIN ListOf(i)}
    BY <1>1, <1>2, FrameFacts
  <2>2. Len(stack) \in DOMAIN stack
    BY <2>1
  <2>3. /\ stack[Len(stack)].at \in Nat \ {0} /\ Len(ListOf(Len(stack))) \in Nat
        /\ DOMAIN ListOf(Len(stack)) = 1 .. Len(ListOf(Len(stack)))
        /\ ~(stack[Len(stack)].at > Len(ListOf(Len(stack))))
    BY <1>1, <2>2, FrameFacts
  <2>4. stack[Len(stack)].at \in DOMAIN ListOf(Len(stack))
    BY <2>3
  <2>5. QED
    BY <2>1, <2>2, <2>4
<1>4. e \in AllRoutes(tree) /\ e \in Endpoints(tree) /\ e \in Below(tree, e)
  <2>1. e \in AllRoutes(tree)
    BY <1>1, <1>2, TopFacts
  <2>2. QED
    BY <1>1, <1>2, <1>3, <2>1, BelowFacts DEF Endpoints
<1>5. Tried' = Tried \cup {e}
  BY <1>1, <1>2, TriedGrows
<1>6. e \notin Tried
  BY <1>1, <1>3, <1>4 DEF PlacesInv, AtOf
<1>7. /\ Dispatched' /\ ~Dispatched /\ Repeating' = Repeating /\ current' = e
      /\ \A i : ListOf(i)' = ListOf(i) /\ AtOf(i)' = AtOf(i)
  BY <1>1, <1>2 DEF Dispatched, Repeating, ListOf, AtOf
<1>8. visited \in Seq(Endpoints(tree))
  BY DEF TypeOK
<1>9. /\ Len(visited') = Len(visited) + 1 /\ Len(visited) \in Nat
      /\ DOMAIN visited = 1 .. Len(visited) /\ DOMAIN visited' = 1 .. Len(visited) + 1
      /\ visited'[Len(visited) + 1] = e
      /\ \A i \in DOMAIN visited : visited'[i] = visited[i]
  BY <1>1, <1>2, <1>8
<1>10. TriedOnce'
  <2> SUFFICES ASSUME NEW i \in DOMAIN visited', NEW j \in DOMAIN visited',
                      visited'[i] = visited'[j]
               PROVE  i = j
    BY DEF TriedOnce
  <2>1. \A k \in DOMAIN visited : visited[k] # e
    BY <1>6 DEF Tried
  <2>2. \A k \in DOMAIN visited' : k \in DOMAIN visited \/ k = Len(visited) + 1
    BY <1>9
  <2>3. QED
    BY <1>1, <1>9, <2>1, <2>2 DEF TriedOnce
<1>11. PlacesInv'
  <2>1. ASSUME NEW i \in DOMAIN stack, NEW k \in DOMAIN ListOf(i), k > stack[i].at
        PROVE  Below(tree, ListOf(i)[k]) \cap (Tried \cup {e}) = {}
    <3>1. Below(tree, ListOf(i)[k]) \cap Tried = {}
      BY <1>1, <2>1 DEF PlacesInv
    <3>2. stack[i].at \in DOMAIN ListOf(i) /\ e \in Below(tree, AtOf(i))
      <4>1. CASE i = Len(stack)
        BY <1>3, <1>4, <4>1
      <4>2. CASE i # Len(stack)
        <5>1. i \in 1 .. Len(stack) - 1
          BY <1>3, <4>2
        <5>2. RoutesOf(tree, stack[Len(stack)].router) \subseteq Below(tree, AtOf(i))
          BY <1>1, <1>3, <5>1 DEF PlacesInv
        <5>3. e \in RoutesOf(tree, stack[Len(stack)].router)
          BY <1>3 DEF AtOf
        <5>4. QED
          BY <5>1, <5>2, <5>3 DEF WalkInv
      <4>3. QED
        BY <4>1, <4>2
    <3>3. stack[i].at # k
      BY <2>1, <3>2, FrameFacts, <1>1
    <3>4. e \notin Below(tree, ListOf(i)[k])
      BY <1>1, <3>2, <3>3, ApartFacts DEF AtOf
    <3>5. QED
      BY <3>1, <3>4
  <2>2. \A j \in DOMAIN stack : \A i \in 1 .. j - 1 :
          RoutesOf(tree, stack[j].router) \subseteq Below(tree, AtOf(i))
    BY <1>1 DEF PlacesInv
  <2>3. QED
    BY <1>1, <1>5, <1>7, <2>1, <2>2 DEF PlacesInv
<1>12. seen[e] = <<>>
  BY <1>1, <1>4, <1>6 DEF UntriedInv
<1>13. UntriedInv' /\ ContiguousReads'
  BY <1>1, <1>5, <1>7, <1>9 DEF UntriedInv, ContiguousReads
<1>14. SnifferInv'
  BY <1>1, <1>7, <1>12 DEF SnifferInv
<1>15. ReplayInv'
  <2> SUFFICES ASSUME \A d \in Tried' \ {e} : Once(d)'
               PROVE  FirstIsNext'
    BY <1>1, <1>7, <1>12 DEF ReplayInv
  <2>1. \A d \in Tried : Once(d)
    BY <1>1, <1>5, <1>6 DEF Once
  <2>2. FirstIsNext
    BY <1>1, <1>7, <2>1 DEF ReplayInv
  <2>3. QED
    BY <1>1, <1>5, <1>7, <2>2 DEF FirstIsNext
<1>16. QED
  BY <1>1, <1>10, <1>11, <1>13, <1>14, <1>15 DEF MessageInv

\* The walk goes on to the next route.
LEMMA AdvanceMessages ==
  ASSUME TypeOK, pc # "done", WalkInv, MessageInv, ~Exhausted,
         NEW b, NEW p, stack' = NextRoute(b, p), pc' = "scan",
         UNCHANGED <<tree, taken, current, visited, seen>>,
         (~Dispatched /\ sniffer' = sniffer) \/ (pc = "signal" /\ sniffer' = Repeat)
  PROVE  MessageInv'
<1>1. /\ PlacesInv /\ UntriedInv /\ SnifferInv /\ ReplayInv
      /\ ContiguousReads /\ TriedOnce
  BY DEF MessageInv
<1>2. /\ DOMAIN stack = 1 .. Len(stack) /\ Len(stack) \in Nat \ {0}
      /\ DOMAIN sniffer = 1 .. Len(stack)
      /\ \A i \in DOMAIN stack :
           /\ stack[i].at \in Nat \ {0}
           /\ DOMAIN ListOf(i) = 1 .. Len(ListOf(i)) /\ Len(ListOf(i)) \in Nat
           /\ RoutesOf(tree, stack[i].router) = {ListOf(i)[k] : k \in DOMAIN ListOf(i)}
      /\ Route = AtOf(Len(stack)) /\ stack[Len(stack)].at <= Len(ListOf(Len(stack)))
  <2>1. /\ DOMAIN stack = 1 .. Len(stack) /\ Len(stack) \in Nat \ {0}
        /\ DOMAIN sniffer = 1 .. Len(stack) /\ Route = AtOf(Len(stack))
        /\ ~(stack[Len(stack)].at > Len(ListOf(Len(stack))))
    BY FrameFacts
  <2>2. \A i \in DOMAIN stack :
          /\ stack[i].at \in Nat \ {0}
          /\ DOMAIN ListOf(i) = 1 .. Len(ListOf(i)) /\ Len(ListOf(i)) \in Nat
          /\ RoutesOf(tree, stack[i].router) = {ListOf(i)[k] : k \in DOMAIN ListOf(i)}
    BY FrameFacts
  <2>3. Len(stack) \in DOMAIN stack
    BY <2>1
  <2>4. stack[Len(stack)].at <= Len(ListOf(Len(stack)))
    BY <2>1, <2>2, <2>3
  <2>5. QED
    BY <2>1, <2>2, <2>4
<1>3. /\ Len(stack') = Len(stack) /\ DOMAIN stack' = DOMAIN stack
      /\ \A i \in DOMAIN stack :
           /\ stack'[i].router = stack[i].router
           /\ stack'[i].at = IF i = Len(stack) THEN stack[i].at + 1 ELSE stack[i].at
  BY NextFacts
<1>4. /\ Tried' = Tried /\ ~Dispatched'
      /\ \A i \in DOMAIN stack : ListOf(i)' = ListOf(i)
  BY <1>3 DEF Tried, Dispatched, ListOf
<1>5. \A i \in 1 .. Len(stack) - 1 : AtOf(i)' = AtOf(i)
  BY <1>2, <1>3, <1>4 DEF AtOf
<1>6. PlacesInv'
  <2>1. ASSUME NEW j \in DOMAIN stack, NEW i \in 1 .. j - 1
        PROVE  RoutesOf(tree, stack'[j].router) \subseteq Below(tree, AtOf(i)')
    <3>1. i \in 1 .. Len(stack) - 1
      BY <1>2
    <3>2. QED
      BY <1>1, <1>3, <1>5, <3>1 DEF PlacesInv
  <2>2. ASSUME NEW i \in DOMAIN stack, NEW k \in DOMAIN ListOf(i), k >= stack'[i].at,
               k > stack'[i].at \/ i = Len(stack)
        PROVE  Below(tree, ListOf(i)[k]) \cap Tried = {}
    <3>1. k > stack[i].at
      BY <1>2, <1>3, <2>2
    <3>2. QED
      BY <1>1, <3>1 DEF PlacesInv
  <2>3. ASSUME NEW i \in DOMAIN stack, NEW k \in DOMAIN ListOf(i),
               k > stack'[i].at \/ (k = stack'[i].at /\ i = Len(stack))
        PROVE  Below(tree, ListOf(i)[k]) \cap Tried = {}
    <3>1. k \in Nat /\ stack'[i].at \in Nat
      BY <1>2, <1>3
    <3>2. QED
      BY <2>2, <2>3, <3>1
  <2>4. QED
    BY <1>3, <1>4, <2>1, <2>3 DEF PlacesInv
<1>7. UntriedInv' /\ TriedOnce' /\ ContiguousReads'
  BY <1>1, <1>4 DEF UntriedInv, TriedOnce, ContiguousReads
<1>8. /\ DOMAIN sniffer' = DOMAIN sniffer
      /\ \A i \in DOMAIN sniffer : /\ sniffer'[i].message = sniffer[i].message
                                   /\ i # Len(stack) => sniffer'[i].repeat = sniffer[i].repeat
                                   /\ sniffer[i].repeat => sniffer'[i].repeat
  <2>1. CASE sniffer' = sniffer
    BY <2>1
  <2>2. CASE sniffer' = Repeat
    <3>1. PICK f : f = [message |-> Sniffer.message, repeat |-> TRUE, sent |-> Sniffer.sent]
      OBVIOUS
    <3>2. sniffer' = [sniffer EXCEPT ![Len(stack)] = f]
      BY <2>2, <3>1 DEF Repeat
    <3>3. f.message = sniffer[Len(stack)].message /\ f.repeat
      BY <3>1 DEF Sniffer
    <3>4. QED
      BY <3>2, <3>3
  <2>3. QED
    BY <2>1, <2>2
<1>9. Repeating \subseteq Repeating' /\ Repeating' \subseteq Repeating \cup {Len(stack)}
  BY <1>8 DEF Repeating
<1>10. SnifferInv'
  <2>1. ASSUME NEW i \in Repeating', NEW j \in DOMAIN sniffer, j > i
        PROVE  sniffer'[j].message = 0
    <3>1. i # Len(stack)
      BY <1>2, <2>1
    <3>2. QED
      BY <1>1, <1>8, <1>9, <2>1, <3>1 DEF SnifferInv
  <2>2. QED
    BY <1>1, <1>4, <1>8, <2>1 DEF SnifferInv
<1>11. \A d : Once(d)' = Once(d)
  BY <1>3 DEF Once
<1>12. FirstIsNext => FirstIsNext'
  <2>1. \A i \in Repeating : i \in DOMAIN stack
    BY <1>2 DEF Repeating
  <2>2. QED
    BY <1>3, <1>4, <1>9, <2>1 DEF FirstIsNext
<1>13. ReplayInv'
  <2> SUFFICES ASSUME \A d \in Tried : Once(d)
               PROVE  FirstIsNext'
    BY <1>4, <1>11 DEF ReplayInv
  <2>1. CASE ~Dispatched
    BY <1>1, <1>12, <2>1 DEF ReplayInv
  <2>2. CASE Dispatched /\ seen[current] = <<>>
    BY <1>1, <1>12, <2>2 DEF ReplayInv
  <2>3. CASE Dispatched /\ seen[current] # <<>>
    <3>1. pc = "signal" /\ sniffer' = Repeat /\ Route \notin Includes(tree)
      BY <2>3 DEF Dispatched
    <3>2. Route = current /\ current \in Tried
      BY <3>1 DEF WalkInv
    <3>3. seen[current][1] = 1 /\ Len(seen[current]) = 1
      BY <1>1, <2>3, <3>2 DEF ReplayInv, Once
    <3>4. taken = 1 /\ Sniffer.message = 1
      BY <1>1, <2>3, <3>3 DEF SnifferInv
    <3>5. Len(stack) \in Repeating'
      <4>1. Len(stack) \in DOMAIN sniffer
        BY <1>2
      <4>2. sniffer'[Len(stack)].message = 1
        BY <1>8, <3>4, <4>1 DEF Sniffer
      <4>3. sniffer'[Len(stack)].repeat
        <5>1. PICK f : f = [message |-> Sniffer.message, repeat |-> TRUE, sent |-> Sniffer.sent]
          OBVIOUS
        <5>2. sniffer' = [sniffer EXCEPT ![Len(stack)] = f] /\ f.repeat
          BY <3>1, <5>1 DEF Repeat
        <5>3. QED
          BY <4>1, <5>2
      <4>4. QED
        BY <1>8, <4>1, <4>2, <4>3 DEF Repeating
    <3>6. current \in RoutesOf(tree, stack'[Len(stack)].router)
      <4>1. stack[Len(stack)].at \in DOMAIN ListOf(Len(stack)) /\ Len(stack) \in DOMAIN stack
        BY <1>2
      <4>2. current \in RoutesOf(tree, stack[Len(stack)].router)
        BY <1>2, <3>2, <4>1 DEF AtOf
      <4>3. QED
        BY <1>3, <4>1, <4>2
    <3>7. QED
      BY <1>4, <2>3, <3>2, <3>4, <3>5, <3>6 DEF FirstIsNext
  <2>4. QED
    BY <2>1, <2>2, <2>3
<1>14. QED
  BY <1>6, <1>7, <1>10, <1>13 DEF MessageInv

\* The app() of an Include begins.
LEMMA EnterMessages ==
  ASSUME TypeOK, WalkInv, MessageInv, EnterInclude
  PROVE  MessageInv'
<1>1. /\ PlacesInv /\ UntriedInv /\ SnifferInv /\ ReplayInv
      /\ ContiguousReads /\ TriedOnce
      /\ pc = "scan" /\ ~Exhausted /\ Route \in Includes(tree)
      /\ stack' = Append(stack, Frame(tree.into[Route]))
      /\ sniffer' = Append(sniffer, Unsniffed) /\ pc' = "scan"
      /\ UNCHANGED <<tree, taken, current, visited, seen>>
  BY DEF MessageInv, EnterInclude, scenario
<1>2. PICK n, r, x : n = Len(stack) /\ x = Route /\ r = tree.into[x]
  OBVIOUS
<1>3. /\ n \in Nat \ {0} /\ DOMAIN stack = 1 .. n /\ DOMAIN sniffer = 1 .. n /\ tree \in Trees
      /\ x = AtOf(n)
      /\ \A i \in DOMAIN stack :
           /\ stack[i].at \in Nat \ {0}
           /\ DOMAIN ListOf(i) = 1 .. Len(ListOf(i)) /\ Len(ListOf(i)) \in Nat
           /\ RoutesOf(tree, stack[i].router) = {ListOf(i)[k] : k \in DOMAIN ListOf(i)}
  BY <1>1, <1>2, FrameFacts
<1>4. n \in DOMAIN stack /\ stack[n].at \in DOMAIN ListOf(n)
  <2>1. n \in DOMAIN stack
    BY <1>3
  <2>2. ~(stack[n].at > Len(ListOf(n)))
    BY <1>1, <1>2, FrameFacts
  <2>3. QED
    BY <1>3, <2>1, <2>2
<1>5. /\ Len(stack') = n + 1 /\ DOMAIN stack' = 1 .. n + 1 /\ DOMAIN sniffer' = 1 .. n + 1
      /\ \A i \in DOMAIN stack : stack'[i] = stack[i] /\ sniffer'[i] = sniffer[i]
      /\ stack'[n + 1].router = r /\ stack'[n + 1].at = 1
      /\ sniffer'[n + 1] = Unsniffed
  BY <1>1, <1>2, EnterFacts
<1>6. /\ Tried' = Tried /\ ~Dispatched /\ ~Dispatched'
      /\ \A i \in DOMAIN stack : ListOf(i)' = ListOf(i) /\ AtOf(i)' = AtOf(i)
  BY <1>1, <1>5 DEF Tried, Dispatched, ListOf, AtOf
<1>7. x \in AllRoutes(tree) /\ x \in Includes(tree) /\ x \in RoutesOf(tree, stack[n].router)
  <2>1. x \in RoutesOf(tree, stack[n].router)
    BY <1>3, <1>4 DEF AtOf
  <2>2. QED
    BY <1>1, <1>2, <2>1, TopFacts
<1>8. /\ x \in Below(tree, x) /\ RoutesOf(tree, r) \subseteq Below(tree, x)
      /\ \A y \in Below(tree, x) : Below(tree, y) \subseteq Below(tree, x)
  BY <1>2, <1>3, <1>7, BelowFacts
<1>9. Below(tree, x) \cap Tried = {}
  BY <1>1, <1>2, <1>3, <1>4 DEF PlacesInv, AtOf
<1>10. PlacesInv'
  <2>1. ASSUME NEW j \in DOMAIN stack', NEW i \in 1 .. j - 1
        PROVE  RoutesOf(tree, stack'[j].router) \subseteq Below(tree, AtOf(i)')
    <3>1. i \in DOMAIN stack /\ AtOf(i)' = AtOf(i)
      BY <1>3, <1>5, <1>6
    <3>2. CASE j \in DOMAIN stack
      BY <1>1, <1>5, <3>1, <3>2 DEF PlacesInv
    <3>3. CASE j \notin DOMAIN stack
      <4>1. j = n + 1 /\ stack'[j].router = r
        BY <1>3, <1>5, <3>3
      <4>2. CASE i = n
        BY <1>3, <1>8, <3>1, <4>1, <4>2
      <4>3. CASE i # n
        <5>1. i \in 1 .. n - 1 /\ i \in 1 .. Len(stack) - 1
          BY <1>2, <1>3, <4>1, <4>3
        <5>2. x \in Below(tree, AtOf(i))
          BY <1>1, <1>4, <1>7, <5>1 DEF PlacesInv
        <5>3. AtOf(i) \in AllRoutes(tree)
          <6>1. stack[i].at \in DOMAIN ListOf(i) /\ ListOf(i) \in Seq(AllRoutes(tree))
            BY <1>1, <3>1, <5>1, FrameFacts DEF WalkInv
          <6>2. QED
            BY <6>1 DEF AtOf
        <5>4. RoutesOf(tree, r) \subseteq Below(tree, AtOf(i))
          BY <1>2, <1>3, <1>7, <5>2, <5>3, BelowFacts
        <5>5. QED
          BY <3>1, <4>1, <5>4
      <4>4. QED
        BY <4>2, <4>3
    <3>4. QED
      BY <3>2, <3>3
  <2>2. ASSUME NEW i \in DOMAIN stack', NEW k \in DOMAIN ListOf(i)',
               k > stack'[i].at \/ (k = stack'[i].at /\ i = n + 1)
        PROVE  Below(tree, ListOf(i)'[k]) \cap Tried = {}
    <3>1. CASE i \in DOMAIN stack
      <4>1. i # n + 1 /\ ListOf(i)' = ListOf(i) /\ stack'[i].at = stack[i].at
        BY <1>3, <1>5, <1>6, <3>1
      <4>2. QED
        BY <1>1, <2>2, <3>1, <4>1 DEF PlacesInv
    <3>2. CASE i \notin DOMAIN stack
      <4>1. i = n + 1
        BY <1>3, <1>5, <3>2
      <4>2. ListOf(i)'[k] \in RoutesOf(tree, r)
        <5>1. ListOf(i)' = tree.routes[r]
          BY <1>1, <1>5, <4>1 DEF ListOf
        <5>2. QED
          BY <5>1 DEF RoutesOf
      <4>3. QED
        BY <1>8, <1>9, <4>2
    <3>3. QED
      BY <3>1, <3>2
  <2>3. QED
    BY <1>1, <1>5, <1>6, <2>1, <2>2 DEF PlacesInv
<1>11. UntriedInv' /\ TriedOnce' /\ ContiguousReads'
  BY <1>1, <1>6 DEF UntriedInv, TriedOnce, ContiguousReads
<1>12. \A i \in DOMAIN sniffer' : i \in DOMAIN sniffer \/ (i = n + 1 /\ sniffer'[i].message = 0)
  BY <1>3, <1>5 DEF Unsniffed
<1>13. Repeating' = Repeating
  BY <1>3, <1>5, <1>12 DEF Repeating
<1>14. SnifferInv'
  <2>1. \A i \in DOMAIN sniffer' : sniffer'[i].message \in {0, taken}
    BY <1>1, <1>3, <1>5, <1>12 DEF SnifferInv
  <2>2. \A i \in Repeating' : \A j \in DOMAIN sniffer' : j > i => sniffer'[j].message = 0
    BY <1>1, <1>3, <1>5, <1>12, <1>13 DEF SnifferInv
  <2>3. QED
    BY <1>1, <1>6, <2>1, <2>2 DEF SnifferInv
<1>15. ReplayInv'
  <2> SUFFICES ASSUME \A d \in Tried : Once(d)'
               PROVE  FirstIsNext'
    BY <1>6 DEF ReplayInv
  <2>1. ASSUME NEW d \in Tried
        PROVE  Once(d)
    <3> SUFFICES ASSUME seen[d] # <<>>
                 PROVE  /\ Len(seen[d]) = 1
                        /\ \E i \in DOMAIN stack : d \in RoutesOf(tree, stack[i].router)
      BY DEF Once
    <3>1. /\ Len(seen[d]) = 1
          /\ \E i \in DOMAIN stack' : d \in RoutesOf(tree, stack'[i].router)
      BY <1>1, <2>1 DEF Once
    <3>2. PICK i \in DOMAIN stack' : d \in RoutesOf(tree, stack'[i].router)
      BY <3>1
    <3>3. i # n + 1
      BY <1>5, <1>8, <1>9, <2>1, <3>2
    <3>4. i \in DOMAIN stack
      BY <1>3, <1>5, <3>3
    <3>5. QED
      BY <1>5, <3>1, <3>2, <3>4
  <2>2. FirstIsNext
    BY <1>1, <1>6, <2>1 DEF ReplayInv
  <2>3. \A i \in Repeating : stack'[i] = stack[i]
    BY <1>3, <1>5 DEF Repeating
  <2>4. QED
    BY <1>1, <1>6, <1>13, <2>2, <2>3 DEF FirstIsNext
<1>16. QED
  BY <1>1, <1>10, <1>11, <1>14, <1>15 DEF MessageInv

\* An app() ends; what its endpoints received is no longer kept for anyone.
LEMMA BackMessages ==
  ASSUME TypeOK, pc # "done", WalkInv, MessageInv,
         NEW s, NEW sniffers, Leave(s, sniffers), sniffers = sniffer \/ sniffers = Sent,
         UNCHANGED <<tree, taken, current, visited, seen>>
  PROVE  MessageInv'
<1>1. /\ PlacesInv /\ UntriedInv /\ SnifferInv /\ ReplayInv
      /\ ContiguousReads /\ TriedOnce
  BY DEF MessageInv
<1>2. PICK n : n = Len(stack)
  OBVIOUS
<1>3. /\ n \in Nat \ {0} /\ DOMAIN stack = 1 .. n /\ DOMAIN sniffer = 1 .. n /\ tree \in Trees
      /\ Route = AtOf(n)
      /\ \A i \in DOMAIN stack :
           /\ stack[i].at \in Nat \ {0}
           /\ DOMAIN ListOf(i) = 1 .. Len(ListOf(i)) /\ Len(ListOf(i)) \in Nat
           /\ RoutesOf(tree, stack[i].router) = {ListOf(i)[k] : k \in DOMAIN ListOf(i)}
  BY <1>2, FrameFacts
<1>4. /\ n = 1 => pc' = "done"
      /\ n > 1 => pc' = "signal" /\ Len(stack') = n - 1
      /\ DOMAIN stack' = 1 .. n - 1 /\ DOMAIN sniffer' = 1 .. n - 1
      /\ \A i \in 1 .. n - 1 :
           /\ stack'[i] = stack[i]
           /\ sniffer'[i].message = sniffer[i].message
           /\ sniffer'[i].repeat = sniffer[i].repeat
  BY <1>2, LeaveFacts
<1>5. /\ Tried' = Tried /\ TriedOnce' /\ ContiguousReads' /\ UntriedInv'
      /\ \A i \in 1 .. n - 1 : ListOf(i)' = ListOf(i) /\ AtOf(i)' = AtOf(i)
  BY <1>1, <1>4 DEF Tried, TriedOnce, ContiguousReads, UntriedInv, ListOf, AtOf
<1>6. CASE n = 1
  BY <1>4, <1>5, <1>6 DEF MessageInv
<1>7. CASE n # 1
  <2>1. pc' = "signal" /\ Len(stack') = n - 1 /\ n - 1 \in 1 .. n - 1
    BY <1>3, <1>4, <1>7
  <2>2. ~Dispatched'
    <3>1. Route' = AtOf(n - 1)
      <4>1. Route' = ListOf(n - 1)'[stack'[n - 1].at]
        BY <2>1 DEF Route, Routes, Top, ListOf
      <4>2. QED
        BY <1>4, <1>5, <2>1, <4>1 DEF AtOf
    <3>2. AtOf(n - 1) \in Includes(tree)
      BY <1>2, <2>1 DEF WalkInv
    <3>3. QED
      BY <2>1, <3>1, <3>2 DEF Dispatched
  <2>3. PlacesInv'
    <3>1. ASSUME NEW j \in DOMAIN stack', NEW i \in 1 .. j - 1
          PROVE  RoutesOf(tree, stack'[j].router) \subseteq Below(tree, AtOf(i)')
      <4>1. j \in DOMAIN stack /\ i \in 1 .. n - 1 /\ stack'[j] = stack[j] /\ AtOf(i)' = AtOf(i)
        BY <1>3, <1>4, <1>5
      <4>2. QED
        BY <1>1, <4>1 DEF PlacesInv
    <3>2. ASSUME NEW i \in DOMAIN stack', NEW k \in DOMAIN ListOf(i)', k > stack'[i].at
          PROVE  Below(tree, ListOf(i)'[k]) \cap Tried = {}
      <4>1. i \in DOMAIN stack /\ i \in 1 .. n - 1 /\ stack'[i] = stack[i] /\ ListOf(i)' = ListOf(i)
        BY <1>3, <1>4, <1>5
      <4>2. QED
        BY <1>1, <3>2, <4>1 DEF PlacesInv
    <3>3. QED
      BY <1>5, <2>1, <3>1, <3>2 DEF PlacesInv
  <2>4. Repeating' = Repeating \cap (1 .. n - 1)
    BY <1>3, <1>4 DEF Repeating
  <2>5. SnifferInv'
    <3>1. \A i \in 1 .. n - 1 : i \in DOMAIN sniffer
      BY <1>3
    <3>2. \A i \in DOMAIN sniffer' : sniffer'[i].message \in {0, taken'}
      BY <1>1, <1>4, <3>1 DEF SnifferInv
    <3>3. \A i \in Repeating' : \A j \in DOMAIN sniffer' : j > i => sniffer'[j].message = 0
      BY <1>1, <1>4, <2>4, <3>1 DEF SnifferInv
    <3>4. QED
      BY <2>2, <3>2, <3>3 DEF SnifferInv
  <2>6. ReplayInv'
    <3> SUFFICES ASSUME \A d \in Tried : Once(d)'
                 PROVE  FirstIsNext'
      BY <1>5, <2>2 DEF ReplayInv
    <3>1. ASSUME NEW d \in Tried, seen[d] # <<>>
          PROVE  /\ Len(seen[d]) = 1
                 /\ \E i \in 1 .. n - 1 : d \in RoutesOf(tree, stack[i].router)
      <4>1. /\ Len(seen[d]) = 1
            /\ \E i \in DOMAIN stack' : d \in RoutesOf(tree, stack'[i].router)
        BY <3>1 DEF Once
      <4>2. QED
        BY <1>4, <4>1
    <3>2. \A d \in Tried : Once(d)
      BY <1>3, <3>1 DEF Once
    <3>3. ASSUME NEW d \in Tried, seen[d] # <<>>
          PROVE  d \notin RoutesOf(tree, stack[n].router)
      <4>1. PICK i \in 1 .. n - 1 : d \in RoutesOf(tree, stack[i].router)
        BY <3>1, <3>3
      <4>2. i \in DOMAIN stack /\ n \in DOMAIN stack /\ i < n
        BY <1>3
      <4>3. d \notin Includes(tree)
        BY TriedFacts DEF Endpoints
      <4>4. QED
        BY <1>1, <4>1, <4>2, <4>3, RoutersApart
    <3>4. FirstIsNext
      <4>1. CASE ~Dispatched
        BY <1>1, <3>2, <4>1 DEF ReplayInv
      <4>2. CASE Dispatched
        <5>1. Route = current /\ current \in Tried /\ ~Exhausted
          BY <4>2 DEF Dispatched, WalkInv
        <5>2. current \in RoutesOf(tree, stack[n].router)
          <6>1. ~(stack[n].at > Len(ListOf(n))) /\ n \in DOMAIN stack
            BY <1>2, <1>3, <5>1, FrameFacts
          <6>2. stack[n].at \in DOMAIN ListOf(n)
            BY <1>3, <6>1
          <6>3. QED
            BY <1>3, <5>1, <6>1, <6>2 DEF AtOf
        <5>3. seen[current] = <<>>
          BY <3>3, <5>1, <5>2
        <5>4. QED
          BY <1>1, <3>2, <4>2, <5>3 DEF ReplayInv
      <4>3. QED
        BY <4>1, <4>2
    <3>5. CASE taken = 0
      BY <3>5 DEF FirstIsNext
    <3>6. CASE taken # 0
      <4>1. PICK i \in Repeating, d \in Tried :
              taken = 1 /\ seen[d] # <<>> /\ d \in RoutesOf(tree, stack[i].router)
        BY <3>4, <3>6 DEF FirstIsNext
      <4>2. i # n
        BY <3>3, <4>1
      <4>3. i \in 1 .. n - 1
        BY <1>3, <4>2 DEF Repeating
      <4>4. i \in Repeating' /\ stack'[i] = stack[i]
        BY <1>4, <2>4, <4>3
      <4>5. QED
        BY <1>5, <4>1, <4>4 DEF FirstIsNext
    <3>7. QED
      BY <3>5, <3>6
  <2>7. QED
    BY <1>5, <2>3, <2>5, <2>6 DEF MessageInv
<1>8. QED
  BY <1>6, <1>7

LEMMA MessageStep ==
  AnswerInv /\ SkipInv /\ MessageInv /\ [Next]_vars => MessageInv'
<1> SUFFICES ASSUME AnswerInv, SkipInv, MessageInv, [Next]_vars PROVE MessageInv'
  OBVIOUS
<1>0. TypeOK /\ (pc # "done" => WalkInv)
  BY DEF AnswerInv, SkipInv
<1>1. ASSUME UNCHANGED <<tree, visited, seen>>, pc' = "done"
      PROVE  MessageInv'
  BY <1>1 DEF MessageInv, ContiguousReads, TriedOnce
<1>2. CASE UNCHANGED vars \/ Done
  <2>1. UNCHANGED vars
    BY <1>2 DEF Done
  <2>2. /\ UNCHANGED <<tree, pc, stack, sniffer, taken, current, signal, visited, seen>>
    BY <2>1 DEF vars, scenario
  <2>3. /\ Tried' = Tried /\ Route' = Route /\ Dispatched' = Dispatched
        /\ Repeating' = Repeating /\ Sniffer' = Sniffer
        /\ \A i : ListOf(i)' = ListOf(i) /\ AtOf(i)' = AtOf(i)
    BY <2>2 DEF Tried, Route, Routes, Top, Dispatched, Repeating, Sniffer, ListOf, AtOf
  <2>4. FirstIsNext' = FirstIsNext /\ \A d : Once(d)' = Once(d)
    BY <2>2, <2>3 DEF FirstIsNext, Once
  <2>5. /\ ContiguousReads' = ContiguousReads /\ TriedOnce' = TriedOnce
        /\ UntriedInv' = UntriedInv
    BY <2>2, <2>3 DEF ContiguousReads, TriedOnce, UntriedInv
  <2>6. PlacesInv' = PlacesInv
    BY <2>2, <2>3 DEF PlacesInv
  <2>7. SnifferInv' = SnifferInv /\ ReplayInv' = ReplayInv
    BY <2>2, <2>3, <2>4 DEF SnifferInv, ReplayInv
  <2>8. QED
    BY <2>2, <2>5, <2>6, <2>7 DEF MessageInv
<1>3. ASSUME NEW b, NEW p, stack' = NextRoute(b, p), pc # "done", WalkInv, ~Exhausted,
             pc' = "scan", UNCHANGED <<tree, taken, current, visited, seen>>,
             (~Dispatched /\ sniffer' = sniffer) \/ (pc = "signal" /\ sniffer' = Repeat)
      PROVE  MessageInv'
  BY <1>0, <1>3, AdvanceMessages
<1>4. CASE Skip
  <2>1. /\ pc = "scan" /\ ~Exhausted /\ pc' = "scan" /\ sniffer' = sniffer
        /\ UNCHANGED <<tree, taken, current, visited, seen>>
        /\ stack' = NextRoute(FALSE, <<>>)
    BY <1>4 DEF Skip, scenario
  <2>2. ~Dispatched /\ WalkInv /\ pc # "done"
    BY <1>0, <2>1 DEF Dispatched
  <2>3. QED
    BY <1>3, <2>1, <2>2
<1>5. CASE KeepPartial
  <2>1. /\ pc = "scan" /\ ~Exhausted /\ pc' = "scan" /\ sniffer' = sniffer
        /\ UNCHANGED <<tree, taken, current, visited, seen>>
        /\ stack' = NextRoute(TRUE, <<Route>>)
    BY <1>5 DEF KeepPartial, scenario
  <2>2. ~Dispatched /\ WalkInv /\ pc # "done"
    BY <1>0, <2>1 DEF Dispatched
  <2>3. QED
    BY <1>3, <2>1, <2>2
<1>6. CASE Resume
  <2>1. /\ pc = "signal" /\ pc' = "scan" /\ sniffer' = Repeat
        /\ UNCHANGED <<tree, taken, current, visited, seen>>
        /\ stack' = NextRoute(TRUE, <<>>)
    BY <1>6 DEF Resume, scenario
  <2>2. WalkInv /\ ~Exhausted /\ pc # "done"
    BY <1>0, <2>1 DEF WalkInv
  <2>3. QED
    BY <1>3, <2>1, <2>2
<1>7. CASE CollectPartials
  <2>1. /\ pc = "signal" /\ pc' = "scan" /\ sniffer' = sniffer /\ signal.kind = "pass"
        /\ UNCHANGED <<tree, taken, current, visited, seen>>
        /\ stack' = NextRoute(TRUE, signal.partials)
    BY <1>7 DEF CollectPartials, scenario
  <2>2. WalkInv /\ ~Exhausted /\ pc # "done"
    BY <1>0, <2>1 DEF WalkInv
  <2>3. ~Dispatched
    BY <2>1, <2>2 DEF Dispatched, WalkInv
  <2>4. QED
    BY <1>3, <2>1, <2>2, <2>3
<1>8. CASE EnterEndpoint
  BY <1>0, <1>8, DispatchMessages DEF EnterEndpoint
<1>9. CASE EnterInclude
  BY <1>0, <1>9, EnterMessages DEF EnterInclude
<1>10. CASE ReceiveFromServer \/ ReceiveRepeated
  <2>1. pc = "endpoint"
    BY <1>10 DEF ReceiveFromServer, ReceiveRepeated
  <2>2. QED
    BY <1>0, <1>10, <2>1, ReceiveMessages
<1>11. CASE EndpointSend \/ EndpointLeave("return") \/ EndpointLeave("continue")
  <2>1. /\ pc = "endpoint" /\ pc' \in {"endpoint", "signal"}
        /\ UNCHANGED <<tree, stack, taken, current, visited, seen>>
        /\ sniffer' = sniffer \/ sniffer' = Sent
    BY <1>11 DEF EndpointSend, EndpointLeave, scenario
  <2>2. DOMAIN Sent = DOMAIN sniffer
    BY DEF Sent
  <2>3. \A i \in DOMAIN sniffer : /\ Sent[i].message = sniffer[i].message
                                  /\ Sent[i].repeat = sniffer[i].repeat
    BY DEF Sent
  <2>4. QED
    BY <1>0, <2>1, <2>2, <2>3, QuietMessages
<1>12. CASE EndpointRaise \/ ContinueAfterAnswer
  BY <1>1, <1>12 DEF EndpointRaise, ContinueAfterAnswer, End, scenario
<1>13. ASSUME NEW s, NEW sniffers, Leave(s, sniffers), sniffers = sniffer \/ sniffers = Sent,
              UNCHANGED <<tree, taken, current, visited, seen>>, pc # "done"
       PROVE  MessageInv'
  BY <1>0, <1>13, BackMessages
<1>14. CASE Answered
  BY <1>13, <1>14 DEF Answered, scenario
<1>15. CASE PassPartials
  BY <1>13, <1>15 DEF PassPartials, scenario
<1>16. ASSUME NEW how, Respond(how), pc # "done" PROVE MessageInv'
  BY <1>13, <1>16 DEF Respond, scenario
<1>17. CASE RedirectSlash
  BY <1>16, <1>17 DEF RedirectSlash
<1>18. CASE MethodNotAllowed \/ Default
  <2>1. PICK how : Refuse(how)
    BY <1>18 DEF MethodNotAllowed, Default
  <2>2. pc # "done"
    BY <1>18 DEF MethodNotAllowed, Default
  <2>3. CASE inApp /\ End(how)
    BY <1>1, <2>3 DEF End, scenario
  <2>4. CASE ~inApp /\ Respond(how)
    BY <1>16, <2>2, <2>4
  <2>5. QED
    BY <2>1, <2>3, <2>4 DEF Refuse
<1>19. QED
  BY <1>2, <1>4, <1>8, <1>9, <1>10, <1>11, <1>12, <1>14, <1>15, <1>17, <1>18,
   <1>5, <1>6, <1>7 DEF Next

RoutingInv == AnswerInv /\ SkipInv /\ MessageInv

LEMMA RoutingStep == RoutingInv /\ [Next]_vars => RoutingInv'
BY AnswerStep, SkipStep, MessageStep DEF RoutingInv

LEMMA RoutingInit == Init => RoutingInv
BY AnswerInit, SkipInit, MessageInit DEF RoutingInv

\* No handler misses a message between two of its own, and the first message is
\* there again for the handler after one that looked at it and gave up.
THEOREM ReadsMakeSense == Spec => []MessagesRepeated
<1>1. RoutingInv => MessagesRepeated
  <2> SUFFICES ASSUME RoutingInv PROVE MessagesRepeated
    OBVIOUS
  <2>1. ContiguousReads
    BY DEF RoutingInv, MessageInv
  <2>2. ReplayInProgress
    <3> SUFFICES ASSUME pc = "endpoint", seen[current] # <<>>,
                        \A d \in Endpoints(tree) : SniffedBefore(d) =>
                          /\ Len(seen[d]) = 1
                          /\ \E i \in DOMAIN stack : d \in RoutesOf(tree, stack[i].router)
                 PROVE  Head(seen[current]) = 1
      BY DEF ReplayInProgress, FirstForCurrent
    <3>1. /\ TypeOK /\ WalkInv /\ UntriedInv /\ ReplayInv /\ Dispatched
      BY DEF RoutingInv, AnswerInv, SkipInv, MessageInv, Dispatched
    <3>2. ASSUME NEW d \in Tried \ {current}
          PROVE  Once(d)
      <4> SUFFICES ASSUME seen[d] # <<>>
                   PROVE  SniffedBefore(d) /\ d \in Endpoints(tree)
        BY DEF Once
      <4>1. d \in Endpoints(tree) /\ DOMAIN visited = 1 .. Len(visited) /\ Len(visited) \in Nat
        BY <3>1, TriedFacts
      <4>2. PICK i \in DOMAIN visited : visited[i] = d
        BY DEF Tried
      <4>3. visited # <<>>
        BY <4>2
      <4>4. i # Len(visited)
        BY <3>1, <4>2, <4>3 DEF UntriedInv
      <4>5. i \in 1 .. Len(visited) - 1
        BY <4>1, <4>4
      <4>6. QED
        BY <4>1, <4>2, <4>5 DEF SniffedBefore
    <3>3. seen[current][1] = 1
      BY <3>1, <3>2 DEF ReplayInv
    <3>4. QED
      BY <3>3
  <2>3. QED
    BY <2>1, <2>2 DEF MessagesRepeated
<1>2. QED
  BY <1>1, RoutingInit, RoutingStep, PTL DEF Spec

\* No endpoint is dispatched twice for a request, however often the walk falls
\* through or resumes.
THEOREM DispatchedOnce == Spec => []TriedOnce
<1>1. RoutingInv => TriedOnce
  BY DEF RoutingInv, MessageInv
<1>2. QED
  BY <1>1, RoutingInit, RoutingStep, PTL DEF Spec

=============================================================================
