------------------------- MODULE RequestCycleProofs -------------------------
(***************************************************************************)
(* Proofs about a request and its application.                             *)
(*                                                                         *)
(* RequestCycle, for every set of applications: the state keeps its type,  *)
(* the response_started flags agree with what the server got, the layers   *)
(* together keep the promise of AsgiResponse, and an exception surfaces    *)
(* where it should and is told to whom it should.                          *)
(*                                                                         *)
(* RequestBody, for every body and every way to read it: the Request       *)
(* objects of one request agree on its body, and every chunk is in one of  *)
(* them. The two components have no name in common.                        *)
(***************************************************************************)
EXTENDS RequestCycle, RequestBody, SequenceTheorems, TLAPS

LEMMA AppFacts ==
  ASSUME NEW a \in Apps
  PROVE  /\ a.layers \in Seq(LayerKinds)
         /\ Len(a.layers) >= 2
         /\ a.layers[1] \in {"server", "dispatch"}
BY AppsAssumption DEF AppType

-----------------------------------------------------------------------------
(* The type of the state.                                                   *)

LEMMA InitType == Init => TypeOK
<1> SUFFICES ASSUME Init PROVE TypeOK
  OBVIOUS
<1>1. layers \in Seq(LayerKinds) /\ Len(layers) >= 2 /\ DOMAIN layers = 1 .. Len(layers)
  BY AppFacts DEF Init
<1>2. at \in DOMAIN layers /\ started \in [DOMAIN layers -> BOOLEAN]
  BY <1>1 DEF Init
<1>3. QED
  BY <1>1, <1>2 DEF Init, TypeOK, Phases

\* Moving one layer out.
LEMMA OutType ==
  ASSUME TypeOK, NEW how \in {"return", "raise"},
         NEW ended \in {"returned", "raised"}, Out(how, ended)
  PROVE  /\ at' \in DOMAIN layers /\ phase' \in {how, "done"}
         /\ outcome' \in {outcome, ended}
BY DEF Out, TypeOK

LEMMA RaisedType ==
  ASSUME TypeOK, NEW k \in Kinds, Raised(k)
  PROVE  raised' \subseteq [kind : Kinds, at : Nat, late : BOOLEAN]
<1>1. at \in Nat
  BY DEF TypeOK
<1>2. (wire # <<>>) \in BOOLEAN
  OBVIOUS
<1>3. [kind |-> k, at |-> at, late |-> wire # <<>>]
        \in [kind : Kinds, at : Nat, late : BOOLEAN]
  BY <1>1, <1>2
<1>4. QED
  BY <1>3 DEF Raised, TypeOK

LEMMA StepType == TypeOK /\ [Next]_vars => TypeOK'
<1> SUFFICES ASSUME TypeOK, [Next]_vars PROVE TypeOK'
  OBVIOUS
<1>1. CASE UNCHANGED vars \/ Done
  BY <1>1 DEF Done, vars, TypeOK, Layer
<1>2. CASE Call
  <2>1. Layer \in LayerKinds /\ at + 1 \in DOMAIN layers
    BY <1>2 DEF Call, Layer, TypeOK
  <2>2. phase' = "call" /\ before' \subseteq LayerKinds
    BY <1>2, <2>1 DEF Call, TypeOK
  <2>3. QED
    BY <1>2, <2>1, <2>2 DEF Call, TypeOK, Phases
<1>3. CASE FastRoute
  <2>1. /\ layers' \in Seq(LayerKinds) /\ DOMAIN layers' = 1 .. 3
        /\ started' \in [1 .. 3 -> BOOLEAN] /\ at' \in 1 .. 3
    BY <1>3 DEF FastRoute, LayerKinds
  <2>2. QED
    BY <1>3, <2>1 DEF FastRoute, TypeOK
<1>4. CASE Answer
  BY <1>4 DEF Answer, TypeOK, Phases, Layer
<1>5. CASE SendStart
  <2>1. wire' \in Seq({"start", "body"})
    BY <1>5 DEF SendStart, TypeOK
  <2>2. started' \in [DOMAIN layers -> BOOLEAN]
    BY <1>5 DEF SendStart, TypeOK
  <2>3. QED
    BY <1>5, <2>1, <2>2 DEF SendStart, TypeOK, Layer
<1>6. CASE SendBody
  <2>1. wire' \in Seq({"start", "body"})
    BY <1>6 DEF SendBody, TypeOK
  <2>2. QED
    BY <1>6, <2>1 DEF SendBody, TypeOK, Layer
<1>7. CASE Sent
  <2>1. CASE Reraises
    <3>1. exc \in Kinds
      BY <1>7, <2>1 DEF Sent, Reraises, Answerers, TypeOK
    <3>2. QED
      BY <1>7, <2>1, <3>1, OutType DEF Sent, RaiseOut, TypeOK, Phases
  <2>2. CASE ~Reraises
    BY <1>7, <2>2, OutType DEF Sent, ReturnOut, TypeOK, Phases
  <2>3. QED
    BY <2>1, <2>2
<1>8. CASE Return
  BY <1>8, OutType DEF Return, ReturnOut, TypeOK, Phases
<1>9. CASE Handle
  BY <1>9 DEF Handle, TypeOK, Phases, Layer
<1>10. CASE Inform
  BY <1>10, OutType DEF Inform, Informs, RaiseOut, TypeOK, Phases
<1>11. CASE Pass
  BY <1>11, OutType DEF Pass, RaiseOut, TypeOK, Phases
<1>12. ASSUME NEW k \in Kinds, Raise(k)
       PROVE  TypeOK'
  BY <1>12, RaisedType DEF Raise, TypeOK, Phases
<1>13. ASSUME NEW k \in Kinds, ResponseFails(k)
       PROVE  TypeOK'
  BY <1>13, RaisedType, OutType DEF ResponseFails, RaiseOut, TypeOK, Phases
<1>14. ASSUME NEW k \in Kinds, InformFails(k)
       PROVE  TypeOK'
  BY <1>14, RaisedType, OutType
  DEF InformFails, Informs, RaiseOut, TypeOK, Phases
<1>15. QED
  BY <1>1, <1>2, <1>3, <1>4, <1>5, <1>6, <1>7, <1>8, <1>9, <1>10, <1>11,
     <1>12, <1>13, <1>14 DEF Next

\* Every reachable state of a request has its type.
THEOREM TypeCorrect == Spec => []TypeOK
BY InitType, StepType, PTL DEF Spec

-----------------------------------------------------------------------------
(* The flags and the wire.  What the flags of the layers inside the one in  *)
(* control say is of no use any more; those of the others agree with the    *)
(* wire, except that the server error middleware does not see what it sends *)
(* itself.                                                                  *)

Complete == Response = "complete"

FlagsInv ==
  /\ \A i \in DOMAIN layers : started[i] => wire # <<>>
  /\ phase \in {"return", "raise"} /\ wire # <<>>
       => \A i \in 1 .. at : started[i]
  /\ phase = "respond" /\ wire # <<>>
       => \A i \in 1 .. at : Sees(i) => started[i]

\* How far the response is, by what the layer in control does.
StageInv ==
  /\ phase = "call" => wire = <<>> /\ exc = "none"
  /\ phase = "return" => Complete
  /\ phase = "respond" =>
       /\ sent = 0 => wire = <<>> \/ Lenient
       /\ sent = 1 => Response = "started"
       /\ sent = 2 => Complete
  /\ phase = "done" <=> outcome # "running"

CycleInv == TypeOK /\ FlagsInv /\ StageInv

LEMMA CycleInit == Init => CycleInv
<1> SUFFICES ASSUME Init PROVE CycleInv
  OBVIOUS
<1>1. TypeOK
  BY InitType
<1>2. FlagsInv
  BY DEF Init, FlagsInv
<1>3. StageInv
  BY DEF Init, StageInv
<1>4. QED
  BY <1>1, <1>2, <1>3 DEF CycleInv

\* A layer that is left by an exception leaves agreeing flags behind.
LEMMA RaiseOutInv ==
  ASSUME CycleInv, NEW k, RaiseOut(k), UNCHANGED <<layers, started, wire, app>>,
         phase \in {"respond", "raise"}
  PROVE  FlagsInv' /\ StageInv'
<1>1. wire # <<>> => \A i \in 1 .. at - 1 : started[i]
  BY DEF CycleInv, FlagsInv, TypeOK, Sees
<1>2. at \in Nat /\ outcome = "running"
  BY DEF CycleInv, TypeOK, StageInv
<1>3. CASE at = 1
  BY <1>2, <1>3 DEF RaiseOut, Out, CycleInv, FlagsInv, StageInv
<1>4. CASE at # 1
  <2>1. phase' = "raise" /\ at' = at - 1 /\ outcome' = outcome
    BY <1>4 DEF RaiseOut, Out
  <2>2. QED
    BY <1>1, <1>2, <2>1 DEF CycleInv, FlagsInv, StageInv
<1>5. QED
  BY <1>3, <1>4

LEMMA ReturnOutInv ==
  ASSUME CycleInv, ReturnOut, UNCHANGED <<layers, started, wire, app>>,
         phase \in {"respond", "return"}, Complete
  PROVE  FlagsInv' /\ StageInv'
<1>1. \A i \in 1 .. at - 1 : started[i]
  BY DEF CycleInv, FlagsInv, TypeOK, Sees, Complete, Response
<1>2. at \in Nat /\ outcome = "running" /\ Complete'
  BY DEF CycleInv, TypeOK, StageInv, Complete, Response
<1>3. CASE at = 1
  BY <1>2, <1>3 DEF ReturnOut, Out, CycleInv, FlagsInv, StageInv
<1>4. CASE at # 1
  <2>1. phase' = "return" /\ at' = at - 1 /\ outcome' = outcome
    BY <1>4 DEF ReturnOut, Out
  <2>2. QED
    BY <1>1, <1>2, <2>1 DEF CycleInv, FlagsInv, StageInv
<1>5. QED
  BY <1>3, <1>4

LEMMA CycleStep == CycleInv /\ [Next]_vars => CycleInv'
<1> SUFFICES ASSUME CycleInv, [Next]_vars PROVE FlagsInv' /\ StageInv'
  BY StepType DEF CycleInv
<1>0. TypeOK /\ at \in Nat \ {0} /\ DOMAIN layers = 1 .. Len(layers)
  BY DEF CycleInv, TypeOK
<1>1. CASE UNCHANGED vars \/ Done
  BY <1>1 DEF Done, vars, CycleInv, FlagsInv, StageInv, Complete, Response,
              Lenient, Sees, Layer
<1>2. CASE Call
  BY <1>2 DEF Call, CycleInv, FlagsInv, StageInv
<1>3. CASE FastRoute
  BY <1>3 DEF FastRoute, CycleInv, FlagsInv, StageInv
<1>4. CASE Answer
  BY <1>4 DEF Answer, CycleInv, FlagsInv, StageInv
<1>5. CASE SendStart
  <2>1. wire' # <<>> /\ Len(wire') = Len(wire) + 1 /\ wire'[Len(wire')] = "start"
    BY <1>5 DEF SendStart, CycleInv, TypeOK
  <2>2. Response' = "started"
    BY <2>1 DEF Response
  <2>3. \A i \in 1 .. at : Sees(i) => started'[i]
    <3>1. 1 .. at \subseteq DOMAIN started
      BY <1>0 DEF TypeOK
    <3>2. started' = [i \in DOMAIN started |-> started[i] \/ Sees(i)]
      BY <1>5 DEF SendStart
    <3>3. QED
      BY <3>1, <3>2, Zenon
  <2>4. phase' = "respond" /\ layers' = layers /\ at' = at /\ \A i : Sees(i)' = Sees(i)
    BY <1>5 DEF SendStart, Sees, Layer
  <2>5. FlagsInv'
    BY <2>1, <2>3, <2>4 DEF FlagsInv
  <2>6. QED
    BY <1>5, <2>2, <2>5 DEF SendStart, CycleInv, StageInv
<1>6. CASE SendBody
  <2>1. wire' # <<>> /\ Len(wire') = Len(wire) + 1 /\ wire'[Len(wire')] = "body"
    BY <1>6 DEF SendBody, CycleInv, TypeOK
  <2>2. Complete' /\ wire # <<>>
    BY <1>6, <2>1 DEF SendBody, Complete, Response, CycleInv, StageInv
  <2>3. FlagsInv'
    BY <1>6, <2>1, <2>2 DEF SendBody, CycleInv, FlagsInv, Sees, Layer
  <2>4. QED
    BY <1>6, <2>2, <2>3 DEF SendBody, CycleInv, StageInv
<1>7. CASE Sent
  BY <1>7, RaiseOutInv, ReturnOutInv DEF Sent, CycleInv, StageInv
<1>8. CASE Return
  BY <1>8, ReturnOutInv DEF Return, CycleInv, StageInv
<1>9. CASE Handle
  <2>1. wire = <<>> \/ Lenient
    BY <1>0, <1>9
    DEF Handle, Handles, MayAnswer, CycleInv, FlagsInv, TypeOK, Lenient
  <2>2. FlagsInv'
    BY <1>9 DEF Handle, CycleInv, FlagsInv, Sees, Layer
  <2>3. QED
    BY <1>9, <2>1, <2>2 DEF Handle, CycleInv, StageInv, Lenient
<1>10. CASE Inform \/ Pass
  BY <1>10, RaiseOutInv DEF Inform, Informs, Pass
<1>11. ASSUME NEW k \in Kinds, Raise(k)
       PROVE  FlagsInv' /\ StageInv'
  BY <1>11 DEF Raise, CycleInv, FlagsInv, StageInv
<1>12. ASSUME NEW k \in Kinds, ResponseFails(k)
       PROVE  FlagsInv' /\ StageInv'
  <2>1. CASE exc # "none"
    BY <1>12, <2>1, RaiseOutInv DEF ResponseFails
  <2>2. CASE exc = "none"
    <3>1. Layer \in Answerers
      BY <1>12, <2>2 DEF ResponseFails, CycleInv, TypeOK, Kinds
    <3>2. \A i \in 1 .. at : Sees(i)
      BY <1>0, <3>1 DEF Sees, Answerers
    <3>3. QED
      BY <1>12, <2>2, <3>2 DEF ResponseFails, CycleInv, FlagsInv, StageInv
  <2>3. QED
    BY <2>1, <2>2
<1>13. ASSUME NEW k \in Kinds, InformFails(k)
       PROVE  FlagsInv' /\ StageInv'
  BY <1>13, RaiseOutInv DEF InformFails, Informs
<1>14. QED
  BY <1>1, <1>2, <1>3, <1>4, <1>5, <1>6, <1>7, <1>8, <1>9, <1>10, <1>11,
     <1>12, <1>13 DEF Next

\* The flag of the layer that handles an exception agrees with the wire.
THEOREM FlagsCorrect == Spec => []FlagsAgree
<1>1. CycleInv => FlagsAgree
  BY DEF CycleInv, FlagsInv, FlagsAgree, TypeOK
<1>2. QED
  BY <1>1, CycleInit, CycleStep, PTL DEF Spec

-----------------------------------------------------------------------------
(* Every step of a request is a step of the promise, or none of it.         *)

LEMMA PromiseInit == Init => Asgi!Init
BY DEF Init, Asgi!Init, Response, Lenient

LEMMA PromiseStep == CycleInv /\ [Next]_vars => [Asgi!Next]_Asgi!vars
<1> SUFFICES ASSUME CycleInv, [Next]_vars PROVE [Asgi!Next]_Asgi!vars
  OBVIOUS
<1> USE DEF Asgi!Next, Asgi!vars
<1>1. ASSUME UNCHANGED <<app, wire, outcome>>
      PROVE  [Asgi!Next]_Asgi!vars
  BY <1>1 DEF Response, Lenient
<1>2. CASE SendStart
  <2>1. Len(wire') = Len(wire) + 1 /\ wire'[Len(wire')] = "start" /\ wire' # <<>>
    BY <1>2 DEF SendStart, CycleInv, TypeOK
  <2>2. Response' = "started" /\ Lenient' = Lenient /\ outcome' = outcome
    BY <1>2, <2>1 DEF SendStart, Response, Lenient
  <2>3. outcome = "running" /\ (Response = "idle" \/ Lenient)
    BY <1>2 DEF SendStart, CycleInv, StageInv, TypeOK, Response
  <2>4. QED
    BY <2>2, <2>3 DEF Asgi!Start
<1>3. CASE SendBody
  <2>1. Len(wire') = Len(wire) + 1 /\ wire'[Len(wire')] = "body" /\ wire' # <<>>
    BY <1>3 DEF SendBody, CycleInv, TypeOK
  <2>2. Response' = "complete" /\ Lenient' = Lenient /\ outcome' = outcome
    BY <1>3, <2>1 DEF SendBody, Response, Lenient
  <2>3. outcome = "running" /\ Response = "started"
    BY <1>3 DEF SendBody, CycleInv, StageInv, TypeOK
  <2>4. QED
    BY <2>2, <2>3 DEF Asgi!Complete
<1>4. ASSUME NEW k, RaiseOut(k), UNCHANGED <<wire, app>>,
             phase \in {"respond", "raise"}
      PROVE  [Asgi!Next]_Asgi!vars
  <2>1. outcome = "running" /\ outcome' \in {outcome, "raised"}
    BY <1>4 DEF RaiseOut, Out, CycleInv, StageInv, TypeOK
  <2>2. UNCHANGED <<Response, Lenient>>
    BY <1>4 DEF Response, Lenient
  <2>3. QED
    BY <2>1, <2>2 DEF Asgi!Raise
<1>5. ASSUME ReturnOut, UNCHANGED <<wire, app>>, Complete,
             phase \in {"respond", "return"}
      PROVE  [Asgi!Next]_Asgi!vars
  <2>1. outcome = "running" /\ outcome' \in {outcome, "returned"}
    BY <1>5 DEF ReturnOut, Out, CycleInv, StageInv, TypeOK
  <2>2. UNCHANGED <<Response, Lenient>> /\ Response = "complete"
    BY <1>5 DEF Response, Lenient, Complete
  <2>3. QED
    BY <2>1, <2>2 DEF Asgi!Return
<1>6. CASE Sent
  BY <1>4, <1>5, <1>6 DEF Sent, CycleInv, StageInv
<1>7. CASE Return
  BY <1>5, <1>7 DEF Return, CycleInv, StageInv
<1>8. CASE Inform \/ Pass \/ \E k \in Kinds : InformFails(k)
  BY <1>4, <1>8 DEF Inform, Pass, InformFails, Informs
<1>9. ASSUME NEW k \in Kinds, ResponseFails(k)
      PROVE  [Asgi!Next]_Asgi!vars
  BY <1>1, <1>4, <1>9 DEF ResponseFails
<1>10. CASE \/ UNCHANGED vars \/ Done \/ Call \/ FastRoute \/ Answer \/ Handle
            \/ \E k \in Kinds : Raise(k)
  BY <1>1, <1>10 DEF vars, Done, Call, FastRoute, Answer, Handle, Raise
<1>11. QED
  BY <1>2, <1>3, <1>6, <1>7, <1>8, <1>9, <1>10 DEF Next

\* The layers together keep the promise an application makes to its server:
\* one response, completed unless an exception comes out, and started over
\* only where an Include or a Path has exception handlers of its own.
THEOREM PromiseKept == Spec => KeepsAsgi
<1>1. QED
  BY PromiseInit, PromiseStep, CycleInit, CycleStep, PTL
  DEF Spec, KeepsAsgi, Asgi!Spec

-----------------------------------------------------------------------------
(* What comes out.  The layers of a request are those of its application or *)
(* the short way of fast_http, and nothing was raised while it is on its    *)
(* way in.                                                                  *)

ShapeInv ==
  /\ Len(layers) \in Nat \ {0} /\ DOMAIN layers = 1 .. Len(layers)
  /\ \A i \in DOMAIN layers : layers[i] = "dispatch" => i = 1
  /\ layers[1] = app.layers[1]
  /\ phase = "call" => raised = {} /\ told = 0
  /\ raised = {} => phase # "raise" /\ exc = "none"
  /\ app.handles \subseteq {"http", "own"}
  /\ layers[1] = "dispatch" => app.handles = {} /\ ~app.errorHandler
  /\ layers[1] \in {"server", "dispatch"}

LEMMA ShapeInit == Init => ShapeInv
<1> SUFFICES ASSUME Init PROVE ShapeInv
  OBVIOUS
<1>1. AppType(app)
  BY AppsAssumption DEF Init
<1>2. Len(layers) \in Nat \ {0} /\ DOMAIN layers = 1 .. Len(layers)
  BY <1>1, AppFacts DEF Init
<1>3. QED
  BY <1>1, <1>2 DEF Init, AppType, ShapeInv

\* The steps but FastRoute change neither the application nor its layers.
LEMMA SameLayers ==
  ASSUME Next, ~FastRoute
  PROVE  app' = app /\ layers' = layers
BY DEF Next, Call, Answer, SendStart, SendBody, Sent, Return, Handle, Inform,
       Pass, Raise, ResponseFails, InformFails, Done, vars

\* A request does not turn inwards again.
LEMMA CallFirst ==
  ASSUME Next, phase' = "call"
  PROVE  phase = "call" /\ UNCHANGED <<raised, told>>
BY DEF Next, Call, FastRoute, Answer, SendStart, SendBody, Sent, Return, Handle,
       Inform, Pass, Raise, ResponseFails, InformFails, Done, vars, RaiseOut,
       ReturnOut, Out

\* An exception comes from user code.
LEMMA NothingRaised ==
  ASSUME TypeOK, Next, raised' = {},
         raised = {} => phase # "raise" /\ exc = "none"
  PROVE  phase' # "raise" /\ exc' = "none"
<1>1. \A k \in Kinds : ~Raise(k) /\ ~ResponseFails(k) /\ ~InformFails(k)
  BY DEF Raise, ResponseFails, InformFails, Raised
<1>2. raised = {}
  BY <1>1 DEF Next, Call, FastRoute, Answer, SendStart, SendBody, Sent, Return,
              Handle, Inform, Pass, Done, vars
<1>3. ~Handle /\ ~Inform /\ ~Pass
  BY <1>2 DEF Handle, Inform, Informs, Pass
<1>4. CASE Sent
  <2>1. phase = "respond" /\ exc = "none"
    BY <1>2, <1>4 DEF Sent
  <2>2. exc \notin Kinds
    BY <2>1 DEF Kinds
  <2>3. Layer \in Answerers
    BY <2>1, <2>2 DEF TypeOK
  <2>4. ~Reraises
    BY <2>3 DEF Reraises, Answerers
  <2>5. QED
    BY <1>4, <2>4 DEF Sent, ReturnOut, Out
<1>5. CASE Return
  BY <1>5 DEF Return, ReturnOut, Out
<1>6. CASE Call \/ FastRoute \/ Answer \/ SendStart \/ SendBody \/ Done
  <2>1. phase # "raise" /\ exc = "none"
    BY <1>2
  <2>2. exc' = exc /\ (phase' = phase \/ phase' = "respond")
    BY <1>6 DEF Call, FastRoute, Answer, SendStart, SendBody, Done, vars
  <2>3. QED
    BY <2>1, <2>2
<1>7. QED
  BY <1>1, <1>3, <1>4, <1>5, <1>6 DEF Next

LEMMA ShapeStep == CycleInv /\ ShapeInv /\ [Next]_vars => ShapeInv'
<1> SUFFICES ASSUME CycleInv, ShapeInv, [Next]_vars PROVE ShapeInv'
  OBVIOUS
<1>1. CASE UNCHANGED vars
  BY <1>1 DEF vars, ShapeInv
<1>2. CASE FastRoute
  <2>1. layers[at] = "dispatch" /\ at \in DOMAIN layers
    BY <1>2 DEF FastRoute, Layer, CycleInv, TypeOK
  <2>2. layers[1] = "dispatch"
    BY <2>1 DEF ShapeInv
  <2>3. layers' = <<"dispatch", "path", "endpoint">>
    BY <1>2 DEF FastRoute
  <2>4. /\ Len(layers') = 3 /\ DOMAIN layers' = 1 .. 3 /\ layers'[1] = "dispatch"
        /\ \A i \in DOMAIN layers' : layers'[i] = "dispatch" => i = 1
    BY <2>3
  <2>5. QED
    BY <1>2, <2>2, <2>4 DEF FastRoute, ShapeInv
<1>3. CASE Next /\ ~FastRoute
  <2>1. raised' = {} => phase' # "raise" /\ exc' = "none"
    BY <1>3, NothingRaised DEF ShapeInv, CycleInv
  <2>2. QED
    BY <1>3, <2>1, SameLayers, CallFirst DEF ShapeInv
<1>4. QED
  BY <1>1, <1>2, <1>3

-----------------------------------------------------------------------------
(* An exception that only the error middleware can answer goes on as an     *)
(* exception, and only the error middleware responds meanwhile.             *)

Unexpected ==
  /\ raised # {} /\ \A r \in raised : r.kind = "error"
  /\ "error" \notin app.include \cup app.path
  /\ \A i \in DOMAIN layers : layers[i] # "intercept"

UnexpectedInv ==
  Unexpected => /\ phase \in {"raise", "respond", "done"}
                /\ outcome # "returned"
                /\ phase # "done" => exc = "error"
                /\ phase = "respond" => Layer \in {"server", "dispatch"}

LEMMA UnexpectedStep ==
  CycleInv /\ ShapeInv /\ UnexpectedInv /\ [Next]_vars => UnexpectedInv'
<1> SUFFICES ASSUME CycleInv, ShapeInv, UnexpectedInv, [Next]_vars, Unexpected'
             PROVE  /\ phase' \in {"raise", "respond", "done"}
                    /\ outcome' # "returned"
                    /\ phase' # "done" => exc' = "error"
                    /\ phase' = "respond" => Layer' \in {"server", "dispatch"}
  BY DEF UnexpectedInv
<1>0. TypeOK /\ StageInv
  BY DEF CycleInv
<1>1. CASE UNCHANGED vars
  BY <1>1 DEF vars, UnexpectedInv, Unexpected, Layer
<1>2. CASE FastRoute
  BY <1>2 DEF FastRoute, Unexpected, ShapeInv
<1>3. ASSUME NEW k, RaiseOut(k), k = "error"
      PROVE  /\ phase' \in {"raise", "done"} /\ exc' = "error"
             /\ outcome' \in {outcome, "raised"}
  BY <1>3 DEF RaiseOut, Out
<1>7. ASSUME NEW k, Raised(k)
      PROVE  k = "error"
  <2>1. [kind |-> k, at |-> at, late |-> wire # <<>>] \in raised'
    BY <1>7 DEF Raised
  <2>2. \A r \in raised' : r.kind = "error"
    BY DEF Unexpected
  <2>3. QED
    BY <2>1, <2>2
<1>4. CASE Next /\ ~FastRoute /\ raised = {}
  <2>1. raised' # {} /\ phase # "raise" /\ exc = "none"
    BY <1>4 DEF Unexpected, ShapeInv
  <2>2. PICK k \in Kinds : Raise(k) \/ ResponseFails(k)
    BY <1>4, <2>1
    DEF Next, Call, Answer, SendStart, SendBody, Sent, Return, Handle, Inform,
        InformFails, Informs, Pass, Done, vars
  <2>3. k = "error"
    BY <1>7, <2>2 DEF Raise, ResponseFails
  <2>4. outcome = "running"
    BY <1>0, <2>2 DEF Raise, ResponseFails, StageInv, TypeOK
  <2>5. QED
    BY <2>1, <2>2, <2>3, <2>4 DEF Raise, ResponseFails
<1>5. CASE Next /\ ~FastRoute /\ raised # {}
  <2>1. Unexpected /\ app' = app /\ layers' = layers
    <3>1. raised \subseteq raised'
      BY <1>5 DEF Next, Call, Answer, SendStart, SendBody, Sent, Return, Handle,
                  Inform, Pass, Raise, ResponseFails, InformFails, Raised, Done, vars
    <3>2. QED
      BY <1>5, <3>1, SameLayers DEF Unexpected
  <2>2. /\ phase \in {"raise", "respond", "done"} /\ outcome # "returned"
        /\ phase # "done" => exc = "error"
        /\ phase = "respond" => Layer \in {"server", "dispatch"}
    BY <2>1 DEF UnexpectedInv
  <2>3. CASE Handle
    <3>1. Layer \in {"server", "dispatch"}
      <4>1. "error" \notin app.handles /\ Layer # "intercept"
        BY <1>0, <2>1 DEF ShapeInv, Unexpected, Layer, TypeOK
      <4>2. QED
        BY <2>1, <2>2, <2>3, <4>1 DEF Handle, Handles, Unexpected
    <3>2. QED
      BY <2>2, <2>3, <3>1 DEF Handle, Layer
  <2>4. CASE SendStart \/ SendBody
    BY <2>2, <2>4 DEF SendStart, SendBody, Layer
  <2>5. CASE Sent
    BY <1>3, <2>2, <2>5 DEF Sent, Reraises
  <2>6. ASSUME NEW k \in Kinds, ResponseFails(k) \/ InformFails(k)
        PROVE  RaiseOut(k) /\ k = "error"
    BY <1>7, <2>2, <2>6 DEF ResponseFails, InformFails, Informs
  <2>7. CASE Inform \/ Pass
    BY <1>3, <2>2, <2>7 DEF Inform, Informs, Pass
  <2>8. ~(Call \/ Answer \/ Return \/ \E k \in Kinds : Raise(k))
    BY <2>2 DEF Call, Answer, Return, Raise
  <2>9. CASE Done
    BY <2>2, <2>9 DEF Done, vars, Layer
  <2>10. QED
    BY <1>3, <1>5, <2>2, <2>3, <2>4, <2>5, <2>6, <2>7, <2>8, <2>9 DEF Next
<1>6. QED
  BY <1>1, <1>2, <1>4, <1>5

-----------------------------------------------------------------------------
(* An exception the application handles is one of its kinds, and within     *)
(* reach of an exception middleware, until that has answered it.            *)

AllHandled == \A r \in raised : r.kind \in app.handles /\ ~r.late /\ Inside(r.at)

HandledInv == AllHandled =>
  /\ outcome # "raised"
  /\ phase = "raise" => exc \in app.handles /\ wire = <<>> /\ Inside(at + 1)
  /\ phase = "respond" => exc = "none" \/ (exc \in app.handles /\ Inside(at + 1))

\* One layer further out the exception middleware is still ahead, unless the
\* layer in control is it.
LEMMA InsideOut ==
  ASSUME TypeOK, Inside(at + 1), Layer \notin {"exception", "intercept"}
  PROVE  Inside(at) /\ Layer # "server" /\ at # 1
<1>1. at \in Nat \ {0}
  BY DEF TypeOK
<1>2. PICK j \in 1 .. at : /\ layers[j] \in {"exception", "intercept"}
                          /\ \A k \in j + 1 .. at : layers[k] # "server"
  BY <1>1 DEF Inside
<1>3. j \in 1 .. at - 1 /\ at \in j + 1 .. at
  BY <1>1, <1>2 DEF Layer
<1>4. QED
  BY <1>1, <1>2, <1>3 DEF Inside, Layer

LEMMA InsideIn ==
  ASSUME TypeOK, Inside(at), Layer # "server"
  PROVE  Inside(at + 1) /\ at # 1
<1>1. at \in Nat \ {0}
  BY DEF TypeOK
<1>2. PICK j \in 1 .. at - 1 : /\ layers[j] \in {"exception", "intercept"}
                              /\ \A k \in j + 1 .. at - 1 : layers[k] # "server"
  BY <1>1 DEF Inside
<1>3. \A k \in j + 1 .. at : layers[k] # "server"
  BY <1>1, <1>2 DEF Layer
<1>4. QED
  BY <1>1, <1>2, <1>3 DEF Inside

LEMMA HandledStep ==
  CycleInv /\ ShapeInv /\ HandledInv /\ [Next]_vars => HandledInv'
<1> SUFFICES ASSUME CycleInv, ShapeInv, HandledInv, [Next]_vars, AllHandled'
             PROVE  /\ outcome' # "raised"
                    /\ phase' = "raise" =>
                         exc' \in app'.handles /\ wire' = <<>> /\ Inside(at + 1)'
                    /\ phase' = "respond" =>
                         exc' = "none" \/ (exc' \in app'.handles /\ Inside(at + 1)')
  BY DEF HandledInv
<1>0. TypeOK /\ StageInv /\ FlagsInv /\ at \in Nat \ {0}
  BY DEF CycleInv, TypeOK
<1>1. CASE UNCHANGED vars
  BY <1>1 DEF vars, HandledInv, AllHandled, Inside
<1>2. CASE FastRoute
  BY <1>0, <1>2 DEF FastRoute, StageInv, TypeOK
<1>3. CASE Next /\ ~FastRoute
  <2>1. /\ app' = app /\ layers' = layers /\ raised \subseteq raised'
        /\ \A i : Inside(i)' = Inside(i)
    <3>1. raised \subseteq raised'
      BY <1>3 DEF Next, Call, Answer, SendStart, SendBody, Sent, Return, Handle,
                  Inform, Pass, Raise, ResponseFails, InformFails, Raised, Done, vars
    <3>2. QED
      BY <1>3, <3>1, SameLayers DEF Inside
  <2>2. AllHandled
    BY <2>1 DEF AllHandled
  <2>3. /\ outcome # "raised"
        /\ phase = "raise" => exc \in app.handles /\ wire = <<>> /\ Inside(at + 1)
        /\ phase = "respond" => exc = "none" \/ (exc \in app.handles /\ Inside(at + 1))
    BY <2>2 DEF HandledInv
  \* An exception leaves a layer that does not handle it.
  <2>4. ASSUME NEW k \in app.handles, RaiseOut(k), wire' = wire, wire = <<>>, Inside(at),
               at # 1
        PROVE  /\ outcome' # "raised" /\ phase' = "raise" /\ exc' \in app.handles
               /\ wire' = <<>> /\ Inside(at + 1)'
    <3>1. at' = at - 1 /\ phase' = "raise" /\ outcome' = outcome /\ exc' = k
      BY <2>4 DEF RaiseOut, Out
    <3>2. at' + 1 = at
      BY <1>0, <3>1
    <3>3. QED
      BY <2>1, <2>3, <2>4, <3>1, <3>2
  <2>5. ASSUME NEW k \in Kinds, Raised(k)
        PROVE  k \in app.handles /\ wire = <<>> /\ Inside(at)
    <3>1. [kind |-> k, at |-> at, late |-> wire # <<>>] \in raised'
      BY <2>5 DEF Raised
    <3>2. QED
      BY <2>1, <3>1 DEF AllHandled
  <2>6. ASSUME NEW k \in Kinds, Raise(k)
        PROVE  phase' = "raise" /\ exc' \in app.handles /\ wire' = <<>> /\ Inside(at + 1)
               /\ at' = at /\ outcome' = outcome
    <3>1. Layer # "server"
      BY <2>6 DEF Raise, UserCode
    <3>2. QED
      BY <1>0, <2>5, <2>6, <3>1, InsideIn DEF Raise
  <2>7. ASSUME NEW k \in Kinds, ResponseFails(k)
        PROVE  /\ outcome' # "raised" /\ phase' = "raise" /\ exc' \in app.handles
               /\ wire' = <<>> /\ Inside(at + 1)'
    <3>1. k \in app.handles /\ wire = <<>> /\ Inside(at) /\ wire' = wire
      BY <2>5, <2>7 DEF ResponseFails
    <3>2. at # 1
      BY <3>1 DEF Inside
    <3>3. CASE exc # "none"
      BY <2>4, <2>7, <3>1, <3>2, <3>3 DEF ResponseFails
    <3>4. CASE exc = "none"
      <4>1. Layer # "server"
        BY <1>0, <2>7, <3>4 DEF ResponseFails, TypeOK, Answerers, Kinds
      <4>2. Inside(at + 1)
        BY <1>0, <3>1, <4>1, InsideIn
      <4>3. QED
        BY <2>1, <2>3, <2>7, <3>1, <3>4, <4>2 DEF ResponseFails
    <3>5. QED
      BY <3>3, <3>4
  <2>8. ~Informs
    BY <1>0, <2>3 DEF Informs, FlagsInv, TypeOK
  <2>9. CASE Handle
    BY <2>1, <2>3, <2>9 DEF Handle
  <2>10. CASE Pass
    <3>1. ~started[at] /\ phase = "raise"
      BY <1>0, <2>3, <2>10 DEF Pass, FlagsInv, TypeOK
    <3>2. ~Handles
      BY <2>10, <3>1 DEF Pass, MayAnswer
    <3>3. Layer \notin {"exception", "intercept"}
      BY <2>3, <3>1, <3>2 DEF Handles
    <3>4. Inside(at) /\ at # 1
      BY <1>0, <2>3, <3>1, <3>3, InsideOut
    <3>5. QED
      BY <2>1, <2>3, <2>4, <2>10, <3>1, <3>4 DEF Pass
  <2>11. CASE Sent
    <3>1. ~Reraises
      <4>1. ASSUME Reraises
            PROVE  FALSE
        <5>1. Layer \notin Answerers /\ exc \in app.handles /\ Inside(at + 1)
          BY <1>0, <2>3, <2>11, <4>1 DEF Sent, Reraises, Answerers, TypeOK, Kinds
        <5>2. Layer = "dispatch"
          BY <1>0, <4>1, <5>1, InsideOut DEF Reraises
        <5>3. layers[1] = "dispatch"
          BY <1>0, <5>2 DEF ShapeInv, Layer, TypeOK
        <5>4. QED
          BY <5>1, <5>3 DEF ShapeInv
      <4>2. QED
        BY <4>1
    <3>2. QED
      BY <2>3, <2>11, <3>1 DEF Sent, ReturnOut, Out
  <2>12. CASE Return
    BY <2>3, <2>12 DEF Return, ReturnOut, Out
  <2>13. CASE Answer
    BY <1>0, <2>3, <2>13 DEF Answer, StageInv
  <2>14. CASE Call \/ SendStart \/ SendBody \/ Done
    BY <2>1, <2>3, <2>14 DEF Call, SendStart, SendBody, Done, vars
  <2>15. QED
    BY <1>3, <2>1, <2>3, <2>6, <2>7, <2>8, <2>9, <2>10, <2>11, <2>12, <2>13, <2>14
    DEF Next, Inform, InformFails
<1>4. QED
  BY <1>1, <1>2, <1>3

SurfaceInv == ShapeInv /\ UnexpectedInv /\ HandledInv

LEMMA SurfaceInit == Init => SurfaceInv
BY ShapeInit DEF SurfaceInv, Init, UnexpectedInv, Unexpected, HandledInv

LEMMA SurfaceStep == CycleInv /\ SurfaceInv /\ [Next]_vars => SurfaceInv'
BY ShapeStep, UnexpectedStep, HandledStep DEF SurfaceInv

\* For every stack of layers: what nobody handles comes out, and what the
\* application handles stays inside.
THEOREM RightOnesSurface == Spec => []Surfacing
<1>1. CycleInv /\ SurfaceInv => Surfacing
  <2> SUFFICES ASSUME CycleInv, SurfaceInv PROVE Surfacing
    OBVIOUS
  <2>1. UnexpectedSurfaces
    BY DEF SurfaceInv, UnexpectedInv, Unexpected, UnexpectedSurfaces
  <2>2. HandledNeverSurfaces
    BY DEF SurfaceInv, HandledInv, AllHandled, HandledNeverSurfaces
  <2>3. QED
    BY <2>1, <2>2 DEF Surfacing
<1>2. QED
  BY <1>1, CycleInit, CycleStep, SurfaceInit, SurfaceStep, PTL DEF Spec

-----------------------------------------------------------------------------
(* The application's error handler.  The outermost layer tells it before it *)
(* lets an exception out; while nothing was raised late no layer sees an    *)
(* exception after the start of a response, so it is told of one only.      *)

TellsInv ==
  app.errorHandler =>
    /\ outcome = "raised" => told >= 1
    /\ phase = "respond" /\ Layer = "server" => told >= 1

InTime == \A r \in raised : ~r.late
OneServer == \A i \in 2 .. Len(layers) : layers[i] # "server"

OnceInv ==
  InTime /\ OneServer =>
    /\ phase = "raise" => wire = <<>>
    /\ told = 0 \/ (told = 1 /\ at = 1 /\ phase \in {"respond", "done"})

LEMMA TellsStep ==
  CycleInv /\ ShapeInv /\ TellsInv /\ [Next]_vars => TellsInv'
<1> SUFFICES ASSUME CycleInv, ShapeInv, TellsInv, [Next]_vars, app'.errorHandler
             PROVE  /\ outcome' = "raised" => told' >= 1
                    /\ phase' = "respond" /\ Layer' = "server" => told' >= 1
  BY DEF TellsInv
<1>0. TypeOK /\ StageInv /\ at \in Nat \ {0} /\ told \in Nat
  BY DEF CycleInv, TypeOK
<1>1. CASE UNCHANGED vars \/ Done
  BY <1>1 DEF vars, Done, TellsInv, Layer
<1>2. CASE FastRoute
  BY <1>0, <1>2 DEF FastRoute, StageInv
<1>3. CASE Next /\ ~FastRoute /\ ~Done
  <2>1. app' = app /\ layers' = layers /\ app.errorHandler /\ layers[1] = "server"
    BY <1>3, SameLayers DEF ShapeInv
  <2>2. /\ outcome = "raised" => told >= 1
        /\ phase = "respond" /\ Layer = "server" => told >= 1
    BY <2>1 DEF TellsInv
  <2>3. ASSUME NEW k, RaiseOut(k), told' >= 1 \/ (at # 1 /\ told' = told)
        PROVE  outcome' = "raised" => told' >= 1
    BY <2>2, <2>3 DEF RaiseOut, Out
  <2>4. ASSUME NEW k, RaiseOut(k)
        PROVE  phase' # "respond"
    BY <2>4 DEF RaiseOut, Out
  <2>5. CASE Handle
    BY <1>0, <2>1, <2>2, <2>5 DEF Handle, Tells, Layer
  <2>6. CASE Sent
    <3>1. CASE Reraises
      <4>1. told' = told /\ (told >= 1 \/ at # 1)
        BY <2>1, <2>2, <2>6 DEF Sent, Layer
      <4>2. QED
        BY <2>3, <2>4, <2>6, <3>1, <4>1 DEF Sent
    <3>2. CASE ~Reraises
      BY <2>2, <2>6, <3>2 DEF Sent, ReturnOut, Out
    <3>3. QED
      BY <3>1, <3>2
  <2>7. CASE Return
    BY <2>2, <2>7 DEF Return, ReturnOut, Out
  <2>8. ASSUME NEW k \in Kinds, ResponseFails(k)
        PROVE  /\ outcome' = "raised" => told' >= 1
               /\ phase' # "respond"
    <3>1. told' = told /\ (told >= 1 \/ at # 1) /\ phase = "respond"
      BY <2>1, <2>2, <2>8 DEF ResponseFails, Layer
    <3>2. outcome = "running"
      BY <1>0, <3>1 DEF StageInv
    <3>3. QED
      BY <2>3, <2>4, <2>8, <3>1, <3>2 DEF ResponseFails
  <2>9. ASSUME NEW k, RaiseOut(k), Informs,
               told' = IF Layer = "endpoint" /\ exc \in app.handles THEN told ELSE told + 1
        PROVE  /\ outcome' = "raised" => told' >= 1
               /\ phase' # "respond"
    <3>1. told' >= 1 \/ (at # 1 /\ told' = told)
      BY <1>0, <2>1, <2>9 DEF Layer
    <3>2. QED
      BY <2>3, <2>4, <2>9, <3>1
  <2>10. CASE Inform \/ \E k \in Kinds : InformFails(k)
    BY <2>9, <2>10 DEF Inform, InformFails
  <2>11. CASE Pass
    <3>1. at # 1
      <4>1. SUFFICES ASSUME at = 1 PROVE FALSE
        OBVIOUS
      <4>2. Layer = "server"
        BY <2>1, <4>1 DEF Layer
      <4>3. started[at]
        BY <2>11, <4>2 DEF Pass, Handles, MayAnswer
      <4>4. QED
        BY <2>1, <2>11, <4>2, <4>3 DEF Pass, Informs
    <3>2. QED
      BY <2>3, <2>4, <2>11, <3>1 DEF Pass
  <2>12. CASE Call \/ SendStart \/ SendBody \/ \E k \in Kinds : Raise(k)
    BY <1>0, <2>1, <2>2, <2>12 DEF Call, SendStart, SendBody, Raise, Layer
  <2>13. CASE Answer
    BY <1>0, <2>1, <2>2, <2>13 DEF Answer, Answerers, Layer
  <2>14. QED
    BY <1>3, <2>5, <2>6, <2>7, <2>8, <2>10, <2>11, <2>12, <2>13 DEF Next
<1>4. QED
  BY <1>1, <1>2, <1>3

LEMMA OnceStep ==
  CycleInv /\ ShapeInv /\ OnceInv /\ [Next]_vars => OnceInv'
<1> SUFFICES ASSUME CycleInv, ShapeInv, OnceInv, [Next]_vars, InTime', OneServer'
             PROVE  /\ phase' = "raise" => wire' = <<>>
                    /\ told' = 0 \/ (told' = 1 /\ at' = 1 /\ phase' \in {"respond", "done"})
  BY DEF OnceInv
<1>0. TypeOK /\ StageInv /\ FlagsInv /\ at \in Nat \ {0} /\ told \in Nat
  BY DEF CycleInv, TypeOK
<1>1. CASE UNCHANGED vars \/ Done
  BY <1>1 DEF vars, Done, OnceInv, InTime, OneServer
<1>2. CASE FastRoute
  BY <1>0, <1>2 DEF FastRoute, ShapeInv
<1>3. CASE Next /\ ~FastRoute /\ ~Done
  <2>1. /\ InTime /\ OneServer /\ layers' = layers
        /\ phase \in {"call", "return", "raise", "respond"}
    <3>1. raised \subseteq raised'
      BY <1>3 DEF Next, Call, Answer, SendStart, SendBody, Sent, Return, Handle,
                  Inform, Pass, Raise, ResponseFails, InformFails, Raised
    <3>2. phase \in {"call", "return", "raise", "respond"}
      BY <1>3 DEF Next, Call, Answer, SendStart, SendBody, Sent, Return, Handle,
                  Inform, Informs, Pass, Raise, ResponseFails, InformFails
    <3>3. QED
      BY <1>3, <3>1, <3>2, SameLayers DEF InTime, OneServer
  <2>2. /\ phase = "raise" => wire = <<>>
        /\ told = 0 \/ (told = 1 /\ at = 1 /\ phase = "respond")
    BY <2>1 DEF OnceInv
  <2>3. ASSUME NEW k, RaiseOut(k), told' = told
        PROVE  told' = 0 \/ (told' = 1 /\ at' = 1 /\ phase' \in {"respond", "done"})
    BY <2>2, <2>3 DEF RaiseOut, Out
  <2>4. ASSUME NEW k \in Kinds, Raised(k)
        PROVE  wire = <<>>
    <3>1. [kind |-> k, at |-> at, late |-> wire # <<>>] \in raised'
      BY <2>4 DEF Raised
    <3>2. QED
      BY <3>1 DEF InTime
  <2>5. ~Informs
    BY <1>0, <2>2 DEF Informs, FlagsInv, TypeOK
  <2>6. CASE Handle
    <3>1. Layer = "server" => at = 1
      BY <1>0, <2>1 DEF OneServer, ShapeInv, Layer, TypeOK
    <3>2. QED
      BY <2>2, <2>6, <3>1 DEF Handle, Tells
  <2>7. CASE Sent
    <3>1. CASE Reraises
      <4>1. at = 1
        BY <1>0, <2>1, <3>1 DEF Reraises, OneServer, ShapeInv, Layer, TypeOK
      <4>2. QED
        BY <2>2, <2>7, <3>1, <4>1 DEF Sent, RaiseOut, Out
    <3>2. CASE ~Reraises
      BY <2>2, <2>7, <3>2 DEF Sent, ReturnOut, Out
    <3>3. QED
      BY <3>1, <3>2
  <2>8. CASE Return
    BY <2>2, <2>8 DEF Return, ReturnOut, Out
  <2>9. ASSUME NEW k \in Kinds, ResponseFails(k)
        PROVE  /\ phase' = "raise" => wire' = <<>>
               /\ told' = 0 \/ (told' = 1 /\ at' = 1 /\ phase' \in {"respond", "done"})
    <3>1. wire' = <<>> /\ told' = told /\ phase = "respond"
      BY <2>4, <2>9 DEF ResponseFails
    <3>2. CASE exc # "none"
      BY <2>3, <2>9, <3>1, <3>2 DEF ResponseFails
    <3>3. CASE exc = "none"
      <4>1. Layer # "server" /\ Layer # "dispatch"
        BY <1>0, <2>9, <3>3 DEF ResponseFails, TypeOK, Answerers, Kinds
      <4>2. at # 1
        BY <4>1 DEF ShapeInv, Layer
      <4>3. QED
        BY <2>2, <3>1, <4>2
    <3>4. QED
      BY <3>2, <3>3
  <2>10. CASE Pass
    BY <2>2, <2>3, <2>10 DEF Pass
  <2>11. ASSUME NEW k \in Kinds, Raise(k)
         PROVE  wire' = <<>> /\ told' = 0
    BY <2>2, <2>4, <2>11 DEF Raise
  <2>12. CASE Call \/ Answer \/ SendStart \/ SendBody
    BY <2>2, <2>12 DEF Call, Answer, SendStart, SendBody
  <2>13. QED
    BY <1>3, <2>5, <2>6, <2>7, <2>8, <2>9, <2>10, <2>11, <2>12
    DEF Next, Inform, InformFails
<1>4. QED
  BY <1>1, <1>2, <1>3

TellInv == ShapeInv /\ TellsInv /\ OnceInv

LEMMA TellInit == Init => TellInv
BY ShapeInit DEF TellInv, Init, TellsInv, OnceInv

LEMMA TellStep == CycleInv /\ TellInv /\ [Next]_vars => TellInv'
BY ShapeStep, TellsStep, OnceStep DEF TellInv

\* For every stack of layers the error handler of the application hears of an
\* exception that comes out, and once only unless something was raised late.
THEOREM HandlerHears == Spec => []ErrorHandlerTold
<1>1. CycleInv /\ TellInv => ErrorHandlerTold
  BY DEF CycleInv, TypeOK, TellInv, TellsInv, OnceInv, InTime, OneServer, ErrorHandlerTold
<1>2. QED
  BY <1>1, CycleInit, CycleStep, TellInit, TellStep, PTL DEF Spec

-----------------------------------------------------------------------------
(* The body of the request.                                                 *)

Chunks == 1..length
MessageKind == [type : {"none", "disconnect", "request"}, body : Seq(Chunks),
                more : BOOLEAN]
OpNames == {"none", "sniff", "stream", "first", "body", "form"}
Ends(message) == message.type = "request" /\ ~message.more

BodyParts ==
  /\ length \in Nat /\ gone \in BOOLEAN
  /\ arrived \in 0..Messages /\ received \in 0..arrived
  /\ replay \in [on : BOOLEAN, body : Seq(Chunks)]
  /\ stored \in [Objects -> MessageKind]
  /\ own \in [Objects -> Seq(0..length)] /\ shared \in Seq(0..length)
  /\ stage \in {"csrf", "handler", "streaming", "over"}
  /\ op \in [Tasks -> [name : OpNames, object : Objects \cup {Nobody}, got : Seq(Chunks)]]
  /\ \A t \in Tasks : Reads(t) => op[t].object \in Objects
  /\ spent \in [Chunks -> {"nothing", "stream", "first", "body", "form", "poll", "listen"}]

\* One task reads at a time.
TaskInv == /\ Reads("main") => stage = "handler"
           /\ Reads("iterator") => stage = "streaming"

\* While the middleware looks for the token nothing else has received anything;
\* what it has read it will replay, unless it refuses the request.
CsrfInv ==
  /\ stage = "csrf" =>
       /\ ~replay.on /\ shared = Unset
       /\ \A o \in Objects : stored[o] = NoMessage /\ own[o] = Unset
       /\ \A i \in Chunks : spent[i] = "nothing" /\ (i <= received => i \in ToSet(replay.body))
  /\ stage \in {"handler", "streaming"} /\ ~replay.on => replay.body = <<>>
  /\ replay.on => received = Messages
  /\ replay.on /\ replay.body # <<>> =>
       shared = Unset /\ \A o \in Objects : stored[o] = NoMessage

\* Messages that are stored: the end of the body, with a part of it, is the body
\* in the scope; a disconnect is the client's, and never with a replay.
StoredInv ==
  \A o \in Objects :
    LET message == stored[o] IN
    /\ message.type = "none" => message = NoMessage
    /\ message.type = "disconnect" => gone /\ ~replay.on /\ message.body = <<>>
    /\ Ends(message) =>
         /\ received = Messages
         /\ message.body # <<>> => shared = message.body
         /\ message.body = <<>> => length = 0 \/ replay.on

\* The body in the scope is there only when all of it was received, and not while
\* body() reads; every object that has a body has this one.
SharedInv ==
  /\ shared # Unset => received = Messages /\ replay.body = <<>>
  /\ \A t \in Tasks : op[t].name = "body" => shared = Unset
  /\ OneBody

\* Where each chunk is: with the server, to be replayed, stored in an object, or
\* taken; by body(), in the scope, unless it still reads, or the client has gone
\* before it was through and no end will come.
SpentInv ==
  \A i \in Chunks :
    /\ spent[i] = "nothing" =>
         \/ i > received \/ i \in ToSet(replay.body)
         \/ \E o \in Objects : i \in ToSet(stored[o].body)
    /\ spent[i] = "body" =>
         \/ shared # Unset /\ i \in ToSet(shared)
         \/ \E t \in Tasks : op[t].name = "body" /\ i \in ToSet(op[t].got)
         \/ shared = Unset /\ gone /\ ~replay.on

BodyIInv == BodyParts /\ TaskInv /\ CsrfInv /\ StoredInv /\ SharedInv /\ SpentInv


LEMMA BodyForms ==
  ASSUME length \in Nat
  PROVE  /\ Messages \in Nat \ {0}
         /\ <<>> \in Seq(Chunks) /\ NoMessage \in MessageKind /\ Disconnect \in MessageKind
         /\ Unset \in Seq(0..length)
         /\ \A s \in Seq(Chunks) : s # Unset /\ s \in Seq(0..length)
<1>1. Messages \in Nat \ {0}
  BY DEF Messages
<1>2. <<>> \in Seq(Chunks)
  OBVIOUS
<1>3. NoMessage \in MessageKind /\ Disconnect \in MessageKind
  BY <1>2 DEF NoMessage, Disconnect, MessageKind
<1>4. Unset \in Seq(0..length) /\ Len(Unset) = 1 /\ Unset[1] = 0
  BY DEF Unset
<1>5. ASSUME NEW s \in Seq(Chunks) PROVE s # Unset /\ s \in Seq(0..length)
  <2>1. Len(s) = 1 => s[1] \in 1..length
    BY DEF Chunks
  <2>2. s # Unset
    BY <1>4, <2>1
  <2>3. \A k \in 1..Len(s) : s[k] \in 0..length
    BY DEF Chunks
  <2>4. s \in Seq(0..length)
    BY <2>3
  <2>5. QED
    BY <2>2, <2>4
<1>6. QED
  BY <1>1, <1>2, <1>3, <1>4, <1>5

\* The next part of the body that the server has.
LEMMA BodyMessageIs ==
  ASSUME length \in Nat, NEW i \in 1..Messages
  PROVE  /\ BodyMessage(i) \in MessageKind
         /\ BodyMessage(i).type = "request"
         /\ BodyMessage(i).more = (i < length)
         /\ BodyMessage(i).body = IF length = 0 THEN <<>> ELSE <<i>>
         /\ Ends(BodyMessage(i)) => i = Messages /\ (BodyMessage(i).body = <<>> <=> length = 0)
         /\ length # 0 => i \in ToSet(BodyMessage(i).body)
<1> DEFINE body == IF length = 0 THEN <<>> ELSE <<i>>
<1>1. i \in Nat /\ body \in Seq(Chunks) /\ (i < length) \in BOOLEAN
  <2>1. i \in Nat /\ (length # 0 => i \in Chunks)
    BY DEF Messages, Chunks
  <2>2. CASE length = 0
    BY <2>1, <2>2
  <2>3. CASE length # 0
    BY <2>1, <2>3
  <2>4. QED
    BY <2>2, <2>3
<1>2. BodyMessage(i) = [type |-> "request", body |-> body, more |-> (i < length)]
  BY DEF BodyMessage, Request
<1>3. BodyMessage(i) \in MessageKind
  BY <1>1, <1>2 DEF MessageKind
<1>4. /\ BodyMessage(i).type = "request" /\ BodyMessage(i).body = body
      /\ BodyMessage(i).more = (i < length)
  BY <1>2
<1>5. body = <<>> <=> length = 0
  OBVIOUS
<1>6. Ends(BodyMessage(i)) => i = Messages
  <2>1. Ends(BodyMessage(i)) => ~(i < length)
    BY <1>4 DEF Ends
  <2>2. ~(i < length) => i = Messages
    BY DEF Messages
  <2>3. QED
    BY <2>1, <2>2
<1>7. length # 0 => i \in ToSet(body)
  BY DEF ToSet
<1>8. QED
  BY <1>3, <1>4, <1>5, <1>6, <1>7

LEMMA BodyStart ==
  ASSUME BodyInit
  PROVE  BodyIInv
<1>1. length \in Nat
  BY RequestBodyAssumption DEF BodyInit, RequestBodyAssumption
<1>2. /\ csrf \in BOOLEAN /\ arrived = 0 /\ gone = FALSE /\ received = 0
      /\ replay = [on |-> FALSE, body |-> <<>>]
      /\ stored = [o \in Objects |-> NoMessage] /\ own = [o \in Objects |-> Unset]
      /\ shared = Unset /\ stage = (IF csrf THEN "csrf" ELSE "handler")
      /\ op = [t \in Tasks |-> Idle] /\ spent = [i \in 1..length |-> "nothing"]
  BY DEF BodyInit
<1>3. Idle.name = "none" /\ Idle \in [name : OpNames, object : Objects \cup {Nobody}, got : Seq(Chunks)]
  BY <1>1, BodyForms DEF Idle, OpNames
<1>4. \A t \in Tasks : op[t].name = "none"
  BY <1>2, <1>3
<1>5. replay.on = FALSE /\ replay.body = <<>> /\ replay \in [on : BOOLEAN, body : Seq(Chunks)]
  BY <1>1, <1>2, BodyForms
<1>6. BodyParts
  <2>1. arrived \in 0..Messages /\ received \in 0..arrived
    BY <1>1, <1>2, BodyForms
  <2>2. /\ stored \in [Objects -> MessageKind] /\ own \in [Objects -> Seq(0..length)]
        /\ shared \in Seq(0..length)
    BY <1>1, <1>2, BodyForms
  <2>3. op \in [Tasks -> [name : OpNames, object : Objects \cup {Nobody}, got : Seq(Chunks)]]
    BY <1>2, <1>3
  <2>4. spent \in [Chunks -> {"nothing", "stream", "first", "body", "form", "poll", "listen"}]
    BY <1>2 DEF Chunks
  <2>5. QED
    BY <1>1, <1>2, <1>4, <1>5, <2>1, <2>2, <2>3, <2>4 DEF BodyParts, Reads
<1>7. TaskInv
  BY <1>4 DEF TaskInv, Reads, Tasks
<1>8. CsrfInv
  BY <1>1, <1>2, <1>5 DEF CsrfInv, Chunks
<1>9. StoredInv
  BY <1>2 DEF StoredInv, NoMessage, Ends
<1>10. SharedInv
  BY <1>2, <1>4 DEF SharedInv, OneBody
<1>11. SpentInv
  BY <1>1, <1>2 DEF SpentInv, Chunks
<1>12. QED
  BY <1>6, <1>7, <1>8, <1>9, <1>10, <1>11 DEF BodyIInv

LEMMA BodyBasics ==
  ASSUME BodyIInv
  PROVE  /\ BodyParts /\ TaskInv /\ CsrfInv /\ StoredInv /\ SharedInv /\ SpentInv
         /\ length \in Nat /\ Messages \in Nat \ {0}
         /\ arrived \in Nat /\ received \in Nat /\ received <= arrived /\ arrived <= Messages
         /\ Outer \in Objects /\ "replay" \notin Objects /\ "server" \notin Objects
         /\ NoMessage.type = "none" /\ NoMessage.body = <<>>
         /\ Disconnect.type = "disconnect" /\ Disconnect.body = <<>>
BY BodyForms, RequestBodyAssumption
   DEF BodyIInv, BodyParts, RequestBodyAssumption, NoMessage, Disconnect

\* Only what is stored or replayed, or the server has, is received: what it means
\* when the end of the body arrives, or that the client is gone, and that no chunk
\* disappears from where it was.
Received(message, left) ==
  /\ message \in MessageKind /\ message.type \in {"request", "disconnect"}
  /\ message.type = "disconnect" => gone /\ ~replay.on /\ message.body = <<>>
  /\ Ends(message) =>
       /\ received' = Messages /\ replay'.body = <<>>
       /\ message.body # <<>> => shared \in {Unset, message.body}
       /\ message.body = <<>> => length = 0 \/ replay.on
       /\ shared = Unset => length = 0 \/ ~gone \/ replay.on
  /\ received' \in received..arrived
  /\ replay' \in [on : BOOLEAN, body : Seq(Chunks)]
  /\ replay'.on = replay.on /\ replay'.body \in {replay.body, <<>>}
  /\ replay.on => replay'.body = <<>>
  /\ left \in [Objects -> MessageKind]
  /\ \A o \in Objects : left[o] \in {stored[o], NoMessage}
  /\ \A i \in Chunks :
       (i > received \/ i \in ToSet(replay.body) \/ \E o \in Objects : i \in ToSet(stored[o].body))
       => \/ i \in ToSet(message.body)
          \/ i > received' \/ i \in ToSet(replay'.body)
          \/ \E o \in Objects : i \in ToSet(left[o].body)

LEMMA ReceiveStored ==
  ASSUME BodyIInv, NEW o \in Objects, stored[o] # NoMessage,
         stage \in {"handler", "streaming"},
         NEW message, message = stored[o], UNCHANGED <<received, replay>>
  PROVE  Received(message, [stored EXCEPT ![o] = NoMessage])
<1> DEFINE left == [stored EXCEPT ![o] = NoMessage]
<1>1. /\ stored \in [Objects -> MessageKind] /\ replay \in [on : BOOLEAN, body : Seq(Chunks)]
      /\ NoMessage \in MessageKind
  BY BodyBasics, BodyForms DEF BodyParts
<1>2. /\ left \in [Objects -> MessageKind] /\ left[o] = NoMessage
      /\ \A p \in Objects : p # o => left[p] = stored[p]
  BY <1>1
<1>3. message \in MessageKind /\ message.type \in {"request", "disconnect"}
  <2>1. message \in MessageKind /\ message.type # "none"
    BY <1>1, BodyBasics DEF StoredInv
  <2>2. QED
    BY <2>1 DEF MessageKind
<1>4. ~(replay.on /\ replay.body # <<>>)
  BY BodyBasics DEF CsrfInv
<1>5. replay.body = <<>>
  BY <1>4, BodyBasics DEF CsrfInv
<1>6. message.type = "disconnect" => gone /\ ~replay.on /\ message.body = <<>>
  BY BodyBasics DEF StoredInv
<1>7. Ends(message) =>
        /\ received' = Messages
        /\ message.body # <<>> => shared = message.body
        /\ message.body = <<>> => length = 0 \/ replay.on
  BY BodyBasics DEF StoredInv
<1>8. message.body # Unset
  BY <1>3, BodyBasics, BodyForms DEF MessageKind
<1>9. \A i \in Chunks :
        (\E p \in Objects : i \in ToSet(stored[p].body)) =>
          i \in ToSet(message.body) \/ \E p \in Objects : i \in ToSet(left[p].body)
  <2> HIDE DEF left
  <2> QED
    BY <1>2
<1>10. received' = received /\ replay' = replay /\ received' \in received..arrived
  BY BodyBasics
<1> HIDE DEF left
<1>11. Received(message, left)
  BY <1>1, <1>2, <1>3, <1>5, <1>6, <1>7, <1>8, <1>9, <1>10 DEF Received
<1>12. QED
  BY <1>11 DEF left

LEMMA ReceiveReplay ==
  ASSUME BodyIInv, replay.on, NEW message, message = Request(replay.body, FALSE),
         replay' = [on |-> TRUE, body |-> <<>>], UNCHANGED received
  PROVE  Received(message, stored)
<1>1. /\ stored \in [Objects -> MessageKind] /\ replay \in [on : BOOLEAN, body : Seq(Chunks)]
  BY BodyBasics DEF BodyParts
<1>2. /\ message.type = "request" /\ message.body = replay.body /\ message.more = FALSE
      /\ message \in MessageKind
  BY <1>1 DEF Request, MessageKind
<1>3. replay' \in [on : BOOLEAN, body : Seq(Chunks)] /\ replay'.on = replay.on /\ replay'.body = <<>>
  BY <1>1
<1>4. received = Messages /\ (replay.body # <<>> => shared = Unset)
  BY BodyBasics DEF CsrfInv
<1>5. received' = received /\ received' \in received..arrived
  BY BodyBasics
<1>6. QED
  BY <1>1, <1>2, <1>3, <1>4, <1>5 DEF Received

LEMMA ReceiveServer ==
  ASSUME BodyIInv, ~replay.on, stage \in {"handler", "streaming"},
         NEW message, FromServer(message), UNCHANGED replay
  PROVE  Received(message, stored)
<1>1. /\ stored \in [Objects -> MessageKind] /\ replay \in [on : BOOLEAN, body : Seq(Chunks)]
  BY BodyBasics DEF BodyParts
<1>2. replay.body = <<>> /\ replay' = replay
  BY BodyBasics DEF CsrfInv
<1>3. CASE gone
  <2>1. message = Disconnect /\ received' = received
    BY <1>3 DEF FromServer
  <2>2. /\ message \in MessageKind /\ message.type = "disconnect" /\ message.body = <<>>
        /\ ~Ends(message) /\ received' \in received..arrived
    BY <2>1, BodyBasics, BodyForms DEF Ends
  <2>3. QED
    BY <1>1, <1>2, <1>3, <2>1, <2>2 DEF Received
<1>4. CASE ~gone
  <2>1. received < arrived /\ message = BodyMessage(received + 1) /\ received' = received + 1
    BY <1>4 DEF FromServer
  <2>2. received + 1 \in 1..Messages /\ received' \in received..arrived
    BY <2>1, BodyBasics
  <2>3. /\ message \in MessageKind /\ message.type = "request"
        /\ Ends(message) => received' = Messages /\ (message.body = <<>> <=> length = 0)
        /\ length # 0 => received + 1 \in ToSet(message.body)
    BY <2>1, <2>2, BodyMessageIs, BodyBasics
  <2>4. shared = Unset
    BY <2>1, BodyBasics DEF SharedInv
  <2>5. \A i \in Chunks : i > received => i \in ToSet(message.body) \/ i > received'
    <3>1. \A i \in Chunks : i \in Nat /\ length # 0
      BY BodyBasics DEF Chunks
    <3>2. \A i \in Chunks : i > received => i = received + 1 \/ i > received + 1
      BY <3>1, BodyBasics
    <3>3. QED
      BY <2>1, <2>3, <3>1, <3>2
  <2>6. QED
    BY <1>1, <1>2, <1>4, <2>2, <2>3, <2>4, <2>5 DEF Received
<1>5. QED
  BY <1>3, <1>4

\* Each source of a message, and what it leaves in the objects.
LEMMA ReceiveIs ==
  ASSUME BodyIInv, stage \in {"handler", "streaming"},
         NEW source, source = Upstream \/ (source \in Objects /\ stored[source] # NoMessage),
         NEW message, Receive(source, message)
  PROVE  Received(message, Forgotten(source))
<1>1. CASE source \in Objects
  <2>1. stored[source] # NoMessage
    BY <1>1, BodyBasics DEF Upstream
  <2>2. message = stored[source] /\ UNCHANGED <<received, replay>>
    BY <1>1, BodyBasics DEF Receive
  <2>3. QED
    BY <1>1, <2>1, <2>2, ReceiveStored DEF Forgotten
<1>2. CASE source = "replay"
  <2>1. replay.on
    BY <1>2, BodyBasics DEF Upstream
  <2>2. /\ message = Request(replay.body, FALSE)
        /\ replay' = [on |-> TRUE, body |-> <<>>] /\ UNCHANGED received
    BY <1>2, BodyBasics DEF Receive
  <2>3. Received(message, stored)
    BY <2>1, <2>2, ReceiveReplay
  <2>4. QED
    BY <1>2, <2>3, BodyBasics DEF Forgotten
<1>3. CASE source = "server"
  <2>1. ~replay.on
    BY <1>3, BodyBasics DEF Upstream
  <2>2. FromServer(message) /\ UNCHANGED replay
    BY <1>3, BodyBasics DEF Receive
  <2>3. Received(message, stored)
    BY <2>1, <2>2, ReceiveServer
  <2>4. QED
    BY <1>3, <2>3, BodyBasics DEF Forgotten
<1>4. QED
  BY <1>1, <1>2, <1>3 DEF Receive

LEMMA SourceIs ==
  ASSUME NEW o \in Objects
  PROVE  Source(o) = Upstream \/ (Source(o) \in Objects /\ stored[Source(o)] # NoMessage)
BY DEF Source

\* The messages that are left in the objects are as they should be.
LEMMA StoredAfter ==
  ASSUME BodyIInv, NEW message, NEW left, Received(message, left), NEW o \in Objects,
         gone' = gone, length' = length, shared' = shared \/ shared = Unset
  PROVE  /\ left[o].type = "none" => left[o] = NoMessage
         /\ left[o].type = "disconnect" => gone' /\ ~replay'.on /\ left[o].body = <<>>
         /\ Ends(left[o]) =>
              /\ received' = Messages'
              /\ left[o].body # <<>> => shared' = left[o].body
              /\ left[o].body = <<>> => length' = 0 \/ replay'.on
<1>1. /\ received' \in Nat /\ (received = Messages => received' = Messages)
      /\ replay'.on = replay.on
  BY BodyBasics DEF Received
<1>2. Messages' = Messages
  BY DEF Messages
<1>3. stored[o].body # Unset
  BY BodyBasics, BodyForms DEF BodyParts, MessageKind
<1>4. CASE left[o] = NoMessage
  BY <1>4, BodyBasics DEF Ends
<1>5. CASE left[o] = stored[o]
  BY <1>1, <1>2, <1>3, <1>5, BodyBasics DEF StoredInv
<1>6. QED
  BY <1>4, <1>5 DEF Received

OpKind == [name : OpNames, object : Objects \cup {Nobody}, got : Seq(Chunks)]

\* Steps that receive nothing.
LEMMA QuietStep ==
  ASSUME BodyIInv, UNCHANGED <<length, received, replay, stored, shared, spent>>,
         gone' \in BOOLEAN, gone => gone', arrived' \in received..Messages,
         stage' \in {"csrf", "handler", "streaming", "over"},
         stage' = "csrf" => stage = "csrf" /\ own' = own,
         stage' \in {"handler", "streaming"} => stage \in {"handler", "streaming"},
         own' \in [Objects -> Seq(0..length)],
         \A o \in Objects : own'[o] \in {own[o], shared},
         op' \in [Tasks -> OpKind],
         \A t \in Tasks : Reads(t)' => op'[t].object \in Objects,
         \A t \in Tasks : op[t].name = "body" => op'[t] = op[t],
         \A t \in Tasks : op'[t].name = "body" => shared = Unset,
         TaskInv'
  PROVE  BodyIInv'
<1>1. /\ length' = length /\ received' = received /\ replay' = replay /\ stored' = stored
      /\ shared' = shared /\ spent' = spent
  OBVIOUS
<1>2. Messages' = Messages /\ Chunks' = Chunks
  BY <1>1 DEF Messages, Chunks
<1>3. BodyParts'
  BY <1>1, <1>2, BodyBasics DEF BodyParts, OpKind, MessageKind
<1>4. CsrfInv'
  BY <1>1, <1>2, BodyBasics DEF CsrfInv
<1>5. StoredInv'
  BY <1>1, <1>2, BodyBasics DEF StoredInv
<1>6. SharedInv'
  BY <1>1, <1>2, BodyBasics DEF SharedInv, OneBody
<1>7. SpentInv'
  BY <1>1, <1>2, BodyBasics DEF SpentInv
<1>8. QED
  BY <1>3, <1>4, <1>5, <1>6, <1>7 DEF BodyIInv

LEMMA BodyTypes ==
  ASSUME BodyIInv
  PROVE  /\ op \in [Tasks -> OpKind] /\ own \in [Objects -> Seq(0..length)]
         /\ shared \in Seq(0..length) /\ gone \in BOOLEAN
         /\ stage \in {"csrf", "handler", "streaming", "over"}
         /\ arrived \in received..Messages
         /\ \A t \in Tasks : Reads(t) => op[t].object \in Objects
         /\ \A t \in Tasks : op[t].name = "body" => shared = Unset
BY BodyBasics DEF BodyParts, OpKind, SharedInv

\* The client, the event loop, the ends of responses.
LEMMA OutsideKeeps ==
  ASSUME BodyIInv,
         \/ Send \/ Leave \/ (\E t \in Tasks : Suspend(t))
         \/ Respond \/ BeginStreaming \/ EndStreaming
  PROVE  BodyIInv'
<1>1. CASE Send
  <2>1. /\ arrived' = arrived + 1 /\ arrived < Messages
        /\ UNCHANGED <<length, gone, received, replay, stored, own, shared, stage, op, spent>>
    BY <1>1 DEF Send, objects, history
  <2>2. TaskInv' /\ \A t \in Tasks : Reads(t)' = Reads(t)
    BY <2>1, BodyBasics DEF TaskInv, Reads
  <2>3. arrived' \in received..Messages
    BY <2>1, BodyBasics
  <2>4. QED
    BY <2>1, <2>2, <2>3, BodyTypes, QuietStep
<1>2. CASE Leave
  <2>1. /\ gone' = TRUE
        /\ UNCHANGED <<length, arrived, received, replay, stored, own, shared, stage, op, spent>>
    BY <1>2 DEF Leave, objects, history
  <2>2. TaskInv' /\ \A t \in Tasks : Reads(t)' = Reads(t)
    BY <2>1, BodyBasics DEF TaskInv, Reads
  <2>3. QED
    BY <2>1, <2>2, BodyTypes, QuietStep
<1>3. CASE \E t \in Tasks : Suspend(t)
  <2>1. UNCHANGED <<length, gone, arrived, received, replay, stored, own, shared, stage, op,
                    spent>>
    BY <1>3 DEF Suspend, server, objects, history
  <2>2. TaskInv' /\ \A t \in Tasks : Reads(t)' = Reads(t)
    BY <2>1, BodyBasics DEF TaskInv, Reads
  <2>3. QED
    BY <2>1, <2>2, BodyTypes, QuietStep
<1>4. CASE Respond \/ BeginStreaming \/ EndStreaming
  <2>1. /\ stage \in {"handler", "streaming"} /\ stage' \in {"streaming", "over"}
        /\ stage = "handler" => ~Reads("main")
        /\ stage = "streaming" => ~Reads("iterator")
        /\ UNCHANGED <<length, gone, arrived, received, replay, stored, own, shared, op, spent>>
    BY <1>4 DEF Respond, BeginStreaming, EndStreaming, server, objects, history
  <2>2. TaskInv' /\ \A t \in Tasks : Reads(t)' = Reads(t)
    BY <2>1, BodyBasics DEF TaskInv, Reads
  <2>3. QED
    BY <2>1, <2>2, BodyTypes, QuietStep
<1>5. QED
  BY <1>1, <1>2, <1>3, <1>4

\* An operation that begins, or has its answer without a message.
LEMMA BeginOperation ==
  ASSUME BodyIInv, NEW t \in Tasks, MayBegin(t), NEW o \in Objects,
         NEW name \in OpNames \ {"none"}, name = "body" => shared = Unset,
         AtOnce(t) \/ Begin(t, name, o)
  PROVE  /\ op' \in [Tasks -> OpKind]
         /\ \A u \in Tasks : Reads(u)' => op'[u].object \in Objects
         /\ \A u \in Tasks : op[u].name = "body" => op'[u] = op[u]
         /\ \A u \in Tasks : op'[u].name = "body" => shared = Unset
         /\ stage' = stage => TaskInv'
<1>1. ~Reads(t) /\ ((t = "main" /\ stage = "handler") \/ (t = "iterator" /\ stage = "streaming"))
  BY DEF MayBegin
<1>2. op[t].name = "none"
  BY <1>1 DEF Reads
<1>3. CASE op' = op
  <2>1. \A u \in Tasks : Reads(u)' = Reads(u)
    BY <1>3 DEF Reads
  <2>2. Tasks = {"main", "iterator"}
    BY DEF Tasks
  <2>3. QED
    BY <1>3, <2>1, <2>2, BodyBasics, BodyTypes DEF TaskInv
<1>4. CASE Begin(t, name, o)
  <2> DEFINE new == [name |-> name, object |-> o, got |-> <<>>]
  <2>1. op' = [op EXCEPT ![t] = new]
    BY <1>4 DEF Begin
  <2>2. new \in OpKind /\ new.name = name /\ new.object = o
    BY BodyBasics, BodyForms DEF OpKind
  <2> HIDE DEF new
  <2>3. /\ op' \in [Tasks -> OpKind] /\ op'[t] = new
        /\ \A u \in Tasks : u # t => op'[u] = op[u]
    BY <2>1, <2>2, BodyTypes
  <2>4. \A u \in Tasks : Reads(u)' => u = t \/ Reads(u)
    BY <2>3 DEF Reads
  <2>5. stage' = stage => TaskInv'
    <3>1. "main" \in Tasks /\ "iterator" \in Tasks
      BY DEF Tasks
    <3>2. QED
      BY <1>1, <2>4, <3>1, BodyBasics DEF TaskInv
  <2>6. QED
    BY <1>2, <2>2, <2>3, <2>4, <2>5, BodyTypes
<1>5. QED
  BY <1>3, <1>4 DEF AtOnce

LEMMA StartKeeps ==
  ASSUME BodyIInv, NEW t \in Tasks, NEW o \in Objects,
         \/ \E name \in {"stream", "first", "body", "form"} : Stream(t, name, o)
         \/ Cached(t, o) \/ Sniff(t, o)
  PROVE  BodyIInv'
<1>1. MayBegin(t)
  BY DEF Stream, Cached, Sniff
<1>2. UNCHANGED <<length, gone, arrived, received, replay, stored, shared, stage, spent>>
  BY DEF Stream, Cached, Sniff, server, objects, history
<1>3. \E name \in OpNames \ {"none"} :
        /\ name = "body" => shared = Unset
        /\ AtOnce(t) \/ Begin(t, name, o)
  <2>1. ASSUME NEW name \in {"stream", "first", "body", "form"}, Stream(t, name, o)
        PROVE  (name = "body" => shared = Unset) /\ (AtOnce(t) \/ Begin(t, name, o))
    BY <2>1 DEF Stream, CachedBody
  <2>2. {"stream", "first", "body", "form", "sniff"} \subseteq OpNames \ {"none"}
    BY DEF OpNames
  <2>3. CASE Cached(t, o)
    BY <2>2, <2>3 DEF Cached
  <2>4. CASE Sniff(t, o)
    BY <2>2, <2>4 DEF Sniff
  <2>5. QED
    BY <2>1, <2>2, <2>3, <2>4
<1>4. /\ own' \in [Objects -> Seq(0..length)]
      /\ \A p \in Objects : own'[p] \in {own[p], shared}
  <2>1. CASE own' = own
    BY <2>1, BodyTypes
  <2>2. CASE Cached(t, o)
    <3>1. own' = [own EXCEPT ![o] = CachedBody(o)] /\ CachedBody(o) \in {own[o], shared}
      BY <2>2 DEF Cached, CachedBody
    <3>2. QED
      BY <3>1, BodyTypes
  <2>3. QED
    BY <2>1, <2>2 DEF Stream, Sniff, objects
<1>5. stage \in {"handler", "streaming"}
  BY <1>1 DEF MayBegin
<1>6. QED
  BY <1>1, <1>2, <1>3, <1>4, <1>5, BeginOperation, BodyTypes, QuietStep

\* Steps that take a message for good, or cache the body that it ends.
LEMMA TakenKeeps ==
  ASSUME BodyIInv, stage \in {"handler", "streaming"},
         NEW message, NEW left, Received(message, left), stored' = left,
         NEW name \in {"stream", "first", "body", "form", "poll", "listen"},
         spent' = [i \in Chunks |-> IF i \in ToSet(message.body) THEN name ELSE spent[i]],
         length' = length, gone' = gone, arrived' = arrived,
         stage' \in {"handler", "streaming", "over"},
         own' \in [Objects -> Seq(0..length)], shared' \in Seq(0..length),
         op' \in [Tasks -> OpKind], TaskInv',
         \A u \in Tasks : Reads(u)' => op'[u].object \in Objects,
         \/ shared' = shared /\ own' = own
         \/ /\ shared = Unset /\ Ends(message) /\ shared' # Unset
            /\ \A p \in Objects : own'[p] \in {own[p], shared'},
         \A u \in Tasks : op'[u].name = "body" => shared' = Unset,
         name = "body" =>
           \A i \in ToSet(message.body) :
             \/ shared' # Unset /\ i \in ToSet(shared')
             \/ \E u \in Tasks : op'[u].name = "body" /\ i \in ToSet(op'[u].got),
         \A u \in Tasks : op[u].name = "body" =>
           \A i \in ToSet(op[u].got) :
             \/ shared' # Unset /\ i \in ToSet(shared')
             \/ \E v \in Tasks : op'[v].name = "body" /\ i \in ToSet(op'[v].got)
             \/ shared' = Unset /\ gone /\ ~replay.on
  PROVE  BodyIInv'
<1>1. /\ received' \in Nat /\ received <= received' /\ received' <= arrived
      /\ replay' \in [on : BOOLEAN, body : Seq(Chunks)]
      /\ replay'.on = replay.on /\ replay'.body \in {replay.body, <<>>}
      /\ replay.on => replay'.body = <<>>
      /\ left \in [Objects -> MessageKind]
  BY BodyBasics DEF Received
<1>2. Messages' = Messages /\ Chunks' = Chunks /\ MessageKind' = MessageKind
  BY DEF Messages, Chunks, MessageKind
<1>3. BodyParts'
  <2>1. received' \in 0..arrived' /\ arrived' \in 0..Messages'
    BY <1>1, <1>2, BodyBasics
  <2>2. spent' \in [Chunks -> {"nothing", "stream", "first", "body", "form", "poll", "listen"}]
    BY BodyBasics DEF BodyParts
  <2>3. length' \in Nat /\ gone' \in BOOLEAN
    BY BodyBasics DEF BodyParts
  <2>4. op' \in [Tasks -> [name : OpNames, object : Objects \cup {Nobody}, got : Seq(Chunks')]]
    BY <1>2 DEF OpKind
  <2>5. QED
    BY <1>1, <1>2, <2>1, <2>2, <2>3, <2>4 DEF BodyParts
<1>4. CsrfInv'
  <2>1. received = Messages => received' = Messages
    BY <1>1, BodyBasics
  <2>2. QED
    BY <1>1, <1>2, <2>1, BodyBasics DEF CsrfInv
<1>5. StoredInv'
  <2>1. shared' = shared \/ shared = Unset
    OBVIOUS
  <2>2. QED
    BY <2>1, StoredAfter DEF StoredInv
<1>6. SharedInv'
  <2>1. CASE shared' = shared /\ own' = own
    <3>1. shared # Unset => received' = Messages' /\ replay'.body = <<>>
      BY <1>1, <1>2, BodyBasics DEF SharedInv
    <3>2. QED
      BY <2>1, <3>1, BodyBasics DEF SharedInv, OneBody
  <2>2. CASE /\ shared = Unset /\ Ends(message) /\ shared' # Unset
             /\ \A p \in Objects : own'[p] \in {own[p], shared'}
    <3>1. received' = Messages' /\ replay'.body = <<>>
      BY <1>2, <2>2 DEF Received
    <3>2. \A p \in Objects : own[p] = Unset
      BY <2>2, BodyBasics DEF SharedInv, OneBody
    <3>3. QED
      BY <2>2, <3>1, <3>2 DEF SharedInv, OneBody
  <2>3. QED
    BY <2>1, <2>2
<1>7. SpentInv'
  <2>1. ASSUME NEW i \in Chunks, spent'[i] = "nothing"
        PROVE  \/ i > received' \/ i \in ToSet(replay'.body)
               \/ \E o \in Objects : i \in ToSet(stored'[o].body)
    <3>1. i \notin ToSet(message.body) /\ spent[i] = "nothing"
      BY <2>1
    <3>2. QED
      BY <3>1, BodyBasics DEF SpentInv, Received
  <2>2. ASSUME NEW i \in Chunks, spent'[i] = "body"
        PROVE  \/ shared' # Unset /\ i \in ToSet(shared')
               \/ \E t \in Tasks : op'[t].name = "body" /\ i \in ToSet(op'[t].got)
               \/ shared' = Unset /\ gone' /\ ~replay'.on
    <3>1. CASE i \in ToSet(message.body)
      BY <2>2, <3>1
    <3>2. CASE spent[i] = "body"
      <4>1. CASE shared # Unset /\ i \in ToSet(shared)
        BY <4>1
      <4>2. CASE \E t \in Tasks : op[t].name = "body" /\ i \in ToSet(op[t].got)
        BY <1>1, <4>2
      <4>3. CASE shared = Unset /\ gone /\ ~replay.on
        <5>1. length # 0
          BY BodyBasics DEF Chunks
        <5>2. ~Ends(message)
          BY <4>3, <5>1 DEF Received
        <5>3. QED
          BY <1>1, <4>3, <5>2
      <4>4. QED
        BY <3>2, <4>1, <4>2, <4>3, BodyBasics DEF SpentInv
    <3>3. QED
      BY <2>2, <3>1, <3>2
  <2>3. QED
    BY <1>2, <2>1, <2>2 DEF SpentInv
<1>8. TaskInv'
  OBVIOUS
<1>9. QED
  BY <1>3, <1>4, <1>5, <1>6, <1>7, <1>8 DEF BodyIInv

\* While one task reads the other does not.
LEMMA OneReads ==
  ASSUME BodyIInv, NEW t \in Tasks, Reads(t)
  PROVE  /\ stage \in {"handler", "streaming"} /\ op[t].object \in Objects
         /\ op[t] \in OpKind
         /\ \A u \in Tasks : Reads(u) => u = t
<1>1. Tasks = {"main", "iterator"}
  BY DEF Tasks
<1>2. QED
  BY <1>1, BodyBasics, BodyTypes DEF TaskInv

\* What an operation has gathered.
LEMMA GotMore ==
  ASSUME NEW s \in Seq(Chunks), NEW u \in Seq(Chunks)
  PROVE  /\ s \o u \in Seq(Chunks)
         /\ \A i : i \in ToSet(s) \/ i \in ToSet(u) => i \in ToSet(s \o u)
<1>1. /\ s \o u \in Seq(Chunks) /\ Len(s \o u) = Len(s) + Len(u)
      /\ Len(s) \in Nat /\ Len(u) \in Nat
      /\ \A k \in 1..Len(s) + Len(u) :
           (s \o u)[k] = IF k <= Len(s) THEN s[k] ELSE u[k - Len(s)]
  BY ConcatProperties, LenProperties
<1>2. ASSUME NEW i, i \in ToSet(s) PROVE i \in ToSet(s \o u)
  <2>1. PICK k \in 1..Len(s) : s[k] = i
    BY <1>2 DEF ToSet
  <2>2. k \in 1..Len(s) + Len(u) /\ (s \o u)[k] = i
    BY <1>1, <2>1
  <2>3. QED
    BY <1>1, <2>2 DEF ToSet
<1>3. ASSUME NEW i, i \in ToSet(u) PROVE i \in ToSet(s \o u)
  <2>1. PICK k \in 1..Len(u) : u[k] = i
    BY <1>3 DEF ToSet
  <2>2. k + Len(s) \in 1..Len(s) + Len(u) /\ (s \o u)[k + Len(s)] = i
    BY <1>1, <2>1
  <2>3. QED
    BY <1>1, <2>2 DEF ToSet
<1>4. QED
  BY <1>1, <1>2, <1>3

LEMMA RoundKeeps ==
  ASSUME BodyIInv, NEW t \in Tasks, Round(t)
  PROVE  BodyIInv'
<1> DEFINE o == op[t].object
           name == op[t].name
<1>1. Reads(t) /\ name \in {"stream", "first", "body", "form"}
  BY DEF Round, Reads
<1>2. /\ stage \in {"handler", "streaming"} /\ o \in Objects /\ op[t] \in OpKind
      /\ \A u \in Tasks : Reads(u) => u = t
  BY <1>1, OneReads
<1>3. PICK message :
        /\ Receive(Source(o), message)
        /\ stored' = Forgotten(Source(o))
        /\ Spend(message, name)
        /\ LET got == op[t].got \o message.body
               ends == message.type = "request" /\ Completes(name, message)
           IN
           /\ op' = [op EXCEPT ![t] = IF ends \/ message.type = "disconnect"
                                      THEN Idle ELSE [@ EXCEPT !.got = got]]
           /\ shared' = IF name = "body" /\ ends THEN got ELSE shared
           /\ own' = IF name = "body" /\ ends THEN [own EXCEPT ![o] = got] ELSE own
  BY DEF Round
<1>4. UNCHANGED <<length, arrived, gone, stage>>
  BY DEF Round
<1>5. PICK left : left = Forgotten(Source(o))
  OBVIOUS
<1>6. Received(message, left)
  BY <1>2, <1>3, <1>5, SourceIs, ReceiveIs
<1>7. PICK got : got = op[t].got \o message.body
  OBVIOUS
<1>8. /\ op[t].got \in Seq(Chunks) /\ message.body \in Seq(Chunks)
      /\ message.type \in {"request", "disconnect"}
      /\ message.type = "disconnect" => gone /\ ~replay.on /\ message.body = <<>>
  BY <1>2, <1>6 DEF OpKind, Received, MessageKind
<1>9. /\ got \in Seq(Chunks)
      /\ \A i : i \in ToSet(op[t].got) \/ i \in ToSet(message.body) => i \in ToSet(got)
  BY <1>7, <1>8, GotMore
<1>10. got # Unset /\ got \in Seq(0..length)
  BY <1>9, BodyBasics, BodyForms
<1> DEFINE ends == message.type = "request" /\ Completes(name, message)
<1>11. PICK new : new = IF ends \/ message.type = "disconnect"
                        THEN Idle ELSE [op[t] EXCEPT !.got = got]
  OBVIOUS
<1>12. op' = [op EXCEPT ![t] = new]
  BY <1>3, <1>7, <1>11
<1>13. /\ new \in OpKind
       /\ new.name # "none" => new.object = o /\ new.name = name
       /\ ends \/ message.type = "disconnect" => new.name = "none"
       /\ ~(ends \/ message.type = "disconnect") => new.name = name /\ new.got = got
  <2>1. CASE ends \/ message.type = "disconnect"
    <3>1. new = Idle /\ Idle.name = "none" /\ Idle \in OpKind
      BY <1>11, <2>1, BodyBasics, BodyForms DEF Idle, OpKind, OpNames
    <3>2. QED
      BY <2>1, <3>1
  <2>2. CASE ~(ends \/ message.type = "disconnect")
    <3>1. PICK old \in OpKind : old = op[t]
      BY <1>2
    <3>2. new = [old EXCEPT !.got = got]
      BY <1>11, <2>2, <3>1
    <3>3. new \in OpKind /\ new.object = old.object /\ new.name = old.name /\ new.got = got
      BY <1>9, <3>1, <3>2 DEF OpKind
    <3>4. QED
      BY <2>2, <3>1, <3>3
  <2>3. QED
    BY <2>1, <2>2
<1>14. /\ op' \in [Tasks -> OpKind] /\ op'[t] = new
       /\ \A u \in Tasks : u # t => op'[u] = op[u]
  BY <1>12, <1>13, BodyTypes
<1>15. /\ \A u \in Tasks : Reads(u)' => u = t /\ Reads(u) /\ op'[u].object \in Objects
       /\ TaskInv'
  <2>1. \A u \in Tasks : Reads(u)' => u = t
    BY <1>2, <1>14 DEF Reads
  <2>2. Reads(t)' => op'[t].object \in Objects
    BY <1>2, <1>13, <1>14 DEF Reads
  <2>3. "main" \in Tasks /\ "iterator" \in Tasks
    BY DEF Tasks
  <2>4. TaskInv'
    BY <1>1, <1>4, <2>1, <2>3, BodyBasics DEF TaskInv
  <2>5. QED
    BY <1>1, <2>1, <2>2, <2>4
<1>16. name = "body" => shared = Unset /\ \A p \in Objects : own[p] = Unset
  BY BodyBasics DEF SharedInv, OneBody
<1>17. /\ own' \in [Objects -> Seq(0..length)] /\ shared' \in Seq(0..length)
       /\ \/ shared' = shared /\ own' = own
          \/ /\ shared = Unset /\ Ends(message) /\ shared' # Unset
             /\ \A p \in Objects : own'[p] \in {own[p], shared'}
  <2>1. CASE name = "body" /\ ends
    <3>1. Ends(message) /\ shared' = got /\ own' = [own EXCEPT ![o] = got]
      BY <1>3, <1>7, <2>1 DEF Completes, Ends
    <3>2. QED
      BY <1>2, <1>10, <1>16, <2>1, <3>1, BodyTypes
  <2>2. CASE ~(name = "body" /\ ends)
    <3>1. shared' = shared /\ own' = own
      BY <1>3, <2>2
    <3>2. QED
      BY <3>1, BodyTypes
  <2>3. QED
    BY <2>1, <2>2
<1>18. name = "body" => \/ shared' = got
                        \/ op'[t].name = "body" /\ op'[t].got = got /\ shared' = Unset
                        \/ message.body = <<>> /\ shared' = Unset /\ gone /\ ~replay.on
  <2>1. CASE ends
    BY <1>3, <1>7, <2>1
  <2>2. CASE message.type = "disconnect"
    <3>1. shared' = shared
      BY <1>3, <2>2
    <3>2. QED
      BY <1>8, <1>16, <2>2, <3>1
  <2>3. CASE ~(ends \/ message.type = "disconnect")
    <3>1. shared' = shared
      BY <1>3, <2>3
    <3>2. QED
      BY <1>13, <1>14, <1>16, <2>3, <3>1
  <2>4. QED
    BY <2>1, <2>2, <2>3
<1>19. \A u \in Tasks : op'[u].name = "body" => shared' = Unset
  <2>1. \A u \in Tasks : op'[u].name = "body" => u = t /\ name = "body" /\ ~ends
    BY <1>13, <1>14, <1>15 DEF Reads
  <2>2. QED
    BY <1>3, <1>16, <2>1
<1>20. name = "body" =>
         \A i \in ToSet(message.body) :
           \/ shared' # Unset /\ i \in ToSet(shared')
           \/ \E u \in Tasks : op'[u].name = "body" /\ i \in ToSet(op'[u].got)
  <2>1. message.body = <<>> => \A i : i \notin ToSet(message.body)
    BY DEF ToSet
  <2>2. QED
    BY <1>9, <1>10, <1>18, <2>1
<1>21. \A u \in Tasks : op[u].name = "body" =>
         \A i \in ToSet(op[u].got) :
           \/ shared' # Unset /\ i \in ToSet(shared')
           \/ \E v \in Tasks : op'[v].name = "body" /\ i \in ToSet(op'[v].got)
           \/ shared' = Unset /\ gone /\ ~replay.on
  <2>1. \A u \in Tasks : op[u].name = "body" => u = t
    BY <1>2 DEF Reads
  <2>2. QED
    BY <1>9, <1>10, <1>18, <2>1
<1>22. spent' = [i \in Chunks |-> IF i \in ToSet(message.body) THEN name ELSE spent[i]]
  BY <1>3 DEF Spend, Chunks
<1>23. stored' = left /\ stage' \in {"handler", "streaming", "over"}
  BY <1>2, <1>3, <1>4, <1>5
<1>24. name \in {"stream", "first", "body", "form", "poll", "listen"}
  BY <1>1
<1> HIDE DEF o, name, ends
<1>25. QED
  BY <1>2, <1>4, <1>6, <1>14, <1>15, <1>17, <1>19, <1>20, <1>21, <1>22, <1>23, <1>24,
     TakenKeeps

LEMMA PollKeeps ==
  ASSUME BodyIInv, NEW t \in Tasks, NEW o \in Objects, Poll(t, o)
  PROVE  BodyIInv'
<1>1. /\ stage \in {"handler", "streaming"} /\ op' = op
      /\ UNCHANGED <<length, arrived, gone, own, shared, stage>>
  BY DEF Poll, MayBegin, AtOnce
<1>2. TaskInv' /\ \A u \in Tasks : Reads(u)' = Reads(u)
  BY <1>1, BodyBasics DEF TaskInv, Reads
<1>3. CASE Waits(Source(o))
  <2>1. UNCHANGED <<received, replay, stored, spent>>
    BY <1>3 DEF Poll, history
  <2>2. QED
    BY <1>1, <1>2, <2>1, BodyTypes, QuietStep
<1>4. CASE ~Waits(Source(o))
  <2>1. PICK message : /\ Receive(Source(o), message)
                       /\ stored' = Forgotten(Source(o))
                       /\ Spend(message, "poll")
    BY <1>4 DEF Poll
  <2>2. PICK left : left = Forgotten(Source(o))
    OBVIOUS
  <2>3. Received(message, left)
    BY <1>1, <2>1, <2>2, SourceIs, ReceiveIs
  <2>4. spent' = [i \in Chunks |-> IF i \in ToSet(message.body) THEN "poll" ELSE spent[i]]
    BY <2>1 DEF Spend, Chunks
  <2>5. /\ \A u \in Tasks : op'[u].name = "body" => shared' = Unset
        /\ \A u \in Tasks : Reads(u)' => op'[u].object \in Objects
        /\ own' \in [Objects -> Seq(0..length)] /\ shared' \in Seq(0..length)
        /\ op' \in [Tasks -> OpKind]
    BY <1>1, <1>2, BodyTypes
  <2>6. \A u \in Tasks : op[u].name = "body" =>
          \A i \in ToSet(op[u].got) :
            \E v \in Tasks : op'[v].name = "body" /\ i \in ToSet(op'[v].got)
    BY <1>1
  <2>7. stored' = left /\ stage' \in {"handler", "streaming", "over"}
    BY <1>1, <2>1, <2>2
  <2>8. QED
    BY <1>1, <1>2, <2>3, <2>4, <2>5, <2>6, <2>7, TakenKeeps
<1>5. QED
  BY <1>3, <1>4

LEMMA ListenKeeps ==
  ASSUME BodyIInv, Listen
  PROVE  BodyIInv'
<1>1. stage = "streaming" /\ UNCHANGED <<length, arrived, gone, own, shared>>
  BY DEF Listen
<1>2. PICK message :
        /\ Receive(Upstream, message)
        /\ stored' = Forgotten(Upstream)
        /\ Spend(message, "listen")
        /\ IF message.type = "disconnect"
           THEN stage' = "over" /\ op' = [op EXCEPT !["iterator"] = Idle]
           ELSE UNCHANGED <<stage, op>>
  BY DEF Listen
<1>3. PICK left : left = Forgotten(Upstream)
  OBVIOUS
<1>4. Received(message, left)
  BY <1>1, <1>2, <1>3, ReceiveIs
<1>5. spent' = [i \in Chunks |-> IF i \in ToSet(message.body) THEN "listen" ELSE spent[i]]
  BY <1>2 DEF Spend, Chunks
<1>6. "main" \in Tasks /\ "iterator" \in Tasks /\ \A u \in Tasks : u \in {"main", "iterator"}
  BY DEF Tasks
<1>7. Idle \in OpKind /\ Idle.name = "none"
  BY BodyBasics, BodyForms DEF Idle, OpKind, OpNames
<1>8. /\ op' \in [Tasks -> OpKind]
      /\ \A u \in Tasks : op'[u] = op[u] \/ (op'[u].name = "none" /\ message.type = "disconnect")
  <2>1. CASE message.type = "disconnect"
    <3>1. op' = [op EXCEPT !["iterator"] = Idle]
      BY <1>2, <2>1
    <3>2. QED
      BY <1>7, <2>1, <3>1, BodyTypes
  <2>2. CASE message.type # "disconnect"
    BY <1>2, <2>2, BodyTypes
  <2>3. QED
    BY <2>1, <2>2
<1>9. \A u \in Tasks : Reads(u)' => Reads(u) /\ op'[u] = op[u]
  BY <1>8 DEF Reads
<1>10. stage' \in {"streaming", "over"} /\ (stage' = "over" => op'["iterator"].name = "none")
  <2>1. CASE message.type = "disconnect"
    <3>1. op' = [op EXCEPT !["iterator"] = Idle] /\ stage' = "over"
      BY <1>2, <2>1
    <3>2. op'["iterator"] = Idle
      BY <1>6, <3>1, BodyTypes
    <3>3. QED
      BY <1>7, <3>1, <3>2
  <2>2. CASE message.type # "disconnect"
    BY <1>1, <1>2, <2>2
  <2>3. QED
    BY <2>1, <2>2
<1>11. TaskInv'
  BY <1>1, <1>6, <1>9, <1>10, BodyBasics DEF TaskInv, Reads
<1>12. /\ \A u \in Tasks : op'[u].name = "body" => shared' = Unset
       /\ \A u \in Tasks : Reads(u)' => op'[u].object \in Objects
  <2>1. \A u \in Tasks : op'[u].name = "body" => Reads(u)'
    BY DEF Reads
  <2>2. QED
    BY <1>1, <1>9, <2>1, BodyTypes
<1>13. \A u \in Tasks : op[u].name = "body" =>
         \A i \in ToSet(op[u].got) :
           \/ \E v \in Tasks : op'[v].name = "body" /\ i \in ToSet(op'[v].got)
           \/ shared' = Unset /\ gone /\ ~replay.on
  <2>1. message.type = "disconnect" => gone /\ ~replay.on
    BY <1>4 DEF Received
  <2>2. QED
    BY <1>1, <1>8, <2>1, BodyTypes
<1>14. /\ own' \in [Objects -> Seq(0..length)] /\ shared' \in Seq(0..length)
       /\ stored' = left
  BY <1>1, <1>2, <1>3, BodyTypes
<1>15. QED
  BY <1>1, <1>4, <1>5, <1>8, <1>10, <1>11, <1>12, <1>13, <1>14, TakenKeeps

LEMMA TokenKeeps ==
  ASSUME BodyIInv, ReadForToken
  PROVE  BodyIInv'
<1>1. /\ stage = "csrf"
      /\ UNCHANGED <<length, arrived, gone, stored, own, shared, op, spent>>
  BY DEF ReadForToken, objects, history
<1>2. PICK message :
        /\ FromServer(message)
        /\ replay' = IF message.type = "request"
                     THEN [on |-> ~message.more, body |-> replay.body \o message.body]
                     ELSE replay
        /\ stage' \in IF message.type = "request" /\ ~message.more
                      THEN {"handler", "over"}
                      ELSE IF message.type = "request" THEN {"csrf", "over"} ELSE {"csrf"}
  BY <1>1 DEF ReadForToken
<1>3. /\ ~replay.on /\ shared = Unset
      /\ \A o \in Objects : stored[o] = NoMessage /\ own[o] = Unset
      /\ \A i \in Chunks : spent[i] = "nothing" /\ (i <= received => i \in ToSet(replay.body))
  BY <1>1, BodyBasics DEF CsrfInv
<1>4. TaskInv' /\ \A u \in Tasks : ~Reads(u)' /\ ~Reads(u)
  <2>1. \A u \in Tasks : u \in {"main", "iterator"}
    BY DEF Tasks
  <2>2. \A u \in Tasks : ~Reads(u) /\ Reads(u)' = Reads(u)
    BY <1>1, <2>1, BodyBasics DEF TaskInv, Reads
  <2>3. "main" \in Tasks /\ "iterator" \in Tasks
    BY DEF Tasks
  <2>4. QED
    BY <2>2, <2>3 DEF TaskInv
<1>5. CASE gone
  <2>1. message = Disconnect /\ received' = received
    BY <1>2, <1>5 DEF FromServer
  <2>2. replay' = replay /\ stage' = "csrf"
    BY <1>2, <2>1, BodyBasics
  <2>3. QED
    BY <1>1, <1>3, <1>4, <2>1, <2>2, BodyTypes, QuietStep
<1>6. CASE ~gone
  <2>1. received < arrived /\ message = BodyMessage(received + 1) /\ received' = received + 1
    BY <1>2, <1>6 DEF FromServer
  <2>2. received + 1 \in 1..Messages
    BY <2>1, BodyBasics
  <2>3. /\ message \in MessageKind /\ message.type = "request"
        /\ Ends(message) => received' = Messages
        /\ length # 0 => received + 1 \in ToSet(message.body)
    BY <2>1, <2>2, BodyBasics, BodyMessageIs
  <2>4. /\ message.body \in Seq(Chunks) /\ message.more \in BOOLEAN
        /\ replay.body \in Seq(Chunks)
    BY <2>3, BodyBasics DEF MessageKind, BodyParts
  <2>5. PICK body : body = replay.body \o message.body
    OBVIOUS
  <2>6. /\ body \in Seq(Chunks)
        /\ \A i : i \in ToSet(replay.body) \/ i \in ToSet(message.body) => i \in ToSet(body)
    BY <2>4, <2>5, GotMore
  <2>7. replay' = [on |-> ~message.more, body |-> body]
    BY <1>2, <2>3, <2>5
  <2>8. /\ replay' \in [on : BOOLEAN, body : Seq(Chunks)]
        /\ replay'.on = ~message.more /\ replay'.body = body
    BY <2>4, <2>6, <2>7
  <2>9. /\ stage' \in {"csrf", "handler", "over"}
        /\ stage' = "csrf" => message.more /\ ~replay'.on
        /\ stage' = "handler" => replay'.on
        /\ replay'.on => received' = Messages
    BY <1>2, <2>3, <2>8 DEF Ends
  <2>10. \A i \in Chunks : i <= received' => i \in ToSet(body)
    <3>1. \A i \in Chunks : i \in Nat /\ length # 0
      BY BodyBasics DEF Chunks
    <3>2. \A i \in Chunks : i <= received + 1 => i <= received \/ i = received + 1
      BY <3>1, BodyBasics
    <3>3. QED
      BY <1>3, <2>1, <2>3, <2>6, <3>1, <3>2
  <2>11. Messages' = Messages /\ Chunks' = Chunks /\ MessageKind' = MessageKind
    BY <1>1 DEF Messages, Chunks, MessageKind
  <2>12. BodyParts'
    <3>1. received' \in 0..arrived' /\ arrived' \in 0..Messages'
      BY <1>1, <2>1, <2>11, BodyBasics
    <3>2. \A t \in Tasks : Reads(t)' => op'[t].object \in Objects
      BY <1>4
    <3>3. QED
      BY <1>1, <2>8, <2>9, <2>11, <3>1, <3>2, BodyBasics DEF BodyParts
  <2>13. CsrfInv'
    BY <1>1, <1>3, <2>8, <2>9, <2>10, <2>11 DEF CsrfInv
  <2>14. StoredInv'
    BY <1>1, <1>3, BodyBasics DEF StoredInv, Ends
  <2>15. SharedInv'
    BY <1>1, <1>3 DEF SharedInv, OneBody
  <2>16. SpentInv'
    <3>1. \A i \in Chunks : i > received' \/ i <= received'
      BY <2>1, BodyBasics DEF Chunks
    <3>2. \A i \in Chunks : spent'[i] = "nothing"
      BY <1>1, <1>3
    <3>3. QED
      BY <2>8, <2>10, <2>11, <3>1, <3>2 DEF SpentInv
  <2>17. QED
    BY <1>4, <2>12, <2>13, <2>14, <2>15, <2>16 DEF BodyIInv
<1>7. QED
  BY <1>5, <1>6

LEMMA SniffedKeeps ==
  ASSUME BodyIInv, NEW t \in Tasks, Sniffed(t)
  PROVE  BodyIInv'
<1> DEFINE o == op[t].object
<1>1. Reads(t) /\ op[t].name = "sniff"
  BY DEF Sniffed, Reads
<1>2. /\ stage \in {"handler", "streaming"} /\ o \in Objects
      /\ \A u \in Tasks : Reads(u) => u = t
  BY <1>1, OneReads
<1>3. PICK message :
        /\ Receive(Source(o), message)
        /\ stored' = [Forgotten(Source(o)) EXCEPT ![o] = message]
        /\ IF IsBody(message)
           THEN own' = [own EXCEPT ![o] = message.body] /\ shared' = message.body
           ELSE UNCHANGED <<own, shared>>
  BY DEF Sniffed
<1>4. /\ UNCHANGED <<length, arrived, gone, stage, spent>>
      /\ op' = [op EXCEPT ![t] = Idle]
  BY DEF Sniffed, history
<1>5. PICK left : left = Forgotten(Source(o))
  OBVIOUS
<1>6. Received(message, left)
  BY <1>2, <1>3, <1>5, SourceIs, ReceiveIs
<1>7. left[o] = NoMessage
  <2>1. stored \in [Objects -> MessageKind]
    BY BodyBasics DEF BodyParts
  <2>2. CASE stored[o] # NoMessage
    BY <1>2, <1>5, <2>1, <2>2 DEF Source, Forgotten
  <2>3. CASE stored[o] = NoMessage
    BY <1>2, <1>6, <2>3 DEF Received
  <2>4. QED
    BY <2>2, <2>3
<1>8. /\ message \in MessageKind /\ message.type \in {"request", "disconnect"}
      /\ message.body \in Seq(Chunks)
      /\ message.type = "disconnect" => gone /\ ~replay.on /\ message.body = <<>>
      /\ left \in [Objects -> MessageKind]
  BY <1>6 DEF Received, MessageKind
<1>9. message.body # Unset /\ message.body \in Seq(0..length)
  BY <1>8, BodyBasics, BodyForms
<1>10. stored' = [left EXCEPT ![o] = message]
  BY <1>3, <1>5
<1>11. /\ stored' \in [Objects -> MessageKind] /\ stored'[o] = message
       /\ \A p \in Objects : p # o => stored'[p] = left[p]
  BY <1>2, <1>8, <1>10
<1>12. Idle \in OpKind /\ Idle.name = "none"
  BY BodyBasics, BodyForms DEF Idle, OpKind, OpNames
<1>13. /\ op' \in [Tasks -> OpKind] /\ op'[t] = Idle
       /\ \A u \in Tasks : u # t => op'[u] = op[u]
  BY <1>4, <1>12, BodyTypes
<1>14. \A u \in Tasks : ~Reads(u)'
  BY <1>2, <1>12, <1>13 DEF Reads
<1>15. \A u \in Tasks : op[u].name # "body"
  BY <1>1, <1>2 DEF Reads
<1>16. \/ /\ ~IsBody(message) /\ own' = own /\ shared' = shared
       \/ /\ IsBody(message) /\ shared' = message.body
          /\ shared \in {Unset, message.body}
          /\ own' = [own EXCEPT ![o] = message.body]
          /\ received' = Messages /\ replay'.body = <<>>
          /\ shared = Unset => length = 0 \/ ~gone \/ replay.on
  <2>1. CASE IsBody(message)
    <3>1. Ends(message) /\ message.body # <<>>
      BY <2>1 DEF IsBody, Ends
    <3>2. QED
      BY <1>3, <1>6, <2>1, <3>1 DEF Received
  <2>2. CASE ~IsBody(message)
    BY <1>3, <2>2
  <2>3. QED
    BY <2>1, <2>2
<1>17. /\ own' \in [Objects -> Seq(0..length)] /\ shared' \in Seq(0..length)
       /\ \A p \in Objects : own'[p] \in {own[p], shared'}
       /\ shared' = shared \/ shared = Unset
  <2>1. CASE ~IsBody(message) /\ own' = own /\ shared' = shared
    BY <2>1, BodyTypes
  <2>2. CASE /\ IsBody(message) /\ shared' = message.body
             /\ shared \in {Unset, message.body}
             /\ own' = [own EXCEPT ![o] = message.body]
    BY <1>9, <2>2, BodyTypes
  <2>3. QED
    BY <1>16, <2>1, <2>2
<1>18. /\ received' \in Nat /\ received <= received' /\ received' <= arrived
       /\ replay' \in [on : BOOLEAN, body : Seq(Chunks)]
       /\ replay'.on = replay.on /\ replay'.body \in {replay.body, <<>>}
       /\ replay.on => replay'.body = <<>>
  BY <1>6, BodyBasics DEF Received
<1>19. Messages' = Messages /\ Chunks' = Chunks /\ MessageKind' = MessageKind
  BY <1>4 DEF Messages, Chunks, MessageKind
<1> HIDE DEF o
<1>20. BodyParts'
  <2>1. received' \in 0..arrived' /\ arrived' \in 0..Messages'
    BY <1>4, <1>18, <1>19, BodyBasics
  <2>2. length' \in Nat /\ gone' \in BOOLEAN
    BY <1>4, BodyBasics DEF BodyParts
  <2>3. spent' \in [Chunks -> {"nothing", "stream", "first", "body", "form", "poll", "listen"}]
    BY <1>4, BodyBasics DEF BodyParts
  <2>4. op' \in [Tasks -> [name : OpNames, object : Objects \cup {Nobody}, got : Seq(Chunks')]]
    BY <1>13, <1>19 DEF OpKind
  <2>5. QED
    BY <1>2, <1>4, <1>11, <1>14, <1>17, <1>18, <1>19, <2>1, <2>2, <2>3, <2>4 DEF BodyParts
<1>21. CsrfInv'
  <2>1. received = Messages => received' = Messages
    BY <1>18, BodyBasics
  <2>2. QED
    BY <1>2, <1>4, <1>18, <1>19, <2>1, BodyBasics DEF CsrfInv
<1>22. StoredInv'
  <2>1. \A p \in Objects :
          /\ left[p].type = "none" => left[p] = NoMessage
          /\ left[p].type = "disconnect" => gone' /\ ~replay'.on /\ left[p].body = <<>>
          /\ Ends(left[p]) =>
               /\ received' = Messages'
               /\ left[p].body # <<>> => shared' = left[p].body
               /\ left[p].body = <<>> => length' = 0 \/ replay'.on
    BY <1>4, <1>6, <1>17, StoredAfter
  <2>2. /\ message.type = "none" => message = NoMessage
        /\ message.type = "disconnect" => gone' /\ ~replay'.on /\ message.body = <<>>
        /\ Ends(message) =>
             /\ received' = Messages'
             /\ message.body # <<>> => shared' = message.body
             /\ message.body = <<>> => length' = 0 \/ replay'.on
    <3>1. Ends(message) /\ message.body # <<>> => shared' = message.body
      BY <1>16 DEF IsBody, Ends
    <3>2. Ends(message) =>
            received' = Messages /\ (message.body = <<>> => length = 0 \/ replay.on)
      BY <1>6 DEF Received
    <3>3. QED
      BY <1>4, <1>8, <1>18, <1>19, <3>1, <3>2
  <2>3. \A p \in Objects : stored'[p] = message \/ stored'[p] = left[p]
    BY <1>11
  <2>4. QED
    BY <2>1, <2>2, <2>3 DEF StoredInv
<1>23. SharedInv'
  <2>1. \A u \in Tasks : op'[u].name # "body"
    BY <1>14 DEF Reads
  <2>2. shared' # Unset => received' = Messages' /\ replay'.body = <<>>
    <3>1. shared # Unset => received' = Messages /\ replay'.body = <<>>
      BY <1>18, BodyBasics DEF SharedInv
    <3>2. QED
      BY <1>16, <1>19, <3>1
  <2>3. OneBody'
    <3>1. \A p \in Objects : own[p] \in {Unset, shared}
      BY BodyBasics DEF SharedInv, OneBody
    <3>2. QED
      BY <1>17, <3>1 DEF OneBody
  <2>4. QED
    BY <2>1, <2>2, <2>3 DEF SharedInv
<1>24. SpentInv'
  <2>1. ASSUME NEW i \in Chunks, spent[i] = "nothing"
        PROVE  \/ i > received' \/ i \in ToSet(replay'.body)
               \/ \E p \in Objects : i \in ToSet(stored'[p].body)
    <3>1. \/ i > received' \/ i \in ToSet(replay'.body) \/ i \in ToSet(message.body)
          \/ \E p \in Objects : i \in ToSet(left[p].body)
      BY <1>6, <2>1, BodyBasics DEF SpentInv, Received
    <3>2. i \notin ToSet(left[o].body)
      BY <1>7, BodyBasics DEF ToSet
    <3>3. QED
      BY <1>2, <1>11, <3>1, <3>2
  <2>2. ASSUME NEW i \in Chunks, spent[i] = "body"
        PROVE  \/ shared' # Unset /\ i \in ToSet(shared')
               \/ shared' = Unset /\ gone' /\ ~replay'.on
    <3>1. \/ shared # Unset /\ i \in ToSet(shared)
          \/ shared = Unset /\ gone /\ ~replay.on
      BY <1>15, <2>2, BodyBasics DEF SpentInv
    <3>2. length # 0
      BY BodyBasics DEF Chunks
    <3>3. QED
      BY <1>4, <1>16, <1>17, <1>18, <3>1, <3>2
  <2>3. QED
    BY <1>4, <1>19, <2>1, <2>2 DEF SpentInv
<1>25. TaskInv'
  <2>1. "main" \in Tasks /\ "iterator" \in Tasks
    BY DEF Tasks
  <2>2. QED
    BY <1>14, <2>1 DEF TaskInv
<1>26. QED
  BY <1>20, <1>21, <1>22, <1>23, <1>24, <1>25 DEF BodyIInv

LEMMA BodyStep ==
  ASSUME BodyIInv, [BodyNext]_bodyVars
  PROVE  BodyIInv'
<1>1. CASE UNCHANGED bodyVars
  <2>1. UNCHANGED <<length, gone, arrived, received, replay, stored, own, shared, stage, op,
                    spent>>
    BY <1>1 DEF bodyVars, server, objects, history
  <2>2. TaskInv' /\ \A t \in Tasks : Reads(t)' = Reads(t)
    BY <2>1, BodyBasics DEF TaskInv, Reads
  <2>3. QED
    BY <2>1, <2>2, BodyTypes, QuietStep
<1>2. ASSUME NEW t \in Tasks, Operation(t)
      PROVE  BodyIInv'
  BY <1>2, StartKeeps, PollKeeps, RoundKeeps, SniffedKeeps DEF Operation
<1>3. "main" \in Tasks /\ "iterator" \in Tasks
  BY DEF Tasks
<1>4. QED
  BY <1>1, <1>2, <1>3, OutsideKeeps, TokenKeeps, ListenKeeps
  DEF BodyNext, Main, Iterator

\* However the middlewares, the handler, the iterator and the wait for the client
\* take turns, all Request objects of a connection that have a body have the one
\* in the scope (requests.py:220).
THEOREM BodiesAgree == BodySpec => []OneBody
<1>1. BodyIInv => OneBody
  BY DEF BodyIInv, SharedInv
<1>2. QED
  BY <1>1, BodyStart, BodyStep, PTL DEF BodySpec

\* For every length of the body: the one in the scope lacks no chunk but those
\* that something else took, or that a Request still stores (requests.py:134 and
\* requests.py:223).
THEOREM ChunksAccounted == BodySpec => []NothingLost
<1>1. BodyIInv => NothingLost
  <2> SUFFICES ASSUME BodyIInv, shared # Unset, NEW i \in Chunks
               PROVE  \/ i \in ToSet(shared)
                      \/ spent[i] \in {"stream", "first", "form", "poll", "listen"}
                      \/ \E o \in Objects : i \in ToSet(stored[o].body)
    BY DEF NothingLost, Chunks
  <2>1. /\ received = Messages /\ replay.body = <<>>
        /\ \A t \in Tasks : op[t].name # "body"
    BY BodyBasics DEF SharedInv
  <2>2. i <= received /\ i \in Nat /\ i \notin ToSet(replay.body)
    BY <2>1, BodyBasics DEF Chunks, Messages, ToSet
  <2>3. spent[i] \in {"nothing", "stream", "first", "body", "form", "poll", "listen"}
    BY BodyBasics DEF BodyParts
  <2>4. QED
    BY <2>1, <2>2, <2>3, BodyBasics DEF SpentInv
<1>2. QED
  BY <1>1, BodyStart, BodyStep, PTL DEF BodySpec

=============================================================================
