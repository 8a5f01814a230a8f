---------------------------- MODULE RequestBody ----------------------------
(***************************************************************************)
(* The body of one HTTP connection and everything that receives it:        *)
(* lilya.requests.Request, the CSRF middleware (lilya.middleware.csrf),    *)
(* the request of lilya.middleware.request_context, and the wait for the   *)
(* client of lilya.responses.StreamingResponse.                            *)
(*                                                                         *)
(* Middlewares, the handler, dependencies and exception handlers make a    *)
(* Request each.  The objects share the server's receive and the scope,    *)
(* where the body is cached, and nothing else.  The handler runs in the    *)
(* task `main`; a streaming response iterates in a task of its own while   *)
(* main waits for the client to go.  The tasks run on one event loop: a    *)
(* task keeps it until it has to wait.                                     *)
(*                                                                         *)
(* The body is the chunks 1, 2, ..., length.                               *)
(***************************************************************************)
EXTENDS Naturals, FiniteSets, SequencesExt

CONSTANTS
  Objects,   \* Request objects
  Outer,     \* the one of the request context, whose receive the others use
  Lengths,   \* lengths of the body, in chunks
  MaxOps,    \* bound: operations per connection
  Nobody

ASSUME RequestBodyAssumption ==
  /\ Outer \in Objects /\ Objects \cap {Nobody, "replay", "server"} = {}
  /\ Lengths \subseteq Nat /\ MaxOps \in Nat

VARIABLES
  length,    \* of the body
  csrf,      \* the CSRF middleware has to look for the token in the body
  arrived,   \* messages the client has sent
  gone,      \* the client has disconnected
  received,  \* messages taken from the server
  replay,    \* the CSRF middleware's receive: whether it is in use, and what is left
  stored,    \* _stored_receive_message of an object
  consumed,  \* _stream_consumed
  disconnected, \* _is_disconnected
  own,       \* _body
  form,      \* _form
  shared,    \* scope["_body"]
  stage,     \* csrf, handler, streaming, over
  op,        \* the operation of a task
  ops,       \* operations begun
  loop,      \* the task that has the event loop
  spent,     \* history: what took each chunk for good
  ender      \* history: what saw the end of the body last

server == <<length, arrived, gone, received>>
objects == <<stored, consumed, disconnected, own, form>>
history == <<spent, ender>>
bodyVars == <<server, csrf, replay, objects, shared, stage, op, ops, loop, history>>

Tasks == {"main", "iterator"}
Unset == <<0>>
Whole == [i \in 1..length |-> i]
Messages == IF length = 0 THEN 1 ELSE length

NoMessage == [type |-> "none", body |-> <<>>, more |-> FALSE]
Disconnect == [type |-> "disconnect", body |-> <<>>, more |-> FALSE]
Request(body, more) == [type |-> "request", body |-> body, more |-> more]
BodyMessage(i) == Request(IF length = 0 THEN <<>> ELSE <<i>>, i < length)

Idle == [name |-> "none", object |-> Nobody, got |-> <<>>]

BodyInit ==
  /\ length \in Lengths
  /\ csrf \in BOOLEAN
  /\ arrived = 0 /\ gone = FALSE /\ received = 0
  /\ replay = [on |-> FALSE, body |-> <<>>]
  /\ stored = [o \in Objects |-> NoMessage]
  /\ consumed = [o \in Objects |-> FALSE]
  /\ disconnected = [o \in Objects |-> FALSE]
  /\ own = [o \in Objects |-> Unset]
  /\ form = [o \in Objects |-> Unset]
  /\ shared = Unset
  /\ stage = IF csrf THEN "csrf" ELSE "handler"
  /\ op = [t \in Tasks |-> Idle]
  /\ ops = 0
  /\ loop = Nobody
  /\ spent = [i \in 1..length |-> "nothing"]
  /\ ender = "nothing"

-----------------------------------------------------------------------------
(* The client and the server.                                               *)

Send ==
  /\ ~gone /\ arrived < Messages
  /\ arrived' = arrived + 1
  /\ UNCHANGED <<length, gone, received, csrf, replay, objects, shared, stage,
                 op, ops, loop, history>>

Leave ==
  /\ ~gone /\ stage # "over"
  /\ gone' = TRUE
  /\ UNCHANGED <<length, arrived, received, csrf, replay, objects, shared,
                 stage, op, ops, loop, history>>

\* Where the next message comes from.
Upstream == IF stored[Outer] # NoMessage THEN Outer
            ELSE IF replay.on THEN "replay" ELSE "server"
Source(o) == IF stored[o] # NoMessage THEN o ELSE Upstream

Waits(source) == source = "server" /\ ~gone /\ received >= arrived

\* The server has the next part of the body, or tells that the client is gone.
FromServer(message) ==
  \/ /\ ~gone /\ received < arrived
     /\ message = BodyMessage(received + 1)
     /\ received' = received + 1
  \/ /\ gone
     /\ message = Disconnect
     /\ UNCHANGED received

\* The message that a receive returns at once. What was stored is given back
\* once; the replay goes on with empty bodies.
Receive(source, message) ==
  \/ /\ source \in Objects
     /\ message = stored[source]
     /\ UNCHANGED <<received, replay>>
  \/ /\ source = "replay"
     /\ message = Request(replay.body, FALSE)
     /\ replay' = [on |-> TRUE, body |-> <<>>]
     /\ UNCHANGED received
  \/ source = "server" /\ FromServer(message) /\ UNCHANGED replay

\* The receive of a Request forgets the message it stored.
Forgotten(source) ==
  IF source \in Objects THEN [stored EXCEPT ![source] = NoMessage] ELSE stored

Spend(message, name) ==
  /\ spent' = [i \in 1..length |->
              IF i \in ToSet(message.body) THEN name ELSE spent[i]]
  /\ ender' = IF message.type = "request" /\ ~message.more THEN name ELSE ender

-----------------------------------------------------------------------------
(* The event loop.                                                          *)

HasLoop(t) == loop \in {t, Nobody}
KeepsLoop(t) == loop' = t
Reads(t) == op[t].name # "none"

\* What a task is waiting for, when it is.
Waiting(t) ==
  \/ Reads(t) /\ Waits(Source(op[t].object))
  \/ t = "main" /\ stage = "csrf" /\ Waits("server")
  \/ t = "main" /\ stage = "streaming" /\ Waits(Upstream)

\* A task gives up the loop when it waits; between two operations it may.
Suspend(t) ==
  /\ loop = t
  /\ \/ Waiting(t)
     \/ ~Reads(t) /\ (stage = "handler" \/ t = "iterator")
  /\ loop' = Nobody
  /\ UNCHANGED <<server, csrf, replay, objects, shared, stage, op, ops,
                 history>>

-----------------------------------------------------------------------------
(* The CSRF middleware.                                                     *)

\* _read_and_replay_body. Anything but a part of the body is ignored.
ReadForToken ==
  /\ stage = "csrf" /\ HasLoop("main")
  /\ \E message \in {Disconnect, BodyMessage(received + 1)} :
       /\ FromServer(message)
       /\ replay' = IF message.type = "request"
                    THEN [on |-> ~message.more, body |-> replay.body \o message.body]
                    ELSE replay
       /\ stage' \in IF message.type = "request" /\ ~message.more
                     THEN {"handler", "over"}     \* the token matches, or not
                     ELSE IF message.type = "request"
                     THEN {"csrf", "over"}        \* the body is too large
                     ELSE {"csrf"}
  /\ KeepsLoop("main")
  /\ UNCHANGED <<length, arrived, gone, csrf, objects, shared, op, ops,
                 history>>

-----------------------------------------------------------------------------
(* Operations of a Request.                                                 *)

\* The task that runs handlers' code.
MayBegin(t) ==
  /\ HasLoop(t) /\ ~Reads(t) /\ ops < MaxOps
  /\ \/ t = "main" /\ stage = "handler"
     \/ t = "iterator" /\ stage = "streaming"

Begin(t, name, o) ==
  /\ op' = [op EXCEPT ![t] = [name |-> name, object |-> o, got |-> <<>>]]
  /\ ops' = ops + 1
  /\ KeepsLoop(t)

\* The operation has its answer, or raises, without a message.
AtOnce(t) == ops' = ops + 1 /\ KeepsLoop(t) /\ UNCHANGED op

\* Mutant: body() does not look into the scope.
OwnBody(o) == own[o]

CachedBody(o) == IF own[o] # Unset THEN own[o] ELSE shared

\* stream() to its end or to its first chunk, body(), and form(), which read it.
\* A stream that was consumed raises.
Stream(t, name, o) ==
  /\ MayBegin(t)
  /\ name = "form" => form[o] = Unset
  /\ name = "body" => CachedBody(o) = Unset
  /\ IF own[o] # Unset \/ consumed[o]
     THEN /\ AtOnce(t)
          /\ form' = IF name = "form" /\ own[o] # Unset
                     THEN [form EXCEPT ![o] = own[o]] ELSE form
     ELSE Begin(t, name, o) /\ UNCHANGED form
  /\ UNCHANGED <<server, csrf, replay, stored, consumed, disconnected, own,
                 shared, stage, history>>

\* body() finds the body in the object or in the scope.
Cached(t, o) ==
  /\ MayBegin(t)
  /\ CachedBody(o) # Unset
  /\ own' = [own EXCEPT ![o] = CachedBody(o)]
  /\ AtOnce(t)
  /\ UNCHANGED <<server, csrf, replay, stored, consumed, disconnected, form,
                 shared, stage, history>>

\* Mutant: only a message with a body can be the last.
CompleteWithBody(name, message) ==
  message.body # <<>> /\ (~message.more \/ name = "first")

\* What stream() has gathered when a message arrives is complete.
Completes(name, message) ==
  ~message.more \/ (name = "first" /\ message.body # <<>>)

\* One round of stream(). The last one ends the operation: body() caches what it
\* joined, form() keeps what it parsed. A disconnect raises ClientDisconnect.
Round(t) ==
  /\ HasLoop(t) /\ op[t].name \in {"stream", "first", "body", "form"}
  /\ LET o == op[t].object
         name == op[t].name IN
     \E message \in {Disconnect, BodyMessage(received + 1), stored[o], stored[Outer],
                     Request(replay.body, FALSE)} :
       /\ Receive(Source(o), message)
       /\ stored' = Forgotten(Source(o))
       /\ Spend(message, name)
       /\ LET got == op[t].got \o message.body
              ends == message.type = "request" /\ Completes(name, message)
          IN
          /\ consumed' = [consumed EXCEPT ![o] =
                            @ \/ (message.type = "request" /\ ~message.more)]
          /\ disconnected' = [disconnected EXCEPT ![o] = @ \/ message.type = "disconnect"]
          /\ op' = [op EXCEPT ![t] = IF ends \/ message.type = "disconnect"
                                     THEN Idle ELSE [@ EXCEPT !.got = got]]
          /\ shared' = IF name = "body" /\ ends THEN got ELSE shared
          /\ own' = IF name = "body" /\ ends THEN [own EXCEPT ![o] = got] ELSE own
          /\ form' = IF name = "form" /\ ends THEN [form EXCEPT ![o] = got] ELSE form
  /\ KeepsLoop(t)
  /\ UNCHANGED <<length, arrived, gone, csrf, stage, ops>>

\* sniff() begins: it always receives.
Sniff(t, o) ==
  /\ MayBegin(t)
  /\ Begin(t, "sniff", o)
  /\ UNCHANGED <<server, csrf, replay, objects, shared, stage, history>>

\* Mutant: the first part of a body is taken for the body.
IsBodyAnyPart(message) == message.type = "request" /\ message.body # <<>>

IsBody(message) ==
  message.type = "request" /\ ~message.more /\ message.body # <<>>

\* The message is stored to be received again, and if it ends the body it is
\* taken for the body.
Sniffed(t) ==
  /\ HasLoop(t) /\ op[t].name = "sniff"
  /\ LET o == op[t].object IN
     \E message \in {Disconnect, BodyMessage(received + 1), stored[o], stored[Outer],
                     Request(replay.body, FALSE)} :
       /\ Receive(Source(o), message)
       /\ stored' = [Forgotten(Source(o)) EXCEPT ![o] = message]
       /\ IF IsBody(message)
          THEN /\ own' = [own EXCEPT ![o] = message.body]
               /\ shared' = message.body
               /\ consumed' = [consumed EXCEPT ![o] = TRUE]
          ELSE UNCHANGED <<own, shared, consumed>>
  /\ op' = [op EXCEPT ![t] = Idle]
  /\ KeepsLoop(t)
  /\ UNCHANGED <<length, arrived, gone, csrf, disconnected, form, stage, ops,
                 history>>

\* is_disconnected(): a message that is there at once is received, and thrown
\* away when it is not the disconnect.
Poll(t, o) ==
  /\ MayBegin(t) /\ ~disconnected[o]
  /\ IF Waits(Source(o))
     THEN UNCHANGED <<received, replay, stored, disconnected, history>>
     ELSE \E message \in {Disconnect, BodyMessage(received + 1), stored[o],
                          stored[Outer], Request(replay.body, FALSE)} :
            /\ Receive(Source(o), message)
            /\ stored' = Forgotten(Source(o))
            /\ Spend(message, "poll")
            /\ disconnected' = [disconnected EXCEPT ![o] = message.type = "disconnect"]
  /\ AtOnce(t)
  /\ UNCHANGED <<length, arrived, gone, csrf, consumed, own, form, shared,
                 stage>>

-----------------------------------------------------------------------------
(* Responses.                                                               *)

Respond ==
  /\ stage = "handler" /\ HasLoop("main") /\ ~Reads("main")
  /\ stage' = "over"
  /\ loop' = Nobody
  /\ UNCHANGED <<server, csrf, replay, objects, shared, op, ops, history>>

\* The iterator's task is started, and main waits for the client to go.
BeginStreaming ==
  /\ stage = "handler" /\ HasLoop("main") /\ ~Reads("main")
  /\ stage' = "streaming"
  /\ KeepsLoop("main")
  /\ UNCHANGED <<server, csrf, replay, objects, shared, op, ops, history>>

\* wait_for_disconnect. Anything else it receives is thrown away.
Listen ==
  /\ stage = "streaming" /\ HasLoop("main")
  /\ \E message \in {Disconnect, BodyMessage(received + 1), stored[Outer],
                     Request(replay.body, FALSE)} :
       /\ Receive(Upstream, message)
       /\ stored' = Forgotten(Upstream)
       /\ Spend(message, "listen")
       /\ IF message.type = "disconnect"
          THEN /\ stage' = "over"
               /\ op' = [op EXCEPT !["iterator"] = Idle]
               /\ loop' = Nobody
          ELSE KeepsLoop("main") /\ UNCHANGED <<stage, op>>
  /\ UNCHANGED <<length, arrived, gone, csrf, consumed, disconnected, own, form,
                 shared, ops>>

\* The iterator is exhausted, or raises: main is cancelled.
EndStreaming ==
  /\ stage = "streaming" /\ HasLoop("iterator") /\ ~Reads("iterator")
  /\ stage' = "over"
  /\ loop' = Nobody
  /\ UNCHANGED <<server, csrf, replay, objects, shared, op, ops, history>>

Operation(t) ==
  \/ \E o \in Objects :
       \/ \E name \in {"stream", "first", "body", "form"} : Stream(t, name, o)
       \/ Cached(t, o) \/ Sniff(t, o) \/ Poll(t, o)
  \/ Round(t) \/ Sniffed(t)

Main == ReadForToken \/ Respond \/ BeginStreaming \/ Listen \/ Operation("main")
Iterator == EndStreaming \/ Operation("iterator")

BodyNext == Send \/ Leave \/ Main \/ Iterator \/ \E t \in Tasks : Suspend(t)

BodySpec == BodyInit /\ [][BodyNext]_bodyVars

\* The loop runs a task that can go on; handlers and iterators end; a client that
\* stays sends its body to the end. It need not leave.
Fairness ==
  /\ WF_bodyVars(Send)
  /\ WF_bodyVars(Main) /\ WF_bodyVars(Iterator)
  /\ \A t \in Tasks : WF_bodyVars(Suspend(t))
FairBodySpec == BodySpec /\ Fairness

-----------------------------------------------------------------------------
(* Properties.                                                              *)

Bodies == {Unset} \cup {SubSeq(Whole, m, n) : m \in 1..length + 1, n \in 0..length}
AnyMessage ==
  [type : {"none", "disconnect", "request"}, body : Bodies \ {Unset}, more : BOOLEAN]

\* The type invariant.
BodyTypeOK ==
  /\ length \in Lengths /\ csrf \in BOOLEAN /\ gone \in BOOLEAN
  /\ arrived \in 0..Messages /\ received \in 0..arrived
  /\ replay.on \in BOOLEAN /\ replay.body \in Bodies \ {Unset}
  /\ stored \in [Objects -> AnyMessage]
  /\ consumed \in [Objects -> BOOLEAN] /\ disconnected \in [Objects -> BOOLEAN]
  /\ own \in [Objects -> Bodies] /\ form \in [Objects -> Bodies]
  /\ shared \in Bodies
  /\ stage \in {"csrf", "handler", "streaming", "over"}
  /\ \A t \in Tasks :
       /\ op[t].name \in {"none", "sniff", "stream", "first", "body", "form"}
       /\ op[t].object \in Objects \cup {Nobody}
       /\ op[t].got \in Bodies \ {Unset}
  /\ ops \in 0..MaxOps
  /\ loop \in Tasks \cup {Nobody}
  /\ spent \in [1..length -> {"nothing", "stream", "first", "body", "form", "poll", "listen"}]

\* A body that is cached in the scope lacks no chunk but those that something
\* else received: stream() or form() of any Request, the wait of a streaming
\* response, is_disconnected(), or a sniff() whose Request still stores it
\* (requests.py:134 and requests.py:223).
NothingLost ==
  shared # Unset =>
    \A i \in 1..length :
      \/ i \in ToSet(shared)
      \/ spent[i] \in {"stream", "first", "form", "poll", "listen"}
      \/ \E o \in Objects : i \in ToSet(stored[o].body)

\* All Request objects of a connection that have a body have the same one
\* (requests.py:220, the one in the scope).
OneBody == \A o \in Objects : own[o] \in {Unset, shared}

\* A task that has the loop and will never give it up: the CSRF middleware that
\* reads from a client who is gone, and the wait of a streaming response on the
\* middleware's replay (csrf.py:119 and csrf.py:148).
Spins ==
  /\ loop = "main"
  /\ \/ stage = "csrf" /\ gone
     \/ stage = "streaming" /\ Upstream = "replay"

\* A Request that waits for a body that has been received already: by something
\* else than body(), or into another object, or by body() while it is not with
\* body() that it reads (requests.py:195: only body() looks into the scope).
Starves ==
  \E t \in Tasks :
    /\ Reads(t) /\ Waiting(t) /\ received = Messages
    /\ \/ op[t].name # "body" \/ ender \notin {"nothing", "body"}
       \/ \E o \in Objects : stored[o] # NoMessage

\* Every connection is answered although its client stays and waits for that,
\* unless the event loop spins or a Request starves: connections whose tasks read
\* the body with body() are, through however many Request objects.
Answered == <>(stage = "over" \/ Spins) \/ <>[]Starves

=============================================================================
