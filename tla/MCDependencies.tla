-------------------------- MODULE MCDependencies --------------------------
(* Two requests, or a request and a call of an injected function, of one    *)
(* application or of two, over the providers of an application.             *)
EXTENDS Dependencies

CONSTANTS r1, r2, a1, a2

TheFactories == {"make_session", "make_client", "load_config", "get_user",
                 "paginate", "make_service", "Token"}

Provider(factory, scope, use_cache, generator, params, fields) ==
  [factory |-> factory, scope |-> scope, use_cache |-> use_cache,
   generator |-> generator, given |-> factory = "Token", pure |-> FALSE,
   params |-> params, fields |-> fields]

TheSpec ==
  [session |-> Provider("make_session", "request", FALSE, TRUE, <<>>, {}),
   testing |-> Provider("Token", "request", FALSE, FALSE, <<>>, {}),
   cached  |-> Provider("make_session", "request", TRUE, TRUE, <<>>, {}),
   client  |-> Provider("make_client", "app", FALSE, TRUE, <<>>, {}),
   twin    |-> Provider("make_client", "app", FALSE, TRUE, <<>>, {}),
   config  |-> Provider("load_config", "global", FALSE, FALSE, <<>>, {}),
   service |-> Provider("make_service", "app", FALSE, FALSE, <<"session">>, {}),
   user    |-> Provider("get_user", "request", FALSE, FALSE, <<"session">>, {"name"}),
   page    |-> Provider("paginate", "request", FALSE, TRUE, <<>>, {"limit"}),
   repo    |-> [Provider("make_session", "request", FALSE, TRUE, <<>>, {})
                  EXCEPT !.pure = TRUE],
   local   |-> [Provider("load_config", "global", FALSE, FALSE, <<"repo">>, {})
                  EXCEPT !.pure = TRUE]]
TheProviders == DOMAIN TheSpec
TheNames == TheProviders \cup {"nothing"}
TheFields == {"name", "limit"}

App == [n \in TheProviders |-> n]
Overridden == <<App, [n \in {"session"} |-> "testing"]>>

\* A request of a kind, an application, what it wants and the body it has.
Asks(kind, app, wants, body) ==
  [kind |-> kind, app |-> app, wants |-> wants, layers |-> <<App>>, body |-> body]
Http(wants, body) == Asks("http", a1, wants, body)
Two(x, y) == [r \in {r1, r2} |-> IF r = r1 THEN x ELSE y]

TheScenarios ==
  {Two(Http(<<"session", "user">>, {}), Http(<<"user">>, body)) :
      body \in {{}, {"name"}, {"limit"}, {"text"}}}
  \cup {Two(Http(<<"page">>, {"limit"}), Http(<<"page">>, body)) :
          body \in {{}, {"limit"}, {"name", "limit"}}}
  \cup {Two(Http(<<"user", "user">>, {"name"}), Asks("websocket", a1, <<"user">>, {})),
        Two(Http(<<"client", "config">>, {}), Asks("http", a2, <<"client", "config">>, {})),
        Two(Http(<<"client", "twin">>, {}), Asks("websocket", a1, <<"twin", "client">>, {})),
        Two(Http(<<"cached", "service">>, {}), Http(<<"service", "cached">>, {})),
        Two(Http(<<"session", "config">>, {}), Asks("inject", a1, <<"local", "repo">>, {})),
        Two([Http(<<"user", "session">>, {}) EXCEPT !.layers = Overridden],
            Http(<<"service", "nothing">>, {}))}
=============================================================================
