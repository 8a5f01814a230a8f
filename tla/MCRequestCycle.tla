--------------------------- MODULE MCRequestCycle ---------------------------
(* The applications TLC explores. *)
EXTENDS RequestCycle

Application(ls, handles, errorHandler, include, path) ==
  [layers |-> ls, handles |-> handles, errorHandler |-> errorHandler,
   include |-> include, path |-> path]

\* One static Path, fast_http.
Static(path) ==
  Application(<<"dispatch", "router", "path", "endpoint">>, {}, FALSE, {}, path)

\* A Path in the router, with a middleware of the application and one of the
\* route; the same with an Include; and with global exceptions intercepted.
Plain == <<"server", "middleware", "exception", "router", "path", "middleware",
           "endpoint">>
WithInclude == <<"server", "exception", "router", "include", "path", "endpoint">>
Intercepted == <<"server", "intercept", "middleware", "exception", "router",
                 "path", "endpoint">>

\* A ChildLilya in an Include: error and exception middleware twice.
Child == <<"server", "exception", "router", "include", "server", "middleware",
           "exception", "router", "path", "endpoint">>

MCApps ==
  {Static(path) : path \in {{}, {"own"}}} \cup
  {Application(ls, handles, errorHandler, include, path) :
     ls \in {Plain, WithInclude, Intercepted, Child},
     handles \in {{"http"}, {"http", "own"}},
     errorHandler \in BOOLEAN,
     include \in {{}, {"own", "error"}},
     path \in {{}, {"http", "error"}}}
=============================================================================
