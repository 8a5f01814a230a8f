----------------------------- MODULE MCRouting -----------------------------
(* The routing trees TLC explores. *)
EXTENDS Routing, TLC

Tree(routes, into, sub) ==
  [main |-> "main", routes |-> routes, into |-> into, sub |-> sub]
NoInclude == <<>>

\* One Path: the fast path.
Single == Tree([main |-> <<"a">>], NoInclude, {})

\* Paths only: the generic walk, one sniffer.
Flat == Tree([main |-> <<"a", "b", "c">>], NoInclude, {})

\* An Include between two Paths: two sniffers, partial matches handed up.
Nested == Tree("main" :> <<"a", "i", "b">> @@ "s" :> <<"c", "d">>,
               "i" :> "s", {"s"})

\* Two Includes with the same prefix, the second of a router that was
\* built on its own.
Apps == Tree("main" :> <<"i", "j">> @@ "s" :> <<"a", "b">> @@ "app" :> <<"c">>,
             "i" :> "s" @@ "j" :> "app", {"s"})

\* An Include in an Include: three sniffers, two of them between an endpoint and
\* the next one of the main router.
Deep == Tree("main" :> <<"i", "b">> @@ "s" :> <<"j">> @@ "t" :> <<"c", "d">>,
             "i" :> "s" @@ "j" :> "t", {"s", "t"})

MCTrees == {Single, Flat, Nested, Apps, Deep}
=============================================================================
