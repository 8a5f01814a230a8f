--------------------------- MODULE MCResultCache ---------------------------
(* Two coroutine calls of one function, one of them with a cached call in   *)
(* its body; three synchronous calls of one function, one of them on the    *)
(* loop's thread; one nested in another; two of a method; two of a bound     *)
(* method; calls of three functions that one factory made, one of which      *)
(* returns None; and calls that differ in an argument.                       *)
EXTENDS ResultCache

CONSTANTS
  a1, a2,           \* coroutine function
  s1, s2, s3, s4,   \* synchronous function; s3 on the loop, s4 in a2's body
  n1, n2,           \* n1 is synchronous and calls n2
  m1, m2,           \* a method of two instances
  b1, b2,           \* a bound method, with two arguments
  f1, f2,           \* a function of two first arguments
  g1, g2, z1,       \* functions made by one factory; z1's returns None
  i1, i2, i3,       \* invalidations of a1, s1 and, on the loop, of s1
  i4                \* invalidation of m1's method, given as a bound method

TheInvalidators == {i1, i2, i3, i4}
TheCalls ==
  {a1, a2, s1, s2, s3, s4, n1, n2, m1, m2, b1, b2, f1, f2, g1, g2, z1}
TheActors == TheCalls \cup TheInvalidators
TheFunc == [a \in TheActors |->
  CASE a \in {a1, a2, i1} -> "fetch"
    [] a \in {s1, s2, s3, s4, n2, i2, i3} -> "load"
    [] a = n1 -> "outer" [] a \in {m1, m2} -> "get" [] a = i4 -> "m1.get"
    [] a \in {b1, b2} -> "bound" [] a \in {f1, f2} -> "read"
    [] a = g1 -> "inner1" [] a = g2 -> "inner2" [] OTHER -> "inner3"]
TheName == [f \in {TheFunc[a] : a \in TheActors} |->
  CASE f \in {"inner1", "inner2", "inner3"} -> "make.inner"
    [] f = "m1.get" -> "get" [] OTHER -> f]
TheArgs == [a \in TheActors |->
  CASE a \in {m1, f1} -> <<"x", "one">> [] a \in {m2, f2} -> <<"y", "one">>
    [] a = b2 -> <<"two">> [] OTHER -> <<"one">>]
TheKwargs == [a \in TheActors |-> "none"]
TheParent == [c \in TheCalls |->
  CASE c = n2 -> n1 [] c = s4 -> a2 [] OTHER -> Nobody]
TheOnLoop == {a1, a2, s3, s4, i3}
TheTtl == [f \in Funcs |-> IF f \in {"fetch", "read"} THEN 0 ELSE 1]
TheScenarios ==
  {{a1, a2, s4}, {a1, a2, i1}, {s1, s2, i2}, {s1, s2, s3}, {s1, i2, i3},
   {n1, n2, s1}, {n1, n2, s3}, {m1, m2, i4}, {b1, b2}, {f1, f2}, {g1, g2, z1}}
=============================================================================
