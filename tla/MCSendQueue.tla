---------------------------- MODULE MCSendQueue ----------------------------
(***************************************************************************)
(* Ranks a1, a2 of one participant and b1, b2 of the other.  Data flows    *)
(* from two ranks to two ranks that handle each other in opposite orders,  *)
(* and both ways between two ranks and one.                                *)
(***************************************************************************)
EXTENDS SendQueue

S == "sending"
R == "receiving"

\* a1 and a2 send to b1 and b2 in opposite orders.
OneWay ==
  [mappings : {"a1" :> <<"b1", "b2">> @@ "a2" :> <<"b2", "b1">> @@
               "b1" :> <<"a1", "a2">> @@ "b2" :> <<"a1", "a2">>},
   calls : {"a1" :> <<S>> @@ "a2" :> <<S>> @@ "b1" :> <<R>> @@ "b2" :> <<R>>},
   first : {{"a1", "a2"}}, collective : {FALSE}, pieces : {2}]

\* Both ways, one participant after the other or both sending first; the ranks of a
\* participant wait for each other before each call, or each goes on at its own pace.
BothWays ==
  [mappings : {"a1" :> <<"b1">> @@ "a2" :> <<"b1">> @@ "b1" :> <<"a1", "a2">>},
   calls : {"a1" :> <<S, R, S>> @@ "a2" :> <<S, R, S>> @@ "b1" :> <<R, S, R>>,
            "a1" :> <<S, R, S>> @@ "a2" :> <<S, R, S>> @@ "b1" :> <<S, R, R>>,
            "a1" :> <<R, R>> @@ "a2" :> <<R, R>> @@ "b1" :> <<S, S>>},
   first : {{"a1", "a2"}}, collective : BOOLEAN, pieces : {2}]

TwoByTwo == OneWay \cup BothWays
============================================================================
