--------------------------- MODULE MCConnections ---------------------------
EXTENDS Connections

Four == 1..4

(* Every graph on the names 1..4 in which nobody is alone.                 *)
Graphs4 ==
  { g \in SUBSET {m \in Four \X Four : m[1] < m[2]} :
      \A p \in Four : \E m \in g : p \in {m[1], m[2]} }

Reversed(m) == <<m[2], m[1]>>

(* Who accepts: always the smaller name, always the larger one, or a       *)
(* mixture in which triangles are not cyclic and one in which they are.    *)
Directed(g) ==
  { g,
    {Reversed(m) : m \in g},
    {IF (m[1] + m[2]) % 2 = 0 THEN Reversed(m) ELSE m : m \in g},
    {IF m = <<1, 3>> \/ m = <<2, 4>> THEN Reversed(m) ELSE m : m \in g} }

Setup(ms, remeshing, waits, max) ==
  [m2ns |-> ms, allowsRemeshing |-> remeshing, waitInFinalize |-> waits,
   maxTimeWindows |-> max]

(* Remeshing is only configured for a parallel coupling of two.            *)
AnyGraph ==
  {Setup(ms, FALSE, TRUE, 1) : ms \in UNION {Directed(g) : g \in Graphs4}}
Pair ==
  {Setup(ms, TRUE, w, 3) : ms \in {{<<1, 2>>}, {<<2, 1>>}}, w \in BOOLEAN}
AnySetup == AnyGraph \cup Pair

(* Couplings of 1 with 2 and of 3 with 4, and an m2n between 2 and 3.      *)
Chain == {Setup({<<1, 2>>, <<2, 3>>, <<3, 4>>}, TRUE, FALSE, 2)}
============================================================================
