----------------------------- MODULE MCComposition -----------------------------
(***************************************************************************)
(* The networks of participants that TLC checks: those of the integration  *)
(* tests three-solvers, compositional, circular, multi-coupling and        *)
(* mixed-time-window-sizes, in all choices of who is first and how the     *)
(* schemes exchange.                                                       *)
(***************************************************************************)
EXTENDS Composition, FiniteSets

None == -1

BothWays(p, q) == {<<p, q>>, <<q, p>>}

Bi(serial, implicit, first, second, size, windows, initialize) ==
  [serial |-> serial, implicit |-> implicit, firsts |-> {first}, second |-> second,
   size |-> size, maxTimeWindows |-> windows, maxIterations |-> 2,
   sends |-> BothWays(first, second),
   initializes |-> IF initialize THEN BothWays(first, second) ELSE {}]

Network(names, schemes, synchronous) ==
  [names |-> names, schemes |-> schemes, maxTime |-> None, synchronous |-> synchronous]

\* B is coupled explicitly with A and in any way with C.
Chain(c, size) ==
  <<IF c.firstA THEN Bi(c.serial1, FALSE, "A", "B", size, 2 \div size, c.initialize)
    ELSE Bi(c.serial1, FALSE, "B", "A", size, 2 \div size, c.initialize),
    IF c.firstB THEN Bi(c.serial2, c.implicit, "B", "C", 1, 2, c.initialize)
    ELSE Bi(c.serial2, c.implicit, "C", "B", 1, 2, c.initialize)>>

Chained == [serial1 : BOOLEAN, serial2 : BOOLEAN, implicit : BOOLEAN,
            firstA : BOOLEAN, firstB : BOOLEAN, initialize : BOOLEAN]

ABC == <<"A", "B", "C">>

\* Windows of the same size; explicit ones of twice the size; and the explicit
\* schemes added in the other order
Chains ==
  {Network(ABC, Chain(c, 1), sync) : c \in {d \in Chained : d.initialize}, sync \in BOOLEAN}
    \cup {Network(ABC, Chain(c, 1), FALSE) : c \in {d \in Chained : ~d.initialize /\ d.implicit}}
    \cup {Network(ABC, Chain(c, 2), FALSE) : c \in {d \in Chained : ~d.initialize}}
    \cup {Network(ABC, Reverse(Chain(c, 1)), FALSE) : c \in {d \in Chained : ~d.implicit /\ d.initialize}}

\* A multi coupling among A (the controller), B and C that all exchange data,
\* with an explicit scheme between C and D
Multi(controller, others, sends) ==
  [serial |-> FALSE, implicit |-> TRUE, firsts |-> others, second |-> controller,
   size |-> 1, maxTimeWindows |-> 2, maxIterations |-> 2, sends |-> sends,
   initializes |-> {<<CHOOSE p \in others : TRUE, controller>>}]

AllPairs(S) == {<<p, q>> \in S \X S : p # q}

Multis ==
  {Network(<<"A", "B", "C", "D">>,
           <<Multi("A", {"B", "C"}, AllPairs({"A", "B", "C"})),
             Bi(s, FALSE, "C", "D", 1, 2, s)>>, FALSE) : s \in BOOLEAN}

OneWay(first, second, from) ==
  [Bi(TRUE, FALSE, first, second, 1, 2, FALSE) EXCEPT
     !.sends = {<<from, IF from = first THEN second ELSE first>>}]

\* tests/serial/circular/Explicit
Circular ==
  Network(ABC, <<OneWay("A", "B", "A"), OneWay("B", "C", "B"), OneWay("A", "C", "C")>>, FALSE)

\* tests/serial/compositional/FiveParticipants
Muscles ==
  Network(<<"M1", "M1SM", "M2", "M2SM", "Tendon">>,
    <<OneWay("M1", "M2SM", "M2SM"), OneWay("M2", "M1SM", "M1SM"),
      Bi(TRUE, FALSE, "M1", "M1SM", 1, 2, FALSE), Bi(TRUE, FALSE, "M2", "M2SM", 1, 2, FALSE),
      [Multi("Tendon", {"M1SM", "M2SM"},
             BothWays("M1SM", "Tendon") \cup BothWays("M2SM", "Tendon")) EXCEPT
         !.maxIterations = 1, !.initializes = {}]>>, FALSE)

\* tests/serial/mixed-time-window-sizes: windows of 2 with Left, of 3 with Right
MixedSizes(implicit) ==
  {[names |-> <<"Center", "Left", "Right">>, synchronous |-> FALSE, maxTime |-> 6,
    schemes |->
      <<[Bi(s1, FALSE, "Center", "Left", 2, None, FALSE) EXCEPT !.sends = {<<"Left", "Center">>}],
        Bi(s2, implicit, "Center", "Right", 3, None, FALSE)>>] :
     s1 \in BOOLEAN, s2 \in BOOLEAN}

AllNetworks == Chains \cup Multis \cup {Circular, Muscles} \cup MixedSizes(FALSE)

MixedImplicit == MixedSizes(TRUE)
================================================================================
