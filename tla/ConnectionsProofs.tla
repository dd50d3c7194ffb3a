--------------------------- MODULE ConnectionsProofs ---------------------------
(***************************************************************************)
(* Theorems about Connections, for every number of participants and every  *)
(* graph of m2ns between them.  Without remeshing a participant connects   *)
(* its primary ranks, connects the meshes, computes, and closes, and two   *)
(* partners are never further apart than one question and its answer.      *)
(***************************************************************************)
EXTENDS Connections, TLAPS

--------------------------------------------------------------------------------
(* The inductive invariant.                                                *)

(* The loops in which partners wait for each other, without remeshing.     *)
Meetings ==
  {"connectPrimaries", "connectSecondaries"}
    \cup IF config.waitInFinalize THEN {"closeAll"} ELSE {}

Later(ph) ==
  CASE ph = "connectPrimaries" -> {"connectSecondaries", "coupling", "closeAll", "finalized"}
    [] ph = "connectSecondaries" -> {"coupling", "closeAll", "finalized"}
    [] OTHER -> {"finalized"}

(* p is done with its visit to q in loop ph.                               *)
Past(p, q, ph) == phase[p] \in Later(ph) \/ (phase[p] = ph /\ q \in visited[p])

(* p is in the middle of it.                                               *)
Waits(p, q, ph) == phase[p] = ph /\ busy[p] /\ At(p, q)

(* The requesting side r has asked the accepting side a, or has its answer *)
(* before it: as a socket that is called or accepted, or as a ping or pong.*)
Asked(ph, a, r) ==
  IF ph = "closeAll" THEN wire[<<r, a>>] # <<>> ELSE <<ph, a, r>> \in calling
HasAnswer(ph, a, r) ==
  IF ph = "closeAll" THEN wire[<<a, r>>] # <<>> ELSE <<ph, a, r>> \in accepted

(* A visit: r asks, a answers and is done with it, and then r is.          *)
Pair(ph, a, r) ==
  /\ Asked(ph, a, r) => Waits(r, a, ph) /\ ~Past(a, r, ph)
  /\ HasAnswer(ph, a, r) <=> Past(a, r, ph) /\ ~Past(r, a, ph)
  /\ HasAnswer(ph, a, r) => Waits(r, a, ph)
  /\ Past(r, a, ph) => Past(a, r, ph)

(* What a participant is connected to, by the loop it is in.               *)
Local(p) ==
  /\ phase[p] \in {"connectPrimaries", "connectSecondaries", "coupling", "closeAll", "finalized"}
  /\ ~swarm[p]
  /\ visited[p] \subseteq Partners(p)
  /\ phase[p] = "connectPrimaries" => primary[p] = visited[p] /\ secondary[p] = {}
  /\ phase[p] = "connectSecondaries" => primary[p] = Partners(p) /\ secondary[p] = visited[p]
  /\ phase[p] = "coupling" =>
       primary[p] = Partners(p) /\ secondary[p] = Partners(p) /\ visited[p] = {}
  /\ phase[p] = "closeAll" =>
       primary[p] = Partners(p) \ visited[p] /\ secondary[p] = Partners(p) \ visited[p]
  /\ phase[p] = "finalized" => visited[p] = {}
  /\ busy[p] => InLoop(p) /\ Remaining(p) # {}

(* Only the ping and the pong of closing are on the way.                   *)
Wires ==
  \A p, q \in Participants : wire[<<p, q>>] # <<>> =>
    /\ config.waitInFinalize
    /\ q \in Partners(p)
    /\ wire[<<p, q>>] =
         <<[kind |-> IF IsRequesting(p, q) THEN "ping" ELSE "pong", value |-> FALSE]>>

Orderly ==
  /\ \A p \in Participants : Local(p)
  /\ Wires
  /\ \A m \in config.m2ns : \A ph \in Meetings : Pair(ph, m[1], m[2])

(* A window is left to compute until the coupling ends.                    *)
WindowsLeft ==
  \A p \in Participants : Partners(p) # {} =>
    (phase[p] \notin {"closeAll", "finalized"} <=> windows[p] < config.maxTimeWindows)

(* A name without an m2n does nothing.                                     *)
NamesOnly == \A p \in Participants : Partners(p) = {} => phase[p] = "finalized"

IInv == TypeOK /\ NamesOnly /\ WindowsLeft /\ (~config.allowsRemeshing => Orderly)

--------------------------------------------------------------------------------
(* The configuration.                                                      *)

(* The two sides of an m2n.                                                *)
LEMMA Sides ==
  ASSUME config \in Configurations, NEW m \in config.m2ns
  PROVE  /\ m[1] \in Participants /\ m[2] \in Participants /\ m[1] # m[2]
         /\ m = <<m[1], m[2]>>
         /\ m[1] \in Partners(m[2]) /\ m[2] \in Partners(m[1])
         /\ IsRequesting(m[2], m[1]) /\ ~IsRequesting(m[1], m[2])
<1>1. m \in Participants \X Participants
  BY ConfigurationsAssumption
<1>2. m[1] # m[2] /\ <<m[2], m[1]>> \notin config.m2ns
  BY ConfigurationsAssumption
<1> QED
  BY <1>1, <1>2 DEF Partners, IsRequesting

(* A partner is the other side of an m2n.                                  *)
LEMMA PartnerSides ==
  ASSUME config \in Configurations, NEW p \in Participants, NEW q \in Partners(p)
  PROVE  /\ q \in Participants /\ p # q /\ p \in Partners(q)
         /\ IsRequesting(p, q) => <<q, p>> \in config.m2ns /\ ~IsRequesting(q, p)
         /\ ~IsRequesting(p, q) => <<p, q>> \in config.m2ns /\ IsRequesting(q, p)
<1>1. q \in Participants /\ (<<p, q>> \in config.m2ns \/ <<q, p>> \in config.m2ns)
  BY DEF Partners
<1>2. CASE <<p, q>> \in config.m2ns
  BY <1>1, <1>2, Sides DEF Partners, IsRequesting
<1>3. CASE <<q, p>> \in config.m2ns
  BY <1>1, <1>3, Sides DEF Partners, IsRequesting
<1> QED
  BY <1>1, <1>2, <1>3

(* A loop is at one partner at a time.                                     *)
LEMMA OneAtATime ==
  ASSUME NEW p \in Participants, NEW q, NEW r, At(p, q), At(p, r)
  PROVE  q = r
<1>1. q \in Nat /\ r \in Nat /\ q <= r /\ r <= q
  BY ParticipantsAssumption DEF At, Remaining, Partners
<1> QED
  BY <1>1

(* Without remeshing a loop goes on with the partners not yet visited.     *)
LEMMA RemainingOf ==
  ASSUME NEW p \in Participants, Local(p), InLoop(p)
  PROVE  Remaining(p) = Partners(p) \ visited[p]
<1>1. CASE phase[p] = "connectPrimaries"
  BY <1>1 DEF Local, Remaining, Skipped, Closing
<1>2. CASE phase[p] = "connectSecondaries"
  BY <1>2 DEF Local, Remaining, Skipped, Closing
<1>3. CASE phase[p] = "closeAll"
  <2>1. Skipped(p) = Participants \ primary[p] /\ primary[p] = Partners(p) \ visited[p]
    BY <1>3 DEF Local, Skipped, Closing
  <2> QED
    BY <2>1 DEF Remaining, Partners
<1> QED
  BY <1>1, <1>2, <1>3 DEF Local, InLoop, Connecting, Closing

--------------------------------------------------------------------------------
LEMMA InitInv == Init => IInv
<1> SUFFICES ASSUME Init PROVE IInv
  OBVIOUS
<1>1. config \in Configurations /\ config.maxTimeWindows \in Nat \ {0}
  BY ConfigurationsAssumption DEF Init
<1>2. TypeOK
  BY <1>1 DEF Init, TypeOK, Phases, Connecting, Closing, Lines, Messages
<1>3. WindowsLeft
  BY <1>1 DEF Init, WindowsLeft
<1>4. ASSUME NEW p \in Participants PROVE Local(p)
  BY DEF Init, Local
<1>5. Wires
  BY DEF Init, Wires
<1>6. ASSUME NEW m \in config.m2ns, NEW ph \in Meetings PROVE Pair(ph, m[1], m[2])
  <2>1. /\ m[1] \in Participants /\ m[2] \in Participants
        /\ phase[m[1]] = "connectPrimaries" /\ phase[m[2]] = "connectPrimaries"
    BY <1>1, Sides DEF Init
  <2>2. ~Past(m[1], m[2], ph) /\ ~Past(m[2], m[1], ph)
    BY <2>1 DEF Init, Past, Later, Meetings
  <2>3. ~Asked(ph, m[1], m[2]) /\ ~HasAnswer(ph, m[1], m[2])
    BY <2>1 DEF Init, Asked, HasAnswer
  <2> QED
    BY <2>2, <2>3 DEF Pair
<1>7. NamesOnly
  BY DEF Init, NamesOnly
<1> QED
  BY <1>2, <1>3, <1>4, <1>5, <1>6, <1>7 DEF IInv, Orderly

--------------------------------------------------------------------------------
(* The types.                                                              *)

LEMMA LineType ==
  ASSUME TypeOK, NEW p \in Participants, NEW q \in Partners(p)
  PROVE  Line(p, q) \in Lines
  BY DEF TypeOK, Partners, Line, Lines

LEMMA MessageType ==
  ASSUME TypeOK, NEW p \in Participants, NEW q
  PROVE  Says(p, q) \in Messages
  BY DEF TypeOK, Says, Messages

LEMMA VisitTypes ==
  ASSUME TypeOK, NEW p \in Participants, Visit(p)
  PROVE  TypeOK'
<1>1. PICK q \in Partners(p) :
        /\ At(p, q)
        /\ \/ Publish(p, q) \/ Call(p, q) \/ Accept(p, q) \/ Complete(p, q)
           \/ Say(p, q) \/ Reply(p, q) \/ Hear(p, q) \/ CloseSilently(p, q)
  BY DEF Visit
<1>2. /\ q \in Participants /\ Line(p, q) \in Lines /\ Says(p, q) \in Messages
      /\ <<p, q>> \in Participants \X Participants /\ <<q, p>> \in Participants \X Participants
  BY LineType, MessageType DEF Partners
<1>3. /\ config' \in Configurations /\ phase' \in [Participants -> Phases]
      /\ request' \in [Participants -> BOOLEAN] /\ sweeps' \in [Participants -> Nat]
      /\ windows' \in [Participants -> 0..config'.maxTimeWindows]
  BY DEF Visit, TypeOK
<1>4. ASSUME Connected(p, q)
      PROVE  /\ visited' \in [Participants -> SUBSET Participants]
             /\ busy' \in [Participants -> BOOLEAN]
             /\ primary' \in [Participants -> SUBSET Participants]
             /\ secondary' \in [Participants -> SUBSET Participants]
  <2>1. /\ visited \in [Participants -> SUBSET Participants] /\ busy \in [Participants -> BOOLEAN]
        /\ primary \in [Participants -> SUBSET Participants]
        /\ secondary \in [Participants -> SUBSET Participants]
    BY DEF TypeOK
  <2>2. /\ visited' \in [Participants -> SUBSET Participants] /\ busy' \in [Participants -> BOOLEAN]
    BY <1>2, <1>4, <2>1 DEF Connected
  <2>3. /\ primary' \in [Participants -> SUBSET Participants]
        /\ secondary' \in [Participants -> SUBSET Participants]
    BY <1>2, <1>4, <2>1 DEF Connected
  <2> QED
    BY <2>2, <2>3
<1>5. ASSUME NEW value \in BOOLEAN, Parted(p, q, value)
      PROVE  /\ visited' \in [Participants -> SUBSET Participants]
             /\ busy' \in [Participants -> BOOLEAN]
             /\ swarm' \in [Participants -> BOOLEAN]
             /\ primary' \in [Participants -> SUBSET Participants]
             /\ secondary' \in [Participants -> SUBSET Participants]
             /\ address' \subseteq Lines /\ calling' \subseteq Lines /\ accepted' \subseteq Lines
  BY <1>2, <1>5 DEF TypeOK, Parted
<1>6. CASE Publish(p, q)
  BY <1>2, <1>3, <1>6 DEF TypeOK, Publish
<1>7. CASE Call(p, q)
  BY <1>2, <1>3, <1>7 DEF TypeOK, Call
<1>8. CASE Accept(p, q)
  BY <1>2, <1>3, <1>4, <1>8 DEF TypeOK, Accept
<1>9. CASE Complete(p, q)
  BY <1>2, <1>3, <1>4, <1>9 DEF TypeOK, Complete
<1>10. CASE Say(p, q)
  <2>1. wire' \in [Participants \X Participants -> Seq(Messages)]
    BY <1>2, <1>10 DEF TypeOK, Say
  <2> QED
    BY <1>2, <1>3, <1>10, <2>1 DEF TypeOK, Say
<1>11. ASSUME wire[<<q, p>>] # <<>>
       PROVE  Head(wire[<<q, p>>]).value \in BOOLEAN /\ Tail(wire[<<q, p>>]) \in Seq(Messages)
  <2>1. wire[<<q, p>>] \in Seq(Messages)
    BY <1>2 DEF TypeOK
  <2>2. Head(wire[<<q, p>>]) \in Messages
    BY <1>11, <2>1
  <2> QED
    BY <1>11, <2>1, <2>2 DEF Messages
<1>12. CASE Reply(p, q)
  <2>1. wire' \in [Participants \X Participants -> Seq(Messages)]
    <3>1. Tail(wire[<<q, p>>]) \in Seq(Messages)
      BY <1>11, <1>12 DEF Reply
    <3>2. p # q /\ wire[<<p, q>>] \in Seq(Messages)
      BY <1>2, PartnerSides DEF TypeOK
    <3>3. Append(wire[<<p, q>>], Says(p, q)) \in Seq(Messages)
      BY <1>2, <3>2
    <3>4. wire' = [wire EXCEPT ![<<q, p>>] = Tail(wire[<<q, p>>]),
                              ![<<p, q>>] = Append(wire[<<p, q>>], Says(p, q))]
      BY <1>2, <1>12, <3>2 DEF TypeOK, Reply
    <3> QED
      BY <1>2, <3>1, <3>3, <3>4 DEF TypeOK
  <2> QED
    BY <1>3, <1>5, <1>11, <1>12, <2>1 DEF TypeOK, Reply
<1>13. CASE Hear(p, q)
  <2>1. wire' \in [Participants \X Participants -> Seq(Messages)]
    BY <1>2, <1>11, <1>13 DEF TypeOK, Hear
  <2> QED
    BY <1>3, <1>5, <1>11, <1>13, <2>1 DEF TypeOK, Hear
<1>14. CASE CloseSilently(p, q)
  BY <1>3, <1>5, <1>14 DEF TypeOK, CloseSilently
<1> QED
  BY <1>1, <1>6, <1>7, <1>8, <1>9, <1>10, <1>12, <1>13, <1>14

LEMMA FinishWindowTypes ==
  ASSUME TypeOK, NEW p \in Participants, FinishWindow(p), config' = config,
         windows[p] < config.maxTimeWindows
  PROVE  /\ windows' \in [Participants -> 0..config.maxTimeWindows]
         /\ phase' \in [Participants -> Phases]
         /\ request' \in [Participants -> BOOLEAN] /\ swarm' \in [Participants -> BOOLEAN]
<1>1. config.maxTimeWindows \in Nat /\ windows[p] \in 0..config.maxTimeWindows
  BY ConfigurationsAssumption DEF TypeOK
<1>2. windows[p] + 1 \in 0..config.maxTimeWindows
  BY <1>1
<1> QED
  BY <1>2 DEF TypeOK, FinishWindow, Phases, Closing

LEMMA EndLoopTypes ==
  ASSUME TypeOK, WindowsLeft, NEW p \in Participants, EndLoop(p), Partners(p) # {}
  PROVE  TypeOK'
<1>1. /\ config' = config /\ config \in Configurations
      /\ visited' \in [Participants -> SUBSET Participants]
      /\ busy' \in [Participants -> BOOLEAN]
      /\ primary' \in [Participants -> SUBSET Participants]
      /\ secondary' \in [Participants -> SUBSET Participants]
      /\ address' \subseteq Lines /\ calling' \subseteq Lines /\ accepted' \subseteq Lines
      /\ wire' \in [Participants \X Participants -> Seq(Messages)]
      /\ sweeps' \in [Participants -> Nat]
  BY DEF TypeOK, EndLoop
<1>2. ASSUME NEW next \in Phases, GoTo(p, next)
      PROVE  /\ windows' \in [Participants -> 0..config.maxTimeWindows]
             /\ phase' \in [Participants -> Phases]
             /\ request' \in [Participants -> BOOLEAN] /\ swarm' \in [Participants -> BOOLEAN]
  BY <1>2 DEF TypeOK, GoTo
<1>3. CASE FinishWindow(p)
  <2>1. phase[p] \in {"connectSecondaries", "handshake"}
    BY <1>3 DEF EndLoop, InLoop, Connecting, Closing, GoTo, FinishWindow, TypeOK
  <2>2. windows[p] < config.maxTimeWindows
    BY <2>1 DEF WindowsLeft
  <2> QED
    BY <1>1, <1>3, <2>2, FinishWindowTypes DEF TypeOK
<1>4. CASE ~FinishWindow(p)
  <2>1. \E next \in Phases : GoTo(p, next)
    BY <1>4 DEF EndLoop, InLoop, Connecting, Closing, Phases
  <2> QED
    BY <1>1, <1>2, <2>1 DEF TypeOK
<1> QED
  BY <1>3, <1>4

LEMMA EndWindowTypes ==
  ASSUME TypeOK, WindowsLeft, NEW p \in Participants, EndWindow(p), Partners(p) # {}
  PROVE  TypeOK'
<1>1. windows[p] < config.maxTimeWindows
  BY DEF EndWindow, WindowsLeft
<1>2. CASE config.allowsRemeshing
  <2>1. "handshake" \in Phases
    BY DEF Phases
  <2>2. PICK changed \in BOOLEAN :
          /\ phase' = [phase EXCEPT ![p] = "handshake"]
          /\ request' = [request EXCEPT ![p] = changed]
          /\ swarm' = [swarm EXCEPT ![p] = changed]
          /\ UNCHANGED windows
    BY <1>2 DEF EndWindow
  <2> QED
    BY <2>1, <2>2 DEF EndWindow, TypeOK, net
<1>3. CASE ~config.allowsRemeshing
  BY <1>1, <1>3, FinishWindowTypes DEF EndWindow, TypeOK, net
<1> QED
  BY <1>2, <1>3

--------------------------------------------------------------------------------
(* The windows left.                                                       *)

LEMMA FinishWindowLeaves ==
  ASSUME TypeOK, NEW p \in Participants, FinishWindow(p), windows[p] < config.maxTimeWindows
  PROVE  /\ phase'[p] \notin {"closeAll", "finalized"} <=> windows'[p] < config.maxTimeWindows
         /\ \A x \in Participants \ {p} : windows'[x] = windows[x] /\ phase'[x] = phase[x]
  BY DEF TypeOK, FinishWindow

LEMMA WindowsStep ==
  ASSUME TypeOK, WindowsLeft, NEW p \in Participants, Step(p), Partners(p) # {}
  PROVE  WindowsLeft'
<1>1. config' = config /\ \A x \in Participants : Partners(x)' = Partners(x)
  BY DEF Step, Visit, EndLoop, EndWindow, Partners
<1>2. \A x \in Participants \ {p} : windows'[x] = windows[x] /\ phase'[x] = phase[x]
  <2>1. CASE Visit(p)
    BY <2>1 DEF Visit
  <2>2. CASE EndLoop(p)
    <3>1. FinishWindow(p) \/ \E next : GoTo(p, next)
      BY <2>2 DEF EndLoop, InLoop, Connecting, Closing
    <3>2. CASE FinishWindow(p)
      BY <3>2 DEF TypeOK, FinishWindow
    <3>3. CASE \E next : GoTo(p, next)
      BY <3>3 DEF TypeOK, GoTo
    <3> QED
      BY <3>1, <3>2, <3>3
  <2>3. CASE EndWindow(p)
    <3>1. CASE config.allowsRemeshing
      <4>1. PICK changed \in BOOLEAN :
              phase' = [phase EXCEPT ![p] = "handshake"] /\ windows' = windows
        BY <2>3, <3>1 DEF EndWindow
      <4> QED
        BY <4>1 DEF TypeOK
    <3>2. CASE ~config.allowsRemeshing
      <4>1. FinishWindow(p)
        BY <2>3, <3>2 DEF EndWindow
      <4> QED
        BY <4>1 DEF TypeOK, FinishWindow
    <3> QED
      BY <3>1, <3>2
  <2> QED
    BY <2>1, <2>2, <2>3 DEF Step
<1>3. phase'[p] \notin {"closeAll", "finalized"} <=> windows'[p] < config.maxTimeWindows
  <2>1. CASE Visit(p)
    BY <2>1 DEF Visit, WindowsLeft
  <2>2. CASE EndLoop(p)
    <3>1. CASE FinishWindow(p)
      <4>1. phase[p] \in {"connectSecondaries", "handshake"}
        BY <2>2, <3>1 DEF EndLoop, InLoop, Connecting, Closing, GoTo, FinishWindow, TypeOK
      <4> QED
        BY <3>1, <4>1, FinishWindowLeaves DEF WindowsLeft
    <3>2. CASE ~FinishWindow(p)
      BY <2>2, <3>2 DEF EndLoop, InLoop, Connecting, Closing, GoTo, WindowsLeft, TypeOK
    <3> QED
      BY <3>1, <3>2
  <2>3. CASE EndWindow(p)
    <3>1. windows[p] < config.maxTimeWindows
      BY <2>3 DEF EndWindow, WindowsLeft
    <3>2. CASE config.allowsRemeshing
      BY <2>3, <3>1, <3>2 DEF EndWindow, TypeOK
    <3>3. CASE ~config.allowsRemeshing
      BY <2>3, <3>1, <3>3, FinishWindowLeaves DEF EndWindow
    <3> QED
      BY <3>2, <3>3
  <2> QED
    BY <2>1, <2>2, <2>3 DEF Step
<1> QED
  BY <1>1, <1>2, <1>3 DEF WindowsLeft

--------------------------------------------------------------------------------
(* A visit without remeshing.                                              *)

(* What is known of a pair, from either side.                              *)
LEMMA PairOf ==
  ASSUME TypeOK, Orderly, NEW p \in Participants, NEW q \in Partners(p), NEW ph \in Meetings
  PROVE  /\ q \in Participants /\ p # q /\ p \in Partners(q)
         /\ IsRequesting(p, q) => Pair(ph, q, p) /\ ~IsRequesting(q, p)
         /\ ~IsRequesting(p, q) => Pair(ph, p, q) /\ IsRequesting(q, p)
<1>1. config \in Configurations
  BY DEF TypeOK
<1>2. /\ q \in Participants /\ p # q /\ p \in Partners(q)
      /\ IsRequesting(p, q) => <<q, p>> \in config.m2ns /\ ~IsRequesting(q, p)
      /\ ~IsRequesting(p, q) => <<p, q>> \in config.m2ns /\ IsRequesting(q, p)
  BY <1>1, PartnerSides
<1>3. \A a, b : <<a, b>> \in config.m2ns => Pair(ph, a, b)
  <2> SUFFICES ASSUME NEW a, NEW b, <<a, b>> \in config.m2ns PROVE Pair(ph, a, b)
    OBVIOUS
  <2>1. Pair(ph, <<a, b>>[1], <<a, b>>[2])
    BY DEF Orderly
  <2> QED
    BY <2>1
<1> QED
  BY <1>2, <1>3

(* Where p is when it visits q.                                            *)
LEMMA Visiting ==
  ASSUME TypeOK, Orderly, NEW p \in Participants, NEW q \in Partners(p), InLoop(p), At(p, q)
  PROVE  /\ phase[p] \in {"connectPrimaries", "connectSecondaries", "closeAll"}
         /\ q \in Participants /\ p # q /\ q \notin visited[p]
         /\ Remaining(p) = Partners(p) \ visited[p]
         /\ ~Past(p, q, phase[p])
<1>1. Local(p)
  BY DEF Orderly
<1>2. phase[p] \in {"connectPrimaries", "connectSecondaries", "closeAll"}
  BY <1>1 DEF Local, InLoop, Connecting, Closing
<1>3. Remaining(p) = Partners(p) \ visited[p]
  BY <1>1, RemainingOf
<1>4. q \in Participants /\ p # q
  BY PartnerSides DEF TypeOK
<1>5. q \notin visited[p]
  BY <1>3 DEF At
<1> QED
  BY <1>2, <1>3, <1>4, <1>5 DEF Past, Later

(* What p may do at q: go on in its loop, and take or leave what lies on   *)
(* the line between the two.                                               *)
OnlyVisits(p, q) ==
  /\ config' = config /\ phase' = phase
  /\ \A x \in Participants \ {p} :
       /\ visited'[x] = visited[x] /\ busy'[x] = busy[x] /\ swarm'[x] = swarm[x]
       /\ primary'[x] = primary[x] /\ secondary'[x] = secondary[x]
  /\ \/ visited'[p] = visited[p] /\ primary'[p] = primary[p]
     \/ visited'[p] = visited[p] \cup {q} /\ ~busy'[p]
  /\ \A l : l # Line(p, q) \/ phase[p] = "closeAll" =>
       (l \in calling' <=> l \in calling) /\ (l \in accepted' <=> l \in accepted)
  /\ \A x, y \in Participants :
       phase[p] # "closeAll" \/ <<x, y>> \notin {<<p, q>>, <<q, p>>} =>
         wire'[<<x, y>>] = wire[<<x, y>>]

(* It leaves every other visit where it is.                                *)
LEMMA OtherVisits ==
  ASSUME TypeOK, Orderly, NEW p \in Participants, NEW q \in Partners(p), InLoop(p), At(p, q),
         OnlyVisits(p, q),
         NEW ph, NEW x \in Participants, NEW y \in Partners(x),
         <<x, y>> # <<p, q>> \/ ph # phase[p]
  PROVE  Past(x, y, ph)' = Past(x, y, ph) /\ Waits(x, y, ph)' = Waits(x, y, ph)
<1>1. \A z \in Participants : Partners(z)' = Partners(z)
  BY DEF OnlyVisits, Partners
<1>2. Later(ph)' = Later(ph) /\ phase'[x] = phase[x]
  BY DEF OnlyVisits, Later
<1>3. CASE x # p
  <2>1. visited'[x] = visited[x] /\ busy'[x] = busy[x] /\ primary'[x] = primary[x]
    BY <1>3 DEF OnlyVisits
  <2>2. Remaining(x)' = Remaining(x)
    BY <1>1, <1>2, <2>1 DEF Remaining, Skipped
  <2>3. At(x, y)' = At(x, y)
    BY <2>2 DEF At
  <2> QED
    BY <1>2, <2>1, <2>3 DEF Past, Waits
<1>4. CASE x = p /\ ph # phase[p]
  BY <1>2, <1>4 DEF Past, Waits
<1>5. CASE x = p /\ y # q
  <2>1. y \in visited'[p] <=> y \in visited[p]
    BY <1>5 DEF OnlyVisits
  <2>2. Past(x, y, ph)' = Past(x, y, ph)
    BY <1>2, <1>5, <2>1 DEF Past
  <2>3. ~At(p, y)
    BY <1>5, OneAtATime
  <2>4. ASSUME busy'[p] PROVE ~At(p, y)'
    <3>1. visited'[p] = visited[p] /\ primary'[p] = primary[p] /\ phase'[p] = phase[p]
      BY <2>4 DEF OnlyVisits
    <3>2. Remaining(p)' = Remaining(p)
      BY <1>1, <3>1 DEF Remaining, Skipped
    <3> QED
      BY <2>3, <3>2 DEF At
  <2> QED
    BY <1>5, <2>2, <2>3, <2>4 DEF Waits
<1> QED
  BY <1>3, <1>4, <1>5

LEMMA OtherPairs ==
  ASSUME TypeOK, Orderly, NEW p \in Participants, NEW q \in Partners(p), InLoop(p), At(p, q),
         OnlyVisits(p, q),
         NEW m \in config.m2ns, NEW ph \in Meetings,
         m \notin {<<p, q>>, <<q, p>>} \/ ph # phase[p]
  PROVE  Pair(ph, m[1], m[2])'
<1>1. /\ m[1] \in Participants /\ m[2] \in Participants /\ m[1] # m[2]
      /\ m = <<m[1], m[2]>> /\ m[1] \in Partners(m[2]) /\ m[2] \in Partners(m[1])
  BY Sides DEF TypeOK
<1>2. ASSUME NEW x \in Participants, NEW y \in Partners(x),
             <<x, y>> \in {<<m[1], m[2]>>, <<m[2], m[1]>>}
      PROVE  Past(x, y, ph)' = Past(x, y, ph) /\ Waits(x, y, ph)' = Waits(x, y, ph)
  <2>1. <<x, y>> # <<p, q>> \/ ph # phase[p]
    BY <1>1, <1>2
  <2> QED
    BY <2>1, OtherVisits
<1>3. Asked(ph, m[1], m[2])' = Asked(ph, m[1], m[2]) /\ HasAnswer(ph, m[1], m[2])' = HasAnswer(ph, m[1], m[2])
  <2>1. CASE ph = "closeAll"
    <3>1. phase[p] # "closeAll" \/ m \notin {<<p, q>>, <<q, p>>}
      BY <2>1
    <3>2. wire'[<<m[1], m[2]>>] = wire[<<m[1], m[2]>>] /\ wire'[<<m[2], m[1]>>] = wire[<<m[2], m[1]>>]
      BY <1>1, <3>1 DEF OnlyVisits
    <3> QED
      BY <2>1, <3>2 DEF Asked, HasAnswer
  <2>2. CASE ph # "closeAll"
    <3>1. Line(p, q) = <<phase[p], p, q>> \/ Line(p, q) = <<phase[p], q, p>>
      BY DEF Line
    <3>2. <<ph, m[1], m[2]>> # Line(p, q)
      BY <1>1, <3>1
    <3>3. /\ <<ph, m[1], m[2]>> \in calling' <=> <<ph, m[1], m[2]>> \in calling
          /\ <<ph, m[1], m[2]>> \in accepted' <=> <<ph, m[1], m[2]>> \in accepted
      BY <3>2 DEF OnlyVisits
    <3> QED
      BY <2>2, <3>3 DEF Asked, HasAnswer
  <2> QED
    BY <2>1, <2>2
<1>4. Pair(ph, m[1], m[2])
  BY DEF Orderly
<1> QED
  BY <1>1, <1>2, <1>3, <1>4 DEF Pair

(* A visit that makes a connection, or ends one.                           *)
LEMMA ConnectedLocal ==
  ASSUME TypeOK, NEW p \in Participants, Local(p), NEW q \in Partners(p), At(p, q),
         phase[p] \in Connecting, config' = config, phase' = phase, swarm' = swarm,
         Connected(p, q)
  PROVE  /\ Local(p)' /\ visited'[p] = visited[p] \cup {q} /\ ~busy'[p]
         /\ \A x \in Participants \ {p} :
              /\ visited'[x] = visited[x] /\ busy'[x] = busy[x]
              /\ primary'[x] = primary[x] /\ secondary'[x] = secondary[x]
<1>1. Partners(p)' = Partners(p)
  BY DEF Partners
<1>2. visited'[p] = visited[p] \cup {q} /\ ~busy'[p]
  BY DEF TypeOK, Connected
<1>3. /\ phase[p] = "connectPrimaries" => primary'[p] = primary[p] \cup {q} /\ secondary'[p] = secondary[p]
      /\ phase[p] = "connectSecondaries" => secondary'[p] = secondary[p] \cup {q} /\ primary'[p] = primary[p]
  BY DEF TypeOK, Connected
<1>4. \A x \in Participants \ {p} :
        /\ visited'[x] = visited[x] /\ busy'[x] = busy[x]
        /\ primary'[x] = primary[x] /\ secondary'[x] = secondary[x]
  BY DEF TypeOK, Connected
<1> QED
  BY <1>1, <1>2, <1>3, <1>4 DEF Local, Connecting

LEMMA PartedLocal ==
  ASSUME TypeOK, NEW p \in Participants, Local(p), NEW q \in Partners(p), At(p, q),
         phase[p] = "closeAll", config' = config, phase' = phase, Parted(p, q, FALSE)
  PROVE  /\ Local(p)' /\ visited'[p] = visited[p] \cup {q} /\ ~busy'[p]
         /\ \A x \in Participants \ {p} :
              /\ visited'[x] = visited[x] /\ busy'[x] = busy[x] /\ swarm'[x] = swarm[x]
              /\ primary'[x] = primary[x] /\ secondary'[x] = secondary[x]
<1>1. Partners(p)' = Partners(p)
  BY DEF Partners
<1>2. /\ visited'[p] = visited[p] \cup {q} /\ ~busy'[p] /\ swarm'[p] = swarm[p]
      /\ primary'[p] = primary[p] \ {q} /\ secondary'[p] = secondary[p] \ {q}
  BY DEF TypeOK, Parted, Closed, Closing
<1>3. \A x \in Participants \ {p} :
        /\ visited'[x] = visited[x] /\ busy'[x] = busy[x] /\ swarm'[x] = swarm[x]
        /\ primary'[x] = primary[x] /\ secondary'[x] = secondary[x]
  BY DEF TypeOK, Parted
<1> QED
  BY <1>1, <1>2, <1>3 DEF Local

(* A visit that begins.                                                    *)
LEMMA BegunLocal ==
  ASSUME TypeOK, NEW p \in Participants, Local(p), NEW q \in Partners(p), InLoop(p), At(p, q),
         config' = config, phase' = phase, swarm' = swarm, visited' = visited,
         primary' = primary, secondary' = secondary, busy' = [busy EXCEPT ![p] = TRUE]
  PROVE  Local(p)' /\ busy'[p] /\ At(p, q)' /\ \A x \in Participants \ {p} : busy'[x] = busy[x]
<1>1. /\ Partners(p)' = Partners(p) /\ InLoop(p)'
  BY DEF Partners, InLoop
<1>2. Remaining(p)' = Remaining(p)
  BY <1>1 DEF Remaining, Skipped
<1>3. At(p, q)' /\ Remaining(p)' # {}
  BY <1>2 DEF At
<1>4. busy'[p] /\ \A x \in Participants \ {p} : busy'[x] = busy[x]
  BY DEF TypeOK
<1> QED
  BY <1>1, <1>3, <1>4 DEF Local

(* The other participants are where they were.                             *)
LEMMA LocalFrame ==
  ASSUME NEW x \in Participants, Local(x), config' = config, phase'[x] = phase[x],
         visited'[x] = visited[x], busy'[x] = busy[x], swarm'[x] = swarm[x],
         primary'[x] = primary[x], secondary'[x] = secondary[x]
  PROVE  Local(x)'
<1>1. Partners(x)' = Partners(x) /\ InLoop(x)' = InLoop(x)
  BY DEF Partners, InLoop
<1>2. Remaining(x)' = Remaining(x)
  BY <1>1 DEF Remaining, Skipped
<1> QED
  BY <1>1, <1>2 DEF Local

(* So it is enough to look at p and at its visit to q.                     *)
LEMMA VisitKeepsOrder ==
  ASSUME TypeOK, Orderly, NEW p \in Participants, NEW q \in Partners(p), InLoop(p), At(p, q),
         OnlyVisits(p, q), Local(p)', Wires',
         \A ph \in Meetings : ph = phase[p] =>
           /\ IsRequesting(p, q) => Pair(ph, q, p)'
           /\ ~IsRequesting(p, q) => Pair(ph, p, q)'
  PROVE  Orderly'
<1>1. ASSUME NEW x \in Participants PROVE Local(x)'
  <2>1. CASE x = p
    BY <2>1
  <2>2. CASE x # p
    BY <2>2, LocalFrame DEF Orderly, OnlyVisits
  <2> QED
    BY <2>1, <2>2
<1>2. config.m2ns' = config.m2ns /\ Meetings' = Meetings
  BY DEF OnlyVisits, Meetings
<1>3. ASSUME NEW m \in config.m2ns, NEW ph \in Meetings PROVE Pair(ph, m[1], m[2])'
  <2>1. CASE m \notin {<<p, q>>, <<q, p>>} \/ ph # phase[p]
    BY <2>1, OtherPairs
  <2>2. CASE m = <<p, q>> /\ ph = phase[p]
    <3>1. ~IsRequesting(p, q)
      BY <2>2, Sides DEF TypeOK
    <3> QED
      BY <2>2, <3>1
  <2>3. CASE m = <<q, p>> /\ ph = phase[p]
    <3>1. IsRequesting(p, q)
      BY <2>3, Sides DEF TypeOK
    <3> QED
      BY <2>3, <3>1
  <2> QED
    BY <2>1, <2>2, <2>3
<1> QED
  BY <1>1, <1>2, <1>3 DEF Orderly

(* The requesting side asks.                                               *)
LEMMA Asking ==
  ASSUME TypeOK, Orderly, NEW p \in Participants, NEW q \in Partners(p), InLoop(p), At(p, q),
         OnlyVisits(p, q), NEW ph \in Meetings, ph = phase[p], IsRequesting(p, q), ~busy[p], visited'[p] = visited[p],
         busy'[p], At(p, q)', Asked(ph, q, p)',
         HasAnswer(ph, q, p)' = HasAnswer(ph, q, p)
  PROVE  Pair(ph, q, p)'
<1>1. Pair(ph, q, p) /\ q \in Participants /\ p # q /\ p \in Partners(q)
  BY PairOf
<1>2. ~Past(p, q, ph) /\ ~Waits(p, q, ph)
  BY Visiting DEF Waits
<1>3. ~HasAnswer(ph, q, p) /\ ~Past(q, p, ph)
  BY <1>1, <1>2 DEF Pair
<1>4. Past(q, p, ph)' = Past(q, p, ph)
  BY <1>1, OtherVisits
<1>5. phase'[p] = ph /\ Later(ph)' = Later(ph)
  BY DEF OnlyVisits, Later
<1>6. ~Past(p, q, ph)' /\ Waits(p, q, ph)'
  BY <1>2, <1>5 DEF Past, Waits
<1> QED
  BY <1>3, <1>4, <1>6 DEF Pair

(* The accepting side answers and is done.                                 *)
LEMMA Answering ==
  ASSUME TypeOK, Orderly, NEW p \in Participants, NEW q \in Partners(p), InLoop(p), At(p, q),
         OnlyVisits(p, q), NEW ph \in Meetings, ph = phase[p], ~IsRequesting(p, q), visited'[p] = visited[p] \cup {q},
         Asked(ph, p, q), ~Asked(ph, p, q)',
         HasAnswer(ph, p, q)'
  PROVE  Pair(ph, p, q)'
<1>1. Pair(ph, p, q) /\ q \in Participants /\ p # q /\ p \in Partners(q)
  BY PairOf
<1>2. Waits(q, p, ph) /\ ~Past(p, q, ph) /\ ~Past(q, p, ph)
  BY <1>1 DEF Pair
<1>3. Past(q, p, ph)' = Past(q, p, ph) /\ Waits(q, p, ph)' = Waits(q, p, ph)
  BY <1>1, OtherVisits
<1>4. Past(p, q, ph)'
  BY DEF Past, OnlyVisits
<1> QED
  BY <1>2, <1>3, <1>4 DEF Pair

(* The requesting side takes the answer and is done.                       *)
LEMMA Taking ==
  ASSUME TypeOK, Orderly, NEW p \in Participants, NEW q \in Partners(p), InLoop(p), At(p, q),
         OnlyVisits(p, q), NEW ph \in Meetings, ph = phase[p], IsRequesting(p, q), visited'[p] = visited[p] \cup {q},
         HasAnswer(ph, q, p), ~HasAnswer(ph, q, p)',
         Asked(ph, q, p)' = Asked(ph, q, p)
  PROVE  Pair(ph, q, p)'
<1>1. Pair(ph, q, p) /\ q \in Participants /\ p # q /\ p \in Partners(q)
  BY PairOf
<1>2. Past(q, p, ph) /\ ~Asked(ph, q, p)
  BY <1>1 DEF Pair
<1>3. Past(q, p, ph)' = Past(q, p, ph)
  BY <1>1, OtherVisits
<1>4. Past(p, q, ph)'
  BY DEF Past, OnlyVisits
<1> QED
  BY <1>2, <1>3, <1>4 DEF Pair

--------------------------------------------------------------------------------
(* The visits one by one.                                                  *)

LEMMA WiresFrame ==
  ASSUME Wires, config' = config, wire' = wire
  PROVE  Wires'
  BY DEF Wires, Partners, IsRequesting

(* The loop p is in is one in which partners wait for each other.          *)
LEMMA MeetingOf ==
  ASSUME TypeOK, Orderly, NEW p \in Participants, NEW q \in Partners(p), InLoop(p), At(p, q)
  PROVE  /\ phase[p] \in Connecting => phase[p] \in Meetings /\ phase[p] # "closeAll"
         /\ Talking(p) => phase[p] = "closeAll" /\ phase[p] \in Meetings
         /\ Line(p, q) = IF IsRequesting(p, q) THEN <<phase[p], q, p>> ELSE <<phase[p], p, q>>
  BY Visiting DEF Connecting, Closing, Meetings, Talking, Line

LEMMA PublishOrderly ==
  ASSUME TypeOK, Orderly, NEW p \in Participants, NEW q \in Partners(p), InLoop(p), At(p, q),
         Publish(p, q), config' = config, phase' = phase
  PROVE  Orderly'
<1>1. /\ phase[p] \in Meetings /\ phase[p] # "closeAll" /\ q \in Participants /\ p # q
      /\ p \in Partners(q)
  BY MeetingOf, PartnerSides DEF Publish, TypeOK
<1>2. Local(p)' /\ \A x \in Participants \ {p} : busy'[x] = busy[x]
  BY BegunLocal DEF Publish, Orderly
<1>3. OnlyVisits(p, q)
  BY <1>2 DEF OnlyVisits, Publish
<1>4. ASSUME NEW ph \in Meetings, ph = phase[p] PROVE Pair(ph, p, q)'
  <2>1. Pair(ph, p, q)
    BY PairOf DEF Publish
  <2>2. Past(q, p, ph)' = Past(q, p, ph) /\ Waits(q, p, ph)' = Waits(q, p, ph)
    BY <1>1, <1>3, OtherVisits
  <2>3. Past(p, q, ph)' = Past(p, q, ph)
    BY DEF Past, Later, Publish
  <2>4. Asked(ph, p, q)' = Asked(ph, p, q) /\ HasAnswer(ph, p, q)' = HasAnswer(ph, p, q)
    BY DEF Asked, HasAnswer, Publish
  <2> QED
    BY <2>1, <2>2, <2>3, <2>4 DEF Pair
<1>5. Wires'
  BY WiresFrame DEF Orderly, Publish
<1> QED
  BY <1>2, <1>3, <1>4, <1>5, VisitKeepsOrder DEF Publish

LEMMA CallOrderly ==
  ASSUME TypeOK, Orderly, NEW p \in Participants, NEW q \in Partners(p), InLoop(p), At(p, q),
         Call(p, q), config' = config, phase' = phase
  PROVE  Orderly'
<1>1. /\ phase[p] \in Meetings /\ phase[p] # "closeAll"
      /\ IsRequesting(p, q) /\ Line(p, q) = <<phase[p], q, p>>
  BY MeetingOf DEF Call
<1>2. /\ Local(p)' /\ busy'[p] /\ At(p, q)'
      /\ \A x \in Participants \ {p} : busy'[x] = busy[x]
  BY BegunLocal DEF Call, Orderly
<1>3. OnlyVisits(p, q)
  <2>1. \A l : l # Line(p, q) => (l \in calling' <=> l \in calling) /\ (l \in accepted' <=> l \in accepted)
    BY DEF Call
  <2>2. swarm' = swarm /\ \A x, y \in Participants :
          phase[p] # "closeAll" \/ <<x, y>> \notin {<<p, q>>, <<q, p>>} => wire'[<<x, y>>] = wire[<<x, y>>]
    BY <1>1, <1>2 DEF Call
  <2>3. \/ visited'[p] = visited[p] /\ primary'[p] = primary[p]
        \/ visited'[p] = visited[p] \cup {q} /\ ~busy'[p]
    BY <1>2 DEF Call
  <2>4. \A x \in Participants \ {p} :
          /\ visited'[x] = visited[x] /\ busy'[x] = busy[x] /\ swarm'[x] = swarm[x]
          /\ primary'[x] = primary[x] /\ secondary'[x] = secondary[x]
    BY <1>2, <2>2 DEF Call
  <2> QED
    BY <1>1, <2>1, <2>2, <2>3, <2>4 DEF OnlyVisits
<1>4. ASSUME NEW ph \in Meetings, ph = phase[p] PROVE Pair(ph, q, p)'
  <2>1. Asked(ph, q, p)' /\ HasAnswer(ph, q, p)' = HasAnswer(ph, q, p)
    BY <1>1, <1>4 DEF Asked, HasAnswer, Call
  <2> QED
    BY <1>1, <1>2, <1>3, <1>4, <2>1, Asking DEF Call
<1>5. Wires'
  BY WiresFrame DEF Orderly, Call
<1> QED
  BY <1>1, <1>2, <1>3, <1>4, <1>5, VisitKeepsOrder

LEMMA AcceptOrderly ==
  ASSUME TypeOK, Orderly, NEW p \in Participants, NEW q \in Partners(p), InLoop(p), At(p, q),
         Accept(p, q), config' = config, phase' = phase
  PROVE  Orderly'
<1>1. /\ phase[p] \in Meetings /\ phase[p] # "closeAll" /\ phase[p] \in Connecting
      /\ ~IsRequesting(p, q) /\ Line(p, q) = <<phase[p], p, q>>
  BY MeetingOf DEF Accept
<1>2. /\ Local(p)' /\ visited'[p] = visited[p] \cup {q} /\ ~busy'[p]
      /\ \A x \in Participants \ {p} :
           /\ visited'[x] = visited[x] /\ busy'[x] = busy[x]
           /\ primary'[x] = primary[x] /\ secondary'[x] = secondary[x]
  BY <1>1, ConnectedLocal DEF Accept, Orderly
<1>3. OnlyVisits(p, q)
  <2>1. \A l : l # Line(p, q) => (l \in calling' <=> l \in calling) /\ (l \in accepted' <=> l \in accepted)
    BY DEF Accept
  <2>2. swarm' = swarm /\ \A x, y \in Participants :
          phase[p] # "closeAll" \/ <<x, y>> \notin {<<p, q>>, <<q, p>>} => wire'[<<x, y>>] = wire[<<x, y>>]
    BY <1>1, <1>2 DEF Accept
  <2>3. \/ visited'[p] = visited[p] /\ primary'[p] = primary[p]
        \/ visited'[p] = visited[p] \cup {q} /\ ~busy'[p]
    BY <1>2 DEF Accept
  <2>4. \A x \in Participants \ {p} :
          /\ visited'[x] = visited[x] /\ busy'[x] = busy[x] /\ swarm'[x] = swarm[x]
          /\ primary'[x] = primary[x] /\ secondary'[x] = secondary[x]
    BY <1>2, <2>2 DEF Accept
  <2> QED
    BY <1>1, <2>1, <2>2, <2>3, <2>4 DEF OnlyVisits
<1>4. ASSUME NEW ph \in Meetings, ph = phase[p] PROVE Pair(ph, p, q)'
  <2>1. Asked(ph, p, q) /\ ~Asked(ph, p, q)' /\ HasAnswer(ph, p, q)'
    BY <1>1, <1>4 DEF Asked, HasAnswer, Accept
  <2> QED
    BY <1>1, <1>2, <1>3, <1>4, <2>1, Answering
<1>5. Wires'
  BY WiresFrame DEF Orderly, Accept
<1> QED
  BY <1>1, <1>2, <1>3, <1>4, <1>5, VisitKeepsOrder

LEMMA CompleteOrderly ==
  ASSUME TypeOK, Orderly, NEW p \in Participants, NEW q \in Partners(p), InLoop(p), At(p, q),
         Complete(p, q), config' = config, phase' = phase
  PROVE  Orderly'
<1>1. /\ phase[p] \in Meetings /\ phase[p] # "closeAll" /\ phase[p] \in Connecting
      /\ IsRequesting(p, q) /\ Line(p, q) = <<phase[p], q, p>>
  BY MeetingOf DEF Complete
<1>2. /\ Local(p)' /\ visited'[p] = visited[p] \cup {q} /\ ~busy'[p]
      /\ \A x \in Participants \ {p} :
           /\ visited'[x] = visited[x] /\ busy'[x] = busy[x]
           /\ primary'[x] = primary[x] /\ secondary'[x] = secondary[x]
  BY <1>1, ConnectedLocal DEF Complete, Orderly
<1>3. OnlyVisits(p, q)
  <2>1. \A l : l # Line(p, q) => (l \in calling' <=> l \in calling) /\ (l \in accepted' <=> l \in accepted)
    BY DEF Complete
  <2>2. swarm' = swarm /\ \A x, y \in Participants :
          phase[p] # "closeAll" \/ <<x, y>> \notin {<<p, q>>, <<q, p>>} => wire'[<<x, y>>] = wire[<<x, y>>]
    BY <1>1, <1>2 DEF Complete
  <2>3. \/ visited'[p] = visited[p] /\ primary'[p] = primary[p]
        \/ visited'[p] = visited[p] \cup {q} /\ ~busy'[p]
    BY <1>2 DEF Complete
  <2>4. \A x \in Participants \ {p} :
          /\ visited'[x] = visited[x] /\ busy'[x] = busy[x] /\ swarm'[x] = swarm[x]
          /\ primary'[x] = primary[x] /\ secondary'[x] = secondary[x]
    BY <1>2, <2>2 DEF Complete
  <2> QED
    BY <1>1, <2>1, <2>2, <2>3, <2>4 DEF OnlyVisits
<1>4. ASSUME NEW ph \in Meetings, ph = phase[p] PROVE Pair(ph, q, p)'
  <2>1. /\ HasAnswer(ph, q, p) /\ ~HasAnswer(ph, q, p)'
        /\ Asked(ph, q, p)' = Asked(ph, q, p)
    BY <1>1, <1>4 DEF Asked, HasAnswer, Complete
  <2> QED
    BY <1>1, <1>2, <1>3, <1>4, <2>1, Taking
<1>5. Wires'
  BY WiresFrame DEF Orderly, Complete
<1> QED
  BY <1>1, <1>2, <1>3, <1>4, <1>5, VisitKeepsOrder

(* A ping goes out where nothing is on the way.                            *)
LEMMA SayOrderly ==
  ASSUME TypeOK, Orderly, NEW p \in Participants, NEW q \in Partners(p), InLoop(p), At(p, q),
         Say(p, q), config' = config, phase' = phase
  PROVE  Orderly'
<1>1. /\ phase[p] \in Meetings /\ phase[p] = "closeAll" /\ config.waitInFinalize
      /\ IsRequesting(p, q) /\ q \in Participants /\ p # q
  BY MeetingOf, PartnerSides DEF Say, TypeOK, Talking
<1>2. /\ Local(p)' /\ busy'[p] /\ At(p, q)'
      /\ \A x \in Participants \ {p} : busy'[x] = busy[x]
  BY BegunLocal DEF Say, Orderly
<1>3. wire[<<p, q>>] = <<>>
  <2>1. "closeAll" \in Meetings /\ <<q, p>> \in config.m2ns
    BY <1>1, PartnerSides DEF TypeOK
  <2>2. Pair("closeAll", q, p)
    BY <2>1 DEF Orderly
  <2> QED
    BY <2>2 DEF Pair, Asked, Waits, Say
<1>4. /\ wire'[<<p, q>>] = <<[kind |-> "ping", value |-> FALSE]>>
      /\ \A l \in Participants \X Participants : l # <<p, q>> => wire'[l] = wire[l]
  <2>1. Says(p, q) = [kind |-> "ping", value |-> FALSE]
    BY <1>1 DEF Says
  <2>2. Append(wire[<<p, q>>], Says(p, q)) = <<Says(p, q)>>
    BY <1>3
  <2> QED
    BY <1>1, <2>1, <2>2 DEF Say, TypeOK
<1>5. OnlyVisits(p, q)
  <2>1. calling' = calling /\ accepted' = accepted
    BY DEF Say
  <2>2. swarm' = swarm /\ \A x, y \in Participants :
          phase[p] # "closeAll" \/ <<x, y>> \notin {<<p, q>>, <<q, p>>} => wire'[<<x, y>>] = wire[<<x, y>>]
    BY <1>1, <1>2, <1>4 DEF Say
  <2>3. \/ visited'[p] = visited[p] /\ primary'[p] = primary[p]
        \/ visited'[p] = visited[p] \cup {q} /\ ~busy'[p]
    BY <1>2 DEF Say
  <2>4. \A x \in Participants \ {p} :
          /\ visited'[x] = visited[x] /\ busy'[x] = busy[x] /\ swarm'[x] = swarm[x]
          /\ primary'[x] = primary[x] /\ secondary'[x] = secondary[x]
    BY <1>2, <2>2 DEF Say
  <2> QED
    BY <1>1, <2>1, <2>2, <2>3, <2>4 DEF OnlyVisits
<1>6. ASSUME NEW ph \in Meetings, ph = phase[p] PROVE Pair(ph, q, p)'
  <2>1. Asked(ph, q, p)' /\ HasAnswer(ph, q, p)' = HasAnswer(ph, q, p)
    BY <1>1, <1>4, <1>6 DEF Asked, HasAnswer
  <2> QED
    BY <1>1, <1>2, <1>5, <1>6, <2>1, Asking DEF Say
<1>7. Wires'
  <2> SUFFICES ASSUME NEW a \in Participants, NEW b \in Participants, wire'[<<a, b>>] # <<>>
               PROVE  /\ config.waitInFinalize /\ b \in Partners(a)
                      /\ wire'[<<a, b>>] =
                           <<[kind |-> IF IsRequesting(a, b) THEN "ping" ELSE "pong", value |-> FALSE]>>
    BY <1>1 DEF Wires, Partners, IsRequesting
  <2>1. CASE <<a, b>> = <<p, q>>
    BY <1>1, <1>4, <2>1
  <2>2. CASE <<a, b>> # <<p, q>>
    <3>1. wire'[<<a, b>>] = wire[<<a, b>>]
      BY <1>4, <2>2
    <3> QED
      BY <3>1 DEF Wires, Orderly
  <2> QED
    BY <2>1, <2>2
<1> QED
  BY <1>1, <1>2, <1>5, <1>6, <1>7, VisitKeepsOrder

(* The pong takes the place of the ping.                                   *)
LEMMA ReplyOrderly ==
  ASSUME TypeOK, Orderly, NEW p \in Participants, NEW q \in Partners(p), InLoop(p), At(p, q),
         Reply(p, q), config' = config, phase' = phase
  PROVE  Orderly'
<1>1. /\ phase[p] \in Meetings /\ phase[p] = "closeAll" /\ config.waitInFinalize
      /\ ~IsRequesting(p, q) /\ IsRequesting(q, p) /\ q \in Participants /\ p # q
      /\ p \in Partners(q)
  BY MeetingOf, PartnerSides DEF Reply, TypeOK, Talking
<1>2. wire[<<q, p>>] = <<[kind |-> "ping", value |-> FALSE]>>
  BY <1>1 DEF Orderly, Wires, Reply
<1>3. wire[<<p, q>>] = <<>>
  <2>1. "closeAll" \in Meetings /\ <<p, q>> \in config.m2ns
    BY <1>1, PartnerSides DEF TypeOK
  <2>2. Pair("closeAll", p, q)
    BY <2>1 DEF Orderly
  <2>3. ~Past(p, q, "closeAll")
    BY <1>1, Visiting
  <2> QED
    BY <2>2, <2>3 DEF Pair, HasAnswer
<1>4. /\ wire'[<<q, p>>] = <<>> /\ wire'[<<p, q>>] = <<[kind |-> "pong", value |-> FALSE]>>
      /\ \A l \in Participants \X Participants : l \notin {<<p, q>>, <<q, p>>} => wire'[l] = wire[l]
  <2>1. Says(p, q) = [kind |-> "pong", value |-> FALSE]
    BY <1>1 DEF Says
  <2>2. Tail(wire[<<q, p>>]) = <<>> /\ Append(wire[<<p, q>>], Says(p, q)) = <<Says(p, q)>>
    BY <1>2, <1>3
  <2> QED
    BY <1>1, <2>1, <2>2 DEF Reply, TypeOK
<1>5. /\ Local(p)' /\ visited'[p] = visited[p] \cup {q} /\ ~busy'[p]
      /\ \A x \in Participants \ {p} :
           /\ visited'[x] = visited[x] /\ busy'[x] = busy[x] /\ swarm'[x] = swarm[x]
           /\ primary'[x] = primary[x] /\ secondary'[x] = secondary[x]
  <2>1. Head(wire[<<q, p>>]).value = FALSE
    BY <1>2
  <2>2. Parted(p, q, Head(wire[<<q, p>>]).value)
    BY DEF Reply
  <2>3. Parted(p, q, FALSE)
    BY <2>1, <2>2
  <2> QED
    BY <1>1, <2>3, PartedLocal DEF Orderly
<1>6. OnlyVisits(p, q)
  <2>1. calling' = calling /\ accepted' = accepted
    BY DEF Reply, Parted
  <2> QED
    BY <1>1, <1>4, <1>5, <2>1 DEF OnlyVisits
<1>7. ASSUME NEW ph \in Meetings, ph = phase[p] PROVE Pair(ph, p, q)'
  <2>1. Asked(ph, p, q) /\ ~Asked(ph, p, q)' /\ HasAnswer(ph, p, q)'
    BY <1>1, <1>2, <1>4, <1>7 DEF Asked, HasAnswer
  <2> QED
    BY <1>1, <1>5, <1>6, <1>7, <2>1, Answering
<1>8. Wires'
  <2> SUFFICES ASSUME NEW a \in Participants, NEW b \in Participants, wire'[<<a, b>>] # <<>>
               PROVE  /\ config.waitInFinalize /\ b \in Partners(a)
                      /\ wire'[<<a, b>>] =
                           <<[kind |-> IF IsRequesting(a, b) THEN "ping" ELSE "pong", value |-> FALSE]>>
    BY DEF Wires, Partners, IsRequesting
  <2>1. CASE <<a, b>> = <<p, q>>
    BY <1>1, <1>4, <2>1
  <2>2. CASE <<a, b>> # <<p, q>>
    <3>1. <<a, b>> # <<q, p>>
      BY <1>4
    <3>2. wire'[<<a, b>>] = wire[<<a, b>>]
      BY <1>4, <2>2, <3>1
    <3> QED
      BY <3>2 DEF Wires, Orderly
  <2> QED
    BY <2>1, <2>2
<1> QED
  BY <1>1, <1>5, <1>6, <1>7, <1>8, VisitKeepsOrder

LEMMA HearOrderly ==
  ASSUME TypeOK, Orderly, NEW p \in Participants, NEW q \in Partners(p), InLoop(p), At(p, q),
         Hear(p, q), config' = config, phase' = phase
  PROVE  Orderly'
<1>1. /\ phase[p] \in Meetings /\ phase[p] = "closeAll" /\ config.waitInFinalize
      /\ IsRequesting(p, q) /\ ~IsRequesting(q, p) /\ q \in Participants /\ p # q
      /\ p \in Partners(q)
  BY MeetingOf, PartnerSides DEF Hear, TypeOK, Talking
<1>2. wire[<<q, p>>] = <<[kind |-> "pong", value |-> FALSE]>>
  BY <1>1 DEF Orderly, Wires, Hear
<1>3. /\ wire'[<<q, p>>] = <<>>
      /\ \A l \in Participants \X Participants : l # <<q, p>> => wire'[l] = wire[l]
  <2>1. Tail(wire[<<q, p>>]) = <<>>
    BY <1>2
  <2> QED
    BY <1>1, <2>1 DEF Hear, TypeOK
<1>4. /\ Local(p)' /\ visited'[p] = visited[p] \cup {q} /\ ~busy'[p]
      /\ \A x \in Participants \ {p} :
           /\ visited'[x] = visited[x] /\ busy'[x] = busy[x] /\ swarm'[x] = swarm[x]
           /\ primary'[x] = primary[x] /\ secondary'[x] = secondary[x]
  <2>1. Head(wire[<<q, p>>]).value = FALSE
    BY <1>2
  <2>2. Parted(p, q, Head(wire[<<q, p>>]).value)
    BY DEF Hear
  <2>3. Parted(p, q, FALSE)
    BY <2>1, <2>2
  <2> QED
    BY <1>1, <2>3, PartedLocal DEF Orderly
<1>5. OnlyVisits(p, q)
  <2>1. calling' = calling /\ accepted' = accepted
    BY DEF Hear, Parted
  <2> QED
    BY <1>1, <1>3, <1>4, <2>1 DEF OnlyVisits
<1>6. ASSUME NEW ph \in Meetings, ph = phase[p] PROVE Pair(ph, q, p)'
  <2>1. /\ HasAnswer(ph, q, p) /\ ~HasAnswer(ph, q, p)'
        /\ Asked(ph, q, p)' = Asked(ph, q, p)
    BY <1>1, <1>2, <1>3, <1>6 DEF Asked, HasAnswer
  <2> QED
    BY <1>1, <1>4, <1>5, <1>6, <2>1, Taking
<1>7. Wires'
  <2> SUFFICES ASSUME NEW a \in Participants, NEW b \in Participants, wire'[<<a, b>>] # <<>>
               PROVE  /\ config.waitInFinalize /\ b \in Partners(a)
                      /\ wire'[<<a, b>>] =
                           <<[kind |-> IF IsRequesting(a, b) THEN "ping" ELSE "pong", value |-> FALSE]>>
    BY DEF Wires, Partners, IsRequesting
  <2>1. <<a, b>> # <<q, p>>
    BY <1>3
  <2>2. wire'[<<a, b>>] = wire[<<a, b>>]
    BY <1>3, <2>1
  <2> QED
    BY <2>2 DEF Wires, Orderly
<1> QED
  BY <1>1, <1>4, <1>5, <1>6, <1>7, VisitKeepsOrder

LEMMA CloseSilentlyOrderly ==
  ASSUME TypeOK, Orderly, NEW p \in Participants, NEW q \in Partners(p), InLoop(p), At(p, q),
         CloseSilently(p, q), config' = config, phase' = phase
  PROVE  Orderly'
<1>1. phase[p] = "closeAll" /\ phase[p] \notin Meetings /\ Parted(p, q, FALSE)
  BY Visiting DEF CloseSilently, Closing, Meetings
<1>2. /\ Local(p)' /\ visited'[p] = visited[p] \cup {q} /\ ~busy'[p]
      /\ \A x \in Participants \ {p} :
           /\ visited'[x] = visited[x] /\ busy'[x] = busy[x] /\ swarm'[x] = swarm[x]
           /\ primary'[x] = primary[x] /\ secondary'[x] = secondary[x]
  BY <1>1, PartedLocal DEF Orderly
<1>3. OnlyVisits(p, q)
  BY <1>1, <1>2 DEF OnlyVisits, CloseSilently, Parted
<1>4. Wires'
  BY WiresFrame DEF Orderly, CloseSilently
<1> QED
  BY <1>1, <1>2, <1>3, <1>4, VisitKeepsOrder

LEMMA VisitOrderly ==
  ASSUME TypeOK, Orderly, NEW p \in Participants, Visit(p)
  PROVE  Orderly'
<1>1. PICK q \in Partners(p) :
        /\ At(p, q)
        /\ \/ Publish(p, q) \/ Call(p, q) \/ Accept(p, q) \/ Complete(p, q)
           \/ Say(p, q) \/ Reply(p, q) \/ Hear(p, q) \/ CloseSilently(p, q)
  BY DEF Visit
<1>2. InLoop(p) /\ config' = config /\ phase' = phase
  BY DEF Visit
<1> QED
  BY <1>1, <1>2, PublishOrderly, CallOrderly, AcceptOrderly, CompleteOrderly,
     SayOrderly, ReplyOrderly, HearOrderly, CloseSilentlyOrderly

--------------------------------------------------------------------------------
(* From loop to loop.                                                      *)

(* A participant that goes on leaves its visits to all others where they are.*)
LEMMA LoopKeepsOrder ==
  ASSUME TypeOK, Orderly, NEW p \in Participants, config' = config,
         calling' = calling, accepted' = accepted, wire' = wire, busy' = busy,
         primary' = primary, secondary' = secondary,
         \A x \in Participants \ {p} :
           phase'[x] = phase[x] /\ visited'[x] = visited[x] /\ swarm'[x] = swarm[x],
         Local(p)', ~busy[p],
         \A y \in Partners(p) : \A ph \in Meetings : Past(p, y, ph)' <=> Past(p, y, ph)
  PROVE  Orderly'
<1>1. ASSUME NEW x \in Participants PROVE Local(x)'
  <2>1. CASE x = p
    BY <2>1
  <2>2. CASE x # p
    BY <2>2, LocalFrame DEF Orderly
  <2> QED
    BY <2>1, <2>2
<1>2. Wires'
  BY WiresFrame DEF Orderly
<1>3. config.m2ns' = config.m2ns /\ Meetings' = Meetings
  BY DEF Meetings
<1>4. ASSUME NEW ph \in Meetings, NEW x \in Participants, NEW y \in Partners(x)
      PROVE  Past(x, y, ph)' = Past(x, y, ph) /\ Waits(x, y, ph)' = Waits(x, y, ph)
  <2>1. CASE x = p
    <3>1. ~Waits(p, y, ph)' /\ ~Waits(p, y, ph)
      BY DEF Waits
    <3>2. Past(p, y, ph)' \in BOOLEAN /\ Past(p, y, ph) \in BOOLEAN
      BY DEF Past
    <3>3. Past(p, y, ph)' <=> Past(p, y, ph)
      BY <2>1
    <3> QED
      BY <2>1, <3>1, <3>2, <3>3 DEF Waits
  <2>2. CASE x # p
    <3>1. phase'[x] = phase[x] /\ visited'[x] = visited[x]
      BY <2>2
    <3>2. Later(ph)' = Later(ph) /\ Partners(x)' = Partners(x)
      BY DEF Later, Partners
    <3>3. Remaining(x)' = Remaining(x)
      BY <3>1, <3>2 DEF Remaining, Skipped
    <3>4. At(x, y)' = At(x, y)
      BY <3>3 DEF At
    <3> QED
      BY <3>1, <3>2, <3>4 DEF Past, Waits
  <2> QED
    BY <2>1, <2>2
<1>5. ASSUME NEW m \in config.m2ns, NEW ph \in Meetings PROVE Pair(ph, m[1], m[2])'
  <2>1. Pair(ph, m[1], m[2])
    BY DEF Orderly
  <2>2. /\ m[1] \in Participants /\ m[2] \in Participants
        /\ m[1] \in Partners(m[2]) /\ m[2] \in Partners(m[1])
    BY Sides DEF TypeOK
  <2>3. /\ Asked(ph, m[1], m[2])' = Asked(ph, m[1], m[2])
        /\ HasAnswer(ph, m[1], m[2])' = HasAnswer(ph, m[1], m[2])
    BY DEF Asked, HasAnswer
  <2> QED
    BY <1>4, <2>1, <2>2, <2>3 DEF Pair
<1> QED
  BY <1>1, <1>2, <1>3, <1>5 DEF Orderly

LEMMA EndLoopOrderly ==
  ASSUME TypeOK, Orderly, NEW p \in Participants, EndLoop(p)
  PROVE  Orderly'
<1>1. /\ Local(p) /\ InLoop(p) /\ Remaining(p) = {} /\ visited' = [visited EXCEPT ![p] = {}]
      /\ config' = config /\ busy' = busy /\ primary' = primary /\ secondary' = secondary
      /\ calling' = calling /\ accepted' = accepted /\ wire' = wire
  BY DEF EndLoop, Orderly
<1>2. /\ phase[p] \in {"connectPrimaries", "connectSecondaries", "closeAll"}
      /\ visited[p] = Partners(p) /\ ~busy[p] /\ ~swarm[p]
  BY <1>1, RemainingOf DEF Local, InLoop, Connecting, Closing
<1>3. /\ swarm' = swarm
      /\ phase' = [phase EXCEPT ![p] =
           CASE phase[p] = "connectPrimaries" -> "connectSecondaries"
             [] phase[p] = "connectSecondaries" -> "coupling"
             [] OTHER -> "finalized"]
  BY <1>2 DEF EndLoop, GoTo
<1>4. visited'[p] = {} /\ \A x \in Participants \ {p} : phase'[x] = phase[x] /\ visited'[x] = visited[x]
  BY <1>1, <1>3 DEF TypeOK
<1>5. phase'[p] = CASE phase[p] = "connectPrimaries" -> "connectSecondaries"
                    [] phase[p] = "connectSecondaries" -> "coupling"
                    [] OTHER -> "finalized"
  BY <1>3 DEF TypeOK
<1>6. Local(p)'
  <2>1. Partners(p)' = Partners(p)
    BY <1>1 DEF Partners
  <2> QED
    BY <1>1, <1>2, <1>3, <1>4, <1>5, <2>1 DEF Local
<1>7. ASSUME NEW y \in Partners(p), NEW ph \in Meetings
      PROVE  Past(p, y, ph)' <=> Past(p, y, ph)
  <2>1. ph \in {"connectPrimaries", "connectSecondaries", "closeAll"}
    BY DEF Meetings
  <2> QED
    BY <1>2, <1>4, <1>5, <2>1 DEF Past, Later
<1> QED
  BY <1>1, <1>2, <1>3, <1>4, <1>6, <1>7, LoopKeepsOrder

LEMMA EndWindowOrderly ==
  ASSUME TypeOK, Orderly, ~config.allowsRemeshing, NEW p \in Participants, EndWindow(p)
  PROVE  Orderly'
<1>1. /\ Local(p) /\ phase[p] = "coupling" /\ FinishWindow(p)
      /\ config' = config /\ visited' = visited /\ busy' = busy
      /\ primary' = primary /\ secondary' = secondary
      /\ calling' = calling /\ accepted' = accepted /\ wire' = wire
  BY DEF EndWindow, Orderly, net
<1>2. visited[p] = {} /\ ~busy[p]
  BY <1>1 DEF Local, InLoop, Connecting, Closing
<1>3. /\ phase'[p] \in {"coupling", "closeAll"} /\ ~swarm'[p]
      /\ \A x \in Participants \ {p} : phase'[x] = phase[x] /\ swarm'[x] = swarm[x]
  BY <1>1 DEF FinishWindow, TypeOK
<1>4. Local(p)'
  <2>1. Partners(p)' = Partners(p)
    BY <1>1 DEF Partners
  <2> QED
    BY <1>1, <1>2, <1>3, <2>1 DEF Local
<1>5. ASSUME NEW y \in Partners(p), NEW ph \in Meetings
      PROVE  Past(p, y, ph)' <=> Past(p, y, ph)
  <2>1. ph \in {"connectPrimaries", "connectSecondaries", "closeAll"}
    BY DEF Meetings
  <2> QED
    BY <1>1, <1>2, <1>3, <2>1 DEF Past, Later
<1> QED
  BY <1>1, <1>2, <1>3, <1>4, <1>5, LoopKeepsOrder

--------------------------------------------------------------------------------
(* The invariant holds.                                                    *)

LEMMA StepInv ==
  ASSUME IInv, NEW p \in Participants, Step(p)
  PROVE  IInv'
<1>1. TypeOK /\ WindowsLeft /\ NamesOnly
  BY DEF IInv
<1>2. Partners(p) # {}
  BY <1>1 DEF NamesOnly, Step, Visit, EndLoop, EndWindow, InLoop, Connecting, Closing
<1>3. TypeOK'
  BY <1>1, <1>2, VisitTypes, EndLoopTypes, EndWindowTypes DEF Step
<1>4. WindowsLeft'
  BY <1>1, <1>2, WindowsStep
<1>5. config' = config
  BY DEF Step, Visit, EndLoop, EndWindow
<1>6. NamesOnly'
  <2> SUFFICES ASSUME NEW x \in Participants, Partners(x)' = {} PROVE phase'[x] = "finalized"
    BY DEF NamesOnly
  <2>1. Partners(x) = {} /\ x # p
    BY <1>2, <1>5 DEF Partners
  <2>2. phase'[x] = phase[x]
    <3>1. CASE Visit(p)
      BY <3>1 DEF Visit
    <3>2. CASE EndLoop(p)
      <4>1. FinishWindow(p) \/ \E next : GoTo(p, next)
        BY <3>2 DEF EndLoop, InLoop, Connecting, Closing
      <4> QED
        BY <1>1, <2>1, <4>1 DEF TypeOK, GoTo, FinishWindow
    <3>3. CASE EndWindow(p)
      <4>1. FinishWindow(p) \/ phase' = [phase EXCEPT ![p] = "handshake"]
        BY <3>3 DEF EndWindow
      <4> QED
        BY <1>1, <2>1, <4>1 DEF TypeOK, FinishWindow
    <3> QED
      BY <3>1, <3>2, <3>3 DEF Step
  <2> QED
    BY <1>1, <2>1, <2>2 DEF NamesOnly
<1>7. ASSUME ~config.allowsRemeshing PROVE Orderly'
  <2>1. Orderly
    BY <1>7 DEF IInv
  <2> QED
    BY <1>1, <1>7, <2>1, VisitOrderly, EndLoopOrderly, EndWindowOrderly DEF Step
<1> QED
  BY <1>3, <1>4, <1>5, <1>6, <1>7 DEF IInv

LEMMA StutterInv ==
  ASSUME IInv, UNCHANGED vars
  PROVE  IInv'
<1>1. TypeOK' /\ WindowsLeft' /\ NamesOnly' /\ config' = config
  BY DEF IInv, TypeOK, WindowsLeft, NamesOnly, Partners, vars, net, Lines, Messages, Phases, Connecting, Closing
<1>2. ASSUME Orderly PROVE Orderly'
  <2>1. \A x \in Participants : Local(x)'
    BY <1>2, LocalFrame DEF Orderly, vars, net
  <2>2. Wires'
    BY <1>2, WiresFrame DEF Orderly, vars, net
  <2>3. ASSUME NEW m \in config.m2ns, NEW ph \in Meetings PROVE Pair(ph, m[1], m[2])'
    <3>1. Pair(ph, m[1], m[2])
      BY <1>2 DEF Orderly
    <3> QED
      BY <3>1 DEF Pair, Asked, HasAnswer, Past, Later, Waits, At, Remaining, Skipped, Partners, vars, net
  <2> QED
    BY <2>1, <2>2, <2>3 DEF Orderly, Meetings, vars
<1> QED
  BY <1>1, <1>2 DEF IInv

(* The inductive invariant: between two partners there is never more than  *)
(* one question of the requesting side, or its answer, whoever else the    *)
(* two are connected to.                                                   *)
THEOREM Invariance == Spec => []IInv
<1>1. IInv /\ [Next]_vars => IInv'
  BY StepInv, StutterInv DEF Next
<1> QED
  BY InitInv, <1>1, PTL DEF Spec

(* Every variable stays in its type, with and without remeshing: nobody    *)
(* computes more windows than there are.                                   *)
THEOREM TypeCorrect == Spec => []TypeOK
<1>1. IInv => TypeOK
  BY DEF IInv
<1> QED
  BY Invariance, <1>1, PTL

(* Without remeshing, whatever the graph: while a participant computes,    *)
(* every partner holds the connection of their meshes, for a partner       *)
(* cannot close before it has heard from the participant                   *)
(* (closeCommunicationChannels with wait-in-finalize).                     *)
THEOREM MeshesStayOpen == Spec => [](~config.allowsRemeshing => MeshesOpenWhileCoupling)
<1>1. IInv => (~config.allowsRemeshing => MeshesOpenWhileCoupling)
  <2> SUFFICES ASSUME TypeOK, Orderly, ~config.allowsRemeshing, NEW p \in Participants,
                      phase[p] = "coupling", config.waitInFinalize, NEW q \in Partners(p)
               PROVE  /\ q \in primary[p] \cap secondary[p]
                      /\ p \in primary[q]
                      /\ p \in secondary[q] \/ (At(q, p) /\ Line(q, p) \in accepted)
    BY DEF IInv, MeshesOpenWhileCoupling
  <2> DEFINE cs == "connectSecondaries"
  <2>1. /\ Local(p) /\ Local(q) /\ q \in Participants /\ p \in Partners(q)
        /\ cs \in Meetings /\ "closeAll" \in Meetings
    BY PartnerSides DEF TypeOK, Orderly, Meetings
  <2>2. q \in primary[p] \cap secondary[p]
    BY <2>1 DEF Local
  <2>3. Past(p, q, cs) /\ ~Past(p, q, "closeAll") /\ ~Waits(p, q, "closeAll")
    BY <2>1 DEF Past, Later, Waits
  <2>4. ~Past(q, p, "closeAll") /\ (Past(q, p, cs) \/ (Waits(q, p, cs) /\ Line(q, p) \in accepted))
    <3>1. CASE IsRequesting(p, q)
      <4>1. Pair(cs, q, p) /\ Pair("closeAll", q, p)
        BY <2>1, <3>1, PairOf
      <4> QED
        BY <2>3, <4>1 DEF Pair
    <3>2. CASE ~IsRequesting(p, q)
      <4>1. Pair(cs, p, q) /\ Pair("closeAll", p, q) /\ IsRequesting(q, p)
        BY <2>1, <3>2, PairOf
      <4>2. ~Past(q, p, "closeAll")
        BY <2>3, <4>1 DEF Pair
      <4>3. Past(q, p, cs) \/ (Waits(q, p, cs) /\ HasAnswer(cs, p, q))
        BY <2>3, <4>1 DEF Pair
      <4>4. Waits(q, p, cs) /\ HasAnswer(cs, p, q) => Line(q, p) \in accepted
        BY <4>1 DEF Waits, HasAnswer, Line
      <4> QED
        BY <4>2, <4>3, <4>4
    <3> QED
      BY <3>1, <3>2
  <2>5. CASE Waits(q, p, cs) /\ Line(q, p) \in accepted
    BY <2>1, <2>2, <2>5 DEF Waits, Local
  <2>6. CASE Past(q, p, cs)
    BY <2>1, <2>2, <2>4, <2>6 DEF Past, Later, Local
  <2> QED
    BY <2>4, <2>5, <2>6
<1> QED
  BY Invariance, <1>1, PTL

(* Without remeshing, whatever the graph: with wait-in-finalize nobody is  *)
(* gone before its partners have computed all their windows, for the       *)
(* ping-pong takes both.                                                   *)
THEOREM NobodyGoesEarly == Spec => [](~config.allowsRemeshing => NobodyLeavesEarly)
<1>1. IInv => (~config.allowsRemeshing => NobodyLeavesEarly)
  <2> SUFFICES ASSUME IInv, Orderly, ~config.allowsRemeshing, NEW p \in Participants,
                      config.waitInFinalize, phase[p] = "finalized", NEW q \in Partners(p)
               PROVE  windows[q] = config.maxTimeWindows
    BY DEF IInv, NobodyLeavesEarly
  <2>1. TypeOK /\ q \in Participants /\ Partners(q) # {} /\ "closeAll" \in Meetings
    BY PartnerSides DEF IInv, TypeOK, Meetings
  <2>2. Past(p, q, "closeAll")
    BY DEF Past, Later
  <2>3. Past(q, p, "closeAll") \/ Waits(q, p, "closeAll")
    <3>1. CASE IsRequesting(p, q)
      <4>1. Pair("closeAll", q, p)
        BY <2>1, <3>1, PairOf
      <4> QED
        BY <2>2, <4>1 DEF Pair
    <3>2. CASE ~IsRequesting(p, q)
      <4>1. Pair("closeAll", p, q)
        BY <2>1, <3>2, PairOf
      <4> QED
        BY <2>2, <4>1 DEF Pair
    <3> QED
      BY <3>1, <3>2
  <2>4. phase[q] \in {"closeAll", "finalized"}
    BY <2>3 DEF Past, Later, Waits
  <2>5. windows[q] \in 0..config.maxTimeWindows /\ ~(windows[q] < config.maxTimeWindows)
    BY <2>1, <2>4 DEF IInv, WindowsLeft, TypeOK
  <2>6. config.maxTimeWindows \in Nat
    BY <2>1, ConfigurationsAssumption DEF TypeOK
  <2> QED
    BY <2>5, <2>6
<1> QED
  BY Invariance, <1>1, PTL

(* Without remeshing, whatever the graph: what a participant reads is the  *)
(* ping or the pong it expects, and it leaves nothing unread               *)
(* (the assertions `receive == ping` and `receive == pong`).               *)
THEOREM PingsAndPongs == Spec => [](~config.allowsRemeshing => NoCrossTalk)
<1>1. IInv => (~config.allowsRemeshing => NoCrossTalk)
  <2> SUFFICES ASSUME TypeOK, Orderly, NEW p \in Participants, NEW q \in Participants
               PROVE  /\ InLoop(p) /\ Talking(p) /\ At(p, q) /\ wire[<<q, p>>] # <<>>
                         => Head(wire[<<q, p>>]).kind = Expects(p, q)
                      /\ phase[p] = "finalized" => wire[<<q, p>>] = <<>>
    BY DEF IInv, NoCrossTalk
  <2> SUFFICES ASSUME wire[<<q, p>>] # <<>>
               PROVE  /\ InLoop(p) /\ Talking(p) /\ At(p, q)
                         => Head(wire[<<q, p>>]).kind = Expects(p, q)
                      /\ phase[p] # "finalized"
    OBVIOUS
  <2>1. /\ config.waitInFinalize /\ p \in Partners(q)
        /\ wire[<<q, p>>] =
             <<[kind |-> IF IsRequesting(q, p) THEN "ping" ELSE "pong", value |-> FALSE]>>
    BY DEF Orderly, Wires
  <2>2. /\ q \in Partners(p) /\ (IsRequesting(q, p) <=> ~IsRequesting(p, q))
        /\ "closeAll" \in Meetings
    BY <2>1, PartnerSides DEF TypeOK, Meetings
  <2>3. ASSUME InLoop(p), Talking(p), At(p, q)
        PROVE  Head(wire[<<q, p>>]).kind = Expects(p, q)
    <3>1. phase[p] = "closeAll"
      BY <2>2, <2>3, MeetingOf
    <3>2. Head(wire[<<q, p>>]).kind = IF IsRequesting(q, p) THEN "ping" ELSE "pong"
      BY <2>1
    <3> QED
      BY <2>2, <3>1, <3>2 DEF Expects
  <2>4. ~Past(p, q, "closeAll")
    <3>1. CASE IsRequesting(p, q)
      <4>1. Pair("closeAll", q, p)
        BY <2>2, <3>1, PairOf
      <4> QED
        BY <4>1 DEF Pair, HasAnswer
    <3>2. CASE ~IsRequesting(p, q)
      <4>1. Pair("closeAll", p, q)
        BY <2>2, <3>2, PairOf
      <4> QED
        BY <4>1 DEF Pair, Asked
    <3> QED
      BY <3>1, <3>2
  <2>5. phase[p] # "finalized"
    BY <2>4 DEF Past, Later
  <2> QED
    BY <2>3, <2>5
<1> QED
  BY Invariance, <1>1, PTL

--------------------------------------------------------------------------------
(* Without remeshing the loops are the rounds of Rendezvous.               *)

(* The loops a participant has completed.                                  *)
Stage(p) ==
  CASE phase[p] = "connectPrimaries" -> 0
    [] phase[p] = "connectSecondaries" -> 1
    [] phase[p] = "finalized" /\ config.waitInFinalize -> 3
    [] OTHER -> 2

Counted == \A p \in Participants : Partners(p) # {} => sweeps[p] = Stage(p)

(* The accepting side is done with the visit that p makes to q.            *)
Met(p, q) ==
  /\ phase[p] \in Meetings
  /\ IF IsRequesting(p, q) THEN Past(q, p, phase[p]) ELSE Past(p, q, phase[p])

AbstractVisited(p) ==
  IF ~IsSweep(p) THEN {} ELSE visited[p] \cup {q \in Participants : Answered(p, q)}

(* Of the visits that count in the abstract specification, those of the    *)
(* accepting side are over for both.                                       *)
LEMMA VisitedAre ==
  ASSUME TypeOK, Orderly, NEW p \in Participants
  PROVE  AbstractVisited(p) = {q \in Partners(p) : Met(p, q)}
<1>1. Local(p)
  BY DEF Orderly
<1>2. CASE phase[p] \in Meetings
  <2>1. IsSweep(p) /\ InLoop(p) /\ phase[p] \in {"connectPrimaries", "connectSecondaries", "closeAll"}
    BY <1>1, <1>2 DEF Local, IsSweep, Meetings, InLoop, Connecting, Closing
  <2>2. visited[p] \subseteq Partners(p)
    BY <1>1 DEF Local
  <2>3. ASSUME NEW q \in Partners(p)
        PROVE  q \in visited[p] \/ Answered(p, q) <=> Met(p, q)
    <3>1. q \in Participants /\ q # p
      BY PartnerSides DEF TypeOK
    <3>2. Past(p, q, phase[p]) <=> q \in visited[p]
      BY <2>1 DEF Past, Later
    <3>3. CASE IsRequesting(p, q)
      <4>1. Pair(phase[p], q, p) /\ Line(p, q) = <<phase[p], q, p>>
        BY <1>2, <3>3, PairOf DEF Line
      <4>2. Answered(p, q) <=> HasAnswer(phase[p], q, p)
        <5>1. Waits(p, q, phase[p]) <=> busy[p] /\ At(p, q)
          BY DEF Waits
        <5>2. phase[p] \in Connecting <=> phase[p] # "closeAll"
          BY <2>1 DEF Connecting
        <5> QED
          BY <2>1, <3>3, <4>1, <5>1, <5>2 DEF Answered, HasAnswer, Pair
      <4> QED
        BY <1>2, <3>2, <3>3, <4>1, <4>2 DEF Pair, Met
    <3>4. CASE ~IsRequesting(p, q)
      BY <1>2, <3>2, <3>4 DEF Answered, Met
    <3> QED
      BY <3>3, <3>4
  <2>4. ASSUME NEW q, Answered(p, q) PROVE q \in Partners(p)
    BY <2>4 DEF Answered, At, Remaining
  <2>5. AbstractVisited(p) = visited[p] \cup {q \in Participants : Answered(p, q)}
    BY <2>1 DEF AbstractVisited
  <2>6. Partners(p) \subseteq Participants
    BY DEF Partners
  <2>7. ASSUME NEW q \in AbstractVisited(p) PROVE q \in Partners(p) /\ Met(p, q)
    BY <2>2, <2>3, <2>4, <2>5
  <2>8. ASSUME NEW q \in Partners(p), Met(p, q) PROVE q \in AbstractVisited(p)
    BY <2>3, <2>5, <2>6, <2>8
  <2> QED
    BY <2>7, <2>8
<1>3. CASE phase[p] \notin Meetings
  <2>1. \A q : ~Met(p, q)
    BY <1>3 DEF Met
  <2>2. CASE phase[p] = "closeAll"
    BY <1>3, <2>1, <2>2 DEF AbstractVisited, IsSweep, Meetings, Closing
  <2>3. CASE phase[p] # "closeAll"
    <3>1. ~InLoop(p)
      BY <1>1, <1>3, <2>3 DEF Local, Meetings, InLoop, Connecting, Closing
    <3>2. CASE phase[p] = "coupling"
      BY <1>1, <2>1, <3>1, <3>2 DEF AbstractVisited, Local, Answered
    <3>3. CASE phase[p] = "finalized"
      BY <1>1, <2>1, <3>1, <3>3 DEF AbstractVisited, Local, Answered
    <3> QED
      BY <1>1, <1>3, <2>3, <3>2, <3>3 DEF Local, Meetings
  <2> QED
    BY <2>2, <2>3
<1> QED
  BY <1>2, <1>3

LEMMA VisitedAfter ==
  (TypeOK /\ Orderly =>
     \A p \in Participants : AbstractVisited(p) = {q \in Partners(p) : Met(p, q)})'
<1>1. TypeOK /\ Orderly =>
        \A p \in Participants : AbstractVisited(p) = {q \in Partners(p) : Met(p, q)}
  BY VisitedAre
<1> QED
  BY <1>1, PTL

(* A participant between two loops has visited nobody.                     *)
LEMMA NobodyVisited ==
  ASSUME NEW p \in Participants, visited[p] = {}, ~busy[p]
  PROVE  AbstractVisited(p) = {}
  BY DEF AbstractVisited, Answered

(* The visits of a participant that stays where it is, its answers too.    *)
LEMMA SameVisits ==
  ASSUME NEW x \in Participants, config' = config, accepted' = accepted, wire' = wire,
         phase'[x] = phase[x], visited'[x] = visited[x], busy'[x] = busy[x],
         swarm'[x] = swarm[x], primary'[x] = primary[x]
  PROVE  AbstractVisited(x)' = AbstractVisited(x)
<1>1. Remaining(x)' = Remaining(x) /\ IsSweep(x)' = IsSweep(x) /\ InLoop(x)' = InLoop(x)
  BY DEF Remaining, Skipped, Partners, IsSweep, InLoop
<1>2. ASSUME NEW q PROVE Answered(x, q)' = Answered(x, q)
  <2>1. At(x, q)' = At(x, q) /\ Line(x, q)' = Line(x, q) /\ IsRequesting(x, q)' = IsRequesting(x, q)
    BY <1>1 DEF At, Line, IsRequesting
  <2> QED
    BY <1>1, <2>1 DEF Answered
<1> QED
  BY <1>1, <1>2 DEF AbstractVisited

(* What a visit that is over changes.                                      *)
LEMMA PastAfter ==
  ASSUME TypeOK, NEW p \in Participants, NEW q, config' = config, phase' = phase,
         visited' = [visited EXCEPT ![p] = @ \cup {q}],
         NEW x \in Participants, NEW y, NEW ph
  PROVE  Past(x, y, ph)' <=> Past(x, y, ph) \/ (x = p /\ y = q /\ phase[p] = ph)
<1>1. Later(ph)' = Later(ph)
  BY DEF Later
<1>2. y \in visited'[x] <=> y \in visited[x] \/ (x = p /\ y = q)
  BY DEF TypeOK
<1> QED
  BY <1>1, <1>2 DEF Past

(* The visit of the requesting side is over before it knows.               *)
LEMMA RequesterUnnoticed ==
  ASSUME TypeOK, Orderly, TypeOK', Orderly', NEW p \in Participants, NEW q \in Partners(p),
         config' = config, phase' = phase,
         \/ visited' = visited
         \/ /\ visited' = [visited EXCEPT ![p] = @ \cup {q}]
            /\ IsRequesting(p, q) \/ phase[p] \notin Meetings,
         NEW x \in Participants
  PROVE  AbstractVisited(x)' = AbstractVisited(x)
<1>1. Partners(x)' = Partners(x) /\ Meetings' = Meetings
  BY DEF Partners, Meetings
<1>2. ASSUME NEW y \in Partners(x) PROVE Met(x, y)' <=> Met(x, y)
  <2>1. y \in Participants /\ (IsRequesting(x, y) <=> ~IsRequesting(y, x))
    BY PartnerSides DEF TypeOK
  <2>2. IsRequesting(x, y)' = IsRequesting(x, y)
    BY DEF IsRequesting
  <2>3. CASE visited' = visited
    BY <1>1, <2>2, <2>3 DEF Met, Past, Later
  <2>4. CASE /\ visited' = [visited EXCEPT ![p] = @ \cup {q}]
             /\ IsRequesting(p, q) \/ phase[p] \notin Meetings
    <3>1. Past(x, y, phase[x])' <=> Past(x, y, phase[x]) \/ (x = p /\ y = q /\ phase[p] = phase[x])
      BY <2>4, PastAfter
    <3>2. Past(y, x, phase[x])' <=> Past(y, x, phase[x]) \/ (y = p /\ x = q /\ phase[p] = phase[x])
      <4>1. ASSUME NEW a \in Participants, NEW b, NEW ph
            PROVE  Past(a, b, ph)' <=> Past(a, b, ph) \/ (a = p /\ b = q /\ phase[p] = ph)
        BY <2>4, PastAfter
      <4>2. y \in Participants
        BY <2>1
      <4> QED
        BY <4>1, <4>2
    <3> QED
      BY <1>1, <2>1, <2>2, <2>4, <3>1, <3>2 DEF Met
  <2> QED
    BY <2>3, <2>4
<1>3. AbstractVisited(x) = {y \in Partners(x) : Met(x, y)}
  BY VisitedAre
<1>4. AbstractVisited(x)' = {y \in Partners(x)' : Met(x, y)'}
  BY VisitedAfter
<1> QED
  BY <1>1, <1>2, <1>3, <1>4

(* The accepting side ends the visit for both.                             *)
LEMMA AcceptorMeets ==
  ASSUME TypeOK, Orderly, TypeOK', Orderly', Counted, NEW p \in Participants,
         NEW q \in Partners(p), InLoop(p), At(p, q), phase[p] \in Meetings,
         ~IsRequesting(p, q), Asked(phase[p], p, q),
         config' = config, phase' = phase, sweeps' = sweeps,
         visited' = [visited EXCEPT ![p] = @ \cup {q}]
  PROVE  Abstract!Meet(p, q)
<1>1. q \in Participants /\ p # q /\ p \in Partners(q) /\ IsRequesting(q, p)
  BY PartnerSides DEF TypeOK
<1>2. Waits(q, p, phase[p]) /\ ~Past(p, q, phase[p]) /\ phase[q] = phase[p] /\ At(q, p)
  <2>1. <<p, q>> \in config.m2ns
    BY PartnerSides DEF TypeOK
  <2>2. Pair(phase[p], p, q)
    BY <2>1 DEF Orderly
  <2> QED
    BY <2>2 DEF Pair, Waits
<1>3. Partners(p) # {} /\ Partners(q) # {} /\ Stage(p) = Stage(q) /\ sweeps[p] = sweeps[q]
  BY <1>1, <1>2 DEF Counted, Stage
<1>4. \A x \in Participants : AbstractVisited(x) = {y \in Partners(x) : Met(x, y)}
  BY VisitedAre
<1>5. \A x \in Participants : AbstractVisited(x)' = {y \in Partners(x)' : Met(x, y)'}
  BY VisitedAfter
<1>6. Meetings' = Meetings /\ \A x \in Participants : Partners(x)' = Partners(x)
  BY DEF Meetings, Partners
<1>7. ~Met(p, q) /\ ~Met(q, p)
  BY <1>1, <1>2 DEF Met
<1>8. ASSUME NEW x \in Participants, NEW y \in Partners(x)
      PROVE  Met(x, y)' <=> Met(x, y) \/ (x = p /\ y = q) \/ (x = q /\ y = p)
  <2>1. y \in Participants /\ (IsRequesting(x, y) <=> ~IsRequesting(y, x))
    BY PartnerSides DEF TypeOK
  <2>2. IsRequesting(x, y)' = IsRequesting(x, y)
    BY DEF IsRequesting
  <2>3. Past(x, y, phase[x])' <=> Past(x, y, phase[x]) \/ (x = p /\ y = q /\ phase[p] = phase[x])
    BY <2>1, PastAfter
  <2>4. Past(y, x, phase[x])' <=> Past(y, x, phase[x]) \/ (y = p /\ x = q /\ phase[p] = phase[x])
    <3>1. ASSUME NEW a \in Participants, NEW b, NEW ph
          PROVE  Past(a, b, ph)' <=> Past(a, b, ph) \/ (a = p /\ b = q /\ phase[p] = ph)
      BY PastAfter
    <3>2. y \in Participants
      BY <2>1
    <3> QED
      BY <3>1, <3>2
  <2> QED
    BY <1>1, <1>2, <1>6, <2>1, <2>2, <2>3, <2>4 DEF Met
<1>9. /\ AbstractVisited(p)' = AbstractVisited(p) \cup {q}
      /\ AbstractVisited(q)' = AbstractVisited(q) \cup {p}
      /\ \A x \in Participants \ {p, q} : AbstractVisited(x)' = AbstractVisited(x)
  <2>1. AbstractVisited(p)' = AbstractVisited(p) \cup {q}
    BY <1>1, <1>4, <1>5, <1>6, <1>8
  <2>2. AbstractVisited(q)' = AbstractVisited(q) \cup {p}
    BY <1>1, <1>4, <1>5, <1>6, <1>8
  <2>3. ASSUME NEW x \in Participants \ {p, q} PROVE AbstractVisited(x)' = AbstractVisited(x)
    BY <1>1, <1>4, <1>5, <1>6, <1>8
  <2> QED
    BY <2>1, <2>2, <2>3
<1>10. ASSUME NEW x \in Participants, NEW y \in Partners(x), phase[x] \in Meetings, InLoop(x),
              At(x, y), ~Met(x, y)
       PROVE  y \in Partners(x) \ AbstractVisited(x)
              /\ \A r \in Partners(x) \ AbstractVisited(x) : y <= r
  <2>1. IsSweep(x) /\ Remaining(x) = Partners(x) \ visited[x]
    <3>1. Local(x)
      BY DEF Orderly
    <3> QED
      BY <1>10, <3>1, RemainingOf DEF Local, IsSweep, Meetings, Closing
  <2>2. visited[x] \subseteq AbstractVisited(x)
    BY <2>1 DEF AbstractVisited
  <2> QED
    BY <1>4, <1>10, <2>1, <2>2 DEF At
<1>11. InLoop(q)
  BY <1>2 DEF InLoop
<1>12. /\ q \in Partners(p) \ AbstractVisited(p)
       /\ \A r \in Partners(p) \ AbstractVisited(p) : q <= r
       /\ p \in Partners(q) \ AbstractVisited(q)
       /\ \A r \in Partners(q) \ AbstractVisited(q) : p <= r
  BY <1>1, <1>2, <1>7, <1>10, <1>11
<1> DEFINE AV == [x \in Participants |-> AbstractVisited(x)]
           AP == [x \in Participants |-> Partners(x)]
<1>13. AV' = [AV EXCEPT ![p] = @ \cup {q}, ![q] = @ \cup {p}] /\ AP' = AP
  BY <1>1, <1>6, <1>9
<1> QED
  BY <1>1, <1>3, <1>12, <1>13
  DEF Abstract!Meet, Abstract!CanMeet, Abstract!At, Abstract!Remaining, AbstractVisited

(* Nothing happens in the abstract specification.                          *)
LEMMA AbstractStutter ==
  ASSUME config' = config, sweeps' = sweeps,
         \A x \in Participants : AbstractVisited(x)' = AbstractVisited(x)
  PROVE  UNCHANGED Abstract!vars
<1> DEFINE AV == [x \in Participants |-> AbstractVisited(x)]
           AP == [x \in Participants |-> Partners(x)]
<1>1. AV' = AV
  OBVIOUS
<1>2. AP' = AP
  BY DEF Partners
<1> QED
  BY <1>1, <1>2 DEF Abstract!vars, AbstractVisited

LEMMA VisitMaps ==
  ASSUME TypeOK, Orderly, TypeOK', Orderly', Counted, NEW p \in Participants, Visit(p)
  PROVE  Abstract!Next \/ UNCHANGED Abstract!vars
<1>1. PICK q \in Partners(p) :
        /\ At(p, q)
        /\ \/ Publish(p, q) \/ Call(p, q) \/ Accept(p, q) \/ Complete(p, q)
           \/ Say(p, q) \/ Reply(p, q) \/ Hear(p, q) \/ CloseSilently(p, q)
  BY DEF Visit
<1>2. InLoop(p) /\ config' = config /\ phase' = phase /\ sweeps' = sweeps
  BY DEF Visit
<1>3. q \in Participants
  BY DEF Partners
<1>4. CASE Publish(p, q) \/ Call(p, q) \/ Say(p, q)
  <2>1. visited' = visited
    BY <1>4 DEF Publish, Call, Say
  <2> QED
    BY <1>2, <2>1, RequesterUnnoticed, AbstractStutter
<1>5. CASE Complete(p, q) \/ Hear(p, q)
  <2>1. IsRequesting(p, q) /\ visited' = [visited EXCEPT ![p] = @ \cup {q}]
    BY <1>5 DEF Complete, Hear, Connected, Parted
  <2> QED
    BY <1>2, <2>1, RequesterUnnoticed, AbstractStutter
<1>6. CASE CloseSilently(p, q)
  <2>1. visited' = [visited EXCEPT ![p] = @ \cup {q}]
    BY <1>6 DEF CloseSilently, Parted
  <2>2. phase[p] \notin Meetings
    BY <1>1, <1>2, <1>6, Visiting DEF CloseSilently, Closing, Meetings
  <2> QED
    BY <1>2, <2>1, <2>2, RequesterUnnoticed, AbstractStutter
<1>7. CASE Accept(p, q)
  <2>1. /\ ~IsRequesting(p, q) /\ phase[p] \in Connecting /\ Line(p, q) \in calling
        /\ visited' = [visited EXCEPT ![p] = @ \cup {q}]
    BY <1>7 DEF Accept, Connected
  <2>2. phase[p] \in Meetings /\ phase[p] # "closeAll" /\ Line(p, q) = <<phase[p], p, q>>
    BY <1>1, <1>2, <2>1, MeetingOf
  <2>3. Asked(phase[p], p, q)
    BY <2>1, <2>2 DEF Asked
  <2>4. Abstract!Meet(p, q)
    BY <1>1, <1>2, <2>1, <2>2, <2>3, AcceptorMeets
  <2> QED
    BY <1>3, <2>4 DEF Abstract!Next
<1>8. CASE Reply(p, q)
  <2>1. /\ ~IsRequesting(p, q) /\ Talking(p) /\ wire[<<q, p>>] # <<>>
        /\ visited' = [visited EXCEPT ![p] = @ \cup {q}]
    BY <1>8 DEF Reply, Parted
  <2>2. phase[p] \in Meetings /\ phase[p] = "closeAll"
    BY <1>1, <1>2, <2>1, MeetingOf
  <2>3. Asked(phase[p], p, q)
    BY <2>1, <2>2 DEF Asked
  <2>4. Abstract!Meet(p, q)
    BY <1>1, <1>2, <2>1, <2>2, <2>3, AcceptorMeets
  <2> QED
    BY <1>3, <2>4 DEF Abstract!Next
<1> QED
  BY <1>1, <1>4, <1>5, <1>6, <1>7, <1>8

(* The end of a loop that exchanges something begins the next round.       *)
LEMMA EndLoopMaps ==
  ASSUME TypeOK, Orderly, TypeOK', Orderly', Counted, NEW p \in Participants, EndLoop(p),
         Partners(p) # {}
  PROVE  (Abstract!Next \/ UNCHANGED Abstract!vars) /\ Counted'
<1>1. /\ Local(p) /\ InLoop(p) /\ Remaining(p) = {} /\ visited' = [visited EXCEPT ![p] = {}]
      /\ config' = config /\ busy' = busy /\ primary' = primary /\ secondary' = secondary
      /\ calling' = calling /\ accepted' = accepted /\ wire' = wire
      /\ sweeps' = [sweeps EXCEPT ![p] = IF IsSweep(p) THEN @ + 1 ELSE @]
  BY DEF EndLoop, Orderly
<1>2. /\ phase[p] \in {"connectPrimaries", "connectSecondaries", "closeAll"}
      /\ visited[p] = Partners(p) /\ ~busy[p] /\ ~swarm[p]
  BY <1>1, RemainingOf DEF Local, InLoop, Connecting, Closing
<1>3. /\ swarm' = swarm
      /\ phase' = [phase EXCEPT ![p] =
           CASE phase[p] = "connectPrimaries" -> "connectSecondaries"
             [] phase[p] = "connectSecondaries" -> "coupling"
             [] OTHER -> "finalized"]
  BY <1>2 DEF EndLoop, GoTo
<1>4. /\ visited'[p] = {} /\ ~busy'[p]
      /\ \A x \in Participants \ {p} : phase'[x] = phase[x] /\ visited'[x] = visited[x]
  BY <1>1, <1>2, <1>3 DEF TypeOK
<1>5. phase'[p] = CASE phase[p] = "connectPrimaries" -> "connectSecondaries"
                    [] phase[p] = "connectSecondaries" -> "coupling"
                    [] OTHER -> "finalized"
  BY <1>3 DEF TypeOK
<1>6. AbstractVisited(p)' = {}
  BY <1>4 DEF AbstractVisited, Answered
<1>7. \A x \in Participants \ {p} : AbstractVisited(x)' = AbstractVisited(x)
  BY <1>1, <1>3, <1>4, SameVisits
<1>8. \A x \in Participants : Partners(x)' = Partners(x)
  BY <1>1 DEF Partners
<1>9. IsSweep(p) <=> phase[p] # "closeAll" \/ config.waitInFinalize
  BY <1>2 DEF IsSweep, Closing
<1>10. Counted'
  <2>1. ASSUME NEW x \in Participants, x # p, Partners(x)' # {} PROVE sweeps'[x] = Stage(x)'
    <3>1. sweeps'[x] = sweeps[x] /\ Stage(x)' = Stage(x)
      BY <1>1, <1>4, <2>1 DEF TypeOK, Stage
    <3> QED
      BY <1>8, <2>1, <3>1 DEF Counted
  <2>2. sweeps'[p] = Stage(p)'
    <3>1. sweeps[p] = Stage(p) /\ sweeps'[p] = IF IsSweep(p) THEN sweeps[p] + 1 ELSE sweeps[p]
      BY <1>1 DEF Counted, TypeOK
    <3> QED
      BY <1>1, <1>2, <1>5, <1>9, <3>1 DEF Stage
  <2> QED
    BY <2>1, <2>2 DEF Counted
<1>11. CASE ~IsSweep(p)
  <2>1. AbstractVisited(p) = {} /\ sweeps' = sweeps
    BY <1>1, <1>11 DEF AbstractVisited, TypeOK
  <2> QED
    BY <1>1, <1>6, <1>7, <1>10, <2>1, AbstractStutter
<1>12. CASE IsSweep(p)
  <2> DEFINE AV == [x \in Participants |-> AbstractVisited(x)]
             AP == [x \in Participants |-> Partners(x)]
  <2>1. AV' = [AV EXCEPT ![p] = {}] /\ AP' = AP
    BY <1>6, <1>7, <1>8
  <2>2. Partners(p) \ AbstractVisited(p) = {}
    BY <1>2, <1>12 DEF AbstractVisited
  <2>3. sweeps' = [sweeps EXCEPT ![p] = @ + 1]
    BY <1>1, <1>12
  <2>4. Abstract!Advance(p)
    BY <2>1, <2>2, <2>3 DEF Abstract!Advance, Abstract!Remaining, AbstractVisited
  <2> QED
    BY <1>10, <2>4 DEF Abstract!Next
<1> QED
  BY <1>11, <1>12

(* A time window is nothing the loops are about.                           *)
LEMMA EndWindowMaps ==
  ASSUME TypeOK, Orderly, ~config.allowsRemeshing, Counted, NEW p \in Participants, EndWindow(p)
  PROVE  UNCHANGED Abstract!vars /\ Counted'
<1>1. /\ Local(p) /\ phase[p] = "coupling" /\ FinishWindow(p)
      /\ config' = config /\ visited' = visited /\ busy' = busy
      /\ primary' = primary /\ secondary' = secondary /\ sweeps' = sweeps
      /\ accepted' = accepted /\ wire' = wire
  BY DEF EndWindow, Orderly, net
<1>2. visited[p] = {} /\ ~busy[p]
  BY <1>1 DEF Local, InLoop, Connecting, Closing
<1>3. /\ phase'[p] \in {"coupling", "closeAll"}
      /\ \A x \in Participants \ {p} : phase'[x] = phase[x] /\ swarm'[x] = swarm[x]
  BY <1>1 DEF FinishWindow, TypeOK
<1>4. AbstractVisited(p)' = {} /\ AbstractVisited(p) = {}
  BY <1>1, <1>2 DEF AbstractVisited, Answered
<1>5. \A x \in Participants \ {p} : AbstractVisited(x)' = AbstractVisited(x)
  BY <1>1, <1>3, SameVisits
<1>6. UNCHANGED Abstract!vars
  BY <1>1, <1>4, <1>5, AbstractStutter
<1>7. ASSUME NEW x \in Participants, Partners(x)' # {} PROVE sweeps'[x] = Stage(x)'
  <2>1. Stage(x)' = Stage(x)
    BY <1>1, <1>3 DEF Stage
  <2> QED
    BY <1>1, <1>7, <2>1 DEF Counted, Partners
<1> QED
  BY <1>6, <1>7 DEF Counted

LEMMA VisitCounts ==
  ASSUME Counted, NEW p \in Participants, Visit(p)
  PROVE  Counted'
  BY DEF Counted, Visit, Stage, Partners

LEMMA StutterMaps ==
  ASSUME Counted, UNCHANGED vars
  PROVE  UNCHANGED Abstract!vars /\ Counted'
<1>1. \A x \in Participants : AbstractVisited(x)' = AbstractVisited(x)
  BY SameVisits DEF vars, net
<1>2. UNCHANGED Abstract!vars
  BY <1>1, AbstractStutter DEF vars
<1>3. Counted'
  BY DEF Counted, Stage, Partners, vars
<1> QED
  BY <1>2, <1>3

LEMMA InitMaps ==
  ASSUME Init
  PROVE  Abstract!Init /\ Counted
<1>1. config \in Configurations
  BY DEF Init
<1>2. [x \in Participants |-> Partners(x)] \in Abstract!Graphs
  <2>1. ASSUME NEW x \in Participants PROVE Partners(x) \subseteq Participants
    BY DEF Partners
  <2>2. ASSUME NEW x \in Participants, NEW y \in Partners(x)
        PROVE  y \in Participants /\ x \in Partners(y) /\ x # y
    BY <1>1, PartnerSides
  <2> QED
    BY <2>1, <2>2 DEF Abstract!Graphs
<1>3. \A x \in Participants : AbstractVisited(x) = {}
  BY DEF Init, AbstractVisited, Answered
<1>4. Counted
  BY DEF Init, Counted, Stage
<1> QED
  BY <1>2, <1>3, <1>4 DEF Abstract!Init, AbstractVisited, Init

(* Without remeshing the loops of the participants are the rounds of       *)
(* Rendezvous, whatever the graph: two partners are always in the same     *)
(* round when they meet, and by DeadlockFreedom of RendezvousProofs there  *)
(* is always somebody who is not kept waiting.                             *)
THEOREM Refinement ==
  ASSUME \A c \in Configurations : ~c.allowsRemeshing
  PROVE  Spec => ImplementsRendezvous
<1>1. Init => Abstract!Init /\ Counted
  BY InitMaps
<1>2. IInv /\ IInv' /\ Counted /\ [Next]_vars => [Abstract!Next]_(Abstract!vars) /\ Counted'
  <2> SUFFICES ASSUME IInv, IInv', Counted, [Next]_vars
               PROVE  (Abstract!Next \/ UNCHANGED Abstract!vars) /\ Counted'
    OBVIOUS
  <2>1. /\ TypeOK /\ TypeOK' /\ NamesOnly
        /\ ~config.allowsRemeshing /\ ~config'.allowsRemeshing /\ Orderly /\ Orderly'
    BY DEF IInv, TypeOK
  <2>2. CASE UNCHANGED vars
    BY <2>2, StutterMaps
  <2>3. ASSUME NEW p \in Participants, Step(p)
        PROVE  (Abstract!Next \/ UNCHANGED Abstract!vars) /\ Counted'
    <3>1. CASE Visit(p)
      BY <2>1, <3>1, VisitMaps, VisitCounts
    <3>2. CASE EndLoop(p)
      <4>1. Partners(p) # {}
        BY <2>1, <3>2 DEF NamesOnly, EndLoop, InLoop, Connecting, Closing
      <4> QED
        BY <2>1, <3>2, <4>1, EndLoopMaps
    <3>3. CASE EndWindow(p)
      BY <2>1, <3>3, EndWindowMaps
    <3> QED
      BY <2>3, <3>1, <3>2, <3>3 DEF Step
  <2> QED
    BY <2>2, <2>3 DEF Next
<1> QED
  BY <1>1, <1>2, Invariance, PTL DEF Spec, ImplementsRendezvous, Abstract!Spec

Rounds == INSTANCE RendezvousProofs WITH
  partners <- [p \in Participants |-> Partners(p)],
  round    <- sweeps,
  visited  <- [p \in Participants |-> AbstractVisited(p)]

(* So, whatever the graph, the loops over the partners never wait for each *)
(* other in a circle: while a participant has partners left, two that are  *)
(* not ahead of it have come to each other, or one behind it can go on.    *)
THEOREM NobodyWaitsInACircle ==
  ASSUME \A c \in Configurations : ~c.allowsRemeshing
  PROVE  Spec => []Abstract!NobodyBlocked
<1>1. Rounds!Spec => []Rounds!NobodyBlocked
  BY Rounds!DeadlockFreedom, ParticipantsAssumption
<1>2. Spec => ImplementsRendezvous
  BY Refinement
<1>3. Abstract!Init => Rounds!Init
  BY DEF Abstract!Init, Rounds!Init, Abstract!Graphs, Rounds!Graphs, AbstractVisited
<1>4. [Abstract!Next]_(Abstract!vars) => [Rounds!Next]_(Rounds!vars)
  BY DEF Abstract!Next, Abstract!Meet, Abstract!Advance, Abstract!CanMeet, Abstract!At,
         Abstract!Remaining, Abstract!vars, Rounds!Next, Rounds!Meet, Rounds!Advance,
         Rounds!CanMeet, Rounds!At, Rounds!Remaining, Rounds!vars, AbstractVisited
<1>5. Rounds!NobodyBlocked => Abstract!NobodyBlocked
  BY DEF Abstract!NobodyBlocked, Abstract!CanMeet, Abstract!At, Abstract!Remaining,
         Rounds!NobodyBlocked, Rounds!CanMeet, Rounds!At, Rounds!Remaining, AbstractVisited
<1> QED
  BY <1>1, <1>2, <1>3, <1>4, <1>5, PTL DEF ImplementsRendezvous, Abstract!Spec, Rounds!Spec
================================================================================
