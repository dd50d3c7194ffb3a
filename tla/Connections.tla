----------------------------- MODULE Connections -----------------------------
(***************************************************************************)
(* The life of the m2n connections of any number of participants           *)
(* (precice/impl/ParticipantImpl.cpp): setupCommunication() connects the   *)
(* primary ranks and then the meshes, reinitHandshake() asks at the end of *)
(* every time window whether somebody changed a mesh, reinitialize()       *)
(* closes and connects the meshes again, closeCommunicationChannels()      *)
(* says goodbye.  Each is a loop over the coupling partners that blocks on *)
(* one partner at a time.                                                  *)
(*                                                                         *)
(* A participant is the position of its name in the order of the names,    *)
(* the order std::map<std::string, BoundM2N> _m2ns is iterated in.  An     *)
(* m2n is a pair <<acceptor, requester>> of the connection, whose acceptor *)
(* the configuration calls connector.  The ranks of a participant act as   *)
(* one, and all meshes of an m2n are connected in one go.                  *)
(***************************************************************************)
EXTENDS Integers, Sequences, FiniteSets

CONSTANTS
  Participants,     \* the positions of the names of the participants
  Configurations    \* the m2ns and options to choose from

ASSUME ParticipantsAssumption == Participants \subseteq Nat
ASSUME ConfigurationsAssumption ==
  /\ Configurations \subseteq
       [m2ns : SUBSET (Participants \X Participants),
        allowsRemeshing : BOOLEAN, waitInFinalize : BOOLEAN,
        maxTimeWindows : Nat \ {0}]
  /\ \A c \in Configurations : \A m \in c.m2ns :
       m[1] # m[2] /\ <<m[2], m[1]>> \notin c.m2ns

VARIABLES
  config,      \* the m2ns, allow-remeshing, wait-in-finalize and the
               \* time windows every participant computes
  phase,       \* the loop or the part of the solver each participant is in
  visited,     \* the partners the loop is done with
  busy,        \* it published, called or spoke and awaits the other side
  primary,     \* the partners to which the primary ranks are connected
  secondary,   \* the partners to which the meshes are connected
  address,     \* the connection files on disk, <<level, acceptor, requester>>
  calling,     \* sockets requested and not accepted yet
  accepted,    \* sockets accepted whose requester does not know it yet
  wire,        \* what travels between primary ranks, per <<from, to>>
  request,     \* the participant changed a mesh in this window
  swarm,       \* somebody did, as far as the participant knows
  windows,     \* the windows it has completed
  sweeps       \* history: the loops over the partners it has completed

net == <<address, calling, accepted, wire>>
vars == <<config, phase, visited, busy, primary, secondary, net,
          request, swarm, windows, sweeps>>

-----------------------------------------------------------------------------
Connecting == {"connectPrimaries", "connectSecondaries"}
Closing == {"closeDistributed", "closeAll"}
Phases == Connecting \cup Closing \cup {"coupling", "handshake", "finalized"}

Partners(p) ==
  {q \in Participants : <<p, q>> \in config.m2ns \/ <<q, p>> \in config.m2ns}

IsRequesting(p, q) == <<q, p>> \in config.m2ns

Line(p, q) ==
  LET m == IF IsRequesting(p, q) THEN <<q, p>> ELSE <<p, q>>
  IN <<phase[p], m[1], m[2]>>

(* Connected primary ranks are not connected twice, and a connection that  *)
(* does not exist is not closed.                                           *)
Skipped(p) ==
  CASE phase[p] = "connectPrimaries" -> primary[p]
    [] phase[p] \in Closing -> Participants \ primary[p]
    [] OTHER -> {}

InLoop(p) == phase[p] \in Connecting \cup Closing \cup {"handshake"}
Remaining(p) == Partners(p) \ (visited[p] \cup Skipped(p))

\* fault: the order in the configuration, those to request first
AtAsConfigured(p, q) ==
  /\ q \in Remaining(p)
  /\ \A r \in Remaining(p) :
       IF IsRequesting(p, q) = IsRequesting(p, r) THEN q <= r ELSE IsRequesting(p, q)

(* The iteration order of the std::map.                                    *)
At(p, q) == q \in Remaining(p) /\ \A r \in Remaining(p) : q <= r

(* The loops that exchange something with every partner.                   *)
IsSweep(p) ==
  CASE phase[p] = "connectPrimaries" -> ~swarm[p]
    [] phase[p] \in Closing -> config.waitInFinalize
    [] OTHER -> TRUE

-----------------------------------------------------------------------------
(* A name without an m2n is not in the configuration.                      *)
Init ==
  /\ config \in Configurations
  /\ phase = [p \in Participants |->
                IF Partners(p) # {} THEN "connectPrimaries" ELSE "finalized"]
  /\ visited = [p \in Participants |-> {}]
  /\ busy = [p \in Participants |-> FALSE]
  /\ primary = [p \in Participants |-> {}]
  /\ secondary = [p \in Participants |-> {}]
  /\ address = {} /\ calling = {} /\ accepted = {}
  /\ wire = [l \in Participants \X Participants |-> <<>>]
  /\ request = [p \in Participants |-> FALSE]
  /\ swarm = [p \in Participants |-> FALSE]
  /\ windows = [p \in Participants |-> 0]
  /\ sweeps = [p \in Participants |-> 0]

-----------------------------------------------------------------------------
(* Connecting two primary ranks, or a mesh.                                *)

Connected(p, q) ==
  /\ visited' = [visited EXCEPT ![p] = @ \cup {q}]
  /\ busy' = [busy EXCEPT ![p] = FALSE]
  /\ IF phase[p] = "connectPrimaries"
     THEN primary' = [primary EXCEPT ![p] = @ \cup {q}] /\ UNCHANGED secondary
     ELSE secondary' = [secondary EXCEPT ![p] = @ \cup {q}] /\ UNCHANGED primary

(* The accepting side listens and writes where.  A file that is there      *)
(* already is an error, which a standstill stands for here.                *)
Publish(p, q) ==
  /\ phase[p] \in Connecting /\ ~IsRequesting(p, q) /\ ~busy[p]
  /\ Line(p, q) \notin address
  /\ address' = address \cup {Line(p, q)}
  /\ busy' = [busy EXCEPT ![p] = TRUE]
  /\ UNCHANGED <<visited, primary, secondary, calling, accepted, wire, swarm>>

(* The requesting side polls for the file, connects and sends its rank.    *)
Call(p, q) ==
  /\ phase[p] \in Connecting /\ IsRequesting(p, q) /\ ~busy[p]
  /\ Line(p, q) \in address
  /\ calling' = calling \cup {Line(p, q)}
  /\ busy' = [busy EXCEPT ![p] = TRUE]
  /\ UNCHANGED <<visited, primary, secondary, address, accepted, wire, swarm>>

\* fault: acceptConnection() returns before somebody called
AcceptBlindly(p, q) ==
  /\ phase[p] \in Connecting /\ ~IsRequesting(p, q) /\ busy[p]
  /\ accepted' = accepted \cup {Line(p, q)}
  /\ address' = address \ {Line(p, q)}
  /\ Connected(p, q)
  /\ UNCHANGED <<calling, wire, swarm>>

(* The accepting side takes the call, sends its rank and, leaving          *)
(* acceptConnection(), deletes the file.                                   *)
Accept(p, q) ==
  /\ phase[p] \in Connecting /\ ~IsRequesting(p, q) /\ busy[p]
  /\ Line(p, q) \in calling
  /\ calling' = calling \ {Line(p, q)}
  /\ accepted' = accepted \cup {Line(p, q)}
  /\ address' = address \ {Line(p, q)}
  /\ Connected(p, q)
  /\ UNCHANGED <<wire, swarm>>

Complete(p, q) ==
  /\ phase[p] \in Connecting /\ IsRequesting(p, q) /\ busy[p]
  /\ Line(p, q) \in accepted
  /\ accepted' = accepted \ {Line(p, q)}
  /\ Connected(p, q)
  /\ UNCHANGED <<address, calling, wire, swarm>>

-----------------------------------------------------------------------------
(* The handshake and the ping-pong: the requesting side speaks first.      *)

Says(p, q) ==
  CASE phase[p] = "handshake" -> [kind |-> "remesh", value |-> request[p]]
    [] IsRequesting(p, q) -> [kind |-> "ping", value |-> FALSE]
    [] OTHER -> [kind |-> "pong", value |-> FALSE]

Talking(p) ==
  phase[p] = "handshake" \/ (phase[p] \in Closing /\ config.waitInFinalize)

Closed(p, q, phases) == IF phase[p] \in phases THEN {q} ELSE {}

\* fault: what the partner wants is forgotten
PartedForgetful(p, q, value) ==
  /\ UNCHANGED swarm
  /\ visited' = [visited EXCEPT ![p] = @ \cup {q}]
  /\ busy' = [busy EXCEPT ![p] = FALSE]
  /\ secondary' = [secondary EXCEPT ![p] = @ \ Closed(p, q, Closing)]
  /\ primary' = [primary EXCEPT ![p] = @ \ Closed(p, q, {"closeAll"})]
  /\ UNCHANGED <<address, calling, accepted>>

(* The visit is over: note what the partner wants, or close.               *)
Parted(p, q, value) ==
  /\ swarm' = [swarm EXCEPT ![p] = @ \/ (phase[p] = "handshake" /\ value)]
  /\ visited' = [visited EXCEPT ![p] = @ \cup {q}]
  /\ busy' = [busy EXCEPT ![p] = FALSE]
  /\ secondary' = [secondary EXCEPT ![p] = @ \ Closed(p, q, Closing)]
  /\ primary' = [primary EXCEPT ![p] = @ \ Closed(p, q, {"closeAll"})]
  /\ UNCHANGED <<address, calling, accepted>>

Say(p, q) ==
  /\ Talking(p) /\ IsRequesting(p, q) /\ ~busy[p]
  /\ wire' = [wire EXCEPT ![<<p, q>>] = Append(@, Says(p, q))]
  /\ busy' = [busy EXCEPT ![p] = TRUE]
  /\ UNCHANGED <<visited, primary, secondary, address, calling, accepted, swarm>>

Reply(p, q) ==
  /\ Talking(p) /\ ~IsRequesting(p, q)
  /\ wire[<<q, p>>] # <<>>
  /\ wire' = [wire EXCEPT ![<<q, p>>] = Tail(@),
                          ![<<p, q>>] = Append(@, Says(p, q))]
  /\ Parted(p, q, Head(wire[<<q, p>>]).value)

\* fault: the answer is received and not used
HearOnly(p, q) ==
  /\ Talking(p) /\ IsRequesting(p, q) /\ busy[p]
  /\ wire[<<q, p>>] # <<>>
  /\ wire' = [wire EXCEPT ![<<q, p>>] = Tail(@)]
  /\ Parted(p, q, FALSE)

\* fault: no wait for the pong
HearNothing(p, q) ==
  /\ Talking(p) /\ IsRequesting(p, q) /\ busy[p]
  /\ Parted(p, q, FALSE)
  /\ UNCHANGED wire

Hear(p, q) ==
  /\ Talking(p) /\ IsRequesting(p, q) /\ busy[p]
  /\ wire[<<q, p>>] # <<>>
  /\ wire' = [wire EXCEPT ![<<q, p>>] = Tail(@)]
  /\ Parted(p, q, Head(wire[<<q, p>>]).value)

CloseSilently(p, q) ==
  /\ phase[p] \in Closing /\ ~config.waitInFinalize
  /\ Parted(p, q, FALSE)
  /\ UNCHANGED wire

-----------------------------------------------------------------------------
Visit(p) ==
  /\ InLoop(p)
  /\ \E q \in Partners(p) :
       /\ At(p, q)
       /\ \/ Publish(p, q) \/ Call(p, q) \/ Accept(p, q) \/ Complete(p, q)
          \/ Say(p, q) \/ Reply(p, q) \/ Hear(p, q) \/ CloseSilently(p, q)
  /\ UNCHANGED <<config, phase, request, windows, sweeps>>

\* fault: one window too many
FinishWindowOnceMore(p) ==
  /\ windows' = [windows EXCEPT ![p] = @ + 1]
  /\ phase' = [phase EXCEPT ![p] = IF windows[p] < config.maxTimeWindows
                                   THEN "coupling" ELSE "closeAll"]
  /\ request' = [request EXCEPT ![p] = FALSE]
  /\ swarm' = [swarm EXCEPT ![p] = FALSE]

(* The rest of advance(), the coupling scheme included.                    *)
FinishWindow(p) ==
  /\ windows' = [windows EXCEPT ![p] = @ + 1]
  /\ phase' = [phase EXCEPT ![p] = IF windows[p] + 1 < config.maxTimeWindows
                                   THEN "coupling" ELSE "closeAll"]
  /\ request' = [request EXCEPT ![p] = FALSE]
  /\ swarm' = [swarm EXCEPT ![p] = FALSE]

GoTo(p, next) ==
  phase' = [phase EXCEPT ![p] = next] /\ UNCHANGED <<windows, request, swarm>>

(* The loop has run through.  Connected meshes end setupCommunication(),   *)
(* whose last loop deletes the directories of the addresses p published;   *)
(* it returns to initialize() or to the advance() that reinitialized.      *)
EndLoop(p) ==
  /\ InLoop(p) /\ Remaining(p) = {}
  /\ visited' = [visited EXCEPT ![p] = {}]
  /\ sweeps' = [sweeps EXCEPT ![p] = IF IsSweep(p) THEN @ + 1 ELSE @]
  /\ address' = IF phase[p] = "connectSecondaries"
                THEN {l \in address : l[2] # p} ELSE address
  /\ CASE phase[p] = "connectPrimaries" -> GoTo(p, "connectSecondaries")
       [] phase[p] = "connectSecondaries" ->
            IF swarm[p] THEN FinishWindow(p) ELSE GoTo(p, "coupling")
       [] phase[p] = "handshake" ->
            IF swarm[p] THEN GoTo(p, "closeDistributed") ELSE FinishWindow(p)
       [] phase[p] = "closeDistributed" -> GoTo(p, "connectPrimaries")
       [] phase[p] = "closeAll" -> GoTo(p, "finalized")
  /\ UNCHANGED <<config, busy, primary, secondary, calling, accepted, wire>>

\* fault: only a participant with changes asks its partners
EndWindowUnasked(p) ==
  /\ phase[p] = "coupling"
  /\ \/ /\ config.allowsRemeshing /\ windows[p] > 0
        /\ phase' = [phase EXCEPT ![p] = "handshake"]
        /\ request' = [request EXCEPT ![p] = TRUE]
        /\ swarm' = [swarm EXCEPT ![p] = TRUE]
        /\ UNCHANGED windows
     \/ FinishWindow(p)
  /\ UNCHANGED <<config, visited, busy, primary, secondary, net, sweeps>>

(* advance() reaches the end of the window.  resetMesh() is only allowed   *)
(* once a window is complete, so never in the first one.                   *)
EndWindow(p) ==
  /\ phase[p] = "coupling"
  /\ IF config.allowsRemeshing
     THEN \E changed \in IF windows[p] > 0 THEN BOOLEAN ELSE {FALSE} :
            /\ phase' = [phase EXCEPT ![p] = "handshake"]
            /\ request' = [request EXCEPT ![p] = changed]
            /\ swarm' = [swarm EXCEPT ![p] = changed]
            /\ UNCHANGED windows
     ELSE FinishWindow(p)
  /\ UNCHANGED <<config, visited, busy, primary, secondary, net, sweeps>>

Step(p) == Visit(p) \/ EndLoop(p) \/ EndWindow(p)

Next == \E p \in Participants : Step(p)

(* Every participant is a process of its own that keeps running.           *)
Fairness == \A p \in Participants : WF_vars(Step(p))

Spec == Init /\ [][Next]_vars /\ Fairness

-----------------------------------------------------------------------------
Lines == Phases \X Participants \X Participants
Messages == [kind : {"remesh", "ping", "pong"}, value : BOOLEAN]

TypeOK ==
  /\ config \in Configurations
  /\ phase \in [Participants -> Phases]
  /\ visited \in [Participants -> SUBSET Participants]
  /\ busy \in [Participants -> BOOLEAN]
  /\ primary \in [Participants -> SUBSET Participants]
  /\ secondary \in [Participants -> SUBSET Participants]
  /\ address \subseteq Lines
  /\ calling \subseteq Lines
  /\ accepted \subseteq Lines
  /\ wire \in [Participants \X Participants -> Seq(Messages)]
  /\ request \in [Participants -> BOOLEAN]
  /\ swarm \in [Participants -> BOOLEAN]
  /\ windows \in [Participants -> 0..config.maxTimeWindows]
  /\ sweeps \in [Participants -> Nat]

(* What a participant reads was meant for what it is doing: the assertions *)
(* `receive == ping`, `receive == pong` hold, and a remeshing flag is      *)
(* never taken for one of them.                                            *)
Expects(p, q) ==
  CASE phase[p] = "handshake" -> "remesh"
    [] IsRequesting(p, q) -> "pong"
    [] OTHER -> "ping"
NoCrossTalk ==
  \A p, q \in Participants :
    /\ InLoop(p) /\ Talking(p) /\ At(p, q) /\ wire[<<q, p>>] # <<>>
       => Head(wire[<<q, p>>]).kind = Expects(p, q)
    /\ phase[p] = "finalized" => wire[<<q, p>>] = <<>>

(* While a participant computes, each of its partners holds the            *)
(* connection of their meshes, or is just being told that it exists:       *)
(* nobody closes or replaces a connection the other side still uses.       *)
MeshesOpenWhileCoupling ==
  \A p \in Participants :
    /\ phase[p] = "coupling"
    /\ config.waitInFinalize \/ config.allowsRemeshing
    =>
      \A q \in Partners(p) :
        /\ q \in primary[p] \cap secondary[p]
        /\ p \in primary[q]
        /\ p \in secondary[q] \/ (At(q, p) /\ Line(q, p) \in accepted)

(* With wait-in-finalize nobody is gone before its partners have computed  *)
(* all their windows.                                                      *)
NobodyLeavesEarly ==
  config.waitInFinalize =>
    \A p \in Participants : phase[p] = "finalized" =>
      \A q \in Partners(p) : windows[q] = config.maxTimeWindows

(* A handshake tells whether any participant requests to remesh.           *)
SwarmAgrees ==
  [][\A p \in Participants :
       phase[p] = "handshake" /\ phase'[p] # "handshake" =>
         (phase'[p] = "closeDistributed"
          <=> \E q \in Participants : request[q] /\ windows[q] = windows[p])]_vars

(* When the communication of a mesh is closed, that of the primary ranks   *)
(* has been: GatherScatterCommunication::closeConnection() asserts it.     *)
MeshesCloseLast ==
  [][\A p, q \in Participants :
       q \in secondary[p] /\ q \notin secondary'[p] => q \notin primary'[p]]_vars

(* Every participant gets to the end of finalize().                        *)
EveryoneFinishes == <>(\A p \in Participants : phase[p] = "finalized")

(* The loops are the rounds of Rendezvous.  A visit of the requesting side *)
(* counts from the moment the other side is done with it.                  *)
Answered(p, q) ==
  /\ InLoop(p) /\ At(p, q) /\ busy[p] /\ IsRequesting(p, q)
  /\ IF phase[p] \in Connecting THEN Line(p, q) \in accepted
     ELSE wire[<<q, p>>] # <<>>

Abstract == INSTANCE Rendezvous WITH
  partners <- [p \in Participants |-> Partners(p)],
  round    <- sweeps,
  visited  <- [p \in Participants |->
                 IF ~IsSweep(p) THEN {}
                 ELSE visited[p] \cup {q \in Participants : Answered(p, q)}]

(* Partners go through connecting, shaking hands and closing together, and *)
(* visit each other once in every round: by theorem DeadlockFreedom of     *)
(* RendezvousProofs they never wait for each other in a circle.            *)
ImplementsRendezvous == Abstract!Spec
=============================================================================
