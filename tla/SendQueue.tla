------------------------------- MODULE SendQueue -------------------------------
(***************************************************************************)
(* The point-to-point exchange of mesh data between the ranks of two       *)
(* participants over sockets.                                              *)
(*                                                                         *)
(* A rank has two threads.  Its solver thread calls                        *)
(* PointToPointCommunication::send, which hands one buffer per mapping to  *)
(* the SocketSendQueue of the communication and returns, and               *)
(* PointToPointCommunication::receive, which waits.  Its I/O thread runs   *)
(* _ioContext: it writes and reads, and runs the handler that completes a  *)
(* request and starts the next write.  One queue serves the sockets to all *)
(* remote ranks, a message is more than a socket takes at once, and the    *)
(* solver thread closes the connection while handlers may still run.       *)
(***************************************************************************)
EXTENDS Integers, Sequences, SequencesExt

CONSTANTS
  Configurations,  \* the ranks, what they exchange and when, and in how many
                   \* pieces a message is written
  Capacity         \* bound: how many of them a socket takes before it blocks

Calls == {"sending", "receiving"}

\* Each rank has the calls that its participant makes, in their order, and its
\* mappings in an order of its own.  Ranks may or may not be collective: those of
\* one participant wait for each other before each call (syncTimestep()).
Admissible(c) ==
  LET ranks == DOMAIN c.mappings
  IN  /\ DOMAIN c.calls = ranks /\ c.first \subseteq ranks /\ c.collective \in BOOLEAN
      /\ c.pieces \in Nat \ {0}
      /\ \A r \in ranks :
           /\ c.calls[r] \in Seq(Calls)
           /\ c.mappings[r] \in Seq({q \in ranks : q \in c.first <=> r \notin c.first})
           /\ IsInjective(c.mappings[r])
      /\ \A r, q \in ranks : q \in ToSet(c.mappings[r]) <=> r \in ToSet(c.mappings[q])

ASSUME SendQueueAssumption ==
  /\ \A c \in Configurations : Admissible(c)
  /\ Capacity \in Nat \ {0}

VARIABLES
  config,            \* the configuration
  pc,                \* where the solver thread is
  phase,             \* how many of its calls it has begun
  posted,            \* the mappings that its send() is done with
  bufferedRequests,  \* the requests with their buffers that send() keeps
  completed,         \* the requests that are complete
  itemQueue,         \* _itemQueue of the SocketSendQueue
  ready,             \* _ready
  writing,           \* the writes that have begun, with the pieces written
  handler,           \* whether a handler runs and still has to call sendCompleted()
  wire,              \* what is under way in the socket from a rank to another
  inbox              \* the pieces that its receive() has read, per remote rank

solverVars == <<pc, phase, posted, bufferedRequests>>
queueVars == <<itemQueue, ready, writing>>
vars == <<config, solverVars, completed, queueVars, handler, wire, inbox>>

Ranks == DOMAIN config.mappings
mappings == config.mappings   \* _mappings: the remote ranks of each rank, in order
Pieces == config.pieces
Partners(r) == ToSet(mappings[r])
SameParticipant(r, q) == r \in config.first <=> q \in config.first

\* A request is known by its receiver and its message, a write also by the
\* pieces it has written.
Items == [to : Ranks, message : Nat]
Writes == [to : Ranks, message : Nat, pieces : 0 .. Pieces]

\* The call a rank is in, and the number of the message it sends or receives
Call(r) == config.calls[r][phase[r]]
Message(r) == Cardinality({i \in 1 .. phase[r] : config.calls[r][i] = Call(r)})

\* The item of the mapping that send() is at
Item(r) == [to |-> mappings[r][posted[r] + 1], message |-> Message(r)]

--------------------------------------------------------------------------------
(* SocketSendQueue *)

\* process() of a queue that contains items and whose last write is over if done
ProcessUnready(r, items, done) ==   \* fault: writes do not wait for each other
  IF items = <<>>
  THEN itemQueue' = [itemQueue EXCEPT ![r] = items]
       /\ ready' = [ready EXCEPT ![r] = done] /\ UNCHANGED writing
  ELSE /\ itemQueue' = [itemQueue EXCEPT ![r] = Tail(items)]
       /\ ready' = [ready EXCEPT ![r] = FALSE]
       /\ writing' = [writing EXCEPT ![r] = @ \cup
            {[to |-> Head(items).to, message |-> Head(items).message, pieces |-> 0]}]

Process(r, items, done) ==
  IF ~done \/ items = <<>>
  THEN itemQueue' = [itemQueue EXCEPT ![r] = items]
       /\ ready' = [ready EXCEPT ![r] = done] /\ UNCHANGED writing
  ELSE /\ itemQueue' = [itemQueue EXCEPT ![r] = Tail(items)]
       /\ ready' = [ready EXCEPT ![r] = FALSE]
       /\ writing' = [writing EXCEPT ![r] = @ \cup
            {[to |-> Head(items).to, message |-> Head(items).message, pieces |-> 0]}]

\* sendCompleted(): the handler of the last write is at its end.
SendCompletedOnly(r) ==   \* fault: the next item is not started
  /\ handler[r]
  /\ handler' = [handler EXCEPT ![r] = FALSE]
  /\ ready' = [ready EXCEPT ![r] = TRUE]
  /\ UNCHANGED <<config, solverVars, completed, itemQueue, writing, wire, inbox>>

SendCompleted(r) ==
  /\ handler[r]
  /\ handler' = [handler EXCEPT ![r] = FALSE]
  /\ Process(r, itemQueue[r], TRUE)
  /\ UNCHANGED <<config, solverVars, completed, wire, inbox>>

--------------------------------------------------------------------------------
(* The I/O thread, until closeConnection() stops it *)

IORuns(r) == pc[r] \notin {"joining", "closed"}

\* async_write moves the next piece into the socket.
WritePiece(r, w) ==
  /\ IORuns(r) /\ w \in writing[r]
  /\ w.pieces < Pieces /\ Len(wire[r][w.to]) < Capacity
  /\ wire' = [wire EXCEPT ![r][w.to] = Append(@, <<w.message, w.pieces + 1>>)]
  /\ writing' = [writing EXCEPT ![r] = (@ \ {w}) \cup {[w EXCEPT !.pieces = @ + 1]}]
  /\ UNCHANGED <<config, solverVars, completed, itemQueue, ready, handler, inbox>>

\* The handler of a finished write begins with the callback of aSend(), which
\* completes the request.
Callback(r, w) ==
  /\ IORuns(r) /\ w \in writing[r] /\ w.pieces = Pieces /\ ~handler[r]
  /\ completed' = [completed EXCEPT ![r] = @ \cup {[to |-> w.to, message |-> w.message]}]
  /\ writing' = [writing EXCEPT ![r] = @ \ {w}]
  /\ handler' = [handler EXCEPT ![r] = TRUE]
  /\ UNCHANGED <<config, solverVars, itemQueue, ready, wire, inbox>>

\* async_read of aReceive() takes the next piece that q sent, up to the size of
\* the message.
ReadPieceOn(r, q) ==   \* fault: it reads into the next message
  /\ pc[r] = "receiving" /\ q \in Partners(r)
  /\ wire[q][r] # <<>>
  /\ inbox' = [inbox EXCEPT ![r][q] = Append(@, Head(wire[q][r]))]
  /\ wire' = [wire EXCEPT ![q][r] = Tail(@)]
  /\ UNCHANGED <<config, solverVars, completed, queueVars, handler>>

ReadPiece(r, q) ==
  /\ pc[r] = "receiving" /\ q \in Partners(r)
  /\ wire[q][r] # <<>> /\ Len(inbox[r][q]) < Pieces
  /\ inbox' = [inbox EXCEPT ![r][q] = Append(@, Head(wire[q][r]))]
  /\ wire' = [wire EXCEPT ![q][r] = Tail(@)]
  /\ UNCHANGED <<config, solverVars, completed, queueVars, handler>>

IOThread(r) ==
  \/ \E w \in writing[r] : WritePiece(r, w) \/ Callback(r, w)
  \/ \E q \in Partners(r) : ReadPiece(r, q)
  \/ SendCompleted(r)

--------------------------------------------------------------------------------
(* The solver thread *)

\* Another call of send() or receive()
MayBegin(r) == phase[r] < Len(config.calls[r])

InStep(r) == \A q \in Ranks : SameParticipant(r, q) => phase[r] <= phase[q]

Begin(r) ==
  /\ pc[r] = "solving" /\ MayBegin(r)
  /\ config.collective => InStep(r)
  /\ phase' = [phase EXCEPT ![r] = @ + 1]
  /\ pc' = [pc EXCEPT ![r] = config.calls[r][phase[r] + 1]]
  /\ UNCHANGED <<config, posted, bufferedRequests, completed,
                 queueVars, handler, wire, inbox>>

\* aSend() for one mapping: dispatch() puts its item at the end of the queue.
Appended(items, item) == Append(items, item)

Dispatch(r) ==
  /\ pc[r] = "sending" /\ posted[r] < Len(mappings[r])
  /\ Process(r, Appended(itemQueue[r], Item(r)), ready[r])
  /\ pc' = [pc EXCEPT ![r] = "emplacing"]
  /\ UNCHANGED <<config, phase, posted, bufferedRequests, completed,
                 handler, wire, inbox>>

\* The request and the buffer are kept; until here a local variable held them.
Emplace(r) ==
  /\ pc[r] = "emplacing"
  /\ bufferedRequests' = [bufferedRequests EXCEPT ![r] = @ \cup {Item(r)}]
  /\ posted' = [posted EXCEPT ![r] = @ + 1]
  /\ pc' = [pc EXCEPT ![r] = "sending"]
  /\ UNCHANGED <<config, phase, completed, queueVars, handler, wire, inbox>>

\* The requests whose test() succeeds
TestedBegun(r) ==   \* fault: a request is complete once its write begins
  bufferedRequests[r] \ ToSet(itemQueue[r])

Tested(r) == bufferedRequests[r] \cap completed[r]

\* The end of send(): checkBufferedRequests(false) drops the complete requests.
CheckBufferedRequests(r) ==
  /\ pc[r] = "sending" /\ posted[r] = Len(mappings[r])
  /\ bufferedRequests' = [bufferedRequests EXCEPT ![r] = @ \ Tested(r)]
  /\ posted' = [posted EXCEPT ![r] = 0]
  /\ pc' = [pc EXCEPT ![r] = "solving"]
  /\ UNCHANGED <<config, phase, completed, queueVars, handler, wire, inbox>>

\* receive() returns once the requests of all mappings are complete.
ReceiveReturns(r) ==
  /\ pc[r] = "receiving"
  /\ \A q \in Partners(r) : Len(inbox[r][q]) = Pieces
  /\ inbox' = [inbox EXCEPT ![r] = [q \in Ranks |-> <<>>]]
  /\ pc' = [pc EXCEPT ![r] = "solving"]
  /\ UNCHANGED <<config, phase, posted, bufferedRequests, completed,
                 queueVars, handler, wire>>

\* PointToPointCommunication::closeConnection(): checkBufferedRequests(true)
\* goes over the requests until all are complete, then the destructor of the
\* communication stops the I/O thread.
Close(r) ==
  /\ pc[r] = "solving" /\ ~MayBegin(r)
  /\ bufferedRequests[r] = Tested(r)
  /\ bufferedRequests' = [bufferedRequests EXCEPT ![r] = {}]
  /\ pc' = [pc EXCEPT ![r] = "joining"]
  /\ UNCHANGED <<config, phase, posted, completed, queueVars, handler, wire, inbox>>

\* The thread is joined: a handler that runs comes to its end, then the queue
\* is destroyed with the communication.
JoinAtOnce(r) ==   \* fault: the thread is not joined
  /\ pc[r] = "joining"
  /\ pc' = [pc EXCEPT ![r] = "closed"]
  /\ UNCHANGED <<config, phase, posted, bufferedRequests, completed,
                 queueVars, handler, wire, inbox>>

Join(r) ==
  /\ pc[r] = "joining" /\ ~handler[r]
  /\ pc' = [pc EXCEPT ![r] = "closed"]
  /\ UNCHANGED <<config, phase, posted, bufferedRequests, completed,
                 queueVars, handler, wire, inbox>>

SolverThread(r) ==
  \/ Begin(r) \/ Dispatch(r) \/ Emplace(r) \/ CheckBufferedRequests(r)
  \/ ReceiveReturns(r) \/ Close(r) \/ Join(r)

--------------------------------------------------------------------------------
Init ==
  /\ config \in Configurations
  /\ pc = [r \in Ranks |-> "solving"]
  /\ phase = [r \in Ranks |-> 0]
  /\ posted = [r \in Ranks |-> 0]
  /\ bufferedRequests = [r \in Ranks |-> {}]
  /\ completed = [r \in Ranks |-> {}]
  /\ itemQueue = [r \in Ranks |-> <<>>]
  /\ ready = [r \in Ranks |-> TRUE]
  /\ writing = [r \in Ranks |-> {}]
  /\ handler = [r \in Ranks |-> FALSE]
  /\ wire = [r \in Ranks |-> [q \in Ranks |-> <<>>]]
  /\ inbox = [r \in Ranks |-> [q \in Ranks |-> <<>>]]

Next == \E r \in Ranks : SolverThread(r) \/ IOThread(r)

\* The operating system runs both threads of every rank.
Fairness ==
  \A r \in UNION {DOMAIN c.mappings : c \in Configurations} :
    WF_vars(r \in Ranks /\ SolverThread(r)) /\ WF_vars(r \in Ranks /\ IOThread(r))

Spec == Init /\ [][Next]_vars /\ Fairness

--------------------------------------------------------------------------------
(* Properties *)

\* Every variable stays in its type; and no receive() reads more than
\* the size of its message.
TypeOK ==
  /\ config \in Configurations
  /\ pc \in [Ranks -> {"solving", "sending", "emplacing", "receiving",
                       "joining", "closed"}]
  /\ phase \in [Ranks -> Nat] /\ \A r \in Ranks : phase[r] <= Len(config.calls[r])
  /\ posted \in [Ranks -> Nat]
  /\ bufferedRequests \in [Ranks -> SUBSET Items]
  /\ completed \in [Ranks -> SUBSET Items]
  /\ itemQueue \in [Ranks -> Seq(Items)]
  /\ ready \in [Ranks -> BOOLEAN] /\ handler \in [Ranks -> BOOLEAN]
  /\ writing \in [Ranks -> SUBSET Writes]
  /\ wire \in [Ranks -> [Ranks -> Seq(Nat \X (1 .. Pieces))]]
  /\ inbox \in [Ranks -> [Ranks -> Seq(Nat \X (1 .. Pieces))]]
  /\ \A r, q \in Ranks : Len(inbox[r][q]) <= Pieces

\* What receive() reads from a remote rank are the pieces of the message of
\* this round in their order: writes to a socket neither overlap nor overtake
\* each other (dispatch(), process() and sendCompleted() under _queueMutex).
MessagesWhole ==
  \A r, q \in Ranks : \A i \in 1 .. Len(inbox[r][q]) :
    inbox[r][q][i] = <<Message(r), i>>

\* The data of every queued or started write is alive: send() still holds its
\* buffer or keeps it in bufferedRequests (checkBufferedRequests drops only
\* what is complete).
BuffersAlive ==
  \A r \in Ranks :
    LET alive == bufferedRequests[r] \cup IF pc[r] = "emplacing" THEN {Item(r)} ELSE {}
    IN  /\ ToSet(itemQueue[r]) \subseteq alive
        /\ \A w \in writing[r] : [to |-> w.to, message |-> w.message] \in alive

\* When the communication is destroyed its queue is empty ("If items are left
\* in the queue upon destruction, something went really wrong"), nothing is
\* being written and no handler will touch the queue any more.
QueueOutlivesHandlers ==
  \A r \in Ranks : pc[r] = "closed" =>
    itemQueue[r] = <<>> /\ writing[r] = {} /\ ~handler[r]

\* Every rank gets through all its exchanges and closes, although a write that
\* waits for a slow receiver holds up those to all others behind it, and
\* although sockets take less than a message.
AllClose == <>(\A r \in Ranks : pc[r] = "closed")

================================================================================
