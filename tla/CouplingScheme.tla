----------------------------- MODULE CouplingScheme -----------------------------
(***************************************************************************)
(* Two coupled participants: what BaseCouplingScheme, BiCouplingScheme and *)
(* ParticipantImpl keep and do independently of the order in which a       *)
(* derived scheme exchanges data.  SerialCoupling and ParallelCoupling     *)
(* extend this module with exchangeInitialData, exchangeFirstData and      *)
(* exchangeSecondData.                                                     *)
(*                                                                         *)
(* Every participant is a process.  pc says where it is: in its solver     *)
(* ("solving"), before one of the blocking sends and receives of an API    *)
(* call (named after the function called), or at an end.                   *)
(***************************************************************************)
EXTENDS Integers, Sequences, Storage

CONSTANTS
  First, Second,   \* the participants; First does the first step
  Measures,        \* the convergence measures of an implicit scheme
  Configurations,  \* what the configuration file may say
  StepBound,       \* bound on a solver's time step when nothing else does
  IterationBound   \* bound on the iterations of a window without a limit

Participants == {First, Second}
Other(p) == IF p = First THEN Second ELSE First

VARIABLES
  config,    \* the configuration that both participants have read
  pc,        \* where each participant is
  scheme,    \* the members of its BaseCouplingScheme
  written,   \* the samples of the data it sends
  received,  \* the samples of the data it receives
  channel,   \* the messages on their way to it, in order
  solver     \* its solver: the time it is at and its checkpoint

vars == <<config, pc, scheme, written, received, channel, solver>>

--------------------------------------------------------------------------------
(* The configuration *)

Implicit       == config.implicit        \* iterating, or explicit coupling
MaxTime        == config.maxTime
MaxTimeWindows == config.maxTimeWindows
TimeWindowSize == config.timeWindowSize  \* Undefined: First sets it
MinIterations  == config.minIterations
MaxIterations  == config.maxIterations
Measuring      == config.measures        \* the convergence measures in use,
Suffices       == config.suffices        \*   those that suffice
Strict         == config.strict          \*   and those that are strict
Sends          == config.sends           \* the participants with data to send
Initializes    == config.initializes     \* those that send initial data
Substeps       == config.substeps        \* those that exchange substeps
Requesting     == config.requesting      \* isRequesting of the BoundM2N
WaitInFinalize == config.waitInFinalize
Synchronous    == config.synchronous     \* a send returns when it is received

Time == INSTANCE TimeHandler WITH Infinity <- StepBound
Undefined == Time!Undefined

\* What the configuration admits.  checkIterationLimits() adds nothing: it looks
\* for -1 where updateConfigForImplicitCoupling() has put -2 before.
Admissible(c) ==
  /\ c.implicit \in BOOLEAN /\ c.waitInFinalize \in BOOLEAN /\ c.synchronous \in BOOLEAN
  /\ {c.maxTime, c.maxTimeWindows, c.timeWindowSize, c.maxIterations} \subseteq
       (Nat \ {0}) \cup {Undefined}
  /\ c.minIterations \in Nat \ {0}
  /\ c.maxIterations # Undefined => c.minIterations <= c.maxIterations
  /\ c.measures \subseteq Measures
  /\ c.suffices \subseteq c.measures /\ c.strict \subseteq c.measures
  /\ c.sends \subseteq Participants /\ c.initializes \subseteq c.sends
  /\ c.substeps \subseteq c.sends
  /\ c.implicit => c.sends = Participants
  /\ c.requesting \in Participants

ASSUME ConfigAssumption ==
  /\ First # Second
  /\ \A c \in Configurations : Admissible(c)
  /\ StepBound \in Nat \ {0} /\ IterationBound \in Nat

--------------------------------------------------------------------------------
Actions == {"InitializeData", "WriteCheckpoint", "ReadCheckpoint"}

Schemes ==
  [time : Time!TimeHandlers, timeWindows : Nat,
   timeWindowSize : Nat \cup {Undefined}, nextTimeWindowSize : Nat \cup {Undefined},
   iterations : Nat, totalIterations : Nat,
   hasConverged : BOOLEAN, isTimeWindowComplete : BOOLEAN,
   hasDataBeenReceived : BOOLEAN,
   requiredActions : SUBSET Actions, fulfilledActions : SUBSET Actions]

Messages ==
  [kind : {"size"}, size : Nat] \cup
  [kind : {"data"}, samples : SUBSET Samples] \cup
  [kind : {"convergence"}, hasConverged : BOOLEAN] \cup
  [kind : {"ping", "pong"}]

\* Before an operation of initialize(), and of the exchanges of advance()
InitializeSteps == {"initSendData", "initReceiveData",
                    "initReceiveTimeWindowSize", "initReceiveDataForWindowEnd"}
ExchangeSteps == {"sendTimeWindowSize", "sendData", "sendConvergence",
                  "receiveConvergence", "receiveData", "receiveTimeWindowSize",
                  "receiveDataForWindowEnd"}
Ends == {"finalized", "failed"}
Places == InitializeSteps \cup ExchangeSteps \cup Ends
          \cup {"constructed", "solving", "receivePing", "receivePong"}

--------------------------------------------------------------------------------
(* Queries of a coupling scheme c *)

DoesFirstStep(p) == p = First

HasTimeWindowSize(c) == c.timeWindowSize # Undefined

FirstParticipantSetsTimeWindowSize == TimeWindowSize = Undefined

\* A participant without a time window size always does exactly one step.
ReachedEndOfTimeWindow(c) ==
  HasTimeWindowSize(c) => Time!ReachedEndOfWindow(c.time, c.timeWindowSize)

IsCouplingOngoing(c) ==
  /\ MaxTimeWindows = Undefined \/ MaxTimeWindows >= c.timeWindows
  /\ ~Time!ReachedEnd(c.time)

NextTimeStepMaxSize(c) ==
  IF ~IsCouplingOngoing(c) THEN 0
  ELSE IF HasTimeWindowSize(c) THEN Time!UntilWindowEnd(c.time, c.timeWindowSize)
  ELSE Time!UntilEnd(c.time)

MissingActions(c) == c.requiredActions \ c.fulfilledActions

\* The coupling round a participant is in: iterations count through all
\* windows, a window without iterations is one round.
Round(c) == IF Implicit THEN c.totalIterations ELSE c.timeWindows

--------------------------------------------------------------------------------
(* What the calls of the base class make of a coupling scheme c *)

Constructed(p) ==
  [time |-> Time!ResetTo(0), timeWindows |-> 1,
   timeWindowSize |-> TimeWindowSize, nextTimeWindowSize |-> TimeWindowSize,
   iterations |-> 1, totalIterations |-> 1,
   hasConverged |-> FALSE, isTimeWindowComplete |-> FALSE,
   hasDataBeenReceived |-> FALSE,
   requiredActions |-> IF p \in Initializes THEN {"InitializeData"} ELSE {},
   fulfilledActions |-> {}]

NotifyDataHasBeenReceived(c) == [c EXCEPT !.hasDataBeenReceived = TRUE]

AddComputedTime(c, dt) == [c EXCEPT !.time = Time!ProgressBy(@, dt)]

\* checkCompletenessRequiredActions once nothing is missing
ClearActions(c) == [c EXCEPT !.requiredActions = {}, !.fulfilledActions = {}]

\* firstExchange() up to exchangeFirstData(): the window counts as done until
\* secondExchange() finds that it did not converge.
FirstExchangeUncounted(c) ==   \* fault: the window is not counted
  [ClearActions(c) EXCEPT
     !.hasDataBeenReceived = FALSE, !.isTimeWindowComplete = FALSE]

FirstExchange(c) ==
  [ClearActions(c) EXCEPT
     !.hasDataBeenReceived = FALSE, !.isTimeWindowComplete = FALSE,
     !.timeWindows = IF ReachedEndOfTimeWindow(c) THEN @ + 1 ELSE @]

\* secondExchange() after exchangeSecondData(), at the end of a time window
SecondExchange(c) ==
  LET complete == ~Implicit \/ c.hasConverged
      required == IF ~complete THEN {"ReadCheckpoint"}
                  ELSE IF Implicit /\ IsCouplingOngoing(c) THEN {"WriteCheckpoint"}
                  ELSE {}
  IN  [ClearActions(c) EXCEPT
         !.requiredActions = required,
         !.isTimeWindowComplete = complete,
         !.timeWindows = IF complete THEN @ ELSE @ - 1,
         !.totalIterations = IF Implicit THEN @ + 1 ELSE @,
         !.iterations = IF complete THEN 1 ELSE @ + 1,
         !.time = IF complete THEN Time!CompleteTimeWindow(@, c.timeWindowSize)
                  ELSE Time!ResetProgress(@),
         !.timeWindowSize = c.nextTimeWindowSize]

\* measureConvergence(), given the measures that find convergence
MeasureConvergence(c, converged) ==
  /\ Measuring # {}
  /\ c.iterations >= MinIterations
  /\ \/ converged = Measuring
     \/ converged \cap Suffices # {} /\ Strict \subseteq converged

\* The check of measureConvergence() that ends the simulation with an error
StrictMeasureFails(c, converged) ==
  /\ Strict \ converged # {}
  /\ ~(c.iterations < MaxIterations)

\* Bound: without max-iterations a window converges by IterationBound.
WithinBound(c, converged) ==
  MaxIterations = Undefined /\ c.iterations >= IterationBound =>
    MeasureConvergence(c, converged)

\* doImplicitStep(): the verdict on the coupling iteration
DoImplicitStepLate(c, converged) ==   \* fault: one iteration too many
  [c EXCEPT !.hasConverged =
     MeasureConvergence(c, converged) \/ c.iterations = MaxIterations + 1]

DoImplicitStep(c, converged) ==
  [c EXCEPT !.hasConverged =
     MeasureConvergence(c, converged) \/ c.iterations = MaxIterations]

--------------------------------------------------------------------------------
(* Communication *)

\* A send that blocks until it is received holds up all that follows it.
CanProceed(p) == Synchronous => channel[Other(p)] = <<>>

Send(p, m) == channel' = [channel EXCEPT ![Other(p)] = Append(@, m)]

HasMessage(p, kind) == channel[p] # <<>> /\ Head(channel[p]).kind = kind

Receive(p) == channel' = [channel EXCEPT ![p] = Tail(@)]

\* sendData() of what is in the store: all samples of the window or the last
SendStored(p, store) ==
  IF p \in Sends
  THEN Send(p, [kind |-> "data",
                samples |-> IF p \in Substeps THEN store ELSE Last(store)])
  ELSE UNCHANGED channel

\* receiveData() at a point in time: with substeps the samples come with their
\* times and replace all others (deserialize), without them the one sample is
\* stored at that time.
CanReceiveData(p) == Other(p) \in Sends => HasMessage(p, "data")

ReceivedAt(p, time) ==
  IF Other(p) \notin Sends THEN received[p]
  ELSE LET samples == Head(channel[p]).samples
       IN  IF Other(p) \in Substeps THEN samples
           ELSE SetSampleAtTime(received[p], time, samples)

ReceiveDataMessage(p) ==
  IF Other(p) \in Sends THEN Receive(p) ELSE UNCHANGED channel

\* receiveDataForWindowEnd() receives at the end of the window to come.
WindowEndAsBefore(c) ==   \* fault: the size of the window before
  Time!TimeOf(Time!ProgressBy(c.time, c.timeWindowSize))

WindowEndToCome(c) ==
  Time!TimeOf(Time!ProgressBy(c.time, c.nextTimeWindowSize))

Goto(p, place) == pc' = [pc EXCEPT ![p] = place]

\* A step at place, held up by an earlier send that still blocks
At(p, place) == pc[p] = place /\ CanProceed(p)

\* One call of sendData() or receiveData() of initialize()
InitSendData(p, place) ==
  /\ At(p, "initSendData")
  /\ SendStored(p, written[p])
  /\ Goto(p, place)
  /\ UNCHANGED <<scheme, written, received, solver>>

InitReceiveData(p, c, place) ==
  /\ At(p, "initReceiveData")
  /\ CanReceiveData(p)
  /\ received' = [received EXCEPT ![p] = ReceivedAt(p, Time!TimeOf(scheme[p].time))]
  /\ scheme' = [scheme EXCEPT ![p] = c]
  /\ ReceiveDataMessage(p)
  /\ Goto(p, place)
  /\ UNCHANGED <<written, solver>>

--------------------------------------------------------------------------------
(* Exchanges common to the two schemes *)

\* moveToNextWindow() for a window that is done
Moved(c, store) ==
  IF ~Implicit \/ c.hasConverged THEN MoveToNextWindow(store) ELSE store

\* The end of advance(): secondExchange() has received all it needs and leaves
\* scheme c and the samples w and r; handleDataAfterAdvance() trims them.
FinishAdvance(p, c, w, r) ==
  LET d == SecondExchange(c)
      now == Time!TimeOf(d.time)
  IN  /\ scheme' = [scheme EXCEPT ![p] = d]
      /\ written' = [written EXCEPT ![p] =
           IF d.isTimeWindowComplete THEN TrimBefore(w, now) ELSE TrimAfter(w, now)]
      /\ received' = [received EXCEPT ![p] =
           IF d.isTimeWindowComplete THEN TrimBefore(r, now) ELSE r]
      /\ Goto(p, "solving")
      /\ UNCHANGED solver

\* The part of First in an exchange of data: its data goes out, and once the
\* data of Second is in, its advance ends with Second's verdict.
FirstSendsDataOnly(p) ==   \* fault: no wait for the verdict
  /\ At(p, "sendData") /\ p = First
  /\ SendStored(p, written[p])
  /\ Goto(p, "receiveData")
  /\ UNCHANGED <<scheme, written, received, solver>>

FirstSendsData(p) ==
  /\ At(p, "sendData") /\ p = First
  /\ SendStored(p, written[p])
  /\ Goto(p, IF Implicit THEN "receiveConvergence" ELSE "receiveData")
  /\ UNCHANGED <<scheme, written, received, solver>>

FirstReceivesData(p) ==
  /\ At(p, "receiveData") /\ p = First /\ CanReceiveData(p)
  /\ LET c == NotifyDataHasBeenReceived(scheme[p])
         r == ReceivedAt(p, Time!TimeOf(c.time))
     IN  FinishAdvance(p, c, Moved(c, written[p]), Moved(c, r))
  /\ ReceiveDataMessage(p)

\* receiveConvergence()
ReceiveConvergenceOnce(p) ==   \* fault: an old verdict stays
  /\ At(p, "receiveConvergence") /\ HasMessage(p, "convergence")
  /\ scheme' = [scheme EXCEPT ![p].hasConverged = @ \/ Head(channel[p]).hasConverged]
  /\ Receive(p)
  /\ Goto(p, "receiveData")
  /\ UNCHANGED <<written, received, solver>>

ReceiveConvergence(p) ==
  /\ At(p, "receiveConvergence") /\ HasMessage(p, "convergence")
  /\ scheme' = [scheme EXCEPT ![p].hasConverged = Head(channel[p]).hasConverged]
  /\ Receive(p)
  /\ Goto(p, "receiveData")
  /\ UNCHANGED <<written, received, solver>>

\* doImplicitStep() and sendConvergence().  A strict measure that misses the
\* iteration limit ends the simulation with an error instead.
SendConvergence(p) ==
  /\ At(p, "sendConvergence")
  /\ \E converged \in SUBSET Measuring :
       LET c == DoImplicitStep(scheme[p], converged)
       IN  /\ WithinBound(scheme[p], converged)
           /\ IF StrictMeasureFails(scheme[p], converged)
              THEN Goto(p, "failed") /\ UNCHANGED <<scheme, channel>>
              ELSE /\ Goto(p, "sendData")
                   /\ scheme' = [scheme EXCEPT ![p] = c]
                   /\ Send(p, [kind |-> "convergence", hasConverged |-> c.hasConverged])
  /\ UNCHANGED <<written, received, solver>>

--------------------------------------------------------------------------------
(* The API calls a solver makes *)

\* The data of q before its first step
InitialData(q) == IF q \in Sends THEN {[t |-> 0, at |-> 0, round |-> 0]} ELSE {}

\* initialize() until the coupling scheme exchanges initial data.  The solver
\* has called requiresInitialData() and written its data before.
Initialize(p, place) ==
  /\ pc[p] = "constructed"
  /\ scheme' = [scheme EXCEPT
       ![p].fulfilledActions = @ \cup scheme[p].requiredActions,
       ![p].requiredActions = @ \cup (IF Implicit THEN {"WriteCheckpoint"} ELSE {})]
  /\ written' = [written EXCEPT ![p] = InitialData(p)]
  /\ received' = [received EXCEPT ![p] = InitialData(Other(p))]
  /\ Goto(p, place)
  /\ UNCHANGED <<channel, solver>>

RequiresWritingCheckpoint(p) ==
  /\ pc[p] = "solving"
  /\ "WriteCheckpoint" \in MissingActions(scheme[p])
  /\ scheme' = [scheme EXCEPT ![p].fulfilledActions = @ \cup {"WriteCheckpoint"}]
  /\ solver' = [solver EXCEPT ![p].checkpoint = solver[p].time]
  /\ UNCHANGED <<pc, written, received, channel>>

RequiresReadingCheckpoint(p) ==
  /\ pc[p] = "solving"
  /\ "ReadCheckpoint" \in MissingActions(scheme[p])
  /\ scheme' = [scheme EXCEPT ![p].fulfilledActions = @ \cup {"ReadCheckpoint"}]
  /\ solver' = [solver EXCEPT ![p].time = solver[p].checkpoint]
  /\ UNCHANGED <<pc, written, received, channel>>

\* samplizeWriteData() of what the solver wrote at the end of its step dt
SamplizeWriteDataEarly(p, c, dt) ==   \* fault: the time before the step
  SetSampleAtTime(written[p], Time!TimeOf(scheme[p].time),
    {[t |-> 0, at |-> solver[p].time + dt, round |-> Round(c)]})

SamplizeWriteData(p, c, dt) ==
  SetSampleAtTime(written[p], Time!TimeOf(c.time),
    {[t |-> 0, at |-> solver[p].time + dt, round |-> Round(c)]})

\* advance(dt) through firstExchange() until exchangeFirstData(), which begins
\* at place; a step inside the window ends here.
Advance(p, place) ==
  /\ At(p, "solving")
  /\ IsCouplingOngoing(scheme[p])
  /\ MissingActions(scheme[p]) = {}
  /\ \E dt \in 1 .. StepBound :
       LET c   == AddComputedTime(scheme[p], dt)
           windowEnd == ReachedEndOfTimeWindow(c)
       IN  /\ dt <= NextTimeStepMaxSize(scheme[p])
           /\ scheme' = [scheme EXCEPT ![p] = FirstExchange(c)]
           /\ written' = [written EXCEPT ![p] = IF windowEnd \/ p \in Substeps
                                                 THEN SamplizeWriteData(p, c, dt) ELSE @]
           /\ solver' = [solver EXCEPT ![p].time = @ + dt]
           /\ Goto(p, IF windowEnd THEN place ELSE "solving")
  /\ UNCHANGED <<received, channel>>

\* closeCommunicationChannels(): with wait-in-finalize the requesting side
\* pings and its partner answers, then both close the connection.
CloseCommunicationChannels(p) ==
  IF WaitInFinalize /\ p = Requesting
  THEN Goto(p, "receivePong") /\ Send(p, [kind |-> "ping"])
  ELSE Goto(p, IF WaitInFinalize THEN "receivePing" ELSE "finalized") /\ UNCHANGED channel

Finalize(p) ==
  /\ At(p, "solving")
  /\ ~IsCouplingOngoing(scheme[p])
  /\ MissingActions(scheme[p]) = {}
  /\ scheme' = [scheme EXCEPT ![p] = ClearActions(@)]
  /\ CloseCommunicationChannels(p)
  /\ UNCHANGED <<written, received, solver>>

ReceivePing(p) ==
  /\ At(p, "receivePing") /\ HasMessage(p, "ping")
  /\ channel' = [channel EXCEPT ![p] = Tail(@), ![Other(p)] = Append(@, [kind |-> "pong"])]
  /\ Goto(p, "finalized")
  /\ UNCHANGED <<scheme, written, received, solver>>

ReceivePong(p) ==
  /\ At(p, "receivePong") /\ HasMessage(p, "pong")
  /\ Receive(p)
  /\ Goto(p, "finalized")
  /\ UNCHANGED <<scheme, written, received, solver>>

\* A participant ends with an error only where its partner waits for it: the
\* partner's receive fails in turn.
LosePartner(p) ==
  /\ pc[Other(p)] = "failed" /\ channel[p] = <<>>
  /\ pc[p] \in ExchangeSteps
  /\ Goto(p, "failed")
  /\ UNCHANGED <<scheme, written, received, channel, solver>>

--------------------------------------------------------------------------------
Init ==
  /\ config \in Configurations
  /\ pc = [p \in Participants |-> "constructed"]
  /\ scheme = [p \in Participants |-> Constructed(p)]
  /\ written = [p \in Participants |-> {}]
  /\ received = [p \in Participants |-> {}]
  /\ channel = [p \in Participants |-> <<>>]
  /\ solver = [p \in Participants |-> [time |-> 0, checkpoint |-> 0]]

ApiCall(p) ==
  \/ RequiresWritingCheckpoint(p) \/ RequiresReadingCheckpoint(p)
  \/ Finalize(p) \/ ReceivePing(p) \/ ReceivePong(p) \/ LosePartner(p)

--------------------------------------------------------------------------------
(* Properties *)

\* Every variable stays in its type: the places of the calls, the members of
\* BaseCouplingScheme, the storages, and messages of the kinds that are sent.
TypeOK ==
  /\ config \in Configurations
  /\ pc \in [Participants -> Places]
  /\ scheme \in [Participants -> Schemes]
  /\ written \in [Participants -> SUBSET Samples]
  /\ received \in [Participants -> SUBSET Samples]
  /\ channel \in [Participants -> Seq(Messages)]
  /\ solver \in [Participants -> [time : Nat, checkpoint : Nat]]

\* The kind of message that the receive at a place reads
Awaits(place) ==
  CASE place \in {"receiveData", "initReceiveData",
                  "initReceiveDataForWindowEnd", "receiveDataForWindowEnd"} -> "data"
    [] place \in {"receiveTimeWindowSize", "initReceiveTimeWindowSize"} -> "size"
    [] place = "receiveConvergence" -> "convergence"
    [] place = "receivePing" -> "ping"
    [] place = "receivePong" -> "pong"
    [] OTHER -> "nothing"

\* Messages carry no type: a receive takes whatever bytes come next.  Whoever
\* waits in a receive (receiveData, receiveConvergence, ...) finds at the head
\* of its channel the message that receive is meant for.
ExpectedMessage ==
  \A p \in Participants :
    channel[p] # <<>> /\ Awaits(pc[p]) # "nothing" =>
      \/ Head(channel[p]).kind = Awaits(pc[p])
      \/ Awaits(pc[p]) = "data" /\ Other(p) \notin Sends

\* Between two API calls and after reading a required checkpoint, the solver
\* is at the time the scheme is at (getTime), and its checkpoint is the start
\* of the window it may have to repeat (secondExchange requires both actions).
SolverFollowsScheme ==
  \A p \in Participants : pc[p] = "solving" =>
    LET c == scheme[p]
    IN  /\ "ReadCheckpoint" \notin MissingActions(c) =>
             solver[p].time = Time!TimeOf(c.time)
        /\ Implicit /\ IsCouplingOngoing(c) /\ "WriteCheckpoint" \notin MissingActions(c) =>
             solver[p].checkpoint = c.time.start

\* The samples at hand end with one that the partner wrote in round r.
EndsWithRound(p, r) == \E s \in Last(received[p]) : s.round = r

\* A sample is stored under the time at which its writer produced it
\* (setSampleAtTime in receiveData, deserialize and storeBufferedData).
StampsTrue ==
  \A p \in Participants : \A s \in written[p] \cup received[p] : s.t = s.at

\* Whenever a sample is about to be stored, setSampleAtTime's assertion holds:
\* its time is later than all stored times, or is one of them.
StampsInOrder ==
  \A p \in Participants :
    /\ pc[p] = "solving" => \A s \in written[p] : s.t <= Time!TimeOf(scheme[p].time)
    /\ pc[p] \in {"receiveData", "initReceiveData"} =>
         CanSetSampleAtTime(received[p], Time!TimeOf(scheme[p].time))
    /\ pc[p] \in {"receiveDataForWindowEnd", "initReceiveDataForWindowEnd"} =>
         CanSetSampleAtTime(received[p], WindowEndToCome(scheme[p]))

\* Both ends of the coupling, once finalized without an error, did the same
\* number of time windows, are at the same time, and left no message unread.
EndTogether ==
  (\A p \in Participants : pc[p] = "finalized") =>
    /\ scheme[First].timeWindows = scheme[Second].timeWindows
    /\ Time!TimeOf(scheme[First].time) = Time!TimeOf(scheme[Second].time)
    /\ \A p \in Participants : channel[p] = <<>>

\* A step that completes a time window of an implicit scheme, on either side,
\* does so within the configured iteration limits (doImplicitStep decides on
\* one side, the other counts its iterations on its own).
IterationsWithinLimits ==
  [][\A p \in Participants :
       Implicit /\ pc[p] \in ExchangeSteps /\ pc'[p] = "solving"
                /\ scheme'[p].isTimeWindowComplete =>
         /\ scheme[p].iterations >= MinIterations
         /\ MaxIterations # Undefined => scheme[p].iterations <= MaxIterations]_vars

\* The round and the time window a participant is in: from firstExchange to
\* secondExchange the window that was just computed counts as done.
Position(p) ==
  LET c == scheme[p]
      early == IF c.time.progress > 0 /\ ReachedEndOfTimeWindow(c) THEN 1 ELSE 0
      window == c.timeWindows - early
  IN  [round |-> IF Implicit THEN c.totalIterations ELSE window, window |-> window]

Promise == INSTANCE Lockstep WITH
  position <- [p \in Participants |-> Position(p)],
  free <- {p \in Participants : Other(p) \notin Sends}

\* The two participants move in lockstep, as far as they exchange data (the
\* interplay of exchangeFirstData, exchangeSecondData and secondExchange).
KeepsLockstep == Promise!Spec

\* Both participants get to their end: no exchange, no last window and no
\* error of the partner leaves a participant waiting forever.
Terminates == <>[](\A p \in Participants : pc[p] \in Ends)
================================================================================
