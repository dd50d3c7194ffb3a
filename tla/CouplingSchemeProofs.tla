-------------------------- MODULE CouplingSchemeProofs --------------------------
(***************************************************************************)
(* What the operators and actions of CouplingScheme preserve, for any      *)
(* number of configurations and any bounds.  SerialCouplingProofs and      *)
(* ParallelCouplingProofs conclude their theorems from these lemmas.       *)
(***************************************************************************)
EXTENDS CouplingScheme, TLAPS

--------------------------------------------------------------------------------
(* The inductive invariant *)

\* A scheme c at a place: _timeWindows does not fall below 1, and a window size
\* is known wherever data for the end of the next window is received.
SizeIsKnown(place, c) ==
  /\ c.timeWindows >= 1
  /\ place \in ExchangeSteps => c.timeWindows >= 2
  /\ TimeWindowSize # Undefined => c.nextTimeWindowSize = TimeWindowSize
  /\ place \in {"sendTimeWindowSize", "receiveTimeWindowSize", "initReceiveTimeWindowSize"} =>
       TimeWindowSize = Undefined
  /\ place \in {"initReceiveDataForWindowEnd", "receiveDataForWindowEnd"} =>
       c.nextTimeWindowSize # Undefined

Computing == {"constructed", "solving"} \cup InitializeSteps \cup ExchangeSteps

\* A scheme c and a solver s at a place: what is left to be done with the
\* checkpoint, and the times the two are at.
InStep(place, c, s) ==
  /\ place \in Computing =>
       IF "ReadCheckpoint" \in MissingActions(c)
       THEN /\ c.time.progress = 0 /\ s.checkpoint = c.time.start
            /\ "WriteCheckpoint" \notin c.requiredActions
       ELSE s.time = Time!TimeOf(c.time)
  /\ place \in Computing /\ "WriteCheckpoint" \in MissingActions(c) => c.time.progress = 0
  /\ place \in {"constructed"} \cup InitializeSteps =>
       c.time.progress = 0 /\ "ReadCheckpoint" \notin c.requiredActions
  /\ place = "constructed" => c.fulfilledActions = {}
  /\ place \in InitializeSteps /\ Implicit => "WriteCheckpoint" \in MissingActions(c)
  /\ place \in ExchangeSteps => c.requiredActions = {}
  /\ place \in ExchangeSteps /\ Implicit => s.checkpoint = c.time.start
  /\ place = "solving" /\ Implicit /\ IsCouplingOngoing(c) =>
       "WriteCheckpoint" \in MissingActions(c) \/ s.checkpoint = c.time.start

Consistent(place, c, s) == SizeIsKnown(place, c) /\ InStep(place, c, s)

IInv == TypeOK /\ \A p \in Participants : Consistent(pc[p], scheme[p], solver[p])

--------------------------------------------------------------------------------
(* Operators *)

\* TimeHandler::time() is a time.
LEMMA TimeOfType ==
  ASSUME NEW time \in Time!TimeHandlers
  PROVE  Time!TimeOf(time) \in Nat
BY DEF Time!TimeHandlers, Time!TimeOf

\* Completing a window, truncated or not, keeps the time.
LEMMA CompleteKeepsTime ==
  ASSUME NEW time \in Time!TimeHandlers, NEW size
  PROVE  /\ Time!CompleteTimeWindow(time, size) \in Time!TimeHandlers
         /\ Time!TimeOf(Time!CompleteTimeWindow(time, size)) = Time!TimeOf(time)
         /\ Time!CompleteTimeWindow(time, size).progress = 0
BY DEF Time!CompleteTimeWindow, Time!ResetTo, Time!TimeOf, Time!TimeHandlers

\* resetProgress(): an iteration that is repeated starts where it started.
LEMMA ResetReturnsToStart ==
  ASSUME NEW time \in Time!TimeHandlers
  PROVE  /\ Time!ResetProgress(time) \in Time!TimeHandlers
         /\ Time!ResetProgress(time).start = time.start
         /\ Time!ResetProgress(time).progress = 0
BY DEF Time!ResetProgress, Time!TimeHandlers

\* progressBy(): a time step moves the time and not the window's start.
LEMMA ProgressByMovesTime ==
  ASSUME NEW time \in Time!TimeHandlers, NEW dt \in Nat
  PROVE  /\ Time!ProgressBy(time, dt) \in Time!TimeHandlers
         /\ Time!ProgressBy(time, dt).start = time.start
         /\ Time!TimeOf(Time!ProgressBy(time, dt)) = Time!TimeOf(time) + dt
BY DEF Time!ProgressBy, Time!TimeHandlers, Time!TimeOf

\* isCouplingOngoing() depends on the windows counted and the time alone.
LEMMA OngoingByTime ==
  ASSUME NEW c, NEW d, c.timeWindows = d.timeWindows,
         Time!TimeOf(c.time) = Time!TimeOf(d.time)
  PROVE  IsCouplingOngoing(c) <=> IsCouplingOngoing(d)
BY DEF IsCouplingOngoing, Time!ReachedEnd, Time!UntilEnd

\* Clearing the actions leaves all other members of the scheme alone.
LEMMA ClearActionsFields ==
  ASSUME NEW c \in Schemes
  PROVE  /\ ClearActions(c) \in Schemes
         /\ ClearActions(c).requiredActions = {}
         /\ ClearActions(c).fulfilledActions = {}
         /\ ClearActions(c).time = c.time
         /\ ClearActions(c).timeWindows = c.timeWindows
         /\ ClearActions(c).nextTimeWindowSize = c.nextTimeWindowSize
         /\ ClearActions(c).iterations = c.iterations
         /\ ClearActions(c).totalIterations = c.totalIterations
BY DEF ClearActions, Schemes, Actions

\* The operations on a storage keep it a set of samples.
LEMMA StoreTypes ==
  ASSUME NEW store \in SUBSET Samples, NEW time \in Nat, NEW values \in SUBSET Samples
  PROVE  /\ SetSampleAtTime(store, time, values) \in SUBSET Samples
         /\ TrimBefore(store, time) \in SUBSET Samples
         /\ TrimAfter(store, time) \in SUBSET Samples
         /\ MoveToNextWindow(store) \in SUBSET Samples
         /\ Last(store) \in SUBSET Samples
BY DEF SetSampleAtTime, TrimBefore, TrimAfter, MoveToNextWindow, Last, Samples

Complete(c) == ~Implicit \/ c.hasConverged

\* secondExchange() in terms of its fields
LEMMA SecondExchangeFields ==
  ASSUME NEW c \in Schemes, c.timeWindows >= 2,
         NEW d, d = SecondExchange(c)
  PROVE  /\ d \in Schemes
         /\ d.timeWindows = IF Complete(c) THEN c.timeWindows ELSE c.timeWindows - 1
         /\ d.nextTimeWindowSize = c.nextTimeWindowSize
         /\ d.time = IF Complete(c) THEN Time!CompleteTimeWindow(c.time, c.timeWindowSize)
                     ELSE Time!ResetProgress(c.time)
         /\ d.fulfilledActions = {}
         /\ "ReadCheckpoint" \in d.requiredActions <=> ~Complete(c)
         /\ "WriteCheckpoint" \in d.requiredActions <=>
              Complete(c) /\ Implicit /\ IsCouplingOngoing(c)
<1> DEFINE
     complete == ~Implicit \/ c.hasConverged
     required == IF ~complete THEN {"ReadCheckpoint"}
                 ELSE IF Implicit /\ IsCouplingOngoing(c) THEN {"WriteCheckpoint"}
                 ELSE {}
     windows == IF complete THEN c.timeWindows ELSE c.timeWindows - 1
     total == IF Implicit THEN c.totalIterations + 1 ELSE c.totalIterations
     iterations == IF complete THEN 1 ELSE c.iterations + 1
     time == IF complete THEN Time!CompleteTimeWindow(c.time, c.timeWindowSize)
             ELSE Time!ResetProgress(c.time)
     e == ClearActions(c)
<1>1. d = [e EXCEPT !.requiredActions = required,
                    !.isTimeWindowComplete = complete,
                    !.timeWindows = windows,
                    !.totalIterations = total,
                    !.iterations = iterations,
                    !.time = time,
                    !.timeWindowSize = c.nextTimeWindowSize]
  BY ClearActionsFields DEF SecondExchange
<1>2. e \in Schemes /\ e.fulfilledActions = {} /\ e.nextTimeWindowSize = c.nextTimeWindowSize
  BY ClearActionsFields
<1>3. time \in Time!TimeHandlers
  BY CompleteKeepsTime, ResetReturnsToStart DEF Schemes
<1>4. windows \in Nat /\ total \in Nat /\ iterations \in Nat /\ complete \in BOOLEAN
  BY DEF Schemes
<1>5. required \in SUBSET Actions
  BY DEF Actions
<1>6. c.nextTimeWindowSize \in Nat \cup {Undefined}
  BY DEF Schemes
<1>7. /\ complete <=> Complete(c)
      /\ "ReadCheckpoint" \in required <=> ~complete
      /\ "WriteCheckpoint" \in required <=> complete /\ Implicit /\ IsCouplingOngoing(c)
  BY DEF Complete
<1>8. /\ windows = IF Complete(c) THEN c.timeWindows ELSE c.timeWindows - 1
      /\ time = IF Complete(c) THEN Time!CompleteTimeWindow(c.time, c.timeWindowSize)
                ELSE Time!ResetProgress(c.time)
  BY <1>7
<1> HIDE DEF time, windows, total, iterations, complete, required, e
<1>9. /\ d \in Schemes /\ d.fulfilledActions = {} /\ d.requiredActions = required
      /\ d.timeWindows = windows /\ d.time = time
      /\ d.nextTimeWindowSize = c.nextTimeWindowSize
  <2>1. /\ d.fulfilledActions = {} /\ d.requiredActions = required
        /\ d.timeWindows = windows /\ d.time = time
        /\ d.nextTimeWindowSize = c.nextTimeWindowSize
    BY <1>1, <1>2 DEF Schemes
  <2>2. d \in Schemes
    <3> DEFINE f == [e EXCEPT !.requiredActions = required, !.isTimeWindowComplete = complete,
                              !.timeWindows = windows, !.totalIterations = total]
    <3>1. f \in Schemes
      BY <1>2, <1>4, <1>5 DEF Schemes
    <3>2. d = [f EXCEPT !.iterations = iterations, !.time = time,
                        !.timeWindowSize = c.nextTimeWindowSize]
      BY <1>1
    <3> HIDE DEF f
    <3> QED
      BY <3>1, <3>2, <1>3, <1>4, <1>6 DEF Schemes
  <2> QED
    BY <2>1, <2>2
<1> QED
  BY <1>7, <1>8, <1>9

\* What secondExchange() leaves is in step with the solver, whatever the verdict.
LEMMA SecondExchangeConsistent ==
  ASSUME NEW c \in Schemes, SizeIsKnown("sendData", c),
         NEW s, s.time = Time!TimeOf(c.time), Implicit => s.checkpoint = c.time.start
  PROVE  /\ SecondExchange(c) \in Schemes
         /\ Consistent("solving", SecondExchange(c), s)
<1> DEFINE d == SecondExchange(c)
<1>1. c.timeWindows >= 2 /\ c.timeWindows \in Nat
  BY DEF SizeIsKnown, ExchangeSteps, Schemes
<1>2. /\ d \in Schemes
      /\ d.timeWindows = IF Complete(c) THEN c.timeWindows ELSE c.timeWindows - 1
      /\ d.nextTimeWindowSize = c.nextTimeWindowSize
      /\ d.time = IF Complete(c) THEN Time!CompleteTimeWindow(c.time, c.timeWindowSize)
                  ELSE Time!ResetProgress(c.time)
      /\ "ReadCheckpoint" \in MissingActions(d) <=> ~Complete(c)
      /\ "WriteCheckpoint" \in MissingActions(d) <=>
              Complete(c) /\ Implicit /\ IsCouplingOngoing(c)
      /\ "WriteCheckpoint" \in d.requiredActions <=>
              Complete(c) /\ Implicit /\ IsCouplingOngoing(c)
  BY <1>1, SecondExchangeFields DEF MissingActions
<1> HIDE DEF d
<1>3. SizeIsKnown("solving", d)
  BY <1>1, <1>2 DEF SizeIsKnown, ExchangeSteps
<1>4. c.time \in Time!TimeHandlers
  BY DEF Schemes
<1>5. CASE Complete(c)
  <2>1. /\ Time!TimeOf(d.time) = Time!TimeOf(c.time) /\ d.time.progress = 0
    BY <1>2, <1>4, <1>5, CompleteKeepsTime
  <2>2. IsCouplingOngoing(d) <=> IsCouplingOngoing(c)
    BY <1>2, <1>5, <2>1, OngoingByTime
  <2> QED
    BY <1>2, <1>3, <1>5, <2>1, <2>2
       DEF Consistent, InStep, d, Computing, InitializeSteps, ExchangeSteps
<1>6. CASE ~Complete(c)
  <2>1. d.time.progress = 0 /\ d.time.start = c.time.start
    BY <1>2, <1>4, <1>6, ResetReturnsToStart
  <2>2. Implicit
    BY <1>6 DEF Complete
  <2> QED
    BY <1>2, <1>3, <1>6, <2>1, <2>2
       DEF Consistent, InStep, d, Computing, InitializeSteps, ExchangeSteps
<1> QED
  BY <1>5, <1>6

--------------------------------------------------------------------------------
(* Steps *)

Solvers == [time : Nat, checkpoint : Nat]

\* Nothing but the configuration matters to Consistent, and it does not change.
LEMMA ConsistentNext ==
  ASSUME config' = config, NEW place, NEW c, NEW s, Consistent(place, c, s)
  PROVE  Consistent(place, c, s)'
<1>1. SizeIsKnown(place, c)' <=> SizeIsKnown(place, c)
  BY DEF SizeIsKnown, TimeWindowSize, ExchangeSteps
<1>2. IsCouplingOngoing(c)' <=> IsCouplingOngoing(c)
  BY DEF IsCouplingOngoing, MaxTimeWindows, Time!ReachedEnd, Time!UntilEnd, MaxTime
<1>3. InStep(place, c, s)' <=> InStep(place, c, s)
  BY <1>2 DEF InStep, Implicit
<1> QED
  BY <1>1, <1>3 DEF Consistent

\* A step of p that leaves it and its scheme consistent keeps the invariant.
LEMMA StepOf ==
  ASSUME IInv, config' = config, NEW p \in Participants,
         NEW place \in Places, NEW c \in Schemes, NEW s \in Solvers,
         Consistent(place, c, s),
         pc' = [pc EXCEPT ![p] = place],
         scheme' = [scheme EXCEPT ![p] = c],
         solver' = [solver EXCEPT ![p] = s],
         written' \in [Participants -> SUBSET Samples],
         received' \in [Participants -> SUBSET Samples],
         channel' \in [Participants -> Seq(Messages)]
  PROVE  IInv'
<1>1. TypeOK'
  BY DEF IInv, TypeOK, Solvers, Schemes, Places
<1>2. ASSUME NEW q \in Participants
      PROVE  Consistent(pc[q], scheme[q], solver[q])'
  <2>1. CASE q = p
    <3>1. pc'[q] = place /\ scheme'[q] = c /\ solver'[q] = s
      BY <2>1 DEF IInv, TypeOK
    <3>2. Consistent(place, c, s)'
      BY ConsistentNext
    <3> QED
      BY <3>1, <3>2
  <2>2. CASE q # p
    <3>1. pc'[q] = pc[q] /\ scheme'[q] = scheme[q] /\ solver'[q] = solver[q]
      BY <2>2 DEF IInv, TypeOK
    <3>2. Consistent(pc[q], scheme[q], solver[q])
      BY DEF IInv
    <3> QED
      BY <3>1, <3>2, ConsistentNext
  <2> QED
    BY <2>1, <2>2
<1> QED
  BY <1>1, <1>2 DEF IInv

\* The types of a participant's own state
LEMMA Types ==
  ASSUME TypeOK, NEW p \in Participants
  PROVE  /\ pc[p] \in Places /\ scheme[p] \in Schemes /\ solver[p] \in Solvers
         /\ written[p] \in SUBSET Samples /\ received[p] \in SUBSET Samples
         /\ channel[p] \in Seq(Messages)
         /\ Other(p) \in Participants
BY DEF TypeOK, Solvers, Other, Participants

\* What is left alone may be said to be set to what it is.
LEMMA Unchanged ==
  ASSUME TypeOK, NEW p \in Participants
  PROVE  /\ scheme = [scheme EXCEPT ![p] = scheme[p]]
         /\ solver = [solver EXCEPT ![p] = solver[p]]
         /\ pc = [pc EXCEPT ![p] = pc[p]]
BY DEF TypeOK

\* Consistent looks at five members of a scheme only.
LEMMA SameMembers ==
  ASSUME NEW c, NEW d, NEW place, NEW s,
         d.time = c.time, d.timeWindows = c.timeWindows,
         d.nextTimeWindowSize = c.nextTimeWindowSize,
         d.requiredActions = c.requiredActions, d.fulfilledActions = c.fulfilledActions
  PROVE  Consistent(place, c, s) <=> Consistent(place, d, s)
<1>1. IsCouplingOngoing(c) <=> IsCouplingOngoing(d)
  BY OngoingByTime
<1>2. MissingActions(c) = MissingActions(d)
  BY DEF MissingActions
<1> QED
  BY <1>1, <1>2 DEF Consistent, SizeIsKnown, InStep

\* Messages that are sent and received keep the channels in their type.
LEMMA SendType ==
  ASSUME TypeOK, NEW p \in Participants, NEW m \in Messages, Send(p, m)
  PROVE  channel' \in [Participants -> Seq(Messages)]
<1>1. Append(channel[Other(p)], m) \in Seq(Messages)
  BY Types
<1> QED
  BY <1>1 DEF TypeOK, Send

\* Taking the first message off a channel leaves a sequence of messages.
LEMMA ReceiveType ==
  ASSUME TypeOK, NEW p \in Participants, channel[p] # <<>>, Receive(p)
  PROVE  channel' \in [Participants -> Seq(Messages)]
<1>1. Tail(channel[p]) \in Seq(Messages)
  BY Types
<1> QED
  BY <1>1 DEF TypeOK, Receive

\* The first message carries what a message of its kind carries.
LEMMA HeadType ==
  ASSUME TypeOK, NEW p \in Participants, NEW kind, HasMessage(p, kind)
  PROVE  /\ channel[p] # <<>>
         /\ kind = "size" => Head(channel[p]).size \in Nat
         /\ kind = "data" => Head(channel[p]).samples \in SUBSET Samples
         /\ kind = "convergence" => Head(channel[p]).hasConverged \in BOOLEAN
<1>1. channel[p] # <<>> /\ Head(channel[p]).kind = kind
  BY DEF HasMessage
<1>2. Head(channel[p]) \in Messages
  BY <1>1, Types
<1> QED
  BY <1>1, <1>2 DEF Messages

\* sendData() sends samples and nothing else.
LEMMA SendStoredType ==
  ASSUME TypeOK, NEW p \in Participants, SendStored(p, written[p])
  PROVE  channel' \in [Participants -> Seq(Messages)]
<1>1. written[p] \in SUBSET Samples /\ Last(written[p]) \in SUBSET Samples
  BY Types DEF Last
<1>2. CASE p \in Sends
  <2>1. PICK samples \in SUBSET Samples : Send(p, [kind |-> "data", samples |-> samples])
    BY <1>1, <1>2 DEF SendStored
  <2>2. [kind |-> "data", samples |-> samples] \in Messages
    BY DEF Messages
  <2> QED
    BY <2>1, <2>2, SendType
<1>3. CASE p \notin Sends
  BY <1>3 DEF SendStored, TypeOK
<1> QED
  BY <1>2, <1>3

\* receiveData() stores samples, whichever way they come.
LEMMA ReceiveDataTypes ==
  ASSUME TypeOK, NEW p \in Participants, CanReceiveData(p), ReceiveDataMessage(p)
  PROVE  /\ channel' \in [Participants -> Seq(Messages)]
         /\ \A time \in Nat : ReceivedAt(p, time) \in SUBSET Samples
<1>1. received[p] \in SUBSET Samples
  BY Types
<1>2. CASE Other(p) \in Sends
  <2>1. HasMessage(p, "data") /\ Receive(p)
    BY <1>2 DEF CanReceiveData, ReceiveDataMessage
  <2>2. channel[p] # <<>> /\ Head(channel[p]).samples \in SUBSET Samples
    BY <2>1, HeadType
  <2>3. ASSUME NEW time \in Nat PROVE ReceivedAt(p, time) \in SUBSET Samples
    BY <1>1, <1>2, <2>2, StoreTypes DEF ReceivedAt
  <2> QED
    BY <2>1, <2>2, <2>3, ReceiveType
<1>3. CASE Other(p) \notin Sends
  BY <1>1, <1>3 DEF ReceivedAt, ReceiveDataMessage, TypeOK
<1> QED
  BY <1>2, <1>3

--------------------------------------------------------------------------------
(* Actions of initialize() *)

EarlyPlaces == {"solving"} \cup InitializeSteps

\* Going on inside initialize() or leaving it changes nothing that InStep says.
LEMMA EarlyConsistent ==
  ASSUME NEW from \in InitializeSteps, NEW place \in EarlyPlaces, NEW c, NEW s,
         InStep(from, c, s), SizeIsKnown(place, c)
  PROVE  Consistent(place, c, s)
BY DEF InStep, Consistent, EarlyPlaces, Computing, InitializeSteps, ExchangeSteps, MissingActions

\* initialize() asks for the checkpoint and keeps the solver at the start.
LEMMA InitializeStep ==
  ASSUME IInv, config' = config, NEW p \in Participants, NEW place \in EarlyPlaces,
         SizeIsKnown(place, scheme[p]), Initialize(p, place)
  PROVE  IInv'
<1> DEFINE fulfilled == scheme[p].fulfilledActions \cup scheme[p].requiredActions
           required == scheme[p].requiredActions
                         \cup (IF Implicit THEN {"WriteCheckpoint"} ELSE {})
           c == [scheme[p] EXCEPT !.fulfilledActions = fulfilled, !.requiredActions = required]
<1>1. TypeOK
  BY DEF IInv
<1>2. Consistent("constructed", scheme[p], solver[p])
  BY DEF IInv, Initialize
<1>3. scheme' = [scheme EXCEPT ![p] = c]
  BY <1>1 DEF Initialize, TypeOK
<1>4. fulfilled \in SUBSET Actions /\ required \in SUBSET Actions
  BY <1>1, Types DEF Schemes, Actions
<1> HIDE DEF fulfilled, required
<1>5. /\ c \in Schemes /\ c.time = scheme[p].time /\ c.timeWindows = scheme[p].timeWindows
      /\ c.nextTimeWindowSize = scheme[p].nextTimeWindowSize
      /\ c.fulfilledActions = fulfilled /\ c.requiredActions = required
  <2> DEFINE e == scheme[p]
  <2>1. e \in Schemes
    BY <1>1, Types
  <2> HIDE DEF e
  <2>2. [e EXCEPT !.fulfilledActions = fulfilled, !.requiredActions = required] \in Schemes
    BY <2>1, <1>4 DEF Schemes
  <2> QED
    BY <2>1, <2>2 DEF Schemes, e
<1> HIDE DEF c
<1>6. Consistent(place, c, solver[p])
  <2>1. SizeIsKnown(place, c)
    BY <1>5 DEF SizeIsKnown
  <2>2. InStep(place, c, solver[p])
    BY <1>2, <1>5 DEF fulfilled, required, Consistent, InStep, EarlyPlaces, Computing,
                      InitializeSteps, ExchangeSteps, MissingActions
  <2> QED
    BY <2>1, <2>2 DEF Consistent
<1>7. \A q \in Participants : InitialData(q) \in SUBSET Samples
  BY DEF InitialData, Samples
<1>8. /\ written' \in [Participants -> SUBSET Samples]
      /\ received' \in [Participants -> SUBSET Samples]
      /\ channel' \in [Participants -> Seq(Messages)]
  BY <1>1, <1>7, Types DEF Initialize, TypeOK
<1>9. pc' = [pc EXCEPT ![p] = place] /\ solver' = [solver EXCEPT ![p] = solver[p]]
  BY <1>1, Unchanged DEF Initialize, Goto
<1>10. place \in Places
  BY DEF EarlyPlaces, Places
<1> QED
  BY <1>1, <1>3, <1>5, <1>6, <1>8, <1>9, <1>10, Types, StepOf

\* A send of initialize() keeps the invariant.
LEMMA InitSendDataStep ==
  ASSUME IInv, config' = config, NEW p \in Participants, NEW place \in EarlyPlaces,
         SizeIsKnown(place, scheme[p]), InitSendData(p, place)
  PROVE  IInv'
<1>1. TypeOK
  BY DEF IInv
<1>2. pc[p] \in InitializeSteps /\ Consistent(pc[p], scheme[p], solver[p])
  BY DEF IInv, InitSendData, At, InitializeSteps
<1>3. Consistent(place, scheme[p], solver[p])
  BY <1>2, EarlyConsistent DEF Consistent
<1>4. /\ written' \in [Participants -> SUBSET Samples]
      /\ received' \in [Participants -> SUBSET Samples]
      /\ channel' \in [Participants -> Seq(Messages)]
  BY <1>1, SendStoredType DEF InitSendData, TypeOK
<1>5. /\ pc' = [pc EXCEPT ![p] = place]
      /\ scheme' = [scheme EXCEPT ![p] = scheme[p]]
      /\ solver' = [solver EXCEPT ![p] = solver[p]]
  BY <1>1, Unchanged DEF InitSendData, Goto
<1>6. place \in Places
  BY DEF EarlyPlaces, Places
<1> QED
  BY <1>1, <1>3, <1>4, <1>5, <1>6, Types, StepOf

\* Noting that data was received changes no member that the invariant reads.
LEMMA NotifyMembers ==
  ASSUME NEW c \in Schemes, NEW d, d = NotifyDataHasBeenReceived(c)
  PROVE  /\ d \in Schemes /\ d.time = c.time /\ d.timeWindows = c.timeWindows
         /\ d.timeWindowSize = c.timeWindowSize
         /\ d.nextTimeWindowSize = c.nextTimeWindowSize
         /\ d.requiredActions = c.requiredActions /\ d.fulfilledActions = c.fulfilledActions
BY DEF NotifyDataHasBeenReceived, Schemes

\* A receive of initialize() keeps the invariant.
LEMMA InitReceiveDataStep ==
  ASSUME IInv, config' = config, NEW p \in Participants, NEW place \in EarlyPlaces,
         SizeIsKnown(place, scheme[p]),
         NEW c, c \in {scheme[p], NotifyDataHasBeenReceived(scheme[p])},
         InitReceiveData(p, c, place)
  PROVE  IInv'
<1>1. TypeOK
  BY DEF IInv
<1>2. pc[p] \in InitializeSteps /\ Consistent(pc[p], scheme[p], solver[p])
  BY DEF IInv, InitReceiveData, At, InitializeSteps
<1>3. Consistent(place, scheme[p], solver[p])
  BY <1>2, EarlyConsistent DEF Consistent
<1>4. c \in Schemes /\ Consistent(place, c, solver[p])
  BY <1>1, <1>3, Types, NotifyMembers, SameMembers
<1>5. Time!TimeOf(scheme[p].time) \in Nat
  BY <1>1, Types, TimeOfType DEF Schemes
<1>6. /\ written' \in [Participants -> SUBSET Samples]
      /\ received' \in [Participants -> SUBSET Samples]
      /\ channel' \in [Participants -> Seq(Messages)]
  BY <1>1, <1>5, ReceiveDataTypes DEF InitReceiveData, TypeOK
<1>7. /\ pc' = [pc EXCEPT ![p] = place]
      /\ scheme' = [scheme EXCEPT ![p] = c]
      /\ solver' = [solver EXCEPT ![p] = solver[p]]
  BY <1>1, Unchanged DEF InitReceiveData, Goto
<1>8. place \in Places
  BY DEF EarlyPlaces, Places
<1> QED
  BY <1>1, <1>4, <1>6, <1>7, <1>8, Types, StepOf

--------------------------------------------------------------------------------
(* Actions of the solver *)

\* Fulfilling an action takes it off the missing ones and changes nothing else.
LEMMA FulfilMembers ==
  ASSUME NEW c \in Schemes, NEW action \in Actions,
         NEW d, d = [c EXCEPT !.fulfilledActions = @ \cup {action}]
  PROVE  /\ d \in Schemes /\ d.time = c.time /\ d.timeWindows = c.timeWindows
         /\ d.nextTimeWindowSize = c.nextTimeWindowSize
         /\ d.requiredActions = c.requiredActions
         /\ MissingActions(d) = MissingActions(c) \ {action}
<1>1. c.fulfilledActions \cup {action} \in SUBSET Actions
  BY DEF Schemes
<1>2. /\ d \in Schemes /\ d.time = c.time /\ d.timeWindows = c.timeWindows
      /\ d.nextTimeWindowSize = c.nextTimeWindowSize
      /\ d.requiredActions = c.requiredActions
      /\ d.fulfilledActions = c.fulfilledActions \cup {action}
  BY <1>1 DEF Schemes
<1> QED
  BY <1>2 DEF MissingActions

\* requiresWritingCheckpoint(): the checkpoint written is the window's start,
\* since the action is only required there.
LEMMA RequiresWritingCheckpointStep ==
  ASSUME IInv, config' = config, NEW p \in Participants, RequiresWritingCheckpoint(p)
  PROVE  IInv'
<1> DEFINE c == [scheme[p] EXCEPT !.fulfilledActions = @ \cup {"WriteCheckpoint"}]
           s == [solver[p] EXCEPT !.checkpoint = solver[p].time]
<1>1. TypeOK /\ scheme[p] \in Schemes /\ solver[p] \in Solvers
  BY Types DEF IInv
<1>2. /\ pc[p] = "solving" /\ Consistent("solving", scheme[p], solver[p])
      /\ "WriteCheckpoint" \in MissingActions(scheme[p])
  BY DEF IInv, RequiresWritingCheckpoint
<1>3. /\ scheme' = [scheme EXCEPT ![p] = c]
      /\ solver' = [solver EXCEPT ![p] = s]
      /\ UNCHANGED <<pc, written, received, channel>>
  BY <1>1 DEF RequiresWritingCheckpoint, TypeOK
<1>4. /\ c \in Schemes /\ c.time = scheme[p].time /\ c.timeWindows = scheme[p].timeWindows
      /\ c.nextTimeWindowSize = scheme[p].nextTimeWindowSize
      /\ c.requiredActions = scheme[p].requiredActions
      /\ MissingActions(c) = MissingActions(scheme[p]) \ {"WriteCheckpoint"}
  BY <1>1, FulfilMembers DEF Actions
<1>5. s \in Solvers /\ s.time = solver[p].time /\ s.checkpoint = solver[p].time
  BY <1>1 DEF Solvers
<1>6. scheme[p].time.start + scheme[p].time.progress = Time!TimeOf(scheme[p].time)
      /\ scheme[p].time.start \in Nat
  BY <1>1 DEF Time!TimeOf, Schemes, Time!TimeHandlers
<1> HIDE DEF c, s
<1>7. Consistent("solving", c, s)
  <2>1. SizeIsKnown("solving", c)
    BY <1>2, <1>4 DEF Consistent, SizeIsKnown
  <2>2. /\ "ReadCheckpoint" \notin MissingActions(scheme[p])
        /\ scheme[p].time.progress = 0
        /\ solver[p].time = Time!TimeOf(scheme[p].time)
    BY <1>2 DEF Consistent, InStep, Computing, MissingActions
  <2>3. s.checkpoint = c.time.start
    BY <1>4, <1>5, <1>6, <2>2
  <2>4. InStep("solving", c, s)
    BY <1>4, <1>5, <2>2, <2>3 DEF InStep, InitializeSteps, ExchangeSteps
  <2> QED
    BY <2>1, <2>4 DEF Consistent
<1>8. pc' = [pc EXCEPT ![p] = "solving"] /\ "solving" \in Places
  BY <1>1, <1>2, <1>3, Unchanged DEF Places
<1> QED
  BY <1>1, <1>3, <1>4, <1>5, <1>7, <1>8, StepOf DEF TypeOK

\* requiresReadingCheckpoint(): the solver is back at the window's start, to
\* which secondExchange() has reset the scheme.
LEMMA RequiresReadingCheckpointStep ==
  ASSUME IInv, config' = config, NEW p \in Participants, RequiresReadingCheckpoint(p)
  PROVE  IInv'
<1> DEFINE c == [scheme[p] EXCEPT !.fulfilledActions = @ \cup {"ReadCheckpoint"}]
           s == [solver[p] EXCEPT !.time = solver[p].checkpoint]
<1>1. TypeOK /\ scheme[p] \in Schemes /\ solver[p] \in Solvers
  BY Types DEF IInv
<1>2. /\ pc[p] = "solving" /\ Consistent("solving", scheme[p], solver[p])
      /\ "ReadCheckpoint" \in MissingActions(scheme[p])
  BY DEF IInv, RequiresReadingCheckpoint
<1>3. /\ scheme' = [scheme EXCEPT ![p] = c]
      /\ solver' = [solver EXCEPT ![p] = s]
      /\ UNCHANGED <<pc, written, received, channel>>
  BY <1>1 DEF RequiresReadingCheckpoint, TypeOK
<1>4. /\ c \in Schemes /\ c.time = scheme[p].time /\ c.timeWindows = scheme[p].timeWindows
      /\ c.nextTimeWindowSize = scheme[p].nextTimeWindowSize
      /\ c.requiredActions = scheme[p].requiredActions
      /\ MissingActions(c) = MissingActions(scheme[p]) \ {"ReadCheckpoint"}
  BY <1>1, FulfilMembers DEF Actions
<1>5. s \in Solvers /\ s.time = solver[p].checkpoint /\ s.checkpoint = solver[p].checkpoint
  BY <1>1 DEF Solvers
<1>6. scheme[p].time.start + scheme[p].time.progress = Time!TimeOf(scheme[p].time)
      /\ scheme[p].time.start \in Nat
  BY <1>1 DEF Time!TimeOf, Schemes, Time!TimeHandlers
<1> HIDE DEF c, s
<1>7. Consistent("solving", c, s)
  <2>1. SizeIsKnown("solving", c)
    BY <1>2, <1>4 DEF Consistent, SizeIsKnown
  <2>2. /\ scheme[p].time.progress = 0
        /\ solver[p].checkpoint = scheme[p].time.start
    BY <1>2 DEF Consistent, InStep, Computing
  <2>3. s.time = Time!TimeOf(c.time) /\ s.checkpoint = c.time.start
    BY <1>4, <1>5, <1>6, <2>2
  <2>4. InStep("solving", c, s)
    BY <1>4, <1>5, <2>2, <2>3 DEF InStep, InitializeSteps, ExchangeSteps
  <2> QED
    BY <2>1, <2>4 DEF Consistent
<1>8. pc' = [pc EXCEPT ![p] = "solving"] /\ "solving" \in Places
  BY <1>1, <1>2, <1>3, Unchanged DEF Places
<1> QED
  BY <1>1, <1>3, <1>4, <1>5, <1>7, <1>8, StepOf DEF TypeOK

\* addComputedTime() moves the time of the scheme only.
LEMMA AddComputedTimeMembers ==
  ASSUME NEW c \in Schemes, NEW dt \in Nat, NEW d, d = AddComputedTime(c, dt)
  PROVE  /\ d \in Schemes /\ d.time = Time!ProgressBy(c.time, dt)
         /\ d.timeWindows = c.timeWindows
         /\ d.nextTimeWindowSize = c.nextTimeWindowSize
<1>1. Time!ProgressBy(c.time, dt) \in Time!TimeHandlers
  BY ProgressByMovesTime DEF Schemes
<1> QED
  BY <1>1 DEF AddComputedTime, Schemes

\* firstExchange() counts the window it ends and clears the actions.
LEMMA FirstExchangeMembers ==
  ASSUME NEW c \in Schemes, NEW d, d = FirstExchange(c)
  PROVE  /\ d \in Schemes /\ d.time = c.time
         /\ d.timeWindows = IF ReachedEndOfTimeWindow(c) THEN c.timeWindows + 1
                            ELSE c.timeWindows
         /\ d.nextTimeWindowSize = c.nextTimeWindowSize
         /\ d.requiredActions = {} /\ d.fulfilledActions = {}
<1> DEFINE e == ClearActions(c)
           windows == IF ReachedEndOfTimeWindow(c) THEN c.timeWindows + 1 ELSE c.timeWindows
<1>1. windows \in Nat
  BY DEF Schemes
<1>2. /\ e \in Schemes /\ e.time = c.time /\ e.nextTimeWindowSize = c.nextTimeWindowSize
      /\ e.requiredActions = {} /\ e.fulfilledActions = {}
  BY ClearActionsFields
<1>3. d = [e EXCEPT !.hasDataBeenReceived = FALSE, !.isTimeWindowComplete = FALSE,
                    !.timeWindows = windows]
  BY ClearActionsFields DEF FirstExchange
<1> HIDE DEF e, windows
<1>4. /\ d \in Schemes /\ d.time = e.time /\ d.timeWindows = windows
      /\ d.nextTimeWindowSize = e.nextTimeWindowSize
      /\ d.requiredActions = e.requiredActions /\ d.fulfilledActions = e.fulfilledActions
  BY <1>1, <1>2, <1>3 DEF Schemes
<1> QED
  BY <1>2, <1>4 DEF windows

\* samplizeWriteData() stores a sample at the time of the scheme.
LEMMA SamplizeType ==
  ASSUME TypeOK, NEW p \in Participants, NEW c \in Schemes, NEW dt \in Nat
  PROVE  SamplizeWriteData(p, c, dt) \in SUBSET Samples
<1>1. /\ Time!TimeOf(c.time) \in Nat /\ Round(c) \in Nat
      /\ solver[p].time + dt \in Nat /\ written[p] \in SUBSET Samples
  BY Types, TimeOfType DEF Schemes, Round, Solvers
<1>2. {[t |-> 0, at |-> solver[p].time + dt, round |-> Round(c)]} \in SUBSET Samples
  BY <1>1 DEF Samples
<1> QED
  BY <1>1, <1>2, StoreTypes DEF SamplizeWriteData

\* Where advance() enters its exchange
FirstPlaces == {"sendTimeWindowSize", "sendData", "sendConvergence", "receiveData"}

\* advance() up to the exchange moves the solver and the scheme by the same step,
\* and leaves the checkpoint where the window starts.
LEMMA AdvanceStep ==
  ASSUME IInv, config' = config, NEW p \in Participants, NEW place \in FirstPlaces,
         place = "sendTimeWindowSize" => TimeWindowSize = Undefined,
         Advance(p, place)
  PROVE  IInv'
<1>1. TypeOK /\ scheme[p] \in Schemes /\ solver[p] \in Solvers
  BY Types DEF IInv
<1>2. PICK dt \in 1 .. StepBound :
        LET c == AddComputedTime(scheme[p], dt)
            windowEnd == ReachedEndOfTimeWindow(c)
        IN  /\ scheme' = [scheme EXCEPT ![p] = FirstExchange(c)]
            /\ written' = [written EXCEPT ![p] = IF windowEnd \/ p \in Substeps
                                                 THEN SamplizeWriteData(p, c, dt) ELSE @]
            /\ solver' = [solver EXCEPT ![p].time = @ + dt]
            /\ Goto(p, IF windowEnd THEN place ELSE "solving")
  BY DEF Advance
<1> DEFINE c == AddComputedTime(scheme[p], dt)
           d == FirstExchange(c)
           s == [solver[p] EXCEPT !.time = @ + dt]
           next == IF ReachedEndOfTimeWindow(c) THEN place ELSE "solving"
<1>3. dt \in Nat
  BY ConfigAssumption
<1>4. /\ pc[p] = "solving" /\ Consistent("solving", scheme[p], solver[p])
      /\ IsCouplingOngoing(scheme[p]) /\ MissingActions(scheme[p]) = {}
      /\ UNCHANGED <<received, channel>>
  BY DEF IInv, Advance, At
<1>5. /\ c \in Schemes /\ c.time = Time!ProgressBy(scheme[p].time, dt)
      /\ c.timeWindows = scheme[p].timeWindows
      /\ c.nextTimeWindowSize = scheme[p].nextTimeWindowSize
  BY <1>1, <1>3, AddComputedTimeMembers
<1>6. /\ d \in Schemes /\ d.time = c.time
      /\ d.timeWindows = IF ReachedEndOfTimeWindow(c) THEN c.timeWindows + 1
                         ELSE c.timeWindows
      /\ d.nextTimeWindowSize = c.nextTimeWindowSize
      /\ d.requiredActions = {} /\ d.fulfilledActions = {}
  BY <1>5, FirstExchangeMembers
<1>7. s \in Solvers /\ s.time = solver[p].time + dt /\ s.checkpoint = solver[p].checkpoint
  BY <1>1, <1>3 DEF Solvers
<1>8. /\ scheme' = [scheme EXCEPT ![p] = d] /\ solver' = [solver EXCEPT ![p] = s]
      /\ pc' = [pc EXCEPT ![p] = next]
  BY <1>1, <1>2 DEF Goto, TypeOK
<1>9. written' \in [Participants -> SUBSET Samples]
  BY <1>1, <1>2, <1>3, <1>5, SamplizeType DEF TypeOK
<1>10. next \in FirstPlaces \cup {"solving"} /\ (next = "solving" \/ ReachedEndOfTimeWindow(c))
       /\ (next = "sendTimeWindowSize" => TimeWindowSize = Undefined)
  BY DEF FirstPlaces
<1> HIDE DEF c, d, s, next
<1>11. SizeIsKnown(next, d)
  <2>1. SizeIsKnown("solving", scheme[p]) /\ scheme[p].timeWindows \in Nat
    BY <1>1, <1>4 DEF Consistent, Schemes
  <2> QED
    BY <1>5, <1>6, <1>10, <2>1 DEF SizeIsKnown, FirstPlaces, ExchangeSteps
<1>12. InStep(next, d, s)
  <2>1. /\ solver[p].time = Time!TimeOf(scheme[p].time)
        /\ Implicit => solver[p].checkpoint = scheme[p].time.start
    BY <1>4 DEF Consistent, InStep, Computing
  <2>2. /\ Time!TimeOf(d.time) = Time!TimeOf(scheme[p].time) + dt
        /\ d.time.start = scheme[p].time.start
    <3>1. scheme[p].time \in Time!TimeHandlers
      BY <1>1 DEF Schemes
    <3>2. d.time = Time!ProgressBy(scheme[p].time, dt)
      BY <1>5, <1>6
    <3> QED
      BY <1>3, <3>1, <3>2, ProgressByMovesTime
  <2>3. MissingActions(d) = {}
    BY <1>6 DEF MissingActions
  <2> QED
    BY <1>6, <1>7, <1>10, <2>1, <2>2, <2>3
       DEF InStep, FirstPlaces, InitializeSteps, ExchangeSteps
<1>13. next \in Places
  BY <1>10 DEF FirstPlaces, Places, ExchangeSteps
<1> QED
  BY <1>1, <1>4, <1>6, <1>7, <1>8, <1>9, <1>11, <1>12, <1>13, StepOf DEF Consistent, TypeOK

--------------------------------------------------------------------------------
(* Ends *)

Closing == {"receivePing", "receivePong", "finalized", "failed"}

\* Leaving the coupling asks nothing more of scheme and solver.
LEMMA ClosingConsistent ==
  ASSUME NEW from, NEW place \in Closing, NEW c, NEW s, SizeIsKnown(from, c)
  PROVE  Consistent(place, c, s) /\ place \in Places
BY DEF Consistent, SizeIsKnown, InStep, Closing, Computing, InitializeSteps, ExchangeSteps,
       Places, Ends

\* A step that leaves the coupling keeps the invariant.
LEMMA ClosingStep ==
  ASSUME IInv, config' = config, NEW p \in Participants, NEW place \in Closing,
         pc' = [pc EXCEPT ![p] = place],
         \/ scheme' = [scheme EXCEPT ![p] = ClearActions(@)]
         \/ scheme' = scheme,
         channel' \in [Participants -> Seq(Messages)],
         UNCHANGED <<written, received, solver>>
  PROVE  IInv'
<1>1. TypeOK /\ scheme[p] \in Schemes /\ solver[p] \in Solvers
  BY Types DEF IInv
<1>2. SizeIsKnown(pc[p], scheme[p])
  BY DEF IInv, Consistent
<1>3. PICK c \in Schemes : /\ c.timeWindows = scheme[p].timeWindows
                           /\ c.nextTimeWindowSize = scheme[p].nextTimeWindowSize
                           /\ scheme' = [scheme EXCEPT ![p] = c]
  BY <1>1, ClearActionsFields, Unchanged
<1>4. SizeIsKnown(pc[p], c)
  BY <1>2, <1>3 DEF SizeIsKnown
<1>5. Consistent(place, c, solver[p]) /\ place \in Places
  BY <1>4, ClosingConsistent
<1>6. solver' = [solver EXCEPT ![p] = solver[p]]
  BY <1>1, Unchanged
<1> QED
  BY <1>1, <1>3, <1>5, <1>6, StepOf DEF TypeOK

\* finalize() leaves the coupling.
LEMMA FinalizeStep ==
  ASSUME IInv, config' = config, NEW p \in Participants, Finalize(p)
  PROVE  IInv'
<1>1. TypeOK
  BY DEF IInv
<1>2. PICK place \in Closing : pc' = [pc EXCEPT ![p] = place]
  BY DEF Finalize, CloseCommunicationChannels, Goto, Closing
<1>3. [kind |-> "ping"] \in Messages
  BY DEF Messages
<1>4. channel' \in [Participants -> Seq(Messages)]
  <2>1. CASE WaitInFinalize /\ p = Requesting
    BY <1>1, <1>3, <2>1, SendType DEF Finalize, CloseCommunicationChannels
  <2>2. CASE ~(WaitInFinalize /\ p = Requesting)
    BY <1>1, <2>2 DEF Finalize, CloseCommunicationChannels, TypeOK
  <2> QED
    BY <2>1, <2>2
<1> QED
  BY <1>2, <1>4, ClosingStep DEF Finalize

\* The side that is pinged answers and leaves the coupling.
LEMMA ReceivePingStep ==
  ASSUME IInv, config' = config, NEW p \in Participants, ReceivePing(p)
  PROVE  IInv'
<1>1. TypeOK /\ channel[p] # <<>>
  BY DEF IInv, ReceivePing, HasMessage
<1>2. [kind |-> "pong"] \in Messages
  BY DEF Messages
<1>3. /\ Tail(channel[p]) \in Seq(Messages)
      /\ Append(channel[Other(p)], [kind |-> "pong"]) \in Seq(Messages)
  BY <1>1, <1>2, Types
<1>4. Other(p) # p
  BY ConfigAssumption DEF Other, Participants
<1>5. channel' \in [Participants -> Seq(Messages)]
  BY <1>1, <1>3, <1>4 DEF ReceivePing, TypeOK
<1> QED
  BY <1>5, ClosingStep DEF ReceivePing, Goto, Closing

\* The side that pinged leaves the coupling.
LEMMA ReceivePongStep ==
  ASSUME IInv, config' = config, NEW p \in Participants, ReceivePong(p)
  PROVE  IInv'
<1>1. TypeOK /\ channel[p] # <<>>
  BY DEF IInv, ReceivePong, HasMessage
<1>2. channel' \in [Participants -> Seq(Messages)]
  BY <1>1, ReceiveType DEF ReceivePong
<1> QED
  BY <1>2, ClosingStep DEF ReceivePong, Goto, Closing

\* An error of the partner ends the participant.
LEMMA LosePartnerStep ==
  ASSUME IInv, config' = config, NEW p \in Participants, LosePartner(p)
  PROVE  IInv'
<1>1. channel' \in [Participants -> Seq(Messages)]
  BY DEF IInv, TypeOK, LosePartner
<1> QED
  BY <1>1, ClosingStep DEF LosePartner, Goto, Closing

\* The calls that both schemes leave to their base classes keep the invariant.
LEMMA ApiCallStep ==
  ASSUME IInv, config' = config, NEW p \in Participants, ApiCall(p)
  PROVE  IInv'
BY RequiresWritingCheckpointStep, RequiresReadingCheckpointStep, FinalizeStep,
   ReceivePingStep, ReceivePongStep, LosePartnerStep DEF ApiCall

--------------------------------------------------------------------------------
(* Exchanges of advance() *)

\* Going on inside an exchange changes nothing that InStep says.
LEMMA ExchangeConsistent ==
  ASSUME NEW from \in ExchangeSteps, NEW place \in ExchangeSteps, NEW c, NEW s,
         InStep(from, c, s), SizeIsKnown(place, c)
  PROVE  Consistent(place, c, s)
BY DEF InStep, Consistent, Computing, InitializeSteps, ExchangeSteps

\* What holds inside an exchange, and what secondExchange() needs
LEMMA InsideExchange ==
  ASSUME IInv, NEW p \in Participants, pc[p] \in ExchangeSteps
  PROVE  /\ SizeIsKnown("sendData", scheme[p])
         /\ InStep(pc[p], scheme[p], solver[p])
         /\ solver[p].time = Time!TimeOf(scheme[p].time)
         /\ Implicit => solver[p].checkpoint = scheme[p].time.start
<1>1. SizeIsKnown(pc[p], scheme[p]) /\ InStep(pc[p], scheme[p], solver[p])
  BY DEF IInv, Consistent
<1>2. SizeIsKnown("sendData", scheme[p])
  BY <1>1 DEF SizeIsKnown, ExchangeSteps
<1> QED
  BY <1>1, <1>2 DEF InStep, Computing, MissingActions

\* A step inside an exchange
LEMMA ExchangeStep ==
  ASSUME IInv, config' = config, NEW p \in Participants, pc[p] \in ExchangeSteps,
         NEW place \in ExchangeSteps, pc' = [pc EXCEPT ![p] = place],
         NEW c \in Schemes, scheme' = [scheme EXCEPT ![p] = c],
         c.time = scheme[p].time, c.timeWindows = scheme[p].timeWindows,
         c.requiredActions = scheme[p].requiredActions,
         c.fulfilledActions = scheme[p].fulfilledActions,
         SizeIsKnown(place, c),
         channel' \in [Participants -> Seq(Messages)],
         written' \in [Participants -> SUBSET Samples],
         received' \in [Participants -> SUBSET Samples],
         UNCHANGED solver
  PROVE  IInv'
<1>1. TypeOK /\ solver[p] \in Solvers
  BY Types DEF IInv
<1>2. InStep(pc[p], scheme[p], solver[p])
  BY InsideExchange
<1>3. InStep(pc[p], c, solver[p])
  <2>1. IsCouplingOngoing(c) <=> IsCouplingOngoing(scheme[p])
    BY OngoingByTime
  <2>2. MissingActions(c) = MissingActions(scheme[p])
    BY DEF MissingActions
  <2> QED
    BY <1>2, <2>1, <2>2 DEF InStep
<1>4. Consistent(place, c, solver[p])
  BY <1>3, ExchangeConsistent
<1>5. solver' = [solver EXCEPT ![p] = solver[p]] /\ place \in Places
  BY <1>1, Unchanged DEF Places
<1> QED
  BY <1>1, <1>4, <1>5, StepOf

\* The end of an exchange
LEMMA FinishAdvanceStep ==
  ASSUME IInv, config' = config, NEW p \in Participants, pc[p] \in ExchangeSteps,
         NEW c, c \in {scheme[p], NotifyDataHasBeenReceived(scheme[p])},
         NEW w \in SUBSET Samples, NEW r \in SUBSET Samples,
         FinishAdvance(p, c, w, r),
         channel' \in [Participants -> Seq(Messages)]
  PROVE  IInv'
<1>1. TypeOK /\ scheme[p] \in Schemes /\ solver[p] \in Solvers
  BY Types DEF IInv
<1>2. /\ c \in Schemes /\ c.time = scheme[p].time /\ c.timeWindows = scheme[p].timeWindows
      /\ c.nextTimeWindowSize = scheme[p].nextTimeWindowSize
  BY <1>1, NotifyMembers
<1>3. /\ SizeIsKnown("sendData", c) /\ solver[p].time = Time!TimeOf(c.time)
      /\ Implicit => solver[p].checkpoint = c.time.start
  BY <1>2, InsideExchange DEF SizeIsKnown
<1> DEFINE d == SecondExchange(c)
<1>4. d \in Schemes /\ Consistent("solving", d, solver[p])
  BY <1>2, <1>3, SecondExchangeConsistent
<1>5. /\ scheme' = [scheme EXCEPT ![p] = d]
      /\ pc' = [pc EXCEPT ![p] = "solving"] /\ "solving" \in Places
      /\ solver' = [solver EXCEPT ![p] = solver[p]]
  BY <1>1, Unchanged DEF FinishAdvance, Goto, Places
<1>6. Time!TimeOf(d.time) \in Nat
  BY <1>4, TimeOfType DEF Schemes
<1>7. /\ TrimBefore(w, Time!TimeOf(d.time)) \in SUBSET Samples
      /\ TrimAfter(w, Time!TimeOf(d.time)) \in SUBSET Samples
      /\ TrimBefore(r, Time!TimeOf(d.time)) \in SUBSET Samples
  BY <1>6 DEF TrimBefore, TrimAfter
<1>8. /\ written' \in [Participants -> SUBSET Samples]
      /\ received' \in [Participants -> SUBSET Samples]
  BY <1>1, <1>7 DEF FinishAdvance, TypeOK
<1> QED
  BY <1>1, <1>4, <1>5, <1>8, StepOf

\* moveToNextWindow() keeps a storage a set of samples.
LEMMA MovedType ==
  ASSUME NEW c, NEW store \in SUBSET Samples
  PROVE  Moved(c, store) \in SUBSET Samples
BY DEF Moved, MoveToNextWindow, Last

\* First sends its data and waits for Second's answer.
LEMMA FirstSendsDataStep ==
  ASSUME IInv, config' = config, NEW p \in Participants, FirstSendsData(p)
  PROVE  IInv'
<1>1. TypeOK /\ scheme[p] \in Schemes /\ pc[p] \in ExchangeSteps
  BY Types DEF IInv, FirstSendsData, At, ExchangeSteps
<1>2. PICK place \in {"receiveConvergence", "receiveData"} : pc' = [pc EXCEPT ![p] = place]
  BY DEF FirstSendsData, Goto
<1>3. place \in ExchangeSteps /\ SizeIsKnown(place, scheme[p])
  BY <1>1, InsideExchange DEF SizeIsKnown, ExchangeSteps
<1>4. channel' \in [Participants -> Seq(Messages)]
  BY <1>1, SendStoredType DEF FirstSendsData
<1> QED
  BY <1>1, <1>2, <1>3, <1>4, Unchanged, ExchangeStep DEF FirstSendsData, TypeOK

\* Second's data arrives and First's advance ends.
LEMMA FirstReceivesDataStep ==
  ASSUME IInv, config' = config, NEW p \in Participants, FirstReceivesData(p)
  PROVE  IInv'
<1> DEFINE c == NotifyDataHasBeenReceived(scheme[p])
<1>1. TypeOK /\ scheme[p] \in Schemes /\ pc[p] \in ExchangeSteps /\ written[p] \in SUBSET Samples
  BY Types DEF IInv, FirstReceivesData, At, ExchangeSteps
<1>2. /\ \A time \in Nat : ReceivedAt(p, time) \in SUBSET Samples
      /\ channel' \in [Participants -> Seq(Messages)]
  BY <1>1, ReceiveDataTypes DEF FirstReceivesData
<1>3. c \in Schemes /\ Time!TimeOf(c.time) \in Nat
  BY <1>1, NotifyMembers, TimeOfType DEF Schemes
<1>4. /\ Moved(c, written[p]) \in SUBSET Samples
      /\ Moved(c, ReceivedAt(p, Time!TimeOf(c.time))) \in SUBSET Samples
  BY <1>1, <1>2, <1>3, MovedType
<1>5. FinishAdvance(p, c, Moved(c, written[p]), Moved(c, ReceivedAt(p, Time!TimeOf(c.time))))
  BY DEF FirstReceivesData
<1> HIDE DEF c
<1> QED
  BY <1>1, <1>2, <1>4, <1>5, FinishAdvanceStep DEF c

\* First takes over the verdict of Second.
LEMMA ReceiveConvergenceStep ==
  ASSUME IInv, config' = config, NEW p \in Participants, ReceiveConvergence(p)
  PROVE  IInv'
<1> DEFINE c == [scheme[p] EXCEPT !.hasConverged = Head(channel[p]).hasConverged]
<1>1. TypeOK /\ scheme[p] \in Schemes /\ pc[p] \in ExchangeSteps
  BY Types DEF IInv, ReceiveConvergence, At, ExchangeSteps
<1>2. channel[p] # <<>> /\ Head(channel[p]).hasConverged \in BOOLEAN
  BY <1>1, HeadType DEF ReceiveConvergence
<1>3. /\ c \in Schemes /\ c.time = scheme[p].time /\ c.timeWindows = scheme[p].timeWindows
      /\ c.nextTimeWindowSize = scheme[p].nextTimeWindowSize
      /\ c.requiredActions = scheme[p].requiredActions
      /\ c.fulfilledActions = scheme[p].fulfilledActions
  BY <1>1, <1>2 DEF Schemes
<1>4. scheme' = [scheme EXCEPT ![p] = c] /\ pc' = [pc EXCEPT ![p] = "receiveData"]
  BY <1>1 DEF ReceiveConvergence, Goto, TypeOK
<1>5. channel' \in [Participants -> Seq(Messages)]
  BY <1>1, <1>2, ReceiveType DEF ReceiveConvergence
<1> HIDE DEF c
<1>6. "receiveData" \in ExchangeSteps /\ SizeIsKnown("receiveData", c)
  BY <1>1, <1>3, InsideExchange DEF SizeIsKnown, ExchangeSteps
<1> QED
  BY <1>1, <1>3, <1>4, <1>5, <1>6, ExchangeStep DEF ReceiveConvergence, TypeOK

\* Second judges the iteration, or ends with an error.
LEMMA SendConvergenceStep ==
  ASSUME IInv, config' = config, NEW p \in Participants, SendConvergence(p)
  PROVE  IInv'
<1>1. TypeOK /\ scheme[p] \in Schemes /\ pc[p] \in ExchangeSteps
  BY Types DEF IInv, SendConvergence, At, ExchangeSteps
<1>2. PICK converged \in SUBSET Measuring :
        LET c == DoImplicitStep(scheme[p], converged)
        IN  IF StrictMeasureFails(scheme[p], converged)
            THEN Goto(p, "failed") /\ UNCHANGED <<scheme, channel>>
            ELSE /\ Goto(p, "sendData")
                 /\ scheme' = [scheme EXCEPT ![p] = c]
                 /\ Send(p, [kind |-> "convergence", hasConverged |-> c.hasConverged])
  BY DEF SendConvergence
<1>3. UNCHANGED <<written, received, solver>>
  BY DEF SendConvergence
<1>4. CASE StrictMeasureFails(scheme[p], converged)
  BY <1>1, <1>2, <1>3, <1>4, ClosingStep DEF Goto, Closing, TypeOK
<1>5. CASE ~StrictMeasureFails(scheme[p], converged)
  <2> DEFINE verdict == \/ MeasureConvergence(scheme[p], converged)
                        \/ scheme[p].iterations = MaxIterations
             c == [scheme[p] EXCEPT !.hasConverged = verdict]
  <2>1. verdict \in BOOLEAN /\ c = DoImplicitStep(scheme[p], converged)
    BY DEF DoImplicitStep
  <2> HIDE DEF verdict
  <2>2. /\ c \in Schemes /\ c.time = scheme[p].time /\ c.timeWindows = scheme[p].timeWindows
        /\ c.nextTimeWindowSize = scheme[p].nextTimeWindowSize
        /\ c.requiredActions = scheme[p].requiredActions
        /\ c.fulfilledActions = scheme[p].fulfilledActions
        /\ c.hasConverged \in BOOLEAN
    BY <1>1, <2>1 DEF Schemes
  <2>3. /\ pc' = [pc EXCEPT ![p] = "sendData"] /\ scheme' = [scheme EXCEPT ![p] = c]
        /\ Send(p, [kind |-> "convergence", hasConverged |-> c.hasConverged])
    BY <1>2, <1>5, <2>1 DEF Goto
  <2> HIDE DEF c
  <2>4. [kind |-> "convergence", hasConverged |-> c.hasConverged] \in Messages
    BY <2>2 DEF Messages
  <2>5. channel' \in [Participants -> Seq(Messages)]
    BY <1>1, <2>3, <2>4, SendType
  <2>6. "sendData" \in ExchangeSteps /\ SizeIsKnown("sendData", c)
    BY <1>1, <2>2, InsideExchange DEF SizeIsKnown, ExchangeSteps
  <2> QED
    BY <1>1, <1>3, <2>2, <2>3, <2>5, <2>6, ExchangeStep DEF TypeOK
<1> QED
  BY <1>4, <1>5

--------------------------------------------------------------------------------
(* The invariant as a whole *)

\* The members that the constructors set are in their types, whatever the
\* configuration says.
LEMMA ConstructedType ==
  ASSUME config \in Configurations, NEW p \in Participants,
         NEW c, c = Constructed(p)
  PROVE  /\ c \in Schemes /\ c.time = Time!ResetTo(0) /\ c.timeWindows = 1
         /\ c.nextTimeWindowSize = TimeWindowSize
         /\ c.requiredActions \subseteq {"InitializeData"} /\ c.fulfilledActions = {}
<1> DEFINE required == IF p \in Initializes THEN {"InitializeData"} ELSE {}
<1>1. TimeWindowSize \in Nat \cup {Undefined}
  BY ConfigAssumption DEF Admissible, TimeWindowSize
<1>2. required \in SUBSET Actions /\ required \subseteq {"InitializeData"}
  BY DEF Actions
<1>3. Time!ResetTo(0) \in Time!TimeHandlers
  BY DEF Time!ResetTo, Time!TimeHandlers
<1>4. c = [time |-> Time!ResetTo(0), timeWindows |-> 1,
           timeWindowSize |-> TimeWindowSize, nextTimeWindowSize |-> TimeWindowSize,
           iterations |-> 1, totalIterations |-> 1,
           hasConverged |-> FALSE, isTimeWindowComplete |-> FALSE,
           hasDataBeenReceived |-> FALSE,
           requiredActions |-> required, fulfilledActions |-> {}]
  BY DEF Constructed
<1> HIDE DEF required
<1> QED
  BY <1>1, <1>2, <1>3, <1>4 DEF Schemes

\* What the constructors leave is consistent.
LEMMA InitConsistent ==
  ASSUME Init
  PROVE  IInv
<1>1. config \in Configurations
  BY DEF Init
<1>2. \A p \in Participants : Constructed(p) \in Schemes
  BY <1>1, ConstructedType
<1>3. TypeOK
  BY <1>1, <1>2 DEF Init, TypeOK, Places
<1>4. ASSUME NEW p \in Participants
      PROVE  Consistent(pc[p], scheme[p], solver[p])
  <2> DEFINE c == Constructed(p)
             s == [time |-> 0, checkpoint |-> 0]
  <2>1. pc[p] = "constructed" /\ scheme[p] = c /\ solver[p] = s
    BY DEF Init
  <2>2. /\ c.time = Time!ResetTo(0) /\ c.timeWindows = 1
        /\ c.nextTimeWindowSize = TimeWindowSize
        /\ c.requiredActions \subseteq {"InitializeData"} /\ c.fulfilledActions = {}
    BY <1>1, ConstructedType
  <2> HIDE DEF c
  <2>3. c.time.progress = 0 /\ Time!TimeOf(c.time) = 0
    BY <2>2 DEF Time!ResetTo, Time!TimeOf
  <2>4. SizeIsKnown("constructed", c)
    BY <2>2 DEF SizeIsKnown, ExchangeSteps
  <2>5. InStep("constructed", c, s)
    BY <2>2, <2>3 DEF InStep, MissingActions, InitializeSteps, ExchangeSteps
  <2> QED
    BY <2>1, <2>4, <2>5 DEF Consistent
<1> QED
  BY <1>3, <1>4 DEF IInv

\* A stuttering step keeps the invariant.
LEMMA StutterStep ==
  ASSUME IInv, UNCHANGED vars
  PROVE  IInv'
<1>1. TypeOK'
  BY DEF IInv, TypeOK, vars
<1>2. ASSUME NEW p \in Participants
      PROVE  Consistent(pc[p], scheme[p], solver[p])'
  <2>1. Consistent(pc[p], scheme[p], solver[p]) /\ config' = config
    BY DEF IInv, vars
  <2>2. pc'[p] = pc[p] /\ scheme'[p] = scheme[p] /\ solver'[p] = solver[p]
    BY DEF vars
  <2> QED
    BY <2>1, <2>2, ConsistentNext
<1> QED
  BY <1>1, <1>2 DEF IInv

\* The invariant makes the solver follow its scheme: while nothing is to be
\* read back InStep has the two at the same time, and it has the checkpoint at
\* the start of the window.
LEMMA ConsistentFollows ==
  ASSUME IInv
  PROVE  SolverFollowsScheme
<1> SUFFICES ASSUME NEW p \in Participants, pc[p] = "solving"
             PROVE  LET c == scheme[p]
                    IN  /\ "ReadCheckpoint" \notin MissingActions(c) =>
                             solver[p].time = Time!TimeOf(c.time)
                        /\ Implicit /\ IsCouplingOngoing(c)
                             /\ "WriteCheckpoint" \notin MissingActions(c) =>
                               solver[p].checkpoint = c.time.start
  BY DEF SolverFollowsScheme
<1>1. InStep("solving", scheme[p], solver[p])
  BY DEF IInv, Consistent
<1> QED
  BY <1>1 DEF InStep, Computing
================================================================================
